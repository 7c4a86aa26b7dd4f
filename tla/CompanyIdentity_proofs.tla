----------------------- MODULE CompanyIdentity_proofs -----------------------
(***************************************************************************)
(* Theorems about CompanyIdentity, for any number of accounts, requests and *)
(* companies.                                                                *)
(***************************************************************************)
EXTENDS CompanyIdentity, TLAPS

-----------------------------------------------------------------------------
(* Types.                                                                   *)

(* A request that is under way has the account of its token.                *)
SubKnown ==
    \A r \in Requests : req[r].phase \notin {"new", "done"} => req[r].sub \in Subs

TypeInv == TypeOK /\ SubKnown

(* The email an account may be linked by is an email or none.               *)
LEMMA VerifiedEmailType ==
    ASSUME TypeOK, NEW s \in Subs
    PROVE  VerifiedEmail(s) \in Emails \cup {NoEmail}
BY DEF TypeOK, Account, VerifiedEmail

LEMMA NewType == New \in Request
BY DEF New, Request, Phases, Goals, Replies

(* A request that arrives or is answered at once: nothing but its own       *)
(* record changes, and it acts for no company.                               *)
LEMMA Arrival ==
    ASSUME TypeOK, NEW r \in Requests,
           \/ \E goal \in Goals : Anonymous(r, goal) \/ RejectToken(r, goal)
           \/ \E s \in Subs, goal \in Goals : AcceptToken(r, s, goal)
           \/ NextRequest(r)
    PROVE  /\ UNCHANGED <<account, companies, withdrawn>>
           /\ req' \in [Requests -> Request]
           /\ \A q \in Requests \ {r} : req'[q] = req[q]
           /\ req'[r].company = NoCompany
           /\ req'[r].phase \in {"new", "verified", "done"}
           /\ req'[r].phase = "verified" => req'[r].sub \in Subs
           /\ req'[r].reply # "500"
           /\ \A c \in req'[r].gone : companies[c].state = "deleted"
<1> DEFINE Conclusion(q) ==
      /\ q \in Request
      /\ q.company = NoCompany
      /\ q.phase \in {"new", "verified", "done"}
      /\ q.phase = "verified" => q.sub \in Subs
      /\ q.reply # "500"
      /\ \A c \in q.gone : companies[c].state = "deleted"
<1>1. ASSUME NEW q, Conclusion(q), req' = [req EXCEPT ![r] = q]
      PROVE  /\ req' \in [Requests -> Request]
             /\ \A p \in Requests \ {r} : req'[p] = req[p]
             /\ Conclusion(req'[r])
  <2>1. q \in Request BY <1>1
  <2>2. req'[r] = q BY <1>1 DEF TypeOK
  <2> HIDE DEF Conclusion
  <2> QED BY <1>1, <2>1, <2>2 DEF TypeOK
<1>2. \E q : Conclusion(q) /\ req' = [req EXCEPT ![r] = q]
  <2>1. ASSUME NEW goal \in Goals, Anonymous(r, goal) \/ RejectToken(r, goal)
        PROVE  \E q : Conclusion(q) /\ req' = [req EXCEPT ![r] = q]
    <3> DEFINE q(code) == [New EXCEPT !.phase = "done", !.goal = goal, !.reply = code]
    <3>1. \A code \in {"200", "401", "503"} : Conclusion(q(code))
      BY NewType DEF New, Request, Phases, Replies
    <3>2. \E code \in {"200", "401", "503"} : req' = [req EXCEPT ![r] = q(code)]
      BY <2>1 DEF Anonymous, RejectToken
    <3> HIDE DEF q, Conclusion
    <3> QED BY <3>1, <3>2
  <2>2. ASSUME NEW s \in Subs, NEW goal \in Goals, AcceptToken(r, s, goal)
        PROVE  \E q : Conclusion(q) /\ req' = [req EXCEPT ![r] = q]
    <3> DEFINE q == [New EXCEPT !.phase = "verified", !.sub = s, !.goal = goal,
                                !.gone = {c \in Slots : companies[c].state = "deleted"}]
    <3>1. Conclusion(q) BY NewType DEF New, Request, Phases
    <3>2. req' = [req EXCEPT ![r] = q] BY <2>2 DEF AcceptToken
    <3> HIDE DEF q, Conclusion
    <3> QED BY <3>1, <3>2
  <2>3. CASE NextRequest(r)
    <3>1. Conclusion(New) BY NewType DEF New
    <3> HIDE DEF Conclusion
    <3> QED BY <2>3, <3>1 DEF NextRequest
  <2> HIDE DEF Conclusion
  <2> QED BY <2>1, <2>2, <2>3
<1>3. UNCHANGED <<account, companies, withdrawn>>
  BY DEF Anonymous, RejectToken, AcceptToken, NextRequest
<1>4. /\ req' \in [Requests -> Request]
      /\ \A p \in Requests \ {r} : req'[p] = req[p]
      /\ Conclusion(req'[r])
  <2> HIDE DEF Conclusion
  <2> QED BY <1>1, <1>2
<1> QED BY <1>3, <1>4

(* The three ways a step writes its request's record.                       *)
LEMMA Written ==
    ASSUME TypeOK, NEW r \in Requests,
           \/ \E phase \in Phases : Goto(r, phase)
           \/ \E code \in Replies : Reply(r, code)
           \/ \E c \in Slots : ActFor(r, c)
    PROVE  /\ req' \in [Requests -> Request]
           /\ \A q \in Requests \ {r} : req'[q] = req[q]
           /\ req'[r].sub = req[r].sub /\ req'[r].gone = req[r].gone
<1>1. ASSUME NEW q \in Request, req' = [req EXCEPT ![r] = q],
             q.sub = req[r].sub, q.gone = req[r].gone
      PROVE  /\ req' \in [Requests -> Request]
             /\ \A p \in Requests \ {r} : req'[p] = req[p]
             /\ req'[r].sub = req[r].sub /\ req'[r].gone = req[r].gone
  BY <1>1 DEF TypeOK
<1>2. req[r] \in Request BY DEF TypeOK
<1>3. ASSUME NEW phase \in Phases, Goto(r, phase)
      PROVE  \E q \in Request : /\ req' = [req EXCEPT ![r] = q]
                                /\ q.sub = req[r].sub /\ q.gone = req[r].gone
  <2> DEFINE q == [req[r] EXCEPT !.phase = phase]
  <2>1. q \in Request /\ q.sub = req[r].sub /\ q.gone = req[r].gone BY <1>2 DEF Request
  <2>2. req' = [req EXCEPT ![r] = q] BY <1>3 DEF Goto
  <2> QED BY <2>1, <2>2
<1>4. ASSUME NEW code \in Replies, Reply(r, code)
      PROVE  \E q \in Request : /\ req' = [req EXCEPT ![r] = q]
                                /\ q.sub = req[r].sub /\ q.gone = req[r].gone
  <2> DEFINE q == [req[r] EXCEPT !.phase = "done", !.reply = code]
  <2>1. q \in Request /\ q.sub = req[r].sub /\ q.gone = req[r].gone
    BY <1>2 DEF Request, Phases
  <2>2. req' = [req EXCEPT ![r] = q] BY <1>2, <1>4 DEF Reply, TypeOK
  <2> QED BY <2>1, <2>2
<1>5. ASSUME NEW c \in Slots, ActFor(r, c)
      PROVE  \E q \in Request : /\ req' = [req EXCEPT ![r] = q]
                                /\ q.sub = req[r].sub /\ q.gone = req[r].gone
  <2> DEFINE q == [req[r] EXCEPT !.phase = "endpoint", !.company = c]
  <2>1. q \in Request /\ q.sub = req[r].sub /\ q.gone = req[r].gone
    BY <1>2 DEF Request, Phases
  <2>2. req' = [req EXCEPT ![r] = q] BY <1>2, <1>5 DEF ActFor, TypeOK
  <2> QED BY <2>1, <2>2
<1> QED BY <1>1, <1>3, <1>4, <1>5

(* A step of a request changes its own record only, and neither its account *)
(* nor what had been withdrawn when it began.                                *)
LEMMA StepFrame ==
    ASSUME TypeOK, NEW r \in Requests, Step(r)
    PROVE  /\ req' \in [Requests -> Request]
           /\ \A q \in Requests \ {r} : req'[q] = req[q]
           /\ req'[r].sub = req[r].sub /\ req'[r].gone = req[r].gone
           /\ req[r].phase \notin {"new", "done"}
           /\ req[r].phase \in Phases /\ req'[r].phase # "new"
           /\ account' = account
<1> USE DEF TypeOK, Request, Phases, Replies
<1>1. CASE RefuseWithdrawn(r) BY <1>1 DEF RefuseWithdrawn, Reply, Goto
<1>2. CASE FindBySub(r) BY <1>2 DEF FindBySub, BySub, ActFor, Goto
<1>3. CASE FindByEmail(r) BY <1>3 DEF FindByEmail, ByEmail, ActFor, Goto
<1>4. CASE Link(r) BY <1>4 DEF Link, ActFor, Reply
<1>5. CASE Insert(r) BY <1>5 DEF Insert, ActFor, Goto
<1>6. CASE Converge(r) BY <1>6 DEF Converge, BySub, ActFor, Reply
<1>7. CASE Browse(r) \/ GetMe(r) \/ FindToDelete(r)
  <2>1. \/ \E code \in Replies : Reply(r, code)
        \/ \E phase \in Phases : Goto(r, phase) /\ phase # "new"
    BY <1>7 DEF Browse, GetMe, FindToDelete
  <2>2. req[r].phase = "endpoint" BY <1>7 DEF Browse, GetMe, FindToDelete
  <2>3. req'[r].phase # "new" BY <2>1 DEF Reply, Goto
  <2>4. account' = account BY <1>7 DEF Browse, GetMe, FindToDelete
  <2> QED BY <2>1, <2>2, <2>3, <2>4, Written
<1>8. CASE SoftDelete(r)
  <2>1. Reply(r, "204") /\ "204" \in Replies BY <1>8 DEF SoftDelete
  <2>2. req[r].phase = "delete" /\ account' = account BY <1>8 DEF SoftDelete
  <2>3. req'[r].phase # "new" BY <2>1 DEF Reply
  <2> QED BY <2>1, <2>2, <2>3, Written
<1> QED BY <1>1, <1>2, <1>3, <1>4, <1>5, <1>6, <1>7, <1>8 DEF Step

(* Of a step only these three change a row.                                 *)
LEMMA RowsStay ==
    ASSUME NEW r \in Requests, Step(r), ~Link(r), ~Insert(r), ~SoftDelete(r)
    PROVE  UNCHANGED <<companies, withdrawn>>
BY DEF Step, RefuseWithdrawn, FindBySub, FindByEmail, Converge, Browse, GetMe, FindToDelete

(* The rows after a link, an insert and a withdrawal.                       *)
LEMMA LinkRows ==
    ASSUME TypeInv, NEW r \in Requests, Link(r)
    PROVE  /\ companies' \in [Slots -> Company] /\ withdrawn' = withdrawn
           /\ \/ /\ SubTaken(req[r].sub, req[r].company)
                 /\ companies' = companies
                 /\ req'[r].phase = "done" /\ req'[r].reply = "500"
              \/ /\ ~SubTaken(req[r].sub, req[r].company)
                 /\ \A c \in Slots : c # req[r].company => companies'[c] = companies[c]
                 /\ \A c \in Slots : c = req[r].company =>
                      /\ companies'[c].sub = req[r].sub
                      /\ companies'[c].email = companies[c].email
                      /\ companies'[c].state = companies[c].state
                 /\ req'[r].phase = "endpoint" /\ req'[r].company = req[r].company
                 /\ req'[r].reply = req[r].reply
<1> USE DEF TypeInv, TypeOK
<1>1. req[r] \in Request /\ req[r].sub \in Subs BY DEF Link, SubKnown
<1>2. \A c \in Slots : [companies[c] EXCEPT !.sub = req[r].sub] \in Company
  BY <1>1 DEF Company
<1>3. CASE SubTaken(req[r].sub, req[r].company)
  BY <1>1, <1>3 DEF Link, Reply, Request
<1>4. CASE ~SubTaken(req[r].sub, req[r].company)
  <2>1. companies' = [companies EXCEPT ![req[r].company].sub = req[r].sub] BY <1>4 DEF Link
  <2>2. \A c \in Slots : c # req[r].company => companies'[c] = companies[c] BY <2>1
  <2>3. \A c \in Slots : c = req[r].company =>
          companies'[c] = [companies[c] EXCEPT !.sub = req[r].sub]
    BY <2>1
  <2>4. companies' \in [Slots -> Company] BY <1>2, <2>1, <2>2, <2>3
  <2>5. \A c \in Slots : c = req[r].company =>
          /\ companies'[c].sub = req[r].sub
          /\ companies'[c].email = companies[c].email
          /\ companies'[c].state = companies[c].state
    BY <2>3 DEF Company
  <2>6. /\ req'[r].phase = "endpoint" /\ req'[r].company = req[r].company
        /\ req'[r].reply = req[r].reply /\ withdrawn' = withdrawn
    BY <1>1, <1>4 DEF Link, ActFor, Request
  <2> QED BY <1>4, <2>2, <2>4, <2>5, <2>6
<1> QED BY <1>3, <1>4

LEMMA InsertRows ==
    ASSUME TypeInv, NEW r \in Requests, Insert(r)
    PROVE  /\ companies' \in [Slots -> Company] /\ withdrawn' = withdrawn
           /\ req'[r].reply = req[r].reply
           /\ \/ /\ SubTaken(req[r].sub, NoCompany)
                 /\ companies' = companies
                 /\ req'[r].phase = "converge" /\ req'[r].company = req[r].company
              \/ /\ ~SubTaken(req[r].sub, NoCompany)
                 /\ \E c \in Slots :
                      /\ companies[c].state = "absent"
                      /\ \A d \in Slots : d # c => companies'[d] = companies[d]
                      /\ companies'[c] = [sub |-> req[r].sub, email |-> VerifiedEmail(req[r].sub),
                                          state |-> "active"]
                      /\ req'[r].phase = "endpoint" /\ req'[r].company = c
<1> USE DEF TypeInv, TypeOK
<1>1. req[r] \in Request /\ req[r].sub \in Subs BY DEF Insert, SubKnown
<1> DEFINE row == [sub |-> req[r].sub, email |-> VerifiedEmail(req[r].sub), state |-> "active"]
<1>2. row \in Company BY <1>1, VerifiedEmailType DEF Company
<1>3. CASE SubTaken(req[r].sub, NoCompany)
  BY <1>1, <1>3 DEF Insert, Goto, Request
<1>4. CASE ~SubTaken(req[r].sub, NoCompany)
  <2>1. PICK c \in Slots : /\ companies[c].state = "absent"
                           /\ companies' = [companies EXCEPT ![c] = row]
                           /\ ActFor(r, c)
    BY <1>4 DEF Insert
  <2> HIDE DEF row
  <2>2. companies' \in [Slots -> Company] BY <1>2, <2>1
  <2>3. /\ \A d \in Slots : d # c => companies'[d] = companies[d]
        /\ companies'[c] = row
    BY <2>1
  <2>4. /\ req'[r].phase = "endpoint" /\ req'[r].company = c
        /\ req'[r].reply = req[r].reply /\ withdrawn' = withdrawn
    BY <1>1, <2>1 DEF ActFor, Request, Insert
  <2> QED BY <1>4, <2>1, <2>2, <2>3, <2>4 DEF row
<1> QED BY <1>3, <1>4

LEMMA SoftDeleteRows ==
    ASSUME TypeInv, NEW r \in Requests, SoftDelete(r)
    PROVE  /\ companies' \in [Slots -> Company]
           /\ withdrawn' = withdrawn \cup {req[r].sub} /\ req[r].sub \in Subs
           /\ \A c \in Slots : c # req[r].company => companies'[c] = companies[c]
           /\ \A c \in Slots : c = req[r].company =>
                /\ companies'[c].sub = companies[c].sub
                /\ companies'[c].email = companies[c].email
                /\ companies'[c].state = "deleted"
           /\ req'[r].phase = "done" /\ req'[r].reply = "204"
           /\ req'[r].company = req[r].company
<1> USE DEF TypeInv, TypeOK
<1>1. req[r] \in Request /\ req[r].sub \in Subs BY DEF SoftDelete, SubKnown
<1>2. \A c \in Slots : [companies[c] EXCEPT !.state = "deleted"] \in Company
  BY DEF Company
<1>3. companies' = [companies EXCEPT ![req[r].company].state = "deleted"] BY DEF SoftDelete
<1>4. \A c \in Slots : c # req[r].company => companies'[c] = companies[c] BY <1>3
<1>5. \A c \in Slots : c = req[r].company =>
        companies'[c] = [companies[c] EXCEPT !.state = "deleted"]
  BY <1>3
<1>6. companies' \in [Slots -> Company] BY <1>2, <1>3, <1>4, <1>5
<1>7. \A c \in Slots : c = req[r].company =>
        /\ companies'[c].sub = companies[c].sub
        /\ companies'[c].email = companies[c].email
        /\ companies'[c].state = "deleted"
  BY <1>5 DEF Company
<1>8. /\ req'[r].phase = "done" /\ req'[r].reply = "204"
      /\ req'[r].company = req[r].company
  BY <1>1 DEF SoftDelete, Reply, Request
<1> QED BY <1>1, <1>4, <1>6, <1>7, <1>8 DEF SoftDelete

(* What becomes of any step, for the invariants below.                      *)
LEMMA StepCases ==
    ASSUME [Next]_vars
    PROVE  \/ \E r \in Requests :
                 \/ \E goal \in Goals : Anonymous(r, goal) \/ RejectToken(r, goal)
                 \/ \E s \in Subs, goal \in Goals : AcceptToken(r, s, goal)
                 \/ NextRequest(r)
           \/ \E r \in Requests : Step(r)
           \/ UNCHANGED vars
BY DEF Next

LEMMA TypeStep == TypeInv /\ [Next]_vars => TypeInv'
<1> SUFFICES ASSUME TypeInv, [Next]_vars PROVE TypeInv'
  OBVIOUS
<1> USE DEF TypeInv
<1>1. ASSUME NEW r \in Requests,
             \/ \E goal \in Goals : Anonymous(r, goal) \/ RejectToken(r, goal)
             \/ \E s \in Subs, goal \in Goals : AcceptToken(r, s, goal)
             \/ NextRequest(r)
      PROVE  TypeInv'
  BY <1>1, Arrival DEF TypeOK, SubKnown
<1>2. ASSUME NEW r \in Requests, Step(r) PROVE TypeInv'
  <2>1. /\ req' \in [Requests -> Request]
        /\ \A q \in Requests \ {r} : req'[q] = req[q]
        /\ req'[r].sub = req[r].sub
        /\ req[r].phase \notin {"new", "done"}
        /\ account' = account
    BY <1>2, StepFrame
  <2>2. SubKnown' BY <2>1 DEF SubKnown
  <2>3. companies' \in [Slots -> Company] /\ withdrawn' \in SUBSET Subs
    <3>1. CASE Link(r) BY <3>1, LinkRows DEF TypeOK
    <3>2. CASE Insert(r) BY <3>2, InsertRows DEF TypeOK
    <3>3. CASE SoftDelete(r) BY <3>3, SoftDeleteRows DEF TypeOK
    <3>4. CASE ~Link(r) /\ ~Insert(r) /\ ~SoftDelete(r) BY <1>2, <3>4, RowsStay DEF TypeOK
    <3> QED BY <3>1, <3>2, <3>3, <3>4
  <2> QED BY <2>1, <2>2, <2>3 DEF TypeOK
<1>3. CASE UNCHANGED vars BY <1>3 DEF vars, TypeOK, SubKnown
<1> QED BY <1>1, <1>2, <1>3, StepCases

(* What a request, a company and an account are, in every reachable state.  *)
THEOREM TypeCorrect == Spec => []TypeOK
<1>1. Init => TypeInv
  <2> SUFFICES ASSUME Init PROVE TypeInv OBVIOUS
  <2>1. companies \in [Slots -> Company] BY DEF Init, Company, Absent
  <2>2. req \in [Requests -> Request] BY NewType DEF Init
  <2>3. SubKnown BY DEF Init, SubKnown, New
  <2> QED BY <2>1, <2>2, <2>3 DEF Init, TypeInv, TypeOK
<1>2. TypeInv => TypeOK BY DEF TypeInv
<1> QED BY <1>1, <1>2, TypeStep, PTL DEF Spec

-----------------------------------------------------------------------------
(* Whose company a row is.                                                  *)

(* Two accounts are one, or one person's: both proved the same email.       *)
Related(s, t) == s = t \/ (VerifiedEmail(s) = VerifiedEmail(t) /\ VerifiedEmail(s) # NoEmail)

(* A row that was ever owned keeps an owner, its email is the verified one  *)
(* of its owner, and an account owns one row at most.                        *)
RowsInv ==
    /\ \A c \in Slots :
          /\ companies[c].state = "absent" => companies[c].sub = NoSub
          /\ companies[c].state = "deleted" => companies[c].sub \in Subs
          /\ companies[c].sub \in Subs => companies[c].email = VerifiedEmail(companies[c].sub)
    /\ \A c, d \in Slots : companies[c].sub = companies[d].sub /\ c # d
                           => companies[c].sub = NoSub

(* What a request has read before and goes by now.                          *)
ReqOK(r) ==
    LET s == req[r].sub
        c == req[r].company
    IN  /\ req[r].phase \in {"byEmail", "link"} => VerifiedEmail(s) # NoEmail
        /\ req[r].phase \in {"link", "endpoint", "delete"} =>
             c \in Slots /\ companies[c].state # "absent"
        /\ req[r].phase = "link" => companies[c].email = VerifiedEmail(s)
        /\ req[r].phase \in {"endpoint", "delete"} =>
             companies[c].sub \in Subs /\ Related(s, companies[c].sub)
        /\ \A d \in req[r].gone : companies[d].state = "deleted"
        /\ c \notin req[r].gone

OwnerInv == RowsInv /\ \A r \in Requests : ReqOK(r)

(* How the row of a company may change: it stays, its email stays, it stays *)
(* withdrawn, and only an account with its email takes it over.              *)
Grows(d) ==
    companies[d].state # "absent" =>
        /\ companies'[d].state # "absent"
        /\ companies'[d].email = companies[d].email
        /\ companies[d].state = "deleted" => companies'[d].state = "deleted"
        /\ companies'[d].sub # companies[d].sub =>
             /\ companies'[d].sub \in Subs
             /\ VerifiedEmail(companies'[d].sub) = companies[d].email
             /\ companies[d].email # NoEmail

LEMMA RowsGrow ==
    ASSUME TypeInv, OwnerInv, NEW r \in Requests, Step(r)
    PROVE  /\ \A d \in Slots : Grows(d)
           /\ RowsInv'
<1> USE DEF OwnerInv, TypeInv, TypeOK
<1>1. account' = account BY StepFrame
<1>2. CASE companies' = companies BY <1>1, <1>2 DEF Grows, RowsInv, VerifiedEmail
<1>3. CASE Link(r)
  <2>1. CASE companies' = companies BY <2>1, <1>2
  <2>2. CASE companies' # companies
    <3> DEFINE s == req[r].sub
               c == req[r].company
    <3>1. /\ s \in Subs /\ c \in Slots /\ companies[c].state # "absent"
          /\ companies[c].email = VerifiedEmail(s) /\ VerifiedEmail(s) # NoEmail
      BY <1>3 DEF Link, SubKnown, ReqOK
    <3>2. /\ ~SubTaken(s, c)
          /\ \A d \in Slots : d # c => companies'[d] = companies[d]
          /\ companies'[c].sub = s /\ companies'[c].email = companies[c].email
          /\ companies'[c].state = companies[c].state
      BY <1>3, <2>2, <3>1, LinkRows
    <3> HIDE DEF s, c
    <3>3. \A d \in Slots : Grows(d) BY <3>1, <3>2 DEF Grows
    <3>4. \A d \in Slots \ {c} : companies[d].sub # s BY <3>2 DEF SubTaken
    <3>5. NoSub # s BY <3>1, ConstantsAssumption
    <3>6. ASSUME NEW d \in Slots
          PROVE  /\ companies'[d].state = "absent" => companies'[d].sub = NoSub
                 /\ companies'[d].state = "deleted" => companies'[d].sub \in Subs
                 /\ companies'[d].sub \in Subs =>
                      companies'[d].email = VerifiedEmail(companies'[d].sub)
      BY <3>1, <3>2 DEF RowsInv
    <3>7. \A d, e \in Slots : companies'[d].sub = companies'[e].sub /\ d # e
                             => companies'[d].sub = NoSub
      BY <3>2, <3>4 DEF RowsInv
    <3>8. RowsInv'
      BY <1>1, <3>6, <3>7 DEF RowsInv, VerifiedEmail
    <3> QED BY <3>3, <3>8
  <2> QED BY <2>1, <2>2
<1>4. CASE Insert(r)
  <2>1. CASE companies' = companies BY <2>1, <1>2
  <2>2. CASE companies' # companies
    <3> DEFINE s == req[r].sub
    <3>1. s \in Subs /\ s # NoSub BY <1>4, ConstantsAssumption DEF Insert, SubKnown
    <3>2. PICK c \in Slots :
            /\ ~SubTaken(s, NoCompany) /\ companies[c].state = "absent"
            /\ \A d \in Slots : d # c => companies'[d] = companies[d]
            /\ companies'[c] = [sub |-> s, email |-> VerifiedEmail(s), state |-> "active"]
      BY <1>4, <2>2, InsertRows
    <3> HIDE DEF s
    <3>3. \A d \in Slots : Grows(d) BY <3>2 DEF Grows
    <3>4. \A d \in Slots : companies[d].sub # s BY <3>2, ConstantsAssumption DEF SubTaken
    <3>5. ASSUME NEW d \in Slots
          PROVE  /\ companies'[d].state = "absent" => companies'[d].sub = NoSub
                 /\ companies'[d].state = "deleted" => companies'[d].sub \in Subs
                 /\ companies'[d].sub \in Subs =>
                      companies'[d].email = VerifiedEmail(companies'[d].sub)
      BY <3>1, <3>2 DEF RowsInv
    <3>6. \A d, e \in Slots : companies'[d].sub = companies'[e].sub /\ d # e
                             => companies'[d].sub = NoSub
      BY <3>2, <3>4 DEF RowsInv
    <3>7. RowsInv' BY <1>1, <3>5, <3>6 DEF RowsInv, VerifiedEmail
    <3> QED BY <3>3, <3>7
  <2> QED BY <2>1, <2>2
<1>5. CASE SoftDelete(r)
  <2> DEFINE c == req[r].company
  <2>1. c \in Slots /\ companies[c].sub \in Subs /\ companies[c].state # "absent"
    BY <1>5 DEF SoftDelete, ReqOK
  <2>2. /\ \A d \in Slots : d # c => companies'[d] = companies[d]
        /\ companies'[c].sub = companies[c].sub /\ companies'[c].email = companies[c].email
        /\ companies'[c].state = "deleted"
    BY <1>5, <2>1, SoftDeleteRows
  <2> HIDE DEF c
  <2>3. \A d \in Slots : Grows(d) BY <2>1, <2>2 DEF Grows
  <2>4. ASSUME NEW d \in Slots
        PROVE  /\ companies'[d].state = "absent" => companies'[d].sub = NoSub
               /\ companies'[d].state = "deleted" => companies'[d].sub \in Subs
               /\ companies'[d].sub \in Subs =>
                    companies'[d].email = VerifiedEmail(companies'[d].sub)
    BY <2>1, <2>2 DEF RowsInv
  <2>5. \A d, e \in Slots : companies'[d].sub = companies'[e].sub /\ d # e
                           => companies'[d].sub = NoSub
    BY <2>2 DEF RowsInv
  <2>6. RowsInv' BY <1>1, <2>4, <2>5 DEF RowsInv, VerifiedEmail
  <2> QED BY <2>3, <2>6
<1>6. CASE ~Link(r) /\ ~Insert(r) /\ ~SoftDelete(r) BY <1>2, <1>6, RowsStay
<1> QED BY <1>3, <1>4, <1>5, <1>6

(* What a request that does not move goes by stays true.                    *)
LEMMA OthersStay ==
    ASSUME TypeInv, OwnerInv, NEW r \in Requests, Step(r), NEW q \in Requests, q # r
    PROVE  ReqOK(q)'
<1> USE DEF OwnerInv, TypeInv, TypeOK
<1>1. req'[q] = req[q] /\ account' = account BY StepFrame
<1>2. \A d \in Slots : Grows(d) BY RowsGrow
<1>3. ReqOK(q) OBVIOUS
<1> DEFINE s == req[q].sub
           c == req[q].company
<1>4. \A d \in req[q].gone : companies'[d].state = "deleted"
  <2>1. req[q].gone \subseteq Slots BY DEF Request
  <2> QED BY <1>2, <1>3, <2>1 DEF Grows, ReqOK
<1>5. req[q].phase \in {"link", "endpoint", "delete"} =>
        /\ c \in Slots /\ companies'[c].state # "absent"
        /\ companies'[c].email = companies[c].email
  BY <1>2, <1>3 DEF Grows, ReqOK
<1>6. ASSUME req[q].phase \in {"endpoint", "delete"}
      PROVE  companies'[c].sub \in Subs /\ Related(s, companies'[c].sub)
  <2> DEFINE t == companies[c].sub
             u == companies'[c].sub
  <2>1. t \in Subs /\ Related(s, t) /\ c \in Slots /\ companies[c].state # "absent"
    BY <1>3, <1>6 DEF ReqOK
  <2>2. companies[c].email = VerifiedEmail(t) BY <2>1 DEF RowsInv
  <2>3. u # t => u \in Subs /\ VerifiedEmail(u) = VerifiedEmail(t) /\ VerifiedEmail(t) # NoEmail
    BY <1>2, <2>1, <2>2 DEF Grows
  <2> HIDE DEF s, t, u
  <2>4. u \in Subs /\ Related(s, u) BY <2>1, <2>3 DEF Related
  <2> QED BY <2>4 DEF u
<1> QED BY <1>1, <1>3, <1>4, <1>5, <1>6 DEF ReqOK, Related, VerifiedEmail

(* What the step of a request reads is what it goes by next.                *)
LEMMA MoverSafe ==
    ASSUME TypeInv, OwnerInv, NEW r \in Requests, Step(r)
    PROVE  ReqOK(r)'
<1> USE DEF OwnerInv, TypeInv, TypeOK
<1>1. /\ req'[r].sub = req[r].sub /\ req'[r].gone = req[r].gone /\ account' = account
      /\ req[r] \in Request /\ req'[r] \in Request /\ req[r].sub \in Subs
  BY StepFrame DEF SubKnown
<1>2. \A d \in Slots : Grows(d) BY RowsGrow
<1>3. ReqOK(r) OBVIOUS
<1>4. \A d \in req[r].gone : d \in Slots /\ companies[d].state = "deleted"
                            /\ companies'[d].state = "deleted"
  BY <1>1, <1>2, <1>3 DEF Grows, ReqOK, Request
<1>5. ASSUME req'[r].phase \in {"bySub", "insert", "converge", "done"},
             req'[r].company = req[r].company
      PROVE  ReqOK(r)'
  BY <1>1, <1>3, <1>4, <1>5 DEF ReqOK
<1>6. ASSUME NEW c \in Slots, ActFor(r, c), companies' = companies,
             companies[c].sub = req[r].sub, companies[c].state = "active"
      PROVE  ReqOK(r)'
  <2>1. req'[r].phase = "endpoint" /\ req'[r].company = c BY <1>1, <1>6 DEF ActFor, Request
  <2>2. c \notin req[r].gone BY <1>4, <1>6
  <2> QED BY <1>1, <1>4, <1>6, <2>1, <2>2 DEF ReqOK, Related
<1>7. CASE RefuseWithdrawn(r)
  <2>1. req'[r].phase \in {"bySub", "done"} /\ req'[r].company = req[r].company
    BY <1>1, <1>7 DEF RefuseWithdrawn, Reply, Goto, Request
  <2> QED BY <1>5, <2>1
<1>8. CASE FindBySub(r)
  <2>1. companies' = companies BY <1>8 DEF FindBySub
  <2>2. ASSUME NEW c \in BySub(req[r].sub), ActFor(r, c) PROVE ReqOK(r)'
    BY <1>6, <2>1, <2>2 DEF BySub
  <2>3. ASSUME Goto(r, IF VerifiedEmail(req[r].sub) = NoEmail THEN "insert" ELSE "byEmail")
        PROVE  ReqOK(r)'
    <3>1. CASE VerifiedEmail(req[r].sub) = NoEmail
      <4>1. req'[r].phase = "insert" /\ req'[r].company = req[r].company
        BY <1>1, <2>3, <3>1 DEF Goto, Request
      <4> QED BY <1>5, <4>1
    <3>2. CASE VerifiedEmail(req[r].sub) # NoEmail
      <4>1. req'[r].phase = "byEmail" /\ req'[r].company = req[r].company
        BY <1>1, <2>3, <3>2 DEF Goto, Request
      <4> QED BY <1>1, <1>3, <1>4, <3>2, <4>1 DEF ReqOK, VerifiedEmail
    <3> QED BY <3>1, <3>2
  <2> QED BY <1>8, <2>2, <2>3 DEF FindBySub
<1>9. CASE FindByEmail(r)
  <2> DEFINE e == VerifiedEmail(req[r].sub)
  <2>1. companies' = companies /\ req[r].phase = "byEmail" BY <1>9 DEF FindByEmail
  <2>2. ASSUME NEW c \in ByEmail(e), companies[c].sub = req[r].sub, ActFor(r, c)
        PROVE  ReqOK(r)'
    BY <1>6, <2>1, <2>2 DEF ByEmail
  <2>3. ASSUME NEW c \in ByEmail(e),
               req' = [req EXCEPT ![r].phase = "link", ![r].company = c]
        PROVE  ReqOK(r)'
    <3>1. req'[r].phase = "link" /\ req'[r].company = c BY <1>1, <2>3 DEF Request
    <3>2. c \in Slots /\ companies[c].state = "active" /\ companies[c].email = e
      BY <2>3 DEF ByEmail
    <3>3. e # NoEmail BY <1>3, <2>1 DEF ReqOK
    <3>4. c \notin req[r].gone BY <1>4, <3>2
    <3> QED BY <1>1, <1>4, <2>1, <3>1, <3>2, <3>3, <3>4 DEF ReqOK, VerifiedEmail
  <2>4. ASSUME Goto(r, "insert") PROVE ReqOK(r)'
    <3>1. req'[r].phase = "insert" /\ req'[r].company = req[r].company
      BY <1>1, <2>4 DEF Goto, Request
    <3> QED BY <1>5, <3>1
  <2> QED BY <1>9, <2>2, <2>3, <2>4 DEF FindByEmail
<1>10. CASE Link(r)
  <2>1. CASE req'[r].phase = "done"
    <3>1. req'[r].company = req[r].company
      BY <1>1, <1>10 DEF Link, Reply, ActFor, Request
    <3> QED BY <1>5, <2>1, <3>1
  <2>2. CASE req'[r].phase # "done"
    <3> DEFINE c == req[r].company
    <3>1. c \in Slots /\ companies[c].state # "absent" /\ c \notin req[r].gone
      BY <1>3, <1>10 DEF Link, ReqOK
    <3>2. /\ req'[r].phase = "endpoint" /\ req'[r].company = c
          /\ companies'[c].sub = req[r].sub /\ companies'[c].state # "absent"
      BY <1>10, <2>2, <3>1, LinkRows
    <3> QED BY <1>1, <1>4, <3>1, <3>2 DEF ReqOK, Related
  <2> QED BY <2>1, <2>2
<1>11. CASE Insert(r)
  <2>1. CASE req'[r].phase = "converge"
    <3>1. req'[r].company = req[r].company BY <1>11, <2>1, InsertRows
    <3> QED BY <1>5, <2>1, <3>1
  <2>2. CASE req'[r].phase # "converge"
    <3>1. PICK c \in Slots :
            /\ companies[c].state = "absent"
            /\ companies'[c] = [sub |-> req[r].sub, email |-> VerifiedEmail(req[r].sub),
                                state |-> "active"]
            /\ req'[r].phase = "endpoint" /\ req'[r].company = c
      BY <1>11, <2>2, InsertRows
    <3>2. companies'[c].sub = req[r].sub /\ companies'[c].state = "active" BY <3>1
    <3>3. c \notin req[r].gone BY <1>4, <3>1
    <3> QED BY <1>1, <1>4, <3>1, <3>2, <3>3 DEF ReqOK, Related
  <2> QED BY <2>1, <2>2
<1>12. CASE Converge(r)
  <2>1. companies' = companies BY <1>12 DEF Converge
  <2>2. ASSUME NEW c \in BySub(req[r].sub), ActFor(r, c) PROVE ReqOK(r)'
    BY <1>6, <2>1, <2>2 DEF BySub
  <2>3. ASSUME Reply(r, "500") PROVE ReqOK(r)'
    <3>1. req'[r].phase = "done" /\ req'[r].company = req[r].company
      BY <1>1, <2>3 DEF Reply, Request
    <3> QED BY <1>5, <3>1
  <2> QED BY <1>12, <2>2, <2>3 DEF Converge
<1>13. CASE Browse(r) \/ GetMe(r) \/ FindToDelete(r) \/ SoftDelete(r)
  <2>1. /\ req[r].phase \in {"endpoint", "delete"}
        /\ (\E code : Reply(r, code)) \/ Goto(r, "delete")
    BY <1>13 DEF Browse, GetMe, FindToDelete, SoftDelete
  <2>2. req'[r].phase \in {"done", "delete"} /\ req'[r].company = req[r].company
    BY <1>1, <2>1 DEF Reply, Goto, Request
  <2>3. CASE req'[r].phase = "done" BY <1>5, <2>2, <2>3
  <2>4. CASE req'[r].phase = "delete"
    <3>1. companies' = companies
      BY <1>13, <2>4, SoftDeleteRows DEF Browse, GetMe, FindToDelete
    <3> QED BY <1>1, <1>3, <1>4, <2>1, <2>2, <2>4, <3>1 DEF ReqOK, Related, VerifiedEmail
  <2> QED BY <2>2, <2>3, <2>4
<1> QED BY <1>7, <1>8, <1>9, <1>10, <1>11, <1>12, <1>13 DEF Step

LEMMA OwnerStep == TypeInv /\ OwnerInv /\ [Next]_vars => OwnerInv'
<1> SUFFICES ASSUME TypeInv, OwnerInv, [Next]_vars PROVE OwnerInv'
  OBVIOUS
<1>1. ASSUME NEW r \in Requests,
             \/ \E goal \in Goals : Anonymous(r, goal) \/ RejectToken(r, goal)
             \/ \E s \in Subs, goal \in Goals : AcceptToken(r, s, goal)
             \/ NextRequest(r)
      PROVE  OwnerInv'
  <2> USE DEF TypeInv
  <2>1. UNCHANGED <<account, companies>> BY <1>1, Arrival
  <2>2. RowsInv' BY <2>1 DEF OwnerInv, RowsInv, VerifiedEmail
  <2>3. ASSUME NEW q \in Requests PROVE ReqOK(q)'
    <3>1. CASE q = r
      <4>1. NoCompany \notin Slots /\ req'[r].gone \subseteq Slots
        BY <1>1, Arrival, ConstantsAssumption DEF Request
      <4>2. /\ req'[r].company = NoCompany
            /\ req'[r].phase \in {"new", "verified", "done"}
            /\ \A c \in req'[r].gone : companies[c].state = "deleted"
        BY <1>1, Arrival
      <4> QED BY <2>1, <3>1, <4>1, <4>2 DEF ReqOK
    <3>2. CASE q # r
      <4>1. req'[q] = req[q] BY <1>1, <3>2, Arrival
      <4> QED BY <2>1, <4>1 DEF OwnerInv, ReqOK, Related, VerifiedEmail
    <3> QED BY <3>1, <3>2
  <2> QED BY <2>2, <2>3 DEF OwnerInv
<1>2. ASSUME NEW r \in Requests, Step(r) PROVE OwnerInv'
  <2>1. \A q \in Requests : ReqOK(q)' BY <1>2, OthersStay, MoverSafe
  <2> QED BY <1>2, <2>1, RowsGrow DEF OwnerInv
<1>3. CASE UNCHANGED vars
  BY <1>3 DEF vars, OwnerInv, RowsInv, ReqOK, Related, VerifiedEmail
<1> QED BY <1>1, <1>2, <1>3, StepCases

LEMMA OwnerInit == Init => TypeInv /\ OwnerInv
<1> SUFFICES ASSUME Init PROVE TypeInv /\ OwnerInv OBVIOUS
<1>1. companies \in [Slots -> Company] BY DEF Init, Company, Absent
<1>2. \A c \in Slots : companies[c].sub = NoSub /\ companies[c].state # "deleted"
  BY DEF Init, Absent
<1>3. RowsInv BY <1>2, ConstantsAssumption DEF RowsInv
<1>4. req \in [Requests -> Request] BY NewType DEF Init
<1>5. \A r \in Requests : ReqOK(r) BY DEF Init, ReqOK, New
<1>6. SubKnown BY DEF Init, SubKnown, New
<1> QED BY <1>1, <1>3, <1>4, <1>5, <1>6 DEF Init, TypeInv, TypeOK, OwnerInv

(* Nobody inherits a withdrawn company: what a request acts for had not     *)
(* been withdrawn when it began, through whichever lookup it was found.     *)
THEOREM InheritanceCorrect == Spec => []NoInheritance
<1>1. OwnerInv => NoInheritance BY DEF OwnerInv, ReqOK, NoInheritance
<1> QED BY <1>1, OwnerInit, TypeStep, OwnerStep, PTL DEF Spec

(* The email of a row was proved by the account the row belongs to, however *)
(* often the row was linked to another account.                              *)
THEOREM EmailsCorrect == Spec => []EmailsProved
<1>1. TypeInv /\ OwnerInv => EmailsProved
  <2> SUFFICES ASSUME TypeInv, OwnerInv, NEW c \in Slots,
                      companies[c].sub # NoSub, companies[c].email # NoEmail
               PROVE  /\ account[companies[c].sub].email = companies[c].email
                      /\ account[companies[c].sub].claim \in {"True", "true"}
    BY DEF EmailsProved
  <2>1. companies[c].sub \in Subs BY DEF TypeInv, TypeOK, Company
  <2>2. companies[c].email = VerifiedEmail(companies[c].sub) BY <2>1 DEF OwnerInv, RowsInv
  <2> QED BY <2>2 DEF VerifiedEmail, ClaimTrue
<1> QED BY <1>1, OwnerInit, TypeStep, OwnerStep, PTL DEF Spec

-----------------------------------------------------------------------------
(* An account that shares its verified email with nobody.                   *)

(* Whoever is related to such an account is that account.                   *)
LEMMA AloneRelated ==
    ASSUME NEW s \in Subs, Alone(s), NEW t \in Subs,
           Related(t, s) \/ Related(s, t)
                         \/ (VerifiedEmail(t) = VerifiedEmail(s) /\ VerifiedEmail(s) # NoEmail)
    PROVE  t = s
BY DEF Alone, Related

(* The row of such an account stays its own.                                *)
LEMMA AloneRows ==
    ASSUME TypeInv, OwnerInv, NEW r \in Requests, Step(r),
           NEW s \in Subs, Alone(s), NEW c \in Slots, companies[c].sub = s
    PROVE  companies'[c].sub = s
<1>1. companies[c].state # "absent" /\ companies[c].email = VerifiedEmail(s)
  BY ConstantsAssumption DEF OwnerInv, RowsInv
<1>2. Grows(c) BY RowsGrow
<1>3. companies'[c].sub # s =>
        /\ companies'[c].sub \in Subs
        /\ VerifiedEmail(companies'[c].sub) = VerifiedEmail(s) /\ VerifiedEmail(s) # NoEmail
  BY <1>1, <1>2 DEF Grows
<1> QED BY <1>3, AloneRelated

WithdrawnInv == \A s \in Subs : Alone(s) => (IsWithdrawnSub(s) <=> s \in withdrawn)

LEMMA WithdrawnStep == TypeInv /\ OwnerInv /\ WithdrawnInv /\ [Next]_vars => WithdrawnInv'
<1> SUFFICES ASSUME TypeInv, OwnerInv, WithdrawnInv, [Next]_vars PROVE WithdrawnInv'
  OBVIOUS
<1>1. ASSUME UNCHANGED <<account, companies, withdrawn>> PROVE WithdrawnInv'
  BY <1>1 DEF WithdrawnInv, Alone, VerifiedEmail, IsWithdrawnSub
<1>2. ASSUME NEW r \in Requests,
             \/ \E goal \in Goals : Anonymous(r, goal) \/ RejectToken(r, goal)
             \/ \E s \in Subs, goal \in Goals : AcceptToken(r, s, goal)
             \/ NextRequest(r)
      PROVE  WithdrawnInv'
  BY <1>1, <1>2, Arrival DEF TypeInv
<1>3. ASSUME NEW r \in Requests, Step(r) PROVE WithdrawnInv'
  <2>1. account' = account BY <1>3, StepFrame DEF TypeInv
  <2>2. SUFFICES ASSUME NEW s \in Subs, Alone(s)
                 PROVE  IsWithdrawnSub(s)' <=> s \in withdrawn'
    BY <2>1 DEF WithdrawnInv, Alone, VerifiedEmail
  <2>3. IsWithdrawnSub(s) <=> s \in withdrawn BY <2>2 DEF WithdrawnInv
  <2>4. withdrawn \subseteq withdrawn'
    BY <1>3, RowsStay, LinkRows, InsertRows, SoftDeleteRows
  <2>5. \A c \in Slots : Grows(c) BY <1>3, RowsGrow
  <2>6. ASSUME NEW c \in Slots, companies'[c].state = "deleted", companies'[c].sub = s
        PROVE  s \in withdrawn'
    <3>1. CASE companies[c].state = "deleted"
      <4> DEFINE t == companies[c].sub
      <4>1. t \in Subs /\ companies[c].email = VerifiedEmail(t)
        BY <3>1 DEF OwnerInv, RowsInv
      <4>2. t # s => VerifiedEmail(s) = VerifiedEmail(t) /\ VerifiedEmail(t) # NoEmail
        BY <2>5, <2>6, <3>1, <4>1 DEF Grows
      <4> HIDE DEF t
      <4>3. t = s BY <2>2, <4>1, <4>2 DEF Alone
      <4> QED BY <2>3, <2>4, <3>1, <4>3 DEF t, IsWithdrawnSub
    <3>2. CASE companies[c].state # "deleted"
      <4>1. SoftDelete(r) /\ c = req[r].company
        <5>1. CASE Link(r) BY <2>6, <3>2, <5>1, LinkRows
        <5>2. CASE Insert(r)
          <6>1. \/ companies' = companies
                \/ \E d \in Slots :
                     /\ \A e \in Slots : e # d => companies'[e] = companies[e]
                     /\ companies'[d] = [sub |-> req[r].sub, email |-> VerifiedEmail(req[r].sub),
                                         state |-> "active"]
            BY <5>2, InsertRows
          <6>2. companies'[c] = companies[c] \/ companies'[c].state = "active" BY <6>1
          <6> QED BY <2>6, <3>2, <6>2
        <5>3. CASE SoftDelete(r) BY <2>6, <3>2, <5>3, SoftDeleteRows
        <5>4. CASE ~Link(r) /\ ~Insert(r) /\ ~SoftDelete(r) BY <1>3, <2>6, <3>2, <5>4, RowsStay
        <5> QED BY <5>1, <5>2, <5>3, <5>4
      <4>2. companies[c].sub = s /\ withdrawn' = withdrawn \cup {req[r].sub} /\ req[r].sub \in Subs
        BY <2>6, <4>1, SoftDeleteRows
      <4>3. Related(req[r].sub, s) BY <4>1, <4>2 DEF SoftDelete, OwnerInv, ReqOK
      <4> QED BY <2>2, <4>2, <4>3, AloneRelated
    <3> QED BY <3>1, <3>2
  <2>7. ASSUME s \in withdrawn'
        PROVE  \E c \in Slots : companies'[c].state = "deleted" /\ companies'[c].sub = s
    <3>1. CASE s \in withdrawn
      <4>1. PICK c \in Slots : companies[c].state = "deleted" /\ companies[c].sub = s
        BY <2>3, <3>1 DEF IsWithdrawnSub
      <4>2. companies'[c].state = "deleted" BY <2>5, <4>1 DEF Grows
      <4>3. companies'[c].sub = s BY <1>3, <2>2, <4>1, AloneRows
      <4> QED BY <4>2, <4>3
    <3>2. CASE s \notin withdrawn
      <4>1. SoftDelete(r) BY <1>3, <2>7, <3>2, RowsStay, LinkRows, InsertRows
      <4>2. s = req[r].sub BY <2>7, <3>2, <4>1, SoftDeleteRows
      <4> DEFINE c == req[r].company
      <4>3. c \in Slots /\ companies[c].sub \in Subs /\ Related(s, companies[c].sub)
        BY <4>1, <4>2 DEF SoftDelete, OwnerInv, ReqOK
      <4>4. companies[c].sub = s BY <2>2, <4>3, AloneRelated
      <4>5. companies'[c].sub = s /\ companies'[c].state = "deleted"
        BY <4>1, <4>3, <4>4, SoftDeleteRows
      <4> QED BY <4>3, <4>5
    <3> QED BY <3>1, <3>2
  <2> QED BY <2>6, <2>7 DEF IsWithdrawnSub
<1>4. CASE UNCHANGED vars BY <1>1, <1>4 DEF vars
<1> QED BY <1>2, <1>3, <1>4, StepCases

LEMMA WithdrawnInit == Init => WithdrawnInv
BY ConstantsAssumption DEF Init, WithdrawnInv, IsWithdrawnSub, Absent

(* A withdrawal is final for an account alone with its email: its row stays *)
(* its own, is deleted exactly when it withdrew, and is its only one.        *)
THEOREM WithdrawalCorrect == Spec => []WithdrawalFinal
<1>1. OwnerInv /\ WithdrawnInv => WithdrawalFinal
  <2> SUFFICES ASSUME OwnerInv, WithdrawnInv, NEW s \in Subs, Alone(s)
               PROVE  /\ IsWithdrawnSub(s) <=> s \in withdrawn
                      /\ s \in withdrawn => BySub(s) = {}
    BY DEF WithdrawalFinal
  <2>1. IsWithdrawnSub(s) <=> s \in withdrawn BY DEF WithdrawnInv
  <2>2. ASSUME s \in withdrawn, NEW d \in BySub(s) PROVE FALSE
    <3>1. PICK c \in Slots : companies[c].sub = s /\ companies[c].state = "deleted"
      BY <2>1, <2>2 DEF IsWithdrawnSub
    <3>2. d \in Slots /\ companies[d].sub = s /\ companies[d].state = "active"
      BY <2>2 DEF BySub
    <3>3. c # d BY <3>1, <3>2
    <3> QED BY <3>1, <3>2, <3>3, ConstantsAssumption DEF OwnerInv, RowsInv
  <2> QED BY <2>1, <2>2
<1> QED BY <1>1, OwnerInit, WithdrawnInit, TypeStep, OwnerStep, WithdrawnStep, PTL DEF Spec

-----------------------------------------------------------------------------
(* Parallel requests of an account that has not withdrawn.                  *)

Sole(s) == Alone(s) /\ s \notin withdrawn

(* The row by whose email an account would be linked.                       *)
Holds(c, s) ==
    companies[c].state # "absent" /\ companies[c].email = VerifiedEmail(s)
    /\ VerifiedEmail(s) # NoEmail

(* There is one such row at most; a request about to insert knows that it   *)
(* is none or its account's own; one that lost has a row to converge on.     *)
SoleInv(s) ==
    /\ \A c, d \in Slots : Holds(c, s) /\ Holds(d, s) => c = d
    /\ \A r \in Requests : req[r].sub = s /\ req[r].phase = "insert" =>
          \A c \in Slots : Holds(c, s) => companies[c].sub = s
    /\ \A r \in Requests : req[r].sub = s /\ req[r].phase = "converge" =>
          \E c \in Slots : companies[c].sub = s

ConvergeInv == FirstRequestsConverge /\ \A s \in Subs : Sole(s) => SoleInv(s)

(* The rows of an account that has not withdrawn are active.                *)
LEMMA SoleActive ==
    ASSUME TypeInv, OwnerInv, WithdrawnInv, NEW s \in Subs, Sole(s),
           NEW c \in Slots, companies[c].sub = s \/ Holds(c, s)
    PROVE  companies[c].state # "deleted"
           /\ (companies[c].sub = s => companies[c].state = "active")
<1>1. ~IsWithdrawnSub(s) BY DEF WithdrawnInv, Sole
<1>2. companies[c].sub = s => companies[c].state = "active"
  <2>1. companies[c].state \in {"absent", "active", "deleted"} BY DEF TypeInv, TypeOK, Company
  <2> QED BY <1>1, <2>1, ConstantsAssumption DEF IsWithdrawnSub, OwnerInv, RowsInv
<1>3. ASSUME Holds(c, s), companies[c].state = "deleted" PROVE FALSE
  <2> DEFINE t == companies[c].sub
  <2>1. t \in Subs /\ VerifiedEmail(t) = VerifiedEmail(s) /\ VerifiedEmail(s) # NoEmail
    BY <1>3 DEF OwnerInv, RowsInv, Holds
  <2> HIDE DEF t
  <2>2. t = s BY <2>1, AloneRelated DEF Sole
  <2> QED BY <1>2, <1>3, <2>2 DEF t
<1> QED BY <1>2, <1>3

(* No step of the account's requests ends in an error.                      *)
LEMMA NoError ==
    ASSUME TypeInv, OwnerInv, WithdrawnInv, ConvergeInv, NEW r \in Requests, Step(r),
           Sole(req[r].sub)
    PROVE  req'[r].reply # "500"
<1> DEFINE s == req[r].sub
<1>1. s \in Subs /\ req[r] \in Request BY StepFrame DEF TypeInv, TypeOK, SubKnown
<1>2. SoleInv(s) /\ req[r].reply # "500"
  BY <1>1 DEF ConvergeInv, FirstRequestsConverge, Sole
<1>3. CASE Link(r)
  <2> DEFINE c == req[r].company
  <2>1. c \in Slots /\ Holds(c, s) BY <1>3 DEF Link, OwnerInv, ReqOK, Holds
  <2>2. ASSUME SubTaken(s, c) PROVE FALSE
    <3>1. PICK d \in Slots \ {c} : companies[d].sub = s BY <2>2 DEF SubTaken
    <3>2. Holds(d, s)
      BY <1>1, <2>1, <3>1, ConstantsAssumption DEF OwnerInv, RowsInv, Holds
    <3> QED BY <1>2, <2>1, <3>1, <3>2 DEF SoleInv
  <2> QED BY <1>2, <1>3, <2>2, LinkRows
<1>4. CASE Insert(r) BY <1>2, <1>4, InsertRows
<1>5. CASE Converge(r)
  <2>1. PICK c \in Slots : companies[c].sub = s BY <1>2, <1>5 DEF Converge, SoleInv
  <2>2. companies[c].state = "active" BY <1>1, <2>1, SoleActive
  <2>3. PICK d : ActFor(r, d) BY <1>5, <2>1, <2>2 DEF Converge, BySub
  <2>4. req'[r].reply = req[r].reply BY <1>1, <2>3 DEF ActFor, TypeInv, TypeOK, Request
  <2> QED BY <1>2, <2>4
<1>6. CASE SoftDelete(r) BY <1>6, SoftDeleteRows
<1>7. CASE RefuseWithdrawn(r) \/ FindBySub(r) \/ FindByEmail(r)
  BY <1>1, <1>2, <1>7 DEF RefuseWithdrawn, FindBySub, FindByEmail, Reply, Goto, ActFor,
                          TypeInv, TypeOK, Request
<1>8. CASE Browse(r) \/ GetMe(r) \/ FindToDelete(r)
  <2>1. (\E code \in {"200", "404"} : Reply(r, code)) \/ Goto(r, "delete")
    BY <1>8 DEF Browse, GetMe, FindToDelete
  <2> QED BY <1>1, <1>2, <2>1 DEF Reply, Goto, TypeInv, TypeOK, Request
<1> QED BY <1>3, <1>4, <1>5, <1>6, <1>7, <1>8 DEF Step

(* Which rows hold the account's email after a step.                        *)
LEMMA HoldsStep ==
    ASSUME TypeInv, OwnerInv, ConvergeInv, NEW r \in Requests, Step(r),
           NEW s \in Subs, Sole(s), NEW c \in Slots, Holds(c, s)'
    PROVE  \/ Holds(c, s)
           \/ /\ companies'[c].sub = s
              /\ \A d \in Slots : Holds(d, s)' => d = c
<1>1. account' = account BY StepFrame DEF TypeInv
<1>2. \A d \in Slots : Grows(d) BY RowsGrow
<1>3. CASE companies[c].state # "absent"
  BY <1>1, <1>2, <1>3 DEF Grows, Holds, VerifiedEmail
<1>4. CASE companies[c].state = "absent"
  <2>1. companies'[c].state # "absent" /\ companies'[c].email = VerifiedEmail(s)
        /\ VerifiedEmail(s) # NoEmail
    BY <1>1 DEF Holds, VerifiedEmail
  <2>2. Insert(r)
    <3>1. Link(r) => companies'[c].state = companies[c].state BY LinkRows
    <3>2. SoftDelete(r) => companies'[c].state = companies[c].state
      <4>1. SoftDelete(r) => c # req[r].company
        BY <1>4 DEF SoftDelete, OwnerInv, ReqOK
      <4> QED BY <4>1, SoftDeleteRows
    <3> QED BY <1>4, <2>1, <3>1, <3>2, RowsStay
  <2> DEFINE u == req[r].sub
  <2>3. u \in Subs /\ req[r].phase = "insert" BY <2>2 DEF Insert, TypeInv, SubKnown
  <2>4. /\ ~SubTaken(u, NoCompany)
        /\ \A d \in Slots : d # c => companies'[d] = companies[d]
        /\ companies'[c] = [sub |-> u, email |-> VerifiedEmail(u), state |-> "active"]
    BY <1>4, <2>1, <2>2, InsertRows
  <2>5. u = s
    <3>1. VerifiedEmail(u) = VerifiedEmail(s) BY <2>1, <2>4
    <3> HIDE DEF u
    <3> QED BY <2>1, <2>3, <3>1, AloneRelated DEF Sole
  <2>6. ASSUME NEW d \in Slots, Holds(d, s)', d # c PROVE FALSE
    <3>1. Holds(d, s) BY <1>1, <2>4, <2>6 DEF Holds, VerifiedEmail
    <3>2. companies[d].sub = s BY <2>3, <2>5, <3>1 DEF ConvergeInv, SoleInv
    <3> QED BY <2>4, <2>5, <3>2, ConstantsAssumption DEF SubTaken
  <2> QED BY <2>4, <2>5, <2>6
<1> QED BY <1>3, <1>4

LEMMA ConvergeStep ==
    TypeInv /\ OwnerInv /\ WithdrawnInv /\ ConvergeInv /\ [Next]_vars => ConvergeInv'
<1> SUFFICES ASSUME TypeInv, OwnerInv, WithdrawnInv, ConvergeInv, [Next]_vars PROVE ConvergeInv'
  OBVIOUS
<1>1. ASSUME NEW r \in Requests,
             \/ \E goal \in Goals : Anonymous(r, goal) \/ RejectToken(r, goal)
             \/ \E s \in Subs, goal \in Goals : AcceptToken(r, s, goal)
             \/ NextRequest(r)
      PROVE  ConvergeInv'
  <2>1. /\ UNCHANGED <<account, companies, withdrawn>>
        /\ \A q \in Requests \ {r} : req'[q] = req[q]
        /\ req'[r].phase \in {"new", "verified", "done"} /\ req'[r].reply # "500"
    BY <1>1, Arrival DEF TypeInv
  <2>2. FirstRequestsConverge'
    BY <2>1 DEF ConvergeInv, FirstRequestsConverge, Alone, VerifiedEmail
  <2>3. ASSUME NEW s \in Subs, Sole(s)' PROVE SoleInv(s)'
    <3>1. SoleInv(s) BY <2>1, <2>3 DEF ConvergeInv, Sole, Alone, VerifiedEmail
    <3> QED BY <2>1, <3>1 DEF SoleInv, Holds, VerifiedEmail
  <2> QED BY <2>2, <2>3 DEF ConvergeInv
<1>2. ASSUME NEW r \in Requests, Step(r) PROVE ConvergeInv'
  <2>1. /\ account' = account /\ req'[r].sub = req[r].sub /\ req[r].sub \in Subs
        /\ \A q \in Requests \ {r} : req'[q] = req[q]
    BY <1>2, StepFrame DEF TypeInv, SubKnown
  <2>2. withdrawn \subseteq withdrawn'
    BY <1>2, RowsStay, LinkRows, InsertRows, SoftDeleteRows
  <2>3. FirstRequestsConverge'
    <3>1. ASSUME NEW q \in Requests, req'[q].reply = "500"
          PROVE  req'[q].sub \in withdrawn' \/ ~Alone(req'[q].sub)
      <4>1. CASE q # r
        BY <2>1, <2>2, <3>1, <4>1 DEF ConvergeInv, FirstRequestsConverge
      <4>2. CASE q = r
        BY <1>2, <2>1, <2>2, <3>1, <4>2, NoError DEF Sole
      <4> QED BY <4>1, <4>2
    <3> QED BY <2>1, <3>1 DEF FirstRequestsConverge, Alone, VerifiedEmail
  <2>4. ASSUME NEW s \in Subs, Sole(s)' PROVE SoleInv(s)'
    <3>1. Sole(s) BY <2>1, <2>2, <2>4 DEF Sole, Alone, VerifiedEmail
    <3>2. SoleInv(s) BY <3>1 DEF ConvergeInv
    <3>3. \A c, d \in Slots : Holds(c, s)' /\ Holds(d, s)' => c = d
      BY <1>2, <3>1, <3>2, HoldsStep DEF SoleInv
    <3>4. ASSUME NEW q \in Requests, req'[q].sub = s, req'[q].phase = "insert",
                 NEW c \in Slots, Holds(c, s)'
          PROVE  companies'[c].sub = s
      <4>1. CASE companies'[c].sub = s BY <4>1
      <4>2. CASE Holds(c, s)
        <5>1. CASE companies[c].sub = s BY <1>2, <3>1, <5>1, AloneRows DEF Sole
        <5>2. CASE q # r BY <2>1, <3>2, <3>4, <4>2, <5>1, <5>2 DEF SoleInv
        <5>3. CASE q = r /\ FindByEmail(r)
          <6>1. c \notin ByEmail(VerifiedEmail(s))
            BY <2>1, <3>4, <5>3 DEF FindByEmail, ActFor, Goto, TypeInv, TypeOK, Request
          <6>2. companies[c].state \in {"absent", "active", "deleted"}
            BY DEF TypeInv, TypeOK, Company
          <6> QED BY <3>1, <4>2, <6>1, <6>2, SoleActive DEF Holds, ByEmail
        <5>4. CASE q = r /\ FindBySub(r)
          BY <2>1, <3>4, <4>2, <5>4
             DEF FindBySub, ActFor, Goto, Holds, TypeInv, TypeOK, Request
        <5>5. CASE q = r /\ ~FindByEmail(r) /\ ~FindBySub(r)
          <6>1. req'[r].phase # "insert"
            <7>1. Link(r) \/ Insert(r) \/ SoftDelete(r) => req'[r].phase # "insert"
              BY LinkRows, InsertRows, SoftDeleteRows
            <7>2. RefuseWithdrawn(r) \/ Browse(r) \/ GetMe(r) \/ FindToDelete(r) \/ Converge(r)
                    => req'[r].phase # "insert"
              BY DEF RefuseWithdrawn, Browse, GetMe, FindToDelete, Converge, Reply, Goto, ActFor,
                     TypeInv, TypeOK, Request
            <7> QED BY <1>2, <5>5, <7>1, <7>2 DEF Step
          <6> QED BY <3>4, <5>5, <6>1
        <5> QED BY <5>2, <5>3, <5>4, <5>5
      <4> QED BY <1>2, <3>1, <3>4, <4>1, <4>2, HoldsStep
    <3>5. ASSUME NEW q \in Requests, req'[q].sub = s, req'[q].phase = "converge"
          PROVE  \E c \in Slots : companies'[c].sub = s
      <4>1. \E c \in Slots : companies[c].sub = s
        <5>1. CASE q # r BY <2>1, <3>2, <3>5, <5>1 DEF SoleInv
        <5>2. CASE q = r /\ Insert(r)
          <6>1. SubTaken(req[r].sub, NoCompany) BY <3>5, <5>2, InsertRows
          <6>2. req[r].sub = s BY <2>1, <3>5, <5>2
          <6> QED BY <6>1, <6>2 DEF SubTaken
        <5>3. CASE q = r /\ ~Insert(r)
          <6>1. Link(r) \/ SoftDelete(r) => req'[r].phase # "converge"
            BY LinkRows, SoftDeleteRows
          <6>2. RefuseWithdrawn(r) \/ Browse(r) \/ GetMe(r) \/ FindToDelete(r) \/ Converge(r)
                \/ FindBySub(r) \/ FindByEmail(r)
                  => req'[r].phase # "converge"
            BY DEF RefuseWithdrawn, Browse, GetMe, FindToDelete, Converge, FindBySub,
                   FindByEmail, Reply, Goto, ActFor, TypeInv, TypeOK, Request
          <6> QED BY <1>2, <3>5, <5>3, <6>1, <6>2 DEF Step
        <5> QED BY <5>1, <5>2, <5>3
      <4> QED BY <1>2, <3>1, <4>1, AloneRows DEF Sole
    <3> QED BY <3>3, <3>4, <3>5 DEF SoleInv
  <2> QED BY <2>3, <2>4 DEF ConvergeInv
<1>3. CASE UNCHANGED vars
  BY <1>3 DEF vars, ConvergeInv, FirstRequestsConverge, Sole, SoleInv, Holds, Alone, VerifiedEmail
<1> QED BY <1>1, <1>2, <1>3, StepCases

LEMMA ConvergeInit == Init => ConvergeInv
<1> SUFFICES ASSUME Init PROVE ConvergeInv OBVIOUS
<1>1. \A r \in Requests : req[r].reply = "none" /\ req[r].phase = "new" BY DEF Init, New
<1>2. ASSUME NEW s \in Subs, NEW c \in Slots, NEW d \in Slots, Holds(c, s), Holds(d, s)
      PROVE  c = d
  <2>1. \A a \in Slots : companies[a].state # "absent" => \A b \in Slots : a <= b
    BY DEF Init, Absent
  <2>2. c <= d /\ d <= c BY <1>2, <2>1 DEF Holds
  <2> QED BY <2>2, ConstantsAssumption
<1> QED BY <1>1, <1>2 DEF ConvergeInv, FirstRequestsConverge, SoleInv

(* The first requests of an account converge on one company, however they   *)
(* interleave with each other and with a company entered by hand.            *)
THEOREM ConvergeCorrect == Spec => []FirstRequestsConverge
<1>1. ConvergeInv => FirstRequestsConverge BY DEF ConvergeInv
<1> QED BY <1>1, OwnerInit, WithdrawnInit, ConvergeInit, TypeStep, OwnerStep, WithdrawnStep,
           ConvergeStep, PTL DEF Spec
=============================================================================
