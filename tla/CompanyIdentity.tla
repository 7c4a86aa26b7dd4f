--------------------------- MODULE CompanyIdentity ---------------------------
(***************************************************************************)
(* Which company a request acts for: app/api/deps.py, the repository of     *)
(* companies, and the endpoints /me (app/api/v1/auth.py).                   *)
(* A request verifies its token, looks for a withdrawal of the account,     *)
(* finds its company, links it to one with the same verified email or       *)
(* creates it, and then runs its endpoint.  Each of these is a statement of *)
(* its own in READ COMMITTED: requests, of one account or of several,       *)
(* interleave between them.  The tokens of a withdrawn account stay valid.  *)
(***************************************************************************)
EXTENDS Naturals, FiniteSets

CONSTANTS
    Subs,          \* Cognito accounts
    Emails,
    Requests,
    Slots,         \* bound: ids of companies, given out in order
    NoSub, NoEmail, NoCompany

ASSUME ConstantsAssumption ==
    /\ Slots \subseteq Nat /\ IsFiniteSet(Slots)
    /\ NoSub \notin Subs /\ NoEmail \notin Emails /\ NoCompany \notin Slots

VARIABLES
    account,    \* what Cognito knows: the email of each sub, proved or not
    companies,  \* the table: a row per id, absent until inserted
    req,        \* the requests
    withdrawn   \* history: accounts one of whose DELETE /me answered 204

vars == <<account, companies, req, withdrawn>>

Absent == [sub |-> NoSub, email |-> NoEmail, state |-> "absent"]
Company == [sub : Subs \cup {NoSub}, email : Emails \cup {NoEmail},
            state : {"absent", "active", "deleted"}]

(* The claim email_verified comes as a boolean or as text.                  *)
Claims == {"True", "False", "true", "false"}
ClaimTrue(claim) == claim \in {"True", "true"}

Account == [email : Emails \cup {NoEmail}, claim : Claims]
Goals == {"browse", "me", "withdraw"}
Replies == {"none", "200", "204", "401", "404", "500", "503"}
Phases == {"new", "verified", "bySub", "byEmail", "link", "insert", "converge",
           "endpoint", "delete", "done"}
Request == [phase : Phases, sub : Subs \cup {NoSub}, goal : Goals,
            company : Slots \cup {NoCompany}, reply : Replies,
            gone : SUBSET Slots]   \* gone: history, deleted when the request began

TypeOK ==
    /\ account \in [Subs -> Account]
    /\ companies \in [Slots -> Company]
    /\ req \in [Requests -> Request]
    /\ withdrawn \in SUBSET Subs

New == [phase |-> "new", sub |-> NoSub, goal |-> "browse", company |-> NoCompany,
        reply |-> "none", gone |-> {}]

(* The team may have entered a company by hand, with an email and no sub.   *)
Init ==
    /\ account \in [Subs -> Account]
    /\ \E e \in Emails \cup {NoEmail} :
          companies = [c \in Slots |->
              IF e # NoEmail /\ \A d \in Slots : c <= d
              THEN [sub |-> NoSub, email |-> e, state |-> "active"] ELSE Absent]
    /\ req = [r \in Requests |-> New]
    /\ withdrawn = {}

-----------------------------------------------------------------------------
(* Statements on companies: every lookup sees the active rows only.         *)

ById(c) == {d \in {c} : companies[d].state = "active"}
BySub(s) == {c \in Slots : companies[c].sub = s /\ companies[c].state = "active"}
ByEmailOfAnyState(e) ==   \* mutant
    {c \in Slots : companies[c].email = e /\ companies[c].state # "absent"}

ByEmail(e) == {c \in Slots : companies[c].email = e /\ companies[c].state = "active"}
IsWithdrawnSub(s) == \E c \in Slots : companies[c].sub = s /\ companies[c].state = "deleted"

(* cognito_sub is unique over all rows, withdrawn ones included.            *)
SubTaken(s, c) == \E d \in Slots \ {c} : companies[d].sub = s

Unverified(s) == account[s].email   \* mutant

(* The email an account may be linked by: only one that Cognito verified.   *)
VerifiedEmail(s) == IF ClaimTrue(account[s].claim) THEN account[s].email ELSE NoEmail

Goto(r, phase) == req' = [req EXCEPT ![r].phase = phase]
Reply(r, code) == req' = [req EXCEPT ![r].phase = "done", ![r].reply = code]
ActFor(r, c) == req' = [req EXCEPT ![r].phase = "endpoint", ![r].company = c]

-----------------------------------------------------------------------------
(* get_current_user.                                                        *)

(* No bearer token: anonymous, which only the public endpoints allow.       *)
Anonymous(r, goal) ==
    /\ req[r].phase = "new"
    /\ req' = [req EXCEPT ![r] = [New EXCEPT !.phase = "done", !.goal = goal,
                  !.reply = IF goal = "browse" THEN "200" ELSE "401"]]
    /\ UNCHANGED <<account, companies, withdrawn>>

(* verify_id_token: 401 for a bad token or one that is no ID token, 503     *)
(* when the keys cannot be fetched or Cognito is not configured.             *)
RejectToken(r, goal) ==
    /\ req[r].phase = "new"
    /\ \E code \in {"401", "503"} :
          req' = [req EXCEPT ![r] = [New EXCEPT !.phase = "done", !.goal = goal,
                                                !.reply = code]]
    /\ UNCHANGED <<account, companies, withdrawn>>

AcceptToken(r, s, goal) ==
    /\ req[r].phase = "new"
    /\ req' = [req EXCEPT ![r] = [New EXCEPT !.phase = "verified", !.sub = s, !.goal = goal,
                  !.gone = {c \in Slots : companies[c].state = "deleted"}]]
    /\ UNCHANGED <<account, companies, withdrawn>>

RefuseWithdrawn(r) ==
    /\ req[r].phase = "verified"
    /\ IF IsWithdrawnSub(req[r].sub) THEN Reply(r, "401") ELSE Goto(r, "bySub")
    /\ UNCHANGED <<account, companies, withdrawn>>

(* get_or_create.  first() has no order: any of the rows found.             *)
FindBySub(r) ==
    LET found == BySub(req[r].sub)
    IN  /\ req[r].phase = "bySub"
        /\ \/ \E c \in found : ActFor(r, c)
           \/ found = {} /\ Goto(r, IF VerifiedEmail(req[r].sub) = NoEmail
                                    THEN "insert" ELSE "byEmail")
        /\ UNCHANGED <<account, companies, withdrawn>>

(* A company that another request has just linked to the account is not     *)
(* written again.                                                            *)
FindByEmail(r) ==
    LET found == ByEmail(VerifiedEmail(req[r].sub))
    IN  /\ req[r].phase = "byEmail"
        /\ \/ \E c \in found :
                 IF companies[c].sub = req[r].sub THEN ActFor(r, c)
                 ELSE req' = [req EXCEPT ![r].phase = "link", ![r].company = c]
           \/ found = {} /\ Goto(r, "insert")
        /\ UNCHANGED <<account, companies, withdrawn>>

(* UPDATE by id of the row read before: whatever has become of it since.    *)
Link(r) ==
    LET c == req[r].company
    IN  /\ req[r].phase = "link"
        /\ IF SubTaken(req[r].sub, c)
           THEN Reply(r, "500") /\ UNCHANGED companies
           ELSE /\ companies' = [companies EXCEPT ![c].sub = req[r].sub]
                /\ ActFor(r, c)
        /\ UNCHANGED <<account, withdrawn>>

InsertOrRaise(r) ==   \* mutant
    /\ req[r].phase = "insert"
    /\ IF SubTaken(req[r].sub, NoCompany)
       THEN Reply(r, "500") /\ UNCHANGED companies
       ELSE \E c \in Slots :
              /\ companies[c].state = "absent"
              /\ \A d \in Slots : companies[d].state = "absent" => c <= d
              /\ companies' = [companies EXCEPT ![c] =
                    [sub |-> req[r].sub, email |-> VerifiedEmail(req[r].sub),
                     state |-> "active"]]
              /\ ActFor(r, c)
    /\ UNCHANGED <<account, withdrawn>>

(* INSERT and commit; on IntegrityError roll back and look once more.       *)
Insert(r) ==
    /\ req[r].phase = "insert"
    /\ IF SubTaken(req[r].sub, NoCompany)
       THEN Goto(r, "converge") /\ UNCHANGED companies
       ELSE \E c \in Slots :
              /\ companies[c].state = "absent"
              /\ \A d \in Slots : companies[d].state = "absent" => c <= d
              /\ companies' = [companies EXCEPT ![c] =
                    [sub |-> req[r].sub, email |-> VerifiedEmail(req[r].sub),
                     state |-> "active"]]
              /\ ActFor(r, c)
    /\ UNCHANGED <<account, withdrawn>>

Converge(r) ==
    LET found == BySub(req[r].sub)
    IN  /\ req[r].phase = "converge"
        /\ \/ \E c \in found : ActFor(r, c)
           \/ found = {} /\ Reply(r, "500")
        /\ UNCHANGED <<account, companies, withdrawn>>

-----------------------------------------------------------------------------
(* The endpoints: a public one, GET /me and DELETE /me.                     *)

Browse(r) ==
    /\ req[r].phase = "endpoint" /\ req[r].goal = "browse"
    /\ Reply(r, "200")
    /\ UNCHANGED <<account, companies, withdrawn>>

GetMe(r) ==
    /\ req[r].phase = "endpoint" /\ req[r].goal = "me"
    /\ Reply(r, IF ById(req[r].company) = {} THEN "404" ELSE "200")
    /\ UNCHANGED <<account, companies, withdrawn>>

(* soft_delete reads the row, and then updates it by id.                    *)
FindToDelete(r) ==
    /\ req[r].phase = "endpoint" /\ req[r].goal = "withdraw"
    /\ IF ById(req[r].company) = {} THEN Reply(r, "404") ELSE Goto(r, "delete")
    /\ UNCHANGED <<account, companies, withdrawn>>

SoftDeleteForgetting(r) ==   \* mutant
    /\ req[r].phase = "delete"
    /\ companies' = [companies EXCEPT ![req[r].company].state = "deleted",
                                      ![req[r].company].sub = NoSub]
    /\ withdrawn' = withdrawn \cup {req[r].sub}
    /\ Reply(r, "204")
    /\ UNCHANGED account

SoftDelete(r) ==
    /\ req[r].phase = "delete"
    /\ companies' = [companies EXCEPT ![req[r].company].state = "deleted"]
    /\ withdrawn' = withdrawn \cup {req[r].sub}
    /\ Reply(r, "204")
    /\ UNCHANGED account

(* The client is done with the answer; later it sends another request.      *)
NextRequest(r) ==
    /\ req[r].phase = "done"
    /\ req' = [req EXCEPT ![r] = New]
    /\ UNCHANGED <<account, companies, withdrawn>>

Step(r) ==
    \/ RefuseWithdrawn(r) \/ FindBySub(r) \/ FindByEmail(r) \/ Link(r) \/ Insert(r)
    \/ Converge(r) \/ Browse(r) \/ GetMe(r) \/ FindToDelete(r) \/ SoftDelete(r)

Next ==
    \/ \E r \in Requests, goal \in Goals : Anonymous(r, goal) \/ RejectToken(r, goal)
    \/ \E r \in Requests, s \in Subs, goal \in Goals : AcceptToken(r, s, goal)
    \/ \E r \in Requests : Step(r) \/ NextRequest(r)

Spec == Init /\ [][Next]_vars

-----------------------------------------------------------------------------
(* Properties.                                                              *)

(* No other account has the verified email of s: nobody can be linked to    *)
(* the company of s but s.                                                   *)
Alone(s) == \A t \in Subs \ {s} : VerifiedEmail(t) # NoEmail =>
                                  VerifiedEmail(t) # VerifiedEmail(s)

(* "Re-registration always starts with a new company": no request acts for  *)
(* a company that was withdrawn before the request began, whichever way it  *)
(* was found (by sub, by email, after a lost insert) and whoever withdrew.  *)
NoInheritance == \A r \in Requests : req[r].company \notin req[r].gone

(* A withdrawal is final: an account, alone with its email, that withdrew   *)
(* has no active company again, although its tokens stay valid and other    *)
(* requests of it were between the check and the insert; and only an        *)
(* account that withdrew is refused as withdrawn.                            *)
WithdrawalFinal ==
    \A s \in Subs : Alone(s) => /\ IsWithdrawnSub(s) <=> s \in withdrawn
                                /\ s \in withdrawn => BySub(s) = {}

(* The email column only ever holds an email that the account of the row    *)
(* has proved to own: no company is taken over by claiming its email.       *)
EmailsProved ==
    \A c \in Slots : companies[c].sub # NoSub /\ companies[c].email # NoEmail
                     => /\ account[companies[c].sub].email = companies[c].email
                        /\ account[companies[c].sub].claim \in {"True", "true"}

(* Parallel first requests of an account converge on one company: none of   *)
(* them fails, unless the account has withdrawn meanwhile or shares its     *)
(* email with another.                                                       *)
FirstRequestsConverge ==
    \A r \in Requests : req[r].reply = "500" =>
        req[r].sub \in withdrawn \/ ~Alone(req[r].sub)
=============================================================================
