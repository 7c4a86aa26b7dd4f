------------------------- MODULE ChatSession_proofs --------------------------
(***************************************************************************)
(* Theorems about ChatSession, for any number of processes, companies,      *)
(* sessions and requests and any session_max_turns.                         *)
(***************************************************************************)
EXTENDS ChatSession, FiniteSetTheorems, TLAPS

(* A request past "idle" has its fields.                                    *)
LEMMA SentRequest ==
    ASSUME TypeOK, NEW t \in Turns, pc[t] # "idle"
    PROVE  /\ req[t] \in Request
           /\ req[t].proc \in Procs /\ req[t].company \in Companies
           /\ req[t].sid \in Sessions /\ req[t].named \in BOOLEAN
BY DEF TypeOK, Request

LEMMA LastTurnInMessages ==
    ASSUME NEW s PROVE LastTurn(s) \subseteq messages
BY DEF LastTurn, Of, UserMessages

(* Inserting a message keeps the rows typed.                                *)
LEMMA InsertType ==
    ASSUME TypeOK, NEW s \in Sessions, NEW role \in {"user", "assistant"}, NEW t \in Turns,
           Insert(s, role, t)
    PROVE  messages' \in SUBSET Message /\ serial' \in [Sessions -> Nat]
<1>1. serial[s] \in Nat BY DEF TypeOK
<1>2. [session |-> s, id |-> serial[s], role |-> role, turn |-> t] \in Message
  BY <1>1 DEF Message
<1> QED BY <1>1, <1>2 DEF Insert, TypeOK

(* Leaving the guard keeps the request state typed.                         *)
LEMMA FinishType ==
    ASSUME TypeOK, NEW t \in Turns, NEW o \in Outcome, pc[t] # "idle", Finish(t, o)
    PROVE  /\ inflight' \in [Procs -> SUBSET Sessions]
           /\ pc' \in [Turns -> {"idle"} \cup Held \cup Outcome]
           /\ pc' = [pc EXCEPT ![t] = o]
           /\ fed' \in [Turns -> Turns \cup {None}]
           /\ creates' \in [Turns -> BOOLEAN]
BY DEF Finish, TypeOK

LEMMA TypeInit == Init => TypeOK
BY DEF Init, TypeOK

LEMMA TypeStep == TypeOK /\ [Next]_vars => TypeOK'
<1> SUFFICES ASSUME TypeOK, [Next]_vars PROVE TypeOK'
  OBVIOUS
<1>1. ASSUME NEW t \in Turns, NEW r \in Request, EnterTurn(t, r) PROVE TypeOK'
  <2>1. r.proc \in Procs /\ r.sid \in Sessions BY DEF Request
  <2>2. "entered" \in Held BY DEF Held
  <2> QED BY <1>1, <2>1, <2>2 DEF EnterTurn, Send, rowVars, TypeOK
<1>2. ASSUME NEW t \in Turns, NEW r \in Request, RejectBusy(t, r) PROVE TypeOK'
  <2>1. "busy" \in Outcome BY DEF Outcome
  <2> QED BY <1>2, <2>1 DEF RejectBusy, Send, rowVars, TypeOK
<1>3. ASSUME NEW t \in Turns, CountTurns(t) PROVE TypeOK'
  <2>1. pc[t] # "idle" BY <1>3 DEF CountTurns
  <2>2. {"forbidden", "capped"} \subseteq Outcome /\ "counted" \in Held BY DEF Outcome, Held
  <2>3. CASE Finish(t, "forbidden") \/ Finish(t, "capped")
    BY <1>3, <2>1, <2>2, <2>3, FinishType DEF CountTurns, rowVars, TypeOK
  <2>4. CASE pc' = [pc EXCEPT ![t] = "counted"] /\ UNCHANGED <<inflight, fed, creates>>
    BY <1>3, <2>1, <2>2, <2>4 DEF CountTurns, rowVars, TypeOK
  <2> QED BY <1>3, <2>3, <2>4 DEF CountTurns
<1>4. ASSUME NEW t \in Turns, OpenTurnRead(t) PROVE TypeOK'
  <2>1. pc[t] # "idle" BY <1>4 DEF OpenTurnRead
  <2>2. "forbidden" \in Outcome /\ "opened" \in Held BY DEF Outcome, Held
  <2>3. CASE Finish(t, "forbidden")
    BY <1>4, <2>1, <2>2, <2>3, FinishType DEF OpenTurnRead, rowVars, TypeOK
  <2>4. CASE ~Finish(t, "forbidden")
    <3>1. req[t].sid \in Sessions BY <2>1, SentRequest
    <3>2. context[req[t].sid] \in Turns \cup {None} BY <3>1 DEF TypeOK
    <3>3. /\ fed' = [fed EXCEPT ![t] = context[req[t].sid]]
          /\ creates' = [creates EXCEPT ![t] = owner[req[t].sid] = NoCompany]
          /\ pc' = [pc EXCEPT ![t] = "opened"]
          /\ UNCHANGED <<inflight, req, undo>> /\ UNCHANGED rowVars
      BY <1>4, <2>4 DEF OpenTurnRead
    <3>4. creates' \in [Turns -> BOOLEAN] BY <3>3, Zenon DEF TypeOK
    <3>5. fed' \in [Turns -> Turns \cup {None}] BY <3>2, <3>3 DEF TypeOK
    <3> QED BY <2>1, <2>2, <3>3, <3>4, <3>5 DEF rowVars, TypeOK
  <2> QED BY <2>3, <2>4
<1>5. ASSUME NEW t \in Turns, OpenTurnCommit(t) PROVE TypeOK'
  <2>1. pc[t] # "idle" BY <1>5 DEF OpenTurnCommit
  <2>2. "failed" \in Outcome /\ "asked" \in Held BY DEF Outcome, Held
  <2>3. req[t].sid \in Sessions /\ req[t].company \in Companies BY <2>1, SentRequest
  <2>4. CASE Finish(t, "failed") /\ UNCHANGED rowVars
    BY <1>5, <2>1, <2>2, <2>4, FinishType DEF OpenTurnCommit, rowVars, TypeOK
  <2>5. CASE /\ owner' = IF creates[t] THEN [owner EXCEPT ![req[t].sid] = req[t].company]
                                       ELSE owner
             /\ Insert(req[t].sid, "user", t)
             /\ pc' = [pc EXCEPT ![t] = "asked"]
             /\ UNCHANGED <<inflight, fed, creates, deleted, context>>
    <3>1. messages' \in SUBSET Message /\ serial' \in [Sessions -> Nat]
      BY <2>3, <2>5, InsertType
    <3> QED BY <1>5, <2>1, <2>2, <2>3, <2>5, <3>1 DEF OpenTurnCommit, TypeOK
  <2> QED BY <1>5, <2>4, <2>5 DEF OpenTurnCommit
<1>6. ASSUME NEW t \in Turns, CloseTurn(t) PROVE TypeOK'
  <2>1. pc[t] # "idle" BY <1>6 DEF CloseTurn
  <2>2. req[t].sid \in Sessions BY <2>1, SentRequest
  <2>3. "ok" \in Outcome BY DEF Outcome
  <2>4. messages' \in SUBSET Message /\ serial' \in [Sessions -> Nat]
    BY <1>6, <2>2, InsertType DEF CloseTurn
  <2>5. context' \in [Sessions -> Turns \cup {None}]
    <3>1. PICK remembered \in {t, None} : context' = [context EXCEPT ![req[t].sid] = remembered]
      BY <1>6 DEF CloseTurn
    <3>2. remembered \in Turns \cup {None} BY <3>1
    <3> QED BY <3>1, <3>2 DEF TypeOK
  <2> QED BY <1>6, <2>1, <2>2, <2>3, <2>4, <2>5, FinishType DEF CloseTurn, TypeOK
<1>7. ASSUME NEW t \in Turns, TurnFails(t) PROVE TypeOK'
  <2>1. pc[t] # "idle" BY <1>7 DEF TurnFails, Held
  <2>2. "failed" \in Outcome BY DEF Outcome
  <2> QED BY <1>7, <2>1, <2>2, FinishType DEF TurnFails, rowVars, TypeOK
<1>8. ASSUME NEW p \in Procs, Crash(p) PROVE TypeOK'
  <2>1. "failed" \in Outcome BY DEF Outcome
  <2>2. \A t \in Turns : pc'[t] # "idle" => pc[t] # "idle"
    BY <1>8 DEF Crash, Held, TypeOK
  <2> QED BY <1>8, <2>1, <2>2 DEF Crash, rowVars, TypeOK
<1>9. ASSUME NEW s \in Sessions, NEW c \in Companies, DeleteSession(s, c) PROVE TypeOK'
  BY <1>9 DEF DeleteSession, turnVars, TypeOK
<1>10. ASSUME NEW u \in Undoers, NEW s \in Sessions, NEW c \in Companies, UndoRead(u, s, c)
       PROVE  TypeOK'
  <2>1. LastTurn(s) \in SUBSET Message BY LastTurnInMessages DEF TypeOK
  <2>2. [session |-> s, victims |-> LastTurn(s), hadContext |-> context[s] # None] \in Undo
    BY <2>1 DEF Undo
  <2> QED BY <1>10, <2>2 DEF UndoRead, turnVars, rowVars, TypeOK
<1>11. ASSUME NEW u \in Undoers, UndoCommit(u) PROVE TypeOK'
  BY <1>11 DEF UndoCommit, turnVars, TypeOK, Undo
<1>12. CASE UNCHANGED vars
  BY <1>12 DEF vars, TypeOK
<1> QED
  BY <1>1, <1>2, <1>3, <1>4, <1>5, <1>6, <1>7, <1>8, <1>9, <1>10, <1>11, <1>12
     DEF Next, TurnStep

(* Every variable of ChatSession keeps its type.                            *)
THEOREM TypeCorrect == Spec => []TypeOK
BY TypeInit, TypeStep, PTL DEF Spec

-----------------------------------------------------------------------------
(* The guard.                                                               *)

(* A step that neither frees nor takes a guard.                             *)
LEMMA GuardKept ==
    ASSUME GuardExact, UNCHANGED <<inflight, req>>,
           \A t \in Turns : pc'[t] \in Held <=> pc[t] \in Held
    PROVE  GuardExact'
BY DEF GuardExact, HoldsGuard

(* A turn that ends frees exactly its own guard, for it alone held it.      *)
LEMMA FinishGuard ==
    ASSUME TypeOK, GuardExact, NEW t \in Turns, pc[t] \in Held, NEW o \in Outcome,
           Finish(t, o), UNCHANGED req
    PROVE  GuardExact'
<1> DEFINE p == req[t].proc
           s == req[t].sid
<1>1. o \notin Held BY DEF Outcome, Held
<1>2. p \in Procs /\ s \in Sessions BY SentRequest DEF Held
<1>3. \A u \in Turns : pc'[u] \in Held <=> pc[u] \in Held /\ u # t
  BY <1>1 DEF Finish, TypeOK
<1>4. HoldsGuard(t, p, s) BY DEF HoldsGuard
<1>5. \A q \in Procs, z \in Sessions :
        z \in inflight'[q] <=> z \in inflight[q] /\ ~(q = p /\ z = s)
  BY <1>2 DEF Finish, TypeOK
<1>6. \A u \in Turns, q \in Procs, z \in Sessions :
        HoldsGuard(u, q, z)' <=> HoldsGuard(u, q, z) /\ u # t
  BY <1>3 DEF HoldsGuard
<1>7. ASSUME NEW q \in Procs, NEW z \in Sessions
      PROVE  z \in inflight'[q] <=> \E u \in Turns : HoldsGuard(u, q, z)'
  <2>1. CASE q = p /\ z = s BY <1>2, <1>4, <1>5, <1>6, <2>1 DEF GuardExact
  <2>2. CASE ~(q = p /\ z = s)
    <3>1. ~HoldsGuard(t, q, z) BY <2>2 DEF HoldsGuard
    <3> QED BY <1>5, <1>6, <2>2, <3>1 DEF GuardExact
  <2> QED BY <2>1, <2>2
<1> QED BY <1>6, <1>7 DEF GuardExact

LEMMA GuardInit == Init => GuardExact
BY DEF Init, GuardExact, HoldsGuard, Held

LEMMA GuardStep == TypeOK /\ GuardExact /\ [Next]_vars => GuardExact'
<1> SUFFICES ASSUME TypeOK, GuardExact, [Next]_vars PROVE GuardExact'
  OBVIOUS
<1>1. ASSUME NEW t \in Turns, NEW r \in Request, EnterTurn(t, r) PROVE GuardExact'
  <2>1. r.proc \in Procs /\ r.sid \in Sessions /\ pc[t] \notin Held
    BY <1>1 DEF Request, EnterTurn, Send, Held
  <2>2. /\ pc' = [pc EXCEPT ![t] = "entered"]
        /\ req' = [req EXCEPT ![t] = r]
        /\ inflight' = [inflight EXCEPT ![r.proc] = @ \cup {r.sid}]
        /\ r.sid \notin inflight[r.proc]
    BY <1>1 DEF EnterTurn, Send, Busy
  <2>3. \A u \in Turns, q \in Procs, z \in Sessions :
          HoldsGuard(u, q, z)' <=>
            HoldsGuard(u, q, z) \/ (u = t /\ q = r.proc /\ z = r.sid)
    <3>1. \A u \in Turns : u # t => pc'[u] = pc[u] /\ req'[u] = req[u]
      BY <2>2 DEF TypeOK
    <3>2. pc'[t] = "entered" /\ req'[t] = r
      BY <2>2 DEF TypeOK
    <3>3. "entered" \in Held BY DEF Held
    <3> QED BY <2>1, <3>1, <3>2, <3>3 DEF HoldsGuard
  <2>4. \A q \in Procs, z \in Sessions :
          z \in inflight'[q] <=> z \in inflight[q] \/ (q = r.proc /\ z = r.sid)
    BY <2>1, <2>2 DEF TypeOK
  <2>5. \A u \in Turns : ~HoldsGuard(u, r.proc, r.sid)
    <3>1. r.sid \in inflight[r.proc] <=> \E u \in Turns : HoldsGuard(u, r.proc, r.sid)
      BY <2>1, Zenon DEF GuardExact
    <3> QED BY <2>2, <3>1
  <2> QED BY <2>1, <2>3, <2>4, <2>5 DEF GuardExact
<1>2. ASSUME NEW t \in Turns, NEW r \in Request, RejectBusy(t, r) PROVE GuardExact'
  <2>1. \A u \in Turns : (pc'[u] \in Held <=> pc[u] \in Held) /\ (pc[u] \in Held => u # t)
    BY <1>2 DEF RejectBusy, Send, Held, TypeOK
  <2>2. \A u \in Turns : u # t => req'[u] = req[u]
    BY <1>2 DEF RejectBusy, Send, TypeOK
  <2>3. inflight' = inflight BY <1>2 DEF RejectBusy
  <2> QED BY <2>1, <2>2, <2>3 DEF GuardExact, HoldsGuard
<1>3. ASSUME NEW t \in Turns, CountTurns(t) PROVE GuardExact'
  <2>1. pc[t] \in Held /\ {"forbidden", "capped"} \subseteq Outcome /\ UNCHANGED req
    BY <1>3 DEF CountTurns, Held, Outcome
  <2>2. CASE Finish(t, "forbidden") \/ Finish(t, "capped") BY <2>1, <2>2, FinishGuard
  <2>3. CASE pc' = [pc EXCEPT ![t] = "counted"] /\ UNCHANGED inflight
    <3>1. \A u \in Turns : pc'[u] \in Held <=> pc[u] \in Held
      BY <2>1, <2>3 DEF Held, TypeOK
    <3> QED BY <2>1, <2>3, <3>1, GuardKept
  <2> QED BY <1>3, <2>2, <2>3 DEF CountTurns
<1>4. ASSUME NEW t \in Turns, OpenTurnRead(t) PROVE GuardExact'
  <2>1. pc[t] \in Held /\ "forbidden" \in Outcome /\ UNCHANGED req
    BY <1>4 DEF OpenTurnRead, Held, Outcome
  <2>2. CASE Finish(t, "forbidden") BY <2>1, <2>2, FinishGuard
  <2>3. CASE pc' = [pc EXCEPT ![t] = "opened"] /\ UNCHANGED inflight
    <3>1. \A u \in Turns : pc'[u] \in Held <=> pc[u] \in Held
      BY <2>1, <2>3 DEF Held, TypeOK
    <3> QED BY <2>1, <2>3, <3>1, GuardKept
  <2> QED BY <1>4, <2>2, <2>3 DEF OpenTurnRead
<1>5. ASSUME NEW t \in Turns, OpenTurnCommit(t) PROVE GuardExact'
  <2>1. pc[t] \in Held /\ "failed" \in Outcome /\ UNCHANGED req
    BY <1>5 DEF OpenTurnCommit, Held, Outcome
  <2>2. CASE Finish(t, "failed") BY <2>1, <2>2, FinishGuard
  <2>3. CASE pc' = [pc EXCEPT ![t] = "asked"] /\ UNCHANGED inflight
    <3>1. \A u \in Turns : pc'[u] \in Held <=> pc[u] \in Held
      BY <2>1, <2>3 DEF Held, TypeOK
    <3> QED BY <2>1, <2>3, <3>1, GuardKept
  <2> QED BY <1>5, <2>2, <2>3 DEF OpenTurnCommit
<1>6. ASSUME NEW t \in Turns, CloseTurn(t) PROVE GuardExact'
  <2>1. pc[t] \in Held /\ "ok" \in Outcome BY <1>6 DEF CloseTurn, Held, Outcome
  <2> QED BY <1>6, <2>1, FinishGuard DEF CloseTurn
<1>7. ASSUME NEW t \in Turns, TurnFails(t) PROVE GuardExact'
  <2>1. "failed" \in Outcome BY DEF Outcome
  <2> QED BY <1>7, <2>1, FinishGuard DEF TurnFails
<1>8. ASSUME NEW p \in Procs, Crash(p) PROVE GuardExact'
  <2>1. \A u \in Turns : pc'[u] \in Held <=> pc[u] \in Held /\ req[u].proc # p
    BY <1>8 DEF Crash, Held, TypeOK
  <2>2. \A u \in Turns, q \in Procs, z \in Sessions :
          HoldsGuard(u, q, z)' <=> HoldsGuard(u, q, z) /\ q # p
    BY <1>8, <2>1 DEF HoldsGuard, Crash
  <2>3. \A q \in Procs, z \in Sessions : z \in inflight'[q] <=> z \in inflight[q] /\ q # p
    BY <1>8 DEF Crash, TypeOK
  <2> QED BY <2>2, <2>3 DEF GuardExact
<1>9. ASSUME UNCHANGED <<inflight, pc, req>> PROVE GuardExact'
  BY <1>9, GuardKept
<1> QED
  BY <1>1, <1>2, <1>3, <1>4, <1>5, <1>6, <1>7, <1>8, <1>9
     DEF Next, TurnStep, DeleteSession, UndoRead, UndoCommit, turnVars, vars

(* _inflight names exactly the sessions at work, each held by one turn: in  *)
(* every process, after every way a turn can end.                            *)
THEOREM GuardCorrect == Spec => []GuardExact
BY TypeInit, TypeStep, GuardInit, GuardStep, PTL DEF Spec

-----------------------------------------------------------------------------
(* Isolation.                                                               *)

(* Isolation is not inductive: it says nothing of the context a session     *)
(* keeps between two turns, nor of the turns that are about to write.        *)
MessagesOwned ==
    \A m \in messages : pc[m.turn] # "idle" /\ req[m.turn].company = owner[m.session]
ContextOwned ==
    \A s \in Sessions : context[s] # None =>
        pc[context[s]] # "idle" /\ req[context[s]].company = owner[s]
FedOwned ==
    \A t \in Turns : fed[t] # None =>
        pc[t] # "idle" /\ pc[fed[t]] # "idle" /\ req[fed[t]].company = req[t].company
WritersOwn ==
    \A t \in Turns : pc[t] = "asked" \/ (pc[t] = "opened" /\ ~creates[t]) =>
        owner[req[t].sid] = req[t].company
IsolationInv == MessagesOwned /\ ContextOwned /\ FedOwned /\ WritersOwn

LEMMA IsolationInit == Init => IsolationInv
BY DEF Init, IsolationInv, MessagesOwned, ContextOwned, FedOwned, WritersOwn

LEMMA IsolationImplied == TypeOK /\ IsolationInv => Isolation
BY DEF IsolationInv, MessagesOwned, FedOwned, Isolation

(* Turns advance without writing rows, and some of them end.                *)
LEMMA IsolationKept ==
    ASSUME TypeOK, TypeOK', IsolationInv,
           messages' \subseteq messages,
           \A s \in Sessions : owner'[s] = owner[s] /\ context'[s] \in {context[s], None},
           \A t \in Turns : /\ pc[t] # "idle" => pc'[t] # "idle" /\ req'[t] = req[t]
                            /\ fed'[t] \in {fed[t], None}
                            /\ pc'[t] \in {"opened", "asked"} =>
                                  pc'[t] = pc[t] /\ creates'[t] = creates[t]
    PROVE  IsolationInv'
<1>1. MessagesOwned'
  <2> SUFFICES ASSUME NEW m \in messages'
               PROVE  pc'[m.turn] # "idle" /\ req'[m.turn].company = owner'[m.session]
    BY DEF MessagesOwned
  <2>1. m \in messages /\ m.turn \in Turns /\ m.session \in Sessions BY DEF TypeOK, Message
  <2> QED BY <2>1 DEF IsolationInv, MessagesOwned
<1>2. ContextOwned'
  BY DEF IsolationInv, ContextOwned, TypeOK
<1>3. FedOwned'
  BY DEF IsolationInv, FedOwned, TypeOK
<1>4. WritersOwn'
  <2> SUFFICES ASSUME NEW t \in Turns,
                      pc'[t] = "asked" \/ (pc'[t] = "opened" /\ ~creates'[t])
               PROVE  owner'[req'[t].sid] = req'[t].company
    BY DEF WritersOwn
  <2>1. /\ pc'[t] = pc[t] /\ creates'[t] = creates[t] /\ pc[t] # "idle" /\ req'[t] = req[t]
    OBVIOUS
  <2>2. req[t].sid \in Sessions BY <2>1, SentRequest
  <2> QED BY <2>1, <2>2 DEF IsolationInv, WritersOwn
<1> QED BY <1>1, <1>2, <1>3, <1>4 DEF IsolationInv

LEMMA FinishIsolation ==
    ASSUME TypeOK, TypeOK', IsolationInv, NEW t \in Turns, NEW o \in Outcome,
           Finish(t, o), UNCHANGED <<req, rowVars>>
    PROVE  IsolationInv'
<1>1. o \notin {"idle", "opened", "asked"} BY DEF Outcome
<1>2. \A u \in Turns : /\ u # t => pc'[u] = pc[u] /\ fed'[u] = fed[u] /\ creates'[u] = creates[u]
                       /\ pc'[t] = o /\ fed'[t] = None
  BY DEF Finish, TypeOK
<1> QED BY <1>1, <1>2, IsolationKept DEF rowVars

LEMMA IsolationStep == TypeOK /\ TypeOK' /\ IsolationInv /\ [Next]_vars => IsolationInv'
<1> SUFFICES ASSUME TypeOK, TypeOK', IsolationInv, [Next]_vars PROVE IsolationInv'
  OBVIOUS
<1>1. ASSUME NEW t \in Turns, NEW r \in Request, EnterTurn(t, r) \/ RejectBusy(t, r)
      PROVE  IsolationInv'
  <2>1. \A u \in Turns : /\ u # t => pc'[u] = pc[u] /\ req'[u] = req[u]
                         /\ pc[t] = "idle" /\ pc'[t] \in {"entered", "busy"}
    BY <1>1 DEF EnterTurn, RejectBusy, Send, TypeOK
  <2>2. UNCHANGED <<fed, creates, rowVars>> BY <1>1 DEF EnterTurn, RejectBusy
  <2> QED BY <2>1, <2>2, IsolationKept DEF rowVars
<1>2. ASSUME NEW t \in Turns, CountTurns(t) PROVE IsolationInv'
  <2>1. UNCHANGED <<req, rowVars>> /\ {"forbidden", "capped"} \subseteq Outcome
    BY <1>2 DEF CountTurns, Outcome
  <2>2. CASE Finish(t, "forbidden") \/ Finish(t, "capped") BY <2>1, <2>2, FinishIsolation
  <2>3. CASE pc' = [pc EXCEPT ![t] = "counted"] /\ UNCHANGED <<inflight, fed, creates>>
    <3>1. \A u \in Turns : (u # t => pc'[u] = pc[u]) /\ pc'[t] = "counted"
      BY <2>3 DEF TypeOK
    <3> QED BY <2>1, <2>3, <3>1, IsolationKept DEF rowVars
  <2> QED BY <1>2, <2>2, <2>3 DEF CountTurns
<1>3. ASSUME NEW t \in Turns, OpenTurnRead(t) PROVE IsolationInv'
  <2>1. UNCHANGED <<req, rowVars>> /\ "forbidden" \in Outcome /\ pc[t] = "counted"
    BY <1>3 DEF OpenTurnRead, Outcome
  <2>2. CASE Finish(t, "forbidden") BY <2>1, <2>2, FinishIsolation
  <2>3. CASE ~Finish(t, "forbidden")
    <3> DEFINE s == req[t].sid
    <3>1. /\ owner[s] = NoCompany \/ owner[s] = req[t].company
          /\ fed' = [fed EXCEPT ![t] = context[s]]
          /\ creates' = [creates EXCEPT ![t] = owner[s] = NoCompany]
          /\ pc' = [pc EXCEPT ![t] = "opened"]
      BY <1>3, <2>3 DEF OpenTurnRead, Forbidden
    <3>2. s \in Sessions /\ req[t].company \in Companies BY <2>1, SentRequest
    <3>3. \A u \in Turns : u # t => pc'[u] = pc[u] /\ fed'[u] = fed[u]
      BY <3>1 DEF TypeOK
    <3>3a. \A u \in Turns : u # t => creates'[u] = creates[u]
      BY <3>1, Zenon DEF TypeOK
    <3>4. pc'[t] = "opened" /\ fed'[t] = context[s]
      BY <3>1 DEF TypeOK
    <3>4a. creates'[t] = (owner[s] = NoCompany)
      BY <3>1, Zenon DEF TypeOK
    <3>5. MessagesOwned'
      BY <2>1, <3>3, <3>4 DEF IsolationInv, MessagesOwned, rowVars, TypeOK, Message
    <3>6. ContextOwned'
      BY <2>1, <3>3, <3>4 DEF IsolationInv, ContextOwned, rowVars, TypeOK
    <3>7. FedOwned'
      <4>1. context[s] # None => /\ pc[context[s]] # "idle" /\ context[s] \in Turns
                                 /\ req[context[s]].company = req[t].company
        <5>1. ASSUME context[s] # None
              PROVE  /\ pc[context[s]] # "idle" /\ context[s] \in Turns
                     /\ req[context[s]].company = owner[s]
          BY <3>2, <5>1 DEF IsolationInv, ContextOwned, TypeOK
        <5>2. ASSUME context[s] # None PROVE req[context[s]].company \in Companies
          BY <5>1, <5>2, SentRequest
        <5> QED BY <3>1, <5>1, <5>2, ConstantsAssumption
      <4>2. \A u \in Turns : pc[u] # "idle" => pc'[u] # "idle" BY <3>3, <3>4
      <4>3. \A u \in Turns : fed[u] \in Turns \cup {None} BY DEF TypeOK
      <4> QED BY <2>1, <3>3, <3>4, <4>1, <4>2, <4>3 DEF IsolationInv, FedOwned
    <3>8. WritersOwn'
      <4> SUFFICES ASSUME NEW u \in Turns,
                          pc'[u] = "asked" \/ (pc'[u] = "opened" /\ ~creates'[u])
                   PROVE  owner[req[u].sid] = req[u].company
        BY <2>1 DEF WritersOwn, rowVars
      <4>1. CASE u = t
        <5>1. ~creates'[t] BY <3>4, <4>1
        <5>2. owner[s] # NoCompany BY <3>4a, <5>1, Zenon
        <5> QED BY <3>1, <4>1, <5>2
      <4>2. CASE u # t
        <5>1. pc[u] = pc'[u] /\ (creates'[u] <=> creates[u])
          <6>1. pc[u] = pc'[u] BY <3>3, <4>2
          <6>2. creates'[u] = creates[u] BY <3>3a, <4>2
          <6> QED BY <6>1, <6>2, Zenon
        <5> QED BY <5>1 DEF IsolationInv, WritersOwn
      <4> QED BY <4>1, <4>2
    <3> QED BY <3>5, <3>6, <3>7, <3>8 DEF IsolationInv
  <2> QED BY <2>2, <2>3
<1>4. ASSUME NEW t \in Turns, OpenTurnCommit(t) PROVE IsolationInv'
  <2>1. UNCHANGED req /\ "failed" \in Outcome /\ pc[t] = "opened"
    BY <1>4 DEF OpenTurnCommit, Outcome
  <2>2. CASE Finish(t, "failed") /\ UNCHANGED rowVars BY <2>1, <2>2, FinishIsolation
  <2>3. CASE /\ creates[t] => owner[req[t].sid] = NoCompany
             /\ owner' = IF creates[t] THEN [owner EXCEPT ![req[t].sid] = req[t].company]
                                       ELSE owner
             /\ Insert(req[t].sid, "user", t)
             /\ pc' = [pc EXCEPT ![t] = "asked"]
             /\ UNCHANGED <<inflight, fed, creates, deleted, context>>
    <3> DEFINE s == req[t].sid
    <3>1. s \in Sessions /\ req[t].company \in Companies BY <2>1, SentRequest
    <3>2. owner'[s] = req[t].company
      BY <2>1, <2>3, <3>1 DEF IsolationInv, WritersOwn, TypeOK
    <3>3. \A z \in Sessions : owner[z] # NoCompany => owner'[z] = owner[z]
      BY <2>3, <3>1 DEF TypeOK
    <3>4. \A u \in Turns : (u # t => pc'[u] = pc[u]) /\ pc'[t] = "asked"
      BY <2>3 DEF TypeOK
    <3>5. MessagesOwned'
      <4> SUFFICES ASSUME NEW m \in messages'
                   PROVE  pc'[m.turn] # "idle" /\ req'[m.turn].company = owner'[m.session]
        BY DEF MessagesOwned
      <4>1. CASE m \in messages
        <5>1. m.turn \in Turns /\ m.session \in Sessions BY <4>1 DEF TypeOK, Message
        <5>2. pc[m.turn] # "idle" /\ req[m.turn].company = owner[m.session]
          BY <4>1 DEF IsolationInv, MessagesOwned
        <5>3. owner[m.session] # NoCompany
          BY <5>1, <5>2, SentRequest, ConstantsAssumption
        <5> QED BY <2>1, <3>3, <3>4, <5>1, <5>2, <5>3
      <4>2. CASE m = [session |-> s, id |-> serial[s], role |-> "user", turn |-> t]
        BY <2>1, <3>2, <3>4, <4>2
      <4> QED BY <2>3, <4>1, <4>2 DEF Insert
    <3>6. ContextOwned'
      <4> SUFFICES ASSUME NEW z \in Sessions, context[z] # None
                   PROVE  pc'[context[z]] # "idle" /\ req[context[z]].company = owner'[z]
        BY <2>1, <2>3 DEF ContextOwned
      <4>1. context[z] \in Turns BY DEF TypeOK
      <4>2. pc[context[z]] # "idle" /\ req[context[z]].company = owner[z]
        BY DEF IsolationInv, ContextOwned
      <4>3. owner[z] # NoCompany BY <4>1, <4>2, SentRequest, ConstantsAssumption
      <4> QED BY <3>3, <3>4, <4>1, <4>2, <4>3
    <3>7. FedOwned'
      <4>1. \A u \in Turns : pc[u] # "idle" => pc'[u] # "idle" BY <3>4
      <4>2. \A u \in Turns : fed[u] \in Turns \cup {None} BY DEF TypeOK
      <4> QED BY <2>1, <2>3, <4>1, <4>2 DEF IsolationInv, FedOwned
    <3>8. WritersOwn'
      <4> SUFFICES ASSUME NEW u \in Turns,
                          pc'[u] = "asked" \/ (pc'[u] = "opened" /\ ~creates[u])
                   PROVE  owner'[req[u].sid] = req[u].company
        BY <2>1, <2>3 DEF WritersOwn
      <4>1. CASE u = t BY <3>2, <4>1
      <4>2. CASE u # t
        <5>1. pc[u] # "idle" /\ owner[req[u].sid] = req[u].company
          BY <3>4, <4>2 DEF IsolationInv, WritersOwn
        <5>2. req[u].sid \in Sessions /\ req[u].company \in Companies BY <5>1, SentRequest
        <5> QED BY <3>3, <5>1, <5>2, ConstantsAssumption
      <4> QED BY <4>1, <4>2
    <3> QED BY <3>5, <3>6, <3>7, <3>8 DEF IsolationInv
  <2> QED BY <1>4, <2>2, <2>3 DEF OpenTurnCommit
<1>5. ASSUME NEW t \in Turns, CloseTurn(t) PROVE IsolationInv'
  <2> DEFINE s == req[t].sid
  <2>1. pc[t] = "asked" /\ UNCHANGED <<req, owner, deleted>> BY <1>5 DEF CloseTurn
  <2>2. s \in Sessions /\ owner[s] = req[t].company
    BY <2>1, SentRequest DEF IsolationInv, WritersOwn
  <2>3. \A u \in Turns : /\ u # t => pc'[u] = pc[u] /\ fed'[u] = fed[u] /\ creates'[u] = creates[u]
                         /\ pc'[t] = "ok" /\ fed'[t] = None
    BY <1>5 DEF CloseTurn, Finish, TypeOK
  <2>4. \A u \in Turns : pc[u] # "idle" => pc'[u] # "idle" BY <2>3
  <2>5. MessagesOwned'
    <3> SUFFICES ASSUME NEW m \in messages'
                 PROVE  pc'[m.turn] # "idle" /\ req'[m.turn].company = owner'[m.session]
      BY DEF MessagesOwned
    <3>1. CASE m \in messages
      <4>1. m.turn \in Turns BY <3>1 DEF TypeOK, Message
      <4> QED BY <2>1, <2>4, <3>1, <4>1 DEF IsolationInv, MessagesOwned
    <3>2. CASE m = [session |-> s, id |-> serial[s], role |-> "assistant", turn |-> t]
      BY <2>1, <2>2, <2>3, <3>2
    <3> QED BY <1>5, <3>1, <3>2 DEF CloseTurn, Insert
  <2>6. ContextOwned'
    <3>1. /\ context'[s] \in {t, None}
          /\ \A z \in Sessions \ {s} : context'[z] = context[z]
      BY <1>5, <2>2 DEF CloseTurn, TypeOK
    <3>2. \A z \in Sessions : context[z] \in Turns \cup {None} BY DEF TypeOK
    <3> QED BY <2>1, <2>2, <2>3, <2>4, <3>1, <3>2 DEF IsolationInv, ContextOwned
  <2>7. FedOwned'
    <3>1. \A u \in Turns : fed[u] \in Turns \cup {None} BY DEF TypeOK
    <3> QED BY <2>1, <2>3, <2>4, <3>1 DEF IsolationInv, FedOwned
  <2>8. WritersOwn'
    BY <2>1, <2>3 DEF IsolationInv, WritersOwn
  <2> QED BY <2>5, <2>6, <2>7, <2>8 DEF IsolationInv
<1>6. ASSUME NEW t \in Turns, TurnFails(t) PROVE IsolationInv'
  BY <1>6, FinishIsolation DEF TurnFails, Outcome
<1>7. ASSUME NEW p \in Procs, Crash(p) PROVE IsolationInv'
  <2>1. \A u \in Turns : /\ pc'[u] = IF pc[u] \in Held /\ req[u].proc = p THEN "failed" ELSE pc[u]
                         /\ fed'[u] \in {fed[u], None}
    BY <1>7 DEF Crash
  <2>2. \A u \in Turns : pc'[u] \in {"opened", "asked"} =>
                            pc'[u] = pc[u] /\ creates'[u] = creates[u]
    BY <1>7, <2>1 DEF Crash
  <2>3. UNCHANGED <<req, rowVars>> BY <1>7 DEF Crash
  <2> QED BY <2>1, <2>2, <2>3, IsolationKept DEF rowVars
<1>8. ASSUME NEW u \in Undoers, UndoCommit(u) PROVE IsolationInv'
  <2>1. undo[u].session \in Sessions BY <1>8 DEF UndoCommit, TypeOK, Undo
  <2>2. \A z \in Sessions : context'[z] \in {context[z], None}
    BY <1>8, <2>1 DEF UndoCommit, TypeOK
  <2>3. UNCHANGED <<turnVars, owner>> /\ messages' \subseteq messages
    BY <1>8 DEF UndoCommit
  <2> QED BY <2>2, <2>3, IsolationKept DEF turnVars
<1>9. ASSUME UNCHANGED <<turnVars, owner, context, messages>> PROVE IsolationInv'
  BY <1>9, IsolationKept DEF turnVars
<1> QED
  BY <1>1, <1>2, <1>3, <1>4, <1>5, <1>6, <1>7, <1>8, <1>9
     DEF Next, TurnStep, DeleteSession, UndoRead, turnVars, rowVars, vars

(* No company's question is stored in, and no context is fed from, another  *)
(* company's session, whoever names or races to create which id.            *)
THEOREM IsolationCorrect == Spec => []Isolation
<1>1. TypeOK /\ IsolationInv /\ [Next]_vars => (TypeOK /\ IsolationInv)'
  BY TypeStep, IsolationStep
<1> QED BY <1>1, TypeInit, IsolationInit, IsolationImplied, PTL DEF Spec

-----------------------------------------------------------------------------
(* The cap on turns.                                                        *)

(* The turns that have passed the cap, or never have to, and have not yet   *)
(* inserted their question.                                                  *)
Admitted(s) ==
    {t \in Turns : /\ pc[t] \in {"counted", "opened"} \/ (pc[t] = "entered" /\ ~req[t].named)
                   /\ req[t].sid = s}

(* Questions stored and questions still to come stay within the bound.      *)
CapInv ==
    /\ IsFiniteSet(messages)
    /\ \A s \in Sessions : Cardinality(UserMessages(s)) + Cardinality(Admitted(s))
                            <= MaxTurns + Cardinality(Procs) - 1

LEMMA ProcsNat == Cardinality(Procs) \in Nat /\ Cardinality(Procs) >= 1
BY ConstantsAssumption, FS_CardinalityType, FS_EmptySet

(* A process holds the guard of a session for one turn, so there are at     *)
(* most as many admitted turns as processes.                                 *)
LEMMA AdmittedBound ==
    ASSUME TypeOK, GuardExact, NEW s \in Sessions
    PROVE  /\ IsFiniteSet(Admitted(s)) /\ Cardinality(Admitted(s)) \in Nat
           /\ Cardinality(Admitted(s)) <= Cardinality(Procs)
<1> DEFINE f == [t \in Admitted(s) |-> req[t].proc]
<1>1. \A t \in Admitted(s) : /\ t \in Turns /\ req[t].proc \in Procs
                             /\ HoldsGuard(t, req[t].proc, s)
  BY SentRequest DEF Admitted, HoldsGuard, Held
<1>2. f \in [Admitted(s) -> Procs] BY <1>1
<1>3. ASSUME NEW t \in Admitted(s), NEW u \in Admitted(s), f[t] = f[u] PROVE t = u
  BY <1>1, <1>3 DEF GuardExact
<1>4. f \in Injection(Admitted(s), Procs) BY <1>2, <1>3 DEF Injection, IsInjective
<1> HIDE DEF f
<1>5. IsFiniteSet(Admitted(s)) /\ Cardinality(Admitted(s)) <= Cardinality(Procs)
  BY <1>4, FS_Injection, ConstantsAssumption
<1> QED BY <1>5, FS_CardinalityType

AdmittedFew ==
    \A s \in Sessions : /\ Cardinality(Admitted(s)) \in Nat
                        /\ Cardinality(Admitted(s)) <= Cardinality(Procs)

LEMMA AdmittedFewAlways == TypeOK /\ GuardExact => AdmittedFew
BY AdmittedBound DEF AdmittedFew

LEMMA UsersFinite ==
    ASSUME IsFiniteSet(messages), NEW s
    PROVE  IsFiniteSet(UserMessages(s)) /\ Cardinality(UserMessages(s)) \in Nat
<1>1. UserMessages(s) \in SUBSET messages BY DEF UserMessages, Of
<1> QED BY <1>1, FS_Subset, FS_CardinalityType

(* Without a row there are no questions: a foreign key, here a consequence  *)
(* of ownership.                                                             *)
LEMMA NoRowNoUsers ==
    ASSUME TypeOK, IsolationInv, NEW s \in Sessions, owner[s] = NoCompany
    PROVE  UserMessages(s) = {} /\ Cardinality(UserMessages(s)) = 0
<1>1. ASSUME NEW m \in UserMessages(s) PROVE FALSE
  <2>1. m \in messages /\ m.session = s BY DEF UserMessages, Of
  <2>2. m.turn \in Turns BY <2>1 DEF TypeOK, Message
  <2> QED BY <2>1, <2>2, SentRequest, ConstantsAssumption DEF IsolationInv, MessagesOwned
<1> QED BY <1>1, FS_EmptySet

(* For one session: nothing new, or at most MaxTurns - 1 questions.         *)
LEMMA CapKeptAt ==
    ASSUME TypeOK, GuardExact, CapInv, IsFiniteSet(messages'), NEW s \in Sessions,
           UserMessages(s)' \subseteq UserMessages(s), Admitted(s)' \subseteq Admitted(s)
    PROVE  Cardinality(UserMessages(s)') + Cardinality(Admitted(s)')
             <= MaxTurns + Cardinality(Procs) - 1
<1>1. IsFiniteSet(UserMessages(s)) /\ Cardinality(UserMessages(s)) \in Nat
  BY UsersFinite DEF CapInv
<1>2. IsFiniteSet(Admitted(s)) /\ Cardinality(Admitted(s)) \in Nat BY AdmittedBound
<1>3. /\ Cardinality(UserMessages(s)') <= Cardinality(UserMessages(s))
      /\ IsFiniteSet(UserMessages(s)')
  BY <1>1, FS_Subset
<1>4. /\ Cardinality(Admitted(s)') <= Cardinality(Admitted(s))
      /\ IsFiniteSet(Admitted(s)')
  BY <1>2, FS_Subset
<1>5. Cardinality(UserMessages(s)') \in Nat /\ Cardinality(Admitted(s)') \in Nat
  BY <1>3, <1>4, FS_CardinalityType
<1>6. Cardinality(UserMessages(s)) + Cardinality(Admitted(s))
             <= MaxTurns + Cardinality(Procs) - 1
  BY DEF CapInv
<1> QED BY <1>1, <1>2, <1>3, <1>4, <1>5, <1>6, ProcsNat, ConstantsAssumption

LEMMA CapKept ==
    ASSUME TypeOK, GuardExact, CapInv, IsFiniteSet(messages'),
           \A s \in Sessions : /\ UserMessages(s)' \subseteq UserMessages(s)
                               /\ Admitted(s)' \subseteq Admitted(s)
    PROVE  CapInv'
<1> SUFFICES ASSUME NEW s \in Sessions
             PROVE  Cardinality(UserMessages(s)') + Cardinality(Admitted(s)')
                       <= MaxTurns + Cardinality(Procs) - 1
  BY DEF CapInv
<1> QED BY CapKeptAt

(* A turn is admitted while there are few questions: all admitted turns fit. *)
LEMMA CapAdmits ==
    ASSUME TypeOK', GuardExact', IsFiniteSet(messages'), NEW s \in Sessions,
           Cardinality(UserMessages(s)') <= MaxTurns - 1
    PROVE  Cardinality(UserMessages(s)') + Cardinality(Admitted(s)')
             <= MaxTurns + Cardinality(Procs) - 1
<1>1. Cardinality(UserMessages(s)') \in Nat
  <2>1. UserMessages(s)' \in SUBSET messages' BY DEF UserMessages, Of
  <2> QED BY <2>1, FS_Subset, FS_CardinalityType
<1>2. Cardinality(Admitted(s)') \in Nat /\ Cardinality(Admitted(s)') <= Cardinality(Procs)
  <2>1. AdmittedFew' BY AdmittedFewAlways, PTL
  <2> QED BY <2>1 DEF AdmittedFew
<1> QED BY <1>1, <1>2, ProcsNat, ConstantsAssumption

(* Turns that only end, or that move on without being newly admitted.       *)
LEMMA AdmittedShrinks ==
    ASSUME NEW s \in Sessions, NEW T \in SUBSET Turns, UNCHANGED req,
           \A t \in Turns \ T : pc'[t] = pc[t],
           \A t \in T : /\ pc'[t] \notin {"entered", "counted"}
                        /\ pc'[t] = "opened" => pc[t] = "counted"
    PROVE  Admitted(s)' \subseteq Admitted(s)
BY DEF Admitted

LEMMA SameUsers ==
    ASSUME UNCHANGED messages PROVE \A s \in Sessions : UserMessages(s)' \subseteq UserMessages(s)
BY DEF UserMessages, Of

(* The end of one turn.                                                     *)
LEMMA FinishCap ==
    ASSUME TypeOK, GuardExact, CapInv, NEW t \in Turns, NEW o \in Outcome, Finish(t, o),
           UNCHANGED req, IsFiniteSet(messages'),
           \A s \in Sessions : UserMessages(s)' \subseteq UserMessages(s)
    PROVE  CapInv'
<1>1. o \notin {"entered", "counted", "opened"} BY DEF Outcome
<1>2. pc'[t] = o /\ \A u \in Turns \ {t} : pc'[u] = pc[u] BY DEF Finish, TypeOK
<1>3. \A s \in Sessions : Admitted(s)' \subseteq Admitted(s)
  BY <1>1, <1>2 DEF Admitted
<1> QED BY <1>3, CapKept

(* The insert of a question by an admitted turn keeps the sum.              *)
LEMMA InsertCap ==
    ASSUME TypeOK, GuardExact, CapInv, NEW t \in Turns, NEW s \in Sessions,
           pc[t] = "opened", req[t].sid = s, UNCHANGED req,
           Insert(s, "user", t), pc' = [pc EXCEPT ![t] = "asked"]
    PROVE  CapInv'
<1> DEFINE m == [session |-> s, id |-> serial[s], role |-> "user", turn |-> t]
<1>1. messages' = messages \cup {m} BY DEF Insert
<1>2. IsFiniteSet(messages') BY <1>1, FS_AddElement DEF CapInv
<1>3. pc'[t] = "asked" /\ \A u \in Turns \ {t} : pc'[u] = pc[u] BY DEF TypeOK
<1>4. ASSUME NEW z \in Sessions
      PROVE  Cardinality(UserMessages(z)') + Cardinality(Admitted(z)')
               <= MaxTurns + Cardinality(Procs) - 1
  <2>1. CASE z # s
    <3>1. UserMessages(z)' \subseteq UserMessages(z) BY <1>1, <2>1 DEF UserMessages, Of
    <3>2. Admitted(z)' \subseteq Admitted(z) BY <1>3 DEF Admitted
    <3> QED BY <1>2, <3>1, <3>2, CapKeptAt, SMTT(30)
  <2>2. CASE z = s
    <3>1. UserMessages(s)' = UserMessages(s) \cup {m} BY <1>1 DEF UserMessages, Of
    <3>2. t \in Admitted(s) BY DEF Admitted
    <3>3. Admitted(s)' = Admitted(s) \ {t} BY <1>3 DEF Admitted
    <3>4. IsFiniteSet(UserMessages(s)) /\ Cardinality(UserMessages(s)) \in Nat
      BY UsersFinite DEF CapInv
    <3>5. IsFiniteSet(Admitted(s)) /\ Cardinality(Admitted(s)) \in Nat BY AdmittedBound
    <3>6. Cardinality(UserMessages(s)') \in {Cardinality(UserMessages(s)),
                                             Cardinality(UserMessages(s)) + 1}
      <4> HIDE DEF m
      <4>1. Cardinality(UserMessages(s) \cup {m}) =
              IF m \in UserMessages(s) THEN Cardinality(UserMessages(s))
                                       ELSE Cardinality(UserMessages(s)) + 1
        BY <3>4, FS_AddElement
      <4> QED BY <3>1, <4>1
    <3>7. Cardinality(Admitted(s)') = Cardinality(Admitted(s)) - 1
      BY <3>2, <3>3, <3>5, FS_RemoveElement, ZenonT(30)
    <3>8. Cardinality(UserMessages(s)) + Cardinality(Admitted(s))
                <= MaxTurns + Cardinality(Procs) - 1
      BY DEF CapInv
    <3> QED BY <2>2, <3>4, <3>5, <3>6, <3>7, <3>8, ProcsNat, ConstantsAssumption
  <2> QED BY <2>1, <2>2
<1> QED BY <1>2, <1>4 DEF CapInv

LEMMA CapInit == Init => CapInv
<1> SUFFICES ASSUME Init PROVE CapInv
  OBVIOUS
<1>1. IsFiniteSet(messages) BY FS_EmptySet DEF Init
<1>2. \A s \in Sessions : UserMessages(s) = {} /\ Admitted(s) = {}
  BY DEF Init, UserMessages, Of, Admitted
<1>3. 0 + 0 <= MaxTurns + Cardinality(Procs) - 1 BY ProcsNat, ConstantsAssumption
<1>4. \A s \in Sessions : /\ Cardinality(UserMessages(s)) = 0
                          /\ Cardinality(Admitted(s)) = 0
  BY <1>2, FS_EmptySet
<1> QED BY <1>1, <1>3, <1>4 DEF CapInv

LEMMA CapStep ==
    TypeOK /\ TypeOK' /\ GuardExact /\ GuardExact' /\ IsolationInv /\ CapInv /\ [Next]_vars => CapInv'
<1> SUFFICES ASSUME TypeOK, TypeOK', GuardExact, GuardExact', IsolationInv, CapInv,
                    [Next]_vars
             PROVE  CapInv'
  OBVIOUS
<1> USE DEF rowVars
<1>0. IsFiniteSet(messages) BY DEF CapInv
<1>1. ASSUME NEW t \in Turns, NEW r \in Request, EnterTurn(t, r) PROVE CapInv'
  <2>1. /\ pc[t] = "idle" /\ pc'[t] = "entered" /\ req'[t] = r /\ UNCHANGED <<owner, messages>>
        /\ \A u \in Turns \ {t} : pc'[u] = pc[u] /\ req'[u] = req[u]
    BY <1>1 DEF EnterTurn, Send, TypeOK
  <2>2. \A s \in Sessions : UserMessages(s)' = UserMessages(s) BY <2>1 DEF UserMessages, Of
  <2>3. ASSUME NEW s \in Sessions
        PROVE  Cardinality(UserMessages(s)') + Cardinality(Admitted(s)')
                 <= MaxTurns + Cardinality(Procs) - 1
    <3>1. CASE r.named \/ r.sid # s
      <4>1. Admitted(s)' \subseteq Admitted(s) BY <2>1, <3>1 DEF Admitted
      <4> QED BY <1>0, <2>1, <2>2, <4>1, CapKeptAt
    <3>2. CASE ~r.named /\ r.sid = s
      <4>1. owner[s] = NoCompany BY <1>1, <3>2 DEF EnterTurn, Send, Unused
      <4>2. Cardinality(UserMessages(s)') = 0 BY <2>2, <4>1, NoRowNoUsers
      <4> QED BY <1>0, <2>1, <4>2, CapAdmits, ConstantsAssumption
    <3> QED BY <3>1, <3>2
  <2> QED BY <1>0, <2>1, <2>3 DEF CapInv
<1>2. ASSUME NEW t \in Turns, NEW r \in Request, RejectBusy(t, r) PROVE CapInv'
  <2>1. /\ pc[t] = "idle" /\ pc'[t] = "busy" /\ UNCHANGED messages
        /\ \A u \in Turns \ {t} : pc'[u] = pc[u] /\ req'[u] = req[u]
    BY <1>2 DEF RejectBusy, Send, TypeOK
  <2>2. \A s \in Sessions : Admitted(s)' \subseteq Admitted(s) BY <2>1 DEF Admitted
  <2> QED BY <1>0, <2>1, <2>2, SameUsers, CapKept
<1>3. ASSUME NEW t \in Turns, CountTurns(t) PROVE CapInv'
  <2>1. UNCHANGED <<req, owner, messages>> /\ pc[t] = "entered"
        /\ {"forbidden", "capped"} \subseteq Outcome
    BY <1>3 DEF CountTurns, Outcome
  <2>2. CASE Finish(t, "forbidden") \/ Finish(t, "capped")
    BY <1>0, <2>1, <2>2, FinishCap, SameUsers
  <2>3. CASE ~Finish(t, "forbidden") /\ ~Finish(t, "capped")
    <3> DEFINE s == req[t].sid
    <3>1. s \in Sessions BY <2>1, SentRequest
    <3>2. pc' = [pc EXCEPT ![t] = "counted"] BY <1>3, <2>3 DEF CountTurns
    <3>3. pc'[t] = "counted" /\ \A u \in Turns \ {t} : pc'[u] = pc[u] BY <3>2 DEF TypeOK
    <3>4. req[t].named /\ owner[s] # NoCompany => Cardinality(UserMessages(s)) < MaxTurns
      <4>1. Cardinality(UserMessages(s)) \in Nat BY <1>0, UsersFinite
      <4> QED BY <1>3, <2>3, <4>1, ConstantsAssumption DEF CountTurns, Capped
    <3>5. ASSUME NEW z \in Sessions
          PROVE  Cardinality(UserMessages(z)') + Cardinality(Admitted(z)')
                   <= MaxTurns + Cardinality(Procs) - 1
      <4>0. UserMessages(z)' = UserMessages(z) BY <2>1 DEF UserMessages, Of
      <4>1. CASE z # s \/ ~req[t].named
        <5>1. Admitted(z)' \subseteq Admitted(z) BY <2>1, <3>3, <4>1 DEF Admitted
        <5> QED BY <1>0, <2>1, <4>0, <5>1, CapKeptAt
      <4>2. CASE z = s /\ req[t].named
        <5>1. Cardinality(UserMessages(s)) \in Nat BY <1>0, UsersFinite
        <5>2. Cardinality(UserMessages(s)) <= MaxTurns - 1
          BY <3>1, <3>4, <4>2, <5>1, NoRowNoUsers, ConstantsAssumption
        <5> QED BY <1>0, <2>1, <4>0, <4>2, <5>2, CapAdmits
      <4> QED BY <4>1, <4>2
    <3> QED BY <1>0, <2>1, <3>5 DEF CapInv
  <2> QED BY <2>2, <2>3
<1>4. ASSUME NEW t \in Turns, OpenTurnRead(t) PROVE CapInv'
  <2>1. UNCHANGED <<req, messages>> /\ pc[t] = "counted" /\ "forbidden" \in Outcome
    BY <1>4 DEF OpenTurnRead, Outcome
  <2>2. CASE Finish(t, "forbidden") BY <1>0, <2>1, <2>2, FinishCap, SameUsers
  <2>3. CASE pc' = [pc EXCEPT ![t] = "opened"]
    <3>1. pc'[t] = "opened" /\ \A u \in Turns \ {t} : pc'[u] = pc[u] BY <2>3 DEF TypeOK
    <3>2. \A s \in Sessions : Admitted(s)' \subseteq Admitted(s)
      BY <2>1, <3>1, AdmittedShrinks
    <3> QED BY <1>0, <2>1, <3>2, SameUsers, CapKept
  <2> QED BY <1>4, <2>2, <2>3 DEF OpenTurnRead
<1>5. ASSUME NEW t \in Turns, OpenTurnCommit(t) PROVE CapInv'
  <2>1. UNCHANGED req /\ pc[t] = "opened" /\ "failed" \in Outcome
    BY <1>5 DEF OpenTurnCommit, Outcome
  <2>2. CASE Finish(t, "failed") /\ UNCHANGED rowVars BY <1>0, <2>1, <2>2, FinishCap, SameUsers
  <2>3. CASE Insert(req[t].sid, "user", t) /\ pc' = [pc EXCEPT ![t] = "asked"]
    BY <2>1, <2>3, SentRequest, InsertCap
  <2> QED BY <1>5, <2>2, <2>3 DEF OpenTurnCommit
<1>6. ASSUME NEW t \in Turns, CloseTurn(t) PROVE CapInv'
  <2>1. UNCHANGED req /\ Finish(t, "ok") /\ "ok" \in Outcome BY <1>6 DEF CloseTurn, Outcome
  <2>2. messages' = messages \cup {[session |-> req[t].sid, id |-> serial[req[t].sid],
                                    role |-> "assistant", turn |-> t]}
    BY <1>6 DEF CloseTurn, Insert
  <2>3. \A s \in Sessions : UserMessages(s)' \subseteq UserMessages(s)
    BY <2>2 DEF UserMessages, Of
  <2>4. IsFiniteSet(messages') BY <1>0, <2>2, FS_AddElement
  <2> QED BY <2>1, <2>3, <2>4, FinishCap
<1>7. ASSUME NEW t \in Turns, TurnFails(t) PROVE CapInv'
  BY <1>0, <1>7, FinishCap, SameUsers DEF TurnFails, Outcome
<1>8. ASSUME NEW p \in Procs, Crash(p) PROVE CapInv'
  <2>1. /\ UNCHANGED <<req, messages>>
        /\ \A u \in Turns : pc'[u] \in {pc[u], "failed"}
    BY <1>8 DEF Crash
  <2>2. \A s \in Sessions : Admitted(s)' \subseteq Admitted(s) BY <2>1 DEF Admitted
  <2> QED BY <1>0, <2>1, <2>2, SameUsers, CapKept
<1>9. ASSUME UNCHANGED <<pc, req>>, messages' \subseteq messages PROVE CapInv'
  <2>1. \A s \in Sessions : Admitted(s)' \subseteq Admitted(s) BY <1>9 DEF Admitted
  <2>2. \A s \in Sessions : UserMessages(s)' \subseteq UserMessages(s)
    BY <1>9 DEF UserMessages, Of
  <2>3. IsFiniteSet(messages') BY <1>0, <1>9, FS_Subset
  <2> QED BY <2>1, <2>2, <2>3, CapKept
<1>10. ASSUME NEW u \in Undoers, UndoCommit(u) PROVE CapInv'
  BY <1>9, <1>10 DEF UndoCommit, turnVars
<1>11. ASSUME UNCHANGED <<turnVars, messages>> PROVE CapInv'
  BY <1>9, <1>11 DEF turnVars
<1> QED
  BY <1>1, <1>2, <1>3, <1>4, <1>5, <1>6, <1>7, <1>8, <1>10, <1>11
     DEF Next, TurnStep, DeleteSession, UndoRead, vars, turnVars

LEMMA CapImplied == TypeOK /\ GuardExact /\ CapInv => CapHolds
<1> SUFFICES ASSUME TypeOK, GuardExact, CapInv, NEW s \in Sessions
             PROVE  Cardinality(UserMessages(s)) <= MaxTurns + Cardinality(Procs) - 1
  BY DEF CapHolds
<1>1. Cardinality(UserMessages(s)) \in Nat BY UsersFinite DEF CapInv
<1>2. Cardinality(Admitted(s)) \in Nat BY AdmittedBound
<1>3. Cardinality(UserMessages(s)) + Cardinality(Admitted(s))
        <= MaxTurns + Cardinality(Procs) - 1
  BY DEF CapInv
<1> QED BY <1>1, <1>2, <1>3, ProcsNat, ConstantsAssumption

(* session_max_turns holds up to one question per further process, although *)
(* count and insert are two transactions with an agent call's worth of       *)
(* interleaving around them.                                                 *)
THEOREM CapCorrect == Spec => []CapHolds
<1>1. TypeOK /\ GuardExact /\ IsolationInv /\ CapInv /\ [Next]_vars
        => (TypeOK /\ GuardExact /\ IsolationInv /\ CapInv)'
  BY TypeStep, GuardStep, IsolationStep, CapStep
<1> QED BY <1>1, TypeInit, GuardInit, IsolationInit, CapInit, CapImplied, PTL DEF Spec

-----------------------------------------------------------------------------
(* Deletion.                                                                *)

(* A deleted session has a row, which open_turn finds and refuses.          *)
DeletedRow == \A s \in Sessions : deleted[s] => owner[s] # NoCompany

LEMMA DeletedRowInit == Init => DeletedRow
BY DEF Init, DeletedRow

LEMMA DeletedRowStep == TypeOK /\ DeletedRow /\ [Next]_vars => DeletedRow'
<1> SUFFICES ASSUME TypeOK, DeletedRow, [Next]_vars PROVE DeletedRow'
  OBVIOUS
<1>1. ASSUME NEW t \in Turns, OpenTurnCommit(t) PROVE DeletedRow'
  <2>1. req[t].sid \in Sessions /\ req[t].company \in Companies
    BY <1>1, SentRequest DEF OpenTurnCommit
  <2>2. \A s \in Sessions : owner'[s] \in {owner[s], req[t].company}
    BY <1>1, <2>1 DEF OpenTurnCommit, rowVars, TypeOK
  <2>3. UNCHANGED deleted BY <1>1 DEF OpenTurnCommit, rowVars
  <2> QED BY <2>1, <2>2, <2>3, ConstantsAssumption DEF DeletedRow
<1>2. ASSUME NEW s \in Sessions, NEW c \in Companies, DeleteSession(s, c) PROVE DeletedRow'
  <2>1. owner[s] # NoCompany /\ UNCHANGED owner BY <1>2 DEF DeleteSession
  <2>2. \A z \in Sessions : z # s => deleted'[z] = deleted[z] BY <1>2 DEF DeleteSession, TypeOK
  <2> QED BY <2>1, <2>2 DEF DeletedRow
<1>3. ASSUME UNCHANGED <<owner, deleted>> PROVE DeletedRow'
  BY <1>3 DEF DeletedRow
<1> QED
  BY <1>1, <1>2, <1>3
     DEF Next, TurnStep, EnterTurn, RejectBusy, CountTurns, OpenTurnRead, CloseTurn, TurnFails,
         Crash, UndoRead, UndoCommit, rowVars, vars

(* One step of the system in a deleted session.                             *)
LEMMA DeletedQuietStep ==
    ASSUME TypeOK, DeletedRow, [Next]_vars, NEW s \in Sessions, deleted[s]
    PROVE  /\ Working(s)' \subseteq Working(s)
           /\ Working(s) = {} => Of(s)' \subseteq Of(s)
<1> DEFINE Quiet == /\ Working(s)' \subseteq Working(s)
                    /\ Working(s) = {} => Of(s)' \subseteq Of(s)
<1> SUFFICES Quiet
  OBVIOUS
<1>0. ASSUME messages' \subseteq messages,
             \A t \in Turns : pc'[t] \in {"opened", "asked"} => pc'[t] = pc[t] /\ req'[t] = req[t]
      PROVE  Quiet
  BY <1>0 DEF Working, Of
<1>1. ASSUME NEW t \in Turns, NEW r \in Request, EnterTurn(t, r) \/ RejectBusy(t, r) PROVE Quiet
  <2>1. /\ pc'[t] \in {"entered", "busy"} /\ UNCHANGED messages
        /\ \A u \in Turns : u # t => pc'[u] = pc[u] /\ req'[u] = req[u]
    BY <1>1 DEF EnterTurn, RejectBusy, Send, rowVars, TypeOK
  <2> QED BY <1>0, <2>1
<1>2. ASSUME NEW t \in Turns, CountTurns(t) \/ TurnFails(t) PROVE Quiet
  <2>1. /\ pc'[t] \notin {"opened", "asked"} /\ UNCHANGED <<req, messages>>
        /\ \A u \in Turns : u # t => pc'[u] = pc[u]
    BY <1>2 DEF CountTurns, TurnFails, Finish, rowVars, TypeOK
  <2> QED BY <1>0, <2>1
<1>3. ASSUME NEW t \in Turns, OpenTurnRead(t) PROVE Quiet
  <2>1. UNCHANGED <<req, messages>> /\ \A u \in Turns : u # t => pc'[u] = pc[u]
    BY <1>3 DEF OpenTurnRead, Finish, rowVars, TypeOK
  <2>2. req[t].sid = s => pc'[t] = "forbidden"
    BY <1>3 DEF OpenTurnRead, Finish, Forbidden, DeletedRow, TypeOK
  <2>3. Working(s)' \subseteq Working(s) BY <2>1, <2>2 DEF Working
  <2> QED BY <2>1, <2>3 DEF Of
<1>4. ASSUME NEW t \in Turns, OpenTurnCommit(t) \/ CloseTurn(t) PROVE Quiet
  <2>1. /\ pc[t] \in {"opened", "asked"} /\ UNCHANGED req
        /\ \A u \in Turns : u # t => pc'[u] = pc[u]
    BY <1>4 DEF OpenTurnCommit, CloseTurn, Finish, TypeOK
  <2>2. Working(s)' \subseteq Working(s) BY <2>1 DEF Working
  <2>3. \A m \in messages' \ messages : m.session = req[t].sid
    BY <1>4 DEF OpenTurnCommit, CloseTurn, Insert, rowVars
  <2> QED BY <2>1, <2>2, <2>3 DEF Of, Working
<1>5. ASSUME NEW p \in Procs, Crash(p) PROVE Quiet
  <2>1. \A t \in Turns : pc'[t] \in {pc[t], "failed"} BY <1>5 DEF Crash
  <2> QED BY <1>0, <1>5, <2>1 DEF Crash, rowVars
<1>6. ASSUME UNCHANGED turnVars, messages' \subseteq messages PROVE Quiet
  BY <1>0, <1>6 DEF turnVars
<1> QED
  BY <1>1, <1>2, <1>3, <1>4, <1>5, <1>6
     DEF Next, TurnStep, DeleteSession, UndoRead, UndoCommit, turnVars, rowVars, vars

(* Deleting a conversation stops it: turns that were not past open_turn do  *)
(* not get past it, and without such turns no message is added any more.     *)
THEOREM DeletionCorrect == Spec => DeletedStaysQuiet
<1> DEFINE Quiet == \A s \in Sessions : deleted[s] =>
                       /\ Working(s)' \subseteq Working(s)
                       /\ Working(s) = {} => Of(s)' \subseteq Of(s)
<1>1. TypeOK /\ DeletedRow /\ [Next]_vars => [Quiet]_vars
  <2>1. ASSUME TypeOK, DeletedRow, [Next]_vars PROVE Quiet BY <2>1, DeletedQuietStep
  <2> HIDE DEF Quiet
  <2> QED BY <2>1
<1>2. Spec => [](TypeOK /\ DeletedRow)
  BY TypeInit, TypeStep, DeletedRowInit, DeletedRowStep, PTL DEF Spec
<1> QED BY <1>1, <1>2, PTL DEF Spec, DeletedStaysQuiet

-----------------------------------------------------------------------------
(* One process and a client that waits: what the bot remembers.             *)

(* With one process, a session at work is worked on by one turn, and with a *)
(* client that waits nothing is undone meanwhile.                            *)
OneAtATime == ClientWaits /\ \E p \in Procs : Procs = {p}

(* Messages are numbered, and each is of a turn that got past open_turn;    *)
(* an answer is of a turn that ended well.                                   *)
MessagesInv ==
    /\ \A m \in messages :
          /\ m.id < serial[m.session]
          /\ req[m.turn].sid = m.session
          /\ pc[m.turn] \in {"asked", "failed", "ok"}
          /\ m.role = "assistant" => pc[m.turn] = "ok"

(* A turn that waits for the agent finds its question last in its session   *)
(* and the context it was given still there.                                 *)
TurnInv(t) ==
    LET s == req[t].sid
    IN  /\ pc[t] = "asked" =>
             \E q \in UserMessages(s) : q.turn = t /\ \A m \in Of(s) : m.id <= q.id
        /\ pc[t] \in {"opened", "asked"} => fed[t] = context[s]

(* What an undo has read is still so when it commits.                        *)
UndoInv(u) ==
    LET s == undo[u].session
    IN  undo[u] # None =>
          /\ ~BusySession(s)
          /\ undo[u].victims = LastTurn(s)
          /\ undo[u].hadContext <=> context[s] # None
          /\ \A v \in Undoers : undo[v] # None /\ undo[v].session = s => v = u

TalkInv ==
    /\ MessagesInv
    /\ \A t \in Turns : TurnInv(t)
    /\ \A u \in Undoers : UndoInv(u)
    /\ NoGhostContext
    /\ Transcript

LEMMA TalkInit == Init => TalkInv
<1> SUFFICES ASSUME Init PROVE TalkInv OBVIOUS
<1>1. MessagesInv BY DEF Init, MessagesInv
<1>2. \A t \in Turns : TurnInv(t) BY DEF Init, TurnInv
<1>3. \A u \in Undoers : UndoInv(u) BY DEF Init, UndoInv
<1>4. NoGhostContext BY DEF Init, NoGhostContext
<1>5. Transcript BY DEF Init, Transcript, Of
<1> QED BY <1>1, <1>2, <1>3, <1>4, <1>5 DEF TalkInv

LEMMA OneHolder ==
    ASSUME OneAtATime, TypeOK, GuardExact, NEW t \in Turns, NEW u \in Turns,
           pc[t] \in Held, pc[u] \in Held, req[t].sid = req[u].sid
    PROVE  t = u
<1>1. /\ req[t].proc \in Procs /\ req[u].proc \in Procs
      /\ req[t].sid \in Sessions
  BY SentRequest DEF Held
<1>2. req[t].proc = req[u].proc BY <1>1 DEF OneAtATime
<1> QED BY <1>1, <1>2 DEF GuardExact, HoldsGuard

LEMMA BusyHeld ==
    ASSUME TypeOK, NEW t \in Turns, pc[t] \in Held
    PROVE  BusySession(req[t].sid) /\ req[t].sid \in Sessions
<1>1. req[t].proc \in Procs /\ req[t].sid \in Sessions BY SentRequest DEF Held
<1> QED BY <1>1 DEF BusySession, HoldsGuard

(* Steps that write no row: a turn is sent, is read for, or ends early.     *)
LEMMA TalkKept ==
    ASSUME TypeOK, TalkInv, UNCHANGED <<context, messages, serial, undo>>,
           \A t \in Turns : pc'[t] \in {"opened", "asked"} => fed'[t] = context[req'[t].sid],
           \A t \in Turns : pc[t] \in {"asked", "failed", "ok"} =>
              /\ req'[t] = req[t] /\ pc'[t] \in {"asked", "failed", "ok"}
              /\ pc[t] = "ok" => pc'[t] = "ok",
           \A t \in Turns : pc'[t] = "asked" => pc[t] = "asked",
           \A t \in Turns : pc'[t] \in Held =>
              \/ pc[t] \in Held /\ req'[t] = req[t]
              \/ ~UndoPending(req'[t].sid)
    PROVE  TalkInv'
<1>1. \A m \in messages : m.turn \in Turns BY DEF TypeOK, Message
<1>2. MessagesInv' BY <1>1 DEF TalkInv, MessagesInv
<1>3. ASSUME NEW t \in Turns PROVE TurnInv(t)'
  BY DEF TalkInv, TurnInv, UserMessages, Of
<1>4. ASSUME NEW u \in Undoers PROVE UndoInv(u)'
  <2>1. SUFFICES ASSUME undo[u] # None, BusySession(undo[u].session)' PROVE FALSE
    <3>1. \A s \in Sessions : LastTurn(s)' = LastTurn(s) BY DEF LastTurn, UserMessages, Of
    <3>2. undo[u] # None => undo[u].session \in Sessions BY DEF TypeOK, Undo
    <3>3. undo[u] # None =>
            /\ undo[u].victims = LastTurn(undo[u].session)
            /\ undo[u].hadContext <=> context[undo[u].session] # None
            /\ \A v \in Undoers : undo[v] # None /\ undo[v].session = undo[u].session => v = u
      BY DEF TalkInv, UndoInv
    <3> QED BY <2>1, <3>1, <3>2, <3>3 DEF UndoInv
  <2>2. PICK t \in Turns : pc'[t] \in Held /\ req'[t].sid = undo[u].session
    BY <2>1 DEF BusySession, HoldsGuard
  <2>3. UndoPending(req'[t].sid) BY <2>1, <2>2 DEF UndoPending
  <2>4. pc[t] \in Held /\ req[t].sid = undo[u].session BY <2>2, <2>3
  <2>5. BusySession(undo[u].session) BY <2>4, BusyHeld
  <2> QED BY <2>1, <2>5 DEF TalkInv, UndoInv
<1>5. NoGhostContext' BY DEF TalkInv, NoGhostContext, UserMessages, Of
<1>6. Transcript' BY DEF TalkInv, Transcript, UserMessages, Of
<1> QED BY <1>2, <1>3, <1>4, <1>5, <1>6 DEF TalkInv

LEMMA SameLastTurn ==
    ASSUME NEW s, Of(s)' = Of(s) PROVE LastTurn(s)' = LastTurn(s)
<1>1. UserMessages(s)' = UserMessages(s) BY DEF UserMessages
<1> QED BY <1>1 DEF LastTurn

(* The question is inserted and the context handed over.                    *)
LEMMA QuestionKeepsTalk ==
    ASSUME OneAtATime, TypeOK, TypeOK', GuardExact, TalkInv, NEW t \in Turns, pc[t] = "opened",
           pc' = [pc EXCEPT ![t] = "asked"], Insert(req[t].sid, "user", t),
           UNCHANGED <<req, fed, context, undo>>
    PROVE  TalkInv'
<1> DEFINE s == req[t].sid
           new == [session |-> s, id |-> serial[s], role |-> "user", turn |-> t]
<1>1. s \in Sessions /\ BusySession(s) /\ pc[t] \in Held BY BusyHeld DEF Held
<1>2. \A u \in Turns : pc[u] \in Held /\ u # t => req[u].sid # s
  BY <1>1, OneHolder
<1>3. messages' = messages \cup {new} /\ serial' = [serial EXCEPT ![s] = @ + 1]
  BY DEF Insert
<1>4. /\ \A z \in Sessions : serial[z] \in Nat
      /\ \A m \in messages : m.session \in Sessions /\ m.turn \in Turns /\ m.id \in Nat
  BY DEF TypeOK, Message
<1>5. new.session = s /\ new.id = serial[s] /\ new.role = "user" /\ new.turn = t
  OBVIOUS
<1> HIDE DEF new
<1>6. \A u \in Turns : pc'[u] = IF u = t THEN "asked" ELSE pc[u] BY DEF TypeOK
<1>7. \A z \in Sessions : serial'[z] = IF z = s THEN serial[s] + 1 ELSE serial[z]
  BY <1>1, <1>3 DEF TypeOK
<1>8. \A m \in Of(s) : m.id < new.id /\ m.id <= new.id
  BY <1>1, <1>4, <1>5 DEF TalkInv, MessagesInv, Of
<1>9. MessagesInv'
  <2>1. ASSUME NEW m \in messages
        PROVE  /\ m.id < serial'[m.session] /\ req[m.turn].sid = m.session
               /\ pc'[m.turn] \in {"asked", "failed", "ok"}
               /\ m.role = "assistant" => pc'[m.turn] = "ok"
    BY <1>4, <1>6, <1>7 DEF TalkInv, MessagesInv
  <2>2. /\ new.id < serial'[new.session] /\ req[new.turn].sid = new.session
        /\ pc'[new.turn] = "asked" /\ new.role # "assistant"
    BY <1>1, <1>4, <1>5, <1>6, <1>7
  <2> QED BY <1>3, <2>1, <2>2 DEF MessagesInv
<1>10. \A z \in Sessions : Of(z)' = IF z = s THEN Of(z) \cup {new} ELSE Of(z)
  BY <1>3, <1>5 DEF Of
<1>11. /\ \A z \in Sessions \ {s} : UserMessages(z)' = UserMessages(z)
       /\ UserMessages(s)' = UserMessages(s) \cup {new}
  BY <1>1, <1>5, <1>10 DEF UserMessages
<1>12. ASSUME NEW z \in Sessions \ {s} PROVE LastTurn(z)' = LastTurn(z)
  BY <1>10, <1>11, SameLastTurn
<1>13. ASSUME NEW u \in Turns PROVE TurnInv(u)'
  <2>1. CASE u = t
    <3>1. new \in UserMessages(s)' /\ \A m \in Of(s)' : m.id <= new.id
      <4>1. new.id <= new.id BY <1>1, <1>4, <1>5
      <4> QED BY <1>1, <1>8, <1>10, <1>11, <4>1
    <3>2. fed[t] = context[s] BY DEF TalkInv, TurnInv
    <3> QED BY <1>5, <2>1, <3>1, <3>2 DEF TurnInv
  <2>2. CASE u # t
    <3>1. pc[u] \in {"opened", "asked"} => req[u].sid \in Sessions \ {s}
      BY <1>2, <2>2, BusyHeld DEF Held
    <3> QED BY <1>6, <1>10, <1>11, <2>2, <3>1 DEF TalkInv, TurnInv
  <2> QED BY <2>1, <2>2
<1>14. ASSUME NEW u \in Undoers PROVE UndoInv(u)'
  <2>1. undo[u] # None => undo[u].session \in Sessions \ {s}
    BY <1>1 DEF TalkInv, UndoInv, TypeOK, Undo
  <2>2. \A z \in Sessions : BusySession(z)' => BusySession(z)
    <3>1. \A w \in Turns : pc'[w] \in Held => pc[w] \in Held BY <1>1, <1>6
    <3> QED BY <3>1 DEF BusySession, HoldsGuard
  <2> QED BY <1>12, <2>1, <2>2 DEF TalkInv, UndoInv
<1>15. NoGhostContext' BY <1>11 DEF TalkInv, NoGhostContext
<1>16. Transcript'
  <2>1. SUFFICES ASSUME NEW z \in Sessions, NEW a \in Of(z)', a.role = "assistant"
                 PROVE  /\ \E q \in UserMessages(z)' :
                              /\ q.turn = a.turn /\ q.id < a.id
                              /\ ~\E m \in Of(z)' : q.id < m.id /\ m.id < a.id
                        /\ context[z] # None =>
                              (context[z] = a.turn <=>
                                 ~\E b \in Of(z)' : b.role = "assistant" /\ b.id > a.id)
    BY DEF Transcript
  <2>2. a \in Of(z) BY <1>5, <1>10, <2>1
  <2>3. PICK q \in UserMessages(z) :
               /\ q.turn = a.turn /\ q.id < a.id
               /\ ~\E m \in Of(z) : q.id < m.id /\ m.id < a.id
    BY <2>1, <2>2 DEF TalkInv, Transcript
  <2>4. q \in UserMessages(z)' BY <1>11
  <2>5. ~\E m \in Of(z)' : q.id < m.id /\ m.id < a.id
    <3>1. z = s => ~(new.id < a.id)
      BY <1>1, <1>4, <1>5, <1>8, <2>2 DEF Of
    <3> QED BY <1>10, <2>3, <3>1
  <2>6. context[z] # None =>
          (context[z] = a.turn <=> ~\E b \in Of(z)' : b.role = "assistant" /\ b.id > a.id)
    <3>1. context[z] # None =>
            (context[z] = a.turn <=> ~\E b \in Of(z) : b.role = "assistant" /\ b.id > a.id)
      BY <2>1, <2>2 DEF TalkInv, Transcript
    <3> QED BY <1>5, <1>10, <3>1
  <2> QED BY <2>3, <2>4, <2>5, <2>6
<1> QED BY <1>9, <1>13, <1>14, <1>15, <1>16 DEF TalkInv

(* The answer is inserted and what the bot shall remember replaced.         *)
LEMMA AnswerKeepsTalk ==
    ASSUME OneAtATime, TypeOK, TypeOK', GuardExact, TalkInv, NEW t \in Turns, CloseTurn(t)
    PROVE  TalkInv'
<1> DEFINE s == req[t].sid
           new == [session |-> s, id |-> serial[s], role |-> "assistant", turn |-> t]
<1>0. pc[t] = "asked" BY DEF CloseTurn
<1>1. s \in Sessions /\ BusySession(s) /\ pc[t] \in Held BY <1>0, BusyHeld DEF Held
<1>2. \A u \in Turns : pc[u] \in Held /\ u # t => req[u].sid # s
  BY <1>1, OneHolder
<1>3. /\ messages' = messages \cup {new} /\ serial' = [serial EXCEPT ![s] = @ + 1]
      /\ UNCHANGED <<req, undo>>
  BY DEF CloseTurn, Insert
<1>4. /\ \A z \in Sessions : serial[z] \in Nat
      /\ \A m \in messages : m.session \in Sessions /\ m.turn \in Turns /\ m.id \in Nat
  BY DEF TypeOK, Message
<1>5. new.session = s /\ new.id = serial[s] /\ new.role = "assistant" /\ new.turn = t
  OBVIOUS
<1> HIDE DEF new
<1>6. /\ \A u \in Turns : pc'[u] = IF u = t THEN "ok" ELSE pc[u]
      /\ \A u \in Turns \ {t} : fed'[u] = fed[u]
  BY DEF CloseTurn, Finish, TypeOK
<1>7. /\ \A z \in Sessions : serial'[z] = IF z = s THEN serial[s] + 1 ELSE serial[z]
      /\ \A z \in Sessions \ {s} : context'[z] = context[z]
      /\ context'[s] \in {t, None}
  BY <1>1, <1>3 DEF CloseTurn, TypeOK
<1>8. \A m \in Of(s) : m.id < new.id /\ ~(new.id < m.id)
  BY <1>1, <1>4, <1>5 DEF TalkInv, MessagesInv, Of
<1>9. MessagesInv'
  <2>1. ASSUME NEW m \in messages
        PROVE  /\ m.id < serial'[m.session] /\ req[m.turn].sid = m.session
               /\ pc'[m.turn] \in {"asked", "failed", "ok"}
               /\ m.role = "assistant" => pc'[m.turn] = "ok"
    BY <1>4, <1>6, <1>7 DEF TalkInv, MessagesInv
  <2>2. /\ new.id < serial'[new.session] /\ req[new.turn].sid = new.session
        /\ pc'[new.turn] = "ok"
    BY <1>1, <1>4, <1>5, <1>6, <1>7
  <2> QED BY <1>3, <2>1, <2>2 DEF MessagesInv
<1>10. \A z \in Sessions : Of(z)' = IF z = s THEN Of(z) \cup {new} ELSE Of(z)
  BY <1>3, <1>5 DEF Of
<1>11. \A z \in Sessions : UserMessages(z)' = UserMessages(z)
  BY <1>5, <1>10 DEF UserMessages
<1>12. ASSUME NEW z \in Sessions \ {s} PROVE LastTurn(z)' = LastTurn(z)
  BY <1>10, SameLastTurn
<1>13. ASSUME NEW u \in Turns PROVE TurnInv(u)'
  <2>1. CASE u = t BY <1>6, <2>1 DEF TurnInv
  <2>2. CASE u # t
    <3>1. pc[u] \in {"opened", "asked"} => req[u].sid \in Sessions \ {s}
      BY <1>2, <2>2, BusyHeld DEF Held
    <3>2. pc'[u] = pc[u] /\ fed'[u] = fed[u] /\ req'[u] = req[u] BY <1>3, <1>6, <2>2
    <3> QED BY <1>7, <1>10, <1>11, <2>2, <3>1, <3>2 DEF TalkInv, TurnInv
  <2> QED BY <2>1, <2>2
<1>14. ASSUME NEW u \in Undoers PROVE UndoInv(u)'
  <2>1. undo[u] # None => undo[u].session \in Sessions \ {s}
    BY <1>1 DEF TalkInv, UndoInv, TypeOK, Undo
  <2>2. \A z \in Sessions : BusySession(z)' => BusySession(z)
    <3>1. \A w \in Turns : pc'[w] \in Held => pc[w] \in Held BY <1>1, <1>6
    <3> QED BY <1>3, <3>1 DEF BusySession, HoldsGuard
  <2> QED BY <1>3, <1>7, <1>12, <2>1, <2>2 DEF TalkInv, UndoInv
<1>15. PICK question \in UserMessages(s) :
          question.turn = t /\ \A m \in Of(s) : m.id <= question.id
  BY <1>0 DEF TalkInv, TurnInv
<1>16. NoGhostContext' BY <1>1, <1>7, <1>11, <1>15 DEF TalkInv, NoGhostContext
<1>17. Transcript'
  <2>1. SUFFICES ASSUME NEW z \in Sessions, NEW a \in Of(z)', a.role = "assistant"
                 PROVE  /\ \E q \in UserMessages(z)' :
                              /\ q.turn = a.turn /\ q.id < a.id
                              /\ ~\E m \in Of(z)' : q.id < m.id /\ m.id < a.id
                        /\ context'[z] # None =>
                              (context'[z] = a.turn <=>
                                 ~\E b \in Of(z)' : b.role = "assistant" /\ b.id > a.id)
    BY DEF Transcript
  <2>2. CASE a \in Of(z)
    <3>1. PICK q \in UserMessages(z) :
                 /\ q.turn = a.turn /\ q.id < a.id
                 /\ ~\E m \in Of(z) : q.id < m.id /\ m.id < a.id
      BY <2>1, <2>2 DEF TalkInv, Transcript
    <3>2. q \in UserMessages(z)' BY <1>11
    <3>3. ~\E m \in Of(z)' : q.id < m.id /\ m.id < a.id
      <4>1. z = s => ~(new.id < a.id) BY <1>8, <2>2
      <4> QED BY <1>10, <3>1, <4>1
    <3>4. CASE z = s
      <4>1. a.turn # t
        <5>1. pc[a.turn] = "ok" BY <2>1, <2>2 DEF TalkInv, MessagesInv, Of
        <5> QED BY <1>0, <5>1
      <4>2. context'[z] \in {t, None} BY <1>7, <3>4
      <4>3. new \in Of(z)' /\ new.id > a.id
        <5>1. new \in Of(z)' BY <1>10, <3>4
        <5>2. a.id < new.id BY <1>8, <2>2, <3>4
        <5>3. a.id \in Nat /\ new.id \in Nat BY <1>1, <1>4, <1>5, <2>2 DEF Of
        <5> QED BY <5>1, <5>2, <5>3
      <4> QED BY <1>5, <3>1, <3>2, <3>3, <4>1, <4>2, <4>3
    <3>5. CASE z # s
      <4>1. Of(z)' = Of(z) /\ context'[z] = context[z] BY <1>7, <1>10, <3>5
      <4>2. context[z] # None =>
              (context[z] = a.turn <=> ~\E b \in Of(z) : b.role = "assistant" /\ b.id > a.id)
        BY <2>1, <2>2 DEF TalkInv, Transcript
      <4> QED BY <3>1, <3>2, <3>3, <4>1, <4>2
    <3> QED BY <3>4, <3>5
  <2>3. CASE a \notin Of(z)
    <3>1. z = s /\ a = new BY <1>10, <2>1, <2>3
    <3>2. question.id < new.id /\ question \in Of(s)
      BY <1>8, <1>15 DEF UserMessages
    <3>3. ~\E m \in Of(z)' : question.id < m.id /\ m.id < new.id
      <4>1. \A m \in Of(s) : ~(question.id < m.id)
        <5>1. \A m \in Of(s) : m.id \in Nat BY <1>4 DEF Of
        <5> QED BY <1>15, <3>2, <5>1
      <4>2. ~(new.id < new.id) BY <1>1, <1>4, <1>5
      <4> QED BY <1>10, <3>1, <4>1, <4>2
    <3>4. ~\E b \in Of(z)' : b.id > new.id
      <4>1. \A b \in Of(s) : ~(b.id > new.id)
        <5>1. \A m \in Of(s) : m.id \in Nat BY <1>4 DEF Of
        <5> QED BY <1>1, <1>4, <1>5, <1>8, <5>1
      <4>2. ~(new.id > new.id) BY <1>1, <1>4, <1>5
      <4> QED BY <1>10, <3>1, <4>1, <4>2
    <3>5. context'[z] \in {t, None} /\ new.turn = t BY <1>5, <1>7, <3>1
    <3> QED BY <1>11, <1>15, <3>1, <3>2, <3>3, <3>4, <3>5
  <2> QED BY <2>2, <2>3
<1> QED BY <1>9, <1>13, <1>14, <1>16, <1>17 DEF TalkInv

(* An undo takes away the last answer with its question, or a question      *)
(* without an answer, and never the question of an answer that stays.       *)
LEMMA UndoKeepsPairs ==
    ASSUME TypeOK, TalkInv, NEW s \in Sessions, NEW a \in Of(s) \ LastTurn(s),
           a.role = "assistant"
    PROVE  \E q \in UserMessages(s) \ LastTurn(s) :
              /\ q.turn = a.turn /\ q.id < a.id
              /\ ~\E m \in Of(s) : q.id < m.id /\ m.id < a.id
<1> DEFINE after(m) == {n \in Of(s) : n.id > m.id}
           last == {m \in Of(s) : after(m) = {}}
<1>1. PICK q \in UserMessages(s) :
             /\ q.turn = a.turn /\ q.id < a.id
             /\ ~\E m \in Of(s) : q.id < m.id /\ m.id < a.id
  BY DEF TalkInv, Transcript
<1>2. a \in after(q)
  <2>1. a.id \in Nat /\ q.id \in Nat /\ q \in Of(s) BY <1>1 DEF TypeOK, Message, Of, UserMessages
  <2> QED BY <1>1, <2>1
<1>3. last \subseteq LastTurn(s) BY DEF LastTurn
<1>4. LastTurn(s) \subseteq last \cup {m \in UserMessages(s) : after(m) = last}
  BY DEF LastTurn
<1>5. q \notin last BY <1>2
<1>6. after(q) # last BY <1>2, <1>3
<1>7. q \notin LastTurn(s) BY <1>4, <1>5, <1>6
<1> QED BY <1>1, <1>7

LEMMA UndoKeepsTalk ==
    ASSUME TypeOK, TypeOK', TalkInv, NEW u \in Undoers, UndoCommit(u)
    PROVE  TalkInv'
<1>0. undo[u] # None /\ undo[u].session \in Sessions BY DEF UndoCommit, TypeOK, Undo
<1>1. PICK s \in Sessions : undo[u].session = s BY <1>0
<1>2. /\ messages' = messages \ LastTurn(s)
      /\ UNCHANGED <<inflight, pc, req, fed, creates, serial>>
      /\ \A v \in Undoers : undo'[v] = IF v = u THEN None ELSE undo[v]
  BY <1>0, <1>1 DEF UndoCommit, TalkInv, UndoInv, turnVars, TypeOK
<1>3. \A z \in Sessions : context'[z] = IF z = s THEN None ELSE context[z]
  BY <1>0, <1>1 DEF UndoCommit, TalkInv, UndoInv, TypeOK
<1>4. ~BusySession(s) BY <1>0, <1>1 DEF TalkInv, UndoInv
<1>5. LastTurn(s) \subseteq Of(s) BY DEF LastTurn, UserMessages
<1>6. /\ \A z \in Sessions \ {s} : Of(z)' = Of(z) /\ UserMessages(z)' = UserMessages(z)
      /\ Of(s)' = Of(s) \ LastTurn(s) /\ UserMessages(s)' = UserMessages(s) \ LastTurn(s)
  <2>1. \A z \in Sessions : Of(z)' = Of(z) \ LastTurn(s) BY <1>2 DEF Of
  <2>2. \A z \in Sessions \ {s} : Of(z) \cap LastTurn(s) = {} BY <1>5 DEF Of
  <2>3. (\A z \in Sessions \ {s} : Of(z)' = Of(z)) /\ Of(s)' = Of(s) \ LastTurn(s)
    BY <1>1, <2>1, <2>2
  <2> QED BY <2>3 DEF UserMessages
<1>7. MessagesInv' BY <1>2 DEF TalkInv, MessagesInv
<1>8. ASSUME NEW t \in Turns PROVE TurnInv(t)'
  <2>1. pc[t] \in {"opened", "asked"} => req[t].sid \in Sessions \ {s}
    BY <1>4, BusyHeld DEF Held
  <2> QED BY <1>2, <1>3, <1>6, <2>1 DEF TalkInv, TurnInv
<1>9. ASSUME NEW v \in Undoers PROVE UndoInv(v)'
  <2>1. v # u /\ undo[v] # None => undo[v].session \in Sessions \ {s}
    BY <1>0, <1>1 DEF TalkInv, UndoInv, TypeOK, Undo
  <2>2. \A z \in Sessions \ {s} : LastTurn(z)' = LastTurn(z) BY <1>6, SameLastTurn
  <2>3. \A z \in Sessions : BusySession(z)' <=> BusySession(z)
    BY <1>2 DEF BusySession, HoldsGuard
  <2> QED BY <1>2, <1>3, <2>1, <2>2, <2>3 DEF TalkInv, UndoInv
<1>10. NoGhostContext' BY <1>3, <1>6 DEF TalkInv, NoGhostContext
<1>11. Transcript'
  <2>1. ASSUME NEW z \in Sessions \ {s}, NEW a \in Of(z), a.role = "assistant"
        PROVE  /\ \E q \in UserMessages(z)' :
                     /\ q.turn = a.turn /\ q.id < a.id
                     /\ ~\E m \in Of(z)' : q.id < m.id /\ m.id < a.id
               /\ context'[z] # None =>
                     (context'[z] = a.turn <=>
                        ~\E b \in Of(z)' : b.role = "assistant" /\ b.id > a.id)
    <3>1. Of(z)' = Of(z) /\ UserMessages(z)' = UserMessages(z) /\ context'[z] = context[z]
      BY <1>3, <1>6
    <3> QED BY <2>1, <3>1 DEF TalkInv, Transcript
  <2>2. ASSUME NEW a \in Of(s)', a.role = "assistant"
        PROVE  \E q \in UserMessages(s)' :
                  /\ q.turn = a.turn /\ q.id < a.id
                  /\ ~\E m \in Of(s)' : q.id < m.id /\ m.id < a.id
    BY <1>1, <1>6, <2>2, UndoKeepsPairs
  <2>3. context'[s] = None BY <1>1, <1>3
  <2>4. \A z \in Sessions \ {s} : Of(z)' = Of(z) BY <1>6
  <2>5. ASSUME NEW z \in Sessions, NEW a \in Of(z)', a.role = "assistant"
        PROVE  /\ \E q \in UserMessages(z)' :
                     /\ q.turn = a.turn /\ q.id < a.id
                     /\ ~\E m \in Of(z)' : q.id < m.id /\ m.id < a.id
               /\ context'[z] # None =>
                     (context'[z] = a.turn <=>
                        ~\E b \in Of(z)' : b.role = "assistant" /\ b.id > a.id)
    <3>1. CASE z = s BY <2>2, <2>3, <2>5, <3>1
    <3>2. CASE z # s BY <2>1, <2>4, <2>5, <3>2
    <3> QED BY <3>1, <3>2
  <2> QED BY <2>5 DEF Transcript
<1> QED BY <1>7, <1>8, <1>9, <1>10, <1>11 DEF TalkInv

LEMMA TalkStep ==
    ASSUME OneAtATime, TypeOK, TypeOK', GuardExact, TalkInv, [Next]_vars
    PROVE  TalkInv'
<1>1. ASSUME NEW t \in Turns, NEW r \in Request, EnterTurn(t, r) \/ RejectBusy(t, r) PROVE TalkInv'
  <2>1. /\ pc[t] = "idle" /\ ~UndoPending(r.sid) /\ req' = [req EXCEPT ![t] = r]
        /\ UNCHANGED <<fed, context, messages, serial, undo>>
    BY <1>1 DEF EnterTurn, RejectBusy, Send, rowVars, OneAtATime
  <2>2. /\ pc'[t] \in {"entered", "busy"} /\ req'[t] = r
        /\ \A u \in Turns \ {t} : pc'[u] = pc[u] /\ req'[u] = req[u]
    BY <1>1, <2>1 DEF EnterTurn, RejectBusy, TypeOK
  <2>3. \A u \in Turns : pc[u] \in {"opened", "asked"} => fed[u] = context[req[u].sid]
    BY DEF TalkInv, TurnInv
  <2> QED BY <2>1, <2>2, <2>3, TalkKept
<1>2. ASSUME NEW t \in Turns, pc[t] \in Held, NEW o \in Outcome \ {"ok"}, Finish(t, o),
             pc[t] = "asked" => o = "failed",
             UNCHANGED <<req, context, messages, serial, undo>>
      PROVE  TalkInv'
  <2>1. /\ pc'[t] = o /\ o \notin Held
        /\ \A u \in Turns \ {t} : pc'[u] = pc[u] /\ fed'[u] = fed[u]
    BY <1>2 DEF Finish, TypeOK, Outcome, Held
  <2>2. \A u \in Turns : pc[u] \in {"opened", "asked"} => fed[u] = context[req[u].sid]
    BY DEF TalkInv, TurnInv
  <2>3. pc[t] \notin {"failed", "ok"} /\ o \notin {"opened", "asked"}
    BY <1>2, <2>1 DEF Held
  <2>4. \A u \in Turns : pc'[u] \in {"opened", "asked"} => fed'[u] = context[req'[u].sid]
    BY <1>2, <2>1, <2>2, <2>3
  <2>5. \A u \in Turns : pc[u] \in {"asked", "failed", "ok"} =>
           pc'[u] \in {"asked", "failed", "ok"} /\ (pc[u] = "ok" => pc'[u] = "ok")
    BY <1>2, <2>1, <2>3
  <2> QED BY <1>2, <2>1, <2>3, <2>4, <2>5, TalkKept
<1>3. ASSUME NEW t \in Turns, CountTurns(t) PROVE TalkInv'
  <2>1. pc[t] = "entered" /\ UNCHANGED <<req, context, messages, serial, undo>>
    BY <1>3 DEF CountTurns, rowVars
  <2>2. pc[t] \in Held /\ {"forbidden", "capped"} \subseteq Outcome \ {"ok"}
    BY <2>1 DEF Held, Outcome
  <2>3. CASE Finish(t, "forbidden") \/ Finish(t, "capped") BY <1>2, <2>1, <2>2, <2>3
  <2>4. CASE pc' = [pc EXCEPT ![t] = "counted"] /\ UNCHANGED fed
    <3>1. pc'[t] = "counted" /\ \A u \in Turns \ {t} : pc'[u] = pc[u] BY <2>4 DEF TypeOK
    <3>2. \A u \in Turns : pc[u] \in {"opened", "asked"} => fed[u] = context[req[u].sid]
      BY DEF TalkInv, TurnInv
    <3> QED BY <2>1, <2>2, <2>4, <3>1, <3>2, TalkKept
  <2> QED BY <1>3, <2>3, <2>4 DEF CountTurns
<1>4. ASSUME NEW t \in Turns, OpenTurnRead(t) PROVE TalkInv'
  <2>1. pc[t] = "counted" /\ UNCHANGED <<req, context, messages, serial, undo>>
    BY <1>4 DEF OpenTurnRead, rowVars
  <2>2. pc[t] \in Held /\ "forbidden" \in Outcome \ {"ok"} BY <2>1 DEF Held, Outcome
  <2>3. CASE Finish(t, "forbidden") BY <1>2, <2>1, <2>2, <2>3
  <2>4. CASE fed' = [fed EXCEPT ![t] = context[req[t].sid]] /\ pc' = [pc EXCEPT ![t] = "opened"]
    <3>1. /\ pc'[t] = "opened" /\ fed'[t] = context[req[t].sid]
          /\ \A u \in Turns \ {t} : pc'[u] = pc[u] /\ fed'[u] = fed[u]
      BY <2>4 DEF TypeOK
    <3>2. \A u \in Turns : pc[u] \in {"opened", "asked"} => fed[u] = context[req[u].sid]
      BY DEF TalkInv, TurnInv
    <3> QED BY <2>1, <2>2, <3>1, <3>2, TalkKept
  <2> QED BY <1>4, <2>3, <2>4 DEF OpenTurnRead
<1>5. ASSUME NEW t \in Turns, OpenTurnCommit(t) PROVE TalkInv'
  <2>1. /\ pc[t] = "opened" /\ pc[t] \in Held /\ "failed" \in Outcome \ {"ok"}
        /\ UNCHANGED <<req, undo>>
    BY <1>5 DEF OpenTurnCommit, Held, Outcome
  <2>2. CASE Finish(t, "failed") /\ UNCHANGED rowVars
    BY <1>2, <2>1, <2>2 DEF rowVars
  <2>3. CASE /\ Insert(req[t].sid, "user", t) /\ pc' = [pc EXCEPT ![t] = "asked"]
             /\ UNCHANGED <<fed, context>>
    BY <2>1, <2>3, QuestionKeepsTalk
  <2> QED BY <1>5, <2>2, <2>3 DEF OpenTurnCommit
<1>6. ASSUME NEW t \in Turns, TurnFails(t) PROVE TalkInv'
  <2>1. pc[t] \in Held /\ Finish(t, "failed") /\ UNCHANGED <<req, context, messages, serial, undo>>
    BY <1>6 DEF TurnFails, rowVars
  <2>2. "failed" \in Outcome \ {"ok"} BY DEF Outcome
  <2> QED BY <1>2, <2>1, <2>2
<1>7. ASSUME NEW p \in Procs, Crash(p) PROVE TalkInv'
  <2>1. /\ UNCHANGED <<req, context, messages, serial, undo>>
        /\ \A u \in Turns : \/ pc'[u] = pc[u] /\ fed'[u] = fed[u]
                            \/ pc[u] \in Held /\ pc'[u] = "failed"
    BY <1>7 DEF Crash, rowVars
  <2>2. \A u \in Turns : pc[u] \in {"opened", "asked"} => fed[u] = context[req[u].sid]
    BY DEF TalkInv, TurnInv
  <2> QED BY <2>1, <2>2, TalkKept DEF Held
<1>8. ASSUME UNCHANGED <<pc, req, fed, context, messages, serial, undo>> PROVE TalkInv'
  <2>1. \A u \in Turns : pc[u] \in {"opened", "asked"} => fed[u] = context[req[u].sid]
    BY DEF TalkInv, TurnInv
  <2> QED BY <1>8, <2>1, TalkKept
<1>9. ASSUME NEW u \in Undoers, NEW s \in Sessions, NEW c \in Companies, UndoRead(u, s, c)
      PROVE  TalkInv'
  <2>1. /\ undo[u] = None /\ ~BusySession(s) /\ ~UndoPending(s)
        /\ UNCHANGED <<pc, req, fed, context, messages, serial>>
    BY <1>9 DEF UndoRead, turnVars, rowVars, OneAtATime
  <2> DEFINE read == [session |-> s, victims |-> LastTurn(s), hadContext |-> context[s] # None]
  <2>2. /\ read.session = s /\ read.victims = LastTurn(s)
        /\ read.hadContext <=> context[s] # None
    OBVIOUS
  <2>3. undo' = [undo EXCEPT ![u] = read] BY <1>9 DEF UndoRead
  <2> HIDE DEF read
  <2>4. undo'[u] = read /\ \A v \in Undoers \ {u} : undo'[v] = undo[v] BY <2>3 DEF TypeOK
  <2>5. /\ LastTurn(s)' = LastTurn(s) /\ (BusySession(s)' <=> BusySession(s))
        /\ \A z \in Sessions : LastTurn(z)' = LastTurn(z)
        /\ \A z \in Sessions : BusySession(z)' <=> BusySession(z)
    BY <2>1 DEF LastTurn, UserMessages, Of, BusySession, HoldsGuard
  <2>6. ASSUME NEW v \in Undoers PROVE UndoInv(v)'
    <3>1. CASE v = u
      <4>1. \A w \in Undoers \ {u} : undo[w] # None => undo[w].session # s
        BY <2>1 DEF UndoPending
      <4> QED BY <2>1, <2>2, <2>4, <2>5, <3>1, <4>1 DEF UndoInv
    <3>2. CASE v # u
      <4>1. undo[v] # None => undo[v].session \in Sessions \ {s}
        BY <2>1 DEF UndoPending, TypeOK, Undo
      <4> QED BY <2>1, <2>2, <2>4, <2>5, <3>2, <4>1 DEF TalkInv, UndoInv
    <3> QED BY <3>1, <3>2
  <2>7. MessagesInv' /\ NoGhostContext' /\ Transcript'
    BY <2>1 DEF TalkInv, MessagesInv, NoGhostContext, Transcript, UserMessages, Of
  <2>8. \A t \in Turns : TurnInv(t)' BY <2>1 DEF TalkInv, TurnInv, UserMessages, Of
  <2> QED BY <2>6, <2>7, <2>8 DEF TalkInv
<1> QED
  BY <1>1, <1>3, <1>4, <1>5, <1>6, <1>7, <1>8, <1>9, AnswerKeepsTalk, UndoKeepsTalk
     DEF Next, TurnStep, DeleteSession, turnVars, vars

LEMMA TalkAlways ==
    ASSUME OneAtATime PROVE Spec => [](TypeOK /\ TalkInv)
<1>1. Init => TypeOK /\ GuardExact /\ TalkInv BY TypeInit, GuardInit, TalkInit
<1>2. TypeOK /\ GuardExact /\ TalkInv /\ [Next]_vars => (TypeOK /\ GuardExact /\ TalkInv)'
  BY TypeStep, GuardStep, TalkStep
<1> QED BY <1>1, <1>2, PTL DEF Spec

(* With one process and a client that waits, the bot remembers nothing that *)
(* was taken back: the question behind a context is still shown.             *)
THEOREM GhostCorrect ==
    ASSUME OneAtATime PROVE Spec => []NoGhostContext
<1>1. TypeOK /\ TalkInv => NoGhostContext BY DEF TalkInv
<1> QED BY <1>1, TalkAlways, PTL

(* With one process and a client that waits, an answer directly follows its *)
(* question and the context is that of the latest answer shown.              *)
THEOREM TranscriptCorrect ==
    ASSUME OneAtATime PROVE Spec => []Transcript
<1>1. TypeOK /\ TalkInv => Transcript BY DEF TalkInv
<1> QED BY <1>1, TalkAlways, PTL

(* With one process and a client that waits, the context a finished turn    *)
(* replaces is the one it was given.                                         *)
THEOREM ContextRaceCorrect ==
    ASSUME OneAtATime PROVE Spec => NoContextRace
<1>1. TypeOK /\ TalkInv /\ [Next]_vars
        => [\A t \in Turns : pc[t] = "asked" /\ pc'[t] = "ok"
              => context[req[t].sid] = fed[t]]_vars
  BY DEF TalkInv, TurnInv
<1> QED BY <1>1, TalkAlways, PTL DEF Spec, NoContextRace

-----------------------------------------------------------------------------
(* What an undo takes away.                                                  *)

(* A turn asks once and is answered once, and a session numbers its messages *)
(* differently.                                                              *)
OnceInv == \A m, n \in messages :
    /\ m.turn = n.turn /\ m.role = n.role => m = n
    /\ m.session = n.session /\ m.id = n.id => m = n

(* A message of a turn that had none of that role, with the next number.     *)
LEMMA InsertOnce ==
    ASSUME TypeOK, MessagesInv, OnceInv, NEW t \in Turns, NEW role, Insert(req[t].sid, role, t),
           \A m \in messages : ~(m.turn = t /\ m.role = role)
    PROVE  OnceInv'
<1> DEFINE s == req[t].sid
           new == [session |-> s, id |-> serial[s], role |-> role, turn |-> t]
<1>1. messages' = messages \cup {new} BY DEF Insert
<1>2. \A m \in messages : m.session = s => m.id # serial[s]
  BY DEF MessagesInv, TypeOK, Message
<1>3. new.session = s /\ new.id = serial[s] /\ new.role = role /\ new.turn = t OBVIOUS
<1> HIDE DEF new
<1> QED BY <1>1, <1>2, <1>3 DEF OnceInv

LEMMA OnceStep ==
    ASSUME TypeOK, MessagesInv, OnceInv, [Next]_vars
    PROVE  OnceInv'
<1>1. ASSUME messages' \subseteq messages PROVE OnceInv'
  BY <1>1 DEF OnceInv
<1>2. ASSUME NEW t \in Turns, OpenTurnCommit(t) PROVE OnceInv'
  <2>1. pc[t] = "opened" BY <1>2 DEF OpenTurnCommit
  <2>2. \A m \in messages : m.turn # t BY <2>1 DEF MessagesInv
  <2>3. CASE UNCHANGED rowVars BY <1>1, <2>3 DEF rowVars
  <2>4. CASE Insert(req[t].sid, "user", t) BY <2>2, <2>4, InsertOnce
  <2> QED BY <1>2, <2>3, <2>4 DEF OpenTurnCommit
<1>3. ASSUME NEW t \in Turns, CloseTurn(t) PROVE OnceInv'
  <2>1. pc[t] = "asked" /\ Insert(req[t].sid, "assistant", t) BY <1>3 DEF CloseTurn
  <2>2. \A m \in messages : ~(m.turn = t /\ m.role = "assistant") BY <2>1 DEF MessagesInv
  <2> QED BY <2>1, <2>2, InsertOnce
<1>4. ASSUME UNCHANGED messages \/ \E u \in Undoers : UndoCommit(u) PROVE OnceInv'
  BY <1>1, <1>4 DEF UndoCommit
<1> QED
  BY <1>2, <1>3, <1>4
     DEF Next, TurnStep, EnterTurn, RejectBusy, CountTurns, OpenTurnRead, TurnFails, Crash,
         DeleteSession, UndoRead, rowVars, vars

LEMMA OnceAlways ==
    ASSUME OneAtATime PROVE Spec => [](TypeOK /\ TalkInv /\ OnceInv)
<1>1. Init => OnceInv BY DEF Init, OnceInv
<1>2. TypeOK /\ TalkInv /\ OnceInv /\ [Next]_vars => OnceInv' BY OnceStep DEF TalkInv
<1> QED BY <1>1, <1>2, TalkAlways, PTL DEF Spec

(* The last turn as delete_last_turn finds it is all messages of one turn,   *)
(* and nothing comes after them.                                             *)
LEMMA LastTurnIsATurn ==
    ASSUME TypeOK, Transcript, OnceInv, NEW s \in Sessions, LastTurn(s) # {}
    PROVE  \E t \in Turns :
              /\ LastTurn(s) = {m \in Of(s) : m.turn = t}
              /\ \A m \in Of(s) \ LastTurn(s), g \in LastTurn(s) : m.id < g.id
<1> DEFINE after(m) == {n \in Of(s) : n.id > m.id}
           last == {m \in Of(s) : after(m) = {}}
           question == {m \in UserMessages(s) : after(m) = last}
<1>1. LastTurn(s) = IF \A m \in last : m.role = "assistant" THEN last \cup question ELSE last
  BY DEF LastTurn
<1>2. \A m \in Of(s) : /\ m.id \in Nat /\ m.role \in {"user", "assistant"} /\ m.turn \in Turns
                       /\ m \in messages /\ m.session = s
  BY DEF TypeOK, Message, Of
<1>3. \A m, n \in Of(s) : /\ m.id = n.id => m = n
                          /\ m.turn = n.turn /\ m.role = n.role => m = n
  BY <1>2 DEF OnceInv
<1>4. \A m, n \in Of(s) : n \in after(m) <=> n.id > m.id OBVIOUS
<1>5. \A m, n \in Of(s) : m \in last /\ n # m => n.id < m.id
  BY <1>2, <1>3, <1>4
<1>6. \A m \in Of(s) : m \in last <=> after(m) = {} OBVIOUS
<1>7. UserMessages(s) = {m \in Of(s) : m.role = "user"} BY DEF UserMessages
<1>8. last # {}
  <2>1. SUFFICES ASSUME last = {} PROVE FALSE OBVIOUS
  <2>2. PICK m \in question : TRUE BY <1>1, <2>1
  <2> QED BY <1>6, <1>7, <2>1, <2>2
<1>9. PICK z \in Of(s) : z \in last BY <1>8
<1>10. last = {z} BY <1>2, <1>5, <1>9
<1>11. \A n \in Of(s) \ {z} : n.id < z.id BY <1>5, <1>9
<1>12. CASE z.role = "user"
  <2>1. LastTurn(s) = {z} BY <1>1, <1>10, <1>12
  <2>2. ASSUME NEW m \in Of(s), m.turn = z.turn PROVE m = z
    <3>1. CASE m.role = "user" BY <1>3, <1>12, <2>2, <3>1
    <3>2. CASE m.role = "assistant"
      <4>1. PICK q \in UserMessages(s) : q.turn = m.turn /\ q.id < m.id
        BY <3>2 DEF Transcript
      <4>2. q = z BY <1>3, <1>7, <1>12, <2>2, <4>1
      <4>3. m # z BY <1>12, <3>2
      <4> QED BY <1>2, <1>11, <4>1, <4>2, <4>3
    <3> QED BY <1>2, <3>1, <3>2
  <2>3. LastTurn(s) = {m \in Of(s) : m.turn = z.turn} BY <2>1, <2>2
  <2> QED BY <1>2, <1>11, <2>1, <2>3
<1>13. CASE z.role = "assistant"
  <2>1. PICK q \in UserMessages(s) :
               /\ q.turn = z.turn /\ q.id < z.id
               /\ ~\E m \in Of(s) : q.id < m.id /\ m.id < z.id
    BY <1>13 DEF Transcript
  <2>2. q \in Of(s) /\ q.role = "user" /\ q # z BY <1>7, <1>13, <2>1
  <2>3. \A m \in Of(s) \ {q, z} : m.id < q.id
    BY <1>2, <1>3, <1>11, <2>1, <2>2
  <2>4. after(q) = {z}
    <3>1. \A n \in Of(s) : n.id > q.id => n = z BY <1>2, <2>2, <2>3
    <3>2. z.id > q.id BY <1>2, <2>1, <2>2
    <3> QED BY <3>1, <3>2
  <2>5. ASSUME NEW m \in question PROVE m = q
    <3>1. m \in Of(s) /\ after(m) = {z} /\ m # z BY <1>7, <1>10, <1>13, <2>5
    <3>2. ~(q.id > m.id) BY <2>2, <3>1
    <3> QED BY <1>2, <2>2, <2>3, <3>1, <3>2
  <2>6. question = {q} BY <1>10, <2>1, <2>4, <2>5
  <2>7. LastTurn(s) = {q, z} BY <1>1, <1>10, <1>13, <2>6
  <2>8. \A m \in Of(s) : m.turn = z.turn => m \in {q, z}
    BY <1>2, <1>3, <1>13, <2>1, <2>2
  <2>9. LastTurn(s) = {m \in Of(s) : m.turn = z.turn} BY <2>1, <2>2, <2>7, <2>8
  <2>10. \A m \in Of(s) \ {q, z} : m.id < q.id /\ m.id < z.id BY <1>11, <2>3
  <2> QED BY <1>2, <2>7, <2>9, <2>10
<1> QED BY <1>2, <1>12, <1>13

(* Only an undo takes messages away, and only those it has read.             *)
LEMMA GoneByUndo ==
    ASSUME TypeOK, TalkInv, [Next]_vars, NEW s \in Sessions, Of(s) \ Of(s)' # {}
    PROVE  Of(s) \ Of(s)' = LastTurn(s)
<1>1. ~(messages \subseteq messages') BY DEF Of
<1>2. PICK u \in Undoers : UndoCommit(u)
  BY <1>1 DEF Next, TurnStep, EnterTurn, RejectBusy, CountTurns, OpenTurnRead, OpenTurnCommit,
              CloseTurn, Insert, TurnFails, Crash, DeleteSession, UndoRead, rowVars, vars
<1>3. /\ messages' = messages \ LastTurn(undo[u].session) /\ undo[u].session \in Sessions
  BY <1>2 DEF UndoCommit, TalkInv, UndoInv, TypeOK, Undo
<1>4. \A z \in Sessions : LastTurn(z) \subseteq Of(z) BY DEF LastTurn, UserMessages
<1>5. undo[u].session = s BY <1>3, <1>4 DEF Of
<1> QED BY <1>3, <1>4, <1>5 DEF Of

(* With one process and a client that waits, an undo takes away the newest   *)
(* turn, whole and alone, whether the agent had answered it or not.          *)
THEOREM UndoCorrect ==
    ASSUME OneAtATime PROVE Spec => UndoTakesLastTurn
<1>1. TypeOK /\ TalkInv /\ OnceInv /\ [Next]_vars
        => [\A s \in Sessions : LET gone == Of(s) \ Of(s)' IN gone # {} =>
              \E t \in Turns :
                 /\ gone = {m \in Of(s) : m.turn = t}
                 /\ \A m \in Of(s) \ gone, g \in gone : m.id < g.id]_vars
  <2> SUFFICES ASSUME TypeOK, TalkInv, OnceInv, [Next]_vars, NEW s \in Sessions,
                      Of(s) \ Of(s)' # {}
               PROVE  \E t \in Turns :
                         /\ Of(s) \ Of(s)' = {m \in Of(s) : m.turn = t}
                         /\ \A m \in Of(s) \ (Of(s) \ Of(s)'), g \in Of(s) \ Of(s)' : m.id < g.id
    OBVIOUS
  <2>1. Of(s) \ Of(s)' = LastTurn(s) BY GoneByUndo
  <2>2. LastTurn(s) # {} BY <2>1
  <2> QED BY <2>1, <2>2, LastTurnIsATurn DEF TalkInv
<1> QED BY <1>1, OnceAlways, PTL DEF Spec, UndoTakesLastTurn
=============================================================================
