----------------------------- MODULE ChatSession -----------------------------
(***************************************************************************)
(* The conversation of the chat agent: AgentChatService.chat                *)
(* (app/agents/chat_service.py) over ChatRepository                         *)
(* (app/infra/db/repositories/chat_repository.py), together with the        *)
(* deletions of /me/sessions.  A turn is one POST /agent/chat: it takes the *)
(* per-process guard _inflight, counts the session's turns, opens the turn  *)
(* (session row and user message, committed), calls the agent and closes    *)
(* the turn (assistant message and context, committed).  Every step below   *)
(* ends where the code commits or where another request can run.            *)
(***************************************************************************)
EXTENDS Naturals, FiniteSets

CONSTANTS
    Procs,        \* API processes (two slots coexist while one drains)
    Companies,    \* authenticated callers
    Sessions,     \* session ids
    Turns,        \* the POST /agent/chat requests of a behaviour
    Undoers,      \* concurrent DELETE /me/sessions/{id}/last-turn requests
    MaxTurns,     \* settings.session_max_turns
    ClientWaits,  \* the client never overlaps an undo with a turn or an undo
    NoCompany,    \* there is no row in chat_sessions
    NoRequest,    \* the turn has not been sent
    None          \* NULL context; no undo in progress

ASSUME ConstantsAssumption ==
    /\ IsFiniteSet(Procs) /\ Procs # {}
    /\ IsFiniteSet(Turns)
    /\ MaxTurns \in Nat \ {0}
    /\ ClientWaits \in BOOLEAN
    /\ NoCompany \notin Companies
    /\ None \notin Turns

(* "named" tells a session id sent by the client from one new_session_id   *)
(* generates.                                                               *)
Request == [proc : Procs, company : Companies, sid : Sessions, named : BOOLEAN]

Message == [session : Sessions, id : Nat, role : {"user", "assistant"}, turn : Turns]

Undo == [session : Sessions, victims : SUBSET Message, hadContext : BOOLEAN]

ASSUME NullAssumption ==
    /\ NoRequest \notin Request
    /\ None \notin Undo

VARIABLES
    inflight,   \* inflight[p]: the set _inflight of process p
    pc, req,    \* where each turn is, and what it asks
    fed,        \* fed[t]: the context open_turn handed to the agent
    creates,    \* creates[t]: open_turn found no row and will insert one
    owner,      \* chat_sessions.company_id, NoCompany without a row
    deleted,    \* chat_sessions.deleted_at IS NOT NULL
    context,    \* chat_sessions.session_context: the turn that produced it
    messages,   \* the rows of chat_messages
    serial,     \* the next (created_at, id) of a session
    undo        \* delete_last_turn between its reads and its commit

turnVars == <<pc, req, fed, creates>>
rowVars  == <<owner, deleted, context, messages, serial>>
vars == <<inflight, pc, req, fed, creates, owner, deleted, context, messages,
          serial, undo>>

(* entered: holds the guard; counted: not capped; opened: the row was read *)
(* by open_turn; asked: user message committed, the agent is working.       *)
Held == {"entered", "counted", "opened", "asked"}
Outcome == {"busy", "capped", "forbidden", "failed", "ok"}

TypeOK ==
    /\ inflight \in [Procs -> SUBSET Sessions]
    /\ pc \in [Turns -> {"idle"} \cup Held \cup Outcome]
    /\ req \in [Turns -> Request \cup {NoRequest}]
    /\ \A t \in Turns : pc[t] # "idle" => req[t] \in Request
    /\ fed \in [Turns -> Turns \cup {None}]
    /\ creates \in [Turns -> BOOLEAN]
    /\ owner \in [Sessions -> Companies \cup {NoCompany}]
    /\ deleted \in [Sessions -> BOOLEAN]
    /\ context \in [Sessions -> Turns \cup {None}]
    /\ messages \in SUBSET Message
    /\ serial \in [Sessions -> Nat]
    /\ undo \in [Undoers -> Undo \cup {None}]

Init ==
    /\ inflight = [p \in Procs |-> {}]
    /\ pc = [t \in Turns |-> "idle"]
    /\ req = [t \in Turns |-> NoRequest]
    /\ fed = [t \in Turns |-> None]
    /\ creates = [t \in Turns |-> FALSE]
    /\ owner = [s \in Sessions |-> NoCompany]
    /\ deleted = [s \in Sessions |-> FALSE]
    /\ context = [s \in Sessions |-> None]
    /\ messages = {}
    /\ serial = [s \in Sessions |-> 0]
    /\ undo = [u \in Undoers |-> None]

-----------------------------------------------------------------------------
(* What the handlers read.                                                  *)

Of(s) == {m \in messages : m.session = s}
UserMessages(s) == {m \in Of(s) : m.role = "user"}

(* The session has had its session_max_turns questions, answered or not.    *)
CappedOffByOne(s) == Cardinality(UserMessages(s)) > MaxTurns  \* mutant

Capped(s) == Cardinality(UserMessages(s)) >= MaxTurns

(* row.company_id != company_id or row.deleted_at is not None               *)
ForbiddenNoOwner(s, c) == deleted[s]  \* mutant

ForbiddenNoDeleted(s, c) == owner[s] # c  \* mutant

Forbidden(s, c) == owner[s] # c \/ deleted[s]

HoldsGuard(t, p, s) == pc[t] \in Held /\ req[t].proc = p /\ req[t].sid = s
BusySession(s) == \E t \in Turns, p \in Procs : HoldsGuard(t, p, s)
Working(s) == {t \in Turns : pc[t] \in {"opened", "asked"} /\ req[t].sid = s}
UndoPending(s) == \E u \in Undoers : undo[u] # None /\ undo[u].session = s

(* A uuid4 nobody has used yet.                                             *)
Unused(s) == owner[s] = NoCompany /\ \A t \in Turns : pc[t] # "idle" => req[t].sid # s

Insert(s, role, t) ==
    /\ messages' = messages \cup
         {[session |-> s, id |-> serial[s], role |-> role, turn |-> t]}
    /\ serial' = [serial EXCEPT ![s] = @ + 1]

(* The end of _one_turn: the finally clause drops the guard whatever       *)
(* happened, and the locals of the handler are gone.                        *)
Finish(t, outcome) ==
    /\ pc' = [pc EXCEPT ![t] = outcome]
    /\ inflight' = [inflight EXCEPT ![req[t].proc] = @ \ {req[t].sid}]
    /\ fed' = [fed EXCEPT ![t] = None]
    /\ creates' = [creates EXCEPT ![t] = FALSE]

-----------------------------------------------------------------------------
(* One turn of the conversation.                                            *)

Send(t, r) ==
    /\ pc[t] = "idle"
    /\ r.named \/ Unused(r.sid)
    /\ ClientWaits => ~UndoPending(r.sid)
    /\ req' = [req EXCEPT ![t] = r]

(* session_id in _inflight, tested and set under _inflight_lock.            *)
BusyNever(r) == FALSE  \* mutant

Busy(r) == r.sid \in inflight[r.proc]

EnterTurn(t, r) ==
    /\ Send(t, r)
    /\ ~Busy(r)
    /\ inflight' = [inflight EXCEPT ![r.proc] = @ \cup {r.sid}]
    /\ pc' = [pc EXCEPT ![t] = "entered"]
    /\ UNCHANGED <<fed, creates, rowVars, undo>>

RejectBusy(t, r) ==
    /\ Send(t, r)
    /\ Busy(r)
    /\ pc' = [pc EXCEPT ![t] = "busy"]
    /\ UNCHANGED <<inflight, fed, creates, rowVars, undo>>

(* count_turns, called only for an id the client sent: an unknown session  *)
(* counts 0, a foreign or deleted one is refused.                           *)
CountTurns(t) ==
    LET s == req[t].sid
        known == req[t].named /\ owner[s] # NoCompany
        refused == known /\ Forbidden(s, req[t].company)
        capped == known /\ ~refused /\ Capped(s)
    IN  /\ pc[t] = "entered"
        /\ \/ refused /\ Finish(t, "forbidden")
           \/ capped /\ Finish(t, "capped")
           \/ /\ ~refused /\ ~capped
              /\ pc' = [pc EXCEPT ![t] = "counted"]
              /\ UNCHANGED <<inflight, fed, creates>>
        /\ UNCHANGED <<req, rowVars, undo>>

(* open_turn up to its first write: ownership, deletion and the context.   *)
OpenTurnRead(t) ==
    LET s == req[t].sid
    IN  /\ pc[t] = "counted"
        /\ \/ /\ owner[s] # NoCompany /\ Forbidden(s, req[t].company)
              /\ Finish(t, "forbidden")
           \/ /\ owner[s] = NoCompany \/ ~Forbidden(s, req[t].company)
              /\ fed' = [fed EXCEPT ![t] = context[s]]
              /\ creates' = [creates EXCEPT ![t] = owner[s] = NoCompany]
              /\ pc' = [pc EXCEPT ![t] = "opened"]
              /\ UNCHANGED inflight
        /\ UNCHANGED <<req, rowVars, undo>>

(* The rest of open_turn, one transaction.  The primary key rejects a      *)
(* second INSERT of the same session id, and the turn ends in a 502.        *)
OpenTurnCommit(t) ==
    LET s == req[t].sid
    IN  /\ pc[t] = "opened"
        /\ \/ /\ creates[t] /\ owner[s] # NoCompany
              /\ Finish(t, "failed")
              /\ UNCHANGED rowVars
           \/ /\ creates[t] => owner[s] = NoCompany
              /\ owner' = IF creates[t] THEN [owner EXCEPT ![s] = req[t].company]
                                        ELSE owner
              /\ Insert(s, "user", t)
              /\ pc' = [pc EXCEPT ![t] = "asked"]
              /\ UNCHANGED <<inflight, fed, creates, deleted, context>>
        /\ UNCHANGED <<req, undo>>

(* The agent answered: close_turn inserts the assistant message and         *)
(* overwrites the context with the answer's, or with NULL when the answer   *)
(* has none, without looking at deleted_at or the history.                  *)
CloseTurn(t) ==
    LET s == req[t].sid
    IN  /\ pc[t] = "asked"
        /\ Insert(s, "assistant", t)
        /\ \E remembered \in {t, None} : context' = [context EXCEPT ![s] = remembered]
        /\ Finish(t, "ok")
        /\ UNCHANGED <<req, owner, deleted, undo>>

(* A database error, or a failed, late or malformed agent answer: 502. The *)
(* transaction in progress rolls back and what was committed stays.         *)
TurnFailsLocked(t) ==  \* mutant
    /\ pc[t] \in Held
    /\ pc' = [pc EXCEPT ![t] = "failed"]
    /\ UNCHANGED <<inflight, req, fed, creates, rowVars, undo>>

TurnFails(t) ==
    /\ pc[t] \in Held
    /\ Finish(t, "failed")
    /\ UNCHANGED <<req, rowVars, undo>>

(* The process dies with its turns and its _inflight, and is restarted.     *)
Crash(p) ==
    /\ \E t \in Turns : pc[t] \in Held /\ req[t].proc = p
    /\ LET dies(t) == pc[t] \in Held /\ req[t].proc = p
       IN  /\ pc' = [t \in Turns |-> IF dies(t) THEN "failed" ELSE pc[t]]
           /\ fed' = [t \in Turns |-> IF dies(t) THEN None ELSE fed[t]]
           /\ creates' = [t \in Turns |-> IF dies(t) THEN FALSE ELSE creates[t]]
    /\ inflight' = [inflight EXCEPT ![p] = {}]
    /\ UNCHANGED <<req, rowVars, undo>>

-----------------------------------------------------------------------------
(* The deletions of /me/sessions.                                           *)

(* soft_delete_session.                                                     *)
DeleteSession(s, c) ==
    /\ owner[s] # NoCompany /\ ~Forbidden(s, c)
    /\ deleted' = [deleted EXCEPT ![s] = TRUE]
    /\ UNCHANGED <<inflight, turnVars, owner, context, messages, serial, undo>>

(* The last message, with the question before it when it is an answer.     *)
LastTurnAscending(s) ==  \* mutant
    LET before(m) == {n \in Of(s) : n.id < m.id}
        first == {m \in Of(s) : before(m) = {}}
        second == {m \in UserMessages(s) : before(m) = first}
    IN  IF \A m \in first : m.role = "assistant" THEN first \cup second ELSE first

LastTwo(s) ==  \* mutant
    LET after(m) == {n \in Of(s) : n.id > m.id}
        last == {m \in Of(s) : after(m) = {}}
    IN  last \cup {m \in Of(s) : after(m) = last}

LastTurn(s) ==
    LET after(m) == {n \in Of(s) : n.id > m.id}
        last == {m \in Of(s) : after(m) = {}}
        question == {m \in UserMessages(s) : after(m) = last}
    IN  IF \A m \in last : m.role = "assistant" THEN last \cup question ELSE last

UndoRead(u, s, c) ==
    /\ undo[u] = None
    /\ owner[s] # NoCompany /\ ~Forbidden(s, c)
    /\ Of(s) # {}
    /\ ClientWaits => ~BusySession(s) /\ ~UndoPending(s)
    /\ undo' = [undo EXCEPT ![u] = [session |-> s, victims |-> LastTurn(s),
                                    hadContext |-> context[s] # None]]
    /\ UNCHANGED <<inflight, turnVars, rowVars>>

(* Setting session_context to the NULL it was read with writes nothing: the *)
(* unit of work only updates a column that changed.                         *)
UndoCommitKeepsContext(u) ==  \* mutant
    /\ undo[u] # None
    /\ messages' = messages \ undo[u].victims
    /\ undo' = [undo EXCEPT ![u] = None]
    /\ UNCHANGED <<inflight, turnVars, owner, deleted, context, serial>>

UndoCommit(u) ==
    /\ undo[u] # None
    /\ messages' = messages \ undo[u].victims
    /\ context' = IF undo[u].hadContext
                  THEN [context EXCEPT ![undo[u].session] = None] ELSE context
    /\ undo' = [undo EXCEPT ![u] = None]
    /\ UNCHANGED <<inflight, turnVars, owner, deleted, serial>>

-----------------------------------------------------------------------------
TurnStep(t) == CountTurns(t) \/ OpenTurnRead(t) \/ OpenTurnCommit(t) \/ CloseTurn(t)

Next ==
    \/ \E t \in Turns, r \in Request : EnterTurn(t, r) \/ RejectBusy(t, r)
    \/ \E t \in Turns : TurnStep(t) \/ TurnFails(t)
    \/ \E p \in Procs : Crash(p)
    \/ \E s \in Sessions, c \in Companies : DeleteSession(s, c)
    \/ \E u \in Undoers, s \in Sessions, c \in Companies : UndoRead(u, s, c)
    \/ \E u \in Undoers : UndoCommit(u)

Spec == Init /\ [][Next]_vars

(* The thread of a turn keeps running: the agent call ends, at the latest  *)
(* with agent_timeout_sec, and both exits leave the guard.                   *)
FairSpec == Spec /\ \A t \in Turns : WF_vars(TurnStep(t) \/ TurnFails(t))

-----------------------------------------------------------------------------
(* Properties.                                                              *)

(* _inflight of a process names exactly the sessions its turns are working  *)
(* on, each by one turn: the guard is neither leaked nor dropped early.      *)
GuardExact ==
    /\ \A p \in Procs, s \in Sessions :
          s \in inflight[p] <=> \E t \in Turns : HoldsGuard(t, p, s)
    /\ \A p \in Procs, s \in Sessions : \A t1, t2 \in Turns :
          HoldsGuard(t1, p, s) /\ HoldsGuard(t2, p, s) => t1 = t2

(* session_max_turns bounds the questions of a session, counting the failed *)
(* ones.  Each further process that still serves the session can let one    *)
(* more through, for the count and the insert are not one transaction.      *)
CapHolds ==
    \A s \in Sessions :
        Cardinality(UserMessages(s)) <= MaxTurns + Cardinality(Procs) - 1

(* A company's questions, and the context its agent is given, never end up  *)
(* in another company's session, even when both name the same unknown id.   *)
Isolation ==
    /\ \A m \in messages : req[m.turn].company = owner[m.session]
    /\ \A t \in Turns : fed[t] # None => req[fed[t]].company = req[t].company

(* A deleted session takes no new turn past open_turn, and once those that  *)
(* were past it have ended nothing is added to it any more.                  *)
DeletedStaysQuiet ==
    [][\A s \in Sessions : deleted[s] =>
         /\ Working(s)' \subseteq Working(s)
         /\ Working(s) = {} => Of(s)' \subseteq Of(s)]_vars

(* A finished turn replaces the very context it was given: no other turn    *)
(* wrote one in between ("prevents the context race", chat_service.py).      *)
NoContextRace ==
    [][\A t \in Turns : pc[t] = "asked" /\ pc'[t] = "ok"
         => context[req[t].sid] = fed[t]]_vars

(* What the bot remembers was said in a conversation that still shows it:  *)
(* no context survives the deletion of the turn that produced it.           *)
NoGhostContext ==
    \A s \in Sessions : context[s] # None =>
        \E m \in UserMessages(s) : m.turn = context[s]

(* Every answer directly follows its own question, and a remembered context *)
(* is that of the latest answer, with only failed questions after it.        *)
Transcript ==
    \A s \in Sessions : \A a \in Of(s) : a.role = "assistant" =>
        /\ \E q \in UserMessages(s) :
              /\ q.turn = a.turn /\ q.id < a.id
              /\ ~\E m \in Of(s) : q.id < m.id /\ m.id < a.id
        /\ context[s] # None =>
              (context[s] = a.turn <=>
                 ~\E b \in Of(s) : b.role = "assistant" /\ b.id > a.id)

(* What an undo takes away is the newest turn of the conversation, all of   *)
(* it and nothing else: a question without an answer does not take the      *)
(* answer before it along, and an answer never goes without its question.    *)
UndoTakesLastTurn ==
    [][\A s \in Sessions : LET gone == Of(s) \ Of(s)' IN gone # {} =>
         \E t \in Turns :
            /\ gone = {m \in Of(s) : m.turn = t}
            /\ \A m \in Of(s) \ gone, g \in gone : m.id < g.id]_vars

(* Whatever ends a turn unlocks its session: no answer, refusal or failure  *)
(* leaves the conversation busy for good.                                   *)
SessionUnlocks ==
    \A p \in Procs, s \in Sessions : s \in inflight[p] ~> s \notin inflight[p]
=============================================================================
