----------------------------- MODULE ChatLimits ------------------------------
(***************************************************************************)
(* The three limits in front of POST /agent/chat: the dependency            *)
(* enforce_chat_limits (app/api/deps.py) over InMemoryChatGuard             *)
(* (app/agents/chat_rate_limit.py: sliding window and concurrency slots, in *)
(* process memory) and ChatUsageRepository.incr_and_get (a committed upsert *)
(* per company and KST day).  Several processes may serve at once; a crash  *)
(* forgets a process's memory and keeps the daily rows.                      *)
(*                                                                          *)
(* Time is counted in ticks.  An instant is kept as its age, and ages       *)
(* saturate at Horizon, beyond which no test tells them apart.              *)
(***************************************************************************)
EXTENDS Naturals, Sequences, FiniteSets

CONSTANTS
    Procs, Companies,
    Requests,        \* slots for requests: each is reused when it has left
    PerMinute,       \* settings.rate_limit_per_min
    ConcurrencyMax,  \* settings.chat_concurrency_max
    DailyMax,        \* settings.chat_daily_max
    Window,          \* _WINDOW in ticks
    MaxLag,          \* bound: ticks a thread may wait for the guard's lock
    UsageBound,      \* bound: daily count beyond which no request arrives
    NoRequest        \* the slot is free

ASSUME ConstantsAssumption ==
    /\ IsFiniteSet(Requests)
    /\ {PerMinute, ConcurrencyMax, DailyMax} \subseteq Nat \ {0}
    /\ Window \in Nat /\ MaxLag \in Nat /\ MaxLag < Window
    /\ UsageBound \in Nat

Horizon == Window + MaxLag

VARIABLES
    pc,       \* where each request is in enforce_chat_limits
    req,      \* its process, company and whether its body is valid
    lag,      \* age of the clock reading of a request waiting for the lock
    hits,     \* hits[p][c]: _hits of process p, ages of the recorded requests
    active,   \* active[p][c]: _active of process p
    usage,    \* usage[c]: today's call_count of chat_daily_usage
    recent,   \* recent[p][c]: history, ages of the minute checks passed within Horizon
    served    \* served[c]: history, handler runs admitted today

vars == <<pc, req, lag, hits, active, usage, recent, served>>

Request == [proc : Procs, company : Companies, valid : BOOLEAN]

ASSUME NullAssumption == NoRequest \notin Request

(* stamped: the clock was read; passed: under the minute limit; slotted:   *)
(* holds a slot; serving: in the handler; leaving: only the release is left *)
Slotted == {"slotted", "serving", "leaving"}

TypeOK ==
    /\ pc \in [Requests -> {"idle", "stamped", "passed"} \cup Slotted]
    /\ req \in [Requests -> Request \cup {NoRequest}]
    /\ \A r \in Requests : pc[r] # "idle" => req[r] \in Request
    /\ lag \in [Requests -> 0..MaxLag]
    /\ hits \in [Procs -> [Companies -> Seq(0..Horizon)]]
    /\ active \in [Procs -> [Companies -> Nat]]
    /\ usage \in [Companies -> Nat]
    /\ recent \in [Procs -> [Companies -> Seq(Nat)]]
    /\ served \in [Companies -> Nat]

Init ==
    /\ pc = [r \in Requests |-> "idle"]
    /\ req = [r \in Requests |-> NoRequest]
    /\ lag = [r \in Requests |-> 0]
    /\ hits = [p \in Procs |-> [c \in Companies |-> <<>>]]
    /\ active = [p \in Procs |-> [c \in Companies |-> 0]]
    /\ usage = [c \in Companies |-> 0]
    /\ recent = [p \in Procs |-> [c \in Companies |-> <<>>]]
    /\ served = [c \in Companies |-> 0]

-----------------------------------------------------------------------------
(* The sliding window.                                                      *)

(* Drops leading ages until one is below the limit.                         *)
DropOlder(ages, limit) ==
    LET front == {i \in 0..Len(ages) : i = Len(ages) \/ ages[i + 1] < limit}
        k == CHOOSE i \in front : \A j \in front : i <= j
    IN  SubSeq(ages, k + 1, Len(ages))

(* The popleft loop of check_minute: while hits[0] <= now - _WINDOW, for a  *)
(* "now" read "waited" ticks ago.                                            *)
Live(ages, waited) == DropOlder(ages, Window + waited)

(* The response is on its way and the slot is free again.                   *)
Leave(r) ==
    /\ pc' = [pc EXCEPT ![r] = "idle"]
    /\ req' = [req EXCEPT ![r] = NoRequest]

Hits(r) == hits[req[r].proc][req[r].company]
OverMinuteByOne(r) == Len(Live(Hits(r), lag[r])) > PerMinute  \* mutant

OverMinute(r) == Len(Live(Hits(r), lag[r])) >= PerMinute

(* A request is at the dependency: the body is not looked at yet, and the  *)
(* clock is read before the lock is taken.                                  *)
ReadClock(r, q) ==
    /\ pc[r] = "idle"
    /\ usage[q.company] + Cardinality({x \in Requests : pc[x] # "idle"}) < UsageBound
    /\ req' = [req EXCEPT ![r] = q]
    /\ lag' = [lag EXCEPT ![r] = 0]
    /\ pc' = [pc EXCEPT ![r] = "stamped"]
    /\ UNCHANGED <<hits, active, usage, recent, served>>

CheckMinuteRecordsRefused(r) ==  \* mutant
    LET p == req[r].proc
        c == req[r].company
    IN  /\ pc[r] = "stamped"
        /\ hits' = [hits EXCEPT ![p][c] = Append(Live(@, lag[r]), lag[r])]
        /\ \/ OverMinute(r) /\ Leave(r) /\ UNCHANGED recent
           \/ /\ ~OverMinute(r)
              /\ pc' = [pc EXCEPT ![r] = "passed"]
              /\ recent' = [recent EXCEPT ![p][c] = Append(@, 0)]
              /\ UNCHANGED req
        /\ lag' = [lag EXCEPT ![r] = 0]
        /\ UNCHANGED <<active, usage, served>>

(* check_minute: a refused request is not recorded, only the expired hits   *)
(* are dropped.                                                              *)
CheckMinute(r) ==
    LET p == req[r].proc
        c == req[r].company
        live == Live(Hits(r), lag[r])
    IN  /\ pc[r] = "stamped"
        /\ \/ /\ OverMinute(r)
              /\ hits' = [hits EXCEPT ![p][c] = live]
              /\ Leave(r)
              /\ UNCHANGED recent
           \/ /\ ~OverMinute(r)
              /\ hits' = [hits EXCEPT ![p][c] = Append(live, lag[r])]
              /\ pc' = [pc EXCEPT ![r] = "passed"]
              /\ recent' = [recent EXCEPT ![p][c] = Append(@, 0)]
              /\ UNCHANGED req
        /\ lag' = [lag EXCEPT ![r] = 0]
        /\ UNCHANGED <<active, usage, served>>

-----------------------------------------------------------------------------
(* The concurrency slots and the daily counter.                             *)

(* acquire.  The refused request has spent one of the minute's hits.        *)
Acquire(r) ==
    LET p == req[r].proc
        c == req[r].company
    IN  /\ pc[r] = "passed"
        /\ \/ /\ active[p][c] >= ConcurrencyMax
              /\ Leave(r)
              /\ UNCHANGED active
           \/ /\ active[p][c] < ConcurrencyMax
              /\ active' = [active EXCEPT ![p][c] = @ + 1]
              /\ pc' = [pc EXCEPT ![r] = "slotted"]
              /\ UNCHANGED req
        /\ UNCHANGED <<lag, hits, usage, recent, served>>

(* The count incr_and_get returns, against the limit.                       *)
WithinDayBefore(c) == usage[c] <= DailyMax  \* mutant

WithinDay(c) == usage[c] + 1 <= DailyMax

(* incr_and_get: the increment commits before it is compared.  A body that *)
(* fails validation is refused (422) only after every dependency ran.       *)
CountDay(r) ==
    LET c == req[r].company
        admitted == WithinDay(c) /\ req[r].valid
    IN  /\ pc[r] = "slotted"
        /\ usage' = [usage EXCEPT ![c] = @ + 1]
        /\ pc' = [pc EXCEPT ![r] = IF admitted THEN "serving" ELSE "leaving"]
        /\ served' = IF admitted THEN [served EXCEPT ![c] = @ + 1] ELSE served
        /\ UNCHANGED <<req, lag, hits, active, recent>>

(* The upsert fails: the exception goes to the finally clause.              *)
CountDayFailsLeaks(r) ==  \* mutant
    /\ pc[r] = "slotted"
    /\ Leave(r)
    /\ UNCHANGED <<lag, hits, active, usage, recent, served>>

CountDayFails(r) ==
    /\ pc[r] = "slotted"
    /\ pc' = [pc EXCEPT ![r] = "leaving"]
    /\ UNCHANGED <<req, lag, hits, active, usage, recent, served>>

(* release, from the finally clause: the handler returned or raised, or the *)
(* request was refused after it took its slot.                              *)
Release(r) ==
    LET p == req[r].proc
        c == req[r].company
    IN  /\ pc[r] \in {"serving", "leaving"}
        /\ active' = [active EXCEPT ![p][c] = IF @ <= 1 THEN 0 ELSE @ - 1]
        /\ Leave(r)
        /\ UNCHANGED <<lag, hits, usage, recent, served>>

-----------------------------------------------------------------------------
(* The environment.                                                         *)

On(r, p) == pc[r] # "idle" /\ req[r].proc = p

(* The process dies: its threads, its hits and its slots are gone.          *)
Crash(p) ==
    /\ \E r \in Requests : On(r, p)
    /\ pc' = [r \in Requests |-> IF On(r, p) THEN "idle" ELSE pc[r]]
    /\ req' = [r \in Requests |-> IF On(r, p) THEN NoRequest ELSE req[r]]
    /\ lag' = [r \in Requests |-> IF On(r, p) THEN 0 ELSE lag[r]]
    /\ hits' = [hits EXCEPT ![p] = [c \in Companies |-> <<>>]]
    /\ active' = [active EXCEPT ![p] = [c \in Companies |-> 0]]
    /\ recent' = [recent EXCEPT ![p] = [c \in Companies |-> <<>>]]
    /\ UNCHANGED <<usage, served>>

(* One tick passes.  Passed checks that reach Horizon leave the history.    *)
Older(age) == IF age < Horizon THEN age + 1 ELSE age

Tick ==
    /\ \A r \in Requests : pc[r] = "stamped" => lag[r] < MaxLag
    /\ lag' = [r \in Requests |-> IF pc[r] = "stamped" THEN lag[r] + 1 ELSE 0]
    /\ hits' = [p \in Procs |-> [c \in Companies |->
                   [i \in DOMAIN hits[p][c] |-> Older(hits[p][c][i])]]]
    /\ recent' = [p \in Procs |-> [c \in Companies |->
                     LET kept == DropOlder(recent[p][c], Horizon - 1)
                     IN  [i \in DOMAIN kept |-> kept[i] + 1]]]
    /\ UNCHANGED <<pc, req, active, usage, served>>

(* KST midnight: today_kst names a new row of chat_daily_usage.             *)
NewDay ==
    /\ \E c \in Companies : usage[c] > 0
    /\ usage' = [c \in Companies |-> 0]
    /\ served' = [c \in Companies |-> 0]
    /\ UNCHANGED <<pc, req, lag, hits, active, recent>>

Step(r) == CheckMinute(r) \/ Acquire(r) \/ CountDay(r) \/ CountDayFails(r) \/ Release(r)

Next ==
    \/ \E r \in Requests, q \in Request : ReadClock(r, q)
    \/ \E r \in Requests : Step(r)
    \/ \E p \in Procs : Crash(p)
    \/ Tick
    \/ NewDay

Spec == Init /\ [][Next]_vars

(* A request's thread keeps running, and the handler returns: the agent    *)
(* call is bounded by agent_timeout_sec.                                     *)
FairSpec == Spec /\ \A r \in Requests : WF_vars(Step(r))

-----------------------------------------------------------------------------
(* Properties.                                                              *)

Holders(p, c) ==
    {r \in Requests : On(r, p) /\ pc[r] \in Slotted /\ req[r].company = c}

(* _active is the number of requests between acquire and release, on every *)
(* path out (429 by the day, 422, failed upsert, handler, crash), so no     *)
(* slot leaks, and there are never more than chat_concurrency_max.           *)
SlotsExact ==
    \A p \in Procs, c \in Companies :
        /\ active[p][c] = Cardinality(Holders(p, c))
        /\ active[p][c] <= ConcurrencyMax

(* However many processes serve the company and however often they restart, *)
(* the agent runs at most chat_daily_max times a day for it, and every run  *)
(* has been counted.                                                         *)
DailyBound == \A c \in Companies : served[c] <= DailyMax /\ served[c] <= usage[c]

(* In the life of a process at most rate_limit_per_min checks pass in any   *)
(* window, shortened by the time a thread waits between reading the clock   *)
(* and taking the lock: readings can be recorded out of order.               *)
WindowBound ==
    \A p \in Procs, c \in Companies :
        Len(DropOlder(recent[p][c], Window - MaxLag)) <= PerMinute

(* The minute limit never refuses a company without cause: when a request  *)
(* would be refused, rate_limit_per_min checks of its company have passed    *)
(* in this process within a window lengthened by the wait for the lock.      *)
(* Refused attempts do not prolong the refusal, and neither do the expired   *)
(* hits that the loop keeps behind a live one.                               *)
RefusedOnlyWhenFull ==
    \A r \in Requests :
        pc[r] = "stamped" /\ OverMinute(r) =>
            Len(recent[req[r].proc][req[r].company]) >= PerMinute

(* The limits never lock a company out: a full set of slots drains.         *)
SlotsDrain ==
    \A p \in Procs, c \in Companies :
        active[p][c] = ConcurrencyMax ~> active[p][c] < ConcurrencyMax
=============================================================================
