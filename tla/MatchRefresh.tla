---------------------------- MODULE MatchRefresh -----------------------------
(***************************************************************************)
(* How match_results follows the companies' profiles and the bids:          *)
(*   - PUT /me/profile saves a profile and recomputes that company          *)
(*     (app/api/v1/profile.py, MatchRepository.recompute_for_company);      *)
(*   - the refresher of every process runs cycles, incremental or, once a   *)
(*     night, full (app/services/match_refresh.py).                         *)
(* The writers run in READ COMMITTED transactions of Postgres and overlap.  *)
(* A recompute is DELETE then INSERT ... SELECT compute_match_results: the  *)
(* DELETE sees the rows committed when it starts and waits for their locks; *)
(* the INSERT reads profile and bids when it starts and fails on the        *)
(* primary key of a row it did not delete.  An upsert overwrites.           *)
(***************************************************************************)
EXTENDS Naturals, FiniteSets

CONSTANTS
    Companies,    \* company ids; the refresher goes through them in order
    Bids,
    Hooks,        \* concurrent PUT /me/profile requests
    Refreshers,   \* one per running process
    Overlap,      \* _OVERLAP in ticks
    CommitLag,    \* bound: how long after its normalized_at a bid is committed
    MaxTime,      \* bound: the clock stops here
    MaxProfile,   \* bound: saves of a profile
    MaxFailures,  \* bound: failed transactions and process restarts
    NoRow

Writers == Hooks \cup Refreshers

ASSUME ConstantsAssumption ==
    /\ Companies \subseteq Nat /\ IsFiniteSet(Companies) /\ Companies # {}
    /\ IsFiniteSet(Bids)
    /\ Hooks \cap Refreshers = {}
    /\ {Overlap, CommitLag, MaxTime, MaxProfile, MaxFailures} \subseteq Nat
    /\ MaxTime >= 1

VARIABLES
    now, night,   \* the clock, and whether its hour is full_hour
    normalized,   \* bid_require_summary.normalized_at, 0 when there is none
    closed,       \* bids past their deadline: compute_match_results omits them
    profile,      \* the version of each company's profile
    rows,         \* match_results: rows[c][b]
    tx,           \* the open transaction of each writer
    cycle,        \* run_once of each refresher
    fullDone,     \* last_full_date of the loop is today
    failures

vars == <<now, night, normalized, closed, profile, rows, tx, cycle, fullDone, failures>>

Row == [profile : 0..MaxProfile, norm : 1..MaxTime, at : 1..MaxTime]
Result == [Bids -> Row \cup {NoRow}]

ASSUME NoRowAssumption == NoRow \notin Row

(* saved: a profile was committed, the recompute is next; deleting: the     *)
(* DELETE has its snapshot; computed: it holds its locks and the INSERT has *)
(* its rows; upserting: the same for an upsert.                              *)
Phase == {"idle", "saved", "deleting", "computed", "upserting"}
Tx == [phase : Phase, company : Companies, began : 1..MaxTime, saved : 0..MaxProfile,
       victims : SUBSET Bids, result : Result]
Cycle == [mode : {"sleep", "full", "incremental"}, nightly : BOOLEAN,
          left : SUBSET Companies, began : 1..MaxTime, since : 0..MaxTime,
          seen : [Bids -> 0..MaxTime]]   \* seen: normalized, when the cycle began

Empty == [b \in Bids |-> NoRow]
Keys(result) == {b \in Bids : result[b] # NoRow}

Least(S) == CHOOSE x \in S : \A y \in S : x <= y
Latest(S) == IF S = {} THEN 0 ELSE CHOOSE x \in S : \A y \in S : y <= x

Idle == [phase |-> "idle", company |-> Least(Companies), began |-> 1, saved |-> 0,
         victims |-> {}, result |-> Empty]
Sleep == [mode |-> "sleep", nightly |-> FALSE, left |-> {}, began |-> 1, since |-> 0,
          seen |-> [b \in Bids |-> 0]]

TypeOK ==
    /\ now \in 1..MaxTime
    /\ night \in BOOLEAN
    /\ normalized \in [Bids -> 0..MaxTime]
    /\ closed \in SUBSET Bids
    /\ profile \in [Companies -> 0..MaxProfile]
    /\ rows \in [Companies -> Result]
    /\ tx \in [Writers -> Tx]
    /\ cycle \in [Refreshers -> Cycle]
    /\ fullDone \in [Refreshers -> BOOLEAN]
    /\ failures \in 0..MaxFailures

Init ==
    /\ now = 1
    /\ night = FALSE
    /\ normalized = [b \in Bids |-> 0]
    /\ closed = {}
    /\ profile = [c \in Companies |-> 0]
    /\ rows = [c \in Companies |-> Empty]
    /\ tx = [w \in Writers |-> Idle]
    /\ cycle = [r \in Refreshers |-> Sleep]
    /\ fullDone = [r \in Refreshers |-> FALSE]
    /\ failures = 0

-----------------------------------------------------------------------------
(* compute_match_results(c): one row per normalized bid that is still open, *)
(* stamped with the time its transaction began.                             *)
Compute(c, bids, began) ==
    [b \in Bids |-> IF b \in bids /\ normalized[b] > 0 /\ b \notin closed
                    THEN [profile |-> profile[c], norm |-> normalized[b], at |-> began]
                    ELSE NoRow]

LatestNormalized == Latest({normalized[b] : b \in Bids})
LatestComputed ==
    Latest(UNION {{rows[c][b].at : b \in Keys(rows[c])} : c \in Companies})

(* The rows a recompute has deleted and not yet committed.                  *)
Locked(w, c) ==
    UNION {tx[v].victims : v \in {u \in Writers \ {w} :
                                    tx[u].phase = "computed" /\ tx[u].company = c}}

SetTx(w, t) == tx' = [tx EXCEPT ![w] = t]

(* A refresher's cycle moves on to the next company, or is abandoned.  The  *)
(* count of the rows that follows a recompute begins the next transaction.  *)
Advance(w, c) ==
    cycle' = IF w \in Refreshers
             THEN [cycle EXCEPT ![w].left = @ \ {c}, ![w].began = now] ELSE cycle
Abandon(w) ==
    cycle' = IF w \in Refreshers THEN [cycle EXCEPT ![w] = Sleep] ELSE cycle

-----------------------------------------------------------------------------
(* The transactions.                                                        *)

(* The DELETE of recompute_for_company starts.                              *)
StartRecompute(w, c, began, saved) ==
    SetTx(w, [phase |-> "deleting", company |-> c, began |-> began, saved |-> saved,
              victims |-> Keys(rows[c]), result |-> Empty])

ComputeRowsCommitsDelete(w) ==   \* mutant
    LET t == tx[w]
    IN  /\ t.phase = "deleting"
        /\ t.victims \cap Locked(w, t.company) = {}
        /\ SetTx(w, [t EXCEPT !.phase = "computed",
                              !.result = Compute(t.company, Bids, t.began)])
        /\ rows' = [rows EXCEPT ![t.company] = [b \in Bids |->
                       IF b \in t.victims THEN NoRow ELSE rows[t.company][b]]]
        /\ UNCHANGED <<now, night, normalized, closed, profile, cycle, fullDone, failures>>

(* The DELETE gets its locks, and the INSERT its snapshot.                  *)
ComputeRows(w) ==
    LET t == tx[w]
    IN  /\ t.phase = "deleting"
        /\ t.victims \cap Locked(w, t.company) = {}
        /\ SetTx(w, [t EXCEPT !.phase = "computed",
                              !.result = Compute(t.company, Bids, t.began)])
        /\ UNCHANGED <<now, night, normalized, closed, profile, rows, cycle, fullDone,
                       failures>>

(* A row of the result exists that this DELETE did not remove.              *)
DuplicateKey(w) ==
    LET t == tx[w]
    IN  Keys(t.result) \cap (Keys(rows[t.company]) \ t.victims) # {}

CommitKeepingRows(w) ==   \* mutant
    LET t == tx[w]
        c == t.company
    IN  /\ t.phase = "computed"
        /\ rows' = [rows EXCEPT ![c] = [b \in Bids |->
                       IF b \notin t.victims /\ rows[c][b] # NoRow THEN rows[c][b]
                       ELSE t.result[b]]]
        /\ SetTx(w, Idle)
        /\ Advance(w, c)
        /\ UNCHANGED <<now, night, normalized, closed, profile, fullDone, failures>>

(* The row a DELETE waited for is gone once its deleter commits; the row    *)
(* inserted in its place is not in the DELETE's snapshot.                    *)
CommitRecompute(w) ==
    LET t == tx[w]
        c == t.company
    IN  /\ t.phase = "computed"
        /\ ~DuplicateKey(w)
        /\ rows' = [rows EXCEPT ![c] = [b \in Bids |->
                       IF t.result[b] # NoRow THEN t.result[b]
                       ELSE IF b \in t.victims THEN NoRow ELSE rows[c][b]]]
        /\ tx' = [v \in Writers |->
                    IF v = w THEN Idle
                    ELSE IF tx[v].phase = "deleting" /\ tx[v].company = c
                         THEN [tx[v] EXCEPT !.victims = @ \ t.victims]
                         ELSE tx[v]]
        /\ Advance(w, c)
        /\ UNCHANGED <<now, night, normalized, closed, profile, fullDone, failures>>

(* IntegrityError on the INSERT: rollback, and the caller gives up.         *)
ConflictRecompute(w) ==
    /\ tx[w].phase = "computed"
    /\ DuplicateKey(w)
    /\ SetTx(w, Idle)
    /\ Abandon(w)
    /\ UNCHANGED <<now, night, normalized, closed, profile, rows, fullDone, failures>>

(* upsert_since: the statement's snapshot, then its writes.  It waits for   *)
(* rows a recompute is replacing and overwrites what it finds then.         *)
StartUpsert(w, c, began, since) ==
    SetTx(w, [Idle EXCEPT !.phase = "upserting", !.company = c, !.began = began,
                  !.result = Compute(c, {b \in Bids : normalized[b] > since}, began)])

CommitUpsert(w) ==
    LET t == tx[w]
        c == t.company
    IN  /\ t.phase = "upserting"
        /\ Keys(t.result) \cap Locked(w, c) = {}
        /\ rows' = [rows EXCEPT ![c] = [b \in Bids |->
                       IF t.result[b] # NoRow THEN t.result[b] ELSE rows[c][b]]]
        /\ SetTx(w, Idle)
        /\ Advance(w, c)
        /\ UNCHANGED <<now, night, normalized, closed, profile, fullDone, failures>>

FailTxSkips(w) ==   \* mutant
    /\ tx[w].phase # "idle"
    /\ failures < MaxFailures
    /\ failures' = failures + 1
    /\ SetTx(w, Idle)
    /\ Advance(w, tx[w].company)
    /\ UNCHANGED <<now, night, normalized, closed, profile, rows, fullDone>>

(* A transaction fails.  The hook logs and answers 200; the cycle stops     *)
(* where it is, keeping the companies it has committed.                     *)
FailTx(w) ==
    /\ tx[w].phase # "idle"
    /\ failures < MaxFailures
    /\ failures' = failures + 1
    /\ SetTx(w, Idle)
    /\ Abandon(w)
    /\ UNCHANGED <<now, night, normalized, closed, profile, rows, fullDone>>

-----------------------------------------------------------------------------
(* PUT /me/profile.                                                         *)

(* The saved profile is read back for the response, in the transaction the  *)
(* recompute then goes on in.                                                *)
SaveProfile(h, c) ==
    /\ tx[h].phase = "idle"
    /\ profile[c] < MaxProfile
    /\ profile' = [profile EXCEPT ![c] = @ + 1]
    /\ SetTx(h, [Idle EXCEPT !.phase = "saved", !.company = c, !.began = now,
                             !.saved = profile[c] + 1])
    /\ UNCHANGED <<now, night, normalized, closed, rows, cycle, fullDone, failures>>

HookRecompute(h) ==
    /\ tx[h].phase = "saved"
    /\ StartRecompute(h, tx[h].company, tx[h].began, tx[h].saved)
    /\ UNCHANGED <<now, night, normalized, closed, profile, rows, cycle, fullDone, failures>>

-----------------------------------------------------------------------------
(* match_refresh_loop and run_once.                                         *)

(* What a cycle that wakes up now does: the nightly or the first full, an   *)
(* increment when a bid is newer than every computed row, or nothing.       *)
NightlyDue(r) == night /\ ~fullDone[r]
NewBids == LatestNormalized > LatestComputed
FirstFill == LatestNormalized > 0 /\ LatestComputed = 0

BeginCycle(r) ==
    /\ cycle[r].mode = "sleep"
    /\ NightlyDue(r) \/ NewBids
    /\ cycle' = [cycle EXCEPT ![r] =
         [mode |-> IF NightlyDue(r) \/ FirstFill THEN "full" ELSE "incremental",
          nightly |-> NightlyDue(r), left |-> Companies, began |-> now,
          since |-> IF NightlyDue(r) \/ LatestComputed <= Overlap THEN 0
                    ELSE LatestComputed - Overlap,
          seen |-> normalized]]
    /\ UNCHANGED <<now, night, normalized, closed, profile, rows, tx, fullDone, failures>>

(* The next company, in id order.  The first one's transaction began with   *)
(* the cycle's own queries, an increment's later ones begin with the upsert. *)
NextCompany(r) ==
    LET y == cycle[r]
        c == Least(y.left)
        began == IF y.mode = "full" \/ y.left = Companies THEN y.began ELSE now
    IN  /\ y.left # {}
        /\ tx[r].phase = "idle"
        /\ IF y.mode = "full" THEN StartRecompute(r, c, began, 0)
                              ELSE StartUpsert(r, c, began, y.since)
        /\ UNCHANGED <<now, night, normalized, closed, profile, rows, cycle, fullDone,
                       failures>>

EndCycle(r) ==
    /\ cycle[r].mode # "sleep" /\ cycle[r].left = {}
    /\ cycle' = [cycle EXCEPT ![r] = Sleep]
    /\ fullDone' = [fullDone EXCEPT ![r] = @ \/ cycle[r].nightly]
    /\ UNCHANGED <<now, night, normalized, closed, profile, rows, tx, failures>>

(* The process restarts: open transactions roll back, last_full_date is     *)
(* forgotten.                                                                *)
Restart(r) ==
    /\ failures < MaxFailures
    /\ failures' = failures + 1
    /\ tx' = [w \in Writers |-> IF w \in Hooks \cup {r} THEN Idle ELSE tx[w]]
    /\ cycle' = [cycle EXCEPT ![r] = Sleep]
    /\ fullDone' = [fullDone EXCEPT ![r] = FALSE]
    /\ UNCHANGED <<now, night, normalized, closed, profile, rows>>

-----------------------------------------------------------------------------
(* The environment: the pipeline, the deadlines and the clock.              *)

(* A bid is (re)normalized: normalized_at was stamped up to CommitLag ago.  *)
Normalize(b, at) ==
    /\ now <= at + CommitLag /\ at <= now
    /\ at > normalized[b]
    /\ b \notin closed
    /\ normalized' = [normalized EXCEPT ![b] = at]
    /\ UNCHANGED <<now, night, closed, profile, rows, tx, cycle, fullDone, failures>>

Close(b) ==
    /\ normalized[b] > 0 /\ b \notin closed
    /\ closed' = closed \cup {b}
    /\ UNCHANGED <<now, night, normalized, profile, rows, tx, cycle, fullDone, failures>>

Tick ==
    /\ now < MaxTime
    /\ now' = now + 1
    /\ UNCHANGED <<night, normalized, closed, profile, rows, tx, cycle, fullDone, failures>>

NightFallsSameDate ==   \* mutant
    /\ ~night
    /\ night' = TRUE
    /\ UNCHANGED <<now, normalized, closed, profile, rows, tx, cycle, fullDone, failures>>

(* full_hour comes, on a new date: a nightly cycle still running counts for *)
(* the old one.  It goes when no incremental cycle that began before or in  *)
(* it still runs: the hour is longer than such a cycle.                      *)
NightFalls ==
    /\ ~night
    /\ night' = TRUE
    /\ fullDone' = [r \in Refreshers |-> FALSE]
    /\ cycle' = [r \in Refreshers |-> [cycle[r] EXCEPT !.nightly = FALSE]]
    /\ UNCHANGED <<now, normalized, closed, profile, rows, tx, failures>>

DayBreaks ==
    /\ night
    /\ \A r \in Refreshers : fullDone[r] \/ cycle[r].mode # "incremental"
    /\ night' = FALSE
    /\ UNCHANGED <<now, normalized, closed, profile, rows, tx, cycle, fullDone, failures>>

TxStep(w) == ComputeRows(w) \/ CommitRecompute(w) \/ ConflictRecompute(w) \/ CommitUpsert(w)
CycleStep(r) == NextCompany(r) \/ EndCycle(r)

Next ==
    \/ \E w \in Writers : TxStep(w) \/ FailTx(w)
    \/ \E h \in Hooks, c \in Companies : SaveProfile(h, c)
    \/ \E h \in Hooks : HookRecompute(h)
    \/ \E r \in Refreshers : BeginCycle(r) \/ CycleStep(r) \/ Restart(r)
    \/ \E b \in Bids, at \in 1..MaxTime : Normalize(b, at)
    \/ \E b \in Bids : Close(b)
    \/ Tick \/ NightFalls \/ DayBreaks

Spec == Init /\ [][Next]_vars

(* Statements return, loops keep running, nights come and go, and a cycle   *)
(* begins in some of the nights that have had no full one.                   *)
FairSpec ==
    /\ Spec
    /\ \A w \in Writers : WF_vars(TxStep(w))
    /\ \A h \in Hooks : WF_vars(HookRecompute(h))
    /\ \A r \in Refreshers :
          WF_vars(CycleStep(r)) /\ SF_vars(NightlyDue(r) /\ BeginCycle(r))
    /\ WF_vars(NightFalls) /\ WF_vars(DayBreaks)

-----------------------------------------------------------------------------
(* Properties.                                                              *)

Quiet == /\ \A w \in Writers : tx[w].phase = "idle"
         /\ \A r \in Refreshers : cycle[r].mode = "sleep"

(* The rows of c are what compute_match_results would return now.           *)
Exact(c) ==
    /\ Keys(rows[c]) = {b \in Bids : normalized[b] > 0 /\ b \notin closed}
    /\ \A b \in Keys(rows[c]) : rows[c][b].profile = profile[c]
                                /\ rows[c][b].norm = normalized[b]

(* "Judgements change with the profile": when the recompute that follows a  *)
(* PUT commits, every open bid's row of that company was computed from the  *)
(* profile the PUT had saved or from a later one, whatever other writers    *)
(* committed in between.                                                     *)
PutReflected ==
    [][\A w \in Writers : CommitRecompute(w) =>
         LET c == tx[w].company
         IN  \A b \in Keys(rows'[c]) \ closed : rows'[c][b].profile >= tx[w].saved]_vars

(* Readers never see the gap between DELETE and INSERT: a company keeps the *)
(* row of an open bid as long as the bid is open.                            *)
NoGap ==
    [][\A c \in Companies : Keys(rows[c]) \ closed' \subseteq Keys(rows'[c])]_vars

(* A cycle that ends well leaves every company with a row for each bid that *)
(* was normalized past its lower bound when it began, computed from that    *)
(* normalization or a later one, whatever hooks ran beside it.  (Not beside *)
(* another process's cycle: its upsert may bring an older row back.)        *)
CycleCovers ==
    [][\A r \in Refreshers : cycle[r].mode # "sleep" /\ cycle[r].left = {}
                             /\ cycle'[r].mode = "sleep"
         => \A c \in Companies, b \in Bids \ closed :
              cycle[r].seen[b] > cycle[r].since =>
                rows[c][b] # NoRow /\ rows[c][b].norm >= cycle[r].seen[b]]_vars

(* Once profiles and bids stop changing, the nightly full makes every row   *)
(* exact again, whatever races, failures and restarts happened before.      *)
NightlyHeals == <>[](\A c \in Companies : Exact(c))

(* "Reflects new bids in match_results": the lower bound of the increments, *)
(* latest_computed_at - _OVERLAP over all companies, moves past an open bid *)
(* only when every company has a row for it.                                *)
NewBidsReflected ==
    Quiet => \A c \in Companies, b \in Bids \ closed :
        normalized[b] > 0 /\ normalized[b] + Overlap <= LatestComputed => rows[c][b] # NoRow
=============================================================================
