------------------------- MODULE MatchRefresh_proofs -------------------------
(***************************************************************************)
(* Theorems about MatchRefresh, for any companies, bids, hooks and          *)
(* refreshers.                                                               *)
(***************************************************************************)
EXTENDS MatchRefresh, FiniteSetTheorems, WellFoundedInduction, TLAPS

-----------------------------------------------------------------------------
(* Least and Latest.                                                         *)

(* By the well-foundedness of inclusion, on the intervals 0..i.             *)
LEMMA HasLeast ==
    ASSUME NEW S \in SUBSET Nat, S # {}
    PROVE  \E x \in S : \A y \in S : x <= y
<1> DEFINE upTo == {0..i : i \in S}
           order == StrictSubsetOrdering(Nat)
<1>1. upTo \subseteq FiniteSubsetsOf(Nat) /\ upTo # {}
  <2>1. \A i \in S : 0..i \in SUBSET Nat /\ IsFiniteSet(0..i) BY FS_Interval
  <2> QED BY <2>1 DEF FiniteSubsetsOf
<1>2. PICK I \in upTo : \A J \in upTo : ~(<<J, I>> \in order)
  <2> HIDE DEF upTo, order
  <2> QED BY <1>1, FS_StrictSubsetOrderingWellFounded, WFMin DEF order
<1>3. PICK x \in S : I = 0..x OBVIOUS
<1>4. ASSUME NEW y \in S, y < x PROVE FALSE
  <2>1. 0..y \subseteq 0..x /\ x \in 0..x /\ x \notin 0..y BY <1>4
  <2>2. <<0..y, I>> \in order BY <1>3, <2>1 DEF StrictSubsetOrdering
  <2> QED BY <1>2, <2>2
<1> QED BY <1>4

LEMMA LeastFacts ==
    ASSUME NEW S \in SUBSET Nat, S # {}
    PROVE  Least(S) \in S /\ \A y \in S : Least(S) <= y
BY HasLeast DEF Least

LEMMA LatestFacts ==
    ASSUME NEW n \in Nat, NEW S \in SUBSET (0..n)
    PROVE  /\ Latest(S) \in 0..n
           /\ \A y \in S : y <= Latest(S)
<1>1. CASE S = {} BY <1>1 DEF Latest
<1>2. CASE S # {}
  <2> DEFINE T == {n - x : x \in S}
  <2>1. T \in SUBSET Nat /\ T # {} BY <1>2
  <2>2. PICK t \in T : \A u \in T : t <= u
    <3> HIDE DEF T
    <3> QED BY <2>1, HasLeast
  <2>3. PICK x \in S : t = n - x BY <2>2
  <2>4. \A y \in S : y <= x
    <3>1. ASSUME NEW y \in S PROVE y <= x
      <4>1. n - y \in T OBVIOUS
      <4>2. n - x <= n - y BY <2>2, <2>3, <4>1
      <4> QED BY <4>2
    <3> QED BY <3>1
  <2>5. Latest(S) \in S /\ \A y \in S : y <= Latest(S)
    BY <1>2, <2>4 DEF Latest
  <2> QED BY <2>5
<1> QED BY <1>1, <1>2

-----------------------------------------------------------------------------
(* Types.                                                                    *)

LEMMA ComputeType ==
    ASSUME TypeOK, NEW c \in Companies, NEW S, NEW began \in 1..MaxTime
    PROVE  Compute(c, S, began) \in Result
<1>1. ASSUME NEW b \in Bids, normalized[b] > 0
      PROVE  [profile |-> profile[c], norm |-> normalized[b], at |-> began] \in Row
  BY <1>1, ConstantsAssumption DEF TypeOK, Row
<1> QED BY <1>1 DEF Compute, Result

(* What compute_match_results puts into a row.                               *)
LEMMA ComputeFacts ==
    ASSUME TypeOK, NEW c \in Companies, NEW S, NEW began \in 1..MaxTime, NEW b \in Bids
    PROVE  LET row == Compute(c, S, began)[b]
           IN  /\ row # NoRow <=> b \in S /\ normalized[b] > 0 /\ b \notin closed
               /\ row # NoRow => row.profile = profile[c] /\ row.norm = normalized[b]
<1> DEFINE new == [profile |-> profile[c], norm |-> normalized[b], at |-> began]
<1>1. normalized[b] > 0 => new \in Row
  BY ConstantsAssumption DEF TypeOK, Row
<1>2. normalized[b] > 0 => new # NoRow BY <1>1, NoRowAssumption
<1>3. Compute(c, S, began)[b] = IF b \in S /\ normalized[b] > 0 /\ b \notin closed THEN new
                                ELSE NoRow
  BY DEF Compute
<1>4. new.profile = profile[c] /\ new.norm = normalized[b] OBVIOUS
<1> HIDE DEF new
<1> QED BY <1>2, <1>3, <1>4

LEMMA IdleFacts ==
    /\ Idle \in Tx /\ Idle.phase = "idle"
    /\ Idle.victims = {} /\ Idle.saved = 0
<1>1. Least(Companies) \in Companies BY LeastFacts, ConstantsAssumption
<1>2. Empty \in Result BY DEF Empty, Result
<1>3. 1 \in 1..MaxTime /\ 0 \in 0..MaxProfile BY ConstantsAssumption
<1> QED BY <1>1, <1>2, <1>3 DEF Idle, Tx, Phase

LEMMA SleepType == Sleep \in Cycle /\ Sleep.mode = "sleep" /\ Sleep.left = {}
<1>1. 1 \in 1..MaxTime /\ 0 \in 0..MaxTime BY ConstantsAssumption
<1>2. [b \in Bids |-> 0] \in [Bids -> 0..MaxTime] BY <1>1
<1> QED BY <1>1, <1>2 DEF Sleep, Cycle

LEMMA LatestTypes ==
    ASSUME TypeOK
    PROVE  LatestNormalized \in 0..MaxTime /\ LatestComputed \in 0..MaxTime
<1>1. {normalized[b] : b \in Bids} \in SUBSET (0..MaxTime) BY DEF TypeOK
<1> DEFINE ats == UNION {{rows[c][b].at : b \in Keys(rows[c])} : c \in Companies}
<1>2. ats \in SUBSET (0..MaxTime)
  <2>1. ASSUME NEW c \in Companies, NEW b \in Keys(rows[c])
        PROVE  rows[c][b].at \in 0..MaxTime
    <3>1. rows[c] \in Result BY DEF TypeOK
    <3>2. rows[c][b] \in Row BY <3>1 DEF Result, Keys
    <3> QED BY <3>2, ConstantsAssumption DEF Row
  <2> QED BY <2>1
<1>3. Latest(ats) \in 0..MaxTime
  <2> HIDE DEF ats
  <2> QED BY <1>2, LatestFacts, ConstantsAssumption
<1>4. Latest({normalized[b] : b \in Bids}) \in 0..MaxTime
  BY <1>1, LatestFacts, ConstantsAssumption
<1> QED BY <1>3, <1>4 DEF LatestNormalized, LatestComputed

LEMMA SetTxFacts ==
    ASSUME TypeOK, NEW w \in Writers, NEW q \in Tx, SetTx(w, q)
    PROVE  /\ tx' \in [Writers -> Tx]
           /\ tx'[w] = q
           /\ \A v \in Writers \ {w} : tx'[v] = tx[v]
BY DEF TypeOK, SetTx

LEMMA AdvanceFacts ==
    ASSUME TypeOK, NEW w \in Writers, NEW c, Advance(w, c)
    PROVE  /\ cycle' \in [Refreshers -> Cycle]
           /\ \A r \in Refreshers :
                 /\ cycle'[r].mode = cycle[r].mode /\ cycle'[r].since = cycle[r].since
                 /\ cycle'[r].seen = cycle[r].seen
                 /\ cycle'[r].left = IF r = w THEN cycle[r].left \ {c} ELSE cycle[r].left
<1>1. CASE w \in Refreshers
  <2> DEFINE q == [cycle[w] EXCEPT !.left = @ \ {c}, !.began = now]
  <2>1. cycle[w] \in Cycle BY <1>1 DEF TypeOK
  <2>2. /\ q \in Cycle
        /\ q.mode = cycle[w].mode /\ q.since = cycle[w].since /\ q.seen = cycle[w].seen
        /\ q.left = cycle[w].left \ {c}
    BY <2>1 DEF Cycle, TypeOK
  <2>3. cycle' = [cycle EXCEPT ![w] = q]
    BY <1>1 DEF Advance, TypeOK
  <2> HIDE DEF q
  <2> QED BY <1>1, <2>2, <2>3 DEF TypeOK
<1>2. CASE w \notin Refreshers
  BY <1>2 DEF Advance, TypeOK
<1> QED BY <1>1, <1>2

LEMMA AbandonFacts ==
    ASSUME TypeOK, NEW w \in Writers, Abandon(w)
    PROVE  /\ cycle' \in [Refreshers -> Cycle]
           /\ \A r \in Refreshers : cycle'[r] = IF r = w THEN Sleep ELSE cycle[r]
BY SleepType DEF Abandon, TypeOK

(* The transaction of each action.                                           *)
LEMMA StartRecomputeFacts ==
    ASSUME TypeOK, NEW w \in Writers, NEW c \in Companies, NEW began \in 1..MaxTime,
           NEW saved \in 0..MaxProfile, StartRecompute(w, c, began, saved)
    PROVE  /\ tx' \in [Writers -> Tx]
           /\ \A v \in Writers \ {w} : tx'[v] = tx[v]
           /\ tx'[w].phase = "deleting" /\ tx'[w].company = c /\ tx'[w].saved = saved
           /\ tx'[w].victims = Keys(rows[c])
<1> DEFINE q == [phase |-> "deleting", company |-> c, began |-> began, saved |-> saved,
                 victims |-> Keys(rows[c]), result |-> Empty]
<1>1. q \in Tx
  BY DEF Tx, Phase, Keys, Empty, Result
<1>2. q.phase = "deleting" /\ q.company = c /\ q.saved = saved /\ q.victims = Keys(rows[c])
  OBVIOUS
<1>3. SetTx(w, q) BY DEF StartRecompute
<1> HIDE DEF q
<1> QED BY <1>1, <1>2, <1>3, SetTxFacts

LEMMA StartUpsertFacts ==
    ASSUME TypeOK, NEW w \in Writers, NEW c \in Companies, NEW began \in 1..MaxTime,
           NEW since, StartUpsert(w, c, began, since)
    PROVE  /\ tx' \in [Writers -> Tx]
           /\ \A v \in Writers \ {w} : tx'[v] = tx[v]
           /\ tx'[w].phase = "upserting" /\ tx'[w].company = c /\ tx'[w].saved = 0
           /\ tx'[w].result = Compute(c, {b \in Bids : normalized[b] > since}, began)
<1> DEFINE result == Compute(c, {b \in Bids : normalized[b] > since}, began)
           q == [Idle EXCEPT !.phase = "upserting", !.company = c, !.began = began,
                             !.result = result]
<1>1. result \in Result BY ComputeType
<1> HIDE DEF result
<1>2. /\ q \in Tx
      /\ q.phase = "upserting" /\ q.company = c /\ q.saved = 0 /\ q.result = result
  BY <1>1, IdleFacts DEF Tx, Phase
<1>3. SetTx(w, q) BY DEF StartUpsert, result
<1> HIDE DEF q
<1> QED BY <1>2, <1>3, SetTxFacts DEF result

LEMMA ComputeRowsFacts ==
    ASSUME TypeOK, NEW w \in Writers, ComputeRows(w)
    PROVE  /\ tx' \in [Writers -> Tx]
           /\ \A v \in Writers \ {w} : tx'[v] = tx[v]
           /\ tx[w].phase = "deleting" /\ tx'[w].phase = "computed"
           /\ tx'[w].company = tx[w].company /\ tx'[w].saved = tx[w].saved
           /\ tx'[w].victims = tx[w].victims /\ tx'[w].began = tx[w].began
           /\ tx'[w].result = Compute(tx[w].company, Bids, tx[w].began)
<1> DEFINE t == tx[w]
           result == Compute(t.company, Bids, t.began)
           q == [t EXCEPT !.phase = "computed", !.result = result]
<1>1. t \in Tx BY DEF TypeOK
<1>2. result \in Result BY <1>1, ComputeType DEF Tx
<1> HIDE DEF result
<1>3. /\ q \in Tx
      /\ q.phase = "computed" /\ q.company = t.company /\ q.saved = t.saved
      /\ q.victims = t.victims /\ q.began = t.began /\ q.result = result
  BY <1>1, <1>2 DEF Tx, Phase
<1>4. SetTx(w, q) /\ t.phase = "deleting" BY DEF ComputeRows, result
<1> HIDE DEF q
<1> QED BY <1>3, <1>4, SetTxFacts DEF result

LEMMA SaveProfileFacts ==
    ASSUME TypeOK, NEW h \in Hooks, NEW c \in Companies, SaveProfile(h, c)
    PROVE  /\ tx' \in [Writers -> Tx]
           /\ \A v \in Writers \ {h} : tx'[v] = tx[v]
           /\ tx'[h].phase = "saved" /\ tx'[h].company = c /\ tx'[h].saved = profile[c] + 1
<1> DEFINE n == profile[c] + 1
           q == [Idle EXCEPT !.phase = "saved", !.company = c, !.began = now, !.saved = n]
<1>1. n \in 0..MaxProfile BY ConstantsAssumption DEF SaveProfile, TypeOK
<1> HIDE DEF n
<1>2. q \in Tx /\ q.phase = "saved" /\ q.company = c /\ q.saved = n
  BY <1>1, IdleFacts DEF Tx, Phase, TypeOK
<1>3. SetTx(h, q) /\ h \in Writers BY DEF SaveProfile, n, Writers
<1> HIDE DEF q
<1> QED BY <1>2, <1>3, SetTxFacts DEF n

LEMMA CommitRecomputeFacts ==
    ASSUME TypeOK, NEW w \in Writers, CommitRecompute(w)
    PROVE  /\ tx' \in [Writers -> Tx]
           /\ tx'[w] = Idle
           /\ \A v \in Writers \ {w} :
                 /\ tx'[v].phase = tx[v].phase /\ tx'[v].company = tx[v].company
                 /\ tx'[v].saved = tx[v].saved /\ tx'[v].result = tx[v].result
                 /\ tx'[v].victims =
                       IF tx[v].phase = "deleting" /\ tx[v].company = tx[w].company
                       THEN tx[v].victims \ tx[w].victims ELSE tx[v].victims
<1> DEFINE q(v) == [tx[v] EXCEPT !.victims = @ \ tx[w].victims]
<1>1. ASSUME NEW v \in Writers
      PROVE  /\ tx[v] \in Tx /\ q(v) \in Tx
             /\ q(v).phase = tx[v].phase /\ q(v).company = tx[v].company
             /\ q(v).saved = tx[v].saved /\ q(v).result = tx[v].result
             /\ q(v).victims = tx[v].victims \ tx[w].victims
  <2>1. tx[v] \in Tx BY DEF TypeOK
  <2> QED BY <2>1 DEF Tx
<1>2. tx' = [v \in Writers |->
               IF v = w THEN Idle
               ELSE IF tx[v].phase = "deleting" /\ tx[v].company = tx[w].company
                    THEN q(v) ELSE tx[v]]
  BY DEF CommitRecompute
<1> HIDE DEF q
<1> QED BY <1>1, <1>2, IdleFacts

(* What a commit makes of a company's rows.                                  *)
LEMMA CommitRows ==
    ASSUME TypeOK, NEW w \in Writers, CommitRecompute(w) \/ CommitUpsert(w)
    PROVE  /\ rows' \in [Companies -> Result]
           /\ tx[w].company \in Companies
           /\ \A c \in Companies \ {tx[w].company} : rows'[c] = rows[c]
           /\ \A b \in Bids :
                 LET t == tx[w]
                     was == rows[t.company][b]
                 IN  rows'[t.company][b] =
                       IF t.result[b] # NoRow THEN t.result[b]
                       ELSE IF t.phase = "computed" /\ b \in t.victims THEN NoRow ELSE was
<1> DEFINE t == tx[w]
           c == t.company
           new == [b \in Bids |->
                     IF t.result[b] # NoRow THEN t.result[b]
                     ELSE IF t.phase = "computed" /\ b \in t.victims THEN NoRow ELSE rows[c][b]]
<1>1. t \in Tx BY DEF TypeOK
<1>2. c \in Companies /\ t.result \in Result /\ rows[c] \in Result
  BY <1>1 DEF Tx, TypeOK
<1>3. new \in Result BY <1>2 DEF Result
<1>4. rows' = [rows EXCEPT ![c] = new]
  BY DEF CommitRecompute, CommitUpsert
<1> QED BY <1>2, <1>3, <1>4 DEF TypeOK

LEMMA TypeInit == Init => TypeOK
<1>1. Empty \in Result BY DEF Empty, Result
<1>2. 1 \in 1..MaxTime /\ 0 \in 0..MaxTime /\ 0 \in 0..MaxProfile /\ 0 \in 0..MaxFailures
  BY ConstantsAssumption
<1> SUFFICES ASSUME Init PROVE TypeOK OBVIOUS
<1>3. tx \in [Writers -> Tx] /\ cycle \in [Refreshers -> Cycle]
  BY IdleFacts, SleepType DEF Init
<1>4. rows \in [Companies -> Result] /\ fullDone \in [Refreshers -> BOOLEAN]
  BY <1>1 DEF Init
<1> QED BY <1>2, <1>3, <1>4 DEF Init, TypeOK

LEMMA TypeStep == TypeOK /\ [Next]_vars => TypeOK'
<1> SUFFICES ASSUME TypeOK, [Next]_vars PROVE TypeOK' OBVIOUS
<1>1. ASSUME NEW w \in Writers, TxStep(w) PROVE TypeOK'
  <2>1. CASE ComputeRows(w)
    BY <2>1, ComputeRowsFacts DEF ComputeRows, TypeOK
  <2>2. CASE CommitRecompute(w)
    BY <2>2, CommitRecomputeFacts, CommitRows, AdvanceFacts DEF CommitRecompute, TypeOK
  <2>3. CASE ConflictRecompute(w)
    BY <2>3, SetTxFacts, IdleFacts, AbandonFacts DEF ConflictRecompute, TypeOK
  <2>4. CASE CommitUpsert(w)
    BY <2>4, SetTxFacts, IdleFacts, CommitRows, AdvanceFacts DEF CommitUpsert, TypeOK
  <2> QED BY <1>1, <2>1, <2>2, <2>3, <2>4 DEF TxStep
<1>2. ASSUME NEW w \in Writers, FailTx(w) PROVE TypeOK'
  BY <1>2, SetTxFacts, IdleFacts, AbandonFacts, ConstantsAssumption DEF FailTx, TypeOK
<1>3. ASSUME NEW h \in Hooks, NEW c \in Companies, SaveProfile(h, c) PROVE TypeOK'
  <2>1. profile' \in [Companies -> 0..MaxProfile]
    BY <1>3, ConstantsAssumption DEF SaveProfile, TypeOK
  <2> QED BY <1>3, <2>1, SaveProfileFacts DEF SaveProfile, TypeOK
<1>4. ASSUME NEW h \in Hooks, HookRecompute(h) PROVE TypeOK'
  <2>1. h \in Writers /\ tx[h] \in Tx BY DEF TypeOK, Writers
  <2>2. tx[h].company \in Companies /\ tx[h].began \in 1..MaxTime /\ tx[h].saved \in 0..MaxProfile
    BY <2>1 DEF Tx
  <2> QED BY <1>4, <2>1, <2>2, StartRecomputeFacts DEF HookRecompute, TypeOK
<1>5. ASSUME NEW r \in Refreshers, BeginCycle(r) PROVE TypeOK'
  <2> DEFINE since == IF NightlyDue(r) \/ LatestComputed <= Overlap THEN 0
                      ELSE LatestComputed - Overlap
             nightly == NightlyDue(r)
             mode == IF NightlyDue(r) \/ FirstFill THEN "full" ELSE "incremental"
  <2>1. since \in 0..MaxTime BY LatestTypes, ConstantsAssumption
  <2>2. nightly \in BOOLEAN BY DEF NightlyDue, TypeOK
  <2>3. mode \in {"full", "incremental"} OBVIOUS
  <2>4. cycle' = [cycle EXCEPT ![r] = [mode |-> mode, nightly |-> nightly, left |-> Companies,
                     began |-> now, since |-> since, seen |-> normalized]]
    BY <1>5 DEF BeginCycle
  <2> HIDE DEF since, nightly, mode
  <2>5. [mode |-> mode, nightly |-> nightly, left |-> Companies,
         began |-> now, since |-> since, seen |-> normalized] \in Cycle
    BY <2>1, <2>2, <2>3 DEF Cycle, TypeOK
  <2>6. cycle' \in [Refreshers -> Cycle] BY <2>4, <2>5 DEF TypeOK
  <2> QED BY <1>5, <2>6 DEF BeginCycle, TypeOK
<1>6. ASSUME NEW r \in Refreshers, NextCompany(r) PROVE TypeOK'
  <2>1. r \in Writers /\ cycle[r] \in Cycle BY DEF TypeOK, Writers
  <2>2. cycle[r].left \subseteq Companies /\ cycle[r].began \in 1..MaxTime BY <2>1 DEF Cycle
  <2>3. Least(cycle[r].left) \in Companies
    <3>1. cycle[r].left \in SUBSET Nat BY <2>2, ConstantsAssumption
    <3> QED BY <1>6, <2>2, <3>1, LeastFacts DEF NextCompany
  <2>4. 0 \in 0..MaxProfile /\ now \in 1..MaxTime BY ConstantsAssumption DEF TypeOK
  <2>5. tx' \in [Writers -> Tx]
    BY <1>6, <2>1, <2>2, <2>3, <2>4, StartRecomputeFacts, StartUpsertFacts DEF NextCompany
  <2> QED BY <1>6, <2>5 DEF NextCompany, TypeOK
<1>7. ASSUME NEW r \in Refreshers, EndCycle(r) PROVE TypeOK'
  <2>1. cycle[r] \in Cycle BY DEF TypeOK
  <2>2. fullDone[r] \/ cycle[r].nightly \in BOOLEAN BY <2>1 DEF Cycle, TypeOK
  <2>3. fullDone' \in [Refreshers -> BOOLEAN]
    <3>1. (fullDone[r] \/ cycle[r].nightly) \in BOOLEAN OBVIOUS
    <3> QED BY <1>7, <3>1 DEF EndCycle, TypeOK
  <2> QED BY <1>7, <2>3, SleepType DEF EndCycle, TypeOK
<1>8. ASSUME NEW r \in Refreshers, Restart(r) PROVE TypeOK'
  BY <1>8, IdleFacts, SleepType, ConstantsAssumption DEF Restart, TypeOK
<1>9. ASSUME NEW b \in Bids, NEW at \in 1..MaxTime, Normalize(b, at) PROVE TypeOK'
  <2>1. normalized' \in [Bids -> 0..MaxTime]
    BY <1>9, ConstantsAssumption DEF Normalize, TypeOK
  <2> QED BY <1>9, <2>1 DEF Normalize, TypeOK
<1>10. ASSUME NEW b \in Bids, Close(b) PROVE TypeOK'
  BY <1>10 DEF Close, TypeOK
<1>11. CASE Tick
  BY <1>11, ConstantsAssumption DEF Tick, TypeOK
<1>12. CASE NightFalls
  <2>1. ASSUME NEW r \in Refreshers PROVE [cycle[r] EXCEPT !.nightly = FALSE] \in Cycle
    <3>1. cycle[r] \in Cycle BY DEF TypeOK
    <3> QED BY <3>1 DEF Cycle
  <2>2. cycle' \in [Refreshers -> Cycle] BY <1>12, <2>1 DEF NightFalls
  <2> QED BY <1>12, <2>2 DEF NightFalls, TypeOK
<1>13. CASE DayBreaks
  BY <1>13 DEF DayBreaks, TypeOK
<1>14. CASE UNCHANGED vars
  BY <1>14 DEF vars, TypeOK
<1> QED BY <1>1, <1>2, <1>3, <1>4, <1>5, <1>6, <1>7, <1>8, <1>9, <1>10, <1>11, <1>12, <1>13, <1>14
        DEF Next, CycleStep

(* What transactions, cycles and rows are, in every reachable state.        *)
THEOREM TypeCorrect == Spec => []TypeOK
<1> QED BY TypeInit, TypeStep, PTL DEF Spec

-----------------------------------------------------------------------------
(* Rows and transactions.                                                    *)

(* A row belongs to a bid that was normalized.                               *)
RowsInv == \A c \in Companies, b \in Bids : rows[c][b] # NoRow => normalized[b] > 0

(* What a transaction goes by: its DELETE holds rows that are there, its    *)
(* rows belong to normalized bids and to a profile no older than the one    *)
(* saved, and the INSERT puts a row back for every open bid.                *)
TxInv(w) ==
    LET t == tx[w]
    IN  /\ t.phase # "idle" => t.saved <= profile[t.company]
        /\ t.phase \in {"deleting", "computed"} => t.victims \subseteq Keys(rows[t.company])
        /\ t.phase \in {"computed", "upserting"} =>
             \A b \in Bids : t.result[b] # NoRow => normalized[b] > 0
        /\ t.phase = "computed" => t.victims \ closed \subseteq Keys(t.result)
        /\ t.phase = "computed" =>
             \A b \in Bids : t.result[b] # NoRow => t.result[b].profile >= t.saved

(* No two transactions hold the same row.                                    *)
LockInv ==
    \A v, w \in Writers :
        /\ v # w /\ tx[v].phase = "computed" /\ tx[w].phase = "computed"
        /\ tx[v].company = tx[w].company
        => tx[v].victims \cap tx[w].victims = {}

(* An open bid for which a recompute has no row was not normalized when it  *)
(* computed: whoever has a row for it has computed later.                    *)
LateInv(w) ==
    LET t == tx[w]
    IN  t.phase = "computed" =>
          \A b \in Bids \ closed : t.result[b] = NoRow =>
            /\ rows[t.company][b] # NoRow => rows[t.company][b].profile >= t.saved
            /\ \A v \in Writers :
                 /\ tx[v].phase \in {"computed", "upserting"} /\ tx[v].company = t.company
                 /\ tx[v].result[b] # NoRow
                 => tx[v].result[b].profile >= t.saved

PutInv ==
    /\ TypeOK
    /\ RowsInv
    /\ LockInv
    /\ \A w \in Writers : TxInv(w) /\ LateInv(w)

LEMMA PutInit == Init => PutInv
<1> SUFFICES ASSUME Init PROVE PutInv OBVIOUS
<1>1. TypeOK BY TypeInit
<1>2. \A w \in Writers : tx[w].phase = "idle" BY IdleFacts DEF Init
<1>3. \A w \in Writers : TxInv(w) /\ LateInv(w) BY <1>2 DEF TxInv, LateInv
<1>4. RowsInv BY DEF Init, RowsInv, Empty
<1>5. LockInv BY <1>2 DEF LockInv
<1> QED BY <1>1, <1>3, <1>4, <1>5 DEF PutInv

(* A commit: the rows it writes, the rows it removes, and what is left to   *)
(* the others.                                                               *)
LEMMA CommitKeepsPut ==
    ASSUME PutInv, TypeOK', NEW w \in Writers, CommitRecompute(w) \/ CommitUpsert(w),
           tx'[w] = Idle, UNCHANGED <<normalized, closed, profile>>,
           \A v \in Writers \ {w} :
              /\ tx'[v].phase = tx[v].phase /\ tx'[v].company = tx[v].company
              /\ tx'[v].saved = tx[v].saved /\ tx'[v].result = tx[v].result
              /\ tx'[v].victims =
                    IF tx[w].phase = "computed" /\ tx[v].phase = "deleting"
                       /\ tx[v].company = tx[w].company
                    THEN tx[v].victims \ tx[w].victims ELSE tx[v].victims
    PROVE  PutInv'
<1> DEFINE t == tx[w]
<1>1. t.phase \in {"computed", "upserting"} /\ t.company \in Companies
  BY CommitRows DEF CommitRecompute, CommitUpsert, PutInv
<1>2. \A c \in Companies \ {t.company} : rows'[c] = rows[c]
  BY CommitRows DEF PutInv
<1>3. \A b \in Bids : rows'[t.company][b] =
         IF t.result[b] # NoRow THEN t.result[b]
         ELSE IF t.phase = "computed" /\ b \in t.victims THEN NoRow ELSE rows[t.company][b]
  BY CommitRows DEF PutInv
<1>4. RowsInv'
  <2>1. \A b \in Bids : t.result[b] # NoRow => normalized[b] > 0 BY <1>1 DEF PutInv, TxInv
  <2> QED BY <1>1, <1>2, <1>3, <2>1 DEF PutInv, RowsInv
<1>5. LockInv'
  <2>1. \A v \in Writers : tx'[v].phase = "computed" =>
           /\ v # w /\ tx[v].phase = "computed"
           /\ tx'[v].company = tx[v].company /\ tx'[v].victims = tx[v].victims
    BY IdleFacts
  <2> QED BY <2>1 DEF PutInv, LockInv
<1>6. ASSUME NEW v \in Writers PROVE TxInv(v)'
  <2>1. CASE v = w BY <2>1, IdleFacts DEF TxInv
  <2>2. CASE v # w
    <3>1. ASSUME tx[v].phase \in {"deleting", "computed"}
          PROVE  tx'[v].victims \subseteq Keys(rows'[tx[v].company])
      <4>1. tx[v].victims \subseteq Keys(rows[tx[v].company]) BY <3>1 DEF PutInv, TxInv
      <4>2. CASE tx[v].company # t.company
        <5>1. tx[v].company \in Companies
          <6>1. tx[v] \in Tx BY DEF PutInv, TypeOK
          <6> QED BY <6>1 DEF Tx
        <5> QED BY <1>2, <2>2, <4>1, <4>2, <5>1
      <4>3. CASE tx[v].company = t.company
        <5>1. t.phase = "computed" => tx'[v].victims \cap t.victims = {}
          BY <2>2, <3>1, <4>3 DEF PutInv, LockInv
        <5>2. tx'[v].victims \subseteq tx[v].victims BY <2>2
        <5> QED BY <1>3, <4>1, <4>3, <5>1, <5>2 DEF Keys
      <4> QED BY <4>2, <4>3
    <3>2. TxInv(v) BY DEF PutInv
    <3>3. /\ tx'[v].phase = tx[v].phase /\ tx'[v].company = tx[v].company
          /\ tx'[v].saved = tx[v].saved /\ tx'[v].result = tx[v].result
          /\ tx[v].phase = "computed" => tx'[v].victims = tx[v].victims
      BY <2>2
    <3> QED BY <3>1, <3>2, <3>3 DEF TxInv
  <2> QED BY <2>1, <2>2
<1>7. ASSUME NEW v \in Writers PROVE LateInv(v)'
  <2>1. CASE v = w BY <2>1, IdleFacts DEF LateInv
  <2>2. CASE v # w
    <3>1. SUFFICES ASSUME tx[v].phase = "computed", NEW b \in Bids \ closed,
                          tx[v].result[b] = NoRow
                   PROVE  /\ rows'[tx[v].company][b] # NoRow =>
                               rows'[tx[v].company][b].profile >= tx[v].saved
                          /\ \A u \in Writers :
                               /\ tx'[u].phase \in {"computed", "upserting"}
                               /\ tx'[u].company = tx[v].company /\ tx'[u].result[b] # NoRow
                               => tx'[u].result[b].profile >= tx[v].saved
      BY <2>2, ZenonT(30) DEF LateInv
    <3>2. /\ rows[tx[v].company][b] # NoRow => rows[tx[v].company][b].profile >= tx[v].saved
          /\ \A u \in Writers :
               /\ tx[u].phase \in {"computed", "upserting"} /\ tx[u].company = tx[v].company
               /\ tx[u].result[b] # NoRow
               => tx[u].result[b].profile >= tx[v].saved
      BY <3>1 DEF PutInv, LateInv
    <3>3. tx[v].company \in Companies
      <4>1. tx[v] \in Tx BY DEF PutInv, TypeOK
      <4> QED BY <4>1 DEF Tx
    <3>4. rows'[tx[v].company][b] # NoRow => rows'[tx[v].company][b].profile >= tx[v].saved
      BY <1>1, <1>2, <1>3, <3>2, <3>3
    <3>5. \A u \in Writers : tx'[u].phase \in {"computed", "upserting"} =>
             /\ tx'[u].phase = tx[u].phase /\ tx'[u].company = tx[u].company
             /\ tx'[u].result = tx[u].result
      BY IdleFacts
    <3> QED BY <3>2, <3>4, <3>5
  <2> QED BY <2>1, <2>2
<1> QED BY <1>4, <1>5, <1>6, <1>7 DEF PutInv

(* A transaction that begins, or is given up, while nothing else changes.   *)
LEMMA TxKeepsPut ==
    ASSUME PutInv, TypeOK', NEW w \in Writers, tx'[w].phase \notin {"computed", "upserting"},
           \A v \in Writers \ {w} : tx'[v] = tx[v],
           UNCHANGED <<normalized, closed, rows>>,
           \A c \in Companies : profile[c] <= profile'[c],
           TxInv(w)'
    PROVE  PutInv'
<1>1. RowsInv' BY DEF PutInv, RowsInv
<1>2. LockInv' BY DEF PutInv, LockInv
<1>3. ASSUME NEW v \in Writers PROVE TxInv(v)'
  <2>1. CASE v # w
    <3>1. tx[v] \in Tx BY DEF PutInv, TypeOK
    <3>2. /\ tx[v].company \in Companies /\ tx[v].saved \in Nat
          /\ profile[tx[v].company] \in Nat /\ profile'[tx[v].company] \in Nat
      <4>1. tx[v].company \in Companies /\ tx[v].saved \in 0..MaxProfile BY <3>1 DEF Tx
      <4>2. profile[tx[v].company] \in 0..MaxProfile /\ profile'[tx[v].company] \in 0..MaxProfile
        BY <4>1 DEF PutInv, TypeOK
      <4> QED BY <4>1, <4>2, ConstantsAssumption
    <3>3. tx[v].saved <= profile[tx[v].company] => tx[v].saved <= profile'[tx[v].company]
      BY <3>2
    <3> QED BY <2>1, <3>3 DEF PutInv, TxInv
  <2> QED BY <2>1
<1>4. ASSUME NEW v \in Writers PROVE LateInv(v)'
  BY DEF PutInv, LateInv
<1> QED BY <1>1, <1>2, <1>3, <1>4 DEF PutInv

(* A result: rows for the open bids that are normalized now, from the       *)
(* profile of now.                                                           *)
LEMMA ComputeKeepsPut ==
    ASSUME PutInv, TypeOK', NEW w \in Writers,
           NEW c \in Companies, NEW S \in SUBSET Bids, NEW began \in 1..MaxTime,
           UNCHANGED <<normalized, closed, rows, profile>>,
           \A v \in Writers \ {w} : tx'[v] = tx[v],
           tx'[w].company = c, tx'[w].saved <= profile[c],
           tx'[w].result = Compute(c, S, began),
           \/ tx'[w].phase = "upserting"
           \/ /\ tx'[w].phase = "computed" /\ S = Bids
              /\ tx[w].phase = "deleting" /\ tx[w].company = c
              /\ tx'[w].victims = tx[w].victims
              /\ tx[w].victims \cap Locked(w, c) = {}
    PROVE  PutInv'
<1> DEFINE t == tx'[w]
<1>1. \A b \in Bids :
         /\ t.result[b] # NoRow <=> b \in S /\ normalized[b] > 0 /\ b \notin closed
         /\ t.result[b] # NoRow => t.result[b].profile = profile[c]
  BY ComputeFacts DEF PutInv
<1>2. RowsInv' BY DEF PutInv, RowsInv
<1>3. LockInv'
  <2>1. ASSUME NEW v \in Writers \ {w}, tx'[v].phase = "computed", tx'[v].company = c,
               t.phase = "computed"
        PROVE  tx'[v].victims \cap t.victims = {}
    <3>1. tx[v].victims \subseteq Locked(w, c) BY <2>1 DEF Locked
    <3> QED BY <2>1, <3>1
  <2> QED BY <2>1 DEF PutInv, LockInv
<1>4. TxInv(w)'
  <2>1. t.saved \in Nat /\ profile[c] \in Nat
    <3>1. t \in Tx BY DEF TypeOK
    <3>2. t.saved \in 0..MaxProfile /\ profile[c] \in 0..MaxProfile BY <3>1 DEF Tx, PutInv, TypeOK
    <3> QED BY <3>2, ConstantsAssumption
  <2>2. t.phase = "computed" => t.victims \subseteq Keys(rows[c]) BY DEF PutInv, TxInv
  <2>3. t.phase = "computed" => t.victims \ closed \subseteq Keys(t.result)
    <3>1. ASSUME NEW b \in Keys(rows[c]) \ closed, t.phase = "computed" PROVE b \in Keys(t.result)
      <4>1. b \in Bids /\ normalized[b] > 0 BY <3>1 DEF PutInv, RowsInv, Keys
      <4> QED BY <1>1, <3>1, <4>1 DEF Keys
    <3> QED BY <2>2, <3>1
  <2>4. \A b \in Bids : t.result[b] # NoRow => normalized[b] > 0 /\ t.result[b].profile >= t.saved
    BY <1>1, <2>1
  <2> QED BY <2>2, <2>3, <2>4 DEF TxInv
<1>5. ASSUME NEW v \in Writers \ {w} PROVE TxInv(v)'
  BY DEF PutInv, TxInv
<1>6. LateInv(w)'
  <2>1. ASSUME t.phase = "computed", NEW b \in Bids \ closed, t.result[b] = NoRow
        PROVE  /\ rows[c][b] = NoRow
               /\ \A v \in Writers : tx'[v].phase \in {"computed", "upserting"}
                                     => tx'[v].result[b] = NoRow
    <3>1. ~(normalized[b] > 0) BY <1>1, <2>1
    <3>2. rows[c][b] = NoRow BY <3>1 DEF PutInv, RowsInv
    <3>3. ASSUME NEW v \in Writers, tx'[v].phase \in {"computed", "upserting"}
          PROVE  tx'[v].result[b] = NoRow
      <4>1. CASE v = w BY <2>1, <4>1
      <4>2. CASE v # w BY <3>1, <3>3, <4>2 DEF PutInv, TxInv
      <4> QED BY <4>1, <4>2
    <3> QED BY <3>2, <3>3
  <2> QED BY <2>1 DEF LateInv
<1>7. ASSUME NEW v \in Writers \ {w} PROVE LateInv(v)'
  <2>1. SUFFICES ASSUME tx[v].phase = "computed", tx[v].company = c, NEW b \in Bids \ closed,
                        t.result[b] # NoRow
                 PROVE  t.result[b].profile >= tx[v].saved
    BY DEF PutInv, LateInv
  <2>2. tx[v].saved <= profile[c] BY <2>1 DEF PutInv, TxInv
  <2>3. tx[v].saved \in Nat /\ profile[c] \in Nat
    <3>1. tx[v] \in Tx BY DEF PutInv, TypeOK
    <3>2. tx[v].saved \in 0..MaxProfile /\ profile[c] \in 0..MaxProfile
      BY <3>1 DEF Tx, PutInv, TypeOK
    <3> QED BY <3>2, ConstantsAssumption
  <2> QED BY <1>1, <2>1, <2>2, <2>3
<1> QED BY <1>2, <1>3, <1>4, <1>5, <1>6, <1>7 DEF PutInv

LEMMA PutStep == PutInv /\ [Next]_vars => PutInv'
<1> SUFFICES ASSUME PutInv, [Next]_vars PROVE PutInv' OBVIOUS
<1>0. TypeOK' BY TypeStep DEF PutInv
<1>1. ASSUME NEW w \in Writers, TxStep(w) \/ FailTx(w) PROVE PutInv'
  <2>1. CASE ComputeRows(w)
    <3>1. tx[w] \in Tx BY DEF PutInv, TypeOK
    <3>2. tx[w].company \in Companies /\ tx[w].began \in 1..MaxTime BY <3>1 DEF Tx
    <3>3. tx'[w].saved <= profile[tx[w].company]
      BY <2>1, ComputeRowsFacts DEF PutInv, TxInv
    <3>4. /\ tx'[w].phase = "computed" /\ tx[w].phase = "deleting"
          /\ tx'[w].company = tx[w].company /\ tx'[w].victims = tx[w].victims
          /\ tx'[w].result = Compute(tx[w].company, Bids, tx[w].began)
          /\ \A v \in Writers \ {w} : tx'[v] = tx[v]
      BY <2>1, ComputeRowsFacts DEF PutInv
    <3>5. /\ tx[w].victims \cap Locked(w, tx[w].company) = {}
          /\ UNCHANGED <<normalized, closed, rows, profile>>
      BY <2>1 DEF ComputeRows
    <3> QED BY <1>0, <3>2, <3>3, <3>4, <3>5, ComputeKeepsPut
  <2>2. CASE CommitRecompute(w)
    <3>1. tx[w].phase = "computed" BY <2>2 DEF CommitRecompute
    <3>2. UNCHANGED <<normalized, closed, profile>> BY <2>2 DEF CommitRecompute
    <3>3. /\ tx'[w] = Idle
          /\ \A v \in Writers \ {w} :
                /\ tx'[v].phase = tx[v].phase /\ tx'[v].company = tx[v].company
                /\ tx'[v].saved = tx[v].saved /\ tx'[v].result = tx[v].result
                /\ tx'[v].victims =
                      IF tx[w].phase = "computed" /\ tx[v].phase = "deleting"
                         /\ tx[v].company = tx[w].company
                      THEN tx[v].victims \ tx[w].victims ELSE tx[v].victims
      BY <2>2, <3>1, CommitRecomputeFacts DEF PutInv
    <3> QED BY <1>0, <2>2, <3>2, <3>3, CommitKeepsPut
  <2>3. CASE CommitUpsert(w)
    <3>1. tx[w].phase # "computed" /\ SetTx(w, Idle) BY <2>3 DEF CommitUpsert
    <3> QED BY <1>0, <2>3, <3>1, SetTxFacts, IdleFacts, CommitKeepsPut DEF CommitUpsert, PutInv
  <2>4. CASE ConflictRecompute(w) \/ FailTx(w)
    <3>1. SetTx(w, Idle) BY <2>4 DEF ConflictRecompute, FailTx
    <3>2. tx'[w] = Idle /\ \A v \in Writers \ {w} : tx'[v] = tx[v]
      BY <3>1, SetTxFacts, IdleFacts DEF PutInv
    <3>3. TxInv(w)' BY <3>2, IdleFacts DEF TxInv
    <3>4. UNCHANGED <<normalized, closed, rows, profile>>
      BY <2>4 DEF ConflictRecompute, FailTx
    <3>5. \A c \in Companies : profile[c] <= profile[c]
      <4>1. \A c \in Companies : profile[c] \in 0..MaxProfile BY DEF PutInv, TypeOK
      <4> QED BY <4>1, ConstantsAssumption
    <3> QED BY <1>0, <3>2, <3>3, <3>4, <3>5, IdleFacts, TxKeepsPut
  <2> QED BY <1>1, <2>1, <2>2, <2>3, <2>4 DEF TxStep
<1>2. ASSUME NEW h \in Hooks, NEW c \in Companies, SaveProfile(h, c) PROVE PutInv'
  <2>1. /\ tx'[h].phase = "saved" /\ tx'[h].company = c /\ tx'[h].saved = profile[c] + 1
        /\ \A v \in Writers \ {h} : tx'[v] = tx[v]
    BY <1>2, SaveProfileFacts DEF PutInv
  <2>2. \A d \in Companies : profile[d] \in Nat
    BY ConstantsAssumption DEF PutInv, TypeOK
  <2>3. profile'[c] = profile[c] + 1 /\ \A d \in Companies \ {c} : profile'[d] = profile[d]
    BY <1>2 DEF SaveProfile, PutInv, TypeOK
  <2>4. UNCHANGED <<normalized, closed, rows>> /\ h \in Writers
    BY <1>2 DEF SaveProfile, Writers
  <2>5. TxInv(h)' BY <2>1, <2>2, <2>3 DEF TxInv
  <2>6. \A d \in Companies : profile[d] <= profile'[d] BY <2>2, <2>3
  <2> QED BY <1>0, <2>1, <2>4, <2>5, <2>6, TxKeepsPut
<1>3. ASSUME NEW w \in Writers, NEW c \in Companies, NEW began \in 1..MaxTime,
             NEW saved \in 0..MaxProfile, StartRecompute(w, c, began, saved),
             saved <= profile[c], UNCHANGED <<normalized, closed, rows, profile>>
      PROVE  PutInv'
  <2>1. /\ tx'[w].phase = "deleting" /\ tx'[w].company = c /\ tx'[w].saved = saved
        /\ tx'[w].victims = Keys(rows[c])
        /\ \A v \in Writers \ {w} : tx'[v] = tx[v]
    BY <1>3, StartRecomputeFacts DEF PutInv
  <2>2. TxInv(w)' BY <1>3, <2>1 DEF TxInv
  <2>3. \A d \in Companies : profile[d] <= profile[d]
    <3>1. \A d \in Companies : profile[d] \in 0..MaxProfile BY DEF PutInv, TypeOK
    <3> QED BY <3>1, ConstantsAssumption
  <2> QED BY <1>0, <1>3, <2>1, <2>2, <2>3, TxKeepsPut
<1>4. ASSUME NEW h \in Hooks, HookRecompute(h) PROVE PutInv'
  <2>1. h \in Writers /\ tx[h] \in Tx BY DEF PutInv, TypeOK, Writers
  <2>2. tx[h].company \in Companies /\ tx[h].began \in 1..MaxTime /\ tx[h].saved \in 0..MaxProfile
    BY <2>1 DEF Tx
  <2>3. tx[h].saved <= profile[tx[h].company]
    BY <1>4, <2>1 DEF HookRecompute, PutInv, TxInv
  <2> QED BY <1>3, <1>4, <2>1, <2>2, <2>3 DEF HookRecompute
<1>5. ASSUME NEW r \in Refreshers, NextCompany(r) PROVE PutInv'
  <2>1. r \in Writers /\ cycle[r] \in Cycle BY DEF PutInv, TypeOK, Writers
  <2>2. cycle[r].left \subseteq Companies /\ cycle[r].began \in 1..MaxTime BY <2>1 DEF Cycle
  <2>3. Least(cycle[r].left) \in Companies
    <3>1. cycle[r].left \in SUBSET Nat BY <2>2, ConstantsAssumption
    <3> QED BY <1>5, <2>2, <3>1, LeastFacts DEF NextCompany
  <2>4. now \in 1..MaxTime /\ 0 \in 0..MaxProfile BY ConstantsAssumption DEF PutInv, TypeOK
  <2>5. 0 <= profile[Least(cycle[r].left)]
    <3>1. profile[Least(cycle[r].left)] \in 0..MaxProfile BY <2>3 DEF PutInv, TypeOK
    <3> QED BY <3>1
  <2> DEFINE c == Least(cycle[r].left)
             began == IF cycle[r].mode = "full" \/ cycle[r].left = Companies
                      THEN cycle[r].began ELSE now
             S == {b \in Bids : normalized[b] > cycle[r].since}
  <2>6. /\ StartRecompute(r, c, began, 0) \/ StartUpsert(r, c, began, cycle[r].since)
        /\ UNCHANGED <<normalized, closed, rows, profile>>
    BY <1>5 DEF NextCompany
  <2>7. began \in 1..MaxTime BY <2>2, <2>4
  <2> HIDE DEF began, c
  <2>8. c \in Companies /\ 0 <= profile[c] BY <2>3, <2>5 DEF c
  <2>9. CASE StartRecompute(r, c, began, 0)
    BY <1>3, <2>1, <2>4, <2>6, <2>7, <2>8, <2>9
  <2>10. CASE StartUpsert(r, c, began, cycle[r].since)
    <3>0. TypeOK BY DEF PutInv
    <3>1. /\ tx'[r].phase = "upserting" /\ tx'[r].company = c /\ tx'[r].saved = 0
          /\ tx'[r].result = Compute(c, {b \in Bids : normalized[b] > cycle[r].since}, began)
          /\ \A v \in Writers \ {r} : tx'[v] = tx[v]
      BY <2>1, <2>7, <2>8, <2>10, <3>0, StartUpsertFacts
    <3>2. S \in SUBSET Bids OBVIOUS
    <3>3. tx'[r].result = Compute(c, S, began) BY <3>1
    <3> HIDE DEF S
    <3> QED BY <1>0, <2>1, <2>6, <2>7, <2>8, <3>1, <3>2, <3>3, ComputeKeepsPut
  <2> QED BY <2>6, <2>9, <2>10
<1>6. ASSUME NEW r \in Refreshers, Restart(r) PROVE PutInv'
  <2>1. \A w \in Writers : tx'[w] = IF w \in Hooks \cup {r} THEN Idle ELSE tx[w]
    BY <1>6 DEF Restart
  <2>2. UNCHANGED <<normalized, closed, rows, profile>> BY <1>6 DEF Restart
  <2>3. ASSUME NEW w \in Writers PROVE TxInv(w)'
    BY <2>1, <2>2, IdleFacts DEF PutInv, TxInv
  <2>4. ASSUME NEW w \in Writers PROVE LateInv(w)'
    BY <2>1, <2>2, IdleFacts DEF PutInv, LateInv
  <2>5. RowsInv' /\ LockInv' BY <2>1, <2>2, IdleFacts DEF PutInv, RowsInv, LockInv
  <2> QED BY <1>0, <2>3, <2>4, <2>5 DEF PutInv
<1>7. ASSUME NEW b \in Bids, NEW at \in 1..MaxTime, Normalize(b, at) PROVE PutInv'
  <2>1. \A a \in Bids : normalized[a] > 0 => normalized'[a] > 0
    BY <1>7 DEF Normalize, PutInv, TypeOK
  <2>2. UNCHANGED <<closed, rows, profile, tx>> BY <1>7 DEF Normalize
  <2>3. RowsInv' /\ LockInv' BY <2>1, <2>2 DEF PutInv, RowsInv, LockInv
  <2>4. ASSUME NEW w \in Writers PROVE TxInv(w)' /\ LateInv(w)'
    BY <2>1, <2>2 DEF PutInv, TxInv, LateInv
  <2> QED BY <1>0, <2>3, <2>4 DEF PutInv
<1>8. ASSUME NEW b \in Bids, Close(b) PROVE PutInv'
  <2>1. closed \subseteq closed' /\ UNCHANGED <<normalized, rows, profile, tx>>
    BY <1>8 DEF Close
  <2>2. RowsInv' /\ LockInv' BY <2>1 DEF PutInv, RowsInv, LockInv
  <2>3. ASSUME NEW w \in Writers PROVE TxInv(w)' /\ LateInv(w)'
    BY <2>1 DEF PutInv, TxInv, LateInv
  <2> QED BY <1>0, <2>2, <2>3 DEF PutInv
<1>9. ASSUME UNCHANGED <<normalized, closed, rows, profile, tx>> PROVE PutInv'
  <2>1. RowsInv' /\ LockInv' BY <1>9 DEF PutInv, RowsInv, LockInv
  <2>2. ASSUME NEW w \in Writers PROVE TxInv(w)' /\ LateInv(w)'
    BY <1>9 DEF PutInv, TxInv, LateInv
  <2> QED BY <1>0, <2>1, <2>2 DEF PutInv
<1>10. ASSUME NEW r \in Refreshers, BeginCycle(r) \/ EndCycle(r) PROVE PutInv'
  BY <1>9, <1>10 DEF BeginCycle, EndCycle
<1>11. CASE Tick \/ NightFalls \/ DayBreaks \/ UNCHANGED vars
  BY <1>9, <1>11 DEF Tick, NightFalls, DayBreaks, vars
<1> QED BY <1>1, <1>2, <1>4, <1>5, <1>6, <1>7, <1>8, <1>10, <1>11 DEF Next, CycleStep

(* Readers see a row for an open bid as long as it is open: what a          *)
(* recompute deletes it puts back, in one commit.                            *)
THEOREM NoGapCorrect == Spec => NoGap
<1> DEFINE Kept == \A c \in Companies : Keys(rows[c]) \ closed' \subseteq Keys(rows'[c])
<1>1. ASSUME PutInv, [Next]_vars PROVE Kept
  <2>1. ASSUME NEW w \in Writers, CommitRecompute(w) \/ CommitUpsert(w) PROVE Kept
    <3>1. closed' = closed BY <2>1 DEF CommitRecompute, CommitUpsert
    <3>2. ASSUME NEW b \in Keys(rows[tx[w].company]) \ closed
          PROVE  b \in Keys(rows'[tx[w].company])
      <4>1. b \in Bids BY DEF Keys
      <4>2. tx[w].phase = "computed" /\ b \in tx[w].victims => tx[w].result[b] # NoRow
        BY <1>1, <3>2 DEF PutInv, TxInv, Keys
      <4>3. rows[tx[w].company][b] # NoRow BY <3>2 DEF Keys
      <4>4. rows'[tx[w].company][b] # NoRow
        BY <1>1, <2>1, <4>1, <4>2, <4>3, CommitRows DEF PutInv
      <4> QED BY <4>1, <4>4 DEF Keys
    <3>3. \A c \in Companies \ {tx[w].company} : rows'[c] = rows[c]
      BY <1>1, <2>1, CommitRows DEF PutInv
    <3> QED BY <3>1, <3>2, <3>3 DEF Keys
  <2>2. CASE UNCHANGED rows BY <2>2
  <2> QED
    BY <1>1, <2>1, <2>2 DEF Next, TxStep, ComputeRows, ConflictRecompute, FailTx, SaveProfile,
       HookRecompute, BeginCycle, CycleStep, NextCompany, EndCycle, Restart, Normalize, Close, Tick,
       NightFalls, DayBreaks, vars
<1> QED BY <1>1, PutInit, PutStep, PTL DEF Spec, NoGap

(* The recompute of a PUT, when it commits, leaves every open bid with a    *)
(* judgement by the profile it saved or by a later one.                      *)
THEOREM PutCorrect == Spec => PutReflected
<1> DEFINE Reflected == \A w \in Writers : CommitRecompute(w) =>
                           LET c == tx[w].company
                           IN  \A b \in Keys(rows'[c]) \ closed :
                                  rows'[c][b].profile >= tx[w].saved
<1>1. ASSUME PutInv PROVE Reflected
  <2>1. SUFFICES ASSUME NEW w \in Writers, CommitRecompute(w),
                        NEW b \in Keys(rows'[tx[w].company]) \ closed
                 PROVE  rows'[tx[w].company][b].profile >= tx[w].saved
    OBVIOUS
  <2>2. tx[w].phase = "computed" /\ b \in Bids /\ rows'[tx[w].company][b] # NoRow
    BY <2>1 DEF CommitRecompute, Keys
  <2>3. CASE tx[w].result[b] # NoRow
    BY <1>1, <2>1, <2>2, <2>3, CommitRows DEF PutInv, TxInv
  <2>4. CASE tx[w].result[b] = NoRow
    <3>1. rows'[tx[w].company][b] = rows[tx[w].company][b]
      BY <1>1, <2>1, <2>2, <2>4, CommitRows DEF PutInv
    <3> QED BY <1>1, <2>1, <2>2, <2>4, <3>1 DEF PutInv, LateInv
  <2> QED BY <2>3, <2>4
<1> QED BY <1>1, PutInit, PutStep, PTL DEF Spec, PutReflected

-----------------------------------------------------------------------------
(* Cycles.                                                                   *)

OneRefresher == \A r, s \in Refreshers : r = s

(* A refresher's transaction is for a company its cycle has still to do;    *)
(* only refreshers upsert.                                                   *)
TurnsInv ==
    /\ \A h \in Hooks : tx[h].phase # "upserting"
    /\ \A r \in Refreshers : tx[r].phase # "idle" => tx[r].company \in cycle[r].left
    /\ \A r \in Refreshers : cycle[r].mode = "sleep" => cycle[r].left = {}

(* The bids a cycle answers for, and a row that is good enough.              *)
Due(r) == {b \in Bids \ closed : cycle[r].seen[b] > cycle[r].since}
Fresh(row, r, b) == row # NoRow /\ row.norm >= cycle[r].seen[b]

(* While a cycle runs: what its transaction is about to write is fresh, and *)
(* so is the row of each company it has done; a recompute beside it that    *)
(* will replace this row, instead of failing on it, has a fresh one.        *)
CycleInv(r) ==
    cycle[r].mode # "sleep" =>
       /\ \A b \in Bids : cycle[r].seen[b] <= normalized[b]
       /\ tx[r].phase \in {"computed", "upserting"} =>
             \A b \in Due(r) : Fresh(tx[r].result[b], r, b)
       /\ \A c \in Companies \ cycle[r].left, b \in Due(r) :
             /\ Fresh(rows[c][b], r, b)
             /\ \A w \in Writers :
                   tx[w].phase = "computed" /\ tx[w].company = c /\ b \in tx[w].victims
                   => Fresh(tx[w].result[b], r, b)

CoverInv == PutInv /\ TurnsInv /\ \A r \in Refreshers : CycleInv(r)

LEMMA CoverInit == Init => CoverInv
<1> SUFFICES ASSUME Init PROVE CoverInv OBVIOUS
<1>1. \A w \in Writers : tx[w].phase = "idle" BY IdleFacts DEF Init
<1>2. \A r \in Refreshers : cycle[r].mode = "sleep" /\ cycle[r].left = {}
  BY SleepType DEF Init
<1>3. TurnsInv BY <1>1, <1>2 DEF TurnsInv, Writers
<1>4. \A r \in Refreshers : CycleInv(r) BY <1>2 DEF CycleInv
<1> QED BY <1>3, <1>4, PutInit DEF CoverInv

(* What happens to one transaction, as far as its cycle is concerned.       *)
LEMMA TurnsKept ==
    ASSUME TurnsInv,
           \A w \in Writers :
              \/ tx'[w].phase = "idle"
              \/ tx'[w].phase = tx[w].phase /\ tx'[w].company = tx[w].company
              \/ /\ tx[w].phase # "idle" /\ tx'[w].company = tx[w].company
                 /\ tx'[w].phase # "upserting"
              \/ w \in Hooks /\ tx'[w].phase # "upserting",
           \A r \in Refreshers :
              \/ cycle'[r].mode = cycle[r].mode /\ cycle'[r].left = cycle[r].left
              \/ /\ tx'[r].phase = "idle"
                 /\ \/ cycle'[r].mode # "sleep"
                    \/ cycle'[r].left = {}
    PROVE  TurnsInv'
<1>1. ASSUME NEW h \in Hooks PROVE tx'[h].phase # "upserting"
  <2>1. h \in Writers BY DEF Writers
  <2> QED BY <2>1 DEF TurnsInv
<1>2. ASSUME NEW r \in Refreshers, tx'[r].phase # "idle"
      PROVE  tx'[r].company \in cycle'[r].left
  <2>1. r \in Writers /\ r \notin Hooks BY ConstantsAssumption DEF Writers
  <2> QED BY <1>2, <2>1 DEF TurnsInv
<1>3. ASSUME NEW r \in Refreshers, cycle'[r].mode = "sleep" PROVE cycle'[r].left = {}
  BY <1>3 DEF TurnsInv
<1> QED BY <1>1, <1>2, <1>3 DEF TurnsInv

(* A refresher's next transaction is for the least company left.            *)
LEMMA NextCompanyFacts ==
    ASSUME TypeOK, NEW r \in Refreshers, NextCompany(r)
    PROVE  /\ r \in Writers
           /\ tx[r].phase = "idle" /\ tx'[r].phase # "idle"
           /\ tx'[r].company \in cycle[r].left
           /\ \A v \in Writers \ {r} : tx'[v] = tx[v]
           /\ \/ tx'[r].phase = "deleting"
              \/ /\ tx'[r].phase = "upserting"
                 /\ \E began \in 1..MaxTime :
                       tx'[r].result = Compute(tx'[r].company,
                                               {b \in Bids : normalized[b] > cycle[r].since}, began)
           /\ UNCHANGED <<normalized, closed, rows, cycle>>
<1> DEFINE y == cycle[r]
           c == Least(y.left)
           began == IF y.mode = "full" \/ y.left = Companies THEN y.began ELSE now
<1>1. r \in Writers /\ y \in Cycle BY DEF TypeOK, Writers
<1>2. y.left \subseteq Companies /\ y.began \in 1..MaxTime BY <1>1 DEF Cycle
<1>3. c \in y.left /\ c \in Companies
  <2>1. y.left \in SUBSET Nat BY <1>2, ConstantsAssumption
  <2> QED BY <1>2, <2>1, LeastFacts DEF NextCompany
<1>4. began \in 1..MaxTime /\ 0 \in 0..MaxProfile BY <1>2, ConstantsAssumption DEF TypeOK
<1>5. /\ IF y.mode = "full" THEN StartRecompute(r, c, began, 0)
                             ELSE StartUpsert(r, c, began, y.since)
      /\ tx[r].phase = "idle" /\ UNCHANGED <<normalized, closed, rows, cycle>>
  BY DEF NextCompany
<1> HIDE DEF c, began
<1>6. CASE StartRecompute(r, c, began, 0)
  <2>1. /\ tx'[r].phase = "deleting" /\ tx'[r].company = c
        /\ \A v \in Writers \ {r} : tx'[v] = tx[v]
    BY <1>1, <1>3, <1>4, <1>6, StartRecomputeFacts
  <2> QED BY <1>1, <1>3, <1>5, <2>1
<1>7. CASE StartUpsert(r, c, began, y.since)
  <2>1. /\ tx'[r].phase = "upserting" /\ tx'[r].company = c
        /\ tx'[r].result = Compute(c, {b \in Bids : normalized[b] > y.since}, began)
        /\ \A v \in Writers \ {r} : tx'[v] = tx[v]
    BY <1>1, <1>3, <1>4, <1>7, StartUpsertFacts
  <2> QED BY <1>1, <1>3, <1>4, <1>5, <2>1
<1> QED BY <1>5, <1>6, <1>7

(* What a commit, or the end of a transaction, does to the others'.         *)
LEMMA EndsTx ==
    ASSUME TypeOK, NEW w \in Writers,
           CommitRecompute(w) \/ ConflictRecompute(w) \/ CommitUpsert(w) \/ FailTx(w)
    PROVE  /\ tx'[w].phase = "idle"
           /\ \A v \in Writers \ {w} :
                 /\ tx'[v].phase = tx[v].phase /\ tx'[v].company = tx[v].company
                 /\ tx'[v].result = tx[v].result
                 /\ tx[v].phase = "computed" => tx'[v].victims = tx[v].victims
           /\ UNCHANGED <<normalized, closed>>
<1>1. CASE CommitRecompute(w)
  BY <1>1, CommitRecomputeFacts, IdleFacts DEF CommitRecompute
<1>2. CASE ConflictRecompute(w) \/ CommitUpsert(w) \/ FailTx(w)
  <2>1. SetTx(w, Idle) /\ UNCHANGED <<normalized, closed>>
    BY <1>2 DEF ConflictRecompute, CommitUpsert, FailTx
  <2>2. tx'[w] = Idle /\ \A v \in Writers \ {w} : tx'[v] = tx[v]
    BY <2>1, SetTxFacts, IdleFacts
  <2> QED BY <2>1, <2>2, IdleFacts
<1> QED BY <1>1, <1>2

LEMMA TurnsStep == TypeOK /\ TurnsInv /\ [Next]_vars => TurnsInv'
<1> SUFFICES ASSUME TypeOK, TurnsInv, [Next]_vars PROVE TurnsInv' OBVIOUS
<1>0. Hooks \cap Refreshers = {} BY ConstantsAssumption
<1>1. ASSUME NEW w \in Writers, ComputeRows(w) PROVE TurnsInv'
  <2>1. /\ tx[w].phase # "idle" /\ tx'[w].company = tx[w].company
        /\ tx'[w].phase # "upserting" /\ cycle' = cycle
        /\ \A v \in Writers \ {w} : tx'[v] = tx[v]
    BY <1>1, ComputeRowsFacts DEF ComputeRows
  <2> QED BY <2>1, TurnsKept
<1>2. ASSUME NEW w \in Writers, CommitRecompute(w) \/ CommitUpsert(w) PROVE TurnsInv'
  <2>1. \A r \in Refreshers :
           /\ cycle'[r].mode = cycle[r].mode
           /\ cycle'[r].left = IF r = w THEN cycle[r].left \ {tx[w].company} ELSE cycle[r].left
    BY <1>2, AdvanceFacts DEF CommitRecompute, CommitUpsert
  <2>2. /\ tx'[w].phase = "idle"
        /\ \A v \in Writers \ {w} : tx'[v].phase = tx[v].phase /\ tx'[v].company = tx[v].company
    BY <1>2, EndsTx
  <2>3. \A r \in Refreshers : cycle[r].mode = "sleep" => cycle[r].left = {} BY DEF TurnsInv
  <2> QED BY <2>1, <2>2, <2>3, TurnsKept
<1>3. ASSUME NEW w \in Writers, ConflictRecompute(w) \/ FailTx(w) PROVE TurnsInv'
  <2>1. \A r \in Refreshers : IF r = w THEN cycle'[r].left = {} ELSE cycle'[r] = cycle[r]
    BY <1>3, AbandonFacts, SleepType DEF ConflictRecompute, FailTx
  <2>2. /\ tx'[w].phase = "idle"
        /\ \A v \in Writers \ {w} : tx'[v].phase = tx[v].phase /\ tx'[v].company = tx[v].company
    BY <1>3, EndsTx
  <2> QED BY <2>1, <2>2, TurnsKept
<1>4. ASSUME NEW h \in Hooks, NEW c \in Companies, SaveProfile(h, c) PROVE TurnsInv'
  <2>1. h \in Writers /\ h \in Hooks BY <1>0 DEF Writers
  <2>2. /\ tx'[h].phase = "saved" /\ cycle' = cycle
        /\ \A v \in Writers \ {h} : tx'[v] = tx[v]
    BY <1>4, SaveProfileFacts DEF SaveProfile
  <2> QED BY <2>1, <2>2, TurnsKept
<1>5. ASSUME NEW h \in Hooks, HookRecompute(h) PROVE TurnsInv'
  <2>1. h \in Writers /\ h \in Hooks /\ tx[h] \in Tx BY <1>0 DEF Writers, TypeOK
  <2>2. tx[h].company \in Companies /\ tx[h].began \in 1..MaxTime /\ tx[h].saved \in 0..MaxProfile
    BY <2>1 DEF Tx
  <2>3. /\ StartRecompute(h, tx[h].company, tx[h].began, tx[h].saved)
        /\ cycle' = cycle
    BY <1>5 DEF HookRecompute
  <2>4. tx'[h].phase = "deleting" /\ \A v \in Writers \ {h} : tx'[v] = tx[v]
    BY <2>1, <2>2, <2>3, StartRecomputeFacts
  <2> QED BY <2>1, <2>3, <2>4, TurnsKept
<1>6. ASSUME NEW r \in Refreshers, BeginCycle(r) PROVE TurnsInv'
  <2>1. tx' = tx /\ \A s \in Refreshers \ {r} : cycle'[s] = cycle[s]
    BY <1>6 DEF BeginCycle, TypeOK
  <2>2. tx[r].phase = "idle" BY <1>6 DEF BeginCycle, TurnsInv
  <2>3. cycle'[r].mode # "sleep" BY <1>6 DEF BeginCycle, TypeOK
  <2> QED BY <2>1, <2>2, <2>3, TurnsKept
<1>7. ASSUME NEW r \in Refreshers, NextCompany(r) PROVE TurnsInv'
  <2>1. /\ r \in Writers /\ tx'[r].company \in cycle[r].left /\ cycle' = cycle
        /\ \A v \in Writers \ {r} : tx'[v] = tx[v]
    BY <1>7, NextCompanyFacts
  <2>2. ASSUME NEW h \in Hooks PROVE tx'[h].phase # "upserting"
    <3>1. h \in Writers \ {r} BY <1>0 DEF Writers
    <3> QED BY <2>1, <3>1 DEF TurnsInv
  <2>3. ASSUME NEW s \in Refreshers, tx'[s].phase # "idle"
        PROVE  tx'[s].company \in cycle'[s].left
    <3>1. CASE s = r BY <2>1, <3>1
    <3>2. CASE s # r
      <4>1. s \in Writers \ {r} BY <3>2 DEF Writers
      <4> QED BY <2>1, <2>3, <4>1 DEF TurnsInv
    <3> QED BY <3>1, <3>2
  <2> QED BY <2>1, <2>2, <2>3 DEF TurnsInv
<1>8. ASSUME NEW r \in Refreshers, EndCycle(r) PROVE TurnsInv'
  <2>1. tx' = tx /\ \A s \in Refreshers \ {r} : cycle'[s] = cycle[s]
    BY <1>8 DEF EndCycle, TypeOK
  <2>2. tx[r].phase = "idle" BY <1>8 DEF EndCycle, TurnsInv
  <2>3. cycle'[r].left = {} BY <1>8, SleepType DEF EndCycle, TypeOK
  <2> QED BY <2>1, <2>2, <2>3, TurnsKept
<1>9. ASSUME NEW r \in Refreshers, Restart(r) PROVE TurnsInv'
  <2>1. \A w \in Writers : tx'[w] = IF w \in Hooks \cup {r} THEN Idle ELSE tx[w]
    BY <1>9 DEF Restart
  <2>2. cycle'[r].left = {} /\ \A s \in Refreshers \ {r} : cycle'[s] = cycle[s]
    BY <1>9, SleepType DEF Restart, TypeOK
  <2>3. r \in Writers BY DEF Writers
  <2> QED BY <2>1, <2>2, <2>3, IdleFacts, TurnsKept
<1>10. CASE NightFalls
  <2>1. tx' = tx BY <1>10 DEF NightFalls
  <2>2. ASSUME NEW r \in Refreshers
        PROVE  cycle'[r].mode = cycle[r].mode /\ cycle'[r].left = cycle[r].left
    <3>1. cycle[r] \in Cycle BY DEF TypeOK
    <3>2. cycle'[r] = [cycle[r] EXCEPT !.nightly = FALSE] BY <1>10 DEF NightFalls
    <3> QED BY <3>1, <3>2 DEF Cycle
  <2> QED BY <2>1, <2>2, TurnsKept
<1>11. ASSUME UNCHANGED <<tx, cycle>> PROVE TurnsInv'
  BY <1>11 DEF TurnsInv
<1> QED
  BY <1>1, <1>2, <1>3, <1>4, <1>5, <1>6, <1>7, <1>8, <1>9, <1>10, <1>11
     DEF Next, TxStep, CycleStep, Normalize, Close, Tick, DayBreaks, vars

(* A step that ends a cycle, or leaves it with what it answers for, and     *)
(* begins no result.                                                         *)
LEMMA CycleKept ==
    ASSUME CoverInv, NEW r \in Refreshers,
           \/ cycle'[r].mode = "sleep"
           \/ /\ cycle'[r].mode = cycle[r].mode /\ cycle'[r].left = cycle[r].left
              /\ cycle'[r].since = cycle[r].since /\ cycle'[r].seen = cycle[r].seen,
           rows' = rows, closed \subseteq closed',
           \A b \in Bids : normalized[b] <= normalized'[b],
           \A b \in Bids : normalized[b] \in Nat /\ normalized'[b] \in Nat
                            /\ cycle[r].seen[b] \in Nat,
           \A w \in Writers : \/ tx'[w].phase \notin {"computed", "upserting"}
                              \/ /\ tx'[w].phase = tx[w].phase /\ tx'[w].company = tx[w].company
                                 /\ tx'[w].victims = tx[w].victims
                                 /\ tx'[w].result = tx[w].result
    PROVE  CycleInv(r)'
<1> SUFFICES ASSUME cycle'[r].mode # "sleep" PROVE CycleInv(r)' BY DEF CycleInv
<1>1. CycleInv(r) /\ r \in Writers BY DEF CoverInv, Writers
<1>2. Due(r)' \subseteq Due(r) BY DEF Due
<1>4. \A b \in Bids : cycle'[r].seen[b] <= normalized'[b] BY <1>1 DEF CycleInv
<1>5. ASSUME tx'[r].phase \in {"computed", "upserting"}, NEW b \in Due(r)'
      PROVE  Fresh(tx[r].result[b], r, b)'
  BY <1>1, <1>2, <1>5 DEF CycleInv, Fresh
<1>6. ASSUME NEW c \in Companies \ cycle'[r].left, NEW b \in Due(r)'
      PROVE  Fresh(rows[c][b], r, b)'
  BY <1>1, <1>2 DEF CycleInv, Fresh
<1>7. ASSUME NEW c \in Companies \ cycle'[r].left, NEW b \in Due(r)', NEW w \in Writers,
             tx'[w].phase = "computed", tx'[w].company = c, b \in tx'[w].victims
      PROVE  Fresh(tx[w].result[b], r, b)'
  BY <1>1, <1>2, <1>7 DEF CycleInv, Fresh
<1> QED BY <1>4, <1>5, <1>6, <1>7 DEF CycleInv

(* A commit: the cycle's own writes the fresh result of its company, and a  *)
(* hook's cannot put an older row over the one of a company that is done.   *)
LEMMA CommitKeepsCycle ==
    ASSUME CoverInv, OneRefresher, NEW w \in Writers, NEW r \in Refreshers,
           CommitRecompute(w) \/ CommitUpsert(w)
    PROVE  CycleInv(r)'
<1> DEFINE t == tx[w]
           k == t.company
<1>1. TypeOK /\ LockInv /\ TurnsInv /\ CycleInv(r) /\ r \in Writers
  BY DEF CoverInv, PutInv, Writers
<1>2. /\ cycle'[r].mode = cycle[r].mode /\ cycle'[r].since = cycle[r].since
      /\ cycle'[r].seen = cycle[r].seen
      /\ cycle'[r].left = IF r = w THEN cycle[r].left \ {k} ELSE cycle[r].left
  BY <1>1, AdvanceFacts DEF CommitRecompute, CommitUpsert
<1>3. /\ tx'[w].phase = "idle"
      /\ \A v \in Writers \ {w} :
            /\ tx'[v].phase = tx[v].phase /\ tx'[v].company = tx[v].company
            /\ tx'[v].result = tx[v].result
            /\ tx[v].phase = "computed" => tx'[v].victims = tx[v].victims
      /\ UNCHANGED <<normalized, closed>>
  BY <1>1, EndsTx
<1>4. /\ k \in Companies
      /\ \A c \in Companies \ {k} : rows'[c] = rows[c]
      /\ \A b \in Bids : rows'[k][b] =
            IF t.result[b] # NoRow THEN t.result[b]
            ELSE IF t.phase = "computed" /\ b \in t.victims THEN NoRow ELSE rows[k][b]
  BY <1>1, CommitRows
<1>5. /\ t.phase \in {"computed", "upserting"}
      /\ t.phase = "computed" => Keys(t.result) \cap (Keys(rows[k]) \ t.victims) = {}
      /\ t.phase = "upserting" => Keys(t.result) \cap Locked(w, k) = {}
  BY DEF CommitRecompute, CommitUpsert, DuplicateKey
<1>6. t.phase = "upserting" => w = r
  <2>1. t.phase = "upserting" => w \notin Hooks BY <1>1 DEF TurnsInv
  <2> QED BY <2>1 DEF OneRefresher, Writers
<1>7. Due(r)' = Due(r) /\ Due(r) \subseteq Bids BY <1>2, <1>3 DEF Due
<1> SUFFICES ASSUME cycle[r].mode # "sleep" PROVE CycleInv(r)' BY <1>2 DEF CycleInv
<1>8. \A b \in Bids : cycle'[r].seen[b] <= normalized'[b] BY <1>1, <1>2, <1>3 DEF CycleInv
<1>9. ASSUME tx'[r].phase \in {"computed", "upserting"}, NEW b \in Due(r)'
      PROVE  Fresh(tx[r].result[b], r, b)'
  BY <1>1, <1>2, <1>3, <1>7, <1>9 DEF CycleInv, Fresh
<1>10. ASSUME NEW c \in Companies \ cycle'[r].left, NEW b \in Due(r)
       PROVE  /\ Fresh(rows'[c][b], r, b)
              /\ \A v \in Writers \ {w} :
                    tx[v].phase = "computed" /\ tx[v].company = c /\ b \in tx[v].victims
                    => Fresh(tx[v].result[b], r, b)
  <2>1. CASE c # k BY <1>1, <1>2, <1>4, <1>10, <2>1 DEF CycleInv
  <2>2. CASE c = k /\ w # r
    <3>1. c \in Companies \ cycle[r].left BY <1>2, <1>10, <2>2
    <3>2. /\ Fresh(rows[c][b], r, b)
          /\ \A v \in Writers :
                tx[v].phase = "computed" /\ tx[v].company = c /\ b \in tx[v].victims
                => Fresh(tx[v].result[b], r, b)
      BY <1>1, <3>1 DEF CycleInv
    <3>3. t.phase = "computed" BY <1>5, <1>6, <2>2
    <3>4. b \in Keys(rows[k]) BY <1>7, <2>2, <3>2 DEF Fresh, Keys
    <3>5. CASE b \in t.victims
      <4>1. Fresh(t.result[b], r, b) BY <2>2, <3>2, <3>3, <3>5
      <4> QED BY <1>4, <1>7, <2>2, <3>2, <4>1 DEF Fresh
    <3>6. CASE b \notin t.victims
      <4>1. t.result[b] = NoRow BY <1>5, <1>7, <3>3, <3>4, <3>6 DEF Keys
      <4> QED BY <1>4, <1>7, <2>2, <3>2, <3>6, <4>1
    <3> QED BY <3>5, <3>6
  <2>3. CASE c = k /\ w = r
    <3>1. Fresh(t.result[b], r, b) BY <1>1, <1>5, <2>3 DEF CycleInv
    <3>2. b \in Keys(t.result) BY <1>7, <3>1 DEF Fresh, Keys
    <3>3. Fresh(rows'[c][b], r, b) BY <1>4, <1>7, <2>3, <3>1 DEF Fresh
    <3>4. ASSUME NEW v \in Writers \ {w}, tx[v].phase = "computed", tx[v].company = c,
                 b \in tx[v].victims
          PROVE  FALSE
      <4>1. CASE t.phase = "upserting"
        <5>1. b \in Locked(w, k) BY <2>3, <3>4 DEF Locked
        <5> QED BY <1>5, <3>2, <4>1, <5>1
      <4>2. CASE t.phase = "computed"
        <5>1. b \notin t.victims BY <1>1, <2>3, <3>4, <4>2 DEF LockInv
        <5>2. b \in Keys(rows[k]) BY <2>3, <3>4 DEF CoverInv, PutInv, TxInv
        <5> QED BY <1>5, <3>2, <4>2, <5>1, <5>2
      <4> QED BY <1>5, <4>1, <4>2
    <3> QED BY <3>3, <3>4
  <2> QED BY <2>1, <2>2, <2>3
<1>11. ASSUME NEW c \in Companies \ cycle'[r].left, NEW b \in Due(r)'
       PROVE  Fresh(rows[c][b], r, b)'
  BY <1>2, <1>7, <1>10 DEF Fresh
<1>12. ASSUME NEW c \in Companies \ cycle'[r].left, NEW b \in Due(r)', NEW v \in Writers,
              tx'[v].phase = "computed", tx'[v].company = c, b \in tx'[v].victims
       PROVE  Fresh(tx[v].result[b], r, b)'
  <2>1. v # w BY <1>3, <1>12
  <2> QED BY <1>2, <1>3, <1>7, <1>10, <1>12, <2>1 DEF Fresh
<1> QED BY <1>2, <1>8, <1>9, <1>11, <1>12 DEF CycleInv

(* A result computed while a cycle runs is fresh: its bids have been        *)
(* normalized at least as late as when the cycle began.                     *)
LEMMA ComputeFresh ==
    ASSUME CoverInv, NEW r \in Refreshers, cycle[r].mode # "sleep",
           NEW c \in Companies, NEW S, NEW began \in 1..MaxTime,
           NEW b \in Due(r) \cap S
    PROVE  Fresh(Compute(c, S, began)[b], r, b)
<1>1. TypeOK /\ CycleInv(r) BY DEF CoverInv, PutInv
<1>2. b \in Bids /\ b \notin closed /\ cycle[r].seen[b] > cycle[r].since BY DEF Due
<1>3. cycle[r].seen[b] \in Nat /\ cycle[r].since \in Nat /\ normalized[b] \in Nat
  <2>1. cycle[r] \in Cycle BY <1>1 DEF TypeOK
  <2>2. /\ cycle[r].seen[b] \in 0..MaxTime /\ cycle[r].since \in 0..MaxTime
        /\ normalized[b] \in 0..MaxTime
    BY <1>1, <1>2, <2>1 DEF Cycle, TypeOK
  <2> QED BY <2>2
<1>4. cycle[r].seen[b] <= normalized[b] BY <1>1, <1>2 DEF CycleInv
<1>5. normalized[b] > 0 BY <1>2, <1>3, <1>4
<1>6. /\ Compute(c, S, began)[b] # NoRow
      /\ Compute(c, S, began)[b].norm = normalized[b]
  BY <1>1, <1>2, <1>5, ComputeFacts
<1> QED BY <1>3, <1>4, <1>6 DEF Fresh

LEMMA ComputeKeepsCycle ==
    ASSUME CoverInv, NEW w \in Writers, NEW r \in Refreshers,
           UNCHANGED <<normalized, closed, rows, cycle>>,
           \A v \in Writers \ {w} : tx'[v] = tx[v],
           cycle[r].mode # "sleep" => \A b \in Due(r) : Fresh(tx'[w].result[b], r, b)
    PROVE  CycleInv(r)'
<1> SUFFICES ASSUME cycle[r].mode # "sleep" PROVE CycleInv(r)' BY DEF CycleInv
<1>1. CycleInv(r) /\ r \in Writers BY DEF CoverInv, Writers
<1>2. Due(r)' = Due(r) BY DEF Due
<1>3. \A b \in Bids : cycle'[r].seen[b] <= normalized'[b] BY <1>1 DEF CycleInv
<1>4. ASSUME tx'[r].phase \in {"computed", "upserting"}, NEW b \in Due(r)'
      PROVE  Fresh(tx[r].result[b], r, b)'
  BY <1>1, <1>2, <1>4 DEF CycleInv, Fresh
<1>5. ASSUME NEW c \in Companies \ cycle'[r].left, NEW b \in Due(r)'
      PROVE  Fresh(rows[c][b], r, b)'
  BY <1>1, <1>2 DEF CycleInv, Fresh
<1>6. ASSUME NEW c \in Companies \ cycle'[r].left, NEW b \in Due(r)', NEW v \in Writers,
             tx'[v].phase = "computed", tx'[v].company = c, b \in tx'[v].victims
      PROVE  Fresh(tx[v].result[b], r, b)'
  BY <1>1, <1>2, <1>6 DEF CycleInv, Fresh
<1> QED BY <1>3, <1>4, <1>5, <1>6 DEF CycleInv

LEMMA CycleStepKept ==
    ASSUME OneRefresher, CoverInv, [Next]_vars, NEW r \in Refreshers
    PROVE  CycleInv(r)'
<1>1. TypeOK /\ TurnsInv /\ CycleInv(r) /\ r \in Writers BY DEF CoverInv, PutInv, Writers
<1>2. \A b \in Bids : normalized[b] \in Nat /\ cycle[r].seen[b] \in Nat
  <2>1. cycle[r] \in Cycle BY <1>1 DEF TypeOK
  <2>2. \A b \in Bids : normalized[b] \in 0..MaxTime /\ cycle[r].seen[b] \in 0..MaxTime
    BY <1>1, <2>1 DEF Cycle, TypeOK
  <2> QED BY <2>2
<1> DEFINE Same == /\ cycle'[r].mode = cycle[r].mode /\ cycle'[r].left = cycle[r].left
                   /\ cycle'[r].since = cycle[r].since /\ cycle'[r].seen = cycle[r].seen
           SameTx(w) == /\ tx'[w].phase = tx[w].phase /\ tx'[w].company = tx[w].company
                        /\ tx'[w].victims = tx[w].victims /\ tx'[w].result = tx[w].result
(* A step that touches neither rows nor bids, begins no result, and ends     *)
(* the cycle or leaves it alone.                                             *)
<1>3. ASSUME cycle'[r].mode = "sleep" \/ Same, rows' = rows, UNCHANGED <<normalized, closed>>,
             \A w \in Writers : tx'[w].phase \notin {"computed", "upserting"} \/ SameTx(w)
      PROVE  CycleInv(r)'
  BY <1>2, <1>3, CycleKept
<1>4. ASSUME NEW w \in Writers, ComputeRows(w) PROVE CycleInv(r)'
  <2>1. /\ tx'[w].result = Compute(tx[w].company, Bids, tx[w].began)
        /\ \A v \in Writers \ {w} : tx'[v] = tx[v]
    BY <1>1, <1>4, ComputeRowsFacts
  <2>2. tx[w].company \in Companies /\ tx[w].began \in 1..MaxTime
    <3>1. tx[w] \in Tx BY <1>1 DEF TypeOK
    <3> QED BY <3>1 DEF Tx
  <2>3. ASSUME cycle[r].mode # "sleep", NEW b \in Due(r) PROVE Fresh(tx'[w].result[b], r, b)
    <3>1. b \in Due(r) \cap Bids BY DEF Due
    <3> QED BY <2>1, <2>2, <2>3, <3>1, ComputeFresh
  <2>4. UNCHANGED <<normalized, closed, rows, cycle>> BY <1>4 DEF ComputeRows
  <2> QED BY <2>1, <2>3, <2>4, ComputeKeepsCycle
<1>5. ASSUME NEW w \in Writers, ConflictRecompute(w) \/ FailTx(w) PROVE CycleInv(r)'
  <2>1. cycle'[r] = IF r = w THEN Sleep ELSE cycle[r]
    BY <1>1, <1>5, AbandonFacts DEF ConflictRecompute, FailTx
  <2>2. SetTx(w, Idle) /\ UNCHANGED <<rows, normalized, closed>>
    BY <1>5 DEF ConflictRecompute, FailTx
  <2>3. tx'[w] = Idle /\ \A v \in Writers \ {w} : tx'[v] = tx[v]
    BY <1>1, <2>2, SetTxFacts, IdleFacts
  <2> QED BY <1>3, <2>1, <2>2, <2>3, IdleFacts, SleepType
<1>6. ASSUME NEW h \in Hooks, NEW c \in Companies, SaveProfile(h, c) PROVE CycleInv(r)'
  BY <1>1, <1>3, <1>6, SaveProfileFacts DEF SaveProfile
<1>7. ASSUME NEW h \in Hooks, HookRecompute(h) PROVE CycleInv(r)'
  <2>1. h \in Writers /\ tx[h] \in Tx BY <1>1 DEF Writers, TypeOK
  <2>2. tx[h].company \in Companies /\ tx[h].began \in 1..MaxTime /\ tx[h].saved \in 0..MaxProfile
    BY <2>1 DEF Tx
  <2>3. /\ StartRecompute(h, tx[h].company, tx[h].began, tx[h].saved)
        /\ UNCHANGED <<rows, cycle, normalized, closed>>
    BY <1>7 DEF HookRecompute
  <2>4. tx'[h].phase = "deleting" /\ \A v \in Writers \ {h} : tx'[v] = tx[v]
    BY <1>1, <2>1, <2>2, <2>3, StartRecomputeFacts
  <2> QED BY <1>3, <2>1, <2>3, <2>4
<1>8. ASSUME NEW s \in Refreshers, BeginCycle(s) PROVE CycleInv(r)'
  <2>1. UNCHANGED <<tx, rows, normalized, closed>> BY <1>8 DEF BeginCycle
  <2>2. CASE s # r
    <3>1. cycle'[r] = cycle[r] BY <1>1, <1>8, <2>2 DEF BeginCycle, TypeOK
    <3> QED BY <1>3, <2>1, <3>1
  <2>3. CASE s = r
    <3>1. cycle'[r].left = Companies /\ cycle'[r].seen = normalized
      BY <1>1, <1>8, <2>3 DEF BeginCycle, TypeOK
    <3>2. tx[r].phase = "idle" BY <1>1, <1>8, <2>3 DEF BeginCycle, TurnsInv
    <3>3. \A b \in Bids : cycle'[r].seen[b] <= normalized'[b] BY <1>2, <2>1, <3>1
    <3> QED BY <2>1, <3>1, <3>2, <3>3 DEF CycleInv
  <2> QED BY <2>2, <2>3
<1>9. ASSUME NEW s \in Refreshers, NextCompany(s) PROVE CycleInv(r)'
  <2>1. s = r BY DEF OneRefresher
  <2>2. /\ r \in Writers
        /\ tx'[r].company \in cycle[r].left
        /\ \A v \in Writers \ {r} : tx'[v] = tx[v]
        /\ \/ tx'[r].phase = "deleting"
           \/ /\ tx'[r].phase = "upserting"
              /\ \E began \in 1..MaxTime :
                    tx'[r].result = Compute(tx'[r].company,
                                            {b \in Bids : normalized[b] > cycle[r].since}, began)
        /\ UNCHANGED <<normalized, closed, rows, cycle>>
    BY <1>1, <1>9, <2>1, NextCompanyFacts
  <2>3. CASE tx'[r].phase = "deleting"
    BY <1>3, <2>2, <2>3
  <2>4. CASE tx'[r].phase = "upserting"
    <3> DEFINE S == {b \in Bids : normalized[b] > cycle[r].since}
    <3>1. PICK began \in 1..MaxTime : tx'[r].result = Compute(tx'[r].company, S, began)
      BY <2>2, <2>4
    <3>2. tx'[r].company \in Companies /\ cycle[r].since \in Nat
      <4>1. cycle[r] \in Cycle BY <1>1 DEF TypeOK
      <4>2. cycle[r].left \subseteq Companies /\ cycle[r].since \in 0..MaxTime BY <4>1 DEF Cycle
      <4> QED BY <2>2, <4>2
    <3>3. ASSUME cycle[r].mode # "sleep", NEW b \in Due(r) PROVE b \in Due(r) \cap S
      <4>1. b \in Bids /\ cycle[r].seen[b] > cycle[r].since BY DEF Due
      <4>2. cycle[r].seen[b] <= normalized[b] BY <1>1, <3>3, <4>1 DEF CycleInv
      <4>3. normalized[b] > cycle[r].since BY <1>2, <3>2, <4>1, <4>2
      <4> QED BY <4>1, <4>3
    <3> HIDE DEF S
    <3>4. ASSUME cycle[r].mode # "sleep", NEW b \in Due(r) PROVE Fresh(tx'[r].result[b], r, b)
      BY <3>1, <3>2, <3>3, <3>4, ComputeFresh
    <3> QED BY <2>2, <3>4, ComputeKeepsCycle
  <2> QED BY <2>2, <2>3, <2>4
<1>10. ASSUME NEW s \in Refreshers, EndCycle(s) PROVE CycleInv(r)'
  <2>1. cycle'[r] = IF r = s THEN Sleep ELSE cycle[r] BY <1>1, <1>10 DEF EndCycle, TypeOK
  <2>2. UNCHANGED <<tx, rows, normalized, closed>> BY <1>10 DEF EndCycle
  <2> QED BY <1>3, <2>1, <2>2, SleepType
<1>11. ASSUME NEW s \in Refreshers, Restart(s) PROVE CycleInv(r)'
  <2>1. cycle'[r] = IF r = s THEN Sleep ELSE cycle[r] BY <1>1, <1>11 DEF Restart, TypeOK
  <2>2. UNCHANGED <<rows, normalized, closed>> BY <1>11 DEF Restart
  <2>3. \A w \in Writers : tx'[w] = Idle \/ tx'[w] = tx[w] BY <1>11 DEF Restart
  <2> QED BY <1>3, <2>1, <2>2, <2>3, IdleFacts, SleepType
<1>12. ASSUME NEW b \in Bids, NEW at \in 1..MaxTime, Normalize(b, at) PROVE CycleInv(r)'
  <2>1. UNCHANGED <<tx, rows, cycle, closed>> BY <1>12 DEF Normalize
  <2>2. at > normalized[b] /\ normalized' = [normalized EXCEPT ![b] = at] /\ at \in Nat
    BY <1>12 DEF Normalize
  <2>3. \A a \in Bids : normalized[a] <= normalized'[a] /\ normalized'[a] \in Nat
    BY <1>1, <1>2, <2>2 DEF TypeOK
  <2> QED BY <1>2, <2>1, <2>3, CycleKept
<1>13. ASSUME NEW b \in Bids, Close(b) PROVE CycleInv(r)'
  <2>1. UNCHANGED <<tx, rows, cycle, normalized>> /\ closed \subseteq closed' BY <1>13 DEF Close
  <2> QED BY <1>2, <2>1, CycleKept
<1>14. CASE NightFalls
  <2>1. UNCHANGED <<tx, rows, normalized, closed>> BY <1>14 DEF NightFalls
  <2>2. Same
    <3>1. cycle[r] \in Cycle BY <1>1 DEF TypeOK
    <3>2. cycle'[r] = [cycle[r] EXCEPT !.nightly = FALSE] BY <1>14 DEF NightFalls
    <3> QED BY <3>1, <3>2 DEF Cycle
  <2> QED BY <1>3, <2>1, <2>2
<1>15. CASE Tick \/ DayBreaks \/ UNCHANGED vars
  <2>1. UNCHANGED <<tx, rows, cycle, normalized, closed>> BY <1>15 DEF Tick, DayBreaks, vars
  <2> QED BY <1>3, <2>1
<1> QED
  BY <1>4, <1>5, <1>6, <1>7, <1>8, <1>9, <1>10, <1>11, <1>12, <1>13, <1>14, <1>15,
     CommitKeepsCycle DEF Next, TxStep, CycleStep

(* With one process, a cycle that ends well has given every company a row   *)
(* for each bid past its lower bound, from the normalization it found or    *)
(* from a later one, whatever hooks ran beside it.                          *)
THEOREM CoverCorrect ==
    ASSUME OneRefresher
    PROVE  Spec => CycleCovers
<1> DEFINE Covers ==
       \A r \in Refreshers : cycle[r].mode # "sleep" /\ cycle[r].left = {}
                             /\ cycle'[r].mode = "sleep"
         => \A c \in Companies, b \in Bids \ closed :
              cycle[r].seen[b] > cycle[r].since =>
                rows[c][b] # NoRow /\ rows[c][b].norm >= cycle[r].seen[b]
<1>1. CoverInv /\ [Next]_vars => CoverInv'
  <2> SUFFICES ASSUME CoverInv, [Next]_vars PROVE CoverInv' OBVIOUS
  <2>1. PutInv' /\ TurnsInv' BY PutStep, TurnsStep DEF CoverInv, PutInv
  <2>2. \A r \in Refreshers : CycleInv(r)' BY CycleStepKept
  <2> QED BY <2>1, <2>2 DEF CoverInv
<1>2. CoverInv => Covers BY DEF CoverInv, CycleInv, Due, Fresh
<1> QED BY <1>1, <1>2, CoverInit, PTL DEF Spec, CycleCovers
=============================================================================
