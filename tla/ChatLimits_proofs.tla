-------------------------- MODULE ChatLimits_proofs --------------------------
(***************************************************************************)
(* Theorems about ChatLimits, for any number of processes, companies and    *)
(* requests and any limits.                                                  *)
(***************************************************************************)
EXTENDS ChatLimits, FiniteSetTheorems, SequenceTheorems, WellFoundedInduction, TLAPS

(* A request inside enforce_chat_limits has its fields.                     *)
LEMMA InsideRequest ==
    ASSUME TypeOK, NEW r \in Requests, pc[r] # "idle"
    PROVE  req[r].proc \in Procs /\ req[r].company \in Companies /\ req[r].valid \in BOOLEAN
BY DEF TypeOK, Request

(* By the well-foundedness of inclusion, on the intervals 0..i.             *)
LEMMA LeastElement ==
    ASSUME NEW T \in SUBSET Nat, T # {}
    PROVE  \E x \in T : \A y \in T : x <= y
<1> DEFINE intervals == {0..i : i \in T}
           order == StrictSubsetOrdering(Nat)
<1>1. intervals \subseteq FiniteSubsetsOf(Nat) /\ intervals # {}
  <2>1. \A i \in T : 0..i \in SUBSET Nat /\ IsFiniteSet(0..i) BY FS_Interval
  <2>2. \A i \in T : 0..i \in FiniteSubsetsOf(Nat) BY <2>1 DEF FiniteSubsetsOf
  <2> QED BY <2>2
<1>2. PICK I \in intervals : \A J \in intervals : ~(<<J, I>> \in order)
  <2> HIDE DEF intervals, order
  <2> QED BY <1>1, FS_StrictSubsetOrderingWellFounded, WFMin DEF order
<1>3. PICK x \in T : I = 0..x OBVIOUS
<1>4. ASSUME NEW y \in T PROVE x <= y
  <2>1. SUFFICES ASSUME y < x PROVE FALSE BY <1>3
  <2>2. 0..y \subseteq 0..x /\ x \in 0..x /\ x \notin 0..y BY <2>1
  <2>3. <<0..y, I>> \in order BY <1>3, <2>2 DEF StrictSubsetOrdering
  <2> QED BY <1>2, <2>3
<1> QED BY <1>4

(* DropOlder returns what follows a prefix of old ages, and stops at the    *)
(* first age below the limit.                                                *)
LEMMA DropOlderPrefix ==
    ASSUME NEW S \in SUBSET Nat, NEW ages \in Seq(S), NEW limit \in Nat
    PROVE  \E k \in 0..Len(ages) :
             /\ DropOlder(ages, limit) = SubSeq(ages, k + 1, Len(ages))
             /\ \A i \in 1..k : ages[i] >= limit
             /\ k < Len(ages) => ages[k + 1] < limit
<1> DEFINE front == {i \in 0..Len(ages) : i = Len(ages) \/ ages[i + 1] < limit}
           k == CHOOSE i \in front : \A j \in front : i <= j
<1>1. Len(ages) \in Nat /\ \A i \in 1..Len(ages) : ages[i] \in Nat
  BY ElementOfSeq, LenProperties
<1>2. Len(ages) \in front /\ front \in SUBSET Nat BY <1>1
<1>3. \E i \in front : \A j \in front : i <= j BY <1>2, LeastElement
<1>4. k \in front /\ \A j \in front : k <= j BY <1>3
<1>5. DropOlder(ages, limit) = SubSeq(ages, k + 1, Len(ages)) BY DEF DropOlder
<1> HIDE DEF k
<1>6. ASSUME NEW i \in 1..k PROVE ages[i] >= limit
  <2>1. i - 1 \in 0..Len(ages) /\ i - 1 < k /\ i \in 1..Len(ages) /\ i - 1 # Len(ages)
    BY <1>1, <1>4
  <2>2. i - 1 \notin front
    <3>1. k \in Nat BY <1>1, <1>4
    <3> HIDE DEF front
    <3> QED BY <1>4, <2>1, <3>1
  <2>3. ~(ages[(i - 1) + 1] < limit) BY <2>1, <2>2
  <2> QED BY <1>1, <2>1, <2>3
<1> QED BY <1>1, <1>4, <1>5, <1>6

LEMMA DropOlderType ==
    ASSUME NEW S \in SUBSET Nat, NEW ages \in Seq(S), NEW limit \in Nat
    PROVE  /\ DropOlder(ages, limit) \in Seq(S)
           /\ Len(DropOlder(ages, limit)) <= Len(ages)
<1>1. PICK k \in 0..Len(ages) : DropOlder(ages, limit) = SubSeq(ages, k + 1, Len(ages))
  BY DropOlderPrefix
<1>2. Len(ages) \in Nat /\ \A i \in 1..Len(ages) : ages[i] \in S
  BY ElementOfSeq, LenProperties
<1> QED BY <1>1, <1>2, SubSeqProperties

-----------------------------------------------------------------------------
(* Types.                                                                   *)

LEMMA HorizonNat == Horizon \in Nat /\ MaxLag \in 0..Horizon /\ 0..Horizon \in SUBSET Nat
BY ConstantsAssumption DEF Horizon

(* Updating one company's entry of one process.                             *)
LEMMA EntryUpdate ==
    ASSUME NEW S, NEW f \in [Procs -> [Companies -> S]], NEW p \in Procs, NEW c \in Companies,
           NEW v \in S
    PROVE  /\ [f EXCEPT ![p][c] = v] \in [Procs -> [Companies -> S]]
           /\ \A q \in Procs, d \in Companies :
                [f EXCEPT ![p][c] = v][q][d] = IF q = p /\ d = c THEN v ELSE f[q][d]
<1>1. [f[p] EXCEPT ![c] = v] \in [Companies -> S] OBVIOUS
<1> QED BY <1>1

LEMMA LiveType ==
    ASSUME NEW ages \in Seq(0..Horizon), NEW waited \in Nat
    PROVE  Live(ages, waited) \in Seq(0..Horizon)
<1>1. Window + waited \in Nat BY ConstantsAssumption
<1> QED BY <1>1, DropOlderType, HorizonNat DEF Live

LEMMA TypeInit == Init => TypeOK
<1> SUFFICES ASSUME Init PROVE TypeOK
  OBVIOUS
<1>1. <<>> \in Seq(0..Horizon) /\ <<>> \in Seq(Nat) BY EmptySeq
<1>2. 0 \in 0..MaxLag BY ConstantsAssumption
<1> QED BY <1>1, <1>2 DEF Init, TypeOK

LEMMA TypeStep == TypeOK /\ [Next]_vars => TypeOK'
<1> SUFFICES ASSUME TypeOK, [Next]_vars PROVE TypeOK'
  OBVIOUS
<1>0. 0 \in 0..MaxLag /\ <<>> \in Seq(0..Horizon) /\ <<>> \in Seq(Nat)
  BY ConstantsAssumption, EmptySeq
<1>1. ASSUME NEW r \in Requests, NEW q \in Request, ReadClock(r, q) PROVE TypeOK'
  BY <1>0, <1>1 DEF ReadClock, TypeOK
<1>2. ASSUME NEW r \in Requests, CheckMinute(r) PROVE TypeOK'
  <2> DEFINE p == req[r].proc
             c == req[r].company
             live == Live(Hits(r), lag[r])
  <2>1. p \in Procs /\ c \in Companies BY <1>2, InsideRequest DEF CheckMinute
  <2>2. live \in Seq(0..Horizon) /\ lag[r] \in 0..Horizon
    <3>1. hits[p][c] \in Seq(0..Horizon) /\ lag[r] \in 0..MaxLag BY <2>1 DEF TypeOK
    <3>2. lag[r] \in Nat /\ lag[r] \in 0..Horizon
      BY <3>1, ConstantsAssumption DEF Horizon
    <3> QED BY <3>1, <3>2, LiveType DEF Hits
  <2>3. Append(live, lag[r]) \in Seq(0..Horizon) BY <2>2, AppendProperties
  <2>4. recent[p][c] \in Seq(Nat) BY <2>1 DEF TypeOK
  <2>5. Append(recent[p][c], 0) \in Seq(Nat) BY <2>4, AppendProperties
  <2> HIDE DEF live
  <2>6. hits' \in [Procs -> [Companies -> Seq(0..Horizon)]]
    <3>1. hits' \in {[hits EXCEPT ![p][c] = live], [hits EXCEPT ![p][c] = Append(live, lag[r])]}
      BY <1>2 DEF CheckMinute, live
    <3>2. hits \in [Procs -> [Companies -> Seq(0..Horizon)]] BY DEF TypeOK
    <3>3. [hits EXCEPT ![p][c] = live] \in [Procs -> [Companies -> Seq(0..Horizon)]]
      BY <2>1, <2>2, <3>2, EntryUpdate, Zenon
    <3>4. [hits EXCEPT ![p][c] = Append(live, lag[r])]
            \in [Procs -> [Companies -> Seq(0..Horizon)]]
      BY <2>1, <2>3, <3>2, EntryUpdate, Zenon
    <3> QED BY <3>1, <3>3, <3>4, Zenon
  <2>7. recent' \in [Procs -> [Companies -> Seq(Nat)]]
    <3>1. recent' \in {recent, [recent EXCEPT ![p][c] = Append(recent[p][c], 0)]}
      BY <1>2 DEF CheckMinute
    <3>2. recent \in [Procs -> [Companies -> Seq(Nat)]] BY DEF TypeOK
    <3>3. [recent EXCEPT ![p][c] = Append(recent[p][c], 0)] \in [Procs -> [Companies -> Seq(Nat)]]
      BY <2>1, <2>5, <3>2, EntryUpdate, Zenon
    <3> QED BY <3>1, <3>2, <3>3, Zenon
  <2> QED BY <1>0, <1>2, <2>6, <2>7 DEF CheckMinute, Leave, TypeOK
<1>3. ASSUME NEW r \in Requests, Acquire(r) PROVE TypeOK'
  <2>1. req[r].proc \in Procs /\ req[r].company \in Companies
    BY <1>3, InsideRequest DEF Acquire
  <2>2. active' \in [Procs -> [Companies -> Nat]]
    <3>1. active[req[r].proc][req[r].company] \in Nat
          /\ active \in [Procs -> [Companies -> Nat]]
      BY <2>1 DEF TypeOK
    <3>2. active[req[r].proc][req[r].company] + 1 \in Nat BY <3>1
    <3>3. [active EXCEPT ![req[r].proc][req[r].company] =
             active[req[r].proc][req[r].company] + 1] \in [Procs -> [Companies -> Nat]]
      BY <2>1, <3>1, <3>2, EntryUpdate, Zenon
    <3> QED BY <1>3, <3>1, <3>3, Zenon DEF Acquire
  <2> QED BY <1>3, <2>2 DEF Acquire, Leave, Slotted, TypeOK
<1>4. ASSUME NEW r \in Requests, CountDay(r) PROVE TypeOK'
  <2>1. req[r].company \in Companies BY <1>4, InsideRequest DEF CountDay
  <2>2. usage' \in [Companies -> Nat] /\ served' \in [Companies -> Nat]
    BY <1>4, <2>1 DEF CountDay, TypeOK
  <2>3. pc' \in [Requests -> {"idle", "stamped", "passed"} \cup Slotted]
        /\ \A x \in Requests : pc'[x] # "idle" => pc[x] # "idle"
    BY <1>4 DEF CountDay, Slotted, TypeOK
  <2> QED BY <1>4, <2>2, <2>3 DEF CountDay, TypeOK
<1>5. ASSUME NEW r \in Requests, CountDayFails(r) PROVE TypeOK'
  BY <1>5 DEF CountDayFails, Slotted, TypeOK
<1>6. ASSUME NEW r \in Requests, Release(r) PROVE TypeOK'
  <2>1. req[r].proc \in Procs /\ req[r].company \in Companies
    BY <1>6, InsideRequest DEF Release
  <2>2. active[req[r].proc][req[r].company] \in Nat BY <2>1 DEF TypeOK
  <2>3. active' \in [Procs -> [Companies -> Nat]] BY <1>6, <2>1, <2>2 DEF Release, TypeOK
  <2> QED BY <1>6, <2>3 DEF Release, Leave, TypeOK
<1>7. ASSUME NEW p \in Procs, Crash(p) PROVE TypeOK'
  BY <1>0, <1>7 DEF Crash, TypeOK
<1>8. CASE Tick
  <2>1. lag' \in [Requests -> 0..MaxLag] BY <1>0, <1>8, ConstantsAssumption DEF Tick, TypeOK
  <2>2. hits' \in [Procs -> [Companies -> Seq(0..Horizon)]]
    <3>1. ASSUME NEW p \in Procs, NEW c \in Companies
          PROVE  [i \in DOMAIN hits[p][c] |-> Older(hits[p][c][i])] \in Seq(0..Horizon)
      <4>1. hits[p][c] \in Seq(0..Horizon) BY DEF TypeOK
      <4>2. DOMAIN hits[p][c] = 1..Len(hits[p][c]) /\ Len(hits[p][c]) \in Nat
            /\ \A i \in 1..Len(hits[p][c]) : hits[p][c][i] \in 0..Horizon
        BY <4>1, LenProperties, ElementOfSeq
      <4>3. \A age \in 0..Horizon : Older(age) \in 0..Horizon BY HorizonNat DEF Older
      <4> QED BY <4>2, <4>3, IsASeq
    <3> QED BY <1>8, <3>1 DEF Tick
  <2>3. recent' \in [Procs -> [Companies -> Seq(Nat)]]
    <3>1. ASSUME NEW p \in Procs, NEW c \in Companies
          PROVE  LET kept == DropOlder(recent[p][c], Horizon - 1)
                 IN  [i \in DOMAIN kept |-> kept[i] + 1] \in Seq(Nat)
      <4> DEFINE kept == DropOlder(recent[p][c], Horizon - 1)
      <4>1. recent[p][c] \in Seq(Nat) BY DEF TypeOK
      <4>2. kept \in Seq(Nat) BY <4>1, DropOlderType, HorizonNat, ConstantsAssumption DEF Horizon
      <4> HIDE DEF kept
      <4>3. DOMAIN kept = 1..Len(kept) /\ Len(kept) \in Nat
            /\ \A i \in 1..Len(kept) : kept[i] + 1 \in Nat
        BY <4>2, LenProperties, ElementOfSeq
      <4>4. [i \in DOMAIN kept |-> kept[i] + 1] \in Seq(Nat) BY <4>3, IsASeq
      <4> QED BY <4>4 DEF kept
    <3> QED BY <1>8, <3>1 DEF Tick
  <2> QED BY <1>8, <2>1, <2>2, <2>3 DEF Tick, TypeOK
<1>9. CASE NewDay
  BY <1>9 DEF NewDay, TypeOK
<1>10. CASE UNCHANGED vars
  BY <1>10 DEF vars, TypeOK
<1> QED
  BY <1>1, <1>2, <1>3, <1>4, <1>5, <1>6, <1>7, <1>8, <1>9, <1>10 DEF Next, Step

(* Every variable of ChatLimits keeps its type.                             *)
THEOREM TypeCorrect == Spec => []TypeOK
BY TypeInit, TypeStep, PTL DEF Spec

-----------------------------------------------------------------------------
(* The concurrency slots.                                                   *)

LEMMA HoldersFinite ==
    ASSUME NEW p, NEW c
    PROVE  IsFiniteSet(Holders(p, c)) /\ Cardinality(Holders(p, c)) \in Nat
<1>1. Holders(p, c) \in SUBSET Requests BY DEF Holders
<1> QED BY <1>1, FS_Subset, FS_CardinalityType, ConstantsAssumption

(* A step that leaves every counter and every holder alone.                 *)
LEMMA SlotsKept ==
    ASSUME SlotsExact, UNCHANGED active,
           \A p \in Procs, c \in Companies : Holders(p, c)' = Holders(p, c)
    PROVE  SlotsExact'
BY DEF SlotsExact

LEMMA SlotsInit == Init => SlotsExact
<1> SUFFICES ASSUME Init, NEW p \in Procs, NEW c \in Companies
             PROVE  /\ active[p][c] = Cardinality(Holders(p, c))
                    /\ active[p][c] <= ConcurrencyMax
  BY DEF SlotsExact
<1>1. Holders(p, c) = {} BY DEF Init, Holders, On
<1>2. active[p][c] = 0 BY DEF Init
<1> QED BY <1>1, <1>2, FS_EmptySet, ConstantsAssumption

LEMMA SlotsStep == TypeOK /\ SlotsExact /\ [Next]_vars => SlotsExact'
<1> SUFFICES ASSUME TypeOK, SlotsExact, [Next]_vars PROVE SlotsExact'
  OBVIOUS
<1>1. ASSUME NEW r \in Requests, NEW q \in Request, ReadClock(r, q) PROVE SlotsExact'
  <2>1. /\ pc[r] = "idle" /\ pc'[r] = "stamped" /\ UNCHANGED active
        /\ \A x \in Requests : x # r => pc'[x] = pc[x] /\ req'[x] = req[x]
    BY <1>1 DEF ReadClock, TypeOK
  <2>2. \A p \in Procs, c \in Companies : Holders(p, c)' = Holders(p, c)
    BY <2>1 DEF Holders, On, Slotted
  <2> QED BY <2>1, <2>2, SlotsKept
<1>2. ASSUME NEW r \in Requests, CheckMinute(r) PROVE SlotsExact'
  <2>1. /\ pc[r] = "stamped" /\ pc'[r] \in {"idle", "passed"} /\ UNCHANGED active
        /\ \A x \in Requests : x # r => pc'[x] = pc[x] /\ req'[x] = req[x]
    BY <1>2 DEF CheckMinute, Leave, TypeOK
  <2>2. \A p \in Procs, c \in Companies : Holders(p, c)' = Holders(p, c)
    BY <2>1 DEF Holders, On, Slotted
  <2> QED BY <2>1, <2>2, SlotsKept
<1>3. ASSUME NEW r \in Requests, Acquire(r) PROVE SlotsExact'
  <2> DEFINE p == req[r].proc
             c == req[r].company
  <2>1. p \in Procs /\ c \in Companies /\ pc[r] = "passed"
    BY <1>3, InsideRequest DEF Acquire
  <2>2. CASE Leave(r) /\ UNCHANGED active
    <3>1. /\ pc'[r] = "idle"
          /\ \A x \in Requests : x # r => pc'[x] = pc[x] /\ req'[x] = req[x]
      BY <2>2 DEF Leave, TypeOK
    <3>2. \A q \in Procs, d \in Companies : Holders(q, d)' = Holders(q, d)
      BY <2>1, <3>1 DEF Holders, On, Slotted
    <3> QED BY <2>2, <3>2, SlotsKept
  <2>3. CASE /\ active[p][c] < ConcurrencyMax
             /\ active' = [active EXCEPT ![p][c] = @ + 1]
             /\ pc' = [pc EXCEPT ![r] = "slotted"]
             /\ UNCHANGED req
    <3>1. \A x \in Requests : pc'[x] = IF x = r THEN "slotted" ELSE pc[x] BY <2>3 DEF TypeOK
    <3> SUFFICES ASSUME NEW q \in Procs, NEW d \in Companies
                 PROVE  /\ active'[q][d] = Cardinality(Holders(q, d)')
                        /\ active'[q][d] <= ConcurrencyMax
      BY DEF SlotsExact
    <3>2. active[q][d] \in Nat BY DEF TypeOK
    <3>3. /\ active[q][d] = Cardinality(Holders(q, d)) /\ active[q][d] <= ConcurrencyMax
      BY DEF SlotsExact
    <3>4. CASE q = p /\ d = c
      <4>1. Holders(q, d)' = Holders(q, d) \cup {r} /\ r \notin Holders(q, d)
        BY <2>1, <2>3, <3>1, <3>4 DEF Holders, On, Slotted
      <4>2. Cardinality(Holders(q, d)') = Cardinality(Holders(q, d)) + 1
        BY <4>1, HoldersFinite, FS_AddElement
      <4>3. active'[q][d] = active[q][d] + 1 BY <2>1, <2>3, <3>4 DEF TypeOK
      <4> QED BY <2>3, <3>2, <3>3, <3>4, <4>2, <4>3, ConstantsAssumption
    <3>5. CASE ~(q = p /\ d = c)
      <4>1. Holders(q, d)' = Holders(q, d)
        BY <2>1, <2>3, <3>1, <3>5 DEF Holders, On, Slotted
      <4>2. active'[q][d] = active[q][d] BY <2>1, <2>3, <3>5 DEF TypeOK
      <4> QED BY <3>3, <4>1, <4>2
    <3> QED BY <3>4, <3>5
  <2> QED BY <1>3, <2>2, <2>3 DEF Acquire
<1>4. ASSUME NEW r \in Requests, CountDay(r) \/ CountDayFails(r) PROVE SlotsExact'
  <2>1. /\ pc[r] = "slotted" /\ pc'[r] \in {"serving", "leaving"} /\ UNCHANGED <<req, active>>
        /\ \A x \in Requests : x # r => pc'[x] = pc[x]
    BY <1>4 DEF CountDay, CountDayFails, TypeOK
  <2>2. \A p \in Procs, c \in Companies : Holders(p, c)' = Holders(p, c)
    BY <2>1 DEF Holders, On, Slotted
  <2> QED BY <2>1, <2>2, SlotsKept
<1>5. ASSUME NEW r \in Requests, Release(r) PROVE SlotsExact'
  <2> DEFINE p == req[r].proc
             c == req[r].company
  <2>1. p \in Procs /\ c \in Companies /\ pc[r] \in {"serving", "leaving"}
    BY <1>5, InsideRequest DEF Release
  <2>2. /\ pc'[r] = "idle"
        /\ \A x \in Requests : x # r => pc'[x] = pc[x] /\ req'[x] = req[x]
    BY <1>5 DEF Release, Leave, TypeOK
  <2> SUFFICES ASSUME NEW q \in Procs, NEW d \in Companies
               PROVE  /\ active'[q][d] = Cardinality(Holders(q, d)')
                      /\ active'[q][d] <= ConcurrencyMax
    BY DEF SlotsExact
  <2>3. active[q][d] \in Nat BY DEF TypeOK
  <2>4. /\ active[q][d] = Cardinality(Holders(q, d)) /\ active[q][d] <= ConcurrencyMax
    BY DEF SlotsExact
  <2>5. CASE q = p /\ d = c
    <3>1. Holders(q, d)' = Holders(q, d) \ {r} /\ r \in Holders(q, d)
      BY <2>1, <2>2, <2>5 DEF Holders, On, Slotted
    <3>2. Cardinality(Holders(q, d)') = Cardinality(Holders(q, d)) - 1
      BY <3>1, HoldersFinite, FS_RemoveElement
    <3>3. Cardinality(Holders(q, d)) # 0 BY <3>1, HoldersFinite, FS_EmptySet
    <3>4. active'[q][d] = IF active[q][d] <= 1 THEN 0 ELSE active[q][d] - 1
      BY <1>5, <2>1, <2>5 DEF Release, TypeOK
    <3> QED BY <2>3, <2>4, <3>2, <3>3, <3>4, ConstantsAssumption
  <2>6. CASE ~(q = p /\ d = c)
    <3>1. Holders(q, d)' = Holders(q, d) BY <2>1, <2>2, <2>6 DEF Holders, On, Slotted
    <3>2. active'[q][d] = active[q][d] BY <1>5, <2>1, <2>6 DEF Release, TypeOK
    <3> QED BY <2>4, <3>1, <3>2
  <2> QED BY <2>5, <2>6
<1>6. ASSUME NEW p \in Procs, Crash(p) PROVE SlotsExact'
  <2> SUFFICES ASSUME NEW q \in Procs, NEW d \in Companies
               PROVE  /\ active'[q][d] = Cardinality(Holders(q, d)')
                      /\ active'[q][d] <= ConcurrencyMax
    BY DEF SlotsExact
  <2>1. CASE q = p
    <3>1. Holders(q, d)' = {} BY <1>6, <2>1 DEF Crash, Holders, On
    <3>2. active'[q][d] = 0 BY <1>6, <2>1 DEF Crash, TypeOK
    <3> QED BY <3>1, <3>2, FS_EmptySet, ConstantsAssumption
  <2>2. CASE q # p
    <3>1. Holders(q, d)' = Holders(q, d) BY <1>6, <2>2 DEF Crash, Holders, On
    <3>2. active'[q][d] = active[q][d] BY <1>6, <2>2 DEF Crash, TypeOK
    <3> QED BY <3>1, <3>2 DEF SlotsExact
  <2> QED BY <2>1, <2>2
<1>7. ASSUME UNCHANGED <<pc, req, active>> PROVE SlotsExact'
  BY <1>7, SlotsKept DEF Holders, On
<1> QED BY <1>1, <1>2, <1>3, <1>4, <1>5, <1>6, <1>7 DEF Next, Step, Tick, NewDay, vars

(* _active equals the requests between acquire and release on every path,   *)
(* so slots neither leak nor exceed chat_concurrency_max.                    *)
THEOREM SlotsCorrect == Spec => []SlotsExact
BY TypeInit, TypeStep, SlotsInit, SlotsStep, PTL DEF Spec

-----------------------------------------------------------------------------
(* The daily counter.                                                       *)

LEMMA DailyStep == TypeOK /\ DailyBound /\ [Next]_vars => DailyBound'
<1> SUFFICES ASSUME TypeOK, DailyBound, [Next]_vars PROVE DailyBound'
  OBVIOUS
<1>1. ASSUME NEW r \in Requests, CountDay(r) PROVE DailyBound'
  <2> SUFFICES ASSUME NEW d \in Companies
               PROVE  served'[d] <= DailyMax /\ served'[d] <= usage'[d]
    BY DEF DailyBound
  <2>1. req[r].company \in Companies BY <1>1, InsideRequest DEF CountDay
  <2>2. /\ served[d] \in Nat /\ usage[d] \in Nat /\ DailyMax \in Nat
        /\ served[d] <= DailyMax /\ served[d] <= usage[d]
    BY ConstantsAssumption DEF TypeOK, DailyBound
  <2>3. CASE d = req[r].company
    <3>1. usage'[d] = usage[d] + 1 BY <1>1, <2>1, <2>3 DEF CountDay, TypeOK
    <3>2. served'[d] = IF WithinDay(d) /\ req[r].valid THEN served[d] + 1 ELSE served[d]
      BY <1>1, <2>1, <2>3 DEF CountDay, TypeOK
    <3> QED BY <2>2, <3>1, <3>2 DEF WithinDay
  <2>4. CASE d # req[r].company
    <3>1. usage'[d] = usage[d] /\ served'[d] = served[d]
      BY <1>1, <2>1, <2>4 DEF CountDay, TypeOK
    <3> QED BY <2>2, <3>1
  <2> QED BY <2>3, <2>4
<1>2. CASE NewDay
  BY <1>2, ConstantsAssumption DEF NewDay, DailyBound
<1>3. ASSUME UNCHANGED <<usage, served>> PROVE DailyBound'
  BY <1>3 DEF DailyBound
<1> QED
  BY <1>1, <1>2, <1>3
     DEF Next, Step, ReadClock, CheckMinute, Acquire, CountDayFails, Release, Crash, Tick, vars

(* chat_daily_max bounds a company's agent runs over all processes and      *)
(* restarts, for the increment is committed before it is compared.           *)
THEOREM DailyCorrect == Spec => []DailyBound
<1>1. Init => DailyBound BY ConstantsAssumption DEF Init, DailyBound
<1> QED BY <1>1, TypeInit, TypeStep, DailyStep, PTL DEF Spec

-----------------------------------------------------------------------------
(* The sliding window.                                                      *)

(* The passed checks younger than Horizon, oldest first.                    *)
Ordered(rec) ==
    \A i \in 1..Len(rec) : rec[i] < Horizon /\ \A j \in i..Len(rec) : rec[j] <= rec[i]

(* Counted from the newest, the i-th check and the i-th hit are of the same *)
(* request, and the hit is older by the lag at most.                         *)
Paired(ages, rec) ==
    \A i \in 0..(Len(rec) - 1) :
        i < Len(ages) => /\ rec[Len(rec) - i] <= ages[Len(ages) - i]
                         /\ ages[Len(ages) - i] <= rec[Len(rec) - i] + MaxLag

(* A hit younger than Horizon has its check, a fresh check has its hit.     *)
Checked(ages, rec) ==
    \A i \in 0..(Len(ages) - 1) : ages[Len(ages) - i] < Horizon => i < Len(rec)

Covered(ages, rec) ==
    \A i \in 0..(Len(rec) - 1) : rec[Len(rec) - i] < Window - MaxLag => i < Len(ages)

Matched(ages, rec) == Ordered(rec) /\ Paired(ages, rec) /\ Checked(ages, rec) /\ Covered(ages, rec)

WindowInv ==
    \A p \in Procs, c \in Companies :
        Matched(hits[p][c], recent[p][c]) /\ Len(hits[p][c]) <= PerMinute

LEMMA WindowNat ==
    /\ Window \in Nat /\ MaxLag \in Nat /\ MaxLag < Window /\ Horizon = Window + MaxLag
    /\ Horizon \in Nat /\ Horizon - 1 \in Nat /\ Window - MaxLag \in Nat
    /\ PerMinute \in Nat /\ PerMinute > 0
BY ConstantsAssumption DEF Horizon

LEMMA SequenceNat ==
    ASSUME NEW S \in SUBSET Nat, NEW seq \in Seq(S)
    PROVE  /\ Len(seq) \in Nat /\ DOMAIN seq = 1..Len(seq) /\ seq \in Seq(Nat)
           /\ \A i \in 1..Len(seq) : seq[i] \in Nat
<1>1. Len(seq) \in Nat /\ DOMAIN seq = 1..Len(seq) /\ \A i \in 1..Len(seq) : seq[i] \in Nat
  BY LenProperties, ElementOfSeq
<1> QED BY <1>1, SeqDef

(* What is left of a list once its oldest entries are dropped.              *)
LEMMA LivePrefix ==
    ASSUME NEW ages \in Seq(0..Horizon), NEW waited \in 0..MaxLag
    PROVE  \E k \in 0..Len(ages) :
             /\ Len(Live(ages, waited)) = Len(ages) - k
             /\ \A i \in 0..(Len(ages) - k - 1) :
                  Live(ages, waited)[Len(ages) - k - i] = ages[Len(ages) - i]
             /\ \A i \in 1..k : ages[i] >= Window + waited
             /\ k < Len(ages) => ages[k + 1] < Window + waited
<1>1. Window + waited \in Nat BY WindowNat
<1>2. Len(ages) \in Nat /\ ages \in Seq(Nat) BY HorizonNat, SequenceNat
<1>3. PICK k \in 0..Len(ages) :
        /\ DropOlder(ages, Window + waited) = SubSeq(ages, k + 1, Len(ages))
        /\ \A i \in 1..k : ages[i] >= Window + waited
        /\ k < Len(ages) => ages[k + 1] < Window + waited
  BY <1>1, <1>2, DropOlderPrefix
<1> DEFINE m == Len(ages)
           live == SubSeq(ages, k + 1, m)
<1>4. Len(live) = m - k /\ \A i \in 1..(m - k) : live[i] = ages[k + i]
  <2>1. \A i \in 1..m : ages[i] \in Nat BY HorizonNat, SequenceNat
  <2>2. \A i \in (k + 1)..m : ages[i] \in Nat BY <1>2, <2>1
  <2> QED BY <1>2, <2>2, SubSeqProperties
<1>5. ASSUME NEW i \in 0..(m - k - 1) PROVE live[m - k - i] = ages[m - i]
  <2>1. m - k - i \in 1..(m - k) /\ k + (m - k - i) = m - i BY <1>2
  <2> QED BY <1>4, <2>1
<1>6. Live(ages, waited) = live BY <1>3 DEF Live
<1> HIDE DEF live
<1> QED BY <1>3, <1>4, <1>5, <1>6

(* The expiry loop stops before the hit of a fresh check.                   *)
LEMMA ExpiryKeepsMatched ==
    ASSUME NEW ages \in Seq(0..Horizon), NEW rec \in Seq(Nat), NEW waited \in 0..MaxLag,
           Matched(ages, rec)
    PROVE  Matched(Live(ages, waited), rec)
<1> DEFINE m == Len(ages)
           n == Len(rec)
           live == Live(ages, waited)
<1>1. m \in Nat /\ n \in Nat /\ (\A i \in 1..m : ages[i] \in Nat) /\ \A i \in 1..n : rec[i] \in Nat
  BY HorizonNat, SequenceNat
<1>2. PICK k \in 0..m :
        /\ Len(live) = m - k
        /\ \A i \in 0..(m - k - 1) : live[m - k - i] = ages[m - i]
        /\ \A i \in 1..k : ages[i] >= Window + waited
  BY LivePrefix
<1> HIDE DEF live
<1>3. Paired(live, rec)
  <2> SUFFICES ASSUME NEW i \in 0..(n - 1), i < m - k
               PROVE  rec[n - i] <= live[m - k - i] /\ live[m - k - i] <= rec[n - i] + MaxLag
    BY <1>2 DEF Paired
  <2>1. i \in 0..(m - k - 1) /\ i < m BY <1>1
  <2>2. live[m - k - i] = ages[m - i] BY <1>2, <2>1
  <2> QED BY <2>1, <2>2 DEF Matched, Paired
<1>4. Checked(live, rec)
  <2> SUFFICES ASSUME NEW i \in 0..(m - k - 1), live[m - k - i] < Horizon PROVE i < n
    BY <1>2 DEF Checked
  <2>1. i \in 0..(m - 1) /\ live[m - k - i] = ages[m - i] BY <1>1, <1>2
  <2> QED BY <2>1 DEF Matched, Checked
<1>5. Covered(live, rec)
  <2> SUFFICES ASSUME NEW i \in 0..(n - 1), rec[n - i] < Window - MaxLag PROVE i < m - k
    BY <1>2 DEF Covered
  <2>1. i < m /\ ages[m - i] <= rec[n - i] + MaxLag BY DEF Matched, Covered, Paired
  <2>2. m - i \in 1..m /\ n - i \in 1..n
    <3> HIDE DEF m, n
    <3> QED BY <1>1, <2>1
  <2>3. ages[m - i] < Window
    <3> DEFINE x == ages[m - i]
               y == rec[n - i]
    <3>1. x \in Nat /\ y \in Nat /\ x <= y + MaxLag /\ y < Window - MaxLag BY <1>1, <2>1, <2>2
    <3> HIDE DEF x, y
    <3>2. x < Window BY <3>1, WindowNat
    <3> QED BY <3>2 DEF x
  <2>4. ASSUME m - i \in 1..k PROVE FALSE
    <3> DEFINE x == ages[m - i]
    <3>1. x >= Window + waited /\ x \in Nat /\ x < Window BY <1>1, <1>2, <2>2, <2>3, <2>4
    <3> HIDE DEF x
    <3> QED BY <3>1, WindowNat
  <2> QED BY <1>1, <2>2, <2>4
<1> QED BY <1>3, <1>4, <1>5 DEF Matched, live

(* A passed check and its hit are recorded together.                        *)
LEMMA RecordKeepsMatched ==
    ASSUME NEW ages \in Seq(0..Horizon), NEW rec \in Seq(Nat), NEW waited \in 0..MaxLag,
           Matched(ages, rec)
    PROVE  Matched(Append(ages, waited), Append(rec, 0))
<1> DEFINE m == Len(ages)
           n == Len(rec)
           ages2 == Append(ages, waited)
           rec2 == Append(rec, 0)
<1>1. m \in Nat /\ n \in Nat /\ (\A i \in 1..m : ages[i] \in Nat) /\ \A i \in 1..n : rec[i] \in Nat
  BY HorizonNat, SequenceNat
<1>2. /\ Len(ages2) = m + 1 /\ ages2[m + 1] = waited
      /\ \A i \in 1..m : ages2[i] = ages[i]
      /\ Len(rec2) = n + 1 /\ rec2[n + 1] = 0
      /\ \A i \in 1..n : rec2[i] = rec[i]
  BY AppendProperties
<1> HIDE DEF ages2, rec2
<1>3. Ordered(rec2)
  <2> SUFFICES ASSUME NEW i \in 1..(n + 1)
               PROVE  rec2[i] < Horizon /\ \A j \in i..(n + 1) : rec2[j] <= rec2[i]
    BY <1>2 DEF Ordered
  <2>1. CASE i = n + 1 BY <1>1, <1>2, <2>1, WindowNat
  <2>2. CASE i # n + 1
    <3>1. i \in 1..n /\ rec[i] < Horizon /\ \A j \in i..n : rec[j] <= rec[i]
      BY <1>1, <2>2 DEF Matched, Ordered
    <3>2. rec2[i] = rec[i] /\ rec[i] \in Nat BY <1>1, <1>2, <3>1
    <3>3. ASSUME NEW j \in i..(n + 1) PROVE rec2[j] <= rec2[i]
      <4>1. CASE j = n + 1 BY <1>2, <3>2, <4>1
      <4>2. CASE j # n + 1
        <5>1. j \in i..n /\ j \in 1..n
          <6> HIDE DEF n
          <6> QED BY <1>1, <3>1, <4>2
        <5> QED BY <1>2, <3>1, <3>2, <5>1
      <4> QED BY <4>1, <4>2
    <3> QED BY <3>1, <3>2, <3>3
  <2> QED BY <2>1, <2>2
<1>4. Paired(ages2, rec2)
  <2> SUFFICES ASSUME NEW i \in 0..n, i < m + 1
               PROVE  /\ rec2[n + 1 - i] <= ages2[m + 1 - i]
                      /\ ages2[m + 1 - i] <= rec2[n + 1 - i] + MaxLag
    BY <1>1, <1>2 DEF Paired
  <2>1. CASE i = 0 BY <1>1, <1>2, <2>1, WindowNat
  <2>2. CASE i # 0
    <3>1. i - 1 \in 0..(n - 1) /\ i - 1 < m /\ m + 1 - i = m - (i - 1) /\ n + 1 - i = n - (i - 1)
          /\ m - (i - 1) \in 1..m /\ n - (i - 1) \in 1..n
      BY <1>1, <2>2
    <3>2. /\ rec[n - (i - 1)] <= ages[m - (i - 1)]
          /\ ages[m - (i - 1)] <= rec[n - (i - 1)] + MaxLag
      BY <3>1 DEF Matched, Paired
    <3> QED BY <1>2, <3>1, <3>2
  <2> QED BY <2>1, <2>2
<1>5. Checked(ages2, rec2)
  <2> SUFFICES ASSUME NEW i \in 0..m, ages2[m + 1 - i] < Horizon PROVE i < n + 1
    BY <1>1, <1>2 DEF Checked
  <2>1. CASE i = 0 BY <1>1, <2>1
  <2>2. CASE i # 0
    <3>1. i - 1 \in 0..(m - 1) /\ m + 1 - i = m - (i - 1) /\ m - (i - 1) \in 1..m
      BY <1>1, <2>2
    <3>2. ages[m - (i - 1)] < Horizon BY <1>2, <3>1
    <3>3. i - 1 < n BY <3>1, <3>2 DEF Matched, Checked
    <3> QED BY <1>1, <3>3
  <2> QED BY <2>1, <2>2
<1>6. Covered(ages2, rec2)
  <2> SUFFICES ASSUME NEW i \in 0..n, rec2[n + 1 - i] < Window - MaxLag PROVE i < m + 1
    BY <1>1, <1>2 DEF Covered
  <2>1. CASE i = 0 BY <1>1, <2>1
  <2>2. CASE i # 0
    <3>1. i - 1 \in 0..(n - 1) /\ n + 1 - i = n - (i - 1) /\ n - (i - 1) \in 1..n
      BY <1>1, <2>2
    <3>2. rec[n - (i - 1)] < Window - MaxLag BY <1>2, <3>1
    <3>3. i - 1 < m BY <3>1, <3>2 DEF Matched, Covered
    <3> QED BY <1>1, <3>3
  <2> QED BY <2>1, <2>2
<1> QED BY <1>3, <1>4, <1>5, <1>6 DEF Matched, ages2, rec2

(* A tick makes both lists older, and drops from the history only.          *)
LEMMA TickKeepsMatched ==
    ASSUME NEW ages \in Seq(0..Horizon), NEW rec \in Seq(Nat), Matched(ages, rec),
           NEW kept, kept = DropOlder(rec, Horizon - 1),
           NEW ages2, ages2 = [i \in DOMAIN ages |-> Older(ages[i])],
           NEW rec2, rec2 = [i \in DOMAIN kept |-> kept[i] + 1]
    PROVE  Matched(ages2, rec2) /\ Len(ages2) = Len(ages)
<1> DEFINE m == Len(ages)
           n == Len(rec)
<1>1. /\ m \in Nat /\ n \in Nat
      /\ DOMAIN ages = 1..m /\ (\A i \in 1..m : ages[i] \in Nat /\ ages[i] <= Horizon)
      /\ \A i \in 1..n : rec[i] \in Nat
  <2>1. m \in Nat /\ n \in Nat /\ DOMAIN ages = 1..m /\ \A i \in 1..n : rec[i] \in Nat
    BY HorizonNat, SequenceNat
  <2>2. \A i \in 1..m : ages[i] \in 0..Horizon BY ElementOfSeq
  <2> QED BY <2>1, <2>2, WindowNat
<1>2. PICK k \in 0..n :
        /\ kept = SubSeq(rec, k + 1, n)
        /\ \A i \in 1..k : rec[i] >= Horizon - 1
        /\ k < n => rec[k + 1] < Horizon - 1
  BY WindowNat, DropOlderPrefix
<1> DEFINE l == n - k
<1>3. Len(rec2) = l /\ l \in Nat /\ \A i \in 1..l : rec2[i] = rec[k + i] + 1 /\ k + i \in 1..n
  <2>1. kept \in Seq(Nat) BY WindowNat, DropOlderType
  <2>2. Len(kept) = l /\ \A i \in 1..l : kept[i] = rec[k + i]
    BY <1>1, <1>2, SubSeqProperties
  <2>3. l \in Nat /\ (\A i \in 1..l : k + i \in 1..n) /\ DOMAIN kept = 1..l
    BY <1>1, <2>1, <2>2, LenProperties
  <2> HIDE DEF l, n
  <2>4. ASSUME NEW i \in 1..l PROVE kept[i] + 1 \in Nat
    <3>1. kept[i] = rec[k + i] /\ rec[k + i] \in Nat BY <1>1, <2>2, <2>3
    <3> QED BY <3>1
  <2>5. rec2 = [i \in 1..l |-> kept[i] + 1] BY <2>3
  <2>6. rec2 \in Seq(Nat)
    <3>1. rec2 \in [1..l -> Nat] BY <2>4, <2>5
    <3> QED BY <2>3, <3>1, SMTT(30)
  <2>7. Len(rec2) = l BY <2>3, <2>5, <2>6, LenProperties
  <2>8. \A i \in 1..l : rec2[i] = rec[k + i] + 1 BY <2>2, <2>5
  <2> QED BY <2>3, <2>7, <2>8
<1>4. Len(ages2) = m /\ \A i \in 1..m : ages2[i] = Older(ages[i]) /\ Older(ages[i]) \in Nat
  <2>1. \A age \in Nat : Older(age) \in Nat BY DEF Older
  <2>2. ages2 = [i \in 1..m |-> Older(ages[i])] /\ \A i \in 1..m : Older(ages[i]) \in Nat
    BY <1>1, <2>1
  <2> HIDE DEF m
  <2>3. ages2 \in Seq(Nat) BY <1>1, <2>2, IsASeq
  <2>4. Len(ages2) = m BY <1>1, <2>2, <2>3, LenProperties
  <2> QED BY <2>2, <2>4
<1>5. ASSUME NEW i \in 0..(l - 1)
      PROVE  /\ i \in 0..(n - 1) /\ n - i \in 1..n /\ l - i \in 1..l /\ n - i \in (k + 1)..n
             /\ rec2[l - i] = rec[n - i] + 1
  <2>1. /\ i \in 0..(n - 1) /\ n - i \in 1..n /\ l - i \in 1..l /\ n - i \in (k + 1)..n
        /\ k + (l - i) = n - i
    BY <1>1
  <2> QED BY <1>3, <2>1
<1> HIDE DEF l
<1>6. Ordered(rec2)
  <2> SUFFICES ASSUME NEW i \in 1..l
               PROVE  rec2[i] < Horizon /\ \A j \in i..l : rec2[j] <= rec2[i]
    BY <1>3 DEF Ordered
  <2>1. k < n /\ k + 1 \in 1..n /\ k + i \in 1..n /\ k + i \in (k + 1)..n
    BY <1>1, <1>3 DEF l
  <2>2. rec[k + i] <= rec[k + 1] /\ rec[k + 1] < Horizon - 1
    BY <1>2, <2>1 DEF Matched, Ordered
  <2>3. rec[k + i] \in Nat /\ rec[k + 1] \in Nat /\ rec2[i] = rec[k + i] + 1
    BY <1>1, <1>3, <2>1
  <2>4. rec2[i] < Horizon
    <3> DEFINE x == rec[k + i]
               y == rec[k + 1]
    <3>1. x \in Nat /\ y \in Nat /\ x <= y /\ y < Horizon - 1 /\ rec2[i] = x + 1 BY <2>2, <2>3
    <3> HIDE DEF x, y
    <3> QED BY <3>1, WindowNat
  <2>5. ASSUME NEW j \in i..l PROVE rec2[j] <= rec2[i]
    <3>1. j \in 1..l /\ k + j \in (k + i)..n /\ k + j \in 1..n BY <1>1, <1>3 DEF l
    <3>2. rec[k + j] <= rec[k + i] BY <2>1, <3>1 DEF Matched, Ordered
    <3>3. rec2[j] = rec[k + j] + 1 /\ rec[k + j] \in Nat BY <1>1, <1>3, <3>1
    <3> DEFINE x == rec[k + j]
               y == rec[k + i]
    <3>4. x \in Nat /\ y \in Nat /\ x <= y /\ rec2[j] = x + 1 /\ rec2[i] = y + 1
      BY <2>3, <3>2, <3>3
    <3> HIDE DEF x, y
    <3> QED BY <3>4
  <2> QED BY <2>4, <2>5
<1>7. Paired(ages2, rec2)
  <2> SUFFICES ASSUME NEW i \in 0..(l - 1), i < m
               PROVE  rec2[l - i] <= ages2[m - i] /\ ages2[m - i] <= rec2[l - i] + MaxLag
    BY <1>3, <1>4 DEF Paired
  <2> DEFINE x == ages[m - i]
             z == rec[n - i]
  <2>1. m - i \in 1..m BY <1>1, <1>3
  <2>2. z <= x /\ x <= z + MaxLag BY <1>5 DEF Matched, Paired
  <2>3. x \in Nat /\ z \in Nat /\ ages2[m - i] = Older(x) /\ rec2[l - i] = z + 1
    BY <1>1, <1>4, <1>5, <2>1
  <2>4. z + 1 < Horizon BY <1>3, <1>5, <1>6, <2>3 DEF Ordered
  <2> HIDE DEF x, z
  <2>5. z + 1 <= Older(x) /\ Older(x) <= z + 1 + MaxLag
    <3>1. Horizon \in Nat /\ MaxLag \in Nat BY WindowNat
    <3>2. CASE x < Horizon
      <4>1. Older(x) = x + 1 BY <2>3, <3>1, <3>2 DEF Older
      <4> QED BY <2>2, <2>3, <3>1, <4>1
    <3>3. CASE ~(x < Horizon)
      <4>1. Older(x) = x BY <3>3 DEF Older
      <4> QED BY <2>2, <2>3, <2>4, <3>1, <3>3, <4>1
    <3> QED BY <3>2, <3>3
  <2> QED BY <2>3, <2>5
<1>8. Checked(ages2, rec2)
  <2> SUFFICES ASSUME NEW i \in 0..(m - 1), ages2[m - i] < Horizon PROVE i < l
    BY <1>3, <1>4 DEF Checked
  <2>1. m - i \in 1..m BY <1>1
  <2>2. ages[m - i] \in Nat /\ Older(ages[m - i]) < Horizon BY <1>1, <1>4, <2>1
  <2>3. ages[m - i] < Horizon - 1
    <3> DEFINE x == ages[m - i]
    <3>1. x \in Nat /\ Older(x) < Horizon BY <2>2
    <3> HIDE DEF x
    <3>2. x < Horizon - 1 BY <3>1, WindowNat DEF Older
    <3> QED BY <3>2 DEF x
  <2>4. ages[m - i] < Horizon BY <2>2, <2>3, WindowNat
  <2>5. i < n BY <2>4 DEF Matched, Checked
  <2>6. n - i \in 1..n /\ i \in 0..(n - 1) BY <1>1, <2>5
  <2>7. rec[n - i] <= ages[m - i]
    <3>1. i < m /\ Paired(ages, rec) BY <1>1 DEF Matched
    <3> QED BY <2>6, <3>1 DEF Paired
  <2>8. ASSUME n - i \in 1..k PROVE FALSE
    <3> DEFINE x == ages[m - i]
               z == rec[n - i]
    <3>1. x \in Nat /\ z \in Nat /\ z <= x /\ x < Horizon - 1 /\ z >= Horizon - 1
      BY <1>1, <1>2, <2>2, <2>3, <2>6, <2>7, <2>8
    <3> HIDE DEF x, z
    <3> QED BY <3>1, WindowNat
  <2> QED BY <1>1, <2>6, <2>8 DEF l
<1>9. Covered(ages2, rec2)
  <2> SUFFICES ASSUME NEW i \in 0..(l - 1), rec2[l - i] < Window - MaxLag PROVE i < m
    BY <1>3, <1>4 DEF Covered
  <2>1. i \in 0..(n - 1) /\ rec[n - i] \in Nat /\ rec[n - i] + 1 < Window - MaxLag
    BY <1>1, <1>5
  <2>2. rec[n - i] < Window - MaxLag
    <3> DEFINE z == rec[n - i]
    <3>1. z \in Nat /\ z + 1 < Window - MaxLag BY <2>1
    <3> HIDE DEF z
    <3>2. z < Window - MaxLag BY <3>1, WindowNat
    <3> QED BY <3>2 DEF z
  <2> QED BY <2>1, <2>2 DEF Matched, Covered
<1> QED BY <1>4, <1>6, <1>7, <1>8, <1>9 DEF Matched

LEMMA EmptyMatched == Matched(<<>>, <<>>) /\ Len(<<>>) <= PerMinute
BY WindowNat DEF Matched, Ordered, Paired, Checked, Covered

LEMMA WindowStep == TypeOK /\ WindowInv /\ [Next]_vars => WindowInv'
<1> SUFFICES ASSUME TypeOK, WindowInv, [Next]_vars PROVE WindowInv'
  OBVIOUS
<1>0. \A p \in Procs, c \in Companies :
         hits[p][c] \in Seq(0..Horizon) /\ recent[p][c] \in Seq(Nat)
  BY DEF TypeOK
<1>1. ASSUME NEW r \in Requests, CheckMinute(r) PROVE WindowInv'
  <2> DEFINE p == req[r].proc
             c == req[r].company
             live == Live(Hits(r), lag[r])
  <2>1. p \in Procs /\ c \in Companies /\ lag[r] \in 0..MaxLag
    BY <1>1, InsideRequest DEF CheckMinute, TypeOK
  <2>2. Matched(hits[p][c], recent[p][c]) /\ Len(hits[p][c]) <= PerMinute
    BY <2>1 DEF WindowInv
  <2>3. Matched(live, recent[p][c]) /\ Len(live) <= PerMinute
    <3>1. Matched(live, recent[p][c]) BY <1>0, <2>1, <2>2, ExpiryKeepsMatched DEF Hits
    <3>2. PICK k \in 0..Len(hits[p][c]) : Len(live) = Len(hits[p][c]) - k
      BY <1>0, <2>1, LivePrefix DEF Hits
    <3>3. Len(hits[p][c]) \in Nat BY <1>0, <2>1, LenProperties
    <3> DEFINE x == Len(live)
               y == Len(hits[p][c])
    <3>4. y \in Nat /\ k \in 0..y /\ x = y - k /\ y <= PerMinute BY <2>2, <3>2, <3>3
    <3> HIDE DEF x, y
    <3>5. x <= PerMinute BY <3>4, WindowNat
    <3> QED BY <3>1, <3>5 DEF x
  <2>4. live \in Seq(0..Horizon)
    <3>1. lag[r] \in Nat BY <2>1, ConstantsAssumption
    <3> QED BY <1>0, <2>1, <3>1, LiveType DEF Hits
  <2> HIDE DEF live
  <2>0. /\ \A q \in Procs, d \in Companies : ~(q = p /\ d = c) =>
             hits'[q][d] = hits[q][d] /\ recent'[q][d] = recent[q][d]
        /\ \/ OverMinute(r) /\ hits'[p][c] = live /\ recent' = recent
           \/ ~OverMinute(r) /\ hits'[p][c] = Append(live, lag[r])
              /\ recent'[p][c] = Append(recent[p][c], 0)
    <3>1. hits \in [Procs -> [Companies -> Seq(0..Horizon)]]
          /\ recent \in [Procs -> [Companies -> Seq(Nat)]]
      BY DEF TypeOK
    <3>2. Append(live, lag[r]) \in Seq(0..Horizon) /\ Append(recent[p][c], 0) \in Seq(Nat)
      <4>1. lag[r] \in 0..Horizon BY <2>1, ConstantsAssumption DEF Horizon
      <4> QED BY <1>0, <2>1, <2>4, <4>1, AppendProperties
    <3>3. CASE OverMinute(r)
      <4>1. hits' = [hits EXCEPT ![p][c] = live] /\ recent' = recent
        BY <1>1, <3>3 DEF CheckMinute, live
      <4>2. \A q \in Procs, d \in Companies :
               [hits EXCEPT ![p][c] = live][q][d] = IF q = p /\ d = c THEN live ELSE hits[q][d]
        BY <2>1, <2>4, <3>1
      <4> QED BY <2>1, <3>3, <4>1, <4>2
    <3>4. CASE ~OverMinute(r)
      <4> DEFINE hit == Append(live, lag[r])
                 check == Append(recent[p][c], 0)
      <4>1. hits' = [hits EXCEPT ![p][c] = hit] /\ recent' = [recent EXCEPT ![p][c] = check]
        BY <1>1, <3>4 DEF CheckMinute, live
      <4>2. hit \in Seq(0..Horizon) /\ check \in Seq(Nat) BY <3>2
      <4> HIDE DEF hit, check
      <4>3. \A q \in Procs, d \in Companies :
               [hits EXCEPT ![p][c] = hit][q][d] = IF q = p /\ d = c THEN hit ELSE hits[q][d]
        BY <2>1, <3>1, <4>2
      <4>4. \A q \in Procs, d \in Companies :
               [recent EXCEPT ![p][c] = check][q][d]
                 = IF q = p /\ d = c THEN check ELSE recent[q][d]
        BY <2>1, <3>1, <4>2
      <4>5. hits'[p][c] = hit /\ recent'[p][c] = check
            /\ \A q \in Procs, d \in Companies : ~(q = p /\ d = c) =>
                  hits'[q][d] = hits[q][d] /\ recent'[q][d] = recent[q][d]
        BY <2>1, <4>1, <4>3, <4>4
      <4> QED BY <3>4, <4>5 DEF hit, check
    <3> QED BY <3>3, <3>4
  <2> SUFFICES ASSUME NEW q \in Procs, NEW d \in Companies
               PROVE  Matched(hits'[q][d], recent'[q][d]) /\ Len(hits'[q][d]) <= PerMinute
    BY DEF WindowInv
  <2>5. CASE ~(q = p /\ d = c)
    <3>1. hits'[q][d] = hits[q][d] /\ recent'[q][d] = recent[q][d]
      BY <2>0, <2>5
    <3> QED BY <3>1 DEF WindowInv
  <2>6. CASE q = p /\ d = c /\ OverMinute(r)
    <3>1. hits'[p][c] = live /\ recent' = recent BY <2>0, <2>6
    <3> QED BY <2>2, <2>3, <2>6, <3>1
  <2>7. CASE q = p /\ d = c /\ ~OverMinute(r)
    <3>1. hits'[p][c] = Append(live, lag[r]) /\ recent'[p][c] = Append(recent[p][c], 0)
      BY <2>0, <2>7
    <3>2. Matched(Append(live, lag[r]), Append(recent[p][c], 0))
      BY <1>0, <2>1, <2>3, <2>4, RecordKeepsMatched
    <3>3. Len(live) < PerMinute
      <4>1. ~(Len(live) >= PerMinute) BY <2>7 DEF OverMinute, live
      <4>2. Len(live) \in Nat /\ PerMinute \in Nat BY <2>4, ConstantsAssumption, LenProperties
      <4> QED BY <4>1, <4>2
    <3>4. Len(Append(live, lag[r])) = Len(live) + 1 /\ Len(live) \in Nat
      BY <2>4, AppendProperties, LenProperties
    <3>5. Len(Append(live, lag[r])) <= PerMinute BY <3>3, <3>4, WindowNat
    <3> QED BY <2>7, <3>1, <3>2, <3>5
  <2> QED BY <2>5, <2>6, <2>7
<1>2. ASSUME NEW p \in Procs, Crash(p) PROVE WindowInv'
  <2> SUFFICES ASSUME NEW q \in Procs, NEW d \in Companies
               PROVE  Matched(hits'[q][d], recent'[q][d]) /\ Len(hits'[q][d]) <= PerMinute
    BY DEF WindowInv
  <2>1. CASE q = p
    <3>1. hits'[q][d] = <<>> /\ recent'[q][d] = <<>> BY <1>2, <2>1 DEF Crash, TypeOK
    <3> QED BY <3>1, EmptyMatched
  <2>2. CASE q # p
    <3>1. hits'[q][d] = hits[q][d] /\ recent'[q][d] = recent[q][d]
      BY <1>2, <2>2 DEF Crash, TypeOK
    <3> QED BY <3>1 DEF WindowInv
  <2> QED BY <2>1, <2>2
<1>3. CASE Tick
  <2> SUFFICES ASSUME NEW q \in Procs, NEW d \in Companies
               PROVE  Matched(hits'[q][d], recent'[q][d]) /\ Len(hits'[q][d]) <= PerMinute
    BY DEF WindowInv
  <2> DEFINE kept == DropOlder(recent[q][d], Horizon - 1)
  <2>1. hits'[q][d] = [i \in DOMAIN hits[q][d] |-> Older(hits[q][d][i])] BY <1>3 DEF Tick
  <2>2. recent'[q][d] = [i \in DOMAIN kept |-> kept[i] + 1] BY <1>3 DEF Tick
  <2>3. Matched(hits[q][d], recent[q][d]) /\ Len(hits[q][d]) <= PerMinute BY DEF WindowInv
  <2> HIDE DEF kept
  <2>4. Matched(hits'[q][d], recent'[q][d]) /\ Len(hits'[q][d]) = Len(hits[q][d])
    BY <1>0, <2>1, <2>2, <2>3, TickKeepsMatched DEF kept
  <2> QED BY <2>3, <2>4
<1>4. ASSUME UNCHANGED <<hits, recent>> PROVE WindowInv'
  BY <1>4 DEF WindowInv
<1> QED
  BY <1>1, <1>2, <1>3, <1>4
     DEF Next, Step, ReadClock, Acquire, CountDay, CountDayFails, Release, NewDay, vars

(* In the life of a process no window of 60 seconds less the lag admits     *)
(* more than rate_limit_per_min checks, although clock readings are          *)
(* recorded out of order and the expiry loop stops at the first live hit:    *)
(* each fresh check still has its hit, and the hits never exceed the limit.  *)
THEOREM WindowCorrect == Spec => []WindowBound
<1>1. Init => WindowInv BY EmptyMatched DEF Init, WindowInv
<1>2. TypeOK /\ WindowInv => WindowBound
  <2> SUFFICES ASSUME TypeOK, WindowInv, NEW p \in Procs, NEW c \in Companies
               PROVE  Len(DropOlder(recent[p][c], Window - MaxLag)) <= PerMinute
    BY DEF WindowBound
  <2> DEFINE rec == recent[p][c]
             ages == hits[p][c]
             n == Len(rec)
             m == Len(ages)
             fresh == DropOlder(rec, Window - MaxLag)
  <2>1. rec \in Seq(Nat) /\ ages \in Seq(0..Horizon) BY DEF TypeOK
  <2>2. Matched(ages, rec) /\ m <= PerMinute BY DEF WindowInv
  <2>3. n \in Nat /\ m \in Nat BY <2>1, LenProperties
  <2>4. PICK k \in 0..n :
          fresh = SubSeq(rec, k + 1, n) /\ (k < n => rec[k + 1] < Window - MaxLag)
    BY <2>1, WindowNat, DropOlderPrefix
  <2>5. Len(fresh) = n - k
    <3>1. \A i \in (k + 1)..n : rec[i] \in Nat
      <4>1. \A i \in 1..n : rec[i] \in Nat BY <2>1, SequenceNat
      <4> QED BY <2>3, <4>1
    <3>2. fresh = SubSeq(rec, k + 1, n) BY <2>4
    <3> HIDE DEF rec, n, fresh
    <3>3. Len(SubSeq(rec, k + 1, n)) = n - k BY <2>3, <3>1, SubSeqProperties
    <3> QED BY <3>2, <3>3
  <2> HIDE DEF fresh
  <2>6. CASE k = n BY <2>3, <2>5, <2>6, WindowNat DEF fresh
  <2>7. CASE k < n
    <3>1. n - k - 1 \in 0..(n - 1) /\ n - (n - k - 1) = k + 1
      <4> HIDE DEF n
      <4> QED BY <2>3, <2>7
    <3>2. n - k - 1 < m BY <2>2, <2>4, <2>7, <3>1 DEF Matched, Covered
    <3>3. PerMinute \in Nat BY WindowNat
    <3> HIDE DEF m, n
    <3>4. Len(fresh) <= PerMinute BY <2>2, <2>3, <2>5, <3>2, <3>3
    <3> QED BY <3>4 DEF fresh
  <2> QED BY <2>3, <2>6, <2>7
<1> QED BY <1>1, <1>2, TypeInit, TypeStep, WindowStep, PTL DEF Spec

(* Whoever is refused has had rate_limit_per_min checks pass within a        *)
(* window lengthened by the lag: a live hit at the head of the list vouches  *)
(* for itself and for every hit behind it, expired or not.                   *)
THEOREM RefusalCorrect == Spec => []RefusedOnlyWhenFull
<1>1. Init => WindowInv BY EmptyMatched DEF Init, WindowInv
<1>2. TypeOK /\ WindowInv => RefusedOnlyWhenFull
  <2> SUFFICES ASSUME TypeOK, WindowInv, NEW r \in Requests, pc[r] = "stamped", OverMinute(r)
               PROVE  Len(recent[req[r].proc][req[r].company]) >= PerMinute
    BY DEF RefusedOnlyWhenFull
  <2> DEFINE p == req[r].proc
             c == req[r].company
             rec == recent[p][c]
             ages == hits[p][c]
             n == Len(rec)
             m == Len(ages)
             waited == lag[r]
  <2>1. p \in Procs /\ c \in Companies BY InsideRequest
  <2>2. rec \in Seq(Nat) /\ ages \in Seq(0..Horizon) /\ waited \in 0..MaxLag
    BY <2>1 DEF TypeOK
  <2>3. Matched(ages, rec) BY <2>1 DEF WindowInv
  <2>4. n \in Nat /\ m \in Nat BY <2>2, LenProperties
  <2>5. PICK k \in 0..m :
          Len(Live(ages, waited)) = m - k /\ (k < m => ages[k + 1] < Window + waited)
    BY <2>2, LivePrefix
  <2>6. m - k >= PerMinute BY <2>5 DEF OverMinute, Hits
  <2>7. k < m BY <2>4, <2>6, WindowNat
  <2>8. ages[k + 1] < Horizon
    <3> DEFINE x == ages[k + 1]
    <3>1. k + 1 \in 1..m BY <2>4, <2>7
    <3>2. x \in 0..Horizon BY <2>2, <3>1, ElementOfSeq
    <3>3. x < Window + waited BY <2>5, <2>7
    <3> HIDE DEF x, waited
    <3>4. x < Horizon BY <2>2, <3>2, <3>3, WindowNat
    <3> QED BY <3>4 DEF x
  <2>9. m - k - 1 \in 0..(m - 1) /\ m - (m - k - 1) = k + 1
    <3> HIDE DEF m
    <3> QED BY <2>4, <2>7
  <2>10. m - k - 1 < n BY <2>3, <2>8, <2>9 DEF Matched, Checked
  <2> HIDE DEF n, m
  <2>11. n >= PerMinute BY <2>4, <2>6, <2>10, WindowNat
  <2> QED BY <2>11 DEF n
<1> QED BY <1>1, <1>2, TypeInit, TypeStep, WindowStep, PTL DEF Spec
=============================================================================
