-------------------------- MODULE EventSink_proofs ---------------------------
(***************************************************************************)
(* Theorems about EventSink, for any number of request threads, any limits  *)
(* and any number of events.                                                 *)
(***************************************************************************)
EXTENDS EventSink, FiniteSetTheorems, SequenceTheorems, TLAPS

-----------------------------------------------------------------------------
(* Buffers as sequences.                                                    *)

(* From the first event to the last they were added in this order.          *)
Ascending(s) == \A i, j \in DOMAIN s : i < j => s[i] < s[j]

(* Trim keeps the end of the list: it adds nothing, doubles nothing, and if *)
(* it drops something the buffer is full.  What it drops was in front.       *)
LEMMA TrimKeeps ==
    ASSUME NEW S, NEW s \in Seq(S)
    PROVE  /\ Trim(s) \in Seq(S)
           /\ Len(Trim(s)) <= MaxBuffer
           /\ Range(Trim(s)) \subseteq Range(s)
           /\ IsInjective(s) => IsInjective(Trim(s))
           /\ Range(Trim(s)) # Range(s) => Len(Trim(s)) = MaxBuffer
           /\ \A i \in DOMAIN s : i > Len(s) - MaxBuffer => s[i] \in Range(Trim(s))
           /\ Ascending(s) => /\ Ascending(Trim(s))
                              /\ \A lost \in Range(s) \ Range(Trim(s)), kept \in Range(Trim(s)) :
                                   lost < kept
<1>1. MaxBuffer \in Nat \ {0} /\ Len(s) \in Nat BY ConstantsAssumption
<1>2. CASE Len(s) <= MaxBuffer
  <2>1. Trim(s) = s BY <1>1, <1>2 DEF Trim
  <2> QED BY <1>1, <1>2, <2>1 DEF Range
<1>3. CASE Len(s) > MaxBuffer
  <2> DEFINE k == Len(s) - MaxBuffer
             t == SubSeq(s, k + 1, Len(s))
  <2>1. Trim(s) = t BY <1>3 DEF Trim
  <2>2. k \in Nat /\ k + MaxBuffer = Len(s) BY <1>1, <1>3
  <2>3. t \in Seq(S) /\ Len(t) = MaxBuffer /\ DOMAIN t = 1..MaxBuffer
        /\ \A i \in 1..MaxBuffer : t[i] = s[k + i]
    BY <1>1, <2>2
  <2>4. \A i \in 1..MaxBuffer : k + i \in DOMAIN s BY <1>1, <2>2
  <2>5. Range(t) \subseteq Range(s) BY <2>3, <2>4 DEF Range
  <2>6. ASSUME IsInjective(s) PROVE IsInjective(t)
    <3>1. ASSUME NEW i \in 1..MaxBuffer, NEW j \in 1..MaxBuffer, t[i] = t[j] PROVE i = j
      <4>1. k + i \in DOMAIN s /\ k + j \in DOMAIN s /\ s[k + i] = s[k + j] BY <2>3, <2>4, <3>1
      <4>2. k + i = k + j BY <2>6, <4>1 DEF IsInjective
      <4> HIDE DEF k
      <4> QED BY <1>1, <2>2, <3>1, <4>2
    <3> HIDE DEF t
    <3> QED BY <2>3, <3>1 DEF IsInjective
  <2>7. ASSUME NEW i \in DOMAIN s, i > k PROVE s[i] \in Range(t)
    <3>1. i - k \in 1..MaxBuffer /\ k + (i - k) = i BY <1>1, <2>2, <2>7
    <3> QED BY <2>3, <3>1 DEF Range
  <2>8. ASSUME Ascending(s)
        PROVE  /\ Ascending(t)
               /\ \A lost \in Range(s) \ Range(t), kept \in Range(t) : lost < kept
    <3>1. ASSUME NEW i \in 1..MaxBuffer, NEW j \in 1..MaxBuffer, i < j PROVE t[i] < t[j]
      <4>1. k + i < k + j BY <2>2, <3>1
      <4> QED BY <2>3, <2>4, <2>8, <4>1 DEF Ascending
    <3>2. ASSUME NEW lost \in Range(s) \ Range(t), NEW kept \in Range(t) PROVE lost < kept
      <4>1. PICK i \in DOMAIN s : lost = s[i] BY DEF Range
      <4>2. ~(i > k) BY <2>7, <4>1
      <4>3. PICK j \in 1..MaxBuffer : kept = t[j] BY <2>3 DEF Range
      <4>4. i < k + j /\ k + j \in DOMAIN s BY <1>1, <2>2, <2>4, <4>1, <4>2, <4>3
      <4> QED BY <2>3, <2>8, <4>1, <4>3, <4>4 DEF Ascending
    <3> HIDE DEF t
    <3> QED BY <2>3, <3>1, <3>2 DEF Ascending
  <2> HIDE DEF t
  <2> QED BY <1>1, <2>1, <2>3, <2>5, <2>6, <2>7, <2>8
<1> QED BY <1>1, <1>2, <1>3

(* One list put in front of another.                                        *)
LEMMA Concatenation ==
    ASSUME NEW S, NEW s \in Seq(S), NEW t \in Seq(S)
    PROVE  /\ s \o t \in Seq(S)
           /\ Range(s \o t) = Range(s) \cup Range(t)
           /\ IsInjective(s) /\ IsInjective(t) /\ Range(s) \cap Range(t) = {}
                => IsInjective(s \o t)
           /\ Len(s \o t) = Len(s) + Len(t)
           /\ \A e \in Range(t) : \E i \in DOMAIN (s \o t) : i > Len(s) /\ (s \o t)[i] = e
           /\ Ascending(s) /\ Ascending(t) /\ (\A e \in Range(s), w \in Range(t) : e < w)
                => Ascending(s \o t)
<1> DEFINE m == Len(s)
           n == Len(t)
<1>1. m \in Nat /\ n \in Nat /\ DOMAIN s = 1..m /\ DOMAIN t = 1..n OBVIOUS
<1>2. s \o t \in Seq(S) /\ DOMAIN (s \o t) = 1..(m + n)
      /\ \A i \in 1..(m + n) : (s \o t)[i] = IF i <= m THEN s[i] ELSE t[i - m]
  OBVIOUS
<1>3. Range(s \o t) \subseteq Range(s) \cup Range(t)
  <2> SUFFICES ASSUME NEW i \in 1..(m + n) PROVE (s \o t)[i] \in Range(s) \cup Range(t)
    BY <1>2 DEF Range
  <2>1. i <= m => i \in DOMAIN s BY <1>1
  <2>2. i > m => i - m \in DOMAIN t BY <1>1
  <2> QED BY <1>1, <1>2, <2>1, <2>2 DEF Range
<1>4. Range(s) \subseteq Range(s \o t)
  <2>1. \A i \in 1..m : i \in 1..(m + n) /\ (s \o t)[i] = s[i] BY <1>1, <1>2
  <2> QED BY <1>1, <1>2, <2>1 DEF Range
<1>5. Range(t) \subseteq Range(s \o t)
  <2> SUFFICES ASSUME NEW i \in 1..n PROVE t[i] \in Range(s \o t) BY <1>1 DEF Range
  <2>1. m + i \in 1..(m + n) /\ (s \o t)[m + i] = t[i] BY <1>1, <1>2
  <2> QED BY <1>2, <2>1 DEF Range
<1>6. ASSUME IsInjective(s), IsInjective(t), Range(s) \cap Range(t) = {}
      PROVE  IsInjective(s \o t)
  <2> SUFFICES ASSUME NEW i \in 1..(m + n), NEW j \in 1..(m + n), i < j,
                      (s \o t)[i] = (s \o t)[j]
               PROVE  FALSE
    <3>1. ASSUME NEW i \in 1..(m + n), NEW j \in 1..(m + n), (s \o t)[i] = (s \o t)[j]
          PROVE  i = j
      <4>1. ~(i < j) /\ ~(j < i) BY <3>1
      <4> QED BY <1>1, <4>1
    <3> HIDE DEF m, n
    <3> QED BY <1>2, <3>1 DEF IsInjective
  <2>1. CASE j <= m
    <3>1. i \in DOMAIN s /\ j \in DOMAIN s /\ s[i] = s[j] BY <1>1, <1>2, <2>1
    <3> QED BY <1>6, <3>1 DEF IsInjective
  <2>2. CASE i <= m /\ j > m
    <3>1. i \in DOMAIN s /\ j - m \in DOMAIN t /\ s[i] = t[j - m] BY <1>1, <1>2, <2>2
    <3> QED BY <1>6, <3>1 DEF Range
  <2>3. CASE i > m
    <3>1. i - m \in DOMAIN t /\ j - m \in DOMAIN t /\ t[i - m] = t[j - m] /\ i - m # j - m
      BY <1>1, <1>2, <2>3
    <3> QED BY <1>6, <3>1 DEF IsInjective
  <2> QED BY <1>1, <2>1, <2>2, <2>3
<1>7. ASSUME NEW e \in Range(t)
      PROVE  \E i \in DOMAIN (s \o t) : i > m /\ (s \o t)[i] = e
  <2>1. PICK i \in 1..n : t[i] = e BY <1>1 DEF Range
  <2>2. m + i \in 1..(m + n) /\ m + i > m /\ (s \o t)[m + i] = t[i] BY <1>1, <1>2, <2>1
  <2> HIDE DEF m, n
  <2> QED BY <1>2, <2>1, <2>2
<1>8. ASSUME Ascending(s), Ascending(t), \A e \in Range(s), w \in Range(t) : e < w
      PROVE  Ascending(s \o t)
  <2> SUFFICES ASSUME NEW i \in 1..(m + n), NEW j \in 1..(m + n), i < j
               PROVE  (s \o t)[i] < (s \o t)[j]
    <3> HIDE DEF m, n
    <3> QED BY <1>2 DEF Ascending
  <2>1. CASE j <= m
    <3>1. i \in DOMAIN s /\ j \in DOMAIN s /\ (s \o t)[i] = s[i] /\ (s \o t)[j] = s[j]
      BY <1>1, <1>2, <2>1
    <3> QED BY <1>8, <3>1 DEF Ascending
  <2>2. CASE i <= m /\ j > m
    <3>1. i \in DOMAIN s /\ j - m \in DOMAIN t /\ (s \o t)[i] = s[i] /\ (s \o t)[j] = t[j - m]
      BY <1>1, <1>2, <2>2
    <3> QED BY <1>8, <3>1 DEF Range
  <2>3. CASE i > m
    <3>1. /\ i - m \in DOMAIN t /\ j - m \in DOMAIN t /\ i - m < j - m
          /\ (s \o t)[i] = t[i - m] /\ (s \o t)[j] = t[j - m]
      BY <1>1, <1>2, <2>3
    <3> QED BY <1>8, <3>1 DEF Ascending
  <2> QED BY <1>1, <2>1, <2>2, <2>3
<1>9. Len(s \o t) = m + n OBVIOUS
<1> QED BY <1>2, <1>3, <1>4, <1>5, <1>6, <1>7, <1>8, <1>9

LEMMA Appended ==
    ASSUME NEW S, NEW s \in Seq(S), NEW e \in S
    PROVE  /\ Append(s, e) \in Seq(S)
           /\ Range(Append(s, e)) = Range(s) \cup {e}
           /\ IsInjective(s) /\ e \notin Range(s) => IsInjective(Append(s, e))
           /\ Ascending(s) /\ (\A d \in Range(s) : d < e) => Ascending(Append(s, e))
<1> DEFINE one == <<e>>
<1>1. one \in Seq(S) /\ DOMAIN one = {1} /\ one[1] = e OBVIOUS
<1>2. Append(s, e) = s \o one OBVIOUS
<1> HIDE DEF one
<1>3. Range(one) = {e} /\ IsInjective(one) BY <1>1 DEF Range, IsInjective
<1>4. e \notin Range(s) => Range(s) \cap Range(one) = {} BY <1>3
<1>5. Range(s \o one) = Range(s) \cup {e} /\ s \o one \in Seq(S) BY <1>1, <1>3, Concatenation
<1>6. IsInjective(s) /\ e \notin Range(s) => IsInjective(s \o one)
  BY <1>1, <1>3, <1>4, Concatenation
<1>7. Ascending(s) /\ (\A d \in Range(s) : d < e) => Ascending(s \o one)
  <2>1. Ascending(one) BY <1>1 DEF Ascending
  <2> QED BY <1>1, <1>3, <2>1, Concatenation
<1> QED BY <1>2, <1>5, <1>6, <1>7

(* A list without repetition has as many members as its length.             *)
LEMMA CountMembers ==
    ASSUME NEW S, NEW s \in Seq(S), IsInjective(s)
    PROVE  IsFiniteSet(Range(s)) /\ Cardinality(Range(s)) = Len(s)
<1> DEFINE n == Len(s)
<1>1. n \in Nat /\ DOMAIN s = 1..n OBVIOUS
<1>2. s \in Bijection(1..n, Range(s))
  <2>1. s \in [1..n -> Range(s)] BY <1>1 DEF Range
  <2> QED BY <1>1, <2>1 DEF Bijection, Injection, Surjection, IsInjective, Range
<1>3. IsFiniteSet(1..n) /\ Cardinality(1..n) = n
  <2>1. n \in Int /\ 1 \in Int /\ (n # 0 => ~(1 > n)) BY <1>1
  <2> HIDE DEF n
  <2>2. CASE n = 0
    <3>1. 1..n = {} BY <2>2
    <3> QED BY <2>2, <3>1, FS_EmptySet
  <2>3. CASE n # 0
    <3>1. IsFiniteSet(1..n) /\ Cardinality(1..n) = IF 1 > n THEN 0 ELSE n - 1 + 1
      BY <2>1, <2>3, FS_Interval
    <3> QED BY <1>1, <2>1, <2>3, <3>1
  <2> QED BY <2>2, <2>3
<1>4. ExistsBijection(1..n, Range(s)) BY <1>2 DEF ExistsBijection
<1> QED BY <1>3, <1>4, FS_Bijection

-----------------------------------------------------------------------------
(* Types.                                                                   *)

LEMMA Roles ==
    /\ Flusher \in Threads /\ Stopper \in Threads /\ Flusher # Stopper
    /\ \A t \in Adders : t \in Threads /\ t # Flusher /\ t # Stopper
    /\ MaxBuffer \in Nat \ {0} /\ MaxEvents \in Nat
BY ConstantsAssumption DEF Threads

(* Where the threads are after one of them has moved.                       *)
LEMMA Moved ==
    ASSUME TypeOK, NEW t \in Threads, NEW place \in Places, place \in PlacesOf(t),
           pc' = [pc EXCEPT ![t] = place]
    PROVE  /\ pc' \in [Threads -> Places]
           /\ \A u \in Threads : pc'[u] \in PlacesOf(u)
           /\ pc'[t] = place
           /\ \A u \in Threads \ {t} : pc'[u] = pc[u]
BY DEF TypeOK

LEMMA Resumed ==
    ASSUME TypeOK, NEW t \in Threads, Resume(t)
    PROVE  /\ pc' \in [Threads -> Places]
           /\ \A u \in Threads : pc'[u] \in PlacesOf(u)
           /\ pc'[t] = IF t = Flusher THEN "waiting" ELSE IF t = Stopper THEN "done" ELSE "idle"
           /\ \A u \in Threads \ {t} : pc'[u] = pc[u]
<1> DEFINE place == IF t = Flusher THEN "waiting" ELSE IF t = Stopper THEN "done" ELSE "idle"
<1>1. place \in Places /\ place \in PlacesOf(t) BY DEF Places, PlacesOf
<1>2. pc' = [pc EXCEPT ![t] = place] BY DEF Resume
<1> HIDE DEF place
<1>3. /\ pc' \in [Threads -> Places] /\ \A u \in Threads : pc'[u] \in PlacesOf(u)
      /\ pc'[t] = place /\ \A u \in Threads \ {t} : pc'[u] = pc[u]
  BY <1>1, <1>2, Moved
<1> QED BY <1>3 DEF place

LEMMA MoreEvents ==
    ASSUME NEW n \in Nat, NEW s \in Seq(1..n)
    PROVE  s \in Seq(1..(n + 1))
OBVIOUS

HistoryOK ==
    /\ {troubled, overtaken} \subseteq BOOLEAN
    /\ swept \in 0..added /\ life \in {0, 1}

LEMMA TypeInitially ==
    ASSUME Init
    PROVE  TypeOK
<1>1. added \in 0..MaxEvents /\ stored \subseteq 1..added BY Roles DEF Init
<1>2. buf = <<>> /\ buf \in Seq(1..added) /\ Len(buf) <= MaxBuffer BY Roles DEF Init
<1>3. pc = Started /\ Started \in [Threads -> Places] BY DEF Init, Started, Places
<1>4. \A t \in Threads : Started[t] \in PlacesOf(t) /\ Started[t] # "uploading"
  BY DEF Started, PlacesOf
<1>5. \A t \in Threads : batch[t] = <<>> BY DEF Init
<1>6. batch \in [Threads -> Seq(1..added)] BY DEF Init
<1>7. HistoryOK
  <2>1. {troubled, overtaken} \subseteq BOOLEAN BY DEF Init
  <2>2. swept \in 0..added /\ life \in {0, 1} BY DEF Init
  <2> QED BY <2>1, <2>2 DEF HistoryOK
<1> QED BY <1>1, <1>2, <1>3, <1>4, <1>5, <1>6, <1>7 DEF TypeOK, HistoryOK

LEMMA HistoryPreserved ==
    ASSUME TypeOK, [Next]_vars
    PROVE  HistoryOK'
<1>1. added \in Nat /\ HistoryOK BY DEF TypeOK, HistoryOK
<1>2. ASSUME NEW t \in Adders, Add(t) PROVE HistoryOK'
  BY <1>1, <1>2 DEF Add, HistoryOK
<1>3. ASSUME NEW t \in Threads, Take(t) PROVE HistoryOK'
  BY <1>1, <1>3 DEF Take, HistoryOK
<1>4. ASSUME NEW t \in Threads, Upload(t) PROVE HistoryOK'
  BY <1>1, <1>4 DEF Upload, EncodeFails, PutOk, PutFails, Overtaken, Stopping, HistoryOK
<1>5. CASE Wake \/ BeginStop \/ Join \/ UNCHANGED vars
  BY <1>1, <1>5 DEF Wake, BeginStop, Join, vars, HistoryOK
<1>6. CASE ProcessEnds
  <2>1. {troubled', overtaken'} \subseteq BOOLEAN BY <1>6 DEF ProcessEnds
  <2>2. swept' \in 0..added' /\ life' \in {0, 1} BY <1>1, <1>6 DEF ProcessEnds, HistoryOK
  <2> QED BY <2>1, <2>2 DEF HistoryOK
<1> QED BY <1>2, <1>3, <1>4, <1>5, <1>6 DEF Next

LEMMA TypePreserved ==
    ASSUME TypeOK, [Next]_vars
    PROVE  TypeOK'
<1>0. HistoryOK' BY HistoryPreserved
<1> USE <1>0 DEF HistoryOK
<1>1. ASSUME NEW t \in Adders, Add(t) PROVE TypeOK'
  <2>1. t \in Threads /\ t # Flusher /\ t # Stopper BY Roles
  <2>2. added \in Nat /\ added' = added + 1 /\ added' \in 0..MaxEvents
    BY <1>1, Roles DEF Add, TypeOK
  <2>3. buf' \in Seq(1..added') /\ Len(buf') <= MaxBuffer
    <3>1. buf \in Seq(1..added') /\ added' \in 1..added' BY <2>2, MoreEvents DEF TypeOK
    <3>2. Append(buf, added') \in Seq(1..added') BY <3>1, Appended
    <3> QED BY <1>1, <2>2, <3>2, TrimKeeps DEF Add
  <2>4. /\ pc' \in [Threads -> Places]
        /\ \A u \in Threads : pc'[u] \in PlacesOf(u)
        /\ pc'[t] # "uploading"
        /\ \A u \in Threads \ {t} : pc'[u] = pc[u]
    <3> DEFINE place == IF Len(buf') >= FlushMax THEN "due" ELSE "idle"
    <3>1. place \in Places /\ place \in PlacesOf(t) /\ place # "uploading"
      BY <2>1 DEF Places, PlacesOf
    <3>2. pc' = [pc EXCEPT ![t] = place] BY <1>1 DEF Add
    <3> HIDE DEF place
    <3> QED BY <2>1, <3>1, <3>2, Moved
  <2>5. batch' = batch /\ batch' \in [Threads -> Seq(1..added')]
    <3>1. batch' = batch /\ batch \in [Threads -> Seq(1..added)] BY <1>1 DEF Add, TypeOK
    <3>2. \A s \in Seq(1..added) : s \in Seq(1..added') BY <2>2, MoreEvents
    <3> QED BY <3>1, <3>2
  <2>6. \A u \in Threads : pc'[u] # "uploading" <=> batch'[u] = <<>>
    BY <1>1, <2>4, <2>5 DEF Add, TypeOK
  <2>7. stored' \subseteq 1..added' BY <1>1, <2>2 DEF Add, TypeOK
  <2> QED BY <2>2, <2>3, <2>4, <2>5, <2>6, <2>7 DEF TypeOK
<1>2. ASSUME NEW t \in Threads, Take(t) PROVE TypeOK'
  <2>1. CASE buf = <<>>
    <3>1. Resume(t) /\ pc[t] = "due" /\ UNCHANGED <<added, buf, batch, stored>>
      BY <1>2, <2>1 DEF Take
    <3>2. pc'[t] # "uploading" BY <3>1, Resumed
    <3> QED BY <3>1, <3>2, Resumed DEF TypeOK
  <2>2. CASE buf # <<>>
    <3>1. /\ pc' = [pc EXCEPT ![t] = "uploading"]
          /\ batch' = [batch EXCEPT ![t] = buf] /\ buf' = <<>>
          /\ UNCHANGED <<added, stored>>
      BY <1>2, <2>2 DEF Take
    <3>2. "uploading" \in PlacesOf(t) BY DEF Places, PlacesOf
    <3>3. batch' \in [Threads -> Seq(1..added)] /\ batch'[t] # <<>>
          /\ \A u \in Threads \ {t} : batch'[u] = batch[u]
      BY <2>2, <3>1 DEF TypeOK
    <3>4. buf' \in Seq(1..added) /\ Len(buf') <= MaxBuffer BY <3>1, Roles
    <3>5. /\ pc' \in [Threads -> Places] /\ \A u \in Threads : pc'[u] \in PlacesOf(u)
          /\ pc'[t] = "uploading" /\ \A u \in Threads \ {t} : pc'[u] = pc[u]
      BY <3>1, <3>2, Moved DEF Places
    <3>6. \A u \in Threads : pc'[u] # "uploading" <=> batch'[u] = <<>>
      BY <3>3, <3>5 DEF TypeOK
    <3> QED BY <3>1, <3>3, <3>4, <3>5, <3>6 DEF TypeOK
  <2> QED BY <2>1, <2>2
<1>3. ASSUME NEW t \in Threads, Upload(t) PROVE TypeOK'
  <2>1. Resume(t) /\ batch' = [batch EXCEPT ![t] = <<>>] /\ added' = added
    BY <1>3 DEF Upload, EncodeFails, PutOk, PutFails
  <2>2. batch' \in [Threads -> Seq(1..added)] /\ batch'[t] = <<>>
        /\ \A u \in Threads \ {t} : batch'[u] = batch[u]
    BY <2>1 DEF TypeOK
  <2>3. batch[t] \in Seq(1..added) /\ Range(batch[t]) \subseteq 1..added BY DEF TypeOK, Range
  <2>4. buf' \in Seq(1..added) /\ Len(buf') <= MaxBuffer
    <3>1. CASE UNCHANGED buf BY <3>1 DEF TypeOK
    <3>2. CASE buf' = Trim(batch[t] \o buf)
      <4>1. batch[t] \o buf \in Seq(1..added) BY <2>3, Concatenation DEF TypeOK
      <4> QED BY <3>2, <4>1, TrimKeeps
    <3> QED BY <1>3, <3>1, <3>2 DEF Upload, EncodeFails, PutOk, PutFails
  <2>5. stored' \subseteq 1..added
    BY <1>3, <2>3 DEF Upload, EncodeFails, PutOk, PutFails, TypeOK
  <2>6. pc'[t] # "uploading" BY <2>1, Resumed
  <2> QED BY <2>1, <2>2, <2>4, <2>5, <2>6, Resumed DEF TypeOK
<1>4. CASE Wake
  <2> DEFINE place == IF Stopping THEN "ended" ELSE "due"
  <2>1. place \in Places /\ place \in PlacesOf(Flusher) /\ place # "uploading"
    BY DEF Places, PlacesOf
  <2>2. pc' = [pc EXCEPT ![Flusher] = place] /\ pc[Flusher] # "uploading"
        /\ UNCHANGED <<added, buf, batch, stored>>
    BY <1>4 DEF Wake
  <2> HIDE DEF place
  <2> QED BY <2>1, <2>2, Moved, Roles DEF TypeOK
<1>5. CASE BeginStop \/ Join
  <2> DEFINE place == IF pc[Stopper] = "off" THEN "joining" ELSE "due"
  <2>1. place \in Places /\ place \in PlacesOf(Stopper) /\ place # "uploading"
    BY Roles DEF Places, PlacesOf
  <2>2. pc' = [pc EXCEPT ![Stopper] = place] /\ pc[Stopper] # "uploading"
        /\ UNCHANGED <<added, buf, batch, stored>>
    BY <1>5 DEF BeginStop, Join
  <2> HIDE DEF place
  <2> QED BY <2>1, <2>2, Moved, Roles DEF TypeOK
<1>6. CASE ProcessEnds
  <2>1. pc' = Started /\ Started \in [Threads -> Places] BY <1>6 DEF ProcessEnds, Started, Places
  <2>2. \A t \in Threads : Started[t] \in PlacesOf(t) /\ Started[t] # "uploading"
    BY DEF Started, PlacesOf
  <2>3. batch' \in [Threads -> Seq(1..added)] /\ \A t \in Threads : batch'[t] = <<>>
    BY <1>6 DEF ProcessEnds
  <2>4. buf' \in Seq(1..added) /\ Len(buf') <= MaxBuffer BY <1>6, Roles DEF ProcessEnds
  <2>5. added' = added /\ stored' = stored BY <1>6 DEF ProcessEnds
  <2> QED BY <2>1, <2>2, <2>3, <2>4, <2>5 DEF TypeOK
<1>7. CASE UNCHANGED vars BY <1>7 DEF vars, TypeOK
<1> QED BY <1>1, <1>2, <1>3, <1>4, <1>5, <1>6, <1>7 DEF Next

(* The buffer stays below its bound, and exactly the uploading threads have *)
(* a batch.                                                                  *)
THEOREM TypeCorrect == Spec => []TypeOK
<1>1. Init => TypeOK BY TypeInitially
<1>2. TypeOK /\ [Next]_vars => TypeOK' BY TypePreserved
<1> QED BY <1>1, <1>2, PTL DEF Spec

-----------------------------------------------------------------------------
(* Ownership of events.                                                     *)

LEMMA EmptyList == Range(<<>>) = {} /\ IsInjective(<<>>)
BY DEF Range, IsInjective

(* What a thread has in its hands is a list of events in memory.            *)
LEMMA Members ==
    ASSUME NEW S, NEW s \in Seq(S)
    PROVE  Range(s) \subseteq S
<1>1. \A i \in DOMAIN s : s[i] \in S OBVIOUS
<1> QED BY <1>1 DEF Range

LEMMA Lists ==
    ASSUME TypeOK
    PROVE  /\ Range(buf) \subseteq 1..added
           /\ \A t \in Threads : batch[t] \in Seq(1..added) /\ Range(batch[t]) \subseteq 1..added
BY Members DEF TypeOK

(* A failed batch in front of the buffer, before it is trimmed.             *)
LEMMA Requeued ==
    ASSUME TypeOK, OneOwner, NEW t \in Threads
    PROVE  /\ batch[t] \o buf \in Seq(1..added)
           /\ Range(batch[t] \o buf) = Range(batch[t]) \cup Range(buf)
           /\ IsInjective(batch[t] \o buf)
<1>1. batch[t] \in Seq(1..added) /\ buf \in Seq(1..added) BY Lists DEF TypeOK
<1>2. IsInjective(batch[t]) /\ IsInjective(buf) /\ Range(batch[t]) \cap Range(buf) = {}
  BY DEF OneOwner
<1> QED BY <1>1, <1>2, Concatenation

(* What each action does to the lists in memory.                            *)
LEMMA AddEffect ==
    ASSUME TypeOK, OneOwner, NEW t \in Adders, Add(t)
    PROVE  /\ added' = added + 1 /\ stored' = stored /\ batch' = batch
           /\ Range(buf') \subseteq Range(buf) \cup {added'}
           /\ Range(buf') # Range(buf) \cup {added'} => Len(buf') = MaxBuffer
           /\ IsInjective(buf')
           /\ added' \notin Range(buf)
           /\ \A u \in Threads : added' \notin Range(batch[u])
<1>1. added \in Nat /\ added' = added + 1 BY DEF Add, TypeOK
<1>2. added' \notin 1..added BY <1>1
<1>3. added' \notin Range(buf) /\ \A u \in Threads : added' \notin Range(batch[u])
  BY <1>2, Lists
<1> DEFINE grown == Append(buf, added')
<1>4. /\ grown \in Seq(1..added') /\ IsInjective(grown)
      /\ Range(grown) = Range(buf) \cup {added'}
  <2>1. buf \in Seq(1..added') /\ added' \in 1..added' BY <1>1, MoreEvents DEF TypeOK
  <2>2. IsInjective(buf) BY DEF OneOwner
  <2> QED BY <1>3, <2>1, <2>2, Appended
<1>5. buf' = Trim(grown) BY <1>1 DEF Add
<1> HIDE DEF grown
<1>6. /\ Range(buf') \subseteq Range(grown) /\ IsInjective(buf')
      /\ Range(buf') # Range(grown) => Len(buf') = MaxBuffer
  BY <1>4, <1>5, TrimKeeps
<1>7. stored' = stored /\ batch' = batch BY DEF Add
<1> QED BY <1>1, <1>3, <1>4, <1>6, <1>7

LEMMA UploadEffect ==
    ASSUME TypeOK, OneOwner, NEW t \in Threads, Upload(t)
    PROVE  /\ added' = added
           /\ batch' = [batch EXCEPT ![t] = <<>>]
           /\ IsInjective(buf')
           /\ Range(buf') \subseteq Range(batch[t]) \cup Range(buf)
           /\ \/ /\ EncodeFails(t) \/ PutOk(t)
                 /\ buf' = buf
              \/ /\ PutFails(t)
                 /\ Range(buf') # Range(batch[t]) \cup Range(buf) => Len(buf') = MaxBuffer
<1>1. added' = added /\ batch' = [batch EXCEPT ![t] = <<>>]
  BY DEF Upload, EncodeFails, PutOk, PutFails
<1>2. CASE EncodeFails(t) \/ PutOk(t)
  <2>1. buf' = buf BY <1>2 DEF EncodeFails, PutOk
  <2> QED BY <1>1, <1>2, <2>1 DEF OneOwner
<1>3. CASE PutFails(t)
  <2>1. buf' = Trim(batch[t] \o buf) BY <1>3 DEF PutFails
  <2>2. /\ Range(buf') \subseteq Range(batch[t] \o buf) /\ IsInjective(buf')
        /\ Range(buf') # Range(batch[t] \o buf) => Len(buf') = MaxBuffer
    BY <2>1, Requeued, TrimKeeps
  <2> QED BY <1>1, <1>3, <2>2, Requeued
<1> QED BY <1>2, <1>3 DEF Upload

LEMMA OwnerInitially ==
    ASSUME Init
    PROVE  OneOwner
<1>1. buf = <<>> /\ \A t \in Threads : batch[t] = <<>> BY DEF Init
<1> QED BY <1>1, EmptyList DEF OneOwner

LEMMA OwnerPreserved ==
    ASSUME TypeOK, OneOwner, [Next]_vars
    PROVE  OneOwner'
<1>1. ASSUME NEW t \in Adders, Add(t) PROVE OneOwner'
  <2>1. /\ batch' = batch /\ IsInjective(buf') /\ Range(buf') \subseteq Range(buf) \cup {added'}
        /\ \A u \in Threads : added' \notin Range(batch[u])
    BY <1>1, AddEffect
  <2> QED BY <2>1 DEF OneOwner
<1>2. ASSUME NEW t \in Threads, Take(t) PROVE OneOwner'
  <2>1. CASE buf = <<>>
    <3>1. UNCHANGED <<buf, batch>> BY <1>2, <2>1 DEF Take
    <3> QED BY <3>1 DEF OneOwner
  <2>2. CASE buf # <<>>
    <3>1. buf' = <<>> /\ batch' = [batch EXCEPT ![t] = buf] BY <1>2, <2>2 DEF Take
    <3>2. batch'[t] = buf /\ \A u \in Threads \ {t} : batch'[u] = batch[u]
      BY <3>1 DEF TypeOK
    <3> QED BY <3>1, <3>2, EmptyList DEF OneOwner
  <2> QED BY <2>1, <2>2
<1>3. ASSUME NEW t \in Threads, Upload(t) PROVE OneOwner'
  <2>1. /\ batch' = [batch EXCEPT ![t] = <<>>] /\ IsInjective(buf')
        /\ Range(buf') \subseteq Range(batch[t]) \cup Range(buf)
    BY <1>3, UploadEffect
  <2>2. batch'[t] = <<>> /\ \A u \in Threads \ {t} : batch'[u] = batch[u]
    BY <2>1 DEF TypeOK
  <2> QED BY <2>1, <2>2, EmptyList DEF OneOwner
<1>4. CASE Wake \/ BeginStop \/ Join \/ UNCHANGED vars
  <2>1. UNCHANGED <<buf, batch>> BY <1>4 DEF Wake, BeginStop, Join, vars
  <2> QED BY <2>1 DEF OneOwner
<1>5. CASE ProcessEnds
  <2>1. buf' = <<>> /\ \A t \in Threads : batch'[t] = <<>> BY <1>5 DEF ProcessEnds
  <2> QED BY <2>1, EmptyList DEF OneOwner
<1> QED BY <1>1, <1>2, <1>3, <1>4, <1>5 DEF Next

(* However adds, takes and failed uploads of the threads interleave, no     *)
(* event is in two batches, or in a batch and the buffer, or twice in one.   *)
THEOREM OwnerCorrect == Spec => []OneOwner
<1>1. Init => OneOwner BY OwnerInitially
<1>2. TypeOK /\ OneOwner /\ [Next]_vars => OneOwner' BY OwnerPreserved
<1> QED BY <1>1, <1>2, TypeCorrect, PTL DEF Spec

-----------------------------------------------------------------------------
(* The order of events.                                                     *)

(* As long as no batch was put in front of older events, every list is in   *)
(* the order of addition.                                                    *)
OrderInv == ~overtaken => Ascending(buf) /\ \A t \in Threads : Ascending(batch[t])

LEMMA EmptyAscends == Ascending(<<>>)
BY DEF Ascending

(* Before it is trimmed, what add and a failed upload leave is in order.    *)
LEMMA GrownAscends ==
    ASSUME TypeOK, OrderInv, ~overtaken
    PROVE  Ascending(Append(buf, added + 1))
<1>1. added \in Nat /\ buf \in Seq(1..(added + 1)) /\ added + 1 \in 1..(added + 1)
  BY MoreEvents DEF TypeOK
<1>2. \A d \in Range(buf) : d < added + 1
  <2>1. Range(buf) \subseteq 1..added BY Lists
  <2> QED BY <1>1, <2>1
<1>3. Ascending(buf) BY DEF OrderInv
<1> QED BY <1>1, <1>2, <1>3, Appended

LEMMA RequeuedAscends ==
    ASSUME TypeOK, OneOwner, OrderInv, NEW t \in Threads, Overtaken(t), ~overtaken'
    PROVE  Ascending(batch[t] \o buf)
<1>1. ~overtaken /\ \A e \in Range(batch[t]), w \in Range(buf) : ~(w < e) BY DEF Overtaken
<1>2. \A e \in Range(batch[t]), w \in Range(buf) : e < w
  <2>1. Range(batch[t]) \cap Range(buf) = {} BY DEF OneOwner
  <2>2. \A e \in Range(batch[t]), w \in Range(buf) : e \in Nat /\ w \in Nat /\ e # w
    <3>1. added \in Nat /\ Range(buf) \subseteq 1..added /\ Range(batch[t]) \subseteq 1..added
      BY Lists DEF TypeOK
    <3> QED BY <2>1, <3>1
  <2> QED BY <1>1, <2>2
<1>3. Ascending(batch[t]) /\ Ascending(buf) BY <1>1 DEF OrderInv
<1>4. batch[t] \in Seq(1..added) /\ buf \in Seq(1..added) BY Lists DEF TypeOK
<1> QED BY <1>2, <1>3, <1>4, Concatenation

LEMMA OrderPreserved ==
    ASSUME TypeOK, OneOwner, OrderInv, [Next]_vars
    PROVE  OrderInv'
<1>1. ASSUME NEW t \in Adders, Add(t) PROVE OrderInv'
  <2>1. added' = added + 1 /\ buf' = Trim(Append(buf, added + 1)) /\ UNCHANGED <<batch, overtaken>>
    BY <1>1 DEF Add
  <2>2. Append(buf, added + 1) \in Seq(1..(added + 1))
    <3>1. added \in Nat /\ buf \in Seq(1..(added + 1)) /\ added + 1 \in 1..(added + 1)
      BY MoreEvents DEF TypeOK
    <3> QED BY <3>1, Appended
  <2>3. ~overtaken => Ascending(buf') BY <2>1, <2>2, GrownAscends, TrimKeeps
  <2> QED BY <2>1, <2>3 DEF OrderInv
<1>2. ASSUME NEW t \in Threads, Take(t) PROVE OrderInv'
  <2>1. CASE buf = <<>>
    <3>1. UNCHANGED <<buf, batch, overtaken>> BY <1>2, <2>1 DEF Take
    <3> QED BY <3>1 DEF OrderInv
  <2>2. CASE buf # <<>>
    <3>1. buf' = <<>> /\ batch' = [batch EXCEPT ![t] = buf] /\ overtaken' = overtaken
      BY <1>2, <2>2 DEF Take
    <3>2. batch'[t] = buf /\ \A u \in Threads \ {t} : batch'[u] = batch[u]
      BY <3>1 DEF TypeOK
    <3> QED BY <3>1, <3>2, EmptyAscends DEF OrderInv
  <2> QED BY <2>1, <2>2
<1>3. ASSUME NEW t \in Threads, Upload(t) PROVE OrderInv'
  <2>1. batch' = [batch EXCEPT ![t] = <<>>] BY <1>3, UploadEffect
  <2>2. batch'[t] = <<>> /\ \A u \in Threads \ {t} : batch'[u] = batch[u]
    BY <2>1 DEF TypeOK
  <2>3. ~overtaken' => ~overtaken /\ Ascending(buf')
    <3>1. CASE EncodeFails(t) \/ PutOk(t)
      <4>1. UNCHANGED <<buf, overtaken>> BY <3>1 DEF EncodeFails, PutOk
      <4> QED BY <4>1 DEF OrderInv
    <3>2. CASE PutFails(t)
      <4>1. buf' = Trim(batch[t] \o buf) /\ Overtaken(t) BY <3>2 DEF PutFails
      <4>2. ~overtaken' => ~overtaken BY <4>1 DEF Overtaken
      <4> QED BY <4>1, <4>2, Requeued, RequeuedAscends, TrimKeeps
    <3> QED BY <1>3, <3>1, <3>2 DEF Upload
  <2> QED BY <2>2, <2>3, EmptyAscends DEF OrderInv
<1>4. CASE Wake \/ BeginStop \/ Join \/ UNCHANGED vars
  <2>1. UNCHANGED <<buf, batch, overtaken>> BY <1>4 DEF Wake, BeginStop, Join, vars
  <2> QED BY <2>1 DEF OrderInv
<1>5. CASE ProcessEnds
  <2>1. buf' = <<>> /\ \A t \in Threads : batch'[t] = <<>> BY <1>5 DEF ProcessEnds
  <2> QED BY <2>1, EmptyAscends DEF OrderInv
<1> QED BY <1>1, <1>2, <1>3, <1>4, <1>5 DEF Next

-----------------------------------------------------------------------------
(* The sink implements the best-effort queue.                               *)

(* The batches in flight are those of the threads that hold one.            *)
LEMMA InBatches ==
    ASSUME TypeOK
    PROVE  /\ \A b : b \in Batches <=> \E t \in Threads : batch[t] # <<>> /\ b = Range(batch[t])
           /\ \A t \in Threads : batch[t] # <<>> => Range(batch[t]) # {}
           /\ buf # <<>> => Range(buf) # {}
<1>1. \A t \in Threads : pc[t] = "uploading" <=> batch[t] # <<>> BY DEF TypeOK
<1>2. \A b : b \in Batches <=> \E t \in Threads : pc[t] = "uploading" /\ b = Range(batch[t])
  BY DEF Batches, Uploading
<1>3. ASSUME NEW S, NEW s \in Seq(S), s # <<>> PROVE Range(s) # {}
  <2>1. 1 \in DOMAIN s BY <1>3
  <2> QED BY <2>1 DEF Range
<1>4. buf \in Seq(1..added) /\ \A t \in Threads : batch[t] \in Seq(1..added) BY DEF TypeOK
<1> QED BY <1>1, <1>2, <1>3, <1>4

LEMMA BatchGone ==
    ASSUME TypeOK, OneOwner, TypeOK', NEW t \in Threads, pc[t] = "uploading",
           batch' = [batch EXCEPT ![t] = <<>>]
    PROVE  Range(batch[t]) \in Batches /\ Batches' = Batches \ {Range(batch[t])}
<1>1. batch[t] # <<>> BY DEF TypeOK
<1>2. batch'[t] = <<>> /\ \A u \in Threads \ {t} : batch'[u] = batch[u] BY DEF TypeOK
<1>3. \A b : b \in Batches' <=> \E u \in Threads : batch'[u] # <<>> /\ b = Range(batch'[u])
  <2>1. \A u \in Threads : pc'[u] = "uploading" <=> batch'[u] # <<>> BY DEF TypeOK
  <2>2. \A b : b \in Batches' <=> \E u \in Threads : pc'[u] = "uploading" /\ b = Range(batch'[u])
    BY DEF Batches, Uploading
  <2> QED BY <2>1, <2>2
<1>4. \A u \in Threads \ {t} : batch[u] # <<>> => Range(batch[u]) # Range(batch[t])
  BY <1>1, InBatches DEF OneOwner
<1> QED BY <1>1, <1>2, <1>3, <1>4, InBatches

(* Batches stay when no thread takes or drops one.                          *)
LEMMA SameBatches ==
    ASSUME TypeOK, TypeOK', batch' = batch
    PROVE  Batches' = Batches
<1>1. \A t \in Threads : pc'[t] = "uploading" <=> pc[t] = "uploading" BY DEF TypeOK
<1> QED BY <1>1 DEF Batches, Uploading

(* What is left of a list that was trimmed.                                 *)
LEMMA Shedding ==
    ASSUME NEW S, NEW s \in Seq(S), IsInjective(s)
    PROVE  /\ Range(Trim(s)) \subseteq Range(s)
           /\ Range(Trim(s)) # Range(s) => Cardinality(Range(Trim(s))) = MaxBuffer
           /\ Ascending(s) =>
                \A lost \in Range(s) \ Range(Trim(s)), kept \in Range(Trim(s)) : lost < kept
<1> DEFINE r == Trim(s)
<1>1. /\ r \in Seq(S) /\ IsInjective(r) /\ Range(r) \subseteq Range(s)
      /\ Range(r) # Range(s) => Len(r) = MaxBuffer
      /\ Ascending(s) => \A lost \in Range(s) \ Range(r), kept \in Range(r) : lost < kept
  BY TrimKeeps
<1> HIDE DEF r
<1>2. Cardinality(Range(r)) = Len(r) BY <1>1, CountMembers
<1> QED BY <1>1, <1>2 DEF r

LEMMA SameCardinality == \A S : Queue!Cardinality(S) = Cardinality(S)
BY DEF Cardinality, Queue!Cardinality

LEMMA AcceptStep ==
    ASSUME TypeOK, OneOwner, OrderInv, TypeOK', NEW t \in Adders, Add(t)
    PROVE  Queue!Accept
<1> DEFINE grown == Append(buf, added + 1)
<1>1. /\ added' = added + 1 /\ buf' = Trim(grown) /\ batch' = batch
      /\ UNCHANGED <<stored, overtaken, life>>
  BY DEF Add
<1>2. added + 1 \in Nat /\ grown \in Seq(1..(added + 1)) /\ IsInjective(grown)
      /\ Range(grown) = Range(buf) \cup {added + 1}
  <2>1. added \in Nat /\ buf \in Seq(1..(added + 1)) /\ added + 1 \in 1..(added + 1)
    BY MoreEvents DEF TypeOK
  <2>2. IsInjective(buf) BY DEF OneOwner
  <2>3. added + 1 \notin Range(buf)
    <3>1. Range(buf) \subseteq 1..added BY Lists
    <3> QED BY <2>1, <3>1
  <2> QED BY <2>1, <2>2, <2>3, Appended
<1>3. ~overtaken => Ascending(grown) BY GrownAscends
<1> HIDE DEF grown
<1>4. /\ Range(buf') \subseteq Range(grown)
      /\ Range(buf') # Range(grown) => Cardinality(Range(buf')) = MaxBuffer
      /\ Ascending(grown) =>
           \A lost \in Range(grown) \ Range(buf'), kept \in Range(buf') : lost < kept
  BY <1>1, <1>2, Shedding
<1>5. Batches' = Batches BY <1>1, SameBatches
<1> QED BY <1>1, <1>2, <1>3, <1>4, <1>5, SameCardinality DEF Queue!Accept, Queue!Shed

LEMMA SendStep ==
    ASSUME TypeOK, OneOwner, TypeOK', NEW t \in Threads, Take(t)
    PROVE  Queue!Send \/ UNCHANGED Queue!queue
<1>1. UNCHANGED <<added, stored, overtaken, life>> BY DEF Take
<1>2. CASE buf = <<>>
  <2>1. UNCHANGED <<buf, batch>> BY <1>2 DEF Take
  <2>2. Batches' = Batches BY <2>1, SameBatches
  <2> QED BY <1>1, <2>1, <2>2 DEF Queue!queue
<1>3. CASE buf # <<>>
  <2>1. buf' = <<>> /\ batch' = [batch EXCEPT ![t] = buf] /\ pc[t] = "due"
    BY <1>3 DEF Take
  <2>2. batch'[t] = buf /\ \A u \in Threads \ {t} : batch'[u] = batch[u]
    BY <2>1 DEF TypeOK
  <2>3. batch[t] = <<>> BY <2>1 DEF TypeOK
  <2>4. \A b : b \in Batches' <=> \E u \in Threads : batch'[u] # <<>> /\ b = Range(batch'[u])
    <3>1. \A u \in Threads : pc'[u] = "uploading" <=> batch'[u] # <<>> BY DEF TypeOK
    <3>2. \A b : b \in Batches' <=> \E u \in Threads : pc'[u] = "uploading" /\ b = Range(batch'[u])
      BY DEF Batches, Uploading
    <3> QED BY <3>1, <3>2
  <2>5. Batches' = Batches \cup {Range(buf)} BY <1>3, <2>2, <2>3, <2>4, InBatches
  <2>6. Range(buf) # {} /\ Range(buf') = {} BY <1>3, <2>1, EmptyList, InBatches
  <2> QED BY <1>1, <2>5, <2>6 DEF Queue!Send
<1> QED BY <1>2, <1>3

LEMMA RetryStep ==
    ASSUME TypeOK, OneOwner, OrderInv, TypeOK', NEW t \in Threads, PutFails(t)
    PROVE  Queue!Retry(Range(batch[t]))
<1> DEFINE all == batch[t] \o buf
           b == Range(batch[t])
<1>1. /\ buf' = Trim(all) /\ batch' = [batch EXCEPT ![t] = <<>>] /\ pc[t] = "uploading"
      /\ stored' \in {stored, stored \cup b} /\ Overtaken(t) /\ UNCHANGED <<added, life>>
  BY DEF PutFails
<1>2. added \in Nat /\ all \in Seq(1..added) /\ IsInjective(all) /\ Range(all) = b \cup Range(buf)
  BY Requeued DEF TypeOK
<1>3. ~overtaken' => Ascending(all) BY <1>1, RequeuedAscends
<1>4. Range(buf) \subseteq Range(buf')
  <2>1. /\ Len(all) = Len(batch[t]) + Len(buf) /\ Len(buf) <= MaxBuffer
        /\ Len(batch[t]) \in Nat /\ Len(buf) \in Nat
        /\ \A e \in Range(buf) : \E i \in DOMAIN all : i > Len(batch[t]) /\ all[i] = e
    <3>1. batch[t] \in Seq(1..added) /\ buf \in Seq(1..added) /\ Len(buf) <= MaxBuffer
      BY DEF TypeOK
    <3>2. \A S : \A x, y \in Seq(S) :
             /\ Len(x \o y) = Len(x) + Len(y)
             /\ \A e \in Range(y) : \E i \in DOMAIN (x \o y) : i > Len(x) /\ (x \o y)[i] = e
      BY Concatenation
    <3>3. Len(batch[t]) \in Nat /\ Len(buf) \in Nat BY <3>1
    <3> DEFINE x == batch[t]
               y == buf
    <3>4. x \in Seq(1..added) /\ y \in Seq(1..added) BY <3>1
    <3>5. /\ Len(x \o y) = Len(x) + Len(y)
          /\ \A e \in Range(y) : \E i \in DOMAIN (x \o y) : i > Len(x) /\ (x \o y)[i] = e
      <4> HIDE DEF x, y
      <4> QED BY <3>2, <3>4
    <3> QED BY <3>1, <3>3, <3>5
  <2> HIDE DEF all
  <2>2. SUFFICES ASSUME NEW e \in Range(buf) PROVE e \in Range(buf') OBVIOUS
  <2>3. PICK i \in DOMAIN all : i > Len(batch[t]) /\ all[i] = e BY <2>1
  <2>4. i \in Nat /\ i > Len(all) - MaxBuffer
    <3>1. i \in Nat BY <1>2, <2>3
    <3>2. MaxBuffer \in Nat BY ConstantsAssumption
    <3> DEFINE x == Len(batch[t])
               y == Len(buf)
               z == Len(all)
    <3>3. x \in Nat /\ y \in Nat /\ z = x + y /\ y <= MaxBuffer /\ i > x BY <2>1, <2>3
    <3> HIDE DEF x, y, z
    <3>4. i > z - MaxBuffer BY <3>1, <3>2, <3>3
    <3> QED BY <3>1, <3>4 DEF z
  <2> QED BY <1>1, <1>2, <2>3, <2>4, TrimKeeps
<1> HIDE DEF all
<1>5. /\ Range(buf') \subseteq Range(all)
      /\ Range(buf') # Range(all) => Cardinality(Range(buf')) = MaxBuffer
      /\ Ascending(all) => \A lost \in Range(all) \ Range(buf'), kept \in Range(buf') : lost < kept
  BY <1>1, <1>2, Shedding
<1>6. Batches' = Batches \ {b} BY <1>1, BatchGone
<1>7. overtaken' = (overtaken \/ \E e \in b, w \in Range(buf) : w < e)
  BY <1>1 DEF Overtaken
<1>8. Range(buf) \cup b = Range(all) BY <1>2
<1> HIDE DEF b
<1> QED BY <1>1, <1>3, <1>4, <1>5, <1>6, <1>7, <1>8, SameCardinality
        DEF Queue!Retry, Queue!Shed, b

LEMMA QueueStep ==
    ASSUME TypeOK, OneOwner, OrderInv, TypeOK', [Next]_vars
    PROVE  [Queue!Next]_(Queue!queue)
<1>1. ASSUME NEW t \in Adders, Add(t) PROVE Queue!Accept
  BY <1>1, AcceptStep
<1>2. ASSUME NEW t \in Threads, Take(t) PROVE Queue!Send \/ UNCHANGED Queue!queue
  BY <1>2, SendStep
<1>3. ASSUME NEW t \in Threads, Upload(t)
      PROVE  \E b \in Batches : Queue!Confirm(b) \/ Queue!Retry(b) \/ Queue!Spoil(b)
  <2> DEFINE b == Range(batch[t])
  <2>1. pc[t] = "uploading" /\ batch' = [batch EXCEPT ![t] = <<>>] /\ UNCHANGED <<added, life>>
    BY <1>3 DEF Upload, EncodeFails, PutOk, PutFails
  <2>2. b \in Batches /\ Batches' = Batches \ {b} BY <2>1, BatchGone
  <2>3. EncodeFails(t) => Queue!Spoil(b)
    BY <2>1, <2>2 DEF EncodeFails, Spoilt, Queue!Spoil
  <2>4. PutOk(t) => Queue!Confirm(b)
    BY <2>1, <2>2 DEF PutOk, Queue!Confirm
  <2>5. PutFails(t) => Queue!Retry(b) BY RetryStep
  <2> QED BY <1>3, <2>2, <2>3, <2>4, <2>5 DEF Upload
<1>4. CASE Wake \/ BeginStop \/ Join \/ UNCHANGED vars
  <2>1. UNCHANGED <<added, buf, batch, stored, overtaken, life>>
    BY <1>4 DEF Wake, BeginStop, Join, vars
  <2>2. Batches' = Batches BY <2>1, SameBatches
  <2> QED BY <2>1, <2>2 DEF Queue!queue
<1>5. CASE ProcessEnds
  <2>1. /\ buf' = <<>> /\ overtaken' = FALSE /\ life' = 1 - life /\ UNCHANGED <<added, stored>>
        /\ \A t \in Threads : pc'[t] # "uploading"
    BY <1>5, Roles DEF ProcessEnds, Started
  <2>2. Range(buf') = {} /\ Batches' = {} BY <2>1, EmptyList DEF Batches, Uploading
  <2>3. Queue!Die BY <2>1, <2>2 DEF Queue!Die
  <2> QED BY <2>3 DEF Queue!Next, Queue!Promised
<1>6. Next \/ UNCHANGED vars OBVIOUS
<1>7. (\E b \in Batches : Queue!Confirm(b) \/ Queue!Retry(b) \/ Queue!Spoil(b)) => Queue!Next
  BY DEF Queue!Next, Queue!Promised
<1>8. Queue!Accept \/ Queue!Send => Queue!Next BY DEF Queue!Next, Queue!Promised
<1> QED BY <1>1, <1>2, <1>3, <1>4, <1>5, <1>6, <1>7, <1>8 DEF Next

(* The event sink is a best-effort queue: with any threads, failures and    *)
(* crashes an event is lost unconfirmed only with its process, over the     *)
(* bound with MaxBuffer newer ones remaining (others, once a batch has been *)
(* overtaken by a younger one), or with an event that cannot be encoded.    *)
THEOREM BestEffortCorrect == Spec => BestEffort
<1>1. Init => Queue!Init /\ OrderInv
  <2> SUFFICES ASSUME Init PROVE Queue!Init /\ OrderInv OBVIOUS
  <2>1. buf = <<>> /\ \A t \in Threads : batch[t] = <<>> /\ pc[t] # "uploading"
    BY Roles DEF Init, Started
  <2>2. Range(buf) = {} /\ Batches = {} BY <2>1, EmptyList DEF Batches, Uploading
  <2>3. OrderInv BY <2>1, EmptyAscends DEF OrderInv
  <2> QED BY <2>2, <2>3 DEF Init, Queue!Init
<1>2. TypeOK /\ OneOwner /\ OrderInv /\ [Next]_vars => OrderInv' BY OrderPreserved
<1>3. TypeOK /\ OneOwner /\ OrderInv /\ TypeOK' /\ [Next]_vars => [Queue!Next]_(Queue!queue)
  BY QueueStep
<1> QED BY <1>1, <1>2, <1>3, TypeCorrect, OwnerCorrect, PTL DEF Spec, BestEffort, Queue!Spec

-----------------------------------------------------------------------------
(* The stop.                                                                *)

(* What was added before stop's own flush does not come back into the       *)
(* buffer after it, unless an upload fails.                                  *)
StopInv ==
    pc[Stopper] \in {"uploading", "done"} /\ ~troubled => \A e \in Range(buf) : e > swept

LEMMA StopPreserved ==
    ASSUME TypeOK, StopInv, [Next]_vars
    PROVE  StopInv'
<1>1. ASSUME NEW t \in Adders, Add(t) PROVE StopInv'
  <2>1. t # Stopper /\ pc'[Stopper] = pc[Stopper] /\ UNCHANGED <<troubled, swept>>
    BY <1>1, Roles DEF Add, TypeOK
  <2>2. added \in Nat /\ swept \in 0..added /\ added + 1 > swept BY DEF TypeOK
  <2>3. Range(buf') \subseteq Range(buf) \cup {added + 1}
    <3>1. buf' = Trim(Append(buf, added + 1)) BY <1>1 DEF Add
    <3>2. buf \in Seq(1..(added + 1)) /\ added + 1 \in 1..(added + 1)
      BY <2>2, MoreEvents DEF TypeOK
    <3>3. Append(buf, added + 1) \in Seq(1..(added + 1))
          /\ Range(Append(buf, added + 1)) = Range(buf) \cup {added + 1}
      BY <3>2, Appended
    <3> QED BY <3>1, <3>3, TrimKeeps
  <2> QED BY <2>1, <2>2, <2>3 DEF StopInv
<1>2. ASSUME NEW t \in Threads, Take(t) PROVE StopInv'
  <2>1. buf' = <<>> BY <1>2 DEF Take
  <2> QED BY <2>1, EmptyList DEF StopInv
<1>3. ASSUME NEW t \in Threads, Upload(t) PROVE StopInv'
  <2>1. CASE EncodeFails(t) \/ PutOk(t)
    <3>1. Resume(t) /\ pc[t] = "uploading" /\ UNCHANGED <<buf, troubled, swept>>
      BY <2>1 DEF EncodeFails, PutOk
    <3>2. pc'[Stopper] \in {"uploading", "done"} => pc[Stopper] \in {"uploading", "done"}
      BY <3>1, Resumed, Roles
    <3> QED BY <3>1, <3>2 DEF StopInv
  <2>2. CASE PutFails(t)
    <3>1. Resume(t) /\ pc[t] = "uploading" /\ troubled' = Stopping BY <2>2 DEF PutFails
    <3>2. pc'[Stopper] \in {"uploading", "done"} => pc[Stopper] # "off"
      BY <3>1, Resumed, Roles
    <3> QED BY <3>1, <3>2 DEF StopInv, Stopping
  <2> QED BY <1>3, <2>1, <2>2 DEF Upload
<1>4. CASE Wake
  <2>1. pc'[Stopper] = pc[Stopper] /\ UNCHANGED <<buf, troubled, swept>>
    BY <1>4, Roles DEF Wake, TypeOK
  <2> QED BY <2>1 DEF StopInv
<1>5. CASE BeginStop \/ Join
  <2>1. pc'[Stopper] \in {"joining", "due"} BY <1>5, Roles DEF BeginStop, Join, TypeOK
  <2> QED BY <2>1 DEF StopInv
<1>6. CASE ProcessEnds
  <2>1. buf' = <<>> BY <1>6 DEF ProcessEnds
  <2> QED BY <2>1, EmptyList DEF StopInv
<1>7. CASE UNCHANGED vars BY <1>7 DEF vars, StopInv
<1> QED BY <1>1, <1>2, <1>3, <1>4, <1>5, <1>6, <1>7 DEF Next

(* After stop no event is left in memory that was added before its own      *)
(* flush, unless an upload has failed since it began or one is still        *)
(* running.                                                                  *)
THEOREM StopCorrect == Spec => []StopDrains
<1>1. Init => StopInv
  <2> SUFFICES ASSUME Init PROVE StopInv OBVIOUS
  <2>1. buf = <<>> BY DEF Init
  <2> QED BY <2>1, EmptyList DEF StopInv
<1>2. TypeOK /\ StopInv /\ [Next]_vars => StopInv' BY StopPreserved
<1>3. TypeOK /\ StopInv => StopDrains
  <2> SUFFICES ASSUME TypeOK, StopInv, pc[Stopper] = "done", ~troubled, Uploading = {}
               PROVE  \A e \in Pending : e > swept
    BY DEF StopDrains
  <2>1. Pending = Range(buf) BY DEF Pending, Batches
  <2> QED BY <2>1 DEF StopInv
<1> QED BY <1>1, <1>2, <1>3, TypeCorrect, PTL DEF Spec
=============================================================================
