--------------------------- MODULE BidReads_proofs ---------------------------
(***************************************************************************)
(* Theorems about BidReads, with any commits between the statements: the    *)
(* lists, for any bids, queries, page size and clock, and the               *)
(* recommendations, for any texts, scores, limits and size of the cache.    *)
(***************************************************************************)
EXTENDS BidReads, FiniteSetTheorems, SequenceTheorems, TLAPS

-----------------------------------------------------------------------------
(* Numbers and sequences.                                                    *)

(* Every set of natural numbers that has a member has a least one.           *)
LEMMA HasLeast ==
    ASSUME NEW S \in SUBSET Nat, S # {}
    PROVE  \E x \in S : \A y \in S : x <= y
<1> DEFINE upTo == {0..i : i \in S}
           order == StrictSubsetOrdering(Nat)
<1>1. upTo \subseteq FiniteSubsetsOf(Nat) /\ upTo # {}
  <2>1. \A i \in S : 0..i \in SUBSET Nat /\ IsFiniteSet(0..i) BY FS_Interval
  <2> QED BY <2>1 DEF FiniteSubsetsOf
<1>2. PICK I \in upTo : \A J \in upTo : ~(<<J, I>> \in order)
  <2> HIDE DEF upTo, order
  <2> QED BY <1>1, FS_StrictSubsetOrderingWellFounded, WFMin DEF order
<1>3. PICK x \in S : I = 0..x OBVIOUS
<1>4. ASSUME NEW y \in S, y < x PROVE FALSE
  <2>1. 0..y \in upTo OBVIOUS
  <2>2. 0..y \in SUBSET Nat /\ 0..x \in SUBSET Nat /\ 0..y \subseteq 0..x /\ 0..y # 0..x
    BY <1>4
  <2>3. <<0..y, 0..x>> \in order BY <2>2 DEF StrictSubsetOrdering
  <2> QED BY <1>2, <1>3, <2>1, <2>3
<1> QED BY <1>4

LEMMA MinFacts ==
    ASSUME NEW S \in SUBSET Nat, S # {}
    PROVE  Min(S) \in S /\ \A y \in S : Min(S) <= y
BY HasLeast DEF Min

LEMMA MinOfTwo ==
    ASSUME NEW m \in Nat, NEW n \in Nat
    PROVE  Min({m, n}) = IF m <= n THEN m ELSE n
<1>1. {m, n} \in SUBSET Nat /\ {m, n} # {} OBVIOUS
<1>2. Min({m, n}) \in {m, n} /\ \A y \in {m, n} : Min({m, n}) <= y BY <1>1, MinFacts
<1> QED BY <1>2

LEMMA PositionFacts ==
    ASSUME NEW S, NEW s \in Seq(S), NEW e
    PROVE  /\ SelectInSeq(s, LAMBDA v : v = e) \in 0..Len(s)
           /\ e \in ToSet(s) => /\ SelectInSeq(s, LAMBDA v : v = e) \in 1..Len(s)
                                /\ s[SelectInSeq(s, LAMBDA v : v = e)] = e
<1> DEFINE I == {i \in 1..Len(s) : s[i] = e}
<1>1. SelectInSeq(s, LAMBDA v : v = e) = IF I # {} THEN Min(I) ELSE 0
  BY DEF SelectInSeq
<1>2. I \in SUBSET Nat OBVIOUS
<1>3. I # {} => Min(I) \in I
  <2> HIDE DEF I
  <2> QED BY <1>2, MinFacts
<1>4. e \in ToSet(s) => I # {} BY DEF ToSet
<1> QED BY <1>1, <1>3, <1>4

(* What is left without one element.                                         *)
LEMMA RemoveFacts ==
    ASSUME NEW S, NEW s \in Seq(S), IsInjective(s), NEW e
    PROVE  /\ RemoveFirst(s, e) \in Seq(S)
           /\ IsInjective(RemoveFirst(s, e))
           /\ ToSet(RemoveFirst(s, e)) = ToSet(s) \ {e}
           /\ Len(RemoveFirst(s, e)) <= Len(s)
           /\ e \in ToSet(s) => Len(RemoveFirst(s, e)) = Len(s) - 1
<1>1. CASE ~\E i \in 1..Len(s) : s[i] = e
  BY <1>1 DEF RemoveFirst, ToSet
<1>2. CASE \E i \in 1..Len(s) : s[i] = e
  <2> DEFINE p == SelectInSeq(s, LAMBDA v : v = e)
             r == RemoveFirst(s, e)
  <2>1. e \in ToSet(s) BY <1>2 DEF ToSet
  <2>2. p \in 1..Len(s) /\ s[p] = e BY <2>1, PositionFacts
  <2>3. r = SubSeq(s, 1, p - 1) \o SubSeq(s, p + 1, Len(s))
    BY <1>2 DEF RemoveFirst, RemoveAt
  <2> HIDE DEF p, r
  <2>4. /\ SubSeq(s, 1, p - 1) \in Seq(S) /\ Len(SubSeq(s, 1, p - 1)) = p - 1
        /\ SubSeq(s, p + 1, Len(s)) \in Seq(S) /\ Len(SubSeq(s, p + 1, Len(s))) = Len(s) - p
        /\ \A i \in 1..(p - 1) : SubSeq(s, 1, p - 1)[i] = s[i]
        /\ \A i \in 1..(Len(s) - p) : SubSeq(s, p + 1, Len(s))[i] = s[p + i]
    BY <2>2
  <2>10. r \in Seq(S) /\ Len(r) = Len(s) - 1
         /\ \A i \in 1..(Len(s) - 1) : r[i] = IF i < p THEN s[i] ELSE s[i + 1]
    <3> DEFINE a == SubSeq(s, 1, p - 1)
               b == SubSeq(s, p + 1, Len(s))
    <3>1. a \in Seq(S) /\ b \in Seq(S) /\ Len(a) = p - 1 /\ Len(b) = Len(s) - p
      BY <2>4
    <3>2. /\ \A i \in 1..(p - 1) : a[i] = s[i]
          /\ \A i \in 1..(Len(s) - p) : b[i] = s[p + i]
      BY <2>4
    <3>3. r = a \o b BY <2>3
    <3> HIDE DEF a, b
    <3>4. r \in Seq(S) /\ Len(r) = Len(a) + Len(b) BY <3>1, <3>3, ConcatProperties
    <3>5. \A i \in 1..(Len(a) + Len(b)) : r[i] = IF i <= Len(a) THEN a[i] ELSE b[i - Len(a)]
      BY <3>1, <3>3, ConcatProperties
    <3>6. ASSUME NEW i \in 1..(Len(s) - 1)
          PROVE  r[i] = IF i < p THEN s[i] ELSE s[i + 1]
      <4>1. i \in 1..(Len(a) + Len(b)) BY <2>2, <3>1
      <4>2. CASE i < p
        <5>1. i \in 1..(p - 1) /\ i <= Len(a) BY <2>2, <3>1, <4>2
        <5> QED BY <3>2, <3>5, <4>1, <4>2, <5>1
      <4>3. CASE ~(i < p)
        <5>1. i - Len(a) \in 1..(Len(s) - p) /\ ~(i <= Len(a)) /\ p + (i - Len(a)) = i + 1
          BY <2>2, <3>1, <4>3
        <5>2. b[i - Len(a)] = s[p + (i - Len(a))] BY <3>2, <5>1
        <5> QED BY <3>5, <4>1, <4>3, <5>1, <5>2
      <4> QED BY <4>2, <4>3
    <3>7. Len(r) = Len(s) - 1
      <4> HIDE DEF r
      <4>1. Len(a) + Len(b) = Len(s) - 1 BY <2>2, <3>1
      <4> QED BY <3>4, <4>1
    <3> QED BY <3>4, <3>6, <3>7, Zenon
  <2>5. r \in Seq(S) /\ Len(r) = Len(s) - 1 BY <2>10
  <2>6. \A i \in 1..(Len(s) - 1) : r[i] = IF i < p THEN s[i] ELSE s[i + 1] BY <2>10
  <2>7. \A i, j \in 1..Len(s) : s[i] = s[j] => i = j BY DEF IsInjective
  <2>8. IsInjective(r)
    <3>1. SUFFICES ASSUME NEW i \in 1..(Len(s) - 1), NEW j \in 1..(Len(s) - 1), r[i] = r[j]
                   PROVE  i = j
      BY <2>5 DEF IsInjective
    <3> DEFINE up(n) == IF n < p THEN n ELSE n + 1
    <3>2. up(i) \in 1..Len(s) /\ up(j) \in 1..Len(s) /\ s[up(i)] = s[up(j)]
      BY <2>2, <2>6, <3>1
    <3>3. up(i) = up(j) BY <2>7, <3>2
    <3> QED BY <2>2, <3>3
  <2>9. ToSet(r) = ToSet(s) \ {e}
    <3>1. \A x \in ToSet(r) : x \in ToSet(s) \ {e}
      <4>1. SUFFICES ASSUME NEW i \in 1..(Len(s) - 1) PROVE r[i] \in ToSet(s) \ {e}
        BY <2>5 DEF ToSet
      <4>2. PICK n \in 1..Len(s) : n # p /\ r[i] = s[n] BY <2>2, <2>6
      <4> QED BY <2>2, <2>7, <4>2 DEF ToSet
    <3>2. ASSUME NEW x \in ToSet(s) \ {e} PROVE x \in ToSet(r)
      <4>1. PICK n \in 1..Len(s) : s[n] = x BY DEF ToSet
      <4>2. n # p BY <2>2, <4>1
      <4>3. CASE n < p
        <5>1. n \in 1..(Len(s) - 1) /\ r[n] = x BY <2>2, <2>6, <4>1, <4>3
        <5> QED BY <2>5, <5>1 DEF ToSet
      <4>4. CASE n > p
        <5>1. n - 1 \in 1..(Len(s) - 1) /\ r[n - 1] = x BY <2>2, <2>6, <4>1, <4>4
        <5> QED BY <2>5, <5>1 DEF ToSet
      <4> QED BY <2>2, <4>2, <4>3, <4>4
    <3> QED BY <3>1, <3>2
  <2> QED BY <2>1, <2>5, <2>8, <2>9 DEF r
<1> QED BY <1>1, <1>2

-----------------------------------------------------------------------------
(* Orders: the keys of one query have as many places, and the last place of  *)
(* each is its bid_id, so no two rows are equal and one order is left.       *)

LEMMA BidsFinite == IsFiniteSet(Bids) /\ Bids \subseteq Nat
BY TablesAssumption

LEMMA SeqsFacts ==
    ASSUME NEW S, IsFiniteSet(S), NEW s \in SetToSeqs(S)
    PROVE  /\ s \in Seq(S) /\ IsInjective(s)
           /\ Len(s) = Cardinality(S) /\ Cardinality(S) \in Nat
           /\ ToSet(s) = S
<1>1. Cardinality(S) \in Nat BY FS_CardinalityType
<1>2. s \in [1..Cardinality(S) -> S] /\ IsInjective(s) BY DEF SetToSeqs, IsInjective
<1>3. s \in Seq(S) /\ Len(s) = Cardinality(S) BY <1>1, <1>2
<1>4. Cardinality(1..Cardinality(S)) = Cardinality(S) BY <1>1, FS_Interval
<1>5. s \in Injection(1..Cardinality(S), S) BY <1>2 DEF Injection, IsInjective
<1>6. s \in Surjection(1..Cardinality(S), S) BY <1>4, <1>5, FS_Injection
<1>7. \A x \in S : \E i \in 1..Cardinality(S) : s[i] = x BY <1>6 DEF Surjection
<1>8. ToSet(s) = S BY <1>2, <1>7 DEF ToSet
<1> QED BY <1>1, <1>2, <1>3, <1>8

(* Of tuples of one length that differ, one comes before the other.          *)
LEMMA BeforeTotal ==
    ASSUME NEW x \in Seq(Int), NEW y \in Seq(Int), Len(x) = Len(y), x # y
    PROVE  Before(x, y) \/ Before(y, x)
<1> DEFINE D == {i \in 1..Len(x) : x[i] # y[i]}
<1>1. D \in SUBSET Nat /\ D # {}
  <2>1. ~\A i \in 1..Len(x) : x[i] = y[i] BY SeqEqual
  <2>2. PICK i \in 1..Len(x) : x[i] # y[i] BY <2>1
  <2>3. D # {} BY <2>2
  <2>4. D \in SUBSET Nat OBVIOUS
  <2> QED BY <2>3, <2>4
<1>2. PICK i \in D : \A j \in D : i <= j
  <2> HIDE DEF D
  <2> QED BY <1>1, HasLeast
<1>3. i \in DOMAIN x /\ i \in DOMAIN y /\ x[i] \in Int /\ y[i] \in Int /\ x[i] # y[i] OBVIOUS
<1>4. \A j \in 1..(i - 1) : x[j] = y[j]
  <2>1. ASSUME NEW j \in 1..(i - 1), x[j] # y[j] PROVE FALSE
    <3>1. j \in D BY <1>3, <2>1
    <3> QED BY <1>2, <1>3, <3>1
  <2> QED BY <2>1
<1>5. x[i] < y[i] \/ y[i] < x[i] BY <1>3
<1> QED BY <1>3, <1>4, <1>5 DEF Before

(* If of two different rows one always comes before the other, two sorted    *)
(* sequences of them are the same.                                           *)
LEMMA OneOrder ==
    ASSUME NEW S, IsFiniteSet(S), NEW key, NEW s \in SetToSeqs(S), NEW t \in SetToSeqs(S),
           \A a, b \in S : a # b => Before(key[a], key[b]) \/ Before(key[b], key[a]),
           \A i, j \in DOMAIN s : i < j => ~Before(key[s[j]], key[s[i]]),
           \A i, j \in DOMAIN t : i < j => ~Before(key[t[j]], key[t[i]])
    PROVE  s = t
<1> DEFINE n == Cardinality(S)
           D == {i \in 1..n : s[i] # t[i]}
<1>1. /\ s \in Seq(S) /\ IsInjective(s) /\ Len(s) = n /\ n \in Nat /\ ToSet(s) = S
      /\ t \in Seq(S) /\ IsInjective(t) /\ Len(t) = n /\ ToSet(t) = S
  BY SeqsFacts
<1>2. SUFFICES ASSUME s # t PROVE FALSE OBVIOUS
<1> HIDE DEF n
<1>3. D \in SUBSET Nat /\ D # {} BY <1>1, <1>2
<1>4. PICK i \in D : \A j \in D : i <= j
  <2> HIDE DEF D
  <2> QED BY <1>3, HasLeast
<1>5. i \in 1..n /\ s[i] # t[i] /\ s[i] \in S /\ t[i] \in S BY <1>1
<1>6. \A j \in 1..n : j < i => s[j] = t[j]
  <2>1. ASSUME NEW j \in 1..n, j < i, s[j] # t[j] PROVE FALSE
    <3>1. j \in D BY <2>1
    <3> QED BY <1>1, <1>4, <1>5, <2>1, <3>1
  <2> QED BY <2>1
<1>7. PICK j \in 1..n : s[j] = t[i] BY <1>1, <1>5 DEF ToSet
<1>8. PICK k \in 1..n : t[k] = s[i] BY <1>1, <1>5 DEF ToSet
<1>9. i < j
  <2>1. j # i BY <1>5, <1>7
  <2>2. ~(j < i)
    <3>1. ASSUME j < i PROVE FALSE
      <4>1. t[j] = t[i] BY <1>6, <1>7, <3>1
      <4> QED BY <1>1, <1>5, <2>1, <4>1 DEF IsInjective
    <3> QED BY <3>1
  <2> QED BY <1>1, <1>5, <2>1, <2>2
<1>10. i < k
  <2>1. k # i BY <1>5, <1>8
  <2>2. ~(k < i)
    <3>1. ASSUME k < i PROVE FALSE
      <4>1. s[k] = s[i] BY <1>6, <1>8, <3>1
      <4> QED BY <1>1, <1>5, <2>1, <4>1 DEF IsInjective
    <3> QED BY <3>1
  <2> QED BY <1>1, <1>5, <2>1, <2>2
<1>11. DOMAIN s = 1..n /\ DOMAIN t = 1..n BY <1>1
<1>12. ~Before(key[t[i]], key[s[i]]) BY <1>5, <1>7, <1>9, <1>11
<1>13. ~Before(key[s[i]], key[t[i]]) BY <1>5, <1>8, <1>10, <1>11
<1> QED BY <1>5, <1>12, <1>13

(* The places of a query's keys.                                             *)
Places(q) ==
    IF q.list = "matches"
    THEN IF q.sort = "recommended" THEN 6 ELSE IF q.sort = "recent" THEN 5 ELSE 4
    ELSE IF q.list = "scraps" THEN 2 ELSE 3

(* What a key asks of a query.                                               *)
Sorted(q) ==
    \/ q.list = "bids"
    \/ q.list = "search" /\ q.sort \in {"deadline", "recent"}
    \/ q.list = "matches" /\ q.sort \in {"deadline", "recent", "recommended"}
    \/ q.list = "scraps"

LEMMA QuerySorted == \A q \in Query : Sorted(q)
BY DEF Query, Home, Search, Sorted

(* What the keys are built from.                                             *)
LEMMA RowFacts ==
    ASSUME TablesOK, NEW b \in Bids, bids[b] # Null
    PROVE  /\ bids[b].closes \in Nat \cup {Null} /\ bids[b].posted \in Nat \cup {Null}
           /\ Num(bids[b].closes) \in Int /\ Num(bids[b].posted) \in Int
           /\ -Num(bids[b].posted) \in Int
<1>1. bids[b] \in Contents BY DEF TablesOK
<1>2. bids[b].closes \in Nat \cup {Null} /\ bids[b].posted \in Nat \cup {Null}
  BY <1>1, TablesAssumption
<1> QED BY <1>2 DEF Num

LEMMA FlagFacts == \A p \in BOOLEAN : Flag(p) \in Int
BY DEF Flag

LEMMA JudgementFacts ==
    ASSUME TablesOK, NEW b \in Bids, matches[b] # Null
    PROVE  /\ VerdictRank(b) \in Int
           /\ -matches[b].required \in Int
           /\ -Num(Ratio(b)) \in Int
<1>1. matches[b] \in [verdict : {"feasible", "fixable", "unclear", "infeasible"},
                      required : Nat, satisfied : Nat]
  BY TablesAssumption DEF TablesOK
<1>2. VerdictRank(b) \in Int BY <1>1 DEF VerdictRank
<1>3. Num(Ratio(b)) \in Int
  <2>1. CASE matches[b].required = 0 BY <2>1 DEF Ratio, Num
  <2>2. CASE matches[b].required # 0
    <3>1. Ratio(b) \in Int BY <1>1, <2>2 DEF Ratio
    <3> QED BY <3>1 DEF Num
  <2> QED BY <2>1, <2>2
<1> QED BY <1>1, <1>2, <1>3

(* A row that is listed is there, with a judgement where the list shows one. *)
LEMMA ListedFacts ==
    ASSUME NEW q, NEW t, NEW b \in Listed(q, t)
    PROVE  /\ b \in Bids /\ bids[b] # Null
           /\ q.list = "matches" => matches[b] # Null
           /\ q.list \notin {"matches", "scraps"} => Visible(b)
BY DEF Listed, Visible, Merged

LEMMA ListedFinite ==
    ASSUME NEW q, NEW t
    PROVE  /\ Listed(q, t) \subseteq Bids /\ IsFiniteSet(Listed(q, t))
           /\ Total(q, t) \in 0..Cardinality(Bids)
           /\ Total(q, t) = Cardinality(Listed(q, t))
<1>1. Listed(q, t) \in SUBSET Bids BY DEF Listed
<1>2. /\ IsFiniteSet(Listed(q, t)) /\ Cardinality(Listed(q, t)) <= Cardinality(Bids)
  BY <1>1, BidsFinite, FS_Subset
<1>3. Cardinality(Listed(q, t)) \in Nat /\ Cardinality(Bids) \in Nat
  BY <1>2, BidsFinite, FS_CardinalityType
<1> QED BY <1>1, <1>2, <1>3 DEF Total

LEMMA MatchKeyFacts ==
    ASSUME TablesOK, NEW q, q.sort \in {"deadline", "recent", "recommended"},
           q.list = "matches", NEW b \in Bids, bids[b] # Null, matches[b] # Null
    PROVE  /\ MatchKey(q, b) \in Seq(Int)
           /\ Len(MatchKey(q, b)) = Places(q)
           /\ MatchKey(q, b)[Places(q)] = b
<1> DEFINE undated == Flag(bids[b].closes = Null)
           undated2 == Flag(bids[b].posted = Null)
           unjudged == Flag(Ratio(b) = Null)
           closes == Num(bids[b].closes)
           posted == -Num(bids[b].posted)
           verdict == VerdictRank(b)
           ratio == -Num(Ratio(b))
           required == -matches[b].required
<1>1. /\ undated \in Int /\ undated2 \in Int /\ unjudged \in Int /\ closes \in Int
      /\ posted \in Int /\ verdict \in Int /\ ratio \in Int /\ required \in Int /\ b \in Int
  <2>1. undated \in Int /\ undated2 \in Int /\ unjudged \in Int BY FlagFacts
  <2>2. closes \in Int /\ posted \in Int BY RowFacts
  <2>3. verdict \in Int /\ ratio \in Int /\ required \in Int BY JudgementFacts
  <2> QED BY <2>1, <2>2, <2>3, BidsFinite
<1>2. CASE q.sort = "recent"
  <2>1. MatchKey(q, b) = <<undated, verdict, undated2, posted, b>>
    BY <1>2 DEF MatchKey
  <2>2. Places(q) = 5 BY <1>2 DEF Places
  <2> HIDE DEF undated, undated2, verdict, posted
  <2> QED BY <1>1, <2>1, <2>2
<1>3. CASE q.sort = "deadline"
  <2>1. MatchKey(q, b) = <<undated, verdict, closes, b>>
    BY <1>3 DEF MatchKey
  <2>2. Places(q) = 4 BY <1>3 DEF Places
  <2> HIDE DEF undated, verdict, closes
  <2> QED BY <1>1, <2>1, <2>2
<1>4. CASE q.sort = "recommended"
  <2>1. MatchKey(q, b) = <<undated, unjudged, ratio, required, closes, b>>
    BY <1>4 DEF MatchKey
  <2>2. Places(q) = 6 BY <1>4 DEF Places
  <2> HIDE DEF undated, unjudged, ratio, required, closes
  <2> QED BY <1>1, <2>1, <2>2
<1> QED BY <1>2, <1>3, <1>4

LEMMA DeadlineKeyFacts ==
    ASSUME TablesOK, NEW b \in Bids, bids[b] # Null, NEW t
    PROVE  /\ DeadlineKey(b, t) \in Seq(Int)
           /\ Len(DeadlineKey(b, t)) = 3
           /\ DeadlineKey(b, t)[3] = b
<1> DEFINE closes == bids[b].closes
           group == IF closes = Null THEN 2 ELSE IF closes < t THEN 1 ELSE 0
           date == IF closes = Null THEN 0 ELSE IF closes < t THEN -closes ELSE closes
<1>1. closes \in Nat \cup {Null} BY RowFacts
<1>2. DeadlineKey(b, t) = <<group, date, b>> BY DEF DeadlineKey
<1>3. group \in Int /\ date \in Int /\ b \in Int BY <1>1, BidsFinite
<1> HIDE DEF group, date
<1> QED BY <1>2, <1>3

LEMMA KeyFacts ==
    ASSUME TablesOK, NEW q, Sorted(q), NEW t, NEW b \in Listed(q, t)
    PROVE  /\ Key(q, b, t) \in Seq(Int)
           /\ Len(Key(q, b, t)) = Places(q)
           /\ Key(q, b, t)[Places(q)] = b
<1>1. b \in Bids /\ bids[b] # Null /\ (q.list = "matches" => matches[b] # Null) /\ b \in Int
  <2>1. b \in Bids /\ bids[b] # Null /\ (q.list = "matches" => matches[b] # Null)
    BY ListedFacts
  <2> QED BY <2>1, BidsFinite
<1> DEFINE undated == Flag(bids[b].closes = Null)
           undated2 == Flag(bids[b].posted = Null)
           closes == Num(bids[b].closes)
           posted == -Num(bids[b].posted)
           place == -SelectInSeq(scraps, LAMBDA a : a = b)
<1>2. undated \in Int /\ undated2 \in Int /\ closes \in Int /\ posted \in Int
  BY <1>1, RowFacts, FlagFacts
<1>3. place \in Int
  <2>1. scraps \in Seq(Bids) BY DEF TablesOK
  <2> DEFINE I == {i \in 1..Len(scraps) : scraps[i] = b}
  <2>2. SelectInSeq(scraps, LAMBDA a : a = b) = IF I # {} THEN Min(I) ELSE 0
    BY DEF SelectInSeq
  <2>3. I \in SUBSET Nat BY <2>1
  <2>4. I # {} => Min(I) \in I
    <3> HIDE DEF I
    <3> QED BY <2>3, MinFacts
  <2> QED BY <2>2, <2>3, <2>4
<1>4. CASE q.list = "bids"
  <2>1. Key(q, b, t) = <<undated, closes, b>> BY <1>4 DEF Key
  <2>2. Places(q) = 3 BY <1>4 DEF Places
  <2> HIDE DEF undated, closes
  <2> QED BY <1>1, <1>2, <2>1, <2>2
<1>5. CASE q.list = "search" /\ q.sort = "recent"
  <2>1. Key(q, b, t) = <<undated2, posted, b>> BY <1>5 DEF Key
  <2>2. Places(q) = 3 BY <1>5 DEF Places
  <2> HIDE DEF undated2, posted
  <2> QED BY <1>1, <1>2, <2>1, <2>2
<1>6. CASE q.list = "search" /\ q.sort = "deadline"
  <2>1. Key(q, b, t) = DeadlineKey(b, t) BY <1>6 DEF Key
  <2>2. Places(q) = 3 BY <1>6 DEF Places
  <2> QED BY <1>1, <2>1, <2>2, DeadlineKeyFacts
<1>7. CASE q.list = "matches" /\ q.sort \in {"deadline", "recent", "recommended"}
  <2>1. Key(q, b, t) = MatchKey(q, b) BY <1>7 DEF Key
  <2> QED BY <1>1, <1>7, <2>1, MatchKeyFacts
<1>8. CASE q.list = "scraps"
  <2>1. Key(q, b, t) = <<place, b>> BY <1>8 DEF Key
  <2>2. Places(q) = 2 BY <1>8 DEF Places
  <2> HIDE DEF place
  <2> QED BY <1>1, <1>3, <2>1, <2>2
<1> QED BY <1>4, <1>5, <1>6, <1>7, <1>8 DEF Sorted

(* No two rows of a list are equal.                                          *)
LEMMA KeysTotal ==
    ASSUME TablesOK, NEW q, Sorted(q), NEW t, NEW a \in Listed(q, t), NEW b \in Listed(q, t), a # b
    PROVE  Before(Key(q, a, t), Key(q, b, t)) \/ Before(Key(q, b, t), Key(q, a, t))
<1>1. /\ Key(q, a, t) \in Seq(Int) /\ Len(Key(q, a, t)) = Places(q) /\ Key(q, a, t)[Places(q)] = a
      /\ Key(q, b, t) \in Seq(Int) /\ Len(Key(q, b, t)) = Places(q) /\ Key(q, b, t)[Places(q)] = b
  BY KeyFacts
<1>2. Key(q, a, t) # Key(q, b, t) BY <1>1
<1> QED BY <1>1, <1>2, BeforeTotal

(* So the database has one order to return them in.                          *)
LEMMA OrdersFacts ==
    ASSUME TablesOK, NEW q, Sorted(q), NEW t, NEW s \in Orders(q, t)
    PROVE  /\ s \in SetToSeqs(Listed(q, t))
           /\ s \in Seq(Bids) /\ IsInjective(s)
           /\ Len(s) = Total(q, t) /\ ToSet(s) = Listed(q, t)
           /\ \A i, j \in DOMAIN s : i < j => ~Before(Key(q, s[j], t), Key(q, s[i], t))
           /\ \A u \in Orders(q, t) : u = s
<1> DEFINE L == Listed(q, t)
           key == [b \in L |-> Key(q, b, t)]
<1>1. /\ s \in SetToSeqs(L)
      /\ \A i, j \in DOMAIN s : i < j => ~Before(key[s[j]], key[s[i]])
  BY DEF Orders
<1>2. IsFiniteSet(L) /\ L \subseteq Bids /\ Total(q, t) = Cardinality(L) BY ListedFinite
<1>3. /\ s \in Seq(L) /\ IsInjective(s) /\ Len(s) = Cardinality(L) /\ ToSet(s) = L
  <2> HIDE DEF L
  <2> QED BY <1>1, <1>2, SeqsFacts
<1>4. \A i \in DOMAIN s : s[i] \in L BY <1>3 DEF ToSet
<1>5. \A i, j \in DOMAIN s : i < j => ~Before(Key(q, s[j], t), Key(q, s[i], t))
  BY <1>1, <1>4
<1>6. ASSUME NEW u \in Orders(q, t) PROVE u = s
  <2>1. /\ u \in SetToSeqs(L)
        /\ \A i, j \in DOMAIN u : i < j => ~Before(key[u[j]], key[u[i]])
    BY DEF Orders
  <2>2. \A a, b \in L : a # b => Before(key[a], key[b]) \/ Before(key[b], key[a])
    BY KeysTotal
  <2> HIDE DEF L, key
  <2> QED BY <1>1, <1>2, <2>1, <2>2, OneOrder
<1>7. s \in Seq(Bids)
  <2> HIDE DEF L
  <2> QED BY <1>2, <1>3
<1> QED BY <1>1, <1>2, <1>3, <1>5, <1>6, <1>7

(* The k-th page of an order.                                                *)
Page(s, k) == SubSeq(s, PageSize * (k - 1) + 1, Min({PageSize * (k - 1) + PageSize, Len(s)}))

LEMMA PageFacts ==
    ASSUME NEW s \in Seq(Bids), NEW k \in Nat \ {0}
    PROVE  /\ PageSize * (k - 1) \in Nat
           /\ Page(s, k) \in Seq(Bids)
           /\ Len(Page(s, k)) = IF Len(s) <= PageSize * (k - 1) THEN 0
                                ELSE Min({PageSize, Len(s) - PageSize * (k - 1)})
           /\ Len(Page(s, k)) <= PageSize
           /\ \A n \in 1..Len(s) :
                 PageSize * (k - 1) < n /\ n <= PageSize * (k - 1) + PageSize
                    => n - PageSize * (k - 1) \in 1..Len(Page(s, k))
           /\ \A i \in 1..Len(Page(s, k)) :
                 PageSize * (k - 1) + i \in 1..Len(s) /\ Page(s, k)[i] = s[PageSize * (k - 1) + i]
<1> DEFINE offset == PageSize * (k - 1)
           to == Min({offset + PageSize, Len(s)})
<1>1. PageSize \in Nat \ {0} BY ListsAssumption
<1>2. offset \in Nat BY <1>1
<1>3. Page(s, k) = SubSeq(s, offset + 1, to) BY DEF Page
<1> HIDE DEF offset
<1>4. to = IF offset + PageSize <= Len(s) THEN offset + PageSize ELSE Len(s)
  BY <1>1, <1>2, MinOfTwo
<1> HIDE DEF to
<1>5. to \in Nat /\ to <= Len(s) BY <1>1, <1>2, <1>4
<1>6. /\ Page(s, k) \in Seq(Bids)
      /\ Len(Page(s, k)) = IF offset + 1 <= to THEN to - offset ELSE 0
      /\ \A i \in 1..Len(Page(s, k)) :
            offset + i \in 1..Len(s) /\ Page(s, k)[i] = s[offset + i]
  BY <1>2, <1>3, <1>5
<1>7. Len(s) > offset => Min({PageSize, Len(s) - offset}) =
          IF PageSize <= Len(s) - offset THEN PageSize ELSE Len(s) - offset
  <2>1. SUFFICES ASSUME Len(s) > offset
                 PROVE  Min({PageSize, Len(s) - offset}) =
                           IF PageSize <= Len(s) - offset THEN PageSize ELSE Len(s) - offset
    OBVIOUS
  <2>2. PageSize \in Nat /\ Len(s) - offset \in Nat BY <1>1, <1>2, <2>1
  <2> QED BY <2>2, MinOfTwo
<1>8. Len(Page(s, k)) = IF Len(s) <= offset THEN 0 ELSE Min({PageSize, Len(s) - offset})
  <2>1. CASE Len(s) <= offset BY <1>1, <1>2, <1>4, <1>6, <2>1
  <2>2. CASE Len(s) > offset /\ offset + PageSize <= Len(s)
    BY <1>1, <1>2, <1>4, <1>6, <1>7, <2>2
  <2>3. CASE Len(s) > offset /\ ~(offset + PageSize <= Len(s))
    BY <1>1, <1>2, <1>4, <1>6, <1>7, <2>3
  <2> QED BY <1>2, <2>1, <2>2, <2>3
<1>9. Len(Page(s, k)) <= PageSize BY <1>1, <1>2, <1>4, <1>6
<1>10. \A n \in 1..Len(s) : offset < n /\ n <= offset + PageSize
           => n - offset \in 1..Len(Page(s, k))
  BY <1>1, <1>2, <1>4, <1>6
<1> QED BY <1>2, <1>6, <1>8, <1>9, <1>10 DEF offset

-----------------------------------------------------------------------------
(* Changes.  What was read holds while the tables are not written.           *)

LEMMA SameLists ==
    ASSUME UNCHANGED <<bids, matches, scraps>>
    PROVE  /\ \A q, t : Listed(q, t)' = Listed(q, t)
           /\ \A q, t : Total(q, t)' = Total(q, t)
           /\ \A q, t : Orders(q, t)' = Orders(q, t)
<1>1. \A q, t : Listed(q, t)' = Listed(q, t)
  BY DEF Listed, Visible, Merged, NotCanceled, OpenAt, InCategory, PostedToday, HasKeyword,
         Actionable
<1>2. \A q, b, t : Key(q, b, t)' = Key(q, b, t)
  BY DEF Key, DeadlineKey, MatchKey, VerdictRank, Ratio
<1> QED BY <1>1, <1>2 DEF Total, Orders

(* What a walk has shown, as long as the tables are what they were.          *)
WalkInv ==
    walk # Null =>
        /\ walk.at <= now /\ walk.began[1] <= walk.at
        /\ walk.began[2] <= walk.counted /\ walk.counted <= changes
        /\ walk.counted = changes => walk.total = Total(walk.query, walk.at)
        /\ walk.phase # "counted" => walk.pages # <<>>
        /\ walk.phase = "done" => walk.total <= PageSize * Len(walk.pages)
        /\ walk.began = <<now, changes>> =>
              \A k \in DOMAIN walk.pages :
                 \E s \in Orders(walk.query, walk.at) : walk.pages[k] = Page(s, k)

(* A request to scrap a bid has found it.                                    *)
ScrapInv == \A s \in Scrappers : scrap[s].phase = "resolved" => scrap[s].bid \in Bids

(* TypeOK's part, without the requests for recommendations.                 *)
ListTypes == TablesOK /\ ListsOK

ReadInv == ListTypes /\ ScrapInv /\ WalkInv /\ TotalFits

LEMMA TypedTablesNext ==
    ASSUME TablesOK, ScrapInv, TablesNext
    PROVE  /\ TablesOK' /\ ScrapInv'
           /\ \/ UNCHANGED <<bids, matches, scraps, changes>> /\ now <= now'
              \/ changes' = changes + 1 /\ now' = now
<1> DEFINE ScrapType == [Scrappers -> [phase : {"new", "resolved", "done"}, op : {"add", "remove"},
                                       bid : Bids \cup {Null}]]
<1> USE DEF TablesOK, ScrapInv
<1>1. CASE \E s \in Scrappers, b \in Bids, op \in {"add", "remove"} : Resolve(s, op, b)
  <2>1. PICK s \in Scrappers, b \in Bids, op \in {"add", "remove"} : Resolve(s, op, b) BY <1>1
  <2>2. scrap' \in ScrapType BY <2>1 DEF Resolve
  <2> QED BY <2>1, <2>2 DEF Resolve
<1>2. CASE \E s \in Scrappers : ScrapWrite(s)
  <2>1. PICK s \in Scrappers : ScrapWrite(s) BY <1>2
  <2>2. scrap' \in ScrapType BY <2>1 DEF ScrapWrite
  <2>3. changes' = changes + 1 /\ changes' \in 0..MaxChanges
    BY <2>1, TablesAssumption DEF ScrapWrite, Commit
  <2>4. scraps' \in Seq(Bids) /\ IsInjective(scraps')
    <3> DEFINE b == scrap[s].bid
    <3>1. scraps \in Seq(Bids) /\ IsInjective(scraps) OBVIOUS
    <3>2. CASE scrap[s].op = "remove"
      <4>1. scraps' = RemoveFirst(scraps, b) BY <2>1, <3>2 DEF ScrapWrite
      <4> HIDE DEF b
      <4> QED BY <3>1, <4>1, RemoveFacts
    <3>3. CASE scrap[s].op # "remove" /\ b \in ToSet(scraps)
      <4>1. scraps' = scraps BY <2>1, <3>3 DEF ScrapWrite
      <4> QED BY <3>1, <4>1
    <3>4. CASE scrap[s].op # "remove" /\ b \notin ToSet(scraps)
      <4>1. scraps' = Append(scraps, b) /\ scrap[s].phase = "resolved"
        BY <2>1, <3>4 DEF ScrapWrite
      <4>3. b \in Bids BY <4>1
      <4> HIDE DEF b
      <4>4. scraps' \in Seq(Bids) BY <3>1, <4>1, <4>3
      <4>5. IsInjective(scraps') BY <3>1, <3>4, <4>1, <4>3 DEF IsInjective, ToSet
      <4> QED BY <4>4, <4>5
    <3> QED BY <3>2, <3>3, <3>4
  <2> QED BY <2>1, <2>2, <2>3, <2>4 DEF ScrapWrite
<1>3. CASE \E b \in Bids, content \in Contents : Collect(b, content)
  <2>1. PICK b \in Bids, content \in Contents : Collect(b, content) BY <1>3
  <2>2. changes' = changes + 1 /\ changes' \in 0..MaxChanges
    BY <2>1, TablesAssumption DEF Collect, Commit
  <2> QED BY <2>1, <2>2 DEF Collect
<1>4. CASE \E b \in Bids, j \in Judgements : Judge(b, j)
  <2>1. PICK b \in Bids, j \in Judgements : Judge(b, j) BY <1>4
  <2>2. changes' = changes + 1 /\ changes' \in 0..MaxChanges
    BY <2>1, TablesAssumption DEF Judge, Commit
  <2> QED BY <2>1, <2>2 DEF Judge
<1>5. CASE \E p \in Profiles : SaveProfile(p)
  <2>1. PICK p \in Profiles : SaveProfile(p) BY <1>5
  <2>2. changes' = changes + 1 /\ changes' \in 0..MaxChanges
    BY <2>1, TablesAssumption DEF SaveProfile, Commit
  <2> QED BY <2>1, <2>2 DEF SaveProfile
<1>6. CASE Tick
  BY <1>6, TablesAssumption DEF Tick
<1> QED BY <1>1, <1>2, <1>3, <1>4, <1>5, <1>6 DEF TablesNext

LEMMA TableStep ==
    ASSUME ReadInv, TablesNext, UNCHANGED listVars
    PROVE  ReadInv'
<1> USE DEF ReadInv, listVars
<1>1. /\ TablesOK' /\ ScrapInv'
      /\ \/ UNCHANGED <<bids, matches, scraps, changes>> /\ now <= now'
         \/ changes' = changes + 1 /\ now' = now
  BY TypedTablesNext DEF ListTypes
<1>2. walk' = walk OBVIOUS
<1>3. ListsOK' BY <1>2 DEF ListTypes, ListsOK
<1>4. now \in Nat /\ now' \in Nat /\ changes \in Nat /\ changes' \in Nat
  BY <1>1, TablesAssumption DEF ListTypes, TablesOK
<1>5. SUFFICES ASSUME walk # Null PROVE WalkInv' /\ TotalFits'
  BY <1>1, <1>2, <1>3 DEF ListTypes, WalkInv, TotalFits
<1>6. /\ walk.at \in Nat /\ walk.began[1] \in Nat /\ walk.began[2] \in Nat /\ walk.counted \in Nat
      /\ walk.began = <<walk.began[1], walk.began[2]>>
  BY <1>5, TablesAssumption DEF ListTypes, ListsOK
<1>7. CASE UNCHANGED <<bids, matches, scraps, changes>> /\ now <= now'
  <2>1. \A q, t : Total(q, t)' = Total(q, t) /\ Orders(q, t)' = Orders(q, t)
    BY <1>7, SameLists
  <2>2. walk.began = <<now', changes'>> => walk.began = <<now, changes>>
    BY <1>4, <1>5, <1>6, <1>7 DEF WalkInv
  <2>3. WalkInv' BY <1>2, <1>4, <1>5, <1>6, <1>7, <2>1, <2>2 DEF WalkInv
  <2>4. TotalFits' BY <1>2, <1>7 DEF TotalFits
  <2> QED BY <2>3, <2>4
<1>8. CASE changes' = changes + 1 /\ now' = now
  <2>1. walk.counted < changes' /\ walk.began[2] < changes'
    BY <1>4, <1>5, <1>6, <1>8 DEF WalkInv
  <2>2. walk.began # <<now', changes'>> BY <1>4, <1>6, <2>1
  <2>3. WalkInv' BY <1>2, <1>4, <1>5, <1>6, <1>8, <2>1, <2>2 DEF WalkInv
  <2>4. TotalFits' BY <1>2, <1>4, <1>6, <2>1 DEF TotalFits
  <2> QED BY <2>3, <2>4
<1> QED BY <1>1, <1>7, <1>8

LEMMA SameTables ==
    ASSUME UNCHANGED tableVars, TablesOK, ScrapInv
    PROVE  /\ TablesOK' /\ ScrapInv'
           /\ \A q, t : Total(q, t)' = Total(q, t) /\ Orders(q, t)' = Orders(q, t)
           /\ now' = now /\ changes' = changes
<1>1. UNCHANGED <<bids, matches, scraps>> BY DEF tableVars
<1>2. \A q, t : Total(q, t)' = Total(q, t) /\ Orders(q, t)' = Orders(q, t) BY <1>1, SameLists
<1> QED BY <1>2 DEF tableVars, TablesOK, ScrapInv

LEMMA CountStep ==
    ASSUME ReadInv, NEW q \in Queries, Count(q)
    PROVE  ReadInv'
<1> USE DEF ReadInv
<1>1. /\ TablesOK' /\ ScrapInv' /\ now' = now /\ changes' = changes
      /\ \A p, t : Total(p, t)' = Total(p, t)
  BY SameTables DEF Count, ListTypes
<1>2. now \in 0..MaxTime /\ now \in Nat /\ changes \in Nat
  BY TablesAssumption DEF ListTypes, TablesOK
<1>3. Total(q, now) \in 0..Cardinality(Bids) BY ListedFinite
<1>4. walk' = [query |-> q, phase |-> "counted", at |-> now, total |-> Total(q, now),
               pages |-> <<>>, began |-> <<now, changes>>, counted |-> changes]
  BY DEF Count
<1>5. ListsOK' BY <1>2, <1>3, <1>4 DEF ListsOK
<1>6. /\ walk'.query = q /\ walk'.phase = "counted" /\ walk'.at = now
      /\ walk'.total = Total(q, now) /\ walk'.pages = <<>> /\ walk'.began = <<now, changes>>
      /\ walk'.counted = changes
  BY <1>4
<1>7. WalkInv' BY <1>1, <1>2, <1>6 DEF WalkInv
<1>8. TotalFits' BY <1>6 DEF TotalFits
<1> QED BY <1>1, <1>5, <1>7, <1>8 DEF ListTypes

LEMMA WalkTypes ==
    ASSUME ListTypes, walk # Null
    PROVE  /\ walk \in [query : Queries, phase : {"counted", "shown", "done"}, at : 0..MaxTime,
                        total : 0..Cardinality(Bids), pages : Seq(Seq(Bids)),
                        began : (0..MaxTime) \X Nat, counted : Nat]
            /\ walk.query \in Query /\ Sorted(walk.query)
            /\ walk.query \in Queries /\ walk.at \in Nat
           /\ walk.phase \in {"counted", "shown", "done"}
           /\ walk.total \in Nat /\ walk.pages \in Seq(Seq(Bids))
           /\ walk.began[1] \in Nat /\ walk.began[2] \in Nat /\ walk.counted \in Nat
           /\ walk.began = <<walk.began[1], walk.began[2]>>
           /\ now \in 0..MaxTime /\ now \in Nat /\ changes \in Nat
BY BidsFinite, FS_CardinalityType, TablesAssumption, QueriesAssumption, QuerySorted, SMTT(30)
   DEF ListTypes, ListsOK, TablesOK

LEMMA CountNextStep ==
    ASSUME ReadInv, CountNext
    PROVE  ReadInv'
<1> USE DEF ReadInv
<1>1. /\ TablesOK' /\ ScrapInv' /\ now' = now /\ changes' = changes
      /\ \A q, t : Total(q, t)' = Total(q, t) /\ Orders(q, t)' = Orders(q, t)
  BY SameTables DEF CountNext, ListTypes
<1>2. walk # Null /\ walk.phase = "shown" BY DEF CountNext
<1>3. Total(walk.query, now) \in 0..Cardinality(Bids) BY ListedFinite
<1>4. walk' = [walk EXCEPT !.phase = "counted", !.at = now, !.total = Total(walk.query, now),
                           !.counted = changes]
  BY DEF CountNext
<1>5. ListsOK' BY <1>2, <1>3, <1>4, WalkTypes DEF ListsOK
<1>6. /\ walk'.query = walk.query /\ walk'.phase = "counted" /\ walk'.at = now
      /\ walk'.total = Total(walk.query, now) /\ walk'.pages = walk.pages
      /\ walk'.began = walk.began /\ walk'.counted = changes
  BY <1>2, <1>4, WalkTypes
<1>7. walk.began = <<now, changes>> => walk.at = now
  <2>1. walk.began = <<now, changes>> => walk.began[1] = now OBVIOUS
  <2> QED BY <1>2, <2>1, WalkTypes DEF WalkInv
<1>8. WalkInv'
  <2>1. /\ walk'.at <= now' /\ walk'.began[1] <= walk'.at /\ walk'.began[2] <= walk'.counted
        /\ walk'.counted <= changes'
    BY <1>1, <1>2, <1>6, WalkTypes DEF WalkInv
  <2>2. walk'.total = Total(walk.query, walk.at)' BY <1>1, <1>6
  <2>3. ASSUME walk'.began = <<now', changes'>>, NEW k \in DOMAIN walk'.pages
        PROVE  \E s \in Orders(walk.query, now) : walk'.pages[k] = Page(s, k)
    BY <1>1, <1>2, <1>6, <1>7, <2>3 DEF WalkInv
  <2> QED BY <1>1, <1>6, <2>1, <2>2, <2>3 DEF WalkInv
<1>9. TotalFits' BY <1>6 DEF TotalFits
<1> QED BY <1>1, <1>5, <1>8, <1>9 DEF ListTypes

LEMMA ShowPageStep ==
    ASSUME ReadInv, ShowPage
    PROVE  ReadInv'
<1> USE DEF ReadInv
<1> DEFINE k == Len(walk.pages) + 1
           offset == PageSize * Len(walk.pages)
<1>1. /\ TablesOK' /\ ScrapInv' /\ now' = now /\ changes' = changes
      /\ \A q, t : Total(q, t)' = Total(q, t) /\ Orders(q, t)' = Orders(q, t)
  BY SameTables DEF ShowPage, ListTypes
<1>2. walk # Null /\ walk.phase = "counted" BY DEF ShowPage
<1>3. PICK s \in Orders(walk.query, walk.at) :
         walk' = [walk EXCEPT
            !.pages = Append(@, SubSeq(s, offset + 1, Min({offset + PageSize, Len(s)}))),
            !.phase = IF offset + PageSize < walk.total THEN "shown" ELSE "done"]
  BY DEF ShowPage
<1>4. s \in Seq(Bids) /\ Len(s) = Total(walk.query, walk.at)
  <2>1. Sorted(walk.query) /\ TablesOK BY <1>2, WalkTypes DEF ListTypes
  <2> QED BY <2>1, OrdersFacts
<1>5. walk.pages \in Seq(Seq(Bids)) /\ PageSize \in Nat \ {0} BY <1>2, WalkTypes, ListsAssumption
<1>6. k \in Nat \ {0} /\ k - 1 = Len(walk.pages) /\ offset = PageSize * (k - 1) /\ offset \in Nat
  BY <1>5
<1>7. SubSeq(s, offset + 1, Min({offset + PageSize, Len(s)})) = Page(s, k) BY <1>6 DEF Page
<1>8. Page(s, k) \in Seq(Bids) BY <1>4, <1>6, PageFacts
<1>9. /\ walk'.query = walk.query /\ walk'.at = walk.at /\ walk'.total = walk.total
      /\ walk'.pages = Append(walk.pages, Page(s, k))
      /\ walk'.phase = (IF offset + PageSize < walk.total THEN "shown" ELSE "done")
      /\ walk'.began = walk.began /\ walk'.counted = walk.counted
  BY <1>2, <1>3, <1>7, WalkTypes
<1>10. /\ walk'.pages \in Seq(Seq(Bids)) /\ Len(walk'.pages) = k /\ walk'.pages[k] = Page(s, k)
       /\ \A i \in 1..(k - 1) : walk'.pages[i] = walk.pages[i]
       /\ walk'.pages # <<>>
  BY <1>5, <1>8, <1>9, AppendProperties
<1>11. ListsOK'
  <2> DEFINE pages == walk'.pages
             phase == walk'.phase
  <2>1. walk' = [walk EXCEPT !.pages = pages, !.phase = phase]
    BY <1>2, <1>3, <1>7, <1>9, WalkTypes
  <2>2. pages \in Seq(Seq(Bids)) /\ phase \in {"counted", "shown", "done"} BY <1>9, <1>10
  <2> HIDE DEF pages, phase
  <2>3. walk' \in [query : Queries, phase : {"counted", "shown", "done"}, at : 0..MaxTime,
                   total : 0..Cardinality(Bids), pages : Seq(Seq(Bids)),
                   began : (0..MaxTime) \X Nat, counted : Nat]
    BY <1>2, <2>1, <2>2, WalkTypes
  <2> QED BY <2>3 DEF ListsOK
<1> HIDE DEF k, offset
<1>12. WalkInv'
  <2>1. /\ walk'.at <= now' /\ walk'.began[1] <= walk'.at /\ walk'.began[2] <= walk'.counted
        /\ walk'.counted <= changes'
    BY <1>1, <1>2, <1>9 DEF WalkInv
  <2>4. walk'.counted = changes' => walk'.total = Total(walk.query, walk.at)'
    BY <1>1, <1>2, <1>9 DEF WalkInv
  <2>2. walk'.phase = "done" => walk'.total <= PageSize * Len(walk'.pages)
    <3>1. PageSize * k = offset + PageSize BY <1>5, <1>6
    <3>2. walk'.phase = "done" => walk'.total <= PageSize * k
      <4>1. walk.total \in Nat /\ walk'.total = walk.total BY <1>2, <1>9, WalkTypes
      <4>2. walk'.phase = "done" => ~(offset + PageSize < walk.total) BY <1>9
      <4> QED BY <1>5, <1>6, <3>1, <4>1, <4>2
    <3> QED BY <1>10, <3>2
  <2>3. ASSUME walk'.began = <<now', changes'>>, NEW i \in DOMAIN walk'.pages
        PROVE  \E u \in Orders(walk.query, walk.at) : walk'.pages[i] = Page(u, i)
    <3>1. i \in 1..k BY <1>10
    <3>2. CASE i = k BY <1>3, <1>10, <3>2
    <3>3. CASE i # k
      <4>1. i \in 1..(k - 1) /\ i \in DOMAIN walk.pages BY <1>5, <1>6, <3>1, <3>3
      <4>2. walk.began = <<now, changes>> BY <1>1, <1>9, <2>3
      <4> QED BY <1>2, <1>10, <4>1, <4>2 DEF WalkInv
    <3> QED BY <3>2, <3>3
  <2>5. walk'.began = <<now', changes'>> =>
           \A i \in DOMAIN walk'.pages :
              \E u \in Orders(walk.query, walk.at)' : walk'.pages[i] = Page(u, i)
    BY <1>1, <1>9, <2>3
  <2> QED BY <1>10, <2>1, <2>2, <2>4, <2>5 DEF WalkInv
<1>13. TotalFits'
  <2>1. SUFFICES ASSUME walk.counted = changes
                 PROVE  Len(Page(s, k)) = IF walk.total <= offset THEN 0
                                          ELSE Min({PageSize, walk.total - offset})
    BY <1>1, <1>6, <1>9, <1>10 DEF TotalFits, Last
  <2>2. walk.total = Len(s) BY <1>2, <1>4, <2>1 DEF WalkInv
  <2> QED BY <1>4, <1>6, <2>2, PageFacts
<1> QED BY <1>1, <1>11, <1>12, <1>13 DEF ListTypes

LEMMA InitReads == Init => ReadInv
<1> SUFFICES ASSUME Init PROVE ReadInv OBVIOUS
<1>1. TablesOK /\ ScrapInv
  BY TablesAssumption DEF Init, TablesInit, TablesOK, ScrapInv
<1>2. walk = Null BY DEF Init, ListsInit
<1> QED BY <1>1, <1>2 DEF ReadInv, ListTypes, ListsOK, WalkInv, TotalFits

LEMMA NextReads == ReadInv /\ [Next]_vars => ReadInv'
<1>1. SUFFICES ASSUME ReadInv, [Next]_vars PROVE ReadInv' OBVIOUS
<1>2. ASSUME UNCHANGED <<tableVars, listVars>> PROVE ReadInv'
  <2>1. /\ TablesOK' /\ ScrapInv' /\ now' = now /\ changes' = changes
        /\ \A q, t : Total(q, t)' = Total(q, t) /\ Orders(q, t)' = Orders(q, t)
    BY <1>1, <1>2, SameTables DEF ReadInv, ListTypes
  <2>2. walk' = walk BY <1>2 DEF listVars
  <2>3. ListsOK' BY <1>1, <2>2 DEF ReadInv, ListTypes, ListsOK
  <2>4. WalkInv' BY <1>1, <2>1, <2>2 DEF ReadInv, WalkInv
  <2>5. TotalFits' BY <1>1, <2>1, <2>2 DEF ReadInv, TotalFits
  <2> QED BY <2>1, <2>3, <2>4, <2>5 DEF ReadInv, ListTypes
<1>3. CASE TablesNext /\ UNCHANGED <<listVars, askVars>> BY <1>1, <1>3, TableStep
<1>4. CASE ~Asking /\ ListsNext /\ UNCHANGED askVars
  BY <1>1, <1>4, CountStep, CountNextStep, ShowPageStep DEF ListsNext
<1>5. CASE ~Walking /\ (\E r \in Requests : AskStep(r)) /\ UNCHANGED listVars
  BY <1>2, <1>5
     DEF AskStep, SelectTexts, SelectCodes, SelectAmounts, LookUp, Embed, SearchTitles,
         SearchFails, Reply
<1>6. CASE ~Walking /\ ~Reading /\ AskBegins /\ UNCHANGED listVars
  BY <1>2, <1>6 DEF AskBegins, Begin
<1>7. CASE Finished BY <1>2, <1>7 DEF Finished, vars
<1>8. CASE UNCHANGED vars BY <1>2, <1>8 DEF vars
<1> QED BY <1>1, <1>3, <1>4, <1>5, <1>6, <1>7, <1>8 DEF Next

LEMMA ReadsInvariant == Spec => []ReadInv
<1>1. Init => ReadInv BY InitReads
<1>2. ReadInv /\ [Next]_vars => ReadInv' BY NextReads
<1> QED BY <1>1, <1>2, PTL DEF Spec

-----------------------------------------------------------------------------
(* A page is as long as the total of its answer says, for any list, if       *)
(* nothing was committed between the two statements of the answer.           *)
THEOREM TotalCorrect == Spec => []TotalFits
<1>1. ReadInv => TotalFits BY DEF ReadInv
<1> QED BY <1>1, ReadsInvariant, PTL

(* The places of an order fall on the pages, each on one.                    *)
LEMMA PlaceOnPage ==
    ASSUME NEW n \in Nat \ {0}
    PROVE  \E k \in Nat \ {0} : PageSize * (k - 1) < n /\ n <= PageSize * (k - 1) + PageSize
<1> DEFINE K == {k \in Nat : n <= PageSize * k}
<1>1. PageSize \in Nat \ {0} BY ListsAssumption
<1>2. n <= PageSize * n BY <1>1
<1>3. K \in SUBSET Nat /\ K # {} BY <1>2
<1>4. PICK k \in K : \A j \in K : k <= j
  <2> HIDE DEF K
  <2> QED BY <1>3, HasLeast
<1>5. k \in Nat /\ n <= PageSize * k OBVIOUS
<1>6. k # 0 BY <1>1, <1>5
<1>7. PageSize * k = PageSize * (k - 1) + PageSize BY <1>1, <1>5
<1>8. k - 1 \in Nat BY <1>5, <1>6
<1>9. ~(n <= PageSize * (k - 1))
  <2>1. ASSUME n <= PageSize * (k - 1) PROVE FALSE
    <3>1. k - 1 \in K BY <1>8, <2>1
    <3>2. k <= k - 1 BY <1>4, <3>1
    <3> QED BY <1>5, <3>2
  <2> QED BY <2>1
<1>10. PageSize * (k - 1) \in Nat BY <1>1, <1>8
<1> QED BY <1>5, <1>6, <1>7, <1>9, <1>10

LEMMA PagesApart ==
    ASSUME NEW k \in Nat \ {0}, NEW l \in Nat \ {0}, k < l
    PROVE  PageSize * (k - 1) + PageSize <= PageSize * (l - 1)
<1>1. PageSize \in Nat \ {0} BY ListsAssumption
<1>2. l - 1 - k \in Nat OBVIOUS
<1>3. PageSize * (l - 1 - k) \in Nat BY <1>1, <1>2
<1>4. PageSize * (l - 1) = PageSize * k + PageSize * (l - 1 - k) BY <1>1
<1>5. PageSize * k = PageSize * (k - 1) + PageSize BY <1>1
<1>6. PageSize * k \in Nat BY <1>1
<1> QED BY <1>3, <1>4, <1>5, <1>6

(* A walk that nothing disturbs shows every row of the list in one place:    *)
(* no row is repeated or missed at a page's edge.                            *)
THEOREM PagesCorrect == Spec => []PagesPartition
<1>1. ASSUME ReadInv PROVE PagesPartition
  <2>1. SUFFICES ASSUME walk # Null, walk.phase = "done", walk.began = <<now, changes>>
        PROVE  LET places == UNION {{<<page, i>> : i \in DOMAIN walk.pages[page]} :
                                    page \in DOMAIN walk.pages}
                   row(place) == walk.pages[place[1]][place[2]]
               IN  /\ Listed(walk.query, now) = {row(place) : place \in places}
                   /\ \A p1, p2 \in places : row(p1) = row(p2) => p1 = p2
    BY DEF PagesPartition
  <2> DEFINE N == Len(walk.pages)
             places == UNION {{<<page, i>> : i \in DOMAIN walk.pages[page]} :
                              page \in DOMAIN walk.pages}
             row(place) == walk.pages[place[1]][place[2]]
  <2>2. ListTypes /\ WalkInv /\ TablesOK BY <1>1 DEF ReadInv, ListTypes
  <2>3. /\ Sorted(walk.query) /\ walk.pages \in Seq(Seq(Bids)) /\ N \in Nat
        /\ now \in Nat /\ changes \in Nat /\ walk.at \in Nat /\ walk.counted \in Nat
    BY <2>1, <2>2, WalkTypes
  <2>4. walk.began[1] = now /\ walk.began[2] = changes BY <2>1
  <2>5. walk.at = now /\ walk.counted = changes
    <3>1. /\ walk.at <= now /\ walk.began[1] <= walk.at
          /\ walk.began[2] <= walk.counted /\ walk.counted <= changes
      BY <2>1, <2>2 DEF WalkInv
    <3> QED BY <2>3, <2>4, <3>1
  <2>6. /\ walk.total = Total(walk.query, now) /\ walk.pages # <<>>
        /\ walk.total <= PageSize * N
        /\ \A k \in DOMAIN walk.pages :
              \E s \in Orders(walk.query, now) : walk.pages[k] = Page(s, k)
    BY <2>1, <2>2, <2>5 DEF WalkInv
  <2>7. DOMAIN walk.pages = 1..N /\ N # 0 BY <2>3, <2>6
  <2>8. PICK s \in Orders(walk.query, now) : walk.pages[1] = Page(s, 1)
    <3>1. 1 \in DOMAIN walk.pages BY <2>3, <2>7
    <3> QED BY <2>6, <3>1
  <2>9. /\ s \in Seq(Bids) /\ IsInjective(s) /\ Len(s) = walk.total
        /\ ToSet(s) = Listed(walk.query, now)
        /\ \A u \in Orders(walk.query, now) : u = s
    BY <2>2, <2>3, <2>6, OrdersFacts
  <2>10. \A k \in 1..N : walk.pages[k] = Page(s, k) BY <2>6, <2>7, <2>9
  <2>11. PageSize \in Nat \ {0} BY ListsAssumption
  <2>12. ASSUME NEW k \in 1..N, NEW i \in DOMAIN walk.pages[k]
         PROVE  /\ k \in Nat \ {0} /\ PageSize * (k - 1) \in Nat
                /\ i \in 1..PageSize
                /\ PageSize * (k - 1) + i \in 1..Len(s)
                /\ row(<<k, i>>) = s[PageSize * (k - 1) + i]
    <3>1. k \in Nat \ {0} BY <2>3
    <3>2. i \in 1..Len(Page(s, k))
      <4>1. Page(s, k) \in Seq(Bids) BY <2>9, <3>1, PageFacts
      <4> QED BY <2>10, <4>1
    <3>3. /\ PageSize * (k - 1) \in Nat /\ Len(Page(s, k)) <= PageSize
          /\ PageSize * (k - 1) + i \in 1..Len(s)
          /\ Page(s, k)[i] = s[PageSize * (k - 1) + i]
          /\ Page(s, k) \in Seq(Bids)
      BY <2>9, <3>1, <3>2, PageFacts
    <3>4. i \in 1..PageSize BY <2>11, <3>2, <3>3
    <3> QED BY <2>10, <3>1, <3>3, <3>4
  <2>13. \A p \in places : \E k \in 1..N : \E i \in DOMAIN walk.pages[k] : p = <<k, i>>
    BY <2>7
  <2>14. \A k \in 1..N : \A i \in DOMAIN walk.pages[k] : <<k, i>> \in places
    BY <2>7
  <2> HIDE DEF places, row, N
  <2>15. \A p \in places : row(p) \in Listed(walk.query, now)
    <3>1. SUFFICES ASSUME NEW p \in places PROVE row(p) \in ToSet(s) BY <2>9
    <3>2. PICK k \in 1..N : \E i \in DOMAIN walk.pages[k] : p = <<k, i>> BY <2>13
    <3>3. PICK i \in DOMAIN walk.pages[k] : p = <<k, i>> BY <3>2
    <3>4. /\ PageSize * (k - 1) + i \in 1..Len(s)
          /\ row(<<k, i>>) = s[PageSize * (k - 1) + i]
      BY <2>12
    <3> QED BY <2>9, <3>3, <3>4 DEF ToSet
  <2>16. \A b \in Listed(walk.query, now) : \E p \in places : row(p) = b
    <3>1. SUFFICES ASSUME NEW b \in ToSet(s) PROVE \E p \in places : row(p) = b BY <2>9
    <3>2. PICK n \in 1..Len(s) : s[n] = b BY <2>9 DEF ToSet
    <3>3. n \in Nat \ {0} /\ n <= PageSize * N BY <2>3, <2>6, <2>9, <2>11, <3>2
    <3>4. PICK k \in Nat \ {0} : PageSize * (k - 1) < n /\ n <= PageSize * (k - 1) + PageSize
      BY <3>3, PlaceOnPage
    <3>5. k \in 1..N
      <4>1. ASSUME N < k PROVE FALSE
        <5>1. PageSize * (k - 1) \in Nat /\ PageSize * N \in Nat BY <2>3, <2>11, <3>4
        <5>2. PageSize * (N - 1) + PageSize <= PageSize * (k - 1)
          <6>1. N \in Nat \ {0} BY <2>3, <2>7
          <6> QED BY <3>4, <4>1, <6>1, PagesApart
        <5>3. PageSize * (N - 1) + PageSize = PageSize * N BY <2>3, <2>11
        <5> QED BY <3>3, <3>4, <5>1, <5>2, <5>3
      <4> QED BY <2>3, <3>4, <4>1
    <3>6. n - PageSize * (k - 1) \in 1..Len(Page(s, k))
      BY <2>9, <3>2, <3>4, PageFacts
    <3> DEFINE i == n - PageSize * (k - 1)
    <3>7. i \in DOMAIN walk.pages[k]
      <4>1. Page(s, k) \in Seq(Bids) BY <2>9, <3>4, PageFacts
      <4> QED BY <2>10, <3>5, <3>6, <4>1
    <3>8. row(<<k, i>>) = s[PageSize * (k - 1) + i] /\ PageSize * (k - 1) \in Nat
      BY <2>12, <3>5, <3>7
    <3>9. PageSize * (k - 1) + i = n BY <3>2, <3>8
    <3>10. <<k, i>> \in places BY <2>14, <3>5, <3>7
    <3> QED BY <3>2, <3>8, <3>9, <3>10
  <2>17. \A p1, p2 \in places : row(p1) = row(p2) => p1 = p2
    <3>1. SUFFICES ASSUME NEW p1 \in places, NEW p2 \in places, row(p1) = row(p2)
                   PROVE  p1 = p2
      OBVIOUS
    <3>2. PICK k \in 1..N : \E i \in DOMAIN walk.pages[k] : p1 = <<k, i>> BY <2>13
    <3>3. PICK i \in DOMAIN walk.pages[k] : p1 = <<k, i>> BY <3>2
    <3>4. PICK l \in 1..N : \E j \in DOMAIN walk.pages[l] : p2 = <<l, j>> BY <2>13
    <3>5. PICK j \in DOMAIN walk.pages[l] : p2 = <<l, j>> BY <3>4
    <3>6. /\ k \in Nat \ {0} /\ PageSize * (k - 1) \in Nat /\ i \in 1..PageSize
          /\ PageSize * (k - 1) + i \in 1..Len(s)
          /\ row(<<k, i>>) = s[PageSize * (k - 1) + i]
      BY <2>12
    <3>7. /\ l \in Nat \ {0} /\ PageSize * (l - 1) \in Nat /\ j \in 1..PageSize
          /\ PageSize * (l - 1) + j \in 1..Len(s)
          /\ row(<<l, j>>) = s[PageSize * (l - 1) + j]
      BY <2>12
    <3>8. PageSize * (k - 1) + i = PageSize * (l - 1) + j
      BY <2>9, <3>1, <3>3, <3>5, <3>6, <3>7, SMTT(30) DEF IsInjective
    <3>13. \A x, y \in Nat : \A m, n \in 1..PageSize : x + m = y + n => ~(x + PageSize <= y)
      BY <2>11
    <3>9. ~(k < l)
      <4>1. ASSUME k < l PROVE FALSE
        <5>1. PageSize * (k - 1) + PageSize <= PageSize * (l - 1)
          BY <3>6, <3>7, <4>1, PagesApart
        <5> QED BY <3>6, <3>7, <3>8, <3>13, <5>1
      <4> QED BY <4>1
    <3>10. ~(l < k)
      <4>1. ASSUME l < k PROVE FALSE
        <5>1. PageSize * (l - 1) + PageSize <= PageSize * (k - 1)
          BY <3>6, <3>7, <4>1, PagesApart
        <5> QED BY <3>6, <3>7, <3>8, <3>13, <5>1
      <4> QED BY <4>1
    <3>11. k = l BY <3>6, <3>7, <3>9, <3>10
    <3>12. i = j BY <3>6, <3>7, <3>8, <3>11
    <3> QED BY <3>3, <3>5, <3>11, <3>12
  <2> QED BY <2>15, <2>16, <2>17 DEF places, row
<1> QED BY <1>1, ReadsInvariant, PTL

-----------------------------------------------------------------------------
(* The search and the home page.                                             *)

LEMMA BeforeOfThree ==
    ASSUME NEW x1 \in Int, NEW x2 \in Int, NEW x3 \in Int,
           NEW y1 \in Int, NEW y2 \in Int, NEW y3 \in Int
    PROVE  Before(<<x1, x2, x3>>, <<y1, y2, y3>>)
              <=> \/ x1 < y1
                  \/ x1 = y1 /\ x2 < y2
                  \/ x1 = y1 /\ x2 = y2 /\ x3 < y3
<1> DEFINE x == <<x1, x2, x3>>
           y == <<y1, y2, y3>>
           at(i) == x[i] < y[i] /\ \A j \in 1..(i - 1) : x[j] = y[j]
<1>1. DOMAIN x = {1, 2, 3} OBVIOUS
<1>2. Before(x, y) <=> at(1) \/ at(2) \/ at(3) BY <1>1 DEF Before
<1>3. at(1) <=> x1 < y1 OBVIOUS
<1>4. at(2) <=> x1 = y1 /\ x2 < y2
  <2>1. 1..(2 - 1) = {1} OBVIOUS
  <2> QED BY <2>1
<1>5. at(3) <=> x1 = y1 /\ x2 = y2 /\ x3 < y3
  <2>1. 1..(3 - 1) = {1, 2} OBVIOUS
  <2> QED BY <2>1
<1> QED BY <1>2, <1>3, <1>4, <1>5

(* How the two keys order two rows that are there.                           *)
LEMMA KeysOfDates ==
    ASSUME TablesOK, NEW a \in Bids, bids[a] # Null, NEW b \in Bids, bids[b] # Null,
           NEW t \in Nat, NEW c
    PROVE  /\ OpenAt(a, t) /\ OpenAt(b, t) =>
                 (Before(DeadlineKey(a, t), DeadlineKey(b, t))
                    <=> Before(Key(Home(c, FALSE), a, t), Key(Home(c, FALSE), b, t)))
           /\ ~OpenAt(a, t) /\ ~Before(DeadlineKey(b, t), DeadlineKey(a, t)) =>
                 IF OpenAt(b, t) THEN bids[b].closes = Null
                 ELSE bids[a].closes >= bids[b].closes
           /\ ~OpenAt(b, t) /\ ~Before(DeadlineKey(b, t), DeadlineKey(a, t)) =>
                 bids[a].closes # Null
<1> DEFINE q == Home(c, FALSE)
           p == bids[a].closes
           r == bids[b].closes
           group(x) == IF x = Null THEN 2 ELSE IF x < t THEN 1 ELSE 0
           date(x) == IF x = Null THEN 0 ELSE IF x < t THEN -x ELSE x
<1>1. p \in Nat \cup {Null} /\ r \in Nat \cup {Null} /\ a \in Nat /\ b \in Nat
  BY RowFacts, BidsFinite
<1>2. /\ DeadlineKey(a, t) = <<group(p), date(p), a>>
      /\ DeadlineKey(b, t) = <<group(r), date(r), b>>
  BY DEF DeadlineKey
<1>3. q.list = "bids" BY DEF Home
<1>4. /\ Key(q, a, t) = <<Flag(p = Null), Num(p), a>>
      /\ Key(q, b, t) = <<Flag(r = Null), Num(r), b>>
  BY <1>3 DEF Key
<1>5. (OpenAt(a, t) <=> p = Null \/ p >= t) /\ (OpenAt(b, t) <=> r = Null \/ r >= t)
  BY DEF OpenAt
<1> HIDE DEF p, r, q
<1>6. /\ group(p) \in Int /\ group(r) \in Int /\ date(p) \in Int /\ date(r) \in Int
      /\ Flag(p = Null) \in Int /\ Flag(r = Null) \in Int /\ Num(p) \in Int /\ Num(r) \in Int
  BY <1>1 DEF Flag, Num
<1>7. Before(DeadlineKey(a, t), DeadlineKey(b, t))
         <=> \/ group(p) < group(r)
             \/ group(p) = group(r) /\ date(p) < date(r)
             \/ group(p) = group(r) /\ date(p) = date(r) /\ a < b
  <2> HIDE DEF group, date
  <2> QED BY <1>1, <1>2, <1>6, BeforeOfThree, SMTT(30)
<1>8. Before(DeadlineKey(b, t), DeadlineKey(a, t))
         <=> \/ group(r) < group(p)
             \/ group(r) = group(p) /\ date(r) < date(p)
             \/ group(r) = group(p) /\ date(r) = date(p) /\ b < a
  <2> HIDE DEF group, date
  <2> QED BY <1>1, <1>2, <1>6, BeforeOfThree, SMTT(30)
<1>9. Before(Key(q, a, t), Key(q, b, t))
         <=> \/ Flag(p = Null) < Flag(r = Null)
             \/ Flag(p = Null) = Flag(r = Null) /\ Num(p) < Num(r)
             \/ Flag(p = Null) = Flag(r = Null) /\ Num(p) = Num(r) /\ a < b
  BY <1>1, <1>4, <1>6, BeforeOfThree, SMTT(30)
<1>10. OpenAt(a, t) /\ OpenAt(b, t) =>
          (Before(DeadlineKey(a, t), DeadlineKey(b, t)) <=> Before(Key(q, a, t), Key(q, b, t)))
  BY <1>1, <1>5, <1>7, <1>9 DEF Flag, Num
<1>11. ~OpenAt(a, t) /\ ~Before(DeadlineKey(b, t), DeadlineKey(a, t)) =>
          IF OpenAt(b, t) THEN r = Null ELSE p >= r
  BY <1>1, <1>5, <1>8
<1>12. ~OpenAt(b, t) /\ ~Before(DeadlineKey(b, t), DeadlineKey(a, t)) => p # Null
  BY <1>1, <1>5, <1>8
<1> QED BY <1>10, <1>11, <1>12 DEF p, r, q

(* A deadline search without keyword shows the bids of the home page in its  *)
(* order; closed ones, if asked for, come between the dated and the undated, *)
(* the last to close first.                                                  *)
THEOREM SearchCorrect == Spec => []SearchExtendsHome
<1>1. ASSUME ReadInv PROVE SearchExtendsHome
  <2>1. SUFFICES ASSUME walk # Null, walk.query.list = "search", walk.query.sort = "deadline",
                        walk.query.keyword \in {All, Blank},
                        NEW home \in Orders(Home(walk.query.category, FALSE), walk.at),
                        NEW found \in Orders(walk.query, walk.at)
        PROVE  /\ ToSet(home) = {b \in ToSet(found) : OpenAt(b, walk.at)}
               /\ walk.query.closed \/ ToSet(found) = ToSet(home)
               /\ \A i, j \in DOMAIN found : i < j =>
                     LET a == found[i]
                         b == found[j]
                     IN  /\ OpenAt(a, walk.at) /\ OpenAt(b, walk.at) =>
                               \E k, l \in DOMAIN home : k < l /\ home[k] = a /\ home[l] = b
                         /\ ~OpenAt(a, walk.at) =>
                               IF OpenAt(b, walk.at) THEN bids[b].closes = Null
                               ELSE bids[a].closes >= bids[b].closes
                         /\ ~OpenAt(b, walk.at) => bids[a].closes # Null
    BY DEF SearchExtendsHome
  <2> DEFINE q == walk.query
             t == walk.at
             h == Home(q.category, FALSE)
  <2>2. TablesOK /\ q \in Query /\ Sorted(q) /\ t \in Nat
    BY <1>1, <2>1, WalkTypes DEF ReadInv, ListTypes
  <2>3. /\ q.category \in Categories \cup {All} /\ q.closed \in BOOLEAN
        /\ Sorted(h) /\ h.list = "bids" /\ h.category = q.category /\ h.today = FALSE
    <3>1. PICK c \in Categories \cup {All}, closed \in BOOLEAN, sort \in {"deadline", "recent"},
               k \in Keywords \cup {All, Blank} : q = Search(c, sort, k, closed)
      BY <2>1, <2>2 DEF Query, Home
    <3>2. q.category = c /\ q.closed = closed BY <3>1 DEF Search
    <3>3. h = Home(c, FALSE) BY <3>2
    <3>5. h.list = "bids" /\ h.category = q.category /\ h.today = FALSE BY <3>2, <3>3 DEF Home
    <3> QED BY <3>2, <3>5 DEF Sorted
  <2>4. q.list = "search" /\ q.sort = "deadline" /\ q.keyword \in {All, Blank} BY <2>1
  <2>5. /\ home \in Seq(Bids) /\ IsInjective(home) /\ ToSet(home) = Listed(h, t)
        /\ \A i, j \in DOMAIN home : i < j => ~Before(Key(h, home[j], t), Key(h, home[i], t))
    <3>1. home \in Orders(h, t) BY <2>1
    <3> HIDE DEF q, t, h
    <3> QED BY <2>2, <2>3, <3>1, OrdersFacts
  <2>6. /\ found \in Seq(Bids) /\ IsInjective(found) /\ ToSet(found) = Listed(q, t)
        /\ \A i, j \in DOMAIN found : i < j => ~Before(Key(q, found[j], t), Key(q, found[i], t))
    <3>1. found \in Orders(q, t) BY <2>1
    <3> HIDE DEF q, t, h
    <3> QED BY <2>2, <3>1, OrdersFacts
  <2>7. \A b : Key(q, b, t) = DeadlineKey(b, t)
    <3> HIDE DEF q, t
    <3> QED BY <2>4 DEF Key
  <2> HIDE DEF q, t
  <2>8. Listed(q, t) =
           {b \in Bids : Visible(b) /\ InCategory(q, b) /\ (q.closed \/ OpenAt(b, t))}
    BY <2>4 DEF Listed, HasKeyword
  <2>9. Listed(h, t) = {b \in Bids : Visible(b) /\ InCategory(q, b) /\ OpenAt(b, t)}
    <3>1. \A b : InCategory(h, b) <=> InCategory(q, b) BY <2>3 DEF InCategory
    <3> HIDE DEF h
    <3> QED BY <2>3, <3>1 DEF Listed
  <2>10. ToSet(home) = {b \in ToSet(found) : OpenAt(b, t)} BY <2>5, <2>6, <2>8, <2>9
  <2>11. q.closed \/ ToSet(found) = ToSet(home) BY <2>3, <2>5, <2>6, <2>8, <2>9
  <2>12. ASSUME NEW i \in DOMAIN found, NEW j \in DOMAIN found, i < j
         PROVE  /\ OpenAt(found[i], t) /\ OpenAt(found[j], t) =>
                      \E k, l \in DOMAIN home : k < l /\ home[k] = found[i] /\ home[l] = found[j]
                /\ ~OpenAt(found[i], t) =>
                      IF OpenAt(found[j], t) THEN bids[found[j]].closes = Null
                      ELSE bids[found[i]].closes >= bids[found[j]].closes
                /\ ~OpenAt(found[j], t) => bids[found[i]].closes # Null
    <3> DEFINE a == found[i]
               b == found[j]
    <3>1. a \in ToSet(found) /\ b \in ToSet(found) BY DEF ToSet
    <3>2. a # b
      <4>1. i # j BY <2>6, <2>12
      <4> QED BY <2>6, <4>1 DEF IsInjective
    <3>3. a \in Bids /\ b \in Bids /\ bids[a] # Null /\ bids[b] # Null
      BY <2>6, <2>8, <3>1 DEF Visible, Merged
    <3>4. ~Before(DeadlineKey(b, t), DeadlineKey(a, t)) BY <2>6, <2>7, <2>12
    <3> HIDE DEF a, b, h
    <3>5. /\ ~OpenAt(a, t) =>
                IF OpenAt(b, t) THEN bids[b].closes = Null ELSE bids[a].closes >= bids[b].closes
          /\ ~OpenAt(b, t) => bids[a].closes # Null
      BY <2>2, <3>3, <3>4, KeysOfDates
    <3>6. ASSUME OpenAt(a, t), OpenAt(b, t)
          PROVE  \E k, l \in DOMAIN home : k < l /\ home[k] = a /\ home[l] = b
      <4>1. a \in ToSet(home) /\ b \in ToSet(home) BY <2>10, <3>1, <3>6
      <4>2. PICK k \in DOMAIN home : home[k] = a BY <4>1 DEF ToSet
      <4>3. PICK l \in DOMAIN home : home[l] = b BY <4>1 DEF ToSet
      <4>4. ~Before(Key(h, b, t), Key(h, a, t))
        BY <2>2, <3>3, <3>4, <3>6, KeysOfDates DEF h
      <4>5. Before(Key(h, a, t), Key(h, b, t))
        <5>1. a \in Listed(h, t) /\ b \in Listed(h, t) BY <2>5, <4>1
        <5> QED BY <2>2, <2>3, <3>2, <4>4, <5>1, KeysTotal
      <4>6. ~(l < k) BY <2>5, <4>2, <4>3, <4>5
      <4>7. k # l BY <3>2, <4>2, <4>3
      <4>8. k < l BY <2>5, <4>2, <4>3, <4>6, <4>7
      <4> QED BY <4>2, <4>3, <4>8
    <3> QED BY <3>5, <3>6 DEF a, b
  <2> QED BY <2>10, <2>11, <2>12 DEF q, t
<1> QED BY <1>1, ReadsInvariant, PTL

-----------------------------------------------------------------------------
(* Folds.  What a fold has after each element of its sequence: its stages.   *)

LEMMA Upwards ==
    ASSUME NEW n \in Nat, NEW G, 0 \in G, \A i \in 1..n : i - 1 \in G => i \in G
    PROVE  \A i \in 0..n : i \in G
<1> DEFINE bad == {i \in 0..n : i \notin G}
<1>1. SUFFICES ASSUME bad # {} PROVE FALSE OBVIOUS
<1>2. bad \in SUBSET Nat OBVIOUS
<1>3. PICK i \in bad : \A j \in bad : i <= j
  <2> HIDE DEF bad
  <2> QED BY <1>1, <1>2, HasLeast
<1>4. i \in 1..n /\ i - 1 \in 0..n BY <1>3
<1>5. i - 1 \notin G BY <1>3, <1>4
<1>6. i - 1 \in bad BY <1>4, <1>5
<1> QED BY <1>3, <1>4, <1>6

LEMMA MaxFacts ==
    ASSUME NEW n \in Nat, NEW d \in SUBSET (1..n), d # {}
    PROVE  /\ Max(d) \in d /\ Max(d) \in 1..n /\ \A y \in d : y <= Max(d)
           /\ d \ {Max(d)} \in SUBSET (1..n)
<1> DEFINE D == {n - x : x \in d}
<1>0. \A x \in d : n - x \in Nat OBVIOUS
<1>1. D \in SUBSET Nat /\ D # {} BY <1>0
<1>2. PICK k \in D : \A j \in D : k <= j
  <2> HIDE DEF D
  <2> QED BY <1>1, HasLeast
<1>3. PICK x \in d : k = n - x OBVIOUS
<1>4. \A y \in d : x >= y
  <2>1. ASSUME NEW y \in d PROVE x >= y
    <3>1. n - y \in D OBVIOUS
    <3> QED BY <1>2, <1>3, <3>1
  <2> QED BY <2>1
<1>5. Max(d) \in d /\ \A y \in d : Max(d) >= y BY <1>4 DEF Max
<1> QED BY <1>5

LEMMA MaxOfInterval ==
    ASSUME NEW n \in Nat, NEW i \in 1..n
    PROVE  /\ 1..i \in SUBSET (1..n) /\ 1..i # {} /\ 1..(i - 1) \in SUBSET (1..n)
           /\ Max(1..i) = i /\ (1..i) \ {i} = 1..(i - 1)
<1>1. 1..i \in SUBSET (1..n) /\ 1..i # {} /\ 1..(i - 1) \in SUBSET (1..n) OBVIOUS
<1>2. Max(1..i) \in 1..i /\ \A y \in 1..i : y <= Max(1..i) BY <1>1, MaxFacts
<1>3. Max(1..i) = i
  <2>1. i \in 1..i OBVIOUS
  <2> QED BY <1>2, <2>1
<1> QED BY <1>1, <1>3

(* A function as the recursion of MapThenFoldSet asks for exists, for steps  *)
(* within a set.                                                             *)
HasFold(X, n, base, step) ==
    \E g \in [SUBSET (1..n) -> X] :
        \A d \in SUBSET (1..n) :
            g[d] = IF d = {} THEN base ELSE step[Max(d)][g[d \ {Max(d)}]]

LEMMA FoldExists ==
    ASSUME NEW X, NEW n \in Nat, NEW base \in X, NEW step \in [1..n -> [X -> X]]
    PROVE  HasFold(X, n, base, step)
<1> DEFINE Folds(g, m) ==
              \A d \in SUBSET (1..m) :
                 g[d] = IF d = {} THEN base ELSE step[Max(d)][g[d \ {Max(d)}]]
           G == {m \in 0..n : \E g \in [SUBSET (1..m) -> X] : Folds(g, m)}
<1>1. 0 \in G
  <2> DEFINE g == [d \in SUBSET (1..0) |-> base]
  <2>1. 1..0 = {} OBVIOUS
  <2>2. g \in [SUBSET (1..0) -> X] OBVIOUS
  <2>3. Folds(g, 0) BY <2>1
  <2> HIDE DEF g, Folds
  <2>4. 0 \in 0..n OBVIOUS
  <2> QED BY <2>2, <2>3, <2>4
<1>2. ASSUME NEW m \in 1..n, m - 1 \in G PROVE m \in G
  <2>1. PICK g \in [SUBSET (1..(m - 1)) -> X] : Folds(g, m - 1) BY <1>2
  <2> DEFINE h == [d \in SUBSET (1..m) |-> IF m \in d THEN step[m][g[d \ {m}]] ELSE g[d]]
  <2>2. \A d \in SUBSET (1..m) : m \in d => d \ {m} \in SUBSET (1..(m - 1)) OBVIOUS
  <2>3. \A d \in SUBSET (1..m) : m \notin d => d \in SUBSET (1..(m - 1)) OBVIOUS
  <2>4. h \in [SUBSET (1..m) -> X]
    <3>1. ASSUME NEW d \in SUBSET (1..m) PROVE h[d] \in X
      <4>1. CASE m \in d
        <5>1. g[d \ {m}] \in X BY <2>1, <2>2, <4>1
        <5>2. step[m] \in [X -> X] OBVIOUS
        <5> QED BY <4>1, <5>1, <5>2
      <4>2. CASE m \notin d BY <2>1, <2>3, <4>2
      <4> QED BY <4>1, <4>2
    <3> QED BY <3>1
  <2>5. ASSUME NEW d \in SUBSET (1..m), d # {}
        PROVE  h[d] = step[Max(d)][h[d \ {Max(d)}]]
    <3>1. /\ Max(d) \in d /\ Max(d) \in 1..m /\ \A y \in d : y <= Max(d)
          /\ d \ {Max(d)} \in SUBSET (1..m)
      <4>1. m \in Nat OBVIOUS
      <4> QED BY <2>5, <4>1, MaxFacts
    <3>2. CASE m \in d
      <4>1. Max(d) = m BY <3>1, <3>2
      <4>2. h[d \ {m}] = g[d \ {m}] BY <3>1, <4>1
      <4> QED BY <3>2, <4>1, <4>2
    <3>3. CASE m \notin d
      <4>1. d \in SUBSET (1..(m - 1)) BY <2>3, <3>3
      <4>2. g[d] = step[Max(d)][g[d \ {Max(d)}]] BY <2>1, <2>5, <4>1
      <4>3. h[d] = g[d] /\ h[d \ {Max(d)}] = g[d \ {Max(d)}] BY <3>1, <3>3
      <4> QED BY <4>2, <4>3
    <3> QED BY <3>2, <3>3
  <2>6. h[{}] = base
    <3>1. {} \in SUBSET (1..m) /\ {} \in SUBSET (1..(m - 1)) OBVIOUS
    <3>2. h[{}] = g[{}] BY <3>1
    <3> QED BY <2>1, <3>1, <3>2
  <2> HIDE DEF h
  <2>7. Folds(h, m)
    <3>1. \A d \in SUBSET (1..m) : d # {} => h[d] = step[Max(d)][h[d \ {Max(d)}]]
      BY <2>5
    <3> QED BY <2>6, <3>1
  <2> HIDE DEF Folds
  <2> QED BY <2>4, <2>7
<1>3. \A m \in 0..n : m \in G
  <2>1. \A m \in 1..n : m - 1 \in G => m \in G BY <1>2
  <2> HIDE DEF G
  <2> QED BY <1>1, <2>1, Upwards
<1>4. n \in G
  <2> HIDE DEF G
  <2> QED BY <1>3
<1> QED BY <1>4 DEF HasFold

(* And any function that satisfies the recursion takes those steps.          *)
Recurs(f, X, n, base, step) ==
    /\ f[{}] = base
    /\ \A d \in SUBSET (1..n) : d # {} /\ f[d \ {Max(d)}] \in X =>
          f[d] = step[Max(d)][f[d \ {Max(d)}]]

TakesSteps(f, X, n, base, step) ==
    /\ f[1..0] = base
    /\ \A i \in 0..n : f[1..i] \in X
    /\ \A i \in 1..n : f[1..i] = step[i][f[1..(i - 1)]]

LEMMA Stages ==
    ASSUME NEW X, NEW n \in Nat, NEW base \in X, NEW step \in [1..n -> [X -> X]], NEW f,
           Recurs(f, X, n, base, step)
    PROVE  TakesSteps(f, X, n, base, step)
<1> DEFINE G == {i \in 0..n : f[1..i] \in X}
<1>1. f[1..0] = base
  <2>1. 1..0 = {} OBVIOUS
  <2> QED BY <2>1 DEF Recurs
<1>2. ASSUME NEW i \in 1..n, f[1..(i - 1)] \in X
      PROVE  f[1..i] = step[i][f[1..(i - 1)]] /\ f[1..i] \in X
  <2>1. /\ 1..i \in SUBSET (1..n) /\ 1..i # {} /\ Max(1..i) = i /\ (1..i) \ {i} = 1..(i - 1)
    BY MaxOfInterval
  <2>2. f[1..i] = step[i][f[1..(i - 1)]] BY <1>2, <2>1 DEF Recurs
  <2>3. step[i] \in [X -> X] OBVIOUS
  <2> QED BY <1>2, <2>2, <2>3
<1>3. \A i \in 0..n : i \in G
  <2>1. 0 \in G BY <1>1
  <2>2. \A i \in 1..n : i - 1 \in G => i \in G BY <1>2
  <2> HIDE DEF G
  <2> QED BY <2>1, <2>2, Upwards
<1>4. ASSUME NEW i \in 1..n PROVE f[1..i] = step[i][f[1..(i - 1)]]
  <2>1. i - 1 \in 0..n OBVIOUS
  <2>2. f[1..(i - 1)] \in X BY <1>3, <2>1
  <2> QED BY <1>2, <2>2
<1> QED BY <1>1, <1>3, <1>4 DEF TakesSteps

(* dict.fromkeys: what is left out is kept nowhere, everything else once.    *)
DistinctBy(h, S, s, out) ==
    /\ h[0] = <<>> /\ h[Len(s)] = Distinct(s, out)
    /\ \A i \in 0..Len(s) : h[i] \in Seq(S)
    /\ \A i \in 1..Len(s) : h[i] = IF s[i] \in ToSet(h[i - 1]) \cup out THEN h[i - 1]
                                   ELSE Append(h[i - 1], s[i])

LEMMA DistinctStages ==
    ASSUME NEW S, NEW s \in Seq(S), NEW out
    PROVE  \E h : DistinctBy(h, S, s, out)
<1> DEFINE n == Len(s)
           X == Seq(S)
           base == <<>>
           Add(x, e) == IF e \in ToSet(x) \cup out THEN x ELSE Append(x, e)
           step == [i \in 1..n |-> [x \in X |-> Add(x, s[i])]]
           f == CHOOSE f : f = [d \in SUBSET (1..n) |->
                                  IF d = {} THEN base ELSE Add(f[d \ {Max(d)}], s[Max(d)])]
<1>1. n \in Nat /\ DOMAIN s = 1..n OBVIOUS
<1>2. \A x \in X : \A i \in 1..n : Add(x, s[i]) \in X OBVIOUS
<1>3. base \in X OBVIOUS
<1>4. Distinct(s, out) = f[1..n] BY <1>1 DEF Distinct, FoldLeft, MapThenFoldSet
<1> HIDE DEF n, X, base, Add
<1>5. step \in [1..n -> [X -> X]] BY <1>2
<1>6. \A i \in 1..n : \A x \in X : step[i][x] = Add(x, s[i]) OBVIOUS
<1>7. PICK g \in [SUBSET (1..n) -> X] :
         \A d \in SUBSET (1..n) :
            g[d] = IF d = {} THEN base ELSE step[Max(d)][g[d \ {Max(d)}]]
  <2> HIDE DEF step
  <2>1. HasFold(X, n, base, step) BY <1>1, <1>3, <1>5, FoldExists
  <2> QED BY <2>1 DEF HasFold
<1> HIDE DEF step
<1>8. \A d \in SUBSET (1..n) : d # {} => Max(d) \in 1..n /\ d \ {Max(d)} \in SUBSET (1..n)
  BY <1>1, MaxFacts
<1>9. g = [d \in SUBSET (1..n) |-> IF d = {} THEN base ELSE Add(g[d \ {Max(d)}], s[Max(d)])]
  BY <1>6, <1>7, <1>8
<1>10. f = [d \in SUBSET (1..n) |-> IF d = {} THEN base ELSE Add(f[d \ {Max(d)}], s[Max(d)])]
  BY <1>9
<1> HIDE DEF f
<1>11. f[{}] = base
  <2>1. {} \in SUBSET (1..n) OBVIOUS
  <2> QED BY <1>10, <2>1
<1>12. Recurs(f, X, n, base, step) BY <1>6, <1>8, <1>10, <1>11 DEF Recurs
<1>13. TakesSteps(f, X, n, base, step) BY <1>1, <1>3, <1>5, <1>12, Stages
<1>14. \A i \in 1..n : f[1..i] = Add(f[1..(i - 1)], s[i])
  <2>1. \A i \in 1..n : i - 1 \in 0..n BY <1>1
  <2> QED BY <1>6, <1>13, <2>1 DEF TakesSteps
<1> DEFINE h == [i \in 0..n |-> f[1..i]]
<1>15. h[0] = base /\ \A i \in 0..n : h[i] \in X BY <1>1, <1>13 DEF TakesSteps
<1>16. h[n] = Distinct(s, out) BY <1>1, <1>4
<1>17. \A i \in 1..n : h[i] = Add(h[i - 1], s[i]) BY <1>1, <1>14
<1> HIDE DEF h
<1>18. DistinctBy(h, S, s, out)
  BY <1>15, <1>16, <1>17 DEF DistinctBy, n, X, base, Add
<1> QED BY <1>18

LEMMA MaxOfTwo ==
    ASSUME NEW m \in Int, NEW n \in Int
    PROVE  /\ Most(m, n) = IF n <= m THEN m ELSE n
           /\ Least(m, n) = IF m <= n THEN m ELSE n
<1>1. Most(m, n) = IF n <= m THEN m ELSE n BY DEF Most, Max
<1>2. Least(m, n) = IF m <= n THEN m ELSE n BY DEF Least, Min
<1> QED BY <1>1, <1>2

LEMMA AppendFacts ==
    ASSUME NEW S, NEW s \in Seq(S), NEW e \in S
    PROVE  /\ Append(s, e) \in Seq(S) /\ Len(Append(s, e)) = Len(s) + 1
           /\ ToSet(Append(s, e)) = ToSet(s) \cup {e}
           /\ IsInjective(s) /\ e \notin ToSet(s) => IsInjective(Append(s, e))
<1> DEFINE a == Append(s, e)
           n == Len(s)
<1>1. /\ n \in Nat /\ DOMAIN s = 1..n /\ DOMAIN a = 1..(n + 1) /\ a \in Seq(S) /\ Len(a) = n + 1
      /\ \A i \in 1..n : a[i] = s[i] /\ a[n + 1] = e
  BY AppendProperties
<1> HIDE DEF a, n
<1>2. a[n + 1] = e BY AppendProperties, LenProperties DEF a, n
<1>3. ToSet(a) = ToSet(s) \cup {e}
  <2>1. ASSUME NEW x \in ToSet(a) PROVE x \in ToSet(s) \cup {e}
    <3>1. PICK i \in 1..(n + 1) : a[i] = x BY <1>1 DEF ToSet
    <3>2. i \in 1..n \/ i = n + 1 BY <1>1
    <3> QED BY <1>1, <1>2, <3>1, <3>2 DEF ToSet
  <2>2. ASSUME NEW x \in ToSet(s) \cup {e} PROVE x \in ToSet(a)
    <3>1. CASE x \in ToSet(s)
      <4>1. PICK i \in 1..n : s[i] = x BY <1>1, <3>1 DEF ToSet
      <4>2. i \in 1..(n + 1) /\ a[i] = x BY <1>1, <4>1
      <4> QED BY <1>1, <4>2 DEF ToSet
    <3>2. CASE x = e
      <4>1. n + 1 \in 1..(n + 1) BY <1>1
      <4> QED BY <1>1, <1>2, <3>2, <4>1 DEF ToSet
    <3> QED BY <3>1, <3>2
  <2> QED BY <2>1, <2>2
<1>4. ASSUME IsInjective(s), e \notin ToSet(s) PROVE IsInjective(a)
  <2>1. SUFFICES ASSUME NEW i \in 1..(n + 1), NEW j \in 1..(n + 1), a[i] = a[j] PROVE i = j
    BY <1>1 DEF IsInjective
  <2>2. \A k \in 1..n : s[k] # e BY <1>1, <1>4 DEF ToSet
  <2>3. i \in 1..n /\ j \in 1..n => i = j BY <1>1, <1>4, <2>1 DEF IsInjective
  <2>4. (i \in 1..n \/ i = n + 1) /\ (j \in 1..n \/ j = n + 1) BY <1>1
  <2> QED BY <1>1, <1>2, <2>1, <2>2, <2>3, <2>4
<1> QED BY <1>1, <1>3, <1>4 DEF a, n

LEMMA DistinctFacts ==
    ASSUME NEW S, NEW s \in Seq(S), NEW out
    PROVE  /\ Distinct(s, out) \in Seq(S) /\ IsInjective(Distinct(s, out))
           /\ ToSet(Distinct(s, out)) = ToSet(s) \ out
<1> DEFINE n == Len(s)
<1>1. n \in Nat /\ DOMAIN s = 1..n /\ \A i \in 1..n : s[i] \in S OBVIOUS
<1>2. PICK h : DistinctBy(h, S, s, out) BY DistinctStages
<1> HIDE DEF n
<1> DEFINE upTo(i) == {s[j] : j \in 1..i} \ out
           G == {i \in 0..n : IsInjective(h[i]) /\ ToSet(h[i]) = upTo(i)}
<1>3. 0 \in G
  <2>1. ToSet(<<>>) = {} /\ IsInjective(<<>>) BY DEF ToSet, IsInjective
  <2>2. upTo(0) = {} OBVIOUS
  <2>3. 0 \in 0..n BY <1>1
  <2> QED BY <1>2, <2>1, <2>2, <2>3 DEF DistinctBy
<1>4. ASSUME NEW i \in 1..n, i - 1 \in G PROVE i \in G
  <2>1. i - 1 \in 0..n /\ i \in 0..n BY <1>1
  <2>2. /\ h[i - 1] \in Seq(S) /\ IsInjective(h[i - 1]) /\ ToSet(h[i - 1]) = upTo(i - 1)
        /\ s[i] \in S
    BY <1>1, <1>2, <1>4, <2>1 DEF DistinctBy, n
  <2>3. upTo(i) = upTo(i - 1) \cup ({s[i]} \ out)
    <3>1. 1..i = (1..(i - 1)) \cup {i} BY <1>1
    <3> QED BY <3>1
  <2> HIDE DEF upTo
  <2>4. CASE s[i] \in ToSet(h[i - 1]) \cup out
    <3>1. h[i] = h[i - 1] BY <1>2, <2>4 DEF DistinctBy, n
    <3> QED BY <2>1, <2>2, <2>3, <2>4, <3>1 DEF upTo
  <2>5. CASE s[i] \notin ToSet(h[i - 1]) \cup out
    <3>1. h[i] = Append(h[i - 1], s[i]) BY <1>2, <2>5 DEF DistinctBy, n
    <3>2. ToSet(h[i]) = ToSet(h[i - 1]) \cup {s[i]} /\ IsInjective(h[i])
      BY <2>2, <2>5, <3>1, AppendFacts
    <3> QED BY <2>1, <2>2, <2>3, <2>5, <3>2
  <2> QED BY <2>4, <2>5
<1>5. \A i \in 0..n : i \in G
  <2>1. \A i \in 1..n : i - 1 \in G => i \in G BY <1>4
  <2> HIDE DEF G
  <2> QED BY <1>1, <1>3, <2>1, Upwards
<1>6. h[n] \in Seq(S) /\ IsInjective(h[n]) /\ ToSet(h[n]) = upTo(n)
  <2>1. n \in 0..n BY <1>1
  <2> QED BY <1>2, <1>5, <2>1 DEF DistinctBy, n
<1>7. upTo(n) = ToSet(s) \ out BY <1>1 DEF ToSet
<1> QED BY <1>2, <1>6, <1>7 DEF DistinctBy, n

LEMMA SubSeqFacts ==
    ASSUME NEW S, NEW s \in Seq(S), NEW m \in Nat \ {0}, NEW n \in 0..Len(s)
    PROVE  /\ SubSeq(s, m, n) \in Seq(S)
           /\ Len(SubSeq(s, m, n)) = IF m <= n THEN n - m + 1 ELSE 0
           /\ IsInjective(s) => IsInjective(SubSeq(s, m, n))
<1> DEFINE r == SubSeq(s, m, n)
<1>1. Len(s) \in Nat /\ DOMAIN s = 1..Len(s) /\ \A i \in m..n : s[i] \in S OBVIOUS
<1>2. /\ r \in Seq(S) /\ Len(r) = (IF m <= n THEN n - m + 1 ELSE 0)
      /\ \A i \in 1..(n - m + 1) : r[i] = s[m + i - 1]
  BY <1>1, SubSeqProperties
<1>3. DOMAIN r = 1..Len(r) BY <1>2
<1> HIDE DEF r
<1>4. ASSUME IsInjective(s), NEW i \in 1..Len(r), NEW j \in 1..Len(r), r[i] = r[j] PROVE i = j
  <2>1. i \in 1..(n - m + 1) /\ j \in 1..(n - m + 1) BY <1>2
  <2>2. m + i - 1 \in 1..Len(s) /\ m + j - 1 \in 1..Len(s) BY <1>1, <2>1
  <2>3. s[m + i - 1] = s[m + j - 1] BY <1>2, <1>4, <2>1
  <2>4. m + i - 1 = m + j - 1 BY <1>1, <1>4, <2>2, <2>3 DEF IsInjective
  <2> QED BY <2>1, <2>4
<1> QED BY <1>2, <1>3, <1>4 DEF r, IsInjective

LEMMA FirstOfFacts ==
    ASSUME NEW S, NEW s \in Seq(S)
    PROVE  FirstOf(s) \in Seq(S)
<1>1. PerSource \in Nat \ {0} BY RecommendationsAssumption
<1>2. Min({PerSource, Len(s)}) \in 0..Len(s) BY <1>1, MinOfTwo
<1> HIDE DEF FirstOf
<1> DEFINE n == Min({PerSource, Len(s)})
<1> HIDE DEF n
<1>3. n \in 0..Len(s) BY <1>2 DEF n
<1>4. SubSeq(s, 1, n) \in Seq(S) BY <1>3, SubSeqFacts
<1> QED BY <1>4 DEF FirstOf, n

LEMMA ScrapTitlesFacts ==
    ASSUME TablesOK
    PROVE  ScrapTitles \in Seq(Phrases)
<1> DEFINE s == Reverse(scraps)
           n == Len(s)
           X == Seq(Phrases)
           base == <<>>
           Add(x, b) == IF bids[b] = Null \/ bids[b].title = Null THEN x
                        ELSE Append(x, bids[b].title)
           step == [i \in 1..n |-> [x \in X |-> Add(x, s[i])]]
           f == CHOOSE f : f = [d \in SUBSET (1..n) |->
                                  IF d = {} THEN base ELSE Add(f[d \ {Max(d)}], s[Max(d)])]
<1>1. n \in Nat /\ DOMAIN s = 1..n /\ \A i \in 1..n : s[i] \in Bids
  BY DEF TablesOK, Reverse
<1> HIDE DEF s
<1>2. \A x \in X : \A i \in 1..n : Add(x, s[i]) \in X
  <2>1. SUFFICES ASSUME NEW x \in X, NEW b \in Bids, bids[b] # Null, bids[b].title # Null
                 PROVE  Append(x, bids[b].title) \in X
    BY <1>1
  <2>2. bids[b] \in Contents BY <2>1 DEF TablesOK
  <2>3. bids[b].title \in Phrases BY <2>1, <2>2 DEF Phrases
  <2> QED BY <2>3
<1>3. base \in X OBVIOUS
<1>4. ScrapTitles = f[1..n] BY <1>1 DEF ScrapTitles, FoldLeft, MapThenFoldSet, s
<1> HIDE DEF n, X, base, Add
<1>5. step \in [1..n -> [X -> X]] BY <1>2
<1>6. \A i \in 1..n : \A x \in X : step[i][x] = Add(x, s[i]) OBVIOUS
<1>7. PICK g \in [SUBSET (1..n) -> X] :
         \A d \in SUBSET (1..n) :
            g[d] = IF d = {} THEN base ELSE step[Max(d)][g[d \ {Max(d)}]]
  <2> HIDE DEF step
  <2>1. HasFold(X, n, base, step) BY <1>1, <1>3, <1>5, FoldExists
  <2> QED BY <2>1 DEF HasFold
<1> HIDE DEF step
<1>8. \A d \in SUBSET (1..n) : d # {} => Max(d) \in 1..n /\ d \ {Max(d)} \in SUBSET (1..n)
  BY <1>1, MaxFacts
<1>9. g = [d \in SUBSET (1..n) |-> IF d = {} THEN base ELSE Add(g[d \ {Max(d)}], s[Max(d)])]
  BY <1>6, <1>7, <1>8
<1>10. f = [d \in SUBSET (1..n) |-> IF d = {} THEN base ELSE Add(f[d \ {Max(d)}], s[Max(d)])]
  BY <1>9
<1> HIDE DEF f
<1>11. f[{}] = base
  <2>1. {} \in SUBSET (1..n) OBVIOUS
  <2> QED BY <1>10, <2>1
<1>12. Recurs(f, X, n, base, step) BY <1>6, <1>8, <1>10, <1>11 DEF Recurs
<1>13. TakesSteps(f, X, n, base, step) BY <1>1, <1>3, <1>5, <1>12, Stages
<1>14. f[1..n] \in X
  <2>1. n \in 0..n BY <1>1
  <2> QED BY <1>13, <2>1 DEF TakesSteps
<1> QED BY <1>4, <1>14 DEF X

LEMMA TextsFacts ==
    ASSUME TablesOK, NEW source \in SourceNames
    PROVE  Texts(source) \subseteq Seq(Phrases)
<1>1. profile \in Profiles BY DEF TablesOK
<1>2. /\ profile.contracts \in Seq(ToSet(profile.contracts))
      /\ IsFiniteSet(profile.items) /\ IsFiniteSet(profile.licenses)
  BY <1>1, TablesAssumption
<1>3. /\ ToSet(profile.contracts) \subseteq Phrases
      /\ profile.items \subseteq Phrases /\ profile.licenses \subseteq Phrases
  BY <1>1 DEF Phrases
<1>4. profile.contracts \in Seq(Phrases) BY <1>2, <1>3, SeqMonotonic
<1>5. ASSUME NEW S, IsFiniteSet(S), S \subseteq Phrases PROVE SomeOf(S) \subseteq Seq(Phrases)
  <2>1. SUFFICES ASSUME NEW s \in SetToSeqs(S) PROVE FirstOf(s) \in Seq(Phrases)
    BY DEF SomeOf
  <2>2. s \in Seq(S) BY <1>5, SeqsFacts
  <2>3. s \in Seq(Phrases) BY <1>5, <2>2, SeqMonotonic
  <2> QED BY <2>3, FirstOfFacts
<1>6. FirstOf(ScrapTitles) \in Seq(Phrases) /\ FirstOf(profile.contracts) \in Seq(Phrases)
  BY <1>4, FirstOfFacts, ScrapTitlesFacts
<1>7. /\ SomeOf(profile.items) \subseteq Seq(Phrases)
      /\ SomeOf(profile.licenses) \subseteq Seq(Phrases)
  BY <1>2, <1>3, <1>5
<1> DEFINE titles == FirstOf(ScrapTitles)
           contracts == FirstOf(profile.contracts)
           items == SomeOf(profile.items)
           licenses == SomeOf(profile.licenses)
<1>8. /\ Texts("scraps") = {titles} /\ Texts("performance") = {contracts}
      /\ Texts("items") = items /\ Texts("licenses") = licenses
  BY DEF Texts
<1>9. titles \in Seq(Phrases) /\ contracts \in Seq(Phrases) BY <1>6
<1>10. items \subseteq Seq(Phrases) /\ licenses \subseteq Seq(Phrases) BY <1>7
<1> HIDE DEF titles, contracts, items, licenses
<1>11. source \in {"scraps", "performance", "items", "licenses"} BY DEF SourceNames
<1> QED BY <1>8, <1>9, <1>10, <1>11

SignalType == [text : Phrases, source : SourceNames]

LEMMA SignalsFacts ==
    ASSUME NEW texts \in Seq(Phrases), NEW source \in SourceNames
    PROVE  Signals(texts, source) \in Seq(SignalType)
<1> DEFINE clean == Distinct(texts, {BlankTitle})
<1>1. clean \in Seq(Phrases) BY DistinctFacts
<1> HIDE DEF clean
<1>2. /\ Len(clean) \in Nat /\ DOMAIN clean = 1..Len(clean)
      /\ \A i \in 1..Len(clean) : clean[i] \in Phrases
  BY <1>1
<1>3. \A i \in 1..Len(clean) : [text |-> clean[i], source |-> source] \in SignalType
  BY <1>2 DEF SignalType
<1>4. [i \in 1..Len(clean) |-> [text |-> clean[i], source |-> source]] \in Seq(SignalType)
  BY <1>2, <1>3
<1> QED BY <1>2, <1>4 DEF Signals, clean

-----------------------------------------------------------------------------
(* The cache.  It holds a text once, with its own vector.                    *)
Entry(t) == [text |-> t, vector |-> t]
Entries == {Entry(t) : t \in Phrases}
Caches == {c \in Seq(Entries) : IsInjective(c)}
Held(c) == {c[i].text : i \in DOMAIN c}

LEMMA EntryFacts ==
    /\ \A t \in Phrases : Entry(t) \in Entries
    /\ \A e \in Entries : e.text \in Phrases /\ e = Entry(e.text) /\ e.vector = e.text
    /\ \A t : Entry(t).text = t
BY DEF Entries, Entry

LEMMA HeldFacts ==
    ASSUME NEW c \in Caches
    PROVE  /\ c \in Seq(Entries) /\ IsInjective(c) /\ Len(c) \in Nat /\ DOMAIN c = 1..Len(c)
           /\ Held(c) \subseteq Phrases
           /\ \A t : t \in Held(c) <=> Entry(t) \in ToSet(c)
           /\ \A i \in 1..Len(c) : \A t : c[i].text = t <=> c[i] = Entry(t)
<1>1. c \in Seq(Entries) /\ IsInjective(c) BY DEF Caches
<1>2. Len(c) \in Nat /\ DOMAIN c = 1..Len(c) /\ \A i \in 1..Len(c) : c[i] \in Entries BY <1>1
<1>3. \A i \in 1..Len(c) : \A t : c[i].text = t <=> c[i] = Entry(t)
  BY <1>2, EntryFacts
<1>4. Held(c) \subseteq Phrases BY <1>2, EntryFacts DEF Held
<1>5. \A t : t \in Held(c) <=> Entry(t) \in ToSet(c) BY <1>2, <1>3 DEF Held, ToSet
<1> QED BY <1>1, <1>2, <1>3, <1>4, <1>5

(* In such a cache a text's place is its entry's.                            *)
LEMMA MatchFacts ==
    ASSUME NEW c \in Caches, NEW t
    PROVE  RemoveFirstMatch(c, LAMBDA e : e.text = t) = RemoveFirst(c, Entry(t))
<1>1. \A i \in 1..Len(c) : c[i].text = t <=> c[i] = Entry(t) BY HeldFacts
<1>2. {i \in 1..Len(c) : c[i].text = t} = {i \in 1..Len(c) : c[i] = Entry(t)} BY <1>1
<1>3. SelectInSeq(c, LAMBDA e : e.text = t) = SelectInSeq(c, LAMBDA v : v = Entry(t))
  BY <1>2 DEF SelectInSeq
<1>4. (\E i \in 1..Len(c) : c[i].text = t) <=> (\E i \in 1..Len(c) : c[i] = Entry(t)) BY <1>1
<1> QED BY <1>3, <1>4 DEF RemoveFirstMatch, RemoveFirst

LEMMA UseFacts ==
    ASSUME NEW c \in Caches, NEW t \in Phrases
    PROVE  /\ Use(c, t, t) \in Caches /\ Held(Use(c, t, t)) = Held(c) \cup {t}
           /\ t \in Held(c) => Len(Use(c, t, t)) = Len(c)
<1> DEFINE e == Entry(t)
           r == RemoveFirst(c, e)
           u == Append(r, e)
<1>1. Use(c, t, t) = u BY MatchFacts DEF Use, Entry
<1>2. /\ c \in Seq(Entries) /\ IsInjective(c) /\ Len(c) \in Nat
      /\ \A s : s \in Held(c) <=> Entry(s) \in ToSet(c)
  BY HeldFacts
<1>3. e \in Entries BY EntryFacts
<1> HIDE DEF e
<1>4. /\ r \in Seq(Entries) /\ IsInjective(r) /\ ToSet(r) = ToSet(c) \ {e}
      /\ e \in ToSet(c) => Len(r) = Len(c) - 1
  BY <1>2, RemoveFacts
<1> HIDE DEF r
<1>5. /\ u \in Seq(Entries) /\ Len(u) = Len(r) + 1 /\ ToSet(u) = ToSet(r) \cup {e} /\ IsInjective(u)
  <2>1. e \notin ToSet(r) BY <1>4
  <2> QED BY <1>3, <1>4, <2>1, AppendFacts
<1> HIDE DEF u
<1>6. u \in Caches BY <1>5 DEF Caches
<1>7. \A s : s \in Held(u) <=> Entry(s) \in ToSet(u) BY <1>6, HeldFacts
<1>8. ToSet(u) = ToSet(c) \cup {e} BY <1>4, <1>5
<1>9. \A s : Entry(s) = e <=> s = t BY EntryFacts DEF e
<1>10. Held(u) = Held(c) \cup {t} BY <1>2, <1>7, <1>8, <1>9
<1>11. t \in Held(c) => Len(u) = Len(c) BY <1>2, <1>4, <1>5 DEF e
<1> QED BY <1>1, <1>6, <1>10, <1>11

LEMMA FoundFacts ==
    ASSUME NEW c \in Caches, NEW t \in Held(c)
    PROVE  c[SelectInSeq(c, LAMBDA e : e.text = t)] = Entry(t)
<1> DEFINE k == SelectInSeq(c, LAMBDA v : v = Entry(t))
<1>1. SelectInSeq(c, LAMBDA e : e.text = t) = k
  <2>1. \A i \in 1..Len(c) : c[i].text = t <=> c[i] = Entry(t) BY HeldFacts
  <2>2. {i \in 1..Len(c) : c[i].text = t} = {i \in 1..Len(c) : c[i] = Entry(t)} BY <2>1
  <2> QED BY <2>2 DEF SelectInSeq
<1>2. c \in Seq(Entries) /\ Entry(t) \in ToSet(c) BY HeldFacts
<1>3. k \in 1..Len(c) /\ c[k] = Entry(t) BY <1>2, PositionFacts
<1> HIDE DEF k
<1> QED BY <1>1, <1>3

LEMMA VectorFacts ==
    ASSUME cache \in Caches, NEW t \in Cached
    PROVE  VectorOf(t) = t
<1>1. t \in Held(cache) BY DEF Cached, Held
<1>2. cache[SelectInSeq(cache, LAMBDA e : e.text = t)] = Entry(t) BY <1>1, FoundFacts
<1>3. VectorOf(t) = Entry(t).vector BY <1>2 DEF VectorOf
<1> QED BY <1>3 DEF Entry

LEMMA TouchFacts ==
    ASSUME cache \in Caches, NEW s \in Seq(Phrases)
    PROVE  Touch(s) \in Caches /\ Len(Touch(s)) = Len(cache)
<1> DEFINE n == Len(s)
           X == {c \in Caches : Held(c) = Cached /\ Len(c) = Len(cache)}
           Add(x, t) == IF t \in Cached THEN Use(x, t, VectorOf(t)) ELSE x
           step == [i \in 1..n |-> [x \in X |-> Add(x, s[i])]]
           f == CHOOSE f : f = [d \in SUBSET (1..n) |->
                                  IF d = {} THEN cache ELSE Add(f[d \ {Max(d)}], s[Max(d)])]
<1>1. n \in Nat /\ DOMAIN s = 1..n /\ \A i \in 1..n : s[i] \in Phrases OBVIOUS
<1>2. \A x \in X : \A i \in 1..n : Add(x, s[i]) \in X
  <2>1. SUFFICES ASSUME NEW x \in X, NEW t \in Phrases, t \in Cached PROVE Use(x, t, t) \in X
    BY <1>1, VectorFacts
  <2>2. x \in Caches /\ Held(x) = Cached /\ Len(x) = Len(cache) OBVIOUS
  <2>3. /\ Use(x, t, t) \in Caches /\ Held(Use(x, t, t)) = Held(x) \cup {t}
        /\ Len(Use(x, t, t)) = Len(x)
    BY <2>1, <2>2, UseFacts
  <2> QED BY <2>1, <2>2, <2>3
<1>3. cache \in X BY DEF Cached, Held
<1>4. Touch(s) = f[1..n] BY <1>1 DEF Touch, FoldLeft, MapThenFoldSet
<1> HIDE DEF n, X, Add
<1>5. step \in [1..n -> [X -> X]] BY <1>2
<1>6. \A i \in 1..n : \A x \in X : step[i][x] = Add(x, s[i]) OBVIOUS
<1>7. PICK g \in [SUBSET (1..n) -> X] :
         \A d \in SUBSET (1..n) :
            g[d] = IF d = {} THEN cache ELSE step[Max(d)][g[d \ {Max(d)}]]
  <2> HIDE DEF step
  <2>1. HasFold(X, n, cache, step) BY <1>1, <1>3, <1>5, FoldExists
  <2> QED BY <2>1 DEF HasFold
<1> HIDE DEF step
<1>8. \A d \in SUBSET (1..n) : d # {} => Max(d) \in 1..n /\ d \ {Max(d)} \in SUBSET (1..n)
  BY <1>1, MaxFacts
<1>9. g = [d \in SUBSET (1..n) |-> IF d = {} THEN cache ELSE Add(g[d \ {Max(d)}], s[Max(d)])]
  BY <1>6, <1>7, <1>8
<1>10. f = [d \in SUBSET (1..n) |-> IF d = {} THEN cache ELSE Add(f[d \ {Max(d)}], s[Max(d)])]
  BY <1>9
<1> HIDE DEF f
<1>11. f[{}] = cache
  <2>1. {} \in SUBSET (1..n) OBVIOUS
  <2> QED BY <1>10, <2>1
<1>12. Recurs(f, X, n, cache, step) BY <1>6, <1>8, <1>10, <1>11 DEF Recurs
<1>13. TakesSteps(f, X, n, cache, step) BY <1>1, <1>3, <1>5, <1>12, Stages
<1>14. f[1..n] \in X
  <2>1. n \in 0..n BY <1>1
  <2> QED BY <1>13, <2>1 DEF TakesSteps
<1> QED BY <1>4, <1>14 DEF X

LEMMA PutFacts ==
    ASSUME cache \in Caches, NEW s \in Seq(Phrases)
    PROVE  Put(s, s) \in Caches /\ Len(Put(s, s)) <= CacheSize
<1> DEFINE n == Len(s)
           ids == [i \in DOMAIN s |-> i]
           X == Caches
           Add(x, i) == Use(x, s[i], s[i])
           step == [i \in 1..n |-> [x \in X |-> Add(x, i)]]
           f == CHOOSE f : f = [d \in SUBSET (1..n) |->
                                  IF d = {} THEN cache ELSE Add(f[d \ {Max(d)}], ids[Max(d)])]
           all == FoldLeftDomain(LAMBDA store, i : Use(store, s[i], s[i]), cache, s)
<1>1. n \in Nat /\ DOMAIN s = 1..n /\ \A i \in 1..n : s[i] \in Phrases OBVIOUS
<1>2. \A x \in X : \A i \in 1..n : Add(x, i) \in X BY <1>1, UseFacts
<1>3. cache \in X OBVIOUS
<1>4. all = f[1..n]
  <2>1. DOMAIN ids = 1..n BY <1>1
  <2> QED BY <2>1 DEF FoldLeftDomain, FoldLeft, MapThenFoldSet
<1>5. Put(s, s) = SubSeq(all, Most(1, Len(all) - CacheSize + 1), Len(all)) BY DEF Put
<1>6. \A i \in 1..n : ids[i] = i BY <1>1
<1> HIDE DEF n, X, Add, ids, all
<1>7. step \in [1..n -> [X -> X]] BY <1>2
<1>8. \A i \in 1..n : \A x \in X : step[i][x] = Add(x, i) OBVIOUS
<1>9. PICK g \in [SUBSET (1..n) -> X] :
         \A d \in SUBSET (1..n) :
            g[d] = IF d = {} THEN cache ELSE step[Max(d)][g[d \ {Max(d)}]]
  <2> HIDE DEF step
  <2>1. HasFold(X, n, cache, step) BY <1>1, <1>3, <1>7, FoldExists
  <2> QED BY <2>1 DEF HasFold
<1> HIDE DEF step
<1>10. \A d \in SUBSET (1..n) : d # {} => Max(d) \in 1..n /\ d \ {Max(d)} \in SUBSET (1..n)
  BY <1>1, MaxFacts
<1>11. g = [d \in SUBSET (1..n) |-> IF d = {} THEN cache ELSE Add(g[d \ {Max(d)}], ids[Max(d)])]
  BY <1>6, <1>8, <1>9, <1>10
<1>12. f = [d \in SUBSET (1..n) |-> IF d = {} THEN cache ELSE Add(f[d \ {Max(d)}], ids[Max(d)])]
  BY <1>11
<1> HIDE DEF f
<1>13. f[{}] = cache
  <2>1. {} \in SUBSET (1..n) OBVIOUS
  <2> QED BY <1>12, <2>1
<1>14. Recurs(f, X, n, cache, step)
  <2>1. ASSUME NEW d \in SUBSET (1..n), d # {}, f[d \ {Max(d)}] \in X
        PROVE  f[d] = step[Max(d)][f[d \ {Max(d)}]]
    <3>1. Max(d) \in 1..n /\ ids[Max(d)] = Max(d) BY <1>6, <1>10, <2>1
    <3>2. f[d] = Add(f[d \ {Max(d)}], Max(d)) BY <1>12, <2>1, <3>1
    <3> QED BY <1>8, <2>1, <3>1, <3>2
  <2> QED BY <1>13, <2>1 DEF Recurs
<1>15. TakesSteps(f, X, n, cache, step) BY <1>1, <1>3, <1>7, <1>14, Stages
<1>16. all \in Caches
  <2>1. n \in 0..n BY <1>1
  <2> QED BY <1>4, <1>15, <2>1 DEF TakesSteps, X
<1>17. all \in Seq(Entries) /\ IsInjective(all) /\ Len(all) \in Nat BY <1>16, HeldFacts
<1> DEFINE m == Most(1, Len(all) - CacheSize + 1)
<1>18. CacheSize \in Nat \ {0} BY RecommendationsAssumption
<1>19. m = IF Len(all) - CacheSize + 1 <= 1 THEN 1 ELSE Len(all) - CacheSize + 1
  <2>1. \A k \in Int : Most(1, k) = IF k <= 1 THEN 1 ELSE k BY MaxOfTwo
  <2>2. Len(all) - CacheSize + 1 \in Int BY <1>17, <1>18
  <2> QED BY <2>1, <2>2
<1> HIDE DEF m
<1>20. m \in Nat \ {0} /\ Len(all) \in 0..Len(all) /\ Len(all) - m + 1 <= CacheSize
  BY <1>17, <1>18, <1>19
<1>21. /\ SubSeq(all, m, Len(all)) \in Seq(Entries) /\ IsInjective(SubSeq(all, m, Len(all)))
       /\ Len(SubSeq(all, m, Len(all))) = IF m <= Len(all) THEN Len(all) - m + 1 ELSE 0
  BY <1>17, <1>20, SubSeqFacts
<1> QED BY <1>5, <1>18, <1>20, <1>21 DEF Caches, m

-----------------------------------------------------------------------------
(* Scores are numbers.                                                       *)

LEMMA LargestFacts ==
    ASSUME NEW S, S \subseteq Nat \ {0}, IsFiniteSet(S), S # {}
    PROVE  Max(S) \in Nat \ {0}
<1> DEFINE n == Cardinality(S)
<1>1. n \in Nat /\ ExistsBijection(1..n, S) BY FS_CardinalityType
<1>2. PICK f \in [1..n -> S] : \A x \in S : \E i \in 1..n : f[i] = x
  BY <1>1 DEF ExistsBijection, Bijection, Surjection
<1> HIDE DEF n
<1> DEFINE G == {i \in 0..n : \E m \in Nat : \A j \in 1..i : f[j] <= m}
<1>3. 0 \in G
  <2>1. 0 \in 0..n /\ \A j \in 1..0 : f[j] <= 0 BY <1>1
  <2> QED BY <2>1
<1>4. ASSUME NEW i \in 1..n, i - 1 \in G PROVE i \in G
  <2>1. PICK m \in Nat : \A j \in 1..(i - 1) : f[j] <= m BY <1>4
  <2>2. f[i] \in Nat /\ \A j \in 1..i : f[j] \in Nat
    <3>1. \A j \in 1..n : f[j] \in Nat BY <1>2
    <3>2. \A j \in 1..i : j \in 1..n BY <1>1
    <3> QED BY <3>1, <3>2
  <2>3. \A j \in 1..i : f[j] <= m + f[i]
    <3>1. SUFFICES ASSUME NEW j \in 1..i PROVE f[j] <= m + f[i] OBVIOUS
    <3>2. j \in 1..(i - 1) \/ j = i BY <1>1
    <3> QED BY <2>1, <2>2, <3>2
  <2>4. m + f[i] \in Nat /\ i \in 0..n BY <1>1, <2>2
  <2> QED BY <2>3, <2>4
<1>5. n \in G
  <2>1. \A i \in 1..n : i - 1 \in G => i \in G BY <1>4
  <2> HIDE DEF G
  <2>2. \A i \in 0..n : i \in G BY <1>1, <1>3, <2>1, Upwards
  <2> QED BY <1>1, <2>2
<1>6. PICK m \in Nat : \A j \in 1..n : f[j] <= m BY <1>5
<1>7. S \in SUBSET (1..m)
  <2>1. SUFFICES ASSUME NEW x \in S PROVE x \in 1..m OBVIOUS
  <2>2. x \in Nat \ {0} /\ x <= m BY <1>2, <1>6
  <2> QED BY <2>2
<1>8. Max(S) \in 1..m BY <1>7, MaxFacts
<1> QED BY <1>8

LEMMA QuotientFacts == \A m \in Int, n \in Nat \ {0} : m \div n \in Int
OBVIOUS

LEMMA LeastMostInt == \A m, n \in Int : Least(m, n) \in Int /\ Most(m, n) \in Int
BY MaxOfTwo

HitType == [score : Nat, source : SourceNames]

LEMMA WeightFacts == \A source \in SourceNames : Weight(source) \in Nat \ {0}
BY DEF SourceNames, Weight

LEMMA InterestFacts ==
    ASSUME NEW hit \in HitType \cup {Null}
    PROVE  Interest(hit) \in Int
<1>1. CASE hit = Null BY <1>1 DEF Interest
<1>2. CASE hit # Null
  <2>1. hit.score \in Nat /\ hit.source \in SourceNames BY <1>2 DEF HitType
  <2>2. Least(Unit, hit.score) \in Int
    <3> DEFINE s == hit.score
    <3>1. Unit \in Int /\ s \in Int BY <2>1 DEF Unit
    <3> HIDE DEF s
    <3>2. \A m, k \in Int : Least(m, k) \in Int BY LeastMostInt
    <3>3. Least(Unit, s) \in Int BY <3>1, <3>2
    <3> QED BY <3>3 DEF s
  <2>3. Weight(hit.source) \in Nat BY <2>1, WeightFacts
  <2>4. Least(Unit, hit.score) * Weight(hit.source) \in Int BY <2>2, <2>3
  <2> QED BY <1>2, <2>4 DEF Interest
<1> QED BY <1>1, <1>2

LEMMA EligibilityFacts ==
    ASSUME NEW match \in Judgements
    PROVE  Eligibility(match) \in Int
<1>1. /\ match.required \in Nat /\ match.satisfied \in Nat
      /\ match.verdict \in {"feasible", "fixable", "unclear", "infeasible"}
  BY TablesAssumption
<1> DEFINE base == CASE match.verdict = "feasible" -> Unit
                     [] match.verdict = "fixable" -> (6 * Unit) \div 10
                     [] OTHER -> Unit \div 4
           part == (match.satisfied * Unit) \div match.required
<1>2. base \in Int
  <2>1. Unit \in Int /\ (6 * Unit) \div 10 \in Int /\ Unit \div 4 \in Int BY DEF Unit
  <2>2. base \in {Unit, (6 * Unit) \div 10, Unit \div 4} OBVIOUS
  <2> QED BY <2>1, <2>2
<1>3. ASSUME match.required # 0 PROVE Least(Unit, part) \in Int
  <2>1. match.satisfied * Unit \in Int /\ match.required \in Nat \ {0} BY <1>1, <1>3 DEF Unit
  <2>2. part \in Int BY <2>1, QuotientFacts
  <2>3. Unit \in Int BY DEF Unit
  <2> QED BY <2>2, <2>3, LeastMostInt
<1>4. Eligibility(match) =
        IF match.required = 0 THEN base ELSE (base + Least(Unit, part)) \div 2
  BY DEF Eligibility
<1> HIDE DEF base, part
<1>5. CASE match.required = 0 BY <1>2, <1>4, <1>5
<1>6. CASE match.required # 0
  <2>1. Least(Unit, part) \in Int BY <1>3, <1>6
  <2>2. (base + Least(Unit, part)) \div 2 \in Int BY <1>2, <2>1
  <2> QED BY <1>4, <1>6, <2>2
<1> QED BY <1>5, <1>6

LEMMA CapabilityFacts ==
    ASSUME NEW codes, IsFiniteSet(codes), NEW required, IsFiniteSet(required)
    PROVE  Capability(codes, required) \in Int
<1>1. CASE required = {} BY <1>1 DEF Capability, Unit
<1>2. CASE required # {}
  <2>1. Cardinality(required) \in Nat /\ Cardinality(required) # 0
    BY <1>2, FS_CardinalityType, FS_EmptySet
  <2>2. Cardinality(codes \cap required) \in Nat BY FS_Intersection, FS_CardinalityType
  <2>3. Cardinality(codes \cap required) * Unit \in Int BY <2>2 DEF Unit
  <2>4. (Cardinality(codes \cap required) * Unit) \div Cardinality(required) \in Int
    BY <2>1, <2>3, QuotientFacts
  <2> QED BY <1>2, <2>4 DEF Capability
<1> QED BY <1>1, <1>2

LEMMA ScaleFacts ==
    ASSUME NEW budget \in Nat \cup {Null}, NEW amounts, amounts \subseteq Nat \ {0},
           IsFiniteSet(amounts)
    PROVE  Scale(budget, amounts) \in Int
<1>1. CASE budget \in {Null, 0} \/ amounts = {} BY <1>1 DEF Scale, Unit
<1>2. CASE ~(budget \in {Null, 0} \/ amounts = {})
  <2> DEFINE c == Max(amounts)
             low == (10 * budget * Unit) \div (3 * c)
             high == ((budget - 2 * c) * Unit) \div (8 * c)
  <2>1. c \in Nat \ {0} BY <1>2, LargestFacts
  <2>2. Scale(budget, amounts) =
          IF 10 * budget < 3 * c THEN Most((3 * Unit) \div 10, low)
          ELSE IF budget <= 2 * c THEN Unit ELSE Most(0, Unit - high)
    BY <1>2 DEF Scale
  <2>3. budget \in Nat BY <1>2
  <2> HIDE DEF c
  <2>4. low \in Int
    <3>1. 10 * budget * Unit \in Int /\ 3 * c \in Nat \ {0} BY <2>1, <2>3 DEF Unit
    <3> QED BY <3>1, QuotientFacts
  <2>5. high \in Int
    <3>1. (budget - 2 * c) * Unit \in Int /\ 8 * c \in Nat \ {0} BY <2>1, <2>3 DEF Unit
    <3> QED BY <3>1, QuotientFacts
  <2> HIDE DEF low, high
  <2>6. (3 * Unit) \div 10 \in Int /\ Unit \in Int /\ Unit - high \in Int BY <2>5 DEF Unit
  <2>7. \A m, k \in Int : Most(m, k) \in Int BY LeastMostInt
  <2>8. Most((3 * Unit) \div 10, low) \in Int BY <2>4, <2>6, <2>7
  <2>9. Most(0, Unit - high) \in Int BY <2>6, <2>7
  <2> QED BY <2>2, <2>6, <2>8, <2>9
<1> QED BY <1>1, <1>2

LEMMA FreshnessFacts ==
    ASSUME NEW closes \in Nat \cup {Null}, NEW t \in Nat
    PROVE  Freshness(closes, t) \in Int
<1> DEFINE left == closes - t
           late == Unit - ((left - 14 * TicksPerDay) * Unit) \div (60 * TicksPerDay)
<1>1. TicksPerDay \in Nat \ {0} BY RecommendationsAssumption
<1>2. CASE closes = Null BY <1>2 DEF Freshness, Unit
<1>3. CASE closes # Null
  <2>1. left \in Int BY <1>3
  <2>2. Freshness(closes, t) =
          IF left < 0 THEN 0
          ELSE IF left <= 2 * TicksPerDay THEN (3 * Unit) \div 10
          ELSE IF left <= 14 * TicksPerDay THEN Unit
          ELSE Most((4 * Unit) \div 10, late)
    BY <1>3 DEF Freshness
  <2> HIDE DEF left
  <2>3. late \in Int
    <3>1. (left - 14 * TicksPerDay) * Unit \in Int /\ 60 * TicksPerDay \in Nat \ {0}
      BY <1>1, <2>1 DEF Unit
    <3>2. ((left - 14 * TicksPerDay) * Unit) \div (60 * TicksPerDay) \in Int
      BY <3>1, QuotientFacts
    <3> QED BY <3>2 DEF Unit
  <2> HIDE DEF late
  <2>4. (4 * Unit) \div 10 \in Int /\ (3 * Unit) \div 10 \in Int /\ Unit \in Int BY DEF Unit
  <2>5. Most((4 * Unit) \div 10, late) \in Int BY <2>3, <2>4, LeastMostInt
  <2> QED BY <2>2, <2>4, <2>5
<1> QED BY <1>2, <1>3

-----------------------------------------------------------------------------
(* The order of the answer: bids that differ in their score or bid_id.       *)

LEMMA AheadFacts ==
    ASSUME NEW D \in SUBSET Nat, NEW score \in [D -> Int]
    PROVE  /\ \A x \in D : ~Ahead(score, x, x)
           /\ \A x, y \in D : x # y => Ahead(score, x, y) \/ Ahead(score, y, x)
           /\ \A x, y \in D : ~(Ahead(score, x, y) /\ Ahead(score, y, x))
           /\ \A x, y, z \in D : Ahead(score, x, y) /\ Ahead(score, y, z) => Ahead(score, x, z)
<1>1. \A x \in D : x \in Nat /\ score[x] \in Int OBVIOUS
<1> QED BY <1>1 DEF Ahead

Sorts(score, s) == \A i, j \in DOMAIN s : i < j => Ahead(score, s[i], s[j])

(* A bid's place is the number of bids ahead of it, and one more.            *)
LEMMA RankingExists ==
    ASSUME NEW D \in SUBSET Nat, IsFiniteSet(D), NEW score \in [D -> Int]
    PROVE  \E s \in SetToSeqs(D) : Sorts(score, s)
<1> DEFINE n == Cardinality(D)
           before(x) == {y \in D : Ahead(score, y, x)}
           place == [x \in D |-> Cardinality(before(x)) + 1]
<1>1. n \in Nat BY FS_CardinalityType
<1>2. ASSUME NEW x \in D
      PROVE  /\ before(x) \in SUBSET D /\ IsFiniteSet(before(x)) /\ x \notin before(x)
             /\ Cardinality(before(x)) \in Nat /\ Cardinality(before(x)) < n
  <2>1. before(x) \in SUBSET D OBVIOUS
  <2>2. x \notin before(x) BY AheadFacts
  <2> HIDE DEF before
  <2>3. IsFiniteSet(before(x)) /\ Cardinality(before(x)) <= n /\ Cardinality(before(x)) # n
    BY <2>1, <2>2, FS_Subset
  <2>4. Cardinality(before(x)) \in Nat BY <2>3, FS_CardinalityType
  <2> QED BY <1>1, <2>1, <2>2, <2>3, <2>4
<1>3. ASSUME NEW x \in D, NEW y \in D, Ahead(score, x, y) PROVE place[x] < place[y]
  <2>1. before(x) \subseteq before(y) BY <1>3, AheadFacts
  <2>2. x \in before(y) BY <1>3
  <2>3. /\ IsFiniteSet(before(y)) /\ x \notin before(x)
        /\ Cardinality(before(x)) \in Nat /\ Cardinality(before(y)) \in Nat
    BY <1>2
  <2>4. place[x] = Cardinality(before(x)) + 1 /\ place[y] = Cardinality(before(y)) + 1 OBVIOUS
  <2> HIDE DEF before, place
  <2>5. /\ Cardinality(before(x)) <= Cardinality(before(y))
        /\ Cardinality(before(x)) # Cardinality(before(y))
    BY <2>1, <2>2, <2>3, FS_Subset
  <2> QED BY <2>3, <2>4, <2>5
<1>4. place \in [D -> 1..n]
  <2>1. \A x \in D : Cardinality(before(x)) + 1 \in 1..n BY <1>1, <1>2
  <2> HIDE DEF before
  <2> QED BY <2>1
<1> HIDE DEF before, place, n
<1>5. \A x, y \in D : place[x] = place[y] => x = y
  <2>1. \A x \in D : place[x] \in Nat BY <1>4
  <2> QED BY <1>3, <2>1, AheadFacts
<1>6. place \in Surjection(D, 1..n)
  <2>1. place \in Injection(D, 1..n) BY <1>4, <1>5 DEF Injection, IsInjective
  <2>2. IsFiniteSet(1..n) /\ Cardinality(1..n) = n BY <1>1, FS_Interval
  <2> QED BY <2>1, <2>2, FS_Injection DEF n
<1>7. \A i \in 1..n : \E x \in D : place[x] = i BY <1>6 DEF Surjection
<1> DEFINE s == [i \in 1..n |-> CHOOSE x \in D : place[x] = i]
<1>8. \A i \in 1..n : s[i] \in D /\ place[s[i]] = i BY <1>7
<1>9. s \in [1..n -> D] /\ DOMAIN s = 1..n BY <1>8
<1> HIDE DEF s
<1>10. s \in SetToSeqs(D)
  <2>1. \A i, j \in 1..n : i # j => s[i] # s[j] BY <1>8
  <2> QED BY <1>9, <2>1 DEF SetToSeqs, n
<1>11. Sorts(score, s)
  <2>1. SUFFICES ASSUME NEW i \in 1..n, NEW j \in 1..n, i < j PROVE Ahead(score, s[i], s[j])
    BY <1>9 DEF Sorts
  <2>2. s[i] \in D /\ s[j] \in D /\ place[s[i]] = i /\ place[s[j]] = j BY <1>8
  <2>3. s[i] # s[j] BY <1>1, <2>1, <2>2
  <2>4. CASE Ahead(score, s[i], s[j]) BY <2>4
  <2>5. CASE Ahead(score, s[j], s[i])
    <3>1. j < i BY <1>3, <2>2, <2>5
    <3> QED BY <1>1, <2>1, <3>1
  <2> QED BY <2>2, <2>3, <2>4, <2>5, AheadFacts
<1> QED BY <1>10, <1>11

LEMMA RankedFacts ==
    ASSUME NEW a, DOMAIN a.candidates \in SUBSET Nat, IsFiniteSet(DOMAIN a.candidates),
           NEW score \in [DOMAIN a.candidates -> Int]
    PROVE  /\ Ranked(a, score) \in Seq(DOMAIN a.candidates)
           /\ ToSet(Ranked(a, score)) = DOMAIN a.candidates
           /\ Sorts(score, Ranked(a, score))
<1> DEFINE D == DOMAIN a.candidates
           s == Ranked(a, score)
<1>1. \E u \in SetToSeqs(D) : Sorts(score, u)
  <2>1. D \in SUBSET Nat /\ IsFiniteSet(D) /\ score \in [D -> Int] OBVIOUS
  <2> HIDE DEF D
  <2> QED BY <2>1, RankingExists
<1>2. s \in SetToSeqs(D) /\ Sorts(score, s) BY <1>1 DEF Ranked, Sorts
<1> HIDE DEF s
<1>3. s \in Seq(D) /\ ToSet(s) = D BY <1>2, SeqsFacts
<1> QED BY <1>2, <1>3 DEF s

-----------------------------------------------------------------------------
(* The signal a bid is shown with.                                           *)

(* A request whose signals are embedded.                                     *)
Embedded(a) ==
    /\ DOMAIN a.candidates \in SUBSET Bids
    /\ \A b \in DOMAIN a.candidates :
          /\ a.candidates[b].bid \in Contents /\ a.candidates[b].bid.title \in Phrases
          /\ a.candidates[b].match \in Judgements
    /\ a.signals \in Seq(SignalType)
    /\ a.vectors \in Seq(Phrases) /\ Len(a.vectors) = Len(a.signals)
    /\ IsFiniteSet(a.codes)
    /\ a.amounts \subseteq Nat \ {0} /\ IsFiniteSet(a.amounts)
    /\ a.limit \in Nat /\ a.at \in Nat

Find(a, b, n) ==
    [score |-> Cosine(a.vectors[n], a.candidates[b].bid.title), source |-> a.signals[n].source]
Worth(hit) == hit.score * Weight(hit.source)
Finding(a, b) == {n \in DOMAIN a.signals : b \in Hits(a, a.vectors[n])}

(* Of the first k signals, the first of the strongest.                       *)
Strongest(a, b, k, n) ==
    /\ n \in Finding(a, b) /\ n <= k
    /\ \A m \in Finding(a, b) : m <= k =>
          \/ Worth(Find(a, b, m)) < Worth(Find(a, b, n))
          \/ Worth(Find(a, b, m)) = Worth(Find(a, b, n)) /\ n <= m

BestOf(a, b, k, best) ==
    IF \E m \in Finding(a, b) : m <= k THEN \E n : Strongest(a, b, k, n) /\ best = Find(a, b, n)
    ELSE best = Null

LEMMA FindFacts ==
    ASSUME NEW a, Embedded(a), NEW b \in DOMAIN a.candidates, NEW n \in DOMAIN a.signals
    PROVE  /\ Find(a, b, n) \in HitType /\ Find(a, b, n) # Null
           /\ Worth(Find(a, b, n)) \in Nat
<1>1. DOMAIN a.signals = 1..Len(a.signals) /\ DOMAIN a.vectors = 1..Len(a.signals)
  BY DEF Embedded
<1>2. /\ a.vectors[n] \in Phrases /\ a.candidates[b].bid.title \in Phrases
      /\ a.signals[n].source \in SourceNames
  <2>1. a.vectors \in Seq(Phrases) /\ a.signals \in Seq(SignalType) BY DEF Embedded
  <2>2. a.vectors[n] \in Phrases BY <1>1, <2>1
  <2>3. a.signals[n] \in SignalType BY <1>1, <2>1
  <2>4. a.candidates[b].bid.title \in Phrases BY DEF Embedded
  <2> QED BY <2>2, <2>3, <2>4 DEF SignalType
<1>3. Cosine(a.vectors[n], a.candidates[b].bid.title) \in Nat
  BY <1>2, RecommendationsAssumption
<1>4. Find(a, b, n) \in HitType BY <1>2, <1>3 DEF Find, HitType
<1>5. Null \notin HitType BY RecommendationsAssumption DEF HitType
<1> DEFINE hit == Find(a, b, n)
<1>6. hit \in HitType BY <1>4
<1> HIDE DEF hit
<1>7. hit.score \in Nat /\ hit.source \in SourceNames BY <1>6 DEF HitType
<1>8. Weight(hit.source) \in Nat BY <1>7, WeightFacts
<1>9. Worth(hit) \in Nat BY <1>7, <1>8 DEF Worth
<1> QED BY <1>4, <1>5, <1>9 DEF hit

BestBy(h, a, b) ==
    /\ h[0] = Null /\ h[Len(a.signals)] = BestHit(a, b)
    /\ \A i \in 1..Len(a.signals) :
          h[i] = IF i \notin Finding(a, b) THEN h[i - 1]
                 ELSE IF h[i - 1] = Null \/ Worth(Find(a, b, i)) > Worth(h[i - 1])
                 THEN Find(a, b, i) ELSE h[i - 1]

LEMMA BestStages ==
    ASSUME NEW a, Embedded(a), NEW b \in DOMAIN a.candidates
    PROVE  \E h : BestBy(h, a, b)
<1> DEFINE n == Len(a.signals)
           ids == [i \in DOMAIN a.signals |-> i]
           X == HitType \cup {Null}
           Add(best, i) ==
             LET hit == [score |-> Cosine(a.vectors[i], a.candidates[b].bid.title),
                         source |-> a.signals[i].source]
             IN  IF b \notin Hits(a, a.vectors[i]) THEN best
                 ELSE IF \/ best = Null
                         \/ hit.score * Weight(hit.source) > best.score * Weight(best.source)
                 THEN hit ELSE best
           step == [i \in 1..n |-> [x \in X |-> Add(x, i)]]
           f == CHOOSE f : f = [d \in SUBSET (1..n) |->
                                  IF d = {} THEN Null ELSE Add(f[d \ {Max(d)}], ids[Max(d)])]
<1>1. n \in Nat /\ DOMAIN a.signals = 1..n BY DEF Embedded
<1>2. \A x : \A i \in 1..n :
         Add(x, i) = IF i \notin Finding(a, b) THEN x
                     ELSE IF x = Null \/ Worth(Find(a, b, i)) > Worth(x) THEN Find(a, b, i) ELSE x
  BY <1>1 DEF Finding, Find, Worth
<1>3. BestHit(a, b) = f[1..n]
  <2>1. DOMAIN ids = 1..n BY <1>1
  <2> QED BY <2>1 DEF BestHit, FoldLeftDomain, FoldLeft, MapThenFoldSet
<1>4. \A i \in 1..n : ids[i] = i BY <1>1
<1> HIDE DEF n, Add, ids
<1>5. \A x \in X : \A i \in 1..n : Add(x, i) \in X
  <2>1. \A i \in 1..n : Find(a, b, i) \in X BY <1>1, FindFacts
  <2> HIDE DEF X
  <2> QED BY <1>2, <2>1
<1>6. Null \in X OBVIOUS
<1> HIDE DEF X
<1>7. step \in [1..n -> [X -> X]] BY <1>5
<1>8. \A i \in 1..n : \A x \in X : step[i][x] = Add(x, i) OBVIOUS
<1>9. PICK g \in [SUBSET (1..n) -> X] :
         \A d \in SUBSET (1..n) :
            g[d] = IF d = {} THEN Null ELSE step[Max(d)][g[d \ {Max(d)}]]
  <2> HIDE DEF step
  <2>1. HasFold(X, n, Null, step) BY <1>1, <1>6, <1>7, FoldExists
  <2> QED BY <2>1 DEF HasFold
<1> HIDE DEF step
<1>10. \A d \in SUBSET (1..n) : d # {} => Max(d) \in 1..n /\ d \ {Max(d)} \in SUBSET (1..n)
  BY <1>1, MaxFacts
<1>11. g = [d \in SUBSET (1..n) |-> IF d = {} THEN Null ELSE Add(g[d \ {Max(d)}], ids[Max(d)])]
  BY <1>4, <1>8, <1>9, <1>10
<1>12. f = [d \in SUBSET (1..n) |-> IF d = {} THEN Null ELSE Add(f[d \ {Max(d)}], ids[Max(d)])]
  BY <1>11
<1> HIDE DEF f
<1>13. f[{}] = Null
  <2>1. {} \in SUBSET (1..n) OBVIOUS
  <2> QED BY <1>12, <2>1
<1>14. Recurs(f, X, n, Null, step)
  <2>1. ASSUME NEW d \in SUBSET (1..n), d # {}, f[d \ {Max(d)}] \in X
        PROVE  f[d] = step[Max(d)][f[d \ {Max(d)}]]
    <3>1. Max(d) \in 1..n /\ ids[Max(d)] = Max(d) BY <1>4, <1>10, <2>1
    <3>2. f[d] = Add(f[d \ {Max(d)}], Max(d)) BY <1>12, <2>1, <3>1
    <3> QED BY <1>8, <2>1, <3>1, <3>2
  <2> QED BY <1>13, <2>1 DEF Recurs
<1>15. TakesSteps(f, X, n, Null, step) BY <1>1, <1>6, <1>7, <1>14, Stages
<1>16. \A i \in 1..n : f[1..i] = Add(f[1..(i - 1)], i)
  <2>1. \A i \in 1..n : i - 1 \in 0..n BY <1>1
  <2> QED BY <1>8, <1>15, <2>1 DEF TakesSteps
<1> DEFINE h == [i \in 0..n |-> f[1..i]]
<1>17. h[0] = Null BY <1>1, <1>15 DEF TakesSteps
<1>18. h[n] = BestHit(a, b) BY <1>1, <1>3
<1>19. \A i \in 1..n : h[i] = Add(h[i - 1], i) BY <1>1, <1>16
<1> HIDE DEF h
<1>20. BestBy(h, a, b) BY <1>2, <1>17, <1>18, <1>19 DEF BestBy, n
<1> QED BY <1>20

LEMMA BestHitFacts ==
    ASSUME NEW a, Embedded(a), NEW b \in DOMAIN a.candidates
    PROVE  BestOf(a, b, Len(a.signals), BestHit(a, b))
<1> DEFINE n == Len(a.signals)
           F == Finding(a, b)
           W(i) == Worth(Find(a, b, i))
<1>1. n \in Nat /\ F \subseteq 1..n BY DEF Embedded, Finding
<1>2. \A i \in F : W(i) \in Nat /\ Find(a, b, i) # Null
  BY FindFacts DEF Finding
<1>3. PICK h : BestBy(h, a, b) BY BestStages
<1>4. /\ h[0] = Null /\ h[n] = BestHit(a, b)
      /\ \A i \in 1..n : h[i] = IF i \notin F THEN h[i - 1]
                                ELSE IF h[i - 1] = Null \/ W(i) > Worth(h[i - 1])
                                THEN Find(a, b, i) ELSE h[i - 1]
  BY <1>3 DEF BestBy
<1> DEFINE G == {k \in 0..n : BestOf(a, b, k, h[k])}
           Best(k, i) == i \in F /\ i <= k /\ \A m \in F : m <= k =>
                            W(m) < W(i) \/ (W(m) = W(i) /\ i <= m)
<1>5. \A k : BestOf(a, b, k, h[k]) <=>
         IF \E m \in F : m <= k THEN \E i : Best(k, i) /\ h[k] = Find(a, b, i)
         ELSE h[k] = Null
  <2>1. ASSUME NEW k, NEW i PROVE Strongest(a, b, k, i) <=> Best(k, i)
    BY DEF Strongest
  <2> HIDE DEF Best, F, W
  <2> QED BY <2>1 DEF BestOf, F
<1> HIDE DEF n, F, W
<1>6. 0 \in G
  <2>1. ~\E m \in F : m <= 0 BY <1>1
  <2>2. 0 \in 0..n BY <1>1
  <2> QED BY <1>4, <1>5, <2>1, <2>2
<1>7. ASSUME NEW k \in 1..n, k - 1 \in G PROVE k \in G
  <2>1. k - 1 \in 0..n /\ k \in 0..n BY <1>1
  <2>2. IF \E m \in F : m <= k - 1 THEN \E i : Best(k - 1, i) /\ h[k - 1] = Find(a, b, i)
        ELSE h[k - 1] = Null
    BY <1>5, <1>7
  <2>3. \A m \in F : m \in Nat /\ (m <= k <=> m <= k - 1 \/ m = k) BY <1>1
  <2>4. CASE k \notin F
    <3>1. h[k] = h[k - 1] BY <1>4, <2>4
    <3>2. \A m \in F : m <= k <=> m <= k - 1 BY <2>3, <2>4
    <3>3. \A i : Best(k, i) <=> Best(k - 1, i) BY <3>2
    <3> QED BY <1>5, <2>1, <2>2, <3>1, <3>2, <3>3
  <2>5. CASE k \in F /\ ~\E m \in F : m <= k - 1
    <3>1. h[k] = Find(a, b, k) BY <1>4, <2>2, <2>5
    <3>2. \A m \in F : m <= k <=> m = k BY <2>3, <2>5
    <3>3. Best(k, k) BY <2>5, <3>2, <1>1
    <3> QED BY <1>5, <2>1, <2>5, <3>1, <3>2, <3>3
  <2>6. CASE k \in F /\ \E m \in F : m <= k - 1
    <3>1. PICK i : Best(k - 1, i) /\ h[k - 1] = Find(a, b, i) BY <2>2, <2>6
    <3>2. i \in F /\ i <= k - 1 /\ i \in Nat /\ W(i) \in Nat /\ W(k) \in Nat /\ i <= k
      BY <1>2, <2>3, <2>6, <3>1
    <3>3. h[k - 1] # Null /\ Worth(h[k - 1]) = W(i) BY <1>2, <3>1, <3>2 DEF W
    <3>4. k <= k /\ \E m \in F : m <= k BY <1>1, <2>6
    <3>5. CASE W(k) > W(i)
      <4>1. h[k] = Find(a, b, k) BY <1>4, <2>6, <3>3, <3>5
      <4>2. ASSUME NEW m \in F, m <= k PROVE W(m) < W(k) \/ (W(m) = W(k) /\ k <= m)
        <5>1. m <= k - 1 \/ m = k BY <2>3, <4>2
        <5>2. CASE m <= k - 1
          <6>1. W(m) < W(i) \/ W(m) = W(i) BY <3>1, <5>2
          <6>2. W(m) \in Nat BY <1>2
          <6>3. \A x, y, z \in Nat : (x < y \/ x = y) /\ z > y => x < z OBVIOUS
          <6>4. W(m) < W(k) BY <3>2, <3>5, <6>1, <6>2, <6>3
          <6> QED BY <6>4
        <5>3. CASE m = k
          <6>1. W(m) = W(k) /\ k <= m BY <3>4, <5>3
          <6> QED BY <6>1
        <5> QED BY <5>1, <5>2, <5>3
      <4>3. Best(k, k) BY <2>6, <3>4, <4>2
      <4> QED BY <1>5, <2>1, <3>4, <4>1, <4>3
    <3>6. CASE ~(W(k) > W(i))
      <4>1. h[k] = Find(a, b, i) BY <1>4, <2>6, <3>1, <3>3, <3>6
      <4>2. ASSUME NEW m \in F, m <= k PROVE W(m) < W(i) \/ (W(m) = W(i) /\ i <= m)
        <5>1. m <= k - 1 \/ m = k BY <2>3, <4>2
        <5>2. m <= k - 1 => W(m) < W(i) \/ (W(m) = W(i) /\ i <= m) BY <3>1
        <5> QED BY <3>2, <3>6, <5>1, <5>2
      <4>3. Best(k, i) BY <3>2, <4>2
      <4> QED BY <1>5, <2>1, <3>4, <4>1, <4>3
    <3> QED BY <3>5, <3>6
  <2> QED BY <2>4, <2>5, <2>6
<1>8. n \in G
  <2>1. \A k \in 1..n : k - 1 \in G => k \in G BY <1>7
  <2> HIDE DEF G
  <2>2. \A k \in 0..n : k \in G BY <1>1, <1>6, <2>1, Upwards
  <2> QED BY <1>1, <2>2
<1> QED BY <1>4, <1>8 DEF n

-----------------------------------------------------------------------------
(* One bid of each title, up to the limit.                                   *)

Title(a, b) == a.candidates[b].bid.title

(* The best of some bids: what AnswerIsBest says of the answer.              *)
BestItems(a, score, x, seen) ==
    /\ x \in Seq(DOMAIN a.candidates) /\ ToSet(x) \subseteq seen
    /\ Sorts(score, x)
    /\ \A y, z \in ToSet(x) : Title(a, y) = Title(a, z) /\ Title(a, y) # BlankTitle => y = z
    /\ Len(x) <= a.limit
    /\ \A c \in seen \ ToSet(x) :
          \/ Title(a, c) # BlankTitle
             /\ \E y \in ToSet(x) : Title(a, y) = Title(a, c) /\ Ahead(score, y, c)
          \/ Len(x) = a.limit /\ \A y \in ToSet(x) : Ahead(score, y, c)

SameTitle(a, x, e) == Title(a, e) # BlankTitle /\ \E y \in ToSet(x) : Title(a, y) = Title(a, e)

ItemsBy(h, a, s) ==
    /\ h[0] = <<>> /\ h[Len(s)] = Items(a, s)
    /\ \A i \in 0..Len(s) : h[i] \in Seq(DOMAIN a.candidates)
    /\ \A i \in 1..Len(s) :
          h[i] = IF Len(h[i - 1]) >= a.limit \/ SameTitle(a, h[i - 1], s[i]) THEN h[i - 1]
                 ELSE Append(h[i - 1], s[i])

LEMMA ItemsStages ==
    ASSUME NEW a, NEW s \in Seq(DOMAIN a.candidates)
    PROVE  \E h : ItemsBy(h, a, s)
<1> DEFINE n == Len(s)
           X == Seq(DOMAIN a.candidates)
           base == <<>>
           title(b) == a.candidates[b].bid.title
           Add(items, b) == IF \/ Len(items) >= a.limit
                               \/ /\ title(b) # BlankTitle
                                  /\ \E i \in DOMAIN items : title(items[i]) = title(b)
                            THEN items ELSE Append(items, b)
           step == [i \in 1..n |-> [x \in X |-> Add(x, s[i])]]
           f == CHOOSE f : f = [d \in SUBSET (1..n) |->
                                  IF d = {} THEN base ELSE Add(f[d \ {Max(d)}], s[Max(d)])]
<1>1. n \in Nat /\ DOMAIN s = 1..n /\ \A i \in 1..n : s[i] \in DOMAIN a.candidates OBVIOUS
<1>2. \A x \in X : \A e \in DOMAIN a.candidates :
         Add(x, e) = IF Len(x) >= a.limit \/ SameTitle(a, x, e) THEN x ELSE Append(x, e)
  BY DEF SameTitle, Title, ToSet
<1>3. base \in X OBVIOUS
<1>4. Items(a, s) = f[1..n] BY <1>1 DEF Items, FoldLeft, MapThenFoldSet
<1> HIDE DEF n, base, Add
<1>5. \A x \in X : \A i \in 1..n : Add(x, s[i]) \in X
  <2>1. \A x \in X : \A e \in DOMAIN a.candidates : Append(x, e) \in X BY AppendFacts
  <2> HIDE DEF X
  <2>2. \A x \in X : \A e \in DOMAIN a.candidates : Add(x, e) \in X BY <1>2, <2>1
  <2> QED BY <1>1, <2>2
<1> HIDE DEF X
<1>6. step \in [1..n -> [X -> X]] BY <1>5
<1>7. \A i \in 1..n : \A x \in X : step[i][x] = Add(x, s[i]) OBVIOUS
<1>8. PICK g \in [SUBSET (1..n) -> X] :
         \A d \in SUBSET (1..n) :
            g[d] = IF d = {} THEN base ELSE step[Max(d)][g[d \ {Max(d)}]]
  <2> HIDE DEF step
  <2>1. HasFold(X, n, base, step) BY <1>1, <1>3, <1>6, FoldExists
  <2> QED BY <2>1 DEF HasFold
<1> HIDE DEF step
<1>9. \A d \in SUBSET (1..n) : d # {} => Max(d) \in 1..n /\ d \ {Max(d)} \in SUBSET (1..n)
  BY <1>1, MaxFacts
<1>10. g = [d \in SUBSET (1..n) |-> IF d = {} THEN base ELSE Add(g[d \ {Max(d)}], s[Max(d)])]
  BY <1>7, <1>8, <1>9
<1>11. f = [d \in SUBSET (1..n) |-> IF d = {} THEN base ELSE Add(f[d \ {Max(d)}], s[Max(d)])]
  BY <1>10
<1> HIDE DEF f
<1>12. f[{}] = base
  <2>1. {} \in SUBSET (1..n) OBVIOUS
  <2> QED BY <1>11, <2>1
<1>13. Recurs(f, X, n, base, step) BY <1>7, <1>9, <1>11, <1>12 DEF Recurs
<1>14. TakesSteps(f, X, n, base, step) BY <1>1, <1>3, <1>6, <1>13, Stages
<1>15. \A i \in 1..n : f[1..i] = Add(f[1..(i - 1)], s[i]) /\ f[1..(i - 1)] \in X
  <2>1. \A i \in 1..n : i - 1 \in 0..n BY <1>1
  <2> QED BY <1>7, <1>14, <2>1 DEF TakesSteps
<1> DEFINE h == [i \in 0..n |-> f[1..i]]
<1>16. h[0] = base /\ \A i \in 0..n : h[i] \in X BY <1>1, <1>14 DEF TakesSteps
<1>17. h[n] = Items(a, s) BY <1>1, <1>4
<1>18. \A i \in 1..n : h[i] = Add(h[i - 1], s[i]) /\ h[i - 1] \in X
  <2>1. \A i \in 1..n : h[i] = f[1..i] /\ h[i - 1] = f[1..(i - 1)] BY <1>1
  <2> HIDE DEF h
  <2> QED BY <1>15, <2>1
<1> HIDE DEF h
<1>19. \A i \in 1..n : h[i] = IF Len(h[i - 1]) >= a.limit \/ SameTitle(a, h[i - 1], s[i])
                             THEN h[i - 1] ELSE Append(h[i - 1], s[i])
  BY <1>1, <1>2, <1>18
<1>20. ItemsBy(h, a, s) BY <1>16, <1>17, <1>19 DEF ItemsBy, n, X, base
<1> QED BY <1>20

LEMMA ItemsFacts ==
    ASSUME NEW a, DOMAIN a.candidates \in SUBSET Nat, a.limit \in Nat,
           NEW score \in [DOMAIN a.candidates -> Int],
           NEW s \in Seq(DOMAIN a.candidates), ToSet(s) = DOMAIN a.candidates, Sorts(score, s)
    PROVE  BestItems(a, score, Items(a, s), DOMAIN a.candidates)
<1> DEFINE n == Len(s)
           D == DOMAIN a.candidates
           upTo(k) == {s[j] : j \in 1..k}
<1>1. n \in Nat /\ DOMAIN s = 1..n /\ \A i \in 1..n : s[i] \in D OBVIOUS
<1>2. PICK h : ItemsBy(h, a, s) BY ItemsStages
<1>3. /\ h[0] = <<>> /\ h[n] = Items(a, s)
      /\ \A i \in 0..n : h[i] \in Seq(D)
      /\ \A i \in 1..n :
            h[i] = IF Len(h[i - 1]) >= a.limit \/ SameTitle(a, h[i - 1], s[i]) THEN h[i - 1]
                   ELSE Append(h[i - 1], s[i])
  BY <1>2 DEF ItemsBy
<1>4. \A i, j \in 1..n : i < j => Ahead(score, s[i], s[j]) BY <1>1 DEF Sorts
<1> DEFINE G == {k \in 0..n : BestItems(a, score, h[k], upTo(k))}
<1> HIDE DEF n
<1>5. 0 \in G
  <2>1. upTo(0) = {} /\ 0 \in 0..n BY <1>1
  <2>2. <<>> \in Seq(D) /\ ToSet(<<>>) = {} /\ Len(<<>>) = 0 /\ DOMAIN <<>> = {} BY DEF ToSet
  <2> HIDE DEF upTo
  <2>3. BestItems(a, score, <<>>, upTo(0)) BY <2>1, <2>2 DEF BestItems, Sorts
  <2> QED BY <1>3, <2>1, <2>3
<1>6. ASSUME NEW k \in 1..n, k - 1 \in G PROVE k \in G
  <2> DEFINE x == h[k - 1]
             e == s[k]
             seen == upTo(k - 1)
  <2>1. k - 1 \in 0..n /\ k \in 0..n BY <1>1
  <2>2. BestItems(a, score, x, seen) BY <1>6
  <2>3. x \in Seq(D) /\ e \in D /\ Len(x) \in Nat BY <1>1, <1>3, <2>1, SMTT(30)
  <2>4. upTo(k) = seen \cup {e}
    <3>1. 1..k = (1..(k - 1)) \cup {k} BY <1>1
    <3> QED BY <3>1
  <2>5. \A y \in seen : Ahead(score, y, e)
    <3>1. SUFFICES ASSUME NEW j \in 1..(k - 1) PROVE Ahead(score, s[j], e) OBVIOUS
    <3>2. j \in 1..n /\ j < k BY <1>1
    <3> QED BY <1>4, <3>2
  <2>6. h[k] = IF Len(x) >= a.limit \/ SameTitle(a, x, e) THEN x ELSE Append(x, e) BY <1>3
  <2> HIDE DEF x, e, seen, upTo
  <2>7. ToSet(x) \subseteq seen BY <2>2 DEF BestItems
  <2>8. CASE Len(x) >= a.limit
    <3>1. h[k] = x /\ Len(x) = a.limit BY <2>2, <2>3, <2>6, <2>8 DEF BestItems
    <3>2. \A y \in ToSet(x) : Ahead(score, y, e) BY <2>5, <2>7
    <3>3. BestItems(a, score, x, seen \cup {e}) BY <2>2, <3>1, <3>2 DEF BestItems
    <3> QED BY <2>1, <2>4, <3>1, <3>3
  <2>9. CASE SameTitle(a, x, e)
    <3>1. h[k] = x BY <2>6, <2>9
    <3>2. Title(a, e) # BlankTitle
          /\ \E y \in ToSet(x) : Title(a, y) = Title(a, e) /\ Ahead(score, y, e)
      BY <2>5, <2>7, <2>9 DEF SameTitle
    <3>3. BestItems(a, score, x, seen \cup {e}) BY <2>2, <3>2 DEF BestItems
    <3> QED BY <2>1, <2>4, <3>1, <3>3
  <2>10. CASE ~(Len(x) >= a.limit) /\ ~SameTitle(a, x, e)
    <3> DEFINE r == Append(x, e)
    <3>1. h[k] = r BY <2>6, <2>10
    <3>2. r \in Seq(D) /\ Len(r) = Len(x) + 1 /\ ToSet(r) = ToSet(x) \cup {e}
      BY <2>3, AppendFacts
    <3>3. \A i \in 1..Len(x) : r[i] = x[i] BY <2>3
    <3>4. r[Len(x) + 1] = e BY <2>3
    <3>5. DOMAIN r = 1..(Len(x) + 1) /\ DOMAIN x = 1..Len(x) BY <2>3, <3>2
    <3> HIDE DEF r
    <3>6. Sorts(score, r)
      <4>1. SUFFICES ASSUME NEW i \in 1..(Len(x) + 1), NEW j \in 1..(Len(x) + 1), i < j
                     PROVE  Ahead(score, r[i], r[j])
        BY <3>5 DEF Sorts
      <4>2. i \in 1..Len(x) /\ r[i] = x[i] BY <2>3, <3>3, <4>1, SMTT(30)
      <4>3. CASE j \in 1..Len(x)
        <5>1. r[j] = x[j] /\ i \in DOMAIN x /\ j \in DOMAIN x BY <3>3, <3>5, <4>2, <4>3
        <5> QED BY <2>2, <4>1, <4>2, <5>1 DEF BestItems, Sorts
      <4>4. CASE j = Len(x) + 1
        <5>1. x[i] \in ToSet(x) BY <3>5, <4>2 DEF ToSet
        <5> QED BY <2>5, <2>7, <3>4, <4>2, <4>4, <5>1
      <4> QED BY <2>3, <4>3, <4>4, SMTT(30)
    <3>7. \A y, z \in ToSet(r) : Title(a, y) = Title(a, z) /\ Title(a, y) # BlankTitle => y = z
      <4>1. \A y \in ToSet(x) : Title(a, y) = Title(a, e) => Title(a, e) = BlankTitle
        BY <2>10 DEF SameTitle
      <4>2. \A y, z \in ToSet(x) : Title(a, y) = Title(a, z) /\ Title(a, y) # BlankTitle => y = z
        BY <2>2 DEF BestItems
      <4> QED BY <3>2, <4>1, <4>2
    <3>8. Len(r) <= a.limit BY <2>3, <2>10, <3>2
    <3>9. ToSet(r) \subseteq seen \cup {e} BY <2>7, <3>2
    <3>10. ASSUME NEW c \in (seen \cup {e}) \ ToSet(r)
           PROVE  Title(a, c) # BlankTitle
                  /\ \E y \in ToSet(r) : Title(a, y) = Title(a, c) /\ Ahead(score, y, c)
      <4>1. c \in seen \ ToSet(x) BY <3>2
      <4>2. Len(x) # a.limit BY <2>3, <2>10
      <4>3. Title(a, c) # BlankTitle
            /\ \E y \in ToSet(x) : Title(a, y) = Title(a, c) /\ Ahead(score, y, c)
        BY <2>2, <4>1, <4>2 DEF BestItems
      <4> QED BY <3>2, <4>3
    <3>11. BestItems(a, score, r, seen \cup {e})
      BY <3>2, <3>6, <3>7, <3>8, <3>9, <3>10 DEF BestItems
    <3> QED BY <2>1, <2>4, <3>1, <3>11
  <2> QED BY <2>8, <2>9, <2>10
<1>7. n \in G
  <2>1. \A k \in 1..n : k - 1 \in G => k \in G BY <1>6
  <2> HIDE DEF G
  <2>2. \A k \in 0..n : k \in G BY <1>1, <1>5, <2>1, Upwards
  <2> QED BY <1>1, <2>2
<1>8. upTo(n) = D BY <1>1 DEF ToSet
<1> QED BY <1>3, <1>7, <1>8

-----------------------------------------------------------------------------
(* The answer.                                                               *)

Scores(a) == [b \in DOMAIN a.candidates |-> Score(a, b, BestHit(a, b))]

LEMMA ScoresFacts ==
    ASSUME NEW a, Embedded(a)
    PROVE  /\ Scores(a) \in [DOMAIN a.candidates -> Int]
           /\ \A b \in DOMAIN a.candidates : BestHit(a, b) \in HitType \cup {Null}
<1>1. ASSUME NEW b \in DOMAIN a.candidates PROVE BestHit(a, b) \in HitType \cup {Null}
  <2>1. BestOf(a, b, Len(a.signals), BestHit(a, b)) BY BestHitFacts
  <2>2. \A n \in DOMAIN a.signals : Find(a, b, n) \in HitType BY FindFacts
  <2> QED BY <2>1, <2>2 DEF BestOf, Strongest, Finding
<1>2. ASSUME NEW b \in DOMAIN a.candidates PROVE Score(a, b, BestHit(a, b)) \in Int
  <2> DEFINE hit == BestHit(a, b)
             bid == a.candidates[b].bid
             match == a.candidates[b].match
  <2>1. bid \in Contents /\ match \in Judgements BY DEF Embedded
  <2>2. /\ IsFiniteSet(a.codes) /\ a.amounts \subseteq Nat \ {0} /\ IsFiniteSet(a.amounts)
        /\ a.at \in Nat
    BY DEF Embedded
  <2>3. hit \in HitType \cup {Null} BY <1>1
  <2>4. Score(a, b, hit) =
            35 * Interest(hit) + 25 * Eligibility(match)
          + 20 * Capability(a.codes, bid.licenses) + 10 * Scale(bid.budget, a.amounts)
          + 10 * Freshness(bid.closes, a.at)
    BY DEF Score
  <2> HIDE DEF hit, bid, match
  <2>5. /\ IsFiniteSet(bid.licenses) /\ bid.budget \in Nat \cup {Null}
        /\ bid.closes \in Nat \cup {Null}
    BY <2>1, TablesAssumption
  <2>6. Interest(hit) \in Int BY <2>3, InterestFacts
  <2>7. Eligibility(match) \in Int BY <2>1, EligibilityFacts
  <2>8. Capability(a.codes, bid.licenses) \in Int BY <2>2, <2>5, CapabilityFacts
  <2>9. Scale(bid.budget, a.amounts) \in Int BY <2>2, <2>5, ScaleFacts
  <2>10. Freshness(bid.closes, a.at) \in Int BY <2>2, <2>5, FreshnessFacts
  <2>11. Score(a, b, hit) \in Int BY <2>4, <2>6, <2>7, <2>8, <2>9, <2>10
  <2> QED BY <2>11 DEF hit
<1> QED BY <1>1, <1>2 DEF Scores

(* What a request is scored by.                                              *)
SameRequest(a, c) ==
    /\ a.candidates = c.candidates /\ a.signals = c.signals /\ a.vectors = c.vectors
    /\ a.codes = c.codes /\ a.amounts = c.amounts /\ a.at = c.at /\ a.limit = c.limit

LEMMA SameHits ==
    ASSUME NEW a, NEW c, SameRequest(a, c), NEW v
    PROVE  Hits(a, v) = Hits(c, v)
<1> DEFINE From(score, width) ==
             LET found == {b \in DOMAIN score : score[b] > 0}
             IN  {b \in found : Cardinality({x \in found : Ahead(score, x, b)}) < width}
           Of(x) == [b \in DOMAIN x.candidates |-> Cosine(v, x.candidates[b].bid.title)]
<1>1. Hits(a, v) = From(Of(a), Width(a)) /\ Hits(c, v) = From(Of(c), Width(c)) BY DEF Hits
<1>2. Of(a) = Of(c) BY DEF SameRequest
<1>3. Width(a) = Width(c) BY DEF SameRequest, Width
<1> HIDE DEF From, Of
<1> QED BY <1>1, <1>2, <1>3

LEMMA SameBest ==
    ASSUME NEW a, NEW c, Embedded(a), SameRequest(a, c), NEW b \in DOMAIN a.candidates
    PROVE  /\ Finding(c, b) = Finding(a, b) /\ \A n : Find(c, b, n) = Find(a, b, n)
           /\ BestHit(c, b) = BestHit(a, b)
<1>1. Embedded(c) /\ b \in DOMAIN c.candidates BY DEF Embedded, SameRequest
<1>2. Finding(c, b) = Finding(a, b)
  <2>1. \A n : Hits(c, a.vectors[n]) = Hits(a, a.vectors[n]) BY SameHits DEF SameRequest
  <2> QED BY <2>1 DEF Finding, SameRequest
<1>3. \A n : Find(c, b, n) = Find(a, b, n) BY DEF Find, SameRequest
<1>4. Len(c.signals) = Len(a.signals) BY DEF SameRequest
<1> DEFINE n == Len(a.signals)
<1>5. BestOf(a, b, n, BestHit(a, b)) /\ BestOf(c, b, n, BestHit(c, b))
  BY <1>1, <1>4, BestHitFacts
<1>6. \A k : Strongest(c, b, n, k) <=> Strongest(a, b, n, k) BY <1>2, <1>3 DEF Strongest
<1>7. ASSUME NEW k, NEW l, Strongest(a, b, n, k), Strongest(a, b, n, l) PROVE k = l
  <2>1. k \in Finding(a, b) /\ l \in Finding(a, b) /\ k <= n /\ l <= n BY <1>7 DEF Strongest
  <2>2. k \in Nat /\ l \in Nat BY <2>1 DEF Finding, Embedded
  <2>3. Worth(Find(a, b, k)) \in Nat /\ Worth(Find(a, b, l)) \in Nat
    BY <2>1, FindFacts DEF Finding
  <2>4. \/ Worth(Find(a, b, k)) < Worth(Find(a, b, l))
        \/ Worth(Find(a, b, k)) = Worth(Find(a, b, l)) /\ l <= k
    BY <1>7, <2>1 DEF Strongest
  <2>5. \/ Worth(Find(a, b, l)) < Worth(Find(a, b, k))
        \/ Worth(Find(a, b, l)) = Worth(Find(a, b, k)) /\ k <= l
    BY <1>7, <2>1 DEF Strongest
  <2> QED BY <2>2, <2>3, <2>4, <2>5
<1> HIDE DEF n
<1>8. BestHit(c, b) = BestHit(a, b)
  <2>1. CASE \E m \in Finding(a, b) : m <= n
    <3>1. PICK k : Strongest(a, b, n, k) /\ BestHit(a, b) = Find(a, b, k)
      BY <1>5, <2>1 DEF BestOf
    <3>2. PICK l : Strongest(c, b, n, l) /\ BestHit(c, b) = Find(c, b, l)
      BY <1>2, <1>5, <2>1 DEF BestOf
    <3>3. k = l BY <1>6, <1>7, <3>1, <3>2
    <3> QED BY <1>3, <3>1, <3>2, <3>3
  <2>2. CASE ~\E m \in Finding(a, b) : m <= n
    BY <1>2, <1>5, <2>2 DEF BestOf
  <2> QED BY <2>1, <2>2
<1> QED BY <1>2, <1>3, <1>8

LEMMA SameScores ==
    ASSUME NEW a, NEW c, Embedded(a), SameRequest(a, c)
    PROVE  Scores(c) = Scores(a)
<1>1. DOMAIN c.candidates = DOMAIN a.candidates BY DEF SameRequest
<1>2. ASSUME NEW b \in DOMAIN a.candidates
      PROVE  Score(c, b, BestHit(c, b)) = Score(a, b, BestHit(a, b))
  <2>1. BestHit(c, b) = BestHit(a, b) BY SameBest
  <2>2. \A hit : Score(c, b, hit) = Score(a, b, hit) BY DEF Score, SameRequest
  <2> QED BY <2>1, <2>2
<1> QED BY <1>1, <1>2 DEF Scores

AnswerType == [bid : Bids, score : Int, source : SourceNames \cup {Null}]

(* The answer shows these bids.                                              *)
Shows(a, items) ==
    /\ items \in Seq(DOMAIN a.candidates)
    /\ BestItems(a, Scores(a), items, DOMAIN a.candidates)
    /\ Answer(a) \in Seq(AnswerType) /\ Len(Answer(a)) = Len(items)
    /\ \A i \in 1..Len(items) :
          /\ Answer(a)[i].bid = items[i]
          /\ Answer(a)[i].source = IF BestHit(a, items[i]) = Null THEN Null
                                   ELSE BestHit(a, items[i]).source

LEMMA AnswerFacts ==
    ASSUME NEW a, Embedded(a)
    PROVE  \E items : Shows(a, items)
<1> DEFINE D == DOMAIN a.candidates
           hit == [b \in D |-> BestHit(a, b)]
           score == [b \in D |-> Score(a, b, hit[b])]
           ranked == Ranked(a, score)
           items == Items(a, ranked)
           row(i) == [bid |-> items[i], score |-> score[items[i]],
                      source |-> IF hit[items[i]] = Null THEN Null ELSE hit[items[i]].source]
<1>1. Answer(a) = [i \in DOMAIN items |-> row(i)] BY DEF Answer
<1>2. score = Scores(a) BY DEF Scores
<1>3. D \in SUBSET Bids /\ D \in SUBSET Nat /\ IsFiniteSet(D) /\ a.limit \in Nat
  BY BidsFinite, FS_Subset DEF Embedded
<1>4. \A b \in D : hit[b] = BestHit(a, b) /\ hit[b] \in HitType \cup {Null} BY ScoresFacts
<1> HIDE DEF hit, score
<1>5. score \in [D -> Int] BY <1>2, ScoresFacts
<1>6. ranked \in Seq(D) /\ ToSet(ranked) = D /\ Sorts(score, ranked)
  BY <1>3, <1>5, RankedFacts
<1> HIDE DEF ranked
<1>7. BestItems(a, score, items, D) BY <1>3, <1>5, <1>6, ItemsFacts
<1>8. items \in Seq(D) BY <1>7 DEF BestItems
<1> HIDE DEF items
<1>9. Len(items) \in Nat /\ DOMAIN items = 1..Len(items) /\ \A i \in 1..Len(items) : items[i] \in D
  BY <1>8
<1> HIDE DEF D
<1>10. \A i \in 1..Len(items) : row(i) \in AnswerType
  <2>1. SUFFICES ASSUME NEW b \in D
        PROVE  [bid |-> b, score |-> score[b],
                source |-> IF hit[b] = Null THEN Null ELSE hit[b].source] \in AnswerType
    BY <1>9
  <2>2. b \in Bids /\ score[b] \in Int BY <1>3, <1>5
  <2>3. (IF hit[b] = Null THEN Null ELSE hit[b].source) \in SourceNames \cup {Null}
    BY <1>4 DEF HitType
  <2> QED BY <2>2, <2>3 DEF AnswerType
<1> DEFINE answer == [i \in 1..Len(items) |-> row(i)]
<1>11. \A i \in 1..Len(items) :
          /\ answer[i].bid = items[i]
          /\ answer[i].source = IF BestHit(a, items[i]) = Null THEN Null
                                ELSE BestHit(a, items[i]).source
  BY <1>4, <1>9
<1> HIDE DEF row
<1>12. answer \in Seq(AnswerType) /\ Len(answer) = Len(items) BY <1>9, <1>10
<1>13. Answer(a) = answer BY <1>1, <1>9
<1> HIDE DEF answer
<1>14. Shows(a, items) BY <1>2, <1>7, <1>8, <1>11, <1>12, <1>13 DEF Shows, D
<1> QED BY <1>14

-----------------------------------------------------------------------------
(* The requests.                                                             *)

Phases == {"new", "reading", "looking", "embedding", "searching", "scoring", "done",
           "unavailable"}
CandidateType == UNION {[D -> [bid : Contents, match : Judgements]] : D \in SUBSET Bids}
CodesType == UNION {SUBSET p.codes : p \in Profiles}
AmountsType == UNION {SUBSET p.amounts : p \in Profiles}
AskRecord ==
    [phase : Phases, limit : Limits \cup {0}, at : 0..MaxTime, select : Selects,
     candidates : CandidateType, signals : Seq(SignalType), codes : CodesType,
     amounts : AmountsType, vectors : Seq(Phrases \cup {Null}), missing : Seq(Phrases),
     answer : Seq(AnswerType)]

LEMMA AskTypeIs == AskType = AskRecord
BY DEF AskType, AskRecord, Phases, CandidateType, CodesType, AmountsType, SignalType, AnswerType

(* What was found, from the request as it was scored.                        *)
Answered(a) == \E q : Embedded(q) /\ SameRequest(q, a) /\ a.answer = Answer(q)

(* A request holds the vector of each of its texts, or asked for it.         *)
AskGood(a) ==
    /\ a \in AskRecord
    /\ \A b \in DOMAIN a.candidates : a.candidates[b].bid.title # Null
    /\ 0 \notin a.amounts
    /\ a.phase = "reading" => a.select # 1
    /\ a.phase \in {"new", "reading", "looking"} => a.vectors = <<>>
    /\ a.phase = "embedding" =>
          /\ Len(a.vectors) = Len(a.signals)
          /\ \A i \in DOMAIN a.signals :
                a.signals[i].text \in ToSet(a.missing) \/ a.vectors[i] = a.signals[i].text
    /\ a.phase \in {"searching", "scoring", "done"} => a.vectors = TextsOf(a)
    /\ a.phase = "done" => (a.candidates = <<>> /\ a.answer = <<>>) \/ Answered(a)

AskInv ==
    /\ cache \in Caches /\ Len(cache) <= CacheSize
    /\ ask \in [Requests -> AskRecord]
    /\ \A q \in Requests : AskGood(ask[q])

LEMMA TextsOfFacts ==
    ASSUME NEW a, a.signals \in Seq(SignalType)
    PROVE  /\ TextsOf(a) \in Seq(Phrases) /\ Len(TextsOf(a)) = Len(a.signals)
           /\ DOMAIN TextsOf(a) = 1..Len(a.signals) /\ DOMAIN a.signals = 1..Len(a.signals)
           /\ \A i \in 1..Len(a.signals) : TextsOf(a)[i] = a.signals[i].text
           /\ a.signals = <<>> => TextsOf(a) = <<>>
<1> DEFINE n == Len(a.signals)
           t == [i \in 1..n |-> a.signals[i].text]
<1>1. n \in Nat /\ DOMAIN a.signals = 1..n /\ \A i \in 1..n : a.signals[i] \in SignalType
  OBVIOUS
<1>2. TextsOf(a) = t BY <1>1 DEF TextsOf
<1> HIDE DEF n
<1>3. \A i \in 1..n : a.signals[i].text \in Phrases BY <1>1 DEF SignalType
<1>4. t \in Seq(Phrases) /\ Len(t) = n /\ DOMAIN t = 1..n BY <1>1, <1>3
<1>5. n = 0 => t = <<>>
  <2> HIDE DEF t
  <2> QED BY <1>4, EmptySeq
<1>6. a.signals = <<>> => n = 0 BY DEF n
<1> QED BY <1>1, <1>2, <1>4, <1>5, <1>6 DEF n

LEMMA CandidatesFacts ==
    ASSUME TablesOK, NEW t
    PROVE  /\ Candidates(t) \in CandidateType
           /\ \A b \in DOMAIN Candidates(t) : Candidates(t)[b].bid.title # Null
<1> DEFINE D == {c \in Bids : Candidate(c, t)}
<1>1. \A b \in D : /\ bids[b] \in Contents /\ matches[b] \in Judgements /\ bids[b].title # Null
  BY DEF Candidate, Visible, Merged, TablesOK
<1>2. D \in SUBSET Bids OBVIOUS
<1>3. Candidates(t) = [b \in D |-> [bid |-> bids[b], match |-> matches[b]]] BY DEF Candidates
<1> HIDE DEF D
<1>4. Candidates(t) \in [D -> [bid : Contents, match : Judgements]] BY <1>1, <1>3
<1>5. Candidates(t) \in CandidateType BY <1>2, <1>4 DEF CandidateType
<1> QED BY <1>1, <1>3, <1>5

LEMMA EmbeddedFacts ==
    ASSUME NEW a, AskGood(a), a.vectors = TextsOf(a)
    PROVE  Embedded(a)
<1>1. /\ a.candidates \in CandidateType /\ a.signals \in Seq(SignalType) /\ a.codes \in CodesType
      /\ a.amounts \in AmountsType /\ a.limit \in Limits \cup {0} /\ a.at \in 0..MaxTime
      /\ 0 \notin a.amounts /\ \A b \in DOMAIN a.candidates : a.candidates[b].bid.title # Null
  BY DEF AskGood, AskRecord
<1>2. PICK D \in SUBSET Bids : a.candidates \in [D -> [bid : Contents, match : Judgements]]
  BY <1>1 DEF CandidateType
<1>3. DOMAIN a.candidates = D BY <1>2
<1>4. ASSUME NEW b \in D
      PROVE  /\ a.candidates[b].bid \in Contents /\ a.candidates[b].match \in Judgements
             /\ a.candidates[b].bid.title \in Phrases
  <2>1. a.candidates[b].bid \in Contents /\ a.candidates[b].match \in Judgements BY <1>2
  <2>2. a.candidates[b].bid.title # Null BY <1>1, <1>3
  <2> QED BY <2>1, <2>2 DEF Phrases
<1>5. IsFiniteSet(a.codes)
  <2>1. PICK p \in Profiles : a.codes \in SUBSET p.codes BY <1>1 DEF CodesType
  <2>2. IsFiniteSet(p.codes) BY TablesAssumption
  <2> QED BY <2>1, <2>2, FS_Subset
<1>6. IsFiniteSet(a.amounts) /\ a.amounts \subseteq Nat \ {0}
  <2>1. PICK p \in Profiles : a.amounts \in SUBSET p.amounts BY <1>1 DEF AmountsType
  <2>2. IsFiniteSet(p.amounts) /\ p.amounts \subseteq Nat BY TablesAssumption
  <2>3. IsFiniteSet(a.amounts) BY <2>1, <2>2, FS_Subset
  <2> QED BY <1>1, <2>1, <2>2, <2>3
<1>7. a.limit \in Nat /\ a.at \in Nat
  <2>1. Limits \subseteq Nat BY RecommendationsAssumption
  <2>2. a.limit \in Limits \cup {0} /\ a.at \in 0..MaxTime BY <1>1
  <2>3. a.limit \in Nat
    <3>1. \A k \in Limits \cup {0} : k \in Nat BY <2>1
    <3> QED BY <2>2, <3>1
  <2>4. a.at \in Nat
    <3>1. MaxTime \in Nat BY TablesAssumption
    <3> QED BY <2>2, <3>1
  <2> QED BY <2>3, <2>4
<1>8. a.vectors \in Seq(Phrases) /\ Len(a.vectors) = Len(a.signals)
  BY <1>1, TextsOfFacts
<1> QED BY <1>1, <1>2, <1>3, <1>4, <1>5, <1>6, <1>7, <1>8 DEF Embedded

(* A step of one request leaves the others.                                  *)
LEMMA SetFacts ==
    ASSUME ask \in [Requests -> AskRecord], \A q \in Requests : AskGood(ask[q]),
           NEW r \in Requests, NEW a, AskGood(a), Set(r, a)
    PROVE  /\ ask' \in [Requests -> AskRecord]
           /\ \A q \in Requests : AskGood(ask'[q])
<1>1. ask' = [ask EXCEPT ![r] = a] BY DEF Set
<1>2. a \in AskRecord BY DEF AskGood
<1> HIDE DEF AskRecord, AskGood
<1>3. ask' \in [Requests -> AskRecord] BY <1>1, <1>2
<1>4. \A q \in Requests : ask'[q] = IF q = r THEN a ELSE ask[q] BY <1>1
<1> QED BY <1>3, <1>4

LEMMA FieldFacts ==
    ASSUME NEW a \in AskRecord
    PROVE  /\ a.phase \in Phases /\ a.select \in Selects
           /\ a.signals \in Seq(SignalType) /\ a.vectors \in Seq(Phrases \cup {Null})
           /\ a.missing \in Seq(Phrases)
BY DEF AskRecord

LEMMA ProfileSets ==
    ASSUME TablesOK
    PROVE  profile.codes \in CodesType /\ profile.amounts \ {0} \in AmountsType
<1>1. profile \in Profiles BY DEF TablesOK
<1> QED BY <1>1 DEF CodesType, AmountsType

LEMMA NewFacts ==
    ASSUME NEW p \in Profiles
    PROVE  /\ AskGood(New) /\ New \in AskRecord /\ New.amounts = {} /\ New.vectors = <<>>
           /\ New.signals = <<>> /\ New.answer = <<>>
<1>1. New \in AskRecord
  <2>1. /\ "new" \in Phases /\ 0 \in Limits \cup {0} /\ 1 \in Selects /\ 0 \in 0..MaxTime
        /\ {} \in CodesType /\ {} \in AmountsType
    BY TablesAssumption DEF Phases, Selects, CodesType, AmountsType
  <2>2. /\ <<>> \in Seq(SignalType) /\ <<>> \in Seq(Phrases \cup {Null}) /\ <<>> \in Seq(Phrases)
        /\ <<>> \in Seq(AnswerType)
    OBVIOUS
  <2>3. <<>> \in CandidateType
    <3>1. <<>> \in [{} -> [bid : Contents, match : Judgements]] OBVIOUS
    <3>2. {} \in SUBSET Bids OBVIOUS
    <3> QED BY <3>1, <3>2 DEF CandidateType
  <2> QED BY <2>1, <2>2, <2>3 DEF New, AskRecord
<1>2. /\ New.phase = "new" /\ New.candidates = <<>> /\ New.amounts = {} /\ New.vectors = <<>>
      /\ New.signals = <<>> /\ New.answer = <<>>
  BY DEF New
<1>3. DOMAIN <<>> = {} OBVIOUS
<1>4. AskGood(New) BY <1>1, <1>2, <1>3 DEF AskGood
<1> QED BY <1>1, <1>2, <1>4

LEMMA BeginStep ==
    ASSUME AskInv, TablesOK, NEW r \in Requests, NEW limit \in Limits, Begin(r, limit)
    PROVE  AskInv'
<1> DEFINE cs == Candidates(now)
           a == [New EXCEPT !.limit = limit, !.at = now, !.candidates = cs]
           x == IF a.candidates = <<>> THEN [a EXCEPT !.phase = "done"]
                ELSE [a EXCEPT !.phase = "reading", !.select = 2]
<1>1. Set(r, x) /\ UNCHANGED cache BY DEF Begin
<1>2. /\ cs \in CandidateType /\ \A b \in DOMAIN cs : cs[b].bid.title # Null
  BY CandidatesFacts
<1>3. now \in 0..MaxTime BY DEF TablesOK
<1>4. profile \in Profiles BY DEF TablesOK
<1>5. /\ New \in AskRecord /\ New.amounts = {} /\ New.vectors = <<>> /\ New.signals = <<>>
      /\ New.answer = <<>>
  BY <1>4, NewFacts
<1> HIDE DEF cs
<1>6. a \in AskRecord BY <1>2, <1>3, <1>5 DEF AskRecord
<1>7. /\ a.candidates = cs /\ a.amounts = {} /\ a.vectors = <<>> /\ a.signals = <<>>
      /\ a.answer = <<>>
  BY <1>5 DEF AskRecord
<1> HIDE DEF a
<1>8. CASE a.candidates = <<>>
  <2>1. x = [a EXCEPT !.phase = "done"] BY <1>8
  <2>2. x \in AskRecord BY <1>6, <2>1 DEF AskRecord, Phases
  <2>3. /\ x.phase = "done" /\ x.candidates = cs /\ x.amounts = {} /\ x.vectors = <<>>
        /\ x.signals = <<>> /\ x.answer = <<>>
    BY <1>6, <1>7, <2>1 DEF AskRecord
  <2> HIDE DEF x
  <2>4. TextsOf(x) = <<>> BY <2>2, <2>3, FieldFacts, TextsOfFacts
  <2>5. AskGood(x) BY <1>2, <1>7, <1>8, <2>2, <2>3, <2>4 DEF AskGood
  <2> QED BY <1>1, <2>5, SetFacts DEF AskInv
<1>9. CASE a.candidates # <<>>
  <2>1. x = [a EXCEPT !.phase = "reading", !.select = 2] BY <1>9
  <2>2. x \in AskRecord
    <3>1. "reading" \in Phases /\ 2 \in Selects BY DEF Phases, Selects
    <3> QED BY <1>6, <2>1, <3>1 DEF AskRecord
  <2>3. /\ x.phase = "reading" /\ x.select = 2 /\ x.candidates = cs /\ x.amounts = {}
        /\ x.vectors = <<>>
    BY <1>6, <1>7, <2>1 DEF AskRecord
  <2> HIDE DEF x
  <2>4. AskGood(x) BY <1>2, <2>2, <2>3 DEF AskGood
  <2> QED BY <1>1, <2>4, SetFacts DEF AskInv
<1> QED BY <1>8, <1>9

LEMMA SelectTextsStep ==
    ASSUME AskInv, TablesOK, NEW r \in Requests, SelectTexts(r)
    PROVE  AskInv'
<1> DEFINE a == ask[r]
           source == Sources[a.select - 1]
<1>1. AskGood(a) /\ a \in AskRecord BY DEF AskInv, AskGood
<1>2. a.phase = "reading" /\ a.select <= 5 /\ UNCHANGED cache BY DEF SelectTexts
<1>3. PICK texts \in Texts(source) :
         Set(r, [a EXCEPT !.select = @ + 1, !.signals = @ \o Signals(texts, source)])
  BY DEF SelectTexts
<1>4. a.select \in 2..5 BY <1>1, <1>2, FieldFacts DEF AskGood, Selects
<1>5. source \in SourceNames BY <1>4 DEF Sources, SourceNames
<1> HIDE DEF source
<1>6. texts \in Seq(Phrases) BY <1>3, <1>5, TextsFacts
<1>7. a.signals \o Signals(texts, source) \in Seq(SignalType)
  <2>1. a.signals \in Seq(SignalType) /\ Signals(texts, source) \in Seq(SignalType)
    BY <1>1, <1>5, <1>6, FieldFacts, SignalsFacts
  <2> QED BY <2>1, ConcatProperties
<1> DEFINE sg == a.signals \o Signals(texts, source)
           x == [a EXCEPT !.select = @ + 1, !.signals = @ \o Signals(texts, source)]
<1>8. x = [a EXCEPT !.select = a.select + 1, !.signals = sg] OBVIOUS
<1>9. a.select + 1 \in Selects /\ a.select + 1 # 1 BY <1>4 DEF Selects
<1>10. Set(r, x) BY <1>3
<1> HIDE DEF sg, x, a
<1>11. x \in AskRecord BY <1>1, <1>7, <1>8, <1>9 DEF AskRecord, sg
<1>12. /\ x.phase = "reading" /\ x.select = a.select + 1 /\ x.candidates = a.candidates
       /\ x.amounts = a.amounts /\ x.vectors = a.vectors
  BY <1>1, <1>2, <1>8 DEF AskRecord
<1>13. AskGood(x) BY <1>1, <1>2, <1>9, <1>11, <1>12 DEF AskGood
<1> QED BY <1>2, <1>10, <1>13, SetFacts DEF AskInv

LEMMA SelectCodesStep ==
    ASSUME AskInv, TablesOK, NEW r \in Requests, SelectCodes(r)
    PROVE  AskInv'
<1> DEFINE a == ask[r]
           n == Least(MaxSignals, Len(a.signals))
           x == [a EXCEPT !.select = 7, !.codes = profile.codes,
                     !.signals = SubSeq(a.signals, 1, n)]
<1>1. AskGood(a) /\ a \in AskRecord BY DEF AskInv, AskGood
<1>2. a.phase = "reading" /\ Set(r, x) /\ UNCHANGED cache BY DEF SelectCodes
<1>3. a.signals \in Seq(SignalType) BY <1>1, FieldFacts
<1>4. n \in 0..Len(a.signals)
  <2>1. MaxSignals \in Nat /\ Len(a.signals) \in Nat BY <1>3, RecommendationsAssumption
  <2> QED BY <2>1, MaxOfTwo
<1> HIDE DEF a, n
<1>5. SubSeq(a.signals, 1, n) \in Seq(SignalType) BY <1>3, <1>4, SubSeqFacts
<1>6. profile.codes \in CodesType BY ProfileSets
<1>7. x \in AskRecord
  <2>1. 7 \in Selects BY DEF Selects
  <2> QED BY <1>1, <1>5, <1>6, <2>1 DEF AskRecord
<1>8. /\ x.phase = "reading" /\ x.select = 7 /\ x.candidates = a.candidates
      /\ x.amounts = a.amounts /\ x.vectors = a.vectors
  BY <1>1, <1>2 DEF AskRecord
<1> HIDE DEF x
<1>9. AskGood(x) BY <1>1, <1>2, <1>7, <1>8 DEF AskGood
<1> QED BY <1>2, <1>9, SetFacts DEF AskInv

LEMMA SelectAmountsStep ==
    ASSUME AskInv, TablesOK, NEW r \in Requests, SelectAmounts(r)
    PROVE  AskInv'
<1> DEFINE a == ask[r]
           ph == IF a.signals = <<>> THEN "scoring" ELSE "looking"
           am == profile.amounts \ {0}
           x == [a EXCEPT !.phase = ph, !.amounts = am]
<1>1. AskGood(a) /\ a \in AskRecord BY DEF AskInv, AskGood
<1>2. a.phase = "reading" /\ Set(r, x) /\ UNCHANGED cache BY DEF SelectAmounts
<1>3. am \in AmountsType /\ 0 \notin am BY ProfileSets
<1>4. ph \in Phases BY DEF Phases
<1>5. ph \in {"scoring", "looking"} /\ (ph = "scoring" => a.signals = <<>>) OBVIOUS
<1> HIDE DEF a, ph, am
<1>6. x \in AskRecord BY <1>1, <1>3, <1>4 DEF AskRecord
<1>7. /\ x.phase = ph /\ x.candidates = a.candidates /\ x.amounts = am /\ x.vectors = a.vectors
      /\ x.signals = a.signals
  BY <1>1 DEF AskRecord
<1> HIDE DEF x
<1>8. ph = "scoring" => TextsOf(x) = <<>>
  BY <1>5, <1>6, <1>7, FieldFacts, TextsOfFacts
<1>9. AskGood(x) BY <1>1, <1>2, <1>3, <1>5, <1>6, <1>7, <1>8 DEF AskGood
<1> QED BY <1>2, <1>9, SetFacts DEF AskInv

LEMMA LookUpStep ==
    ASSUME AskInv, NEW r \in Requests, LookUp(r)
    PROVE  AskInv'
<1> DEFINE a == ask[r]
           texts == TextsOf(a)
           n == Len(a.signals)
           missing == Distinct(texts, Cached)
           vectors == [i \in DOMAIN texts |-> IF texts[i] \in Cached THEN VectorOf(texts[i])
                                              ELSE Null]
           ph == IF missing = <<>> THEN "searching" ELSE "embedding"
           x == [a EXCEPT !.vectors = vectors, !.missing = missing, !.phase = ph]
<1>1. AskGood(a) /\ a \in AskRecord BY DEF AskInv, AskGood
<1>2. Set(r, x) /\ cache' = Touch(texts) BY DEF LookUp
<1>3. a.signals \in Seq(SignalType) BY <1>1, FieldFacts
<1> HIDE DEF a
<1>4. /\ texts \in Seq(Phrases) /\ Len(texts) = n /\ n \in Nat
      /\ DOMAIN texts = 1..n /\ DOMAIN a.signals = 1..n
      /\ \A i \in 1..n : texts[i] = a.signals[i].text
  BY <1>3, TextsOfFacts
<1> HIDE DEF texts, n
<1>5. cache' \in Caches /\ Len(cache') <= CacheSize BY <1>2, <1>4, TouchFacts DEF AskInv
<1>6. \A t \in Cached : VectorOf(t) = t BY VectorFacts DEF AskInv
<1>7. missing \in Seq(Phrases) /\ ToSet(missing) = ToSet(texts) \ Cached
  BY <1>4, DistinctFacts
<1>8. \A i \in 1..n : texts[i] \in Phrases BY <1>4
<1>9. \A i \in 1..n : vectors[i] = IF texts[i] \in Cached THEN texts[i] ELSE Null
  BY <1>4, <1>6
<1>10. DOMAIN vectors = 1..n BY <1>4
<1>11. vectors \in [1..n -> Phrases \cup {Null}]
  <2>1. vectors = [i \in 1..n |-> vectors[i]] BY <1>4
  <2>2. \A i \in 1..n : vectors[i] \in Phrases \cup {Null} BY <1>8, <1>9
  <2> HIDE DEF vectors
  <2> QED BY <2>1, <2>2
<1> HIDE DEF missing, vectors
<1>12. vectors \in Seq(Phrases \cup {Null}) /\ Len(vectors) = n BY <1>4, <1>11
<1>13. ph \in Phases /\ ph \in {"searching", "embedding"} /\ (ph = "searching" => missing = <<>>)
  BY DEF Phases
<1> HIDE DEF ph
<1>14. x \in AskRecord BY <1>1, <1>7, <1>12, <1>13 DEF AskRecord
<1>15. /\ x.phase = ph /\ x.candidates = a.candidates /\ x.amounts = a.amounts
       /\ x.vectors = vectors /\ x.missing = missing /\ x.signals = a.signals
  BY <1>1 DEF AskRecord
<1> HIDE DEF x
<1>16. \A i \in 1..n : texts[i] \in ToSet(missing) \/ vectors[i] = texts[i]
  <2>1. \A i \in 1..n : texts[i] \in ToSet(texts) BY <1>4 DEF ToSet
  <2> QED BY <1>7, <1>9, <2>1
<1>17. ph = "searching" => vectors = texts
  <2>1. SUFFICES ASSUME ph = "searching" PROVE vectors = texts OBVIOUS
  <2>2. ToSet(missing) = {} BY <1>13, <2>1 DEF ToSet
  <2>3. \A i \in 1..n : vectors[i] = texts[i] BY <1>16, <2>2
  <2>4. texts = [i \in 1..n |-> texts[i]] BY <1>4
  <2>5. vectors = [i \in 1..n |-> vectors[i]] BY <1>11
  <2> QED BY <2>3, <2>4, <2>5
<1>18. TextsOf(x) = texts BY <1>15 DEF TextsOf, texts
<1>19. ph = "embedding" => /\ Len(x.vectors) = Len(x.signals)
                           /\ \A i \in DOMAIN x.signals : x.signals[i].text \in ToSet(x.missing)
                                                          \/ x.vectors[i] = x.signals[i].text
  BY <1>4, <1>12, <1>15, <1>16 DEF n
<1>20. AskGood(x) BY <1>1, <1>13, <1>14, <1>15, <1>17, <1>18, <1>19 DEF AskGood
<1> QED BY <1>2, <1>5, <1>20, SetFacts DEF AskInv

LEMMA EmbedStep ==
    ASSUME AskInv, NEW r \in Requests, Embed(r)
    PROVE  AskInv'
<1> DEFINE a == ask[r]
           texts == TextsOf(a)
           n == Len(a.signals)
           vectors == [i \in DOMAIN texts |->
                         IF texts[i] \in ToSet(a.missing)
                         THEN a.missing[SelectInSeq(a.missing, LAMBDA t : t = texts[i])]
                         ELSE a.vectors[i]]
           x == [a EXCEPT !.vectors = vectors, !.missing = <<>>, !.phase = "searching"]
<1>1. AskGood(a) /\ a \in AskRecord BY DEF AskInv, AskGood
<1>2. a.phase = "embedding" /\ Set(r, x) /\ cache' = Put(a.missing, a.missing) BY DEF Embed
<1>3. a.signals \in Seq(SignalType) /\ a.missing \in Seq(Phrases) BY <1>1, FieldFacts
<1>4. cache' \in Caches /\ Len(cache') <= CacheSize BY <1>2, <1>3, PutFacts DEF AskInv
<1> HIDE DEF a
<1>5. /\ texts \in Seq(Phrases) /\ Len(texts) = n /\ n \in Nat
      /\ DOMAIN texts = 1..n /\ DOMAIN a.signals = 1..n
      /\ \A i \in 1..n : texts[i] = a.signals[i].text
  BY <1>3, TextsOfFacts
<1> HIDE DEF texts, n
<1>6. \A t \in ToSet(a.missing) : a.missing[SelectInSeq(a.missing, LAMBDA v : v = t)] = t
  BY <1>3, PositionFacts
<1>7. \A i \in 1..n : texts[i] \in ToSet(a.missing) \/ a.vectors[i] = texts[i]
  BY <1>1, <1>2, <1>5 DEF AskGood
<1>8. \A i \in 1..n : vectors[i] = texts[i] BY <1>5, <1>6, <1>7
<1>9. vectors = texts
  <2>1. vectors = [i \in 1..n |-> vectors[i]] BY <1>5
  <2>2. texts = [i \in 1..n |-> texts[i]] BY <1>5
  <2> HIDE DEF vectors
  <2> QED BY <1>8, <2>1, <2>2
<1> HIDE DEF vectors
<1>10. texts \in Seq(Phrases \cup {Null}) BY <1>5, SeqMonotonic
<1>11. x \in AskRecord
  <2>1. "searching" \in Phases /\ <<>> \in Seq(Phrases) BY DEF Phases
  <2> QED BY <1>1, <1>9, <1>10, <2>1 DEF AskRecord
<1>12. /\ x.phase = "searching" /\ x.candidates = a.candidates /\ x.amounts = a.amounts
       /\ x.vectors = texts /\ x.signals = a.signals
  BY <1>1, <1>9 DEF AskRecord
<1> HIDE DEF x
<1>13. TextsOf(x) = texts BY <1>12 DEF TextsOf, texts
<1>14. AskGood(x) BY <1>1, <1>11, <1>12, <1>13 DEF AskGood
<1> QED BY <1>2, <1>4, <1>14, SetFacts DEF AskInv

LEMMA SearchStep ==
    ASSUME AskInv, NEW r \in Requests, SearchTitles(r) \/ SearchFails(r)
    PROVE  AskInv'
<1> DEFINE a == ask[r]
<1>1. AskGood(a) /\ a \in AskRecord BY DEF AskInv, AskGood
<1>2. UNCHANGED cache BY DEF SearchTitles, SearchFails
<1>3. PICK ph \in {"scoring", "unavailable"} :
         /\ Set(r, [a EXCEPT !.phase = ph]) /\ (ph = "scoring" => a.phase = "searching")
  BY DEF SearchTitles, SearchFails
<1> DEFINE x == [a EXCEPT !.phase = ph]
<1>4. Set(r, x) BY <1>3
<1> HIDE DEF a
<1>5. x \in AskRecord
  <2>1. ph \in Phases BY DEF Phases
  <2> QED BY <1>1, <2>1 DEF AskRecord
<1>6. /\ x.phase = ph /\ x.candidates = a.candidates /\ x.amounts = a.amounts
      /\ x.vectors = a.vectors /\ x.signals = a.signals
  BY <1>1 DEF AskRecord
<1> HIDE DEF x
<1>7. TextsOf(x) = TextsOf(a) BY <1>6 DEF TextsOf
<1>8. AskGood(x) BY <1>1, <1>3, <1>5, <1>6, <1>7 DEF AskGood
<1> QED BY <1>2, <1>4, <1>8, SetFacts DEF AskInv

LEMMA ReplyStep ==
    ASSUME AskInv, NEW r \in Requests, Reply(r)
    PROVE  AskInv'
<1> DEFINE a == ask[r]
           x == [a EXCEPT !.phase = "done", !.answer = Answer(a)]
<1>1. AskGood(a) /\ a \in AskRecord BY DEF AskInv, AskGood
<1>2. a.phase = "scoring" /\ Set(r, x) /\ UNCHANGED cache BY DEF Reply
<1> HIDE DEF a
<1>3. a.vectors = TextsOf(a) BY <1>1, <1>2 DEF AskGood
<1>4. Embedded(a) BY <1>1, <1>3, EmbeddedFacts
<1>5. Answer(a) \in Seq(AnswerType)
  <2>1. PICK items : Shows(a, items) BY <1>4, AnswerFacts
  <2> QED BY <2>1 DEF Shows
<1> DEFINE answer == Answer(a)
<1>6. x = [a EXCEPT !.phase = "done", !.answer = answer] /\ answer \in Seq(AnswerType) BY <1>5
<1> HIDE DEF x, answer
<1>7. x \in AskRecord
  <2>1. "done" \in Phases BY DEF Phases
  <2> QED BY <1>1, <1>6, <2>1 DEF AskRecord
<1>8. /\ x.phase = "done" /\ x.candidates = a.candidates /\ x.amounts = a.amounts
      /\ x.vectors = a.vectors /\ x.signals = a.signals /\ x.codes = a.codes /\ x.at = a.at
      /\ x.limit = a.limit /\ x.answer = answer
  BY <1>1, <1>6 DEF AskRecord
<1>9. TextsOf(x) = TextsOf(a) BY <1>8 DEF TextsOf
<1>10. Answered(x)
  <2>1. SameRequest(a, x) BY <1>8 DEF SameRequest
  <2> QED BY <1>4, <1>8, <2>1 DEF Answered, answer
<1>11. AskGood(x) BY <1>1, <1>3, <1>7, <1>8, <1>9, <1>10 DEF AskGood
<1> QED BY <1>2, <1>11, SetFacts DEF AskInv

LEMMA InitAsks == Init => AskInv
<1> SUFFICES ASSUME Init PROVE AskInv OBVIOUS
<1>1. PICK start \in Starts : profile = start.profile BY DEF Init, TablesInit
<1>2. profile \in Profiles BY <1>1, TablesAssumption
<1>3. AskGood(New) /\ New \in AskRecord BY <1>2, NewFacts
<1>4. cache = <<>> /\ ask = [r \in Requests |-> New] BY DEF Init, AskInit
<1>5. <<>> \in Caches /\ Len(<<>>) <= CacheSize
  <2>1. <<>> \in Seq(Entries) /\ IsInjective(<<>>) /\ Len(<<>>) = 0 BY DEF IsInjective
  <2>2. CacheSize \in Nat BY RecommendationsAssumption
  <2> QED BY <2>1, <2>2 DEF Caches
<1> QED BY <1>3, <1>4, <1>5 DEF AskInv

LEMMA NextAsks == ReadInv /\ AskInv /\ [Next]_vars => AskInv'
<1>1. SUFFICES ASSUME ReadInv, AskInv, [Next]_vars PROVE AskInv' OBVIOUS
<1>2. TablesOK BY <1>1 DEF ReadInv, ListTypes
<1>3. ASSUME UNCHANGED askVars PROVE AskInv' BY <1>1, <1>3 DEF AskInv, askVars
<1>4. CASE TablesNext /\ UNCHANGED <<listVars, askVars>> BY <1>3, <1>4
<1>5. CASE ~Asking /\ ListsNext /\ UNCHANGED askVars BY <1>3, <1>5
<1>6. CASE ~Walking /\ (\E r \in Requests : AskStep(r)) /\ UNCHANGED listVars
  <2>1. PICK r \in Requests : AskStep(r) BY <1>6
  <2>2. CASE SelectTexts(r) BY <1>1, <1>2, <2>2, SelectTextsStep
  <2>3. CASE SelectCodes(r) BY <1>1, <1>2, <2>3, SelectCodesStep
  <2>4. CASE SelectAmounts(r) BY <1>1, <1>2, <2>4, SelectAmountsStep
  <2>5. CASE LookUp(r) BY <1>1, <2>5, LookUpStep
  <2>6. CASE Embed(r) BY <1>1, <2>6, EmbedStep
  <2>7. CASE SearchTitles(r) \/ SearchFails(r) BY <1>1, <2>7, SearchStep
  <2>8. CASE Reply(r) BY <1>1, <2>8, ReplyStep
  <2> QED BY <2>1, <2>2, <2>3, <2>4, <2>5, <2>6, <2>7, <2>8 DEF AskStep
<1>7. CASE ~Walking /\ ~Reading /\ AskBegins /\ UNCHANGED listVars
  <2>1. PICK r \in Requests, limit \in Limits : Begin(r, limit) BY <1>7 DEF AskBegins
  <2> QED BY <1>1, <1>2, <2>1, BeginStep
<1>8. CASE Finished BY <1>3, <1>8 DEF Finished, vars, askVars
<1>9. CASE UNCHANGED vars BY <1>3, <1>9 DEF vars, askVars
<1> QED BY <1>1, <1>4, <1>5, <1>6, <1>7, <1>8, <1>9 DEF Next

LEMMA AsksInvariant == Spec => []AskInv
<1>1. Init => AskInv BY InitAsks
<1>2. ReadInv /\ AskInv /\ [Next]_vars => AskInv' BY NextAsks
<1> QED BY <1>1, <1>2, ReadsInvariant, PTL DEF Spec

-----------------------------------------------------------------------------
(* The variables keep their types, and with them no step of any request      *)
(* fails on a value it cannot use: no quotient by zero in a score, no title  *)
(* that is NULL, no signal without a vector.                                 *)
THEOREM TypeCorrect == Spec => []TypeOK
<1>1. ReadInv => TablesOK /\ ListsOK BY DEF ReadInv, ListTypes
<1>2. AskInv => AsksOK
  <2> SUFFICES ASSUME AskInv PROVE AsksOK OBVIOUS
  <2>1. cache \in Seq(Entries) BY HeldFacts DEF AskInv
  <2>2. Entries \subseteq [text : Phrases, vector : Phrases] BY DEF Entries, Entry
  <2>3. cache \in Seq([text : Phrases, vector : Phrases]) BY <2>1, <2>2, SeqMonotonic
  <2>4. ask \in [Requests -> AskType] BY AskTypeIs DEF AskInv
  <2> QED BY <2>3, <2>4 DEF AsksOK
<1> QED BY <1>1, <1>2, ReadsInvariant, AsksInvariant, PTL DEF TypeOK

(* Whatever other requests put into the cache or push out of it between the  *)
(* lookup and the put, a request searches with the vector of each of its     *)
(* texts; and the cache keeps its bound and holds every text once.           *)
THEOREM EmbedCorrect == Spec => []EmbedExact
<1>1. ASSUME AskInv PROVE EmbedExact
  <2>1. cache \in Caches /\ Len(cache) <= CacheSize /\ \A r \in Requests : AskGood(ask[r])
    BY <1>1 DEF AskInv
  <2>2. \A r \in Requests : ask[r].phase \in {"searching", "scoring", "done"} =>
           ask[r].vectors = TextsOf(ask[r])
    BY <2>1 DEF AskGood
  <2>3. /\ cache \in Seq(Entries) /\ IsInjective(cache) /\ Len(cache) \in Nat
        /\ DOMAIN cache = 1..Len(cache)
        /\ \A i \in 1..Len(cache) : \A t : cache[i].text = t <=> cache[i] = Entry(t)
    BY <2>1, HeldFacts
  <2>4. \A i \in DOMAIN cache : cache[i].vector = cache[i].text
    <3>1. \A i \in 1..Len(cache) : cache[i] \in Entries BY <2>3
    <3> QED BY <2>3, <3>1, EntryFacts
  <2>5. Cardinality(Cached) = Len(cache)
    <3> DEFINE n == Len(cache)
               f == [i \in 1..n |-> cache[i].text]
    <3>1. n \in Nat /\ DOMAIN cache = 1..n BY <2>3
    <3>2. \A i, j \in 1..n : cache[i].text = cache[j].text => i = j
      <4>1. \A i, j \in 1..n : cache[i].text = cache[j].text => cache[i] = cache[j]
        BY <2>3, ZenonT(30)
      <4> QED BY <2>3, <4>1 DEF IsInjective
    <3>3. \A t \in Cached : \E i \in 1..n : cache[i].text = t BY <3>1 DEF Cached
    <3>4. \A i \in 1..n : cache[i].text \in Cached BY <3>1 DEF Cached
    <3> HIDE DEF n
    <3>5. f \in [1..n -> Cached] /\ \A i \in 1..n : f[i] = cache[i].text BY <3>4
    <3> HIDE DEF f
    <3>6. f \in Surjection(1..n, Cached) BY <3>3, <3>5 DEF Surjection
    <3>7. f \in Injection(1..n, Cached) BY <3>2, <3>5 DEF Injection, IsInjective
    <3>8. ExistsBijection(1..n, Cached) BY <3>6, <3>7 DEF ExistsBijection, Bijection
    <3>9. Cardinality(Cached) = n BY <3>1, <3>8, FS_CountingElements
    <3> QED BY <3>9 DEF n
  <2> QED BY <2>1, <2>2, <2>4, <2>5 DEF EmbedExact
<1> QED BY <1>1, AsksInvariant, PTL

(* The answer holds the best bid of each title, in their order, up to the    *)
(* limit: a candidate is left out only for better ones.                      *)
THEOREM AnswerCorrect == Spec => []AnswerIsBest
<1>1. ASSUME AskInv, NEW r \in Requests, ask[r].phase = "done", ask[r].candidates # <<>>
      PROVE  LET a == ask[r]
                 items == a.answer
                 title(b) == a.candidates[b].bid.title
                 score == [b \in DOMAIN a.candidates |-> Score(a, b, BestHit(a, b))]
                 beats(x, y) == score[x] > score[y] \/ (score[x] = score[y] /\ x < y)
                 chosen == {items[i].bid : i \in DOMAIN items}
             IN  /\ \A i, j \in DOMAIN items : i < j => beats(items[i].bid, items[j].bid)
                 /\ \A x, y \in chosen : title(x) = title(y) /\ title(x) # BlankTitle => x = y
                 /\ Len(items) <= a.limit
                 /\ \A c \in DOMAIN a.candidates \ chosen :
                       \/ title(c) # BlankTitle
                          /\ \E x \in chosen : title(x) = title(c) /\ beats(x, c)
                       \/ Len(items) = a.limit /\ \A x \in chosen : beats(x, c)
  <2> DEFINE a == ask[r]
             D == DOMAIN a.candidates
             score == [b \in D |-> Score(a, b, BestHit(a, b))]
             chosen == {a.answer[i].bid : i \in DOMAIN a.answer}
  <2>1. Answered(a) BY <1>1 DEF AskInv, AskGood
  <2> HIDE DEF a
  <2>2. PICK q : Embedded(q) /\ SameRequest(q, a) /\ a.answer = Answer(q) BY <2>1 DEF Answered
  <2>3. PICK x : Shows(q, x) BY <2>2, AnswerFacts
  <2>4. /\ x \in Seq(DOMAIN q.candidates) /\ BestItems(q, Scores(q), x, DOMAIN q.candidates)
        /\ a.answer \in Seq(AnswerType) /\ Len(a.answer) = Len(x)
        /\ \A i \in 1..Len(x) : a.answer[i].bid = x[i]
    BY <2>2, <2>3 DEF Shows
  <2>5. q.candidates = a.candidates /\ q.limit = a.limit BY <2>2 DEF SameRequest
  <2>6. score = Scores(q)
    <3>1. Scores(a) = Scores(q) BY <2>2, SameScores
    <3> QED BY <3>1 DEF Scores
  <2>7. DOMAIN a.answer = 1..Len(x) /\ DOMAIN x = 1..Len(x) BY <2>4
  <2>8. chosen = ToSet(x) BY <2>4, <2>7 DEF ToSet
  <2>9. \A b : Title(q, b) = a.candidates[b].bid.title BY <2>5 DEF Title
  <2> HIDE DEF score, chosen
  <2>10. BestItems(q, score, x, D) BY <2>4, <2>5, <2>6
  <2>11. \A i, j \in DOMAIN a.answer : i < j => Ahead(score, a.answer[i].bid, a.answer[j].bid)
    BY <2>4, <2>7, <2>10 DEF BestItems, Sorts
  <2>12. /\ \A y, z \in chosen : a.candidates[y].bid.title = a.candidates[z].bid.title
                                 /\ a.candidates[y].bid.title # BlankTitle => y = z
         /\ Len(a.answer) <= a.limit
    BY <2>4, <2>5, <2>8, <2>9, <2>10 DEF BestItems
  <2>13. \A c \in D \ chosen :
            \/ a.candidates[c].bid.title # BlankTitle
               /\ \E y \in chosen : a.candidates[y].bid.title = a.candidates[c].bid.title
                                    /\ Ahead(score, y, c)
            \/ Len(a.answer) = a.limit /\ \A y \in chosen : Ahead(score, y, c)
    BY <2>4, <2>5, <2>8, <2>9, <2>10 DEF BestItems
  <2> QED BY <2>11, <2>12, <2>13 DEF Ahead, a, score, chosen
<1>2. AskInv => AnswerIsBest BY <1>1 DEF AnswerIsBest
<1> QED BY <1>2, AsksInvariant, PTL

(* The source shown with a bid is that of the signal that, weighted, found   *)
(* it best.                                                                  *)
THEOREM StrongestCorrect == Spec => []StrongestSignal
<1>1. ASSUME AskInv, NEW r \in Requests, ask[r].phase = "done", NEW i \in DOMAIN ask[r].answer
      PROVE  LET a == ask[r]
                 b == a.answer[i].bid
                 weighted(n) == Cosine(a.signals[n].text, a.candidates[b].bid.title)
                                * Weight(a.signals[n].source)
                 finding == {n \in DOMAIN a.signals : b \in Hits(a, a.signals[n].text)}
                 best == {n \in finding : \A m \in finding :
                             weighted(m) < weighted(n) \/ (weighted(m) = weighted(n) /\ n <= m)}
             IN  IF finding = {} THEN a.answer[i].source = Null
                 ELSE \E n \in best : a.signals[n].source = a.answer[i].source
  <2> DEFINE a == ask[r]
             b == a.answer[i].bid
             source == a.answer[i].source
             weighted(n) == Cosine(a.signals[n].text, a.candidates[b].bid.title)
                            * Weight(a.signals[n].source)
             finding == {n \in DOMAIN a.signals : b \in Hits(a, a.signals[n].text)}
  <2>1. AskGood(a) /\ a.phase = "done" /\ i \in DOMAIN a.answer BY <1>1 DEF AskInv
  <2> HIDE DEF a
  <2>2. a.vectors = TextsOf(a) /\ a.signals \in Seq(SignalType)
    BY <2>1, FieldFacts DEF AskGood
  <2>3. a.answer # <<>>
    <3>1. DOMAIN <<>> = {} OBVIOUS
    <3> QED BY <2>1, <3>1
  <2>4. PICK q : Embedded(q) /\ SameRequest(q, a) /\ a.answer = Answer(q)
    BY <2>1, <2>3 DEF AskGood, Answered
  <2>5. PICK x : Shows(q, x) BY <2>4, AnswerFacts
  <2>6. i \in 1..Len(x) /\ x \in Seq(DOMAIN q.candidates)
    <3>1. a.answer \in Seq(AnswerType) /\ Len(a.answer) = Len(x) /\ x \in Seq(DOMAIN q.candidates)
      BY <2>4, <2>5 DEF Shows
    <3> QED BY <2>1, <3>1
  <2>7. b = x[i] /\ source = IF BestHit(q, b) = Null THEN Null ELSE BestHit(q, b).source
    BY <2>4, <2>5, <2>6 DEF Shows
  <2>8. b \in DOMAIN q.candidates BY <2>6, <2>7
  <2> HIDE DEF b, source
  <2>9. /\ BestOf(q, b, Len(q.signals), BestHit(q, b))
        /\ Finding(a, b) = Finding(q, b) /\ \A n : Find(a, b, n) = Find(q, b, n)
    BY <2>4, <2>8, BestHitFacts, SameBest
  <2>10. q.signals = a.signals BY <2>4 DEF SameRequest
  <2>11. \A n \in DOMAIN a.signals :
            a.vectors[n] = a.signals[n].text /\ n \in Nat /\ n <= Len(a.signals)
    BY <2>2, TextsOfFacts
  <2>12. finding = Finding(q, b) BY <2>9, <2>11 DEF Finding
  <2>13. \A n \in finding : /\ Worth(Find(q, b, n)) = weighted(n)
                            /\ Find(q, b, n).source = a.signals[n].source
    <3>1. \A n \in finding : n \in DOMAIN a.signals OBVIOUS
    <3>2. \A n \in DOMAIN a.signals :
             Find(a, b, n) = [score |-> Cosine(a.signals[n].text, a.candidates[b].bid.title),
                              source |-> a.signals[n].source]
      BY <2>11 DEF Find
    <3> QED BY <2>9, <3>1, <3>2 DEF Worth
  <2>14. \A n \in finding : n <= Len(q.signals) BY <2>10, <2>11
  <2> HIDE DEF weighted, finding
  <2>15. CASE finding = {}
    <3>1. BestHit(q, b) = Null BY <2>9, <2>12, <2>15 DEF BestOf
    <3>2. source = Null BY <2>7, <3>1
    <3> QED BY <2>15, <3>2 DEF a, b, source, finding
  <2>16. CASE finding # {}
    <3>1. PICK n : Strongest(q, b, Len(q.signals), n) /\ BestHit(q, b) = Find(q, b, n)
      BY <2>9, <2>12, <2>14, <2>16 DEF BestOf
    <3>2. n \in finding /\ \A m \in finding :
             weighted(m) < weighted(n) \/ (weighted(m) = weighted(n) /\ n <= m)
      BY <2>12, <2>13, <2>14, <3>1 DEF Strongest
    <3>3. BestHit(q, b) # Null
      <4>1. n \in DOMAIN q.signals BY <2>12, <3>2 DEF Finding
      <4> QED BY <2>4, <2>8, <3>1, <4>1, FindFacts
    <3>4. a.signals[n].source = source BY <2>7, <2>13, <3>1, <3>2, <3>3
    <3> QED BY <2>16, <3>2, <3>4 DEF a, b, source, finding, weighted
  <2> QED BY <2>15, <2>16
<1>2. AskInv => StrongestSignal BY <1>1 DEF StrongestSignal
<1> QED BY <1>2, AsksInvariant, PTL
=============================================================================
