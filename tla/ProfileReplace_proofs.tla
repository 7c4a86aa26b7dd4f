----------------------- MODULE ProfileReplace_proofs ------------------------
(***************************************************************************)
(* Theorems about ProfileReplace, for any companies, concurrent PUTs,       *)
(* profiles, masters and limits.                                             *)
(***************************************************************************)
EXTENDS ProfileReplace, FiniteSetTheorems, TLAPS

-----------------------------------------------------------------------------
(* Sections and the rows of a profile.                                       *)

LEMMA SectionFacts ==
    /\ Len(DeleteOrder) = 8
    /\ \A i \in 1..8 : DeleteOrder[i] \in Sections /\ LoadOrder[i] \in Sections
    /\ \A s \in Sections : \E i \in 1..8 : DeleteOrder[i] = s
    /\ \A s \in Sections : \E i \in 1..8 : LoadOrder[i] = s
<1>1. Len(Tables) = 8 /\ DOMAIN Tables = 1..8 BY DEF Tables
<1>2. Tables \in Seq({"regions", "licenses", "items", "certs", "personnel", "capacity_evals",
                      "performance_records", "qualification"})
  BY DEF Tables
<1>3. /\ Len(SubSeq(Tables, 1, 7)) = 7
      /\ \A i \in 1..7 : SubSeq(Tables, 1, 7)[i] = Tables[i]
  BY <1>1, <1>2
<1>4. LoadOrder[1] = Tables[8] /\ \A i \in 2..8 : LoadOrder[i] = Tables[i - 1]
  BY <1>1, <1>2, <1>3 DEF LoadOrder
<1>5. \A i \in 1..8 : LoadOrder[i] \in Sections
  BY <1>4 DEF Sections
<1>6. \A s \in Sections : \E i \in 1..8 : LoadOrder[i] = s
  <2>1. SUFFICES ASSUME NEW j \in 1..8 PROVE \E i \in 1..8 : LoadOrder[i] = Tables[j]
    BY DEF Sections
  <2>2. CASE j = 8 BY <1>4, <2>2
  <2>3. CASE j # 8
    <3>1. j + 1 \in 2..8 /\ (j + 1) - 1 = j BY <2>3
    <3> QED BY <1>4, <3>1
  <2> QED BY <2>2, <2>3
<1> QED BY <1>1, <1>5, <1>6 DEF DeleteOrder, Sections

LEMMA PayloadFacts ==
    ASSUME NEW payload \in Payloads, NEW s \in Sections
    PROVE  /\ payload[s] \in Seq(Sent) /\ Len(payload[s]) \in Nat
           /\ payload[s] # <<>> <=> 0 < Len(payload[s])
           /\ \A n \in 1..Len(payload[s]) :
                 /\ payload[s][n].code \in Codes \cup {NoCode, EmptyCode}
                 /\ payload[s][n].field \in Fields \cup {BadField, NoField}
<1>1. payload[s] \in Seq(Sent) BY ConstantsAssumption
<1>2. \A n \in 1..Len(payload[s]) : payload[s][n] \in Sent BY <1>1
<1> QED BY <1>1, <1>2 DEF Sent

LEMMA RowsFacts ==
    ASSUME NEW c \in Companies, NEW by \in Puts \cup {NoPut}, NEW payload \in Payloads
    PROVE  /\ RowsOf(c, by, payload) \in Content
           /\ \A s \in Sections :
                 /\ \A row \in RowsOf(c, by, payload)[s] :
                       /\ row.company = c /\ row.by = by /\ row.n \in 1..Len(payload[s])
                       /\ row.code = payload[s][row.n].code
                       /\ row.field = payload[s][row.n].field
                 /\ \A n \in 1..Len(payload[s]) :
                       \E row \in RowsOf(c, by, payload)[s] : row.n = n
                 /\ \A a, b \in RowsOf(c, by, payload)[s] : a.n = b.n => a = b
<1>1. ASSUME NEW s \in Sections
      PROVE  /\ RowsOf(c, by, payload)[s] \in SUBSET Row
             /\ \A row \in RowsOf(c, by, payload)[s] :
                   /\ row.company = c /\ row.by = by /\ row.n \in 1..Len(payload[s])
                   /\ row.code = payload[s][row.n].code
                   /\ row.field = payload[s][row.n].field
             /\ \A n \in 1..Len(payload[s]) :
                   \E row \in RowsOf(c, by, payload)[s] : row.n = n
             /\ \A a, b \in RowsOf(c, by, payload)[s] : a.n = b.n => a = b
  <2> DEFINE R(n) == [company |-> c, code |-> payload[s][n].code,
                      field |-> payload[s][n].field, by |-> by, n |-> n]
  <2>1. RowsOf(c, by, payload)[s] = {R(n) : n \in 1..Len(payload[s])}
    BY DEF RowsOf
  <2>2. \A n \in 1..Len(payload[s]) : n \in Nat
    BY PayloadFacts
  <2>3. \A n \in 1..Len(payload[s]) : R(n) \in Row
    BY <2>2, PayloadFacts DEF Row
  <2>4. \A n \in 1..Len(payload[s]) :
           /\ R(n).company = c /\ R(n).by = by /\ R(n).n = n
           /\ R(n).code = payload[s][n].code /\ R(n).field = payload[s][n].field
    OBVIOUS
  <2> HIDE DEF R
  <2> QED BY <2>1, <2>3, <2>4
<1>2. RowsOf(c, by, payload) = [s \in Sections |-> RowsOf(c, by, payload)[s]]
  BY DEF RowsOf
<1> QED BY <1>1, <1>2 DEF Content

LEMMA OfFacts ==
    ASSUME NEW c, NEW content \in Content
    PROVE  /\ Of(c, content) \in Content
           /\ \A s \in Sections : \A row : row \in Of(c, content)[s] <=>
                 row \in content[s] /\ row.company = c
BY DEF Of, Content

(* The first k rows of a section are k rows.                                 *)
LEMMA FirstRowsCount ==
    ASSUME NEW c \in Companies, NEW by \in Puts \cup {NoPut}, NEW payload \in Payloads,
           NEW s \in Sections, NEW k \in 0..Len(payload[s])
    PROVE  Cardinality({row \in RowsOf(c, by, payload)[s] : row.n <= k}) = k
<1> DEFINE S == {row \in RowsOf(c, by, payload)[s] : row.n <= k}
           f == [n \in 1..k |-> CHOOSE row \in RowsOf(c, by, payload)[s] : row.n = n]
<1>1. k \in Nat /\ Len(payload[s]) \in Nat /\ 1..k \subseteq 1..Len(payload[s])
  BY PayloadFacts
<1>2. \A n \in 1..k : f[n] \in RowsOf(c, by, payload)[s] /\ f[n].n = n
  BY <1>1, RowsFacts
<1>3. \A row \in RowsOf(c, by, payload)[s] : row.n \in Nat /\ row.n >= 1
  BY <1>1, RowsFacts
<1>4. f \in Injection(1..k, S)
  <2>1. \A n \in 1..k : f[n] \in S BY <1>1, <1>2
  <2>2. f \in [1..k -> S] BY <2>1
  <2> HIDE DEF f
  <2>3. \A m, n \in 1..k : f[m] = f[n] => m = n BY <1>2
  <2> QED BY <2>2, <2>3 DEF Injection, IsInjective
<1>5. \A row \in S : \E n \in 1..k : f[n] = row
  <2>1. SUFFICES ASSUME NEW row \in S PROVE row.n \in 1..k /\ f[row.n] = row
    OBVIOUS
  <2>2. row.n \in 1..k BY <1>1, <1>3
  <2> QED BY <1>2, <2>2, RowsFacts
<1> HIDE DEF f, S
<1>6. f \in Bijection(1..k, S) BY <1>4, <1>5 DEF Bijection, Surjection, Injection
<1>7. ExistsBijection(1..k, S) BY <1>6 DEF ExistsBijection
<1> QED BY <1>1, <1>7, FS_CountingElements DEF S

-----------------------------------------------------------------------------
(* The inductive invariant.                                                  *)

Rows(p) == RowsOf(put[p].company, p, put[p].payload)
Upto(p, s, k) == {row \in Rows(p)[s] : row.n <= k}

(* The sections whose DELETE has run.                                        *)
Gone(p) ==
    IF put[p].phase = "inserting" THEN Sections
    ELSE {DeleteOrder[i] : i \in 1..(put[p].at - 1)}

(* How far the flush has come in each section.                               *)
FlushInv(p) ==
    LET t == put[p]
    IN  IF t.phase = "inserting"
        THEN /\ t.at = 1
             /\ \A s \in Sections : \E k \in 0..Len(t.payload[s]) :
                   /\ t.inserted[s] = Upto(p, s, k)
                   /\ s \in t.left <=> k < Len(t.payload[s])
        ELSE t.inserted = Nothing

(* Of the rows a PUT found when it began, which are its company's and were   *)
(* committed, what is still there it has deleted, or waits to delete.        *)
OwnInv(p) ==
    LET t == put[p]
    IN  /\ t.phase = "done" <=> t.reply # "none"
        /\ \A s \in Sections : \A row \in t.found[s] :
              /\ row.company = t.company
              /\ row.by # NoPut => Committed(row.by)
        /\ \A s \in Sections : \A row \in t.removed[s] : row.company = t.company
        /\ t.phase \in {"deleting", "waiting", "inserting"} =>
              \A s \in Gone(p) : t.found[s] \cap tables[s] \subseteq t.removed[s]
        /\ t.phase = "waiting" =>
              LET s == DeleteOrder[t.at]
              IN  /\ t.found[s] \cap tables[s] \subseteq t.victims
                  /\ \A row \in t.victims : row.company = t.company

RowsInv ==
    \A s \in Sections : \A row \in tables[s] : row.by # NoPut => Committed(row.by)

(* A PUT that runs alone waits for nobody, has deleted every row of its      *)
(* company in the sections it has come to, and finds its own rows afterwards. *)
AloneInv(p) ==
    LET t == put[p]
    IN  /\ Running(p) => ~DuplicateCodes(t.payload)
        /\ p \notin overlapped =>
              /\ t.phase # "waiting"
              /\ \A o \in Puts \ {p} : ~(Running(p) /\ Running(o) /\ put[o].company = t.company)
              /\ t.phase \in {"deleting", "inserting"} =>
                   \A s \in Gone(p) : Of(t.company, tables)[s] \subseteq t.removed[s]
              /\ t.phase = "loading" =>
                   /\ \A s \in Sections : Of(t.company, tables)[s] = Rows(p)[s]
                   /\ \A i \in 1..(t.at - 1) : t.response[LoadOrder[i]] = Rows(p)[LoadOrder[i]]

Breaks(payload) == \E s \in Sections : \E n \in 1..Len(payload[s]) :
                      BreaksConstraint(s, payload[s][n])
Unfit(payload) == \E s \in Sections : \E n \in 1..Len(payload[s]) : ~payload[s][n].fits

(* AloneExact of one PUT, but for what WritesInv and RowsInv say.            *)
ExactOf(p) ==
    p \notin overlapped /\ put[p].phase = "done" =>
        LET payload == put[p].payload
            reply == put[p].reply
        IN  /\ reply \in {"422", "constraint", "500", "200"}
            /\ reply = "422" => ~Acceptable(payload) \/ ~WithinLimits(payload)
            /\ reply = "constraint" => Breaks(payload)
            /\ reply = "500" => Unreadable(payload) \/ Unfit(payload)
            /\ reply = "200" => put[p].response = RowsOf(put[p].company, p, payload)

(* NoHalfProfile of one PUT.                                                 *)
WholeOf(p) ==
    put[p].phase # "new" /\ put[p].reply # "422" =>
        \/ /\ \A o \in Puts : put[o].company = put[p].company => ~Committed(o)
           /\ \A s \in Sections : put[p].found[s] \subseteq Of(put[p].company, tables)[s]
        \/ \E o \in Puts :
              /\ put[o].company = put[p].company /\ Committed(o)
              /\ \A s \in Sections : Rows(o)[s] \subseteq Of(put[p].company, tables)[s]

ReplaceInv ==
    /\ TypeOK
    /\ RowsInv
    /\ \A p \in Puts : FlushInv(p) /\ OwnInv(p) /\ AloneInv(p) /\ WholeOf(p) /\ ExactOf(p)

LEMMA WholeEach == NoHalfProfile <=> \A p \in Puts : WholeOf(p)
<1> SUFFICES ASSUME NEW p \in Puts
             PROVE  (put[p].phase # "new" /\ put[p].reply # "422" =>
                       LET c == put[p].company
                           done == {q \in Puts : put[q].company = c /\ Committed(q)}
                       IN  IF done = {} THEN Stored(c, put[p].found)
                           ELSE \E q \in done : Stored(c, RowsOf(c, q, put[q].payload)))
                    <=> WholeOf(p)
  BY DEF NoHalfProfile
<1> DEFINE done == {q \in Puts : put[q].company = put[p].company /\ Committed(q)}
<1>1. \A q : q \in done <=> q \in Puts /\ put[q].company = put[p].company /\ Committed(q)
  OBVIOUS
<1> HIDE DEF done
<1>2. CASE done = {} BY <1>1, <1>2 DEF WholeOf, Stored, done
<1>3. CASE done # {} BY <1>1, <1>3 DEF WholeOf, Stored, Rows, done
<1> QED BY <1>2, <1>3

(* What the flush of a PUT has written could be written, and what a PUT has  *)
(* committed is all of that kind.                                             *)
Written(payload, s, n) == payload[s][n].fits /\ ~BreaksConstraint(s, payload[s][n])
WritesOf(p) ==
    LET t == put[p]
    IN  /\ t.phase = "inserting" =>
              \A s \in Sections : \A row \in t.inserted[s] : Written(t.payload, s, row.n)
        /\ Committed(p) => Storable(t.payload)
WritesInv == \A p \in Puts : WritesOf(p)

LEMMA ExactEach == ReplaceInv /\ WritesInv => AloneExact
<1> SUFFICES ASSUME ReplaceInv, WritesInv, NEW p \in Puts \ overlapped, put[p].phase = "done"
             PROVE  LET payload == put[p].payload
                        reply == put[p].reply
                    IN  /\ reply \in {"422", "constraint", "500", "200"}
                        /\ reply = "422" => ~Acceptable(payload) \/ ~WithinLimits(payload)
                        /\ reply = "constraint" => Breaks(payload)
                        /\ reply = "500" => Unreadable(payload) \/ Unfit(payload)
                        /\ reply = "200" =>
                             /\ Storable(payload)
                             /\ put[p].response = RowsOf(put[p].company, p, payload)
                        /\ reply # "200" => \A s \in Sections : \A row \in tables[s] : row.by # p
  BY DEF AloneExact, Breaks, Unfit
<1>1. ExactOf(p) /\ WritesOf(p) BY DEF ReplaceInv, WritesInv
<1>2. put[p].reply = "200" => Storable(put[p].payload) BY <1>1 DEF WritesOf, Committed
<1>3. put[p].reply # "200" => \A s \in Sections : \A row \in tables[s] : row.by # p
  <2>1. p # NoPut BY ConstantsAssumption
  <2> QED BY <2>1 DEF ReplaceInv, RowsInv, Committed
<1> QED BY <1>1, <1>2, <1>3 DEF ExactOf

LEMMA ContentFacts ==
    /\ Nothing \in Content
    /\ \A s \in Sections : Nothing[s] = {}
    /\ \A content \in Content : \A s \in Sections : content[s] \in SUBSET Row
    /\ \A content \in Content : \A s \in Sections : \A rows \in SUBSET Row :
          /\ [content EXCEPT ![s] = rows] \in Content
          /\ [content EXCEPT ![s] = rows][s] = rows
          /\ \A u \in Sections \ {s} : [content EXCEPT ![s] = rows][u] = content[u]
BY DEF Nothing, Content

LEMMA RowOfPut ==
    ASSUME TypeOK, NEW p \in Puts
    PROVE  /\ put[p] \in Put /\ put[p].company \in Companies /\ put[p].payload \in Payloads
           /\ Rows(p) \in Content
           /\ \A s \in Sections :
                 /\ \A row \in Rows(p)[s] :
                       /\ row.company = put[p].company /\ row.by = p
                       /\ row.n \in 1..Len(put[p].payload[s])
                       /\ row.code = put[p].payload[s][row.n].code
                       /\ row.field = put[p].payload[s][row.n].field
                 /\ \A n \in 1..Len(put[p].payload[s]) : \E row \in Rows(p)[s] : row.n = n
                 /\ \A a, b \in Rows(p)[s] : a.n = b.n => a = b
<1>1. put[p] \in Put /\ put[p].company \in Companies /\ put[p].payload \in Payloads
  BY DEF TypeOK, Put
<1> QED BY <1>1, RowsFacts DEF Rows

(* What the flush has come to.                                               *)
LEMMA FlushRows ==
    ASSUME TypeOK, NEW p \in Puts, NEW s \in Sections, FlushInv(p)
    PROVE  \A row \in put[p].inserted[s] : row \in Rows(p)[s]
BY ContentFacts DEF FlushInv, Upto

LEMMA NextRowFacts ==
    ASSUME TypeOK, NEW p \in Puts, FlushInv(p), put[p].phase = "inserting",
           NEW s \in Sections, s \in put[p].left
    PROVE  \E k \in Nat :
              /\ k < Len(put[p].payload[s])
              /\ put[p].inserted[s] = Upto(p, s, k)
              /\ NextRow(p, s) \in Rows(p)[s] /\ NextRow(p, s).n = k + 1
              /\ put[p].inserted[s] \cup {NextRow(p, s)} = Upto(p, s, k + 1)
<1>1. PICK k \in 0..Len(put[p].payload[s]) :
         /\ put[p].inserted[s] = Upto(p, s, k)
         /\ s \in put[p].left <=> k < Len(put[p].payload[s])
  BY DEF FlushInv
<1>2. k \in Nat /\ k < Len(put[p].payload[s]) /\ Len(put[p].payload[s]) \in Nat
  BY <1>1, PayloadFacts, RowOfPut
<1>3. Cardinality(put[p].inserted[s]) = k
  BY <1>1, FirstRowsCount, RowOfPut DEF Upto, Rows
<1>4. \E row \in Rows(p)[s] : row.n = k + 1
  <2>1. k + 1 \in 1..Len(put[p].payload[s]) BY <1>2
  <2> QED BY <2>1, RowOfPut
<1>5. NextRow(p, s) = CHOOSE row \in Rows(p)[s] : row.n = k + 1
  BY <1>3 DEF NextRow, Rows
<1>6. NextRow(p, s) \in Rows(p)[s] /\ NextRow(p, s).n = k + 1
  BY <1>4, <1>5
<1>7. Upto(p, s, k) \cup {NextRow(p, s)} = Upto(p, s, k + 1)
  <2>1. \A row \in Rows(p)[s] : row.n \in Nat BY RowOfPut, <1>2
  <2>2. \A row \in Rows(p)[s] : row.n <= k + 1 <=> row.n <= k \/ row = NextRow(p, s)
    BY <1>2, <1>6, <2>1, RowOfPut
  <2> QED BY <1>6, <2>2 DEF Upto
<1> QED BY <1>1, <1>2, <1>6, <1>7

-----------------------------------------------------------------------------
(* A step of one PUT that leaves the tables alone.                           *)

(* PUT p goes on as q: it keeps its company, its profile and what it found,  *)
(* does not commit, and when it begins, all of its company's PUTs that run   *)
(* count as overlapped.                                                      *)
Moves(p, q) ==
    /\ q \in Put /\ put' = [put EXCEPT ![p] = q] /\ tables' = tables
    /\ overlapped \subseteq overlapped' /\ overlapped' \subseteq Puts
    /\ (q.phase = "loading" \/ q.reply = "200") <=> Committed(p)
    /\ put[p].phase # "new" =>
          q.company = put[p].company /\ q.payload = put[p].payload /\ q.found = put[p].found
    /\ put[p].phase # "done"
    /\ put[p].phase = "new" => q.found = Nothing \/ q.found = Of(q.company, tables)
    /\ q.phase \notin {"new", "done"} =>
          \/ Running(p) /\ q.company = put[p].company
          \/ \A o \in Puts \ {p} : Running(o) /\ put[o].company = q.company => o \in overlapped'

LEMMA MovesPuts ==
    ASSUME TypeOK, NEW p \in Puts, NEW q, Moves(p, q)
    PROVE  /\ TypeOK' /\ put'[p] = q
           /\ \A o \in Puts \ {p} : put'[o] = put[o]
           /\ \A o \in Puts : Committed(o)' <=> Committed(o)
<1>1. TypeOK' /\ put'[p] = q /\ \A o \in Puts \ {p} : put'[o] = put[o]
  BY DEF Moves, TypeOK
<1>2. Committed(p)' <=> Committed(p) BY <1>1 DEF Committed, Moves
<1> QED BY <1>1, <1>2 DEF Committed

LEMMA MovesRows ==
    ASSUME ReplaceInv, NEW p \in Puts, NEW q, Moves(p, q)
    PROVE  RowsInv'
<1>1. tables' = tables BY DEF Moves
<1>2. \A s \in Sections : \A row \in tables[s] : row.by \in Puts \cup {NoPut}
  BY DEF ReplaceInv, TypeOK, Content, Row
<1>3. \A o \in Puts : Committed(o)' <=> Committed(o) BY MovesPuts DEF ReplaceInv
<1> QED BY <1>1, <1>2, <1>3 DEF ReplaceInv, RowsInv

LEMMA MovesWhole ==
    ASSUME ReplaceInv, NEW p \in Puts, NEW q, Moves(p, q), NEW o \in Puts
    PROVE  WholeOf(o)'
<1>1. /\ tables' = tables /\ put'[p] = q
      /\ \A x \in Puts \ {p} : put'[x] = put[x]
      /\ \A x \in Puts : Committed(x)' <=> Committed(x)
  BY MovesPuts DEF ReplaceInv, Moves
<1>2. \A c : Of(c, tables)' = Of(c, tables) BY <1>1 DEF Of
<1>3. \A x \in Puts : Committed(x) => put[x].phase # "new" /\ put[x].reply # "422"
  BY DEF ReplaceInv, OwnInv, Committed
<1>4. \A x \in Puts : Committed(x) =>
         put'[x].company = put[x].company /\ put'[x].payload = put[x].payload
  BY <1>1, <1>3 DEF Moves
<1>5. \A x \in Puts : Committed(x) => Rows(x)' = Rows(x) BY <1>4 DEF Rows
<1>6. SUFFICES ASSUME put'[o].phase # "new", put'[o].reply # "422"
      PROVE  \/ /\ \A x \in Puts : put'[x].company = put'[o].company => ~Committed(x)'
                /\ \A s \in Sections : put'[o].found[s] \subseteq Of(put'[o].company, tables)[s]
             \/ \E x \in Puts :
                   /\ put'[x].company = put'[o].company /\ Committed(x)'
                   /\ \A s \in Sections : Rows(x)'[s] \subseteq Of(put'[o].company, tables)[s]
  BY <1>1 DEF WholeOf
<1>7. CASE \E x \in Puts : put'[x].company = put'[o].company /\ Committed(x)'
  <2>1. PICK x \in Puts : put'[x].company = put'[o].company /\ Committed(x)'
    BY <1>7
  <2>2. Committed(x) /\ put[x].company = put'[o].company BY <1>1, <1>4, <2>1
  <2>3. \E w \in Puts :
           /\ put[w].company = put[x].company /\ Committed(w)
           /\ \A s \in Sections : Rows(w)[s] \subseteq Of(put[x].company, tables)[s]
    BY <1>3, <2>2 DEF ReplaceInv, WholeOf
  <2> QED BY <1>1, <1>4, <1>5, <2>2, <2>3
<1>8. CASE \A x \in Puts : put'[x].company = put'[o].company => ~Committed(x)'
  <2>1. CASE put[o].phase = "new"
    <3>1. o = p /\ (q.found = Nothing \/ q.found = Of(q.company, tables))
      BY <1>1, <1>6, <2>1 DEF Moves
    <3>2. \A s \in Sections : q.found[s] \subseteq Of(q.company, tables)[s]
      BY <3>1, ContentFacts
    <3> QED BY <1>1, <1>8, <3>1, <3>2
  <2>2. CASE put[o].phase # "new"
    <3>1. put'[o].company = put[o].company /\ put'[o].found = put[o].found
      BY <1>1, <2>2 DEF Moves
    <3>2. ~(put[o].reply = "422")
      BY <1>1, <1>6 DEF ReplaceInv, OwnInv, Moves
    <3>3. \A x \in Puts : put[x].company = put[o].company => ~Committed(x)
      BY <1>1, <1>4, <1>8, <3>1
    <3>4. \A s \in Sections : put[o].found[s] \subseteq Of(put[o].company, tables)[s]
      BY <2>2, <3>2, <3>3 DEF ReplaceInv, WholeOf
    <3> QED BY <1>8, <3>1, <3>4
  <2> QED BY <2>1, <2>2
<1> QED BY <1>7, <1>8

(* The other PUTs keep their parts of the invariant.                         *)
LEMMA MovesOthers ==
    ASSUME ReplaceInv, NEW p \in Puts, NEW q, Moves(p, q), NEW o \in Puts \ {p}
    PROVE  FlushInv(o)' /\ OwnInv(o)' /\ AloneInv(o)' /\ ExactOf(o)'
<1>1. /\ tables' = tables /\ put'[p] = q /\ put'[o] = put[o]
      /\ \A x \in Puts \ {p} : put'[x] = put[x]
      /\ \A x \in Puts : Committed(x)' <=> Committed(x)
  BY MovesPuts DEF ReplaceInv, Moves
<1>2. Rows(o)' = Rows(o) /\ Gone(o)' = Gone(o) BY <1>1 DEF Rows, Gone
<1>3. FlushInv(o)'
  BY <1>1, <1>2 DEF ReplaceInv, FlushInv, Upto
<1>4. OwnInv(o)'
  <2>1. \A s \in Sections : \A row \in put[o].found[s] : row.by \in Puts \cup {NoPut}
    BY DEF ReplaceInv, TypeOK, Put, Content, Row
  <2>2. OwnInv(o) BY DEF ReplaceInv
  <2> QED BY <1>1, <1>2, <2>1, <2>2 DEF OwnInv
<1>5. AloneInv(o)'
  <2>1. AloneInv(o) BY DEF ReplaceInv
  <2>2. Of(put[o].company, tables)' = Of(put[o].company, tables) BY <1>1 DEF Of
  <2>3. ASSUME o \notin overlapped', NEW x \in Puts \ {o}, Running(o), Running(x)'
        PROVE  put'[x].company # put[o].company
    <3>1. o \notin overlapped BY <2>3 DEF Moves
    <3>2. CASE x # p BY <1>1, <2>1, <2>3, <3>1, <3>2 DEF AloneInv, Running
    <3>3. CASE x = p
      <4>1. q.phase \notin {"new", "done"} BY <1>1, <2>3, <3>3 DEF Running
      <4>2. CASE Running(p) /\ q.company = put[p].company
        BY <1>1, <2>1, <2>3, <3>1, <3>3, <4>2 DEF AloneInv
      <4>3. CASE \A y \in Puts \ {p} :
                    Running(y) /\ put[y].company = q.company => y \in overlapped'
        BY <1>1, <2>3, <3>3, <4>3
      <4> QED BY <4>1, <4>2, <4>3 DEF Moves
    <3> QED BY <3>2, <3>3
  <2>4. Running(o)' <=> Running(o) BY <1>1 DEF Running
  <2>5. o \notin overlapped' => o \notin overlapped BY DEF Moves
  <2>6. o \notin overlapped' =>
           \A x \in Puts \ {o} : ~(Running(o)' /\ Running(x)' /\ put'[x].company = put'[o].company)
    BY <1>1, <2>3, <2>4
  <2> QED BY <1>1, <1>2, <2>1, <2>2, <2>4, <2>5, <2>6 DEF AloneInv
<1>6. ExactOf(o)'
  BY <1>1 DEF ReplaceInv, ExactOf, Moves
<1> QED BY <1>3, <1>4, <1>5, <1>6

LEMMA MovesInv ==
    ASSUME ReplaceInv, NEW p \in Puts, NEW q, Moves(p, q),
           FlushInv(p)', OwnInv(p)', AloneInv(p)', ExactOf(p)'
    PROVE  ReplaceInv'
<1>1. TypeOK' BY MovesPuts DEF ReplaceInv
<1>2. RowsInv' BY MovesRows
<1>3. ASSUME NEW o \in Puts
      PROVE  FlushInv(o)' /\ OwnInv(o)' /\ AloneInv(o)' /\ WholeOf(o)' /\ ExactOf(o)'
  <2>1. WholeOf(o)' BY MovesWhole
  <2>2. CASE o = p BY <2>1, <2>2
  <2>3. CASE o # p BY <2>1, <2>3, MovesOthers
  <2> QED BY <2>2, <2>3
<1> QED BY <1>1, <1>2, <1>3 DEF ReplaceInv

(* What a PUT found is still committed by those who wrote it, and its part   *)
(* of the invariant does not depend on the others' steps.                    *)
LEMMA FoundKept ==
    ASSUME ReplaceInv, NEW p \in Puts, NEW q, Moves(p, q), put[p].phase # "new"
    PROVE  \A s \in Sections : \A row \in q.found[s] :
              row.company = q.company /\ (row.by # NoPut => Committed(row.by)')
<1>1. /\ q.found = put[p].found /\ q.company = put[p].company
      /\ \A x \in Puts : Committed(x)' <=> Committed(x)
  BY MovesPuts DEF ReplaceInv, Moves
<1>2. \A s \in Sections : \A row \in put[p].found[s] : row.by \in Puts \cup {NoPut}
  BY DEF ReplaceInv, TypeOK, Put, Content, Row
<1> QED BY <1>1, <1>2 DEF ReplaceInv, OwnInv

-----------------------------------------------------------------------------
(* Refused and begun.                                                        *)

LEMMA NewFacts ==
    ASSUME NEW c \in Companies, NEW payload \in Payloads
    PROVE  /\ New \in Put
           /\ New.phase = "new" /\ New.at = 1 /\ New.reply = "none" /\ New.victims = {}
           /\ New.removed = Nothing /\ New.inserted = Nothing /\ New.found = Nothing
           /\ New.response = Nothing /\ New.left = {}
<1>1. (CHOOSE x \in Companies : TRUE) \in Companies /\ (CHOOSE x \in Payloads : TRUE) \in Payloads
  OBVIOUS
<1> QED BY <1>1, ContentFacts DEF New, Put, Phases

(* What save_profile refuses could not be stored.                            *)
LEMMA RefusedRightly ==
    ASSUME NEW c \in Companies, NEW payload \in Payloads,
           DuplicateCodes(payload) \/ Missing(payload) # {}
    PROVE  ~Acceptable(payload)
<1> DEFINE d == CHOOSE x \in Companies : TRUE
           R == RowsOf(d, NoPut, payload)
<1>1. d \in Companies OBVIOUS
<1>2. Acceptable(payload) => \A s \in Sections :
         /\ \A a, b \in R[s] : SameKey(s, a, b) => a = b
         /\ s # "qualification" =>
               {row.code : row \in R[s]} \subseteq
                  MasterOf(s) \cup IF s = "performance_records" THEN {NoCode, EmptyCode} ELSE {}
  BY DEF Acceptable
<1> HIDE DEF d
<1>3. \A s \in Sections :
         /\ \A row \in R[s] :
               /\ row.company = d /\ row.n \in 1..Len(payload[s])
               /\ row.code = payload[s][row.n].code /\ row.field = payload[s][row.n].field
         /\ \A n \in 1..Len(payload[s]) : \E row \in R[s] : row.n = n
  BY <1>1, RowsFacts, SMTT(30)
<1> HIDE DEF R
<1>4. CASE DuplicateCodes(payload)
  <2> PICK s \in Sections \ {"performance_records"} :
             \E i, j \in 1..Len(payload[s]) :
                i # j /\ Key(s, payload[s][i]) = Key(s, payload[s][j])
    BY <1>4 DEF DuplicateCodes
  <2>1. PICK i, j \in 1..Len(payload[s]) :
                i # j /\ Key(s, payload[s][i]) = Key(s, payload[s][j])
    OBVIOUS
  <2>2. PICK a \in R[s] : a.n = i BY <1>3
  <2>3. PICK b \in R[s] : b.n = j BY <1>3
  <2>4. SameKey(s, a, b)
    <3>1. /\ a.code = payload[s][i].code /\ a.field = payload[s][i].field
          /\ b.code = payload[s][j].code /\ b.field = payload[s][j].field
          /\ a.company = b.company
      BY <1>3, <2>2, <2>3
    <3>2. Key(s, a) = Key(s, payload[s][i]) /\ Key(s, b) = Key(s, payload[s][j])
      BY <3>1 DEF Key
    <3>3. s # "performance_records" OBVIOUS
    <3> QED BY <2>1, <3>1, <3>2, <3>3 DEF SameKey
  <2>5. a # b BY <2>1, <2>2, <2>3
  <2> QED BY <1>2, <2>4, <2>5
<1>5. CASE Missing(payload) # {}
  <2> PICK s \in Sections \ {"qualification"} : \E n \in 1..Len(payload[s]) :
           /\ ~(s = "performance_records" /\ payload[s][n].code \in {NoCode, EmptyCode})
           /\ payload[s][n].code \notin MasterOf(s)
    BY <1>5 DEF Missing
  <2>1. PICK n \in 1..Len(payload[s]) :
           /\ ~(s = "performance_records" /\ payload[s][n].code \in {NoCode, EmptyCode})
           /\ payload[s][n].code \notin MasterOf(s)
    OBVIOUS
  <2>2. PICK row \in R[s] : row.n = n BY <1>3
  <2>3. row.code = payload[s][n].code BY <1>3, <2>2
  <2> QED BY <1>2, <2>1, <2>3
<1> QED BY <1>4, <1>5

(* A PUT that is answered before it writes.                                  *)
LEMMA AnswerStep ==
    ASSUME ReplaceInv, NEW p \in Puts, NEW c \in Companies, NEW payload \in Payloads,
           NEW reply \in {"422", "500"}, put[p].phase = "new", Answer(p, c, payload, reply),
           UNCHANGED <<tables, overlapped>>,
           reply = "422" => ~Acceptable(payload) \/ ~WithinLimits(payload),
           reply = "500" => Unreadable(payload)
    PROVE  ReplaceInv'
<1> DEFINE q == [New EXCEPT !.phase = "done", !.company = c, !.payload = payload, !.reply = reply]
<1>1. /\ q \in Put /\ q.phase = "done" /\ q.company = c /\ q.payload = payload
      /\ q.reply = reply /\ q.at = 1 /\ q.found = Nothing /\ q.removed = Nothing
      /\ q.inserted = Nothing
  BY NewFacts DEF Put, Phases
<1>2. put' = [put EXCEPT ![p] = q] /\ tables' = tables /\ overlapped' = overlapped
  BY DEF Answer
<1> HIDE DEF q
<1>3. Moves(p, q)
  <2>1. ~Committed(p) BY <1>2 DEF ReplaceInv, OwnInv, Committed
  <2> QED BY <1>1, <1>2, <2>1 DEF Moves, ReplaceInv, TypeOK
<1>4. put'[p] = q BY <1>3, MovesPuts DEF ReplaceInv
<1>5. FlushInv(p)' BY <1>1, <1>4 DEF FlushInv
<1>6. OwnInv(p)' BY <1>1, <1>4, ContentFacts DEF OwnInv
<1>7. AloneInv(p)' BY <1>1, <1>4 DEF AloneInv, Running
<1>8. ExactOf(p)' BY <1>1, <1>4 DEF ExactOf
<1> QED BY <1>3, <1>5, <1>6, <1>7, <1>8, MovesInv

LEMMA RefuseStep ==
    ASSUME ReplaceInv, NEW p \in Puts, NEW c \in Companies, NEW payload \in Payloads,
           Refuse(p, c, payload)
    PROVE  ReplaceInv'
<1>1. ~WithinLimits(payload) \/ DuplicateCodes(payload) \/ Missing(payload) # {}
  BY DEF Refuse, Checked
<1>2. ~Acceptable(payload) \/ ~WithinLimits(payload) BY <1>1, RefusedRightly
<1>3. put[p].phase = "new" /\ Answer(p, c, payload, "422") /\ UNCHANGED <<tables, overlapped>>
  BY DEF Refuse
<1> QED BY <1>2, <1>3, AnswerStep

LEMMA LookupRaisesStep ==
    ASSUME ReplaceInv, NEW p \in Puts, NEW c \in Companies, NEW payload \in Payloads,
           LookupRaises(p, c, payload)
    PROVE  ReplaceInv'
BY AnswerStep DEF LookupRaises

LEMMA BeginStep ==
    ASSUME ReplaceInv, NEW p \in Puts, NEW c \in Companies, NEW payload \in Payloads,
           Begin(p, c, payload)
    PROVE  ReplaceInv'
<1> DEFINE q == [New EXCEPT !.phase = "deleting", !.company = c, !.payload = payload,
                            !.found = Of(c, tables)]
           beside == {o \in Puts \ {p} : Running(o) /\ put[o].company = c}
<1>1. /\ q \in Put /\ q.phase = "deleting" /\ q.company = c /\ q.payload = payload
      /\ q.reply = "none" /\ q.at = 1 /\ q.found = Of(c, tables) /\ q.removed = Nothing
      /\ q.inserted = Nothing
  <2>1. Of(c, tables) \in Content BY OfFacts DEF ReplaceInv, TypeOK
  <2> QED BY <2>1, NewFacts DEF Put, Phases
<1>2. /\ put' = [put EXCEPT ![p] = q] /\ tables' = tables
      /\ overlapped' = overlapped \cup beside \cup (IF beside = {} THEN {} ELSE {p})
      /\ put[p].phase = "new" /\ ~DuplicateCodes(payload)
  BY DEF Begin, Accepted, Checked
<1> HIDE DEF q
<1>3. Moves(p, q)
  <2>1. ~Committed(p) BY <1>2 DEF ReplaceInv, OwnInv, Committed
  <2> QED BY <1>1, <1>2, <2>1 DEF Moves, ReplaceInv, TypeOK
<1>4. /\ put'[p] = q /\ \A o \in Puts \ {p} : put'[o] = put[o]
      /\ \A o \in Puts : Committed(o)' <=> Committed(o)
  BY <1>3, MovesPuts DEF ReplaceInv
<1>5. FlushInv(p)' BY <1>1, <1>4 DEF FlushInv
<1>6. Gone(p)' = {} BY <1>1, <1>4 DEF Gone
<1>7. OwnInv(p)'
  <2>1. \A s \in Sections : \A row \in q.found[s] :
           /\ row.company = c /\ row \in tables[s] /\ row.by \in Puts \cup {NoPut}
    BY <1>1, OfFacts DEF ReplaceInv, TypeOK, Content, Row
  <2>2. \A s \in Sections : \A row \in q.found[s] : row.by # NoPut => Committed(row.by)'
    BY <1>4, <2>1 DEF ReplaceInv, RowsInv
  <2> QED BY <1>1, <1>4, <1>6, <2>1, <2>2, ContentFacts DEF OwnInv
<1>8. AloneInv(p)'
  <2>1. p \notin overlapped' => beside = {} BY <1>2
  <2>2. p \notin overlapped' =>
          \A o \in Puts \ {p} : ~(Running(o)' /\ put'[o].company = c)
    BY <1>4, <2>1 DEF Running
  <2> QED BY <1>1, <1>2, <1>4, <1>6, <2>2 DEF AloneInv
<1>9. ExactOf(p)' BY <1>1, <1>4 DEF ExactOf
<1> QED BY <1>3, <1>5, <1>7, <1>8, <1>9, MovesInv

-----------------------------------------------------------------------------
(* The DELETEs.                                                              *)

(* PUT p goes on as q when its DELETE of section s has removed rows.         *)
Went(p, q, s, rows) ==
    /\ q \in Put /\ s \in Sections
    /\ q.phase \in {"deleting", "inserting"}
    /\ q.company = put[p].company /\ q.payload = put[p].payload
    /\ q.found = put[p].found /\ q.reply = put[p].reply /\ q.inserted = Nothing
    /\ q.removed[s] = rows
    /\ \A u \in Sections \ {s} : q.removed[u] = put[p].removed[u]
    /\ q.phase = "inserting" =>
          q.at = 1 /\ q.left = {u \in Sections : q.payload[u] # <<>>}

DeletedUpTo(q) ==
    IF q.phase = "inserting" THEN Sections ELSE {DeleteOrder[i] : i \in 1..(q.at - 1)}

LEMMA PutGoesOn ==
    ASSUME NEW t \in Put, NEW R \in Content, NEW A \in 1..8, NEW P \in Phases,
           NEW L \in SUBSET Sections
    PROVE  [t EXCEPT !.removed = R, !.victims = {}, !.at = A, !.phase = P, !.left = L] \in Put
BY DEF Put

LEMMA DeletedFacts ==
    ASSUME TypeOK, NEW p \in Puts, FlushInv(p), put[p].phase \in {"deleting", "waiting"},
           NEW s, s = DeleteOrder[put[p].at], NEW rows \in SUBSET Row,
           NEW q, q = Deleted(put[p], s, rows)
    PROVE  Went(p, q, s, rows) /\ DeletedUpTo(q) = Gone(p) \cup {s}
<1> DEFINE t == put[p]
           last == t.at = Len(DeleteOrder)
<1>1. /\ t \in Put /\ t.at \in 1..8 /\ s \in Sections /\ t.removed \in Content
      /\ t.inserted = Nothing
  BY SectionFacts DEF TypeOK, Put, FlushInv
<1>2. [t.removed EXCEPT ![s] = rows] \in Content BY <1>1, ContentFacts, SMTT(30)
<1>3. q = [t EXCEPT !.removed = [t.removed EXCEPT ![s] = rows], !.victims = {},
                    !.at = IF last THEN 1 ELSE t.at + 1,
                    !.phase = IF last THEN "inserting" ELSE "deleting",
                    !.left = IF last THEN {u \in Sections : t.payload[u] # <<>>} ELSE {}]
  BY <1>1 DEF Deleted, Put
<1>4. last <=> t.at = 8 BY SectionFacts
<1>5. (IF last THEN 1 ELSE t.at + 1) \in 1..8 BY <1>1, <1>4
<1>6. /\ q.phase = IF last THEN "inserting" ELSE "deleting"
      /\ q.at = IF last THEN 1 ELSE t.at + 1
      /\ q.company = t.company /\ q.payload = t.payload
      /\ q.found = t.found /\ q.reply = t.reply /\ q.inserted = Nothing
      /\ q.removed = [t.removed EXCEPT ![s] = rows]
      /\ q.left = IF last THEN {u \in Sections : t.payload[u] # <<>>} ELSE {}
  BY <1>1, <1>3 DEF Put
<1>7. q \in Put
  <2> DEFINE R == [t.removed EXCEPT ![s] = rows]
             A == IF last THEN 1 ELSE t.at + 1
             P == IF last THEN "inserting" ELSE "deleting"
             L == IF last THEN {u \in Sections : t.payload[u] # <<>>} ELSE {}
  <2>1. R \in Content /\ A \in 1..8 /\ P \in Phases /\ L \in SUBSET Sections
    BY <1>2, <1>5 DEF Phases
  <2>2. q = [t EXCEPT !.removed = R, !.victims = {}, !.at = A, !.phase = P, !.left = L]
    BY <1>3
  <2>3. t \in Put BY <1>1
  <2> HIDE DEF R, A, P, L, t
  <2>4. [t EXCEPT !.removed = R, !.victims = {}, !.at = A, !.phase = P, !.left = L] \in Put
    BY <2>1, <2>3, PutGoesOn
  <2> QED BY <2>2, <2>4
<1>8. Gone(p) = {DeleteOrder[i] : i \in 1..(t.at - 1)}
  BY DEF Gone
<1>9. DeletedUpTo(q) = Gone(p) \cup {s}
  <2>1. CASE last
    <3>1. t.at = 8 /\ q.phase = "inserting" BY <1>4, <1>6, <2>1
    <3>2. \A u \in Sections : u \in Gone(p) \cup {s}
      <4>1. SUFFICES ASSUME NEW i \in 1..8 PROVE DeleteOrder[i] \in Gone(p) \cup {s}
        BY SectionFacts
      <4>2. CASE i = 8 BY <3>1, <4>2
      <4>3. CASE i # 8
        <5>1. i \in 1..(t.at - 1) BY <3>1, <4>3
        <5> QED BY <1>8, <5>1
      <4> QED BY <4>2, <4>3
    <3>3. Gone(p) \subseteq Sections BY <1>8, <3>1, SectionFacts
    <3> QED BY <1>1, <3>1, <3>2, <3>3 DEF DeletedUpTo
  <2>2. CASE ~last
    <3>1. q.phase = "deleting" /\ q.at = t.at + 1 BY <1>6, <2>2
    <3>2. \A i : i \in 1..(q.at - 1) <=> i \in 1..(t.at - 1) \/ i = t.at BY <1>1, <3>1
    <3> QED BY <1>8, <3>1, <3>2 DEF DeletedUpTo
  <2> QED BY <2>1, <2>2
<1>10. q.removed[s] = rows /\ \A u \in Sections \ {s} : q.removed[u] = t.removed[u]
  BY <1>1, <1>6 DEF Content
<1>11. q.phase \in {"deleting", "inserting"} /\ (q.phase = "inserting" => last)
  BY <1>6
<1> QED BY <1>1, <1>6, <1>7, <1>9, <1>10, <1>11, SMTT(30) DEF Went

(* A PUT whose DELETE of section s has just removed rows goes on.            *)
LEMMA DeletedStep ==
    ASSUME ReplaceInv, NEW p \in Puts, put[p].phase \in {"deleting", "waiting"},
           NEW s, s = DeleteOrder[put[p].at], NEW rows \in SUBSET Row,
           put' = [put EXCEPT ![p] = Deleted(put[p], s, rows)],
           UNCHANGED <<tables, overlapped>>,
           \A row \in rows : row.company = put[p].company,
           put[p].found[s] \cap tables[s] \subseteq rows,
           p \notin overlapped => Of(put[p].company, tables)[s] \subseteq rows
    PROVE  ReplaceInv'
<1> DEFINE q == Deleted(put[p], s, rows)
<1>0. Went(p, q, s, rows) /\ DeletedUpTo(q) = Gone(p) \cup {s}
  <2>1. TypeOK /\ FlushInv(p) BY DEF ReplaceInv
  <2> HIDE DEF q
  <2>2. q = Deleted(put[p], s, rows) BY DEF q
  <2> QED BY <2>1, <2>2, DeletedFacts
<1>2. put' = [put EXCEPT ![p] = q] /\ tables' = tables /\ overlapped' = overlapped
  OBVIOUS
<1> HIDE DEF q
<1>1. /\ q \in Put /\ s \in Sections
      /\ q.phase \in {"deleting", "inserting"}
      /\ q.company = put[p].company /\ q.payload = put[p].payload
      /\ q.found = put[p].found /\ q.reply = put[p].reply /\ q.inserted = Nothing
      /\ q.removed[s] = rows
      /\ \A u \in Sections \ {s} : q.removed[u] = put[p].removed[u]
      /\ q.phase = "inserting" =>
            q.at = 1 /\ q.left = {u \in Sections : q.payload[u] # <<>>}
  BY <1>0 DEF Went
<1>3. put[p].reply = "none" /\ OwnInv(p) /\ AloneInv(p) BY DEF ReplaceInv, OwnInv
<1>4. Moves(p, q)
  BY <1>1, <1>2, <1>3 DEF Moves, ReplaceInv, TypeOK, Committed, Running
<1>5. /\ put'[p] = q /\ \A o \in Puts \ {p} : put'[o] = put[o]
      /\ \A o \in Puts : Committed(o)' <=> Committed(o)
  BY <1>4, MovesPuts DEF ReplaceInv
<1>6. Rows(p)' = Rows(p) BY <1>1, <1>5 DEF Rows
<1>7. Gone(p)' = Gone(p) \cup {s} BY <1>0, <1>5 DEF Gone, DeletedUpTo
<1>12. Gone(p) \subseteq Sections
  <2>1. TypeOK BY DEF ReplaceInv
  <2>2. put[p].at \in 1..8 BY <2>1 DEF TypeOK, Put
  <2> QED BY <2>2, SectionFacts DEF Gone
<1>8. FlushInv(p)'
  <2>1. ASSUME NEW u \in Sections
        PROVE  {row \in Rows(p)'[u] : row.n <= 0} = {} /\ 0 \in 0..Len(q.payload[u])
               /\ (q.payload[u] # <<>> <=> 0 < Len(q.payload[u]))
    <3>1. q.payload \in Payloads BY <1>1, RowOfPut DEF ReplaceInv
    <3>2. \A row \in Rows(p)[u] : row.n \in 1..Len(put[p].payload[u])
      BY RowOfPut DEF ReplaceInv
    <3>4. Len(put[p].payload[u]) \in Nat BY <1>1, <3>1, PayloadFacts
    <3>5. \A row \in Rows(p)[u] : ~(row.n <= 0) BY <3>2, <3>4
    <3> QED BY <1>6, <3>1, <3>5, PayloadFacts
  <2>2. CASE q.phase = "inserting"
    <3>1. \A u \in Sections : q.inserted[u] = {} BY <1>1, ContentFacts
    <3> QED BY <1>1, <1>5, <2>1, <2>2, <3>1 DEF FlushInv, Upto
  <2>3. CASE q.phase # "inserting" BY <1>1, <1>5, <2>3 DEF FlushInv
  <2> QED BY <2>2, <2>3
<1>9. OwnInv(p)'
  <2>1. \A u \in Sections : \A row \in q.removed[u] : row.company = q.company
    BY <1>1, <1>3 DEF OwnInv
  <2>2. \A u \in Gone(p) \cup {s} : q.found[u] \cap tables[u] \subseteq q.removed[u]
    <3>1. \A u \in Gone(p) : put[p].found[u] \cap tables[u] \subseteq put[p].removed[u]
      BY <1>3 DEF OwnInv
    <3> QED BY <1>1, <1>12, <3>1
  <2>3. \A u \in Sections : \A row \in q.found[u] :
           row.company = q.company /\ (row.by # NoPut => Committed(row.by)')
    BY <1>4, FoundKept
  <2> QED BY <1>1, <1>2, <1>3, <1>5, <1>7, <2>1, <2>2, <2>3, SMTT(30) DEF OwnInv
<1>10. AloneInv(p)'
  <2>1. \A c : Of(c, tables)' = Of(c, tables) BY <1>2 DEF Of
  <2>3. p \notin overlapped => put[p].phase = "deleting" BY <1>3 DEF AloneInv
  <2>4. p \notin overlapped =>
           \A u \in Gone(p) \cup {s} : Of(q.company, tables)[u] \subseteq q.removed[u]
    BY <1>1, <1>3, <1>12, <2>3 DEF AloneInv
  <2>5. p \notin overlapped =>
           \A o \in Puts \ {p} : ~(Running(o)' /\ put'[o].company = q.company)
    BY <1>1, <1>3, <1>5 DEF AloneInv, Running
  <2>6. ~DuplicateCodes(q.payload) BY <1>1, <1>3 DEF AloneInv, Running
  <2> QED BY <1>1, <1>2, <1>5, <1>7, <2>1, <2>4, <2>5, <2>6 DEF AloneInv
<1>11. ExactOf(p)' BY <1>1, <1>5 DEF ExactOf
<1> QED BY <1>4, <1>8, <1>9, <1>10, <1>11, MovesInv

(* Of the rows that other PUTs have locked none is of the company of a PUT   *)
(* that runs alone.                                                          *)
LEMMA AloneUnlocked ==
    ASSUME ReplaceInv, NEW p \in Puts, Running(p), p \notin overlapped, NEW s \in Sections
    PROVE  Of(put[p].company, tables)[s] \cap LockedRows(p, s) = {}
<1>1. SUFFICES ASSUME NEW row \in Of(put[p].company, tables)[s], NEW o \in Puts \ {p},
                      Open(o), row \in put[o].removed[s]
               PROVE  FALSE
  BY DEF LockedRows
<1>2. row.company = put[p].company BY <1>1, OfFacts DEF ReplaceInv, TypeOK
<1>3. row.company = put[o].company BY <1>1 DEF ReplaceInv, OwnInv
<1>4. Running(o) BY <1>1 DEF Open, Running
<1>5. AloneInv(p) BY DEF ReplaceInv
<1> QED BY <1>1, <1>2, <1>3, <1>4, <1>5 DEF AloneInv

LEMMA DeleteStep ==
    ASSUME ReplaceInv, NEW p \in Puts, Delete(p)
    PROVE  ReplaceInv'
<1> DEFINE t == put[p]
           s == DeleteOrder[put[p].at]
           rows == Of(put[p].company, tables)[s]
<1>1. /\ t.phase = "deleting" /\ UNCHANGED <<tables, overlapped>>
      /\ put' = [put EXCEPT ![p] = IF rows \cap LockedRows(p, s) = {} THEN Deleted(t, s, rows)
                                   ELSE [t EXCEPT !.phase = "waiting", !.victims = rows]]
  BY DEF Delete
<1>2. t \in Put /\ t.at \in 1..8 /\ s \in Sections
  BY SectionFacts DEF ReplaceInv, TypeOK, Put
<1>3. /\ rows \in SUBSET Row /\ rows = {row \in tables[s] : row.company = t.company}
  BY <1>2 DEF ReplaceInv, TypeOK, Content, Of
<1>4. OwnInv(p) /\ AloneInv(p) /\ FlushInv(p) /\ t.reply = "none"
  BY <1>1 DEF ReplaceInv, OwnInv
<1>5. t.found \in Content /\ \A row \in t.found[s] : row.company = t.company
  BY <1>2, <1>4 DEF OwnInv, Put
<1>6. CASE rows \cap LockedRows(p, s) = {}
  <2>1. put' = [put EXCEPT ![p] = Deleted(put[p], s, rows)] BY <1>1, <1>6
  <2>2. t.found[s] \cap tables[s] \subseteq rows BY <1>3, <1>5
  <2>3. \A row \in rows : row.company = put[p].company BY <1>3
  <2>4. put[p].phase \in {"deleting", "waiting"} BY <1>1
  <2>5. p \notin overlapped => Of(put[p].company, tables)[s] \subseteq rows OBVIOUS
  <2>7. UNCHANGED <<tables, overlapped>> BY <1>1
  <2>8. rows \in SUBSET Row BY <1>3
  <2> HIDE DEF rows, s
  <2>6. s = DeleteOrder[put[p].at] BY DEF s
  <2> QED BY <2>7, <2>8, <2>1, <2>2, <2>3, <2>4, <2>5, <2>6, DeletedStep
<1>7. CASE rows \cap LockedRows(p, s) # {}
  <2> DEFINE q == [t EXCEPT !.phase = "waiting", !.victims = rows]
  <2>1. /\ q \in Put /\ q.phase = "waiting" /\ q.victims = rows
        /\ q.company = t.company /\ q.payload = t.payload /\ q.at = t.at
        /\ q.found = t.found /\ q.reply = "none" /\ q.inserted = t.inserted
        /\ q.removed = t.removed
    <3>1. rows \in SUBSET Row /\ t.reply = "none" /\ t \in Put /\ "waiting" \in Phases
      BY <1>2, <1>3, <1>4 DEF Phases
    <3> HIDE DEF rows, s
    <3> QED BY <3>1 DEF Put
  <2>2. put' = [put EXCEPT ![p] = q] /\ tables' = tables /\ overlapped' = overlapped
    BY <1>1, <1>7
  <2>3. Running(p) BY <1>1 DEF Running
  <2>4. p \in overlapped BY <1>2, <1>7, <2>3, AloneUnlocked
  <2> HIDE DEF q, rows, s
  <2>5. Moves(p, q)
    BY <1>1, <1>4, <2>1, <2>2 DEF Moves, ReplaceInv, TypeOK, Committed, Running
  <2>6. put'[p] = q BY <2>5, MovesPuts DEF ReplaceInv
  <2>7. Gone(p)' = Gone(p) BY <1>1, <2>1, <2>6 DEF Gone
  <2>8. FlushInv(p)' BY <1>1, <1>4, <2>1, <2>6 DEF FlushInv
  <2>9. OwnInv(p)'
    <3>1. \A u \in Sections : \A row \in q.found[u] :
             row.company = q.company /\ (row.by # NoPut => Committed(row.by)')
      BY <1>1, <2>5, FoundKept
    <3>2. q.found[s] \cap tables[s] \subseteq q.victims
      BY <1>3, <1>5, <2>1
    <3>3. \A row \in q.victims : row.company = q.company BY <1>3, <2>1
    <3>4. DeleteOrder[q.at] = s BY <2>1 DEF s
    <3> QED BY <1>1, <1>4, <2>1, <2>2, <2>6, <2>7, <3>1, <3>2, <3>3, <3>4 DEF OwnInv
  <2>10. AloneInv(p)' BY <1>4, <2>1, <2>2, <2>3, <2>4, <2>6 DEF AloneInv
  <2>11. ExactOf(p)' BY <2>1, <2>6 DEF ExactOf
  <2> QED BY <2>5, <2>8, <2>9, <2>10, <2>11, MovesInv
<1> QED BY <1>6, <1>7

LEMMA ResumeStep ==
    ASSUME ReplaceInv, NEW p \in Puts, DeleteResumes(p)
    PROVE  ReplaceInv'
<1> DEFINE s == DeleteOrder[put[p].at]
           rows == put[p].victims \cap tables[s]
<1>1. /\ put[p].phase = "waiting" /\ UNCHANGED <<tables, overlapped>>
      /\ put' = [put EXCEPT ![p] = Deleted(put[p], s, rows)]
  BY DEF DeleteResumes
<1>2. rows \in SUBSET Row BY DEF ReplaceInv, TypeOK, Put
<1>3. /\ \A row \in rows : row.company = put[p].company
      /\ put[p].found[s] \cap tables[s] \subseteq rows
      /\ p \in overlapped
  BY <1>1 DEF ReplaceInv, OwnInv, AloneInv
<1>4. put[p].phase \in {"deleting", "waiting"} BY <1>1
<1> HIDE DEF s, rows
<1>5. s = DeleteOrder[put[p].at] BY DEF s
<1> QED BY <1>1, <1>2, <1>3, <1>4, <1>5, DeletedStep

-----------------------------------------------------------------------------
(* The flush.                                                                *)

LEMMA InsertStep ==
    ASSUME ReplaceInv, NEW p \in Puts, NEW s \in Sections, Insert(p, s)
    PROVE  ReplaceInv'
<1> DEFINE t == put[p]
           row == NextRow(p, s)
           I == [t.inserted EXCEPT ![s] = @ \cup {row}]
           L == IF row.n = Len(t.payload[s]) THEN t.left \ {s} ELSE t.left
           q == [t EXCEPT !.inserted = I, !.left = L]
<1>1. /\ t \in Put /\ t.inserted \in Content /\ t.left \in SUBSET Sections
      /\ t.phase = "inserting" /\ s \in t.left /\ tables' = tables /\ overlapped' = overlapped
      /\ TypeOK /\ FlushInv(p) /\ OwnInv(p) /\ AloneInv(p) /\ t.reply = "none"
  BY DEF Insert, InFlush, ReplaceInv, TypeOK, Put, OwnInv
<1>2. put' = [put EXCEPT ![p] = q]
  BY <1>1 DEF Insert, TypeOK, Put
<1>3. PICK k \in Nat :
         /\ k < Len(t.payload[s])
         /\ t.inserted[s] = Upto(p, s, k)
         /\ row \in Rows(p)[s] /\ row.n = k + 1
         /\ t.inserted[s] \cup {row} = Upto(p, s, k + 1)
  BY <1>1, NextRowFacts
<1>4. Rows(p) \in Content BY <1>1, RowOfPut
<1>5. /\ I \in Content /\ I[s] = Upto(p, s, k + 1)
      /\ \A u \in Sections \ {s} : I[u] = t.inserted[u]
  <2>1. row \in Row /\ t.inserted[s] \in SUBSET Row BY <1>1, <1>3, <1>4 DEF Content
  <2>2. t.inserted[s] \cup {row} \in SUBSET Row BY <2>1
  <2>3. I = [t.inserted EXCEPT ![s] = t.inserted[s] \cup {row}] OBVIOUS
  <2> HIDE DEF I, row
  <2> QED BY <1>1, <1>3, <2>2, <2>3 DEF Content
<1>6. L \in SUBSET Sections BY <1>1
<1>7. /\ s \in L <=> k + 1 # Len(t.payload[s])
      /\ \A u \in Sections \ {s} : u \in L <=> u \in t.left
  BY <1>1, <1>3
<1> HIDE DEF row, I, L
<1>8. /\ q \in Put /\ q.phase = "inserting" /\ q.company = t.company /\ q.payload = t.payload
      /\ q.at = t.at /\ q.found = t.found /\ q.reply = "none" /\ q.inserted = I
      /\ q.left = L /\ q.removed = t.removed
  BY <1>1, <1>5, <1>6 DEF Put
<1> HIDE DEF q
<1>9. Moves(p, q)
  BY <1>1, <1>2, <1>8 DEF Moves, ReplaceInv, TypeOK, Committed, Running
<1>10. /\ put'[p] = q /\ \A o \in Puts \ {p} : put'[o] = put[o]
       /\ \A o \in Puts : Committed(o)' <=> Committed(o)
  BY <1>9, MovesPuts DEF ReplaceInv
<1>11. Rows(p)' = Rows(p) /\ Gone(p)' = Gone(p) BY <1>1, <1>8, <1>10 DEF Rows, Gone
<1>12. FlushInv(p)'
  <2>1. Len(t.payload[s]) \in Nat BY <1>1, RowOfPut, PayloadFacts
  <2>2. ASSUME NEW u \in Sections
        PROVE  \E j \in 0..Len(q.payload[u]) :
                  /\ q.inserted[u] = {x \in Rows(p)[u] : x.n <= j}
                  /\ u \in q.left <=> j < Len(q.payload[u])
    <3>1. CASE u = s
      <4>1. k + 1 \in 0..Len(t.payload[s]) BY <1>3, <2>1
      <4>2. k + 1 # Len(t.payload[s]) <=> k + 1 < Len(t.payload[s]) BY <1>3, <2>1
      <4> QED BY <1>5, <1>7, <1>8, <3>1, <4>1, <4>2 DEF Upto
    <3>2. CASE u # s
      <4>1. PICK j \in 0..Len(t.payload[u]) :
               t.inserted[u] = Upto(p, u, j) /\ (u \in t.left <=> j < Len(t.payload[u]))
        BY <1>1 DEF FlushInv
      <4> QED BY <1>5, <1>7, <1>8, <3>2, <4>1 DEF Upto
    <3> QED BY <3>1, <3>2
  <2>3. q.at = 1 BY <1>1, <1>8 DEF FlushInv
  <2> QED BY <1>8, <1>10, <1>11, <2>2, <2>3 DEF FlushInv, Upto
<1>13. OwnInv(p)'
  <2>1. \A u \in Sections : \A x \in q.found[u] :
           x.company = q.company /\ (x.by # NoPut => Committed(x.by)')
    BY <1>1, <1>9, FoundKept
  <2> QED BY <1>1, <1>8, <1>10, <1>11, <2>1 DEF OwnInv
<1>14. AloneInv(p)'
  <2>1. \A c : Of(c, tables)' = Of(c, tables) BY <1>1 DEF Of
  <2>2. p \notin overlapped =>
           \A o \in Puts \ {p} : ~(Running(o)' /\ put'[o].company = q.company)
    BY <1>1, <1>8, <1>10 DEF AloneInv, Running
  <2> QED BY <1>1, <1>8, <1>10, <1>11, <2>1, <2>2 DEF AloneInv, Running
<1>15. ExactOf(p)' BY <1>8, <1>10 DEF ExactOf
<1> QED BY <1>9, <1>12, <1>13, <1>14, <1>15, MovesInv

(* An open PUT that ends without a commit.                                   *)
LEMMA FinishStep ==
    ASSUME ReplaceInv, NEW p \in Puts, Open(p), NEW reply \in {"constraint", "500"},
           Finish(p, reply), UNCHANGED <<tables, overlapped>>,
           p \notin overlapped =>
              \/ reply = "constraint" /\ Breaks(put[p].payload)
              \/ reply = "500" /\ Unfit(put[p].payload)
    PROVE  ReplaceInv'
<1> DEFINE t == put[p]
           q == [t EXCEPT !.phase = "done", !.reply = reply, !.at = 1,
                 !.victims = {}, !.removed = Nothing, !.inserted = Nothing, !.left = {}]
<1>1. t \in Put /\ OwnInv(p) /\ t.reply = "none" /\ t.phase \notin {"new", "done", "loading"}
  BY DEF ReplaceInv, TypeOK, OwnInv, Open
<1>2. put' = [put EXCEPT ![p] = q] /\ tables' = tables /\ overlapped' = overlapped
  BY DEF Finish
<1>3. /\ q \in Put /\ q.phase = "done" /\ q.company = t.company /\ q.payload = t.payload
      /\ q.found = t.found /\ q.reply = reply /\ q.inserted = Nothing /\ q.removed = Nothing
  <2>1. Nothing \in Content BY ContentFacts
  <2>2. reply \in {"none", "200", "422", "constraint", "500"} /\ "done" \in Phases
        /\ 1 \in 1..8 /\ {} \in SUBSET Row /\ {} \in SUBSET Sections
    BY DEF Phases
  <2> QED BY <1>1, <2>1, <2>2 DEF Put
<1> HIDE DEF q
<1>4. Moves(p, q)
  BY <1>1, <1>2, <1>3 DEF Moves, ReplaceInv, TypeOK, Committed, Running
<1>5. put'[p] = q BY <1>4, MovesPuts DEF ReplaceInv
<1>6. FlushInv(p)' BY <1>3, <1>5 DEF FlushInv
<1>7. OwnInv(p)'
  <2>1. \A u \in Sections : \A x \in q.found[u] :
           x.company = q.company /\ (x.by # NoPut => Committed(x.by)')
    BY <1>1, <1>4, FoundKept
  <2> QED BY <1>3, <1>5, <2>1, ContentFacts DEF OwnInv
<1>8. AloneInv(p)' BY <1>3, <1>5 DEF AloneInv, Running
<1>9. ExactOf(p)' BY <1>2, <1>3, <1>5 DEF ExactOf
<1> QED BY <1>4, <1>6, <1>7, <1>8, <1>9, MovesInv

LEMMA InsertFailsStep ==
    ASSUME ReplaceInv, NEW p \in Puts, NEW s \in Sections, InsertFails(p, s)
    PROVE  ReplaceInv'
<1> DEFINE t == put[p]
           row == NextRow(p, s)
<1>1. /\ t.phase = "inserting" /\ s \in t.left /\ Violates(p, s)
      /\ Finish(p, "constraint") /\ UNCHANGED <<tables, overlapped>>
  BY DEF InsertFails, InFlush
<1>2. TypeOK /\ FlushInv(p) /\ AloneInv(p) BY DEF ReplaceInv
<1>3. Open(p) /\ Running(p) BY <1>1 DEF Open, Running
<1>4. PICK k \in Nat :
         /\ k < Len(t.payload[s])
         /\ t.inserted[s] = Upto(p, s, k)
         /\ row \in Rows(p)[s] /\ row.n = k + 1
  BY <1>1, <1>2, NextRowFacts
<1>5. \A x \in Rows(p)[s] :
         /\ x.company = t.company /\ x.n \in 1..Len(t.payload[s])
         /\ x.code = t.payload[s][x.n].code /\ x.field = t.payload[s][x.n].field
  BY <1>2, RowOfPut
<1> HIDE DEF row
<1>6. ASSUME p \notin overlapped
      PROVE  \E u \in Sections : \E n \in 1..Len(t.payload[u]) :
                BreaksConstraint(u, t.payload[u][n])
  <2>1. CASE BreaksConstraint(s, row)
    <3>1. BreaksConstraint(s, t.payload[s][row.n])
      BY <1>4, <1>5, <2>1 DEF BreaksConstraint
    <3> QED BY <1>4, <1>5, <3>1
  <2>2. CASE \E x \in (tables[s] \ t.removed[s]) \cup t.inserted[s] : SameKey(s, x, row)
    <3>1. PICK x \in (tables[s] \ t.removed[s]) \cup t.inserted[s] : SameKey(s, x, row)
      BY <2>2
    <3>2. s # "performance_records" /\ x.company = t.company /\ Key(s, x) = Key(s, row)
      BY <1>4, <1>5, <3>1 DEF SameKey
    <3>3. CASE x \in tables[s] \ t.removed[s]
      <4>1. x \in Of(t.company, tables)[s] BY <1>2, <3>2, <3>3, OfFacts DEF TypeOK
      <4>2. Of(t.company, tables)[s] \subseteq t.removed[s]
        BY <1>1, <1>2, <1>6 DEF AloneInv, Gone
      <4> QED BY <3>3, <4>1, <4>2
    <3>4. CASE x \in t.inserted[s]
      <4>1. x \in Rows(p)[s] /\ x.n <= k BY <1>4, <3>4 DEF Upto
      <4>2. x.n # row.n /\ x.n \in 1..Len(t.payload[s]) /\ row.n \in 1..Len(t.payload[s])
        <5>1. x.n \in 1..Len(t.payload[s]) /\ row.n \in 1..Len(t.payload[s])
          BY <1>4, <1>5, <4>1
        <5> QED BY <1>4, <4>1, <5>1
      <4>3. Key(s, x) = Key(s, t.payload[s][x.n]) /\ Key(s, row) = Key(s, t.payload[s][row.n])
        BY <1>4, <1>5, <4>1 DEF Key
      <4>4. DuplicateCodes(t.payload) BY <3>2, <4>2, <4>3 DEF DuplicateCodes
      <4> QED BY <1>2, <1>3, <4>4 DEF AloneInv
    <3> QED BY <3>1, <3>3, <3>4
  <2> QED BY <1>1, <2>1, <2>2 DEF Violates, row
<1>7. UNCHANGED <<tables, overlapped>> /\ Finish(p, "constraint") BY <1>1
<1>8. p \notin overlapped => Breaks(put[p].payload) BY <1>6 DEF Breaks
<1> QED BY <1>3, <1>7, <1>8, FinishStep

LEMMA InsertRaisesStep ==
    ASSUME ReplaceInv, NEW p \in Puts, NEW s \in Sections, InsertRaises(p, s)
    PROVE  ReplaceInv'
<1>1. /\ put[p].phase = "inserting" /\ Finish(p, "500") /\ UNCHANGED <<tables, overlapped>>
      /\ \E n \in 1..Len(put[p].payload[s]) : ~put[p].payload[s][n].fits
  BY DEF InsertRaises, InFlush
<1>2. Open(p) /\ Unfit(put[p].payload) BY <1>1 DEF Open, Unfit
<1> QED BY <1>1, <1>2, FinishStep

(* Only PUTs of one company wait for each other.                             *)
LEMMA WaitsOwn ==
    ASSUME ReplaceInv, NEW p \in Puts, NEW o \in Puts \ {p}, Open(p), Open(o),
           NEW s \in Sections, Waits(p, s, o)
    PROVE  p \in overlapped
<1> DEFINE t == put[p]
<1>1. TypeOK /\ AloneInv(p) /\ OwnInv(o) /\ FlushInv(o) /\ FlushInv(p) BY DEF ReplaceInv
<1>2. Running(p) /\ Running(o) BY DEF Open, Running
<1>3. CASE t.phase = "waiting" BY <1>1, <1>3 DEF AloneInv
<1>4. CASE t.phase # "waiting"
  <2>1. /\ t.phase = "inserting" /\ s \in t.left
        /\ \E row \in put[o].inserted[s] \cup put[o].removed[s] : SameKey(s, row, NextRow(p, s))
    BY <1>4 DEF Waits, InFlush
  <2>2. PICK row \in put[o].inserted[s] \cup put[o].removed[s] : SameKey(s, row, NextRow(p, s))
    BY <2>1
  <2>3. NextRow(p, s) \in Rows(p)[s] BY <1>1, <2>1, NextRowFacts
  <2>4. NextRow(p, s).company = t.company BY <1>1, <2>3, RowOfPut
  <2>5. row.company = t.company BY <2>2, <2>4 DEF SameKey
  <2>6. row.company = put[o].company
    <3>1. CASE row \in put[o].inserted[s] BY <1>1, <3>1, FlushRows, RowOfPut
    <3>2. CASE row \in put[o].removed[s] BY <1>1, <3>2 DEF OwnInv
    <3> QED BY <2>2, <3>1, <3>2
  <2> QED BY <1>1, <1>2, <2>5, <2>6 DEF AloneInv
<1> QED BY <1>3, <1>4

LEMMA DeadlockStep ==
    ASSUME ReplaceInv, NEW p \in Puts, NEW o \in Puts, Deadlock(p, o)
    PROVE  ReplaceInv'
<1>1. /\ Open(p) /\ Open(o) /\ o \in Puts \ {p} /\ Finish(p, "500")
      /\ UNCHANGED <<tables, overlapped>> /\ \E s \in Sections : Waits(p, s, o)
  BY DEF Deadlock
<1>2. p \in overlapped BY <1>1, WaitsOwn
<1>3. Open(p) /\ Finish(p, "500") /\ UNCHANGED <<tables, overlapped>> BY <1>1
<1> QED BY <1>2, <1>3, FinishStep

-----------------------------------------------------------------------------
(* The answer.                                                               *)

LEMMA LoadStep ==
    ASSUME ReplaceInv, NEW p \in Puts, Load(p)
    PROVE  ReplaceInv'
<1> DEFINE t == put[p]
           s == LoadOrder[put[p].at]
           R == [t.response EXCEPT ![s] = Of(t.company, tables)[s]]
           last == t.at = 8
           q == [t EXCEPT !.response = R, !.at = IF last THEN 1 ELSE t.at + 1,
                          !.phase = IF last THEN "done" ELSE "loading",
                          !.reply = IF last THEN "200" ELSE "none"]
<1>1. /\ t \in Put /\ t.phase = "loading" /\ tables' = tables /\ overlapped' = overlapped
      /\ t.at \in 1..8 /\ t.response \in Content /\ tables \in Content
      /\ TypeOK /\ FlushInv(p) /\ OwnInv(p) /\ AloneInv(p) /\ t.reply = "none"
  BY DEF Load, ReplaceInv, TypeOK, Put, OwnInv
<1>2. put' = [put EXCEPT ![p] = q]
  BY <1>1 DEF Load, TypeOK, Put
<1>3. s \in Sections BY <1>1, SectionFacts
<1>4. Of(t.company, tables) \in Content BY <1>1, OfFacts
<1>5. /\ R \in Content /\ R[s] = Of(t.company, tables)[s]
      /\ \A u \in Sections \ {s} : R[u] = t.response[u]
  BY <1>1, <1>3, <1>4 DEF Content
<1> HIDE DEF R
<1>6. /\ q \in Put /\ q.company = t.company /\ q.payload = t.payload
      /\ q.found = t.found /\ q.inserted = t.inserted /\ q.removed = t.removed
      /\ q.response = R
      /\ q.at = IF last THEN 1 ELSE t.at + 1
      /\ q.phase = IF last THEN "done" ELSE "loading"
      /\ q.reply = IF last THEN "200" ELSE "none"
  <2>1. (IF last THEN 1 ELSE t.at + 1) \in 1..8 BY <1>1
  <2> QED BY <1>1, <1>5, <2>1 DEF Put, Phases
<1> HIDE DEF q
<1>7. Moves(p, q)
  BY <1>1, <1>2, <1>6 DEF Moves, ReplaceInv, TypeOK, Committed, Running
<1>8. /\ put'[p] = q /\ \A o \in Puts \ {p} : put'[o] = put[o]
      /\ \A o \in Puts : Committed(o)' <=> Committed(o)
  BY <1>7, MovesPuts DEF ReplaceInv
<1>9. Rows(p)' = Rows(p) BY <1>6, <1>8 DEF Rows
<1>10. FlushInv(p)' BY <1>1, <1>6, <1>8 DEF FlushInv
<1>11. OwnInv(p)'
  <2>1. \A u \in Sections : \A x \in q.found[u] :
           x.company = q.company /\ (x.by # NoPut => Committed(x.by)')
    BY <1>1, <1>7, FoundKept
  <2> QED BY <1>1, <1>6, <1>8, <2>1 DEF OwnInv
<1>12. p \notin overlapped =>
          /\ \A u \in Sections : Of(t.company, tables)[u] = Rows(p)[u]
          /\ \A i \in 1..t.at : R[LoadOrder[i]] = Rows(p)[LoadOrder[i]]
  <2> SUFFICES ASSUME p \notin overlapped
               PROVE  /\ \A u \in Sections : Of(t.company, tables)[u] = Rows(p)[u]
                      /\ \A i \in 1..t.at : R[LoadOrder[i]] = Rows(p)[LoadOrder[i]]
    OBVIOUS
  <2>1. /\ \A u \in Sections : Of(t.company, tables)[u] = Rows(p)[u]
        /\ \A i \in 1..(t.at - 1) : t.response[LoadOrder[i]] = Rows(p)[LoadOrder[i]]
    BY <1>1 DEF AloneInv
  <2>2. ASSUME NEW i \in 1..t.at PROVE R[LoadOrder[i]] = Rows(p)[LoadOrder[i]]
    <3>1. LoadOrder[i] \in Sections
      <4>1. i \in 1..8 BY <1>1
      <4> QED BY <4>1, SectionFacts
    <3>2. CASE LoadOrder[i] = s BY <1>3, <1>5, <2>1, <3>2
    <3>3. CASE LoadOrder[i] # s
      <4>1. i \in 1..(t.at - 1) BY <1>1, <3>3
      <4> QED BY <1>5, <2>1, <3>1, <3>3, <4>1
    <3> QED BY <3>2, <3>3
  <2> QED BY <2>1, <2>2
<1>13. AloneInv(p)'
  <2>1. \A c : Of(c, tables)' = Of(c, tables) BY <1>1 DEF Of
  <2>2. CASE last BY <1>6, <1>8, <2>2 DEF AloneInv, Running
  <2>3. CASE ~last
    <3>1. q.phase = "loading" /\ q.at - 1 = t.at BY <1>1, <1>6, <2>3
    <3>2. p \notin overlapped =>
             \A o \in Puts \ {p} : ~(Running(o)' /\ put'[o].company = q.company)
      BY <1>1, <1>6, <1>8 DEF AloneInv, Running
    <3>3. ~DuplicateCodes(q.payload) BY <1>1, <1>6 DEF AloneInv, Running
    <3> QED BY <1>1, <1>6, <1>8, <1>9, <1>12, <2>1, <3>1, <3>2, <3>3 DEF AloneInv
  <2> QED BY <2>2, <2>3
<1>14. ExactOf(p)'
  <2>1. CASE last
    <3>1. p \notin overlapped => R = Rows(p)
      <4> SUFFICES ASSUME p \notin overlapped PROVE R = Rows(p) OBVIOUS
      <4>1. \A u \in Sections : \E i \in 1..t.at : LoadOrder[i] = u BY <2>1, SectionFacts
      <4>2. \A u \in Sections : R[u] = Rows(p)[u] BY <1>12, <4>1
      <4>3. Rows(p) \in Content BY <1>1, RowOfPut
      <4> QED BY <1>5, <4>2, <4>3 DEF Content
    <3> QED BY <1>1, <1>6, <1>8, <2>1, <3>1 DEF ExactOf, Rows
  <2>2. CASE ~last BY <1>6, <1>8, <2>2 DEF ExactOf
  <2> QED BY <2>1, <2>2
<1> QED BY <1>7, <1>10, <1>11, <1>13, <1>14, MovesInv

-----------------------------------------------------------------------------
(* The commit.                                                               *)

(* What a commit does to the tables and to the PUTs.                         *)
LEMMA CommitFacts ==
    ASSUME ReplaceInv, NEW p \in Puts, Commit(p)
    PROVE  /\ TypeOK' /\ overlapped' = overlapped
           /\ put[p].phase = "inserting" /\ ~Committed(p)
           /\ \A s \in Sections :
                 /\ put[p].inserted[s] = Rows(p)[s]
                 /\ tables'[s] = (tables[s] \ put[p].removed[s]) \cup Rows(p)[s]
           /\ put'[p].phase = "loading" /\ put'[p].at = 1 /\ put'[p].reply = "none"
           /\ put'[p].removed = Nothing /\ put'[p].inserted = Nothing
           /\ put'[p].company = put[p].company /\ put'[p].payload = put[p].payload
           /\ put'[p].found = put[p].found
           /\ \A o \in Puts \ {p} : put'[o] = put[o]
<1> DEFINE t == put[p]
           q == [t EXCEPT !.phase = "loading", !.removed = Nothing, !.inserted = Nothing]
<1>1. /\ t \in Put /\ t.phase = "inserting" /\ t.left = {} /\ overlapped' = overlapped
      /\ tables' = [s \in Sections |-> (tables[s] \ t.removed[s]) \cup t.inserted[s]]
      /\ TypeOK /\ FlushInv(p) /\ t.reply = "none"
  BY DEF Commit, ReplaceInv, TypeOK, OwnInv
<1>2. put' = [put EXCEPT ![p] = q]
  BY <1>1 DEF Commit, TypeOK, Put
<1>3. /\ q \in Put /\ q.phase = "loading" /\ q.at = t.at /\ q.reply = "none"
      /\ q.removed = Nothing /\ q.inserted = Nothing
      /\ q.company = t.company /\ q.payload = t.payload /\ q.found = t.found
  <2>1. Nothing \in Content BY ContentFacts
  <2> QED BY <1>1, <2>1 DEF Put, Phases
<1>4. t.at = 1 BY <1>1 DEF FlushInv
<1>5. ASSUME NEW s \in Sections PROVE t.inserted[s] = Rows(p)[s]
  <2>1. PICK k \in 0..Len(t.payload[s]) :
           t.inserted[s] = Upto(p, s, k) /\ (s \in t.left <=> k < Len(t.payload[s]))
    BY <1>1 DEF FlushInv
  <2>2. Len(t.payload[s]) \in Nat BY <1>1, RowOfPut, PayloadFacts
  <2>3. k = Len(t.payload[s]) BY <1>1, <2>1, <2>2
  <2>4. \A row \in Rows(p)[s] : row.n \in 1..Len(t.payload[s]) BY <1>1, RowOfPut
  <2>5. \A row \in Rows(p)[s] : row.n <= k BY <2>2, <2>3, <2>4
  <2> QED BY <2>1, <2>5 DEF Upto
<1>6. tables' \in Content
  <2>1. \A s \in Sections : tables[s] \in SUBSET Row /\ t.inserted[s] \in SUBSET Row
    BY <1>1 DEF TypeOK, Content, Put
  <2> QED BY <1>1, <2>1 DEF Content
<1> HIDE DEF q
<1>7. put'[p] = q /\ \A o \in Puts \ {p} : put'[o] = put[o] BY <1>1, <1>2 DEF TypeOK
<1>8. TypeOK' BY <1>1, <1>2, <1>3, <1>6 DEF TypeOK
<1> QED BY <1>1, <1>3, <1>4, <1>5, <1>7, <1>8 DEF Committed

LEMMA CommitCommits ==
    ASSUME ReplaceInv, NEW p \in Puts, Commit(p)
    PROVE  \A o \in Puts : Committed(o)' <=> Committed(o) \/ o = p
BY CommitFacts DEF Committed

(* The rows of the other companies stay.                                     *)
LEMMA CommitOf ==
    ASSUME ReplaceInv, NEW p \in Puts, Commit(p), NEW c, c # put[p].company, NEW s \in Sections
    PROVE  Of(c, tables)'[s] = Of(c, tables)[s]
<1>1. tables'[s] = (tables[s] \ put[p].removed[s]) \cup Rows(p)[s] BY CommitFacts
<1>2. \A row \in put[p].removed[s] : row.company = put[p].company BY DEF ReplaceInv, OwnInv
<1>3. \A row \in Rows(p)[s] : row.company = put[p].company BY RowOfPut DEF ReplaceInv
<1> QED BY <1>1, <1>2, <1>3 DEF Of

LEMMA CommitWhole ==
    ASSUME ReplaceInv, NEW p \in Puts, Commit(p), NEW o \in Puts
    PROVE  WholeOf(o)'
<1>1. /\ put'[p].company = put[p].company /\ put'[p].payload = put[p].payload
      /\ put'[p].found = put[p].found /\ put[p].phase = "inserting"
      /\ \A x \in Puts \ {p} : put'[x] = put[x]
      /\ \A s \in Sections : tables'[s] = (tables[s] \ put[p].removed[s]) \cup Rows(p)[s]
  BY CommitFacts
<1>2. \A x \in Puts : /\ put'[x].company = put[x].company /\ put'[x].payload = put[x].payload
                      /\ put'[x].found = put[x].found /\ Rows(x)' = Rows(x)
  BY <1>1 DEF Rows
<1>3. \A x \in Puts : Committed(x)' <=> Committed(x) \/ x = p BY CommitCommits
<1>4. CASE put[o].company = put[p].company
  <2>1. \A s \in Sections : Rows(p)'[s] \subseteq Of(put'[o].company, tables')[s]
    <3>1. \A s \in Sections : \A row \in Rows(p)[s] : row.company = put[p].company
      BY RowOfPut DEF ReplaceInv
    <3> QED BY <1>1, <1>2, <1>4, <3>1 DEF Of
  <2> QED BY <1>2, <1>3, <1>4, <2>1 DEF WholeOf
<1>5. CASE put[o].company # put[p].company
  <2>1. \A s \in Sections : Of(put'[o].company, tables')[s] = Of(put[o].company, tables)[s]
    <3>1. \A c : c # put[p].company =>
             \A s \in Sections : Of(c, tables)'[s] = Of(c, tables)[s]
      BY CommitOf
    <3> QED BY <1>2, <1>5, <3>1 DEF Of
  <2>2. WholeOf(o) /\ o # p BY <1>5 DEF ReplaceInv
  <2>3. put'[o] = put[o] BY <1>1, <2>2
  <2> QED BY <1>2, <1>3, <1>5, <2>1, <2>2, <2>3 DEF WholeOf
<1> QED BY <1>4, <1>5

LEMMA CommitOwn ==
    ASSUME ReplaceInv, NEW p \in Puts, Commit(p), NEW o \in Puts
    PROVE  OwnInv(o)'
<1>1. /\ ~Committed(p) /\ put'[p].phase = "loading" /\ put'[p].reply = "none"
      /\ put'[p].removed = Nothing /\ put'[p].company = put[p].company
      /\ put'[p].found = put[p].found
      /\ \A x \in Puts \ {p} : put'[x] = put[x]
      /\ \A s \in Sections : tables'[s] = (tables[s] \ put[p].removed[s]) \cup Rows(p)[s]
  BY CommitFacts
<1>2. \A x \in Puts : Committed(x)' <=> Committed(x) \/ x = p BY CommitCommits
<1>3. OwnInv(o) BY DEF ReplaceInv
<1>4. \A s \in Sections : \A row \in put[o].found[s] : row.by \in Puts \cup {NoPut}
  BY DEF ReplaceInv, TypeOK, Put, Content, Row
<1>5. \A s \in Sections : \A row \in put[o].found[s] :
         row.company = put[o].company /\ (row.by # NoPut => Committed(row.by)')
  BY <1>2, <1>3, <1>4 DEF OwnInv
<1>6. CASE o = p BY <1>1, <1>5, <1>6, ContentFacts DEF OwnInv
<1>7. CASE o # p
  <2>1. put'[o] = put[o] /\ Gone(o)' = Gone(o) BY <1>1, <1>7 DEF Gone
  <2>2. \A s \in Sections : \A row \in Rows(p)[s] : row.by = p
    BY RowOfPut DEF ReplaceInv
  <2>3. p # NoPut BY ConstantsAssumption
  <2>4. \A s \in Sections : put[o].found[s] \cap Rows(p)[s] = {}
    BY <1>1, <1>3, <2>2, <2>3 DEF OwnInv
  <2>5. \A s \in Sections : put[o].found[s] \cap tables'[s] \subseteq put[o].found[s] \cap tables[s]
    BY <1>1, <2>4
  <2>6. Gone(o) \subseteq Sections /\ DeleteOrder[put[o].at] \in Sections
    <3>1. put[o].at \in 1..8 BY DEF ReplaceInv, TypeOK, Put
    <3> QED BY <3>1, SectionFacts DEF Gone
  <2> QED BY <1>3, <1>5, <2>1, <2>5, <2>6 DEF OwnInv
<1> QED BY <1>6, <1>7

LEMMA CommitAlone ==
    ASSUME ReplaceInv, NEW p \in Puts, Commit(p), NEW o \in Puts
    PROVE  AloneInv(o)'
<1>1. /\ put[p].phase = "inserting" /\ put'[p].phase = "loading" /\ put'[p].at = 1
      /\ put'[p].company = put[p].company /\ put'[p].payload = put[p].payload
      /\ overlapped' = overlapped
      /\ \A x \in Puts \ {p} : put'[x] = put[x]
      /\ \A s \in Sections : tables'[s] = (tables[s] \ put[p].removed[s]) \cup Rows(p)[s]
  BY CommitFacts
<1>2. \A x \in Puts : /\ put'[x].company = put[x].company /\ put'[x].payload = put[x].payload
                      /\ Rows(x)' = Rows(x) /\ (Running(x)' <=> Running(x))
  BY <1>1 DEF Rows, Running
<1>3. AloneInv(o) BY DEF ReplaceInv
<1>4. CASE o = p
  <2>1. p \notin overlapped =>
            \A s \in Sections : Of(put[p].company, tables)[s] \subseteq put[p].removed[s]
    BY <1>1, <1>3, <1>4 DEF AloneInv, Gone
  <2>2. \A s \in Sections : \A row \in Rows(p)[s] : row.company = put[p].company
    BY RowOfPut DEF ReplaceInv
  <2>3. p \notin overlapped => \A s \in Sections : Of(put'[p].company, tables')[s] = Rows(p)'[s]
    BY <1>1, <1>2, <2>1, <2>2 DEF Of
  <2> QED BY <1>1, <1>2, <1>3, <1>4, <2>3 DEF AloneInv
<1>5. CASE o # p
  <2>1. put'[o] = put[o] /\ Gone(o)' = Gone(o) BY <1>1, <1>5 DEF Gone
  <2>2. o \notin overlapped /\ Running(o) => put[o].company # put[p].company
    BY <1>1, <1>3, <1>5 DEF AloneInv, Running
  <2>3. \A c : c # put[p].company =>
           \A s \in Sections : Of(c, tables)'[s] = Of(c, tables)[s]
    BY CommitOf
  <2>4. o \notin overlapped /\ Running(o) =>
           \A s \in Sections : Of(put'[o].company, tables')[s] = Of(put[o].company, tables)[s]
    BY <2>1, <2>2, <2>3 DEF Of
  <2>5. Gone(o) \subseteq Sections
    <3>1. put[o].at \in 1..8 BY DEF ReplaceInv, TypeOK, Put
    <3> QED BY <3>1, SectionFacts DEF Gone
  <2>6. put[o].phase \in {"deleting", "inserting", "loading"} => Running(o) BY DEF Running
  <2> QED BY <1>1, <1>2, <1>3, <2>1, <2>4, <2>5, <2>6 DEF AloneInv
<1> QED BY <1>4, <1>5

LEMMA CommitStep ==
    ASSUME ReplaceInv, NEW p \in Puts, Commit(p)
    PROVE  ReplaceInv'
<1>1. /\ put'[p].phase = "loading" /\ put'[p].inserted = Nothing
      /\ overlapped' = overlapped /\ TypeOK'
      /\ \A x \in Puts \ {p} : put'[x] = put[x]
      /\ \A s \in Sections : tables'[s] = (tables[s] \ put[p].removed[s]) \cup Rows(p)[s]
  BY CommitFacts
<1>2. \A x \in Puts : Committed(x)' <=> Committed(x) \/ x = p BY CommitCommits
<1>3. RowsInv'
  <2>1. \A s \in Sections : \A row \in tables[s] : row.by \in Puts \cup {NoPut}
    BY DEF ReplaceInv, TypeOK, Content, Row
  <2>2. \A s \in Sections : \A row \in Rows(p)[s] : row.by = p
    BY RowOfPut DEF ReplaceInv
  <2> QED BY <1>1, <1>2, <2>1, <2>2 DEF ReplaceInv, RowsInv
<1>4. ASSUME NEW o \in Puts PROVE FlushInv(o)' /\ ExactOf(o)'
  <2>1. CASE o = p BY <1>1, <2>1 DEF FlushInv, ExactOf
  <2>2. CASE o # p
    <3>1. put'[o] = put[o] BY <1>1, <2>2
    <3>2. Rows(o)' = Rows(o) BY <3>1 DEF Rows
    <3> QED BY <1>1, <3>1, <3>2 DEF ReplaceInv, FlushInv, Upto, ExactOf
  <2> QED BY <2>1, <2>2
<1> QED BY <1>1, <1>3, <1>4, CommitWhole, CommitOwn, CommitAlone DEF ReplaceInv

-----------------------------------------------------------------------------
(* The theorems.                                                             *)

LEMMA ReplaceInit == Init => ReplaceInv
<1> SUFFICES ASSUME Init PROVE ReplaceInv
  OBVIOUS
<1>1. PICK c \in Companies, payload \in Payloads : tables = RowsOf(c, NoPut, payload)
  BY DEF Init
<1>2. /\ put = [p \in Puts |-> New] /\ overlapped = {}
  BY DEF Init
<1>3. /\ New \in Put /\ New.phase = "new" /\ New.reply = "none"
      /\ New.removed = Nothing /\ New.inserted = Nothing /\ New.found = Nothing
  BY NewFacts
<1>4. TypeOK BY <1>1, <1>2, <1>3, RowsFacts DEF TypeOK
<1>5. RowsInv BY <1>1, RowsFacts DEF RowsInv
<1> HIDE DEF New
<1>6. ASSUME NEW p \in Puts
      PROVE  FlushInv(p) /\ OwnInv(p) /\ AloneInv(p) /\ WholeOf(p) /\ ExactOf(p)
  <2>1. put[p] = New BY <1>2
  <2>2. FlushInv(p) BY <1>3, <2>1 DEF FlushInv
  <2>3. OwnInv(p) BY <1>3, <2>1, ContentFacts DEF OwnInv
  <2>4. AloneInv(p) BY <1>3, <2>1 DEF AloneInv, Running
  <2>5. WholeOf(p) /\ ExactOf(p) BY <1>3, <2>1 DEF WholeOf, ExactOf
  <2> QED BY <2>2, <2>3, <2>4, <2>5
<1> QED BY <1>4, <1>5, <1>6 DEF ReplaceInv

LEMMA ReplaceStep == ReplaceInv /\ [Next]_vars => ReplaceInv'
<1> SUFFICES ASSUME ReplaceInv, [Next]_vars PROVE ReplaceInv'
  OBVIOUS
<1>1. ASSUME NEW p \in Puts, NEW c \in Companies, NEW payload \in Payloads,
             Refuse(p, c, payload) \/ LookupRaises(p, c, payload) \/ Begin(p, c, payload)
      PROVE  ReplaceInv'
  BY <1>1, RefuseStep, LookupRaisesStep, BeginStep
<1>2. ASSUME NEW p \in Puts, Step(p) PROVE ReplaceInv'
  <2>1. CASE Delete(p) BY <2>1, DeleteStep
  <2>2. CASE DeleteResumes(p) BY <2>2, ResumeStep
  <2>3. CASE Commit(p) BY <2>3, CommitStep
  <2>4. CASE Load(p) BY <2>4, LoadStep
  <2>5. ASSUME NEW s \in Sections, Insert(p, s) PROVE ReplaceInv' BY <2>5, InsertStep
  <2>6. ASSUME NEW s \in Sections, InsertFails(p, s) PROVE ReplaceInv' BY <2>6, InsertFailsStep
  <2>7. ASSUME NEW s \in Sections, InsertRaises(p, s) PROVE ReplaceInv'
    BY <2>7, InsertRaisesStep
  <2>8. ASSUME NEW o \in Puts, Deadlock(p, o) PROVE ReplaceInv' BY <2>8, DeadlockStep
  <2> QED BY <1>2, <2>1, <2>2, <2>3, <2>4, <2>5, <2>6, <2>7, <2>8 DEF Step
<1>3. CASE UNCHANGED vars
  <2>1. tables' = tables /\ put' = put /\ overlapped' = overlapped BY <1>3 DEF vars
  <2>2. /\ \A o : (Committed(o)' <=> Committed(o)) /\ (Running(o)' <=> Running(o))
        /\ \A o : Rows(o)' = Rows(o) /\ Gone(o)' = Gone(o)
        /\ \A c : Of(c, tables)' = Of(c, tables)
    BY <2>1 DEF Committed, Running, Rows, Gone, Of
  <2>3. TypeOK' /\ RowsInv' BY <2>1, <2>2 DEF ReplaceInv, TypeOK, RowsInv
  <2>4. ASSUME NEW p \in Puts
        PROVE  FlushInv(p)' /\ OwnInv(p)' /\ AloneInv(p)' /\ WholeOf(p)' /\ ExactOf(p)'
    <3>1. FlushInv(p)' BY <2>1, <2>2 DEF ReplaceInv, FlushInv, Upto
    <3>2. OwnInv(p)' BY <2>1, <2>2 DEF ReplaceInv, OwnInv
    <3>3. AloneInv(p)' BY <2>1, <2>2 DEF ReplaceInv, AloneInv
    <3>4. WholeOf(p)' BY <2>1, <2>2 DEF ReplaceInv, WholeOf
    <3>5. ExactOf(p)' BY <2>1, <2>2 DEF ReplaceInv, ExactOf
    <3> QED BY <3>1, <3>2, <3>3, <3>4, <3>5
  <2> QED BY <2>3, <2>4 DEF ReplaceInv
<1> QED BY <1>1, <1>2, <1>3 DEF Next, Finished

LEMMA ReplaceAlways == Spec => []ReplaceInv
BY ReplaceInit, ReplaceStep, PTL DEF Spec

(* Every PUT has a profile, an answer and rows of the modelled kinds in      *)
(* every state: the rows of the flush exist, and the flush never looks for   *)
(* one beyond the last.                                                       *)
THEOREM TypeCorrect == Spec => []TypeOK
<1>1. ReplaceInv => TypeOK BY DEF ReplaceInv
<1> QED BY <1>1, ReplaceAlways, PTL

(* "Nothing is stored by half", for any number of concurrent PUTs, however    *)
(* they wait for, fail beside or are ended by one another: a reader finds     *)
(* the rows a PUT found when it began or all rows of one that committed.      *)
THEOREM HalfCorrect == Spec => []NoHalfProfile
<1>1. ReplaceInv => NoHalfProfile BY WholeEach DEF ReplaceInv
<1> QED BY <1>1, ReplaceAlways, PTL

-----------------------------------------------------------------------------
(* What is written.                                                          *)

(* A PUT that neither flushes nor has committed.                             *)
LEMMA WritesNothing ==
    ASSUME NEW p, put'[p].phase \notin {"inserting", "loading"}, put'[p].reply # "200"
    PROVE  WritesOf(p)'
BY DEF WritesOf, Committed

LEMMA WritesSame ==
    ASSUME WritesInv, NEW p \in Puts, put'[p] = put[p]
    PROVE  WritesOf(p)'
BY DEF WritesInv, WritesOf, Committed

LEMMA DeletedWrites ==
    ASSUME ReplaceInv, NEW p \in Puts, Delete(p) \/ DeleteResumes(p)
    PROVE  WritesOf(p)'
<1> DEFINE t == put[p]
           s == DeleteOrder[put[p].at]
<1>1. /\ t \in Put /\ t.phase \in {"deleting", "waiting"} /\ t.reply = "none"
      /\ t.inserted = Nothing /\ TypeOK
  BY DEF Delete, DeleteResumes, ReplaceInv, TypeOK, OwnInv, FlushInv
<1>2. ASSUME NEW rows, put' = [put EXCEPT ![p] = Deleted(t, s, rows)] PROVE WritesOf(p)'
  <2>1. put'[p] = Deleted(t, s, rows) BY <1>1, <1>2 DEF TypeOK
  <2>2. /\ Deleted(t, s, rows).inserted = Nothing /\ Deleted(t, s, rows).reply = "none"
        /\ Deleted(t, s, rows).phase # "loading"
    BY <1>1 DEF Deleted, Put
  <2> QED BY <2>1, <2>2, ContentFacts DEF WritesOf, Committed
<1>3. CASE Delete(p)
  <2>1. CASE put' = [put EXCEPT ![p] = Deleted(t, s, Of(t.company, tables)[s])]
    BY <1>2, <2>1
  <2>2. CASE put' = [put EXCEPT ![p] = [t EXCEPT !.phase = "waiting",
                                                 !.victims = Of(t.company, tables)[s]]]
    <3>1. put'[p].phase = "waiting" /\ put'[p].reply = "none" BY <1>1, <2>2 DEF TypeOK, Put
    <3> QED BY <3>1, WritesNothing
  <2> QED BY <1>3, <2>1, <2>2 DEF Delete
<1>4. CASE DeleteResumes(p) BY <1>2, <1>4 DEF DeleteResumes
<1> QED BY <1>3, <1>4

LEMMA InsertWrites ==
    ASSUME ReplaceInv, WritesInv, NEW p \in Puts, NEW s \in Sections, Insert(p, s)
    PROVE  WritesOf(p)'
<1> DEFINE t == put[p]
           row == NextRow(p, s)
<1>1. /\ t \in Put /\ t.phase = "inserting" /\ t.reply = "none" /\ s \in t.left
      /\ TypeOK /\ FlushInv(p) /\ t.payload[s][row.n].fits /\ ~BreaksConstraint(s, row)
  BY DEF Insert, InFlush, Fits, Violates, ReplaceInv, TypeOK, OwnInv
<1>2. /\ put'[p].phase = "inserting" /\ put'[p].reply = "none" /\ put'[p].payload = t.payload
      /\ put'[p].inserted[s] = t.inserted[s] \cup {row}
      /\ \A u \in Sections \ {s} : put'[p].inserted[u] = t.inserted[u]
  BY <1>1 DEF Insert, TypeOK, Put, Content
<1>3. Written(t.payload, s, row.n)
  <2>1. row \in Rows(p)[s] BY <1>1, NextRowFacts
  <2>2. row.code = t.payload[s][row.n].code /\ row.field = t.payload[s][row.n].field
    BY <1>1, <2>1, RowOfPut
  <2> QED BY <1>1, <2>2 DEF Written, BreaksConstraint
<1>4. \A u \in Sections : \A x \in t.inserted[u] : Written(t.payload, u, x.n)
  BY <1>1 DEF WritesInv, WritesOf
<1> HIDE DEF row
<1> QED BY <1>2, <1>3, <1>4 DEF WritesOf, Committed

LEMMA CommitWrites ==
    ASSUME ReplaceInv, WritesInv, NEW p \in Puts, Commit(p)
    PROVE  WritesOf(p)'
<1>1. /\ put[p].phase = "inserting" /\ put'[p].phase = "loading"
      /\ put'[p].payload = put[p].payload
      /\ \A s \in Sections : put[p].inserted[s] = Rows(p)[s]
  BY CommitFacts
<1>2. ASSUME NEW s \in Sections, NEW n \in 1..Len(put[p].payload[s])
      PROVE  Written(put[p].payload, s, n)
  <2>1. PICK row \in Rows(p)[s] : row.n = n BY RowOfPut DEF ReplaceInv
  <2> QED BY <1>1, <2>1 DEF WritesInv, WritesOf
<1> QED BY <1>1, <1>2 DEF WritesOf, Storable, Written

LEMMA LoadWrites ==
    ASSUME ReplaceInv, WritesInv, NEW p \in Puts, Load(p)
    PROVE  WritesOf(p)'
<1>1. put[p] \in Put /\ put[p].phase = "loading" /\ TypeOK
  BY DEF Load, ReplaceInv, TypeOK
<1>2. put'[p].payload = put[p].payload /\ put'[p].phase # "inserting"
  BY <1>1 DEF Load, TypeOK, Put
<1>3. Storable(put[p].payload) BY <1>1 DEF WritesInv, WritesOf, Committed
<1> QED BY <1>2, <1>3 DEF WritesOf

LEMMA WritesInit == Init => WritesInv
BY DEF Init, New, WritesInv, WritesOf, Committed

LEMMA WritesStep == ReplaceInv /\ WritesInv /\ [Next]_vars => WritesInv'
<1> SUFFICES ASSUME ReplaceInv, WritesInv, [Next]_vars, NEW p \in Puts PROVE WritesOf(p)'
  BY DEF WritesInv
<1>1. TypeOK BY DEF ReplaceInv
<1>2. ASSUME NEW o \in Puts, NEW c \in Companies, NEW payload \in Payloads,
             Refuse(o, c, payload) \/ LookupRaises(o, c, payload) \/ Begin(o, c, payload)
      PROVE  WritesOf(p)'
  <2>1. CASE o # p
    <3>1. put'[p] = put[p]
      BY <1>1, <1>2, <2>1 DEF Refuse, LookupRaises, Answer, Begin, TypeOK
    <3> QED BY <3>1, WritesSame
  <2>2. CASE o = p
    <3>1. put'[p].phase \in {"done", "deleting"} /\ put'[p].reply # "200"
      <4>1. New \in Put /\ New.reply = "none" BY NewFacts
      <4> HIDE DEF New
      <4>2. ASSUME NEW reply \in {"422", "500"}, Answer(p, c, payload, reply)
            PROVE  put'[p].phase = "done" /\ put'[p].reply = reply
        BY <1>1, <4>1, <4>2 DEF Answer, TypeOK, Put
      <4>3. CASE Begin(p, c, payload)
        BY <1>1, <4>1, <4>3 DEF Begin, TypeOK, Put
      <4> QED BY <1>2, <2>2, <4>2, <4>3 DEF Refuse, LookupRaises
    <3> QED BY <3>1, WritesNothing
  <2> QED BY <2>1, <2>2
<1>3. ASSUME NEW o \in Puts, Step(o) PROVE WritesOf(p)'
  <2>1. CASE o # p
    <3>1. CASE Delete(o) \/ DeleteResumes(o)
      BY <1>1, <2>1, <3>1, WritesSame DEF Delete, DeleteResumes, TypeOK
    <3>2. CASE Commit(o) \/ Load(o)
      BY <1>1, <2>1, <3>2, WritesSame DEF Commit, Load, TypeOK
    <3>3. ASSUME NEW s \in Sections, Insert(o, s) PROVE WritesOf(p)'
      BY <1>1, <2>1, <3>3, WritesSame DEF Insert, TypeOK
    <3>4. ASSUME NEW reply, Finish(o, reply) PROVE WritesOf(p)'
      BY <1>1, <2>1, <3>4, WritesSame DEF Finish, TypeOK
    <3> QED BY <1>3, <3>1, <3>2, <3>3, <3>4 DEF Step, InsertFails, InsertRaises, Deadlock
  <2>2. CASE o = p
    <3>1. CASE Delete(p) \/ DeleteResumes(p) BY <3>1, DeletedWrites
    <3>2. CASE Commit(p) BY <3>2, CommitWrites
    <3>3. CASE Load(p) BY <3>3, LoadWrites
    <3>4. ASSUME NEW s \in Sections, Insert(p, s) PROVE WritesOf(p)' BY <3>4, InsertWrites
    <3>5. ASSUME NEW reply \in {"constraint", "500"}, Finish(p, reply) PROVE WritesOf(p)'
      <4>1. put'[p].phase = "done" /\ put'[p].reply = reply
        <5>1. put[p] \in Put BY <1>1 DEF TypeOK
        <5> QED BY <1>1, <3>5, <5>1 DEF Finish, TypeOK, Put
      <4> QED BY <4>1, WritesNothing
    <3> QED BY <1>3, <2>2, <3>1, <3>2, <3>3, <3>4, <3>5
            DEF Step, InsertFails, InsertRaises, Deadlock
  <2> QED BY <2>1, <2>2
<1>4. CASE UNCHANGED vars BY <1>4, WritesSame DEF vars
<1> QED BY <1>2, <1>3, <1>4 DEF Next, Finished

LEMMA WritesAlways == Spec => []WritesInv
BY WritesInit, WritesStep, ReplaceAlways, PTL DEF Spec

(* A PUT that no other PUT of its company overlaps is refused only for a      *)
(* profile that cannot be accepted, fails in the database only on a family or *)
(* an empty field code and with a 500 only on a value that a column or the    *)
(* driver cannot take, leaves no row in those cases, is never ended by        *)
(* Postgres, and otherwise answers with exactly what it was sent, every row   *)
(* of which could be written.                                                 *)
THEOREM AloneCorrect == Spec => []AloneExact
BY ExactEach, ReplaceAlways, WritesAlways, PTL

-----------------------------------------------------------------------------
(* Only a commit takes a PUT from its flush to its answer.                    *)
LEMMA OnlyCommit ==
    ASSUME ReplaceInv, [Next]_vars, NEW p \in Puts,
           put[p].phase = "inserting", put'[p].phase = "loading"
    PROVE  Commit(p)
<1>1. TypeOK BY DEF ReplaceInv
<1>3. ASSUME NEW o \in Puts, NEW c \in Companies, NEW payload \in Payloads,
             Refuse(o, c, payload) \/ LookupRaises(o, c, payload) \/ Begin(o, c, payload)
      PROVE  FALSE
  <2>1. o # p BY <1>3 DEF Refuse, LookupRaises, Begin
  <2> QED BY <1>1, <1>3, <2>1 DEF Refuse, LookupRaises, Answer, Begin, TypeOK
<1>4. ASSUME NEW o \in Puts, Step(o) PROVE Commit(p)
  <2>1. CASE o = p
    <3>1. ~Delete(p) /\ ~DeleteResumes(p) /\ ~Load(p) BY DEF Delete, DeleteResumes, Load
    <3>2. ASSUME NEW s \in Sections, Insert(p, s) PROVE FALSE
      <4>1. put[p] \in Put BY <1>1 DEF TypeOK
      <4> QED BY <1>1, <3>2, <4>1 DEF Insert, TypeOK, Put
    <3>3. ASSUME NEW reply, Finish(p, reply) PROVE FALSE
      <4>1. put[p] \in Put BY <1>1 DEF TypeOK
      <4> QED BY <1>1, <3>3, <4>1 DEF Finish, TypeOK, Put
    <3> QED BY <1>4, <2>1, <3>1, <3>2, <3>3 DEF Step, InsertFails, InsertRaises, Deadlock
  <2>2. CASE o # p
    <3>1. put'[p] = put[p]
      <4>1. CASE Delete(o) \/ DeleteResumes(o)
        BY <1>1, <2>2, <4>1 DEF Delete, DeleteResumes, TypeOK
      <4>2. CASE Commit(o) \/ Load(o) BY <1>1, <2>2, <4>2 DEF Commit, Load, TypeOK
      <4>3. ASSUME NEW s \in Sections, Insert(o, s) PROVE put'[p] = put[p]
        BY <1>1, <2>2, <4>3 DEF Insert, TypeOK
      <4>4. ASSUME NEW reply, Finish(o, reply) PROVE put'[p] = put[p]
        BY <1>1, <2>2, <4>4 DEF Finish, TypeOK
      <4> QED BY <1>4, <4>1, <4>2, <4>3, <4>4 DEF Step, InsertFails, InsertRaises, Deadlock
    <3> QED BY <3>1
  <2> QED BY <2>1, <2>2
<1>5. CASE UNCHANGED vars BY <1>5 DEF vars
<1> QED BY <1>3, <1>4, <1>5 DEF Next, Finished

(* "Full replace": of the rows a PUT found when it began none survives its   *)
(* commit, whichever transactions it had to wait for, and the commit changes  *)
(* no row of another company.                                                 *)
THEOREM ReplaceCorrect == Spec => ReplacesWhatItFound
<1>1. ReplaceInv /\ [Next]_vars =>
        [\A p \in Puts : put[p].phase = "inserting" /\ put'[p].phase = "loading" =>
         \A s \in Sections :
            /\ tables'[s] \cap put[p].found[s] = {}
            /\ \A row \in tables[s] \cup tables'[s] : row.company # put[p].company
                 => row \in tables[s] \cap tables'[s]]_vars
  <2> SUFFICES ASSUME ReplaceInv, [Next]_vars, NEW p \in Puts,
                      put[p].phase = "inserting", put'[p].phase = "loading",
                      NEW s \in Sections
               PROVE  /\ tables'[s] \cap put[p].found[s] = {}
                      /\ \A row \in tables[s] \cup tables'[s] : row.company # put[p].company
                            => row \in tables[s] \cap tables'[s]
    OBVIOUS
  <2>1. Commit(p) BY OnlyCommit
  <2>2. tables'[s] = (tables[s] \ put[p].removed[s]) \cup Rows(p)[s] /\ ~Committed(p)
    BY <2>1, CommitFacts
  <2>3. OwnInv(p) BY DEF ReplaceInv
  <2>4. \A row \in Rows(p)[s] : row.company = put[p].company /\ row.by = p
    BY RowOfPut DEF ReplaceInv
  <2>5. put[p].found[s] \cap tables[s] \subseteq put[p].removed[s]
    BY <2>3 DEF OwnInv, Gone
  <2>6. \A row \in put[p].found[s] : row.by # p
    BY <2>2, <2>3, ConstantsAssumption DEF OwnInv
  <2>7. \A row \in put[p].removed[s] : row.company = put[p].company
    BY <2>3 DEF OwnInv
  <2>8. tables'[s] \cap put[p].found[s] = {} BY <2>2, <2>4, <2>5, <2>6
  <2> QED BY <2>2, <2>4, <2>7, <2>8
<1> QED BY <1>1, ReplaceAlways, PTL DEF Spec, ReplacesWhatItFound
=============================================================================
