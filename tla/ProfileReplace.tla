---------------------------- MODULE ProfileReplace ----------------------------
(***************************************************************************)
(* PUT and GET /me/profile: a company's profile is eight tables, and a PUT  *)
(* replaces all of them in one READ COMMITTED transaction, eight DELETEs    *)
(* and then the INSERTs of one flush (CompanyProfileService.save_profile,   *)
(* CompanyProfileRepository.replace_profile), and answers with what it then *)
(* loads, table by table.                                                   *)
(* A DELETE waits for the rows another transaction has deleted and does not *)
(* see the rows that transaction inserts.  An INSERT waits for a key whose  *)
(* row another transaction has inserted or deleted and fails on one it then *)
(* finds.  Postgres ends one of two transactions that wait for each other.  *)
(***************************************************************************)
EXTENDS Naturals, Sequences, FiniteSets

CONSTANTS
    Companies,
    Puts,          \* concurrent PUT /me/profile requests
    Codes,         \* what a client may send as a code, BadCode among them
    BadCode,       \* a code that cannot be sent to the database (a NUL in it)
    Masters,       \* the codes of each master table
    Fields,        \* families of technical personnel
    NoCode, EmptyCode, BadField, NoField,
    Payloads,      \* the profiles that clients send
    MaxRows, MaxRowsLarge,  \* _MAX_ROWS, _MAX_ROWS_LARGE
    NoPut

(* The order of the DELETEs: _CHILD_MODELS, then CompanyQualification.      *)
Tables == <<"regions", "licenses", "items", "certs", "personnel", "capacity_evals",
            "performance_records", "qualification">>
TablesButPersonnel ==   \* mutant
    <<"regions", "licenses", "items", "certs", "capacity_evals", "performance_records",
      "qualification">>

DeleteOrder == Tables
LoadOrder == <<Tables[8]>> \o SubSeq(Tables, 1, 7)

Sections == {Tables[i] : i \in 1..8}

(* A row as sent: a code, the family for personnel, and whether the columns *)
(* can hold its other values: the schema bounds a headcount and an amount   *)
(* from below only, and lets a NUL into a text.                              *)
Sent == [code : Codes \cup {NoCode, EmptyCode}, field : Fields \cup {BadField, NoField},
         fits : BOOLEAN]

ASSUME ConstantsAssumption ==
    /\ Payloads \subseteq [Sections -> Seq(Sent)]
    /\ \A payload \in Payloads : Len(payload["qualification"]) <= 1
    /\ {MaxRows, MaxRowsLarge} \subseteq Nat
    /\ NoPut \notin Puts
    /\ BadCode \in Codes

VARIABLES
    tables,     \* committed rows of each section
    put,        \* the requests
    overlapped  \* history: PUTs that ran beside another one of their company

vars == <<tables, put, overlapped>>

Row == [company : Companies, code : Codes \cup {NoCode, EmptyCode},
        field : Fields \cup {BadField, NoField}, by : Puts \cup {NoPut}, n : Nat]
Content == [Sections -> SUBSET Row]
Nothing == [s \in Sections |-> {}]

Phases == {"new", "deleting", "waiting", "inserting", "loading", "done"}
Put == [phase : Phases, company : Companies, payload : Payloads,
        at : 1..8,            \* the table of the next DELETE or SELECT
        victims : SUBSET Row, \* of a DELETE that waits
        removed : Content, inserted : Content,
        found : Content,      \* history: the company's rows when the PUT began
        left : SUBSET Sections, response : Content,
        reply : {"none", "200", "422", "constraint", "500"}]  \* constraint: 422, by the database

TypeOK ==
    /\ tables \in Content
    /\ put \in [Puts -> Put]
    /\ overlapped \in SUBSET Puts

RowsOf(c, by, payload) ==
    [s \in Sections |-> {[company |-> c, code |-> payload[s][n].code,
                          field |-> payload[s][n].field, by |-> by, n |-> n]
                         : n \in 1..Len(payload[s])}]
Of(c, content) == [s \in Sections |-> {row \in content[s] : row.company = c}]

-----------------------------------------------------------------------------
(* Validation.                                                              *)

(* What must be unique in a section: the code, for personnel the code and   *)
(* the family.  A record of performance has a key of its own.               *)
Key(s, row) == IF s = "personnel" THEN <<row.code, row.field>> ELSE <<row.code>>
SameKey(s, a, b) ==
    s # "performance_records" /\ a.company = b.company /\ Key(s, a) = Key(s, b)

(* The limits of the request's schema.                                      *)
WithinLimits(payload) ==
    \A s \in Sections : Len(payload[s]) <= IF s \in {"items", "performance_records"}
                                           THEN MaxRowsLarge ELSE MaxRows

DuplicateCodesByCode(payload) ==   \* mutant
    \E s \in Sections \ {"performance_records", "personnel"} :
        \E i, j \in 1..Len(payload[s]) : i # j /\ payload[s][i].code = payload[s][j].code

DuplicateCodes(payload) ==
    \E s \in Sections \ {"performance_records"} :
        \E i, j \in 1..Len(payload[s]) : i # j /\ Key(s, payload[s][i]) = Key(s, payload[s][j])

(* Three sections share the license master; qualification has no code.     *)
MasterOf(s) ==
    Masters[IF s \in {"capacity_evals", "performance_records"} THEN "licenses" ELSE s]
(* The sections with a code that is in no master.  A record may have no     *)
(* field_code, or an empty one: neither is looked up.                        *)
Missing(payload) ==
    {s \in Sections \ {"qualification"} : \E n \in 1..Len(payload[s]) :
        /\ ~(s = "performance_records" /\ payload[s][n].code \in {NoCode, EmptyCode})
        /\ payload[s][n].code \notin MasterOf(s)}

(* A code that the look-up in a master cannot even be asked for.            *)
Unreadable(payload) ==
    \E s \in Sections \ {"qualification"} :
        \E n \in 1..Len(payload[s]) : payload[s][n].code = BadCode

(* What only the database refuses: a family outside its CHECK, and the      *)
(* foreign key of an empty field_code.                                      *)
BreaksConstraint(s, row) ==
    \/ s = "personnel" /\ row.field = BadField
    \/ s = "performance_records" /\ row.code = EmptyCode

(* Every row can be written.                                                *)
Storable(payload) ==
    \A s \in Sections : \A n \in 1..Len(payload[s]) :
        payload[s][n].fits /\ ~BreaksConstraint(s, payload[s][n])

(* The request comes past the schema and the check for duplicates ...       *)
Checked(payload) == WithinLimits(payload) /\ ~DuplicateCodes(payload)
(* ... and all its codes are in their masters.                               *)
Accepted(payload) == Checked(payload) /\ ~Unreadable(payload) /\ Missing(payload) = {}

-----------------------------------------------------------------------------
New == [phase |-> "new", company |-> CHOOSE c \in Companies : TRUE,
        payload |-> CHOOSE payload \in Payloads : TRUE, at |-> 1, victims |-> {},
        removed |-> Nothing, inserted |-> Nothing, found |-> Nothing, left |-> {},
        response |-> Nothing, reply |-> "none"]

(* Every company has no profile yet, or one that was saved before.          *)
Init ==
    /\ \E c \in Companies, payload \in Payloads :
          /\ Accepted(payload) /\ Storable(payload)
          /\ tables = RowsOf(c, NoPut, payload)
    /\ put = [p \in Puts |-> New]
    /\ overlapped = {}

Open(p) == put[p].phase \in {"deleting", "waiting", "inserting"}
Running(p) == put[p].phase \notin {"new", "done"}

(* Rows that the open transactions of others have deleted or inserted.      *)
LockedRows(p, s) == UNION {put[q].removed[s] : q \in {o \in Puts \ {p} : Open(o)}}

(* The next row of the flush in a section.                                  *)
NextRow(p, s) ==
    LET n == Cardinality(put[p].inserted[s]) + 1
    IN  CHOOSE row \in RowsOf(put[p].company, p, put[p].payload)[s] : row.n = n

(* The tables the flush may turn to: the one it is in, or else any.         *)
InFlush(p, s) ==
    /\ put[p].phase = "inserting" /\ s \in put[p].left
    /\ \A u \in put[p].left \ {s} : put[p].inserted[u] = {}

Fits(p, s) == put[p].payload[s][NextRow(p, s).n].fits

Waits(p, s, q) ==
    IF put[p].phase = "waiting"
    THEN s = DeleteOrder[put[p].at] /\ put[p].victims \cap put[q].removed[s] # {}
    ELSE /\ InFlush(p, s) /\ Fits(p, s)
         /\ \E row \in put[q].inserted[s] \cup put[q].removed[s] :
                SameKey(s, row, NextRow(p, s))
Blocked(p, s) == \E q \in Puts \ {p} : Open(q) /\ Waits(p, s, q)

Finish(p, reply) ==
    put' = [put EXCEPT ![p] = [@ EXCEPT !.phase = "done", !.reply = reply, !.at = 1,
                 !.victims = {}, !.removed = Nothing, !.inserted = Nothing, !.left = {}]]

Answer(p, c, payload, reply) ==
    put' = [put EXCEPT ![p] = [New EXCEPT !.phase = "done", !.company = c,
                                          !.payload = payload, !.reply = reply]]

(* save_profile refuses before it writes.                                   *)
Refuse(p, c, payload) ==
    /\ put[p].phase = "new"
    /\ ~Checked(payload) \/ (~Unreadable(payload) /\ Missing(payload) # {})
    /\ Answer(p, c, payload, "422")
    /\ UNCHANGED <<tables, overlapped>>

(* The SELECT on a master raises: a DataError, which nothing catches.       *)
LookupRaises(p, c, payload) ==
    /\ put[p].phase = "new"
    /\ Checked(payload) /\ Unreadable(payload)
    /\ Answer(p, c, payload, "500")
    /\ UNCHANGED <<tables, overlapped>>

Begin(p, c, payload) ==
    LET beside == {q \in Puts \ {p} : Running(q) /\ put[q].company = c}
    IN  /\ put[p].phase = "new"
        /\ Accepted(payload)
        /\ put' = [put EXCEPT ![p] = [New EXCEPT !.phase = "deleting", !.company = c,
                                         !.payload = payload, !.found = Of(c, tables)]]
        /\ overlapped' = overlapped \cup beside \cup (IF beside = {} THEN {} ELSE {p})
        /\ UNCHANGED tables

(* The next table, or the flush.                                            *)
Deleted(t, s, rows) ==
    [t EXCEPT !.removed[s] = rows, !.victims = {},
              !.at = IF t.at = Len(DeleteOrder) THEN 1 ELSE t.at + 1,
              !.phase = IF t.at = Len(DeleteOrder) THEN "inserting" ELSE "deleting",
              !.left = IF t.at = Len(DeleteOrder)
                       THEN {u \in Sections : t.payload[u] # <<>>} ELSE {}]

DeleteAtOnce(p) ==   \* mutant
    LET t == put[p]
        s == DeleteOrder[t.at]
        rows == Of(t.company, tables)[s]
    IN  /\ t.phase = "deleting"
        /\ rows \cap LockedRows(p, s) = {}
        /\ put' = [put EXCEPT ![p] = Deleted(t, s, {})]
        /\ tables' = [tables EXCEPT ![s] = @ \ rows]
        /\ UNCHANGED overlapped

(* DELETE ... WHERE company_id: the rows of its snapshot, at once or when   *)
(* the transactions that hold some of them have ended.                      *)
Delete(p) ==
    LET t == put[p]
        s == DeleteOrder[t.at]
        rows == Of(t.company, tables)[s]
    IN  /\ t.phase = "deleting"
        /\ put' = [put EXCEPT ![p] =
              IF rows \cap LockedRows(p, s) = {} THEN Deleted(t, s, rows)
              ELSE [t EXCEPT !.phase = "waiting", !.victims = rows]]
        /\ UNCHANGED <<tables, overlapped>>

DeleteResumes(p) ==
    LET t == put[p]
        s == DeleteOrder[t.at]
    IN  /\ t.phase = "waiting"
        /\ ~Blocked(p, s)
        /\ put' = [put EXCEPT ![p] = Deleted(t, s, t.victims \cap tables[s])]
        /\ UNCHANGED <<tables, overlapped>>

(* The next row has the key of one that is there, or breaks a constraint.   *)
Violates(p, s) ==
    \/ \E row \in (tables[s] \ put[p].removed[s]) \cup put[p].inserted[s] :
          SameKey(s, row, NextRow(p, s))
    \/ BreaksConstraint(s, NextRow(p, s))

(* One row of the flush; the tables come in any order.                      *)
Insert(p, s) ==
    LET t == put[p]
        row == NextRow(p, s)
        last == row.n = Len(t.payload[s])
    IN  /\ InFlush(p, s) /\ Fits(p, s)
        /\ ~Blocked(p, s)
        /\ ~Violates(p, s)
        /\ put' = [put EXCEPT ![p].inserted[s] = @ \cup {row},
                              ![p].left = IF last THEN @ \ {s} ELSE @]
        /\ UNCHANGED <<tables, overlapped>>

(* IntegrityError: everything is rolled back and the answer is 422.         *)
InsertFails(p, s) ==
    /\ InFlush(p, s) /\ Fits(p, s)
    /\ ~Blocked(p, s)
    /\ Violates(p, s)
    /\ Finish(p, "constraint")
    /\ UNCHANGED <<tables, overlapped>>

(* DataError: the rows of a table are sent together, and one does not fit.  *)
(* Everything is rolled back, but only an IntegrityError becomes a 422.     *)
InsertRaises(p, s) ==
    /\ InFlush(p, s)
    /\ \E n \in 1..Len(put[p].payload[s]) : ~put[p].payload[s][n].fits
    /\ Finish(p, "500")
    /\ UNCHANGED <<tables, overlapped>>

(* Postgres ends one of two transactions that wait for each other: no       *)
(* IntegrityError, so the answer is 500.                                    *)
Deadlock(p, q) ==
    /\ Open(p) /\ Open(q) /\ p # q
    /\ \E s \in Sections : Waits(p, s, q)
    /\ \E s \in Sections : Waits(q, s, p)
    /\ Finish(p, "500")
    /\ UNCHANGED <<tables, overlapped>>

Commit(p) ==
    LET t == put[p]
    IN  /\ t.phase = "inserting" /\ t.left = {}
        /\ tables' = [s \in Sections |-> (tables[s] \ t.removed[s]) \cup t.inserted[s]]
        /\ put' = [put EXCEPT ![p].phase = "loading", ![p].removed = Nothing,
                              ![p].inserted = Nothing]
        /\ UNCHANGED overlapped

(* get_profile: one SELECT per table, for the response.                     *)
Load(p) ==
    LET t == put[p]
        s == LoadOrder[t.at]
    IN  /\ t.phase = "loading"
        /\ put' = [put EXCEPT ![p].response[s] = Of(t.company, tables)[s],
                              ![p].at = IF t.at = 8 THEN 1 ELSE t.at + 1,
                              ![p].phase = IF t.at = 8 THEN "done" ELSE "loading",
                              ![p].reply = IF t.at = 8 THEN "200" ELSE "none"]
        /\ UNCHANGED <<tables, overlapped>>

Step(p) ==
    \/ Delete(p) \/ DeleteResumes(p) \/ Commit(p) \/ Load(p)
    \/ \E s \in Sections : Insert(p, s) \/ InsertFails(p, s) \/ InsertRaises(p, s)
    \/ \E q \in Puts : Deadlock(p, q)

(* All requests are answered.                                               *)
Finished == /\ \A p \in Puts : put[p].phase = "done"
            /\ UNCHANGED vars

Next ==
    \/ \E p \in Puts, c \in Companies, payload \in Payloads :
          Refuse(p, c, payload) \/ LookupRaises(p, c, payload) \/ Begin(p, c, payload)
    \/ \E p \in Puts : Step(p)
    \/ Finished

Spec == Init /\ [][Next]_vars

-----------------------------------------------------------------------------
(* Properties.                                                              *)

Committed(p) == put[p].phase = "loading" \/ put[p].reply = "200"
Stored(c, content) == \A s \in Sections : content[s] \subseteq Of(c, tables)[s]

(* "Nothing is stored by half": whatever fails, waits or is ended half way, *)
(* a reader finds the rows the profile had when a PUT began, or all rows of *)
(* some PUT that has committed.                                              *)
NoHalfProfile ==
    \A p \in Puts : put[p].phase # "new" /\ put[p].reply # "422" =>
        LET c == put[p].company
            done == {q \in Puts : put[q].company = c /\ Committed(q)}
        IN  IF done = {} THEN Stored(c, put[p].found)
            ELSE \E q \in done : Stored(c, RowsOf(c, q, put[q].payload))

(* "Full replace": of the rows a PUT found when it began none survives its  *)
(* commit, whoever it had to wait for, and no other company's row changes.  *)
(* (Rows that another PUT commits while it runs may survive.)               *)
ReplacesWhatItFound ==
    [][\A p \in Puts : put[p].phase = "inserting" /\ put'[p].phase = "loading" =>
         \A s \in Sections :
            /\ tables'[s] \cap put[p].found[s] = {}
            /\ \A row \in tables[s] \cup tables'[s] : row.company # put[p].company
                 => row \in tables[s] \cap tables'[s]]_vars

(* What the sections' keys, the masters and the schema's limits allow.      *)
Acceptable(payload) ==
    \A s \in Sections :
        LET rows == RowsOf(CHOOSE c \in Companies : TRUE, NoPut, payload)[s]
        IN  /\ \A a, b \in rows : SameKey(s, a, b) => a = b
            /\ s # "qualification" =>
                 {row.code : row \in rows} \subseteq
                    MasterOf(s) \cup
                    IF s = "performance_records" THEN {NoCode, EmptyCode} ELSE {}

(* A PUT that no other PUT of the company overlaps is refused when its      *)
(* profile cannot be accepted, fails by the database only on a family or an *)
(* empty field code, fails with a 500 only on a value that a column or the  *)
(* driver cannot take, and leaves no row then; else every row could be      *)
(* written, and it answers with exactly the profile it was sent.             *)
AloneExact ==
    \A p \in Puts \ overlapped : put[p].phase = "done" =>
        LET payload == put[p].payload
            reply == put[p].reply
        IN  /\ reply \in {"422", "constraint", "500", "200"}
            /\ reply = "422" => ~Acceptable(payload) \/ ~WithinLimits(payload)
            /\ reply = "constraint" => \E s \in Sections : \E n \in 1..Len(payload[s]) :
                                          BreaksConstraint(s, payload[s][n])
            /\ reply = "500" => \/ Unreadable(payload)
                                \/ \E s \in Sections : \E n \in 1..Len(payload[s]) :
                                      ~payload[s][n].fits
            /\ reply = "200" => /\ Storable(payload)
                                /\ put[p].response = RowsOf(put[p].company, p, payload)
            /\ reply # "200" => \A s \in Sections : \A row \in tables[s] : row.by # p
=============================================================================
