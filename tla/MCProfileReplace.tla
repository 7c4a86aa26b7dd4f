-------------------------- MODULE MCProfileReplace --------------------------
EXTENDS ProfileReplace, TLC
CONSTANTS c1, c2, unknown, civil

Sym == Permutations(Puts)

MCMasters == [m \in {"regions", "licenses", "items", "certs", "personnel"} |-> {c1, c2}]
None == [s \in Sections |-> <<>>]
Code(c) == [code |-> c, field |-> NoField, fits |-> TRUE]
Staff(c, f) == [code |-> c, field |-> f, fits |-> TRUE]
Huge(row) == [row EXCEPT !.fits = FALSE]

(* The empty profile, three that overlap in one or more tables and whose    *)
(* rows come in different orders, and one for each way to be refused or to   *)
(* fail.                                                                     *)
MCPayloads == {
    None,
    [None EXCEPT !["licenses"] = <<Code(c1)>>, !["qualification"] = <<Code(NoCode)>>,
                 !["performance_records"] = <<Code(NoCode)>>],
    [None EXCEPT !["licenses"] = <<Code(c2), Code(c1)>>,
                 !["performance_records"] = <<Code(c1)>>],
    [None EXCEPT !["licenses"] = <<Code(c1), Code(c2)>>,
                 !["personnel"] = <<Staff(c1, civil), Staff(c1, NoField)>>],
    [None EXCEPT !["personnel"] = <<Staff(c1, civil), Staff(c1, civil)>>],
    [None EXCEPT !["performance_records"] = <<Code(EmptyCode)>>],
    [None EXCEPT !["licenses"] = <<Code(c1)>>, !["personnel"] = <<Staff(c1, BadField)>>],
    [None EXCEPT !["licenses"] = <<Code(c2)>>,
                 !["personnel"] = <<Staff(c1, BadField), Huge(Staff(c2, civil))>>],
    [None EXCEPT !["certs"] = <<Code(BadCode)>>],
    [None EXCEPT !["capacity_evals"] = <<Code(unknown)>>],
    [None EXCEPT !["regions"] = <<Code(c1), Code(c2), Code(unknown)>>] }
=============================================================================
