------------------------------- MODULE BidReads -------------------------------
(***************************************************************************)
(* The read paths over the tables they share: clients that walk through a   *)
(* list and requests for recommendations, while the tables change.          *)
(***************************************************************************)
EXTENDS BidLists, Recommendations

vars == <<tableVars, listVars, askVars>>

TypeOK == TablesOK /\ ListsOK /\ AsksOK

Init == TablesInit /\ ListsInit /\ AskInit

(* Bounds: a behaviour has a walk or recommendations, and one request has   *)
(* read its rows before the next begins.  They meet only in the tables and  *)
(* in the cache, and neither writes a table.                                *)
Walking == walk # Null
Asking == \E r \in Requests : ask[r].phase # "new"
Reading == \E r \in Requests : ask[r].phase = "reading"

(* Everything that was asked for is answered.                               *)
Finished ==
    /\ walk # Null => walk.phase = "done"
    /\ \A r \in Requests : ask[r].phase \in {"new", "done", "unavailable"}
    /\ UNCHANGED vars

Next ==
    \/ TablesNext /\ UNCHANGED <<listVars, askVars>>
    \/ ~Asking /\ ListsNext /\ UNCHANGED askVars
    \/ ~Walking /\ (\E r \in Requests : AskStep(r)) /\ UNCHANGED listVars
    \/ ~Walking /\ ~Reading /\ AskBegins /\ UNCHANGED listVars
    \/ Finished

Spec == Init /\ [][Next]_vars
=============================================================================
