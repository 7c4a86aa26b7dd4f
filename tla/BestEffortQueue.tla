--------------------------- MODULE BestEffortQueue ----------------------------
(***************************************************************************)
(* What the event sink keeps of its events (app/infra/s3/event_sink.py).    *)
(* An accepted event waits, is sent in one batch with all that wait, and    *)
(* waits again when the upload fails.  Above Bound waiting events the       *)
(* oldest are dropped.  Threads, locks and the list in the buffer do not    *)
(* appear.                                                                   *)
(*                                                                          *)
(* Spec is what the code does, Documented what its comments say it does.    *)
(***************************************************************************)
EXTENDS Naturals, FiniteSets

CONSTANTS
    Bound,       \* events kept for a retry
    Unencodable  \* events that cannot be written as UTF-8

VARIABLES
    accepted,  \* number of events accepted so far; events are 1..accepted
    waiting,   \* accepted events for which the next upload is still to come
    sending,   \* the batches being uploaded
    stored,    \* events some object of the bucket contains
    overtaken, \* a failed batch came back after older events had
    life       \* changes from one process to the next

queue == <<accepted, waiting, sending, stored, overtaken, life>>

Init ==
    /\ accepted = 0 /\ waiting = {} /\ sending = {} /\ stored = {}
    /\ overtaken = FALSE /\ life = 0

(* What goes on waiting of the given events: all, or Bound of them, the     *)
(* newest ones unless a batch has been overtaken.                            *)
Shed(events) ==
    /\ waiting' \subseteq events
    /\ waiting' # events => Cardinality(waiting') = Bound
    /\ ~overtaken' => \A lost \in events \ waiting', kept \in waiting' : lost < kept

Accept ==
    /\ accepted' = accepted + 1
    /\ Shed(waiting \cup {accepted'})
    /\ UNCHANGED <<sending, stored, overtaken, life>>

Send ==
    /\ waiting # {}
    /\ sending' = sending \cup {waiting}
    /\ waiting' = {}
    /\ UNCHANGED <<accepted, stored, overtaken, life>>

Confirm(batch) ==
    /\ sending' = sending \ {batch}
    /\ stored' = stored \cup batch
    /\ UNCHANGED <<accepted, waiting, overtaken, life>>

(* The upload fails, in the bucket or not.  Its return costs no event that  *)
(* was waiting.                                                              *)
Retry(batch) ==
    /\ sending' = sending \ {batch}
    /\ stored' \in {stored, stored \cup batch}
    /\ overtaken' = (overtaken \/ \E e \in batch, w \in waiting : w < e)
    /\ Shed(waiting \cup batch)
    /\ waiting \subseteq waiting'
    /\ UNCHANGED <<accepted, life>>

(* A batch is lost with the event in it that no upload can carry.           *)
Spoil(batch) ==
    /\ batch \cap Unencodable # {}
    /\ sending' = sending \ {batch}
    /\ UNCHANGED <<accepted, waiting, stored, overtaken, life>>

Die ==
    /\ waiting' = {} /\ sending' = {} /\ overtaken' = FALSE
    /\ life' = 1 - life
    /\ UNCHANGED <<accepted, stored>>

Promised ==
    \/ Accept \/ Send \/ Die
    \/ \E batch \in sending : Confirm(batch) \/ Retry(batch)

Next == Promised \/ \E batch \in sending : Spoil(batch)

Spec == Init /\ [][Next]_queue
Documented == Init /\ [][Promised]_queue
=============================================================================
