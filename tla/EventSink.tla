------------------------------ MODULE EventSink -------------------------------
(***************************************************************************)
(* S3EventSink (app/infra/s3/event_sink.py): events of POST /events wait in *)
(* a buffer until a thread takes all of them and uploads them as one object *)
(* outside the lock.  Three kinds of thread upload: the request threads,    *)
(* when the buffer has reached flush_max; the flusher, every                *)
(* flush_interval seconds; and the one that stops the process.  A failed    *)
(* batch goes back in front of the buffer.                                  *)
(*                                                                          *)
(* An event is its serial number.  When a process ends the next one starts  *)
(* with an empty buffer.                                                     *)
(***************************************************************************)
EXTENDS Naturals, Sequences, FiniteSets, Functions

CONSTANTS
    Adders,     \* threads that serve POST /events
    Flusher,    \* the thread of _run
    Stopper,    \* the thread of the application's shutdown
    FlushMax,   \* flush_max
    MaxBuffer,  \* _MAX_BUFFER
    MaxEvents,  \* bound: events of a behaviour
    Unencodable \* events that json.dumps writes and UTF-8 does not encode

ASSUME ConstantsAssumption ==
    /\ IsFiniteSet(Adders)
    /\ Flusher # Stopper /\ {Flusher, Stopper} \cap Adders = {}
    /\ {FlushMax, MaxBuffer} \subseteq Nat \ {0}
    /\ MaxEvents \in Nat

Threads == Adders \cup {Flusher, Stopper}

VARIABLES
    added,    \* number of events added so far
    buf,      \* _buf
    pc,       \* where each thread is
    batch,    \* batch[t]: the local variable of flush, while it uploads
    stored,   \* the events in the bucket
    troubled, \* history: an upload has failed since the stop began
    swept,    \* history: the newest event when stop began, then at its own flush
    overtaken, \* history: a failed batch was put in front of older events
    life      \* history: changes from one process to the next

vars == <<added, buf, pc, batch, stored, troubled, swept, overtaken, life>>

Uploading == {t \in Threads : pc[t] = "uploading"}
Batches == {Range(batch[t]) : t \in Uploading}
Pending == Range(buf) \cup UNION Batches

(* due: about to call flush; uploading: has taken its batch; done: stop has *)
(* returned.                                                                 *)
Places == {"idle", "waiting", "off", "joining", "due", "uploading", "ended", "done"}
PlacesOf(t) ==
    {"due", "uploading"} \cup
        IF t = Flusher THEN {"waiting", "ended"}
        ELSE IF t = Stopper THEN {"off", "joining", "done"} ELSE {"idle"}

(* A thread that is not uploading has no batch.                             *)
TypeOK ==
    /\ added \in 0..MaxEvents
    /\ buf \in Seq(1..added) /\ Len(buf) <= MaxBuffer
    /\ pc \in [Threads -> Places]
    /\ \A t \in Threads : pc[t] \in PlacesOf(t)
    /\ batch \in [Threads -> Seq(1..added)]
    /\ \A t \in Threads : pc[t] # "uploading" <=> batch[t] = <<>>
    /\ stored \subseteq 1..added
    /\ {troubled, overtaken} \subseteq BOOLEAN
    /\ swept \in 0..added
    /\ life \in {0, 1}

Started == [t \in Threads |->
              IF t = Flusher THEN "waiting" ELSE IF t = Stopper THEN "off" ELSE "idle"]

Init ==
    /\ added = 0
    /\ buf = <<>>
    /\ pc = Started
    /\ batch = [t \in Threads |-> <<>>]
    /\ stored = {}
    /\ troubled = FALSE /\ overtaken = FALSE
    /\ swept = 0 /\ life = 0

(* _stop.is_set()                                                           *)
Stopping == pc[Stopper] # "off"

-----------------------------------------------------------------------------
(* add and flush.                                                           *)

(* events[-_MAX_BUFFER:], the newest end of the list.                       *)
TrimOldestKept(events) ==  \* mutant
    IF Len(events) > MaxBuffer THEN SubSeq(events, 1, MaxBuffer + 1) ELSE events

Trim(events) ==
    IF Len(events) > MaxBuffer
    THEN SubSeq(events, Len(events) - MaxBuffer + 1, Len(events))
    ELSE events

(* add, under the lock; the call of flush comes after it.  It may come from *)
(* a request that has outlived the shutdown's patience.                      *)
Add(t) ==
    /\ pc[t] = "idle"
    /\ added < MaxEvents
    /\ added' = added + 1
    /\ buf' = Trim(Append(buf, added + 1))
    /\ pc' = [pc EXCEPT ![t] = IF Len(buf') >= FlushMax THEN "due" ELSE "idle"]
    /\ UNCHANGED <<batch, stored, troubled, swept, overtaken, life>>

(* The thread is done with flush, whether it returned or raised: every      *)
(* caller goes on as if nothing had happened.                                *)
ResumeUncaught(t) ==  \* mutant
    pc' = [pc EXCEPT ![t] = IF t = Flusher THEN "ended"
                            ELSE IF t = Stopper THEN "done" ELSE "idle"]

Resume(t) ==
    pc' = [pc EXCEPT ![t] = IF t = Flusher THEN "waiting"
                            ELSE IF t = Stopper THEN "done" ELSE "idle"]

(* flush, first critical section: nothing to do, or the whole buffer.       *)
TakeLeavesBuffer(t) ==  \* mutant
    /\ pc[t] = "due" /\ buf # <<>>
    /\ batch' = [batch EXCEPT ![t] = buf]
    /\ pc' = [pc EXCEPT ![t] = "uploading"]
    /\ UNCHANGED <<added, buf, stored, troubled, swept, overtaken, life>>

Take(t) ==
    /\ pc[t] = "due"
    /\ \/ /\ buf = <<>>
          /\ Resume(t)
          /\ UNCHANGED <<buf, batch>>
       \/ /\ buf # <<>>
          /\ batch' = [batch EXCEPT ![t] = buf]
          /\ buf' = <<>>
          /\ pc' = [pc EXCEPT ![t] = "uploading"]
    /\ swept' = IF t = Stopper THEN added ELSE swept
    /\ UNCHANGED <<added, stored, troubled, overtaken, life>>

(* The batch cannot be encoded: the strings in "properties" are not checked *)
(* and one cut inside a surrogate pair is no UTF-8.  This is after the take *)
(* and before the try block.                                                 *)
Spoilt(t) == Range(batch[t]) \cap Unencodable # {}

EncodeFails(t) ==
    /\ pc[t] = "uploading"
    /\ Spoilt(t)
    /\ batch' = [batch EXCEPT ![t] = <<>>]
    /\ Resume(t)
    /\ UNCHANGED <<added, buf, stored, troubled, swept, overtaken, life>>

(* put_object returns.                                                      *)
PutOk(t) ==
    /\ pc[t] = "uploading"
    /\ ~Spoilt(t)
    /\ stored' = stored \cup Range(batch[t])
    /\ batch' = [batch EXCEPT ![t] = <<>>]
    /\ Resume(t)
    /\ UNCHANGED <<added, buf, troubled, swept, overtaken, life>>

(* put_object raises, with the object in the bucket or not.                 *)
Overtaken(t) == overtaken' = (overtaken \/ \E e \in Range(batch[t]), w \in Range(buf) : w < e)

PutFailsBehind(t) ==  \* mutant
    /\ pc[t] = "uploading" /\ ~Spoilt(t)
    /\ buf' = Trim(buf \o batch[t])
    /\ batch' = [batch EXCEPT ![t] = <<>>]
    /\ troubled' = Stopping
    /\ Overtaken(t)
    /\ Resume(t)
    /\ UNCHANGED <<added, stored, swept, life>>

PutFails(t) ==
    /\ pc[t] = "uploading"
    /\ ~Spoilt(t)
    /\ stored' \in {stored, stored \cup Range(batch[t])}
    /\ buf' = Trim(batch[t] \o buf)
    /\ batch' = [batch EXCEPT ![t] = <<>>]
    /\ troubled' = Stopping
    /\ Overtaken(t)
    /\ Resume(t)
    /\ UNCHANGED <<added, swept, life>>

Upload(t) == EncodeFails(t) \/ PutOk(t) \/ PutFails(t)

-----------------------------------------------------------------------------
(* The flusher, stop, and the end of the process.                           *)

(* _stop.wait returns: by its timeout, or because the event is set.         *)
Wake ==
    /\ pc[Flusher] = "waiting"
    /\ pc' = [pc EXCEPT ![Flusher] = IF Stopping THEN "ended" ELSE "due"]
    /\ UNCHANGED <<added, buf, batch, stored, troubled, swept, overtaken, life>>

(* stop: set, join, flush.  Request threads may still be uploading: the     *)
(* server waits for them for 30 seconds only.                                *)
BeginStop ==
    /\ pc[Stopper] = "off"
    /\ pc' = [pc EXCEPT ![Stopper] = "joining"]
    /\ swept' = added
    /\ UNCHANGED <<added, buf, batch, stored, troubled, overtaken, life>>

(* The join times out only on a flusher that is uploading.                  *)
JoinOnly ==  \* mutant
    /\ pc[Stopper] = "joining"
    /\ pc[Flusher] \in {"ended", "uploading"}
    /\ pc' = [pc EXCEPT ![Stopper] = "done"]
    /\ UNCHANGED <<added, buf, batch, stored, troubled, swept, overtaken, life>>

Join ==
    /\ pc[Stopper] = "joining"
    /\ pc[Flusher] \in {"ended", "uploading"}
    /\ pc' = [pc EXCEPT ![Stopper] = "due"]
    /\ UNCHANGED <<added, buf, batch, stored, troubled, swept, overtaken, life>>

(* The process is gone, by a crash or after the stop, with all it held.     *)
ProcessEnds ==
    /\ buf' = <<>>
    /\ pc' = Started
    /\ batch' = [t \in Threads |-> <<>>]
    /\ troubled' = FALSE /\ overtaken' = FALSE
    /\ swept' = 0 /\ life' = 1 - life
    /\ UNCHANGED <<added, stored>>

Exit == pc[Stopper] = "done" /\ ProcessEnds

Next ==
    \/ \E t \in Adders : Add(t)
    \/ \E t \in Threads : Take(t) \/ Upload(t)
    \/ Wake \/ BeginStop \/ Join \/ ProcessEnds

Spec == Init /\ [][Next]_vars

(* Every upload ends, by the timeouts of the client if by nothing else, and *)
(* the bucket takes uploads again and again.                                 *)
FairSpec ==
    /\ Spec
    /\ WF_vars(Wake) /\ WF_vars(Join) /\ WF_vars(Exit)
    /\ \A t \in Threads :
          /\ WF_vars(Take(t))
          /\ WF_vars(Upload(t))
          /\ SF_vars(PutOk(t))

-----------------------------------------------------------------------------
(* Properties.                                                              *)

(* However uploads and failures of the threads interleave, an event is in   *)
(* memory once: no two threads upload it at a time, and a confirmed event   *)
(* is not uploaded again.                                                    *)
OneOwner ==
    /\ IsInjective(buf)
    /\ \A t \in Threads :
          /\ IsInjective(batch[t])
          /\ Range(batch[t]) \cap Range(buf) = {}
          /\ \A u \in Threads \ {t} : Range(batch[t]) \cap Range(batch[u]) = {}

(* The sink is a best-effort queue: whatever threads overlap and fail, an   *)
(* accepted event goes from memory unconfirmed only with the process, in a  *)
(* batch that cannot be encoded, or when more than _MAX_BUFFER wait; then   *)
(* exactly _MAX_BUFFER remain, no event that was waiting goes for one that  *)
(* returns, and the oldest go first as long as no batch was overtaken.      *)
Queue == INSTANCE BestEffortQueue
           WITH Bound <- MaxBuffer, accepted <- added, waiting <- Range(buf),
                sending <- Batches
BestEffort == Queue!Spec

(* "What failed is put back by flush()": a batch that was not confirmed     *)
(* waits again.  The code takes it out of the buffer before it encodes it,  *)
(* and puts it back only if the upload fails.                                *)
FailedBatchesReturn == Queue!Documented

(* After stop nothing is left behind that was added before its own flush,   *)
(* which comes after stop was called, unless an upload has failed since it  *)
(* was called or one that it did not wait for is still running.              *)
StopDrains ==
    pc[Stopper] = "done" /\ ~troubled /\ Uploading = {} => \A e \in Pending : e > swept

(* No event is pending for ever: a failed batch is tried again until it is  *)
(* confirmed, even if no further event comes, unless it is lost.             *)
EventsDrain == \A e \in 1..MaxEvents : e \in Pending ~> e \notin Pending
=============================================================================
