--------------------------- MODULE RequestDetails ---------------------------
(***************************************************************************)
(* The request log of the dashboard,                                       *)
(* src/lib/db/repos/requestDetailsRepo.js: saveRequestDetail waits for the *)
(* settings and puts a record into a buffer in memory; the buffer is       *)
(* written in one transaction when it is full or its timer fires.  The     *)
(* write waits, too, so more records may arrive meanwhile.  A record of a  *)
(* stream is saved twice under one id: in progress, and final.  The table  *)
(* itself, where the later record of an id replaces the other and old ones *)
(* are trimmed, is left out.                                               *)
(***************************************************************************)
EXTENDS Integers, Sequences, SequencesExt

CONSTANTS
    Request,     \* the requests; a request is the id of its record
    BatchSize    \* records that trigger a write at once

ASSUME BatchAssumption == BatchSize \in Nat \ {0}

VARIABLES
    saving,      \* records whose saveRequestDetail waits for the settings
    writeBuffer, \* records waiting to be written
    flushTimer,  \* the timer that writes a buffer that does not fill is set
    batches,     \* batches taken out of the buffer and not yet written
    stranded     \* history: a failed write left records without a timer

details == <<saving, writeBuffer, flushTimer, batches, stranded>>

Detail == [id : Request, state : {"progress", "final"}]

DetailsTypeOK ==
    /\ saving \subseteq Detail
    /\ writeBuffer \in Seq(Detail)
    /\ flushTimer \in BOOLEAN
    /\ batches \in Seq(Seq(Detail))
    /\ stranded \in BOOLEAN

DetailsInit ==
    /\ saving = {}
    /\ writeBuffer = <<>>
    /\ flushTimer = FALSE
    /\ batches = <<>>
    /\ stranded = FALSE

-----------------------------------------------------------------------------
isFlushing == batches # <<>>

MayFlush(buffer) == ~isFlushing /\ buffer # <<>>

(* flushToDatabase, up to its first await.                                 *)
StartFlush(buffer) ==
    IF MayFlush(buffer)
    THEN writeBuffer' = <<>> /\ batches' = Append(batches, buffer)
    ELSE writeBuffer' = buffer /\ UNCHANGED batches

(* saveRequestDetail, up to its await.                                     *)
SaveRequestDetail(detail) ==
    /\ saving' = saving \union {detail}
    /\ UNCHANGED <<writeBuffer, flushTimer, batches, stranded>>

(* And after it; its callers do not wait, so records may pass each other.  *)
Push(detail) ==
    LET buffer == Append(writeBuffer, detail)
    IN  /\ detail \in saving
        /\ saving' = saving \ {detail}
        /\ IF Len(buffer) >= BatchSize
           THEN flushTimer' = FALSE /\ StartFlush(buffer)
           ELSE flushTimer' = TRUE /\ writeBuffer' = buffer /\ UNCHANGED batches
        /\ stranded' = FALSE

FlushTimerFires ==
    /\ flushTimer
    /\ flushTimer' = FALSE
    /\ StartFlush(writeBuffer)
    /\ UNCHANGED <<saving, stranded>>

\* Mutant: the buffer is drained once, without the loop.
MutantRest(i) == RemoveAt(batches, i)

(* The loop takes what arrived meanwhile for its next batch.               *)
Rest(i) == IF writeBuffer = <<>> THEN RemoveAt(batches, i)
           ELSE ReplaceAt(batches, i, writeBuffer)

CommitBatch ==
    \E i \in 1..Len(batches) :
        /\ batches' = Rest(i)
        /\ writeBuffer' = IF Len(batches') < Len(batches) THEN writeBuffer
                          ELSE <<>>
        /\ UNCHANGED <<saving, flushTimer, stranded>>

(* The transaction throws: the batch is dropped, and the loop with it.     *)
BatchFails ==
    /\ isFlushing
    /\ batches' = Tail(batches)
    /\ stranded' = (writeBuffer # <<>> /\ ~flushTimer)
    /\ UNCHANGED <<saving, writeBuffer, flushTimer>>

DetailsNext == (\E d \in Detail : Push(d)) \/ FlushTimerFires \/ CommitBatch \/ BatchFails

DetailsFairness == /\ \A d \in Detail : WF_details(Push(d))
                   /\ WF_details(FlushTimerFires) /\ WF_details(CommitBatch)

-----------------------------------------------------------------------------
(* A record that is saved reaches the buffer and leaves it, even if it     *)
(* came while a batch was being written and the timer had been cleared,    *)
(* unless that write fails: then it waits for the next record to be saved. *)
BufferDrains ==
    saving # {} \/ writeBuffer # <<>> ~> (saving = {} /\ writeBuffer = <<>>) \/ stranded
=============================================================================
