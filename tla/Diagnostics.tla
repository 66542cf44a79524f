---------------------------- MODULE Diagnostics ----------------------------
(***************************************************************************)
(* BoundedDiagnosticsWriter (src/src/diagnostics.rs): the application      *)
(* selects the first scans of each sensor and offers them to a bounded     *)
(* queue; a thread encodes them and appends them to one file of bounded    *)
(* size.  Nothing of this may block the application: a full queue or a     *)
(* failed writer drops records, and close() waits for the thread only up   *)
(* to a deadline.                                                          *)
(*                                                                         *)
(* A record is the number of its selection; its encoded size is chosen     *)
(* when it is encoded.  The application is the one producer; a call of its *)
(* (try_record, close) can be overtaken by the thread between any two of   *)
(* its steps.                                                              *)
(*                                                                         *)
(* A name that Observation has as well is lengthened here, so that a       *)
(* module can extend both.                                                 *)
(***************************************************************************)
EXTENDS Naturals, Sequences, FiniteSets, Functions

CONSTANTS Sensors,
          Limit,          \* sample_scan_limit_per_sensor
          QueueCapacity,  \* DIAGNOSTICS_QUEUE_CAPACITY, 4 in the code
          Sizes,          \* sizes a record can have when encoded
          MaxFileBytes    \* MAX_DIAGNOSTICS_FILE_BYTES, in the unit of Sizes

ASSUME DiagnosticsAssumption ==
  /\ IsFiniteSet(Sensors)
  /\ Limit \in Nat /\ QueueCapacity \in Nat \ {0}
  /\ Sizes \subseteq Nat \ {0} /\ MaxFileBytes \in Nat

VARIABLES
  selected_counts,   \* per sensor
  \* WriterCounters, whose dropped and failures are the two longer names
  selected, enqueued, written, recordsDropped, writeFailures, writer_failed,
  queue, sender,     \* the channel, and whether the writer still holds its sender
  producer, offered, \* the call in progress and the record it is about
  worker, received,  \* the thread, and the record it has received
  written_bytes,
  outcome,           \* close_outcome: "none", "drained", "late"
  panicked,
  \* history: the records that are complete lines of the file, and the one
  \* whose write failed with a part of it still in the BufWriter
  lines, residue

countVars == <<selected_counts, selected, enqueued, written, recordsDropped, writeFailures,
               writer_failed>>
channelVars == <<queue, sender>>
callVars == <<producer, offered, outcome>>
workerVars == <<worker, received, panicked>>
fileVars == <<written_bytes, lines, residue>>
writerVars == <<countVars, channelVars, callVars, workerVars, fileVars>>

None == 0
Total == Limit * Cardinality(Sensors)

WriterInit ==
  /\ selected_counts = [s \in Sensors |-> 0]
  /\ selected = 0 /\ enqueued = 0 /\ written = 0 /\ recordsDropped = 0 /\ writeFailures = 0
  /\ writer_failed = FALSE
  /\ queue = << >> /\ sender = TRUE
  /\ producer = "idle" /\ offered = None /\ outcome = "none"
  /\ worker = "receiving" /\ received = None /\ panicked = FALSE
  /\ written_bytes = 0 /\ lines = << >> /\ residue = None

-----------------------------------------------------------------------------
(* The application                                                         *)

(* wants_record, and the selection under selected_counts.  A full count or *)
(* a failed writer selects nothing.                                        *)
Select(s) ==
  /\ producer = "idle" /\ sender
  /\ ~writer_failed /\ selected_counts[s] < Limit
  /\ selected_counts' = [selected_counts EXCEPT ![s] = @ + 1]
  /\ selected' = selected + 1
  /\ offered' = selected'
  /\ producer' = "selected"
  /\ UNCHANGED <<enqueued, written, recordsDropped, writeFailures, writer_failed, channelVars,
                 outcome, workerVars, fileVars>>

(* The writer has failed since the selection. *)
DropOffered ==
  /\ producer = "selected" /\ writer_failed
  /\ recordsDropped' = recordsDropped + 1
  /\ offered' = None /\ producer' = "idle"
  /\ UNCHANGED <<selected_counts, selected, enqueued, written, writeFailures, writer_failed,
                 channelVars, outcome, workerVars, fileVars>>

PassCheck ==
  /\ producer = "selected" /\ ~writer_failed
  /\ producer' = "sending"
  /\ UNCHANGED <<countVars, channelVars, offered, outcome, workerVars, fileVars>>

(* The thread is gone when it has panicked; else its receiver lives as     *)
(* long as there is a sender.                                              *)
Receiving == worker # "ended"

TrySend ==
  /\ producer = "sending" /\ Receiving /\ Len(queue) < QueueCapacity
  /\ queue' = Append(queue, offered)
  /\ offered' = None /\ producer' = "sent"
  /\ UNCHANGED <<countVars, sender, outcome, workerVars, fileVars>>

(* enqueued_records follows the send; the thread may be faster. *)
CountEnqueued ==
  /\ producer = "sent"
  /\ enqueued' = enqueued + 1
  /\ producer' = "idle"
  /\ UNCHANGED <<selected_counts, selected, written, recordsDropped, writeFailures, writer_failed,
                 channelVars, offered, outcome, workerVars, fileVars>>

(* Seeded fault: a record that finds the queue full vanishes. *)
TrySendLosing ==
  /\ producer = "sending" /\ ~(Receiving /\ Len(queue) < QueueCapacity)
  /\ offered' = None /\ producer' = "idle"
  /\ UNCHANGED <<countVars, channelVars, outcome, workerVars, fileVars>>

TrySendFails ==
  /\ producer = "sending" /\ ~(Receiving /\ Len(queue) < QueueCapacity)
  /\ recordsDropped' = recordsDropped + 1
  /\ offered' = None /\ producer' = "idle"
  /\ UNCHANGED <<selected_counts, selected, enqueued, written, writeFailures, writer_failed,
                 channelVars, outcome, workerVars, fileVars>>

(* close(), or Drop: closed is set and the sender dropped. *)
CloseWriter ==
  /\ producer = "idle" /\ sender
  /\ sender' = FALSE
  /\ producer' \in {"closing", "gone"}
  /\ UNCHANGED <<countVars, queue, offered, outcome, workerVars, fileVars>>

(* done arrives in time; a thread that has panicked sends it too. *)
CloseDrained ==
  /\ producer = "closing" /\ worker = "ended"
  /\ outcome' = "drained" /\ producer' = "gone"
  /\ UNCHANGED <<countVars, channelVars, offered, workerVars, fileVars>>

(* Seeded fault: close() waits for the thread without a deadline.          *)
CloseNeverLate == FALSE /\ UNCHANGED writerVars

(* DIAGNOSTICS_DRAIN_TIMEOUT: the thread is left to itself. *)
CloseLate ==
  /\ producer = "closing" /\ worker # "ended"
  /\ outcome' = "late" /\ producer' = "gone"
  /\ UNCHANGED <<countVars, channelVars, offered, workerVars, fileVars>>

-----------------------------------------------------------------------------
(* The thread                                                              *)

Receive ==
  /\ worker = "receiving" /\ queue # << >>
  /\ received' = Head(queue) /\ queue' = Tail(queue)
  /\ worker' = "holding"
  /\ UNCHANGED <<countVars, sender, callVars, panicked, fileVars>>

(* The channel is empty and has no sender.  Dropping the BufWriter flushes *)
(* what a failed write has left in it, which may complete the line.        *)
EndWorker ==
  /\ worker = "receiving" /\ queue = << >> /\ ~sender
  /\ worker' = "ended"
  /\ lines' \in {lines} \union (IF residue = None THEN {} ELSE {Append(lines, residue)})
  /\ residue' = None
  /\ UNCHANGED <<countVars, channelVars, callVars, received, panicked, written_bytes>>

Finish == received' = None /\ worker' = "receiving"

(* After a write error every queued record is dropped. *)
DropAfterFailure ==
  /\ worker = "holding" /\ writer_failed
  /\ recordsDropped' = recordsDropped + 1
  /\ Finish
  /\ UNCHANGED <<selected_counts, selected, enqueued, written, writeFailures, writer_failed,
                 channelVars, callVars, panicked, fileVars>>

(* Seeded fault: the thread goes on writing after a failed write. *)
HealthyAlways == worker = "holding"

Healthy == worker = "holding" /\ ~writer_failed

(* encode_record: an error counts as a failure, too long a record does not.*)
EncodeRecordFails ==
  /\ Healthy
  /\ writeFailures' \in {writeFailures, writeFailures + 1}
  /\ recordsDropped' = recordsDropped + 1
  /\ Finish
  /\ UNCHANGED <<selected_counts, selected, enqueued, written, writer_failed,
                 channelVars, callVars, panicked, fileVars>>

Fits(size) == written_bytes + size <= MaxFileBytes

CapacityReached ==
  /\ Healthy
  /\ \E size \in Sizes : ~Fits(size)
  /\ recordsDropped' = recordsDropped + 1
  /\ Finish
  /\ UNCHANGED <<selected_counts, selected, enqueued, written, writeFailures, writer_failed,
                 channelVars, callVars, panicked, fileVars>>

WriteRecord ==
  /\ Healthy
  /\ \E size \in Sizes : Fits(size) /\ written_bytes' = written_bytes + size
  /\ written' = written + 1
  /\ lines' = Append(lines, received)
  /\ Finish
  /\ UNCHANGED <<selected_counts, selected, enqueued, recordsDropped, writeFailures, writer_failed,
                 channelVars, callVars, panicked, residue>>

(* Opening, writing or flushing fails; mark_terminal_failure.  The last    *)
(* two may leave a part of the record in the file and the rest buffered.   *)
WriteRecordFails ==
  /\ Healthy
  /\ \E size \in Sizes : Fits(size)
  /\ residue' \in {None, received}
  /\ recordsDropped' = recordsDropped + 1
  /\ writer_failed' = TRUE /\ writeFailures' = writeFailures + 1
  /\ Finish
  /\ UNCHANGED <<selected_counts, selected, enqueued, written, channelVars, callVars,
                 panicked, written_bytes, lines>>

(* catch_unwind: the receiver is gone, with whatever was in the queue.     *)
WorkerPanics ==
  /\ Healthy
  /\ worker' = "ended" /\ panicked' = TRUE
  /\ received' = None /\ queue' = << >>
  /\ writer_failed' = TRUE /\ writeFailures' = writeFailures + 1
  /\ UNCHANGED <<selected_counts, selected, enqueued, written, recordsDropped, sender, callVars,
                 fileVars>>

-----------------------------------------------------------------------------
Application ==
  \/ \E s \in Sensors : Select(s)
  \/ DropOffered \/ PassCheck \/ TrySend \/ CountEnqueued \/ TrySendFails
  \/ CloseWriter \/ CloseDrained \/ CloseLate

Worker ==
  \/ Receive \/ EndWorker \/ DropAfterFailure \/ EncodeRecordFails \/ CapacityReached
  \/ WriteRecord \/ WriteRecordFails \/ WorkerPanics

WriterNext == Application \/ Worker

(* A call goes on, and its timeout fires.  The thread is promised nothing: *)
(* a file system may keep it for ever.                                     *)
WriterFairness == WF_writerVars(DropOffered \/ PassCheck \/ TrySend \/ CountEnqueued \/ TrySendFails
                    \/ CloseDrained \/ CloseLate)

WriterSpec == WriterInit /\ [][WriterNext]_writerVars /\ WriterFairness

-----------------------------------------------------------------------------
Held(record) == IF record = None THEN 0 ELSE 1

(* Every selected record is written, dropped, queued or held by one of the *)
(* two sides, and after a drained close it is one of the first two; only a *)
(* panic of the thread loses the records it had.                           *)
EverySelectionAccounted ==
  ~panicked =>
    /\ selected = written + recordsDropped + Len(queue) + Held(offered) + Held(received)
    /\ outcome = "drained" => selected = written + recordsDropped

(* The file has the written records as whole lines, in the order of their  *)
(* selection, none twice; at most one line more was completed when the     *)
(* thread ended, by the very record whose write had failed.  What was      *)
(* written stays within the limit of the file.                             *)
LinesInOrder ==
  /\ written_bytes <= MaxFileBytes
  /\ \A i \in 1..Len(lines) : \A j \in 1..(i - 1) : lines[j] < lines[i]
  /\ Len(lines) = written \/ (Len(lines) = written + 1 /\ writer_failed /\ worker = "ended")

(* The application is never held up: every call of try_record and close()  *)
(* returns, with the thread stuck wherever it may be.                      *)
CallsReturn == (producer # "idle") ~> (producer \in {"idle", "gone"})
=============================================================================
