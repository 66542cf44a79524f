----------------------------- MODULE Application -----------------------------
(***************************************************************************)
(* The process from start to exit (runtime/application.rs): the outputs    *)
(* are opened one after the other, the run loop moves batches from the     *)
(* generation thread to them, and on every way out they are closed.        *)
(*                                                                         *)
(* The components appear only with what they promise in their own modules: *)
(* a publication or a record succeeds or fails, a close returns, and the   *)
(* generation thread sends numbered batches until it is stopped or fails.  *)
(***************************************************************************)
EXTENDS Naturals, Sequences

CONSTANTS
    SampleLimit,          \* diagnostics.sample_scan_limit_per_sensor
    ObservationInterval,  \* in rotations
    Window,               \* last rotation of the validation window
    MaxBatch              \* bound of the model on rotations

ASSUME ParametersArePositive ==
    /\ SampleLimit \in Nat \ {0} /\ ObservationInterval \in Nat \ {0}
    /\ Window \in Nat \ {0} /\ MaxBatch \in Nat

Sensors == {1, 2}
Nothing == <<>>

VARIABLES
    mode,       \* "continuous" or "validation", and what it switches on
    pc,         \* where run_application is
    outputs,    \* the outputs: "absent", "open" or "closed"
    closing,    \* the outputs that are still to be closed on the way out
    signal,     \* SIGINT or SIGTERM has arrived
    fault,      \* the value of the scan runtime's fatal channel
    seen,       \* the run loop has seen that value change
    writer,     \* whether the diagnostics thread has failed
    thread,     \* the generation thread
    schedule,   \* SnapshotCaptureSchedule, with the number of batches made
    offer,      \* the batch the thread waits to send
    outbox,     \* the output channel of the thread, of capacity one
    receiver,   \* the end of that channel the run loop holds
    stop,       \* the stop flag of the thread
    batch,      \* the batch in the hands of the run loop
    scans,      \* its scans that are still to be handled
    records,    \* diagnostic records selected for each sensor
    execution,  \* what run_until_shutdown returned
    result      \* what run_application returned

vars == <<mode, pc, outputs, closing, signal, fault, seen, writer, thread, schedule, offer,
          outbox, receiver, stop, batch, scans, records, execution, result>>
world == <<signal, fault, writer>>
channel == <<outbox, receiver, stop>>
generator == <<thread, schedule, offer, channel>>
ending == <<closing, execution, result>>

Validating == mode.name = "validation"

Init ==
    /\ mode \in [name: {"continuous"}, observing: {TRUE}, diagnosing: BOOLEAN]
           \cup [name: {"validation"}, observing: BOOLEAN, diagnosing: BOOLEAN]
    /\ pc = "scan"
    /\ outputs = [o \in {"observation", "diagnostics", "scan"} |-> "absent"]
    /\ closing = Nothing
    /\ signal = FALSE /\ fault = FALSE /\ seen = FALSE /\ writer = "working"
    /\ thread = "absent" /\ offer = Nothing /\ outbox = Nothing
    /\ receiver = "open" /\ stop = FALSE
    /\ schedule = [made |-> 0, nextObservation |-> 0,
                   diagnosticsLeft |-> IF mode.diagnosing THEN SampleLimit ELSE 0]
    /\ batch = Nothing /\ scans = {}
    /\ records = [s \in Sensors |-> 0]
    /\ execution = "none" /\ result = "none"

(***************************************************************************)
(* The world                                                               *)
(***************************************************************************)

SignalArrives ==
    /\ ~signal /\ signal' = TRUE
    /\ UNCHANGED <<mode, pc, outputs, seen, fault, writer, generator, batch, scans, records, ending>>

\* A task of the open scan runtime sends a fault (NeverSilentlyStopped of ScanRuntime).
ScanFaults ==
    /\ outputs["scan"] = "open" /\ ~fault
    /\ fault' = TRUE
    /\ UNCHANGED <<mode, pc, outputs, seen, signal, writer, generator, batch, scans, records, ending>>

\* The diagnostics thread records a terminal failure; wants_record is false from then on.
WriterFails ==
    /\ outputs["diagnostics"] = "open" /\ writer = "working"
    /\ writer' = "failed"
    /\ UNCHANGED <<mode, pc, outputs, seen, signal, fault, generator, batch, scans, records, ending>>

(***************************************************************************)
(* The generation thread                                                   *)
(***************************************************************************)

\* Seeded fault: one capture counted for each sensor of the batch.
CapturePerSensor(n) ==
    LET due == mode.observing /\ n >= schedule.nextObservation
        spare == IF schedule.diagnosticsLeft > 1 THEN schedule.diagnosticsLeft - 2 ELSE 0
    IN [due |-> due,
        required |-> due \/ schedule.diagnosticsLeft > 0,
        next |-> IF due THEN (n \div ObservationInterval + 1) * ObservationInterval
                 ELSE schedule.nextObservation,
        left |-> spare]

\* SnapshotCaptureSchedule::next: the next observation is due at the first rotation of the
\* next interval, however late this one is.
Capture(n) ==
    LET due == mode.observing /\ n >= schedule.nextObservation
        spare == IF schedule.diagnosticsLeft > 0 THEN schedule.diagnosticsLeft - 1 ELSE 0
    IN [due |-> due,
        required |-> due \/ schedule.diagnosticsLeft > 0,
        next |-> IF due THEN (n \div ObservationInterval + 1) * ObservationInterval
                 ELSE schedule.nextObservation,
        left |-> spare]

\* The thread is BatchSource.  A batch it is making when it is told to stop is made.
MakeBatch ==
    /\ thread = "running" /\ offer = Nothing
    /\ schedule.made < MaxBatch
    /\ LET n == schedule.made + 1
           capture == Capture(n)
       IN /\ offer' = <<[rotation |-> n, snapshot |-> capture.required, due |-> capture.due]>>
          /\ schedule' = [made |-> n, nextObservation |-> capture.next,
                          diagnosticsLeft |-> capture.left]
    /\ UNCHANGED <<mode, pc, outputs, seen, world, thread, channel, batch, scans, records, ending>>

SendBatch ==
    /\ offer # Nothing /\ outbox = Nothing /\ receiver = "open"
    /\ outbox' = offer /\ offer' = Nothing
    /\ UNCHANGED <<mode, pc, outputs, seen, world, thread, schedule, receiver, stop, batch, scans,
                   records, ending>>

\* A scenario, a schedule, a sensor thread or a clock fails, or the thread panics.
ThreadFails ==
    /\ thread = "running" /\ offer = Nothing
    /\ thread' \in {"failed", "panicked"}
    /\ UNCHANGED <<mode, pc, outputs, seen, world, schedule, offer, channel, batch, scans, records,
                   ending>>

\* The thread sees the stop flag while it waits for a deadline, or is refused while it waits
\* for room; a send that waits does not see the flag by itself.
ThreadEnds ==
    /\ thread = "running" /\ stop
    /\ offer # Nothing => receiver = "closed"
    /\ thread' = "ended" /\ offer' = Nothing
    /\ UNCHANGED <<mode, pc, outputs, seen, world, schedule, channel, batch, scans, records, ending>>

(***************************************************************************)
(* Start                                                                   *)
(***************************************************************************)

Steps == <<"scan", "factory", "observation", "anchor", "epoch", "diagnostics", "boundary",
           "recheck", "generation", "loop">>
After(step) == Steps[(CHOOSE i \in DOMAIN Steps : Steps[i] = step) + 1]

\* Seeded fault: the clock is read as if the observation publisher had not been started.
ClosedOnFailureForgetful(step) ==
    IF step = "scan" THEN Nothing
    ELSE IF step \in {"factory", "observation", "anchor"} THEN <<"scan">>
    ELSE IF step \in {"epoch", "diagnostics"} THEN <<"observation", "scan">>
    ELSE <<"observation", "diagnostics", "scan">>

\* What the error path of a step closes, in this order.
ClosedOnFailure(step) ==
    IF step = "scan" THEN Nothing
    ELSE IF step \in {"factory", "observation"} THEN <<"scan">>
    ELSE IF step \in {"anchor", "epoch", "diagnostics"} THEN <<"observation", "scan">>
    ELSE <<"observation", "diagnostics", "scan">>

Opens(step) ==
    \/ step = "scan"
    \/ step = "observation" /\ mode.observing
    \/ step = "diagnostics" /\ mode.diagnosing

StartStep ==
    /\ pc \in {Steps[i] : i \in 1 .. Len(Steps) - 1}
    /\ pc' = After(pc)
    /\ outputs' = IF Opens(pc) THEN [outputs EXCEPT ![pc] = "open"] ELSE outputs
    /\ thread' = IF pc = "generation" THEN "running" ELSE thread
    /\ UNCHANGED <<mode, seen, world, schedule, offer, channel, batch, scans, records, ending>>

\* The clock and epoch of a continuous run cannot be refused, nor its boundary; a run without
\* diagnostics or observations opens none.
CanFail(step) ==
    /\ step \in {"epoch", "boundary", "recheck"} => Validating
    /\ step \in {"observation", "diagnostics"} => Opens(step)

StartFails ==
    /\ pc \in {Steps[i] : i \in 1 .. Len(Steps) - 1} /\ CanFail(pc)
    /\ closing' = ClosedOnFailure(pc)
    /\ execution' = "start_failed"
    /\ pc' = "closing"
    /\ UNCHANGED <<mode, outputs, seen, world, generator, batch, scans, records, result>>

(***************************************************************************)
(* The run loop                                                            *)
(***************************************************************************)

Leave(outcome) ==
    /\ execution' = outcome
    /\ pc' = "stopping"
    /\ UNCHANGED <<mode, outputs, world, generator, records, closing, result>>

\* The head of the loop borrows the fatal value and then waits.
LookAtFault ==
    /\ pc = "loop"
    /\ \/ fault /\ Leave("scan_fault")
       \/ /\ ~fault /\ pc' = "select"
          /\ UNCHANGED <<mode, outputs, world, generator, records, ending>>
    /\ UNCHANGED <<seen, batch, scans>>

\* The biased select: a signal before a fault before a batch.
SelectSignal ==
    /\ pc = "select" /\ signal
    /\ Leave("signal")
    /\ UNCHANGED <<seen, batch, scans>>

SelectFault ==
    /\ pc = "select" /\ ~signal /\ fault /\ ~seen
    /\ seen' = TRUE /\ pc' = "loop"
    /\ UNCHANGED <<mode, outputs, world, generator, batch, scans, records, ending>>

SelectBatch ==
    /\ pc = "select" /\ ~signal /\ ~(fault /\ ~seen) /\ outbox # Nothing
    /\ batch' = outbox /\ outbox' = Nothing
    /\ scans' = Sensors
    /\ pc' = "batch"
    /\ UNCHANGED <<mode, outputs, seen, world, thread, schedule, offer, receiver, stop, records, ending>>

\* The channel is closed and empty: the thread has ended before it was told to.
SelectEnd ==
    /\ pc = "select" /\ ~signal /\ ~(fault /\ ~seen)
    /\ outbox = Nothing /\ thread \in {"failed", "panicked"}
    /\ Leave("generation_stopped")
    /\ UNCHANGED <<seen, batch, scans>>

Wants(s) == outputs["diagnostics"] = "open" /\ writer = "working" /\ records[s] < SampleLimit

\* Batches carry the scans of the sensors in their order.
NextScan == IF 1 \in scans THEN 1 ELSE 2

\* One scan: its diagnostic record, its frame, and the publication of that frame.
HandleScan ==
    /\ pc = "batch" /\ scans # {}
    /\ UNCHANGED <<seen, batch>>
    /\ IF Wants(NextScan) /\ ~batch[1].snapshot
       THEN Leave("snapshot_not_captured") /\ UNCHANGED scans
       ELSE /\ records' = IF Wants(NextScan) THEN [records EXCEPT ![NextScan] = @ + 1] ELSE records
            /\ scans' = scans \ {NextScan}
            /\ UNCHANGED <<mode, pc, outputs, world, generator, ending>>

\* The record, the frame or the publication fails; a scan that failed is not counted.
HandleScanFails ==
    /\ pc = "batch" /\ scans # {}
    /\ Leave("output_failed")
    /\ UNCHANGED <<seen, batch, scans>>

\* The rest of the batch: its observation and its entry in the validation recorder.
EndBatch ==
    /\ pc = "batch" /\ scans = {}
    /\ batch' = Nothing
    /\ UNCHANGED <<seen, scans>>
    /\ IF batch[1].due /\ ~batch[1].snapshot
       THEN Leave("snapshot_not_captured")
       ELSE \/ batch[1].due /\ Validating /\ Leave("observation_failed")
            \/ Validating /\ batch[1].rotation <= Window /\ Leave("validation_failed")
            \/ Validating /\ batch[1].rotation > Window /\ Leave("complete")
            \/ /\ Validating => batch[1].rotation <= Window
               /\ pc' = "loop"
               /\ UNCHANGED <<mode, outputs, world, generator, records, ending>>

(***************************************************************************)
(* The way out                                                             *)
(***************************************************************************)

\* shutdown() of the coordinator: the flag first, then the receiver is closed, so that a send
\* that waits is refused and finds the flag set.
StopThread ==
    /\ pc = "stopping"
    /\ stop' = TRUE
    /\ pc' = "refusing"
    /\ UNCHANGED <<mode, outputs, seen, world, thread, schedule, offer, outbox, receiver, batch,
                   scans, records, ending>>

\* Seeded fault: the receiver is kept open while the thread is joined.
CloseReceiverLater ==
    /\ pc = "refusing"
    /\ pc' = "joining"
    /\ UNCHANGED <<mode, outputs, seen, world, generator, batch, scans, records, ending>>

CloseReceiver ==
    /\ pc = "refusing"
    /\ receiver' = "closed"
    /\ pc' = "joining"
    /\ UNCHANGED <<mode, outputs, seen, world, thread, schedule, offer, outbox, stop, batch,
                   scans, records, ending>>

Joined == thread \in {"ended", "failed", "panicked"}

JoinThread ==
    /\ pc = "joining" /\ Joined
    /\ closing' = <<"observation", "diagnostics", "scan">>
    /\ pc' = "closing"
    /\ UNCHANGED <<mode, outputs, seen, world, generator, batch, scans, records, execution, result>>

\* A publisher that does nothing, or diagnostics that are switched off, are passed over.
CloseNext ==
    /\ pc = "closing" /\ closing # Nothing
    /\ outputs' = [outputs EXCEPT ![Head(closing)] = IF @ = "open" THEN "closed" ELSE @]
    /\ closing' = Tail(closing)
    /\ UNCHANGED <<mode, pc, seen, world, generator, batch, scans, records, execution, result>>

ThreadFailed == thread \in {"failed", "panicked"}
ThreadError == IF thread = "panicked" THEN "generation_panicked" ELSE "generation_failed"

\* Seeded fault: the error of the run loop first, whatever it is.
ResolveLoopFirst ==
    IF execution \notin {"signal", "complete"} THEN execution
    ELSE IF ThreadFailed THEN ThreadError
    ELSE "ok"

\* resolve_execution_result: the thread's own error names what the closed channel only shows.
Resolve ==
    IF execution = "generation_stopped" /\ ThreadFailed THEN ThreadError
    ELSE IF execution \notin {"signal", "complete"} THEN execution
    ELSE IF ThreadFailed THEN ThreadError
    ELSE "ok"

\* A validation succeeds with its report only.
Return ==
    /\ pc = "closing" /\ closing = Nothing
    /\ result' \in IF Resolve # "ok" \/ ~Validating THEN {Resolve}
                   ELSE IF execution = "complete" THEN {"ok", "report_failed"}
                   ELSE {"interrupted"}
    /\ pc' = "returned"
    /\ UNCHANGED <<mode, outputs, seen, world, generator, batch, scans, records, closing, execution>>

StartUp == StartStep \/ StartFails
RunLoop == \/ LookAtFault \/ SelectSignal \/ SelectFault \/ SelectBatch \/ SelectEnd
           \/ HandleScan \/ HandleScanFails \/ EndBatch
WayOut == StopThread \/ CloseReceiver \/ JoinThread \/ CloseNext \/ Return
Thread == MakeBatch \/ SendBatch \/ ThreadFails \/ ThreadEnds

Next == SignalArrives \/ ScanFaults \/ WriterFails \/ Thread \/ StartUp \/ RunLoop \/ WayOut

\* The main task is polled, its awaits return (the closes by the liveness of the components'
\* own modules), and a running thread that was told to stop ends.
Spec ==
    /\ Init /\ [][Next]_vars
    /\ WF_vars(StartUp) /\ WF_vars(RunLoop) /\ WF_vars(WayOut) /\ WF_vars(ThreadEnds)

(***************************************************************************)
(* Properties                                                              *)
(***************************************************************************)

\* Every way out, from a start that failed half way as from a run, closes what it opened: no
\* output is open and no thread runs when run_application returns; and the scan runtime, whose
\* status files tell that the process lives, goes last.
NothingLeftOpen ==
    /\ pc = "returned" => /\ \A o \in DOMAIN outputs : outputs[o] # "open"
                          /\ thread # "running"
    /\ outputs["scan"] = "closed" =>
        /\ outputs["observation"] # "open" /\ outputs["diagnostics"] # "open"
        /\ thread # "running"

\* The generation thread decides by counting batches whether a snapshot is captured; the run
\* loop decides by counting records whether it needs one.  They never disagree.
SnapshotIsThere == execution # "snapshot_not_captured"

\* The result names the cause: not the closed channel but the failure that closed it; success
\* only when the thread ended because it was told to; and a validation that succeeded has seen
\* a batch past its window.
ResultNamesTheCause ==
    pc = "returned" =>
        /\ result # "generation_stopped"
        /\ result = "scan_fault" => fault
        /\ result = "ok" =>
            /\ thread = "ended"
            /\ Validating => schedule.made > Window

\* A signal ends the process, even when the thread waits for room in the channel.
SignalEnds == signal ~> pc = "returned"
=============================================================================
