----------------------------- MODULE Generation ----------------------------
(***************************************************************************)
(* The generation of scans: GenerationCoordinator and                      *)
(* run_generation_worker (src/src/runtime/application.rs), a thread that   *)
(* paces GenerationRuntime (src/src/runtime/generation.rs), and the two    *)
(* sensor threads that GenerationRuntime hands the ray casting to.         *)
(*                                                                         *)
(* The application receives batches from a channel of one; the coordinator *)
(* talks to each sensor thread over a request and a response channel of    *)
(* one.  Any thread may be overtaken between two of its channel operations,*)
(* a sensor thread may answer with an error or panic, and the application  *)
(* may stop everything at any moment.  A scan is the number of its         *)
(* rotation.                                                               *)
(***************************************************************************)
EXTENDS Naturals, Sequences, FiniteSetsExt

CONSTANT MaxRotation      \* MAX_SCAN_ID, 2^63 - 1 in the code

ASSUME GenerationAssumption == MaxRotation \in Nat \ {0}

(* The sensor threads, in the order of GenerationRuntime::sensors. *)
Sensors == 1..2
None == 0
Stop == 0                 \* WorkerCommand::Stop among the rotations
Capacity == 1             \* of every channel

VARIABLES
  \* the application
  app, stop, receiver,    \* receiver: is the output channel still open?
  output, received,       \* the output channel; history: batches received
  \* the coordinator
  coordinator, result,
  pending, first_error, dispatched, collected, handles,
  \* the channels and the sensor threads
  request, response, worker, casting,
  \* history
  troubled                \* a sensor thread has failed or panicked

appVars == <<app, stop, receiver, received>>
roundVars == <<first_error, dispatched, collected>>
sensorVars == <<request, response, worker, casting, troubled>>
vars == <<appVars, output, coordinator, result, pending, roundVars, handles, sensorVars>>

Init ==
  /\ app = "running" /\ stop = FALSE /\ receiver = TRUE
  /\ output = << >> /\ received = << >>
  /\ coordinator = "pacing" /\ result = "none"
  /\ pending = [s \in Sensors |-> 1]
  /\ first_error = FALSE /\ dispatched = {} /\ collected = {}
  /\ handles = Sensors
  /\ request = [s \in Sensors |-> << >>] /\ response = [s \in Sensors |-> << >>]
  /\ worker = [s \in Sensors |-> "receiving"] /\ casting = [s \in Sensors |-> None]
  /\ troubled = FALSE

-----------------------------------------------------------------------------
(* The application                                                         *)

ReceiveBatch ==
  /\ app = "running" /\ output # << >>
  /\ received' = Append(received, Head(output))
  /\ output' = Tail(output)
  /\ UNCHANGED <<app, stop, receiver, coordinator, result, pending, roundVars, handles,
                 sensorVars>>

(* Seeded fault: the output channel is left open for the coordinator.      *)
ShutdownKeepingReceiver ==
  /\ \/ app = "running" /\ stop' = TRUE /\ app' = "closing"
     \/ app = "closing" /\ app' \in {"joining", "dropped"} /\ UNCHANGED stop
  /\ UNCHANGED <<receiver, received, output, coordinator, result, pending, roundVars,
                 handles, sensorVars>>

(* Seeded fault: the channel is closed before the flag is set.             *)
ShutdownClosingFirst ==
  /\ \/ app = "running" /\ receiver' = FALSE /\ app' = "closing" /\ UNCHANGED stop
     \/ /\ app = "closing" /\ stop' = TRUE /\ app' \in {"joining", "dropped"}
        /\ UNCHANGED receiver
  /\ UNCHANGED <<received, output, coordinator, result, pending, roundVars, handles,
                 sensorVars>>

(* shutdown(), or Drop, which does not join: the flag, then the channel.   *)
(* The run loop has ended by a signal, an error, or because the output     *)
(* channel has.                                                            *)
Shutdown ==
  /\ \/ app = "running" /\ stop' = TRUE /\ app' = "closing" /\ UNCHANGED receiver
     \/ /\ app = "closing" /\ receiver' = FALSE /\ app' \in {"joining", "dropped"}
        /\ UNCHANGED stop
  /\ UNCHANGED <<received, output, coordinator, result, pending, roundVars, handles,
                 sensorVars>>

Joined ==
  /\ app = "joining" /\ coordinator = "ended"
  /\ app' = "joined"
  /\ UNCHANGED <<stop, receiver, received, output, coordinator, result, pending,
                 roundVars, handles, sensorVars>>

-----------------------------------------------------------------------------
(* The coordinator: run_generation_worker                                  *)

Leave(r) == coordinator' = "stopping" /\ result' = r

(* Before the deadline of the next batch, parked or not. *)
SeeStop ==
  /\ coordinator = "pacing" /\ stop
  /\ Leave("ok")
  /\ UNCHANGED <<appVars, output, pending, roundVars, handles, sensorVars>>

(* The deadline is reached; the scenario and its distortions advance.      *)
Advance ==
  /\ coordinator = "pacing" /\ ~stop
  /\ coordinator' = "dispatching"
  /\ UNCHANGED <<appVars, output, result, pending, roundVars, handles, sensorVars>>

(* A clock, scenario or distortion error: nothing was dispatched.          *)
AdvanceFails ==
  /\ coordinator = "pacing" /\ ~stop
  /\ Leave("error")
  /\ UNCHANGED <<appVars, output, pending, roundVars, handles, sensorVars>>

(* next_completed_scans: every scan of the earliest completion is handed   *)
(* out before any following one is scheduled.                              *)
Rotation == Min({pending[s] : s \in Sensors})
Due == {s \in Sensors : pending[s] = Rotation}

Dispatch ==
  /\ coordinator = "dispatching"
  /\ \A s \in Due : Len(request[s]) < Capacity
  /\ request' = [s \in Sensors |-> IF s \in Due THEN Append(request[s], pending[s])
                                   ELSE request[s]]
  /\ dispatched' = Due
  /\ coordinator' = "scheduling"
  /\ UNCHANGED <<appVars, output, result, pending, first_error, collected, handles,
                 response, worker, casting, troubled>>

(* next_scan of each scheduler; ScanIdExhausted is noted, not returned.    *)
Schedule ==
  /\ coordinator = "scheduling"
  /\ pending' = [s \in Sensors |-> IF s \notin dispatched THEN pending[s]
                                   ELSE IF pending[s] < MaxRotation THEN pending[s] + 1
                                   ELSE None]
  /\ first_error' = \E s \in Sensors : pending'[s] = None
  /\ coordinator' = "collecting"
  /\ UNCHANGED <<appVars, output, result, dispatched, collected, handles, sensorVars>>

(* The rotation that was dispatched, seen after Schedule. *)
Expected(s) == IF pending[s] = None THEN MaxRotation ELSE pending[s] - 1
Outstanding == dispatched \ {c.sensor : c \in collected}

(* receive_worker_response of the next sensor: an answer ...               *)
CollectResponse ==
  /\ coordinator = "collecting" /\ Outstanding # {}
  /\ LET s == Min(Outstanding)
     IN  /\ response[s] # << >>
         /\ LET answer == Head(response[s])
            IN  /\ collected' = collected \union {[sensor |-> s, rotation |-> answer.rotation]}
                /\ first_error' = (first_error \/ ~answer.ok
                                               \/ answer.rotation # Expected(s))
         /\ response' = [response EXCEPT ![s] = Tail(@)]
  /\ UNCHANGED <<appVars, output, coordinator, result, pending, dispatched, handles,
                 request, worker, casting, troubled>>

(* ... or the end of the channel, of a thread that is then joined.         *)
CollectEnd ==
  /\ coordinator = "collecting" /\ Outstanding # {}
  /\ LET s == Min(Outstanding)
     IN  /\ response[s] = << >> /\ worker[s] = "ended"
         /\ collected' = collected \union {[sensor |-> s, rotation |-> None]}
         /\ handles' = handles \ {s}
  /\ first_error' = TRUE
  /\ UNCHANGED <<appVars, output, coordinator, result, pending, dispatched, sensorVars>>

(* Every answer is in: the batch, or an error. *)
EndBatch ==
  /\ coordinator = "collecting" /\ Outstanding = {} /\ ~first_error
  /\ coordinator' = "sending"
  /\ UNCHANGED <<appVars, output, result, pending, roundVars, handles, sensorVars>>

(* Seeded fault: an error ends the run as if it had been stopped.          *)
FailBatchAsStop ==
  /\ coordinator = "collecting" /\ Outstanding = {}
  /\ Leave("ok")
  /\ UNCHANGED <<appVars, output, pending, roundVars, handles, sensorVars>>

(* Without an error among the answers, the cut of the histories or the     *)
(* snapshot of the batch may still fail.                                   *)
FailBatch ==
  /\ coordinator = "collecting" /\ Outstanding = {}
  /\ Leave("error")
  /\ UNCHANGED <<appVars, output, pending, roundVars, handles, sensorVars>>

NextBatch == dispatched' = {} /\ collected' = {} /\ first_error' = FALSE

(* Seeded fault: a batch the application is too slow for is thrown away.   *)
SendBatchLossy ==
  /\ coordinator = "sending" /\ receiver
  /\ output' = IF Len(output) < Capacity THEN Append(output, collected) ELSE output
  /\ coordinator' = "pacing" /\ NextBatch
  /\ UNCHANGED <<appVars, result, pending, handles, sensorVars>>

(* blocking_send waits for room ...                                        *)
SendBatch ==
  /\ coordinator = "sending" /\ receiver /\ Len(output) < Capacity
  /\ output' = Append(output, collected)
  /\ coordinator' = "pacing" /\ NextBatch
  /\ UNCHANGED <<appVars, result, pending, handles, sensorVars>>

(* Seeded fault: a refused batch is an error even when that was the stop.  *)
SendRefusedAsError ==
  /\ coordinator = "sending" /\ ~receiver
  /\ Leave("error")
  /\ NextBatch
  /\ UNCHANGED <<appVars, output, pending, handles, sensorVars>>

(* ... and fails once the receiver is closed, which stop precedes.         *)
SendRefused ==
  /\ coordinator = "sending" /\ ~receiver
  /\ Leave(IF stop THEN "ok" ELSE "error")
  /\ NextBatch
  /\ UNCHANGED <<appVars, output, pending, handles, sensorVars>>

(* GenerationRuntime::shutdown: Stop goes to every thread not yet joined.  *)
StopSensors ==
  /\ coordinator = "stopping"
  /\ \A s \in handles : Len(request[s]) < Capacity
  /\ request' = [s \in Sensors |-> IF s \in handles THEN Append(request[s], Stop)
                                   ELSE request[s]]
  /\ coordinator' = "joining"
  /\ UNCHANGED <<appVars, output, result, pending, roundVars, handles, response, worker,
                 casting, troubled>>

JoinSensors ==
  /\ coordinator = "joining" /\ \A s \in handles : worker[s] = "ended"
  /\ handles' = {}
  /\ coordinator' = "ended"
  /\ UNCHANGED <<appVars, output, result, pending, roundVars, sensorVars>>

-----------------------------------------------------------------------------
(* A sensor thread                                                         *)

TakeRequest(s) ==
  /\ worker[s] = "receiving" /\ request[s] # << >>
  /\ request' = [request EXCEPT ![s] = Tail(@)]
  /\ casting' = [casting EXCEPT ![s] = Head(request[s])]
  /\ worker' = [worker EXCEPT ![s] = IF Head(request[s]) = Stop THEN "ended" ELSE "casting"]
  /\ UNCHANGED <<appVars, output, coordinator, result, pending, roundVars, handles,
                 response, troubled>>

(* The result of the scan, or a MeasurementError. *)
Answer(s) ==
  /\ worker[s] = "casting" /\ Len(response[s]) < Capacity
  /\ \E ok \in BOOLEAN :
       /\ response' = [response EXCEPT ![s] = Append(@, [rotation |-> casting[s], ok |-> ok])]
       /\ troubled' = (troubled \/ ~ok)
  /\ worker' = [worker EXCEPT ![s] = "receiving"]
  /\ casting' = [casting EXCEPT ![s] = None]
  /\ UNCHANGED <<appVars, output, coordinator, result, pending, roundVars, handles, request>>

Panic(s) ==
  /\ worker[s] = "casting"
  /\ worker' = [worker EXCEPT ![s] = "ended"]
  /\ casting' = [casting EXCEPT ![s] = None]
  /\ troubled' = TRUE
  /\ UNCHANGED <<appVars, output, coordinator, result, pending, roundVars, handles,
                 request, response>>

-----------------------------------------------------------------------------
Application == ReceiveBatch \/ Shutdown \/ Joined

Coordinator ==
  \/ SeeStop \/ Advance \/ AdvanceFails
  \/ Dispatch \/ Schedule \/ CollectResponse \/ CollectEnd \/ EndBatch \/ FailBatch
  \/ SendBatch \/ SendRefused \/ StopSensors \/ JoinSensors

SensorThread(s) == TakeRequest(s) \/ Answer(s) \/ Panic(s)

Next == Application \/ Coordinator \/ \E s \in Sensors : SensorThread(s)

(* Threads run, and ray casting ends.  The application need not receive or *)
(* stop, but nothing comes between its flag and the end of its channel.    *)
Fairness ==
  /\ WF_vars(Coordinator) /\ WF_vars(app = "closing" /\ Shutdown) /\ WF_vars(Joined)
  /\ \A s \in Sensors : WF_vars(SensorThread(s))

Spec == Init /\ [][Next]_vars /\ Fairness

-----------------------------------------------------------------------------
Batch(n) == {[sensor |-> s, rotation |-> n] : s \in Sensors}
Rotations == 0..MaxRotation

(* What the application receives, and what it has still to receive, are    *)
(* the batches 1, 2, ... with nothing left out: each has the scans of both *)
(* sensors, of the same rotation, and no batch follows an error.           *)
BatchesInOrder ==
  LET all == received \o output
  IN  \A n \in 1..Len(all) : all[n] = Batch(n)

(* A scan that could not be made is never passed over: the coordinator     *)
(* ends with an error, even if it was being stopped at the time.           *)
TroubleIsReported ==
  coordinator \in {"stopping", "joining", "ended"} /\ troubled => result = "error"

(* shutdown() returns, even when the coordinator was waiting for room in   *)
(* the output channel or for a sensor thread.                              *)
ShutdownReturns == app = "closing" ~> app \in {"joined", "dropped"}

(* Refinement: all that the application sees of the coordinator and its    *)
(* sensor threads is one thread that sends numbered batches.  It ends when *)
(* the coordinator does, after the sensor threads, and a batch that was    *)
(* refused, one scheduled past and never sent, is in its hands until then. *)
ThreadState ==
  IF coordinator # "ended" THEN "running" ELSE IF result = "ok" THEN "ended" ELSE "failed"

BatchesSent == Len(received) + Len(output)
Refused == result = "ok" /\ pending[1] = BatchesSent + 2
Offering == coordinator = "sending" \/ (coordinator \in {"stopping", "joining"} /\ Refused)

NumberOf(batch) ==
  IF batch \in {Batch(n) : n \in 1..MaxRotation}
  THEN CHOOSE n \in 1..MaxRotation : batch = Batch(n) ELSE 0

Outbox == [i \in 1..Len(output) |-> NumberOf(output[i])]

Source == INSTANCE BatchSource WITH
  thread <- ThreadState, sent <- BatchesSent, offering <- Offering, outbox <- Outbox

(* The promise the run loop of Application is built on: batches come one   *)
(* by one, none is lost but the last when the thread is stopped, an end    *)
(* without an error follows a stop only, and a stop is followed by an end. *)
ImplementsBatchSource == Source!Spec
=============================================================================
