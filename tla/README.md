# Specification of the scrap-monitoring LiDAR generator

TLA+ modules, TLC configurations and TLAPS proofs for the generator in `src/` (a Rust
program: one tokio runtime, a generation thread, two sensor threads and a diagnostics
thread). The program simulates two LiDAR sensors over a simulated heap of scrap, serves the
scans over gRPC on Unix sockets, writes status files, and sends model snapshots to a TCP
receiver. `PROJECT.json` lists every definition with the source lines it models, every run,
every seeded fault and every theorem.

Commands, from this directory: `tlc -workers 2 -config MCLatestTwo.cfg MCLatestTwo` (see the
table of runs), `tlapm ScanRuntimeProofs.tla`.

## 1. Inventory

Paths are relative to `src/src/`.

| Component | State it keeps | Operations | Talks to |
|---|---|---|---|
| Scan ring, `scan_runtime/buffer.rs` | last serial, closed flag, two retained frames, a `Notify` | `publish`, `next_after`, `close` | written by the run loop, read by streams |
| Scan subscriptions, `scan_runtime/server.rs` | permits and `frame_loss` per lane, cursor per stream | `subscribe_scans`, `poll_next`, drop | ring; tonic |
| Scan runtime, `scan_runtime/{server,status,clock}.rs` | progress per lane, status files, tasks, shutdown and fatal channels | `start`, `publish`, status rounds, monitors, `close`, drop | run loop; ring; file system |
| Socket lifecycle, same file | socket files and their (device, inode) | preflight, stale removal, bind and rename, removal | file system |
| Observation publisher, `observation.rs` | one-record slot, counters, back-off | `publish`, `start`, the task, `close`, drop | run loop; a TCP receiver |
| Diagnostics writer, `diagnostics.rs` | counts, bounded queue, file | `try_record`, the thread, `close`, drop | run loop; file system |
| Generation, `runtime/generation.rs` and the coordinator of `runtime/application.rs` | pending rotations, two request/response channels, output channel, stop flag | pace, dispatch, collect, send, `shutdown` | run loop; sensor threads; scenario and measurement |
| Run loop, `runtime/application.rs` | counters, boundary | select over signal, fatal, output; close order; exit | all of the above |
| Edge validation, `runtime/edge_validation.rs` | window, samples, transitions | `record_batch`, `finish` | run loop |
| Scenario, `scenario/*` | phase, surface, cycle, events | `advance_to`, snapshots | generation |
| Measurement, `measurement/*` | rotation schedule, retained snapshots, spatial events | `next_scan`, `generate`, `discard_*` | sensor threads |
| Configuration, geometry, random numbers, CLI, export | none, or none that changes | sequential functions | start-up |

What is hard here is not any one function. It is the order of steps between the run loop, the
status task, gRPC streams, the observation task and four threads: a publication between a
reader's look and its sleep, a clock read beside a publication, a close that has to win
against a stuck client, a failed second rename, an abort in the middle of a write, a panic
while the other thread still works, a stop while a channel is full. Each of these is a hazard
in `PROJECT.json`, at its line, with the properties that watch it.

What makes each component correct:

- ring: the newest two frames in order, exact loss, no missed wake-up;
- subscriptions: no slot and no loss goes missing;
- scan runtime: no false clock error, both statuses from one instant, monotonic files, no
  silent fault, `close()` returns and nothing is written after it;
- observation: every record accounted for, in order, at most once; the task never gives up;
- diagnostics: every record accounted for, whole lines in order, the caller never waits;
- generation: complete batches in order, failures reported, shutdown returns;
- run loop: everything opened is closed on every way out, a snapshot is there when a record
  needs it, the result names the cause, a signal ends the process;
- sockets: a running process is reached at its names, an ended one leaves
  nothing it could remove, leftovers do
  not keep the next one from starting, what is not its own stays;
- scenario: every event once and in order, the volume of the heap is the planned one;
- measurement: every sample sees the surface, the distortions and the dropouts of its instant,
  and generation never ends by itself, but for its limits;
- edge validation: a report is about the whole window, a whole run is not refused, the output is
  whole and never replaces a file.

## 2. Modules

| Module | Models | State and actions against the code |
|---|---|---|
| `Retention` | arithmetic of a latest-two ring | which serial comes after a cursor, and the loss before it |
| `RetainedLog` | *abstract*: what the ring promises | a log, readers with cursors; no ring, lock or wake-up |
| `LatestTwo` | the ring with its streams | one action per step under the async mutex; `notify_waiters` is a step of its own after the mutex; a reader registers (`Call`), looks (`Deliver`, `End`, `LookInVain`), sleeps, wakes; `Drop` is a client leaving at any moment |
| `ScanSubscription` | permits, `frame_loss` and the streams of a lane | uses `Retention` in place of the ring; `DeliverFrame` is `poll_next` with `add_frame_loss` |
| `ScanRuntime` | `GrpcScanRuntime` | `publish()` is three steps (ring, clock, progress); a status round is lock, lock, clock, build and unlock, two temporary files, two renames; serve and monitor tasks; `close()` with its one deadline; drop, kill, restart |
| `SocketLifecycle` | the socket names of several processes | every call on the directory is a step: look, stale removal, bind under a temporary name, read the inode, rename without replacement, look and unlink at the end; any call may fail, those of the cleanup too; kill at any step; an operator who puts files and sockets there, also between a look and its unlink |
| `Observation` | the publisher and its task | the owner's mutex step and its `notify_one` are two steps; the task's look, sleep, connect, take, encode and write are separate; an abort takes effect only at an await |
| `Diagnostics` | writer and thread | selection, failure check, `try_send` and the count that follows it are separate steps; the file limit; a failed write leaves a residue in the `BufWriter` |
| `Generation` | coordinator, sensor threads, output channel | every channel operation is a step that waits for room or for a message; any answer may be an error, any scan may panic; a batch whose answers are in may fail all the same, at the cut of the histories or at the snapshot; `Shutdown` is two steps, the stop flag and then the close of the receiver |
| `BatchSource` | *abstract*: what generation promises the run loop | one thread that makes and sends numbered batches through a channel of one, fails, or ends when it is told to (`Stop`, and after it `Close`); no sensor threads, schedule or deadline |
| `Application` | `run_application` from start to result | one step per output opened, each of which may fail; the biased select as priorities of its three branches; a batch is handled scan by scan; stop, join and the closes in their order; the generation thread counts batches with `SnapshotCaptureSchedule`, the run loop counts records |
| `EdgeValidation` | the recorder and its report | `record_batch` with every check in its order, phase changes, semantic samples, `finish`, and the report by temporary file, hard link and removal |
| `HeightField` | volumes of a surface | a few columns of whole units in place of the grid |
| `Scenario` | the scenario simulator | one call of `advance_to` up to the next event; update, transition and both on one instant; inlet switching; drawn values are choices |
| `Distortions` | falling material, voids, vehicles, dropouts | the timeline with `schedule`, `synchronize`, retention and `discard_before` |
| `Rotation` | `RotationSchedule` | which samples scan n takes; ceil by whole numbers |
| `Measurement` | generation of scans | composes the four before it: advance to the completion of a batch with `push_event` for each event, take every sample of the scan from the retained surface and timeline, cut the histories |

Proofs stand in modules of their own: `LatestTwoProofs` (the ring, and the lane built on it),
`ScanRuntimeProofs`, `SocketLifecycleProofs`, `ObservationProofs` (the publisher, and the
diagnostics writer), `GenerationProofs`, `ApplicationProofs` (the run loop, and the recorder of the
edge validation), `MeasurementProofs` (rotations, measurement and scenario), and `Sums`, the lemmas
about sums and least numbers that three of them need. A module about two components extends both; so that it can, the
names they would share are lengthened in `ScanSubscription` (`LaneInit`, `LaneSpec`), `Diagnostics`
(`WriterInit`, `WriterSpec`) and `EdgeValidation` (`ValidationInit`, `ValidationSpec`,
`LaserSensors`).

How they compose. `LatestTwo` implements `RetainedLog` (checked with liveness by TLC, its safety
part proved), and `Generation` implements `BatchSource` (the same). `ScanSubscription` builds on the log's retention arithmetic, not on the ring: because
of the refinement it need not know about mutexes and wake-ups. `ScanRuntime` knows only whether a
frame was accepted. `Measurement` extends `Distortions`, which extends `Scenario` and `HeightField`:
a step of generation is a call of `advance_to` of both, in the order of the code. `Application`
contains the other components by their promises: a publication or a record succeeds or fails, and
a close returns (`CloseReturns`, `CallsReturn`, `ShutdownReturns`). Its generation thread is that of
`BatchSource`, action for action, together with the counting of batches that decides which of them
carries a snapshot; that a thread told to stop does end is the fairness of `BatchSource`, which TLC
finds `Generation` to keep.

Data that no property tells apart is abstracted: a frame is a model value or a serial, a record its
sequence number, a status is its run, round, sequence and two clock readings, a record's size is one
of two, a surface a few columns. Both sensors share sample and rotation rates in the code
(`MeasurementConfig`), so that rotation n of both completes at the same instant; in `Measurement`
one scan stands for both. Times there and in `Scenario` are whole ticks and volumes whole units,
both exact, so that the tolerances of the code, which are for rounding, are zero.

Names beginning like an action and ending in a twist (`MakeRoomAtBack`, `WriteKeepingFailures`)
and headed *Seeded fault* are wrong versions of the definition they precede. No specification
uses them; each shows that a property fails when the code has that bug.

## 3. Runs

| Run | Bounds | States | Checks |
|---|---|---|---|
| `latest_two` | 2 readers, 2 writers, 2 frames, serials up to 3 | 170 thousand | type, window, exact loss, wake-ups, refinement of `RetainedLog` with fairness |
| `scan_subscription` | 3 clients, 2 slots, 5 frames, loss exhausted after 3, 4 streams | 1.2 million (symmetry) | slots and losses conserved |
| `late_subscriber` | 1 client | violation | the sentence of the deployment guide on late subscribers |
| `scan_runtime` | 1 frame per lane and run, clock up to 2, 3 rounds, 2 processes | 456 thousand | status files, faults and `close()`: seven properties |
| `socket_lifecycle` | 2 processes, 2 instance ids, 5 inodes, 1 failing call, 1 intervention | 2.1 million | reachable, nothing left behind but what a failed call cost, leftovers do not block, foreign names kept but in the look-then-unlink window |
| `observation` | 4 sequences, counters that saturate at 4, delays 1 to 6 | 21 thousand | accounting, order, back-off, never gives up |
| `diagnostics` | 2 sensors, 3 records each, queue of 2, file of 5 | 122 thousand | accounting, lines, calls return |
| `generation` | 5 rotations | 4.0 thousand | batches, failures, shutdown, refinement of `BatchSource` with fairness |
| `application` | 2 records per sensor, an observation every 2 rotations, window of 2, 4 batches | 75 thousand | nothing left open, snapshots, result, signal |
| `edge_validation` | warm-up 4 or 8, measurement 4, 8 or 12, period 2, 3 or 5, capacity 2 or 6, 2 changes kept of 3 | 78 thousand | complete reports, no false alarm, output |
| `measurement` | 2 columns, update every 2, fill in 4 or 5, collection in 3, lifetimes 2 and 4, dropouts of 1 and 3, 1 event per advance, 2 retained, 1 dropout per scan, rotation of 3 samples, 9 ticks | 280 thousand | samples see their instant, events, volumes |
| `uneven_rates` | 2 ticks between samples, 3 per rotation | violation | rates the configuration accepts do not end generation |

Why these bounds are enough. The ring holds two frames, so three serials show its first
eviction and the exhaustion of serials; five frames let a stream fall behind, and behind
again. Two slots and three clients are the least with a refusal. In `scan_runtime` one frame per lane
and a clock of two already separate "stamped before" from "stamped after" the status reading;
three rounds in two processes allow a later round in one process and a restart. The
diagnostics bounds have more records than the queue and than the file can hold. Observation
delays 1, 2, 4, 6 show the cap. Two processes with an operator show every pair of calls on one
name; five inodes are the fewest with which both processes hold their two sockets and an operator's
file has one, and since the lowest free number is given out, they are reused early. Four batches pass
both the last diagnostic record and the second observation. The periods of `edge_validation` divide
the window, end outside it, and are longer than a second. In `measurement` an update and a phase end
fall on one instant (fill in 4) and apart (fill in 5), events outlive a scan (4) and end within it (2),
nine ticks hold a whole cycle and the scan after it, and a dropout goes on into the next scan (3) or does
not (1). `MaxSerial`, `MaxCount`, `MaxSequence`, `MaxRotation`, `TransitionCapacity`, `AdvanceLimit`,
`RetainedLimit` and `DropoutLimit` are real limits of the code made small, so that their exhaustion is
checked as well; so is `EventLimit`, but it lies just beyond what a batch of the run brings, since a
smaller one would end every plan with an early phase change;
`MaxFrames`, `MaxOpened`, `MaxTime`, `MaxRounds`, `MaxRuns`, `MaxInode`, `MaxFaults`, `MaxOperator`,
`MaxBatch` and `MaxTransitions` are bounds of the model.

`CHECK_DEADLOCK FALSE` is set where the modelled component really ends: after the last
process of `ScanRuntime` and `SocketLifecycle`, after the result of `Application`, after the report
of `EdgeValidation`, after `close()` in the others. `Measurement` checks deadlock: a plan for which no
heap exists would stop there.

### Fairness

- `LatestTwo`: a writer that released the mutex notifies (no await in between), a polled call
  goes on. A client need not poll, nobody need publish or close.
- `ScanRuntime`: a status round has no await and goes on, timers fire, woken tasks run. A
  server is *not* fair: a client that stops reading keeps it from ending.
- `Observation`: the task is polled and each of its network operations has a timeout. That a
  connection succeeds is never assumed.
- `Diagnostics`: only the caller and its timeout are fair; the thread may be stuck for ever.
- `Generation`: threads run and a ray cast ends; the application need not receive. A shutdown that has
  set the flag goes on to close the receiver, as no await comes between (`runtime/application.rs:212`).
- `Application`: the main task is polled, its awaits return (which is what the components' own
  liveness says), and a thread that was told to stop ends (the fairness of `BatchSource`). That a batch is
  ever made is not assumed: `SignalEnds` holds with the thread waiting for room.

All of it is weak fairness. `EdgeValidation`, `SocketLifecycle` and `Measurement` state safety only.

### What the runs showed

- A subscriber is given up to two frames that were published before it subscribed
  (`scan_runtime/server.rs:219`; `tests/scan_runtime.rs` relies on it). `docs/deployment.md:204`
  says otherwise: finding `late_subscriber`.
- With any spatial distortion enabled and a rotation that is not a whole number of samples,
  generation ends with its first batch: the histories are cut at the first sample of the next
  scan, which is then later than what the timeline has advanced to (`runtime/generation.rs:309`,
  `measurement/spatial.rs:388`). `tests/configuration.rs:310` accepts such a rate: finding
  `uneven_rates`. The theorems `BeginsAtCompletion` and `GenerationEndsAtLimitsOnly` say that this
  is the exact condition: otherwise generation ends at one of its event limits only.
- `last_progress_at` of a lane may go back once: before the first frame the status shows its own
  `updated_at` there, and the first frame may have been stamped before that. No document
  speaks of it; `StatusNeverGoesBack` excepts it and says so.
- When the clock fails inside `publish()` the ring has a frame the status will never mention;
  the run ends with the error.
- A diagnostics thread that panics loses its queued records uncounted, and a record whose write
  failed may still become a whole line when the `BufWriter` is dropped: `LinesInOrder` allows
  one such line, at the end.
- The last scan identifier is dispatched and cast, but its batch is never delivered, because
  the schedule after it cannot be made.
- The biased select prefers a signal to a pending fault of the scan runtime: a process that is
  signalled as it fails may report success. `ResultNamesTheCause` states what holds of the result.
- The end of an edge validation that is not on a rotation boundary always gives an incomplete
  report, and a phase change up to the second rotation is refused: `NoFalseAlarm` names both. A failed
  write of the report after the hard link leaves the whole report at its path.
- Socket names are checked and then unlinked. When the close of one process overlaps the start
  of another on the same names, or an inode number is given out again, the closing process can remove
  its successor's socket. The deployment runs one after the other; the properties except
  processes whose names were `contested` in that way, and only those.
- In the same way a file that is put at a target between a process's look and its unlink is deleted
  (`scan_runtime/server.rs:668`, `:818`), although `docs/architecture.md:204` says that a path that is
  not a socket is not overwritten. `slipped` marks the processes for which the operator came in that
  window; `ForeignIsKept` holds outside of it, and the model does not keep the operator out of it.
- A process that ends leaves a name behind exactly where a call failed: the `lstat` that was to
  give its identity after a bind or a rename, or the `lstat` or `remove_file` of the cleanup, whose
  errors are ignored (`server.rs:815`, `:822`). `missed` holds these names, and `NothingLeftBehind` says
  that there are no others; the next start takes what is left for stale, unless it is a temporary
  name, which stays for ever.

## 4. Proofs

TLAPS with SMT, Zenon and LS4, for all values of the constants, bounds of the models included, from the
named assumptions of the modules alone. These are what the code or its configuration check: limits
are natural numbers, the durations of a validation are whole seconds and not zero
(`DurationsAreSeconds`), the delays of the back-off are ordered and its counter of failures holds
enough of them to reach the largest (`ObservationAssumption`: it is a `u64`, and some two thousand
doublings take the least positive `f64` to the greatest), the two rates of a schedule are positive (`RatesAssumption`), no process is
the operator (`SocketAssumption`), a surface has finitely many columns and a height
(`HeightFieldAssumption`). Each invariant was checked by TLC first.

An invariant of a run is seldom inductive by itself. The parts that were added to it, and why:

| Module | Theorems | Inductive argument |
|---|---|---|
| `LatestTwoProofs`, the ring | `TypeCorrect`, `RingCorrect`, `LossCorrect`, `WakeupCorrect`, `RingImplementsLog` | the window (`RingIsNewestWindow`) is inductive with the types; the loss needs it, because only the window says which serials lie between a cursor and the oldest entry; wake-ups need that a cursor never passes the serial and what a look in vain has seen; the refinement maps each step to a step of `RetainedLog` or a stutter |
| the same, the lane | `LaneTypeCorrect`, `SlotsCorrect`, `LaneLossCorrect` | a step moves one client, so the set of holders changes by it alone. No cursor passes the ring or falls behind what its stream was given; then what one stream missed is a number of its own, a delivery adds to it what the counter gets or what is `uncounted`, and the sum over all streams changes at one place |
| `ScanRuntimeProofs` | `Invariant`, `ClockNeverBlamed`, `RoundIsOneCut`, `StopsAreTold`, `RestingFilesArePair`, `ClosedIsQuiet`, `FilesGoForward` | `ClockInv`: a frame is stamped before it is recorded, and a round that has the clock's reading holds every guard and has cut the progress; `FilesInv`: which files and temporary files are of this round at each step of the writer; `ProgressInv` and `OrderInv`: a file is no later than what was built, and that no later than the progress; `RunInv` and `RunsDown`: when the writer can be stopped, and that a process that is down has none |
| `SocketLifecycleProofs` | `Invariant`, `RunningIsReached`, `NothingIsLeftBehind`, `LeftoversAreNoObstacle`, `ForeignNamesStay` | `KnowsItsOwn` and `RemovesItsOwn`: what a process knows of its sockets at each step, and what its list of removals can name; `NamesAccounted`: whatever name carries a process as its maker is one it will find again or one that a failed call cost it (`missed`). Inodes are all a process has to tell sockets apart: `ListenersDiffer` and `OperatorsDiffer` say when an inode number can mislead it, and that what is unlinked is what was seen unless the operator `slipped` in. `Alone`, `Undisturbed`, `Reached` and `Spared` follow a process that is not contested: nobody starts beside it, its start finds the directory as it left it, and those that still end do not take its sockets for theirs |
| `ObservationProofs`, the publisher | `Invariant`, `AccountsHold`, `OrderHolds`, `BackoffHolds` | accepted records are sent, dropped, in the slot or in the hand (counted as one each); what was handed out is older than the hand, the hand older than the slot; the owner adds up after the task has ended. `Backoff`: the delay is the initial one doubled for each failure, or it is the cap and the doubled one is not below it; the counter saturates only where the second holds. What the recursive `Doubled` is at each number comes from a least number where it is not |
| the same, the diagnostics writer | `WriterInvariant`, `WriterAccountsHold`, `FileInOrder` | `Sides`: who can hold a record when, and that a thread ends on an empty closed channel or by panic; `Ordered`: lines, residue or hand, queue and offered record come in the order of selection |
| `GenerationProofs` | `BatchesAreInOrder`, `TroubleReported`, `SensorsAreJoined`, `RequestsNeverBlock`, `GenerationIsBatchSource` | what each step of the coordinator knows of both sensor threads: `Resting`, `Scheduling`, `Collecting`, `Ending`, from `Idle`, `AtWork`, `Told` and `Gone`. The two are scheduled alike (`Alike`); when something went wrong, either the coordinator has an error or there is a thread it has yet to ask that will give it one; `Sent` counts what is in the channel and what was received. The refinement maps a batch that was refused to one still in the thread's hands, until it ends: `Stopping` says how such a batch is told from one that was sent, and that an end without an error follows a stop; `Denied`, that a batch is refused by a closed channel only, which may be after the stop or before its close |
| `ApplicationProofs`, the run loop | `SnapshotsAgree`, `NothingStaysOpen`, `ResultIsTheCause` | at batch n the thread has counted down `SampleLimit` by n and every sensor still recording has n - 1 records (`Counting`, `InLine`, `Recorded`); so what the run loop wants is what the thread captured. `Doors` and `ToClose`: outputs are opened in one order, and at each step of the way out the list of closes names every one that is open. `Causes`: an execution error stays true of the world until the result is made |
| the same, the edge validation | `RecorderInvariant`, `AlarmsAreJustified`, `ReportsAreComplete`, `OutputIsNeverReplaced` | `KnowsRun`: everything the recorder holds after q rotations is a function of q and of what the scenario did, in closed form; a batch takes it from q to q + 1. A refusal is then a disagreement between that form and the batch, which leaves only the reasons `NoFalseAlarm` names (the least change that is refused is looked at); a report is that form at the last rotation of the window |
| `MeasurementProofs`, rotations | `ScanIsItsRotation`, `EveryScanIsValid`, `ScansFollow`, `NextBeginsAfterCompletion`, `BeginsAtCompletion` | no induction: properties of the ceiling of a quotient |
| the same, generation | `GenerationEndsAtLimitsOnly` | the limits are those on scenario events of a batch, on distortion events of an advance and retained, and on dropouts of a scan; the scenario's clock is before its next event and not past the pending scan (`ClockInv`); timeline and scenario agree on the time; the entries reach back to the pending scan's first sample, and the timeline is retained from it on. Assumes `Aligned`: no distortion, or rotations of whole samples |
| the same, the scenario | `EventsKeepTheSchedule`, `PileKeepsToThePlan`, `NoTransitionIsRefused` | `CalendarInv`: the next update is the next multiple of the interval, and the only end of a phase still to come is the next; so nothing is due between two events. `PlanInv`: the plan of the phase is a balanced profile of what there was room for; an update moves the volume by the difference of two of its values, and at the end of a phase that is the whole plan, so that `transition_phase` never meets a phase that is not over |
| the same, the samples | `SamplesSeeTheirInstant` | `InstantInv`: the surface and the phase are those of the last event logged (`LastOfLog`); the retained snapshots answer for every time they cover as the whole log would (`EntriesInv`); the timeline retains whatever is not over by the time it was cut to (`HistoryInv`), and a void was uncovered at every instant of its past (`VoidsInv`); the dropouts drawn are over, but for the one the scheduler stands in, and none drawn later reaches back (`OutagesInv`); the samples taken so far are right and are exactly those before the pending scan (`SeenInv`). Holds for all rates: where generation ends by itself (`uneven_rates`), it gives out no wrong sample before |
| `Sums` | lemmas only | a sum over a finite set that grows, changes at one place, or is split. The library defines it by recursion over the subsets of a set; each lemma supposes a smallest subset for which it fails. `LeastNumber` is the same for natural numbers |

Every safety property of a passing run is stated by a theorem. Only model-checked is liveness, and
everything under fairness, which is out of the prover's reach: `CloseReturns`, `CallsReturn`,
`NeverGivesUp`, `ShutdownReturns`, `SignalEnds`, and the fairness that `ImplementsRetainedLog` and
`ImplementsBatchSource` ask for beyond `RingImplementsLog` and `GenerationIsBatchSource`. What a
recursive definition computes is proved only where a least counterexample does it (`Doubled`, the
sums, the outages).

## 5. Not modelled

Ray casting, diffusion and roughness of the height field, reflections, noise and jitter are
floating-point work without interleaving; random generators and rate profiles appear as the values
they may return. Encodings, configuration parsing, the export of processing configurations and the
command line are sequential functions without state that ordinary tests reach. Latencies, counts of
hits and of subscribers in the validation report decide nothing and are left out. An advance of the
scenario over several events in one call, which only tests make, and the working copies that make an
advance of generation all or nothing are left out: after an error the runtime is terminal and nothing
reads them. A poisoned `progress` mutex is left out: no code panics while holding it. The wall clock
is left out: no property compares two of its readings, and the status order is that of the monotonic
clock. `ClockBeforeDeadline` of the edge validation is left out: a batch is made once its deadline has
passed on the clock that stamps its frames.

## 6. Plan

What was planned is modelled, checked and proved. Extensions that would say something new:

1. a module for the order of effects in the export of a processing configuration
   (`edge_integration/mod.rs`), should it come to write more than one file;
2. the calls of `advance_to` over several events, with the working copies and their rollback, should
   the runtime come to make them;
3. a promise for the two hazards that no property covers (`scan_runtime/server.rs:459`,
   `diagnostics.rs:395`), once the code makes one.
