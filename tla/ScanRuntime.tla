---------------------------- MODULE ScanRuntime ----------------------------
(***************************************************************************)
(* GrpcScanRuntime (src/src/scan_runtime/server.rs): the publishing of     *)
(* frames, the status files of the two lanes, the tasks that serve them,   *)
(* and how all of it is closed, dropped, killed and started again.         *)
(*                                                                         *)
(* Four actors interleave: the application (one task: it publishes, and it *)
(* closes or drops the runtime), the status writer, the gRPC servers with  *)
(* the tasks that monitor them, and the clock.  The progress mutex of a    *)
(* lane is held by the status writer over several steps ("held"); the      *)
(* publisher's use of it is a single step.  What is inside a ring and what *)
(* its streams are given is LatestTwo's and ScanSubscription's business.   *)
(***************************************************************************)
EXTENDS Naturals, FiniteSetsExt

CONSTANTS MaxFrames,    \* bound: frames published per lane and run
          MaxTime,      \* bound: the clock, which is looked at while a runtime runs
          MaxRounds,    \* bound: status rounds of all runs, the initial ones included
          MaxRuns       \* bound: processes started one after the other

ASSUME RuntimeAssumption ==
  /\ MaxFrames \in Nat /\ MaxTime \in Nat
  /\ MaxRounds \in Nat \ {0} /\ MaxRuns \in Nat \ {0}

(* [Arc<LaneShared>; 2]: loops over the lanes go in this order. *)
Lanes == 1..2

VARIABLES
  now,          \* CLOCK_MONOTONIC; it survives the process
  run, phase,   \* the process: "starting", "running", "closing", "joining",
                \* "closed", "dropped", "down"
  \* the lanes
  serial,       \* per lane: frames accepted by the ring
  progress,     \* per lane: LaneProgress, at = 0 before the first frame
  \* the application inside publish()
  step, lane, stamp,
  \* the status writer inside write_all_statuses()
  writer,       \* "sleeping", "locking", "building", "preparing",
                \* "committing", "stopped"
  held,         \* the lanes whose progress guard it holds
  reading,      \* its clock reading
  built,        \* per lane: the status it has built
  temps,        \* lanes whose temporary file exists
  round,        \* history: rounds begun so far
  cut,          \* history: the progress of all lanes when the clock was read
  aborting,     \* its task was told to abort
  \* the files, which survive the process
  files,
  \* the tasks
  server,       \* per lane: "serving", "ended", "failed", "aborted"
  monitored,    \* lanes whose server task has returned
  shutdown, fatal, expired

clockVars == <<now>>
processVars == <<run, phase>>
publishVars == <<serial, progress, step, lane, stamp>>
writerVars == <<writer, held, reading, built, temps, round, cut, aborting>>
taskVars == <<server, monitored, shutdown, fatal, expired>>
vars == <<clockVars, processVars, publishVars, writerVars, files, taskVars>>

NoProgress == [l \in Lanes |-> [sequence |-> 0, at |-> 0]]
NoStatus == [run |-> 0, round |-> 0, sequence |-> 0, progressAt |-> 0, updatedAt |-> 0]

Init ==
  /\ now = 1
  /\ run = 1 /\ phase = "starting"
  /\ serial = [l \in Lanes |-> 0]
  /\ progress = NoProgress
  /\ step = "idle" /\ lane = 1 /\ stamp = 0
  /\ writer = "locking" /\ held = {} /\ reading = 0
  /\ built = [l \in Lanes |-> NoStatus]
  /\ temps = {} /\ round = 1 /\ cut = NoProgress /\ aborting = FALSE
  /\ files = [l \in Lanes |-> NoStatus]
  /\ server = [l \in Lanes |-> "serving"]
  /\ monitored = {} /\ shutdown = FALSE /\ fatal = "none" /\ expired = FALSE

Tick ==
  /\ phase = "running" /\ now < MaxTime
  /\ now' = now + 1
  /\ UNCHANGED <<processVars, publishVars, writerVars, files, taskVars>>

Alive == phase \notin {"starting", "down"}

-----------------------------------------------------------------------------
(* publish(): ring, clock, progress; each step may be overtaken by the     *)
(* status writer.  The application awaits one publish at a time.           *)
RingPublish(l) ==
  /\ phase = "running" /\ step = "idle"
  /\ serial[l] < MaxFrames
  /\ serial' = [serial EXCEPT ![l] = @ + 1]
  /\ step' = "accepted" /\ lane' = l
  /\ UNCHANGED <<clockVars, processVars, progress, stamp, writerVars, files, taskVars>>

ReadPublishClock ==
  /\ phase = "running" /\ step = "accepted"
  /\ stamp' = now
  /\ step' = "stamped"
  /\ UNCHANGED <<clockVars, processVars, serial, progress, lane, writerVars, files, taskVars>>

(* clock.read()? returns early: the ring has the frame, the status never   *)
(* will, and the run loop ends.                                            *)
PublishClockFails ==
  /\ phase = "running" /\ step = "accepted"
  /\ step' = "failed" /\ lane' = 1
  /\ UNCHANGED <<clockVars, processVars, serial, progress, stamp, writerVars,
                 files, taskVars>>

RecordProgress ==
  /\ phase = "running" /\ step = "stamped"
  /\ lane \notin held
  /\ progress' = [progress EXCEPT ![lane] = [sequence |-> serial[lane], at |-> stamp]]
  /\ step' = "idle" /\ lane' = 1 /\ stamp' = 0
  /\ UNCHANGED <<clockVars, processVars, serial, writerVars, files, taskVars>>

-----------------------------------------------------------------------------
(* The status writer.  The first round of a run belongs to start_inner     *)
(* (phase "starting"), the others to the status task.                      *)

(* The two-second sleep is over.  Nothing stops the timer from winning the *)
(* select against a shutdown, but an aborted task runs no further.         *)
BeginRound ==
  /\ Alive /\ writer = "sleeping" /\ ~aborting
  /\ round < MaxRounds
  /\ round' = round + 1
  /\ writer' = "locking"
  /\ UNCHANGED <<clockVars, processVars, publishVars, held, reading, built, temps,
                 cut, aborting, files, taskVars>>

LockProgress ==
  /\ writer = "locking" /\ held # Lanes
  /\ held' = held \union {Min(Lanes \ held)}
  /\ UNCHANGED <<clockVars, processVars, publishVars, writer, reading, built, temps,
                 round, cut, aborting, files, taskVars>>

(* Seeded fault: the clock is read before the progress guards are taken.   *)
ReadStatusClockEarly ==
  /\ writer = "locking"
  /\ \/ held = {} /\ reading' = now /\ UNCHANGED <<writer, cut>>
     \/ held = Lanes /\ writer' = "building" /\ cut' = progress /\ UNCHANGED reading
  /\ UNCHANGED <<clockVars, processVars, publishVars, held, built, temps, round,
                 aborting, files, taskVars>>

(* Seeded fault: the guards are let go once the clock has been read.       *)
ReadStatusClockUnlocking ==
  /\ writer = "locking" /\ held = Lanes
  /\ reading' = now /\ cut' = progress
  /\ writer' = "building"
  /\ held' = {}
  /\ UNCHANGED <<clockVars, processVars, publishVars, built, temps, round,
                 aborting, files, taskVars>>

(* Only under the guards of all lanes. *)
ReadStatusClock ==
  /\ writer = "locking" /\ held = Lanes
  /\ reading' = now /\ cut' = progress
  /\ writer' = "building"
  /\ UNCHANGED <<clockVars, processVars, publishVars, held, built, temps, round,
                 aborting, files, taskVars>>

(* The locals of write_all_statuses are gone. *)
ForgetRound ==
  /\ held' = {} /\ reading' = 0
  /\ built' = [l \in Lanes |-> NoStatus] /\ cut' = NoProgress

(* An error leaves the round: guards and PreparedStatus values are dropped *)
(* on the way.  The initial round fails start_inner; a later one sets the  *)
(* fatal value and ends the status task.                                   *)
LeaveRound(reason) ==
  /\ ForgetRound
  /\ writer' = "stopped"
  /\ IF phase = "starting"
     THEN phase' = "down" /\ UNCHANGED fatal
     ELSE fatal' = reason /\ UNCHANGED phase
  /\ UNCHANGED <<clockVars, run, publishVars, round, aborting,
                 files, server, monitored, shutdown, expired>>

StatusOf(l) ==
  [run |-> run, round |-> round, sequence |-> progress[l].sequence,
   progressAt |-> IF progress[l].at = 0 THEN reading ELSE progress[l].at,
   updatedAt |-> reading]

(* DriverStatus::new refuses a progress later than the reading. *)
InOrder == \A l \in Lanes : StatusOf(l).progressAt <= reading

(* Seeded fault: the progress is taken out of the lanes, not read.         *)
BuildStatusesTaking ==
  /\ writer = "building" /\ InOrder
  /\ built' = [l \in Lanes |-> StatusOf(l)]
  /\ progress' = NoProgress
  /\ held' = {} /\ writer' = "preparing"
  /\ UNCHANGED <<clockVars, processVars, serial, step, lane, stamp, reading, temps,
                 round, cut, aborting, files, taskVars>>

(* Both statuses are built, and the guards let go with drop(progress).     *)
BuildStatuses ==
  /\ writer = "building"
  /\ IF InOrder
     THEN /\ built' = [l \in Lanes |-> StatusOf(l)]
          /\ held' = {} /\ writer' = "preparing"
          /\ UNCHANGED <<clockVars, processVars, publishVars, reading, temps, round,
                         cut, aborting, files, taskVars>>
     ELSE temps' = {} /\ LeaveRound("clock behind")

(* prepare_atomic_status: the temporary file is written and synced.        *)
PrepareStatus ==
  /\ writer = "preparing"
  /\ temps' = temps \union {Min(Lanes \ temps)}
  /\ writer' = IF temps' = Lanes THEN "committing" ELSE "preparing"
  /\ UNCHANGED <<clockVars, processVars, publishVars, held, reading, built,
                 round, cut, aborting, files, taskVars>>

(* PreparedStatus::commit: one rename, lane after lane. *)
CommitStatus ==
  /\ writer = "committing" /\ temps # {}
  /\ LET l == Min(temps)
     IN  /\ files' = [files EXCEPT ![l] = built[l]]
         /\ temps' = temps \ {l}
  /\ UNCHANGED <<clockVars, processVars, publishVars, writer, held, reading, built,
                 round, cut, aborting, taskVars>>

(* The round is over; start_inner goes on to start the tasks. *)
EndRound ==
  /\ writer = "committing" /\ temps = {}
  /\ writer' = "sleeping"
  /\ phase' = IF phase = "starting" THEN "running" ELSE phase
  /\ ForgetRound
  /\ UNCHANGED <<clockVars, run, publishVars, temps, round, aborting, files, taskVars>>

(* Seeded fault: the status task ends, and nobody is told. *)
RoundFailsSilently ==
  /\ \/ writer = "locking" /\ held = Lanes
     \/ writer = "preparing"
     \/ writer = "committing" /\ temps # {}
  /\ temps' = {}
  /\ LeaveRound(fatal)

(* Seeded fault: a failed rename is skipped, and the loop goes on. *)
RoundFailsSkipping ==
  /\ writer = "committing" /\ temps # {}
  /\ temps' = {} /\ writer' = "sleeping"
  /\ phase' = IF phase = "starting" THEN "running" ELSE phase
  /\ ForgetRound
  /\ UNCHANGED <<clockVars, run, publishVars, round, aborting, files, taskVars>>

(* The clock, a temporary file (its write removes it again) or a rename    *)
(* fails; files that were renamed before stay renamed.                     *)
RoundFails ==
  /\ \/ writer = "locking" /\ held = Lanes
     \/ writer = "preparing"
     \/ writer = "committing" /\ temps # {}
  /\ temps' = {}
  /\ LeaveRound("status")

(* status_shutdown.changed(), or the abort reaches the task where it waits.*)
WriterStops ==
  /\ Alive /\ writer = "sleeping"
  /\ shutdown \/ aborting
  /\ writer' = "stopped"
  /\ UNCHANGED <<clockVars, processVars, publishVars, held, reading, built, temps,
                 round, cut, aborting, files, taskVars>>

-----------------------------------------------------------------------------
(* The servers: serve_with_incoming_shutdown of tonic, and the monitors.   *)
ServerFails(l) ==
  /\ Alive /\ server[l] = "serving"
  /\ server' = [server EXCEPT ![l] = "failed"]
  /\ UNCHANGED <<clockVars, processVars, publishVars, writerVars, files, monitored,
                 shutdown, fatal, expired>>

(* After the shutdown a server ends when its last connection has: a client *)
(* that stops reading puts this off for ever.                              *)
ServerEnds(l) ==
  /\ Alive /\ shutdown /\ server[l] = "serving"
  /\ server' = [server EXCEPT ![l] = "ended"]
  /\ UNCHANGED <<clockVars, processVars, publishVars, writerVars, files, monitored,
                 shutdown, fatal, expired>>

MonitorReturns(l) ==
  /\ Alive /\ server[l] \in {"ended", "failed"} /\ l \notin monitored
  /\ monitored' = monitored \union {l}
  /\ fatal' = IF shutdown THEN fatal ELSE "lane"
  /\ UNCHANGED <<clockVars, processVars, publishVars, writerVars, files, server,
                 shutdown, expired>>

-----------------------------------------------------------------------------
(* close(): the application is out of publish(), by success or by error.   *)
BeginClose ==
  /\ phase = "running" /\ step \in {"idle", "failed"}
  /\ phase' = "closing"
  /\ shutdown' = TRUE
  /\ UNCHANGED <<clockVars, run, publishVars, writerVars, files, server, monitored,
                 fatal, expired>>

(* GRACEFUL_STOP_TIMEOUT after the shutdown. *)
DeadlinePasses ==
  /\ phase \in {"closing", "joining"} /\ ~expired
  /\ expired' = TRUE
  /\ UNCHANGED <<clockVars, processVars, publishVars, writerVars, files, server,
                 monitored, shutdown, fatal>>

AbortWriter ==
  /\ phase = "closing" /\ expired /\ ~aborting
  /\ aborting' = TRUE
  /\ UNCHANGED <<clockVars, processVars, publishVars, writer, held, reading, built,
                 temps, round, cut, files, taskVars>>

(* Seeded fault: the aborted status task is not awaited. *)
JoinWriterAborted ==
  /\ phase = "closing" /\ (writer = "stopped" \/ aborting)
  /\ phase' = "joining"
  /\ UNCHANGED <<clockVars, run, publishVars, writerVars, files, taskVars>>

JoinWriter ==
  /\ phase = "closing" /\ writer = "stopped"
  /\ phase' = "joining"
  /\ UNCHANGED <<clockVars, run, publishVars, writerVars, files, taskVars>>

(* Seeded fault: a server gets no deadline of its own to answer to. *)
AbortServerNever(l) == FALSE /\ l \in Lanes /\ UNCHANGED vars

(* The monitor is aborted and awaited; its guard aborts the serve task. *)
AbortServer(l) ==
  /\ phase = "joining" /\ expired /\ l \notin monitored
  /\ monitored' = monitored \union {l}
  /\ server' = [server EXCEPT ![l] = IF @ = "serving" THEN "aborted" ELSE @]
  /\ UNCHANGED <<clockVars, processVars, publishVars, writerVars, files, shutdown,
                 fatal, expired>>

EndClose ==
  /\ phase = "joining" /\ monitored = Lanes
  /\ phase' = "closed"
  /\ UNCHANGED <<clockVars, run, publishVars, writerVars, files, taskVars>>

(* Drop without close(), when the application unwinds: everything is told  *)
(* to stop, nothing is awaited.                                            *)
DropRuntime ==
  /\ phase = "running"
  /\ phase' = "dropped"
  /\ shutdown' = TRUE /\ aborting' = TRUE
  /\ step' = "failed" /\ lane' = 1 /\ stamp' = 0
  /\ server' = [l \in Lanes |-> IF server[l] = "serving" THEN "aborted" ELSE server[l]]
  /\ monitored' = Lanes
  /\ UNCHANGED <<clockVars, run, serial, progress, writer, held, reading,
                 built, temps, round, cut, files, fatal, expired>>

(* The memory of a process that has begun no round, or that is gone.       *)
NewMemory ==
  /\ serial' = [l \in Lanes |-> 0] /\ progress' = NoProgress
  /\ step' = "idle" /\ lane' = 1 /\ stamp' = 0
  /\ ForgetRound /\ temps' = {} /\ aborting' = FALSE
  /\ server' = [l \in Lanes |-> "serving"]
  /\ monitored' = {} /\ shutdown' = FALSE /\ fatal' = "none" /\ expired' = FALSE

(* The process is killed, or exits after the runtime was closed or dropped,*)
(* or failed to start.  The files stay as they are; its temporary files    *)
(* are never looked at again, because their names hold a fresh UUID.       *)
Exit ==
  /\ phase # "down"
  /\ phase' = "down" /\ writer' = "stopped"
  /\ NewMemory
  /\ UNCHANGED <<clockVars, run, round, files>>

Restart ==
  /\ phase = "down" /\ run < MaxRuns
  /\ round < MaxRounds /\ round' = round + 1
  /\ run' = run + 1 /\ phase' = "starting" /\ writer' = "locking"
  /\ NewMemory
  /\ UNCHANGED <<clockVars, files>>

-----------------------------------------------------------------------------
Publisher == \/ \E l \in Lanes : RingPublish(l)
             \/ ReadPublishClock \/ PublishClockFails \/ RecordProgress

WriterGoesOn ==
  \/ LockProgress \/ ReadStatusClock \/ BuildStatuses
  \/ PrepareStatus \/ CommitStatus \/ EndRound \/ WriterStops

StatusWriter == BeginRound \/ WriterGoesOn \/ RoundFails

Servers == \E l \in Lanes : ServerFails(l) \/ ServerEnds(l) \/ MonitorReturns(l)

CloseGoesOn == \/ DeadlinePasses \/ AbortWriter \/ JoinWriter
               \/ (\E l \in Lanes : AbortServer(l)) \/ EndClose

Next ==
  \/ Tick
  \/ Publisher \/ StatusWriter \/ Servers
  \/ BeginClose \/ CloseGoesOn
  \/ DropRuntime \/ Exit \/ Restart

(* A round has no await in it, the runtime polls tasks that are ready, and *)
(* timers fire.  A server need not end: that is up to its clients.         *)
Fairness ==
  /\ WF_vars(WriterGoesOn)
  /\ WF_vars(DeadlinePasses) /\ WF_vars(AbortWriter) /\ WF_vars(JoinWriter)
  /\ \A l \in Lanes : WF_vars(AbortServer(l)) /\ WF_vars(MonitorReturns(l))
  /\ WF_vars(EndClose)

Spec == Init /\ [][Next]_vars /\ Fairness

-----------------------------------------------------------------------------
(* write_all_statuses never trips over a frame published beside it: the    *)
(* error of status.rs:66 ends no run on a clock that never goes back.      *)
NoFalseClockError == fatal # "clock behind"

(* The two statuses of a round describe both lanes at the instant of their *)
(* updated_at: no publication falls between the one and the other.         *)
StatusesAreOneCut ==
  writer \in {"preparing", "committing"} =>
    \A l \in Lanes : built[l].sequence = cut[l].sequence

(* Whenever the writer of a running process rests, the two files are the   *)
(* pair of its last round, and no round, whether it ended well or badly,   *)
(* leaves a temporary file behind: an old and a new file are seen side by  *)
(* side only while a round renames them, or after a round or the process   *)
(* was cut short.                                                          *)
FilesArePair ==
  /\ phase \in {"running", "closing", "joining"} /\ writer = "sleeping" =>
       \A l \in Lanes : files[l].run = run /\ files[l].round = round
  /\ writer \in {"sleeping", "stopped"} => temps = {}

(* A running runtime whose status files go stale or whose lane is no       *)
(* longer served has said so to the application.                           *)
NeverSilentlyStopped ==
  phase = "running" /\ (writer = "stopped" \/ monitored # {}) => fatal # "none"

(* Once close() has returned, the status files are never touched again by  *)
(* this process, not even by a round that was under way at the deadline.   *)
QuietAfterClose ==
  [][phase = "closed" => UNCHANGED <<files, temps>>]_vars

(* Within a run the status of a lane never goes back, and a later run's    *)
(* never gives way to an earlier one's.  last_progress_at is excepted      *)
(* while it stands for updated_at, before the first frame: the frame may   *)
(* have been stamped before the last such status was.                      *)
StatusNeverGoesBack ==
  [][\A l \in Lanes :
       \/ files'[l].run > files[l].run
       \/ /\ files'[l].run = files[l].run
          /\ files'[l].sequence >= files[l].sequence
          /\ files'[l].updatedAt >= files[l].updatedAt
          /\ files[l].sequence > 0 => files'[l].progressAt >= files[l].progressAt]_vars

(* close() returns, whatever the clients and the status writer are doing.  *)
CloseReturns == phase = "closing" ~> phase \in {"closed", "down"}
=============================================================================
