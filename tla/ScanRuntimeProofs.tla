-------------------------- MODULE ScanRuntimeProofs --------------------------
(***************************************************************************)
(* Theorems about ScanRuntime for every number of frames, rounds, ticks    *)
(* and processes: what its status files say, and that a fault is told.     *)
(***************************************************************************)
EXTENDS ScanRuntime, TLAPS

USE RuntimeAssumption

(* Min of the lanes that are left is one of them: the loops over the lanes *)
(* make progress.                                                          *)
LEMMA MinOfLanes ==
  ASSUME NEW S, S \subseteq Lanes, S # {}
  PROVE  Min(S) \in S
<1>1. \E x \in S : \A y \in S : x =< y
  <2>1. \A y \in S : y = 1 \/ y = 2
    BY DEF Lanes
  <2>2. CASE 1 \in S
    BY <2>1, <2>2
  <2>3. CASE 1 \notin S
    BY <2>1, <2>3
  <2> QED BY <2>2, <2>3
<1> QED BY <1>1 DEF Min

-----------------------------------------------------------------------------
(* The inductive invariant, in parts.                                      *)

Status == [run : Nat, round : Nat, sequence : Nat, progressAt : Nat, updatedAt : Nat]

Types ==
  /\ now \in Nat \ {0} /\ run \in Nat /\ round \in Nat
  /\ serial \in [Lanes -> Nat]
  /\ progress \in [Lanes -> [sequence : Nat, at : Nat]]
  /\ stamp \in Nat /\ lane \in Lanes
  /\ held \subseteq Lanes /\ temps \subseteq Lanes
  /\ reading \in Nat
  /\ built \in [Lanes -> Status] /\ files \in [Lanes -> Status]

(* A frame is stamped before it is recorded, and a round reads the clock   *)
(* after everything that is recorded, because it holds every guard.        *)
ClockInv ==
  /\ \A l \in Lanes : progress[l].at <= now
  /\ step = "stamped" => stamp <= now
  /\ writer = "building" => /\ held = Lanes /\ cut = progress
                            /\ reading <= now
                            /\ \A l \in Lanes : progress[l].at <= reading

(* A task that ends before the shutdown says so. *)
RunInv ==
  /\ phase \in {"starting", "running"} => ~shutdown /\ ~aborting
  /\ phase = "starting" => monitored = {} /\ writer # "stopped"
  /\ phase \in {"joining", "closed"} => writer = "stopped"

(* Which temporary files there are, and which files are of this round.     *)
FilesInv ==
  /\ writer \in {"sleeping", "locking", "building", "stopped"} => temps = {}
  /\ writer = "preparing" => temps # Lanes
  /\ writer \in {"preparing", "committing"} =>
       \A l \in Lanes : built[l].run = run /\ built[l].round = round
  /\ writer = "committing" =>
       \A l \in Lanes \ temps : files[l].run = run /\ files[l].round = round
  /\ writer = "sleeping" =>
       \A l \in Lanes : files[l].run = run /\ files[l].round = round

(* The recorded progress of a lane only grows. *)
ProgressInv ==
  /\ \A l \in Lanes : /\ progress[l].sequence <= serial[l]
                      /\ progress[l].sequence > 0 => progress[l].at > 0
  /\ step = "stamped" => /\ stamp > 0
                         /\ \A l \in Lanes : progress[l].at <= stamp

(* No later than: what a status says, when it is of this process.          *)
NoLaterThan(s, sequence, at, instant) ==
  s.run = run => /\ s.sequence <= sequence
                 /\ s.updatedAt <= instant
                 /\ s.sequence > 0 => s.progressAt <= at

(* The files say no more than the lanes, and a status that waits to be     *)
(* renamed says no less than the file that it will replace.                *)
OrderInv ==
  /\ \A l \in Lanes : files[l].run <= run
  /\ phase # "down" =>
       \A l \in Lanes : NoLaterThan(files[l], progress[l].sequence, progress[l].at, now)
  /\ writer = "building" =>
       \A l \in Lanes : files[l].run = run => files[l].updatedAt <= reading
  /\ writer \in {"preparing", "committing"} =>
       \A l \in Lanes :
         /\ NoLaterThan(built[l], progress[l].sequence, progress[l].at, now)
         /\ writer = "preparing" \/ l \in temps =>
              NoLaterThan(files[l], built[l].sequence, built[l].progressAt,
                          built[l].updatedAt)

(* A process that is down does nothing. *)
RunsDown == phase = "down" => writer = "stopped"

(* Under all guards nothing recorded is later than the reading of the      *)
(* clock, so DriverStatus::new accepts every status of the round.          *)
LEMMA RoundInOrder ==
  ASSUME Types, ClockInv, writer = "building"
  PROVE  InOrder
BY DEF Types, ClockInv, InOrder, StatusOf, Lanes

(* Every status the writer can build is a status.                          *)
LEMMA StatusType ==
  ASSUME Types
  PROVE  /\ \A l \in Lanes : StatusOf(l) \in Status
         /\ NoStatus \in Status
BY DEF Types, StatusOf, Status, NoStatus

(* Every step keeps the types of the variables.                            *)
LEMMA TypesStep ==
  ASSUME Types, ClockInv, FilesInv, [Next]_vars
  PROVE  Types'
<1> USE DEF Types, Lanes, NoProgress, vars, clockVars, processVars, publishVars,
   writerVars, taskVars
<1>1. CASE Tick
  BY <1>1 DEF Tick
<1>2. ASSUME NEW l \in Lanes, RingPublish(l) PROVE Types'
  BY <1>2 DEF RingPublish
<1>3. CASE ReadPublishClock
  BY <1>3 DEF ReadPublishClock
<1>4. CASE PublishClockFails
  BY <1>4 DEF PublishClockFails
<1>5. CASE RecordProgress
  BY <1>5 DEF RecordProgress
<1>6. CASE BeginRound
  BY <1>6 DEF BeginRound, Alive
<1>7. CASE LockProgress
  <2>1. Lanes \ held # {}
    BY <1>7 DEF LockProgress
  <2>2. Min(Lanes \ held) \in Lanes
    BY <2>1, MinOfLanes
  <2> QED BY <1>7, <2>2 DEF LockProgress
<1>8. CASE ReadStatusClock
  BY <1>8 DEF ReadStatusClock
<1>9. CASE BuildStatuses
  <2>1. InOrder
    BY <1>9, RoundInOrder DEF BuildStatuses
  <2> QED BY <1>9, <2>1, StatusType DEF BuildStatuses
<1>10. CASE PrepareStatus
  <2>1. Lanes \ temps # {}
    BY <1>10 DEF PrepareStatus, FilesInv
  <2>2. Min(Lanes \ temps) \in Lanes
    BY <2>1, MinOfLanes
  <2> QED BY <1>10, <2>2 DEF PrepareStatus
<1>11. CASE CommitStatus
  <2>1. Min(temps) \in temps
    BY <1>11, MinOfLanes DEF CommitStatus
  <2> QED BY <1>11, <2>1 DEF CommitStatus
<1>12. CASE EndRound
  BY <1>12, StatusType DEF EndRound, ForgetRound
<1>13. CASE WriterStops
  BY <1>13 DEF WriterStops, Alive
<1>14. CASE RoundFails
  BY <1>14, StatusType DEF RoundFails, LeaveRound, ForgetRound
<1>15. ASSUME NEW l \in Lanes, ServerFails(l) PROVE Types'
  BY <1>15 DEF ServerFails, Alive
<1>16. ASSUME NEW l \in Lanes, ServerEnds(l) PROVE Types'
  BY <1>16 DEF ServerEnds, Alive
<1>17. ASSUME NEW l \in Lanes, MonitorReturns(l) PROVE Types'
  BY <1>17 DEF MonitorReturns, Alive
<1>18. CASE BeginClose
  BY <1>18 DEF BeginClose
<1>19. CASE DeadlinePasses
  BY <1>19 DEF DeadlinePasses
<1>20. CASE AbortWriter
  BY <1>20 DEF AbortWriter
<1>21. CASE JoinWriter
  BY <1>21 DEF JoinWriter
<1>22. ASSUME NEW l \in Lanes, AbortServer(l) PROVE Types'
  BY <1>22 DEF AbortServer
<1>23. CASE EndClose
  BY <1>23 DEF EndClose
<1>24. CASE DropRuntime
  BY <1>24 DEF DropRuntime
<1>25. CASE Exit
  BY <1>25, StatusType DEF Exit, NewMemory, ForgetRound
<1>26. CASE Restart
  BY <1>26, StatusType DEF Restart, NewMemory, ForgetRound
<1>27. CASE UNCHANGED vars
  BY <1>27
<1> QED
  BY <1>1, <1>2, <1>3, <1>4, <1>5, <1>6, <1>7, <1>8, <1>9, <1>10, <1>11, <1>12, <1>13,
     <1>14, <1>15, <1>16, <1>17, <1>18, <1>19, <1>20, <1>21, <1>22, <1>23, <1>24, <1>25,
     <1>26, <1>27
  DEF Next, Publisher, StatusWriter, WriterGoesOn, Servers, CloseGoesOn

(* Every step keeps the order of the clock readings.                       *)
LEMMA ClockStep ==
  ASSUME Types, ClockInv, [Next]_vars
  PROVE  ClockInv'
<1> USE DEF ClockInv, Types, Lanes, NoProgress, vars, clockVars, processVars,
   publishVars, writerVars, taskVars
<1>1. CASE Tick
  BY <1>1 DEF Tick
<1>2. ASSUME NEW l \in Lanes, RingPublish(l) PROVE ClockInv'
  BY <1>2 DEF RingPublish
<1>3. CASE ReadPublishClock
  BY <1>3 DEF ReadPublishClock
<1>4. CASE PublishClockFails
  BY <1>4 DEF PublishClockFails
<1>5. CASE RecordProgress
  BY <1>5 DEF RecordProgress
<1>6. CASE BeginRound
  BY <1>6 DEF BeginRound, Alive
<1>7. CASE LockProgress
  BY <1>7 DEF LockProgress
<1>8. CASE ReadStatusClock
  BY <1>8 DEF ReadStatusClock
<1>9. CASE BuildStatuses
  <2>1. InOrder
    BY <1>9, RoundInOrder DEF BuildStatuses
  <2> QED BY <1>9, <2>1 DEF BuildStatuses, StatusOf
<1>10. CASE PrepareStatus
  BY <1>10 DEF PrepareStatus
<1>11. CASE CommitStatus
  BY <1>11 DEF CommitStatus
<1>12. CASE EndRound
  BY <1>12 DEF EndRound, ForgetRound
<1>13. CASE WriterStops
  BY <1>13 DEF WriterStops, Alive
<1>14. CASE RoundFails
  BY <1>14 DEF RoundFails, LeaveRound, ForgetRound
<1>15. ASSUME NEW l \in Lanes, ServerFails(l) PROVE ClockInv'
  BY <1>15 DEF ServerFails, Alive
<1>16. ASSUME NEW l \in Lanes, ServerEnds(l) PROVE ClockInv'
  BY <1>16 DEF ServerEnds, Alive
<1>17. ASSUME NEW l \in Lanes, MonitorReturns(l) PROVE ClockInv'
  BY <1>17 DEF MonitorReturns, Alive
<1>18. CASE BeginClose
  BY <1>18 DEF BeginClose
<1>19. CASE DeadlinePasses
  BY <1>19 DEF DeadlinePasses
<1>20. CASE AbortWriter
  BY <1>20 DEF AbortWriter
<1>21. CASE JoinWriter
  BY <1>21 DEF JoinWriter
<1>22. ASSUME NEW l \in Lanes, AbortServer(l) PROVE ClockInv'
  BY <1>22 DEF AbortServer
<1>23. CASE EndClose
  BY <1>23 DEF EndClose
<1>24. CASE DropRuntime
  BY <1>24 DEF DropRuntime
<1>25. CASE Exit
  BY <1>25 DEF Exit, NewMemory, ForgetRound
<1>26. CASE Restart
  BY <1>26 DEF Restart, NewMemory, ForgetRound
<1>27. CASE UNCHANGED vars
  BY <1>27
<1> QED
  BY <1>1, <1>2, <1>3, <1>4, <1>5, <1>6, <1>7, <1>8, <1>9, <1>10, <1>11, <1>12, <1>13,
     <1>14, <1>15, <1>16, <1>17, <1>18, <1>19, <1>20, <1>21, <1>22, <1>23, <1>24, <1>25,
     <1>26, <1>27
  DEF Next, Publisher, StatusWriter, WriterGoesOn, Servers, CloseGoesOn

(* Every step keeps the phases of the process and its tasks in agreement.  *)
LEMMA RunStep ==
  ASSUME RunInv, [Next]_vars
  PROVE  RunInv'
<1> USE DEF RunInv, vars, clockVars, processVars, publishVars, writerVars, taskVars
<1>1. CASE Tick
  BY <1>1 DEF Tick
<1>2. ASSUME NEW l \in Lanes, RingPublish(l) PROVE RunInv'
  BY <1>2 DEF RingPublish
<1>3. CASE ReadPublishClock
  BY <1>3 DEF ReadPublishClock
<1>4. CASE PublishClockFails
  BY <1>4 DEF PublishClockFails
<1>5. CASE RecordProgress
  BY <1>5 DEF RecordProgress
<1>6. CASE BeginRound
  BY <1>6 DEF BeginRound, Alive
<1>7. CASE LockProgress
  BY <1>7 DEF LockProgress
<1>8. CASE ReadStatusClock
  BY <1>8 DEF ReadStatusClock
<1>9. CASE BuildStatuses
  BY <1>9 DEF BuildStatuses, LeaveRound, ForgetRound, InOrder, StatusOf
<1>10. CASE PrepareStatus
  BY <1>10 DEF PrepareStatus
<1>11. CASE CommitStatus
  BY <1>11 DEF CommitStatus
<1>12. CASE EndRound
  BY <1>12 DEF EndRound, ForgetRound
<1>13. CASE WriterStops
  BY <1>13 DEF WriterStops, Alive
<1>14. CASE RoundFails
  BY <1>14 DEF RoundFails, LeaveRound, ForgetRound
<1>15. ASSUME NEW l \in Lanes, ServerFails(l) PROVE RunInv'
  BY <1>15 DEF ServerFails, Alive
<1>16. ASSUME NEW l \in Lanes, ServerEnds(l) PROVE RunInv'
  BY <1>16 DEF ServerEnds, Alive
<1>17. ASSUME NEW l \in Lanes, MonitorReturns(l) PROVE RunInv'
  BY <1>17 DEF MonitorReturns, Alive
<1>18. CASE BeginClose
  BY <1>18 DEF BeginClose
<1>19. CASE DeadlinePasses
  BY <1>19 DEF DeadlinePasses
<1>20. CASE AbortWriter
  BY <1>20 DEF AbortWriter
<1>21. CASE JoinWriter
  BY <1>21 DEF JoinWriter
<1>22. ASSUME NEW l \in Lanes, AbortServer(l) PROVE RunInv'
  BY <1>22 DEF AbortServer
<1>23. CASE EndClose
  BY <1>23 DEF EndClose
<1>24. CASE DropRuntime
  BY <1>24 DEF DropRuntime
<1>25. CASE Exit
  BY <1>25 DEF Exit, NewMemory, ForgetRound
<1>26. CASE Restart
  BY <1>26 DEF Restart, NewMemory, ForgetRound
<1>27. CASE UNCHANGED vars
  BY <1>27
<1> QED
  BY <1>1, <1>2, <1>3, <1>4, <1>5, <1>6, <1>7, <1>8, <1>9, <1>10, <1>11, <1>12, <1>13,
     <1>14, <1>15, <1>16, <1>17, <1>18, <1>19, <1>20, <1>21, <1>22, <1>23, <1>24, <1>25,
     <1>26, <1>27
  DEF Next, Publisher, StatusWriter, WriterGoesOn, Servers, CloseGoesOn

(* No step sets the fatal value to an error of the clock.                  *)
LEMMA NoFalseClockErrorStep ==
  ASSUME Types, ClockInv, NoFalseClockError, [Next]_vars
  PROVE  NoFalseClockError'
<1> USE DEF NoFalseClockError, vars, clockVars, processVars, publishVars, writerVars,
   taskVars
<1>1. CASE Tick
  BY <1>1 DEF Tick
<1>2. ASSUME NEW l \in Lanes, RingPublish(l) PROVE NoFalseClockError'
  BY <1>2 DEF RingPublish
<1>3. CASE ReadPublishClock
  BY <1>3 DEF ReadPublishClock
<1>4. CASE PublishClockFails
  BY <1>4 DEF PublishClockFails
<1>5. CASE RecordProgress
  BY <1>5 DEF RecordProgress
<1>6. CASE BeginRound
  BY <1>6 DEF BeginRound, Alive
<1>7. CASE LockProgress
  BY <1>7 DEF LockProgress
<1>8. CASE ReadStatusClock
  BY <1>8 DEF ReadStatusClock
<1>9. CASE BuildStatuses
  <2>1. InOrder
    BY <1>9, RoundInOrder DEF BuildStatuses
  <2> QED BY <1>9, <2>1 DEF BuildStatuses, StatusOf
<1>10. CASE PrepareStatus
  BY <1>10 DEF PrepareStatus
<1>11. CASE CommitStatus
  BY <1>11 DEF CommitStatus
<1>12. CASE EndRound
  BY <1>12 DEF EndRound, ForgetRound
<1>13. CASE WriterStops
  BY <1>13 DEF WriterStops, Alive
<1>14. CASE RoundFails
  BY <1>14 DEF RoundFails, LeaveRound, ForgetRound
<1>15. ASSUME NEW l \in Lanes, ServerFails(l) PROVE NoFalseClockError'
  BY <1>15 DEF ServerFails, Alive
<1>16. ASSUME NEW l \in Lanes, ServerEnds(l) PROVE NoFalseClockError'
  BY <1>16 DEF ServerEnds, Alive
<1>17. ASSUME NEW l \in Lanes, MonitorReturns(l) PROVE NoFalseClockError'
  BY <1>17 DEF MonitorReturns, Alive
<1>18. CASE BeginClose
  BY <1>18 DEF BeginClose
<1>19. CASE DeadlinePasses
  BY <1>19 DEF DeadlinePasses
<1>20. CASE AbortWriter
  BY <1>20 DEF AbortWriter
<1>21. CASE JoinWriter
  BY <1>21 DEF JoinWriter
<1>22. ASSUME NEW l \in Lanes, AbortServer(l) PROVE NoFalseClockError'
  BY <1>22 DEF AbortServer
<1>23. CASE EndClose
  BY <1>23 DEF EndClose
<1>24. CASE DropRuntime
  BY <1>24 DEF DropRuntime
<1>25. CASE Exit
  BY <1>25 DEF Exit, NewMemory, ForgetRound
<1>26. CASE Restart
  BY <1>26 DEF Restart, NewMemory, ForgetRound
<1>27. CASE UNCHANGED vars
  BY <1>27
<1> QED
  BY <1>1, <1>2, <1>3, <1>4, <1>5, <1>6, <1>7, <1>8, <1>9, <1>10, <1>11, <1>12, <1>13,
     <1>14, <1>15, <1>16, <1>17, <1>18, <1>19, <1>20, <1>21, <1>22, <1>23, <1>24, <1>25,
     <1>26, <1>27
  DEF Next, Publisher, StatusWriter, WriterGoesOn, Servers, CloseGoesOn

(* No step lets the statuses of a round come from two instants.            *)
LEMMA OneCutStep ==
  ASSUME Types, ClockInv, StatusesAreOneCut, [Next]_vars
  PROVE  StatusesAreOneCut'
<1> USE DEF StatusesAreOneCut, ClockInv, Types, vars, clockVars, processVars,
   publishVars, writerVars, taskVars
<1>1. CASE Tick
  BY <1>1 DEF Tick
<1>2. ASSUME NEW l \in Lanes, RingPublish(l) PROVE StatusesAreOneCut'
  BY <1>2 DEF RingPublish
<1>3. CASE ReadPublishClock
  BY <1>3 DEF ReadPublishClock
<1>4. CASE PublishClockFails
  BY <1>4 DEF PublishClockFails
<1>5. CASE RecordProgress
  BY <1>5 DEF RecordProgress
<1>6. CASE BeginRound
  BY <1>6 DEF BeginRound, Alive
<1>7. CASE LockProgress
  BY <1>7 DEF LockProgress
<1>8. CASE ReadStatusClock
  BY <1>8 DEF ReadStatusClock
<1>9. CASE BuildStatuses
  <2>1. InOrder
    BY <1>9, RoundInOrder DEF BuildStatuses
  <2> QED BY <1>9, <2>1 DEF BuildStatuses, StatusOf
<1>10. CASE PrepareStatus
  BY <1>10 DEF PrepareStatus
<1>11. CASE CommitStatus
  BY <1>11 DEF CommitStatus
<1>12. CASE EndRound
  BY <1>12 DEF EndRound, ForgetRound
<1>13. CASE WriterStops
  BY <1>13 DEF WriterStops, Alive
<1>14. CASE RoundFails
  BY <1>14 DEF RoundFails, LeaveRound, ForgetRound
<1>15. ASSUME NEW l \in Lanes, ServerFails(l) PROVE StatusesAreOneCut'
  BY <1>15 DEF ServerFails, Alive
<1>16. ASSUME NEW l \in Lanes, ServerEnds(l) PROVE StatusesAreOneCut'
  BY <1>16 DEF ServerEnds, Alive
<1>17. ASSUME NEW l \in Lanes, MonitorReturns(l) PROVE StatusesAreOneCut'
  BY <1>17 DEF MonitorReturns, Alive
<1>18. CASE BeginClose
  BY <1>18 DEF BeginClose
<1>19. CASE DeadlinePasses
  BY <1>19 DEF DeadlinePasses
<1>20. CASE AbortWriter
  BY <1>20 DEF AbortWriter
<1>21. CASE JoinWriter
  BY <1>21 DEF JoinWriter
<1>22. ASSUME NEW l \in Lanes, AbortServer(l) PROVE StatusesAreOneCut'
  BY <1>22 DEF AbortServer
<1>23. CASE EndClose
  BY <1>23 DEF EndClose
<1>24. CASE DropRuntime
  BY <1>24 DEF DropRuntime
<1>25. CASE Exit
  BY <1>25 DEF Exit, NewMemory, ForgetRound
<1>26. CASE Restart
  BY <1>26 DEF Restart, NewMemory, ForgetRound
<1>27. CASE UNCHANGED vars
  BY <1>27
<1> QED
  BY <1>1, <1>2, <1>3, <1>4, <1>5, <1>6, <1>7, <1>8, <1>9, <1>10, <1>11, <1>12, <1>13,
     <1>14, <1>15, <1>16, <1>17, <1>18, <1>19, <1>20, <1>21, <1>22, <1>23, <1>24, <1>25,
     <1>26, <1>27
  DEF Next, Publisher, StatusWriter, WriterGoesOn, Servers, CloseGoesOn

(* No task of a running runtime ends without a fatal value.                *)
LEMMA NotSilentStep ==
  ASSUME RunInv, NeverSilentlyStopped, [Next]_vars
  PROVE  NeverSilentlyStopped'
<1> USE DEF NeverSilentlyStopped, RunInv, vars, clockVars, processVars, publishVars,
   writerVars, taskVars
<1>1. CASE Tick
  BY <1>1 DEF Tick
<1>2. ASSUME NEW l \in Lanes, RingPublish(l) PROVE NeverSilentlyStopped'
  BY <1>2 DEF RingPublish
<1>3. CASE ReadPublishClock
  BY <1>3 DEF ReadPublishClock
<1>4. CASE PublishClockFails
  BY <1>4 DEF PublishClockFails
<1>5. CASE RecordProgress
  BY <1>5 DEF RecordProgress
<1>6. CASE BeginRound
  BY <1>6 DEF BeginRound, Alive
<1>7. CASE LockProgress
  BY <1>7 DEF LockProgress
<1>8. CASE ReadStatusClock
  BY <1>8 DEF ReadStatusClock
<1>9. CASE BuildStatuses
  BY <1>9 DEF BuildStatuses, LeaveRound, ForgetRound, InOrder, StatusOf
<1>10. CASE PrepareStatus
  BY <1>10 DEF PrepareStatus
<1>11. CASE CommitStatus
  BY <1>11 DEF CommitStatus
<1>12. CASE EndRound
  BY <1>12 DEF EndRound, ForgetRound
<1>13. CASE WriterStops
  BY <1>13 DEF WriterStops, Alive
<1>14. CASE RoundFails
  BY <1>14 DEF RoundFails, LeaveRound, ForgetRound
<1>15. ASSUME NEW l \in Lanes, ServerFails(l) PROVE NeverSilentlyStopped'
  BY <1>15 DEF ServerFails, Alive
<1>16. ASSUME NEW l \in Lanes, ServerEnds(l) PROVE NeverSilentlyStopped'
  BY <1>16 DEF ServerEnds, Alive
<1>17. ASSUME NEW l \in Lanes, MonitorReturns(l) PROVE NeverSilentlyStopped'
  BY <1>17 DEF MonitorReturns, Alive
<1>18. CASE BeginClose
  BY <1>18 DEF BeginClose
<1>19. CASE DeadlinePasses
  BY <1>19 DEF DeadlinePasses
<1>20. CASE AbortWriter
  BY <1>20 DEF AbortWriter
<1>21. CASE JoinWriter
  BY <1>21 DEF JoinWriter
<1>22. ASSUME NEW l \in Lanes, AbortServer(l) PROVE NeverSilentlyStopped'
  BY <1>22 DEF AbortServer
<1>23. CASE EndClose
  BY <1>23 DEF EndClose
<1>24. CASE DropRuntime
  BY <1>24 DEF DropRuntime
<1>25. CASE Exit
  BY <1>25 DEF Exit, NewMemory, ForgetRound
<1>26. CASE Restart
  BY <1>26 DEF Restart, NewMemory, ForgetRound
<1>27. CASE UNCHANGED vars
  BY <1>27
<1> QED
  BY <1>1, <1>2, <1>3, <1>4, <1>5, <1>6, <1>7, <1>8, <1>9, <1>10, <1>11, <1>12, <1>13,
     <1>14, <1>15, <1>16, <1>17, <1>18, <1>19, <1>20, <1>21, <1>22, <1>23, <1>24, <1>25,
     <1>26, <1>27
  DEF Next, Publisher, StatusWriter, WriterGoesOn, Servers, CloseGoesOn

(* Every step keeps the account of the temporary files and of the round of *)
(* each file.                                                              *)
LEMMA FilesStep ==
  ASSUME Types, ClockInv, FilesInv, [Next]_vars
  PROVE  FilesInv'
<1> USE DEF FilesInv, Types, vars, clockVars, processVars, publishVars, writerVars,
   taskVars
<1>1. CASE Tick
  BY <1>1 DEF Tick
<1>2. ASSUME NEW l \in Lanes, RingPublish(l) PROVE FilesInv'
  BY <1>2 DEF RingPublish
<1>3. CASE ReadPublishClock
  BY <1>3 DEF ReadPublishClock
<1>4. CASE PublishClockFails
  BY <1>4 DEF PublishClockFails
<1>5. CASE RecordProgress
  BY <1>5 DEF RecordProgress
<1>6. CASE BeginRound
  BY <1>6 DEF BeginRound, Alive
<1>7. CASE LockProgress
  BY <1>7 DEF LockProgress
<1>8. CASE ReadStatusClock
  BY <1>8 DEF ReadStatusClock
<1>9. CASE BuildStatuses
  <2>1. InOrder
    BY <1>9, RoundInOrder DEF BuildStatuses
  <2> QED BY <1>9, <2>1 DEF BuildStatuses, StatusOf
<1>10. CASE PrepareStatus
  BY <1>10 DEF PrepareStatus
<1>11. CASE CommitStatus
  <2>1. Min(temps) \in temps
    BY <1>11, MinOfLanes DEF CommitStatus
  <2> QED BY <1>11, <2>1 DEF CommitStatus
<1>12. CASE EndRound
  BY <1>12 DEF EndRound, ForgetRound
<1>13. CASE WriterStops
  BY <1>13 DEF WriterStops, Alive
<1>14. CASE RoundFails
  BY <1>14 DEF RoundFails, LeaveRound, ForgetRound
<1>15. ASSUME NEW l \in Lanes, ServerFails(l) PROVE FilesInv'
  BY <1>15 DEF ServerFails, Alive
<1>16. ASSUME NEW l \in Lanes, ServerEnds(l) PROVE FilesInv'
  BY <1>16 DEF ServerEnds, Alive
<1>17. ASSUME NEW l \in Lanes, MonitorReturns(l) PROVE FilesInv'
  BY <1>17 DEF MonitorReturns, Alive
<1>18. CASE BeginClose
  BY <1>18 DEF BeginClose
<1>19. CASE DeadlinePasses
  BY <1>19 DEF DeadlinePasses
<1>20. CASE AbortWriter
  BY <1>20 DEF AbortWriter
<1>21. CASE JoinWriter
  BY <1>21 DEF JoinWriter
<1>22. ASSUME NEW l \in Lanes, AbortServer(l) PROVE FilesInv'
  BY <1>22 DEF AbortServer
<1>23. CASE EndClose
  BY <1>23 DEF EndClose
<1>24. CASE DropRuntime
  BY <1>24 DEF DropRuntime
<1>25. CASE Exit
  BY <1>25 DEF Exit, NewMemory, ForgetRound
<1>26. CASE Restart
  BY <1>26 DEF Restart, NewMemory, ForgetRound
<1>27. CASE UNCHANGED vars
  BY <1>27
<1> QED
  BY <1>1, <1>2, <1>3, <1>4, <1>5, <1>6, <1>7, <1>8, <1>9, <1>10, <1>11, <1>12, <1>13,
     <1>14, <1>15, <1>16, <1>17, <1>18, <1>19, <1>20, <1>21, <1>22, <1>23, <1>24, <1>25,
     <1>26, <1>27
  DEF Next, Publisher, StatusWriter, WriterGoesOn, Servers, CloseGoesOn

(* Every step keeps the recorded progress behind what was accepted and     *)
(* stamped.                                                                *)
LEMMA ProgressStep ==
  ASSUME Types, ClockInv, ProgressInv, [Next]_vars
  PROVE  ProgressInv'
<1> USE DEF ProgressInv, Types, ClockInv, NoProgress, vars, clockVars, processVars,
   publishVars, writerVars, taskVars
<1>1. CASE Tick
  BY <1>1 DEF Tick
<1>2. ASSUME NEW l \in Lanes, RingPublish(l) PROVE ProgressInv'
  BY <1>2 DEF RingPublish
<1>3. CASE ReadPublishClock
  BY <1>3 DEF ReadPublishClock
<1>4. CASE PublishClockFails
  BY <1>4 DEF PublishClockFails
<1>5. CASE RecordProgress
  BY <1>5 DEF RecordProgress
<1>6. CASE BeginRound
  BY <1>6 DEF BeginRound, Alive
<1>7. CASE LockProgress
  BY <1>7 DEF LockProgress
<1>8. CASE ReadStatusClock
  BY <1>8 DEF ReadStatusClock
<1>9. CASE BuildStatuses
  BY <1>9 DEF BuildStatuses, LeaveRound, ForgetRound, InOrder, StatusOf
<1>10. CASE PrepareStatus
  BY <1>10 DEF PrepareStatus
<1>11. CASE CommitStatus
  BY <1>11 DEF CommitStatus
<1>12. CASE EndRound
  BY <1>12 DEF EndRound, ForgetRound
<1>13. CASE WriterStops
  BY <1>13 DEF WriterStops, Alive
<1>14. CASE RoundFails
  BY <1>14 DEF RoundFails, LeaveRound, ForgetRound
<1>15. ASSUME NEW l \in Lanes, ServerFails(l) PROVE ProgressInv'
  BY <1>15 DEF ServerFails, Alive
<1>16. ASSUME NEW l \in Lanes, ServerEnds(l) PROVE ProgressInv'
  BY <1>16 DEF ServerEnds, Alive
<1>17. ASSUME NEW l \in Lanes, MonitorReturns(l) PROVE ProgressInv'
  BY <1>17 DEF MonitorReturns, Alive
<1>18. CASE BeginClose
  BY <1>18 DEF BeginClose
<1>19. CASE DeadlinePasses
  BY <1>19 DEF DeadlinePasses
<1>20. CASE AbortWriter
  BY <1>20 DEF AbortWriter
<1>21. CASE JoinWriter
  BY <1>21 DEF JoinWriter
<1>22. ASSUME NEW l \in Lanes, AbortServer(l) PROVE ProgressInv'
  BY <1>22 DEF AbortServer
<1>23. CASE EndClose
  BY <1>23 DEF EndClose
<1>24. CASE DropRuntime
  BY <1>24 DEF DropRuntime
<1>25. CASE Exit
  BY <1>25 DEF Exit, NewMemory, ForgetRound
<1>26. CASE Restart
  BY <1>26 DEF Restart, NewMemory, ForgetRound
<1>27. CASE UNCHANGED vars
  BY <1>27
<1> QED
  BY <1>1, <1>2, <1>3, <1>4, <1>5, <1>6, <1>7, <1>8, <1>9, <1>10, <1>11, <1>12, <1>13,
     <1>14, <1>15, <1>16, <1>17, <1>18, <1>19, <1>20, <1>21, <1>22, <1>23, <1>24, <1>25,
     <1>26, <1>27
  DEF Next, Publisher, StatusWriter, WriterGoesOn, Servers, CloseGoesOn

(* No step makes a file say more than its lane, or a prepared status less  *)
(* than the file it replaces.                                              *)
LEMMA OrderStep ==
  ASSUME Types, ClockInv, RunsDown, FilesInv, ProgressInv, OrderInv, [Next]_vars
  PROVE  OrderInv'
<1> USE DEF OrderInv, NoLaterThan, ProgressInv, FilesInv, Types, ClockInv, RunsDown,
   vars, clockVars, processVars, publishVars, writerVars, taskVars
<1>1. CASE Tick
  <2>1. /\ now' = now + 1 /\ now \in Nat
        /\ UNCHANGED <<run, phase, writer, reading, temps, built, files, progress>>
    BY <1>1 DEF Tick
  <2>2. \A l \in Lanes : files[l] \in Status /\ built[l] \in Status
    OBVIOUS
  <2>3. ASSUME phase # "down", NEW l \in Lanes
        PROVE  NoLaterThan(files[l], progress[l].sequence, progress[l].at, now)'
    BY <2>1, <2>2, <2>3 DEF Status
  <2>4. ASSUME writer \in {"preparing", "committing"}, NEW l \in Lanes
        PROVE  NoLaterThan(built[l], progress[l].sequence, progress[l].at, now)'
    BY <2>1, <2>2, <2>4 DEF Status
  <2> QED BY <2>1, <2>3, <2>4
<1>2. ASSUME NEW l \in Lanes, RingPublish(l) PROVE OrderInv'
  BY <1>2 DEF RingPublish
<1>3. CASE ReadPublishClock
  BY <1>3 DEF ReadPublishClock
<1>4. CASE PublishClockFails
  BY <1>4 DEF PublishClockFails
<1>5. CASE RecordProgress
  <2>1. /\ progress' =
             [progress EXCEPT ![lane] = [sequence |-> serial[lane], at |-> stamp]]
        /\ step = "stamped" /\ phase = "running"
        /\ UNCHANGED <<now, run, phase, writer, reading, temps, built, files>>
    BY <1>5 DEF RecordProgress
  <2>2. \A l \in Lanes : /\ files[l] \in Status /\ built[l] \in Status
                         /\ progress[l].sequence \in Nat /\ progress[l].at \in Nat
                         /\ progress'[l].sequence \in Nat /\ progress'[l].at \in Nat
    BY <2>1
  <2>3. \A l \in Lanes : /\ progress[l].sequence <= progress'[l].sequence
                         /\ progress[l].at <= progress'[l].at
    BY <2>1
  <2>4. ASSUME NEW l \in Lanes
        PROVE  NoLaterThan(files[l], progress[l].sequence, progress[l].at, now)'
    BY <2>1, <2>2, <2>3 DEF Status
  <2>5. ASSUME writer \in {"preparing", "committing"}, NEW l \in Lanes
        PROVE  NoLaterThan(built[l], progress[l].sequence, progress[l].at, now)'
    BY <2>1, <2>2, <2>3, <2>5 DEF Status
  <2> QED BY <2>1, <2>4, <2>5
<1>6. CASE BeginRound
  BY <1>6 DEF BeginRound, Alive
<1>7. CASE LockProgress
  BY <1>7 DEF LockProgress
<1>8. CASE ReadStatusClock
  BY <1>8 DEF ReadStatusClock
<1>9. CASE BuildStatuses
  <2>1. InOrder
    BY <1>9, RoundInOrder DEF BuildStatuses
  <2>2. /\ built' = [l \in Lanes |-> StatusOf(l)]
        /\ writer = "building" /\ writer' = "preparing"
        /\ UNCHANGED <<now, run, phase, reading, temps, files, progress>>
    BY <1>9, <2>1 DEF BuildStatuses
  <2>3. ASSUME NEW l \in Lanes
        PROVE  /\ NoLaterThan(built[l], progress[l].sequence, progress[l].at, now)'
               /\ NoLaterThan(files[l], built[l].sequence, built[l].progressAt,
                              built[l].updatedAt)'
    <3>1. /\ built'[l].sequence = progress[l].sequence
          /\ built'[l].updatedAt = reading
          /\ progress[l].sequence > 0 => built'[l].progressAt = progress[l].at
      BY <2>2 DEF StatusOf
    <3>2. files[l] \in Status /\ progress[l].sequence \in Nat
      OBVIOUS
    <3> QED BY <2>2, <3>1, <3>2 DEF Status
  <2> QED BY <2>2, <2>3
<1>10. CASE PrepareStatus
  BY <1>10 DEF PrepareStatus
<1>11. CASE CommitStatus
  <2>1. Min(temps) \in temps
    BY <1>11, MinOfLanes DEF CommitStatus
  <2> QED BY <1>11, <2>1 DEF CommitStatus
<1>12. CASE EndRound
  BY <1>12 DEF EndRound, ForgetRound
<1>13. CASE WriterStops
  BY <1>13 DEF WriterStops, Alive
<1>14. CASE RoundFails
  BY <1>14 DEF RoundFails, LeaveRound, ForgetRound
<1>15. ASSUME NEW l \in Lanes, ServerFails(l) PROVE OrderInv'
  BY <1>15 DEF ServerFails, Alive
<1>16. ASSUME NEW l \in Lanes, ServerEnds(l) PROVE OrderInv'
  BY <1>16 DEF ServerEnds, Alive
<1>17. ASSUME NEW l \in Lanes, MonitorReturns(l) PROVE OrderInv'
  BY <1>17 DEF MonitorReturns, Alive
<1>18. CASE BeginClose
  BY <1>18 DEF BeginClose
<1>19. CASE DeadlinePasses
  BY <1>19 DEF DeadlinePasses
<1>20. CASE AbortWriter
  BY <1>20 DEF AbortWriter
<1>21. CASE JoinWriter
  BY <1>21 DEF JoinWriter
<1>22. ASSUME NEW l \in Lanes, AbortServer(l) PROVE OrderInv'
  BY <1>22 DEF AbortServer
<1>23. CASE EndClose
  BY <1>23 DEF EndClose
<1>24. CASE DropRuntime
  BY <1>24 DEF DropRuntime
<1>25. CASE Exit
  BY <1>25 DEF Exit, NewMemory, ForgetRound
<1>26. CASE Restart
  <2>1. run' = run + 1 /\ run \in Nat /\ writer' = "locking" /\ UNCHANGED files
    BY <1>26 DEF Restart
  <2>2. \A l \in Lanes : files[l].run \in Nat /\ files[l].run <= run
    BY DEF Status
  <2> QED BY <2>1, <2>2
<1>27. CASE UNCHANGED vars
  BY <1>27
<1> QED
  BY <1>1, <1>2, <1>3, <1>4, <1>5, <1>6, <1>7, <1>8, <1>9, <1>10, <1>11, <1>12, <1>13,
     <1>14, <1>15, <1>16, <1>17, <1>18, <1>19, <1>20, <1>21, <1>22, <1>23, <1>24, <1>25,
     <1>26, <1>27
  DEF Next, Publisher, StatusWriter, WriterGoesOn, Servers, CloseGoesOn

(* A step that ends the process ends its writer.                           *)
LEMMA DownStep ==
  ASSUME RunsDown, [Next]_vars
  PROVE  RunsDown'
<1> USE DEF RunsDown, vars, clockVars, processVars, publishVars, writerVars, taskVars
<1>1. CASE Tick
  BY <1>1 DEF Tick
<1>2. ASSUME NEW l \in Lanes, RingPublish(l) PROVE RunsDown'
  BY <1>2 DEF RingPublish
<1>3. CASE ReadPublishClock
  BY <1>3 DEF ReadPublishClock
<1>4. CASE PublishClockFails
  BY <1>4 DEF PublishClockFails
<1>5. CASE RecordProgress
  BY <1>5 DEF RecordProgress
<1>6. CASE BeginRound
  BY <1>6 DEF BeginRound, Alive
<1>7. CASE LockProgress
  BY <1>7 DEF LockProgress
<1>8. CASE ReadStatusClock
  BY <1>8 DEF ReadStatusClock
<1>9. CASE BuildStatuses
  BY <1>9 DEF BuildStatuses, LeaveRound, ForgetRound, InOrder, StatusOf
<1>10. CASE PrepareStatus
  BY <1>10 DEF PrepareStatus
<1>11. CASE CommitStatus
  BY <1>11 DEF CommitStatus
<1>12. CASE EndRound
  BY <1>12 DEF EndRound, ForgetRound
<1>13. CASE WriterStops
  BY <1>13 DEF WriterStops, Alive
<1>14. CASE RoundFails
  BY <1>14 DEF RoundFails, LeaveRound, ForgetRound
<1>15. ASSUME NEW l \in Lanes, ServerFails(l) PROVE RunsDown'
  BY <1>15 DEF ServerFails, Alive
<1>16. ASSUME NEW l \in Lanes, ServerEnds(l) PROVE RunsDown'
  BY <1>16 DEF ServerEnds, Alive
<1>17. ASSUME NEW l \in Lanes, MonitorReturns(l) PROVE RunsDown'
  BY <1>17 DEF MonitorReturns, Alive
<1>18. CASE BeginClose
  BY <1>18 DEF BeginClose
<1>19. CASE DeadlinePasses
  BY <1>19 DEF DeadlinePasses
<1>20. CASE AbortWriter
  BY <1>20 DEF AbortWriter
<1>21. CASE JoinWriter
  BY <1>21 DEF JoinWriter
<1>22. ASSUME NEW l \in Lanes, AbortServer(l) PROVE RunsDown'
  BY <1>22 DEF AbortServer
<1>23. CASE EndClose
  BY <1>23 DEF EndClose
<1>24. CASE DropRuntime
  BY <1>24 DEF DropRuntime
<1>25. CASE Exit
  BY <1>25 DEF Exit, NewMemory, ForgetRound
<1>26. CASE Restart
  BY <1>26 DEF Restart, NewMemory, ForgetRound
<1>27. CASE UNCHANGED vars
  BY <1>27
<1> QED
  BY <1>1, <1>2, <1>3, <1>4, <1>5, <1>6, <1>7, <1>8, <1>9, <1>10, <1>11, <1>12, <1>13,
     <1>14, <1>15, <1>16, <1>17, <1>18, <1>19, <1>20, <1>21, <1>22, <1>23, <1>24, <1>25,
     <1>26, <1>27
  DEF Next, Publisher, StatusWriter, WriterGoesOn, Servers, CloseGoesOn

-----------------------------------------------------------------------------
(* What holds in every reachable state. *)
IInv ==
  /\ Types /\ ClockInv /\ RunInv /\ RunsDown /\ FilesInv /\ ProgressInv /\ OrderInv
  /\ NoFalseClockError /\ StatusesAreOneCut /\ NeverSilentlyStopped

(* A process that starts on empty files satisfies every part. *)
LEMMA InitHolds == Init => IInv
<1> SUFFICES ASSUME Init PROVE IInv
  OBVIOUS
<1> USE DEF Init
<1>1. Types
  BY StatusType DEF Types, NoProgress, NoStatus, Status, Lanes
<1>2. ClockInv /\ ProgressInv
  BY DEF ClockInv, ProgressInv, NoProgress
<1>3. RunInv /\ RunsDown
  BY DEF RunInv, RunsDown
<1>4. FilesInv
  BY DEF FilesInv
<1>5. OrderInv
  BY DEF OrderInv, NoLaterThan, NoStatus, NoProgress
<1>6. NoFalseClockError /\ StatusesAreOneCut /\ NeverSilentlyStopped
  BY DEF NoFalseClockError, StatusesAreOneCut, NeverSilentlyStopped
<1> QED BY <1>1, <1>2, <1>3, <1>4, <1>5, <1>6 DEF IInv

(* Every step keeps every part. *)
LEMMA StepHolds == IInv /\ [Next]_vars => IInv'
<1> SUFFICES ASSUME IInv, [Next]_vars PROVE IInv'
  OBVIOUS
<1> USE DEF IInv
<1>1. Types' /\ ClockInv'
  BY TypesStep, ClockStep
<1>2. RunInv' /\ RunsDown'
  BY RunStep, DownStep
<1>3. FilesInv' /\ ProgressInv' /\ OrderInv'
  BY FilesStep, ProgressStep, OrderStep
<1>4. NoFalseClockError' /\ StatusesAreOneCut' /\ NeverSilentlyStopped'
  BY NoFalseClockErrorStep, OneCutStep, NotSilentStep
<1> QED BY <1>1, <1>2, <1>3, <1>4

(* The invariant is one, of every behaviour of the runtime. *)
THEOREM Invariant == Spec => []IInv
<1>1. Init => IInv
  BY InitHolds
<1>2. IInv /\ [Next]_vars => IInv'
  BY StepHolds
<1> QED BY <1>1, <1>2, PTL DEF Spec

(* On a clock that never goes back no run ends with the error of           *)
(* DriverStatus::new (status.rs:66), whatever is published beside a round: *)
(* write_all_statuses reads the clock under the guards of all lanes.       *)
THEOREM ClockNeverBlamed == Spec => []NoFalseClockError
<1>1. IInv => NoFalseClockError
  BY DEF IInv
<1> QED BY <1>1, Invariant, PTL

(* The statuses of a round describe all lanes at one instant. *)
THEOREM RoundIsOneCut == Spec => []StatusesAreOneCut
<1>1. IInv => StatusesAreOneCut
  BY DEF IInv
<1> QED BY <1>1, Invariant, PTL

(* A running runtime that has lost its writer or a server has a fatal      *)
(* value for fatal_error() to hand to the application.                     *)
THEOREM StopsAreTold == Spec => []NeverSilentlyStopped
<1>1. IInv => NeverSilentlyStopped
  BY DEF IInv
<1> QED BY <1>1, Invariant, PTL

(* Where the writer rests, the files are the pair of its last round, and   *)
(* no round leaves a temporary file, however it ended.                     *)
THEOREM RestingFilesArePair == Spec => []FilesArePair
<1>1. IInv => FilesArePair
  BY DEF IInv, FilesInv, FilesArePair
<1> QED BY <1>1, Invariant, PTL

(* Only the commit of a status replaces a file. *)
LEMMA OnlyCommitsReplace ==
  ASSUME [Next]_vars, ~CommitStatus
  PROVE  files' = files
BY DEF Next, Publisher, StatusWriter, WriterGoesOn, Servers, CloseGoesOn, vars, Tick,
   RingPublish, ReadPublishClock, PublishClockFails, RecordProgress, BeginRound,
   LockProgress, ReadStatusClock, BuildStatuses, LeaveRound, PrepareStatus, EndRound,
   RoundFails, WriterStops, ServerFails, ServerEnds, MonitorReturns, BeginClose,
   DeadlinePasses, AbortWriter, JoinWriter, AbortServer, EndClose, DropRuntime, Exit,
   Restart

(* After close() nothing of this process writes or renames a status: it    *)
(* awaits the writer, and the round that the abort interrupts has let its  *)
(* temporary files go.                                                     *)
THEOREM ClosedIsQuiet == Spec => QuietAfterClose
<1>1. IInv /\ [Next]_vars => (phase = "closed" => UNCHANGED <<files, temps>>)
  <2> SUFFICES ASSUME IInv, [Next]_vars, phase = "closed"
               PROVE  UNCHANGED <<files, temps>>
    OBVIOUS
  <2>1. writer = "stopped" /\ temps = {}
    BY DEF IInv, RunInv, FilesInv
  <2>2. ~CommitStatus
    BY <2>1 DEF CommitStatus
  <2>3. UNCHANGED files
    BY <2>2, OnlyCommitsReplace
  <2>4. UNCHANGED temps
    BY <2>1 DEF Next, Publisher, StatusWriter, WriterGoesOn, Servers, CloseGoesOn,
       vars, clockVars, processVars, publishVars, writerVars, taskVars, Tick,
       RingPublish, ReadPublishClock, PublishClockFails, RecordProgress, BeginRound,
       LockProgress, ReadStatusClock, BuildStatuses, PrepareStatus, CommitStatus,
       EndRound, RoundFails, WriterStops, ServerFails, ServerEnds, MonitorReturns,
       BeginClose, DeadlinePasses, AbortWriter, JoinWriter, AbortServer, EndClose,
       DropRuntime, Exit, Restart, NewMemory
  <2> QED BY <2>3, <2>4
<1> QED BY <1>1, Invariant, PTL DEF Spec, QuietAfterClose

(* A reader of the status files never sees a lane go back within a run,    *)
(* nor an earlier run's status after a later one's: the file that a rename *)
(* replaces was written from progress no later than the new status's.      *)
THEOREM FilesGoForward == Spec => StatusNeverGoesBack
<1> DEFINE Forward(l) ==
      \/ files'[l].run > files[l].run
      \/ /\ files'[l].run = files[l].run
         /\ files'[l].sequence >= files[l].sequence
         /\ files'[l].updatedAt >= files[l].updatedAt
         /\ files[l].sequence > 0 => files'[l].progressAt >= files[l].progressAt
<1>1. ASSUME IInv, [Next]_vars, NEW l \in Lanes PROVE Forward(l)
  <2>1. files[l] \in Status /\ built[l] \in Status /\ run \in Nat
    BY <1>1 DEF IInv, Types
  <2>2. CASE files'[l] = files[l]
    BY <2>1, <2>2 DEF Status
  <2>3. CASE files'[l] # files[l]
    <3>1. CommitStatus
      BY <1>1, <2>3, OnlyCommitsReplace
    <3>2. l = Min(temps) /\ files'[l] = built[l]
      BY <1>1, <2>3, <3>1 DEF CommitStatus, IInv, Types
    <3>3. l \in temps /\ writer = "committing"
      BY <1>1, <3>1, <3>2, MinOfLanes DEF CommitStatus, IInv, Types
    <3>4. built[l].run = run /\ files[l].run <= run
      BY <1>1, <3>3 DEF IInv, FilesInv, OrderInv
    <3>5. NoLaterThan(files[l], built[l].sequence, built[l].progressAt,
                      built[l].updatedAt)
      BY <1>1, <3>3 DEF IInv, OrderInv
    <3> QED BY <2>1, <3>2, <3>4, <3>5 DEF Status, NoLaterThan
  <2> QED BY <2>2, <2>3
<1>2. IInv /\ [Next]_vars => \A l \in Lanes : Forward(l)
  BY <1>1
<1> QED BY <1>2, Invariant, PTL DEF Spec, StatusNeverGoesBack
=============================================================================
