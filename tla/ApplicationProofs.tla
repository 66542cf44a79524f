-------------------------- MODULE ApplicationProofs --------------------------
(***************************************************************************)
(* Theorems about Application, for every limit, interval and window, and   *)
(* for a run of any length.  The generation thread, which counts batches,  *)
(* and the run loop, which counts the records of each sensor, agree on the *)
(* batches that carry a surface snapshot; every way out closes what was    *)
(* opened; and the result names the cause.                                 *)
(*                                                                         *)
(* And about EdgeValidation, the other program that consumes the batches:  *)
(* for every window, period and capacity, the recorder raises no alarm at  *)
(* a generation in order, a report tells of the whole window, and no       *)
(* report is replaced.                                                     *)
(***************************************************************************)
EXTENDS Application, EdgeValidation, SequenceTheorems, FiniteSetTheorems,
        WellFoundedInduction, NaturalsInduction, TLAPS

(***************************************************************************)
(* The run loop                                                            *)
(***************************************************************************)

USE ParametersArePositive

Batch == [rotation : Nat, snapshot : BOOLEAN, due : BOOLEAN]

StartSteps == {"scan", "factory", "observation", "anchor", "epoch", "diagnostics",
               "boundary", "recheck", "generation"}

Outputs == [{"observation", "diagnostics", "scan"} -> {"absent", "open", "closed"}]

(* A place for one batch. *)
Place == {<<>>} \cup {<<b>> : b \in Batch}

Types ==
  /\ mode.observing \in BOOLEAN /\ mode.diagnosing \in BOOLEAN
  /\ outputs \in Outputs
  /\ schedule \in [made : Nat, nextObservation : Nat, diagnosticsLeft : Nat]
  /\ offer \in Place /\ outbox \in Place /\ batch \in Place
  /\ scans \subseteq Sensors
  /\ records \in [Sensors -> Nat]

Flags == /\ signal \in BOOLEAN /\ fault \in BOOLEAN /\ seen \in BOOLEAN
         /\ stop \in BOOLEAN

(* Nothing is made before the thread is started, the last step of a start, *)
(* and the thread is stopped after the run loop only.                      *)
Unborn ==
  /\ pc \in StartSteps => thread = "absent"
  /\ stop => pc \notin StartSteps /\ pc \notin {"loop", "select", "batch"}
  /\ thread = "absent" => schedule.made = 0 /\ offer = Nothing /\ outbox = Nothing

(* What the thread has counted down, and what its batches carry.           *)
Captured(b) ==
  /\ b.due => b.snapshot
  /\ mode.diagnosing /\ b.rotation <= SampleLimit => b.snapshot

Counting ==
  /\ mode.diagnosing =>
       schedule.diagnosticsLeft = IF schedule.made < SampleLimit
                                  THEN SampleLimit - schedule.made ELSE 0
  /\ offer # Nothing => Captured(offer[1])
  /\ outbox # Nothing => Captured(outbox[1])
  /\ pc = "batch" => batch # Nothing /\ Captured(batch[1])

(* The batches that were made and have not reached the run loop.           *)
Waiting(place) == IF place = Nothing THEN 0 ELSE 1
Taken == schedule.made - Waiting(offer) - Waiting(outbox)

InLine ==
  ~stop => /\ Taken \in Nat
           /\ offer # Nothing => offer[1].rotation = schedule.made
           /\ outbox # Nothing => outbox[1].rotation = Taken + 1
           /\ pc = "batch" => batch[1].rotation = Taken

(* While the writer works, no batch passes a sensor that still wants records. *)
Has(s, n) == records[s] >= n \/ records[s] >= SampleLimit

Recorded ==
  /\ outputs["diagnostics"] = "open" => mode.diagnosing
  /\ outputs["diagnostics"] = "open" /\ writer = "working" =>
       /\ pc \in {"loop", "select"} => \A s \in Sensors : Has(s, Taken)
       /\ pc = "batch" =>
            \A s \in Sensors : /\ s \in scans => Has(s, Taken - 1)
                               /\ s \notin scans => Has(s, Taken)

(* Where the process and its thread can be: none runs when outputs close.  *)
Outcomes == {"signal", "scan_fault", "generation_stopped", "snapshot_not_captured",
             "output_failed", "observation_failed", "validation_failed", "complete"}

Whereabouts ==
  /\ pc \in StartSteps \cup {"loop", "select", "batch", "stopping", "refusing", "joining",
                             "closing", "returned"}
  /\ thread \in {"absent", "running", "ended", "failed", "panicked"}
  /\ pc \in {"closing", "returned"} => thread # "running"

(* The outputs that a start has not come to, and those that are on the way *)
(* out still to be closed: the rest of the list names every open one.      *)
Doors ==
  /\ pc = "scan" => \A o \in DOMAIN outputs : outputs[o] = "absent"
  /\ pc \in {"factory", "observation"} => outputs["observation"] = "absent"
  /\ pc \in {"factory", "observation", "anchor", "epoch", "diagnostics"} =>
       outputs["diagnostics"] = "absent"
  /\ pc \notin {"closing", "returned"} => outputs["scan"] # "closed"

ToClose ==
  /\ pc = "closing" =>
       /\ \/ closing = <<"observation", "diagnostics", "scan">>
          \/ closing = <<"diagnostics", "scan">> /\ outputs["observation"] # "open"
          \/ closing = <<"observation", "scan">> /\ outputs["diagnostics"] # "open"
          \/ /\ closing = <<"scan">>
             /\ outputs["observation"] # "open" /\ outputs["diagnostics"] # "open"
          \/ closing = Nothing /\ \A o \in DOMAIN outputs : outputs[o] # "open"
       /\ outputs["scan"] = "closed" => closing = Nothing
  /\ pc = "returned" => \A o \in DOMAIN outputs : outputs[o] # "open"

(* How the run loop ended, and what was true when it did.                  *)
Causes ==
  /\ pc \in StartSteps \cup {"loop", "select", "batch"} => execution = "none"
  /\ pc \in {"stopping", "refusing", "joining"} => execution \in Outcomes
  /\ pc \in {"closing", "returned"} =>
       \/ execution = "start_failed"
       \/ execution \in Outcomes /\ Joined
  /\ execution = "generation_stopped" => ThreadFailed
  /\ execution = "scan_fault" => fault
  /\ execution = "complete" => schedule.made > Window

IInv == /\ Types /\ Flags /\ Unborn /\ Counting /\ InLine /\ Recorded /\ SnapshotIsThere
        /\ Whereabouts /\ Doors /\ ToClose /\ Causes
        /\ ResultNamesTheCause

-----------------------------------------------------------------------------
(* A place is empty or holds a batch. *)
LEMMA Places ==
  /\ Nothing \in Place
  /\ \A b \in Batch : <<b>> \in Place /\ <<b>> # Nothing /\ <<b>>[1] = b
  /\ \A p \in Place : p # Nothing => p[1] \in Batch
BY DEF Place, Nothing

(* The steps of a start follow each other, the run loop follows the last.  *)
LEMMA Following ==
  /\ {Steps[i] : i \in 1 .. Len(Steps) - 1} = StartSteps
  /\ \A step \in StartSteps : /\ After(step) \in StartSteps \cup {"loop"}
                              /\ After(step) = "loop" <=> step = "generation"
<1>1. /\ Len(Steps) = 10 /\ DOMAIN Steps = 1 .. 10
      /\ Steps[1] = "scan" /\ Steps[2] = "factory" /\ Steps[3] = "observation"
      /\ Steps[4] = "anchor" /\ Steps[5] = "epoch" /\ Steps[6] = "diagnostics"
      /\ Steps[7] = "boundary" /\ Steps[8] = "recheck" /\ Steps[9] = "generation"
      /\ Steps[10] = "loop"
  BY DEF Steps
<1>2. {Steps[i] : i \in 1 .. 9} = StartSteps
  <2>1. \A i \in 1 .. 9 : Steps[i] \in StartSteps
    BY <1>1 DEF StartSteps
  <2>2. \A step \in StartSteps : \E i \in 1 .. 9 : Steps[i] = step
    BY <1>1 DEF StartSteps
  <2> QED BY <2>1, <2>2
<1>3. ASSUME NEW step \in StartSteps
      PROVE  /\ After(step) \in StartSteps \cup {"loop"}
             /\ After(step) = "loop" <=> step = "generation"
  <2>1. \E j \in DOMAIN Steps : Steps[j] = step
    BY <1>1, <1>2
  <2>2. PICK i \in 1 .. 10 : Steps[i] = step /\ After(step) = Steps[i + 1]
    BY <1>1, <2>1 DEF After
  <2>3. i \in 1 .. 9 /\ (step = "generation" <=> i = 9)
    BY <1>1, <2>2 DEF StartSteps
  <2>4. \A k \in 2 .. 10 : Steps[k] \in StartSteps \cup {"loop"}
    BY <1>1 DEF StartSteps
  <2>5. \A k \in 2 .. 10 : Steps[k] = "loop" <=> k = 10
    BY <1>1
  <2>6. i + 1 \in 2 .. 10 /\ (i + 1 = 10 <=> i = 9)
    BY <2>3
  <2> QED BY <2>2, <2>3, <2>4, <2>5, <2>6
<1> QED BY <1>1, <1>2, <1>3

(* What making a batch does. *)
LEMMA BatchMade ==
  ASSUME MakeBatch, Types, Flags
  PROVE  \E n \in Nat, b \in Batch :
           /\ offer = Nothing /\ thread = "running"
           /\ n = schedule.made + 1 /\ b.rotation = n
           /\ offer' = <<b>> /\ offer' # Nothing /\ offer'[1] = b
           /\ schedule' \in [made : Nat, nextObservation : Nat, diagnosticsLeft : Nat]
           /\ schedule'.made = n
           /\ b.due => b.snapshot
           /\ schedule.diagnosticsLeft > 0 => b.snapshot
           /\ schedule'.diagnosticsLeft = IF schedule.diagnosticsLeft > 0
                                          THEN schedule.diagnosticsLeft - 1 ELSE 0
           /\ UNCHANGED <<mode, pc, outputs, world, thread, outbox, stop, batch, seen,
                          scans, records, execution, closing, result>>
<1> DEFINE n == schedule.made + 1
           b == [rotation |-> n, snapshot |-> Capture(n).required,
                 due |-> Capture(n).due]
<1>1. /\ offer' = <<b>> /\ thread = "running" /\ offer = Nothing
      /\ schedule' = [made |-> n, nextObservation |-> Capture(n).next,
                      diagnosticsLeft |-> Capture(n).left]
  BY DEF MakeBatch
<1>2. UNCHANGED <<mode, pc, outputs, world, thread, outbox, stop, batch, seen, scans,
                  records, execution, closing, result>>
  BY DEF MakeBatch, channel, ending
<1>3. /\ n \in Nat /\ schedule.diagnosticsLeft \in Nat
      /\ schedule.nextObservation \in Nat /\ mode.observing \in BOOLEAN
  BY DEF Types
<1>a. (n \div ObservationInterval + 1) * ObservationInterval \in Nat
  BY <1>3
<1>4. /\ Capture(n).due \in BOOLEAN /\ Capture(n).required \in BOOLEAN
      /\ Capture(n).due => Capture(n).required
      /\ schedule.diagnosticsLeft > 0 => Capture(n).required
  BY <1>3 DEF Capture
<1>b. Capture(n).next \in Nat
  BY <1>3, <1>a DEF Capture
<1>c. /\ Capture(n).left \in Nat
      /\ Capture(n).left = IF schedule.diagnosticsLeft > 0
                           THEN schedule.diagnosticsLeft - 1 ELSE 0
  BY <1>3 DEF Capture
<1>5. b \in Batch /\ b.rotation = n
  BY <1>3, <1>4 DEF Batch
<1>6. offer' # Nothing /\ offer'[1] = b
  BY <1>1, <1>5, Places
<1>7. schedule' \in [made : Nat, nextObservation : Nat, diagnosticsLeft : Nat]
  BY <1>1, <1>3, <1>b, <1>c
<1>8. /\ b.due = Capture(n).due /\ b.snapshot = Capture(n).required
      /\ schedule'.made = n /\ schedule'.diagnosticsLeft = Capture(n).left
  BY <1>1
<1> HIDE DEF n, b
<1>9. n = schedule.made + 1 /\ n \in Nat
  BY <1>3 DEF n
<1> USE <1>5, <1>9
<1> WITNESS n \in Nat, b \in Batch
<1> QED BY <1>1, <1>2, <1>4, <1>5, <1>6, <1>7, <1>8, <1>9, <1>c

(* What handling a scan does. *)
LEMMA ScanHandled ==
  ASSUME HandleScan, Types
  PROVE  /\ pc = "batch" /\ NextScan \in scans /\ NextScan \in Sensors
         /\ UNCHANGED <<mode, outputs, world, seen, thread, schedule, offer, outbox, stop,
                        batch, closing, result>>
         /\ \/ /\ Wants(NextScan) /\ ~batch[1].snapshot
               /\ pc' = "stopping" /\ execution' = "snapshot_not_captured"
               /\ UNCHANGED <<scans, records>>
            \/ /\ pc' = "batch" /\ UNCHANGED execution
               /\ scans' = scans \ {NextScan}
               /\ records' = IF Wants(NextScan)
                             THEN [records EXCEPT ![NextScan] = records[NextScan] + 1]
                             ELSE records
<1>1. pc = "batch" /\ scans # {}
  BY DEF HandleScan
<1>2. NextScan \in scans /\ NextScan \in Sensors
  BY <1>1 DEF NextScan, Types, Sensors
<1>3. CASE Wants(NextScan) /\ ~batch[1].snapshot
  BY <1>1, <1>2, <1>3 DEF HandleScan, Leave, generator, channel
<1>4. CASE ~(Wants(NextScan) /\ ~batch[1].snapshot)
  BY <1>1, <1>2, <1>4 DEF HandleScan, generator, channel, ending
<1> QED BY <1>3, <1>4

(* Looking at the fatal value ends the run loop or takes it to its wait. *)
LEMMA FaultLookedAt ==
  ASSUME LookAtFault
  PROVE  /\ pc = "loop"
         /\ \/ fault /\ pc' = "stopping" /\ execution' = "scan_fault"
            \/ pc' = "select" /\ UNCHANGED execution
         /\ UNCHANGED <<mode, outputs, world, seen, thread, schedule, offer, outbox, stop,
                        batch, scans, records, closing, result>>
<1>1. CASE fault /\ Leave("scan_fault")
  BY <1>1 DEF LookAtFault, Leave, generator, channel
<1>2. CASE ~(fault /\ Leave("scan_fault"))
  BY <1>2 DEF LookAtFault, generator, channel, ending
<1> QED BY <1>1, <1>2

(* Every step keeps the flags Boolean.                                     *)
LEMMA FlagsStep ==
  ASSUME Types, Flags, [Next]_vars
  PROVE  Flags'
<1> USE DEF Flags, world, channel, generator, ending
<1>1. CASE SignalArrives
  BY <1>1 DEF SignalArrives
<1>2. CASE ScanFaults
  BY <1>2 DEF ScanFaults
<1>3. CASE WriterFails
  BY <1>3 DEF WriterFails
<1>4. CASE MakeBatch
  BY <1>4, BatchMade
<1>5. CASE SendBatch
  BY <1>5 DEF SendBatch
<1>6. CASE ThreadFails
  BY <1>6 DEF ThreadFails
<1>7. CASE ThreadEnds
  BY <1>7 DEF ThreadEnds
<1>8. CASE StartStep
  BY <1>8 DEF StartStep
<1>9. CASE StartFails
  BY <1>9 DEF StartFails
<1>10. CASE LookAtFault
  BY <1>10, FaultLookedAt
<1>11. CASE SelectSignal
  BY <1>11 DEF SelectSignal, Leave
<1>12. CASE SelectFault
  BY <1>12 DEF SelectFault
<1>13. CASE SelectBatch
  BY <1>13 DEF SelectBatch
<1>14. CASE SelectEnd
  BY <1>14 DEF SelectEnd, Leave
<1>15. CASE HandleScan
  BY <1>15, ScanHandled
<1>16. CASE HandleScanFails
  BY <1>16 DEF HandleScanFails, Leave
<1>17. CASE EndBatch
  BY <1>17 DEF EndBatch, Leave
<1>18. CASE StopThread \/ CloseReceiver
  BY <1>18 DEF StopThread, CloseReceiver
<1>19. CASE JoinThread
  BY <1>19 DEF JoinThread
<1>20. CASE CloseNext
  BY <1>20 DEF CloseNext
<1>21. CASE Return
  BY <1>21 DEF Return
<1>22. CASE UNCHANGED vars
  BY <1>22 DEF vars
<1> QED
  BY <1>1, <1>2, <1>3, <1>4, <1>5, <1>6, <1>7, <1>8, <1>9, <1>10, <1>11, <1>12, <1>13,
     <1>14, <1>15, <1>16, <1>17, <1>18, <1>19, <1>20, <1>21, <1>22
  DEF Next, Thread, StartUp, RunLoop, WayOut

(* Every step keeps the types.                                             *)
LEMMA TypesStep ==
  ASSUME Types, Flags, [Next]_vars
  PROVE  Types'
<1> USE DEF Types, Outputs, Sensors, world, channel, generator, ending
<1>1. CASE SignalArrives
  BY <1>1 DEF SignalArrives
<1>2. CASE ScanFaults
  BY <1>2 DEF ScanFaults
<1>3. CASE WriterFails
  BY <1>3 DEF WriterFails
<1>4. CASE MakeBatch
  <2>1. PICK n \in Nat, b \in Batch :
          /\ offer' = <<b>>
          /\ schedule' \in [made : Nat, nextObservation : Nat, diagnosticsLeft : Nat]
          /\ UNCHANGED <<mode, outputs, outbox, batch, scans, records>>
    BY <1>4, BatchMade
  <2>2. offer' \in Place
    BY <2>1, Places
  <2> QED BY <2>1, <2>2
<1>5. CASE SendBatch
  BY <1>5, Places DEF SendBatch
<1>6. CASE ThreadFails
  BY <1>6 DEF ThreadFails
<1>7. CASE ThreadEnds
  BY <1>7, Places DEF ThreadEnds
<1>8. CASE StartStep
  <2>1. pc \in StartSteps
    BY <1>8, Following DEF StartStep
  <2>2. pc' \in StartSteps \cup {"loop"} /\ (pc' = "loop" <=> pc = "generation")
    BY <1>8, <2>1, Following DEF StartStep
  <2> QED BY <1>8, <2>1, <2>2 DEF StartStep, Opens
<1>9. CASE StartFails
  BY <1>9 DEF StartFails
<1>10. CASE LookAtFault
  BY <1>10, FaultLookedAt
<1>11. CASE SelectSignal
  BY <1>11 DEF SelectSignal, Leave
<1>12. CASE SelectFault
  BY <1>12 DEF SelectFault
<1>13. CASE SelectBatch
  BY <1>13, Places DEF SelectBatch
<1>14. CASE SelectEnd
  BY <1>14 DEF SelectEnd, Leave
<1>15. CASE HandleScan
  <2>1. scans' \subseteq Sensors
    BY <1>15, ScanHandled
  <2>2. CASE records' = records
    BY <1>15, <2>1, <2>2, ScanHandled
  <2>3. CASE records' = [records EXCEPT ![NextScan] = records[NextScan] + 1]
    <3>1. records[NextScan] + 1 \in Nat
      BY <1>15, ScanHandled
    <3>2. records' \in [Sensors -> Nat]
      BY <2>3, <3>1
    <3> QED BY <1>15, <2>1, <3>2, ScanHandled
  <2> QED BY <1>15, <2>2, <2>3, ScanHandled
<1>16. CASE HandleScanFails
  BY <1>16 DEF HandleScanFails, Leave
<1>17. CASE EndBatch
  BY <1>17, Places DEF EndBatch, Leave
<1>18. CASE StopThread \/ CloseReceiver
  BY <1>18 DEF StopThread, CloseReceiver
<1>19. CASE JoinThread
  BY <1>19 DEF JoinThread
<1>20. CASE CloseNext
  <2>1. outputs' \in Outputs
    BY <1>20 DEF CloseNext
  <2> QED BY <1>20, <2>1 DEF CloseNext
<1>21. CASE Return
  BY <1>21 DEF Return
<1>22. CASE UNCHANGED vars
  BY <1>22 DEF vars
<1> QED
  BY <1>1, <1>2, <1>3, <1>4, <1>5, <1>6, <1>7, <1>8, <1>9, <1>10, <1>11, <1>12, <1>13,
     <1>14, <1>15, <1>16, <1>17, <1>18, <1>19, <1>20, <1>21, <1>22
  DEF Next, Thread, StartUp, RunLoop, WayOut

(* Until its last step a start leaves the thread absent, and the thread is *)
(* stopped after the run loop.                                             *)
LEMMA UnbornStep ==
  ASSUME Types, Flags, Unborn, [Next]_vars
  PROVE  Unborn'
<1> USE DEF Unborn, StartSteps, Flags, world, channel, generator, ending
<1>1. CASE SignalArrives
  BY <1>1 DEF SignalArrives
<1>2. CASE ScanFaults
  BY <1>2 DEF ScanFaults
<1>3. CASE WriterFails
  BY <1>3 DEF WriterFails
<1>4. CASE MakeBatch
  BY <1>4, BatchMade
<1>5. CASE SendBatch
  BY <1>5 DEF SendBatch
<1>6. CASE ThreadFails
  BY <1>6 DEF ThreadFails
<1>7. CASE ThreadEnds
  BY <1>7 DEF ThreadEnds
<1>8. CASE StartStep
  <2>1. pc \in StartSteps
    BY <1>8, Following DEF StartStep
  <2>2. pc' \in StartSteps \cup {"loop"} /\ (pc' = "loop" <=> pc = "generation")
    BY <1>8, <2>1, Following DEF StartStep
  <2> QED BY <1>8, <2>1, <2>2 DEF StartStep
<1>9. CASE StartFails
  BY <1>9 DEF StartFails
<1>10. CASE LookAtFault
  <2>1. /\ pc = "loop" /\ pc' \in {"stopping", "select"}
        /\ UNCHANGED <<thread, schedule, offer, outbox, stop>>
    BY <1>10, FaultLookedAt
  <2> QED BY <2>1
<1>11. CASE SelectSignal
  BY <1>11 DEF SelectSignal, Leave
<1>12. CASE SelectFault
  BY <1>12 DEF SelectFault
<1>13. CASE SelectBatch
  BY <1>13 DEF SelectBatch
<1>14. CASE SelectEnd
  BY <1>14 DEF SelectEnd, Leave
<1>15. CASE HandleScan
  BY <1>15, ScanHandled
<1>16. CASE HandleScanFails
  BY <1>16 DEF HandleScanFails, Leave
<1>17. CASE EndBatch
  BY <1>17 DEF EndBatch, Leave
<1>18. CASE StopThread \/ CloseReceiver
  BY <1>18 DEF StopThread, CloseReceiver
<1>19. CASE JoinThread
  BY <1>19 DEF JoinThread
<1>20. CASE CloseNext
  BY <1>20 DEF CloseNext
<1>21. CASE Return
  BY <1>21 DEF Return
<1>22. CASE UNCHANGED vars
  BY <1>22 DEF vars
<1> QED
  BY <1>1, <1>2, <1>3, <1>4, <1>5, <1>6, <1>7, <1>8, <1>9, <1>10, <1>11, <1>12, <1>13,
     <1>14, <1>15, <1>16, <1>17, <1>18, <1>19, <1>20, <1>21, <1>22
  DEF Next, Thread, StartUp, RunLoop, WayOut

(* The thread counts down one capture for each batch it makes.             *)
LEMMA CountingStep ==
  ASSUME Types, Flags, Counting, [Next]_vars
  PROVE  Counting'
<1> USE DEF Counting, Captured, world, channel, generator, ending
<1>1. CASE SignalArrives
  BY <1>1 DEF SignalArrives
<1>2. CASE ScanFaults
  BY <1>2 DEF ScanFaults
<1>3. CASE WriterFails
  BY <1>3 DEF WriterFails
<1>4. CASE MakeBatch
  BY <1>4, BatchMade DEF Types
<1>5. CASE SendBatch
  BY <1>5 DEF SendBatch
<1>6. CASE ThreadFails
  BY <1>6 DEF ThreadFails
<1>7. CASE ThreadEnds
  BY <1>7 DEF ThreadEnds
<1>8. CASE StartStep
  <2>1. pc \in StartSteps
    BY <1>8, Following DEF StartStep
  <2>2. pc' \in StartSteps \cup {"loop"} /\ (pc' = "loop" <=> pc = "generation")
    BY <1>8, <2>1, Following DEF StartStep
  <2> QED BY <1>8, <2>1, <2>2 DEF StartStep, StartSteps
<1>9. CASE StartFails
  BY <1>9 DEF StartFails
<1>10. CASE LookAtFault
  BY <1>10, FaultLookedAt
<1>11. CASE SelectSignal
  BY <1>11 DEF SelectSignal, Leave
<1>12. CASE SelectFault
  BY <1>12 DEF SelectFault
<1>13. CASE SelectBatch
  BY <1>13 DEF SelectBatch
<1>14. CASE SelectEnd
  BY <1>14 DEF SelectEnd, Leave
<1>15. CASE HandleScan
  BY <1>15, ScanHandled
<1>16. CASE HandleScanFails
  BY <1>16 DEF HandleScanFails, Leave
<1>17. CASE EndBatch
  BY <1>17 DEF EndBatch, Leave
<1>18. CASE StopThread \/ CloseReceiver
  BY <1>18 DEF StopThread, CloseReceiver
<1>19. CASE JoinThread
  BY <1>19 DEF JoinThread
<1>20. CASE CloseNext
  BY <1>20 DEF CloseNext
<1>21. CASE Return
  BY <1>21 DEF Return
<1>22. CASE UNCHANGED vars
  BY <1>22 DEF vars
<1> QED
  BY <1>1, <1>2, <1>3, <1>4, <1>5, <1>6, <1>7, <1>8, <1>9, <1>10, <1>11, <1>12, <1>13,
     <1>14, <1>15, <1>16, <1>17, <1>18, <1>19, <1>20, <1>21, <1>22
  DEF Next, Thread, StartUp, RunLoop, WayOut

(* Batches reach the run loop in the order of their rotations, none        *)
(* missing.                                                                *)
LEMMA InLineStep ==
  ASSUME Types, Flags, Unborn, InLine, [Next]_vars
  PROVE  InLine'
<1> USE DEF InLine, Taken, Waiting, world, channel, generator, ending
<1>1. CASE SignalArrives
  BY <1>1 DEF SignalArrives
<1>2. CASE ScanFaults
  BY <1>2 DEF ScanFaults
<1>3. CASE WriterFails
  BY <1>3 DEF WriterFails
<1>4. CASE MakeBatch
  BY <1>4, BatchMade DEF Types
<1>5. CASE SendBatch
  BY <1>5 DEF SendBatch, Types
<1>6. CASE ThreadFails
  BY <1>6 DEF ThreadFails
<1>7. CASE ThreadEnds
  BY <1>7 DEF ThreadEnds, Types, Unborn
<1>8. CASE StartStep
  <2>1. pc \in StartSteps
    BY <1>8, Following DEF StartStep
  <2>2. pc' \in StartSteps \cup {"loop"} /\ (pc' = "loop" <=> pc = "generation")
    BY <1>8, <2>1, Following DEF StartStep
  <2> QED BY <1>8, <2>1, <2>2 DEF StartStep, StartSteps
<1>9. CASE StartFails
  BY <1>9 DEF StartFails
<1>10. CASE LookAtFault
  BY <1>10, FaultLookedAt
<1>11. CASE SelectSignal
  BY <1>11 DEF SelectSignal, Leave
<1>12. CASE SelectFault
  BY <1>12 DEF SelectFault
<1>13. CASE SelectBatch
  BY <1>13 DEF SelectBatch, Types
<1>14. CASE SelectEnd
  BY <1>14 DEF SelectEnd, Leave
<1>15. CASE HandleScan
  BY <1>15, ScanHandled
<1>16. CASE HandleScanFails
  BY <1>16 DEF HandleScanFails, Leave
<1>17. CASE EndBatch
  BY <1>17 DEF EndBatch, Leave
<1>18. CASE StopThread \/ CloseReceiver
  BY <1>18 DEF StopThread, CloseReceiver
<1>19. CASE JoinThread
  BY <1>19 DEF JoinThread
<1>20. CASE CloseNext
  BY <1>20 DEF CloseNext
<1>21. CASE Return
  BY <1>21 DEF Return
<1>22. CASE UNCHANGED vars
  BY <1>22 DEF vars
<1> QED
  BY <1>1, <1>2, <1>3, <1>4, <1>5, <1>6, <1>7, <1>8, <1>9, <1>10, <1>11, <1>12, <1>13,
     <1>14, <1>15, <1>16, <1>17, <1>18, <1>19, <1>20, <1>21, <1>22
  DEF Next, Thread, StartUp, RunLoop, WayOut

(* How the steps change the number of batches taken.                       *)
LEMMA TakenSteps ==
  ASSUME Types, Flags
  PROVE  /\ UNCHANGED <<schedule, offer, outbox>> => Taken' = Taken
         /\ MakeBatch \/ SendBatch => Taken' = Taken
         /\ SelectBatch => Taken' = Taken + 1
<1> USE DEF Taken, Waiting
<1>1. schedule.made \in Nat
  BY DEF Types
<1>2. ASSUME MakeBatch PROVE Taken' = Taken
  BY <1>1, <1>2, BatchMade DEF MakeBatch, channel
<1>3. ASSUME SendBatch PROVE Taken' = Taken
  BY <1>1, <1>3 DEF SendBatch
<1>4. ASSUME SelectBatch PROVE Taken' = Taken + 1
  BY <1>1, <1>4 DEF SelectBatch
<1> QED BY <1>2, <1>3, <1>4

(* A sensor that still wants records has one for every batch so far, so    *)
(* that the snapshot is there.                                             *)
LEMMA RecordedStep ==
  ASSUME Types, Flags, Unborn, Counting, InLine, Recorded, SnapshotIsThere, [Next]_vars
  PROVE  (Recorded /\ SnapshotIsThere)'
<1> USE DEF world, channel, generator, ending
<1>e. UNCHANGED execution => SnapshotIsThere'
  BY DEF SnapshotIsThere
<1>1. CASE SignalArrives
  BY <1>1, <1>e, TakenSteps DEF SignalArrives, Recorded, Has, SnapshotIsThere
<1>2. CASE ScanFaults
  BY <1>2, <1>e, TakenSteps DEF ScanFaults, Recorded, Has, SnapshotIsThere
<1>3. CASE WriterFails
  BY <1>3, <1>e, TakenSteps DEF WriterFails, Recorded, Has, SnapshotIsThere
<1>4. CASE MakeBatch
  BY <1>e, <1>4, BatchMade, TakenSteps DEF Recorded, Has
<1>5. CASE SendBatch
  BY <1>5, <1>e, TakenSteps DEF SendBatch, Recorded, Has, SnapshotIsThere
<1>6. CASE ThreadFails
  BY <1>6, <1>e, TakenSteps DEF ThreadFails, Recorded, Has, SnapshotIsThere
<1>7. CASE ThreadEnds
  <2>1. stop /\ UNCHANGED <<mode, pc, outputs, writer, execution>>
    BY <1>7 DEF ThreadEnds
  <2> QED BY <1>e, <2>1 DEF Unborn, Recorded
<1>8. CASE StartStep
  <2>1. pc \in StartSteps
    BY <1>8, Following DEF StartStep
  <2>2. pc' \in StartSteps \cup {"loop"} /\ (pc' = "loop" <=> pc = "generation")
    BY <1>8, <2>1, Following DEF StartStep
  <2>3. \A s \in Sensors : Has(s, Taken)
    <3>1. schedule.made = 0 /\ offer = Nothing /\ outbox = Nothing
      BY <2>1 DEF Unborn
    <3>2. Taken = 0
      BY <3>1 DEF Taken, Waiting
    <3>3. \A s \in Sensors : records[s] >= 0
      BY DEF Types
    <3> QED BY <3>2, <3>3 DEF Has
  <2>4. outputs'["diagnostics"] = "open" => mode.diagnosing
    BY <1>8 DEF StartStep, Opens, Outputs, Types, Recorded
  <2>5. Taken' = Taken /\ UNCHANGED <<records, writer, mode, execution>>
    BY <1>8, TakenSteps DEF StartStep
  <2>6. pc' # "batch"
    BY <2>2 DEF StartSteps
  <2> QED BY <1>e, <2>3, <2>4, <2>5, <2>6 DEF Recorded, Has
<1>9. CASE StartFails
  BY <1>9, <1>e, TakenSteps DEF StartFails, Recorded, Has, SnapshotIsThere
<1>10. CASE LookAtFault
  BY <1>10, FaultLookedAt, <1>e, TakenSteps DEF Recorded, Has, SnapshotIsThere
<1>11. CASE SelectSignal
  BY <1>11, <1>e, TakenSteps DEF SelectSignal, Leave, Recorded, Has, SnapshotIsThere
<1>12. CASE SelectFault
  BY <1>12, <1>e, TakenSteps DEF SelectFault, Recorded, Has, SnapshotIsThere
<1>13. CASE SelectBatch
  <2>1. /\ outputs["diagnostics"] = "open" => mode.diagnosing
        /\ outputs["diagnostics"] = "open" /\ writer = "working" =>
             \A s \in Sensors : Has(s, Taken)
    BY <1>13 DEF SelectBatch, Recorded
  <2>2. Taken \in Nat /\ Taken' = Taken + 1
    BY <1>13, TakenSteps DEF SelectBatch, InLine, Unborn, Flags
  <2>3. Taken' - 1 = Taken
    BY <2>2
  <2>4. /\ pc' = "batch" /\ scans' = Sensors
        /\ UNCHANGED <<mode, outputs, writer, records, execution>>
    BY <1>13 DEF SelectBatch
  <2> QED BY <1>e, <2>1, <2>3, <2>4 DEF Recorded, Has
<1>14. CASE SelectEnd
  BY <1>14, <1>e, TakenSteps DEF SelectEnd, Leave, Recorded, Has, SnapshotIsThere
<1>15. CASE HandleScan
  <2> DEFINE s == NextScan
             on == outputs["diagnostics"] = "open" /\ writer = "working"
  <2>1. /\ pc = "batch" /\ s \in scans /\ s \in Sensors
        /\ UNCHANGED <<mode, outputs, writer, schedule, offer, outbox, batch>>
    BY <1>15, ScanHandled
  <2>2. /\ batch[1].rotation = Taken /\ Taken \in Nat /\ Captured(batch[1])
        /\ Taken' = Taken
    BY <2>1, TakenSteps DEF InLine, Unborn, Counting, Flags
  <2>3. on => Has(s, Taken - 1) /\ mode.diagnosing
    BY <2>1 DEF Recorded
  <2>4. ASSUME Wants(s) PROVE on /\ batch[1].snapshot
    <3>1. on /\ records[s] < SampleLimit /\ records[s] \in Nat
      BY <2>1, <2>4 DEF Wants, Types
    <3>2. records[s] >= Taken - 1
      BY <2>3, <3>1 DEF Has
    <3>3. Taken <= SampleLimit
      BY <2>2, <3>1, <3>2
    <3> QED BY <2>2, <2>3, <3>1, <3>3 DEF Captured
  <2>5. /\ pc' = "batch" /\ UNCHANGED execution /\ scans' = scans \ {s}
        /\ records' = IF Wants(s) THEN [records EXCEPT ![s] = records[s] + 1] ELSE records
    BY <1>15, <2>4, ScanHandled
  <2>6. ASSUME on PROVE records'[s] >= Taken \/ records'[s] >= SampleLimit
    <3>1. records[s] \in Nat
      BY <2>1 DEF Types
    <3>2. Wants(s) <=> records[s] < SampleLimit
      BY <2>6 DEF Wants
    <3>3. records'[s] = IF Wants(s) THEN records[s] + 1 ELSE records[s]
      BY <2>1, <2>5 DEF Types
    <3>4. records[s] >= Taken - 1 \/ records[s] >= SampleLimit
      BY <2>3, <2>6 DEF Has
    <3> HIDE DEF s
    <3> QED BY <2>2, <3>1, <3>2, <3>3, <3>4
  <2>7. \A t \in Sensors : t # s => records'[t] = records[t]
    BY <2>5 DEF Types
  <2> HIDE DEF s
  <2> QED BY <1>e, <2>1, <2>2, <2>5, <2>6, <2>7 DEF Recorded, Has
<1>16. CASE HandleScanFails
  BY <1>16, <1>e, TakenSteps DEF HandleScanFails, Leave, Recorded, Has,
     SnapshotIsThere
<1>17. CASE EndBatch
  <2>1. batch[1].due => batch[1].snapshot
    BY <1>17 DEF EndBatch, Counting, Captured
  <2>2. /\ pc = "batch" /\ scans = {} /\ pc' \in {"stopping", "loop"}
        /\ SnapshotIsThere'
        /\ UNCHANGED <<mode, outputs, writer, schedule, offer, outbox, records>>
    BY <1>17, <2>1 DEF EndBatch, Leave, SnapshotIsThere
  <2>3. Taken' = Taken
    BY <2>2, TakenSteps
  <2> QED BY <2>2, <2>3 DEF Recorded, Has
<1>18. CASE StopThread \/ CloseReceiver
  BY <1>18, <1>e, TakenSteps DEF StopThread, CloseReceiver, Recorded, Has, SnapshotIsThere
<1>19. CASE JoinThread
  BY <1>19, <1>e, TakenSteps DEF JoinThread, Recorded, Has, SnapshotIsThere
<1>20. CASE CloseNext
  <2>1. /\ outputs'["diagnostics"] = "open" => outputs["diagnostics"] = "open"
        /\ pc' = "closing" /\ UNCHANGED <<mode, writer, execution>>
    BY <1>20 DEF CloseNext, Outputs, Types
  <2> QED BY <1>e, <2>1 DEF Recorded
<1>21. CASE Return
  BY <1>21, <1>e, TakenSteps DEF Return, Recorded, Has, SnapshotIsThere
<1>22. CASE UNCHANGED vars
  BY <1>22, <1>e, TakenSteps DEF vars, Recorded, Has, SnapshotIsThere
<1> QED
  BY <1>1, <1>2, <1>3, <1>4, <1>5, <1>6, <1>7, <1>8, <1>9, <1>10, <1>11, <1>12, <1>13,
     <1>14, <1>15, <1>16, <1>17, <1>18, <1>19, <1>20, <1>21, <1>22
  DEF Next, Thread, StartUp, RunLoop, WayOut

(* The steps of a start, one after the other. *)
LEMMA NextStep ==
  /\ After("scan") = "factory" /\ After("factory") = "observation"
  /\ After("observation") = "anchor" /\ After("anchor") = "epoch"
  /\ After("epoch") = "diagnostics" /\ After("diagnostics") = "boundary"
  /\ After("boundary") = "recheck" /\ After("recheck") = "generation"
  /\ After("generation") = "loop"
<1>1. /\ Len(Steps) = 10 /\ DOMAIN Steps = 1 .. 10
      /\ Steps[1] = "scan" /\ Steps[2] = "factory" /\ Steps[3] = "observation"
      /\ Steps[4] = "anchor" /\ Steps[5] = "epoch" /\ Steps[6] = "diagnostics"
      /\ Steps[7] = "boundary" /\ Steps[8] = "recheck" /\ Steps[9] = "generation"
      /\ Steps[10] = "loop"
  BY DEF Steps
<1>2. ASSUME NEW step, NEW i \in 1 .. 9, Steps[i] = step,
             \A j \in 1 .. 10 : Steps[j] = step => j = i
      PROVE  After(step) = Steps[i + 1]
  <2>1. (CHOOSE j \in DOMAIN Steps : Steps[j] = step) = i
    BY <1>1, <1>2
  <2> QED BY <2>1 DEF After
<1>3. \A i, j \in 1 .. 10 : Steps[i] = Steps[j] => i = j
  BY <1>1
<1>4. \A i \in 1 .. 9 : After(Steps[i]) = Steps[i + 1]
  BY <1>2, <1>3
<1> QED BY <1>1, <1>4

(* The thread runs only from the start's last step until it is joined.     *)
LEMMA WhereaboutsStep ==
  ASSUME Types, Flags, Unborn, Whereabouts, [Next]_vars
  PROVE  Whereabouts'
<1> USE DEF Whereabouts, world, channel, generator, ending
<1>1. CASE SignalArrives
  BY <1>1 DEF SignalArrives
<1>2. CASE ScanFaults
  BY <1>2 DEF ScanFaults
<1>3. CASE WriterFails
  BY <1>3 DEF WriterFails
<1>4. CASE MakeBatch
  BY <1>4, BatchMade
<1>5. CASE SendBatch
  BY <1>5 DEF SendBatch
<1>6. CASE ThreadFails
  BY <1>6 DEF ThreadFails, Unborn, StartSteps
<1>7. CASE ThreadEnds
  BY <1>7 DEF ThreadEnds
<1>8. CASE StartStep
  <2>1. pc \in StartSteps
    BY <1>8, Following DEF StartStep
  <2>2. pc' \in StartSteps \cup {"loop"} /\ (pc' = "loop" <=> pc = "generation")
    BY <1>8, <2>1, Following DEF StartStep
  <2> QED BY <1>8, <2>1, <2>2 DEF StartStep, StartSteps
<1>9. CASE StartFails
  <2>1. pc \in StartSteps
    BY <1>9, Following DEF StartFails
  <2> QED BY <1>9, <2>1 DEF StartFails, Unborn
<1>10. CASE LookAtFault
  BY <1>10, FaultLookedAt
<1>11. CASE SelectSignal
  BY <1>11 DEF SelectSignal, Leave
<1>12. CASE SelectFault
  BY <1>12 DEF SelectFault
<1>13. CASE SelectBatch
  BY <1>13 DEF SelectBatch
<1>14. CASE SelectEnd
  BY <1>14 DEF SelectEnd, Leave
<1>15. CASE HandleScan
  BY <1>15, ScanHandled
<1>16. CASE HandleScanFails
  BY <1>16 DEF HandleScanFails, Leave
<1>17. CASE EndBatch
  BY <1>17 DEF EndBatch, Leave
<1>18. CASE StopThread \/ CloseReceiver
  BY <1>18 DEF StopThread, CloseReceiver, StartSteps
<1>19. CASE JoinThread
  BY <1>19 DEF JoinThread, Joined, StartSteps
<1>20. CASE CloseNext
  BY <1>20 DEF CloseNext
<1>21. CASE Return
  BY <1>21 DEF Return
<1>22. CASE UNCHANGED vars
  BY <1>22 DEF vars
<1> QED
  BY <1>1, <1>2, <1>3, <1>4, <1>5, <1>6, <1>7, <1>8, <1>9, <1>10, <1>11, <1>12, <1>13,
     <1>14, <1>15, <1>16, <1>17, <1>18, <1>19, <1>20, <1>21, <1>22
  DEF Next, Thread, StartUp, RunLoop, WayOut

(* A start opens its outputs in their order.                               *)
LEMMA DoorsStep ==
  ASSUME Types, Flags, Doors, Whereabouts, [Next]_vars
  PROVE  Doors'
<1> USE DEF Doors, world, channel, generator, ending
<1>1. CASE SignalArrives
  BY <1>1 DEF SignalArrives
<1>2. CASE ScanFaults
  BY <1>2 DEF ScanFaults
<1>3. CASE WriterFails
  BY <1>3 DEF WriterFails
<1>4. CASE MakeBatch
  BY <1>4, BatchMade
<1>5. CASE SendBatch
  BY <1>5 DEF SendBatch
<1>6. CASE ThreadFails
  BY <1>6 DEF ThreadFails
<1>7. CASE ThreadEnds
  BY <1>7 DEF ThreadEnds
<1>8. CASE StartStep
  <2>1. pc \in StartSteps
    BY <1>8, Following DEF StartStep
  <2>2. pc' \in StartSteps \cup {"loop"} /\ (pc' = "loop" <=> pc = "generation")
    BY <1>8, <2>1, Following DEF StartStep
  <2>3. outputs' = IF Opens(pc) THEN [outputs EXCEPT ![pc] = "open"] ELSE outputs
    BY <1>8 DEF StartStep
  <2>4. pc' = After(pc)
    BY <1>8 DEF StartStep
  <2>5. DOMAIN outputs = {"observation", "diagnostics", "scan"}
    BY DEF Types, Outputs
  <2>6. outputs' \in Outputs
    BY <2>3 DEF Types, Outputs
  <2> QED BY <2>1, <2>3, <2>4, <2>5, <2>6, NextStep DEF StartSteps, Opens
<1>9. CASE StartFails
  BY <1>9 DEF StartFails
<1>10. CASE LookAtFault
  BY <1>10, FaultLookedAt
<1>11. CASE SelectSignal
  BY <1>11 DEF SelectSignal, Leave
<1>12. CASE SelectFault
  BY <1>12 DEF SelectFault
<1>13. CASE SelectBatch
  BY <1>13 DEF SelectBatch
<1>14. CASE SelectEnd
  BY <1>14 DEF SelectEnd, Leave
<1>15. CASE HandleScan
  BY <1>15, ScanHandled
<1>16. CASE HandleScanFails
  BY <1>16 DEF HandleScanFails, Leave
<1>17. CASE EndBatch
  BY <1>17 DEF EndBatch, Leave
<1>18. CASE StopThread \/ CloseReceiver
  BY <1>18 DEF StopThread, CloseReceiver
<1>19. CASE JoinThread
  BY <1>19 DEF JoinThread
<1>20. CASE CloseNext
  BY <1>20 DEF CloseNext
<1>21. CASE Return
  BY <1>21 DEF Return
<1>22. CASE UNCHANGED vars
  BY <1>22 DEF vars
<1> QED
  BY <1>1, <1>2, <1>3, <1>4, <1>5, <1>6, <1>7, <1>8, <1>9, <1>10, <1>11, <1>12, <1>13,
     <1>14, <1>15, <1>16, <1>17, <1>18, <1>19, <1>20, <1>21, <1>22
  DEF Next, Thread, StartUp, RunLoop, WayOut

(* The way out forgets no output that is open.                             *)
LEMMA ToCloseStep ==
  ASSUME Types, Flags, Unborn, Doors, Whereabouts, ToClose, [Next]_vars
  PROVE  ToClose'
<1> USE DEF ToClose, world, channel, generator, ending
<1>1. CASE SignalArrives
  BY <1>1 DEF SignalArrives
<1>2. CASE ScanFaults
  BY <1>2 DEF ScanFaults
<1>3. CASE WriterFails
  BY <1>3 DEF WriterFails
<1>4. CASE MakeBatch
  BY <1>4, BatchMade
<1>5. CASE SendBatch
  BY <1>5 DEF SendBatch
<1>6. CASE ThreadFails
  BY <1>6 DEF ThreadFails
<1>7. CASE ThreadEnds
  BY <1>7 DEF ThreadEnds
<1>8. CASE StartStep
  <2>1. pc \in StartSteps
    BY <1>8, Following DEF StartStep
  <2>2. pc' \in StartSteps \cup {"loop"} /\ (pc' = "loop" <=> pc = "generation")
    BY <1>8, <2>1, Following DEF StartStep
  <2> QED BY <1>8, <2>1, <2>2 DEF StartStep, StartSteps
<1>9. CASE StartFails
  <2>1. pc \in StartSteps
    BY <1>9, Following DEF StartFails
  <2>2. closing' = ClosedOnFailure(pc) /\ pc' = "closing" /\ outputs' = outputs
    BY <1>9 DEF StartFails
  <2>3. DOMAIN outputs = {"observation", "diagnostics", "scan"}
    BY DEF Types, Outputs
  <2> QED BY <2>1, <2>2, <2>3 DEF ClosedOnFailure, Doors, StartSteps
<1>10. CASE LookAtFault
  BY <1>10, FaultLookedAt
<1>11. CASE SelectSignal
  BY <1>11 DEF SelectSignal, Leave
<1>12. CASE SelectFault
  BY <1>12 DEF SelectFault
<1>13. CASE SelectBatch
  BY <1>13 DEF SelectBatch
<1>14. CASE SelectEnd
  BY <1>14 DEF SelectEnd, Leave
<1>15. CASE HandleScan
  BY <1>15, ScanHandled
<1>16. CASE HandleScanFails
  BY <1>16 DEF HandleScanFails, Leave
<1>17. CASE EndBatch
  BY <1>17 DEF EndBatch, Leave
<1>18. CASE StopThread \/ CloseReceiver
  BY <1>18 DEF StopThread, CloseReceiver
<1>19. CASE JoinThread
  BY <1>19 DEF JoinThread, Doors
<1>20. CASE CloseNext
  <2>1. /\ closing # Nothing /\ pc = "closing" /\ pc' = "closing"
        /\ outputs' = [outputs EXCEPT ![Head(closing)] =
                          IF outputs[Head(closing)] = "open" THEN "closed"
                          ELSE outputs[Head(closing)]]
        /\ closing' = Tail(closing)
    BY <1>20 DEF CloseNext
  <2>2. DOMAIN outputs = {"observation", "diagnostics", "scan"} /\ outputs \in Outputs
    BY DEF Types, Outputs
  <2>3. CASE closing = <<"observation", "diagnostics", "scan">>
    <3>1. Head(closing) = "observation" /\ Tail(closing) = <<"diagnostics", "scan">>
      BY <2>3
    <3> QED BY <2>1, <2>2, <2>3, <3>1
  <2>4. CASE closing = <<"diagnostics", "scan">> /\ outputs["observation"] # "open"
    <3>1. Head(closing) = "diagnostics" /\ Tail(closing) = <<"scan">>
      BY <2>4
    <3> QED BY <2>1, <2>2, <2>4, <3>1
  <2>5. CASE closing = <<"observation", "scan">> /\ outputs["diagnostics"] # "open"
    <3>1. Head(closing) = "observation" /\ Tail(closing) = <<"scan">>
      BY <2>5
    <3> QED BY <2>1, <2>2, <2>5, <3>1
  <2>6. CASE /\ closing = <<"scan">>
             /\ outputs["observation"] # "open" /\ outputs["diagnostics"] # "open"
    <3>1. Head(closing) = "scan" /\ Tail(closing) = Nothing
      BY <2>6 DEF Nothing
    <3> QED BY <2>1, <2>2, <2>6, <3>1
  <2> QED BY <2>1, <2>3, <2>4, <2>5, <2>6
<1>21. CASE Return
  <2>1. /\ <<"observation", "diagnostics", "scan">> # Nothing
        /\ <<"diagnostics", "scan">> # Nothing
        /\ <<"observation", "scan">> # Nothing /\ <<"scan">> # Nothing
    BY DEF Nothing
  <2> QED BY <1>21, <2>1 DEF Return
<1>22. CASE UNCHANGED vars
  BY <1>22 DEF vars
<1> QED
  BY <1>1, <1>2, <1>3, <1>4, <1>5, <1>6, <1>7, <1>8, <1>9, <1>10, <1>11, <1>12, <1>13,
     <1>14, <1>15, <1>16, <1>17, <1>18, <1>19, <1>20, <1>21, <1>22
  DEF Next, Thread, StartUp, RunLoop, WayOut

(* The run loop ends for a reason that is still true when the process      *)
(* returns.                                                                *)
LEMMA CausesStep ==
  ASSUME Types, Flags, Unborn, InLine, Whereabouts, Causes, [Next]_vars
  PROVE  Causes'
<1> USE DEF Causes, Joined, ThreadFailed, world, channel, generator, ending
<1>1. CASE SignalArrives
  BY <1>1 DEF SignalArrives, Outcomes, StartSteps
<1>2. CASE ScanFaults
  BY <1>2 DEF ScanFaults, Outcomes, StartSteps
<1>3. CASE WriterFails
  BY <1>3 DEF WriterFails, Outcomes, StartSteps
<1>4. CASE MakeBatch
  <2>1. /\ schedule'.made = schedule.made + 1 /\ schedule.made \in Nat
        /\ UNCHANGED <<mode, pc, thread, fault, execution>>
    BY <1>4, BatchMade DEF Types
  <2>2. execution' = "complete" => schedule'.made > Window
    BY <2>1
  <2> QED BY <2>1, <2>2
<1>5. CASE SendBatch
  BY <1>5 DEF SendBatch, Outcomes, StartSteps
<1>6. CASE ThreadFails
  BY <1>6 DEF ThreadFails, Outcomes, StartSteps
<1>7. CASE ThreadEnds
  BY <1>7 DEF ThreadEnds, Outcomes, StartSteps
<1>8. CASE StartStep
  <2>1. pc \in StartSteps
    BY <1>8, Following DEF StartStep
  <2>2. pc' \in StartSteps \cup {"loop"} /\ (pc' = "loop" <=> pc = "generation")
    BY <1>8, <2>1, Following DEF StartStep
  <2> QED BY <1>8, <2>1, <2>2 DEF StartStep, StartSteps
<1>9. CASE StartFails
  <2>1. pc \in StartSteps
    BY <1>9, Following DEF StartFails
  <2> QED BY <1>9, <2>1 DEF StartFails, StartSteps
<1>10. CASE LookAtFault
  BY <1>10, FaultLookedAt DEF Outcomes, StartSteps
<1>11. CASE SelectSignal
  BY <1>11 DEF SelectSignal, Leave, Outcomes, StartSteps
<1>12. CASE SelectFault
  BY <1>12 DEF SelectFault, Outcomes, StartSteps
<1>13. CASE SelectBatch
  BY <1>13 DEF SelectBatch, Outcomes, StartSteps
<1>14. CASE SelectEnd
  BY <1>14 DEF SelectEnd, Leave, Outcomes, StartSteps
<1>15. CASE HandleScan
  BY <1>15, ScanHandled DEF Outcomes, StartSteps
<1>16. CASE HandleScanFails
  BY <1>16 DEF HandleScanFails, Leave, Outcomes, StartSteps
<1>17. CASE EndBatch
  <2>1. pc = "batch" /\ ~stop /\ batch[1].rotation = Taken /\ Taken =< schedule.made
        /\ Taken \in Nat
    BY <1>17 DEF EndBatch, Unborn, InLine, Taken, Waiting, Types, Flags
  <2>2. /\ pc' \in {"stopping", "loop"}
        /\ pc' = "loop" => execution' = execution
        /\ pc' = "stopping" => execution' \in {"snapshot_not_captured",
             "observation_failed", "validation_failed", "complete"}
        /\ execution' = "complete" => execution' = execution \/ batch[1].rotation > Window
        /\ UNCHANGED <<thread, schedule, fault>>
    BY <1>17 DEF EndBatch, Leave
  <2>3. batch[1].rotation > Window => schedule.made > Window
    BY <2>1 DEF Types
  <2>4. execution = "none"
    BY <2>1
  <2>5. execution' = "complete" => schedule'.made > Window
    BY <2>1, <2>2, <2>3, <2>4
  <2>6. CASE pc' = "loop"
    BY <2>2, <2>4, <2>6 DEF StartSteps
  <2>7. CASE pc' = "stopping"
    BY <2>2, <2>4, <2>5, <2>7 DEF Outcomes, StartSteps
  <2> QED BY <2>2, <2>6, <2>7
<1>18. CASE StopThread \/ CloseReceiver
  BY <1>18 DEF StopThread, CloseReceiver, Outcomes, StartSteps
<1>19. CASE JoinThread
  BY <1>19 DEF JoinThread, Outcomes, StartSteps
<1>20. CASE CloseNext
  BY <1>20 DEF CloseNext, Outcomes, StartSteps
<1>21. CASE Return
  BY <1>21 DEF Return, Outcomes, StartSteps
<1>22. CASE UNCHANGED vars
  BY <1>22 DEF vars, Outcomes, StartSteps
<1> QED
  BY <1>1, <1>2, <1>3, <1>4, <1>5, <1>6, <1>7, <1>8, <1>9, <1>10, <1>11, <1>12, <1>13,
     <1>14, <1>15, <1>16, <1>17, <1>18, <1>19, <1>20, <1>21, <1>22
  DEF Next, Thread, StartUp, RunLoop, WayOut

(* Nothing is open when the process returns, and the scan runtime goes last. *)
LEMMA AllClosed ==
  ASSUME Types, Whereabouts, Doors, ToClose
  PROVE  NothingLeftOpen
<1>1. DOMAIN outputs = {"observation", "diagnostics", "scan"}
  BY DEF Types, Outputs
<1>2. /\ <<"observation", "diagnostics", "scan">> # Nothing
      /\ <<"diagnostics", "scan">> # Nothing
      /\ <<"observation", "scan">> # Nothing /\ <<"scan">> # Nothing
  BY DEF Nothing
<1> QED BY <1>1, <1>2 DEF Whereabouts, Doors, ToClose, NothingLeftOpen

(* The result names the cause.                                             *)
LEMMA ResultStep ==
  ASSUME Types, Flags, Unborn, Whereabouts, Causes, ResultNamesTheCause, [Next]_vars
  PROVE  ResultNamesTheCause'
<1> USE DEF ResultNamesTheCause, Validating, StartSteps, Whereabouts, world, channel,
   generator, ending
<1>1. CASE SignalArrives
  BY <1>1 DEF SignalArrives
<1>2. CASE ScanFaults
  BY <1>2 DEF ScanFaults
<1>3. CASE WriterFails
  BY <1>3 DEF WriterFails
<1>4. CASE MakeBatch
  BY <1>4, BatchMade DEF Types
<1>5. CASE SendBatch
  BY <1>5 DEF SendBatch
<1>6. CASE ThreadFails
  BY <1>6 DEF ThreadFails
<1>7. CASE ThreadEnds
  BY <1>7 DEF ThreadEnds
<1>8. CASE StartStep
  <2>1. pc \in StartSteps
    BY <1>8, Following DEF StartStep
  <2>2. pc' \in StartSteps \cup {"loop"} /\ (pc' = "loop" <=> pc = "generation")
    BY <1>8, <2>1, Following DEF StartStep
  <2> QED BY <1>8, <2>1, <2>2 DEF StartStep
<1>9. CASE StartFails
  BY <1>9 DEF StartFails
<1>10. CASE LookAtFault
  BY <1>10, FaultLookedAt
<1>11. CASE SelectSignal
  BY <1>11 DEF SelectSignal, Leave
<1>12. CASE SelectFault
  BY <1>12 DEF SelectFault
<1>13. CASE SelectBatch
  BY <1>13 DEF SelectBatch
<1>14. CASE SelectEnd
  BY <1>14 DEF SelectEnd, Leave
<1>15. CASE HandleScan
  BY <1>15, ScanHandled
<1>16. CASE HandleScanFails
  BY <1>16 DEF HandleScanFails, Leave
<1>17. CASE EndBatch
  BY <1>17 DEF EndBatch, Leave
<1>18. CASE StopThread \/ CloseReceiver
  BY <1>18 DEF StopThread, CloseReceiver
<1>19. CASE JoinThread
  BY <1>19 DEF JoinThread
<1>20. CASE CloseNext
  BY <1>20 DEF CloseNext
<1>21. CASE Return
  <2>1. thread \in {"absent", "ended", "failed", "panicked"}
        /\ UNCHANGED <<mode, thread, fault, schedule>>
        /\ pc = "closing" /\ Resolve # "generation_stopped"
        /\ (Resolve = "scan_fault" => fault)
    BY <1>21 DEF Return, Causes, Joined, ThreadFailed, ThreadError, Resolve,
      Outcomes
  <2>2. Resolve = "ok" => thread = "ended"
    BY <1>21, <2>1 DEF Return, Causes, Joined, ThreadFailed, ThreadError, Resolve,
      Outcomes
  <2>3. CASE Resolve # "ok" \/ ~Validating
    BY <1>21, <2>1, <2>2, <2>3 DEF Return
  <2>4. CASE Resolve = "ok" /\ Validating
    BY <1>21, <2>1, <2>2, <2>4 DEF Return, Causes
  <2> QED BY <2>3, <2>4
<1>22. CASE UNCHANGED vars
  BY <1>22 DEF vars
<1> QED
  BY <1>1, <1>2, <1>3, <1>4, <1>5, <1>6, <1>7, <1>8, <1>9, <1>10, <1>11, <1>12, <1>13,
     <1>14, <1>15, <1>16, <1>17, <1>18, <1>19, <1>20, <1>21, <1>22
  DEF Next, Thread, StartUp, RunLoop, WayOut

-----------------------------------------------------------------------------
(* A process that has not started satisfies every part. *)
LEMMA InitHolds == Init => IInv
<1> SUFFICES ASSUME Init PROVE IInv
  OBVIOUS
<1>1. schedule = [made |-> 0, nextObservation |-> 0,
                  diagnosticsLeft |-> IF mode.diagnosing THEN SampleLimit ELSE 0]
  BY DEF Init, Outputs
<1>2. mode.observing \in BOOLEAN /\ mode.diagnosing \in BOOLEAN
  BY DEF Init, Outputs
<1>a. schedule \in [made : Nat, nextObservation : Nat, diagnosticsLeft : Nat]
  BY <1>1
<1>b. /\ outputs \in Outputs
      /\ records \in [Sensors -> Nat] /\ scans \subseteq Sensors
  BY DEF Init, Outputs
<1>c. offer \in Place /\ outbox \in Place /\ batch \in Place
  BY Places DEF Init
<1>3. Types /\ Flags
  BY <1>2, <1>a, <1>b, <1>c DEF Types, Flags, Init
<1>4. Unborn /\ Counting
  BY <1>1 DEF Unborn, Counting, Init
<1>5. Taken = 0
  BY <1>1 DEF Taken, Waiting, Init
<1>6. InLine
  BY <1>5 DEF InLine, Init
<1>7. Recorded
  BY DEF Recorded, Init
<1>8. SnapshotIsThere
  BY DEF SnapshotIsThere, Init
<1>9. pc = "scan" /\ thread = "absent" /\ execution = "none"
      /\ \A o \in DOMAIN outputs : outputs[o] = "absent"
  BY DEF Init
<1>10. Whereabouts /\ Doors /\ ToClose
  <2>1. outputs["observation"] = "absent" /\ outputs["diagnostics"] = "absent"
        /\ outputs["scan"] = "absent"
    BY <1>9, <1>b DEF Outputs
  <2> QED BY <1>9, <2>1 DEF Whereabouts, Doors, ToClose, StartSteps
<1>11. Causes /\ ResultNamesTheCause
  BY <1>9 DEF Causes, ResultNamesTheCause, StartSteps
<1> QED BY <1>3, <1>4, <1>6, <1>7, <1>8, <1>10, <1>11 DEF IInv

(* Every behaviour of the process satisfies the inductive invariant.       *)
THEOREM Invariant == Spec => []IInv
<1>1. Init => IInv
  BY InitHolds
<1>2. IInv /\ [Next]_vars => IInv'
  <2> SUFFICES ASSUME IInv, [Next]_vars PROVE IInv'
    OBVIOUS
  <2> USE DEF IInv
  <2>1. Types' /\ Flags'
    BY TypesStep, FlagsStep
  <2>2. Unborn' /\ Counting' /\ InLine'
    BY UnbornStep, CountingStep, InLineStep
  <2>3. Recorded' /\ SnapshotIsThere'
    BY RecordedStep
  <2>4. Whereabouts' /\ Doors' /\ ToClose'
    BY WhereaboutsStep, DoorsStep, ToCloseStep
  <2>5. Causes' /\ ResultNamesTheCause'
    BY CausesStep, ResultStep
  <2> QED BY <2>1, <2>2, <2>3, <2>4, <2>5
<1> QED BY <1>1, <1>2, PTL DEF Spec

(* The scheduler of snapshots and the run loop never disagree: no run ends *)
(* because a record or an observation finds its snapshot not captured. The *)
(* count of the thread goes down by one for each batch; in the same batch  *)
(* every sensor that still wants records gets one, so that at batch n it   *)
(* has n - 1 of them and n is within the limit the thread counted.         *)
THEOREM SnapshotsAgree == Spec => []SnapshotIsThere
<1>1. IInv => SnapshotIsThere
  BY DEF IInv
<1> QED BY <1>1, Invariant, PTL

(* run_application closes what it opened on every way out, from whichever  *)
(* step of the start or of the run loop: no output is open and no thread   *)
(* runs when it returns, and the scan runtime is closed last.              *)
THEOREM NothingStaysOpen == Spec => []NothingLeftOpen
<1>1. IInv => NothingLeftOpen
  BY AllClosed DEF IInv
<1> QED BY <1>1, Invariant, PTL

(* The result of run_application names the cause: the failure of the       *)
(* thread and not the channel it closed, a fault of the scan runtime only  *)
(* if there was one, and success of a validation only past its window.     *)
THEOREM ResultIsTheCause == Spec => []ResultNamesTheCause
<1>1. IInv => ResultNamesTheCause
  BY DEF IInv
<1> QED BY <1>1, Invariant, PTL

(***************************************************************************)
(* The recorder                                                            *)
(***************************************************************************)

(* Rotations before the window, and how many of the first q are within it. *)
Before == settings.warmup \div settings.period
Measured(q) == IF q > Before THEN q - Before ELSE 0

Phases == [cycle : Nat, phase : {"filling", "collecting"}]
PhaseChanges == [at : Nat, to : Phases]
Recorders ==
  [ expected : Nat, observed : Nat, lastBatch : Nat, state : Phases,
    transitions : Seq(PhaseChanges), samples : [LaserSensors -> Seq(Nat)],
    batches : Seq(Nat), nextSemantic : Nat, sampled : Nat, reachedEnd : BOOLEAN ]

(* The run was started with settings that fit, and the scenario changes    *)
(* its phase in order, up to the last batch.                               *)
SettingsFit ==
  /\ settings \in [warmup : Warmups, measurement : Measurements,
                   period : Periods, capacity : Capacities]
  /\ ExpectedSamples(settings) <= settings.capacity

ScenarioInOrder ==
  /\ rotation \in Nat /\ happened \in Seq(PhaseChanges)
  /\ \A i \in DOMAIN happened :
        /\ happened[i].to = Phase(i)
        /\ 0 < happened[i].at /\ happened[i].at <= rotation * settings.period
  /\ \A i, j \in DOMAIN happened : i < j => happened[i].at < happened[j].at

(* What r holds of the scenario, the batches and the semantics when it has *)
(* recorded q rotations.                                                   *)
KnowsScenario(r, q) ==
  /\ r.observed = q * settings.period
  /\ r.lastBatch = IF q <= 1 THEN None ELSE q * settings.period
  /\ r.state = Phase(Len(r.transitions))
  /\ Len(r.transitions) <= Len(happened)
  /\ \A i \in DOMAIN happened :
        IF i <= Len(r.transitions)
        THEN r.transitions[i] = happened[i] /\ happened[i].at <= q * settings.period
        ELSE happened[i].at > q * settings.period

KnowsBatches(r, q) ==
  /\ r.expected = ExpectedSamples(settings)
  /\ Measured(q) > 0 => Before >= 1
  /\ r.batches = [j \in 1 .. Measured(q) |-> (Before + j) * settings.period]
  /\ \A i \in LaserSensors : r.samples[i] = [j \in 1 .. Measured(q) |-> Before + j - 1]

KnowsSemantics(r, q) ==
  /\ r.nextSemantic = Start + Second * (r.sampled + 1)
  /\ settings.period <= Second =>
        /\ q * settings.period < r.nextSemantic
        /\ r.sampled = 0 \/ r.nextSemantic <= q * settings.period + Second

KnowsRun(r, q) ==
  /\ r \in Recorders /\ q \in Nat /\ q * settings.period <= End
  /\ KnowsScenario(r, q) /\ KnowsBatches(r, q) /\ KnowsSemantics(r, q)

ReportStages == {"reported", "writing", "linking", "linked", "done"}
Completed == ReportStages \cup {"complete"}

RecorderInv ==
  /\ SettingsFit /\ ScenarioInOrder
  /\ stage = "running" => KnowsRun(recorder, rotation) /\ ~recorder.reachedEnd
  /\ stage \in Completed =>
        /\ KnowsRun(recorder, rotation - 1) /\ recorder.reachedEnd
        /\ rotation * settings.period > End
  /\ stage \in ReportStages => FinishError(recorder) = "none"
  /\ stage \in Completed \cup {"running"} => error = "none"
  /\ stage = "linking" => temporary = "report"
  /\ NoFalseAlarm

(***************************************************************************)
(* Times                                                                   *)
(***************************************************************************)

LEMMA Multiples ==
  ASSUME NEW m \in Nat, NEW n \in Nat, NEW d \in Nat \ {0}
  PROVE  /\ m * d \in Nat
         /\ (m + 1) * d = m * d + d
         /\ m < n => m * d + d <= n * d
         /\ m <= n => m * d <= n * d
<1>1. m * d \in Nat /\ (m + 1) * d = m * d + d
  OBVIOUS
<1>2. ASSUME NEW k \in Nat PROVE (m + k) * d >= m * d
  <2>1. m * d \in Nat /\ k * d \in Nat
    OBVIOUS
  <2>2. (m + k) * d = m * d + k * d
    OBVIOUS
  <2> QED BY <2>1, <2>2
<1>3. ASSUME m < n PROVE m * d + d <= n * d
  <2>1. n - m - 1 \in Nat /\ n = (m + 1) + (n - m - 1)
    BY <1>3
  <2>2. ((m + 1) + (n - m - 1)) * d = (m + 1) * d + (n - m - 1) * d
    BY <2>1
  <2>3. (n - m - 1) * d >= 0 /\ (n - m - 1) * d \in Nat
    BY <2>1
  <2> QED BY <1>1, <2>1, <2>2, <2>3
<1>4. ASSUME m <= n PROVE m * d <= n * d
  <2>1. n - m \in Nat /\ m + (n - m) = n
    BY <1>4
  <2> QED BY <1>2, <2>1
<1> QED BY <1>1, <1>3, <1>4

LEMMA Division ==
  ASSUME NEW a \in Nat, NEW d \in Nat \ {0}
  PROVE  /\ a \div d \in Nat /\ a % d \in 0 .. d - 1
         /\ a = d * (a \div d) + (a % d)
<1>1. a \div d \in Nat
  OBVIOUS
<1>2. a % d \in 0 .. d - 1
  OBVIOUS
<1>3. a = d * (a \div d) + (a % d)
  OBVIOUS
<1> QED BY <1>1, <1>2, <1>3

LEMMA Quotients ==
  ASSUME NEW a \in Nat, NEW n \in Nat, NEW d \in Nat \ {0}
  PROVE  /\ a \div d \in Nat
         /\ n * d <= a <=> n <= a \div d
<1> DEFINE q == a \div d
<1>1. q \in Nat /\ q * d <= a /\ a < q * d + d
  <2>1. a \div d \in Nat
    BY Division
  <2>2. d * (a \div d) <= a /\ a < d * (a \div d) + d
    <3>1. a = d * (a \div d) + (a % d) /\ a % d \in 0 .. d - 1
      BY Division
    <3>2. d * (a \div d) \in Nat
      BY <2>1
    <3> QED BY <3>1, <3>2
  <2>3. d * (a \div d) = (a \div d) * d
    BY <2>1
  <2> QED BY <2>1, <2>2, <2>3
<1> HIDE DEF q
<1>2. n * d \in Nat /\ q * d \in Nat
  BY <1>1, Multiples
<1>3. ASSUME n <= q PROVE n * d <= a
  BY <1>1, <1>2, <1>3, Multiples
<1>4. ASSUME q < n PROVE a < n * d
  <2>1. q * d + d <= n * d
    BY <1>1, <1>4, Multiples
  <2> QED BY <1>1, <1>2, <2>1
<1>5. n * d <= a <=> n <= q
  BY <1>1, <1>2, <1>3, <1>4
<1> QED BY <1>1, <1>5 DEF q

LEMMA Exactly ==
  ASSUME NEW a \in Nat, NEW d \in Nat \ {0}, a % d = 0
  PROVE  a = (a \div d) * d
<1>1. a \div d \in Nat /\ a = d * (a \div d) + (a % d)
  BY Division
<1>2. d * (a \div d) = (a \div d) * d
  BY <1>1
<1> QED BY <1>1, <1>2

(* The settings of a run, and its window counted in rotations.             *)
LEMMA WindowBounds ==
  ASSUME SettingsFit
  PROVE  /\ settings.period \in Nat \ {0} /\ settings.capacity \in Nat
         /\ settings.warmup \in Nat \ {0} /\ settings.warmup % Second = 0
         /\ settings.measurement \in Nat \ {0} /\ settings.measurement % Second = 0
         /\ Start = settings.warmup /\ Start \in Nat /\ End \in Nat
         /\ End = settings.warmup + settings.measurement
         /\ Before \in Nat /\ End \div settings.period \in Nat
         /\ ExpectedSamples(settings) = (End \div settings.period) - Before
         /\ (End \div settings.period) - Before <= settings.capacity
         /\ \A n \in Nat : /\ n * settings.period \in Nat
                           /\ n * settings.period > Start <=> n > Before
                           /\ n * settings.period <= End <=> n <= End \div settings.period
<1>1. /\ settings.period \in Periods /\ settings.capacity \in Capacities
      /\ settings.warmup \in Warmups /\ settings.measurement \in Measurements
      /\ ExpectedSamples(settings) <= settings.capacity
  BY DEF SettingsFit
<1>2. /\ settings.period \in Nat \ {0} /\ settings.capacity \in Nat
      /\ settings.warmup \in Nat \ {0} /\ settings.warmup % Second = 0
      /\ settings.measurement \in Nat \ {0} /\ settings.measurement % Second = 0
  BY <1>1, DurationsAreSeconds
<1>3. /\ Start = settings.warmup /\ Start \in Nat /\ End \in Nat
      /\ End = settings.warmup + settings.measurement
  BY <1>2 DEF Start, End
<1>4. ExpectedSamples(settings) = (End \div settings.period) - Before
  BY <1>3 DEF ExpectedSamples, Before
<1>5. \A n \in Nat : /\ n * settings.period \in Nat
                     /\ n * settings.period <= End <=> n <= End \div settings.period
                     /\ n * settings.period <= Start <=> n <= Before
  BY <1>2, <1>3, Quotients, Multiples DEF Before
<1>6. Before \in Nat /\ End \div settings.period \in Nat
  BY <1>2, <1>3, Quotients DEF Before
<1> HIDE DEF Before
<1>7. \A n \in Nat : n * settings.period > Start <=> n > Before
  BY <1>3, <1>5, <1>6
<1> QED BY <1>1, <1>2, <1>3, <1>4, <1>5, <1>6, <1>7

LEMMA PhasesFollow ==
  ASSUME NEW k \in Nat
  PROVE  Phase(k) \in Phases /\ Phase(k + 1) = NextPhase(Phase(k))
<1>1. k \div 2 \in Nat /\ (k + 1) \div 2 \in Nat
  BY Quotients
<1>2. CASE k % 2 = 0
  <2>1. (k + 1) % 2 # 0 /\ (k + 1) \div 2 = k \div 2
    BY <1>2
  <2> QED BY <1>1, <1>2, <2>1 DEF Phase, Phases, NextPhase
<1>3. CASE k % 2 # 0
  <2>1. (k + 1) % 2 = 0 /\ (k + 1) \div 2 = (k \div 2) + 1
    BY <1>3
  <2> QED BY <1>1, <1>3, <2>1 DEF Phase, Phases, NextPhase
<1> QED BY <1>2, <1>3

LEMMA LeastIsThere ==
  ASSUME NEW S \in SUBSET Nat, S # {}
  PROVE  Min(S) \in S
<1>1. \E i \in S : \A j \in S : i <= j
  <2>1. PICK i \in S : \A j \in S : ~(<<j, i>> \in OpToRel(<, Nat))
    BY NatLessThanWellFounded, WFMin
  <2>2. \A j \in S : ~(j < i)
    BY <2>1 DEF OpToRel
  <2>3. \A j \in S : i \in Nat /\ j \in Nat
    OBVIOUS
  <2> QED BY <2>2, <2>3
<1> QED BY <1>1 DEF Min

(***************************************************************************)
(* One batch                                                               *)
(***************************************************************************)

LEMMA Deadlines ==
  ASSUME SettingsFit, NEW q \in Nat
  PROVE  /\ q * settings.period \in Nat /\ (q + 1) * settings.period \in Nat
         /\ (q + 1) * settings.period = q * settings.period + settings.period
         /\ q * settings.period < (q + 1) * settings.period
         /\ q > 0 => q * settings.period > 0
<1>1. settings.period \in Nat \ {0}
  BY WindowBounds
<1>2. q * settings.period \in Nat /\ (q + 1) * settings.period = q * settings.period + settings.period
  BY <1>1, Multiples
<1>3. ASSUME q > 0 PROVE q * settings.period > 0
  <2>1. 0 * settings.period + settings.period <= q * settings.period
    BY <1>1, <1>3, Multiples
  <2>2. 0 * settings.period = 0
    BY <1>1
  <2> QED BY <1>1, <1>2, <2>1, <2>2
<1> QED BY <1>1, <1>2, <1>3

LEMMA NewChanges ==
  ASSUME SettingsFit, ScenarioInOrder, NEW most \in Int,
         NEW at \in Instants(rotation * settings.period, (rotation + 1) * settings.period, most),
         NEW c, c = Changes(at)
  PROVE  /\ c \in Seq(PhaseChanges)
         /\ \A k \in 1 .. Len(c) :
               /\ c[k].to = Phase(Len(happened) + k)
               /\ rotation * settings.period < c[k].at
               /\ c[k].at <= (rotation + 1) * settings.period
         /\ \A i, j \in 1 .. Len(c) : i < j => c[i].at < c[j].at
<1> DEFINE from == rotation * settings.period
           to == (rotation + 1) * settings.period
<1>1. rotation \in Nat /\ Len(happened) \in Nat /\ from \in Nat /\ to \in Nat
  <2>1. rotation \in Nat /\ Len(happened) \in Nat
    BY LenProperties DEF ScenarioInOrder
  <2> QED BY <2>1, Deadlines
<1>2. PICK n \in 0 .. most : at \in [1 .. n -> from + 1 .. to]
  BY DEF Instants
<1>3. \A i, j \in 1 .. n : i < j => at[i] < at[j]
  BY <1>2 DEF Instants
<1>4. c = [k \in 1 .. n |-> [at |-> at[k], to |-> Phase(Len(happened) + k)]]
  BY <1>2 DEF Changes
<1> HIDE DEF from, to
<1>5. \A k \in 1 .. n : /\ at[k] \in Nat /\ from < at[k] /\ at[k] <= to
                        /\ Phase(Len(happened) + k) \in Phases
  <2>1. \A k \in 1 .. n : at[k] \in from + 1 .. to /\ Len(happened) + k \in Nat
    BY <1>1, <1>2
  <2>2. \A k \in 1 .. n : Phase(Len(happened) + k) \in Phases
    BY <2>1, PhasesFollow
  <2> QED BY <1>1, <2>1, <2>2
<1>6. c \in [1 .. n -> PhaseChanges]
  BY <1>4, <1>5 DEF PhaseChanges
<1>7. n \in Nat
  BY <1>2
<1>8. c \in Seq(PhaseChanges) /\ Len(c) = n
  BY <1>6, <1>7
<1> QED BY <1>3, <1>4, <1>5, <1>8 DEF from, to

(* The scenario goes on in order.                                          *)
LEMMA ScenarioGoesOn ==
  ASSUME SettingsFit, ScenarioInOrder, NEW c \in Seq(PhaseChanges),
         \A k \in 1 .. Len(c) : /\ c[k].to = Phase(Len(happened) + k)
                                /\ rotation * settings.period < c[k].at
                                /\ c[k].at <= (rotation + 1) * settings.period,
         \A i, j \in 1 .. Len(c) : i < j => c[i].at < c[j].at,
         happened' = happened \o c, rotation' = rotation + 1, settings' = settings
  PROVE  /\ ScenarioInOrder'
         /\ Len(happened') = Len(happened) + Len(c)
         /\ \A i \in 1 .. Len(happened') :
               happened'[i] = IF i <= Len(happened) THEN happened[i] ELSE c[i - Len(happened)]
<1> DEFINE h == Len(happened)
<1>1. /\ rotation \in Nat /\ happened \in Seq(PhaseChanges) /\ DOMAIN happened = 1 .. h
      /\ h \in Nat /\ Len(c) \in Nat
  BY DEF ScenarioInOrder
<1>2. /\ happened' \in Seq(PhaseChanges) /\ Len(happened') = h + Len(c)
      /\ \A i \in 1 .. h + Len(c) :
            happened'[i] = IF i <= h THEN happened[i] ELSE c[i - h]
  BY <1>1, ConcatProperties
<1>3. /\ rotation * settings.period \in Nat /\ (rotation + 1) * settings.period \in Nat
      /\ rotation * settings.period <= (rotation + 1) * settings.period
  <2>1. /\ rotation * settings.period \in Nat /\ (rotation + 1) * settings.period \in Nat
        /\ rotation * settings.period < (rotation + 1) * settings.period
    BY <1>1, Deadlines
  <2>2. \A a, b \in Nat : a < b => a <= b
    OBVIOUS
  <2> QED BY <2>1, <2>2
<1>4. \A i \in 1 .. h : /\ happened[i].to = Phase(i) /\ happened[i].at \in Nat
                        /\ 0 < happened[i].at /\ happened[i].at <= rotation * settings.period
  <2>1. \A i \in 1 .. h : happened[i] \in PhaseChanges
    BY <1>1, ElementOfSeq
  <2> QED BY <1>1, <2>1 DEF ScenarioInOrder, PhaseChanges
<1>5. \A k \in 1 .. Len(c) : c[k].at \in Nat
  <2>1. \A k \in 1 .. Len(c) : c[k] \in PhaseChanges
    BY ElementOfSeq
  <2> QED BY <2>1 DEF PhaseChanges
<1> HIDE DEF h
<1>6. ASSUME NEW i \in 1 .. h + Len(c)
      PROVE  /\ happened'[i].to = Phase(i) /\ 0 < happened'[i].at
             /\ happened'[i].at <= (rotation + 1) * settings.period
  <2>1. CASE i <= h
    <3>1. i \in 1 .. h /\ happened'[i] = happened[i]
      BY <1>1, <1>2, <2>1
    <3> QED BY <1>3, <1>4, <3>1
  <2>2. CASE i > h
    <3>0. i - h \in 1 .. Len(c) /\ h + (i - h) = i /\ ~(i <= h)
      BY <1>1, <2>2
    <3>1. i - h \in 1 .. Len(c) /\ happened'[i] = c[i - h] /\ h + (i - h) = i
      BY <1>2, <3>0
    <3>2. c[i - h].to = Phase(h + (i - h))
      BY <3>1 DEF h
    <3> QED BY <1>3, <1>5, <3>1, <3>2
  <2> QED BY <1>1, <2>1, <2>2
<1>7. ASSUME NEW i \in 1 .. h + Len(c), NEW j \in 1 .. h + Len(c), i < j
      PROVE  happened'[i].at < happened'[j].at
  <2>1. CASE j <= h
    <3>1. i \in 1 .. h /\ j \in 1 .. h
      BY <1>1, <1>7, <2>1
    <3>2. happened[i].at < happened[j].at
      BY <1>1, <1>7, <3>1 DEF ScenarioInOrder
    <3>3. happened'[i] = happened[i] /\ happened'[j] = happened[j]
      BY <1>2, <3>1
    <3> QED BY <3>2, <3>3
  <2>2. CASE i <= h /\ j > h
    <3>1. i \in 1 .. h /\ j - h \in 1 .. Len(c)
      BY <1>1, <1>7, <2>2
    <3>2. happened'[i] = happened[i] /\ happened'[j] = c[j - h]
      BY <1>1, <1>2, <2>2
    <3>3. happened[i].at \in Nat /\ happened[i].at <= rotation * settings.period
      BY <1>4, <3>1
    <3>4. c[j - h].at \in Nat /\ rotation * settings.period < c[j - h].at
      BY <1>5, <3>1
    <3> DEFINE now == rotation * settings.period
    <3>5. now \in Nat /\ happened[i].at <= now /\ now < c[j - h].at
      BY <1>3, <3>3, <3>4
    <3> HIDE DEF now
    <3> QED BY <3>2, <3>3, <3>4, <3>5
  <2>3. CASE i > h
    <3>1. i - h \in 1 .. Len(c) /\ j - h \in 1 .. Len(c) /\ i - h < j - h
      BY <1>1, <1>7, <2>3
    <3>2. happened'[i] = c[i - h] /\ happened'[j] = c[j - h]
      BY <1>1, <1>2, <1>7, <2>3
    <3> QED BY <3>1, <3>2
  <2> QED BY <1>1, <2>1, <2>2, <2>3
<1>8. DOMAIN happened' = 1 .. h + Len(c)
  BY <1>2
<1>9. ScenarioInOrder'
  <2>1. rotation' \in Nat /\ (rotation' * settings'.period) = (rotation + 1) * settings.period
    BY <1>1
  <2> QED BY <1>2, <1>6, <1>7, <1>8, <2>1 DEF ScenarioInOrder
<1> QED BY <1>2, <1>9 DEF h

LEMMA SemanticsStep ==
  ASSUME SettingsFit, NEW r, NEW q \in Nat, KnowsRun(r, q),
         (q + 1) * settings.period <= End,
         NEW s, s = WithSemantics(r, (q + 1) * settings.period)
  PROVE  /\ s \in Recorders /\ KnowsSemantics(s, q + 1)
         /\ KnowsScenario(s, q) /\ KnowsBatches(s, q) /\ s.reachedEnd = r.reachedEnd
<1> DEFINE d == (q + 1) * settings.period
<1>0. q * settings.period \in Nat /\ d \in Nat /\ d = q * settings.period + settings.period
  BY Deadlines
<1>1. /\ q * settings.period \in Nat /\ d \in Nat /\ d = q * settings.period + settings.period
      /\ Start \in Nat /\ Second \in Nat \ {0} /\ settings.period \in Nat \ {0}
  <2>1. Start \in Nat /\ settings.period \in Nat \ {0}
    BY WindowBounds
  <2> QED BY <1>0, <2>1, DurationsAreSeconds
<1>2. r \in Recorders /\ r.sampled \in Nat /\ r.nextSemantic \in Nat
  BY DEF KnowsRun, Recorders
<1>3. /\ s \in Recorders /\ s.reachedEnd = r.reachedEnd
      /\ s.observed = r.observed /\ s.lastBatch = r.lastBatch /\ s.state = r.state
      /\ s.transitions = r.transitions /\ s.expected = r.expected
      /\ s.batches = r.batches /\ s.samples = r.samples
  <2>1. \/ s = r
        \/ s = [r EXCEPT !.nextSemantic = r.nextSemantic + Second, !.sampled = r.sampled + 1]
    BY DEF WithSemantics
  <2>2. r.nextSemantic + Second \in Nat /\ r.sampled + 1 \in Nat
    BY <1>1, <1>2
  <2>3. CASE s = r
    BY <1>2, <2>3
  <2>4. CASE s = [r EXCEPT !.nextSemantic = r.nextSemantic + Second, !.sampled = r.sampled + 1]
    <3>1. PICK a \in Nat, b \in Nat : s = [r EXCEPT !.nextSemantic = a, !.sampled = b]
      BY <2>2, <2>4
    <3> QED BY <1>2, <3>1 DEF Recorders
  <2> QED BY <2>1, <2>3, <2>4
<1>4. KnowsScenario(s, q) /\ KnowsBatches(s, q)
  BY <1>3 DEF KnowsRun, KnowsScenario, KnowsBatches
<1>5. KnowsSemantics(s, q + 1)
  <2>1. /\ r.nextSemantic = Start + Second * (r.sampled + 1)
        /\ settings.period <= Second =>
              /\ q * settings.period < r.nextSemantic
              /\ r.sampled = 0 \/ r.nextSemantic <= q * settings.period + Second
    BY DEF KnowsRun, KnowsSemantics
  <2>2. Second * ((r.sampled + 1) + 1) = Second * (r.sampled + 1) + Second
    BY <1>1, <1>2
  <2>3. Second * (r.sampled + 1) >= Second /\ Second * (r.sampled + 1) \in Nat
    BY <1>1, <1>2
  <2>4. CASE Measures(d) /\ d >= r.nextSemantic
    <3>1. s.nextSemantic = r.nextSemantic + Second /\ s.sampled = r.sampled + 1
      BY <1>2, <2>4 DEF WithSemantics, Recorders
    <3> QED BY <1>1, <1>2, <2>1, <2>2, <2>3, <2>4, <3>1 DEF KnowsSemantics
  <2>5. CASE ~(Measures(d) /\ d >= r.nextSemantic)
    <3>1. s = r
      BY <2>5 DEF WithSemantics
    <3>2. d < r.nextSemantic
      BY <1>1, <1>2, <2>1, <2>3, <2>5 DEF Measures
    <3> QED BY <1>1, <1>2, <2>1, <3>1, <3>2 DEF KnowsSemantics
  <2> QED BY <2>4, <2>5
<1> QED BY <1>3, <1>4, <1>5

(* The two frames of a batch are accepted as such.                         *)
LEMMA FramesOfBatch ==
  ASSUME NEW n \in Nat \ {0}
  PROVE  /\ BatchError(Frames(n)) = "none"
         /\ n = 1 <=> Frames(n) = <<>>
         /\ n # 1 => \A i \in LaserSensors :
               (CHOOSE f \in ToSet(Frames(n)) : f.sensor = i).sequence = n - 1
<1>1. CASE n = 1
  BY <1>1 DEF Frames, BatchError
<1>2. CASE n # 1
  <2> DEFINE f1 == [sensor |-> 1, sequence |-> n - 1]
             f2 == [sensor |-> 2, sequence |-> n - 1]
  <2>1. Frames(n) = <<f1, f2>> /\ DOMAIN Frames(n) = {1, 2} /\ Len(Frames(n)) = 2
    BY <1>2 DEF Frames
  <2>2. Frames(n)[1] = f1 /\ Frames(n)[2] = f2 /\ Frames(n) # <<>>
    BY <2>1
  <2>3. {Frames(n)[i].sensor : i \in DOMAIN Frames(n)} = {1, 2}
    BY <2>1, <2>2
  <2>4. Cardinality({1, 2}) = 2
    <3>1. Cardinality({1}) = 1 /\ IsFiniteSet({1})
      BY FS_Singleton
    <3>2. {1, 2} = {1} \cup {2} /\ 2 \notin {1}
      OBVIOUS
    <3> QED BY <3>1, <3>2, FS_AddElement
  <2>5. BatchError(Frames(n)) = "none"
    BY <2>1, <2>2, <2>3, <2>4 DEF BatchError, LaserSensors
  <2>6. ToSet(Frames(n)) = {f1, f2}
    BY <2>1, <2>2 DEF ToSet
  <2>7. ASSUME NEW i \in LaserSensors
        PROVE  (CHOOSE f \in ToSet(Frames(n)) : f.sensor = i).sequence = n - 1
    <3>1. \E f \in {f1, f2} : f.sensor = i
      BY DEF LaserSensors
    <3>2. \A f \in {f1, f2} : f.sequence = n - 1
      OBVIOUS
    <3> QED BY <2>6, <3>1, <3>2
  <2> QED BY <1>2, <2>2, <2>5, <2>7
<1> QED BY <1>1, <1>2

(* A recorder that knows the scenario up to the last batch has every phase *)
(* change there was.                                                       *)
LEMMA AllTold ==
  ASSUME SettingsFit, ScenarioInOrder, NEW r \in Recorders, KnowsScenario(r, rotation)
  PROVE  Len(r.transitions) = Len(happened) /\ r.transitions = happened
<1> DEFINE now == rotation * settings.period
<1>1. /\ rotation \in Nat /\ happened \in Seq(PhaseChanges) /\ now \in Nat
      /\ r.transitions \in Seq(PhaseChanges)
      /\ Len(happened) \in Nat /\ Len(r.transitions) \in Nat
      /\ DOMAIN happened = 1 .. Len(happened)
  <2>1. rotation \in Nat /\ happened \in Seq(PhaseChanges)
    BY DEF ScenarioInOrder
  <2>2. r.transitions \in Seq(PhaseChanges)
    BY DEF Recorders
  <2>3. now \in Nat
    BY <2>1, Deadlines
  <2> QED BY <2>1, <2>2, <2>3, LenProperties
<1>2. \A i \in 1 .. Len(happened) : happened[i].at <= now /\ happened[i].at \in Nat
  <2>1. \A i \in 1 .. Len(happened) : happened[i] \in PhaseChanges
    BY <1>1, ElementOfSeq
  <2> QED BY <1>1, <2>1 DEF ScenarioInOrder, PhaseChanges
<1>3. /\ Len(r.transitions) <= Len(happened)
      /\ \A i \in 1 .. Len(happened) :
            IF i <= Len(r.transitions) THEN r.transitions[i] = happened[i]
                                       ELSE happened[i].at > now
  BY <1>1 DEF KnowsScenario
<1> HIDE DEF now
<1>4. Len(r.transitions) = Len(happened)
  <2>1. ASSUME Len(r.transitions) < Len(happened) PROVE FALSE
    <3>1. Len(happened) \in 1 .. Len(happened) /\ ~(Len(happened) <= Len(r.transitions))
      BY <1>1, <2>1
    <3> QED BY <1>1, <1>2, <1>3, <3>1
  <2> QED BY <1>1, <1>3, <2>1
<1>5. \A i \in 1 .. Len(happened) : r.transitions[i] = happened[i]
  BY <1>3, <1>4
<1> QED BY <1>1, <1>4, <1>5, SeqEqual

LEMMA ToldChanges ==
  ASSUME NEW r \in Recorders, NEW c \in Seq(PhaseChanges), NEW k \in 0 .. Len(c),
         NEW t, t = Told(r, c, k)
  PROVE  /\ t \in Recorders
         /\ Len(t.transitions) = Len(r.transitions) + k
         /\ \A i \in 1 .. Len(r.transitions) + k :
               t.transitions[i] = IF i <= Len(r.transitions) THEN r.transitions[i]
                                  ELSE c[i - Len(r.transitions)]
         /\ t.state = IF k = 0 THEN r.state ELSE c[k].to
         /\ t.expected = r.expected /\ t.observed = r.observed /\ t.lastBatch = r.lastBatch
         /\ t.samples = r.samples /\ t.batches = r.batches
         /\ t.nextSemantic = r.nextSemantic /\ t.sampled = r.sampled
         /\ t.reachedEnd = r.reachedEnd
<1> DEFINE first == SubSeq(c, 1, k)
<1>1. /\ r.transitions \in Seq(PhaseChanges) /\ Len(r.transitions) \in Nat
      /\ Len(c) \in Nat /\ k \in Nat /\ r.state \in Phases
  BY DEF Recorders
<1>2. \A i \in 1 .. Len(c) : c[i] \in PhaseChanges /\ c[i].to \in Phases
  <2>1. \A i \in 1 .. Len(c) : c[i] \in PhaseChanges
    BY ElementOfSeq
  <2> QED BY <2>1 DEF PhaseChanges
<1>3. /\ first \in Seq(PhaseChanges) /\ Len(first) = k
      /\ \A i \in 1 .. k : first[i] = c[i]
  <2>1. \A i \in 1 .. k : c[i] \in PhaseChanges
    BY <1>1, <1>2
  <2>2. /\ first \in Seq(PhaseChanges) /\ Len(first) = IF 1 <= k THEN k - 1 + 1 ELSE 0
        /\ \A i \in 1 .. k - 1 + 1 : first[i] = c[1 + i - 1]
    BY <1>1, <2>1, SubSeqProperties
  <2>3. k - 1 + 1 = k /\ \A i \in 1 .. k : 1 + i - 1 = i
    BY <1>1
  <2>4. Len(first) = k
    BY <1>1, <2>2
  <2>5. \A i \in 1 .. k : first[i] = c[i]
    BY <2>2, <2>3
  <2> QED BY <2>2, <2>4, <2>5
<1> HIDE DEF first
<1>4. /\ r.transitions \o first \in Seq(PhaseChanges)
      /\ Len(r.transitions \o first) = Len(r.transitions) + k
      /\ \A i \in 1 .. Len(r.transitions) + k :
            (r.transitions \o first)[i] = IF i <= Len(r.transitions) THEN r.transitions[i]
                                          ELSE c[i - Len(r.transitions)]
  <2>1. /\ r.transitions \o first \in Seq(PhaseChanges)
        /\ Len(r.transitions \o first) = Len(r.transitions) + k
        /\ \A i \in 1 .. Len(r.transitions) + k :
              (r.transitions \o first)[i] = IF i <= Len(r.transitions) THEN r.transitions[i]
                                            ELSE first[i - Len(r.transitions)]
    <3>1. r.transitions \in Seq(PhaseChanges) /\ first \in Seq(PhaseChanges) /\ Len(first) = k
      BY <1>1, <1>3
    <3> QED BY ONLY <3>1, ConcatProperties
  <2>2. \A i \in 1 .. Len(r.transitions) + k :
           i > Len(r.transitions) => i - Len(r.transitions) \in 1 .. k
    BY <1>1
  <2> QED BY <1>1, <1>3, <2>1, <2>2
<1>5. PICK a \in Seq(PhaseChanges), b \in Phases :
        /\ a = r.transitions \o first /\ b = IF k = 0 THEN r.state ELSE c[k].to
        /\ t = [r EXCEPT !.transitions = a, !.state = b]
  <2>1. t = [r EXCEPT !.transitions = r.transitions \o first,
                      !.state = IF k = 0 THEN r.state ELSE c[k].to]
    BY DEF Told, first
  <2>2. (IF k = 0 THEN r.state ELSE c[k].to) \in Phases
    BY <1>1, <1>2
  <2> QED BY <1>4, <2>1, <2>2
<1>6. /\ t \in Recorders /\ t.transitions = a /\ t.state = b
      /\ t.expected = r.expected /\ t.observed = r.observed /\ t.lastBatch = r.lastBatch
      /\ t.samples = r.samples /\ t.batches = r.batches
      /\ t.nextSemantic = r.nextSemantic /\ t.sampled = r.sampled
      /\ t.reachedEnd = r.reachedEnd
  BY <1>5 DEF Recorders
<1> QED BY <1>4, <1>5, <1>6

(* Why a phase change in its order can be refused.                         *)
LEMMA Refusal ==
  ASSUME SettingsFit, ScenarioInOrder, ScenarioInOrder',
         NEW s \in Recorders, KnowsScenario(s, rotation),
         NEW c \in Seq(PhaseChanges), Len(happened') = Len(happened) + Len(c),
         \A i \in 1 .. Len(happened') :
               happened'[i] = IF i <= Len(happened) THEN happened[i] ELSE c[i - Len(happened)],
         NEW k \in 1 .. Len(c), c[k].to = Phase(Len(happened) + k),
         k > 1 => c[k - 1].to = Phase(Len(happened) + (k - 1)),
         rotation * settings.period < c[k].at,
         c[k].at <= (rotation + 1) * settings.period,
         (rotation + 1) * settings.period <= End,
         Len(happened) + k <= TransitionCapacity, rotation > 1
  PROVE  TransitionError(Told(s, c, k - 1), c[k], (rotation + 1) * settings.period) = "none"
<1> DEFINE t == Told(s, c, k - 1)  h == Len(happened)
           now == rotation * settings.period  next == (rotation + 1) * settings.period
<1>1. /\ rotation \in Nat /\ h \in Nat /\ Len(c) \in Nat /\ k \in Nat /\ k - 1 \in 0 .. Len(c)
      /\ c[k].at \in Nat /\ TransitionCapacity \in Nat /\ h + k <= TransitionCapacity
      /\ Len(happened') = h + Len(c)
  <2>1. c[k] \in PhaseChanges
    BY ElementOfSeq
  <2>2. c[k].at \in Nat
    BY <2>1 DEF PhaseChanges
  <2>3. rotation \in Nat /\ happened \in Seq(PhaseChanges)
    BY DEF ScenarioInOrder
  <2>4. h \in Nat /\ Len(c) \in Nat
    BY <2>3, LenProperties
  <2>5. k \in Nat /\ k - 1 \in 0 .. Len(c)
    BY <2>4
  <2>6. TransitionCapacity \in Nat
    BY DurationsAreSeconds
  <2> QED BY <2>2, <2>3, <2>4, <2>5, <2>6
<1>2. now \in Nat /\ next \in Nat /\ now > 0 /\ now < c[k].at /\ c[k].at <= next /\ next <= End
  <2>1. now \in Nat /\ next \in Nat
    BY <1>1, Deadlines
  <2>2. now > 0
    BY <1>1, Deadlines
  <2> HIDE DEF now, next
  <2> QED BY <2>1, <2>2 DEF now, next
<1>3. s.transitions = happened /\ Len(s.transitions) = h
  BY AllTold
<1>4. /\ Len(t.transitions) = h + (k - 1)
      /\ \A i \in 1 .. h + (k - 1) :
            t.transitions[i] = IF i <= h THEN happened[i] ELSE c[i - h]
      /\ t.state = IF k - 1 = 0 THEN s.state ELSE c[k - 1].to
      /\ t.lastBatch = s.lastBatch
  <2>1. /\ Len(t.transitions) = Len(s.transitions) + (k - 1)
        /\ \A i \in 1 .. Len(s.transitions) + (k - 1) :
              t.transitions[i] = IF i <= Len(s.transitions) THEN s.transitions[i]
                                 ELSE c[i - Len(s.transitions)]
        /\ t.state = IF k - 1 = 0 THEN s.state ELSE c[k - 1].to
        /\ t.lastBatch = s.lastBatch
    <3> DEFINE m == k - 1
    <3>1. t = Told(s, c, m) /\ m \in 0 .. Len(c)
      BY <1>1
    <3> HIDE DEF t, m
    <3>0. s \in Recorders /\ c \in Seq(PhaseChanges)
      OBVIOUS
    <3>2. /\ Len(t.transitions) = Len(s.transitions) + m
          /\ \A i \in 1 .. Len(s.transitions) + m :
                t.transitions[i] = IF i <= Len(s.transitions) THEN s.transitions[i]
                                   ELSE c[i - Len(s.transitions)]
          /\ t.state = IF m = 0 THEN s.state ELSE c[m].to
          /\ t.lastBatch = s.lastBatch
      BY ONLY <3>0, <3>1, ToldChanges
    <3> QED BY <3>2 DEF m
  <2> HIDE DEF t
  <2> QED BY <1>3, <2>1
<1>5. t.lastBatch = now
  BY <1>1, <1>4 DEF KnowsScenario
<1>6. c[k].to = NextPhase(t.state)
  <2>1. t.state = Phase(h + (k - 1))
    <3>1. CASE k = 1
      <4>1. t.state = s.state /\ h + (k - 1) = h
        BY <1>1, <1>4, <3>1
      <4> QED BY <1>3, <4>1 DEF KnowsScenario
    <3>2. CASE k > 1
      <4>1. t.state = c[k - 1].to
        BY <1>1, <1>4, <3>2
      <4> QED BY <3>2, <4>1
    <3>3. k = 1 \/ k > 1
      BY <1>1
    <3> HIDE DEF t, h
    <3> QED BY <3>1, <3>2, <3>3
  <2>2. h + (k - 1) \in Nat /\ (h + (k - 1)) + 1 = h + k
    BY <1>1
  <2> QED BY <2>1, <2>2, PhasesFollow
<1>7. ASSUME t.transitions # <<>>
      PROVE  Last(t.transitions).at < c[k].at
  <2>1. h + (k - 1) \in 1 .. h + Len(c) /\ h + k \in 1 .. h + Len(c) /\ h + (k - 1) < h + k
    <3>1. h + (k - 1) # 0
      <4>1. ASSUME h + (k - 1) = 0 PROVE FALSE
        <5>1. t \in Recorders
          BY <1>1, ToldChanges
        <5>2. t.transitions \in Seq(PhaseChanges)
          BY <5>1 DEF Recorders
        <5> HIDE DEF t
        <5> QED BY <1>4, <1>7, <4>1, <5>2, EmptySeq
      <4> QED BY <4>1
    <3>2. k <= Len(c) /\ k >= 1
      BY <1>1
    <3>3. h \in Nat /\ k \in Nat /\ Len(c) \in Nat
      BY <1>1
    <3> HIDE DEF h, t
    <3> QED BY <3>1, <3>2, <3>3
  <2>2. happened'[h + (k - 1)].at < happened'[h + k].at
    <3>1. DOMAIN happened' = 1 .. h + Len(c)
      BY <1>1, LenProperties DEF ScenarioInOrder
    <3> QED BY <2>1, <3>1 DEF ScenarioInOrder
  <2>3. happened'[h + k] = c[k]
    <3>1. ~(h + k <= h) /\ (h + k) - h = k
      BY <1>1
    <3> QED BY <1>1, <2>1, <3>1
  <2>4. happened'[h + (k - 1)] = t.transitions[h + (k - 1)]
    <3>1. h + (k - 1) \in 1 .. h + (k - 1)
      BY <1>1, <2>1
    <3> QED BY <1>1, <1>4, <2>1, <3>1
  <2> QED BY <1>4, <2>2, <2>3, <2>4 DEF Last
<1>8. t.transitions # <<>> => Last(t.transitions).at \in Nat
  <2>1. t.transitions \in Seq(PhaseChanges)
    <3>1. t \in Recorders
      BY <1>1, ToldChanges
    <3> QED BY <3>1 DEF Recorders
  <2> HIDE DEF t
  <2>2. ASSUME t.transitions # <<>> PROVE Last(t.transitions) \in PhaseChanges
    <3>1. Len(t.transitions) \in 1 .. Len(t.transitions)
      BY <2>1, <2>2, EmptySeq
    <3> QED BY <2>1, <3>1, ElementOfSeq DEF Last
  <2> QED BY <2>2 DEF PhaseChanges
<1>9. End \in Nat
  BY WindowBounds
<1> HIDE DEF t, now, next, h
<1>10. /\ ~(Len(t.transitions) >= TransitionCapacity)
       /\ ~(c[k].at > End)
       /\ ~(t.transitions # <<>> /\ c[k].at <= Last(t.transitions).at)
       /\ ~(t.lastBatch = None \/ next = None)
       /\ ~(t.lastBatch >= c[k].at \/ next < c[k].at)
  <2>1. ~(Len(t.transitions) >= TransitionCapacity)
    BY <1>1, <1>4
  <2>2. ~(c[k].at > End)
    <3>1. c[k].at \in Nat /\ next \in Nat /\ c[k].at <= next /\ next <= End
      BY <1>1, <1>2
    <3> QED BY ONLY <1>9, <3>1
  <2>3. ~(t.transitions # <<>> /\ c[k].at <= Last(t.transitions).at)
    <3>1. c[k].at \in Nat
      BY <1>1
    <3> QED BY ONLY <1>7, <1>8, <3>1
  <2>4. ~(t.lastBatch = None \/ next = None)
    <3>1. now \in Nat /\ now > 0 /\ next \in Nat /\ now < c[k].at /\ c[k].at <= next
          /\ c[k].at \in Nat
      BY <1>1, <1>2
    <3>2. t.lastBatch # 0 /\ next # 0
      BY ONLY <1>5, <3>1
    <3> QED BY <3>2 DEF None
  <2>5. ~(t.lastBatch >= c[k].at \/ next < c[k].at)
    <3>1. /\ c[k].at \in Nat /\ next \in Nat /\ now \in Nat
          /\ now < c[k].at /\ c[k].at <= next
      BY <1>1, <1>2
    <3> QED BY ONLY <1>5, <3>1
  <2> QED BY <2>1, <2>2, <2>3, <2>4, <2>5
<1>11. TransitionError(t, c[k], next) = "none"
  BY <1>6, <1>10 DEF TransitionError
<1> QED BY <1>11 DEF t, next

(* A batch with the phase changes c comes in, and what there can be to     *)
(* blame when it is refused.                                               *)
Brings(c) ==
  /\ SettingsFit /\ ScenarioInOrder /\ ScenarioInOrder'
  /\ settings' = settings /\ rotation' = rotation + 1 /\ c \in Seq(PhaseChanges)
  /\ \A k \in 1 .. Len(c) : /\ c[k].to = Phase(Len(happened) + k)
                            /\ rotation * settings.period < c[k].at
                            /\ c[k].at <= (rotation + 1) * settings.period
  /\ Len(happened') = Len(happened) + Len(c)
  /\ \A i \in 1 .. Len(happened') :
        happened'[i] = IF i <= Len(happened) THEN happened[i] ELSE c[i - Len(happened)]

Reasons ==
  \/ settings.period > Start
  \/ End % settings.period # 0
  \/ \E i \in DOMAIN happened : happened[i].at <= 2 * settings.period
  \/ \E i \in ChangesInWindow : i > TransitionCapacity

LEMMA RefusedFor ==
  ASSUME NEW c, Brings(c), NEW s \in Recorders, KnowsScenario(s, rotation),
         NEW k \in 1 .. Len(c), (rotation + 1) * settings.period <= End, NEW after,
         after = IF rotation + 1 = 1 THEN None ELSE (rotation + 1) * settings.period,
         TransitionError(Told(s, c, k - 1), c[k], after) # "none"
  PROVE  Reasons'
<1> DEFINE h == Len(happened)
<1>1. /\ rotation \in Nat /\ h \in Nat /\ Len(c) \in Nat /\ k \in Nat /\ 1 <= k /\ k <= Len(c)
      /\ happened' \in Seq(PhaseChanges) /\ settings' = settings
  <2>1. /\ rotation \in Nat /\ happened \in Seq(PhaseChanges) /\ c \in Seq(PhaseChanges)
        /\ happened' \in Seq(PhaseChanges) /\ settings' = settings
    BY DEF Brings, ScenarioInOrder
  <2>2. h \in Nat /\ Len(c) \in Nat
    BY <2>1, LenProperties
  <2> QED BY <2>1, <2>2
<1>2. /\ Len(happened') = h + Len(c) /\ DOMAIN happened' = 1 .. h + Len(c)
      /\ h + k \in 1 .. h + Len(c) /\ ~(h + k <= h) /\ (h + k) - h = k
  <2>1. Len(happened') = h + Len(c)
    BY DEF Brings
  <2>2. DOMAIN happened' = 1 .. h + Len(c)
    BY <1>1, <2>1, LenProperties
  <2> HIDE DEF h
  <2> QED BY <1>1, <2>1, <2>2
<1>3. happened'[h + k] = c[k]
  <2>1. happened'[h + k] = IF h + k <= h THEN happened[h + k] ELSE c[(h + k) - h]
    BY <1>2 DEF Brings
  <2> HIDE DEF h
  <2> QED BY <1>2, <2>1
<1>4. /\ c[k].to = Phase(h + k) /\ rotation * settings.period < c[k].at
      /\ c[k].at <= (rotation + 1) * settings.period
  BY DEF Brings
<1>5. CASE rotation <= 1
  <2> DEFINE next == (rotation + 1) * settings.period
  <2>1. next \in Nat /\ 2 * settings.period \in Nat /\ next <= 2 * settings.period
    <3>1. settings.period \in Nat \ {0}
      BY WindowBounds DEF Brings
    <3>2. rotation + 1 \in Nat /\ rotation + 1 <= 2
      BY <1>1, <1>5
    <3> QED BY <3>1, <3>2, Multiples
  <2>2. c[k].at \in Nat
    <3>1. c[k] \in PhaseChanges
      BY ElementOfSeq DEF Brings
    <3> QED BY <3>1 DEF PhaseChanges
  <2>3. c[k].at <= next
    BY <1>4
  <2> DEFINE twice == 2 * settings.period
  <2> HIDE DEF next, twice
  <2>4. c[k].at <= twice
    BY <2>1, <2>2, <2>3 DEF twice
  <2>5. happened'[h + k].at <= 2 * settings'.period
    BY <1>1, <1>3, <2>4 DEF twice
  <2> QED BY <1>2, <2>5 DEF Reasons
<1>6. CASE rotation > 1
  <2>1. after = (rotation + 1) * settings.period
    BY <1>1, <1>6
  <2>2. k > 1 => c[k - 1].to = Phase(h + (k - 1))
    <3>1. k > 1 => k - 1 \in 1 .. Len(c)
      BY <1>1
    <3> QED BY <3>1 DEF Brings
  <2>3. ASSUME h + k <= TransitionCapacity PROVE FALSE
    <3>1. TransitionError(Told(s, c, k - 1), c[k], (rotation + 1) * settings.period) = "none"
      <4>1. /\ SettingsFit /\ ScenarioInOrder /\ ScenarioInOrder' /\ c \in Seq(PhaseChanges)
            /\ Len(happened') = Len(happened) + Len(c)
            /\ \A i \in 1 .. Len(happened') : happened'[i] =
                  IF i <= Len(happened) THEN happened[i] ELSE c[i - Len(happened)]
        BY DEF Brings
      <4> QED BY <1>4, <1>6, <2>2, <2>3, <4>1, Refusal
    <3> QED BY <2>1, <3>1
  <2>4. h + k > TransitionCapacity
    <3>1. TransitionCapacity \in Nat
      BY DurationsAreSeconds
    <3> HIDE DEF h
    <3> QED BY <1>1, <2>3, <3>1
  <2>5. happened'[h + k].at <= End'
    <3>1. c[k].at \in Nat
      <4>1. c[k] \in PhaseChanges
        BY ElementOfSeq DEF Brings
      <4> QED BY <4>1 DEF PhaseChanges
    <3>2. (rotation + 1) * settings.period \in Nat /\ End \in Nat
      BY <1>1, Deadlines, WindowBounds DEF Brings
    <3>3. End' = End
      BY <1>1 DEF End
    <3> DEFINE next == (rotation + 1) * settings.period
    <3>4. c[k].at <= next /\ next <= End /\ next \in Nat
      BY <1>4, <3>2
    <3> HIDE DEF next
    <3>5. c[k].at <= End
      BY <3>1, <3>2, <3>4
    <3> QED BY <1>3, <3>3, <3>5
  <2>6. h + k \in ChangesInWindow'
    BY <1>2, <2>5 DEF ChangesInWindow
  <2> QED BY <2>4, <2>6 DEF Reasons
<1> QED BY <1>1, <1>5, <1>6

Else(x, y) ==
  /\ x.expected = y.expected /\ x.samples = y.samples /\ x.batches = y.batches
  /\ x.nextSemantic = y.nextSemantic /\ x.sampled = y.sampled /\ x.reachedEnd = y.reachedEnd

LEMMA ScenarioStep ==
  ASSUME NEW c, Brings(c), NEW s \in Recorders, KnowsScenario(s, rotation),
         (rotation + 1) * settings.period <= End, NEW after,
         after = IF rotation + 1 = 1 THEN None ELSE (rotation + 1) * settings.period,
         NEW n, n = rotation + 1,
         NEW x, x = RecordScenario(s, (rotation + 1) * settings.period, after, c)
  PROVE  \/ x.error # "none" /\ Reasons'
         \/ \E y \in Recorders : /\ x = [recorder |-> y, error |-> "none"]
                                 /\ KnowsScenario(y, n)' /\ Else(y, s)
<1> DEFINE next == (rotation + 1) * settings.period
           Error(k) == TransitionError(Told(s, c, k - 1), c[k], after)
           refused == {k \in DOMAIN c : Error(k) # "none"}
<1>1. /\ SettingsFit /\ ScenarioInOrder /\ ScenarioInOrder' /\ settings' = settings
      /\ c \in Seq(PhaseChanges) /\ rotation \in Nat /\ rotation' = rotation + 1
      /\ happened \in Seq(PhaseChanges) /\ happened' \in Seq(PhaseChanges)
  BY DEF Brings, ScenarioInOrder
<1>2. /\ DOMAIN c = 1 .. Len(c) /\ Len(c) \in Nat /\ Len(happened) \in Nat
      /\ DOMAIN happened' = 1 .. Len(happened') /\ Len(happened') = Len(happened) + Len(c)
  <2>1. Len(happened') = Len(happened) + Len(c)
    BY DEF Brings
  <2> QED BY <1>1, <2>1, LenProperties
<1>3. ~(next < s.observed \/ next > End)
  <2>1. s.observed = rotation * settings.period
    BY DEF KnowsScenario
  <2>2. /\ rotation * settings.period \in Nat /\ next \in Nat /\ End \in Nat
        /\ rotation * settings.period < next
    BY <1>1, Deadlines, WindowBounds
  <2> QED BY <2>1, <2>2
<1>4. CASE refused # {}
  <2>1. Min(refused) \in refused
    <3>1. refused \in SUBSET Nat
      BY <1>2
    <3> QED BY <1>4, <3>1, LeastIsThere
  <2>2. x.error = Error(Min(refused))
    BY <1>3, <1>4 DEF RecordScenario
  <2>3. PICK k \in 1 .. Len(c) : x.error = Error(k) /\ Error(k) # "none"
    BY <1>2, <2>1, <2>2
  <2>4. Reasons'
    BY <2>3, RefusedFor
  <2> QED BY <2>3, <2>4
<1>5. CASE refused = {}
  <2> DEFINE t == Told(s, c, Len(c))
             last == IF after = None THEN t.lastBatch ELSE after
             z == [t EXCEPT !.observed = next, !.lastBatch = last]
  <2>1. x = [recorder |-> z, error |-> "none"]
    BY <1>3, <1>5 DEF RecordScenario
  <2>2. s.transitions = happened /\ Len(s.transitions) = Len(happened)
    BY <1>1, AllTold
  <2>3. /\ t \in Recorders
        /\ Len(t.transitions) = Len(s.transitions) + Len(c)
        /\ \A i \in 1 .. Len(s.transitions) + Len(c) :
              t.transitions[i] = IF i <= Len(s.transitions) THEN s.transitions[i]
                                 ELSE c[i - Len(s.transitions)]
        /\ t.state = IF Len(c) = 0 THEN s.state ELSE c[Len(c)].to
        /\ t.lastBatch = s.lastBatch /\ Else(t, s)
    <3>1. Len(c) \in 0 .. Len(c)
      BY <1>2
    <3> QED BY <1>1, <3>1, ToldChanges DEF Else
  <2> HIDE DEF t
  <2>4. next \in Nat /\ after \in Nat /\ last \in Nat
    <3>1. next \in Nat
      BY <1>1, Deadlines
    <3>2. t.lastBatch \in Nat
      BY <2>3 DEF Recorders
    <3> HIDE DEF next
    <3>3. after \in Nat
      BY <3>1 DEF None, next
    <3> QED BY <3>1, <3>2, <3>3
  <2> HIDE DEF next, last
  <2>5. PICK y \in Recorders :
          /\ x = [recorder |-> y, error |-> "none"] /\ y.observed = next /\ y.lastBatch = last
          /\ y.transitions = t.transitions /\ y.state = t.state /\ Else(y, t)
    <3>1. /\ z \in Recorders /\ z.observed = next /\ z.lastBatch = last
          /\ z.transitions = t.transitions /\ z.state = t.state /\ Else(z, t)
      BY <2>3, <2>4 DEF Recorders, Else
    <3> HIDE DEF z
    <3> QED BY <2>1, <3>1
  <2>6. Else(y, s)
    BY <2>3, <2>5 DEF Else
  <2>7. \A i \in 1 .. Len(happened') : y.transitions[i] = happened'[i]
    <3>1. \A i \in 1 .. Len(happened') : t.transitions[i] =
                  IF i <= Len(happened) THEN happened[i] ELSE c[i - Len(happened)]
      BY <1>2, <2>2, <2>3
    <3> QED BY <2>5, <3>1 DEF Brings
  <2>8. Len(y.transitions) = Len(happened')
    BY <1>2, <2>2, <2>3, <2>5
  <2>9. y.state = Phase(Len(happened'))
    <3>1. CASE Len(c) = 0
      <4>1. y.state = s.state /\ Len(happened') = Len(happened)
        BY <1>2, <2>3, <2>5, <3>1
      <4> QED BY <2>2, <4>1 DEF KnowsScenario
    <3>2. CASE Len(c) # 0
      <4>1. y.state = c[Len(c)].to /\ Len(c) \in 1 .. Len(c)
        BY <1>2, <2>3, <2>5, <3>2
      <4>2. c[Len(c)].to = Phase(Len(happened) + Len(c))
        BY <4>1 DEF Brings
      <4> QED BY <1>2, <4>1, <4>2
    <3> QED BY <3>1, <3>2
  <2>10. y.lastBatch = IF n <= 1 THEN None ELSE next
    <3>1. CASE rotation = 0
      <4>1. after = None /\ last = s.lastBatch
        BY <2>3, <3>1 DEF last
      <4>2. s.lastBatch = None
        BY <3>1 DEF KnowsScenario
      <4> QED BY <2>5, <3>1, <4>1, <4>2
    <3>2. CASE rotation # 0
      <4>1. after = next /\ ~(n <= 1)
        BY <1>1, <3>2 DEF next
      <4>2. next # None
        <5>1. rotation + 1 > 0 /\ rotation + 1 \in Nat
          BY <1>1
        <5> DEFINE m == rotation + 1
        <5>2. m \in Nat /\ m > 0
          BY <5>1
        <5> HIDE DEF m
        <5>3. m * settings.period \in Nat /\ m * settings.period > 0
          BY <1>1, <5>2, Deadlines
        <5>4. m * settings.period # 0
          <6> DEFINE e == m * settings.period
          <6> HIDE DEF e
          <6> QED BY <5>3 DEF e
        <5> QED BY <5>4 DEF next, None, m
      <4> QED BY <2>5, <4>1, <4>2 DEF last
    <3> QED BY <3>1, <3>2
  <2>11. \A i \in DOMAIN happened' : happened'[i].at <= n * settings'.period
    BY <1>1 DEF ScenarioInOrder
  <2>12. next = n * settings'.period
    BY <1>1 DEF next
  <2>13. KnowsScenario(y, n)'
    <3>1. Len(happened') \in Nat
      BY <1>2
    <3>2. \A i \in DOMAIN happened' : /\ i <= Len(y.transitions)
                                      /\ y.transitions[i] = happened'[i]
      BY <1>2, <2>7, <2>8, <3>1
    <3>3. Len(y.transitions) <= Len(happened')
      BY <2>8, <3>1
    <3> QED BY <2>5, <2>8, <2>9, <2>10, <2>11, <2>12, <3>2, <3>3 DEF KnowsScenario
  <2> QED BY <2>5, <2>6, <2>13
<1> QED BY <1>4, <1>5

LEMMA Continued ==
  ASSUME NEW m \in Nat, NEW g \in [1 .. m + 1 -> Nat], NEW a, a = [j \in 1 .. m |-> g[j]]
  PROVE  Append(a, g[m + 1]) = g /\ g \in Seq(Nat)
<1>1. a \in Seq(Nat) /\ Len(a) = m
  <2>1. a \in [1 .. m -> Nat]
    OBVIOUS
  <2> QED BY <2>1
<1>2. g \in Seq(Nat) /\ Len(g) = m + 1 /\ g[m + 1] \in Nat
  <2>1. m + 1 \in Nat /\ m + 1 \in 1 .. m + 1
    OBVIOUS
  <2> QED BY <2>1
<1> DEFINE b == Append(a, g[m + 1])
<1>3. /\ b \in Seq(Nat) /\ Len(b) = m + 1
      /\ \A j \in 1 .. m : b[j] = a[j]
      /\ b[m + 1] = g[m + 1]
  BY <1>1, <1>2, AppendProperties
<1> HIDE DEF b
<1>4. \A j \in 1 .. m + 1 : b[j] = g[j]
  <2>1. \A j \in 1 .. m : b[j] = g[j]
    BY <1>3
  <2>2. \A j \in 1 .. m + 1 : j \in 1 .. m \/ j = m + 1
    OBVIOUS
  <2> QED BY <1>3, <2>1, <2>2
<1>5. b = g
  BY <1>2, <1>3, <1>4, SeqEqual
<1> QED BY <1>2, <1>5 DEF b

(* The samples of a batch that lies in the window.                         *)
WithSamples(x, y, n) ==
  \E w \in Recorders :
    /\ x = [recorder |-> w, error |-> "none"]
    /\ KnowsBatches(w, n) /\ w.reachedEnd = y.reachedEnd
    /\ w.observed = y.observed /\ w.lastBatch = y.lastBatch /\ w.state = y.state
    /\ w.transitions = y.transitions /\ w.expected = y.expected
    /\ w.nextSemantic = y.nextSemantic /\ w.sampled = y.sampled

LEMMA SamplesStep ==
  ASSUME SettingsFit, NEW q \in Nat, NEW n, n = q + 1, n * settings.period <= End,
         NEW y \in Recorders, KnowsBatches(y, q), NEW d, d = n * settings.period,
         NEW x, x = RecordSamples([recorder |-> y, error |-> "none"], d, Frames(n))
  PROVE  \/ x.error # "none" /\ settings.period > Start
         \/ WithSamples(x, y, n)
<1> DEFINE z == [recorder |-> y, error |-> "none"]
           fin == End \div settings.period
<1>1. /\ n \in Nat \ {0} /\ n \in Nat /\ n - 1 = q /\ q < n
      /\ n = 1 <=> q = 0
  OBVIOUS
<1>2. /\ d \in Nat /\ Before \in Nat /\ fin \in Nat /\ Start \in Nat /\ n <= fin
      /\ settings.capacity \in Nat /\ fin - Before <= settings.capacity
      /\ Measures(d) <=> n > Before
  <2>1. /\ d \in Nat /\ (d > Start <=> n > Before) /\ (d <= End <=> n <= fin)
        /\ Before \in Nat /\ fin \in Nat /\ Start \in Nat
        /\ settings.capacity \in Nat /\ fin - Before <= settings.capacity
    BY <1>1, WindowBounds
  <2> QED BY <2>1 DEF Measures
<1>3. /\ y.expected = ExpectedSamples(settings)
      /\ Measured(q) > 0 => Before >= 1
      /\ y.batches = [j \in 1 .. Measured(q) |-> (Before + j) * settings.period]
      /\ \A i \in LaserSensors : y.samples[i] = [j \in 1 .. Measured(q) |-> Before + j - 1]
  BY DEF KnowsBatches
<1>4. /\ Measured(q) \in Nat /\ y.batches \in Seq(Nat) /\ Len(y.batches) = Measured(q)
      /\ \A i \in LaserSensors : y.samples[i] \in Seq(Nat) /\ Len(y.samples[i]) = Measured(q)
  <2>1. Measured(q) \in Nat
    BY <1>2 DEF Measured
  <2>2. y.batches \in Seq(Nat) /\ y.samples \in [LaserSensors -> Seq(Nat)]
    BY DEF Recorders
  <2>3. \A i \in LaserSensors : y.samples[i] \in Seq(Nat)
    BY <2>2
  <2>4. Len(y.batches) = Measured(q)
    <3>1. DOMAIN y.batches = 1 .. Measured(q)
      BY <1>3
    <3> QED BY <2>1, <2>2, <3>1, LenProperties
  <2>5. ASSUME NEW i \in LaserSensors PROVE Len(y.samples[i]) = Measured(q)
    <3>1. DOMAIN y.samples[i] = 1 .. Measured(q)
      BY <1>3
    <3> QED BY <2>1, <2>3, <3>1, LenProperties
  <2> QED BY <2>1, <2>2, <2>3, <2>4, <2>5
<1>5. CASE ~Measures(d)
  <2>1. x = z
    BY <1>5 DEF RecordSamples
  <2>2. Measured(n) = 0 /\ Measured(q) = 0
    BY <1>1, <1>2, <1>5 DEF Measured
  <2>3. KnowsBatches(y, n)
    BY <2>2 DEF KnowsBatches
  <2> QED BY <2>1, <2>3 DEF WithSamples
<1>6. CASE Measures(d) /\ n = 1
  <2>1. x.error = "missing sensor"
    BY <1>1, <1>6, FramesOfBatch DEF RecordSamples
  <2>2. d = settings.period
    BY <1>6, WindowBounds
  <2>3. settings.period > Start
    BY <1>6, <2>2 DEF Measures
  <2> QED BY <2>1, <2>3
<1>7. CASE Measures(d) /\ n # 1
  <2>1. n > Before /\ Measured(n) = n - Before /\ Measured(q) = q - Before /\ q >= Before
        /\ Measured(n) = Measured(q) + 1 /\ Before + Measured(n) = n
    BY <1>1, <1>2, <1>7 DEF Measured
  <2>2. Before >= 1
    BY <1>1, <1>2, <1>3, <1>7, <2>1
  <2>3. Frames(n) # <<>>
        /\ \A i \in LaserSensors :
              (CHOOSE f \in ToSet(Frames(n)) : f.sensor = i).sequence = n - 1
    BY <1>1, <1>7, FramesOfBatch
  <2>4. ~(Len(y.batches) >= settings.capacity)
    BY <1>1, <1>2, <1>4, <2>1
  <2>5. SequencesContinue(y, Frames(n))
    <3>1. SUFFICES ASSUME NEW i \in DOMAIN Frames(n), y.samples[Frames(n)[i].sensor] # <<>>
                   PROVE  Frames(n)[i].sequence = Last(y.samples[Frames(n)[i].sensor]) + 1
      BY DEF SequencesContinue
    <3>2. Frames(n)[i].sensor \in LaserSensors /\ Frames(n)[i].sequence = n - 1
      BY <1>7 DEF Frames, LaserSensors
    <3> DEFINE kept == y.samples[Frames(n)[i].sensor]
    <3>3. /\ kept \in Seq(Nat) /\ Len(kept) = Measured(q)
          /\ kept = [j \in 1 .. Measured(q) |-> Before + j - 1]
      BY <1>3, <1>4, <3>2
    <3>4. Measured(q) \in 1 .. Measured(q)
      <4>1. Measured(q) # 0
        <5> HIDE DEF kept
        <5>1. kept # <<>>
          BY <3>1 DEF kept
        <5> QED BY <3>3, <5>1, EmptySeq
      <4> QED BY <1>4, <4>1
    <3>5. Last(kept) = Before + Measured(q) - 1
      <4> HIDE DEF kept
      <4> QED BY <3>3, <3>4 DEF Last
    <3>6. Last(kept) = q - 1
      BY <1>2, <2>1, <3>5
    <3> QED BY <1>1, <3>2, <3>6
  <2> DEFINE b == Append(y.batches, d)
             s == [i \in LaserSensors |-> Append(y.samples[i], n - 1)]
             w == [y EXCEPT !.batches = b, !.samples = s]
  <2>6. x = [recorder |-> w, error |-> "none"]
    <3>1. z.recorder = y
      OBVIOUS
    <3>2. x = [z EXCEPT
            !.recorder.batches = b,
            !.recorder.samples = [i \in LaserSensors |->
                Append(y.samples[i], (CHOOSE f \in ToSet(Frames(n)) : f.sensor = i).sequence)]]
      BY <1>7, <2>3, <2>4, <2>5, <3>1 DEF RecordSamples
    <3>3. s = [i \in LaserSensors |->
                Append(y.samples[i], (CHOOSE f \in ToSet(Frames(n)) : f.sensor = i).sequence)]
      BY <2>3
    <3> HIDE DEF b, s
    <3> QED BY <3>2, <3>3
  <2>7. /\ b \in Seq(Nat) /\ s \in [LaserSensors -> Seq(Nat)]
        /\ b = [j \in 1 .. Measured(n) |-> (Before + j) * settings.period]
        /\ \A i \in LaserSensors : s[i] = [j \in 1 .. Measured(n) |-> Before + j - 1]
    <3> DEFINE m == Measured(q)
               B == [j \in 1 .. m + 1 |-> (Before + j) * settings.period]
               S == [j \in 1 .. m + 1 |-> Before + j - 1]
    <3>1. B \in [1 .. m + 1 -> Nat] /\ B[m + 1] = d
      <4>1. \A j \in 1 .. m + 1 : Before + j \in Nat
        BY <1>2, <1>4
      <4>2. \A j \in 1 .. m + 1 : (Before + j) * settings.period \in Nat
        BY <4>1, Deadlines
      <4>3. Before + (m + 1) = n /\ m + 1 \in 1 .. m + 1
        BY <1>4, <2>1
      <4> HIDE DEF m
      <4> QED BY <4>2, <4>3
    <3>2. S \in [1 .. m + 1 -> Nat] /\ S[m + 1] = n - 1
      <4>1. \A j \in 1 .. m + 1 : Before + j - 1 \in Nat
        BY <1>2, <1>4
      <4>2. Before + (m + 1) - 1 = n - 1 /\ m + 1 \in 1 .. m + 1
        BY <1>2, <1>4, <2>1
      <4> HIDE DEF m
      <4> QED BY <4>1, <4>2
    <3>3. y.batches = [j \in 1 .. m |-> B[j]]
      <4>1. \A j \in 1 .. m : j \in 1 .. m + 1
        BY <1>4
      <4> QED BY <1>3, <4>1
    <3>4. \A i \in LaserSensors : y.samples[i] = [j \in 1 .. m |-> S[j]]
      <4>1. \A j \in 1 .. m : j \in 1 .. m + 1
        BY <1>4
      <4> QED BY <1>3, <4>1
    <3>5. m \in Nat
      BY <1>4
    <3> HIDE DEF B, S, m
    <3>6. b = B /\ B \in Seq(Nat)
      BY <3>1, <3>3, <3>5, Continued
    <3>7. ASSUME NEW i \in LaserSensors PROVE s[i] = S /\ S \in Seq(Nat)
      <4>1. Append(y.samples[i], S[m + 1]) = S /\ S \in Seq(Nat)
        BY <3>2, <3>4, <3>5, Continued
      <4> QED BY <3>2, <4>1
    <3>8. m + 1 = Measured(n)
      BY <2>1 DEF m
    <3>9. s \in [LaserSensors -> Seq(Nat)]
      BY <3>7
    <3> QED BY <3>6, <3>7, <3>8, <3>9 DEF B, S
  <2> HIDE DEF b, s
  <2>8. /\ w \in Recorders /\ w.batches = b /\ w.samples = s
        /\ w.expected = y.expected /\ w.observed = y.observed /\ w.lastBatch = y.lastBatch
        /\ w.state = y.state /\ w.transitions = y.transitions
        /\ w.nextSemantic = y.nextSemantic /\ w.sampled = y.sampled
        /\ w.reachedEnd = y.reachedEnd
    BY <2>7 DEF Recorders
  <2> HIDE DEF w
  <2>9. KnowsBatches(w, n)
    BY <1>3, <2>2, <2>7, <2>8 DEF KnowsBatches
  <2> QED BY <2>6, <2>8, <2>9 DEF WithSamples
<1> QED BY <1>5, <1>6, <1>7

(* What does not depend on the scenario stays as it is for the same        *)
(* settings.                                                               *)
LEMMA SameSettings ==
  ASSUME settings' = settings, NEW r, NEW q
  PROVE  /\ KnowsBatches(r, q)' <=> KnowsBatches(r, q)
         /\ KnowsSemantics(r, q)' <=> KnowsSemantics(r, q)
         /\ End' = End /\ Start' = Start
BY DEF KnowsBatches, KnowsSemantics, Before, Measured, ExpectedSamples, Start, End

(* A batch past the end: its phase changes are not recorded, and they are  *)
(* past what was recorded.                                                 *)
LEMMA ScenarioKept ==
  ASSUME NEW c, Brings(c), NEW q, q = rotation, NEW r \in Recorders, KnowsScenario(r, q),
         NEW y \in Recorders, y.observed = r.observed, y.lastBatch = r.lastBatch,
         y.state = r.state, y.transitions = r.transitions
  PROVE  KnowsScenario(y, q)'
<1>1. /\ SettingsFit /\ ScenarioInOrder /\ ScenarioInOrder' /\ settings' = settings
      /\ c \in Seq(PhaseChanges) /\ happened \in Seq(PhaseChanges)
      /\ happened' \in Seq(PhaseChanges)
  BY DEF Brings, ScenarioInOrder
<1>2. /\ Len(c) \in Nat /\ Len(happened) \in Nat
      /\ DOMAIN happened' = 1 .. Len(happened') /\ Len(happened') = Len(happened) + Len(c)
      /\ DOMAIN happened = 1 .. Len(happened)
  <2>1. Len(happened') = Len(happened) + Len(c)
    BY DEF Brings
  <2> QED BY <1>1, <2>1, LenProperties
<1>3. y.transitions = happened /\ Len(y.transitions) = Len(happened)
  BY <1>1, AllTold
<1>4. ASSUME NEW i \in 1 .. Len(happened')
      PROVE  IF i <= Len(y.transitions)
             THEN y.transitions[i] = happened'[i] /\ happened'[i].at <= q * settings'.period
             ELSE happened'[i].at > q * settings'.period
  <2>1. CASE i <= Len(happened)
    <3>1. i \in 1 .. Len(happened) /\ happened'[i] = happened[i]
      BY <1>2, <2>1 DEF Brings
    <3>2. happened[i].at <= q * settings.period
      BY <1>2, <3>1 DEF Brings, ScenarioInOrder
    <3> QED BY <1>1, <1>3, <2>1, <3>1, <3>2
  <2>2. CASE i > Len(happened)
    <3>1. i - Len(happened) \in 1 .. Len(c) /\ ~(i <= Len(happened))
      BY <1>2, <2>2
    <3>2. happened'[i] = c[i - Len(happened)]
      BY <3>1 DEF Brings
    <3>3. q * settings.period < c[i - Len(happened)].at
      BY <3>1 DEF Brings
    <3>4. c[i - Len(happened)].at \in Nat
      <4>1. c[i - Len(happened)] \in PhaseChanges
        BY <1>1, <3>1, ElementOfSeq
      <4> QED BY <4>1 DEF PhaseChanges
    <3>5. q * settings.period \in Nat
      BY <1>1, Deadlines DEF ScenarioInOrder
    <3>6. happened'[i].at > q * settings.period
      BY <3>2, <3>3, <3>4, <3>5
    <3> QED BY <1>1, <1>3, <3>1, <3>6
  <2> QED BY <1>2, <2>1, <2>2
<1>5. Len(y.transitions) <= Len(happened')
  BY <1>2, <1>3
<1> QED BY <1>1, <1>2, <1>4, <1>5 DEF KnowsScenario

LEMMA BatchStep ==
  ASSUME NEW c, Brings(c), NEW q, q = rotation, NEW n, n = rotation + 1,
         NEW d, d = n * settings.period, KnowsRun(recorder, q), ~recorder.reachedEnd,
         NEW x, x = RecordBatch(WithSemantics(recorder, d), d, Frames(n), c)
  PROVE  \/ x.error # "none" /\ Reasons'
         \/ /\ x.error = "none" /\ d <= End /\ ~x.recorder.reachedEnd
            /\ KnowsRun(x.recorder, n)'
         \/ /\ x.error = "none" /\ d > End /\ x.recorder.reachedEnd
            /\ KnowsRun(x.recorder, q)'
<1>1. /\ SettingsFit /\ settings' = settings /\ q \in Nat /\ n = q + 1 /\ n \in Nat \ {0}
      /\ recorder \in Recorders /\ c \in Seq(PhaseChanges)
      /\ KnowsScenario(recorder, q) /\ KnowsBatches(recorder, q)
      /\ KnowsSemantics(recorder, q) /\ q * settings.period <= End
  BY DEF Brings, ScenarioInOrder, KnowsRun
<1>2. d \in Nat /\ q * settings.period \in Nat /\ End \in Nat /\ Start \in Nat
  BY <1>1, Deadlines, WindowBounds
<1>3. CASE d > End
  <2>1. WithSemantics(recorder, d) = recorder
    BY <1>2, <1>3 DEF WithSemantics, Measures
  <2>2. x = [recorder |-> [recorder EXCEPT !.reachedEnd = TRUE], error |-> "none"]
    BY <1>3, <2>1 DEF RecordBatch
  <2>3. PICK y \in Recorders :
          /\ x = [recorder |-> y, error |-> "none"]
          /\ y.reachedEnd = TRUE
          /\ y.observed = recorder.observed /\ y.lastBatch = recorder.lastBatch
          /\ y.state = recorder.state /\ y.transitions = recorder.transitions
          /\ y.expected = recorder.expected /\ y.samples = recorder.samples
          /\ y.batches = recorder.batches /\ y.nextSemantic = recorder.nextSemantic
          /\ y.sampled = recorder.sampled
    <3> DEFINE v == [recorder EXCEPT !.reachedEnd = TRUE]
    <3>1. /\ v \in Recorders
          /\ v.reachedEnd = TRUE
          /\ v.observed = recorder.observed /\ v.lastBatch = recorder.lastBatch
          /\ v.state = recorder.state /\ v.transitions = recorder.transitions
          /\ v.expected = recorder.expected /\ v.samples = recorder.samples
          /\ v.batches = recorder.batches /\ v.nextSemantic = recorder.nextSemantic
          /\ v.sampled = recorder.sampled
      BY <1>1 DEF Recorders
    <3> HIDE DEF v
    <3> QED BY <2>2, <3>1 DEF v
  <2>4. KnowsScenario(y, q)'
    BY <1>1, <2>3, ScenarioKept
  <2>5. KnowsBatches(y, q) /\ KnowsSemantics(y, q)
    BY <1>1, <2>3 DEF KnowsBatches, KnowsSemantics
  <2>6. KnowsRun(y, q)'
    BY <1>1, <2>4, <2>5, SameSettings DEF KnowsRun
  <2> QED BY <1>3, <2>3, <2>6
<1>4. CASE d <= End
  <2> DEFINE s == WithSemantics(recorder, d)
             after == IF Frames(n) = <<>> THEN None ELSE d
             told == RecordScenario(s, d, after, c)
  <2>1. /\ s \in Recorders /\ KnowsSemantics(s, n) /\ KnowsScenario(s, q)
        /\ KnowsBatches(s, q) /\ ~s.reachedEnd
    BY <1>1, <1>4, SemanticsStep
  <2>2. BatchError(Frames(n)) = "none" /\ (n = 1 <=> Frames(n) = <<>>)
    BY <1>1, FramesOfBatch
  <2>3. x = IF told.error # "none" THEN told ELSE RecordSamples(told, d, Frames(n))
    BY <1>2, <1>4, <2>2 DEF RecordBatch
  <2>4. after = IF rotation + 1 = 1 THEN None ELSE (rotation + 1) * settings.period
    BY <2>2
  <2>5. \/ told.error # "none" /\ Reasons'
        \/ \E y \in Recorders : /\ told = [recorder |-> y, error |-> "none"]
                                /\ KnowsScenario(y, n)' /\ Else(y, s)
    <3>1. KnowsScenario(s, rotation)
      BY <2>1
    <3>2. (rotation + 1) * settings.period <= End /\ d = (rotation + 1) * settings.period
      BY <1>4
    <3> HIDE DEF s, after
    <3>3. told = RecordScenario(s, (rotation + 1) * settings.period, after, c)
      BY <3>2
    <3> HIDE DEF told
    <3> QED BY <2>1, <2>4, <3>1, <3>2, <3>3, ScenarioStep
  <2>6. CASE told.error # "none"
    <3> HIDE DEF told
    <3> QED BY <2>3, <2>5, <2>6
  <2>7. CASE told.error = "none"
    <3>1. PICK y \in Recorders : /\ told = [recorder |-> y, error |-> "none"]
                                 /\ KnowsScenario(y, n)' /\ Else(y, s)
      BY <2>5, <2>7
    <3>2. x = RecordSamples(told, d, Frames(n))
      BY <2>3, <2>7
    <3> HIDE DEF told, s
    <3>3. KnowsBatches(y, q)
      BY <2>1, <3>1 DEF KnowsBatches, Else
    <3>4. (x.error # "none" /\ settings.period > Start) \/ WithSamples(x, y, n)
      <4>1. /\ n * settings.period <= End
            /\ x = RecordSamples([recorder |-> y, error |-> "none"], d, Frames(n))
        BY <1>4, <3>1, <3>2
      <4> QED BY <1>1, <3>1, <3>3, <4>1, SamplesStep
    <3>5. CASE x.error # "none" /\ settings.period > Start
      BY <1>1, <3>5, SameSettings DEF Reasons
    <3>6. CASE WithSamples(x, y, n)
      <4>1. PICK w \in Recorders :
               /\ x = [recorder |-> w, error |-> "none"]
               /\ KnowsBatches(w, n) /\ w.reachedEnd = y.reachedEnd
               /\ w.observed = y.observed /\ w.lastBatch = y.lastBatch /\ w.state = y.state
               /\ w.transitions = y.transitions /\ w.expected = y.expected
               /\ w.nextSemantic = y.nextSemantic /\ w.sampled = y.sampled
        BY <3>6 DEF WithSamples
      <4>2. KnowsSemantics(w, n) /\ ~w.reachedEnd
        BY <2>1, <3>1, <4>1 DEF KnowsSemantics, Else
      <4>3. KnowsScenario(w, n)'
        BY <3>1, <4>1 DEF KnowsScenario
      <4>4. KnowsBatches(w, n)' /\ KnowsSemantics(w, n)' /\ End' = End
        BY <1>1, <4>1, <4>2, SameSettings
      <4>5. KnowsRun(w, n)'
        BY <1>1, <1>4, <4>3, <4>4 DEF KnowsRun
      <4> QED BY <1>4, <4>1, <4>2, <4>5
    <3> QED BY <3>4, <3>5, <3>6
  <2> QED BY <2>6, <2>7
<1> QED BY <1>2, <1>3, <1>4

(***************************************************************************)
(* The run                                                                 *)
(***************************************************************************)

LEMMA StartsRecorded == ValidationInit => RecorderInv
<1> SUFFICES ASSUME ValidationInit PROVE RecorderInv
  OBVIOUS
<1>1. SettingsFit
  BY DEF ValidationInit, SettingsFit
<1>2. /\ Before \in Nat /\ Start \in Nat \ {0} /\ End \in Nat /\ Second \in Nat \ {0}
      /\ settings.warmup = Start /\ settings.period \in Nat \ {0}
      /\ 0 * settings.period = 0 /\ ExpectedSamples(settings) \in Nat
  <2>1. /\ 0 * settings.period <= End <=> 0 <= End \div settings.period
        /\ Start = settings.warmup /\ settings.warmup \in Nat \ {0} /\ End \in Nat
        /\ Before \in Nat /\ settings.period \in Nat \ {0}
        /\ settings.measurement \in Nat /\ End = settings.warmup + settings.measurement
    BY <1>1, WindowBounds
  <2>2. ExpectedSamples(settings) \in Nat
    <3>1. /\ ExpectedSamples(settings) = (End \div settings.period) - Before
          /\ End \div settings.period \in Nat
      BY <1>1, WindowBounds
    <3>2. Before * settings.period <= settings.warmup
      BY <2>1, Quotients DEF Before
    <3>3. Before * settings.period <= End /\ Before * settings.period \in Nat
      <4>1. Before * settings.period \in Nat
        BY <1>1, <2>1, Deadlines
      <4> DEFINE e == Before * settings.period
      <4> HIDE DEF e
      <4>2. e \in Nat => e <= End
        BY <2>1, <3>2 DEF e
      <4> QED BY <4>1, <4>2 DEF e
    <3>4. Before <= End \div settings.period
      BY <1>1, <2>1, <3>3, WindowBounds
    <3> QED BY <2>1, <3>1, <3>4
  <2> QED BY <2>1, <2>2, DurationsAreSeconds
<1>3. rotation = 0 /\ happened = <<>> /\ stage = "running" /\ error = "none"
  BY DEF ValidationInit
<1>4. ScenarioInOrder
  <2>1. happened \in Seq(PhaseChanges) /\ DOMAIN happened = {}
    BY <1>3
  <2> QED BY <1>3, <2>1 DEF ScenarioInOrder
<1>5. FirstPhase = Phase(0) /\ FirstPhase \in Phases
  <2>1. 0 \div 2 = 0 /\ 0 % 2 = 0
    OBVIOUS
  <2> QED BY <2>1 DEF FirstPhase, Phase, Phases
<1>6. /\ recorder \in Recorders /\ recorder.reachedEnd = FALSE
      /\ recorder.expected = ExpectedSamples(settings) /\ recorder.observed = 0
      /\ recorder.lastBatch = None /\ recorder.state = FirstPhase
      /\ recorder.transitions = <<>> /\ recorder.batches = <<>> /\ recorder.sampled = 0
      /\ recorder.samples = [i \in LaserSensors |-> <<>>]
      /\ recorder.nextSemantic = Start + Second
  <2>1. recorder = NewRecorder(settings)
    BY DEF ValidationInit
  <2>2. settings.warmup + Second \in Nat /\ None \in Nat /\ <<>> \in Seq(Nat)
        /\ <<>> \in Seq(PhaseChanges)
    BY <1>2 DEF None
  <2> QED BY <1>2, <1>5, <2>1, <2>2 DEF NewRecorder, Recorders
<1>7. KnowsRun(recorder, 0)
  <2>1. KnowsScenario(recorder, 0)
    BY <1>2, <1>3, <1>5, <1>6 DEF KnowsScenario
  <2>2. KnowsBatches(recorder, 0)
    <3>1. Measured(0) = 0
      BY <1>2 DEF Measured
    <3>2. \A e : [j \in 1 .. 0 |-> e] = <<>>
      OBVIOUS
    <3>3. /\ [j \in 1 .. Measured(0) |-> (Before + j) * settings.period] = <<>>
          /\ [j \in 1 .. Measured(0) |-> Before + j - 1] = <<>>
      BY <3>1
    <3> QED BY <1>6, <3>1, <3>3 DEF KnowsBatches
  <2>3. KnowsSemantics(recorder, 0)
    <3>1. Second * (0 + 1) = Second
      BY <1>2
    <3> QED BY <1>2, <1>6, <3>1 DEF KnowsSemantics
  <2> QED BY <1>2, <1>6, <2>1, <2>2, <2>3 DEF KnowsRun
<1> QED BY <1>1, <1>3, <1>4, <1>6, <1>7 DEF RecorderInv, Completed, ReportStages, NoFalseAlarm

LEMMA ReceiveStep ==
  ASSUME RecorderInv, ReceiveBatch
  PROVE  RecorderInv'
<1>1. /\ SettingsFit /\ ScenarioInOrder /\ stage = "running" /\ settings' = settings
      /\ KnowsRun(recorder, rotation) /\ ~recorder.reachedEnd /\ temporary' = temporary
      /\ rotation \in Nat
  BY DEF RecorderInv, ReceiveBatch, ScenarioInOrder, files
<1>2. PICK at \in Instants(rotation * settings.period, (rotation + 1) * settings.period,
                           MaxTransitions - Len(happened)) :
        LET n == rotation + 1
            d == n * settings.period
            c == Changes(at)
            x == RecordBatch(WithSemantics(recorder, d), d, Frames(n), c)
        IN /\ rotation' = n
           /\ happened' = happened \o c
           /\ recorder' = x.recorder
           /\ error' = x.error
           /\ stage' = IF x.error # "none" THEN "failed"
                       ELSE IF x.recorder.reachedEnd THEN "complete" ELSE "running"
  BY DEF ReceiveBatch
<1>3. PICK c : c = Changes(at)
  OBVIOUS
<1>4. PICK n, q, d : n = rotation + 1 /\ q = rotation /\ d = n * settings.period
  OBVIOUS
<1>5. PICK x : x = RecordBatch(WithSemantics(recorder, d), d, Frames(n), c)
  OBVIOUS
<1>6. /\ rotation' = n /\ happened' = happened \o c /\ recorder' = x.recorder /\ error' = x.error
      /\ stage' = IF x.error # "none" THEN "failed"
                  ELSE IF x.recorder.reachedEnd THEN "complete" ELSE "running"
  BY <1>2, <1>3, <1>4, <1>5
<1>7. /\ c \in Seq(PhaseChanges)
      /\ \A k \in 1 .. Len(c) : /\ c[k].to = Phase(Len(happened) + k)
                                /\ rotation * settings.period < c[k].at
                                /\ c[k].at <= (rotation + 1) * settings.period
      /\ \A i, j \in 1 .. Len(c) : i < j => c[i].at < c[j].at
  <2>1. MaxTransitions - Len(happened) \in Int
    BY <1>1, LenProperties, DurationsAreSeconds DEF ScenarioInOrder
  <2> QED BY <1>1, <1>3, <2>1, NewChanges
<1>8. Brings(c)
  <2>1. /\ ScenarioInOrder'
        /\ Len(happened') = Len(happened) + Len(c)
        /\ \A i \in 1 .. Len(happened') :
              happened'[i] = IF i <= Len(happened) THEN happened[i] ELSE c[i - Len(happened)]
    BY <1>1, <1>4, <1>6, <1>7, ScenarioGoesOn
  <2> QED BY <1>1, <1>4, <1>6, <1>7, <2>1 DEF Brings
<1>9. \/ x.error # "none" /\ Reasons'
      \/ /\ x.error = "none" /\ d <= End /\ ~x.recorder.reachedEnd
         /\ KnowsRun(x.recorder, n)'
      \/ /\ x.error = "none" /\ d > End /\ x.recorder.reachedEnd
         /\ KnowsRun(x.recorder, q)'
  BY <1>1, <1>4, <1>5, <1>8, BatchStep
<1>10. SettingsFit' /\ ScenarioInOrder' /\ End' = End
  BY <1>1, <1>8, SameSettings DEF SettingsFit, Brings, ExpectedSamples
<1>11. CASE x.error # "none" /\ Reasons'
  BY <1>6, <1>10, <1>11 DEF RecorderInv, Completed, ReportStages, NoFalseAlarm, Reasons
<1>12. CASE x.error = "none" /\ d <= End /\ ~x.recorder.reachedEnd /\ KnowsRun(x.recorder, n)'
  <2>1. stage' = "running" /\ error' = "none" /\ KnowsRun(recorder, rotation)'
    BY <1>6, <1>12 DEF KnowsRun, KnowsScenario, KnowsBatches, KnowsSemantics
  <2> QED BY <1>6, <1>10, <1>12, <2>1
          DEF RecorderInv, Completed, ReportStages, NoFalseAlarm
<1>13. CASE x.error = "none" /\ d > End /\ x.recorder.reachedEnd /\ KnowsRun(x.recorder, q)'
  <2>1. rotation' - 1 = q
    BY <1>1, <1>4, <1>6
  <2>2. stage' = "complete" /\ error' = "none" /\ KnowsRun(recorder, rotation - 1)'
    BY <1>6, <1>13, <2>1 DEF KnowsRun, KnowsScenario, KnowsBatches, KnowsSemantics
  <2>3. rotation' * settings'.period > End'
    BY <1>1, <1>4, <1>6, <1>10, <1>13
  <2> QED BY <1>6, <1>10, <1>13, <2>2, <2>3
          DEF RecorderInv, Completed, ReportStages, NoFalseAlarm
<1> QED BY <1>9, <1>11, <1>12, <1>13

(* The last recorded rotation is the last that ends in the window.         *)
LEMMA LastRotation ==
  ASSUME SettingsFit, NEW q \in Nat, q * settings.period <= End,
         (q + 1) * settings.period > End
  PROVE  q = End \div settings.period
<1>1. /\ (q * settings.period <= End <=> q <= End \div settings.period)
      /\ ((q + 1) * settings.period <= End <=> q + 1 <= End \div settings.period)
      /\ End \div settings.period \in Nat /\ End \in Nat
  BY WindowBounds
<1>2. (q + 1) * settings.period \in Nat
  BY Deadlines
<1>3. ~((q + 1) * settings.period <= End)
  <2> DEFINE e == (q + 1) * settings.period
  <2>1. e \in Nat /\ e > End
    BY <1>2
  <2> HIDE DEF e
  <2>2. ~(e <= End)
    BY <1>1, <2>1
  <2> QED BY <2>2 DEF e
<1> QED BY <1>1, <1>3

LEMMA FinishStep ==
  ASSUME RecorderInv, Finish
  PROVE  RecorderInv'
<1> DEFINE q == rotation - 1
           fin == End \div settings.period
<1>1. /\ SettingsFit /\ ScenarioInOrder /\ KnowsRun(recorder, q) /\ recorder.reachedEnd
      /\ rotation * settings.period > End /\ rotation \in Nat
      /\ settings' = settings /\ recorder' = recorder /\ rotation' = rotation
      /\ happened' = happened /\ temporary' = temporary
      /\ error' = FinishError(recorder)
      /\ stage' = IF FinishError(recorder) = "none" THEN "reported" ELSE "failed"
  BY DEF RecorderInv, Finish, ScenarioInOrder, recording, files, Completed
<1>2. /\ q \in Nat /\ q + 1 = rotation /\ recorder \in Recorders
      /\ KnowsScenario(recorder, q) /\ KnowsBatches(recorder, q) /\ q * settings.period <= End
  BY <1>1 DEF KnowsRun
<1>3. q = fin
  BY <1>1, <1>2, LastRotation
<1>4. /\ SettingsFit' /\ ScenarioInOrder' /\ KnowsRun(recorder, rotation - 1)'
      /\ End' = End /\ FinishError(recorder)' = FinishError(recorder)
  BY <1>1 DEF SettingsFit, ScenarioInOrder, KnowsRun, KnowsScenario, KnowsBatches,
              KnowsSemantics, Before, Measured, ExpectedSamples, Start, End, FinishError
<1>5. CASE FinishError(recorder) = "none"
  BY <1>1, <1>4, <1>5 DEF RecorderInv, Completed, ReportStages, NoFalseAlarm
<1>6. CASE FinishError(recorder) # "none"
  <2>1. ASSUME End % settings.period = 0 PROVE FALSE
    <3>1. /\ Start \in Nat /\ End \in Nat /\ settings.period \in Nat \ {0} /\ Before \in Nat
          /\ fin \in Nat /\ Start < End
          /\ ExpectedSamples(settings) = fin - Before
      <4>1. /\ Start \in Nat /\ End \in Nat /\ settings.period \in Nat \ {0}
            /\ settings.measurement \in Nat \ {0} /\ Start = settings.warmup
            /\ End = settings.warmup + settings.measurement /\ Before \in Nat /\ fin \in Nat
            /\ ExpectedSamples(settings) = fin - Before
        BY <1>1, WindowBounds
      <4> QED BY <4>1
    <3>2. End = q * settings.period
      BY <1>3, <2>1, <3>1, Exactly
    <3>3. recorder.observed = End
      BY <1>2, <3>2 DEF KnowsScenario
    <3>4. q > Before
      <4>1. q * settings.period > Start
        BY <3>1, <3>2
      <4> QED BY <1>1, <1>2, <4>1, WindowBounds
    <3>5. Measured(q) = q - Before /\ Measured(q) \in Nat \ {0}
      BY <1>2, <3>1, <3>4 DEF Measured
    <3>6. /\ recorder.batches \in Seq(Nat) /\ Len(recorder.batches) = Measured(q)
          /\ \A i \in LaserSensors : Len(recorder.samples[i]) = Measured(q)
      <4>1. recorder.batches \in Seq(Nat) /\ recorder.samples \in [LaserSensors -> Seq(Nat)]
        BY <1>2 DEF Recorders
      <4>2. /\ DOMAIN recorder.batches = 1 .. Measured(q)
            /\ \A i \in LaserSensors : DOMAIN recorder.samples[i] = 1 .. Measured(q)
        BY <1>2 DEF KnowsBatches
      <4>3. \A i \in LaserSensors : recorder.samples[i] \in Seq(Nat)
        BY <4>1
      <4> QED BY <3>5, <4>1, <4>2, <4>3, LenProperties
    <3>7. recorder.batches # <<>>
      BY <3>5, <3>6
    <3>8. recorder.expected = Measured(q)
      BY <1>2, <1>3, <3>1, <3>5 DEF KnowsBatches
    <3> QED BY <1>1, <1>6, <3>3, <3>6, <3>7, <3>8 DEF FinishError
  <2>2. End' % settings'.period # 0
    BY <1>1, <1>4, <2>1
  <2>3. stage' = "failed"
    BY <1>1, <1>6
  <2> QED BY <1>4, <2>2, <2>3 DEF RecorderInv, Completed, ReportStages, NoFalseAlarm
<1> QED BY <1>5, <1>6

(* The report leaves what was recorded as it is.                           *)
LEMMA ReportStep ==
  ASSUME RecorderInv, UNCHANGED recording,
         \/ stage' \notin Completed \cup {"running"}
         \/ stage' = stage /\ error' = error
         \/ stage \in ReportStages /\ stage' \in ReportStages /\ error' = error,
         error' \in {error, "interrupted", "io", "output exists"},
         stage' = "linking" => temporary' = "report"
  PROVE  RecorderInv'
<1>1. SettingsFit' /\ ScenarioInOrder' /\ FinishError(recorder)' = FinishError(recorder)
  BY DEF RecorderInv, recording, SettingsFit, ScenarioInOrder, ExpectedSamples, FinishError, End
<1>2. ASSUME NEW r, NEW q
      PROVE  KnowsRun(r, q)' <=> KnowsRun(r, q)
  <2>1. settings' = settings /\ happened' = happened
    BY DEF recording
  <2>2. KnowsScenario(r, q)' <=> KnowsScenario(r, q)
    BY <2>1 DEF KnowsScenario
  <2> QED BY <2>1, <2>2, SameSettings DEF KnowsRun
<1>3. /\ KnowsRun(recorder, rotation)' <=> KnowsRun(recorder, rotation)
      /\ KnowsRun(recorder, rotation - 1)' <=> KnowsRun(recorder, rotation - 1)
  <2>1. PICK r, q, p : r = recorder /\ q = rotation /\ p = rotation - 1
    OBVIOUS
  <2>2. recorder' = r /\ rotation' = q /\ rotation' - 1 = p
    BY <2>1 DEF recording
  <2>3. KnowsRun(recorder, rotation)' <=> KnowsRun(r, q)'
    BY <2>2 DEF KnowsRun, KnowsScenario, KnowsBatches, KnowsSemantics
  <2>4. KnowsRun(recorder, rotation - 1)' <=> KnowsRun(r, p)'
    BY <2>2 DEF KnowsRun, KnowsScenario, KnowsBatches, KnowsSemantics
  <2>5. KnowsRun(r, q)' <=> KnowsRun(r, q)
    BY <1>2
  <2>6. KnowsRun(r, p)' <=> KnowsRun(r, p)
    BY <1>2
  <2> QED BY <2>1, <2>3, <2>4, <2>5, <2>6
<1>4. NoFalseAlarm'
  <2>1. Reasons' <=> Reasons
    BY DEF recording, Reasons, ChangesInWindow, Start, End
  <2>2. error \notin {"none", "interrupted", "io", "output exists"} => Reasons
    BY DEF RecorderInv, NoFalseAlarm, Reasons
  <2>3. error' \notin {"none", "interrupted", "io", "output exists"} => Reasons'
    BY <2>1, <2>2
  <2> QED BY <2>3 DEF NoFalseAlarm, Reasons
<1>5. /\ recorder' = recorder /\ End' = End
      /\ rotation' * settings'.period = rotation * settings.period
  BY DEF recording, End, Start
<1>6. /\ stage' = "running" => stage = "running" /\ error' = error
      /\ stage' \in Completed => stage \in Completed /\ error' = error
      /\ stage' \in ReportStages => stage \in ReportStages
  BY DEF Completed, ReportStages
<1>7. /\ stage' = "running" => KnowsRun(recorder, rotation)' /\ ~recorder'.reachedEnd
      /\ stage' \in Completed =>
            /\ KnowsRun(recorder, rotation - 1)' /\ recorder'.reachedEnd
            /\ rotation' * settings'.period > End'
      /\ stage' \in ReportStages => FinishError(recorder)' = "none"
      /\ stage' \in Completed \cup {"running"} => error' = "none"
  BY <1>1, <1>3, <1>5, <1>6 DEF RecorderInv
<1> QED BY <1>1, <1>4, <1>7 DEF RecorderInv, Completed, ReportStages

LEMMA RecorderStep == RecorderInv /\ [ValidationNext]_validationVars => RecorderInv'
<1> SUFFICES ASSUME RecorderInv, [ValidationNext]_validationVars PROVE RecorderInv'
  OBVIOUS
<1>0. stage = "linking" => temporary = "report"
  BY DEF RecorderInv
<1> USE DEF Completed, ReportStages
<1>1. CASE ReceiveBatch
  BY <1>1, ReceiveStep
<1>2. CASE Interrupt
  BY <1>2, ReportStep DEF Interrupt, files
<1>3. CASE Finish
  BY <1>3, FinishStep
<1>4. CASE CreateTemporary
  BY <1>4, ReportStep DEF CreateTemporary
<1>5. CASE WriteReport
  BY <1>5, ReportStep DEF WriteReport
<1>6. CASE LinkReport
  BY <1>6, ReportStep DEF LinkReport
<1>7. CASE RemoveTemporary
  BY <1>7, ReportStep DEF RemoveTemporary
<1>8. CASE ReportFails
  BY <1>8, ReportStep DEF ReportFails
<1>9. CASE Kill
  BY <1>9, ReportStep DEF Kill
<1>10. CASE ForeignFile
  BY <1>0, <1>10, ReportStep DEF ForeignFile
<1>11. CASE UNCHANGED validationVars
  BY <1>0, <1>11, ReportStep DEF validationVars, recording
<1> QED BY <1>1, <1>2, <1>3, <1>4, <1>5, <1>6, <1>7, <1>8, <1>9, <1>10, <1>11
        DEF ValidationNext

(* What the recorder knows and what the scenario did, at every step of the *)
(* run: the strengthening that the properties of a report follow from.     *)
THEOREM RecorderInvariant == ValidationSpec => []RecorderInv
<1>1. ValidationInit => RecorderInv
  BY StartsRecorded
<1>2. RecorderInv /\ [ValidationNext]_validationVars => RecorderInv'
  BY RecorderStep
<1> QED BY <1>1, <1>2, PTL DEF ValidationSpec

(* A run is thrown away only for a reason the settings or the scenario     *)
(* give.                                                                   *)
THEOREM AlarmsAreJustified == ValidationSpec => []NoFalseAlarm
<1>1. RecorderInv => NoFalseAlarm
  BY DEF RecorderInv
<1> QED BY <1>1, RecorderInvariant, PTL

(* The path of the report holds a whole report or a foreign file, and      *)
(* nothing that is there is replaced.                                      *)
THEOREM OutputIsNeverReplaced == ValidationSpec => OutputIsWholeAndNeverReplaced
<1>1. RecorderInv /\ [ValidationNext]_validationVars
        => [output' # output => output = "absent" /\ output' \in {"report", "foreign"}]_validationVars
  <2> SUFFICES ASSUME RecorderInv, ValidationNext, output' # output
               PROVE  output = "absent" /\ output' \in {"report", "foreign"}
    BY DEF validationVars
  <2>1. CASE LinkReport
    BY <2>1 DEF LinkReport, RecorderInv
  <2>2. CASE ForeignFile
    BY <2>2 DEF ForeignFile
  <2>3. CASE ReceiveBatch \/ Interrupt \/ Finish \/ CreateTemporary \/ WriteReport
             \/ RemoveTemporary \/ ReportFails \/ Kill
    BY <2>3 DEF ReceiveBatch, Interrupt, Finish, CreateTemporary, WriteReport,
                RemoveTemporary, ReportFails, Kill, files
  <2> QED BY <2>1, <2>2, <2>3 DEF ValidationNext
<1> QED BY <1>1, RecorderInvariant, PTL DEF ValidationSpec, OutputIsWholeAndNeverReplaced

(***************************************************************************)
(* The report                                                              *)
(***************************************************************************)

(* What the recorder holds when a report may be written.                   *)
LEMMA ReportedWindow ==
  ASSUME RecorderInv, stage \in ReportStages, NEW q, q = rotation - 1
  PROVE  /\ q \in Nat /\ rotation = q + 1 /\ KnowsRun(recorder, q)
         /\ End = q * settings.period /\ q > Before
         /\ \A n \in Nat : n \in RotationsInWindow <=> n \in Before + 1 .. q
<1> DEFINE fin == End \div settings.period
<1>1. /\ SettingsFit /\ KnowsRun(recorder, q) /\ rotation * settings.period > End
      /\ rotation \in Nat /\ FinishError(recorder) = "none"
  BY DEF RecorderInv, ScenarioInOrder, Completed
<1>2. /\ q \in Nat /\ q + 1 = rotation /\ KnowsScenario(recorder, q)
      /\ KnowsBatches(recorder, q) /\ q * settings.period <= End
  BY <1>1 DEF KnowsRun
<1>3. q = fin
  BY <1>1, <1>2, LastRotation
<1>4. End = q * settings.period
  <2>1. recorder.observed = End
    BY <1>1 DEF FinishError
  <2> QED BY <1>2, <2>1 DEF KnowsScenario
<1>5. /\ Start \in Nat /\ End \in Nat /\ Start < End /\ Before \in Nat
  <2>1. /\ Start \in Nat /\ End \in Nat /\ settings.measurement \in Nat \ {0}
        /\ Start = settings.warmup /\ End = settings.warmup + settings.measurement
        /\ Before \in Nat
    BY <1>1, WindowBounds
  <2> QED BY <2>1
<1>6. q > Before
  <2>1. q * settings.period > Start
    BY <1>4, <1>5
  <2> QED BY <1>1, <1>2, <2>1, WindowBounds
<1>7. ASSUME NEW n \in Nat
      PROVE  n \in RotationsInWindow <=> n \in Before + 1 .. q
  <2>1. Measures(n * settings.period) <=> n > Before /\ n <= q
    BY <1>1, <1>3, WindowBounds DEF Measures
  <2>2. n \in 1 .. rotation /\ n > Before /\ n <= q <=> n \in Before + 1 .. q
    BY <1>2, <1>5
  <2> QED BY <2>1, <2>2 DEF RotationsInWindow
<1> QED BY <1>1, <1>2, <1>4, <1>6, <1>7

(* s has a value of e for each rotation of R, those after b up to q.       *)
HasEach(s, e, R, b, q) ==
  /\ b \in Nat /\ q \in Nat /\ e \in [Nat -> Int]
  /\ R \subseteq Nat /\ \A n \in Nat : n \in R <=> n \in b + 1 .. q
  /\ DOMAIN s = 1 .. q - b /\ \A j \in 1 .. q - b : s[j] = e[b + j]
  /\ \A m, n \in Nat : m < n => e[m] < e[n]

(* S is the set of e's values at the rotations of R.                       *)
ValuesAt(e, R, S) == \A x : x \in S <=> \E n \in R : x = e[n]

LEMMA Listed ==
  ASSUME NEW s, NEW S, NEW e, NEW R, NEW b, NEW q, HasEach(s, e, R, b, q), ValuesAt(e, R, S)
  PROVE  Lists(s, S)
<1> USE DEF HasEach, ValuesAt
<1>1. DOMAIN s = 1 .. q - b
  OBVIOUS
<1>2. ASSUME NEW x PROVE x \in {s[i] : i \in DOMAIN s} <=> x \in S
  <2>1. ASSUME NEW i \in 1 .. q - b PROVE s[i] \in S
    <3>1. b + i \in Nat /\ b + i \in b + 1 .. q
      OBVIOUS
    <3>2. b + i \in R
      BY <3>1
    <3> QED BY <3>2
  <2>2. ASSUME NEW n \in R PROVE e[n] \in {s[i] : i \in 1 .. q - b}
    <3>1. n \in Nat /\ n \in b + 1 .. q
      OBVIOUS
    <3>2. n - b \in 1 .. q - b /\ b + (n - b) = n
      BY <3>1
    <3>3. s[n - b] = e[n]
      BY <3>2
    <3> QED BY <3>2, <3>3
  <2>3. x \in {s[i] : i \in 1 .. q - b} => x \in S
    BY <2>1
  <2>4. ASSUME x \in S PROVE x \in {s[i] : i \in 1 .. q - b}
    <3>1. PICK n \in R : x = e[n]
      BY <2>4
    <3> QED BY <2>2, <3>1
  <2> QED BY <1>1, <2>3, <2>4
<1>3. ASSUME NEW i \in 1 .. q - b, NEW j \in 1 .. q - b, i < j PROVE s[i] < s[j]
  <2>1. b + i \in Nat /\ b + j \in Nat /\ b + i < b + j
    BY <1>3
  <2>2. e[b + i] < e[b + j]
    BY <2>1
  <2> QED BY <2>2
<1> QED BY <1>1, <1>2, <1>3 DEF Lists

LEMMA SampledSeconds ==
  ASSUME NEW first \in Nat, NEW m \in Nat, NEW k \in Nat, NEW unit \in Nat \ {0}, m > 0,
         m % unit = 0, first + m < first + unit * (k + 1),
         k = 0 \/ first + unit * (k + 1) <= first + m + unit
  PROVE  k = m \div unit
<1> DEFINE n == m \div unit
<1>1. n \in Nat /\ m = n * unit
  BY Quotients, Exactly
<1> HIDE DEF n
<1>2. unit * (k + 1) = k * unit + unit /\ k * unit \in Nat /\ n * unit \in Nat
  BY <1>1
<1>3. n * unit < k * unit + unit
  BY <1>1, <1>2
<1>4. n <= k
  <2>1. ASSUME k < n PROVE FALSE
    <3>1. k * unit + unit <= n * unit
      BY <1>1, <2>1, Multiples
    <3> QED BY <1>2, <1>3, <3>1
  <2> QED BY <1>1, <2>1
<1>5. k <= n
  <2>1. ASSUME n < k PROVE FALSE
    <3>1. n * unit + unit <= k * unit
      BY <1>1, <2>1, Multiples
    <3>2. k # 0
      BY <1>1, <2>1
    <3>3. k * unit + unit <= n * unit + unit
      BY <1>1, <1>2, <3>2
    <3> QED BY <1>2, <3>1, <3>3
  <2> QED BY <1>1, <2>1
<1> QED BY <1>1, <1>4, <1>5 DEF n

LEMMA ReportHolds == RecorderInv => ReportIsComplete
<1> SUFFICES ASSUME RecorderInv, stage \in ReportStages
    PROVE  /\ Lists(recorder.batches, {n * settings.period : n \in RotationsInWindow})
           /\ \A i \in LaserSensors : Lists(recorder.samples[i], {n - 1 : n \in RotationsInWindow})
           /\ recorder.transitions = [i \in ChangesInWindow |-> happened[i]]
           /\ settings.period <= Second => recorder.sampled = settings.measurement \div Second
  BY DEF ReportIsComplete, ReportStages
<1>1. PICK q : q = rotation - 1
  OBVIOUS
<1>2. /\ q \in Nat /\ rotation = q + 1 /\ KnowsRun(recorder, q)
      /\ End = q * settings.period /\ q > Before
      /\ \A n \in Nat : n \in RotationsInWindow <=> n \in Before + 1 .. q
  BY <1>1, ReportedWindow
<1>3. /\ SettingsFit /\ ScenarioInOrder /\ recorder \in Recorders /\ KnowsScenario(recorder, q)
      /\ KnowsBatches(recorder, q) /\ KnowsSemantics(recorder, q)
  BY <1>2 DEF RecorderInv, KnowsRun
<1>4. /\ Before \in Nat /\ settings.period \in Nat \ {0} /\ Measured(q) = q - Before
      /\ RotationsInWindow \subseteq Nat
  <2>1. Before \in Nat /\ settings.period \in Nat \ {0}
    BY <1>3, WindowBounds
  <2>2. RotationsInWindow \subseteq Nat
    BY <1>2 DEF RotationsInWindow
  <2> QED BY <1>2, <2>1, <2>2 DEF Measured
<1>5. Lists(recorder.batches, {n * settings.period : n \in RotationsInWindow})
  <2> DEFINE e == [n \in Nat |-> n * settings.period]
  <2>1. ASSUME NEW m \in Nat, NEW n \in Nat, m < n PROVE e[m] < e[n]
    <3>1. m * settings.period + settings.period <= n * settings.period
          /\ m * settings.period \in Nat /\ n * settings.period \in Nat
      BY <1>4, <2>1, Multiples
    <3>2. m * settings.period < n * settings.period
      BY <1>4, <3>1
    <3> QED BY <3>2
  <2>2. recorder.batches = [j \in 1 .. q - Before |-> e[Before + j]]
    <3>1. \A j \in 1 .. q - Before : Before + j \in Nat
      BY <1>2, <1>4
    <3> QED BY <1>3, <1>4, <3>1 DEF KnowsBatches
  <2>0. e \in [Nat -> Int]
    BY <1>4, Multiples
  <2> DEFINE S == {n * settings.period : n \in RotationsInWindow}
  <2>3. ValuesAt(e, RotationsInWindow, S)
    BY <1>4 DEF ValuesAt
  <2> HIDE DEF e, S
  <2>4. Lists(recorder.batches, S)
    <3>1. /\ Before \in Nat /\ q \in Nat /\ q > Before /\ RotationsInWindow \subseteq Nat
          /\ \A n \in Nat : n \in RotationsInWindow <=> n \in Before + 1 .. q
      BY <1>2, <1>4
    <3>2. \A m, n \in Nat : m < n => e[m] < e[n]
      BY <2>1
    <3>3. /\ DOMAIN recorder.batches = 1 .. q - Before
          /\ \A j \in 1 .. q - Before : recorder.batches[j] = e[Before + j]
      BY <2>2
    <3>4. HasEach(recorder.batches, e, RotationsInWindow, Before, q)
      BY <2>0, <3>1, <3>2, <3>3 DEF HasEach
    <3> QED BY <2>3, <3>4, Listed
  <2> QED BY <2>4 DEF S
<1>6. ASSUME NEW i \in LaserSensors
      PROVE  Lists(recorder.samples[i], {n - 1 : n \in RotationsInWindow})
  <2> DEFINE e == [n \in Nat |-> n - 1]
  <2>1. \A m, n \in Nat : m < n => e[m] < e[n]
    OBVIOUS
  <2>2. recorder.samples[i] = [j \in 1 .. q - Before |-> e[Before + j]]
    <3>1. \A j \in 1 .. q - Before : Before + j \in Nat /\ e[Before + j] = Before + j - 1
      BY <1>2, <1>4
    <3>2. recorder.samples[i] = [j \in 1 .. q - Before |-> Before + j - 1]
      BY <1>3, <1>4 DEF KnowsBatches
    <3> HIDE DEF e
    <3> QED BY <3>1, <3>2
  <2>0. e \in [Nat -> Int]
    OBVIOUS
  <2> DEFINE S == {n - 1 : n \in RotationsInWindow}
  <2>3. ValuesAt(e, RotationsInWindow, S)
    BY <1>4 DEF ValuesAt
  <2> HIDE DEF e, S
  <2>4. Lists(recorder.samples[i], S)
    <3>1. /\ Before \in Nat /\ q \in Nat /\ q > Before /\ RotationsInWindow \subseteq Nat
          /\ \A n \in Nat : n \in RotationsInWindow <=> n \in Before + 1 .. q
      BY <1>2, <1>4
    <3>2. \A m, n \in Nat : m < n => e[m] < e[n]
      BY <2>1
    <3>3. /\ DOMAIN recorder.samples[i] = 1 .. q - Before
          /\ \A j \in 1 .. q - Before : recorder.samples[i][j] = e[Before + j]
      BY <2>2
    <3>4. HasEach(recorder.samples[i], e, RotationsInWindow, Before, q)
      BY <2>0, <3>1, <3>2, <3>3 DEF HasEach
    <3> QED BY <2>3, <3>4, Listed
  <2> QED BY <2>4 DEF S
<1>7. recorder.transitions = [i \in ChangesInWindow |-> happened[i]]
  <2>1. /\ recorder.transitions \in Seq(PhaseChanges) /\ happened \in Seq(PhaseChanges)
        /\ DOMAIN recorder.transitions = 1 .. Len(recorder.transitions)
        /\ DOMAIN happened = 1 .. Len(happened)
        /\ Len(happened) \in Nat /\ Len(recorder.transitions) \in Nat
    BY <1>3, LenProperties DEF Recorders, ScenarioInOrder
  <2>2. /\ Len(recorder.transitions) <= Len(happened)
        /\ \A i \in DOMAIN happened :
              IF i <= Len(recorder.transitions)
              THEN recorder.transitions[i] = happened[i] /\ happened[i].at <= End
              ELSE happened[i].at > End
    BY <1>2, <1>3 DEF KnowsScenario
  <2>3. \A i \in 1 .. Len(happened) : happened[i].at \in Nat
    <3>1. \A i \in 1 .. Len(happened) : happened[i] \in PhaseChanges
      BY <2>1, ElementOfSeq
    <3> QED BY <3>1 DEF PhaseChanges
  <2>4. End \in Nat
    BY <1>3, WindowBounds
  <2>5. ASSUME NEW i \in 1 .. Len(happened)
        PROVE  happened[i].at <= End <=> i <= Len(recorder.transitions)
    BY <2>1, <2>2, <2>3, <2>4
  <2>6. ChangesInWindow = 1 .. Len(recorder.transitions)
    BY <2>1, <2>2, <2>5 DEF ChangesInWindow
  <2>7. \A i \in 1 .. Len(recorder.transitions) : recorder.transitions[i] = happened[i]
    BY <2>1, <2>2
  <2>8. recorder.transitions = [i \in 1 .. Len(recorder.transitions) |-> recorder.transitions[i]]
    BY <2>1
  <2> QED BY <2>6, <2>7, <2>8
<1>8. ASSUME settings.period <= Second
      PROVE  recorder.sampled = settings.measurement \div Second
  <2>1. /\ settings.measurement \in Nat /\ settings.measurement > 0
        /\ settings.measurement % Second = 0
        /\ Start \in Nat /\ End = Start + settings.measurement /\ Second \in Nat \ {0}
        /\ recorder.sampled \in Nat
    <3>1. /\ settings.measurement \in Nat \ {0} /\ settings.measurement % Second = 0
          /\ Start \in Nat /\ Start = settings.warmup
          /\ End = settings.warmup + settings.measurement
      BY <1>3, WindowBounds
    <3>2. recorder.sampled \in Nat
      BY <1>3 DEF Recorders
    <3> QED BY <3>1, <3>2, DurationsAreSeconds
  <2>2. /\ End < Start + Second * (recorder.sampled + 1)
        /\ recorder.sampled = 0 \/ Start + Second * (recorder.sampled + 1) <= End + Second
    BY <1>2, <1>3, <1>8 DEF KnowsSemantics
  <2> QED BY <2>1, <2>2, SampledSeconds
<1> QED BY <1>5, <1>6, <1>7, <1>8

(* A report tells of every rotation, phase change and second of the run.   *)
THEOREM ReportsAreComplete == ValidationSpec => []ReportIsComplete
BY RecorderInvariant, ReportHolds, PTL

==============================================================================
