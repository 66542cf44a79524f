-------------------------- MODULE GenerationProofs --------------------------
(***************************************************************************)
(* Theorems about Generation for every number of rotations: the            *)
(* application receives every batch, complete and in order, and the        *)
(* failure of a sensor thread always ends the run with an error.  Seen     *)
(* from the application, the whole is the one thread of BatchSource.       *)
(***************************************************************************)
EXTENDS Generation, TLAPS

USE GenerationAssumption

-----------------------------------------------------------------------------
(* The inductive invariant, in parts.                                      *)

Paced == {"pacing", "dispatching"}
Over == {"stopping", "joining", "ended"}
Answers == [rotation : Nat, ok : BOOLEAN]

Types ==
  /\ app \in {"running", "closing", "joining", "dropped", "joined"}
  /\ coordinator \in Paced \union {"scheduling", "collecting", "sending"} \union Over
  /\ result \in {"none", "ok", "error"}
  /\ stop \in BOOLEAN /\ receiver \in BOOLEAN
  /\ first_error \in BOOLEAN /\ troubled \in BOOLEAN
  /\ pending \in [Sensors -> 0..MaxRotation]
  /\ handles \subseteq Sensors /\ dispatched \subseteq Sensors
  /\ request \in [Sensors -> Seq(Nat)]
  /\ response \in [Sensors -> Seq(Answers)]
  /\ worker \in [Sensors -> {"receiving", "casting", "ended"}]
  /\ casting \in [Sensors -> Nat]
  /\ received \in Seq(SUBSET [sensor : Sensors, rotation : Nat])
  /\ output \in Seq(SUBSET [sensor : Sensors, rotation : Nat])
  /\ collected \subseteq [sensor : Sensors, rotation : Nat]

(* The rotation the coordinator is at: it is scheduled past the one whose  *)
(* answers are collected.                                                  *)
Current == IF coordinator \in {"collecting", "sending"} THEN Expected(1) ELSE pending[1]

(* The sensors are scheduled alike.                                        *)
Alike ==
  /\ pending[1] = pending[2]
  /\ coordinator \notin Over => Current # None
  /\ pending[1] = None => coordinator \in Over \/ (coordinator = "collecting" /\ first_error)

(* What can be seen of a sensor thread with no work, one at work on a      *)
(* rotation, and one that was found ended.                                 *)
Idle(s) ==
  /\ s \in handles /\ worker[s] = "receiving"
  /\ request[s] = << >> /\ response[s] = << >>

AtWork(s, n) ==
  /\ s \in handles
  /\ \/ worker[s] = "receiving" /\ request[s] = <<n>> /\ response[s] = << >>
     \/ worker[s] = "casting" /\ casting[s] = n /\ request[s] = << >> /\ response[s] = << >>
     \/ /\ worker[s] = "receiving" /\ request[s] = << >>
        /\ \E ok \in BOOLEAN : response[s] = <<[rotation |-> n, ok |-> ok]>>
     \/ worker[s] = "ended" /\ request[s] = << >> /\ response[s] = << >>

Gone(s) ==
  /\ s \notin handles /\ worker[s] = "ended"
  /\ request[s] = << >> /\ response[s] = << >>

(* The thread was told to stop, and perhaps has. *)
Told(s) ==
  /\ s \in handles /\ response[s] = << >>
  /\ \/ worker[s] = "receiving" /\ request[s] = <<Stop>>
     \/ worker[s] = "ended"

(* What the coordinator will find out. *)
BadNews(s) == worker[s] = "ended" \/ (response[s] # << >> /\ ~Head(response[s]).ok)

(* Which threads are at work at each step of the coordinator, and who      *)
(* knows of the trouble there was.                                         *)
Resting ==
  coordinator \in Paced \union {"sending"} => ~troubled /\ \A s \in Sensors : Idle(s)

Scheduling ==
  coordinator = "scheduling" =>
    /\ dispatched = Sensors
    /\ \A s \in Sensors : AtWork(s, Current)
    /\ troubled => \E s \in Sensors : BadNews(s)

Collecting ==
  coordinator = "collecting" =>
    /\ dispatched = Sensors
    /\ \A s \in Outstanding : AtWork(s, Current)
    /\ \A s \in Sensors \ Outstanding : Idle(s) \/ (Gone(s) /\ first_error)
    /\ troubled => first_error \/ \E s \in Outstanding : BadNews(s)

Ending ==
  /\ coordinator = "stopping" => \A s \in Sensors : Idle(s) \/ Gone(s)
  /\ coordinator = "joining" => \A s \in Sensors : Told(s) \/ Gone(s)
  /\ coordinator = "ended" => \A s \in Sensors : worker[s] = "ended"

(* What was collected of the batch that is being made. *)
BatchSoFar ==
  /\ coordinator \in Paced \union {"scheduling"} => collected = {} /\ ~first_error
  /\ coordinator = "collecting" /\ ~first_error =>
       collected = {[sensor |-> s, rotation |-> Current] : s \in Sensors \ Outstanding}
  /\ coordinator = "sending" => collected = Batch(Current)

(* How many batches were sent. *)
Sent == coordinator \notin Over => Len(received) + Len(output) = Current - 1

IInv == Types /\ Alike /\ Resting /\ Scheduling /\ Collecting /\ Ending /\ BatchSoFar
        /\ Sent /\ BatchesInOrder /\ TroubleIsReported

-----------------------------------------------------------------------------
(* A channel of one message. *)
LEMMA OneMessage ==
  ASSUME NEW x
  PROVE  /\ Append(<< >>, x) = <<x>> /\ Head(<<x>>) = x /\ Tail(<<x>>) = << >>
         /\ Len(<<x>>) = 1 /\ <<x>> # << >> /\ Len(<< >>) = 0
OBVIOUS

LEMMA ChannelTypes ==
  ASSUME NEW S, NEW q \in Seq(S)
  PROVE  /\ \A x \in S : Append(q, x) \in Seq(S) /\ Len(Append(q, x)) = Len(q) + 1
         /\ q # << >> => Tail(q) \in Seq(S) /\ Head(q) \in S /\ Len(Tail(q)) = Len(q) - 1
         /\ Len(q) \in Nat
OBVIOUS

(* What both sensors have in common, seen through Min. *)
LEMMA MinOfSensors ==
  ASSUME NEW S, S \subseteq Sensors, S # {}
  PROVE  Min(S) \in S
<1>1. \E x \in S : \A y \in S : x =< y
  <2>1. \A y \in S : y = 1 \/ y = 2
    BY DEF Sensors
  <2>2. CASE 1 \in S
    BY <2>1, <2>2
  <2>3. CASE 1 \notin S
    BY <2>1, <2>3
  <2> QED BY <2>2, <2>3
<1> QED BY <1>1 DEF Min

(* The sensor whose answer is awaited.                                      *)
LEMMA NextSensor ==
  ASSUME Types, Outstanding # {}
  PROVE  Min(Outstanding) \in Sensors /\ Min(Outstanding) \in Outstanding
<1>1. Outstanding \subseteq Sensors
  BY DEF Outstanding, Types
<1> QED BY <1>1, MinOfSensors

(* All sensors are due: they are at the same rotation. *)
LEMMA AllDue ==
  ASSUME Types, Alike
  PROVE  Due = Sensors
<1>1. {pending[s] : s \in Sensors} = {pending[1]}
  BY DEF Alike, Types, Sensors
<1>2. Rotation = pending[1]
  <2>1. \E x \in {pending[1]} : \A y \in {pending[1]} : x =< y
    BY DEF Types, Sensors
  <2> QED BY <1>1, <2>1 DEF Rotation, Min
<1> QED BY <1>2 DEF Due, Alike, Types, Sensors

(* A step of a thread, whatever the coordinator is doing: work on a        *)
(* rotation goes on as such, and what goes wrong can be seen.              *)
LEMMA ThreadWorks ==
  ASSUME Types, NEW s \in Sensors, SensorThread(s), NEW n \in Nat \ {0}, AtWork(s, n)
  PROVE  /\ AtWork(s, n)' /\ ~BadNews(s)
         /\ troubled' => troubled \/ BadNews(s)'
<1> USE DEF Types, AtWork, BadNews, None, Stop, sensorVars
<1>1. CASE TakeRequest(s)
  <2>1. request[s] = <<n>> /\ worker[s] = "receiving" /\ response[s] = << >>
    BY <1>1 DEF TakeRequest
  <2>2. request'[s] = << >> /\ casting'[s] = n /\ worker'[s] = "casting"
    BY <1>1, <2>1, OneMessage DEF TakeRequest
  <2> QED BY <1>1, <2>1, <2>2 DEF TakeRequest
<1>2. CASE Answer(s)
  <2>1. casting[s] = n /\ request[s] = << >> /\ response[s] = << >>
    BY <1>2 DEF Answer
  <2>2. PICK ok \in BOOLEAN :
          /\ response' = [response EXCEPT ![s] =
                            Append(response[s], [rotation |-> casting[s], ok |-> ok])]
          /\ troubled' = (troubled \/ ~ok)
    BY <1>2 DEF Answer
  <2>3. response'[s] = <<[rotation |-> n, ok |-> ok]>>
    BY <2>1, <2>2, OneMessage
  <2>4. worker'[s] = "receiving" /\ request' = request /\ handles' = handles
    BY <1>2 DEF Answer
  <2>5. response'[s] # << >> /\ Head(response'[s]).ok = ok
    BY <2>3, OneMessage
  <2>6. AtWork(s, n)'
    BY <2>1, <2>3, <2>4
  <2>7. worker[s] = "casting"
    BY <1>2 DEF Answer
  <2> QED BY <2>1, <2>2, <2>5, <2>6, <2>7
<1>3. CASE Panic(s)
  BY <1>3 DEF Panic
<1> QED BY <1>1, <1>2, <1>3 DEF SensorThread

(* A thread without work takes no step, and one that was told to stop ends *)
(* at most.                                                                *)
LEMMA ThreadRests ==
  ASSUME Types, NEW s \in Sensors, SensorThread(s)
  PROVE  /\ ~Idle(s) /\ ~Gone(s)
         /\ Told(s) => Told(s)' /\ troubled' = troubled
<1> USE DEF Types, Idle, Gone, Told, Stop, sensorVars
<1>1. CASE TakeRequest(s)
  BY <1>1, OneMessage DEF TakeRequest
<1>2. CASE Answer(s)
  BY <1>2 DEF Answer
<1>3. CASE Panic(s)
  BY <1>3 DEF Panic
<1> QED BY <1>1, <1>2, <1>3 DEF SensorThread

(* A step of a thread is its own. *)
LEMMA ThreadAlone ==
  ASSUME Types, NEW s \in Sensors, SensorThread(s)
  PROVE  /\ UNCHANGED <<appVars, output, coordinator, result, pending, roundVars, handles>>
         /\ \A t \in Sensors \ {s} : /\ request'[t] = request[t] /\ worker'[t] = worker[t]
                                     /\ response'[t] = response[t]
                                     /\ casting'[t] = casting[t]
BY DEF SensorThread, TakeRequest, Answer, Panic, Types

LEMMA CurrentType ==
  ASSUME Types, Alike, coordinator \notin Over
  PROVE  Current \in 1..MaxRotation
<1>1. pending[1] \in 0..MaxRotation
  BY DEF Types, Sensors
<1> QED BY <1>1 DEF Alike, Current, Expected, None

(* Every step keeps the types.                                             *)
LEMMA TypesStep ==
  ASSUME Types, [Next]_vars
  PROVE  Types'
<1> USE DEF Types, vars, appVars, roundVars, sensorVars, None, Over, Paced
<1>1. CASE ReceiveBatch
  BY <1>1, OneMessage, ChannelTypes DEF ReceiveBatch
<1>2. CASE Shutdown
  BY <1>2 DEF Shutdown
<1>3. CASE Joined
  BY <1>3 DEF Joined
<1>4. CASE SeeStop
  BY <1>4 DEF SeeStop, Leave
<1>5. CASE Advance
  BY <1>5 DEF Advance
<1>6. CASE AdvanceFails
  BY <1>6 DEF AdvanceFails, Leave
<1>7. CASE Dispatch
  <2> USE <1>7 DEF Dispatch
  <2>1. request' \in [Sensors -> Seq(Nat)]
    <3> SUFFICES ASSUME NEW s \in Sensors PROVE request'[s] \in Seq(Nat)
      OBVIOUS
    <3>1. pending[s] \in Nat /\ request[s] \in Seq(Nat)
      OBVIOUS
    <3> QED BY <3>1, ChannelTypes
  <2>2. dispatched' \subseteq Sensors
    BY DEF Due
  <2> QED BY <2>1, <2>2
<1>8. CASE Schedule
  BY <1>8, SMTT(30) DEF Schedule
<1>9. CASE CollectResponse
  <2>1. PICK s \in Sensors : s = Min(Outstanding)
    BY <1>9, NextSensor DEF CollectResponse
  <2>2. /\ response[s] # << >>
        /\ collected' = collected \union
                          {[sensor |-> s, rotation |-> Head(response[s]).rotation]}
        /\ first_error' = (first_error \/ ~Head(response[s]).ok
                                       \/ Head(response[s]).rotation # Expected(s))
        /\ response' = [response EXCEPT ![s] = Tail(response[s])]
        /\ UNCHANGED <<appVars, output, coordinator, result, pending, dispatched, handles,
                       request, worker, casting, troubled>>
    BY <1>9, <2>1 DEF CollectResponse
  <2>3. Head(response[s]) \in Answers /\ Tail(response[s]) \in Seq(Answers)
    BY <2>1, <2>2, ChannelTypes
  <2>4. response' \in [Sensors -> Seq(Answers)]
    BY <2>2, <2>3
  <2>5. collected' \subseteq [sensor : Sensors, rotation : Nat]
    BY <2>1, <2>2, <2>3 DEF Answers
  <2> QED BY <2>2, <2>4, <2>5
<1>10. CASE CollectEnd
  <2>1. PICK s \in Sensors : s = Min(Outstanding)
    BY <1>10, NextSensor DEF CollectEnd
  <2>2. /\ response[s] = << >> /\ worker[s] = "ended"
        /\ collected' = collected \union {[sensor |-> s, rotation |-> None]}
        /\ handles' = handles \ {s} /\ first_error' = TRUE
        /\ UNCHANGED <<appVars, output, coordinator, result, pending, dispatched, sensorVars>>
    BY <1>10, <2>1 DEF CollectEnd
  <2> QED BY <2>1, <2>2
<1>11. CASE EndBatch
  BY <1>11 DEF EndBatch
<1>12. CASE FailBatch
  BY <1>12 DEF FailBatch, Leave
<1>13. CASE SendBatch
  BY <1>13, OneMessage, ChannelTypes DEF SendBatch, NextBatch
<1>14. CASE SendRefused
  BY <1>14 DEF SendRefused, Leave, NextBatch
<1>15. CASE StopSensors
  BY <1>15, OneMessage, ChannelTypes DEF Stop, StopSensors
<1>16. CASE JoinSensors
  BY <1>16 DEF JoinSensors
<1>17. ASSUME NEW s \in Sensors, SensorThread(s) PROVE Types'
  <2>1. CASE TakeRequest(s)
    BY <2>1, ChannelTypes, SMTT(30) DEF TakeRequest
  <2>2. CASE Answer(s)
    BY <2>2, ChannelTypes, SMTT(30) DEF Answer, Answers
  <2>3. CASE Panic(s)
    BY <2>3 DEF Panic
  <2> QED BY <1>17, <2>1, <2>2, <2>3 DEF SensorThread
<1>18. CASE UNCHANGED vars
  BY <1>18
<1> QED
  BY <1>1, <1>2, <1>3, <1>4, <1>5, <1>6, <1>7, <1>8, <1>9, <1>10, <1>11, <1>12, <1>13,
     <1>14, <1>15, <1>16, <1>17, <1>18
  DEF Next, Application, Coordinator

(* The sensors stay alike.                                                 *)
LEMMA AlikeStep ==
  ASSUME Types, Alike, Scheduling, [Next]_vars
  PROVE  Alike'
<1> USE DEF Types, Alike, Current, Expected, vars, appVars, roundVars, sensorVars,
   None, Over, Paced
<1>1. CASE ReceiveBatch
  BY <1>1 DEF ReceiveBatch
<1>2. CASE Shutdown
  BY <1>2 DEF Shutdown
<1>3. CASE Joined
  BY <1>3 DEF Joined
<1>4. CASE SeeStop
  BY <1>4 DEF SeeStop, Leave
<1>5. CASE Advance
  BY <1>5 DEF Advance
<1>6. CASE AdvanceFails
  BY <1>6 DEF AdvanceFails, Leave
<1>7. CASE Dispatch
  BY <1>7 DEF Dispatch
<1>8. CASE Schedule
  <2> USE <1>8 DEF Schedule
  <2>1. 1 \in Sensors /\ 2 \in Sensors /\ dispatched = Sensors
    BY DEF Scheduling, Sensors
  <2>2. pending'[1] = pending'[2]
    BY <2>1
  <2>3. pending'[1] = None => first_error'
    BY <2>1
  <2>4. Current' # None
    BY <2>1
  <2> QED BY <2>2, <2>3, <2>4
<1>9. CASE CollectResponse
  BY <1>9 DEF CollectResponse
<1>10. CASE CollectEnd
  BY <1>10 DEF CollectEnd
<1>11. CASE EndBatch
  BY <1>11 DEF EndBatch
<1>12. CASE FailBatch
  BY <1>12 DEF FailBatch, Leave
<1>13. CASE SendBatch
  BY <1>13 DEF SendBatch, NextBatch
<1>14. CASE SendRefused
  BY <1>14 DEF SendRefused, Leave, NextBatch
<1>15. CASE StopSensors
  BY <1>15 DEF StopSensors
<1>16. CASE JoinSensors
  BY <1>16 DEF JoinSensors
<1>17. ASSUME NEW s \in Sensors, SensorThread(s) PROVE Alike'
  BY <1>17, ThreadAlone DEF SensorThread
<1>18. CASE UNCHANGED vars
  BY <1>18
<1> QED
  BY <1>1, <1>2, <1>3, <1>4, <1>5, <1>6, <1>7, <1>8, <1>9, <1>10, <1>11, <1>12, <1>13,
     <1>14, <1>15, <1>16, <1>17, <1>18
  DEF Next, Application, Coordinator

(* The coordinator takes its pauses with all threads idle.                 *)
LEMMA RestingStep ==
  ASSUME Types, Alike, Resting, Scheduling, Collecting, Ending, BatchSoFar, [Next]_vars
  PROVE  Resting'
<1> USE DEF Types, Resting, Idle, vars, appVars, roundVars, sensorVars, None, Over,
   Paced
<1>1. CASE ReceiveBatch
  BY <1>1 DEF ReceiveBatch
<1>2. CASE Shutdown
  BY <1>2 DEF Shutdown
<1>3. CASE Joined
  BY <1>3 DEF Joined
<1>4. CASE SeeStop
  BY <1>4 DEF SeeStop, Leave
<1>5. CASE Advance
  BY <1>5 DEF Advance
<1>6. CASE AdvanceFails
  BY <1>6 DEF AdvanceFails, Leave
<1>7. CASE Dispatch
  BY <1>7 DEF Dispatch
<1>8. CASE Schedule
  BY <1>8 DEF Schedule
<1>9. CASE CollectResponse
  BY <1>9 DEF CollectResponse
<1>10. CASE CollectEnd
  BY <1>10 DEF CollectEnd
<1>11. CASE EndBatch
  BY <1>11, OneMessage DEF Collecting, Gone, BadNews, EndBatch
<1>12. CASE FailBatch
  BY <1>12 DEF FailBatch, Leave
<1>13. CASE SendBatch
  BY <1>13, OneMessage DEF SendBatch, NextBatch
<1>14. CASE SendRefused
  BY <1>14 DEF SendRefused, Leave, NextBatch
<1>15. CASE StopSensors
  BY <1>15 DEF StopSensors
<1>16. CASE JoinSensors
  BY <1>16 DEF JoinSensors
<1>17. ASSUME NEW s \in Sensors, SensorThread(s) PROVE Resting'
  <2>1. coordinator' = coordinator /\ ~Idle(s)
    BY <1>17, ThreadAlone, ThreadRests
  <2> QED BY <2>1
<1>18. CASE UNCHANGED vars
  BY <1>18
<1> QED
  BY <1>1, <1>2, <1>3, <1>4, <1>5, <1>6, <1>7, <1>8, <1>9, <1>10, <1>11, <1>12, <1>13,
     <1>14, <1>15, <1>16, <1>17, <1>18
  DEF Next, Application, Coordinator

(* Requests find idle threads.                                             *)
LEMMA SchedulingStep ==
  ASSUME Types, Alike, Resting, Scheduling, Collecting, Ending, BatchSoFar, [Next]_vars
  PROVE  Scheduling'
<1> USE DEF Types, Scheduling, AtWork, BadNews, Current, Expected, vars, appVars,
   roundVars, sensorVars, None, Over, Paced
<1>1. CASE ReceiveBatch
  BY <1>1 DEF ReceiveBatch
<1>2. CASE Shutdown
  BY <1>2 DEF Shutdown
<1>3. CASE Joined
  BY <1>3 DEF Joined
<1>4. CASE SeeStop
  BY <1>4 DEF SeeStop, Leave
<1>5. CASE Advance
  BY <1>5 DEF Advance
<1>6. CASE AdvanceFails
  BY <1>6 DEF AdvanceFails, Leave
<1>7. CASE Dispatch
  <2> USE <1>7 DEF Dispatch
  <2>1. dispatched' = Sensors /\ coordinator = "dispatching" /\ ~troubled' /\ Current' = Current
    BY AllDue DEF Resting
  <2>2. ASSUME NEW s \in Sensors PROVE AtWork(s, Current)'
    <3>1. request[s] = << >> /\ Idle(s)
      BY <2>1 DEF Resting, Idle
    <3>2. pending[s] = Current
      BY <2>1 DEF Alike, Sensors
    <3>3. request'[s] = Append(request[s], pending[s])
      BY AllDue
    <3>4. request'[s] = <<Current>>
      BY <3>1, <3>2, <3>3, OneMessage
    <3> QED BY <2>1, <3>1, <3>4 DEF Idle
  <2> QED BY <2>1, <2>2
<1>8. CASE Schedule
  BY <1>8 DEF Schedule
<1>9. CASE CollectResponse
  BY <1>9 DEF CollectResponse
<1>10. CASE CollectEnd
  BY <1>10 DEF CollectEnd
<1>11. CASE EndBatch
  BY <1>11 DEF EndBatch
<1>12. CASE FailBatch
  BY <1>12 DEF FailBatch, Leave
<1>13. CASE SendBatch
  BY <1>13 DEF SendBatch, NextBatch
<1>14. CASE SendRefused
  BY <1>14 DEF SendRefused, Leave, NextBatch
<1>15. CASE StopSensors
  BY <1>15 DEF StopSensors
<1>16. CASE JoinSensors
  BY <1>16 DEF JoinSensors
<1>17. ASSUME NEW s \in Sensors, SensorThread(s) PROVE Scheduling'
  <2>1. coordinator' = coordinator /\ Current' = Current /\ dispatched' = dispatched
        /\ handles' = handles
    BY <1>17, ThreadAlone DEF roundVars
  <2>2. SUFFICES ASSUME coordinator = "scheduling" PROVE Scheduling'
    BY <2>1
  <2>3. AtWork(s, Current) /\ Current \in Nat \ {0}
    <3>1. AtWork(s, Current)
      <4> HIDE DEF AtWork, BadNews, Current, Types
      <4> QED BY <2>2
    <3>2. coordinator \notin Over
      BY <2>2
    <3>3. Current \in 1..MaxRotation
      <4> HIDE DEF Current, Types, Scheduling
      <4> QED BY <3>2, CurrentType
    <3>4. 1..MaxRotation \subseteq Nat \ {0}
      OBVIOUS
    <3> HIDE DEF AtWork, Current, Types, Scheduling
    <3> QED BY <3>1, <3>3, <3>4
  <2>4. AtWork(s, Current)' /\ ~BadNews(s) /\ (troubled' => troubled \/ BadNews(s)')
    <3> HIDE DEF AtWork, BadNews, Current, Scheduling
    <3> QED BY <1>17, <2>1, <2>3, ThreadWorks
  <2>5. ASSUME NEW t \in Sensors \ {s}
        PROVE  AtWork(t, Current)' /\ (BadNews(t) => BadNews(t)')
    BY <1>17, <2>1, <2>2, <2>5, ThreadAlone, ZenonT(30)
  <2> HIDE DEF AtWork, BadNews, Current
  <2> QED BY <2>1, <2>2, <2>4, <2>5
<1>18. CASE UNCHANGED vars
  BY <1>18
<1> QED
  BY <1>1, <1>2, <1>3, <1>4, <1>5, <1>6, <1>7, <1>8, <1>9, <1>10, <1>11, <1>12, <1>13,
     <1>14, <1>15, <1>16, <1>17, <1>18
  DEF Next, Application, Coordinator

(* Scheduling past a rotation is taken back by Current. *)
LEMMA ScheduleKeepsCurrent ==
  ASSUME Types, Alike, Schedule, dispatched = Sensors
  PROVE  Current' = Current
<1> DEFINE n == pending[1]
<1>1. coordinator = "scheduling" /\ coordinator' = "collecting" /\ Current = n
      /\ pending'[1] = IF n < MaxRotation THEN n + 1 ELSE None
  BY DEF Schedule, Current, Sensors
<1>2. n \in 1..MaxRotation
  BY <1>1, CurrentType DEF Over
<1>3. Current' = IF pending'[1] = None THEN MaxRotation ELSE pending'[1] - 1
  BY <1>1 DEF Current, Expected
<1> HIDE DEF n
<1> QED BY <1>1, <1>2, <1>3 DEF None

(* The sensors without an answer are one less after each. *)
LEMMA OneAnswer ==
  ASSUME Types, NEW s \in Sensors, NEW n, dispatched' = dispatched,
         collected' = collected \union {[sensor |-> s, rotation |-> n]}
  PROVE  Outstanding' = Outstanding \ {s}
<1> DEFINE answer == [sensor |-> s, rotation |-> n]
<1>1. {c.sensor : c \in collected'} = {c.sensor : c \in collected} \union {s}
  <2>1. answer.sensor = s /\ collected' = collected \union {answer}
    OBVIOUS
  <2> HIDE DEF answer
  <2> QED BY <2>1
<1> QED BY <1>1 DEF Outstanding

(* Each answer settles one thread, and trouble stays in sight.             *)
LEMMA CollectingStep ==
  ASSUME Types, Alike, Resting, Scheduling, Collecting, Ending, BatchSoFar, [Next]_vars
  PROVE  Collecting'
<1> USE DEF Types, Collecting, vars, appVars, roundVars, sensorVars, None, Over, Paced
<1>1. CASE ReceiveBatch
  BY <1>1 DEF Outstanding, AtWork, Idle, Gone, BadNews, Current, Expected,
     ReceiveBatch
<1>2. CASE Shutdown
  BY <1>2 DEF Outstanding, AtWork, Idle, Gone, BadNews, Current, Expected, Shutdown
<1>3. CASE Joined
  BY <1>3 DEF Outstanding, AtWork, Idle, Gone, BadNews, Current, Expected, Joined
<1>4. CASE SeeStop
  BY <1>4 DEF SeeStop, Leave
<1>5. CASE Advance
  BY <1>5 DEF Advance
<1>6. CASE AdvanceFails
  BY <1>6 DEF AdvanceFails, Leave
<1>7. CASE Dispatch
  BY <1>7 DEF Dispatch
<1>8. CASE Schedule
  <2>1. /\ dispatched = Sensors /\ collected = {} /\ Current' = Current
        /\ UNCHANGED <<handles, request, response, worker, casting, troubled, dispatched,
                       collected>>
    <3>1. dispatched = Sensors /\ 1 \in Sensors /\ pending[1] \in 0..MaxRotation
      BY <1>8 DEF Schedule, Scheduling, Sensors
    <3>2. Current' = Current
      BY <1>8, <3>1, ScheduleKeepsCurrent
    <3> QED BY <1>8, <3>1, <3>2 DEF Schedule, BatchSoFar
  <2>2. Outstanding' = Sensors
    BY <2>1 DEF Outstanding
  <2>3. /\ \A s \in Sensors : AtWork(s, Current)
        /\ troubled => \E s \in Sensors : BadNews(s)
    BY <1>8 DEF Schedule, Scheduling
  <2> QED BY <2>1, <2>2, <2>3 DEF AtWork, BadNews
<1>9. CASE CollectResponse
  <2>1. PICK s \in Sensors : s = Min(Outstanding)
    BY <1>9, NextSensor DEF CollectResponse
  <2>2. /\ response[s] # << >>
        /\ collected' = collected \union
                          {[sensor |-> s, rotation |-> Head(response[s]).rotation]}
        /\ first_error' = (first_error \/ ~Head(response[s]).ok
                                       \/ Head(response[s]).rotation # Expected(s))
        /\ response' = [response EXCEPT ![s] = Tail(response[s])]
        /\ UNCHANGED <<appVars, output, coordinator, result, pending, dispatched, handles,
                       request, worker, casting, troubled>>
    BY <1>9, <2>1 DEF CollectResponse
  <2>3. s \in Outstanding /\ coordinator = "collecting" /\ coordinator' = "collecting"
        /\ Current' = Current /\ Outstanding' = Outstanding \ {s}
        /\ Outstanding \subseteq Sensors
    <3>1. coordinator = "collecting" /\ coordinator' = "collecting" /\ s \in Outstanding
      BY <1>9, <2>1, <2>2, NextSensor DEF CollectResponse
    <3>2. Outstanding' = Outstanding \ {s}
      BY <2>2, OneAnswer
    <3> QED BY <2>2, <3>1, <3>2 DEF Current, Expected, Outstanding
  <2>4. PICK ok \in BOOLEAN : response[s] = <<[rotation |-> Current, ok |-> ok]>>
                             /\ request[s] = << >> /\ worker[s] = "receiving"
    <3>1. AtWork(s, Current) /\ response[s] # << >>
      BY <2>2, <2>3
    <3> QED BY <3>1 DEF AtWork
  <2>5. Idle(s)'
    <3>1. s \in handles
      BY <2>3 DEF AtWork
    <3>2. response'[s] = << >>
      BY <2>2, <2>4, OneMessage
    <3> QED BY <2>2, <2>4, <3>1, <3>2 DEF Idle
  <2>6. BadNews(s) => first_error'
    BY <2>2, <2>4, OneMessage DEF BadNews
  <2>7. ASSUME NEW t \in Sensors \ {s}
        PROVE  /\ request'[t] = request[t] /\ response'[t] = response[t]
               /\ worker'[t] = worker[t] /\ casting'[t] = casting[t]
               /\ t \in handles' <=> t \in handles
    BY <2>2, <2>7
  <2>8. first_error => first_error'
    BY <2>2
  <2> HIDE DEF Types
  <2>9. /\ \A t \in Outstanding' : AtWork(t, Current)'
        /\ \A t \in Sensors \ Outstanding' : Idle(t)' \/ (Gone(t)' /\ first_error')
    <3>1. ASSUME NEW t \in Outstanding' PROVE AtWork(t, Current)'
      <4>1. t \in Outstanding /\ t \in Sensors \ {s} /\ AtWork(t, Current)
        BY <2>3
      <4> QED BY <2>3, <2>7, <4>1 DEF AtWork
    <3>2. ASSUME NEW t \in Sensors \ Outstanding', t # s
          PROVE  Idle(t)' \/ (Gone(t)' /\ first_error')
      <4>1. t \in Sensors \ {s} /\ (Idle(t) \/ (Gone(t) /\ first_error))
        BY <2>3, <3>2
      <4> QED BY <2>7, <2>8, <4>1 DEF Idle, Gone
    <3> QED BY <2>5, <3>1, <3>2
  <2>10. troubled' => first_error' \/ \E t \in Outstanding' : BadNews(t)'
    <3>1. SUFFICES ASSUME troubled', ~first_error'
                   PROVE  \E t \in Outstanding' : BadNews(t)'
      OBVIOUS
    <3>2. PICK t \in Outstanding : BadNews(t)
      BY <2>2, <2>3, <2>8, <3>1
    <3>3. t \in Sensors \ {s} /\ t \in Outstanding'
      BY <2>3, <2>6, <3>1, <3>2
    <3>4. BadNews(t)'
      BY <2>7, <3>2, <3>3 DEF BadNews
    <3> QED BY <3>3, <3>4
  <2> QED BY <2>2, <2>3, <2>9, <2>10
<1>10. CASE CollectEnd
  <2>1. PICK s \in Sensors : s = Min(Outstanding)
    BY <1>10, NextSensor DEF CollectEnd
  <2>2. /\ response[s] = << >> /\ worker[s] = "ended"
        /\ collected' = collected \union {[sensor |-> s, rotation |-> None]}
        /\ handles' = handles \ {s} /\ first_error' = TRUE
        /\ UNCHANGED <<appVars, output, coordinator, result, pending, dispatched, sensorVars>>
    BY <1>10, <2>1 DEF CollectEnd
  <2>3. s \in Outstanding /\ coordinator = "collecting" /\ coordinator' = "collecting"
        /\ Current' = Current /\ Outstanding' = Outstanding \ {s}
        /\ Outstanding \subseteq Sensors
    <3>1. coordinator = "collecting" /\ coordinator' = "collecting" /\ s \in Outstanding
      BY <1>10, <2>1, <2>2, NextSensor DEF CollectEnd
    <3>2. Outstanding' = Outstanding \ {s}
      BY <2>2, OneAnswer
    <3> QED BY <2>2, <3>1, <3>2 DEF Current, Expected, Outstanding
  <2>4. Gone(s)'
    BY <2>2, <2>3 DEF AtWork, Gone, sensorVars
  <2>5. ASSUME NEW t \in Sensors \ {s}
        PROVE  /\ request'[t] = request[t] /\ response'[t] = response[t]
               /\ worker'[t] = worker[t] /\ casting'[t] = casting[t]
               /\ t \in handles' <=> t \in handles
    BY <2>2, <2>5 DEF sensorVars
  <2> HIDE DEF Types
  <2>6. /\ \A t \in Outstanding' : AtWork(t, Current)'
        /\ \A t \in Sensors \ Outstanding' : Idle(t)' \/ (Gone(t)' /\ first_error')
    <3>1. ASSUME NEW t \in Outstanding' PROVE AtWork(t, Current)'
      <4>1. t \in Outstanding /\ t \in Sensors \ {s} /\ AtWork(t, Current)
        BY <2>3
      <4> QED BY <2>3, <2>5, <4>1 DEF AtWork
    <3>2. ASSUME NEW t \in Sensors \ Outstanding', t # s
          PROVE  Idle(t)' \/ (Gone(t)' /\ first_error')
      <4>1. t \in Sensors \ {s} /\ (Idle(t) \/ (Gone(t) /\ first_error))
        BY <2>3, <3>2
      <4> QED BY <2>2, <2>5, <4>1 DEF Idle, Gone
    <3> QED BY <2>2, <2>4, <3>1, <3>2
  <2> QED BY <2>2, <2>3, <2>6
<1>11. CASE EndBatch
  BY <1>11 DEF EndBatch
<1>12. CASE FailBatch
  BY <1>12 DEF FailBatch, Leave
<1>13. CASE SendBatch
  BY <1>13 DEF SendBatch, NextBatch
<1>14. CASE SendRefused
  BY <1>14 DEF SendRefused, Leave, NextBatch
<1>15. CASE StopSensors
  BY <1>15 DEF StopSensors
<1>16. CASE JoinSensors
  BY <1>16 DEF JoinSensors
<1>17. ASSUME NEW s \in Sensors, SensorThread(s) PROVE Collecting'
  <2>1. /\ coordinator' = coordinator /\ Current' = Current /\ dispatched' = dispatched
        /\ handles' = handles /\ first_error' = first_error /\ Outstanding' = Outstanding
    BY <1>17, ThreadAlone DEF roundVars, Outstanding, Current, Expected
  <2>2. SUFFICES ASSUME coordinator = "collecting" PROVE Collecting'
    BY <2>1
  <2>3. s \in Outstanding /\ AtWork(s, Current)
    BY <1>17, <2>2, ThreadRests
  <2>8. Outstanding \subseteq Sensors
    BY DEF Outstanding
  <2>4. AtWork(s, Current)' /\ ~BadNews(s) /\ (troubled' => troubled \/ BadNews(s)')
    <3>1. Current \in Nat \ {0}
      BY <2>2, CurrentType, SMTT(30)
    <3> HIDE DEF Collecting
    <3> QED BY <1>17, <2>1, <2>3, <3>1, ThreadWorks
  <2>5. ASSUME NEW t \in Sensors \ {s}
        PROVE  /\ AtWork(t, Current) => AtWork(t, Current)'
               /\ Idle(t) => Idle(t)'
               /\ Gone(t) => Gone(t)'
               /\ BadNews(t) => BadNews(t)'
    BY <1>17, <2>1, <2>5, ThreadAlone DEF AtWork, Idle, Gone, BadNews
  <2> HIDE DEF Types
  <2>6. /\ \A t \in Outstanding' : AtWork(t, Current)'
        /\ \A t \in Sensors \ Outstanding' : Idle(t)' \/ (Gone(t)' /\ first_error')
    BY <2>1, <2>2, <2>3, <2>4, <2>5, <2>8
  <2>7. troubled' => first_error' \/ \E t \in Outstanding' : BadNews(t)'
    BY <2>1, <2>2, <2>3, <2>4, <2>5, <2>8
  <2> QED BY <2>1, <2>2, <2>6, <2>7
<1>18. CASE UNCHANGED vars
  BY <1>18 DEF Outstanding, AtWork, Idle, Gone, BadNews, Current, Expected
<1> QED
  BY <1>1, <1>2, <1>3, <1>4, <1>5, <1>6, <1>7, <1>8, <1>9, <1>10, <1>11, <1>12, <1>13,
     <1>14, <1>15, <1>16, <1>17, <1>18
  DEF Next, Application, Coordinator

(* Threads that were told to stop do nothing else.                         *)
LEMMA EndingStep ==
  ASSUME Types, Alike, Resting, Scheduling, Collecting, Ending, BatchSoFar, [Next]_vars
  PROVE  Ending'
<1> USE DEF Types, Ending, vars, appVars, roundVars, sensorVars, None, Over, Paced
<1>1. CASE ReceiveBatch
  BY <1>1 DEF Idle, Gone, Told, ReceiveBatch
<1>2. CASE Shutdown
  BY <1>2 DEF Idle, Gone, Told, Shutdown
<1>3. CASE Joined
  BY <1>3 DEF Idle, Gone, Told, Joined
<1>4. CASE SeeStop
  BY <1>4 DEF Resting, Idle, SeeStop, Leave
<1>5. CASE Advance
  BY <1>5 DEF Advance
<1>6. CASE AdvanceFails
  BY <1>6 DEF Resting, Idle, AdvanceFails, Leave
<1>7. CASE Dispatch
  BY <1>7 DEF Dispatch
<1>8. CASE Schedule
  BY <1>8 DEF Schedule
<1>9. CASE CollectResponse
  BY <1>9 DEF CollectResponse
<1>10. CASE CollectEnd
  BY <1>10 DEF CollectEnd
<1>11. CASE EndBatch
  BY <1>11 DEF EndBatch
<1>12. CASE FailBatch
  BY <1>12 DEF Collecting, Idle, Gone, FailBatch, Leave
<1>13. CASE SendBatch
  BY <1>13 DEF SendBatch, NextBatch
<1>14. CASE SendRefused
  BY <1>14 DEF Resting, Idle, SendRefused, Leave, NextBatch
<1>15. CASE StopSensors
  BY <1>15, OneMessage DEF Idle, Gone, Told, StopSensors
<1>16. CASE JoinSensors
  BY <1>16 DEF Gone, Told, JoinSensors
<1>17. ASSUME NEW s \in Sensors, SensorThread(s) PROVE Ending'
  <2>1. coordinator' = coordinator /\ handles' = handles
    BY <1>17, ThreadAlone
  <2>2. ASSUME NEW t \in Sensors \ {s}
        PROVE  /\ Idle(t) => Idle(t)'
               /\ Gone(t) => Gone(t)'
               /\ Told(t) => Told(t)'
               /\ worker[t] = "ended" => worker'[t] = "ended"
    BY <1>17, <2>1, <2>2, ThreadAlone DEF Idle, Gone, Told
  <2>3. ~Idle(s) /\ ~Gone(s) /\ (Told(s) => Told(s)') /\ worker[s] # "ended"
    BY <1>17, ThreadRests DEF SensorThread, TakeRequest, Answer, Panic
  <2> QED BY <2>1, <2>2, <2>3
<1>18. CASE UNCHANGED vars
  BY <1>18 DEF Idle, Gone, Told
<1> QED
  BY <1>1, <1>2, <1>3, <1>4, <1>5, <1>6, <1>7, <1>8, <1>9, <1>10, <1>11, <1>12, <1>13,
     <1>14, <1>15, <1>16, <1>17, <1>18
  DEF Next, Application, Coordinator

(* What is collected is the batch of the rotation, as far as it has come.  *)
LEMMA BatchSoFarStep ==
  ASSUME Types, Alike, Resting, Scheduling, Collecting, Ending, BatchSoFar, [Next]_vars
  PROVE  BatchSoFar'
<1> USE DEF BatchSoFar, vars, appVars, roundVars, sensorVars, None, Over, Paced
<1>1. CASE ReceiveBatch
  BY <1>1 DEF Outstanding, Current, Expected, ReceiveBatch
<1>2. CASE Shutdown
  BY <1>2 DEF Outstanding, Current, Expected, Shutdown
<1>3. CASE Joined
  BY <1>3 DEF Outstanding, Current, Expected, Joined
<1>4. CASE SeeStop
  BY <1>4 DEF SeeStop, Leave
<1>5. CASE Advance
  BY <1>5 DEF Advance
<1>6. CASE AdvanceFails
  BY <1>6 DEF AdvanceFails, Leave
<1>7. CASE Dispatch
  BY <1>7 DEF Dispatch
<1>8. CASE Schedule
  <2>1. dispatched = Sensors /\ collected = {} /\ collected' = {} /\ dispatched' = Sensors
    BY <1>8 DEF Schedule, Scheduling
  <2>2. Outstanding' = Sensors
    BY <2>1 DEF Outstanding
  <2> QED BY <1>8, <2>1, <2>2 DEF Schedule
<1>9. CASE CollectResponse
  <2>1. PICK s \in Sensors : s = Min(Outstanding)
    BY <1>9, NextSensor DEF CollectResponse
  <2>2. /\ response[s] # << >>
        /\ collected' = collected \union
                          {[sensor |-> s, rotation |-> Head(response[s]).rotation]}
        /\ first_error' = (first_error \/ ~Head(response[s]).ok
                                       \/ Head(response[s]).rotation # Expected(s))
        /\ response' = [response EXCEPT ![s] = Tail(response[s])]
        /\ UNCHANGED <<appVars, output, coordinator, result, pending, dispatched, handles,
                       request, worker, casting, troubled>>
    BY <1>9, <2>1 DEF CollectResponse
  <2>3. s \in Outstanding /\ coordinator = "collecting" /\ coordinator' = "collecting"
        /\ Current' = Current /\ Outstanding' = Outstanding \ {s}
    <3>1. coordinator = "collecting" /\ coordinator' = "collecting" /\ s \in Outstanding
      BY <1>9, <2>1, <2>2, NextSensor DEF CollectResponse
    <3>2. Outstanding' = Outstanding \ {s}
      BY <2>2, OneAnswer
    <3> QED BY <2>2, <3>1, <3>2 DEF Current, Expected
  <2>4. SUFFICES ASSUME ~first_error'
        PROVE collected' = {[sensor |-> t, rotation |-> Current] : t \in Sensors \ Outstanding'}
    BY <2>3
  <2>5. ~first_error /\ Head(response[s]).rotation = Current
    <3>1. Expected(s) = Expected(1)
      BY DEF Expected, Alike, Sensors
    <3> QED BY <2>2, <2>3, <2>4, <3>1 DEF Current
  <2>6. collected = {[sensor |-> t, rotation |-> Current] : t \in Sensors \ Outstanding}
    BY <2>3, <2>5
  <2>7. collected' = collected \union {[sensor |-> s, rotation |-> Current]}
    BY <2>2, <2>5
  <2>8. Sensors \ Outstanding' = (Sensors \ Outstanding) \union {s}
    BY <2>3
  <2> HIDE DEF BatchSoFar
  <2> QED BY <2>3, <2>6, <2>7, <2>8
<1>10. CASE CollectEnd
  <2>1. PICK s \in Sensors : s = Min(Outstanding)
    BY <1>10, NextSensor DEF CollectEnd
  <2>2. /\ response[s] = << >> /\ worker[s] = "ended"
        /\ collected' = collected \union {[sensor |-> s, rotation |-> None]}
        /\ handles' = handles \ {s} /\ first_error' = TRUE
        /\ UNCHANGED <<appVars, output, coordinator, result, pending, dispatched, sensorVars>>
    BY <1>10, <2>1 DEF CollectEnd
  <2> QED BY <1>10, <2>2 DEF CollectEnd
<1>11. CASE EndBatch
  <2>1. coordinator' = "sending" /\ collected' = collected /\ Current' = Current
    BY <1>11 DEF EndBatch, Current, Expected
  <2>2. Outstanding = {} /\ ~first_error /\ coordinator = "collecting"
    BY <1>11 DEF EndBatch
  <2>3. collected = {[sensor |-> s, rotation |-> Current] : s \in Sensors \ {}}
    BY <2>2
  <2>4. Sensors \ {} = Sensors
    OBVIOUS
  <2>5. collected' = Batch(Current')
    BY <2>1, <2>3, <2>4 DEF Batch
  <2> QED BY <2>1, <2>5
<1>12. CASE FailBatch
  BY <1>12 DEF FailBatch, Leave
<1>13. CASE SendBatch
  BY <1>13 DEF SendBatch, NextBatch
<1>14. CASE SendRefused
  BY <1>14 DEF SendRefused, Leave, NextBatch
<1>15. CASE StopSensors
  BY <1>15 DEF StopSensors
<1>16. CASE JoinSensors
  BY <1>16 DEF JoinSensors
<1>17. ASSUME NEW s \in Sensors, SensorThread(s) PROVE BatchSoFar'
  <2>1. UNCHANGED <<coordinator, first_error, collected, Outstanding, Current>>
    BY <1>17, ThreadAlone DEF roundVars, Outstanding, Current, Expected
  <2> QED BY <2>1
<1>18. CASE UNCHANGED vars
  BY <1>18 DEF Outstanding, Current, Expected
<1> QED
  BY <1>1, <1>2, <1>3, <1>4, <1>5, <1>6, <1>7, <1>8, <1>9, <1>10, <1>11, <1>12, <1>13,
     <1>14, <1>15, <1>16, <1>17, <1>18
  DEF Next, Application, Coordinator

(* A batch is sent for every rotation before the current one.              *)
LEMMA SentStep ==
  ASSUME Types, Alike, Resting, Scheduling, Collecting, Ending, BatchSoFar, Sent,
         [Next]_vars
  PROVE  Sent'
<1> USE DEF Sent, vars, appVars, roundVars, sensorVars, None, Over, Paced
<1>1. CASE ReceiveBatch
  <2>1. Len(received') = Len(received) + 1 /\ Len(output') = Len(output) - 1
        /\ Len(received) \in Nat /\ Len(output) \in Nat
    BY <1>1, ChannelTypes DEF ReceiveBatch, Types
  <2>2. UNCHANGED <<coordinator, Current>>
    BY <1>1 DEF ReceiveBatch, Current, Expected
  <2> QED BY <2>1, <2>2
<1>2. CASE Shutdown
  BY <1>2 DEF Current, Expected, Shutdown
<1>3. CASE Joined
  BY <1>3 DEF Current, Expected, Joined
<1>4. CASE SeeStop
  BY <1>4 DEF SeeStop, Leave
<1>5. CASE Advance
  BY <1>5 DEF Current, Expected, Advance
<1>6. CASE AdvanceFails
  BY <1>6 DEF AdvanceFails, Leave
<1>7. CASE Dispatch
  BY <1>7 DEF Current, Expected, Dispatch
<1>8. CASE Schedule
  <2>1. Current' = Current
    BY <1>8, ScheduleKeepsCurrent DEF Schedule, Scheduling
  <2> QED BY <1>8, <2>1 DEF Schedule
<1>9. CASE CollectResponse
  BY <1>9 DEF Current, Expected, CollectResponse
<1>10. CASE CollectEnd
  BY <1>10 DEF Current, Expected, CollectEnd
<1>11. CASE EndBatch
  BY <1>11 DEF Current, Expected, EndBatch
<1>12. CASE FailBatch
  BY <1>12 DEF FailBatch, Leave
<1>13. CASE SendBatch
  <2>1. /\ Len(output') = Len(output) + 1 /\ received' = received
        /\ Len(received) \in Nat /\ Len(output) \in Nat
    BY <1>13, ChannelTypes DEF SendBatch, Types
  <2>2. Current' = pending[1] /\ Current = pending[1] - 1 /\ pending[1] \in Nat
    BY <1>13 DEF SendBatch, Current, Expected, Alike, Types, Sensors
  <2>3. coordinator = "sending" /\ coordinator' = "pacing"
    BY <1>13 DEF SendBatch
  <2> QED BY <2>1, <2>2, <2>3
<1>14. CASE SendRefused
  BY <1>14 DEF SendRefused, Leave, NextBatch
<1>15. CASE StopSensors
  BY <1>15 DEF StopSensors
<1>16. CASE JoinSensors
  BY <1>16 DEF JoinSensors
<1>17. ASSUME NEW s \in Sensors, SensorThread(s) PROVE Sent'
  <2>1. UNCHANGED <<coordinator, received, output, Current>>
    BY <1>17, ThreadAlone DEF Current, Expected
  <2> QED BY <2>1
<1>18. CASE UNCHANGED vars
  BY <1>18 DEF Current, Expected
<1> QED
  BY <1>1, <1>2, <1>3, <1>4, <1>5, <1>6, <1>7, <1>8, <1>9, <1>10, <1>11, <1>12, <1>13,
     <1>14, <1>15, <1>16, <1>17, <1>18
  DEF Next, Application, Coordinator

(* Receiving moves a batch within what was sent, and sending appends one. *)
LEMMA Passing ==
  ASSUME NEW S, NEW r \in Seq(S), NEW o \in Seq(S)
  PROVE  /\ o # << >> => Append(r, Head(o)) \o Tail(o) = r \o o
         /\ \A x \in S : r \o Append(o, x) = Append(r \o o, x)
         /\ Len(r \o o) = Len(r) + Len(o) /\ r \o o \in Seq(S)
<1>1. Len(r \o o) = Len(r) + Len(o) /\ r \o o \in Seq(S)
  OBVIOUS
<1>2. ASSUME o # << >> PROVE Append(r, Head(o)) \o Tail(o) = r \o o
  <2>1. /\ Head(o) \in S /\ Tail(o) \in Seq(S) /\ Len(o) \in Nat \ {0}
        /\ Len(Tail(o)) = Len(o) - 1 /\ Head(o) = o[1]
        /\ \A i \in 1..Len(o) - 1 : Tail(o)[i] = o[i + 1]
    BY <1>2
  <2> DEFINE f == Append(r, Head(o)) \o Tail(o)  g == r \o o
  <2>2. /\ Append(r, Head(o)) \in Seq(S) /\ Len(Append(r, Head(o))) = Len(r) + 1
        /\ Len(r) \in Nat
    BY <2>1
  <2>3. f \in Seq(S) /\ Len(f) = Len(g) /\ g \in Seq(S) /\ Len(g) = Len(r) + Len(o)
    BY <1>1, <2>1, <2>2
  <2>4. ASSUME NEW i \in 1..Len(g) PROVE f[i] = g[i]
    <3>1. CASE i =< Len(r)
      BY <2>1, <2>2, <2>3, <3>1
    <3>2. CASE i = Len(r) + 1
      BY <2>1, <2>2, <2>3, <3>2
    <3>3. CASE i > Len(r) + 1
      BY <2>1, <2>2, <2>3, <3>3
    <3> QED BY <2>2, <2>3, <3>1, <3>2, <3>3
  <2> HIDE DEF f, g
  <2>5. f = g
    BY <2>3, <2>4
  <2> QED BY <2>5 DEF f, g
<1>3. ASSUME NEW x \in S PROVE r \o Append(o, x) = Append(r \o o, x)
  <2> DEFINE f == r \o Append(o, x)  g == Append(r \o o, x)
  <2>1. f \in Seq(S) /\ g \in Seq(S) /\ Len(f) = Len(g)
    BY <1>1
  <2>2. ASSUME NEW i \in 1..Len(g) PROVE f[i] = g[i]
    BY <1>1
  <2> HIDE DEF f, g
  <2>3. f = g
    BY <2>1, <2>2
  <2> QED BY <2>3 DEF f, g
<1> QED BY <1>1, <1>2, <1>3

(* Nothing is left out of what the application receives.                   *)
LEMMA BatchesInOrderStep ==
  ASSUME Types, Alike, Resting, Scheduling, Collecting, Ending, BatchSoFar, Sent,
         BatchesInOrder, [Next]_vars
  PROVE  BatchesInOrder'
<1> USE DEF BatchesInOrder, vars, appVars, roundVars, sensorVars, None, Over, Paced
<1>1. CASE ReceiveBatch
  <2>1. received' \o output' = received \o output
    BY <1>1, Passing DEF ReceiveBatch, Types
  <2> QED BY <2>1
<1>2. CASE Shutdown
  BY <1>2 DEF Shutdown
<1>3. CASE Joined
  BY <1>3 DEF Joined
<1>4. CASE SeeStop
  BY <1>4 DEF SeeStop, Leave
<1>5. CASE Advance
  BY <1>5 DEF Advance
<1>6. CASE AdvanceFails
  BY <1>6 DEF AdvanceFails, Leave
<1>7. CASE Dispatch
  BY <1>7 DEF Dispatch
<1>8. CASE Schedule
  BY <1>8 DEF Schedule
<1>9. CASE CollectResponse
  BY <1>9 DEF CollectResponse
<1>10. CASE CollectEnd
  BY <1>10 DEF CollectEnd
<1>11. CASE EndBatch
  BY <1>11 DEF EndBatch
<1>12. CASE FailBatch
  BY <1>12 DEF FailBatch, Leave
<1>13. CASE SendBatch
  <2>1. Append(received \o output, collected) = received' \o output'
        /\ received \o output \in Seq(SUBSET [sensor : Sensors, rotation : Nat])
        /\ Len(received \o output) = Len(received) + Len(output)
    <3>1. received' = received /\ output' = Append(output, collected)
      BY <1>13 DEF SendBatch
    <3>2. received \in Seq(SUBSET [sensor : Sensors, rotation : Nat])
          /\ output \in Seq(SUBSET [sensor : Sensors, rotation : Nat])
          /\ collected \in SUBSET [sensor : Sensors, rotation : Nat]
      BY DEF Types
    <3>3. /\ Append(received \o output, collected) = received \o Append(output, collected)
          /\ received \o output \in Seq(SUBSET [sensor : Sensors, rotation : Nat])
          /\ Len(received \o output) = Len(received) + Len(output)
      BY ONLY <3>2, Passing
    <3> HIDE DEF BatchesInOrder
    <3> QED BY <3>1, <3>3
  <2>2. collected = Batch(Len(received \o output) + 1)
    <3>1. Len(received) + Len(output) = Current - 1 /\ Current \in Nat
      BY <1>13, CurrentType DEF SendBatch, Sent
    <3>2. Len(received \o output) + 1 = Current
      BY <2>1, <3>1, ChannelTypes DEF Types
    <3> QED BY <1>13, <3>2 DEF SendBatch, BatchSoFar
  <2> DEFINE all == received \o output
  <2>3. SUFFICES ASSUME NEW n \in 1..Len(Append(all, collected))
                 PROVE  Append(all, collected)[n] = Batch(n)
    BY <2>1
  <2>4. all \in Seq(SUBSET [sensor : Sensors, rotation : Nat])
        /\ \A k \in 1..Len(all) : all[k] = Batch(k)
    BY <2>1
  <2>5. collected = Batch(Len(all) + 1)
    BY <2>2
  <2> HIDE DEF all
  <2> QED BY <2>3, <2>4, <2>5
<1>14. CASE SendRefused
  BY <1>14 DEF SendRefused, Leave, NextBatch
<1>15. CASE StopSensors
  BY <1>15 DEF StopSensors
<1>16. CASE JoinSensors
  BY <1>16 DEF JoinSensors
<1>17. ASSUME NEW s \in Sensors, SensorThread(s) PROVE BatchesInOrder'
  BY <1>17, ThreadAlone DEF SensorThread
<1>18. CASE UNCHANGED vars
  BY <1>18
<1> QED
  BY <1>1, <1>2, <1>3, <1>4, <1>5, <1>6, <1>7, <1>8, <1>9, <1>10, <1>11, <1>12, <1>13,
     <1>14, <1>15, <1>16, <1>17, <1>18
  DEF Next, Application, Coordinator

(* An error is kept for the end of the run.                                *)
LEMMA TroubleStep ==
  ASSUME Types, Alike, Resting, Scheduling, Collecting, Ending, BatchSoFar, Sent,
         TroubleIsReported, [Next]_vars
  PROVE  TroubleIsReported'
<1> USE DEF TroubleIsReported, vars, appVars, roundVars, sensorVars, None, Over, Paced
<1>1. CASE ReceiveBatch
  BY <1>1 DEF ReceiveBatch
<1>2. CASE Shutdown
  BY <1>2 DEF Shutdown
<1>3. CASE Joined
  BY <1>3 DEF Joined
<1>4. CASE SeeStop
  BY <1>4 DEF Resting, SeeStop, Leave
<1>5. CASE Advance
  BY <1>5 DEF Advance
<1>6. CASE AdvanceFails
  BY <1>6 DEF AdvanceFails, Leave
<1>7. CASE Dispatch
  BY <1>7 DEF Dispatch
<1>8. CASE Schedule
  BY <1>8 DEF Schedule
<1>9. CASE CollectResponse
  BY <1>9 DEF CollectResponse
<1>10. CASE CollectEnd
  BY <1>10 DEF CollectEnd
<1>11. CASE EndBatch
  BY <1>11 DEF EndBatch
<1>12. CASE FailBatch
  BY <1>12 DEF FailBatch, Leave
<1>13. CASE SendBatch
  BY <1>13 DEF SendBatch, NextBatch
<1>14. CASE SendRefused
  BY <1>14 DEF Resting, SendRefused, Leave, NextBatch
<1>15. CASE StopSensors
  BY <1>15 DEF StopSensors
<1>16. CASE JoinSensors
  BY <1>16 DEF JoinSensors
<1>17. ASSUME NEW s \in Sensors, SensorThread(s) PROVE TroubleIsReported'
  <2>1. coordinator' = coordinator /\ result' = result
    BY <1>17, ThreadAlone
  <2>2. \/ coordinator # "stopping" /\ coordinator # "ended"
        \/ coordinator \notin {"stopping", "joining", "ended"}
    BY <1>17, ThreadRests DEF Ending, SensorThread, TakeRequest, Answer, Panic
  <2>3. coordinator = "joining" => troubled' = troubled
    BY <1>17, ThreadRests DEF Ending
  <2> QED BY <2>1, <2>2, <2>3
<1>18. CASE UNCHANGED vars
  BY <1>18
<1> QED
  BY <1>1, <1>2, <1>3, <1>4, <1>5, <1>6, <1>7, <1>8, <1>9, <1>10, <1>11, <1>12, <1>13,
     <1>14, <1>15, <1>16, <1>17, <1>18
  DEF Next, Application, Coordinator

-----------------------------------------------------------------------------
LEMMA InitHolds == ASSUME Init PROVE IInv
<1> USE DEF Init, None, Over, Paced
<1>1. Types
  <2>1. << >> \in Seq(Nat) /\ << >> \in Seq(Answers)
        /\ << >> \in Seq(SUBSET [sensor : Sensors, rotation : Nat])
    OBVIOUS
  <2>2. request \in [Sensors -> Seq(Nat)]
    BY <2>1
  <2>3. response \in [Sensors -> Seq(Answers)]
    BY <2>1
  <2>4. pending \in [Sensors -> 0..MaxRotation] /\ casting \in [Sensors -> Nat]
    BY GenerationAssumption
  <2>5. worker \in [Sensors -> {"receiving", "casting", "ended"}]
    OBVIOUS
  <2>6. received \in Seq(SUBSET [sensor : Sensors, rotation : Nat])
        /\ output \in Seq(SUBSET [sensor : Sensors, rotation : Nat])
    BY <2>1
  <2> QED BY <2>2, <2>3, <2>4, <2>5, <2>6 DEF Types
<1>2. Current = 1
  BY DEF Current, Sensors
<1>3. Alike
  BY <1>2 DEF Alike, Sensors
<1>4. Resting /\ Scheduling /\ Collecting /\ Ending
  BY DEF Resting, Scheduling, Collecting, Ending, Idle
<1>5. BatchSoFar
  BY DEF BatchSoFar
<1>6. Len(<< >>) = 0 /\ << >> \o << >> = << >>
  OBVIOUS
<1>7. Sent /\ BatchesInOrder /\ TroubleIsReported
  BY <1>2, <1>6 DEF Sent, BatchesInOrder, TroubleIsReported
<1> QED BY <1>1, <1>3, <1>4, <1>5, <1>7 DEF IInv

(* Every behaviour of the threads satisfies the inductive invariant.       *)
THEOREM Invariant == Spec => []IInv
<1>1. Init => IInv
  BY InitHolds
<1>2. IInv /\ [Next]_vars => IInv'
  BY TypesStep, AlikeStep, RestingStep, SchedulingStep, CollectingStep, EndingStep,
     BatchSoFarStep, SentStep, BatchesInOrderStep, TroubleStep DEF IInv
<1> QED BY <1>1, <1>2, PTL DEF Spec

(* The application is handed every rotation, in order and with the scans   *)
(* of both sensors, whatever the threads do and whenever they are stopped  *)
(* (BatchesInOrder): GenerationRuntime::generate_batch never sends a batch *)
(* with an answer missing or of another rotation.                          *)
THEOREM BatchesAreInOrder == Spec => []BatchesInOrder
<1>1. IInv => BatchesInOrder
  BY DEF IInv
<1> QED BY <1>1, Invariant, PTL

(* A sensor thread that failed or panicked is never passed over: the run   *)
(* ends with an error (TroubleIsReported), also when it was being stopped  *)
(* at the time.                                                            *)
THEOREM TroubleReported == Spec => []TroubleIsReported
<1>1. IInv => TroubleIsReported
  BY DEF IInv
<1> QED BY <1>1, Invariant, PTL

(* When run_generation_worker has ended no sensor thread runs: they are    *)
(* joined on every way out, also after a failed batch.                     *)
THEOREM SensorsAreJoined ==
  Spec => [](coordinator = "ended" => \A s \in Sensors : worker[s] = "ended")
<1>1. IInv => (coordinator = "ended" => \A s \in Sensors : worker[s] = "ended")
  BY DEF IInv, Ending
<1> QED BY <1>1, Invariant, PTL

(* The coordinator never waits for room in a request channel: what it      *)
(* hands out, the next scans or Stop, always finds an empty one            *)
(* (the send of generate_batch and the one of shutdown never block).       *)
THEOREM RequestsNeverBlock ==
  Spec => []( /\ coordinator = "dispatching" => \A s \in Due : Len(request[s]) < Capacity
              /\ coordinator = "stopping" => \A s \in handles : Len(request[s]) < Capacity )
<1>1. IInv => /\ coordinator = "dispatching" => \A s \in Due : Len(request[s]) < Capacity
              /\ coordinator = "stopping" => \A s \in handles : Len(request[s]) < Capacity
  <2> USE OneMessage DEF IInv, Types, Idle, Gone, Capacity
  <2>1. ASSUME IInv, coordinator = "dispatching"
        PROVE  \A s \in Due : Len(request[s]) < Capacity
    BY <2>1 DEF Resting, Due, Paced
  <2>2. ASSUME IInv, coordinator = "stopping"
        PROVE  \A s \in handles : Len(request[s]) < Capacity
    BY <2>2 DEF Ending
  <2> QED BY <2>1, <2>2
<1> QED BY <1>1, Invariant, PTL

-----------------------------------------------------------------------------
(* Generation implements BatchSource.                                      *)

(* The flag is set before the channel is closed, a result is there when    *)
(* the coordinator is on its way out, and it is "ok" after a stop only.    *)
Stopping ==
  /\ ~receiver => stop
  /\ app = "running" => ~stop
  /\ app = "closing" => stop
  /\ result = "none" <=> coordinator \notin Over
  /\ result = "ok" => stop
  /\ Len(output) <= Capacity

LEMMA StoppingStep ==
  ASSUME Types, Stopping, [Next]_vars
  PROVE  Stopping'
<1> USE DEF Stopping, vars, appVars, roundVars, sensorVars, Over
<1>0. Len(output) \in Nat /\ receiver \in BOOLEAN /\ stop \in BOOLEAN
  BY DEF Types
<1>1. CASE ReceiveBatch
  <2>1. Len(output') = Len(output) - 1
    BY <1>1, ChannelTypes DEF ReceiveBatch, Types
  <2>2. UNCHANGED <<app, stop, receiver, coordinator, result>>
    BY <1>1 DEF ReceiveBatch
  <2>3. Len(output') <= Capacity
    BY <1>0, <2>1 DEF Capacity
  <2> QED BY <2>2, <2>3
<1>2. CASE Shutdown \/ Joined
  BY <1>2 DEF Shutdown, Joined
<1>3. CASE SeeStop \/ AdvanceFails \/ FailBatch
  <2>1. /\ coordinator' \in Over /\ UNCHANGED <<app, stop, receiver, output>>
        /\ result' = "error" \/ (result' = "ok" /\ stop)
    BY <1>3 DEF SeeStop, AdvanceFails, FailBatch, Leave
  <2> QED BY <2>1
<1>4. CASE Advance \/ Dispatch \/ Schedule \/ CollectResponse \/ CollectEnd \/ EndBatch
  <2>1. /\ coordinator \notin Over /\ coordinator' \notin Over
        /\ UNCHANGED <<app, stop, receiver, output, result>>
    BY <1>4 DEF Advance, Dispatch, Schedule, CollectResponse, CollectEnd, EndBatch
  <2> QED BY <2>1
<1>5. CASE SendBatch
  <2>1. Len(output') = Len(output) + 1 /\ Len(output) < Capacity
    BY <1>5, ChannelTypes DEF SendBatch, Types
  <2> QED BY <1>0, <1>5, <2>1 DEF SendBatch, Capacity
<1>6. CASE SendRefused
  BY <1>0, <1>6 DEF SendRefused, Leave
<1>7. CASE StopSensors \/ JoinSensors
  BY <1>7 DEF StopSensors, JoinSensors
<1>8. ASSUME NEW s \in Sensors, SensorThread(s) PROVE Stopping'
  <2>1. UNCHANGED <<appVars, output, coordinator, result>>
    BY <1>8, ThreadAlone
  <2> QED BY <2>1
<1>9. CASE UNCHANGED vars
  BY <1>9
<1> QED
  BY <1>1, <1>2, <1>3, <1>4, <1>5, <1>6, <1>7, <1>8, <1>9
  DEF Next, Application, Coordinator

(* The channel as the application sees it.                                 *)
LEMMA OutboxIs ==
  ASSUME Types, Stopping
  PROVE  /\ output = << >> => Outbox = << >>
         /\ output # << >> => Len(output) = 1 /\ Outbox = <<NumberOf(output[1])>>
<1>1. Len(output) \in Nat /\ Len(output) <= 1
  BY DEF Types, Stopping, Capacity
<1>2. CASE output = << >>
  BY <1>2, OneMessage DEF Outbox
<1>3. CASE output # << >>
  <2>1. Len(output) = 1
    <3> DEFINE n == Len(output)
    <3>1. n \in Nat /\ n <= 1 /\ n # 0
      BY <1>1, <1>3 DEF Types
    <3> HIDE DEF n
    <3>2. n = 1
      BY <3>1
    <3> QED BY <3>2 DEF n
  <2>2. Outbox = [i \in 1..1 |-> NumberOf(output[i])]
    BY <2>1 DEF Outbox
  <2>3. Outbox = <<NumberOf(output[1])>>
    <3> DEFINE x == NumberOf(output[1])
    <3>1. \A i \in 1..1 : NumberOf(output[i]) = x
      OBVIOUS
    <3> HIDE DEF x
    <3>2. Outbox = [i \in 1..1 |-> x]
      BY <2>2, <3>1
    <3>3. [i \in 1..1 |-> x] = <<x>>
      OBVIOUS
    <3> QED BY <3>2, <3>3 DEF x
  <2> QED BY <2>1, <2>3
<1> QED BY <1>2, <1>3

LEMMA NumberOfBatch ==
  ASSUME NEW n \in 1..MaxRotation
  PROVE  NumberOf(Batch(n)) = n
<1>1. \A k \in 1..MaxRotation : Batch(n) = Batch(k) => k = n
  <2> SUFFICES ASSUME NEW k \in 1..MaxRotation, Batch(n) = Batch(k) PROVE k = n
    OBVIOUS
  <2>1. [sensor |-> 1, rotation |-> n] \in Batch(k)
    BY DEF Batch, Sensors
  <2> QED BY <2>1 DEF Batch
<1> DEFINE m == CHOOSE k \in 1..MaxRotation : Batch(n) = Batch(k)
<1>2. m \in 1..MaxRotation /\ Batch(n) = Batch(m)
  OBVIOUS
<1>3. Batch(n) \in {Batch(k) : k \in 1..MaxRotation}
  OBVIOUS
<1>4. NumberOf(Batch(n)) = m
  BY <1>3 DEF NumberOf
<1> HIDE DEF m
<1> QED BY <1>1, <1>2, <1>4

(* Which batch the coordinator is at, when it has one to send and when it  *)
(* has none.                                                               *)
LEMMA BatchAtHand ==
  ASSUME Types, Alike, Sent, coordinator \notin Over
  PROVE  /\ BatchesSent \in Nat /\ BatchesSent + 1 \in 1..MaxRotation
         /\ BatchesSent + 1 = Current
         /\ coordinator = "sending" => pending[1] = BatchesSent + 2
         /\ coordinator = "pacing" => pending[1] = BatchesSent + 1
<1>1. BatchesSent \in Nat
  BY DEF BatchesSent, Types
<1>2. Current \in 1..MaxRotation /\ BatchesSent = Current - 1
  BY CurrentType DEF Sent, BatchesSent
<1>3. ASSUME coordinator = "sending" PROVE pending[1] = Current + 1
  <2>1. pending[1] # None /\ pending[1] \in Nat
    BY <1>3 DEF Alike, Types, Sensors, Over, None
  <2> QED BY <1>3, <2>1 DEF Current, Expected, None
<1>4. ASSUME coordinator = "pacing" PROVE pending[1] = Current
  BY <1>4 DEF Current
<1> QED BY <1>1, <1>2, <1>3, <1>4

(* A batch is refused by a closed channel only.                            *)
Denied == coordinator \in {"stopping", "joining"} /\ Refused => ~receiver

LEMMA DeniedStep ==
  ASSUME IInv, Stopping, Denied, [Next]_vars
  PROVE  Denied'
<1> USE DEF appVars, roundVars, sensorVars
<1>0. Types /\ Alike /\ Sent
  BY DEF IInv
<1>1. CASE ReceiveBatch
  <2>1. /\ output # << >> /\ output' = Tail(output) /\ received' = Append(received, Head(output))
        /\ UNCHANGED <<coordinator, result, pending, receiver>>
    BY <1>1 DEF ReceiveBatch
  <2>2. /\ Len(received') = Len(received) + 1 /\ Len(output') = Len(output) - 1
        /\ Len(received) \in Nat /\ Len(output) \in Nat
    BY <1>0, <2>1, ChannelTypes DEF Types
  <2>3. BatchesSent' = BatchesSent
    BY <2>2 DEF BatchesSent
  <2> QED BY <2>1, <2>3 DEF Denied, Refused
<1>2. CASE Shutdown
  <2>1. /\ UNCHANGED <<output, received, coordinator, result, pending>>
        /\ receiver' = receiver \/ ~receiver'
    BY <1>2 DEF Shutdown
  <2> QED BY <2>1 DEF Denied, Refused, BatchesSent
<1>3. CASE SeeStop
  <2>1. /\ coordinator = "pacing" /\ UNCHANGED <<received, output, pending>>
    BY <1>3 DEF SeeStop
  <2>2. BatchesSent \in Nat /\ pending[1] = BatchesSent + 1
    BY <1>0, <2>1, BatchAtHand DEF Over
  <2>3. BatchesSent' = BatchesSent
    BY <2>1 DEF BatchesSent
  <2>4. ~Refused'
    BY <2>1, <2>2, <2>3 DEF Refused
  <2> QED BY <2>4 DEF Denied
<1>4. CASE AdvanceFails \/ FailBatch
  <2>1. result' = "error"
    BY <1>4 DEF AdvanceFails, FailBatch, Leave
  <2> QED BY <2>1 DEF Denied, Refused
<1>5. CASE SendRefused
  BY <1>5 DEF SendRefused, Denied
<1>6. CASE StopSensors
  <2>1. /\ coordinator = "stopping"
        /\ UNCHANGED <<received, output, receiver, result, pending>>
    BY <1>6 DEF StopSensors
  <2> QED BY <2>1 DEF Denied, Refused, BatchesSent
<1>7. CASE Advance \/ Dispatch \/ Schedule \/ CollectResponse \/ CollectEnd \/ EndBatch
           \/ SendBatch \/ JoinSensors
  <2>1. coordinator' \notin {"stopping", "joining"}
    BY <1>7 DEF Advance, Dispatch, Schedule, CollectResponse, CollectEnd, EndBatch, SendBatch,
                JoinSensors
  <2> QED BY <2>1 DEF Denied
<1>8. CASE Joined \/ UNCHANGED vars \/ \E s \in Sensors : SensorThread(s)
  <2>1. UNCHANGED <<received, output, receiver, coordinator, result, pending>>
    BY <1>0, <1>8, ThreadAlone DEF Joined, vars
  <2> QED BY <2>1 DEF Denied, Refused, BatchesSent
<1> QED
  BY <1>1, <1>2, <1>3, <1>4, <1>5, <1>6, <1>7, <1>8 DEF Next, Application, Coordinator

LEMMA SourceInit == Init => Source!Init
<1> SUFFICES ASSUME Init PROVE Source!Init
  OBVIOUS
<1>1. output = << >> /\ received = << >> /\ coordinator = "pacing"
      /\ stop = FALSE /\ receiver = TRUE
  BY DEF Init
<1>2. Outbox = << >> /\ BatchesSent = 0
  BY <1>1, OneMessage DEF Outbox, BatchesSent
<1>3. ThreadState = "running" /\ Offering = FALSE
  BY <1>1 DEF ThreadState, Offering
<1> QED BY <1>1, <1>2, <1>3 DEF Source!Init

(* What the application does not see.                                      *)
LEMMA Unseen ==
  ASSUME UNCHANGED <<ThreadState, Offering, received, output, receiver, stop>>
  PROVE  UNCHANGED Source!vars
<1>1. Outbox' = Outbox /\ BatchesSent' = BatchesSent
  BY DEF Outbox, BatchesSent
<1> QED BY <1>1 DEF Source!vars

LEMMA SourceStep ==
  ASSUME IInv, IInv', Stopping, Stopping', Denied, [Next]_vars
  PROVE  [Source!Next]_(Source!vars)
<1> USE DEF appVars, roundVars, sensorVars
<1>0. /\ Types /\ Types' /\ Alike /\ Sent /\ Stopping /\ BatchSoFar
      /\ Offering \in BOOLEAN
  BY DEF IInv, Offering
<1>1. CASE ReceiveBatch
  <2>1. /\ output # << >> /\ output' = Tail(output) /\ received' = Append(received, Head(output))
        /\ UNCHANGED <<coordinator, result, pending, receiver, stop>> /\ app = "running"
    BY <1>1 DEF ReceiveBatch
  <2>2. /\ Len(received') = Len(received) + 1 /\ Len(output') = Len(output) - 1
        /\ Len(received) \in Nat /\ Len(output) \in Nat
    BY <1>0, <2>1, ChannelTypes DEF Types
  <2>3. BatchesSent' = BatchesSent
    BY <2>2 DEF BatchesSent
  <2>4. Len(output) = 1 /\ Outbox = <<NumberOf(output[1])>>
    BY <1>0, <2>1, OutboxIs
  <2>5. output' = << >>
    BY <1>0, <2>2, <2>4 DEF Types
  <2>6. Outbox # << >> /\ Outbox' = << >>
    <3>1. Outbox' = << >>
      BY <2>5, OneMessage DEF Outbox
    <3> QED BY <2>4, <3>1, OneMessage
  <2>7. ThreadState' = ThreadState /\ Offering' = Offering
    BY <2>1, <2>3 DEF ThreadState, Offering, Refused
  <2>8. ~stop
    BY <1>0, <2>1 DEF Stopping
  <2>9. Source!Take
    BY <2>1, <2>3, <2>6, <2>7, <2>8 DEF Source!Take
  <2> QED BY <2>9 DEF Source!Next
<1>2. CASE Shutdown
  <2>1. /\ \/ stop' = TRUE /\ UNCHANGED receiver
           \/ receiver' = FALSE /\ UNCHANGED stop
        /\ UNCHANGED <<output, received, coordinator, result, pending>>
    BY <1>2 DEF Shutdown
  <2>2. UNCHANGED <<ThreadState, BatchesSent, Offering, Outbox>>
    BY <2>1 DEF ThreadState, BatchesSent, Offering, Refused, Outbox
  <2>3. Source!Stop \/ Source!Close
    BY <2>1, <2>2 DEF Source!Stop, Source!Close
  <2> QED BY <2>3 DEF Source!Next
<1>3. CASE EndBatch
  <2>1. /\ coordinator = "collecting" /\ coordinator' = "sending"
        /\ UNCHANGED <<received, output, receiver, stop>>
    BY <1>3 DEF EndBatch
  <2>2. ThreadState = "running" /\ ThreadState' = "running" /\ Offering = FALSE
        /\ Offering' = TRUE
    BY <2>1 DEF ThreadState, Offering
  <2>3. UNCHANGED <<BatchesSent, Outbox>>
    BY <2>1 DEF BatchesSent, Outbox
  <2>4. Source!Make
    BY <2>1, <2>2, <2>3 DEF Source!Make
  <2> QED BY <2>4 DEF Source!Next
<1>4. CASE SendBatch
  <2>1. /\ coordinator = "sending" /\ coordinator' = "pacing"
        /\ receiver /\ Len(output) < Capacity /\ output' = Append(output, collected)
        /\ UNCHANGED <<received, receiver, stop>>
    BY <1>4 DEF SendBatch
  <2>2. coordinator \notin Over
    BY <2>1 DEF Over
  <2>3. /\ BatchesSent \in Nat /\ BatchesSent + 1 \in 1..MaxRotation
        /\ collected = Batch(BatchesSent + 1)
    BY <1>0, <2>1, <2>2, BatchAtHand DEF BatchSoFar
  <2>4. output = << >>
    <3>1. Len(output) \in Nat /\ Len(output) < 1
      BY <1>0, <2>1 DEF Types, Capacity
    <3> QED BY <1>0, <3>1 DEF Types
  <2>5. output' = <<collected>>
    BY <2>1, <2>4, OneMessage
  <2>6. Outbox = << >> /\ Outbox' = <<BatchesSent + 1>>
    <3>1. Outbox' = <<NumberOf(output'[1])>>
      <4>1. output' # << >>
        BY <2>5, OneMessage
      <4>2. Len(output') = 1
        BY <2>5, OneMessage
      <4> DEFINE x == NumberOf(output'[1])
      <4>3. Outbox' = [i \in 1..1 |-> NumberOf(output'[i])]
        BY <4>2 DEF Outbox, NumberOf, Batch
      <4>4. \A i \in 1..1 : NumberOf(output'[i]) = x
        OBVIOUS
      <4> HIDE DEF x
      <4>5. Outbox' = [i \in 1..1 |-> x]
        BY <4>3, <4>4
      <4>6. [i \in 1..1 |-> x] = <<x>>
        OBVIOUS
      <4> QED BY <4>5, <4>6 DEF x
    <3>2. output'[1] = collected
      BY <2>5
    <3>3. NumberOf(collected) = BatchesSent + 1
      BY <2>3, NumberOfBatch
    <3> QED BY <1>0, <2>4, <3>1, <3>2, <3>3, OutboxIs
  <2>7. BatchesSent' = BatchesSent + 1
    <3>1. Len(output) = 0 /\ Len(output') = 1 /\ Len(received) \in Nat
      BY <1>0, <2>4, <2>5, OneMessage DEF Types
    <3> QED BY <2>1, <3>1 DEF BatchesSent
  <2>8. /\ ThreadState' = ThreadState /\ Offering = TRUE /\ Offering' = FALSE
    BY <2>1 DEF ThreadState, Offering
  <2>9. Source!Send
    BY <2>1, <2>6, <2>7, <2>8 DEF Source!Send
  <2> QED BY <2>9 DEF Source!Next
<1>5. CASE SendRefused
  <2>1. /\ coordinator = "sending" /\ coordinator' = "stopping" /\ ~receiver
        /\ result' = IF stop THEN "ok" ELSE "error"
        /\ UNCHANGED <<received, output, receiver, stop, pending>>
    BY <1>5 DEF SendRefused, Leave
  <2>2. result' = "ok"
    BY <1>0, <2>1 DEF Stopping
  <2>3. coordinator \notin Over
    BY <2>1 DEF Over
  <2>4. pending[1] = BatchesSent + 2
    BY <1>0, <2>1, <2>3, BatchAtHand
  <2>5. BatchesSent' = BatchesSent
    BY <2>1 DEF BatchesSent
  <2>6. Offering = TRUE /\ Offering' = TRUE /\ ThreadState' = ThreadState
    BY <2>1, <2>2, <2>4, <2>5 DEF Offering, Refused, ThreadState
  <2> QED BY <2>1, <2>6, Unseen
<1>6. CASE JoinSensors
  <2>1. /\ coordinator = "joining" /\ coordinator' = "ended" /\ result' = result
        /\ UNCHANGED <<received, output, receiver, stop>>
    BY <1>6 DEF JoinSensors
  <2>2. UNCHANGED <<BatchesSent, Outbox>>
    BY <2>1 DEF BatchesSent, Outbox
  <2>3. ThreadState = "running" /\ Offering' = FALSE
    BY <2>1 DEF ThreadState, Offering
  <2>4. CASE result = "ok"
    <3>1. stop /\ (Offering => ~receiver) /\ ThreadState' = "ended"
      BY <1>0, <2>1, <2>4 DEF Stopping, Denied, Offering, ThreadState
    <3>2. Source!End
      BY <2>1, <2>2, <2>3, <3>1 DEF Source!End
    <3> QED BY <3>2 DEF Source!Next
  <2>5. CASE result # "ok"
    <3>1. Offering = FALSE /\ ThreadState' = "failed"
      BY <2>1, <2>5 DEF Offering, Refused, ThreadState
    <3>2. Source!Fail
      BY <2>1, <2>2, <2>3, <3>1 DEF Source!Fail
    <3> QED BY <3>2 DEF Source!Next
  <2> QED BY <2>4, <2>5
<1>7. CASE SeeStop
  <2>1. /\ coordinator = "pacing" /\ coordinator' = "stopping"
        /\ UNCHANGED <<received, output, receiver, stop, pending>>
    BY <1>7 DEF SeeStop, Leave
  <2>2. BatchesSent \in Nat /\ pending[1] = BatchesSent + 1
    BY <1>0, <2>1, BatchAtHand DEF Over
  <2>3. BatchesSent' = BatchesSent
    BY <2>1 DEF BatchesSent
  <2>4. Offering = FALSE /\ Offering' = FALSE /\ ThreadState' = ThreadState
    BY <2>1, <2>2, <2>3 DEF Offering, Refused, ThreadState
  <2> QED BY <2>1, <2>4, Unseen
<1>8. CASE AdvanceFails \/ FailBatch
  <2>1. /\ coordinator \in {"pacing", "collecting"} /\ coordinator' = "stopping"
        /\ result' = "error"
        /\ UNCHANGED <<received, output, receiver, stop>>
    BY <1>8 DEF AdvanceFails, FailBatch, Leave
  <2>2. Offering = FALSE /\ Offering' = FALSE /\ ThreadState' = ThreadState
    BY <2>1 DEF Offering, Refused, ThreadState
  <2> QED BY <2>1, <2>2, Unseen
<1>9. CASE Advance \/ Dispatch \/ Schedule \/ CollectResponse \/ CollectEnd
  <2>1. /\ coordinator \in Paced \union {"scheduling", "collecting"}
        /\ coordinator' \in Paced \union {"scheduling", "collecting"}
        /\ UNCHANGED <<received, output, receiver, stop>>
    BY <1>9 DEF Advance, Dispatch, Schedule, CollectResponse, CollectEnd, Paced
  <2>2. Offering = FALSE /\ Offering' = FALSE /\ ThreadState' = ThreadState
    BY <2>1 DEF Offering, ThreadState, Paced
  <2> QED BY <2>1, <2>2, Unseen
<1>10. CASE StopSensors
  <2>1. /\ coordinator = "stopping" /\ coordinator' = "joining"
        /\ UNCHANGED <<received, output, receiver, stop, result, pending>>
    BY <1>10 DEF StopSensors
  <2>2. BatchesSent' = BatchesSent
    BY <2>1 DEF BatchesSent
  <2>3. Offering' = Offering /\ ThreadState' = ThreadState
    BY <2>1, <2>2 DEF Offering, Refused, ThreadState
  <2> QED BY <2>1, <2>3, Unseen
<1>11. CASE Joined \/ UNCHANGED vars \/ \E s \in Sensors : SensorThread(s)
  <2>1. UNCHANGED <<received, output, receiver, stop, coordinator, result, pending>>
    BY <1>0, <1>11, ThreadAlone DEF Joined, vars
  <2>2. Offering' = Offering /\ ThreadState' = ThreadState
    BY <2>1 DEF Offering, Refused, ThreadState, BatchesSent
  <2> QED BY <2>1, <2>2, Unseen
<1> QED
  BY <1>1, <1>2, <1>3, <1>4, <1>5, <1>6, <1>7, <1>8, <1>9, <1>10, <1>11
  DEF Next, Application, Coordinator

(* Whatever the coordinator and the sensor threads do, the application     *)
(* sees what BatchSource promises it: the safety part of                   *)
(* ImplementsBatchSource.                                                  *)
THEOREM GenerationIsBatchSource ==
  Spec => Source!Init /\ [][Source!Next]_(Source!vars)
<1>1. Init => Stopping
  BY OneMessage DEF Init, Stopping, Over, Capacity
<1>2. IInv /\ Stopping /\ [Next]_vars => Stopping'
  BY StoppingStep DEF IInv
<1>3. Init => Denied
  BY DEF Init, Denied
<1>4. IInv /\ Stopping /\ Denied /\ [Next]_vars => Denied'
  BY DeniedStep
<1>5. IInv /\ IInv' /\ Stopping /\ Stopping' /\ Denied /\ [Next]_vars
        => [Source!Next]_(Source!vars)
  BY SourceStep
<1> QED BY <1>1, <1>2, <1>3, <1>4, <1>5, SourceInit, Invariant, PTL DEF Spec
=============================================================================
