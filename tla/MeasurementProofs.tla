------------------------- MODULE MeasurementProofs -------------------------
(***************************************************************************)
(* Theorems about the measurement, for all rates, settings and draws.      *)
(*                                                                         *)
(* About the schedule of scans (Rotation): the code counts samples per     *)
(* rotation with ceil_multiple and never looks at the times when it cuts   *)
(* one scan from the next; these theorems say that the cut is where the    *)
(* rotation ends (src/src/measurement/rotation.rs).                        *)
(*                                                                         *)
(* About what makes the generation of scans end: with no distortion        *)
(* configured, or with a whole number of samples in a rotation, nothing    *)
(* but its two limits on the number of events.  The run uneven_rates shows *)
(* that the condition on the rates is needed.                              *)
(*                                                                         *)
(* About the scenario: its events are the schedule's, and the volume of    *)
(* the surface is the planned one at each, so that no phase ends short.    *)
(*                                                                         *)
(* About the samples: each shows what there was at its own instant, though *)
(* it is measured later, from histories that are cut short meanwhile.      *)
(***************************************************************************)
EXTENDS Measurement, Sums, SequenceTheorems

USE RotationAssumption DEF RatesAssumption

(* The least multiple of s that is not below a. *)
LEMMA CeilBounds ==
  ASSUME NEW a \in Nat, NEW s \in Nat \ {0}
  PROVE  LET q == (a + s - 1) \div s IN
         /\ q \in Nat
         /\ a <= s * q
         /\ s * q < a + s
OBVIOUS

LEMMA CeilMultipleBounds ==
  ASSUME NEW n \in Nat
  PROVE  /\ CeilMultiple(n) \in Nat
         /\ Boundary(n) \in Nat
         /\ Boundary(n) <= SampleTicks * CeilMultiple(n)
         /\ SampleTicks * CeilMultiple(n) < Boundary(n) + SampleTicks
<1>1. n * RotationTicks \in Nat
  OBVIOUS
<1> QED BY <1>1, CeilBounds DEF CeilMultiple, Boundary

(* A count of samples is below ceil_multiple(n) exactly when the sample's  *)
(* time is before the boundary.                                            *)
LEMMA BeforeBoundary ==
  ASSUME NEW n \in Nat, NEW k \in Nat
  PROVE  k < CeilMultiple(n) <=> SampleTicks * k < Boundary(n)
<1> DEFINE c == CeilMultiple(n)
<1>1. /\ c \in Nat /\ Boundary(n) \in Nat
      /\ Boundary(n) <= SampleTicks * c
      /\ SampleTicks * c < Boundary(n) + SampleTicks
  BY CeilMultipleBounds
<1> HIDE DEF c
<1>2. ASSUME k < c PROVE SampleTicks * k < Boundary(n)
  <2>1. SampleTicks * (k + 1) <= SampleTicks * c
    BY <1>1, <1>2
  <2>2. SampleTicks * (k + 1) = SampleTicks * k + SampleTicks
    OBVIOUS
  <2> QED BY <1>1, <2>1, <2>2
<1>3. ASSUME c <= k PROVE Boundary(n) <= SampleTicks * k
  <2>1. SampleTicks * c <= SampleTicks * k
    BY <1>1, <1>3
  <2> QED BY <1>1, <2>1
<1> QED BY <1>1, <1>2, <1>3 DEF c

(* Scan n takes exactly the samples whose time lies in rotation n, from    *)
(* its start on and before its completion: no sample is taken twice or     *)
(* passed over, whatever the rates (next_scan).                            *)
THEOREM ScanIsItsRotation ==
  ASSUME NEW n \in Nat \ {0}
  PROVE  ScheduledScan(n).points =
           {t \in {SampleTicks * k : k \in Nat} : Boundary(n - 1) <= t /\ t < Boundary(n)}
<1> DEFINE In(k) == k \in CeilMultiple(n - 1)..(CeilMultiple(n) - 1)
<1>1. n - 1 \in Nat /\ CeilMultiple(n - 1) \in Nat /\ CeilMultiple(n) \in Nat
  BY CeilMultipleBounds
<1>2. ASSUME NEW k \in Nat
      PROVE  In(k) <=> /\ Boundary(n - 1) <= SampleTicks * k
                       /\ SampleTicks * k < Boundary(n)
  <2>1. k < CeilMultiple(n - 1) <=> SampleTicks * k < Boundary(n - 1)
    BY <1>1, BeforeBoundary
  <2>2. k < CeilMultiple(n) <=> SampleTicks * k < Boundary(n)
    BY BeforeBoundary
  <2>3. SampleTicks * k \in Nat /\ Boundary(n - 1) \in Nat
    BY <1>1 DEF Boundary
  <2> QED BY <1>1, <2>1, <2>2, <2>3
<1>3. \A k : In(k) => k \in Nat
  BY <1>1
<1> HIDE DEF In
<1>4. ScheduledScan(n).points = {SampleTicks * k : k \in {j \in Nat : In(j)}}
  <2>1. CeilMultiple(n - 1)..(CeilMultiple(n) - 1) = {j \in Nat : In(j)}
    BY <1>1 DEF In
  <2> QED BY <2>1 DEF ScheduledScan
<1> QED BY <1>2, <1>4

(* No scan is refused for its schedule: it has points, and they lie within *)
(* its rotation (ScheduledScan::new, NoMeasurementPoints).                 *)
THEOREM EveryScanIsValid ==
  ASSUME NEW n \in Nat \ {0}
  PROVE  ValidScan(ScheduledScan(n))
<1>1. n - 1 \in Nat /\ RotationTicks > 0
  OBVIOUS
<1>2. Boundary(n) = Boundary(n - 1) + RotationTicks /\ Boundary(n - 1) \in Nat
  BY DEF Boundary
<1>3. \E t \in ScheduledScan(n).points : TRUE
  <2>1. CeilMultiple(n - 1) \in Nat
        /\ Boundary(n - 1) <= SampleTicks * CeilMultiple(n - 1)
        /\ SampleTicks * CeilMultiple(n - 1) < Boundary(n - 1) + SampleTicks
    BY CeilMultipleBounds
  <2>2. SampleTicks * CeilMultiple(n - 1) \in Nat
    BY <2>1
  <2>3. SampleTicks * CeilMultiple(n - 1) < Boundary(n)
    BY <1>2, <2>1, <2>2
  <2> QED BY <2>1, <2>3, ScanIsItsRotation
<1>4. \A t \in ScheduledScan(n).points : Boundary(n - 1) <= t /\ t < Boundary(n)
  BY ScanIsItsRotation
<1>5. ScheduledScan(n).rotation_started = Boundary(n - 1)
      /\ ScheduledScan(n).completed = Boundary(n)
  BY DEF ScheduledScan
<1> QED BY <1>1, <1>2, <1>3, <1>4, <1>5 DEF ValidScan

(* A scan begins one sample after the last one of the scan before it.      *)
THEOREM ScansFollow ==
  ASSUME NEW n \in Nat \ {0}
  PROVE  Captured(n + 1) = LastPoint(n) + SampleTicks
<1>1. CeilMultiple(n) \in Nat
  BY CeilMultipleBounds
<1>2. (n + 1) - 1 = n
  OBVIOUS
<1> QED BY <1>1, <1>2 DEF Captured, LastPoint

(* The next scan begins at or after the completion of this one, within a   *)
(* sample's time.                                                          *)
THEOREM NextBeginsAfterCompletion ==
  ASSUME NEW n \in Nat \ {0}
  PROVE  /\ Captured(n + 1) \in Nat /\ Captured(n) \in Nat
         /\ Boundary(n) <= Captured(n + 1)
         /\ Captured(n + 1) < Boundary(n) + SampleTicks
         /\ Captured(n) < Captured(n + 1)
<1>1. (n + 1) - 1 = n /\ n - 1 \in Nat
  OBVIOUS
<1>2. /\ CeilMultiple(n) \in Nat /\ CeilMultiple(n - 1) \in Nat
      /\ Boundary(n) <= SampleTicks * CeilMultiple(n)
      /\ SampleTicks * CeilMultiple(n) < Boundary(n) + SampleTicks
  BY <1>1, CeilMultipleBounds
<1>3. SampleTicks * CeilMultiple(n) \in Nat /\ SampleTicks * CeilMultiple(n - 1) \in Nat
  BY <1>2
<1>4. SampleTicks * CeilMultiple(n - 1) < Boundary(n)
  <2>1. SampleTicks * CeilMultiple(n - 1) < Boundary(n - 1) + SampleTicks
    BY <1>1, CeilMultipleBounds
  <2>2. Boundary(n) = Boundary(n - 1) + RotationTicks /\ Boundary(n - 1) \in Nat
    BY DEF Boundary
  <2> QED BY <1>3, <2>1, <2>2
<1>5. Boundary(n) \in Nat
  BY DEF Boundary
<1> QED BY <1>1, <1>2, <1>3, <1>4, <1>5 DEF Captured

(* It begins at the completion itself, and not after it, exactly when the  *)
(* boundary is a multiple of the time between samples.  discard_before is  *)
(* called with the beginning of the next scan and refuses a time after the *)
(* completion, so that this decides whether the generation goes on.        *)
THEOREM BeginsAtCompletion ==
  ASSUME NEW n \in Nat \ {0}
  PROVE  Captured(n + 1) <= Boundary(n) <=> Boundary(n) % SampleTicks = 0
<1>1. (n + 1) - 1 = n
  OBVIOUS
<1>2. /\ CeilMultiple(n) \in Nat /\ Boundary(n) \in Nat
      /\ Boundary(n) <= SampleTicks * CeilMultiple(n)
      /\ SampleTicks * CeilMultiple(n) < Boundary(n) + SampleTicks
  BY CeilMultipleBounds
<1>3. Captured(n + 1) = SampleTicks * CeilMultiple(n)
  BY <1>1 DEF Captured
<1> DEFINE b == Boundary(n)
<1> DEFINE c == CeilMultiple(n)
<1> HIDE DEF b, c
<1>4. ASSUME SampleTicks * c = b, c \in Nat PROVE b % SampleTicks = 0
  BY <1>4
<1>5. ASSUME b % SampleTicks = 0, b \in Nat, c \in Nat,
             b <= SampleTicks * c, SampleTicks * c < b + SampleTicks
      PROVE  SampleTicks * c = b
  <2> DEFINE d == b \div SampleTicks
  <2>1. b = SampleTicks * d /\ d \in Nat
    BY <1>5
  <2> HIDE DEF d
  <2>2. SampleTicks * c < SampleTicks * (d + 1)
    BY <1>5, <2>1
  <2>3. c < d + 1
    BY <1>5, <2>1, <2>2
  <2>4. d <= c
    BY <1>5, <2>1
  <2> QED BY <1>5, <2>1, <2>3, <2>4
<1> QED BY <1>2, <1>3, <1>4, <1>5 DEF b, c

-----------------------------------------------------------------------------
(* The rates cut no rotation between two samples, or nothing depends on it.*)
Aligned == Enabled = {} \/ RotationTicks % SampleTicks = 0

(* The runtime goes on, or stopped at a limit that it has by design.       *)
OnlyLimitsEndIt ==
    failure \in {"none", "advance events", "retained events", "scenario events",
                 "dropout events"}

Entry == [started : Nat, snapshot : Surfaces]

(* The clock of the scenario is before its next event, within the phase    *)
(* and not past the pending scan.                                          *)
ClockInv ==
    /\ scan_id \in Nat \ {0}
    /\ elapsed \in Nat /\ elapsed <= Completion
    /\ index \in Nat /\ elapsed < NextUpdate
    /\ plan.started \in Nat /\ plan.duration \in Nat \ {0}
    /\ plan.started <= elapsed /\ elapsed < PhaseEnd
    /\ phase \in {"filling", "collecting"}
    /\ surface \in Surfaces

(* The snapshots reach back to the first sample of the pending scan.       *)
SnapshotInv ==
    /\ entries \in Seq(Entry) /\ Len(entries) >= 1
    /\ entries[1].started <= Captured(scan_id)
    /\ entries[Len(entries)].started <= elapsed

(* The distortions have advanced with the scenario, are retained from the  *)
(* first sample of the pending scan on, and know the phase from its start. *)
TimelineInv ==
    Distorted =>
        /\ advanced = elapsed
        /\ retained = Captured(scan_id)
        /\ observed \in [Moving -> Int]
        /\ observed[MovingKind] = plan.started \/ elapsed = plan.started
           \/ MovingKind \notin Enabled

DropoutInv == dropout.last \in Int /\ dropout.last < Captured(scan_id)

GoesOnInv == ClockInv /\ SnapshotInv /\ TimelineInv /\ DropoutInv /\ OnlyLimitsEndIt

-----------------------------------------------------------------------------
LEMMA MinOfTwo ==
  ASSUME NEW a \in Int, NEW b \in Int
  PROVE  /\ Min({a, b}) \in {a, b}
         /\ Min({a, b}) <= a
         /\ Min({a, b}) <= b
<1>1. \E x \in {a, b} : \A y \in {a, b} : x =< y
  <2>1. CASE a <= b
    BY <2>1
  <2>2. CASE b <= a
    BY <2>2
  <2> QED BY <2>1, <2>2
<1> QED BY <1>1 DEF Min

(* A set of places in a sequence has a last one: the well-founded order is *)
(* that of the distance from the end.                                      *)
LEMMA MaxOfPlaces ==
  ASSUME NEW n \in Nat, NEW S, S \subseteq 1..n, S # {}
  PROVE  Max(S) \in S
<1> DEFINE T == {n - i : i \in S}
<1>1. T \subseteq Nat /\ T # {}
  <2>1. \A i \in S : i \in 1..n
    OBVIOUS
  <2>2. \A i \in S : n - i \in Nat
    BY <2>1
  <2> QED BY <2>2
<1> DEFINE R == OpToRel(<, Nat)
<1>2. IsWellFoundedOn(R, Nat)
  BY NatLessThanWellFounded
<1>3. \A x, y \in Nat : <<y, x>> \in R <=> y < x
  BY DEF OpToRel
<1> HIDE DEF T, R
<1>4. PICK t \in T : \A y \in T : ~ (<<y, t>> \in R)
  BY <1>1, <1>2, WFMin
<1>5. \A y \in T : t <= y
  <2> SUFFICES ASSUME NEW y \in T PROVE t <= y
    OBVIOUS
  <2>1. t \in Nat /\ y \in Nat
    BY <1>1
  <2>2. ~ (y < t)
    BY <1>3, <1>4, <2>1, Zenon
  <2> QED BY <2>1, <2>2
<1>6. PICK i \in S : t = n - i
  BY <1>4 DEF T
<1>7. \A j \in S : i >= j
  BY <1>5, <1>6 DEF T
<1> QED BY <1>6, <1>7 DEF Max

LEMMA PlanShape ==
  ASSUME NEW s, NEW D, NEW V, NEW p \in Plans(s, D, V)
  PROVE  p.started = s /\ p.duration \in D
BY DEF Plans

LEMMA SurfaceType ==
  ASSUME NEW at, NEW h \in ChangedSurfaces(at)
  PROVE  h \in Surfaces
BY DEF ChangedSurfaces, Relaxed, Surfaces

LEMMA CompletionIsBoundary ==
  ASSUME scan_id \in Nat \ {0}
  PROVE  Completion = Boundary(scan_id) /\ Completion \in Nat
BY RotationAssumption DEF Completion, ScheduledScan, Boundary, RatesAssumption

(* What AdvanceTo does to the clock: it ends before the next event, at or  *)
(* after the start of the phase, and a new phase starts there.             *)
LEMMA ClockAdvances ==
  ASSUME ClockInv, NEW goal \in Int, AdvanceTo(goal), elapsed < goal, goal <= Completion,
         scan_id' = scan_id
  PROVE  /\ ClockInv'
         /\ elapsed' = goal
         /\ surface' \in Surfaces
         /\ \/ phase' = phase /\ plan'.started = plan.started
            \/ plan'.started = goal
<1> USE DEF ClockInv
<1>1. /\ elapsed' = goal /\ goal \in Nat /\ goal <= NextEvent
      /\ NextUpdate \in Int /\ PhaseEnd \in Int /\ Interval \in Nat \ {0}
  BY ScenarioAssumption DEF AdvanceTo, NextUpdate, PhaseEnd, PositiveRanges
<1>2. NextEvent \in {NextUpdate, PhaseEnd} /\ NextEvent <= NextUpdate /\ NextEvent <= PhaseEnd
  BY <1>1, MinOfTwo DEF NextEvent
<1>3. Completion' = Completion
  BY DEF Completion
<1>4. CASE goal < NextEvent
  <2>1. UNCHANGED <<updated, index, cycle, phase, inlet, plan, surface, log, ends>>
    BY <1>2, <1>1, <1>4 DEF AdvanceTo
  <2>2. NextUpdate' = NextUpdate /\ PhaseEnd' = PhaseEnd
    BY <2>1 DEF NextUpdate, PhaseEnd
  <2>3. goal < NextUpdate /\ goal < PhaseEnd
    BY <1>1, <1>2, <1>4
  <2>4. plan.started <= goal
    BY <1>1
  <2> QED BY <1>1, <1>3, <2>1, <2>2, <2>3, <2>4
<1>5. CASE goal = NextEvent
  <2>1. Event(goal)
    BY <1>5 DEF AdvanceTo
  <2>2. surface' \in Surfaces
    BY <2>1, SurfaceType DEF Event
  <2>3. index' \in Nat /\ goal < NextUpdate'
    <3>1. CASE goal = NextUpdate
      <4>1. index' = index + 1
        BY <2>1, <3>1 DEF Event
      <4>2. Interval * (index + 1) = Interval * index + Interval
        BY <1>1
      <4> QED BY <1>1, <3>1, <4>1, <4>2 DEF NextUpdate
    <3>2. CASE goal # NextUpdate
      <4>1. index' = index
        BY <2>1, <3>2 DEF Event
      <4> QED BY <1>1, <1>2, <1>5, <3>2, <4>1 DEF NextUpdate
    <3> QED BY <3>1, <3>2
  <2>4. /\ phase' \in {"filling", "collecting"}
        /\ plan'.started \in Nat /\ plan'.duration \in Nat \ {0}
        /\ plan'.started <= goal /\ goal < PhaseEnd'
        /\ \/ phase' = phase /\ plan'.started = plan.started
           \/ plan'.started = goal
    <3>1. CASE goal = PhaseEnd
      <4>1. TransitionPhase(goal, surface')
        BY <2>1, <3>1 DEF Event
      <4>2. /\ phase' \in {"filling", "collecting"}
            /\ \E D, V : plan' \in Plans(goal, D, V) /\ D \subseteq Nat \ {0}
        BY <4>1, ScenarioAssumption DEF TransitionPhase, PositiveRanges
      <4>3. plan'.started = goal /\ plan'.duration \in Nat \ {0}
        BY <4>2, PlanShape
      <4> QED BY <1>1, <4>2, <4>3 DEF PhaseEnd
    <3>2. CASE goal # PhaseEnd
      <4>1. phase' = phase /\ plan' = plan
        BY <2>1, <3>2 DEF Event
      <4> QED BY <1>1, <1>2, <1>5, <3>2, <4>1 DEF PhaseEnd
    <3> QED BY <3>1, <3>2
  <2> QED BY <1>1, <1>3, <2>2, <2>3, <2>4
<1> QED BY <1>1, <1>2, <1>4, <1>5

LEMMA IntervalKept ==
  ASSUME Aligned, GoesOnInv, AdvanceInterval
  PROVE  GoesOnInv'
<1> DEFINE goal == Min({NextEvent, Completion})
<1> USE DEF GoesOnInv
<1>1. /\ NextUpdate \in Int /\ PhaseEnd \in Int /\ Completion \in Int
      /\ elapsed \in Nat /\ elapsed < NextUpdate /\ elapsed < PhaseEnd
      /\ elapsed < Completion /\ failure = "none"
  <2>1. Completion \in Int
    BY CompletionIsBoundary DEF ClockInv
  <2>2. elapsed < Completion /\ failure = "none"
    BY DEF AdvanceInterval
  <2> QED BY <2>1, <2>2, ScenarioAssumption
     DEF ClockInv, NextUpdate, PhaseEnd, PositiveRanges
<1>2. /\ NextEvent \in {NextUpdate, PhaseEnd}
      /\ NextEvent <= NextUpdate /\ NextEvent <= PhaseEnd
  BY <1>1, MinOfTwo DEF NextEvent
<1>3. goal \in {NextEvent, Completion} /\ goal <= NextEvent /\ goal <= Completion
  <2>1. NextEvent \in Int
    BY <1>1, <1>2
  <2> QED BY <1>1, <2>1, MinOfTwo
<1>4. goal \in Int /\ elapsed < goal /\ goal <= PhaseEnd
  BY <1>1, <1>2, <1>3
<1> HIDE DEF goal
<1>5. ~ (Distorted /\ ~IntervalFits(elapsed, goal))
  BY <1>4 DEF TimelineInv, IntervalFits, ClockInv
<1>0. CASE Fail("advance events")
  BY <1>0 DEF Fail, scenario, timeline, dropouts, GoesOnInv, ClockInv, SnapshotInv,
     TimelineInv, DropoutInv, OnlyLimitsEndIt, Completion, NextUpdate, PhaseEnd,
     MovingKind, Distorted
<1>b. SUFFICES ASSUME ~Fail("advance events") PROVE GoesOnInv'
  BY <1>0
<1>6. /\ IF Distorted THEN AdvanceTimeline(elapsed, goal) ELSE UNCHANGED timeline
      /\ AdvanceTo(goal)
      /\ PushEvents
      /\ failure' = IF Cardinality(events') > RetainedLimit THEN "retained events"
                    ELSE IF EventsOfBatch(log') > EventLimit THEN "scenario events"
                    ELSE IF PushRefused THEN "event order" ELSE "none"
      /\ UNCHANGED <<dropouts, scan_id, seen>>
  BY <1>5, <1>b DEF AdvanceInterval, goal
<1>7. /\ ClockInv' /\ elapsed' = goal /\ surface' \in Surfaces
      /\ \/ phase' = phase /\ plan'.started = plan.started
         \/ plan'.started = goal
  BY <1>3, <1>4, <1>6, ClockAdvances
<1>8. ~PushRefused
  <2>1. /\ entries \in Seq(Entry) /\ Len(entries) \in Nat /\ Len(entries) >= 1
        /\ entries[Len(entries)] \in Entry
        /\ entries[Len(entries)].started <= elapsed
    BY DEF SnapshotInv
  <2>2. entries[Len(entries)].started \in Nat
    BY <2>1 DEF Entry
  <2> QED BY <1>1, <1>4, <1>7, <2>1, <2>2 DEF PushRefused
<1>9. SnapshotInv'
  <2>1. /\ entries \in Seq(Entry) /\ Len(entries) \in Nat /\ Len(entries) >= 1
        /\ entries[1] \in Entry /\ entries[Len(entries)] \in Entry
        /\ entries[1].started <= Captured(scan_id)
        /\ entries[Len(entries)].started <= elapsed
    BY DEF SnapshotInv
  <2>2. entries[Len(entries)].started \in Nat
    BY <2>1 DEF Entry
  <2>3. Captured(scan_id)' = Captured(scan_id)
    BY <1>6 DEF Captured
  <2>4. CASE HasEvent
    <3>1. entries' = Append(entries, [started |-> goal, snapshot |-> surface'])
      BY <1>6, <1>7, <2>4 DEF PushEvents, HasEvent
    <3>2. [started |-> goal, snapshot |-> surface'] \in Entry
      BY <1>1, <1>4, <1>7 DEF Entry
    <3>3. /\ entries' \in Seq(Entry) /\ Len(entries') = Len(entries) + 1
          /\ entries'[1] = entries[1]
          /\ entries'[Len(entries')] = [started |-> goal, snapshot |-> surface']
      BY <2>1, <3>1, <3>2, AppendProperties
    <3> QED BY <1>4, <1>7, <2>1, <2>3, <3>3 DEF SnapshotInv
  <2>5. CASE ~HasEvent
    <3>1. entries' = entries
      BY <1>6, <2>5 DEF PushEvents, HasEvent
    <3> QED BY <1>1, <1>4, <1>7, <2>1, <2>2, <2>3, <3>1 DEF SnapshotInv
  <2> QED BY <2>4, <2>5
<1>10. TimelineInv'
  <2> SUFFICES ASSUME Distorted
               PROVE /\ advanced' = elapsed'
                     /\ retained' = Captured(scan_id')
                     /\ observed' \in [Moving -> Int]
                     /\ \/ observed'[MovingKind'] = plan'.started
                        \/ elapsed' = plan'.started
                        \/ MovingKind' \notin Enabled
    BY DEF TimelineInv, Distorted
  <2>1. /\ advanced' = goal /\ UNCHANGED retained
        /\ observed' = [observed EXCEPT ![MovingKind] =
                         IF MovingKind \in Enabled THEN plan.started ELSE @]
    BY <1>6 DEF AdvanceTimeline, Record
  <2>2. MovingKind \in Moving /\ observed \in [Moving -> Int] /\ plan.started \in Int
    BY DEF MovingKind, Moving, ClockInv, TimelineInv
  <2>3. observed' \in [Moving -> Int]
    BY <2>1, <2>2
  <2>4. MovingKind \in Enabled => observed'[MovingKind] = plan.started
    BY <2>1, <2>2
  <2>5. phase' = phase => MovingKind' = MovingKind
    BY DEF MovingKind
  <2> QED BY <1>6, <1>7, <2>1, <2>3, <2>4, <2>5 DEF TimelineInv, Captured
<1>11. DropoutInv'
  BY <1>6 DEF DropoutInv, dropouts, Captured
<1>12. OnlyLimitsEndIt'
  BY <1>6, <1>8 DEF OnlyLimitsEndIt
<1> QED BY <1>7, <1>9, <1>10, <1>11, <1>12

LEMMA AlignedBoundary ==
  ASSUME Aligned, Distorted, NEW n \in Nat \ {0}
  PROVE  Captured(n + 1) <= Boundary(n)
<1>1. RotationTicks % SampleTicks = 0
  BY DEF Aligned, Distorted
<1> DEFINE q == RotationTicks \div SampleTicks
<1>2. q \in Nat /\ RotationTicks = SampleTicks * q
  BY <1>1, RotationAssumption DEF RatesAssumption
<1> HIDE DEF q
<1>3. Boundary(n) = SampleTicks * (n * q) /\ n * q \in Nat
  BY <1>2, RotationAssumption DEF Boundary, RatesAssumption
<1>4. Boundary(n) % SampleTicks = 0
  BY <1>3, RotationAssumption DEF RatesAssumption
<1> QED BY <1>4, BeginsAtCompletion

LEMMA ScanKept ==
  ASSUME Aligned, GoesOnInv, CompleteScan
  PROVE  GoesOnInv'
<1> USE DEF GoesOnInv
<1> DEFINE first == Captured(scan_id)
<1> DEFINE next == Captured(scan_id + 1)
<1> DEFINE scan == ScheduledScan(scan_id)
<1>1. /\ scan_id \in Nat \ {0} /\ scan_id + 1 \in Nat \ {0}
      /\ elapsed = Completion /\ failure = "none"
  <2>1. elapsed = Completion /\ failure = "none"
    BY DEF CompleteScan
  <2> QED BY <2>1 DEF ClockInv
<1>2. /\ Completion = Boundary(scan_id) /\ Completion \in Nat
      /\ scan.completed = Completion
  BY <1>1, CompletionIsBoundary DEF Completion
<1>3. /\ first \in Nat /\ next \in Nat
      /\ Boundary(scan_id) <= next /\ first < next
      /\ next = LastPoint(scan_id) + SampleTicks
  BY <1>1, NextBeginsAfterCompletion, ScansFollow
<1>4. ValidScan(scan) /\ ValidScan(ScheduledScan(scan_id + 1))
  BY <1>1, EveryScanIsValid
<1>5. /\ entries \in Seq(Entry) /\ Len(entries) \in Nat /\ Len(entries) >= 1
      /\ entries[1] \in Entry
      /\ entries[1].started \in Nat /\ entries[1].started <= first
      /\ entries[Len(entries)] \in Entry
      /\ entries[Len(entries)].started <= elapsed
  <2>1. /\ entries \in Seq(Entry) /\ Len(entries) \in Nat /\ Len(entries) >= 1
        /\ entries[1] \in Entry /\ entries[Len(entries)] \in Entry
    BY DEF SnapshotInv
  <2>2. entries[1].started \in Nat
    BY <2>1 DEF Entry
  <2> QED BY <2>1, <2>2 DEF SnapshotInv
<1>6. \A t \in scan.points : Covering(t) # {}
  <2> SUFFICES ASSUME NEW t \in scan.points PROVE 1 \in Covering(t)
    OBVIOUS
  <2>1. t \in Nat /\ first <= t
    <3>1. scan_id - 1 \in Nat /\ CeilMultiple(scan_id - 1) \in Nat /\ CeilMultiple(scan_id) \in Nat
      BY <1>1, CeilMultipleBounds
    <3>2. PICK k \in CeilMultiple(scan_id - 1)..(CeilMultiple(scan_id) - 1) : t = SampleTicks * k
      BY DEF ScheduledScan
    <3>3. SampleTicks * CeilMultiple(scan_id - 1) <= SampleTicks * k /\ SampleTicks * k \in Nat
      BY <3>1, <3>2, RotationAssumption DEF RatesAssumption
    <3> QED BY <3>2, <3>3 DEF Captured
  <2> QED BY <1>3, <1>5, <2>1 DEF Covering
<1>7. Distorted => /\ advanced = Completion /\ retained = first
                   /\ ScanCovered(first, scan.completed) /\ MayDiscard(next)
  <2> SUFFICES ASSUME Distorted
               PROVE  /\ advanced = Completion /\ retained = first
                      /\ ScanCovered(first, scan.completed) /\ MayDiscard(next)
    OBVIOUS
  <2>1. advanced = Completion /\ retained = first
    BY <1>1 DEF TimelineInv
  <2>2. next <= Completion
    BY <1>1, <1>2, AlignedBoundary
  <2> QED BY <1>2, <1>3, <2>1, <2>2 DEF ScanCovered, MayDiscard
<1>8. PointsFollow(first)
  BY DEF PointsFollow, DropoutInv
<1>a. CASE Fail("dropout events")
  BY <1>a DEF Fail, scenario, timeline, dropouts, GoesOnInv, ClockInv, SnapshotInv,
     TimelineInv, DropoutInv, OnlyLimitsEndIt, Completion, NextUpdate, PhaseEnd,
     MovingKind, Distorted
<1>b. SUFFICES ASSUME ~Fail("dropout events") PROVE GoesOnInv'
  BY <1>a
<1> HIDE DEF first, next, scan
<1>9. /\ dropout'.last = LastPoint(scan_id)
      /\ scan_id' = scan_id + 1
      /\ entries' = Discarded(next)
      /\ IF Distorted THEN DiscardTimeline(next) ELSE UNCHANGED timeline
      /\ UNCHANGED <<failure, scenario>>
  <2> USE DEF first, next, scan
  <2>1. /\ ~ (~ValidScan(scan) \/ ~ValidScan(ScheduledScan(scan_id + 1)))
        /\ ~ (\E t \in scan.points : Covering(t) = {})
        /\ ~ (Distorted /\ ~ScanCovered(first, scan.completed))
        /\ ~ (~PointsFollow(first))
        /\ ~ (Distorted /\ ~MayDiscard(next))
    BY <1>4, <1>6, <1>7, <1>8
  <2>2. \E o \in Outages(LastPoint(scan_id)) :
          \/ Fail("dropout events")
          \/ /\ dropout' = [start |-> o.start, end |-> o.end, last |-> LastPoint(scan_id)]
             /\ scan_id' = scan_id + 1
             /\ entries' = Discarded(next)
             /\ IF Distorted THEN DiscardTimeline(next) ELSE UNCHANGED timeline
             /\ UNCHANGED failure /\ UNCHANGED scenario
    BY <2>1 DEF CompleteScan
  <2>3. /\ \E o \in Outages(LastPoint(scan_id)) :
             dropout' = [start |-> o.start, end |-> o.end, last |-> LastPoint(scan_id)]
        /\ scan_id' = scan_id + 1
        /\ entries' = Discarded(next)
        /\ IF Distorted THEN DiscardTimeline(next) ELSE UNCHANGED timeline
        /\ UNCHANGED failure /\ UNCHANGED scenario
    BY <1>b, <2>2
  <2> QED BY <2>3
<1>10. ClockInv'
  <2>1. Completion' = Boundary(scan_id + 1)
    BY <1>9 DEF Completion, ScheduledScan
  <2>2. Boundary(scan_id + 1) = Boundary(scan_id) + RotationTicks /\ RotationTicks \in Nat
    BY <1>1, RotationAssumption DEF Boundary, RatesAssumption
  <2>3. elapsed' <= Completion'
    BY <1>1, <1>2, <1>9, <2>1, <2>2 DEF scenario
  <2> QED BY <1>1, <1>9, <2>3 DEF ClockInv, scenario, NextUpdate, PhaseEnd
<1>11. SnapshotInv'
  <2>1. Covering(next) \subseteq 1..Len(entries) /\ 1 \in Covering(next)
    BY <1>3, <1>5 DEF Covering
  <2> DEFINE m == Max(Covering(next))
  <2>2. m \in Covering(next)
    BY <1>5, <2>1, MaxOfPlaces
  <2>3. m \in 1..Len(entries) /\ entries[m].started <= next
    BY <2>2 DEF Covering
  <2>4. entries' = SubSeq(entries, m, Len(entries))
    BY <1>9, <2>1 DEF Discarded
  <2> HIDE DEF m
  <2>5. /\ entries' \in Seq(Entry)
        /\ Len(entries') = Len(entries) - m + 1
        /\ \A i \in 1..(Len(entries) - m + 1) : entries'[i] = entries[m + i - 1]
    <3>1. \A i \in m..Len(entries) : entries[i] \in Entry
      BY <1>5, <2>3
    <3>2. m \in Int /\ Len(entries) \in Int /\ m <= Len(entries)
      BY <1>5, <2>3
    <3> QED BY <2>4, <3>1, <3>2, SubSeqProperties
  <2>6. entries'[1] = entries[m] /\ entries'[Len(entries')] = entries[Len(entries)]
        /\ Len(entries') >= 1
    BY <1>5, <2>3, <2>5
  <2> QED BY <1>5, <1>9, <2>3, <2>5, <2>6 DEF SnapshotInv, scenario, next
<1>12. TimelineInv'
  <2> SUFFICES ASSUME Distorted PROVE TimelineInv'
    BY DEF TimelineInv, Distorted
  <2>1. DiscardTimeline(next)
    BY <1>9
  <2>2. /\ advanced' = advanced /\ retained' = next /\ observed' = observed
        /\ elapsed' = elapsed /\ plan' = plan /\ MovingKind' = MovingKind
    BY <1>9, <2>1 DEF DiscardTimeline, scenario, MovingKind
  <2> QED BY <1>9, <2>2 DEF TimelineInv, next
<1>13. DropoutInv'
  <2>1. LastPoint(scan_id) \in Int /\ LastPoint(scan_id) < next
    BY <1>1, <1>3, CeilMultipleBounds, RotationAssumption DEF LastPoint, RatesAssumption
  <2> QED BY <1>9, <2>1 DEF DropoutInv, next
<1>14. OnlyLimitsEndIt'
  BY <1>9 DEF OnlyLimitsEndIt
<1> QED BY <1>10, <1>11, <1>12, <1>13, <1>14

(* With no distortion, or with rates of which one divides the other, the   *)
(* generation goes on for ever or stops at one of its limits: no interval  *)
(* is refused, no scan is without points or surface, no history is too     *)
(* short, and none is cut too early or too late.                           *)
THEOREM GenerationEndsAtLimitsOnly ==
  ASSUME Aligned
  PROVE  Spec => []OnlyLimitsEndIt
<1>1. Init => GoesOnInv
  <2> SUFFICES ASSUME Init PROVE GoesOnInv
    OBVIOUS
  <2>1. /\ plan.started = 0 /\ plan.duration \in Nat \ {0}
    BY ScenarioAssumption, PlanShape DEF Init, ScenarioStart, PositiveRanges
  <2>2. Captured(1) = 0
    <3>1. CeilMultiple(0) \in Nat /\ SampleTicks * CeilMultiple(0) < SampleTicks
      BY CeilMultipleBounds, RotationAssumption DEF Boundary, RatesAssumption
    <3>2. CeilMultiple(0) = 0
      BY <3>1, RotationAssumption DEF RatesAssumption
    <3>3. Captured(1) = SampleTicks * CeilMultiple(0)
      BY DEF Captured
    <3> QED BY <3>2, <3>3, RotationAssumption DEF RatesAssumption
  <2>3. Flat \in Surfaces
    BY HeightFieldAssumption DEF Flat, Surfaces
  <2>4. ClockInv
    <3>1. Completion \in Nat
      BY CompletionIsBoundary DEF Init
    <3> QED BY <2>1, <2>3, <3>1, ScenarioAssumption
       DEF Init, ScenarioStart, ClockInv, NextUpdate, PhaseEnd, PositiveRanges
  <2>5. SnapshotInv
    BY <2>2, <2>3 DEF Init, ScenarioStart, SnapshotInv, Entry
  <2>6. TimelineInv
    BY <2>1, <2>2 DEF Init, ScenarioStart, NoDistortion, TimelineInv, None
  <2>7. DropoutInv
    BY <2>2 DEF Init, NoDistortion, DropoutInv, None
  <2>8. OnlyLimitsEndIt
    BY DEF Init, OnlyLimitsEndIt
  <2> QED BY <2>4, <2>5, <2>6, <2>7, <2>8 DEF GoesOnInv
<1>2. GoesOnInv /\ [Next]_vars => GoesOnInv'
  <2> SUFFICES ASSUME GoesOnInv, [Next]_vars PROVE GoesOnInv'
    OBVIOUS
  <2>1. CASE AdvanceInterval
    BY <2>1, IntervalKept
  <2>2. CASE CompleteScan
    BY <2>2, ScanKept
  <2>3. CASE UNCHANGED vars
    BY <2>3 DEF vars, scenario, timeline, dropouts, GoesOnInv, ClockInv, SnapshotInv,
        TimelineInv, DropoutInv, OnlyLimitsEndIt, Completion, NextUpdate, PhaseEnd,
        MovingKind, Distorted
  <2> QED BY <2>1, <2>2, <2>3 DEF Next, Stopped
<1>3. GoesOnInv => OnlyLimitsEndIt
  BY DEF GoesOnInv
<1> QED BY <1>1, <1>2, <1>3, PTL DEF Spec

-----------------------------------------------------------------------------
(* The calendar of the scenario: the next update is the next multiple of   *)
(* the interval, and the only end of a phase still to come is the next.    *)
Occurrence ==
  [at : Nat, update : BOOLEAN, transition : BOOLEAN,
   phase : {"filling", "collecting"}, surface : Surfaces]

CalendarInv ==
    /\ index >= 1 /\ Interval * (index - 1) <= elapsed
    /\ PhaseEnd \in ends
    /\ \A t \in ends : t \in Nat /\ (t <= elapsed \/ t = PhaseEnd)
    /\ log \in Seq(Occurrence)
    /\ \A i \in 1..Len(log) : 1 <= log[i].at /\ log[i].at <= elapsed

ScheduleInv == ClockInv /\ CalendarInv /\ EventsAreTheSchedule

LEMMA NextMultiple ==
  ASSUME NEW s \in Nat \ {0}, NEW k \in Nat \ {0}, NEW t \in Nat,
         s * (k - 1) < t, t <= s * k
  PROVE  t % s = 0 <=> t = s * k
<1>1. ASSUME t % s = 0 PROVE t = s * k
  <2> DEFINE d == t \div s
  <2>1. t = s * d /\ d \in Nat
    BY <1>1
  <2> HIDE DEF d
  <2>2. k - 1 < d
    <3>1. CASE d <= k - 1
      <4>1. s * d <= s * (k - 1)
        BY <2>1, <3>1
      <4> QED BY <2>1, <4>1
    <3> QED BY <2>1, <3>1
  <2>3. d <= k
    <3>1. CASE d >= k + 1
      <4>1. s * d >= s * (k + 1) /\ s * (k + 1) = s * k + s
        BY <2>1, <3>1
      <4> QED BY <2>1, <4>1
    <3> QED BY <2>1, <3>1
  <2>4. d = k
    BY <2>1, <2>2, <2>3
  <2> QED BY <2>1, <2>4
<1>2. ASSUME t = s * k PROVE t % s = 0
  BY <1>2
<1> QED BY <1>1, <1>2

(* The instants at which the surface may change. *)
IsDue(t) == t % Interval = 0 \/ t \in ends

(* Up to the next event nothing is due, and what is due then is what the   *)
(* event is: an update, the end of the phase, or both.                     *)
LEMMA NextEventIsNext ==
  ASSUME ClockInv, CalendarInv
  PROVE  /\ NextEvent \in Nat /\ elapsed < NextEvent
         /\ NextUpdate \in Nat /\ PhaseEnd \in Nat
         /\ \A t \in Nat : elapsed < t /\ t < NextEvent => ~IsDue(t)
         /\ NextEvent % Interval = 0 <=> NextEvent = NextUpdate
         /\ NextEvent \in ends <=> NextEvent = PhaseEnd
         /\ IsDue(NextEvent)
<1>1. /\ Interval \in Nat \ {0} /\ index \in Nat \ {0} /\ elapsed \in Nat
      /\ Interval * (index - 1) <= elapsed
      /\ elapsed < NextUpdate /\ elapsed < PhaseEnd
      /\ PhaseEnd \in Nat /\ NextUpdate = Interval * index
  BY ScenarioAssumption DEF ClockInv, CalendarInv, NextUpdate, PhaseEnd, PositiveRanges
<1>2. NextUpdate \in Nat
  BY <1>1
<1>3. /\ NextEvent \in {NextUpdate, PhaseEnd}
      /\ NextEvent <= NextUpdate /\ NextEvent <= PhaseEnd
  BY <1>1, <1>2, MinOfTwo DEF NextEvent
<1>4. ASSUME NEW t \in Nat, elapsed < t, t <= NextEvent
      PROVE  /\ t % Interval = 0 <=> t = NextUpdate
             /\ t \in ends <=> t = PhaseEnd
  <2>1. Interval * (index - 1) < t /\ t <= Interval * index
    <3>1. Interval * (index - 1) \in Int
      BY <1>1
    <3> QED BY <1>1, <1>2, <1>3, <1>4, <3>1
  <2>2. t % Interval = 0 <=> t = NextUpdate
    BY <1>1, <2>1, NextMultiple
  <2>3. t \in ends <=> t = PhaseEnd
    BY <1>1, <1>4 DEF CalendarInv
  <2> QED BY <2>2, <2>3
<1>5. NextEvent \in Nat /\ elapsed < NextEvent
  BY <1>1, <1>2, <1>3
<1>6. \A t \in Nat : elapsed < t /\ t < NextEvent => ~IsDue(t)
  BY <1>2, <1>1, <1>3, <1>4 DEF IsDue
<1> QED BY <1>1, <1>2, <1>3, <1>4, <1>5, <1>6 DEF IsDue

LEMMA OccurrenceTimes ==
  ASSUME CalendarInv, NEW i \in 1..Len(log)
  PROVE  log[i].at \in Nat /\ 1 <= log[i].at /\ log[i].at <= elapsed
<1>1. log[i] \in Occurrence
  BY DEF CalendarInv
<1>2. log[i].at \in Nat
  BY <1>1 DEF Occurrence
<1> QED BY <1>2 DEF CalendarInv

(* A call that stops short of the next event leaves the calendar as it is. *)
LEMMA NothingDue ==
  ASSUME ScheduleInv, ClockInv', NEW goal \in Int, AdvanceTo(goal),
         elapsed < goal, goal < NextEvent
  PROVE  CalendarInv' /\ EventsAreTheSchedule'
<1> USE DEF ScheduleInv
<1>1. /\ elapsed' = goal /\ goal \in Nat
      /\ UNCHANGED <<updated, index, cycle, phase, inlet, plan, surface, log, ends>>
  <2>1. NextEvent \in Nat
    BY NextEventIsNext
  <2> QED BY <2>1 DEF AdvanceTo, ClockInv
<1>2. PhaseEnd' = PhaseEnd
  BY <1>1 DEF PhaseEnd
<1>3. CalendarInv'
  <2>1. elapsed \in Nat /\ Interval \in Nat \ {0} /\ index \in Nat /\ PhaseEnd \in Nat
    BY ScenarioAssumption DEF ClockInv, PositiveRanges, PhaseEnd
  <2>2. Interval * (index - 1) \in Int
    BY <2>1
  <2>3. \A t \in ends' : t \in Nat /\ (t <= elapsed' \/ t = PhaseEnd')
    <3> SUFFICES ASSUME NEW t \in ends PROVE t \in Nat /\ (t <= goal \/ t = PhaseEnd)
      BY <1>1, <1>2
    <3>1. t \in Nat /\ (t <= elapsed \/ t = PhaseEnd)
      BY DEF CalendarInv
    <3> QED BY <1>1, <2>1, <3>1
  <2>4. index' >= 1 /\ Interval * (index' - 1) <= elapsed'
    BY <1>1, <2>1, <2>2 DEF CalendarInv
  <2>5. \A i \in 1..Len(log') : 1 <= log'[i].at /\ log'[i].at <= elapsed'
    <3> SUFFICES ASSUME NEW i \in 1..Len(log) PROVE 1 <= log[i].at /\ log[i].at <= goal
      BY <1>1
    <3>1. log[i].at \in Nat /\ 1 <= log[i].at /\ log[i].at <= elapsed
      BY OccurrenceTimes
    <3> QED BY <1>1, <2>1, <3>1
  <2> QED BY <1>1, <1>2, <2>3, <2>4, <2>5 DEF CalendarInv
<1>4. {t \in 1..goal : IsDue(t)} = {t \in 1..elapsed : IsDue(t)}
  BY <1>1, NextEventIsNext DEF ClockInv
<1>5. EventsAreTheSchedule'
  BY <1>1, <1>4 DEF EventsAreTheSchedule, IsDue
<1> QED BY <1>3, <1>5

(* An event is written down with what was due at its instant. *)
LEMMA EventIsDue ==
  ASSUME ScheduleInv, ClockInv', NEW goal \in Int, AdvanceTo(goal),
         elapsed < goal, goal = NextEvent
  PROVE  CalendarInv' /\ EventsAreTheSchedule'
<1> USE DEF ScheduleInv
<1> DEFINE e == [at |-> goal, update |-> goal = NextUpdate,
                 transition |-> goal = PhaseEnd, phase |-> phase', surface |-> surface']
<1>1. /\ Event(goal) /\ elapsed' = goal
      /\ log' = Append(log, e)
      /\ index' = IF goal = NextUpdate THEN index + 1 ELSE index
  BY DEF AdvanceTo, Event, Logged
<1>2. /\ goal \in Nat /\ elapsed \in Nat /\ elapsed < goal
      /\ NextUpdate \in Nat /\ PhaseEnd \in Nat
      /\ \A t \in Nat : elapsed < t /\ t < goal => ~IsDue(t)
      /\ goal % Interval = 0 <=> goal = NextUpdate
      /\ goal \in ends <=> goal = PhaseEnd
      /\ IsDue(goal)
  BY NextEventIsNext DEF ClockInv
<1>3. e \in Occurrence
  BY <1>2 DEF Occurrence, ClockInv
<1>4. e.at = goal /\ e.update = (goal % Interval = 0) /\ e.transition = (goal \in ends)
  BY <1>2
<1> HIDE DEF e
<1>5. /\ log \in Seq(Occurrence) /\ Len(log) \in Nat
      /\ log' \in Seq(Occurrence) /\ Len(log') = Len(log) + 1
      /\ log'[Len(log) + 1] = e
      /\ \A i \in 1..Len(log) : log'[i] = log[i]
  <2>1. log \in Seq(Occurrence)
    BY DEF CalendarInv
  <2> QED BY <1>1, <1>3, <2>1, AppendProperties
(* The ends that are known are those known before, and at a transition one *)
(* that is later than the event.                                           *)
<1>6. /\ PhaseEnd' \in ends' /\ PhaseEnd' \in Nat
      /\ \A t \in Nat : t <= goal => (t \in ends' <=> t \in ends)
      /\ \A t \in ends' : t \in Nat /\ (t <= goal \/ t = PhaseEnd')
  <2>1. PhaseEnd' \in Nat /\ goal < PhaseEnd'
    BY <1>1 DEF ClockInv, PhaseEnd
  <2>2. \A t \in ends : t \in Nat /\ (t <= goal \/ t = PhaseEnd)
    BY <1>2 DEF CalendarInv
  <2>3. CASE goal = PhaseEnd
    <3>1. ends' = ends \union {goal + plan'.duration}
      BY <1>1, <2>3 DEF Event
    <3>2. PhaseEnd' = goal + plan'.duration
      <4>1. TransitionPhase(goal, surface')
        BY <1>1, <2>3 DEF Event
      <4>2. \E D, V : plan' \in Plans(goal, D, V)
        BY <4>1 DEF TransitionPhase
      <4>3. plan'.started = goal
        BY <4>2, PlanShape
      <4> QED BY <4>3 DEF PhaseEnd
    <3> QED BY <1>2, <2>1, <2>2, <2>3, <3>1, <3>2
  <2>4. CASE goal # PhaseEnd
    <3>1. plan' = plan /\ ends' = ends
      BY <1>1, <2>4 DEF Event
    <3>2. PhaseEnd' = PhaseEnd /\ PhaseEnd \in ends
      BY <3>1 DEF PhaseEnd, CalendarInv
    <3> QED BY <2>1, <2>2, <3>1, <3>2
  <2> QED BY <2>3, <2>4
<1>7. index' >= 1 /\ Interval * (index' - 1) <= goal
  <2>1. index \in Nat /\ index >= 1 /\ Interval \in Nat \ {0} /\ NextUpdate = Interval * index
        /\ Interval * (index - 1) <= elapsed
    BY ScenarioAssumption DEF ClockInv, CalendarInv, PositiveRanges, NextUpdate
  <2>2. CASE goal = NextUpdate
    BY <1>1, <2>1, <2>2
  <2>3. CASE goal # NextUpdate
    <3>1. Interval * (index - 1) \in Int
      BY <2>1
    <3> QED BY <1>1, <1>2, <2>1, <2>3, <3>1
  <2> QED BY <2>2, <2>3
<1>8. \A i \in 1..Len(log) : log[i].at \in Nat /\ 1 <= log[i].at /\ log[i].at <= elapsed
  BY OccurrenceTimes
<1>9. CalendarInv'
  <2>1. \A i \in 1..Len(log') : 1 <= log'[i].at /\ log'[i].at <= goal
    <3> SUFFICES ASSUME NEW i \in 1..Len(log') PROVE 1 <= log'[i].at /\ log'[i].at <= goal
      OBVIOUS
    <3>1. CASE i \in 1..Len(log)
      BY <1>2, <1>5, <1>8, <3>1
    <3>2. CASE i = Len(log) + 1
      BY <1>2, <1>4, <1>5, <3>2
    <3> QED BY <1>5, <3>1, <3>2
  <2> QED BY <1>1, <1>5, <1>6, <1>7, <2>1 DEF CalendarInv
<1>10. \A i \in 1..Len(log') : /\ log'[i].update = (log'[i].at % Interval = 0)
                               /\ log'[i].transition = (log'[i].at \in ends')
  <2> SUFFICES ASSUME NEW i \in 1..Len(log')
               PROVE  /\ log'[i].update = (log'[i].at % Interval = 0)
                      /\ log'[i].transition = (log'[i].at \in ends')
    OBVIOUS
  <2>1. CASE i \in 1..Len(log)
    <3>1. log'[i] = log[i] /\ log[i].at \in Nat /\ log[i].at <= goal
      BY <1>2, <1>5, <1>8, <2>1
    <3>2. log[i].at \in ends' <=> log[i].at \in ends
      BY <1>6, <3>1
    <3>3. /\ log[i].update = (log[i].at % Interval = 0)
          /\ log[i].transition = (log[i].at \in ends)
      BY <2>1 DEF EventsAreTheSchedule
    <3> QED BY <3>1, <3>2, <3>3
  <2>2. CASE i = Len(log) + 1
    <3>1. goal \in ends' <=> goal \in ends
      BY <1>2, <1>6
    <3> QED BY <1>4, <1>5, <2>2, <3>1
  <2> QED BY <1>5, <2>1, <2>2
<1>11. \A i \in 2..Len(log') : log'[i - 1].at < log'[i].at
  <2> SUFFICES ASSUME NEW i \in 2..Len(log') PROVE log'[i - 1].at < log'[i].at
    OBVIOUS
  <2>1. CASE i \in 2..Len(log)
    <3>1. log[i - 1].at < log[i].at
      BY <2>1 DEF EventsAreTheSchedule
    <3>2. log'[i - 1] = log[i - 1] /\ log'[i] = log[i]
      BY <1>5, <2>1
    <3> QED BY <3>1, <3>2
  <2>2. CASE i = Len(log) + 1
    <3>1. i - 1 \in 1..Len(log) /\ log'[i - 1] = log[i - 1] /\ log'[i] = e
      BY <1>5, <2>2
    <3> QED BY <1>2, <1>4, <1>8, <3>1
  <2> QED BY <1>5, <2>1, <2>2
<1>12. {log'[i].at : i \in 1..Len(log')} =
         {t \in 1..goal : t % Interval = 0 \/ t \in ends'}
  <2>1. {log'[i].at : i \in 1..Len(log')} = {log[i].at : i \in 1..Len(log)} \union {goal}
    <3>1. 1..Len(log') = 1..Len(log) \union {Len(log) + 1}
      BY <1>5
    <3> QED BY <1>4, <1>5, <3>1
  <2>2. {log[i].at : i \in 1..Len(log)} = {t \in 1..elapsed : IsDue(t)}
    BY DEF EventsAreTheSchedule, IsDue
  <2>3. {t \in 1..goal : IsDue(t)} = {t \in 1..elapsed : IsDue(t)} \union {goal}
    BY <1>2
  <2>4. \A t \in 1..goal : IsDue(t) <=> t % Interval = 0 \/ t \in ends'
    BY <1>6 DEF IsDue
  <2> QED BY <2>1, <2>2, <2>3, <2>4
<1> QED BY <1>1, <1>9, <1>10, <1>11, <1>12 DEF EventsAreTheSchedule

(* The clock and the calendar depend on the scenario and on the pending    *)
(* scan only.                                                              *)
LEMMA ScheduleKept ==
  ASSUME ScheduleInv, UNCHANGED scenario, scan_id' \in {scan_id, scan_id + 1},
         elapsed <= Completion'
  PROVE  ScheduleInv'
BY DEF ScheduleInv, ClockInv, CalendarInv, EventsAreTheSchedule, scenario,
       NextUpdate, PhaseEnd

LEMMA ScheduleStep ==
  ASSUME ScheduleInv, [Next]_vars
  PROVE  ScheduleInv'
<1> USE DEF ScheduleInv
<1>1. CASE AdvanceInterval
  <2> DEFINE goal == Min({NextEvent, Completion})
  <2>1. /\ NextEvent \in Nat /\ elapsed < NextEvent
        /\ Completion \in Nat /\ elapsed < Completion
    BY <1>1, NextEventIsNext, CompletionIsBoundary DEF AdvanceInterval, ClockInv
  <2>2. goal \in {NextEvent, Completion} /\ goal <= NextEvent /\ goal <= Completion
    BY <2>1, MinOfTwo
  <2>3. goal \in Int /\ elapsed < goal
    BY <2>1, <2>2
  <2> HIDE DEF goal
  <2>4. CASE Fail("interval") \/ Fail("advance events")
    BY <2>4, ScheduleKept DEF Fail, ClockInv, Completion
  <2>5. CASE AdvanceTo(goal) /\ UNCHANGED scan_id
    <3>1. ClockInv'
      BY <2>2, <2>3, <2>5, ClockAdvances
    <3>2. goal < NextEvent \/ goal = NextEvent
      BY <2>1, <2>2, <2>3
    <3>3. CalendarInv' /\ EventsAreTheSchedule'
      BY <2>3, <2>5, <3>1, <3>2, NothingDue, EventIsDue
    <3> QED BY <3>1, <3>3
  <2> QED BY <1>1, <2>4, <2>5 DEF AdvanceInterval, goal
<1>2. CASE CompleteScan
  <2>1. UNCHANGED scenario /\ scan_id' \in {scan_id, scan_id + 1}
    BY <1>2 DEF CompleteScan, Fail
  <2>2. /\ scan_id \in Nat \ {0} /\ elapsed <= Completion
        /\ Completion = Boundary(scan_id)
    BY CompletionIsBoundary DEF ClockInv
  <2>3. scan_id' \in Nat \ {0}
    BY <2>1, <2>2
  <2>4. Completion' = Boundary(scan_id')
    BY <2>3 DEF Completion, ScheduledScan
  <2>5. Boundary(scan_id) <= Boundary(scan_id') /\ Boundary(scan_id') \in Nat
        /\ Boundary(scan_id) \in Nat
    <3>1. Boundary(scan_id + 1) = Boundary(scan_id) + RotationTicks
      BY <2>2 DEF Boundary
    <3>2. Boundary(scan_id) \in Nat /\ RotationTicks \in Nat
      BY <2>2 DEF Boundary
    <3> QED BY <2>1, <3>1, <3>2
  <2>6. elapsed <= Completion'
    BY <2>2, <2>4, <2>5 DEF ClockInv
  <2> QED BY <2>1, <2>6, ScheduleKept
<1>3. CASE UNCHANGED vars
  <2>1. UNCHANGED scenario /\ scan_id' = scan_id /\ Completion' = Completion
    BY <1>3 DEF vars, Completion
  <2> QED BY <2>1, ScheduleKept DEF ClockInv
<1> QED BY <1>1, <1>2, <1>3 DEF Next, Stopped

LEMMA ScheduleInit == Init => ScheduleInv
<1> SUFFICES ASSUME Init PROVE ScheduleInv
  OBVIOUS
<1>1. /\ plan.started = 0 /\ plan.duration \in Nat \ {0}
  BY ScenarioAssumption, PlanShape DEF Init, ScenarioStart, PositiveRanges
<1>2. ClockInv
  <2>1. Completion \in Nat
    BY CompletionIsBoundary DEF Init
  <2>2. Flat \in Surfaces
    BY HeightFieldAssumption DEF Flat, Surfaces
  <2> QED BY <1>1, <2>1, <2>2, ScenarioAssumption
     DEF Init, ScenarioStart, ClockInv, NextUpdate, PhaseEnd, PositiveRanges
<1>3. CalendarInv
  <2>1. /\ elapsed = 0 /\ index = 1 /\ log = << >> /\ ends = {plan.duration}
    BY DEF Init, ScenarioStart
  <2>2. PhaseEnd = plan.duration
    BY <1>1 DEF PhaseEnd
  <2>3. Interval * (1 - 1) = 0
    BY ScenarioAssumption DEF PositiveRanges
  <2> QED BY <1>1, <2>1, <2>2, <2>3 DEF CalendarInv
<1>4. EventsAreTheSchedule
  <2>1. elapsed = 0 /\ log = << >>
    BY DEF Init, ScenarioStart
  <2> QED BY <2>1 DEF EventsAreTheSchedule
<1> QED BY <1>2, <1>3, <1>4 DEF ScheduleInv

(* However the time is cut by the completions of scans, and whatever was   *)
(* drawn, exactly the multiples of the interval and the ends of the phases *)
(* become events, each once and in order (advance_inner, next_event).      *)
THEOREM EventsKeepTheSchedule == Spec => []EventsAreTheSchedule
<1>1. ScheduleInv => EventsAreTheSchedule
  BY DEF ScheduleInv
<1> QED BY <1>1, ScheduleInit, ScheduleStep, PTL DEF Spec

-----------------------------------------------------------------------------
(* What an update does to the volume of the heap.                          *)
LEMMA VolumeType ==
  ASSUME NEW h \in Surfaces
  PROVE  /\ VolumeOf(h) = SumOf(h, Columns) /\ VolumeOf(h) \in Nat
         /\ h \in [Columns -> Int]
<1>1. VolumeOf(h) = SumOf(h, Columns)
  BY DEF VolumeOf, SumOf
<1>2. h \in [Columns -> Nat] /\ h \in [Columns -> Int]
  BY HeightFieldAssumption DEF Surfaces
<1> QED BY <1>1, <1>2, SumIsNat, HeightFieldAssumption

LEMMA CapacityLeft ==
  ASSUME NEW h \in Surfaces
  PROVE  LET room == [c \in Columns |-> Top - h[c]] IN
         /\ room \in Surfaces
         /\ VolumeOf(room) = Capacity - VolumeOf(h)
         /\ Capacity \in Nat
<1> DEFINE room == [c \in Columns |-> Top - h[c]]
<1> DEFINE full == [c \in Columns |-> Top]
<1>1. room \in Surfaces /\ full \in Surfaces
  BY HeightFieldAssumption DEF Surfaces
<1>2. Capacity = SumOf(full, Columns)
  BY SumOfSame, HeightFieldAssumption DEF Capacity
<1>3. \A c \in Columns : full[c] = room[c] + h[c]
  BY HeightFieldAssumption DEF Surfaces
<1> HIDE DEF room, full
<1>4. SumOf(full, Columns) = SumOf(room, Columns) + SumOf(h, Columns)
  BY <1>1, <1>3, VolumeType, SumSplits, HeightFieldAssumption
<1>5. /\ VolumeOf(room) = SumOf(room, Columns) /\ VolumeOf(room) \in Nat
      /\ VolumeOf(h) = SumOf(h, Columns) /\ VolumeOf(h) \in Nat
      /\ VolumeOf(full) = SumOf(full, Columns) /\ VolumeOf(full) \in Nat
  BY <1>1, VolumeType
<1> QED BY <1>1, <1>2, <1>4, <1>5 DEF room

LEMMA FirstIsLess ==
  ASSUME NEW a \in Int, NEW b \in Int, a <= b
  PROVE  Min({a, b}) = a /\ Min({b, a}) = a
<1>1. /\ Min({a, b}) \in {a, b} /\ Min({a, b}) <= a
      /\ Min({b, a}) \in {a, b} /\ Min({b, a}) <= a
  BY MinOfTwo
<1> QED BY <1>1

LEMMA VolumeAfter == VolumeOf(surface)' = VolumeOf(surface')
OBVIOUS

(* Pouring adds the request, or all there is room for. *)
LEMMA PouredVolume ==
  ASSUME NEW h \in Surfaces, NEW request \in Int, NEW place,
         NEW f \in Poured(h, request, place)
  PROVE  /\ f \in Surfaces
         /\ VolumeOf(f) = VolumeOf(h) + Min({request, Capacity - VolumeOf(h)})
<1> DEFINE room == [c \in Columns |-> Top - h[c]]
<1>1. PICK delta \in HeightDeltas(Kernel(place), room, request) :
        f = [c \in Columns |-> h[c] + delta[c]]
  BY DEF Poured
<1>2. /\ delta \in Surfaces /\ \A c \in Columns : delta[c] <= room[c]
      /\ VolumeOf(delta) = Min({request, VolumeOf(room)})
  BY DEF HeightDeltas
<1>3. f \in Surfaces /\ \A c \in Columns : f[c] = h[c] + delta[c]
  BY <1>1, <1>2, HeightFieldAssumption DEF Surfaces
<1>4. VolumeOf(room) = Capacity - VolumeOf(h)
  BY CapacityLeft
<1> HIDE DEF room
<1>5. SumOf(f, Columns) = SumOf(h, Columns) + SumOf(delta, Columns)
  BY <1>2, <1>3, VolumeType, SumSplits, HeightFieldAssumption
<1>6. /\ VolumeOf(f) = SumOf(f, Columns) /\ VolumeOf(h) = SumOf(h, Columns)
      /\ VolumeOf(delta) = SumOf(delta, Columns)
  BY <1>2, <1>3, VolumeType
<1> QED BY <1>2, <1>3, <1>4, <1>5, <1>6

(* Lowering takes the request away, or all there is. *)
LEMMA LoweredVolume ==
  ASSUME NEW h \in Surfaces, NEW request \in Int, NEW f \in Lowered(h, request)
  PROVE  /\ f \in Surfaces
         /\ VolumeOf(f) = VolumeOf(h) - Min({request, VolumeOf(h)})
<1>1. PICK delta \in HeightDeltas(Uniform, h, request) :
        f = [c \in Columns |-> h[c] - delta[c]]
  BY DEF Lowered
<1>2. /\ delta \in Surfaces /\ \A c \in Columns : delta[c] <= h[c]
      /\ VolumeOf(delta) = Min({request, VolumeOf(h)})
  BY <1>1 DEF HeightDeltas
<1>3. f \in Surfaces /\ \A c \in Columns : h[c] = f[c] + delta[c]
  BY <1>1, <1>2, HeightFieldAssumption DEF Surfaces
<1>4. SumOf(h, Columns) = SumOf(f, Columns) + SumOf(delta, Columns)
  <2>1. h \in [Columns -> Int] /\ f \in [Columns -> Int] /\ delta \in [Columns -> Int]
    BY <1>2, <1>3, VolumeType
  <2> QED BY <1>3, <2>1, SumSplits, HeightFieldAssumption
<1>5. /\ VolumeOf(f) = SumOf(f, Columns) /\ VolumeOf(h) = SumOf(h, Columns)
      /\ VolumeOf(delta) = SumOf(delta, Columns)
      /\ VolumeOf(f) \in Nat /\ VolumeOf(delta) \in Nat
  BY <1>2, <1>3, VolumeType
<1> QED BY <1>2, <1>3, <1>4, <1>5

LEMMA ReshapedVolume ==
  /\ \A f : \A g \in Roughened(f) : g \in Surfaces /\ VolumeOf(g) = VolumeOf(f)
  /\ \A f : \A g \in Relaxed(f) : g \in Surfaces /\ VolumeOf(g) = VolumeOf(f)
BY DEF Roughened, Relaxed

-----------------------------------------------------------------------------
(* The plan of the phase is a balanced profile of what there is room for,  *)
(* and the surface was last updated within the phase.                      *)
PlanInv ==
    /\ plan.total \in Nat
    /\ plan.profile \in [0..plan.duration -> 0..plan.total]
    /\ Balanced(plan.profile, plan.duration, plan.total)
    /\ phase = "filling" => plan.total <= Capacity
    /\ updated \in Nat /\ plan.started <= updated /\ updated <= elapsed

PileInv == PlanInv /\ PileFollowsPlan

LEMMA PlanContents ==
  ASSUME NEW s, NEW D, NEW V, NEW p \in Plans(s, D, V)
  PROVE  /\ p.started = s /\ p.duration \in D /\ p.total \in V
         /\ p.profile \in [0..p.duration -> 0..p.total]
         /\ Balanced(p.profile, p.duration, p.total)
BY DEF Plans, Profiles

(* The volume that the plan has for an instant of the phase. *)
Planned(t) ==
    IF phase = "filling" THEN plan.profile[t - plan.started]
                         ELSE plan.total - plan.profile[t - plan.started]

LEMMA UpdateFollowsPlan ==
  ASSUME ClockInv, PileInv, NEW t \in Nat, elapsed < t, t <= PhaseEnd,
         NEW h \in ChangedSurfaces(t)
  PROVE  /\ h \in Surfaces
         /\ VolumeOf(h) = Planned(t)
         /\ t = PhaseEnd => PhaseReached(h)
<1> USE DEF PileInv
<1> DEFINE was == plan.profile[updated - plan.started]
<1> DEFINE now == plan.profile[t - plan.started]
<1>1. /\ plan.total \in Nat /\ was \in 0..plan.total /\ now \in 0..plan.total
      /\ t = PhaseEnd => now = plan.total
      /\ Due(t) = now - was
      /\ surface \in Surfaces
  <2>1. /\ updated - plan.started \in 0..plan.duration
        /\ t - plan.started \in 0..plan.duration
        /\ t = PhaseEnd => t - plan.started = plan.duration
    BY DEF ClockInv, PlanInv, PhaseEnd
  <2> QED BY <2>1 DEF PlanInv, Balanced, Due, ClockInv
<1> HIDE DEF was, now
<1>2. VolumeOf(surface) \in Nat /\ Capacity \in Nat
  BY <1>1, VolumeType, CapacityLeft
<1>3. CASE phase = "filling"
  <2>1. VolumeOf(surface) = was /\ plan.total <= Capacity
    BY <1>3 DEF PileFollowsPlan, PlanInv, was
  <2> DEFINE missing == IF plan.total > VolumeOf(surface)
                        THEN plan.total - VolumeOf(surface) ELSE 0
  <2> DEFINE request == IF t = PhaseEnd THEN missing ELSE Due(t)
  <2>2. request = now - was
    BY <1>1, <2>1
  <2>3. h \in UNION {UNION {Relaxed(g) : g \in Roughened(f)} :
                       f \in Poured(surface, request, At(inlet))}
    BY <1>3 DEF ChangedSurfaces
  <2> HIDE DEF request
  <2>4. \E f \in Poured(surface, request, At(inlet)) :
          \E g \in Roughened(f) : h \in Relaxed(g)
    BY <2>3
  <2>5. PICK f \in Poured(surface, request, At(inlet)) :
          \E g \in Roughened(f) : h \in Relaxed(g)
    BY <2>4
  <2>6. request \in Int
    BY <1>1, <2>2
  <2>7. VolumeOf(f) = was + Min({request, Capacity - was})
    BY <1>1, <2>1, <2>6, PouredVolume
  <2>8. Min({request, Capacity - was}) = request
    <3>1. Capacity - was \in Int /\ request <= Capacity - was
      BY <1>1, <1>2, <2>1, <2>2
    <3> QED BY <2>6, <3>1, FirstIsLess
  <2>9. h \in Surfaces /\ VolumeOf(h) = VolumeOf(f)
    BY <2>5, ReshapedVolume
  <2>10. VolumeOf(h) = now
    BY <1>1, <2>2, <2>7, <2>8, <2>9
  <2> QED BY <1>1, <1>3, <2>9, <2>10 DEF Planned, PhaseReached, now
<1>4. CASE phase # "filling"
  <2>1. VolumeOf(surface) = plan.total - was
    BY <1>4 DEF PileFollowsPlan, was
  <2> DEFINE request == IF t = PhaseEnd THEN VolumeOf(surface)
                        ELSE Min({VolumeOf(surface), Due(t)})
  <2>2. request = now - was
    <3>1. CASE t = PhaseEnd
      BY <1>1, <2>1, <3>1
    <3>2. CASE t # PhaseEnd
      <4>1. VolumeOf(surface) \in Int /\ now - was \in Int
            /\ now - was <= VolumeOf(surface)
        BY <1>1, <1>2, <2>1
      <4>2. Min({VolumeOf(surface), now - was}) = now - was
        BY <4>1, FirstIsLess
      <4> QED BY <1>1, <3>2, <4>2
    <3> QED BY <3>1, <3>2
  <2>3. h \in UNION {Relaxed(g) : g \in Lowered(surface, request)}
    BY <1>4 DEF ChangedSurfaces
  <2> HIDE DEF request
  <2>4. PICK g \in Lowered(surface, request) : h \in Relaxed(g)
    BY <2>3
  <2>5. request \in Int
    BY <1>1, <2>2
  <2>6. VolumeOf(g) = VolumeOf(surface) - Min({request, VolumeOf(surface)})
    BY <1>1, <2>4, <2>5, LoweredVolume
  <2>7. Min({request, VolumeOf(surface)}) = request
    <3>1. VolumeOf(surface) \in Int /\ request <= VolumeOf(surface)
      BY <1>1, <1>2, <2>1, <2>2
    <3> QED BY <2>5, <3>1, FirstIsLess
  <2>8. h \in Surfaces /\ VolumeOf(h) = VolumeOf(g)
    BY <2>4, ReshapedVolume
  <2>9. VolumeOf(h) = plan.total - now
    BY <1>1, <2>1, <2>2, <2>6, <2>7, <2>8
  <2> QED BY <1>1, <1>4, <2>8, <2>9 DEF Planned, PhaseReached, now
<1> QED BY <1>3, <1>4

(* An event leaves the volume that the plan has for it, or the one that    *)
(* the next phase begins with.                                             *)
LEMMA EventFollowsPlan ==
  ASSUME ClockInv, PileInv, ClockInv', NEW t \in Nat, elapsed < t, t <= PhaseEnd,
         Event(t), elapsed' = t
  PROVE  PileInv'
<1> USE DEF PileInv
<1>1. /\ surface' \in Surfaces /\ VolumeOf(surface') = Planned(t)
      /\ updated' = t
      /\ t = PhaseEnd => PhaseReached(surface')
  BY UpdateFollowsPlan DEF Event
<1>2. CASE t # PhaseEnd
  <2>1. phase' = phase /\ plan' = plan
    BY <1>2 DEF Event
  <2>2. PlanInv'
    BY <1>1, <2>1 DEF PlanInv, ClockInv, Capacity
  <2>3. PileFollowsPlan'
    BY <1>1, <2>1, VolumeAfter DEF PileFollowsPlan, Planned
  <2> QED BY <2>2, <2>3
<1>3. CASE t = PhaseEnd
  <2>1. TransitionPhase(t, surface') /\ PhaseReached(surface')
    BY <1>3 DEF Event
  <2>2. VolumeOf(surface') \in Nat
    BY <1>1, VolumeType
  <2>3. CASE phase = "filling"
    <3>1. phase' = "collecting" /\ plan' \in Plans(t, CollectionDurations, {VolumeOf(surface')})
      BY <2>1, <2>3 DEF TransitionPhase
    <3>2. /\ plan'.started = t /\ plan'.total = VolumeOf(surface')
          /\ plan'.profile \in [0..plan'.duration -> 0..plan'.total]
          /\ Balanced(plan'.profile, plan'.duration, plan'.total)
      BY <3>1, PlanContents
    <3>3. PlanInv'
      BY <1>1, <2>2, <3>1, <3>2 DEF PlanInv, Balanced
    <3>4. plan'.profile[updated' - plan'.started] = 0
      BY <1>1, <3>2 DEF Balanced
    <3>5. PileFollowsPlan'
      BY <2>2, <3>1, <3>2, <3>4, VolumeAfter DEF PileFollowsPlan
    <3> QED BY <3>3, <3>5
  <2>4. CASE phase # "filling"
    <3>1. phase' = "filling" /\ plan' \in Plans(t, FillDurations, Targets)
      BY <2>1, <2>4 DEF TransitionPhase
    <3>2. /\ plan'.started = t /\ plan'.total \in Targets
          /\ plan'.profile \in [0..plan'.duration -> 0..plan'.total]
          /\ Balanced(plan'.profile, plan'.duration, plan'.total)
      BY <3>1, PlanContents
    <3>3. plan'.total \in Nat /\ plan'.total <= Capacity
      <4>1. Capacity \in Nat /\ \A v \in Targets : v \in 1..Capacity
        BY <1>1, CapacityLeft, ScenarioAssumption DEF PossiblePlans
      <4> QED BY <3>2, <4>1
    <3>4. PlanInv'
      BY <1>1, <3>1, <3>2, <3>3 DEF PlanInv, Balanced, Capacity
    <3>5. plan'.profile[updated' - plan'.started] = 0
      BY <1>1, <3>2 DEF Balanced
    <3>6. PileFollowsPlan'
      BY <2>1, <2>4, <3>1, <3>5, VolumeAfter DEF PileFollowsPlan, PhaseReached
    <3> QED BY <3>4, <3>6
  <2> QED BY <2>3, <2>4
<1> QED BY <1>2, <1>3

LEMMA PileKept ==
  ASSUME PileInv, UNCHANGED <<plan, phase, updated, surface>>,
         elapsed \in Nat, elapsed' \in Nat, elapsed <= elapsed'
  PROVE  PileInv'
<1> USE DEF PileInv
<1>1. PlanInv'
  BY DEF PlanInv, Balanced, Capacity
<1>2. PileFollowsPlan'
  BY VolumeAfter DEF PileFollowsPlan
<1> QED BY <1>1, <1>2

LEMMA PileStep ==
  ASSUME ScheduleInv, ScheduleInv', PileInv, [Next]_vars
  PROVE  PileInv'
<1> USE DEF ScheduleInv
<1>1. elapsed \in Nat /\ elapsed' \in Nat
  BY DEF ClockInv
<1>2. CASE AdvanceInterval
  <2> DEFINE goal == Min({NextEvent, Completion})
  <2>1. /\ NextEvent \in Nat /\ elapsed < NextEvent /\ NextEvent <= PhaseEnd
        /\ Completion \in Nat /\ elapsed < Completion
    <3>1. NextUpdate \in Int /\ PhaseEnd \in Int
      BY NextEventIsNext
    <3> QED BY <1>2, <3>1, NextEventIsNext, CompletionIsBoundary, MinOfTwo
       DEF AdvanceInterval, ClockInv, NextEvent
  <2>2. goal \in Nat /\ elapsed < goal /\ goal <= NextEvent
    BY <2>1, MinOfTwo
  <2> HIDE DEF goal
  <2>3. CASE Fail("interval") \/ Fail("advance events")
    <3>1. UNCHANGED scenario
      BY <2>3 DEF Fail
    <3> QED BY <1>1, <3>1, PileKept DEF scenario
  <2>4. CASE AdvanceTo(goal)
    <3>1. CASE goal = NextEvent
      <4>1. Event(goal) /\ elapsed' = goal
        BY <2>4, <3>1 DEF AdvanceTo
      <4> QED BY <2>1, <2>2, <3>1, <4>1, EventFollowsPlan
    <3>2. CASE goal # NextEvent
      <4>1. UNCHANGED <<plan, phase, updated, surface>> /\ elapsed' = goal
        BY <2>4, <3>2 DEF AdvanceTo
      <4> QED BY <1>1, <2>2, <4>1, PileKept
    <3> QED BY <3>1, <3>2
  <2> QED BY <1>2, <2>3, <2>4 DEF AdvanceInterval, goal
<1>3. CASE CompleteScan
  <2>1. UNCHANGED scenario
    BY <1>3 DEF CompleteScan, Fail
  <2> QED BY <1>1, <2>1, PileKept DEF scenario
<1>4. CASE UNCHANGED vars
  BY <1>1, <1>4, PileKept DEF vars, scenario
<1> QED BY <1>2, <1>3, <1>4 DEF Next, Stopped

LEMMA PileInit == Init => PileInv
<1> SUFFICES ASSUME Init PROVE PileInv
  OBVIOUS
<1>1. Flat \in Surfaces /\ \A c \in Columns : Flat[c] = 0
  BY HeightFieldAssumption DEF Flat, Surfaces
<1>2. /\ plan \in Plans(0, FillDurations, Targets) /\ surface = Flat
      /\ phase = "filling" /\ elapsed = 0 /\ updated = 0
  BY DEF Init, ScenarioStart
<1>3. /\ plan.started = 0 /\ plan.total \in Targets
      /\ plan.profile \in [0..plan.duration -> 0..plan.total]
      /\ Balanced(plan.profile, plan.duration, plan.total)
  BY <1>2, PlanContents
<1>4. plan.total \in Nat /\ plan.total <= Capacity
  <2>1. Capacity \in Nat /\ \A v \in Targets : v \in 1..Capacity
    BY <1>1, CapacityLeft, ScenarioAssumption DEF PossiblePlans
  <2> QED BY <1>3, <2>1
<1>5. PlanInv
  BY <1>2, <1>3, <1>4 DEF PlanInv
<1>6. VolumeOf(Flat) = 0
  <2>1. \A c \in Columns : Flat[c] = Flat[c] + Flat[c]
    BY <1>1
  <2>2. SumOf(Flat, Columns) = SumOf(Flat, Columns) + SumOf(Flat, Columns)
    BY <1>1, <2>1, VolumeType, SumSplits, HeightFieldAssumption
  <2>3. VolumeOf(Flat) = SumOf(Flat, Columns) /\ VolumeOf(Flat) \in Nat
    BY <1>1, VolumeType
  <2>4. \A v \in Nat : v = v + v => v = 0
    OBVIOUS
  <2> QED BY ONLY <2>2, <2>3, <2>4
<1>7. PileFollowsPlan
  BY <1>2, <1>3, <1>6 DEF PileFollowsPlan, Balanced
<1> QED BY <1>5, <1>7 DEF PileInv

LEMMA ScenarioInvariant == Spec => [](ScheduleInv /\ PileInv)
<1>1. ScheduleInv /\ PileInv /\ [Next]_vars => (ScheduleInv /\ PileInv)'
  BY ScheduleStep, PileStep
<1> QED BY <1>1, ScheduleInit, PileInit, PTL DEF Spec

(* The volume of the heap is what the plan of the phase has for the last   *)
(* event, for any grid, any draws and any rates: no request is cut short   *)
(* by what there is room for, and none is applied twice or lost where the  *)
(* completions of scans cut the time (apply_phase_change).                 *)
THEOREM PileKeepsToThePlan == Spec => []PileFollowsPlan
<1>1. PileInv => PileFollowsPlan
  BY DEF PileInv
<1> QED BY <1>1, ScenarioInvariant, PTL

(* Whatever surface the end of a phase leads to, the phase has reached its *)
(* volume, so that the simulator never gives up a transition               *)
(* (transition_phase).                                                     *)
PhasesEndAsPlanned == \A h \in ChangedSurfaces(PhaseEnd) : PhaseReached(h)

THEOREM NoTransitionIsRefused == Spec => []PhasesEndAsPlanned
<1>1. ScheduleInv /\ PileInv => PhasesEndAsPlanned
  <2> SUFFICES ASSUME ScheduleInv, PileInv, NEW h \in ChangedSurfaces(PhaseEnd)
               PROVE  PhaseReached(h)
    BY DEF PhasesEndAsPlanned
  <2>1. PhaseEnd \in Nat /\ elapsed < PhaseEnd /\ PhaseEnd <= PhaseEnd /\ ClockInv
    BY DEF ScheduleInv, ClockInv, PhaseEnd
  <2> QED BY <2>1, UpdateFollowsPlan
<1> QED BY <1>1, ScenarioInvariant, PTL

-----------------------------------------------------------------------------
(* The dropouts of the sensor.  They are drawn scan by scan, recursively; the *)
(* scheduler stands before the next dropout or in one that goes on.        *)

(* Where a dropout that begins at s may end: at the end drawn already, if the *)
(* scheduler stands in it.                                                 *)
OutageEnds(s) == IF s = dropout.start /\ dropout.end # None
                 THEN {dropout.end} ELSE {s + d : d \in DropoutDurations}

(* What a scheduler that stands before s draws, given what f has drawn for *)
(* every later time.                                                       *)
OutagesFrom(f, s, through) ==
    IF s > through THEN {[new |-> {}, start |-> s, end |-> None]}
    ELSE UNION {IF e > through
                THEN {[new |-> {[from |-> s, to |-> e]}, start |-> s, end |-> e]}
                ELSE {[r EXCEPT !.new = @ \union {[from |-> s, to |-> e]}] :
                        r \in UNION {f[e + g] : g \in DropoutGaps}} :
                  e \in OutageEnds(s)}

(* What the recursion of Outages asks of its function.                     *)
Draws(f, through) == f = [s \in Nat |-> OutagesFrom(f, s, through)]

LEMMA OutagesAreDrawn ==
  ASSUME NEW through
  PROVE  Outages(through) = (CHOOSE f : Draws(f, through))[dropout.start]
BY DEF Outages, OutagesFrom, OutageEnds, Draws

(* The scheduler stands before a dropout whose end is not drawn yet, or in *)
(* one that ends later than it began.                                      *)
SchedulerInv ==
    /\ dropout.start \in Nat /\ dropout.end \in Int /\ dropout.last \in Int
    /\ dropout.end # None => dropout.start < dropout.end

(* Every draw goes forward in time.                                        *)
LEMMA EndsAreLater ==
  ASSUME SchedulerInv, NEW s \in Nat, NEW e \in OutageEnds(s), NEW g \in DropoutGaps
  PROVE  e \in Nat /\ e > s /\ e + g \in Nat /\ e + g > e
<1>1. g \in Nat \ {0} /\ DropoutDurations \subseteq Nat \ {0}
  BY DistortionsAssumption
<1>2. e \in Nat /\ e > s
  <2>1. CASE s = dropout.start /\ dropout.end # None
    BY <2>1 DEF OutageEnds, SchedulerInv
  <2>2. CASE ~ (s = dropout.start /\ dropout.end # None)
    BY <1>1, <2>2 DEF OutageEnds
  <2> QED BY <2>1, <2>2
<1> QED BY <1>1, <1>2

(* What is drawn from s on depends on what is drawn from later times on only. *)
LEMMA LaterDrawsDecide ==
  ASSUME SchedulerInv, NEW s \in Nat, NEW through, NEW f, NEW h,
         \A u \in Nat : u > s => f[u] = h[u]
  PROVE  OutagesFrom(f, s, through) = OutagesFrom(h, s, through)
<1>1. ASSUME NEW e \in OutageEnds(s)
      PROVE  UNION {f[e + g] : g \in DropoutGaps} = UNION {h[e + g] : g \in DropoutGaps}
  <2>1. \A g \in DropoutGaps : f[e + g] = h[e + g]
    <3> SUFFICES ASSUME NEW g \in DropoutGaps PROVE f[e + g] = h[e + g]
      OBVIOUS
    <3>1. e \in Nat /\ e > s /\ e + g \in Nat /\ e + g > e
      BY EndsAreLater
    <3> QED BY <3>1
  <2> QED BY <2>1
<1>2. \A e \in OutageEnds(s) :
        UNION {f[e + g] : g \in DropoutGaps} = UNION {h[e + g] : g \in DropoutGaps}
  BY <1>1
<1> DEFINE R(q, e) == UNION {q[e + g] : g \in DropoutGaps}
<1> DEFINE X(q, e) == {[r EXCEPT !.new = @ \union {[from |-> s, to |-> e]}] : r \in R(q, e)}
<1>3. \A e \in OutageEnds(s) : X(f, e) = X(h, e)
  BY <1>2
<1> DEFINE Y(q, e) == IF e > through
                      THEN {[new |-> {[from |-> s, to |-> e]}, start |-> s, end |-> e]}
                      ELSE X(q, e)
<1>4. \A e \in OutageEnds(s) : Y(f, e) = Y(h, e)
  BY <1>3
<1> HIDE DEF Y
<1>5. {Y(f, e) : e \in OutageEnds(s)} = {Y(h, e) : e \in OutageEnds(s)}
  BY <1>4
<1> USE DEF Y
<1> QED BY <1>5 DEF OutagesFrom

(* All dropouts from some time on are drawn, from ever earlier times.      *)
DrawsAfter(f, through, k) ==
    /\ f = [s \in Nat |-> f[s]]
    /\ \A s \in Nat : s > through - k => f[s] = OutagesFrom(f, s, through)

(* The recursion has a solution as far back as one likes,                  *)
LEMMA DrawsReachBack ==
  ASSUME SchedulerInv, NEW through \in Nat, NEW k \in Nat
  PROVE  \E f : DrawsAfter(f, through, k)
<1> DEFINE T == {j \in Nat : ~ \E f : DrawsAfter(f, through, j)}
<1> SUFFICES ASSUME T # {} PROVE FALSE
  OBVIOUS
<1>1. PICK m \in T : \A j \in T : m <= j
  <2>1. T \subseteq Nat
    OBVIOUS
  <2> HIDE DEF T
  <2> QED BY <2>1, LeastNumber
<1>2. m \in Nat /\ ~ \E f : DrawsAfter(f, through, m)
  BY <1>1
<1>3. m # 0
  <2> SUFFICES ASSUME m = 0 PROVE FALSE
    OBVIOUS
  <2> DEFINE f == [s \in Nat |-> {[new |-> {}, start |-> s, end |-> None]}]
  <2>1. \A s \in Nat : s > through - 0 => f[s] = OutagesFrom(f, s, through)
    <3> SUFFICES ASSUME NEW s \in Nat, s > through - 0
                 PROVE  f[s] = OutagesFrom(f, s, through)
      OBVIOUS
    <3>1. s > through
      OBVIOUS
    <3> QED BY <3>1 DEF OutagesFrom
  <2>2. f = [s \in Nat |-> f[s]]
    OBVIOUS
  <2> HIDE DEF f
  <2>3. DrawsAfter(f, through, 0)
    BY <2>1, <2>2 DEF DrawsAfter
  <2> QED BY <1>2, <2>3
<1>4. m - 1 \in Nat /\ m - 1 \notin T
  BY <1>1, <1>2, <1>3
<1>5. PICK f : DrawsAfter(f, through, m - 1)
  BY <1>4
<1> DEFINE u == through - (m - 1)
<1> DEFINE h == [s \in Nat |-> IF s = u THEN OutagesFrom(f, s, through) ELSE f[s]]
<1>6. u \in Int
  BY <1>2
<1>7. \A s \in Nat : s > u => h[s] = f[s]
  OBVIOUS
<1>8. ASSUME NEW s \in Nat, s > through - m
      PROVE  h[s] = OutagesFrom(h, s, through)
  <2>1. s >= u
    BY <1>2, <1>8
  <2>2. \A v \in Nat : v > s => f[v] = h[v]
    BY <1>6, <1>7, <2>1
  <2>3. OutagesFrom(f, s, through) = OutagesFrom(h, s, through)
    <3> HIDE DEF h
    <3> QED BY <2>2, LaterDrawsDecide
  <2>4. CASE s = u
    BY <2>3, <2>4
  <2>5. CASE s # u
    <3>1. s > u
      BY <1>6, <2>1, <2>5
    <3>2. f[s] = OutagesFrom(f, s, through)
      BY <1>5, <3>1 DEF DrawsAfter
    <3> QED BY <1>7, <2>3, <3>1, <3>2
  <2> QED BY <2>4, <2>5
<1>9. h = [s \in Nat |-> h[s]]
  OBVIOUS
<1> HIDE DEF h
<1>10. DrawsAfter(h, through, m)
  BY <1>8, <1>9 DEF DrawsAfter
<1> QED BY <1>2, <1>10

(* and so from the first instant on.                                       *)
LEMMA DrawsExist ==
  ASSUME SchedulerInv, NEW through \in Nat
  PROVE  \E f : Draws(f, through)
<1>1. PICK f : DrawsAfter(f, through, through + 1)
  BY DrawsReachBack
<1>2. \A s \in Nat : f[s] = OutagesFrom(f, s, through)
  BY <1>1 DEF DrawsAfter
<1>3. f = [s \in Nat |-> f[s]]
  BY <1>1 DEF DrawsAfter
<1>4. f = [s \in Nat |-> OutagesFrom(f, s, through)]
  <2> DEFINE h == [s \in Nat |-> OutagesFrom(f, s, through)]
  <2>1. \A s \in Nat : h[s] = f[s]
    BY <1>2
  <2> QED BY <1>3, <2>1
<1> QED BY <1>4 DEF Draws

(* The dropouts there are, and what the scheduler draws for a scan.        *)
Outage == [from : Nat, to : Nat]
Dropout(s, e) == [from |-> s, to |-> e]
DrawnRecord == [new : SUBSET Outage, start : Nat, end : Int]

(* What the scheduler is left with: the dropouts it drew are over, but for *)
(* the one it stands in, and it stands past the time it was asked for.     *)
StandsPast(r, through) ==
    /\ r.end = None => through < r.start /\ \A o \in r.new : o.to <= through
    /\ r.end # None =>
         /\ r.start <= through /\ through < r.end
         /\ Dropout(r.start, r.end) \in r.new
         /\ \A o \in r.new : o = Dropout(r.start, r.end) \/ o.to <= through

(* What it drew begins at s, and the rest comes after that dropout.        *)
BeginsAt(r, s, through) ==
    IF s > through THEN r.new = {}
    ELSE \E e \in OutageEnds(s) :
           /\ Dropout(s, e) \in r.new
           /\ \A o \in r.new : o = Dropout(s, e) \/ o.from > e

(* All that is asked of a draw from s on for the points up to through.     *)
DrawnWell(r, s, through) ==
    /\ r \in DrawnRecord
    /\ StandsPast(r, through)
    /\ BeginsAt(r, s, through)
    /\ \A o \in r.new : o.from >= s

(* It holds where nothing is to be drawn, where one dropout reaches past the *)
(* points, and where one more dropout comes before a good draw:            *)
LEMMA PastTheEnd ==
  ASSUME NEW through \in Nat, NEW s \in Nat, s > through
  PROVE  DrawnWell([new |-> {}, start |-> s, end |-> None], s, through)
BY DEF DrawnWell, DrawnRecord, StandsPast, BeginsAt, None

LEMMA LastDrawn ==
  ASSUME SchedulerInv, NEW through \in Nat, NEW s \in Nat, s <= through,
         NEW e \in OutageEnds(s), e \in Nat, e > through
  PROVE  DrawnWell([new |-> {Dropout(s, e)}, start |-> s, end |-> e], s, through)
<1> DEFINE r == [new |-> {Dropout(s, e)}, start |-> s, end |-> e]
<1>1. Dropout(s, e) \in Outage
  BY DEF Dropout, Outage
<1>2. r \in DrawnRecord
  BY <1>1 DEF DrawnRecord
<1>3. StandsPast(r, through)
  BY DEF StandsPast, None
<1>4. BeginsAt(r, s, through)
  BY DEF BeginsAt
<1>5. \A o \in r.new : o.from >= s
  BY DEF Dropout
<1> QED BY <1>2, <1>3, <1>4, <1>5 DEF DrawnWell

LEMMA OneMoreDrawn ==
  ASSUME SchedulerInv, NEW through \in Nat, NEW s \in Nat, s <= through,
         NEW e \in OutageEnds(s), e \in Nat, s < e, e <= through,
         NEW u \in Nat, e < u, NEW r, DrawnWell(r, u, through)
  PROVE  DrawnWell([r EXCEPT !.new = @ \union {Dropout(s, e)}], s, through)
<1> DEFINE q == [r EXCEPT !.new = @ \union {Dropout(s, e)}]
<1>1. Dropout(s, e) \in Outage
  BY DEF Dropout, Outage
<1>2. r \in DrawnRecord
  BY DEF DrawnWell
<1>3. /\ q.new = r.new \union {Dropout(s, e)}
      /\ q.start = r.start /\ q.end = r.end
      /\ q \in DrawnRecord
  BY <1>1, <1>2 DEF DrawnRecord
<1> HIDE DEF q
<1>4. Dropout(s, e).from = s /\ Dropout(s, e).to = e
  BY DEF Dropout
<1>5. StandsPast(r, through) /\ r.start \in Nat /\ r.end \in Int
  BY <1>2 DEF DrawnWell, DrawnRecord
<1>6. StandsPast(q, through)
  BY <1>3, <1>4, <1>5 DEF StandsPast
<1>7. \A o \in r.new : o.from \in Nat /\ o.from >= u
  BY <1>2 DEF DrawnWell, DrawnRecord, Outage
<1>8. BeginsAt(q, s, through)
  BY <1>3, <1>7 DEF BeginsAt
<1>9. \A o \in q.new : o.from >= s
  BY <1>3, <1>4, <1>7
<1>10. DrawnWell(q, s, through)
  BY <1>3, <1>6, <1>8, <1>9 DEF DrawnWell
<1> QED BY <1>10 DEF q

(* and so from every time on, by the latest time where it would fail.      *)
LEMMA AllDrawnWell ==
  ASSUME SchedulerInv, NEW through \in Nat, NEW f, Draws(f, through)
  PROVE  \A s \in Nat : \A r \in f[s] : DrawnWell(r, s, through)
<1> DEFINE Bad(s) == \E r \in f[s] : ~ DrawnWell(r, s, through)
<1> DEFINE T == {through - s : s \in {v \in Nat : Bad(v)}}
<1>1. \A s \in Nat : f[s] = OutagesFrom(f, s, through)
  BY DEF Draws
<1>2. ASSUME NEW s \in Nat, Bad(s) PROVE s <= through
  <2> SUFFICES ASSUME s > through PROVE FALSE
    OBVIOUS
  <2>1. f[s] = {[new |-> {}, start |-> s, end |-> None]}
    BY <1>1 DEF OutagesFrom
  <2> QED BY <1>2, <2>1, PastTheEnd
<1> HIDE DEF Bad
<1>3. T \subseteq Nat
  BY <1>2
<1>4. ASSUME NEW s \in Nat, Bad(s), \A v \in Nat : Bad(v) => v <= s
      PROVE  FALSE
  <2>1. s <= through
    BY <1>2, <1>4
  <2>2. PICK r \in f[s] : ~ DrawnWell(r, s, through)
    BY <1>4 DEF Bad
  <2>3. r \in OutagesFrom(f, s, through)
    BY <1>1, <2>2
  <2>4. PICK e \in OutageEnds(s) :
          IF e > through
          THEN r = [new |-> {Dropout(s, e)}, start |-> s, end |-> e]
          ELSE \E g \in DropoutGaps : \E p \in f[e + g] :
                 r = [p EXCEPT !.new = @ \union {Dropout(s, e)}]
    BY <2>1, <2>3 DEF OutagesFrom, Dropout
  <2>5. e \in Nat /\ e > s
    <3>1. CASE DropoutGaps = {}
      BY DistortionsAssumption DEF OutageEnds, SchedulerInv
    <3>2. CASE DropoutGaps # {}
      BY <3>2, EndsAreLater
    <3> QED BY <3>1, <3>2
  <2>6. CASE e > through
    BY <2>1, <2>2, <2>4, <2>5, <2>6, LastDrawn
  <2>7. CASE ~ (e > through)
    <3>0. PICK g \in DropoutGaps : \E p \in f[e + g] :
            r = [p EXCEPT !.new = @ \union {Dropout(s, e)}]
      BY <2>4, <2>7
    <3>1. PICK p \in f[e + g] : r = [p EXCEPT !.new = @ \union {Dropout(s, e)}]
      BY <3>0
    <3>2. e + g \in Nat /\ e + g > e
      BY EndsAreLater
    <3>3. ~ Bad(e + g)
      BY <1>4, <2>5, <3>2
    <3>4. DrawnWell(p, e + g, through)
      BY <3>3 DEF Bad
    <3>5. e <= through /\ s < e /\ e < e + g
      BY <2>5, <2>7, <3>2
    <3>6. DrawnWell(r, s, through)
      BY <2>1, <2>5, <3>1, <3>2, <3>4, <3>5, OneMoreDrawn
    <3> QED BY <2>2, <3>6
  <2> QED BY <2>6, <2>7
<1>5. T = {}
  <2> SUFFICES ASSUME T # {} PROVE FALSE
    OBVIOUS
  <2>1. PICK m \in T : \A k \in T : m <= k
    <3> HIDE DEF T
    <3> QED BY <1>3, LeastNumber
  <2>2. PICK s \in Nat : Bad(s) /\ m = through - s
    BY <2>1
  <2>3. \A v \in Nat : Bad(v) => v <= s
    <3> SUFFICES ASSUME NEW v \in Nat, Bad(v) PROVE v <= s
      OBVIOUS
    <3>1. through - v \in T
      OBVIOUS
    <3>2. m <= through - v
      BY <2>1, <3>1
    <3> QED BY <2>2, <3>2
  <2> QED BY <1>4, <2>2, <2>3
<1>6. \A s \in Nat : ~ Bad(s)
  BY <1>5
<1> QED BY <1>6 DEF Bad

(* What take_dropouts draws for a scan, wherever its scheduler stands.     *)
LEMMA OutagesDrawnWell ==
  ASSUME SchedulerInv, NEW through \in Nat, NEW r \in Outages(through)
  PROVE  DrawnWell(r, dropout.start, through)
<1> DEFINE f == CHOOSE g : Draws(g, through)
<1>1. Draws(f, through)
  BY DrawsExist
<1>2. r \in f[dropout.start]
  BY OutagesAreDrawn
<1>3. dropout.start \in Nat
  BY DEF SchedulerInv
<1> HIDE DEF f
<1> QED BY <1>1, <1>2, <1>3, AllDrawnWell

(* The dropouts drawn so far are over, but for the one the scheduler stands *)
(* in; it stands past the last point measured.                             *)
OutagesInv ==
    /\ SchedulerInv
    /\ outages \subseteq Outage
    /\ dropout.end = None =>
         dropout.last < dropout.start /\ \A o \in outages : o.to <= dropout.last
    /\ dropout.end # None =>
         /\ dropout.start <= dropout.last /\ dropout.last < dropout.end
         /\ Dropout(dropout.start, dropout.end) \in outages
         /\ \A o \in outages :
              o = Dropout(dropout.start, dropout.end) \/ o.to <= dropout.last

(* A scan draws no dropout that reaches back to the points before it, and  *)
(* leaves out none of the old that reaches into its own points.            *)
LEMMA OutagesAdvance ==
  ASSUME OutagesInv, NEW through \in Nat, dropout.last < through,
         NEW r \in Outages(through),
         dropout' = [start |-> r.start, end |-> r.end, last |-> through],
         outages' = outages \union r.new
  PROVE  /\ OutagesInv'
         /\ \A o \in r.new : o \in outages \/ o.from > dropout.last
         /\ \A o \in outages : o \in r.new \/ o.to <= dropout.last
<1>1. /\ dropout.start \in Nat /\ dropout.end \in Int /\ dropout.last \in Int
      /\ outages \subseteq Outage
  BY DEF OutagesInv, SchedulerInv
<1>2. /\ r \in DrawnRecord
      /\ StandsPast(r, through)
      /\ BeginsAt(r, dropout.start, through)
      /\ \A o \in r.new : o.from >= dropout.start
  BY OutagesDrawnWell DEF OutagesInv, DrawnWell
<1>3. r.new \subseteq Outage /\ r.start \in Nat /\ r.end \in Int
  BY <1>2 DEF DrawnRecord
<1>4. \A o \in Outage : o.from \in Nat /\ o.to \in Nat
  BY DEF Outage
<1>5. ASSUME dropout.end = None
      PROVE  /\ \A o \in r.new : o \in outages \/ o.from > dropout.last
             /\ \A o \in outages : o \in r.new \/ o.to <= dropout.last
  <2>1. \A o \in r.new : o.from > dropout.last
    BY <1>1, <1>2, <1>3, <1>4, <1>5 DEF OutagesInv
  <2>2. \A o \in outages : o.to <= dropout.last
    BY <1>5 DEF OutagesInv
  <2> QED BY <2>1, <2>2
<1>6. ASSUME dropout.end # None
      PROVE  /\ \A o \in r.new : o \in outages \/ o.from > dropout.last
             /\ \A o \in outages : o \in r.new \/ o.to <= dropout.last
  <2> DEFINE open == Dropout(dropout.start, dropout.end)
  <2>1. /\ dropout.start <= dropout.last /\ dropout.last < dropout.end
        /\ open \in outages
        /\ \A o \in outages : o = open \/ o.to <= dropout.last
    BY <1>6 DEF OutagesInv
  <2>2. OutageEnds(dropout.start) = {dropout.end}
    BY <1>6 DEF OutageEnds
  <2>3. open \in r.new /\ \A o \in r.new : o = open \/ o.from > dropout.end
    BY <1>1, <1>2, <2>1, <2>2 DEF BeginsAt
  <2> HIDE DEF open
  <2>4. \A o \in r.new : o = open \/ o.from > dropout.last
    BY <1>1, <1>3, <1>4, <2>1, <2>3
  <2> QED BY <2>1, <2>3, <2>4
<1>7. \A o \in outages : o \in r.new \/ o.to <= dropout.last
  BY <1>5, <1>6
<1>8. \A o \in outages' : o \in r.new \/ o.to <= through
  BY <1>1, <1>4, <1>7
<1>9. /\ dropout'.start = r.start /\ dropout'.end = r.end /\ dropout'.last = through
      /\ r.new \subseteq outages' /\ outages' \subseteq Outage
  BY <1>1, <1>3
<1>10. SchedulerInv'
  BY <1>2, <1>3, <1>9 DEF SchedulerInv, StandsPast
<1>11. OutagesInv'
  BY <1>2, <1>8, <1>9, <1>10 DEF OutagesInv, StandsPast
<1> QED BY <1>5, <1>6, <1>11

-----------------------------------------------------------------------------
(* The surface and the phase are those of the last event.                  *)
LastOfLog ==
    IF log = << >> THEN surface = Flat /\ phase = "filling"
    ELSE surface = log[Len(log)].surface /\ phase = log[Len(log)].phase

(* The phase was filling at t: the last event by then left it so.          *)
FillingAt(t) ==
    \E i \in 0..Len(log) :
       /\ i = 0 \/ (log[i].at <= t /\ log[i].phase = "filling")
       /\ \A j \in (i + 1)..Len(log) : log[j].at > t

(* A step of the scenario logs one event at an instant, or none.           *)
LogGrows(at) ==
    \E e \in Occurrence : /\ log' = Append(log, e)
                          /\ e.at = at /\ e.surface = surface' /\ e.phase = phase'

LogStays == log' = log /\ surface' = surface /\ phase' = phase

LEMMA LogAdvances ==
  ASSUME ClockInv, ClockInv', NEW goal \in Nat, AdvanceTo(goal), elapsed < goal
  PROVE  LogStays \/ LogGrows(goal)
<1>1. CASE goal = NextEvent
  <2> DEFINE e == [at |-> goal, update |-> goal = NextUpdate,
                 transition |-> goal = PhaseEnd, phase |-> phase', surface |-> surface']
  <2>1. log' = Append(log, e)
    BY <1>1 DEF AdvanceTo, Event, Logged
  <2>2. e \in Occurrence
    BY DEF Occurrence, ClockInv
  <2>3. e.at = goal /\ e.surface = surface' /\ e.phase = phase'
    OBVIOUS
  <2> HIDE DEF e
  <2> QED BY <2>1, <2>2, <2>3 DEF LogGrows
<1>2. CASE goal # NextEvent
  BY <1>2 DEF AdvanceTo, LogStays
<1> QED BY <1>1, <1>2

LEMMA GrownLog ==
  ASSUME CalendarInv, NEW at, LogGrows(at)
  PROVE  /\ log \in Seq(Occurrence) /\ Len(log) \in Nat
         /\ log' \in Seq(Occurrence) /\ Len(log') = Len(log) + 1
         /\ \A i \in 1..Len(log) : log'[i] = log[i]
         /\ log'[Len(log) + 1].at = at
         /\ log'[Len(log) + 1].surface = surface'
         /\ log'[Len(log) + 1].phase = phase'
<1>1. log \in Seq(Occurrence)
  BY DEF CalendarInv
<1>2. PICK e \in Occurrence : /\ log' = Append(log, e)
                              /\ e.at = at /\ e.surface = surface' /\ e.phase = phase'
  BY DEF LogGrows
<1>3. /\ log' \in Seq(Occurrence) /\ Len(log') = Len(log) + 1
      /\ log'[Len(log) + 1] = e
      /\ \A i \in 1..Len(log) : log'[i] = log[i]
  BY <1>1, <1>2, AppendProperties
<1> QED BY <1>1, <1>2, <1>3

(* An event changes nothing before its instant. *)
LEMMA PastIsKept ==
  ASSUME CalendarInv, NEW at \in Nat, LogStays \/ LogGrows(at),
         NEW t \in Nat, t < at
  PROVE  SurfaceAt(t)' = SurfaceAt(t) /\ (FillingAt(t)' <=> FillingAt(t))
<1>1. CASE LogStays
  BY <1>1 DEF LogStays, SurfaceAt, FillingAt
<1>2. CASE LogGrows(at)
  <2> DEFINE n == Len(log)
  <2>1. /\ n \in Nat /\ Len(log') = n + 1
        /\ \A i \in 1..n : log'[i] = log[i]
        /\ log'[n + 1].at = at
    BY <1>2, GrownLog
  <2>2. log'[n + 1].at > t /\ ~ (log'[n + 1].at <= t)
    BY <2>1
  <2> HIDE DEF n
  <2>3. 1..Len(log') = 1..n \union {n + 1}
    BY <2>1
  <2> DEFINE B == {i \in 1..n : log[i].at <= t}
  <2>4. {i \in 1..Len(log') : log'[i].at <= t} = B
    BY <2>1, <2>2, <2>3
  <2>5. SurfaceAt(t) = IF B = {} THEN Flat ELSE log[Max(B)].surface
    BY DEF SurfaceAt, n
  <2>6. SurfaceAt(t)' = IF B = {} THEN Flat ELSE log'[Max(B)].surface
    BY <2>4 DEF SurfaceAt
  <2>7. B # {} => Max(B) \in 1..n
    <3>1. B \subseteq 1..n
      OBVIOUS
    <3> HIDE DEF B
    <3> QED BY <2>1, <3>1, MaxOfPlaces
  <2>8. SurfaceAt(t)' = SurfaceAt(t)
    BY <2>1, <2>5, <2>6, <2>7
  <2>9. FillingAt(t) => FillingAt(t)'
    <3> SUFFICES ASSUME FillingAt(t) PROVE FillingAt(t)'
      OBVIOUS
    <3>1. PICK i \in 0..n :
            /\ i = 0 \/ (log[i].at <= t /\ log[i].phase = "filling")
            /\ \A j \in (i + 1)..n : log[j].at > t
      BY DEF FillingAt, n
    <3>2. i \in 0..Len(log') /\ (i = 0 \/ (log'[i].at <= t /\ log'[i].phase = "filling"))
      BY <2>1, <3>1
    <3>3. \A j \in (i + 1)..Len(log') : log'[j].at > t
      <4> SUFFICES ASSUME NEW j \in (i + 1)..Len(log') PROVE log'[j].at > t
        OBVIOUS
      <4>1. j \in (i + 1)..n \/ j = n + 1
        BY <2>1
      <4>2. CASE j \in (i + 1)..n
        <5>1. j \in 1..n /\ log[j].at > t
          BY <3>1, <4>2, <2>1
        <5> QED BY <2>1, <5>1
      <4>3. CASE j = n + 1
        BY <2>2, <4>3
      <4> QED BY <4>1, <4>2, <4>3
    <3> QED BY <3>2, <3>3 DEF FillingAt
  <2>10. FillingAt(t)' => FillingAt(t)
    <3> SUFFICES ASSUME FillingAt(t)' PROVE FillingAt(t)
      OBVIOUS
    <3>1. PICK i \in 0..Len(log') :
            /\ i = 0 \/ (log'[i].at <= t /\ log'[i].phase = "filling")
            /\ \A j \in (i + 1)..Len(log') : log'[j].at > t
      BY DEF FillingAt
    <3>2. i # n + 1
      BY <2>1, <2>2, <3>1
    <3>3. i \in 0..n /\ (i = 0 \/ (log[i].at <= t /\ log[i].phase = "filling"))
      BY <2>1, <3>1, <3>2
    <3>4. \A j \in (i + 1)..n : log[j].at > t
      <4> SUFFICES ASSUME NEW j \in (i + 1)..n PROVE log[j].at > t
        OBVIOUS
      <4>1. j \in (i + 1)..Len(log') /\ j \in 1..n
        BY <2>1, <3>3
      <4> QED BY <2>1, <3>1, <4>1
    <3> QED BY <3>3, <3>4 DEF FillingAt, n
  <2> QED BY <2>8, <2>9, <2>10 DEF FillingAt
<1> QED BY <1>1, <1>2

LEMMA MaxIs ==
  ASSUME NEW S, S \subseteq Int, NEW m \in S, \A i \in S : i <= m
  PROVE  Max(S) = m
<1>1. \E x \in S : \A y \in S : x >= y
  OBVIOUS
<1>2. Max(S) \in S /\ \A y \in S : Max(S) >= y
  BY <1>1 DEF Max
<1> DEFINE x == Max(S)
<1>3. x \in Int /\ m \in Int /\ x >= m /\ x <= m
  BY <1>2
<1> HIDE DEF x
<1>4. x = m
  BY <1>3
<1> QED BY <1>4 DEF x

(* The surface and the phase of now are those from the last event on. *)
LEMMA NowIsLast ==
  ASSUME ClockInv, CalendarInv, LastOfLog, NEW t \in Nat, elapsed <= t
  PROVE  SurfaceAt(t) = surface /\ (phase = "filling" => FillingAt(t))
<1> DEFINE n == Len(log)
<1>1. log \in Seq(Occurrence) /\ n \in Nat /\ elapsed \in Nat
  BY DEF CalendarInv, ClockInv
<1>2. \A i \in 1..n : log[i].at <= t
  <2> SUFFICES ASSUME NEW i \in 1..n PROVE log[i].at <= t
    OBVIOUS
  <2>1. log[i].at \in Nat /\ log[i].at <= elapsed
    BY OccurrenceTimes
  <2> QED BY <1>1, <2>1
<1> DEFINE B == {i \in 1..n : log[i].at <= t}
<1>3. B = 1..n
  BY <1>2
<1>4. SurfaceAt(t) = IF B = {} THEN Flat ELSE log[Max(B)].surface
  BY DEF SurfaceAt
<1> HIDE DEF B
<1>5. CASE log = << >>
  <2>1. n = 0
    BY <1>5
  <2>2. B = {}
    BY <1>3, <2>1
  <2>3. FillingAt(t)
    BY <2>1 DEF FillingAt
  <2> QED BY <1>4, <1>5, <2>2, <2>3 DEF LastOfLog
<1>6. CASE log # << >>
  <2>1. n >= 1
    BY <1>1, <1>6
  <2>2. n \in B /\ B \subseteq Int /\ \A i \in B : i <= n
    BY <1>1, <1>3, <2>1
  <2>3. Max(B) = n
    BY <2>2, MaxIs
  <2>4. SurfaceAt(t) = log[n].surface
    BY <1>4, <2>2, <2>3
  <2>5. phase = "filling" => FillingAt(t)
    <3> SUFFICES ASSUME phase = "filling" PROVE FillingAt(t)
      OBVIOUS
    <3>1. log[n].phase = "filling" /\ log[n].at <= t
      BY <1>2, <1>6, <2>1, <1>1 DEF LastOfLog
    <3>2. \A j \in (n + 1)..n : log[j].at > t
      BY <1>1
    <3>3. n \in 0..n
      BY <1>1
    <3> QED BY <3>1, <3>2, <3>3 DEF FillingAt
  <2> QED BY <1>6, <2>4, <2>5 DEF LastOfLog
<1> QED BY <1>5, <1>6

LEMMA LastOfLogKept ==
  ASSUME CalendarInv, LastOfLog, NEW at, LogStays \/ LogGrows(at)
  PROVE  LastOfLog'
<1>1. CASE LogStays
  BY <1>1 DEF LogStays, LastOfLog
<1>2. CASE LogGrows(at)
  <2>1. /\ Len(log) \in Nat /\ log' \in Seq(Occurrence) /\ Len(log') = Len(log) + 1
        /\ log'[Len(log')].surface = surface' /\ log'[Len(log')].phase = phase'
    BY <1>2, GrownLog
  <2>2. log' # << >>
    BY <2>1
  <2> QED BY <2>1, <2>2 DEF LastOfLog
<1> QED BY <1>1, <1>2

(* The snapshots kept answer for every time they cover, past or to come, as *)
(* the log of events does.                                                 *)
EntriesInv ==
    /\ entries \in Seq(Entry)
    /\ \A t \in Nat : Covering(t) # {} => SnapshotAt(t) = SurfaceAt(t)

LEMMA MaxIsUpper ==
  ASSUME NEW n \in Nat, NEW S, S \subseteq 1..n, S # {}
  PROVE  Max(S) \in S /\ \A i \in S : i <= Max(S)
<1>1. Max(S) \in S
  BY MaxOfPlaces
<1> DEFINE T == {n - i : i \in S}
<1>2. T \subseteq Nat /\ T # {}
  <2>1. \A i \in S : i \in 1..n
    OBVIOUS
  <2>2. \A i \in S : n - i \in Nat
    BY <2>1
  <2> QED BY <2>2
<1>3. PICK t \in T : \A y \in T : t <= y
  <2> HIDE DEF T
  <2> QED BY <1>2, LeastNumber
<1>4. PICK m \in S : t = n - m
  BY <1>3
<1>5. \A i \in S : i <= m
  <2> SUFFICES ASSUME NEW i \in S PROVE i <= m
    OBVIOUS
  <2>1. n - m <= n - i
    BY <1>3, <1>4
  <2>2. i \in Int /\ m \in Int
    OBVIOUS
  <2> QED BY <2>1, <2>2
<1>6. S \subseteq Int
  OBVIOUS
<1>7. Max(S) = m
  BY <1>5, <1>6, MaxIs
<1> QED BY <1>1, <1>5, <1>7

LEMMA LastOccurrence ==
  ASSUME NEW l, Len(l) \in Nat, Len(l) >= 1, NEW t,
         \A i \in 1..Len(l) : l[i].at <= t
  PROVE  (LET before == {i \in 1..Len(l) : l[i].at <= t} IN
          IF before = {} THEN Flat ELSE l[Max(before)].surface) = l[Len(l)].surface
<1> DEFINE B == {i \in 1..Len(l) : l[i].at <= t}
<1>1. B = 1..Len(l)
  OBVIOUS
<1>2. B \subseteq Int /\ Len(l) \in B /\ \A i \in B : i <= Len(l)
  BY <1>1
<1> HIDE DEF B
<1>3. Max(B) = Len(l)
  BY <1>2, MaxIs
<1> QED BY <1>2, <1>3 DEF B

(* Pushing the events of a step keeps the snapshots true to the log. *)
LEMMA PushedEntries ==
  ASSUME ClockInv, CalendarInv, EntriesInv, NEW goal \in Nat, elapsed < goal,
         elapsed' = goal, surface' \in Surfaces,
         LogStays \/ LogGrows(goal), PushEvents
  PROVE  EntriesInv'
<1>1. CASE LogStays
  <2>1. ~ HasEvent
    BY <1>1 DEF LogStays, HasEvent, CalendarInv
  <2>2. entries' = entries /\ log' = log
    BY <1>1, <2>1 DEF PushEvents, LogStays
  <2> QED BY <2>2, ZenonT(30) DEF EntriesInv, Covering, SnapshotAt, SurfaceAt
<1>2. CASE LogGrows(goal)
  <2>1. /\ log \in Seq(Occurrence) /\ Len(log) \in Nat
        /\ Len(log') = Len(log) + 1
        /\ \A i \in 1..Len(log) : log'[i] = log[i]
        /\ log'[Len(log) + 1].at = goal
        /\ log'[Len(log) + 1].surface = surface'
    BY <1>2, GrownLog
  <2>2. HasEvent
    BY <2>1 DEF HasEvent
  <2> DEFINE n == Len(entries)
  <2> DEFINE pushed == [started |-> goal, snapshot |-> surface']
  <2>3. pushed \in Entry /\ entries' = Append(entries, pushed) /\ entries \in Seq(Entry)
    BY <2>2 DEF PushEvents, Entry, EntriesInv
  <2>4. /\ n \in Nat /\ entries' \in Seq(Entry) /\ Len(entries') = n + 1
        /\ entries'[n + 1] = pushed
        /\ \A i \in 1..n : entries'[i] = entries[i]
    BY <2>3, AppendProperties
  <2>5. entries'[n + 1].started = goal /\ entries'[n + 1].snapshot = surface'
    BY <2>4
  <2> HIDE DEF pushed, n
  <2>7. ASSUME NEW t \in Nat, Covering(t)' # {}
        PROVE  SnapshotAt(t)' = SurfaceAt(t)'
    <3> DEFINE C == {i \in 1..n : entries[i].started <= t}
    <3> DEFINE D == {i \in 1..(n + 1) : entries'[i].started <= t}
    <3>1. Covering(t) = C /\ Covering(t)' = D
      BY <2>4 DEF Covering, n
    <3>2. CASE t < goal
      <4>1. D = C
        BY <2>4, <2>5, <3>2
      <4>2. Max(C) \in 1..n
        <5>1. C \subseteq 1..n /\ C # {}
          BY <2>7, <3>1, <4>1
        <5> HIDE DEF C
        <5> QED BY <2>4, <5>1, MaxOfPlaces
      <4>3. SnapshotAt(t)' = entries'[Max(D)].snapshot
        BY <3>1 DEF SnapshotAt
      <4>4. SnapshotAt(t) = entries[Max(C)].snapshot
        BY <3>1 DEF SnapshotAt
      <4>5. SnapshotAt(t)' = SnapshotAt(t)
        BY <2>4, <4>1, <4>2, <4>3, <4>4
      <4>6. SnapshotAt(t) = SurfaceAt(t)
        BY <2>7, <3>1, <4>1 DEF EntriesInv
      <4>7. SurfaceAt(t)' = SurfaceAt(t)
        BY <1>2, <3>2, PastIsKept
      <4> QED BY <4>5, <4>6, <4>7
    <3>3. CASE ~ (t < goal)
      <4>1. n + 1 \in D /\ D \subseteq Int /\ \A i \in D : i <= n + 1
        BY <2>4, <2>5, <3>3
      <4> HIDE DEF D
      <4>2. Max(D) = n + 1
        BY <4>1, MaxIs
      <4>3. SnapshotAt(t)' = surface'
        BY <2>5, <3>1, <4>2 DEF SnapshotAt
      <4>4. \A i \in 1..Len(log') : log'[i].at <= t
        <5> SUFFICES ASSUME NEW i \in 1..Len(log') PROVE log'[i].at <= t
          OBVIOUS
        <5>1. CASE i \in 1..Len(log)
          <6>1. log[i].at \in Nat /\ log[i].at <= elapsed /\ log'[i] = log[i]
            BY <2>1, <5>1, OccurrenceTimes
          <6>2. elapsed \in Nat
            BY DEF ClockInv
          <6> QED BY <3>3, <6>1, <6>2
        <5>2. CASE i = Len(log) + 1
          BY <2>1, <3>3, <5>2
        <5> QED BY <2>1, <5>1, <5>2
      <4>5. Len(log') \in Nat /\ Len(log') >= 1
        BY <2>1
      <4>6. SurfaceAt(t)' = log'[Len(log')].surface
        BY <4>4, <4>5, LastOccurrence DEF SurfaceAt
      <4> QED BY <2>1, <4>3, <4>6
    <3> QED BY <3>2, <3>3
  <2> QED BY <2>4, <2>7 DEF EntriesInv
<1> QED BY <1>1, <1>2

(* Discarding what the next scan does not need keeps them true.            *)
LEMMA DiscardedEntries ==
  ASSUME EntriesInv, NEW next \in Nat, entries' = Discarded(next), log' = log
  PROVE  EntriesInv'
<1> DEFINE n == Len(entries)
<1> DEFINE m == IF Covering(next) = {} THEN 1 ELSE Max(Covering(next))
<1>1. entries \in Seq(Entry) /\ n \in Nat /\ entries' = SubSeq(entries, m, n)
  BY DEF EntriesInv, Discarded
<1>2. m \in Nat /\ m >= 1
  <2>1. \A t : Covering(t) \subseteq 1..n
    BY DEF Covering
  <2>2. CASE Covering(next) # {}
    <3>1. Max(Covering(next)) \in 1..n
      BY <1>1, <2>1, <2>2, MaxOfPlaces
    <3> QED BY <1>1, <2>2, <3>1
  <2> QED BY <2>2
<1> HIDE DEF m
<1>3. /\ entries' \in Seq(Entry)
      /\ Len(entries') = IF m <= n THEN n - m + 1 ELSE 0
      /\ \A i \in 1..(n - m + 1) : entries'[i] = entries[m + i - 1]
  <2>1. \A i \in m..n : entries[i] \in Entry
    BY <1>1, <1>2
  <2> QED BY <1>1, <1>2, <2>1, SubSeqProperties
<1>4. ASSUME NEW t \in Nat, Covering(t)' # {}
      PROVE  SnapshotAt(t)' = SurfaceAt(t)'
  <2> DEFINE C == {i \in 1..n : entries[i].started <= t}
  <2> DEFINE D == {i \in 1..Len(entries') : entries'[i].started <= t}
  <2>1. Covering(t) = C /\ Covering(t)' = D
    BY DEF Covering
  <2>2. ASSUME NEW i \in D PROVE m + i - 1 \in C /\ i \in Int
    <3>1. i \in 1..(n - m + 1) /\ entries'[i].started <= t
      BY <1>1, <1>2, <1>3
    <3>2. m + i - 1 \in 1..n /\ entries'[i] = entries[m + i - 1]
      BY <1>1, <1>2, <1>3, <3>1
    <3> QED BY <3>1, <3>2
  <2>3. C # {} /\ C \subseteq 1..n
    BY <1>4, <2>1, <2>2
  <2>4. Max(C) \in C /\ \A i \in C : i <= Max(C)
    <3> HIDE DEF C
    <3> QED BY <1>1, <2>3, MaxIsUpper
  <2> DEFINE k == Max(C) - m + 1
  <2>5. \A i \in D : i <= k
    <3> SUFFICES ASSUME NEW i \in D PROVE i <= k
      OBVIOUS
    <3>1. m + i - 1 <= Max(C) /\ i \in Int /\ Max(C) \in Int
      BY <2>2, <2>3, <2>4
    <3> QED BY <1>2, <3>1
  <2>6. k \in D /\ entries'[k] = entries[Max(C)]
    <3>1. PICK i \in D : TRUE
      BY <1>4, <2>1
    <3>2. i <= k /\ i >= 1 /\ i \in Int
      BY <2>5
    <3>3. Max(C) \in 1..n /\ entries[Max(C)].started <= t
      BY <2>4
    <3>4. k \in 1..(n - m + 1) /\ m + k - 1 = Max(C)
      BY <1>1, <1>2, <3>2, <3>3, SMTT(30)
    <3>5. k \in 1..Len(entries')
      BY <1>1, <1>2, <1>3, <3>4
    <3> QED BY <1>3, <3>3, <3>4, <3>5
  <2>7. Max(D) = k
    <3>1. D \subseteq Int
      BY <2>2
    <3> HIDE DEF D, k
    <3> QED BY <2>5, <2>6, <3>1, MaxIs
  <2>8. SnapshotAt(t)' = entries'[Max(D)].snapshot
    BY <2>1 DEF SnapshotAt
  <2>9. SnapshotAt(t) = entries[Max(C)].snapshot
    BY <2>1 DEF SnapshotAt
  <2>10. SnapshotAt(t) = SurfaceAt(t)
    BY <2>1, <2>3 DEF EntriesInv
  <2>11. SurfaceAt(t)' = SurfaceAt(t)
    BY DEF SurfaceAt
  <2> QED BY <2>6, <2>7, <2>8, <2>9, <2>10, <2>11
<1> QED BY <1>3, <1>4 DEF EntriesInv

-----------------------------------------------------------------------------
(* The spatial timeline: events are cut short where their cause is gone, and *)
(* forgotten when no scan can need them.                                   *)

(* An event of the spatial timeline.                                       *)
Disturbance ==
    [kind : {"falling", "void", "collection"}, place : Columns \union {None},
     height : Int, from : Int, to : Int]

(* The timeline retains every event that was there at or after the time it *)
(* is cut to.                                                              *)
HistoryInv ==
    /\ happened \subseteq Disturbance /\ events \subseteq happened
    /\ candidate \in [Moving -> Int] /\ retained \in Int
    /\ Distorted => advanced = elapsed /\ retained <= advanced
    /\ ~Distorted => happened = {}
    /\ \A e \in happened : e.from < elapsed /\ (e \in events \/ e.to <= retained)

(* A void is there only while the heap is filled and has not covered it.   *)
Uncovered(v, t) == ~Covered(v, SurfaceAt(t)) /\ FillingAt(t)

(* So it was at every instant of its past.                                 *)
VoidsInv ==
    \A e \in happened : e.kind = "void" =>
      /\ e.place \in Columns
      /\ \A t \in Nat : t < elapsed /\ e.from <= t /\ t < e.to => Uncovered(e, t)

LEMMA KnownIs ==
  ASSUME NEW e \in Disturbance
  PROVE  Known(e) = [kind |-> e.kind, place |-> e.place, height |-> e.height,
                     from |-> e.from, to |-> None]
BY DEF Known, Disturbance

(* Cutting an event short changes neither what it is nor when it came. *)
LEMMA ClosedShape ==
  ASSUME NEW e \in Disturbance, NEW at \in Int
  PROVE  /\ Closed(e, at) \in Disturbance
         /\ Closed(e, at).kind = e.kind /\ Closed(e, at).place = e.place
         /\ Closed(e, at).height = e.height /\ Closed(e, at).from = e.from
         /\ \/ Closed(e, at) = e
            \/ e.from <= at /\ at < e.to /\ Closed(e, at).to = at
         /\ Known(Closed(e, at)) = Known(e)
<1> DEFINE c == Closed(e, at)
<1> DEFINE d == [e EXCEPT !.to = at]
<1>1. /\ d \in Disturbance /\ d.kind = e.kind /\ d.place = e.place
      /\ d.height = e.height /\ d.from = e.from /\ d.to = at
  BY DEF Disturbance
<1>2. c = e \/ (c = d /\ e.from <= at /\ at < e.to)
  BY DEF Closed
<1> HIDE DEF c, d
<1>3. /\ c \in Disturbance /\ c.kind = e.kind /\ c.place = e.place
      /\ c.height = e.height /\ c.from = e.from
      /\ c = e \/ (e.from <= at /\ at < e.to /\ c.to = at)
  BY <1>1, <1>2
<1>4. Known(c) = Known(e)
  BY <1>3, KnownIs
<1> QED BY <1>3, <1>4 DEF c

(* A void that is not cut short now lies free.                             *)
LEMMA ClosedVoid ==
  ASSUME NEW e \in Disturbance, NEW at \in Int, e.kind = "void",
         e.from <= at, at < Closed(e, at).to
  PROVE  phase # "collecting" /\ ~Covered(e, surface)
<1>1. at < e.to
  BY ClosedShape
<1>2. SUFFICES ASSUME \/ phase = "collecting"
                      \/ Covered(e, surface)
               PROVE FALSE
  OBVIOUS
<1>3. Closed(e, at) = [e EXCEPT !.to = at]
  BY <1>1, <1>2 DEF Closed
<1>4. Closed(e, at).to = at
  BY <1>3 DEF Disturbance
<1> QED BY <1>4

(* What the generators and the covering of columns add to the timeline.    *)
LEMMA MovedShape ==
  ASSUME ClockInv, NEW k \in Moving, NEW S, S \subseteq Int, NEW m \in Moved(k, S)
  PROVE  m \subseteq Disturbance /\ \A e \in m : e.kind # "void"
<1> DEFINE E(t, d) == [kind |-> k, place |-> None, height |-> 0, from |-> t,
                       to |-> Min({PhaseEnd, t + d})]
<1> DEFINE G(kept, life) == {E(t, life[t]) : t \in kept}
<1>0. m \in UNION {{G(kept, life) : life \in [kept -> Lifetimes]} : kept \in SUBSET S}
  BY DEF Moved
<1> HIDE DEF G
<1>1. PICK kept \in SUBSET S : m \in {G(kept, life) : life \in [kept -> Lifetimes]}
  BY <1>0
<1>2. PICK life \in [kept -> Lifetimes] : m = G(kept, life)
  BY <1>1
<1>3. PhaseEnd \in Int
  BY DEF ClockInv, PhaseEnd
<1>4. ASSUME NEW e \in m PROVE e \in Disturbance /\ e.kind # "void"
  <2>1. PICK t \in kept : e = E(t, life[t])
    BY <1>2 DEF G
  <2>2. t \in Int /\ life[t] \in Nat /\ t + life[t] \in Int
    BY DistortionsAssumption DEF ValidSettings
  <2> DEFINE over == t + life[t]
  <2> DEFINE to == Min({PhaseEnd, over})
  <2>3. over \in Int
    BY <2>2
  <2> HIDE DEF over
  <2>4. to \in {PhaseEnd, over}
    BY <1>3, <2>3, MinOfTwo
  <2> HIDE DEF to
  <2>5. e = [kind |-> k, place |-> None, height |-> 0, from |-> t, to |-> to] /\ to \in Int
    BY <1>3, <2>1, <2>3, <2>4 DEF to, over
  <2>6. k \in {"falling", "collection"} /\ None \in Int
    BY DEF Moving, None
  <2> QED BY <2>2, <2>5, <2>6 DEF Disturbance
<1> QED BY <1>4

LEMMA CandidateTimes ==
  ASSUME NEW next \in Int, NEW through \in Int, NEW r \in Candidates(next, through)
  PROVE  r.at \subseteq Int /\ r.next \in Int
<1>1. CASE next >= through
  BY <1>1 DEF Candidates
<1>2. CASE ~ (next >= through)
  <2>1. r \in [at : SUBSET (next..(through - 1)), next : through..(through + Max(Gaps))]
    BY <1>2 DEF Candidates
  <2> QED BY <2>1
<1> QED BY <1>1, <1>2

LEMMA GeneratedShape ==
  ASSUME ClockInv, candidate \in [Moving -> Int], NEW through \in Int,
         NEW g \in Generated(through)
  PROVE  /\ g.new \subseteq Disturbance /\ \A e \in g.new : e.kind # "void"
         /\ g.next \in Int
<1> DEFINE k == MovingKind
<1>1. k \in Moving
  BY DEF MovingKind, Moving
<1> HIDE DEF k
<1>2. CASE k \notin Enabled
  BY <1>1, <1>2 DEF Generated, k
<1>3. CASE k \in Enabled
  <2>1. PICK r \in UNION {Candidates(b, through) : b \in Beginnings(k)} :
          \E m \in Moved(k, r.at) : g = [new |-> m, tried |-> Cardinality(r.at), next |-> r.next]
    BY <1>3 DEF Generated, k
  <2>2. PICK m \in Moved(k, r.at) : g = [new |-> m, tried |-> Cardinality(r.at), next |-> r.next]
    BY <2>1
  <2>3. PICK b \in Beginnings(k) : r \in Candidates(b, through)
    BY <2>1
  <2>4. b \in Int
    BY <1>1, <2>3, DistortionsAssumption DEF Beginnings, NextTimes, ClockInv, ValidSettings
  <2>5. r.at \subseteq Int /\ r.next \in Int
    BY <2>3, <2>4, CandidateTimes
  <2>6. m \subseteq Disturbance /\ \A e \in m : e.kind # "void"
    BY <1>1, <2>2, <2>5, MovedShape
  <2> QED BY <2>2, <2>5, <2>6
<1> QED BY <1>2, <1>3

LEMMA CoverShape ==
  ASSUME ClockInv, NEW open, NEW from \in Int, NEW through \in Int,
         NEW new \in VoidCovers(open, from, through)
  PROVE  \A v \in new : /\ v \in Disturbance /\ v.kind = "void"
                        /\ v.place \in Columns /\ v.height = surface[v.place]
<1> SUFFICES ASSUME NEW v \in new
             PROVE  /\ v \in Disturbance /\ v.kind = "void"
                    /\ v.place \in Columns /\ v.height = surface[v.place]
  OBVIOUS
<1> DEFINE V(c, t, life) == [kind |-> "void", place |-> c, height |-> surface[c],
                             from |-> t, to |-> Min({PhaseEnd, t + life})]
<1> DEFINE Bare == {d \in Columns : surface[d] > 0}
<1> DEFINE Times == from..(through - 1)
<1>0. v \in PossibleVoids(from, through)
  BY DEF VoidCovers
<1>1. PossibleVoids(from, through) = {V(c, t, life) : c \in Bare, t \in Times, life \in Lifetimes}
  BY DEF PossibleVoids
<1>2. PICK c \in Bare, t \in Times, life \in Lifetimes : v = V(c, t, life)
  <2> HIDE DEF V, Bare, Times
  <2>1. v \in {V(c, t, life) : c \in Bare, t \in Times, life \in Lifetimes}
    BY <1>0, <1>1
  <2> QED BY <2>1
<1>3. PhaseEnd \in Int /\ t \in Int /\ life \in Nat /\ surface[c] \in Int
  BY DistortionsAssumption, HeightFieldAssumption
     DEF ClockInv, PhaseEnd, ValidSettings, Surfaces
<1> DEFINE over == t + life
<1> DEFINE to == Min({PhaseEnd, over})
<1>4. over \in Int
  BY <1>3
<1> HIDE DEF over
<1>5. to \in {PhaseEnd, over}
  BY <1>3, <1>4, MinOfTwo
<1> HIDE DEF to
<1>6. v = [kind |-> "void", place |-> c, height |-> surface[c], from |-> t, to |-> to]
      /\ to \in Int
  BY <1>2, <1>3, <1>4, <1>5 DEF to, over
<1> QED BY <1>3, <1>6 DEF Disturbance

(* What an interval adds to the timeline: events that begin in it, voids   *)
(* on the surface as it is and while the heap is filled.                   *)
NewInInterval(N, from, through) ==
    /\ N \subseteq Disturbance
    /\ \A e \in N : from <= e.from /\ e.from < through
    /\ \A e \in N : e.kind = "void" =>
         phase = "filling" /\ e.place \in Columns /\ e.height = surface[e.place]

(* The timeline after the interval: the events of now cut short where their *)
(* cause is gone, and the new ones.                                        *)
HistoryExtends(N, from, through) ==
    /\ happened' = {Closed(e, from) : e \in happened} \union N
    /\ events' = {Closed(e, from) : e \in events} \union N
    /\ advanced' = through /\ retained' = retained
    /\ candidate' \in [Moving -> Int]

LEMMA TimelineAdvances ==
  ASSUME ClockInv, HistoryInv, Distorted, NEW through \in Int,
         AdvanceTimeline(elapsed, through)
  PROVE  \E N : NewInInterval(N, elapsed, through) /\ HistoryExtends(N, elapsed, through)
<1> DEFINE openVoids == {e \in ActiveAt(Synchronized(elapsed), elapsed) : e.kind = "void"}
<1>1. PICK cover \in Covers(elapsed, through), g \in Generated(through) :
         /\ Record(Synchronized(elapsed), cover \union g.new, through)
         /\ happened' = {Closed(e, elapsed) : e \in happened} \union cover \union g.new
         /\ candidate' = [candidate EXCEPT ![MovingKind] = g.next]
         /\ UNCHANGED retained
  BY DEF AdvanceTimeline
<1>2. elapsed \in Int /\ candidate \in [Moving -> Int] /\ advanced = elapsed
  BY DEF ClockInv, HistoryInv
<1>3. /\ g.new \subseteq Disturbance /\ \A e \in g.new : e.kind # "void"
      /\ g.next \in Int
  BY <1>2, GeneratedShape
<1>4. \A v \in cover : /\ v \in Disturbance /\ v.kind = "void" /\ phase = "filling"
                       /\ v.place \in Columns /\ v.height = surface[v.place]
  <2>1. CASE phase = "filling" /\ "void" \in Enabled
    <3>1. cover \in VoidCovers(openVoids, elapsed, through)
      BY <2>1 DEF Covers
    <3> HIDE DEF openVoids
    <3> QED BY <1>2, <2>1, <3>1, CoverShape
  <2>2. CASE ~ (phase = "filling" /\ "void" \in Enabled)
    BY <2>2 DEF Covers
  <2> QED BY <2>1, <2>2
<1> DEFINE N == cover \union g.new
<1>5. N \subseteq Disturbance
  BY <1>3, <1>4
<1>6. \A e \in N : elapsed <= e.from /\ e.from < through
  BY <1>1, <1>2 DEF Record
<1>7. NewInInterval(N, elapsed, through)
  BY <1>3, <1>4, <1>5, <1>6 DEF NewInInterval
<1>8. /\ happened' = {Closed(e, elapsed) : e \in happened} \union N
      /\ events' = {Closed(e, elapsed) : e \in events} \union N
      /\ advanced' = through
  BY <1>1 DEF Record, Synchronized
<1>9. candidate' \in [Moving -> Int]
  BY <1>1, <1>2, <1>3
<1>10. HistoryExtends(N, elapsed, through)
  BY <1>1, <1>8, <1>9 DEF HistoryExtends
<1> QED BY <1>7, <1>10

LEMMA HistoryAdvances ==
  ASSUME ClockInv, HistoryInv, Distorted, NEW goal \in Nat, elapsed < goal, elapsed' = goal,
         NEW N, NewInInterval(N, elapsed, goal), HistoryExtends(N, elapsed, goal)
  PROVE  HistoryInv'
<1>1. /\ happened \subseteq Disturbance /\ events \subseteq happened
      /\ retained \in Int /\ advanced = elapsed /\ retained <= elapsed /\ elapsed \in Nat
  BY DEF HistoryInv, ClockInv
<1>2. \A e \in Disturbance : e.from \in Int /\ e.to \in Int
  BY DEF Disturbance
<1>3. /\ happened' = {Closed(e, elapsed) : e \in happened} \union N
      /\ events' = {Closed(e, elapsed) : e \in events} \union N
      /\ advanced' = goal /\ retained' = retained
      /\ candidate' \in [Moving -> Int]
  BY DEF HistoryExtends
<1>4. N \subseteq Disturbance /\ \A e \in N : e.from < goal
  BY DEF NewInInterval
<1>5. \A e \in happened : Closed(e, elapsed) \in Disturbance
  BY <1>1, ClosedShape
<1>6. happened' \subseteq Disturbance /\ events' \subseteq happened'
  BY <1>1, <1>3, <1>4, <1>5
<1>7. ASSUME NEW c \in happened'
      PROVE  c.from < goal /\ (c \in events' \/ c.to <= retained')
  <2>1. CASE c \in N
    BY <1>3, <1>4, <2>1
  <2>2. CASE c \notin N
    <3>1. PICK e \in happened : c = Closed(e, elapsed)
      BY <1>3, <2>2
    <3>2. /\ e \in Disturbance /\ c.from = e.from
          /\ c = e \/ (elapsed < e.to /\ c.to = elapsed)
      BY <1>1, <3>1, ClosedShape
    <3>3. e.from < elapsed /\ (e \in events \/ e.to <= retained)
      BY DEF HistoryInv
    <3>4. c.from < goal
      BY <1>1, <1>2, <3>2, <3>3
    <3>5. CASE e \in events
      BY <1>3, <3>1, <3>4, <3>5
    <3>6. CASE e.to <= retained
      <4>1. ~ (elapsed < e.to)
        BY <1>1, <1>2, <3>2, <3>6
      <4> QED BY <1>3, <3>2, <3>4, <3>6, <4>1
    <3> QED BY <3>3, <3>5, <3>6
  <2> QED BY <2>1, <2>2
<1>8. Distorted' /\ elapsed' = goal
  BY DEF Distorted
<1>9. retained' \in Int /\ retained' <= advanced'
  BY <1>1, <1>3
<1> QED BY <1>3, <1>6, <1>7, <1>8, <1>9 DEF HistoryInv

(* The events that were there before an instant stay what they were then. *)
LEMMA PastEventsAreKept ==
  ASSUME ClockInv, HistoryInv, Distorted, NEW goal \in Nat,
         NEW N, NewInInterval(N, elapsed, goal), HistoryExtends(N, elapsed, goal),
         NEW t \in Nat, t < elapsed
  PROVE  {Known(e) : e \in ActiveAt(happened', t)} = {Known(e) : e \in ActiveAt(happened, t)}
<1>1. happened \subseteq Disturbance /\ elapsed \in Nat
  BY DEF HistoryInv, ClockInv
<1>2. \A e \in Disturbance : e.from \in Int /\ e.to \in Int
  BY DEF Disturbance
<1>3. happened' = {Closed(e, elapsed) : e \in happened} \union N
  BY DEF HistoryExtends
<1>4. \A e \in N : e \in Disturbance /\ elapsed <= e.from
  BY DEF NewInInterval
<1>5. ASSUME NEW e \in happened
      PROVE  /\ e.from <= t /\ t < e.to <=>
                  Closed(e, elapsed).from <= t /\ t < Closed(e, elapsed).to
             /\ Known(Closed(e, elapsed)) = Known(e)
  <2>1. /\ Closed(e, elapsed) \in Disturbance
        /\ Closed(e, elapsed).from = e.from
        /\ \/ Closed(e, elapsed) = e
           \/ e.from <= elapsed /\ elapsed < e.to /\ Closed(e, elapsed).to = elapsed
        /\ Known(Closed(e, elapsed)) = Known(e)
    BY <1>1, ClosedShape
  <2>2. e.from \in Int /\ e.to \in Int
    BY <1>1, <1>2
  <2> QED BY <1>1, <2>1, <2>2
<1>6. ActiveAt(happened', t) = {Closed(e, elapsed) : e \in ActiveAt(happened, t)}
  <2>1. ASSUME NEW c \in ActiveAt(happened', t)
        PROVE  c \in {Closed(e, elapsed) : e \in ActiveAt(happened, t)}
    <3>1. c \in happened' /\ c.from <= t /\ t < c.to
      BY DEF ActiveAt
    <3>2. c \notin N
      BY <1>1, <1>2, <1>4, <3>1
    <3>3. PICK e \in happened : c = Closed(e, elapsed)
      BY <1>3, <3>1, <3>2
    <3>4. e \in ActiveAt(happened, t)
      BY <1>5, <3>1, <3>3 DEF ActiveAt
    <3> QED BY <3>3, <3>4
  <2>2. ASSUME NEW e \in ActiveAt(happened, t)
        PROVE  Closed(e, elapsed) \in ActiveAt(happened', t)
    BY <1>3, <1>5 DEF ActiveAt
  <2> QED BY <2>1, <2>2
<1>7. \A e \in ActiveAt(happened, t) : Known(Closed(e, elapsed)) = Known(e)
  BY <1>5 DEF ActiveAt
<1> QED BY <1>6, <1>7

(* Voids that go on over the interval lie free over all of it: the surface *)
(* and the phase do not change before its end.                             *)
LEMMA VoidsAdvance ==
  ASSUME ClockInv, CalendarInv, LastOfLog, HistoryInv, VoidsInv, Distorted,
         NEW goal \in Nat, elapsed < goal, elapsed' = goal, LogStays \/ LogGrows(goal),
         NEW N, NewInInterval(N, elapsed, goal), HistoryExtends(N, elapsed, goal)
  PROVE  VoidsInv'
<1>1. happened \subseteq Disturbance /\ elapsed \in Nat
      /\ phase \in {"filling", "collecting"}
  BY DEF HistoryInv, ClockInv
<1>2. \A e \in Disturbance : e.from \in Int /\ e.to \in Int
  BY DEF Disturbance
<1>3. happened' = {Closed(e, elapsed) : e \in happened} \union N
  BY DEF HistoryExtends
<1>4. ASSUME NEW c \in happened', c.kind = "void",
             NEW t \in Nat, t < goal, c.from <= t, t < c.to
      PROVE  Uncovered(c, t)'
  <2>1. SUFFICES Uncovered(c, t)
    <3>1. SurfaceAt(t)' = SurfaceAt(t) /\ (FillingAt(t)' <=> FillingAt(t))
      BY <1>4, PastIsKept
    <3> QED BY <3>1 DEF Uncovered
  <2>2. CASE c \in N
    <3>1. /\ c \in Disturbance /\ elapsed <= c.from /\ phase = "filling"
          /\ c.place \in Columns /\ c.height = surface[c.place]
      BY <1>4, <2>2 DEF NewInInterval
    <3>2. elapsed <= t
      BY <1>1, <1>2, <1>4, <3>1
    <3>3. SurfaceAt(t) = surface /\ FillingAt(t)
      BY <3>1, <3>2, NowIsLast
    <3>4. surface[c.place] \in Int
      BY <3>1, HeightFieldAssumption DEF ClockInv, Surfaces
    <3>5. ~Covered(c, surface)
      BY <3>1, <3>4 DEF Covered
    <3> QED BY <3>3, <3>5 DEF Uncovered
  <2>3. CASE c \notin N
    <3>1. PICK e \in happened : c = Closed(e, elapsed)
      BY <1>3, <2>3
    <3>2. /\ e \in Disturbance /\ c \in Disturbance
          /\ c.kind = e.kind /\ c.place = e.place /\ c.height = e.height /\ c.from = e.from
          /\ c = e \/ (e.from <= elapsed /\ elapsed < e.to /\ c.to = elapsed)
      BY <1>1, <3>1, ClosedShape
    <3>3. e.from \in Int /\ e.to \in Int /\ c.to \in Int
      BY <1>2, <3>2
    <3>4. e.from < elapsed
      BY DEF HistoryInv
    <3>5. CASE t < elapsed
      <4>1. t < e.to
        BY <1>1, <1>4, <3>2, <3>3, <3>5
      <4>2. Uncovered(e, t)
        BY <1>4, <3>2, <3>5, <4>1 DEF VoidsInv
      <4> QED BY <3>2, <4>2 DEF Uncovered, Covered
    <3>6. CASE ~ (t < elapsed)
      <4>1. elapsed <= t /\ e.from <= elapsed /\ elapsed < c.to
        BY <1>1, <1>4, <3>3, <3>4, <3>6
      <4>2. phase # "collecting" /\ ~Covered(e, surface)
        BY <1>1, <1>4, <3>1, <3>2, <4>1, ClosedVoid
      <4>3. SurfaceAt(t) = surface /\ FillingAt(t)
        BY <1>1, <4>1, <4>2, NowIsLast
      <4>5. ~Covered(c, surface)
        BY <3>2, <4>2 DEF Covered
      <4> QED BY <4>3, <4>5 DEF Uncovered
    <3> QED BY <3>5, <3>6
  <2> QED BY <2>2, <2>3
<1>5. ASSUME NEW c \in happened', c.kind = "void" PROVE c.place \in Columns
  <2>1. CASE c \in N
    BY <1>5, <2>1 DEF NewInInterval
  <2>2. CASE c \notin N
    <3>1. PICK e \in happened : c = Closed(e, elapsed)
      BY <1>3, <2>2
    <3>2. c.kind = e.kind /\ c.place = e.place
      BY <1>1, <3>1, ClosedShape
    <3> QED BY <1>5, <3>2 DEF VoidsInv
  <2> QED BY <2>1, <2>2
<1> QED BY <1>4, <1>5 DEF VoidsInv

(* A sample shows its own instant, as the logs of events, distortions and  *)
(* dropouts have it.                                                       *)
SampleIsTrue(s) ==
    /\ s.surface = SurfaceAt(s.at)
    /\ s.distortions = {Known(e) : e \in ActiveAt(happened, s.at)}
    /\ s.dropped = (\E o \in outages : o.from <= s.at /\ s.at < o.to)
    /\ VoidsAreUncovered(s)

(* The times of the samples of the scans before the n-th.                  *)
SampleTimes(n) == {t \in 0..(Captured(n) - 1) : t % SampleTicks = 0}

(* Every sample time of the scans so far was measured, and all samples are *)
(* true; they lie before now and before what the dropouts were drawn for.  *)
SeenInv ==
    /\ {s.at : s \in seen} = SampleTimes(scan_id)
    /\ \A s \in seen : s.at \in Nat /\ s.at < elapsed /\ s.at <= dropout.last
    /\ \A s \in seen : SampleIsTrue(s)

LEMMA VoidsAreUncoveredIs ==
  ASSUME NEW s
  PROVE  VoidsAreUncovered(s) <=>
           \A v \in s.distortions : v.kind = "void" =>
              ~Covered(v, s.surface) /\ FillingAt(s.at)
BY DEF VoidsAreUncovered, FillingAt

LEMMA MultiplesUpTo ==
  ASSUME NEW s \in Nat \ {0}, NEW a \in Nat
  PROVE  {t \in 0..(s * a - 1) : t % s = 0} = {s * k : k \in 0..(a - 1)}
<1>1. ASSUME NEW t \in 0..(s * a - 1), t % s = 0
      PROVE  t \in {s * k : k \in 0..(a - 1)}
  <2> DEFINE k == t \div s
  <2>1. k \in Nat /\ t = s * k
    BY <1>1
  <2> HIDE DEF k
  <2>2. k < a
    <3> SUFFICES ASSUME a <= k PROVE FALSE
      BY <2>1
    <3>1. s * a <= s * k
      BY <2>1
    <3>2. s * a \in Nat /\ t <= s * a - 1
      BY <1>1
    <3> QED BY <2>1, <3>1, <3>2
  <2> QED BY <2>1, <2>2
<1>2. ASSUME NEW k \in 0..(a - 1)
      PROVE  s * k \in 0..(s * a - 1) /\ (s * k) % s = 0
  <2>1. k \in Nat /\ k + 1 <= a
    OBVIOUS
  <2>2. s * (k + 1) <= s * a /\ s * (k + 1) = s * k + s
    BY <2>1
  <2>3. s * k \in Nat /\ s * a \in Nat
    BY <2>1
  <2> QED BY <2>1, <2>2, <2>3
<1> QED BY <1>1, <1>2

(* The samples of a scan follow those of the scans before it. *)
LEMMA ScanAddsItsTimes ==
  ASSUME NEW n \in Nat \ {0}
  PROVE  /\ SampleTimes(n + 1) = SampleTimes(n) \union ScheduledScan(n).points
         /\ \A t \in ScheduledScan(n).points :
              t \in Nat /\ Captured(n) <= t /\ t <= LastPoint(n)
         /\ Captured(n) \in Nat /\ LastPoint(n) \in Nat /\ Captured(n) <= LastPoint(n)
<1> DEFINE a == CeilMultiple(n - 1)
<1> DEFINE b == CeilMultiple(n)
<1> DEFINE s == SampleTicks
<1>1. a \in Nat /\ b \in Nat /\ s \in Nat \ {0}
  BY CeilMultipleBounds, RotationAssumption DEF RatesAssumption
<1>2. Captured(n) < Captured(n + 1)
  BY NextBeginsAfterCompletion
<1>3. Captured(n) = s * a /\ Captured(n + 1) = s * b /\ LastPoint(n) = s * (b - 1)
  BY DEF Captured, LastPoint
<1>4. ScheduledScan(n).points = {s * k : k \in a..(b - 1)}
  BY DEF ScheduledScan
<1> HIDE DEF a, b, s
<1>5. a < b
  <2> SUFFICES ASSUME b <= a PROVE FALSE
    BY <1>1
  <2>1. s * b <= s * a
    BY <1>1
  <2>2. s * b \in Nat /\ s * a \in Nat
    BY <1>1
  <2> QED BY <1>2, <1>3, <2>1, <2>2
<1>6. SampleTimes(n) = {s * k : k \in 0..(a - 1)}
  BY <1>1, <1>3, MultiplesUpTo DEF SampleTimes, s
<1>7. SampleTimes(n + 1) = {s * k : k \in 0..(b - 1)}
  BY <1>1, <1>3, MultiplesUpTo DEF SampleTimes, s
<1>8. 0..(b - 1) = (0..(a - 1)) \union (a..(b - 1))
  BY <1>1, <1>5
<1>9. SampleTimes(n + 1) = SampleTimes(n) \union ScheduledScan(n).points
  BY <1>4, <1>6, <1>7, <1>8
<1>10. ASSUME NEW k \in a..(b - 1)
       PROVE  s * k \in Nat /\ s * a <= s * k /\ s * k <= s * (b - 1)
  <2>1. k \in Nat /\ a <= k /\ k <= b - 1 /\ b - 1 \in Nat
    BY <1>1, <1>5
  <2> QED BY <1>1, <2>1
<1>11. s * a \in Nat /\ s * (b - 1) \in Nat /\ s * a <= s * (b - 1)
  <2>1. a <= b - 1 /\ b - 1 \in Nat
    BY <1>1, <1>5
  <2> QED BY <1>1, <2>1
<1> QED BY <1>3, <1>4, <1>9, <1>10, <1>11

-----------------------------------------------------------------------------
(* A sample that is true stays true while the scenario advances.           *)
LEMMA SamplesStayTrue ==
  ASSUME CalendarInv, ClockInv, HistoryInv, NEW goal \in Nat, elapsed < goal,
         LogStays \/ LogGrows(goal), UNCHANGED outages,
         IF Distorted
         THEN \E N : NewInInterval(N, elapsed, goal) /\ HistoryExtends(N, elapsed, goal)
         ELSE happened' = happened,
         NEW s, s.at \in Nat, s.at < elapsed, SampleIsTrue(s)
  PROVE  SampleIsTrue(s)'
<1>1. elapsed \in Nat /\ s.at < goal
  BY DEF ClockInv
<1>2. SurfaceAt(s.at)' = SurfaceAt(s.at) /\ (FillingAt(s.at)' <=> FillingAt(s.at))
  BY <1>1, PastIsKept
<1>3. {Known(e) : e \in ActiveAt(happened', s.at)} = {Known(e) : e \in ActiveAt(happened, s.at)}
  <2>1. CASE Distorted
    BY <2>1, PastEventsAreKept
  <2>2. CASE ~ Distorted
    BY <2>2
  <2> QED BY <2>1, <2>2
<1>4. VoidsAreUncovered(s)'
  <2>1. VoidsAreUncovered(s)' <=>
           \A v \in s.distortions : v.kind = "void" =>
              ~Covered(v, s.surface) /\ FillingAt(s.at)'
    BY DEF VoidsAreUncovered, FillingAt
  <2>2. VoidsAreUncovered(s)
    BY DEF SampleIsTrue
  <2> QED BY <1>2, <2>1, <2>2, VoidsAreUncoveredIs
<1>5. {Known(e) : e \in ActiveAt(happened, s.at)}' = {Known(e) : e \in ActiveAt(happened', s.at)}
  BY DEF Known, ActiveAt
<1> QED BY <1>2, <1>3, <1>4, <1>5 DEF SampleIsTrue

(* The measurement of one point.                                           *)
SampleAt(t, masked) ==
    [at |-> t, surface |-> SnapshotAt(t),
     distortions |-> {Known(e) : e \in ActiveAt(events, t)}, dropped |-> t \in masked]

(* The outages that a scan does not draw again are over at its samples. *)
OthersAreOver(new, t) == \A o \in outages : o.to \in Int /\ (o \in new \/ o.to <= t)

(* A sample shows what there is at t, with the outages of new drawn as well. *)
Shows(s, t, new) ==
    /\ s.at = t
    /\ s.surface = SurfaceAt(t)
    /\ s.distortions = {Known(e) : e \in ActiveAt(happened, t)}
    /\ s.dropped = (\E o \in outages \union new : o.from <= t /\ t < o.to)
    /\ VoidsAreUncovered(s)

(* A sample of the pending scan is true when it is measured: the snapshots *)
(* cover its time, the timeline retains all that was there then, and the   *)
(* dropouts are drawn past it.                                             *)
LEMMA MeasuredIsTrue ==
  ASSUME HistoryInv, EntriesInv, VoidsInv, NEW t \in Nat, t < elapsed, Covering(t) # {},
         Distorted => retained <= t,
         NEW new, NEW points, t \in points,
         OthersAreOver(new, t)
  PROVE  Shows(SampleAt(t, Masked(new, points)), t, new)
<1> DEFINE s == SampleAt(t, Masked(new, points))
<1>0. /\ s.at = t /\ s.surface = SnapshotAt(t)
      /\ s.distortions = {Known(e) : e \in ActiveAt(events, t)}
      /\ s.dropped = (t \in Masked(new, points))
  BY DEF SampleAt
<1> HIDE DEF s
<1>1. SnapshotAt(t) = SurfaceAt(t)
  BY DEF EntriesInv
<1>2. ActiveAt(events, t) = ActiveAt(happened, t)
  <2>1. events \subseteq happened /\ happened \subseteq Disturbance
    BY DEF HistoryInv
  <2>2. ASSUME NEW e \in happened, t < e.to PROVE e \in events
    <3>1. e.to \in Int
      BY <2>1 DEF Disturbance
    <3>2. Distorted
      BY DEF HistoryInv
    <3>3. retained <= t /\ retained \in Int
      BY <3>2 DEF HistoryInv
    <3> QED BY <2>2, <3>1, <3>3 DEF HistoryInv
  <2> QED BY <2>1, <2>2 DEF ActiveAt
<1>3. t \in Masked(new, points) <=> \E o \in outages \union new : o.from <= t /\ t < o.to
  BY DEF Masked, OthersAreOver
<1>4. VoidsAreUncovered(s)
  <2>1. ASSUME NEW v \in s.distortions, v.kind = "void"
        PROVE  ~Covered(v, s.surface) /\ FillingAt(s.at)
    <3>1. PICK e \in happened : v = Known(e) /\ e.from <= t /\ t < e.to
      BY <1>0, <1>2 DEF ActiveAt
    <3>2. e \in Disturbance
      BY DEF HistoryInv
    <3>3. v.kind = e.kind /\ v.place = e.place /\ v.height = e.height
      BY <3>1, <3>2, KnownIs
    <3>4. Uncovered(e, t)
      BY <2>1, <3>1, <3>3 DEF VoidsInv
    <3> QED BY <1>0, <1>1, <3>3, <3>4 DEF Uncovered, Covered
  <2> QED BY <2>1, VoidsAreUncoveredIs
<1>5. s.surface = SurfaceAt(t)
  BY <1>0, <1>1
<1>6. s.distortions = {Known(e) : e \in ActiveAt(happened, t)}
  BY <1>0, <1>2
<1>7. s.dropped = (t \in Masked(new, points))
  BY <1>0
<1>8. (t \in Masked(new, points)) = (\E o \in outages \union new : o.from <= t /\ t < o.to)
  <2> DEFINE P == t \in Masked(new, points)
  <2> DEFINE Q == \E o \in outages \union new : o.from <= t /\ t < o.to
  <2>1. P \in BOOLEAN /\ Q \in BOOLEAN
    OBVIOUS
  <2>2. P <=> Q
    BY <1>3
  <2> HIDE DEF P, Q
  <2>3. P = Q
    BY <2>1, <2>2
  <2> QED BY <2>3 DEF P, Q
<1>9. s.dropped = (\E o \in outages \union new : o.from <= t /\ t < o.to)
  BY <1>7, <1>8
<1>10. Shows(s, t, new)
  BY <1>0, <1>4, <1>5, <1>6, <1>9 DEF Shows
<1> QED BY <1>10 DEF s

-----------------------------------------------------------------------------
(* The samples of a scan see their instant.                                *)

(* The inductive invariant.                                                *)
InstantInv ==
    /\ ScheduleInv /\ LastOfLog /\ EntriesInv
    /\ HistoryInv /\ VoidsInv /\ OutagesInv
    /\ SeenInv

(* Nothing of it is about the failure of the runtime.                      *)
LEMMA InstantKept ==
  ASSUME InstantInv, UNCHANGED <<scenario, timeline, dropouts, scan_id, entries, seen>>
  PROVE  InstantInv'
<1> USE DEF InstantInv
<1>1. /\ UNCHANGED scenario
      /\ scan_id' = scan_id /\ entries' = entries /\ seen' = seen
      /\ UNCHANGED <<events, advanced, retained, candidate, happened>>
      /\ dropout' = dropout /\ outages' = outages
      /\ log' = log /\ surface' = surface /\ phase' = phase /\ elapsed' = elapsed
  BY DEF timeline, dropouts, scenario
<1>2. ScheduleInv'
  BY <1>1, ScheduleKept DEF Completion, ScheduleInv, ClockInv
<1>3. LastOfLog' /\ EntriesInv'
  BY <1>1 DEF LastOfLog, EntriesInv, Covering, SnapshotAt, SurfaceAt
<1>4. HistoryInv' /\ VoidsInv'
  <2>1. \A v, t : Uncovered(v, t)' <=> Uncovered(v, t)
    BY <1>1 DEF Uncovered, SurfaceAt, FillingAt
  <2> QED BY <1>1, <2>1, SMTT(30) DEF HistoryInv, VoidsInv, Distorted
<1>5. OutagesInv'
  BY <1>1 DEF OutagesInv, SchedulerInv
<1>6. SeenInv'
  <2>1. \A s : SampleIsTrue(s)' <=> SampleIsTrue(s)
    BY <1>1 DEF SampleIsTrue, SurfaceAt, ActiveAt, Known, VoidsAreUncovered
  <2>2. SampleTimes(scan_id)' = SampleTimes(scan_id)
    BY <1>1 DEF SampleTimes
  <2> QED BY <1>1, <2>1, <2>2 DEF SeenInv
<1> QED BY <1>2, <1>3, <1>4, <1>5, <1>6

(* An interval of the scenario changes nothing before its beginning.       *)
LEMMA InstantInterval ==
  ASSUME InstantInv, ScheduleInv', AdvanceInterval
  PROVE  InstantInv'
<1> USE DEF InstantInv
<1> DEFINE goal == Min({NextEvent, Completion})
<1>1. /\ NextEvent \in Nat /\ elapsed < NextEvent
      /\ Completion \in Nat /\ elapsed < Completion
  BY NextEventIsNext, CompletionIsBoundary DEF AdvanceInterval, ScheduleInv, ClockInv
<1>2. goal \in {NextEvent, Completion}
  BY <1>1, MinOfTwo
<1>3. goal \in Nat /\ elapsed < goal
  BY <1>1, <1>2
<1> HIDE DEF goal
<1>4. CASE Fail("interval") \/ Fail("advance events")
  BY <1>4, InstantKept DEF Fail
<1>5. CASE /\ IF Distorted THEN AdvanceTimeline(elapsed, goal) ELSE UNCHANGED timeline
           /\ AdvanceTo(goal)
           /\ PushEvents
           /\ UNCHANGED <<dropouts, scan_id, seen>>
  <2>1. /\ ClockInv /\ ClockInv' /\ CalendarInv /\ CalendarInv' /\ elapsed' = goal
        /\ surface' \in Surfaces
    BY <1>5 DEF ScheduleInv, AdvanceTo, ClockInv
  <2>2. LogStays \/ LogGrows(goal)
    BY <1>3, <1>5, <2>1, LogAdvances
  <2>3. LastOfLog'
    BY <2>1, <2>2, LastOfLogKept
  <2>4. EntriesInv'
    BY <1>3, <1>5, <2>1, <2>2, PushedEntries
  <2>5. ASSUME Distorted
        PROVE  \E N : NewInInterval(N, elapsed, goal) /\ HistoryExtends(N, elapsed, goal)
    BY <1>3, <1>5, <2>1, <2>5, TimelineAdvances
  <2>6. ASSUME ~ Distorted
        PROVE  happened = {} /\ UNCHANGED <<events, advanced, retained, candidate, happened>>
    BY <1>5, <2>6 DEF timeline, HistoryInv
  <2>7. HistoryInv' /\ VoidsInv'
    <3>1. CASE Distorted
      <4>1. PICK N : NewInInterval(N, elapsed, goal) /\ HistoryExtends(N, elapsed, goal)
        BY <2>5, <3>1
      <4> QED BY <1>3, <2>1, <2>2, <3>1, <4>1, HistoryAdvances, VoidsAdvance
    <3>2. CASE ~ Distorted
      BY <2>6, <3>2 DEF HistoryInv, VoidsInv, Distorted
    <3> QED BY <3>1, <3>2
  <2>8. scan_id' = scan_id /\ seen' = seen /\ dropout' = dropout /\ outages' = outages
    BY <1>5 DEF dropouts
  <2>9. OutagesInv'
    BY <2>8 DEF OutagesInv, SchedulerInv
  <2>10. SeenInv'
    <3>1. ASSUME NEW s \in seen
          PROVE  s.at \in Nat /\ s.at < goal /\ s.at <= dropout.last /\ SampleIsTrue(s)'
      <4>1. s.at \in Nat /\ s.at < elapsed /\ s.at <= dropout.last /\ SampleIsTrue(s)
        BY DEF SeenInv
      <4>2. s.at < goal
        BY <1>3, <2>1, <4>1 DEF ClockInv
      <4>3. SampleIsTrue(s)'
        BY <1>3, <2>1, <2>2, <2>5, <2>6, <2>8, <4>1, SamplesStayTrue
      <4> QED BY <4>1, <4>2, <4>3
    <3>2. {s.at : s \in seen'} = SampleTimes(scan_id)'
      BY <2>8 DEF SeenInv, SampleTimes
    <3> QED BY <2>1, <2>8, <3>1, <3>2 DEF SeenInv
  <2> QED BY <2>3, <2>4, <2>7, <2>9, <2>10
<1> QED BY <1>4, <1>5 DEF AdvanceInterval, goal

(* What CompleteScan does when it measures the scan. *)
ScanMeasured(o) ==
    /\ \A t \in ScheduledScan(scan_id).points : Covering(t) # {}
    /\ \A t \in ScheduledScan(scan_id).points : t < elapsed
    /\ Distorted => retained <= Captured(scan_id)
    /\ dropout.last < Captured(scan_id)
    /\ o \in Outages(LastPoint(scan_id))
    /\ dropout' = [start |-> o.start, end |-> o.end, last |-> LastPoint(scan_id)]
    /\ outages' = outages \union o.new
    /\ seen' = seen \union Measured(Reference(ScheduledScan(scan_id).points),
                                    Masked(o.new, ScheduledScan(scan_id).points))
    /\ scan_id' = scan_id + 1
    /\ entries' = Discarded(Captured(scan_id + 1))
    /\ UNCHANGED scenario
    /\ \/ UNCHANGED timeline
       \/ /\ Distorted /\ MayDiscard(Captured(scan_id + 1))
          /\ DiscardTimeline(Captured(scan_id + 1))

LEMMA ScanIsMeasured ==
  ASSUME CompleteScan, scan_id \in Nat \ {0}, elapsed \in Nat
  PROVE  \/ UNCHANGED <<scenario, timeline, dropouts, scan_id, entries, seen>>
         \/ \E o : ScanMeasured(o)
<1> DEFINE scan == ScheduledScan(scan_id)
<1>1. SUFFICES ASSUME \A why : ~ Fail(why) PROVE \E o : ScanMeasured(o)
  BY DEF Fail
<1>2. /\ elapsed = Completion /\ ValidScan(scan)
      /\ ~ \E t \in scan.points : Covering(t) = {}
      /\ ~ (Distorted /\ ~ScanCovered(Captured(scan_id), scan.completed))
      /\ PointsFollow(Captured(scan_id))
  BY <1>1 DEF CompleteScan
<1>3. PICK o \in Outages(LastPoint(scan_id)) :
         /\ dropout' = [start |-> o.start, end |-> o.end, last |-> LastPoint(scan_id)]
         /\ outages' = outages \union o.new
         /\ seen' = seen \union Measured(Reference(scan.points), Masked(o.new, scan.points))
  BY <1>1, <1>2 DEF CompleteScan
<1>4. /\ scan_id' = scan_id + 1 /\ entries' = Discarded(Captured(scan_id + 1))
      /\ UNCHANGED scenario
      /\ IF Distorted /\ ~MayDiscard(Captured(scan_id + 1))
         THEN UNCHANGED timeline
         ELSE IF Distorted THEN DiscardTimeline(Captured(scan_id + 1)) ELSE UNCHANGED timeline
  BY <1>1, <1>2 DEF CompleteScan
<1>5. \A t \in scan.points : t < elapsed
  BY <1>2 DEF ValidScan, Completion
<1>6. Distorted => retained <= Captured(scan_id)
  BY <1>2 DEF ScanCovered
<1>7. dropout.last < Captured(scan_id)
  BY <1>2 DEF PointsFollow
<1> QED BY <1>2, <1>3, <1>4, <1>5, <1>6, <1>7 DEF ScanMeasured

(* A scan has one sample at each of its points. *)
LEMMA MeasuredIs ==
  ASSUME NEW points, NEW masked
  PROVE  \A s : s \in Measured(Reference(points), masked)
                  <=> \E t \in points : s = SampleAt(t, masked)
<1> DEFINE ref == Reference(points)
<1>1. DOMAIN ref = points /\ \A t \in points : ref[t] = SnapshotAt(t)
  BY DEF Reference
<1> HIDE DEF ref
<1> DEFINE at(t) == [at |-> t, surface |-> ref[t],
                     distortions |-> {Known(e) : e \in ActiveAt(events, t)},
                     dropped |-> t \in masked]
<1>2. Measured(ref, masked) = {at(t) : t \in points}
  BY <1>1 DEF Measured
<1>3. \A t \in points : at(t) = SampleAt(t, masked)
  BY <1>1 DEF SampleAt
<1> HIDE DEF at
<1>4. \A s : s \in Measured(ref, masked) <=> \E t \in points : s = SampleAt(t, masked)
  BY <1>2, <1>3
<1> QED BY <1>4 DEF ref

(* A scan measures the truth: it lies before now, its snapshots cover it, the *)
(* timeline retains it, and its dropouts are drawn.                        *)
LEMMA InstantScan ==
  ASSUME InstantInv, ScheduleInv', NEW r, ScanMeasured(r)
  PROVE  InstantInv'
<1> USE DEF InstantInv
<1> DEFINE points == ScheduledScan(scan_id).points
<1> DEFINE first == Captured(scan_id)
<1> DEFINE next == Captured(scan_id + 1)
<1> DEFINE last == LastPoint(scan_id)
<1>1. scan_id \in Nat \ {0} /\ elapsed \in Nat
  BY DEF ScheduleInv, ClockInv
<1>2. /\ SampleTimes(scan_id + 1) = SampleTimes(scan_id) \union points
      /\ \A t \in points : t \in Nat /\ first <= t /\ t <= last
      /\ first \in Nat /\ last \in Nat /\ first <= last
  BY <1>1, ScanAddsItsTimes
<1>3. next \in Nat
  BY <1>1, NextBeginsAfterCompletion
<1>4. /\ \A t \in points : Covering(t) # {} /\ t < elapsed
      /\ Distorted => retained <= first
      /\ dropout.last < first
      /\ r \in Outages(last)
      /\ dropout' = [start |-> r.start, end |-> r.end, last |-> last]
      /\ outages' = outages \union r.new
      /\ seen' = seen \union Measured(Reference(points), Masked(r.new, points))
      /\ scan_id' = scan_id + 1
      /\ entries' = Discarded(next)
      /\ UNCHANGED scenario
      /\ UNCHANGED timeline \/ (Distorted /\ MayDiscard(next) /\ DiscardTimeline(next))
  BY DEF ScanMeasured
<1> HIDE DEF points, first, next, last
<1>5. /\ log' = log /\ surface' = surface /\ phase' = phase /\ elapsed' = elapsed
  BY <1>4 DEF scenario
<1>6. /\ happened' = happened /\ advanced' = advanced /\ candidate' = candidate
      /\ \/ events' = events /\ retained' = retained
         \/ /\ Distorted /\ retained <= next /\ next <= advanced
            /\ events' = {e \in events : e.to > next} /\ retained' = next
  BY <1>4 DEF timeline, DiscardTimeline, MayDiscard, Kept
<1>7. LastOfLog'
  BY <1>5 DEF LastOfLog
<1>8. EntriesInv'
  BY <1>3, <1>4, <1>5, DiscardedEntries
<1>9. HistoryInv'
  <2>1. CASE events' = events /\ retained' = retained
    BY <1>5, <1>6, <2>1 DEF HistoryInv, Distorted
  <2>2. CASE /\ Distorted /\ retained <= next /\ next <= advanced
             /\ events' = {e \in events : e.to > next} /\ retained' = next
    <3>1. happened \subseteq Disturbance /\ retained \in Int
      BY DEF HistoryInv
    <3>2. ASSUME NEW e \in happened PROVE e \in events' \/ e.to <= next
      <4>1. e.to \in Int
        BY <3>1 DEF Disturbance
      <4>2. e \in events \/ e.to <= retained
        BY DEF HistoryInv
      <4> QED BY <1>3, <2>2, <3>1, <4>1, <4>2
    <3> QED BY <1>3, <1>5, <1>6, <2>2, <3>2 DEF HistoryInv, Distorted
  <2> QED BY <1>6, <2>1, <2>2
<1>10. VoidsInv'
  BY <1>5, <1>6, ZenonT(30) DEF VoidsInv, Uncovered, SurfaceAt, FillingAt
<1>11. dropout.last \in Int /\ dropout.last < last
  <2>1. dropout.last \in Int
    BY DEF OutagesInv, SchedulerInv
  <2> QED BY <1>2, <1>4, <2>1
<1>12. /\ OutagesInv'
       /\ \A o \in r.new : o \in outages \/ o.from > dropout.last
       /\ \A o \in outages : o \in r.new \/ o.to <= dropout.last
  BY <1>2, <1>4, <1>11, OutagesAdvance
<1>13. outages' \subseteq Outage /\ \A o \in Outage : o.from \in Nat /\ o.to \in Nat
  BY <1>12 DEF OutagesInv, Outage
<1>14. ASSUME NEW s \in seen
       PROVE  s.at \in Nat /\ s.at < elapsed /\ s.at <= last /\ SampleIsTrue(s)'
  <2>1. s.at \in Nat /\ s.at < elapsed /\ s.at <= dropout.last /\ SampleIsTrue(s)
    BY DEF SeenInv
  <2>2. s.at <= last
    BY <1>2, <1>11, <2>1
  <2>3. (\E o \in outages' : o.from <= s.at /\ s.at < o.to)
          <=> (\E o \in outages : o.from <= s.at /\ s.at < o.to)
    <3>1. ASSUME NEW o \in r.new, o \notin outages PROVE ~ (o.from <= s.at)
      <4>1. o.from > dropout.last /\ o.from \in Nat
        BY <1>4, <1>12, <1>13, <3>1
      <4> QED BY <1>11, <2>1, <4>1
    <3> QED BY <1>4, <3>1
  <2>4. s.dropped = (\E o \in outages' : o.from <= s.at /\ s.at < o.to)
    <3> DEFINE P == \E o \in outages' : o.from <= s.at /\ s.at < o.to
    <3> DEFINE Q == \E o \in outages : o.from <= s.at /\ s.at < o.to
    <3>1. P \in BOOLEAN /\ Q \in BOOLEAN /\ (P <=> Q)
      BY <2>3
    <3>2. s.dropped = Q
      BY <2>1 DEF SampleIsTrue
    <3> HIDE DEF P, Q
    <3>3. s.dropped = P
      BY <3>1, <3>2
    <3> QED BY <3>3 DEF P
  <2>5. /\ SurfaceAt(s.at)' = SurfaceAt(s.at)
        /\ {Known(e) : e \in ActiveAt(happened, s.at)}' = {Known(e) : e \in ActiveAt(happened, s.at)}
        /\ VoidsAreUncovered(s)' <=> VoidsAreUncovered(s)
    BY <1>5, <1>6 DEF SurfaceAt, ActiveAt, Known, VoidsAreUncovered
  <2>6. SampleIsTrue(s)'
    BY <2>1, <2>4, <2>5 DEF SampleIsTrue
  <2> QED BY <2>1, <2>2, <2>6
<1>15. ASSUME NEW s \in Measured(Reference(points), Masked(r.new, points))
       PROVE  s.at \in points /\ s.at < elapsed /\ SampleIsTrue(s)'
  <2>1. PICK t \in points : s = SampleAt(t, Masked(r.new, points))
    BY MeasuredIs
  <2>2. /\ t \in Nat /\ t < elapsed /\ Covering(t) # {}
        /\ Distorted => retained <= t
    <3>1. t \in Nat /\ first <= t /\ t < elapsed /\ Covering(t) # {}
      BY <1>2, <1>4
    <3>2. retained \in Int
      BY DEF HistoryInv
    <3> QED BY <1>2, <1>4, <3>1, <3>2
  <2>3. OthersAreOver(r.new, t)
    <3> SUFFICES ASSUME NEW o \in outages PROVE o.to \in Int /\ (o \in r.new \/ o.to <= t)
      BY DEF OthersAreOver
    <3>1. o.to \in Nat /\ (o \in r.new \/ o.to <= dropout.last)
      BY <1>4, <1>12, <1>13
    <3>2. first <= t /\ t \in Nat
      BY <1>2
    <3> QED BY <1>2, <1>4, <1>11, <3>1, <3>2
  <2>4. Shows(s, t, r.new)
    BY <2>1, <2>2, <2>3, MeasuredIsTrue
  <2>5. s.at = t
    BY <2>4 DEF Shows
  <2>6. /\ SurfaceAt(t)' = SurfaceAt(t)
        /\ {Known(e) : e \in ActiveAt(happened, t)}' = {Known(e) : e \in ActiveAt(happened, t)}
        /\ VoidsAreUncovered(s)' <=> VoidsAreUncovered(s)
    BY <1>5, <1>6 DEF SurfaceAt, ActiveAt, Known, VoidsAreUncovered
  <2>7. SampleIsTrue(s)'
    BY <1>4, <2>4, <2>6 DEF SampleIsTrue, Shows
  <2> QED BY <2>2, <2>5, <2>7
<1>16. {s.at : s \in Measured(Reference(points), Masked(r.new, points))} = points
  <2> DEFINE M == Measured(Reference(points), Masked(r.new, points))
  <2>1. \A s : s \in M <=> \E t \in points : s = SampleAt(t, Masked(r.new, points))
    BY MeasuredIs
  <2>2. \A t : SampleAt(t, Masked(r.new, points)).at = t
    BY DEF SampleAt
  <2> HIDE DEF M
  <2>3. ASSUME NEW s \in M PROVE s.at \in points
    BY <2>1, <2>2
  <2>4. ASSUME NEW t \in points PROVE \E s \in M : s.at = t
    BY <2>1, <2>2
  <2>5. {s.at : s \in M} = points
    BY <2>3, <2>4
  <2> QED BY <2>5 DEF M
<1>17. SeenInv'
  <2>1. {s.at : s \in seen'} = SampleTimes(scan_id')
    <3> DEFINE M == Measured(Reference(points), Masked(r.new, points))
    <3>1. seen' = seen \union M /\ {s.at : s \in M} = points
      BY <1>4, <1>16
    <3>2. {s.at : s \in seen} = SampleTimes(scan_id)
      BY DEF SeenInv
    <3> HIDE DEF M
    <3> QED BY <1>2, <1>4, <3>1, <3>2
  <2>2. SampleTimes(scan_id)' = SampleTimes(scan_id')
    BY DEF SampleTimes
  <2>3. dropout'.last = last
    BY <1>4
  <2>4. ASSUME NEW s \in seen'
        PROVE  s.at \in Nat /\ s.at < elapsed /\ s.at <= last /\ SampleIsTrue(s)'
    <3>1. CASE s \in seen
      BY <1>14, <3>1
    <3>2. CASE s \notin seen
      <4>1. s \in Measured(Reference(points), Masked(r.new, points))
        BY <1>4, <3>2
      <4>2. s.at \in points /\ s.at < elapsed /\ SampleIsTrue(s)'
        BY <1>15, <4>1
      <4> QED BY <1>2, <4>2
    <3> QED BY <3>1, <3>2
  <2> QED BY <1>5, <2>1, <2>2, <2>3, <2>4 DEF SeenInv
<1> QED BY <1>7, <1>8, <1>9, <1>10, <1>12, <1>17

LEMMA InstantInit == Init => InstantInv
<1> SUFFICES ASSUME Init PROVE InstantInv
  OBVIOUS
<1>1. /\ elapsed = 0 /\ surface = Flat /\ phase = "filling" /\ log = << >>
      /\ events = {} /\ happened = {} /\ advanced = 0 /\ retained = 0
      /\ candidate = [k \in Moving |-> None]
      /\ dropout \in [start : DropoutGaps, end : {None}, last : {None}]
      /\ outages = {} /\ scan_id = 1 /\ seen = {}
      /\ entries = <<[started |-> 0, snapshot |-> Flat]>>
  BY DEF Init, ScenarioStart, NoDistortion
<1>2. ScheduleInv
  BY ScheduleInit
<1>3. LastOfLog
  BY <1>1 DEF LastOfLog
<1>4. EntriesInv
  <2> DEFINE e == [started |-> 0, snapshot |-> Flat]
  <2>1. Flat \in Surfaces
    BY HeightFieldAssumption DEF Flat, Surfaces
  <2>2. e \in Entry /\ entries \in Seq(Entry) /\ Len(entries) = 1 /\ entries[1] = e
    BY <1>1, <2>1 DEF Entry
  <2>3. ASSUME NEW t \in Nat PROVE SnapshotAt(t) = SurfaceAt(t)
    <3>1. Covering(t) = {1}
      BY <2>2 DEF Covering
    <3>2. Max({1}) = 1
      BY MaxIs
    <3>3. SnapshotAt(t) = Flat
      BY <2>2, <3>1, <3>2 DEF SnapshotAt
    <3>4. SurfaceAt(t) = Flat
      BY <1>1 DEF SurfaceAt
    <3> QED BY <3>3, <3>4
  <2> QED BY <2>2, <2>3 DEF EntriesInv
<1>5. HistoryInv /\ VoidsInv
  BY <1>1 DEF HistoryInv, VoidsInv, None
<1>6. OutagesInv
  <2>1. dropout.start \in Nat /\ dropout.end = -1 /\ dropout.last = -1
    BY <1>1, DistortionsAssumption DEF None
  <2> QED BY <1>1, <2>1 DEF OutagesInv, SchedulerInv, None
<1>7. SeenInv
  <2>1. Captured(1) = 0
    <3>1. CeilMultiple(0) \in Nat /\ SampleTicks * CeilMultiple(0) < SampleTicks
      BY CeilMultipleBounds, RotationAssumption DEF Boundary, RatesAssumption
    <3>2. CeilMultiple(0) = 0
      BY <3>1, RotationAssumption DEF RatesAssumption
    <3>3. Captured(1) = SampleTicks * CeilMultiple(0)
      BY DEF Captured
    <3> QED BY <3>2, <3>3, RotationAssumption DEF RatesAssumption
  <2>2. SampleTimes(1) = {}
    BY <2>1 DEF SampleTimes
  <2> QED BY <1>1, <2>2 DEF SeenInv
<1> QED BY <1>2, <1>3, <1>4, <1>5, <1>6, <1>7 DEF InstantInv

LEMMA InstantStep ==
  ASSUME InstantInv, [Next]_vars
  PROVE  InstantInv'
<1>1. ScheduleInv'
  BY ScheduleStep DEF InstantInv
<1>2. CASE AdvanceInterval
  BY <1>1, <1>2, InstantInterval
<1>3. CASE CompleteScan
  <2>1. scan_id \in Nat \ {0} /\ elapsed \in Nat
    BY DEF InstantInv, ScheduleInv, ClockInv
  <2>2. \/ UNCHANGED <<scenario, timeline, dropouts, scan_id, entries, seen>>
        \/ \E o : ScanMeasured(o)
    BY <1>3, <2>1, ScanIsMeasured
  <2> QED BY <1>1, <2>2, InstantKept, InstantScan
<1>4. CASE UNCHANGED vars
  BY <1>4, InstantKept DEF vars
<1> QED BY <1>2, <1>3, <1>4 DEF Next, Stopped

(* Every sample of every scan shows the surface, the distortions and the   *)
(* dropout of its own instant, and none is left out or taken twice over    *)
(* the scans: whatever the rates, the draws, and the order of the events   *)
(* of the scenario and the completions of scans between which the          *)
(* histories are cut (try_next_completed_scans).                           *)
THEOREM SamplesSeeTheirInstant == Spec => []ScansSeeTheirInstant
<1>1. InstantInv => ScansSeeTheirInstant
  BY DEF InstantInv, SeenInv, SampleTimes, SampleIsTrue, ScansSeeTheirInstant
<1> QED BY <1>1, InstantInit, InstantStep, PTL DEF Spec
=============================================================================
