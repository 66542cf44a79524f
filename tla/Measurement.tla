----------------------------- MODULE Measurement -----------------------------
(***************************************************************************)
(* The generation of scans: the scenario, the surface history, the         *)
(* distortions and the schedule of a sensor, put together by               *)
(* GenerationRuntime (src/src/runtime/generation.rs) and                   *)
(* SnapshotEventCoordinator (src/src/measurement/snapshots.rs).            *)
(*                                                                         *)
(* Both sensors have the same rates, so all batches hold a scan of each    *)
(* with the same sample times; one stands for both.  How the requests      *)
(* travel to the sensor threads and back is module Generation.  An error   *)
(* makes the runtime terminal; the copies on which advance works are not   *)
(* modelled, as nothing reads them afterwards.                             *)
(***************************************************************************)
EXTENDS Distortions, Rotation

CONSTANTS EventLimit,    \* event_output_limit, for one batch
          MaxTime        \* bound: no batch that completes later

ASSUME MeasurementAssumption == EventLimit \in Nat /\ MaxTime \in Nat

VARIABLES
    scan_id,     \* the pending scan
    entries,     \* the snapshots kept by the coordinator
    seen,        \* history: every sample that was measured
    failure      \* "none", or why the runtime is terminal

vars == <<scenario, timeline, dropouts, scan_id, entries, seen, failure>>

Completion == ScheduledScan(scan_id).completed
Distorted == Enabled # {}

Init ==
    /\ ScenarioStart /\ NoDistortion
    /\ scan_id = 1
    /\ entries = <<[started |-> 0, snapshot |-> Flat]>>
    /\ seen = {} /\ failure = "none"

Fail(why) ==
    /\ failure' = why
    /\ UNCHANGED <<scenario, timeline, dropouts, scan_id, entries, seen>>

EventsOfBatch(l) == Cardinality({i \in 1..Len(l) : l[i].at > Boundary(scan_id - 1)})

\* push_event, for every event of the scenario; their times must increase.
HasEvent == Len(log') > Len(log)
PushEvents ==
    entries' = IF HasEvent
               THEN Append(entries, [started |-> elapsed', snapshot |-> surface'])
               ELSE entries
PushRefused == HasEvent /\ elapsed' <= entries[Len(entries)].started

\* One turn of the loop of advance_scenario_and_distortions: the distortions
\* of the interval up to the next event first, under the surface and the phase
\* it begins with, then the scenario.  The limits are there for what is drawn.
AdvanceInterval ==
    /\ failure = "none" /\ elapsed < Completion /\ Completion <= MaxTime
    /\ LET ends_at == Min({NextEvent, Completion}) IN
       IF Distorted /\ ~IntervalFits(elapsed, ends_at)
       THEN Fail("interval")
       ELSE \/ /\ Distorted /\ MayOverrun(elapsed, ends_at)
               /\ Fail("advance events")
            \/ /\ IF Distorted THEN AdvanceTimeline(elapsed, ends_at)
                               ELSE UNCHANGED timeline
               /\ AdvanceTo(ends_at)
               /\ PushEvents
               /\ failure' = IF Cardinality(events') > RetainedLimit THEN "retained events"
                             ELSE IF EventsOfBatch(log') > EventLimit THEN "scenario events"
                             ELSE IF PushRefused THEN "event order" ELSE "none"
               /\ UNCHANGED <<dropouts, scan_id, seen>>

\* snapshot_at: the latest entry that is not after the sample.
Covering(t) == {i \in 1..Len(entries) : entries[i].started <= t}
SnapshotAt(t) == entries[Max(Covering(t))].snapshot

\* discard_before_earliest_pending: the one in effect then is kept.
Discarded(t) ==
    SubSeq(entries, IF Covering(t) = {} THEN 1 ELSE Max(Covering(t)), Len(entries))

\* generate_with_snapshots: every point meets the surface of its own time.
Reference(points) == [t \in points |-> SnapshotAt(t)]

\* An event as the history knows it, without the end that may still change.
Known(e) == [e EXCEPT !.to = None]

\* generate_inner: the distortions that are there at the time of a point, and
\* the dropouts of the sensor.  Noise, reflections and quality are left out.
Measured(reference, masked) ==
    {[at |-> t, surface |-> reference[t],
      distortions |-> {Known(e) : e \in ActiveAt(events, t)},
      dropped |-> t \in masked] : t \in DOMAIN reference}

\* The rest of try_next_completed_scans: the scan is measured, the next one
\* scheduled, and the histories cut to what the next one needs.
CompleteScan ==
    /\ failure = "none" /\ elapsed = Completion
    /\ LET scan == ScheduledScan(scan_id)
           first == Captured(scan_id)
           next == Captured(scan_id + 1)
       IN IF ~ValidScan(scan) \/ ~ValidScan(ScheduledScan(scan_id + 1))
          THEN Fail("schedule")
          ELSE IF \E t \in scan.points : Covering(t) = {} THEN Fail("surface history")
          ELSE IF Distorted /\ ~ScanCovered(first, scan.completed)
               THEN Fail("spatial history")
          ELSE IF ~PointsFollow(first) THEN Fail("points")
          ELSE \E o \in Outages(LastPoint(scan_id)) :
               IF TooManyOutages(o.new) THEN Fail("dropout events")
               ELSE /\ dropout' = [start |-> o.start, end |-> o.end,
                                   last |-> LastPoint(scan_id)]
                    /\ outages' = outages \union o.new
                    /\ seen' = seen \union Measured(Reference(scan.points),
                                                 Masked(o.new, scan.points))
                    /\ scan_id' = scan_id + 1
                    /\ entries' = Discarded(next)
                    /\ IF Distorted /\ ~MayDiscard(next)
                       THEN failure' = "retention" /\ UNCHANGED timeline
                       ELSE /\ IF Distorted THEN DiscardTimeline(next)
                                            ELSE UNCHANGED timeline
                            /\ UNCHANGED failure
                    /\ UNCHANGED scenario

\* The runtime is terminal, or the bound on time is reached.
Stopped == (failure # "none" \/ Completion > MaxTime) /\ UNCHANGED vars

Next == AdvanceInterval \/ CompleteScan \/ Stopped

Spec == Init /\ [][Next]_vars

----------------------------------------------------------------------------
(* Properties.                                                             *)

\* The surface in effect at an instant, from the events of the scenario.
SurfaceAt(t) ==
    LET before == {i \in 1..Len(log) : log[i].at <= t}
    IN  IF before = {} THEN Flat ELSE log[Max(before)].surface

\* No sample sees a void on a place that the surface it sees has covered, or
\* while the heap is being collected (synchronize_voids).
VoidsAreUncovered(s) ==
    \A v \in {d \in s.distortions : d.kind = "void"} :
        /\ ~Covered(v, s.surface)
        /\ \E i \in 0..Len(log) :
             /\ i = 0 \/ (log[i].at <= s.at /\ log[i].phase = "filling")
             /\ \A j \in (i + 1)..Len(log) : log[j].at > s.at

\* Every sample saw the surface of its own instant, the distortions of its own
\* instant and the dropouts of its own instant, all of them and no other, and
\* no event that came or was cut short later changes that: the histories were
\* long enough, and reached far enough, at every scan (runtime/generation.rs,
\* snapshots.rs, spatial.rs, SensorDropoutScheduler).
ScansSeeTheirInstant ==
    /\ {s.at : s \in seen} = {t \in 0..(Captured(scan_id) - 1) : t % SampleTicks = 0}
    /\ \A s \in seen :
         /\ s.surface = SurfaceAt(s.at)
         /\ s.distortions = {Known(e) : e \in ActiveAt(happened, s.at)}
         /\ s.dropped = (\E o \in outages : o.from <= s.at /\ s.at < o.to)
         /\ VoidsAreUncovered(s)

\* Rates that the configuration accepts, whole numbers of samples per
\* rotation or not, do not make the generation of scans end by itself
\* (validated_rate_ratios; tests/configuration.rs).
GenerationGoesOn == failure = "none"
=============================================================================
