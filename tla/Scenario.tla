------------------------------ MODULE Scenario ------------------------------
(***************************************************************************)
(* The scenario simulator (src/src/scenario/simulator.rs): the heap is     *)
(* filled to a drawn threshold, collected, and filled again.               *)
(*                                                                         *)
(* The surface changes at two kinds of instants only: the multiples of the *)
(* update interval and the ends of the phases.  The generation asks for    *)
(* the next of them and never lets one call of advance_to go past it       *)
(* (src/src/runtime/generation.rs, advance_scenario_and_distortions), so   *)
(* that the loop of advance_inner meets at most one event.  AdvanceTo is   *)
(* such a call.                                                            *)
(*                                                                         *)
(* Times are whole ticks and volumes whole units, both exact: the          *)
(* tolerances of the code, there for rounding, are zero here.  What the    *)
(* generators of random numbers draw is a choice.                          *)
(***************************************************************************)
EXTENDS Integers, Sequences, HeightField

CONSTANTS
    Interval,              \* surface_update_interval_s
    FillDurations, CollectionDurations,   \* the durations drawn
    Targets,               \* the threshold volumes drawn
    RateLimit,             \* the largest volume due in one tick
    Activation,            \* the volume from which inlets are compared
    SwitchDifference       \* inlet_switch_height_difference_m

\* validate_scenario_config: ranges are finite, ordered and positive.
PositiveRanges ==
    /\ Interval \in Nat \ {0}
    /\ FillDurations \subseteq Nat \ {0} /\ CollectionDurations \subseteq Nat \ {0}
    /\ SwitchDifference \in Nat /\ Activation \in Nat

\* No threshold is above the capacity, and every rate range includes the
\* average rate, so that each plan can be drawn.
PossiblePlans ==
    /\ Targets \subseteq 1..Capacity
    /\ \A d \in FillDurations : \A v \in Targets : v <= d * RateLimit
    /\ \A d \in CollectionDurations : \A v \in Targets : v <= d * RateLimit

ASSUME ScenarioAssumption == PositiveRanges /\ PossiblePlans

VARIABLES
    elapsed,     \* elapsed_s
    updated,     \* surface_updated_at_s
    index,       \* next_update_index
    cycle,       \* cycle_index
    phase,       \* "filling" or "collecting"
    inlet,       \* current_inlet_index
    plan,        \* fill_plan or collection_plan
    surface,     \* the height field
    log,         \* history: the events that were handed out
    ends         \* history: the end of every phase that was planned

scenario == <<elapsed, updated, index, cycle, phase, inlet, plan, surface, log, ends>>

Inlets == 1..Cardinality(Columns)
At(i) == CHOOSE c \in Columns : Cardinality({d \in Columns : d <= c}) = i

\* SmoothRateProfile::new: deviations are balanced, all is due at the end.
Balanced(p, duration, volume) == p[0] = 0 /\ p[duration] = volume

\* create_smooth_rate_profile, as the volume due within a number of ticks from
\* the start: the rate is bounded.
Profiles(duration, volume) ==
    {p \in [0..duration -> 0..volume] :
        /\ Balanced(p, duration, volume)
        /\ \A i \in 1..duration : p[i] - p[i - 1] \in 0..RateLimit}

\* FillPlan and CollectionPlan; total is the volume to pour or to remove.
Plans(start, durations, volumes) ==
    UNION {{[started |-> start, duration |-> d, total |-> v, profile |-> p] :
              p \in Profiles(d, v)} : d \in durations, v \in volumes}

PhaseEnd == plan.started + plan.duration
NextUpdate == Interval * index
NextEvent == Min({NextUpdate, PhaseEnd})

\* Seeded fault: the integral starts where the last call ended.
DueSinceLastCall(through) ==
    plan.profile[through - plan.started] - plan.profile[elapsed - plan.started]

\* The integral of the rate since the surface was last updated.
Due(through) ==
    plan.profile[through - plan.started] - plan.profile[updated - plan.started]

\* apply_phase_change: the surfaces that an update at this instant may lead
\* to.  At the end of a phase the exact remainder is poured or removed.
ChangedSurfaces(through) ==
    IF phase = "filling"
    THEN LET missing == IF plan.total > VolumeOf(surface)
                        THEN plan.total - VolumeOf(surface) ELSE 0
             request == IF through = PhaseEnd THEN missing ELSE Due(through)
         IN  UNION {UNION {Relaxed(g) : g \in Roughened(f)} :
                      f \in Poured(surface, request, At(inlet))}
    ELSE LET request == IF through = PhaseEnd THEN VolumeOf(surface)
                        ELSE Min({VolumeOf(surface), Due(through)})
         IN  UNION {Relaxed(g) : g \in Lowered(surface, request)}

\* switch_inlet_if_needed: to the first of the lowest, if it is low enough.
InletAfter(h) ==
    LET lowest == CHOOSE i \in Inlets :
                    \A j \in Inlets :
                      /\ MeanHeightNear(h, At(i)) <= MeanHeightNear(h, At(j))
                      /\ MeanHeightNear(h, At(i)) = MeanHeightNear(h, At(j)) => i <= j
        gap == MeanHeightNear(h, At(inlet)) - MeanHeightNear(h, At(lowest))
    IN  IF VolumeOf(h) >= Activation /\ gap > 0 /\ gap >= SwitchDifference
        THEN lowest ELSE inlet

\* new: the first filling.
ScenarioStart ==
    /\ elapsed = 0 /\ updated = 0 /\ index = 1 /\ cycle = 0
    /\ phase = "filling" /\ inlet = 1 /\ surface = Flat
    /\ plan \in Plans(0, FillDurations, Targets)
    /\ log = <<>> /\ ends = {plan.duration}

\* transition_phase: the phase after this one.  The code ends the simulation
\* when a phase did not reach its volume; here the step is then not possible,
\* which the runs would show as a deadlock.
TransitionPhase(at, h) ==
    IF phase = "filling"
    THEN /\ phase' = "collecting"
         /\ plan' \in Plans(at, CollectionDurations, {VolumeOf(h)})
         /\ UNCHANGED <<cycle, inlet>>
    ELSE /\ phase' = "filling"
         /\ cycle' = cycle + 1
         /\ inlet' = 1
         /\ plan' \in Plans(at, FillDurations, Targets)

PhaseReached(h) == VolumeOf(h) = (IF phase = "filling" THEN plan.total ELSE 0)

Logged(at) ==
    log' = Append(log, [at |-> at, update |-> at = NextUpdate,
                        transition |-> at = PhaseEnd, phase |-> phase',
                        surface |-> surface'])

\* Seeded fault: an update that falls on the end of a phase is not counted.
EventUncounted(at) ==
    /\ at = NextEvent
    /\ surface' \in ChangedSurfaces(at)
    /\ updated' = at
    /\ index' = IF at # PhaseEnd THEN index + 1 ELSE index
    /\ IF at = PhaseEnd
       THEN PhaseReached(surface') /\ TransitionPhase(at, surface')
            /\ ends' = ends \union {at + plan'.duration}
       ELSE /\ inlet' = IF phase = "filling" THEN InletAfter(surface') ELSE inlet
            /\ UNCHANGED <<cycle, phase, plan, ends>>
    /\ Logged(at)

\* One turn of the loop of advance_inner: an update, the end of a phase, or
\* both in one event, with the transition after the change of the surface.
Event(at) ==
    /\ at = NextEvent
    /\ surface' \in ChangedSurfaces(at)
    /\ updated' = at
    /\ index' = IF at = NextUpdate THEN index + 1 ELSE index
    /\ IF at = PhaseEnd
       THEN PhaseReached(surface') /\ TransitionPhase(at, surface')
            /\ ends' = ends \union {at + plan'.duration}
       ELSE /\ inlet' = IF phase = "filling" THEN InletAfter(surface') ELSE inlet
            /\ UNCHANGED <<cycle, phase, plan, ends>>
    /\ Logged(at)

\* advance_to, up to the next event and no further.
AdvanceTo(goal) ==
    /\ elapsed <= goal /\ goal <= NextEvent
    /\ elapsed' = goal
    /\ IF goal = NextEvent
       THEN Event(goal)
       ELSE UNCHANGED <<updated, index, cycle, phase, inlet, plan, surface, log, ends>>

----------------------------------------------------------------------------
(* Properties.                                                             *)

\* However the time was cut into calls, exactly the multiples of the interval
\* and the ends of the phases have become events, each once, in order, with
\* both flags where both fall on one instant (advance_inner, next_event).
EventsAreTheSchedule ==
    /\ \A i \in 1..Len(log) : /\ log[i].update = (log[i].at % Interval = 0)
                              /\ log[i].transition = (log[i].at \in ends)
    /\ \A i \in 2..Len(log) : log[i - 1].at < log[i].at
    /\ {log[i].at : i \in 1..Len(log)} =
         {t \in 1..elapsed : t % Interval = 0 \/ t \in ends}

\* The volume is what the plan says for the last event, whatever was drawn
\* and however calls cut the time: a phase reaches its threshold, or empties
\* the heap, at the instant it was planned to (apply_phase_change).
PileFollowsPlan ==
    VolumeOf(surface) =
        IF phase = "filling" THEN plan.profile[updated - plan.started]
                             ELSE plan.total - plan.profile[updated - plan.started]
=============================================================================
