----------------------------- MODULE Distortions -----------------------------
(***************************************************************************)
(* What disturbs a measurement over time: falling material, voids and      *)
(* collection vehicles, which both sensors see (the timeline and resolver  *)
(* of src/src/measurement/spatial.rs), and the dropouts of one sensor (the *)
(* scheduler of src/src/measurement/generation.rs).                        *)
(*                                                                         *)
(* An event is its kind, its place and the time it is there: it counts for *)
(* a sample at t when from <= t < to.  Whether a beam hits it is geometry  *)
(* and left out; places matter for voids only.  All that is drawn at       *)
(* random is a choice.                                                     *)
(***************************************************************************)
EXTENDS Scenario

CONSTANTS
    Enabled,              \* the distortions that are configured
    Gaps,                 \* times to the next candidate or vehicle, as drawn
    Lifetimes,            \* durations of falling material, voids, vehicles
    CoverHeight,          \* cover_height_increase_m of a void
    VoidsWanted,          \* how many voids make up surface_area_ratio
    AdvanceLimit,         \* MAX_EVENTS_PER_ADVANCE
    RetainedLimit,        \* MAX_RETAINED_SPATIAL_EVENTS
    DropoutGaps, DropoutDurations,
    DropoutLimit          \* MAX_DROPOUT_EVENTS_PER_BATCH

\* validate_falling_settings, validate_void_settings and
\* validate_collection_settings: what is drawn is positive, the height that
\* covers a void may be zero.
ValidSettings ==
    /\ (Gaps \union Lifetimes) \subseteq Nat \ {0}
    /\ CoverHeight \in Nat /\ VoidsWanted \in Nat

ASSUME DistortionsAssumption ==
    /\ Enabled \subseteq {"falling", "void", "collection"}
    /\ ValidSettings
    /\ (DropoutGaps \union DropoutDurations) \subseteq Nat \ {0}
    /\ AdvanceLimit \in Nat /\ RetainedLimit \in Nat /\ DropoutLimit \in Nat

VARIABLES
    events,      \* falling, voids and collection of the resolver
    advanced,    \* advanced_to_s
    retained,    \* retained_from_s
    observed,    \* falling_phase, collection_phase: start of the phase
    candidate,   \* next_falling_candidate_at_s, next_collection_event_at_s
    happened,    \* history: every event, the discarded ones included
    dropout,     \* the dropout scheduler of the sensor
    outages      \* history: every dropout

timeline == <<events, advanced, retained, observed, candidate, happened>>
dropouts == <<dropout, outages>>

None == -1
Moving == {"falling", "collection"}
MovingKind == IF phase = "filling" THEN "falling" ELSE "collection"

NoDistortion ==
    /\ events = {} /\ happened = {}
    /\ advanced = 0 /\ retained = 0
    /\ observed = [k \in Moving |-> None]
    /\ candidate = [k \in Moving |-> None]
    /\ dropout \in [start : DropoutGaps, end : {None}, last : {None}]
    /\ outages = {}

ActiveAt(E, t) == {e \in E : e.from <= t /\ t < e.to}

----------------------------------------------------------------------------
(* The timeline.                                                           *)

\* advance_exponential and advance_uniform: the next time after one.
NextTimes(t) == {t + g : g \in Gaps}

\* Where the candidates of the phase begin: a new phase has to be observed
\* from its start, and draws the first gap from there.
Beginnings(k) ==
    IF observed[k] = plan.started THEN {candidate[k]} ELSE NextTimes(plan.started)

\* The candidates before through, and the first one that is left.
Candidates(next, through) ==
    IF next >= through THEN {[at |-> {}, next |-> next]}
    ELSE {r \in [at : SUBSET (next..(through - 1)),
                 next : through..(through + Max(Gaps))] :
            /\ next \in r.at
            /\ \A t \in r.at :
                 Min({u \in r.at \union {r.next} : u > t}) \in NextTimes(t)}

\* Of the candidates some become events; none outlives the phase.
Moved(k, candidates) ==
    UNION {{{[kind |-> k, place |-> None, height |-> 0, from |-> t,
              to |-> Min({PhaseEnd, t + life[t]})] : t \in kept} :
              life \in [kept -> Lifetimes]} : kept \in SUBSET candidates}

\* Has a surface risen over a void?
Covered(e, s) ==
    LET rise == s[e.place] - e.height IN rise > 0 /\ rise >= CoverHeight

\* synchronize_voids: collection uncovers the heap, and pouring covers a void.
Closed(e, at) ==
    IF /\ e.kind = "void" /\ e.from <= at /\ at < e.to
       /\ phase = "collecting" \/ Covered(e, surface)
    THEN [e EXCEPT !.to = at] ELSE e

\* sample_void_event: a void on ground that is not bare, for the phase at most.
PossibleVoids(from, through) ==
    {[kind |-> "void", place |-> c, height |-> surface[c], from |-> t,
      to |-> Min({PhaseEnd, t + life})] :
        c \in {d \in Columns : surface[d] > 0}, t \in from..(through - 1), life \in Lifetimes}

\* maintain_void_coverage and fill_void_coverage: voids are opened at the start
\* of the interval and whenever one expires, apart from each other, until their
\* area is enough or no place is found.
VoidCovers(open, from, through) ==
    {new \in SUBSET PossibleVoids(from, through) :
       \A v \in new :
         LET others == ActiveAt(open \union new, v.from) \ {v} IN
         /\ v.from = from \/ \E o \in open \union new : o.to = v.from
         /\ Cardinality(others) < VoidsWanted
         /\ \A o \in others : o.place # v.place}

\* What generate_falling or generate_collection adds to an interval: the
\* events, out of a number of candidates, and the candidate that is left for
\* the next.
Generated(through) ==
    LET k == MovingKind IN
    IF k \notin Enabled THEN {[new |-> {}, tried |-> 0, next |-> candidate[k]]}
    ELSE UNION {{[new |-> m, tried |-> Cardinality(r.at), next |-> r.next] :
                    m \in Moved(k, r.at)} :
                  r \in UNION {Candidates(b, through) : b \in Beginnings(k)}}

\* advance_to refuses an interval that does not continue the history, leaves
\* the phase, or begins a phase in the middle.
IntervalFits(from, through) ==
    /\ from = advanced
    /\ plan.started <= from /\ through <= PhaseEnd
    /\ MovingKind \in Enabled =>
         observed[MovingKind] = plan.started \/ advanced = plan.started

\* advance_with_events: new events start in the interval, and the resolver has
\* then advanced to its end.
Record(old, new, through) ==
    /\ \A e \in new : advanced <= e.from /\ e.from < through
    /\ events' = old \union new
    /\ advanced' = through

Synchronized(from) == {Closed(e, from) : e \in events}

\* The voids that may be opened in an interval.
Covers(from, through) ==
    IF phase = "filling" /\ "void" \in Enabled
    THEN VoidCovers({e \in ActiveAt(Synchronized(from), from) : e.kind = "void"}, from, through)
    ELSE {{}}

\* More than one interval may bring, by the counts of generate_falling,
\* generate_collection, fill_void_coverage and reserve_spatial_event.
TooMany(cover, g) ==
    g.tried > AdvanceLimit \/ Cardinality(cover \union g.new) > AdvanceLimit

MayOverrun(from, through) ==
    \E cover \in Covers(from, through), g \in Generated(through) : TooMany(cover, g)

\* advance_to, for an interval in which surface, phase and inlet are constant.
AdvanceTimeline(from, through) ==
    \E cover \in Covers(from, through), g \in Generated(through) :
         /\ ~TooMany(cover, g)
         /\ Record(Synchronized(from), cover \union g.new, through)
         /\ happened' = {Closed(e, from) : e \in happened} \union cover \union g.new
         /\ observed' = [observed EXCEPT ![MovingKind] =
                           IF MovingKind \in Enabled THEN plan.started ELSE @]
         /\ candidate' = [candidate EXCEPT ![MovingKind] = g.next]
         /\ UNCHANGED retained

\* resolve_distances: the history has to cover the scan.
ScanCovered(first, completed) == completed <= advanced /\ retained <= first

\* Seeded fault: an event is dropped as soon as it began before that.
KeptByStart(t) == {e \in events : e.from >= t}

\* discard_before, within the history only: an event stays until it is over.
Kept(t) == {e \in events : e.to > t}

MayDiscard(t) == retained <= t /\ t <= advanced

DiscardTimeline(t) ==
    /\ events' = Kept(t)
    /\ retained' = t
    /\ UNCHANGED <<advanced, observed, candidate, happened>>

----------------------------------------------------------------------------
(* Dropouts.                                                               *)

\* The dropouts that begin by a time, and where the scheduler stands then: in
\* a dropout that goes on, or before the next, whose end is not yet drawn.
Outages(through) ==
    LET Ends(s) == IF s = dropout.start /\ dropout.end # None
                   THEN {dropout.end} ELSE {s + d : d \in DropoutDurations}
        From[s \in Nat] ==
          IF s > through THEN {[new |-> {}, start |-> s, end |-> None]}
          ELSE UNION {IF e > through
                      THEN {[new |-> {[from |-> s, to |-> e]}, start |-> s, end |-> e]}
                      ELSE {[r EXCEPT !.new = @ \union {[from |-> s, to |-> e]}] :
                              r \in UNION {From[e + g] : g \in DropoutGaps}} :
                        e \in Ends(s)}
    IN From[dropout.start]

\* active_mask refuses points that do not come after those of the last scan.
PointsFollow(first) == dropout.last < first

\* active_mask: more dropouts than one scan may meet.
TooManyOutages(new) == Cardinality(new) > DropoutLimit

\* active_mask: the points of a scan that fall into a dropout.
Masked(new, points) == {t \in points : \E o \in new : o.from <= t /\ t < o.to}
=============================================================================
