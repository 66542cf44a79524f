--------------------------- MODULE EdgeValidation ---------------------------
(***************************************************************************)
(* The edge validation run: the recorder that the run loop feeds with      *)
(* every batch (runtime/edge_validation.rs), the exit that ends it, and    *)
(* the report file.                                                        *)
(*                                                                         *)
(* Time is counted in ticks from the epoch of the generation.  Rotation n  *)
(* completes at n * period for both sensors; the first rotation of a       *)
(* sensor gives no frame, because a frame needs the scan rate and that     *)
(* needs a previous completion (measurement/frame.rs).                     *)
(*                                                                         *)
(* A name that Application has as well is lengthened here, so that a       *)
(* module can extend both.                                                 *)
(***************************************************************************)
EXTENDS Naturals, Sequences, FiniteSets, SequencesExt, FiniteSetsExt

CONSTANTS
    Warmups, Measurements,  \* durations, in ticks: multiples of Second
    Periods,                \* rotation periods, in ticks
    Capacities,             \* sample capacities an operator may ask for
    Second,                 \* ticks between two semantic samples
    TransitionCapacity,     \* MAX_SCENARIO_TRANSITIONS
    MaxTransitions          \* bound of the model on phase changes

ASSUME DurationsAreSeconds ==
    /\ Second \in Nat \ {0}
    /\ Warmups \cup Measurements \cup Periods \subseteq Nat \ {0}
    /\ \A d \in Warmups \cup Measurements : d % Second = 0
    /\ Capacities \subseteq Nat /\ TransitionCapacity \in Nat /\ MaxTransitions \in Nat

LaserSensors == {1, 2}
None == 0

VARIABLES
    settings,    \* warmup, measurement, period and capacity of this run
    stage,       \* where the run is
    error,       \* why the recorder refused, or "none"
    rotation,    \* number of the last batch that was received
    happened,    \* the phase changes of the scenario so far
    recorder,    \* EdgeValidationRecorder
    output,      \* what is at the output path
    temporary    \* what is at the temporary path

validationVars == <<settings, stage, error, rotation, happened, recorder, output, temporary>>
recording == <<settings, rotation, happened, recorder>>
files == <<output, temporary>>

Start == settings.warmup
End == settings.warmup + settings.measurement

(***************************************************************************)
(* Before the run                                                          *)
(***************************************************************************)

\* expected_sample_count: rotations in the window, its start open and its end closed.
ExpectedSamples(s) ==
    (s.warmup + s.measurement) \div s.period - s.warmup \div s.period

\* The state of the scenario as the recorder knows it: the first, and the one that may follow.
FirstPhase == [cycle |-> 0, phase |-> "filling"]
NextPhase(p) ==
    IF p.phase = "filling" THEN [p EXCEPT !.phase = "collecting"]
                           ELSE [cycle |-> p.cycle + 1, phase |-> "filling"]

NewRecorder(s) ==
    [ expected    |-> ExpectedSamples(s),
      observed    |-> 0,
      lastBatch   |-> None,
      state       |-> FirstPhase,
      transitions |-> <<>>,
      samples     |-> [i \in LaserSensors |-> <<>>],
      batches     |-> <<>>,
      nextSemantic |-> s.warmup + Second,
      sampled     |-> 0,
      reachedEnd  |-> FALSE ]

\* EdgeValidationSettings::new and EdgeValidationRecorder::new: the run begins only when the
\* output is absent and the window fits into the samples asked for.
ValidationInit ==
    /\ settings \in [warmup: Warmups, measurement: Measurements,
                     period: Periods, capacity: Capacities]
    /\ ExpectedSamples(settings) <= settings.capacity
    /\ recorder = NewRecorder(settings)
    /\ stage = "running" /\ error = "none"
    /\ rotation = 0 /\ happened = <<>>
    /\ output = "absent" /\ temporary = "absent"

(***************************************************************************)
(* One batch                                                               *)
(***************************************************************************)

\* Seeded fault: the window closed at its start.
MeasuresClosed(deadline) == deadline >= Start /\ deadline <= End

Measures(deadline) == deadline > Start /\ deadline <= End

\* The frames the factory makes of rotation n, as the timings the run loop collects.
Frames(n) ==
    IF n = 1 THEN <<>>
    ELSE <<[sensor |-> 1, sequence |-> n - 1], [sensor |-> 2, sequence |-> n - 1]>>

\* record_scan_semantics: at most one sample for a batch, and the next one a second later
\* than this one was due.
WithSemantics(r, deadline) ==
    IF Measures(deadline) /\ deadline >= r.nextSemantic
    THEN [r EXCEPT !.nextSemantic = @ + Second, !.sampled = @ + 1]
    ELSE r

\* validated_batch: both sensors, each once, or no frame at all.  ClockBeforeDeadline is left
\* out: a batch is made once its deadline has passed on the clock that stamps its frames.
BatchError(frames) ==
    IF frames = <<>> THEN "none"
    ELSE LET seen == {frames[i].sensor : i \in DOMAIN frames} IN
         IF Len(frames) # Cardinality(seen) THEN "duplicate sensor"
         ELSE IF seen # LaserSensors THEN "missing sensor"
         ELSE "none"

\* validate_sequences: the first sample of a sensor may have any sequence.
SequencesContinue(r, frames) ==
    \A i \in DOMAIN frames :
        LET kept == r.samples[frames[i].sensor]
        IN kept # <<>> => frames[i].sequence = Last(kept) + 1

\* record_scenario_transition: a phase change lies between the deadlines of two published
\* batches and follows from the phase before it.
TransitionError(r, change, after) ==
    IF Len(r.transitions) >= TransitionCapacity THEN "transition overflow"
    ELSE IF \/ change.at > End
            \/ r.transitions # <<>> /\ change.at <= Last(r.transitions).at
         THEN "transition order"
    ELSE IF r.lastBatch = None \/ after = None THEN "transition without batch"
    ELSE IF r.lastBatch >= change.at \/ after < change.at THEN "transition not bracketed"
    ELSE IF change.to # NextPhase(r.state) THEN "transition not contiguous"
    ELSE "none"

\* The recorder after it accepted the first k changes of a batch.
Told(r, changes, k) ==
    [r EXCEPT !.transitions = @ \o SubSeq(changes, 1, k),
              !.state = IF k = 0 THEN @ ELSE changes[k].to]

\* record_scenario: the window in elapsed time, each change up to the first that is refused,
\* and how far the run was seen.
RecordScenario(r, deadline, after, changes) ==
    LET Error(k) == TransitionError(Told(r, changes, k - 1), changes[k], after)
        refused == {k \in DOMAIN changes : Error(k) # "none"}
    IN IF deadline < r.observed \/ deadline > End
       THEN [recorder |-> r, error |-> "outside window"]
       ELSE IF refused # {}
       THEN [recorder |-> Told(r, changes, Min(refused) - 1), error |-> Error(Min(refused))]
       ELSE [recorder |-> [Told(r, changes, Len(changes)) EXCEPT
                             !.observed = deadline,
                             !.lastBatch = IF after = None THEN @ ELSE after],
             error |-> "none"]

RecordSamples(result, deadline, frames) ==
    IF ~Measures(deadline) THEN result
    ELSE IF frames = <<>> THEN [result EXCEPT !.error = "missing sensor"]
    ELSE IF Len(result.recorder.batches) >= settings.capacity
         THEN [result EXCEPT !.error = "sample overflow"]
    ELSE IF ~SequencesContinue(result.recorder, frames)
         THEN [result EXCEPT !.error = "sequence gap"]
    ELSE [result EXCEPT
            !.recorder.batches = Append(@, deadline),
            !.recorder.samples = [i \in LaserSensors |->
                Append(@[i], (CHOOSE f \in ToSet(frames) : f.sensor = i).sequence)]]

\* record_batch.  A batch past the end only ends the run: neither its frames nor its phase
\* changes are looked at.
RecordBatch(r, deadline, frames, changes) ==
    IF deadline > End THEN [recorder |-> [r EXCEPT !.reachedEnd = TRUE], error |-> "none"]
    ELSE IF BatchError(frames) # "none" THEN [recorder |-> r, error |-> BatchError(frames)]
    ELSE LET after == IF frames = <<>> THEN None ELSE deadline
             seen == RecordScenario(r, deadline, after, changes)
         IN IF seen.error # "none" THEN seen ELSE RecordSamples(seen, deadline, frames)

\* The phase changes of the scenario between two completions, at any instants in order: the
\* scenario collects after it filled, and fills again in the next cycle.
Phase(k) == [cycle |-> k \div 2, phase |-> IF k % 2 = 0 THEN "filling" ELSE "collecting"]
Instants(from, to, most) ==
    {at \in UNION {[1 .. k -> from + 1 .. to] : k \in 0 .. most} :
        \A i, j \in DOMAIN at : i < j => at[i] < at[j]}
Changes(at) ==
    [i \in DOMAIN at |-> [at |-> at[i], to |-> Phase(Len(happened) + i)]]

\* The run loop takes a batch: the semantics of a measured one, its frames, its record.
ReceiveBatch ==
    /\ stage = "running"
    /\ \E at \in Instants(rotation * settings.period, (rotation + 1) * settings.period,
                         MaxTransitions - Len(happened)) :
           LET n == rotation + 1
               deadline == n * settings.period
               changes == Changes(at)
               result == RecordBatch(WithSemantics(recorder, deadline),
                                     deadline, Frames(n), changes)
           IN /\ rotation' = n
              /\ happened' = happened \o changes
              /\ recorder' = result.recorder
              /\ error' = result.error
              /\ stage' = IF result.error # "none" THEN "failed"
                          ELSE IF result.recorder.reachedEnd THEN "complete" ELSE "running"
    /\ UNCHANGED <<settings, files>>

\* A signal ends the run before its window does.
Interrupt ==
    /\ stage = "running"
    /\ stage' = "failed" /\ error' = "interrupted"
    /\ UNCHANGED <<recording, files>>

(***************************************************************************)
(* The report                                                              *)
(***************************************************************************)

\* Seeded fault: without the comparison of the observed time and the window's end.
FinishUnobserved(r) ==
    IF ~r.reachedEnd \/ r.batches = <<>> THEN "incomplete"
    ELSE IF Len(r.batches) # r.expected THEN "missing samples"
    ELSE "none"

FinishError(r) ==
    IF \/ ~r.reachedEnd \/ r.batches = <<>> \/ r.observed # End
       \/ \E i \in LaserSensors : Len(r.samples[i]) # Len(r.batches)
    THEN "incomplete"
    ELSE IF Len(r.batches) # r.expected THEN "missing samples"
    ELSE "none"

\* finish(), after everything was closed.
Finish ==
    /\ stage = "complete"
    /\ error' = FinishError(recorder)
    /\ stage' = IF FinishError(recorder) = "none" THEN "reported" ELSE "failed"
    /\ UNCHANGED <<recording, files>>

\* write_edge_validation_report_atomic: one step for each call.  The path is looked at again
\* first, because an hour has passed since the settings were made.
CreateTemporary ==
    /\ stage = "reported"
    /\ IF output # "absent"
       THEN stage' = "failed" /\ error' = "output exists" /\ UNCHANGED temporary
       ELSE stage' = "writing" /\ temporary' = "partial" /\ UNCHANGED error
    /\ UNCHANGED <<recording, output>>

WriteReport ==
    /\ stage = "writing"
    /\ stage' = "linking" /\ temporary' = "report"
    /\ UNCHANGED <<recording, error, output>>

\* Seeded fault: a rename.
LinkReplacing ==
    /\ stage = "linking"
    /\ stage' = "linked" /\ output' = temporary
    /\ UNCHANGED <<recording, error, temporary>>

\* A hard link refuses a path that exists; a rename would replace it.
LinkReport ==
    /\ stage = "linking"
    /\ IF output = "absent"
       THEN stage' = "linked" /\ output' = temporary /\ UNCHANGED <<error, temporary>>
       ELSE stage' = "failed" /\ error' = "output exists" /\ temporary' = "absent"
            /\ UNCHANGED output
    /\ UNCHANGED recording

RemoveTemporary ==
    /\ stage = "linked"
    /\ stage' = "done" /\ temporary' = "absent"
    /\ UNCHANGED <<recording, error, output>>

\* Any of these calls may fail; the temporary file is then removed if that works.
ReportFails ==
    /\ stage \in {"reported", "writing", "linking", "linked"}
    /\ stage' = "failed" /\ error' = "io"
    /\ temporary' \in {"absent", temporary}
    /\ UNCHANGED <<recording, output>>

\* The process is killed.
Kill ==
    /\ stage \notin {"failed", "done", "killed"}
    /\ stage' = "killed"
    /\ UNCHANGED <<recording, error, files>>

\* Someone else puts a file at the output path.
ForeignFile ==
    /\ output = "absent" /\ stage \notin {"failed", "done", "killed"}
    /\ output' = "foreign"
    /\ UNCHANGED <<recording, stage, error, temporary>>

ValidationNext ==
    \/ ReceiveBatch \/ Interrupt \/ Finish
    \/ CreateTemporary \/ WriteReport \/ LinkReport \/ RemoveTemporary \/ ReportFails
    \/ Kill \/ ForeignFile

ValidationSpec == ValidationInit /\ [][ValidationNext]_validationVars

(***************************************************************************)
(* Properties                                                              *)
(***************************************************************************)

\* Rotations, and phase changes, of the window as the program was meant to see them.
RotationsInWindow == {n \in 1 .. rotation : Measures(n * settings.period)}
ChangesInWindow == {i \in DOMAIN happened : happened[i].at <= End}

\* s lists the numbers of S in order, each once.
Lists(s, S) ==
    /\ {s[i] : i \in DOMAIN s} = S
    /\ \A i, j \in DOMAIN s : i < j => s[i] < s[j]

\* A report is about the whole run: each rotation of the window is a sample of both sensors,
\* in order and once, every phase change up to its end is told, and the semantics were sampled
\* once for each second of it whenever a rotation takes no longer than a second.
ReportIsComplete ==
    stage \in {"reported", "writing", "linking", "linked", "done"} =>
        /\ Lists(recorder.batches, {n * settings.period : n \in RotationsInWindow})
        /\ \A i \in LaserSensors : Lists(recorder.samples[i], {n - 1 : n \in RotationsInWindow})
        /\ recorder.transitions = [i \in ChangesInWindow |-> happened[i]]
        /\ settings.period <= Second => recorder.sampled = settings.measurement \div Second

\* An hour of undisturbed measuring is thrown away only for the reasons the settings or the
\* scenario give: a first rotation that lasts into the window, a window that does not end with
\* a rotation, a phase change within the first two rotations, or more changes than can be
\* kept.
NoFalseAlarm ==
    error \notin {"none", "interrupted", "io", "output exists"} =>
        \/ settings.period > Start
        \/ End % settings.period # 0
        \/ \E i \in DOMAIN happened : happened[i].at <= 2 * settings.period
        \/ \E i \in ChangesInWindow : i > TransitionCapacity

\* What is at the output path is a whole report or somebody else's file, and no step replaces
\* one file by another there.
OutputIsWholeAndNeverReplaced ==
    [][output' # output => output = "absent" /\ output' \in {"report", "foreign"}]_validationVars
=============================================================================
