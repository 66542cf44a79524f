SPECIFICATION Spec
CONSTANTS
    Columns = {1, 2}
    Top = 2
    Roughness = 1
    Interval = 2
    FillDurations = {4, 5}
    CollectionDurations = {3}
    Targets = {2}
    RateLimit = 1
    Activation = 1
    SwitchDifference = 1
    Enabled = {"falling", "void", "collection"}
    Gaps = {3}
    Lifetimes = {2, 4}
    CoverHeight = 1
    VoidsWanted = 1
    AdvanceLimit = 1
    RetainedLimit = 2
    DropoutGaps = {2}
    DropoutDurations = {1, 3}
    DropoutLimit = 1
    SampleTicks = 1
    RotationTicks = 3
    EventLimit = 3
    MaxTime = 9
INVARIANTS
    ScansSeeTheirInstant
    EventsAreTheSchedule
    PileFollowsPlan
