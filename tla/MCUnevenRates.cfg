SPECIFICATION Spec
CONSTANTS
    Columns = {1, 2}
    Top = 2
    Roughness = 1
    Interval = 2
    FillDurations = {5}
    CollectionDurations = {3}
    Targets = {2}
    RateLimit = 1
    Activation = 1
    SwitchDifference = 1
    Enabled = {"falling"}
    Gaps = {3}
    Lifetimes = {3}
    CoverHeight = 1
    VoidsWanted = 1
    AdvanceLimit = 2
    RetainedLimit = 4
    DropoutGaps = {2}
    DropoutDurations = {3}
    DropoutLimit = 2
    SampleTicks = 2
    RotationTicks = 3
    EventLimit = 3
    MaxTime = 12
INVARIANT GenerationGoesOn
