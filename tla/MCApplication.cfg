SPECIFICATION Spec
CONSTANTS
    SampleLimit = 2
    ObservationInterval = 2
    Window = 2
    MaxBatch = 4
INVARIANTS
    NothingLeftOpen
    SnapshotIsThere
    ResultNamesTheCause
PROPERTY SignalEnds
CHECK_DEADLOCK FALSE
