\* The agent as -pace real runs it, unbounded, with outages and late ticks.
SPECIFICATION Spec
CONSTANTS
    a = a
    b = b
    c = c
    home = home
    other = other
    EventIDs = {a, b, c}
    Devices = {home, other}
    NoValue = NoValue
    Nil = Nil
    Interval = 2
    DeviceID = home
    Envelopes <- Deliveries
    Pace = "real"
    MaxIntervals = 0
    StartTime = 1
    MaxDelay = 1
    MaxTime = 8
INVARIANTS
    TypeOK
    MemoryMatchesDatabase
    LatestIsNewest
    CommandsTraceable
    AppliedOnceAndRecorded
    RecordMatchesDatabase
    ObservationNeverEndsRun
PROPERTIES
    DurableRecordsKept
    TransitionMarksStatusChange
