\* The agent as -pace fast -intervals 2 runs it, restarted and replayed, with a
\* source that delivers what no check of the agent excludes.
SPECIFICATION FairSpec
CONSTANTS
    a = a
    b = b
    c = c
    home = home
    other = other
    EventIDs = {a, b, c}
    Devices = {home, other}
    NoValue = NoValue
    Nil = Nil
    Interval = 2
    DeviceID = home
    Envelopes <- AnyDeliveries
    Pace = "fast"
    MaxIntervals = 2
    StartTime = 1
    MaxDelay = 0
    MaxTime = 3
INVARIANTS
    CleanStopLosesNoCommand
    AtMostOneMoreObservation
    OwnDataOnly
PROPERTIES
    CancelEndsRun
    BoundedRunEnds
