\* Documented: processing continues whatever the disposition.
SPECIFICATION Spec
CONSTANTS
    a = a
    b = b
    c = c
    home = home
    other = other
    EventIDs = {a, b, c}
    Devices = {home, other}
    NoValue = NoValue
    Nil = Nil
    Interval = 2
    DeviceID = home
    Envelopes <- SeamDeliveries
    Pace = "real"
    MaxIntervals = 0
    StartTime = 1
    MaxDelay = 1
    MaxTime = 5
INVARIANTS
    ObservationNeverEndsRun
