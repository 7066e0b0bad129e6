\* Documented: only a valid, newer event restores health.
SPECIFICATION FairSpec
CONSTANTS
    a = a
    b = b
    c = c
    home = home
    other = other
    EventIDs = {a, b, c}
    Devices = {home, other}
    NoValue = NoValue
    Nil = Nil
    Interval = 2
    DeviceID = home
    Envelopes <- Deliveries
    Pace = "real"
    MaxIntervals = 0
    StartTime = 1
    MaxDelay = 1
    MaxTime = 8
PROPERTIES
    OnlyNewerRestores
