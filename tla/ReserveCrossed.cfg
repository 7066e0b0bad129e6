\* A duplicate fault that repeats, and the battery's reserve.
SPECIFICATION DemoSpec
CONSTANTS
    home = home
    x = x
    EventIDs <- MCEventIDs
    Devices = {home}
    NoValue = NoValue
    Nil = Nil
    PaddedID = PaddedID
    Interval = 2
    DeviceID = home
    Envelopes = {}
    Pace = "fast"
    MaxIntervals = 12
    StartTime = 24
    MaxDelay = 0
    MaxTime = 46
    IntervalsPerDay = 12
    Days = 1
    Profiles <- MCProfiles
    StartingSOC = 50
    Schedules <- MCSchedules
    Scenarios <- RepeatedDuplicates
INVARIANTS
    ReserveKept
CHECK_DEADLOCK FALSE
