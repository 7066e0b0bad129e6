\* One day of the demo: the shipped scenario, and every kind of fault.
SPECIFICATION DemoSpec
CONSTANTS
    home = home
    x = x
    EventIDs <- MCEventIDs
    Devices = {home}
    NoValue = NoValue
    Nil = Nil
    PaddedID = PaddedID
    Interval = 2
    DeviceID = home
    Envelopes = {}
    Pace = "fast"
    MaxIntervals = 12
    StartTime = 24
    MaxDelay = 0
    MaxTime = 46
    IntervalsPerDay = 12
    Days = 1
    Profiles <- MCProfiles
    StartingSOC = 50
    Schedules <- MCSchedules
    Scenarios <- MCScenarios
INVARIANTS
    ShippedDayMatches
    RecordsFollowFaults
    CommandsFitBattery
    ReserveKept
PROPERTIES
    DemoEnds
CHECK_DEADLOCK FALSE
