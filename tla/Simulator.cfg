\* The simulator under every fault schedule, completed with any command.
SPECIFICATION SimSpec
CONSTANTS
    home = home
    x = x
    EventIDs <- MCEventIDs
    Devices = {home}
    NoValue = NoValue
    Nil = Nil
    PaddedID = PaddedID
    Interval = 2
    DeviceID = home
    SimStart = 4
    IntervalsPerDay = 2
    Days = 2
    Profiles <- MCProfiles
    StartingSOC = 50
    Schedules <- MCSchedules
    Commands <- MCCommands
    MaxSteps = 5
INVARIANTS
    SimTypeOK
    OneIntervalPerStep
    DeliveredAsScheduled
CHECK_DEADLOCK FALSE
