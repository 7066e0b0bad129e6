\* The command line agent with its simulator, crashed and restarted.
SPECIFICATION LoopSpec
CONSTANTS
    home = home
    EventIDs <- MCEventIDs
    Devices = {home}
    NoValue = NoValue
    Nil = Nil
    PaddedID = PaddedID
    Interval = 2
    DeviceID = home
    Envelopes <- MCEnvelopes
    Pace = "fast"
    MaxIntervals = 4
    StartTime = 4
    MaxDelay = 0
    MaxTime = 12
    IntervalsPerDay = 2
    Days = 2
    Profiles <- MCProfiles
    StartingSOC = 95
    Schedules <- NoFaults
INVARIANTS
    SimulatorNeverRefuses
    ReserveKept
    HistoryHasNoGap
    ChargeHistoryExplained
PROPERTIES
    AgentSpec
