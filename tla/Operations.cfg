\* One process with ops server and tracer, probed and scraped.
SPECIFICATION OpsSpec
CONSTANTS
    Interval = 1
    Records <- MCRecords
    HasServer = TRUE
    HasTracer = TRUE
    MaxIntervals = 2
    MaxWall = 4
    Nil = Nil
INVARIANTS
    ReportsAgree
    AnswersJustified
    ActiveWasActive
    NothingLeftOpen
PROPERTIES
    ShutdownCompletes
CHECK_DEADLOCK FALSE
