\* CommitProcessing statement by statement, against the repository's contract.
SPECIFICATION Spec
CONSTANTS
    a = a
    b = b
    c = c
    home = home
    EventIDs = {a, b, c}
    Devices = {home}
    NoValue = NoValue
    Nil = Nil
    Interval = 2
    Results <- MCResults
INVARIANTS
    TypeOK
    TablesConsistent
PROPERTIES
    AtomicSpec
