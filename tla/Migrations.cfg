\* Every kind of database, migrated, failed, killed and migrated again.
SPECIFICATION MigSpec
CONSTANTS
    a = a
    b = b
    c = c
    home = home
    EventIDs = {a, b, c}
    Devices = {home}
    NoValue = NoValue
    Nil = Nil
    Interval = 2
    Databases <- MCDatabases
    Results <- MCResults
INVARIANTS
    ForeignUntouched
    SchemaMatchesHistory
    UpgradeKeepsData
    UpgradedTablesConsistent
PROPERTIES
    MigrateIsIdempotent
