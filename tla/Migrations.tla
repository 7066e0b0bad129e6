----------------------------- MODULE Migrations -----------------------------
(***************************************************************************)
(* Opening and migrating a household's database (sqlite.Open, Migrate and  *)
(* migrations.go), on whatever database is found at the path: none yet,    *)
(* one of schema version 1 with data, an up-to-date one, or one that this  *)
(* program must not touch.  Migrate is one transaction; every statement    *)
(* can fail and the process can be killed between any two of them, and it  *)
(* can then be started again.  A migrated database is handed to the agent, *)
(* which stores results in it.                                             *)
(*                                                                         *)
(* A telemetry row of version 1 has no disposition (Nil), and a database   *)
(* of version 1 has no health row, as it has no table for one.             *)
(***************************************************************************)
EXTENDS Repository, Sequences

CONSTANTS
    Databases,   \* the databases that may be found at the path
    Results      \* what the agent may store in a migrated database

\* The migrations this program knows.
Migrations ==
    <<[version |-> 1, name |-> "initial durable processing schema"],
      [version |-> 2,
       name |-> "unreliable telemetry dispositions and device health"]>>

\* Of the name of any other migration, only that it is another one matters.
MigrationNames == {Migrations[i].name : i \in DOMAIN Migrations}
                  \cup {"another migration"}

MigrationRow == [version: Nat, name: MigrationNames]

\* A row of telemetry_events in either version.
StoredRow == [event: Telemetry, recv: Nat \ {0},
              disposition: {"accepted", "history_only", Nil}]

DatabaseFile ==
    [events: [EventIDs -> StoredRow \cup {Nil}],
     latest: State \cup {Nil},
     commands: [EventIDs -> CommandRow \cup {Nil}],
     health: DeviceHealth \cup {Nil},
     tables: Nat,
     history: Seq(MigrationRow)]

\* The database belongs to this program: its history is a part of ours.
Ours(db) ==
    /\ Len(db.history) <= Len(Migrations)
    /\ \A i \in DOMAIN db.history : db.history[i] = Migrations[i]

(***************************************************************************)
(* What the program, in its version n, leaves in its tables (version 0 has *)
(* none).  Version 1 stored only what it accepted, under no disposition,   *)
(* and had no health table.                                                *)
(***************************************************************************)
TablesOfVersion(db, n) ==
    /\ n \in 0 .. 2
    /\ n = 0 => db.latest = Nil
    /\ n < 2 => db.health = Nil
    /\ db.latest # Nil =>
         /\ db.events[db.latest.lastEvent] # Nil
         /\ db.latest = ApplyTelemetry(ZeroState,
                                       db.events[db.latest.lastEvent].event)
         /\ n = 2 => db.health # Nil
    /\ \A id \in EventIDs :
         /\ db.commands[id] # Nil => db.events[id] # Nil
         /\ db.events[id] # Nil =>
              /\ n # 0
              /\ db.events[id].disposition = Nil <=> n = 1
              /\ n = 2 => db.health # Nil
              /\ db.events[id].disposition # "history_only" =>
                   /\ db.latest # Nil
                   /\ db.events[id].event.time <= db.latest.updatedAt

ASSUME DatabasesAssumption ==
    /\ Databases \subseteq DatabaseFile
    /\ \A db \in Databases : Ours(db) =>
         db.tables = Len(db.history) /\ TablesOfVersion(db, db.tables)
    /\ Nil \notin DatabaseFile
    /\ Nil \notin StoredRow
    /\ Nil \notin {"accepted", "history_only"}

ASSUME ResultsAssumption ==
    /\ Results \subseteq RawResult
    /\ \A r \in Results : ResultValid(r) => AcceptedWithState(r)

VARIABLES
    tables,      \* the version of the tables themselves
    history,     \* the rows of schema_migrations, in version order
    found,       \* history: the database as the first start found it
    pc,          \* the statement Migrate is at; "closed" when not running
    index,       \* the migration the loop is at
    tx,          \* the transaction's view of the database, or Nil
    version      \* history: the tables' version when Migrate last began

migVars == <<dbVars, tables, history, found, pc, index, tx, version>>

Database == [events |-> events, latest |-> latestRow, commands |-> commands,
             health |-> healthRow, tables |-> tables, history |-> history]

MigInit ==
    /\ found \in Databases
    /\ events = found.events
    /\ latestRow = found.latest
    /\ commands = found.commands
    /\ healthRow = found.health
    /\ tables = found.tables
    /\ history = found.history
    /\ pc = "closed"
    /\ index = 0
    /\ tx = Nil
    /\ version = 0

Durable == <<dbVars, tables, history, found>>

\* Open connects; a failure leaves no repository behind.
Open ==
    /\ pc = "closed"
    /\ pc' = "open"
    /\ UNCHANGED <<Durable, index, tx, version>>

BeginMigrate ==
    /\ pc = "open"
    /\ pc' = "read"
    /\ tx' = Database
    /\ version' = tables
    /\ UNCHANGED <<Durable, index>>

\* appliedMigrations: contiguous from version 1 and none that is unknown.
HistoryReadable(rows) ==
    \A i \in DOMAIN rows : rows[i].version = i /\ i <= Len(Migrations)

\* Mutant: more rows than this program knows are passed over.
ReadHistory_IgnoresNewer ==
    /\ pc = "read"
    /\ \A i \in DOMAIN tx.history : tx.history[i].version = i
    /\ pc' = "apply"
    /\ index' = 1
    /\ UNCHANGED <<Durable, tx, version>>

ReadHistory ==
    /\ pc = "read"
    /\ HistoryReadable(tx.history)
    /\ pc' = "apply"
    /\ index' = 1
    /\ UNCHANGED <<Durable, tx, version>>

CreateSchema(db) ==
    [events |-> [id \in EventIDs |-> Nil], latest |-> Nil,
     commands |-> [id \in EventIDs |-> Nil], health |-> db.health,
     tables |-> 1, history |-> db.history]

\* Mutant: the health of existing devices is left to their next observation.
AddHealth_NoBackfill(db) ==
    [db EXCEPT !.tables = 2,
               !.events = [id \in EventIDs |->
                  IF @[id] = Nil THEN Nil
                  ELSE [@[id] EXCEPT !.disposition = "accepted"]]]

\* Mutant: the telemetry table is built anew and the old rows are not copied.
AddHealth_Rebuilds(db) ==
    [db EXCEPT !.tables = 2,
               !.events = [id \in EventIDs |-> Nil],
               !.health = IF db.latest = Nil THEN Nil
                  ELSE LET at == db.events[db.latest.lastEvent].recv
                       IN  [status |-> "online", transition |-> at,
                            contact |-> at]]

\* Every stored event counts as accepted, and the device of the latest state
\* as online since that event was received.
AddHealth(db) ==
    [events |-> [id \in EventIDs |->
        IF db.events[id] = Nil THEN Nil
        ELSE [db.events[id] EXCEPT !.disposition = "accepted"]],
     latest |-> db.latest, commands |-> db.commands,
     health |-> IF db.latest = Nil THEN Nil
                ELSE LET at == db.events[db.latest.lastEvent].recv
                     IN  [status |-> "online", transition |-> at,
                          contact |-> at],
     tables |-> 2, history |-> db.history]

\* Mutant: the statements of an applied migration are run once more.
SkipApplied_Again ==
    /\ pc = "apply"
    /\ index <= Len(Migrations)
    /\ index <= Len(tx.history)
    /\ tx.history[index] = Migrations[index]
    /\ tx' = IF index = 2 THEN AddHealth(tx) ELSE tx
    /\ index' = index + 1
    /\ UNCHANGED <<Durable, pc, version>>

\* The loop comes to a migration the database already has.
SkipApplied ==
    /\ pc = "apply"
    /\ index <= Len(Migrations)
    /\ index <= Len(tx.history)
    /\ tx.history[index] = Migrations[index]
    /\ index' = index + 1
    /\ UNCHANGED <<Durable, pc, tx, version>>

ApplyMigration ==
    /\ pc = "apply"
    /\ index <= Len(Migrations)
    /\ index > Len(tx.history)
    /\ tx.tables = index - 1
    /\ tx' = IF index = 1 THEN CreateSchema(tx) ELSE AddHealth(tx)
    /\ pc' = "record"
    /\ UNCHANGED <<Durable, index, version>>

\* Mutant: an applied migration is not recorded.
RecordMigration_Omitted ==
    /\ pc = "record"
    /\ index' = index + 1
    /\ pc' = "apply"
    /\ UNCHANGED <<Durable, tx, version>>

RecordMigration ==
    /\ pc = "record"
    /\ tx' = [tx EXCEPT !.history = Append(@, Migrations[index])]
    /\ index' = index + 1
    /\ pc' = "apply"
    /\ UNCHANGED <<Durable, version>>

CommitMigrations ==
    /\ pc = "apply"
    /\ index > Len(Migrations)
    /\ events' = tx.events
    /\ latestRow' = tx.latest
    /\ commands' = tx.commands
    /\ healthRow' = tx.health
    /\ tables' = tx.tables
    /\ history' = tx.history
    /\ pc' = "migrated"
    /\ tx' = Nil
    /\ index' = 0
    /\ UNCHANGED <<found, version>>

(***************************************************************************)
(* Migrate returns an error: the history is one it refuses, a statement    *)
(* fails, or the caller's context is cancelled.  The deferred rollback     *)
(* drops the transaction; the process closes the repository and ends, as   *)
(* it does when it is killed.                                              *)
(***************************************************************************)
Rollback ==
    /\ pc' = "closed"
    /\ tx' = Nil
    /\ index' = 0
    /\ UNCHANGED <<Durable, version>>

RefuseHistory ==
    /\ \/ pc = "read" /\ ~HistoryReadable(tx.history)
       \/ /\ pc = "apply"
          /\ index <= Len(Migrations)
          /\ index <= Len(tx.history)
          /\ tx.history[index] # Migrations[index]
    /\ Rollback

StatementFails == pc \in {"open", "read", "apply", "record"} /\ Rollback

Crash == pc # "closed" /\ Rollback

\* The agent runs on the migrated database.
Process ==
    /\ pc = "migrated"
    /\ \E r \in Results :
          /\ ResultValid(r)
          /\ ~AlreadyStored(r)
          /\ StoreResult(r)
    /\ UNCHANGED <<tables, history, found, pc, index, tx, version>>

Statement ==
    \/ BeginMigrate
    \/ ReadHistory
    \/ SkipApplied
    \/ ApplyMigration
    \/ RecordMigration
    \/ CommitMigrations
    \/ RefuseHistory

MigNext == Open \/ Statement \/ StatementFails \/ Process \/ Crash

MigSpec == MigInit /\ [][MigNext]_migVars

(***************************************************************************)
(* Properties.                                                             *)
(***************************************************************************)
(***************************************************************************)
(* A database of a version this program does not know, with a gap or with  *)
(* a migration of another name, stays exactly as it was found, and the     *)
(* agent never runs on it (docs/engineering/PERSISTENCE-DESIGN.md).        *)
(***************************************************************************)
ForeignUntouched ==
    ~Ours(found) => Database = found /\ pc # "migrated"

(***************************************************************************)
(* The tables are always those the recorded history says, whichever step   *)
(* of a migration fails or is cut off: a database never carries half of a  *)
(* migration, so the next start can go on from it.                         *)
(***************************************************************************)
SchemaMatchesHistory ==
    Ours(found) =>
        /\ tables = Len(history)
        /\ \A id \in EventIDs : events[id] # Nil =>
             (events[id].disposition = Nil <=> tables = 1)
        /\ tables < 2 => healthRow = Nil

(***************************************************************************)
(* What a database held survives its upgrade: every event, command and     *)
(* latest state of version 1 is still there, and only the disposition is   *)
(* added.                                                                  *)
(***************************************************************************)
UpgradeKeepsData ==
    \A id \in EventIDs :
        /\ found.events[id] # Nil =>
             /\ events[id] # Nil
             /\ events[id].event = found.events[id].event
             /\ events[id].recv = found.events[id].recv
        /\ found.commands[id] # Nil => commands[id] = found.commands[id]
        /\ found.latest # Nil =>
             latestRow # Nil /\ latestRow.updatedAt >= found.latest.updatedAt

(***************************************************************************)
(* After an upgrade the snapshot finds the device: the latest state of     *)
(* version 1 is restored, not hidden behind a missing health row, and the  *)
(* tables are as consistent as a database that was never upgraded          *)
(* (Snapshot joins from device_health).                                    *)
(***************************************************************************)
UpgradedTablesConsistent ==
    pc = "migrated" =>
        /\ latestRow # Nil => SnapshotState = latestRow
        /\ latestRow # Nil =>
             /\ events[latestRow.lastEvent] # Nil
             /\ latestRow = ApplyTelemetry(ZeroState,
                                           events[latestRow.lastEvent].event)
        /\ \A id \in EventIDs :
             /\ events[id] # Nil => healthRow # Nil
             /\ commands[id] # Nil => events[id] # Nil
             /\ events[id] # Nil /\ events[id].disposition = "accepted" =>
                  events[id].event.time <= latestRow.updatedAt

(***************************************************************************)
(* Migrating an up-to-date database changes nothing in it.                 *)
(***************************************************************************)
MigrateIsIdempotent ==
    [][ pc = "apply" /\ version = 2 => UNCHANGED Durable ]_migVars

=============================================================================
