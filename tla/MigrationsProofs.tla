-------------------------- MODULE MigrationsProofs --------------------------
(***************************************************************************)
(* The safety of opening and upgrading a database, for every database the  *)
(* program may find and every result the agent may store in it.            *)
(*                                                                         *)
(* The properties speak of the durable database; what makes them inductive *)
(* is what is known of the transaction's view at each turn of the loop     *)
(* (Progress).  The heart of it is that the loop compares the recorded     *)
(* history with ours from the front, so that it comes to a migration it    *)
(* would have to apply only if everything recorded before it is ours: a    *)
(* foreign database is refused before anything in it is changed.           *)
(***************************************************************************)
EXTENDS Migrations, RepositoryProofs, SequenceTheorems

\* db still holds what was found, but for the dispositions.
Keeps(db) ==
    /\ \A id \in EventIDs :
         /\ found.events[id] # Nil =>
              /\ db.events[id] # Nil
              /\ db.events[id].event = found.events[id].event
              /\ db.events[id].recv = found.events[id].recv
         /\ found.commands[id] # Nil => db.commands[id] = found.commands[id]
    /\ found.latest # Nil =>
         db.latest # Nil /\ db.latest.updatedAt >= found.latest.updatedAt

\* db is one of ours, with the tables its history says and what was found.
Sound(db) ==
    /\ Ours(db)
    /\ db.tables = Len(db.history)
    /\ TablesOfVersion(db, db.tables)
    /\ Keeps(db)

Locations == {"closed", "open", "read", "apply", "record", "migrated"}

InTx == pc \in {"read", "apply", "record"}

MigTypeOK ==
    /\ found \in Databases
    /\ Database \in DatabaseFile
    /\ pc \in Locations
    /\ index \in 0 .. 3
    /\ InTx => tx \in DatabaseFile

\* How far the loop has come, and what the transaction has made of the tables.
Progress ==
    /\ InTx => version = tables
    /\ pc = "read" => tx = Database
    /\ pc \in {"apply", "record"} =>
         /\ index >= 1
         /\ index - 1 <= Len(tx.history)
         /\ Len(tx.history) <= Len(Migrations)
         /\ \A i \in 1 .. index - 1 : tx.history[i] = Migrations[i]
    /\ pc = "apply" /\ Ours(found) => Sound(tx)
    /\ pc = "record" =>
         /\ Ours(found)
         /\ index <= Len(Migrations)
         /\ Ours(tx)
         /\ Len(tx.history) = index - 1
         /\ tx.tables = index
         /\ TablesOfVersion(tx, index)
         /\ Keeps(tx)
    /\ InTx /\ (~Ours(found) \/ tables = 2) => tx = Database
    /\ pc = "migrated" => Ours(found) /\ tables = 2

IInv ==
    /\ MigTypeOK
    /\ ~Ours(found) => Database = found
    /\ Ours(found) => Sound(Database)
    /\ Progress

USE NilAssumption, NilRowAssumption, IdentityAssumption, DatabasesAssumption

\* The two migrations, counted from one.
LEMMA MigrationsFacts ==
    /\ Len(Migrations) = 2
    /\ DOMAIN Migrations = 1 .. 2
    /\ \A i \in 1 .. 2 :
         Migrations[i] \in MigrationRow
  <1>1. Len(Migrations) = 2 /\ DOMAIN Migrations = 1 .. 2
    BY SMT DEF Migrations
  <1>2. /\ Migrations[1] = [version |-> 1,
                            name |-> "initial durable processing schema"]
        /\ Migrations[2] =
             [version |-> 2,
              name |-> "unreliable telemetry dispositions and device health"]
    BY DEF Migrations
  <1>3. \A i \in 1 .. 2 : Migrations[i].name \in MigrationNames
    BY <1>1 DEF MigrationNames
  <1>4. ASSUME NEW row, NEW v \in Nat, NEW name,
               row = [version |-> v, name |-> name], row.name \in MigrationNames
        PROVE  row \in MigrationRow
    BY <1>4, SMT DEF MigrationRow
  <1>5. 1 \in 1 .. 2 /\ 2 \in 1 .. 2 /\ 1 \in Nat /\ 2 \in Nat
    OBVIOUS
  <1>6. /\ Migrations[1] \in MigrationRow
        /\ Migrations[2] \in MigrationRow
    BY <1>2, <1>3, <1>4, <1>5, Zenon
  <1>. QED  BY <1>1, <1>6, SMT

\* A database file, field by field.
LEMMA FileFields ==
    ASSUME NEW db \in DatabaseFile
    PROVE  /\ db.events \in [EventIDs -> StoredRow \cup {Nil}]
           /\ db.latest \in State \cup {Nil}
           /\ db.commands \in [EventIDs -> CommandRow \cup {Nil}]
           /\ db.health \in DeviceHealth \cup {Nil}
           /\ db.tables \in Nat
           /\ db.history \in Seq(MigrationRow)
           /\ Len(db.history) \in Nat
           /\ DOMAIN db.history = 1 .. Len(db.history)
           /\ db = [events |-> db.events, latest |-> db.latest,
                    commands |-> db.commands, health |-> db.health,
                    tables |-> db.tables, history |-> db.history]
  <1>1. db.history \in Seq(MigrationRow)
    BY SMT DEF DatabaseFile
  <1>2. Len(db.history) \in Nat /\ DOMAIN db.history = 1 .. Len(db.history)
    BY <1>1, SMT
  <1>. QED  BY <1>1, <1>2, SMT DEF DatabaseFile

\* A database file with another history.
LEMMA WithHistory ==
    ASSUME NEW db \in DatabaseFile, NEW rows \in Seq(MigrationRow)
    PROVE  LET new == [db EXCEPT !.history = rows]
           IN  /\ new.events = db.events /\ new.latest = db.latest
               /\ new.commands = db.commands /\ new.health = db.health
               /\ new.tables = db.tables /\ new.history = rows
               /\ new \in DatabaseFile
  <1>1. [db EXCEPT !.history = rows] =
          [events |-> db.events, latest |-> db.latest, commands |-> db.commands,
           health |-> db.health, tables |-> db.tables, history |-> rows]
    BY SMT DEF DatabaseFile
  <1>. QED  BY <1>1, FileFields, SMT DEF DatabaseFile

\* Migration 1 builds the tables of version 1, empty.
LEMMA CreateSchemaKeeps ==
    ASSUME NEW db \in DatabaseFile, found \in DatabaseFile,
           TablesOfVersion(db, 0), Keeps(db)
    PROVE  /\ CreateSchema(db) \in DatabaseFile
           /\ CreateSchema(db).tables = 1
           /\ CreateSchema(db).history = db.history
           /\ TablesOfVersion(CreateSchema(db), 1)
           /\ Keeps(CreateSchema(db))
  <1>. DEFINE new == CreateSchema(db)
  <1>1. /\ new \in DatabaseFile
        /\ new.tables = 1 /\ new.history = db.history
        /\ new.events = [id \in EventIDs |-> Nil]
        /\ new.commands = [id \in EventIDs |-> Nil]
        /\ new.latest = Nil /\ new.health = db.health
    BY SMT DEF CreateSchema, DatabaseFile
  <1>2. /\ db.latest = Nil /\ db.health = Nil
        /\ \A id \in EventIDs : db.events[id] = Nil /\ db.commands[id] = Nil
    BY SMT DEF TablesOfVersion
  <1>. HIDE DEF new
  <1>3. TablesOfVersion(new, 1)
    BY <1>1, <1>2, SMT DEF TablesOfVersion
  <1>4. Keeps(new)
    BY <1>1, <1>2, SMT DEF Keeps
  <1>. QED  BY <1>1, <1>3, <1>4 DEF new

(***************************************************************************)
(* Migration 2 turns tables of version 1 into tables of version 2: every   *)
(* event is accepted, which the latest state is at least as new as, and    *)
(* the health that is filled in is there whenever any event is.            *)
(***************************************************************************)
LEMMA AddHealthKeeps ==
    ASSUME NEW db \in DatabaseFile, found \in DatabaseFile,
           TablesOfVersion(db, 1), Keeps(db)
    PROVE  /\ AddHealth(db) \in DatabaseFile
           /\ AddHealth(db).tables = 2
           /\ AddHealth(db).history = db.history
           /\ TablesOfVersion(AddHealth(db), 2)
           /\ Keeps(AddHealth(db))
  <1>. DEFINE new == AddHealth(db)
              at == db.events[db.latest.lastEvent].recv
  <1>1. /\ new.tables = 2 /\ new.history = db.history
        /\ new.events = [id \in EventIDs |->
              IF db.events[id] = Nil THEN Nil
              ELSE [db.events[id] EXCEPT !.disposition = "accepted"]]
        /\ new.commands = db.commands /\ new.latest = db.latest
        /\ new.health = IF db.latest = Nil THEN Nil
                        ELSE [status |-> "online", transition |-> at, contact |-> at]
        /\ new = [events |-> new.events, latest |-> new.latest,
                  commands |-> new.commands, health |-> new.health,
                  tables |-> new.tables, history |-> new.history]
    BY SMT DEF AddHealth, DatabaseFile
  <1>2. ASSUME NEW id \in EventIDs, db.events[id] # Nil
        PROVE  /\ new.events[id] # Nil
               /\ new.events[id] \in StoredRow
               /\ new.events[id].event = db.events[id].event
               /\ new.events[id].recv = db.events[id].recv
               /\ new.events[id].disposition = "accepted"
    <2>1. db.events[id] \in StoredRow
      BY <1>2 DEF DatabaseFile
    <2>2. new.events[id] = [db.events[id] EXCEPT !.disposition = "accepted"]
      BY <1>1, <1>2
    <2>. QED  BY <2>1, <2>2, SMT DEF StoredRow
  <1>3. ASSUME NEW id \in EventIDs, db.events[id] = Nil
        PROVE  new.events[id] = Nil
    BY <1>1, <1>3
  <1>4. db.latest # Nil => db.latest.lastEvent \in EventIDs /\ at \in Nat \ {0}
    <2>. SUFFICES ASSUME db.latest # Nil
                  PROVE  db.latest.lastEvent \in EventIDs /\ at \in Nat \ {0}
      OBVIOUS
    <2>1. db.latest.lastEvent \in EventIDs
      BY SMT DEF DatabaseFile, State
    <2>2. db.events[db.latest.lastEvent] \in StoredRow
      BY <2>1 DEF TablesOfVersion, DatabaseFile
    <2>. QED  BY <2>1, <2>2, SMT DEF StoredRow
  <1>5. new.health \in DeviceHealth \cup {Nil}
    BY <1>1, <1>4, SMT DEF DeviceHealth, Statuses
  <1>6. new.health # Nil <=> db.latest # Nil
    BY <1>1, <1>4, SMT DEF DeviceHealth, Statuses
  <1>. HIDE DEF new, at
  <1>7. new \in DatabaseFile
    <2>1. new.events \in [EventIDs -> StoredRow \cup {Nil}]
      BY <1>1, <1>2, <1>3, SMT
    <2>2. /\ new.latest \in State \cup {Nil}
          /\ new.commands \in [EventIDs -> CommandRow \cup {Nil}]
          /\ new.tables \in Nat /\ new.history \in Seq(MigrationRow)
      BY <1>1, FileFields
    <2>. QED  BY <1>1, <1>5, <2>1, <2>2 DEF DatabaseFile
  <1>8. TablesOfVersion(new, 2)
    BY <1>1, <1>2, <1>3, <1>4, <1>6, SMT DEF TablesOfVersion
  <1>9. Keeps(new)
    BY <1>1, <1>2, <1>3, SMT DEF Keeps
  <1>. QED  BY <1>1, <1>7, <1>8, <1>9 DEF new

(***************************************************************************)
(* The agent stores a result in tables of version 2: they stay tables of   *)
(* version 2, and what was found stays in them.                            *)
(***************************************************************************)
LEMMA ProcessKeeps ==
    ASSUME MigTypeOK, TablesOfVersion(Database, 2), Keeps(Database),
           NEW r \in Results, ResultValid(r), ~AlreadyStored(r), StoreResult(r),
           UNCHANGED <<tables, history, found>>
    PROVE  /\ Database' \in DatabaseFile
           /\ TablesOfVersion(Database', 2)
           /\ Keeps(Database)'
  <1>1. ResultRecords(r) /\ AcceptedWithState(r)
    BY ResultsAssumption, ValidResult
  <1>2. /\ events \in [EventIDs -> StoredRow \cup {Nil}]
        /\ latestRow \in State \cup {Nil}
        /\ commands \in [EventIDs -> CommandRow \cup {Nil}]
        /\ healthRow \in DeviceHealth \cup {Nil}
        /\ tables \in Nat /\ history \in Seq(MigrationRow)
    BY SMT DEF MigTypeOK, Database, DatabaseFile
  <1>3. found \in DatabaseFile
    BY DEF MigTypeOK
  <1>4. ASSUME NEW id \in EventIDs, events[id] # Nil
        PROVE  events'[id] = events[id] /\ commands'[id] = commands[id]
    BY <1>1, <1>2, <1>4, SMT DEF StoreResult, AlreadyStored, ResultRecords,
       ReplacesLatest
  <1>5. ASSUME NEW id \in EventIDs, events'[id] # Nil, events[id] = Nil
        PROVE  /\ r.telemetry # Nil /\ id = r.telemetry.event.id
               /\ events'[id] = r.telemetry
               /\ r.telemetry.disposition # Nil
    BY <1>1, <1>2, <1>5, SMT DEF StoreResult, ResultRecords, TelemetryRecord
  <1>6. /\ events' \in [EventIDs -> StoredRow \cup {Nil}]
        /\ latestRow' \in State \cup {Nil}
        /\ commands' \in [EventIDs -> CommandRow \cup {Nil}]
        /\ healthRow' \in DeviceHealth
    <2>1. r.telemetry # Nil => r.telemetry \in StoredRow
      BY <1>1, SMT DEF ResultRecords, TelemetryRecord, StoredRow
    <2>2. events' \in [EventIDs -> StoredRow \cup {Nil}]
      BY <1>1, <1>2, <2>1, SMT DEF ResultRecords, StoreResult
    <2>3. latestRow' \in State \cup {Nil}
      BY <1>1, <1>2, SMT DEF ResultRecords, StoreResult, ReplacesLatest
    <2>4. commands' \in [EventIDs -> CommandRow \cup {Nil}]
      BY <1>1, <1>2, SMT DEF ResultRecords, StoreResult, ReplacesLatest
    <2>. QED  BY <1>1, <2>2, <2>3, <2>4 DEF ResultRecords, StoreResult
  <1>7. Database' \in DatabaseFile
    BY <1>2, <1>6, SMT DEF Database, DatabaseFile
  <1>8. latestRow # Nil =>
          /\ latestRow' # Nil
          /\ latestRow.updatedAt <= latestRow'.updatedAt
          /\ latestRow.updatedAt \in Nat /\ latestRow'.updatedAt \in Nat
    BY <1>1, <1>2, <1>6, SMT DEF StoreResult, ReplacesLatest, ResultRecords, State
  <1>9. TablesOfVersion(Database', 2)
    <2>1. latestRow' # Nil =>
            /\ events'[latestRow'.lastEvent] # Nil
            /\ latestRow' = ApplyTelemetry(ZeroState,
                                           events'[latestRow'.lastEvent].event)
      <3>1. CASE ReplacesLatest(r)
        <4>1. latestRow' = r.latestState /\ r.latestState # Nil
          BY <3>1 DEF StoreResult, ReplacesLatest
        <4>2. events'[r.telemetry.event.id] = r.telemetry
          BY <1>1, <1>2, <4>1, SMT DEF StoreResult, ResultRecords
        <4>. QED  BY <1>1, <4>1, <4>2 DEF ResultRecords
      <3>2. CASE ~ReplacesLatest(r)
        <4>1. latestRow' = latestRow
          BY <3>2 DEF StoreResult
        <4>2. latestRow # Nil =>
                /\ latestRow.lastEvent \in EventIDs
                /\ events[latestRow.lastEvent] # Nil
                /\ latestRow = ApplyTelemetry(ZeroState,
                                              events[latestRow.lastEvent].event)
          BY <1>2, SMT DEF TablesOfVersion, Database, State
        <4>. QED  BY <1>4, <4>1, <4>2
      <3>. QED  BY <3>1, <3>2
    <2>2. ASSUME NEW id \in EventIDs, commands'[id] # Nil
          PROVE  events'[id] # Nil
      <3>1. CASE commands[id] # Nil
        <4>1. events[id] # Nil
          BY <3>1, SMT DEF TablesOfVersion, Database
        <4>. QED  BY <1>4, <4>1
      <3>2. CASE commands[id] = Nil
        <4>1. r.command # Nil /\ id = r.command.eventID
          BY <1>2, <2>2, <3>2, SMT DEF StoreResult
        <4>. QED  BY <1>1, <1>2, <4>1, SMT DEF StoreResult, ResultRecords
      <3>. QED  BY <3>1, <3>2
    <2>3. ASSUME NEW id \in EventIDs, events'[id] # Nil
          PROVE  /\ events'[id].disposition # Nil
                 /\ events'[id].disposition # "history_only" =>
                      /\ latestRow' # Nil
                      /\ events'[id].event.time <= latestRow'.updatedAt
      <3>1. CASE events[id] # Nil
        <4>1. /\ events[id].disposition # Nil
              /\ events[id].disposition # "history_only" =>
                   /\ latestRow # Nil
                   /\ events[id].event.time <= latestRow.updatedAt
          BY <3>1, SMT DEF TablesOfVersion, Database
        <4>2. events[id].event.time \in Nat
          BY <1>2, <3>1, SMT DEF StoredRow, Telemetry
        <4>. QED  BY <1>4, <1>8, <3>1, <4>1, <4>2, SMT
      <3>2. CASE events[id] = Nil
        <4>1. /\ r.telemetry # Nil /\ events'[id] = r.telemetry
              /\ r.telemetry \in TelemetryRecord
              /\ r.telemetry.disposition # Nil
          BY <1>1, <1>5, <2>3, <3>2 DEF ResultRecords
        <4>2. r.telemetry.disposition # "history_only" =>
                /\ r.latestState # Nil /\ r.latestState \in State
                /\ r.latestState.updatedAt = r.telemetry.event.time
          BY <1>1, <4>1, SMT DEF AcceptedWithState, ResultRecords, TelemetryRecord
        <4>3. r.latestState # Nil =>
                /\ latestRow' # Nil
                /\ r.latestState.updatedAt <= latestRow'.updatedAt
          BY <1>1, <1>2, SMT DEF StoreResult, ReplacesLatest, ResultRecords, State
        <4>. QED  BY <4>1, <4>2, <4>3
      <3>. QED  BY <3>1, <3>2
    <2>. QED  BY <1>6, <2>1, <2>2, <2>3, SMT DEF TablesOfVersion, Database
  <1>10. Keeps(Database)'
    <2>1. ASSUME NEW id \in EventIDs, found.events[id] # Nil
          PROVE  /\ events'[id] # Nil
                 /\ events'[id].event = found.events[id].event
                 /\ events'[id].recv = found.events[id].recv
      BY <1>4, <2>1, SMT DEF Keeps, Database
    <2>2. ASSUME NEW id \in EventIDs, found.commands[id] # Nil
          PROVE  commands'[id] = found.commands[id]
      <3>1. commands[id] = found.commands[id] /\ events[id] # Nil
        BY <2>2, SMT DEF Keeps, Database, TablesOfVersion
      <3>. QED  BY <1>4, <3>1
    <2>3. found.latest # Nil =>
            latestRow' # Nil /\ latestRow'.updatedAt >= found.latest.updatedAt
      <3>1. found.latest # Nil =>
              /\ latestRow # Nil /\ latestRow.updatedAt >= found.latest.updatedAt
              /\ found.latest.updatedAt \in Nat
        BY <1>3, SMT DEF Keeps, Database, DatabaseFile, State
      <3>. QED  BY <1>8, <3>1, SMT
    <2>. QED  BY <2>1, <2>2, <2>3, SMT DEF Keeps, Database
  <1>. QED  BY <1>7, <1>9, <1>10

(***************************************************************************)
(* The invariant holds initially, and every step keeps it.                 *)
(***************************************************************************)
LEMMA InitIInv == MigInit => IInv
  <1>. SUFFICES ASSUME MigInit PROVE IInv
    OBVIOUS
  <1>1. found \in DatabaseFile /\ Database = found
    BY FileFields, Zenon DEF MigInit, Database
  <1>2. MigTypeOK
    BY <1>1 DEF MigInit, MigTypeOK, InTx, Locations
  <1>3. Progress
    BY DEF MigInit, Progress, InTx
  <1>4. found.latest # Nil => found.latest.updatedAt >= found.latest.updatedAt
    BY <1>1, SMT DEF DatabaseFile, State
  <1>5. Keeps(found)
    BY <1>4 DEF Keeps
  <1>6. Ours(found) => Sound(Database)
    BY <1>1, <1>5 DEF MigInit, Sound
  <1>. QED  BY <1>1, <1>2, <1>3, <1>6 DEF IInv

\* A step that leaves the durable database alone.
LEMMA DurableUntouched ==
    ASSUME IInv, UNCHANGED Durable
    PROVE  /\ Database' = Database
           /\ found' = found
           /\ tables' = tables /\ history' = history
           /\ ~Ours(found') => Database' = found'
           /\ Ours(found') => Sound(Database)'
           /\ Database' \in DatabaseFile /\ found' \in Databases
           /\ \A db : Keeps(db)' <=> Keeps(db)
  <1>1. /\ Database' = Database /\ found' = found
        /\ tables' = tables /\ history' = history
    BY DEF Durable, dbVars, Database
  <1>2. \A db : Keeps(db)' <=> Keeps(db)
    BY <1>1 DEF Keeps
  <1>. QED  BY <1>1, <1>2 DEF IInv, MigTypeOK, Sound

LEMMA OpenIInv == IInv /\ Open => IInv'
  <1>. SUFFICES ASSUME IInv, Open PROVE IInv'
    OBVIOUS
  <1>1. UNCHANGED Durable
    BY DEF Open
  <1>2. MigTypeOK'
    BY <1>1, DurableUntouched DEF IInv, MigTypeOK, Open, InTx, Locations
  <1>3. Progress'
    BY DEF Progress, Open, InTx
  <1>. QED  BY <1>1, <1>2, <1>3, DurableUntouched DEF IInv

LEMMA RollbackIInv == IInv /\ Rollback => IInv'
  <1>. SUFFICES ASSUME IInv, Rollback PROVE IInv'
    OBVIOUS
  <1>1. UNCHANGED Durable
    BY DEF Rollback
  <1>2. MigTypeOK'
    BY <1>1, DurableUntouched DEF IInv, MigTypeOK, Rollback, InTx, Locations
  <1>3. Progress'
    BY DEF Progress, Rollback, InTx
  <1>. QED  BY <1>1, <1>2, <1>3, DurableUntouched DEF IInv

LEMMA BeginMigrateIInv == IInv /\ BeginMigrate => IInv'
  <1>. SUFFICES ASSUME IInv, BeginMigrate PROVE IInv'
    OBVIOUS
  <1>1. UNCHANGED Durable
    BY DEF BeginMigrate
  <1>2. MigTypeOK'
    BY <1>1, DurableUntouched DEF IInv, MigTypeOK, BeginMigrate, InTx, Locations
  <1>3. Progress'
    BY <1>1, DurableUntouched DEF Progress, BeginMigrate, InTx
  <1>. QED  BY <1>1, <1>2, <1>3, DurableUntouched DEF IInv

LEMMA ReadHistoryIInv == IInv /\ ReadHistory => IInv'
  <1>. SUFFICES ASSUME IInv, ReadHistory PROVE IInv'
    OBVIOUS
  <1>1. UNCHANGED Durable /\ tx' = tx /\ tx = Database /\ tx \in DatabaseFile
        /\ pc' = "apply" /\ index' = 1 /\ version = tables /\ version' = version
    BY DEF ReadHistory, IInv, Progress, MigTypeOK, InTx
  <1>2. MigTypeOK'
    BY <1>1, DurableUntouched DEF IInv, MigTypeOK, InTx, Locations
  <1>3. Len(tx.history) <= Len(Migrations) /\ Len(tx.history) \in Nat
    <2>1. Len(tx.history) \in Nat /\ DOMAIN tx.history = 1 .. Len(tx.history)
      BY <1>1, FileFields
    <2>2. \A i \in DOMAIN tx.history : i <= Len(Migrations)
      BY DEF ReadHistory, HistoryReadable
    <2>. QED  BY <2>1, <2>2, MigrationsFacts, SMT
  <1>4. Ours(found) => Sound(tx)
    BY <1>1 DEF IInv
  <1>5. Ours(found') => Sound(tx)'
    BY <1>1, <1>4, DurableUntouched DEF Sound
  <1>6. Progress'
    BY <1>1, <1>3, <1>5, DurableUntouched, MigrationsFacts, SMT DEF Progress, InTx
  <1>. QED  BY <1>1, <1>2, <1>6, DurableUntouched DEF IInv

LEMMA SkipAppliedIInv == IInv /\ SkipApplied => IInv'
  <1>. SUFFICES ASSUME IInv, SkipApplied PROVE IInv'
    OBVIOUS
  <1>1. /\ UNCHANGED Durable /\ tx' = tx /\ pc = "apply" /\ pc' = "apply"
        /\ version = tables /\ version' = version
        /\ index \in 1 .. 2 /\ index' = index + 1
        /\ tx \in DatabaseFile
        /\ index <= Len(tx.history) /\ tx.history[index] = Migrations[index]
    BY MigrationsFacts, SMT DEF SkipApplied, IInv, Progress, MigTypeOK, InTx
  <1>2. /\ Len(tx.history) <= Len(Migrations)
        /\ \A i \in 1 .. index - 1 : tx.history[i] = Migrations[i]
        /\ Ours(found) => Sound(tx)
        /\ ~Ours(found) \/ tables = 2 => tx = Database
    BY <1>1 DEF IInv, Progress, InTx
  <1>3. Len(tx.history) \in Nat
    BY <1>1, FileFields
  <1>4. MigTypeOK'
    BY <1>1, DurableUntouched, SMT DEF IInv, MigTypeOK, InTx, Locations
  <1>5. /\ index' >= 1 /\ index' - 1 <= Len(tx'.history)
        /\ \A i \in 1 .. index' - 1 : tx'.history[i] = Migrations[i]
    BY <1>1, <1>2, <1>3, SMT
  <1>6. Ours(found') => Sound(tx)'
    BY <1>1, <1>2, DurableUntouched DEF Sound
  <1>7. Progress'
    BY <1>1, <1>2, <1>5, <1>6, DurableUntouched DEF Progress, InTx
  <1>. QED  BY <1>1, <1>4, <1>7, DurableUntouched DEF IInv

(***************************************************************************)
(* The loop comes to a migration it has to apply only in a database of     *)
(* ours: everything recorded has been compared by then.                    *)
(***************************************************************************)
LEMMA ComparedIsOurs ==
    ASSUME IInv, pc = "apply", index > Len(tx.history)
    PROVE  /\ Ours(found) /\ Sound(tx) /\ tx \in DatabaseFile
           /\ Len(tx.history) = index - 1
  <1>1. /\ tx \in DatabaseFile /\ index \in Nat
        /\ index - 1 <= Len(tx.history)
        /\ Len(tx.history) <= Len(Migrations)
        /\ \A i \in 1 .. index - 1 : tx.history[i] = Migrations[i]
        /\ ~Ours(found) => tx = Database /\ Database = found
    BY SMT DEF IInv, MigTypeOK, Progress, InTx
  <1>2. Len(tx.history) \in Nat /\ DOMAIN tx.history = 1 .. Len(tx.history)
    BY <1>1, FileFields
  <1>3. Len(tx.history) = index - 1
    BY <1>1, <1>2, SMT
  <1>4. Ours(tx)
    BY <1>1, <1>2, <1>3, Zenon DEF Ours
  <1>5. Ours(found)
    BY <1>1, <1>4
  <1>. QED  BY <1>1, <1>3, <1>5 DEF IInv, Progress

LEMMA ApplyMigrationIInv == IInv /\ ApplyMigration => IInv'
  <1>. SUFFICES ASSUME IInv, ApplyMigration PROVE IInv'
    OBVIOUS
  <1>1. /\ UNCHANGED Durable /\ pc = "apply" /\ pc' = "record"
        /\ version = tables /\ version' = version
        /\ index \in 1 .. 2 /\ index' = index
        /\ tx.tables = index - 1
        /\ tx' = IF index = 1 THEN CreateSchema(tx) ELSE AddHealth(tx)
    BY MigrationsFacts, SMT DEF ApplyMigration, IInv, Progress, MigTypeOK, InTx
  <1>2. /\ Ours(found) /\ Sound(tx) /\ tx \in DatabaseFile
        /\ Len(tx.history) = index - 1
        /\ \A i \in 1 .. index - 1 : tx.history[i] = Migrations[i]
    BY <1>1, ComparedIsOurs DEF ApplyMigration, IInv, Progress
  <1>3. TablesOfVersion(tx, index - 1) /\ Keeps(tx) /\ Ours(tx)
    BY <1>1, <1>2 DEF Sound
  <1>4. found \in DatabaseFile
    BY DEF IInv, MigTypeOK
  <1>5. /\ tx' \in DatabaseFile /\ tx'.tables = index
        /\ tx'.history = tx.history
        /\ TablesOfVersion(tx', index) /\ Keeps(tx')
    <2>1. CASE index = 1
      <3>1. TablesOfVersion(tx, 0)
        BY <1>3, <2>1, SMT
      <3>. QED  BY <1>1, <1>2, <1>3, <1>4, <2>1, <3>1, CreateSchemaKeeps
    <2>2. CASE index = 2
      <3>1. TablesOfVersion(tx, 1)
        BY <1>3, <2>2, SMT
      <3>. QED  BY <1>1, <1>2, <1>3, <1>4, <2>2, <3>1, AddHealthKeeps
    <2>. QED  BY <1>1, <2>1, <2>2, SMT
  <1>6. Ours(tx')
    BY <1>3, <1>5 DEF Ours
  <1>7. tables # 2
    <2>1. tables = 2 => tx.tables = 2
      BY <1>1, SMT DEF IInv, Progress, InTx, Database
    <2>. QED  BY <1>1, <2>1, SMT
  <1>8. MigTypeOK'
    BY <1>1, <1>5, DurableUntouched, SMT DEF IInv, MigTypeOK, InTx, Locations
  <1>9. Progress'
    <2>1. found' = found /\ tables' = tables /\ Keeps(tx)'
      BY <1>1, <1>5, DurableUntouched DEF Keeps
    <2>2. index' - 1 <= Len(tx'.history) /\ Len(tx'.history) <= Len(Migrations)
      BY <1>1, <1>2, <1>5, MigrationsFacts, SMT
    <2>3. index' >= 1 /\ index' <= Len(Migrations)
      BY <1>1, MigrationsFacts, SMT
    <2>. QED  BY <1>1, <1>2, <1>5, <1>6, <1>7, <2>1, <2>2, <2>3
              DEF Progress, InTx
  <1>. QED  BY <1>1, <1>8, <1>9, DurableUntouched DEF IInv

LEMMA RecordMigrationIInv == IInv /\ RecordMigration => IInv'
  <1>. SUFFICES ASSUME IInv, RecordMigration PROVE IInv'
    OBVIOUS
  <1>1. /\ UNCHANGED Durable /\ pc = "record" /\ pc' = "apply"
        /\ version = tables /\ version' = version
        /\ index \in 1 .. 2 /\ index' = index + 1
        /\ tx \in DatabaseFile /\ Ours(found) /\ Ours(tx)
        /\ Len(tx.history) = index - 1 /\ tx.tables = index
        /\ TablesOfVersion(tx, index) /\ Keeps(tx)
        /\ tx' = [tx EXCEPT !.history = Append(@, Migrations[index])]
    BY MigrationsFacts, SMT DEF RecordMigration, IInv, Progress, MigTypeOK, InTx
  <1>2. /\ tx'.events = tx.events /\ tx'.latest = tx.latest
        /\ tx'.commands = tx.commands /\ tx'.health = tx.health
        /\ tx'.tables = index
        /\ tx'.history = Append(tx.history, Migrations[index])
        /\ tx' \in DatabaseFile
    <2>1. Migrations[index] \in MigrationRow
      BY <1>1, MigrationsFacts
    <2>2. Append(tx.history, Migrations[index]) \in Seq(MigrationRow)
      BY <1>1, <2>1, FileFields, AppendProperties
    <2>3. tx' = [tx EXCEPT !.history = Append(tx.history, Migrations[index])]
      BY <1>1
    <2>4. tx \in DatabaseFile /\ tx.tables = index
      BY <1>1
    <2>. QED  BY <2>2, <2>3, <2>4, WithHistory
  <1>3. /\ Len(tx'.history) = index
        /\ \A i \in 1 .. index : tx'.history[i] = Migrations[i]
        /\ DOMAIN tx'.history = 1 .. index
    <2>1. Migrations[index] \in MigrationRow
      BY <1>1, MigrationsFacts
    <2>2. /\ Len(tx.history) = index - 1
          /\ DOMAIN tx.history = 1 .. index - 1
          /\ tx.history \in Seq(MigrationRow)
      BY <1>1, FileFields
    <2>3. /\ Len(tx'.history) = (index - 1) + 1
          /\ \A i \in 1 .. index - 1 : tx'.history[i] = tx.history[i]
          /\ tx'.history[(index - 1) + 1] = Migrations[index]
      BY <1>2, <2>1, <2>2, AppendProperties
    <2>4. \A i \in 1 .. index - 1 : tx.history[i] = Migrations[i]
      BY <1>1, <2>2 DEF Ours
    <2>5. Len(tx'.history) = index /\ tx'.history[index] = Migrations[index]
      <3>1. (index - 1) + 1 = index
        BY <1>1
      <3>. QED  BY <2>3, <3>1, Zenon
    <2>6. DOMAIN tx'.history = 1 .. index
      BY <1>2, <2>5, FileFields
    <2>7. \A i \in 1 .. index : i = index \/ i \in 1 .. index - 1
      BY <1>1, SMT
    <2>. QED  BY <2>3, <2>4, <2>5, <2>6, <2>7, Zenon
  <1>4. Sound(tx')
    <2>1. Ours(tx')
      BY <1>1, <1>3, MigrationsFacts, SMT DEF Ours
    <2>2. TablesOfVersion(tx', index)
      BY <1>1, <1>2 DEF TablesOfVersion
    <2>3. Keeps(tx')
      BY <1>1, <1>2 DEF Keeps
    <2>. QED  BY <1>2, <1>3, <2>1, <2>2, <2>3 DEF Sound
  <1>5. MigTypeOK'
    BY <1>1, <1>2, DurableUntouched, SMT DEF IInv, MigTypeOK, InTx, Locations
  <1>6. tables # 2
    <2>1. tables = 2 => tx = Database
      BY <1>1 DEF IInv, Progress, InTx
    <2>2. tables = 2 => Len(history) = 2
      BY <1>1, SMT DEF IInv, Sound, Database
    <2>. QED  BY <1>1, <2>1, <2>2, SMT DEF Database
  <1>7. Progress'
    <2>1. found' = found /\ tables' = tables /\ Sound(tx)'
      BY <1>1, <1>4, DurableUntouched DEF Sound, Keeps
    <2>2. /\ index' - 1 <= Len(tx'.history) /\ Len(tx'.history) <= Len(Migrations)
          /\ index' >= 1
          /\ \A i \in 1 .. index' - 1 : tx'.history[i] = Migrations[i]
      <3>1. index' - 1 = index /\ index' >= 1 /\ index <= Len(Migrations)
            /\ index <= index
        BY <1>1, MigrationsFacts, SMT
      <3>. QED  BY <1>3, <3>1, Zenon
    <2>. QED  BY <1>1, <1>6, <2>1, <2>2 DEF Progress, InTx
  <1>. QED  BY <1>1, <1>5, <1>7, DurableUntouched DEF IInv

\* What is committed is a database of ours, of version 2.
LEMMA CommitMigrationsIInv == IInv /\ CommitMigrations => IInv'
  <1>. SUFFICES ASSUME IInv, CommitMigrations PROVE IInv'
    OBVIOUS
  <1>1. tx \in DatabaseFile /\ pc = "apply" /\ index \in 0 .. 3
        /\ Len(tx.history) <= 2 /\ index > 2 /\ Len(tx.history) \in Nat
    <2>1. tx \in DatabaseFile /\ pc = "apply" /\ index \in 0 .. 3
          /\ Len(tx.history) <= 2 /\ index > 2
      BY MigrationsFacts DEF CommitMigrations, IInv, MigTypeOK, Progress, InTx
    <2>. QED  BY <2>1, FileFields
  <1>2. index > Len(tx.history) /\ index = 3
    BY <1>1, SMT
  <1>3. /\ Ours(found) /\ Sound(tx) /\ Len(tx.history) = 2
    BY <1>1, <1>2, ComparedIsOurs, SMT
  <1>4. Database' = tx
    BY <1>1, FileFields, Zenon DEF CommitMigrations, Database
  <1>5. found' = found /\ tables' = 2
    BY <1>3 DEF CommitMigrations, Sound
  <1>6. MigTypeOK'
    BY <1>1, <1>4, <1>5, SMT DEF CommitMigrations, IInv, MigTypeOK, InTx, Locations
  <1>7. Sound(Database)'
    BY <1>3, <1>4, <1>5 DEF Sound, Keeps
  <1>8. Progress'
    BY <1>3, <1>5 DEF CommitMigrations, Progress, InTx
  <1>. QED  BY <1>3, <1>5, <1>6, <1>7, <1>8 DEF IInv

LEMMA ProcessIInv == IInv /\ Process => IInv'
  <1>. SUFFICES ASSUME IInv, Process PROVE IInv'
    OBVIOUS
  <1>1. PICK r \in Results : ResultValid(r) /\ ~AlreadyStored(r) /\ StoreResult(r)
    BY DEF Process
  <1>2. /\ pc = "migrated" /\ pc' = pc /\ index' = index
        /\ tables = 2 /\ Ours(found) /\ Sound(Database)
        /\ UNCHANGED <<tables, history, found>>
    BY DEF Process, IInv, Progress
  <1>3. TablesOfVersion(Database, 2) /\ Keeps(Database) /\ MigTypeOK
    BY <1>2, SMT DEF Sound, Database, IInv
  <1>4. Database' \in DatabaseFile /\ TablesOfVersion(Database', 2) /\ Keeps(Database)'
    BY <1>1, <1>2, <1>3, ProcessKeeps
  <1>5. Database'.tables = Database.tables /\ Database'.history = Database.history
        /\ Database.tables = 2
    BY <1>2, SMT DEF Database
  <1>6. Sound(Database)'
    BY <1>2, <1>4, <1>5 DEF Sound, Ours
  <1>7. MigTypeOK'
    BY <1>2, <1>3, <1>4 DEF MigTypeOK, InTx
  <1>8. Progress'
    BY <1>2 DEF Progress, InTx
  <1>. QED  BY <1>2, <1>6, <1>7, <1>8 DEF IInv

LEMMA NextIInv == IInv /\ [MigNext]_migVars => IInv'
  <1>. SUFFICES ASSUME IInv, [MigNext]_migVars PROVE IInv'
    OBVIOUS
  <1>1. CASE RefuseHistory \/ StatementFails \/ Crash
    BY <1>1, RollbackIInv DEF RefuseHistory, StatementFails, Crash
  <1>2. CASE UNCHANGED migVars
    <2>1. UNCHANGED Durable /\ pc' = pc /\ index' = index /\ tx' = tx
          /\ version' = version
      BY <1>2 DEF migVars, Durable
    <2>2. MigTypeOK'
      BY <2>1, DurableUntouched DEF IInv, MigTypeOK, InTx
    <2>3. Progress'
      BY <2>1, DurableUntouched DEF IInv, Progress, InTx, Sound
    <2>. QED  BY <2>1, <2>2, <2>3, DurableUntouched DEF IInv
  <1>. QED  BY <1>1, <1>2, OpenIInv, BeginMigrateIInv, ReadHistoryIInv,
               SkipAppliedIInv, ApplyMigrationIInv, RecordMigrationIInv,
               CommitMigrationsIInv, ProcessIInv DEF MigNext, Statement

(***************************************************************************)
(* Whatever database is found, and wherever Migrate fails or is killed,    *)
(* every reachable state satisfies the inductive invariant.                *)
(***************************************************************************)
THEOREM Invariance == MigSpec => []IInv
  BY InitIInv, NextIInv, PTL DEF MigSpec

(***************************************************************************)
(* A database with a history that is not ours is left exactly as found,    *)
(* and the agent never runs on it (appliedMigrations and the loop of       *)
(* Migrate refuse it).                                                     *)
(***************************************************************************)
THEOREM ForeignSafe == MigSpec => []ForeignUntouched
  <1>1. IInv => ForeignUntouched
    BY DEF IInv, Progress, ForeignUntouched
  <1>. QED  BY <1>1, Invariance, PTL

(***************************************************************************)
(* A database never carries half of a migration: its tables are those of   *)
(* its recorded history whichever step of Migrate is cut off.              *)
(***************************************************************************)
THEOREM SchemaRecorded == MigSpec => []SchemaMatchesHistory
  <1>1. IInv => SchemaMatchesHistory
    <2>. SUFFICES ASSUME IInv, Ours(found)
                  PROVE  /\ tables = Len(history)
                         /\ \A id \in EventIDs : events[id] # Nil =>
                              (events[id].disposition = Nil <=> tables = 1)
                         /\ tables < 2 => healthRow = Nil
      BY DEF SchemaMatchesHistory
    <2>1. Sound(Database)
      BY DEF IInv
    <2>. QED  BY <2>1, SMT DEF Sound, Database, TablesOfVersion
  <1>. QED  BY <1>1, Invariance, PTL

(***************************************************************************)
(* No upgrade, no failure in one and nothing the agent stores afterwards   *)
(* loses what the database held when it was found.                         *)
(***************************************************************************)
THEOREM NothingLost == MigSpec => []UpgradeKeepsData
  <1>1. IInv => UpgradeKeepsData
    <2>. SUFFICES ASSUME IInv PROVE UpgradeKeepsData
      OBVIOUS
    <2>1. Database \in DatabaseFile /\ found \in DatabaseFile
      BY DEF IInv, MigTypeOK
    <2>2. Keeps(Database)
      <3>1. CASE Ours(found)
        BY <3>1 DEF IInv, Sound
      <3>2. CASE ~Ours(found)
        <4>1. Database = found
          BY <3>2 DEF IInv
        <4>2. found.latest # Nil => found.latest.updatedAt >= found.latest.updatedAt
          BY <2>1, SMT DEF DatabaseFile, State
        <4>. QED  BY <4>1, <4>2 DEF Keeps
      <3>. QED  BY <3>1, <3>2
    <2>3. Database.events = events /\ Database.commands = commands
          /\ Database.latest = latestRow
      BY SMT DEF Database
    <2>. QED  BY <2>2, <2>3, Zenon DEF Keeps, UpgradeKeepsData
  <1>. QED  BY <1>1, Invariance, PTL

(***************************************************************************)
(* On an upgraded database the snapshot finds the device and its latest    *)
(* state, as on one that was never upgraded.                               *)
(***************************************************************************)
THEOREM UpgradedConsistent == MigSpec => []UpgradedTablesConsistent
  <1>1. IInv => UpgradedTablesConsistent
    <2>. SUFFICES ASSUME IInv, pc = "migrated" PROVE UpgradedTablesConsistent
      BY DEF UpgradedTablesConsistent
    <2>1. TablesOfVersion(Database, 2)
      BY SMT DEF IInv, Progress, Sound, Database
    <2>2. /\ latestRow # Nil =>
               /\ events[latestRow.lastEvent] # Nil
               /\ latestRow = ApplyTelemetry(ZeroState,
                                             events[latestRow.lastEvent].event)
               /\ healthRow # Nil
          /\ \A id \in EventIDs :
               /\ commands[id] # Nil => events[id] # Nil
               /\ events[id] # Nil =>
                    /\ healthRow # Nil
                    /\ events[id].disposition # "history_only" =>
                         events[id].event.time <= latestRow.updatedAt
      BY <2>1, SMT DEF TablesOfVersion, Database
    <2>3. latestRow # Nil => SnapshotState = latestRow
      BY <2>2 DEF SnapshotState
    <2>. QED  BY <2>2, <2>3 DEF UpgradedTablesConsistent
  <1>. QED  BY <1>1, Invariance, PTL

(***************************************************************************)
(* Migrating an up-to-date database changes nothing in it, at any step.    *)
(***************************************************************************)
THEOREM Idempotent == MigSpec => MigrateIsIdempotent
  <1>1. IInv /\ [MigNext]_migVars =>
          [pc = "apply" /\ version = 2 => UNCHANGED Durable]_migVars
    <2>. SUFFICES ASSUME IInv, MigNext, pc = "apply", version = 2
                  PROVE  UNCHANGED Durable
      OBVIOUS
    <2>1. tx = Database /\ tx \in DatabaseFile
      BY DEF IInv, Progress, InTx, MigTypeOK
    <2>2. CASE CommitMigrations
      BY <2>1, <2>2, SMT DEF CommitMigrations, Durable, dbVars, Database
    <2>3. CASE SkipApplied \/ ApplyMigration \/ RefuseHistory \/ StatementFails
               \/ Crash
      BY <2>3 DEF SkipApplied, ApplyMigration, RefuseHistory, StatementFails,
         Crash, Rollback
    <2>. QED  BY <2>2, <2>3 DEF MigNext, Statement, Open, BeginMigrate,
              ReadHistory, RecordMigration, Process
  <1>. QED  BY <1>1, Invariance, PTL DEF MigSpec, MigrateIsIdempotent

=============================================================================
