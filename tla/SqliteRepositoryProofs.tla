----------------------- MODULE SqliteRepositoryProofs -----------------------
(***************************************************************************)
(* CommitProcessing, taken apart into its statements, implements the       *)
(* atomic contract, and keeps the tables consistent, for every set of      *)
(* results a caller may hand over.                                         *)
(*                                                                         *)
(* Both rest on one invariant, TxIsPartOfCall: inside a transaction the    *)
(* tables are still those BeginTx copied, and the transaction's view is    *)
(* the tables with exactly those records of the result in them that the    *)
(* statements so far have written.  It needs no history variable, because  *)
(* the tables cannot change while the only connection is in a transaction. *)
(***************************************************************************)
EXTENDS SqliteRepository, RepositoryProofs

\* The tables after the records of r that CommitProcessing stores.
EventsWith(r) ==
    IF r.telemetry = Nil THEN events
    ELSE [events EXCEPT ![r.telemetry.event.id] = r.telemetry]

LatestWith(r) == IF ReplacesLatest(r) THEN r.latestState ELSE latestRow

CommandsWith(r) ==
    IF ReplacesLatest(r) /\ r.command # Nil
    THEN [commands EXCEPT ![r.command.eventID] =
             [command |-> r.command.command, createdAt |-> r.command.createdAt]]
    ELSE commands

View(e, l, c, h) == [events |-> e, latest |-> l, commands |-> c, health |-> h]

(***************************************************************************)
(* What each statement of CommitProcessing finds in the transaction.       *)
(***************************************************************************)
TxIsPartOfCall ==
    step # "idle" =>
        /\ call # Nil
        /\ ResultValid(call)
        /\ step = "telemetry" =>
             /\ call.telemetry # Nil
             /\ tx = View(events, latestRow, commands, healthRow)
        /\ step # "telemetry" => ~AlreadyStored(call)
        /\ step = "latest" =>
             /\ call.telemetry # Nil
             /\ call.latestState # Nil
             /\ tx = View(EventsWith(call), latestRow, commands, healthRow)
        /\ step = "command" =>
             /\ call.command # Nil
             /\ ReplacesLatest(call)
             /\ tx = View(EventsWith(call), LatestWith(call), commands, healthRow)
        /\ step = "health" =>
             tx = View(EventsWith(call), LatestWith(call), CommandsWith(call),
                       healthRow)
        /\ step = "commit" =>
             tx = View(EventsWith(call), LatestWith(call), CommandsWith(call),
                       call.health)

IInv == TypeOK /\ TxIsPartOfCall /\ TablesConsistent

USE ResultsAssumption, NilAssumption, NilRowAssumption, IdentityAssumption

\* A transaction's result is a valid one, so its records are well typed.
LEMMA CallRecords ==
    ASSUME IInv, step # "idle"
    PROVE  ResultRecords(call)
  BY ValidResult DEF IInv, TypeOK, TxIsPartOfCall

\* The transaction's view is a view of tables at every statement.
LEMMA ViewType ==
    ASSUME DbTypeOK, NEW r, ResultRecords(r)
    PROVE  /\ View(events, latestRow, commands, healthRow) \in TablesView
           /\ View(EventsWith(r), latestRow, commands, healthRow) \in TablesView
           /\ View(EventsWith(r), LatestWith(r), commands, healthRow) \in TablesView
           /\ View(EventsWith(r), LatestWith(r), CommandsWith(r), healthRow)
                \in TablesView
           /\ View(EventsWith(r), LatestWith(r), CommandsWith(r), r.health)
                \in TablesView
  <1>1. EventsWith(r) \in [EventIDs -> TelemetryRecord \cup {Nil}]
    BY SMT DEF DbTypeOK, ResultRecords, EventsWith
  <1>2. LatestWith(r) \in State \cup {Nil}
    BY SMT DEF DbTypeOK, ResultRecords, LatestWith, ReplacesLatest
  <1>3. CommandsWith(r) \in [EventIDs -> CommandRow \cup {Nil}]
    BY SMT DEF DbTypeOK, ResultRecords, CommandsWith, ReplacesLatest
  <1>4. r.health \in DeviceHealth
    BY DEF ResultRecords
  <1>. QED  BY <1>1, <1>2, <1>3, <1>4, SMT DEF View, TablesView, DbTypeOK

(***************************************************************************)
(* The invariant holds initially, and every step keeps it.                 *)
(***************************************************************************)
LEMMA InitIInv == Init => IInv
  <1>. SUFFICES ASSUME Init PROVE IInv
    OBVIOUS
  <1>1. TypeOK
    BY DEF Init, DbInit, TypeOK, DbTypeOK, Steps
  <1>2. TxIsPartOfCall /\ TablesConsistent
    BY DEF Init, DbInit, TxIsPartOfCall, TablesConsistent
  <1>. QED  BY <1>1, <1>2 DEF IInv

\* A call that ends with the tables as they were leaves nothing behind.
LEMMA ReturnIInv ==
    ASSUME IInv, NEW status \in {"stored", "duplicate", "failed", Nil},
           Return(status), UNCHANGED dbVars
    PROVE  IInv'
  <1>1. TypeOK'
    BY DEF IInv, TypeOK, DbTypeOK, Return, dbVars, Steps
  <1>2. TxIsPartOfCall'
    BY DEF TxIsPartOfCall, Return
  <1>3. TablesConsistent'
    BY DEF IInv, TablesConsistent, dbVars
  <1>. QED  BY <1>1, <1>2, <1>3 DEF IInv

(***************************************************************************)
(* While the tables and the call stay, so does what the call adds to them. *)
(***************************************************************************)
LEMMA ViewsUntouched ==
    ASSUME UNCHANGED <<dbVars, call, reply>>
    PROVE  /\ call' = call /\ latestRow' = latestRow
           /\ commands' = commands /\ healthRow' = healthRow
           /\ AlreadyStored(call)' = AlreadyStored(call)
           /\ ReplacesLatest(call)' = ReplacesLatest(call)
           /\ EventsWith(call)' = EventsWith(call)
           /\ LatestWith(call)' = LatestWith(call)
           /\ CommandsWith(call)' = CommandsWith(call)
  BY DEF dbVars, AlreadyStored, ReplacesLatest, EventsWith, LatestWith,
     CommandsWith

\* A statement that only works on the transaction's view.
LEMMA StatementIInv ==
    ASSUME IInv, step # "idle" \/ ResultValid(call), call # Nil,
           UNCHANGED <<dbVars, call, reply>>,
           step' \in Steps \ {"idle"}, TxIsPartOfCall'
    PROVE  IInv'
  <1>1. ResultRecords(call)
    BY CallRecords, ValidResult DEF IInv, TypeOK
  <1>2. /\ View(events, latestRow, commands, healthRow)' =
             View(events, latestRow, commands, healthRow)
        /\ EventsWith(call)' = EventsWith(call)
        /\ LatestWith(call)' = LatestWith(call)
        /\ CommandsWith(call)' = CommandsWith(call)
        /\ DbTypeOK'
    BY DEF IInv, TypeOK, DbTypeOK, dbVars, View, EventsWith, LatestWith,
       CommandsWith, ReplacesLatest
  <1>3. tx' \in TablesView
    BY <1>1, <1>2, ViewType DEF TxIsPartOfCall, Steps, IInv, TypeOK, dbVars
  <1>4. TypeOK'
    BY <1>2, <1>3, SMT DEF IInv, TypeOK
  <1>5. TablesConsistent'
    BY DEF IInv, TablesConsistent, dbVars
  <1>. QED  BY <1>4, <1>5 DEF IInv

LEMMA CallIInv == IInv /\ Call => IInv'
  <1>. SUFFICES ASSUME IInv, Call PROVE IInv'
    OBVIOUS
  <1>1. TypeOK'
    BY DEF IInv, TypeOK, DbTypeOK, Call, dbVars
  <1>2. step = "idle"
    BY DEF IInv, TxIsPartOfCall, Call
  <1>3. TxIsPartOfCall'
    BY <1>2 DEF TxIsPartOfCall, Call
  <1>4. TablesConsistent'
    BY DEF IInv, TablesConsistent, Call, dbVars
  <1>. QED  BY <1>1, <1>3, <1>4 DEF IInv

LEMMA BeginTxIInv == IInv /\ BeginTx => IInv'
  <1>. SUFFICES ASSUME IInv, BeginTx PROVE IInv'
    OBVIOUS
  <1>1. CASE call.telemetry # Nil
    <2>1. TxIsPartOfCall'
      BY <1>1, SMT DEF BeginTx, TxIsPartOfCall, Tables, View, dbVars
    <2>. QED  BY <1>1, <2>1, StatementIInv DEF BeginTx, Steps
  <1>2. CASE call.telemetry = Nil
    <2>1. ResultRecords(call)
      BY ValidResult DEF IInv, TypeOK, BeginTx
    <2>2. call.latestState = Nil /\ call.command = Nil
      BY <1>2, <2>1 DEF ResultRecords
    <2>3. TxIsPartOfCall'
      BY <1>2, <2>2, SMT DEF BeginTx, TxIsPartOfCall, Tables, View, dbVars,
         AlreadyStored, EventsWith, LatestWith, CommandsWith, ReplacesLatest
    <2>. QED  BY <1>2, <2>3, StatementIInv DEF BeginTx, Steps
  <1>. QED  BY <1>1, <1>2

LEMMA InsertTelemetryIInv == IInv /\ InsertTelemetry => IInv'
  <1>. SUFFICES ASSUME IInv, InsertTelemetry PROVE IInv'
    OBVIOUS
  <1>1. /\ call # Nil /\ ResultValid(call) /\ call.telemetry # Nil
        /\ tx = View(events, latestRow, commands, healthRow)
    BY DEF IInv, TxIsPartOfCall, InsertTelemetry
  <1>2. ResultRecords(call)
    BY CallRecords DEF InsertTelemetry
  <1>3. ~AlreadyStored(call)
    BY <1>1, SMT DEF InsertTelemetry, View, AlreadyStored
  <1>4. tx' = View(EventsWith(call), latestRow, commands, healthRow)
    BY <1>1, SMT DEF InsertTelemetry, View, EventsWith
  <1>5. CASE call.latestState # Nil
    <2>1. TxIsPartOfCall'
      BY <1>1, <1>3, <1>4, <1>5, ViewsUntouched
      DEF InsertTelemetry, TxIsPartOfCall, View
    <2>. QED  BY <1>1, <1>5, <2>1, StatementIInv DEF InsertTelemetry, Steps
  <1>6. CASE call.latestState = Nil
    <2>1. LatestWith(call) = latestRow /\ CommandsWith(call) = commands
      BY <1>6 DEF LatestWith, CommandsWith, ReplacesLatest
    <2>2. TxIsPartOfCall'
      BY <1>1, <1>3, <1>4, <1>6, <2>1, ViewsUntouched
      DEF InsertTelemetry, TxIsPartOfCall, View
    <2>. QED  BY <1>1, <1>6, <2>2, StatementIInv DEF InsertTelemetry, Steps
  <1>. QED  BY <1>5, <1>6

LEMMA ReplaceLatestIInv == IInv /\ ReplaceLatestStateIfNewer => IInv'
  <1>. SUFFICES ASSUME IInv, ReplaceLatestStateIfNewer PROVE IInv'
    OBVIOUS
  <1>1. /\ call # Nil /\ ResultValid(call) /\ call.latestState # Nil
        /\ ~AlreadyStored(call)
        /\ tx = View(EventsWith(call), latestRow, commands, healthRow)
    BY DEF IInv, TxIsPartOfCall, ReplaceLatestStateIfNewer
  <1>2. ReplacesLatest(call)
    BY <1>1, SMT DEF ReplaceLatestStateIfNewer, View, ReplacesLatest
  <1>3. tx' = View(EventsWith(call), LatestWith(call), commands, healthRow)
    BY <1>1, <1>2, SMT DEF ReplaceLatestStateIfNewer, ReplaceLatestState, View,
       LatestWith
  <1>4. CASE call.command # Nil
    <2>1. TxIsPartOfCall'
      BY <1>1, <1>2, <1>3, <1>4, ViewsUntouched
      DEF ReplaceLatestStateIfNewer, TxIsPartOfCall, View
    <2>. QED  BY <1>1, <1>4, <2>1, StatementIInv
              DEF ReplaceLatestStateIfNewer, Steps
  <1>5. CASE call.command = Nil
    <2>1. CommandsWith(call) = commands
      BY <1>5 DEF CommandsWith
    <2>2. TxIsPartOfCall'
      BY <1>1, <1>3, <1>5, <2>1, ViewsUntouched
      DEF ReplaceLatestStateIfNewer, TxIsPartOfCall, View
    <2>. QED  BY <1>1, <1>5, <2>2, StatementIInv
              DEF ReplaceLatestStateIfNewer, Steps
  <1>. QED  BY <1>4, <1>5

LEMMA KeepLatestIInv == IInv /\ KeepLatestState => IInv'
  <1>. SUFFICES ASSUME IInv, KeepLatestState PROVE IInv'
    OBVIOUS
  <1>1. /\ call # Nil /\ ResultValid(call) /\ call.latestState # Nil
        /\ ~AlreadyStored(call)
        /\ tx = View(EventsWith(call), latestRow, commands, healthRow)
    BY DEF IInv, TxIsPartOfCall, KeepLatestState
  <1>2. call.latestState \in State /\ latestRow \in State
    BY <1>1, CallRecords, SMT DEF KeepLatestState, ResultRecords, IInv, TypeOK,
       DbTypeOK, View
  <1>3. ~ReplacesLatest(call)
    BY <1>1, <1>2, SMT DEF KeepLatestState, View, ReplacesLatest, State
  <1>4. LatestWith(call) = latestRow /\ CommandsWith(call) = commands
    BY <1>3 DEF LatestWith, CommandsWith
  <1>5. TxIsPartOfCall'
    BY <1>1, <1>4, ViewsUntouched DEF KeepLatestState, TxIsPartOfCall, View
  <1>. QED  BY <1>1, <1>5, StatementIInv DEF KeepLatestState, Steps

LEMMA InsertCommandIInv == IInv /\ InsertCommand => IInv'
  <1>. SUFFICES ASSUME IInv, InsertCommand PROVE IInv'
    OBVIOUS
  <1>1. /\ call # Nil /\ ResultValid(call) /\ call.command # Nil
        /\ ~AlreadyStored(call) /\ ReplacesLatest(call)
        /\ tx = View(EventsWith(call), LatestWith(call), commands, healthRow)
    BY DEF IInv, TxIsPartOfCall, InsertCommand
  <1>2. tx' = View(EventsWith(call), LatestWith(call), CommandsWith(call),
                   healthRow)
    BY <1>1, SMT DEF InsertCommand, View, CommandsWith
  <1>3. TxIsPartOfCall'
    BY <1>1, <1>2, ViewsUntouched DEF InsertCommand, TxIsPartOfCall, View
  <1>. QED  BY <1>1, <1>3, StatementIInv DEF InsertCommand, Steps

LEMMA UpsertHealthIInv == IInv /\ UpsertHealth => IInv'
  <1>. SUFFICES ASSUME IInv, UpsertHealth PROVE IInv'
    OBVIOUS
  <1>1. /\ call # Nil /\ ResultValid(call) /\ ~AlreadyStored(call)
        /\ tx = View(EventsWith(call), LatestWith(call), CommandsWith(call),
                     healthRow)
    BY DEF IInv, TxIsPartOfCall, UpsertHealth
  <1>2. tx' = View(EventsWith(call), LatestWith(call), CommandsWith(call),
                   call.health)
    BY <1>1, SMT DEF UpsertHealth, View
  <1>3. TxIsPartOfCall'
    BY <1>1, <1>2, ViewsUntouched DEF UpsertHealth, TxIsPartOfCall, View
  <1>. QED  BY <1>1, <1>3, StatementIInv DEF UpsertHealth, Steps

(***************************************************************************)
(* The commit makes the whole result durable in one step: this is where    *)
(* the statements together do what the contract's Store does at once.      *)
(***************************************************************************)
LEMMA CommitStores ==
    ASSUME IInv, CommitTx
    PROVE  /\ call # Nil
           /\ ResultValid(call)
           /\ ResultRecords(call)
           /\ ~AlreadyStored(call)
           /\ StoreResult(call)
  <1>1. /\ call # Nil /\ ResultValid(call) /\ ~AlreadyStored(call)
        /\ tx = View(EventsWith(call), LatestWith(call), CommandsWith(call),
                     call.health)
    BY DEF IInv, TxIsPartOfCall, CommitTx
  <1>2. ResultRecords(call)
    BY CallRecords DEF CommitTx
  <1>3. StoreResult(call)
    BY <1>1, SMT DEF CommitTx, View, StoreResult, EventsWith, LatestWith,
       CommandsWith
  <1>. QED  BY <1>1, <1>2, <1>3

\* Storing a whole, new and valid result keeps the tables consistent.
LEMMA StoreKeepsConsistent ==
    ASSUME DbTypeOK, TablesConsistent, NEW r, ResultRecords(r),
           AcceptedWithState(r), ~AlreadyStored(r), StoreResult(r)
    PROVE  TablesConsistent'
  <1>1. ASSUME NEW id \in EventIDs, events[id] # Nil
        PROVE  events'[id] = events[id]
    BY <1>1, SMT DEF StoreResult, AlreadyStored, ResultRecords, DbTypeOK
  <1>2. ASSUME r.telemetry # Nil
        PROVE  events'[r.telemetry.event.id] = r.telemetry
    BY <1>2, SMT DEF StoreResult, ResultRecords, DbTypeOK
  <1>3. ASSUME NEW id \in EventIDs, events'[id] # Nil, events[id] = Nil
        PROVE  r.telemetry # Nil /\ id = r.telemetry.event.id
    BY <1>3, SMT DEF StoreResult, ResultRecords, DbTypeOK
  <1>4. healthRow' # Nil
    BY DEF StoreResult, ResultRecords
  <1>5. latestRow' # Nil =>
          /\ events'[latestRow'.lastEvent] # Nil
          /\ events'[latestRow'.lastEvent].disposition = "accepted"
          /\ latestRow' = ApplyTelemetry(ZeroState,
                                         events'[latestRow'.lastEvent].event)
    <2>1. CASE ReplacesLatest(r)
      BY <1>2, <2>1 DEF StoreResult, ResultRecords, ReplacesLatest
    <2>2. CASE ~ReplacesLatest(r)
      <3>1. latestRow' = latestRow
        BY <2>2 DEF StoreResult
      <3>2. latestRow # Nil => latestRow.lastEvent \in EventIDs
        BY SMT DEF DbTypeOK, State
      <3>. QED  BY <1>1, <3>1, <3>2 DEF TablesConsistent
    <2>. QED  BY <2>1, <2>2
  <1>6. ASSUME NEW id \in EventIDs, commands'[id] # Nil
        PROVE  events'[id] # Nil /\ events'[id].disposition = "accepted"
    <2>1. CASE commands[id] # Nil
      BY <1>1, <2>1 DEF TablesConsistent
    <2>2. CASE commands[id] = Nil
      <3>1. r.command # Nil /\ id = r.command.eventID
        BY <1>6, <2>2, SMT DEF StoreResult, DbTypeOK
      <3>. QED  BY <1>2, <3>1 DEF ResultRecords
    <2>. QED  BY <2>1, <2>2
  <1>7. ASSUME NEW id \in EventIDs, events'[id] # Nil,
               events'[id].disposition = "accepted"
        PROVE  latestRow' # Nil /\ events'[id].event.time <= latestRow'.updatedAt
    <2>1. latestRow # Nil =>
            /\ latestRow' # Nil
            /\ latestRow \in State /\ latestRow' \in State
            /\ latestRow.updatedAt <= latestRow'.updatedAt
      <3>1. CASE ReplacesLatest(r)
        BY <3>1, SMT DEF StoreResult, ReplacesLatest, ResultRecords, DbTypeOK,
           State
      <3>2. CASE ~ReplacesLatest(r)
        BY <3>2, SMT DEF StoreResult, DbTypeOK, State
      <3>. QED  BY <3>1, <3>2
    <2>2. CASE events[id] # Nil
      <3>1. /\ latestRow # Nil
            /\ events[id].event.time <= latestRow.updatedAt
            /\ events'[id] = events[id]
        BY <1>1, <1>7, <2>2 DEF TablesConsistent
      <3>2. events[id].event.time \in Nat
        BY <2>2, SMT DEF DbTypeOK, TelemetryRecord, Telemetry
      <3>. QED  BY <2>1, <3>1, <3>2, SMT DEF State
    <2>3. CASE events[id] = Nil
      <3>1. r.telemetry # Nil /\ id = r.telemetry.event.id /\ events'[id] = r.telemetry
        BY <1>2, <1>3, <1>7, <2>3
      <3>2. r.latestState # Nil /\ r.latestState \in State
            /\ r.latestState.updatedAt = r.telemetry.event.time
        BY <1>7, <3>1 DEF AcceptedWithState, ResultRecords
      <3>3. CASE ReplacesLatest(r)
        BY <3>1, <3>2, <3>3, SMT DEF StoreResult, State
      <3>4. CASE ~ReplacesLatest(r)
        BY <3>1, <3>2, <3>4, SMT DEF StoreResult, ReplacesLatest, State, DbTypeOK
      <3>. QED  BY <3>3, <3>4
    <2>. QED  BY <2>2, <2>3
  <1>. QED  BY <1>4, <1>5, <1>6, <1>7 DEF TablesConsistent

LEMMA CommitTxIInv == IInv /\ CommitTx => IInv'
  <1>. SUFFICES ASSUME IInv, CommitTx PROVE IInv'
    OBVIOUS
  <1>1. /\ call \in Results /\ ResultValid(call) /\ ResultRecords(call)
        /\ ~AlreadyStored(call) /\ StoreResult(call)
    BY CommitStores DEF IInv, TypeOK
  <1>2. DbTypeOK'
    BY <1>1, StoreResultType DEF IInv, TypeOK
  <1>3. TypeOK'
    BY <1>2 DEF TypeOK, CommitTx, Return, Steps
  <1>4. TxIsPartOfCall'
    BY DEF TxIsPartOfCall, CommitTx, Return
  <1>5. TablesConsistent'
    BY <1>1, CallerAssumption, StoreKeepsConsistent DEF IInv, TypeOK
  <1>. QED  BY <1>3, <1>4, <1>5 DEF IInv

LEMMA NextIInv == IInv /\ [Next]_vars => IInv'
  <1>. SUFFICES ASSUME IInv, [Next]_vars PROVE IInv'
    OBVIOUS
  <1>1. CASE Refuse \/ RollbackDuplicate \/ Fail \/ Crash
    BY <1>1, ReturnIInv DEF Refuse, RollbackDuplicate, Fail, Crash
  <1>2. CASE UNCHANGED vars
    BY <1>2 DEF vars, txVars, dbVars, IInv, TypeOK, DbTypeOK, TxIsPartOfCall,
       TablesConsistent, AlreadyStored, View, EventsWith, LatestWith,
       CommandsWith, ReplacesLatest
  <1>. QED  BY <1>1, <1>2, CallIInv, BeginTxIInv, InsertTelemetryIInv,
               ReplaceLatestIInv, KeepLatestIInv, InsertCommandIInv,
               UpsertHealthIInv, CommitTxIInv DEF Next, Statement

(***************************************************************************)
(* Every reachable state, between any two statements of CommitProcessing,  *)
(* satisfies the inductive invariant.                                      *)
(***************************************************************************)
THEOREM Invariance == Spec => []IInv
  BY InitIInv, NextIInv, PTL DEF Spec

(***************************************************************************)
(* The repository's state is always well typed, the transaction's view of  *)
(* the tables included, and a transaction is open exactly inside a call.   *)
(***************************************************************************)
THEOREM RepositoryTypeOK == Spec => []TypeOK
  BY Invariance, PTL DEF IInv

(***************************************************************************)
(* Whatever results are handed over, whichever statement fails and         *)
(* whenever the process is killed, the durable tables refer to each other  *)
(* as the foreign keys and Snapshot's join need.                           *)
(***************************************************************************)
THEOREM TablesStayConsistent == Spec => []TablesConsistent
  BY Invariance, PTL DEF IInv

(***************************************************************************)
(* The contract's operators are the same ones in both modules.             *)
(***************************************************************************)
LEMMA SameContract ==
    ASSUME NEW r
    PROVE  /\ Atomic!ResultValid(r) <=> ResultValid(r)
           /\ Atomic!AlreadyStored(r) <=> AlreadyStored(r)
           /\ Atomic!StoreResult(r) <=> StoreResult(r)
           /\ Atomic!dbVars = dbVars
  <1>1. Atomic!ResultValid(r) <=> ResultValid(r)
    <2>1. \A t : Atomic!TelemetryValid(t) <=> TelemetryValid(t)
      BY DEF Atomic!TelemetryValid, TelemetryValid, Atomic!MeasurementsValid,
         MeasurementsValid, Atomic!ZeroTime, ZeroTime, Atomic!MaximumSOC,
         MaximumSOC
    <2>2. \A t : Atomic!ApplyTelemetry(Atomic!ZeroState, t) =
                   ApplyTelemetry(ZeroState, t)
      BY DEF Atomic!ApplyTelemetry, ApplyTelemetry, Atomic!NotNewer, NotNewer,
         Atomic!ZeroState, ZeroState, Atomic!ZeroTime, ZeroTime
    <2>3. \A c : Atomic!CommandValid(c) <=> CommandValid(c)
      BY DEF Atomic!CommandValid, CommandValid
    <2>. QED  BY <2>1, <2>2, <2>3
              DEF Atomic!ResultValid, ResultValid, Atomic!TelemetryRecordValid,
              TelemetryRecordValid, Atomic!LatestStateValid, LatestStateValid,
              Atomic!CommandRecordValid, CommandRecordValid, Atomic!Statuses,
              Statuses, Atomic!ZeroTime, ZeroTime
  <1>2. Atomic!AlreadyStored(r) <=> AlreadyStored(r)
    BY DEF Atomic!AlreadyStored, AlreadyStored
  <1>3. Atomic!StoreResult(r) <=> StoreResult(r)
    BY DEF Atomic!StoreResult, StoreResult, Atomic!ReplacesLatest, ReplacesLatest
  <1>4. Atomic!dbVars = dbVars
    BY DEF Atomic!dbVars, dbVars
  <1>. QED  BY <1>1, <1>2, <1>3, <1>4

(***************************************************************************)
(* Every statement is a step of the contract or, while the transaction is  *)
(* open, none.                                                             *)
(***************************************************************************)
LEMMA StepImplementsAtomic ==
    IInv /\ [Next]_vars => [Atomic!Next]_<<Atomic!dbVars, Atomic!callVars>>
  <1>. SUFFICES ASSUME IInv, Next
                PROVE  \/ Atomic!Next
                       \/ UNCHANGED <<Atomic!dbVars, Atomic!callVars>>
    BY DEF vars, txVars, dbVars, Atomic!dbVars, Atomic!callVars
  <1>. USE DEF Atomic!Next, Atomic!Finish, Atomic!dbVars, Atomic!callVars, dbVars
  <1>1. CASE Call
    BY <1>1 DEF Call, Atomic!Call
  <1>2. CASE Refuse \/ Fail
    BY <1>2 DEF Refuse, Fail, Return, Atomic!Fail, Atomic!Return
  <1>3. CASE RollbackDuplicate
    <2>1. call # Nil /\ ResultValid(call) /\ AlreadyStored(call)
      BY <1>3, SMT DEF RollbackDuplicate, IInv, TxIsPartOfCall, View,
         AlreadyStored
    <2>. QED  BY <1>3, <2>1, SameContract
              DEF RollbackDuplicate, Return, Atomic!Duplicate, Atomic!Return
  <1>4. CASE CommitTx
    <2>1. Atomic!Store
      BY <1>4, CommitStores, SameContract
      DEF CommitTx, Return, Atomic!Store, Atomic!Return
    <2>. QED  BY <2>1
  <1>5. CASE Crash
    BY <1>5 DEF Crash, Return, Atomic!Crash, Atomic!Return
  <1>6. CASE BeginTx \/ InsertTelemetry \/ ReplaceLatestStateIfNewer
             \/ KeepLatestState \/ InsertCommand \/ UpsertHealth
    BY <1>6 DEF BeginTx, InsertTelemetry, ReplaceLatestStateIfNewer,
       KeepLatestState, InsertCommand, UpsertHealth
  <1>. QED  BY <1>1, <1>2, <1>3, <1>4, <1>5, <1>6 DEF Next, Statement

(***************************************************************************)
(* sqlite.Repository implements the safety part of the contract of         *)
(* persistence.Repository: no failure or crash between two statements      *)
(* leaves a part of a result durable, a duplicate changes nothing, and the *)
(* reply says which of the three happened.                                 *)
(***************************************************************************)
THEOREM ImplementsAtomic == Spec => Atomic!Safety
  <1>1. Init => Atomic!Init
    BY DEF Init, DbInit, Atomic!Init, Atomic!DbInit
  <1>. QED  BY <1>1, Invariance, StepImplementsAtomic, PTL DEF Spec, Atomic!Safety

=============================================================================
