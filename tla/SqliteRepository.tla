-------------------------- MODULE SqliteRepository --------------------------
(***************************************************************************)
(* sqlite.Repository.CommitProcessing statement by statement.  The         *)
(* statements work on the transaction's own view of the tables; only the   *)
(* commit makes them durable.  Any statement can fail (an I/O error, a     *)
(* constraint, the caller's deadline), and the deferred rollback then      *)
(* drops the view, as a crash of the process does.                         *)
(***************************************************************************)
EXTENDS Repository

CONSTANT Results    \* the observation results a caller may hand over

ASSUME ResultsAssumption ==
    /\ Results \subseteq RawResult
    /\ Nil \notin Results

ASSUME CallerAssumption ==
    \A r \in Results : ResultValid(r) => AcceptedWithState(r)

VARIABLES
    call,    \* the result being committed, or Nil
    reply,   \* what the last call returned
    step,    \* the statement the transaction is at; "idle" outside of one
    tx       \* the transaction's view of the four tables, or Nil

txVars == <<call, reply, step, tx>>

vars == <<dbVars, txVars>>

Steps == {"idle", "telemetry", "latest", "command", "health", "commit"}

Tables == [events |-> events, latest |-> latestRow, commands |-> commands,
           health |-> healthRow]

Init ==
    /\ DbInit
    /\ call = Nil
    /\ reply = Nil
    /\ step = "idle"
    /\ tx = Nil

Return(status) ==
    /\ call' = Nil
    /\ reply' = status
    /\ step' = "idle"
    /\ tx' = Nil

Call ==
    /\ call = Nil
    /\ \E r \in Results : call' = r
    /\ reply' = Nil
    /\ UNCHANGED <<dbVars, step, tx>>

Refuse ==
    /\ call # Nil
    /\ step = "idle"
    /\ ~ResultValid(call)
    /\ Return("failed")
    /\ UNCHANGED dbVars

BeginTx ==
    /\ call # Nil
    /\ step = "idle"
    /\ ResultValid(call)
    /\ step' = IF call.telemetry # Nil THEN "telemetry" ELSE "health"
    /\ tx' = Tables
    /\ UNCHANGED <<dbVars, call, reply>>

InsertTelemetry ==
    /\ step = "telemetry"
    /\ tx.events[call.telemetry.event.id] = Nil
    /\ tx' = [tx EXCEPT !.events[call.telemetry.event.id] = call.telemetry]
    /\ step' = IF call.latestState # Nil THEN "latest" ELSE "health"
    /\ UNCHANGED <<dbVars, call, reply>>

\* Mutant: a duplicate skips its records but not the health.
RollbackDuplicate_KeepsHealth ==
    /\ step = "telemetry"
    /\ tx.events[call.telemetry.event.id] # Nil
    /\ step' = "health"
    /\ UNCHANGED <<dbVars, call, reply, tx>>

\* Mutant: a duplicate returns and leaves its transaction open.
RollbackDuplicate_LeavesOpen ==
    /\ step = "telemetry"
    /\ tx.events[call.telemetry.event.id] # Nil
    /\ call' = Nil
    /\ reply' = "duplicate"
    /\ step' = "idle"
    /\ UNCHANGED <<dbVars, tx>>

\* The insert found its event ID taken: roll back, and that is no error.
RollbackDuplicate ==
    /\ step = "telemetry"
    /\ tx.events[call.telemetry.event.id] # Nil
    /\ Return("duplicate")
    /\ UNCHANGED dbVars

ReplaceLatestState(view, s) == [view EXCEPT !.latest = s]

\* Mutant: the stored state is replaced whatever its time.
ReplaceLatestStateIfNewer_Always ==
    /\ step = "latest"
    /\ tx' = ReplaceLatestState(tx, call.latestState)
    /\ step' = IF call.command # Nil THEN "command" ELSE "health"
    /\ UNCHANGED <<dbVars, call, reply>>

ReplaceLatestStateIfNewer ==
    /\ step = "latest"
    /\ tx.latest # Nil => call.latestState.updatedAt > tx.latest.updatedAt
    /\ tx' = ReplaceLatestState(tx, call.latestState)
    /\ step' = IF call.command # Nil THEN "command" ELSE "health"
    /\ UNCHANGED <<dbVars, call, reply>>

KeepLatestState ==
    /\ step = "latest"
    /\ tx.latest # Nil
    /\ call.latestState.updatedAt <= tx.latest.updatedAt
    /\ step' = "health"
    /\ UNCHANGED <<dbVars, call, reply, tx>>

InsertCommand ==
    /\ step = "command"
    /\ tx' = [tx EXCEPT !.commands[call.command.eventID] =
                [command |-> call.command.command,
                 createdAt |-> call.command.createdAt]]
    /\ step' = "health"
    /\ UNCHANGED <<dbVars, call, reply>>

UpsertHealth ==
    /\ step = "health"
    /\ tx' = [tx EXCEPT !.health = call.health]
    /\ step' = "commit"
    /\ UNCHANGED <<dbVars, call, reply>>

CommitTx ==
    /\ step = "commit"
    /\ events' = tx.events
    /\ latestRow' = tx.latest
    /\ commands' = tx.commands
    /\ healthRow' = tx.health
    /\ Return("stored")

\* BeginTx, a statement or the commit fails; the deferred rollback runs.
Fail ==
    /\ call # Nil
    /\ ResultValid(call)
    /\ Return("failed")
    /\ UNCHANGED dbVars

Crash ==
    /\ Return(Nil)
    /\ UNCHANGED dbVars

Statement ==
    \/ Refuse
    \/ BeginTx
    \/ InsertTelemetry \/ RollbackDuplicate
    \/ ReplaceLatestStateIfNewer \/ KeepLatestState
    \/ InsertCommand
    \/ UpsertHealth
    \/ CommitTx
    \/ Fail

Next == Call \/ Statement \/ Crash

\* A statement returns, if only with the error of the caller's deadline.
Spec == Init /\ [][Next]_vars /\ WF_vars(Statement)

(***************************************************************************)
(* Properties.                                                             *)
(***************************************************************************)
TypeOK ==
    /\ DbTypeOK
    /\ call \in Results \cup {Nil}
    /\ reply \in {"stored", "duplicate", "failed", Nil}
    /\ step \in Steps
    /\ tx \in TablesView \cup {Nil}
    /\ step = "idle" <=> tx = Nil

\* A caller sees the tables, the call and the reply, not the transaction.
Atomic == INSTANCE AtomicRepository WITH
              events <- events, latestRow <- latestRow, commands <- commands,
              healthRow <- healthRow, call <- call, reply <- reply

(***************************************************************************)
(* CommitProcessing implements the contract of persistence.Repository: no  *)
(* failure or crash between two statements leaves a part of a result       *)
(* durable, a duplicate changes nothing, and the reply says which of the   *)
(* three happened.                                                         *)
(***************************************************************************)
AtomicSpec == Atomic!Spec

(***************************************************************************)
(* The tables always refer to each other as the schema's foreign keys and  *)
(* the snapshot's join need: whatever results callers hand over, valid or  *)
(* not and in any order, the latest state comes from a stored accepted     *)
(* event and is at least as new as every other accepted one, a command has *)
(* an accepted event, and a device with any record has a health row, so    *)
(* that Snapshot finds the latest state.                                   *)
(***************************************************************************)
TablesConsistent ==
    /\ latestRow # Nil =>
         /\ events[latestRow.lastEvent] # Nil
         /\ events[latestRow.lastEvent].disposition = "accepted"
         /\ latestRow = ApplyTelemetry(ZeroState,
                                       events[latestRow.lastEvent].event)
    /\ \A id \in EventIDs :
         /\ commands[id] # Nil =>
              events[id] # Nil /\ events[id].disposition = "accepted"
         /\ events[id] # Nil => healthRow # Nil
         /\ events[id] # Nil /\ events[id].disposition = "accepted" =>
              latestRow # Nil /\ events[id].event.time <= latestRow.updatedAt

=============================================================================
