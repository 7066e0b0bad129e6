----------------------------- MODULE Repository -----------------------------
(***************************************************************************)
(* What internal/persistence promises and its SQLite adapter implements:   *)
(* the durable records of one household's database, their validation, the  *)
(* snapshot a starting agent restores, and the effect of one committed     *)
(* observation result.  The effect is one step here; SqliteRepository      *)
(* takes the transaction apart and is shown to implement it.               *)
(*                                                                         *)
(* Event times, receive times and health times are stored as RFC 3339      *)
(* text with nanoseconds.  Validation lets only UTC instants through and   *)
(* their text parses back to the same UTC instant (the zero time           *)
(* included), so a row holds the instant itself.                           *)
(***************************************************************************)
EXTENDS Household

VARIABLES
    events,      \* telemetry_events: by event ID, a TelemetryRecord or Nil
    latestRow,   \* latest_device_states of the device: a State or Nil
    commands,    \* commands: by event ID, a CommandRow or Nil
    healthRow    \* device_health of the device: a DeviceHealth or Nil

dbVars == <<events, latestRow, commands, healthRow>>

TelemetryRecord == [event: Telemetry, recv: Nat \ {0},
                    disposition: {"accepted", "history_only"}]

CommandRecord == [eventID: EventIDs, command: Command, createdAt: Nat \ {0}]

CommandRow == [command: Command, createdAt: Nat \ {0}]

\* What a caller can hand to CommitProcessing before anything is validated.
RawResult ==
    [device: Devices \cup {Nil},
     telemetry: [event: RawTelemetry, recv: Nat, disposition: Dispositions]
                \cup {Nil},
     latestState: State \cup {ZeroState, Nil},
     command: [eventID: EventIDs \cup {Nil},
               command: [decision: Decisions, power: Int], createdAt: Nat]
              \cup {Nil},
     health: [status: Statuses \cup {Nil}, transition: Nat, contact: Nat]]

(***************************************************************************)
(* Validate lets an accepted event without its state through; the runtime, *)
(* the only caller, always adds the state (buildObservationResult).        *)
(***************************************************************************)
AcceptedWithState(r) ==
    r.telemetry # Nil /\ r.telemetry.disposition = "accepted" =>
        r.latestState # Nil

\* The content of the four tables, as a transaction sees it.
TablesView ==
    [events: [EventIDs -> TelemetryRecord \cup {Nil}],
     latest: State \cup {Nil},
     commands: [EventIDs -> CommandRow \cup {Nil}],
     health: DeviceHealth \cup {Nil}]

ASSUME NilRowAssumption ==
    /\ Nil \notin TelemetryRecord
    /\ Nil \notin CommandRecord
    /\ Nil \notin CommandRow
    /\ Nil \notin TablesView

DbTypeOK ==
    /\ events \in [EventIDs -> TelemetryRecord \cup {Nil}]
    /\ latestRow \in State \cup {Nil}
    /\ commands \in [EventIDs -> CommandRow \cup {Nil}]
    /\ healthRow \in DeviceHealth \cup {Nil}

DbInit ==
    /\ events = [id \in EventIDs |-> Nil]
    /\ latestRow = Nil
    /\ commands = [id \in EventIDs |-> Nil]
    /\ healthRow = Nil

(***************************************************************************)
(* ObservationResult.Validate.                                             *)
(***************************************************************************)
\* Mutant: the device of the event is not compared.
TelemetryRecordValid_AnyDevice(device, t) ==
    /\ TelemetryValid(t.event)
    /\ t.event.utc
    /\ t.recv # ZeroTime
    /\ t.disposition \in {"accepted", "history_only"}

TelemetryRecordValid(device, t) ==
    /\ TelemetryValid(t.event)
    /\ t.event.utc
    /\ t.recv # ZeroTime
    /\ t.event.device = device
    /\ t.disposition \in {"accepted", "history_only"}

LatestStateValid(r) ==
    /\ r.telemetry # Nil
    /\ r.telemetry.disposition = "accepted"
    /\ r.latestState = ApplyTelemetry(ZeroState, r.telemetry.event)

CommandRecordValid(r) ==
    /\ r.latestState # Nil
    /\ r.command.eventID = r.telemetry.event.id
    /\ CommandValid(r.command.command)
    /\ r.command.createdAt # ZeroTime

ResultValid(r) ==
    /\ r.device # Nil
    /\ r.telemetry # Nil => TelemetryRecordValid(r.device, r.telemetry)
    /\ r.latestState # Nil => LatestStateValid(r)
    /\ r.command # Nil => CommandRecordValid(r)
    /\ r.health.status \in Statuses
    /\ r.health.transition # ZeroTime

(***************************************************************************)
(* Repository.Snapshot: a LEFT JOIN from the device's health row, so a     *)
(* latest state without a health row would not be found.                   *)
(***************************************************************************)
SnapshotState ==
    IF healthRow = Nil \/ latestRow = Nil THEN ZeroState ELSE latestRow

SnapshotHealth == IF healthRow = Nil THEN ZeroHealth ELSE healthRow

(***************************************************************************)
(* CommitProcessing of a valid result r: a known event ID makes it a       *)
(* duplicate that changes nothing; otherwise all records r carries become  *)
(* durable together, the latest state and the command only if r's state    *)
(* is strictly newer than the stored one.                                  *)
(***************************************************************************)
\* Mutant: a known event ID is written again.
AlreadyStored_Never(r) == FALSE

AlreadyStored(r) == r.telemetry # Nil /\ events[r.telemetry.event.id] # Nil

\* Mutant: the comparison of the stored and the new state is the wrong way.
ReplacesLatest_Reversed(r) ==
    /\ r.latestState # Nil
    /\ latestRow # Nil => r.latestState.updatedAt < latestRow.updatedAt

ReplacesLatest(r) ==
    /\ r.latestState # Nil
    /\ latestRow # Nil => r.latestState.updatedAt > latestRow.updatedAt

StoreResult(r) ==
    /\ events' = IF r.telemetry = Nil THEN events
                 ELSE [events EXCEPT ![r.telemetry.event.id] = r.telemetry]
    /\ latestRow' = IF ReplacesLatest(r) THEN r.latestState ELSE latestRow
    /\ commands' = IF ReplacesLatest(r) /\ r.command # Nil
                   THEN [commands EXCEPT ![r.command.eventID] =
                           [command |-> r.command.command,
                            createdAt |-> r.command.createdAt]]
                   ELSE commands
    /\ healthRow' = r.health

=============================================================================
