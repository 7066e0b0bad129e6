--------------------------- MODULE EdgeAgentProofs ---------------------------
(***************************************************************************)
(* The agent's safety properties, proved for every set of envelopes a      *)
(* source can deliver, every pace, bound and interval, and any number of   *)
(* crashes and restarts.                                                   *)
(*                                                                         *)
(* None of the properties is inductive alone.  A command is recorded       *)
(* exactly when the repository finds the result's state newer than the     *)
(* stored one, while the agent decided on it by its own copy of the state, *)
(* so "applied implies recorded" rests on MemoryMatchesDatabase; that in   *)
(* turn rests on the join of Snapshot finding every latest state           *)
(* (HealthPresent).  What is in flight between two steps is tied to the    *)
(* database by InFlight and Report.                                        *)
(***************************************************************************)
EXTENDS EdgeAgent, RepositoryProofs

(***************************************************************************)
(* Where the run is tells what it holds.                                   *)
(***************************************************************************)
Control ==
    /\ pc # "down" => exit = Nil
    /\ pc = "commit" => cur # Nil
    /\ pc \in {"apply", "write"} => out # Nil

HealthPresent == latestRow # Nil => healthRow # Nil

(***************************************************************************)
(* An observation on its way to the commit was classified against the      *)
(* state and the health the agent still has.                               *)
(***************************************************************************)
InFlight ==
    pc = "commit" =>
        /\ ClassifiedAgainst(cur.class, cur.recv, state)
        /\ cur.command = DecidedCommand(cur.class)
        /\ health \in DeviceHealth /\ cur.class.health.status = health.status =>
             cur.class.health.transition = health.transition

(***************************************************************************)
(* The outcome of a committed interval, before and after the battery got   *)
(* its command.                                                            *)
(***************************************************************************)
Report ==
    pc \in {"apply", "write"} =>
        /\ out.storedHistory =>
             /\ events[out.telemetry.id] # Nil
             /\ events[out.telemetry.id].event = out.telemetry
             /\ events[out.telemetry.id].disposition = out.disposition
        /\ out.stateUpdated =>
             latestRow = ApplyTelemetry(ZeroState, out.telemetry)
        /\ out.disposition = "duplicate" => events[out.telemetry.id] # Nil
        /\ out.health = SnapshotHealth
        /\ out.command # Nil =>
             /\ out.telemetry # Nil
             /\ commands[out.telemetry.id] # Nil
             /\ commands[out.telemetry.id].command = out.command
             /\ applied[out.telemetry.id] = IF pc = "write" THEN 1 ELSE 0

(***************************************************************************)
(* A command of this run has reached the battery, is about to, or its run  *)
(* has failed or crashed.                                                  *)
(***************************************************************************)
MineDelivered ==
    \A id \in mine :
        /\ commands[id] # Nil
        /\ \/ applied[id] = 1
           \/ pc = "apply" /\ out.command # Nil /\ out.telemetry.id = id
           \/ pc = "down" /\ exit \in {"failed", "crashed"}

(***************************************************************************)
(* The observation taken after cancellation is the last: the run does not  *)
(* get past the next check.                                                *)
(***************************************************************************)
LateIsLast ==
    late # 0 => /\ late = 1
                /\ cancelled
                /\ pc \in {"commit", "apply", "write", "check", "down"}

IInv ==
    /\ TypeOK
    /\ Control
    /\ MemoryMatchesDatabase
    /\ HealthPresent
    /\ LatestIsNewest
    /\ CommandsTraceable
    /\ AppliedOnceAndRecorded
    /\ InFlight
    /\ Report
    /\ MineDelivered
    /\ LateIsLast

USE AgentAssumption, NilAssumption, NilRowAssumption, NilRunAssumption,
    IdentityAssumption, IntervalAssumption

(***************************************************************************)
(* The initial state.                                                      *)
(***************************************************************************)
LEMMA InitIInv == Init => IInv
  <1>. SUFFICES ASSUME Init PROVE IInv
    OBVIOUS
  <1>1. TypeOK
    BY DEF Init, DbInit, TypeOK, DbTypeOK, Locations
  <1>2. Control /\ MemoryMatchesDatabase /\ HealthPresent /\ InFlight /\ Report
        /\ MineDelivered /\ LateIsLast
    BY DEF Init, DbInit, Control, MemoryMatchesDatabase, Running, HealthPresent,
       InFlight, Report, MineDelivered, LateIsLast
  <1>3. LatestIsNewest /\ CommandsTraceable /\ AppliedOnceAndRecorded
    BY DEF Init, DbInit, LatestIsNewest, CommandsTraceable,
       AppliedOnceAndRecorded
  <1>. QED  BY <1>1, <1>2, <1>3 DEF IInv

(***************************************************************************)
(* The three invariants of the tables alone survive a step that leaves the *)
(* tables and the battery alone.                                           *)
(***************************************************************************)
LEMMA TablesUntouched ==
    ASSUME IInv, UNCHANGED <<dbVars, applied>>
    PROVE  /\ HealthPresent' /\ LatestIsNewest' /\ CommandsTraceable'
           /\ AppliedOnceAndRecorded' /\ DbTypeOK'
           /\ SnapshotState' = SnapshotState /\ SnapshotHealth' = SnapshotHealth
  BY DEF IInv, TypeOK, DbTypeOK, dbVars, HealthPresent, LatestIsNewest,
     CommandsTraceable, AppliedOnceAndRecorded, SnapshotState, SnapshotHealth

(***************************************************************************)
(* The end of a run, for whatever reason, as long as a command that was    *)
(* committed and not yet applied is not passed off as a clean stop.        *)
(***************************************************************************)
LEMMA FinishIInv ==
    ASSUME IInv, NEW how \in Exits, Finish(how), UNCHANGED dbVars,
           pc # "down", pc = "apply" => how \in {"failed", "crashed"}
    PROVE  IInv'
  <1>1. HealthPresent' /\ LatestIsNewest' /\ CommandsTraceable'
        /\ AppliedOnceAndRecorded' /\ DbTypeOK'
    BY TablesUntouched DEF Finish
  <1>2. TypeOK'
    BY <1>1 DEF IInv, TypeOK, Finish, Locations
  <1>3. Control' /\ MemoryMatchesDatabase' /\ InFlight' /\ Report'
    BY DEF Finish, Control, MemoryMatchesDatabase, Running, InFlight, Report
  <1>4. MineDelivered'
    BY DEF IInv, MineDelivered, Finish, dbVars
  <1>5. LateIsLast'
    BY DEF IInv, LateIsLast, Finish
  <1>. QED  BY <1>1, <1>2, <1>3, <1>4, <1>5 DEF IInv

\* A start resets the history of the run and touches no table.
LEMMA StartIInv == IInv /\ Start => IInv'
  <1>. SUFFICES ASSUME IInv, Start PROVE IInv'
    OBVIOUS
  <1>1. HealthPresent' /\ LatestIsNewest' /\ CommandsTraceable'
        /\ AppliedOnceAndRecorded' /\ DbTypeOK'
    BY TablesUntouched DEF Start
  <1>2. now' \in Nat \ {0}
    BY DEF IInv, TypeOK, Start
  <1>3. TypeOK'
    BY <1>1, <1>2 DEF IInv, TypeOK, Start, Locations, memVars
  <1>4. Control' /\ MemoryMatchesDatabase' /\ InFlight' /\ Report'
        /\ MineDelivered' /\ LateIsLast'
    BY DEF Start, Control, MemoryMatchesDatabase, Running, InFlight, Report,
       MineDelivered, LateIsLast
  <1>. QED  BY <1>1, <1>3, <1>4 DEF IInv

\* What a starting run restores is a well-typed state and health.
LEMMA SnapshotType ==
    ASSUME DbTypeOK
    PROVE  /\ SnapshotState \in State \cup {ZeroState}
           /\ SnapshotHealth \in DeviceHealth \cup {ZeroHealth}
  BY DEF DbTypeOK, SnapshotState, SnapshotHealth

\* After the restore, memory is the snapshot, so it matches the database.
LEMMA RestoreIInv == IInv /\ Restore => IInv'
  <1>. SUFFICES ASSUME IInv, Restore PROVE IInv'
    OBVIOUS
  <1>1. /\ HealthPresent' /\ LatestIsNewest' /\ CommandsTraceable'
        /\ AppliedOnceAndRecorded' /\ DbTypeOK'
        /\ SnapshotState' = SnapshotState /\ SnapshotHealth' = SnapshotHealth
    BY TablesUntouched DEF Restore
  <1>2. TypeOK'
    BY <1>1, SnapshotType DEF IInv, TypeOK, Restore, Locations
  <1>3. Control' /\ MemoryMatchesDatabase' /\ InFlight' /\ Report'
    BY <1>1 DEF IInv, Restore, Control, MemoryMatchesDatabase, Running,
       InFlight, Report
  <1>4. MineDelivered' /\ LateIsLast'
    BY DEF IInv, Restore, MineDelivered, LateIsLast, dbVars
  <1>. QED  BY <1>1, <1>2, <1>3, <1>4 DEF IInv

(***************************************************************************)
(* Steps that move the run on and touch nothing else it holds: the check,  *)
(* the tick, and the cancellation.                                         *)
(***************************************************************************)
LEMMA CheckNextIInv == IInv /\ CheckNext => IInv'
  <1>. SUFFICES ASSUME IInv, CheckNext PROVE IInv'
    OBVIOUS
  <1>1. /\ HealthPresent' /\ LatestIsNewest' /\ CommandsTraceable'
        /\ AppliedOnceAndRecorded' /\ DbTypeOK'
        /\ SnapshotState' = SnapshotState /\ SnapshotHealth' = SnapshotHealth
    BY TablesUntouched DEF CheckNext
  <1>2. TypeOK'
    BY <1>1 DEF IInv, TypeOK, CheckNext, Locations, memVars
  <1>3. Control' /\ MemoryMatchesDatabase' /\ InFlight' /\ Report'
    BY <1>1 DEF IInv, CheckNext, memVars, Control, MemoryMatchesDatabase,
       Running, InFlight, Report
  <1>4. MineDelivered' /\ LateIsLast'
    BY DEF IInv, CheckNext, MineDelivered, LateIsLast, dbVars
  <1>. QED  BY <1>1, <1>2, <1>3, <1>4 DEF IInv

\* A tick moves only the clock and the location; a late one leaves the select once.
LEMMA TickIInv == IInv /\ Tick => IInv'
  <1>. SUFFICES ASSUME IInv, Tick PROVE IInv'
    OBVIOUS
  <1>1. /\ HealthPresent' /\ LatestIsNewest' /\ CommandsTraceable'
        /\ AppliedOnceAndRecorded' /\ DbTypeOK'
        /\ SnapshotState' = SnapshotState /\ SnapshotHealth' = SnapshotHealth
    BY TablesUntouched DEF Tick
  <1>2. now' \in Nat \ {0}
    BY DEF IInv, TypeOK, Tick
  <1>3. TypeOK'
    BY <1>1, <1>2 DEF IInv, TypeOK, Tick, Locations, memVars
  <1>4. Control' /\ MemoryMatchesDatabase' /\ InFlight' /\ Report'
    BY <1>1 DEF IInv, Tick, memVars, Control, MemoryMatchesDatabase, Running,
       InFlight, Report
  <1>5. MineDelivered' /\ LateIsLast'
    BY DEF IInv, Tick, MineDelivered, LateIsLast, dbVars
  <1>. QED  BY <1>1, <1>3, <1>4, <1>5 DEF IInv

\* Cancellation only sets the flag, so no observation has been late yet.
LEMMA CancelIInv == IInv /\ Cancel => IInv'
  <1>. SUFFICES ASSUME IInv, Cancel PROVE IInv'
    OBVIOUS
  <1>1. /\ HealthPresent' /\ LatestIsNewest' /\ CommandsTraceable'
        /\ AppliedOnceAndRecorded' /\ DbTypeOK'
        /\ SnapshotState' = SnapshotState /\ SnapshotHealth' = SnapshotHealth
    BY TablesUntouched DEF Cancel
  <1>2. TypeOK'
    BY <1>1 DEF IInv, TypeOK, Cancel, memVars
  <1>3. Control' /\ MemoryMatchesDatabase' /\ InFlight' /\ MineDelivered'
        /\ LateIsLast'
    BY <1>1 DEF IInv, Cancel, memVars, dbVars, Control, MemoryMatchesDatabase,
       Running, InFlight, MineDelivered, LateIsLast
  <1>4. Report'
    BY <1>1 DEF IInv, Cancel, memVars, dbVars, Report
  <1>. QED  BY <1>1, <1>2, <1>3, <1>4 DEF IInv

(***************************************************************************)
(* An observation is classified against the state that is in memory, and   *)
(* its command is the policy's.                                            *)
(***************************************************************************)
LEMMA DecidedCommandType ==
    ASSUME NEW class \in Classification,
           class.state # Nil <=> class.disposition = "accepted"
    PROVE  DecidedCommand(class) \in Command \cup {Nil}
  <1>1. CASE class.disposition = "accepted"
    <2>1. class.state.m \in Measurements
      BY <1>1 DEF Classification, State
    <2>. QED  BY <1>1, <2>1, DecideKeepsReserve DEF DecidedCommand
  <1>2. CASE class.disposition # "accepted"
    BY <1>2 DEF DecidedCommand
  <1>. QED  BY <1>1, <1>2

\* Classification puts a well-formed result in flight and changes no record.
LEMMA ObserveIInv ==
    ASSUME IInv, NEW e \in ObservationEnvelope \cup {Nil}, Observe(e)
    PROVE  IInv'
  <1>. DEFINE class == Classify(e, state, health, now)
              recv == ReceivedAtOrNow(e, now)
  <1>1. /\ e \in ObservationEnvelope \cup {Nil}
        /\ state \in State \cup {ZeroState}
        /\ health \in DeviceHealth \cup {ZeroHealth}
        /\ now \in Nat \ {0}
    BY DEF IInv, TypeOK
  <1>2. class \in Classification /\ recv \in Nat \ {0}
    BY <1>1, ClassifyType, ReceiveTime
  <1>3. ClassifiedAgainst(class, recv, state)
    BY <1>1, ClassifyShape
  <1>4. DecidedCommand(class) \in Command \cup {Nil}
    BY <1>2, <1>3, DecidedCommandType DEF ClassifiedAgainst
  <1>5. cur' = [class |-> class, recv |-> recv, command |-> DecidedCommand(class)]
    BY DEF Observe
  <1>a. health \in DeviceHealth /\ class.health.status = health.status =>
          class.health.transition = health.transition
    BY ClassifyHealth
  <1>. HIDE DEF class, recv
  <1>6. cur' \in Current
    BY <1>2, <1>4, <1>5 DEF Current
  <1>7. /\ HealthPresent' /\ LatestIsNewest' /\ CommandsTraceable'
        /\ AppliedOnceAndRecorded' /\ DbTypeOK'
        /\ SnapshotState' = SnapshotState /\ SnapshotHealth' = SnapshotHealth
    BY TablesUntouched DEF Observe
  <1>8. TypeOK'
    BY <1>6, <1>7 DEF IInv, TypeOK, Observe, Locations
  <1>9. Control' /\ MemoryMatchesDatabase' /\ Report'
    BY <1>6, <1>7 DEF IInv, Observe, Control, MemoryMatchesDatabase, Running,
       Report
  <1>10. InFlight'
    BY <1>3, <1>5, <1>a DEF InFlight, Observe
  <1>11. MineDelivered' /\ LateIsLast'
    BY DEF IInv, TypeOK, Observe, MineDelivered, LateIsLast, dbVars
  <1>. QED  BY <1>7, <1>8, <1>9, <1>10, <1>11 DEF IInv

(***************************************************************************)
(* The result handed to the repository carries what the classification     *)
(* stores, and no more.                                                    *)
(***************************************************************************)
LEMMA ResultShape ==
    ASSUME NEW k \in Current, ClassifiedAgainst(k.class, k.recv, state)
    PROVE  /\ ObservationResult(k).health = k.class.health
           /\ k.class.telemetry = Nil =>
                /\ ObservationResult(k).telemetry = Nil
                /\ ObservationResult(k).latestState = Nil
                /\ ObservationResult(k).command = Nil
           /\ k.class.telemetry # Nil =>
                /\ k.class.telemetry \in Telemetry
                /\ ObservationResult(k).telemetry =
                     [event |-> k.class.telemetry, recv |-> k.recv,
                      disposition |-> k.class.disposition]
                /\ ObservationResult(k).telemetry \in TelemetryRecord
                /\ ObservationResult(k).latestState = k.class.state
                /\ k.command = Nil => ObservationResult(k).command = Nil
                /\ k.command # Nil =>
                     /\ ObservationResult(k).command =
                          [eventID |-> k.class.telemetry.id,
                           command |-> k.command, createdAt |-> k.recv]
                     /\ ObservationResult(k).command \in CommandRecord
  <1>1. /\ k.class \in Classification /\ k.recv \in Nat \ {0}
        /\ k.command \in Command \cup {Nil}
        /\ k.class.telemetry \in Telemetry \cup {Nil}
        /\ k.class.state \in State \cup {Nil}
    BY DEF Current, Classification
  <1>2. CASE k.class.telemetry = Nil
    BY <1>1, <1>2 DEF ObservationResult
  <1>3. CASE k.class.telemetry # Nil
    <2>1. k.class.disposition \in {"accepted", "history_only"}
      BY <1>3 DEF ClassifiedAgainst
    <2>2. k.class.telemetry \in Telemetry /\ k.class.telemetry.id \in EventIDs
      BY <1>1, <1>3 DEF Telemetry
    <2>. QED  BY <1>1, <1>3, <2>1, <2>2
              DEF ObservationResult, TelemetryRecord, CommandRecord
  <1>. QED  BY <1>2, <1>3

\* A duplicate changes no table, and the outcome reports no command.
LEMMA CommitDuplicateIInv == IInv /\ CommitDuplicate => IInv'
  <1>. SUFFICES ASSUME IInv, CommitDuplicate PROVE IInv'
    OBVIOUS
  <1>1. /\ HealthPresent' /\ LatestIsNewest' /\ CommandsTraceable'
        /\ AppliedOnceAndRecorded' /\ DbTypeOK'
        /\ SnapshotState' = SnapshotState /\ SnapshotHealth' = SnapshotHealth
    BY TablesUntouched DEF CommitDuplicate
  <1>2. cur \in Current /\ ClassifiedAgainst(cur.class, cur.recv, state)
    BY DEF IInv, TypeOK, Control, InFlight, CommitDuplicate
  <1>3. cur.class.telemetry \in Telemetry /\ events[cur.class.telemetry.id] # Nil
    <2>. DEFINE r == ObservationResult(cur)
    <2>1. /\ cur.class.telemetry = Nil => r.telemetry = Nil
          /\ cur.class.telemetry # Nil =>
               /\ cur.class.telemetry \in Telemetry
               /\ r.telemetry = [event |-> cur.class.telemetry, recv |-> cur.recv,
                                 disposition |-> cur.class.disposition]
      BY <1>2, ResultShape
    <2>2. r.telemetry # Nil /\ events[r.telemetry.event.id] # Nil
      BY DEF CommitDuplicate, AlreadyStored
    <2>. HIDE DEF r
    <2>. QED  BY <2>1, <2>2
  <1>4. out' = [disposition |-> "duplicate",
                telemetry |-> cur.class.telemetry, stateUpdated |-> FALSE,
                storedHistory |-> FALSE, health |-> health, command |-> Nil]
    BY DEF CommitDuplicate
  <1>5. out' \in Outcome
    BY <1>3, <1>4 DEF IInv, TypeOK, Outcome, Dispositions
  <1>6. TypeOK'
    BY <1>1, <1>5 DEF IInv, TypeOK, CommitDuplicate, Locations
  <1>7. Control' /\ MemoryMatchesDatabase' /\ InFlight'
    BY <1>1, <1>5 DEF IInv, CommitDuplicate, Control, MemoryMatchesDatabase,
       Running, InFlight
  <1>8. Report'
    BY <1>1, <1>3, <1>4 DEF IInv, CommitDuplicate, MemoryMatchesDatabase,
       Running, Report, dbVars
  <1>9. MineDelivered' /\ LateIsLast'
    BY DEF IInv, CommitDuplicate, MineDelivered, LateIsLast, dbVars
  <1>. QED  BY <1>1, <1>6, <1>7, <1>8, <1>9 DEF IInv

\* The command applied is one this run has just committed and not applied before.
LEMMA ApplyIInv == IInv /\ Apply => IInv'
  <1>. SUFFICES ASSUME IInv, Apply PROVE IInv'
    OBVIOUS
  <1>1. out \in Outcome /\ UNCHANGED <<dbVars, memVars>>
    BY DEF IInv, TypeOK, Control, Apply
  <1>2. DbTypeOK' /\ HealthPresent' /\ LatestIsNewest' /\ CommandsTraceable'
        /\ SnapshotState' = SnapshotState /\ SnapshotHealth' = SnapshotHealth
    BY <1>1 DEF IInv, TypeOK, DbTypeOK, dbVars, HealthPresent, LatestIsNewest,
       CommandsTraceable, SnapshotState, SnapshotHealth
  <1>3. applied' \in [EventIDs -> Nat]
    <2>1. applied \in [EventIDs -> Nat]
      BY DEF IInv, TypeOK
    <2>2. out.command # Nil => out.telemetry.id \in EventIDs
      BY <1>1 DEF IInv, Apply, Report, Outcome, Telemetry
    <2>. QED  BY <2>1, <2>2 DEF Apply
  <1>4. TypeOK'
    BY <1>1, <1>2, <1>3 DEF IInv, TypeOK, Apply, Locations, memVars
  <1>5. Control' /\ MemoryMatchesDatabase' /\ InFlight' /\ LateIsLast'
    BY <1>1, <1>2 DEF IInv, Apply, memVars, Control, MemoryMatchesDatabase,
       Running, InFlight, LateIsLast
  <1>6. CASE out.command = Nil
    <2>1. applied' = applied
      BY <1>6 DEF Apply
    <2>2. AppliedOnceAndRecorded' /\ Report'
      BY <1>1, <1>2, <1>6, <2>1 DEF IInv, Apply, AppliedOnceAndRecorded, Report,
         dbVars, memVars
    <2>3. MineDelivered'
      BY <1>1, <1>6, <2>1 DEF IInv, Apply, MineDelivered, dbVars, memVars
    <2>. QED  BY <1>2, <1>4, <1>5, <2>2, <2>3 DEF IInv
  <1>7. CASE out.command # Nil
    <2>. DEFINE id == out.telemetry.id
    <2>1. /\ id \in EventIDs /\ commands[id] # Nil /\ applied[id] = 0
          /\ commands[id].command = out.command
      BY <1>1, <1>7 DEF IInv, Apply, Report, Outcome, Telemetry
    <2>2. applied' = [applied EXCEPT ![id] = 1]
      BY <1>7, <2>1 DEF IInv, TypeOK, Apply
    <2>. HIDE DEF id
    <2>3. AppliedOnceAndRecorded'
      BY <1>1, <2>1, <2>2 DEF IInv, TypeOK, AppliedOnceAndRecorded, dbVars
    <2>4. Report'
      BY <1>1, <1>2, <1>7, <2>1, <2>2 DEF IInv, TypeOK, Apply, Report, dbVars,
         memVars, id
    <2>5. MineDelivered'
      BY <1>1, <1>7, <2>1, <2>2 DEF IInv, TypeOK, Apply, MineDelivered, dbVars,
         memVars, id
    <2>. QED  BY <1>2, <1>4, <1>5, <2>3, <2>4, <2>5 DEF IInv
  <1>. QED  BY <1>6, <1>7

\* After the record is written, every command of this run has been applied.
LEMMA WriteIInv == IInv /\ Write => IInv'
  <1>. SUFFICES ASSUME IInv, Write PROVE IInv'
    OBVIOUS
  <1>1. /\ HealthPresent' /\ LatestIsNewest' /\ CommandsTraceable'
        /\ AppliedOnceAndRecorded' /\ DbTypeOK'
        /\ SnapshotState' = SnapshotState /\ SnapshotHealth' = SnapshotHealth
    BY TablesUntouched DEF Write
  <1>2. TypeOK'
    BY <1>1 DEF IInv, TypeOK, Write, Locations
  <1>3. Control' /\ MemoryMatchesDatabase' /\ InFlight' /\ Report'
    BY <1>1 DEF IInv, Write, Control, MemoryMatchesDatabase, Running, InFlight,
       Report
  <1>4. MineDelivered' /\ LateIsLast'
    BY DEF IInv, Write, MineDelivered, LateIsLast, dbVars
  <1>. QED  BY <1>1, <1>2, <1>3, <1>4 DEF IInv

(***************************************************************************)
(* What a stored observation makes durable.  The agent decided by its own  *)
(* copy of the state that the event is newer; the repository, which        *)
(* compares with the stored one, agrees, so it never drops the state or    *)
(* the command of a result it stores.                                      *)
(***************************************************************************)
Stored(tel, st) ==
    /\ tel \in Telemetry \cup {Nil} /\ st \in State \cup {Nil}
    /\ cur.class.health \in DeviceHealth /\ cur.recv \in Nat \ {0}
    /\ cur.command \in Command \cup {Nil}
    /\ tel # Nil => /\ events[tel.id] = Nil
                    /\ cur.class.disposition \in {"accepted", "history_only"}
    /\ tel = Nil => cur.class.disposition # "duplicate"
    /\ st # Nil =>
         /\ tel # Nil /\ cur.class.disposition = "accepted"
         /\ st = ApplyTelemetry(ZeroState, tel)
         /\ st.lastEvent = tel.id /\ st.updatedAt = tel.time
         /\ st.m = tel.m
         /\ latestRow # Nil => tel.time > latestRow.updatedAt
    /\ tel # Nil /\ st = Nil =>
         latestRow # Nil /\ tel.time <= latestRow.updatedAt
    /\ cur.command # Nil =>
         /\ st # Nil /\ cur.command = Decide(tel.m)
         /\ cur.recv - tel.time <= Interval
    /\ events' = IF tel = Nil THEN events
                 ELSE [events EXCEPT ![tel.id] =
                         [event |-> tel, recv |-> cur.recv,
                          disposition |-> cur.class.disposition]]
    /\ latestRow' = IF st # Nil THEN st ELSE latestRow
    /\ commands' = IF cur.command = Nil THEN commands
                   ELSE [commands EXCEPT ![tel.id] =
                           [command |-> cur.command,
                            createdAt |-> cur.recv]]
    /\ healthRow' = cur.class.health

\* What the tables hold after a result that was not stored before is committed.
LEMMA StoredEffect ==
    ASSUME IInv, CommitStored
    PROVE  Stored(cur.class.telemetry, cur.class.state)
  <1>. DEFINE tel == cur.class.telemetry
              st == cur.class.state
              r == ObservationResult(cur)
  <1>1. /\ cur \in Current /\ ClassifiedAgainst(cur.class, cur.recv, state)
        /\ cur.command = DecidedCommand(cur.class)
    BY DEF IInv, TypeOK, Control, InFlight, CommitStored
  <1>2. /\ tel \in Telemetry \cup {Nil} /\ st \in State \cup {Nil}
        /\ cur.class.health \in DeviceHealth /\ cur.recv \in Nat \ {0}
        /\ cur.command \in Command \cup {Nil}
    BY <1>1 DEF Current, Classification
  <1>3. latestRow \in State \cup {Nil}
        /\ state = IF latestRow = Nil THEN ZeroState ELSE latestRow
    BY DEF IInv, TypeOK, DbTypeOK, CommitStored, MemoryMatchesDatabase, Running,
       HealthPresent, SnapshotState
  <1>4. /\ r.health = cur.class.health
        /\ tel = Nil => r.telemetry = Nil /\ r.latestState = Nil /\ r.command = Nil
        /\ tel # Nil =>
             /\ r.telemetry = [event |-> tel, recv |-> cur.recv,
                               disposition |-> cur.class.disposition]
             /\ r.telemetry # Nil
             /\ r.latestState = st
             /\ cur.command = Nil => r.command = Nil
             /\ cur.command # Nil =>
                  /\ r.command = [eventID |-> tel.id, command |-> cur.command,
                                  createdAt |-> cur.recv]
                  /\ r.command # Nil
    BY <1>1, ResultShape
  <1>5. ~AlreadyStored(r) /\ StoreResult(r)
    BY DEF CommitStored
  <1>. HIDE DEF r, tel, st
  <1>6. tel # Nil => /\ events[tel.id] = Nil
                     /\ cur.class.disposition \in {"accepted", "history_only"}
    BY <1>1, <1>4, <1>5 DEF AlreadyStored, ClassifiedAgainst, tel, st
  <1>7. st # Nil =>
          /\ tel # Nil /\ cur.class.disposition = "accepted"
          /\ st = ApplyTelemetry(ZeroState, tel)
          /\ ~NotNewer(state, tel)
    BY <1>1 DEF ClassifiedAgainst, tel, st
  <1>8. st # Nil =>
          st.lastEvent = tel.id /\ st.updatedAt = tel.time /\ st.m = tel.m
    BY <1>2, <1>7, NewerReplaces DEF NotNewer, ZeroState
  <1>9. st # Nil /\ latestRow # Nil => tel.time > latestRow.updatedAt
    BY <1>2, <1>3, <1>7 DEF NotNewer, ZeroTime, State, Telemetry
  <1>10. tel # Nil /\ st = Nil =>
           latestRow # Nil /\ tel.time <= latestRow.updatedAt
    BY <1>1, <1>3 DEF ClassifiedAgainst, NotNewer, ZeroState, tel, st
  <1>11. cur.command # Nil =>
           /\ st # Nil /\ cur.command = Decide(tel.m)
           /\ cur.recv - tel.time <= Interval
    <2>. SUFFICES ASSUME cur.command # Nil
                  PROVE  /\ st # Nil /\ cur.command = Decide(tel.m)
                         /\ cur.recv - tel.time <= Interval
      OBVIOUS
    <2>1. /\ cur.class.disposition = "accepted" /\ ~cur.class.suppress
          /\ cur.command = Decide(st.m)
      BY <1>1 DEF DecidedCommand, st
    <2>2. st # Nil /\ ~(cur.recv - tel.time > Interval)
      BY <1>1, <2>1 DEF ClassifiedAgainst, tel, st
    <2>3. tel \in Telemetry /\ tel.time \in Nat
      BY <1>2, <1>7, <2>2 DEF Telemetry
    <2>. QED  BY <1>2, <1>8, <2>1, <2>2, <2>3
  <1>12. healthRow' = cur.class.health
    BY <1>4, <1>5 DEF StoreResult
  <1>13. events' = IF tel = Nil THEN events
                   ELSE [events EXCEPT ![tel.id] =
                           [event |-> tel, recv |-> cur.recv,
                            disposition |-> cur.class.disposition]]
    <2>1. events' = IF r.telemetry = Nil THEN events
                    ELSE [events EXCEPT ![r.telemetry.event.id] = r.telemetry]
      BY <1>5 DEF StoreResult
    <2>2. tel # Nil => r.telemetry.event.id = tel.id
      BY <1>4
    <2>. QED  BY <1>4, <2>1, <2>2
  <1>14. ReplacesLatest(r) <=> st # Nil
    BY <1>2, <1>4, <1>7, <1>8, <1>9 DEF ReplacesLatest
  <1>15. latestRow' = IF st # Nil THEN st ELSE latestRow
    <2>1. latestRow' = IF ReplacesLatest(r) THEN r.latestState ELSE latestRow
      BY <1>5 DEF StoreResult
    <2>. QED  BY <1>4, <1>7, <1>14, <2>1
  <1>16. commands' = IF cur.command = Nil THEN commands
                     ELSE [commands EXCEPT ![tel.id] =
                             [command |-> cur.command, createdAt |-> cur.recv]]
    <2>1. commands' = IF ReplacesLatest(r) /\ r.command # Nil
                      THEN [commands EXCEPT ![r.command.eventID] =
                              [command |-> r.command.command,
                               createdAt |-> r.command.createdAt]]
                      ELSE commands
      BY <1>5 DEF StoreResult
    <2>2. CASE cur.command = Nil
      BY <1>4, <2>1, <2>2
    <2>3. CASE cur.command # Nil
      <3>1. ReplacesLatest(r) /\ r.command # Nil
        BY <1>4, <1>7, <1>11, <1>14, <2>3
      <3>2. /\ r.command.eventID = tel.id
            /\ r.command.command = cur.command
            /\ r.command.createdAt = cur.recv
        BY <1>4, <1>7, <1>11, <2>3
      <3>. QED  BY <2>1, <2>3, <3>1, <3>2
    <2>. QED  BY <2>2, <2>3
  <1>17. tel = Nil => cur.class.disposition # "duplicate"
    BY <1>1 DEF ClassifiedAgainst, tel, st
  <1>. QED  BY <1>2, <1>6, <1>7, <1>8, <1>9, <1>10, <1>11, <1>12, <1>13,
            <1>15, <1>16, <1>17 DEF Stored, tel, st

\* Storing a result keeps every table in agreement with memory and history.
LEMMA CommitStoredIInv == IInv /\ CommitStored => IInv'
  <1>. SUFFICES ASSUME IInv, CommitStored PROVE IInv'
    OBVIOUS
  <1>. DEFINE tel == cur.class.telemetry
              st == cur.class.state
              rec == [event |-> tel, recv |-> cur.recv,
                      disposition |-> cur.class.disposition]
              row == [command |-> cur.command, createdAt |-> cur.recv]
  <1>0. Stored(tel, st)
    BY StoredEffect
  <1>1. /\ tel \in Telemetry \cup {Nil} /\ st \in State \cup {Nil}
        /\ cur.class.health \in DeviceHealth /\ cur.recv \in Nat \ {0}
        /\ cur.command \in Command \cup {Nil}
    BY <1>0 DEF Stored
  <1>2. /\ tel # Nil => /\ events[tel.id] = Nil
                        /\ cur.class.disposition \in {"accepted", "history_only"}
        /\ tel = Nil => cur.class.disposition # "duplicate"
    BY <1>0 DEF Stored
  <1>3. st # Nil =>
          /\ tel # Nil /\ cur.class.disposition = "accepted"
          /\ st = ApplyTelemetry(ZeroState, tel)
          /\ st.lastEvent = tel.id /\ st.updatedAt = tel.time /\ st.m = tel.m
          /\ latestRow # Nil => tel.time > latestRow.updatedAt
    BY <1>0 DEF Stored
  <1>4. tel # Nil /\ st = Nil =>
          latestRow # Nil /\ tel.time <= latestRow.updatedAt
    BY <1>0 DEF Stored
  <1>5. cur.command # Nil =>
          /\ st # Nil /\ cur.command = Decide(tel.m)
          /\ cur.recv - tel.time <= Interval
    BY <1>0 DEF Stored
  <1>6. events' = IF tel = Nil THEN events ELSE [events EXCEPT ![tel.id] = rec]
    BY <1>0 DEF Stored
  <1>7. latestRow' = IF st # Nil THEN st ELSE latestRow
    BY <1>0 DEF Stored
  <1>8. commands' = IF cur.command = Nil THEN commands
                    ELSE [commands EXCEPT ![tel.id] = row]
    BY <1>0 DEF Stored
  <1>9. healthRow' = cur.class.health
    BY <1>0 DEF Stored
  <1>10. out' = [disposition |-> cur.class.disposition, telemetry |-> tel,
                 stateUpdated |-> st # Nil, storedHistory |-> tel # Nil,
                 health |-> cur.class.health, command |-> cur.command]
    BY DEF CommitStored
  <1>11. /\ pc = "commit" /\ pc' = "apply" /\ cur' = Nil
         /\ state' = IF st # Nil THEN st ELSE state
         /\ health' = cur.class.health
         /\ mine' = IF cur.command # Nil THEN mine \cup {tel.id} ELSE mine
         /\ UNCHANGED <<exit, cancelled, count, now, applied, late>>
    BY DEF CommitStored
  <1>12. cur.class.disposition \in Dispositions
    BY DEF IInv, TypeOK, Control, CommitStored, Current, Classification
  <1>13. /\ tel # Nil => tel.id \in EventIDs /\ rec \in TelemetryRecord
         /\ cur.command # Nil => row \in CommandRow
    BY <1>1, <1>2 DEF Telemetry, TelemetryRecord, CommandRow
  <1>14. /\ tel # Nil => rec # Nil
         /\ cur.command # Nil => row # Nil
         /\ cur.class.health # Nil
    BY <1>1, <1>13
  <1>15. /\ rec.event = tel /\ rec.recv = cur.recv
         /\ rec.disposition = cur.class.disposition
         /\ row.command = cur.command
    OBVIOUS
  <1>. HIDE DEF tel, st, rec, row
  <1>16. DbTypeOK'
    BY <1>1, <1>6, <1>7, <1>8, <1>9, <1>13 DEF IInv, TypeOK, DbTypeOK
  <1>17. out' \in Outcome
    BY <1>1, <1>10, <1>12 DEF Outcome
  <1>18. TypeOK'
    BY <1>1, <1>3, <1>5, <1>11, <1>13, <1>16, <1>17 DEF IInv, TypeOK, Locations
  <1>19. Control' /\ InFlight' /\ LateIsLast' /\ HealthPresent'
    BY <1>9, <1>11, <1>14, <1>17 DEF IInv, Control, InFlight, LateIsLast,
       HealthPresent
  <1>20. MemoryMatchesDatabase'
    BY <1>7, <1>9, <1>11, <1>14 DEF IInv, MemoryMatchesDatabase, Running,
       HealthPresent, SnapshotState, SnapshotHealth
  <1>21. LatestIsNewest'
    <2>1. /\ events \in [EventIDs -> TelemetryRecord \cup {Nil}]
          /\ latestRow \in State \cup {Nil}
      BY DEF IInv, TypeOK, DbTypeOK
    <2>2. latestRow' # Nil =>
            /\ events'[latestRow'.lastEvent] # Nil
            /\ events'[latestRow'.lastEvent].disposition = "accepted"
            /\ latestRow' = ApplyTelemetry(ZeroState,
                                           events'[latestRow'.lastEvent].event)
      <3>1. CASE st # Nil
        BY <1>3, <1>6, <1>7, <1>13, <1>14, <1>15, <2>1, <3>1
      <3>2. CASE st = Nil
        <4>. SUFFICES ASSUME latestRow # Nil
                      PROVE  events'[latestRow.lastEvent] = events[latestRow.lastEvent]
          BY <1>7, <3>2 DEF IInv, LatestIsNewest
        <4>1. events[latestRow.lastEvent] # Nil /\ latestRow.lastEvent \in EventIDs
          BY <2>1 DEF IInv, LatestIsNewest, State
        <4>. QED  BY <1>2, <1>6, <1>13, <2>1, <4>1
      <3>. QED  BY <3>1, <3>2
    <2>3. ASSUME NEW id \in EventIDs, events'[id] # Nil
          PROVE  latestRow' # Nil /\ events'[id].event.time <= latestRow'.updatedAt
      <3>1. CASE tel # Nil /\ id = tel.id
        <4>1. events'[id].event = tel
          BY <1>6, <1>13, <1>15, <2>1, <3>1
        <4>2. tel.time \in Nat
          BY <1>1, <3>1 DEF Telemetry
        <4>. QED  BY <1>3, <1>4, <1>7, <3>1, <4>1, <4>2
      <3>2. CASE ~(tel # Nil /\ id = tel.id)
        <4>1. events'[id] = events[id] /\ events[id] \in TelemetryRecord
          BY <1>6, <1>13, <2>1, <2>3, <3>2
        <4>2. latestRow # Nil /\ events[id].event.time <= latestRow.updatedAt
          BY <2>3, <4>1 DEF IInv, LatestIsNewest
        <4>3. CASE st = Nil
          BY <1>7, <4>1, <4>2, <4>3
        <4>4. CASE st # Nil
          <5>1. /\ events[id].event.time \in Nat /\ latestRow.updatedAt \in Nat
                /\ tel.time \in Nat
            BY <1>1, <1>3, <2>1, <4>1, <4>2, <4>4
            DEF TelemetryRecord, Telemetry, State
          <5>. QED  BY <1>3, <1>7, <4>1, <4>2, <4>4, <5>1
        <4>. QED  BY <4>3, <4>4
      <3>. QED  BY <3>1, <3>2
    <2>. QED  BY <2>2, <2>3 DEF LatestIsNewest
  <1>22. CommandsTraceable'
    <2>. SUFFICES ASSUME NEW id \in EventIDs, commands'[id] # Nil
                  PROVE  /\ events'[id] # Nil
                         /\ events'[id].disposition = "accepted"
                         /\ events'[id].recv - events'[id].event.time <= Interval
                         /\ commands'[id] =
                              [command |-> Decide(events'[id].event.m),
                               createdAt |-> events'[id].recv]
      BY DEF CommandsTraceable
    <2>1. /\ events \in [EventIDs -> TelemetryRecord \cup {Nil}]
          /\ commands \in [EventIDs -> CommandRow \cup {Nil}]
      BY DEF IInv, TypeOK, DbTypeOK
    <2>2. CASE cur.command # Nil /\ id = tel.id
      <3>1. events'[id] = rec /\ commands'[id] = row
        BY <1>3, <1>5, <1>6, <1>8, <2>1, <2>2
      <3>. QED  BY <1>3, <1>5, <1>14, <1>15, <2>2, <3>1 DEF row
    <2>3. CASE ~(cur.command # Nil /\ id = tel.id)
      <3>1. commands'[id] = commands[id]
        BY <1>3, <1>5, <1>8, <1>13, <2>1, <2>3
      <3>2. events[id] # Nil
        BY <3>1 DEF IInv, CommandsTraceable
      <3>3. events'[id] = events[id]
        BY <1>2, <1>6, <1>13, <2>1, <3>2
      <3>. QED  BY <3>1, <3>3 DEF IInv, CommandsTraceable
    <2>. QED  BY <2>2, <2>3
  <1>23. AppliedOnceAndRecorded'
    <2>. SUFFICES ASSUME NEW id \in EventIDs
                  PROVE  applied[id] <= 1 /\ (applied[id] = 1 => commands'[id] # Nil)
      BY <1>11 DEF AppliedOnceAndRecorded
    <2>1. commands[id] # Nil => commands'[id] # Nil
      BY <1>3, <1>5, <1>8, <1>13, <1>14 DEF IInv, TypeOK, DbTypeOK
    <2>. QED  BY <2>1 DEF IInv, AppliedOnceAndRecorded
  <1>24. Report'
    <2>1. /\ events \in [EventIDs -> TelemetryRecord \cup {Nil}]
          /\ commands \in [EventIDs -> CommandRow \cup {Nil}]
          /\ applied \in [EventIDs -> Nat]
      BY DEF IInv, TypeOK, DbTypeOK
    <2>2. tel # Nil => events'[tel.id] = rec
      BY <1>6, <1>13, <2>1
    <2>3. cur.command # Nil =>
            /\ tel # Nil /\ commands'[tel.id] = row
            /\ applied[tel.id] = 0
      <3>. SUFFICES ASSUME cur.command # Nil
                    PROVE  /\ tel # Nil /\ commands'[tel.id] = row
                           /\ applied[tel.id] = 0
        OBVIOUS
      <3>1. tel # Nil /\ tel.id \in EventIDs /\ commands'[tel.id] = row
        BY <1>3, <1>5, <1>8, <1>13, <2>1
      <3>2. commands[tel.id] = Nil
        BY <1>2, <3>1 DEF IInv, CommandsTraceable
      <3>. QED  BY <2>1, <3>1, <3>2 DEF IInv, AppliedOnceAndRecorded
    <2>4. SnapshotHealth' = cur.class.health
      BY <1>9, <1>14 DEF SnapshotHealth
    <2>. QED  BY <1>2, <1>3, <1>7, <1>10, <1>11, <1>14, <1>15, <2>2, <2>3, <2>4
              DEF Report
  <1>25. MineDelivered'
    <2>. SUFFICES ASSUME NEW id \in mine'
                  PROVE  /\ commands'[id] # Nil
                         /\ \/ applied[id] = 1
                            \/ out'.command # Nil /\ out'.telemetry.id = id
      BY <1>11 DEF MineDelivered
    <2>1. /\ commands \in [EventIDs -> CommandRow \cup {Nil}]
          /\ mine \subseteq EventIDs
      BY DEF IInv, TypeOK, DbTypeOK
    <2>2. CASE cur.command # Nil /\ id = tel.id
      BY <1>3, <1>5, <1>8, <1>10, <1>13, <1>14, <2>1, <2>2
    <2>3. CASE ~(cur.command # Nil /\ id = tel.id)
      <3>1. id \in mine
        BY <1>11, <2>3
      <3>2. commands[id] # Nil /\ applied[id] = 1
        BY <1>11, <3>1 DEF IInv, MineDelivered
      <3>3. commands'[id] = commands[id]
        BY <1>3, <1>5, <1>8, <1>13, <2>1, <2>3, <3>1
      <3>. QED  BY <3>2, <3>3
    <2>. QED  BY <2>2, <2>3
  <1>. QED  BY <1>18, <1>19, <1>20, <1>21, <1>22, <1>23, <1>24, <1>25 DEF IInv

(***************************************************************************)
(* Every step keeps the invariant.                                         *)
(***************************************************************************)
LEMMA NextIInv == IInv /\ [Next]_vars => IInv'
  <1>. SUFFICES ASSUME IInv, [Next]_vars PROVE IInv'
    OBVIOUS
  <1>1. CASE Start
    BY <1>1, StartIInv
  <1>2. CASE Restore
    BY <1>2, RestoreIInv
  <1>3. CASE CheckNext
    BY <1>3, CheckNextIInv
  <1>4. CASE Tick
    BY <1>4, TickIInv
  <1>5. CASE Receive
    <2>1. PICK e \in Envelopes \cup {Nil} : Observe(e) \/ Panic(e)
      BY <1>5 DEF Receive
    <2>2. CASE Observe(e)
      <3>1. e \in ObservationEnvelope \cup {Nil}
        OBVIOUS
      <3>. QED  BY <2>2, <3>1, ObserveIInv
    <2>3. CASE Panic(e)
      BY <2>3, FinishIInv DEF Panic, Exits
    <2>. QED  BY <2>1, <2>2, <2>3
  <1>6. CASE CommitDuplicate
    BY <1>6, CommitDuplicateIInv
  <1>7. CASE CommitStored
    BY <1>7, CommitStoredIInv
  <1>8. CASE Apply
    BY <1>8, ApplyIInv
  <1>9. CASE Write
    BY <1>9, WriteIInv
  <1>10. CASE Cancel
    BY <1>10, CancelIInv
  <1>11. CASE \/ RestoreCancelled \/ RestoreFails
              \/ CheckDone \/ CheckCancelled \/ WaitCancelled
              \/ SourceExhausted \/ SourceFails
    BY <1>11, FinishIInv DEF RestoreCancelled, RestoreFails, CheckDone,
       CheckCancelled, WaitCancelled, SourceExhausted, SourceFails, Exits
  <1>12. CASE \/ CommitRefused \/ CommitFails \/ CommitTimesOut
              \/ ApplyFails \/ WriteFails \/ Crash
    BY <1>12, FinishIInv DEF CommitRefused, CommitFails, CommitTimesOut,
       ApplyFails, WriteFails, Crash, Exits
  <1>13. CASE UNCHANGED vars
    BY <1>13 DEF vars, dbVars, memVars, IInv, TypeOK, DbTypeOK, Control,
       MemoryMatchesDatabase, Running, HealthPresent, LatestIsNewest,
       CommandsTraceable, AppliedOnceAndRecorded, InFlight, Report,
       MineDelivered, LateIsLast, SnapshotState, SnapshotHealth
  <1>. QED  BY <1>1, <1>2, <1>3, <1>4, <1>5, <1>6, <1>7, <1>8, <1>9, <1>10,
               <1>11, <1>12, <1>13 DEF Next, Step, Commit

\* The inductive invariant holds in every state an agent and its database reach.
THEOREM Invariance == Spec => []IInv
  BY InitIInv, NextIInv, PTL DEF Spec

(***************************************************************************)
(* The agent's variables and tables are always well typed: no nil pointer  *)
(* is dereferenced, no zero time becomes a durable transition time.        *)
(***************************************************************************)
THEOREM TypeCorrect == Spec => []TypeOK
  <1>1. IInv => TypeOK
    BY DEF IInv
  <1>. QED  BY <1>1, Invariance, PTL

(***************************************************************************)
(* The running agent and its database never disagree on the latest state   *)
(* or the health, whatever the source delivers and however often the agent *)
(* crashes.                                                                *)
(***************************************************************************)
THEOREM MemoryIsDurable == Spec => []MemoryMatchesDatabase
  <1>1. IInv => MemoryMatchesDatabase
    BY DEF IInv
  <1>. QED  BY <1>1, Invariance, PTL

(***************************************************************************)
(* The latest state is the newest stored event, in every order of          *)
(* delivery.                                                               *)
(***************************************************************************)
THEOREM NewestWins == Spec => []LatestIsNewest
  <1>1. IInv => LatestIsNewest
    BY DEF IInv
  <1>. QED  BY <1>1, Invariance, PTL

(***************************************************************************)
(* Every recorded command is the policy's decision on an accepted event    *)
(* that arrived within its interval.                                       *)
(***************************************************************************)
THEOREM CommandsExplained == Spec => []CommandsTraceable
  <1>1. IInv => CommandsTraceable
    BY DEF IInv
  <1>. QED  BY <1>1, Invariance, PTL

(***************************************************************************)
(* The battery gets at most one command per event, over all restarts, and  *)
(* none that is not recorded.                                              *)
(***************************************************************************)
THEOREM AtMostOnce == Spec => []AppliedOnceAndRecorded
  <1>1. IInv => AppliedOnceAndRecorded
    BY DEF IInv
  <1>. QED  BY <1>1, Invariance, PTL

(***************************************************************************)
(* A clean stop, by cancellation too, leaves no recorded command of the    *)
(* run unapplied.                                                          *)
(***************************************************************************)
THEOREM CleanStop == Spec => []CleanStopLosesNoCommand
  <1>1. IInv => CleanStopLosesNoCommand
    BY DEF IInv, Control, Exits, MineDelivered, CleanStopLosesNoCommand
  <1>. QED  BY <1>1, Invariance, PTL

(***************************************************************************)
(* What an interval reports is what is durable and what was applied.       *)
(***************************************************************************)
THEOREM RecordsTruthful == Spec => []RecordMatchesDatabase
  <1>1. IInv => RecordMatchesDatabase
    BY DEF IInv, Report, RecordMatchesDatabase
  <1>. QED  BY <1>1, Invariance, PTL

(***************************************************************************)
(* A cancelled run takes at most one more observation.                     *)
(***************************************************************************)
THEOREM CancellationIsPrompt == Spec => []AtMostOneMoreObservation
  <1>1. IInv => AtMostOneMoreObservation
    BY DEF IInv, LateIsLast, AtMostOneMoreObservation
  <1>. QED  BY <1>1, Invariance, PTL

(***************************************************************************)
(* Only CommitStored changes the tables.                                   *)
(***************************************************************************)
LEMMA OnlyCommitStores ==
    ASSUME [Next]_vars, ~CommitStored
    PROVE  UNCHANGED dbVars
  BY DEF Next, Step, Commit, Receive, vars, Start, Restore, RestoreCancelled,
     RestoreFails, CheckDone, CheckCancelled, CheckNext, Tick, WaitCancelled,
     SourceExhausted, SourceFails, Observe, Panic, CommitRefused, CommitFails,
     CommitTimesOut, CommitDuplicate, Apply, ApplyFails, Write, WriteFails,
     Cancel, Crash

(***************************************************************************)
(* Stored events and commands never change, and the latest state only      *)
(* moves forward in event time.                                            *)
(***************************************************************************)
THEOREM DurableForever == Spec => DurableRecordsKept
  <1>. DEFINE Kept ==
         /\ \A id \in EventIDs :
              /\ events[id] # Nil => events'[id] = events[id]
              /\ commands[id] # Nil => commands'[id] = commands[id]
         /\ latestRow # Nil /\ latestRow' # latestRow =>
              /\ latestRow' # Nil
              /\ latestRow'.updatedAt > latestRow.updatedAt
  <1>1. IInv /\ [Next]_vars => [Kept]_vars
    <2>. SUFFICES ASSUME IInv, [Next]_vars PROVE Kept
      OBVIOUS
    <2>1. CASE ~CommitStored
      BY <2>1, OnlyCommitStores DEF dbVars
    <2>2. CASE CommitStored
      <3>. DEFINE tel == cur.class.telemetry
                  st == cur.class.state
      <3>0. Stored(tel, st)
        BY <2>2, StoredEffect
      <3>. HIDE DEF tel, st
      <3>1. /\ tel \in Telemetry \cup {Nil} /\ st \in State \cup {Nil}
            /\ tel # Nil => tel.id \in EventIDs /\ events[tel.id] = Nil
        BY <3>0 DEF Stored, Telemetry
      <3>2. ASSUME NEW id \in EventIDs, events[id] # Nil
            PROVE  events'[id] = events[id]
        BY <3>0, <3>1, <3>2 DEF Stored, IInv, TypeOK, DbTypeOK
      <3>3. ASSUME NEW id \in EventIDs, commands[id] # Nil
            PROVE  commands'[id] = commands[id]
        <4>1. events[id] # Nil
          BY <3>3 DEF IInv, CommandsTraceable
        <4>2. cur.command # Nil => tel # Nil
          BY <3>0 DEF Stored
        <4>. QED  BY <3>0, <3>1, <3>3, <4>1, <4>2
                  DEF Stored, IInv, TypeOK, DbTypeOK
      <3>4. latestRow # Nil /\ latestRow' # latestRow =>
              latestRow' # Nil /\ latestRow'.updatedAt > latestRow.updatedAt
        BY <3>0 DEF Stored
      <3>. QED  BY <3>2, <3>3, <3>4
    <2>. QED  BY <2>1, <2>2
  <1>2. DurableRecordsKept <=> [][Kept]_vars
    BY DEF DurableRecordsKept
  <1>. QED  BY <1>1, <1>2, Invariance, PTL DEF Spec

(***************************************************************************)
(* The health's transition time changes only with its status.              *)
(***************************************************************************)
THEOREM TransitionsMarked == Spec => TransitionMarksStatusChange
  <1>. DEFINE Marked ==
         healthRow # Nil =>
           /\ healthRow' # Nil
           /\ healthRow'.status = healthRow.status =>
                healthRow'.transition = healthRow.transition
  <1>1. IInv /\ [Next]_vars => [Marked]_vars
    <2>. SUFFICES ASSUME IInv, [Next]_vars, healthRow # Nil
                  PROVE  /\ healthRow' # Nil
                         /\ healthRow'.status = healthRow.status =>
                              healthRow'.transition = healthRow.transition
      OBVIOUS
    <2>1. CASE ~CommitStored
      BY <2>1, OnlyCommitStores DEF dbVars
    <2>2. CASE CommitStored
      <3>1. healthRow' = cur.class.health /\ cur.class.health \in DeviceHealth
        BY <2>2, StoredEffect DEF Stored
      <3>2. health = healthRow /\ health \in DeviceHealth
        BY <2>2 DEF IInv, TypeOK, DbTypeOK, MemoryMatchesDatabase, Running,
           SnapshotHealth, CommitStored
      <3>3. cur.class.health.status = health.status =>
              cur.class.health.transition = health.transition
        BY <2>2, <3>2 DEF IInv, InFlight, CommitStored
      <3>. QED  BY <3>1, <3>2, <3>3
    <2>. QED  BY <2>1, <2>2
  <1>2. TransitionMarksStatusChange <=> [][Marked]_vars
    BY DEF TransitionMarksStatusChange
  <1>. QED  BY <1>1, <1>2, Invariance, PTL DEF Spec

(***************************************************************************)
(* What a step stores is this household's own, by the repository's         *)
(* validation.                                                             *)
(***************************************************************************)
LEMMA OwnDataStep == IInv /\ OwnDataOnly /\ [Next]_vars => OwnDataOnly'
  <1>. SUFFICES ASSUME IInv, OwnDataOnly, [Next]_vars PROVE OwnDataOnly'
    OBVIOUS
  <1>1. CASE ~CommitStored
    BY <1>1, OnlyCommitStores DEF dbVars, OwnDataOnly
  <1>2. CASE CommitStored
    <2>. DEFINE tel == cur.class.telemetry
                st == cur.class.state
                rec == [event |-> tel, recv |-> cur.recv,
                        disposition |-> cur.class.disposition]
                r == ObservationResult(cur)
    <2>0. Stored(tel, st)
      BY <1>2, StoredEffect
    <2>1. cur \in Current /\ ClassifiedAgainst(cur.class, cur.recv, state)
      BY <1>2 DEF IInv, TypeOK, Control, InFlight, CommitStored
    <2>2. tel # Nil => r.telemetry = rec /\ r.telemetry # Nil
      BY <2>1, ResultShape
    <2>3. ResultValid(r) /\ r.device = DeviceID
      BY <1>2 DEF CommitStored, ObservationResult
    <2>. HIDE DEF r
    <2>4. tel # Nil => tel.device = DeviceID /\ tel.utc
      BY <2>2, <2>3 DEF ResultValid, TelemetryRecordValid
    <2>5. tel # Nil => tel \in Telemetry /\ tel.id \in EventIDs
      BY <2>0 DEF Stored, Telemetry
    <2>6. st # Nil => tel # Nil /\ st.device = tel.device
      <3>1. st # Nil => tel # Nil /\ st = ApplyTelemetry(ZeroState, tel)
        BY <2>0 DEF Stored
      <3>2. tel # Nil => ApplyTelemetry(ZeroState, tel).device = tel.device
        BY <2>5, NewerReplaces DEF NotNewer, ZeroState
      <3>. QED  BY <3>1, <3>2
    <2>7. /\ events' = IF tel = Nil THEN events
                       ELSE [events EXCEPT ![tel.id] = rec]
          /\ latestRow' = IF st # Nil THEN st ELSE latestRow
      BY <2>0 DEF Stored
    <2>8. rec.event = tel
      OBVIOUS
    <2>. HIDE DEF tel, st, rec
    <2>9. ASSUME NEW id \in EventIDs, events'[id] # Nil
          PROVE  events'[id].event.device = DeviceID /\ events'[id].event.utc
      <3>1. CASE tel # Nil /\ id = tel.id
        BY <2>4, <2>7, <2>8, <3>1 DEF IInv, TypeOK, DbTypeOK
      <3>2. CASE ~(tel # Nil /\ id = tel.id)
        <4>1. events'[id] = events[id]
          BY <2>5, <2>7, <3>2 DEF IInv, TypeOK, DbTypeOK
        <4>. QED  BY <2>9, <4>1 DEF OwnDataOnly
      <3>. QED  BY <3>1, <3>2
    <2>10. latestRow' # Nil => latestRow'.device = DeviceID
      BY <2>4, <2>6, <2>7 DEF OwnDataOnly
    <2>. QED  BY <2>9, <2>10 DEF OwnDataOnly
  <1>. QED  BY <1>1, <1>2

(***************************************************************************)
(* Only the household's own events, with a UTC event time, become durable, *)
(* although Classify checks neither.                                       *)
(***************************************************************************)
THEOREM OwnData == Spec => []OwnDataOnly
  <1>1. Init => OwnDataOnly
    BY DEF Init, DbInit, OwnDataOnly
  <1>. QED  BY <1>1, OwnDataStep, Invariance, PTL DEF Spec

(***************************************************************************)
(* With a source that keeps to its contract, what is in flight is telemetry *)
(* of this household that validates.                                       *)
(***************************************************************************)
OwnInFlight ==
    pc = "commit" /\ cur.class.telemetry # Nil =>
        /\ TelemetryValid(cur.class.telemetry)
        /\ cur.class.telemetry.device = DeviceID
        /\ cur.class.telemetry.utc

\* Such a result passes the repository's validation.
LEMMA InFlightIsStorable ==
    ASSUME IInv, OwnInFlight, pc = "commit"
    PROVE  ResultValid(ObservationResult(cur))
  <1>. DEFINE r == ObservationResult(cur)
              class == cur.class
              tel == cur.class.telemetry
  <1>1. /\ cur \in Current /\ ClassifiedAgainst(class, cur.recv, state)
        /\ cur.command = DecidedCommand(class)
    BY DEF IInv, TypeOK, Control, InFlight
  <1>2. /\ r.device = DeviceID /\ DeviceID # Nil
        /\ r.health = class.health /\ class.health \in DeviceHealth
        /\ cur.recv \in Nat \ {0}
    BY <1>1 DEF ObservationResult, Current, Classification
  <1>3. tel # Nil =>
          /\ tel \in Telemetry
          /\ r.telemetry = [event |-> tel, recv |-> cur.recv,
                            disposition |-> class.disposition]
          /\ r.telemetry # Nil
          /\ r.latestState = class.state
          /\ cur.command = Nil => r.command = Nil
          /\ cur.command # Nil =>
               r.command = [eventID |-> tel.id, command |-> cur.command,
                            createdAt |-> cur.recv]
    BY <1>1, ResultShape
  <1>4. tel = Nil =>
          r.telemetry = Nil /\ r.latestState = Nil /\ r.command = Nil
    BY <1>1, ResultShape
  <1>5. r.health.status \in Statuses /\ r.health.transition # ZeroTime
    BY <1>2 DEF DeviceHealth, ZeroTime
  <1>6. CASE tel = Nil
    BY <1>2, <1>4, <1>5, <1>6 DEF ResultValid
  <1>7. CASE tel # Nil
    <2>1. class.disposition \in {"accepted", "history_only"}
      BY <1>1, <1>7 DEF ClassifiedAgainst
    <2>2. TelemetryRecordValid(r.device, r.telemetry)
      BY <1>2, <1>3, <1>7, <2>1 DEF OwnInFlight, TelemetryRecordValid, ZeroTime
    <2>3. r.latestState # Nil => LatestStateValid(r)
      BY <1>1, <1>3, <1>7 DEF ClassifiedAgainst, LatestStateValid
    <2>4. r.command # Nil => CommandRecordValid(r)
      <3>. SUFFICES ASSUME r.command # Nil PROVE CommandRecordValid(r)
        OBVIOUS
      <3>1. cur.command # Nil /\ class.disposition = "accepted"
            /\ cur.command = Decide(class.state.m)
        BY <1>1, <1>3, <1>7 DEF DecidedCommand
      <3>2. class.state # Nil /\ class.state \in State
        BY <1>1, <3>1 DEF ClassifiedAgainst, Current, Classification
      <3>3. CommandValid(cur.command)
        BY <3>1, <3>2, DecideKeepsReserve DEF State
      <3>. QED  BY <1>2, <1>3, <1>7, <3>1, <3>2, <3>3
                DEF CommandRecordValid, ZeroTime
    <2>. QED  BY <1>2, <1>5, <2>2, <2>3, <2>4 DEF ResultValid
  <1>. QED  BY <1>6, <1>7

\* An observation of this household, timed in UTC.
OwnObservation(e) == e # Nil /\ e.tel # Nil => e.src = DeviceID /\ e.tel.utc

LEMMA ObserveOwn ==
    ASSUME ObservationNeverEndsRun, NEW e \in ObservationEnvelope \cup {Nil},
           OwnObservation(e), Observe(e)
    PROVE  OwnInFlight' /\ ObservationNeverEndsRun'
  <1>1. /\ cur'.class = Classify(e, state, health, now)
        /\ exit' = exit
    BY DEF Observe
  <1>2. cur'.class.telemetry # Nil =>
          /\ e \in ObservationEnvelope /\ e.tel # Nil
          /\ cur'.class.telemetry = e.tel
          /\ TelemetryValid(e.tel) /\ e.tel.device = e.src
    BY <1>1, ClassifyKeepsTelemetry
  <1>3. cur'.class.telemetry # Nil => e.src = DeviceID /\ e.tel.utc
    BY <1>2 DEF OwnObservation
  <1>. QED  BY <1>1, <1>2, <1>3 DEF OwnInFlight, ObservationNeverEndsRun

LEMMA OwnNeverPanics ==
    ASSUME IInv, OwnDataOnly, NEW e, OwnObservation(e)
    PROVE  ~Panic(e)
  <1>. SUFFICES ASSUME Panic(e) PROVE FALSE
    OBVIOUS
  <1>1. /\ pc = "next" /\ e # Nil /\ EnvelopeValid(e) /\ e.avail
        /\ TelemetryAcceptable(e) /\ ApplyTelemetryFails(state, e.tel)
    BY DEF Panic, ClassifyPanics
  <1>2. e.tel # Nil
    BY <1>1 DEF EnvelopeValid
  <1>3. e.tel.device = DeviceID /\ TelemetryValid(e.tel)
    BY <1>1, <1>2 DEF OwnObservation, TelemetryAcceptable
  <1>4. state.device = Nil \/ state.device = DeviceID
    BY <1>1 DEF IInv, MemoryMatchesDatabase, Running, SnapshotState,
       OwnDataOnly, ZeroState
  <1>. QED  BY <1>1, <1>3, <1>4 DEF ApplyTelemetryFails

\* The steps in which the source delivers nothing.
NoDelivery ==
    \/ Start \/ Restore \/ RestoreCancelled \/ RestoreFails
    \/ CheckDone \/ CheckCancelled \/ CheckNext \/ WaitCancelled
    \/ SourceExhausted \/ SourceFails \/ Commit
    \/ Apply \/ ApplyFails \/ Write \/ WriteFails
    \/ Tick \/ Cancel \/ Crash \/ UNCHANGED vars

\* None of them can refuse what is in flight.
LEMMA OtherStepsOwn ==
    ASSUME IInv, OwnInFlight, ObservationNeverEndsRun, NoDelivery
    PROVE  OwnInFlight' /\ ObservationNeverEndsRun'
  <1>1. ~CommitRefused
    BY InFlightIsStorable DEF CommitRefused
  <1>2. CASE CommitStored \/ CommitDuplicate \/ Apply \/ Write
    BY <1>2 DEF OwnInFlight, ObservationNeverEndsRun, CommitStored,
       CommitDuplicate, Apply, Write
  <1>3. CASE Start \/ Restore \/ CheckNext \/ Tick
    BY <1>3 DEF OwnInFlight, ObservationNeverEndsRun, Start, Restore,
       CheckNext, Tick, Exits
  <1>4. CASE Cancel \/ UNCHANGED vars
    BY <1>4 DEF OwnInFlight, ObservationNeverEndsRun, Cancel, memVars, vars
  <1>5. CASE \/ RestoreCancelled \/ RestoreFails
            \/ CheckDone \/ CheckCancelled \/ WaitCancelled
            \/ SourceExhausted \/ SourceFails
            \/ CommitFails \/ CommitTimesOut
            \/ ApplyFails \/ WriteFails \/ Crash
    BY <1>5 DEF OwnInFlight, ObservationNeverEndsRun, RestoreCancelled,
       RestoreFails, CheckDone, CheckCancelled, WaitCancelled,
       SourceExhausted, SourceFails, CommitFails, CommitTimesOut, ApplyFails,
       WriteFails, Crash, Finish
  <1>. QED  BY <1>1, <1>2, <1>3, <1>4, <1>5 DEF NoDelivery, Commit

(***************************************************************************)
(* For a source that keeps to its contract, no observation ends a run: the *)
(* two validations, written apart, agree on every observation, and the     *)
(* panic in Classify is out of reach.                                      *)
(***************************************************************************)
THEOREM ObservationsAreStorable ==
    ASSUME SourceContract
    PROVE  Spec => []ObservationNeverEndsRun
  <1>. DEFINE Inv == OwnInFlight /\ ObservationNeverEndsRun
  <1>1. Init => Inv
    BY DEF Init, OwnInFlight, ObservationNeverEndsRun, Exits
  <1>2. IInv /\ OwnDataOnly /\ Inv /\ [Next]_vars => Inv'
    <2>. SUFFICES ASSUME IInv, OwnDataOnly, OwnInFlight,
                         ObservationNeverEndsRun, [Next]_vars
                  PROVE  OwnInFlight' /\ ObservationNeverEndsRun'
      OBVIOUS
    <2>1. CASE Receive
      <3>1. PICK e \in Envelopes \cup {Nil} : Observe(e) \/ Panic(e)
        BY <2>1 DEF Receive
      <3>2. e \in ObservationEnvelope \cup {Nil} /\ OwnObservation(e)
        BY DEF SourceContract, OwnObservation
      <3>. QED  BY <3>1, <3>2, ObserveOwn, OwnNeverPanics
    <2>2. CASE NoDelivery
      BY <2>2, OtherStepsOwn
    <2>. QED  BY <2>1, <2>2 DEF Next, Step, NoDelivery
  <1>. QED  BY <1>1, <1>2, Invariance, OwnData, PTL DEF Spec

(***************************************************************************)
(* What the agent hands to the repository is what SqliteRepository assumes *)
(* of its caller: typed as the code's types make it, and never an accepted *)
(* event without its state, which Validate alone would let through.        *)
(***************************************************************************)
ResultsAsAssumed ==
    pc = "commit" =>
        /\ ObservationResult(cur) \in RawResult
        /\ AcceptedWithState(ObservationResult(cur))

(***************************************************************************)
(* In every reachable state, buildObservationResult meets the assumptions  *)
(* under which CommitProcessing is shown to implement its contract.        *)
(***************************************************************************)
THEOREM CallerKeepsAssumptions == Spec => []ResultsAsAssumed
  <1>1. IInv => ResultsAsAssumed
    <2>. SUFFICES ASSUME IInv, pc = "commit"
                  PROVE  /\ ObservationResult(cur) \in RawResult
                         /\ AcceptedWithState(ObservationResult(cur))
      BY DEF ResultsAsAssumed
    <2>1. cur \in Current /\ ClassifiedAgainst(cur.class, cur.recv, state)
      BY DEF IInv, TypeOK, Control, InFlight
    <2>2. /\ cur.class \in Classification /\ cur.recv \in Nat
          /\ cur.class.health \in DeviceHealth
          /\ cur.class.disposition \in Dispositions
          /\ cur.class.telemetry \in Telemetry \cup {Nil}
          /\ cur.class.state \in State \cup {Nil}
          /\ cur.command \in Command \cup {Nil}
      BY <2>1 DEF Current, Classification
    <2>3. /\ cur.class.telemetry # Nil =>
               cur.class.telemetry \in RawTelemetry /\ cur.class.telemetry.id \in EventIDs
          /\ cur.class.health \in [status: Statuses \cup {Nil}, transition: Nat, contact: Nat]
          /\ cur.command # Nil => cur.command \in [decision: Decisions, power: Int]
      BY <2>2, SMT DEF Telemetry, RawTelemetry, Measurements, RawMeasurements,
         DeviceHealth, Command
    <2>4. ObservationResult(cur) \in RawResult
      BY <2>2, <2>3, SMT DEF ObservationResult, RawResult
    <2>5. AcceptedWithState(ObservationResult(cur))
      BY <2>1, <2>2, SMT DEF ObservationResult, AcceptedWithState, ClassifiedAgainst
    <2>. QED  BY <2>4, <2>5
  <1>. QED  BY <1>1, Invariance, PTL

=============================================================================
