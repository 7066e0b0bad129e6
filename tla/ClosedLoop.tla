----------------------------- MODULE ClosedLoop -----------------------------
(***************************************************************************)
(* The agent as the command line builds it: EdgeAgent with the simulator   *)
(* as its telemetry source and its command sink (cmd/wattfeder/main.go,    *)
(* processTelemetry).  The simulator lives in the process: a restart       *)
(* builds a new one at the configured start, with the state of charge of   *)
(* the latest stored state.                                                *)
(*                                                                         *)
(* The simulator never runs out and answers every call made in turn, so    *)
(* SourceExhausted, SourceFails and ApplyFails of EdgeAgent have no        *)
(* counterpart here; that every call is made in turn is                    *)
(* SimulatorNeverRefuses.                                                  *)
(***************************************************************************)
EXTENDS EdgeAgent, Sequences

CONSTANTS IntervalsPerDay, Days, Profiles, StartingSOC, Schedules, PaddedID

VARIABLES simTime, soc, day, dayEnd, pending, prior, step, faults, delivered

Sim == INSTANCE Simulator WITH
           SimStart <- StartTime,
           Commands <- {},
           MaxSteps <- 0

ASSUME ConfigAssumption == Sim!ConfigValid

simVars == <<simTime, soc, day, dayEnd, pending, prior, step, faults,
             delivered>>

loopVars == <<vars, simVars>>

\* The samples a run can ask for, counted from 0.
Positions == IF MaxIntervals = 0 THEN Nat ELSE 0 .. MaxIntervals - 1

\* Event IDs are there for all of them: the code makes them by hashing.
ASSUME TimelineAssumption ==
    /\ \A k \in Positions :
         Sim!SimulatedEventID(StartTime + k * Interval) \in EventIDs
    /\ Nil \notin Sim!Sample

LoopInit == Init /\ Sim!SimInit

\* Mutant: the configured state of charge is used at every start.
RestoredSOC_Configured == StartingSOC

\* The configured state of charge, unless the database has a state.
RestoredSOC ==
    IF SnapshotState.device # Nil THEN SnapshotState.m.soc ELSE StartingSOC

LoopStart == Start /\ Sim!New(RestoredSOC)

Sense ==
    /\ pc = "next"
    /\ Sim!NextObservation
    /\ Observe(delivered') \/ Panic(delivered')

\* Mutant: the simulator only hears of an interval that has a command.
Actuate_OnlyCommands ==
    /\ Apply
    /\ IF out.command = Nil THEN UNCHANGED simVars
       ELSE Sim!Complete(out.command)

Actuate == Apply /\ Sim!Complete(out.command)

\* The agent's steps that do not involve the simulator.
AgentStep ==
    \/ Restore \/ RestoreCancelled \/ RestoreFails
    \/ CheckDone \/ CheckCancelled \/ CheckNext
    \/ WaitCancelled
    \/ Commit
    \/ Write \/ WriteFails

LoopStep ==
    \/ Sense
    \/ Actuate
    \/ AgentStep /\ UNCHANGED simVars

LoopNext ==
    \/ LoopStart
    \/ LoopStep
    \/ (Tick \/ Cancel \/ Crash) /\ UNCHANGED simVars

LoopSpec == LoopInit /\ [][LoopNext]_loopVars

(***************************************************************************)
(* Properties.                                                             *)
(***************************************************************************)
(***************************************************************************)
(* The agent and the simulator keep each other's protocol: no failure,     *)
(* cancellation or restart makes the agent ask for a sample while one      *)
(* waits for its command, or complete one that was never asked for, or     *)
(* with a command Complete refuses (NextObservation and Complete fail      *)
(* otherwise, and the run with them).                                      *)
(***************************************************************************)
SimulatorNeverRefuses ==
    /\ pc = "next" => pending = Nil
    /\ pc \in {"commit", "apply"} => pending # Nil
    /\ pc = "apply" /\ out.command # Nil => CommandValid(out.command)

(***************************************************************************)
(* A command that reaches the battery was decided from the charge the      *)
(* battery has at that moment, not from an older measurement of it.        *)
(***************************************************************************)
CommandsFitBattery ==
    pc = "apply" /\ out.command # Nil => out.telemetry.m.soc = soc

(***************************************************************************)
(* The battery is never discharged below the policy's reserve ("limits     *)
(* discharge so it cannot cross the 20% reserve during an interval",       *)
(* docs/roadmap.md), whatever is delivered and however often the agent is  *)
(* restarted.                                                              *)
(***************************************************************************)
ReserveKept == StartingSOC >= MinimumDischargeSOC => soc >= MinimumDischargeSOC

(***************************************************************************)
(* The durable history is one gapless run of the simulated timeline: a     *)
(* restart replays what is stored and goes on where the last run stopped,  *)
(* so every interval up to the latest is stored, once.                     *)
(***************************************************************************)
HistoryHasNoGap ==
    \A t \in {StartTime + k * Interval : k \in 0 .. MaxIntervals} :
        LET id == Sim!SimulatedEventID(t)
        IN  id \in EventIDs =>
              (events[id] # Nil <=> latestRow # Nil /\ t <= latestRow.updatedAt)

(***************************************************************************)
(* The stored states of charge explain each other across crashes: each is  *)
(* the one before it moved by the command recorded for that one, or, where *)
(* the process ended before the next sample, the same again (main.go       *)
(* restores the charge of the latest state, measured before its command).  *)
(***************************************************************************)
ChargeHistoryExplained ==
    \A t \in {StartTime + k * Interval : k \in 0 .. MaxIntervals} :
        LET this == Sim!SimulatedEventID(t)
            next == Sim!SimulatedEventID(t + Interval)
        IN  next \in EventIDs /\ events[next] # Nil =>
              events[next].event.m.soc \in
                {events[this].event.m.soc}
                \cup (IF commands[this] = Nil THEN {}
                      ELSE {Sim!NextBatterySOC(events[this].event.m.soc,
                                Sim!BatteryPower(commands[this].command))})

(***************************************************************************)
(* The agent with the simulator is an agent: it does what EdgeAgent allows *)
(* with a source that delivers the simulator's envelopes, so whatever      *)
(* holds of EdgeAgent holds of it.                                         *)
(***************************************************************************)
AgentSpec == Spec

=============================================================================
