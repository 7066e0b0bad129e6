-------------------------------- MODULE Demo --------------------------------
(***************************************************************************)
(* The demo (internal/demo): a scenario file is checked, its one simulated *)
(* day runs through the agent on an in-memory database with the instant    *)
(* clock, and what every interval produced is compared with what the       *)
(* scenario expects.  Only here does a simulator have faults.              *)
(*                                                                         *)
(* The database and the simulator end with the process, so there is one    *)
(* run and no restart; a kill leaves nothing behind and is left out.       *)
(* Names, the seed and the numeric ranges that Config.Validate checks are  *)
(* the model's own constants.                                              *)
(***************************************************************************)
EXTENDS ClosedLoop

CONSTANT Scenarios    \* the scenario documents that may be loaded

\* The demo's agent is built for one simulated day.
ASSUME DemoAssumption == MaxIntervals = IntervalsPerDay

(***************************************************************************)
(* As for the simulator alone: the late event of a fault has an ID of its  *)
(* own, none of the day's hashes, and lies after Go's zero time.           *)
(***************************************************************************)
ASSUME LateEventAssumption ==
    /\ Schedules \subseteq Seq(Sim!Fault)
    /\ \A s \in Schedules : Sim!LateEventsApart(s, IntervalsPerDay)
    /\ PaddedID \notin EventIDs \cup {Nil}
    /\ Nil \notin Sim!Fault

VARIABLES
    scenario,       \* the loaded document
    decisions,      \* per interval, the decision or Nil
    dispositions,   \* per interval, the disposition
    statuses,       \* per interval, the health status
    verdict         \* what the command reports, or Nil while it runs

recordVars == <<decisions, dispositions, statuses>>

demoVars == <<loopVars, scenario, recordVars, verdict>>

\* A fault document may leave out what its kind does not need.
ToFault(d) ==
    [d EXCEPT !.offset = IF @ = Nil THEN 0 ELSE @,
              !.delay  = IF @ = Nil THEN 0 ELSE @,
              !.value  = IF @ = Nil THEN 0 ELSE @]

ToFaults(s) == [i \in DOMAIN s.faults |-> ToFault(s.faults[i])]

\* Expected lists have one entry per interval; all but the decisions may be
\* left out altogether.
ExpectationValid(list, values, optional) ==
    /\ Len(list) = IntervalsPerDay \/ (optional /\ list = <<>>)
    /\ \A i \in DOMAIN list : list[i] \in values

ScenarioValid(s) ==
    /\ s.duration = Sim!SimulationDuration
    /\ Sim!ScheduleValid(ToFaults(s))
    /\ ExpectationValid(s.decisions, Decisions \cup {Nil}, FALSE)
    /\ ExpectationValid(s.dispositions, Dispositions, TRUE)
    /\ ExpectationValid(s.statuses, Statuses, TRUE)

DemoInit ==
    /\ Init
    /\ scenario \in Scenarios
    /\ faults = IF ScenarioValid(scenario) THEN ToFaults(scenario) ELSE <<>>
    /\ Sim!SimInit
    /\ decisions = <<>>
    /\ dispositions = <<>>
    /\ statuses = <<>>
    /\ verdict = Nil

\* The scenario is refused when it is loaded.
Refuse ==
    /\ exit = Nil
    /\ pc = "down"
    /\ verdict = Nil
    /\ ~ScenarioValid(scenario)
    /\ verdict' = "invalid"
    /\ UNCHANGED <<loopVars, scenario, recordVars>>

DemoStart ==
    /\ exit = Nil
    /\ ScenarioValid(scenario)
    /\ LoopStart
    /\ UNCHANGED <<scenario, recordVars, verdict>>

DecisionOf(command) == IF command = Nil THEN Nil ELSE command.decision

\* The Write callback keeps what each record says.
Record ==
    /\ pc = "write"
    /\ pc' = "check"
    /\ decisions' = Append(decisions, DecisionOf(out.command))
    /\ dispositions' = Append(dispositions, out.disposition)
    /\ statuses' = Append(statuses, out.health.status)

DemoStep ==
    /\ LoopStep
    /\ \/ Record
       \/ (pc = "write" => pc' # "check") /\ UNCHANGED recordVars
    /\ UNCHANGED <<scenario, verdict>>

Matches(produced, expected) == expected = <<>> \/ produced = expected

Compare ==
    /\ exit = "completed"
    /\ verdict = Nil
    /\ verdict' = IF /\ Matches(decisions, scenario.decisions)
                     /\ Matches(dispositions, scenario.dispositions)
                     /\ Matches(statuses, scenario.statuses)
                  THEN "matched" ELSE "mismatch"
    /\ UNCHANGED <<loopVars, scenario, recordVars>>

\* Any other end of the run is an error of the demo, cancellation too.
Fail ==
    /\ exit \notin {Nil, "completed"}
    /\ verdict = Nil
    /\ verdict' = "failed"
    /\ UNCHANGED <<loopVars, scenario, recordVars>>

DemoTick == Tick /\ UNCHANGED <<simVars, scenario, recordVars, verdict>>

\* Everything the command does by itself but for the ticks of its clock.
DemoProgress ==
    \/ Refuse
    \/ DemoStart
    \/ DemoStep
    \/ Compare
    \/ Fail

DemoNext ==
    \/ DemoProgress
    \/ DemoTick
    \/ Cancel /\ UNCHANGED <<simVars, scenario, recordVars, verdict>>

\* The command goes on by itself until it reports.  As for EdgeAgent, a tick
\* is only sure to come while the run is not cancelled.
DemoSpec ==
    /\ DemoInit
    /\ [][DemoNext]_demoVars
    /\ WF_demoVars(DemoProgress)
    /\ WF_demoVars(DemoTick /\ ~cancelled)

(***************************************************************************)
(* Properties.                                                             *)
(***************************************************************************)

\* A fault that lets the sample of its interval through, if late.
Delivers(f) == f = Nil \/ f.kind = "delay"

\* What a fault makes of the observation of its interval.
Effect(f) ==
    IF f = Nil THEN "none" ELSE IF Sim!Spoils(f) THEN "spoiled" ELSE f.kind

(***************************************************************************)
(* What an interval's record says follows from the fault of that interval, *)
(* whatever happened before: a fault-free one is accepted, online and      *)
(* commands the battery; a late one is stale and commands nothing; a       *)
(* spoiled one (a measurement missing or out of range, a padded event ID)  *)
(* is rejected and invalid; an unavailable one is offline; a repeated one  *)
(* is a duplicate; nothing but an accepted one commands.                   *)
(***************************************************************************)
RecordFollowsFault(i, disposition, status, decision) ==
    LET f == Sim!FaultAt(faults, i)
        kind == Effect(f)
    IN  /\ kind = "none" =>
             disposition = "accepted" /\ status = "online" /\ decision # Nil
        /\ kind = "delay" =>
             /\ disposition = "accepted"
             /\ status = IF f.delay > Interval THEN "stale" ELSE "online"
             /\ decision = Nil <=> f.delay > Interval
        /\ kind = "spoiled" =>
             disposition = "rejected" /\ status = "invalid"
        /\ kind = "unavailable" =>
             disposition = "unavailable" /\ status = "offline"
        /\ kind = "missing_heartbeat" => disposition = "missing"
        /\ kind = "out_of_order" =>
             disposition \in {"accepted", "history_only", "duplicate"}
        /\ kind = "duplicate" /\ Delivers(Sim!FaultAt(faults, i - 1)) =>
             disposition = "duplicate"
        /\ decision # Nil => disposition = "accepted"

(***************************************************************************)
(* Where the observation says nothing of the device itself, its health     *)
(* follows from the record before: a duplicate leaves it unchanged; a late *)
(* event keeps an invalid device invalid and makes none invalid or offline *)
(* (docs/engineering/adr/ADR-004, the rows of the two); an interval with   *)
(* no heartbeat never makes a device invalid, and ends invalid only by     *)
(* going offline.  ADR-004 has the device stale then; in evaluateHealth it *)
(* is online until its latest event is old enough.                         *)
(***************************************************************************)
HealthFollows(before, disposition, status) ==
    /\ disposition = "duplicate" => status = before
    /\ disposition = "history_only" =>
         status \in IF before = "invalid" THEN {"invalid"}
                   ELSE {"online", "stale"}
    /\ disposition = "missing" =>
         status \in IF before = "invalid" THEN {"invalid", "offline"}
                   ELSE {"online", "stale", "offline"}

(***************************************************************************)
(* Every record follows from the fault of its interval and the health of   *)
(* the record before.  A demo that ends by itself has a record for every   *)
(* interval of the day (docs/MODEL.md: "faults never add or remove         *)
(* intervals").                                                            *)
(***************************************************************************)
RecordsFollowFaults ==
    /\ \A i \in DOMAIN dispositions :
         /\ RecordFollowsFault(i, dispositions[i], statuses[i], decisions[i])
         /\ HealthFollows(IF i = 1 THEN Nil ELSE statuses[i - 1],
                          dispositions[i], statuses[i])
    /\ exit = "completed" =>
         /\ Len(dispositions) = IntervalsPerDay
         /\ simTime = StartTime + Sim!SimulationDuration

(***************************************************************************)
(* The demo command ends, with one verdict or another.                     *)
(***************************************************************************)
DemoEnds == <>(verdict # Nil)

=============================================================================
