------------------------------ MODULE EdgeAgent ------------------------------
(***************************************************************************)
(* One edge agent: application.Run and the process around it, against one  *)
(* household database, an arbitrary telemetry source, a battery that       *)
(* commands are applied to, and a clock.  The process can be cancelled     *)
(* (SIGTERM), can crash between any two steps, and can be started again on *)
(* the same database.                                                      *)
(*                                                                         *)
(* A step is what happens between two calls that leave the process:        *)
(* restore the snapshot; check for cancellation; wait for the clock; ask   *)
(* the source and classify its answer; commit; apply; write the record.    *)
(*                                                                         *)
(* The source is external: it offers any envelope of Envelopes at any      *)
(* interval, in any order and any number of times, or none.  Its receive   *)
(* time and the agent's clock are independent, as they are with -pace real *)
(* (the simulator stamps its own schedule, the clock is the wall clock).   *)
(***************************************************************************)
EXTENDS Repository

CONSTANTS
    DeviceID,       \* the household this agent manages
    Envelopes,      \* the envelopes the source can deliver
    Pace,           \* the -pace flag, "real" or "fast"
    MaxIntervals,   \* the -intervals flag; 0 runs until the run is stopped
    StartTime,      \* the instant clock's start, or the first start's wall time
    MaxDelay,       \* bound: how late the wall clock's tick or a restart may be
    MaxTime         \* bound: the clock stops here

ASSUME AgentAssumption ==
    /\ DeviceID \in Devices
    /\ Envelopes \subseteq ObservationEnvelope
    /\ Pace \in {"real", "fast"}
    /\ MaxIntervals \in Nat
    /\ StartTime \in Nat \ {0}
    /\ MaxDelay \in Nat
    /\ MaxTime \in Nat

VARIABLES
    pc,         \* where the run is; "down" when the process is not running
    exit,       \* how the last run ended; Nil before the first and during one
    cancelled,  \* the run's context is cancelled
    count,      \* intervals of this run: exact up to MaxIntervals, 1 if unbounded
    state,      \* the in-memory latest state
    health,     \* the in-memory device health
    cur,        \* the classified observation on its way to the commit, or Nil
    out,        \* the interval's outcome after the commit, or Nil
    now,        \* the agent's clock
    applied,    \* how often each event's command reached the battery
    mine,       \* history: the events whose command this run committed
    late        \* history: observations this run took after its cancellation

memVars == <<count, state, health, cur, out>>

vars == <<dbVars, memVars, pc, exit, cancelled, now, applied, mine, late>>

Locations == {"down", "restore", "check", "wait", "next", "commit", "apply",
              "write"}

Exits == {"completed", "cancelled", "failed", "grace", "refused", "panicked",
          "crashed"}

Outcome == [disposition: Dispositions, telemetry: Telemetry \cup {Nil},
            stateUpdated: BOOLEAN, storedHistory: BOOLEAN,
            health: DeviceHealth \cup {ZeroHealth},
            command: Command \cup {Nil}]

Current == [class: Classification, recv: Nat \ {0},
            command: Command \cup {Nil}]

ASSUME NilRunAssumption ==
    Nil \notin Exits /\ Nil \notin Current /\ Nil \notin Outcome

TypeOK ==
    /\ DbTypeOK
    /\ pc \in Locations
    /\ exit \in Exits \cup {Nil}
    /\ cancelled \in BOOLEAN
    /\ count \in Nat
    /\ state \in State \cup {ZeroState}
    /\ health \in DeviceHealth \cup {ZeroHealth}
    /\ cur \in Current \cup {Nil}
    /\ out \in Outcome \cup {Nil}
    /\ now \in Nat \ {0}
    /\ applied \in [EventIDs -> Nat]
    /\ mine \subseteq EventIDs
    /\ late \in Nat

Init ==
    /\ DbInit
    /\ pc = "down"
    /\ exit = Nil
    /\ cancelled = FALSE
    /\ count = 0
    /\ state = ZeroState
    /\ health = ZeroHealth
    /\ cur = Nil
    /\ out = Nil
    /\ now = StartTime
    /\ applied = [id \in EventIDs |-> 0]
    /\ mine = {}
    /\ late = 0

(***************************************************************************)
(* The end of a run, with the process's memory gone.                       *)
(***************************************************************************)
Finish(how) ==
    /\ pc' = "down"
    /\ exit' = how
    /\ count' = 0
    /\ state' = ZeroState
    /\ health' = ZeroHealth
    /\ cur' = Nil
    /\ out' = Nil
    /\ UNCHANGED <<cancelled, now, applied, mine, late>>

(***************************************************************************)
(* A process start.  The instant clock begins anew at StartTime; the wall  *)
(* clock went on while the process was down.                               *)
(***************************************************************************)
Start ==
    /\ pc = "down"
    /\ pc' = "restore"
    /\ exit' = Nil
    /\ cancelled' = FALSE
    /\ IF Pace = "fast" THEN now' = StartTime
       ELSE \E d \in 0 .. MaxDelay :
                /\ now + d <= MaxTime
                /\ now' = now + d
    /\ mine' = {}
    /\ late' = 0
    /\ UNCHANGED <<dbVars, memVars, applied>>

(***************************************************************************)
(* Repository.Snapshot at the start of Run.  It runs on the cancellable    *)
(* context, so a cancelled run fails here and counts as a clean stop.      *)
(***************************************************************************)
\* Mutant: a restarted run begins with no state.
Restore_Forgets ==
    /\ pc = "restore"
    /\ ~cancelled
    /\ pc' = "check"
    /\ state' = ZeroState
    /\ health' = SnapshotHealth
    /\ UNCHANGED <<dbVars, exit, cancelled, count, cur, out, now, applied,
                   mine, late>>

Restore ==
    /\ pc = "restore"
    /\ ~cancelled
    /\ pc' = "check"
    /\ state' = SnapshotState
    /\ health' = SnapshotHealth
    /\ UNCHANGED <<dbVars, exit, cancelled, count, cur, out, now, applied,
                   mine, late>>

RestoreCancelled ==
    /\ pc = "restore"
    /\ cancelled
    /\ Finish("cancelled")
    /\ UNCHANGED dbVars

RestoreFails ==
    /\ pc = "restore"
    /\ Finish("failed")
    /\ UNCHANGED dbVars

(***************************************************************************)
(* The head of the loop: the interval bound, then the context, then either *)
(* the first observation at once or the wait for the next tick.            *)
(***************************************************************************)
IntervalsLeft == MaxIntervals = 0 \/ count < MaxIntervals

CheckDone ==
    /\ pc = "check"
    /\ ~IntervalsLeft
    /\ Finish("completed")
    /\ UNCHANGED dbVars

CheckCancelled ==
    /\ pc = "check"
    /\ IntervalsLeft
    /\ cancelled
    /\ Finish("cancelled")
    /\ UNCHANGED dbVars

\* Mutant: cancellation is left to the select.
CheckNext_NoContext ==
    /\ pc = "check"
    /\ IntervalsLeft
    /\ pc' = IF count > 0 THEN "wait" ELSE "next"
    /\ UNCHANGED <<dbVars, memVars, exit, cancelled, now, applied, mine, late>>

CheckNext ==
    /\ pc = "check"
    /\ IntervalsLeft
    /\ ~cancelled
    /\ pc' = IF count > 0 THEN "wait" ELSE "next"
    /\ UNCHANGED <<dbVars, memVars, exit, cancelled, now, applied, mine, late>>

(***************************************************************************)
(* The select between the context and the tick.  Both can be ready, and    *)
(* then either is taken, so a tick that fired is not lost to cancellation. *)
(***************************************************************************)
Tick ==
    /\ pc = "wait"
    /\ \E d \in IF Pace = "fast" THEN {0} ELSE 0 .. MaxDelay :
          /\ now + Interval + d <= MaxTime
          /\ now' = now + Interval + d
    /\ pc' = "next"
    /\ UNCHANGED <<dbVars, memVars, exit, cancelled, applied, mine, late>>

\* Mutant: the wait is for the tick alone.
WaitCancelled_Never == FALSE /\ pc = "wait" /\ Finish("cancelled")

WaitCancelled ==
    /\ pc = "wait"
    /\ cancelled
    /\ Finish("cancelled")
    /\ UNCHANGED dbVars

(***************************************************************************)
(* TelemetrySource.Next: exhausted, failed (with the context's own error   *)
(* if that is what the source returns), or an observation, which is        *)
(* classified and decided on in the same step.                             *)
(***************************************************************************)
SourceExhausted ==
    /\ pc = "next"
    /\ Finish("completed")
    /\ UNCHANGED dbVars

SourceFails ==
    /\ pc = "next"
    /\ \/ Finish("failed")
       \/ cancelled /\ Finish("cancelled")
    /\ UNCHANGED dbVars

\* Mutant: the policy is consulted for a late observation too.
DecidedCommand_Late(class) ==
    IF class.disposition = "accepted" THEN Decide(class.state.m) ELSE Nil

\* The policy is consulted only for an accepted observation that is on time.
DecidedCommand(class) ==
    IF class.disposition = "accepted" /\ ~class.suppress
    THEN Decide(class.state.m) ELSE Nil

Observe(e) ==
    /\ pc = "next"
    /\ ~ClassifyPanics(e, state)
    /\ LET class == Classify(e, state, health, now)
       IN  cur' = [class |-> class, recv |-> ReceivedAtOrNow(e, now),
                   command |-> DecidedCommand(class)]
    /\ pc' = "commit"
    /\ late' = IF cancelled THEN late + 1 ELSE late
    /\ UNCHANGED <<dbVars, exit, cancelled, count, state, health, out, now,
                   applied, mine>>

Panic(e) ==
    /\ pc = "next"
    /\ ClassifyPanics(e, state)
    /\ Finish("panicked")
    /\ UNCHANGED dbVars

(***************************************************************************)
(* buildObservationResult.                                                 *)
(***************************************************************************)
ObservationResult(c) ==
    LET class == c.class
        stored == class.telemetry # Nil
    IN  [device |-> DeviceID,
         telemetry |-> IF stored
                       THEN [event |-> class.telemetry, recv |-> c.recv,
                             disposition |-> class.disposition]
                       ELSE Nil,
         latestState |-> IF stored THEN class.state ELSE Nil,
         command |-> IF stored /\ c.command # Nil
                     THEN [eventID |-> class.telemetry.id,
                           command |-> c.command, createdAt |-> c.recv]
                     ELSE Nil,
         health |-> class.health]

(***************************************************************************)
(* Repository.CommitProcessing on the grace context, which cancellation    *)
(* does not reach.  It can refuse an invalid result, fail, run out of the  *)
(* grace, find a duplicate, or store the result.                           *)
(***************************************************************************)
CommitRefused ==
    /\ pc = "commit"
    /\ ~ResultValid(ObservationResult(cur))
    /\ Finish("refused")
    /\ UNCHANGED dbVars

\* Mutant: a failed commit is passed over and the run goes on.
CommitFails_Ignored ==
    /\ pc = "commit"
    /\ pc' = "apply"
    /\ out' = [disposition |-> cur.class.disposition,
               telemetry |-> cur.class.telemetry, stateUpdated |-> FALSE,
               storedHistory |-> FALSE, health |-> health, command |-> Nil]
    /\ cur' = Nil
    /\ UNCHANGED <<dbVars, exit, cancelled, count, state, health, now,
                   applied, mine, late>>

CommitFails ==
    /\ pc = "commit"
    /\ ResultValid(ObservationResult(cur))
    /\ Finish("failed")
    /\ UNCHANGED dbVars

CommitTimesOut ==
    /\ pc = "commit"
    /\ ResultValid(ObservationResult(cur))
    /\ Finish("grace")
    /\ UNCHANGED dbVars

\* Mutant: a duplicate's health is adopted all the same.
CommitDuplicate_AdoptsHealth ==
    /\ pc = "commit"
    /\ ResultValid(ObservationResult(cur))
    /\ AlreadyStored(ObservationResult(cur))
    /\ pc' = "apply"
    /\ out' = [disposition |-> "duplicate",
               telemetry |-> cur.class.telemetry, stateUpdated |-> FALSE,
               storedHistory |-> FALSE, health |-> health, command |-> Nil]
    /\ cur' = Nil
    /\ health' = cur.class.health
    /\ UNCHANGED <<dbVars, exit, cancelled, count, state, now, applied, mine,
                   late>>

\* Mutant: a duplicate is reported as the classification had it.
CommitDuplicate_ReportsClass ==
    /\ pc = "commit"
    /\ ResultValid(ObservationResult(cur))
    /\ AlreadyStored(ObservationResult(cur))
    /\ pc' = "apply"
    /\ out' = [disposition |-> cur.class.disposition,
               telemetry |-> cur.class.telemetry,
               stateUpdated |-> cur.class.state # Nil, storedHistory |-> TRUE,
               health |-> health, command |-> cur.command]
    /\ cur' = Nil
    /\ UNCHANGED <<dbVars, exit, cancelled, count, state, health, now,
                   applied, mine, late>>

\* Nothing became durable: the prior state and health stay, no command.
CommitDuplicate ==
    /\ pc = "commit"
    /\ ResultValid(ObservationResult(cur))
    /\ AlreadyStored(ObservationResult(cur))
    /\ pc' = "apply"
    /\ out' = [disposition |-> "duplicate",
               telemetry |-> cur.class.telemetry, stateUpdated |-> FALSE,
               storedHistory |-> FALSE, health |-> health, command |-> Nil]
    /\ cur' = Nil
    /\ UNCHANGED <<dbVars, exit, cancelled, count, state, health, now,
                   applied, mine, late>>

CommitStored ==
    /\ pc = "commit"
    /\ ResultValid(ObservationResult(cur))
    /\ ~AlreadyStored(ObservationResult(cur))
    /\ StoreResult(ObservationResult(cur))
    /\ pc' = "apply"
    /\ out' = [disposition |-> cur.class.disposition,
               telemetry |-> cur.class.telemetry,
               stateUpdated |-> cur.class.state # Nil,
               storedHistory |-> cur.class.telemetry # Nil,
               health |-> cur.class.health, command |-> cur.command]
    /\ state' = IF cur.class.state # Nil THEN cur.class.state ELSE state
    /\ health' = cur.class.health
    /\ mine' = IF cur.command # Nil THEN mine \cup {cur.class.telemetry.id}
               ELSE mine
    /\ cur' = Nil
    /\ UNCHANGED <<exit, cancelled, count, now, applied, late>>

(***************************************************************************)
(* CommandSink.Apply, called with no command too, and Agent.Write.         *)
(***************************************************************************)
Apply ==
    /\ pc = "apply"
    /\ pc' = "write"
    /\ applied' = IF out.command = Nil THEN applied
                  ELSE [applied EXCEPT ![out.telemetry.id] = @ + 1]
    /\ UNCHANGED <<dbVars, memVars, exit, cancelled, now, mine, late>>

\* Mutant: the command is applied on the context cancellation reaches.
ApplyFails_Cancellable ==
    /\ pc = "apply"
    /\ \/ Finish("failed")
       \/ cancelled /\ Finish("cancelled")
    /\ UNCHANGED dbVars

ApplyFails ==
    /\ pc = "apply"
    /\ Finish("failed")
    /\ UNCHANGED dbVars

\* Mutant: intervals are not counted.
Write_NotCounted ==
    /\ pc = "write"
    /\ pc' = "check"
    /\ out' = Nil
    /\ UNCHANGED <<dbVars, exit, cancelled, count, state, health, cur, now,
                   applied, mine, late>>

Write ==
    /\ pc = "write"
    /\ pc' = "check"
    /\ out' = Nil
    /\ count' = IF MaxIntervals = 0 THEN 1 ELSE count + 1
    /\ UNCHANGED <<dbVars, exit, cancelled, state, health, cur, now, applied,
                   mine, late>>

WriteFails ==
    /\ pc = "write"
    /\ Finish("failed")
    /\ UNCHANGED dbVars

(***************************************************************************)
(* The environment: the context is cancelled, the process is killed.       *)
(***************************************************************************)
Cancel ==
    /\ pc # "down"
    /\ ~cancelled
    /\ cancelled' = TRUE
    /\ UNCHANGED <<dbVars, memVars, pc, exit, now, applied, mine, late>>

Crash ==
    /\ pc # "down"
    /\ Finish("crashed")
    /\ UNCHANGED dbVars

Receive == \E e \in Envelopes \cup {Nil} : Observe(e) \/ Panic(e)

Commit ==
    \/ CommitRefused
    \/ CommitFails
    \/ CommitTimesOut
    \/ CommitDuplicate
    \/ CommitStored

\* Every step of a running agent but the tick it waits for.
Step ==
    \/ Restore \/ RestoreCancelled \/ RestoreFails
    \/ CheckDone \/ CheckCancelled \/ CheckNext
    \/ WaitCancelled
    \/ SourceExhausted \/ SourceFails \/ Receive
    \/ Commit
    \/ Apply \/ ApplyFails
    \/ Write \/ WriteFails

Next == Start \/ Step \/ Tick \/ Cancel \/ Crash

Spec == Init /\ [][Next]_vars

(***************************************************************************)
(* A running agent takes its next step: its calls return, the commit and   *)
(* the apply because the grace bounds them.  A tick is only sure to fire   *)
(* while the context is not cancelled: Clock.Tick delivers nothing once it *)
(* is.  Nothing makes the environment start, cancel or kill the process.   *)
(***************************************************************************)
FairSpec == Spec /\ WF_vars(Step) /\ WF_vars(Tick /\ ~cancelled)

(***************************************************************************)
(* Properties.                                                             *)
(***************************************************************************)

Running == pc \notin {"down", "restore"}

(***************************************************************************)
(* Between any two calls of a running agent, the state and the health Run  *)
(* classifies against are what the database would restore: a duplicate     *)
(* leaves both as they were, a stored result replaces both (run.go,        *)
(* processInterval), and no crash, refusal or restart pulls them apart.    *)
(***************************************************************************)
MemoryMatchesDatabase ==
    Running => state = SnapshotState /\ health = SnapshotHealth

(***************************************************************************)
(* The latest state is the newest event ever stored, whatever the order of *)
(* delivery: it is derived from a stored accepted event, no stored event   *)
(* is newer, and no event is stored without a latest state (classify.go    *)
(* orders by event time, replaceLatestStateIfNewer checks again).          *)
(***************************************************************************)
LatestIsNewest ==
    /\ latestRow # Nil =>
         LET row == events[latestRow.lastEvent]
         IN  /\ row # Nil
             /\ row.disposition = "accepted"
             /\ latestRow = ApplyTelemetry(ZeroState, row.event)
    /\ \A id \in EventIDs : events[id] # Nil =>
         latestRow # Nil /\ events[id].event.time <= latestRow.updatedAt

(***************************************************************************)
(* Every recorded command can be traced to the stored event it was decided *)
(* from: an accepted one that arrived within its interval, whose policy    *)
(* decision it is, at the event's receive time.                            *)
(***************************************************************************)
CommandsTraceable ==
    \A id \in EventIDs : commands[id] # Nil =>
        /\ events[id] # Nil
        /\ events[id].disposition = "accepted"
        /\ events[id].recv - events[id].event.time <= Interval
        /\ commands[id] = [command |-> Decide(events[id].event.m),
                           createdAt |-> events[id].recv]

(***************************************************************************)
(* The battery gets a command at most once for an event, over all runs of  *)
(* the agent, all crashes and all redeliveries, and only after the command *)
(* has become durable (run.go commits before it applies).                  *)
(***************************************************************************)
AppliedOnceAndRecorded ==
    \A id \in EventIDs :
        /\ applied[id] <= 1
        /\ applied[id] = 1 => commands[id] # Nil

(***************************************************************************)
(* A run that ends cleanly, by cancellation too, leaves no command of its  *)
(* own recorded that did not reach the battery: "so cancellation can       *)
(* neither abandon an event the runtime already accepted nor record a      *)
(* command that never reached the battery" (run.go:93).                    *)
(***************************************************************************)
CleanStopLosesNoCommand ==
    exit \in {"completed", "cancelled"} =>
        \A id \in mine : commands[id] # Nil /\ applied[id] = 1

(***************************************************************************)
(* The record an interval writes says what is durable and what was done:   *)
(* its history and state flags, its health and its command agree with the  *)
(* database, and a command it reports has reached the battery.             *)
(***************************************************************************)
RecordMatchesDatabase ==
    pc = "write" =>
        /\ out.storedHistory =>
             /\ events[out.telemetry.id] # Nil
             /\ events[out.telemetry.id].event = out.telemetry
             /\ events[out.telemetry.id].disposition = out.disposition
        /\ out.stateUpdated => latestRow = ApplyTelemetry(ZeroState, out.telemetry)
        /\ out.disposition = "duplicate" => events[out.telemetry.id] # Nil
        /\ out.health = SnapshotHealth
        /\ out.command # Nil =>
             /\ commands[out.telemetry.id] # Nil
             /\ commands[out.telemetry.id].command = out.command
             /\ applied[out.telemetry.id] = 1

(***************************************************************************)
(* A cancelled run takes at most one more observation: the tick that was   *)
(* already ready in the select.                                            *)
(***************************************************************************)
AtMostOneMoreObservation == late <= 1

(***************************************************************************)
(* What a source has to keep to and no check of the agent makes sure of:   *)
(* it delivers the agent's own household's telemetry, timed in UTC.        *)
(***************************************************************************)
SourceContract ==
    \A e \in Envelopes : e.tel # Nil => e.src = DeviceID /\ e.tel.utc

(***************************************************************************)
(* No observation ends a run: whatever the classification stores, the      *)
(* repository's own validation accepts, and Classify does not panic.  It   *)
(* holds for a source that keeps to SourceContract.                        *)
(***************************************************************************)
ObservationNeverEndsRun == exit \notin {"refused", "panicked"}

(***************************************************************************)
(* Whatever households a source delivers events of, and in whatever time   *)
(* zone, only this household's events become durable, and only with a UTC  *)
(* event time (contracts.go validates what classify.go lets through).      *)
(***************************************************************************)
OwnDataOnly ==
    /\ \A id \in EventIDs : events[id] # Nil =>
         events[id].event.device = DeviceID /\ events[id].event.utc
    /\ latestRow # Nil => latestRow.device = DeviceID

(***************************************************************************)
(* What is durable stays: a stored event and a recorded command never      *)
(* change, and the latest state only moves forward in event time.          *)
(***************************************************************************)
DurableRecordsKept ==
    [][ /\ \A id \in EventIDs :
             /\ events[id] # Nil => events'[id] = events[id]
             /\ commands[id] # Nil => commands'[id] = commands[id]
        /\ latestRow # Nil /\ latestRow' # latestRow =>
             /\ latestRow' # Nil
             /\ latestRow'.updatedAt > latestRow.updatedAt ]_vars

(***************************************************************************)
(* The health's transition time tells since when the device has its        *)
(* status: no observation and no restart moves it while the status stays   *)
(* the same (transitionHealth keeps the prior time).                       *)
(***************************************************************************)
TransitionMarksStatusChange ==
    [][ healthRow # Nil =>
          /\ healthRow' # Nil
          /\ healthRow'.status = healthRow.status =>
               healthRow'.transition = healthRow.transition ]_vars

(***************************************************************************)
(* Cancellation ends the run, wherever it finds it: at the check, in the   *)
(* wait for a tick that no longer comes, or in the middle of an interval.  *)
(***************************************************************************)
CancelEndsRun == cancelled ~> pc = "down"

(***************************************************************************)
(* A run with a bound on its intervals ends without anybody stopping it.   *)
(***************************************************************************)
BoundedRunEnds == pc = "restore" ~> pc = "down"

(***************************************************************************)
(* Claims of the documentation that the code does not keep.                *)
(***************************************************************************)

(***************************************************************************)
(* ADR-004: only a valid, newer event restores health.  A device that was  *)
(* not online becomes online only with a new latest state.                 *)
(***************************************************************************)
OnlyNewerRestores ==
    [][ (/\ healthRow # Nil
         /\ healthRow.status # "online"
         /\ healthRow'.status = "online") => latestRow' # latestRow ]_vars

(***************************************************************************)
(* device_health.go: an online device has had an event accepted.           *)
(***************************************************************************)
OnlineMeansAccepted ==
    healthRow # Nil /\ healthRow.status = "online" => latestRow # Nil

=============================================================================
