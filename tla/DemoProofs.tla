----------------------------- MODULE DemoProofs -----------------------------
(***************************************************************************)
(* The demo, proved for every scenario that passes Validate: any valid     *)
(* schedule of faults, any expectation, any length of the day.             *)
(*                                                                         *)
(* The demo is the agent with the simulator, so both their invariants hold *)
(* of it; the simulator's is instantiated, for its proofs speak of a       *)
(* simulator alone.  What has to be added ties the fault of an interval to *)
(* what the database already holds when its observation is committed:      *)
(* nothing ahead of the simulator's clock is stored (Ahead), so the sample *)
(* of an interval, late or not, is newer than everything and is accepted;  *)
(* every sample that was delivered is stored (SamplesStored), so its       *)
(* repetition is found to be a duplicate.  A second invariant carries the  *)
(* device's health from record to record (HealthCarried).                  *)
(***************************************************************************)
EXTENDS Demo, ClosedLoopProofs

\* The simulator's proofs, for the commands of the policy and one day.
SP == INSTANCE SimulatorProofs WITH
          SimStart <- StartTime,
          Commands <- Command,
          MaxSteps <- IntervalsPerDay

\* The fault of interval n, and what it makes of the observation.
FaultOf(n) == Sim!FaultAt(faults, n)

KindOf(n) == Effect(FaultOf(n))

(***************************************************************************)
(* What a schedule has to keep to for its battery to be safe: a duplicate  *)
(* repeats a sample that was delivered.                                    *)
(***************************************************************************)
RepeatsDelivered ==
    \A n \in 1 .. IntervalsPerDay :
        KindOf(n) = "duplicate" => Delivers(FaultOf(n - 1))

\* The instants of the simulated day.
DayInstants == {StartTime + k * Interval : k \in 0 .. IntervalsPerDay - 1}

(***************************************************************************)
(* Who has the turn, and how samples, intervals and records are counted.   *)
(***************************************************************************)
DemoTurns ==
    /\ pc \in {"restore", "check", "wait", "next", "write"} => pending = Nil
    /\ pc \in {"commit", "apply"} => pending # Nil
    /\ pc = "down" => count = 0
    /\ pc # "down" =>
         step = IF pc \in {"commit", "apply", "write"} THEN count + 1 ELSE count
    /\ pc \in {"wait", "next"} => count < IntervalsPerDay
    /\ step <= IntervalsPerDay
    /\ exit = "completed" => step = IntervalsPerDay /\ pending = Nil

\* The demo's one run finds a new simulator and an empty database.
Fresh ==
    pc = "down" /\ exit = Nil =>
        /\ simTime = StartTime /\ soc = StartingSOC /\ day = 1
        /\ dayEnd = StartTime + Sim!SimulationDuration
        /\ pending = Nil /\ prior = Nil /\ step = 0 /\ delivered = Nil
        /\ latestRow = Nil /\ dispositions = <<>>

\* Samples carry the IDs of their instants.
SamplesNamed ==
    /\ pending # Nil => pending.id = SampleID(simTime)
    /\ prior # Nil => prior.id = SampleID(prior.time)

(***************************************************************************)
(* Nothing that is stored lies ahead of the simulator's clock.             *)
(***************************************************************************)
Horizon == IF pc = "apply" THEN simTime + 1 ELSE simTime

Ahead ==
    /\ latestRow # Nil => latestRow.updatedAt < Horizon
    /\ \A t \in DayInstants : t >= Horizon => events[SampleID(t)] = Nil

\* A sample that was delivered is stored, so its duplicate will be one.
SamplesStored ==
    pc # "down" =>
        /\ prior # Nil /\ Delivers(FaultOf(IF pending = Nil THEN step ELSE step - 1))
             => events[prior.id] # Nil
        /\ pc = "apply" /\ Delivers(FaultOf(step)) => events[pending.id] # Nil

(***************************************************************************)
(* What is on its way to the commit, by the fault of its interval.         *)
(***************************************************************************)
ScheduledInFlight ==
    pc = "commit" =>
        /\ KindOf(step) # "duplicate" =>
             RecordFollowsFault(step, cur.class.disposition,
                                cur.class.health.status, DecisionOf(cur.command))
        /\ KindOf(step) \in {"none", "delay"} =>
             /\ cur.class.telemetry # Nil
             /\ cur.class.telemetry.id = pending.id
        /\ KindOf(step) = "duplicate" =>
             /\ cur.class.telemetry # Nil /\ prior # Nil
             /\ cur.class.telemetry.id = prior.id
        /\ cur.class.telemetry # Nil =>
             /\ cur.class.telemetry.time <= simTime
             /\ KindOf(step) \in {"none", "delay", "duplicate", "out_of_order"}
             /\ KindOf(step) = "out_of_order" =>
                  \A t \in DayInstants : cur.class.telemetry.id # SampleID(t)
             /\ KindOf(step) # "duplicate" => cur.class.telemetry.m.soc = soc

\* What became of it.
ScheduledOutcome ==
    pc \in {"apply", "write"} =>
        /\ RecordFollowsFault(step, out.disposition, out.health.status,
                              DecisionOf(out.command))
        /\ out.command # Nil =>
             /\ out.telemetry \in Telemetry
             /\ out.command = Decide(out.telemetry.m)
             /\ pc = "apply" /\ RepeatsDelivered => out.telemetry.m.soc = soc

(***************************************************************************)
(* The reserve is kept where no duplicate repeats what never was           *)
(* delivered.                                                              *)
(***************************************************************************)
DemoReserve ==
    RepeatsDelivered /\ StartingSOC >= MinimumDischargeSOC =>
        soc >= MinimumDischargeSOC

(***************************************************************************)
(* There is a record for every interval that is over, and it follows the   *)
(* fault of the interval.                                                  *)
(***************************************************************************)
Records ==
    /\ decisions \in Seq(Decisions \cup {Nil})
    /\ dispositions \in Seq(Dispositions)
    /\ statuses \in Seq(Statuses \cup {Nil})
    /\ Len(decisions) = Len(dispositions)
    /\ Len(statuses) = Len(dispositions)
    /\ pc # "down" => Len(dispositions) = count
    /\ exit = "completed" => Len(dispositions) = IntervalsPerDay
    /\ \A i \in DOMAIN dispositions :
         RecordFollowsFault(i, dispositions[i], statuses[i], decisions[i])

\* The inductive invariant.
DemoIInv ==
    /\ IInv
    /\ SP!IInv
    /\ DemoTurns
    /\ Fresh
    /\ SamplesNamed
    /\ Ahead
    /\ SamplesStored
    /\ ScheduledInFlight
    /\ ScheduledOutcome
    /\ DemoReserve
    /\ Records

(***************************************************************************)
(* The device's health goes from record to record: between two intervals   *)
(* the memory holds the status of the latest record, and what an interval  *)
(* makes of it follows from that one.                                      *)
(***************************************************************************)
LastStatus == IF statuses = <<>> THEN Nil ELSE statuses[Len(statuses)]

HealthCarried ==
    /\ pc = "restore" \/ (pc = "down" /\ exit = Nil) =>
         healthRow = Nil /\ statuses = <<>>
    /\ pc \in {"check", "wait", "next", "commit"} => health.status = LastStatus
    /\ pc = "commit" =>
         HealthFollows(LastStatus, cur.class.disposition, cur.class.health.status)
    /\ pc \in {"apply", "write"} =>
         /\ health = out.health
         /\ HealthFollows(LastStatus, out.disposition, out.health.status)
    /\ \A i \in DOMAIN dispositions :
         HealthFollows(IF i = 1 THEN Nil ELSE statuses[i - 1],
                       dispositions[i], statuses[i])

(***************************************************************************)
(* The simulator's proofs apply to the demo's simulator: what they assume  *)
(* holds of a day's configuration, and its operators are the same.         *)
(***************************************************************************)
LEMMA SameSets ==
    /\ SP!ObservationEnvelope = ObservationEnvelope
    /\ SP!RawTelemetry = RawTelemetry
    /\ SP!Telemetry = Telemetry
    /\ SP!State = State
    /\ SP!DeviceHealth = DeviceHealth
    /\ SP!Command = Command
    /\ SP!Statuses = Statuses
    /\ SP!Decisions = Decisions
    /\ SP!Measurements = Measurements
    /\ SP!Sample = Sim!Sample
    /\ SP!Fault = Sim!Fault
  <1>1. SP!Statuses = Statuses /\ SP!Decisions = Decisions
    BY Zenon DEF SP!Statuses, Statuses, SP!Decisions, Decisions
  <1>2. SP!Measurements = Measurements /\ SP!RawMeasurements = RawMeasurements
        /\ Sim!Measurements = Measurements
    BY Zenon DEF SP!Measurements, Measurements, SP!RawMeasurements, RawMeasurements,
       Sim!Measurements
  <1>3. SP!RawTelemetry = RawTelemetry /\ SP!Telemetry = Telemetry
        /\ SP!State = State
    BY <1>2, Zenon DEF SP!RawTelemetry, RawTelemetry, SP!Telemetry, Telemetry,
       SP!State, State
  <1>4. SP!ObservationEnvelope = ObservationEnvelope
    BY <1>3, Zenon DEF SP!ObservationEnvelope, ObservationEnvelope
  <1>5. SP!DeviceHealth = DeviceHealth /\ SP!Command = Command
    BY <1>1, Zenon DEF SP!DeviceHealth, DeviceHealth, SP!Command, Command
  <1>6. SP!Sample = Sim!Sample
    BY <1>2, Zenon DEF SP!Sample, Sim!Sample
  <1>7. SP!Fault = Sim!Fault
    BY Zenon DEF SP!Fault, Sim!Fault, SP!FaultKinds, Sim!FaultKinds,
       SP!MeasurementNames, Sim!MeasurementNames
  <1>. QED  BY <1>1, <1>2, <1>3, <1>4, <1>5, <1>6, <1>7

\* What the simulator's proofs assume holds of the demo's configuration.
LEMMA SimulatorAssumptionsHold ==
    /\ SP!IntervalAssumption
    /\ SP!IdentityAssumption
    /\ SP!NoValueAssumption
    /\ SP!NilAssumption
    /\ SP!SimulatorAssumption
    /\ SP!CommandsAssumption
    /\ SP!ScheduleAssumption
  <1>1. SP!IntervalAssumption /\ SP!IdentityAssumption /\ SP!NoValueAssumption
    BY IntervalAssumption, IdentityAssumption, NoValueAssumption
  <1>2. SP!NilAssumption
    BY NilAssumption, SameSets
  <1>3. SP!SimulatorAssumption
    BY ConfigAssumption DEF Sim!ConfigValid, SP!ConfigValid, SP!SimulationDuration,
       Sim!SimulationDuration, Sim!MinimumSOC, SP!MinimumSOC, Sim!MaximumSOC,
       SP!MaximumSOC
  <1>4. SP!CommandsAssumption
    BY SameSets, SMT DEF Command
  <1>5. SP!ScheduleAssumption
    <2>1. Positions = 0 .. IntervalsPerDay - 1
      BY ConfigAssumption, DemoAssumption DEF Positions, Sim!ConfigValid
    <2>2. \A t : SP!SimulatedEventID(t) = Sim!SimulatedEventID(t)
      BY DEF SP!SimulatedEventID, Sim!SimulatedEventID
    <2>3. \A k \in 0 .. IntervalsPerDay - 1 :
            SP!SimulatedEventID(StartTime + k * Interval) \in EventIDs
      BY <2>1, <2>2, TimelineAssumption
    <2>4. \A s \in Schedules : SP!LateEventsApart(s, IntervalsPerDay)
      BY <2>2, LateEventAssumption DEF SP!LateEventsApart, Sim!LateEventsApart
    <2>5. Nil \notin SP!Sample /\ Nil \notin SP!Fault /\ Schedules \subseteq Seq(SP!Fault)
      BY SameSets, TimelineAssumption, LateEventAssumption
    <2>6. PaddedID \notin EventIDs \cup {Nil}
      BY LateEventAssumption
    <2>. QED  BY <2>3, <2>4, <2>5, <2>6
  <1>. QED  BY <1>1, <1>2, <1>3, <1>4, <1>5

\* The two instances of Simulator have the same operators...
LEMMA SameOperators ==
    /\ \A s, n : SP!FaultAt(s, n) = Sim!FaultAt(s, n)
    /\ \A f : SP!FaultValid(f) <=> Sim!FaultValid(f)
    /\ \A s : SP!ScheduleValid(s) <=> Sim!ScheduleValid(s)
    /\ \A f : SP!Spoils(f) <=> Sim!Spoils(f)
    /\ \A f, sample, before :
         SP!Observation(f, sample, before) = Sim!Observation(f, sample, before)
    /\ \A d, t, charge : SP!Measured(d, t, charge) = Sim!Measured(d, t, charge)
    /\ \A e : SP!EnvelopeValid(e) <=> EnvelopeValid(e)
    /\ \A t : SP!TelemetryValid(t) <=> TelemetryValid(t)
    /\ \A e : SP!TelemetryAcceptable(e) <=> TelemetryAcceptable(e)
  <1>1. \A f : SP!LastStep(f) = Sim!LastStep(f)
    BY DEF SP!LastStep, Sim!LastStep
  <1>2. \A s, n : SP!FaultAt(s, n) = Sim!FaultAt(s, n)
    BY Zenon DEF SP!FaultAt, Sim!FaultAt, SP!LastStep, Sim!LastStep
  <1>3. \A m : SP!MeasurementsValid(m) <=> MeasurementsValid(m)
    BY Zenon DEF SP!MeasurementsValid, MeasurementsValid, SP!MaximumSOC, MaximumSOC
  <1>4. /\ \A f : SP!FaultValid(f) <=> Sim!FaultValid(f)
        /\ \A s : SP!ScheduleValid(s) <=> Sim!ScheduleValid(s)
    <2>1. \A f, g : SP!Overlaps(f, g) <=> Sim!Overlaps(f, g)
      BY <1>1, Zenon DEF SP!Overlaps, Sim!Overlaps
    <2>2. \A name, value : SP!Rejects(name, value) <=> Sim!Rejects(name, value)
      BY Zenon DEF SP!Rejects, Sim!Rejects, SP!MeasurementsValid,
         Sim!MeasurementsValid, SP!MaximumSOC, Sim!MaximumSOC
    <2>3. \A f : SP!FaultValid(f) <=> Sim!FaultValid(f)
      BY <2>2, Zenon DEF SP!FaultValid, Sim!FaultValid, SP!FaultKinds, Sim!FaultKinds,
         SP!MeasurementNames, Sim!MeasurementNames
    <2>. QED  BY <2>1, <2>3, Zenon DEF SP!ScheduleValid, Sim!ScheduleValid
  <1>5. \A f, sample, before :
          SP!Observation(f, sample, before) = Sim!Observation(f, sample, before)
    BY ZenonT(90) DEF SP!Observation, Sim!Observation, SP!FullEnvelope, Sim!FullEnvelope,
       SP!EnvelopeOf, Sim!EnvelopeOf, SP!UnavailableEnvelope, Sim!UnavailableEnvelope,
       SP!EventIDOf, Sim!EventIDOf
  <1>6. \A d, t, charge : SP!Measured(d, t, charge) = Sim!Measured(d, t, charge)
    BY Zenon DEF SP!Measured, Sim!Measured, SP!SimulationDuration,
       Sim!SimulationDuration
  <1>7. \A e : SP!EnvelopeValid(e) <=> EnvelopeValid(e)
    BY Zenon DEF SP!EnvelopeValid, EnvelopeValid, SP!ZeroTime, ZeroTime
  <1>8. \A t : SP!TelemetryValid(t) <=> TelemetryValid(t)
    BY <1>3, Zenon DEF SP!TelemetryValid, TelemetryValid, SP!ZeroTime, ZeroTime
  <1>9. \A e : SP!TelemetryAcceptable(e) <=> TelemetryAcceptable(e)
    BY <1>8, Zenon DEF SP!TelemetryAcceptable, TelemetryAcceptable
  <1>10. \A f : SP!Spoils(f) <=> Sim!Spoils(f)
    BY Zenon DEF SP!Spoils, Sim!Spoils
  <1>. QED  BY <1>2, <1>4, <1>5, <1>6, <1>7, <1>8, <1>9, <1>10

\* ...and the same steps.
LEMMA SameSteps ==
    /\ Sim!SimInit => SP!SimInit
    /\ Sim!NextObservation => SP!NextObservation
    /\ \A c : Sim!Complete(c) => SP!Complete(c)
  <1>1. Sim!SimInit => SP!SimInit
    BY SameOperators, Zenon DEF Sim!SimInit, SP!SimInit, SP!SimulationDuration,
       Sim!SimulationDuration
  <1>2. Sim!NextObservation => SP!NextObservation
    <2>1. SP!DayIsOver <=> Sim!DayIsOver
      BY DEF SP!DayIsOver, Sim!DayIsOver
    <2>2. SP!SimulatedEventID(simTime) = Sim!SimulatedEventID(simTime)
      BY DEF SP!SimulatedEventID, Sim!SimulatedEventID
    <2>3. SP!SimulationDuration = Sim!SimulationDuration
      BY DEF SP!SimulationDuration, Sim!SimulationDuration
    <2>. QED  BY <2>1, <2>2, <2>3, SameOperators, Zenon
              DEF Sim!NextObservation, SP!NextObservation
  <1>3. \A c : Sim!Complete(c) => SP!Complete(c)
    <2>1. \A c : SP!CommandValid(c) <=> Sim!CommandValid(c)
      BY Zenon DEF SP!CommandValid, Sim!CommandValid
    <2>2. \A x, p : SP!NextBatterySOC(x, p) = Sim!NextBatterySOC(x, p)
      BY Zenon DEF SP!NextBatterySOC, Sim!NextBatterySOC, SP!MinimumSOC, Sim!MinimumSOC,
         SP!MaximumSOC, Sim!MaximumSOC
    <2>3. \A c : SP!BatteryPower(c) = Sim!BatteryPower(c)
      BY Zenon DEF SP!BatteryPower, Sim!BatteryPower
    <2>. QED  BY <2>1, <2>2, <2>3, Zenon DEF Sim!Complete, SP!Complete
  <1>. QED  BY <1>1, <1>2, <1>3

USE AgentAssumption, NilAssumption, NilRowAssumption, NilRunAssumption,
    IdentityAssumption, IntervalAssumption

\* What the simulator's own invariant says, in the demo's words.
LEMMA SimFacts ==
    ASSUME SP!IInv
    PROVE  /\ simTime \in Nat \ {0} /\ step \in Nat /\ day \in Nat \ {0}
           /\ soc \in 0 .. MaximumSOC
           /\ pending \in Sim!Sample \cup {Nil}
           /\ prior \in Sim!Sample \cup {Nil}
           /\ delivered \in ObservationEnvelope \cup {Nil}
           /\ simTime = StartTime
                          + (IF pending = Nil THEN step ELSE step - 1) * Interval
           /\ pending # Nil => pending.time = simTime
           /\ prior # Nil => prior.time = simTime - Interval
           /\ step > 0 /\ pending = Nil => prior # Nil
           /\ faults \in Schedules
  BY SameSets DEF SP!IInv, SP!SimTypeOK, SP!OneIntervalPerStep, SP!Schedule,
     SP!MinimumSOC, SP!MaximumSOC, MaximumSOC

\* The fault of a step is one of the schedule's, and valid.
LEMMA FaultFacts ==
    ASSUME SP!IInv, NEW n \in Nat, FaultOf(n) # Nil
    PROVE  /\ FaultOf(n) \in Sim!Fault
           /\ Sim!FaultValid(FaultOf(n))
           /\ \E i \in DOMAIN faults : FaultOf(n) = faults[i]
           /\ FaultOf(n).step <= n
           /\ FaultOf(n).kind \in Sim!FaultKinds
  <1>1. faults \in Schedules /\ SP!ScheduleValid(faults)
    BY DEF SP!IInv, SP!Schedule
  <1>2. FaultOf(n) = SP!FaultAt(faults, n)
    BY SameOperators DEF FaultOf
  <1>3. /\ \E i \in DOMAIN faults : FaultOf(n) = faults[i]
        /\ FaultOf(n) \in SP!Fault
        /\ SP!FaultValid(FaultOf(n))
        /\ FaultOf(n).step <= n
    BY <1>1, <1>2, SimulatorAssumptionsHold, SP!FaultOfStep
  <1>. QED  BY <1>3, SameSets, SameOperators DEF Sim!FaultValid

\* What a fault makes of an observation is what it is for, or spoils it.
LEMMA EffectFacts ==
    ASSUME SP!IInv, NEW n \in Nat
    PROVE  /\ KindOf(n) = "none" <=> FaultOf(n) = Nil
           /\ FaultOf(n) # Nil =>
                /\ KindOf(n) = "spoiled" <=> Sim!Spoils(FaultOf(n))
                /\ KindOf(n) # "spoiled" => KindOf(n) = FaultOf(n).kind
                /\ KindOf(n) = "delay" <=> FaultOf(n).kind = "delay"
           /\ KindOf(n) \in {"none", "delay", "duplicate", "out_of_order", "spoiled",
                             "unavailable", "missing_heartbeat"}
  <1>1. CASE FaultOf(n) = Nil
    BY <1>1 DEF KindOf, Effect
  <1>2. CASE FaultOf(n) # Nil
    <2>1. FaultOf(n).kind \in Sim!FaultKinds
      BY <1>2, FaultFacts
    <2>. QED  BY <1>2, <2>1 DEF KindOf, Effect, Sim!Spoils, Sim!FaultKinds
  <1>. QED  BY <1>1, <1>2

\* An envelope whose telemetry the classification accepts or keeps as history.
Usable(e) ==
    e # Nil /\ EnvelopeValid(e) /\ e.avail /\ TelemetryAcceptable(e)

(***************************************************************************)
(* What is delivered for an interval, by the kind of its fault.            *)
(***************************************************************************)
ScheduledDelivery(e, f, kind, sample, before) ==
    /\ e \in ObservationEnvelope \cup {Nil}
    /\ OwnObservation(e)
    /\ kind \in {"none", "delay"} =>
         /\ Usable(e)
         /\ e.tel.id = sample.id /\ e.tel.time = sample.time /\ e.tel.m = sample.m
         /\ e.recv = sample.time + IF f = Nil THEN 0 ELSE f.delay
    /\ kind = "out_of_order" =>
         /\ Usable(e)
         /\ e.tel.id = f.eventID /\ e.tel.time < sample.time /\ e.tel.m = sample.m
    /\ kind = "duplicate" =>
         /\ Usable(e) /\ before # Nil
         /\ e.tel.id = before.id /\ e.tel.time = before.time
    /\ kind = "spoiled" =>
         e # Nil /\ EnvelopeValid(e) /\ e.avail /\ ~TelemetryValid(e.tel)
    /\ kind = "unavailable" => e # Nil /\ EnvelopeValid(e) /\ ~e.avail
    /\ kind = "missing_heartbeat" => e = Nil

\* An envelope's fields.
LEMMA EnvelopeFields ==
    ASSUME NEW sample, NEW m, NEW at
    PROVE  LET e == Sim!EnvelopeOf(sample, m, at)
           IN  /\ e.src = DeviceID /\ e.recv = at /\ e.avail /\ e.tel.utc
               /\ e.tel.id = sample.id /\ e.tel.time = sample.time
               /\ e.tel.m = m
  BY SMT DEF Sim!EnvelopeOf

\* NextObservation delivers what the fault of its interval asks for.
LEMMA DemoDelivers ==
    ASSUME SP!IInv, step < IntervalsPerDay, Sim!NextObservation
    PROVE  /\ SP!IInv'
           /\ pending' # Nil
           /\ pending'.id = SampleID(simTime) /\ pending'.time = simTime
           /\ pending'.m.soc = soc
           /\ ScheduledDelivery(delivered', FaultOf(step'), KindOf(step'),
                                pending', prior)
  <1>1. SP!NextObservation
    BY SameSteps
  <1>2. SP!IInv'
    BY <1>1, SimulatorAssumptionsHold, SP!NextObservationIInv
  <1>3. /\ pending' # Nil /\ step' = step + 1 /\ faults' = faults
        /\ pending'.id = SampleID(simTime) /\ pending'.time = simTime
        /\ pending'.m.soc = soc
    <2>1. pending' # Nil
      BY <1>1, SimulatorAssumptionsHold, SP!SampleOfInterval
    <2>2. /\ day' \in Nat \ {0} /\ simTime \in Nat /\ soc \in 0 .. MaximumSOC
      BY SimFacts DEF Sim!NextObservation
    <2>3. Sim!Measured(day', simTime, soc).soc = soc
      BY <2>2, MeasuredValid
    <2>4. pending' = [id |-> Sim!SimulatedEventID(simTime), time |-> simTime,
                      m |-> Sim!Measured(day', simTime, soc)]
      BY DEF Sim!NextObservation
    <2>. QED  BY <2>1, <2>3, <2>4 DEF SampleID, Sim!NextObservation
  <1>. DEFINE f == FaultOf(step')
              e == delivered'
              sample == pending'
              kind == KindOf(step')
  <1>4. step' \in Nat
    BY <1>3, SimFacts
  <1>5. e = Sim!Observation(f, sample, prior)
    BY <1>3 DEF Sim!NextObservation, FaultOf
  <1>6. /\ e \in ObservationEnvelope \cup {Nil}
        /\ e = Nil <=> f # Nil /\ f.kind = "missing_heartbeat"
        /\ e # Nil => EnvelopeValid(e)
        /\ f # Nil /\ Sim!Spoils(f) => ~TelemetryValid(e.tel)
        /\ \/ f = Nil
           \/ f.kind \in {"delay", "duplicate", "out_of_order"} /\ ~Sim!Spoils(f)
           => TelemetryAcceptable(e)
        /\ f # Nil /\ f.kind = "out_of_order" => e.tel.time < sample.time
    <2>1. SP!SimTypeOK' /\ SP!DeliveredAsScheduled'
      BY <1>2 DEF SP!IInv
    <2>2. SP!FaultAt(faults', step') = f
      BY <1>3, SameOperators DEF FaultOf
    <2>. QED  BY <1>3, <2>1, <2>2, SameSets, SameOperators
              DEF SP!SimTypeOK, SP!DeliveredAsScheduled
  <1>7. f = Nil => kind = "none"
    BY DEF KindOf, Effect
  <1>8. f # Nil => /\ kind = IF Sim!Spoils(f) THEN "spoiled" ELSE f.kind
                   /\ f.kind \in Sim!FaultKinds
                   /\ Sim!FaultValid(f) /\ f.step <= step' /\ f \in Sim!Fault
    BY <1>2, <1>4, FaultFacts DEF KindOf, Effect
  <1>9. simTime = sample.time /\ simTime \in Nat
    BY <1>3, SimFacts
  <1>. SUFFICES ScheduledDelivery(e, f, kind, sample, prior)
    BY <1>2, <1>3
  <1>. HIDE DEF f, e, sample, kind
  <1>10. CASE f = Nil
    <2>1. e = Sim!EnvelopeOf(sample, sample.m, sample.time)
      BY <1>5, <1>10 DEF Sim!Observation, Sim!FullEnvelope
    <2>. QED  BY <1>6, <1>7, <1>9, <1>10, <2>1, EnvelopeFields
              DEF ScheduledDelivery, Usable, OwnObservation
  <1>11. CASE f # Nil /\ f.kind = "delay"
    <2>1. e = Sim!EnvelopeOf(sample, sample.m, sample.time + f.delay)
      BY <1>5, <1>11 DEF Sim!Observation, Sim!FullEnvelope
    <2>. QED  BY <1>6, <1>8, <1>11, <2>1, EnvelopeFields
              DEF ScheduledDelivery, Usable, OwnObservation, Sim!Spoils
  <1>12. CASE f # Nil /\ f.kind = "out_of_order"
    <2>. DEFINE moved == [id |-> Sim!EventIDOf(f), time |-> sample.time + f.offset,
                          m |-> sample.m]
    <2>1. e = Sim!EnvelopeOf(moved, moved.m, sample.time)
      BY <1>5, <1>12 DEF Sim!Observation, Sim!FullEnvelope
    <2>2. moved.id = Sim!EventIDOf(f) /\ moved.m = sample.m
      OBVIOUS
    <2>3. Sim!EventIDOf(f) = IF Sim!Spoils(f) THEN Nil ELSE f.eventID
      BY <1>12 DEF Sim!EventIDOf, Sim!Spoils
    <2>. HIDE DEF moved
    <2>. QED  BY <1>6, <1>8, <1>12, <2>1, <2>2, <2>3, EnvelopeFields
              DEF ScheduledDelivery, Usable, OwnObservation
  <1>13. CASE f # Nil /\ f.kind = "duplicate"
    <2>1. e = Sim!EnvelopeOf(prior, prior.m, sample.time)
      BY <1>5, <1>13 DEF Sim!Observation, Sim!FullEnvelope
    <2>2. prior # Nil
      <3>1. f.step \in Int /\ f.step >= 1 /\ f.step # 1
        BY <1>8, <1>13 DEF Sim!FaultValid, Sim!Fault
      <3>2. step \in Nat /\ pending = Nil /\ f.step <= step + 1
        BY <1>3, <1>8, <1>13, SimFacts DEF Sim!NextObservation
      <3>3. step > 0
        BY <3>1, <3>2
      <3>. QED  BY <3>2, <3>3, SimFacts
    <2>. QED  BY <1>6, <1>8, <1>13, <2>1, <2>2, EnvelopeFields
              DEF ScheduledDelivery, Usable, OwnObservation, Sim!Spoils
  <1>14. CASE f # Nil /\ f.kind \in {"missing_value", "invalid_measurement"}
    <2>1. PICK m : e = Sim!EnvelopeOf(sample, m, sample.time)
      <3>1. CASE f.kind = "missing_value"
        BY <1>5, <1>14, <3>1 DEF Sim!Observation
      <3>2. CASE f.kind = "invalid_measurement"
        BY <1>5, <1>14, <3>2 DEF Sim!Observation
      <3>. QED  BY <1>14, <3>1, <3>2
    <2>. QED  BY <1>6, <1>8, <1>14, <2>1, EnvelopeFields
              DEF ScheduledDelivery, Usable, OwnObservation, Sim!Spoils
  <1>15. CASE f # Nil /\ f.kind = "unavailable"
    <2>1. e = Sim!UnavailableEnvelope(sample.time)
      BY <1>5, <1>15 DEF Sim!Observation
    <2>2. ~e.avail /\ e.tel = Nil
      BY <2>1 DEF Sim!UnavailableEnvelope
    <2>. QED  BY <1>6, <1>8, <1>15, <2>2
              DEF ScheduledDelivery, OwnObservation, Sim!Spoils
  <1>16. CASE f # Nil /\ f.kind = "missing_heartbeat"
    BY <1>6, <1>8, <1>16 DEF ScheduledDelivery, OwnObservation, Sim!Spoils
  <1>. QED  BY <1>8, <1>10, <1>11, <1>12, <1>13, <1>14, <1>15, <1>16
            DEF Sim!FaultKinds

\* What the five classifications say of themselves.
LEMMA AcceptedFields ==
    ASSUME NEW e, NEW s, NEW h
    PROVE  /\ Accepted(e, s, h).disposition = "accepted"
           /\ Accepted(e, s, h).telemetry = e.tel
           /\ Accepted(e, s, h).suppress = Delayed(e)
           /\ Accepted(e, s, h).health.status =
                IF Delayed(e) THEN "stale" ELSE "online"
  BY DEF Accepted, ClassifyResult, TransitionHealth

LEMMA HistoryOnlyFields ==
    ASSUME NEW e, NEW s, NEW h
    PROVE  /\ HistoryOnly(e, s, h).disposition = "history_only"
           /\ HistoryOnly(e, s, h).telemetry = e.tel
  BY DEF HistoryOnly, ClassifyResult

LEMMA RejectedFields ==
    ASSUME NEW e, NEW h, NEW at
    PROVE  /\ Rejected(e, h, at).disposition = "rejected"
           /\ Rejected(e, h, at).telemetry = Nil
           /\ Rejected(e, h, at).health.status = "invalid"
  BY DEF Rejected, ClassifyResult, TransitionHealth

LEMMA MissingFields ==
    ASSUME NEW s, NEW h, NEW at
    PROVE  /\ ClassifyMissing(s, h, at).disposition = "missing"
           /\ ClassifyMissing(s, h, at).telemetry = Nil
  BY DEF ClassifyMissing, ClassifyResult

LEMMA UnavailableFields ==
    ASSUME NEW e, NEW h
    PROVE  /\ ClassifyUnavailable(e, h).disposition = "unavailable"
           /\ ClassifyUnavailable(e, h).telemetry = Nil
           /\ ClassifyUnavailable(e, h).health.status = "offline"
  BY DEF ClassifyUnavailable, ClassifyResult, TransitionHealth

(***************************************************************************)
(* How a scheduled delivery is classified by an agent whose latest state   *)
(* is older than the interval's sample.                                    *)
(***************************************************************************)
LEMMA ClassifiedAsScheduled ==
    ASSUME NEW e, NEW f, NEW kind, NEW sample, NEW before, NEW s, NEW h, NEW at,
           ScheduledDelivery(e, f, kind, sample, before),
           sample.time \in Nat, s.updatedAt \in Nat, s.updatedAt < sample.time,
           kind = "none" => f = Nil,
           kind = "delay" => f # Nil /\ f.delay \in Int
    PROVE  LET class == Classify(e, s, h, at)
           IN  /\ kind \in {"none", "delay"} =>
                    /\ class.disposition = "accepted"
                    /\ class.telemetry = e.tel
                    /\ class.suppress <=> f # Nil /\ f.delay > Interval
                    /\ class.health.status = IF f # Nil /\ f.delay > Interval
                                             THEN "stale" ELSE "online"
               /\ kind \in {"out_of_order", "duplicate"} =>
                    /\ class.disposition \in {"accepted", "history_only"}
                    /\ class.telemetry = e.tel
               /\ kind = "spoiled" =>
                    /\ class.disposition = "rejected" /\ class.telemetry = Nil
                    /\ class.health.status = "invalid"
               /\ kind = "unavailable" =>
                    /\ class.disposition = "unavailable" /\ class.telemetry = Nil
                    /\ class.health.status = "offline"
               /\ kind = "missing_heartbeat" =>
                    class.disposition = "missing" /\ class.telemetry = Nil
  <1>. DEFINE class == Classify(e, s, h, at)
  <1>1. ASSUME Usable(e)
        PROVE  class = IF NotNewer(s, e.tel) THEN HistoryOnly(e, s, h)
                       ELSE Accepted(e, s, h)
    BY <1>1, Zenon DEF Usable, Classify, ClassifyTelemetry
  <1>2. ASSUME kind \in {"none", "delay"}
        PROVE  /\ class = Accepted(e, s, h)
               /\ Delayed(e) <=> f # Nil /\ f.delay > Interval
    <2>1. /\ Usable(e) /\ e.tel.time = sample.time
          /\ e.recv = sample.time + IF f = Nil THEN 0 ELSE f.delay
      BY <1>2 DEF ScheduledDelivery
    <2>2. ~NotNewer(s, e.tel)
      BY <2>1 DEF NotNewer
    <2>3. CASE f = Nil
      BY <1>1, <2>1, <2>2, <2>3 DEF Delayed
    <2>4. CASE f # Nil
      <3>1. Delayed(e) <=> f.delay > Interval
        BY <1>2, <2>1, <2>4 DEF Delayed
      <3>. QED  BY <1>1, <2>1, <2>2, <2>4, <3>1
    <2>. QED  BY <2>3, <2>4
  <1>3. ASSUME kind \in {"out_of_order", "duplicate"}
        PROVE  class = HistoryOnly(e, s, h) \/ class = Accepted(e, s, h)
    <2>1. Usable(e)
      BY <1>3 DEF ScheduledDelivery
    <2>. QED  BY <1>1, <2>1
  <1>4. ASSUME kind = "spoiled"
        PROVE  class = Rejected(e, h, at)
    BY <1>4, Zenon DEF ScheduledDelivery, Classify, ClassifyTelemetry,
       TelemetryAcceptable
  <1>5. ASSUME kind = "unavailable"
        PROVE  class = ClassifyUnavailable(e, h)
    BY <1>5, Zenon DEF ScheduledDelivery, Classify
  <1>6. ASSUME kind = "missing_heartbeat"
        PROVE  class = ClassifyMissing(s, h, at)
    BY <1>6, Zenon DEF ScheduledDelivery, Classify
  <1>. HIDE DEF class
  <1>7. kind \in {"none", "delay"} =>
          /\ class.disposition = "accepted"
          /\ class.telemetry = e.tel
          /\ class.suppress <=> f # Nil /\ f.delay > Interval
          /\ class.health.status = IF f # Nil /\ f.delay > Interval
                                   THEN "stale" ELSE "online"
    <2>. SUFFICES ASSUME kind \in {"none", "delay"}
                  PROVE  /\ class.disposition = "accepted"
                         /\ class.telemetry = e.tel
                         /\ class.suppress <=> f # Nil /\ f.delay > Interval
                         /\ class.health.status =
                              IF f # Nil /\ f.delay > Interval
                              THEN "stale" ELSE "online"
      OBVIOUS
    <2>1. class = Accepted(e, s, h)
      BY <1>2
    <2>2. /\ class.disposition = "accepted" /\ class.telemetry = e.tel
          /\ class.suppress = Delayed(e)
          /\ class.health.status = IF Delayed(e) THEN "stale" ELSE "online"
      BY <2>1, AcceptedFields
    <2>. QED  BY <1>2, <2>2
  <1>8. kind \in {"out_of_order", "duplicate"} =>
          /\ class.disposition \in {"accepted", "history_only"}
          /\ class.telemetry = e.tel
    <2>1. CASE class = HistoryOnly(e, s, h)
      <3>1. class.disposition = "history_only" /\ class.telemetry = e.tel
        BY <2>1, HistoryOnlyFields
      <3>. QED  BY <3>1
    <2>2. CASE class = Accepted(e, s, h)
      <3>1. class.disposition = "accepted" /\ class.telemetry = e.tel
        BY <2>2, AcceptedFields
      <3>. QED  BY <3>1
    <2>. QED  BY <1>3, <2>1, <2>2
  <1>9. kind = "spoiled" =>
          /\ class.disposition = "rejected" /\ class.telemetry = Nil
          /\ class.health.status = "invalid"
    BY <1>4, RejectedFields
  <1>10. kind = "unavailable" =>
           /\ class.disposition = "unavailable" /\ class.telemetry = Nil
           /\ class.health.status = "offline"
    BY <1>5, UnavailableFields
  <1>11. kind = "missing_heartbeat" =>
           class.disposition = "missing" /\ class.telemetry = Nil
    BY <1>6, MissingFields
  <1>. QED  BY <1>7, <1>8, <1>9, <1>10, <1>11, Zenon DEF class

(***************************************************************************)
(* What a classification makes of the device's health, by its own          *)
(* disposition and the health before.                                      *)
(***************************************************************************)
LEMMA ClassifyHealthFollows ==
    ASSUME NEW e \in ObservationEnvelope \cup {Nil}, NEW s, NEW h, NEW at \in Nat,
           s.updatedAt \in Nat, h.contact \in Nat
    PROVE  LET class == Classify(e, s, h, at)
           IN  HealthFollows(h.status, class.disposition, class.health.status)
  <1>. DEFINE class == Classify(e, s, h, at)
  <1>1. \/ class = Accepted(e, s, h)
        \/ e # Nil /\ class = HistoryOnly(e, s, h)
        \/ class = Rejected(e, h, at)
        \/ class = ClassifyMissing(s, h, at)
        \/ class = ClassifyUnavailable(e, h)
    BY DEF Classify, ClassifyTelemetry
  <1>. HIDE DEF class
  <1>2. CASE class.disposition \in {"accepted", "rejected", "unavailable"}
    BY <1>2 DEF HealthFollows, class
  <1>3. CASE e # Nil /\ class = HistoryOnly(e, s, h)
    <2>1. e.recv \in Nat
      BY <1>3 DEF ObservationEnvelope
    <2>2. /\ class.disposition = "history_only"
          /\ class.health.status = EvaluatedStatus(h, s, e.recv, e.recv)
      BY <1>3 DEF HistoryOnly, ClassifyResult, EvaluateHealth, TransitionHealth
    <2>3. EvaluatedStatus(h, s, e.recv, e.recv) \in
            IF h.status = "invalid" THEN {"invalid"} ELSE {"online", "stale"}
      BY <2>1 DEF EvaluatedStatus, OfflineAfter, StaleAfter
    <2>. QED  BY <2>2, <2>3 DEF HealthFollows, class
  <1>4. CASE class = ClassifyMissing(s, h, at)
    <2>1. /\ class.disposition = "missing"
          /\ class.health.status = EvaluatedStatus(h, s, at, h.contact)
      BY <1>4 DEF ClassifyMissing, ClassifyResult, EvaluateHealth, TransitionHealth
    <2>2. EvaluatedStatus(h, s, at, h.contact) \in
            IF h.status = "invalid" THEN {"invalid", "offline"}
            ELSE {"online", "stale", "offline"}
      BY DEF EvaluatedStatus
    <2>. QED  BY <2>1, <2>2 DEF HealthFollows, class
  <1>. QED  BY <1>1, <1>2, <1>3, <1>4, AcceptedFields, RejectedFields,
            UnavailableFields

(***************************************************************************)
(* Instants of the day.                                                    *)
(***************************************************************************)
LEMMA DayFacts ==
    /\ DayInstants \subseteq Instants
    /\ \A t \in DayInstants : SampleID(t) \in EventIDs
  <1>1. IntervalsPerDay \in Nat \ {0}
    BY ConfigAssumption DEF Sim!ConfigValid
  <1>2. Positions = 0 .. IntervalsPerDay - 1
    BY <1>1, DemoAssumption DEF Positions
  <1>3. DayInstants \subseteq Instants
    BY <1>1 DEF DayInstants, Instants
  <1>4. \A t \in DayInstants : SampleID(t) \in EventIDs
    BY <1>2, TimelineAssumption DEF DayInstants, SampleID
  <1>. QED  BY <1>3, <1>4

\* While a sample waits, the clock shows an instant of the day.
LEMMA PendingInstant ==
    ASSUME SP!IInv, DemoTurns, pending # Nil, step > 0
    PROVE  simTime \in DayInstants
  <1>1. step \in Nat /\ step <= IntervalsPerDay
        /\ simTime = StartTime + (step - 1) * Interval
    BY SimFacts DEF DemoTurns
  <1>2. IntervalsPerDay \in Nat
    BY ConfigAssumption DEF Sim!ConfigValid
  <1>3. step - 1 \in 0 .. IntervalsPerDay - 1
    BY <1>1, <1>2
  <1>. QED  BY <1>1, <1>3 DEF DayInstants

\* The simulator's invariant survives a step that leaves the simulator alone.
LEMMA SimulatorUntouched ==
    ASSUME SP!IInv, UNCHANGED simVars
    PROVE  SP!IInv'
  <1>1. UNCHANGED SP!simVars
    BY DEF simVars, SP!simVars
  <1>. QED  BY <1>1, SimulatorAssumptionsHold, SP!UnchangedIInv

(***************************************************************************)
(* Steps that change nothing the invariant speaks of but the context, the  *)
(* clock or the verdict.                                                   *)
(***************************************************************************)
LEMMA DemoStays ==
    ASSUME DemoIInv, IInv',
           UNCHANGED <<dbVars, memVars, pc, exit, simVars, recordVars>>
    PROVE  DemoIInv'
  <1>1. SP!IInv'
    BY SimulatorUntouched DEF DemoIInv
  <1>2. DemoTurns' /\ Fresh' /\ SamplesNamed'
    BY DEF DemoIInv, DemoTurns, Fresh, SamplesNamed, dbVars, memVars, simVars,
       recordVars
  <1>3. Ahead' /\ SamplesStored'
    BY DEF DemoIInv, Ahead, Horizon, SamplesStored, FaultOf, Delivers, dbVars,
       simVars
  <1>4. ScheduledInFlight'
    BY DEF DemoIInv, ScheduledInFlight, FaultOf, KindOf, RecordFollowsFault,
       Effect, Sim!Spoils, Delivers, DecisionOf, memVars, simVars
  <1>5. RepeatsDelivered' <=> RepeatsDelivered
    BY DEF RepeatsDelivered, FaultOf, KindOf, Effect, Sim!Spoils, Delivers, simVars
  <1>6. ScheduledOutcome'
    BY <1>5 DEF DemoIInv, ScheduledOutcome, RecordFollowsFault,
       Effect, Sim!Spoils, Delivers, DecisionOf, memVars, simVars
  <1>7. DemoReserve'
    BY <1>5 DEF DemoIInv, DemoReserve, simVars
  <1>8. Records'
    BY DEF DemoIInv, Records, RecordFollowsFault, Effect, Sim!Spoils, Delivers,
       memVars, simVars, recordVars
  <1>. QED  BY <1>1, <1>2, <1>3, <1>4, <1>6, <1>7, <1>8 DEF DemoIInv

\* The records stay what they are while the schedule does.
LEMMA RecordsStay ==
    ASSUME Records, UNCHANGED <<recordVars, faults>>,
           pc' # "down" => Len(dispositions) = count',
           exit' = "completed" => Len(dispositions) = IntervalsPerDay
    PROVE  Records'
  BY DEF Records, RecordFollowsFault, Effect, Sim!Spoils, Delivers, recordVars

(***************************************************************************)
(* The end of the run.                                                     *)
(***************************************************************************)
LEMMA DemoFinish ==
    ASSUME DemoIInv, IInv', NEW how \in Exits, Finish(how),
           UNCHANGED <<dbVars, simVars, recordVars>>, pc \notin {"down", "apply"},
           how = "completed" => /\ step = IntervalsPerDay /\ pending = Nil
                                /\ Len(dispositions) = IntervalsPerDay
    PROVE  DemoIInv'
  <1>1. SP!IInv'
    BY SimulatorUntouched DEF DemoIInv
  <1>2. DemoTurns' /\ Fresh' /\ SamplesNamed'
    BY DEF DemoIInv, DemoTurns, Fresh, SamplesNamed, Finish, simVars
  <1>3. Ahead' /\ SamplesStored'
    BY DEF DemoIInv, Ahead, Horizon, SamplesStored, Finish, dbVars, simVars
  <1>4. ScheduledInFlight' /\ ScheduledOutcome'
    BY DEF ScheduledInFlight, ScheduledOutcome, Finish
  <1>5. RepeatsDelivered' <=> RepeatsDelivered
    BY DEF RepeatsDelivered, FaultOf, KindOf, Effect, Sim!Spoils, Delivers, simVars
  <1>6. DemoReserve'
    BY <1>5 DEF DemoIInv, DemoReserve, simVars
  <1>7. Records'
    BY RecordsStay DEF DemoIInv, Finish, simVars
  <1>. QED  BY <1>1, <1>2, <1>3, <1>4, <1>6, <1>7 DEF DemoIInv

(***************************************************************************)
(* The agent's steps between two intervals.                                *)
(***************************************************************************)
LEMMA DemoMoves ==
    ASSUME DemoIInv, IInv', Restore \/ CheckNext \/ Tick,
           UNCHANGED <<simVars, recordVars>>
    PROVE  DemoIInv'
  <1>1. SP!IInv'
    BY SimulatorUntouched DEF DemoIInv
  <1>2. /\ pc \in {"restore", "check", "wait"} /\ pc' \in {"check", "wait", "next"}
        /\ UNCHANGED <<dbVars, exit, count>>
        /\ pc' \in {"wait", "next"} => pc = "wait" \/ IntervalsLeft
    BY DEF Restore, CheckNext, Tick, memVars
  <1>3. exit = Nil
    BY <1>2 DEF DemoIInv, IInv, Control
  <1>4. MaxIntervals = IntervalsPerDay /\ IntervalsPerDay # 0
    BY DemoAssumption, ConfigAssumption DEF Sim!ConfigValid
  <1>5. DemoTurns'
    BY <1>2, <1>3, <1>4 DEF DemoIInv, DemoTurns, IntervalsLeft, simVars, Exits
  <1>6. Fresh' /\ SamplesNamed' /\ ScheduledInFlight' /\ ScheduledOutcome'
    BY <1>2 DEF DemoIInv, Fresh, SamplesNamed, ScheduledInFlight, ScheduledOutcome,
       simVars
  <1>7. Ahead' /\ SamplesStored'
    BY <1>2 DEF DemoIInv, Ahead, Horizon, SamplesStored, FaultOf, Delivers, dbVars,
       simVars
  <1>8. RepeatsDelivered' <=> RepeatsDelivered
    BY DEF RepeatsDelivered, FaultOf, KindOf, Effect, Sim!Spoils, Delivers, simVars
  <1>9. DemoReserve'
    BY <1>8 DEF DemoIInv, DemoReserve, simVars
  <1>10. Records'
    <2>1. Len(dispositions) = count'
      BY <1>2 DEF DemoIInv, Records
    <2>2. exit' = "completed" => Len(dispositions) = IntervalsPerDay
      BY <1>2 DEF DemoIInv, Records
    <2>. QED  BY <2>1, <2>2, RecordsStay DEF DemoIInv, simVars
  <1>. QED  BY <1>1, <1>5, <1>6, <1>7, <1>9, <1>10 DEF DemoIInv

\* A demo begins with a new simulator, an empty database and no records.
LEMMA DemoInitIInv == DemoInit => DemoIInv
  <1>. SUFFICES ASSUME DemoInit PROVE DemoIInv
    OBVIOUS
  <1>1. IInv /\ pc = "down" /\ exit = Nil /\ count = 0 /\ latestRow = Nil
        /\ events = [id \in EventIDs |-> Nil]
    BY InitIInv DEF DemoInit, Init, DbInit
  <1>2. SP!IInv
    BY SameSteps, SimulatorAssumptionsHold, SP!InitIInv DEF DemoInit
  <1>3. /\ simTime = StartTime /\ soc = StartingSOC /\ day = 1
        /\ dayEnd = StartTime + Sim!SimulationDuration
        /\ pending = Nil /\ prior = Nil /\ step = 0 /\ delivered = Nil
        /\ decisions = <<>> /\ dispositions = <<>> /\ statuses = <<>>
    BY DEF DemoInit, Sim!SimInit
  <1>4. IntervalsPerDay \in Nat
    BY ConfigAssumption DEF Sim!ConfigValid
  <1>5. DemoTurns
    BY <1>1, <1>3, <1>4 DEF DemoTurns, Exits
  <1>6. Fresh /\ SamplesNamed /\ SamplesStored /\ ScheduledInFlight
        /\ ScheduledOutcome /\ DemoReserve
    BY <1>1, <1>3 DEF Fresh, SamplesNamed, SamplesStored, ScheduledInFlight,
       ScheduledOutcome, DemoReserve
  <1>7. Ahead
    BY <1>1, DayFacts DEF Ahead
  <1>8. Records
    BY <1>1, <1>3 DEF Records, Exits
  <1>. QED  BY <1>1, <1>2, <1>5, <1>6, <1>7, <1>8 DEF DemoIInv

\* The one start finds the simulator it would build.
LEMMA DemoStarts ==
    ASSUME DemoIInv, IInv', DemoStart
    PROVE  DemoIInv'
  <1>1. /\ pc = "down" /\ exit = Nil /\ pc' = "restore" /\ exit' = Nil
        /\ UNCHANGED <<dbVars, memVars, recordVars>>
        /\ Sim!New(RestoredSOC)
    BY DEF DemoStart, LoopStart, Start
  <1>2. /\ simTime = StartTime /\ soc = StartingSOC /\ day = 1
        /\ dayEnd = StartTime + Sim!SimulationDuration
        /\ pending = Nil /\ prior = Nil /\ step = 0 /\ delivered = Nil
        /\ latestRow = Nil /\ dispositions = <<>> /\ count = 0
    BY <1>1 DEF DemoIInv, Fresh, DemoTurns
  <1>3. RestoredSOC = StartingSOC
    BY <1>2 DEF RestoredSOC, SnapshotState, ZeroState
  <1>4. UNCHANGED simVars
    BY <1>1, <1>2, <1>3 DEF Sim!New, simVars
  <1>5. SP!IInv'
    BY <1>4, SimulatorUntouched DEF DemoIInv
  <1>6. DemoTurns' /\ Fresh' /\ SamplesNamed' /\ SamplesStored'
    BY <1>1, <1>2, <1>4 DEF DemoIInv, DemoTurns, Fresh, SamplesNamed, SamplesStored,
       simVars, memVars, Exits
  <1>7. ScheduledInFlight' /\ ScheduledOutcome'
    BY <1>1 DEF ScheduledInFlight, ScheduledOutcome
  <1>8. Ahead'
    BY <1>1, <1>4 DEF DemoIInv, Ahead, Horizon, dbVars, simVars
  <1>9. RepeatsDelivered' <=> RepeatsDelivered
    BY <1>4 DEF RepeatsDelivered, FaultOf, KindOf, Effect, Sim!Spoils, Delivers, simVars
  <1>10. DemoReserve'
    BY <1>4, <1>9 DEF DemoIInv, DemoReserve, simVars
  <1>11. Records'
    <2>1. Len(dispositions) = count' /\ exit' # "completed"
      BY <1>1, <1>2 DEF memVars, Exits
    <2>. QED  BY <1>1, <1>4, <2>1, RecordsStay DEF DemoIInv, simVars
  <1>. QED  BY <1>5, <1>6, <1>7, <1>8, <1>10, <1>11 DEF DemoIInv

(***************************************************************************)
(* The battery gets the interval's command, or none: the interval is over. *)
(***************************************************************************)
LEMMA DemoActuates ==
    ASSUME DemoIInv, Actuate, UNCHANGED recordVars
    PROVE  DemoIInv'
  <1>1. /\ pc = "apply" /\ pc' = "write" /\ UNCHANGED <<dbVars, memVars, exit>>
        /\ pending # Nil /\ pending' = Nil /\ prior' = pending
        /\ simTime' = simTime + Interval /\ step' = step /\ faults' = faults
        /\ soc' = Sim!NextBatterySOC(soc, Sim!BatteryPower(out.command))
        /\ Sim!Complete(out.command)
    BY DEF Actuate, Apply, Sim!Complete
  <1>2. IInv'
    BY ApplyIInv DEF DemoIInv, Actuate
  <1>3. out \in Outcome /\ exit = Nil
    BY <1>1 DEF DemoIInv, IInv, TypeOK, Control
  <1>4. out.command \in Command \cup {Nil}
    BY <1>3 DEF Outcome
  <1>5. SP!IInv'
    BY <1>1, <1>4, SameSteps, SimulatorAssumptionsHold, SP!CompleteIInv DEF DemoIInv
  <1>6. /\ simTime \in Nat /\ step \in Nat /\ soc \in 0 .. MaximumSOC
        /\ pending.time = simTime /\ pending.id = SampleID(simTime)
    BY <1>1, SimFacts DEF DemoIInv, SamplesNamed
  <1>7. DemoTurns' /\ Fresh'
    BY <1>1, <1>3 DEF DemoIInv, DemoTurns, Fresh, memVars, Exits
  <1>8. SamplesNamed'
    BY <1>1, <1>6 DEF SamplesNamed, SampleID
  <1>9. Ahead'
    <2>1. latestRow # Nil => latestRow.updatedAt \in Nat
      BY DEF DemoIInv, IInv, TypeOK, DbTypeOK, State
    <2>2. \A t \in DayInstants : t \in Nat
      BY DayFacts, InstantFacts
    <2>3. Horizon = simTime + 1 /\ Horizon' = simTime + Interval
      BY <1>1 DEF Horizon
    <2>4. latestRow # Nil => latestRow.updatedAt < simTime + Interval
      BY <1>6, <2>1, <2>3 DEF DemoIInv, Ahead
    <2>5. \A t \in DayInstants : t >= simTime + Interval => t >= simTime + 1
      BY <1>6, <2>2
    <2>6. \A t \in DayInstants : t >= simTime + Interval => events[SampleID(t)] = Nil
      BY <2>3, <2>5 DEF DemoIInv, Ahead
    <2>. QED  BY <1>1, <2>3, <2>4, <2>6 DEF Ahead, dbVars, SampleID
  <1>10. SamplesStored'
    BY <1>1 DEF DemoIInv, SamplesStored, FaultOf, Delivers, dbVars
  <1>11. ScheduledInFlight'
    BY <1>1 DEF ScheduledInFlight
  <1>12. ScheduledOutcome'
    BY <1>1 DEF DemoIInv, ScheduledOutcome, RecordFollowsFault, Effect, Sim!Spoils,
       Delivers, DecisionOf, memVars
  <1>13. RepeatsDelivered' <=> RepeatsDelivered
    BY <1>1 DEF RepeatsDelivered, FaultOf, KindOf, Effect, Sim!Spoils, Delivers
  <1>14. DemoReserve'
    <2>. SUFFICES ASSUME RepeatsDelivered, StartingSOC >= MinimumDischargeSOC
                  PROVE  soc' >= MinimumDischargeSOC
      BY <1>13 DEF DemoReserve
    <2>1. soc >= MinimumDischargeSOC
      BY DEF DemoIInv, DemoReserve
    <2>2. CASE out.command = Nil
      BY <1>1, <1>6, <2>1, <2>2, BatteryLimits
    <2>3. CASE out.command # Nil
      <3>1. /\ out.telemetry \in Telemetry /\ out.command = Decide(out.telemetry.m)
            /\ out.telemetry.m.soc = soc
        BY <1>1, <2>3 DEF DemoIInv, ScheduledOutcome
      <3>2. out.telemetry.m \in Measurements
        BY <3>1 DEF Telemetry
      <3>. QED  BY <1>1, <2>1, <3>1, <3>2, DecidedMove
    <2>. QED  BY <2>2, <2>3
  <1>15. Records'
    <2>1. Len(dispositions) = count' /\ exit' # "completed"
      BY <1>1, <1>3 DEF DemoIInv, Records, memVars, Exits
    <2>. QED  BY <1>1, <2>1, RecordsStay DEF DemoIInv
  <1>. QED  BY <1>2, <1>5, <1>7, <1>8, <1>9, <1>10, <1>11, <1>12, <1>14, <1>15
            DEF DemoIInv

(***************************************************************************)
(* The record of the interval is kept.                                     *)
(***************************************************************************)
LEMMA DemoWrites ==
    ASSUME DemoIInv, IInv', Write, Record, UNCHANGED simVars
    PROVE  DemoIInv'
  <1>1. /\ pc = "write" /\ pc' = "check" /\ UNCHANGED <<dbVars, exit>>
        /\ count' = IF MaxIntervals = 0 THEN 1 ELSE count + 1
        /\ decisions' = Append(decisions, DecisionOf(out.command))
        /\ dispositions' = Append(dispositions, out.disposition)
        /\ statuses' = Append(statuses, out.health.status)
    BY DEF Write, Record
  <1>2. out \in Outcome /\ exit = Nil /\ count \in Nat
    BY <1>1 DEF DemoIInv, IInv, TypeOK, Control
  <1>3. count' = count + 1 /\ pending = Nil /\ step = count + 1
    BY <1>1, DemoAssumption, ConfigAssumption
    DEF DemoIInv, DemoTurns, Sim!ConfigValid
  <1>4. SP!IInv'
    BY SimulatorUntouched DEF DemoIInv
  <1>5. DemoTurns' /\ Fresh' /\ SamplesNamed' /\ ScheduledInFlight' /\ ScheduledOutcome'
    BY <1>1, <1>2, <1>3 DEF DemoIInv, DemoTurns, Fresh, SamplesNamed,
       ScheduledInFlight, ScheduledOutcome, simVars, Exits
  <1>6. Ahead' /\ SamplesStored'
    BY <1>1, <1>3 DEF DemoIInv, Ahead, Horizon, SamplesStored, FaultOf, Delivers,
       dbVars, simVars
  <1>7. RepeatsDelivered' <=> RepeatsDelivered
    BY DEF RepeatsDelivered, FaultOf, KindOf, Effect, Sim!Spoils, Delivers, simVars
  <1>8. DemoReserve'
    BY <1>7 DEF DemoIInv, DemoReserve, simVars
  <1>9. Records'
    <2>. DEFINE n == Len(dispositions)
    <2>1. /\ out.disposition \in Dispositions
          /\ out.health.status \in Statuses \cup {Nil}
          /\ DecisionOf(out.command) \in Decisions \cup {Nil}
      BY <1>2 DEF Outcome, DeviceHealth, ZeroHealth, DecisionOf, Command
    <2>2. /\ decisions \in Seq(Decisions \cup {Nil}) /\ dispositions \in Seq(Dispositions)
          /\ statuses \in Seq(Statuses \cup {Nil})
          /\ Len(decisions) = n /\ Len(statuses) = n /\ n = count
          /\ \A i \in DOMAIN dispositions :
               RecordFollowsFault(i, dispositions[i], statuses[i], decisions[i])
      BY <1>1 DEF DemoIInv, Records
    <2>3. RecordFollowsFault(n + 1, out.disposition, out.health.status,
                             DecisionOf(out.command))
      BY <1>1, <1>3, <2>2 DEF DemoIInv, ScheduledOutcome
    <2>4. /\ decisions' \in Seq(Decisions \cup {Nil})
          /\ dispositions' \in Seq(Dispositions)
          /\ statuses' \in Seq(Statuses \cup {Nil})
          /\ Len(decisions') = n + 1 /\ Len(dispositions') = n + 1
          /\ Len(statuses') = n + 1
          /\ DOMAIN dispositions' = 1 .. n + 1
          /\ dispositions'[n + 1] = out.disposition
          /\ statuses'[n + 1] = out.health.status
          /\ decisions'[n + 1] = DecisionOf(out.command)
      BY <1>1, <2>1, <2>2
    <2>5. \A i \in 1 .. n : /\ i \in DOMAIN dispositions
                            /\ dispositions'[i] = dispositions[i]
                            /\ statuses'[i] = statuses[i]
                            /\ decisions'[i] = decisions[i]
      BY <1>1, <2>1, <2>2
    <2>6. n \in Nat
      BY <2>2
    <2>. HIDE DEF n
    <2>7. ASSUME NEW i \in 1 .. n + 1
          PROVE  RecordFollowsFault(i, dispositions'[i], statuses'[i], decisions'[i])
      <3>1. CASE i = n + 1
        BY <2>3, <2>4, <3>1
      <3>2. CASE i \in 1 .. n
        BY <2>2, <2>5, <3>2
      <3>. QED  BY <2>6, <2>7, <3>1, <3>2
    <2>8. faults' = faults
      BY DEF simVars
    <2>9. \A i \in DOMAIN dispositions' :
            RecordFollowsFault(i, dispositions[i], statuses[i], decisions[i])'
      BY <2>4, <2>7, <2>8 DEF RecordFollowsFault, Effect, Sim!Spoils, Delivers
    <2>10. exit' # "completed" /\ count' = n + 1
      BY <1>1, <1>2, <1>3, <2>2 DEF Exits
    <2>. QED  BY <2>4, <2>9, <2>10 DEF Records
  <1>. QED  BY <1>4, <1>5, <1>6, <1>8, <1>9 DEF DemoIInv

\* The policy's answer is missing exactly where the policy is not asked.
LEMMA DecisionOfClass ==
    ASSUME NEW class \in Classification,
           class.state # Nil <=> class.disposition = "accepted"
    PROVE  /\ DecisionOf(DecidedCommand(class)) \in Decisions \cup {Nil}
           /\ DecisionOf(DecidedCommand(class)) # Nil <=>
                class.disposition = "accepted" /\ ~class.suppress
  <1>1. CASE class.disposition = "accepted" /\ ~class.suppress
    <2>1. class.state \in State
      BY <1>1 DEF Classification
    <2>2. class.state.m \in Measurements
      BY <2>1 DEF State
    <2>3. Decide(class.state.m) \in Command
      BY <2>2, DecideKeepsReserve
    <2>4. Decide(class.state.m) # Nil /\ Decide(class.state.m).decision \in Decisions
      BY <2>3 DEF Command
    <2>. QED  BY <1>1, <2>4 DEF DecidedCommand, DecisionOf
  <1>2. CASE ~(class.disposition = "accepted" /\ ~class.suppress)
    BY <1>2 DEF DecidedCommand, DecisionOf
  <1>. QED  BY <1>1, <1>2

(***************************************************************************)
(* A late event of the schedule is none of the day's samples.              *)
(***************************************************************************)
LEMMA LateEventApart ==
    ASSUME SP!IInv, NEW n \in Nat, KindOf(n) = "out_of_order", NEW t \in DayInstants
    PROVE  FaultOf(n).eventID # SampleID(t)
  <1>1. FaultOf(n) # Nil /\ FaultOf(n).kind = "out_of_order"
    BY EffectFacts
  <1>2. PICK i \in DOMAIN faults : FaultOf(n) = faults[i]
    BY <1>1, FaultFacts
  <1>3. Sim!LateEventsApart(faults, IntervalsPerDay)
    BY SimFacts, LateEventAssumption
  <1>4. PICK k \in 0 .. IntervalsPerDay - 1 : t = StartTime + k * Interval
    BY DEF DayInstants
  <1>. QED  BY <1>1, <1>2, <1>3, <1>4 DEF Sim!LateEventsApart, SampleID

(***************************************************************************)
(* What the classification of a scheduled delivery puts on its way.        *)
(***************************************************************************)
LEMMA DemoObserves ==
    ASSUME DemoIInv, pc = "next", Sim!NextObservation, Observe(delivered'),
           step < IntervalsPerDay
    PROVE  ScheduledInFlight'
  <1>. DEFINE e == delivered'
              n == step'
              f == FaultOf(n)
              kind == KindOf(n)
              class == Classify(e, state, health, now)
              tel == class.telemetry
  <1>1. /\ pending' # Nil /\ pending'.id = SampleID(simTime)
        /\ pending'.time = simTime /\ pending'.m.soc = soc
        /\ ScheduledDelivery(e, f, kind, pending', prior)
        /\ SP!IInv'
    BY DemoDelivers DEF DemoIInv
  <1>2. /\ simTime' = simTime /\ soc' = soc /\ faults' = faults /\ prior' = prior
        /\ n = step + 1
    BY DEF Sim!NextObservation
  <1>3. /\ simTime \in Nat \ {0} /\ n \in Nat /\ SP!IInv
        /\ prior # Nil => prior.time = simTime - Interval
    BY <1>2, SimFacts DEF DemoIInv
  <1>4. /\ cur'.class = class
        /\ cur'.command = DecidedCommand(class)
    BY DEF Observe
  <1>5. state.updatedAt \in Nat /\ state.updatedAt < simTime
    <2>1. state = SnapshotState
      BY DEF DemoIInv, IInv, MemoryMatchesDatabase, Running
    <2>2. latestRow # Nil => latestRow.updatedAt < simTime
      BY DEF DemoIInv, Ahead, Horizon
    <2>3. latestRow # Nil => latestRow.updatedAt \in Nat
      BY DEF DemoIInv, IInv, TypeOK, DbTypeOK, State
    <2>. QED  BY <1>3, <2>1, <2>2, <2>3 DEF SnapshotState, ZeroState, ZeroTime
  <1>6. /\ kind = "none" <=> f = Nil
        /\ f # Nil => f.delay \in Int
    <2>1. f # Nil => f \in Sim!Fault
      BY <1>3, FaultFacts
    <2>. QED  BY <1>3, <2>1, EffectFacts DEF Sim!Fault
  <1>7. kind # "none" => f # Nil
    BY <1>6
  <1>8. kind = "none" => f = Nil
    BY <1>6
  <1>9. /\ class \in Classification
        /\ class.state # Nil <=> class.disposition = "accepted"
    <2>1. /\ e \in ObservationEnvelope \cup {Nil}
          /\ state \in State \cup {ZeroState}
          /\ health \in DeviceHealth \cup {ZeroHealth}
          /\ now \in Nat \ {0}
      BY <1>1 DEF DemoIInv, IInv, TypeOK, ScheduledDelivery
    <2>2. ClassifiedAgainst(class, ReceivedAtOrNow(e, now), state)
      BY <2>1, ClassifyShape
    <2>. QED  BY <2>1, <2>2, ClassifyType DEF ClassifiedAgainst
  <1>10. /\ kind \in {"none", "delay"} =>
              /\ class.disposition = "accepted"
              /\ tel = e.tel
              /\ class.suppress <=> f # Nil /\ f.delay > Interval
              /\ class.health.status = IF f # Nil /\ f.delay > Interval
                                       THEN "stale" ELSE "online"
         /\ kind \in {"out_of_order", "duplicate"} =>
              /\ class.disposition \in {"accepted", "history_only"}
              /\ tel = e.tel
         /\ kind = "spoiled" =>
              /\ class.disposition = "rejected" /\ tel = Nil
              /\ class.health.status = "invalid"
         /\ kind = "unavailable" =>
              /\ class.disposition = "unavailable" /\ tel = Nil
              /\ class.health.status = "offline"
         /\ kind = "missing_heartbeat" =>
              class.disposition = "missing" /\ tel = Nil
    BY <1>1, <1>3, <1>5, <1>6, <1>7, <1>8, ClassifiedAsScheduled
  <1>11. DecisionOf(cur'.command) # Nil <=>
           class.disposition = "accepted" /\ ~class.suppress
    BY <1>4, <1>9, DecisionOfClass
  <1>12. kind \in {"none", "delay", "duplicate", "out_of_order", "spoiled",
                   "unavailable", "missing_heartbeat"}
    BY <1>3, EffectFacts
  <1>13. kind \in {"none", "delay", "out_of_order", "duplicate"} =>
           /\ e.tel # Nil
           /\ kind \in {"none", "delay"} =>
                e.tel.id = pending'.id /\ e.tel.time = simTime /\ e.tel.m.soc = soc
           /\ kind = "out_of_order" =>
                e.tel.id = f.eventID /\ e.tel.time < simTime /\ e.tel.m.soc = soc
           /\ kind = "duplicate" =>
                prior # Nil /\ e.tel.id = prior.id /\ e.tel.time = simTime - Interval
    BY <1>1, <1>3 DEF ScheduledDelivery, Usable, EnvelopeValid
  <1>14. kind = "out_of_order" => \A t \in DayInstants : f.eventID # SampleID(t)
    BY <1>3, LateEventApart
  <1>15. e.tel # Nil /\ tel = e.tel => tel.time \in Nat
    BY <1>9 DEF Classification, Telemetry
  <1>16. FaultOf(step)' = f /\ KindOf(step)' = kind
    BY <1>2 DEF FaultOf, KindOf, Effect, Sim!Spoils
  <1>. HIDE DEF e, n, f, kind, class, tel
  <1>17. kind # "duplicate" =>
           RecordFollowsFault(n, class.disposition, class.health.status,
                              DecisionOf(cur'.command))
    <2>1. Sim!FaultAt(faults, n) = f
      BY DEF FaultOf, f
    <2>2. kind = Effect(f)
      BY DEF KindOf, kind, f
    <2>. QED  BY <1>6, <1>7, <1>8, <1>10, <1>11, <1>12, <2>1, <2>2
              DEF RecordFollowsFault
  <1>18. RecordFollowsFault(step, cur.class.disposition, cur.class.health.status,
                            DecisionOf(cur.command))' <=>
           RecordFollowsFault(n, class.disposition, class.health.status,
                              DecisionOf(cur'.command))
    BY <1>2, <1>4 DEF RecordFollowsFault, Effect, Sim!Spoils, Delivers, DecisionOf, n
  <1>19. kind \in {"none", "delay"} => tel # Nil /\ tel.id = pending'.id
    BY <1>10, <1>13
  <1>20. kind = "duplicate" => tel # Nil /\ prior # Nil /\ tel.id = prior.id
    BY <1>10, <1>13
  <1>21. tel # Nil =>
           /\ kind \in {"none", "delay", "duplicate", "out_of_order"}
           /\ tel.time <= simTime
           /\ kind = "out_of_order" => \A t \in DayInstants : tel.id # SampleID(t)
           /\ kind # "duplicate" => tel.m.soc = soc
    <2>1. tel # Nil => kind \in {"none", "delay", "duplicate", "out_of_order"}
      BY <1>10, <1>12
    <2>. QED  BY <1>3, <1>10, <1>13, <1>14, <1>15, <2>1
  <1>22. cur'.class.telemetry = tel
    BY <1>4 DEF tel
  <1>. QED  BY <1>2, <1>16, <1>17, <1>18, <1>19, <1>20, <1>21, <1>22
            DEF ScheduledInFlight, SampleID

(***************************************************************************)
(* A sample is taken, and classified if Classify does not panic.           *)
(***************************************************************************)
LEMMA DemoSenses ==
    ASSUME DemoIInv, Sense, UNCHANGED recordVars
    PROVE  DemoIInv'
  <1>1. /\ pc = "next" /\ Sim!NextObservation
        /\ Observe(delivered') \/ Panic(delivered')
    BY DEF Sense
  <1>2. step = count /\ count < IntervalsPerDay /\ exit = Nil /\ step \in Nat
    BY <1>1, SimFacts DEF DemoIInv, DemoTurns, IInv, Control
  <1>3. /\ SP!IInv' /\ pending' # Nil /\ pending'.id = SampleID(simTime)
        /\ delivered' \in ObservationEnvelope \cup {Nil}
    BY <1>1, <1>2, DemoDelivers DEF DemoIInv, ScheduledDelivery
  <1>4. /\ simTime' = simTime /\ soc' = soc /\ faults' = faults /\ prior' = prior
        /\ step' = step + 1 /\ pending = Nil
    BY <1>1 DEF Sim!NextObservation
  <1>5. UNCHANGED dbVars
    BY <1>1 DEF Observe, Panic
  <1>6. \/ /\ Observe(delivered') /\ pc' = "commit" /\ exit' = Nil /\ count' = count
        \/ /\ Finish("panicked") /\ pc' = "down" /\ exit' = "panicked" /\ count' = 0
    BY <1>1, <1>2 DEF Observe, Panic, Finish
  <1>7. IInv'
    <2>1. CASE Observe(delivered')
      BY <1>3, <2>1, ObserveIInv DEF DemoIInv
    <2>2. CASE Panic(delivered')
      BY <1>1, <2>2, FinishIInv DEF DemoIInv, Panic, Exits
    <2>. QED  BY <1>1, <2>1, <2>2
  <1>8. DemoTurns'
    <2>1. IntervalsPerDay \in Nat
      BY ConfigAssumption DEF Sim!ConfigValid
    <2>. QED  BY <1>2, <1>3, <1>4, <1>6, <2>1 DEF DemoTurns, Exits
  <1>9. Fresh'
    BY <1>6 DEF Fresh, Exits
  <1>10. SamplesNamed'
    BY <1>3, <1>4 DEF DemoIInv, SamplesNamed, SampleID
  <1>11. Ahead'
    BY <1>1, <1>4, <1>5, <1>6 DEF DemoIInv, Ahead, Horizon, dbVars, SampleID
  <1>12. SamplesStored'
    <2>1. step' - 1 = step
      BY <1>2, <1>4
    <2>2. prior # Nil /\ Delivers(FaultOf(step)) => events[prior.id] # Nil
      BY <1>1, <1>4 DEF DemoIInv, SamplesStored
    <2>3. FaultOf(step)' = FaultOf(step') /\ FaultOf(step - 1)' = FaultOf(step)
      BY <1>4, <2>1 DEF FaultOf
    <2>4. Delivers(FaultOf(step - 1))' <=> Delivers(FaultOf(step))
      BY <1>4, <2>1 DEF FaultOf, Delivers
    <2>. QED  BY <1>3, <1>4, <1>5, <1>6, <2>2, <2>4 DEF SamplesStored, dbVars
  <1>13. ScheduledInFlight'
    BY <1>1, <1>2, <1>6, DemoObserves DEF DemoIInv, ScheduledInFlight
  <1>14. ScheduledOutcome'
    BY <1>6 DEF ScheduledOutcome
  <1>15. RepeatsDelivered' <=> RepeatsDelivered
    BY <1>4 DEF RepeatsDelivered, FaultOf, KindOf, Effect, Sim!Spoils, Delivers
  <1>16. DemoReserve'
    BY <1>4, <1>15 DEF DemoIInv, DemoReserve
  <1>17. Records'
    <2>1. /\ pc' # "down" => Len(dispositions) = count'
          /\ exit' # "completed"
      BY <1>1, <1>6 DEF DemoIInv, Records, Exits
    <2>. QED  BY <1>4, <2>1, RecordsStay DEF DemoIInv
  <1>. QED  BY <1>3, <1>7, <1>8, <1>9, <1>10, <1>11, <1>12, <1>13, <1>14, <1>16, <1>17
            DEF DemoIInv

\* While a result waits for its commit, nothing of the interval is stored yet.
LEMMA CommitTurn ==
    ASSUME DemoIInv, pc = "commit"
    PROVE  /\ pending # Nil /\ step \in 1 .. IntervalsPerDay
           /\ simTime \in DayInstants /\ simTime \in Nat
           /\ pending.id = SampleID(simTime) /\ SampleID(simTime) \in EventIDs
           /\ events[SampleID(simTime)] = Nil
           /\ cur \in Current /\ exit = Nil
           /\ ClassifiedAgainst(cur.class, cur.recv, state)
           /\ Delivers(FaultOf(step)) <=> KindOf(step) \in {"none", "delay"}
  <1>1. pending # Nil /\ step = count + 1 /\ count \in Nat /\ step <= IntervalsPerDay
    BY DEF DemoIInv, DemoTurns, IInv, TypeOK
  <1>2. IntervalsPerDay \in Nat
    BY ConfigAssumption DEF Sim!ConfigValid
  <1>3. step \in 1 .. IntervalsPerDay /\ step > 0 /\ step \in Nat
    BY <1>1, <1>2
  <1>4. simTime \in DayInstants
    BY <1>1, <1>3, PendingInstant DEF DemoIInv
  <1>5. simTime \in Nat /\ SampleID(simTime) \in EventIDs
    BY <1>4, DayFacts, InstantFacts
  <1>6. events[SampleID(simTime)] = Nil
    BY <1>4, <1>5 DEF DemoIInv, Ahead, Horizon
  <1>7. Delivers(FaultOf(step)) <=> KindOf(step) \in {"none", "delay"}
    BY <1>3, EffectFacts DEF DemoIInv, Delivers
  <1>. QED  BY <1>1, <1>3, <1>4, <1>5, <1>6, <1>7
            DEF DemoIInv, SamplesNamed, IInv, TypeOK, Control, InFlight

\* What a commit, duplicate or stored, leaves as it is.
LEMMA CommitKeeps ==
    ASSUME DemoIInv, pc = "commit", pc' = "apply",
           UNCHANGED <<exit, count, simVars, recordVars>>
    PROVE  /\ SP!IInv' /\ DemoTurns' /\ Fresh' /\ SamplesNamed' /\ ScheduledInFlight'
           /\ DemoReserve' /\ Records'
           /\ RepeatsDelivered' <=> RepeatsDelivered
  <1>1. SP!IInv'
    BY SimulatorUntouched DEF DemoIInv
  <1>2. exit = Nil
    BY CommitTurn
  <1>3. DemoTurns' /\ Fresh' /\ SamplesNamed' /\ ScheduledInFlight'
    BY <1>2 DEF DemoIInv, DemoTurns, Fresh, SamplesNamed, ScheduledInFlight, simVars,
       Exits
  <1>4. RepeatsDelivered' <=> RepeatsDelivered
    BY DEF RepeatsDelivered, FaultOf, KindOf, Effect, Sim!Spoils, Delivers, simVars
  <1>5. DemoReserve'
    BY <1>4 DEF DemoIInv, DemoReserve, simVars
  <1>6. Records'
    <2>1. Len(dispositions) = count' /\ exit' # "completed"
      BY <1>2 DEF DemoIInv, Records, Exits
    <2>. QED  BY <2>1, RecordsStay DEF DemoIInv, simVars
  <1>. QED  BY <1>1, <1>3, <1>4, <1>5, <1>6

(***************************************************************************)
(* A result that is stored already is none of the present interval's       *)
(* sample: it comes of a duplicate or an out-of-order fault.               *)
(***************************************************************************)
LEMMA DemoDuplicates ==
    ASSUME DemoIInv, IInv', CommitDuplicate, UNCHANGED <<simVars, recordVars>>
    PROVE  DemoIInv'
  <1>. DEFINE tel == cur.class.telemetry
              kind == KindOf(step)
  <1>1. /\ pc = "commit" /\ pc' = "apply" /\ UNCHANGED <<dbVars, exit, count>>
        /\ out'.disposition = "duplicate" /\ out'.command = Nil
    BY DEF CommitDuplicate
  <1>2. /\ pending # Nil /\ step \in 1 .. IntervalsPerDay /\ simTime \in Nat
        /\ pending.id = SampleID(simTime) /\ events[SampleID(simTime)] = Nil
        /\ cur \in Current /\ ClassifiedAgainst(cur.class, cur.recv, state)
        /\ Delivers(FaultOf(step)) <=> kind \in {"none", "delay"}
    BY <1>1, CommitTurn
  <1>3. tel # Nil /\ events[tel.id] # Nil
    <2>. DEFINE r == ObservationResult(cur)
    <2>1. r.telemetry # Nil /\ events[r.telemetry.event.id] # Nil
      BY DEF CommitDuplicate, AlreadyStored
    <2>2. tel = Nil => r.telemetry = Nil
      BY <1>2, ResultShape
    <2>3. tel # Nil =>
            r.telemetry = [event |-> tel, recv |-> cur.recv,
                           disposition |-> cur.class.disposition]
      BY <1>2, ResultShape
    <2>. HIDE DEF r
    <2>. QED  BY <2>1, <2>2, <2>3
  <1>4. kind \in {"duplicate", "out_of_order"}
    BY <1>1, <1>2, <1>3 DEF DemoIInv, ScheduledInFlight
  <1>5. /\ SP!IInv' /\ DemoTurns' /\ Fresh' /\ SamplesNamed' /\ ScheduledInFlight'
        /\ DemoReserve' /\ Records'
    BY <1>1, CommitKeeps
  <1>6. Ahead'
    <2>1. latestRow # Nil => latestRow.updatedAt \in Nat
      BY DEF DemoIInv, IInv, TypeOK, DbTypeOK, State
    <2>2. \A t \in DayInstants : t \in Nat
      BY DayFacts, InstantFacts
    <2>3. Horizon = simTime /\ Horizon' = simTime + 1
      BY <1>1 DEF Horizon, simVars
    <2>. QED  BY <1>1, <1>2, <2>1, <2>2, <2>3 DEF DemoIInv, Ahead, dbVars
  <1>7. SamplesStored'
    <2>1. ~Delivers(FaultOf(step))
      BY <1>2, <1>4
    <2>. QED  BY <1>1, <1>2, <2>1 DEF DemoIInv, SamplesStored, FaultOf, Delivers, dbVars,
              simVars
  <1>8. ScheduledOutcome'
    <2>1. \A status : RecordFollowsFault(step, "duplicate", status, Nil)
      BY <1>4 DEF RecordFollowsFault, KindOf, FaultOf
    <2>2. DecisionOf(out'.command) = Nil
      BY <1>1 DEF DecisionOf
    <2>3. RecordFollowsFault(step, out.disposition, out.health.status,
                             DecisionOf(out.command))'
      BY <1>1, <2>1, <2>2 DEF RecordFollowsFault, Effect, Sim!Spoils, Delivers,
         DecisionOf, simVars
    <2>. QED  BY <1>1, <2>3 DEF ScheduledOutcome
  <1>. QED  BY <1>5, <1>6, <1>7, <1>8 DEF DemoIInv

(***************************************************************************)
(* A result that becomes durable: its sample is stored now, so it is no    *)
(* repetition of one that was delivered.                                   *)
(***************************************************************************)
LEMMA DemoStores ==
    ASSUME DemoIInv, IInv', CommitStored, UNCHANGED <<simVars, recordVars>>
    PROVE  DemoIInv'
  <1>. DEFINE tel == cur.class.telemetry
              st == cur.class.state
              kind == KindOf(step)
              rec == [event |-> tel, recv |-> cur.recv,
                      disposition |-> cur.class.disposition]
  <1>1. /\ pc = "commit" /\ pc' = "apply" /\ UNCHANGED <<exit, count>>
        /\ out'.disposition = cur.class.disposition
        /\ out'.telemetry = tel /\ out'.health = cur.class.health
        /\ out'.command = cur.command
    BY DEF CommitStored
  <1>2. /\ pending # Nil /\ step \in 1 .. IntervalsPerDay
        /\ simTime \in DayInstants /\ simTime \in Nat
        /\ pending.id = SampleID(simTime) /\ events[SampleID(simTime)] = Nil
        /\ Delivers(FaultOf(step)) <=> kind \in {"none", "delay"}
    BY <1>1, CommitTurn
  <1>3. Stored(tel, st)
    BY StoredEffect DEF DemoIInv
  <1>4. /\ SP!IInv' /\ DemoTurns' /\ Fresh' /\ SamplesNamed' /\ ScheduledInFlight'
        /\ DemoReserve' /\ Records'
        /\ RepeatsDelivered' <=> RepeatsDelivered
    BY <1>1, CommitKeeps
  <1>5. /\ kind \in {"none", "delay"} => tel # Nil /\ tel.id = pending.id
        /\ kind = "duplicate" => tel # Nil /\ prior # Nil /\ tel.id = prior.id
        /\ tel # Nil =>
             /\ tel.time <= simTime
             /\ kind \in {"none", "delay", "duplicate", "out_of_order"}
             /\ kind = "out_of_order" => \A t \in DayInstants : tel.id # SampleID(t)
             /\ kind # "duplicate" => tel.m.soc = soc
    BY <1>1 DEF DemoIInv, ScheduledInFlight
  <1>6. prior # Nil => /\ prior.id \in EventIDs /\ prior.id = SampleID(prior.time)
                       /\ prior.time = simTime - Interval
    BY SimFacts DEF DemoIInv, SamplesNamed, Sim!Sample
  <1>7. kind = "duplicate" => ~Delivers(FaultOf(step - 1))
    <2>. SUFFICES ASSUME kind = "duplicate", Delivers(FaultOf(step - 1)) PROVE FALSE
      OBVIOUS
    <2>1. prior # Nil /\ events[prior.id] # Nil
      BY <1>1, <1>2, <1>5 DEF DemoIInv, SamplesStored
    <2>. QED  BY <1>3, <1>5, <2>1 DEF Stored
  <1>8. /\ tel # Nil => tel \in Telemetry /\ tel.id \in EventIDs
        /\ events' = IF tel = Nil THEN events ELSE [events EXCEPT ![tel.id] = rec]
        /\ latestRow' = IF st # Nil THEN st ELSE latestRow
        /\ st # Nil => tel # Nil /\ st.updatedAt = tel.time
        /\ cur.command \in Command \cup {Nil}
        /\ cur.command # Nil => /\ tel # Nil /\ cur.command = Decide(tel.m)
                                /\ cur.class.disposition = "accepted"
        /\ tel # Nil => rec \in TelemetryRecord
    BY <1>3 DEF Stored, Telemetry, TelemetryRecord
  <1>9. simTime' = simTime /\ soc' = soc /\ faults' = faults /\ step' = step
        /\ pending' = pending /\ prior' = prior
    BY DEF simVars
  <1>10. events \in [EventIDs -> TelemetryRecord \cup {Nil}]
    BY DEF DemoIInv, IInv, TypeOK, DbTypeOK
  <1>11. FaultOf(step)' = FaultOf(step) /\ KindOf(step)' = kind
    BY <1>9 DEF FaultOf, KindOf, Effect, Sim!Spoils
  <1>. HIDE DEF tel, st, kind, rec
  <1>12. \A id \in EventIDs : events[id] # Nil => events'[id] # Nil
    BY <1>8, <1>10
  <1>13. tel # Nil => events'[tel.id] # Nil
    BY <1>8, <1>10
  <1>14. Ahead'
    <2>1. latestRow # Nil => latestRow.updatedAt \in Nat /\ latestRow.updatedAt < simTime
      BY <1>1 DEF DemoIInv, IInv, TypeOK, DbTypeOK, State, Ahead, Horizon
    <2>2. tel # Nil => tel.time \in Nat
      BY <1>8 DEF Telemetry
    <2>3. Horizon = simTime /\ Horizon' = simTime + 1
      BY <1>1, <1>9 DEF Horizon
    <2>4. latestRow' # Nil => latestRow'.updatedAt < simTime + 1
      BY <1>2, <1>5, <1>8, <2>1, <2>2
    <2>5. ASSUME NEW t \in DayInstants, t >= simTime + 1
          PROVE  events'[SampleID(t)] = Nil
      <3>1. t \in Nat /\ SampleID(t) \in EventIDs
        BY DayFacts, InstantFacts
      <3>2. events[SampleID(t)] = Nil
        BY <1>2, <2>3, <2>5, <3>1 DEF DemoIInv, Ahead
      <3>3. tel # Nil => tel.id # SampleID(t)
        <4>. SUFFICES ASSUME tel # Nil, tel.id = SampleID(t) PROVE FALSE
          OBVIOUS
        <4>1. CASE kind \in {"none", "delay"}
          <5>1. t = simTime
            BY <1>2, <1>5, <4>1, SampleIDInjective
          <5>. QED  BY <1>2, <2>5, <5>1
        <4>2. CASE kind = "duplicate"
          <5>1. prior.time = simTime - Interval /\ t = prior.time
            BY <1>5, <1>6, <4>2, SampleIDInjective
          <5>. QED  BY <1>2, <2>5, <5>1
        <4>3. CASE kind = "out_of_order"
          BY <1>5, <4>3
        <4>. QED  BY <1>5, <4>1, <4>2, <4>3
      <3>. QED  BY <1>8, <1>10, <3>1, <3>2, <3>3
    <2>. QED  BY <2>3, <2>4, <2>5 DEF Ahead, SampleID
  <1>15. SamplesStored'
    <2>1. prior # Nil /\ Delivers(FaultOf(step - 1)) => events[prior.id] # Nil
      BY <1>1, <1>2 DEF DemoIInv, SamplesStored
    <2>2. prior # Nil /\ Delivers(FaultOf(step - 1)) => events'[prior.id] # Nil
      BY <1>6, <1>12, <2>1
    <2>3. Delivers(FaultOf(step)) => events'[pending.id] # Nil
      BY <1>2, <1>5, <1>13
    <2>. QED  BY <1>1, <1>2, <1>9, <2>2, <2>3 DEF SamplesStored, FaultOf, Delivers
  <1>16. ScheduledOutcome'
    <2>1. DecisionOf(cur.command) # Nil => cur.class.disposition = "accepted"
      BY <1>8 DEF DecisionOf
    <2>2. RecordFollowsFault(step, cur.class.disposition, cur.class.health.status,
                             DecisionOf(cur.command))
      <3>1. CASE kind # "duplicate"
        BY <1>1, <3>1 DEF DemoIInv, ScheduledInFlight, kind
      <3>2. CASE kind = "duplicate"
        BY <1>7, <2>1, <3>2 DEF RecordFollowsFault, kind, KindOf, FaultOf
      <3>. QED  BY <3>1, <3>2
    <2>3. RecordFollowsFault(step, out.disposition, out.health.status,
                             DecisionOf(out.command))'
      BY <1>1, <1>9, <2>2
      DEF RecordFollowsFault, Effect, Sim!Spoils, Delivers, DecisionOf
    <2>4. out'.command # Nil =>
            /\ out'.telemetry \in Telemetry
            /\ out'.command = Decide(out'.telemetry.m)
      BY <1>1, <1>8
    <2>5. out'.command # Nil /\ RepeatsDelivered => out'.telemetry.m.soc = soc
      <3>1. RepeatsDelivered => kind # "duplicate"
        BY <1>2, <1>7 DEF RepeatsDelivered, kind
      <3>. QED  BY <1>1, <1>5, <1>8, <3>1
    <2>. QED  BY <1>4, <1>9, <2>3, <2>4, <2>5 DEF ScheduledOutcome
  <1>. QED  BY <1>4, <1>14, <1>15, <1>16 DEF DemoIInv

(***************************************************************************)
(* Every step of the demo keeps the invariant.                             *)
(***************************************************************************)
LEMMA DemoNextIInv == DemoIInv /\ [DemoNext]_demoVars => DemoIInv'
  <1>. SUFFICES ASSUME DemoIInv, [DemoNext]_demoVars PROVE DemoIInv'
    OBVIOUS
  <1>0. IInv
    BY DEF DemoIInv
  <1>1. CASE Refuse \/ Compare \/ Fail \/ UNCHANGED demoVars
    <2>1. UNCHANGED <<vars, simVars, recordVars>>
      BY <1>1 DEF Refuse, Compare, Fail, demoVars, loopVars
    <2>2. IInv'
      BY <1>0, <2>1, NextIInv
    <2>3. UNCHANGED <<dbVars, memVars, pc, exit, simVars, recordVars>>
      BY <2>1 DEF vars
    <2>. QED  BY <2>2, <2>3, DemoStays
  <1>2. CASE DemoStart
    <2>1. IInv'
      BY <1>0, <1>2, NextIInv DEF DemoStart, LoopStart, Next
    <2>. QED  BY <1>2, <2>1, DemoStarts
  <1>3. CASE Cancel /\ UNCHANGED <<simVars, recordVars>>
    <2>1. IInv'
      BY <1>0, <1>3, CancelIInv
    <2>. QED  BY <1>3, <2>1, DemoStays DEF Cancel
  <1>4. CASE DemoTick
    <2>1. IInv'
      BY <1>0, <1>4, TickIInv DEF DemoTick
    <2>. QED  BY <1>4, <2>1, DemoMoves DEF DemoTick
  <1>5. CASE DemoStep
    <2>1. LoopStep /\ (Record \/ ((pc = "write" => pc' # "check") /\ UNCHANGED recordVars))
      BY <1>5 DEF DemoStep
    <2>2. ~(pc = "write" /\ pc' = "check") => UNCHANGED recordVars
      BY <2>1 DEF Record
    <2>3. CASE Sense
      BY <2>2, <2>3, DemoSenses DEF Sense
    <2>4. CASE Actuate
      BY <2>2, <2>4, DemoActuates DEF Actuate, Apply
    <2>5. CASE AgentStep /\ UNCHANGED simVars
      <3>1. IInv'
        <4>1. Next
          BY <2>5 DEF AgentStep, Next, Step
        <4>. QED  BY <1>0, <4>1, NextIInv
      <3>2. CASE Restore \/ CheckNext
        BY <2>2, <2>5, <3>1, <3>2, DemoMoves DEF Restore, CheckNext
      <3>3. CASE CommitDuplicate
        BY <2>2, <2>5, <3>1, <3>3, DemoDuplicates DEF CommitDuplicate
      <3>4. CASE CommitStored
        BY <2>2, <2>5, <3>1, <3>4, DemoStores DEF CommitStored
      <3>5. CASE Write
        <4>1. Record
          BY <2>1, <3>5 DEF Write
        <4>. QED  BY <2>5, <3>1, <3>5, <4>1, DemoWrites
      <3>6. CASE \/ RestoreCancelled \/ RestoreFails \/ CheckCancelled
                \/ WaitCancelled \/ CommitRefused \/ CommitFails \/ CommitTimesOut
                \/ WriteFails
        <4>1. /\ UNCHANGED dbVars /\ pc \notin {"down", "apply"}
              /\ \E how \in Exits \ {"completed"} : Finish(how)
          BY <3>6 DEF RestoreCancelled, RestoreFails, CheckCancelled, WaitCancelled,
             CommitRefused, CommitFails, CommitTimesOut, WriteFails, Exits
        <4>2. PICK how \in Exits \ {"completed"} : Finish(how)
          BY <4>1
        <4>3. UNCHANGED recordVars
          BY <2>2, <4>2 DEF Finish
        <4>. QED  BY <2>5, <3>1, <4>1, <4>2, <4>3, DemoFinish
      <3>7. CASE CheckDone
        <4>1. /\ pc = "check" /\ ~IntervalsLeft /\ Finish("completed")
              /\ UNCHANGED <<dbVars, recordVars>>
          BY <2>2, <3>7 DEF CheckDone
        <4>2. /\ step = count /\ count \in Nat /\ step <= IntervalsPerDay
              /\ pending = Nil /\ Len(dispositions) = count
          BY <4>1 DEF DemoIInv, DemoTurns, Records, IInv, TypeOK
        <4>3. MaxIntervals = IntervalsPerDay /\ IntervalsPerDay \in Nat
          BY DemoAssumption, ConfigAssumption DEF Sim!ConfigValid
        <4>4. count = IntervalsPerDay
          BY <4>1, <4>2, <4>3 DEF IntervalsLeft
        <4>. QED  BY <2>5, <3>1, <4>1, <4>2, <4>4, DemoFinish DEF Exits
      <3>. QED  BY <2>5, <3>2, <3>3, <3>4, <3>5, <3>6, <3>7 DEF AgentStep, Commit
    <2>. QED  BY <2>1, <2>3, <2>4, <2>5 DEF LoopStep
  <1>. QED  BY <1>1, <1>2, <1>3, <1>4, <1>5 DEF DemoNext, DemoProgress

\* What leaves the records alone leaves what was said of them.
LEMMA HealthStays ==
    ASSUME HealthCarried, UNCHANGED recordVars
    PROVE  /\ LastStatus' = LastStatus
           /\ \A i \in DOMAIN dispositions' :
                HealthFollows(IF i = 1 THEN Nil ELSE statuses[i - 1],
                              dispositions[i], statuses[i])'
  BY DEF HealthCarried, LastStatus, HealthFollows, recordVars

(***************************************************************************)
(* The record that is kept is the next one, and its status the latest.     *)
(***************************************************************************)
LEMMA HealthRecorded ==
    ASSUME DemoIInv, HealthCarried, Write, Record
    PROVE  HealthCarried'
  <1>. DEFINE n == Len(dispositions)
  <1>1. /\ pc = "write" /\ pc' = "check" /\ health' = health
        /\ dispositions' = Append(dispositions, out.disposition)
        /\ statuses' = Append(statuses, out.health.status)
    BY DEF Write, Record
  <1>2. /\ dispositions \in Seq(Dispositions) /\ statuses \in Seq(Statuses \cup {Nil})
        /\ Len(statuses) = n /\ n \in Nat
    BY DEF DemoIInv, Records
  <1>3. out \in Outcome
    BY <1>1 DEF DemoIInv, IInv, TypeOK, Control
  <1>4. /\ out.disposition \in Dispositions
        /\ out.health.status \in Statuses \cup {Nil}
    BY <1>3 DEF Outcome, DeviceHealth, ZeroHealth
  <1>5. /\ DOMAIN dispositions' = 1 .. n + 1 /\ DOMAIN dispositions = 1 .. n
        /\ Len(statuses') = n + 1 /\ statuses' # <<>>
        /\ dispositions'[n + 1] = out.disposition
        /\ statuses'[n + 1] = out.health.status
        /\ \A i \in 1 .. n : /\ dispositions'[i] = dispositions[i]
                             /\ statuses'[i] = statuses[i]
    BY <1>1, <1>2, <1>4
  <1>6. LastStatus = IF n = 0 THEN Nil ELSE statuses[n]
    BY <1>2 DEF LastStatus
  <1>. HIDE DEF n
  <1>7. ASSUME NEW i \in 1 .. n + 1
        PROVE  HealthFollows(IF i = 1 THEN Nil ELSE statuses'[i - 1],
                             dispositions'[i], statuses'[i])
    <2>1. CASE i = n + 1
      <3>1. (IF i = 1 THEN Nil ELSE statuses'[i - 1]) = LastStatus
        BY <1>2, <1>5, <1>6, <2>1
      <3>2. HealthFollows(LastStatus, out.disposition, out.health.status)
        BY <1>1 DEF HealthCarried
      <3>. QED  BY <1>5, <2>1, <3>1, <3>2
    <2>2. CASE i \in 1 .. n
      <3>1. (IF i = 1 THEN Nil ELSE statuses'[i - 1])
              = (IF i = 1 THEN Nil ELSE statuses[i - 1])
        BY <1>2, <1>5, <2>2
      <3>2. HealthFollows(IF i = 1 THEN Nil ELSE statuses[i - 1],
                          dispositions[i], statuses[i])
        BY <1>5, <2>2 DEF HealthCarried
      <3>. QED  BY <1>5, <2>2, <3>1, <3>2
    <2>. QED  BY <1>2, <1>7, <2>1, <2>2
  <1>8. \A i \in DOMAIN dispositions' :
          HealthFollows(IF i = 1 THEN Nil ELSE statuses[i - 1],
                        dispositions[i], statuses[i])'
    BY <1>5, <1>7 DEF HealthFollows
  <1>9. health'.status = LastStatus'
    BY <1>1, <1>5 DEF HealthCarried, LastStatus
  <1>. QED  BY <1>1, <1>8, <1>9 DEF HealthCarried

\* What is classified follows from the health in memory, that of the latest
\* record.
LEMMA HealthObserved ==
    ASSUME DemoIInv, HealthCarried, Sense, UNCHANGED recordVars
    PROVE  HealthCarried'
  <1>1. /\ pc = "next" /\ Sim!NextObservation
        /\ Observe(delivered') \/ Panic(delivered')
    BY DEF Sense
  <1>2. CASE Panic(delivered')
    BY <1>2, HealthStays DEF HealthCarried, Panic, Finish, Exits
  <1>3. CASE Observe(delivered')
    <2>. DEFINE class == Classify(delivered', state, health, now)
    <2>1. /\ pc' = "commit" /\ cur'.class = class /\ health' = health
      BY <1>3 DEF Observe
    <2>2. step < IntervalsPerDay
      BY <1>1 DEF DemoIInv, DemoTurns
    <2>3. delivered' \in ObservationEnvelope \cup {Nil}
      BY <1>1, <2>2, DemoDelivers DEF DemoIInv, ScheduledDelivery
    <2>4. now \in Nat /\ state.updatedAt \in Nat /\ health.contact \in Nat
      BY DEF DemoIInv, IInv, TypeOK, State, ZeroState, DeviceHealth, ZeroHealth,
         ZeroTime
    <2>5. HealthFollows(health.status, class.disposition, class.health.status)
      BY <2>3, <2>4, ClassifyHealthFollows
    <2>. HIDE DEF class
    <2>6. health.status = LastStatus
      BY <1>1 DEF HealthCarried
    <2>7. HealthFollows(LastStatus, cur.class.disposition, cur.class.health.status)'
      BY <2>1, <2>5, <2>6, HealthStays DEF HealthFollows
    <2>. QED  BY <2>1, <2>6, <2>7, HealthStays DEF HealthCarried
  <1>. QED  BY <1>1, <1>2, <1>3

(***************************************************************************)
(* Every step carries the health on.                                       *)
(***************************************************************************)
LEMMA HealthNext == DemoIInv /\ HealthCarried /\ [DemoNext]_demoVars => HealthCarried'
  <1>. SUFFICES ASSUME DemoIInv, HealthCarried, [DemoNext]_demoVars
                PROVE  HealthCarried'
    OBVIOUS
  <1>1. CASE Refuse \/ Compare \/ Fail \/ UNCHANGED demoVars
    <2>1. UNCHANGED <<vars, recordVars>>
      BY <1>1 DEF Refuse, Compare, Fail, demoVars, loopVars
    <2>2. UNCHANGED <<healthRow, pc, exit, health, cur, out>>
      BY <2>1 DEF vars, dbVars, memVars
    <2>3. UNCHANGED recordVars
      BY <2>1
    <2>. QED  BY <2>2, <2>3, HealthStays DEF HealthCarried, HealthFollows, recordVars
  <1>2. CASE DemoStart
    <2>1. /\ pc = "down" /\ exit = Nil /\ pc' = "restore"
          /\ UNCHANGED <<dbVars, recordVars>>
      BY <1>2 DEF DemoStart, LoopStart, Start
    <2>. QED  BY <2>1, HealthStays DEF HealthCarried, dbVars, recordVars
  <1>3. CASE (Cancel \/ Tick) /\ UNCHANGED recordVars
    BY <1>3, HealthStays DEF HealthCarried, HealthFollows, Cancel, Tick, dbVars,
       memVars, recordVars
  <1>4. CASE DemoStep
    <2>1. LoopStep /\ (Record \/ ((pc = "write" => pc' # "check") /\ UNCHANGED recordVars))
      BY <1>4 DEF DemoStep
    <2>2. ~(pc = "write" /\ pc' = "check") => UNCHANGED recordVars
      BY <2>1 DEF Record
    <2>3. CASE Sense
      BY <2>2, <2>3, HealthObserved DEF Sense
    <2>4. CASE Actuate
      <3>1. UNCHANGED recordVars
        BY <2>2, <2>4 DEF Actuate, Apply
      <3>. QED  BY <2>4, <3>1, HealthStays DEF HealthCarried, HealthFollows, Actuate,
                Apply, memVars
    <2>5. CASE AgentStep
      <3>1. CASE Restore
        <4>1. UNCHANGED recordVars
          BY <2>2, <3>1 DEF Restore
        <4>. QED  BY <3>1, <4>1, HealthStays DEF HealthCarried, LastStatus, Restore,
                  SnapshotHealth, ZeroHealth
      <3>2. CASE CheckNext
        <4>1. UNCHANGED recordVars
          BY <2>2, <3>2 DEF CheckNext
        <4>. QED  BY <3>2, <4>1, HealthStays DEF HealthCarried, CheckNext, memVars
      <3>3. CASE CommitDuplicate
        <4>1. UNCHANGED recordVars
          BY <2>2, <3>3 DEF CommitDuplicate
        <4>2. /\ pc = "commit" /\ pc' = "apply" /\ health' = health
              /\ out'.disposition = "duplicate" /\ out'.health = health
          BY <3>3 DEF CommitDuplicate
        <4>3. HealthFollows(LastStatus, out.disposition, out.health.status)'
          BY <4>1, <4>2, HealthStays DEF HealthCarried, HealthFollows
        <4>. QED  BY <4>1, <4>2, <4>3, HealthStays DEF HealthCarried
      <3>4. CASE CommitStored
        <4>1. UNCHANGED recordVars
          BY <2>2, <3>4 DEF CommitStored
        <4>2. /\ pc = "commit" /\ pc' = "apply" /\ health' = cur.class.health
              /\ out'.disposition = cur.class.disposition
              /\ out'.health = cur.class.health
          BY <3>4 DEF CommitStored
        <4>3. HealthFollows(LastStatus, out.disposition, out.health.status)'
          BY <4>1, <4>2, HealthStays DEF HealthCarried, HealthFollows
        <4>. QED  BY <4>1, <4>2, <4>3, HealthStays DEF HealthCarried
      <3>5. CASE Write
        <4>1. Record
          BY <2>1, <3>5 DEF Write
        <4>. QED  BY <3>5, <4>1, HealthRecorded
      <3>6. CASE \/ RestoreCancelled \/ RestoreFails \/ CheckDone \/ CheckCancelled
                \/ WaitCancelled \/ CommitRefused \/ CommitFails \/ CommitTimesOut
                \/ WriteFails
        <4>1. \E how \in Exits : Finish(how)
          BY <3>6 DEF RestoreCancelled, RestoreFails, CheckDone, CheckCancelled,
             WaitCancelled, CommitRefused, CommitFails, CommitTimesOut, WriteFails,
             Exits
        <4>2. pc' = "down" /\ exit' # Nil
          BY <4>1, NilRunAssumption DEF Finish
        <4>3. UNCHANGED recordVars
          BY <2>2, <4>2
        <4>. QED  BY <4>2, <4>3, HealthStays DEF HealthCarried
      <3>. QED  BY <2>5, <3>1, <3>2, <3>3, <3>4, <3>5, <3>6 DEF AgentStep, Commit
    <2>. QED  BY <2>1, <2>3, <2>4, <2>5 DEF LoopStep
  <1>. QED  BY <1>1, <1>2, <1>3, <1>4 DEF DemoNext, DemoProgress, DemoTick

(***************************************************************************)
(* The theorems.                                                           *)
(***************************************************************************)
\* The invariant holds in every reachable state of the demo.
THEOREM DemoInvariance == DemoSpec => []DemoIInv
  BY DemoInitIInv, DemoNextIInv, PTL DEF DemoSpec

(***************************************************************************)
(* For every scenario that passes Validate, whatever its faults and their  *)
(* order, each interval's record says what the fault of that interval      *)
(* calls for, its health follows from the record before where the          *)
(* observation says nothing of it, and a demo that completes has one       *)
(* record per interval.                                                    *)
(***************************************************************************)
THEOREM RecordsFollow == DemoSpec => []RecordsFollowFaults
  <1>1. DemoInit => HealthCarried
    BY DEF DemoInit, Init, DbInit, HealthCarried
  <1>2. DemoIInv /\ HealthCarried => RecordsFollowFaults
    <2>. SUFFICES ASSUME DemoIInv, HealthCarried PROVE RecordsFollowFaults
      OBVIOUS
    <2>1. \A i \in DOMAIN dispositions :
            /\ RecordFollowsFault(i, dispositions[i], statuses[i], decisions[i])
            /\ HealthFollows(IF i = 1 THEN Nil ELSE statuses[i - 1],
                             dispositions[i], statuses[i])
      BY DEF DemoIInv, Records, HealthCarried
    <2>2. exit = "completed" =>
            /\ Len(dispositions) = IntervalsPerDay
            /\ simTime = StartTime + Sim!SimulationDuration
      BY SimFacts DEF DemoIInv, DemoTurns, Records, Sim!SimulationDuration
    <2>. QED  BY <2>1, <2>2 DEF RecordsFollowFaults
  <1>. QED  BY <1>1, <1>2, DemoInvariance, HealthNext, PTL DEF DemoSpec

(***************************************************************************)
(* Whatever else is scheduled, a command fits the battery's charge as long *)
(* as every duplicate repeats a sample that was delivered.                 *)
(***************************************************************************)
THEOREM DemoCommandsFit == DemoSpec => [](RepeatsDelivered => CommandsFitBattery)
  <1>1. DemoIInv => (RepeatsDelivered => CommandsFitBattery)
    BY DEF DemoIInv, ScheduledOutcome, CommandsFitBattery
  <1>. QED  BY <1>1, DemoInvariance, PTL

(***************************************************************************)
(* Then the policy's reserve is kept under every schedule of faults.       *)
(***************************************************************************)
THEOREM DemoReserveKept == DemoSpec => [](RepeatsDelivered => ReserveKept)
  <1>1. DemoIInv => (RepeatsDelivered => ReserveKept)
    BY DEF DemoIInv, DemoReserve, ReserveKept
  <1>. QED  BY <1>1, DemoInvariance, PTL

(***************************************************************************)
(* No schedule of faults makes the agent call its simulator out of turn.   *)
(***************************************************************************)
THEOREM DemoProtocolKept == DemoSpec => []SimulatorNeverRefuses
  <1>1. DemoIInv => SimulatorNeverRefuses
    <2>. SUFFICES ASSUME DemoIInv PROVE SimulatorNeverRefuses
      OBVIOUS
    <2>1. ASSUME pc = "apply", out.command # Nil
          PROVE  CommandValid(out.command)
      <3>1. out.telemetry \in Telemetry /\ out.command = Decide(out.telemetry.m)
        BY <2>1 DEF DemoIInv, ScheduledOutcome
      <3>2. out.telemetry.m \in Measurements
        BY <3>1 DEF Telemetry
      <3>. QED  BY <3>1, <3>2, DecideKeepsReserve
    <2>. QED  BY <2>1 DEF SimulatorNeverRefuses, DemoIInv, DemoTurns
  <1>. QED  BY <1>1, DemoInvariance, PTL

(***************************************************************************)
(* Nor does one end the run: whatever a fault makes of a sample, Classify  *)
(* does not panic and the repository's validation does not refuse it.      *)
(***************************************************************************)
THEOREM DemoNeverRefuses == DemoSpec => []ObservationNeverEndsRun
  <1>. DEFINE Inv == OwnDataOnly /\ OwnInFlight /\ ObservationNeverEndsRun
  <1>1. DemoInit => Inv
    BY DEF DemoInit, Init, DbInit, OwnDataOnly, OwnInFlight,
       ObservationNeverEndsRun, Exits
  <1>2. DemoIInv /\ Inv /\ [DemoNext]_demoVars => Inv'
    <2>. SUFFICES ASSUME DemoIInv, OwnDataOnly, OwnInFlight,
                         ObservationNeverEndsRun, [DemoNext]_demoVars
                  PROVE  OwnDataOnly' /\ OwnInFlight' /\ ObservationNeverEndsRun'
      OBVIOUS
    <2>0. IInv
      BY DEF DemoIInv
    <2>1. CASE Sense
      <3>1. /\ pc = "next" /\ Sim!NextObservation
            /\ Observe(delivered') \/ Panic(delivered')
        BY <2>1 DEF Sense
      <3>2. step < IntervalsPerDay
        BY <3>1 DEF DemoIInv, DemoTurns
      <3>3. delivered' \in ObservationEnvelope \cup {Nil} /\ OwnObservation(delivered')
        BY <3>1, <3>2, DemoDelivers DEF DemoIInv, ScheduledDelivery
      <3>4. Observe(delivered')
        BY <2>0, <3>1, <3>3, OwnNeverPanics
      <3>5. OwnDataOnly'
        BY <3>4 DEF Observe, dbVars, OwnDataOnly
      <3>. QED  BY <3>3, <3>4, <3>5, ObserveOwn
    <2>2. CASE ~Sense
      <3>1. [Next]_vars /\ NoDelivery
        BY <2>2 DEF DemoNext, DemoProgress, DemoStart, DemoStep, DemoTick, Refuse,
           Compare, Fail, LoopStep, LoopStart, Actuate, AgentStep, demoVars,
           loopVars, vars, Next, Step, NoDelivery
      <3>. QED  BY <2>0, <3>1, OwnDataStep, OtherStepsOwn
    <2>. QED  BY <2>1, <2>2
  <1>. QED  BY <1>1, <1>2, DemoInvariance, PTL DEF DemoSpec

=============================================================================
