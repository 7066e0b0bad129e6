------------------------------ MODULE Simulator ------------------------------
(***************************************************************************)
(* The simulated household (internal/simulator): one battery and one       *)
(* timeline of samples, of which at most one waits for its command, and a  *)
(* schedule of faults that changes what is delivered for a sample but      *)
(* never the sample itself.                                                *)
(*                                                                         *)
(* The PV, load and price curves and the seed's daily factors are data:    *)
(* Profiles gives, for each day in the order their factors are drawn, the  *)
(* values by time of day.  Event IDs are hashes of the device and the      *)
(* event time, so they are modelled as the event time itself, tagged.      *)
(* Power is in percent of the battery's capacity per interval.             *)
(***************************************************************************)
EXTENDS Household, Sequences

CONSTANTS
    DeviceID,          \* the simulated household
    SimStart,          \* Config.Start
    IntervalsPerDay,   \* telemetry intervals in SimulationDuration
    Days,              \* bound: how many days have factors of their own
    Profiles,          \* by day and time of day, PV power, load and price
    StartingSOC,       \* Config.StartingBatterySOCPercent
    Schedules,         \* the fault schedules a configuration may hold
    Commands,          \* the commands a caller may complete an interval with
    MaxSteps,          \* bound: the samples a caller asks for
    PaddedID           \* an event ID with text and surrounding whitespace

SimulationDuration == IntervalsPerDay * Interval

MinimumSOC == 0

FaultKinds == {"duplicate", "out_of_order", "delay", "missing_value",
               "invalid_measurement", "missing_heartbeat", "unavailable"}

MeasurementNames == {"pv", "load", "soc", "price"}

SimulatedEventID(time) == <<"sim", time>>

\* Config.Validate, as far as the model has its parameters.
ConfigValid ==
    /\ DeviceID \in Devices
    /\ SimStart \in Nat \ {0}
    /\ IntervalsPerDay \in Nat \ {0}
    /\ Days \in Nat \ {0}
    /\ Profiles \in [1 .. Days -> [0 .. SimulationDuration - 1 ->
                        [pv: Nat, load: Nat, price: Nat \ {0}]]]
    /\ StartingSOC \in MinimumSOC .. MaximumSOC

ASSUME SimulatorAssumption == ConfigValid /\ MaxSteps \in Nat

\* What the type of a command allows, valid or not.
ASSUME CommandsAssumption == Commands \subseteq [decision: Decisions, power: Int]

\* One sample of the timeline, before any fault.
Sample == [id: EventIDs, time: Nat \ {0}, m: Measurements]

\* A fault as a configuration may give it, valid or not.
Fault == [step: Int, repeat: Int, kind: FaultKinds, offset: Int,
          eventID: EventIDs \cup {Nil, PaddedID}, delay: Int,
          measurement: MeasurementNames \cup {Nil},
          value: Int \cup {NoValue}]

(***************************************************************************)
(* What no check of the code makes sure of: an out-of-order event has an   *)
(* ID of its own, none of the timeline's hashes, and lies after Go's zero  *)
(* time.                                                                   *)
(***************************************************************************)
LateEventsApart(s, samples) ==
    \A i \in DOMAIN s : s[i].kind = "out_of_order" =>
        /\ SimStart + s[i].offset > 0
        /\ \A k \in 0 .. samples - 1 :
             s[i].eventID # SimulatedEventID(SimStart + k * Interval)

ASSUME ScheduleAssumption ==
    /\ Schedules \subseteq Seq(Fault)
    /\ \A k \in 0 .. MaxSteps - 1 :
         SimulatedEventID(SimStart + k * Interval) \in EventIDs
    /\ \A s \in Schedules : LateEventsApart(s, MaxSteps)
    /\ PaddedID \notin EventIDs \cup {Nil}
    /\ Nil \notin Sample
    /\ Nil \notin Fault

VARIABLES
    simTime,     \* currentTime
    soc,         \* batterySOCPercent
    day,         \* the number of days whose factors have been drawn
    dayEnd,      \* when the current day's factors end
    pending,     \* the sample that waits for completion, or Nil
    prior,       \* the sample of the completed interval before, or Nil
    step,        \* one-based number of the sample last produced
    faults,      \* Config.Faults
    delivered    \* history: what NextObservation handed out last

simVars == <<simTime, soc, day, dayEnd, pending, prior, step, faults,
             delivered>>

(***************************************************************************)
(* Fault and FaultSchedule.                                                *)
(***************************************************************************)
\* A valid sample with one measurement replaced fails domain validation.
Rejects(measurement, value) ==
    ~MeasurementsValid([[pv |-> 1, load |-> 1, soc |-> 50, price |-> 30]
                            EXCEPT ![measurement] = value])

\* Mutant: the value of an invalid measurement is not looked at.
FaultValid_AnyValue(f) ==
    /\ f.step >= 1
    /\ f.repeat >= 0
    /\ f.kind \in FaultKinds
    /\ f.kind = "duplicate" => f.step # 1
    /\ f.kind = "out_of_order" => f.offset < 0 /\ f.eventID # Nil
    /\ f.kind = "delay" => f.delay > 0
    /\ f.kind \in {"missing_value", "invalid_measurement"} =>
         f.measurement \in MeasurementNames

\* Of a late event's ID only that it is not blank: a padded one passes.
FaultValid(f) ==
    /\ f.step >= 1
    /\ f.repeat >= 0
    /\ f.kind \in FaultKinds
    /\ f.kind = "duplicate" => f.step # 1
    /\ f.kind = "out_of_order" => f.offset < 0 /\ f.eventID # Nil
    /\ f.kind = "delay" => f.delay > 0
    /\ f.kind \in {"missing_value", "invalid_measurement"} =>
         f.measurement \in MeasurementNames
    /\ f.kind = "invalid_measurement" => Rejects(f.measurement, f.value)

\* A repeat of zero means one step.
LastStep(f) == f.step + (IF f.repeat = 0 THEN 1 ELSE f.repeat) - 1

Overlaps(f, g) == f.step <= LastStep(g) /\ g.step <= LastStep(f)

ScheduleValid(s) ==
    /\ \A i \in DOMAIN s : FaultValid(s[i])
    /\ \A i, j \in DOMAIN s : i < j => ~Overlaps(s[i], s[j])

\* The first fault of the schedule that covers step n, or Nil.
FaultAt(s, n) ==
    LET hits == {i \in DOMAIN s : n \in s[i].step .. LastStep(s[i])}
    IN  IF hits = {} THEN Nil
        ELSE s[CHOOSE i \in hits : \A j \in hits : i <= j]

(***************************************************************************)
(* What is delivered for the sample of an interval.                        *)
(***************************************************************************)
EnvelopeOf(sample, m, receivedAt) ==
    [src |-> DeviceID, recv |-> receivedAt, utc |-> TRUE, avail |-> TRUE,
     tel |-> [id |-> sample.id, time |-> sample.time, utc |-> TRUE,
              device |-> DeviceID, m |-> m]]

FullEnvelope(sample, receivedAt) == EnvelopeOf(sample, sample.m, receivedAt)

UnavailableEnvelope(receivedAt) ==
    [src |-> DeviceID, recv |-> receivedAt, utc |-> TRUE, avail |-> FALSE,
     tel |-> Nil]

\* What the domain makes of a late event's ID: a padded one is none.
EventIDOf(f) == IF f.eventID = PaddedID THEN Nil ELSE f.eventID

\* Nil, no observation at all, is a missing heartbeat.
Observation(f, sample, before) ==
    IF f = Nil THEN FullEnvelope(sample, sample.time)
    ELSE CASE f.kind = "missing_heartbeat" -> Nil
           [] f.kind = "unavailable" -> UnavailableEnvelope(sample.time)
           [] f.kind = "duplicate" -> FullEnvelope(before, sample.time)
           [] f.kind = "out_of_order" ->
                FullEnvelope([id |-> EventIDOf(f), time |-> sample.time + f.offset,
                              m |-> sample.m], sample.time)
           [] f.kind = "delay" -> FullEnvelope(sample, sample.time + f.delay)
           [] f.kind = "missing_value" ->
                EnvelopeOf(sample, [sample.m EXCEPT ![f.measurement] = NoValue],
                           sample.time)
           [] f.kind = "invalid_measurement" ->
                EnvelopeOf(sample, [sample.m EXCEPT ![f.measurement] = f.value],
                           sample.time)

(***************************************************************************)
(* The battery over one interval.                                          *)
(***************************************************************************)
BatteryPower(c) ==
    IF c = Nil THEN 0 ELSE IF c.decision = "discharge" THEN -c.power ELSE c.power

\* Mutant: a battery can be charged beyond its capacity.
NextBatterySOC_NoCeiling(current, power) ==
    IF current + power <= MinimumSOC THEN MinimumSOC ELSE current + power

NextBatterySOC(current, power) ==
    IF current + power <= MinimumSOC THEN MinimumSOC
    ELSE IF current + power >= MaximumSOC THEN MaximumSOC
    ELSE current + power

(***************************************************************************)
(* New, NextObservation and Complete.                                      *)
(***************************************************************************)
SimInit ==
    /\ simTime = SimStart
    /\ soc = StartingSOC
    /\ day = 1
    /\ dayEnd = SimStart + SimulationDuration
    /\ pending = Nil
    /\ prior = Nil
    /\ step = 0
    /\ faults \in {s \in Schedules : ScheduleValid(s)}
    /\ delivered = Nil

\* A new simulator of the same configuration but for its starting charge.
New(starting) ==
    /\ simTime' = SimStart
    /\ soc' = starting
    /\ day' = 1
    /\ dayEnd' = SimStart + SimulationDuration
    /\ pending' = Nil
    /\ prior' = Nil
    /\ step' = 0
    /\ delivered' = Nil
    /\ UNCHANGED faults

Measured(d, time, charge) ==
    LET profile == Profiles[((d - 1) % Days) + 1][time % SimulationDuration]
    IN  [pv |-> profile.pv, load |-> profile.load, soc |-> charge,
         price |-> profile.price]

DayIsOver == simTime >= dayEnd

\* Mutant: the charge is read before the last command has moved it.
NextObservation_OldCharge ==
    /\ pending = Nil
    /\ day' = IF DayIsOver THEN day + 1 ELSE day
    /\ dayEnd' = IF DayIsOver THEN simTime + SimulationDuration ELSE dayEnd
    /\ step' = step + 1
    /\ pending' = [id |-> SimulatedEventID(simTime), time |-> simTime,
                   m |-> Measured(day', simTime,
                                  IF prior = Nil THEN soc ELSE prior.m.soc)]
    /\ delivered' = Observation(FaultAt(faults, step'), pending', prior)
    /\ UNCHANGED <<simTime, soc, prior, faults>>

NextObservation ==
    /\ pending = Nil
    /\ day' = IF DayIsOver THEN day + 1 ELSE day
    /\ dayEnd' = IF DayIsOver THEN simTime + SimulationDuration ELSE dayEnd
    /\ step' = step + 1
    /\ pending' = [id |-> SimulatedEventID(simTime), time |-> simTime,
                   m |-> Measured(day', simTime, soc)]
    /\ delivered' = Observation(FaultAt(faults, step'), pending', prior)
    /\ UNCHANGED <<simTime, soc, prior, faults>>

\* Mutant: an interval without a command is not advanced over.
Complete_WaitsForCommand(c) ==
    /\ pending # Nil
    /\ c # Nil => CommandValid(c)
    /\ soc' = NextBatterySOC(soc, BatteryPower(c))
    /\ prior' = pending
    /\ simTime' = IF c = Nil THEN simTime ELSE simTime + Interval
    /\ pending' = Nil
    /\ UNCHANGED <<day, dayEnd, step, faults, delivered>>

\* With no command the battery idles; the interval passes all the same.
Complete(c) ==
    /\ pending # Nil
    /\ c # Nil => CommandValid(c)
    /\ soc' = NextBatterySOC(soc, BatteryPower(c))
    /\ prior' = pending
    /\ simTime' = simTime + Interval
    /\ pending' = Nil
    /\ UNCHANGED <<day, dayEnd, step, faults, delivered>>

(***************************************************************************)
(* A simulator on its own, driven by a caller that asks for a sample and   *)
(* completes it with any command.  A call out of turn or with an invalid   *)
(* command is refused: it returns an error and changes nothing.            *)
(***************************************************************************)
SimNext ==
    \/ step < MaxSteps /\ NextObservation
    \/ \E c \in Commands \cup {Nil} : Complete(c)

SimSpec == SimInit /\ [][SimNext]_simVars

(***************************************************************************)
(* Properties.                                                             *)
(***************************************************************************)
SimTypeOK ==
    /\ simTime \in Nat \ {0}
    /\ soc \in MinimumSOC .. MaximumSOC
    /\ day \in Nat \ {0}
    /\ dayEnd \in Nat
    /\ pending \in Sample \cup {Nil}
    /\ prior \in Sample \cup {Nil}
    /\ step \in Nat
    /\ delivered \in ObservationEnvelope \cup {Nil}

(***************************************************************************)
(* Whatever is delivered and commanded, the timeline is gapless: the n-th  *)
(* sample is that of the n-th interval, measured with its own day's        *)
(* factors, and the battery advances exactly one interval per sample       *)
(* (Complete; docs/MODEL.md: "faults never add or remove intervals").      *)
(***************************************************************************)
OneIntervalPerStep ==
    /\ simTime = SimStart + (IF pending = Nil THEN step ELSE step - 1) * Interval
    /\ pending # Nil =>
         /\ pending.time = simTime
         /\ pending.m = Measured((step - 1) \div IntervalsPerDay + 1,
                                 simTime, soc)
    /\ prior # Nil => prior.time = simTime - Interval
    /\ step > 0 /\ pending = Nil => prior # Nil

\* A valid fault whose telemetry the domain refuses: one measurement is gone
\* or out of range, or a late event has an ID that only the domain looks at.
Spoils(f) ==
    \/ f.kind \in {"missing_value", "invalid_measurement"}
    \/ f.kind = "out_of_order" /\ f.eventID = PaddedID

(***************************************************************************)
(* What a schedule that passes FaultSchedule.Validate does to a delivery.  *)
(* Only a missing heartbeat leaves an interval without one, and every      *)
(* other envelope is well formed.  A missing or invalid measurement is one *)
(* the domain refuses, and so is a late event whose ID is padded, which    *)
(* Fault.Validate lets through (it refuses blank IDs) and                  *)
(* Telemetry.Validate does not; every other telemetry is valid, this       *)
(* household's own and not from the future; a duplicate has a prior sample *)
(* to repeat; an out-of-order event is older than its interval and takes   *)
(* not the ID of the interval's sample.                                    *)
(***************************************************************************)
DeliveredAsScheduled ==
    LET f == FaultAt(faults, step)
    IN  pending # Nil =>
          /\ delivered = Nil <=> f # Nil /\ f.kind = "missing_heartbeat"
          /\ delivered # Nil => EnvelopeValid(delivered)
          /\ f # Nil /\ Spoils(f) => ~TelemetryValid(delivered.tel)
          /\ \/ f = Nil
             \/ f.kind \in {"delay", "duplicate", "out_of_order"} /\ ~Spoils(f)
             => TelemetryAcceptable(delivered)
          /\ f # Nil /\ f.kind = "out_of_order" =>
               /\ delivered.tel.time < pending.time
               /\ delivered.tel.id # pending.id

=============================================================================
