--------------------------- MODULE SimulatorProofs ---------------------------
(***************************************************************************)
(* The simulated timeline has no gap, and every delivery is what its fault *)
(* is for, for every profile, schedule, length of day and number of steps. *)
(*                                                                         *)
(* Two invariants carry the proof: Calendar, that the days' factors change *)
(* at the right sample although the code only compares instants, and       *)
(* SamplesValid, that a sample of the timeline passes the domain's         *)
(* validation, whatever commands have moved the battery.                   *)
(***************************************************************************)
EXTENDS Simulator, TLAPS

(***************************************************************************)
(* The samples of day d have the numbers (d - 1) * IntervalsPerDay + 1 to  *)
(* d * IntervalsPerDay; the day ends where the next one's begin.           *)
(***************************************************************************)
Calendar ==
    /\ dayEnd = SimStart + (day * IntervalsPerDay) * Interval
    /\ step = 0 => day = 1
    /\ step > 0 =>
         /\ (day - 1) * IntervalsPerDay <= step - 1
         /\ step - 1 < day * IntervalsPerDay

SampleValid(sample) == MeasurementsValid(sample.m)

SamplesValid ==
    /\ pending # Nil => SampleValid(pending)
    /\ prior # Nil => SampleValid(prior)

Schedule ==
    /\ faults \in Schedules
    /\ ScheduleValid(faults)
    /\ pending # Nil => step \in 1 .. MaxSteps

IInv ==
    /\ SimTypeOK
    /\ OneIntervalPerStep
    /\ DeliveredAsScheduled
    /\ Calendar
    /\ SamplesValid
    /\ Schedule

(***************************************************************************)
(* Arithmetic of the calendar.                                             *)
(***************************************************************************)
LEMMA TimesMonotone ==
    ASSUME NEW x \in Int, NEW y \in Int, NEW n \in Nat \ {0}
    PROVE  x <= y <=> x * n <= y * n
  BY SMT

\* A quotient is known by its bounds.
LEMMA QuotientByBounds ==
    ASSUME NEW a \in Nat, NEW q \in Nat, NEW n \in Nat \ {0},
           q * n <= a, a < (q + 1) * n
    PROVE  a \div n = q
  <1>. DEFINE d == a \div n
  <1>1. d \in Int
    BY SMT
  <1>2. d * n <= a /\ a < (d + 1) * n
    BY SMT
  <1>. HIDE DEF d
  <1>3. ~(d < q)
    <2>. SUFFICES ASSUME d < q PROVE FALSE
      OBVIOUS
    <2>1. (d + 1) * n <= q * n
      BY <1>1, TimesMonotone
    <2>. QED  BY <1>1, <1>2, <2>1, SMT
  <1>4. ~(q < d)
    <2>. SUFFICES ASSUME q < d PROVE FALSE
      OBVIOUS
    <2>1. (q + 1) * n <= d * n
      BY <1>1, TimesMonotone
    <2>. QED  BY <1>1, <1>2, <2>1, SMT
  <1>5. d = q
    BY <1>1, <1>3, <1>4, SMT
  <1>. QED  BY <1>5 DEF d

LEMMA SumMonotone ==
    ASSUME NEW x \in Int, NEW y \in Int, NEW z \in Int
    PROVE  x + y <= x + z <=> y <= z
  BY SMT

LEMMA NextInstant ==
    ASSUME NEW x \in Int, NEW k \in Int, NEW n \in Nat
    PROVE  /\ x + (k - 1) * n + n = x + k * n
           /\ (x + n) - n = x
  BY SMT

LEMMA TransitiveOrder ==
    ASSUME NEW x \in Int, NEW y \in Int, NEW z \in Int, x <= y, y <= z
    PROVE  x <= z
  BY SMT

LEMMA LastStepType ==
    ASSUME NEW f, f.step \in Int, f.repeat \in Int
    PROVE  LastStep(f) \in Int
  BY SMT DEF LastStep

LEMMA ProductIsNatural ==
    ASSUME NEW x \in Nat, NEW y \in Nat
    PROVE  x * y \in Nat
  BY SMT

LEMMA SumAbove ==
    ASSUME NEW x \in Int, NEW y \in Int, NEW z \in Int, x <= y, x + z > 0
    PROVE  y + z > 0
  BY SMT

USE SimulatorAssumption, ScheduleAssumption, NilAssumption, IntervalAssumption,
    IdentityAssumption, NoValueAssumption DEF ConfigValid

\* The battery stays within its limits, whatever it is charged with.
LEMMA BatteryLimits ==
    ASSUME NEW charge \in MinimumSOC .. MaximumSOC, NEW power \in Int
    PROVE  NextBatterySOC(charge, power) \in MinimumSOC .. MaximumSOC
  BY SMT DEF NextBatterySOC, MinimumSOC, MaximumSOC

\* A measurement of the timeline passes validation, at any charge.
LEMMA MeasuredValid ==
    ASSUME NEW d \in Nat \ {0}, NEW time \in Nat,
           NEW charge \in MinimumSOC .. MaximumSOC
    PROVE  /\ Measured(d, time, charge) \in Measurements
           /\ MeasurementsValid(Measured(d, time, charge))
           /\ Measured(d, time, charge).soc = charge
  <1>1. ((d - 1) % Days) + 1 \in 1 .. Days
    BY SMT
  <1>2. SimulationDuration \in Nat \ {0}
    BY SMT DEF SimulationDuration
  <1>3. time % SimulationDuration \in 0 .. SimulationDuration - 1
    BY <1>2, SMT
  <1>4. Profiles[((d - 1) % Days) + 1][time % SimulationDuration]
          \in [pv: Nat, load: Nat, price: Nat \ {0}]
    BY <1>1, <1>3
  <1>. QED  BY <1>4, SMT DEF Measured, Measurements, MeasurementsValid,
            MinimumSOC, MaximumSOC

(***************************************************************************)
(* The faults of a valid schedule do not overlap, so the fault of a step   *)
(* is one of the schedule that covers it, and valid.                       *)
(***************************************************************************)
LEMMA FaultOfStep ==
    ASSUME NEW s \in Schedules, ScheduleValid(s), NEW n \in Nat,
           FaultAt(s, n) # Nil
    PROVE  LET f == FaultAt(s, n)
           IN  /\ \E i \in DOMAIN s : f = s[i]
               /\ f \in Fault
               /\ FaultValid(f)
               /\ f.step <= n
  <1>. DEFINE hits == {i \in DOMAIN s : n \in s[i].step .. LastStep(s[i])}
  <1>1. /\ DOMAIN s \subseteq Nat
        /\ \A i \in DOMAIN s : s[i] \in Fault
    <2>1. s \in Seq(Fault)
      OBVIOUS
    <2>. QED  BY <2>1, SMT
  <1>2. ASSUME NEW i \in hits, NEW j \in hits PROVE i = j
    <2>. DEFINE f == s[i]
                g == s[j]
    <2>1. i \in Nat /\ j \in Nat /\ f \in Fault /\ g \in Fault
      BY <1>1
    <2>. HIDE DEF f, g
    <2>2. /\ f.step \in Int /\ f.repeat \in Int
           /\ g.step \in Int /\ g.repeat \in Int
      BY <2>1, SMT DEF Fault
    <2>3. /\ i \in Nat /\ j \in Nat
          /\ s[i].step \in Int /\ s[i].repeat \in Int
          /\ s[j].step \in Int /\ s[j].repeat \in Int
      BY <2>1, <2>2 DEF f, g
    <2>4. n \in s[i].step .. LastStep(s[i]) /\ n \in s[j].step .. LastStep(s[j])
      OBVIOUS
    <2>5. LastStep(s[i]) \in Int /\ LastStep(s[j]) \in Int
      BY <2>3, LastStepType
    <2>6. /\ s[i].step <= n /\ n <= LastStep(s[i])
          /\ s[j].step <= n /\ n <= LastStep(s[j])
      BY <2>3, <2>4, <2>5
    <2>7. s[i].step <= LastStep(s[j]) /\ s[j].step <= LastStep(s[i])
      BY <2>3, <2>5, <2>6, TransitiveOrder
    <2>8. ~(i < j) /\ ~(j < i)
      BY <2>7 DEF ScheduleValid, Overlaps
    <2>. QED  BY <2>3, <2>8, SMT
  <1>3. hits # {} /\ FaultAt(s, n) = s[CHOOSE i \in hits : \A j \in hits : i <= j]
    BY Zenon DEF FaultAt
  <1>4. \E i \in hits : \A j \in hits : i <= j
    <2>1. PICK i \in hits : TRUE
      BY <1>3
    <2>2. \A j \in hits : i <= j
      BY <1>1, <1>2, SMT
    <2>. QED  BY <2>2
  <1>5. PICK i \in hits : FaultAt(s, n) = s[i]
    BY <1>3, <1>4
  <1>6. s[i] \in Fault /\ FaultValid(s[i]) /\ s[i].step <= n
    BY <1>1, SMT DEF ScheduleValid, Fault
  <1>. QED  BY <1>5, <1>6

\* Replacing a measurement by one the domain rejects makes it reject them all.
LEMMA RejectedMeasurement ==
    ASSUME NEW m \in Measurements, NEW name \in MeasurementNames,
           NEW value \in Int \cup {NoValue}, Rejects(name, value)
    PROVE  ~MeasurementsValid([m EXCEPT ![name] = value])
  <1>1. CASE name = "pv"
    BY <1>1, SMT DEF Measurements, Rejects, MeasurementsValid, MaximumSOC
  <1>2. CASE name = "load"
    BY <1>2, SMT DEF Measurements, Rejects, MeasurementsValid, MaximumSOC
  <1>3. CASE name = "soc"
    BY <1>3, SMT DEF Measurements, Rejects, MeasurementsValid, MaximumSOC
  <1>4. CASE name = "price"
    BY <1>4, SMT DEF Measurements, Rejects, MeasurementsValid, MaximumSOC
  <1>. QED  BY <1>1, <1>2, <1>3, <1>4 DEF MeasurementNames

\* So does an absent one.
LEMMA MissingMeasurement ==
    ASSUME NEW m \in Measurements, NEW name \in MeasurementNames
    PROVE  ~MeasurementsValid([m EXCEPT ![name] = NoValue])
  <1>1. CASE name = "pv"
    BY <1>1, SMT DEF Measurements, MeasurementsValid
  <1>2. CASE name = "load"
    BY <1>2, SMT DEF Measurements, MeasurementsValid
  <1>3. CASE name = "soc"
    BY <1>3, SMT DEF Measurements, MeasurementsValid
  <1>4. CASE name = "price"
    BY <1>4, SMT DEF Measurements, MeasurementsValid
  <1>. QED  BY <1>1, <1>2, <1>3, <1>4 DEF MeasurementNames

\* Either way they are measurements a source can deliver.
LEMMA ReplacedMeasurement ==
    ASSUME NEW m \in Measurements, NEW name \in MeasurementNames,
           NEW value \in Int \cup {NoValue}
    PROVE  [m EXCEPT ![name] = value] \in RawMeasurements
  <1>1. CASE name = "pv"
    BY <1>1, SMT DEF Measurements, RawMeasurements
  <1>2. CASE name = "load"
    BY <1>2, SMT DEF Measurements, RawMeasurements
  <1>3. CASE name = "soc"
    BY <1>3, SMT DEF Measurements, RawMeasurements
  <1>4. CASE name = "price"
    BY <1>4, SMT DEF Measurements, RawMeasurements
  <1>. QED  BY <1>1, <1>2, <1>3, <1>4 DEF MeasurementNames

\* An envelope, whatever identity and measurements are put in it.
LEMMA EnvelopeOfType ==
    ASSUME NEW sample, sample.id \in EventIDs \cup {Nil}, sample.time \in Nat,
           NEW m \in RawMeasurements, NEW at \in Nat \ {0}
    PROVE  /\ EnvelopeOf(sample, m, at) \in ObservationEnvelope
           /\ EnvelopeOf(sample, m, at).tel.m = m
           /\ EnvelopeOf(sample, m, at).tel.id = sample.id
           /\ EnvelopeOf(sample, m, at).tel.time = sample.time
           /\ EnvelopeValid(EnvelopeOf(sample, m, at))
  <1>. DEFINE tel == [id |-> sample.id, time |-> sample.time, utc |-> TRUE,
                      device |-> DeviceID, m |-> m]
  <1>1. tel \in RawTelemetry
    BY SMT DEF RawTelemetry
  <1>2. tel # Nil
    BY <1>1
  <1>3. tel.m = m /\ tel.id = sample.id /\ tel.time = sample.time
    BY SMT
  <1>4. EnvelopeOf(sample, m, at) = [src |-> DeviceID, recv |-> at, utc |-> TRUE,
                                     avail |-> TRUE, tel |-> tel]
    BY DEF EnvelopeOf
  <1>. HIDE DEF tel
  <1>. QED  BY <1>1, <1>2, <1>3, <1>4, SMT
            DEF ObservationEnvelope, EnvelopeValid, ZeroTime

\* The whole sample, delivered no earlier than it was measured, is acceptable.
LEMMA FullEnvelopeAcceptable ==
    ASSUME NEW sample \in Sample, SampleValid(sample), NEW at \in Nat,
           sample.time <= at
    PROVE  /\ FullEnvelope(sample, at) \in ObservationEnvelope
           /\ EnvelopeValid(FullEnvelope(sample, at))
           /\ TelemetryAcceptable(FullEnvelope(sample, at))
           /\ FullEnvelope(sample, at).tel.id = sample.id
           /\ FullEnvelope(sample, at).tel.time = sample.time
           /\ FullEnvelope(sample, at).tel.m = sample.m
  <1>1. sample.m \in RawMeasurements /\ sample.time \in Nat \ {0} /\ at \in Nat \ {0}
        /\ sample.id \in EventIDs /\ sample.id # Nil
    BY SMT DEF Sample, Measurements, RawMeasurements
  <1>. DEFINE e == FullEnvelope(sample, at)
  <1>2. /\ e \in ObservationEnvelope /\ EnvelopeValid(e)
        /\ e.tel.id = sample.id /\ e.tel.time = sample.time /\ e.tel.m = sample.m
    BY <1>1, EnvelopeOfType DEF FullEnvelope
  <1>3. e.tel.device = DeviceID /\ e.src = DeviceID /\ e.recv = at
    BY SMT DEF FullEnvelope, EnvelopeOf
  <1>. HIDE DEF e
  <1>4. TelemetryAcceptable(e)
    BY <1>1, <1>2, <1>3
    DEF TelemetryAcceptable, TelemetryValid, SampleValid, ZeroTime
  <1>. QED  BY <1>2, <1>4 DEF e

(***************************************************************************)
(* What is delivered for a sample under a valid fault.                     *)
(***************************************************************************)
LEMMA ObservationAsScheduled ==
    ASSUME NEW f \in Fault \cup {Nil}, NEW sample \in Sample,
           NEW before \in Sample \cup {Nil}, SampleValid(sample),
           f # Nil => FaultValid(f),
           f # Nil /\ f.kind = "duplicate" =>
             before # Nil /\ SampleValid(before) /\ before.time <= sample.time,
           f # Nil /\ f.kind = "out_of_order" =>
             sample.time + f.offset > 0 /\ f.eventID # sample.id
    PROVE  LET e == Observation(f, sample, before)
           IN  /\ e \in ObservationEnvelope \cup {Nil}
               /\ e = Nil <=> f # Nil /\ f.kind = "missing_heartbeat"
               /\ e # Nil => EnvelopeValid(e)
               /\ f # Nil /\ Spoils(f) => ~TelemetryValid(e.tel)
               /\ \/ f = Nil
                  \/ f.kind \in {"delay", "duplicate", "out_of_order"} /\ ~Spoils(f)
                  => TelemetryAcceptable(e)
               /\ f # Nil /\ f.kind = "out_of_order" =>
                    e.tel.time < sample.time /\ e.tel.id # sample.id
  <1>. DEFINE e == Observation(f, sample, before)
              Good ==
                /\ e \in ObservationEnvelope \cup {Nil}
                /\ e = Nil <=> f # Nil /\ f.kind = "missing_heartbeat"
                /\ e # Nil => EnvelopeValid(e)
                /\ f # Nil /\ Spoils(f) => ~TelemetryValid(e.tel)
                /\ \/ f = Nil
                   \/ f.kind \in {"delay", "duplicate", "out_of_order"} /\ ~Spoils(f)
                   => TelemetryAcceptable(e)
                /\ f # Nil /\ f.kind = "out_of_order" =>
                     e.tel.time < sample.time /\ e.tel.id # sample.id
  <1>. SUFFICES Good
    BY Zenon
  <1>1. /\ sample.id \in EventIDs /\ sample.time \in Nat \ {0}
        /\ sample.m \in Measurements
    BY SMT DEF Sample
  <1>2. CASE f = Nil
    <2>1. e = FullEnvelope(sample, sample.time)
      BY <1>2 DEF Observation
    <2>2. sample.time <= sample.time
      BY <1>1, SMT
    <2>. HIDE DEF e
    <2>. QED  BY <1>1, <1>2, <2>1, <2>2, FullEnvelopeAcceptable
  <1>3. CASE f # Nil /\ f.kind = "missing_heartbeat"
    <2>1. e = Nil
      BY <1>3 DEF Observation
    <2>. HIDE DEF e
    <2>. QED  BY <1>3, <2>1 DEF Spoils
  <1>4. CASE f # Nil /\ f.kind = "unavailable"
    <2>1. e = UnavailableEnvelope(sample.time)
      BY <1>4 DEF Observation
    <2>2. e \in ObservationEnvelope /\ EnvelopeValid(e)
      BY <1>1, <2>1, SMT
      DEF UnavailableEnvelope, ObservationEnvelope, EnvelopeValid, ZeroTime
    <2>. HIDE DEF e
    <2>. QED  BY <1>4, <2>2 DEF Spoils
  <1>5. CASE f # Nil /\ f.kind = "duplicate"
    <2>1. e = FullEnvelope(before, sample.time)
      BY <1>5 DEF Observation
    <2>. HIDE DEF e
    <2>. QED  BY <1>1, <1>5, <2>1, FullEnvelopeAcceptable DEF Spoils
  <1>6. CASE f # Nil /\ f.kind = "out_of_order"
    <2>. DEFINE moved == [id |-> EventIDOf(f), time |-> sample.time + f.offset,
                          m |-> sample.m]
    <2>1. e = FullEnvelope(moved, sample.time)
      BY <1>6 DEF Observation
    <2>2. /\ f.offset \in Int /\ f.offset < 0
          /\ f.eventID \in EventIDs \cup {PaddedID}
      BY <1>6, SMT DEF Fault, FaultValid
    <2>3. /\ moved.id = EventIDOf(f) /\ moved.time = sample.time + f.offset
          /\ moved.m = sample.m
      BY SMT DEF Sample
    <2>4. moved.time \in Nat \ {0} /\ moved.time < sample.time
      BY <1>1, <1>6, <2>2, <2>3, SMT
    <2>5. moved.time <= sample.time
      BY <1>1, <2>4, SMT
    <2>6. CASE f.eventID # PaddedID
      <3>1. EventIDOf(f) = f.eventID /\ f.eventID \in EventIDs /\ ~Spoils(f)
        BY <1>6, <2>2, <2>6 DEF EventIDOf, Spoils
      <3>2. moved \in Sample /\ SampleValid(moved)
        BY <1>1, <2>3, <2>4, <3>1 DEF Sample, SampleValid
      <3>. HIDE DEF e, moved
      <3>. QED  BY <1>1, <1>6, <2>1, <2>3, <2>4, <2>5, <3>1, <3>2,
                FullEnvelopeAcceptable
    <2>7. CASE f.eventID = PaddedID
      <3>1. EventIDOf(f) = Nil /\ Spoils(f)
        BY <1>6, <2>7 DEF EventIDOf, Spoils
      <3>2. sample.m \in RawMeasurements
        BY <1>1 DEF Measurements, RawMeasurements
      <3>. HIDE DEF e, moved
      <3>3. /\ e \in ObservationEnvelope /\ e # Nil /\ EnvelopeValid(e)
            /\ e.tel.id = Nil /\ e.tel.time = moved.time
        BY <1>1, <2>1, <2>3, <2>4, <3>1, <3>2, EnvelopeOfType DEF FullEnvelope
      <3>4. ~TelemetryValid(e.tel)
        BY <3>3, Zenon DEF TelemetryValid
      <3>. QED  BY <1>1, <1>6, <2>4, <3>1, <3>3, <3>4, IdentityAssumption
    <2>. QED  BY <2>6, <2>7
  <1>7. CASE f # Nil /\ f.kind = "delay"
    <2>1. e = FullEnvelope(sample, sample.time + f.delay)
      BY <1>7 DEF Observation
    <2>2. sample.time + f.delay \in Nat /\ sample.time <= sample.time + f.delay
      BY <1>1, <1>7, SMT DEF Fault, FaultValid
    <2>. HIDE DEF e
    <2>. QED  BY <1>7, <2>1, <2>2, FullEnvelopeAcceptable DEF Spoils
  <1>8. CASE f # Nil /\ f.kind = "missing_value"
    <2>. DEFINE m == [sample.m EXCEPT ![f.measurement] = NoValue]
    <2>1. e = EnvelopeOf(sample, m, sample.time)
      BY <1>8 DEF Observation
    <2>2. f.measurement \in MeasurementNames
      BY <1>8 DEF FaultValid
    <2>3. m \in RawMeasurements /\ ~MeasurementsValid(m)
      BY <1>1, <2>2, MissingMeasurement, ReplacedMeasurement
    <2>. HIDE DEF e, m
    <2>4. e \in ObservationEnvelope /\ e # Nil /\ EnvelopeValid(e) /\ e.tel.m = m
      BY <1>1, <2>1, <2>3, EnvelopeOfType
    <2>. QED  BY <1>8, <2>3, <2>4 DEF TelemetryValid, Spoils
  <1>9. CASE f # Nil /\ f.kind = "invalid_measurement"
    <2>. DEFINE m == [sample.m EXCEPT ![f.measurement] = f.value]
    <2>1. e = EnvelopeOf(sample, m, sample.time)
      BY <1>9 DEF Observation
    <2>2. f.measurement \in MeasurementNames /\ Rejects(f.measurement, f.value)
      BY <1>9 DEF FaultValid
    <2>3. f.value \in Int \cup {NoValue}
      BY <1>9, SMT DEF Fault
    <2>4. m \in RawMeasurements /\ ~MeasurementsValid(m)
      BY <1>1, <2>2, <2>3, RejectedMeasurement, ReplacedMeasurement
    <2>. HIDE DEF e, m
    <2>5. e \in ObservationEnvelope /\ e # Nil /\ EnvelopeValid(e) /\ e.tel.m = m
      BY <1>1, <2>1, <2>4, EnvelopeOfType
    <2>. QED  BY <1>9, <2>4, <2>5 DEF TelemetryValid, Spoils
  <1>10. f = Nil \/ f.kind \in FaultKinds
    BY SMT DEF Fault
  <1>. QED  BY <1>2, <1>3, <1>4, <1>5, <1>6, <1>7, <1>8, <1>9, <1>10
            DEF FaultKinds

(***************************************************************************)
(* Every step keeps IInv.                                                  *)
(***************************************************************************)
LEMMA InitIInv == SimInit => IInv
  <1>. SUFFICES ASSUME SimInit PROVE IInv
    OBVIOUS
  <1>. USE DEF SimInit
  <1>1. SimTypeOK
    <2>1. SimStart + SimulationDuration \in Nat
      <3>1. SimulationDuration \in Nat
        BY ProductIsNatural DEF SimulationDuration
      <3>. QED  BY <3>1, SMT
    <2>. QED  BY <2>1 DEF SimTypeOK
  <1>2. OneIntervalPerStep
    BY SMT DEF OneIntervalPerStep
  <1>3. DeliveredAsScheduled
    BY DEF DeliveredAsScheduled
  <1>4. Calendar
    BY SMT DEF Calendar, SimulationDuration
  <1>5. SamplesValid /\ Schedule
    BY DEF SamplesValid, Schedule
  <1>. QED  BY <1>1, <1>2, <1>3, <1>4, <1>5 DEF IInv

(***************************************************************************)
(* NextObservation: the day ends by the clock exactly when its last sample *)
(* has been taken.                                                         *)
(***************************************************************************)
LEMMA NextObservationCalendar ==
    ASSUME IInv, NextObservation
    PROVE  /\ Calendar'
           /\ day' \in Nat \ {0} /\ dayEnd' \in Nat
           /\ (step' - 1) \div IntervalsPerDay + 1 = day'
  <1>1. /\ step \in Nat /\ step' = step + 1
        /\ day \in Nat \ {0}
        /\ simTime = SimStart + step * Interval
        /\ dayEnd = SimStart + (day * IntervalsPerDay) * Interval
        /\ step = 0 => day = 1
        /\ step > 0 => (day - 1) * IntervalsPerDay <= step - 1
        /\ step > 0 => step - 1 < day * IntervalsPerDay
    BY DEF IInv, SimTypeOK, OneIntervalPerStep, Calendar, NextObservation
  <1>. DEFINE last == day * IntervalsPerDay
  <1>2. /\ last \in Nat \ {0}
        /\ (day - 1) * IntervalsPerDay = last - IntervalsPerDay
        /\ (day + 1) * IntervalsPerDay = last + IntervalsPerDay
    BY <1>1, SMT
  <1>3. /\ dayEnd = SimStart + last * Interval
        /\ step > 0 => last - IntervalsPerDay <= step - 1 /\ step - 1 < last
    BY <1>1, <1>2, Zenon
  <1>. HIDE DEF last
  <1>4. DayIsOver <=> last <= step
    <2>1. last <= step <=> last * Interval <= step * Interval
      BY <1>1, <1>2, TimesMonotone
    <2>2. last * Interval \in Int /\ step * Interval \in Int
      BY <1>1, <1>2, SMT
    <2>3. SimStart \in Int
      OBVIOUS
    <2>4. dayEnd <= simTime <=> last <= step
      <3>1. SimStart + last * Interval <= SimStart + step * Interval
              <=> last * Interval <= step * Interval
        BY <2>2, <2>3, SumMonotone
      <3>. QED  BY <1>1, <1>3, <2>1, <3>1, Zenon
    <2>5. dayEnd \in Int /\ simTime \in Int
      BY DEF IInv, SimTypeOK
    <2>6. DayIsOver <=> dayEnd <= simTime
      BY <2>5, SMT DEF DayIsOver
    <2>. QED  BY <2>4, <2>6
  <1>5. CASE DayIsOver
    <2>1. day' = day + 1 /\ dayEnd' = simTime + IntervalsPerDay * Interval
      BY <1>5 DEF NextObservation, SimulationDuration
    <2>2. last = step /\ step > 0
      BY <1>1, <1>2, <1>3, <1>4, <1>5, SMT
    <2>3. /\ (day' - 1) * IntervalsPerDay = step
          /\ day' * IntervalsPerDay = step + IntervalsPerDay
      <3>1. day' - 1 = day
        BY <1>1, <2>1, SMT
      <3>. QED  BY <1>2, <2>1, <2>2, <3>1 DEF last
    <2>4. dayEnd' = SimStart + (day' * IntervalsPerDay) * Interval
      <3>1. (step + IntervalsPerDay) * Interval
               = step * Interval + IntervalsPerDay * Interval
        BY <1>1, SMT
      <3>2. step * Interval \in Int /\ IntervalsPerDay * Interval \in Int
        BY <1>1, SMT
      <3>. QED  BY <1>1, <2>1, <2>3, <3>1, <3>2, SMT
    <2>5. day' \in Nat \ {0} /\ step > 0 /\ step' > 0 /\ step' - 1 = step
      BY <1>1, <2>1, <2>2, SMT
    <2>6. step <= step /\ step < step + IntervalsPerDay
      BY <1>1, SMT
    <2>7. Calendar'
      BY <2>3, <2>4, <2>5, <2>6, SMT DEF Calendar
    <2>8. step \div IntervalsPerDay = day
      <3>1. (day + 1) * IntervalsPerDay = step + IntervalsPerDay
        BY <1>2, <2>2, Zenon
      <3>. QED  BY <1>1, <2>2, <2>6, <3>1, QuotientByBounds DEF last
    <2>9. dayEnd' \in Nat
      <3>1. simTime \in Nat
        BY DEF IInv, SimTypeOK
      <3>. QED  BY <2>1, <3>1, SMT
    <2>. QED  BY <1>1, <2>1, <2>5, <2>7, <2>8, <2>9
  <1>6. CASE ~DayIsOver
    <2>1. day' = day /\ dayEnd' = dayEnd
      BY <1>6 DEF NextObservation
    <2>2. last - IntervalsPerDay <= step /\ step < last
      BY <1>1, <1>2, <1>3, <1>4, <1>6, SMT DEF last
    <2>3. step' > 0 /\ step' - 1 = step /\ ~(step' = 0)
      BY <1>1, SMT
    <2>4. (day - 1) * IntervalsPerDay <= step /\ step < day * IntervalsPerDay
      BY <1>2, <2>2, Zenon DEF last
    <2>5. Calendar'
      BY <1>1, <2>1, <2>3, <2>4, Zenon DEF Calendar
    <2>6. step \div IntervalsPerDay = day - 1
      <3>1. day - 1 \in Nat /\ (day - 1) + 1 = day
        BY <1>1, SMT
      <3>. QED  BY <1>1, <2>4, <3>1, QuotientByBounds
    <2>7. dayEnd' \in Nat
      BY <2>1 DEF IInv, SimTypeOK
    <2>8. day - 1 + 1 = day
      BY <1>1, SMT
    <2>. QED  BY <1>1, <2>1, <2>3, <2>5, <2>6, <2>7, <2>8
  <1>. QED  BY <1>5, <1>6

\* The instants of the timeline have event IDs.
LEMMA SampleOfInterval ==
    ASSUME IInv, step < MaxSteps, NextObservation
    PROVE  /\ pending' \in Sample /\ pending' # Nil
           /\ SampleValid(pending')
           /\ pending'.id = SimulatedEventID(simTime)
           /\ pending'.time = simTime
           /\ pending'.m = Measured(day', simTime, soc)
  <1>1. /\ day' \in Nat \ {0} /\ simTime \in Nat \ {0}
        /\ soc \in MinimumSOC .. MaximumSOC
    BY NextObservationCalendar DEF IInv, SimTypeOK
  <1>2. /\ Measured(day', simTime, soc) \in Measurements
        /\ MeasurementsValid(Measured(day', simTime, soc))
    <2>1. simTime \in Nat
      BY <1>1
    <2>. QED  BY <1>1, <2>1, MeasuredValid
  <1>3. SimulatedEventID(simTime) \in EventIDs
    <2>1. step \in 0 .. MaxSteps - 1 /\ simTime = SimStart + step * Interval
      BY SMT DEF IInv, SimTypeOK, OneIntervalPerStep, NextObservation
    <2>. QED  BY <2>1
  <1>4. pending' = [id |-> SimulatedEventID(simTime), time |-> simTime,
                    m |-> Measured(day', simTime, soc)]
    BY DEF NextObservation
  <1>. QED  BY <1>1, <1>2, <1>3, <1>4 DEF Sample, SampleValid

LEMMA NextObservationIInv ==
    ASSUME IInv, step < MaxSteps, NextObservation
    PROVE  IInv'
  <1>1. /\ step \in Nat /\ step' = step + 1 /\ step' \in 1 .. MaxSteps
        /\ simTime' = simTime /\ simTime = SimStart + step * Interval
        /\ soc' = soc /\ prior' = prior /\ faults' = faults
        /\ prior \in Sample \cup {Nil} /\ simTime \in Nat \ {0}
        /\ soc \in MinimumSOC .. MaximumSOC
        /\ prior # Nil => prior.time = simTime - Interval /\ SampleValid(prior)
        /\ step > 0 => prior # Nil
        /\ faults \in Schedules /\ ScheduleValid(faults)
    BY SMT DEF IInv, SimTypeOK, OneIntervalPerStep, SamplesValid, Schedule,
               NextObservation
  <1>2. /\ Calendar' /\ day' \in Nat \ {0} /\ dayEnd' \in Nat
        /\ (step' - 1) \div IntervalsPerDay + 1 = day'
    BY NextObservationCalendar
  <1>3. /\ pending' \in Sample /\ pending' # Nil
        /\ SampleValid(pending')
        /\ pending'.id = SimulatedEventID(simTime)
        /\ pending'.time = simTime
        /\ pending'.m = Measured(day', simTime, soc)
    BY SampleOfInterval
  <1>. DEFINE f == FaultAt(faults, step')
  <1>4. f # Nil => /\ \E i \in DOMAIN faults : f = faults[i]
                   /\ f \in Fault /\ FaultValid(f) /\ f.step <= step'
    <2>1. /\ faults \in Schedules /\ ScheduleValid(faults) /\ step' \in Nat
      BY <1>1
    <2>. HIDE SimulatorAssumption, ScheduleAssumption DEF ConfigValid
    <2>. QED  BY <2>1, FaultOfStep
  <1>5. delivered' = Observation(f, pending', prior)
    BY DEF NextObservation
  <1>. HIDE DEF f
  <1>6. f # Nil /\ f.kind = "duplicate" =>
          prior # Nil /\ SampleValid(prior) /\ prior.time <= pending'.time
    <2>. SUFFICES ASSUME f # Nil, f.kind = "duplicate"
                  PROVE  prior # Nil /\ SampleValid(prior)
                         /\ prior.time <= pending'.time
      OBVIOUS
    <2>1. f.step \in Int /\ f.step >= 1 /\ f.step # 1
      BY <1>4, SMT DEF Fault, FaultValid
    <2>2. step > 0
      <3>1. step \in Nat /\ step' = step + 1 /\ f.step <= step'
        BY <1>1, <1>4
      <3>. HIDE SimulatorAssumption, ScheduleAssumption
      <3>. QED  BY <2>1, <3>1, SMT
    <2>3. simTime - Interval <= simTime
      BY <1>1, SMT
    <2>. QED  BY <1>1, <1>3, <2>2, <2>3
  <1>7. f # Nil /\ f.kind = "out_of_order" =>
          pending'.time + f.offset > 0 /\ f.eventID # pending'.id
    <2>. SUFFICES ASSUME f # Nil, f.kind = "out_of_order"
                  PROVE  pending'.time + f.offset > 0 /\ f.eventID # pending'.id
      OBVIOUS
    <2>1. PICK i \in DOMAIN faults : f = faults[i]
      BY <1>4
    <2>2. SimStart + f.offset > 0
      BY <1>1, <2>1 DEF LateEventsApart
    <2>3. f.offset \in Int
      BY <1>4, SMT DEF Fault
    <2>4. SimStart <= simTime
      <3>1. step * Interval \in Nat
        BY <1>1, SMT
      <3>. QED  BY <1>1, <3>1, SMT
    <2>5. simTime + f.offset > 0
      <3>1. SimStart \in Int /\ simTime \in Int
        BY <1>1
      <3>. QED  BY <2>2, <2>3, <2>4, <3>1, SumAbove
    <2>6. step \in 0 .. MaxSteps - 1
      BY <1>1, SMT
    <2>7. f.eventID # SimulatedEventID(SimStart + step * Interval)
      BY <1>1, <2>1, <2>6 DEF LateEventsApart
    <2>. QED  BY <1>1, <1>3, <2>5, <2>7
  <1>8. /\ delivered' \in ObservationEnvelope \cup {Nil}
        /\ delivered' = Nil <=> f # Nil /\ f.kind = "missing_heartbeat"
        /\ delivered' # Nil => EnvelopeValid(delivered')
        /\ f # Nil /\ Spoils(f) => ~TelemetryValid(delivered'.tel)
        /\ \/ f = Nil
           \/ f.kind \in {"delay", "duplicate", "out_of_order"} /\ ~Spoils(f)
           => TelemetryAcceptable(delivered')
        /\ f # Nil /\ f.kind = "out_of_order" =>
             /\ delivered'.tel.time < pending'.time
             /\ delivered'.tel.id # pending'.id
    <2>1. f \in Fault \cup {Nil}
      BY <1>4
    <2>. QED  BY <1>1, <1>3, <1>4, <1>5, <1>6, <1>7, <2>1, ObservationAsScheduled
  <1>9. SimTypeOK'
    BY <1>1, <1>2, <1>3, <1>8 DEF SimTypeOK
  <1>10. OneIntervalPerStep'
    <2>1. step' - 1 = step
      BY <1>1, SMT
    <2>. QED  BY <1>1, <1>2, <1>3, <2>1 DEF OneIntervalPerStep
  <1>11. DeliveredAsScheduled'
    BY <1>1, <1>8 DEF DeliveredAsScheduled, f
  <1>12. SamplesValid' /\ Schedule'
    BY <1>1, <1>3 DEF SamplesValid, Schedule
  <1>. QED  BY <1>2, <1>9, <1>10, <1>11, <1>12 DEF IInv

\* Complete: one interval passes whatever the command was.
LEMMA CompleteIInv ==
    ASSUME IInv, NEW c \in Commands \cup {Nil}, Complete(c)
    PROVE  IInv'
  <1>1. /\ step \in Nat /\ step > 0 /\ step' = step
        /\ simTime \in Nat \ {0} /\ simTime' = simTime + Interval
        /\ simTime = SimStart + (step - 1) * Interval
        /\ pending \in Sample /\ pending # Nil /\ pending' = Nil
        /\ prior' = pending /\ pending.time = simTime /\ SampleValid(pending)
        /\ faults' = faults /\ day' = day /\ dayEnd' = dayEnd
        /\ delivered' = delivered
    BY SMT DEF IInv, SimTypeOK, OneIntervalPerStep, SamplesValid, Schedule,
               Complete
  <1>2. soc' \in MinimumSOC .. MaximumSOC
    <2>1. BatteryPower(c) \in Int
      BY CommandsAssumption, SMT DEF BatteryPower
    <2>2. soc \in MinimumSOC .. MaximumSOC /\ soc' = NextBatterySOC(soc, BatteryPower(c))
      BY DEF IInv, SimTypeOK, Complete
    <2>. QED  BY <2>1, <2>2, BatteryLimits
  <1>3. SimTypeOK'
    <2>1. simTime' \in Nat \ {0}
      BY <1>1, SMT
    <2>. QED  BY <1>1, <1>2, <2>1 DEF IInv, SimTypeOK
  <1>4. OneIntervalPerStep'
    <2>1. simTime' = SimStart + step * Interval /\ simTime' - Interval = simTime
      <3>1. SimStart \in Int /\ step \in Int /\ simTime \in Int /\ Interval \in Nat
        BY <1>1
      <3>. QED  BY <1>1, <3>1, NextInstant
    <2>. QED  BY <1>1, <2>1 DEF OneIntervalPerStep
  <1>5. DeliveredAsScheduled'
    BY <1>1 DEF DeliveredAsScheduled
  <1>6. Calendar'
    BY <1>1 DEF IInv, Calendar
  <1>7. SamplesValid' /\ Schedule'
    BY <1>1 DEF IInv, SamplesValid, Schedule
  <1>. QED  BY <1>3, <1>4, <1>5, <1>6, <1>7 DEF IInv

\* It rests on the simulator's own variables alone.
LEMMA UnchangedIInv ==
    ASSUME IInv, UNCHANGED simVars
    PROVE  IInv'
  BY DEF simVars, IInv, SimTypeOK, OneIntervalPerStep, DeliveredAsScheduled,
     Calendar, SamplesValid, Schedule

\* The inductive invariant holds in every reachable state.
THEOREM Invariance == SimSpec => []IInv
  <1>1. IInv /\ [SimNext]_simVars => IInv'
    <2>. SUFFICES ASSUME IInv, [SimNext]_simVars PROVE IInv'
      OBVIOUS
    <2>1. CASE step < MaxSteps /\ NextObservation
      BY <2>1, NextObservationIInv
    <2>2. ASSUME NEW c \in Commands \cup {Nil}, Complete(c) PROVE IInv'
      BY <2>2, CompleteIInv
    <2>3. CASE UNCHANGED simVars
      BY <2>3, UnchangedIInv
    <2>. QED  BY <2>1, <2>2, <2>3 DEF SimNext
  <1>. QED  BY <1>1, InitIInv, PTL DEF SimSpec

(***************************************************************************)
(* The simulator's state keeps its types: the battery stays between empty  *)
(* and full whatever Complete is given, and every delivery is an envelope  *)
(* or none.                                                                *)
(***************************************************************************)
THEOREM SimulatorTypeOK == SimSpec => []SimTypeOK
  BY Invariance, PTL DEF IInv

(***************************************************************************)
(* NextObservation and Complete keep the timeline gapless, and every       *)
(* sample has the factors of its own day, for every length of day.         *)
(***************************************************************************)
THEOREM TimelineGapless == SimSpec => []OneIntervalPerStep
  BY Invariance, PTL DEF IInv

(***************************************************************************)
(* Whatever schedule passes FaultSchedule.Validate, a delivery is what its *)
(* fault is for.                                                           *)
(***************************************************************************)
THEOREM FaultsDoWhatTheySay == SimSpec => []DeliveredAsScheduled
  BY Invariance, PTL DEF IInv

=============================================================================
