-------------------------- MODULE ClosedLoopProofs --------------------------
(***************************************************************************)
(* The agent and its simulator together, proved for every configuration,   *)
(* length of run and pace, and any number of crashes and restarts, when no *)
(* faults are scheduled, as with the command line's own agent.             *)
(*                                                                         *)
(* Agent and simulator share nothing but their calls, and after a restart  *)
(* the simulator begins its timeline anew while the database remembers the *)
(* old one.  The proof places the simulator's clock on the durable         *)
(* history: up to the latest stored sample it replays what is stored       *)
(* (every event a duplicate, no command, the restored charge), one         *)
(* interval further it goes on, and it is never beyond that.               *)
(***************************************************************************)
EXTENDS ClosedLoop, EdgeAgentProofs

\* main.go configures no faults.
Faultless == Schedules = {<<>>}

Instants == {StartTime + k * Interval : k \in Nat}

SampleID(t) == Sim!SimulatedEventID(t)

(***************************************************************************)
(* The fields of the simulator, as long as nothing is injected.            *)
(***************************************************************************)
SimFields ==
    /\ faults = <<>>
    /\ simTime \in Instants
    /\ soc \in 0 .. MaximumSOC
    /\ day \in Nat \ {0}
    /\ step \in Nat

(***************************************************************************)
(* Who has the turn, and how the simulator's samples and the agent's       *)
(* intervals are counted.                                                  *)
(***************************************************************************)
Turns ==
    /\ pc \in {"restore", "check", "wait", "next", "write"} => pending = Nil
    /\ pc \in {"commit", "apply"} => pending # Nil
    /\ pc = "down" => count = 0
    /\ pc \in {"wait", "next"} => IntervalsLeft
    /\ simTime = StartTime + (IF pending = Nil THEN step ELSE step - 1) * Interval
    /\ MaxIntervals > 0 /\ pc # "down" =>
         step = IF pc \in {"commit", "apply", "write"} THEN count + 1 ELSE count

\* What is on its way to the commit is the sample of this interval.
SampleInFlight ==
    pc = "commit" =>
        /\ cur.class.telemetry # Nil
        /\ cur.class.telemetry.id = SampleID(simTime)
        /\ cur.class.telemetry.time = simTime
        /\ cur.class.telemetry.m.soc = soc
        /\ cur.recv = simTime

\* After the commit it is stored; a command means that it is the latest.
SampleStored ==
    pc = "apply" =>
        /\ latestRow # Nil
        /\ simTime <= latestRow.updatedAt
        /\ out.command # Nil =>
             /\ latestRow.updatedAt = simTime
             /\ out.telemetry.id = SampleID(simTime)
             /\ out.telemetry.m.soc = soc

(***************************************************************************)
(* The stored events of the timeline are those up to the latest state's.   *)
(***************************************************************************)
Ledger ==
    /\ latestRow # Nil =>
         /\ latestRow.updatedAt \in Instants
         /\ latestRow.lastEvent = SampleID(latestRow.updatedAt)
         /\ latestRow.m.soc \in 0 .. MaximumSOC
         /\ \A t \in Instants : t <= latestRow.updatedAt =>
              SampleID(t) \in EventIDs /\ events[SampleID(t)] # Nil
    /\ \A t \in Instants : SampleID(t) \in EventIDs /\ events[SampleID(t)] # Nil =>
         latestRow # Nil /\ t <= latestRow.updatedAt

(***************************************************************************)
(* The charges that may follow the one stored for t: the same again, or    *)
(* that one moved by the recorded command.                                 *)
(***************************************************************************)
Successors(t) ==
    {events[SampleID(t)].event.m.soc}
    \cup (IF commands[SampleID(t)] = Nil THEN {}
          ELSE {Sim!NextBatterySOC(events[SampleID(t)].event.m.soc,
                    Sim!BatteryPower(commands[SampleID(t)].command))})

(***************************************************************************)
(* Where the simulator is on the stored timeline, and what its battery     *)
(* then holds.                                                             *)
(***************************************************************************)
Place ==
    /\ latestRow = Nil => simTime = StartTime
    /\ latestRow # Nil =>
         /\ simTime <= latestRow.updatedAt + Interval
         /\ simTime <= latestRow.updatedAt => soc = latestRow.m.soc
         /\ simTime > latestRow.updatedAt => soc \in Successors(latestRow.updatedAt)

Charges ==
    \A t \in Instants :
        SampleID(t + Interval) \in EventIDs /\ events[SampleID(t + Interval)] # Nil =>
            events[SampleID(t + Interval)].event.m.soc \in Successors(t)

Reserve ==
    StartingSOC >= MinimumDischargeSOC =>
        /\ soc >= MinimumDischargeSOC
        /\ latestRow # Nil => latestRow.m.soc >= MinimumDischargeSOC

LoopIInv ==
    /\ IInv
    /\ SimFields
    /\ Turns
    /\ SampleInFlight
    /\ SampleStored
    /\ Ledger
    /\ Place
    /\ Charges
    /\ Reserve

(***************************************************************************)
(* Arithmetic of the timeline.                                             *)
(***************************************************************************)
LEMMA ProductIsNatural ==
    ASSUME NEW x \in Nat, NEW y \in Nat
    PROVE  x * y \in Nat
  BY SMT

LEMMA NextMultiple ==
    ASSUME NEW x \in Int, NEW k \in Int, NEW n \in Nat
    PROVE  /\ x + k * n + n = x + (k + 1) * n
           /\ x + (k - 1) * n + n = x + k * n
  BY SMT

LEMMA SumEquals ==
    ASSUME NEW x \in Int, NEW y \in Int, NEW n \in Int, x <= y + n, y + n <= x
    PROVE  x = y + n
  BY SMT

LEMMA MultiplesApart ==
    ASSUME NEW x \in Int, NEW j \in Nat, NEW k \in Nat, NEW n \in Nat \ {0},
           x + j * n < x + k * n
    PROVE  x + j * n + n <= x + k * n
  <1>1. j * n \in Int /\ k * n \in Int
    BY SMT
  <1>2. j * n < k * n
    BY <1>1, SMT
  <1>3. j < k
    <2>. SUFFICES ASSUME k <= j PROVE FALSE
      OBVIOUS
    <2>1. k * n <= j * n
      BY SMT
    <2>. QED  BY <1>1, <1>2, <2>1, SMT
  <1>4. (j + 1) * n <= k * n
    BY <1>3, SMT
  <1>. QED  BY <1>1, <1>4, NextMultiple, SMT

USE AgentAssumption, NilAssumption, NilRowAssumption, NilRunAssumption,
    IdentityAssumption, IntervalAssumption

\* Instants of the timeline are an interval apart, and none is before the start.
LEMMA InstantFacts ==
    ASSUME NEW t \in Instants
    PROVE  /\ t \in Nat \ {0}
           /\ t >= StartTime
           /\ t + Interval \in Instants
           /\ \A u \in Instants : t < u => t + Interval <= u
  <1>1. PICK k \in Nat : t = StartTime + k * Interval
    BY DEF Instants
  <1>2. k * Interval \in Nat
    BY ProductIsNatural
  <1>3. t \in Nat \ {0} /\ t >= StartTime
    <2>. DEFINE elapsed == k * Interval
    <2>. HIDE DEF elapsed
    <2>1. elapsed \in Nat /\ t = StartTime + elapsed
      BY <1>1, <1>2 DEF elapsed
    <2>. QED  BY <2>1, SMT
  <1>4. k + 1 \in Nat /\ t + Interval = StartTime + (k + 1) * Interval
    BY <1>1, NextMultiple
  <1>5. t + Interval \in Instants
    BY <1>4 DEF Instants
  <1>6. ASSUME NEW u \in Instants, t < u
        PROVE  t + Interval <= u
    <2>1. PICK j \in Nat : u = StartTime + j * Interval
      BY DEF Instants
    <2>. QED  BY <1>1, <1>6, <2>1, MultiplesApart
  <1>. QED  BY <1>3, <1>5, <1>6

LEMMA StartIsInstant == StartTime \in Instants
  <1>1. StartTime = StartTime + 0 * Interval
    BY SMT
  <1>. QED  BY <1>1 DEF Instants

\* Different instants have different event IDs.
LEMMA SampleIDInjective ==
    ASSUME NEW t, NEW u, SampleID(t) = SampleID(u)
    PROVE  t = u
  BY DEF SampleID, Sim!SimulatedEventID

(***************************************************************************)
(* What the simulator measures and delivers.                               *)
(***************************************************************************)
LEMMA MeasuredValid ==
    ASSUME NEW d \in Nat \ {0}, NEW time \in Nat, NEW charge \in 0 .. MaximumSOC
    PROVE  /\ Sim!Measured(d, time, charge) \in Measurements
           /\ MeasurementsValid(Sim!Measured(d, time, charge))
           /\ Sim!Measured(d, time, charge).soc = charge
  <1>1. ((d - 1) % Days) + 1 \in 1 .. Days
    BY ConfigAssumption, SMT DEF Sim!ConfigValid
  <1>2. Sim!SimulationDuration \in Nat \ {0}
    BY ConfigAssumption, SMT DEF Sim!ConfigValid, Sim!SimulationDuration
  <1>3. time % Sim!SimulationDuration \in 0 .. Sim!SimulationDuration - 1
    BY <1>2, SMT
  <1>4. Profiles[((d - 1) % Days) + 1][time % Sim!SimulationDuration]
          \in [pv: Nat, load: Nat, price: Nat \ {0}]
    BY <1>1, <1>3, ConfigAssumption DEF Sim!ConfigValid
  <1>. DEFINE profile ==
         Profiles[((d - 1) % Days) + 1][time % Sim!SimulationDuration]
  <1>5. Sim!Measured(d, time, charge) =
          [pv |-> profile.pv, load |-> profile.load, soc |-> charge,
           price |-> profile.price]
    BY Zenon DEF Sim!Measured
  <1>6. profile \in [pv: Nat, load: Nat, price: Nat \ {0}]
    BY <1>4
  <1>. HIDE DEF profile
  <1>. QED  BY <1>5, <1>6, SMT DEF Measurements, MeasurementsValid, MaximumSOC

\* A state made from an event has the event's measurements.
LEMMA AppliedToZero ==
    ASSUME NEW t \in Telemetry
    PROVE  ApplyTelemetry(ZeroState, t).m = t.m
  BY NewerReplaces DEF NotNewer, ZeroState

\* The battery stays within its limits and idles without a command.
LEMMA BatteryLimits ==
    ASSUME NEW charge \in 0 .. MaximumSOC
    PROVE  /\ \A power \in Int :
                Sim!NextBatterySOC(charge, power) \in 0 .. MaximumSOC
           /\ Sim!NextBatterySOC(charge, Sim!BatteryPower(Nil)) = charge
  BY SMT DEF Sim!NextBatterySOC, Sim!BatteryPower, Sim!MinimumSOC,
     Sim!MaximumSOC, MaximumSOC

\* A command of the policy moves the battery by a whole number of percent.
LEMMA PowerType ==
    ASSUME NEW c \in Command
    PROVE  Sim!BatteryPower(c) \in Int
  BY SMT DEF Sim!BatteryPower, Command

\* The policy's own command does not take the battery below the reserve.
LEMMA DecidedMove ==
    ASSUME NEW m \in Measurements, m.soc >= MinimumDischargeSOC
    PROVE  Sim!NextBatterySOC(m.soc, Sim!BatteryPower(Decide(m)))
             >= MinimumDischargeSOC
  <1>1. /\ Decide(m) \in Command
        /\ Decide(m).decision = "discharge" =>
             m.soc - Decide(m).power >= MinimumDischargeSOC
    BY DecideKeepsReserve
  <1>2. m.soc \in Int
    BY DEF Measurements
  <1>. QED  BY <1>1, <1>2, SMT DEF Sim!NextBatterySOC, Sim!BatteryPower,
            Sim!MinimumSOC, Sim!MaximumSOC, MinimumDischargeSOC, Command

\* No fault covers any step of an empty schedule.
LEMMA NoFaultAt ==
    ASSUME NEW n
    PROVE  Sim!FaultAt(<<>>, n) = Nil
  BY DEF Sim!FaultAt

\* At its turn the agent asks for a sample that has an event ID.
LEMMA TurnHasID ==
    ASSUME LoopIInv, pc = "next"
    PROVE  SampleID(simTime) \in EventIDs
  <1>1. CASE MaxIntervals = 0
    <2>1. PICK k \in Nat : simTime = StartTime + k * Interval
      BY DEF LoopIInv, SimFields, Instants
    <2>. QED  BY <1>1, <2>1, TimelineAssumption DEF Positions, SampleID
  <1>2. CASE MaxIntervals # 0
    <2>1. simTime = StartTime + step * Interval
      BY DEF LoopIInv, Turns
    <2>2. step = count /\ count < MaxIntervals /\ step \in Nat
      BY <1>2 DEF LoopIInv, Turns, IntervalsLeft, SimFields
    <2>3. step \in Positions
      BY <1>2, <2>2 DEF Positions
    <2>. QED  BY <2>1, <2>3, TimelineAssumption DEF SampleID
  <1>. QED  BY <1>1, <1>2

(***************************************************************************)
(* The observation of a turn: the sample of the simulator's present        *)
(* instant with its present charge, received at once, and valid.           *)
(***************************************************************************)
Delivery(e) ==
    /\ e \in ObservationEnvelope
    /\ EnvelopeValid(e) /\ e.avail /\ TelemetryAcceptable(e)
    /\ e.recv = simTime /\ e.tel # Nil
    /\ e.tel.id = SampleID(simTime)
    /\ e.tel.time = simTime
    /\ e.tel.m.soc = soc
    /\ OwnObservation(e)

LEMMA SenseDelivers ==
    ASSUME LoopIInv, pc = "next", Sim!NextObservation
    PROVE  /\ Delivery(delivered')
           /\ pending' # Nil
           /\ day' \in Nat \ {0}
           /\ delivered' = Sim!FullEnvelope(
                             [id |-> SampleID(simTime), time |-> simTime,
                              m |-> Sim!Measured(day', simTime, soc)], simTime)
  <1>. DEFINE m == Sim!Measured(day', simTime, soc)
              sample == [id |-> SampleID(simTime), time |-> simTime, m |-> m]
              tel == [id |-> SampleID(simTime), time |-> simTime, utc |-> TRUE,
                      device |-> DeviceID, m |-> m]
              e == [src |-> DeviceID, recv |-> simTime, utc |-> TRUE,
                    avail |-> TRUE, tel |-> tel]
  <1>1. /\ simTime \in Nat \ {0} /\ soc \in 0 .. MaximumSOC
        /\ day' \in Nat \ {0} /\ faults = <<>>
    BY InstantFacts DEF LoopIInv, SimFields, Sim!NextObservation
  <1>2. SampleID(simTime) \in EventIDs
    BY TurnHasID
  <1>3. m \in Measurements /\ MeasurementsValid(m) /\ m.soc = soc
    BY <1>1, MeasuredValid
  <1>4. pending' = sample
    BY DEF Sim!NextObservation, SampleID
  <1>5. delivered' = Sim!FullEnvelope(sample, simTime)
    <2>1. delivered' = Sim!Observation(Nil, sample, prior)
      BY <1>1, <1>4, NoFaultAt DEF Sim!NextObservation
    <2>. QED  BY <2>1 DEF Sim!Observation
  <1>6. delivered' = e
    BY <1>5, Zenon DEF Sim!FullEnvelope, Sim!EnvelopeOf
  <1>. HIDE DEF m
  <1>7. pending' # Nil
    <2>1. sample \in Sim!Sample
      BY <1>1, <1>2, <1>3, SMT DEF Sim!Sample, Sim!Measurements, Measurements
    <2>. QED  BY <1>4, <2>1, TimelineAssumption
  <1>8. m \in RawMeasurements
    BY <1>3, SMT DEF Measurements, RawMeasurements
  <1>9. tel \in RawTelemetry
    BY <1>1, <1>2, <1>8, SMT DEF RawTelemetry
  <1>10. e \in ObservationEnvelope
    BY <1>1, <1>9, SMT DEF ObservationEnvelope
  <1>11. tel # Nil /\ DeviceID # Nil /\ SampleID(simTime) # Nil
    BY <1>2, <1>9
  <1>12. TelemetryValid(tel)
    BY <1>1, <1>3, <1>11, SMT DEF TelemetryValid, ZeroTime
  <1>13. EnvelopeValid(e) /\ e.avail /\ TelemetryAcceptable(e)
    BY <1>1, <1>11, <1>12, SMT DEF EnvelopeValid, TelemetryAcceptable, ZeroTime
  <1>14. Delivery(e)
    BY <1>3, <1>10, <1>11, <1>13 DEF Delivery, OwnObservation
  <1>. QED  BY <1>1, <1>5, <1>6, <1>7, <1>14 DEF m

\* Such an observation is stored as it is, accepted or for history only.
LEMMA DeliveryIsKept ==
    ASSUME NEW e, Delivery(e), NEW s, NEW h, NEW at
    PROVE  /\ Classify(e, s, h, at).telemetry = e.tel
           /\ ReceivedAtOrNow(e, at) = e.recv
  <1>1. e \in ObservationEnvelope /\ EnvelopeValid(e) /\ e.avail
        /\ TelemetryAcceptable(e) /\ e # Nil
    BY DEF Delivery
  <1>2. Classify(e, s, h, at) \in {HistoryOnly(e, s, h), Accepted(e, s, h)}
    BY <1>1, Zenon DEF Classify, ClassifyTelemetry
  <1>3. HistoryOnly(e, s, h).telemetry = e.tel /\ Accepted(e, s, h).telemetry = e.tel
    BY SMT DEF HistoryOnly, Accepted, ClassifyResult
  <1>4. ReceivedAtOrNow(e, at) = e.recv
    BY <1>1, StoredEnvelope
  <1>. QED  BY <1>2, <1>3, <1>4

(***************************************************************************)
(* The four invariants of the stored timeline survive a step that leaves   *)
(* tables, clock and battery alone.                                        *)
(***************************************************************************)
LEMMA TimelineUntouched ==
    ASSUME LoopIInv, UNCHANGED <<dbVars, simTime, soc>>
    PROVE  Ledger' /\ Place' /\ Charges' /\ Reserve'
  BY DEF LoopIInv, dbVars, Ledger, Place, Charges, Reserve, Successors

LEMMA LoopInitIInv ==
    ASSUME Faultless
    PROVE  LoopInit => LoopIInv
  <1>. SUFFICES ASSUME LoopInit PROVE LoopIInv
    OBVIOUS
  <1>1. IInv /\ pc = "down" /\ count = 0 /\ latestRow = Nil
        /\ events = [id \in EventIDs |-> Nil]
    BY InitIInv DEF LoopInit, Init, DbInit
  <1>2. /\ faults = <<>> /\ simTime = StartTime /\ soc = StartingSOC /\ day = 1
        /\ step = 0 /\ pending = Nil
    BY DEF LoopInit, Sim!SimInit, Faultless
  <1>3. SimFields
    BY <1>2, StartIsInstant, ConfigAssumption
    DEF SimFields, Sim!ConfigValid, Sim!MinimumSOC, Sim!MaximumSOC, MaximumSOC
  <1>4. StartTime = StartTime + 0 * Interval
    BY SMT
  <1>5. Turns
    BY <1>1, <1>2, <1>4 DEF Turns
  <1>6. SampleInFlight /\ SampleStored
    BY <1>1 DEF SampleInFlight, SampleStored
  <1>7. Ledger /\ Place /\ Charges /\ Reserve
    BY <1>1, <1>2 DEF Ledger, Place, Charges, Reserve
  <1>. QED  BY <1>1, <1>3, <1>5, <1>6, <1>7 DEF LoopIInv

(***************************************************************************)
(* The agent's own steps: they end the run, or move it on without touching *)
(* the tables.                                                             *)
(***************************************************************************)
LEMMA FinishLoop ==
    ASSUME LoopIInv, IInv', NEW how, Finish(how), UNCHANGED <<dbVars, simVars>>
    PROVE  LoopIInv'
  <1>1. SimFields'
    BY DEF LoopIInv, SimFields, simVars
  <1>2. Turns'
    BY DEF LoopIInv, Turns, Finish, simVars
  <1>3. SampleInFlight' /\ SampleStored'
    BY DEF Finish, SampleInFlight, SampleStored
  <1>4. Ledger' /\ Place' /\ Charges' /\ Reserve'
    BY TimelineUntouched DEF simVars
  <1>. QED  BY <1>1, <1>2, <1>3, <1>4 DEF LoopIInv

LEMMA MoveLoop ==
    ASSUME LoopIInv, IInv', UNCHANGED <<dbVars, simVars>>,
           Restore \/ CheckNext \/ Tick \/ Write \/ Cancel
    PROVE  LoopIInv'
  <1>1. SimFields'
    BY DEF LoopIInv, SimFields, simVars
  <1>2. Turns'
    <2>1. CASE Restore
      BY <2>1 DEF LoopIInv, Turns, Restore, simVars
    <2>2. CASE CheckNext
      BY <2>2 DEF LoopIInv, Turns, CheckNext, simVars, memVars, IntervalsLeft
    <2>3. CASE Tick
      BY <2>3 DEF LoopIInv, Turns, Tick, simVars, memVars, IntervalsLeft
    <2>4. CASE Write
      BY <2>4 DEF LoopIInv, Turns, Write, simVars, IInv, TypeOK
    <2>5. CASE Cancel
      BY <2>5 DEF LoopIInv, Turns, Cancel, simVars, memVars, IntervalsLeft
    <2>. QED  BY <2>1, <2>2, <2>3, <2>4, <2>5
  <1>3. SampleInFlight' /\ SampleStored'
    BY DEF LoopIInv, SampleInFlight, SampleStored, Restore, CheckNext, Tick, Write,
       Cancel, simVars, memVars, dbVars
  <1>4. Ledger' /\ Place' /\ Charges' /\ Reserve'
    BY TimelineUntouched DEF simVars
  <1>. QED  BY <1>1, <1>2, <1>3, <1>4 DEF LoopIInv

(***************************************************************************)
(* A new simulator starts at the beginning of the stored timeline, with    *)
(* the charge of its end.                                                  *)
(***************************************************************************)
LEMMA StartLoop ==
    ASSUME LoopIInv, IInv', LoopStart
    PROVE  LoopIInv'
  <1>1. /\ simTime' = StartTime /\ soc' = RestoredSOC /\ day' = 1 /\ step' = 0
        /\ pending' = Nil /\ faults' = faults
        /\ pc' = "restore" /\ UNCHANGED <<dbVars, memVars>>
    BY DEF LoopStart, Start, Sim!New
  <1>2. latestRow \in State \cup {Nil} /\ (latestRow # Nil => healthRow # Nil)
    BY DEF LoopIInv, IInv, TypeOK, DbTypeOK, HealthPresent
  <1>3. RestoredSOC = IF latestRow = Nil THEN StartingSOC ELSE latestRow.m.soc
    BY <1>2 DEF RestoredSOC, SnapshotState, ZeroState, State
  <1>4. latestRow # Nil => latestRow.m.soc \in 0 .. MaximumSOC
    BY DEF LoopIInv, Ledger
  <1>5. SimFields'
    BY <1>1, <1>3, <1>4, StartIsInstant, ConfigAssumption
    DEF LoopIInv, SimFields, Sim!ConfigValid, Sim!MinimumSOC, Sim!MaximumSOC,
        MaximumSOC
  <1>6. Turns'
    <2>1. StartTime = StartTime + 0 * Interval
      BY SMT
    <2>2. count' = 0
      BY <1>1 DEF LoopIInv, Turns, LoopStart, Start, memVars
    <2>. QED  BY <1>1, <2>1, <2>2 DEF Turns
  <1>7. SampleInFlight' /\ SampleStored'
    BY <1>1 DEF SampleInFlight, SampleStored
  <1>8. Ledger' /\ Charges'
    BY <1>1 DEF LoopIInv, dbVars, Ledger, Charges, Successors
  <1>9. Place'
    <2>1. latestRow # Nil => latestRow.updatedAt \in Nat /\ StartTime <= latestRow.updatedAt
      BY InstantFacts DEF LoopIInv, Ledger
    <2>. QED  BY <1>1, <1>3, <2>1 DEF Place, dbVars
  <1>10. Reserve'
    BY <1>1, <1>3 DEF LoopIInv, Reserve, dbVars
  <1>. QED  BY <1>5, <1>6, <1>7, <1>8, <1>9, <1>10 DEF LoopIInv

\* A sample is taken; a panic of Classify would leave it pending, and down.
LEMMA SenseLoop ==
    ASSUME LoopIInv, Sense
    PROVE  LoopIInv'
  <1>1. /\ pc = "next" /\ Sim!NextObservation
        /\ Observe(delivered') \/ Panic(delivered')
    BY DEF Sense
  <1>2. /\ Delivery(delivered') /\ pending' # Nil /\ day' \in Nat \ {0}
    BY <1>1, SenseDelivers
  <1>3. delivered' \in ObservationEnvelope
    BY <1>2 DEF Delivery
  <1>4. IInv'
    <2>1. CASE Observe(delivered')
      BY <1>3, <2>1, ObserveIInv DEF LoopIInv
    <2>2. CASE Panic(delivered')
      BY <1>1, <2>2, FinishIInv DEF LoopIInv, Panic, Exits
    <2>. QED  BY <1>1, <2>1, <2>2
  <1>5. /\ simTime' = simTime /\ soc' = soc /\ faults' = faults
        /\ pending = Nil /\ step' = step + 1
    BY <1>1 DEF Sim!NextObservation
  <1>6. UNCHANGED dbVars
    BY <1>1 DEF Observe, Panic
  <1>7. SimFields'
    BY <1>2, <1>5 DEF LoopIInv, SimFields
  <1>8. Turns'
    <2>1. simTime = StartTime + step * Interval /\ step \in Nat
      BY <1>5 DEF LoopIInv, Turns, SimFields
    <2>2. step' - 1 = step
      BY <1>5, <2>1
    <2>3. simTime' = StartTime + (step' - 1) * Interval
      BY <1>5, <2>1, <2>2
    <2>4. CASE Observe(delivered')
      BY <1>1, <1>2, <1>5, <2>3, <2>4 DEF LoopIInv, Turns, Observe
    <2>5. CASE Panic(delivered')
      BY <1>2, <2>3, <2>5 DEF Turns, Panic, Finish
    <2>. QED  BY <1>1, <2>4, <2>5
  <1>9. SampleInFlight'
    <2>1. CASE Observe(delivered')
      <3>1. /\ cur'.class.telemetry = delivered'.tel
            /\ cur'.recv = delivered'.recv
        BY <1>2, <2>1, DeliveryIsKept DEF Observe
      <3>. QED  BY <1>2, <1>5, <3>1 DEF SampleInFlight, Delivery, SampleID
    <2>2. CASE Panic(delivered')
      BY <2>2 DEF SampleInFlight, Panic, Finish
    <2>. QED  BY <1>1, <2>1, <2>2
  <1>10. SampleStored'
    BY <1>1 DEF SampleStored, Observe, Panic, Finish
  <1>11. Ledger' /\ Place' /\ Charges' /\ Reserve'
    BY <1>5, <1>6, TimelineUntouched
  <1>. QED  BY <1>4, <1>7, <1>8, <1>9, <1>10, <1>11 DEF LoopIInv

\* A sample that is stored already lies on the stored timeline.
LEMMA DuplicateLoop ==
    ASSUME LoopIInv, IInv', CommitDuplicate, UNCHANGED simVars
    PROVE  LoopIInv'
  <1>1. SimFields' /\ Turns' /\ SampleInFlight'
    BY DEF LoopIInv, SimFields, Turns, SampleInFlight, CommitDuplicate, simVars
  <1>2. Ledger' /\ Place' /\ Charges' /\ Reserve'
    BY TimelineUntouched DEF CommitDuplicate, simVars
  <1>3. SampleStored'
    <2>. DEFINE r == ObservationResult(cur)
                tel == cur.class.telemetry
    <2>1. cur \in Current /\ ClassifiedAgainst(cur.class, cur.recv, state)
      BY DEF LoopIInv, IInv, TypeOK, Control, InFlight, CommitDuplicate
    <2>2. tel # Nil /\ tel.id = SampleID(simTime)
      BY DEF LoopIInv, SampleInFlight, CommitDuplicate
    <2>3. /\ tel \in Telemetry
          /\ r.telemetry = [event |-> tel, recv |-> cur.recv,
                            disposition |-> cur.class.disposition]
      BY <2>1, <2>2, ResultShape
    <2>4. events[r.telemetry.event.id] # Nil
      BY DEF CommitDuplicate, AlreadyStored
    <2>. HIDE DEF r
    <2>5. SampleID(simTime) \in EventIDs /\ events[SampleID(simTime)] # Nil
      BY <2>2, <2>3, <2>4 DEF Telemetry
    <2>6. latestRow # Nil /\ simTime <= latestRow.updatedAt
      BY <2>5 DEF LoopIInv, SimFields, Ledger
    <2>7. out'.command = Nil
      BY DEF CommitDuplicate
    <2>. QED  BY <2>6, <2>7 DEF SampleStored, CommitDuplicate, dbVars, simVars
  <1>. QED  BY <1>1, <1>2, <1>3 DEF LoopIInv

(***************************************************************************)
(* A sample that becomes durable is the first beyond the stored timeline:  *)
(* it extends the timeline by its interval and becomes the latest state.   *)
(***************************************************************************)
Extends ==
    /\ SampleID(simTime) \in EventIDs
    /\ latestRow # Nil => simTime = latestRow.updatedAt + Interval
    /\ latestRow = Nil => simTime = StartTime
    /\ latestRow' # Nil
    /\ latestRow'.updatedAt = simTime
    /\ latestRow'.lastEvent = SampleID(simTime)
    /\ latestRow'.m.soc = soc
    /\ events'[SampleID(simTime)] # Nil
    /\ events'[SampleID(simTime)].event.m.soc = soc
    /\ \A id \in EventIDs : id # SampleID(simTime) =>
         events'[id] = events[id] /\ commands'[id] = commands[id]
    /\ out'.command # Nil =>
         out'.telemetry.id = SampleID(simTime) /\ out'.telemetry.m.soc = soc

LEMMA StoredExtends ==
    ASSUME LoopIInv, CommitStored
    PROVE  Extends
  <1>. DEFINE tel == cur.class.telemetry
              st == cur.class.state
              rec == [event |-> tel, recv |-> cur.recv,
                      disposition |-> cur.class.disposition]
  <1>0. Stored(tel, st)
    BY StoredEffect DEF LoopIInv
  <1>1. /\ tel # Nil /\ tel.id = SampleID(simTime) /\ tel.time = simTime
        /\ tel.m.soc = soc
    BY DEF LoopIInv, SampleInFlight, CommitStored
  <1>2. out'.telemetry = tel
    BY DEF CommitStored
  <1>3. rec.event = tel
    OBVIOUS
  <1>. HIDE DEF tel, st, rec
  <1>4. /\ tel \in Telemetry /\ tel.id \in EventIDs /\ events[tel.id] = Nil
        /\ st = Nil => latestRow # Nil /\ tel.time <= latestRow.updatedAt
        /\ st # Nil => st.lastEvent = tel.id /\ st.updatedAt = tel.time /\ st.m = tel.m
        /\ events' = [events EXCEPT ![tel.id] = rec]
        /\ latestRow' = IF st # Nil THEN st ELSE latestRow
        /\ commands' = IF cur.command # Nil
                       THEN [commands EXCEPT ![tel.id] =
                               [command |-> cur.command, createdAt |-> cur.recv]]
                       ELSE commands
    BY <1>0, <1>1 DEF Stored, Telemetry, rec
  <1>5. simTime \in Instants
    BY DEF LoopIInv, SimFields
  <1>6. latestRow # Nil => latestRow.updatedAt < simTime
    <2>. SUFFICES ASSUME latestRow # Nil, ~(latestRow.updatedAt < simTime) PROVE FALSE
      OBVIOUS
    <2>1. latestRow.updatedAt \in Instants
      BY DEF LoopIInv, Ledger
    <2>2. simTime \in Nat /\ latestRow.updatedAt \in Nat
      BY <1>5, <2>1, InstantFacts
    <2>3. simTime <= latestRow.updatedAt
      BY <2>2
    <2>. QED  BY <1>1, <1>4, <1>5, <2>3 DEF LoopIInv, Ledger
  <1>7. st # Nil
    BY <1>1, <1>4, <1>5, <1>6, InstantFacts DEF LoopIInv, Ledger
  <1>8. latestRow # Nil => simTime = latestRow.updatedAt + Interval
    <2>. SUFFICES ASSUME latestRow # Nil PROVE simTime = latestRow.updatedAt + Interval
      OBVIOUS
    <2>1. latestRow.updatedAt \in Instants /\ simTime <= latestRow.updatedAt + Interval
      BY DEF LoopIInv, Ledger, Place
    <2>2. /\ simTime \in Nat /\ latestRow.updatedAt \in Nat
          /\ latestRow.updatedAt + Interval <= simTime
      BY <1>5, <1>6, <2>1, InstantFacts
    <2>. QED  BY <2>1, <2>2, SumEquals
  <1>9. latestRow = Nil => simTime = StartTime
    BY DEF LoopIInv, Place
  <1>10. events'[SampleID(simTime)] = rec /\ rec # Nil
    <2>1. events'[SampleID(simTime)] = rec
      BY <1>1, <1>4 DEF LoopIInv, IInv, TypeOK, DbTypeOK
    <2>2. rec \in TelemetryRecord
      BY <1>0, <1>1, <1>4 DEF Stored, rec, TelemetryRecord
    <2>. QED  BY <2>1, <2>2
  <1>11. \A id \in EventIDs : id # SampleID(simTime) =>
           events'[id] = events[id] /\ commands'[id] = commands[id]
    BY <1>1, <1>4 DEF LoopIInv, IInv, TypeOK, DbTypeOK
  <1>. QED  BY <1>1, <1>2, <1>3, <1>4, <1>7, <1>8, <1>9, <1>10, <1>11 DEF Extends

LEMMA StoredLoop ==
    ASSUME LoopIInv, IInv', CommitStored, UNCHANGED simVars
    PROVE  LoopIInv'
  <1>1. SimFields' /\ Turns' /\ SampleInFlight'
    BY DEF LoopIInv, SimFields, Turns, SampleInFlight, CommitStored, simVars
  <1>2. Extends /\ simTime' = simTime /\ soc' = soc
    BY StoredExtends DEF simVars
  <1>3. simTime \in Instants /\ soc \in 0 .. MaximumSOC
    BY DEF LoopIInv, SimFields
  <1>4. simTime \in Nat
    BY <1>3, InstantFacts
  <1>5. SampleStored'
    BY <1>2, <1>4 DEF Extends, SampleStored, SampleID
  <1>6. ASSUME NEW t \in Instants, t <= simTime, t # simTime
        PROVE  latestRow # Nil /\ t <= latestRow.updatedAt
    <2>1. t + Interval <= simTime /\ t \in Nat /\ t >= StartTime
      BY <1>3, <1>4, <1>6, InstantFacts
    <2>2. latestRow # Nil
      BY <1>2, <1>4, <2>1 DEF Extends
    <2>3. latestRow.updatedAt \in Nat
      BY <2>2, InstantFacts DEF LoopIInv, Ledger
    <2>. QED  BY <1>2, <2>1, <2>2, <2>3 DEF Extends
  <1>7. Ledger'
    <2>1. ASSUME NEW t \in Instants, t <= simTime
          PROVE  SampleID(t) \in EventIDs /\ events'[SampleID(t)] # Nil
      <3>1. CASE t = simTime
        BY <1>2, <3>1 DEF Extends
      <3>2. CASE t # simTime
        <4>1. SampleID(t) \in EventIDs /\ events[SampleID(t)] # Nil
          BY <1>6, <2>1, <3>2 DEF LoopIInv, Ledger
        <4>2. SampleID(t) # SampleID(simTime)
          BY <3>2, SampleIDInjective
        <4>. QED  BY <1>2, <4>1, <4>2 DEF Extends
      <3>. QED  BY <3>1, <3>2
    <2>2. ASSUME NEW t \in Instants, SampleID(t) \in EventIDs,
                 events'[SampleID(t)] # Nil
          PROVE  t <= simTime
      <3>1. CASE t = simTime
        BY <1>4, <3>1
      <3>2. CASE t # simTime
        <4>1. events[SampleID(t)] # Nil
          BY <1>2, <2>2, <3>2, SampleIDInjective DEF Extends
        <4>2. latestRow # Nil /\ t <= latestRow.updatedAt
              /\ latestRow.updatedAt \in Instants
          BY <2>2, <4>1 DEF LoopIInv, Ledger
        <4>3. t \in Nat /\ latestRow.updatedAt \in Nat
          BY <4>2, InstantFacts
        <4>. QED  BY <1>2, <1>4, <4>2, <4>3 DEF Extends
      <3>. QED  BY <3>1, <3>2
    <2>. QED  BY <1>2, <1>3, <2>1, <2>2 DEF Extends, Ledger, SampleID
  <1>8. Place'
    BY <1>2, <1>4 DEF Extends, Place
  <1>9. Charges'
    <2>. SUFFICES ASSUME NEW t \in Instants,
                         SampleID(t + Interval) \in EventIDs,
                         events'[SampleID(t + Interval)] # Nil
                  PROVE  events'[SampleID(t + Interval)].event.m.soc
                           \in Successors(t)'
      BY DEF Charges, SampleID
    <2>. DEFINE u == t + Interval
    <2>1. /\ u \in Instants /\ u # t /\ t < u
          /\ t \in Nat /\ u \in Nat /\ t >= StartTime
      BY InstantFacts
    <2>2. u <= simTime
      BY <1>2, <1>7, <2>1 DEF Ledger, Extends, SampleID
    <2>3. t <= simTime /\ t # simTime
      BY <1>4, <2>1, <2>2
    <2>4. latestRow # Nil /\ t <= latestRow.updatedAt
      BY <1>6, <2>3
    <2>5. SampleID(t) \in EventIDs /\ SampleID(t) # SampleID(simTime)
      BY <2>3, <2>4, SampleIDInjective DEF LoopIInv, Ledger
    <2>6. Successors(t)' = Successors(t)
      BY <1>2, <2>5 DEF Extends, Successors, SampleID
    <2>7. CASE u = simTime
      <3>1. t = latestRow.updatedAt
        BY <1>2, <2>1, <2>4, <2>7, InstantFacts DEF Extends, LoopIInv, Ledger
      <3>2. soc \in Successors(t)
        BY <1>2, <2>1, <2>3, <2>4, <3>1 DEF LoopIInv, Place, Extends
      <3>. QED  BY <1>2, <2>6, <2>7, <3>2 DEF Extends
    <2>8. CASE u # simTime
      <3>1. SampleID(u) # SampleID(simTime)
        BY <2>8, SampleIDInjective
      <3>2. events'[SampleID(u)] = events[SampleID(u)]
        BY <1>2, <3>1 DEF Extends
      <3>3. events[SampleID(u)].event.m.soc \in Successors(t)
        BY <3>2 DEF LoopIInv, Charges
      <3>. QED  BY <2>6, <3>2, <3>3
    <2>. QED  BY <2>7, <2>8
  <1>10. Reserve'
    BY <1>2 DEF LoopIInv, Reserve, Extends
  <1>. QED  BY <1>1, <1>5, <1>7, <1>8, <1>9, <1>10 DEF LoopIInv

(***************************************************************************)
(* The battery is moved by the command that was recorded for the charge it *)
(* has, or not at all, and the clock passes on to the next sample.         *)
(***************************************************************************)
LEMMA ActuateLoop ==
    ASSUME LoopIInv, Actuate
    PROVE  LoopIInv'
  <1>1. /\ pc = "apply" /\ pc' = "write" /\ pending # Nil /\ pending' = Nil
        /\ soc' = Sim!NextBatterySOC(soc, Sim!BatteryPower(out.command))
        /\ simTime' = simTime + Interval
        /\ UNCHANGED <<day, step, faults, dbVars, memVars>>
    BY DEF Actuate, Apply, Sim!Complete
  <1>2. IInv'
    BY ApplyIInv DEF LoopIInv, Actuate
  <1>3. /\ simTime \in Instants /\ soc \in 0 .. MaximumSOC
        /\ simTime \in Nat /\ simTime' \in Instants
    BY <1>1, InstantFacts DEF LoopIInv, SimFields
  <1>4. /\ latestRow # Nil /\ simTime <= latestRow.updatedAt
        /\ latestRow.updatedAt \in Instants
        /\ latestRow.updatedAt \in Nat
        /\ soc = latestRow.m.soc
        /\ latestRow.lastEvent = SampleID(latestRow.updatedAt)
        /\ SampleID(latestRow.updatedAt) \in EventIDs
    <2>1. latestRow # Nil /\ simTime <= latestRow.updatedAt
      BY <1>1 DEF LoopIInv, SampleStored
    <2>2. /\ latestRow.updatedAt \in Instants /\ latestRow.updatedAt \in Nat
          /\ latestRow.lastEvent = SampleID(latestRow.updatedAt)
      BY <2>1, InstantFacts DEF LoopIInv, Ledger
    <2>3. SampleID(latestRow.updatedAt) \in EventIDs
      BY <2>1, <2>2 DEF LoopIInv, Ledger
    <2>4. soc = latestRow.m.soc
      BY <2>1 DEF LoopIInv, Place
    <2>. QED  BY <2>1, <2>2, <2>3, <2>4
  <1>. DEFINE row == events[SampleID(latestRow.updatedAt)]
              com == commands[SampleID(latestRow.updatedAt)]
  <1>5. /\ row # Nil /\ row.event \in Telemetry /\ row.event.m \in Measurements
        /\ row.event.m = latestRow.m
    <2>1. row # Nil /\ latestRow = ApplyTelemetry(ZeroState, row.event)
      BY <1>4 DEF LoopIInv, IInv, LatestIsNewest
    <2>2. row \in TelemetryRecord
      BY <1>4, <2>1 DEF LoopIInv, IInv, TypeOK, DbTypeOK
    <2>3. row.event \in Telemetry
      BY <2>2 DEF TelemetryRecord
    <2>4. ApplyTelemetry(ZeroState, row.event).m = row.event.m
      BY <2>3, AppliedToZero
    <2>. QED  BY <2>1, <2>3, <2>4 DEF Telemetry
  <1>6. ASSUME out.command # Nil
        PROVE  /\ simTime = latestRow.updatedAt
               /\ com # Nil /\ com.command = out.command
               /\ out.command = Decide(row.event.m)
               /\ out.command \in Command
    <2>1. /\ simTime = latestRow.updatedAt
          /\ out.telemetry.id = SampleID(simTime)
      BY <1>1, <1>6 DEF LoopIInv, SampleStored
    <2>2. com # Nil /\ com.command = out.command
      BY <1>1, <1>6, <2>1 DEF LoopIInv, IInv, Report
    <2>3. com = [command |-> Decide(row.event.m), createdAt |-> row.recv]
      BY <1>4, <2>2 DEF LoopIInv, IInv, CommandsTraceable
    <2>. QED  BY <1>5, <2>1, <2>2, <2>3, DecideKeepsReserve
  <1>7. soc' \in {soc} \cup (IF com = Nil THEN {}
                             ELSE {Sim!NextBatterySOC(soc, Sim!BatteryPower(com.command))})
    BY <1>1, <1>3, <1>6, BatteryLimits
  <1>8. soc' \in 0 .. MaximumSOC
    <2>1. CASE out.command = Nil
      BY <1>1, <1>3, <2>1, BatteryLimits
    <2>2. CASE out.command # Nil
      BY <1>1, <1>3, <1>6, <2>2, BatteryLimits, PowerType
    <2>. QED  BY <2>1, <2>2
  <1>9. SimFields'
    BY <1>1, <1>3, <1>8 DEF LoopIInv, SimFields
  <1>10. Turns'
    <2>1. simTime = StartTime + (step - 1) * Interval /\ step \in Nat
      BY <1>1 DEF LoopIInv, Turns, SimFields
    <2>2. simTime' = StartTime + step * Interval
      BY <1>1, <2>1, NextMultiple
    <2>. QED  BY <1>1, <2>2 DEF LoopIInv, Turns, memVars
  <1>11. SampleInFlight' /\ SampleStored'
    BY <1>1 DEF SampleInFlight, SampleStored
  <1>12. Ledger' /\ Charges'
    BY <1>1 DEF LoopIInv, dbVars, Ledger, Charges, Successors
  <1>13. Place'
    <2>1. latestRow' = latestRow /\ Successors(latestRow.updatedAt)' =
                                      Successors(latestRow.updatedAt)
      BY <1>1 DEF dbVars, Successors
    <2>2. simTime' <= latestRow.updatedAt + Interval
      BY <1>1, <1>3, <1>4
    <2>3. simTime' <= latestRow.updatedAt => soc' = latestRow.m.soc
      <3>1. simTime' <= latestRow.updatedAt => out.command = Nil
        BY <1>1, <1>3, <1>6
      <3>. QED  BY <1>1, <1>3, <1>4, <3>1, BatteryLimits
    <2>4. soc' \in Successors(latestRow.updatedAt)
      BY <1>4, <1>5, <1>7 DEF Successors
    <2>. QED  BY <1>4, <2>1, <2>2, <2>3, <2>4 DEF Place
  <1>14. Reserve'
    <2>1. CASE out.command = Nil
      BY <1>1, <1>3, <2>1, BatteryLimits DEF LoopIInv, Reserve, dbVars
    <2>2. CASE out.command # Nil
      <3>1. StartingSOC >= MinimumDischargeSOC => soc >= MinimumDischargeSOC
        BY DEF LoopIInv, Reserve
      <3>2. soc = row.event.m.soc
        BY <1>4, <1>5
      <3>3. soc >= MinimumDischargeSOC => soc' >= MinimumDischargeSOC
        BY <1>1, <1>5, <1>6, <2>2, <3>2, DecidedMove
      <3>. QED  BY <1>1, <3>1, <3>3 DEF LoopIInv, Reserve, dbVars
    <2>. QED  BY <2>1, <2>2
  <1>. QED  BY <1>2, <1>9, <1>10, <1>11, <1>12, <1>13, <1>14 DEF LoopIInv

(***************************************************************************)
(* Every step of the loop keeps the invariant.  All but the taking of a    *)
(* sample are steps of the agent whatever its source can deliver.          *)
(***************************************************************************)
LEMMA LoopNextIInv == LoopIInv /\ [LoopNext]_loopVars => LoopIInv'
  <1>. SUFFICES ASSUME LoopIInv, [LoopNext]_loopVars PROVE LoopIInv'
    OBVIOUS
  <1>0. IInv
    BY DEF LoopIInv
  <1>1. CASE LoopStart
    <2>1. IInv'
      BY <1>0, <1>1, NextIInv DEF LoopStart, Next
    <2>. QED  BY <1>1, <2>1, StartLoop
  <1>2. CASE Sense
    BY <1>2, SenseLoop
  <1>3. CASE Actuate
    BY <1>3, ActuateLoop
  <1>4. CASE (AgentStep \/ Tick \/ Cancel \/ Crash) /\ UNCHANGED simVars
    <2>1. IInv'
      <3>1. Next
        BY <1>4 DEF AgentStep, Next, Step
      <3>. QED  BY <1>0, <3>1, NextIInv
    <2>2. CASE Restore \/ CheckNext \/ Tick \/ Write \/ Cancel
      <3>1. UNCHANGED dbVars
        BY <2>2 DEF Restore, CheckNext, Tick, Write, Cancel
      <3>. QED  BY <1>4, <2>1, <2>2, <3>1, MoveLoop
    <2>3. CASE CommitDuplicate
      BY <1>4, <2>1, <2>3, DuplicateLoop
    <2>4. CASE CommitStored
      BY <1>4, <2>1, <2>4, StoredLoop
    <2>5. CASE \/ RestoreCancelled \/ RestoreFails
              \/ CheckDone \/ CheckCancelled \/ WaitCancelled
              \/ CommitRefused \/ CommitFails \/ CommitTimesOut
              \/ WriteFails \/ Crash
      <3>1. UNCHANGED dbVars /\ \E how \in Exits : Finish(how)
        BY <2>5 DEF RestoreCancelled, RestoreFails, CheckDone, CheckCancelled,
           WaitCancelled, CommitRefused, CommitFails, CommitTimesOut, WriteFails,
           Crash, Exits
      <3>. QED  BY <1>4, <2>1, <3>1, FinishLoop
    <2>. QED  BY <1>4, <2>2, <2>3, <2>4, <2>5 DEF AgentStep, Commit
  <1>5. CASE UNCHANGED loopVars
    <2>1. UNCHANGED <<vars, simVars>>
      BY <1>5 DEF loopVars
    <2>2. IInv'
      BY <1>0, <2>1, NextIInv
    <2>3. /\ UNCHANGED <<dbVars, memVars, pc>>
          /\ UNCHANGED <<simTime, soc, day, pending, step, faults>>
      BY <2>1 DEF vars, simVars
    <2>4. SimFields' /\ Turns' /\ SampleInFlight' /\ SampleStored'
      BY <2>3 DEF LoopIInv, SimFields, Turns, SampleInFlight, SampleStored,
         memVars, dbVars, IntervalsLeft
    <2>5. Ledger' /\ Place' /\ Charges' /\ Reserve'
      BY <2>3, TimelineUntouched
    <2>. QED  BY <2>2, <2>4, <2>5 DEF LoopIInv
  <1>. QED  BY <1>1, <1>2, <1>3, <1>4, <1>5 DEF LoopNext, LoopStep

(***************************************************************************)
(* The theorems.                                                           *)
(***************************************************************************)
\* The invariant holds in every reachable state of the faultless loop.
THEOREM LoopInvariance ==
    ASSUME Faultless
    PROVE  LoopSpec => []LoopIInv
  BY LoopInitIInv, LoopNextIInv, PTL DEF LoopSpec

(***************************************************************************)
(* The agent and the simulator keep each other's protocol (NextObservation *)
(* and Complete never return their errors), whatever fails or is killed.   *)
(***************************************************************************)
THEOREM ProtocolKept ==
    ASSUME Faultless
    PROVE  LoopSpec => []SimulatorNeverRefuses
  <1>1. LoopIInv => SimulatorNeverRefuses
    <2>. SUFFICES ASSUME LoopIInv PROVE SimulatorNeverRefuses
      OBVIOUS
    <2>1. ASSUME pc = "apply", out.command # Nil
          PROVE  CommandValid(out.command)
      <3>. DEFINE id == out.telemetry.id
      <3>1. /\ out \in Outcome /\ out.telemetry # Nil
            /\ commands[id] # Nil /\ commands[id].command = out.command
        BY <2>1 DEF LoopIInv, IInv, TypeOK, Control, Report
      <3>2. id \in EventIDs
        BY <3>1 DEF Outcome, Telemetry
      <3>3. /\ events[id] # Nil
            /\ commands[id] = [command |-> Decide(events[id].event.m),
                               createdAt |-> events[id].recv]
        BY <3>1, <3>2 DEF LoopIInv, IInv, CommandsTraceable
      <3>4. events[id] \in TelemetryRecord
        BY <3>2, <3>3 DEF LoopIInv, IInv, TypeOK, DbTypeOK
      <3>5. events[id].event.m \in Measurements
        BY <3>4 DEF TelemetryRecord, Telemetry
      <3>6. out.command = Decide(events[id].event.m)
        BY <3>1, <3>3
      <3>. QED  BY <3>5, <3>6, DecideKeepsReserve
    <2>. QED  BY <2>1 DEF SimulatorNeverRefuses, LoopIInv, Turns
  <1>. QED  BY <1>1, LoopInvariance, PTL

(***************************************************************************)
(* A command is applied to the battery it was decided for: its charge is   *)
(* still the measured one.                                                 *)
(***************************************************************************)
THEOREM CommandsFit ==
    ASSUME Faultless
    PROVE  LoopSpec => []CommandsFitBattery
  <1>1. LoopIInv => CommandsFitBattery
    BY DEF LoopIInv, SampleStored, CommandsFitBattery
  <1>. QED  BY <1>1, LoopInvariance, PTL

(***************************************************************************)
(* The battery never falls below the policy's reserve, over any number of  *)
(* restarts, each of which restores an older charge.                       *)
(***************************************************************************)
THEOREM ReserveIsKept ==
    ASSUME Faultless
    PROVE  LoopSpec => []ReserveKept
  <1>1. LoopIInv => ReserveKept
    BY DEF LoopIInv, Reserve, ReserveKept
  <1>. QED  BY <1>1, LoopInvariance, PTL

(***************************************************************************)
(* The durable history is one gapless run of the simulated timeline,       *)
(* although every restart begins that timeline anew.                       *)
(***************************************************************************)
THEOREM HistoryGapless ==
    ASSUME Faultless
    PROVE  LoopSpec => []HistoryHasNoGap
  <1>1. LoopIInv => HistoryHasNoGap
    <2>. SUFFICES ASSUME LoopIInv, NEW k \in 0 .. MaxIntervals,
                         Sim!SimulatedEventID(StartTime + k * Interval) \in EventIDs
                  PROVE  events[Sim!SimulatedEventID(StartTime + k * Interval)] # Nil
                           <=> /\ latestRow # Nil
                               /\ StartTime + k * Interval <= latestRow.updatedAt
      BY DEF HistoryHasNoGap
    <2>1. StartTime + k * Interval \in Instants
      BY DEF Instants
    <2>. QED  BY <2>1 DEF LoopIInv, Ledger, SampleID
  <1>. QED  BY <1>1, LoopInvariance, PTL

(***************************************************************************)
(* Each stored charge is the one before it, moved by its recorded command  *)
(* or, where the process ended in between, not moved.                      *)
(***************************************************************************)
THEOREM ChargesExplained ==
    ASSUME Faultless
    PROVE  LoopSpec => []ChargeHistoryExplained
  <1>1. LoopIInv => ChargeHistoryExplained
    <2>. SUFFICES ASSUME LoopIInv, NEW k \in 0 .. MaxIntervals,
                         Sim!SimulatedEventID(StartTime + k * Interval + Interval)
                           \in EventIDs,
                         events[Sim!SimulatedEventID(StartTime + k * Interval
                                                     + Interval)] # Nil
                  PROVE  events[Sim!SimulatedEventID(StartTime + k * Interval
                                                     + Interval)].event.m.soc
                           \in Successors(StartTime + k * Interval)
      BY DEF ChargeHistoryExplained, Successors, SampleID
    <2>1. StartTime + k * Interval \in Instants
      BY DEF Instants
    <2>. QED  BY <2>1 DEF LoopIInv, Charges, SampleID
  <1>. QED  BY <1>1, LoopInvariance, PTL

(***************************************************************************)
(* The source of AgentSpec can deliver the simulator's observations: every *)
(* sample of the timeline, on any day's factors and at any charge.         *)
(***************************************************************************)
SimulatorEnvelopes ==
    \A t \in Instants, d \in Nat \ {0}, charge \in 0 .. MaximumSOC :
        SampleID(t) \in EventIDs =>
            Sim!FullEnvelope([id |-> SampleID(t), time |-> t,
                              m |-> Sim!Measured(d, t, charge)], t) \in Envelopes

(***************************************************************************)
(* The agent with the simulator is an agent with a source: whatever is     *)
(* proved of EdgeAgent holds of what processTelemetry in main.go builds.   *)
(***************************************************************************)
THEOREM LoopIsAgent ==
    ASSUME Faultless, SimulatorEnvelopes
    PROVE  LoopSpec => AgentSpec
  <1>1. LoopInit => Init
    BY DEF LoopInit
  <1>2. LoopIInv /\ [LoopNext]_loopVars => [Next]_vars
    <2>. SUFFICES ASSUME LoopIInv, [LoopNext]_loopVars PROVE [Next]_vars
      OBVIOUS
    <2>1. CASE Sense
      <3>1. /\ pc = "next" /\ Sim!NextObservation
            /\ Observe(delivered') \/ Panic(delivered')
        BY <2>1 DEF Sense
      <3>2. /\ day' \in Nat \ {0}
            /\ delivered' = Sim!FullEnvelope(
                              [id |-> SampleID(simTime), time |-> simTime,
                               m |-> Sim!Measured(day', simTime, soc)], simTime)
        BY <3>1, SenseDelivers
      <3>3. /\ simTime \in Instants /\ soc \in 0 .. MaximumSOC
            /\ SampleID(simTime) \in EventIDs
        BY <3>1, TurnHasID DEF LoopIInv, SimFields
      <3>4. delivered' \in Envelopes
        BY <3>2, <3>3 DEF SimulatorEnvelopes
      <3>5. Receive
        BY <3>1, <3>4 DEF Receive
      <3>. QED  BY <3>5 DEF Next, Step
    <2>2. CASE Actuate
      BY <2>2 DEF Actuate, Next, Step
    <2>3. CASE LoopStart
      BY <2>3 DEF LoopStart, Next
    <2>4. CASE AgentStep \/ Tick \/ Cancel \/ Crash
      BY <2>4 DEF AgentStep, Next, Step
    <2>5. CASE UNCHANGED loopVars
      BY <2>5 DEF loopVars
    <2>. QED  BY <2>1, <2>2, <2>3, <2>4, <2>5 DEF LoopNext, LoopStep
  <1>. QED  BY <1>1, <1>2, LoopInvariance, PTL DEF LoopSpec, AgentSpec, Spec

(***************************************************************************)
(* The simulator keeps to SourceContract, so with the command line's agent *)
(* no observation ends a run: neither validation refuses one, and Classify *)
(* does not panic.                                                         *)
(***************************************************************************)
THEOREM LoopNeverRefuses ==
    ASSUME Faultless
    PROVE  LoopSpec => []ObservationNeverEndsRun
  <1>. DEFINE Inv == OwnDataOnly /\ OwnInFlight /\ ObservationNeverEndsRun
  <1>1. LoopInit => Inv
    BY DEF LoopInit, Init, DbInit, OwnDataOnly, OwnInFlight,
       ObservationNeverEndsRun, Exits
  <1>2. LoopIInv /\ Inv /\ [LoopNext]_loopVars => Inv'
    <2>. SUFFICES ASSUME LoopIInv, OwnDataOnly, OwnInFlight,
                         ObservationNeverEndsRun, [LoopNext]_loopVars
                  PROVE  OwnDataOnly' /\ OwnInFlight' /\ ObservationNeverEndsRun'
      OBVIOUS
    <2>0. IInv
      BY DEF LoopIInv
    <2>1. CASE Sense
      <3>1. /\ pc = "next" /\ Sim!NextObservation
            /\ Observe(delivered') \/ Panic(delivered')
        BY <2>1 DEF Sense
      <3>2. delivered' \in ObservationEnvelope /\ OwnObservation(delivered')
        BY <3>1, SenseDelivers DEF Delivery
      <3>3. Observe(delivered')
        BY <2>0, <3>1, <3>2, OwnNeverPanics
      <3>4. OwnDataOnly'
        BY <3>3 DEF Observe, dbVars, OwnDataOnly
      <3>. QED  BY <3>2, <3>3, <3>4, ObserveOwn
    <2>2. CASE ~Sense
      <3>1. [Next]_vars /\ NoDelivery
        BY <2>2 DEF LoopNext, LoopStep, LoopStart, Actuate, AgentStep, loopVars,
           vars, Next, Step, NoDelivery
      <3>. QED  BY <2>0, <3>1, OwnDataStep, OtherStepsOwn
    <2>. QED  BY <2>1, <2>2
  <1>. QED  BY <1>1, <1>2, LoopInvariance, PTL DEF LoopSpec

=============================================================================
