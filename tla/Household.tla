------------------------------ MODULE Household ------------------------------
(***************************************************************************)
(* The domain model of one household (internal/household): observations,   *)
(* their validation, the classification of one interval's observation, the *)
(* device health that follows from it, and the battery policy.  Everything *)
(* here is a pure function of its arguments, as it is in the code.         *)
(*                                                                         *)
(* Abstractions of the data:                                               *)
(*  - an instant is a natural number; 0 is Go's zero time.  Only two       *)
(*    places of the code look at the location of a time, so an envelope    *)
(*    and a telemetry event carry a flag that says theirs is UTC;          *)
(*  - a blank identity and a padded event ID are Nil, as is a nil pointer; *)
(*  - a measurement that is absent, NaN or infinite is NoValue;            *)
(*  - power is counted in the unit that moves the state of charge by one   *)
(*    percent in one interval, price in euro cents per kWh, so that the    *)
(*    policy's real arithmetic becomes integer arithmetic;                 *)
(*  - the reason texts are left out.                                       *)
(***************************************************************************)
EXTENDS Integers

CONSTANTS
    EventIDs,   \* well-formed event IDs
    Devices,    \* well-formed device IDs
    NoValue,    \* a measurement that is absent or not finite
    Nil,        \* a nil pointer, a blank identity or a padded event ID
    Interval    \* the telemetry interval

ASSUME IntervalAssumption == Interval \in Nat \ {0}

ASSUME IdentityAssumption == Nil \notin EventIDs /\ Nil \notin Devices

ASSUME NoValueAssumption == NoValue \notin Int

ZeroTime == 0

(***************************************************************************)
(* Values of the domain.                                                   *)
(***************************************************************************)
Statuses == {"online", "stale", "offline", "invalid"}

Dispositions == {"accepted", "history_only", "duplicate", "rejected",
                 "missing", "unavailable"}

Decisions == {"charge", "discharge", "idle"}

Measurements == [pv: Int, load: Int, soc: Int, price: Int]

RawMeasurements == [pv: Int \cup {NoValue}, load: Int \cup {NoValue},
                    soc: Int \cup {NoValue}, price: Int \cup {NoValue}]

RawTelemetry == [id: EventIDs \cup {Nil}, time: Nat, utc: BOOLEAN,
                 device: Devices \cup {Nil}, m: RawMeasurements]

ObservationEnvelope == [src: Devices \cup {Nil}, recv: Nat, utc: BOOLEAN,
                        tel: RawTelemetry \cup {Nil}, avail: BOOLEAN]

Telemetry == [id: EventIDs, time: Nat \ {0}, utc: BOOLEAN,
              device: Devices, m: Measurements]

State == [lastEvent: EventIDs, device: Devices, updatedAt: Nat \ {0},
          m: Measurements]

ZeroState == [lastEvent |-> Nil, device |-> Nil, updatedAt |-> ZeroTime,
              m |-> [pv |-> 0, load |-> 0, soc |-> 0, price |-> 0]]

DeviceHealth == [status: Statuses, transition: Nat \ {0}, contact: Nat]

ZeroHealth == [status |-> Nil, transition |-> ZeroTime, contact |-> ZeroTime]

Command == [decision: Decisions, power: Nat]

Classification ==
    [disposition: Dispositions, telemetry: Telemetry \cup {Nil},
     state: State \cup {Nil}, suppress: BOOLEAN, health: DeviceHealth]

(***************************************************************************)
(* nil is none of the values a pointer of the code refers to.              *)
(***************************************************************************)
ASSUME NilAssumption ==
    /\ Nil \notin ObservationEnvelope
    /\ Nil \notin RawTelemetry
    /\ Nil \notin Telemetry
    /\ Nil \notin State
    /\ Nil \notin DeviceHealth
    /\ Nil \notin Command
    /\ Nil \notin Statuses
    /\ Nil \notin Decisions

(***************************************************************************)
(* Validation.  RawTelemetry.Validate fails on the first absent            *)
(* measurement and then on the first value out of range; either way the    *)
(* event is unusable.                                                      *)
(***************************************************************************)
MaximumSOC == 100

MeasurementsValid(m) ==
    /\ m.pv \in Int    /\ m.pv >= 0
    /\ m.load \in Int  /\ m.load >= 0
    /\ m.soc \in Int   /\ m.soc >= 0 /\ m.soc <= MaximumSOC
    /\ m.price \in Int /\ m.price > 0

TelemetryValid(t) ==
    /\ t.id # Nil
    /\ t.time # ZeroTime
    /\ t.device # Nil
    /\ MeasurementsValid(t.m)

EnvelopeValid(e) ==
    /\ e.src # Nil
    /\ e.recv # ZeroTime
    /\ e.utc
    /\ e.avail <=> e.tel # Nil

\* Mutant: the envelope's receive time is trusted whatever it is.
ReceivedAtOrNow_Trusting(e, now) == IF e = Nil THEN now ELSE e.recv

(***************************************************************************)
(* The receive time of a well-formed envelope; the runtime's own time when *)
(* there is no envelope or its receive time cannot be trusted.             *)
(***************************************************************************)
ReceivedAtOrNow(e, now) ==
    IF e = Nil \/ e.recv = ZeroTime \/ ~e.utc THEN now ELSE e.recv

(***************************************************************************)
(* State.ApplyTelemetry: it fails for an invalid event or one of another   *)
(* device, ignores an event that is not strictly newer, and otherwise      *)
(* replaces every field of the state.                                      *)
(***************************************************************************)
ApplyTelemetryFails(s, t) ==
    \/ ~TelemetryValid(t)
    \/ s.device # Nil /\ t.device # s.device

NotNewer(s, t) == s.updatedAt # ZeroTime /\ t.time <= s.updatedAt

\* Mutant: the last event ID of a state that has one is not replaced.
ApplyTelemetry_KeepsEvent(s, t) ==
    IF NotNewer(s, t) THEN s
    ELSE [lastEvent |-> IF s.lastEvent = Nil THEN t.id ELSE s.lastEvent,
          device |-> t.device, updatedAt |-> t.time, m |-> t.m]

ApplyTelemetry(s, t) ==
    IF NotNewer(s, t) THEN s
    ELSE [lastEvent |-> t.id, device |-> t.device, updatedAt |-> t.time,
          m |-> t.m]

(***************************************************************************)
(* Device health.  The thresholds are the defaults NewHealthPolicy derives *)
(* from the interval, the only ones the runtime ever asks for.             *)
(***************************************************************************)
StaleAfter == 2 * Interval

OfflineAfter == 3 * Interval

\* Mutant: the transition time is stamped at every observation.
TransitionHealth_Restamps(prior, status, at, contact) ==
    [status |-> status, transition |-> at, contact |-> contact]

TransitionHealth(prior, status, at, contact) ==
    [status |-> status,
     transition |-> IF status # prior.status \/ prior.transition = ZeroTime
                    THEN at ELSE prior.transition,
     contact |-> contact]

\* Mutant: a device with invalid telemetry may fall back to stale or online.
EvaluatedStatus_ForgetsInvalid(prior, latest, now, contact) ==
    IF contact # ZeroTime /\ now - contact >= OfflineAfter THEN "offline"
    ELSE IF /\ latest.updatedAt # ZeroTime
            /\ now - latest.updatedAt >= StaleAfter THEN "stale"
    ELSE "online"

EvaluatedStatus(prior, latest, now, contact) ==
    IF contact # ZeroTime /\ now - contact >= OfflineAfter THEN "offline"
    ELSE IF prior.status = "invalid" THEN "invalid"
    ELSE IF /\ latest.updatedAt # ZeroTime
            /\ now - latest.updatedAt >= StaleAfter THEN "stale"
    ELSE "online"

EvaluateHealth(prior, latest, now, contact) ==
    TransitionHealth(prior, EvaluatedStatus(prior, latest, now, contact),
                     now, contact)

(***************************************************************************)
(* Classification of one interval's observation e (Nil when none arrived)  *)
(* against the prior state s and prior health h, at the runtime's time.    *)
(***************************************************************************)
ClassifyResult(disposition, telemetry, state, suppress, health) ==
    [disposition |-> disposition, telemetry |-> telemetry, state |-> state,
     suppress |-> suppress, health |-> health]

\* Mutant: lateness is measured against the stale threshold.
Delayed_StaleThreshold(e) == e.recv - e.tel.time > StaleAfter

Delayed(e) == e.recv - e.tel.time > Interval

Accepted(e, s, h) ==
    ClassifyResult("accepted", e.tel, ApplyTelemetry(s, e.tel), Delayed(e),
        TransitionHealth(h, IF Delayed(e) THEN "stale" ELSE "online",
                         e.recv, e.recv))

HistoryOnly(e, s, h) ==
    ClassifyResult("history_only", e.tel, Nil, TRUE,
                   EvaluateHealth(h, s, e.recv, e.recv))

Rejected(e, h, now) ==
    LET receivedAt == ReceivedAtOrNow(e, now)
    IN  ClassifyResult("rejected", Nil, Nil, TRUE,
            TransitionHealth(h, "invalid", receivedAt, receivedAt))

ClassifyMissing(s, h, now) ==
    ClassifyResult("missing", Nil, Nil, TRUE,
                   EvaluateHealth(h, s, now, h.contact))

ClassifyUnavailable(e, h) ==
    ClassifyResult("unavailable", Nil, Nil, TRUE,
                   TransitionHealth(h, "offline", e.recv, h.contact))

\* The telemetry of an available source is usable and is the source's own.
TelemetryAcceptable(e) ==
    /\ TelemetryValid(e.tel)
    /\ e.tel.device = e.src
    /\ e.tel.time <= e.recv

ClassifyTelemetry(e, s, h, now) ==
    IF ~TelemetryAcceptable(e) THEN Rejected(e, h, now)
    ELSE IF NotNewer(s, e.tel) THEN HistoryOnly(e, s, h)
    ELSE Accepted(e, s, h)

Classify(e, s, h, now) ==
    IF e = Nil THEN ClassifyMissing(s, h, now)
    ELSE IF ~EnvelopeValid(e) THEN Rejected(e, h, now)
    ELSE IF ~e.avail THEN ClassifyUnavailable(e, h)
    ELSE ClassifyTelemetry(e, s, h, now)

(***************************************************************************)
(* Classify panics where it would accept an event that ApplyTelemetry then *)
(* refuses: one of another device than the prior state's.                  *)
(***************************************************************************)
ClassifyPanics(e, s) ==
    /\ e # Nil
    /\ EnvelopeValid(e)
    /\ e.avail
    /\ TelemetryAcceptable(e)
    /\ ~NotNewer(s, e.tel)
    /\ ApplyTelemetryFails(s, e.tel)

(***************************************************************************)
(* The battery policy.                                                     *)
(***************************************************************************)
MinimumDischargeSOC == 20

DischargePrice == 30

Idle == [decision |-> "idle", power |-> 0]

\* Mutant: the limit is the whole charge, not what is above the reserve.
MaximumDischargePower_WholeCharge(soc) == soc

\* The power that brings the battery down to the reserve in one interval.
MaximumDischargePower(soc) == soc - MinimumDischargeSOC

Decide(m) ==
    LET net   == m.pv - m.load
        limit == MaximumDischargePower(m.soc)
    IN  IF net > 0
        THEN IF m.soc >= MaximumSOC THEN Idle
             ELSE [decision |-> "charge", power |-> net]
        ELSE IF \/ net = 0
                \/ m.soc <= MinimumDischargeSOC
                \/ m.price < DischargePrice THEN Idle
        ELSE [decision |-> "discharge",
              power |-> IF -net > limit THEN limit ELSE -net]

CommandValid(c) ==
    \/ c.decision \in {"charge", "discharge"} /\ c.power > 0
    \/ c.decision = "idle" /\ c.power = 0

=============================================================================
