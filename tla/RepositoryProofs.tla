-------------------------- MODULE RepositoryProofs --------------------------
(***************************************************************************)
(* Facts about the domain functions and about the persistence contract,    *)
(* for every value of the constants: what the policy decides, what a       *)
(* classification carries, what validation guarantees of a result, and     *)
(* what storing one does to the tables.                                    *)
(***************************************************************************)
EXTENDS Repository, TLAPS

(***************************************************************************)
(* The domain functions.                                                   *)
(***************************************************************************)

(***************************************************************************)
(* The policy always answers, with a command the battery accepts           *)
(* (Command.Validate), and a discharge of the power it asks for, over one  *)
(* interval, leaves the battery at or above the reserve (policy.go,        *)
(* NewPolicy's promise).                                                   *)
(***************************************************************************)
THEOREM DecideKeepsReserve ==
    ASSUME NEW m \in Measurements
    PROVE  /\ Decide(m) \in Command
           /\ CommandValid(Decide(m))
           /\ Decide(m).decision = "discharge" =>
                m.soc - Decide(m).power >= MinimumDischargeSOC
  BY SMT DEF Measurements, Decide, Command, CommandValid, Decisions, Idle,
     MaximumDischargePower, MinimumDischargeSOC, DischargePrice, MaximumSOC

(***************************************************************************)
(* Raw telemetry that validates is telemetry.                              *)
(***************************************************************************)
LEMMA ValidTelemetry ==
    ASSUME NEW t \in RawTelemetry, TelemetryValid(t)
    PROVE  t \in Telemetry
  BY SMT DEF RawTelemetry, RawMeasurements, Telemetry, Measurements,
     TelemetryValid, MeasurementsValid, ZeroTime

(***************************************************************************)
(* A strictly newer event replaces the whole state, so what the prior      *)
(* state was makes no difference.                                          *)
(***************************************************************************)
LEMMA NewerReplaces ==
    ASSUME NEW s, NEW t \in Telemetry, ~NotNewer(s, t)
    PROVE  /\ ApplyTelemetry(s, t) = ApplyTelemetry(ZeroState, t)
           /\ ApplyTelemetry(s, t) \in State
           /\ ApplyTelemetry(s, t).updatedAt = t.time
           /\ ApplyTelemetry(s, t).lastEvent = t.id
           /\ ApplyTelemetry(s, t).device = t.device
           /\ ApplyTelemetry(s, t).m = t.m
  BY SMT DEF ApplyTelemetry, NotNewer, ZeroState, ZeroTime, Telemetry, State

\* A transition at a real instant yields a storable device health.
LEMMA TransitionHealthType ==
    ASSUME NEW prior \in DeviceHealth \cup {ZeroHealth}, NEW status \in Statuses,
           NEW at \in Nat \ {0}, NEW contact \in Nat
    PROVE  TransitionHealth(prior, status, at, contact) \in DeviceHealth
  BY SMT DEF TransitionHealth, DeviceHealth, ZeroHealth, ZeroTime

\* So does the evaluation of the thresholds.
LEMMA EvaluateHealthType ==
    ASSUME NEW prior \in DeviceHealth \cup {ZeroHealth}, NEW latest,
           NEW at \in Nat \ {0}, NEW contact \in Nat
    PROVE  EvaluateHealth(prior, latest, at, contact) \in DeviceHealth
  <1>1. EvaluatedStatus(prior, latest, at, contact) \in Statuses
    BY Zenon DEF EvaluatedStatus, Statuses
  <1>. QED  BY <1>1, TransitionHealthType DEF EvaluateHealth

\* The last contact of a stored or a zero health is an instant.
LEMMA PriorContact ==
    ASSUME NEW prior \in DeviceHealth \cup {ZeroHealth}
    PROVE  prior.contact \in Nat
  BY SMT DEF DeviceHealth, ZeroHealth, ZeroTime

\* The receive time the runtime uses is never the zero time.
LEMMA ReceiveTime ==
    ASSUME NEW e \in ObservationEnvelope \cup {Nil}, NEW now \in Nat \ {0}
    PROVE  ReceivedAtOrNow(e, now) \in Nat \ {0}
  BY SMT, NilAssumption DEF ObservationEnvelope, ReceivedAtOrNow, ZeroTime

(***************************************************************************)
(* The five ways an observation is classified, with what is known of each. *)
(***************************************************************************)
LEMMA ClassifyCases ==
    ASSUME NEW e, NEW s, NEW h, NEW now
    PROVE  \/ Classify(e, s, h, now) = ClassifyMissing(s, h, now)
           \/ Classify(e, s, h, now) = Rejected(e, h, now)
           \/ /\ Classify(e, s, h, now) = ClassifyUnavailable(e, h)
              /\ e # Nil /\ EnvelopeValid(e)
           \/ /\ Classify(e, s, h, now) = HistoryOnly(e, s, h)
              /\ e # Nil /\ EnvelopeValid(e) /\ e.avail
              /\ TelemetryAcceptable(e) /\ NotNewer(s, e.tel)
           \/ /\ Classify(e, s, h, now) = Accepted(e, s, h)
              /\ e # Nil /\ EnvelopeValid(e) /\ e.avail
              /\ TelemetryAcceptable(e) /\ ~NotNewer(s, e.tel)
  BY Zenon DEF Classify, ClassifyTelemetry

(***************************************************************************)
(* The envelope of a stored observation: a trusted receive time, and       *)
(* telemetry that has been validated.                                      *)
(***************************************************************************)
LEMMA StoredEnvelope ==
    ASSUME NEW e \in ObservationEnvelope, EnvelopeValid(e)
    PROVE  /\ e.recv \in Nat \ {0}
           /\ \A now : ReceivedAtOrNow(e, now) = e.recv
           /\ e.avail /\ TelemetryAcceptable(e) => e.tel \in Telemetry
  <1>1. e.recv \in Nat \ {0} /\ \A now : ReceivedAtOrNow(e, now) = e.recv
    BY SMT, NilAssumption
    DEF ObservationEnvelope, EnvelopeValid, ReceivedAtOrNow, ZeroTime
  <1>2. e.avail => e.tel \in RawTelemetry
    BY SMT DEF ObservationEnvelope, EnvelopeValid
  <1>. QED  BY <1>1, <1>2, ValidTelemetry, Zenon DEF TelemetryAcceptable

(***************************************************************************)
(* What Classify returns is well typed: the telemetry it stores is valid,  *)
(* and its health has a known status and a transition time.                *)
(***************************************************************************)
LEMMA ClassifyType ==
    ASSUME NEW e \in ObservationEnvelope \cup {Nil},
           NEW s \in State \cup {ZeroState},
           NEW h \in DeviceHealth \cup {ZeroHealth},
           NEW now \in Nat \ {0}
    PROVE  Classify(e, s, h, now) \in Classification
  <1>1. ASSUME NEW d \in Dispositions, NEW t \in Telemetry \cup {Nil},
               NEW st \in State \cup {Nil}, NEW sup \in BOOLEAN,
               NEW hl \in DeviceHealth
        PROVE  ClassifyResult(d, t, st, sup, hl) \in Classification
    BY SMT DEF ClassifyResult, Classification
  <1>2. ClassifyMissing(s, h, now) \in Classification
    <2>1. EvaluateHealth(h, s, now, h.contact) \in DeviceHealth
      BY EvaluateHealthType, PriorContact
    <2>. QED  BY <1>1, <2>1, Zenon DEF ClassifyMissing, Dispositions
  <1>3. Rejected(e, h, now) \in Classification
    <2>1. TransitionHealth(h, "invalid", ReceivedAtOrNow(e, now),
                           ReceivedAtOrNow(e, now)) \in DeviceHealth
      BY ReceiveTime, TransitionHealthType DEF Statuses
    <2>. QED  BY <1>1, <2>1, Zenon DEF Rejected, Dispositions
  <1>4. ASSUME e # Nil, EnvelopeValid(e)
        PROVE  ClassifyUnavailable(e, h) \in Classification
    <2>1. TransitionHealth(h, "offline", e.recv, h.contact) \in DeviceHealth
      BY <1>4, StoredEnvelope, PriorContact, TransitionHealthType DEF Statuses
    <2>. QED  BY <1>1, <2>1, Zenon DEF ClassifyUnavailable, Dispositions
  <1>5. ASSUME e # Nil, EnvelopeValid(e), e.avail, TelemetryAcceptable(e)
        PROVE  HistoryOnly(e, s, h) \in Classification
    <2>1. e.tel \in Telemetry /\ e.recv \in Nat \ {0}
      BY <1>5, StoredEnvelope
    <2>2. EvaluateHealth(h, s, e.recv, e.recv) \in DeviceHealth
      BY <2>1, EvaluateHealthType
    <2>. QED  BY <1>1, <2>1, <2>2, Zenon DEF HistoryOnly, Dispositions
  <1>6. ASSUME e # Nil, EnvelopeValid(e), e.avail, TelemetryAcceptable(e),
               ~NotNewer(s, e.tel)
        PROVE  Accepted(e, s, h) \in Classification
    <2>1. e.tel \in Telemetry /\ e.recv \in Nat \ {0}
      BY <1>6, StoredEnvelope
    <2>2. ApplyTelemetry(s, e.tel) \in State
      BY <1>6, <2>1, NewerReplaces
    <2>3. TransitionHealth(h, IF Delayed(e) THEN "stale" ELSE "online",
                           e.recv, e.recv) \in DeviceHealth
      BY <2>1, TransitionHealthType DEF Statuses
    <2>4. Delayed(e) \in BOOLEAN
      BY <2>1, IntervalAssumption, SMT DEF Delayed, Telemetry
    <2>. QED  BY <1>1, <2>1, <2>2, <2>3, <2>4, Zenon DEF Accepted, Dispositions
  <1>. QED  BY ClassifyCases, <1>2, <1>3, <1>4, <1>5, <1>6

(***************************************************************************)
(* What an observation's classification says of its telemetry and state:   *)
(* exactly an accepted one replaces the state, with its own values; it is  *)
(* strictly newer, a history-only one is not; and a command is allowed     *)
(* only for one that arrived within its interval.                          *)
(***************************************************************************)
ClassifiedAgainst(class, recv, s) ==
    /\ class.state # Nil <=> class.disposition = "accepted"
    /\ class.state # Nil =>
         /\ class.telemetry # Nil
         /\ ~NotNewer(s, class.telemetry)
         /\ class.state = ApplyTelemetry(ZeroState, class.telemetry)
         /\ class.suppress <=> recv - class.telemetry.time > Interval
    /\ class.telemetry # Nil =>
         /\ class.disposition \in {"accepted", "history_only"}
         /\ class.state = Nil => NotNewer(s, class.telemetry)
    /\ class.telemetry = Nil => class.disposition # "duplicate"

\* What a classification carries, by its disposition, against the prior state.
LEMMA ClassifyShape ==
    ASSUME NEW e \in ObservationEnvelope \cup {Nil},
           NEW s \in State \cup {ZeroState},
           NEW h \in DeviceHealth \cup {ZeroHealth},
           NEW now \in Nat \ {0}
    PROVE  ClassifiedAgainst(Classify(e, s, h, now), ReceivedAtOrNow(e, now), s)
  <1>1. CASE Classify(e, s, h, now) = ClassifyMissing(s, h, now)
    BY <1>1, SMT DEF ClassifiedAgainst, ClassifyMissing, ClassifyResult
  <1>2. CASE Classify(e, s, h, now) = Rejected(e, h, now)
    BY <1>2, SMT DEF ClassifiedAgainst, Rejected, ClassifyResult
  <1>3. CASE Classify(e, s, h, now) = ClassifyUnavailable(e, h)
    BY <1>3, SMT DEF ClassifiedAgainst, ClassifyUnavailable, ClassifyResult
  <1>4. ASSUME Classify(e, s, h, now) = HistoryOnly(e, s, h),
               e # Nil, EnvelopeValid(e), e.avail, TelemetryAcceptable(e),
               NotNewer(s, e.tel)
        PROVE  ClassifiedAgainst(Classify(e, s, h, now), ReceivedAtOrNow(e, now), s)
    BY <1>4, SMT DEF ClassifiedAgainst, HistoryOnly, ClassifyResult
  <1>5. ASSUME Classify(e, s, h, now) = Accepted(e, s, h),
               e # Nil, EnvelopeValid(e), e.avail, TelemetryAcceptable(e),
               ~NotNewer(s, e.tel)
        PROVE  ClassifiedAgainst(Classify(e, s, h, now), ReceivedAtOrNow(e, now), s)
    <2>1. e.tel \in Telemetry /\ ReceivedAtOrNow(e, now) = e.recv
      BY <1>5, StoredEnvelope
    <2>2. /\ ApplyTelemetry(s, e.tel) = ApplyTelemetry(ZeroState, e.tel)
          /\ ApplyTelemetry(s, e.tel) \in State
      BY <1>5, <2>1, NewerReplaces
    <2>3. e.tel # Nil /\ ApplyTelemetry(s, e.tel) # Nil
      BY <2>1, <2>2, NilAssumption
    <2>4. Delayed(e) <=> ReceivedAtOrNow(e, now) - e.tel.time > Interval
      BY <2>1 DEF Delayed
    <2>. QED  BY <1>5, <2>2, <2>3, <2>4, SMT
              DEF ClassifiedAgainst, Accepted, ClassifyResult
  <1>. QED  BY ClassifyCases, <1>1, <1>2, <1>3, <1>4, <1>5

(***************************************************************************)
(* However an observation is classified, a health that keeps its status    *)
(* keeps the time of its last transition.                                  *)
(***************************************************************************)
LEMMA ClassifyHealth ==
    ASSUME NEW e, NEW s, NEW h \in DeviceHealth, NEW now
    PROVE  Classify(e, s, h, now).health.status = h.status =>
             Classify(e, s, h, now).health.transition = h.transition
  <1>1. ASSUME NEW status, NEW at, NEW contact
        PROVE  TransitionHealth(h, status, at, contact).status = h.status =>
                 TransitionHealth(h, status, at, contact).transition = h.transition
    BY SMT DEF TransitionHealth, DeviceHealth, ZeroTime
  <1>. DEFINE Keeps(c) == c.health.status = h.status =>
                            c.health.transition = h.transition
  <1>2. ASSUME NEW d, NEW t, NEW st, NEW sup, NEW status, NEW at, NEW contact
        PROVE  Keeps(ClassifyResult(d, t, st, sup,
                                    TransitionHealth(h, status, at, contact)))
    BY <1>1, SMT DEF ClassifyResult
  <1>. HIDE DEF Keeps
  <1>3. Keeps(ClassifyMissing(s, h, now))
    BY <1>2 DEF ClassifyMissing, EvaluateHealth
  <1>4. Keeps(Rejected(e, h, now))
    BY <1>2 DEF Rejected
  <1>5. Keeps(ClassifyUnavailable(e, h))
    BY <1>2 DEF ClassifyUnavailable
  <1>6. Keeps(HistoryOnly(e, s, h))
    BY <1>2 DEF HistoryOnly, EvaluateHealth
  <1>7. Keeps(Accepted(e, s, h))
    BY <1>2 DEF Accepted
  <1>8. Keeps(Classify(e, s, h, now))
    BY <1>3, <1>4, <1>5, <1>6, <1>7, ClassifyCases
  <1>. QED  BY <1>8 DEF Keeps

(***************************************************************************)
(* Classified telemetry is the envelope's own, and validates.              *)
(***************************************************************************)
LEMMA ClassifyKeepsTelemetry ==
    ASSUME NEW e \in ObservationEnvelope \cup {Nil}, NEW s, NEW h, NEW now,
           Classify(e, s, h, now).telemetry # Nil
    PROVE  /\ e \in ObservationEnvelope
           /\ e.tel # Nil
           /\ Classify(e, s, h, now).telemetry = e.tel
           /\ TelemetryValid(e.tel)
           /\ e.tel.device = e.src
  <1>1. /\ ClassifyMissing(s, h, now).telemetry = Nil
        /\ Rejected(e, h, now).telemetry = Nil
        /\ ClassifyUnavailable(e, h).telemetry = Nil
        /\ HistoryOnly(e, s, h).telemetry = e.tel
        /\ Accepted(e, s, h).telemetry = e.tel
    BY SMT DEF ClassifyMissing, Rejected, ClassifyUnavailable, HistoryOnly,
       Accepted, ClassifyResult
  <1>. QED  BY <1>1, ClassifyCases DEF TelemetryAcceptable

(***************************************************************************)
(* The persistence contract.                                               *)
(***************************************************************************)
USE NilAssumption, NilRowAssumption, IdentityAssumption, IntervalAssumption

\* What ObservationResult.Validate guarantees of the records of a result.
ResultRecords(r) ==
    /\ r.telemetry # Nil =>
         /\ r.telemetry \in TelemetryRecord
         /\ r.telemetry.event.id \in EventIDs
    /\ r.latestState # Nil =>
         /\ r.telemetry # Nil
         /\ r.telemetry.disposition = "accepted"
         /\ r.latestState = ApplyTelemetry(ZeroState, r.telemetry.event)
         /\ r.latestState \in State
         /\ r.latestState.lastEvent = r.telemetry.event.id
         /\ r.latestState.updatedAt = r.telemetry.event.time
    /\ r.command # Nil =>
         /\ r.latestState # Nil
         /\ r.command.eventID = r.telemetry.event.id
         /\ [command |-> r.command.command,
             createdAt |-> r.command.createdAt] \in CommandRow
    /\ r.health \in DeviceHealth

(***************************************************************************)
(* Every record of a result that passes ObservationResult.Validate is of   *)
(* the type of its table, and they belong together: the state and the      *)
(* command are those of the result's own event.                            *)
(***************************************************************************)
THEOREM ValidResult ==
    ASSUME NEW r \in RawResult, ResultValid(r)
    PROVE  ResultRecords(r)
  <1>1. ASSUME r.telemetry # Nil
        PROVE  /\ r.telemetry.event \in Telemetry
               /\ r.telemetry \in TelemetryRecord
               /\ r.telemetry.event.id \in EventIDs
    <2>1. /\ r.telemetry \in [event: RawTelemetry, recv: Nat,
                              disposition: Dispositions]
          /\ TelemetryRecordValid(r.device, r.telemetry)
      BY <1>1, SMT DEF RawResult, ResultValid
    <2>2. r.telemetry.event \in Telemetry
      BY <2>1, ValidTelemetry, SMT DEF TelemetryRecordValid
    <2>3. r.telemetry \in TelemetryRecord
      BY <2>1, <2>2, SMT DEF TelemetryRecordValid, TelemetryRecord, ZeroTime
    <2>. QED  BY <2>2, <2>3, SMT DEF Telemetry
  <1>2. ASSUME r.latestState # Nil
        PROVE  /\ r.telemetry # Nil
               /\ r.telemetry.disposition = "accepted"
               /\ r.latestState = ApplyTelemetry(ZeroState, r.telemetry.event)
               /\ r.latestState \in State
               /\ r.latestState.lastEvent = r.telemetry.event.id
               /\ r.latestState.updatedAt = r.telemetry.event.time
    <2>1. LatestStateValid(r)
      BY <1>2 DEF ResultValid
    <2>2. ~NotNewer(ZeroState, r.telemetry.event)
      BY SMT DEF NotNewer, ZeroState, ZeroTime
    <2>. QED  BY <1>1, <2>1, <2>2, NewerReplaces DEF LatestStateValid
  <1>3. ASSUME r.command # Nil
        PROVE  /\ r.latestState # Nil
               /\ r.command.eventID = r.telemetry.event.id
               /\ [command |-> r.command.command,
                   createdAt |-> r.command.createdAt] \in CommandRow
    <2>1. /\ r.command \in [eventID: EventIDs \cup {Nil},
                            command: [decision: Decisions, power: Int],
                            createdAt: Nat]
          /\ CommandRecordValid(r)
      BY <1>3, SMT DEF RawResult, ResultValid
    <2>2. r.command.command \in Command
      BY <2>1, SMT DEF CommandRecordValid, CommandValid, Command, Decisions
    <2>. QED  BY <2>1, <2>2, SMT DEF CommandRecordValid, CommandRow, ZeroTime
  <1>4. r.health \in DeviceHealth
    BY SMT DEF RawResult, ResultValid, DeviceHealth, ZeroTime
  <1>. QED  BY <1>1, <1>2, <1>3, <1>4, Zenon DEF ResultRecords

\* Storing a valid result keeps the tables well typed.
LEMMA StoreResultType ==
    ASSUME DbTypeOK, NEW r, ResultRecords(r), StoreResult(r)
    PROVE  DbTypeOK'
  <1>1. events' \in [EventIDs -> TelemetryRecord \cup {Nil}]
    BY SMT DEF DbTypeOK, ResultRecords, StoreResult
  <1>2. latestRow' \in State \cup {Nil}
    BY SMT DEF DbTypeOK, ResultRecords, StoreResult, ReplacesLatest
  <1>3. commands' \in [EventIDs -> CommandRow \cup {Nil}]
    BY SMT DEF DbTypeOK, ResultRecords, StoreResult, ReplacesLatest
  <1>4. healthRow' \in DeviceHealth \cup {Nil}
    BY SMT DEF DbTypeOK, ResultRecords, StoreResult
  <1>. QED  BY <1>1, <1>2, <1>3, <1>4 DEF DbTypeOK

=============================================================================
