--------------------------- MODULE OperationsProofs ---------------------------
(***************************************************************************)
(* What the process tells about itself is true, for any number of          *)
(* intervals, records and requests, and however the closing of the scopes, *)
(* the handlers and the clock interleave.                                  *)
(*                                                                         *)
(* The proofs rest on how far the closing of an interval's scopes has      *)
(* come: readiness first, then the metrics label by label, the logger and  *)
(* the tracer.  A report may run behind the intervals that ended by the    *)
(* one whose scopes are being closed, and by no more.                      *)
(***************************************************************************)
EXTENDS Operations, FiniteSetTheorems, TLAPS

Phases == {"off", "opening", "prepare", "between", "interval", "scopes",
           "ended", "closing", "draining", "stopping", "exited"}

EndedInterval == [outcome: Outcomes, at: Nat]

Request == [asked: Nat, after: Nat]

Readings == UNION {[S -> {0, 1}] : S \in SUBSET Statuses}

\* The tracer, if any, is opened first, readiness last.
Last == Len(Observers)

\* The last record up to interval k of e, or one after it, had status s.
ActiveIn(e, s, k) ==
    \E i \in DOMAIN e :
        /\ e[i].outcome.record # Nil
        /\ e[i].outcome.record.status = s
        /\ \A j \in i + 1 .. k : e[j].outcome.record = Nil

(***************************************************************************)
(* The parts of the inductive invariant.                                   *)
(***************************************************************************)
OpsTypeOK ==
    /\ phase \in Phases
    /\ open \in 0 .. Last
    /\ label \in 0 .. Len(allHealthStatuses) + 1
    /\ ended \in Seq(EndedInterval)
    /\ wall \in Nat
    /\ ready \in [started: BOOLEAN, lastCompleted: Nat, lastErr: BOOLEAN]
    /\ gauge \in [Statuses -> {0, 1}]
    /\ probe # Nil => probe \in Request
    /\ answer # Nil => /\ answer.request \in Request
                       /\ answer.failing \in {"none", "storage", "telemetry"}
    /\ scrape # Nil => scrape \in [read: Readings, after: Nat]
    /\ page # Nil => page \in [read: [Statuses -> {0, 1}], after: Nat]

\* Scopes are open only in an interval, and the outcome they are given is
\* that of the last interval that ended.
Scopes ==
    /\ phase = "interval" => open = Last
    /\ phase \notin {"interval", "scopes"} => open = 0
    /\ phase = "scopes" => outcome \in Outcomes
    /\ phase = "scopes" /\ open < Last =>
         Len(ended) > 0 /\ ended[Len(ended)].outcome = outcome
    /\ label > 0 => /\ phase = "scopes"
                    /\ open = Last - 1
                    /\ outcome.record # Nil

\* What is open in which phase, and what has been noted of an error.
Lifecycle ==
    /\ phase \in {"off", "opening", "closing", "draining", "stopping", "exited"}
         => db = "closed"
    /\ phase \in {"off", "draining", "stopping", "exited"} => server # "serving"
    /\ phase \in {"off", "exited"} => tracer # "open"
    /\ phase = "off" => Len(ended) = 0
    /\ \A i \in DOMAIN ended : ended[i].outcome.err = "error" =>
         \/ "run" \in failures
         \/ phase = "scopes" /\ ended[i].outcome = outcome

\* Readiness knows the last interval that ended, and none was later.
ReadinessCurrent ==
    /\ ready.started <=> Len(ended) > 0
    /\ Len(ended) > 0 =>
         /\ ready.lastCompleted = ended[Len(ended)].at
         /\ ready.lastErr <=> ended[Len(ended)].outcome.err # "none"
    /\ \A i \in DOMAIN ended : ended[i].at <= ready.lastCompleted
    /\ ready.lastCompleted <= wall

Answers ==
    /\ probe # Nil => probe.after <= Reported
    /\ answer # Nil => answer.request.after <= Len(ended)
    /\ AnswersJustified

\* The gauge runs behind the ended intervals only while observe sets it.
GaugeTrue ==
    /\ \A s \in Statuses : gauge[s] = 1 => ActiveIn(ended, s, Reported)
    /\ phase = "scopes" /\ open < Last - 1 =>
         \A s \in Statuses : gauge[s] = 1 => ActiveIn(ended, s, Len(ended))
    /\ \A l \in DOMAIN allHealthStatuses :
         l < label /\ gauge[allHealthStatuses[l]] = 1 =>
           outcome.record.status = allHealthStatuses[l]

Pages ==
    /\ scrape # Nil =>
         /\ scrape.after <= Reported
         /\ \A s \in DOMAIN scrape.read : scrape.read[s] = 1 =>
              ActiveIn(ended, s, scrape.after)
    /\ page # Nil =>
         /\ page.after <= Len(ended)
         /\ \A s \in Statuses : page.read[s] = 1 =>
              ActiveIn(ended, s, page.after)

Logs ==
    \A i \in DOMAIN ended : ended[i].outcome.err # "none" =>
        /\ \/ \E j \in DOMAIN logged : logged[j] = ended[i].outcome
           \/ /\ phase = "scopes" /\ open \in Last - 2 .. Last - 1
              /\ ended[i].outcome = outcome
        /\ HasTracer =>
             \/ \E j \in DOMAIN spans : spans[j] = ended[i].outcome
             \/ /\ phase = "scopes" /\ open \in 1 .. Last - 1
                /\ ended[i].outcome = outcome

LogTypes == logged \in Seq(Outcomes) /\ spans \in Seq(Outcomes)

IInv ==
    /\ OpsTypeOK
    /\ Scopes
    /\ Lifecycle
    /\ ReadinessCurrent
    /\ Answers
    /\ GaugeTrue
    /\ Pages
    /\ LogTypes
    /\ Logs

(***************************************************************************)
(* Facts about the observers and about sequences of ended intervals.       *)
(***************************************************************************)
LEMMA ObserverOrder ==
    /\ Last \in {3, 4}
    /\ HasTracer <=> Last = 4
    /\ \A n \in 1 .. Last :
         /\ Observers[n] = "readiness" <=> n = Last
         /\ Observers[n] = "metrics" <=> n = Last - 1
         /\ Observers[n] = "logger" <=> n = Last - 2
         /\ Observers[n] = "tracer" <=> HasTracer /\ n = 1
  <1>1. CASE HasTracer
    <2>1. Observers = <<"tracer", "logger", "metrics", "readiness">>
      BY <1>1 DEF Observers
    <2>2. Last = 4
      BY <2>1 DEF Last
    <2>. QED  BY <1>1, <2>1, <2>2, SMT
  <1>2. CASE ~HasTracer
    <2>1. Observers = <<"logger", "metrics", "readiness">>
      BY <1>2 DEF Observers
    <2>2. Last = 3
      BY <2>1 DEF Last
    <2>. QED  BY <1>2, <2>1, <2>2, SMT
  <1>. QED  BY <1>1, <1>2

LEMMA StatusLabels ==
    /\ Len(allHealthStatuses) = 4
    /\ DOMAIN allHealthStatuses = 1 .. 4
    /\ \A s \in Statuses : \E l \in 1 .. 4 : s = allHealthStatuses[l]
    /\ \A l \in 1 .. 4 : allHealthStatuses[l] \in Statuses
    /\ \A l, m \in 1 .. 4 : allHealthStatuses[l] = allHealthStatuses[m] => l = m
  <1>1. Len(allHealthStatuses) = 4 /\ DOMAIN allHealthStatuses = 1 .. 4
    BY SMT DEF allHealthStatuses
  <1>2. \A l, m \in 1 .. 4 : allHealthStatuses[l] = allHealthStatuses[m] => l = m
    BY SMT DEF allHealthStatuses
  <1>. QED  BY <1>1, <1>2 DEF Statuses

LEMMA AppendFacts ==
    ASSUME NEW S, NEW e \in Seq(S), NEW x \in S
    PROVE  /\ Append(e, x) \in Seq(S)
           /\ Len(e) \in Nat
           /\ DOMAIN e = 1 .. Len(e)
           /\ Len(Append(e, x)) = Len(e) + 1
           /\ DOMAIN Append(e, x) = 1 .. Len(e) + 1
           /\ \A i \in 1 .. Len(e) : Append(e, x)[i] = e[i] /\ e[i] \in S
           /\ Append(e, x)[Len(e) + 1] = x
  BY SMT

\* A later interval changes nothing about the ones before it.
LEMMA ActiveGrows ==
    ASSUME NEW e \in Seq(EndedInterval), NEW x \in EndedInterval, NEW s,
           NEW k \in Nat, k <= Len(e), ActiveIn(e, s, k)
    PROVE  ActiveIn(Append(e, x), s, k)
  <1>. DEFINE a == Append(e, x)
  <1>1. /\ Len(e) \in Nat /\ DOMAIN e = 1 .. Len(e)
        /\ DOMAIN a = 1 .. Len(e) + 1
        /\ \A i \in 1 .. Len(e) : a[i] = e[i]
    BY AppendFacts
  <1>. HIDE DEF a
  <1>2. PICK i \in DOMAIN e :
          /\ e[i].outcome.record # Nil
          /\ e[i].outcome.record.status = s
          /\ \A j \in i + 1 .. k : e[j].outcome.record = Nil
    BY DEF ActiveIn
  <1>3. i \in DOMAIN a /\ a[i] = e[i]
    BY <1>1, SMT
  <1>4. \A j \in i + 1 .. k : a[j] = e[j]
    BY <1>1, SMT
  <1>5. ActiveIn(a, s, k)
    BY <1>2, <1>3, <1>4, Zenon DEF ActiveIn
  <1>. QED  BY <1>5 DEF a

LEMMA ActiveEarlier ==
    ASSUME NEW e \in Seq(EndedInterval), NEW s, NEW k \in Nat, NEW h \in Nat,
           h <= k, ActiveIn(e, s, k)
    PROVE  ActiveIn(e, s, h)
  <1>1. PICK i \in DOMAIN e :
          /\ e[i].outcome.record # Nil
          /\ e[i].outcome.record.status = s
          /\ \A j \in i + 1 .. k : e[j].outcome.record = Nil
    BY DEF ActiveIn
  <1>2. i \in Nat
    BY SMT
  <1>3. \A j \in i + 1 .. h : j \in i + 1 .. k
    BY <1>2, SMT
  <1>. QED  BY <1>1, <1>3 DEF ActiveIn

\* An interval with a record makes its status the last one.
LEMMA ActiveNow ==
    ASSUME NEW e \in Seq(EndedInterval), Len(e) > 0,
           e[Len(e)].outcome.record # Nil
    PROVE  ActiveIn(e, e[Len(e)].outcome.record.status, Len(e))
  <1>1. Len(e) \in DOMAIN e /\ \A j \in Len(e) + 1 .. Len(e) : FALSE
    BY SMT
  <1>. QED  BY <1>1, Zenon DEF ActiveIn

\* One without a record leaves it as it was.
LEMMA ActiveStays ==
    ASSUME NEW e \in Seq(EndedInterval), Len(e) > 0, NEW s,
           e[Len(e)].outcome.record = Nil, ActiveIn(e, s, Len(e) - 1)
    PROVE  ActiveIn(e, s, Len(e))
  <1>1. PICK i \in DOMAIN e :
          /\ e[i].outcome.record # Nil
          /\ e[i].outcome.record.status = s
          /\ \A j \in i + 1 .. Len(e) - 1 : e[j].outcome.record = Nil
    BY DEF ActiveIn
  <1>2. \A j \in i + 1 .. Len(e) : j \in i + 1 .. Len(e) - 1 \/ j = Len(e)
    BY SMT
  <1>3. \A j \in i + 1 .. Len(e) : e[j].outcome.record = Nil
    BY <1>1, <1>2
  <1>. QED  BY <1>1, <1>3 DEF ActiveIn

LEMMA InitIInv == OpsInit => IInv
  <1>. SUFFICES ASSUME OpsInit PROVE IInv
    OBVIOUS
  <1>. USE DEF OpsInit
  <1>1. /\ Len(ended) = 0 /\ DOMAIN ended = {} /\ ended \in Seq(EndedInterval)
        /\ logged \in Seq(Outcomes) /\ spans \in Seq(Outcomes)
    BY SMT
  <1>2. OpsTypeOK
    <2>1. 0 \in 0 .. Last /\ 0 \in 0 .. Len(allHealthStatuses) + 1
      BY ObserverOrder, StatusLabels, SMT
    <2>. QED  BY <1>1, <2>1, SMT DEF OpsTypeOK, Phases
  <1>3. Scopes
    BY SMT DEF Scopes
  <1>4. Lifecycle
    BY <1>1 DEF Lifecycle
  <1>5. ReadinessCurrent
    BY <1>1, SMT DEF ReadinessCurrent
  <1>6. Answers
    BY DEF Answers, AnswersJustified
  <1>7. GaugeTrue
    <2>1. \A s \in Statuses : gauge[s] # 1
      OBVIOUS
    <2>2. \A l \in DOMAIN allHealthStatuses : allHealthStatuses[l] \in Statuses
      BY StatusLabels
    <2>. QED  BY <2>1, <2>2 DEF GaugeTrue
  <1>8. Pages /\ LogTypes /\ Logs
    BY <1>1 DEF Pages, LogTypes, Logs
  <1>. QED  BY <1>2, <1>3, <1>4, <1>5, <1>6, <1>7, <1>8 DEF IInv

\* What has been reported to everyone is at most what has ended.
LEMMA ReportedBounds ==
    ASSUME IInv
    PROVE  /\ Len(ended) \in Nat /\ DOMAIN ended = 1 .. Len(ended)
           /\ Reported \in Nat /\ Reported <= Len(ended)
           /\ phase = "scopes" /\ open < Last => Reported = Len(ended) - 1
           /\ ~(phase = "scopes" /\ open < Last) => Reported = Len(ended)
  BY SMT DEF IInv, OpsTypeOK, Scopes, Reported, Last

(***************************************************************************)
(* Steps of the process and of the server outside an interval.             *)
(***************************************************************************)
Outside(p) == p \notin {"interval", "scopes"}

LEMMA QuietStep ==
    ASSUME IInv, UNCHANGED <<scopeVars, reportVars, httpVars, wall>>,
           phase' \in Phases,
           phase' = phase \/ (Outside(phase) /\ Outside(phase')),
           Lifecycle'
    PROVE  IInv'
  <1>. USE DEF scopeVars, reportVars, httpVars, Outside
  <1>1. Reported' = Reported
    BY DEF Reported
  <1>2. OpsTypeOK'
    BY DEF IInv, OpsTypeOK
  <1>3. Scopes'
    BY DEF IInv, Scopes
  <1>4. ReadinessCurrent'
    BY DEF IInv, ReadinessCurrent
  <1>5. Answers'
    BY <1>1 DEF IInv, Answers, AnswersJustified
  <1>6. GaugeTrue'
    BY <1>1 DEF IInv, GaugeTrue
  <1>7. Pages'
    BY <1>1 DEF IInv, Pages
  <1>8. LogTypes' /\ Logs'
    BY DEF IInv, LogTypes, Logs
  <1>. QED  BY <1>2, <1>3, <1>4, <1>5, <1>6, <1>7, <1>8 DEF IInv

LEMMA LifecycleStep ==
    ASSUME IInv,
           \/ TracerFails \/ ListenFails \/ StartOps
           \/ OpenFails \/ OpenRepository \/ PrepareFails \/ Prepare
           \/ RunEnds \/ CloseRepository
           \/ BeginShutdown \/ ShutdownTimesOut \/ ShutdownReturns \/ StopTracer
           \/ ServeFails
    PROVE  IInv'
  <1>. USE DEF Outside
  <1>1. Lifecycle /\ phase \in Phases
    BY DEF IInv, OpsTypeOK
  <1>2. phase = "off" => DOMAIN ended = {}
    <2>1. DOMAIN ended = 1 .. Len(ended)
      BY ReportedBounds
    <2>2. phase = "off" => Len(ended) = 0
      BY <1>1 DEF Lifecycle
    <2>3. 1 .. 0 = {}
      BY SMT
    <2>. QED  BY <2>1, <2>2, <2>3
  <1>. DEFINE Step == /\ UNCHANGED <<scopeVars, reportVars, httpVars, wall>>
                      /\ phase' \in Phases
                      /\ phase' = phase \/ (Outside(phase) /\ Outside(phase'))
                      /\ Lifecycle'
  <1>3. CASE TracerFails \/ ListenFails \/ StartOps
    <2>1. Step
      BY <1>1, <1>2, <1>3 DEF TracerFails, ListenFails, StartOps, Lifecycle,
         Phases, scopeVars
    <2>. QED  BY <2>1, QuietStep
  <1>4. CASE OpenFails \/ OpenRepository \/ PrepareFails \/ Prepare
    <2>1. Step
      BY <1>1, <1>4 DEF OpenFails, OpenRepository, PrepareFails, Prepare,
         Lifecycle, Phases, scopeVars
    <2>. QED  BY <2>1, QuietStep
  <1>5. CASE RunEnds \/ CloseRepository
    <2>1. Step
      BY <1>1, <1>5 DEF RunEnds, CloseRepository, Lifecycle, Phases, scopeVars
    <2>. QED  BY <2>1, QuietStep
  <1>6. CASE BeginShutdown \/ ShutdownTimesOut \/ ShutdownReturns
    <2>1. Step
      BY <1>1, <1>6 DEF BeginShutdown, ShutdownTimesOut, ShutdownReturns,
         Lifecycle, Phases, scopeVars
    <2>. QED  BY <2>1, QuietStep
  <1>7. CASE StopTracer
    <2>1. Step
      BY <1>1, <1>7 DEF StopTracer, Lifecycle, Phases, scopeVars
    <2>. QED  BY <2>1, QuietStep
  <1>8. CASE ServeFails
    <2>1. Step
      BY <1>1, <1>8 DEF ServeFails, Lifecycle, Phases, scopeVars
    <2>. QED  BY <2>1, QuietStep
  <1>. QED  BY <1>3, <1>4, <1>5, <1>6, <1>7, <1>8

(***************************************************************************)
(* The interval, and the closing of its scopes.                            *)
(***************************************************************************)
LEMMA BeginIntervalIInv == ASSUME IInv, BeginInterval PROVE IInv'
  <1>. USE DEF BeginInterval, reportVars, httpVars
  <1>1. Last \in {3, 4} /\ open' = Last
    BY ObserverOrder DEF Last
  <1>2. label = 0
    BY SMT DEF IInv, OpsTypeOK, Scopes
  <1>3. Reported' = Reported
    BY <1>1, SMT DEF Reported
  <1>4. OpsTypeOK'
    BY <1>1, SMT DEF IInv, OpsTypeOK, Phases
  <1>5. Scopes'
    BY <1>1, <1>2, SMT DEF IInv, Scopes
  <1>6. Lifecycle'
    BY DEF IInv, Lifecycle
  <1>7. ReadinessCurrent'
    BY DEF IInv, ReadinessCurrent
  <1>8. Answers'
    BY <1>3 DEF IInv, Answers, AnswersJustified
  <1>9. GaugeTrue'
    BY <1>3 DEF IInv, GaugeTrue
  <1>10. Pages' /\ LogTypes' /\ Logs'
    BY <1>3 DEF IInv, Pages, LogTypes, Logs
  <1>. QED  BY <1>4, <1>5, <1>6, <1>7, <1>8, <1>9, <1>10 DEF IInv

LEMMA EndIntervalIInv == ASSUME IInv, EndInterval PROVE IInv'
  <1>. USE DEF EndInterval, reportVars, httpVars
  <1>1. Last \in {3, 4} /\ open = Last /\ open' = Last /\ label = 0
        /\ outcome' \in Outcomes
    BY ObserverOrder, SMT DEF IInv, OpsTypeOK, Scopes
  <1>2. Reported' = Reported
    BY <1>1, SMT DEF Reported, Last
  <1>3. OpsTypeOK'
    BY <1>1 DEF IInv, OpsTypeOK, Phases
  <1>4. Scopes'
    BY <1>1, SMT DEF IInv, Scopes
  <1>5. Lifecycle'
    BY DEF IInv, Lifecycle
  <1>6. ReadinessCurrent'
    BY DEF IInv, ReadinessCurrent
  <1>7. Answers'
    BY <1>2 DEF IInv, Answers, AnswersJustified
  <1>8. GaugeTrue'
    <2>1. ~(open' < Last - 1)
      BY <1>1, SMT
    <2>2. \A l \in DOMAIN allHealthStatuses : ~(l < label')
      BY <1>1, StatusLabels, SMT
    <2>. QED  BY <1>2, <2>1, <2>2 DEF IInv, GaugeTrue
  <1>9. Pages' /\ LogTypes' /\ Logs'
    BY <1>2 DEF IInv, Pages, LogTypes, Logs
  <1>. QED  BY <1>3, <1>4, <1>5, <1>6, <1>7, <1>8, <1>9 DEF IInv

\* The reports that are left to the closing of the scopes have been made.
LEMMA IntervalReturnsIInv == ASSUME IInv, IntervalReturns PROVE IInv'
  <1>. USE DEF IntervalReturns, reportVars, httpVars
  <1>1. Last \in {3, 4} /\ label = 0 /\ open = 0 /\ open' = 0 /\ label' = 0
        /\ phase = "scopes" /\ phase' \in {"between", "ended"}
    BY ObserverOrder, SMT DEF IInv, OpsTypeOK, Scopes
  <1>2. Len(ended) \in Nat /\ Len(ended) > 0 /\ DOMAIN ended = 1 .. Len(ended)
        /\ Reported = Len(ended) - 1 /\ Reported' = Len(ended)
    <2>1. open < Last
      BY <1>1, SMT
    <2>2. Reported' = Len(ended)
      BY <1>1 DEF Reported
    <2>. QED  BY <1>1, <2>1, <2>2, ReportedBounds DEF IInv, Scopes
  <1>3. Reported <= Reported'
    BY <1>2, SMT
  <1>4. OpsTypeOK'
    BY <1>1 DEF IInv, OpsTypeOK, Phases
  <1>5. Scopes'
    BY <1>1, SMT DEF IInv, Scopes
  <1>6. Lifecycle'
    BY <1>1 DEF IInv, Lifecycle
  <1>7. ReadinessCurrent'
    BY DEF IInv, ReadinessCurrent
  <1>8. Answers'
    <2>1. probe' # Nil => probe'.after <= Reported'
      BY <1>2, <1>3, SMT DEF IInv, OpsTypeOK, Answers, Request
    <2>. QED  BY <2>1 DEF IInv, Answers, AnswersJustified
  <1>9. GaugeTrue'
    <2>1. open < Last - 1
      BY <1>1, SMT
    <2>2. \A l \in DOMAIN allHealthStatuses : ~(l < label')
      BY <1>1, StatusLabels, SMT
    <2>. QED  BY <1>1, <1>2, <2>1, <2>2 DEF IInv, GaugeTrue
  <1>10. Pages'
    <2>1. scrape' # Nil => scrape'.after <= Reported'
      BY <1>2, <1>3, SMT DEF IInv, OpsTypeOK, Pages
    <2>. QED  BY <2>1 DEF IInv, Pages
  <1>11. LogTypes' /\ Logs'
    <2>1. ~(open \in Last - 2 .. Last - 1) /\ ~(open \in 1 .. Last - 1)
      BY <1>1, SMT
    <2>. QED  BY <2>1 DEF IInv, LogTypes, Logs
  <1>. QED  BY <1>4, <1>5, <1>6, <1>7, <1>8, <1>9, <1>10, <1>11 DEF IInv

\* How far the closing has come when a scope is closed.
LEMMA WhichScope ==
    ASSUME IInv
    PROVE  /\ Last \in {3, 4} /\ (HasTracer <=> Last = 4)
           /\ Closes("readiness") => phase = "scopes" /\ open = Last
           /\ Closes("metrics") => phase = "scopes" /\ open = Last - 1
           /\ Closes("logger") => phase = "scopes" /\ open = Last - 2
           /\ Closes("tracer") => phase = "scopes" /\ open = 1 /\ Last = 4
  <1>1. open \in 0 .. Last /\ Last \in {3, 4}
    BY ObserverOrder DEF IInv, OpsTypeOK
  <1>2. open > 0 => open \in 1 .. Last
    BY <1>1, SMT
  <1>. QED  BY <1>1, <1>2, ObserverOrder DEF Closes

(***************************************************************************)
(* CloseReadiness adds an interval to the ended ones.  Every report that   *)
(* was true of the ones before is true of them all: the gauge, the log and *)
(* the trace are allowed to run behind by this one.                        *)
(***************************************************************************)
LEMMA CloseReadinessIInv == ASSUME IInv, CloseReadiness PROVE IInv'
  <1>. USE DEF CloseReadiness, httpVars, runVars
  <1>. DEFINE x == [outcome |-> outcome, at |-> wall]
              n == Len(ended)
  <1>1. Last \in {3, 4} /\ phase = "scopes" /\ phase' = "scopes" /\ open = Last
        /\ open' = Last - 1 /\ open' < Last /\ open' \in 0 .. Last
        /\ ~(open' < Last - 1) /\ label = 0 /\ label' = 0
        /\ outcome \in Outcomes /\ outcome' = outcome /\ wall \in Nat
        /\ wall' = wall
    <2>1. Last \in {3, 4} /\ phase = "scopes" /\ open = Last
      BY WhichScope
    <2>2. label = 0
      BY <2>1, SMT DEF IInv, OpsTypeOK, Scopes
    <2>3. outcome \in Outcomes /\ wall \in Nat
      BY <2>1 DEF IInv, Scopes, OpsTypeOK
    <2>. QED  BY <2>1, <2>2, <2>3, SMT
  <1>2. x \in EndedInterval /\ x.outcome = outcome /\ x.at = wall
    BY <1>1 DEF EndedInterval
  <1>3. ended' = Append(ended, x) /\ ended \in Seq(EndedInterval)
    BY DEF IInv, OpsTypeOK
  <1>. HIDE DEF x
  <1>4. /\ n \in Nat /\ DOMAIN ended = 1 .. n
        /\ ended' \in Seq(EndedInterval) /\ Len(ended') = n + 1
        /\ DOMAIN ended' = 1 .. n + 1
        /\ \A i \in 1 .. n : ended'[i] = ended[i] /\ ended[i] \in EndedInterval
        /\ ended'[n + 1] = x
    BY <1>2, <1>3, AppendFacts
  <1>. HIDE DEF n
  <1>5. \A i \in 1 .. n + 1 : i \in 1 .. n \/ i = n + 1
    BY <1>4, SMT
  <1>6. Reported = n /\ Reported' = n
    <2>1. Reported = n
      BY <1>1, ReportedBounds, SMT DEF n
    <2>2. Reported' = Len(ended') - 1
      BY <1>1 DEF Reported, Last
    <2>. QED  BY <1>4, <2>1, <2>2, SMT
  <1>7. n + 1 > 0 /\ n <= n + 1 /\ n <= n /\ n \in Nat
    BY <1>4, SMT
  <1>8. OpsTypeOK'
    <2>1. ready' \in [started: BOOLEAN, lastCompleted: Nat, lastErr: BOOLEAN]
      BY <1>1
    <2>. QED  BY <1>1, <1>4, <2>1 DEF IInv, OpsTypeOK
  <1>9. Scopes'
    BY <1>1, <1>2, <1>4, <1>7 DEF Scopes
  <1>10. Lifecycle'
    <2>1. \A i \in DOMAIN ended' : ended'[i].outcome.err = "error" =>
            \/ "run" \in failures'
            \/ phase' = "scopes" /\ ended'[i].outcome = outcome'
      <3>. SUFFICES ASSUME NEW i \in 1 .. n + 1, ended'[i].outcome.err = "error"
                    PROVE  \/ "run" \in failures
                           \/ ended'[i].outcome = outcome
        BY <1>1, <1>4
      <3>1. CASE i \in 1 .. n
        BY <1>4, <3>1 DEF IInv, Lifecycle
      <3>2. CASE i = n + 1
        BY <1>2, <1>4, <3>2
      <3>. QED  BY <1>5, <3>1, <3>2
    <2>. QED  BY <1>1, <2>1 DEF Lifecycle
  <1>11. ReadinessCurrent'
    <2>1. ready'.started = TRUE /\ ready'.lastCompleted = wall
          /\ (ready'.lastErr <=> outcome.err # "none")
      OBVIOUS
    <2>2. \A i \in 1 .. n : ended[i].at <= wall
      <3>. SUFFICES ASSUME NEW i \in 1 .. n PROVE ended[i].at <= wall
        OBVIOUS
      <3>1. ended[i].at <= ready.lastCompleted /\ ready.lastCompleted <= wall
        BY <1>4 DEF IInv, ReadinessCurrent
      <3>2. ended[i].at \in Nat /\ ready.lastCompleted \in Nat
        BY <1>4 DEF IInv, OpsTypeOK, EndedInterval
      <3>. QED  BY <1>1, <3>1, <3>2, SMT
    <2>3. wall <= wall
      BY <1>1, SMT
    <2>4. \A i \in DOMAIN ended' : ended'[i].at <= wall
      BY <1>2, <1>4, <1>5, <2>2, <2>3
    <2>. QED  BY <1>1, <1>2, <1>4, <1>7, <2>1, <2>3, <2>4 DEF ReadinessCurrent
  <1>12. Answers'
    <2>1. probe' # Nil => probe'.after <= Reported'
      BY <1>6 DEF IInv, Answers
    <2>2. answer # Nil => answer.request.after <= n + 1 /\ n + 1 > answer.request.after
      <3>1. answer # Nil => answer.request.after \in Nat /\ answer.request.after <= n
        BY DEF IInv, OpsTypeOK, Answers, Request, n
      <3>. QED  BY <1>4, <3>1, SMT
    <2>3. AnswersJustified'
      BY <1>4, <1>5, <2>2 DEF IInv, Answers, AnswersJustified
    <2>. QED  BY <1>4, <2>1, <2>2, <2>3 DEF Answers
  <1>13. GaugeTrue'
    <2>1. \A s \in Statuses : gauge[s] = 1 => ActiveIn(ended', s, n)
      BY <1>2, <1>3, <1>6, <1>7, ActiveGrows DEF IInv, GaugeTrue, n
    <2>2. \A l \in DOMAIN allHealthStatuses : ~(l < label')
      BY <1>1, StatusLabels, SMT
    <2>. QED  BY <1>1, <1>6, <2>1, <2>2 DEF GaugeTrue
  <1>14. Pages'
    <2>1. ASSUME scrape # Nil
          PROVE  \A s \in DOMAIN scrape.read : scrape.read[s] = 1 =>
                   ActiveIn(ended', s, scrape.after)
      <3>1. scrape.after \in Nat /\ scrape.after <= n
        BY <1>6, <2>1 DEF IInv, OpsTypeOK, Pages
      <3>. QED  BY <1>2, <1>3, <2>1, <3>1, ActiveGrows DEF IInv, Pages, n
    <2>2. ASSUME page # Nil
          PROVE  /\ page.after <= n + 1
                 /\ \A s \in Statuses : page.read[s] = 1 =>
                      ActiveIn(ended', s, page.after)
      <3>1. page.after \in Nat /\ page.after <= n
        BY <2>2 DEF IInv, OpsTypeOK, Pages, n
      <3>2. page.after <= n + 1
        BY <1>4, <3>1, SMT
      <3>. QED  BY <1>2, <1>3, <2>2, <3>1, <3>2, ActiveGrows DEF IInv, Pages, n
    <2>. QED  BY <1>4, <1>6, <2>1, <2>2 DEF IInv, Pages
  <1>15. LogTypes'
    BY DEF IInv, LogTypes
  <1>16. Logs'
    <2>1. open' \in Last - 2 .. Last - 1 /\ open' \in 1 .. Last - 1
          /\ ~(open \in Last - 2 .. Last - 1) /\ ~(open \in 1 .. Last - 1)
      BY <1>1, SMT
    <2>. SUFFICES ASSUME NEW i \in 1 .. n + 1, ended'[i].outcome.err # "none"
                  PROVE  /\ \/ \E j \in DOMAIN logged : logged[j] = ended'[i].outcome
                            \/ ended'[i].outcome = outcome
                         /\ HasTracer =>
                            \/ \E j \in DOMAIN spans : spans[j] = ended'[i].outcome
                            \/ ended'[i].outcome = outcome
      BY <1>1, <1>4, <2>1 DEF Logs
    <2>2. CASE i \in 1 .. n
      BY <1>4, <2>1, <2>2 DEF IInv, Logs
    <2>3. CASE i = n + 1
      BY <1>2, <1>4, <2>3
    <2>. QED  BY <1>5, <2>2, <2>3
  <1>. QED  BY <1>8, <1>9, <1>10, <1>11, <1>12, <1>13, <1>14, <1>15, <1>16
            DEF IInv

\* The scopes after readiness leave the ended intervals alone.
LEMMA LaterScopeIInv ==
    ASSUME IInv, UNCHANGED <<runVars, outcome, ended, ready, httpVars, wall>>,
           phase = "scopes", open < Last, open' \in 0 .. Last - 1,
           label' \in 0 .. Len(allHealthStatuses) + 1,
           label' > 0 => open' = Last - 1 /\ outcome.record # Nil,
           gauge' \in [Statuses -> {0, 1}],
           GaugeTrue', LogTypes', Logs'
    PROVE  IInv' /\ Reported' = Reported
  <1>. USE DEF runVars, httpVars
  <1>1. Last \in {3, 4} /\ open' < Last /\ open' \in 0 .. Last
    BY ObserverOrder, SMT
  <1>2. Reported' = Reported
    BY <1>1 DEF Reported, Last
  <1>3. OpsTypeOK'
    BY <1>1 DEF IInv, OpsTypeOK
  <1>4. Scopes'
    BY <1>1 DEF IInv, Scopes
  <1>5. Lifecycle'
    BY DEF IInv, Lifecycle
  <1>6. ReadinessCurrent'
    BY DEF IInv, ReadinessCurrent
  <1>7. Answers'
    BY <1>2 DEF IInv, Answers, AnswersJustified
  <1>8. Pages'
    BY <1>2 DEF IInv, Pages
  <1>. QED  BY <1>2, <1>3, <1>4, <1>5, <1>6, <1>7, <1>8 DEF IInv

\* What the closing of the metrics, the logger and the tracer start from.
LEMMA ClosingFacts ==
    ASSUME IInv, phase = "scopes", open < Last
    PROVE  /\ ended \in Seq(EndedInterval) /\ Len(ended) > 0
           /\ Reported = Len(ended) - 1
           /\ ended[Len(ended)].outcome = outcome
           /\ outcome \in Outcomes
           /\ open \in 0 .. Last /\ Last \in {3, 4}
           /\ label \in 0 .. Len(allHealthStatuses) + 1
           /\ gauge \in [Statuses -> {0, 1}]
           /\ logged \in Seq(Outcomes) /\ spans \in Seq(Outcomes)
  BY ReportedBounds, ObserverOrder DEF IInv, OpsTypeOK, Scopes, LogTypes

\* An interval without a record has left the device's status as it was.
LEMMA CloseMetricsEmptyIInv == ASSUME IInv, CloseMetricsEmpty PROVE IInv'
  <1>. USE DEF CloseMetricsEmpty, reportVars, httpVars, runVars
  <1>1. phase = "scopes" /\ open = Last - 1 /\ Last \in {3, 4}
    BY WhichScope
  <1>2. open < Last /\ open' = Last - 2 /\ open' \in 0 .. Last - 1
        /\ open' \in Last - 2 .. Last - 1 /\ open' \in 1 .. Last - 1
    BY <1>1, SMT
  <1>3. label = 0
    BY ClosingFacts, <1>1, <1>2, SMT DEF IInv, OpsTypeOK, Scopes
  <1>4. Reported' = Reported
    BY <1>1, <1>2, SMT DEF Reported, Last
  <1>5. GaugeTrue'
    <2>1. \A s \in Statuses : gauge[s] = 1 => ActiveIn(ended, s, Len(ended))
      BY <1>1, <1>2, ClosingFacts, ActiveStays DEF IInv, GaugeTrue
    <2>2. \A l \in DOMAIN allHealthStatuses : ~(l < label')
      BY <1>3, StatusLabels, SMT
    <2>. QED  BY <1>4, <2>1, <2>2 DEF IInv, GaugeTrue
  <1>6. LogTypes' /\ Logs'
    BY <1>1, <1>2 DEF IInv, LogTypes, Logs
  <1>7. label' \in 0 .. Len(allHealthStatuses) + 1 /\ ~(label' > 0)
        /\ gauge' \in [Statuses -> {0, 1}]
    BY <1>1, <1>2, <1>3, ClosingFacts, SMT
  <1>. QED  BY <1>1, <1>2, <1>5, <1>6, <1>7, LaterScopeIInv

LEMMA CountRecordIInv == ASSUME IInv, CountRecord PROVE IInv'
  <1>. USE DEF CountRecord, httpVars, runVars
  <1>1. phase = "scopes" /\ open = Last - 1 /\ Last \in {3, 4}
    BY WhichScope
  <1>2. open < Last /\ open' = Last - 1 /\ open' \in 0 .. Last - 1
        /\ label' \in 0 .. Len(allHealthStatuses) + 1
    BY <1>1, StatusLabels, SMT
  <1>3. Reported' = Reported
    BY <1>1, <1>2 DEF Reported
  <1>4. GaugeTrue'
    <2>1. \A l \in DOMAIN allHealthStatuses : ~(l < label')
      BY StatusLabels, SMT
    <2>. QED  BY <1>3, <2>1 DEF IInv, GaugeTrue
  <1>5. LogTypes' /\ Logs'
    BY DEF IInv, LogTypes, Logs
  <1>6. gauge' \in [Statuses -> {0, 1}]
    BY <1>1, <1>2, ClosingFacts
  <1>. QED  BY <1>1, <1>2, <1>4, <1>5, <1>6, LaterScopeIInv

\* A label that is set to one is the record's status, so it is active from
\* this interval on; the labels after it are still those of the last record.
LEMMA SetHealthLabelIInv == ASSUME IInv, SetHealthLabel PROVE IInv'
  <1>. USE DEF SetHealthLabel, httpVars, runVars
  <1>1. phase = "scopes" /\ open = Last - 1 /\ Last \in {3, 4}
    BY WhichScope
  <1>2. open < Last /\ open' = open /\ open' \in 0 .. Last - 1
        /\ ~(open' < Last - 1)
    BY <1>1, SMT
  <1>3. label \in 1 .. 4 /\ label' = label + 1 /\ label > 0
        /\ label' \in 0 .. Len(allHealthStatuses) + 1
    BY StatusLabels, SMT
  <1>4. outcome.record # Nil
    BY <1>3 DEF IInv, Scopes
  <1>5. Reported' = Reported
    BY <1>1, <1>2 DEF Reported
  <1>. DEFINE status == allHealthStatuses[label]
              value == IF status = outcome.record.status THEN 1 ELSE 0
  <1>6. gauge \in [Statuses -> {0, 1}] /\ status \in Statuses
        /\ gauge' = [gauge EXCEPT ![status] = value]
    BY <1>1, <1>2, <1>3, ClosingFacts, StatusLabels
  <1>7. value \in {0, 1} /\ (value = 1 => status = outcome.record.status)
    BY SMT
  <1>. HIDE DEF value
  <1>8. /\ gauge' \in [Statuses -> {0, 1}]
        /\ \A s \in Statuses : s # status => gauge'[s] = gauge[s]
        /\ gauge'[status] = 1 => status = outcome.record.status
    BY <1>6, <1>7
  <1>9. GaugeTrue'
    <2>1. ActiveIn(ended, outcome.record.status, Reported)
      <3>1. /\ ended \in Seq(EndedInterval) /\ Len(ended) \in Nat
            /\ Reported \in Nat /\ Reported <= Len(ended)
        BY <1>1, <1>2, ClosingFacts, ReportedBounds
      <3>2. ActiveIn(ended, outcome.record.status, Len(ended))
        BY <1>1, <1>2, <1>4, ClosingFacts, ActiveNow
      <3>. QED  BY <3>1, <3>2, ActiveEarlier
    <2>2. \A s \in Statuses : gauge'[s] = 1 => ActiveIn(ended, s, Reported)
      <3>. SUFFICES ASSUME NEW s \in Statuses, gauge'[s] = 1
                    PROVE  ActiveIn(ended, s, Reported)
        OBVIOUS
      <3>1. CASE s = status
        BY <1>8, <2>1, <3>1
      <3>2. CASE s # status
        BY <1>8, <3>2 DEF IInv, GaugeTrue
      <3>. QED  BY <3>1, <3>2
    <2>3. ASSUME NEW l \in 1 .. 4, l < label', gauge'[allHealthStatuses[l]] = 1
          PROVE  outcome.record.status = allHealthStatuses[l]
      <3>1. CASE l = label
        BY <1>8, <2>3, <3>1
      <3>2. CASE l # label
        <4>1. l < label
          BY <1>3, <2>3, <3>2, SMT
        <4>2. allHealthStatuses[l] \in Statuses /\ allHealthStatuses[l] # status
          BY <1>3, <3>2, StatusLabels
        <4>3. gauge[allHealthStatuses[l]] = 1
          BY <1>8, <2>3, <4>2
        <4>. QED  BY <4>1, <4>3, StatusLabels DEF IInv, GaugeTrue
      <3>. QED  BY <3>1, <3>2
    <2>. QED  BY <1>2, <1>5, <2>2, <2>3, StatusLabels DEF GaugeTrue
  <1>10. LogTypes' /\ Logs'
    BY DEF IInv, LogTypes, Logs
  <1>. QED  BY <1>1, <1>2, <1>3, <1>4, <1>8, <1>9, <1>10, LaterScopeIInv

\* All labels have been set: only the record's status can be active.
LEMMA CloseMetricsIInv == ASSUME IInv, CloseMetrics PROVE IInv'
  <1>. USE DEF CloseMetrics, httpVars, runVars
  <1>1. phase = "scopes" /\ open = Last - 1 /\ Last \in {3, 4}
    BY WhichScope
  <1>2. open < Last /\ open' = Last - 2 /\ open' \in 0 .. Last - 1
        /\ open' \in Last - 2 .. Last - 1 /\ open' \in 1 .. Last - 1
    BY <1>1, SMT
  <1>3. label > 0 /\ label' \in 0 .. Len(allHealthStatuses) + 1 /\ ~(label' > 0)
        /\ \A l \in 1 .. 4 : l < label /\ ~(l < label')
    BY <1>1, <1>2, ClosingFacts, StatusLabels, SMT
  <1>4. outcome.record # Nil
    BY <1>3 DEF IInv, Scopes
  <1>5. Reported' = Reported
    BY <1>1, <1>2, SMT DEF Reported, Last
  <1>6. GaugeTrue'
    <2>1. ActiveIn(ended, outcome.record.status, Len(ended))
      BY <1>1, <1>2, <1>4, ClosingFacts, ActiveNow
    <2>2. \A s \in Statuses : gauge[s] = 1 => s = outcome.record.status
      BY <1>3, StatusLabels DEF IInv, GaugeTrue
    <2>. QED  BY <1>3, <1>5, <2>1, <2>2, StatusLabels DEF IInv, GaugeTrue
  <1>7. LogTypes' /\ Logs'
    BY <1>1, <1>2 DEF IInv, LogTypes, Logs
  <1>8. gauge' \in [Statuses -> {0, 1}]
    BY <1>1, <1>2, ClosingFacts
  <1>. QED  BY <1>1, <1>2, <1>3, <1>6, <1>7, <1>8, LaterScopeIInv

LEMMA CloseLoggerIInv == ASSUME IInv, CloseLogger PROVE IInv'
  <1>. USE DEF CloseLogger, httpVars, runVars
  <1>1. phase = "scopes" /\ open = Last - 2 /\ Last \in {3, 4}
        /\ (HasTracer <=> Last = 4)
    BY WhichScope
  <1>2. open < Last /\ open' = Last - 3 /\ open' \in 0 .. Last - 1
        /\ open < Last - 1 /\ (HasTracer => open' \in 1 .. Last - 1)
    BY <1>1, SMT
  <1>3. label = 0
    BY ClosingFacts, <1>1, <1>2, SMT DEF IInv, OpsTypeOK, Scopes
  <1>4. Reported' = Reported
    BY <1>1, <1>2, SMT DEF Reported, Last
  <1>5. GaugeTrue'
    BY <1>1, <1>2, <1>4 DEF IInv, GaugeTrue
  <1>6. logged \in Seq(Outcomes) /\ outcome \in Outcomes
    BY <1>1, <1>2, ClosingFacts
  <1>7. /\ logged' \in Seq(Outcomes)
        /\ \A j \in DOMAIN logged : j \in DOMAIN logged' /\ logged'[j] = logged[j]
        /\ outcome.err # "none" => \E j \in DOMAIN logged' : logged'[j] = outcome
    <2>1. CASE outcome.record = Nil /\ outcome.err = "none"
      BY <1>6, <2>1
    <2>2. CASE ~(outcome.record = Nil /\ outcome.err = "none")
      <3>1. logged' = Append(logged, outcome)
        BY <2>2
      <3>2. /\ logged' \in Seq(Outcomes)
            /\ Len(logged) \in Nat
            /\ DOMAIN logged = 1 .. Len(logged)
            /\ DOMAIN logged' = 1 .. Len(logged) + 1
            /\ \A j \in 1 .. Len(logged) : logged'[j] = logged[j]
            /\ logged'[Len(logged) + 1] = outcome
        BY <1>6, <3>1, AppendFacts
      <3>3. Len(logged) + 1 \in DOMAIN logged'
            /\ \A j \in DOMAIN logged : j \in DOMAIN logged'
        BY <3>2, SMT
      <3>. QED  BY <3>2, <3>3
    <2>. QED  BY <2>1, <2>2
  <1>8. LogTypes' /\ Logs'
    BY <1>1, <1>2, <1>7 DEF IInv, LogTypes, Logs
  <1>9. label' \in 0 .. Len(allHealthStatuses) + 1 /\ ~(label' > 0)
        /\ gauge' \in [Statuses -> {0, 1}]
    BY <1>1, <1>2, <1>3, ClosingFacts, SMT
  <1>. QED  BY <1>1, <1>2, <1>5, <1>8, <1>9, LaterScopeIInv

LEMMA CloseTracerIInv == ASSUME IInv, CloseTracer PROVE IInv'
  <1>. USE DEF CloseTracer, httpVars, runVars
  <1>1. phase = "scopes" /\ open = 1 /\ Last = 4
    BY WhichScope
  <1>2. open < Last /\ open' = 0 /\ open' \in 0 .. Last - 1 /\ open < Last - 1
        /\ ~(open \in Last - 2 .. Last - 1)
    BY <1>1, SMT
  <1>3. label = 0
    BY ClosingFacts, <1>1, <1>2, SMT DEF IInv, OpsTypeOK, Scopes
  <1>4. Reported' = Reported
    BY <1>1, <1>2, SMT DEF Reported, Last
  <1>5. GaugeTrue'
    BY <1>1, <1>2, <1>4 DEF IInv, GaugeTrue
  <1>6. spans \in Seq(Outcomes) /\ outcome \in Outcomes
    BY <1>1, <1>2, ClosingFacts
  <1>7. /\ spans' \in Seq(Outcomes)
        /\ \A j \in DOMAIN spans : j \in DOMAIN spans' /\ spans'[j] = spans[j]
        /\ \E j \in DOMAIN spans' : spans'[j] = outcome
    <2>1. /\ spans' \in Seq(Outcomes)
          /\ Len(spans) \in Nat
          /\ DOMAIN spans = 1 .. Len(spans)
          /\ DOMAIN spans' = 1 .. Len(spans) + 1
          /\ \A j \in 1 .. Len(spans) : spans'[j] = spans[j]
          /\ spans'[Len(spans) + 1] = outcome
      BY <1>6, AppendFacts
    <2>2. Len(spans) + 1 \in DOMAIN spans'
          /\ \A j \in DOMAIN spans : j \in DOMAIN spans'
      BY <2>1, SMT
    <2>. QED  BY <2>1, <2>2
  <1>8. LogTypes' /\ Logs'
    BY <1>1, <1>2, <1>7 DEF IInv, LogTypes, Logs
  <1>9. label' \in 0 .. Len(allHealthStatuses) + 1 /\ ~(label' > 0)
        /\ gauge' \in [Statuses -> {0, 1}]
    BY <1>1, <1>2, <1>3, ClosingFacts, SMT
  <1>. QED  BY <1>1, <1>2, <1>5, <1>8, <1>9, LaterScopeIInv

(***************************************************************************)
(* The handlers and the clock.  They only read, so the parts of IInv about *)
(* the run and its observers are those of the state before.                *)
(***************************************************************************)
LEMMA HandlerIInv ==
    ASSUME IInv, UNCHANGED <<runVars, scopeVars, reportVars, wall>>,
           probe' # Nil => probe' \in Request,
           answer' # Nil => /\ answer'.request \in Request
                            /\ answer'.failing \in {"none", "storage", "telemetry"},
           scrape' # Nil => scrape' \in [read: Readings, after: Nat],
           page' # Nil => page' \in [read: [Statuses -> {0, 1}], after: Nat],
           Answers', Pages'
    PROVE  IInv'
  <1>. USE DEF runVars, scopeVars, reportVars
  <1>1. Reported' = Reported
    BY DEF Reported
  <1>2. OpsTypeOK'
    BY DEF IInv, OpsTypeOK
  <1>3. Scopes' /\ Lifecycle'
    BY DEF IInv, Scopes, Lifecycle
  <1>4. ReadinessCurrent'
    BY DEF IInv, ReadinessCurrent
  <1>5. GaugeTrue'
    BY <1>1 DEF IInv, GaugeTrue
  <1>6. LogTypes' /\ Logs'
    BY DEF IInv, LogTypes, Logs
  <1>. QED  BY <1>2, <1>3, <1>4, <1>5, <1>6 DEF IInv

LEMMA AskReadyIInv == ASSUME IInv, AskReady PROVE IInv'
  <1>. USE DEF AskReady, runVars, scopeVars, reportVars
  <1>1. Reported' = Reported /\ Reported \in Nat /\ Reported <= Reported
    <2>1. Reported' = Reported
      BY DEF Reported
    <2>2. Reported \in Nat
      BY ReportedBounds
    <2>. QED  BY <2>1, <2>2, SMT
  <1>2. probe' \in Request /\ probe'.after = Reported
    BY <1>1 DEF Request, IInv, OpsTypeOK
  <1>3. Answers'
    BY <1>1, <1>2 DEF Answers, AnswersJustified
  <1>4. Pages'
    BY <1>1 DEF IInv, Pages
  <1>5. scrape' # Nil => scrape' \in [read: Readings, after: Nat]
    BY DEF IInv, OpsTypeOK
  <1>. QED  BY <1>2, <1>3, <1>4, <1>5, HandlerIInv

(***************************************************************************)
(* The answer is computed from the last interval that ended, which is no   *)
(* earlier than the last one reported when the request came, and none      *)
(* ended later than it.                                                    *)
(***************************************************************************)
LEMMA AnswerReadyIInv == ASSUME IInv, AnswerReady PROVE IInv'
  <1>. USE DEF AnswerReady, runVars, scopeVars, reportVars
  <1>. DEFINE n == Len(ended)
              now == probe.asked
              after == probe.after
  <1>1. /\ n \in Nat /\ DOMAIN ended = 1 .. n
        /\ Reported' = Reported /\ Reported <= n /\ Reported \in Nat
    BY ReportedBounds DEF Reported
  <1>2. probe \in Request /\ now \in Nat /\ after \in Nat /\ after <= Reported
    BY DEF IInv, OpsTypeOK, Answers, Request
  <1>3. after <= n
    BY <1>1, <1>2, SMT
  <1>4. ended \in Seq(EndedInterval) /\ ready.lastCompleted \in Nat
        /\ Interval \in Nat /\ 3 * Interval \in Nat
    BY OperationsAssumption, SMT DEF IInv, OpsTypeOK
  <1>5. \A i \in 1 .. n : ended[i].at \in Nat /\ ended[i].at <= ready.lastCompleted
    <2>. SUFFICES ASSUME NEW i \in 1 .. n
                  PROVE  ended[i].at \in Nat /\ ended[i].at <= ready.lastCompleted
      OBVIOUS
    <2>1. ended[i] \in EndedInterval
      BY <1>1, <1>4
    <2>2. ended[i].at \in Nat
      BY <2>1 DEF EndedInterval
    <2>. QED  BY <1>1, <2>2 DEF IInv, ReadinessCurrent
  <1>6. answer'.request = probe /\ answer'.failing = Check(now)
        /\ Check(now) \in {"none", "storage", "telemetry"}
    BY DEF Check
  <1>7. n > 0 => /\ n \in 1 .. n
                 /\ ready.lastCompleted = ended[n].at
                 /\ (ready.lastErr <=> ended[n].outcome.err # "none")
    <2>1. n > 0 => n \in 1 .. n
      BY <1>1, SMT
    <2>. QED  BY <2>1 DEF IInv, ReadinessCurrent
  <1>8. ready.started <=> n > 0
    BY DEF IInv, ReadinessCurrent
  <1>. HIDE DEF n, now, after
  <1>9. Check(now) # "telemetry" =>
          /\ n > 0 /\ n >= after /\ now <= ended[n].at + 3 * Interval
          /\ Check(now) = "none" <=> ended[n].outcome.err = "none"
    <2>. SUFFICES ASSUME Check(now) # "telemetry"
                  PROVE  /\ n > 0 /\ n >= after
                         /\ now <= ended[n].at + 3 * Interval
                         /\ Check(now) = "none" <=> ended[n].outcome.err = "none"
      OBVIOUS
    <2>1. ready.started /\ ~(now > ready.lastCompleted + 3 * Interval)
          /\ (Check(now) = "none" <=> ~ready.lastErr)
      BY DEF Check
    <2>2. n > 0
      BY <1>8, <2>1
    <2>3. now <= ready.lastCompleted + 3 * Interval /\ n >= after
      BY <1>1, <1>2, <1>3, <1>4, <2>1, SMT
    <2>. QED  BY <1>7, <2>1, <2>2, <2>3
  <1>10. Check(now) = "telemetry" =>
           \A i \in 1 .. n : ~(now <= ended[i].at + 3 * Interval)
    <2>. SUFFICES ASSUME Check(now) = "telemetry", NEW i \in 1 .. n
                  PROVE  ~(now <= ended[i].at + 3 * Interval)
      OBVIOUS
    <2>1. n > 0
      BY <1>1, SMT
    <2>2. now > ready.lastCompleted + 3 * Interval
      BY <1>8, <2>1 DEF Check
    <2>. QED  BY <1>2, <1>4, <1>5, <2>2, SMT
  <1>11. AnswersJustified'
    <2>1. CASE Check(now) # "telemetry"
      <3>1. n \in DOMAIN ended /\ n >= after
            /\ now <= ended[n].at + 3 * Interval
            /\ (Check(now) = "none" <=> ended[n].outcome.err = "none")
        BY <1>1, <1>7, <1>9, <2>1
      <3>. QED  BY <1>6, <2>1, <3>1 DEF AnswersJustified, now, after
    <2>2. CASE Check(now) = "telemetry"
      BY <1>1, <1>6, <1>10, <2>2 DEF AnswersJustified, now, after
    <2>. QED  BY <2>1, <2>2
  <1>12. Answers'
    BY <1>3, <1>6, <1>11 DEF Answers, after, n
  <1>13. Pages'
    BY <1>1 DEF IInv, Pages
  <1>14. /\ scrape' # Nil => scrape' \in [read: Readings, after: Nat]
         /\ page' # Nil => page' \in [read: [Statuses -> {0, 1}], after: Nat]
    BY DEF IInv, OpsTypeOK
  <1>. QED  BY <1>2, <1>6, <1>12, <1>13, <1>14, HandlerIInv

LEMMA AskMetricsIInv == ASSUME IInv, AskMetrics PROVE IInv'
  <1>. USE DEF AskMetrics, runVars, scopeVars, reportVars
  <1>1. Reported' = Reported /\ Reported \in Nat /\ Reported <= Reported
    <2>1. Reported' = Reported
      BY DEF Reported
    <2>2. Reported \in Nat
      BY ReportedBounds
    <2>. QED  BY <2>1, <2>2, SMT
  <1>2. [s \in {} |-> 0] \in Readings /\ DOMAIN [s \in {} |-> 0] = {}
    <2>1. [s \in {} |-> 0] \in [{} -> {0, 1}]
      OBVIOUS
    <2>. QED  BY <2>1 DEF Readings
  <1>3. scrape' \in [read: Readings, after: Nat] /\ scrape'.after = Reported
        /\ DOMAIN scrape'.read = {}
    BY <1>1, <1>2
  <1>4. Answers'
    BY <1>1 DEF IInv, Answers, AnswersJustified
  <1>5. Pages'
    BY <1>1, <1>3 DEF Pages
  <1>6. probe' # Nil => probe' \in Request
    BY DEF IInv, OpsTypeOK
  <1>. QED  BY <1>3, <1>4, <1>5, <1>6, HandlerIInv

\* A label is read after the request, when the gauge can only be later.
LEMMA ReadLabelIInv == ASSUME IInv, ReadLabel PROVE IInv'
  <1>. USE DEF ReadLabel, runVars, scopeVars, reportVars
  <1>1. PICK s \in Statuses \ DOMAIN scrape.read :
          scrape' = [scrape EXCEPT !.read =
             [t \in DOMAIN scrape.read \cup {s} |->
                 IF t = s THEN gauge[s] ELSE scrape.read[t]]]
    OBVIOUS
  <1>2. scrape \in [read: Readings, after: Nat] /\ gauge \in [Statuses -> {0, 1}]
    BY DEF IInv, OpsTypeOK
  <1>. DEFINE r == [t \in DOMAIN scrape.read \cup {s} |->
                       IF t = s THEN gauge[s] ELSE scrape.read[t]]
  <1>3. scrape'.read = r /\ scrape'.after = scrape.after
        /\ scrape' = [read |-> r, after |-> scrape.after]
    BY <1>1, <1>2
  <1>4. r \in Readings
    <2>1. PICK S \in SUBSET Statuses : scrape.read \in [S -> {0, 1}]
      BY <1>2 DEF Readings
    <2>2. r \in [S \cup {s} -> {0, 1}]
      BY <1>2, <2>1
    <2>3. S \cup {s} \in SUBSET Statuses
      OBVIOUS
    <2>. QED  BY <2>2, <2>3 DEF Readings
  <1>5. scrape' \in [read: Readings, after: Nat]
    BY <1>2, <1>3, <1>4
  <1>6. Reported' = Reported /\ Reported \in Nat /\ ended \in Seq(EndedInterval)
    BY ReportedBounds DEF Reported, IInv, OpsTypeOK
  <1>7. scrape.after <= Reported /\ scrape.after \in Nat
    BY <1>2 DEF IInv, Pages
  <1>8. \A t \in DOMAIN r : r[t] = 1 => ActiveIn(ended, t, scrape.after)
    <2>. SUFFICES ASSUME NEW t \in DOMAIN r, r[t] = 1
                  PROVE  ActiveIn(ended, t, scrape.after)
      OBVIOUS
    <2>1. CASE t = s
      <3>1. ActiveIn(ended, s, Reported)
        BY <2>1 DEF IInv, GaugeTrue
      <3>. QED  BY <1>6, <1>7, <2>1, <3>1, ActiveEarlier
    <2>2. CASE t # s
      BY <2>2 DEF IInv, Pages
    <2>. QED  BY <2>1, <2>2
  <1>. HIDE DEF r
  <1>9. Pages'
    BY <1>3, <1>6, <1>7, <1>8 DEF IInv, Pages
  <1>10. Answers'
    BY <1>6 DEF IInv, Answers, AnswersJustified
  <1>11. /\ probe' # Nil => probe' \in Request
         /\ answer' # Nil => /\ answer'.request \in Request
                             /\ answer'.failing \in {"none", "storage", "telemetry"}
         /\ page' # Nil => page' \in [read: [Statuses -> {0, 1}], after: Nat]
    BY DEF IInv, OpsTypeOK
  <1>. QED  BY <1>5, <1>9, <1>10, <1>11, HandlerIInv

LEMMA AnswerMetricsIInv == ASSUME IInv, AnswerMetrics PROVE IInv'
  <1>. USE DEF AnswerMetrics, runVars, scopeVars, reportVars
  <1>1. Reported' = Reported /\ Reported \in Nat /\ Reported <= Len(ended)
        /\ Len(ended) \in Nat
    BY ReportedBounds DEF Reported
  <1>2. scrape \in [read: Readings, after: Nat] /\ scrape.after <= Reported
    BY DEF IInv, OpsTypeOK, Pages
  <1>3. page' \in [read: [Statuses -> {0, 1}], after: Nat]
    <2>1. PICK S \in SUBSET Statuses : scrape.read \in [S -> {0, 1}]
      BY <1>2 DEF Readings
    <2>2. scrape.read \in [Statuses -> {0, 1}]
      BY <2>1
    <2>. QED  BY <1>2, <2>2
  <1>4. scrape.after <= Len(ended)
    BY <1>1, <1>2, SMT
  <1>5. Pages'
    BY <1>4 DEF IInv, Pages
  <1>6. Answers'
    BY <1>1 DEF IInv, Answers, AnswersJustified
  <1>7. /\ probe' # Nil => probe' \in Request
        /\ answer' # Nil => /\ answer'.request \in Request
                            /\ answer'.failing \in {"none", "storage", "telemetry"}
    BY DEF IInv, OpsTypeOK
  <1>. QED  BY <1>3, <1>5, <1>6, <1>7, HandlerIInv

LEMMA TimePassesIInv == ASSUME IInv, TimePasses PROVE IInv'
  <1>. USE DEF TimePasses, runVars, scopeVars, reportVars, httpVars
  <1>1. Reported' = Reported
    BY DEF Reported
  <1>2. wall' \in Nat /\ ready'.lastCompleted <= wall'
    BY SMT DEF IInv, OpsTypeOK, ReadinessCurrent
  <1>3. OpsTypeOK'
    BY <1>2 DEF IInv, OpsTypeOK
  <1>4. ReadinessCurrent'
    BY <1>2 DEF IInv, ReadinessCurrent
  <1>5. Scopes' /\ Lifecycle'
    BY DEF IInv, Scopes, Lifecycle
  <1>6. Answers'
    BY <1>1 DEF IInv, Answers, AnswersJustified
  <1>7. GaugeTrue' /\ Pages'
    BY <1>1 DEF IInv, GaugeTrue, Pages
  <1>8. LogTypes' /\ Logs'
    BY DEF IInv, LogTypes, Logs
  <1>. QED  BY <1>3, <1>4, <1>5, <1>6, <1>7, <1>8 DEF IInv

(***************************************************************************)
(* The theorems.                                                           *)
(***************************************************************************)
\* The inductive invariant holds in every reachable state.
THEOREM Invariance == OpsSpec => []IInv
  <1>1. IInv /\ [OpsNext]_opsVars => IInv'
    <2>. SUFFICES ASSUME IInv, [OpsNext]_opsVars PROVE IInv'
      OBVIOUS
    <2>1. CASE Runtime
      BY <2>1, LifecycleStep, BeginIntervalIInv, EndIntervalIInv,
         IntervalReturnsIInv, CloseReadinessIInv, CloseMetricsEmptyIInv,
         CountRecordIInv, SetHealthLabelIInv, CloseMetricsIInv, CloseLoggerIInv,
         CloseTracerIInv
      DEF Runtime, CloseScope
    <2>2. CASE Handlers
      BY <2>2, LifecycleStep, AskReadyIInv, AnswerReadyIInv, AskMetricsIInv,
         ReadLabelIInv, AnswerMetricsIInv
      DEF Handlers
    <2>3. CASE TimePasses
      BY <2>3, TimePassesIInv
    <2>4. CASE UNCHANGED opsVars
      <3>1. UNCHANGED <<scopeVars, reportVars, httpVars, wall>>
            /\ UNCHANGED runVars
        BY <2>4 DEF opsVars
      <3>2. phase' = phase /\ phase' \in Phases /\ Lifecycle'
        BY <3>1 DEF runVars, scopeVars, IInv, OpsTypeOK, Lifecycle
      <3>. QED  BY <3>1, <3>2, QuietStep
    <2>. QED  BY <2>1, <2>2, <2>3, <2>4 DEF OpsNext
  <1>. QED  BY <1>1, InitIInv, PTL DEF OpsSpec

(***************************************************************************)
(* Every answer of /readyz is justified by an interval that ended, however *)
(* the handler interleaves with Readiness.observe and the clock.           *)
(***************************************************************************)
THEOREM ReadyAnswersTrue == OpsSpec => []AnswersJustified
  BY Invariance, PTL DEF IInv, Answers

(***************************************************************************)
(* Every status that a /metrics page shows as active was active since the  *)
(* request came, although Metrics.observe sets the gauge label by label    *)
(* while the page is read label by label.                                  *)
(***************************************************************************)
THEOREM PagesTrue == OpsSpec => []ActiveWasActive
  <1>1. IInv => ActiveWasActive
    BY DEF IInv, Pages, ActiveWasActive, ActiveIn
  <1>. QED  BY <1>1, Invariance, PTL

(***************************************************************************)
(* A process that exits has closed the database, the server and the tracer *)
(* that startOps and runAgent opened, and reports a failed interval.       *)
(***************************************************************************)
THEOREM ExitsClean == OpsSpec => []NothingLeftOpen
  <1>1. IInv => NothingLeftOpen
    BY DEF IInv, Lifecycle, NothingLeftOpen
  <1>. QED  BY <1>1, Invariance, PTL

(***************************************************************************)
(* The series.  Metrics.observe counts a record first, sets the labels of  *)
(* the gauge one by one and the lag last; how many of the ended intervals  *)
(* each of them covers depends on how far it has come.                     *)
(***************************************************************************)
\* Metrics.observe has this interval before it.
Observing == phase = "scopes" /\ open = Last - 1

Counted == IF Observing /\ label = 0 THEN Len(ended) - 1 ELSE Len(ended)

Told == IF Observing THEN Len(ended) - 1 ELSE Len(ended)

Counts ==
    /\ series.processed = Cardinality(RecordsIn(ended, Counted))
    /\ series.received = Cardinality(ReceivedIn(ended, Counted))
    /\ series.commands = Cardinality(CommandsIn(ended, Counted))

LagTold == LagAt(ended, series.lag, Told)

\* While observe sets the labels, those before the next one are right.
GaugeExact ==
    /\ label = 0 => \A s \in Statuses : gauge[s] = 1 <=> StatusAt(ended, s, Told)
    /\ \A l \in DOMAIN allHealthStatuses : l < label =>
         (gauge[allHealthStatuses[l]] = 1 <=>
            outcome.record.status = allHealthStatuses[l])

Lags == {r.lag : r \in Records} \cup {Nil}

SeriesInv ==
    /\ series \in [received: Nat, processed: Nat, commands: Nat, lag: Lags]
    /\ Counts
    /\ LagTold
    /\ GaugeExact

\* What the k-th interval adds to the sums over the ones before it.
LEMMA CountOneMore ==
    ASSUME NEW k \in Nat, NEW S \in SUBSET (1 .. k - 1)
    PROVE  Cardinality(S) \in Nat /\ Cardinality(S \cup {k}) = Cardinality(S) + 1
  <1>1. IsFiniteSet(1 .. k - 1)
    BY FS_Interval
  <1>2. IsFiniteSet(S)
    BY <1>1, FS_Subset
  <1>3. k \notin S
    BY SMT
  <1>. QED  BY <1>2, <1>3, FS_AddElement, FS_CardinalityType

LEMMA NextRecord ==
    ASSUME NEW e, NEW k \in Nat \ {0}, e[k].outcome.record # Nil
    PROVE  /\ RecordsIn(e, k) = RecordsIn(e, k - 1) \cup {k}
           /\ ReceivedIn(e, k) =
                IF e[k].outcome.record.disposition # "missing"
                THEN ReceivedIn(e, k - 1) \cup {k} ELSE ReceivedIn(e, k - 1)
           /\ CommandsIn(e, k) =
                IF e[k].outcome.record.decision # Nil
                THEN CommandsIn(e, k - 1) \cup {k} ELSE CommandsIn(e, k - 1)
           /\ TimedIn(e, k) =
                IF e[k].outcome.record.lag # Nil
                THEN TimedIn(e, k - 1) \cup {k} ELSE TimedIn(e, k - 1)
  <1>1. 1 .. k = (1 .. k - 1) \cup {k} /\ k \notin 1 .. k - 1
    BY SMT
  <1>2. RecordsIn(e, k) = RecordsIn(e, k - 1) \cup {k}
    BY <1>1, Zenon DEF RecordsIn
  <1>3. ReceivedIn(e, k) =
          IF e[k].outcome.record.disposition # "missing"
          THEN ReceivedIn(e, k - 1) \cup {k} ELSE ReceivedIn(e, k - 1)
    BY <1>2, SMT DEF ReceivedIn
  <1>4. CommandsIn(e, k) =
          IF e[k].outcome.record.decision # Nil
          THEN CommandsIn(e, k - 1) \cup {k} ELSE CommandsIn(e, k - 1)
    BY <1>2, SMT DEF CommandsIn
  <1>5. TimedIn(e, k) =
          IF e[k].outcome.record.lag # Nil
          THEN TimedIn(e, k - 1) \cup {k} ELSE TimedIn(e, k - 1)
    BY <1>2, SMT DEF TimedIn
  <1>. QED  BY <1>2, <1>3, <1>4, <1>5

LEMMA NextEmpty ==
    ASSUME NEW e, NEW k \in Nat \ {0}, e[k].outcome.record = Nil
    PROVE  RecordsIn(e, k) = RecordsIn(e, k - 1)
  <1>1. 1 .. k = (1 .. k - 1) \cup {k} /\ k \notin 1 .. k - 1
    BY SMT
  <1>. QED  BY <1>1, Zenon DEF RecordsIn

\* All the sums are those of the same intervals.
LEMMA SameRecords ==
    ASSUME NEW e, NEW d, NEW k, NEW h,
           RecordsIn(e, k) = RecordsIn(d, h),
           \A i \in RecordsIn(e, k) : e[i] = d[i]
    PROVE  /\ ReceivedIn(e, k) = ReceivedIn(d, h)
           /\ CommandsIn(e, k) = CommandsIn(d, h)
           /\ TimedIn(e, k) = TimedIn(d, h)
           /\ \A s : StatusAt(e, s, k) <=> StatusAt(d, s, h)
           /\ \A g : LagAt(e, g, k) <=> LagAt(d, g, h)
  <1>1. /\ ReceivedIn(e, k) = ReceivedIn(d, h)
        /\ CommandsIn(e, k) = CommandsIn(d, h)
    BY DEF ReceivedIn, CommandsIn
  <1>2. TimedIn(e, k) = TimedIn(d, h) /\ \A i \in TimedIn(e, k) : e[i] = d[i]
    BY DEF TimedIn
  <1>3. \A s : StatusAt(e, s, k) <=> StatusAt(d, s, h)
    BY DEF StatusAt
  <1>4. \A g : LagAt(e, g, k) <=> LagAt(d, g, h)
    BY <1>2 DEF LagAt
  <1>. QED  BY <1>1, <1>2, <1>3, <1>4

\* A record decides which status is the last, and the lag if it has one.
LEMMA RecordIsLast ==
    ASSUME NEW e, NEW k \in Nat \ {0}, e[k].outcome.record # Nil
    PROVE  /\ \A s : StatusAt(e, s, k) <=> e[k].outcome.record.status = s
           /\ \A g : LagAt(e, g, k - 1) =>
                LagAt(e, IF e[k].outcome.record.lag = Nil THEN g
                         ELSE e[k].outcome.record.lag, k)
  <1>. DEFINE r == e[k].outcome.record
  <1>1. k \in RecordsIn(e, k) /\ \A j \in RecordsIn(e, k) : j \in Nat /\ j <= k
    BY SMT DEF RecordsIn
  <1>2. \A i \in RecordsIn(e, k) : (\A j \in RecordsIn(e, k) : j <= i) => i = k
    BY <1>1, SMT
  <1>3. \A s : StatusAt(e, s, k) <=> r.status = s
    BY <1>1, <1>2, Zenon DEF StatusAt
  <1>4. ASSUME NEW g, LagAt(e, g, k - 1)
        PROVE  LagAt(e, IF r.lag = Nil THEN g ELSE r.lag, k)
    <2>1. CASE r.lag = Nil
      <3>1. TimedIn(e, k) = TimedIn(e, k - 1)
        BY <2>1, NextRecord
      <3>2. (IF r.lag = Nil THEN g ELSE r.lag) = g
        BY <2>1
      <3>3. LagAt(e, g, k)
        BY <1>4, <3>1, Zenon DEF LagAt
      <3>. QED  BY <3>2, <3>3, Zenon
    <2>2. CASE r.lag # Nil
      <3>1. k \in TimedIn(e, k) /\ \A j \in TimedIn(e, k) : j <= k
        BY <1>1, <2>2 DEF TimedIn
      <3>2. (IF r.lag = Nil THEN g ELSE r.lag) = r.lag
        BY <2>2
      <3>3. LagAt(e, r.lag, k)
        BY <3>1, Zenon DEF LagAt
      <3>. QED  BY <3>2, <3>3, Zenon
    <2>. QED  BY <2>1, <2>2
  <1>. QED  BY <1>3, <1>4, Zenon

LEMMA InitSeries == OpsInit => SeriesInv
  <1>. SUFFICES ASSUME OpsInit PROVE SeriesInv
    OBVIOUS
  <1>. USE DEF OpsInit
  <1>1. ended = <<>> /\ Len(ended) = 0 /\ ~Observing /\ Counted = 0 /\ Told = 0
    <2>1. ended = <<>> /\ Len(ended) = 0
      BY SMT
    <2>2. ~Observing
      BY DEF Observing
    <2>. QED  BY <2>1, <2>2 DEF Counted, Told
  <1>2. 1 .. 0 = {}
    BY SMT
  <1>3. /\ RecordsIn(ended, 0) = {} /\ ReceivedIn(ended, 0) = {}
        /\ CommandsIn(ended, 0) = {} /\ TimedIn(ended, 0) = {}
    BY <1>2, Zenon DEF RecordsIn, ReceivedIn, CommandsIn, TimedIn
  <1>4. series \in [received: Nat, processed: Nat, commands: Nat, lag: Lags]
    BY SMT DEF Lags
  <1>5. Counts
    BY <1>1, <1>3, FS_EmptySet DEF Counts
  <1>6. LagTold
    BY <1>1, <1>3 DEF LagTold, LagAt
  <1>7. GaugeExact
    <2>1. \A l \in DOMAIN allHealthStatuses : ~(l < label)
      BY StatusLabels, SMT
    <2>2. \A s \in Statuses : gauge[s] # 1 /\ ~StatusAt(ended, s, 0)
      BY <1>3 DEF StatusAt
    <2>. QED  BY <1>1, <2>1, <2>2 DEF GaugeExact
  <1>. QED  BY <1>4, <1>5, <1>6, <1>7 DEF SeriesInv

\* A step outside Metrics.observe that ends no interval.
LEMMA SeriesKept ==
    ASSUME SeriesInv, UNCHANGED <<series, gauge, ended, label>>,
           label = 0 \/ outcome' = outcome,
           Observing' <=> Observing
    PROVE  SeriesInv'
  <1>1. Counted' = Counted /\ Told' = Told
    BY DEF Counted, Told
  <1>2. \A l \in DOMAIN allHealthStatuses : label = 0 => ~(l < label)
    BY StatusLabels, SMT
  <1>3. Counts' /\ LagTold'
    BY <1>1 DEF SeriesInv, Counts, LagTold
  <1>4. GaugeExact'
    <2>1. CASE label = 0
      BY <1>1, <1>2, <2>1 DEF SeriesInv, GaugeExact
    <2>2. CASE outcome' = outcome
      BY <1>1, <2>2 DEF SeriesInv, GaugeExact
    <2>. QED  BY <2>1, <2>2
  <1>. QED  BY <1>3, <1>4 DEF SeriesInv

LEMMA CloseReadinessSeries ==
    ASSUME IInv, SeriesInv, CloseReadiness
    PROVE  SeriesInv'
  <1>. USE DEF CloseReadiness, httpVars, runVars
  <1>. DEFINE x == [outcome |-> outcome, at |-> wall]
              n == Len(ended)
  <1>1. Last \in {3, 4} /\ phase = "scopes" /\ open = Last
        /\ outcome \in Outcomes /\ wall \in Nat
    BY WhichScope DEF IInv, Scopes, OpsTypeOK
  <1>2. label = 0 /\ ~Observing /\ Observing'
    <2>1. open' = Last - 1 /\ open # Last - 1
      BY <1>1, SMT
    <2>2. label = 0
      BY <1>1, <2>1, SMT DEF IInv, OpsTypeOK, Scopes
    <2>. QED  BY <1>1, <2>1, <2>2 DEF Observing
  <1>3. x \in EndedInterval /\ ended' = Append(ended, x)
        /\ ended \in Seq(EndedInterval)
    BY <1>1 DEF EndedInterval, IInv, OpsTypeOK
  <1>. HIDE DEF x
  <1>4. /\ n \in Nat /\ Len(ended') = n + 1
        /\ \A i \in 1 .. n : ended'[i] = ended[i]
    BY <1>3, AppendFacts
  <1>5. Counted = n /\ Told = n /\ Counted' = n /\ Told' = n
    <2>1. Counted' = Len(ended') - 1 /\ Told' = Len(ended') - 1
      BY <1>2 DEF Counted, Told
    <2>2. Counted = n /\ Told = n
      BY <1>2 DEF Counted, Told
    <2>. QED  BY <1>4, <2>1, <2>2, SMT
  <1>. HIDE DEF n
  <1>6. RecordsIn(ended', n) = RecordsIn(ended, n)
        /\ \A i \in RecordsIn(ended', n) : ended'[i] = ended[i]
    BY <1>4 DEF RecordsIn
  <1>7. /\ ReceivedIn(ended', n) = ReceivedIn(ended, n)
        /\ CommandsIn(ended', n) = CommandsIn(ended, n)
        /\ \A s : StatusAt(ended', s, n) <=> StatusAt(ended, s, n)
        /\ \A g : LagAt(ended', g, n) <=> LagAt(ended, g, n)
    <2>. SUFFICES ASSUME NEW e, NEW d, NEW k, e = ended', d = ended, k = n
                  PROVE  /\ ReceivedIn(e, k) = ReceivedIn(d, k)
                         /\ CommandsIn(e, k) = CommandsIn(d, k)
                         /\ \A s : StatusAt(e, s, k) <=> StatusAt(d, s, k)
                         /\ \A g : LagAt(e, g, k) <=> LagAt(d, g, k)
      BY Zenon
    <2>1. RecordsIn(e, k) = RecordsIn(d, k) /\ \A i \in RecordsIn(e, k) : e[i] = d[i]
      BY <1>6, Zenon
    <2>2. ReceivedIn(e, k) = ReceivedIn(d, k) /\ CommandsIn(e, k) = CommandsIn(d, k)
      BY <2>1 DEF ReceivedIn, CommandsIn
    <2>3. \A s : StatusAt(e, s, k) <=> StatusAt(d, s, k)
      BY <2>1, SameRecords
    <2>4. \A g : LagAt(e, g, k) <=> LagAt(d, g, k)
      BY <2>1, SameRecords
    <2>. QED  BY <2>2, <2>3, <2>4, Zenon
  <1>8. Counts'
    BY <1>5, <1>6, <1>7 DEF SeriesInv, Counts
  <1>9. LagTold'
    BY <1>5, <1>7 DEF SeriesInv, LagTold
  <1>10. GaugeExact'
    BY <1>2, <1>5, <1>7 DEF SeriesInv, GaugeExact
  <1>. QED  BY <1>8, <1>9, <1>10 DEF SeriesInv

\* The interval that Metrics.observe is given is the last one that ended.
LEMMA ObservedInterval ==
    ASSUME IInv, Closes("metrics")
    PROVE  /\ Observing /\ Len(ended) \in Nat \ {0}
           /\ ended[Len(ended)].outcome = outcome
           /\ outcome.record \in Records \cup {Nil}
           /\ label \in 0 .. 5
           /\ Last - 2 # Last - 1
           /\ open = Last - 1
  <1>1. phase = "scopes" /\ open = Last - 1 /\ Last \in {3, 4}
    BY WhichScope
  <1>2. open < Last /\ Last - 2 # Last - 1
    BY <1>1, SMT
  <1>3. /\ ended \in Seq(EndedInterval) /\ Len(ended) > 0
        /\ ended[Len(ended)].outcome = outcome
        /\ outcome \in Outcomes
        /\ label \in 0 .. Len(allHealthStatuses) + 1
    BY <1>1, <1>2, ClosingFacts
  <1>4. Len(ended) \in Nat \ {0} /\ label \in 0 .. 5
    BY <1>3, StatusLabels, SMT
  <1>5. outcome.record \in Records \cup {Nil}
    BY <1>3 DEF Outcomes
  <1>. QED  BY <1>1, <1>2, <1>3, <1>4, <1>5 DEF Observing

LEMMA CloseMetricsEmptySeries ==
    ASSUME IInv, SeriesInv, CloseMetricsEmpty
    PROVE  SeriesInv'
  <1>. USE DEF CloseMetricsEmpty, reportVars, httpVars, runVars
  <1>. DEFINE n == Len(ended)
  <1>1. Observing /\ n \in Nat \ {0} /\ ended[n].outcome = outcome
        /\ outcome.record = Nil /\ Last - 2 # Last - 1 /\ open = Last - 1
        /\ label \in 0 .. 5
    BY ObservedInterval
  <1>2. label = 0
    BY <1>1, SMT DEF IInv, Scopes
  <1>3. ~Observing'
    <2>1. Last \in {3, 4}
      BY ObserverOrder
    <2>2. open' # Last - 1
      BY <1>1, <2>1, SMT
    <2>. QED  BY <2>2 DEF Observing, Last
  <1>4. Counted = n - 1 /\ Told = n - 1 /\ Counted' = n /\ Told' = n
    BY <1>1, <1>2, <1>3 DEF Counted, Told
  <1>5. RecordsIn(ended, n) = RecordsIn(ended, n - 1)
    BY <1>1, NextEmpty
  <1>6. /\ ReceivedIn(ended, n) = ReceivedIn(ended, n - 1)
        /\ CommandsIn(ended, n) = CommandsIn(ended, n - 1)
        /\ \A s : StatusAt(ended, s, n) <=> StatusAt(ended, s, n - 1)
        /\ \A g : LagAt(ended, g, n) <=> LagAt(ended, g, n - 1)
    BY <1>5, SameRecords
  <1>. HIDE DEF n
  <1>7. Counts'
    BY <1>4, <1>5, <1>6 DEF SeriesInv, Counts
  <1>8. LagTold'
    BY <1>4, <1>6 DEF SeriesInv, LagTold
  <1>9. GaugeExact'
    BY <1>2, <1>4, <1>6 DEF SeriesInv, GaugeExact
  <1>. QED  BY <1>7, <1>8, <1>9 DEF SeriesInv

LEMMA CountRecordSeries ==
    ASSUME IInv, SeriesInv, CountRecord
    PROVE  SeriesInv'
  <1>. USE DEF CountRecord, httpVars, runVars
  <1>. DEFINE n == Len(ended)
              r == outcome.record
  <1>1. Observing /\ n \in Nat \ {0} /\ ended[n].outcome = outcome
        /\ r # Nil /\ label = 0 /\ label' = 1
    BY ObservedInterval
  <1>2. Observing'
    BY <1>1 DEF Observing
  <1>3. Counted = n - 1 /\ Told = n - 1 /\ Counted' = n /\ Told' = n - 1
    BY <1>1, <1>2 DEF Counted, Told
  <1>4. /\ series.received \in Nat /\ series.processed \in Nat
        /\ series.commands \in Nat /\ series.lag \in Lags
    BY DEF SeriesInv
  <1>5. /\ series'.received = series.received
             + (IF r.disposition # "missing" THEN 1 ELSE 0)
        /\ series'.processed = series.processed + 1
        /\ series'.commands = series.commands + (IF r.decision # Nil THEN 1 ELSE 0)
        /\ series'.lag = series.lag
    OBVIOUS
  <1>6. series' \in [received: Nat, processed: Nat, commands: Nat, lag: Lags]
    BY <1>4, SMT
  <1>7. /\ RecordsIn(ended, n) = RecordsIn(ended, n - 1) \cup {n}
        /\ ReceivedIn(ended, n) =
             IF r.disposition # "missing"
             THEN ReceivedIn(ended, n - 1) \cup {n} ELSE ReceivedIn(ended, n - 1)
        /\ CommandsIn(ended, n) =
             IF r.decision # Nil
             THEN CommandsIn(ended, n - 1) \cup {n} ELSE CommandsIn(ended, n - 1)
    <2>1. ended[n].outcome.record = r
      BY <1>1
    <2>. HIDE DEF n
    <2>. QED  BY <1>1, <2>1, NextRecord
  <1>. HIDE DEF n, r
  <1>8. /\ RecordsIn(ended, n - 1) \in SUBSET (1 .. n - 1)
        /\ ReceivedIn(ended, n - 1) \in SUBSET (1 .. n - 1)
        /\ CommandsIn(ended, n - 1) \in SUBSET (1 .. n - 1)
    BY DEF RecordsIn, ReceivedIn, CommandsIn
  <1>9. n \in Nat
    BY <1>1
  <1>10. Counts'
    <2>1. series'.processed = Cardinality(RecordsIn(ended, n))
      BY <1>3, <1>5, <1>7, <1>8, <1>9, CountOneMore DEF SeriesInv, Counts
    <2>2. series'.received = Cardinality(ReceivedIn(ended, n))
      <3>1. series.received = Cardinality(ReceivedIn(ended, n - 1))
        BY <1>3 DEF SeriesInv, Counts
      <3>2. CASE r.disposition # "missing"
        BY <1>5, <1>7, <1>8, <1>9, <3>1, <3>2, CountOneMore
      <3>3. CASE r.disposition = "missing"
        <4>1. ReceivedIn(ended, n) = ReceivedIn(ended, n - 1)
          BY <1>7, <3>3
        <4>2. series'.received = series.received
          BY <1>4, <1>5, <3>3, SMT
        <4>. QED  BY <3>1, <4>1, <4>2
      <3>. QED  BY <3>2, <3>3
    <2>3. series'.commands = Cardinality(CommandsIn(ended, n))
      <3>1. series.commands = Cardinality(CommandsIn(ended, n - 1))
        BY <1>3 DEF SeriesInv, Counts
      <3>2. CASE r.decision # Nil
        BY <1>5, <1>7, <1>8, <1>9, <3>1, <3>2, CountOneMore
      <3>3. CASE r.decision = Nil
        <4>1. CommandsIn(ended, n) = CommandsIn(ended, n - 1)
          BY <1>7, <3>3
        <4>2. series'.commands = series.commands
          BY <1>4, <1>5, <3>3, SMT
        <4>. QED  BY <3>1, <4>1, <4>2
      <3>. QED  BY <3>2, <3>3
    <2>. QED  BY <1>3, <2>1, <2>2, <2>3 DEF Counts
  <1>11. LagTold'
    BY <1>3, <1>5 DEF SeriesInv, LagTold
  <1>12. GaugeExact'
    <2>1. \A l \in DOMAIN allHealthStatuses : ~(l < label') /\ label' # 0
      BY <1>1, StatusLabels, SMT
    <2>2. label' # 0
      BY <1>1, SMT
    <2>. QED  BY <2>1, <2>2 DEF GaugeExact
  <1>. QED  BY <1>6, <1>10, <1>11, <1>12 DEF SeriesInv

LEMMA SetHealthLabelSeries ==
    ASSUME IInv, SeriesInv, SetHealthLabel
    PROVE  SeriesInv'
  <1>. USE DEF SetHealthLabel, httpVars, runVars
  <1>1. Observing /\ Observing' /\ label \in 1 .. 4 /\ label' = label + 1
    BY ObservedInterval, StatusLabels DEF Observing
  <1>2. label # 0 /\ label' # 0
    BY <1>1, SMT
  <1>3. Counted' = Counted /\ Told' = Told
    BY <1>1, <1>2 DEF Counted, Told
  <1>4. Counts' /\ LagTold'
    BY <1>3 DEF SeriesInv, Counts, LagTold
  <1>. DEFINE status == allHealthStatuses[label]
              value == IF status = outcome.record.status THEN 1 ELSE 0
  <1>5. gauge \in [Statuses -> {0, 1}] /\ status \in Statuses
        /\ gauge' = [gauge EXCEPT ![status] = value]
    BY <1>1, StatusLabels DEF IInv, OpsTypeOK
  <1>6. value = 1 <=> status = outcome.record.status
    BY SMT
  <1>. HIDE DEF value
  <1>7. /\ \A s \in Statuses : s # status => gauge'[s] = gauge[s]
        /\ gauge'[status] = value
    BY <1>5
  <1>8. ASSUME NEW l \in 1 .. 4, l < label'
        PROVE  gauge'[allHealthStatuses[l]] = 1 <=>
                 outcome.record.status = allHealthStatuses[l]
    <2>1. CASE l = label
      BY <1>6, <1>7, <2>1
    <2>2. CASE l # label
      <3>1. l < label
        BY <1>1, <1>8, <2>2, SMT
      <3>2. allHealthStatuses[l] \in Statuses /\ allHealthStatuses[l] # status
        BY <1>1, <2>2, StatusLabels
      <3>3. gauge'[allHealthStatuses[l]] = gauge[allHealthStatuses[l]]
        BY <1>7, <3>2
      <3>. QED  BY <3>1, <3>3, StatusLabels DEF SeriesInv, GaugeExact
    <2>. QED  BY <2>1, <2>2
  <1>9. GaugeExact'
    BY <1>2, <1>8, StatusLabels DEF GaugeExact
  <1>. QED  BY <1>4, <1>9 DEF SeriesInv

LEMMA CloseMetricsSeries ==
    ASSUME IInv, SeriesInv, CloseMetrics
    PROVE  SeriesInv'
  <1>. USE DEF CloseMetrics, httpVars, runVars
  <1>. DEFINE n == Len(ended)
              r == outcome.record
              g == IF r.lag = Nil THEN series.lag ELSE r.lag
  <1>1. Observing /\ n \in Nat \ {0} /\ ended[n].outcome = outcome
        /\ label \in 0 .. 5 /\ label' = 0 /\ open = Last - 1
        /\ r \in Records \cup {Nil}
    BY ObservedInterval
  <1>2. label > 0 /\ label # 0 /\ \A l \in 1 .. 4 : l < label /\ ~(l < label')
    BY <1>1, StatusLabels, SMT
  <1>3. r # Nil /\ r \in Records
    BY <1>1, <1>2 DEF IInv, Scopes
  <1>4. ~Observing'
    <2>1. Last \in {3, 4}
      BY ObserverOrder
    <2>2. open' # Last - 1
      BY <1>1, <2>1, SMT
    <2>. QED  BY <2>2 DEF Observing, Last
  <1>5. Counted = n /\ Told = n - 1 /\ Counted' = n /\ Told' = n
    BY <1>1, <1>2, <1>4 DEF Counted, Told
  <1>6. series \in [received: Nat, processed: Nat, commands: Nat, lag: Lags]
    BY DEF SeriesInv
  <1>7. /\ series' \in [received: Nat, processed: Nat, commands: Nat, lag: Lags]
        /\ series'.received = series.received
        /\ series'.processed = series.processed
        /\ series'.commands = series.commands
        /\ series'.lag = g
    <2>1. r.lag \in Lags
      BY <1>3 DEF Lags
    <2>. HIDE DEF r
    <2>2. CASE r.lag = Nil
      BY <1>6, <2>2 DEF r
    <2>3. CASE r.lag # Nil
      <3>1. series' = [series EXCEPT !.lag = r.lag]
        BY <2>3 DEF r
      <3>. QED  BY <1>6, <2>1, <2>3, <3>1
    <2>. QED  BY <2>2, <2>3
  <1>8. Counts'
    BY <1>5, <1>7 DEF SeriesInv, Counts
  <1>9. /\ \A s : StatusAt(ended, s, n) <=> r.status = s
        /\ LagAt(ended, series.lag, n - 1) => LagAt(ended, g, n)
    <2>1. ended[n].outcome.record = r
      BY <1>1
    <2>. QED  BY <1>1, <1>3, <2>1, RecordIsLast, Zenon
  <1>. HIDE DEF g
  <1>10. LagTold'
    BY <1>5, <1>7, <1>9 DEF SeriesInv, LagTold
  <1>11. GaugeExact'
    <2>1. \A s \in Statuses : gauge[s] = 1 <=> r.status = s
      BY <1>2, StatusLabels DEF SeriesInv, GaugeExact
    <2>. QED  BY <1>2, <1>5, <1>9, <2>1, StatusLabels DEF GaugeExact
  <1>. QED  BY <1>7, <1>8, <1>10, <1>11 DEF SeriesInv

\* Everything else leaves the series and what they are about alone.
LEMMA OtherStepsSeries ==
    ASSUME IInv, SeriesInv,
           \/ TracerFails \/ ListenFails \/ StartOps
           \/ OpenFails \/ OpenRepository \/ PrepareFails \/ Prepare
           \/ RunEnds \/ CloseRepository
           \/ BeginShutdown \/ ShutdownTimesOut \/ ShutdownReturns \/ StopTracer
           \/ ServeFails
           \/ BeginInterval \/ EndInterval \/ IntervalReturns
           \/ CloseLogger \/ CloseTracer
           \/ AskReady \/ AnswerReady \/ AskMetrics \/ ReadLabel \/ AnswerMetrics
           \/ TimePasses
           \/ UNCHANGED opsVars
    PROVE  SeriesInv'
  <1>. USE DEF runVars, scopeVars, reportVars, httpVars
  <1>1. Last \in {3, 4} /\ open \in 0 .. Last /\ label \in Nat
    BY ObserverOrder, StatusLabels, SMT DEF IInv, OpsTypeOK
  <1>2. phase = "interval" => open = Last /\ open # Last - 1
    BY <1>1, SMT DEF IInv, Scopes
  <1>3. ~Observing => label = 0
    BY <1>1, SMT DEF IInv, Scopes, Observing
  <1>. DEFINE Kept == /\ UNCHANGED <<series, gauge, ended, label>>
                      /\ label = 0 \/ outcome' = outcome
                      /\ Observing' <=> Observing
  <1>4. CASE \/ TracerFails \/ ListenFails \/ StartOps
             \/ OpenFails \/ OpenRepository \/ PrepareFails \/ Prepare
    <2>1. Kept
      BY <1>4 DEF TracerFails, ListenFails, StartOps, OpenFails, OpenRepository,
                  PrepareFails, Prepare, Observing
    <2>. QED  BY <2>1, SeriesKept
  <1>5. CASE \/ RunEnds \/ CloseRepository
             \/ BeginShutdown \/ ShutdownTimesOut \/ ShutdownReturns \/ StopTracer
             \/ ServeFails
    <2>1. Kept
      BY <1>5 DEF RunEnds, CloseRepository, BeginShutdown, ShutdownTimesOut,
                  ShutdownReturns, StopTracer, ServeFails, Observing
    <2>. QED  BY <2>1, SeriesKept
  <1>6. CASE BeginInterval
    <2>1. Kept
      BY <1>6 DEF BeginInterval, Observing
    <2>. QED  BY <2>1, SeriesKept
  <1>7. CASE EndInterval
    <2>1. ~Observing /\ ~Observing' /\ label = 0
      BY <1>2, <1>3, <1>7 DEF EndInterval, Observing, Last
    <2>2. Kept
      BY <1>7, <2>1 DEF EndInterval
    <2>. QED  BY <2>2, SeriesKept
  <1>8. CASE IntervalReturns
    <2>1. open = 0 /\ 0 # Last - 1
      BY <1>1, <1>8, SMT DEF IntervalReturns
    <2>2. ~Observing /\ ~Observing' /\ label = 0
      BY <1>3, <1>8, <2>1 DEF IntervalReturns, Observing, Last
    <2>3. Kept
      BY <1>8, <2>2 DEF IntervalReturns
    <2>. QED  BY <2>3, SeriesKept
  <1>9. CASE CloseLogger \/ CloseTracer
    <2>1. open \in {1, Last - 2} /\ open' = open - 1
      BY <1>9, WhichScope DEF CloseLogger, CloseTracer
    <2>2. open # Last - 1 /\ open' # Last - 1
      BY <1>1, <2>1, SMT
    <2>3. Kept
      BY <1>9, <2>2 DEF CloseLogger, CloseTracer, Observing, Last
    <2>. QED  BY <2>3, SeriesKept
  <1>10. CASE \/ AskReady \/ AnswerReady \/ AskMetrics \/ ReadLabel
              \/ AnswerMetrics \/ TimePasses
    <2>1. Kept
      BY <1>10 DEF AskReady, AnswerReady, AskMetrics, ReadLabel, AnswerMetrics,
                   TimePasses, Observing
    <2>. QED  BY <2>1, SeriesKept
  <1>11. CASE UNCHANGED opsVars
    <2>1. Kept
      BY <1>11 DEF opsVars, Observing
    <2>. QED  BY <2>1, SeriesKept
  <1>. QED  BY <1>4, <1>5, <1>6, <1>7, <1>8, <1>9, <1>10, <1>11

\* The series cover the intervals that they should in every reachable state.
THEOREM SeriesInvariance == OpsSpec => []SeriesInv
  <1>1. IInv /\ SeriesInv /\ [OpsNext]_opsVars => SeriesInv'
    <2>. SUFFICES ASSUME IInv, SeriesInv, [OpsNext]_opsVars PROVE SeriesInv'
      OBVIOUS
    <2>1. CASE CloseScope
      BY <2>1, CloseReadinessSeries, CloseMetricsEmptySeries, CountRecordSeries,
         SetHealthLabelSeries, CloseMetricsSeries, OtherStepsSeries
      DEF CloseScope
    <2>2. CASE OpsNext /\ ~CloseScope
      BY <2>2, OtherStepsSeries DEF OpsNext, Runtime, Handlers
    <2>. QED  BY <2>1, <2>2, OtherStepsSeries
  <1>. QED  BY <1>1, InitSeries, Invariance, PTL DEF OpsSpec

(***************************************************************************)
(* Outside the closing of the scopes all reports tell the same story, for  *)
(* any number of intervals: the series are the sums over the records, the  *)
(* gauge and the lag those of the last one, and the log and the trace have *)
(* every failure (Metrics.observe, logInterval, Tracing.BeginInterval).    *)
(***************************************************************************)
THEOREM ReportsTrue == OpsSpec => []ReportsAgree
  <1>1. IInv /\ SeriesInv => ReportsAgree
    <2>. SUFFICES ASSUME IInv, SeriesInv, phase # "scopes"
                  PROVE  SeriesAgree /\ FailuresLogged
      BY DEF ReportsAgree
    <2>1. ~Observing
      BY DEF Observing
    <2>2. label = 0
      BY SMT DEF IInv, OpsTypeOK, Scopes
    <2>3. Counted = Len(ended) /\ Told = Len(ended)
      BY <2>1 DEF Counted, Told
    <2>4. SeriesAgree
      BY <2>2, <2>3 DEF SeriesInv, Counts, LagTold, GaugeExact, SeriesAgree
    <2>5. FailuresLogged
      BY DEF IInv, Logs, FailuresLogged
    <2>. QED  BY <2>4, <2>5
  <1>. QED  BY <1>1, Invariance, SeriesInvariance, PTL

=============================================================================
