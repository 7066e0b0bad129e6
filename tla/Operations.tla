----------------------------- MODULE Operations -----------------------------
(***************************************************************************)
(* How one run reports on itself, and how the process around it starts and *)
(* stops: the observers that the runtime hands every interval to           *)
(* (MultiObserver with the tracer, the logger, the metrics and readiness), *)
(* the HTTP handlers that read what they left, and startOps, runAgent and  *)
(* opsStack.close of the command line agent.                               *)
(*                                                                         *)
(* The runtime is one goroutine and each handler another; they share the   *)
(* readiness fields, guarded by a mutex, and the metric series, each of    *)
(* them atomic by itself.  An interval is reduced to what processInterval  *)
(* gives its observers: a record or none, and an error or none (EdgeAgent  *)
(* models the steps inside).  Time is the wall clock, in which readiness   *)
(* measures whatever the agent's own pace is.                              *)
(***************************************************************************)
EXTENDS Naturals, Sequences, FiniteSets

CONSTANTS
    Interval,      \* the -interval flag
    Records,       \* the records an interval can produce
    HasServer,     \* -ops-address is set
    HasTracer,     \* -otlp-endpoint is set
    MaxIntervals,  \* bound: intervals of the run
    MaxWall,       \* bound: the wall clock stops here
    Nil            \* no record, no request, no answer

ASSUME OperationsAssumption ==
    /\ Interval \in Nat \ {0}
    /\ HasServer \in BOOLEAN
    /\ HasTracer \in BOOLEAN
    /\ MaxIntervals \in Nat
    /\ MaxWall \in Nat
    /\ Nil \notin Records

VARIABLES
    phase,      \* where the process is
    db,         \* the repository: "closed" or "open"
    server,     \* the ops server: "none", "serving", "failed" or "stopped"
    tracer,     \* the tracer provider: "none", "open" or "stopped"
    failures,   \* what the process has failed at so far
    outcome,    \* what ended the interval, while its scope is being closed
    open,       \* how many observers' scopes are open
    label,      \* the next label of the health gauge that observe sets
    ready,      \* the fields of Readiness
    series,     \* the metric series
    gauge,      \* the labels of the health gauge
    logged,     \* the interval lines of the log
    spans,      \* the ended interval spans
    wall,       \* the wall clock
    probe,      \* the /readyz request being handled, or Nil
    answer,     \* the answer to the last one, or Nil
    scrape,     \* the /metrics request being handled, or Nil
    page,       \* the health gauge the last one was answered with
    ended       \* history: the intervals that ended, in order

runVars == <<phase, db, server, tracer, failures>>
scopeVars == <<outcome, open, label, ended>>
reportVars == <<ready, series, gauge, logged, spans>>
httpVars == <<probe, answer, scrape, page>>
opsVars == <<runVars, scopeVars, reportVars, httpVars, wall>>

allHealthStatuses == <<"online", "stale", "offline", "invalid">>

Statuses == {allHealthStatuses[i] : i \in DOMAIN allHealthStatuses}

\* In the order they are opened.
Observers ==
    IF HasTracer THEN <<"tracer", "logger", "metrics", "readiness">>
    ELSE <<"logger", "metrics", "readiness">>

Outcomes == [record: Records \cup {Nil}, err: {"none", "error", "cancelled"}]

OpsInit ==
    /\ phase = "off"
    /\ db = "closed"
    /\ server = "none"
    /\ tracer = "none"
    /\ failures = {}
    /\ outcome = Nil
    /\ open = 0
    /\ label = 0
    /\ ready = [started |-> FALSE, lastCompleted |-> 0, lastErr |-> FALSE]
    /\ series = [received |-> 0, processed |-> 0, commands |-> 0, lag |-> Nil]
    /\ gauge = [s \in Statuses |-> 0]
    /\ logged = <<>>
    /\ spans = <<>>
    /\ wall = 0
    /\ probe = Nil
    /\ answer = Nil
    /\ scrape = Nil
    /\ page = Nil
    /\ ended = <<>>

(***************************************************************************)
(* startOps: the tracer provider, then the listener.  A listener that      *)
(* fails closes what was opened before it.                                 *)
(***************************************************************************)
TracerFails ==
    /\ phase = "off"
    /\ HasTracer
    /\ phase' = "exited"
    /\ failures' = {"startup"}
    /\ UNCHANGED <<db, server, tracer, scopeVars, reportVars, httpVars, wall>>

\* Mutant: a failed listener returns at once.
ListenFails_Returns ==
    /\ phase = "off"
    /\ HasServer
    /\ phase' = "exited"
    /\ tracer' = IF HasTracer THEN "open" ELSE "none"
    /\ failures' = {"startup"}
    /\ UNCHANGED <<db, server, scopeVars, reportVars, httpVars, wall>>

ListenFails ==
    /\ phase = "off"
    /\ HasServer
    /\ phase' = "stopping"
    /\ tracer' = IF HasTracer THEN "open" ELSE "none"
    /\ failures' = {"startup"}
    /\ UNCHANGED <<db, server, scopeVars, reportVars, httpVars, wall>>

StartOps ==
    /\ phase = "off"
    /\ phase' = "opening"
    /\ tracer' = IF HasTracer THEN "open" ELSE "none"
    /\ server' = IF HasServer THEN "serving" ELSE "none"
    /\ UNCHANGED <<db, failures, scopeVars, reportVars, httpVars, wall>>

(***************************************************************************)
(* runAgent: open the database, prepare the run (migrate, restore, build   *)
(* the simulator), process intervals, close the database.                  *)
(***************************************************************************)
OpenFails ==
    /\ phase = "opening"
    /\ phase' = "closing"
    /\ failures' = failures \cup {"run"}
    /\ UNCHANGED <<db, server, tracer, scopeVars, reportVars, httpVars, wall>>

OpenRepository ==
    /\ phase = "opening"
    /\ phase' = "prepare"
    /\ db' = "open"
    /\ UNCHANGED <<server, tracer, failures, scopeVars, reportVars, httpVars,
                   wall>>

\* Cancellation counts as a clean end of the run.
PrepareFails ==
    /\ phase = "prepare"
    /\ phase' = "ended"
    /\ \/ failures' = failures \cup {"run"}
       \/ UNCHANGED failures
    /\ UNCHANGED <<db, server, tracer, scopeVars, reportVars, httpVars, wall>>

Prepare ==
    /\ phase = "prepare"
    /\ phase' = "between"
    /\ UNCHANGED <<db, server, tracer, failures, scopeVars, reportVars,
                   httpVars, wall>>

\* The interval bound is reached or the context is cancelled.
RunEnds ==
    /\ phase = "between"
    /\ phase' = "ended"
    /\ UNCHANGED <<db, server, tracer, failures, scopeVars, reportVars,
                   httpVars, wall>>

\* MultiObserver.BeginInterval opens every observer's scope.
BeginInterval ==
    /\ phase = "between"
    /\ Len(ended) < MaxIntervals
    /\ phase' = "interval"
    /\ open' = Len(Observers)
    /\ UNCHANGED <<db, server, tracer, failures, outcome, label, ended,
                   reportVars, httpVars, wall>>

\* The deferred call at the end of processInterval.
EndInterval ==
    /\ phase = "interval"
    /\ \E o \in Outcomes :
          /\ o.err = "cancelled" => o.record = Nil
          /\ outcome' = o
    /\ phase' = "scopes"
    /\ UNCHANGED <<db, server, tracer, failures, open, label, ended,
                   reportVars, httpVars, wall>>

(***************************************************************************)
(* The scopes are closed one after the other, the last opened first.       *)
(***************************************************************************)
Closes(observer) ==
    phase = "scopes" /\ open > 0 /\ Observers[open] = observer

\* Mutant: only an interval that succeeded is recorded.
CloseReadiness_OnlySuccess ==
    /\ Closes("readiness")
    /\ ready' = IF outcome.err # "none" THEN ready
                ELSE [started |-> TRUE, lastCompleted |-> wall,
                      lastErr |-> FALSE]
    /\ ended' = Append(ended, [outcome |-> outcome, at |-> wall])
    /\ open' = open - 1
    /\ UNCHANGED <<runVars, outcome, label, series, gauge, logged, spans,
                   httpVars, wall>>

CloseReadiness ==
    /\ Closes("readiness")
    /\ ready' = [started |-> TRUE, lastCompleted |-> wall,
                 lastErr |-> outcome.err # "none"]
    /\ ended' = Append(ended, [outcome |-> outcome, at |-> wall])
    /\ open' = open - 1
    /\ UNCHANGED <<runVars, outcome, label, series, gauge, logged, spans,
                   httpVars, wall>>

\* Metrics.observe: nothing for an interval without a record.
CloseMetricsEmpty ==
    /\ Closes("metrics")
    /\ outcome.record = Nil
    /\ open' = open - 1
    /\ UNCHANGED <<runVars, outcome, label, ended, reportVars, httpVars, wall>>

\* Mutant: a missing heartbeat counts as received.
CountRecord_Missing ==
    /\ Closes("metrics")
    /\ outcome.record # Nil
    /\ label = 0
    /\ series' = [series EXCEPT
          !.received = @ + 1,
          !.processed = @ + 1,
          !.commands = @ + (IF outcome.record.decision # Nil THEN 1 ELSE 0)]
    /\ label' = 1
    /\ UNCHANGED <<runVars, outcome, open, ended, ready, gauge, logged, spans,
                   httpVars, wall>>

CountRecord ==
    /\ Closes("metrics")
    /\ outcome.record # Nil
    /\ label = 0
    /\ series' = [
          received |-> series.received +
              (IF outcome.record.disposition # "missing" THEN 1 ELSE 0),
          processed |-> series.processed + 1,
          commands |-> series.commands +
              (IF outcome.record.decision # Nil THEN 1 ELSE 0),
          lag |-> series.lag]
    /\ label' = 1
    /\ UNCHANGED <<runVars, outcome, open, ended, ready, gauge, logged, spans,
                   httpVars, wall>>

\* One turn of the loop over the labels of the health gauge.  The record of an
\* interval always has a status, so the code's test for an empty one holds.
SetHealthLabel ==
    /\ Closes("metrics")
    /\ label \in DOMAIN allHealthStatuses
    /\ LET status == allHealthStatuses[label]
       IN  gauge' = [gauge EXCEPT ![status] =
                        IF status = outcome.record.status THEN 1 ELSE 0]
    /\ label' = label + 1
    /\ UNCHANGED <<runVars, outcome, open, ended, ready, series, logged, spans,
                   httpVars, wall>>

\* The lag is left alone by a record that carries no timestamp.
CloseMetrics ==
    /\ Closes("metrics")
    /\ label > Len(allHealthStatuses)
    /\ series' = IF outcome.record.lag = Nil THEN series
                 ELSE [series EXCEPT !.lag = outcome.record.lag]
    /\ label' = 0
    /\ open' = open - 1
    /\ UNCHANGED <<runVars, outcome, ended, ready, gauge, logged, spans,
                   httpVars, wall>>

\* logInterval: no line when no interval happened.
CloseLogger ==
    /\ Closes("logger")
    /\ logged' = IF outcome.record = Nil /\ outcome.err = "none" THEN logged
                 ELSE Append(logged, outcome)
    /\ open' = open - 1
    /\ UNCHANGED <<runVars, outcome, label, ended, ready, series, gauge, spans,
                   httpVars, wall>>

\* The span outlives every scope opened inside it.
CloseTracer ==
    /\ Closes("tracer")
    /\ spans' = Append(spans, outcome)
    /\ open' = open - 1
    /\ UNCHANGED <<runVars, outcome, label, ended, ready, series, gauge,
                   logged, httpVars, wall>>

(***************************************************************************)
(* Back in Run: an error ends the run, and so does an exhausted source.    *)
(***************************************************************************)
IntervalReturns ==
    /\ phase = "scopes"
    /\ open = 0
    /\ phase' = IF outcome.record # Nil /\ outcome.err = "none"
                THEN "between" ELSE "ended"
    /\ failures' = IF outcome.err = "error" THEN failures \cup {"run"}
                   ELSE failures
    /\ outcome' = Nil
    /\ UNCHANGED <<db, server, tracer, open, label, ended, reportVars,
                   httpVars, wall>>

CloseRepository ==
    /\ phase = "ended"
    /\ phase' = "closing"
    /\ db' = "closed"
    /\ \/ UNCHANGED failures
       \/ failures' = failures \cup {"close"}
    /\ UNCHANGED <<server, tracer, scopeVars, reportVars, httpVars, wall>>

(***************************************************************************)
(* opsStack.close.  Shutdown closes the listener and then waits for the    *)
(* requests being handled, no longer than the grace; Serve has returned    *)
(* by then, with what its buffered channel keeps.                          *)
(***************************************************************************)
Handling == probe # Nil \/ scrape # Nil

BeginShutdown ==
    /\ phase = "closing"
    /\ phase' = IF server = "none" THEN "stopping" ELSE "draining"
    /\ server' = IF server = "serving" THEN "stopped" ELSE server
    /\ UNCHANGED <<db, tracer, failures, scopeVars, reportVars, httpVars, wall>>

\* Mutant: Shutdown waits for the handlers without a deadline.
ShutdownTimesOut_Never ==
    /\ phase = "draining"
    /\ FALSE
    /\ UNCHANGED opsVars

ShutdownTimesOut ==
    /\ phase = "draining"
    /\ Handling
    /\ phase' = "stopping"
    /\ failures' = failures \cup {"server"}
    /\ UNCHANGED <<db, server, tracer, scopeVars, reportVars, httpVars, wall>>

\* The error of a server that stopped serving by itself is reported here.
ShutdownReturns ==
    /\ phase = "draining"
    /\ ~Handling
    /\ phase' = "stopping"
    /\ failures' = IF server = "failed" THEN failures \cup {"server"}
                   ELSE failures
    /\ UNCHANGED <<db, server, tracer, scopeVars, reportVars, httpVars, wall>>

\* The tracer provider flushes or runs out of the grace; the process ends.
StopTracer ==
    /\ phase = "stopping"
    /\ phase' = "exited"
    /\ tracer' = IF tracer = "open" THEN "stopped" ELSE tracer
    /\ \/ UNCHANGED failures
       \/ tracer = "open" /\ failures' = failures \cup {"tracer"}
    /\ UNCHANGED <<db, server, scopeVars, reportVars, httpVars, wall>>

(***************************************************************************)
(* The HTTP server and its handlers.  /readyz reads the clock before it    *)
(* gets the mutex; /metrics reads the series one by one.  Bound: one       *)
(* request at a time; handlers only read, so none can see another.         *)
(***************************************************************************)
ServeFails ==
    /\ server = "serving"
    /\ phase # "exited"
    /\ server' = "failed"
    /\ UNCHANGED <<phase, db, tracer, failures, scopeVars, reportVars,
                   httpVars, wall>>

\* A connection that is kept alive outlives a listener that failed, but not
\* the shutdown.
Reachable ==
    /\ server \in {"serving", "failed"}
    /\ phase \notin {"draining", "stopping", "exited"}

\* How many intervals every observer has been told of.
Reported == IF phase = "scopes" /\ open < Len(Observers)
            THEN Len(ended) - 1 ELSE Len(ended)

AskReady ==
    /\ Reachable
    /\ ~Handling
    /\ probe' = [asked |-> wall, after |-> Reported]
    /\ answer' = Nil
    /\ page' = Nil
    /\ UNCHANGED <<runVars, scopeVars, reportVars, scrape, wall>>

\* The failing check, if any.
Check(now) ==
    IF ~ready.started \/ now > ready.lastCompleted + 3 * Interval
    THEN "telemetry"
    ELSE IF ready.lastErr THEN "storage" ELSE "none"

AnswerReady ==
    /\ probe # Nil
    /\ phase # "exited"
    /\ answer' = [request |-> probe, failing |-> Check(probe.asked)]
    /\ probe' = Nil
    /\ UNCHANGED <<runVars, scopeVars, reportVars, scrape, page, wall>>

\* Mutant: a page is kept and served again.
AskMetrics_Cached ==
    /\ Reachable
    /\ ~Handling
    /\ scrape' = [read |-> IF page = Nil THEN [s \in {} |-> 0] ELSE page.read,
                  after |-> Reported]
    /\ page' = Nil
    /\ answer' = Nil
    /\ UNCHANGED <<runVars, scopeVars, reportVars, probe, wall>>

AskMetrics ==
    /\ Reachable
    /\ ~Handling
    /\ scrape' = [read |-> [s \in {} |-> 0], after |-> Reported]
    /\ page' = Nil
    /\ answer' = Nil
    /\ UNCHANGED <<runVars, scopeVars, reportVars, probe, wall>>

ReadLabel ==
    /\ scrape # Nil
    /\ phase # "exited"
    /\ \E s \in Statuses \ DOMAIN scrape.read :
          scrape' = [scrape EXCEPT !.read =
             [t \in DOMAIN @ \cup {s} |-> IF t = s THEN gauge[s] ELSE @[t]]]
    /\ UNCHANGED <<runVars, scopeVars, reportVars, probe, answer, page, wall>>

AnswerMetrics ==
    /\ scrape # Nil
    /\ phase # "exited"
    /\ DOMAIN scrape.read = Statuses
    /\ page' = scrape
    /\ scrape' = Nil
    /\ UNCHANGED <<runVars, scopeVars, reportVars, probe, answer, wall>>

TimePasses ==
    /\ phase # "exited"
    /\ wall < MaxWall
    /\ wall' = wall + 1
    /\ UNCHANGED <<runVars, scopeVars, reportVars, httpVars>>

CloseScope ==
    \/ CloseReadiness
    \/ CloseMetricsEmpty \/ CountRecord \/ SetHealthLabel \/ CloseMetrics
    \/ CloseLogger
    \/ CloseTracer

\* The goroutine that runs the agent.
Runtime ==
    \/ TracerFails \/ ListenFails \/ StartOps
    \/ OpenFails \/ OpenRepository \/ PrepareFails \/ Prepare
    \/ RunEnds \/ BeginInterval \/ EndInterval \/ CloseScope
    \/ IntervalReturns \/ CloseRepository
    \/ BeginShutdown \/ ShutdownTimesOut \/ ShutdownReturns \/ StopTracer

Handlers ==
    \/ ServeFails
    \/ AskReady \/ AnswerReady
    \/ AskMetrics \/ ReadLabel \/ AnswerMetrics

OpsNext == Runtime \/ Handlers \/ TimePasses

(***************************************************************************)
(* The goroutine of the run goes on: an interval's calls return, and both  *)
(* shutdowns are bounded by the grace.  Nobody has to finish a request.    *)
(***************************************************************************)
OpsSpec == OpsInit /\ [][OpsNext]_opsVars /\ WF_opsVars(Runtime)

(***************************************************************************)
(* Properties.                                                             *)
(***************************************************************************)

\* The intervals of e, up to the k-th, that ended with a record.
RecordsIn(e, k) == {i \in 1 .. k : e[i].outcome.record # Nil}

\* The records among them that did arrive, decided something, have a lag.
ReceivedIn(e, k) == {i \in RecordsIn(e, k) :
                        e[i].outcome.record.disposition # "missing"}
CommandsIn(e, k) == {i \in RecordsIn(e, k) : e[i].outcome.record.decision # Nil}
TimedIn(e, k) == {i \in RecordsIn(e, k) : e[i].outcome.record.lag # Nil}

\* The last of them has status s.
StatusAt(e, s, k) ==
    \E i \in RecordsIn(e, k) :
        e[i].outcome.record.status = s /\ \A j \in RecordsIn(e, k) : j <= i

\* The last lag among them, Nil if there is none.
LagAt(e, lag, k) ==
    \/ TimedIn(e, k) = {} /\ lag = Nil
    \/ \E i \in TimedIn(e, k) :
          e[i].outcome.record.lag = lag /\ \A j \in TimedIn(e, k) : j <= i

\* The series are the sum of the records (metrics.go, observe).
SeriesAgree ==
    LET n == Len(ended)
    IN  /\ series.processed = Cardinality(RecordsIn(ended, n))
        /\ series.received = Cardinality(ReceivedIn(ended, n))
        /\ series.commands = Cardinality(CommandsIn(ended, n))
        /\ LagAt(ended, series.lag, n)
        /\ \A s \in Statuses : gauge[s] = 1 <=> StatusAt(ended, s, n)

\* Failures that the series do not show have a log line, and a span.
FailuresLogged ==
    \A i \in DOMAIN ended : ended[i].outcome.err # "none" =>
        /\ \E j \in DOMAIN logged : logged[j] = ended[i].outcome
        /\ HasTracer => \E j \in DOMAIN spans : spans[j] = ended[i].outcome

(***************************************************************************)
(* Between two intervals, and after the last one, all reports tell the     *)
(* same story.  Every record is counted once, a missing heartbeat is not   *)
(* counted as received, exactly the last record's status is active, the    *)
(* lag is that of the last record that had a timestamp, and an interval    *)
(* that failed without a record, of which the series say nothing, is in    *)
(* the log and the trace (docs/OPERATIONS.md).                             *)
(***************************************************************************)
ReportsAgree == phase # "scopes" => SeriesAgree /\ FailuresLogged

(***************************************************************************)
(* An answer of /readyz is justified by an interval at least as late as    *)
(* the last one fully reported when the request came: ready only if it     *)
(* ended without an error and within three intervals of the request,       *)
(* "storage" only if one ended in an error, and "telemetry" only if none   *)
(* was recent.  The scopes, the clock and the mutex may interleave in any  *)
(* way (readiness.go, server.go).                                          *)
(***************************************************************************)
AnswersJustified ==
    answer # Nil =>
        LET asked == answer.request.asked
            recent == {i \in DOMAIN ended : asked <= ended[i].at + 3 * Interval}
            since == {i \in DOMAIN ended : i >= answer.request.after}
        IN  /\ answer.failing = "none" =>
                 \E i \in since \cap recent : ended[i].outcome.err = "none"
            /\ answer.failing = "storage" =>
                 \E i \in since \cap recent : ended[i].outcome.err # "none"
            /\ answer.failing = "telemetry" =>
                 \A i \in recent : i > answer.request.after

(***************************************************************************)
(* A status that a page of /metrics shows as active was the device's       *)
(* status at some time between the request and the answer, even if the     *)
(* page was read while observe was at work.                                *)
(***************************************************************************)
ActiveWasActive ==
    page # Nil =>
        \A s \in Statuses : page.read[s] = 1 =>
            \E i \in DOMAIN ended :
                /\ ended[i].outcome.record # Nil
                /\ ended[i].outcome.record.status = s
                /\ \A j \in i + 1 .. page.after : ended[j].outcome.record = Nil

(***************************************************************************)
(* Whatever ends the process in good order, nothing that it opened is left *)
(* open, and an interval that ended in an error makes it exit with one     *)
(* (ops.go: "Whatever ends the run, close shuts down what startOps         *)
(* opened"; main.go: "The database is closed whatever ends it").           *)
(***************************************************************************)
NothingLeftOpen ==
    phase = "exited" =>
        /\ db = "closed"
        /\ server # "serving"
        /\ tracer # "open"
        /\ (\E i \in DOMAIN ended : ended[i].outcome.err = "error") =>
             "run" \in failures

(***************************************************************************)
(* A process that has started to stop does stop, although a client never   *)
(* finishes its request: the grace bounds the shutdown.                    *)
(***************************************************************************)
ShutdownCompletes == phase = "ended" ~> phase = "exited"

=============================================================================
