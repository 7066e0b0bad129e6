# Wattfeder in TLA+

Wattfeder is an edge agent for one household with a photovoltaic system and a
battery. Once per interval it asks a telemetry source for an observation,
classifies it, makes the result durable in SQLite, and applies the battery
command that the policy decided on. The observations are unreliable (late, out
of order, repeated, broken, missing), the process can be stopped or killed at any
point, and the next process continues from the database. This directory models
that loop, its database, its domain rules, the simulator it is run with, the demo
that injects faults, schema upgrades, and how a process reports on itself and
stops. TLC checks the models on small instances; TLAPS proves their safety for every
value of the constants.

## The system and its parts

| Part | State | Operations | Talks to |
| --- | --- | --- | --- |
| Household domain (`internal/household`) | none, pure | `Validate`, `ApplyTelemetry`, `Classify`, health evaluation | called by the runtime and by the repository's validation |
| Battery policy (`policy.go`) | none, pure | `Decide` | called by the runtime |
| Edge runtime (`internal/application/run.go`) | latest state and health in memory, interval count | `Run`, `processInterval` | clock, source, repository, sink, observer, record writer |
| Clock (`clock.go`) | instant clock's time | `Now`, `Tick` | runtime |
| Persistence contract (`internal/persistence`) | none | `Snapshot`, `CommitProcessing`, `Migrate`; `ObservationResult.Validate` | runtime |
| SQLite repository (`internal/persistence/sqlite`) | four tables, one connection | the contract, one transaction per result | database file |
| Migrations | schema version | version 1, version 2 with a health backfill | repository |
| Simulator and fault schedule (`internal/simulator`) | simulated time, battery, pending and prior sample | `Next`, `Apply` | is the runtime's source and its sink |
| Command line agent (`cmd/wattfeder`) | none of its own | `runAgent`, `processTelemetry`, ops start and close | all of the above |
| Observability (`internal/observability`) | metrics, readiness, spans | observer scopes, HTTP handlers | runtime (called), HTTP clients |
| Demo (`internal/demo`) | scenario, the records of the run | validates a scenario, runs one day with its faults on an in-memory database, compares | runtime, simulator |

What is hard here:

- **Crash and restart.** Commit and apply are two effects; the process can die
  between them. Memory is rebuilt from a join over two tables.
- **Unreliable delivery.** The same event again, an older one after a newer one,
  an arrival exactly at the limit, an envelope that cannot be trusted.
- **Cancellation.** It races the tick in a `select`, must not reach an observation
  that is already classified, and yet has to end the run.
- **Two views of one truth.** Classification happens before the commit decides
  whether the event is new. Afterwards memory, database, battery and the written
  record have to agree.
- **Two validators.** What `Classify` accepts, `ObservationResult.Validate` may
  refuse.
- **A battery that is measured before it is moved.** The charge in an observation
  is that of before its own command. Whoever uses it later, after a restart or from
  a repeated sample, uses an old one.
- **Upgrades.** A version 1 database has no health rows, and the snapshot starts
  from them. A migration can be cut off at every statement.
- **Readers beside the runtime.** HTTP handlers read readiness and metrics while an
  interval is being reported, and while the process is being closed.

`PROJECT.json` lists these as hazards, each at its line with its properties.

## Modules

| Module | Models |
| --- | --- |
| `Household` | `internal/household`: values, validation, classification, health, policy. Constant-level, no variables. |
| `Repository` | The four tables of one device, result validation, `Snapshot`, and the effect of one committed result as one step. |
| `EdgeAgent` | `application.Run` and the process around it, over `Repository`. |
| `AtomicRepository` | What `persistence.Repository` promises about `CommitProcessing`. |
| `SqliteRepository` | `CommitProcessing` statement by statement; implements `AtomicRepository`. |
| `Simulator` | `internal/simulator`: the timeline, the battery, the pending sample, the fault schedule. |
| `ClosedLoop` | `EdgeAgent` with `Simulator` as source and sink, as `main.go` builds it; implements `EdgeAgent`. |
| `Demo` | `internal/demo`: scenario validation, one day of `ClosedLoop` with faults, the comparison. |
| `Migrations` | `sqlite.Open` and `Migrate` on whatever database is found. |
| `Operations` | Observers, metrics, readiness, the ops server, and the start and end of the process. |
| `RepositoryProofs` | Theorems about `Household` and `Repository` and their proofs. |
| `EdgeAgentProofs`, `SqliteRepositoryProofs`, `MigrationsProofs`, `SimulatorProofs`, `OperationsProofs`, `ClosedLoopProofs`, `DemoProofs` | Theorems about the module of that name and their proofs. |
| `MC...` | Small instances for TLC, one per checked module. |

Two refinements hold the modules together. `EdgeAgent` uses the repository as one
atomic step per call, and `SqliteRepository` shows that the transaction is one: it
instantiates `AtomicRepository` with its own tables. `ClosedLoop` implements
`AgentSpec`, the specification of `EdgeAgent`, so that what is proved of the agent
with any source holds with the simulator. TLC checks both, and the safety of both is
proved.

The definitions keep the names of the code
(`Classify`, `TransitionHealth`, `ReplaceLatestStateIfNewer`). A definition with
an underscore and marked *Mutant* is a plausible bug of the definition after it.
It is never used by a specification and only serves to show that a property would
notice.

### How the data is abstracted

An instant is a natural number and 0 is Go's zero time. Whether a time is in UTC
is a flag where the code looks at the location. A blank or padded identity in an
observation and a nil pointer are `Nil`, as the domain refuses both; in a fault,
where `Fault.Validate` refuses a blank event ID only, a padded one is `PaddedID`,
and `EventIDOf` makes it `Nil` in the delivery. An absent, NaN or infinite
measurement is `NoValue`. Power is counted in percent of battery capacity per
interval and price in cents per kWh, which turns the policy's arithmetic into
integers (rounding is not modelled).
Reason texts are left out. Timestamps are stored as RFC 3339 text with
nanoseconds; validation admits only UTC, for which writing and parsing give the
same instant back, so a row holds the instant.

### EdgeAgent: state and actions

| Variable | Code |
| --- | --- |
| `events`, `latestRow`, `commands`, `healthRow` | tables `telemetry_events`, `latest_device_states`, `commands`, `device_health` (the rows of the agent's device) |
| `state`, `health`, `count` | the locals of `Run` |
| `cur` | `classification`, `receivedAt` and `command` of `processInterval` before the commit |
| `out` | `result` of `processInterval` after the commit |
| `cancelled`, `now` | the run's context, the clock |
| `pc`, `exit` | where the run is and how the last one ended |
| `applied` | what reached the battery |
| `mine`, `late` | history: the commands this run committed, the observations it took after cancellation |

A step is what happens between two calls that leave the process:

| Action | Code |
| --- | --- |
| `Start`, `Restore`, `RestoreCancelled`, `RestoreFails` | `processTelemetry` in `main.go`, then `Snapshot` in `Run` |
| `CheckDone`, `CheckCancelled`, `CheckNext` | the loop head: interval bound, `ctx.Err()`, first interval or wait |
| `Tick`, `WaitCancelled` | the `select` between the tick and the context |
| `SourceExhausted`, `SourceFails`, `Observe`, `Panic` | `Source.Next`, then `Classify`, `Decide`, `ReceivedAtOrNow`, `buildObservationResult` |
| `CommitRefused`, `CommitFails`, `CommitTimesOut`, `CommitDuplicate`, `CommitStored` | `CommitProcessing` under the grace and what follows from its status |
| `Apply`, `ApplyFails` | `Sink.Apply`, also called without a command |
| `Write`, `WriteFails` | `buildRecord` and `Agent.Write`, then the loop's increment |
| `Cancel`, `Crash` | SIGTERM or SIGINT; the process is killed |

`exit` keeps apart what the command line reports: `completed` and `cancelled` are
success; `failed`, `grace` (the grace ran out), `refused` (validation) and
`panicked` are not; `crashed` reports nothing.

The source is external to this model: at every interval it offers any envelope of
`Envelopes`, or none, in any order and any number of times. That includes what the
simulator and its fault schedule deliver and more. The sink counts what it is
given; a sink that fails has not acted.

### Simulator, ClosedLoop and Demo

`NextObservation` and `Complete` are the two operations of the simulator; a call out
of turn or with an invalid command is an error that changes nothing, so the guard
of each action is its precondition and `SimulatorNeverRefuses` states that the agent
never meets the error. `simTime`, `soc`, `pending`, `prior` and `step` are the
simulator's fields; `day` and `dayEnd` stand for the daily factors and their end,
`delivered` remembers the last delivery. `FaultValid`, `ScheduleValid`, `FaultAt`
and `Observation` are the fault schedule. Its validation and the domain's disagree
on one thing: `fault.go` line 138 lets an out-of-order event ID with surrounding
whitespace pass, which `telemetry.go` line 34 refuses, so such a fault delivers a
rejected observation instead of a late one. The properties count it with the faults
that spoil a delivery (`Spoils`). The PV, load and price curves and the
random factors are data, given as `Profiles` per day and time of day. An event ID
is a hash of household and time in the code and the tagged time in the model.

In `ClosedLoop`, `Sense` is `Source.Next` together with the classification,
`Actuate` is `Sink.Apply` together with `Complete`, and `LoopStart` builds a new
simulator with the charge of the latest stored state (`RestoredSOC`).

`Demo` adds the loaded `scenario`, the records kept by its `Write` callback and the
`verdict`. Its database and simulator live and end with the process, so there is one
run and no restart. A failing open or migration of the in-memory database is the
`RestoreFails` of the agent.

### Migrations

`tables` is the version the tables really have, `history` the rows of
`schema_migrations`; `tx` is the transaction's view of all of it. One action is one
statement: `ReadHistory` (`appliedMigrations`), `SkipApplied`, `ApplyMigration`,
`RecordMigration`, `CommitMigrations`; `RefuseHistory`, `StatementFails` and `Crash`
roll back. `Process` lets the agent store results in a migrated database, which the
next start finds again.

### Operations

The runtime is one goroutine, every HTTP handler another. `phase` is where the
process is, from `startOps` through `runAgent` to `opsStack.close`. An interval is
reduced to what its observers get, a record or none and an error or none. Its
scopes close one by one, last opened first (`CloseReadiness`, the metrics steps,
`CloseLogger`, `CloseTracer`), and the four labels of the health gauge are set one
by one (`SetHealthLabel`), because the handlers can run between any two of these.
`metrics.go` skips them for a record with an empty health status; a record always
has one, so the model has no such test.
`/readyz` reads the clock when it is asked and the readiness fields, under their
mutex, when it answers; `/metrics` reads label by label. `ended` is the history of
intervals with the wall time at which readiness learned of them.

## Runs

| Run | Instance | Shows |
| --- | --- | --- |
| `agent_real` | `-pace real`, unbounded, late ticks, clock up to 8 | type correctness; memory equals the database; newest event wins; commands traceable; applied at most once and only when durable; written records true; no observation ends the run; durable records kept; transition time kept |
| `agent_fast` | `-pace fast -intervals 2`, fairness, a source that also delivers foreign and non-UTC events | a clean stop loses no command; at most one more observation after cancellation; cancellation ends the run; a bounded run ends; such events can end a run, but only the household's own UTC events become durable |
| `sqlite` | seven results of every shape, failures and crashes at every statement | the transaction implements the atomic contract, including that every call returns; the tables refer to each other as the schema and the join need |
| `simulator` | days of two intervals, five samples, all pairs of faults from 90 candidates, valid or not, any commands | one interval per sample and the right day's factors; the battery in range; what a validated fault is for is what it does: which intervals go without a delivery, which envelopes are well formed and which telemetry the domain accepts, a padded event ID included |
| `closed_loop` | four intervals over two days, no faults, crash and restart at every step | no protocol error between agent and simulator; the reserve is kept; the durable history has no gap and its charges explain each other; it implements `EdgeAgent` |
| `demo` | a day of twelve intervals: `scenarios/unreliable-telemetry-day.json`, all kinds of faults alone and in pairs, duplicates of late samples, invalid scenarios | the shipped scenario's decisions, dispositions and health statuses are those its file expects of the program; each record follows from its fault, its health from the record before where the observation says nothing of it, and the day is recorded whole; commands fit the battery and the reserve is kept; the command ends |
| `migrations` | empty, version 1, version 2 and foreign databases with up to three events | foreign databases stay untouched; tables match the history; nothing is lost; the snapshot finds the device; migrating again changes nothing |
| `operations` | server and tracer, two intervals with records of two kinds or none, wall clock to 4, probes and scrapes | series, log and spans agree; probe answers are justified by the intervals; a status shown as active was active; everything opened is closed; the shutdown completes |
| `health_restored`, `online_unseen`, `observation_ends_run`, `reserve_crossed` | as above | documentation and code disagree, see below |

**Bounds.** Interval 2 lets an arrival be on time, exactly one interval late
(allowed) and later (suppressed). Clock 8 from start 1 passes the offline threshold
of 6 and the stale threshold of 4 and allows four observations and several
restarts. Three events are enough for a newest, an older and a third between them;
event `b` comes twice with different receive times, so that a redelivery is
classified differently from the first delivery. Restarts and crashes are unbounded.
In an unbounded run `count` only tells the first interval from later ones, as the
code does, and stays at 1. `MaxDelay` 1 bounds how late a tick or a restart is.
`MaxTime` stops the clock: a real run that reaches it waits for a tick that never
comes, which matters only for liveness, and liveness is checked with `-pace fast`,
where two intervals need exactly the time there is.

For the newer modules: five samples over days of two intervals cross two day
boundaries. The charge of `closed_loop` starts at 95, so that the surplus runs into
the full battery, the evening into half of it and the second day into the reserve.
The demo's day begins with discharges that reach the reserve in the fourth interval,
so that one decision on an old charge would cross it; the faults lie around that
interval, up to three steps long, and in pairs at a distance of zero to two steps.
Two intervals are enough for `Operations`, since readiness keeps only the last one
and a torn read spans two records. Wall clock 4 with interval 1 is one past the
three intervals after which readiness turns. One request is handled at a time:
handlers only read, so none can see another.

`ShippedDayMatches` ties the model to the program. The profile of the run is
computed from the simulator's curves for the scenario's battery and rounded to
percent and cents, with the day's PV factor taken as 0.9 and the others as 1; the
expectations are those of the scenario file, which the repository's own acceptance
test compares with the program.

**Deadlock** is checked for `EdgeAgent`, `SqliteRepository`, `ClosedLoop` and
`Migrations`, where a stopped process can always be started again. `Simulator` stops
at its bound, and `Demo` and `Operations` are one process that ends.

**Fairness.** `FairSpec` has weak fairness of the running agent's own steps: its
calls return, commit and apply because the grace bounds them, and Go schedules a
runnable goroutine. The tick is fair only while the run is not cancelled, because
`Clock.Tick` delivers nothing after cancellation. `Start`, `Cancel` and `Crash` have
no fairness. `SqliteRepository` has weak fairness of its statements: each one ends,
if only with the error of the caller's deadline. `DemoSpec` is fair like `FairSpec`:
the command goes on by itself, and ticks come while the run is not cancelled.
`OpsSpec` is fair to the goroutine of the run, whose two shutdown calls are
bounded by the grace. No handler and no client has to finish a request.

## Where documentation and code disagree

1. `health_restored`: ADR-004 line 65 says only a valid, newer event restores
   health. A source reports itself unavailable (offline); in the next interval
   nothing arrives; `evaluateHealth` looks only at the two thresholds, neither of
   which has passed, and falls through to online.
2. `online_unseen`: `device_health.go` line 9 says online means that an event has
   been accepted. If nothing arrives in the first interval of a new device, both
   thresholds are skipped for zero times and the device is recorded as online.
3. `observation_ends_run`: ADR-004 lines 22-23 say every observation gets a
   disposition and processing continues. An event time outside UTC passes
   `Classify` and is refused by `ObservationResult.Validate`, which ends the run
   without a record. The bundled simulator always uses UTC, so this concerns other
   implementations of the `TelemetrySource` port. `SourceContract` in `EdgeAgent`
   states what a source has to keep to; under it the property holds
   (`agent_real`, theorem `ObservationsAreStorable`).
4. `reserve_crossed`: `docs/MODEL.md` line 91 says discharge power is limited to
   preserve the reserve. The duplicate fault delivers the prior interval's own
   sample. If that interval was a duplicate itself, its sample was never delivered
   (although `fault.go` line 20 says the prior observation is redelivered verbatim),
   so a new event arrives whose charge is from before the last discharge. It is one
   interval old, which still counts as on time, and the policy spends the same charge
   twice. It takes a command in the interval whose sample was kept back: after a
   missing heartbeat or a rejected delivery the battery idles, and the sample a
   duplicate then brings still has the present charge. `ReserveKept` holds in
   `closed_loop` under any restarts, and in the demo under every schedule whose
   duplicates repeat a sample that was delivered (theorem `DemoReserveKept`).

Three properties are weaker than the documentation on purpose, because the code does
not do more. ADR-004 line 32 says a missing heartbeat makes the device `stale` and
later `offline`; `evaluateHealth` leaves a device `online` until its latest event is
two intervals old, makes it `stale` then, and keeps an `invalid` one `invalid` until it
is offline. `HealthFollows` in `Demo`, which says what a record's health may be after
the one before, therefore admits `online` for a missing heartbeat (`health_restored`
and `online_unseen` are consequences of the same code). `docs/OPERATIONS.md` line 42
says the health gauge is 1 on the active status and 0 on the others; the labels are
set one by one while a scrape reads them, so a page can show none or two, and
`ActiveWasActive` only says that what it shows was true at some time during the
request. Line 12 says ready means that the agent can
currently process and persist; after a clean run the database is closed before the
server is shut down and a probe in between is told ready, so `AnswersJustified` speaks
of the intervals and not of the repository.

## Proofs

All theorems hold for every value of the constants: any set of events and devices,
any interval, envelopes, results, databases, schedules and profiles, any number of
steps, crashes and restarts. The bounds of the models (`MaxTime`, `MaxSteps`,
`MaxWall`) are constants too, so a theorem does not depend on how large they are.

### Assumptions

Most of the named ASSUMEs say that a constant has its type, that the interval is
positive, and that `Nil` and `NoValue` are none of the values they stand in for.
TLC evaluates them in every run. The others say something about the surroundings:

| Assumption | Says | Why the code justifies it |
| --- | --- | --- |
| `ResultsAssumption`, `CallerAssumption` (`SqliteRepository`, `Migrations`) | a result handed to `CommitProcessing` has the types of the code; a valid one with an accepted event carries its state | `ObservationResult.Validate` does not ask for the state, `buildObservationResult` always sets it. `CallerKeepsAssumptions` proves that the agent only hands over such results |
| `DatabasesAssumption` (`Migrations`) | a database whose recorded history is a prefix of ours has the tables and the consistency of that version | such a file was written by an earlier version of this program. A file with our tables and no history is not one, and is out of scope |
| `SimulatorAssumption`, `ConfigAssumption` | `ConfigValid`: what `Config.Validate` checks | `New` refuses other configurations |
| `ScheduleAssumption` (`Simulator`), `LateEventAssumption` (`Demo`) | the ID of an injected out-of-order event is none of the timeline's and its time is not Go's zero time (`LateEventsApart`); `PaddedID` is no event ID the domain accepts | nothing in the code enforces the first two; the IDs of the timeline are hashes. `Telemetry.Validate` refuses a padded ID |
| `DemoAssumption` (`Demo`) | the demo's agent runs for as many intervals as the day has | `demo.Run` sets `MaxIntervals` to `sim.IntervalsPerDay()` |
| `TimelineAssumption` (`ClosedLoop`) | every sample of a run has an event ID | the code makes the IDs by hashing and cannot run out of them |

Four theorems or groups of theorems have a hypothesis of their own, stated in the
theorem. `ObservationsAreStorable` assumes `SourceContract`, without which the run
`observation_ends_run` shows the opposite. The theorems of `ClosedLoopProofs` assume
`Faultless`, as `main.go` configures no faults; with faults `HistoryHasNoGap` is false
by design, and `ReserveKept` because of `reserve_crossed`. Two theorems of
`DemoProofs` have a condition on the schedule within the formula, `RepeatsDelivered`,
that excludes it. `LoopIsAgent` also assumes `SimulatorEnvelopes`, that the
agent's source may deliver what the simulator delivers. The instance `MCClosedLoop`
satisfies both.

### Household and Repository

`RepositoryProofs` proves what `Classify` returns for any envelope, prior state and
prior health: its type, its shape (an accepted event is strictly newer, its state is
the event's, a command is suppressed exactly if it arrived more than an interval
late) and that a health that keeps its status keeps its transition time. It also
proves `DecideKeepsReserve`: the policy's command is always one that
`Command.Validate` accepts, and a discharge ends at or above the reserve.
Of the repository it proves what `ObservationResult.Validate` guarantees of a result
of any origin, and that storing a valid one keeps the tables typed. The other proofs
build on these.

### The agent

`EdgeAgentProofs` proves the inductive invariant `IInv` and derives the theorems
from it. The properties alone are not inductive. What has to be added:

- `Control`: which of `cur` and `out` is set at which location. Without it a commit
  could take place with nothing classified.
- `HealthPresent`: whenever there is a latest state there is a health row. Without
  it the join of `Snapshot` could lose the state and memory would part from the
  database at a restart.
- `InFlight`: the observation on its way to the commit was classified against the
  current `state`. This is why `CommitStored` never meets a stored state that is
  newer, and why an applied command is always recorded.
- `Report`: what the outcome says between commit and write, in particular that its
  command is durable and not yet applied. This gives at most once.
- `MineDelivered`: outside of the window between commit and apply, every command of
  this run has been applied. This gives the clean stop.
- `LateIsLast`: after cancellation at most the observation of a ready tick is
  processed.

The proof has one lemma per action; all the ways a run ends share `FinishIInv`.
`DurableForever` and `TransitionsMarked` are action properties that follow from
`IInv` and the one action that changes tables, `CommitStored`. `OwnData` adds its
own small invariant and needs only the repository's validation, not the source's
good behaviour.

### The transaction

`ImplementsAtomic` proves the refinement of the atomic contract, step by step: every
statement of the transaction is a stutter of `AtomicRepository`, except the one that
decides the call. It and `TablesStayConsistent` rest on `TxIsPartOfCall`: the
tables are still those that `BeginTx` saw, and the transaction's view is these tables
with exactly the records written so far. So a rollback needs no argument, and at the
commit the view is the tables with the whole result in them.

### Migrations

The invariant adds `Progress`, what is known of the transaction's view at each turn
of the loop: the recorded history up to `index` is ours, the view has the version that
its own history records, and it keeps what was found. The loop compares from the front, so it
reaches a migration that it would have to apply only if everything recorded before
is ours. This gives `ForeignSafe`; the other theorems follow at the commit, where the
view becomes the database. `Idempotent` is an action property.

### The simulator

`Calendar` counts: the samples of day `d` are the `IntervalsPerDay` ones after
`(d - 1) * IntervalsPerDay`, and `dayEnd` is where the next day's begin. The code has
no such count, it only compares instants. `SamplesValid` says that a sample passes
the domain's validation whatever commands have moved the battery, which a fault needs
that changes one measurement of it.

### The process and its reports

- `Scopes` and `Lifecycle` say what is open in which phase; `ExitsClean` follows.
- `ReadinessCurrent` and `Answers`: the readiness fields are those of the last interval
  whose first scope has closed, and an answer was formed from such fields.
- `GaugeTrue` and `Pages`: a label that is 1 names the status of the last record or,
  while the labels are being set, of the one before; what a page has read so far was
  active after the request had come in.
- `SeriesInv`: counters and lag run behind the ended intervals by the one whose scopes
  are being closed, and by no more.

### Agent and simulator together

After a restart the simulator begins its timeline anew while the database remembers
the old one. `LoopIInv` in `ClosedLoopProofs` adds to the agent's invariant:

- `Turns`: who has the pending sample at which location, and how steps and intervals
  are counted. This gives `ProtocolKept`.
- `SampleInFlight`, `SampleStored`: what the agent holds is the sample that the
  simulator has pending, with the charge the battery still has. This gives
  `CommandsFit`.
- `Ledger`: the stored events are the samples up to the latest state's. This gives
  `HistoryGapless`.
- `Place`: the simulator is at most one interval beyond the latest stored sample. Up to
  there it replays: every event is a duplicate, there is no command and the charge
  stays the restored one. Beyond, its charge is one that may follow the stored one.
  Without this clause nothing relates the charge of the new simulator to the history.
- `Charges`, `Reserve`: with `Place` and `DecideKeepsReserve` these give
  `ChargesExplained` and `ReserveIsKept`.

`LoopIsAgent` proves the refinement: what is proved of the agent holds of the agent
that `main.go` builds. `LoopNeverRefuses` shows that its simulator keeps to
`SourceContract`.

### The demo

`DemoProofs` proves `RecordsFollow`: for every scenario that passes `Validate`, with
any valid schedule of faults, each interval's record says what the fault of that
interval calls for, whatever faults came before it, and the health of a duplicate, a
late or a missing event follows from the record before. The demo is both an agent and a
simulator, so `DemoIInv` contains the invariants of both: the agent's directly, the
simulator's by instantiating `SimulatorProofs` (`SimulatorAssumptionsHold` shows that
its assumptions hold here, `SameSteps` that its steps are the demo's). What it adds:

- `DemoTurns`, `Fresh`: as `Turns` above, and that the demo's one start finds the
  simulator it would build.
- `Ahead`: nothing that is stored lies ahead of the simulator's clock, neither as the
  latest state nor as one of the day's events. This is why the sample of an interval
  is accepted, however late it is reported and whatever was injected before.
- `SamplesStored`: every sample that was delivered is stored, so a duplicate of it is
  found to be one. For a duplicate of a sample that never was delivered, nothing is
  known, and `RecordFollowsFault` says nothing of it.
- `ScheduledInFlight`, `ScheduledOutcome`: the classified observation and its outcome,
  by the fault of the interval. `ClassifiedAsScheduled` is the lemma behind them, what
  `Classify` makes of each effect a fault can have: none, five kinds, or a delivery
  the domain rejects.
- `DemoReserve`: the reserve, for schedules with `RepeatsDelivered`.
- `Records`: one record per interval that is over, each following its fault.

A second invariant, `HealthCarried`, is proved on top of it: between two intervals the
health in memory is that of the latest record, a duplicate leaves it, and any other
observation changes it as `ClassifyHealthFollows` says.

`RepeatsDelivered` says that a duplicate follows an interval whose own sample was
delivered. It is enough for the battery to be safe: under it `DemoCommandsFit` and
`DemoReserveKept` hold, without it `reserve_crossed` is a counterexample to the
second. It is not necessary, since it also excludes harmless schedules, such as a
duplicate after a missing heartbeat. `DemoProtocolKept` and `DemoNeverRefuses` need no
such condition: no schedule makes the agent call its simulator out of turn, and none
delivers something that ends the run.

### Only model-checked

- Liveness (`CancelEndsRun`, `BoundedRunEnds`, `DemoEnds`, `ShutdownCompletes`, and the
  part of `AtomicSpec` that says that every call returns): out of the prover's reach.
- `ShippedDayMatches`: a statement about one concrete scenario, computed by TLC.

## The plan

1. Done: `Household`, `Repository`, the domain and the records.
2. Done: `EdgeAgent` with crash, restart and cancellation.
3. Done: `SqliteRepository` implements `AtomicRepository`.
4. Done: `EdgeAgentProofs`, the inductive invariant and its theorems.
5. Done: `Simulator`, the pending-sample protocol, the battery and the faults.
6. Done: `ClosedLoop` and `Demo`, the composition with and without faults.
7. Done: `Migrations`.
8. Done: `Operations`.
9. Done: proofs of the safety of `SqliteRepository`, `Migrations`, `Simulator`,
   `Operations` and `ClosedLoop`, and of both refinements.
10. Done: `DemoProofs`, `RecordsFollowFaults` for every valid scenario, and which
    schedules keep the battery safe.

## Not modelled

- **A second agent on the same database.** The design documents exclude it; every
  model has one process. What it would do to the memory of the first is listed as a
  hazard without a property.
- **Flag parsing and JSON decoding.** Input handling without state. The values they
  let through are the constants of the models, and their checks those of
  `ScenarioValid` and `FaultValid`.
- **The curves and random factors** of the simulator. Only their values matter, and
  they are data here. Floating-point rounding in policy and battery is left out.
- **Formatting** of records, logs, metrics and the demo's progress lines, the
  duration histogram, the child span of the traced repository and the OTLP exporter.
  No state of the agent depends on them.
- **Panics in `Operations`.** The observers' scope is closed after a panic as after
  an error. A panic needs an event that breaks `SourceContract`, see
  `ObservationsAreStorable`; `EdgeAgent` models it.
- **An exhausted source in `ClosedLoop`.** The simulator never ends; `EdgeAgent`
  models sources that do.
