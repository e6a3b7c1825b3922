# lotus-risk: a verification development

lotus-risk (`src/`) is a FastAPI service that computes risk analytics: risk
metrics, drawdowns, rolling metrics, historical attribution, concentration,
regime-scenario evaluation, event cohorts and mandate health.  A request is
admitted by a middleware, validated, sources are read from lotus-core and
lotus-performance over HTTP, numbers come out with a statement of how far they
can be relied on.  What is hard to test is in four places:

* the durable **scenario-evaluation jobs** (`src/src/app/scenario_jobs`): a
  relational store shared by API replicas and worker processes;
* the **conversations with the upstreams**: asynchronous workflows against
  lotus-performance, simulation sessions in lotus-core, pages, evidence that has
  to be admitted or refused;
* the **process and its gate**: HTTP pools that live as long as the
  application, and the resolution of a principal against identity authorities
  that change while it runs;
* the **calculators**: boundaries of windows and buckets, joins of series that
  lack days, and the qualification of a result that rests on several sources.

This directory holds TLA+ models of all four; TLC configurations that check
them on small instances; and proofs for TLAPS about the jobs and those who read
them, the asynchronous workflows, the simulation sessions, the process and its
gate, the drawdowns, the rolling metrics, and the currencies of rates and
returns.

## 1. Inventory

| Component | State | Operations | Hard about it | What makes it correct |
| --- | --- | --- | --- | --- |
| Scenario job store (`scenario_jobs/store.py`, `db/models.py`) | tables of jobs and contribution rows, row locks | `submit`, `claim_next`, `complete_claim`, `fail_claim`, `delete_expired`, reads | transactions of several processes interleave; SKIP LOCKED, uniqueness error and second read; contributions that go with their job (an explicit DELETE, and a foreign key that cascades) | one live job per tenant and key; one claimant; outcomes final; evidence whole; retention kept |
| Scenario worker (`scenario_jobs/worker.py`) | build, clock reading, claim record | one pass: claim, evaluate, record, purge | dies anywhere; lease lapses during evaluation; other build than the API; clocks differ | every job ends; a stale worker records nothing |
| Scenario job API (`service.py`, `routers/scenario_jobs.py`, `identity.py`, `request_headers.py`) | none of its own | submit, status, contribution page | answers lost after the commit; pages across requests | replay answers the admitted job; pages are whole |
| Asynchronous workflows (`integrations/performance_async_execution.py`, `lotus_performance_transport.py`, `performance_returns_series_async.py`) | per request: accepted id, round, last status | submit, poll status, poll result, sleep | status and result are separate requests; budget; counting | own result only; bounded; counted once |
| Downstream requests (`downstream_request_execution.py`, `upstream_error_classification.py`, `upstream_errors.py`) | metric counters | one request, classification of its failure | which exceptions are taken, counted, translated | each failure has its class and count |
| Concentration simulation (`services/concentration/simulation_session.py`, `simulation_resolver.py`) | per request: session id and version | create, apply changes, snapshot | answers lost after the effect; other callers in the same session | changes once; the snapshot is the one meant |
| Concentration (`services/concentration_engine.py`, `concentration/`) | - | admit positions, ask for issuers or a snapshot, measure | owners from four sources that overwrite each other; bases of value; a source that fails | each state is measured by its own rows and owners |
| Application lifespan and pools (`app_factory.py`, `app_lifecycle.py`, `runtime/downstream_clients.py`) | two HTTP pools, `is_draining` | compose, open, serve, drain, close | a start that fails half way, also between a pool and its record; closes that fail; shutdown against requests in flight | every recorded pool closed; none used after |
| Security and admission (`enterprise_*.py`, `security/`, `dependencies/`) | per request: the principal | one decision, by headers or by a verified credential; an audit event | order of checks; authorities change between two questions | no work without its authority, no refusal without a reason, an audit trail that says so |
| Drawdown (`services/drawdown_*.py`, `risk/drawdown_details.py`) | running peak, open episode | episodes, extremes, the list of the worst, twice computed | first loss, ties, an episode that lasts, inclusive ends | episodes are the days below the peak; both computations agree |
| Rolling metrics (`services/rolling_*.py`, `risk/period_resolution.py`) | per request: currency, calls and answers | resolve the currency, fetch returns and rates at the same time, admit, roll, summarise | two calls in flight, a late risk-free call, joins, warm-up, gaps | values come from the facts; one currency; gaps are explained |
| Risk metrics (`services/risk_engine.py`, `risk/`, `risk_mode_adapter.py`) | per request: currency and answers | sample, compute, join with a benchmark, qualify | weeks with gaps, labels outside the window, errors of single metrics | a metric takes every day of its period once |
| Historical attribution (`services/attribution_*.py`, `benchmark_exposure_history.py`) | per request: pages, exposures, evidence | returns, positions, issuers, benchmark exposures, evidence by period and dimension, decomposition | pages without end; evidence that is lost or changed on one side; two bases in one answer | what is called empirical is true; parts make a whole |
| Stateful returns sourcing (`source_window.py`, `stateful_returns_*.py`, `core_portfolio_currency.py`, `core_risk_free_series.py`) | - | ask for a window, admit an answer | answers for another portfolio or window, rows lost or counted otherwise | refuses what is not the answer, serves what is |
| Supportability (`calculation_supportability.py`, `supportability_periods.py`) | - | reason, state and counts of a response | several periods, two judges | nothing hidden, reasons true |
| Scenario engine (`scenario_engine.py`, `scenario_governance.py`), cohorts, mandate health | - | evaluate a pack at once or in a job, find the portfolios of an event, judge a tracking error | two computations of one loss; several verdicts, one state | positions explain the whole; nothing covers what is worse |
| Routers (`routers/`) | - | one handler per route | which clients, scope and tenant a route needs | as for the gate |
| Middleware, health, observability (`middleware/`, `ops_runtime.py`, `observability.py`, `api_errors.py`) | context variables, counters | around each request | - | - |
| Job schema readiness, contracts, evidence documents | - | inspection, validation, formatting | - | - |
| Migrations (`alembic/`), scripts, quality gates | - | build time | - | - |

How they interact: a request passes the **gate**, a **router** calls a
**service**, which calls the store (in a thread; all coordination between
replicas and workers is by rows and row locks) or a **client** of an upstream
(awaiting on the event loop; all coordination is by what the upstream keeps
under an id, a key or a version).  Workers are separate processes that share
only the database, and use the scenario engine that the API uses.  Requests to
the calculators share nothing but the pools of the process.

## 2. Modules

| Module | Models | Extends or uses |
| --- | --- | --- |
| `ScenarioJobs` | store, workers and submission threads | - |
| `JobLifecycle` | what a submitter is promised: the life of a job | instantiated by `ScenarioJobs` |
| `ScenarioJobReads` | callers that poll and page while `ScenarioJobs` runs | extends `ScenarioJobs` |
| `AsyncWorkflow` | handlers and an external lotus-performance | - |
| `SimulationSession` | handlers and an external lotus-core | - |
| `Gateway` | the process, its pools, admission, principals, routes and audit | - |
| `Drawdown` | the loop over a period's observations and what is made of it | - |
| `Supportability` | how a response qualifies itself | - |
| `Rolling`, `RollingRequest` | the rolling engine, and one request with its upstream calls | extends `Supportability`; extends `Rolling` |
| `RiskMetrics`, `SeriesRequest` | the engines of risk/calculate and risk/drawdown around their formulas, and one request to either | extends `Rolling`; extends `RiskMetrics` |
| `Attribution`, `AttributionRequest` | decomposition and admission of evidence, and one request | extends `Rolling`; extends `Attribution` |
| `Concentration` | one request in its three modes, issuers and measures | - |
| `SourceProducts` | scenario packs, cohorts and mandate health | extends `RiskMetrics` |
| `RollingWorlds`, `SeriesWorlds`, `AttributionWorlds`, `ConcentrationWorlds`, `SourceProductsWorlds` | requests and what is behind them, for TLC | - |
| `MCCalculations` | all calculators, one request to any of them | extends `Drawdown`, instantiates the others |
| `MCScenarioJobs`, `MCScenarioJobReads`, `MCSimulationSession`, `MCGateway` | instances for TLC | the module each is named for |
| `ScenarioJobs_proofs` (with the refinement and `ScenarioJobReads`), `AsyncWorkflow_proofs`, `SimulationSession_proofs`, `Gateway_proofs`, `Drawdown_proofs` | theorems | the module each is named for |
| `Calculations_proofs` | theorems about currencies and about requests for rolling metrics | extends `MCCalculations` |
| `SeriesCalculations_proofs` | theorems about requests for risk metrics, drawdowns and concentration, and of all calculators together | extends `Calculations_proofs` |
| `SeriesQualification_proofs` | theorems about what responses for rolling metrics, risk metrics and drawdowns say of themselves | extends `SeriesCalculations_proofs` |

### ScenarioJobs

The variables are the two tables (`jobs`, `contributions`), the rows each open
transaction has locked (`held`), the ids and claim tokens drawn, the true time
(`now`), and per process where it is (`pc`) with its local variables (`at`: its
last reading of the clock; `build`, `claim`, `verdict`, `request`).  `answers`
is history.

A transaction that locks rows is two steps, the locking SELECT and the commit;
what the code assigns in it is assigned at the commit, and what it tests is
tested at the SELECT.  A transaction of one statement is one step.

| Code | Actions |
| --- | --- |
| `submit_scenario_job`, `store.submit` | `Submit` (clock and revision are read), `Insert` or `InsertConflict`, `Refresh`, `RereadKey`, `Replay`; `LoseRequest` for a connection or replica that is lost |
| `claim_next` | `SelectClaim`, `CommitClaim` |
| `process_one_scenario_job`, `_evaluate_claim` | `WakeUp`, `Evaluate` |
| `complete_claim`, `fail_claim` | `LockClaim`, then `CommitSuccess` or `CommitFailure` |
| `cleanup_expired_scenario_jobs`, `delete_expired` | `StartSweep`, `SelectExpired`, `CommitPurge` |
| `main` and its supervisor | `Crash`, `Restart` |

Abstracted: an input stands for its canonical JSON and its digest; an evaluation
is the pair of its input and the pack revision it was computed with, since the
engine is a pure function of both; contribution rows are numbers 1 to
`RowCount`; the texts of failures, correlation ids and metrics are left out.
The database is PostgreSQL at READ COMMITTED, where FOR UPDATE waits and SKIP
LOCKED does not, and where the uniqueness check waits for a row that is being
deleted (`KeyPurging`).  Request header admission, store configuration and
schema readiness come before `Submit` and have no effect on the tables.

### JobLifecycle

Five variables, five actions: a job is admitted for an owner with the evaluation
it is promised, runs, ends as a success with exactly the evidence of that
evaluation or as a failure without any, and is purged with its evidence.  The
mapping is at the end of `ScenarioJobs`.

### ScenarioJobReads

A caller learns a job id from an answer, asks as any tenant, polls the status
and follows the cursors of the contribution pages.  A page is two SELECTs, so a
purge or an outcome may fall between them.  The order (scenario, ordinal) of
rows is that of one number.

### AsyncWorkflow

A request is two steps: lotus-performance answers, the handler resumes.  The
producer is external: it starts a calculation or joins a submission to one with
the same content, ends it or fails it at any time, and answers any request
well, with the wrong shape, with no JSON, for another calculation or not at
all.  The handler is `_execute_async_workflow_with_client` and
`poll_async_result`; `counted` is the upstream request metric and `outcome` the
class of the error, `invalid_input` being that of a bare `ValueError`.  Not in
it: the two requests without an asynchronous form, and the waiting for a free
connection of the pool, which ends as `refused`.

### SimulationSession

`resolve_simulation` is the steps resolve, create, apply, change, snapshot.
lotus-core is external: it keeps sessions as sequences of change sets, replays
a key with the same fingerprint, refuses it with another (as
`docs/domain-apis/risk-concentration.md` describes it), compares the expected
version of a snapshot, and may leave a version out of an answer, which the code
provides for.  An answer may be lost after its effect, and a request for
changes may arrive after its handler gave it up.  A caller asks again by asking
for the same thing.

### Gateway

One life of a process: `Compose` (the environment is judged, and a process with
a forbidden posture or an incomplete enforced configuration does not start),
for each of the two pools `OpenPool` (`make_client`) and `OwnPool` (the client
has accepted its base URL, the attribute is set and the pool recorded),
`FailStart` at either of them, `Serve`, `StopServing`, `Drain`, `ClosePool` in
reverse order, which may fail, `Stop`.  `pool` tells an open pool from one that
was closed, or failed to (`unclosed`), and `owned` is the list that `finally`
closes: a pool that is open and not in it is one whose client refused the base
URL, and nothing closes that.  To open one fails where httpx refuses the proxy or
TLS settings of the environment.  Whether a base URL is valid (`urls`) is of the
configuration, as the environment is.  A request arrives while the process serves
and goes through the middleware of its posture (`AdmitByHeaders`, or `AdmitVerified` and
then one action per question of `resolve_principal`), the checks of its route
(`Handle`: scope, tenant, client) and its work (`Finish`), which may crash.  The
questions to the authorities are one synchronous call on the event loop, so no
other request moves meanwhile (`Turn`), but the authorities are other systems
and do (`ChangeAuthority`); each may also fail to answer.  `held` and `lacked`
are history: the facts that were true, or were not, at some instant since the
request arrived.  `audit` is the last security event.

The server is external: it takes no more requests, waits for those it has, and
then resumes the lifespan.  A credential is genuine, forged, undecodable,
malformed or missing; key lookup, expiry, revocation, membership, grants and
those of an acting application are facts.  Not in it: rate limits (there are
none), the correlation middleware, which decides nothing, the metrics, and the
cancellation of a shutdown, which `_close_owned_http_clients` would not survive.

### Drawdown

A step is one more observation of a period: wealth and running peak as
`drawdown_from_returns` makes them, and one iteration of the loop of
`build_episodes_from_values` (`Begin`, `Recover`, `Remain`).  Every state is
then the result for the period that ends there: `Episodes` with the open one
appended, `Extreme` (`drawdown_extreme_fields`), `Listed` (`_episode_models`),
and `DetailTrough`, `DetailPeak`, `DetailRecovery`, the second computation by
`risk/drawdown_details.py`.  Wealth is a level and not a product of returns, and
a depth is the pair it is the quotient of, so that comparisons are exact; `Reachable`
says what can follow a total loss or a debt.  Not in it: rounding, durations in
calendar days, tail quantiles; the alignment with a benchmark is in
`RiskMetrics`.

### Supportability, Rolling, RollingRequest

`Rolling` has the engine as operators: `Resolved` (period), `Window` (the
observations of pandas' `rolling`), `MetricDays` (the inner join),
`MetricValues`, `MetricFlags`, `Summary` (warm-up and gaps), `Context`,
`PeriodResult`.  A statistic is kept as the returns it reads, and it is
undefined where it would divide by a variation of zero; that is what it does
without rounding, so that a window of equal returns has exactly no variation.
The summary statistics and the points of the series are functions of the values
and the latter are kept whether or not the caller asked to see them.
`Supportability` has reasons, precedence, assessment, freshness and
`compose_returns_source_supportability`.

`RollingRequest` is one request.  The actions of the handler lie between its
awaits:

| Code | Actions |
| --- | --- |
| `RollingStatelessInput`, `calculate_rolling_metrics` | `Accept` |
| `resolve_stateful_dependency_selection`, `resolve_portfolio_reporting_currency` | `Start`, `ResumeSnapshot` |
| `fetch_stateful_source_responses` | `FetchSources`, in either of these |
| `_parse_stateful_source_series`, then `resolve_risk_free_dependency` | `ResumeSources`, `ResumeFallback`, `ResumeCoverage` |
| a client that raises | `ResumeFailure`; the other call of the `gather` stays open |
| `_build_stateless_request`, `_attach_stateful_lineage` | `Finish`, `Fingerprints`, in the step that has all it needs |

The upstreams have books and answer from them (`AnswerSnapshot`,
`AnswerReturns`, `AnswerRates`), or fail, or deviate: another portfolio, another
window, rows lost or counted otherwise, rows outside the window, a body or an
evidence that is invalid, no list of rates, a rate with no date, two rates for a
day.  When the window is since inception its beginning is the producer's, and
nothing in an answer could tell a wrong one.  `sent` is history: the
operations that were called.  Not in it: the parsing of decimals and the
conversion of annual rates, the calendar by which YTD, QTD, MTD and the trailing
years begin (`TO_DATE` has any beginning; the type YEAR is an explicit one),
weekly and monthly buckets, which rolling metrics do not ask for (`SeriesRequest`
has those).

### RiskMetrics, SeriesRequest

An observation is a function from the days it compounds to their returns, so
that a week knows what it is made of; a metric is kept as the observations it is
computed from, with its error where the code raises or returns one.  `Sampled`
is `resolve_metric_return_series` (weeks, the refusal of an empty bucket between
two others, undefined logarithms); `OwnValue` and `RelativeValue` are the
metrics alone and against a benchmark, of which "no variation" is exact because
returns are in halves and wealth is compared as integers; `RiskQualification` is
`supportability_from_risk_metric_results`; `DrawdownPeriod` the period of
risk/drawdown.  Months are sampled by the same code as weeks and are left out.

`SeriesRequest` asks for the currency, the returns and the rates, each only if
it is needed, and admits what comes: `Points` drops weekends, `AllOverlap`
refuses labels whose bucket does not meet the window, `Normalized` clamps the
label of a week to the window.  lotus-performance compounds weeks by itself when
it is asked for weekly returns.

### Attribution, AttributionRequest

`Attribution` has the admission of evidence (`BadRows`, `Pack`, `Empirical`;
`BadGroupRows`, `ActiveRefusal`, `ActiveObservations`) with its reconciliation
to the returns, and the decomposition (`TotalProxy`, `ActiveProxy`,
`EmpiricalTotal`, `EmpiricalActive`, `CalculatedSet`) with its flags.  Weights
are integers out of `Whole`, and a covariance is kept without its divisor.

`AttributionRequest` is the handler between its awaits: `Start`, `TakeReturns`,
`TakePositions` page by page, `TakeIssuers`, `TakeBenchmark` page by page,
`TakeContribution` and `TakeActive` for every period and dimension that needs
them, in the code's order (`Proceed`).  The upstreams answer from their books,
or with a page that repeats a token, never ends or is cut, a row without a day
or a value, of a day, benchmark or group that was not asked for, evidence that
is lost, rolled up, repeated, moved to another group, of another currency or
basis, or changed.  `deviations` is history.  Not in it: values beyond the
integers, which the code refuses as malformed.

### Concentration

A stateless request is accepted, asks lotus-core for issuers if its policy and
the deployment say so, and answers whatever comes of it; the others take a
snapshot, of a session in the simulation mode (how that session came to its
version is `SimulationSession`).  `CallerMap`, `CoreMap` and `Merge` are the
sources of owners; `Measures` has HHI, the largest positions and owners, their
drivers and the counts, ratios being pairs.

### SourceProducts

`EvaluatePack` is the synchronous evaluation and that of a job: the checks of
the request (`Allocated`, `Reconciled`, `Bounded`), `ScenarioResult` with its
`Contributions`, the breach, governance and its severest verdict.
`EvaluateCohort` and `EvaluateHealth` are the other two products; the health of
a mandate takes the tracking error from `RiskMetrics` and compares its square.
The registries are those of the code.

### MCCalculations

A request to a calculator keeps nothing after its answer and shares no state
with another, so a behaviour of `MCCalculations` is one request to one of the
calculators, and the variables of the others stand still.  Properties that are
promised by several calculators are stated once, as the conjunction.

## 3. Runs

| Run | Question | Bounds |
| --- | --- | --- |
| `Fencing` | Are claims, outcomes, evidence and retention safe, and is `JobLifecycle` implemented, with two racing workers? | 1 job, 2 workers, 2 builds that ship different revisions, clocks off by 1, lease 1, retention 1, 3 tokens, 2 ticks |
| `Idempotency` | Does a tenant's key name one job, and does an answer name the job that was admitted? | 2 request threads, 2 tenants, 1 key value, 2 inputs, 2 ids, 1 worker |
| `Endings` | Does every job end, and is every job that expires purged? (liveness) | 1 worker that may be lost at any instant, 2 jobs, of which one admitted at 0 expires at 2 and a later one after the time modelled, batches of 1, 6 tokens |
| `Reading` | Are pages whole and does a status only advance? | 3 rows, pages of 1, 2 tenants |
| `ExpiredRead` | Does an expired job expose rows? It does, see section 6 | as `Reading`, pages of 2 |
| `AsyncWorkflows` | Own results, single counting, budget, end of every workflow | 2 workflows, one that binds its result and one that does not, 2 calculations, 2 polls |
| `UnparsableAnswer` | A statement of the docs, see section 6 | 1 workflow, 1 calculation, 2 polls |
| `Simulation` | Changes once, the answer of one version, nothing created for a refused request, repeats replayed | 2 callers of 2 requests, 2 sessions, 2 keys, 1 lost or late answer |
| `Gateways` | Is work authorised and refusal justified, is the audit trail right, do pools serve every request, and what is left open? | 2 requests of 15 shapes, 12 deployments of both postures, 1 change of the authorities, every failure of a start, a close and an answer |
| `Calculations` | Do the calculators tell the facts, and qualify what they tell? | see below |
| `RollingLineage` | Has every upstream call of a response a fingerprint? It has not, see section 6 | as `Calculations` |
| `VarIsDaily` | Is value at risk made of days? It is not, see section 6 | as `Calculations` |

`Calculations` checks these: `EpisodesCoverLosses`, `PeaksAreHighest`,
`EndpointsAgree`, `EpisodesAreListed` and `HistoryStands` of drawdowns;
`ValuesTellTheBooks` and `DaysAreAccounted` of rolling metrics;
`ObservationsTellThePeriod` of risk metrics and drawdowns; `EmpiricalSetsAreTrue`
of attribution; `PartsMakeTheWhole` of attribution and scenarios;
`ConcentrationIsTrue`.  That a response can be relied on in what it says of itself
is `QualificationIsHonest` of rolling metrics, risk metrics and drawdowns, and
`AnswersAreQualified` of attribution, cohorts and mandate health.  That true answers are served
is `HonestSourcesAreServed` of rolling metrics, risk metrics, drawdowns and
concentration, and `PagesAreServed` of attribution.  `OneCurrency` is about the
calculators that take rates.

Why the bounds are enough.  A claim race needs two workers and one row; the
third token lets the first worker reclaim what the second took from it.  Lease
and retention are 1 and the time goes to 2, so a lease lapses before, at and
after the expiry, and a job expires while it is queued, running and ended; a
skew of 1 lets either clock be ahead.  A key conflict needs two threads; two
tenants and two inputs tell the two halves of the answer apart, two ids allow
one admission after a purge.  Liveness runs have no symmetry.  A page of 1 over
3 rows has a first, a middle and a last page that is exactly full, the case
the extra fetched row is for.  Two polls are a first and a last round.  In a
session two keys give a foreign change before and after the caller's own, and
one fault is enough for every single loss; a second one would only repeat it.

`Gateways`: one request is resolved while the other is at any other stage; a
second change of the authorities could only undo the first, and a fact that
holds again was there before.  The deployments are a complete one of each
posture, a local one, and each of them with one thing wrong: a production
environment under header trust, a route without a rule, no ingress secret, no
grant store, no verifier; a verified one that is not enforced has its clients
injected.  The local one has an injected client whose base URL is
not valid, which nobody asks for; it comes also with both clients injected, and
with none and one or both base URLs not valid.

Drawdowns: every path of 5 observations over the levels -1 to 3, opening 2,
gaps of 1 and 3 days, a list of 1 with a threshold of a quarter.  Five
observations allow an episode, a recovery and another one of the same or another
depth, with a day to spare for one that lasts; the levels are above, at and
below the opening, none and a debt; a gap of 3 days has a weekend.

Rolling metrics: a Thursday, a Friday, the Monday after them and a Saturday,
with two values, windows of 2 and 3, four series of each dependency, four sets
of periods, both policies, asked on the last day or two days later.  Three
trading days are a window that is short, full and rolled; two values make a
series vary or not; the dependencies join no day, one, two and all.  A limit of
3 observations and 11 points refuses some requests and not others.

Risk metrics: the same days and the Monday of the next week but one, so that a
week is empty; returns up, down, none and a total loss; three samplings, four
sets of metrics, both methods of value at risk, series that do not vary and
benchmarks that join no day, one or some.

Attribution: two securities of two sectors and issuers, three trading days and
a Saturday, pages of 2 and limits of 3 pages and 6 rows, which the longest
honest answer meets exactly; one deviation in each request.  Stateless
requests have every exposure of two groups on two days, with days missing, not
adding up, or contradictory.

Concentration: up to two positions of two securities, three without lotus-core,
with no owner, an owner, an owner and its parent, said by caller, mapping or
lotus-core; values 0 to 3; every subset of the securities known.

Source products: every allocation of up to two buckets out of those of the
registries and one that is in none, spelled in two ways, of four parts; up to
four components and limits on rows and portfolios that some requests exceed;
portfolios with one or two buckets for an event; returns of three days against a
benchmark of two.

Each state, reason, flag and kind of end is reached.

The named bounds `MaxTime`, `SubmitUntil`, `CrashUntil`, `MaxClaims`,
`MaxAttempts`, `MaxFaults`, `MaxPolls`, `MaxChanges`, `CountBound` and
`Drawdown`'s `MaxObservations` are guards of the actions they bound; the limits
`MaxPages`, `MaxRows`, `MaxBuckets`, `MaxPositions`, `MaxJobRows`,
`MaxPortfolios`, `MaxStateless` and `MaxPoints` are the code's own, made small.
`Endings` gives enough tokens (6 for 2 jobs) that `MaxClaims` never stops a
claim.  `CHECK_DEADLOCK FALSE` is set where the system may stop: all workflows
are done, all callers have made their requests, the process has stopped.  A
request to a calculator has a step of rest when it has its answer, and no other
state may stop: with the check of deadlock this shows that no order of answers
and failures leaves a request without one.

### Fairness

`ScenarioJobs!Fairness`: a worker's loop and the supervisor that restarts it
keep going (`worker.main` is a loop or a scheduled command), a request thread
that has started is served, time passes.  No submission and no crash is fair.
Weak fairness on the whole step of a worker is enough because it is always at
one place, and a process that waits for a row holds none, so none waits for
another in a circle (TLC's check of deadlock is on in these runs).
`AsyncWorkflow!Fairness`: a request ends, at the latest with the time-out every
pool is built with, and the event loop resumes a handler; no calculation has to
end.  The other modules have no liveness property: a request to a calculator
makes a bounded number of calls, and each has its time-out.

## 4. What is proved

The theorems are for any values of the constants that satisfy the named
assumptions of the modules: any sets of workers, threads, tenants, callers,
keys, routes or requests, any leases, budgets and bounds.  `SentinelAssumption`,
of `ScenarioJobs` and of `SimulationSession`, says that a missing row, session
or key is none; `GatewayAssumption` that requests ask for routes there are, and that
configurations name routes and pools there are; `DrawdownAssumption` that levels
are numbers and the opening is positive; `FlowAssumption` that no id is an id;
`CatalogueAssumption`, `ConfigurationAssumption` and `ProcessAssumption` that
job inputs have rows, that durations are such, and that workers are not request
threads.  TLC evaluates them in each run.  The calculators' worlds are no
parameter of `AnySpec`.  `RatesMatchReturns` uses nothing of them.  The theorems
about rolling metrics use that a request is `Sound`: metrics there are, windows
of two or more, periods that begin and end on days, series of dated returns, and
in a stateful request that has a period since inception no period that ends
after the day of the request.  The contracts check the first ones, lemma
`WorldsAreSound` shows all of them for the worlds of the run, and
`EveryRollingTellsTheBooks` is about any sound request.  The last one was found
by the proof, see section 5.  `SoundSeries` says the same of a request for risk
metrics or drawdowns, and that a drawdown request that carries its series has no
inception after its first day, since it has none of its own;
`SeriesWorldsAreSound` and `EveryRiskObservesThePeriod` correspond.
`LimitsAssumption` says that the limits on points are numbers, and `Countable`
that a request names finitely many periods and windows (`WorldsAreCountable`):
how many days there are is compared with these limits, and results are counted.

| Theorem | Says |
| --- | --- |
| `TypeCorrect` | `TypeOK` always holds |
| `LockedReadsAreStable` | what a transaction read under its locks still holds at its commit |
| `ClaimsAreFenced` | at most one worker can record an outcome for a job |
| `AdmissionIsIdempotent` | one live job per tenant and key, and answers name the job admitted for them |
| `EvidenceIsComplete` | a success has exactly the evidence promised at admission, nothing else has any |
| `OutcomesAreFinal`, `LeasesHold`, `EvidenceIsRetained` | the three action properties of `Fencing` |
| `StoreImplementsLifecycle` | `Spec` implements `JobLifecycle` |
| `AsyncWorkflow`: `TypeCorrect`, `ResultsOwned`, `CountedOnce`, `BudgetUsed` | the four safety properties of `AsyncWorkflows`, for any workflows, calculations and budget |
| `ScenarioJobReads`: `PagesTellTheEvidence`, `PollsAdvance` | `PagesAreWhole`, and the action property `StatusAdvances` |
| `SimulationSession`: `TypeCorrect`, `ChangesGoInOnce`, `AnswersAreOfOneVersion`, `RefusedBeforeTheWrite`, `ReplaysAreServed` | `TypeOK` and the four properties of `Simulation` |
| `Gateway`: `TypeCorrect`, `WorkIsAuthorised`, `RefusalsAreJustified`, `AuditIsTrue`, `PoolsOutliveRequests` | `TypeOK` and the four properties of `Gateways` |
| `Drawdown`: `TypeCorrect`, `LossesCovered`, `PeaksHighest`, `OneDrawdown`, `PastStands`, `ListIsReliable` | `TypeOK` and the five properties of `Drawdown` in `Calculations` |
| `Calculations_proofs`: `RatesMatchReturns` | `OneCurrency`, of both calculators that take rates |
| `Calculations_proofs`: `RollingTellsTheBooks`, `RollingAccountsForDays`, `EveryRollingTellsTheBooks` | `ValuesTellTheBooks` and `DaysAreAccounted`, of the worlds of the run and of any sound request |
| `SeriesCalculations_proofs`: `RiskObservesThePeriod`, `EveryRiskObservesThePeriod` | `ObservationsTellThePeriod`, of the worlds of the run and of any sound request |
| `SeriesCalculations_proofs`: `TrueAnswersAreServed`, `EveryTrueAnswerIsServed` | `HonestSourcesAreServed`, of rolling metrics, risk metrics, drawdowns and concentration in the worlds of the run, and of any sound request for the first three |
| `SeriesQualification_proofs`: `ResponsesAreQualified`, `EveryResponseIsQualified` | `QualificationIsHonest`, of the worlds of the run and of any sound request for rolling metrics, risk metrics or drawdowns, of finitely many metrics |

The argument.  `TypeOK` and `LockedReadsHold` are not inductive: whether
`CommitClaim` writes a well-typed row depends on what the worker holds.  `Base`
adds the shape of each process at each of its steps (`WorkerShape`,
`ClientShape`: which step has a claim record, a verdict, a request, locked rows)
and that live ids have been drawn.  The heart is that `LockedReadsHold`
survives the steps of the *others*: few actions write `jobs` (lemma `Writers`
and one effect lemma per writer), each writes only rows it holds or a new row,
and held sets are disjoint.  On top of `Base`:

* `TokensAreUnique`: tokens of rows and records are below `nextToken`, and two
  records with one token are the same claim; with it `OneClaimant`.
* `KeysAreOwned`: a live id that was answered or is about to be answered
  carries the tenant, key and input of that submission; ids are never drawn
  twice, so a purged id cannot come back for another key.
* `ClaimsCopyAdmissions`: the record of a claimant agrees with its row on input
  and revision, so that a success, which needs the revision of the record,
  publishes what the row was admitted for.
* `ReadingsArePast`: a reading is never more than `Skew` ahead of the true
  time, also later, because time does not go back.

The refinement maps each step: an insertion is an admission, a commit of a claim
a start or a stutter, an outcome an end, a purge the end of several jobs at
once, and everything else a stutter.

`AsyncWorkflow_proofs`.  The invariant is one of each workflow (`FlowInv`), and
lemma `OneFlow` reduces a step to the workflow that takes it.  Beyond its types
it says which fields of the local state go with which step, that the answer in
hand is one to the request made, that an accepted calculation which is bound is
the one the submission was answered for, how many successes and failures are
counted where the handler is, and that the requests sent are those of the
rounds gone.  The last is what `BudgetIsUsed` needs, which relates the two only
at the end of the loop.

`Drawdown_proofs`.  `EpisodesCoverLosses` is about the record an episode would
get if the period ended now, and the loop keeps less.  The invariant (`IInv`)
says: a running peak is the largest level so far or the opening (`Path`); a
recorded episode, and the one in hand, is a span of days below one level of the
running peak that begins right after a day on that level or with the period
(`Recorded`, `InHand`); records are in order and apart (`Ordered`); and each
day under water is in one of them (`Covered`).  A trough exists because a
finite span has a least depth, which is proved by the well-founded order of the
naturals (`FirstExists`, `LowestExists`).

The list and the two computations of a drawdown need more than spans: what a
record tells of its span.  `Story` is a second invariant, that the days are in
order and that a record's depth, trough and durations are those of its span,
the trough being the first of its lowest days.  `OneDrawdown` then compares the
first of the deepest episodes with the first of the lowest days; depths are
quotients, so their order is one of cross products, and its transitivity is a
lemma about integers (`CrossProducts`, `DeeperOrder`).  That the list has no
more than `top_n_episodes` entries is a pigeonhole argument on their ranks.

`ScenarioJobReads`.  Readers change nothing, so `ReadSpec` implies
`Spec` and every theorem of `ScenarioJobs` holds while they read.  The invariant
of a reader (`ReaderInv`) says of the rows it has that they are the first ones
of one evaluation up to its cursor; that this is the evaluation its job was
admitted for while the job is there; and that what it saw last is not ahead of
what the job is now.  A success that does not change and evidence that is whole
do the rest.

`SimulationSession_proofs`.  `CoreInv` is of lotus-core: sessions and ledger tell
the same story, an entry for a change set and a change set for an entry, no key
twice.  `CallerInv` is of one handler: at each step, what it holds is there and
what it was answered is so.  Since a session only grows, the steps of other
callers and late requests keep it.  `ReplaysAreServed` is the step that matters
when an answer was lost: the ledger's entry for the key has the fingerprint that
a repeat is sent with.

`Gateway_proofs`.  `ProcessInv` says that the process owns what it recorded, in
order, and serves with all of its pools; `PoolsInv` that what is recorded is
open and has a valid base URL, and that at most one pool is open without being
recorded, the next of a start or the one whose client made it fail;
`RequestInv` says of one request what
`resolve_principal` has read at each of its steps, that what was read was true
at some instant since the arrival (`Remembers`), and what that entails for its
answer and its audit event.  The authorities may change between two questions,
so nothing says that all facts were true at once, and the properties do not.

`Calculations_proofs`.  A behaviour is that of one calculator, so the invariant
is one for each of the two that take rates.  For rolling metrics, where returns
and rates are in flight together and either may come when the handler has ended,
it says which calls may be open where the handler is, that a call carries the
resolved currency and so does its answer, and that the currency is that of the
request if it names one (`RollingCurrencies`); for the other calculator the
place of the handler tells what is known (`SeriesInv`).

That rolling metrics tell the books joins two arguments.  One is about the
engine and has no steps: if the series it is given are `Faithful`, which is that
they have the returns of the books on the days of every period and the
dependencies on the same days, then the days it cuts out and joins are those of
the books (`InsideIsThePeriod`, `RolledDaysAreJoined`); a window is a span of the
last days, n of them unless fewer have come (`WindowSpan`); the windows too short
for a value are those of the first days, as many as `warmup_point_count` says
(`ShortWindows`, `WarmupDays`); and what else has no value is counted as a gap and
flagged (`PointsWithoutValue`, `FlagsTell`).  The other is about the request
(`TellingInv`): the window it asks for covers every period
(`SourceCoversPeriods`); an answer that passes the admission has all that the
books have there, because a lost row, a cut window, rows from outside and another
portfolio are each refused by one of its checks (`QualifiedAnswersTell`, a count
that is right being a set that is right); rates asked for with the window, or
later for the days that came, cover those days; and so what `calculate_rolling_metrics`
gets is faithful (`SourceIsFaithful`).

That risk metrics and drawdowns take each day of a period once is an argument
about labels.  A series is `Marked` if each of its observations has exactly the
days with its label, and what the books have there.  Resampling keeps this, with
the Friday of its week for a label (`SampledMarked`); so does the cut of a period
(`WithinMarked`), and the join (`JoinMarked`), which keeps an observation if
the other series has one with its label.  lotus-performance labels a week with its Friday, and with
the last day of the window if that comes first.  Such labels still tell weeks
apart, and are days of the week they stand for (`LabelsKeepWeeks`), so that the weekly
join keeps the days that meet a day of the same week.  The window that is asked
for covers every period (`WindowCovers`); the checks of the admission keep
a cut or incomplete answer out; and what is kept while the rates are awaited is
what was admitted (`KeptForRates`, `ObservationsInv`).

That true answers are served is a statement about refusals: nothing that the
handler checks on the way refuses what is asked for and true.  `HonestSourcesAreServed`
is about the end of a request, and the answers come one after the other, so the
invariants (`ServingInv`, `SeriesServing`, `ConcentrationInv`) say that a request
that has ended without a response has a reason that no later answer takes back,
and one that goes on has kept what came (`KeptForRates`).  Three facts carry it.  A true
answer passes the admission, whose count of missing days compares two sets that
are then the same (`TrueAnswersQualify`), and whose overlap with the window holds
for labels of weeks (`TrueAnswersOverlap`).  The limit on observations is
monotone: what is too large is so with more days (`LargerIsTooLarge`), so a
request within the limit stays in it when a join drops days.  And the others that are
in flight change nothing of the answers that have come (`AnswersStand`,
`ServableStands`).  For concentration the rows and issuers of the snapshot that
were admitted are those that the response is made of (`RowsStand`).

That a rolling response can be relied on in what it says of itself has one part
for each step of the code that makes the qualification.  Reasons are ranked, and the
one that is reported for several periods is one of theirs and the most severe
(`RanksAreNumbers`, `MostSevereReason`); a period is degraded if it is short or
if a metric that needs a dependency joins no day, and the reason tells
which (`ReasonsOfErrors`, `ContextLack`, `JoinedCounts`, `DegradationTells`); days that
are fresh have one within a day of the request (`FreshnessTells`); the verdict on all
periods is ready only if none is degraded (`OwnVerdict`); and what the source says
is merged with it so that neither hides the other (`ComposeTells`).  The invariant
(`QualifyingInv`) is that a response is qualified by the returns that were
used for it, also when rates came after them.

A response for risk metrics or drawdowns is judged by its periods in the same way
(`SameVerdicts`), and differs in what its periods lack.  A drawdown lacks days, a
benchmark, or days of both (`DrawdownDegradation`), and its periods that fail are
one to one the failures that are to be counted (`DrawdownFails`).  For risk the
verdict on periods sees only those without observations, and the errors among the
values of a response that is served overrule it.  Sampling and joining make no
more buckets than there are (`BucketsCount`, `CommonCount`), so that each error of a
metric is a fact of the series, whether of its own (`OwnErrorTells`) or against the
benchmark (`RelativeErrorTells`, `RiskPeriodLacks`); a metric that errs is counted
once, as it is the only one of its name in its period (`ErringTells`); and the worst
reason among them takes the place of the verdict unless that is "empty"
(`RiskPeriodsTell`, `RiskTells`).  None of this needs an induction: the
property names the set of failures, and what the scan collects is a set too.  The
invariant (`SeriesJudging`) is about the request: the calls that have been made are
those that its next step will tell of (`CallsBefore`), what is kept while the rates are
awaited is dated and has its evidence (`KeptForVerdict`), and a response is one
of the series and of the answer that were admitted (`Settled`), which is enough for
the property (`SettledSuffices`).  Labels of weeks that are clamped to the window
stay days (`AnswersAreDated`), without which they could not be compared with
the day of the request.  It is assumed that a request names finitely many metrics
(`Ratable`; `ChoicesAreFinite` for the worlds of the run), since they are counted.

Only model-checked: liveness (`JobsFinish`, `JobsArePurged`, `FlowsEnd`), which
needs fairness and ENABLED; and what rests on an induction over data, which the
provers cannot do.  `PartsMakeTheWhole`, `EmpiricalSetsAreTrue`,
`ConcentrationIsTrue` and the cohort and health parts of
`AnswersAreQualified` are about sums over finite sets, its attribution part about
sets whose support is a sum; and `PagesAreServed` is about pages that are taken from a sequence of any
length.

## 5. Behaviour worth knowing that contradicts no document

* A job that has expired but is not purged still owns its key: a replay answers
  202 with it, and no worker will run it.
* Nothing limits the attempts of a job: an input that kills its worker is first
  in the order again when its lease lapses.
* Between the commit of an admission and the second read of its row, or between
  a uniqueness error and the second read of the key, a purge ends the request
  in an error; the key is free then.
* `expected_version` guards the snapshot and not the changes: a request that is
  refused for its version has changed the session.
* A simulation without `session_id` that is repeated after a lost answer
  creates another session, has another fingerprint and meets its own key as a
  conflict.  A repeat with the session id is replayed, but with the version of
  the first time: once others changed the session, its snapshot is refused.
* If the caller's `expected_version` differs from the handler's version and the
  snapshot carries none, `metadata.simulation_session_version` is the handler's.
* An asynchronous workflow sleeps after its last poll too, and treats 404 for a
  failed calculation without a poll path as pending until its budget is used.
* A workflow whose failure is raised outside the code that counts (a reported
  failure, the end of the budget, an empty or foreign result, an accepted
  payload without paths) leaves no count in the metric that
  `docs/domain-apis/risk-observability.md` describes as the count of direct
  upstream requests; the polls before it are not counted one by one either.
* `docs/methodologies/metrics/drawdown-time-under-water.md` defines the running
  peak without the opening wealth; `drawdown_from_returns` clips it there, so
  that days below the opening count from the first loss on, as
  `drawdown-max-drawdown.md` has it.
* A rate without a date, or two rates for a day, from lotus-core ends as 400
  INVALID_INPUT, because the date is parsed and the series validated by code
  meant for a caller's input.
* The admission of returns compares portfolio, day, frequency, basis and window
  with the request, and not the reporting currency, which the answer does not
  repeat in a field that is read.
* A dependency that has rows, and none of them within a period, is reported for
  that period as unavailable, where the methodology documents of the metrics say
  `NO_ALIGNED_OBSERVATIONS` of a series that is supplied without a common day.
* A period of fewer than two observations reports its dependencies as
  unavailable with no observations, whatever there was.
* A response can be `ready` and have no computed point: fewer observations than
  the shortest window are warm-up, and a warm-up is no degradation.
* Rates for a request that are not there are reported as
  `calculation_quality_issue`, the reason for every error without one of its own.
* In the `gather` of returns and rates the error of the caller is that of the
  call that fails first; the other call goes on and its outcome is dropped.
* The evidence of active groups is filled with zeros on days that a group has
  none, where `risk-historical-attribution.md` speaks of complete series; only
  the reconciliation with the returns keeps a group that was lost out.
* An attribution with one set that is not supported and others that are
  empirical is `ready`.  Pages of lotus-core are not checked for rows that come
  twice, rows without a date are passed over, and a page without a token though
  rows remain cannot be told from the last one.  The lineage has the calls for
  returns and for evidence, and not those for positions, issuers and benchmark
  exposures.  Returns for attribution are admitted without the checks of
  identity and window that the other calculators make.  A market value that is
  none ends as 400.
* Weeks that lotus-performance compounds may hold days outside a period when
  several periods are asked for in one window, and a week that ends after the
  window is labelled, for the freshness too, with the last day of the window.  A
  bucket of the portfolio and one of its benchmark may hold different days.
* A period that ends after the day of the request (`EXPLICIT`, or the `YEAR` that
  is running) is served from the returns there are, unless the stateful request
  has a period since inception too: then `build_returns_series_window` asks for
  nothing after that day, and the result of the other period is silently one of
  fewer days.
* A drawdown that requires a benchmark is refused without one only if it is
  stateful, and before the evidence of the answer is looked at.
* `degraded_metric_count` says it counts what failed; when a period is empty,
  and the response therefore, the metrics of the others are not counted.
* A snapshot without `positions_baseline` is answered as an empty baseline, also
  for a simulation, while one without `positions_projected` is refused as 502.
  A request that uses only the caller's issuers is degraded when lotus-core says
  nothing of issuers.  `ready` allows a partial coverage, which is in a field of
  its own.  Positions of negative value are left out.
* The health of a mandate is `ready` or not by its tracking error, whatever the
  freshness of the returns it rests on; the route does not ask whether its
  portfolio is in the caller's scope.
* The registry of scenario packs has one entry, and that is approved: the branch
  for one that is not never runs.
* A handler that crashes outside the handled errors leaves no audit event and
  an answer without the security headers, where
  `docs/standards/enterprise-readiness.md:8` and `docs/security.md:26` speak of
  every write and every response.
* `is_draining` is set when the server has ended its requests, so the readiness
  that `docs/runbooks/service-operations.md:154` describes for a draining
  process is never answered.
* A start that is given an invalid base URL has opened the pool of that client
  before the client refuses it (`app_lifecycle.py:24-28`, `30-36`), and the pool
  is not yet among those that `finally` closes: it stays open until the process
  ends.  Everything recorded before is closed.  The documents speak of pools
  that are owned, and so contradict nothing.
* The environment cannot make a pool's profile fail: a setting that is no
  positive number is replaced by its default.
* In the verified posture the routes of jobs are refused; under header trust
  their tenant is a header that nothing but the ingress vouches for.

## 6. Findings

* `ExpiredRead`: the endpoint matrix says expired jobs expose no rows;
  `contribution_page` does not look at `expires_at`.
* `UnparsableAnswer`: a body that is not JSON ends as 400 INVALID_INPUT and not
  as 502 UPSTREAM_INVALID_RESPONSE.
* `RollingLineage`: the audit-lineage document promises a fingerprint for each
  upstream call that lotus-risk orchestrates.  If a period is since inception,
  the risk-free rates are asked for after the returns, and
  `_resolve_rolling_risk_free_dependency` keeps the points and drops the request:
  the response has lotus-core among its sources and no fingerprint of the call.
* `VarIsDaily`: `docs/methodologies/metrics/risk-var.md:39` says that value at
  risk always uses the daily distribution.  A stateless request does.  A
  stateful one asks lotus-performance for returns of its own frequency, so with
  WEEKLY or MONTHLY the "days" are compounded buckets, and the details of the
  metric still say DAILY.

## 7. Plan

Done: the jobs, their refinement and reads; `AsyncWorkflow`,
`SimulationSession`, the process and its gate and `Drawdown`, all with proofs of
their safety properties; all calculators with their requests, and proofs
that rolling metrics, risk metrics and drawdowns tell the books, that true
answers are served, and that the responses are qualified as they should be.

Left are the properties named at the end of section 4, which TLC checks.

## 8. Not modelled

* *Floating point*: the value of a statistic, quantiles, log returns, rounding
  and tolerances.  The models keep what a statistic is computed from, and decide
  "no variation" and "adds up" exactly.  A decimal that does not parse is a
  malformed answer.
* *Months, calendars*: months are buckets as weeks are; the beginnings of YTD,
  QTD, MTD and the trailing years are any day.
* *Job schema readiness*: one inspection of the database catalogue before a
  store is used.
* *Evidence and trust telemetry documents*, OpenAPI examples, declarations of
  fields: formatting, without state or order.
* *Metrics, correlation ids, log records* other than the counters of
  asynchronous workflows and the audit event.
* *Migrations, scripts, quality gates*: build time.
