------------------------------ MODULE Rolling -------------------------------
(***************************************************************************)
(* The rolling engine (src/src/app/services/rolling_engine.py and what it  *)
(* calls): periods, windows, alignment of dependencies, summaries, flags   *)
(* and contexts.                                                           *)
(*                                                                         *)
(* A series of returns is a function from its days.  A statistic is kept   *)
(* as the returns it is computed from, since it is a function of them; it  *)
(* is undefined exactly when the series it divides by does not vary, which *)
(* is what arithmetic without rounding gives.                              *)
(***************************************************************************)
EXTENDS Supportability, Functions

OwnMetrics == {"ROLLING_VOLATILITY", "ROLLING_MAX_DRAWDOWN"}

(* ROLLING_BENCHMARK_METRICS *)
BenchmarkMetrics == {"ROLLING_BETA", "ROLLING_TRACKING_ERROR", "ROLLING_INFORMATION_RATIO"}

RiskFreeMetrics == {"ROLLING_SHARPE"}

Metrics == OwnMetrics \cup BenchmarkMetrics \cup RiskFreeMetrics

Earliest(days) == CHOOSE d \in days : \A e \in days : d <= e

Larger(a, b) == IF a >= b THEN a ELSE b

NoReturns == [d \in {} |-> 0]

(* Not a number. *)
Undefined == [portfolio |-> NoReturns, other |-> NoReturns]

-----------------------------------------------------------------------------
(* Periods *)

(* resolve_period_bounds; "TO_DATE" stands for all types that end on the day
   of the request, with the start that the calendar gives them. *)
Bounds(period, asOf, open) ==
  CASE period.type = "EXPLICIT" -> [start |-> period.from, end |-> period.to]
    [] period.type = "TO_DATE"  -> [start |-> period.from, end |-> asOf]
    [] period.type = "SI"       -> [start |-> open, end |-> asOf]

(* resolve_period *)
Resolved(period, asOf, open) ==
  [Bounds(period, asOf, open) EXCEPT !.start = Larger(@, open)]

(* _filter_period *)
Within(series, bounds) ==
  Restrict(series, {d \in DOMAIN series : bounds.start <= d /\ d <= bounds.end})

-----------------------------------------------------------------------------
(* Windows *)

(* Mutant: a window of n reaches n days back. *)
LongWindow(days, d, n) ==
  {e \in days : e <= d /\ Cardinality({f \in days : e < f /\ f <= d}) <= n}

(* The observations of rolling(window=n) at day d: the last n up to d. *)
Window(days, d, n) ==
  {e \in days : e <= d /\ Cardinality({f \in days : e < f /\ f <= d}) < n}

(* min_observations *)
MinObservations(n, policy) == IF policy = "ALLOW_PARTIAL" THEN 2 ELSE n

(* The days a metric is rolled over: an inner join with its dependency. *)
MetricDays(metric, series) ==
  CASE metric \in OwnMetrics       -> DOMAIN series.portfolio
    [] metric \in BenchmarkMetrics -> DOMAIN series.portfolio \cap DOMAIN series.benchmark
    [] metric \in RiskFreeMetrics  -> DOMAIN series.portfolio \cap DOMAIN series.riskFree

(* What a metric divides by the variation of, day by day; 0 for those that do
   not divide. *)
DividesBy(metric, series, d) ==
  CASE metric = "ROLLING_BETA"              -> series.benchmark[d]
    [] metric = "ROLLING_INFORMATION_RATIO" -> series.portfolio[d] - series.benchmark[d]
    [] metric = "ROLLING_SHARPE"            -> series.portfolio[d] - series.riskFree[d]
    [] OTHER                                -> 0

Divides(metric) ==
  metric \in {"ROLLING_BETA", "ROLLING_INFORMATION_RATIO", "ROLLING_SHARPE"}

Varies(metric, series, window) ==
  \E d, e \in window : DividesBy(metric, series, d) # DividesBy(metric, series, e)

(* The returns a metric reads. *)
Argument(metric, series, window) ==
  [portfolio |-> Restrict(series.portfolio, window),
   other |-> CASE metric \in OwnMetrics       -> NoReturns
               [] metric \in BenchmarkMetrics -> Restrict(series.benchmark, window)
               [] metric \in RiskFreeMetrics  -> Restrict(series.riskFree, window)]

(* calculate_rolling_metric_values: the values of a metric by day. *)
MetricValues(metric, series, n, min) ==
  LET days == MetricDays(metric, series) IN
  [d \in days |->
     LET window == Window(days, d, n) IN
     IF Cardinality(window) < min \/ (Divides(metric) /\ ~Varies(metric, series, window))
       THEN Undefined
       ELSE Argument(metric, series, window)]

(* The quality flags of a metric. *)
MetricFlags(metric, series, n, min) ==
  LET days == MetricDays(metric, series)
      full == {d \in days : Cardinality(Window(days, d, n)) >= min}
  IN IF days = {} /\ metric \notin OwnMetrics THEN {<<metric, "alignment_empty">>}
     ELSE IF Divides(metric) /\ \E d \in full : ~Varies(metric, series, Window(days, d, n))
       THEN {<<metric, "zero">>}
     ELSE {}

-----------------------------------------------------------------------------
(* Summaries *)

ComputedDays(values) == {d \in DOMAIN values : values[d] # Undefined}

(* warmup_point_count *)
WarmupPoints(total, min) == IF total <= min - 1 THEN total ELSE min - 1

(* rolling_metric_summary *)
Summary(values, min) ==
  LET total    == Cardinality(DOMAIN values)
      computed == Cardinality(ComputedDays(values))
      warmup   == WarmupPoints(total, min)
  IN [total |-> total, computed |-> computed, required |-> min, warmup |-> warmup,
      notComputed |-> total - computed,
      gap |-> Larger(total - computed - warmup, 0)]

(* rolling_metric_series_points: each day that any metric has, with the values
   of those that have it. *)
SeriesPoints(valuesOf) ==
  [d \in UNION {DOMAIN valuesOf[m] : m \in DOMAIN valuesOf} |->
     [m \in {k \in DOMAIN valuesOf : d \in DOMAIN valuesOf[k]} |-> valuesOf[m][d]]]

(* calculate_window_result, with the points of its series. *)
WindowResult(series, metrics, n, policy) ==
  LET min      == MinObservations(n, policy)
      valuesOf == [m \in metrics |-> MetricValues(m, series, n, min)]
  IN [points    |-> SeriesPoints(valuesOf),
      summaries |-> [m \in metrics |-> Summary(valuesOf[m], min)]]

-----------------------------------------------------------------------------
(* Results of a period *)

(* _dependency_decision *)
Context(requested, supplied, aligned, unavailable) ==
  [requested |-> requested,
   available |-> requested /\ supplied > 0,
   aligned   |-> requested /\ supplied > 0 /\ aligned > 0,
   reason    |-> IF ~requested THEN "NOT_REQUESTED"
                 ELSE IF supplied = 0 THEN unavailable
                 ELSE IF aligned = 0 THEN "NO_ALIGNED_OBSERVATIONS"
                 ELSE "APPLIED"]

(* The count of days joined with a dependency, if a metric joins it. *)
AlignedCount(series, metrics, kind) ==
  IF metrics \cap kind = {} THEN 0
  ELSE Cardinality(MetricDays(CHOOSE m \in metrics \cap kind : TRUE, series))

PeriodResult(series, bounds, request, error) ==
  LET counted == error = "none"
      benchmarks == IF counted THEN Cardinality(DOMAIN series.benchmark) ELSE 0
      rates      == IF counted THEN Cardinality(DOMAIN series.riskFree) ELSE 0
  IN [bounds    |-> bounds,
      count     |-> Cardinality(DOMAIN series.portfolio),
      benchmark |-> Context(request.metrics \cap BenchmarkMetrics # {}, benchmarks,
                      IF counted THEN AlignedCount(series, request.metrics, BenchmarkMetrics) ELSE 0,
                      "BENCHMARK_UNAVAILABLE"),
      riskFree  |-> Context(request.metrics \cap RiskFreeMetrics # {}, rates,
                      IF counted THEN AlignedCount(series, request.metrics, RiskFreeMetrics) ELSE 0,
                      "RISK_FREE_UNAVAILABLE"),
      windows   |-> IF counted
                      THEN [n \in request.windows |->
                              WindowResult(series, request.metrics, n, request.policy)]
                      ELSE [n \in {} |-> {}],
      flags     |-> IF counted
                      THEN UNION {MetricFlags(m, series, n, MinObservations(n, request.policy)) :
                                    m \in request.metrics, n \in request.windows}
                      ELSE {},
      error     |-> error]

(* rolling_period_series and _calculate_period_result *)
Calculated(returns, request, period) ==
  LET bounds == Resolved(period, request.asOf, Earliest(DOMAIN returns.portfolio))
      series == [k \in {"portfolio", "benchmark", "riskFree"} |-> Within(returns[k], bounds)]
  IN PeriodResult(series, bounds, request,
       IF Cardinality(DOMAIN series.portfolio) < 2 THEN "Insufficient data" ELSE "none")

(* calculate_rolling_metrics: the results by the names of the periods. *)
Results(returns, request) ==
  IF DOMAIN returns.portfolio = {} THEN [k \in {} |-> {}]
  ELSE [k \in DOMAIN request.periods |-> Calculated(returns, request, request.periods[k])]

(* Its qualification before that of the source. *)
Qualification(returns, request) ==
  OfPeriods(DOMAIN returns.portfolio, request.asOf, Results(returns, request))
=============================================================================
