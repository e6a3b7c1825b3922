---------------------------- MODULE RiskMetrics -----------------------------
(***************************************************************************)
(* The engines of risk/calculate and of risk/drawdown                      *)
(* (src/src/app/services/risk_engine.py, risk/, drawdown_engine.py,        *)
(* drawdown_periods.py, drawdown_relative_benchmark.py) around their       *)
(* formulas: sampling, the errors of a metric, the join with a benchmark,  *)
(* contexts and qualification.                                             *)
(*                                                                         *)
(* An observation is a function from the days that it compounds to their   *)
(* returns, and a series one from dates to observations.  A metric is kept *)
(* as the observations it is computed from.  Returns are in halves: -2 is  *)
(* a total loss.                                                           *)
(***************************************************************************)
EXTENDS Rolling

(* RISK_METRICS_REQUIRING_BENCHMARK *)
RelativeMetrics == {"BETA", "TRACKING_ERROR", "INFORMATION_RATIO"}

(* RISK_METRICS_REQUIRING_RISK_FREE *)
RatedMetrics == {"SHARPE"}

Nobody == [l \in {} |-> NoReturns]

(* The series of daily returns. *)
Daily(series) == [d \in DOMAIN series |-> [e \in {d} |-> series[d]]]

-----------------------------------------------------------------------------
(* Sampling *)

Unit == 2

(* The wealth that an observation makes of a power of Unit. *)
Factor(observation) == FoldFunction(LAMBDA r, f : (Unit + r) * f, 1, observation)

(* The same for all observations: a bucket has seven days at the most. *)
Growth(observation) == Factor(observation) * Unit ^ (7 - Cardinality(DOMAIN observation))

Unchanging == Unit ^ 7

(* The weeks of W-FRI; day 0 is a Monday. *)
Week(d) == (d + 2) \div 7

Friday(week) == 7 * week + 4

(* _compound_populated_bucket *)
Merged(series, dates) ==
  [d \in UNION {DOMAIN series[l] : l \in dates} |->
     series[CHOOSE l \in dates : d \in DOMAIN series[l]][d]]

Weekly(series) ==
  LET dates == DOMAIN series IN
  [f \in {Friday(Week(l)) : l \in dates} |-> Merged(series, {l \in dates : Week(l) = Week(f)})]

(* A bucket without an observation, between two that have some. *)
Gap(series) ==
  LET weeks == {Week(l) : l \in DOMAIN series} IN
  \E v, w \in weeks : v + 1 < w /\ \A u \in weeks : u <= v \/ w <= u

(* resolve_metric_return_series: _resample_returns and _to_log_returns. *)
Sampled(series, frequency, log) ==
  LET sampled == IF frequency = "DAILY" THEN series ELSE Weekly(series)
      error == IF frequency # "DAILY" /\ Gap(series) THEN "Missing return observations"
               ELSE IF log /\ \E l \in DOMAIN sampled : Factor(sampled[l]) <= 0
                 THEN "Log returns are undefined"
               ELSE "none"
  IN [error |-> error, series |-> IF error = "none" THEN sampled ELSE Nobody]

-----------------------------------------------------------------------------
(* Metrics of the portfolio *)

(* _require_data *)
Needed(metric, request) == IF metric = "VAR" /\ request.method = "CORNISH_FISHER" THEN 4 ELSE 2

Steady(series) == \A l, k \in DOMAIN series : Growth(series[l]) = Growth(series[k])

(* calculate_volatility, calculate_sharpe, calculate_sortino, calculate_var *)
OwnError(metric, series, request) ==
  IF Cardinality(DOMAIN series) < Needed(metric, request) THEN "Insufficient data"
  ELSE IF metric = "SHARPE" /\ Steady(series) THEN "Zero volatility"
  ELSE IF metric = "SORTINO" /\ \A l \in DOMAIN series : Growth(series[l]) >= Unchanging
    THEN "No downside observations"
  ELSE "none"

Failed(error) == [error |-> error, observations |-> Nobody, others |-> Nobody]

Valued(error, series, others) ==
  IF error = "none" THEN [error |-> "none", observations |-> series, others |-> others]
  ELSE Failed(error)

(* _period_non_benchmark_metrics: drawdown takes the returns as they are, and
   value at risk those of the days unless the others fail. *)
OwnValue(metric, series, request) ==
  LET main  == Sampled(series, request.frequency, request.log)
      daily == Sampled(series, "DAILY", request.log)
      used  == IF metric = "VAR" /\ main.error = "none" THEN daily ELSE main
  IN IF metric = "DRAWDOWN" THEN Valued("none", series, Nobody)
     ELSE IF used.error # "none" THEN Failed(used.error)
     ELSE Valued(OwnError(metric, used.series, request), used.series, Nobody)

-----------------------------------------------------------------------------
(* Metrics against a benchmark *)

(* The difference of returns does not vary, be they logarithms or not. *)
SteadyDifference(series, others, log) ==
  \A l, k \in DOMAIN series :
    LET p == Growth(series[l]) q == Growth(series[k])
        b == Growth(others[l]) c == Growth(others[k])
    IN IF log THEN p * c = q * b ELSE p - b = q - c

(* beta, tracking_error, information_ratio *)
RelativeError(metric, series, others, log) ==
  IF metric = "BETA" /\ Steady(others) THEN "Benchmark variance is zero"
  ELSE IF metric = "INFORMATION_RATIO" /\ SteadyDifference(series, others, log)
    THEN "Tracking error is zero"
  ELSE "none"

(* The dates of both, an inner join. *)
Joined(main, other) == DOMAIN main.series \cap DOMAIN other.series

(* calculate_benchmark_period_metrics: what keeps all of them from a value. *)
RelativeFailure(main, other, supplied) ==
  IF main.error # "none" THEN main.error
  ELSE IF ~supplied THEN "Benchmark returns required for benchmark-dependent metric"
  ELSE IF other.error # "none" THEN other.error
  ELSE IF Cardinality(Joined(main, other)) < 2 THEN "Insufficient aligned observations"
  ELSE "none"

RelativeValue(metric, main, other, supplied, log) ==
  LET failure == RelativeFailure(main, other, supplied)
      series  == Restrict(main.series, Joined(main, other))
      others  == Restrict(other.series, Joined(main, other))
  IN IF failure # "none" THEN Failed(failure)
     ELSE Valued(RelativeError(metric, series, others, log), series, others)

NotRequested ==
  [requested |-> FALSE, available |-> FALSE, aligned |-> FALSE, reason |-> "NOT_REQUESTED"]

(* prepare_benchmark_context *)
RelativeContext(main, other, supplied) ==
  [requested |-> TRUE, available |-> supplied,
   aligned   |-> Joined(main, other) # {},
   reason    |-> IF main.error # "none" THEN "PORTFOLIO_RETURN_SERIES_INVALID"
                 ELSE IF ~supplied THEN "BENCHMARK_UNAVAILABLE"
                 ELSE IF Joined(main, other) = {} THEN "NO_ALIGNED_OBSERVATIONS"
                 ELSE "APPLIED"]

-----------------------------------------------------------------------------
(* risk/calculate *)

(* calculate_period_metrics, _period_benchmark_metrics *)
PeriodMetrics(own, main, other, supplied, request) ==
  [m \in request.metrics |->
     IF m \in RelativeMetrics THEN RelativeValue(m, main, other, supplied, request.log)
     ELSE OwnValue(m, own, request)]

(* _build_single_period_result *)
RiskPeriod(series, request, period, open) ==
  LET bounds   == Resolved(period, request.asOf, open)
      own      == Within(series.portfolio, bounds)
      supplied == DOMAIN series.benchmark # {}
      main     == Sampled(own, request.frequency, request.log)
      other    == Sampled(Within(series.benchmark, bounds), request.frequency, request.log)
      relative == request.metrics \cap RelativeMetrics
  IN [bounds    |-> bounds,
      count     |-> Cardinality(DOMAIN own),
      error     |-> "none",
      benchmark |-> IF relative = {} THEN NotRequested ELSE RelativeContext(main, other, supplied),
      riskFree  |-> NotRequested,
      metrics   |-> PeriodMetrics(own, main, other, supplied, request)]

(* calculate_risk *)
RiskResults(series, request, open) ==
  IF DOMAIN series.portfolio = {} THEN [k \in {} |-> {}]
  ELSE [k \in DOMAIN request.periods |-> RiskPeriod(series, request, request.periods[k], open)]

(* _scan_risk_metric_supportability: metrics with an error, by period. *)
Erring(results) ==
  UNION {{<<k, m>> : m \in {n \in DOMAIN results[k].metrics : results[k].metrics[n].error # "none"}} :
           k \in DOMAIN results}

(* Mutant: metrics are scanned only if the periods are in order. *)
ScannedIfInOrder(series, request, results) ==
  LET baseline == OfPeriods(DOMAIN series.portfolio, request.asOf, results)
      erring == Erring(results)
  IN IF baseline.state \in {"empty", "degraded"} \/ erring = {} THEN baseline
     ELSE [baseline EXCEPT
             !.state = "degraded",
             !.reason = MostSevere({ReasonForError(results[e[1]].metrics[e[2]].error) : e \in erring}),
             !.degraded = Cardinality(erring)]

(* supportability_from_risk_metric_results *)
RiskQualification(series, request, results) ==
  LET baseline == OfPeriods(DOMAIN series.portfolio, request.asOf, results)
      erring == Erring(results)
  IN IF baseline.state = "empty" \/ erring = {} THEN baseline
     ELSE [baseline EXCEPT
             !.state = "degraded",
             !.reason = MostSevere({ReasonForError(results[e[1]].metrics[e[2]].error) : e \in erring}),
             !.degraded = Cardinality(erring),
             !.empty = Cardinality({k \in DOMAIN results : results[k].count = 0})]

-----------------------------------------------------------------------------
(* risk/drawdown *)

(* _relative_benchmark_context, in the terms of the other contexts. *)
DrawdownContext(request, joined, supplied) ==
  [requested |-> request.include, available |-> joined # {}, aligned |-> joined # {},
   reason    |-> IF joined # {} THEN "APPLIED"
                 ELSE IF supplied THEN "NO_ALIGNED_OBSERVATIONS"
                 ELSE IF request.include THEN "BENCHMARK_UNAVAILABLE" ELSE "NOT_REQUESTED"]

(* _calculate_period_result, _insufficient_period_result *)
DrawdownPeriod(series, request, period) ==
  LET bounds == Resolved(period, request.asOf, Earliest(DOMAIN series.portfolio))
      own    == Within(series.portfolio, bounds)
      joined == DOMAIN own \cap DOMAIN Within(series.benchmark, bounds)
      short  == DOMAIN own = {}
  IN [bounds    |-> bounds,
      count     |-> Cardinality(DOMAIN own),
      error     |-> IF short THEN "Insufficient data" ELSE "none",
      benchmark |-> IF short THEN DrawdownContext(request, {}, FALSE)
                    ELSE DrawdownContext(request, joined, DOMAIN series.benchmark # {}),
      riskFree  |-> NotRequested,
      metrics   |-> [m \in IF short THEN {} ELSE {"DRAWDOWN"} |-> Valued("none", own, Nobody)]]

(* calculate_drawdown *)
DrawdownResults(series, request) ==
  IF DOMAIN series.portfolio = {} THEN [k \in {} |-> {}]
  ELSE [k \in DOMAIN request.periods |-> DrawdownPeriod(series, request, request.periods[k])]
=============================================================================
