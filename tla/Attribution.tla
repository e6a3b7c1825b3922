----------------------------- MODULE Attribution -----------------------------
(***************************************************************************)
(* Historical attribution: how the risk of a period is decomposed over     *)
(* groups (src/src/app/services/attribution_calculation.py,                *)
(* attribution_decomposition.py, attribution_period_*.py), and what        *)
(* evidence of the groups' own returns is admitted to it                   *)
(* (attribution_group_evidence.py, attribution_active_group_evidence.py).  *)
(*                                                                         *)
(* Returns are integers and weights are integers out of Whole, so products *)
(* and sums are exact.  A covariance is kept without its divisor, which is *)
(* the same for all groups of a set: a residual is zero here exactly when  *)
(* it is zero up to rounding there.                                        *)
(***************************************************************************)
EXTENDS Rolling, FiniteSetsExt

CONSTANTS
  Whole,         \* the weight of a whole portfolio, a positive number
  Unknown,       \* the label of what has none, "UNKNOWN"
  Unclassified,  \* the producer's label for the same, another one
  None           \* no value

SumOf(f) == MapThenSumSet(LAMBDA k : f[k], DOMAIN f)

Repeats(s) == \E i, j \in DOMAIN s : i # j /\ s[i] = s[j]

(* Dimensions whose groups the producer knows, EMPIRICAL_GROUPING_DIMENSION_FIELDS. *)
Joinable == {"SECTOR", "ASSET_CLASS"}

(* The metric a type decomposes; the other one is unsupported for it. *)
MetricOf(type) == IF type = "TOTAL_RISK" THEN "VOLATILITY" ELSE "TRACKING_ERROR"

(* requires_active_attribution *)
RequiresActive(options) == "ACTIVE_RISK" \in options.types \/ "TRACKING_ERROR" \in options.metrics

(* needs_total, needs_active, group_evidence_applies_to_set *)
Needs(options, type) == type \in options.types /\ MetricOf(type) \in options.metrics

-----------------------------------------------------------------------------
(* Exposures: records of a day, a dimension, a group, its label, a weight *)

(* pivot_exposure: the rows of a period and a dimension. *)
Scoped(rows, dimension, bounds) ==
  {r \in rows : r.dimension = dimension /\ bounds.start <= r.day /\ r.day <= bounds.end}

Contradictory(rows) ==
  \E r, s \in rows : r.day = s.day /\ r.group = s.group /\ r.weight # s.weight

Groups(rows) == {r.group : r \in rows}

Observed(rows) == {r.day : r \in rows}

(* What has no row weighs nothing. *)
WeightAt(rows, g, d) ==
  LET found == {r \in rows : r.group = g /\ r.day = d} IN
  IF found = {} THEN 0 ELSE (CHOOSE r \in found : TRUE).weight

ExposureFlags(rows) ==
  IF rows = {} THEN {"no_exposure_data"}
  ELSE IF \E d \in Observed(rows) : SumOf([g \in Groups(rows) |-> WeightAt(rows, g, d)]) # Whole
    THEN {"weight_not_sum_to_one"}
  ELSE {}

-----------------------------------------------------------------------------
(* Evidence of the groups' returns, of lotus-performance *)

(* _expected_group_key_by_source_key: groups by the names the producer gives
   them.  Unclassified is also its name for what lotus-core calls Unknown. *)
Universe(rows) ==
  LET labels == {r.label : r \in rows}
      named  == [l \in labels |-> (CHOOSE r \in rows : r.label = l).group]
  IN IF Unknown \in labels
       THEN [l \in labels \cup {Unclassified} |-> IF l = Unclassified THEN named[Unknown] ELSE named[l]]
       ELSE named

(* A category that is called Unclassified beside one that is Unknown. *)
AmbiguousUniverse(rows) == {Unknown, Unclassified} \subseteq {r.label : r \in rows}

Weekend(d) == d % 7 >= 5

(* _parse_ready_series: what makes the series of a row malformed. *)
BadSeries(row, days, bounds, currency) ==
  LET dates == [i \in DOMAIN row.points |-> row.points[i].day] IN
  \/ ~row.basis
  \/ row.currency = None
  \/ currency # None /\ row.currency # currency
  \/ row.points = <<>>
  \/ days = {}
  \/ Repeats(dates)
  \/ \E i \in DOMAIN dates :
       /\ dates[i] \notin days
       /\ ~(Weekend(dates[i]) /\ bounds.start <= dates[i] /\ dates[i] <= bounds.end)

(* _collect_row_evidence: what makes the rows malformed. *)
BadRows(rows, universe, days, bounds, currency) ==
  LET named == {i \in DOMAIN rows : ~rows[i].other}
      ready == {i \in named : rows[i].status = "READY"}
  IN \/ \E i \in named :
          \/ rows[i].key \notin DOMAIN universe
          \/ \E j \in named \ {i} : rows[j].key \in DOMAIN universe
                                      /\ universe[rows[j].key] = universe[rows[i].key]
          \/ rows[i].status \notin {"READY", "UNAVAILABLE"}
     \/ \E i \in ready : BadSeries(rows[i], days, bounds, currency)
     \/ \E i, j \in ready : rows[i].currency # rows[j].currency

SeriesOf(row, days) ==
  [d \in {row.points[i].day : i \in DOMAIN row.points} \cap days |->
     row.points[CHOOSE i \in DOMAIN row.points : row.points[i].day = d]]

NamedGroups(rows, universe) == {universe[rows[i].key] : i \in {j \in DOMAIN rows : ~rows[j].other}}

DeclaredFlags(rows, universe) ==
  (IF \E i \in DOMAIN rows : rows[i].other THEN {"truncated"} ELSE {}) \cup
  (IF \E i \in DOMAIN rows : ~rows[i].other /\ rows[i].status = "UNAVAILABLE"
     THEN {"unavailable"} ELSE {}) \cup
  (IF {universe[k] : k \in DOMAIN universe} \subseteq NamedGroups(rows, universe)
     THEN {} ELSE {"group_universe_incomplete"})

(* _calendar_flags *)
CalendarFlags(series, days) ==
  IF \E g \in DOMAIN series : days \ DOMAIN series[g] # {} THEN {"calendar_incomplete"} ELSE {}

(* _reconciliation_flags, of series that have all days. *)
ReconciliationFlags(series, returns) ==
  IF \E d \in DOMAIN returns :
       SumOf([g \in DOMAIN series |-> series[g][d].weight * series[g][d].return])
         # Whole * returns[d]
    THEN {"reconciliation_breach"} ELSE {}

(* parse_group_evidence, of an answer that is not malformed. *)
Pack(answer, universe, returns) ==
  LET days   == DOMAIN returns
      rows   == IF answer.missing THEN <<>> ELSE answer.rows
      ready  == {i \in DOMAIN rows : ~rows[i].other /\ rows[i].status = "READY"}
      series == [g \in {universe[rows[i].key] : i \in ready} |->
                   SeriesOf(rows[CHOOSE i \in ready : universe[rows[i].key] = g], days)]
      stated == IF answer.missing THEN {"period_missing"} ELSE DeclaredFlags(rows, universe)
      known  == IF DOMAIN series = {} /\ stated = {} THEN {"period_missing"}
                ELSE stated \cup CalendarFlags(series, days)
  IN [series |-> series,
      flags  |-> known \cup (IF known = {} THEN ReconciliationFlags(series, returns) ELSE {}),
      active |-> None]

(* GroupEvidencePack.empirical *)
Empirical(pack) == pack.flags = {} /\ DOMAIN pack.series # {}

-----------------------------------------------------------------------------
(* Evidence of portfolio and benchmark groups together, of the v1 contract *)

(* active_group_key_by_source_id, by the labels both exposures give. *)
ActiveUniverse(rows) ==
  [l \in {r.label : r \in rows} |-> (CHOOSE r \in rows : r.label = l).group]

UnboundLabels(rows) ==
  \E r, s \in rows : r.label = None \/ (r.label = s.label /\ r.group # s.group)

(* _validated_group_rows *)
BadGroupRows(answer, universe) ==
  LET rows == answer.rows IN
  \/ rows = <<>>
  \/ Repeats([i \in DOMAIN rows |-> <<rows[i].day, rows[i].label>>])
  \/ \E i \in DOMAIN rows :
       LET r == rows[i] IN
       \/ r.day \notin DOMAIN answer.aggregates
       \/ r.label \notin DOMAIN universe
       \/ r.active # r.weight * r.return - r.otherWeight * r.otherReturn
  \/ {universe[rows[i].label] : i \in DOMAIN rows} # {universe[l] : l \in DOMAIN universe}

(* Mutant: the benchmark's leg is not added up. *)
PortfolioLegReconciles(answer, d, portfolio, benchmark) ==
  LET rows  == {i \in DOMAIN answer.rows : answer.rows[i].day = d}
      whole == answer.aggregates[d]
  IN SumOf([i \in rows |-> answer.rows[i].weight * answer.rows[i].return]) = Whole * whole.portfolio

(* _validate_group_leg_reconciliation and _validate_daily_reconciliation: a day
   adds up by group, and to the returns that Risk has admitted. *)
DayReconciles(answer, d, portfolio, benchmark) ==
  LET rows  == {i \in DOMAIN answer.rows : answer.rows[i].day = d}
      whole == answer.aggregates[d]
  IN /\ SumOf([i \in rows |-> answer.rows[i].weight * answer.rows[i].return])
          = Whole * whole.portfolio
     /\ SumOf([i \in rows |-> answer.rows[i].otherWeight * answer.rows[i].otherReturn])
          = Whole * whole.benchmark
     /\ whole.active = whole.portfolio - whole.benchmark
     /\ d \in DOMAIN portfolio =>
          whole.portfolio = portfolio[d] /\ whole.benchmark = benchmark[d]

(* parse_active_group_evidence: what it refuses, in the order of its checks. *)
ActiveRefusal(answer, identity, exposed, portfolio, benchmark) ==
  IF UnboundLabels(exposed) \/ ~answer.scope \/ answer.benchmark # identity THEN "invalid"
  ELSE IF ~answer.complete THEN "missing"
  ELSE IF answer.malformed THEN "invalid"
  ELSE IF DOMAIN portfolio # DOMAIN benchmark THEN "missing"
  ELSE IF \/ ~(DOMAIN portfolio \subseteq answer.days)
          \/ DOMAIN answer.aggregates # answer.days
          \/ BadGroupRows(answer, ActiveUniverse(exposed))
          \/ \E d \in answer.days : ~DayReconciles(answer, d, portfolio, benchmark)
    THEN "invalid"
  ELSE "none"

(* A day without a row of a group counts as one without weight and return. *)
ActiveObservations(answer, exposed, days) ==
  LET universe == ActiveUniverse(exposed)
      rowsOf(g, d) == {i \in DOMAIN answer.rows :
                         answer.rows[i].day = d /\ universe[answer.rows[i].label] = g}
  IN [g \in {universe[l] : l \in DOMAIN universe} |->
        [d \in days |->
           IF rowsOf(g, d) = {} THEN [contribution |-> 0, weight |-> 0]
           ELSE LET r == answer.rows[CHOOSE i \in rowsOf(g, d) : TRUE]
                IN [contribution |-> r.active, weight |-> r.weight - r.otherWeight]]]

-----------------------------------------------------------------------------
(* Inputs of a set: the metric by day, what each group adds to it by day, and
   the weights by day on the days observed *)

(* The metric of a type. *)
MetricSeries(type, series) ==
  IF type = "TOTAL_RISK" THEN [d \in DOMAIN series.portfolio |-> Whole * series.portfolio[d]]
  ELSE [d \in DOMAIN series.portfolio \cap DOMAIN series.benchmark |->
          Whole * (series.portfolio[d] - series.benchmark[d])]

(* _total_risk_inputs: the portfolio's return by a group's weight. *)
TotalProxy(series, rows) ==
  [metric  |-> MetricSeries("TOTAL_RISK", series),
   groups  |-> [g \in Groups(rows) |->
                  [d \in DOMAIN series.portfolio |-> WeightAt(rows, g, d) * series.portfolio[d]]],
   weights |-> [g \in Groups(rows) |-> [d \in Observed(rows) |-> WeightAt(rows, g, d)]],
   basis   |-> "weight_proxy"]

(* _active_risk_inputs: a weight is observed where both sides are. *)
ActiveProxy(series, rows, others) ==
  LET metric == MetricSeries("ACTIVE_RISK", series)
      groups == Groups(rows) \cup Groups(others)
      active(g, d) == WeightAt(rows, g, d) - WeightAt(others, g, d)
  IN [metric  |-> metric,
      groups  |-> [g \in groups |->
                     [d \in DOMAIN metric |->
                        active(g, d) * (series.portfolio[d] - series.benchmark[d])]],
      weights |-> [g \in groups |-> [d \in Observed(rows) \cap Observed(others) |-> active(g, d)]],
      basis   |-> "weight_proxy"]

(* empirical_total_risk_inputs *)
EmpiricalTotal(series, pack) ==
  [metric  |-> MetricSeries("TOTAL_RISK", series),
   groups  |-> [g \in DOMAIN pack.series |->
                  [d \in DOMAIN series.portfolio |->
                     pack.series[g][d].weight * pack.series[g][d].return]],
   weights |-> [g \in DOMAIN pack.series |->
                  [d \in DOMAIN series.portfolio |-> pack.series[g][d].weight]],
   basis   |-> "empirical_group_returns"]

(* empirical_active_risk_inputs *)
EmpiricalActive(series, pack) ==
  LET metric == MetricSeries("ACTIVE_RISK", series) IN
  [metric  |-> metric,
   groups  |-> [g \in DOMAIN pack.active |->
                  [d \in DOMAIN metric |-> pack.active[g][d].contribution]],
   weights |-> [g \in DOMAIN pack.active |-> [d \in DOMAIN metric |-> pack.active[g][d].weight]],
   basis   |-> "empirical_group_returns"]

-----------------------------------------------------------------------------
(* Sets *)

Covariance(x, y) ==
  LET n == Cardinality(DOMAIN x) IN
  n * SumOf([d \in DOMAIN x |-> x[d] * y[d]]) - SumOf(x) * SumOf(y)

(* weight_average, as a sum over a count *)
Average(weights) ==
  IF DOMAIN weights = {} THEN None ELSE <<SumOf(weights), Cardinality(DOMAIN weights)>>

(* calculated_attribution_set with component_decomposition: nothing is
   decomposed if the metric does not vary. *)
CalculatedSet(inputs, flags) ==
  LET total  == Covariance(inputs.metric, inputs.metric)
      listed == IF total = 0 THEN {} ELSE DOMAIN inputs.groups
      parts  == [g \in listed |-> Covariance(inputs.groups[g], inputs.metric)]
  IN [basis |-> inputs.basis, flags |-> flags, total |-> total, components |-> parts,
      averages |-> [g \in listed |-> Average(inputs.weights[g])],
      residual |-> total - SumOf(parts)]

(* empty_attribution_set; its basis is the default one. *)
EmptySet(flags) ==
  [basis |-> "weight_proxy", flags |-> flags, total |-> None, components |-> NoReturns,
   averages |-> NoReturns, residual |-> None]

(* Mutant: evidence that is declared incomplete is used for what it has. *)
AnyEvidence(type, pack) == pack # None /\ (type = "TOTAL_RISK" => DOMAIN pack.series # {})

(* Whether the evidence of a dimension is for sets of a type, and is whole. *)
Decisive(type, pack) ==
  /\ pack # None
  /\ IF type = "TOTAL_RISK" THEN Empirical(pack) ELSE pack.active # None

(* _attribution_calculation_precalculation *)
Inputs(type, series, rows, others, pack) ==
  CASE type = "TOTAL_RISK" /\ Decisive(type, pack)   -> EmpiricalTotal(series, pack)
    [] type = "ACTIVE_RISK" /\ Decisive(type, pack)  -> EmpiricalActive(series, pack)
    [] type = "TOTAL_RISK" /\ ~Decisive(type, pack)  -> TotalProxy(series, rows)
    [] type = "ACTIVE_RISK" /\ ~Decisive(type, pack) -> ActiveProxy(series, rows, others)

(* What the evidence says of its gaps rides with the set that asked for it. *)
EvidenceFlags(type, pack) ==
  IF type = "TOTAL_RISK" /\ pack # None /\ ~Empirical(pack) THEN pack.flags ELSE {}

(* build_attribution_set *)
AttributionSet(type, metric, series, rows, others, pack, flags) ==
  LET inputs == Inputs(type, series, rows, others, pack)
      stated == flags \cup EvidenceFlags(type, pack)
      length == Cardinality(DOMAIN inputs.metric)
  IN IF metric # MetricOf(type) THEN EmptySet(flags \cup {"unsupported"})
     ELSE IF length = 0 THEN EmptySet(stated \cup {"alignment_empty"})
     ELSE IF length < 2 THEN EmptySet(stated \cup {"insufficient_observations"})
     ELSE CalculatedSet(inputs, stated)

-----------------------------------------------------------------------------
(* Periods *)

(* build_period_attribution_sets: a set for each dimension, type and metric;
   the exposures of the benchmark are looked at if it is required. *)
PeriodSets(options, series, bounds, exposures, benchmarkExposures, packs) ==
  [key \in options.dimensions \X options.types \X options.metrics |->
     LET dimension == key[1]
         rows   == Scoped(exposures, dimension, bounds)
         others == IF RequiresActive(options)
                     THEN Scoped(benchmarkExposures, dimension, bounds) ELSE {}
         flags  == ExposureFlags(rows) \cup
                   (IF RequiresActive(options) THEN ExposureFlags(others) ELSE {})
     IN AttributionSet(key[2], key[3], series, rows, others,
          IF dimension \in DOMAIN packs THEN packs[dimension] ELSE None, flags)]

NoSets == [key \in {} |-> None]

Unrequested == [requested |-> FALSE]

(* calculate_period_attribution; like all results of Rolling it has a count and
   contexts, which the assessment reads: an attribution has none. *)
AttributedPeriod(options, series, bounds, exposures, benchmarkExposures, packs) ==
  LET short == Cardinality(DOMAIN series.portfolio) < 2 IN
  [bounds |-> bounds, count |-> None, benchmark |-> Unrequested, riskFree |-> Unrequested,
   error  |-> IF short THEN "Insufficient data" ELSE "none",
   sets   |-> IF short THEN NoSets
              ELSE PeriodSets(options, series, bounds, exposures, benchmarkExposures, packs)]

(* The bounds of a period, and the series in it. *)
BoundsOf(request, returns, k) ==
  Resolved(request.periods[k], request.asOf, Earliest(DOMAIN returns.portfolio))

Windowed(returns, bounds) ==
  [portfolio |-> Within(returns.portfolio, bounds), benchmark |-> Within(returns.benchmark, bounds)]

(* calculate_historical_attribution, evidence by period and dimension. *)
Attributed(request, returns, exposures, benchmarkExposures, evidence) ==
  IF DOMAIN returns.portfolio = {} THEN [k \in {} |-> None]
  ELSE [k \in DOMAIN request.periods |->
          LET bounds == BoundsOf(request, returns, k) IN
          AttributedPeriod(request.options, Windowed(returns, bounds), bounds, exposures,
            benchmarkExposures, IF k \in DOMAIN evidence THEN evidence[k] ELSE NoSets)]

CalculatedSets(results) ==
  UNION {{results[k].sets[key] : key \in {q \in DOMAIN results[k].sets :
                                           results[k].sets[q].total # None}} :
           k \in DOMAIN results}

(* Mutant: one empirical set is enough. *)
AnyEmpirical(results) == \E s \in CalculatedSets(results) : s.basis = "empirical_group_returns"

(* _all_calculated_sets_are_empirical *)
AllEmpirical(results) ==
  /\ CalculatedSets(results) # {}
  /\ \A s \in CalculatedSets(results) : s.basis = "empirical_group_returns"

(* supportability_from_attribution_results *)
AttributionQualification(request, returns, results) ==
  LET days     == DOMAIN returns.portfolio
      baseline == OfPeriods(days, request.asOf, results)
      found    == Assessment(results)
  IN IF days = {} \/ AllEmpirical(results) THEN baseline
     ELSE [state |-> "degraded",
           reason |-> MostSevere(found.reasons \cup {"group_return_series_unavailable"}),
           bucket |-> baseline.bucket, degraded |-> found.degraded, empty |-> found.empty,
           evaluated |-> Cardinality(DOMAIN results)]
=============================================================================
