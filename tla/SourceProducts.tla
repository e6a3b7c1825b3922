--------------------------- MODULE SourceProducts ---------------------------
(***************************************************************************)
(* The products of routers/source_products.py: the evaluation of a regime  *)
(* scenario pack, at once or by a job's worker, the cohort that a risk     *)
(* event affects, and the risk health of a mandate.  A request is checked  *)
(* as a whole and evaluated in one step, from what the caller says and     *)
(* from registries in the code.                                            *)
(*                                                                         *)
(* A bucket is a pair of its name and of how it is spelled, and names are  *)
(* numbers in their order.  Weights are parts of Full, shocks hundredths   *)
(* and losses their products: nothing is lost by rounding to six places,   *)
(* and the tolerance of the sums is less than one part.                    *)
(***************************************************************************)
EXTENDS RiskMetrics, Sequences, FiniteSetsExt, TLC

CONSTANTS
  Worlds,          \* the requests
  Full,            \* parts of a whole allocation
  MaxBuckets,      \* SCENARIO_MAX_EXPOSURE_BUCKETS, RISK_EVENT_MAX_EXPOSURE_BUCKETS_PER_PORTFOLIO
  MaxRows,         \* SCENARIO_MAX_POSITION_CONTRIBUTION_ROWS, also of exposure_components
  MaxJobRows,      \* SCENARIO_JOB_MAX_EXPOSURE_COMPONENTS
  MaxPortfolios,   \* RISK_EVENT_MAX_CANDIDATE_PORTFOLIOS
  None             \* no portfolio

VARIABLES request, at, outcome

vars == <<request, at, outcome>>

Silence == [kind |-> "none"]

-----------------------------------------------------------------------------
(* Registries *)

Alternatives == 1
Cash         == 2
Equity       == 3
FixedIncome  == 4

Shocks(equity, fixedIncome, alternatives) ==
  (Equity :> equity) @@ (FixedIncome :> fixedIncome) @@ (Alternatives :> alternatives)
    @@ (Cash :> 0)

(* SCENARIO_PACKS *)
Packs ==
  [CIO_REGIME_2026_Q2 |->
     <<Shocks(-12, -3, -6), Shocks(-8, -7, -4), Shocks(-18, -2, -10)>>]

(* SUPPORTED_BUCKETS *)
SupportedBuckets == {Equity, FixedIncome, Alternatives, Cash}

(* SCENARIO_PACK_GOVERNANCE; its quarter is the days 1 to 3. *)
Governance ==
  [CIO_REGIME_2026_Q2 |->
     [approval |-> "APPROVED", from |-> 1, to |-> 3, portfolios |-> {"PB_SG_GLOBAL_BAL_001"}]]

(* RISK_EVENTS *)
Events ==
  [RISK_EVENT_2026_Q2_RATES_UP |-> Shocks(-4, -15, -3),
   RISK_EVENT_2026_Q2_RISK_OFF |-> Shocks(-18, -2, -10)]

-----------------------------------------------------------------------------
(* Allocations *)

(* str.upper *)
Upper(bucket) == bucket[1]

Buckets(rows) == {Upper(rows[i].bucket) : i \in DOMAIN rows}

WeightOf(rows, some) == MapThenSumSet(LAMBDA i : rows[i].weight, some)

(* _validate_full_allocation *)
FullAllocation(rows) == WeightOf(rows, DOMAIN rows) = Full

(* The weights of a portfolio: RegimeScenarioPackRequest.validate_exposures,
   RiskEventPortfolioExposure.validate_exposure_weights *)
Allocated(rows) ==
  /\ Len(rows) \in 1..MaxBuckets
  /\ \A i \in DOMAIN rows : rows[i].weight \in 0..Full
  /\ \A i, j \in DOMAIN rows : i # j => Upper(rows[i].bucket) # Upper(rows[j].bucket)
  /\ FullAllocation(rows)

(* exposure_by_bucket, normalized_exposures *)
ByBucket(rows) ==
  [b \in Buckets(rows) |-> rows[CHOOSE i \in DOMAIN rows : Upper(rows[i].bucket) = b].weight]

(* Mutant: components may be part of a portfolio. *)
ReconciledInPart(exposures, components) ==
  \A b \in Buckets(components) :
    /\ b \in Buckets(exposures)
    /\ WeightOf(components, {i \in DOMAIN components : Upper(components[i].bucket) = b})
         = ByBucket(exposures)[b]

(* _validate_exposure_components, also of validate_exposures. *)
Reconciled(exposures, components) ==
  /\ \A b \in Buckets(components) :
       /\ b \in Buckets(exposures)
       /\ WeightOf(components, {i \in DOMAIN components : Upper(components[i].bucket) = b})
            = ByBucket(exposures)[b]
  /\ FullAllocation(components)

-----------------------------------------------------------------------------
(* The scenario engine *)

(* RegimeScenarioPackRequest, RegimeScenarioPackJobRequest *)
PackAdmitted ==
  /\ Allocated(request.exposures)
  /\ Len(request.components) <= IF request.kind = "job" THEN MaxJobRows ELSE MaxRows
  /\ \A i \in DOMAIN request.components : request.components[i].weight \in 0..Full
  /\ request.components # <<>> => Reconciled(request.exposures, request.components)

(* _validate_position_contribution_row_bound; a job's rows are read in pages. *)
Bounded(pack) ==
  request.kind = "job" \/ Len(request.components) <= MaxRows \div Len(pack)

Shock(scenario, bucket) == IF bucket \in DOMAIN scenario THEN scenario[bucket] ELSE 0

LossOf(weight, shock) == Larger(-(weight * shock), 0)

(* _evaluate_position_contributions: the largest loss first, then by names. *)
Contributions(scenario, components) ==
  LET row(i) == [security |-> components[i].security, bucket |-> Upper(components[i].bucket),
                 weight   |-> components[i].weight,
                 loss     |-> LossOf(components[i].weight, Shock(scenario, Upper(components[i].bucket)))]
      key(i) == <<-row(i).loss, row(i).bucket, row(i).security, i>>
      before(i, j) == \E n \in 1..4 : key(i)[n] < key(j)[n] /\ \A m \in 1..(n - 1) : key(i)[m] = key(j)[m]
      order == SortSeq([i \in DOMAIN components |-> i], before)
  IN [i \in DOMAIN components |-> row(order[i])]

(* _evaluate_scenario *)
ScenarioResult(scenario, exposure, components) ==
  [loss |-> MapThenSumSet(LAMBDA b : LossOf(exposure[b], Shock(scenario, b)), DOMAIN exposure),
   contributions |-> Contributions(scenario, components)]

Severity == [READY |-> 0, PENDING_REVIEW |-> 1, DEGRADED |-> 2, BLOCKED |-> 3]

(* most_severe_supportability *)
Severest(left, right) == IF Severity[left] >= Severity[right] THEN left ELSE right

Decision(state, reasons) == [state |-> state, reasons |-> reasons]

Both(one, other) == Decision(Severest(one.state, other.state), one.reasons \cup other.reasons)

(* cio_approval_decision *)
Approval(governance) ==
  IF governance.approval = "APPROVED" THEN Decision("READY", {})
  ELSE Decision("BLOCKED", {"CIO_APPROVAL_NOT_CONFIRMED"})

(* effective_period_decision *)
EffectivePeriod(governance) ==
  IF governance.from <= request.asOf /\ request.asOf <= governance.to THEN Decision("READY", {})
  ELSE Decision("DEGRADED", {"EFFECTIVE_PERIOD_EXCEPTION"})

(* portfolio_applicability_decision *)
Applicability(governance) ==
  CASE request.portfolio = None -> Decision("PENDING_REVIEW", {"APPLICABILITY_NOT_CONFIRMED"})
    [] request.portfolio \in governance.portfolios -> Decision("READY", {})
    [] OTHER -> Decision("BLOCKED", {"PORTFOLIO_NOT_APPLICABLE"})

(* evaluate_governance_evidence *)
Governed(governance) ==
  Both(Both(Approval(governance), EffectivePeriod(governance)), Applicability(governance))

(* _scenario_pack_context *)
PackContext(exposure, governance) ==
  Both(IF DOMAIN exposure \subseteq SupportedBuckets THEN Decision("READY", {"PACK_READY"})
       ELSE Decision("DEGRADED", {"PACK_READY", "UNSUPPORTED_EXPOSURE_BUCKET"}),
       Governed(governance))

(* _supportability_after_breach *)
AfterBreach(breach, state) == IF breach /\ state = "READY" THEN "PENDING_REVIEW" ELSE state

(* _evaluate_scenario_pack_context, _response_from_evaluation *)
PackResponse(pack, governance) ==
  LET exposure == ByBucket(request.exposures)
      results  == [s \in DOMAIN pack |-> ScenarioResult(pack[s], exposure, request.components)]
      worst    == Max({results[s].loss : s \in DOMAIN pack})
      breach   == worst > request.maximum
      context  == PackContext(exposure, governance)
  IN [kind |-> "pack", results |-> results, worst |-> worst, breach |-> breach,
      state   |-> AfterBreach(breach, context.state),
      reasons |-> context.reasons \cup IF breach THEN {"POLICY_THRESHOLD_BREACH"} ELSE {}]

-----------------------------------------------------------------------------
(* The cohort of a risk event *)

(* RiskEventAffectedCohortRequest *)
CohortAdmitted ==
  LET portfolios == request.portfolios IN
  /\ Len(portfolios) \in 1..MaxPortfolios
  /\ \A i \in DOMAIN portfolios : Allocated(portfolios[i].exposures)
  /\ \A i, j \in DOMAIN portfolios : i # j => portfolios[i].id # portfolios[j].id

(* _evaluate_portfolio_exposure *)
PortfolioEvaluation(portfolio, shocks) ==
  LET exposure == ByBucket(portfolio.exposures)
      impacts  == [b \in DOMAIN exposure |-> exposure[b] * Shock(shocks, b)]
  IN [id |-> portfolio.id, impacts |-> impacts,
      score |-> MapThenSumSet(LAMBDA b : Larger(impacts[b], -impacts[b]), DOMAIN impacts),
      unsupported |-> DOMAIN exposure \ DOMAIN shocks]

(* _is_affected *)
Affected(evaluation) == evaluation.score >= request.minimum /\ evaluation.unsupported = {}

(* _excluded_portfolio *)
Excluded(evaluation) ==
  [evaluation |-> evaluation,
   reason |-> IF evaluation.unsupported # {} THEN "UNSUPPORTED_EXPOSURE_BUCKET"
              ELSE "BELOW_THRESHOLD"]

(* _supportability_state *)
CohortDecision(affected, excluded) ==
  LET unsupported == \E i \in DOMAIN excluded : excluded[i].reason = "UNSUPPORTED_EXPOSURE_BUCKET"
      nobody == IF affected = <<>> THEN {"NO_AFFECTED_PORTFOLIOS"} ELSE {}
  IN CASE unsupported -> Decision("DEGRADED", {"PARTIAL_UNSUPPORTED_EXPOSURE_BUCKETS"} \cup nobody)
       [] ~unsupported /\ nobody # {} -> Decision("PENDING_REVIEW", nobody)
       [] OTHER -> Decision("READY", {"AFFECTED_COHORT_READY"})

(* evaluate_risk_event_affected_cohort, _risk_event_cohort_membership *)
CohortResponse(shocks) ==
  LET evaluations == [i \in DOMAIN request.portfolios |->
                        PortfolioEvaluation(request.portfolios[i], shocks)]
      affected == SelectSeq(evaluations, Affected)
      others   == SelectSeq(evaluations, LAMBDA e : ~Affected(e))
      excluded == [i \in DOMAIN others |-> Excluded(others[i])]
      decision == CohortDecision(affected, excluded)
  IN [kind |-> "cohort", affected |-> affected, excluded |-> excluded,
      state |-> decision.state, reasons |-> decision.reasons]

-----------------------------------------------------------------------------
(* The risk health of a mandate *)

Period == "P"

(* _tracking_error_risk_request, with the options of RiskOptions. *)
RiskRequest ==
  [metrics |-> {"TRACKING_ERROR"}, periods |-> (Period :> request.period), asOf |-> request.asOf,
   frequency |-> "DAILY", log |-> FALSE]

(* The tracking error is above the threshold, a square of it in days: of n
   observations n squares less the square of the sum are n (n - 1) variances. *)
Exceeds(value, threshold) ==
  LET days == DOMAIN value.observations
      n == Cardinality(days)
      active(d) == value.observations[d][d] - value.others[d][d]
      sum == MapThenSumSet(active, days)
      squares == MapThenSumSet(LAMBDA d : active(d) * active(d), days)
  IN n * squares - sum * sum > threshold * n * (n - 1)

(* _tracking_error_health *)
Health(value, history) ==
  IF value.error # "none"
    THEN [kind |-> "health", state |-> "unavailable", count |-> 0,
          reasons |-> {"TRACKING_ERROR_UNAVAILABLE"}
                        \cup IF history THEN {} ELSE {"PORTFOLIO_HISTORY_UNAVAILABLE"}]
  ELSE [kind |-> "health", count |-> Cardinality(DOMAIN value.observations),
        state   |-> IF Exceeds(value, request.threshold) THEN "attention" ELSE "ready",
        reasons |-> {"TRACKING_ERROR_SOURCE_READY"}
                      \cup IF Exceeds(value, request.threshold)
                             THEN {"TRACKING_ERROR_THRESHOLD_BREACHED"} ELSE {}]

(* evaluate_mandate_risk_health_context: calculate_risk has no results without
   returns. *)
HealthResponse ==
  LET series  == [portfolio |-> Daily(request.returns), benchmark |-> Daily(request.benchmark)]
      results == RiskResults(series, RiskRequest, request.open)
  IN IF Period \in DOMAIN results THEN Health(results[Period].metrics["TRACKING_ERROR"], TRUE)
     ELSE Health(Failed("No results"), FALSE)

-----------------------------------------------------------------------------
(* The handlers *)

Init == request \in Worlds /\ at = "accepted" /\ outcome = Silence

Answer(response) == outcome' = response /\ at' = "done" /\ UNCHANGED request

Refuse == Answer([kind |-> "refused"])

(* evaluate_regime_scenario_pack, evaluate_large_regime_scenario_job *)
EvaluatePack ==
  /\ at = "accepted" /\ request.kind \in {"pack", "job"}
  /\ IF /\ PackAdmitted
        /\ request.pack \in DOMAIN Packs
        /\ Bounded(Packs[request.pack])
       THEN Answer(PackResponse(Packs[request.pack], Governance[request.pack]))
       ELSE Refuse

EvaluateCohort ==
  /\ at = "accepted" /\ request.kind = "cohort"
  /\ IF CohortAdmitted /\ request.event \in DOMAIN Events
       THEN Answer(CohortResponse(Events[request.event]))
       ELSE Refuse

EvaluateHealth ==
  /\ at = "accepted" /\ request.kind = "health"
  /\ Answer(HealthResponse)

(* A request ends. *)
Rest == at = "done" /\ UNCHANGED vars

Next == EvaluatePack \/ EvaluateCohort \/ EvaluateHealth \/ Rest

Spec == Init /\ [][Next]_vars

-----------------------------------------------------------------------------
(* Properties *)

Total(n, value(_)) == MapThenSumSet(value, 1..n)

(* What a portfolio loses in a scenario, of the rows as the caller wrote them:
   no shock of a registry is a gain. *)
Lost(rows, scenario) ==
  Total(Len(rows), LAMBDA i : -(rows[i].weight * Shock(scenario, Upper(rows[i].bucket))))

(* What a response says by position is what it says of the whole: in every
   scenario the rows, each component once and the worst first, lose together
   what the portfolio does, and the threshold is breached if a scenario loses
   more; and rows that are not paged are bounded (_evaluate_scenario,
   _evaluate_position_contributions and the validators they rely on). *)
ScenariosReconcile ==
  outcome.kind = "pack" =>
    LET pack == Packs[request.pack]
        components == request.components
        losses(rows) == {Lost(rows, pack[s]) : s \in DOMAIN pack}
    IN /\ \A s \in DOMAIN pack :
            LET rows == outcome.results[s].contributions IN
            /\ outcome.results[s].loss = Lost(request.exposures, pack[s])
            /\ components # <<>> =>
                 Total(Len(rows), LAMBDA i : rows[i].loss) = outcome.results[s].loss
            /\ \A i, j \in DOMAIN rows : i < j => rows[i].loss >= rows[j].loss
            /\ \A c \in {components[i].security : i \in DOMAIN components} :
                 WeightOf(rows, {i \in DOMAIN rows : rows[i].security = c})
                   = WeightOf(components, {i \in DOMAIN components : components[i].security = c})
       /\ outcome.breach <=> \E l \in losses(request.exposures) : l > request.maximum
       /\ components # <<>> => outcome.worst = Max(losses(components))
       /\ request.kind = "pack" =>
            Total(Len(pack), LAMBDA s : Len(outcome.results[s].contributions)) <= MaxRows

(* docs/domain-apis/regime-scenario-pack-evaluation.md, Supportability: nothing
   covers what is worse, a breach least of all. *)
PackIsQualified ==
  LET governance == Governance[request.pack]
      unknown  == \E i \in DOMAIN request.exposures :
                    Upper(request.exposures[i].bucket) \notin SupportedBuckets
      outside  == request.asOf < governance.from \/ request.asOf > governance.to
      foreign  == request.portfolio \notin governance.portfolios \cup {None}
      nameless == request.portfolio = None
  IN /\ outcome.state = "READY" => ~(unknown \/ outside \/ foreign \/ nameless \/ outcome.breach)
     /\ foreign => outcome.state = "BLOCKED"
     /\ unknown \/ outside => outcome.state \in {"DEGRADED", "BLOCKED"}
     /\ nameless \/ outcome.breach => outcome.state # "READY"
     /\ outcome.state # "READY" <=> Cardinality(outcome.reasons) > 1
     /\ outcome.breach <=> "POLICY_THRESHOLD_BREACH" \in outcome.reasons

(* docs/domain-apis/risk-event-cohorts.md: every candidate is answered for once,
   by itself, and "ready" is of a cohort whose candidates were all evaluated. *)
CohortIsQualified ==
  LET ids(rows, id(_)) == {id(rows[i]) : i \in DOMAIN rows}
      affected == ids(outcome.affected, LAMBDA e : e.id)
      excluded == ids(outcome.excluded, LAMBDA e : e.evaluation.id)
      shocks == Events[request.event]
      known(p) == Buckets(p.exposures) \subseteq SupportedBuckets
  IN /\ Len(outcome.affected) + Len(outcome.excluded) = Len(request.portfolios)
     /\ affected \cup excluded = ids(request.portfolios, LAMBDA p : p.id)
     /\ \A i \in DOMAIN request.portfolios :
          LET p == request.portfolios[i] IN
          p.id \in affected <=> known(p) /\ Lost(p.exposures, shocks) >= request.minimum
     /\ outcome.state = "READY" <=>
          affected # {} /\ \A i \in DOMAIN request.portfolios : known(request.portfolios[i])
     /\ outcome.state = "PENDING_REVIEW" =>
          \A i \in DOMAIN request.portfolios : Lost(request.portfolios[i].exposures, shocks) < request.minimum

(* docs/domain-apis/risk-mandate-health-context.md: a mandate is "ready" only if
   its returns on the days of its period that have both do not differ, two by
   two, by more than the threshold allows. *)
HealthIsQualified ==
  LET bounds == Resolved(request.period, request.asOf, request.open)
      days   == {d \in DOMAIN request.returns \cap DOMAIN request.benchmark :
                   bounds.start <= d /\ d <= bounds.end}
      n      == Cardinality(days)
      active(d) == request.returns[d] - request.benchmark[d]
      apart(p)  == (active(p[1]) - active(p[2])) * (active(p[1]) - active(p[2]))
      within == MapThenSumSet(apart, days \X days) <= 2 * request.threshold * n * (n - 1)
  IN /\ outcome.state = "unavailable" <=> n < 2
     /\ outcome.state = "ready" <=> n >= 2 /\ within
     /\ outcome.state # "unavailable" => outcome.count = n
     /\ "PORTFOLIO_HISTORY_UNAVAILABLE" \in outcome.reasons <=> DOMAIN request.returns = {}

(* What a product says of itself can be relied on (scenario_governance.py,
   _supportability_state, _tracking_error_health). *)
ProductsAreQualified ==
  /\ outcome.kind = "pack" => PackIsQualified
  /\ outcome.kind = "cohort" => CohortIsQualified
  /\ outcome.kind = "health" => HealthIsQualified
=============================================================================
