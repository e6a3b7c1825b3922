--------------------------- MODULE SeriesRequest ----------------------------
(***************************************************************************)
(* A request to risk/calculate or to risk/drawdown, from its acceptance to *)
(* its answer (src/src/app/services/risk_mode_adapter.py,                  *)
(* drawdown_mode_adapter.py, stateful_returns_series_parser.py,            *)
(* core_risk_free_series.py).  A stateful request asks lotus-core for the  *)
(* currency, lotus-performance for the returns, sampled as the request     *)
(* says, and lotus-core for risk-free rates, each only if it needs it and  *)
(* each after the one before.                                              *)
(*                                                                         *)
(* The upstreams are external.  Of what is wrong with an answer there is   *)
(* here what RollingRequest does not have: labels of weeks, and no rates.  *)
(***************************************************************************)
EXTENDS RiskMetrics

CONSTANTS
  Worlds,      \* requests, each with the books of the upstreams
  Currencies,
  Base,        \* the currency of the portfolio
  None         \* no currency

VARIABLES
  request,   \* what the caller asks for
  books,     \* daily returns of the portfolio and of the benchmark
  at,        \* the call that is awaited, or where the handler is
  currency,  \* resolved reporting currency
  returns,   \* what the producer says of its answer: source_returns_evidence
  admitted,  \* portfolio_points, benchmark_points
  rates,     \* the currency of the risk-free series
  sent,      \* the operations called
  outcome    \* what the caller gets

vars == <<request, books, at, currency, returns, admitted, rates, sent, outcome>>

Silence == [kind |-> "none"]

NoSeries == [portfolio |-> Nobody, benchmark |-> Nobody]

Trading(d) == d % 7 < 5

Stateful == request.mode = "STATEFUL"

WantsRates == request.service = "risk" /\ request.metrics \cap RatedMetrics # {}

WantsBenchmark ==
  IF request.service = "risk" THEN request.metrics \cap RelativeMetrics # {} ELSE request.include

(* Raises an error: "rejected" 400, "invalid" 502, "missing" 424, "upstream"
   what the client makes of a failed call. *)
Fail(kind) == outcome' = [kind |-> kind] /\ at' = "done"

-----------------------------------------------------------------------------
(* The answer of a request *)

ResultsOf(series, open) ==
  IF request.service = "risk" THEN RiskResults(series, request, open)
  ELSE DrawdownResults(series, request)

QualificationOf(series, results) ==
  IF request.service = "risk" THEN RiskQualification(series, request, results)
  ELSE OfPeriods(DOMAIN series.portfolio, request.asOf, results)

(* calculate_risk, calculate_drawdown, and what their adapters attach. *)
Respond(series, open, evidence, lineage) ==
  LET results == ResultsOf(series, open) IN
  /\ at' = "done"
  /\ outcome' = [kind |-> "response", results |-> results, lineage |-> lineage,
                 qualification |->
                   IF Stateful THEN Compose(QualificationOf(series, results), evidence)
                   ELSE QualificationOf(series, results)]

(* _build_stateful_stateless_risk_input, _attach_stateful_risk_lineage *)
Finish(series, evidence) ==
  Respond(series, Earliest(DOMAIN series.portfolio), evidence,
          {"returns"} \cup (IF WantsRates THEN {"rates"} ELSE {})
                      \cup (IF WantsRates /\ request.currency = None THEN {"snapshot"} ELSE {}))

-----------------------------------------------------------------------------
(* The handler *)

Init ==
  /\ \E world \in Worlds : request = world.request /\ books = world.books
  /\ at = "accepted" /\ currency = None /\ returns = Silence /\ admitted = NoSeries
  /\ rates = None /\ sent = {} /\ outcome = Silence

(* A stateless request carries its series. *)
Accept ==
  /\ at = "accepted" /\ ~Stateful
  /\ LET series == [portfolio |-> Daily(books.portfolio), benchmark |-> Daily(books.benchmark)] IN
     /\ admitted' = series
     /\ Respond(series, request.open, Silence, {})
  /\ UNCHANGED <<request, books, currency, returns, rates, sent>>

AskReturns(resolved) ==
  /\ at' = "returns" /\ currency' = resolved /\ sent' = sent \cup {"returns"}
  /\ UNCHANGED outcome

(* calculate_risk_stateful, calculate_drawdown_stateful *)
Start ==
  /\ at = "accepted" /\ Stateful
  /\ IF request.currency # None \/ ~WantsRates
       THEN AskReturns(request.currency)
       ELSE at' = "snapshot" /\ sent' = sent \cup {"snapshot"} /\ UNCHANGED <<currency, outcome>>
  /\ UNCHANGED <<request, books, returns, admitted, rates>>

(* resolve_portfolio_reporting_currency: of the report, or of the portfolio. *)
TakeSnapshot ==
  /\ at = "snapshot"
  /\ \/ Fail("upstream") /\ UNCHANGED <<currency, sent>>
     \/ \E reported \in Currencies \cup {None}, own \in {Base, None} :
          IF reported = None /\ own = None THEN Fail("invalid") /\ UNCHANGED <<currency, sent>>
          ELSE AskReturns(IF reported # None THEN reported ELSE own)
  /\ UNCHANGED <<request, books, returns, admitted, rates>>

(* The day that the producer takes for the inception. *)
Inception == Earliest(DOMAIN books.portfolio \cup {request.asOf})

(* build_stateful_returns_series_request, and what the producer takes it to be. *)
SourceWindow ==
  LET periods == {request.periods[k] : k \in DOMAIN request.periods}
      bounds(p) == Bounds(p, request.asOf, Inception)
      ends == {bounds(p).end : p \in periods}
  IN IF \E p \in periods : p.type = "SI"
       THEN bounds([type |-> "SI"])
       ELSE [start |-> Earliest({bounds(p).start : p \in periods}),
             end   |-> CHOOSE e \in ends : \A f \in ends : f <= e]

SourceFrequency == IF request.service = "risk" THEN request.frequency ELSE "DAILY"

(* The answer, external: a week is labelled by its Friday; "outside" has more
   than was asked for. *)
Given(series, kind) ==
  LET found == Daily(IF kind = "outside" THEN series ELSE Within(series, SourceWindow))
  IN IF SourceFrequency = "DAILY" THEN found ELSE Weekly(found)

(* to_return_points leaves out what is no trading day. *)
Points(series) == Restrict(series, {d \in DOMAIN series : Trading(d)})

(* Mutant: a week has to end in the window. *)
EndsInside(label) == label <= SourceWindow.end /\ label >= SourceWindow.start

(* _bucket_overlaps_window *)
Overlaps(label) ==
  LET reach == IF SourceFrequency = "DAILY" THEN 0 ELSE 6
  IN label - reach <= SourceWindow.end /\ label >= SourceWindow.start

AllOverlap(series) == \A l \in DOMAIN series : Overlaps(l)

(* Mutant: labels stay as they come. *)
AsLabelled(series) == series

(* normalize_return_points_to_resolved_window; drawdown has days only. *)
Normalized(series) ==
  LET clamped(l) == IF SourceFrequency = "DAILY" \/ l <= SourceWindow.end THEN l
                    ELSE SourceWindow.end
  IN [d \in {clamped(l) : l \in DOMAIN series} |->
        series[CHOOSE l \in DOMAIN series : clamped(l) = d]]

(* The evidence has to be that of the request: Qualified of RollingRequest. *)
Kinds == {"none", "failed", "malformed", "unqualified", "outside", "incomplete", "stale"}

Evidence(kind) ==
  [kind |-> kind, currency |-> currency, missing |-> IF kind = "incomplete" THEN 1 ELSE 0,
   freshness |-> IF kind = "stale" THEN "stale" ELSE "current"]

(* _parse_drawdown_source_series, in the order of its checks. *)
DrawdownRefusal(kind, portfolio, benchmark) ==
  IF DOMAIN portfolio = {} THEN "missing"
  ELSE IF request.include /\ DOMAIN benchmark = {} /\ request.missing = "REQUIRE" THEN "rejected"
  ELSE IF kind = "unqualified" \/ ~AllOverlap(portfolio) THEN "invalid"
  ELSE "none"

(* _fetch_stateful_risk_source before it asks for rates. *)
RiskRefusal(kind, portfolio) ==
  IF DOMAIN portfolio = {} THEN "missing"
  ELSE IF kind = "unqualified" \/ ~AllOverlap(portfolio) THEN "invalid"
  ELSE "none"

(* _fetch_stateful_risk_source after it has the rates, if any. *)
FinishRisk(series, evidence) ==
  IF ~AllOverlap(series.benchmark) THEN Fail("invalid") /\ UNCHANGED admitted
  ELSE LET normal == [series EXCEPT !.benchmark = Normalized(@)] IN
       admitted' = normal /\ Finish(normal, evidence)

TakeReturns ==
  /\ at = "returns"
  /\ \E kind \in Kinds :
       LET portfolio == Points(Given(books.portfolio, kind))
           benchmark == IF WantsBenchmark THEN Points(Given(books.benchmark, kind)) ELSE Nobody
           refusal == IF request.service = "risk" THEN RiskRefusal(kind, portfolio)
                      ELSE DrawdownRefusal(kind, portfolio, benchmark)
           series == [portfolio |-> IF request.service = "risk" THEN Normalized(portfolio)
                                    ELSE portfolio,
                      benchmark |-> benchmark]
       IN /\ returns' = Evidence(kind)
          /\ \/ kind = "failed" /\ Fail("upstream") /\ UNCHANGED <<admitted, sent>>
             \/ kind = "malformed" /\ Fail("invalid") /\ UNCHANGED <<admitted, sent>>
             \/ /\ kind \notin {"failed", "malformed"} /\ refusal # "none"
                /\ Fail(refusal) /\ UNCHANGED <<admitted, sent>>
             \/ /\ kind \notin {"failed", "malformed"} /\ refusal = "none" /\ WantsRates
                /\ at' = "rates" /\ sent' = sent \cup {"rates"}
                /\ admitted' = series /\ UNCHANGED outcome
             \/ /\ kind \notin {"failed", "malformed"} /\ refusal = "none" /\ ~WantsRates
                /\ UNCHANGED sent
                /\ IF request.service = "risk" THEN FinishRisk(series, Evidence(kind))
                   ELSE admitted' = series /\ Finish(series, Evidence(kind))
  /\ UNCHANGED <<request, books, currency, rates>>

(* to_risk_free_return_points comes after the benchmark is looked at; a date
   that is none is the caller's invalid input. *)
TakeRates ==
  /\ at = "rates"
  /\ \E kind \in {"none", "failed", "malformed", "date", "empty"} :
       /\ rates' = IF kind = "none" THEN currency ELSE None
       /\ CASE kind = "failed" -> Fail("upstream") /\ UNCHANGED admitted
            [] kind # "failed" /\ ~AllOverlap(admitted.benchmark)
                 -> Fail("invalid") /\ UNCHANGED admitted
            [] kind = "none" /\ AllOverlap(admitted.benchmark) -> FinishRisk(admitted, returns)
            [] OTHER -> /\ UNCHANGED admitted
                        /\ Fail(CASE kind = "malformed" -> "invalid"
                                  [] kind = "date" -> "rejected"
                                  [] kind = "empty" -> "missing")
  /\ UNCHANGED <<request, books, currency, returns, sent>>

(* A request ends. *)
Rest == at = "done" /\ UNCHANGED vars

Next == Accept \/ Start \/ TakeSnapshot \/ TakeReturns \/ TakeRates \/ Rest

Spec == Init /\ [][Next]_vars

-----------------------------------------------------------------------------
(* Properties *)

Responded == outcome.kind = "response"

(* The days that the books have in a period; on weekends only if the caller or
   the weeks of the producer have them. *)
FactDays(kind, k) ==
  LET period == request.periods[k]
      bounds == IF Stateful THEN Bounds(period, request.asOf, Inception)
                ELSE Resolved(period, request.asOf, request.open)
  IN {d \in DOMAIN books[kind] :
        /\ bounds.start <= d /\ d <= bounds.end
        /\ Stateful /\ SourceFrequency = "DAILY" => Trading(d)}

(* A day, or a week. *)
Bucket(d) == IF request.service = "risk" /\ request.frequency = "WEEKLY" THEN Week(d) ELSE d

DaysOf(series) == UNION {DOMAIN series[l] : l \in DOMAIN series}

(* Each observation once, with what the books say of its days. *)
Tells(series, book) ==
  /\ \A l, j \in DOMAIN series : l # j => DOMAIN series[l] \cap DOMAIN series[j] = {}
  /\ \A l \in DOMAIN series : \A d \in DOMAIN series[l] : series[l][d] = book[d]

Meeting(days, others) == {d \in days : \E e \in others : Bucket(e) = Bucket(d)}

(* A metric with a value takes every day of its period, once: day by day or
   week by week, and against a benchmark those that meet a day of it.  Of weeks
   that lotus-performance makes this is said where the window is the period,
   and where they hold nothing else (risk/period_metrics.py,
   normalize_return_points_to_resolved_window, _bucket_overlaps_window). *)
ObservationsTellThePeriod ==
  Responded => \A k \in DOMAIN outcome.results : \A m \in DOMAIN outcome.results[k].metrics :
    LET value == outcome.results[k].metrics[m]
        facts == FactDays("portfolio", k)
        bench == FactDays("benchmark", k)
        whole == \/ ~Stateful \/ SourceFrequency = "DAILY"
                 \/ Cardinality(DOMAIN request.periods) = 1 /\ returns.kind # "outside"
    IN (whole /\ value.error = "none") =>
         /\ Tells(value.observations, books.portfolio)
         /\ m \notin {"VAR", "DRAWDOWN"} =>
              \A l \in DOMAIN value.observations : \A d \in DOMAIN value.observations[l] :
                \A e \in DaysOf(value.observations) :
                  Bucket(e) = Bucket(d) => e \in DOMAIN value.observations[l]
         /\ IF m \in RelativeMetrics
              THEN /\ DaysOf(value.observations) = Meeting(facts, bench)
                   /\ DaysOf(value.others) = Meeting(bench, facts)
                   /\ Tells(value.others, books.benchmark)
              ELSE DaysOf(value.observations) = facts

(* The buckets that a period has of what was admitted. *)
Buckets(series, k) == {Bucket(l) : l \in DOMAIN Within(series, outcome.results[k].bounds)}

Common(k) == Buckets(admitted.portfolio, k) \cap Buckets(admitted.benchmark, k)

(* The errors of the metrics and of the periods. *)
Errors(k) ==
  {<<m, outcome.results[k].metrics[m].error>> : m \in DOMAIN outcome.results[k].metrics}
    \cup {<<"period", outcome.results[k].error>>}

Wrong(k) == {e \in Errors(k) : e[2] # "none"}

(* A drawdown lacks the benchmark it is to be compared with. *)
Uncompared(k) ==
  request.service = "drawdown" /\ request.include /\ outcome.results[k].error = "none" /\ Common(k) = {}

(* "ready" hides nothing: no metric and no period that failed, no benchmark
   that is not there, no doubt of the source and no old series. *)
ReadyHidesNothing ==
  outcome.qualification.state = "ready" =>
    /\ \A k \in DOMAIN outcome.results :
         Wrong(k) = {} /\ ~Uncompared(k) /\ outcome.results[k].count > 0
    /\ Stateful => returns.missing = 0 /\ returns.freshness = "current"
    /\ \E l \in DOMAIN admitted.portfolio : l >= request.asOf - 1

(* What failed is counted, each metric of each period once; a period that is
   empty may keep the others from being counted. *)
FailuresAreCounted ==
  LET failures == UNION {{k} \X (Wrong(k) \cup (IF Uncompared(k) THEN {"benchmark"} ELSE {})) :
                           k \in DOMAIN outcome.results}
  IN IF \E k \in DOMAIN outcome.results : outcome.results[k].count = 0
       THEN outcome.qualification.degraded <= Cardinality(failures)
       ELSE outcome.qualification.degraded = Cardinality(failures)

RiskReasonIsTrue ==
  LET reason == outcome.qualification.reason
      names  == DOMAIN outcome.results
      fewest == IF request.service = "drawdown" THEN 1
                ELSE IF "VAR" \in request.metrics /\ request.method = "CORNISH_FISHER" THEN 4 ELSE 2
  IN CASE reason = "no_return_observations" -> DOMAIN admitted.portfolio = {}
       [] reason = "insufficient_observations" ->
            \E k \in names : Cardinality(Buckets(admitted.portfolio, k)) < fewest
       [] reason = "benchmark_unavailable" -> WantsBenchmark /\ DOMAIN admitted.benchmark = {}
       [] reason = "insufficient_aligned_observations" ->
            WantsBenchmark /\ \E k \in names :
              Cardinality(Common(k)) < IF request.service = "drawdown" THEN 1 ELSE 2
       [] reason = "stale_source_observations" ->
            \/ Stateful /\ returns.freshness = "stale"
            \/ \A l \in DOMAIN admitted.portfolio : l < request.asOf - 1
       [] reason = "calculation_quality_issue" ->
            \/ Stateful /\ returns.missing > 0
            \/ \E k \in names : \E e \in Wrong(k) :
                 ReasonForError(e[2]) = "calculation_quality_issue"
       [] reason = "calculation_complete" -> outcome.qualification.state = "ready"

(* What a response says of itself can be relied on: its state, its counts, its
   reason, and the calls that it tells of
   (supportability_from_risk_metric_results, _attach_stateful_risk_lineage). *)
RiskIsQualified ==
  Responded => /\ ReadyHidesNothing /\ FailuresAreCounted /\ RiskReasonIsTrue
               /\ outcome.lineage = sent

(* docs/methodologies/metrics/risk-var.md:39 of both modes: value at risk always
   uses the daily distribution, and weeks are not relabelled as days. *)
VarIsDaily ==
  Responded => \A k \in DOMAIN outcome.results :
    "VAR" \in DOMAIN outcome.results[k].metrics =>
      LET observations == outcome.results[k].metrics["VAR"].observations IN
      \A l \in DOMAIN observations : Cardinality(DOMAIN observations[l]) = 1

(* Returns and rates are of one currency, that of the request or, without one,
   of the snapshot (core_portfolio_currency.py, calculate_risk_stateful). *)
OneCurrency ==
  (Responded /\ Stateful /\ WantsRates) =>
    returns.currency = rates /\ (request.currency # None => rates = request.currency)

(* Honest answers that have what is needed are served
   (_validate_returned_points_within_window refuses no true bucket). *)
HonestSourcesAreServed ==
  (at = "done" /\ Stateful /\ returns.kind = "none" /\ (WantsRates => rates # None)
     /\ \E d \in DOMAIN Within(books.portfolio, SourceWindow) : Trading(d)
     /\ (request.service = "drawdown" => request.missing = "IGNORE"))
  => Responded
=============================================================================
