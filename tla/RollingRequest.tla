--------------------------- MODULE RollingRequest ---------------------------
(***************************************************************************)
(* A request for rolling metrics, from its acceptance to its answer        *)
(* (src/src/app/services/rolling_mode_adapter.py, rolling_stateful_*.py,   *)
(* rolling_risk_free_dependency.py, stateful_returns_series_parser.py).    *)
(* A stateful request asks lotus-core for the currency, lotus-performance  *)
(* for the returns and lotus-core for the risk-free series, these two at   *)
(* the same time if the window is known beforehand, and admits what it     *)
(* gets before it hands it to the engine of Rolling.                       *)
(*                                                                         *)
(* The upstreams are external.  They have books, and answer from them, but *)
(* an answer may also fail, be malformed, belong to another portfolio or   *)
(* window, lose rows or count them otherwise.                              *)
(***************************************************************************)
EXTENDS Rolling

CONSTANTS
  Worlds,           \* requests, each with the books of the upstreams
  Currencies,
  Base,             \* the currency of the portfolio
  MaxObservations,  \* ROLLING_MAX_STATELESS_OBSERVATIONS
  MaxPoints,        \* ROLLING_MAX_TIME_SERIES_POINTS
  None              \* no currency

VARIABLES
  request,   \* what the caller asks for
  books,     \* the series of the upstreams by day, or those a caller supplies
  at,        \* where the handler is
  currency,  \* resolved reporting currency
  snapshot,  \* the call of /integration/portfolios/{portfolio_id}/core-snapshot
  returns,   \* the call of /integration/returns/series
  rates,     \* the call of /integration/reference/risk-free-series
  admitted,  \* the series that passed
  sent,      \* the operations called
  outcome    \* what the caller gets

vars == <<request, books, at, currency, snapshot, returns, rates, admitted, sent, outcome>>

(* is_trading_day; day 0 is a Monday. *)
Trading(d) == d % 7 < 5

Wants(kind) == request.metrics \cap kind # {}

Idle == [status |-> "idle"]

Nothing == [portfolio |-> NoReturns, benchmark |-> NoReturns, riskFree |-> NoReturns]

Silence == [kind |-> "none"]

-----------------------------------------------------------------------------
(* What is asked of the upstreams *)

(* Mutant: the window ends with the last period that begins. *)
NarrowSourceWindow ==
  LET periods == {request.periods[k] : k \in DOMAIN request.periods}
      bounds(p) == Bounds(p, request.asOf, 0)
      last == CHOOSE p \in periods : \A q \in periods : bounds(q).start <= bounds(p).start
  IN IF \E p \in periods : p.type = "SI" THEN [label |-> "SI", start |-> 0, end |-> 0]
     ELSE [label |-> "none",
           start |-> Earliest({bounds(p).start : p \in periods}), end |-> bounds(last).end]

(* build_returns_series_window; the bounds of "SI" are the producer's. *)
SourceWindow ==
  LET periods == {request.periods[k] : k \in DOMAIN request.periods}
      bounds(p) == Bounds(p, request.asOf, 0)
      ends == {bounds(p).end : p \in periods}
  IN IF \E p \in periods : p.type = "SI" THEN [label |-> "SI", start |-> 0, end |-> 0]
     ELSE [label |-> "none",
           start |-> Earliest({bounds(p).start : p \in periods}),
           end   |-> CHOOSE e \in ends : \A f \in ends : f <= e]

Ask(window, inCurrency) ==
  [status |-> "open", label |-> window.label, start |-> window.start, end |-> window.end,
   currency |-> inCurrency]

(* Mutant: the request for returns keeps the currency of the caller. *)
ReturnsRequestAsReceived(resolved) == Ask(SourceWindow, request.currency)

(* build_stateful_source_request *)
ReturnsRequest(resolved) == Ask(SourceWindow, resolved)

(* fetch_stateful_source_responses: risk-free rates are asked for at the same
   time if the window is explicit. *)
FetchSources(resolved) ==
  /\ at' = "sources"
  /\ currency' = resolved
  /\ returns' = ReturnsRequest(resolved)
  /\ IF Wants(RiskFreeMetrics) /\ SourceWindow.label = "none"
       THEN rates' = Ask(SourceWindow, resolved) /\ sent' = sent \cup {"returns", "rates"}
       ELSE UNCHANGED rates /\ sent' = sent \cup {"returns"}

-----------------------------------------------------------------------------
(* The answers of the upstreams, all external *)

(* The currency of the snapshot is that of its report, if it has one, or that
   of the portfolio. *)
AnswerSnapshot ==
  /\ snapshot.status = "open"
  /\ \/ snapshot' = [status |-> "failed"]
     \/ \E reported \in Currencies \cup {None}, own \in {Base, None} :
          snapshot' = [status |-> "answered", reported |-> reported, own |-> own]
  /\ UNCHANGED <<request, books, at, currency, returns, rates, admitted, sent, outcome>>

(* What the producer takes the window to be; since inception begins where the
   producer says, and nothing could tell a wrong beginning. *)
ProducerWindow(call) ==
  IF call.label = "SI"
    THEN [start |-> IF DOMAIN books.portfolio = {} THEN request.asOf
                    ELSE Earliest(DOMAIN books.portfolio),
          end |-> request.asOf]
    ELSE [start |-> call.start, end |-> call.end]

(* Trading days between the first and the last of some days. *)
Expected(days) ==
  {d \in Earliest(days) .. (CHOOSE d \in days : \A e \in days : e <= d) : Trading(d)}

(* Returns that are not those of the portfolio asked for. *)
OfAnother(series) == [d \in DOMAIN series |-> series[d] + 1]

(* "lost" returns are counted and not there, "calendar" counts days that are
   no trading days, "outside" has returns from before the window, and
   "malformed" is the series, "unqualified" the evidence that is invalid. *)
Deviations == {"none", "other", "window", "lost", "calendar", "outside", "malformed",
               "unqualified"}

ReturnsAnswer(deviation, freshness) ==
  LET asked == ProducerWindow(returns)
      given == IF deviation # "window" THEN asked
               ELSE IF returns.label = "SI" THEN [asked EXCEPT !.end = @ - 1]
               ELSE [asked EXCEPT !.start = @ + 1]
      all   == IF deviation = "outside" THEN books.portfolio ELSE Within(books.portfolio, given)
      days  == DOMAIN all
      kept  == IF deviation = "lost" /\ days # {} THEN days \ {Earliest(days)} ELSE days
      rows  == {d \in days : Trading(d) \/ deviation = "calendar"}
      found == Restrict(all, kept)
  IN [status    |-> "answered",
      deviation |-> deviation,
      currency  |-> IF returns.currency = None THEN Base ELSE returns.currency,
      label     |-> returns.label, start |-> given.start, end |-> given.end,
      portfolio |-> IF deviation = "other" THEN OfAnother(found) ELSE found,
      benchmark |-> IF Wants(BenchmarkMetrics) THEN Within(books.benchmark, given) ELSE NoReturns,
      returned  |-> Cardinality(rows),
      missing   |-> IF days = {} THEN 0 ELSE Cardinality(Expected(days) \ days),
      freshness |-> freshness]

AnswerReturns ==
  /\ returns.status = "open"
  /\ \/ returns' = [status |-> "failed"]
     \/ \E deviation \in Deviations, freshness \in {"current", "stale"} :
          returns' = ReturnsAnswer(deviation, freshness)
  /\ UNCHANGED <<request, books, at, currency, snapshot, rates, admitted, sent, outcome>>

(* "shape" has no list of points, "date" a date that is none, "repeated" two
   rates for a day. *)
RatesDeviations == {"none", "shape", "date", "repeated"}

AnswerRates ==
  /\ rates.status = "open"
  /\ \/ rates' = [status |-> "failed"]
     \/ \E deviation \in RatesDeviations :
          rates' = [status |-> "answered", deviation |-> deviation, currency |-> rates.currency,
                    riskFree |-> Within(books.riskFree, rates)]
  /\ UNCHANGED <<request, books, at, currency, snapshot, returns, admitted, sent, outcome>>

-----------------------------------------------------------------------------
(* Ends *)

(* Raises an error: "rejected" 400 or 422, "invalid" 502, "missing" 424,
   "upstream" what the client makes of a failed call. *)
Fail(kind) == outcome' = [kind |-> kind] /\ at' = "done"

(* rolling_mode_adapter and rolling_stateless_inputs: the size of a request. *)
TooLarge(series) ==
  LET size(s) == Cardinality(DOMAIN s) IN
  \/ \E k \in DOMAIN series : size(series[k]) > MaxObservations
  \/ /\ request.timeSeries
     /\ Cardinality(DOMAIN request.periods) * Cardinality(request.windows)
          * size(series.portfolio) > MaxPoints

(* _attach_stateful_lineage: the requests that resolve_stateful_rolling_inputs
   hands on, which are not those that resolve_risk_free_dependency makes. *)
Fingerprints ==
  {"returns"} \cup (IF snapshot # Idle THEN {"snapshot"} ELSE {})
              \cup (IF at = "sources" /\ rates # Idle THEN {"rates"} ELSE {})

(* calculate_rolling_metrics *)
Respond(series, qualification, lineage) ==
  /\ outcome' = [kind          |-> "response",
                 results       |-> Results(series, request),
                 qualification |-> qualification,
                 lineage       |-> lineage]
  /\ at' = "done"

(* _calculate_stateful_response; two rates for a day fail validation. *)
Finish(series, repeated) ==
  IF repeated \/ TooLarge(series) THEN Fail("rejected") /\ UNCHANGED admitted
  ELSE /\ admitted' = series
       /\ Respond(series, Compose(Qualification(series, request), returns), Fingerprints)

-----------------------------------------------------------------------------
(* The handler *)

Init ==
  /\ \E world \in Worlds : request = world.request /\ books = world.books
  /\ at = "accepted" /\ currency = None
  /\ snapshot = Idle /\ returns = Idle /\ rates = Idle
  /\ admitted = Nothing /\ sent = {} /\ outcome = Silence

(* A stateless request carries its series. *)
Accept ==
  /\ at = "accepted" /\ request.mode = "STATELESS"
  /\ IF \/ TooLarge(books)
        \/ Wants(BenchmarkMetrics) /\ DOMAIN books.benchmark = {}
        \/ Wants(RiskFreeMetrics) /\ DOMAIN books.riskFree = {}
       THEN Fail("rejected") /\ UNCHANGED admitted
       ELSE /\ admitted' = books
            /\ Respond(books, Qualification(books, request), {})
  /\ UNCHANGED <<request, books, currency, snapshot, returns, rates, sent>>

(* resolve_portfolio_reporting_currency *)
Start ==
  /\ at = "accepted" /\ request.mode = "STATEFUL"
  /\ IF request.currency # None \/ ~Wants(RiskFreeMetrics)
       THEN FetchSources(request.currency) /\ UNCHANGED snapshot
       ELSE /\ at' = "currency"
            /\ snapshot' = [status |-> "open"]
            /\ sent' = sent \cup {"snapshot"}
            /\ UNCHANGED <<currency, returns, rates>>
  /\ UNCHANGED <<request, books, admitted, outcome>>

ResumeSnapshot ==
  /\ at = "currency" /\ snapshot.status = "answered"
  /\ LET found == {snapshot.reported, snapshot.own} \ {None} IN
     IF found = {}
       THEN Fail("invalid") /\ UNCHANGED <<currency, returns, rates, sent>>
       ELSE /\ FetchSources(IF snapshot.reported # None THEN snapshot.reported ELSE snapshot.own)
            /\ UNCHANGED outcome
  /\ UNCHANGED <<request, books, snapshot, admitted>>

(* A failed call raises at once; the other one of the two goes on. *)
ResumeFailure ==
  /\ \/ at = "currency" /\ snapshot.status = "failed"
     \/ at = "sources" /\ "failed" \in {returns.status, rates.status}
     \/ at = "fallback" /\ rates.status = "failed"
  /\ Fail("upstream")
  /\ UNCHANGED <<request, books, currency, snapshot, returns, rates, admitted, sent>>

TradingRows(series) == Restrict(series, {d \in DOMAIN series : Trading(d)})

(* _validate_explicit_window, _validate_relative_window *)
WindowAsAsked(asked) ==
  IF asked.label = "SI"
    THEN returns.label = "SI" /\ returns.end = request.asOf /\ returns.start <= returns.end
    ELSE returns.label = "none" /\ returns.start = asked.start /\ returns.end = asked.end

OwnAnswer == returns.deviation \notin {"unqualified", "other"}

(* Mutant: all rows are counted. *)
AllRowsCounted == Cardinality(DOMAIN returns.portfolio)

RowsCounted == Cardinality(DOMAIN TradingRows(returns.portfolio))

(* extract_stateful_returns_source_evidence *)
Qualified ==
  /\ OwnAnswer
  /\ returns.returned = RowsCounted
  /\ WindowAsAsked(SourceWindow)
  /\ \A d \in DOMAIN TradingRows(returns.portfolio) : returns.start <= d /\ d <= returns.end

(* resolve_risk_free_dependency once it has the rates: a date that is none is
   the caller's invalid input, and no rate asks for the coverage. *)
UseRates(series) ==
  CASE rates.deviation = "shape" -> Fail("invalid") /\ UNCHANGED <<admitted, sent>>
    [] rates.deviation = "date"  -> Fail("rejected") /\ UNCHANGED <<admitted, sent>>
    [] OTHER ->
         IF DOMAIN rates.riskFree = {}
           THEN at' = "coverage" /\ sent' = sent \cup {"coverage"} /\ UNCHANGED <<admitted, outcome>>
           ELSE Finish([series EXCEPT !.riskFree = rates.riskFree], rates.deviation = "repeated")
                /\ UNCHANGED sent

(* The fallback: rates for the days of the returns that came. *)
AskRates(days) ==
  /\ at' = "fallback"
  /\ rates' = [status |-> "open", label |-> "none", start |-> Earliest(days),
               end |-> CHOOSE d \in days : \A e \in days : e <= d, currency |-> currency]
  /\ sent' = sent \cup {"rates"}

(* _parse_stateful_source_series, in the order of its checks. *)
Refusal(series) ==
  IF returns.deviation = "malformed" THEN "invalid"
  ELSE IF DOMAIN series.portfolio = {} THEN "missing"
  ELSE IF Wants(BenchmarkMetrics) /\ DOMAIN series.benchmark = {} THEN "missing"
  ELSE IF ~Qualified THEN "invalid"
  ELSE "none"

(* resolve_stateful_rolling_inputs after the calls. *)
ResumeSources ==
  /\ at = "sources" /\ returns.status = "answered" /\ rates.status \in {"idle", "answered"}
  /\ LET series == [portfolio |-> TradingRows(returns.portfolio),
                    benchmark |-> TradingRows(returns.benchmark), riskFree |-> NoReturns]
         refusal == Refusal(series)
     IN \/ refusal # "none" /\ Fail(refusal) /\ UNCHANGED <<rates, admitted, sent>>
        \/ /\ refusal = "none" /\ ~Wants(RiskFreeMetrics)
           /\ Finish(series, FALSE) /\ UNCHANGED <<rates, sent>>
        \/ /\ refusal = "none" /\ Wants(RiskFreeMetrics) /\ rates = Idle
           /\ AskRates(DOMAIN series.portfolio) /\ admitted' = series /\ UNCHANGED outcome
        \/ /\ refusal = "none" /\ Wants(RiskFreeMetrics) /\ rates # Idle
           /\ UseRates(series) /\ UNCHANGED rates
  /\ UNCHANGED <<request, books, currency, snapshot, returns>>

ResumeFallback ==
  /\ at = "fallback" /\ rates.status = "answered"
  /\ UseRates(admitted)
  /\ UNCHANGED <<request, books, currency, snapshot, returns, rates>>

(* get_risk_free_coverage_details: the answer adds details to the error. *)
ResumeCoverage ==
  /\ at = "coverage"
  /\ Fail("missing")
  /\ UNCHANGED <<request, books, currency, snapshot, returns, rates, admitted, sent>>

(* A request ends. *)
Rest ==
  /\ at = "done" /\ "open" \notin {returns.status, rates.status}
  /\ UNCHANGED vars

Next ==
  \/ AnswerSnapshot \/ AnswerReturns \/ AnswerRates
  \/ Accept \/ Start \/ ResumeSnapshot \/ ResumeFailure
  \/ ResumeSources \/ ResumeFallback \/ ResumeCoverage \/ Rest

Spec == Init /\ [][Next]_vars

-----------------------------------------------------------------------------
(* Properties *)

Responded == outcome.kind = "response"

TypeOK ==
  /\ at \in {"accepted", "currency", "sources", "fallback", "coverage", "done"}
  /\ currency \in Currencies \cup {None}
  /\ \A call \in {snapshot, returns, rates} :
       call.status \in {"idle", "open", "failed", "answered"}
  /\ sent \subseteq {"snapshot", "returns", "rates", "coverage"}
  /\ outcome.kind \in {"none", "response", "rejected", "invalid", "missing", "upstream"}
  /\ at = "done" <=> outcome.kind # "none"
  /\ Responded => DOMAIN outcome.results \in SUBSET DOMAIN request.periods

(* The facts of a period: the books' days in it, trading days only where Risk
   fetches them, from the first that the portfolio has in what was asked for. *)
FactDays(kind) ==
  IF request.mode = "STATELESS" THEN DOMAIN books[kind]
  ELSE {d \in DOMAIN books[kind] : kind = "riskFree" \/ Trading(d)}

PeriodDays(kind, period) ==
  LET bounds == Bounds(period, request.asOf, 0)
  IN {d \in FactDays(kind) : bounds.start <= d /\ d <= bounds.end}

DependencyOf(metric) == IF metric \in BenchmarkMetrics THEN "benchmark" ELSE "riskFree"

JoinedDays(metric, period) ==
  PeriodDays("portfolio", period)
    \cap (IF metric \in OwnMetrics THEN PeriodDays("portfolio", period)
          ELSE PeriodDays(DependencyOf(metric), period))

(* A value at a day comes from the last days, n at the most, on which the books
   have all that it needs, with the returns that they have there
   (rolling_window_calculation.py, stateful_returns_series_parser.py and
   source_window.py: window, join, period and source agree). *)
ValuesTellTheBooks ==
  Responded => \A k \in DOMAIN outcome.results, n \in request.windows, m \in request.metrics :
    LET period == request.periods[k]
        result == outcome.results[k]
        joined == JoinedDays(m, period)
    IN result.error = "none" =>
         /\ \A d \in DOMAIN result.windows[n].points :
              m \in DOMAIN result.windows[n].points[d] =>
                LET value == result.windows[n].points[d][m]
                    days  == DOMAIN value.portfolio
                IN value # Undefined =>
                     /\ d \in days /\ days \subseteq joined /\ Cardinality(days) <= n
                     /\ \A e \in joined \ days : e < d => Cardinality(days) = n /\ \A f \in days : e < f
                     /\ \A e \in days :
                          /\ value.portfolio[e] = books.portfolio[e]
                          /\ m \notin OwnMetrics => value.other[e] = books[DependencyOf(m)][e]

(* Each period counts the days that the books have in it, and each metric has
   a point for each day that it joins (rolling_period_series.py,
   build_returns_series_window). *)
NoDayIsDropped ==
  Responded => \A k \in DOMAIN outcome.results :
    LET period == request.periods[k]
        result == outcome.results[k]
    IN /\ result.count = Cardinality(PeriodDays("portfolio", period))
       /\ result.error = "none" =>
            \A n \in request.windows, m \in request.metrics :
              result.windows[n].summaries[m].total = Cardinality(JoinedDays(m, period))

(* The points without a value are those of the warm-up and those that a flag
   explains: a series that does not vary, or one that joins no day
   (rolling_metric_outputs.py, rolling_benchmark_metric_series.py). *)
GapsAreExplained ==
  Responded => \A k \in DOMAIN outcome.results : outcome.results[k].error = "none" =>
    LET result == outcome.results[k]
        summary(m, n) == result.windows[n].summaries[m]
    IN \A m \in request.metrics :
         /\ \A n \in request.windows :
              summary(m, n).total =
                summary(m, n).computed + summary(m, n).warmup + summary(m, n).gap
         /\ <<m, "zero">> \in result.flags <=> \E n \in request.windows : summary(m, n).gap > 0
         /\ <<m, "alignment_empty">> \in result.flags
              <=> \E n \in request.windows : summary(m, n).total = 0

(* Every day of a period is accounted for: counted, and joined, and with a
   value or with the reason it has none. *)
DaysAreAccounted == NoDayIsDropped /\ GapsAreExplained

(* A result is "ready" only if the source is fresh and whole, each period has
   two days and joins what it needs, and the last day is not older than a day
   (calculation_supportability.py, supportability_periods.py). *)
NothingIsHidden ==
  (Responded /\ outcome.qualification.state = "ready") =>
    /\ request.mode = "STATEFUL" => returns.freshness = "current" /\ returns.missing = 0
    /\ \E d \in DOMAIN admitted.portfolio : d >= request.asOf - 1
    /\ \A k \in DOMAIN outcome.results :
         /\ outcome.results[k].count >= 2
         /\ \A m \in request.metrics : JoinedDays(m, request.periods[k]) # {}

(* What the source says never hides what the calculation found
   (compose_returns_source_supportability: severity is merged, not replaced). *)
SourceHidesNothing ==
  Responded =>
    LET own == Qualification(admitted, request)
        q   == outcome.qualification
    IN /\ own.state # "ready" => q.state # "ready" /\ Rank(q.reason) <= Rank(own.reason)
       /\ <<q.degraded, q.empty, q.evaluated>> = <<own.degraded, own.empty, own.evaluated>>

(* The reason of a result is a fact (supportability_reason_for_error,
   rolling_dependency_context.py). *)
ReasonsAreTrue ==
  Responded =>
    LET reason == outcome.qualification.reason
        results == outcome.results
        lacks(kind, k) == \E m \in request.metrics :
          m \in kind /\ JoinedDays(m, request.periods[k]) = {}
        short(k) == results[k].count < 2
        someShort == \E k \in DOMAIN results : short(k)
    IN /\ reason = "stale_source_observations" =>
            \/ request.mode = "STATEFUL" /\ returns.freshness = "stale"
            \/ \A d \in DOMAIN admitted.portfolio : d < request.asOf - 1
       /\ reason = "insufficient_observations" => someShort
       /\ reason = "benchmark_unavailable" =>
            \E k \in DOMAIN results : ~short(k) /\ lacks(BenchmarkMetrics, k)
       /\ reason = "insufficient_aligned_observations" =>
            \E k \in DOMAIN results : lacks(BenchmarkMetrics, k) \/ lacks(RiskFreeMetrics, k)
       /\ reason = "calculation_quality_issue" =>
            \/ request.mode = "STATEFUL" /\ returns.missing > 0
            \/ \E k \in DOMAIN results : lacks(RiskFreeMetrics, k)
       /\ reason = "no_return_observations" => DOMAIN admitted.portfolio = {}

(* What a response says of its own quality can be relied on: "ready" hides
   neither what the source nor what the calculation found, and the reason it
   gives for anything less is a fact. *)
QualificationIsHonest == NothingIsHidden /\ SourceHidesNothing /\ ReasonsAreTrue

(* Returns and rates of a response are of one currency, that of the request or,
   without one, that of the snapshot (core_portfolio_currency.py,
   resolve_stateful_dependency_selection). *)
OneCurrency ==
  (Responded /\ request.mode = "STATEFUL" /\ Wants(RiskFreeMetrics)) =>
    /\ returns.currency = rates.currency
    /\ request.currency # None => rates.currency = request.currency

(* Honest answers that have what is needed are served
   (extract_stateful_returns_source_evidence: admission refuses no true one). *)
HonestSourcesAreServed ==
  (at = "done" /\ request.mode = "STATEFUL" /\ returns.status = "answered"
     /\ returns.deviation = "none"
     /\ (Wants(RiskFreeMetrics) => rates.status = "answered" /\ rates.deviation = "none"
           /\ DOMAIN rates.riskFree # {})
     /\ DOMAIN TradingRows(returns.portfolio) # {}
     /\ (Wants(BenchmarkMetrics) => DOMAIN TradingRows(returns.benchmark) # {})
     /\ ~TooLarge([portfolio |-> returns.portfolio, benchmark |-> returns.benchmark,
                    riskFree |-> IF rates.status = "answered" THEN rates.riskFree ELSE NoReturns]))
  => Responded

(* docs/domain-apis/risk-audit-lineage.md:15 of every response: fingerprints for
   upstream calls directly orchestrated by lotus-risk. *)
LineageIsWhole ==
  (Responded /\ request.mode = "STATEFUL") => outcome.lineage = sent
=============================================================================
