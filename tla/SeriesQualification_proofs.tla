--------------------- MODULE SeriesQualification_proofs ---------------------
(***************************************************************************)
(* Proofs about what a response for risk metrics or for drawdowns says of  *)
(* itself: that it is ready, or the reason why it is not, how much of it   *)
(* failed, and which calls it rests on.  With those of rolling metrics     *)
(* they are the property of every response that tells returns.             *)
(*                                                                         *)
(* What is said of the results is shown to be what the admitted series     *)
(* lack, metric by metric and period by period; the invariant is that      *)
(* nothing else is answered, whatever is answered and whatever fails.      *)
(***************************************************************************)
EXTENDS SeriesCalculations_proofs

-----------------------------------------------------------------------------
(* The verdict on periods *)

(* It is made of periods as that of rolling metrics is (calculation_supportability.py). *)
LEMMA SameVerdicts ==
  ASSUME NEW days, NEW day, NEW results, NEW own, NEW source, NEW result
  PROVE  /\ Series!OfPeriods(days, day, results) = Rolling!OfPeriods(days, day, results)
         /\ Series!Compose(own, source) = Rolling!Compose(own, source)
         /\ Series!Degradation(result) = Rolling!Degradation(result)
  <1>1. Series!Degradation(result) = Rolling!Degradation(result)
    BY Zenon DEF Series!ReasonForError, Rolling!ReasonForError, Series!Degradation, Rolling!Degradation,
      Series!DependencyLack, Rolling!DependencyLack, Series!Lack, Rolling!Lack
  <1>2. Series!Compose(own, source) = Rolling!Compose(own, source)
    BY Zenon DEF Series!Compose, Rolling!Compose, Series!SourceReasons, Rolling!SourceReasons, 
       Series!MostSevere, Rolling!MostSevere, Series!Rank, Rolling!Rank, Series!Precedence, Rolling!Precedence
  <1>3. Series!OfPeriods(days, day, results) = Rolling!OfPeriods(days, day, results)
    BY Zenon DEF Series!OfPeriods, Rolling!OfPeriods, Series!Assessment, Rolling!Assessment,
      Series!Freshness, Rolling!Freshness, Series!WithinADay, Rolling!WithinADay,
      Series!ReasonForError, Rolling!ReasonForError, Series!Degradation, Rolling!Degradation,
      Series!DependencyLack, Rolling!DependencyLack, Series!Lack, Rolling!Lack,
      Series!MostSevere, Rolling!MostSevere, Series!Rank, Rolling!Rank, Series!Precedence, Rolling!Precedence,
      Series!Cardinality, Rolling!Cardinality
  <1> QED BY <1>1, <1>2, <1>3

(* The periods that lack something are counted, unless there is nothing to tell. *)
Counted(own, days, results, bad) ==
  /\ own.degraded = IF days = {} THEN 0 ELSE Cardinality(bad)
  /\ own.state = "empty" <=> \/ days = {}
                             \/ bad = {} /\ \E k \in DOMAIN results : results[k].count = 0

(* It is so of the verdict on periods (assess_period_results). *)
LEMMA VerdictCounts ==
  ASSUME NEW days, NEW day, NEW results, IsFiniteSet(DOMAIN results),
         NEW own, own = Series!OfPeriods(days, day, results),
         NEW bad, bad = {k \in DOMAIN results : Series!Degradation(results[k]) # {}}
  PROVE  Counted(own, days, results, bad)
  <1> DEFINE found == Series!Assessment(results)
             bucket == Series!Freshness(days, day)
             none == {k \in DOMAIN results : results[k].count = 0}
             evaluated == Series!Cardinality(DOMAIN results)
             severe == Series!MostSevere(found.reasons)
             verdict(state, reason, degraded, empty) ==
               [state |-> state, reason |-> reason, bucket |-> bucket, degraded |-> degraded,
                empty |-> empty, evaluated |-> evaluated]
  <1>1. found.degraded = Cardinality(bad) /\ found.empty = Cardinality(none)
    BY DEF Series!Assessment, Series!Cardinality, Cardinality
  <1>2. /\ found.degraded \in Nat /\ (found.degraded = 0 <=> bad = {})
        /\ found.empty \in Nat /\ (found.empty = 0 <=> none = {})
    <2>1. bad \subseteq DOMAIN results /\ none \subseteq DOMAIN results
      OBVIOUS
    <2> HIDE DEF none, found
    <2>2. IsFiniteSet(bad) /\ IsFiniteSet(none)
      BY <2>1, FS_Subset
    <2> QED BY <1>1, <2>2, FS_CardinalityType, FS_EmptySet
  <1>3. own = CASE days = {} -> verdict("empty", "no_return_observations", 0, 0)
         [] days # {} /\ found.degraded > 0 -> verdict("degraded", severe, found.degraded, found.empty)
         [] days # {} /\ found.degraded = 0 /\ found.empty > 0
              -> verdict("empty", "insufficient_observations", 0, found.empty)
         [] OTHER -> IF bucket = "stale" THEN verdict("stale", "stale_source_observations", 0, 0)
                     ELSE verdict("ready", "calculation_complete", 0, 0)
    BY DEF Series!OfPeriods
  <1>4. none = {} <=> ~\E k \in DOMAIN results : results[k].count = 0
    OBVIOUS
  <1> HIDE DEF found, bucket, evaluated, severe, none
  <1> USE DEF Counted
  <1>5. CASE days = {}
    <2>1. own = verdict("empty", "no_return_observations", 0, 0)
      BY <1>3, <1>5
    <2> QED BY <1>5, <2>1
  <1>6. CASE days # {} /\ bad # {}
    <2>1. own = verdict("degraded", severe, found.degraded, found.empty)
      BY <1>2, <1>3, <1>6
    <2> QED BY <1>1, <1>6, <2>1
  <1>7. CASE days # {} /\ bad = {} /\ none # {}
    <2>1. own = verdict("empty", "insufficient_observations", 0, found.empty)
      BY <1>2, <1>3, <1>7
    <2>2. Cardinality(bad) = 0
      BY <1>1, <1>2, <1>7
    <2> QED BY <1>4, <1>7, <2>1, <2>2
  <1>8. CASE days # {} /\ bad = {} /\ none = {}
    <2>1. own = IF bucket = "stale" THEN verdict("stale", "stale_source_observations", 0, 0)
                ELSE verdict("ready", "calculation_complete", 0, 0)
      BY <1>2, <1>3, <1>8
    <2>2. Cardinality(bad) = 0
      BY <1>1, <1>2, <1>8
    <2>3. own.degraded = 0 /\ own.state \in {"stale", "ready"}
      BY <2>1
    <2> QED BY <1>4, <1>8, <2>2, <2>3
  <1> QED BY <1>5, <1>6, <1>7, <1>8

-----------------------------------------------------------------------------
(* A response that has its results *)

(* A response tells the series that were admitted and the calls that were made. *)
Settled(first) ==
  /\ outcome.results = Series!ResultsOf(admitted, first)
  /\ outcome.lineage = sent
  /\ Dated(DOMAIN admitted.portfolio) /\ Dated(DOMAIN admitted.benchmark)
  /\ IF Series!Stateful
       THEN /\ outcome.qualification =
                 Series!Compose(Series!QualificationOf(admitted, outcome.results), returns)
            /\ returns.missing \in Nat /\ returns.freshness \in {"current", "stale"}
       ELSE outcome.qualification = Series!QualificationOf(admitted, outcome.results)

(* Fewer observations than a metric needs. *)
Fewest ==
  IF request.service = "drawdown" THEN 1
  ELSE IF "VAR" \in request.metrics /\ request.method = "CORNISH_FISHER" THEN 4 ELSE 2

(* What is wrong with the results, without what the source says. *)
ReasonHolds(reason) ==
  \/ reason = "no_return_observations" /\ DOMAIN admitted.portfolio = {}
  \/ /\ reason = "insufficient_observations"
     /\ \E k \in DOMAIN outcome.results :
          Cardinality(Series!Buckets(admitted.portfolio, k)) < Fewest
  \/ /\ reason = "benchmark_unavailable"
     /\ Series!WantsBenchmark /\ DOMAIN admitted.benchmark = {}
  \/ /\ reason = "insufficient_aligned_observations" /\ Series!WantsBenchmark
     /\ \E k \in DOMAIN outcome.results :
          Cardinality(Series!Common(k)) < IF request.service = "drawdown" THEN 1 ELSE 2
  \/ /\ reason = "stale_source_observations"
     /\ \A l \in DOMAIN admitted.portfolio : l < request.asOf - 1
  \/ /\ reason = "calculation_quality_issue"
     /\ \E k \in DOMAIN outcome.results : \E e \in Series!Wrong(k) :
          Series!ReasonForError(e[2]) = "calculation_quality_issue"

(* Nothing is. *)
NothingLacks ==
  /\ \A k \in DOMAIN outcome.results :
       Series!Wrong(k) = {} /\ ~Series!Uncompared(k) /\ outcome.results[k].count > 0
  /\ \E l \in DOMAIN admitted.portfolio : l >= request.asOf - 1

(* What failed: a metric of a period, or its comparison with the benchmark. *)
Failures ==
  UNION {{k} \X (Series!Wrong(k) \cup (IF Series!Uncompared(k) THEN {"benchmark"} ELSE {})) :
           k \in DOMAIN outcome.results}

(* How much of it is counted. *)
Counts(degraded) ==
  IF \E k \in DOMAIN outcome.results : outcome.results[k].count = 0
    THEN degraded <= Cardinality(Failures) ELSE degraded = Cardinality(Failures)

(* A verdict that tells this. *)
TellsOfResults(verdict) ==
  \E state, reason, bucket, degraded, empty, evaluated :
    /\ verdict = [state |-> state, reason |-> reason, bucket |-> bucket,
                  degraded |-> degraded, empty |-> empty, evaluated |-> evaluated]
    /\ state = "ready" => reason = "calculation_complete" /\ NothingLacks
    /\ state # "ready" => ReasonHolds(reason)
    /\ Counts(degraded)

(* With what the source says, it is the property. *)
LEMMA SettledSuffices ==
  ASSUME NEW first, Settled(first),
         TellsOfResults(Series!QualificationOf(admitted, outcome.results))
  PROVE  Series!RiskIsQualified
  <1> DEFINE own == Series!QualificationOf(admitted, outcome.results)
             q == outcome.qualification
  <1>1. PICK state, reason, bucket, degraded, empty, evaluated :
          /\ own = [state |-> state, reason |-> reason, bucket |-> bucket,
                    degraded |-> degraded, empty |-> empty, evaluated |-> evaluated]
          /\ state = "ready" => reason = "calculation_complete" /\ NothingLacks
          /\ state # "ready" => ReasonHolds(reason)
          /\ Counts(degraded)
    BY DEF TellsOfResults
  <1>2. state # "ready" => reason \in Reasons
    BY <1>1 DEF ReasonHolds, Reasons
  <1>3. /\ q.degraded = degraded
        /\ q.state = "ready" => /\ state = "ready"
                                /\ Series!Stateful => returns.missing = 0 /\ returns.freshness = "current"
        /\ \/ q.reason = reason /\ (state = "ready" => q.state = "ready")
           \/ q.reason = reason /\ state # "ready"
           \/ q.reason = "calculation_quality_issue" /\ Series!Stateful /\ returns.missing > 0
           \/ q.reason = "stale_source_observations" /\ Series!Stateful /\ returns.freshness = "stale"
    <2> HIDE DEF own
    <2>1. CASE Series!Stateful
      <3>1. q = Rolling!Compose(own, returns)
        BY <2>1, SameVerdicts DEF Settled, own
      <3> DEFINE merged == Rolling!Compose(own, returns)
      <3>2. /\ merged.degraded = degraded
            /\ merged.state = "ready" => state = "ready" /\ returns.missing = 0 /\ returns.freshness = "current"
            /\ \/ merged.reason = reason
               \/ merged.reason = "calculation_quality_issue" /\ returns.missing > 0
               \/ merged.reason = "stale_source_observations" /\ returns.freshness = "stale"
        BY <1>1, <1>2, <2>1, ComposeTells DEF Settled
      <3>3. state = "ready" /\ merged.reason = reason => merged.state = "ready"
        <4>1. CASE Rolling!SourceReasons(returns) = {}
          BY <1>1, <4>1 DEF Rolling!Compose
        <4>2. CASE Rolling!SourceReasons(returns) # {}
          <5>1. merged.state = IF merged.reason = reason THEN state
                               ELSE IF merged.reason = "stale_source_observations" THEN "stale" ELSE "degraded"
            BY <1>1, <4>2 DEF Rolling!Compose
          <5> QED BY <5>1
        <4> QED BY <4>1, <4>2
      <3> HIDE DEF merged
      <3> QED BY <2>1, <3>1, <3>2, <3>3 DEF merged
    <2>2. CASE ~Series!Stateful
      BY <1>1, <2>2 DEF Settled, own
    <2> QED BY <2>1, <2>2
  <1>4. Series!ReadyHidesNothing
    BY <1>1, <1>3 DEF Series!ReadyHidesNothing, NothingLacks
  <1>5. Series!FailuresAreCounted
    <2>1. Counts(q.degraded)
      BY <1>1, <1>3
    <2> QED BY <2>1 DEF Series!FailuresAreCounted, Counts, Failures, Series!Cardinality, Cardinality
  <1> HIDE DEF q, own
  <1>6. \/ q.reason = "calculation_complete" /\ q.state = "ready"
        \/ ReasonHolds(q.reason)
        \/ q.reason = "calculation_quality_issue" /\ Series!Stateful /\ returns.missing > 0
        \/ q.reason = "stale_source_observations" /\ Series!Stateful /\ returns.freshness = "stale"
    BY <1>1, <1>3
  <1>7. Series!RiskReasonIsTrue
    BY <1>6 DEF Series!RiskReasonIsTrue, ReasonHolds, Fewest, q, Series!Cardinality, Cardinality
  <1> QED BY <1>4, <1>5, <1>7 DEF Series!RiskIsQualified, Settled

-----------------------------------------------------------------------------
(* What is said of drawdowns *)

(* Drawdowns are of days. *)
LEMMA BucketsOfDays ==
  ASSUME request.service # "risk", NEW series, NEW k
  PROVE  Series!Buckets(series, k) = DOMAIN Series!Within(series, outcome.results[k].bounds)
  BY DEF Series!Buckets, Series!Bucket

(* What is wrong with the drawdown of a period, by its days, those of them that the
   benchmark has, and those that the benchmark has at all. *)
DrawdownLacks(result, days, common, supplied) ==
  /\ result.count \in Nat /\ (result.count = 0 <=> days = {})
  /\ days = {} => result.error = "Insufficient data"
  /\ days # {} => result.error = "none"
  /\ \A m \in DOMAIN result.metrics : result.metrics[m].error = "none"
  /\ days = {} => Series!Degradation(result) = {"insufficient_observations"}
  /\ days # {} /\ request.include /\ common = {} =>
       \/ supplied # {} /\ Series!Degradation(result) = {"insufficient_aligned_observations"}
       \/ supplied = {} /\ Series!Degradation(result) = {"benchmark_unavailable"}
  /\ days # {} /\ ~(request.include /\ common = {}) => Series!Degradation(result) = {}

(* What is wrong with the drawdown of a period (_calculate_period_result,
   _relative_benchmark_context). *)
LEMMA DrawdownDegradation ==
  ASSUME NEW series, NEW period, request.include \in BOOLEAN,
         Dated(DOMAIN series.portfolio),
         NEW result, result = Series!DrawdownPeriod(series, request, period),
         NEW days, days = DOMAIN Series!Within(series.portfolio, result.bounds),
         NEW common, common = days \cap DOMAIN Series!Within(series.benchmark, result.bounds)
  PROVE  DrawdownLacks(result, days, common, DOMAIN series.benchmark)
  <1> DEFINE bounds == Series!Resolved(period, request.asOf, Series!Earliest(DOMAIN series.portfolio))
             cut == Series!Within(series.portfolio, bounds)
             own == DOMAIN cut
             joined == own \cap DOMAIN Series!Within(series.benchmark, bounds)
             supplied == DOMAIN series.benchmark # {}
             context == IF own = {} THEN Series!DrawdownContext(request, {}, FALSE)
                        ELSE Series!DrawdownContext(request, joined, supplied)
             values == [m \in IF own = {} THEN {} ELSE {"DRAWDOWN"} |->
                          Series!Valued("none", cut, Series!Nobody)]
  <1>1. result = [bounds |-> bounds, count |-> Cardinality(own),
                  error |-> IF own = {} THEN "Insufficient data" ELSE "none",
                  benchmark |-> context, riskFree |-> Series!NotRequested, metrics |-> values]
    BY DEF Series!DrawdownPeriod, Series!Cardinality, Cardinality
  <1>2. own \subseteq DOMAIN series.portfolio
    BY DEF Series!Within, Series!Restrict
  <1>3. IsFiniteSet(own)
    BY <1>2, DatedSubset, DatedFinite
  <1>4. \A m \in DOMAIN values : values[m].error = "none"
    BY DEF Series!Valued
  <1>5. Series!Lack(Series!NotRequested) = {}
    BY DEF Series!Lack, Series!NotRequested
  <1>6. own # {} => Series!Lack(context) =
          IF request.include /\ joined = {}
            THEN IF supplied THEN {"insufficient_aligned_observations"} ELSE {"benchmark_unavailable"}
            ELSE {}
    <2>1. /\ Series!ReasonForError("NO_ALIGNED_OBSERVATIONS") = "insufficient_aligned_observations"
          /\ Series!ReasonForError("BENCHMARK_UNAVAILABLE") = "benchmark_unavailable"
      BY DEF Series!ReasonForError
    <2>2. PICK aligned, reason :
            /\ aligned = (joined # {})
            /\ reason = IF joined # {} THEN "APPLIED" ELSE IF supplied THEN "NO_ALIGNED_OBSERVATIONS"
                        ELSE IF request.include THEN "BENCHMARK_UNAVAILABLE" ELSE "NOT_REQUESTED"
      BY Zenon
    <2>3. own # {} => context = [requested |-> request.include, available |-> aligned,
                                 aligned |-> aligned, reason |-> reason]
      BY <2>2, Zenon DEF Series!DrawdownContext
    <2> HIDE DEF own, joined, context, supplied
    <2>4. own # {} => /\ context.requested = request.include /\ context.available = aligned
                      /\ context.aligned = aligned /\ context.reason = reason
      BY <2>3
    <2>5. CASE own # {} /\ joined # {}
      <3>1. aligned = TRUE
        BY <2>2, <2>5
      <3>2. Series!Lack(context) = {}
        BY <2>4, <2>5, <3>1 DEF Series!Lack
      <3> QED BY <2>5, <3>2
    <2>6. CASE own # {} /\ joined = {}
      <3>1. aligned = FALSE
        BY <2>2, <2>6
      <3>2. Series!Lack(context) = IF ~request.include THEN {} ELSE {Series!ReasonForError(reason)}
        BY <2>4, <2>6, <3>1 DEF Series!Lack
      <3>3. reason = IF supplied THEN "NO_ALIGNED_OBSERVATIONS"
                     ELSE IF request.include THEN "BENCHMARK_UNAVAILABLE" ELSE "NOT_REQUESTED"
        BY <2>2, <2>6
      <3> QED BY <2>1, <2>6, <3>2, <3>3
    <2> QED BY <2>5, <2>6
  <1>7. Series!ReasonForError("Insufficient data") = "insufficient_observations"
    BY DEF Series!ReasonForError
  <1>8. Cardinality(own) \in Nat /\ (Cardinality(own) = 0 <=> own = {})
    BY <1>3, FS_CardinalityType, FS_EmptySet
  <1> HIDE DEF own, joined, context, supplied, values, cut, bounds
  <1>9. /\ result.bounds = bounds /\ result.count = Cardinality(own)
        /\ result.error = IF own = {} THEN "Insufficient data" ELSE "none"
        /\ result.benchmark = context /\ result.riskFree = Series!NotRequested /\ result.metrics = values
    <2>1. PICK error, found, count : found = context /\ count = Cardinality(own)
                              /\ error = IF own = {} THEN "Insufficient data" ELSE "none"
      OBVIOUS
    <2>2. result = [bounds |-> bounds, count |-> count, error |-> error, benchmark |-> found,
                    riskFree |-> Series!NotRequested, metrics |-> values]
      BY <1>1, <2>1
    <2>3. /\ result.bounds = bounds /\ result.count = count /\ result.error = error
          /\ result.benchmark = found /\ result.riskFree = Series!NotRequested /\ result.metrics = values
      BY <2>2
    <2> QED BY <2>1, <2>3
  <1>10. Series!Degradation(result) = IF own = {} THEN {"insufficient_observations"} ELSE Series!Lack(context)
    <2>1. Series!DependencyLack(result) = Series!Lack(context)
      BY <1>5, <1>9 DEF Series!DependencyLack
    <2> QED BY <1>7, <1>9, <2>1 DEF Series!Degradation
  <1>11. own = days /\ joined = common
    BY <1>9 DEF own, joined, cut
  <1>12. \A m \in DOMAIN result.metrics : result.metrics[m].error = "none"
    BY <1>4, <1>9
  <1>13. CASE own = {}
    BY <1>8, <1>9, <1>10, <1>11, <1>12, <1>13 DEF DrawdownLacks
  <1>14. CASE own # {} /\ request.include /\ joined = {}
    <2>1. \/ DOMAIN series.benchmark # {} /\ Series!Degradation(result) = {"insufficient_aligned_observations"}
          \/ DOMAIN series.benchmark = {} /\ Series!Degradation(result) = {"benchmark_unavailable"}
      <3>1. CASE supplied
        BY <1>6, <1>10, <1>14, <3>1 DEF supplied
      <3>2. CASE ~supplied
        BY <1>6, <1>10, <1>14, <3>2 DEF supplied
      <3> QED BY <3>1, <3>2
    <2> QED BY <1>8, <1>9, <1>11, <1>12, <1>14, <2>1 DEF DrawdownLacks
  <1>15. CASE own # {} /\ ~(request.include /\ joined = {})
    <2>1. Series!Degradation(result) = {}
      BY <1>6, <1>10, <1>15
    <2> QED BY <1>8, <1>9, <1>11, <1>12, <1>15, <2>1 DEF DrawdownLacks
  <1> QED BY <1>13, <1>14, <1>15

(* The results of a settled response. *)
LEMMA SettledResults ==
  ASSUME SoundSeries(request, books), NEW first, Settled(first)
  PROVE  /\ DOMAIN outcome.results =
              IF DOMAIN admitted.portfolio = {} THEN {} ELSE DOMAIN request.periods
         /\ IsFiniteSet(DOMAIN outcome.results)
         /\ \A k \in DOMAIN outcome.results :
              outcome.results[k] =
                IF request.service = "risk"
                  THEN Series!RiskPeriod(admitted, request, request.periods[k], first)
                  ELSE Series!DrawdownPeriod(admitted, request, request.periods[k])
  <1> DEFINE results == Series!ResultsOf(admitted, first)
  <1>1. outcome.results = results
    BY DEF Settled
  <1>2. results =
          IF DOMAIN admitted.portfolio = {} THEN [k \in {} |-> {}]
          ELSE [k \in DOMAIN request.periods |->
                  IF request.service = "risk"
                    THEN Series!RiskPeriod(admitted, request, request.periods[k], first)
                    ELSE Series!DrawdownPeriod(admitted, request, request.periods[k])]
    BY DEF Series!ResultsOf, Series!RiskResults, Series!DrawdownResults
  <1> HIDE DEF results
  <1>3. DOMAIN results = IF DOMAIN admitted.portfolio = {} THEN {} ELSE DOMAIN request.periods
    BY <1>2
  <1>4. IsFiniteSet(DOMAIN results)
    BY <1>3, FS_EmptySet DEF SoundSeries
  <1> QED BY <1>1, <1>2, <1>3, <1>4

(* What fails of a period's drawdown. *)
DrawdownFailures(k, days, common) ==
  /\ Series!Buckets(admitted.portfolio, k) = days /\ Series!Common(k) = common
  /\ days = {} => Series!Wrong(k) = {<<"period", "Insufficient data">>} /\ ~Series!Uncompared(k)
  /\ days # {} => Series!Wrong(k) = {}
  /\ days # {} /\ request.include /\ common = {} => Series!Uncompared(k)
  /\ days # {} /\ ~(request.include /\ common = {}) => ~Series!Uncompared(k)

(* Each of them says what it lacks, and what fails of it. *)
LEMMA DrawdownFails ==
  ASSUME SoundSeries(request, books), Ratable(request), request.service = "drawdown",
         NEW first, Settled(first), NEW k \in DOMAIN outcome.results,
         NEW result, result = outcome.results[k],
         NEW days, days = DOMAIN Series!Within(admitted.portfolio, result.bounds),
         NEW common, common = days \cap DOMAIN Series!Within(admitted.benchmark, result.bounds)
  PROVE  /\ DrawdownLacks(result, days, common, DOMAIN admitted.benchmark)
         /\ DrawdownFailures(k, days, common)
  <1>1. DrawdownLacks(result, days, common, DOMAIN admitted.benchmark)
    <2>1. request.include \in BOOLEAN /\ Dated(DOMAIN admitted.portfolio)
      BY DEF Ratable, Settled
    <2>2. PICK period : result = Series!DrawdownPeriod(admitted, request, period)
      BY SettledResults
    <2> QED BY <2>1, <2>2, DrawdownDegradation
  <1>2. /\ Series!Buckets(admitted.portfolio, k) = days
        /\ Series!Common(k) = common
    BY BucketsOfDays DEF Series!Common
  <1>3. /\ days = {} => result.error = "Insufficient data"
        /\ days # {} => result.error = "none"
        /\ \A m \in DOMAIN result.metrics : result.metrics[m].error = "none"
    BY <1>1 DEF DrawdownLacks
  <1>4. Series!Errors(k) = {<<m, result.metrics[m].error>> : m \in DOMAIN result.metrics}
                             \cup {<<"period", result.error>>}
    BY DEF Series!Errors
  <1>5. \A e \in Series!Errors(k) : e[2] # "none" => e = <<"period", result.error>>
    <2> SUFFICES ASSUME NEW e \in Series!Errors(k), e[2] # "none" PROVE e = <<"period", result.error>>
      OBVIOUS
    <2>1. CASE e \in {<<m, result.metrics[m].error>> : m \in DOMAIN result.metrics}
      <3>1. PICK m \in DOMAIN result.metrics : e = <<m, result.metrics[m].error>>
        BY <2>1
      <3>2. e[2] = result.metrics[m].error
        BY <3>1
      <3> QED BY <1>3, <3>2
    <2> QED BY <1>4, <2>1
  <1>6. days = {} => Series!Wrong(k) = {<<"period", "Insufficient data">>}
    <2> SUFFICES ASSUME days = {} PROVE Series!Wrong(k) = {<<"period", "Insufficient data">>}
      OBVIOUS
    <2>1. <<"period", "Insufficient data">> \in Series!Errors(k)
      BY <1>3, <1>4
    <2>2. <<"period", "Insufficient data">>[2] # "none"
      OBVIOUS
    <2> QED BY <1>3, <1>5, <2>1, <2>2 DEF Series!Wrong
  <1>7. days # {} => Series!Wrong(k) = {}
    <2> SUFFICES ASSUME days # {} PROVE Series!Wrong(k) = {}
      OBVIOUS
    <2>1. \A e \in Series!Errors(k) : e[2] = "none"
      <3> SUFFICES ASSUME NEW e \in Series!Errors(k), e[2] # "none" PROVE FALSE
        OBVIOUS
      <3>1. e = <<"period", "none">>
        BY <1>3, <1>5
      <3> QED BY <3>1
    <2> QED BY <2>1 DEF Series!Wrong
  <1>8. Series!Uncompared(k) <=> request.include /\ result.error = "none" /\ common = {}
    BY <1>2 DEF Series!Uncompared
  <1>9. days = {} => result.error # "none"
    BY <1>3
  <1> QED BY <1>1, <1>2, <1>3, <1>6, <1>7, <1>8, <1>9 DEF DrawdownFailures

(* What is said of drawdowns is what their days and their benchmark lack. *)
LEMMA DrawdownTells ==
  ASSUME SoundSeries(request, books), Ratable(request), request.service = "drawdown",
         NEW first, Settled(first)
  PROVE  TellsOfResults(Series!QualificationOf(admitted, outcome.results))
  <1> DEFINE results == outcome.results
             days == DOMAIN admitted.portfolio
             own(k) == DOMAIN Series!Within(admitted.portfolio, results[k].bounds)
             joined(k) == own(k) \cap DOMAIN Series!Within(admitted.benchmark, results[k].bounds)
             supplied == DOMAIN admitted.benchmark
             bad == {k \in DOMAIN results : Series!Degradation(results[k]) # {}}
             wrong(k) == Series!Wrong(k) \cup (IF Series!Uncompared(k) THEN {"benchmark"} ELSE {})
             verdict == Series!OfPeriods(days, request.asOf, results)
  <1>1. /\ DOMAIN results = IF days = {} THEN {} ELSE DOMAIN request.periods
        /\ IsFiniteSet(DOMAIN results)
    BY SettledResults
  <1>2. ASSUME NEW k \in DOMAIN results
        PROVE  /\ DrawdownLacks(results[k], own(k), joined(k), supplied)
               /\ DrawdownFailures(k, own(k), joined(k))
    <2>1. PICK result, mine, meeting :
            /\ result = results[k] /\ mine = DOMAIN Series!Within(admitted.portfolio, result.bounds)
            /\ meeting = mine \cap DOMAIN Series!Within(admitted.benchmark, result.bounds)
      OBVIOUS
    <2>2. /\ DrawdownLacks(result, mine, meeting, supplied)
          /\ DrawdownFailures(k, mine, meeting)
      BY <2>1, DrawdownFails
    <2>3. result = results[k] /\ mine = own(k) /\ meeting = joined(k)
      BY <2>1
    <2> HIDE DEF own, joined, results, supplied
    <2> QED BY <2>2, <2>3
  <1> HIDE DEF own, joined, bad, results, supplied
  (* A period lacks its days, its benchmark, or nothing. *)
  <1>3. ASSUME NEW k \in DOMAIN results
        PROVE  \/ /\ own(k) = {} /\ results[k].count = 0 /\ ~Series!Uncompared(k)
                  /\ Series!Wrong(k) = {<<"period", "Insufficient data">>}
                  /\ Series!Degradation(results[k]) = {"insufficient_observations"}
               \/ /\ own(k) # {} /\ request.include /\ joined(k) = {} /\ Series!Uncompared(k)
                  /\ Series!Wrong(k) = {}
                  /\ \/ Series!Degradation(results[k]) = {"insufficient_aligned_observations"}
                     \/ supplied = {} /\ Series!Degradation(results[k]) = {"benchmark_unavailable"}
               \/ /\ own(k) # {} /\ Series!Wrong(k) = {} /\ ~Series!Uncompared(k)
                  /\ results[k].count > 0 /\ Series!Degradation(results[k]) = {}
    <2>1. CASE own(k) = {}
      BY <1>2, <2>1 DEF DrawdownLacks, DrawdownFailures
    <2>2. CASE own(k) # {} /\ request.include /\ joined(k) = {}
      BY <1>2, <2>2 DEF DrawdownLacks, DrawdownFailures
    <2>3. CASE own(k) # {} /\ ~(request.include /\ joined(k) = {})
      <3>1. results[k].count \in Nat /\ results[k].count # 0
        BY <1>2, <2>3 DEF DrawdownLacks, DrawdownFailures
      <3>2. results[k].count > 0
        BY <3>1
      <3> QED BY <1>2, <2>3, <3>2 DEF DrawdownLacks, DrawdownFailures
    <2> QED BY <2>1, <2>2, <2>3
  <1>4. ASSUME NEW k \in DOMAIN results
        PROVE  wrong(k) = IF Series!Degradation(results[k]) = {} THEN {}
                          ELSE IF own(k) = {} THEN {<<"period", "Insufficient data">>} ELSE {"benchmark"}
    <2>1. CASE own(k) = {}
      <3>1. /\ ~Series!Uncompared(k) /\ Series!Wrong(k) = {<<"period", "Insufficient data">>}
            /\ Series!Degradation(results[k]) = {"insufficient_observations"}
        BY <1>3, <2>1
      <3>2. Series!Degradation(results[k]) # {}
        BY <3>1
      <3> QED BY <2>1, <3>1, <3>2
    <2>2. CASE own(k) # {} /\ Series!Uncompared(k)
      <3>1. Series!Wrong(k) = {} /\ \/ Series!Degradation(results[k]) = {"insufficient_aligned_observations"}
                                    \/ Series!Degradation(results[k]) = {"benchmark_unavailable"}
        BY <1>3, <2>2
      <3>2. Series!Degradation(results[k]) # {}
        BY <3>1
      <3> QED BY <2>2, <3>1, <3>2
    <2>3. CASE own(k) # {} /\ ~Series!Uncompared(k)
      <3>1. Series!Wrong(k) = {} /\ Series!Degradation(results[k]) = {}
        BY <1>3, <2>3
      <3> QED BY <2>3, <3>1
    <2> QED BY <2>1, <2>2, <2>3
  <1>5. Failures = UNION {{k} \X wrong(k) : k \in DOMAIN results}
    BY DEF Failures, results
  <1> HIDE DEF wrong
  <1>6. IsFiniteSet(bad) /\ Cardinality(Failures) = Cardinality(bad)
    <2> DEFINE failure == [k \in bad |-> <<k, IF own(k) = {} THEN <<"period", "Insufficient data">> ELSE "benchmark">>]
    <2>1. bad \subseteq DOMAIN results /\ IsFiniteSet(bad)
      <3>1. bad \subseteq DOMAIN results
        BY DEF bad
      <3> QED BY <1>1, <3>1, FS_Subset
    <2>2. \A k \in DOMAIN results : k \in bad <=> Series!Degradation(results[k]) # {}
      BY DEF bad
    <2>3. \A k \in bad : wrong(k) = {failure[k][2]} /\ failure[k][1] = k /\ failure[k] = <<k, failure[k][2]>>
      BY <1>4, <2>1, <2>2
    <2>4. \A k \in DOMAIN results \ bad : wrong(k) = {}
      BY <1>4, <2>2
    <2>5. DOMAIN failure = bad
      OBVIOUS
    <2> HIDE DEF failure, bad
    <2>6. ASSUME NEW k \in bad PROVE failure[k] \in Failures
      <3>1. failure[k] \in {k} \X wrong(k)
        BY <2>3
      <3> QED BY <1>5, <2>1, <3>1
    <2>7. ASSUME NEW f \in Failures PROVE \E k \in bad : f = failure[k]
      <3>1. PICK k \in DOMAIN results : f \in {k} \X wrong(k)
        BY <1>5
      <3>2. k \in bad
        BY <2>4, <3>1
      <3> QED BY <2>3, <3>1, <3>2
    <2>8. ASSUME NEW j \in bad, NEW k \in bad, failure[j] = failure[k] PROVE j = k
      BY <2>3, <2>8
    <2>9. failure \in [bad -> Failures]
      <3>1. failure = [k \in bad |-> failure[k]]
        BY DEF failure
      <3> QED BY <2>6, <3>1
    <2>10. failure \in Bijection(bad, Failures)
      BY <2>6, <2>7, <2>8, <2>9 DEF Bijection, Injection, Surjection, IsInjective
    <2>11. ExistsBijection(bad, Failures)
      BY <2>10 DEF ExistsBijection
    <2> QED BY <2>1, <2>11, FS_Bijection
  <1>7. \A k \in DOMAIN results : Series!Degradation(results[k]) \subseteq Reasons
    <2> SUFFICES ASSUME NEW k \in DOMAIN results PROVE Series!Degradation(results[k]) \subseteq Reasons
      OBVIOUS
    <2>1. PICK d : d = Series!Degradation(results[k])
      OBVIOUS
    <2>2. \/ d = {} \/ d = {"insufficient_observations"}
          \/ d = {"insufficient_aligned_observations"} \/ d = {"benchmark_unavailable"}
      BY <1>3, <2>1
    <2>3. d \subseteq Reasons
      BY <2>2 DEF Reasons
    <2> QED BY <2>1, <2>3
  <1>8. \A k \in DOMAIN results : results[k].count = 0 <=> own(k) = {}
    BY <1>2 DEF DrawdownLacks, DrawdownFailures
  <1>9. /\ VerdictTells(verdict, days, request.asOf, results)
        /\ verdict.degraded = IF days = {} THEN 0 ELSE Cardinality(bad)
    <2>1. Dated(days) /\ request.asOf \in Nat
      BY DEF Settled, SoundSeries
    <2>2. \A k \in DOMAIN results : Rolling!Degradation(results[k]) \subseteq Reasons
      BY <1>7, SameVerdicts
    <2>3. verdict = Rolling!OfPeriods(days, request.asOf, results)
      BY SameVerdicts
    <2>4. bad = {k \in DOMAIN results : Series!Degradation(results[k]) # {}}
      BY DEF bad
    <2>5. PICK found, lacking, all, dated, day :
            /\ found = verdict /\ lacking = bad /\ all = results /\ dated = days /\ day = request.asOf
      OBVIOUS
    <2>6. /\ found = Series!OfPeriods(dated, day, all)
          /\ lacking = {k \in DOMAIN all : Series!Degradation(all[k]) # {}}
          /\ IsFiniteSet(DOMAIN all)
      BY <1>1, <2>4, <2>5
    <2> HIDE DEF days, verdict
    <2>7. VerdictTells(found, days, request.asOf, results)
      BY <1>1, <2>1, <2>2, <2>3, <2>5, OwnVerdict
    <2>8. found.degraded = IF dated = {} THEN 0 ELSE Cardinality(lacking)
      BY <2>6, VerdictCounts DEF Counted
    <2> QED BY <2>5, <2>7, <2>8
  <1>10. Counts(verdict.degraded)
    <2>1. days = {} => Cardinality(bad) = 0
      <3>1. days = {} => bad = {}
        BY <1>1 DEF bad
      <3> QED BY <3>1, FS_EmptySet
    <2>2. verdict.degraded = Cardinality(Failures) /\ Cardinality(bad) \in Nat
      BY <1>6, <1>9, <2>1, FS_CardinalityType
    <2> QED BY <1>6, <2>2 DEF Counts
  <1> HIDE DEF verdict
  <1>11. PICK state, reason, bucket, degraded, empty, evaluated :
          /\ verdict = [state |-> state, reason |-> reason, bucket |-> bucket,
                        degraded |-> degraded, empty |-> empty, evaluated |-> evaluated]
          /\ state = "ready" =>
               /\ reason = "calculation_complete"
               /\ \E d \in days : d >= request.asOf - 1
               /\ \A k \in DOMAIN results : Rolling!Degradation(results[k]) = {}
          /\ state # "ready" =>
               \/ reason = "no_return_observations" /\ days = {}
               \/ \E k \in DOMAIN results : reason \in Rolling!Degradation(results[k])
               \/ reason = "insufficient_observations" /\ \E k \in DOMAIN results : results[k].count = 0
               \/ reason = "stale_source_observations" /\ \A d \in days : d < request.asOf - 1
    BY <1>9 DEF VerdictTells
  <1>12. state = "ready" => NothingLacks
    <2>1. ASSUME state = "ready", NEW k \in DOMAIN results
          PROVE  Series!Wrong(k) = {} /\ ~Series!Uncompared(k) /\ results[k].count > 0
      <3>1. Series!Degradation(results[k]) = {}
        BY <1>11, <2>1, SameVerdicts
      <3> QED BY <1>3, <3>1
    <2> QED BY <1>11, <2>1 DEF NothingLacks, results
  <1>13. state # "ready" => ReasonHolds(reason)
    <2>1. Fewest = 1
      BY DEF Fewest
    <2>2. ASSUME NEW k \in DOMAIN results, own(k) = {}
          PROVE  ReasonHolds("insufficient_observations")
      <3>1. Cardinality(Series!Buckets(admitted.portfolio, k)) = 0
        BY <1>2, <2>2, FS_EmptySet DEF DrawdownFailures
      <3>2. Cardinality(Series!Buckets(admitted.portfolio, k)) < Fewest
        BY <2>1, <3>1
      <3> QED BY <3>2 DEF ReasonHolds, results
    <2>3. ASSUME NEW k \in DOMAIN results, request.include, joined(k) = {}
          PROVE  ReasonHolds("insufficient_aligned_observations")
      <3>1. Cardinality(Series!Common(k)) = 0
        BY <1>2, <2>3, FS_EmptySet DEF DrawdownFailures
      <3>2. Cardinality(Series!Common(k)) < 1 /\ Series!WantsBenchmark
        BY <2>3, <3>1 DEF Series!WantsBenchmark
      <3> QED BY <3>2 DEF ReasonHolds, results
    <2>4. request.include /\ supplied = {} => ReasonHolds("benchmark_unavailable")
      BY DEF ReasonHolds, Series!WantsBenchmark, supplied
    <2>5. ASSUME NEW k \in DOMAIN results, reason \in Series!Degradation(results[k])
          PROVE  ReasonHolds(reason)
      <3>1. \/ own(k) = {} /\ reason = "insufficient_observations"
            \/ request.include /\ joined(k) = {} /\ reason = "insufficient_aligned_observations"
            \/ request.include /\ supplied = {} /\ reason = "benchmark_unavailable"
        <4>1. PICK d : d = Series!Degradation(results[k]) /\ reason \in d
          BY <2>5
        <4>2. \/ own(k) = {} /\ d = {"insufficient_observations"}
              \/ request.include /\ joined(k) = {} /\ d = {"insufficient_aligned_observations"}
              \/ request.include /\ supplied = {} /\ d = {"benchmark_unavailable"}
              \/ d = {}
          BY <1>3, <4>1
        <4> QED BY <4>1, <4>2
      <3> QED BY <2>2, <2>3, <2>4, <3>1
    <2>6. ASSUME NEW k \in DOMAIN results, results[k].count = 0
          PROVE  ReasonHolds("insufficient_observations")
      BY <1>8, <2>2, <2>6
    <2>7. \A k \in DOMAIN results : Series!Degradation(results[k]) = Rolling!Degradation(results[k])
      BY SameVerdicts
    <2>8. days = {} => ReasonHolds("no_return_observations")
      BY DEF ReasonHolds
    <2>9. (\A d \in days : d < request.asOf - 1) => ReasonHolds("stale_source_observations")
      BY DEF ReasonHolds
    <2> HIDE DEF days
    <2> QED BY <1>11, <2>5, <2>6, <2>7, <2>8, <2>9
  <1>14. verdict = Series!QualificationOf(admitted, outcome.results)
    BY DEF verdict, results, Series!QualificationOf
  <1>15. Counts(degraded)
    BY <1>10, <1>11
  <1>16. TellsOfResults(verdict)
    BY <1>11, <1>12, <1>13, <1>15 DEF TellsOfResults
  <1> QED BY <1>14, <1>16

-----------------------------------------------------------------------------
(* What is said of risk metrics *)

(* Sampling makes an observation of a week, and fails with two errors
   (resolve_metric_return_series). *)
LEMMA SampledTells ==
  ASSUME NEW series, NEW frequency, NEW log,
         NEW sampled, sampled = Series!Sampled(series, frequency, log)
  PROVE  /\ \/ sampled.error = "none" \/ sampled.error = "Missing return observations"
            \/ sampled.error = "Log returns are undefined"
         /\ sampled.error = "none" =>
              DOMAIN sampled.series =
                IF frequency = "DAILY" THEN DOMAIN series
                ELSE {Series!Friday(Series!Week(l)) : l \in DOMAIN series}
  <1> DEFINE weekly == IF frequency = "DAILY" THEN series ELSE Series!Weekly(series)
  <1>1. PICK error : /\ sampled = [error |-> error,
                                   series |-> IF error = "none" THEN weekly ELSE Series!Nobody]
                     /\ \/ error = "none" \/ error = "Missing return observations"
                        \/ error = "Log returns are undefined"
    BY Zenon DEF Series!Sampled
  <1>2. DOMAIN weekly = IF frequency = "DAILY" THEN DOMAIN series
                        ELSE {Series!Friday(Series!Week(l)) : l \in DOMAIN series}
    <2>1. DOMAIN Series!Weekly(series) = {Series!Friday(Series!Week(l)) : l \in DOMAIN series}
      BY DEF Series!Weekly
    <2>2. CASE frequency = "DAILY"
      BY <2>2
    <2>3. CASE frequency # "DAILY"
      BY <2>1, <2>3
    <2> QED BY <2>2, <2>3
  <1> HIDE DEF weekly
  <1>3. sampled.error = error /\ (error = "none" => sampled.series = weekly)
    <2>1. PICK kept : kept = IF error = "none" THEN weekly ELSE Series!Nobody
      OBVIOUS
    <2>2. sampled = [error |-> error, series |-> kept]
      BY <1>1, <2>1
    <2>3. sampled.error = error /\ sampled.series = kept
      BY <2>2
    <2> QED BY <2>1, <2>3
  <1> QED BY <1>1, <1>2, <1>3

(* Buckets are no more than the days and the labels they are made of. *)
LEMMA BucketsCount ==
  ASSUME request.service = "risk", request.frequency \in {"DAILY", "WEEKLY"},
         NEW days, Dated(days),
         NEW labels, labels = IF request.frequency = "DAILY" THEN days
                              ELSE {Series!Friday(Series!Week(l)) : l \in days},
         NEW buckets, buckets = {Series!Bucket(l) : l \in days}
  PROVE  /\ IsFiniteSet(days) /\ IsFiniteSet(labels) /\ IsFiniteSet(buckets)
         /\ Cardinality(days) \in Nat /\ Cardinality(labels) \in Nat /\ Cardinality(buckets) \in Nat
         /\ Cardinality(buckets) <= Cardinality(days) /\ Cardinality(buckets) <= Cardinality(labels)
  <1>1. IsFiniteSet(days) /\ days \subseteq Nat
    <2>1. days \subseteq Nat
      BY DEF Dated
    <2> QED BY <2>1, DatedFinite
  <1>2. IsFiniteSet(buckets) /\ Cardinality(buckets) <= Cardinality(days)
    <2> DEFINE bucketOf == [l \in days |-> Series!Bucket(l)]
    <2>1. bucketOf \in [days -> buckets] /\ \A b \in buckets : \E l \in days : bucketOf[l] = b
      OBVIOUS
    <2> HIDE DEF bucketOf
    <2>2. bucketOf \in Surjection(days, buckets)
      BY <2>1 DEF Surjection
    <2> QED BY <1>1, <2>2, FS_Surjection
  <1>3. IsFiniteSet(labels) /\ Cardinality(buckets) <= Cardinality(labels)
    <2>1. CASE request.frequency = "DAILY"
      BY <1>1, <1>2, <2>1
    <2>2. CASE request.frequency = "WEEKLY"
      <3>1. labels = {Series!Friday(Series!Week(l)) : l \in days}
        BY <2>2
      <3>2. buckets = {Series!Week(l) : l \in days}
        BY <2>2 DEF Series!Bucket
      <3> DEFINE labelOf == [l \in days |-> Series!Friday(Series!Week(l))]
      <3>3. labelOf \in Surjection(days, labels)
        <4>1. labelOf \in [days -> labels] /\ \A f \in labels : \E l \in days : labelOf[l] = f
          BY <3>1
        <4> HIDE DEF labelOf
        <4> QED BY <4>1 DEF Surjection
      <3>4. IsFiniteSet(labels)
        <4> HIDE DEF labelOf
        <4> QED BY <1>1, <3>3, FS_Surjection
      <3> DEFINE friday == [w \in buckets |-> Series!Friday(w)]
      <3>5. \A w \in buckets : Series!Friday(w) \in labels /\ Series!Week(Series!Friday(w)) = w
        BY <1>1, <3>1, <3>2, WeeksEnd
      <3>6. friday \in Injection(buckets, labels)
        <4>1. friday \in [buckets -> labels]
          BY <3>5
        <4>2. \A v, w \in buckets : friday[v] = friday[w] => v = w
          BY <3>5
        <4> QED BY <4>1, <4>2 DEF Injection, IsInjective
      <3> HIDE DEF friday
      <3> QED BY <3>4, <3>6, FS_Injection
    <2> QED BY <2>1, <2>2
  <1> QED BY <1>1, <1>2, <1>3, FS_CardinalityType

(* Nor are those of two series that meet. *)
LEMMA CommonCount ==
  ASSUME request.service = "risk", request.frequency \in {"DAILY", "WEEKLY"},
         NEW days, Dated(days), NEW held, Dated(held),
         NEW joined, joined = IF request.frequency = "DAILY" THEN days \cap held
                              ELSE {Series!Friday(Series!Week(l)) : l \in days}
                                     \cap {Series!Friday(Series!Week(l)) : l \in held},
         NEW common, common = {Series!Bucket(l) : l \in days} \cap {Series!Bucket(l) : l \in held}
  PROVE  /\ IsFiniteSet(joined) /\ Cardinality(joined) \in Nat
         /\ Cardinality(common) \in Nat /\ Cardinality(common) <= Cardinality(joined)
  <1>1. days \subseteq Nat /\ held \subseteq Nat
    BY DEF Dated
  <1>2. IsFiniteSet(joined)
    <2>1. PICK labels : labels = IF request.frequency = "DAILY" THEN days
                                 ELSE {Series!Friday(Series!Week(l)) : l \in days}
      OBVIOUS
    <2>2. IsFiniteSet(labels)
      BY <2>1, BucketsCount
    <2>3. joined \subseteq labels
      BY <2>1
    <2> QED BY <2>2, <2>3, FS_Subset
  <1>3. common \subseteq {Series!Bucket(l) : l \in days}
    OBVIOUS
  <1>4. IsFiniteSet(common) /\ Cardinality(common) <= Cardinality(joined)
    <2>1. CASE request.frequency = "DAILY"
      <3>1. common = joined
        BY <2>1 DEF Series!Bucket
      <3>2. Cardinality(joined) \in Nat
        BY <1>2, FS_CardinalityType
      <3> QED BY <1>2, <3>1, <3>2
    <2>2. CASE request.frequency = "WEEKLY"
      <3>1. joined = {Series!Friday(Series!Week(l)) : l \in days}
                       \cap {Series!Friday(Series!Week(l)) : l \in held}
        BY <2>2
      <3>2. common = {Series!Week(l) : l \in days} \cap {Series!Week(l) : l \in held}
        BY <2>2 DEF Series!Bucket
      <3> DEFINE friday == [w \in common |-> Series!Friday(w)]
      <3>3. \A w \in common : Series!Friday(w) \in joined
        <4> SUFFICES ASSUME NEW w \in common PROVE Series!Friday(w) \in joined
          OBVIOUS
        <4>1. PICK l \in days : w = Series!Week(l)
          BY <3>2
        <4>2. PICK j \in held : w = Series!Week(j)
          BY <3>2
        <4> QED BY <3>1, <4>1, <4>2
      <3>4. \A w \in common : Series!Week(Series!Friday(w)) = w
        BY <1>1, <3>2, WeeksEnd
      <3>5. friday \in Injection(common, joined)
        <4>1. friday \in [common -> joined]
          BY <3>3
        <4>2. \A v, w \in common : friday[v] = friday[w] => v = w
          BY <3>4
        <4> QED BY <4>1, <4>2 DEF Injection, IsInjective
      <3> HIDE DEF friday
      <3> QED BY <1>2, <3>5, FS_Injection
    <2> QED BY <2>1, <2>2
  <1> QED BY <1>2, <1>4, FS_CardinalityType

(* The errors of the metrics, each by its reason (supportability_reason_for_error). *)
OtherErrors ==
  {"Missing return observations", "Log returns are undefined", "Zero volatility",
   "No downside observations", "Benchmark variance is zero", "Tracking error is zero"}

(* Their reasons. *)
LEMMA ReasonsOfMetrics ==
  /\ Series!ReasonForError("Insufficient data") = "insufficient_observations"
  /\ Series!ReasonForError("Benchmark returns required for benchmark-dependent metric") =
       "benchmark_unavailable"
  /\ Series!ReasonForError("Insufficient aligned observations") = "insufficient_aligned_observations"
  /\ \A error \in OtherErrors : Series!ReasonForError(error) = "calculation_quality_issue"
  BY DEF Series!ReasonForError, OtherErrors

(* A metric of the portfolio that lacks observations has fewer buckets than the
   period's metrics need (_require_data). *)
LEMMA OwnErrorTells ==
  ASSUME request.service = "risk", request.frequency \in {"DAILY", "WEEKLY"},
         NEW own, Dated(DOMAIN own), NEW m \in request.metrics,
         NEW value, value = Series!OwnValue(m, own, request)
  PROVE  /\ value.error \in OtherErrors \cup {"none", "Insufficient data"}
         /\ value.error = "Insufficient data" =>
              Cardinality({Series!Bucket(l) : l \in DOMAIN own}) < Fewest
  <1> DEFINE buckets == {Series!Bucket(l) : l \in DOMAIN own}
  <1>1. PICK main, daily : /\ main = Series!Sampled(own, request.frequency, request.log)
                           /\ daily = Series!Sampled(own, "DAILY", request.log)
    OBVIOUS
  <1>2. /\ \A some \in {main, daily} :
             \/ some.error = "none" \/ some.error = "Missing return observations"
             \/ some.error = "Log returns are undefined"
        /\ main.error = "none" =>
             DOMAIN main.series = IF request.frequency = "DAILY" THEN DOMAIN own
                                  ELSE {Series!Friday(Series!Week(l)) : l \in DOMAIN own}
        /\ daily.error = "none" => DOMAIN daily.series = DOMAIN own
    <2>1. PICK frequency, days, log : frequency = request.frequency /\ days = "DAILY" /\ log = request.log
      OBVIOUS
    <2>2. main = Series!Sampled(own, frequency, log) /\ daily = Series!Sampled(own, days, log)
      BY <1>1, <2>1
    <2>3. /\ \/ main.error = "none" \/ main.error = "Missing return observations"
             \/ main.error = "Log returns are undefined"
          /\ main.error = "none" =>
               DOMAIN main.series = IF frequency = "DAILY" THEN DOMAIN own
                                    ELSE {Series!Friday(Series!Week(l)) : l \in DOMAIN own}
      BY <2>2, SampledTells
    <2>4. /\ \/ daily.error = "none" \/ daily.error = "Missing return observations"
             \/ daily.error = "Log returns are undefined"
          /\ daily.error = "none" => DOMAIN daily.series = DOMAIN own
      BY <2>1, <2>2, SampledTells
    <2> QED BY <2>1, <2>3, <2>4
  <1>3. PICK used : used \in {main, daily} /\ used = IF m = "VAR" /\ main.error = "none" THEN daily ELSE main
    OBVIOUS
  <1>4. CASE m = "DRAWDOWN"
    <2>1. value = Series!Valued("none", own, Series!Nobody)
      BY <1>4 DEF Series!OwnValue
    <2>2. value.error = "none"
      BY <2>1 DEF Series!Valued
    <2>3. value.error # "Insufficient data"
      BY <2>2
    <2> QED BY <2>2, <2>3
  <1>5. CASE m # "DRAWDOWN" /\ used.error # "none"
    <2>1. value = Series!Failed(used.error)
      BY <1>1, <1>3, <1>5 DEF Series!OwnValue
    <2>2. value.error = used.error
      BY <2>1 DEF Series!Failed
    <2>3. used.error = "Missing return observations" \/ used.error = "Log returns are undefined"
      BY <1>2, <1>3, <1>5
    <2>4. value.error # "Insufficient data" /\ value.error \in OtherErrors
      BY <2>2, <2>3 DEF OtherErrors
    <2> QED BY <2>4
  <1>6. CASE m # "DRAWDOWN" /\ used.error = "none"
    <2>1. PICK error : error = Series!OwnError(m, used.series, request)
      OBVIOUS
    <2>2. value = Series!Valued(error, used.series, Series!Nobody)
      BY <1>1, <1>3, <1>6, <2>1 DEF Series!OwnValue
    <2>3. value.error = error
      <3>1. CASE error = "none"
        BY <2>2, <3>1 DEF Series!Valued
      <3>2. CASE error # "none"
        BY <2>2, <3>2 DEF Series!Valued, Series!Failed
      <3> QED BY <3>1, <3>2
    <2>4. PICK size, needed : /\ size = Cardinality(DOMAIN used.series) /\ needed = Series!Needed(m, request)
      OBVIOUS
    <2>5. /\ error = "Insufficient data" \/ error = "Zero volatility"
             \/ error = "No downside observations" \/ error = "none"
          /\ error = "Insufficient data" => size < needed
      <3>1. size = Series!Cardinality(DOMAIN used.series)
        BY <2>4 DEF Series!Cardinality, Cardinality
      <3>2. CASE size < needed
        BY <2>1, <2>4, <3>1, <3>2 DEF Series!OwnError
      <3>3. CASE ~(size < needed)
        <4>1. error = IF m = "SHARPE" /\ Series!Steady(used.series) THEN "Zero volatility"
                      ELSE IF m = "SORTINO" /\ \A l \in DOMAIN used.series :
                                Series!Growth(used.series[l]) >= Series!Unchanging
                        THEN "No downside observations"
                      ELSE "none"
          BY Zenon, <2>1, <2>4, <3>1, <3>3 DEF Series!OwnError
        <4>2. error = "Zero volatility" \/ error = "No downside observations" \/ error = "none"
          BY Zenon, <4>1
        <4> QED BY <4>2
      <3> QED BY <3>2, <3>3
    <2>6. needed \in Nat /\ needed <= Fewest
      BY <2>4 DEF Series!Needed, Fewest
    <2>7. /\ Cardinality(buckets) \in Nat /\ size \in Nat /\ Cardinality(buckets) <= size
      <3>1. PICK labels : labels = IF request.frequency = "DAILY" THEN DOMAIN own
                                   ELSE {Series!Friday(Series!Week(l)) : l \in DOMAIN own}
        OBVIOUS
      <3>2. DOMAIN used.series = DOMAIN own \/ DOMAIN used.series = labels
        BY <1>2, <1>3, <1>6, <3>1
      <3>3. PICK days, some : days = DOMAIN own /\ some = buckets
        OBVIOUS
      <3>4. some = {Series!Bucket(l) : l \in days} /\ Dated(days)
        BY <3>3
      <3>5. labels = IF request.frequency = "DAILY" THEN days
                     ELSE {Series!Friday(Series!Week(l)) : l \in days}
        BY <3>1, <3>3
      <3>6. /\ Cardinality(days) \in Nat /\ Cardinality(labels) \in Nat /\ Cardinality(some) \in Nat
            /\ Cardinality(some) <= Cardinality(days) /\ Cardinality(some) <= Cardinality(labels)
        BY <3>4, <3>5, BucketsCount
      <3> HIDE DEF buckets
      <3> QED BY <2>4, <3>2, <3>3, <3>6
    <2> HIDE DEF buckets
    <2>8. error = "Insufficient data" => Cardinality(buckets) < Fewest
      <3>1. Fewest \in Nat
        BY DEF Fewest
      <3>2. PICK few, least : few = Cardinality(buckets) /\ least = Fewest
        OBVIOUS
      <3>3. few <= size /\ needed <= least /\ few \in Nat /\ size \in Nat /\ needed \in Nat /\ least \in Nat
        BY <2>6, <2>7, <3>1, <3>2
      <3>4. size < needed => few < least
        BY <3>3
      <3> QED BY <2>5, <3>2, <3>4
    <2> QED BY <2>3, <2>5, <2>8 DEF OtherErrors, buckets
  <1> QED BY <1>4, <1>5, <1>6

(* A series and the one it is compared with, as they are sampled. *)
Compared(own, against, supplied, main, other, common) ==
  /\ request.service = "risk" /\ request.frequency \in {"DAILY", "WEEKLY"}
  /\ Dated(DOMAIN own) /\ Dated(DOMAIN against) /\ supplied \in BOOLEAN
  /\ main = Series!Sampled(own, request.frequency, request.log)
  /\ other = Series!Sampled(against, request.frequency, request.log)
  /\ common = {Series!Bucket(l) : l \in DOMAIN own} \cap {Series!Bucket(l) : l \in DOMAIN against}

(* What the error of such a comparison tells. *)
ComparisonTells(error, main, other, supplied, common) ==
  /\ error \in OtherErrors
       \cup {"none", "Insufficient aligned observations",
             "Benchmark returns required for benchmark-dependent metric"}
  /\ error = "Benchmark returns required for benchmark-dependent metric" => supplied = FALSE
  /\ error = "Insufficient aligned observations" => Cardinality(common) < 2
  /\ error = "none" => supplied = TRUE /\ Series!Joined(main, other) # {}

(* A metric against a benchmark lacks the benchmark, or has fewer buckets in common
   with it than two, or fails otherwise; and if the context of the period lacks
   something so does the metric (calculate_benchmark_period_metrics,
   prepare_benchmark_context). *)
LEMMA RelativeErrorTells ==
  ASSUME NEW own, NEW against, NEW supplied, NEW main, NEW other, NEW common,
         Compared(own, against, supplied, main, other, common), NEW m,
         NEW value, value = Series!RelativeValue(m, main, other, supplied, request.log)
  PROVE  ComparisonTells(value.error, main, other, supplied, common)
  <1>0. /\ request.service = "risk" /\ request.frequency \in {"DAILY", "WEEKLY"}
        /\ Dated(DOMAIN own) /\ Dated(DOMAIN against) /\ supplied \in BOOLEAN
        /\ main = Series!Sampled(own, request.frequency, request.log)
        /\ other = Series!Sampled(against, request.frequency, request.log)
        /\ common = {Series!Bucket(l) : l \in DOMAIN own} \cap {Series!Bucket(l) : l \in DOMAIN against}
    BY DEF Compared
  <1> DEFINE joined == Series!Joined(main, other)
             failure == Series!RelativeFailure(main, other, supplied)
             error == Series!RelativeError(m, Series!Restrict(main.series, joined),
                                           Series!Restrict(other.series, joined), request.log)
  <1>1. /\ \A some \in {main, other} :
             \/ some.error = "none" \/ some.error = "Missing return observations"
             \/ some.error = "Log returns are undefined"
        /\ main.error = "none" =>
             DOMAIN main.series = IF request.frequency = "DAILY" THEN DOMAIN own
                                  ELSE {Series!Friday(Series!Week(l)) : l \in DOMAIN own}
        /\ other.error = "none" =>
             DOMAIN other.series = IF request.frequency = "DAILY" THEN DOMAIN against
                                   ELSE {Series!Friday(Series!Week(l)) : l \in DOMAIN against}
    <2>1. PICK frequency, log : frequency = request.frequency /\ log = request.log
      OBVIOUS
    <2>2. main = Series!Sampled(own, frequency, log) /\ other = Series!Sampled(against, frequency, log)
      BY <1>0, <2>1
    <2>3. /\ \/ main.error = "none" \/ main.error = "Missing return observations"
             \/ main.error = "Log returns are undefined"
          /\ main.error = "none" =>
               DOMAIN main.series = IF frequency = "DAILY" THEN DOMAIN own
                                    ELSE {Series!Friday(Series!Week(l)) : l \in DOMAIN own}
      BY <2>2, SampledTells
    <2>4. /\ \/ other.error = "none" \/ other.error = "Missing return observations"
             \/ other.error = "Log returns are undefined"
          /\ other.error = "none" =>
               DOMAIN other.series = IF frequency = "DAILY" THEN DOMAIN against
                                     ELSE {Series!Friday(Series!Week(l)) : l \in DOMAIN against}
      BY <2>2, SampledTells
    <2> QED BY <2>1, <2>3, <2>4
  <1>2. PICK size : size = Cardinality(joined)
    OBVIOUS
  <1>3. failure = IF main.error # "none" THEN main.error
                  ELSE IF supplied = FALSE THEN "Benchmark returns required for benchmark-dependent metric"
                  ELSE IF other.error # "none" THEN other.error
                  ELSE IF size < 2 THEN "Insufficient aligned observations"
                  ELSE "none"
    <2>1. size = Series!Cardinality(Series!Joined(main, other))
      BY <1>2 DEF Series!Cardinality, Cardinality
    <2>2. failure = IF main.error # "none" THEN main.error
                    ELSE IF ~supplied THEN "Benchmark returns required for benchmark-dependent metric"
                    ELSE IF other.error # "none" THEN other.error
                    ELSE IF size < 2 THEN "Insufficient aligned observations"
                    ELSE "none"
      BY Zenon, <2>1 DEF Series!RelativeFailure
    <2>3. CASE supplied = TRUE
      BY <2>2, <2>3
    <2>4. CASE supplied = FALSE
      BY <2>2, <2>4
    <2> QED BY <1>0, <2>3, <2>4
  <1>4. error = "none" \/ error = "Benchmark variance is zero" \/ error = "Tracking error is zero"
    BY Zenon DEF Series!RelativeError
  <1>5. main.error = "none" /\ other.error = "none" =>
          Cardinality(common) \in Nat /\ size \in Nat /\ Cardinality(common) <= size /\ IsFiniteSet(joined)
    <2> SUFFICES ASSUME main.error = "none", other.error = "none"
                 PROVE  Cardinality(common) \in Nat /\ size \in Nat /\ Cardinality(common) <= size
                        /\ IsFiniteSet(joined)
      OBVIOUS
    <2>1. PICK days, held, labels, meeting :
            /\ days = DOMAIN own /\ held = DOMAIN against /\ labels = joined /\ meeting = common
      OBVIOUS
    <2>2. labels = DOMAIN main.series \cap DOMAIN other.series
      BY <2>1 DEF Series!Joined
    <2>3. labels = IF request.frequency = "DAILY" THEN days \cap held
                   ELSE {Series!Friday(Series!Week(l)) : l \in days}
                          \cap {Series!Friday(Series!Week(l)) : l \in held}
      <3>1. CASE request.frequency = "DAILY"
        BY <1>1, <2>1, <2>2, <3>1
      <3>2. CASE request.frequency # "DAILY"
        BY <1>1, <2>1, <2>2, <3>2
      <3> QED BY <3>1, <3>2
    <2>4. meeting = {Series!Bucket(l) : l \in days} \cap {Series!Bucket(l) : l \in held}
      BY <1>0, <2>1
    <2>5. Dated(days) /\ Dated(held)
      BY <1>0, <2>1
    <2>6. /\ IsFiniteSet(labels) /\ Cardinality(labels) \in Nat
          /\ Cardinality(meeting) \in Nat /\ Cardinality(meeting) <= Cardinality(labels)
      BY <1>0, <2>3, <2>4, <2>5, CommonCount
    <2> HIDE DEF joined
    <2> QED BY <1>2, <2>1, <2>6
  <1>6. value.error = IF failure # "none" THEN failure ELSE error
    <2>1. value = IF failure # "none" THEN Series!Failed(failure)
                  ELSE Series!Valued(error, Series!Restrict(main.series, joined),
                                     Series!Restrict(other.series, joined))
      BY DEF Series!RelativeValue
    <2> HIDE DEF failure, error, joined
    <2>2. CASE failure # "none"
      <3>1. value = Series!Failed(failure)
        BY <2>1, <2>2
      <3> QED BY <2>2, <3>1 DEF Series!Failed
    <2>3. CASE failure = "none" /\ error = "none"
      <3>1. value = Series!Valued(error, Series!Restrict(main.series, joined),
                                  Series!Restrict(other.series, joined))
        BY <2>1, <2>3
      <3>2. value.error = "none"
        BY <2>3, <3>1 DEF Series!Valued
      <3> QED BY <2>3, <3>2
    <2>4. CASE failure = "none" /\ error # "none"
      <3>1. value = Series!Failed(error)
        BY <2>1, <2>4 DEF Series!Valued
      <3>2. value.error = error
        BY <3>1 DEF Series!Failed
      <3> QED BY <2>4, <3>2
    <2> QED BY <2>2, <2>3, <2>4
  <1>7. joined = {} => size = 0
    BY <1>2, FS_EmptySet
  <1> HIDE DEF failure, error, joined
  <1>8. CASE main.error # "none"
    <2>1. value.error = main.error
      BY <1>3, <1>6, <1>8
    <2>2. value.error = "Missing return observations" \/ value.error = "Log returns are undefined"
      BY <1>1, <1>8, <2>1
    <2> QED BY <2>2 DEF OtherErrors, ComparisonTells
  <1>9. CASE main.error = "none" /\ supplied = FALSE
    <2>1. value.error = "Benchmark returns required for benchmark-dependent metric"
      BY <1>3, <1>6, <1>9
    <2> QED BY <1>9, <2>1 DEF ComparisonTells
  <1>10. CASE main.error = "none" /\ supplied = TRUE /\ other.error # "none"
    <2>1. value.error = other.error
      BY <1>3, <1>6, <1>10
    <2>2. value.error = "Missing return observations" \/ value.error = "Log returns are undefined"
      BY <1>1, <1>10, <2>1
    <2> QED BY <2>2 DEF OtherErrors, ComparisonTells
  <1>11. CASE main.error = "none" /\ supplied = TRUE /\ other.error = "none" /\ size < 2
    <2>1. value.error = "Insufficient aligned observations"
      BY <1>3, <1>6, <1>11
    <2>2. Cardinality(common) < 2
      <3>1. PICK few : few = Cardinality(common)
        OBVIOUS
      <3>2. few \in Nat /\ size \in Nat /\ few <= size
        BY <1>5, <1>11, <3>1
      <3>3. few < 2
        BY <1>11, <3>2
      <3> QED BY <3>1, <3>3
    <2> QED BY <2>1, <2>2 DEF ComparisonTells
  <1>12. CASE main.error = "none" /\ supplied = TRUE /\ other.error = "none" /\ ~(size < 2)
    <2>1. value.error = error
      BY <1>3, <1>6, <1>12
    <2>2. joined # {}
      BY <1>7, <1>12
    <2>3. value.error = "none" \/ value.error = "Benchmark variance is zero"
            \/ value.error = "Tracking error is zero"
      BY <1>4, <2>1
    <2>4. value.error \in OtherErrors \cup {"none"} /\ value.error # "Insufficient aligned observations"
          /\ value.error # "Benchmark returns required for benchmark-dependent metric"
      BY <2>3 DEF OtherErrors
    <2> QED BY <1>12, <2>2, <2>4 DEF joined, ComparisonTells
  <1> QED BY <1>0, <1>8, <1>9, <1>10, <1>11, <1>12

(* The context of a benchmark lacks something only if there is none, or if no date is
   of both series. *)
LEMMA RelativeLack ==
  ASSUME NEW main, NEW other, NEW supplied \in BOOLEAN,
         NEW context, context = Series!RelativeContext(main, other, supplied)
  PROVE  /\ Series!Lack(context) \subseteq Reasons
         /\ Series!Lack(context) # {} => supplied = FALSE \/ Series!Joined(main, other) = {}
  <1>1. PICK aligned, reason : aligned = (Series!Joined(main, other) # {})
                               /\ context = [requested |-> TRUE, available |-> supplied,
                                             aligned |-> aligned, reason |-> reason]
    BY Zenon DEF Series!RelativeContext
  <1>2. /\ context.requested = TRUE /\ context.available = supplied
        /\ context.aligned = aligned /\ context.reason = reason
    BY <1>1
  <1>3. Series!ReasonForError(reason) \in Reasons
    BY DEF Series!ReasonForError, Reasons
  <1>4. CASE supplied = FALSE
    <2>1. Series!Lack(context) = {Series!ReasonForError(reason)}
      BY <1>2, <1>4 DEF Series!Lack
    <2> QED BY <1>3, <1>4, <2>1
  <1>5. CASE supplied = TRUE /\ Series!Joined(main, other) = {}
    <2>1. aligned = FALSE
      BY <1>1, <1>5
    <2>2. Series!Lack(context) = {"insufficient_aligned_observations"}
      BY <1>2, <1>5, <2>1 DEF Series!Lack
    <2> QED BY <1>5, <2>2 DEF Reasons
  <1>6. CASE supplied = TRUE /\ Series!Joined(main, other) # {}
    <2>1. aligned = TRUE
      BY <1>1, <1>6
    <2>2. Series!Lack(context) = {}
      BY <1>2, <1>6, <2>1 DEF Series!Lack
    <2> QED BY <2>2
  <1> QED BY <1>4, <1>5, <1>6

(* What the metrics of a period lack, by its error and its dependencies. *)
RiskLacks(k) ==
  LET result == outcome.results[k] IN
  /\ result.count \in Nat
  /\ result.count = 0 <=> DOMAIN Series!Within(admitted.portfolio, result.bounds) = {}
  /\ result.error = "none" /\ DOMAIN result.metrics = request.metrics
  /\ \A m \in request.metrics :
       result.metrics[m].error # "none" => ReasonHolds(Series!ReasonForError(result.metrics[m].error))
  /\ Series!Degradation(result) \subseteq Reasons
  /\ Series!Degradation(result) # {} => \E m \in request.metrics : result.metrics[m].error # "none"

(* They are so (build_period_results). *)
LEMMA RiskPeriodLacks ==
  ASSUME SoundSeries(request, books), request.service = "risk",
         NEW first, Settled(first), NEW k \in DOMAIN outcome.results
  PROVE  RiskLacks(k)
  <1> DEFINE result == outcome.results[k]
  <1>1. PICK period, bounds : /\ result = Series!RiskPeriod(admitted, request, period, first)
                              /\ bounds = Series!Resolved(period, request.asOf, first)
    BY SettledResults
  <1>2. PICK own, against, supplied, main, other :
          /\ own = Series!Within(admitted.portfolio, bounds)
          /\ against = Series!Within(admitted.benchmark, bounds)
          /\ supplied = (DOMAIN admitted.benchmark # {})
          /\ main = Series!Sampled(own, request.frequency, request.log)
          /\ other = Series!Sampled(against, request.frequency, request.log)
    OBVIOUS
  <1>3. PICK context, values, count :
          /\ context = IF request.metrics \cap Series!RelativeMetrics = {} THEN Series!NotRequested
                       ELSE Series!RelativeContext(main, other, supplied)
          /\ values = [m \in request.metrics |->
                         IF m \in Series!RelativeMetrics
                           THEN Series!RelativeValue(m, main, other, supplied, request.log)
                         ELSE Series!OwnValue(m, own, request)]
          /\ count = Cardinality(DOMAIN own)
    OBVIOUS
  <1>4. result = [bounds |-> bounds, count |-> count, error |-> "none", benchmark |-> context,
                  riskFree |-> Series!NotRequested, metrics |-> values]
    <2>1. count = Series!Cardinality(DOMAIN own)
      BY <1>3 DEF Series!Cardinality, Cardinality
    <2>2. values = Series!PeriodMetrics(own, main, other, supplied, request)
      BY Zenon, <1>3 DEF Series!PeriodMetrics
    <2> QED BY Zenon, <1>1, <1>2, <1>3, <2>1, <2>2 DEF Series!RiskPeriod
  <1> HIDE DEF result
  <1>5. /\ result.bounds = bounds /\ result.count = count /\ result.error = "none"
        /\ result.benchmark = context /\ result.riskFree = Series!NotRequested /\ result.metrics = values
    BY <1>4
  <1>6. Dated(DOMAIN own) /\ Dated(DOMAIN against)
    <2>1. DOMAIN own \subseteq DOMAIN admitted.portfolio /\ DOMAIN against \subseteq DOMAIN admitted.benchmark
      BY <1>2 DEF Series!Within, Series!Restrict
    <2>2. Dated(DOMAIN admitted.portfolio) /\ Dated(DOMAIN admitted.benchmark)
      BY DEF Settled
    <2> QED BY <2>1, <2>2, DatedSubset
  <1>7. count \in Nat /\ (count = 0 <=> DOMAIN own = {})
    BY <1>3, <1>6, DatedFinite, FS_CardinalityType, FS_EmptySet
  <1>8. supplied \in BOOLEAN /\ (supplied = FALSE <=> DOMAIN admitted.benchmark = {})
    BY <1>2
  <1>9. PICK common : common = {Series!Bucket(l) : l \in DOMAIN own}
                                 \cap {Series!Bucket(l) : l \in DOMAIN against}
    OBVIOUS
  <1>10. /\ Series!Buckets(admitted.portfolio, k) = {Series!Bucket(l) : l \in DOMAIN own}
         /\ Series!Common(k) = common
    <2>1. outcome.results[k].bounds = bounds
      BY <1>5 DEF result
    <2> QED BY <1>2, <1>9, <2>1 DEF Series!Buckets, Series!Common
  <1>11. request.frequency \in {"DAILY", "WEEKLY"}
    BY DEF SoundSeries
  <1>12. Compared(own, against, supplied, main, other, common)
    BY <1>2, <1>6, <1>8, <1>9, <1>11 DEF Compared
  <1>13. ASSUME NEW m \in request.metrics, values[m].error # "none"
         PROVE  /\ <<m, values[m].error>> \in Series!Wrong(k)
                /\ ReasonHolds(Series!ReasonForError(values[m].error))
    <2>1. PICK value, error : value = values[m] /\ error = value.error
      OBVIOUS
    <2>2. <<m, error>> \in Series!Wrong(k)
      <3>1. outcome.results[k].metrics = values
        BY <1>5 DEF result
      <3>2. m \in DOMAIN values
        BY <1>3
      <3>3. <<m, error>> \in Series!Errors(k)
        BY <2>1, <3>1, <3>2 DEF Series!Errors
      <3>4. <<m, error>>[2] # "none"
        BY <1>13, <2>1
      <3> QED BY <3>3, <3>4 DEF Series!Wrong
    <2>3. error \in OtherErrors => ReasonHolds(Series!ReasonForError(error))
      <3> SUFFICES ASSUME error \in OtherErrors PROVE ReasonHolds(Series!ReasonForError(error))
        OBVIOUS
      <3>1. Series!ReasonForError(error) = "calculation_quality_issue"
        BY ReasonsOfMetrics
      <3>2. PICK e : e = <<m, error>>
        OBVIOUS
      <3>3. e \in Series!Wrong(k) /\ Series!ReasonForError(e[2]) = "calculation_quality_issue"
        BY <2>2, <3>1, <3>2
      <3> QED BY <3>1, <3>3 DEF ReasonHolds
    <2>4. CASE m \in Series!RelativeMetrics
      <3>1. value = Series!RelativeValue(m, main, other, supplied, request.log)
        BY <1>3, <2>1, <2>4
      <3>2. /\ error \in OtherErrors
                 \cup {"none", "Insufficient aligned observations",
                       "Benchmark returns required for benchmark-dependent metric"}
            /\ error = "Benchmark returns required for benchmark-dependent metric" => supplied = FALSE
            /\ error = "Insufficient aligned observations" => Cardinality(common) < 2
        <4>1. ComparisonTells(value.error, main, other, supplied, common)
          BY <1>12, <3>1, RelativeErrorTells
        <4> QED BY <2>1, <4>1 DEF ComparisonTells
      <3>3. Series!WantsBenchmark
        BY <2>4 DEF Series!WantsBenchmark
      <3>4. CASE error = "Benchmark returns required for benchmark-dependent metric"
        <4>1. Series!ReasonForError(error) = "benchmark_unavailable"
          BY <3>4, ReasonsOfMetrics
        <4>2. DOMAIN admitted.benchmark = {}
          BY <1>8, <3>2, <3>4
        <4>3. ReasonHolds(Series!ReasonForError(error))
          BY <3>3, <4>1, <4>2 DEF ReasonHolds
        <4> QED BY <2>1, <2>2, <4>3
      <3>5. CASE error = "Insufficient aligned observations"
        <4>1. Series!ReasonForError(error) = "insufficient_aligned_observations"
          BY <3>5, ReasonsOfMetrics
        <4>2. Cardinality(Series!Common(k)) < IF request.service = "drawdown" THEN 1 ELSE 2
          BY <1>10, <3>2, <3>5
        <4>3. ReasonHolds(Series!ReasonForError(error))
          BY <3>3, <4>1, <4>2 DEF ReasonHolds
        <4> QED BY <2>1, <2>2, <4>3
      <3> QED BY <1>13, <2>1, <2>2, <2>3, <3>2, <3>4, <3>5
    <2>5. CASE m \notin Series!RelativeMetrics
      <3>1. value = Series!OwnValue(m, own, request)
        BY <1>3, <2>1, <2>5
      <3>2. /\ error \in OtherErrors \cup {"none", "Insufficient data"}
            /\ error = "Insufficient data" =>
                 Cardinality({Series!Bucket(l) : l \in DOMAIN own}) < Fewest
        BY <1>6, <1>11, <2>1, <3>1, OwnErrorTells
      <3>3. CASE error = "Insufficient data"
        <4>1. Series!ReasonForError(error) = "insufficient_observations"
          BY <3>3, ReasonsOfMetrics
        <4>2. Cardinality(Series!Buckets(admitted.portfolio, k)) < Fewest
          BY <1>10, <3>2, <3>3
        <4>3. ReasonHolds(Series!ReasonForError(error))
          BY <4>1, <4>2 DEF ReasonHolds
        <4> QED BY <2>1, <2>2, <4>3
      <3> QED BY <1>13, <2>1, <2>2, <2>3, <3>2, <3>3
    <2> QED BY <2>4, <2>5
  <1>14. Series!Lack(Series!NotRequested) = {}
    BY DEF Series!Lack, Series!NotRequested
  <1>15. Series!Degradation(result) = Series!Lack(context)
    BY <1>5, <1>14 DEF Series!Degradation, Series!DependencyLack
  <1>16. /\ Series!Lack(context) \subseteq Reasons
         /\ Series!Lack(context) # {} => \E m \in request.metrics : values[m].error # "none"
    <2>1. CASE request.metrics \cap Series!RelativeMetrics = {}
      BY <1>3, <1>14, <2>1
    <2>2. CASE request.metrics \cap Series!RelativeMetrics # {}
      <3>1. context = Series!RelativeContext(main, other, supplied)
        BY <1>3, <2>2
      <3>2. /\ Series!Lack(context) \subseteq Reasons
            /\ Series!Lack(context) # {} => supplied = FALSE \/ Series!Joined(main, other) = {}
        BY <1>8, <3>1, RelativeLack
      <3>3. PICK m \in request.metrics : m \in Series!RelativeMetrics
        BY <2>2
      <3>4. PICK value : value = values[m]
        OBVIOUS
      <3>5. value = Series!RelativeValue(m, main, other, supplied, request.log)
        BY <1>3, <3>3, <3>4
      <3>6. value.error = "none" => supplied = TRUE /\ Series!Joined(main, other) # {}
        <4>1. ComparisonTells(value.error, main, other, supplied, common)
          BY <1>12, <3>5, RelativeErrorTells
        <4> QED BY <4>1 DEF ComparisonTells
      <3> QED BY <3>2, <3>4, <3>6
    <2> QED BY <2>1, <2>2
  <1>17. DOMAIN values = request.metrics
    BY <1>3
  <1>18. \A m \in request.metrics :
           values[m].error # "none" => ReasonHolds(Series!ReasonForError(values[m].error))
    BY <1>13
  <1> QED BY <1>2, <1>5, <1>7, <1>15, <1>16, <1>17, <1>18 DEF RiskLacks, result

(* What is scanned for an answer for risk is what failed of it: each metric of each
   period that has an error, once (_scan_risk_metric_supportability). *)
LEMMA ErringTells ==
  ASSUME SoundSeries(request, books), Ratable(request), request.service = "risk",
         NEW first, Settled(first),
         NEW erring, erring = Series!Erring(outcome.results)
  PROVE  /\ IsFiniteSet(erring) /\ Cardinality(erring) \in Nat
         /\ Cardinality(Failures) = Cardinality(erring)
         /\ \A e \in erring : /\ e[1] \in DOMAIN outcome.results /\ e[2] \in request.metrics
                              /\ outcome.results[e[1]].metrics[e[2]].error # "none"
         /\ \A k \in DOMAIN outcome.results : \A m \in request.metrics :
              outcome.results[k].metrics[m].error # "none" => <<k, m>> \in erring
         /\ erring = {} => \A k \in DOMAIN outcome.results : Series!Wrong(k) = {}
         /\ \A k \in DOMAIN outcome.results : ~Series!Uncompared(k)
  <1> DEFINE names == DOMAIN outcome.results
             metrics == request.metrics
             said(k, m) == outcome.results[k].metrics[m].error
  <1>1. /\ IsFiniteSet(names) /\ IsFiniteSet(metrics)
        /\ \A k \in names : DOMAIN outcome.results[k].metrics = metrics
        /\ \A k \in names : outcome.results[k].error = "none"
    BY SettledResults, RiskPeriodLacks DEF RiskLacks, Ratable
  <1>2. erring = UNION {{<<k, m>> : m \in {n \in metrics : said(k, n) # "none"}} : k \in names}
    <2>1. \A k \in names :
            {<<k, m>> : m \in {n \in DOMAIN outcome.results[k].metrics : said(k, n) # "none"}}
              = {<<k, m>> : m \in {n \in metrics : said(k, n) # "none"}}
      BY <1>1
    <2> QED BY <2>1 DEF Series!Erring
  <1>3. \A k \in names : ~Series!Uncompared(k)
    BY DEF Series!Uncompared
  <1>4. ASSUME NEW k \in names
        PROVE  Series!Wrong(k) = {<<m, said(k, m)>> : m \in {n \in metrics : said(k, n) # "none"}}
    <2>1. Series!Errors(k) = {<<m, said(k, m)>> : m \in metrics} \cup {<<"period", "none">>}
      BY <1>1 DEF Series!Errors
    <2> HIDE DEF said, metrics, names
    <2>2. ASSUME NEW e \in Series!Wrong(k)
          PROVE  e \in {<<m, said(k, m)>> : m \in {n \in metrics : said(k, n) # "none"}}
      <3>1. e \in Series!Errors(k) /\ e[2] # "none"
        BY DEF Series!Wrong
      <3>2. PICK m \in metrics : e = <<m, said(k, m)>>
        BY <2>1, <3>1
      <3> QED BY <3>1, <3>2
    <2>3. ASSUME NEW m \in metrics, said(k, m) # "none" PROVE <<m, said(k, m)>> \in Series!Wrong(k)
      <3>1. <<m, said(k, m)>> \in Series!Errors(k)
        BY <2>1
      <3> QED BY <2>3, <3>1 DEF Series!Wrong
    <2> QED BY <2>2, <2>3
  <1>5. Failures = UNION {{k} \X Series!Wrong(k) : k \in names}
    <2>1. \A k \in names : Series!Wrong(k) \cup (IF Series!Uncompared(k) THEN {"benchmark"} ELSE {}) = Series!Wrong(k)
      BY <1>3
    <2>2. {{k} \X (Series!Wrong(k) \cup (IF Series!Uncompared(k) THEN {"benchmark"} ELSE {})) : k \in names}
            = {{k} \X Series!Wrong(k) : k \in names}
      BY <2>1
    <2> QED BY <2>2 DEF Failures
  <1> HIDE DEF said, metrics, names
  <1>6. \A e \in erring : /\ e = <<e[1], e[2]>> /\ e[1] \in names /\ e[2] \in metrics
                          /\ said(e[1], e[2]) # "none"
    BY <1>2
  <1>7. \A k \in names : \A m \in metrics : said(k, m) # "none" => <<k, m>> \in erring
    BY <1>2
  <1>8. IsFiniteSet(erring) /\ Cardinality(erring) \in Nat
    <2>1. IsFiniteSet(names \X metrics)
      BY <1>1, FS_Product
    <2>2. erring \subseteq names \X metrics
      BY <1>6
    <2> QED BY <2>1, <2>2, FS_Subset, FS_CardinalityType
  <1>9. Cardinality(Failures) = Cardinality(erring)
    <2> DEFINE failure == [e \in erring |-> <<e[1], <<e[2], said(e[1], e[2])>>>>]
    <2>1. \A e \in erring : /\ failure[e] = <<e[1], <<e[2], said(e[1], e[2])>>>>
                            /\ failure[e][1] = e[1] /\ failure[e][2][1] = e[2]
      OBVIOUS
    <2>2. DOMAIN failure = erring /\ failure = [e \in erring |-> failure[e]]
      OBVIOUS
    <2> HIDE DEF failure
    <2>3. ASSUME NEW e \in erring PROVE failure[e] \in Failures
      <3>1. <<e[2], said(e[1], e[2])>> \in Series!Wrong(e[1])
        BY <1>4, <1>6
      <3> QED BY <1>5, <1>6, <2>1, <3>1
    <2>4. ASSUME NEW f \in Failures PROVE \E e \in erring : f = failure[e]
      <3>1. PICK k \in names : f \in {k} \X Series!Wrong(k)
        BY <1>5
      <3>2. PICK w \in Series!Wrong(k) : f = <<k, w>>
        BY <3>1
      <3>3. PICK m \in metrics : said(k, m) # "none" /\ w = <<m, said(k, m)>>
        BY <1>4
      <3>4. PICK e \in erring : e = <<k, m>>
        BY <1>7, <3>3
      <3>5. e[1] = k /\ e[2] = m
        BY <3>4
      <3>6. f = failure[e]
        BY <2>1, <3>2, <3>3, <3>5
      <3> QED BY <3>6
    <2>5. ASSUME NEW d \in erring, NEW e \in erring, failure[d] = failure[e] PROVE d = e
      BY <1>6, <2>1, <2>5
    <2>6. failure \in [erring -> Failures]
      BY <2>2, <2>3
    <2>7. failure \in Bijection(erring, Failures)
      BY <2>3, <2>4, <2>5, <2>6 DEF Bijection, Injection, Surjection, IsInjective
    <2>8. ExistsBijection(erring, Failures)
      BY <2>7 DEF ExistsBijection
    <2> QED BY <1>8, <2>8, FS_Bijection
  <1>10. erring = {} => \A k \in names : Series!Wrong(k) = {}
    BY <1>4, <1>7
  <1> QED BY <1>3, <1>6, <1>7, <1>8, <1>9, <1>10 DEF said, metrics, names

(* The verdict on the periods of an answer for risk (supportability_from_period_results). *)
PeriodsTell(verdict) ==
  \E state, reason, bucket, degraded, empty, evaluated :
    /\ verdict = [state |-> state, reason |-> reason, bucket |-> bucket,
                  degraded |-> degraded, empty |-> empty, evaluated |-> evaluated]
    /\ state = "empty" => \/ DOMAIN outcome.results = {}
                          \/ \E k \in DOMAIN outcome.results : outcome.results[k].count = 0
    /\ Series!Erring(outcome.results) = {} \/ state = "empty" =>
         /\ degraded = 0
         /\ state = "ready" =>
              /\ reason = "calculation_complete"
              /\ \E d \in DOMAIN admitted.portfolio : d >= request.asOf - 1
              /\ \A k \in DOMAIN outcome.results : outcome.results[k].count # 0
         /\ state # "ready" => ReasonHolds(reason)

(* It tells them, as far as no metric failed. *)
LEMMA RiskPeriodsTell ==
  ASSUME SoundSeries(request, books), Ratable(request), request.service = "risk",
         NEW first, Settled(first)
  PROVE  PeriodsTell(Series!OfPeriods(DOMAIN admitted.portfolio, request.asOf, outcome.results))
  <1>1. PICK results, days, day, own, erring, bad :
          /\ results = outcome.results /\ days = DOMAIN admitted.portfolio /\ day = request.asOf
          /\ own = Series!OfPeriods(days, day, results) /\ erring = Series!Erring(outcome.results)
          /\ bad = {k \in DOMAIN results : Series!Degradation(results[k]) # {}}
    OBVIOUS
  <1>2. /\ DOMAIN results = IF days = {} THEN {} ELSE DOMAIN request.periods
        /\ IsFiniteSet(DOMAIN results)
    BY <1>1, SettledResults
  <1>3. \A k \in DOMAIN results : RiskLacks(k)
    BY <1>1, RiskPeriodLacks
  <1>4. /\ \A e \in erring : e[1] \in DOMAIN results
        /\ \A k \in DOMAIN results : \A m \in request.metrics :
             results[k].metrics[m].error # "none" => <<k, m>> \in erring
    BY <1>1, ErringTells
  <1>5. \A k \in DOMAIN results : /\ Series!Degradation(results[k]) = Rolling!Degradation(results[k])
                                  /\ Rolling!Degradation(results[k]) \subseteq Reasons
    BY <1>1, <1>3, SameVerdicts DEF RiskLacks
  <1>6. Dated(days) /\ day \in Nat
    BY <1>1 DEF Settled, SoundSeries
  <1>7. VerdictTells(own, days, day, results)
    <2>1. own = Rolling!OfPeriods(days, day, results)
      BY <1>1, SameVerdicts
    <2>2. \A k \in DOMAIN results : Rolling!Degradation(results[k]) \subseteq Reasons
      BY <1>5
    <2>3. VerdictTells(Rolling!OfPeriods(days, day, results), days, day, results)
      BY <1>2, <1>6, <2>2, OwnVerdict
    <2> QED BY <2>1, <2>3
  <1>8. /\ own.degraded = IF days = {} THEN 0 ELSE Cardinality(bad)
        /\ own.state = "empty" <=> \/ days = {}
                                   \/ bad = {} /\ \E k \in DOMAIN results : results[k].count = 0
    <2>1. /\ own = Series!OfPeriods(days, day, results) /\ IsFiniteSet(DOMAIN results)
          /\ bad = {k \in DOMAIN results : Series!Degradation(results[k]) # {}}
      BY <1>1, <1>2
    <2>2. Counted(own, days, results, bad)
      BY <2>1, VerdictCounts
    <2> QED BY <2>2 DEF Counted
  (* A dependency that lacks something is missed by a metric. *)
  <1>9. erring = {} \/ own.state = "empty" => bad = {}
    <2>1. days = {} => bad = {}
      BY <1>1, <1>2
    <2>2. ASSUME erring = {}, NEW k \in bad PROVE FALSE
      <3>1. k \in DOMAIN results /\ Series!Degradation(results[k]) # {}
        BY <1>1
      <3>2. PICK m \in request.metrics : results[k].metrics[m].error # "none"
        BY <1>1, <1>3, <3>1 DEF RiskLacks
      <3> QED BY <1>4, <2>2, <3>1, <3>2
    <2> QED BY <1>8, <2>1, <2>2
  <1>10. PICK state, reason, bucket, degraded, empty, evaluated :
          /\ own = [state |-> state, reason |-> reason, bucket |-> bucket,
                    degraded |-> degraded, empty |-> empty, evaluated |-> evaluated]
          /\ state = "ready" =>
               /\ reason = "calculation_complete"
               /\ \E d \in days : d >= day - 1
               /\ \A k \in DOMAIN results : Rolling!Degradation(results[k]) = {}
          /\ state # "ready" =>
               \/ reason = "no_return_observations" /\ days = {}
               \/ \E k \in DOMAIN results : reason \in Rolling!Degradation(results[k])
               \/ reason = "insufficient_observations" /\ \E k \in DOMAIN results : results[k].count = 0
               \/ reason = "stale_source_observations" /\ \A d \in days : d < day - 1
    BY <1>7 DEF VerdictTells
  <1>11. own.state = state /\ own.degraded = degraded
    BY <1>10
  <1>12. ASSUME erring = {} \/ state = "empty"
         PROVE  /\ degraded = 0
                /\ state = "ready" =>
                     /\ reason = "calculation_complete"
                     /\ \E d \in days : d >= day - 1
                     /\ \A k \in DOMAIN results : results[k].count # 0
                /\ state # "ready" => ReasonHolds(reason)
    <2>1. bad = {}
      BY <1>9, <1>11, <1>12
    <2>2. degraded = 0
      BY <1>8, <1>11, <2>1, FS_EmptySet
    <2>3. state = "ready" => \A k \in DOMAIN results : results[k].count # 0
      BY <1>8, <1>11, <2>1
    <2>4. \A k \in DOMAIN results : Rolling!Degradation(results[k]) = {}
      BY <1>1, <1>5, <2>1
    <2>5. ASSUME NEW k \in DOMAIN results, results[k].count = 0
          PROVE  ReasonHolds("insufficient_observations")
      <3>1. DOMAIN Series!Within(admitted.portfolio, outcome.results[k].bounds) = {}
        BY <1>1, <1>3, <2>5 DEF RiskLacks
      <3>2. Series!Buckets(admitted.portfolio, k) = {}
        BY <3>1 DEF Series!Buckets
      <3>3. Cardinality(Series!Buckets(admitted.portfolio, k)) < Fewest
        BY <3>2, FS_EmptySet DEF Fewest
      <3> QED BY <1>1, <3>3 DEF ReasonHolds
    <2>6. days = {} => ReasonHolds("no_return_observations")
      BY <1>1 DEF ReasonHolds
    <2>7. (\A d \in days : d < day - 1) => ReasonHolds("stale_source_observations")
      BY <1>1 DEF ReasonHolds
    <2> QED BY <1>10, <2>2, <2>3, <2>4, <2>5, <2>6, <2>7
  <1>13. state = "empty" => DOMAIN results = {} \/ \E k \in DOMAIN results : results[k].count = 0
    BY <1>2, <1>8, <1>11
  <1>14. PeriodsTell(own)
    BY <1>1, <1>10, <1>12, <1>13 DEF PeriodsTell
  <1> QED BY <1>1, <1>14

(* What is said of an answer for risk is what its metrics lack. *)
LEMMA RiskTells ==
  ASSUME SoundSeries(request, books), Ratable(request), request.service = "risk",
         NEW first, Settled(first)
  PROVE  TellsOfResults(Series!QualificationOf(admitted, outcome.results))
  <1>1. PICK results, own, erring, severe, spread, reasons, verdict :
          /\ results = outcome.results
          /\ own = Series!OfPeriods(DOMAIN admitted.portfolio, request.asOf, results)
          /\ erring = Series!Erring(results)
          /\ reasons = {Series!ReasonForError(results[e[1]].metrics[e[2]].error) : e \in erring}
          /\ severe = Series!MostSevere(reasons)
          /\ spread = Series!Cardinality({k \in DOMAIN results : results[k].count = 0})
          /\ verdict = Series!QualificationOf(admitted, results)
    OBVIOUS
  <1>2. verdict = IF own.state = "empty" \/ erring = {} THEN own
                  ELSE [own EXCEPT !.state = "degraded", !.reason = severe,
                          !.degraded = Cardinality(erring), !.empty = spread]
    <2>1. verdict = Series!RiskQualification(admitted, request, results)
      BY <1>1 DEF Series!QualificationOf
    <2>2. Cardinality(erring) = Series!Cardinality(erring)
      BY DEF Series!Cardinality, Cardinality
    <2> QED BY Zenon, <1>1, <2>1, <2>2 DEF Series!RiskQualification
  <1>3. /\ IsFiniteSet(erring) /\ Cardinality(erring) \in Nat
        /\ Cardinality(Failures) = Cardinality(erring)
        /\ \A e \in erring : /\ e[1] \in DOMAIN results /\ e[2] \in request.metrics
                             /\ results[e[1]].metrics[e[2]].error # "none"
        /\ erring = {} => \A k \in DOMAIN results : Series!Wrong(k) = {}
        /\ \A k \in DOMAIN results : ~Series!Uncompared(k)
    BY <1>1, ErringTells
  <1>4. \A k \in DOMAIN results : RiskLacks(k)
    BY <1>1, RiskPeriodLacks
  <1>5. PICK state, reason, bucket, degraded, empty, evaluated :
          /\ own = [state |-> state, reason |-> reason, bucket |-> bucket,
                    degraded |-> degraded, empty |-> empty, evaluated |-> evaluated]
          /\ state = "empty" => DOMAIN results = {} \/ \E k \in DOMAIN results : results[k].count = 0
          /\ erring = {} \/ state = "empty" =>
               /\ degraded = 0
               /\ state = "ready" =>
                    /\ reason = "calculation_complete"
                    /\ \E d \in DOMAIN admitted.portfolio : d >= request.asOf - 1
                    /\ \A k \in DOMAIN results : results[k].count # 0
               /\ state # "ready" => ReasonHolds(reason)
    <2> DEFINE tells(some, wrong, state, reason, bucket, degraded, empty, evaluated) ==
          /\ own = [state |-> state, reason |-> reason, bucket |-> bucket,
                    degraded |-> degraded, empty |-> empty, evaluated |-> evaluated]
          /\ state = "empty" => DOMAIN some = {} \/ \E k \in DOMAIN some : some[k].count = 0
          /\ wrong = {} \/ state = "empty" =>
               /\ degraded = 0
               /\ state = "ready" =>
                    /\ reason = "calculation_complete"
                    /\ \E d \in DOMAIN admitted.portfolio : d >= request.asOf - 1
                    /\ \A k \in DOMAIN some : some[k].count # 0
               /\ state # "ready" => ReasonHolds(reason)
    <2>1. PeriodsTell(own)
      BY <1>1, RiskPeriodsTell
    <2>2. PICK state, reason, bucket, degraded, empty, evaluated :
            tells(outcome.results, Series!Erring(outcome.results),
                  state, reason, bucket, degraded, empty, evaluated)
      BY <2>1, Zenon DEF PeriodsTell
    <2>3. results = outcome.results /\ erring = Series!Erring(outcome.results)
      BY <1>1
    <2>4. tells(results, erring, state, reason, bucket, degraded, empty, evaluated)
      <3> HIDE DEF tells
      <3> QED BY <2>2, <2>3
    <2> QED BY <2>4, Zenon
  <1>6. own.state = state
    BY <1>5
  <1>7. CASE erring = {} \/ state = "empty"
    <2>1. verdict = own
      BY <1>2, <1>6, <1>7
    <2>2. state = "ready" => NothingLacks
      <3>1. state = "ready" => erring = {}
        BY <1>7
      <3>2. \A k \in DOMAIN results : results[k].count \in Nat
        BY <1>1, <1>4 DEF RiskLacks
      <3>3. state = "ready" => \A k \in DOMAIN results : results[k].count > 0
        BY <1>5, <1>7, <3>2
      <3> QED BY <1>1, <1>3, <1>5, <1>7, <3>1, <3>3 DEF NothingLacks
    <2>3. Counts(degraded)
      <3>1. degraded = 0
        BY <1>5, <1>7
      <3>2. CASE erring = {}
        <4>1. Cardinality(Failures) = 0
          BY <1>3, <3>2, FS_EmptySet
        <4> QED BY <3>1, <4>1 DEF Counts
      <3>3. CASE state = "empty" /\ \E k \in DOMAIN outcome.results : outcome.results[k].count = 0
        BY <1>3, <3>1, <3>3 DEF Counts
      <3>4. CASE state = "empty" /\ ~(\E k \in DOMAIN outcome.results : outcome.results[k].count = 0)
        <4>1. DOMAIN outcome.results = {}
          BY <1>1, <1>5, <3>4
        <4>2. Failures = {}
          BY <4>1 DEF Failures
        <4> QED BY <3>1, <4>2, FS_EmptySet DEF Counts
      <3> QED BY <1>7, <3>2, <3>3, <3>4
    <2>4. PICK told : told = verdict
      OBVIOUS
    <2>5. TellsOfResults(told)
      BY <1>5, <1>7, <2>1, <2>2, <2>3, <2>4 DEF TellsOfResults
    <2> QED BY <1>1, <2>4, <2>5
  <1>8. CASE erring # {} /\ state # "empty"
    <2>1. verdict = [own EXCEPT !.state = "degraded", !.reason = severe,
                       !.degraded = Cardinality(erring), !.empty = spread]
      BY <1>2, <1>6, <1>8
    <2>2. PICK number : number = Cardinality(erring)
      OBVIOUS
    <2>3. verdict = [state |-> "degraded", reason |-> severe, bucket |-> bucket,
                     degraded |-> number, empty |-> spread, evaluated |-> evaluated]
      BY <1>5, <2>1, <2>2
    <2>4. ReasonHolds(severe)
      <3>1. ASSUME NEW e \in erring
            PROVE  /\ Series!ReasonForError(results[e[1]].metrics[e[2]].error) \in Reasons
                   /\ ReasonHolds(Series!ReasonForError(results[e[1]].metrics[e[2]].error))
        <4>1. /\ e[1] \in DOMAIN results /\ e[2] \in request.metrics
              /\ outcome.results[e[1]].metrics[e[2]].error # "none"
          BY <1>1, <1>3
        <4>2. ReasonHolds(Series!ReasonForError(outcome.results[e[1]].metrics[e[2]].error))
          BY <1>4, <4>1 DEF RiskLacks
        <4>3. PICK error : error = results[e[1]].metrics[e[2]].error
          OBVIOUS
        <4>4. Series!ReasonForError(error) \in Reasons
          BY DEF Series!ReasonForError, Reasons
        <4> QED BY <1>1, <4>2, <4>3, <4>4
      <3>2. reasons \subseteq Reasons /\ reasons # {} /\ \A r \in reasons : ReasonHolds(r)
        BY <1>1, <1>8, <3>1
      <3>3. severe = Rolling!MostSevere(reasons)
        BY Zenon, <1>1 DEF Series!MostSevere, Rolling!MostSevere, Series!Rank, Rolling!Rank,
          Series!Precedence, Rolling!Precedence
      <3> QED BY <3>2, <3>3, MostSevereReason
    <2>5. Counts(number)
      BY <1>3, <2>2 DEF Counts
    <2>6. TellsOfResults(verdict)
      BY <2>3, <2>4, <2>5 DEF TellsOfResults
    <2> QED BY <1>1, <2>6
  <1> QED BY <1>7, <1>8

(* What an answer gives is dated, however its labels are clamped (to_return_points,
   normalize_return_points_to_resolved_window). *)
LEMMA AnswersAreDated ==
  ASSUME SoundSeries(request, books), request.mode = "STATEFUL",
         NEW book, book \in {books.portfolio, books.benchmark}, NEW kind,
         NEW points, points = Series!Points(Series!Given(book, kind))
  PROVE  /\ Dated(DOMAIN points)
         /\ Dated(DOMAIN Series!Normalized(points))
  <1>1. PICK last \in Nat : DOMAIN book \subseteq 0 .. last
    BY DEF SoundSeries, Dated
  <1>2. PICK found : /\ found = Series!Daily(IF kind = "outside" THEN book
                                             ELSE Series!Within(book, Series!SourceWindow))
                     /\ DOMAIN found \subseteq 0 .. last
    <2>1. PICK held : held = IF kind = "outside" THEN book ELSE Series!Within(book, Series!SourceWindow)
      OBVIOUS
    <2>2. DOMAIN Series!Within(book, Series!SourceWindow) \subseteq DOMAIN book
      BY DEF Series!Within, Series!Restrict
    <2>3. DOMAIN held \subseteq 0 .. last
      BY <1>1, <2>1, <2>2
    <2>4. DOMAIN Series!Daily(held) = DOMAIN held
      BY DEF Series!Daily
    <2> QED BY <2>1, <2>3, <2>4
  <1>3. Series!Given(book, kind) = found \/ Series!Given(book, kind) = Series!Weekly(found)
    BY <1>2 DEF Series!Given
  <1>4. DOMAIN Series!Weekly(found) \subseteq 0 .. last + 6
    <2>1. DOMAIN Series!Weekly(found) = {Series!Friday(Series!Week(d)) : d \in DOMAIN found}
      BY DEF Series!Weekly
    <2>2. ASSUME NEW d \in DOMAIN found PROVE Series!Friday(Series!Week(d)) \in 0 .. last + 6
      <3>1. d \in Nat /\ d <= last
        BY <1>2
      <3>2. PICK l : l = Series!Friday(Series!Week(d))
        OBVIOUS
      <3>3. l \in Nat /\ l - 6 <= d
        BY <3>1, <3>2, WeeksEnd
      <3>4. l \in 0 .. last + 6
        BY <3>1, <3>3
      <3> QED BY <3>2, <3>4
    <2> QED BY <2>1, <2>2
  <1>5. DOMAIN points \subseteq 0 .. last + 6
    <2>1. DOMAIN points \subseteq DOMAIN Series!Given(book, kind)
      BY DEF Series!Points, Series!Restrict
    <2>2. 0 .. last \subseteq 0 .. last + 6
      OBVIOUS
    <2> QED BY <1>2, <1>3, <1>4, <2>1, <2>2
  <1>6. DOMAIN Series!Normalized(points) \subseteq 0 .. last + 6
    <2>1. PICK end \in Nat : end = Series!SourceWindow.end
      BY WindowCovers
    <2>2. \A l \in DOMAIN points : l \in Nat /\ l <= last + 6
      BY <1>5
    <2>3. DOMAIN Series!Normalized(points) =
            {IF Series!SourceFrequency = "DAILY" \/ l <= end THEN l ELSE end : l \in DOMAIN points}
      BY <2>1 DEF Series!Normalized
    <2>4. ASSUME NEW l \in DOMAIN points, ~(l <= end) PROVE end \in 0 .. last + 6
      <3>1. l \in Nat /\ l <= last + 6 /\ end < l
        BY <2>2, <2>4
      <3> QED BY <3>1
    <2> QED BY <1>5, <2>3, <2>4
  <1>7. last + 6 \in Nat
    OBVIOUS
  <1> QED BY <1>5, <1>6, <1>7 DEF Dated

-----------------------------------------------------------------------------
(* The invariant of a request for risk or drawdowns *)

(* The calls before the rates are asked for. *)
CallsBefore ==
  {"returns"} \cup (IF Series!WantsRates /\ request.currency = None THEN {"snapshot"} ELSE {})

(* What the source says of its answer. *)
Evident(source) == source.missing \in Nat /\ source.freshness \in {"current", "stale"}

DatedSeries(series) == Dated(DOMAIN series.portfolio) /\ Dated(DOMAIN series.benchmark)

(* What is kept of the answer while the rates are awaited. *)
KeptForVerdict ==
  /\ request.service = "risk" /\ Series!WantsRates /\ sent = CallsBefore \cup {"rates"}
  /\ admitted = [portfolio |-> admitted.portfolio, benchmark |-> admitted.benchmark]
  /\ DatedSeries(admitted) /\ Dated(DOMAIN Series!Normalized(admitted.benchmark))
  /\ Evident(returns)

(* The calls that were made are those that are told, and a response tells the series
   that were admitted and the answer they came with. *)
SeriesJudging ==
  /\ SoundSeries(request, books) /\ Ratable(request)
  /\ at \notin {"accepted", "done"} => Series!Stateful
  /\ at # "done" => outcome = Series!Silence
  /\ at = "accepted" => sent = {}
  /\ at = "snapshot" => sent = {"snapshot"} /\ Series!WantsRates /\ request.currency = None
  /\ at = "returns" => sent = CallsBefore
  /\ at = "rates" => KeptForVerdict
  /\ Series!Responded => \E first : Settled(first)

(* The invariant has the property. *)
LEMMA JudgingSuffices == SeriesJudging => Series!RiskIsQualified
  <1> SUFFICES ASSUME SeriesJudging, Series!Responded PROVE Series!RiskIsQualified
    BY DEF Series!RiskIsQualified
  <1>1. PICK first : Settled(first)
    BY DEF SeriesJudging
  <1>2. SoundSeries(request, books) /\ Ratable(request)
    BY DEF SeriesJudging
  <1>3. request.service \in {"risk", "drawdown"}
    BY <1>2 DEF SoundSeries
  <1>4. TellsOfResults(Series!QualificationOf(admitted, outcome.results))
    BY <1>1, <1>2, <1>3, RiskTells, DrawdownTells
  <1> QED BY <1>1, <1>4, SettledSuffices

(* What is asked and what that calls for stands. *)
LEMMA RatableStands ==
  ASSUME UNCHANGED <<request, books>>
  PROVE  /\ SoundSeries(request, books)' <=> SoundSeries(request, books)
         /\ Ratable(request)' <=> Ratable(request)
         /\ Series!WantsRates' <=> Series!WantsRates
         /\ Series!Stateful' <=> Series!Stateful
         /\ CallsBefore' = CallsBefore
  <1>1. Series!WantsRates' <=> Series!WantsRates
    BY DEF Series!WantsRates
  <1>2. CallsBefore' = CallsBefore
    BY <1>1 DEF CallsBefore
  <1> QED BY <1>1, <1>2, SoundSeriesStand DEF Ratable, Series!Stateful

(* An end without a response. *)
LEMMA FailingJudges ==
  ASSUME SeriesJudging, NEW kind \in {"rejected", "invalid", "missing", "upstream"},
         Series!Fail(kind), UNCHANGED <<request, books>>
  PROVE  SeriesJudging'
  <1>1. at' = "done" /\ outcome'.kind # "response"
    BY DEF Series!Fail
  <1> QED BY <1>1, RatableStands DEF SeriesJudging, Series!Responded

(* A response with the series that are admitted. *)
LEMMA RespondingJudges ==
  ASSUME SeriesJudging, UNCHANGED <<request, books>>, NEW series, NEW first, NEW source, NEW lineage,
         Series!Respond(series, first, source, lineage), admitted' = series, sent' = lineage,
         DatedSeries(series), Series!Stateful => returns' = source /\ Evident(source)
  PROVE  SeriesJudging'
  <1>1. PICK results, verdict :
          /\ results = Series!ResultsOf(series, first)
          /\ verdict = IF Series!Stateful
                         THEN Series!Compose(Series!QualificationOf(series, results), source)
                         ELSE Series!QualificationOf(series, results)
    OBVIOUS
  <1>2. /\ at' = "done"
        /\ outcome' = [kind |-> "response", results |-> results, lineage |-> lineage,
                       qualification |-> verdict]
    BY <1>1 DEF Series!Respond
  <1>3. /\ outcome'.results = results /\ outcome'.lineage = lineage
        /\ outcome'.qualification = verdict
    BY <1>2
  <1>4. Series!ResultsOf(admitted, first)' = results
    BY <1>1 DEF Series!ResultsOf
  <1>5. Series!QualificationOf(admitted, outcome.results)' = Series!QualificationOf(series, results)
    BY <1>3 DEF Series!QualificationOf
  <1>6. Series!Stateful =>
          Series!Compose(Series!QualificationOf(admitted, outcome.results), returns)' =
            Series!Compose(Series!QualificationOf(series, results), source)
    BY <1>5
  <1>7. Dated(DOMAIN admitted'.portfolio) /\ Dated(DOMAIN admitted'.benchmark)
    BY DEF DatedSeries
  <1>8. Settled(first)'
    BY <1>1, <1>3, <1>4, <1>5, <1>6, <1>7, RatableStands DEF Settled, Evident
  <1> QED BY <1>2, <1>8, RatableStands DEF SeriesJudging

(* An end of a stateful request with the series that are admitted: it tells the calls
   that were made (_attach_stateful_risk_lineage). *)
LEMMA FinishingJudges ==
  ASSUME SeriesJudging, UNCHANGED <<request, books>>, NEW series, NEW source,
         Series!Finish(series, source), admitted' = series, returns' = source,
         sent' = CallsBefore \cup (IF Series!WantsRates THEN {"rates"} ELSE {}),
         DatedSeries(series), Evident(source)
  PROVE  SeriesJudging'
  <1>1. PICK first, lineage :
          /\ first = Series!Earliest(DOMAIN series.portfolio)
          /\ lineage = {"returns"} \cup (IF Series!WantsRates THEN {"rates"} ELSE {})
                         \cup (IF Series!WantsRates /\ request.currency = None THEN {"snapshot"} ELSE {})
    OBVIOUS
  <1>2. Series!Respond(series, first, source, lineage)
    BY <1>1 DEF Series!Finish
  <1>3. sent' = lineage
    BY <1>1 DEF CallsBefore
  <1> QED BY <1>2, <1>3, RespondingJudges

(* The end of a request for risk, once the benchmark has been looked at. *)
LEMMA FinishingRiskJudges ==
  ASSUME SeriesJudging, UNCHANGED <<request, books>>, NEW series, NEW source,
         Series!FinishRisk(series, source), returns' = source,
         sent' = CallsBefore \cup (IF Series!WantsRates THEN {"rates"} ELSE {}),
         series = [portfolio |-> series.portfolio, benchmark |-> series.benchmark],
         DatedSeries(series), Dated(DOMAIN Series!Normalized(series.benchmark)), Evident(source)
  PROVE  SeriesJudging'
  <1>1. CASE ~Series!AllOverlap(series.benchmark)
    <2>1. Series!Fail("invalid")
      BY <1>1 DEF Series!FinishRisk
    <2> QED BY <2>1, FailingJudges
  <1>2. CASE Series!AllOverlap(series.benchmark)
    <2>1. PICK normal : normal = [series EXCEPT !.benchmark = Series!Normalized(@)]
      OBVIOUS
    <2>2. admitted' = normal /\ Series!Finish(normal, source)
      BY <1>2, <2>1 DEF Series!FinishRisk
    <2>3. DatedSeries(normal)
      <3>1. normal = [portfolio |-> series.portfolio, benchmark |-> Series!Normalized(series.benchmark)]
        BY <2>1
      <3> QED BY <3>1 DEF DatedSeries
    <2> QED BY <2>2, <2>3, FinishingJudges
  <1> QED BY <1>1, <1>2

(* A step that awaits another call. *)
LEMMA AskingJudges ==
  ASSUME SeriesJudging, UNCHANGED <<request, books>>, outcome' = Series!Silence, Series!Stateful,
         \/ at' = "returns" /\ sent' = CallsBefore
         \/ /\ at' = "snapshot" /\ sent' = {"snapshot"}
            /\ Series!WantsRates /\ request.currency = None
         \/ at' = "rates" /\ KeptForVerdict'
  PROVE  SeriesJudging'
  BY RatableStands DEF SeriesJudging, Series!Responded, Series!Silence

(* It stands as long as its variables do. *)
LEMMA JudgingStands ==
  ASSUME SeriesJudging, UNCHANGED <<request, books, at, outcome, returns, admitted, sent>>
  PROVE  SeriesJudging'
  <1>1. /\ Series!SourceWindow' = Series!SourceWindow
        /\ Series!SourceFrequency' = Series!SourceFrequency
    BY DEF Series!SourceWindow, Series!Inception, Series!SourceFrequency
  <1>2. KeptForVerdict => KeptForVerdict'
    <2>1. Series!Normalized(admitted.benchmark)' = Series!Normalized(admitted.benchmark)
      BY <1>1 DEF Series!Normalized
    <2>2. Dated(DOMAIN Series!Normalized(admitted.benchmark))' <=> Dated(DOMAIN Series!Normalized(admitted.benchmark))
      BY <2>1 DEF Dated
    <2>3. (DatedSeries(admitted)' <=> DatedSeries(admitted)) /\ (Evident(returns)' <=> Evident(returns))
      BY DEF DatedSeries, Evident, Dated
    <2> QED BY <2>2, <2>3, RatableStands DEF KeptForVerdict
  <1>3. ASSUME NEW first, Settled(first) PROVE Settled(first)'
    <2>1. Series!ResultsOf(admitted, first)' = Series!ResultsOf(admitted, first)
      BY DEF Series!ResultsOf
    <2>2. Series!QualificationOf(admitted, outcome.results)' = Series!QualificationOf(admitted, outcome.results)
      BY DEF Series!QualificationOf
    <2>3. Series!Compose(Series!QualificationOf(admitted, outcome.results), returns)'
            = Series!Compose(Series!QualificationOf(admitted, outcome.results), returns)
      BY <2>2
    <2> QED BY <1>3, <2>1, <2>2, <2>3, RatableStands DEF Settled, Dated
  <1> QED BY <1>2, <1>3, RatableStands DEF SeriesJudging, Series!Responded

(* Every step of the handler keeps it. *)
LEMMA JudgingSteps == SeriesJudging /\ Series!Next => SeriesJudging'
  <1> SUFFICES ASSUME SeriesJudging, Series!Next PROVE SeriesJudging'
    OBVIOUS
  <1>0. SoundSeries(request, books) /\ Ratable(request)
    BY DEF SeriesJudging
  <1>1. CASE Series!Accept
    <2>1. PICK series, source, lineage, first :
            /\ series = [portfolio |-> Series!Daily(books.portfolio),
                         benchmark |-> Series!Daily(books.benchmark)]
            /\ source = Series!Silence /\ lineage = {} /\ first = request.open
      OBVIOUS
    <2>2. /\ ~Series!Stateful /\ UNCHANGED <<request, books>> /\ at = "accepted"
          /\ admitted' = series /\ Series!Respond(series, first, source, lineage) /\ sent' = sent
      BY <1>1, <2>1 DEF Series!Accept
    <2>3. sent' = lineage
      BY <2>1, <2>2 DEF SeriesJudging
    <2>4. DatedSeries(series)
      <3>1. DOMAIN series.portfolio = DOMAIN books.portfolio /\ DOMAIN series.benchmark = DOMAIN books.benchmark
        BY <2>1 DEF Series!Daily
      <3>2. Dated(DOMAIN books.portfolio) /\ Dated(DOMAIN books.benchmark)
        BY <1>0 DEF SoundSeries
      <3> QED BY <3>1, <3>2 DEF DatedSeries
    <2> QED BY <2>2, <2>3, <2>4, RespondingJudges
  <1>2. CASE Series!Start
    <2>1. /\ at = "accepted" /\ Series!Stateful /\ UNCHANGED <<request, books>> /\ sent = {}
          /\ outcome = Series!Silence
      BY <1>2 DEF Series!Start, SeriesJudging
    <2>2. CASE request.currency # None \/ ~Series!WantsRates
      <3>1. Series!AskReturns(request.currency)
        BY <1>2, <2>2 DEF Series!Start
      <3>2. at' = "returns" /\ sent' = {"returns"} /\ outcome' = Series!Silence
        BY <2>1, <3>1 DEF Series!AskReturns
      <3>3. CallsBefore = {"returns"}
        BY <2>2 DEF CallsBefore
      <3> QED BY <2>1, <3>2, <3>3, AskingJudges
    <2>3. CASE ~(request.currency # None \/ ~Series!WantsRates)
      <3>1. at' = "snapshot" /\ sent' = {"snapshot"} /\ outcome' = Series!Silence
        BY <1>2, <2>1, <2>3 DEF Series!Start
      <3> QED BY <2>1, <2>3, <3>1, AskingJudges
    <2> QED BY <2>2, <2>3
  <1>3. CASE Series!TakeSnapshot
    <2>1. /\ at = "snapshot" /\ Series!Stateful /\ UNCHANGED <<request, books>>
          /\ sent = {"snapshot"} /\ Series!WantsRates /\ request.currency = None
          /\ outcome = Series!Silence
      BY <1>3 DEF Series!TakeSnapshot, SeriesJudging
    <2>2. CASE \E kind \in {"upstream", "invalid"} : Series!Fail(kind)
      BY <2>1, <2>2, FailingJudges
    <2>3. CASE \E resolved : Series!AskReturns(resolved)
      <3>1. at' = "returns" /\ sent' = {"snapshot", "returns"} /\ outcome' = Series!Silence
        BY <2>1, <2>3 DEF Series!AskReturns
      <3>2. CallsBefore = {"snapshot", "returns"}
        BY <2>1 DEF CallsBefore
      <3> QED BY <2>1, <3>1, <3>2, AskingJudges
    <2> QED BY <1>3, <2>2, <2>3 DEF Series!TakeSnapshot
  <1>4. CASE Series!TakeReturns
    <2>1. /\ at = "returns" /\ request.mode = "STATEFUL" /\ UNCHANGED <<request, books>>
          /\ sent = CallsBefore /\ outcome = Series!Silence /\ Series!Stateful
      BY <1>4 DEF Series!TakeReturns, SeriesJudging, Series!Stateful
    <2> DEFINE portfolio(kind) == Series!Points(Series!Given(books.portfolio, kind))
               benchmark(kind) == IF Series!WantsBenchmark
                                    THEN Series!Points(Series!Given(books.benchmark, kind))
                                    ELSE Series!Nobody
               series(kind) == [portfolio |-> IF request.service = "risk"
                                                THEN Series!Normalized(portfolio(kind)) ELSE portfolio(kind),
                                benchmark |-> benchmark(kind)]
               refusal(kind) == IF request.service = "risk" THEN Series!RiskRefusal(kind, portfolio(kind))
                                ELSE Series!DrawdownRefusal(kind, portfolio(kind), benchmark(kind))
    <2>2. PICK kind \in Series!Kinds :
            /\ returns' = Series!Evidence(kind)
            /\ \/ kind = "failed" /\ Series!Fail("upstream") /\ UNCHANGED <<admitted, sent>>
               \/ kind = "malformed" /\ Series!Fail("invalid") /\ UNCHANGED <<admitted, sent>>
               \/ /\ kind \notin {"failed", "malformed"} /\ refusal(kind) # "none"
                  /\ Series!Fail(refusal(kind)) /\ UNCHANGED <<admitted, sent>>
               \/ /\ kind \notin {"failed", "malformed"} /\ refusal(kind) = "none" /\ Series!WantsRates
                  /\ at' = "rates" /\ sent' = sent \cup {"rates"}
                  /\ admitted' = series(kind) /\ UNCHANGED outcome
               \/ /\ kind \notin {"failed", "malformed"} /\ refusal(kind) = "none" /\ ~Series!WantsRates
                  /\ UNCHANGED sent
                  /\ IF request.service = "risk" THEN Series!FinishRisk(series(kind), Series!Evidence(kind))
                     ELSE admitted' = series(kind) /\ Series!Finish(series(kind), Series!Evidence(kind))
      BY <1>4 DEF Series!TakeReturns
    <2>3. refusal(kind) \in {"none", "rejected", "invalid", "missing"}
      BY DEF Series!RiskRefusal, Series!DrawdownRefusal
    <2>4. PICK have, source, refused :
            have = series(kind) /\ source = Series!Evidence(kind) /\ refused = refusal(kind)
      OBVIOUS
    <2>5. have = [portfolio |-> have.portfolio, benchmark |-> have.benchmark]
      BY <2>4
    <2>6. DatedSeries(have) /\ Dated(DOMAIN Series!Normalized(have.benchmark))
      <3>1. PICK mine : mine = portfolio(kind)
        OBVIOUS
      <3>2. Dated(DOMAIN mine) /\ Dated(DOMAIN Series!Normalized(mine))
        BY <1>0, <2>1, <3>1, AnswersAreDated
      <3>3. have.portfolio = mine \/ have.portfolio = Series!Normalized(mine)
        BY <2>4, <3>1
      <3>4. PICK other : other = have.benchmark
        OBVIOUS
      <3>5. CASE Series!WantsBenchmark
        <4>1. other = Series!Points(Series!Given(books.benchmark, kind))
          BY <2>4, <3>4, <3>5
        <4>2. Dated(DOMAIN other) /\ Dated(DOMAIN Series!Normalized(other))
          BY <1>0, <2>1, <4>1, AnswersAreDated
        <4> QED BY <3>2, <3>3, <3>4, <4>2 DEF DatedSeries
      <3>6. CASE ~Series!WantsBenchmark
        <4>1. DOMAIN other = {}
          BY <2>4, <3>4, <3>6 DEF Series!Nobody
        <4>2. DOMAIN Series!Normalized(other) = {}
          BY <4>1 DEF Series!Normalized
        <4>3. Dated({})
          BY DEF Dated
        <4> QED BY <3>2, <3>3, <3>4, <4>1, <4>2, <4>3 DEF DatedSeries
      <3> QED BY <3>5, <3>6
    <2>7. Evident(source)
      BY <2>4 DEF Evident, Series!Evidence
    <2>8. returns' = source
      BY <2>2, <2>4
    <2> HIDE DEF refusal, series, portfolio, benchmark
    <2>9. CASE \E ending \in {"rejected", "invalid", "missing", "upstream"} : Series!Fail(ending)
      BY <2>1, <2>9, FailingJudges
    <2>10. CASE Series!WantsRates /\ at' = "rates" /\ sent' = sent \cup {"rates"}
                /\ admitted' = have /\ UNCHANGED outcome
      <3>1. KeptForVerdict'
        <4>1. request.service = "risk"
          BY <2>10 DEF Series!WantsRates
        <4>2. Series!Normalized(admitted.benchmark)' = Series!Normalized(have.benchmark)
          <5>1. /\ Series!SourceWindow' = Series!SourceWindow
                /\ Series!SourceFrequency' = Series!SourceFrequency
            BY <2>1 DEF Series!SourceWindow, Series!Inception, Series!SourceFrequency
          <5> QED BY <2>10, <5>1 DEF Series!Normalized
        <4>3. DatedSeries(admitted)' /\ Evident(returns)'
          BY <2>6, <2>7, <2>8, <2>10 DEF DatedSeries, Evident
        <4>4. sent' = CallsBefore' \cup {"rates"} /\ Series!WantsRates'
          BY <2>1, <2>10, RatableStands
        <4>5. admitted' = [portfolio |-> admitted'.portfolio, benchmark |-> admitted'.benchmark]
          BY <2>5, <2>10
        <4>6. Dated(DOMAIN Series!Normalized(admitted.benchmark))'
          BY <2>6, <4>2 DEF Dated
        <4> QED BY <2>1, <4>1, <4>3, <4>4, <4>5, <4>6 DEF KeptForVerdict
      <3> QED BY <2>1, <2>10, <3>1, AskingJudges
    <2>11. CASE ~Series!WantsRates /\ UNCHANGED sent /\ Series!FinishRisk(have, source)
      <3>1. sent' = CallsBefore \cup (IF Series!WantsRates THEN {"rates"} ELSE {})
        BY <2>1, <2>11
      <3> QED BY <2>1, <2>5, <2>6, <2>7, <2>8, <2>11, <3>1, FinishingRiskJudges
    <2>12. CASE ~Series!WantsRates /\ UNCHANGED sent /\ admitted' = have /\ Series!Finish(have, source)
      <3>1. sent' = CallsBefore \cup (IF Series!WantsRates THEN {"rates"} ELSE {})
        BY <2>1, <2>12
      <3> QED BY <2>1, <2>6, <2>7, <2>8, <2>12, <3>1, FinishingJudges
    <2> QED BY <2>2, <2>3, <2>4, <2>9, <2>10, <2>11, <2>12
  <1>5. CASE Series!TakeRates
    <2>1. at = "rates" /\ UNCHANGED <<request, books, currency, returns, sent>> /\ KeptForVerdict
      BY <1>5 DEF Series!TakeRates, SeriesJudging
    <2>2. CASE \E ending \in {"rejected", "invalid", "missing", "upstream"} : Series!Fail(ending)
      BY <2>1, <2>2, FailingJudges
    <2>3. CASE Series!FinishRisk(admitted, returns)
      <3>1. PICK have, source : have = admitted /\ source = returns
        OBVIOUS
      <3>2. sent' = CallsBefore \cup (IF Series!WantsRates THEN {"rates"} ELSE {})
        BY <2>1 DEF KeptForVerdict
      <3>3. /\ have = [portfolio |-> have.portfolio, benchmark |-> have.benchmark]
            /\ DatedSeries(have) /\ Dated(DOMAIN Series!Normalized(have.benchmark)) /\ Evident(source)
        BY <2>1, <3>1 DEF KeptForVerdict
      <3>4. Series!FinishRisk(have, source) /\ returns' = source
        BY <2>1, <2>3, <3>1
      <3> QED BY <2>1, <3>2, <3>3, <3>4, FinishingRiskJudges
    <2>4. PICK kind \in {"none", "failed", "malformed", "date", "empty"} :
            /\ rates' = IF kind = "none" THEN currency ELSE None
            /\ CASE kind = "failed" -> Series!Fail("upstream") /\ UNCHANGED admitted
                 [] kind # "failed" /\ ~Series!AllOverlap(admitted.benchmark)
                      -> Series!Fail("invalid") /\ UNCHANGED admitted
                 [] kind = "none" /\ Series!AllOverlap(admitted.benchmark)
                      -> Series!FinishRisk(admitted, returns)
                 [] OTHER -> /\ UNCHANGED admitted
                             /\ Series!Fail(CASE kind = "malformed" -> "invalid"
                                              [] kind = "date" -> "rejected"
                                              [] kind = "empty" -> "missing")
      BY <1>5 DEF Series!TakeRates
    <2> QED BY <2>2, <2>3, <2>4
  <1>6. CASE Series!Rest
    BY <1>6, JudgingStands DEF Series!Rest, Series!vars
  <1> QED BY <1>1, <1>2, <1>3, <1>4, <1>5, <1>6 DEF Series!Next

(* A request that has been accepted tells nothing yet and has made no call. *)
LEMMA AcceptedJudges ==
  SeriesAccepted /\ SoundSeries(request, books) /\ Ratable(request) /\ sent = {} => SeriesJudging
  BY DEF SeriesAccepted, SeriesJudging, Series!Responded, Series!Silence

(* The worlds that are checked begin so. *)
LEMMA JudgingInit == Series!Init => SeriesJudging
  BY SeriesWorldsAreSound, AcceptedJudges DEF Series!Init, SeriesAccepted

-----------------------------------------------------------------------------
(* Any request *)

(* What responses for rolling metrics, risk and drawdowns say of themselves. *)
ToldInv == JudgedInv /\ (calculator = "series" => SeriesJudging)

(* It holds of every request at first. *)
LEMMA ToldInit == AnyInit => ToldInv
  BY JudgedInit, JudgingInit DEF AnyInit, ToldInv

(* Every step of any calculator keeps it. *)
LEMMA ToldSteps == ToldInv /\ [AnyNext]_everything => ToldInv'
  <1> SUFFICES ASSUME ToldInv, [AnyNext]_everything PROVE ToldInv'
    OBVIOUS
  <1>1. JudgedInv'
    BY JudgedSteps DEF ToldInv
  <1>2. CASE ASeriesStep
    <2>1. calculator = "series" /\ calculator' = "series" /\ Series!Next
      BY <1>2 DEF ASeriesStep
    <2> QED BY <1>1, <2>1, JudgingSteps DEF ToldInv
  <1>3. CASE UNCHANGED calculator /\ calculator # "series"
    BY <1>1, <1>3 DEF ToldInv
  <1>4. CASE UNCHANGED everything
    <2>1. UNCHANGED <<calculator, request, books, at, outcome, returns, admitted, sent>>
      BY <1>4 DEF everything, requestVars, rollingVars, seriesVars
    <2> QED BY <1>1, <2>1, JudgingStands DEF ToldInv
  <1>5. AnObservation \/ ARollingStep \/ AnAttributionStep \/ AConcentrationStep \/ AProductStep =>
          UNCHANGED calculator /\ calculator # "series"
    BY DEF AnObservation, ARollingStep, AnAttributionStep, AConcentrationStep, AProductStep
  <1> QED BY <1>2, <1>3, <1>4, <1>5 DEF AnyNext, NoMore

(* The invariant has the property. *)
LEMMA ToldSuffices == ToldInv => QualificationIsHonest
  BY JudgedSuffices, JudgingSuffices DEF ToldInv, QualificationIsHonest

(* "ready" is said only of a source that is fresh and whole, and of periods that have
   what each metric or drawdown needs; what the source says is merged with what the
   calculation found, the most severe first; what failed is counted;
   the reason for anything less than "ready" is a fact of the books or of the source;
   and a response for risk or drawdowns names the calls that were made for it, no more
   and no less (calculation_supportability.py, supportability_periods.py,
   _attach_stateful_risk_lineage). *)
THEOREM ResponsesAreQualified == AnySpec => []QualificationIsHonest
  BY ToldInit, ToldSteps, ToldSuffices, PTL DEF AnySpec

(* So is a response to any sound request for rolling metrics, risk or drawdowns,
   whatever its days, periods, windows, metrics and books. *)
THEOREM EveryResponseIsQualified ==
  /\ SoundSpec /\ Countable(request) => []QualificationIsHonest
  /\ SoundSeriesSpec /\ sent = {} /\ Ratable(request) => []QualificationIsHonest
  <1>1. calculator = "rolling" /\ Accepted /\ Sound(request, books) /\ Countable(request) => ToldInv
    BY AcceptedTells, AcceptedServes, AcceptedQualifies DEF BooksInv, CurrencyInv, JudgedInv, ToldInv
  <1>2. calculator = "series" /\ SeriesAccepted /\ SoundSeries(request, books)
          /\ sent = {} /\ Ratable(request) => ToldInv
    <2>1. calculator = "series" /\ SeriesAccepted => CurrencyInv
      BY DEF SeriesAccepted, CurrencyInv, SeriesInv, Series!OneCurrency, Series!Responded, Series!Silence
    <2> QED BY <2>1, AcceptedJudges DEF BooksInv, JudgedInv, ToldInv
  <1>3. SoundSpec /\ Countable(request) => []QualificationIsHonest
    BY <1>1, ToldSteps, ToldSuffices, PTL DEF SoundSpec
  <1>4. SoundSeriesSpec /\ sent = {} /\ Ratable(request) => []QualificationIsHonest
    BY <1>2, ToldSteps, ToldSuffices, PTL DEF SoundSeriesSpec
  <1> QED BY <1>3, <1>4
=============================================================================
