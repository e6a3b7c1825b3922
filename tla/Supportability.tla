--------------------------- MODULE Supportability ---------------------------
(***************************************************************************)
(* How a calculation qualifies its own result                              *)
(* (src/src/app/services/calculation_supportability.py and                 *)
(* supportability_periods.py): from the results of its periods, from the   *)
(* age of its observations, and from what the producer of the returns says *)
(* of them.                                                                *)
(*                                                                         *)
(* Of a period's result it reads the records that Rolling makes: count,    *)
(* error, and the contexts benchmark and riskFree.                         *)
(***************************************************************************)
EXTENDS Integers, FiniteSets, Sequences

(* _SUPPORTABILITY_REASON_PRECEDENCE, most severe first. *)
Precedence ==
  <<"permission_blocked", "unsupported_input_mode", "no_return_observations",
    "benchmark_unavailable", "insufficient_aligned_observations",
    "insufficient_observations", "group_return_series_unavailable",
    "stale_source_observations", "calculation_quality_issue">>

Rank(reason) == CHOOSE i \in DOMAIN Precedence : Precedence[i] = reason

(* select_supportability_reason of some reasons, all of them ranked. *)
MostSevere(reasons) ==
  CHOOSE reason \in reasons : \A other \in reasons : Rank(reason) <= Rank(other)

(* supportability_reason_for_error *)
ReasonForError(error) ==
  CASE error \in {"BENCHMARK_UNAVAILABLE",
                  "Benchmark returns required for benchmark-dependent metric"}
            -> "benchmark_unavailable"
    [] error \in {"NO_ALIGNED_OBSERVATIONS", "Insufficient aligned observations"}
            -> "insufficient_aligned_observations"
    [] error = "Insufficient data" -> "insufficient_observations"
    [] OTHER -> "calculation_quality_issue"

-----------------------------------------------------------------------------
(* Periods *)

(* What is wrong with a dependency, by its context: nothing or one reason. *)
Lack(context) ==
  IF ~context.requested THEN {}
  ELSE IF ~context.available THEN {ReasonForError(context.reason)}
  ELSE IF ~context.aligned THEN {"insufficient_aligned_observations"}
  ELSE {}

(* _dependency_degradation_reason *)
DependencyLack(result) ==
  IF Lack(result.benchmark) # {} THEN Lack(result.benchmark) ELSE Lack(result.riskFree)

Degradation(result) ==
  IF result.error # "none" THEN {ReasonForError(result.error)} ELSE DependencyLack(result)

(* assess_period_results *)
Assessment(results) ==
  LET names == DOMAIN results IN
  [reasons  |-> UNION {Degradation(results[k]) : k \in names},
   degraded |-> Cardinality({k \in names : Degradation(results[k]) # {}}),
   empty    |-> Cardinality({k \in names : results[k].count = 0})]

(* Mutant: two days count as one. *)
WithinTwoDays(age) == age <= 2

WithinADay(age) == age <= 1

(* freshness_bucket_from_returns, by the days of all returns. *)
Freshness(days, asOf) ==
  LET age == asOf - (CHOOSE d \in days : \A e \in days : e <= d) IN
  CASE days = {}                   -> "unknown"
    [] days # {} /\ age <= 0       -> "current"
    [] days # {} /\ age > 0        -> IF WithinADay(age) THEN "same_day" ELSE "stale"

(* supportability_from_period_results, period_results_supportability_state *)
OfPeriods(days, asOf, results) ==
  LET bucket == Freshness(days, asOf)
      found  == Assessment(results)
      verdict(state, reason, degraded, empty) ==
        [state |-> state, reason |-> reason, bucket |-> bucket,
         degraded |-> degraded, empty |-> empty,
         evaluated |-> Cardinality(DOMAIN results)]
  IN CASE days = {}           -> verdict("empty", "no_return_observations", 0, 0)
       [] days # {} /\ found.degraded > 0
            -> verdict("degraded", MostSevere(found.reasons), found.degraded, found.empty)
       [] days # {} /\ found.degraded = 0 /\ found.empty > 0
            -> verdict("empty", "insufficient_observations", 0, found.empty)
       [] OTHER -> IF bucket = "stale"
                     THEN verdict("stale", "stale_source_observations", 0, 0)
                     ELSE verdict("ready", "calculation_complete", 0, 0)

-----------------------------------------------------------------------------
(* What the producer of the returns says of them *)

SourceReasons(evidence) ==
  (IF evidence.missing > 0 THEN {"calculation_quality_issue"} ELSE {})
  \cup (IF evidence.freshness = "stale" THEN {"stale_source_observations"} ELSE {})

(* compose_returns_source_supportability *)
Compose(calculation, evidence) ==
  LET source == SourceReasons(evidence)
      all    == source \cup (IF calculation.state # "ready" THEN {calculation.reason} ELSE {})
      reason == MostSevere(all)
  IN IF source = {} THEN calculation
     ELSE [calculation EXCEPT
             !.state  = IF reason = calculation.reason THEN calculation.state
                        ELSE IF reason = "stale_source_observations" THEN "stale"
                        ELSE "degraded",
             !.reason = reason,
             !.bucket = IF evidence.freshness = "stale" THEN "stale" ELSE calculation.bucket]
=============================================================================
