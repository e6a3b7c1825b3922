---------------------------- MODULE RollingWorlds ----------------------------
(***************************************************************************)
(* Requests for rolling metrics, with the books behind them: a Thursday    *)
(* and a Friday (3 and 4), the Saturday (5) and the Monday (7) after them, *)
(* asked about on the Monday or two days later.                            *)
(***************************************************************************)
EXTENDS Integers

CONSTANT None

NoReturns == [d \in {} |-> 0]

Series(days) == UNION {[some -> {0, 1}] : some \in SUBSET days}

(* Series of a dependency: with no day, with one, with two and with all. *)
Dependencies ==
  {NoReturns, [d \in {4} |-> 1], [d \in {3, 7} |-> IF d = 3 THEN 0 ELSE 1],
   [d \in {3, 4, 7} |-> 0]}

PeriodSets ==
  {[P |-> [type |-> "SI"]],
   [P |-> [type |-> "EXPLICIT", from |-> 4, to |-> 7]],
   [P |-> [type |-> "TO_DATE", from |-> 3], Q |-> [type |-> "EXPLICIT", from |-> 4, to |-> 5]],
   [P |-> [type |-> "SI"], Q |-> [type |-> "EXPLICIT", from |-> 3, to |-> 4]]}

(* Metrics with the dependencies they have to be tried with. *)
WithoutRates ==
  {<<{"ROLLING_VOLATILITY"}, {NoReturns}, {NoReturns}>>,
   <<{"ROLLING_MAX_DRAWDOWN", "ROLLING_TRACKING_ERROR", "ROLLING_BETA"}, Dependencies, {NoReturns}>>}

WithRates == {<<{"ROLLING_SHARPE"}, {NoReturns}, Dependencies>>}

EachMetric ==
  WithoutRates \cup WithRates \cup
  {<<{"ROLLING_INFORMATION_RATIO"}, Dependencies, {NoReturns}>>,
   <<{"ROLLING_BETA", "ROLLING_SHARPE"}, {[d \in {3, 4} |-> d]}, Dependencies>>}

WorldsOf(mode, choices, portfolios, policies, askedFor) ==
  UNION {
    {[request |-> [mode |-> mode, metrics |-> choice[1], periods |-> periods,
                   windows |-> {2, 3}, policy |-> policy, asOf |-> asOf,
                   timeSeries |-> asOf = 7, currency |-> asked],
      books |-> [portfolio |-> portfolio, benchmark |-> benchmark, riskFree |-> riskFree]] :
       periods \in PeriodSets, policy \in policies, asOf \in {7, 9}, asked \in askedFor,
       portfolio \in portfolios, benchmark \in choice[2], riskFree \in choice[3]} :
    choice \in choices}

(* Nothing on the Thursday. *)
MostSeries == {s \in Series({3, 4, 5, 7}) : 3 \in DOMAIN s => s[3] = 0}

SomeSeries ==
  {s \in MostSeries : /\ 4 \in DOMAIN s => s[4] = 1
                      /\ 5 \in DOMAIN s => 3 \notin DOMAIN s /\ s[5] = 1}

Worlds ==
  WorldsOf("STATELESS", EachMetric, MostSeries, {"STRICT", "ALLOW_PARTIAL"}, {None})
  \cup WorldsOf("STATEFUL", WithoutRates, SomeSeries, {"ALLOW_PARTIAL"}, {"USD"})
  \cup WorldsOf("STATEFUL", WithRates, SomeSeries, {"ALLOW_PARTIAL"}, {None, "USD"})
=============================================================================
