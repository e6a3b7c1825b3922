---------------------------- MODULE SeriesWorlds ----------------------------
(***************************************************************************)
(* Requests to risk/calculate and risk/drawdown, with the books behind     *)
(* them, for the model checker: a Thursday and a Friday (3 and 4), the     *)
(* Monday after them (7) and the one after that (14), so that a week may   *)
(* be without an observation, and now and then the Saturday between (5).   *)
(***************************************************************************)
EXTENDS Integers

CONSTANT None

NoReturns == [d \in {} |-> 0]

Earliest(days) == CHOOSE d \in days : \A e \in days : d <= e

(* The first day nothing and the others something; then days that are all the
   same, and days that begin with a total loss. *)
Portfolios(days) ==
  (UNION {{s \in [some -> {-1, 0, 1}] : \A d \in some : s[d] = 0 <=> d = Earliest(some)} :
            some \in SUBSET days})
  \cup {[d \in {3, 4, 7} |-> 1], [d \in {3, 4} |-> d - 5], [d \in {4, 7} |-> d - 6]}

SomeBenchmarks ==
  {NoReturns, [d \in {4} |-> 1], [d \in {3, 7, 14} |-> IF d = 7 THEN -1 ELSE 1]}

Benchmarks ==
  SomeBenchmarks \cup
  {[d \in {3, 4, 7} |-> 0], [d \in {3, 4, 14} |-> IF d = 14 THEN -2 ELSE 1]}

Explicit(from, to) == [type |-> "EXPLICIT", from |-> from, to |-> to]

OnePeriod == {[P |-> [type |-> "SI"]], [P |-> Explicit(3, 7)]}

TwoPeriods ==
  {[P |-> [type |-> "TO_DATE", from |-> 3], Q |-> Explicit(7, 9)],
   [P |-> [type |-> "SI"], Q |-> Explicit(0, 2)]}

Methods == {"HISTORICAL", "CORNISH_FISHER"}

(* Metrics with the benchmarks, methods and currencies to be tried with them. *)
Choice(metrics, benchmarks, methods, currencies) ==
  [metrics |-> metrics, benchmarks |-> benchmarks, methods |-> methods, currencies |-> currencies]

Choices(benchmarks) ==
  {Choice({"VOLATILITY", "VAR", "DRAWDOWN"}, {NoReturns}, Methods, {None}),
   Choice({"SHARPE", "SORTINO"}, {NoReturns}, {"HISTORICAL"}, {None, "USD"}),
   Choice({"BETA", "INFORMATION_RATIO", "VOLATILITY"}, benchmarks, {"HISTORICAL"}, {None}),
   Choice({"TRACKING_ERROR", "SHARPE"}, benchmarks, {"HISTORICAL"}, {"USD"})}

Samplings == {<<"DAILY", FALSE>>, <<"WEEKLY", FALSE>>, <<"WEEKLY", TRUE>>}

Books(portfolio, benchmark) == [portfolio |-> portfolio, benchmark |-> benchmark]

RiskWorlds(mode, choices, periodSets, portfolios, asOfs, opens) ==
  UNION {
    {[request |-> [service |-> "risk", mode |-> mode, metrics |-> choice.metrics,
                   periods |-> periods, frequency |-> sampling[1], log |-> sampling[2],
                   method |-> method, asOf |-> asOf, open |-> open, currency |-> currency],
      books   |-> Books(portfolio, benchmark)] :
       periods \in periodSets, sampling \in Samplings, method \in choice.methods,
       asOf \in asOfs, open \in opens, currency \in choice.currencies,
       portfolio \in portfolios, benchmark \in choice.benchmarks} :
    choice \in choices}

DrawdownWorlds ==
  {[request |-> [service |-> "drawdown", mode |-> mode, metrics |-> {}, periods |-> periods,
                 include |-> policy[1], missing |-> policy[2], asOf |-> asOf, open |-> 0,
                 frequency |-> "DAILY", currency |-> None],
    books   |-> Books(portfolio, benchmark)] :
     mode \in {"STATELESS", "STATEFUL"}, periods \in OnePeriod \cup TwoPeriods,
     policy \in {<<FALSE, "IGNORE">>, <<TRUE, "IGNORE">>, <<TRUE, "REQUIRE">>}, asOf \in {7, 9},
     portfolio \in {[d \in some |-> d - 5] : some \in SUBSET {3, 5, 7}},
     benchmark \in Benchmarks}

Worlds ==
  RiskWorlds("STATELESS", Choices(Benchmarks), OnePeriod \cup TwoPeriods, Portfolios({3, 4, 7}), {9}, {0, 4})
  \cup RiskWorlds("STATELESS", Choices(Benchmarks), OnePeriod, Portfolios({3, 4, 7, 14}), {15}, {0})
  \cup RiskWorlds("STATEFUL", Choices(SomeBenchmarks), OnePeriod \cup TwoPeriods,
         {s \in Portfolios({3, 4, 7, 14}) : 7 \in DOMAIN s => s[7] <= 0}, {7, 15}, {0})
  \cup DrawdownWorlds
=============================================================================
