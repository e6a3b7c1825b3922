-------------------------- MODULE AttributionWorlds --------------------------
(***************************************************************************)
(* Requests for historical attribution, each with the books of the         *)
(* upstreams, for the model checker: a Thursday and a Friday (3 and 4),    *)
(* the Saturday (5) and the Monday (7) after them, and two securities of   *)
(* two sectors.  A whole portfolio weighs 2.                               *)
(***************************************************************************)
EXTENDS Integers, Sequences

CONSTANTS Unknown, Unclassified, None, Foreign

Nobody == [k \in {} |-> 0]

Business == {3, 4, 7}

-----------------------------------------------------------------------------
(* The books of a portfolio that has gained 1, 1 and lost 1, and of a
   benchmark that has gained 1, nothing and 1. *)

Gained == [d \in Business |-> IF d = 7 THEN -1 ELSE 1]

BenchmarkGained == [d \in Business |-> IF d = 4 THEN 0 ELSE 1]

Share(weight, return, otherWeight, otherReturn) ==
  [weight |-> weight, return |-> return, otherWeight |-> otherWeight, otherReturn |-> otherReturn]

FirstShares ==
  [d \in Business \cup {5} |->
     CASE d = 3 -> Share(1, 1, 2, 1) [] d = 4 -> Share(1, 2, 1, 1)
       [] d = 5 -> Share(1, 0, 1, 0) [] d = 7 -> Share(0, 3, 1, 2)]

SecondShares ==
  [d \in Business \cup {5} |->
     CASE d = 3 -> Share(1, 1, 0, 4) [] d = 4 -> Share(1, 0, 1, -1)
       [] d = 5 -> Share(1, 0, 1, 0) [] d = 7 -> Share(2, -1, 1, 0)]

(* Positions of some days. *)
Position(day, security, value) == [day |-> day, security |-> security, value |-> value]

PositionsOf(days) ==
  [i \in 1 .. 2 * Len(days) |->
     LET d == days[(i + 1) \div 2] IN
     IF i % 2 = 1 THEN Position(d, "a", IF d = 7 THEN 0 ELSE 1)
                  ELSE Position(d, "b", IF d = 7 THEN 2 ELSE 1)]

(* The exposure of the benchmark on some days, in equal parts. *)
ConstituentsOf(days, labels) ==
  [i \in 1 .. 2 * Len(days) |->
     LET l == labels[IF i % 2 = 1 THEN "a" ELSE "b"] IN
     [day |-> days[(i + 1) \div 2], dimension |-> "SECTOR", group |-> l, label |-> l, weight |-> 1]]

Sectors(first, second) == [s \in {"a", "b"} |-> IF s = "a" THEN first ELSE second]

Issuers == Sectors("one", "two")

SourceBooks(sectors, days) ==
  [portfolio |-> Gained, benchmark |-> BenchmarkGained, currency |-> "USD", index |-> "index",
   positions |-> PositionsOf(days), constituents |-> ConstituentsOf(days, sectors),
   labels |-> [dimension \in {"SECTOR", "ISSUER"} |->
                 IF dimension = "SECTOR" THEN sectors ELSE Issuers],
   shares |-> [dimension \in {"SECTOR"} |->
                 [l \in {sectors["a"], sectors["b"]} |->
                    IF l = sectors["a"] THEN FirstShares ELSE SecondShares]],
   exposures |-> {}, others |-> {}]

-----------------------------------------------------------------------------
(* Stateful requests *)

Total == [types |-> {"TOTAL_RISK"}, metrics |-> {"VOLATILITY"}]

ActiveRisk == [types |-> {"ACTIVE_RISK"}, metrics |-> {"TRACKING_ERROR"}]

Both == [types |-> {"TOTAL_RISK", "ACTIVE_RISK"}, metrics |-> {"VOLATILITY", "TRACKING_ERROR"}]

Mixed == [types |-> {"TOTAL_RISK"}, metrics |-> {"VOLATILITY", "TRACKING_ERROR"}]

Options(choice, dimensions) ==
  [types |-> choice.types, metrics |-> choice.metrics, dimensions |-> dimensions]

Request(mode, options, periods, asOf, basis, currency) ==
  [mode |-> mode, options |-> options, periods |-> periods, asOf |-> asOf, basis |-> basis,
   currency |-> currency]

WholePeriod == [P |-> [type |-> "SI"]]

WithShort == [P |-> [type |-> "SI"], Q |-> [type |-> "EXPLICIT", from |-> 5, to |-> 7]]

Parts == [P |-> [type |-> "EXPLICIT", from |-> 3, to |-> 4], Q |-> [type |-> "TO_DATE", from |-> 4]]

StatefulRequests ==
  {Request("STATEFUL", Options(choice, {"SECTOR"}), periods, asOf, basis, currency) :
     choice \in {Total, ActiveRisk, Both}, periods \in {WholePeriod, WithShort, Parts}, asOf \in {7, 9},
     basis \in {"NET", "GROSS"}, currency \in {None, "USD"}}
  \cup {Request("STATEFUL", Options(Total, dimensions), WholePeriod, 7, "NET", "USD") :
          dimensions \in {{"SECTOR", "ISSUER"}, {"ISSUER"}, {"CUSTOM"}}}
  \cup {Request("STATEFUL", Options(Mixed, {"SECTOR"}), WholePeriod, 7, "GROSS", "USD")}

(* Positions on the days of returns, on a Saturday besides, or not on all. *)
StatefulWorlds ==
  {[request |-> request, books |-> SourceBooks(sectors, days)] :
     request \in StatefulRequests,
     sectors \in {Sectors("x", "y"), Sectors("x", Unknown), Sectors(Unclassified, Unknown)},
     days \in {<<3, 4, 7>>, <<3, 4, 5, 7>>, <<3, 7>>}}

-----------------------------------------------------------------------------
(* Stateless requests: the caller gives the series and the exposures, with days
   and groups missing, with weights that do not add up, or contradictory ones. *)

Row(group, day, weight) ==
  [day |-> day, dimension |-> "SECTOR", group |-> group, label |-> group, weight |-> weight]

Exposures ==
  {{Row(p[1], p[2], f[p]) : p \in {q \in DOMAIN f : f[q] # 3}} :
     f \in [{"x", "y"} \X {3, 4} -> 0 .. 3]}
  \cup {{Row("x", 3, 1), Row("x", 3, 2), Row("y", 4, 2)}}

BenchmarkExposures ==
  {{}, {Row("x", 3, 2), Row("x", 4, 2)}, {Row("x", 3, 1), Row("z", 3, 1), Row("z", 4, 2)},
   {Row("y", 4, 2)}, {Row("y", 3, 1), Row("y", 4, 2)}}

GivenBooks(portfolio, benchmark, exposures, others) ==
  [portfolio |-> portfolio, benchmark |-> benchmark, exposures |-> exposures, others |-> others]

GivenReturns ==
  {<<Nobody, Nobody>>, <<[d \in {3} |-> 1], [d \in {3} |-> 0]>>,
   <<[d \in {3, 4} |-> d - 3], [d \in {3, 4} |-> 2 * (d - 4)]>>,
   <<[d \in {3, 4} |-> d - 3], [d \in {4} |-> 1]>>,
   <<Gained, BenchmarkGained>>}

(* The benchmark matters to the active risk alone. *)
Given ==
  ({Total, Mixed} \X {{}, {Row("y", 4, 2)}}) \cup ({ActiveRisk} \X BenchmarkExposures)

StatelessWorlds ==
  {[request |-> Request("STATELESS", Options(choice[1], {"SECTOR"}), periods, 7, "NET", None),
    books   |-> GivenBooks(given[1], given[2], exposures, choice[2])] :
     choice \in Given, periods \in {WholePeriod, Parts}, given \in GivenReturns,
     exposures \in Exposures}

Worlds == StatefulWorlds \cup StatelessWorlds
=============================================================================
