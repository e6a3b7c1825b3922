------------------------ MODULE SourceProductsWorlds -------------------------
(***************************************************************************)
(* Requests for the source products, for the model checker: buckets of the *)
(* registries, spelled in two ways, and one that they do not know; an      *)
(* allocation has four parts.                                              *)
(***************************************************************************)
EXTENDS Integers, Sequences

CONSTANT None

UpTo(n, rows) == UNION {[1..k -> rows] : k \in 0..n}

Equity      == <<3, "UPPER">>
Lower       == <<3, "lower">>
FixedIncome == <<4, "UPPER">>
Cash        == <<2, "UPPER">>
Private     == <<5, "UPPER">>

Exposure(bucket, weight) == [bucket |-> bucket, weight |-> weight]

(* Some are no allocation. *)
Exposures ==
  UpTo(2, {Exposure(b, w) : b \in {Equity, Lower, FixedIncome, Private}, w \in {-1, 1, 3, 4, 5}})
    \cup {<<Exposure(Equity, 2), Exposure(FixedIncome, 1), Exposure(Cash, 1)>>,
          <<Exposure(Equity, 0), Exposure(FixedIncome, 4), Exposure(Cash, 0)>>}

Components ==
  {[security |-> s, bucket |-> b, weight |-> w] :
     s \in {1, 2}, b \in {Equity, Lower, FixedIncome, Private}, w \in {0, 1, 3}}

Pack(kind, portfolio, asOf, exposures, components, maximum) ==
  [kind |-> kind, pack |-> "CIO_REGIME_2026_Q2", portfolio |-> portfolio, asOf |-> asOf,
   exposures |-> exposures, components |-> components, maximum |-> maximum]

Ours == "PB_SG_GLOBAL_BAL_001"

(* Their governance, and thresholds below, at and above losses. *)
GovernedPacks ==
  {Pack("pack", governed[1], governed[2], exposures, <<>>, maximum) :
     governed \in {<<None, 1>>, <<"OTHER", 1>>} \cup ({Ours} \X {0, 1, 3, 4}),
     exposures \in Exposures, maximum \in {0, 56, 72}}

(* Two components at once, and three for a job or too many. *)
PacksByPosition ==
  {Pack(kind, Ours, 2, exposures, components, 40) :
     kind \in {"pack", "job"}, components \in UpTo(2, Components),
     exposures \in {<<Exposure(Lower, 4)>>, <<Exposure(Equity, 3), Exposure(FixedIncome, 1)>>,
                    <<Exposure(Private, 3), Exposure(Lower, 1)>>}}
  \cup
  {Pack(kind, Ours, 2, <<Exposure(Equity, 3), Exposure(FixedIncome, 1)>>, components, 40) :
     kind \in {"pack", "job"},
     components \in [1..3 -> {c \in Components : c.bucket \in {Equity, FixedIncome}}]
                      \cup {[i \in 1..4 |-> [security |-> i, bucket |-> Equity, weight |-> 1]]}}

UnknownPacks ==
  {[Pack(kind, Ours, 2, <<Exposure(Equity, 4)>>, <<>>, 40) EXCEPT !.pack = "OTHER"] :
     kind \in {"pack", "job"}}

Portfolios ==
  {[id |-> id, exposures |-> e] :
     id \in {1, 2},
     e \in {<<Exposure(Equity, 4)>>, <<Exposure(Lower, 3), Exposure(FixedIncome, 1)>>,
            <<Exposure(FixedIncome, 4)>>, <<Exposure(Private, 1), Exposure(Equity, 3)>>,
            <<Exposure(Equity, 1), Exposure(Lower, 3)>>}}

Cohorts ==
  {[kind |-> "cohort", event |-> event, portfolios |-> portfolios, minimum |-> minimum] :
     event \in {"RISK_EVENT_2026_Q2_RATES_UP", "RISK_EVENT_2026_Q2_RISK_OFF", "OTHER"},
     portfolios \in UpTo(2, Portfolios)
                      \cup {<<p, q, [p EXCEPT !.id = 3]>> : p \in Portfolios, q \in Portfolios},
     minimum \in {0, 16, 60}}

Series(days) == UNION {[some -> {-1, 0, 2}] : some \in SUBSET days}

Healths ==
  {[kind |-> "health", returns |-> returns, benchmark |-> benchmark, period |-> period,
    asOf |-> 7, open |-> open, threshold |-> threshold] :
     returns \in Series({3, 4, 7}), benchmark \in Series({3, 7}),
     period \in {[type |-> "SI"], [type |-> "EXPLICIT", from |-> 4, to |-> 7]},
     open \in {0, 4}, threshold \in {0, 2}}

Worlds == GovernedPacks \cup PacksByPosition \cup UnknownPacks \cup Cohorts \cup Healths
=============================================================================
