--------------------------- MODULE MCCalculations ----------------------------
(***************************************************************************)
(* The calculators of the service, for the model checker: a request to any *)
(* of them, or the drawdown of a period.  A request keeps nothing after    *)
(* its answer and shares no state with another, so a behaviour is that of  *)
(* one calculator and the variables of the others stand still.             *)
(***************************************************************************)
EXTENDS Drawdown

CONSTANTS
  Currencies, Base, MaxStateless, MaxPoints,        \* of RollingRequest
  PageSize, MaxPages, MaxRows, MaxFaults, Foreign,  \* of AttributionRequest
  Full, MaxBuckets, MaxPositions, MaxJobRows, MaxPortfolios,  \* of SourceProducts
  Whole, Unknown, Unclassified                      \* of Attribution

VARIABLES
  calculator,                                   \* the one that is asked
  request, books, at, returns, outcome,         \* of every request
  currency, rates, admitted, sent,              \* of RollingRequest and SeriesRequest
  snapshot,                                     \* of RollingRequest, and what Concentration
                                                \* has for an answer
  page, rows, exposures, others, identity, todo, evidence, asked, deviations
                                                \* of AttributionRequest

seriesVars == <<currency, rates, admitted, sent>>

rollingVars == <<seriesVars, snapshot>>

attributionVars ==
  <<page, rows, exposures, others, identity, todo, evidence, asked, deviations>>

requestVars == <<request, books, at, returns, outcome, rollingVars, attributionVars>>

everything == <<calculator, vars, requestVars>>

(* Above, at and below the opening; 0 is a total loss and -1 a debt. *)
SmallLevels == {-1, 0, 1, 2, 3}

(* A quarter. *)
AQuarter == <<1, 4>>

RollingWorlds == INSTANCE RollingWorlds

AttributionWorlds == INSTANCE AttributionWorlds

SeriesWorlds == INSTANCE SeriesWorlds

ConcentrationWorlds == INSTANCE ConcentrationWorlds

SourceProductsWorlds == INSTANCE SourceProductsWorlds

Rolling ==
  INSTANCE RollingRequest WITH Worlds <- RollingWorlds!Worlds, MaxObservations <- MaxStateless

Attribution == INSTANCE AttributionRequest WITH Worlds <- AttributionWorlds!Worlds

Series == INSTANCE SeriesRequest WITH Worlds <- SeriesWorlds!Worlds

Concentration ==
  INSTANCE Concentration WITH Worlds <- ConcentrationWorlds!Worlds, answer <- snapshot

Products ==
  INSTANCE SourceProducts WITH Worlds <- SourceProductsWorlds!Worlds, MaxRows <- MaxPositions

(* The limits of a request for rolling metrics (ROLLING_MAX_STATELESS_OBSERVATIONS,
   ROLLING_MAX_TIME_SERIES_POINTS). *)
ASSUME LimitsAssumption == MaxStateless \in Nat /\ MaxPoints \in Nat

-----------------------------------------------------------------------------
NoRequest ==
  /\ request = None /\ books = None /\ at = None /\ returns = None /\ outcome = None

NoSeries == currency = None /\ rates = None /\ admitted = None /\ sent = None

NoRolling == NoSeries /\ snapshot = None

NoAttribution ==
  /\ page = None /\ rows = None /\ exposures = None /\ others = None /\ identity = None
  /\ todo = None /\ evidence = None /\ asked = None /\ deviations = None

AnyInit ==
  /\ Init
  /\ \/ calculator = "drawdown" /\ NoRequest /\ NoRolling /\ NoAttribution
     \/ calculator = "rolling" /\ Rolling!Init /\ NoAttribution
     \/ calculator = "attribution" /\ Attribution!Init /\ NoRolling
     \/ calculator = "series" /\ Series!Init /\ snapshot = None /\ NoAttribution
     \/ calculator = "concentration" /\ Concentration!Init /\ returns = None /\ NoSeries
        /\ NoAttribution
     \/ calculator = "products" /\ Products!Init /\ books = None /\ returns = None /\ NoRolling
        /\ NoAttribution

AnObservation ==
  /\ calculator = "drawdown"
  /\ Observe
  /\ UNCHANGED <<calculator, requestVars>>

(* The period ends. *)
NoMore ==
  /\ calculator = "drawdown" /\ Len(wealth) = MaxObservations
  /\ UNCHANGED everything

ARollingStep ==
  /\ calculator = "rolling"
  /\ Rolling!Next
  /\ UNCHANGED <<calculator, vars, attributionVars>>

AnAttributionStep ==
  /\ calculator = "attribution"
  /\ Attribution!Next
  /\ UNCHANGED <<calculator, vars, rollingVars>>

ASeriesStep ==
  /\ calculator = "series"
  /\ Series!Next
  /\ UNCHANGED <<calculator, vars, snapshot, attributionVars>>

AConcentrationStep ==
  /\ calculator = "concentration"
  /\ Concentration!Next
  /\ UNCHANGED <<calculator, vars, returns, seriesVars, attributionVars>>

AProductStep ==
  /\ calculator = "products"
  /\ Products!Next
  /\ UNCHANGED <<calculator, vars, books, returns, rollingVars, attributionVars>>

AnyNext ==
  AnObservation \/ NoMore
    \/ ARollingStep \/ AnAttributionStep \/ ASeriesStep \/ AConcentrationStep \/ AProductStep

AnySpec == AnyInit /\ [][AnyNext]_everything

-----------------------------------------------------------------------------
(* The properties of the calculators, where they are stated for the code, of
   their requests. *)

(* Of RollingRequest: a value tells the returns of its window. *)
ValuesTellTheBooks == calculator = "rolling" => Rolling!ValuesTellTheBooks

(* Of RollingRequest: every day is counted, joined and valued or explained. *)
DaysAreAccounted == calculator = "rolling" => Rolling!DaysAreAccounted

(* Of RollingRequest and SeriesRequest: what a response says of itself can be relied
   on. *)
QualificationIsHonest ==
  /\ calculator = "rolling" => Rolling!QualificationIsHonest
  /\ calculator = "series" => Series!RiskIsQualified

(* Of AttributionRequest and SourceProducts: so can what an attribution says of the
   sets that it decomposed, which a set that is not supported or is empty does
   not change, and what a scenario pack, a cohort and a mandate's health say. *)
AnswersAreQualified ==
  /\ calculator = "attribution" => Attribution!AttributionIsQualified
  /\ calculator = "products" => Products!ProductsAreQualified

(* Of RollingRequest and SeriesRequest: returns and rates are of one currency. *)
OneCurrency ==
  /\ calculator = "rolling" => Rolling!OneCurrency
  /\ calculator = "series" => Series!OneCurrency

(* Of RollingRequest, SeriesRequest and Concentration: true answers that have what
   is needed are served. *)
HonestSourcesAreServed ==
  /\ calculator = "rolling" => Rolling!HonestSourcesAreServed
  /\ calculator = "series" => Series!HonestSourcesAreServed
  /\ calculator = "concentration" => Concentration!HonestSourcesAreServed

(* Of AttributionRequest: so are those that come in pages, with all of them, and
   none is asked for more pages than the limits allow. *)
PagesAreServed == calculator = "attribution" => Attribution!HonestSourcesAreServed

(* Of AttributionRequest: a set that is called empirical is true evidence. *)
EmpiricalSetsAreTrue == calculator = "attribution" => Attribution!EmpiricalSetsAreTrue

(* Of AttributionRequest: the parts of a decomposition are its whole; and of
   SourceProducts: positions say of a scenario what the whole says. *)
PartsMakeTheWhole ==
  /\ calculator = "attribution" => Attribution!DecompositionsAddUp
  /\ calculator = "products" => Products!ScenariosReconcile

(* Of SeriesRequest: a metric takes every day of its period once. *)
ObservationsTellThePeriod == calculator = "series" => Series!ObservationsTellThePeriod

(* Of Concentration: a response tells each state by itself, in one measure. *)
ConcentrationIsTrue == calculator = "concentration" => Concentration!ConcentrationIsTrue

(* Of SeriesRequest: value at risk is made of days. *)
VarIsDaily == calculator = "series" => Series!VarIsDaily

(* Of RollingRequest: the lineage has every call that was made. *)
LineageIsWhole == calculator = "rolling" => Rolling!LineageIsWhole
=============================================================================
