------------------------- MODULE Calculations_proofs -------------------------
(***************************************************************************)
(* Proofs about the requests to the calculators.  Of any of them: the      *)
(* returns and the risk-free rates of a response are of one currency,      *)
(* whichever of the two calculators that take rates is asked.  Of rolling  *)
(* metrics: a response tells the books, every value the returns of its     *)
(* window and every day of a period a value or the reason it has none;     *)
(* true answers are served; and what a response says of its own quality    *)
(* can be relied on.  All of them in whatever order the upstreams answer,  *)
(* whatever they answer, and whichever of them fails.                      *)
(*                                                                         *)
(* For the currency nothing is assumed of the worlds; for the others that  *)
(* a request is sound, which those of RollingWorlds are shown to be.       *)
(***************************************************************************)
EXTENDS MCCalculations, FiniteSetTheorems, WellFoundedInduction, TLAPS

-----------------------------------------------------------------------------
(* A request for rolling metrics *)

(* The request asks for a metric that takes rates. *)
RatedRolling == request.mode = "STATEFUL" /\ Rolling!Wants(Rolling!RiskFreeMetrics)

(* Before the first call for a series nothing is called; a response comes with
   the end. *)
RollingOrder ==
  /\ at \in {"accepted", "currency"} => returns = Rolling!Idle /\ rates = Rolling!Idle
  /\ at # "done" => outcome = Rolling!Silence

(* The resolved currency is one, that of the request if it names one; the calls
   that are made carry it, and so do their answers. *)
RollingCurrencies ==
  /\ at = "currency" => request.currency = None
  /\ returns.status # "idle" =>
       currency # None /\ (request.currency # None => currency = request.currency)
  /\ returns.status \in {"open", "answered"} => returns.currency = currency
  /\ rates.status \in {"open", "answered"} => rates.currency = currency
  /\ rates.status = "idle" => rates = Rolling!Idle

(* The handler goes on once it has the answers, and responds with both. *)
RollingAnswers ==
  /\ at \in {"sources", "fallback", "coverage"} => returns.status # "idle"
  /\ at \in {"fallback", "coverage"} => returns.status = "answered"
  /\ outcome.kind = "response" => returns.status = "answered" /\ rates.status = "answered"

RollingInv ==
  RollingOrder /\ (RatedRolling => RollingCurrencies /\ RollingAnswers)

(* The invariant has the property. *)
LEMMA RollingInvSuffices == RollingInv => Rolling!OneCurrency
  BY DEF RollingInv, RollingCurrencies, RollingAnswers, RatedRolling, Rolling!OneCurrency,
         Rolling!Responded, Rolling!Idle

(* A request that has just been accepted has asked nothing. *)
LEMMA RollingInit == Rolling!Init => RollingInv
  BY DEF Rolling!Init, RollingInv, RollingOrder, RollingCurrencies, RollingAnswers,
         Rolling!Idle, Rolling!Silence

(* An answer of lotus-performance is in the currency it was asked in, if it was
   asked in one. *)
LEMMA AnswerKeepsCurrency ==
  ASSUME NEW deviation, NEW freshness, returns.currency # None
  PROVE  /\ Rolling!ReturnsAnswer(deviation, freshness).status = "answered"
         /\ Rolling!ReturnsAnswer(deviation, freshness).currency = returns.currency
  BY DEF Rolling!ReturnsAnswer

(* A call that is made carries the currency it is made with. *)
LEMMA CallCarriesCurrency ==
  ASSUME NEW window, NEW resolved
  PROVE  /\ Rolling!Ask(window, resolved).status = "open"
         /\ Rolling!Ask(window, resolved).currency = resolved
  BY DEF Rolling!Ask

(* The calls for the series: made with a currency, which is that of the request
   if it names one. *)
LEMMA FetchingKeepsRolling ==
  ASSUME NEW resolved, RollingInv, at \in {"accepted", "currency"},
         RatedRolling => resolved # None /\ (request.currency # None => resolved = request.currency),
         Rolling!FetchSources(resolved), UNCHANGED <<request, books, outcome>>
  PROVE  RollingInv'
  <1>1. /\ at' = "sources" /\ currency' = resolved /\ outcome' = Rolling!Silence
        /\ RatedRolling' = RatedRolling
        /\ rates = Rolling!Idle
    BY DEF Rolling!FetchSources, RollingInv, RollingOrder, RatedRolling, Rolling!Wants
  <1>2. returns'.status = "open" /\ returns'.currency = resolved
    BY CallCarriesCurrency DEF Rolling!FetchSources, Rolling!ReturnsRequest
  <1>3. \/ rates' = Rolling!Idle
        \/ rates'.status = "open" /\ rates'.currency = resolved
    BY <1>1, CallCarriesCurrency DEF Rolling!FetchSources
  <1> QED
    BY <1>1, <1>2, <1>3
    DEF RollingInv, RollingOrder, RollingCurrencies, RollingAnswers, Rolling!Idle, Rolling!Silence

(* An end without a response, once the series are asked for. *)
LEMMA FailingKeepsRolling ==
  ASSUME NEW kind \in {"rejected", "invalid", "missing", "upstream"}, RollingInv,
         Rolling!Fail(kind), UNCHANGED <<request, currency, returns, rates>>
  PROVE  RollingInv'
  BY DEF RollingInv, RollingOrder, RollingCurrencies, RollingAnswers, Rolling!Fail,
         RatedRolling, Rolling!Wants, Rolling!Silence

(* An end with the answers that a response needs. *)
LEMMA FinishingKeepsRolling ==
  ASSUME NEW series, NEW repeated, RollingInv, Rolling!Finish(series, repeated),
         RatedRolling => returns.status = "answered" /\ rates.status = "answered",
         UNCHANGED <<request, currency, returns, rates>>
  PROVE  RollingInv'
  <1>1. CASE Rolling!Fail("rejected")
    BY <1>1, FailingKeepsRolling
  <1>2. CASE at' = "done" /\ outcome'.kind = "response"
    BY <1>2 DEF RollingInv, RollingOrder, RollingCurrencies, RollingAnswers, RatedRolling,
                Rolling!Wants
  <1> QED BY <1>1, <1>2 DEF Rolling!Finish, Rolling!Respond

(* What is done with the rates: an end, or the question for their coverage. *)
LEMMA UsingRatesKeepsRolling ==
  ASSUME NEW series, RollingInv, Rolling!UseRates(series),
         RatedRolling => returns.status = "answered" /\ rates.status = "answered",
         at # "done", UNCHANGED <<request, currency, returns, rates>>,
         at \notin {"accepted", "currency"}
  PROVE  RollingInv'
  <1>1. CASE Rolling!Fail("invalid") \/ Rolling!Fail("rejected")
    BY <1>1, FailingKeepsRolling
  <1>2. CASE at' = "coverage" /\ UNCHANGED outcome
    BY <1>2 DEF RollingInv, RollingOrder, RollingCurrencies, RollingAnswers, RatedRolling,
                Rolling!Wants, Rolling!Silence
  <1>3. CASE \E all, repeated : Rolling!Finish(all, repeated)
    BY <1>3, FinishingKeepsRolling
  <1> QED BY <1>1, <1>2, <1>3 DEF Rolling!UseRates

(* Every step of the handler and every answer of an upstream keeps it. *)
LEMMA RollingSteps == RollingInv /\ Rolling!Next => RollingInv'
  <1> SUFFICES ASSUME RollingInv, Rolling!Next PROVE RollingInv'
    OBVIOUS
  <1> USE DEF RollingInv
  <1>1. CASE Rolling!AnswerSnapshot
    BY <1>1 DEF Rolling!AnswerSnapshot, RollingOrder, RollingCurrencies, RollingAnswers,
                RatedRolling, Rolling!Wants
  <1>2. CASE Rolling!AnswerReturns
    <2>1. /\ at \notin {"accepted", "currency"}
          /\ UNCHANGED <<request, at, currency, rates, outcome>>
          /\ RatedRolling' = RatedRolling
      BY <1>2 DEF Rolling!AnswerReturns, RollingOrder, Rolling!Idle, RatedRolling, Rolling!Wants
    <2>2. ASSUME RatedRolling
          PROVE  /\ returns'.status \in {"failed", "answered"}
                 /\ returns'.status = "answered" => returns'.currency = currency
                 /\ returns.status = "open" /\ currency # None
                 /\ request.currency # None => currency = request.currency
                 /\ at \notin {"fallback", "coverage"} /\ outcome.kind # "response"
      <3>1. /\ returns.status = "open" /\ returns.currency = currency /\ currency # None
            /\ request.currency # None => currency = request.currency
            /\ at \notin {"fallback", "coverage"} /\ outcome.kind # "response"
        BY <1>2, <2>2 DEF Rolling!AnswerReturns, RollingCurrencies, RollingAnswers
      <3>2. CASE returns' = [status |-> "failed"]
        BY <3>1, <3>2
      <3>3. CASE \E deviation, freshness : returns' = Rolling!ReturnsAnswer(deviation, freshness)
        BY <3>1, <3>3, AnswerKeepsCurrency
      <3> QED BY <1>2, <3>2, <3>3 DEF Rolling!AnswerReturns
    <2> QED BY <2>1, <2>2 DEF RollingOrder, RollingCurrencies, RollingAnswers
  <1>3. CASE Rolling!AnswerRates
    BY <1>3 DEF Rolling!AnswerRates, RollingOrder, RollingCurrencies, RollingAnswers,
                RatedRolling, Rolling!Wants, Rolling!Idle
  <1>4. CASE Rolling!Accept
    BY <1>4 DEF Rolling!Accept, Rolling!Fail, Rolling!Respond, RollingOrder, RatedRolling
  <1>5. CASE Rolling!Start
    <2>1. CASE Rolling!FetchSources(request.currency)
               /\ (request.currency # None \/ ~Rolling!Wants(Rolling!RiskFreeMetrics))
      BY <1>5, <2>1, FetchingKeepsRolling DEF Rolling!Start, RatedRolling
    <2>2. CASE at' = "currency" /\ UNCHANGED <<request, currency, returns, rates, outcome>>
               /\ request.currency = None
      <3>1. /\ returns.status = "idle" /\ returns = Rolling!Idle /\ rates.status = "idle"
            /\ rates = Rolling!Idle /\ outcome.kind = "none" /\ outcome = Rolling!Silence
        BY <1>5 DEF Rolling!Start, RollingOrder, Rolling!Idle, Rolling!Silence
      <3> QED
        BY <2>2, <3>1 DEF RollingOrder, RollingCurrencies, RollingAnswers
    <2> QED BY <1>5, <2>1, <2>2 DEF Rolling!Start
  <1>6. CASE Rolling!ResumeSnapshot
    <2>1. CASE Rolling!Fail("invalid") /\ UNCHANGED <<currency, returns, rates>>
      BY <1>6, <2>1, FailingKeepsRolling DEF Rolling!ResumeSnapshot
    <2> DEFINE resolved == IF snapshot.reported # None THEN snapshot.reported ELSE snapshot.own
    <2>2. CASE Rolling!FetchSources(resolved) /\ UNCHANGED outcome
               /\ {snapshot.reported, snapshot.own} \ {None} # {}
      <3>1. resolved # None
        BY <2>2
      <3>2. RatedRolling => request.currency = None
        BY <1>6 DEF Rolling!ResumeSnapshot, RollingCurrencies
      <3> HIDE DEF resolved
      <3> QED BY <1>6, <2>2, <3>1, <3>2, FetchingKeepsRolling DEF Rolling!ResumeSnapshot
    <2> QED BY <1>6, <2>1, <2>2 DEF Rolling!ResumeSnapshot
  <1>7. CASE Rolling!ResumeFailure
    BY <1>7, FailingKeepsRolling DEF Rolling!ResumeFailure
  <1>8. CASE Rolling!ResumeSources
    <2>1. at = "sources" /\ UNCHANGED <<request, currency, returns>>
          /\ returns.status = "answered" /\ rates.status \in {"idle", "answered"}
      BY <1>8 DEF Rolling!ResumeSources
    <2>2. CASE UNCHANGED rates /\ \E kind \in {"rejected", "invalid", "missing", "upstream"} :
                                    Rolling!Fail(kind)
      BY <2>1, <2>2, FailingKeepsRolling
    <2>3. CASE UNCHANGED rates /\ ~Rolling!Wants(Rolling!RiskFreeMetrics)
               /\ \E series : Rolling!Finish(series, FALSE)
      BY <2>1, <2>3, FinishingKeepsRolling DEF RatedRolling
    <2>4. CASE UNCHANGED outcome /\ \E days : Rolling!AskRates(days)
      BY <2>1, <2>4 DEF Rolling!AskRates, RollingOrder, RollingCurrencies, RollingAnswers,
                        RatedRolling, Rolling!Wants, Rolling!Silence
    <2>5. CASE UNCHANGED rates /\ rates # Rolling!Idle /\ \E series : Rolling!UseRates(series)
      <3>1. RatedRolling => rates.status = "answered"
        BY <2>1, <2>5 DEF RollingCurrencies
      <3> QED BY <2>1, <2>5, <3>1, UsingRatesKeepsRolling
    <2>6. \A series : Rolling!Refusal(series) \in {"none", "invalid", "missing"}
      BY DEF Rolling!Refusal
    <2> QED BY <1>8, <2>2, <2>3, <2>4, <2>5, <2>6 DEF Rolling!ResumeSources
  <1>9. CASE Rolling!ResumeFallback
    <2>1. at = "fallback" /\ UNCHANGED <<request, currency, returns, rates>>
          /\ rates.status = "answered" /\ Rolling!UseRates(admitted)
      BY <1>9 DEF Rolling!ResumeFallback
    <2>2. RatedRolling => returns.status = "answered"
      BY <2>1 DEF RollingAnswers
    <2> QED BY <2>1, <2>2, UsingRatesKeepsRolling
  <1>10. CASE Rolling!ResumeCoverage
    BY <1>10, FailingKeepsRolling DEF Rolling!ResumeCoverage
  <1>11. CASE Rolling!Rest
    BY <1>11 DEF Rolling!Rest, Rolling!vars, RollingOrder, RollingCurrencies, RollingAnswers,
                 RatedRolling, Rolling!Wants
  <1> QED BY <1>1, <1>2, <1>3, <1>4, <1>5, <1>6, <1>7, <1>8, <1>9, <1>10, <1>11 DEF Rolling!Next

-----------------------------------------------------------------------------
(* A request to risk/calculate or risk/drawdown *)

(* The calls follow each other, so that what is awaited tells what is known: the
   currency, then the returns in it, then the rates in it. *)
SeriesInv ==
  /\ at # "done" => outcome = Series!Silence
  /\ at = "snapshot" => request.currency = None
  /\ (at \in {"returns", "rates"} /\ Series!WantsRates /\ request.currency # None) =>
       currency = request.currency
  /\ at = "rates" => returns.currency = currency
  /\ Series!OneCurrency

(* A request that has just been accepted has no answer. *)
LEMMA SeriesInit == Series!Init => SeriesInv
  BY DEF Series!Init, SeriesInv, Series!Silence, Series!OneCurrency, Series!Responded

(* An end without a response. *)
LEMMA FailingKeepsSeries ==
  ASSUME NEW kind \in {"rejected", "invalid", "missing", "upstream"}, Series!Fail(kind)
  PROVE  SeriesInv'
  BY DEF Series!Fail, SeriesInv, Series!OneCurrency, Series!Responded

(* A response: of a request that takes no rates, or with both in the currency. *)
LEMMA FinishingKeepsSeries ==
  ASSUME NEW series, NEW source, Series!FinishRisk(series, source) \/ Series!Finish(series, source),
         (Series!Stateful /\ Series!WantsRates) =>
           /\ returns'.currency = rates'
           /\ request.currency # None => rates' = request.currency,
         UNCHANGED request
  PROVE  SeriesInv'
  <1>1. CASE Series!Fail("invalid")
    BY <1>1, FailingKeepsSeries
  <1>2. CASE at' = "done"
    BY <1>2 DEF SeriesInv, Series!OneCurrency, Series!Stateful, Series!WantsRates
  <1> QED BY <1>1, <1>2 DEF Series!FinishRisk, Series!Finish, Series!Respond

(* Every step of the handler keeps it. *)
LEMMA SeriesSteps == SeriesInv /\ Series!Next => SeriesInv'
  <1> SUFFICES ASSUME SeriesInv, Series!Next PROVE SeriesInv'
    OBVIOUS
  <1>1. CASE Series!Accept
    BY <1>1 DEF Series!Accept, Series!Respond, SeriesInv, Series!OneCurrency, Series!Stateful
  <1>2. ASSUME NEW resolved, Series!AskReturns(resolved), UNCHANGED request, at # "done",
               (Series!WantsRates /\ request.currency # None) => resolved = request.currency
        PROVE  SeriesInv'
    BY <1>2 DEF Series!AskReturns, SeriesInv, Series!OneCurrency, Series!Responded,
                Series!Silence, Series!WantsRates
  <1>3. CASE Series!Start
    <2>1. CASE Series!AskReturns(request.currency)
      BY <1>2, <1>3, <2>1 DEF Series!Start
    <2>2. CASE at' = "snapshot" /\ UNCHANGED outcome /\ request.currency = None
      BY <1>3, <2>2 DEF Series!Start, SeriesInv, Series!OneCurrency, Series!Responded,
                        Series!Silence
    <2> QED BY <1>3, <2>1, <2>2 DEF Series!Start
  <1>4. CASE Series!TakeSnapshot
    <2>1. CASE \E kind \in {"upstream", "invalid"} : Series!Fail(kind)
      BY <2>1, FailingKeepsSeries
    <2>2. CASE \E resolved : Series!AskReturns(resolved)
      BY <1>2, <1>4, <2>2 DEF Series!TakeSnapshot, SeriesInv
    <2> QED BY <1>4, <2>1, <2>2 DEF Series!TakeSnapshot
  <1>5. CASE Series!TakeReturns
    <2>1. PICK kind : returns' = Series!Evidence(kind)
      BY <1>5 DEF Series!TakeReturns
    <2>2. returns'.currency = currency
      BY <2>1 DEF Series!Evidence
    <2>3. at = "returns" /\ UNCHANGED <<request, currency, rates>>
      BY <1>5 DEF Series!TakeReturns
    <2>4. CASE \E ending \in {"rejected", "invalid", "missing", "upstream"} : Series!Fail(ending)
      BY <2>4, FailingKeepsSeries
    <2>5. CASE at' = "rates" /\ UNCHANGED outcome
      BY <2>2, <2>3, <2>5 DEF SeriesInv, Series!OneCurrency, Series!Responded,
                              Series!Silence, Series!WantsRates
    <2>6. CASE ~Series!WantsRates
               /\ \E series, source : Series!FinishRisk(series, source)
                                          \/ Series!Finish(series, source)
      BY <2>3, <2>6, FinishingKeepsSeries
    <2>7. \A which, portfolio, benchmark :
            /\ Series!RiskRefusal(which, portfolio) \in {"none", "rejected", "invalid", "missing"}
            /\ Series!DrawdownRefusal(which, portfolio, benchmark)
                 \in {"none", "rejected", "invalid", "missing"}
      BY DEF Series!RiskRefusal, Series!DrawdownRefusal
    <2> QED BY <1>5, <2>4, <2>5, <2>6, <2>7 DEF Series!TakeReturns
  <1>6. CASE Series!TakeRates
    <2>1. at = "rates" /\ UNCHANGED <<request, currency, returns>> /\ returns.currency = currency
      BY <1>6 DEF Series!TakeRates, SeriesInv
    <2>2. CASE \E ending \in {"rejected", "invalid", "missing", "upstream"} : Series!Fail(ending)
      BY <2>2, FailingKeepsSeries
    <2>3. CASE rates' = currency /\ Series!FinishRisk(admitted, returns)
      BY <2>1, <2>3, FinishingKeepsSeries DEF SeriesInv
    <2>4. PICK kind \in {"none", "failed", "malformed", "date", "empty"} :
            /\ rates' = IF kind = "none" THEN currency ELSE None
            /\ CASE kind = "failed" -> Series!Fail("upstream") /\ UNCHANGED admitted
                 [] kind # "failed" /\ ~Series!AllOverlap(admitted.benchmark)
                      -> Series!Fail("invalid") /\ UNCHANGED admitted
                 [] kind = "none" /\ Series!AllOverlap(admitted.benchmark)
                      -> Series!FinishRisk(admitted, returns)
                 [] OTHER -> /\ UNCHANGED admitted
                             /\ Series!Fail(CASE kind = "malformed" -> "invalid"
                                              [] kind = "date" -> "rejected"
                                              [] kind = "empty" -> "missing")
      BY <1>6 DEF Series!TakeRates
    <2> QED BY <2>2, <2>3, <2>4
  <1>7. CASE Series!Rest
    BY <1>7 DEF Series!Rest, Series!vars, SeriesInv, Series!OneCurrency, Series!Responded,
                Series!Stateful, Series!WantsRates
  <1> QED BY <1>1, <1>3, <1>4, <1>5, <1>6, <1>7 DEF Series!Next
-----------------------------------------------------------------------------
(* Days *)

(* The engine counts as everybody does: an instance has a Cardinality of its own. *)
LEMMA Counting == ASSUME NEW S PROVE Rolling!Cardinality(S) = Cardinality(S)
  BY DEF Rolling!Cardinality, Cardinality

(* Days up to some day. *)
Dated(days) == \E last \in Nat : days \subseteq 0 .. last

(* Dated days are finitely many, and counted. *)
LEMMA DatedFinite ==
  ASSUME NEW days, Dated(days)
  PROVE  IsFiniteSet(days) /\ Cardinality(days) \in Nat
  <1>1. PICK last \in Nat : days \subseteq 0 .. last
    BY DEF Dated
  <1>2. IsFiniteSet(0 .. last)
    BY FS_Interval
  <1> QED BY <1>1, <1>2, FS_Subset, FS_CardinalityType

(* Some of dated days are dated. *)
LEMMA DatedSubset ==
  ASSUME NEW days, Dated(days), NEW some, some \subseteq days
  PROVE  Dated(some)
  BY DEF Dated

(* Dated days have a first and a last one. *)
LEMMA FirstDay ==
  ASSUME NEW days, Dated(days), days # {}
  PROVE  \E d \in days : \A e \in days : d <= e
  <1>1. IsWellFoundedOn(OpToRel(<, Nat), Nat)
    BY NatLessThanWellFounded
  <1>2. days \subseteq Nat
    BY DEF Dated
  <1>3. PICK d \in days : \A e \in days : ~(<<e, d>> \in OpToRel(<, Nat))
    BY <1>1, <1>2, WFMin
  <1>4. \A e \in days : ~(e < d)
    BY <1>2, <1>3 DEF OpToRel
  <1> QED BY <1>2, <1>4

(* Dated days have a last one. *)
LEMMA LastDay ==
  ASSUME NEW days, Dated(days), days # {}
  PROVE  \E d \in days : \A e \in days : e <= d
  <1>1. PICK last \in Nat : days \subseteq 0 .. last
    BY DEF Dated
  <1> DEFINE mirrored == {last - d : d \in days}
  <1>2. mirrored \subseteq 0 .. last /\ mirrored # {}
    BY <1>1
  <1>3. Dated(mirrored)
    BY <1>2 DEF Dated
  <1> HIDE DEF mirrored
  <1>4. PICK m \in mirrored : \A n \in mirrored : m <= n
    BY <1>2, <1>3, FirstDay
  <1>5. PICK d \in days : m = last - d
    BY <1>4 DEF mirrored
  <1>6. ASSUME NEW e \in days PROVE e <= d
    <2>1. last - e \in mirrored
      BY DEF mirrored
    <2>2. last - d <= last - e
      BY <1>4, <1>5, <2>1
    <2>3. d \in Nat /\ e \in Nat
      BY <1>1
    <2> QED BY <2>2, <2>3
  <1> QED BY <1>6

(* The choice of the first day (Earliest) finds it. *)
LEMMA EarliestDay ==
  ASSUME NEW days, Dated(days), days # {}
  PROVE  /\ Rolling!Earliest(days) \in days
         /\ \A d \in days : Rolling!Earliest(days) <= d
  BY FirstDay DEF Rolling!Earliest

(* Part of some days is no more than all of them. *)
LEMMA FewerDays ==
  ASSUME NEW days, Dated(days), NEW some, some \subseteq days
  PROVE  /\ Cardinality(some) \in Nat /\ Cardinality(days) \in Nat
         /\ Cardinality(some) <= Cardinality(days)
         /\ Cardinality(some) = Cardinality(days) => some = days
  BY DatedFinite, DatedSubset, FS_Subset

(* A day more is one more. *)
LEMMA OneDayMore ==
  ASSUME NEW days, Dated(days), NEW d \in days
  PROVE  Cardinality(days) = Cardinality(days \ {d}) + 1
  BY DatedFinite, FS_RemoveElement, FewerDays

(* The days after a day. *)
After(days, d) == {e \in days : d < e}

Upto(days, d) == {e \in days : e <= d}

(* The days before and after a day are dated as well. *)
LEMMA PartsOfDays ==
  ASSUME NEW days, Dated(days), NEW d
  PROVE  Dated(After(days, d)) /\ Dated(Upto(days, d)) /\ days \subseteq Nat
  <1>1. After(days, d) \subseteq days /\ Upto(days, d) \subseteq days
    BY DEF After, Upto
  <1>2. days \subseteq Nat
    BY DEF Dated
  <1> QED BY <1>1, <1>2, DatedSubset

-----------------------------------------------------------------------------
(* Windows *)

(* A window is a span of the last days, up to n of them (Window). *)
LEMMA WindowSpan ==
  ASSUME NEW days, Dated(days), NEW d \in days, NEW n \in Nat \ {0}
  PROVE  LET window == Rolling!Window(days, d, n) IN
         /\ window \subseteq days /\ d \in window /\ Dated(window)
         /\ \A e \in window : e <= d
         /\ Cardinality(window) \in 1 .. n
         /\ \A e \in days \ window : e < d => Cardinality(window) = n /\ \A f \in window : e < f
  <1> DEFINE past == Upto(days, d)
             rank(e) == Cardinality(After(past, e))
             window == {e \in past : rank(e) < n}
  <1>1. Rolling!Window(days, d, n) = window
    <2>1. \A e : {f \in days : e < f /\ f <= d} = After(past, e)
      BY DEF After, Upto
    <2> QED BY <2>1, Counting DEF Rolling!Window, Upto
  <1>2. Dated(past) /\ past \subseteq Nat /\ d \in past /\ d \in Nat
    <2>1. Dated(past) /\ days \subseteq Nat
      BY PartsOfDays
    <2>2. d \in Nat /\ d <= d
      BY <2>1
    <2> QED BY <2>1, <2>2 DEF Upto
  <1>3. \A e : Dated(After(past, e)) /\ rank(e) \in Nat
    BY <1>2, PartsOfDays, DatedFinite
  <1>4. d \in window
    <2>1. After(past, d) = {}
      BY <1>2 DEF After, Upto
    <2> QED BY <1>2, <2>1, FS_EmptySet
  <1>5. window \subseteq past /\ Dated(window) /\ Cardinality(window) \in Nat
    BY <1>2, DatedSubset, DatedFinite
  <1>6. Cardinality(window) \in 1 .. n
    <2> HIDE DEF window
    <2>1. PICK first \in window : \A e \in window : first <= e
      BY <1>4, <1>5, FirstDay
    <2>2. window \ {first} \subseteq After(past, first)
      BY <1>2, <1>5, <2>1 DEF After
    <2>3. Cardinality(window \ {first}) <= rank(first) /\ Cardinality(window \ {first}) \in Nat
      BY <1>3, <2>2, FewerDays
    <2>4. rank(first) < n /\ rank(first) \in Nat
      BY <1>3, <2>1 DEF window
    <2>5. Cardinality(window) = Cardinality(window \ {first}) + 1
      BY <1>5, <2>1, OneDayMore
    <2> HIDE DEF rank
    <2> QED BY <2>3, <2>4, <2>5
  <1>7. ASSUME NEW e \in days \ window, e < d
        PROVE  Cardinality(window) = n /\ \A f \in window : e < f
    <2> DEFINE missed == past \ window
    <2>1. e \in missed /\ Dated(missed)
      BY <1>2, <1>7, DatedSubset DEF Upto
    <2>2. PICK last \in missed : \A f \in missed : f <= last
      <3> HIDE DEF missed
      <3> QED BY <2>1, LastDay
    <2>3. rank(last) >= n
      BY <1>3, <2>2
    <2>4. After(past, last) \subseteq window
      <3> SUFFICES ASSUME NEW f \in past, last < f PROVE f \in window
        BY DEF After
      <3>1. ~(f <= last)
        BY <1>2, <2>2
      <3> HIDE DEF window
      <3> QED BY <2>2, <3>1
    <2>5. rank(last) <= Cardinality(window)
      BY <1>5, <2>4, FewerDays
    <2>6. \A f \in window : last < f
      <3> SUFFICES ASSUME NEW f \in window, f <= last PROVE FALSE
        BY <1>2, <1>5, <2>2
      <3>1. After(past, last) \subseteq After(past, f) /\ f # last
        BY <1>2, <1>5, <2>2 DEF After
      <3>2. rank(last) <= rank(f)
        BY <1>3, <3>1, FewerDays
      <3>3. rank(f) < n /\ rank(f) \in Nat /\ rank(last) \in Nat
        BY <1>3
      <3> HIDE DEF rank
      <3> QED BY <2>3, <3>2, <3>3
    <2>7. Cardinality(window) = n
      <3> HIDE DEF rank, window
      <3> QED BY <1>3, <1>5, <1>6, <2>3, <2>5
    <2>8. \A f \in window : e < f
      <3>1. e <= last
        BY <2>1, <2>2
      <3> QED BY <1>2, <1>5, <2>1, <2>2, <2>6, <3>1
    <2> QED BY <2>7, <2>8
  <1> HIDE DEF window
  <1>8. \A e \in window : e <= d
    BY <1>5 DEF Upto
  <1>9. window \subseteq days
    BY <1>5 DEF Upto
  <1> QED BY <1>1, <1>4, <1>5, <1>6, <1>7, <1>8, <1>9

(* A window is short if and only if few days have come. *)
LEMMA ShortWindows ==
  ASSUME NEW days, Dated(days), NEW d \in days, NEW n \in Nat \ {0}, NEW min \in 1 .. n
  PROVE  Cardinality(Rolling!Window(days, d, n)) < min <=> Cardinality(Upto(days, d)) < min
  <1> DEFINE window == Rolling!Window(days, d, n)
             past   == Upto(days, d)
  <1>1. /\ window \subseteq days /\ d \in window /\ Dated(window)
        /\ \A e \in window : e <= d
        /\ Cardinality(window) \in 1 .. n
        /\ \A e \in days \ window : e < d => Cardinality(window) = n
    BY WindowSpan
  <1>2. Dated(past) /\ days \subseteq Nat
    BY PartsOfDays
  <1> HIDE DEF window
  <1>3. window \subseteq past
    BY <1>1, <1>2 DEF Upto
  <1>4. Cardinality(window) <= Cardinality(past) /\ Cardinality(past) \in Nat
    BY <1>2, <1>3, FewerDays
  <1>5. ASSUME Cardinality(window) < min PROVE window = past
    <2>1. Cardinality(window) # n
      BY <1>1, <1>5
    <2>2. \A e \in days \ window : ~(e < d)
      BY <1>1, <2>1
    <2>3. \A e \in past : e \in window
      <3> SUFFICES ASSUME NEW e \in days, e <= d, e \notin window PROVE FALSE
        BY DEF Upto
      <3>1. e # d /\ ~(e < d) /\ e \in Nat /\ d \in Nat
        BY <1>1, <1>2, <2>2
      <3> QED BY <3>1
    <2> QED BY <1>3, <2>3
  <1>6. Cardinality(window) < min => Cardinality(past) < min
    BY <1>5
  <1>7. Cardinality(past) < min => Cardinality(window) < min
    BY <1>1, <1>4
  <1> QED BY <1>6, <1>7 DEF window

(* The days of the warm-up: all but one of those that a value needs, or all that
   there are (warmup_point_count). *)
LEMMA WarmupDays ==
  ASSUME NEW days, Dated(days), NEW n \in Nat \ {0}, NEW min \in 1 .. n
  PROVE  Cardinality({d \in days : Cardinality(Rolling!Window(days, d, n)) < min})
           = Rolling!WarmupPoints(Cardinality(days), min)
  <1> DEFINE few   == {d \in days : Cardinality(Upto(days, d)) < min}
             later == days \ few
  <1>1. {d \in days : Cardinality(Rolling!Window(days, d, n)) < min} = few
    BY ShortWindows
  <1>2. /\ few \subseteq days /\ later \subseteq days /\ Dated(few) /\ Dated(later)
        /\ Cardinality(few) \in Nat /\ Cardinality(days) \in Nat
        /\ Cardinality(few) <= Cardinality(days) /\ days \subseteq Nat
    <2>1. few \subseteq days /\ later \subseteq days
      OBVIOUS
    <2> HIDE DEF few, later
    <2> QED BY <2>1, DatedSubset, FewerDays, PartsOfDays
  <1>3. \A d \in days : Dated(Upto(days, d)) /\ Cardinality(Upto(days, d)) \in Nat
    BY PartsOfDays, DatedFinite
  <1>4. Cardinality(few) <= min - 1
    <2>1. CASE few = {}
      BY <2>1, FS_EmptySet
    <2>2. CASE few # {}
      <3>1. PICK last \in few : \A d \in few : d <= last
        <4> HIDE DEF few
        <4> QED BY <1>2, <2>2, LastDay
      <3>2. Cardinality(Upto(days, last)) < min
        BY <3>1
      <3>3. few \subseteq Upto(days, last)
        <4> HIDE DEF few
        <4> QED BY <1>2, <3>1 DEF Upto
      <3>4. Cardinality(few) <= Cardinality(Upto(days, last)) /\ Cardinality(Upto(days, last)) \in Nat
        <4> HIDE DEF few
        <4> QED BY <1>2, <1>3, <3>1, <3>3, FewerDays
      <3> HIDE DEF few
      <3> QED BY <1>2, <3>2, <3>4
    <2> QED BY <2>1, <2>2
  <1>5. CASE later = {}
    <2>1. few = days
      BY <1>5
    <2> HIDE DEF few
    <2> QED BY <1>1, <1>2, <1>4, <2>1 DEF Rolling!WarmupPoints
  <1>6. CASE later # {}
    <2>1. PICK first \in later : \A d \in later : first <= d
      <3> HIDE DEF later
      <3> QED BY <1>2, <1>6, FirstDay
    <2> DEFINE past == Upto(days, first)
    <2>2. ~(Cardinality(past) < min) /\ first \in days /\ first \in Nat
      BY <1>2, <2>1
    <2>3. past \ {first} \subseteq few
      <3> SUFFICES ASSUME NEW d \in days, d <= first, d # first, d \notin few PROVE FALSE
        BY DEF Upto
      <3>1. d \in later /\ d \in Nat
        BY <1>2
      <3>2. first <= d
        BY <2>1, <3>1
      <3> QED BY <2>2, <3>1, <3>2
    <2> HIDE DEF few, later
    <2>4. first \in past /\ Dated(past) /\ Cardinality(past) \in Nat /\ past \subseteq days
      BY <1>3, <2>2 DEF Upto
    <2> HIDE DEF past
    <2>5. Cardinality(past) = Cardinality(past \ {first}) + 1
      BY <2>4, OneDayMore
    <2>6. Cardinality(past \ {first}) <= Cardinality(few) /\ Cardinality(past \ {first}) \in Nat
      BY <1>2, <2>3, FewerDays
    <2>7. Cardinality(past) <= Cardinality(days)
      BY <2>4, FewerDays
    <2>8. Cardinality(past) >= min
      BY <2>2, <2>4
    <2>9. Cardinality(few) = min - 1 /\ Cardinality(days) > min - 1
      BY <1>2, <1>4, <2>4, <2>5, <2>6, <2>7, <2>8
    <2>10. Rolling!WarmupPoints(Cardinality(days), min) = min - 1
      BY <1>2, <2>9 DEF Rolling!WarmupPoints
    <2> QED BY <1>1, <2>9, <2>10
  <1> QED BY <1>5, <1>6

-----------------------------------------------------------------------------
(* The requests and the books that are checked *)

Kinds == {"portfolio", "benchmark", "riskFree"}

SoundPeriod(period, horizon) ==
  \/ period.type = "EXPLICIT" /\ period.from \in 0 .. horizon /\ period.to \in 0 .. horizon
  \/ period.type = "TO_DATE" /\ period.from \in 0 .. horizon
  \/ period.type = "SI"

(* A request that passes its contract (rolling_common_inputs.py: metrics and
   windows; risk_common_inputs.py: periods), with books of dated returns.  If a
   stateful one asks since inception, which ends with its own day, its other periods
   end no later: build_returns_series_window does not ask for the rest. *)
Sound(q, held) ==
  /\ q.mode \in {"STATELESS", "STATEFUL"}
  /\ q.metrics \subseteq Rolling!Metrics
  /\ q.windows \subseteq Nat \ {0, 1}
  /\ q.asOf \in Nat
  /\ DOMAIN q.periods # {}
  /\ \E horizon \in Nat :
       q.asOf <= horizon /\ \A k \in DOMAIN q.periods : SoundPeriod(q.periods[k], horizon)
  /\ (q.mode = "STATEFUL" /\ \E k \in DOMAIN q.periods : q.periods[k].type = "SI") =>
       \A k \in DOMAIN q.periods : q.periods[k].type = "EXPLICIT" => q.periods[k].to <= q.asOf
  /\ \A kind \in Kinds : Dated(DOMAIN held[kind])

(* Worlds made of dated series are sound. *)
LEMMA WorldsOfSound ==
  ASSUME NEW mode \in {"STATELESS", "STATEFUL"}, NEW choices, NEW portfolios, NEW policies, NEW askedFor,
         \A c \in choices : c[1] \subseteq Rolling!Metrics 
            /\ (\A s \in c[2] : DOMAIN s \subseteq 0 .. 7) /\ \A s \in c[3] : DOMAIN s \subseteq 0 .. 7,
         \A s \in portfolios : DOMAIN s \subseteq 0 .. 7,
         NEW world \in RollingWorlds!WorldsOf(mode, choices, portfolios, policies, askedFor)
  PROVE  Sound(world.request, world.books)
  <1>1. PICK choice \in choices : \E periods \in RollingWorlds!PeriodSets, policy \in policies,
           day \in {7, 9}, money \in askedFor, portfolio \in portfolios, benchmark \in choice[2],
           riskFree \in choice[3] :
             world = [request |-> [mode |-> mode, metrics |-> choice[1], periods |-> periods,
                   windows |-> {2, 3}, policy |-> policy, asOf |-> day,
                   timeSeries |-> day = 7, currency |-> money],
                   books |-> [portfolio |-> portfolio, benchmark |-> benchmark, riskFree |-> riskFree]]
    BY DEF RollingWorlds!WorldsOf
  <1> DEFINE benchmarks == choice[2]
             ratesOf == choice[3]
  <1>1a. PICK periods \in RollingWorlds!PeriodSets, policy \in policies,
           day \in {7, 9}, money \in askedFor, portfolio \in portfolios, benchmark \in benchmarks,
           riskFree \in ratesOf :
             world = [request |-> [mode |-> mode, metrics |-> choice[1], periods |-> periods,
                   windows |-> {2, 3}, policy |-> policy, asOf |-> day,
                   timeSeries |-> day = 7, currency |-> money],
                   books |-> [portfolio |-> portfolio, benchmark |-> benchmark, riskFree |-> riskFree]]
    BY <1>1
  <1>2. /\ DOMAIN periods # {} /\ \A k \in DOMAIN periods : SoundPeriod(periods[k], day)
        /\ \A k \in DOMAIN periods : periods[k].type = "EXPLICIT" => periods[k].to <= day
    BY DEF RollingWorlds!PeriodSets, SoundPeriod
  <1>3. \A kind \in Kinds : Dated(DOMAIN world.books[kind])
    <2>1. DOMAIN portfolio \subseteq 0 .. 7 /\ DOMAIN benchmark \subseteq 0 .. 7 /\ DOMAIN riskFree \subseteq 0 .. 7
      OBVIOUS
    <2>2. Dated(DOMAIN portfolio) /\ Dated(DOMAIN benchmark) /\ Dated(DOMAIN riskFree)
      BY <2>1 DEF Dated
    <2> QED BY <1>1a, <2>2 DEF Kinds
  <1>4. /\ world.request.mode = mode /\ world.request.metrics \subseteq Rolling!Metrics
        /\ world.request.windows = {2, 3} /\ world.request.asOf = day /\ day \in Nat /\ day <= day
        /\ world.request.periods = periods
    BY <1>1a
  <1> QED BY <1>2, <1>3, <1>4 DEF Sound

(* The series of some days have those days. *)
LEMMA SeriesAreDated ==
  ASSUME NEW days, days \subseteq 0 .. 7, NEW s \in RollingWorlds!Series(days)
  PROVE  DOMAIN s \subseteq 0 .. 7
  <1>1. PICK some \in SUBSET days : s \in [some -> {0, 1}]
    BY DEF RollingWorlds!Series
  <1> QED BY <1>1

(* The worlds that are checked are sound. *)
LEMMA WorldsAreSound ==
  ASSUME NEW world \in RollingWorlds!Worlds
  PROVE  Sound(world.request, world.books)
  <1>1. \A s \in RollingWorlds!MostSeries \cup RollingWorlds!SomeSeries : DOMAIN s \subseteq 0 .. 7
    <2>1. {3, 4, 5, 7} \subseteq 0 .. 7
      OBVIOUS
    <2>2. \A s \in RollingWorlds!MostSeries : s \in RollingWorlds!Series({3, 4, 5, 7})
      BY DEF RollingWorlds!MostSeries
    <2>3. RollingWorlds!SomeSeries \subseteq RollingWorlds!MostSeries
      BY DEF RollingWorlds!SomeSeries
    <2> QED BY <2>1, <2>2, <2>3, SeriesAreDated
  <1>2. \A s \in RollingWorlds!Dependencies \cup {RollingWorlds!NoReturns, [d \in {3, 4} |-> d]} :
          DOMAIN s \subseteq 0 .. 7
    BY DEF RollingWorlds!Dependencies, RollingWorlds!NoReturns
  <1> DEFINE few == RollingWorlds!Dependencies \cup {RollingWorlds!NoReturns, [d \in {3, 4} |-> d]}
             none == {RollingWorlds!NoReturns}
             one == {[d \in {3, 4} |-> d]}
             some == RollingWorlds!Dependencies
  <1>2a. none \subseteq few /\ one \subseteq few /\ some \subseteq few
    OBVIOUS
  <1>2b. RollingWorlds!EachMetric =
           {<<{"ROLLING_VOLATILITY"}, none, none>>,
            <<{"ROLLING_MAX_DRAWDOWN", "ROLLING_TRACKING_ERROR", "ROLLING_BETA"}, some, none>>,
            <<{"ROLLING_SHARPE"}, none, some>>,
            <<{"ROLLING_INFORMATION_RATIO"}, some, none>>,
            <<{"ROLLING_BETA", "ROLLING_SHARPE"}, one, some>>}
    BY DEF RollingWorlds!EachMetric, RollingWorlds!WithoutRates, RollingWorlds!WithRates
  <1>2c. Rolling!Metrics = {"ROLLING_VOLATILITY", "ROLLING_MAX_DRAWDOWN", "ROLLING_BETA",
                "ROLLING_TRACKING_ERROR", "ROLLING_INFORMATION_RATIO", "ROLLING_SHARPE"}
    BY DEF Rolling!Metrics, Rolling!OwnMetrics, Rolling!BenchmarkMetrics, Rolling!RiskFreeMetrics
  <1>2d. \A s \in few : DOMAIN s \subseteq 0 .. 7
    BY <1>2
  <1> HIDE DEF few, none, one, some
  <1>3. \A c \in RollingWorlds!EachMetric :
          c[1] \subseteq Rolling!Metrics /\ c[2] \subseteq few /\ c[3] \subseteq few
    BY <1>2a, <1>2b, <1>2c
  <1>4. \A c \in RollingWorlds!EachMetric :
          /\ c[1] \subseteq Rolling!Metrics
          /\ (\A s \in c[2] : DOMAIN s \subseteq 0 .. 7) /\ \A s \in c[3] : DOMAIN s \subseteq 0 .. 7
    BY <1>2d, <1>3
  <1>5. RollingWorlds!WithoutRates \subseteq RollingWorlds!EachMetric
        /\ RollingWorlds!WithRates \subseteq RollingWorlds!EachMetric
    BY DEF RollingWorlds!EachMetric
  <1>6. \E mode \in {"STATELESS", "STATEFUL"}, choices \in SUBSET RollingWorlds!EachMetric,
           portfolios \in SUBSET (RollingWorlds!MostSeries \cup RollingWorlds!SomeSeries) :
           \E policies, askedFor : world \in RollingWorlds!WorldsOf(mode, choices, portfolios, policies, askedFor)
    BY <1>5 DEF RollingWorlds!Worlds
  <1> QED BY <1>1, <1>4, <1>6, WorldsOfSound

-----------------------------------------------------------------------------
(* What the engine gives for a period *)

(* The series of a period (rolling_period_series). *)
Inside(series, q, k) ==
  [kind \in Kinds |->
     Rolling!Within(series[kind],
       Rolling!Resolved(q.periods[k], q.asOf, Rolling!Earliest(DOMAIN series.portfolio)))]

(* The result of a period is that of the series inside it. *)
LEMMA ResultOf ==
  ASSUME NEW series, NEW q, NEW k \in DOMAIN q.periods, DOMAIN series.portfolio # {}
  PROVE  LET result == Rolling!Results(series, q)[k]
             inside == Inside(series, q, k)
         IN /\ result.count = Cardinality(DOMAIN inside.portfolio)
            /\ result.error = "none" <=> ~(Cardinality(DOMAIN inside.portfolio) < 2)
            /\ result.error = "none" =>
                 /\ DOMAIN result.windows = q.windows
                 /\ \A n \in q.windows :
                      result.windows[n] = Rolling!WindowResult(inside, q.metrics, n, q.policy)
                 /\ result.flags =
                      UNION {Rolling!MetricFlags(m, inside, n, Rolling!MinObservations(n, q.policy)) :
                               m \in q.metrics, n \in q.windows}
  <1> DEFINE inside == Inside(series, q, k)
             bounds == Rolling!Resolved(q.periods[k], q.asOf,
                                        Rolling!Earliest(DOMAIN series.portfolio))
             error == IF Cardinality(DOMAIN inside.portfolio) < 2 THEN "Insufficient data" ELSE "none"
             result == Rolling!Results(series, q)[k]
  <1>1. result = Rolling!Calculated(series, q, q.periods[k])
    BY DEF Rolling!Results
  <1>2. result = Rolling!PeriodResult(inside, bounds, q, error)
    BY <1>1, Counting DEF Rolling!Calculated, Inside, Kinds
  <1> HIDE DEF inside, bounds, error
  <1>3. /\ result.count = Cardinality(DOMAIN inside.portfolio)
        /\ result.error = error
        /\ error = "none" =>
             /\ result.windows = [n \in q.windows |->
                      Rolling!WindowResult(inside, q.metrics, n, q.policy)]
             /\ result.flags =
                      UNION {Rolling!MetricFlags(m, inside, n, Rolling!MinObservations(n, q.policy)) :
                               m \in q.metrics, n \in q.windows}
    BY <1>2, Counting DEF Rolling!PeriodResult
  <1>4. error = "none" <=> ~(Cardinality(DOMAIN inside.portfolio) < 2)
    BY DEF error
  <1> HIDE DEF result
  <1>5. result.error = "none" => 
          /\ DOMAIN result.windows = q.windows
          /\ \A n \in q.windows :
                      result.windows[n] = Rolling!WindowResult(inside, q.metrics, n, q.policy)
    BY <1>3
  <1> QED BY <1>3, <1>4, <1>5 DEF inside, result

(* A point of a window has the values of its metrics; a summary is that of the values of a
   metric (calculate_window_result, rolling_metric_series_points). *)
LEMMA PointsOf ==
  ASSUME NEW series, NEW metrics, NEW n, NEW policy
  PROVE  LET result == Rolling!WindowResult(series, metrics, n, policy)
             min == Rolling!MinObservations(n, policy)
         IN /\ \A d \in DOMAIN result.points, m \in metrics :
                 m \in DOMAIN result.points[d] =>
                   /\ d \in Rolling!MetricDays(m, series)
                   /\ result.points[d][m] = Rolling!MetricValues(m, series, n, min)[d]
            /\ \A m \in metrics :
                 result.summaries[m] = Rolling!Summary(Rolling!MetricValues(m, series, n, min), min)
  <1> DEFINE min == Rolling!MinObservations(n, policy)
             valuesOf == [m \in metrics |-> Rolling!MetricValues(m, series, n, min)]
             result == Rolling!WindowResult(series, metrics, n, policy)
  <1>1. /\ result.points = Rolling!SeriesPoints(valuesOf)
        /\ result.summaries = [m \in metrics |-> Rolling!Summary(valuesOf[m], min)]
    BY DEF Rolling!WindowResult
  <1>2. \A m \in metrics : DOMAIN valuesOf[m] = Rolling!MetricDays(m, series)
    BY DEF Rolling!MetricValues
  <1>3. ASSUME NEW d \in DOMAIN Rolling!SeriesPoints(valuesOf), NEW m \in DOMAIN Rolling!SeriesPoints(valuesOf)[d]
        PROVE  /\ m \in metrics /\ d \in DOMAIN valuesOf[m]
               /\ Rolling!SeriesPoints(valuesOf)[d][m] = valuesOf[m][d]
    BY <1>3 DEF Rolling!SeriesPoints
  <1> QED BY <1>1, <1>2, <1>3

(* A value that is defined is computed from the returns of its window. *)
LEMMA ValueTells ==
  ASSUME NEW m \in Rolling!Metrics, NEW series, NEW n, NEW min, NEW d \in Rolling!MetricDays(m, series),
         Rolling!MetricValues(m, series, n, min)[d] # Rolling!Undefined
  PROVE  Rolling!MetricValues(m, series, n, min)[d]
           = Rolling!Argument(m, series, Rolling!Window(Rolling!MetricDays(m, series), d, n))
  BY DEF Rolling!MetricValues

-----------------------------------------------------------------------------
(* What the engine is given *)

(* The metrics that join a dependency. *)
Joining(kind) == IF kind = "benchmark" THEN Rolling!BenchmarkMetrics ELSE Rolling!RiskFreeMetrics

(* On some days a series has what the books have. *)
Agrees(series, kind, days) ==
  /\ DOMAIN series \cap days = Rolling!FactDays(kind) \cap days
  /\ \A d \in DOMAIN series \cap days : series[d] = books[kind][d]

(* The returns of the portfolio that the books have, those of each period among
   them, and the dependencies on their days. *)
Faithful(series) ==
  /\ DOMAIN series.portfolio \subseteq Rolling!FactDays("portfolio")
  /\ \A k \in DOMAIN request.periods :
       Rolling!PeriodDays("portfolio", request.periods[k]) \subseteq DOMAIN series.portfolio
  /\ \A d \in DOMAIN series.portfolio : series.portfolio[d] = books.portfolio[d]
  /\ \A kind \in {"benchmark", "riskFree"} :
       Rolling!Wants(Joining(kind)) => Agrees(series[kind], kind, DOMAIN series.portfolio)

(* The bounds of a period, and what resolving them changes: they begin with the returns. *)
LEMMA SoundBounds ==
  ASSUME NEW period, NEW end \in Nat, NEW horizon \in Nat, SoundPeriod(period, horizon),
         NEW first \in Nat
  PROVE  LET bounds == Rolling!Bounds(period, end, 0)
             resolved == Rolling!Resolved(period, end, first)
         IN /\ bounds.start \in Nat /\ bounds.end \in Nat
            /\ resolved.end = bounds.end
            /\ resolved.start = Rolling!Larger(bounds.start, first)
  <1> DEFINE bounds == Rolling!Bounds(period, end, 0)
             opened == Rolling!Bounds(period, end, first)
             resolved == Rolling!Resolved(period, end, first)
  <1>1. CASE period.type = "EXPLICIT"
    <2>1. bounds = [start |-> period.from, end |-> period.to] /\ opened = bounds
      BY <1>1 DEF Rolling!Bounds
    <2>2. resolved = [start |-> Rolling!Larger(period.from, first), end |-> period.to]
      BY <2>1 DEF Rolling!Resolved
    <2> QED BY <1>1, <2>1, <2>2 DEF SoundPeriod
  <1>2. CASE period.type = "TO_DATE"
    <2>1. bounds = [start |-> period.from, end |-> end] /\ opened = bounds
      BY <1>2 DEF Rolling!Bounds
    <2>2. resolved = [start |-> Rolling!Larger(period.from, first), end |-> end]
      BY <2>1 DEF Rolling!Resolved
    <2> QED BY <1>2, <2>1, <2>2 DEF SoundPeriod
  <1>3. CASE period.type = "SI"
    <2>1. bounds = [start |-> 0, end |-> end] /\ opened = [start |-> first, end |-> end]
      BY <1>3 DEF Rolling!Bounds
    <2>2. resolved = [start |-> Rolling!Larger(first, first), end |-> end]
      BY <2>1 DEF Rolling!Resolved
    <2>3. Rolling!Larger(first, first) = Rolling!Larger(0, first)
      BY DEF Rolling!Larger
    <2> QED BY <1>3, <2>1, <2>2, <2>3
  <1> QED BY <1>1, <1>2, <1>3 DEF SoundPeriod

(* The facts of the books are some of their days. *)
LEMMA FactsAreDated ==
  ASSUME Sound(request, books), NEW kind \in Kinds
  PROVE  Dated(Rolling!FactDays(kind)) /\ Rolling!FactDays(kind) \subseteq DOMAIN books[kind]
  <1>1. Rolling!FactDays(kind) \subseteq DOMAIN books[kind]
    BY DEF Rolling!FactDays
  <1> QED BY <1>1, DatedSubset DEF Sound

(* The days of a period that the engine cuts out are those of the facts. *)
LEMMA InsideIsThePeriod ==
  ASSUME Sound(request, books), NEW series, Faithful(series), DOMAIN series.portfolio # {},
         NEW k \in DOMAIN request.periods
  PROVE  LET inside == Inside(series, request, k)
             period == request.periods[k]
         IN /\ DOMAIN inside.portfolio = Rolling!PeriodDays("portfolio", period)
            /\ \A d \in DOMAIN inside.portfolio : inside.portfolio[d] = books.portfolio[d]
            /\ \A kind \in {"benchmark", "riskFree"} : Rolling!Wants(Joining(kind)) =>
                 /\ DOMAIN inside.portfolio \cap DOMAIN inside[kind]
                      = Rolling!PeriodDays("portfolio", period) \cap Rolling!PeriodDays(kind, period)
                 /\ \A d \in DOMAIN inside.portfolio \cap DOMAIN inside[kind] :
                      inside[kind][d] = books[kind][d]
  <1> DEFINE period == request.periods[k]
             first == Rolling!Earliest(DOMAIN series.portfolio)
             bounds == Rolling!Bounds(period, request.asOf, 0)
             resolved == Rolling!Resolved(period, request.asOf, first)
             inside == Inside(series, request, k)
  <1>1. Dated(Rolling!FactDays("portfolio")) /\ Dated(DOMAIN series.portfolio)
    BY FactsAreDated, DatedSubset DEF Faithful, Kinds
  <1>2. /\ first \in DOMAIN series.portfolio /\ first \in Nat
        /\ \A d \in DOMAIN series.portfolio : d \in Nat /\ first <= d
    <2>1. DOMAIN series.portfolio \subseteq Nat
      BY <1>1 DEF Dated
    <2> QED BY <1>1, <2>1, EarliestDay
  <1>3. /\ bounds.start \in Nat /\ bounds.end \in Nat /\ resolved.end = bounds.end
        /\ resolved.start = Rolling!Larger(bounds.start, first)
    <2>1. PICK horizon \in Nat : SoundPeriod(period, horizon) /\ request.asOf \in Nat
      BY DEF Sound
    <2> QED BY <1>2, <2>1, SoundBounds
  <1>4. \A kind \in Kinds :
          /\ DOMAIN inside[kind] = {d \in DOMAIN series[kind] : resolved.start <= d /\ d <= resolved.end}
          /\ \A d \in DOMAIN inside[kind] : inside[kind][d] = series[kind][d]
    BY DEF Inside, Rolling!Within, Rolling!Restrict
  <1> HIDE DEF first, bounds, resolved, inside
  <1>5. \A d \in DOMAIN series.portfolio : resolved.start <= d <=> bounds.start <= d
    BY <1>2, <1>3 DEF Rolling!Larger
  <1>6. \A kind \in Kinds :
          Rolling!PeriodDays(kind, period) =
             {d \in Rolling!FactDays(kind) : bounds.start <= d /\ d <= bounds.end}
    BY DEF Rolling!PeriodDays, bounds
  <1>7. DOMAIN inside.portfolio = Rolling!PeriodDays("portfolio", period)
    <2>1. DOMAIN inside.portfolio = {d \in DOMAIN series.portfolio : resolved.start <= d /\ d <= resolved.end}
      BY <1>4 DEF Kinds
    <2>2. Rolling!PeriodDays("portfolio", period) =
             {d \in Rolling!FactDays("portfolio") : bounds.start <= d /\ d <= bounds.end}
      BY <1>6 DEF Kinds
    <2>3. Rolling!PeriodDays("portfolio", period) \subseteq DOMAIN series.portfolio
          /\ DOMAIN series.portfolio \subseteq Rolling!FactDays("portfolio")
      BY DEF Faithful
    <2> QED BY <1>3, <1>5, <2>1, <2>2, <2>3
  <1>8. \A d \in DOMAIN inside.portfolio : inside.portfolio[d] = books.portfolio[d]
    <2>1. DOMAIN inside.portfolio \subseteq DOMAIN series.portfolio
          /\ \A d \in DOMAIN inside.portfolio : inside.portfolio[d] = series.portfolio[d]
      BY <1>4 DEF Kinds
    <2> QED BY <2>1 DEF Faithful
  <1>9. ASSUME NEW kind \in {"benchmark", "riskFree"}, Rolling!Wants(Joining(kind))
        PROVE  /\ DOMAIN inside.portfolio \cap DOMAIN inside[kind]
                      = Rolling!PeriodDays("portfolio", period) \cap Rolling!PeriodDays(kind, period)
               /\ \A d \in DOMAIN inside.portfolio \cap DOMAIN inside[kind] :
                      inside[kind][d] = books[kind][d]
    <2>1. /\ DOMAIN series[kind] \cap DOMAIN series.portfolio
               = Rolling!FactDays(kind) \cap DOMAIN series.portfolio
          /\ \A d \in DOMAIN series[kind] \cap DOMAIN series.portfolio : series[kind][d] = books[kind][d]
      BY <1>9 DEF Faithful, Agrees
    <2>2. kind \in Kinds /\ DOMAIN inside.portfolio \subseteq DOMAIN series.portfolio
      BY <1>4 DEF Kinds
    <2>3. /\ DOMAIN inside[kind] = {d \in DOMAIN series[kind] : resolved.start <= d /\ d <= resolved.end}
          /\ \A d \in DOMAIN inside[kind] : inside[kind][d] = series[kind][d]
          /\ Rolling!PeriodDays(kind, period) =
               {d \in Rolling!FactDays(kind) : bounds.start <= d /\ d <= bounds.end}
      BY <1>4, <1>6, <2>2
    <2>4. \A d \in DOMAIN inside.portfolio :
             d \in DOMAIN inside[kind] <=> d \in Rolling!PeriodDays(kind, period)
      BY <1>3, <1>5, <2>1, <2>2, <2>3
    <2> QED BY <1>7, <2>1, <2>2, <2>3, <2>4
  <1> QED BY <1>7, <1>8, <1>9 DEF inside

(* The days that the engine rolls a metric over are those that the books join,
   with what the books have there. *)
LEMMA RolledDaysAreJoined ==
  ASSUME Sound(request, books), NEW series, Faithful(series), DOMAIN series.portfolio # {},
         NEW k \in DOMAIN request.periods, NEW m \in request.metrics
  PROVE  LET inside == Inside(series, request, k)
             days == Rolling!MetricDays(m, inside)
         IN /\ m \in Rolling!Metrics
            /\ days = Rolling!JoinedDays(m, request.periods[k]) /\ Dated(days)
            /\ days \subseteq DOMAIN inside.portfolio
            /\ \A d \in days : 
                 /\ inside.portfolio[d] = books.portfolio[d]
                 /\ m \notin Rolling!OwnMetrics =>
                      inside[Rolling!DependencyOf(m)][d] = books[Rolling!DependencyOf(m)][d]
  <1> DEFINE inside == Inside(series, request, k)
             period == request.periods[k]
             days == Rolling!MetricDays(m, inside)
  <1>1. m \in Rolling!Metrics
    BY DEF Sound
  <1>2. /\ DOMAIN inside.portfolio = Rolling!PeriodDays("portfolio", period)
        /\ \A d \in DOMAIN inside.portfolio : inside.portfolio[d] = books.portfolio[d]
        /\ \A kind \in {"benchmark", "riskFree"} : Rolling!Wants(Joining(kind)) =>
             /\ DOMAIN inside.portfolio \cap DOMAIN inside[kind]
                  = Rolling!PeriodDays("portfolio", period) \cap Rolling!PeriodDays(kind, period)
             /\ \A d \in DOMAIN inside.portfolio \cap DOMAIN inside[kind] :
                  inside[kind][d] = books[kind][d]
    BY InsideIsThePeriod
  <1> HIDE DEF inside
  <1>3. Dated(DOMAIN inside.portfolio)
    <2>1. Rolling!PeriodDays("portfolio", period) \subseteq Rolling!FactDays("portfolio")
      BY DEF Rolling!PeriodDays
    <2> QED BY <1>2, <2>1, FactsAreDated, DatedSubset DEF Kinds
  <1>4. CASE m \in Rolling!OwnMetrics
    <2>1. days = DOMAIN inside.portfolio
      BY <1>4 DEF Rolling!MetricDays, Rolling!OwnMetrics, Rolling!BenchmarkMetrics,
                  Rolling!RiskFreeMetrics
    <2>2. days = Rolling!JoinedDays(m, period)
      BY <1>2, <1>4, <2>1 DEF Rolling!JoinedDays
    <2> QED BY <1>1, <1>2, <1>3, <1>4, <2>1, <2>2 DEF inside
  <1>5. CASE m \notin Rolling!OwnMetrics
    <2> DEFINE kind == Rolling!DependencyOf(m)
    <2>1. kind \in {"benchmark", "riskFree"} /\ m \in Joining(kind) /\ m \in request.metrics
      BY <1>1, <1>5 DEF Rolling!DependencyOf, Joining, Rolling!Metrics
    <2>2. Rolling!Wants(Joining(kind))
      BY <2>1 DEF Rolling!Wants
    <2>3. days = DOMAIN inside.portfolio \cap DOMAIN inside[kind]
      BY <1>1, <1>5 DEF Rolling!MetricDays, Rolling!DependencyOf, Rolling!Metrics,
         Rolling!OwnMetrics, Rolling!BenchmarkMetrics, Rolling!RiskFreeMetrics
    <2>4. Rolling!JoinedDays(m, period)
            = Rolling!PeriodDays("portfolio", period) \cap Rolling!PeriodDays(kind, period)
      BY <1>5 DEF Rolling!JoinedDays
    <2>5. days \subseteq DOMAIN inside.portfolio
      BY <2>3
    <2>6. Dated(days)
      BY <1>3, <2>5, DatedSubset
    <2>7. days = Rolling!JoinedDays(m, period)
          /\ \A d \in days : inside[kind][d] = books[kind][d]
      BY <1>2, <2>1, <2>2, <2>3, <2>4
    <2> HIDE DEF kind, days
    <2> QED BY <1>1, <1>2, <2>5, <2>6, <2>7 DEF inside, kind, days
  <1> QED BY <1>4, <1>5

-----------------------------------------------------------------------------
(* What a response tells *)

(* A response is what the engine makes of faithful series. *)
ResponseTells ==
  Rolling!Responded => Faithful(admitted) /\ outcome.results = Rolling!Results(admitted, request)

(* A result of a response is one of the engine, for a period of the request. *)
LEMMA ResultsOfPeriods ==
  ASSUME Rolling!Responded, ResponseTells, NEW k \in DOMAIN outcome.results
  PROVE  /\ DOMAIN admitted.portfolio # {} /\ k \in DOMAIN request.periods /\ Faithful(admitted)
         /\ outcome.results[k] = Rolling!Results(admitted, request)[k]
  <1>1. k \in DOMAIN Rolling!Results(admitted, request)
    BY DEF ResponseTells
  <1> QED BY <1>1 DEF ResponseTells, Rolling!Results

(* A value never needs more days than its window has. *)
LEMMA MinIsSmall ==
  ASSUME NEW n \in Nat \ {0, 1}, NEW policy
  PROVE  Rolling!MinObservations(n, policy) \in 1 .. n
  BY DEF Rolling!MinObservations

(* What the engine makes of faithful series tells the books. *)
LEMMA ValuesFollow ==
  ASSUME Sound(request, books), ResponseTells
  PROVE  Rolling!ValuesTellTheBooks
  <1> SUFFICES ASSUME Rolling!Responded, NEW k \in DOMAIN outcome.results,
                      NEW n \in request.windows, NEW m \in request.metrics,
                      outcome.results[k].error = "none",
                      NEW d \in DOMAIN outcome.results[k].windows[n].points,
                      m \in DOMAIN outcome.results[k].windows[n].points[d],
                      outcome.results[k].windows[n].points[d][m] # Rolling!Undefined
               PROVE  LET value == outcome.results[k].windows[n].points[d][m]
                          days == DOMAIN value.portfolio
                          joined == Rolling!JoinedDays(m, request.periods[k])
                      IN /\ d \in days /\ days \subseteq joined /\ Rolling!Cardinality(days) <= n
                         /\ \A e \in joined \ days : e < d =>
                              Rolling!Cardinality(days) = n /\ \A f \in days : e < f
                         /\ \A e \in days :
                              /\ value.portfolio[e] = books.portfolio[e]
                              /\ m \notin Rolling!OwnMetrics =>
                                   value.other[e] = books[Rolling!DependencyOf(m)][e]
    BY DEF Rolling!ValuesTellTheBooks
  <1> DEFINE value == outcome.results[k].windows[n].points[d][m]
             joined == Rolling!JoinedDays(m, request.periods[k])
             inside == Inside(admitted, request, k)
             min == Rolling!MinObservations(n, request.policy)
             window == Rolling!Window(joined, d, n)
  <1>1. /\ DOMAIN admitted.portfolio # {} /\ k \in DOMAIN request.periods /\ Faithful(admitted)
        /\ outcome.results[k] = Rolling!Results(admitted, request)[k]
    BY ResultsOfPeriods
  <1>2. outcome.results[k].windows[n] = Rolling!WindowResult(inside, request.metrics, n, request.policy)
    BY <1>1, ResultOf
  <1>3. /\ m \in Rolling!Metrics
        /\ Rolling!MetricDays(m, inside) = joined /\ Dated(joined)
        /\ \A e \in joined :
             /\ inside.portfolio[e] = books.portfolio[e]
             /\ m \notin Rolling!OwnMetrics =>
                  inside[Rolling!DependencyOf(m)][e] = books[Rolling!DependencyOf(m)][e]
    BY <1>1, RolledDaysAreJoined
  <1> HIDE DEF inside
  <1>4. /\ d \in joined
        /\ value = Rolling!MetricValues(m, inside, n, min)[d]
    BY <1>2, <1>3, PointsOf
  <1>5. value = Rolling!Argument(m, inside, window)
    BY <1>3, <1>4, ValueTells
  <1>6. n \in Nat \ {0}
    BY DEF Sound
  <1>7. /\ window \subseteq joined /\ d \in window /\ Dated(window)
        /\ Cardinality(window) \in 1 .. n
        /\ \A e \in joined \ window : e < d => Cardinality(window) = n /\ \A f \in window : e < f
    <2> HIDE DEF joined, value
    <2> QED BY <1>3, <1>4, <1>6, WindowSpan
  <1> HIDE DEF window, value, joined, min
  <1>8. value.portfolio = Rolling!Restrict(inside.portfolio, window)
    BY <1>5 DEF Rolling!Argument
  <1>9. m \notin Rolling!OwnMetrics =>
          value.other = Rolling!Restrict(inside[Rolling!DependencyOf(m)], window)
    BY <1>3, <1>5 DEF Rolling!Argument, Rolling!DependencyOf, Rolling!Metrics, Rolling!OwnMetrics,
                      Rolling!BenchmarkMetrics, Rolling!RiskFreeMetrics
  <1>10. DOMAIN value.portfolio = window
         /\ \A e \in window : value.portfolio[e] = inside.portfolio[e]
    BY <1>8 DEF Rolling!Restrict
  <1>11. m \notin Rolling!OwnMetrics =>
           \A e \in window : value.other[e] = inside[Rolling!DependencyOf(m)][e]
    BY <1>9 DEF Rolling!Restrict
  <1>12. Rolling!Cardinality(window) = Cardinality(window)
    BY Counting
  <1>13. Cardinality(window) <= n
    BY <1>6, <1>7
  <1> QED BY <1>3, <1>7, <1>10, <1>11, <1>12, <1>13 DEF value, joined

(* The engine counts every day, and rolls each metric over every day that it joins. *)
LEMMA NoDayDropped ==
  ASSUME Sound(request, books), ResponseTells
  PROVE  Rolling!NoDayIsDropped
  <1> SUFFICES ASSUME Rolling!Responded, NEW k \in DOMAIN outcome.results
               PROVE  LET period == request.periods[k]
                          result == outcome.results[k]
                      IN /\ result.count = Rolling!Cardinality(Rolling!PeriodDays("portfolio", period))
                         /\ result.error = "none" =>
                              \A n \in request.windows, m \in request.metrics :
                                result.windows[n].summaries[m].total
                                  = Rolling!Cardinality(Rolling!JoinedDays(m, period))
    BY DEF Rolling!NoDayIsDropped
  <1> DEFINE period == request.periods[k]
             inside == Inside(admitted, request, k)
             result == outcome.results[k]
  <1>1. /\ DOMAIN admitted.portfolio # {} /\ k \in DOMAIN request.periods /\ Faithful(admitted)
        /\ result = Rolling!Results(admitted, request)[k]
    BY ResultsOfPeriods
  <1>2. result.count = Cardinality(DOMAIN inside.portfolio)
    BY <1>1, ResultOf
  <1>3. DOMAIN inside.portfolio = Rolling!PeriodDays("portfolio", period)
    BY <1>1, InsideIsThePeriod
  <1>4. ASSUME result.error = "none", NEW n \in request.windows, NEW m \in request.metrics
        PROVE  result.windows[n].summaries[m].total
                 = Rolling!Cardinality(Rolling!JoinedDays(m, period))
    <2> DEFINE min == Rolling!MinObservations(n, request.policy)
    <2>1. result.windows[n] = Rolling!WindowResult(inside, request.metrics, n, request.policy)
      BY <1>1, <1>4, ResultOf
    <2>2. Rolling!MetricDays(m, inside) = Rolling!JoinedDays(m, period)
      BY <1>1, RolledDaysAreJoined
    <2> HIDE DEF inside, result
    <2>3. result.windows[n].summaries[m] = Rolling!Summary(Rolling!MetricValues(m, inside, n, min), min)
      BY <2>1, PointsOf
    <2>4. DOMAIN Rolling!MetricValues(m, inside, n, min) = Rolling!JoinedDays(m, period)
      BY <2>2 DEF Rolling!MetricValues
    <2> QED BY <2>3, <2>4 DEF Rolling!Summary
  <1> QED BY <1>2, <1>3, <1>4, Counting

(* The returns that a metric reads are never none. *)
LEMMA ArgumentsAreDefined ==
  ASSUME NEW m, NEW series, NEW window, window # {}
  PROVE  Rolling!Argument(m, series, window) # Rolling!Undefined
  <1>1. DOMAIN Rolling!Argument(m, series, window).portfolio = window
    BY DEF Rolling!Argument, Rolling!Restrict
  <1>2. DOMAIN Rolling!Undefined.portfolio = {}
    BY DEF Rolling!Undefined, Rolling!NoReturns
  <1> QED BY <1>1, <1>2

(* The points without a value: those of the warm-up, and those of a window in
   which what the metric divides by does not vary. *)
LEMMA PointsWithoutValue ==
  ASSUME NEW m, NEW series, NEW n \in Nat \ {0}, NEW min \in 1 .. n,
         Dated(Rolling!MetricDays(m, series))
  PROVE  LET days    == Rolling!MetricDays(m, series)
             values  == Rolling!MetricValues(m, series, n, min)
             summary == Rolling!Summary(values, min)
             steady(d) == Rolling!Divides(m) /\ ~Rolling!Varies(m, series, Rolling!Window(days, d, n))
         IN /\ summary.total = summary.computed + summary.warmup + summary.gap
            /\ summary.gap \in Nat
            /\ summary.total = 0 <=> days = {}
            /\ summary.gap > 0 <=>
                 \E d \in days : ~(Rolling!Cardinality(Rolling!Window(days, d, n)) < min) /\ steady(d)
  <1> DEFINE days    == Rolling!MetricDays(m, series)
             values  == Rolling!MetricValues(m, series, n, min)
             summary == Rolling!Summary(values, min)
             window(d) == Rolling!Window(days, d, n)
             steady(d) == Rolling!Divides(m) /\ ~Rolling!Varies(m, series, window(d))
             few      == {d \in days : Cardinality(window(d)) < min}
             full     == days \ few
             still    == {d \in full : steady(d)}
             computed == Rolling!ComputedDays(values)
  <1>1. DOMAIN values = days
        /\ \A d \in days : values[d] = IF Cardinality(window(d)) < min \/ steady(d)
                                         THEN Rolling!Undefined
                                         ELSE Rolling!Argument(m, series, window(d))
    BY Counting DEF Rolling!MetricValues
  <1>2. computed = full \ still
    <2>1. \A d \in days : d \in window(d)
      <3> HIDE DEF days
      <3> QED BY WindowSpan DEF days
    <2>2. \A d \in days : Rolling!Argument(m, series, window(d)) # Rolling!Undefined
      BY <2>1, ArgumentsAreDefined
    <2>3. computed = {d \in days : values[d] # Rolling!Undefined}
      BY <1>1 DEF Rolling!ComputedDays
    <2> HIDE DEF values, steady, window, days, computed
    <2> QED BY <1>1, <2>2, <2>3
  <1>3. Cardinality(few) = Rolling!WarmupPoints(Cardinality(days), min)
    <2> HIDE DEF days
    <2> QED BY WarmupDays DEF days
  <1>4. /\ summary.total = Cardinality(days)
        /\ summary.computed = Cardinality(computed)
        /\ summary.warmup = Rolling!WarmupPoints(Cardinality(days), min)
        /\ summary.gap = Rolling!Larger(summary.total - summary.computed - summary.warmup, 0)
    BY <1>1, Counting DEF Rolling!Summary
  <1>5. Dated(days)
    OBVIOUS
  <1>6. \A d : Rolling!Cardinality(window(d)) = Cardinality(window(d))
    BY Counting
  <1> HIDE DEF window, steady, days, values, computed, summary
  <1>7. /\ IsFiniteSet(days) /\ IsFiniteSet(few) /\ IsFiniteSet(full) /\ IsFiniteSet(still)
        /\ IsFiniteSet(computed)
    <2>1. few \subseteq days /\ full \subseteq days /\ still \subseteq days /\ computed \subseteq days
      BY <1>2
    <2> HIDE DEF few, full, still
    <2> QED BY <1>5, <2>1, DatedFinite, DatedSubset
  <1>8. /\ Cardinality(days) \in Nat /\ Cardinality(few) \in Nat /\ Cardinality(full) \in Nat
        /\ Cardinality(still) \in Nat /\ Cardinality(computed) \in Nat
    BY <1>7, FS_CardinalityType
  <1>9. Cardinality(full) = Cardinality(days) - Cardinality(few)
    <2>1. few \subseteq days /\ days \cap few = few
      OBVIOUS
    <2>2. Cardinality(days \ few) = Cardinality(days) - Cardinality(days \cap few)
      <3> HIDE DEF few
      <3> QED BY <1>7, FS_Difference
    <2> QED BY <2>1, <2>2
  <1>10. Cardinality(computed) = Cardinality(full) - Cardinality(still)
    <2>1. full \cap still = still
      OBVIOUS
    <2>2. Cardinality(full \ still) = Cardinality(full) - Cardinality(full \cap still)
      <3> HIDE DEF full, still
      <3> QED BY <1>7, FS_Difference
    <2> HIDE DEF full, still
    <2> QED BY <1>2, <2>1, <2>2
  <1>11. summary.gap = Cardinality(still)
    <2> HIDE DEF few, full, still
    <2>1. summary.total - summary.computed - summary.warmup = Cardinality(still)
      BY <1>3, <1>4, <1>8, <1>9, <1>10
    <2> QED BY <1>4, <1>8, <2>1 DEF Rolling!Larger
  <1>12. summary.total = summary.computed + summary.warmup + summary.gap
    <2> HIDE DEF few, full, still
    <2> QED BY <1>3, <1>4, <1>8, <1>9, <1>10, <1>11
  <1>13. Cardinality(still) > 0 <=> still # {}
    <2> HIDE DEF still
    <2> QED BY <1>7, <1>8, FS_EmptySet
  <1>14. Cardinality(days) = 0 <=> days = {}
    BY <1>7, FS_EmptySet
  <1>15. still # {} <=> \E d \in days : ~(Cardinality(window(d)) < min) /\ steady(d)
    OBVIOUS
  <1> HIDE DEF few, full, still
  <1>16. /\ summary.gap \in Nat
         /\ summary.total = 0 <=> days = {}
         /\ summary.gap > 0 <=> \E d \in days : ~(Rolling!Cardinality(window(d)) < min) /\ steady(d)
    BY <1>4, <1>6, <1>8, <1>11, <1>13, <1>14, <1>15
  <1> QED BY <1>12, <1>16 DEF summary, days, values, window, steady

(* The flags of a metric: that it joins no day, or that a full window of it has
   nothing to divide by. *)
LEMMA FlagsTell ==
  ASSUME NEW m, NEW series, NEW n \in Nat \ {0}, NEW min \in Nat, NEW x, NEW flag,
         Dated(Rolling!MetricDays(m, series)),
         m \in Rolling!OwnMetrics => Rolling!MetricDays(m, series) # {}
  PROVE  LET days == Rolling!MetricDays(m, series)
             stands == \E d \in days :
               /\ ~(Rolling!Cardinality(Rolling!Window(days, d, n)) < min)
               /\ Rolling!Divides(m) /\ ~Rolling!Varies(m, series, Rolling!Window(days, d, n))
         IN <<x, flag>> \in Rolling!MetricFlags(m, series, n, min) <=>
              /\ x = m
              /\ \/ flag = "alignment_empty" /\ days = {}
                 \/ flag = "zero" /\ stands
  <1> DEFINE days == Rolling!MetricDays(m, series)
             size(d) == Rolling!Cardinality(Rolling!Window(days, d, n))
             steady(d) == ~Rolling!Varies(m, series, Rolling!Window(days, d, n))
             still == Rolling!Divides(m) /\ \E d \in {e \in days : size(e) >= min} : steady(d)
             stands == \E d \in days : ~(size(d) < min) /\ Rolling!Divides(m) /\ steady(d)
  <1>1. Rolling!MetricFlags(m, series, n, min) =
          IF days = {} /\ m \notin Rolling!OwnMetrics THEN {<<m, "alignment_empty">>}
          ELSE IF still THEN {<<m, "zero">>} ELSE {}
    BY DEF Rolling!MetricFlags
  <1>2. \A d \in days : size(d) \in Nat
    <2> HIDE DEF days
    <2>1. \A d \in days : Rolling!Window(days, d, n) \subseteq days
      BY DEF Rolling!Window
    <2>2. \A d \in days : Dated(Rolling!Window(days, d, n))
      BY <2>1, DatedSubset DEF days
    <2> QED BY <2>2, DatedFinite, Counting
  <1>3. days = {} => m \notin Rolling!OwnMetrics /\ ~stands
    OBVIOUS
  <1>4. stands <=> still
    <2> HIDE DEF days, size
    <2> QED BY <1>2
  <1>5. <<x, flag>> \in Rolling!MetricFlags(m, series, n, min) <=>
          \/ days = {} /\ <<x, flag>> = <<m, "alignment_empty">>
          \/ stands /\ <<x, flag>> = <<m, "zero">>
    <2> HIDE DEF days, still, stands
    <2> QED BY <1>1, <1>3, <1>4
  <1>6. \A other : <<x, flag>> = <<m, other>> <=> x = m /\ flag = other
    OBVIOUS
  <1> HIDE DEF days, stands
  <1>7. <<x, flag>> \in Rolling!MetricFlags(m, series, n, min) <=>
          /\ x = m
          /\ \/ flag = "alignment_empty" /\ days = {}
             \/ flag = "zero" /\ stands
    BY <1>5, <1>6
  <1> QED BY <1>7 DEF days, stands

(* The engine flags what has no value although its window is full. *)
LEMMA GapsExplained ==
  ASSUME Sound(request, books), ResponseTells
  PROVE  Rolling!GapsAreExplained
  <1> SUFFICES ASSUME Rolling!Responded, NEW k \in DOMAIN outcome.results,
                      outcome.results[k].error = "none", NEW m \in request.metrics
               PROVE  LET result == outcome.results[k]
                          summary(n) == result.windows[n].summaries[m]
                      IN /\ \A n \in request.windows :
                              summary(n).total =
                                summary(n).computed + summary(n).warmup + summary(n).gap
                         /\ <<m, "zero">> \in result.flags
                              <=> \E n \in request.windows : summary(n).gap > 0
                         /\ <<m, "alignment_empty">> \in result.flags
                              <=> \E n \in request.windows : summary(n).total = 0
    BY DEF Rolling!GapsAreExplained
  <1> DEFINE inside == Inside(admitted, request, k)
             result == outcome.results[k]
             summary(n) == result.windows[n].summaries[m]
             days == Rolling!MetricDays(m, inside)
             min(n) == Rolling!MinObservations(n, request.policy)
             stands(n) == \E d \in days :
               /\ ~(Rolling!Cardinality(Rolling!Window(days, d, n)) < min(n))
               /\ Rolling!Divides(m) /\ ~Rolling!Varies(m, inside, Rolling!Window(days, d, n))
  <1>1. /\ DOMAIN admitted.portfolio # {} /\ k \in DOMAIN request.periods /\ Faithful(admitted)
        /\ result = Rolling!Results(admitted, request)[k]
    BY ResultsOfPeriods
  <1>2. /\ \A n \in request.windows :
             result.windows[n] = Rolling!WindowResult(inside, request.metrics, n, request.policy)
        /\ result.flags = UNION {Rolling!MetricFlags(o, inside, n, min(n)) :
                                   o \in request.metrics, n \in request.windows}
        /\ ~(Cardinality(DOMAIN inside.portfolio) < 2)
    BY <1>1, ResultOf
  <1>3. \A o \in request.metrics : Dated(Rolling!MetricDays(o, inside)) /\ o \in Rolling!Metrics
    BY <1>1, RolledDaysAreJoined
  <1>4. DOMAIN inside.portfolio # {}
    BY <1>2, FS_EmptySet
  <1>5. \A n \in request.windows : n \in Nat \ {0} /\ min(n) \in 1 .. n /\ min(n) \in Nat
    <2>1. \A n \in request.windows : n \in Nat \ {0, 1}
      BY DEF Sound
    <2>2. \A n \in request.windows : min(n) \in 1 .. n
      BY <2>1, MinIsSmall
    <2> HIDE DEF min
    <2> QED BY <2>1, <2>2
  <1>6. \A o \in Rolling!OwnMetrics : Rolling!MetricDays(o, inside) # {}
    <2> HIDE DEF inside
    <2> QED BY <1>4 DEF Rolling!MetricDays, Rolling!OwnMetrics, Rolling!BenchmarkMetrics,
                         Rolling!RiskFreeMetrics
  <1> HIDE DEF inside, result
  <1>7. ASSUME NEW n \in request.windows
        PROVE  /\ summary(n).total = summary(n).computed + summary(n).warmup + summary(n).gap
               /\ summary(n).gap > 0 <=> stands(n)
               /\ summary(n).total = 0 <=> days = {}
    <2>1. summary(n) = Rolling!Summary(Rolling!MetricValues(m, inside, n, min(n)), min(n))
      BY <1>2, PointsOf
    <2> DEFINE least == min(n)
    <2>2. n \in Nat \ {0} /\ least \in 1 .. n /\ Dated(Rolling!MetricDays(m, inside))
      BY <1>3, <1>5
    <2> HIDE DEF least, summary
    <2>3. LET values == Rolling!MetricValues(m, inside, n, least)
              told == Rolling!Summary(values, least)
              steady(d) == Rolling!Divides(m) /\ ~Rolling!Varies(m, inside, Rolling!Window(days, d, n))
          IN /\ told.total = told.computed + told.warmup + told.gap
             /\ told.gap \in Nat
             /\ told.total = 0 <=> days = {}
             /\ told.gap > 0 <=>
                 \E d \in days : ~(Rolling!Cardinality(Rolling!Window(days, d, n)) < least) /\ steady(d)
      BY <2>2, PointsWithoutValue
    <2> QED BY <2>1, <2>3 DEF least
  <1>8. ASSUME NEW flag
        PROVE  <<m, flag>> \in result.flags <=>
                 \E n \in request.windows :
                   \/ flag = "alignment_empty" /\ days = {}
                   \/ flag = "zero" /\ stands(n)
    <2>1. <<m, flag>> \in result.flags <=>
            \E o \in request.metrics, n \in request.windows :
              <<m, flag>> \in Rolling!MetricFlags(o, inside, n, min(n))
      BY <1>2
    <2>2. ASSUME NEW o \in request.metrics, NEW n \in request.windows
          PROVE  <<m, flag>> \in Rolling!MetricFlags(o, inside, n, min(n)) <=>
                   /\ m = o
                   /\ \/ flag = "alignment_empty" /\ days = {}
                      \/ flag = "zero" /\ stands(n)
      <3> DEFINE least == min(n)
      <3>1. n \in Nat \ {0} /\ least \in Nat /\ Dated(Rolling!MetricDays(o, inside))
            /\ (o \in Rolling!OwnMetrics => Rolling!MetricDays(o, inside) # {})
        BY <1>3, <1>5, <1>6
      <3> HIDE DEF least
      <3>2. LET held == Rolling!MetricDays(o, inside)
                stood == \E d \in held :
                  /\ ~(Rolling!Cardinality(Rolling!Window(held, d, n)) < least)
                  /\ Rolling!Divides(o) /\ ~Rolling!Varies(o, inside, Rolling!Window(held, d, n))
            IN <<m, flag>> \in Rolling!MetricFlags(o, inside, n, least) <=>
                 /\ m = o
                 /\ \/ flag = "alignment_empty" /\ held = {}
                    \/ flag = "zero" /\ stood
        BY <3>1, FlagsTell
      <3> QED BY <3>2 DEF least
    <2> HIDE DEF stands, days, min
    <2> QED BY <2>1, <2>2
  <1> HIDE DEF summary, stands, days
  <1>9. <<m, "zero">> \in result.flags <=> \E n \in request.windows : summary(n).gap > 0
    BY <1>7, <1>8
  <1>10. <<m, "alignment_empty">> \in result.flags <=> \E n \in request.windows : summary(n).total = 0
    BY <1>7, <1>8
  <1> QED BY <1>7, <1>9, <1>10 DEF summary, result

-----------------------------------------------------------------------------
(* What the upstreams are asked for, and what an answer that is admitted has *)

(* A day of the window that is asked for. *)
InSource(d) ==
  IF Rolling!SourceWindow.label = "SI" THEN d <= request.asOf
  ELSE Rolling!SourceWindow.start <= d /\ d <= Rolling!SourceWindow.end

(* The trading days that the books of the portfolio have there. *)
SourceDays == {d \in DOMAIN books.portfolio : Rolling!Trading(d) /\ InSource(d)}

(* The bounds of the periods are days. *)
LEMMA BoundsAreDays ==
  ASSUME Sound(request, books), request.mode = "STATEFUL"
  PROVE  \E horizon \in Nat :
           /\ request.asOf \in 0 .. horizon
           /\ \A k \in DOMAIN request.periods :
                LET bounds == Rolling!Bounds(request.periods[k], request.asOf, 0)
                IN /\ bounds.start \in 0 .. horizon /\ bounds.end \in 0 .. horizon
                   /\ (\E j \in DOMAIN request.periods : request.periods[j].type = "SI") =>
                        bounds.end <= request.asOf
  <1>1. PICK horizon \in Nat :
          request.asOf <= horizon
            /\ \A k \in DOMAIN request.periods : SoundPeriod(request.periods[k], horizon)
    BY DEF Sound
  <1>2. request.asOf \in 0 .. horizon /\ request.asOf <= request.asOf
    BY <1>1 DEF Sound
  <1>3. ASSUME NEW k \in DOMAIN request.periods
        PROVE  LET bounds == Rolling!Bounds(request.periods[k], request.asOf, 0)
               IN /\ bounds.start \in 0 .. horizon /\ bounds.end \in 0 .. horizon
                  /\ (\E j \in DOMAIN request.periods : request.periods[j].type = "SI") =>
                       bounds.end <= request.asOf
    <2> DEFINE period == request.periods[k]
               bounds == Rolling!Bounds(period, request.asOf, 0)
    <2>1. CASE period.type = "EXPLICIT"
      <3>1. bounds = [start |-> period.from, end |-> period.to]
        BY <2>1 DEF Rolling!Bounds
      <3>2. period.from \in 0 .. horizon /\ period.to \in 0 .. horizon
        BY <1>1, <2>1 DEF SoundPeriod
      <3> QED BY <2>1, <3>1, <3>2 DEF Sound
    <2>2. CASE period.type = "TO_DATE"
      <3>1. bounds = [start |-> period.from, end |-> request.asOf]
        BY <2>2 DEF Rolling!Bounds
      <3>2. period.from \in 0 .. horizon
        BY <1>1, <2>2 DEF SoundPeriod
      <3> QED BY <1>2, <3>1, <3>2
    <2>3. CASE period.type = "SI"
      <3>1. bounds = [start |-> 0, end |-> request.asOf]
        BY <2>3 DEF Rolling!Bounds
      <3> QED BY <1>2, <3>1
    <2> QED BY <1>1, <2>1, <2>2, <2>3 DEF SoundPeriod
  <1> QED BY <1>2, <1>3

(* The window that is asked for covers every period (build_returns_series_window). *)
LEMMA SourceCoversPeriods ==
  ASSUME Sound(request, books), request.mode = "STATEFUL", NEW k \in DOMAIN request.periods, NEW d \in Nat,
         Rolling!Bounds(request.periods[k], request.asOf, 0).start <= d,
         d <= Rolling!Bounds(request.periods[k], request.asOf, 0).end
  PROVE  InSource(d)
  <1> DEFINE periods == {request.periods[j] : j \in DOMAIN request.periods}
             bounds(p) == Rolling!Bounds(p, request.asOf, 0)
             starts == {bounds(p).start : p \in periods}
             ends == {bounds(p).end : p \in periods}
             window == Rolling!SourceWindow
  <1>1. PICK horizon \in Nat :
          /\ request.asOf \in 0 .. horizon
          /\ \A p \in periods :
               /\ bounds(p).start \in 0 .. horizon /\ bounds(p).end \in 0 .. horizon
               /\ (\E q \in periods : q.type = "SI") => bounds(p).end <= request.asOf
    BY BoundsAreDays
  <1>2. request.periods[k] \in periods
    OBVIOUS
  <1>3. window = IF \E p \in periods : p.type = "SI" THEN [label |-> "SI", start |-> 0, end |-> 0]
                 ELSE [label |-> "none", start |-> Rolling!Earliest(starts),
                       end |-> CHOOSE e \in ends : \A f \in ends : f <= e]
    BY DEF Rolling!SourceWindow
  <1>4. bounds(request.periods[k]).start \in starts /\ bounds(request.periods[k]).end \in ends
    BY <1>2
  <1>5. Dated(starts) /\ Dated(ends)
    BY <1>1 DEF Dated
  <1>6. \A s \in starts : s \in Nat /\ Rolling!Earliest(starts) \in Nat /\ Rolling!Earliest(starts) <= s
    <2>1. starts \subseteq Nat
      BY <1>1
    <2> HIDE DEF starts
    <2> QED BY <1>5, <2>1, EarliestDay
  <1>7. \A e \in ends : e \in Nat /\ (CHOOSE f \in ends : \A g \in ends : g <= f) \in Nat
                        /\ e <= (CHOOSE f \in ends : \A g \in ends : g <= f)
    <2>1. ends \subseteq Nat
      BY <1>1
    <2> HIDE DEF ends
    <2> QED BY <1>5, <2>1, LastDay
  <1>8. bounds(request.periods[k]).start <= d /\ d <= bounds(request.periods[k]).end
    OBVIOUS
  <1>9. /\ bounds(request.periods[k]).end \in Nat /\ request.asOf \in Nat
        /\ (\E p \in periods : p.type = "SI") => bounds(request.periods[k]).end <= request.asOf
    BY <1>1, <1>2
  <1> HIDE DEF starts, ends, bounds, periods
  <1>10. CASE \E p \in periods : p.type = "SI"
    <2>1. d <= request.asOf
      BY <1>8, <1>9, <1>10
    <2> QED BY <1>3, <1>10, <2>1 DEF InSource
  <1>11. CASE ~ \E p \in periods : p.type = "SI"
    <2>1. window.label = "none" /\ window.start = Rolling!Earliest(starts)
          /\ window.end = CHOOSE e \in ends : \A f \in ends : f <= e
      BY <1>3, <1>11
    <2>2. window.start <= d /\ d <= window.end
      BY <1>4, <1>6, <1>7, <1>8, <2>1
    <2> QED BY <2>1, <2>2 DEF InSource
  <1> QED BY <1>10, <1>11

(* What a qualified answer has: all that the books have on the days asked for. *)
TellsSource(portfolio, benchmark) ==
  /\ DOMAIN portfolio = SourceDays
  /\ \A d \in DOMAIN portfolio : portfolio[d] = books.portfolio[d]
  /\ Rolling!Wants(Rolling!BenchmarkMetrics) => Agrees(benchmark, "benchmark", SourceDays)

(* What is admitted is what the engine should be given. *)
LEMMA SourceIsFaithful ==
  ASSUME Sound(request, books), request.mode = "STATEFUL",
         NEW series, TellsSource(series.portfolio, series.benchmark),
         Rolling!Wants(Rolling!RiskFreeMetrics) => Agrees(series.riskFree, "riskFree", SourceDays)
  PROVE  Faithful(series)
  <1>1. Rolling!FactDays("portfolio") = {d \in DOMAIN books.portfolio : Rolling!Trading(d)}
    BY DEF Rolling!FactDays
  <1>2. ASSUME NEW k \in DOMAIN request.periods,
               NEW d \in Rolling!PeriodDays("portfolio", request.periods[k])
        PROVE  d \in SourceDays
    <2>1. d \in Rolling!FactDays("portfolio") /\ d \in Nat
      <3>1. d \in Rolling!FactDays("portfolio")
        BY DEF Rolling!PeriodDays
      <3> QED BY <3>1, FactsAreDated DEF Kinds, Dated
    <2>2. InSource(d)
      <3>1. Rolling!Bounds(request.periods[k], request.asOf, 0).start <= d
            /\ d <= Rolling!Bounds(request.periods[k], request.asOf, 0).end
        BY DEF Rolling!PeriodDays
      <3> QED BY <2>1, <3>1, SourceCoversPeriods
    <2> QED BY <1>1, <2>1, <2>2 DEF SourceDays
  <1>3. DOMAIN series.portfolio = SourceDays /\ SourceDays \subseteq Rolling!FactDays("portfolio")
        /\ \A d \in DOMAIN series.portfolio : series.portfolio[d] = books.portfolio[d]
    BY <1>1 DEF TellsSource, SourceDays
  <1>4. \A kind \in {"benchmark", "riskFree"} :
          Rolling!Wants(Joining(kind)) => Agrees(series[kind], kind, SourceDays)
    BY DEF Joining, TellsSource
  <1> QED BY <1>2, <1>3, <1>4 DEF Faithful

(* Qualified, of an answer. *)
QualifiedAs(answer) ==
  /\ answer.deviation \notin {"unqualified", "other"}
  /\ answer.returned = Cardinality(DOMAIN Rolling!TradingRows(answer.portfolio))
  /\ IF Rolling!SourceWindow.label = "SI"
       THEN answer.label = "SI" /\ answer.end = request.asOf
       ELSE answer.start = Rolling!SourceWindow.start /\ answer.end = Rolling!SourceWindow.end
  /\ \A d \in DOMAIN Rolling!TradingRows(answer.portfolio) : answer.start <= d /\ d <= answer.end

(* A call that asks for the window. *)
AskedFor(call) ==
  /\ call.label = Rolling!SourceWindow.label
  /\ call.start = Rolling!SourceWindow.start /\ call.end = Rolling!SourceWindow.end

(* The window that is asked for is since inception or begins with a day. *)
LEMMA WindowIsDated ==
  ASSUME Sound(request, books), request.mode = "STATEFUL"
  PROVE  /\ Rolling!SourceWindow.label \in {"SI", "none"}
         /\ Rolling!SourceWindow.start \in Nat
  <1> DEFINE periods == {request.periods[j] : j \in DOMAIN request.periods}
             bounds(p) == Rolling!Bounds(p, request.asOf, 0)
             starts == {bounds(p).start : p \in periods}
  <1>1. PICK horizon \in Nat : \A p \in periods : bounds(p).start \in 0 .. horizon
    BY BoundsAreDays
  <1>2. Rolling!SourceWindow.label \in {"SI", "none"}
        /\ Rolling!SourceWindow.start \in {0, Rolling!Earliest(starts)}
    BY DEF Rolling!SourceWindow
  <1>3. Rolling!Earliest(starts) \in Nat
    <2>1. Dated(starts)
      BY <1>1 DEF Dated
    <2>2. starts # {}
      BY DEF Sound
    <2> HIDE DEF starts
    <2>3. Rolling!Earliest(starts) \in starts
      BY <2>1, <2>2, EarliestDay
    <2>4. starts \subseteq Nat
      BY <2>1 DEF Dated
    <2> QED BY <2>3, <2>4
  <1> HIDE DEF starts
  <1> QED BY <1>2, <1>3

(* An answer that qualifies has all that the books have on the days asked for, whatever the
   upstream did to it (extract_stateful_returns_source_evidence): a window of its own, an end
   cut off, a row lost that trades, one from outside and another portfolio are all refused. *)
LEMMA QualifiedAnswersTell ==
  ASSUME Sound(request, books), request.mode = "STATEFUL", AskedFor(returns),
         NEW deviation, NEW freshness, NEW answer,
         answer = Rolling!ReturnsAnswer(deviation, freshness), QualifiedAs(answer)
  PROVE  TellsSource(Rolling!TradingRows(answer.portfolio), Rolling!TradingRows(answer.benchmark))
  <1> DEFINE window == Rolling!SourceWindow
             wanted == Rolling!ProducerWindow(returns)
             given == IF deviation # "window" THEN wanted
                      ELSE IF returns.label = "SI" THEN [wanted EXCEPT !.end = @ - 1]
                      ELSE [wanted EXCEPT !.start = @ + 1]
             all   == IF deviation = "outside" THEN books.portfolio
                      ELSE Rolling!Within(books.portfolio, given)
             days  == DOMAIN all
             kept  == IF deviation = "lost" /\ days # {} THEN days \ {Rolling!Earliest(days)} ELSE days
             counted  == {d \in days : Rolling!Trading(d) \/ deviation = "calendar"}
             found == Rolling!Restrict(all, kept)
             benchmark == IF Rolling!Wants(Rolling!BenchmarkMetrics)
                            THEN Rolling!Within(books.benchmark, given) ELSE Rolling!NoReturns
             told == {d \in kept : Rolling!Trading(d)}
  <1>1. /\ answer.deviation = deviation /\ answer.label = returns.label
        /\ answer.start = given.start /\ answer.end = given.end
        /\ answer.portfolio = IF deviation = "other" THEN Rolling!OfAnother(found) ELSE found
        /\ answer.benchmark = benchmark
        /\ answer.returned = Cardinality(counted)
    BY Counting DEF Rolling!ReturnsAnswer
  <1>2. /\ request.asOf \in Nat
        /\ window.label \in {"SI", "none"} /\ window.start \in Nat
        /\ returns.label = window.label /\ returns.start = window.start /\ returns.end = window.end
    BY WindowIsDated DEF Sound, AskedFor
  <1>3. wanted = IF returns.label = "SI"
                  THEN [start |-> IF DOMAIN books.portfolio = {} THEN request.asOf
                                  ELSE Rolling!Earliest(DOMAIN books.portfolio),
                        end |-> request.asOf]
                  ELSE [start |-> returns.start, end |-> returns.end]
    BY DEF Rolling!ProducerWindow
  <1> HIDE DEF wanted, window
  <1>4. deviation # "window"
    <2> SUFFICES ASSUME deviation = "window" PROVE FALSE
      OBVIOUS
    <2>1. CASE returns.label = "SI"
      <3>1. given.end = request.asOf - 1
        BY <1>3, <2>1
      <3> HIDE DEF given
      <3> QED BY <1>1, <1>2, <2>1, <3>1 DEF QualifiedAs, window
    <2>2. CASE returns.label # "SI"
      <3>1. given.start = window.start + 1
        BY <1>2, <1>3, <2>2
      <3> HIDE DEF given
      <3> QED BY <1>1, <1>2, <2>2, <3>1 DEF QualifiedAs, window
    <2> QED BY <2>1, <2>2
  <1>5. given = wanted
    BY <1>4
  <1> HIDE DEF given
  <1>6. answer.portfolio = found /\ DOMAIN found = kept /\ \A d \in kept : found[d] = all[d]
    BY <1>1 DEF QualifiedAs, Rolling!Restrict
  <1>7. days \subseteq DOMAIN books.portfolio /\ kept \subseteq days
        /\ \A d \in days : all[d] = books.portfolio[d]
    BY DEF Rolling!Within, Rolling!Restrict
  <1>8. Dated(DOMAIN books.portfolio) /\ DOMAIN books.portfolio \subseteq Nat
    BY DEF Sound, Kinds, Dated
  <1>9. days = {d \in DOMAIN books.portfolio :
                  deviation = "outside" \/ (wanted.start <= d /\ d <= wanted.end)}
    BY <1>5 DEF Rolling!Within, Rolling!Restrict
  <1> HIDE DEF all, days, kept, found, benchmark
  <1>10. /\ DOMAIN Rolling!TradingRows(answer.portfolio) = told
         /\ \A d \in told : Rolling!TradingRows(answer.portfolio)[d] = books.portfolio[d]
    BY <1>6, <1>7 DEF Rolling!TradingRows, Rolling!Restrict
  <1>11. told = counted
    <2>1. Cardinality(told) = Cardinality(counted)
      BY <1>1, <1>10 DEF QualifiedAs
    <2>2. told \subseteq counted /\ counted \subseteq DOMAIN books.portfolio
      BY <1>7
    <2>3. Dated(counted)
      BY <1>8, <2>2, DatedSubset
    <2> HIDE DEF told, counted
    <2> QED BY <2>1, <2>2, <2>3, FewerDays
  <1>12. told = {d \in days : Rolling!Trading(d)}
    BY <1>7, <1>11
  <1>13. \A d \in told : wanted.start <= d /\ d <= wanted.end
    BY <1>1, <1>5, <1>10 DEF QualifiedAs
  <1>14. told = {d \in DOMAIN books.portfolio : Rolling!Trading(d) /\ wanted.start <= d /\ d <= wanted.end}
    BY <1>7, <1>9, <1>12, <1>13
  <1>15. \A d \in DOMAIN books.portfolio : InSource(d) <=> wanted.start <= d /\ d <= wanted.end
    <2>1. CASE returns.label = "SI"
      <3> SUFFICES ASSUME NEW d \in DOMAIN books.portfolio
                   PROVE  InSource(d) <=> wanted.start <= d /\ d <= wanted.end
        OBVIOUS
      <3>1. wanted.start <= d
        BY <1>3, <1>8, <2>1, EarliestDay
      <3> QED BY <1>2, <1>3, <2>1, <3>1 DEF InSource, window
    <2>2. CASE returns.label # "SI"
      BY <1>2, <1>3, <2>2 DEF InSource, window
    <2> QED BY <2>1, <2>2
  <1>16. told = SourceDays
    BY <1>14, <1>15 DEF SourceDays
  <1>17. ASSUME Rolling!Wants(Rolling!BenchmarkMetrics)
         PROVE  Agrees(Rolling!TradingRows(answer.benchmark), "benchmark", SourceDays)
    <2> DEFINE joins == Rolling!TradingRows(answer.benchmark)
    <2>1. answer.benchmark = Rolling!Within(books.benchmark, wanted)
      BY <1>1, <1>5, <1>17 DEF benchmark
    <2>2. /\ DOMAIN joins = {d \in DOMAIN books.benchmark : 
                              Rolling!Trading(d) /\ wanted.start <= d /\ d <= wanted.end}
          /\ \A d \in DOMAIN joins : joins[d] = books.benchmark[d]
      BY <2>1 DEF Rolling!TradingRows, Rolling!Within, Rolling!Restrict
    <2>3. Rolling!FactDays("benchmark") = {d \in DOMAIN books.benchmark : Rolling!Trading(d)}
      BY DEF Rolling!FactDays
    <2>4. \A d \in SourceDays : wanted.start <= d /\ d <= wanted.end
      BY <1>13, <1>16
    <2> QED BY <2>2, <2>3, <2>4 DEF Agrees
  <1> QED BY <1>10, <1>16, <1>17 DEF TellsSource

-----------------------------------------------------------------------------
(* The invariant *)

(* Of the call for the returns. *)
ReturnsTell ==
  /\ returns.status # "idle" => request.mode = "STATEFUL"
  /\ returns.status = "open" => AskedFor(returns)
  /\ (returns.status = "answered" /\ QualifiedAs(returns)) =>
       TellsSource(Rolling!TradingRows(returns.portfolio), Rolling!TradingRows(returns.benchmark))

RatesTell ==
  /\ rates.status = "open" => \A d \in SourceDays : rates.start <= d /\ d <= rates.end
  /\ rates.status = "answered" => Agrees(rates.riskFree, "riskFree", SourceDays)

AdmittedTell ==
  DOMAIN admitted = Kinds /\ TellsSource(admitted.portfolio, admitted.benchmark)

TellingInv ==
  /\ Sound(request, books)
  /\ at \notin {"accepted", "done"} => request.mode = "STATEFUL"
  /\ ReturnsTell /\ RatesTell
  /\ at = "fallback" => AdmittedTell
  /\ ResponseTells

(* What is said of the request and the books stands as long as they do. *)
LEMMA RequestsStand ==
  ASSUME UNCHANGED <<request, books>>
  PROVE  /\ Sound(request, books)' <=> Sound(request, books)
         /\ Rolling!SourceWindow' = Rolling!SourceWindow
         /\ SourceDays' = SourceDays
         /\ \A metrics : Rolling!Wants(metrics)' <=> Rolling!Wants(metrics)
         /\ \A kind : Rolling!FactDays(kind)' = Rolling!FactDays(kind)
         /\ \A period, kind : Rolling!PeriodDays(kind, period)' = Rolling!PeriodDays(kind, period)
  <1>1. Sound(request, books)' <=> Sound(request, books)
    BY DEF Sound, SoundPeriod
  <1>2. Rolling!SourceWindow' = Rolling!SourceWindow
    BY DEF Rolling!SourceWindow
  <1>3. SourceDays' = SourceDays
    BY <1>2 DEF SourceDays, InSource
  <1>4. \A metrics : Rolling!Wants(metrics)' <=> Rolling!Wants(metrics)
    BY DEF Rolling!Wants
  <1>5. \A kind : Rolling!FactDays(kind)' = Rolling!FactDays(kind)
    BY DEF Rolling!FactDays
  <1>6. \A period, kind : Rolling!PeriodDays(kind, period)' = Rolling!PeriodDays(kind, period)
    BY <1>5 DEF Rolling!PeriodDays
  <1> QED BY <1>1, <1>2, <1>3, <1>4, <1>5, <1>6

(* What is said of the call for returns stands as long as it does. *)
LEMMA ReturnsStand ==
  ASSUME UNCHANGED <<request, books, returns>>
  PROVE  ReturnsTell' <=> ReturnsTell
  BY RequestsStand DEF ReturnsTell, AskedFor, QualifiedAs, TellsSource, Agrees, Rolling!TradingRows,
     Rolling!Restrict, Rolling!Trading

(* What is said of the call for rates stands as long as it does. *)
LEMMA RatesStand ==
  ASSUME UNCHANGED <<request, books, rates>>
  PROVE  RatesTell' <=> RatesTell
  BY RequestsStand DEF RatesTell, Agrees

(* What is said of the admitted series stands as long as they do. *)
LEMMA AdmittedStand ==
  ASSUME UNCHANGED <<request, books, admitted>>
  PROVE  AdmittedTell' <=> AdmittedTell
  BY RequestsStand DEF AdmittedTell, TellsSource, Agrees

(* A series that is admitted stays faithful. *)
LEMMA FaithfulStands ==
  ASSUME UNCHANGED <<request, books>>, NEW series, Faithful(series), admitted' = series
  PROVE  Faithful(admitted)'
  BY RequestsStand DEF Faithful, Agrees, Joining

(* What is said of the response stands as long as it does. *)
LEMMA ResponsesStand ==
  ASSUME UNCHANGED <<request, books, admitted, outcome>>, ResponseTells
  PROVE  ResponseTells'
  <1>1. outcome.kind = "response" => Faithful(admitted)'
    BY FaithfulStands DEF ResponseTells, Rolling!Responded
  <1> QED BY <1>1 DEF ResponseTells, Rolling!Responded

(* An error tells nothing of the books. *)
LEMMA FailingTells ==
  ASSUME TellingInv, NEW kind \in {"rejected", "invalid", "missing", "upstream"},
         Rolling!Fail(kind), UNCHANGED <<request, books, returns, rates>>
  PROVE  TellingInv'
  <1>1. at' = "done" /\ outcome'.kind # "response"
    BY DEF Rolling!Fail
  <1>2. ResponseTells'
    BY <1>1 DEF ResponseTells, Rolling!Responded
  <1> QED BY <1>1, <1>2, RequestsStand, ReturnsStand, RatesStand DEF TellingInv

(* A response made of faithful series keeps the invariant. *)
LEMMA RespondingTells ==
  ASSUME TellingInv, NEW series, Faithful(series), admitted' = series,
         NEW qualification, NEW lineage, Rolling!Respond(series, qualification, lineage),
         UNCHANGED <<request, books, returns, rates>>
  PROVE  TellingInv'
  <1>1. at' = "done" /\ outcome'.results = Rolling!Results(series, request)
    BY DEF Rolling!Respond
  <1>2. Faithful(admitted)'
    BY FaithfulStands
  <1>3. ResponseTells'
    BY <1>1, <1>2 DEF ResponseTells
  <1> QED BY <1>1, <1>3, RequestsStand, ReturnsStand, RatesStand DEF TellingInv

(* An end with faithful series, whether they are too large or not. *)
LEMMA FinishingTells ==
  ASSUME TellingInv, NEW series, NEW repeated, Faithful(series), Rolling!Finish(series, repeated),
         UNCHANGED <<request, books, returns, rates>>
  PROVE  TellingInv'
  <1>1. CASE Rolling!Fail("rejected")
    BY <1>1, FailingTells
  <1>2. CASE admitted' = series /\ \E qualification, lineage : Rolling!Respond(series, qualification, lineage)
    BY <1>2, RespondingTells
  <1> QED BY <1>1, <1>2 DEF Rolling!Finish

(* What is done with the rates of admitted returns. *)
LEMMA UsingRatesTells ==
  ASSUME TellingInv, NEW series, DOMAIN series = Kinds, TellsSource(series.portfolio, series.benchmark),
         request.mode = "STATEFUL", rates.status = "answered", Rolling!UseRates(series),
         UNCHANGED <<request, books, returns, rates>>
  PROVE  TellingInv'
  <1>1. CASE Rolling!Fail("invalid") \/ Rolling!Fail("rejected")
    BY <1>1, FailingTells
  <1>2. CASE at' = "coverage" /\ UNCHANGED <<admitted, outcome>>
    BY <1>2, RequestsStand, ReturnsStand, RatesStand, ResponsesStand DEF TellingInv
  <1>3. CASE \E repeated : Rolling!Finish([series EXCEPT !.riskFree = rates.riskFree], repeated)
    <2>1. PICK all : all = [series EXCEPT !.riskFree = rates.riskFree]
      OBVIOUS
    <2>2. /\ all.portfolio = series.portfolio /\ all.benchmark = series.benchmark
          /\ all.riskFree = rates.riskFree
      BY <2>1 DEF Kinds
    <2>3. Faithful(all)
      BY <2>2, SourceIsFaithful DEF TellingInv, RatesTell
    <2> QED BY <1>3, <2>1, <2>3, FinishingTells
  <1> QED BY <1>1, <1>2, <1>3 DEF Rolling!UseRates

(* The calls for the series ask for the window. *)
LEMMA FetchingTells ==
  ASSUME TellingInv, RollingOrder, NEW resolved, Rolling!FetchSources(resolved), at \in {"accepted", "currency"},
         request.mode = "STATEFUL", UNCHANGED <<request, books, admitted, outcome>>
  PROVE  TellingInv'
  <1>1. /\ returns'.status = "open" /\ AskedFor(returns)' /\ at' = "sources"
    BY RequestsStand DEF Rolling!FetchSources, Rolling!ReturnsRequest, Rolling!Ask, AskedFor
  <1>2. ReturnsTell'
    BY <1>1 DEF ReturnsTell
  <1>3. RatesTell'
    <2>1. CASE UNCHANGED rates
      BY <2>1, RatesStand DEF TellingInv
    <2>2. CASE rates' = Rolling!Ask(Rolling!SourceWindow, resolved)
               /\ Rolling!SourceWindow.label = "none"
      <3>1. /\ rates'.status = "open" /\ rates'.start = Rolling!SourceWindow.start
            /\ rates'.end = Rolling!SourceWindow.end
        BY <2>2 DEF Rolling!Ask
      <3>2. \A d \in SourceDays : rates'.start <= d /\ d <= rates'.end
        BY <2>2, <3>1 DEF SourceDays, InSource
      <3>3. SourceDays' = SourceDays
        BY RequestsStand
      <3> QED BY <3>1, <3>2, <3>3 DEF RatesTell
    <2> QED BY <2>1, <2>2 DEF Rolling!FetchSources
  <1> QED BY <1>1, <1>2, <1>3, RequestsStand, ResponsesStand DEF TellingInv

(* A request that has just been accepted, whatever it asks for. *)
Accepted ==
  /\ at = "accepted" /\ currency = None
  /\ snapshot = Rolling!Idle /\ returns = Rolling!Idle /\ rates = Rolling!Idle
  /\ admitted = Rolling!Nothing /\ sent = {} /\ outcome = Rolling!Silence

(* If it is sound, it keeps both invariants. *)
LEMMA AcceptedTells ==
  ASSUME Accepted, Sound(request, books)
  PROVE  RollingInv /\ TellingInv
  <1>1. RollingInv
    BY DEF Accepted, RollingInv, RollingOrder, RollingCurrencies, RollingAnswers,
           Rolling!Idle, Rolling!Silence
  <1>2. TellingInv
    BY DEF Accepted, TellingInv, ReturnsTell, RatesTell, ResponseTells, Rolling!Responded,
           Rolling!Idle, Rolling!Silence
  <1> QED BY <1>1, <1>2

(* The requests that are checked are accepted and sound. *)
LEMMA TellingInit == Rolling!Init => TellingInv
  <1> SUFFICES ASSUME Rolling!Init PROVE TellingInv
    OBVIOUS
  <1>1. Sound(request, books)
    BY WorldsAreSound DEF Rolling!Init
  <1> QED BY <1>1, AcceptedTells DEF Rolling!Init, Accepted

(* The series of a stateless request are the books themselves. *)
LEMMA BooksAreFaithful ==
  ASSUME request.mode = "STATELESS"
  PROVE  Faithful(books)
  BY DEF Faithful, Agrees, Rolling!PeriodDays, Rolling!FactDays

(* Every step of the handler and every answer of an upstream keeps it. *)
LEMMA TellingSteps == RollingInv /\ TellingInv /\ Rolling!Next => TellingInv'
  <1> SUFFICES ASSUME RollingInv, TellingInv, Rolling!Next PROVE TellingInv'
    OBVIOUS
  <1>1. CASE Rolling!AnswerSnapshot
    BY <1>1, RequestsStand, ReturnsStand, RatesStand, AdmittedStand, ResponsesStand
    DEF Rolling!AnswerSnapshot, TellingInv
  <1>2. CASE Rolling!AnswerReturns
    <2>1. /\ returns.status = "open"
          /\ UNCHANGED <<request, books, at, rates, admitted, outcome>>
      BY <1>2 DEF Rolling!AnswerReturns
    <2>2. request.mode = "STATEFUL" /\ AskedFor(returns) /\ Sound(request, books)
      BY <2>1 DEF TellingInv, ReturnsTell
    <2>3. CASE returns'.status = "failed"
      <3>1. ReturnsTell'
        BY <2>1, <2>2, <2>3 DEF ReturnsTell
      <3> QED BY <2>1, <3>1, RequestsStand, RatesStand, AdmittedStand, ResponsesStand DEF TellingInv
    <2>4. CASE \E deviation, freshness : returns' = Rolling!ReturnsAnswer(deviation, freshness)
      <3>1. PICK answer : /\ returns' = answer
                          /\ \E deviation, freshness : answer = Rolling!ReturnsAnswer(deviation, freshness)
        BY <2>4
      <3>2. answer.status = "answered"
        BY <3>1 DEF Rolling!ReturnsAnswer
      <3>3. QualifiedAs(answer) =>
              TellsSource(Rolling!TradingRows(answer.portfolio), Rolling!TradingRows(answer.benchmark))
        BY <2>2, <3>1, QualifiedAnswersTell
      <3>4. ReturnsTell'
        BY <2>1, <2>2, <3>1, <3>2, <3>3, RequestsStand
        DEF ReturnsTell, QualifiedAs, TellsSource, Agrees, Rolling!TradingRows,
            Rolling!Restrict, Rolling!Trading
      <3> QED BY <2>1, <3>4, RequestsStand, RatesStand, AdmittedStand, ResponsesStand DEF TellingInv
    <2> QED BY <1>2, <2>3, <2>4 DEF Rolling!AnswerReturns
  <1>3. CASE Rolling!AnswerRates
    <2>1. /\ rates.status = "open" /\ UNCHANGED <<request, books, at, returns, admitted, outcome>>
          /\ \/ rates'.status = "failed"
             \/ rates'.status = "answered" /\ rates'.riskFree = Rolling!Within(books.riskFree, rates)
      BY <1>3 DEF Rolling!AnswerRates
    <2>2. Agrees(Rolling!Within(books.riskFree, rates), "riskFree", SourceDays)
      <3>1. \A d \in SourceDays : rates.start <= d /\ d <= rates.end
        BY <2>1 DEF TellingInv, RatesTell
      <3> QED BY <3>1 DEF Agrees, Rolling!Within, Rolling!Restrict, Rolling!FactDays
    <2>3. RatesTell'
      BY <2>1, <2>2, RequestsStand DEF RatesTell, Agrees
    <2> QED BY <2>1, <2>3, RequestsStand, ReturnsStand, AdmittedStand, ResponsesStand DEF TellingInv
  <1>4. CASE Rolling!Accept
    <2>1. request.mode = "STATELESS" /\ UNCHANGED <<request, books, returns, rates>>
      BY <1>4 DEF Rolling!Accept
    <2>2. CASE Rolling!Fail("rejected")
      BY <2>1, <2>2, FailingTells
    <2>3. CASE admitted' = books /\ \E qualification, lineage : Rolling!Respond(books, qualification, lineage)
      <3>1. PICK series : series = books
        OBVIOUS
      <3>2. Faithful(series)
        BY <2>1, <3>1, BooksAreFaithful
      <3> QED BY <2>1, <2>3, <3>1, <3>2, RespondingTells
    <2> QED BY <1>4, <2>2, <2>3 DEF Rolling!Accept
  <1>5. CASE Rolling!Start
    <2>1. /\ at = "accepted" /\ request.mode = "STATEFUL" /\ RollingOrder
          /\ UNCHANGED <<request, books, admitted, outcome>>
      BY <1>5 DEF Rolling!Start, RollingInv
    <2>2. CASE Rolling!FetchSources(request.currency)
      BY <2>1, <2>2, FetchingTells
    <2>3. CASE at' = "currency" /\ UNCHANGED <<returns, rates>>
      BY <2>1, <2>3, RequestsStand, ReturnsStand, RatesStand, ResponsesStand DEF TellingInv
    <2> QED BY <1>5, <2>2, <2>3 DEF Rolling!Start
  <1>6. CASE Rolling!ResumeSnapshot
    <2>1. /\ at = "currency" /\ request.mode = "STATEFUL" /\ RollingOrder
          /\ UNCHANGED <<request, books, admitted>>
      BY <1>6 DEF Rolling!ResumeSnapshot, RollingInv, TellingInv
    <2>2. CASE Rolling!Fail("invalid") /\ UNCHANGED <<returns, rates>>
      BY <2>1, <2>2, FailingTells
    <2>3. CASE UNCHANGED outcome /\ \E resolved : Rolling!FetchSources(resolved)
      BY <2>1, <2>3, FetchingTells
    <2> QED BY <1>6, <2>2, <2>3 DEF Rolling!ResumeSnapshot
  <1>7. CASE Rolling!ResumeFailure
    BY <1>7, FailingTells DEF Rolling!ResumeFailure
  <1>8. CASE Rolling!ResumeSources
    <2> DEFINE given == [portfolio |-> Rolling!TradingRows(returns.portfolio),
                         benchmark |-> Rolling!TradingRows(returns.benchmark),
                         riskFree  |-> Rolling!NoReturns]
    <2>1. /\ at = "sources" /\ UNCHANGED <<request, books, returns>> /\ returns.status = "answered"
          /\ rates.status \in {"idle", "answered"} /\ request.mode = "STATEFUL"
      BY <1>8 DEF Rolling!ResumeSources, TellingInv
    <2>2. PICK series : series = given
      OBVIOUS
    <2>3. /\ series.portfolio = Rolling!TradingRows(returns.portfolio)
          /\ series.benchmark = Rolling!TradingRows(returns.benchmark)
          /\ DOMAIN series = Kinds
      BY <2>2 DEF Kinds
    <2>4. \/ Rolling!Refusal(series) # "none" /\ Rolling!Fail(Rolling!Refusal(series)) /\ UNCHANGED rates
          \/ /\ Rolling!Refusal(series) = "none" /\ ~Rolling!Wants(Rolling!RiskFreeMetrics)
             /\ Rolling!Finish(series, FALSE) /\ UNCHANGED rates
          \/ /\ Rolling!Refusal(series) = "none"
             /\ Rolling!AskRates(DOMAIN series.portfolio) /\ admitted' = series /\ UNCHANGED outcome
          \/ /\ Rolling!Refusal(series) = "none" /\ Rolling!Wants(Rolling!RiskFreeMetrics)
             /\ rates # Rolling!Idle /\ Rolling!UseRates(series) /\ UNCHANGED rates
      BY <1>8, <2>2 DEF Rolling!ResumeSources
    <2> HIDE DEF given
    <2>5. CASE Rolling!Refusal(series) # "none" /\ Rolling!Fail(Rolling!Refusal(series)) /\ UNCHANGED rates
      <3>1. Rolling!Refusal(series) \in {"none", "invalid", "missing"}
        BY DEF Rolling!Refusal
      <3> QED BY <2>1, <2>5, <3>1, FailingTells
    <2>6. ASSUME Rolling!Refusal(series) = "none"
          PROVE  DOMAIN series.portfolio # {} /\ TellsSource(series.portfolio, series.benchmark)
      <3>1. DOMAIN series.portfolio # {} /\ Rolling!Qualified
        BY <2>6 DEF Rolling!Refusal
      <3>2. QualifiedAs(returns)
        BY <3>1, Counting DEF Rolling!Qualified, Rolling!OwnAnswer, Rolling!RowsCounted,
                    Rolling!WindowAsAsked, QualifiedAs
      <3> QED BY <2>1, <2>3, <3>1, <3>2 DEF TellingInv, ReturnsTell
    <2>7. CASE /\ Rolling!Refusal(series) = "none" /\ ~Rolling!Wants(Rolling!RiskFreeMetrics)
               /\ Rolling!Finish(series, FALSE) /\ UNCHANGED rates
      <3>1. Faithful(series)
        BY <2>1, <2>6, <2>7, SourceIsFaithful DEF TellingInv
      <3> QED BY <2>1, <2>7, <3>1, FinishingTells
    <2>8. CASE /\ Rolling!Refusal(series) = "none"
               /\ Rolling!AskRates(DOMAIN series.portfolio) /\ admitted' = series /\ UNCHANGED outcome
      <3> DEFINE days == DOMAIN series.portfolio
      <3>1. /\ at' = "fallback" /\ rates'.status = "open"
            /\ rates'.start = Rolling!Earliest(days)
            /\ rates'.end = CHOOSE d \in days : \A e \in days : e <= d
        BY <2>8 DEF Rolling!AskRates
      <3>2. days = SourceDays /\ Dated(days) /\ days # {}
        <4>1. SourceDays \subseteq DOMAIN books.portfolio
          BY DEF SourceDays
        <4> QED BY <2>6, <2>8, <4>1, DatedSubset DEF TellingInv, Sound, Kinds, TellsSource
      <3> HIDE DEF days
      <3>3. \A d \in SourceDays : rates'.start <= d /\ d <= rates'.end
        BY <3>1, <3>2, EarliestDay, LastDay
      <3>4. RatesTell'
        BY <2>1, <3>1, <3>3, RequestsStand DEF RatesTell
      <3>5. AdmittedTell'
        BY <2>1, <2>3, <2>6, <2>8, RequestsStand DEF AdmittedTell, TellsSource, Agrees
      <3>6. ResponseTells'
        <4>1. outcome' = Rolling!Silence
          BY <2>1, <2>8 DEF RollingInv, RollingOrder
        <4> QED BY <4>1 DEF ResponseTells, Rolling!Responded, Rolling!Silence
      <3> QED BY <2>1, <3>1, <3>4, <3>5, <3>6, RequestsStand, ReturnsStand DEF TellingInv
    <2>9. CASE /\ Rolling!Refusal(series) = "none" /\ Rolling!Wants(Rolling!RiskFreeMetrics)
               /\ rates # Rolling!Idle /\ Rolling!UseRates(series) /\ UNCHANGED rates
      <3>1. rates.status = "answered"
        BY <2>1, <2>9 DEF RollingInv, RatedRolling, RollingCurrencies
      <3> QED BY <2>1, <2>3, <2>6, <2>9, <3>1, UsingRatesTells
    <2> QED BY <2>4, <2>5, <2>7, <2>8, <2>9
  <1>9. CASE Rolling!ResumeFallback
    <2>1. /\ at = "fallback" /\ UNCHANGED <<request, books, returns, rates>>
          /\ rates.status = "answered" /\ Rolling!UseRates(admitted)
      BY <1>9 DEF Rolling!ResumeFallback
    <2>2. PICK series : series = admitted
      OBVIOUS
    <2>3. DOMAIN series = Kinds /\ TellsSource(series.portfolio, series.benchmark)
          /\ request.mode = "STATEFUL" /\ Rolling!UseRates(series)
      BY <2>1, <2>2 DEF TellingInv, AdmittedTell
    <2> QED BY <2>1, <2>3, UsingRatesTells
  <1>10. CASE Rolling!ResumeCoverage
    BY <1>10, FailingTells DEF Rolling!ResumeCoverage
  <1>11. CASE Rolling!Rest
    BY <1>11, RequestsStand, ReturnsStand, RatesStand, ResponsesStand
    DEF Rolling!Rest, Rolling!vars, TellingInv
  <1> QED BY <1>1, <1>2, <1>3, <1>4, <1>5, <1>6, <1>7, <1>8, <1>9, <1>10, <1>11 DEF Rolling!Next

-----------------------------------------------------------------------------
(* Any request *)

(* A behaviour is that of one calculator. *)
CurrencyInv ==
  /\ calculator = "rolling" => RollingInv
  /\ calculator = "series" => SeriesInv

(* It holds of every request at first. *)
LEMMA CurrencyInit == AnyInit => CurrencyInv
  BY RollingInit, SeriesInit DEF AnyInit, CurrencyInv

(* Every step of any calculator keeps it. *)
LEMMA CurrencySteps == CurrencyInv /\ [AnyNext]_everything => CurrencyInv'
  <1> SUFFICES ASSUME CurrencyInv, [AnyNext]_everything PROVE CurrencyInv'
    OBVIOUS
  <1>1. CASE ARollingStep
    BY <1>1, RollingSteps DEF ARollingStep, CurrencyInv
  <1>2. CASE ASeriesStep
    BY <1>2, SeriesSteps DEF ASeriesStep, CurrencyInv
  <1>3. CASE UNCHANGED calculator /\ calculator \notin {"rolling", "series"}
    BY <1>3 DEF CurrencyInv
  <1>4. CASE UNCHANGED everything
    BY <1>4 DEF everything, requestVars, rollingVars, seriesVars, CurrencyInv, RollingInv,
                RollingOrder, RollingCurrencies, RollingAnswers, RatedRolling, Rolling!Wants,
                SeriesInv, Series!OneCurrency, Series!Responded, Series!Stateful,
                Series!WantsRates
  <1>5. AnObservation \/ AnAttributionStep \/ AConcentrationStep \/ AProductStep =>
          UNCHANGED calculator /\ calculator \notin {"rolling", "series"}
    BY DEF AnObservation, AnAttributionStep, AConcentrationStep, AProductStep
  <1> QED BY <1>1, <1>2, <1>3, <1>4, <1>5 DEF AnyNext, NoMore

(* Returns and risk-free rates of a response are of one currency, that of the
   request or, without one, that of the snapshot of lotus-core: the calls of
   rolling_risk_free_dependency.py, of resolve_stateful_dependency_selection
   and of calculate_risk_stateful agree. *)
THEOREM RatesMatchReturns == AnySpec => []OneCurrency
  <1>1. CurrencyInv => OneCurrency
    BY RollingInvSuffices DEF CurrencyInv, SeriesInv, OneCurrency
  <1> QED BY <1>1, CurrencyInit, CurrencySteps, PTL DEF AnySpec

(* What the books say is what a behaviour of rolling metrics tells. *)
BooksInv == CurrencyInv /\ (calculator = "rolling" => TellingInv)

(* It holds of every request at first. *)
LEMMA BooksInit == AnyInit => BooksInv
  BY CurrencyInit, TellingInit DEF AnyInit, BooksInv

(* Every step of any calculator keeps it. *)
LEMMA BooksSteps == BooksInv /\ [AnyNext]_everything => BooksInv'
  <1> SUFFICES ASSUME BooksInv, [AnyNext]_everything PROVE BooksInv'
    OBVIOUS
  <1>1. CurrencyInv'
    BY CurrencySteps DEF BooksInv
  <1>2. CASE ARollingStep
    BY <1>1, <1>2, TellingSteps DEF ARollingStep, BooksInv, CurrencyInv
  <1>3. CASE UNCHANGED calculator /\ calculator # "rolling"
    BY <1>1, <1>3 DEF BooksInv
  <1>4. CASE UNCHANGED everything
    <2>1. TellingInv => TellingInv'
      BY <1>4, RequestsStand, ReturnsStand, RatesStand, AdmittedStand, ResponsesStand
      DEF everything, requestVars, rollingVars, seriesVars, TellingInv
    <2> QED BY <1>1, <1>4, <2>1 DEF everything, BooksInv
  <1>5. AnObservation \/ ASeriesStep \/ AnAttributionStep \/ AConcentrationStep \/ AProductStep =>
          UNCHANGED calculator /\ calculator # "rolling"
    BY DEF AnObservation, ASeriesStep, AnAttributionStep, AConcentrationStep, AProductStep
  <1> QED BY <1>2, <1>3, <1>4, <1>5 DEF AnyNext, NoMore

(* A value of a rolling metric tells the returns of the last days, as many as the
   window has, on which the books have all it needs: period, window, join, source
   window and admission agree, whatever the upstreams answer and in whatever
   order (rolling_window_calculation.py, stateful_returns_series_parser.py). *)
THEOREM RollingTellsTheBooks == AnySpec => []ValuesTellTheBooks
  <1>1. BooksInv => ValuesTellTheBooks
    BY ValuesFollow DEF BooksInv, TellingInv, ValuesTellTheBooks
  <1> QED BY <1>1, BooksInit, BooksSteps, PTL DEF AnySpec

(* Every day that the books have in a period is counted, and joined, and has a
   value or a reason it has none: the warm-up or a flag (rolling_metric_outputs.py). *)
THEOREM RollingAccountsForDays == AnySpec => []DaysAreAccounted
  <1>1. BooksInv => DaysAreAccounted
    BY NoDayDropped, GapsExplained
    DEF BooksInv, TellingInv, DaysAreAccounted, Rolling!DaysAreAccounted
  <1> QED BY <1>1, BooksInit, BooksSteps, PTL DEF AnySpec

(* Behaviours of any sound request for rolling metrics, not of those alone whose
   worlds the runs enumerate: any days, periods, windows, metrics and books. *)
SoundSpec ==
  /\ calculator = "rolling" /\ Accepted /\ Sound(request, books)
  /\ [][AnyNext]_everything

(* The two properties, and the one currency of returns and rates, of any sound
   request (rolling_engine.py, rolling_mode_adapter.py). *)
THEOREM EveryRollingTellsTheBooks ==
  SoundSpec => [](ValuesTellTheBooks /\ DaysAreAccounted /\ OneCurrency)
  <1>1. calculator = "rolling" /\ Accepted /\ Sound(request, books) => BooksInv
    BY AcceptedTells DEF BooksInv, CurrencyInv
  <1>2. BooksInv => ValuesTellTheBooks /\ DaysAreAccounted /\ OneCurrency
    <2>1. BooksInv => ValuesTellTheBooks
      BY ValuesFollow DEF BooksInv, TellingInv, ValuesTellTheBooks
    <2>2. BooksInv => DaysAreAccounted
      BY NoDayDropped, GapsExplained
      DEF BooksInv, TellingInv, DaysAreAccounted, Rolling!DaysAreAccounted
    <2>3. BooksInv => OneCurrency
      BY RollingInvSuffices DEF BooksInv, CurrencyInv, SeriesInv, OneCurrency
    <2> QED BY <2>1, <2>2, <2>3
  <1> QED BY <1>1, <1>2, BooksSteps, PTL DEF SoundSpec

-----------------------------------------------------------------------------
(* True answers are served: a request for rolling metrics *)

(* A request names finitely many periods and windows. *)
Countable(q) == IsFiniteSet(DOMAIN q.periods) /\ IsFiniteSet(q.windows)

(* Those that are checked do. *)
LEMMA WorldsAreCountable ==
  ASSUME NEW world \in RollingWorlds!Worlds
  PROVE  Countable(world.request)
  <1>1. \E mode, choices, portfolios, policies, askedFor :
          world \in RollingWorlds!WorldsOf(mode, choices, portfolios, policies, askedFor)
    BY DEF RollingWorlds!Worlds
  <1>2. PICK mode, choices, portfolios, policies, askedFor :
          world \in RollingWorlds!WorldsOf(mode, choices, portfolios, policies, askedFor)
    BY <1>1
  <1>3. PICK choice \in choices : \E periods \in RollingWorlds!PeriodSets, policy \in policies,
           day \in {7, 9}, money \in askedFor, portfolio \in portfolios, benchmark \in choice[2],
           riskFree \in choice[3] :
             world = [request |-> [mode |-> mode, metrics |-> choice[1], periods |-> periods,
                   windows |-> {2, 3}, policy |-> policy, asOf |-> day,
                   timeSeries |-> day = 7, currency |-> money],
                   books |-> [portfolio |-> portfolio, benchmark |-> benchmark, riskFree |-> riskFree]]
    BY <1>2 DEF RollingWorlds!WorldsOf
  <1>4. PICK periods \in RollingWorlds!PeriodSets :
          world.request.periods = periods /\ world.request.windows = {2, 3}
    BY <1>3
  <1>5. DOMAIN periods \subseteq {"P", "Q"}
    BY <1>4 DEF RollingWorlds!PeriodSets
  <1>6. IsFiniteSet({"P", "Q"}) /\ IsFiniteSet({2, 3})
    <2>1. IsFiniteSet({"P"} \cup {"Q"}) /\ IsFiniteSet({2} \cup {3})
      BY FS_Singleton, FS_Union
    <2>2. {"P"} \cup {"Q"} = {"P", "Q"} /\ {2} \cup {3} = {2, 3}
      OBVIOUS
    <2> QED BY <2>1, <2>2
  <1> QED BY <1>4, <1>5, <1>6, FS_Subset DEF Countable

(* What is too large is so with more days. *)
LEMMA LargerIsTooLarge ==
  ASSUME Countable(request), NEW series, NEW full, DOMAIN series = Kinds, DOMAIN full = Kinds,
         \A k \in Kinds : Dated(DOMAIN full[k]) /\ DOMAIN series[k] \subseteq DOMAIN full[k],
         Rolling!TooLarge(series)
  PROVE  Rolling!TooLarge(full)
  <1> DEFINE size(s) == Cardinality(DOMAIN s)
             lines == Cardinality(DOMAIN request.periods) * Cardinality(request.windows)
  <1>1. \A s : Rolling!TooLarge(s) <=>
          \/ \E k \in DOMAIN s : size(s[k]) > MaxStateless
          \/ request.timeSeries /\ lines * size(s.portfolio) > MaxPoints
    BY Counting DEF Rolling!TooLarge
  <1>2. \A k \in Kinds : size(series[k]) \in Nat /\ size(full[k]) \in Nat /\ size(series[k]) <= size(full[k])
    BY FewerDays
  <1>3. size(series.portfolio) \in Nat /\ size(full.portfolio) \in Nat
        /\ size(series.portfolio) <= size(full.portfolio)
    BY <1>2 DEF Kinds
  <1>4. lines \in Nat
    <2>1. Cardinality(DOMAIN request.periods) \in Nat /\ Cardinality(request.windows) \in Nat
      BY FS_CardinalityType DEF Countable
    <2> QED BY <2>1
  <1> HIDE DEF size, lines
  <1>5. \A a, x, y \in Nat : x <= y => a * x <= a * y /\ a * x \in Nat /\ a * y \in Nat
    OBVIOUS
  <1>6. /\ lines * size(series.portfolio) <= lines * size(full.portfolio)
        /\ lines * size(series.portfolio) \in Nat /\ lines * size(full.portfolio) \in Nat
    BY <1>3, <1>4, <1>5
  <1>7. CASE \E k \in Kinds : size(series[k]) > MaxStateless
    BY <1>1, <1>2, <1>7, LimitsAssumption
  <1>8. CASE request.timeSeries /\ lines * size(series.portfolio) > MaxPoints
    BY <1>1, <1>6, <1>8, LimitsAssumption
  <1> QED BY <1>1, <1>7, <1>8

-----------------------------------------------------------------------------
(* An answer as the producer should give it. *)
Admissible(answer) ==
  /\ QualifiedAs(answer)
  /\ answer.label = Rolling!SourceWindow.label
  /\ answer.label = "SI" => answer.start <= answer.end

(* A true answer with a trading day is one that is admitted
   (extract_stateful_returns_source_evidence). *)
LEMMA TrueAnswersQualify ==
  ASSUME Sound(request, books), request.mode = "STATEFUL", AskedFor(returns),
         NEW freshness, NEW answer, answer = Rolling!ReturnsAnswer("none", freshness),
         DOMAIN Rolling!TradingRows(answer.portfolio) # {}
  PROVE  Admissible(answer)
  <1> DEFINE window == Rolling!SourceWindow
             wanted == Rolling!ProducerWindow(returns)
             all == Rolling!Within(books.portfolio, wanted)
             days == DOMAIN all
             counted == {d \in days : Rolling!Trading(d)}
  <1>1. /\ answer.deviation = "none" /\ answer.label = returns.label
        /\ answer.start = wanted.start /\ answer.end = wanted.end
        /\ answer.portfolio = Rolling!Restrict(all, days)
        /\ answer.returned = Cardinality({d \in days : Rolling!Trading(d) \/ "none" = "calendar"})
    BY Counting DEF Rolling!ReturnsAnswer
  <1>2. /\ request.asOf \in Nat
        /\ window.label \in {"SI", "none"}
        /\ returns.label = window.label /\ returns.start = window.start /\ returns.end = window.end
    BY WindowIsDated DEF Sound, AskedFor
  <1>3. wanted = IF returns.label = "SI"
                  THEN [start |-> IF DOMAIN books.portfolio = {} THEN request.asOf
                                  ELSE Rolling!Earliest(DOMAIN books.portfolio),
                        end |-> request.asOf]
                  ELSE [start |-> returns.start, end |-> returns.end]
    BY DEF Rolling!ProducerWindow
  <1>4. answer.returned = Cardinality(counted)
    BY <1>1
  <1>5. days = {d \in DOMAIN books.portfolio : wanted.start <= d /\ d <= wanted.end}
    BY DEF Rolling!Within, Rolling!Restrict
  <1> HIDE DEF wanted, window, all
  <1>6. DOMAIN Rolling!TradingRows(answer.portfolio) = counted
    BY <1>1 DEF Rolling!TradingRows, Rolling!Restrict
  <1>7. counted \subseteq days /\ \A d \in counted : wanted.start <= d /\ d <= wanted.end
    BY <1>5
  <1>8. answer.label = "SI" => answer.start <= answer.end
    <2> SUFFICES ASSUME answer.label = "SI" PROVE answer.start <= answer.end
      OBVIOUS
    <2>1. Dated(DOMAIN books.portfolio) /\ DOMAIN books.portfolio \subseteq Nat
      BY DEF Sound, Kinds, Dated
    <2>2. PICK d \in counted : d \in DOMAIN books.portfolio /\ wanted.start <= d /\ d <= wanted.end
      BY <1>5, <1>6
    <2>3. wanted.start \in Nat /\ wanted.end \in Nat
      <3>1. Rolling!Earliest(DOMAIN books.portfolio) \in DOMAIN books.portfolio
        BY <2>1, <2>2, EarliestDay
      <3> QED BY <1>1, <1>2, <1>3, <2>1, <2>2, <3>1
    <2> QED BY <1>1, <2>1, <2>2, <2>3
  <1>9. IF Rolling!SourceWindow.label = "SI"
          THEN answer.label = "SI" /\ answer.end = request.asOf
          ELSE answer.start = Rolling!SourceWindow.start /\ answer.end = Rolling!SourceWindow.end
    BY <1>1, <1>2, <1>3 DEF window
  <1>10. answer.label = Rolling!SourceWindow.label
    BY <1>1, <1>2 DEF window
  <1> HIDE DEF counted
  <1> QED BY <1>1, <1>4, <1>6, <1>7, <1>8, <1>9, <1>10 DEF Admissible, QualifiedAs

-----------------------------------------------------------------------------
(* The request has true answers with all that it needs. *)
Honest ==
  /\ request.mode = "STATEFUL" /\ returns.status = "answered" /\ returns.deviation = "none"
  /\ Rolling!Wants(Rolling!RiskFreeMetrics) =>
       rates.status = "answered" /\ rates.deviation = "none" /\ DOMAIN rates.riskFree # {}
  /\ DOMAIN Rolling!TradingRows(returns.portfolio) # {}
  /\ Rolling!Wants(Rolling!BenchmarkMetrics) => DOMAIN Rolling!TradingRows(returns.benchmark) # {}
  /\ ~Rolling!TooLarge([portfolio |-> returns.portfolio, benchmark |-> returns.benchmark,
                        riskFree |-> IF rates.status = "answered" THEN rates.riskFree
                                     ELSE Rolling!NoReturns])

(* The series that the returns give. *)
Given ==
  [portfolio |-> Rolling!TradingRows(returns.portfolio),
   benchmark |-> Rolling!TradingRows(returns.benchmark), riskFree |-> Rolling!NoReturns]

(* Of the answers that have come. *)
ReturnsServe ==
  returns.status = "answered" =>
    /\ DOMAIN returns.portfolio \subseteq DOMAIN books.portfolio
    /\ DOMAIN returns.benchmark \subseteq DOMAIN books.benchmark
    /\ (returns.deviation = "none" /\ DOMAIN Rolling!TradingRows(returns.portfolio) # {}) =>
         Admissible(returns)

RatesServe ==
  /\ rates.status \in {"idle", "open", "failed", "answered"}
  /\ rates.status # "idle" => Rolling!Wants(Rolling!RiskFreeMetrics)
  /\ rates.status = "answered" => DOMAIN rates.riskFree \subseteq DOMAIN books.riskFree

(* Why there is no response, which no later answer takes back. *)
Unserved ==
  \/ request.mode # "STATEFUL"
  \/ returns.status \in {"idle", "failed"}
  \/ rates.status = "failed"
  \/ returns.status = "answered" /\ rates.status # "open" /\ ~Honest

ServingInv ==
  /\ Countable(request)
  /\ ReturnsServe /\ RatesServe
  /\ at \in {"sources", "fallback", "coverage"} => returns.status # "idle"
  /\ at = "fallback" => returns.status = "answered" /\ rates # Rolling!Idle /\ admitted = Given
  /\ at = "coverage" => /\ returns.status = "answered" /\ rates.status = "answered"
                        /\ DOMAIN rates.riskFree = {}
  /\ at = "done" => Rolling!Responded \/ Unserved

(* The invariant has the property. *)
LEMMA ServingSuffices == ServingInv => Rolling!HonestSourcesAreServed
  <1> SUFFICES ASSUME ServingInv, Rolling!HonestSourcesAreServed => FALSE PROVE FALSE
    OBVIOUS
  <1>1. at = "done" /\ Honest /\ ~Rolling!Responded
    BY DEF Rolling!HonestSourcesAreServed, Honest
  <1>2. Unserved
    BY <1>1 DEF ServingInv
  <1>3. rates.status = "failed"
    BY <1>1, <1>2 DEF Unserved, Honest
  <1> QED BY <1>1, <1>3 DEF ServingInv, RatesServe, Honest

(* A request that has just been accepted has no answer. *)
LEMMA AcceptedServes ==
  ASSUME Accepted, Countable(request)
  PROVE  ServingInv
  BY DEF Accepted, ServingInv, ReturnsServe, RatesServe, Rolling!Idle

(* What is said of the answers stands as long as they do. *)
LEMMA AnswersStand ==
  ASSUME UNCHANGED <<request, books>>
  PROVE  /\ Countable(request)' <=> Countable(request)
         /\ UNCHANGED returns => (ReturnsServe' <=> ReturnsServe)
         /\ UNCHANGED rates => (RatesServe' <=> RatesServe)
         /\ UNCHANGED <<returns, rates>> => (Honest' <=> Honest) /\ (Unserved' <=> Unserved)
         /\ UNCHANGED returns => Given' = Given
  <1>1. Countable(request)' <=> Countable(request)
    BY DEF Countable
  <1>2. \A metrics : Rolling!Wants(metrics)' <=> Rolling!Wants(metrics)
    BY RequestsStand
  <1>3. ASSUME UNCHANGED returns
        PROVE  /\ Rolling!TradingRows(returns.portfolio)' = Rolling!TradingRows(returns.portfolio)
               /\ Rolling!TradingRows(returns.benchmark)' = Rolling!TradingRows(returns.benchmark)
               /\ Admissible(returns)' <=> Admissible(returns)
    <2>1. /\ Rolling!TradingRows(returns.portfolio)' = Rolling!TradingRows(returns.portfolio)
          /\ Rolling!TradingRows(returns.benchmark)' = Rolling!TradingRows(returns.benchmark)
      BY <1>3 DEF Rolling!TradingRows, Rolling!Restrict, Rolling!Trading
    <2>2. Rolling!SourceWindow' = Rolling!SourceWindow
      BY RequestsStand
    <2>3. QualifiedAs(returns)' <=> QualifiedAs(returns)
      BY <1>3, <2>1, <2>2 DEF QualifiedAs
    <2> QED BY <1>3, <2>1, <2>2, <2>3 DEF Admissible
  <1>4. UNCHANGED returns => (ReturnsServe' <=> ReturnsServe) /\ Given' = Given
    BY <1>3 DEF ReturnsServe, Given, Rolling!NoReturns
  <1>5. UNCHANGED rates => (RatesServe' <=> RatesServe)
    BY <1>2 DEF RatesServe
  <1>6. ASSUME UNCHANGED <<returns, rates>> PROVE Honest' <=> Honest
    <2>1. \A series : Rolling!TooLarge(series)' <=> Rolling!TooLarge(series)
      BY DEF Rolling!TooLarge
    <2> QED BY <1>2, <1>3, <1>6, <2>1 DEF Honest, Rolling!NoReturns
  <1> QED BY <1>1, <1>4, <1>5, <1>6 DEF Unserved

(* An end for a reason. *)
LEMMA EndingServes ==
  ASSUME ServingInv, at' = "done", UNCHANGED <<request, books, returns, rates>>,
         Unserved \/ Rolling!Responded'
  PROVE  ServingInv'
  BY AnswersStand DEF ServingInv

(* Series that are given to the engine are served, unless there is a reason. *)
LEMMA FinishingServes ==
  ASSUME ServingInv, Sound(request, books), NEW series, NEW repeated, Rolling!Finish(series, repeated),
         returns.status = "answered", rates.status \in {"idle", "answered"}, DOMAIN series = Kinds,
         series.portfolio = Given.portfolio, series.benchmark = Given.benchmark,
         series.riskFree = IF rates.status = "answered" THEN rates.riskFree ELSE Rolling!NoReturns,
         repeated => Rolling!Wants(Rolling!RiskFreeMetrics) /\ rates.deviation # "none",
         UNCHANGED <<request, books, returns, rates>>
  PROVE  ServingInv'
  <1>1. CASE repeated /\ Rolling!Fail("rejected")
    <2>1. Unserved
      BY <1>1 DEF Unserved, Honest
    <2> QED BY <1>1, <2>1, EndingServes DEF Rolling!Fail
  <1>2. CASE Rolling!TooLarge(series) /\ Rolling!Fail("rejected")
    <2> DEFINE full == [portfolio |-> returns.portfolio, benchmark |-> returns.benchmark,
                        riskFree |-> IF rates.status = "answered" THEN rates.riskFree
                                     ELSE Rolling!NoReturns]
    <2>1. DOMAIN full = Kinds
      BY DEF Kinds
    <2>2. \A k \in Kinds : DOMAIN series[k] \subseteq DOMAIN full[k]
      BY DEF Given, Rolling!TradingRows, Rolling!Restrict, Kinds
    <2>3. \A k \in Kinds : DOMAIN full[k] \subseteq DOMAIN books[k]
      BY DEF ServingInv, ReturnsServe, RatesServe, Kinds, Rolling!NoReturns
    <2>4. \A k \in Kinds : Dated(DOMAIN full[k])
      BY <2>3, DatedSubset DEF Sound
    <2>5. Rolling!TooLarge(full)
      <3> HIDE DEF full
      <3> QED BY <1>2, <2>1, <2>2, <2>4, LargerIsTooLarge DEF ServingInv
    <2>6. Unserved
      BY <2>5 DEF Unserved, Honest
    <2> QED BY <1>2, <2>6, EndingServes DEF Rolling!Fail
  <1>3. CASE \E qualification, lineage : Rolling!Respond(series, qualification, lineage)
    <2>1. at' = "done" /\ outcome'.kind = "response"
      BY <1>3 DEF Rolling!Respond
    <2> QED BY <2>1, EndingServes DEF Rolling!Responded
  <1> QED BY <1>1, <1>2, <1>3 DEF Rolling!Finish

(* Rates that are not those asked for, none, or those that complete the series. *)
LEMMA UsingRatesServes ==
  ASSUME ServingInv, Sound(request, books), NEW series, series = Given, Rolling!UseRates(series),
         request.mode = "STATEFUL", Rolling!Wants(Rolling!RiskFreeMetrics),
         returns.status = "answered", rates.status = "answered",
         UNCHANGED <<request, books, returns, rates>>
  PROVE  ServingInv'
  <1>1. CASE rates.deviation \in {"shape", "date"} /\ \E kind : Rolling!Fail(kind)
    <2>1. Unserved
      BY <1>1 DEF Unserved, Honest
    <2> QED BY <1>1, <2>1, EndingServes DEF Rolling!Fail
  <1>2. CASE DOMAIN rates.riskFree = {} /\ at' = "coverage"
    BY <1>2, AnswersStand DEF ServingInv
  <1>3. CASE Rolling!Finish([series EXCEPT !.riskFree = rates.riskFree], rates.deviation = "repeated")
    <2>1. PICK all : all = [series EXCEPT !.riskFree = rates.riskFree]
      OBVIOUS
    <2>2. PICK repeated : repeated = (rates.deviation = "repeated")
      OBVIOUS
    <2>3. /\ all.portfolio = Given.portfolio /\ all.benchmark = Given.benchmark
          /\ all.riskFree = rates.riskFree /\ DOMAIN all = Kinds
      BY <2>1 DEF Given, Kinds
    <2>4. Rolling!Finish(all, repeated)
      BY <1>3, <2>1, <2>2
    <2> QED BY <2>2, <2>3, <2>4, FinishingServes
  <1> QED BY <1>1, <1>2, <1>3 DEF Rolling!UseRates

(* The calls for the series. *)
LEMMA FetchingServes ==
  ASSUME ServingInv, RollingOrder, NEW resolved, Rolling!FetchSources(resolved),
         at \in {"accepted", "currency"}, UNCHANGED <<request, books>>
  PROVE  ServingInv'
  <1>1. at' = "sources" /\ returns'.status = "open"
    BY DEF Rolling!FetchSources, Rolling!ReturnsRequest, Rolling!Ask
  <1>2. ReturnsServe'
    BY <1>1 DEF ReturnsServe
  <1>3. RatesServe'
    <2>1. CASE UNCHANGED rates
      BY <2>1, AnswersStand DEF ServingInv
    <2>2. CASE Rolling!Wants(Rolling!RiskFreeMetrics) /\ rates'.status = "open"
      BY <2>2, RequestsStand DEF RatesServe
    <2> QED BY <2>1, <2>2 DEF Rolling!FetchSources, Rolling!Ask
  <1> QED BY <1>1, <1>2, <1>3, AnswersStand DEF ServingInv

(* Every step of the handler and every answer of an upstream keeps it. *)
LEMMA ServingSteps == RollingInv /\ TellingInv /\ ServingInv /\ Rolling!Next => ServingInv'
  <1> SUFFICES ASSUME RollingInv, TellingInv, ServingInv, Rolling!Next PROVE ServingInv'
    OBVIOUS
  <1>0. RollingOrder /\ Sound(request, books)
    BY DEF RollingInv, TellingInv
  <1>1. CASE Rolling!AnswerSnapshot
    BY <1>1, AnswersStand DEF Rolling!AnswerSnapshot, ServingInv, Rolling!Responded, Rolling!Idle
  <1>2. CASE Rolling!AnswerReturns
    <2>1. /\ returns.status = "open"
          /\ UNCHANGED <<request, books, at, rates, admitted, outcome>>
      BY <1>2 DEF Rolling!AnswerReturns
    <2>2. request.mode = "STATEFUL" /\ AskedFor(returns)
      BY <2>1 DEF TellingInv, ReturnsTell
    <2>3. returns'.status \in {"failed", "answered"} /\ ReturnsServe'
      <3>1. CASE returns'.status = "failed"
        BY <3>1 DEF ReturnsServe
      <3>2. CASE \E deviation, freshness : returns' = Rolling!ReturnsAnswer(deviation, freshness)
        <4>1. PICK deviation, freshness, answer :
                 returns' = answer /\ answer = Rolling!ReturnsAnswer(deviation, freshness)
          BY <3>2
        <4>2. answer.status = "answered" /\ answer.deviation = deviation
          BY <4>1 DEF Rolling!ReturnsAnswer
        <4>3. /\ DOMAIN answer.portfolio \subseteq DOMAIN books.portfolio
              /\ DOMAIN answer.benchmark \subseteq DOMAIN books.benchmark
          BY <4>1 DEF Rolling!ReturnsAnswer, Rolling!OfAnother, Rolling!Restrict, Rolling!Within,
                      Rolling!NoReturns
        <4>4. (deviation = "none" /\ DOMAIN Rolling!TradingRows(answer.portfolio) # {}) =>
                Admissible(answer)
          BY <1>0, <2>2, <4>1, TrueAnswersQualify
        <4>5. UNCHANGED <<request, books>>
          BY <2>1
        <4>6. Rolling!SourceWindow' = Rolling!SourceWindow
          BY <4>5, RequestsStand
        <4> QED
          BY <4>1, <4>2, <4>3, <4>4, <4>5, <4>6
          DEF ReturnsServe, Admissible, QualifiedAs, Rolling!TradingRows, Rolling!Restrict,
              Rolling!Trading
      <3> QED BY <1>2, <3>1, <3>2 DEF Rolling!AnswerReturns
    <2>4. at = "done" => Rolling!Responded' \/ Unserved'
      BY <2>1, <2>2 DEF ServingInv, Unserved, Rolling!Responded
    <2>5. at \notin {"fallback", "coverage"}
      BY <2>1 DEF ServingInv
    <2> QED BY <2>1, <2>3, <2>4, <2>5, AnswersStand DEF ServingInv
  <1>3. CASE Rolling!AnswerRates
    <2>1. /\ rates.status = "open" /\ UNCHANGED <<request, books, at, returns, admitted, outcome>>
          /\ \/ rates'.status = "failed"
             \/ rates'.status = "answered" /\ rates'.riskFree = Rolling!Within(books.riskFree, rates)
      BY <1>3 DEF Rolling!AnswerRates
    <2>2. RatesServe'
      BY <2>1, RequestsStand DEF ServingInv, RatesServe, Rolling!Within, Rolling!Restrict
    <2>3. at = "done" => Rolling!Responded' \/ Unserved'
      BY <2>1 DEF ServingInv, Unserved, Rolling!Responded
    <2>4. at # "coverage" /\ rates' # Rolling!Idle /\ Given' = Given
      BY <2>1, AnswersStand DEF ServingInv, Rolling!Idle
    <2> QED BY <2>1, <2>2, <2>3, <2>4, AnswersStand DEF ServingInv
  <1>4. CASE Rolling!Accept
    BY <1>4, EndingServes DEF Rolling!Accept, Unserved, Rolling!Fail, Rolling!Respond
  <1>5. CASE Rolling!Start
    <2>1. at = "accepted" /\ UNCHANGED <<request, books>>
      BY <1>5 DEF Rolling!Start
    <2>2. CASE Rolling!FetchSources(request.currency)
      BY <1>0, <2>1, <2>2, FetchingServes
    <2>3. CASE at' = "currency" /\ UNCHANGED <<returns, rates>>
      BY <2>1, <2>3, AnswersStand DEF ServingInv
    <2> QED BY <1>5, <2>2, <2>3 DEF Rolling!Start
  <1>6. CASE Rolling!ResumeSnapshot
    <2>1. at = "currency" /\ UNCHANGED <<request, books>>
      BY <1>6 DEF Rolling!ResumeSnapshot
    <2>2. CASE Rolling!Fail("invalid") /\ UNCHANGED <<returns, rates>>
      <3>1. Unserved
        BY <1>0, <2>1 DEF RollingOrder, Unserved, Rolling!Idle
      <3> QED BY <2>1, <2>2, <3>1, EndingServes DEF Rolling!Fail
    <2>3. CASE \E resolved : Rolling!FetchSources(resolved)
      BY <1>0, <2>1, <2>3, FetchingServes
    <2> QED BY <1>6, <2>2, <2>3 DEF Rolling!ResumeSnapshot
  <1>7. CASE Rolling!ResumeFailure
    <2>1. at' = "done" /\ UNCHANGED <<request, books, returns, rates>>
      BY <1>7 DEF Rolling!ResumeFailure, Rolling!Fail
    <2>2. Unserved
      BY <1>0, <1>7 DEF Rolling!ResumeFailure, RollingOrder, Unserved, Rolling!Idle
    <2> QED BY <2>1, <2>2, EndingServes
  <1>8. CASE Rolling!ResumeSources
    <2>1. /\ at = "sources" /\ UNCHANGED <<request, books, returns>> /\ returns.status = "answered"
          /\ rates.status \in {"idle", "answered"} /\ request.mode = "STATEFUL"
      BY <1>8 DEF Rolling!ResumeSources, TellingInv
    <2>2. PICK series : series = Given
      OBVIOUS
    <2>3. \/ Rolling!Refusal(series) # "none" /\ Rolling!Fail(Rolling!Refusal(series)) /\ UNCHANGED rates
          \/ /\ Rolling!Refusal(series) = "none" /\ ~Rolling!Wants(Rolling!RiskFreeMetrics)
             /\ Rolling!Finish(series, FALSE) /\ UNCHANGED rates
          \/ /\ Rolling!Refusal(series) = "none" /\ Rolling!Wants(Rolling!RiskFreeMetrics)
             /\ Rolling!AskRates(DOMAIN series.portfolio) /\ admitted' = series
          \/ /\ Rolling!Refusal(series) = "none" /\ Rolling!Wants(Rolling!RiskFreeMetrics)
             /\ rates # Rolling!Idle /\ Rolling!UseRates(series) /\ UNCHANGED rates
      BY <1>8, <2>2 DEF Rolling!ResumeSources, Given
    <2>4. CASE Rolling!Refusal(series) # "none" /\ Rolling!Fail(Rolling!Refusal(series)) /\ UNCHANGED rates
      <3>1. ~Honest
        <4> SUFFICES ASSUME Honest PROVE Rolling!Refusal(series) = "none"
          BY <2>4
        <4>1. /\ returns.deviation = "none" /\ DOMAIN series.portfolio # {}
              /\ Rolling!Wants(Rolling!BenchmarkMetrics) => DOMAIN series.benchmark # {}
          BY <2>2 DEF Honest, Given
        <4>2. Admissible(returns)
          BY <2>1, <2>2, <4>1 DEF ServingInv, ReturnsServe, Given
        <4>3. Rolling!SourceWindow.label \in {"SI", "none"}
          BY <1>0, <2>1, WindowIsDated
        <4>4. Rolling!Qualified
          BY <4>2, <4>3, Counting
          DEF Admissible, QualifiedAs, Rolling!Qualified, Rolling!OwnAnswer, Rolling!RowsCounted,
              Rolling!WindowAsAsked
        <4> QED BY <4>1, <4>4 DEF Rolling!Refusal
      <3>2. Unserved
        BY <2>1, <3>1 DEF Unserved
      <3> QED BY <2>1, <2>4, <3>2, EndingServes DEF Rolling!Fail
    <2>5. CASE /\ Rolling!Refusal(series) = "none" /\ ~Rolling!Wants(Rolling!RiskFreeMetrics)
               /\ Rolling!Finish(series, FALSE) /\ UNCHANGED rates
      <3>1. rates.status = "idle"
        BY <2>1, <2>5 DEF ServingInv, RatesServe
      <3>2. /\ DOMAIN series = Kinds /\ series.portfolio = Given.portfolio
            /\ series.benchmark = Given.benchmark /\ series.riskFree = Rolling!NoReturns
        BY <2>2 DEF Given, Kinds
      <3> QED BY <1>0, <2>1, <2>5, <3>1, <3>2, FinishingServes
    <2>6. CASE /\ Rolling!Wants(Rolling!RiskFreeMetrics)
               /\ Rolling!AskRates(DOMAIN series.portfolio) /\ admitted' = series
      <3>1. at' = "fallback" /\ rates'.status = "open"
        BY <2>6 DEF Rolling!AskRates
      <3>2. RatesServe'
        BY <2>1, <2>6, <3>1, RequestsStand DEF RatesServe
      <3>3. admitted' = Given'
        BY <2>1, <2>2, <2>6, AnswersStand
      <3> QED BY <2>1, <3>1, <3>2, <3>3, AnswersStand DEF ServingInv, Rolling!Idle
    <2>7. CASE /\ Rolling!Wants(Rolling!RiskFreeMetrics)
               /\ rates # Rolling!Idle /\ Rolling!UseRates(series) /\ UNCHANGED rates
      <3>1. rates.status = "answered"
        BY <2>1, <2>7 DEF RollingInv, RatedRolling, RollingCurrencies
      <3> QED BY <1>0, <2>1, <2>2, <2>7, <3>1, UsingRatesServes
    <2> QED BY <2>3, <2>4, <2>5, <2>6, <2>7
  <1>9. CASE Rolling!ResumeFallback
    <2>1. /\ at = "fallback" /\ UNCHANGED <<request, books, returns, rates>>
          /\ rates.status = "answered" /\ Rolling!UseRates(admitted)
      BY <1>9 DEF Rolling!ResumeFallback
    <2>2. PICK series : series = admitted
      OBVIOUS
    <2>3. /\ series = Given /\ returns.status = "answered" /\ request.mode = "STATEFUL"
          /\ Rolling!Wants(Rolling!RiskFreeMetrics) /\ Rolling!UseRates(series)
      BY <2>1, <2>2 DEF ServingInv, RatesServe, TellingInv
    <2> QED BY <1>0, <2>1, <2>3, UsingRatesServes
  <1>10. CASE Rolling!ResumeCoverage
    <2>1. Unserved
      <3>1. rates.status = "answered" /\ Rolling!Wants(Rolling!RiskFreeMetrics)
            /\ DOMAIN rates.riskFree = {} /\ returns.status = "answered"
        BY <1>10 DEF Rolling!ResumeCoverage, ServingInv, RatesServe
      <3> QED BY <3>1 DEF Unserved, Honest
    <2> QED BY <1>10, <2>1, EndingServes DEF Rolling!ResumeCoverage, Rolling!Fail
  <1>11. CASE Rolling!Rest
    BY <1>11, AnswersStand DEF Rolling!Rest, Rolling!vars, ServingInv, Rolling!Responded
  <1> QED BY <1>1, <1>2, <1>3, <1>4, <1>5, <1>6, <1>7, <1>8, <1>9, <1>10, <1>11 DEF Rolling!Next

-----------------------------------------------------------------------------
(* What a response says of itself: severity *)

Reasons ==
  {"permission_blocked", "unsupported_input_mode", "no_return_observations",
   "benchmark_unavailable", "insufficient_aligned_observations",
   "insufficient_observations", "group_return_series_unavailable",
   "stale_source_observations", "calculation_quality_issue"}

(* Each reason has a rank. *)
LEMMA RanksAreNumbers ==
  ASSUME NEW reason \in Reasons
  PROVE  Rolling!Rank(reason) \in Nat
  <1>1. DOMAIN Rolling!Precedence = 1 .. 9
    BY DEF Rolling!Precedence
  <1>2. \E i \in 1 .. 9 : Rolling!Precedence[i] = reason
    <2>1. /\ Rolling!Precedence[1] = "permission_blocked"
          /\ Rolling!Precedence[2] = "unsupported_input_mode"
          /\ Rolling!Precedence[3] = "no_return_observations"
          /\ Rolling!Precedence[4] = "benchmark_unavailable"
          /\ Rolling!Precedence[5] = "insufficient_aligned_observations"
          /\ Rolling!Precedence[6] = "insufficient_observations"
          /\ Rolling!Precedence[7] = "group_return_series_unavailable"
          /\ Rolling!Precedence[8] = "stale_source_observations"
          /\ Rolling!Precedence[9] = "calculation_quality_issue"
      BY DEF Rolling!Precedence
    <2>2. {1, 2, 3, 4, 5, 6, 7, 8, 9} \subseteq 1 .. 9
      OBVIOUS
    <2> QED BY <2>1, <2>2 DEF Reasons
  <1>3. Rolling!Rank(reason) \in 1 .. 9
    BY <1>1, <1>2 DEF Rolling!Rank
  <1> QED BY <1>3

(* The most severe of some reasons is one of them, and none ranks before it
   (select_supportability_reason). *)
LEMMA MostSevereReason ==
  ASSUME NEW reasons, reasons \subseteq Reasons, reasons # {}
  PROVE  /\ Rolling!MostSevere(reasons) \in reasons
         /\ \A other \in reasons : Rolling!Rank(Rolling!MostSevere(reasons)) <= Rolling!Rank(other)
  <1> DEFINE ranks == {Rolling!Rank(reason) : reason \in reasons}
  <1>1. IsWellFoundedOn(OpToRel(<, Nat), Nat)
    BY NatLessThanWellFounded
  <1>2. ranks \subseteq Nat /\ ranks # {}
    BY RanksAreNumbers
  <1>3. PICK r \in ranks : \A other \in ranks : ~(<<other, r>> \in OpToRel(<, Nat))
    <2> HIDE DEF ranks
    <2> QED BY <1>1, <1>2, WFMin
  <1>4. \A other \in ranks : r <= other
    <2> HIDE DEF ranks
    <2>1. \A other \in ranks : ~(other < r) /\ other \in Nat /\ r \in Nat
      BY <1>2, <1>3 DEF OpToRel
    <2> QED BY <2>1
  <1>5. PICK reason \in reasons : r = Rolling!Rank(reason)
    BY <1>3
  <1>6. \A other \in reasons : Rolling!Rank(reason) <= Rolling!Rank(other)
    BY <1>4, <1>5
  <1> QED BY <1>6 DEF Rolling!MostSevere

(* The reasons of the errors of a period and of its dependencies
   (supportability_reason_for_error). *)
LEMMA ReasonsOfErrors ==
  /\ Rolling!ReasonForError("BENCHMARK_UNAVAILABLE") = "benchmark_unavailable"
  /\ Rolling!ReasonForError("RISK_FREE_UNAVAILABLE") = "calculation_quality_issue"
  /\ Rolling!ReasonForError("Insufficient data") = "insufficient_observations"
  BY DEF Rolling!ReasonForError

(* What is wrong with a dependency is that it has no days, or that none is joined
   (_dependency_decision, _dependency_degradation_reason). *)
LEMMA ContextLack ==
  ASSUME NEW requested \in BOOLEAN, NEW supplied \in Nat, NEW aligned \in Nat, NEW unavailable
  PROVE  Rolling!Lack(Rolling!Context(requested, supplied, aligned, unavailable)) =
           IF ~requested THEN {}
           ELSE IF supplied = 0 THEN {Rolling!ReasonForError(unavailable)}
           ELSE IF aligned = 0 THEN {"insufficient_aligned_observations"} ELSE {}
  <1>1. PICK context : context = Rolling!Context(requested, supplied, aligned, unavailable)
    OBVIOUS
  <1>2. /\ context.requested = requested
        /\ context.available = (requested /\ supplied > 0)
        /\ context.aligned = (requested /\ supplied > 0 /\ aligned > 0)
        /\ context.reason = IF ~requested THEN "NOT_REQUESTED"
                            ELSE IF supplied = 0 THEN unavailable
                            ELSE IF aligned = 0 THEN "NO_ALIGNED_OBSERVATIONS" ELSE "APPLIED"
    BY <1>1, Zenon DEF Rolling!Context
  <1>3. supplied > 0 <=> supplied # 0
    OBVIOUS
  <1>4. aligned > 0 <=> aligned # 0
    OBVIOUS
  <1>5. /\ context.available <=> requested /\ supplied # 0
        /\ context.aligned <=> requested /\ supplied # 0 /\ aligned # 0
    BY <1>2, <1>3, <1>4, Zenon
  <1>6. Rolling!Lack(context) =
          IF ~context.requested THEN {}
          ELSE IF ~context.available THEN {Rolling!ReasonForError(context.reason)}
          ELSE IF ~context.aligned THEN {"insufficient_aligned_observations"} ELSE {}
    BY DEF Rolling!Lack
  <1>7. CASE ~requested
    BY <1>1, <1>2, <1>6, <1>7, Zenon
  <1>8. CASE requested /\ supplied = 0
    <2>1. context.reason = unavailable
      BY <1>2, <1>8, Zenon
    <2> QED BY <1>1, <1>2, <1>5, <1>6, <1>8, <2>1, Zenon
  <1>9. CASE requested /\ supplied # 0 /\ aligned = 0
    BY <1>1, <1>2, <1>5, <1>6, <1>9, Zenon
  <1>10. CASE requested /\ supplied # 0 /\ aligned # 0
    BY <1>1, <1>2, <1>5, <1>6, <1>10, Zenon
  <1> QED BY <1>7, <1>8, <1>9, <1>10

(* The days a period has of a dependency, and those that are joined, are none exactly
   if a metric that needs it joins none (rolling_dependency_context.py). *)
LEMMA JoinedCounts ==
  ASSUME Sound(request, books), NEW series, Faithful(series), DOMAIN series.portfolio # {},
         \A kind \in Kinds : Dated(DOMAIN series[kind]),
         NEW k \in DOMAIN request.periods, NEW kind \in {"benchmark", "riskFree"}
  PROVE  LET inside == Inside(series, request, k)
             needing == request.metrics \cap Joining(kind)
             supplied == Cardinality(DOMAIN inside[kind])
             joined == Rolling!AlignedCount(inside, request.metrics, Joining(kind))
         IN /\ supplied \in Nat /\ joined \in Nat
            /\ (supplied = 0 \/ joined = 0) =>
                 \A m \in needing : Rolling!JoinedDays(m, request.periods[k]) = {}
            /\ joined # 0 => \A m \in needing : Rolling!JoinedDays(m, request.periods[k]) # {}
  <1> DEFINE inside == Inside(series, request, k)
             period == request.periods[k]
             needing == request.metrics \cap Joining(kind)
             supplied == Cardinality(DOMAIN inside[kind])
             joined == Rolling!AlignedCount(inside, request.metrics, Joining(kind))
  <1>1. Dated(DOMAIN inside[kind])
    <2>1. kind \in Kinds
      BY DEF Kinds
    <2>2. DOMAIN inside[kind] \subseteq DOMAIN series[kind]
      BY <2>1 DEF Inside, Rolling!Within, Rolling!Restrict
    <2> QED BY <2>1, <2>2, DatedSubset
  <1>2. supplied \in Nat /\ (supplied = 0 => DOMAIN inside[kind] = {})
    BY <1>1, DatedFinite, FS_EmptySet
  <1>3. \A m \in needing :
          /\ Rolling!MetricDays(m, inside) = DOMAIN inside.portfolio \cap DOMAIN inside[kind]
          /\ Rolling!MetricDays(m, inside) = Rolling!JoinedDays(m, period)
          /\ Dated(Rolling!MetricDays(m, inside))
    <2>1. \A m \in needing :
            /\ m \in request.metrics
            /\ Rolling!MetricDays(m, inside) = Rolling!JoinedDays(m, period)
            /\ Dated(Rolling!MetricDays(m, inside))
      BY RolledDaysAreJoined
    <2> HIDE DEF inside
    <2>2. \A m \in needing : m \in Joining(kind)
      OBVIOUS
    <2>3. \A m \in Joining(kind) :
            Rolling!MetricDays(m, inside) = DOMAIN inside.portfolio \cap DOMAIN inside[kind]
      BY DEF Joining, Rolling!MetricDays, Rolling!OwnMetrics, Rolling!BenchmarkMetrics,
             Rolling!RiskFreeMetrics
    <2> QED BY <2>1, <2>2, <2>3
  <1>4. CASE needing = {}
    <2>1. joined = 0
      BY <1>4 DEF Rolling!AlignedCount
    <2> HIDE DEF supplied, joined
    <2> QED BY <1>2, <1>4, <2>1 DEF supplied, joined
  <1>5. CASE needing # {}
    <2>1. PICK some \in needing : joined = Cardinality(Rolling!MetricDays(some, inside))
      <3>1. joined = Cardinality(Rolling!MetricDays(CHOOSE m \in needing : TRUE, inside))
        BY <1>5, Counting DEF Rolling!AlignedCount
      <3>2. (CHOOSE m \in needing : TRUE) \in needing
        BY <1>5
      <3> HIDE DEF needing, inside, joined
      <3> QED BY <3>1, <3>2
    <2> DEFINE days == DOMAIN inside.portfolio \cap DOMAIN inside[kind]
    <2>2. joined \in Nat /\ joined = Cardinality(days) /\ (joined = 0 <=> days = {})
      <3>1. Dated(days) /\ joined = Cardinality(days)
        BY <1>3, <2>1
      <3> HIDE DEF joined, days
      <3> QED BY <3>1, DatedFinite, FS_EmptySet
    <2>3. \A m \in needing : Rolling!JoinedDays(m, period) = days
      BY <1>3
    <2>4. supplied = 0 => days = {}
      BY <1>2
    <2> HIDE DEF supplied, joined, days, needing
    <2> QED BY <1>2, <2>2, <2>3, <2>4 DEF supplied, joined, needing
  <1> QED BY <1>4, <1>5

(* A metric that needs a dependency joins no day of a period. *)
Lacks(metrics, k) ==
  \E m \in request.metrics \cap metrics : Rolling!JoinedDays(m, request.periods[k]) = {}

(* What is found wrong with the result of a period is so, and if nothing is
   then nothing is wrong (assess_period_results). *)
LEMMA DegradationTells ==
  ASSUME Sound(request, books), NEW series, Faithful(series), DOMAIN series.portfolio # {},
         \A kind \in Kinds : Dated(DOMAIN series[kind]), NEW k \in DOMAIN request.periods
  PROVE  LET result == Rolling!Results(series, request)[k]
             found == Rolling!Degradation(result)
         IN /\ result.count \in Nat
            /\ found \subseteq {"insufficient_observations", "benchmark_unavailable",
                                "insufficient_aligned_observations", "calculation_quality_issue"}
            /\ "insufficient_observations" \in found => result.count < 2
            /\ "benchmark_unavailable" \in found =>
                  ~(result.count < 2) /\ Lacks(Rolling!BenchmarkMetrics, k)
            /\ "insufficient_aligned_observations" \in found =>
                  Lacks(Rolling!BenchmarkMetrics, k) \/ Lacks(Rolling!RiskFreeMetrics, k)
            /\ "calculation_quality_issue" \in found => Lacks(Rolling!RiskFreeMetrics, k)
            /\ found = {} => /\ result.count >= 2
                             /\ \A m \in request.metrics :
                                  Rolling!JoinedDays(m, request.periods[k]) # {}
  <1> DEFINE inside == Inside(series, request, k)
             period == request.periods[k]
             bounds == Rolling!Resolved(period, request.asOf, Rolling!Earliest(DOMAIN series.portfolio))
             count == Cardinality(DOMAIN inside.portfolio)
             error == IF count < 2 THEN "Insufficient data" ELSE "none"
             context(metrics, kind, unavailable) ==
               Rolling!Context(request.metrics \cap metrics # {}, Cardinality(DOMAIN inside[kind]),
                 Rolling!AlignedCount(inside, request.metrics, metrics), unavailable)
             result == Rolling!Results(series, request)[k]
             found == Rolling!Degradation(result)
  <1>1. result = Rolling!PeriodResult(inside, bounds, request, error)
    <2>1. result = Rolling!Calculated(series, request, period)
      BY DEF Rolling!Results
    <2> QED BY <2>1, Counting DEF Rolling!Calculated, Inside, Kinds
  <1>2. /\ DOMAIN inside.portfolio = Rolling!PeriodDays("portfolio", period)
        /\ Dated(DOMAIN inside.portfolio)
    <2>1. DOMAIN inside.portfolio = Rolling!PeriodDays("portfolio", period)
      BY InsideIsThePeriod
    <2>2. Rolling!PeriodDays("portfolio", period) \subseteq Rolling!FactDays("portfolio")
      BY DEF Rolling!PeriodDays
    <2> QED BY <2>1, <2>2, FactsAreDated, DatedSubset DEF Kinds
  <1>3. count \in Nat
    BY <1>2, DatedFinite
  <1>4. CASE count < 2
    <2>1. result.count = count /\ result.error = "Insufficient data"
      <3>1. error = "Insufficient data"
        BY <1>4
      <3>2. result.error = error
        <4> HIDE DEF inside, bounds, error, result
        <4> QED BY <1>1 DEF Rolling!PeriodResult
      <3>3. result.count = count
        <4> HIDE DEF inside, bounds, error, result
        <4> QED BY <1>1, Counting DEF Rolling!PeriodResult
      <3> QED BY <3>1, <3>2, <3>3
    <2>2. found = {"insufficient_observations"}
      <3> HIDE DEF result
      <3> QED BY <2>1, ReasonsOfErrors DEF Rolling!Degradation
    <2> HIDE DEF result, found, count
    <2>3. result.count < 2 /\ result.count \in Nat
      BY <1>3, <1>4, <2>1
    <2> QED BY <2>2, <2>3 DEF result, found
  <1>5. CASE ~(count < 2)
    <2>1. /\ result.count = count /\ result.error = "none"
          /\ result.benchmark = context(Rolling!BenchmarkMetrics, "benchmark", "BENCHMARK_UNAVAILABLE")
          /\ result.riskFree = context(Rolling!RiskFreeMetrics, "riskFree", "RISK_FREE_UNAVAILABLE")
      <3>1. error = "none"
        BY <1>5
      <3> HIDE DEF inside, bounds, error, result
      <3> QED BY <1>1, <3>1, Counting DEF Rolling!PeriodResult
    <2> DEFINE benchmarks == Rolling!Lack(result.benchmark)
               risks == Rolling!Lack(result.riskFree)
    <2>2. found = IF benchmarks # {} THEN benchmarks ELSE risks
      <3> HIDE DEF result
      <3> QED BY <2>1 DEF Rolling!Degradation, Rolling!DependencyLack
    <2>3. /\ benchmarks \subseteq {"benchmark_unavailable", "insufficient_aligned_observations"}
          /\ benchmarks # {} => Lacks(Rolling!BenchmarkMetrics, k)
          /\ benchmarks = {} => \A m \in request.metrics \cap Rolling!BenchmarkMetrics :
                                  Rolling!JoinedDays(m, period) # {}
      <3> DEFINE needing == request.metrics \cap Rolling!BenchmarkMetrics
                 supplied == Cardinality(DOMAIN inside["benchmark"])
                 joined == Rolling!AlignedCount(inside, request.metrics, Rolling!BenchmarkMetrics)
      <3>1. Joining("benchmark") = Rolling!BenchmarkMetrics
        BY DEF Joining
      <3>2. /\ supplied \in Nat /\ joined \in Nat
            /\ (supplied = 0 \/ joined = 0) => \A m \in needing : Rolling!JoinedDays(m, period) = {}
            /\ joined # 0 => \A m \in needing : Rolling!JoinedDays(m, period) # {}
        <4>1. PICK kind \in {"benchmark", "riskFree"} : kind = "benchmark"
          OBVIOUS
        <4> QED BY <3>1, <4>1, JoinedCounts
      <3>3. benchmarks = Rolling!Lack(Rolling!Context(needing # {}, supplied, joined, "BENCHMARK_UNAVAILABLE"))
        <4> HIDE DEF result, inside
        <4> QED BY <2>1
      <3> HIDE DEF needing, supplied, joined, benchmarks
      <3>4. benchmarks = IF needing = {} THEN {}
                  ELSE IF supplied = 0 THEN {Rolling!ReasonForError("BENCHMARK_UNAVAILABLE")}
                  ELSE IF joined = 0 THEN {"insufficient_aligned_observations"} ELSE {}
        BY <3>2, <3>3, ContextLack
      <3>5. benchmarks # {} => \E m \in needing : Rolling!JoinedDays(m, period) = {}
        BY <3>2, <3>4
      <3>6. benchmarks = {} => \A m \in needing : Rolling!JoinedDays(m, period) # {}
        BY <3>2, <3>4
      <3> QED BY <3>4, <3>5, <3>6, ReasonsOfErrors DEF Lacks, needing
    <2>4. /\ risks \subseteq {"calculation_quality_issue", "insufficient_aligned_observations"}
          /\ risks # {} => Lacks(Rolling!RiskFreeMetrics, k)
          /\ risks = {} => \A m \in request.metrics \cap Rolling!RiskFreeMetrics :
                             Rolling!JoinedDays(m, period) # {}
      <3> DEFINE needing == request.metrics \cap Rolling!RiskFreeMetrics
                 supplied == Cardinality(DOMAIN inside["riskFree"])
                 joined == Rolling!AlignedCount(inside, request.metrics, Rolling!RiskFreeMetrics)
      <3>1. Joining("riskFree") = Rolling!RiskFreeMetrics
        BY DEF Joining
      <3>2. /\ supplied \in Nat /\ joined \in Nat
            /\ (supplied = 0 \/ joined = 0) => \A m \in needing : Rolling!JoinedDays(m, period) = {}
            /\ joined # 0 => \A m \in needing : Rolling!JoinedDays(m, period) # {}
        <4>1. PICK kind \in {"benchmark", "riskFree"} : kind = "riskFree"
          OBVIOUS
        <4> QED BY <3>1, <4>1, JoinedCounts
      <3>3. risks = Rolling!Lack(Rolling!Context(needing # {}, supplied, joined, "RISK_FREE_UNAVAILABLE"))
        <4> HIDE DEF result, inside
        <4> QED BY <2>1
      <3> HIDE DEF needing, supplied, joined, risks
      <3>4. risks = IF needing = {} THEN {}
                  ELSE IF supplied = 0 THEN {Rolling!ReasonForError("RISK_FREE_UNAVAILABLE")}
                  ELSE IF joined = 0 THEN {"insufficient_aligned_observations"} ELSE {}
        BY <3>2, <3>3, ContextLack
      <3>5. risks # {} => \E m \in needing : Rolling!JoinedDays(m, period) = {}
        BY <3>2, <3>4
      <3>6. risks = {} => \A m \in needing : Rolling!JoinedDays(m, period) # {}
        BY <3>2, <3>4
      <3> QED BY <3>4, <3>5, <3>6, ReasonsOfErrors DEF Lacks, needing
    <2>5. \A m \in request.metrics \cap Rolling!OwnMetrics : Rolling!JoinedDays(m, period) # {}
      <3>1. DOMAIN inside.portfolio # {}
        <4> HIDE DEF inside
        <4> QED BY <1>5, FS_EmptySet
      <3> QED BY <1>2, <3>1 DEF Rolling!JoinedDays
    <2>6. request.metrics \subseteq Rolling!OwnMetrics \cup Rolling!BenchmarkMetrics \cup Rolling!RiskFreeMetrics
      BY DEF Sound, Rolling!Metrics
    <2>7. result.count >= 2 /\ ~(result.count < 2) /\ result.count \in Nat
      <3> HIDE DEF result, count
      <3> QED BY <1>3, <1>5, <2>1
    <2> HIDE DEF result, found, benchmarks, risks
    <2>8. found = {} => \A m \in request.metrics : Rolling!JoinedDays(m, period) # {}
      BY <2>2, <2>3, <2>4, <2>5, <2>6
    <2>9. /\ found \subseteq {"insufficient_observations", "benchmark_unavailable",
                               "insufficient_aligned_observations", "calculation_quality_issue"}
          /\ "insufficient_observations" \notin found
          /\ "benchmark_unavailable" \in found => Lacks(Rolling!BenchmarkMetrics, k)
          /\ "insufficient_aligned_observations" \in found =>
                Lacks(Rolling!BenchmarkMetrics, k) \/ Lacks(Rolling!RiskFreeMetrics, k)
          /\ "calculation_quality_issue" \in found => Lacks(Rolling!RiskFreeMetrics, k)
      BY <2>2, <2>3, <2>4
    <2> QED BY <2>7, <2>8, <2>9 DEF result, found
  <1> QED BY <1>4, <1>5

-----------------------------------------------------------------------------
(* What a response says of itself: the verdict of the calculation *)

(* The freshness of days tells how old the last one is (freshness_bucket_from_returns). *)
LEMMA FreshnessTells ==
  ASSUME NEW days, Dated(days), days # {}, NEW day \in Nat
  PROVE  IF Rolling!Freshness(days, day) = "stale" THEN \A d \in days : d < day - 1
                                                   ELSE \E d \in days : d >= day - 1
  <1> DEFINE last == CHOOSE d \in days : \A e \in days : e <= d
             age == day - last
  <1>1. last \in days /\ (\A e \in days : e <= last) /\ days \subseteq Nat
    <2>1. \E d \in days : \A e \in days : e <= d
      BY LastDay
    <2>2. last \in days /\ \A e \in days : e <= last
      BY <2>1
    <2>3. days \subseteq Nat
      BY DEF Dated
    <2> HIDE DEF last
    <2> QED BY <2>2, <2>3
  <1>2. Rolling!Freshness(days, day) =
          CASE days = {}               -> "unknown"
            [] days # {} /\ age <= 0  -> "current"
            [] days # {} /\ age > 0   -> IF age <= 1 THEN "same_day" ELSE "stale"
    BY DEF Rolling!Freshness, Rolling!WithinADay
  <1> HIDE DEF last
  <1>3. CASE age <= 1
    <2>1. Rolling!Freshness(days, day) # "stale"
      BY <1>1, <1>2, <1>3
    <2>2. last >= day - 1
      BY <1>1, <1>3
    <2> QED BY <1>1, <2>1, <2>2
  <1>4. CASE ~(age <= 1)
    <2>1. Rolling!Freshness(days, day) = "stale"
      BY <1>1, <1>2, <1>4
    <2>2. \A d \in days : d < day - 1
      BY <1>1, <1>4
    <2> QED BY <2>1, <2>2
  <1> QED BY <1>3, <1>4

(* A verdict has a reason that results or days have; "ready" is said of fresh days
   and of results that lack nothing. *)
VerdictTells(verdict, days, day, results) ==
  \E state, reason, bucket, degraded, empty, evaluated :
    /\ verdict = [state |-> state, reason |-> reason, bucket |-> bucket,
                  degraded |-> degraded, empty |-> empty, evaluated |-> evaluated]
    /\ state = "ready" =>
         /\ reason = "calculation_complete"
         /\ \E d \in days : d >= day - 1
         /\ \A k \in DOMAIN results : Rolling!Degradation(results[k]) = {}
    /\ state # "ready" =>
         \/ reason = "no_return_observations" /\ days = {}
         \/ \E k \in DOMAIN results : reason \in Rolling!Degradation(results[k])
         \/ reason = "insufficient_observations" /\ \E k \in DOMAIN results : results[k].count = 0
         \/ reason = "stale_source_observations" /\ \A d \in days : d < day - 1

(* The verdict on the results of periods is one (period_results_supportability_state). *)
LEMMA OwnVerdict ==
  ASSUME NEW days, Dated(days), NEW day \in Nat, NEW results, IsFiniteSet(DOMAIN results),
         \A k \in DOMAIN results : Rolling!Degradation(results[k]) \subseteq Reasons
  PROVE  VerdictTells(Rolling!OfPeriods(days, day, results), days, day, results)
  <1> DEFINE found == Rolling!Assessment(results)
             bucket == Rolling!Freshness(days, day)
             reasons == UNION {Rolling!Degradation(results[k]) : k \in DOMAIN results}
             bad == {k \in DOMAIN results : Rolling!Degradation(results[k]) # {}}
             none == {k \in DOMAIN results : results[k].count = 0}
             evaluated == Cardinality(DOMAIN results)
             verdict(state, reason, degraded, empty) ==
               [state |-> state, reason |-> reason, bucket |-> bucket, degraded |-> degraded,
                empty |-> empty, evaluated |-> evaluated]
             own == Rolling!OfPeriods(days, day, results)
  <1>1. /\ found.reasons = reasons
        /\ found.degraded = Cardinality(bad) /\ found.empty = Cardinality(none)
    BY Counting DEF Rolling!Assessment
  <1>2. /\ found.degraded \in Nat /\ (found.degraded = 0 <=> bad = {})
        /\ found.empty \in Nat /\ (found.empty = 0 <=> none = {})
    <2>1. bad \subseteq DOMAIN results /\ none \subseteq DOMAIN results
      OBVIOUS
    <2> HIDE DEF bad, none, found
    <2>2. IsFiniteSet(bad) /\ IsFiniteSet(none)
      BY <2>1, FS_Subset
    <2> QED BY <1>1, <2>2, FS_CardinalityType, FS_EmptySet
  <1>3. own = CASE days = {} -> verdict("empty", "no_return_observations", 0, 0)
         [] days # {} /\ found.degraded > 0
              -> verdict("degraded", Rolling!MostSevere(found.reasons), found.degraded, found.empty)
         [] days # {} /\ found.degraded = 0 /\ found.empty > 0
              -> verdict("empty", "insufficient_observations", 0, found.empty)
         [] OTHER -> IF bucket = "stale" THEN verdict("stale", "stale_source_observations", 0, 0)
                     ELSE verdict("ready", "calculation_complete", 0, 0)
    BY Counting DEF Rolling!OfPeriods
  <1> HIDE DEF own, found, bucket, evaluated
  <1>4. CASE days = {}
    <2>1. own = verdict("empty", "no_return_observations", 0, 0)
      BY <1>3, <1>4
    <2> QED BY <1>4, <2>1 DEF own, VerdictTells
  <1>5. CASE days # {} /\ bad # {}
    <2>1. found.degraded > 0
      BY <1>2, <1>5
    <2>2. own = verdict("degraded", Rolling!MostSevere(found.reasons), found.degraded, found.empty)
      BY <1>3, <1>5, <2>1
    <2>3. reasons # {} /\ reasons \subseteq Reasons
      BY <1>5
    <2>4. PICK reason : reason = Rolling!MostSevere(found.reasons) /\ reason \in reasons
      <3> HIDE DEF reasons
      <3> QED BY <1>1, <2>3, MostSevereReason
    <2>5. \E k \in DOMAIN results : reason \in Rolling!Degradation(results[k])
      BY <2>4
    <2>6. own = verdict("degraded", reason, found.degraded, found.empty)
      BY <2>2, <2>4
    <2> QED BY <2>5, <2>6 DEF own, VerdictTells
  <1>6. CASE days # {} /\ bad = {} /\ none # {}
    <2>1. found.degraded = 0 /\ ~(found.degraded > 0) /\ found.empty > 0
      BY <1>2, <1>6
    <2>2. own = verdict("empty", "insufficient_observations", 0, found.empty)
      BY <1>3, <1>6, <2>1
    <2>3. \E k \in DOMAIN results : results[k].count = 0
      BY <1>6
    <2> QED BY <2>2, <2>3 DEF own, VerdictTells
  <1>7. CASE days # {} /\ bad = {} /\ none = {}
    <2>1. ~(found.degraded > 0) /\ ~(found.empty > 0)
      BY <1>2, <1>7
    <2>2. own = IF bucket = "stale" THEN verdict("stale", "stale_source_observations", 0, 0)
                ELSE verdict("ready", "calculation_complete", 0, 0)
      BY <1>3, <1>7, <2>1
    <2>3. IF bucket = "stale" THEN \A d \in days : d < day - 1 ELSE \E d \in days : d >= day - 1
      BY <1>7, FreshnessTells DEF bucket
    <2>4. \A k \in DOMAIN results : Rolling!Degradation(results[k]) = {}
      BY <1>7
    <2> HIDE DEF bad, none, reasons
    <2>5. CASE bucket = "stale"
      <3>1. own = verdict("stale", "stale_source_observations", 0, 0) /\ \A d \in days : d < day - 1
        BY <2>2, <2>3, <2>5
      <3> QED BY <3>1 DEF own, VerdictTells
    <2>6. CASE bucket # "stale"
      <3>1. own = verdict("ready", "calculation_complete", 0, 0) /\ \E d \in days : d >= day - 1
        BY <2>2, <2>3, <2>6
      <3> QED BY <2>4, <3>1 DEF own, VerdictTells
    <2> QED BY <2>5, <2>6
  <1> QED BY <1>4, <1>5, <1>6, <1>7

(* What the source says is merged into the verdict: it hides nothing that was found,
   and adds a reason only if the source has it (compose_returns_source_supportability). *)
LEMMA ComposeTells ==
  ASSUME NEW state, NEW reason, NEW bucket, NEW degraded, NEW empty, NEW evaluated,
         NEW own, own = [state |-> state, reason |-> reason, bucket |-> bucket,
                         degraded |-> degraded, empty |-> empty, evaluated |-> evaluated],
         state = "ready" => reason = "calculation_complete", state # "ready" => reason \in Reasons,
         NEW source, source.missing \in Nat, source.freshness \in {"current", "stale"}
  PROVE  LET q == Rolling!Compose(own, source) IN
         /\ q.degraded = degraded /\ q.empty = empty /\ q.evaluated = evaluated
         /\ q.state = "ready" =>
              state = "ready" /\ source.missing = 0 /\ source.freshness = "current"
         /\ state # "ready" => q.state # "ready" /\ Rolling!Rank(q.reason) <= Rolling!Rank(reason)
         /\ \/ q.reason = reason
            \/ q.reason = "calculation_quality_issue" /\ source.missing > 0
            \/ q.reason = "stale_source_observations" /\ source.freshness = "stale"
  <1> DEFINE said == Rolling!SourceReasons(source)
             all == said \cup (IF state # "ready" THEN {reason} ELSE {})
             first == Rolling!MostSevere(all)
             q == Rolling!Compose(own, source)
  <1>1. /\ said \subseteq {"calculation_quality_issue", "stale_source_observations"}
        /\ "calculation_quality_issue" \in said <=> source.missing > 0
        /\ "stale_source_observations" \in said <=> source.freshness = "stale"
    BY DEF Rolling!SourceReasons
  <1>2. q = IF said = {} THEN own
            ELSE [own EXCEPT
                    !.state  = IF first = own.reason THEN own.state
                               ELSE IF first = "stale_source_observations" THEN "stale"
                               ELSE "degraded",
                    !.reason = first,
                    !.bucket = IF source.freshness = "stale" THEN "stale" ELSE own.bucket]
    <2>1. own.state = state /\ own.reason = reason
      OBVIOUS
    <2> QED BY <2>1 DEF Rolling!Compose
  <1> HIDE DEF said, q
  <1>3. CASE said = {}
    <2>1. q = own
      BY <1>2, <1>3
    <2>2. source.missing = 0 /\ source.freshness = "current"
      BY <1>1, <1>3
    <2>3. state # "ready" => Rolling!Rank(reason) <= Rolling!Rank(reason)
      BY RanksAreNumbers
    <2> QED BY <2>1, <2>2, <2>3 DEF q
  <1>4. CASE said # {}
    <2>1. all \subseteq Reasons /\ all # {}
      BY <1>1, <1>4 DEF Reasons
    <2>2. first \in all /\ \A other \in all : Rolling!Rank(first) <= Rolling!Rank(other)
      <3> HIDE DEF all
      <3> QED BY <2>1, MostSevereReason
    <2> HIDE DEF first
    <2>3. /\ q.state = IF first = reason THEN state
                       ELSE IF first = "stale_source_observations" THEN "stale" ELSE "degraded"
          /\ q.reason = first
          /\ q.degraded = degraded /\ q.empty = empty /\ q.evaluated = evaluated
      BY <1>2, <1>4
    <2>4. q.state # "ready"
      <3>1. state = "ready" => first # reason
        BY <1>1, <2>2
      <3> QED BY <2>3, <3>1
    <2>5. state # "ready" => Rolling!Rank(first) <= Rolling!Rank(reason)
      BY <2>2
    <2>6. \/ first = reason
          \/ first = "calculation_quality_issue" /\ source.missing > 0
          \/ first = "stale_source_observations" /\ source.freshness = "stale"
      BY <1>1, <2>2
    <2> QED BY <2>3, <2>4, <2>5, <2>6 DEF q
  <1> QED BY <1>3, <1>4

-----------------------------------------------------------------------------
(* What a response says of itself: the request *)

(* The source counts the days it misses, and a response of its own series or of
   the source's is qualified by the calculation and by the source. *)
QualifyingInv ==
  /\ returns.status = "answered" =>
       returns.missing \in Nat /\ returns.freshness \in {"current", "stale"}
  /\ Rolling!Responded =>
       /\ \A kind \in Kinds : Dated(DOMAIN admitted[kind])
       /\ \/ /\ request.mode = "STATELESS"
             /\ outcome.qualification = Rolling!Qualification(admitted, request)
          \/ /\ request.mode = "STATEFUL" /\ returns.status = "answered"
             /\ outcome.qualification =
                  Rolling!Compose(Rolling!Qualification(admitted, request), returns)

(* The qualification of such a response can be relied on. *)
LEMMA QualificationFollows ==
  ASSUME Sound(request, books), Countable(request), ResponseTells, QualifyingInv
  PROVE  Rolling!QualificationIsHonest
  <1> SUFFICES ASSUME Rolling!Responded PROVE Rolling!QualificationIsHonest
    BY DEF Rolling!QualificationIsHonest, Rolling!NothingIsHidden, Rolling!SourceHidesNothing,
           Rolling!ReasonsAreTrue
  <1> DEFINE q == outcome.qualification
             results == outcome.results
             days == DOMAIN admitted.portfolio
             own == Rolling!Qualification(admitted, request)
             stateful == request.mode = "STATEFUL"
             wanting(kind, k) == \E m \in request.metrics :
                                   m \in kind /\ Rolling!JoinedDays(m, request.periods[k]) = {}
  <1>1. /\ results = Rolling!Results(admitted, request) /\ Faithful(admitted)
        /\ Dated(days) /\ \A kind \in Kinds : Dated(DOMAIN admitted[kind])
        /\ request.asOf \in Nat
    BY DEF ResponseTells, QualifyingInv, Sound, Kinds
  <1>2. IsFiniteSet(DOMAIN results)
    <2>1. DOMAIN results \subseteq DOMAIN request.periods
      BY <1>1 DEF Rolling!Results
    <2> QED BY <2>1, FS_Subset DEF Countable
  <1>3. ASSUME NEW k \in DOMAIN results
        PROVE  LET found == Rolling!Degradation(results[k]) IN
               /\ results[k].count \in Nat
               /\ found \subseteq {"insufficient_observations", "benchmark_unavailable",
                                   "insufficient_aligned_observations", "calculation_quality_issue"}
               /\ "insufficient_observations" \in found => results[k].count < 2
               /\ "benchmark_unavailable" \in found =>
                    ~(results[k].count < 2) /\ wanting(Rolling!BenchmarkMetrics, k)
               /\ "insufficient_aligned_observations" \in found =>
                    wanting(Rolling!BenchmarkMetrics, k) \/ wanting(Rolling!RiskFreeMetrics, k)
               /\ "calculation_quality_issue" \in found => wanting(Rolling!RiskFreeMetrics, k)
               /\ found = {} => /\ results[k].count >= 2
                                /\ \A m \in request.metrics :
                                     Rolling!JoinedDays(m, request.periods[k]) # {}
    <2>1. /\ days # {} /\ k \in DOMAIN request.periods
          /\ results[k] = Rolling!Results(admitted, request)[k]
      BY ResultsOfPeriods
    <2>2. \A metrics : Lacks(metrics, k) <=> wanting(metrics, k)
      BY DEF Lacks
    <2> HIDE DEF results
    <2> QED BY <1>1, <2>1, <2>2, DegradationTells
  <1>4. \A k \in DOMAIN results : Rolling!Degradation(results[k]) \subseteq Reasons
    BY <1>3 DEF Reasons
  <1>5. own = Rolling!OfPeriods(days, request.asOf, results)
    BY <1>1 DEF Rolling!Qualification
  <1> HIDE DEF own, results, days
  <1>6. PICK state, reason, bucket, degraded, empty, evaluated :
          /\ own = [state |-> state, reason |-> reason, bucket |-> bucket, degraded |-> degraded,
                    empty |-> empty, evaluated |-> evaluated]
          /\ state = "ready" =>
               /\ reason = "calculation_complete"
               /\ \E d \in days : d >= request.asOf - 1
               /\ \A k \in DOMAIN results : Rolling!Degradation(results[k]) = {}
          /\ state # "ready" =>
               \/ reason = "no_return_observations" /\ days = {}
               \/ \E k \in DOMAIN results : reason \in Rolling!Degradation(results[k])
               \/ reason = "insufficient_observations" /\ \E k \in DOMAIN results : results[k].count = 0
               \/ reason = "stale_source_observations" /\ \A d \in days : d < request.asOf - 1
    <2>1. PICK day \in Nat : day = request.asOf
      BY <1>1
    <2>2. PICK verdict : verdict = Rolling!OfPeriods(days, day, results) /\ verdict = own
      BY <1>5, <2>1
    <2>3. VerdictTells(verdict, days, day, results)
      <3>1. Dated(days)
        BY <1>1
      <3> QED BY <1>2, <1>4, <2>2, <3>1, OwnVerdict
    <2>4. VerdictTells(own, days, request.asOf, results)
      BY <2>1, <2>2, <2>3
    <2> QED BY <2>4 DEF VerdictTells
  <1>7. state # "ready" => reason \in Reasons
    <2>1. {"no_return_observations", "insufficient_observations", "stale_source_observations"} \subseteq Reasons
      BY DEF Reasons
    <2> QED BY <1>4, <1>6, <2>1
  <1>8. own.state = state /\ own.reason = reason
        /\ own.degraded = degraded /\ own.empty = empty /\ own.evaluated = evaluated
    BY <1>6
  <1>9. /\ q.degraded = degraded /\ q.empty = empty /\ q.evaluated = evaluated
        /\ q.state = "ready" =>
             state = "ready" /\ (stateful => returns.missing = 0 /\ returns.freshness = "current")
        /\ state # "ready" => q.state # "ready" /\ Rolling!Rank(q.reason) <= Rolling!Rank(reason)
        /\ \/ q.reason = reason
           \/ q.reason = "calculation_quality_issue" /\ stateful /\ returns.missing > 0
           \/ q.reason = "stale_source_observations" /\ stateful /\ returns.freshness = "stale"
    <2>1. CASE request.mode = "STATELESS" /\ q = own
      <3>1. state # "ready" => Rolling!Rank(reason) <= Rolling!Rank(reason)
        BY <1>7, RanksAreNumbers
      <3> QED BY <1>8, <2>1, <3>1
    <2>2. CASE stateful /\ returns.status = "answered" /\ q = Rolling!Compose(own, returns)
      <3>1. returns.missing \in Nat /\ returns.freshness \in {"current", "stale"}
        BY <2>2 DEF QualifyingInv
      <3> HIDE DEF q
      <3>2. state = "ready" => reason = "calculation_complete"
        BY <1>6
      <3>3. own = [state |-> state, reason |-> reason, bucket |-> bucket, degraded |-> degraded,
                   empty |-> empty, evaluated |-> evaluated]
        BY <1>6
      <3> QED BY <1>7, <2>2, <3>1, <3>2, <3>3, ComposeTells
    <2> QED BY <2>1, <2>2 DEF QualifyingInv, own
  <1> HIDE DEF q
  <1>10. Rolling!NothingIsHidden
    <2> SUFFICES ASSUME q.state = "ready"
                 PROVE  /\ stateful => returns.freshness = "current" /\ returns.missing = 0
                        /\ \E d \in days : d >= request.asOf - 1
                        /\ \A k \in DOMAIN results :
                             /\ results[k].count >= 2
                             /\ \A m \in request.metrics : Rolling!JoinedDays(m, request.periods[k]) # {}
      BY DEF Rolling!NothingIsHidden, q, results, days
    <2> QED BY <1>3, <1>6, <1>9
  <1>11. Rolling!SourceHidesNothing
    <2>1. /\ own.state # "ready" => q.state # "ready" /\ Rolling!Rank(q.reason) <= Rolling!Rank(own.reason)
          /\ <<q.degraded, q.empty, q.evaluated>> = <<own.degraded, own.empty, own.evaluated>>
      BY <1>8, <1>9
    <2> QED BY <2>1 DEF Rolling!SourceHidesNothing, q, own
  <1>12. Rolling!ReasonsAreTrue
    <2> DEFINE short(k) == results[k].count < 2
    <2>1. /\ reason = "stale_source_observations" => \A d \in days : d < request.asOf - 1
          /\ reason = "insufficient_observations" => \E k \in DOMAIN results : short(k)
          /\ reason = "benchmark_unavailable" =>
               \E k \in DOMAIN results : ~short(k) /\ wanting(Rolling!BenchmarkMetrics, k)
          /\ reason = "insufficient_aligned_observations" =>
               \E k \in DOMAIN results : wanting(Rolling!BenchmarkMetrics, k)
                                          \/ wanting(Rolling!RiskFreeMetrics, k)
          /\ reason = "calculation_quality_issue" =>
               \E k \in DOMAIN results : wanting(Rolling!RiskFreeMetrics, k)
          /\ reason = "no_return_observations" => days = {}
      <3>1. CASE state = "ready"
        BY <1>6, <3>1
      <3>2. CASE reason = "no_return_observations" /\ days = {}
        BY <3>2
      <3>3. CASE \E k \in DOMAIN results : reason \in Rolling!Degradation(results[k])
        BY <1>3, <3>3
      <3>4. CASE reason = "insufficient_observations" /\ \E k \in DOMAIN results : results[k].count = 0
        BY <3>4
      <3>5. CASE reason = "stale_source_observations" /\ \A d \in days : d < request.asOf - 1
        BY <3>5
      <3> QED BY <1>6, <3>1, <3>2, <3>3, <3>4, <3>5
    <2>2. /\ q.reason = "stale_source_observations" =>
              (stateful /\ returns.freshness = "stale") \/ \A d \in days : d < request.asOf - 1
          /\ q.reason = "insufficient_observations" => \E k \in DOMAIN results : short(k)
          /\ q.reason = "benchmark_unavailable" =>
               \E k \in DOMAIN results : ~short(k) /\ wanting(Rolling!BenchmarkMetrics, k)
          /\ q.reason = "insufficient_aligned_observations" =>
               \E k \in DOMAIN results : wanting(Rolling!BenchmarkMetrics, k)
                                          \/ wanting(Rolling!RiskFreeMetrics, k)
          /\ q.reason = "calculation_quality_issue" =>
               \/ stateful /\ returns.missing > 0
               \/ \E k \in DOMAIN results : wanting(Rolling!RiskFreeMetrics, k)
          /\ q.reason = "no_return_observations" => days = {}
      <3> HIDE DEF short, wanting
      <3> QED BY <1>9, <2>1
    <2> QED BY <2>2 DEF Rolling!ReasonsAreTrue, q, results, days
  <1> QED BY <1>10, <1>11, <1>12 DEF Rolling!QualificationIsHonest

(* The days that the source says it misses are counted (ReturnsAnswer). *)
LEMMA MissingIsCounted ==
  ASSUME Sound(request, books), NEW deviation, NEW freshness
  PROVE  Rolling!ReturnsAnswer(deviation, freshness).missing \in Nat
  <1> DEFINE wanted == Rolling!ProducerWindow(returns)
             given == IF deviation # "window" THEN wanted
                      ELSE IF returns.label = "SI" THEN [wanted EXCEPT !.end = @ - 1]
                      ELSE [wanted EXCEPT !.start = @ + 1]
             all == IF deviation = "outside" THEN books.portfolio
                    ELSE Rolling!Within(books.portfolio, given)
             days == DOMAIN all
             missing == IF days = {} THEN 0 ELSE Cardinality(Rolling!Expected(days) \ days)
  <1>1. Rolling!ReturnsAnswer(deviation, freshness).missing = missing
    BY Counting DEF Rolling!ReturnsAnswer
  <1>2. Dated(days)
    <2>1. DOMAIN Rolling!Within(books.portfolio, given) \subseteq DOMAIN books.portfolio
      BY DEF Rolling!Within, Rolling!Restrict
    <2> HIDE DEF given
    <2>2. days \subseteq DOMAIN books.portfolio
      BY <2>1
    <2>3. Dated(DOMAIN books.portfolio)
      BY DEF Sound, Kinds
    <2> QED BY <2>2, <2>3, DatedSubset
  <1> HIDE DEF days
  <1>3. CASE days = {}
    BY <1>1, <1>3
  <1>4. CASE days # {}
    <2> DEFINE last == CHOOSE d \in days : \A e \in days : e <= d
    <2>1. days \subseteq Nat
      BY <1>2 DEF Dated
    <2>2. \E d \in days : \A e \in days : e <= d
      BY <1>2, <1>4, LastDay
    <2>3. last \in Nat
      BY <2>1, <2>2
    <2>4. Rolling!Earliest(days) \in Nat
      BY <1>2, <1>4, <2>1, EarliestDay
    <2>5. Rolling!Expected(days) = {d \in Rolling!Earliest(days) .. last : Rolling!Trading(d)}
      BY DEF Rolling!Expected
    <2> HIDE DEF last
    <2>6. Dated(Rolling!Expected(days) \ days)
      BY <2>3, <2>4, <2>5 DEF Dated
    <2> QED BY <1>1, <1>4, <2>6, DatedFinite
  <1> QED BY <1>3, <1>4

(* It holds as long as what it is about stands. *)
LEMMA QualifyingStands ==
  ASSUME QualifyingInv, UNCHANGED <<request, returns, admitted, outcome>>
  PROVE  QualifyingInv'
  BY DEF QualifyingInv, Rolling!Responded

(* It says nothing of an error. *)
LEMMA FailingQualifies ==
  ASSUME QualifyingInv, NEW kind \in {"rejected", "invalid", "missing", "upstream"},
         Rolling!Fail(kind), UNCHANGED <<request, returns>>
  PROVE  QualifyingInv'
  <1>1. outcome'.kind # "response"
    BY DEF Rolling!Fail
  <1> QED BY <1>1 DEF QualifyingInv, Rolling!Responded

(* A response to a stateful request is qualified by the returns that were used. *)
LEMMA FinishingQualifies ==
  ASSUME QualifyingInv, NEW series, NEW repeated, Rolling!Finish(series, repeated),
         \A kind \in Kinds : Dated(DOMAIN series[kind]), request.mode = "STATEFUL",
         returns.status = "answered", UNCHANGED <<request, returns>>
  PROVE  QualifyingInv'
  <1>1. CASE Rolling!Fail("rejected")
    BY <1>1, FailingQualifies
  <1>2. CASE /\ admitted' = series
             /\ Rolling!Respond(series,
                  Rolling!Compose(Rolling!Qualification(series, request), returns), Rolling!Fingerprints)
    <2>1. outcome'.qualification = Rolling!Compose(Rolling!Qualification(series, request), returns)
      BY <1>2 DEF Rolling!Respond
    <2> QED BY <1>2, <2>1 DEF QualifyingInv
  <1> QED BY <1>1, <1>2 DEF Rolling!Finish

(* The series that the answers give are some of the books. *)
LEMMA GivenIsDated ==
  ASSUME Sound(request, books), ReturnsServe, returns.status = "answered"
  PROVE  \A kind \in Kinds : Dated(DOMAIN Given[kind])
  <1>1. /\ DOMAIN Given.portfolio \subseteq DOMAIN books.portfolio
        /\ DOMAIN Given.benchmark \subseteq DOMAIN books.benchmark
        /\ DOMAIN Given.riskFree \subseteq DOMAIN books.riskFree
    BY DEF ReturnsServe, Given, Rolling!TradingRows, Rolling!Restrict, Rolling!NoReturns
  <1>2. Dated(DOMAIN books.portfolio) /\ Dated(DOMAIN books.benchmark) /\ Dated(DOMAIN books.riskFree)
    BY DEF Sound, Kinds
  <1>3. Dated(DOMAIN Given.portfolio) /\ Dated(DOMAIN Given.benchmark) /\ Dated(DOMAIN Given.riskFree)
    BY <1>1, <1>2, DatedSubset
  <1> QED BY <1>3 DEF Kinds

(* What is done with the rates keeps it. *)
LEMMA UsingRatesQualifies ==
  ASSUME QualifyingInv, Sound(request, books), ReturnsServe, RatesServe, NEW series, series = Given,
         Rolling!UseRates(series), request.mode = "STATEFUL", returns.status = "answered",
         rates.status = "answered", UNCHANGED <<request, books, returns, rates>>
  PROVE  QualifyingInv'
  <1>1. CASE Rolling!Fail("invalid") \/ Rolling!Fail("rejected")
    BY <1>1, FailingQualifies
  <1>2. CASE UNCHANGED <<admitted, outcome>>
    BY <1>2, QualifyingStands
  <1>3. CASE Rolling!Finish([series EXCEPT !.riskFree = rates.riskFree], rates.deviation = "repeated")
    <2>1. PICK all : all = [series EXCEPT !.riskFree = rates.riskFree]
      OBVIOUS
    <2>2. PICK repeated : repeated = (rates.deviation = "repeated")
      OBVIOUS
    <2>3. /\ all.portfolio = Given.portfolio /\ all.benchmark = Given.benchmark
          /\ all.riskFree = rates.riskFree
      BY <2>1 DEF Given
    <2>4. Dated(DOMAIN all.riskFree)
      <3>1. DOMAIN all.riskFree \subseteq DOMAIN books.riskFree
        BY <2>3 DEF RatesServe
      <3>2. Dated(DOMAIN books.riskFree)
        BY DEF Sound, Kinds
      <3> QED BY <3>1, <3>2, DatedSubset
    <2>5. Dated(DOMAIN all.portfolio) /\ Dated(DOMAIN all.benchmark)
      BY <2>3, GivenIsDated DEF Kinds
    <2>6. \A kind \in Kinds : Dated(DOMAIN all[kind])
      BY <2>4, <2>5 DEF Kinds
    <2>7. Rolling!Finish(all, repeated)
      BY <1>3, <2>1, <2>2
    <2> QED BY <2>6, <2>7, FinishingQualifies
  <1> QED BY <1>1, <1>2, <1>3 DEF Rolling!UseRates

(* Every step of the handler and every answer of an upstream keeps it. *)
LEMMA QualifyingSteps ==
  TellingInv /\ ServingInv /\ RollingInv /\ QualifyingInv /\ Rolling!Next => QualifyingInv'
  <1> SUFFICES ASSUME TellingInv, ServingInv, RollingInv, QualifyingInv, Rolling!Next
               PROVE  QualifyingInv'
    OBVIOUS
  <1>0. RollingOrder /\ Sound(request, books) /\ ReturnsServe /\ RatesServe
    BY DEF RollingInv, TellingInv, ServingInv
  <1>1. CASE Rolling!AnswerSnapshot
    BY <1>1, QualifyingStands DEF Rolling!AnswerSnapshot
  <1>2. CASE Rolling!AnswerReturns
    <2>1. returns.status = "open" /\ UNCHANGED <<request, admitted, outcome>>
      BY <1>2 DEF Rolling!AnswerReturns
    <2>2. ~Rolling!Responded
      BY <2>1 DEF QualifyingInv, TellingInv, ReturnsTell
    <2>3. CASE returns'.status = "failed"
      BY <2>1, <2>2, <2>3 DEF QualifyingInv, Rolling!Responded
    <2>4. CASE \E deviation, freshness :
                 freshness \in {"current", "stale"} /\ returns' = Rolling!ReturnsAnswer(deviation, freshness)
      <3>1. PICK deviation, freshness : freshness \in {"current", "stale"}
                                       /\ returns' = Rolling!ReturnsAnswer(deviation, freshness)
        BY <2>4
      <3>2. returns'.missing \in Nat
        BY <1>0, <3>1, MissingIsCounted
      <3>3. returns'.freshness \in {"current", "stale"}
        BY <3>1 DEF Rolling!ReturnsAnswer
      <3> QED BY <2>1, <2>2, <3>2, <3>3 DEF QualifyingInv, Rolling!Responded
    <2> QED BY <1>2, <2>3, <2>4 DEF Rolling!AnswerReturns
  <1>3. CASE Rolling!AnswerRates
    BY <1>3, QualifyingStands DEF Rolling!AnswerRates
  <1>4. CASE Rolling!Accept
    <2>1. request.mode = "STATELESS" /\ UNCHANGED <<request, returns>>
      BY <1>4 DEF Rolling!Accept
    <2>2. CASE Rolling!Fail("rejected")
      BY <2>1, <2>2, FailingQualifies
    <2>3. CASE admitted' = books /\ Rolling!Respond(books, Rolling!Qualification(books, request), {})
      <3>1. outcome'.qualification = Rolling!Qualification(books, request)
        BY <2>3 DEF Rolling!Respond
      <3>2. \A kind \in Kinds : Dated(DOMAIN books[kind])
        BY <1>0 DEF Sound
      <3> QED BY <2>1, <2>3, <3>1, <3>2 DEF QualifyingInv
    <2> QED BY <1>4, <2>2, <2>3 DEF Rolling!Accept
  <1>5. CASE Rolling!Start
    <2>1. at = "accepted" /\ UNCHANGED outcome
      BY <1>5 DEF Rolling!Start
    <2>2. ~Rolling!Responded'
      BY <1>0, <2>1 DEF RollingOrder, Rolling!Responded, Rolling!Silence
    <2>3. returns'.status # "answered"
      BY <1>0, <1>5, <2>1 DEF Rolling!Start, RollingOrder, Rolling!FetchSources, Rolling!ReturnsRequest,
            Rolling!Ask, Rolling!Idle
    <2> QED BY <2>2, <2>3 DEF QualifyingInv
  <1>6. CASE Rolling!ResumeSnapshot
    <2>1. at = "currency" /\ UNCHANGED request
      BY <1>6 DEF Rolling!ResumeSnapshot
    <2>2. CASE Rolling!Fail("invalid") /\ UNCHANGED returns
      BY <2>1, <2>2, FailingQualifies
    <2>3. CASE (\E resolved : Rolling!FetchSources(resolved)) /\ UNCHANGED outcome
      <3>1. ~Rolling!Responded'
        BY <1>0, <2>1, <2>3 DEF RollingOrder, Rolling!Responded, Rolling!Silence
      <3>2. returns'.status # "answered"
        BY <2>3 DEF Rolling!FetchSources, Rolling!ReturnsRequest, Rolling!Ask
      <3> QED BY <3>1, <3>2 DEF QualifyingInv
    <2> QED BY <1>6, <2>2, <2>3 DEF Rolling!ResumeSnapshot
  <1>7. CASE Rolling!ResumeFailure
    BY <1>7, FailingQualifies DEF Rolling!ResumeFailure
  <1>8. CASE Rolling!ResumeSources
    <2>1. /\ at = "sources" /\ UNCHANGED <<request, books, returns>> /\ returns.status = "answered"
          /\ rates.status \in {"idle", "answered"} /\ request.mode = "STATEFUL"
      BY <1>8 DEF Rolling!ResumeSources, TellingInv
    <2>2. PICK series : series = Given
      OBVIOUS
    <2>3. \/ Rolling!Refusal(series) # "none" /\ Rolling!Fail(Rolling!Refusal(series))
          \/ Rolling!Finish(series, FALSE)
          \/ /\ at = "sources" /\ UNCHANGED outcome
             /\ Rolling!AskRates(DOMAIN series.portfolio)
          \/ rates # Rolling!Idle /\ Rolling!UseRates(series) /\ UNCHANGED rates
             /\ Rolling!Wants(Rolling!RiskFreeMetrics)
      BY <1>8, <2>2 DEF Rolling!ResumeSources, Given
    <2>4. CASE Rolling!Refusal(series) # "none" /\ Rolling!Fail(Rolling!Refusal(series))
      <3>1. Rolling!Refusal(series) \in {"invalid", "missing"}
        BY <2>4 DEF Rolling!Refusal
      <3> QED BY <2>1, <2>4, <3>1, FailingQualifies
    <2>5. CASE Rolling!Finish(series, FALSE)
      BY <1>0, <2>1, <2>2, <2>5, GivenIsDated, FinishingQualifies
    <2>6. CASE at = "sources" /\ UNCHANGED outcome
      <3>1. ~Rolling!Responded'
        BY <1>0, <2>6 DEF RollingOrder, Rolling!Responded, Rolling!Silence
      <3> QED BY <2>1, <3>1 DEF QualifyingInv
    <2>7. CASE rates # Rolling!Idle /\ Rolling!UseRates(series) /\ UNCHANGED rates
               /\ Rolling!Wants(Rolling!RiskFreeMetrics)
      <3>1. rates.status = "answered"
        BY <2>1, <2>7 DEF RollingInv, RatedRolling, RollingCurrencies
      <3> QED BY <1>0, <2>1, <2>2, <2>7, <3>1, UsingRatesQualifies
    <2> QED BY <2>3, <2>4, <2>5, <2>6, <2>7
  <1>9. CASE Rolling!ResumeFallback
    <2>1. /\ at = "fallback" /\ UNCHANGED <<request, books, returns, rates>>
          /\ rates.status = "answered" /\ Rolling!UseRates(admitted)
      BY <1>9 DEF Rolling!ResumeFallback
    <2>2. PICK series : series = admitted
      OBVIOUS
    <2>3. /\ series = Given /\ returns.status = "answered" /\ request.mode = "STATEFUL"
          /\ Rolling!UseRates(series)
      BY <2>1, <2>2 DEF ServingInv, TellingInv
    <2> QED BY <1>0, <2>1, <2>3, UsingRatesQualifies
  <1>10. CASE Rolling!ResumeCoverage
    BY <1>10, FailingQualifies DEF Rolling!ResumeCoverage
  <1>11. CASE Rolling!Rest
    BY <1>11, QualifyingStands DEF Rolling!Rest, Rolling!vars
  <1> QED BY <1>1, <1>2, <1>3, <1>4, <1>5, <1>6, <1>7, <1>8, <1>9, <1>10, <1>11 DEF Rolling!Next

(* What a response with rolling metrics says of itself rests on the books and on the
   answers that were served. *)
JudgedInv == BooksInv /\ (calculator = "rolling" => ServingInv /\ QualifyingInv)

(* A request that has just been accepted has no response. *)
LEMMA AcceptedQualifies == Accepted => QualifyingInv
  BY DEF Accepted, QualifyingInv, Rolling!Responded, Rolling!Idle, Rolling!Silence

(* It holds of every request at first. *)
LEMMA JudgedInit == AnyInit => JudgedInv
  <1>1. Rolling!Init => Accepted /\ Countable(request)
    BY WorldsAreCountable DEF Rolling!Init, Accepted
  <1>2. calculator = "rolling" /\ AnyInit => Rolling!Init
    BY DEF AnyInit
  <1> QED BY <1>1, <1>2, BooksInit, AcceptedServes, AcceptedQualifies DEF JudgedInv

(* Every step of any calculator keeps it. *)
LEMMA JudgedSteps == JudgedInv /\ [AnyNext]_everything => JudgedInv'
  <1> SUFFICES ASSUME JudgedInv, [AnyNext]_everything PROVE JudgedInv'
    OBVIOUS
  <1>1. BooksInv'
    BY BooksSteps DEF JudgedInv
  <1>2. CASE ARollingStep
    <2>1. calculator = "rolling" /\ Rolling!Next /\ UNCHANGED calculator
      BY <1>2 DEF ARollingStep
    <2>2. RollingInv /\ TellingInv /\ ServingInv /\ QualifyingInv
      BY <2>1 DEF JudgedInv, BooksInv, CurrencyInv
    <2> QED BY <1>1, <2>1, <2>2, ServingSteps, QualifyingSteps DEF JudgedInv
  <1>3. CASE UNCHANGED calculator /\ calculator # "rolling"
    BY <1>1, <1>3 DEF JudgedInv
  <1>4. CASE UNCHANGED everything
    <2>1. UNCHANGED <<calculator, request, books, at, returns, rates, admitted, outcome>>
      BY <1>4 DEF everything, requestVars, rollingVars, seriesVars
    <2>2. ServingInv => ServingInv'
      BY <2>1, AnswersStand DEF ServingInv, Rolling!Responded, Rolling!Idle
    <2> QED BY <1>1, <2>1, <2>2, QualifyingStands DEF JudgedInv
  <1>5. AnObservation \/ ASeriesStep \/ AnAttributionStep \/ AConcentrationStep \/ AProductStep =>
          UNCHANGED calculator /\ calculator # "rolling"
    BY DEF AnObservation, ASeriesStep, AnAttributionStep, AConcentrationStep, AProductStep
  <1> QED BY <1>2, <1>3, <1>4, <1>5 DEF AnyNext, NoMore

(* The invariant has the property. *)
LEMMA JudgedSuffices == JudgedInv => (calculator = "rolling" => Rolling!QualificationIsHonest)
  BY QualificationFollows DEF JudgedInv, BooksInv, TellingInv, ServingInv
=============================================================================
