---------------------- MODULE SeriesCalculations_proofs ----------------------
(***************************************************************************)
(* Proofs about requests for risk metrics and for drawdowns, beyond the    *)
(* currency: a metric or a drawdown takes each day that the books have in  *)
(* its period, once; and true answers are served, as they are by the other *)
(* calculators that wait for them, of which that of concentration is here  *)
(* too.                                                                    *)
(*                                                                         *)
(* A request is assumed to be sound, which those of SeriesWorlds are shown *)
(* to be.                                                                  *)
(***************************************************************************)
EXTENDS Calculations_proofs
-----------------------------------------------------------------------------
(* Observations of a series *)

(* A series has some days of a book: each in the observation that its mark names,
   with what the book has there, and no observation without a day. *)
Marked(series, book, days, mark) ==
  /\ \A l \in DOMAIN series :
       /\ DOMAIN series[l] # {}
       /\ \A d \in DOMAIN series[l] : d \in days /\ mark[d] = l /\ series[l][d] = book[d]
  /\ \A d \in days : mark[d] \in DOMAIN series /\ d \in DOMAIN series[mark[d]]

(* A day is marked by itself, or by the Friday of its week. *)
Itself == [d \in Nat |-> d]

ItsFriday == [d \in Nat |-> Series!Friday(Series!Week(d))]

(* The weeks of W-FRI end on their Fridays, which are trading days. *)
LEMMA WeeksEnd ==
  ASSUME NEW d \in Nat
  PROVE  /\ Series!Week(d) \in Nat
         /\ Series!Friday(Series!Week(d)) \in Nat
         /\ d <= Series!Friday(Series!Week(d)) /\ Series!Friday(Series!Week(d)) - 6 <= d
         /\ Series!Week(Series!Friday(Series!Week(d))) = Series!Week(d)
         /\ Series!Trading(Series!Friday(Series!Week(d)))
         /\ \A e \in Nat : d <= e /\ e < Series!Friday(Series!Week(d)) => Series!Week(e) = Series!Week(d)
         /\ \A e \in Nat : Series!Week(e) = Series!Week(d)
                             <=> Series!Friday(Series!Week(e)) = Series!Friday(Series!Week(d))
  <1>1. Series!Week(d) = (d + 2) \div 7 /\ \A w : Series!Friday(w) = 7 * w + 4
    BY DEF Series!Week, Series!Friday
  <1>2. Series!Week(d) \in Nat
    BY <1>1
  <1>3. /\ Series!Friday(Series!Week(d)) \in Nat
        /\ d <= Series!Friday(Series!Week(d)) /\ Series!Friday(Series!Week(d)) - 6 <= d
    BY <1>1, <1>2
  <1>4. \A w \in Nat : Series!Week(Series!Friday(w)) = w /\ Series!Trading(Series!Friday(w))
    BY DEF Series!Week, Series!Friday, Series!Trading
  <1>5. \A e \in Nat : d <= e /\ e < Series!Friday(Series!Week(d)) => Series!Week(e) = Series!Week(d)
    BY DEF Series!Week, Series!Friday
  <1>6. \A e \in Nat : Series!Week(e) \in Nat
    BY DEF Series!Week
  <1>7. \A e \in Nat : Series!Friday(Series!Week(e)) = Series!Friday(Series!Week(d))
                         => Series!Week(e) = Series!Week(d)
    BY <1>1, <1>2, <1>6
  <1> QED BY <1>2, <1>3, <1>4, <1>5, <1>7

(* Daily returns are observations of one day. *)
LEMMA DailyMarked ==
  ASSUME NEW book, DOMAIN book \subseteq Nat
  PROVE  Marked(Series!Daily(book), book, DOMAIN book, Itself)
  BY DEF Marked, Series!Daily, Itself

(* What is cut out of a series has the days whose marks are inside. *)
LEMMA WithinMarked ==
  ASSUME NEW series, NEW book, NEW days, NEW mark, Marked(series, book, days, mark), NEW bounds
  PROVE  Marked(Series!Within(series, bounds), book,
                {d \in days : bounds.start <= mark[d] /\ mark[d] <= bounds.end}, mark)
  BY DEF Marked, Series!Within, Series!Restrict

(* What is left of a series has the days whose marks are left. *)
LEMMA RestrictedMarked ==
  ASSUME NEW series, NEW book, NEW days, NEW mark, Marked(series, book, days, mark),
         NEW some, some \subseteq DOMAIN series
  PROVE  Marked(Series!Restrict(series, some), book, {d \in days : mark[d] \in some}, mark)
  BY DEF Marked, Series!Restrict

(* The observations of a week are merged into one, without loss
   (_compound_populated_bucket). *)
LEMMA WeeklyMarked ==
  ASSUME NEW series, NEW book, NEW days \in SUBSET Nat, NEW mark, Marked(series, book, days, mark),
         \A d \in days : mark[d] \in Nat /\ Series!Week(mark[d]) = Series!Week(d)
  PROVE  Marked(Series!Weekly(series), book, days, ItsFriday)
  <1> DEFINE weekly == Series!Weekly(series)
             ofWeek(f) == {l \in DOMAIN series : Series!Week(l) = Series!Week(f)}
  <1>1. ASSUME NEW l \in DOMAIN series PROVE l \in Nat
    <2>1. \E d \in DOMAIN series[l] : d \in days /\ mark[d] = l
      BY DEF Marked
    <2> QED BY <2>1
  <1>2. /\ DOMAIN weekly = {Series!Friday(Series!Week(l)) : l \in DOMAIN series}
        /\ \A f \in DOMAIN weekly : weekly[f] = Series!Merged(series, ofWeek(f))
    BY DEF Series!Weekly
  <1>3. \A l \in DOMAIN series : \A d \in DOMAIN series[l] :
           d \in days /\ mark[d] = l /\ series[l][d] = book[d] /\ Series!Week(d) = Series!Week(l)
    BY DEF Marked
  <1>4. \A f : /\ DOMAIN Series!Merged(series, ofWeek(f)) = UNION {DOMAIN series[l] : l \in ofWeek(f)}
               /\ \A d \in DOMAIN Series!Merged(series, ofWeek(f)) :
                    Series!Merged(series, ofWeek(f))[d] =
                      series[CHOOSE l \in ofWeek(f) : d \in DOMAIN series[l]][d]
    BY DEF Series!Merged
  <1>5. \A f, l : l \in ofWeek(f) <=> l \in DOMAIN series /\ Series!Week(l) = Series!Week(f)
    OBVIOUS
  <1> HIDE DEF weekly, ofWeek
  <1>6. ASSUME NEW f \in DOMAIN weekly
        PROVE  /\ DOMAIN weekly[f] # {}
               /\ \A d \in DOMAIN weekly[f] : d \in days /\ ItsFriday[d] = f /\ weekly[f][d] = book[d]
    <2>1. PICK l \in DOMAIN series : f = Series!Friday(Series!Week(l))
      BY <1>2
    <2>2. Series!Week(f) = Series!Week(l) /\ l \in ofWeek(f)
      BY <1>1, <1>5, <2>1, WeeksEnd
    <2>3. weekly[f] = Series!Merged(series, ofWeek(f))
      BY <1>2
    <2>4. DOMAIN weekly[f] = UNION {DOMAIN series[j] : j \in ofWeek(f)}
      BY <1>4, <2>3
    <2>5. DOMAIN series[l] # {}
      BY DEF Marked
    <2>6. ASSUME NEW d \in DOMAIN weekly[f]
          PROVE  d \in days /\ ItsFriday[d] = f /\ weekly[f][d] = book[d]
      <3> DEFINE found == CHOOSE j \in ofWeek(f) : d \in DOMAIN series[j]
      <3>1. \E j \in ofWeek(f) : d \in DOMAIN series[j]
        BY <2>4
      <3>2. found \in ofWeek(f) /\ d \in DOMAIN series[found]
        BY <3>1
      <3>3. weekly[f][d] = series[found][d]
        BY <1>4, <2>3
      <3> HIDE DEF found
      <3>4. d \in days /\ series[found][d] = book[d] /\ Series!Week(d) = Series!Week(f)
        BY <1>3, <1>5, <3>2
      <3>5. ItsFriday[d] = Series!Friday(Series!Week(f))
        BY <3>4 DEF ItsFriday
      <3> QED BY <2>1, <2>2, <3>3, <3>4, <3>5
    <2> QED BY <2>2, <2>4, <2>5, <2>6
  <1>7. ASSUME NEW d \in days
        PROVE  ItsFriday[d] \in DOMAIN weekly /\ d \in DOMAIN weekly[ItsFriday[d]]
    <2> DEFINE l == mark[d]
               f == ItsFriday[d]
    <2>1. l \in DOMAIN series /\ d \in DOMAIN series[l] /\ Series!Week(l) = Series!Week(d)
      BY DEF Marked
    <2>2. f = Series!Friday(Series!Week(l))
      BY <2>1 DEF ItsFriday
    <2>3. f \in DOMAIN weekly /\ Series!Week(f) = Series!Week(l)
      BY <1>1, <1>2, <2>1, <2>2, WeeksEnd
    <2>4. l \in ofWeek(f)
      BY <1>5, <2>1, <2>3
    <2>5. DOMAIN weekly[f] = UNION {DOMAIN series[j] : j \in ofWeek(f)}
      BY <1>2, <1>4, <2>3
    <2> HIDE DEF l, f
    <2>6. d \in DOMAIN weekly[f]
      BY <2>1, <2>4, <2>5
    <2> QED BY <2>3, <2>6 DEF f
  <1>8. Marked(weekly, book, days, ItsFriday)
    BY <1>6, <1>7 DEF Marked
  <1> QED BY <1>8 DEF weekly

(* Marked observations tell what the book has on the days, each once. *)
LEMMA MarkedTells ==
  ASSUME NEW series, NEW book, NEW days, NEW mark, Marked(series, book, days, mark)
  PROVE  Series!Tells(series, book) /\ Series!DaysOf(series) = days
  <1>1. Series!Tells(series, book)
    BY DEF Marked, Series!Tells
  <1>2. Series!DaysOf(series) = days
    BY DEF Marked, Series!DaysOf
  <1> QED BY <1>1, <1>2

(* A mark that is one for a day or for a week of the request. *)
MarksBuckets(mark, days) ==
  \A d, e \in days : mark[d] = mark[e] <=> Series!Bucket(d) = Series!Bucket(e)

(* Days of one bucket are in one observation. *)
LEMMA BucketsAreWhole ==
  ASSUME NEW series, NEW book, NEW days, NEW mark, Marked(series, book, days, mark),
         MarksBuckets(mark, days),
         NEW l \in DOMAIN series, NEW d \in DOMAIN series[l], NEW e \in Series!DaysOf(series),
         Series!Bucket(e) = Series!Bucket(d)
  PROVE  e \in DOMAIN series[l]
  <1>1. e \in days
    BY MarkedTells
  <1>2. d \in days /\ mark[d] = l
    BY DEF Marked
  <1>3. mark[e] = l
    BY <1>1, <1>2 DEF MarksBuckets
  <1> QED BY <1>1, <1>3 DEF Marked

(* The inner join of two series has the days that meet one of the other. *)
LEMMA JoinMarked ==
  ASSUME NEW series, NEW book, NEW days, NEW mark, Marked(series, book, days, mark),
         NEW second, NEW held, NEW more, Marked(second, held, more, mark),
         MarksBuckets(mark, days \cup more)
  PROVE  Marked(Series!Restrict(series, DOMAIN series \cap DOMAIN second), book,
                Series!Meeting(days, more), mark)
  <1> DEFINE joined == DOMAIN series \cap DOMAIN second
  <1>1. Marked(Series!Restrict(series, joined), book, {d \in days : mark[d] \in joined}, mark)
    BY RestrictedMarked
  <1>2. ASSUME NEW d \in days
        PROVE  mark[d] \in joined <=> \E e \in more : Series!Bucket(e) = Series!Bucket(d)
    <2>1. mark[d] \in DOMAIN series
      BY DEF Marked
    <2>2. mark[d] \in DOMAIN second <=> \E e \in more : mark[e] = mark[d]
      BY DEF Marked
    <2>3. \A e \in more : mark[e] = mark[d] <=> Series!Bucket(e) = Series!Bucket(d)
      BY DEF MarksBuckets
    <2> QED BY <2>1, <2>2, <2>3
  <1>3. {d \in days : mark[d] \in joined} = Series!Meeting(days, more)
    BY <1>2 DEF Series!Meeting
  <1> QED BY <1>1, <1>3

-----------------------------------------------------------------------------
(* Metrics of risk/calculate and risk/drawdown *)

(* What ObservationsTellThePeriod says of a value, with the days that the books
   have in its period. *)
RightValue(value, m, facts, bench) ==
  value.error = "none" =>
    /\ Series!Tells(value.observations, books.portfolio)
    /\ m \notin {"VAR", "DRAWDOWN"} =>
         \A l \in DOMAIN value.observations : \A d \in DOMAIN value.observations[l] :
           \A e \in Series!DaysOf(value.observations) :
             Series!Bucket(e) = Series!Bucket(d) => e \in DOMAIN value.observations[l]
    /\ IF m \in Series!RelativeMetrics
         THEN /\ Series!DaysOf(value.observations) = Series!Meeting(facts, bench)
              /\ Series!DaysOf(value.others) = Series!Meeting(bench, facts)
              /\ Series!Tells(value.others, books.benchmark)
         ELSE Series!DaysOf(value.observations) = facts

(* The marks of a series that is sampled. *)
SampledMark(mark, frequency) == IF frequency = "DAILY" THEN mark ELSE ItsFriday

(* Marks are days of the week of the day they mark. *)
KeepsWeeks(mark, days) ==
  \A d \in days : mark[d] \in Nat /\ Series!Week(mark[d]) = Series!Week(d)

(* Sampling loses nothing, unless it fails (resolve_metric_return_series). *)
LEMMA SampledMarked ==
  ASSUME NEW series, NEW book, NEW days \in SUBSET Nat, NEW mark, Marked(series, book, days, mark),
         KeepsWeeks(mark, days), NEW frequency, NEW log,
         Series!Sampled(series, frequency, log).error = "none"
  PROVE  Marked(Series!Sampled(series, frequency, log).series, book, days,
                SampledMark(mark, frequency))
  <1>1. Series!Sampled(series, frequency, log).series =
          IF frequency = "DAILY" THEN series ELSE Series!Weekly(series)
    BY DEF Series!Sampled
  <1>2. CASE frequency = "DAILY"
    BY <1>1, <1>2 DEF SampledMark
  <1>3. CASE frequency # "DAILY"
    BY <1>1, <1>3, WeeklyMarked DEF SampledMark, KeepsWeeks
  <1> QED BY <1>2, <1>3

(* An error is no value. *)
LEMMA FailedIsRight ==
  ASSUME NEW error, error # "none", NEW m, NEW facts, NEW bench
  PROVE  RightValue(Series!Failed(error), m, facts, bench)
  BY DEF RightValue, Series!Failed

(* A metric of the portfolio takes the days of the period, value at risk and
   drawdown as they come and the others as they are sampled
   (_period_non_benchmark_metrics). *)
LEMMA OwnValueIsRight ==
  ASSUME NEW m, m \notin Series!RelativeMetrics,
         NEW own, NEW facts \in SUBSET Nat, NEW mark, Marked(own, books.portfolio, facts, mark),
         KeepsWeeks(mark, facts), MarksBuckets(SampledMark(mark, request.frequency), facts),
         NEW bench
  PROVE  RightValue(Series!OwnValue(m, own, request), m, facts, bench)
  <1> DEFINE main == Series!Sampled(own, request.frequency, request.log)
             daily == Series!Sampled(own, "DAILY", request.log)
             used == IF m = "VAR" /\ main.error = "none" THEN daily ELSE main
             value == Series!OwnValue(m, own, request)
  <1>1. ASSUME NEW observations, NEW as, Marked(observations, books.portfolio, facts, as),
               m \notin {"VAR", "DRAWDOWN"} => MarksBuckets(as, facts),
               NEW error
        PROVE  RightValue(Series!Valued(error, observations, Series!Nobody), m, facts, bench)
    <2>1. CASE error = "none"
      <3> DEFINE it == Series!Valued(error, observations, Series!Nobody)
      <3>1. it.observations = observations
        BY <2>1 DEF Series!Valued
      <3>2. Series!Tells(observations, books.portfolio) /\ Series!DaysOf(observations) = facts
        BY <1>1, MarkedTells
      <3>3. m \notin {"VAR", "DRAWDOWN"} =>
              \A l \in DOMAIN observations : \A d \in DOMAIN observations[l] :
                \A e \in Series!DaysOf(observations) :
                  Series!Bucket(e) = Series!Bucket(d) => e \in DOMAIN observations[l]
        BY <1>1, BucketsAreWhole
      <3> HIDE DEF it
      <3> QED BY <3>1, <3>2, <3>3 DEF RightValue, it
    <2>2. CASE error # "none"
      BY <2>2, FailedIsRight DEF Series!Valued
    <2> QED BY <2>1, <2>2
  <1>2. CASE m = "DRAWDOWN"
    <2>1. value = Series!Valued("none", own, Series!Nobody)
      BY <1>2 DEF Series!OwnValue
    <2> QED BY <1>1, <1>2, <2>1
  <1>3. CASE m # "DRAWDOWN"
    <2>1. value = IF used.error # "none" THEN Series!Failed(used.error)
                  ELSE Series!Valued(Series!OwnError(m, used.series, request), used.series, Series!Nobody)
      BY <1>3 DEF Series!OwnValue
    <2>2. CASE used.error # "none"
      <3>1. value = Series!Failed(used.error)
        BY <2>1, <2>2
      <3> HIDE DEF value, used
      <3> QED BY <2>2, <3>1, FailedIsRight DEF value
    <2>3. CASE used.error = "none"
      <3>1. \E as : /\ Marked(used.series, books.portfolio, facts, as)
                    /\ m # "VAR" => MarksBuckets(as, facts)
        <4>1. CASE m = "VAR" /\ main.error = "none"
          <5>1. Marked(daily.series, books.portfolio, facts, SampledMark(mark, "DAILY"))
            BY <2>3, <4>1, SampledMarked
          <5> QED BY <4>1, <5>1
        <4>2. CASE ~(m = "VAR" /\ main.error = "none")
          <5>1. Marked(main.series, books.portfolio, facts, SampledMark(mark, request.frequency))
            BY <2>3, <4>2, SampledMarked
          <5> QED BY <4>2, <5>1
        <4> QED BY <4>1, <4>2
      <3>2. value = Series!Valued(Series!OwnError(m, used.series, request), used.series, Series!Nobody)
        BY <2>1, <2>3
      <3> HIDE DEF value, used
      <3>3. RightValue(value, m, facts, bench)
        BY <1>1, <3>1, <3>2
      <3> QED BY <3>3 DEF value
    <2> QED BY <2>2, <2>3
  <1> QED BY <1>2, <1>3

(* A metric against a benchmark takes the days and the weeks that meet one of the
   benchmark, and of the benchmark those that meet one of the portfolio
   (calculate_benchmark_period_metrics). *)
LEMMA RelativeValueIsRight ==
  ASSUME NEW m \in Series!RelativeMetrics,
         NEW own, NEW facts \in SUBSET Nat, NEW mark, Marked(own, books.portfolio, facts, mark),
         NEW against, NEW held \in SUBSET Nat, Marked(against, books.benchmark, held, mark),
         KeepsWeeks(mark, facts \cup held),
         MarksBuckets(SampledMark(mark, request.frequency), facts \cup held),
         NEW bench, Series!Meeting(facts, held) = Series!Meeting(facts, bench),
         Series!Meeting(held, facts) = Series!Meeting(bench, facts), NEW supplied
  PROVE  RightValue(Series!RelativeValue(m, Series!Sampled(own, request.frequency, request.log),
                      Series!Sampled(against, request.frequency, request.log), supplied, request.log),
                    m, facts, bench)
  <1> DEFINE main == Series!Sampled(own, request.frequency, request.log)
             other == Series!Sampled(against, request.frequency, request.log)
             joined == DOMAIN main.series \cap DOMAIN other.series
             observations == Series!Restrict(main.series, joined)
             compared == Series!Restrict(other.series, joined)
             failure == Series!RelativeFailure(main, other, supplied)
             error == Series!RelativeError(m, observations, compared, request.log)
             value == Series!RelativeValue(m, main, other, supplied, request.log)
             as == SampledMark(mark, request.frequency)
  <1>1. value = IF failure # "none" THEN Series!Failed(failure)
                ELSE IF error = "none"
                  THEN [error |-> "none", observations |-> observations, others |-> compared]
                ELSE Series!Failed(error)
    BY DEF Series!RelativeValue, Series!Joined, Series!Valued
  <1>2. failure = "none" => main.error = "none" /\ other.error = "none"
    BY DEF Series!RelativeFailure
  <1>3. KeepsWeeks(mark, facts) /\ KeepsWeeks(mark, held)
    BY DEF KeepsWeeks
  <1> HIDE DEF failure, error
  <1>4. CASE failure # "none" \/ error # "none"
    <2>1. \/ value = Series!Failed(failure) /\ failure # "none"
          \/ value = Series!Failed(error) /\ error # "none"
      BY <1>1, <1>4
    <2> HIDE DEF value
    <2>2. RightValue(value, m, facts, bench)
      BY <2>1, FailedIsRight
    <2> QED BY <2>2 DEF value
  <1>5. CASE failure = "none" /\ error = "none"
    <2>1. Marked(main.series, books.portfolio, facts, as) /\ Marked(other.series, books.benchmark, held, as)
      BY <1>2, <1>3, <1>5, SampledMarked
    <2>2. value.observations = observations /\ value.others = compared
      BY <1>1, <1>5
    <2> HIDE DEF main, other, as, value
    <2>3. MarksBuckets(as, facts \cup held) /\ MarksBuckets(as, held \cup facts)
      BY DEF as, MarksBuckets
    <2>4. Marked(observations, books.portfolio, Series!Meeting(facts, held), as)
      BY <2>1, <2>3, JoinMarked
    <2>5. joined = DOMAIN other.series \cap DOMAIN main.series
      OBVIOUS
    <2>6. Marked(compared, books.benchmark, Series!Meeting(held, facts), as)
      BY <2>1, <2>3, <2>5, JoinMarked
    <2>7. MarksBuckets(as, Series!Meeting(facts, held))
      BY <2>3 DEF MarksBuckets, Series!Meeting
    <2> HIDE DEF observations, compared, joined
    <2>8. \A l \in DOMAIN observations : \A d \in DOMAIN observations[l] :
            \A e \in Series!DaysOf(observations) :
              Series!Bucket(e) = Series!Bucket(d) => e \in DOMAIN observations[l]
      BY <2>4, <2>7, BucketsAreWhole
    <2>9. /\ Series!Tells(observations, books.portfolio)
          /\ Series!DaysOf(observations) = Series!Meeting(facts, bench)
      BY <2>4, MarkedTells
    <2>10. /\ Series!Tells(compared, books.benchmark)
           /\ Series!DaysOf(compared) = Series!Meeting(bench, facts)
      BY <2>6, MarkedTells
    <2>11. RightValue(value, m, facts, bench)
      BY <2>2, <2>8, <2>9, <2>10 DEF RightValue
    <2> QED BY <2>11 DEF value, main, other
  <1> QED BY <1>4, <1>5

-----------------------------------------------------------------------------
(* What lotus-performance is asked for, and what its answer has *)

(* A request that passes its contract, with books of dated returns.  A request for
   drawdowns that carries its series has no inception of its own, and a stateful
   one since inception has no period that ends after its own day: what a period
   asks for beyond it is not asked for (source_window.py). *)
SoundSeries(q, held) ==
  /\ q.mode \in {"STATELESS", "STATEFUL"} /\ q.service \in {"risk", "drawdown"}
  /\ q.asOf \in Nat /\ q.open \in Nat /\ q.frequency \in {"DAILY", "WEEKLY"}
  /\ IsFiniteSet(DOMAIN q.periods) /\ DOMAIN q.periods # {}
  /\ \E horizon \in Nat :
       q.asOf <= horizon /\ \A k \in DOMAIN q.periods : SoundPeriod(q.periods[k], horizon)
  /\ (q.mode = "STATEFUL" /\ \E k \in DOMAIN q.periods : q.periods[k].type = "SI") =>
       \A k \in DOMAIN q.periods : q.periods[k].type = "EXPLICIT" => q.periods[k].to <= q.asOf
  /\ Dated(DOMAIN held.portfolio) /\ Dated(DOMAIN held.benchmark)
  /\ (q.mode = "STATELESS" /\ q.service = "drawdown") =>
       \A d \in DOMAIN held.portfolio : q.open <= d

(* The choice of the first day finds it. *)
LEMMA SeriesEarliestDay ==
  ASSUME NEW days, Dated(days), days # {}
  PROVE  /\ Series!Earliest(days) \in days
         /\ \A d \in days : Series!Earliest(days) <= d
  BY FirstDay DEF Series!Earliest

(* The inception of the producer is no later than any return. *)
LEMMA InceptionIsFirst ==
  ASSUME SoundSeries(request, books)
  PROVE  /\ Series!Inception \in Nat /\ Series!Inception <= request.asOf
         /\ \A d \in DOMAIN books.portfolio : Series!Inception <= d
  <1> DEFINE days == DOMAIN books.portfolio \cup {request.asOf}
  <1>1. Dated(days) /\ days \subseteq Nat /\ days # {}
    <2>1. PICK last \in Nat : DOMAIN books.portfolio \subseteq 0 .. last
      BY DEF SoundSeries, Dated
    <2>2. PICK longer \in Nat : last <= longer /\ request.asOf <= longer
      <3>1. request.asOf \in Nat
        BY DEF SoundSeries
      <3> QED BY <3>1
    <2>3. days \subseteq 0 .. longer
      BY <2>1, <2>2 DEF SoundSeries
    <2> QED BY <2>3 DEF Dated
  <1>2. Series!Inception = Series!Earliest(days)
    BY DEF Series!Inception
  <1>3. Series!Earliest(days) \in days /\ \A d \in days : Series!Earliest(days) <= d
    BY <1>1, SeriesEarliestDay
  <1> QED BY <1>1, <1>2, <1>3

(* What a period is cut to begins with the series at the earliest (resolve_period). *)
LEMMA ResolvedBounds ==
  ASSUME NEW period, NEW end, NEW horizon, SoundPeriod(period, horizon), NEW first,
         NEW bounds, bounds = Series!Bounds(period, end, first),
         NEW resolved, resolved = Series!Resolved(period, end, first)
  PROVE  /\ bounds = [start |-> bounds.start, end |-> bounds.end]
         /\ resolved.end = bounds.end /\ resolved.start = Series!Larger(bounds.start, first)
  <1>1. bounds = [start |-> bounds.start, end |-> bounds.end]
    <2>1. CASE period.type = "EXPLICIT"
      BY <2>1 DEF Series!Bounds
    <2>2. CASE period.type = "TO_DATE"
      BY <2>2 DEF Series!Bounds
    <2>3. CASE period.type = "SI"
      BY <2>3 DEF Series!Bounds
    <2> QED BY <2>1, <2>2, <2>3 DEF SoundPeriod
  <1>2. resolved = [bounds EXCEPT !.start = Series!Larger(@, first)]
    BY DEF Series!Resolved
  <1> QED BY <1>1, <1>2

(* The bounds of a sound period, from some inception. *)
LEMMA SeriesBounds ==
  ASSUME NEW period, NEW end \in Nat, NEW horizon \in Nat, SoundPeriod(period, horizon),
         NEW first \in Nat
  PROVE  LET bounds == Series!Bounds(period, end, first)
             resolved == Series!Resolved(period, end, first)
         IN /\ bounds.start \in 0 .. horizon \/ bounds.start = first
            /\ bounds.start \in Nat /\ bounds.end \in Nat
            /\ bounds.end \in 0 .. horizon \/ bounds.end = end
            /\ bounds = [start |-> bounds.start, end |-> bounds.end]
            /\ period.type = "SI" => bounds = [start |-> first, end |-> end]
            /\ period.type = "TO_DATE" => bounds.end = end
            /\ period.type = "EXPLICIT" => bounds.end = period.to
            /\ resolved.end = bounds.end
            /\ resolved.start = Series!Larger(bounds.start, first)
            /\ resolved.start \in Nat /\ bounds.start <= resolved.start /\ first <= resolved.start
            /\ resolved.start \in {bounds.start, first}
  <1> DEFINE bounds == Series!Bounds(period, end, first)
             resolved == Series!Resolved(period, end, first)
  <1>1. resolved.end = bounds.end /\ resolved.start = Series!Larger(bounds.start, first)
    BY ResolvedBounds
  <1>2. CASE period.type = "EXPLICIT"
    <2>1. /\ bounds = [start |-> period.from, end |-> period.to]
          /\ \A other : Series!Bounds(period, end, other) = [start |-> period.from, end |-> period.to]
      BY <1>2 DEF Series!Bounds
    <2> HIDE DEF bounds, resolved
    <2>2. /\ bounds.start \in 0 .. horizon /\ bounds.end \in 0 .. horizon
      BY <1>2, <2>1 DEF SoundPeriod
    <2>3. /\ resolved.start \in Nat /\ bounds.start <= resolved.start /\ first <= resolved.start
          /\ resolved.start \in {bounds.start, first}
      BY <1>1, <2>2 DEF Series!Larger
    <2>4. bounds = [start |-> bounds.start, end |-> bounds.end] /\ bounds.end = period.to
      BY <2>1
    <2> QED BY <1>1, <1>2, <2>1, <2>2, <2>3, <2>4 DEF bounds, resolved
  <1>3. CASE period.type = "TO_DATE"
    <2>1. /\ bounds = [start |-> period.from, end |-> end]
          /\ \A other : Series!Bounds(period, end, other) = [start |-> period.from, end |-> end]
      BY <1>3 DEF Series!Bounds
    <2> HIDE DEF bounds, resolved
    <2>2. /\ bounds.start \in 0 .. horizon /\ bounds.end = end
      BY <1>3, <2>1 DEF SoundPeriod
    <2>3. /\ resolved.start \in Nat /\ bounds.start <= resolved.start /\ first <= resolved.start
          /\ resolved.start \in {bounds.start, first}
      BY <1>1, <2>2 DEF Series!Larger
    <2>4. bounds = [start |-> bounds.start, end |-> bounds.end]
      BY <2>1
    <2> QED BY <1>1, <1>3, <2>1, <2>2, <2>3, <2>4 DEF bounds, resolved
  <1>4. CASE period.type = "SI"
    <2>1. bounds = [start |-> first, end |-> end]
      BY <1>4 DEF Series!Bounds
    <2> HIDE DEF bounds, resolved
    <2>3. /\ resolved.start \in Nat /\ bounds.start <= resolved.start /\ first <= resolved.start
          /\ resolved.start \in {bounds.start, first}
      BY <1>1, <2>1 DEF Series!Larger
    <2> QED BY <1>1, <1>4, <2>1, <2>3 DEF bounds, resolved
  <1> QED BY <1>2, <1>3, <1>4 DEF SoundPeriod

(* The window that is asked for has the returns of every period, and is the period
   if there is but one (build_stateful_returns_series_request). *)
LEMMA WindowCovers ==
  ASSUME SoundSeries(request, books), request.mode = "STATEFUL"
  PROVE  LET window == Series!SourceWindow
             bounds(k) == Series!Bounds(request.periods[k], request.asOf, Series!Inception)
         IN /\ window.start \in Nat /\ window.end \in Nat
            /\ \A k \in DOMAIN request.periods :
                 /\ bounds(k).start \in Nat /\ bounds(k).end \in Nat
                 /\ \A d \in DOMAIN books.portfolio :
                      bounds(k).start <= d /\ d <= bounds(k).end
                        => window.start <= d /\ d <= window.end
                 /\ Series!Cardinality(DOMAIN request.periods) = 1 =>
                      window.start = bounds(k).start /\ window.end = bounds(k).end
  <1> DEFINE periods == {request.periods[j] : j \in DOMAIN request.periods}
             bounds(p) == Series!Bounds(p, request.asOf, Series!Inception)
             starts == {bounds(p).start : p \in periods}
             ends == {bounds(p).end : p \in periods}
             window == Series!SourceWindow
  <1>1. PICK horizon \in Nat :
          request.asOf <= horizon /\ \A k \in DOMAIN request.periods : SoundPeriod(request.periods[k], horizon)
    BY DEF SoundSeries
  <1>2. /\ Series!Inception \in Nat /\ request.asOf \in Nat /\ Series!Inception <= request.asOf
        /\ \A d \in DOMAIN books.portfolio : d \in Nat /\ Series!Inception <= d
    BY InceptionIsFirst DEF SoundSeries, Dated
  <1>3. \A p \in periods :
          /\ bounds(p).start \in 0 .. horizon /\ bounds(p).end \in 0 .. horizon
          /\ p.type = "SI" => bounds(p).start = Series!Inception /\ bounds(p).end = request.asOf
          /\ p.type = "TO_DATE" => bounds(p).end = request.asOf
          /\ p.type = "EXPLICIT" => bounds(p).end = p.to
          /\ p.type \in {"SI", "TO_DATE", "EXPLICIT"}
    <2> TAKE p \in periods
    <2>1. SoundPeriod(p, horizon)
      BY <1>1
    <2> DEFINE b == bounds(p)
    <2>2. /\ b.start \in 0 .. horizon \/ b.start = Series!Inception
          /\ b.end \in 0 .. horizon \/ b.end = request.asOf
          /\ p.type = "SI" => b = [start |-> Series!Inception, end |-> request.asOf]
          /\ p.type = "TO_DATE" => b.end = request.asOf
          /\ p.type = "EXPLICIT" => b.end = p.to
      <3>1. Series!Inception \in Nat /\ request.asOf \in Nat
        BY <1>2
      <3> QED BY <2>1, <3>1, SeriesBounds, ZenonT(30)
    <2> HIDE DEF b
    <2>3. p.type \in {"SI", "TO_DATE", "EXPLICIT"}
      BY <2>1 DEF SoundPeriod
    <2>4. b.start \in 0 .. horizon /\ b.end \in 0 .. horizon
      BY <1>1, <1>2, <2>2
    <2>5. p.type = "SI" => b.start = Series!Inception /\ b.end = request.asOf
      BY <2>2
    <2> QED BY <2>2, <2>3, <2>4, <2>5 DEF b
  <1>4. (\E p \in periods : p.type = "SI") => \A p \in periods : bounds(p).end <= request.asOf
    <2>1. (\E p \in periods : p.type = "SI") =>
            \A p \in periods : p.type = "EXPLICIT" => p.to <= request.asOf
      BY DEF SoundSeries
    <2> HIDE DEF periods, bounds
    <2> QED BY <1>2, <1>3, <2>1
  <1>5. bounds([type |-> "SI"]) = [start |-> Series!Inception, end |-> request.asOf]
    BY DEF Series!Bounds
  <1>6. window = IF \E p \in periods : p.type = "SI" THEN bounds([type |-> "SI"])
                 ELSE [start |-> Series!Earliest(starts),
                       end |-> CHOOSE e \in ends : \A f \in ends : f <= e]
    BY DEF Series!SourceWindow
  <1>7. Dated(starts) /\ Dated(ends) /\ starts # {} /\ ends # {} /\ starts \subseteq Nat /\ ends \subseteq Nat
    <2>1. starts \subseteq 0 .. horizon /\ ends \subseteq 0 .. horizon
      BY <1>3
    <2>2. periods # {}
      BY DEF SoundSeries
    <2>3. starts # {} /\ ends # {}
      BY <2>2
    <2> HIDE DEF starts, ends
    <2> QED BY <2>1, <2>3, SMTT(30) DEF Dated
  <1>8. \A p \in periods : bounds(p).start \in starts /\ bounds(p).end \in ends
    OBVIOUS
  <1>8a. Series!Cardinality(DOMAIN request.periods) = 1 =>
           \A p \in periods : starts = {bounds(p).start} /\ ends = {bounds(p).end} /\ periods = {p}
    <2> SUFFICES ASSUME Series!Cardinality(DOMAIN request.periods) = 1
                 PROVE  \A p \in periods : starts = {bounds(p).start} /\ ends = {bounds(p).end} /\ periods = {p}
      OBVIOUS
    <2>1. Cardinality(DOMAIN request.periods) = 1
      BY DEF Series!Cardinality, Cardinality
    <2>2. PICK k : DOMAIN request.periods = {k}
      BY <2>1, FS_Singleton DEF SoundSeries
    <2>3. periods = {request.periods[k]}
      BY <2>2
    <2> QED BY <2>3
  <1> DEFINE last == CHOOSE e \in ends : \A f \in ends : f <= e
  <1>9. /\ Series!Earliest(starts) \in starts /\ \A s \in starts : Series!Earliest(starts) <= s
        /\ last \in ends /\ \A e \in ends : e <= last
    <2> HIDE DEF starts, ends
    <2>1. \E e \in ends : \A f \in ends : f <= e
      BY <1>7, LastDay
    <2> QED BY <1>7, <2>1, SeriesEarliestDay
  <1> HIDE DEF starts, ends, last, window
  <1>10. ASSUME \E p \in periods : p.type = "SI"
         PROVE  /\ window.start \in Nat /\ window.end \in Nat
                 /\ \A p \in periods :
                      /\ bounds(p).start \in Nat /\ bounds(p).end \in Nat
                      /\ \A d \in DOMAIN books.portfolio :
                           bounds(p).start <= d /\ d <= bounds(p).end
                             => window.start <= d /\ d <= window.end
                      /\ Series!Cardinality(DOMAIN request.periods) = 1 =>
                           window.start = bounds(p).start /\ window.end = bounds(p).end
    <2>1. window.start = Series!Inception /\ window.end = request.asOf
      BY <1>5, <1>6, <1>10
    <2>2. ASSUME NEW p \in periods
          PROVE  /\ \A d \in DOMAIN books.portfolio :
                      bounds(p).start <= d /\ d <= bounds(p).end => window.start <= d /\ d <= window.end
                 /\ Series!Cardinality(DOMAIN request.periods) = 1 =>
                      window.start = bounds(p).start /\ window.end = bounds(p).end
      <3>1. bounds(p).end <= request.asOf /\ bounds(p).end \in Nat
        BY <1>3, <1>4, <1>10
      <3>2. Series!Cardinality(DOMAIN request.periods) = 1 => p.type = "SI"
        BY <1>8a, <1>10
      <3>3. p.type = "SI" => bounds(p).start = Series!Inception /\ bounds(p).end = request.asOf
        BY <1>3
      <3> HIDE DEF bounds, periods
      <3> QED BY <1>2, <2>1, <3>1, <3>2, <3>3
    <2> QED BY <1>2, <1>3, <2>1, <2>2
  <1>11. ASSUME ~ \E p \in periods : p.type = "SI"
         PROVE  /\ window.start \in Nat /\ window.end \in Nat
                 /\ \A p \in periods :
                      /\ bounds(p).start \in Nat /\ bounds(p).end \in Nat
                      /\ \A d \in DOMAIN books.portfolio :
                           bounds(p).start <= d /\ d <= bounds(p).end
                             => window.start <= d /\ d <= window.end
                      /\ Series!Cardinality(DOMAIN request.periods) = 1 =>
                           window.start = bounds(p).start /\ window.end = bounds(p).end
    <2>1. window.start = Series!Earliest(starts) /\ window.end = last
      BY <1>6, <1>11 DEF last
    <2>2. ASSUME NEW p \in periods
          PROVE  /\ \A d \in DOMAIN books.portfolio :
                      bounds(p).start <= d /\ d <= bounds(p).end => window.start <= d /\ d <= window.end
                 /\ Series!Cardinality(DOMAIN request.periods) = 1 =>
                      window.start = bounds(p).start /\ window.end = bounds(p).end
      <3>1. window.start <= bounds(p).start /\ bounds(p).end <= window.end
            /\ window.start \in Nat /\ window.end \in Nat /\ bounds(p).start \in Nat /\ bounds(p).end \in Nat
        BY <1>3, <1>7, <1>8, <1>9, <2>1
      <3>2. Series!Cardinality(DOMAIN request.periods) = 1 =>
              window.start = bounds(p).start /\ window.end = bounds(p).end
        BY <1>8a, <1>9, <2>1
      <3> HIDE DEF bounds, periods
      <3> QED BY <1>2, <3>1, <3>2
    <2>3. window.start \in Nat /\ window.end \in Nat
      BY <1>7, <1>9, <2>1
    <2>4. \A p \in periods : bounds(p).start \in Nat /\ bounds(p).end \in Nat
      BY <1>3
    <2> HIDE DEF bounds, periods
    <2> QED BY <2>2, <2>3, <2>4
  <1>12. \A k \in DOMAIN request.periods : request.periods[k] \in periods
    OBVIOUS
  <1> HIDE DEF periods
  <1>13. /\ window.start \in Nat /\ window.end \in Nat
         /\ \A p \in periods :
              /\ bounds(p).start \in Nat /\ bounds(p).end \in Nat
              /\ \A d \in DOMAIN books.portfolio :
                   bounds(p).start <= d /\ d <= bounds(p).end => window.start <= d /\ d <= window.end
              /\ Series!Cardinality(DOMAIN request.periods) = 1 =>
                   window.start = bounds(p).start /\ window.end = bounds(p).end
    BY <1>10, <1>11
  <1> QED BY <1>12, <1>13 DEF window

(* The label of the observation that has a day: a week that ends after the window
   is labelled by the end of the window. *)
SourceLabel ==
  [d \in Nat |->
     IF Series!SourceFrequency = "DAILY" \/ Series!Friday(Series!Week(d)) <= Series!SourceWindow.end
       THEN (IF Series!SourceFrequency = "DAILY" THEN d ELSE Series!Friday(Series!Week(d)))
       ELSE Series!SourceWindow.end]

(* The days of a book in the window; in a daily series only trading days. *)
DaysAsked(book) ==
  {d \in DOMAIN book : /\ Series!SourceWindow.start <= d /\ d <= Series!SourceWindow.end
                       /\ Series!SourceFrequency = "DAILY" => Series!Trading(d)}

(* A label inside the window is a day of the week it stands for. *)
LEMMA LabelsKeepWeeks ==
  ASSUME Series!SourceWindow.end \in Nat, NEW d \in Nat, d <= Series!SourceWindow.end
  PROVE  /\ SourceLabel[d] \in Nat
         /\ Series!Week(SourceLabel[d]) = Series!Week(d)
         /\ SourceLabel[d] >= d /\ SourceLabel[d] <= Series!SourceWindow.end
  <1> DEFINE friday == Series!Friday(Series!Week(d))
             end == Series!SourceWindow.end
  <1>1. /\ friday \in Nat /\ d <= friday /\ Series!Week(friday) = Series!Week(d)
        /\ \A e \in Nat : d <= e /\ e < friday => Series!Week(e) = Series!Week(d)
    BY WeeksEnd
  <1>2. SourceLabel[d] = IF Series!SourceFrequency = "DAILY" \/ friday <= end
                          THEN (IF Series!SourceFrequency = "DAILY" THEN d ELSE friday) ELSE end
    BY DEF SourceLabel
  <1> HIDE DEF friday, end
  <1>3. end \in Nat /\ d <= end
    BY DEF end
  <1>4. /\ SourceLabel[d] \in Nat /\ Series!Week(SourceLabel[d]) = Series!Week(d)
        /\ SourceLabel[d] >= d /\ SourceLabel[d] <= end
    <2>1. CASE Series!SourceFrequency = "DAILY"
      BY <1>2, <1>3, <2>1
    <2>2. CASE Series!SourceFrequency # "DAILY" /\ friday <= end
      BY <1>1, <1>2, <1>3, <2>2
    <2>3. CASE Series!SourceFrequency # "DAILY" /\ ~(friday <= end)
      <3>1. SourceLabel[d] = end /\ end < friday
        BY <1>1, <1>2, <1>3, <2>3
      <3> QED BY <1>1, <1>3, <3>1
    <2> QED BY <2>1, <2>2, <2>3
  <1> QED BY <1>4 DEF end

(* A daily answer that is admitted has the trading days that were asked for. *)
LEMMA DailyAnswerMarked ==
  ASSUME NEW book, DOMAIN book \subseteq Nat, Series!SourceFrequency = "DAILY",
         Series!SourceWindow.start \in Nat, Series!SourceWindow.end \in Nat, NEW kind,
         Series!AllOverlap(Series!Points(Series!Given(book, kind)))
  PROVE  /\ Marked(Series!Points(Series!Given(book, kind)), book, DaysAsked(book), SourceLabel)
         /\ Marked(Series!Normalized(Series!Points(Series!Given(book, kind))), book, DaysAsked(book),
                   SourceLabel)
  <1> DEFINE found == IF kind = "outside" THEN book ELSE Series!Within(book, Series!SourceWindow)
             points == Series!Points(Series!Given(book, kind))
             normal == Series!Normalized(points)
             first == Series!SourceWindow.start
             last == Series!SourceWindow.end
  <1>1. Series!Given(book, kind) = Series!Daily(found)
    BY DEF Series!Given
  <1>2. DOMAIN points = {d \in DOMAIN found : Series!Trading(d)}
        /\ \A d \in DOMAIN points : points[d] = [e \in {d} |-> found[d]]
    BY <1>1 DEF Series!Points, Series!Daily, Series!Restrict
  <1>3. /\ kind # "outside" => DOMAIN found = {d \in DOMAIN book : first <= d /\ d <= last}
        /\ kind = "outside" => DOMAIN found = DOMAIN book
        /\ \A d \in DOMAIN found : found[d] = book[d]
    BY DEF Series!Within, Series!Restrict
  <1>4. \A d \in DOMAIN points : d - 0 <= last /\ d >= first
    BY DEF Series!AllOverlap, Series!Overlaps
  <1>5. DOMAIN points = DaysAsked(book) /\ \A d \in DOMAIN points : d \in Nat /\ found[d] = book[d]
    <2>1. DaysAsked(book) = {d \in DOMAIN book : first <= d /\ d <= last /\ Series!Trading(d)}
      BY DEF DaysAsked
    <2>2. DOMAIN points \subseteq DaysAsked(book)
      <3> HIDE DEF points, found, first, last
      <3>1. \A d \in DOMAIN points : d \in DOMAIN book /\ d \in Nat /\ Series!Trading(d)
        BY <1>2, <1>3
      <3>2. \A d \in DOMAIN points : d <= last /\ first <= d
        BY <1>4, <3>1 DEF first, last
      <3> QED BY <2>1, <3>1, <3>2
    <2>3. DaysAsked(book) \subseteq DOMAIN points
      <3> HIDE DEF points, found, first, last
      <3> QED BY <1>2, <1>3, <2>1
    <2> HIDE DEF points, found
    <2> QED BY <1>2, <1>3, <2>2, <2>3
  <1>6. DOMAIN normal = DOMAIN points /\ \A d \in DOMAIN points : normal[d] = points[d]
    <2> HIDE DEF points
    <2>1. normal = [d \in {l : l \in DOMAIN points} |-> points[CHOOSE l \in DOMAIN points : l = d]]
      BY DEF Series!Normalized
    <2> HIDE DEF normal
    <2>2. \A d \in DOMAIN points : (CHOOSE l \in DOMAIN points : l = d) = d
      OBVIOUS
    <2> QED BY <2>1, <2>2
  <1>7. \A d \in Nat : SourceLabel[d] = d
    BY DEF SourceLabel
  <1> HIDE DEF normal, points, found
  <1>8. ASSUME NEW d \in DOMAIN points
        PROVE  DOMAIN points[d] = {d} /\ points[d][d] = book[d]
    <2>1. points[d] = [e \in {d} |-> found[d]] /\ found[d] = book[d]
      BY <1>2, <1>5
    <2> QED BY <2>1
  <1>9. /\ Marked(points, book, DaysAsked(book), SourceLabel)
        /\ Marked(normal, book, DaysAsked(book), SourceLabel)
    BY <1>5, <1>6, <1>7, <1>8 DEF Marked
  <1> QED BY <1>9 DEF normal, points

(* A weekly answer has the weeks of the days that were asked for; clamping the
   label of a week that ends after the window merges no two of them
   (normalize_return_points_to_resolved_window). *)
LEMMA WeeklyAnswerMarked ==
  ASSUME NEW book, DOMAIN book \subseteq Nat, Series!SourceFrequency # "DAILY",
         Series!SourceWindow.start \in Nat, Series!SourceWindow.end \in Nat,
         NEW kind, kind # "outside"
  PROVE  Marked(Series!Normalized(Series!Points(Series!Given(book, kind))), book, DaysAsked(book),
                SourceLabel)
  <1> DEFINE found == Series!Within(book, Series!SourceWindow)
             given == Series!Given(book, kind)
             points == Series!Points(given)
             normal == Series!Normalized(points)
             last == Series!SourceWindow.end
             days == DaysAsked(book)
             clamped(l) == IF Series!SourceFrequency = "DAILY" \/ l <= last THEN l ELSE last
  <1>1. given = Series!Weekly(Series!Daily(found))
    BY DEF Series!Given
  <1>2. DOMAIN found = days /\ \A d \in days : found[d] = book[d]
    BY DEF Series!Within, Series!Restrict, DaysAsked
  <1>3. days \subseteq Nat /\ \A d \in days : d <= last
    BY DEF DaysAsked
  <1> HIDE DEF found, given, points, normal, last, days
  <1>4. Marked(given, found, days, ItsFriday)
    <2>1. Marked(Series!Daily(found), found, days, Itself)
      BY <1>2, <1>3, DailyMarked
    <2>2. \A d \in days : Itself[d] \in Nat /\ Series!Week(Itself[d]) = Series!Week(d)
      BY <1>3 DEF Itself
    <2> QED BY <1>1, <1>3, <2>1, <2>2, WeeklyMarked
  <1>5. Marked(given, book, days, ItsFriday)
    BY <1>2, <1>4 DEF Marked
  <1>6. \A l \in DOMAIN given : \E d \in days : l = Series!Friday(Series!Week(d))
    <2> TAKE l \in DOMAIN given
    <2>1. PICK d \in days : ItsFriday[d] = l
      BY <1>5 DEF Marked
    <2> QED BY <1>3, <2>1 DEF ItsFriday
  <1>7. DOMAIN points = DOMAIN given /\ \A l \in DOMAIN given : points[l] = given[l]
    <2>1. \A l \in DOMAIN given : Series!Trading(l)
      BY <1>3, <1>6, WeeksEnd
    <2> QED BY <2>1 DEF points, Series!Points, Series!Restrict
  <1>8. normal = [d \in {clamped(l) : l \in DOMAIN points} |->
                    points[CHOOSE l \in DOMAIN points : clamped(l) = d]]
    BY DEF normal, last, Series!Normalized
  <1>9. ASSUME NEW l \in DOMAIN given
        PROVE  /\ l \in Nat /\ clamped(l) \in Nat
               /\ l = Series!Friday(Series!Week(clamped(l)))
               /\ \A d \in days : ItsFriday[d] = l => SourceLabel[d] = clamped(l)
    <2>1. PICK d \in days : l = Series!Friday(Series!Week(d))
      BY <1>6
    <2>2. /\ l \in Nat /\ d \in Nat /\ d <= l /\ d <= last /\ last \in Nat
          /\ Series!Week(l) = Series!Week(d)
          /\ \A e \in Nat : d <= e /\ e < l => Series!Week(e) = Series!Week(d)
      BY <1>3, <2>1, WeeksEnd DEF last
    <2>3. clamped(l) \in Nat /\ Series!Week(clamped(l)) = Series!Week(d)
      <3>1. CASE l <= last
        BY <2>2, <3>1
      <3>2. CASE ~(l <= last)
        <4>1. clamped(l) = last /\ last < l
          BY <2>2, <3>2
        <4> QED BY <2>2, <4>1
      <3> QED BY <3>1, <3>2
    <2>4. \A e \in days : ItsFriday[e] = l => SourceLabel[e] = clamped(l)
      BY <1>3 DEF ItsFriday, SourceLabel, last
    <2> QED BY <2>1, <2>2, <2>3, <2>4
  <1> HIDE DEF clamped
  <1>10. \A l \in DOMAIN given : (CHOOSE j \in DOMAIN points : clamped(j) = clamped(l)) = l
    <2> TAKE l \in DOMAIN given
    <2>1. \A j \in DOMAIN points : clamped(j) = clamped(l) => j = l
      BY <1>7, <1>9
    <2> QED BY <1>7, <2>1
  <1>11. /\ DOMAIN normal = {clamped(l) : l \in DOMAIN given}
         /\ \A l \in DOMAIN given : normal[clamped(l)] = given[l]
    <2>1. DOMAIN normal = {clamped(l) : l \in DOMAIN points}
      BY <1>8
    <2>2. \A l \in DOMAIN points : normal[clamped(l)] = points[CHOOSE j \in DOMAIN points : clamped(j) = clamped(l)]
      BY <1>8
    <2> QED BY <1>7, <1>10, <2>1, <2>2
  <1>12. \A l \in DOMAIN given :
           /\ DOMAIN given[l] # {}
           /\ \A d \in DOMAIN given[l] : d \in days /\ SourceLabel[d] = clamped(l) /\ given[l][d] = book[d]
    BY <1>5, <1>9 DEF Marked
  <1>13. \A d \in days : \E l \in DOMAIN given : SourceLabel[d] = clamped(l) /\ d \in DOMAIN given[l]
    BY <1>5, <1>9 DEF Marked
  <1>14. Marked(normal, book, days, SourceLabel)
    BY <1>11, <1>12, <1>13 DEF Marked
  <1> QED BY <1>14 DEF normal, points, given, days

-----------------------------------------------------------------------------
(* The periods of a response *)

(* Whatever it is opened with, up to a day, a period has the day or not. *)
LEMMA OpeningIsNoBound ==
  ASSUME SoundSeries(request, books), NEW k \in DOMAIN request.periods, NEW x \in Nat,
         NEW first \in Nat, first <= x, NEW second \in Nat, second <= x
  PROVE  LET bounds == Series!Bounds(request.periods[k], request.asOf, first)
             resolved == Series!Resolved(request.periods[k], request.asOf, second)
         IN /\ bounds.start <= x <=> resolved.start <= x
            /\ bounds.end = resolved.end /\ bounds.end \in Nat
  <1> DEFINE period == request.periods[k]
             bounds == Series!Bounds(period, request.asOf, first)
             opened == Series!Bounds(period, request.asOf, second)
             resolved == Series!Resolved(period, request.asOf, second)
  <1>1. PICK horizon \in Nat : SoundPeriod(period, horizon)
    BY DEF SoundSeries
  <1>2. request.asOf \in Nat
    BY DEF SoundSeries
  <1>3. /\ bounds.start \in Nat /\ bounds.end \in Nat
        /\ period.type = "SI" => bounds = [start |-> first, end |-> request.asOf]
    <2> HIDE DEF period
    <2>1. bounds.start \in Nat /\ bounds.end \in Nat
      BY <1>1, <1>2, SeriesBounds
    <2>2. period.type = "SI" => bounds = [start |-> first, end |-> request.asOf]
      BY DEF Series!Bounds
    <2> QED BY <2>1, <2>2
  <1>4. /\ period.type = "SI" => opened = [start |-> second, end |-> request.asOf]
        /\ resolved.end = opened.end /\ resolved.start = Series!Larger(opened.start, second)
    <2> HIDE DEF period
    <2>1. period.type = "SI" => opened = [start |-> second, end |-> request.asOf]
      BY DEF Series!Bounds
    <2>2. resolved.end = opened.end /\ resolved.start = Series!Larger(opened.start, second)
      BY <1>1, ResolvedBounds
    <2> QED BY <2>1, <2>2
  <1>4a. period.type # "SI" => opened = bounds
    <2> HIDE DEF period
    <2>1. period.type \in {"EXPLICIT", "TO_DATE", "SI"}
      BY <1>1 DEF SoundPeriod
    <2>2. CASE period.type = "EXPLICIT"
      BY <2>2 DEF Series!Bounds
    <2>3. CASE period.type = "TO_DATE"
      BY <2>3 DEF Series!Bounds
    <2> QED BY <2>1, <2>2, <2>3
  <1> HIDE DEF bounds, opened, resolved, period
  <1>5. CASE period.type = "SI"
    <2>1. bounds.start = first /\ bounds.end = request.asOf /\ opened.start = second /\ opened.end = request.asOf
      BY <1>3, <1>4, <1>5
    <2>2. resolved.start = second
      BY <1>4, <2>1 DEF Series!Larger
    <2> QED BY <1>2, <1>4, <2>1, <2>2 DEF bounds, resolved, period
  <1>6. CASE period.type # "SI"
    <2>1. resolved.end = bounds.end /\ resolved.start = Series!Larger(bounds.start, second)
      BY <1>4, <1>4a, <1>6
    <2>2. bounds.start <= x <=> resolved.start <= x
      BY <1>3, <2>1 DEF Series!Larger
    <2> QED BY <1>3, <2>1, <2>2 DEF bounds, resolved, period
  <1> QED BY <1>5, <1>6

(* Series have the days of a period, and of the benchmark those that meet one. *)
HavePeriod(series, days, more, mark, bounds, facts, bench) ==
  /\ Marked(series.portfolio, books.portfolio, days, mark)
  /\ request.metrics \cap Series!RelativeMetrics # {} =>
       Marked(series.benchmark, books.benchmark, more, mark)
  /\ KeepsWeeks(mark, days \cup more)
  /\ MarksBuckets(SampledMark(mark, request.frequency), days \cup more)
  /\ days \subseteq Nat /\ more \subseteq Nat
  /\ facts = {d \in days : bounds.start <= mark[d] /\ mark[d] <= bounds.end}
  /\ \A d \in facts : \A e : Series!Bucket(e) = Series!Bucket(d) =>
       (e \in bench <=> e \in more /\ bounds.start <= mark[e] /\ mark[e] <= bounds.end)

(* A period of risk/calculate of series that have its days (calculate_period_metrics). *)
LEMMA RiskPeriodIsRight ==
  ASSUME NEW k, NEW series, NEW first, NEW days, NEW more, NEW mark, NEW facts, NEW bench,
         HavePeriod(series, days, more, mark, Series!Resolved(request.periods[k], request.asOf, first),
                    facts, bench)
  PROVE  \A m \in request.metrics :
           RightValue(Series!RiskPeriod(series, request, request.periods[k], first).metrics[m],
                      m, facts, bench)
  <1> DEFINE bounds == Series!Resolved(request.periods[k], request.asOf, first)
  <1>0. /\ Marked(series.portfolio, books.portfolio, days, mark)
        /\ request.metrics \cap Series!RelativeMetrics # {} =>
             Marked(series.benchmark, books.benchmark, more, mark)
        /\ KeepsWeeks(mark, days \cup more)
        /\ MarksBuckets(SampledMark(mark, request.frequency), days \cup more)
        /\ days \in SUBSET Nat /\ more \in SUBSET Nat
        /\ facts = {d \in days : bounds.start <= mark[d] /\ mark[d] <= bounds.end}
        /\ \A d \in facts : \A e : Series!Bucket(e) = Series!Bucket(d) =>
             (e \in bench <=> e \in more /\ bounds.start <= mark[e] /\ mark[e] <= bounds.end)
    BY DEF HavePeriod
  <1> DEFINE own == Series!Within(series.portfolio, bounds)
             against == Series!Within(series.benchmark, bounds)
             held == {e \in more : bounds.start <= mark[e] /\ mark[e] <= bounds.end}
             supplied == DOMAIN series.benchmark # {}
             main == Series!Sampled(own, request.frequency, request.log)
             other == Series!Sampled(against, request.frequency, request.log)
  <1> TAKE m \in request.metrics
  <1>1. Series!RiskPeriod(series, request, request.periods[k], first).metrics
          = Series!PeriodMetrics(own, main, other, supplied, request)
    BY DEF Series!RiskPeriod
  <1> HIDE DEF bounds
  <1>2. Series!RiskPeriod(series, request, request.periods[k], first).metrics[m]
          = IF m \in Series!RelativeMetrics THEN Series!RelativeValue(m, main, other, supplied, request.log)
            ELSE Series!OwnValue(m, own, request)
    BY <1>1 DEF Series!PeriodMetrics
  <1>3. Marked(own, books.portfolio, facts, mark)
    BY <1>0, WithinMarked
  <1>4. facts \subseteq days /\ held \subseteq more
    BY <1>0
  <1>5. KeepsWeeks(mark, facts) /\ KeepsWeeks(mark, facts \cup held)
    BY <1>0, <1>4 DEF KeepsWeeks
  <1>6. /\ MarksBuckets(SampledMark(mark, request.frequency), facts)
        /\ MarksBuckets(SampledMark(mark, request.frequency), facts \cup held)
    BY <1>0, <1>4 DEF MarksBuckets
  <1>7. CASE m \notin Series!RelativeMetrics
    <2>1. RightValue(Series!OwnValue(m, own, request), m, facts, bench)
      <3> HIDE DEF own
      <3>1. facts \in SUBSET Nat
        BY <1>0, <1>4
      <3> QED BY <1>3, <1>5, <1>6, <1>7, <3>1, OwnValueIsRight
    <2> QED BY <1>2, <1>7, <2>1
  <1>8. CASE m \in Series!RelativeMetrics
    <2>1. Marked(against, books.benchmark, held, mark)
      BY <1>0, <1>8, WithinMarked
    <2>2. Series!Meeting(facts, held) = Series!Meeting(facts, bench)
          /\ Series!Meeting(held, facts) = Series!Meeting(bench, facts)
      <3>1. \A d \in facts : \A e : Series!Bucket(e) = Series!Bucket(d) => (e \in bench <=> e \in held)
        BY <1>0
      <3> HIDE DEF held
      <3>2. Series!Meeting(facts, held) = Series!Meeting(facts, bench)
        BY <3>1 DEF Series!Meeting
      <3>3. Series!Meeting(held, facts) = Series!Meeting(bench, facts)
        BY <3>1 DEF Series!Meeting
      <3> QED BY <3>2, <3>3
    <2>3. RightValue(Series!RelativeValue(m, main, other, supplied, request.log), m, facts, bench)
      <3>1. facts \in SUBSET Nat /\ held \in SUBSET Nat
        BY <1>0, <1>4
      <3> HIDE DEF own, against, held, supplied
      <3> QED BY <1>3, <1>5, <1>6, <1>8, <2>1, <2>2, <3>1, RelativeValueIsRight
    <2> QED BY <1>2, <1>8, <2>3
  <1> QED BY <1>7, <1>8

(* A period of risk/drawdown of a series that has its days. *)
LEMMA DrawdownPeriodIsRight ==
  ASSUME NEW k, NEW series,
         NEW days \in SUBSET Nat, NEW mark, Marked(series.portfolio, books.portfolio, days, mark),
         NEW bounds, bounds = Series!Resolved(request.periods[k], request.asOf,
                                Series!Earliest(DOMAIN series.portfolio)),
         NEW facts, facts = {d \in days : bounds.start <= mark[d] /\ mark[d] <= bounds.end},
         NEW bench, NEW result, result = Series!DrawdownPeriod(series, request, request.periods[k])
  PROVE  \A m \in DOMAIN result.metrics : RightValue(result.metrics[m], m, facts, bench)
  <1> DEFINE own == Series!Within(series.portfolio, bounds)
             value == [error |-> "none", observations |-> own, others |-> Series!Nobody]
  <1>1. \A m \in DOMAIN result.metrics : m = "DRAWDOWN" /\ result.metrics[m] = value
    BY DEF Series!DrawdownPeriod, Series!Valued
  <1>2. Marked(own, books.portfolio, facts, mark)
    BY WithinMarked
  <1>3. value.observations = own
    OBVIOUS
  <1> HIDE DEF own, value
  <1>4. Series!Tells(own, books.portfolio) /\ Series!DaysOf(own) = facts
    BY <1>2, MarkedTells
  <1>5. "DRAWDOWN" \notin Series!RelativeMetrics
    BY DEF Series!RelativeMetrics
  <1>6. RightValue(value, "DRAWDOWN", facts, bench)
    BY <1>3, <1>4, <1>5 DEF RightValue
  <1> QED BY <1>1, <1>6

(* Where the property speaks of weeks that lotus-performance makes. *)
WholeWith(kind) ==
  \/ ~Series!Stateful \/ Series!SourceFrequency = "DAILY"
  \/ Series!Cardinality(DOMAIN request.periods) = 1 /\ kind # "outside"

RightResults(results, kind) ==
  \A k \in DOMAIN results : \A m \in DOMAIN results[k].metrics :
    WholeWith(kind) => RightValue(results[k].metrics[m], m, Series!FactDays("portfolio", k),
                                  Series!FactDays("benchmark", k))

(* The property is that of the results of a response. *)
LEMMA RightResultsSuffice ==
  Series!ObservationsTellThePeriod <=> (Series!Responded => RightResults(outcome.results, returns.kind))
  BY DEF Series!ObservationsTellThePeriod, RightResults, RightValue, WholeWith

(* The results of the periods, one by one. *)
LEMMA ResultsByPeriod ==
  ASSUME NEW series, NEW first, NEW kind,
         \A k \in DOMAIN request.periods :
           WholeWith(kind) =>
             /\ request.service = "risk" =>
                  \A m \in request.metrics :
                    RightValue(Series!RiskPeriod(series, request, request.periods[k], first).metrics[m], m,
                               Series!FactDays("portfolio", k), Series!FactDays("benchmark", k))
             /\ request.service # "risk" =>
                  \A m \in DOMAIN Series!DrawdownPeriod(series, request, request.periods[k]).metrics :
                    RightValue(Series!DrawdownPeriod(series, request, request.periods[k]).metrics[m], m,
                               Series!FactDays("portfolio", k), Series!FactDays("benchmark", k))
  PROVE  RightResults(Series!ResultsOf(series, first), kind)
  <1>1. CASE DOMAIN series.portfolio = {}
    <2>1. DOMAIN Series!ResultsOf(series, first) = {}
      BY <1>1 DEF Series!ResultsOf, Series!RiskResults, Series!DrawdownResults
    <2> QED BY <2>1 DEF RightResults
  <1>2. CASE DOMAIN series.portfolio # {} /\ request.service = "risk"
    <2>1. Series!ResultsOf(series, first) =
            [k \in DOMAIN request.periods |-> Series!RiskPeriod(series, request, request.periods[k], first)]
      BY <1>2 DEF Series!ResultsOf, Series!RiskResults
    <2>2. \A k \in DOMAIN request.periods :
            DOMAIN Series!RiskPeriod(series, request, request.periods[k], first).metrics = request.metrics
      BY DEF Series!RiskPeriod, Series!PeriodMetrics
    <2> QED BY <1>2, <2>1, <2>2 DEF RightResults
  <1>3. CASE DOMAIN series.portfolio # {} /\ request.service # "risk"
    <2>1. Series!ResultsOf(series, first) =
            [k \in DOMAIN request.periods |-> Series!DrawdownPeriod(series, request, request.periods[k])]
      BY <1>3 DEF Series!ResultsOf, Series!DrawdownResults
    <2> QED BY <1>3, <2>1 DEF RightResults
  <1> QED BY <1>1, <1>2, <1>3

(* A request that carries its series gets the days and the weeks of its periods. *)
LEMMA StatelessIsRight ==
  ASSUME SoundSeries(request, books), ~Series!Stateful, NEW series, NEW kind,
         series.portfolio = Series!Daily(books.portfolio),
         series.benchmark = Series!Daily(books.benchmark)
  PROVE  RightResults(Series!ResultsOf(series, request.open), kind)
  <1> DEFINE days == DOMAIN books.portfolio
             more == DOMAIN books.benchmark
  <1>1. days \subseteq Nat /\ more \subseteq Nat
    BY DEF SoundSeries, Dated
  <1>2. Marked(series.portfolio, books.portfolio, days, Itself)
        /\ Marked(series.benchmark, books.benchmark, more, Itself)
    BY <1>1, DailyMarked
  <1>3. KeepsWeeks(Itself, days \cup more) /\ \A d \in Nat : Itself[d] = d
    BY <1>1 DEF KeepsWeeks, Itself
  <1>4. request.service = "risk" => MarksBuckets(SampledMark(Itself, request.frequency), days \cup more)
    <2>1. request.frequency \in {"DAILY", "WEEKLY"}
      BY DEF SoundSeries
    <2>2. \A d, e \in days \cup more : ItsFriday[d] = ItsFriday[e] <=> Series!Week(d) = Series!Week(e)
      BY <1>1, WeeksEnd DEF ItsFriday
    <2>3. \A d, e \in days \cup more : Itself[d] = Itself[e] <=> d = e
      BY <1>1, <1>3
    <2> QED BY <2>1, <2>2, <2>3 DEF MarksBuckets, SampledMark, Series!Bucket
  <1> HIDE DEF days, more
  <1>5. ASSUME NEW k \in DOMAIN request.periods, request.service = "risk"
        PROVE  \A m \in request.metrics :
                 RightValue(Series!RiskPeriod(series, request, request.periods[k], request.open).metrics[m],
                            m, Series!FactDays("portfolio", k), Series!FactDays("benchmark", k))
    <2> DEFINE bounds == Series!Resolved(request.periods[k], request.asOf, request.open)
    <2>1. /\ Series!FactDays("portfolio", k) = {d \in days : bounds.start <= d /\ d <= bounds.end}
          /\ Series!FactDays("benchmark", k) = {d \in more : bounds.start <= d /\ d <= bounds.end}
      BY DEF Series!FactDays, days, more
    <2> HIDE DEF bounds
    <2>2. Series!FactDays("portfolio", k) =
            {d \in days : bounds.start <= Itself[d] /\ Itself[d] <= bounds.end}
      BY <1>1, <1>3, <2>1
    <2>3. \A e : e \in Series!FactDays("benchmark", k) <=>
                  e \in more /\ bounds.start <= Itself[e] /\ Itself[e] <= bounds.end
      BY <1>1, <1>3, <2>1
    <2>4. bounds = Series!Resolved(request.periods[k], request.asOf, request.open)
      BY DEF bounds
    <2>5. MarksBuckets(SampledMark(Itself, request.frequency), days \cup more)
          /\ KeepsWeeks(Itself, days \cup more)
      BY <1>3, <1>4, <1>5
    <2>6. HavePeriod(series, days, more, Itself, bounds, Series!FactDays("portfolio", k),
                     Series!FactDays("benchmark", k))
      BY <1>1, <1>2, <2>2, <2>3, <2>5 DEF HavePeriod
    <2> QED BY <2>4, <2>6, RiskPeriodIsRight
  <1>6. ASSUME NEW k \in DOMAIN request.periods, request.service # "risk",
               NEW result, result = Series!DrawdownPeriod(series, request, request.periods[k])
        PROVE  \A m \in DOMAIN result.metrics :
                 RightValue(result.metrics[m],
                            m, Series!FactDays("portfolio", k), Series!FactDays("benchmark", k))
    <2> DEFINE bounds == Series!Resolved(request.periods[k], request.asOf, request.open)
               first == Series!Earliest(DOMAIN series.portfolio)
               resolved == Series!Resolved(request.periods[k], request.asOf, first)
    <2>1. Series!FactDays("portfolio", k) = {d \in days : bounds.start <= d /\ d <= bounds.end}
      BY DEF Series!FactDays, days
    <2>2. ASSUME NEW d \in days
          PROVE  bounds.start <= d /\ d <= bounds.end <=> resolved.start <= d /\ d <= resolved.end
      <3>1. request.open \in Nat /\ request.open <= d /\ d \in Nat /\ Dated(days)
        <4>1. request.mode = "STATELESS" /\ request.service = "drawdown"
          BY <1>6 DEF SoundSeries, Series!Stateful
        <4> QED BY <1>1, <4>1 DEF SoundSeries, days
      <3>2. DOMAIN series.portfolio = days
        BY DEF Series!Daily, days
      <3>3. first \in Nat /\ first <= d
        BY <1>1, <3>1, <3>2, SeriesEarliestDay
      <3> DEFINE opened == Series!Bounds(request.periods[k], request.asOf, first)
      <3>4. /\ opened.start <= d <=> resolved.start <= d
            /\ opened.end = resolved.end /\ opened.end \in Nat
        <4> HIDE DEF first
        <4> QED BY <3>1, <3>3, OpeningIsNoBound
      <3>5. /\ opened.start <= d <=> bounds.start <= d
            /\ opened.end = bounds.end
        <4> HIDE DEF first
        <4> QED BY <3>1, <3>3, OpeningIsNoBound
      <3> QED BY <3>4, <3>5
    <2> HIDE DEF bounds, resolved
    <2>3. Series!FactDays("portfolio", k) =
            {d \in days : resolved.start <= Itself[d] /\ Itself[d] <= resolved.end}
      BY <1>1, <1>3, <2>1, <2>2
    <2>4. resolved = Series!Resolved(request.periods[k], request.asOf, Series!Earliest(DOMAIN series.portfolio))
      BY DEF resolved
    <2> DEFINE facts == Series!FactDays("portfolio", k)
    <2>5. facts = {d \in days : resolved.start <= Itself[d] /\ Itself[d] <= resolved.end}
      BY <2>3
    <2>6. days \in SUBSET Nat
      BY <1>1
    <2> HIDE DEF facts
    <2>7. \A m \in DOMAIN result.metrics :
            RightValue(result.metrics[m], m, facts, Series!FactDays("benchmark", k))
      BY <1>2, <1>6, <2>4, <2>5, <2>6, DrawdownPeriodIsRight, ZenonT(60)
    <2> QED BY <2>7 DEF facts
  <1> QED BY <1>5, <1>6, ResultsByPeriod

(* The days that are asked for are days, and so are the labels that they get. *)
LEMMA AskedDays ==
  ASSUME SoundSeries(request, books), request.mode = "STATEFUL"
  PROVE  /\ DaysAsked(books.portfolio) \subseteq Nat /\ DaysAsked(books.benchmark) \subseteq Nat
         /\ KeepsWeeks(SourceLabel, DaysAsked(books.portfolio) \cup DaysAsked(books.benchmark))
         /\ \A d \in DaysAsked(books.portfolio) : SourceLabel[d] >= d
         /\ \A d \in DaysAsked(books.portfolio) \cup DaysAsked(books.benchmark) :
              d <= Series!SourceWindow.end /\ SourceLabel[d] <= Series!SourceWindow.end
  <1>1. DaysAsked(books.portfolio) \subseteq Nat /\ DaysAsked(books.benchmark) \subseteq Nat
    BY DEF SoundSeries, Dated, DaysAsked
  <1>2. Series!SourceWindow.end \in Nat
    BY WindowCovers
  <1>3. \A d \in DaysAsked(books.portfolio) \cup DaysAsked(books.benchmark) : d <= Series!SourceWindow.end
    BY DEF DaysAsked
  <1> QED BY <1>1, <1>2, <1>3, LabelsKeepWeeks DEF KeepsWeeks

(* A stateful request for risk samples as its source does, so that what is sampled
   is marked by days or weeks. *)
LEMMA AskedBuckets ==
  ASSUME SoundSeries(request, books), request.service = "risk", NEW days \in SUBSET Nat
  PROVE  MarksBuckets(SampledMark(SourceLabel, request.frequency), days)
  <1>1. request.frequency \in {"DAILY", "WEEKLY"} /\ Series!SourceFrequency = request.frequency
    BY DEF SoundSeries, Series!SourceFrequency
  <1>2. CASE request.frequency = "DAILY"
    BY <1>1, <1>2 DEF MarksBuckets, SampledMark, SourceLabel, Series!Bucket
  <1>3. CASE request.frequency = "WEEKLY"
    <2>1. \A d, e \in days : ItsFriday[d] = ItsFriday[e] <=> Series!Week(d) = Series!Week(e)
      BY WeeksEnd DEF ItsFriday
    <2> QED BY <1>3, <2>1 DEF MarksBuckets, SampledMark, Series!Bucket
  <1> QED BY <1>1, <1>2, <1>3

(* The days of a period among those that were asked for are all that the books have
   in it, by the labels that they get and from the first observation on. *)
LEMMA PeriodIsAsked ==
  ASSUME SoundSeries(request, books), request.mode = "STATEFUL",
         NEW kind, WholeWith(kind), NEW k \in DOMAIN request.periods, NEW series,
         Marked(series.portfolio, books.portfolio, DaysAsked(books.portfolio), SourceLabel),
         DOMAIN series.portfolio # {},
         NEW resolved, resolved = Series!Resolved(request.periods[k], request.asOf,
                                    Series!Earliest(DOMAIN series.portfolio)),
         NEW facts, facts = Series!FactDays("portfolio", k)
  PROVE  /\ facts = {d \in DaysAsked(books.portfolio) :
                       resolved.start <= SourceLabel[d] /\ SourceLabel[d] <= resolved.end}
         /\ request.service = "risk" =>
              \A d \in facts : \A e : Series!Bucket(e) = Series!Bucket(d) =>
                (e \in Series!FactDays("benchmark", k) <=>
                   /\ e \in DaysAsked(books.benchmark)
                   /\ resolved.start <= SourceLabel[e] /\ SourceLabel[e] <= resolved.end)
  <1> DEFINE window == Series!SourceWindow
             bounds == Series!Bounds(request.periods[k], request.asOf, Series!Inception)
             first == Series!Earliest(DOMAIN series.portfolio)
             days == DaysAsked(books.portfolio)
             more == DaysAsked(books.benchmark)
             bench == Series!FactDays("benchmark", k)
             daily == Series!SourceFrequency = "DAILY"
  <1>1. /\ window.start \in Nat /\ window.end \in Nat /\ bounds.start \in Nat /\ bounds.end \in Nat
        /\ \A d \in DOMAIN books.portfolio :
             bounds.start <= d /\ d <= bounds.end => window.start <= d /\ d <= window.end
        /\ Series!Cardinality(DOMAIN request.periods) = 1 =>
             window.start = bounds.start /\ window.end = bounds.end
    BY WindowCovers
  <1>2. /\ days \subseteq Nat /\ more \subseteq Nat
        /\ \A d \in days : SourceLabel[d] \in Nat /\ SourceLabel[d] >= d
        /\ \A d \in days : SourceLabel[d] <= window.end
    BY AskedDays DEF KeepsWeeks
  <1>3. first \in Nat /\ \A d \in days : first <= SourceLabel[d]
    <2>1. \A l \in DOMAIN series.portfolio : \E d \in days : SourceLabel[d] = l
      BY DEF Marked
    <2>2. DOMAIN series.portfolio \subseteq 0 .. window.end
      BY <1>1, <1>2, <2>1
    <2>3. Dated(DOMAIN series.portfolio)
      BY <1>1, <2>2 DEF Dated
    <2>4. \A d \in days : SourceLabel[d] \in DOMAIN series.portfolio
      BY DEF Marked
    <2> HIDE DEF days, window
    <2> QED BY <2>2, <2>3, <2>4, SeriesEarliestDay
  <1>4. ASSUME NEW d \in days
        PROVE  /\ bounds.start <= SourceLabel[d] <=> resolved.start <= SourceLabel[d]
               /\ bounds.end = resolved.end
    <2>1. Series!Inception \in Nat /\ Series!Inception <= SourceLabel[d]
      <3>1. d \in DOMAIN books.portfolio /\ d \in Nat
        BY <1>2 DEF DaysAsked
      <3>2. Series!Inception \in Nat /\ Series!Inception <= d
        BY <3>1, InceptionIsFirst
      <3> QED BY <1>2, <3>1, <3>2
    <2> HIDE DEF first
    <2> QED BY <1>2, <1>3, <2>1, OpeningIsNoBound DEF first
  <1>5. /\ facts = {d \in DOMAIN books.portfolio : /\ bounds.start <= d /\ d <= bounds.end
                                                   /\ daily => Series!Trading(d)}
        /\ bench = {d \in DOMAIN books.benchmark : /\ bounds.start <= d /\ d <= bounds.end
                                                   /\ daily => Series!Trading(d)}
    BY DEF Series!FactDays, Series!Stateful
  <1>6. /\ days = {d \in DOMAIN books.portfolio : /\ window.start <= d /\ d <= window.end
                                                  /\ daily => Series!Trading(d)}
        /\ more = {d \in DOMAIN books.benchmark : /\ window.start <= d /\ d <= window.end
                                                  /\ daily => Series!Trading(d)}
    BY DEF DaysAsked
  <1>7. daily => \A d \in Nat : SourceLabel[d] = d
    BY DEF SourceLabel
  <1>8. ~daily => /\ window.start = bounds.start /\ window.end = bounds.end
                  /\ \A d, e \in Nat : Series!Week(d) = Series!Week(e) => SourceLabel[d] = SourceLabel[e]
    BY <1>1 DEF WholeWith, Series!Stateful, SourceLabel
  <1>9. request.service = "risk" =>
          \A d, e : Series!Bucket(e) = Series!Bucket(d) =>
            IF daily THEN e = d ELSE Series!Week(e) = Series!Week(d)
    BY DEF Series!Bucket, Series!SourceFrequency, SoundSeries
  <1> HIDE DEF window, bounds, first, days, more, bench, daily
  <1>10. facts \subseteq days
    BY <1>1, <1>5, <1>6
  <1>11. facts = {d \in days : resolved.start <= SourceLabel[d] /\ SourceLabel[d] <= resolved.end}
    <2>1. ASSUME NEW d \in days
          PROVE  d \in facts <=> resolved.start <= SourceLabel[d] /\ SourceLabel[d] <= resolved.end
      <3>1. /\ bounds.start <= SourceLabel[d] <=> resolved.start <= SourceLabel[d]
            /\ bounds.end = resolved.end
        BY <1>4
      <3>2. CASE daily
        <4>1. SourceLabel[d] = d
          BY <1>2, <1>7, <3>2
        <4> QED BY <1>5, <1>6, <3>1, <4>1
      <3>3. CASE ~daily
        <4>1. d \in facts
          BY <1>5, <1>6, <1>8, <3>3
        <4>2. bounds.start <= SourceLabel[d] /\ SourceLabel[d] <= bounds.end
          <5>1. window.start <= d /\ d \in Nat /\ SourceLabel[d] \in Nat /\ SourceLabel[d] >= d
                /\ SourceLabel[d] <= window.end
            BY <1>2, <1>6
          <5> QED BY <1>1, <1>8, <3>3, <5>1
        <4> QED BY <3>1, <4>1, <4>2
      <3> QED BY <3>2, <3>3
    <2> QED BY <1>10, <2>1
  <1>12. ASSUME request.service = "risk", NEW d \in facts, NEW e, Series!Bucket(e) = Series!Bucket(d)
         PROVE  e \in bench <=>
                  e \in more /\ resolved.start <= SourceLabel[e] /\ SourceLabel[e] <= resolved.end
    <2>1. d \in days /\ d \in Nat
      BY <1>2, <1>10
    <2>2. resolved.start <= SourceLabel[d] /\ SourceLabel[d] <= resolved.end
      BY <1>11
    <2>3. CASE daily
      <3>1. e = d
        BY <1>9, <1>12, <2>3
      <3>2. e \in bench <=> e \in DOMAIN books.benchmark
        BY <1>5, <3>1
      <3>3. e \in more <=> e \in DOMAIN books.benchmark
        BY <1>6, <2>1, <3>1
      <3> QED BY <2>2, <3>1, <3>2, <3>3
    <2>4. CASE ~daily
      <3>1. bench = more
        BY <1>5, <1>6, <1>8, <2>4
      <3>2. ASSUME e \in more PROVE SourceLabel[e] = SourceLabel[d]
        BY <1>2, <1>8, <1>9, <1>12, <2>1, <2>4, <3>2
      <3> QED BY <2>2, <3>1, <3>2
    <2> QED BY <2>3, <2>4
  <1> QED BY <1>11, <1>12 DEF days, more, bench

(* A stateful request gets the days and the weeks of its periods. *)
LEMMA StatefulIsRight ==
  ASSUME SoundSeries(request, books), request.mode = "STATEFUL", NEW series, NEW kind,
         WholeWith(kind) =>
           Marked(series.portfolio, books.portfolio, DaysAsked(books.portfolio), SourceLabel),
         (WholeWith(kind) /\ request.service = "risk" /\ Series!WantsBenchmark) =>
           Marked(series.benchmark, books.benchmark, DaysAsked(books.benchmark), SourceLabel),
         NEW first, first = Series!Earliest(DOMAIN series.portfolio)
  PROVE  RightResults(Series!ResultsOf(series, first), kind)
  <1> DEFINE days == DaysAsked(books.portfolio)
             more == DaysAsked(books.benchmark)
  <1>1. CASE DOMAIN series.portfolio = {}
    <2>1. DOMAIN Series!ResultsOf(series, first) = {}
      BY <1>1 DEF Series!ResultsOf, Series!RiskResults, Series!DrawdownResults
    <2> QED BY <2>1 DEF RightResults
  <1>2. CASE DOMAIN series.portfolio # {}
    <2>1. ASSUME NEW k \in DOMAIN request.periods, WholeWith(kind), request.service = "risk"
          PROVE  \A m \in request.metrics :
                   RightValue(Series!RiskPeriod(series, request, request.periods[k], first).metrics[m],
                              m, Series!FactDays("portfolio", k), Series!FactDays("benchmark", k))
      <3> DEFINE resolved == Series!Resolved(request.periods[k], request.asOf, first)
                 facts == Series!FactDays("portfolio", k)
                 bench == Series!FactDays("benchmark", k)
      <3>1. days \subseteq Nat /\ more \subseteq Nat /\ KeepsWeeks(SourceLabel, days \cup more)
        BY AskedDays
      <3>2. MarksBuckets(SampledMark(SourceLabel, request.frequency), days \cup more)
        BY <2>1, <3>1, AskedBuckets
      <3>3. /\ facts = {d \in days : resolved.start <= SourceLabel[d] /\ SourceLabel[d] <= resolved.end}
            /\ \A d \in facts : \A e : Series!Bucket(e) = Series!Bucket(d) =>
                 (e \in bench <=> e \in more /\ resolved.start <= SourceLabel[e]
                                    /\ SourceLabel[e] <= resolved.end)
        BY <1>2, <2>1, PeriodIsAsked
      <3>4. request.metrics \cap Series!RelativeMetrics # {} =>
              Marked(series.benchmark, books.benchmark, more, SourceLabel)
        BY <2>1 DEF Series!WantsBenchmark
      <3>5. Marked(series.portfolio, books.portfolio, days, SourceLabel)
        BY <2>1
      <3> HIDE DEF days, more, facts, bench, resolved
      <3>6. HavePeriod(series, days, more, SourceLabel, resolved, facts, bench)
        BY <3>1, <3>2, <3>3, <3>4, <3>5 DEF HavePeriod
      <3> QED BY <3>6, RiskPeriodIsRight DEF facts, bench, resolved
    <2>2. ASSUME NEW k \in DOMAIN request.periods, WholeWith(kind), request.service # "risk",
                 NEW result, result = Series!DrawdownPeriod(series, request, request.periods[k])
          PROVE  \A m \in DOMAIN result.metrics :
                   RightValue(result.metrics[m],
                              m, Series!FactDays("portfolio", k), Series!FactDays("benchmark", k))
      <3> DEFINE resolved == Series!Resolved(request.periods[k], request.asOf,
                               Series!Earliest(DOMAIN series.portfolio))
                 facts == Series!FactDays("portfolio", k)
      <3>1. days \in SUBSET Nat
        BY AskedDays
      <3>2. facts = {d \in days : resolved.start <= SourceLabel[d] /\ SourceLabel[d] <= resolved.end}
        BY <1>2, <2>2, PeriodIsAsked
      <3>3. Marked(series.portfolio, books.portfolio, days, SourceLabel)
        BY <2>2
      <3>4. resolved = Series!Resolved(request.periods[k], request.asOf,
                         Series!Earliest(DOMAIN series.portfolio))
        OBVIOUS
      <3> HIDE DEF days, facts, resolved
      <3>5. \A m \in DOMAIN result.metrics :
              RightValue(result.metrics[m], m, facts, Series!FactDays("benchmark", k))
        BY <2>2, <3>1, <3>2, <3>3, <3>4, DrawdownPeriodIsRight
      <3> QED BY <3>5 DEF facts
    <2> QED BY <2>1, <2>2, ResultsByPeriod
  <1> QED BY <1>1, <1>2

-----------------------------------------------------------------------------
(* The invariant *)

(* What is kept of the answer while the rates are awaited. *)
KeptForRates ==
  /\ request.service = "risk"
  /\ admitted = [portfolio |-> admitted.portfolio, benchmark |-> admitted.benchmark]
  /\ WholeWith(returns.kind) =>
       Marked(admitted.portfolio, books.portfolio, DaysAsked(books.portfolio), SourceLabel)
  /\ Series!WantsBenchmark =>
       admitted.benchmark = Series!Points(Series!Given(books.benchmark, returns.kind))

ObservationsInv ==
  /\ SoundSeries(request, books)
  /\ at \notin {"accepted", "done"} => request.mode = "STATEFUL"
  /\ at # "done" => outcome = Series!Silence
  /\ at = "rates" => KeptForRates
  /\ Series!ObservationsTellThePeriod

(* What is said of results stands as long as the request and the books do. *)
LEMMA RightResultsStand ==
  ASSUME UNCHANGED <<request, books>>, NEW results, NEW kind
  PROVE  RightResults(results, kind)' <=> RightResults(results, kind)
  <1>1. WholeWith(kind)' <=> WholeWith(kind)
    BY DEF WholeWith, Series!Stateful, Series!SourceFrequency
  <1>2. \A k : /\ Series!FactDays("portfolio", k)' = Series!FactDays("portfolio", k)
               /\ Series!FactDays("benchmark", k)' = Series!FactDays("benchmark", k)
    BY DEF Series!FactDays, Series!Stateful, Series!SourceFrequency, Series!Inception
  <1>3. \A value, m, facts, bench : RightValue(value, m, facts, bench)' <=> RightValue(value, m, facts, bench)
    <2>1. \A d : Series!Bucket(d)' = Series!Bucket(d)
      BY DEF Series!Bucket
    <2>2. \A some, more : Series!Meeting(some, more)' = Series!Meeting(some, more)
      BY <2>1 DEF Series!Meeting
    <2> QED BY <2>1, <2>2 DEF RightValue
  <1> QED BY <1>1, <1>2, <1>3 DEF RightResults

(* What is said of the request and the books stands. *)
LEMMA SoundSeriesStand ==
  ASSUME UNCHANGED <<request, books>>
  PROVE  SoundSeries(request, books)' <=> SoundSeries(request, books)
  BY DEF SoundSeries, SoundPeriod, Dated

(* An end without a response. *)
LEMMA FailingObserves ==
  ASSUME ObservationsInv, NEW kind \in {"rejected", "invalid", "missing", "upstream"},
         Series!Fail(kind), UNCHANGED <<request, books>>
  PROVE  ObservationsInv'
  <1>1. at' = "done" /\ outcome'.kind # "response"
    BY DEF Series!Fail
  <1> QED
    BY <1>1, SoundSeriesStand
    DEF ObservationsInv, Series!ObservationsTellThePeriod, Series!Responded

(* A response with results that are right. *)
LEMMA RespondingObserves ==
  ASSUME ObservationsInv, UNCHANGED <<request, books>>, NEW series, NEW first, NEW source, NEW lineage,
         Series!Respond(series, first, source, lineage),
         NEW kind, returns'.kind = kind, RightResults(Series!ResultsOf(series, first), kind)
  PROVE  ObservationsInv'
  <1>1. PICK results : results = Series!ResultsOf(series, first)
    OBVIOUS
  <1>2. at' = "done" /\ outcome'.results = results
    BY <1>1 DEF Series!Respond
  <1>3. RightResults(results, kind)'
    BY <1>1, RightResultsStand
  <1>4. Series!ObservationsTellThePeriod' <=>
          (Series!Responded' => RightResults(outcome.results, returns.kind)')
    BY RightResultsSuffice DEF Series!ObservationsTellThePeriod, Series!Responded, RightResults,
       RightValue, WholeWith
  <1>5. RightResults(outcome.results, returns.kind)'
    BY <1>2, <1>3 DEF RightResults
  <1> QED BY <1>2, <1>4, <1>5, SoundSeriesStand DEF ObservationsInv

(* An end of a stateful request with series that have what was asked for. *)
LEMMA FinishingObserves ==
  ASSUME ObservationsInv, UNCHANGED <<request, books>>, request.mode = "STATEFUL",
         NEW series, NEW source, Series!Finish(series, source), NEW kind, returns'.kind = kind,
         WholeWith(kind) =>
           Marked(series.portfolio, books.portfolio, DaysAsked(books.portfolio), SourceLabel),
         (WholeWith(kind) /\ request.service = "risk" /\ Series!WantsBenchmark) =>
           Marked(series.benchmark, books.benchmark, DaysAsked(books.benchmark), SourceLabel)
  PROVE  ObservationsInv'
  <1>1. PICK first : first = Series!Earliest(DOMAIN series.portfolio)
    OBVIOUS
  <1>2. \E lineage : Series!Respond(series, first, source, lineage)
    BY <1>1 DEF Series!Finish
  <1>3. RightResults(Series!ResultsOf(series, first), kind)
    BY <1>1, StatefulIsRight DEF ObservationsInv
  <1> QED BY <1>2, <1>3, RespondingObserves

(* An admitted answer has what was asked for. *)
LEMMA AnswerIsMarked ==
  ASSUME SoundSeries(request, books), request.mode = "STATEFUL",
         NEW book, book \in {books.portfolio, books.benchmark}, NEW kind, WholeWith(kind),
         Series!AllOverlap(Series!Points(Series!Given(book, kind)))
  PROVE  /\ Marked(Series!Normalized(Series!Points(Series!Given(book, kind))), book, DaysAsked(book),
                   SourceLabel)
         /\ Series!SourceFrequency = "DAILY" =>
              Marked(Series!Points(Series!Given(book, kind)), book, DaysAsked(book), SourceLabel)
  <1>1. DOMAIN book \subseteq Nat
    BY DEF SoundSeries, Dated
  <1>2. Series!SourceWindow.start \in Nat /\ Series!SourceWindow.end \in Nat
    BY WindowCovers
  <1>3. CASE Series!SourceFrequency = "DAILY"
    BY <1>1, <1>2, <1>3, DailyAnswerMarked
  <1>4. CASE Series!SourceFrequency # "DAILY"
    BY <1>1, <1>2, <1>4, WeeklyAnswerMarked DEF WholeWith, Series!Stateful
  <1> QED BY <1>3, <1>4

(* The end of a request for risk, once the benchmark has been looked at. *)
LEMMA FinishingRiskObserves ==
  ASSUME ObservationsInv, UNCHANGED <<request, books>>, request.mode = "STATEFUL",
         NEW series, NEW source, Series!FinishRisk(series, source), NEW kind, returns'.kind = kind,
         series = [portfolio |-> series.portfolio, benchmark |-> series.benchmark],
         WholeWith(kind) =>
           Marked(series.portfolio, books.portfolio, DaysAsked(books.portfolio), SourceLabel),
         Series!WantsBenchmark =>
           series.benchmark = Series!Points(Series!Given(books.benchmark, kind))
  PROVE  ObservationsInv'
  <1> DEFINE normal == [series EXCEPT !.benchmark = Series!Normalized(@)]
  <1>1. CASE ~Series!AllOverlap(series.benchmark)
    <2>1. Series!Fail("invalid")
      BY <1>1 DEF Series!FinishRisk
    <2> QED BY <2>1, FailingObserves
  <1>2. CASE Series!AllOverlap(series.benchmark)
    <2>1. Series!Finish(normal, source)
      BY <1>2 DEF Series!FinishRisk
    <2>2. normal.portfolio = series.portfolio /\ normal.benchmark = Series!Normalized(series.benchmark)
      OBVIOUS
    <2> HIDE DEF normal
    <2>3. (WholeWith(kind) /\ Series!WantsBenchmark) =>
            Marked(normal.benchmark, books.benchmark, DaysAsked(books.benchmark), SourceLabel)
      BY <1>2, <2>2, AnswerIsMarked DEF ObservationsInv
    <2>4. WholeWith(kind) =>
            Marked(normal.portfolio, books.portfolio, DaysAsked(books.portfolio), SourceLabel)
      BY <2>2
    <2> QED BY <2>1, <2>3, <2>4, FinishingObserves
  <1> QED BY <1>1, <1>2

(* A request that has just been accepted has no answer. *)
SeriesAccepted ==
  at = "accepted" /\ outcome = Series!Silence

LEMMA AcceptedObserves ==
  SeriesAccepted /\ SoundSeries(request, books) => ObservationsInv
  BY DEF SeriesAccepted, ObservationsInv, Series!ObservationsTellThePeriod, Series!Responded,
         Series!Silence

(* Every step of the handler keeps it. *)
LEMMA ObservationsSteps == ObservationsInv /\ Series!Next => ObservationsInv'
  <1> SUFFICES ASSUME ObservationsInv, Series!Next PROVE ObservationsInv'
    OBVIOUS
  <1>1. CASE Series!Accept
    <2> DEFINE series == [portfolio |-> Series!Daily(books.portfolio),
                          benchmark |-> Series!Daily(books.benchmark)]
    <2>1. /\ ~Series!Stateful /\ UNCHANGED <<request, books>>
          /\ Series!Respond(series, request.open, Series!Silence, {})
      BY <1>1 DEF Series!Accept
    <2>2. series.portfolio = Series!Daily(books.portfolio) /\ series.benchmark = Series!Daily(books.benchmark)
      OBVIOUS
    <2> HIDE DEF series
    <2>3. PICK kind : returns'.kind = kind
      OBVIOUS
    <2>4. PICK first : first = request.open
      OBVIOUS
    <2>5. RightResults(Series!ResultsOf(series, first), kind)
      BY <2>1, <2>2, <2>4, StatelessIsRight DEF ObservationsInv
    <2> QED BY <2>1, <2>3, <2>4, <2>5, RespondingObserves
  <1>2. ASSUME NEW resolved, Series!AskReturns(resolved), UNCHANGED <<request, books>>,
               at # "done", request.mode = "STATEFUL"
        PROVE  ObservationsInv'
    <2>1. at' = "returns" /\ outcome' = Series!Silence /\ request'.mode = "STATEFUL"
      BY <1>2 DEF Series!AskReturns, ObservationsInv
    <2> QED
      BY <1>2, <2>1, SoundSeriesStand
      DEF ObservationsInv, Series!ObservationsTellThePeriod, Series!Responded, Series!Silence
  <1>3. CASE Series!Start
    <2>1. at = "accepted" /\ request.mode = "STATEFUL" /\ UNCHANGED <<request, books>>
      BY <1>3 DEF Series!Start, Series!Stateful
    <2>2. CASE Series!AskReturns(request.currency)
      BY <1>2, <2>1, <2>2
    <2>3. CASE at' = "snapshot" /\ UNCHANGED outcome
      <3>1. outcome' = Series!Silence /\ request'.mode = "STATEFUL"
        BY <2>1, <2>3 DEF ObservationsInv
      <3> QED
        BY <2>1, <2>3, <3>1, SoundSeriesStand
        DEF ObservationsInv, Series!ObservationsTellThePeriod, Series!Responded, Series!Silence
    <2> QED BY <1>3, <2>2, <2>3 DEF Series!Start
  <1>4. CASE Series!TakeSnapshot
    <2>1. at = "snapshot" /\ request.mode = "STATEFUL" /\ UNCHANGED <<request, books>>
      BY <1>4 DEF Series!TakeSnapshot, ObservationsInv
    <2>2. CASE \E kind \in {"upstream", "invalid"} : Series!Fail(kind)
      BY <2>1, <2>2, FailingObserves
    <2>3. CASE \E resolved : Series!AskReturns(resolved)
      BY <1>2, <2>1, <2>3
    <2> QED BY <1>4, <2>2, <2>3 DEF Series!TakeSnapshot
  <1>5. CASE Series!TakeReturns
    <2>1. at = "returns" /\ request.mode = "STATEFUL" /\ UNCHANGED <<request, books>>
      BY <1>5 DEF Series!TakeReturns, ObservationsInv
    <2> DEFINE portfolio(kind) == Series!Points(Series!Given(books.portfolio, kind))
               benchmark(kind) == IF Series!WantsBenchmark
                                    THEN Series!Points(Series!Given(books.benchmark, kind))
                                    ELSE Series!Nobody
               series(kind) == [portfolio |-> IF request.service = "risk"
                                                THEN Series!Normalized(portfolio(kind)) ELSE portfolio(kind),
                                benchmark |-> benchmark(kind)]
               refusal(kind) == IF request.service = "risk" THEN Series!RiskRefusal(kind, portfolio(kind))
                                ELSE Series!DrawdownRefusal(kind, portfolio(kind), benchmark(kind))
    <2>2. PICK kind \in Series!Kinds :
            /\ returns' = Series!Evidence(kind)
            /\ \/ kind = "failed" /\ Series!Fail("upstream") /\ UNCHANGED <<admitted, sent>>
               \/ kind = "malformed" /\ Series!Fail("invalid") /\ UNCHANGED <<admitted, sent>>
               \/ /\ kind \notin {"failed", "malformed"} /\ refusal(kind) # "none"
                  /\ Series!Fail(refusal(kind)) /\ UNCHANGED <<admitted, sent>>
               \/ /\ kind \notin {"failed", "malformed"} /\ refusal(kind) = "none" /\ Series!WantsRates
                  /\ at' = "rates" /\ sent' = sent \cup {"rates"}
                  /\ admitted' = series(kind) /\ UNCHANGED outcome
               \/ /\ kind \notin {"failed", "malformed"} /\ refusal(kind) = "none" /\ ~Series!WantsRates
                  /\ UNCHANGED sent
                  /\ IF request.service = "risk" THEN Series!FinishRisk(series(kind), Series!Evidence(kind))
                     ELSE admitted' = series(kind) /\ Series!Finish(series(kind), Series!Evidence(kind))
      BY <1>5 DEF Series!TakeReturns
    <2>3. refusal(kind) \in {"none", "rejected", "invalid", "missing"}
      BY DEF Series!RiskRefusal, Series!DrawdownRefusal
    <2>4. refusal(kind) = "none" => Series!AllOverlap(portfolio(kind))
      BY DEF Series!RiskRefusal, Series!DrawdownRefusal
    <2>5. /\ series(kind) = [portfolio |-> series(kind).portfolio, benchmark |-> series(kind).benchmark]
          /\ series(kind).portfolio = IF request.service = "risk"
                THEN Series!Normalized(portfolio(kind)) ELSE portfolio(kind)
          /\ Series!WantsBenchmark =>
                series(kind).benchmark = Series!Points(Series!Given(books.benchmark, kind))
      OBVIOUS
    <2>6. returns'.kind = kind
      BY <2>2 DEF Series!Evidence
    <2>7. refusal(kind) = "none" /\ WholeWith(kind) =>
            Marked(series(kind).portfolio, books.portfolio, DaysAsked(books.portfolio), SourceLabel)
      <3> HIDE DEF refusal, series
      <3>1. request.service # "risk" => Series!SourceFrequency = "DAILY"
        BY DEF Series!SourceFrequency
      <3>2. Series!AllOverlap(portfolio(kind)) /\ WholeWith(kind) =>
              /\ Marked(Series!Normalized(portfolio(kind)), books.portfolio, DaysAsked(books.portfolio),
                        SourceLabel)
              /\ Series!SourceFrequency = "DAILY" =>
                   Marked(portfolio(kind), books.portfolio, DaysAsked(books.portfolio), SourceLabel)
        BY <2>1, AnswerIsMarked DEF ObservationsInv
      <3> HIDE DEF portfolio
      <3> QED BY <2>4, <2>5, <3>1, <3>2
    <2> HIDE DEF refusal, series, portfolio, benchmark
    <2>8. CASE \E ending \in {"rejected", "invalid", "missing", "upstream"} : Series!Fail(ending)
      BY <2>1, <2>8, FailingObserves
    <2>9. CASE refusal(kind) = "none" /\ Series!WantsRates /\ at' = "rates" /\ admitted' = series(kind)
               /\ UNCHANGED outcome
      <3>1. KeptForRates'
        <4>1. request.service = "risk" /\ request' = request /\ books' = books
          BY <2>1, <2>9 DEF Series!WantsRates
        <4>2. /\ WholeWith(kind)' <=> WholeWith(kind)
              /\ (Series!WantsBenchmark)' <=> Series!WantsBenchmark
              /\ DaysAsked(books.portfolio)' = DaysAsked(books.portfolio)
              /\ SourceLabel' = SourceLabel
              /\ Series!Points(Series!Given(books.benchmark, kind))'
                   = Series!Points(Series!Given(books.benchmark, kind))
          <5>1. /\ Series!SourceWindow' = Series!SourceWindow
                /\ Series!SourceFrequency' = Series!SourceFrequency
                /\ (Series!WantsBenchmark)' <=> Series!WantsBenchmark
            BY <4>1 DEF Series!SourceWindow, Series!Inception, Series!SourceFrequency, Series!WantsBenchmark
          <5>2. WholeWith(kind)' <=> WholeWith(kind)
            BY <4>1, <5>1 DEF WholeWith, Series!Stateful
          <5>3. SourceLabel' = SourceLabel /\ DaysAsked(books.portfolio)' = DaysAsked(books.portfolio)
            BY <4>1, <5>1 DEF SourceLabel, DaysAsked
          <5>4. Series!Given(books.benchmark, kind)' = Series!Given(books.benchmark, kind)
            BY <4>1, <5>1 DEF Series!Given
          <5>5. Series!Points(Series!Given(books.benchmark, kind))'
                   = Series!Points(Series!Given(books.benchmark, kind))
            BY <5>4 DEF Series!Points
          <5> QED BY <5>1, <5>2, <5>3, <5>5
        <4>3. returns'.kind = kind /\ admitted' = series(kind)
          BY <2>6, <2>9
        <4>4. admitted' = [portfolio |-> admitted'.portfolio, benchmark |-> admitted'.benchmark]
          BY <2>5, <4>3
        <4>5. WholeWith(kind) =>
                Marked(admitted'.portfolio, books.portfolio, DaysAsked(books.portfolio), SourceLabel)
          BY <2>7, <2>9
        <4>6. Series!WantsBenchmark =>
                admitted'.benchmark = Series!Points(Series!Given(books.benchmark, kind))
          BY <2>5, <2>9
        <4>7. WholeWith(returns.kind)' <=> WholeWith(kind)
          BY <4>2, <4>3 DEF WholeWith
        <4>8. Series!Points(Series!Given(books.benchmark, returns.kind))'
                = Series!Points(Series!Given(books.benchmark, kind))
          BY <4>2, <4>3
        <4>9. Marked(admitted'.portfolio, books.portfolio, DaysAsked(books.portfolio), SourceLabel)
                => Marked(admitted.portfolio, books.portfolio, DaysAsked(books.portfolio), SourceLabel)'
          BY <4>1, <4>2
        <4> QED BY <4>1, <4>2, <4>4, <4>5, <4>6, <4>7, <4>8, <4>9 DEF KeptForRates
      <3>2. outcome' = Series!Silence /\ request'.mode = "STATEFUL"
        BY <2>1, <2>9 DEF ObservationsInv
      <3> QED
        BY <2>1, <2>9, <3>1, <3>2, SoundSeriesStand
        DEF ObservationsInv, Series!ObservationsTellThePeriod, Series!Responded, Series!Silence
    <2>10. CASE refusal(kind) = "none" /\ request.service = "risk"
                /\ Series!FinishRisk(series(kind), Series!Evidence(kind))
      BY <2>1, <2>5, <2>6, <2>7, <2>10, FinishingRiskObserves
    <2>11. CASE refusal(kind) = "none" /\ request.service # "risk"
                /\ Series!Finish(series(kind), Series!Evidence(kind))
      BY <2>1, <2>6, <2>7, <2>11, FinishingObserves
    <2> QED BY <2>2, <2>3, <2>8, <2>9, <2>10, <2>11
  <1>6. CASE Series!TakeRates
    <2>1. at = "rates" /\ UNCHANGED <<request, books, currency, returns>> /\ request.mode = "STATEFUL"
          /\ KeptForRates
      BY <1>6 DEF Series!TakeRates, ObservationsInv
    <2>2. CASE \E ending \in {"rejected", "invalid", "missing", "upstream"} : Series!Fail(ending)
      BY <2>1, <2>2, FailingObserves
    <2>3. CASE Series!FinishRisk(admitted, returns)
      <3>1. PICK kind : returns.kind = kind
        OBVIOUS
      <3>2. returns'.kind = kind
        BY <2>1, <3>1
      <3> QED BY <2>1, <2>3, <3>1, <3>2, FinishingRiskObserves DEF KeptForRates
    <2>4. PICK kind \in {"none", "failed", "malformed", "date", "empty"} :
            /\ rates' = IF kind = "none" THEN currency ELSE None
            /\ CASE kind = "failed" -> Series!Fail("upstream") /\ UNCHANGED admitted
                 [] kind # "failed" /\ ~Series!AllOverlap(admitted.benchmark)
                      -> Series!Fail("invalid") /\ UNCHANGED admitted
                 [] kind = "none" /\ Series!AllOverlap(admitted.benchmark)
                      -> Series!FinishRisk(admitted, returns)
                 [] OTHER -> /\ UNCHANGED admitted
                             /\ Series!Fail(CASE kind = "malformed" -> "invalid"
                                              [] kind = "date" -> "rejected"
                                              [] kind = "empty" -> "missing")
      BY <1>6 DEF Series!TakeRates
    <2> QED BY <2>2, <2>3, <2>4
  <1>7. CASE Series!Rest
    <2>1. UNCHANGED <<request, books, at, outcome, returns>> /\ at = "done"
      BY <1>7 DEF Series!Rest, Series!vars
    <2>2. Series!ObservationsTellThePeriod'
      <3>1. PICK results, kind : results = outcome.results /\ kind = returns.kind
        OBVIOUS
      <3>2. Series!Responded => RightResults(results, kind)
        BY <3>1, RightResultsSuffice DEF ObservationsInv
      <3>3. RightResults(results, kind) => RightResults(outcome.results, returns.kind)'
        BY <2>1, <3>1, RightResultsStand DEF RightResults
      <3>4. Series!ObservationsTellThePeriod' <=>
              (Series!Responded' => RightResults(outcome.results, returns.kind)')
        BY RightResultsSuffice DEF Series!ObservationsTellThePeriod, Series!Responded, RightResults,
           RightValue, WholeWith
      <3> QED BY <2>1, <3>2, <3>3, <3>4 DEF Series!Responded
    <2> QED BY <2>1, <2>2, SoundSeriesStand DEF ObservationsInv
  <1> QED BY <1>1, <1>3, <1>4, <1>5, <1>6, <1>7 DEF Series!Next

-----------------------------------------------------------------------------
(* The requests and the books of risk/calculate and risk/drawdown *)

(* A request names finitely many metrics (risk_common_inputs.py), and says whether a
   drawdown is compared (drawdown_inputs.py). *)
Ratable(q) == IsFiniteSet(q.metrics) /\ (q.service = "drawdown" => q.include \in BOOLEAN)

(* Days of two weeks. *)
Fortnight == 0 .. 14

(* The portfolios and benchmarks that are tried have days of a fortnight. *)
LEMMA BooksOfAFortnight ==
  /\ \A days \in SUBSET Fortnight : \A s \in SeriesWorlds!Portfolios(days) : DOMAIN s \subseteq Fortnight
  /\ \A s \in SeriesWorlds!Benchmarks : DOMAIN s \subseteq Fortnight
  /\ SeriesWorlds!SomeBenchmarks \subseteq SeriesWorlds!Benchmarks
  /\ SeriesWorlds!NoReturns \in SeriesWorlds!Benchmarks
  <1>1. ASSUME NEW days \in SUBSET Fortnight, NEW s \in SeriesWorlds!Portfolios(days)
        PROVE  DOMAIN s \subseteq Fortnight
    <2>1. CASE s \in {[d \in {3, 4, 7} |-> 1], [d \in {3, 4} |-> d - 5], [d \in {4, 7} |-> d - 6]}
      <3>1. DOMAIN s \subseteq {3, 4, 7}
        BY <2>1
      <3> QED BY <3>1 DEF Fortnight
    <2> DEFINE few == {[d \in {3, 4, 7} |-> 1], [d \in {3, 4} |-> d - 5], [d \in {4, 7} |-> d - 6]}
               seriesOf(some) ==
                 {r \in [some -> {-1, 0, 1}] : \A d \in some : r[d] = 0 <=> d = SeriesWorlds!Earliest(some)}
               families == {seriesOf(some) : some \in SUBSET days}
    <2>3. s \in UNION families \/ s \in few
      BY DEF SeriesWorlds!Portfolios
    <2>4. \A family \in families : \E some \in SUBSET days : family \subseteq [some -> {-1, 0, 1}]
      OBVIOUS
    <2>5. CASE s \in few
      BY <2>1, <2>5
    <2> HIDE DEF families, few
    <2>6. CASE s \in UNION families
      <3>1. PICK family \in families : s \in family
        BY <2>6
      <3>2. PICK some \in SUBSET days : family \subseteq [some -> {-1, 0, 1}]
        BY <2>4
      <3>3. s \in [some -> {-1, 0, 1}]
        BY <3>1, <3>2
      <3>4. DOMAIN s = some
        BY <3>3
      <3> QED BY <3>4
    <2> QED BY <2>3, <2>5, <2>6
  <1>2. ASSUME NEW s \in SeriesWorlds!Benchmarks PROVE DOMAIN s \subseteq Fortnight
    <2>1. DOMAIN s \in {{}, {4}, {3, 7, 14}, {3, 4, 7}, {3, 4, 14}}
      BY DEF SeriesWorlds!Benchmarks, SeriesWorlds!SomeBenchmarks, SeriesWorlds!NoReturns
    <2> QED BY <2>1 DEF Fortnight
  <1>3. SeriesWorlds!SomeBenchmarks \subseteq SeriesWorlds!Benchmarks
        /\ SeriesWorlds!NoReturns \in SeriesWorlds!Benchmarks
    BY DEF SeriesWorlds!Benchmarks, SeriesWorlds!SomeBenchmarks
  <1> QED BY <1>1, <1>2, <1>3

(* The periods that are tried are sound. *)
LEMMA PeriodsAreSound ==
  ASSUME NEW periods \in SeriesWorlds!OnePeriod \cup SeriesWorlds!TwoPeriods
  PROVE  /\ IsFiniteSet(DOMAIN periods) /\ DOMAIN periods # {}
         /\ \A k \in DOMAIN periods : SoundPeriod(periods[k], 15)
         /\ (\E k \in DOMAIN periods : periods[k].type = "SI") =>
              \A k \in DOMAIN periods :
                periods[k].type = "EXPLICIT" => periods[k].to \in Nat /\ periods[k].to <= 7
  <1> DEFINE explicit(from, to) == [type |-> "EXPLICIT", from |-> from, to |-> to]
             inception == [type |-> "SI"]
             started == [type |-> "TO_DATE", from |-> 3]
  <1>1. periods \in {[P |-> inception], [P |-> explicit(3, 7)], [P |-> started, Q |-> explicit(7, 9)],
                      [P |-> inception, Q |-> explicit(0, 2)]}
    BY DEF SeriesWorlds!OnePeriod, SeriesWorlds!TwoPeriods, SeriesWorlds!Explicit
  <1>2. /\ SoundPeriod(inception, 15) /\ SoundPeriod(explicit(3, 7), 15) /\ SoundPeriod(started, 15)
        /\ SoundPeriod(explicit(7, 9), 15) /\ SoundPeriod(explicit(0, 2), 15)
    BY DEF SoundPeriod
  <1>3. /\ inception.type = "SI" /\ started.type = "TO_DATE" /\ explicit(3, 7).type = "EXPLICIT"
        /\ explicit(7, 9).type = "EXPLICIT" /\ explicit(0, 2).type = "EXPLICIT" /\ explicit(0, 2).to = 2
    OBVIOUS
  <1> HIDE DEF explicit, inception, started
  <1>4. CASE periods = [P |-> inception]
    <2>1. DOMAIN periods = {"P"} /\ periods["P"] = inception
      BY <1>4
    <2> QED BY <1>2, <1>3, <2>1, FS_Singleton
  <1>5. CASE periods = [P |-> explicit(3, 7)]
    <2>1. DOMAIN periods = {"P"} /\ periods["P"] = explicit(3, 7)
      BY <1>5
    <2> QED BY <1>2, <1>3, <2>1, FS_Singleton
  <1>6. CASE periods = [P |-> started, Q |-> explicit(7, 9)]
    <2>1. DOMAIN periods = {"P", "Q"} /\ periods["P"] = started /\ periods["Q"] = explicit(7, 9)
      BY <1>6
    <2>2. IsFiniteSet({"P", "Q"})
      <3>1. IsFiniteSet({"P"}) /\ {"P", "Q"} = {"P"} \cup {"Q"}
        BY FS_Singleton
      <3> QED BY <3>1, FS_AddElement
    <2> QED BY <1>2, <1>3, <2>1, <2>2
  <1>7. CASE periods = [P |-> inception, Q |-> explicit(0, 2)]
    <2>1. DOMAIN periods = {"P", "Q"} /\ periods["P"] = inception /\ periods["Q"] = explicit(0, 2)
      BY <1>7
    <2>2. IsFiniteSet({"P", "Q"})
      <3>1. IsFiniteSet({"P"}) /\ {"P", "Q"} = {"P"} \cup {"Q"}
        BY FS_Singleton
      <3> QED BY <3>1, FS_AddElement
    <2> QED BY <1>2, <1>3, <2>1, <2>2
  <1> QED BY <1>1, <1>4, <1>5, <1>6, <1>7

(* What is asked for of them. *)
LEMMA ChoicesAreFinite ==
  ASSUME NEW benchmarks, NEW choice \in SeriesWorlds!Choices(benchmarks)
  PROVE  IsFiniteSet(choice.metrics)
  <1>1. choice.metrics \in {{"VOLATILITY", "VAR", "DRAWDOWN"}, {"SHARPE", "SORTINO"},
                            {"BETA", "INFORMATION_RATIO", "VOLATILITY"}, {"TRACKING_ERROR", "SHARPE"}}
    BY DEF SeriesWorlds!Choices, SeriesWorlds!Choice
  <1>2. \A a, b, c : IsFiniteSet({a, b, c})
    <2> TAKE a, b, c
    <2>1. IsFiniteSet({a}) /\ IsFiniteSet({b}) /\ IsFiniteSet({c})
      BY FS_Singleton
    <2>2. IsFiniteSet({a} \cup {b})
      BY <2>1, FS_Union
    <2>3. IsFiniteSet(({a} \cup {b}) \cup {c})
      BY <2>1, <2>2, FS_Union
    <2>4. ({a} \cup {b}) \cup {c} = {a, b, c}
      OBVIOUS
    <2> QED BY <2>3, <2>4
  <1>3. /\ {"SHARPE", "SORTINO"} = {"SHARPE", "SORTINO", "SORTINO"}
        /\ {"TRACKING_ERROR", "SHARPE"} = {"TRACKING_ERROR", "SHARPE", "SHARPE"}
    OBVIOUS
  <1>4. /\ IsFiniteSet({"VOLATILITY", "VAR", "DRAWDOWN"})
        /\ IsFiniteSet({"BETA", "INFORMATION_RATIO", "VOLATILITY"})
    BY <1>2
  <1>5. /\ IsFiniteSet({"SHARPE", "SORTINO", "SORTINO"})
        /\ IsFiniteSet({"TRACKING_ERROR", "SHARPE", "SHARPE"})
    BY <1>2
  <1> QED BY <1>1, <1>3, <1>4, <1>5, Zenon

(* A world made of such parts is sound. *)
LEMMA SoundParts ==
  ASSUME NEW world, world.request.mode \in {"STATELESS", "STATEFUL"},
         world.request.service \in {"risk", "drawdown"}, world.request.asOf \in {7, 9, 15},
         world.request.open \in {0, 4}, world.request.frequency \in {"DAILY", "WEEKLY"},
         world.request.periods \in SeriesWorlds!OnePeriod \cup SeriesWorlds!TwoPeriods,
         DOMAIN world.books.portfolio \subseteq Fortnight,
         DOMAIN world.books.benchmark \subseteq Fortnight,
         world.request.service = "drawdown" => world.request.open = 0
  PROVE  SoundSeries(world.request, world.books)
  <1>1. Dated(DOMAIN world.books.portfolio) /\ Dated(DOMAIN world.books.benchmark)
    BY DEF Dated, Fortnight
  <1>2. world.request.asOf \in Nat /\ world.request.asOf <= 15 /\ 7 <= world.request.asOf
        /\ world.request.open \in Nat
    OBVIOUS
  <1>3. /\ IsFiniteSet(DOMAIN world.request.periods) /\ DOMAIN world.request.periods # {}
        /\ \A k \in DOMAIN world.request.periods : SoundPeriod(world.request.periods[k], 15)
        /\ (\E k \in DOMAIN world.request.periods : world.request.periods[k].type = "SI") =>
             \A k \in DOMAIN world.request.periods :
               world.request.periods[k].type = "EXPLICIT" => world.request.periods[k].to <= world.request.asOf
    BY <1>2, PeriodsAreSound
  <1>4. \E horizon \in Nat : world.request.asOf <= horizon
          /\ \A k \in DOMAIN world.request.periods : SoundPeriod(world.request.periods[k], horizon)
    BY <1>2, <1>3
  <1>5. world.request.service = "drawdown" => \A d \in DOMAIN world.books.portfolio : world.request.open <= d
    BY DEF Fortnight
  <1> QED BY <1>1, <1>2, <1>3, <1>4, <1>5 DEF SoundSeries

(* The worlds that are checked are sound. *)
LEMMA SeriesWorldsAreSound ==
  ASSUME NEW world \in SeriesWorlds!Worlds
  PROVE  SoundSeries(world.request, world.books) /\ Ratable(world.request)
  <1>1. ASSUME NEW mode \in {"STATELESS", "STATEFUL"}, NEW benchmarks \in SUBSET SeriesWorlds!Benchmarks,
               NEW periodSets \in SUBSET (SeriesWorlds!OnePeriod \cup SeriesWorlds!TwoPeriods),
               NEW portfolios, \A s \in portfolios : DOMAIN s \subseteq Fortnight,
               NEW asOfs \in SUBSET {7, 9, 15}, NEW opens \in SUBSET {0, 4},
               world \in SeriesWorlds!RiskWorlds(mode, SeriesWorlds!Choices(benchmarks), periodSets,
                                                 portfolios, asOfs, opens)
        PROVE  SoundSeries(world.request, world.books) /\ Ratable(world.request)
    <2>1. \A choice \in SeriesWorlds!Choices(benchmarks) : choice.benchmarks \subseteq SeriesWorlds!Benchmarks
      BY BooksOfAFortnight DEF SeriesWorlds!Choices, SeriesWorlds!Choice
    <2> DEFINE samplings == SeriesWorlds!Samplings
               worldOf(metrics, periods, sampling, method, asOf, open, money, portfolio, benchmark) ==
                 [request |-> [service |-> "risk", mode |-> mode, metrics |-> metrics,
                     periods |-> periods, frequency |-> sampling[1], log |-> sampling[2],
                     method |-> method, asOf |-> asOf, open |-> open, currency |-> money],
                   books |-> SeriesWorlds!Books(portfolio, benchmark)]
               worldsOf(metrics, methods, currencies, held) ==
                 {worldOf(metrics, periods, sampling, method, asOf, open, money, portfolio, benchmark) :
                 periods \in periodSets, sampling \in samplings, method \in methods,
                 asOf \in asOfs, open \in opens, money \in currencies,
                 portfolio \in portfolios, benchmark \in held}
               madeOf(some, metrics, held) ==
                 \E periods \in periodSets, sampling \in samplings, asOf \in asOfs, open \in opens,
                    portfolio \in portfolios, benchmark \in held :
                   /\ some.request.service = "risk" /\ some.request.mode = mode
                   /\ some.request.metrics = metrics
                   /\ some.request.periods = periods /\ some.request.frequency = sampling[1]
                   /\ some.request.asOf = asOf /\ some.request.open = open
                   /\ some.books = [portfolio |-> portfolio, benchmark |-> benchmark]
    <2>2. PICK choice \in SeriesWorlds!Choices(benchmarks) :
            world \in worldsOf(choice.metrics, choice.methods, choice.currencies, choice.benchmarks)
      <3>1. SeriesWorlds!RiskWorlds(mode, SeriesWorlds!Choices(benchmarks), periodSets, portfolios,
                                    asOfs, opens) =
              UNION {worldsOf(choice.metrics, choice.methods, choice.currencies, choice.benchmarks) :
                       choice \in SeriesWorlds!Choices(benchmarks)}
        BY DEF SeriesWorlds!RiskWorlds
      <3> HIDE DEF samplings, worldOf, worldsOf, madeOf
      <3> QED BY <1>1, <3>1
    <2>3. samplings = {<<"DAILY", FALSE>>, <<"WEEKLY", FALSE>>, <<"WEEKLY", TRUE>>}
      BY DEF SeriesWorlds!Samplings
    <2> HIDE DEF samplings
    <2>4. ASSUME NEW metrics, NEW methods, NEW currencies, NEW held,
                 NEW some \in worldsOf(metrics, methods, currencies, held)
          PROVE  madeOf(some, metrics, held)
      <3>1. PICK periods \in periodSets, sampling \in samplings, method \in methods,
                 asOf \in asOfs, open \in opens, money \in currencies,
                 portfolio \in portfolios, benchmark \in held :
              some = worldOf(metrics, periods, sampling, method, asOf, open, money, portfolio, benchmark)
        <4> HIDE DEF worldOf
        <4> QED OBVIOUS
      <3> QED BY <3>1 DEF SeriesWorlds!Books
    <2> HIDE DEF worldOf, worldsOf
    <2>5. madeOf(world, choice.metrics, choice.benchmarks)
      <3> HIDE DEF madeOf
      <3> QED BY <2>2, <2>4
    <2>6. PICK periods \in periodSets, sampling \in samplings, asOf \in asOfs, open \in opens,
               portfolio \in portfolios, benchmark \in choice.benchmarks :
            /\ world.request.service = "risk" /\ world.request.mode = mode
            /\ world.request.metrics = choice.metrics
            /\ world.request.periods = periods /\ world.request.frequency = sampling[1]
            /\ world.request.asOf = asOf /\ world.request.open = open
            /\ world.books = [portfolio |-> portfolio, benchmark |-> benchmark]
      BY <2>5, Zenon
    <2>7. sampling[1] \in {"DAILY", "WEEKLY"}
      <3>1. sampling \in samplings
        OBVIOUS
      <3>2. sampling = <<"DAILY", FALSE>> \/ sampling = <<"WEEKLY", FALSE>> \/ sampling = <<"WEEKLY", TRUE>>
        BY <2>3, <3>1
      <3>3. <<"DAILY", FALSE>>[1] = "DAILY" /\ <<"WEEKLY", FALSE>>[1] = "WEEKLY" /\ <<"WEEKLY", TRUE>>[1] = "WEEKLY"
        OBVIOUS
      <3> QED BY <3>2, <3>3
    <2>8. DOMAIN portfolio \subseteq Fortnight /\ DOMAIN benchmark \subseteq Fortnight
      BY <1>1, <2>1, BooksOfAFortnight
    <2>9. SoundSeries(world.request, world.books)
      <3>1. /\ world.request.service = "risk" /\ world.request.mode = mode
            /\ world.request.periods = periods /\ world.request.frequency = sampling[1]
            /\ world.request.asOf = asOf /\ world.request.open = open
            /\ world.books = [portfolio |-> portfolio, benchmark |-> benchmark]
        BY <2>6
      <3>2. world.request.frequency \in {"DAILY", "WEEKLY"}
        BY <2>7, <3>1
      <3>3. /\ world.request.service = "risk" /\ world.request.mode \in {"STATELESS", "STATEFUL"}
            /\ world.request.asOf \in {7, 9, 15} /\ world.request.open \in {0, 4}
        BY <3>1
      <3>4. world.request.periods \in SeriesWorlds!OnePeriod \cup SeriesWorlds!TwoPeriods
        BY <3>1
      <3>5. world.books.portfolio = portfolio /\ world.books.benchmark = benchmark
        BY <3>1
      <3> QED BY <2>8, <3>2, <3>3, <3>4, <3>5, SoundParts
    <2>10. Ratable(world.request)
      BY <2>6, ChoicesAreFinite DEF Ratable
    <2> QED BY <2>9, <2>10
  <1>2. CASE world \in SeriesWorlds!DrawdownWorlds
    <2> DEFINE modes == {"STATELESS", "STATEFUL"}
               periodSets == SeriesWorlds!OnePeriod \cup SeriesWorlds!TwoPeriods
               policies == {<<FALSE, "IGNORE">>, <<TRUE, "IGNORE">>, <<TRUE, "REQUIRE">>}
               asOfs == {7, 9}
               worldOf(mode, periods, policy, asOf, portfolio, benchmark) ==
                 [request |-> [service |-> "drawdown", mode |-> mode, metrics |-> {}, periods |-> periods,
                     include |-> policy[1], missing |-> policy[2], asOf |-> asOf, open |-> 0,
                     frequency |-> "DAILY", currency |-> None],
                   books |-> SeriesWorlds!Books(portfolio, benchmark)]
               portfolios == {[d \in some |-> d - 5] : some \in SUBSET {3, 5, 7}}
    <2>1. SeriesWorlds!DrawdownWorlds =
            {worldOf(mode, periods, policy, asOf, portfolio, benchmark) :
               mode \in modes, periods \in periodSets, policy \in policies, asOf \in asOfs,
               portfolio \in portfolios, benchmark \in SeriesWorlds!Benchmarks}
      BY DEF SeriesWorlds!DrawdownWorlds
    <2>2. asOfs = {7, 9} /\ modes = {"STATELESS", "STATEFUL"}
          /\ periodSets = SeriesWorlds!OnePeriod \cup SeriesWorlds!TwoPeriods
          /\ policies = {<<FALSE, "IGNORE">>, <<TRUE, "IGNORE">>, <<TRUE, "REQUIRE">>}
      OBVIOUS
    <2>3. \A s \in portfolios : DOMAIN s \subseteq {3, 5, 7}
      OBVIOUS
    <2> HIDE DEF modes, periodSets, policies, asOfs, portfolios
    <2>4. PICK mode \in modes, periods \in periodSets, policy \in policies, asOf \in asOfs,
               portfolio \in portfolios, benchmark \in SeriesWorlds!Benchmarks :
            world = worldOf(mode, periods, policy, asOf, portfolio, benchmark)
      <3> HIDE DEF worldOf
      <3> QED BY <1>2, <2>1
    <2>5. /\ world.request.service = "drawdown" /\ world.request.mode = mode /\ world.request.periods = periods
          /\ world.request.frequency = "DAILY" /\ world.request.asOf = asOf /\ world.request.open = 0
          /\ world.books = [portfolio |-> portfolio, benchmark |-> benchmark]
      BY <2>4 DEF SeriesWorlds!Books
    <2>6. DOMAIN portfolio \subseteq {3, 5, 7}
      BY <2>3
    <2>7. DOMAIN portfolio \subseteq Fortnight /\ DOMAIN benchmark \subseteq Fortnight
      BY <2>6, BooksOfAFortnight DEF Fortnight
    <2>8. SoundSeries(world.request, world.books)
      BY <2>5, <2>7, <2>2, SoundParts
    <2>9. policy[1] \in BOOLEAN
      <3>1. policy = <<FALSE, "IGNORE">> \/ policy = <<TRUE, "IGNORE">> \/ policy = <<TRUE, "REQUIRE">>
        BY <2>2
      <3>2. <<FALSE, "IGNORE">>[1] = FALSE /\ <<TRUE, "IGNORE">>[1] = TRUE /\ <<TRUE, "REQUIRE">>[1] = TRUE
        OBVIOUS
      <3> QED BY <3>1, <3>2
    <2>10. world.request.metrics = {} /\ world.request.include = policy[1]
      BY <2>4
    <2> QED BY <2>8, <2>9, <2>10, FS_EmptySet DEF Ratable
  <1>3. {3, 4, 7} \subseteq Fortnight /\ {3, 4, 7, 14} \subseteq Fortnight
    BY DEF Fortnight
  <1>4. /\ \A s \in SeriesWorlds!Portfolios({3, 4, 7}) : DOMAIN s \subseteq Fortnight
        /\ \A s \in SeriesWorlds!Portfolios({3, 4, 7, 14}) : DOMAIN s \subseteq Fortnight
        /\ \A s \in {t \in SeriesWorlds!Portfolios({3, 4, 7, 14}) : 7 \in DOMAIN t => t[7] <= 0} :
              DOMAIN s \subseteq Fortnight
    BY <1>3, BooksOfAFortnight
  <1>5. CASE world \in SeriesWorlds!RiskWorlds("STATELESS", SeriesWorlds!Choices(SeriesWorlds!Benchmarks),
                          SeriesWorlds!OnePeriod \cup SeriesWorlds!TwoPeriods,
                          SeriesWorlds!Portfolios({3, 4, 7}), {9}, {0, 4})
    BY <1>1, <1>4, <1>5
  <1>6. CASE world \in SeriesWorlds!RiskWorlds("STATELESS", SeriesWorlds!Choices(SeriesWorlds!Benchmarks),
                          SeriesWorlds!OnePeriod, SeriesWorlds!Portfolios({3, 4, 7, 14}), {15}, {0})
    BY <1>1, <1>4, <1>6
  <1>7. CASE world \in SeriesWorlds!RiskWorlds("STATEFUL", SeriesWorlds!Choices(SeriesWorlds!SomeBenchmarks),
                          SeriesWorlds!OnePeriod \cup SeriesWorlds!TwoPeriods,
                          {s \in SeriesWorlds!Portfolios({3, 4, 7, 14}) : 7 \in DOMAIN s => s[7] <= 0},
                          {7, 15}, {0})
    BY <1>1, <1>4, <1>7, BooksOfAFortnight
  <1> QED BY <1>2, <1>5, <1>6, <1>7 DEF SeriesWorlds!Worlds

LEMMA ObservationsInit == Series!Init => ObservationsInv
  <1>1. Series!Init => SeriesAccepted
    BY DEF Series!Init, SeriesAccepted
  <1>2. Series!Init => SoundSeries(request, books)
    BY SeriesWorldsAreSound DEF Series!Init
  <1> QED BY <1>1, <1>2, AcceptedObserves

-----------------------------------------------------------------------------
(* What is observed is what a behaviour of risk or drawdown tells. *)
PeriodsInv == CurrencyInv /\ (calculator = "series" => ObservationsInv)

(* It holds of every request at first. *)
LEMMA PeriodsInit == AnyInit => PeriodsInv
  BY CurrencyInit, ObservationsInit DEF AnyInit, PeriodsInv

(* The invariant stands as long as its variables do. *)
LEMMA ObservationsStand ==
  ASSUME ObservationsInv, UNCHANGED <<request, books, at, outcome, returns, admitted>>
  PROVE  ObservationsInv'
  <1>1. Series!ObservationsTellThePeriod'
    <2>1. PICK results, kind : results = outcome.results /\ kind = returns.kind
      OBVIOUS
    <2>2. Series!Responded => RightResults(results, kind)
      BY <2>1, RightResultsSuffice DEF ObservationsInv
    <2>3. RightResults(results, kind) => RightResults(outcome.results, returns.kind)'
      BY <2>1, RightResultsStand DEF RightResults
    <2>4. Series!ObservationsTellThePeriod' <=>
            (Series!Responded' => RightResults(outcome.results, returns.kind)')
      BY RightResultsSuffice DEF Series!ObservationsTellThePeriod, Series!Responded, RightResults,
         RightValue, WholeWith
    <2> QED BY <2>2, <2>3, <2>4 DEF Series!Responded
  <1>2. KeptForRates => KeptForRates'
    <2>1. WholeWith(returns.kind) <=> WholeWith(returns.kind)'
      BY DEF WholeWith, Series!Stateful, Series!SourceFrequency
    <2>2. SourceLabel' = SourceLabel /\ DaysAsked(books.portfolio)' = DaysAsked(books.portfolio)
      BY DEF SourceLabel, DaysAsked, Series!SourceWindow, Series!SourceFrequency, Series!Inception,
             Series!Stateful
    <2>3. /\ Series!WantsBenchmark' <=> Series!WantsBenchmark
          /\ Series!Points(Series!Given(books.benchmark, returns.kind))' =
                Series!Points(Series!Given(books.benchmark, returns.kind))
      BY DEF Series!WantsBenchmark, Series!Stateful, Series!Points, Series!Given, Series!SourceWindow,
             Series!SourceFrequency, Series!Inception
    <2> QED BY <2>1, <2>2, <2>3 DEF KeptForRates, Marked
  <1> QED BY <1>1, <1>2, SoundSeriesStand DEF ObservationsInv

(* Every step of any calculator keeps it. *)
LEMMA PeriodsSteps == PeriodsInv /\ [AnyNext]_everything => PeriodsInv'
  <1> SUFFICES ASSUME PeriodsInv, [AnyNext]_everything PROVE PeriodsInv'
    OBVIOUS
  <1>1. CurrencyInv'
    BY CurrencySteps DEF PeriodsInv
  <1>2. CASE ASeriesStep
    BY <1>1, <1>2, ObservationsSteps DEF ASeriesStep, PeriodsInv
  <1>3. CASE UNCHANGED calculator /\ calculator # "series"
    BY <1>1, <1>3 DEF PeriodsInv
  <1>4. CASE UNCHANGED everything
    <2>1. ObservationsInv => ObservationsInv'
      BY <1>4, ObservationsStand DEF everything, requestVars, rollingVars, seriesVars
    <2> QED BY <1>1, <1>4, <2>1 DEF everything, PeriodsInv
  <1>5. AnObservation \/ ARollingStep \/ AnAttributionStep \/ AConcentrationStep \/ AProductStep =>
          UNCHANGED calculator /\ calculator # "series"
    BY DEF AnObservation, ARollingStep, AnAttributionStep, AConcentrationStep, AProductStep
  <1> QED BY <1>2, <1>3, <1>4, <1>5 DEF AnyNext, NoMore

(* A metric of risk or a drawdown that has a value takes every day that the books have
   in its period, once, day by day or week by week, and against a benchmark those that
   meet a day of it: source window, labels of weeks, clamping, resampling and join
   agree (stateful_returns_series_parser.py, risk/period_metrics.py). *)
THEOREM RiskObservesThePeriod == AnySpec => []ObservationsTellThePeriod
  <1>1. PeriodsInv => ObservationsTellThePeriod
    BY DEF PeriodsInv, ObservationsInv, ObservationsTellThePeriod
  <1> QED BY <1>1, PeriodsInit, PeriodsSteps, PTL DEF AnySpec

(* Behaviours of any sound request for risk or drawdowns, not of those alone whose
   worlds the runs enumerate: any days, periods, metrics, frequencies and books. *)
SoundSeriesSpec ==
  /\ calculator = "series" /\ SeriesAccepted /\ SoundSeries(request, books)
  /\ [][AnyNext]_everything

(* The property, and the one currency of returns and rates, of any sound request
   (risk_mode_adapter.py, drawdown_mode_adapter.py). *)
THEOREM EveryRiskObservesThePeriod ==
  SoundSeriesSpec => [](ObservationsTellThePeriod /\ OneCurrency)
  <1>1. calculator = "series" /\ SeriesAccepted /\ SoundSeries(request, books) => PeriodsInv
    <2>1. calculator = "series" /\ SeriesAccepted => CurrencyInv
      BY DEF SeriesAccepted, CurrencyInv, SeriesInv, Series!OneCurrency, Series!Responded, Series!Silence
    <2> QED BY <2>1, AcceptedObserves DEF PeriodsInv
  <1>2. PeriodsInv => ObservationsTellThePeriod /\ OneCurrency
    <2>1. PeriodsInv => ObservationsTellThePeriod
      BY DEF PeriodsInv, ObservationsInv, ObservationsTellThePeriod
    <2>2. PeriodsInv => OneCurrency
      BY RollingInvSuffices DEF PeriodsInv, CurrencyInv, SeriesInv, OneCurrency
    <2> QED BY <2>1, <2>2
  <1> QED BY <1>1, <1>2, PeriodsSteps, PTL DEF SoundSeriesSpec

-----------------------------------------------------------------------------
(* True answers are served: a request for risk or for drawdowns *)

(* There is what a response needs, if the answers are true. *)
Servable ==
  /\ Series!Stateful
  /\ \E d \in DOMAIN Series!Within(books.portfolio, Series!SourceWindow) : Series!Trading(d)
  /\ request.service = "drawdown" => request.missing = "IGNORE"

SeriesServing ==
  /\ SoundSeries(request, books)
  /\ at \in {"accepted", "snapshot"} => rates = None
  /\ at \in {"snapshot", "rates"} => Series!WantsRates
  /\ at \in {"snapshot", "returns", "rates"} => Series!Stateful
  /\ at = "rates" => (returns.kind = "none" => Series!AllOverlap(admitted.benchmark))
  /\ Series!HonestSourcesAreServed

(* A true answer is of the window that was asked for, whose last week may end after
   it, and has an observation of every trading day (_bucket_overlaps_window). *)
LEMMA TrueAnswersOverlap ==
  ASSUME NEW book, DOMAIN book \subseteq Nat,
         Series!SourceWindow.start \in Nat, Series!SourceWindow.end \in Nat
  PROVE  /\ Series!AllOverlap(Series!Points(Series!Given(book, "none")))
         /\ (\E d \in DOMAIN Series!Within(book, Series!SourceWindow) : Series!Trading(d)) =>
              DOMAIN Series!Points(Series!Given(book, "none")) # {}
  <1> DEFINE found == Series!Within(book, Series!SourceWindow)
             given == Series!Given(book, "none")
             points == Series!Points(given)
             first == Series!SourceWindow.start
             last == Series!SourceWindow.end
  <1>1. given = IF Series!SourceFrequency = "DAILY" THEN Series!Daily(found)
                ELSE Series!Weekly(Series!Daily(found))
    BY DEF Series!Given
  <1>2. DOMAIN found = {d \in DOMAIN book : first <= d /\ d <= last}
    BY DEF Series!Within, Series!Restrict
  <1>3. DOMAIN points = {l \in DOMAIN given : Series!Trading(l)}
    BY DEF Series!Points, Series!Restrict
  <1>4. /\ Series!AllOverlap(points) <=> \A l \in DOMAIN points : Series!Overlaps(l)
        /\ \A l : Series!Overlaps(l) <=>
             l - (IF Series!SourceFrequency = "DAILY" THEN 0 ELSE 6) <= last /\ l >= first
    BY DEF Series!AllOverlap, Series!Overlaps
  <1>5. DOMAIN Series!Daily(found) = DOMAIN found
    BY DEF Series!Daily
  <1>6. DOMAIN Series!Weekly(Series!Daily(found)) =
          {Series!Friday(Series!Week(d)) : d \in DOMAIN found}
    BY <1>5 DEF Series!Weekly
  <1>7. first \in Nat /\ last \in Nat
    OBVIOUS
  <1> HIDE DEF found, given, points, first, last
  <1>8. \A d \in DOMAIN found : d \in Nat /\ first <= d /\ d <= last
    BY <1>2
  <1>9. CASE Series!SourceFrequency = "DAILY"
    <2>1. DOMAIN given = DOMAIN found
      BY <1>1, <1>5, <1>9
    <2>2. \A l \in DOMAIN points : Series!Overlaps(l)
      BY <1>3, <1>4, <1>7, <1>8, <1>9, <2>1
    <2>3. (\E d \in DOMAIN found : Series!Trading(d)) => DOMAIN points # {}
      BY <1>3, <2>1
    <2> QED BY <1>4, <2>2, <2>3 DEF found, points, given
  <1>10. CASE Series!SourceFrequency # "DAILY"
    <2>1. DOMAIN given = {Series!Friday(Series!Week(d)) : d \in DOMAIN found}
      BY <1>1, <1>6, <1>10
    <2>2. ASSUME NEW l \in DOMAIN points PROVE Series!Overlaps(l)
      <3>1. PICK d \in DOMAIN found : l = Series!Friday(Series!Week(d))
        BY <1>3, <2>1
      <3>2. l \in Nat /\ d \in Nat /\ d <= l /\ l - 6 <= d /\ first <= d /\ d <= last
        BY <1>8, <3>1, WeeksEnd
      <3>3. l - 6 <= last /\ l >= first
        BY <1>7, <3>2
      <3> QED BY <1>4, <1>10, <3>3
    <2>3. ASSUME NEW d \in DOMAIN found PROVE DOMAIN points # {}
      <3>1. Series!Trading(Series!Friday(Series!Week(d)))
        BY <1>8, WeeksEnd
      <3> QED BY <1>3, <2>1, <3>1
    <2> QED BY <1>4, <2>2, <2>3 DEF found, points, given
  <1> QED BY <1>9, <1>10

(* What the window is and what is servable stands. *)
LEMMA ServableStands ==
  ASSUME UNCHANGED <<request, books>>
  PROVE  /\ SoundSeries(request, books)' <=> SoundSeries(request, books)
         /\ Servable' <=> Servable
         /\ Series!WantsRates' <=> Series!WantsRates
         /\ Series!Stateful' <=> Series!Stateful
         /\ \A series : Series!AllOverlap(series)' <=> Series!AllOverlap(series)
  <1>1. SoundSeries(request, books)' <=> SoundSeries(request, books)
    BY SoundSeriesStand
  <1>2. /\ Series!SourceWindow' = Series!SourceWindow
        /\ Series!SourceFrequency' = Series!SourceFrequency
        /\ Series!WantsRates' <=> Series!WantsRates
        /\ Series!Stateful' <=> Series!Stateful
    BY DEF Series!SourceWindow, Series!Inception, Series!SourceFrequency, Series!WantsRates,
           Series!Stateful
  <1>3. Servable' <=> Servable
    BY <1>2 DEF Servable
  <1>4. \A series : Series!AllOverlap(series)' <=> Series!AllOverlap(series)
    BY <1>2 DEF Series!AllOverlap, Series!Overlaps
  <1> QED BY <1>1, <1>2, <1>3, <1>4

(* The end of a request that is answered, or could not be. *)
LEMMA SeriesEnds ==
  ASSUME SoundSeries(request, books), UNCHANGED <<request, books>>, at' = "done",
         \/ outcome'.kind = "response"
         \/ ~Servable
         \/ returns'.kind # "none"
         \/ Series!WantsRates /\ rates' = None
  PROVE  SeriesServing'
  <1>1. Series!HonestSourcesAreServed' <=>
          ((Servable' /\ (returns'.kind = "none") /\ (Series!WantsRates' => rates' # None))
             => outcome'.kind = "response")
    BY DEF Series!HonestSourcesAreServed, Servable, Series!Responded
  <1> QED BY <1>1, ServableStands DEF SeriesServing

(* Series that are complete are served, unless the benchmark is not of the window. *)
LEMMA FinishingSeriesServes ==
  ASSUME SoundSeries(request, books), UNCHANGED <<request, books>>, NEW series, NEW source,
         \/ Series!Finish(series, source)
         \/ Series!FinishRisk(series, source)
            /\ (returns'.kind = "none" => Series!AllOverlap(series.benchmark))
  PROVE  SeriesServing'
  <1>1. ASSUME NEW some, NEW more, Series!Finish(some, more)
        PROVE  at' = "done" /\ outcome'.kind = "response"
    BY <1>1 DEF Series!Finish, Series!Respond
  <1>2. CASE Series!FinishRisk(series, source)
             /\ (returns'.kind = "none" => Series!AllOverlap(series.benchmark))
    <2>1. CASE ~Series!AllOverlap(series.benchmark)
      <3>1. at' = "done" /\ returns'.kind # "none"
        BY <1>2, <2>1 DEF Series!FinishRisk, Series!Fail
      <3> QED BY <3>1, SeriesEnds
    <2>2. CASE Series!AllOverlap(series.benchmark)
      <3>1. \E normal : Series!Finish(normal, source)
        BY <1>2, <2>2 DEF Series!FinishRisk
      <3> QED BY <1>1, <3>1, SeriesEnds
    <2> QED BY <2>1, <2>2
  <1> QED BY <1>1, <1>2, SeriesEnds

(* True answers that can be served are not refused. *)
LEMMA TrueAnswersAreKept ==
  ASSUME SoundSeries(request, books), Series!Stateful,
         NEW portfolio, portfolio = Series!Points(Series!Given(books.portfolio, "none")),
         NEW benchmark,
         benchmark = IF Series!WantsBenchmark THEN Series!Points(Series!Given(books.benchmark, "none"))
                     ELSE Series!Nobody
  PROVE  /\ Series!AllOverlap(benchmark)
         /\ Servable /\ request.service = "risk" => Series!RiskRefusal("none", portfolio) = "none"
         /\ Servable /\ request.service # "risk" =>
              Series!DrawdownRefusal("none", portfolio, benchmark) = "none"
  <1>1. Series!SourceWindow.start \in Nat /\ Series!SourceWindow.end \in Nat
    BY WindowCovers DEF Series!Stateful
  <1>2. DOMAIN books.portfolio \subseteq Nat /\ DOMAIN books.benchmark \subseteq Nat
    BY DEF SoundSeries, Dated
  <1>3. Series!AllOverlap(portfolio) /\ (Servable => DOMAIN portfolio # {})
    BY <1>1, <1>2, TrueAnswersOverlap DEF Servable
  <1>4. Series!AllOverlap(benchmark)
    <2>1. Series!AllOverlap(Series!Nobody)
      BY DEF Series!AllOverlap, Series!Nobody
    <2> QED BY <1>1, <1>2, <2>1, TrueAnswersOverlap
  <1>5. request.service # "risk" => request.service = "drawdown"
    BY DEF SoundSeries
  <1> QED
    BY <1>3, <1>4, <1>5 DEF Servable, Series!RiskRefusal, Series!DrawdownRefusal

(* Every step serves what can be served. *)
LEMMA SeriesServingSteps == SeriesServing /\ Series!Next => SeriesServing'
  <1> SUFFICES ASSUME SeriesServing, Series!Next PROVE SeriesServing'
    OBVIOUS
  <1>0. SoundSeries(request, books)
    BY DEF SeriesServing
  <1>1. CASE Series!Accept
    <2>1. UNCHANGED <<request, books>> /\ at' = "done" /\ outcome'.kind = "response"
      BY <1>1 DEF Series!Accept, Series!Respond
    <2> QED BY <1>0, <2>1, SeriesEnds
  <1>2. ASSUME UNCHANGED <<request, books>>, at' = "returns", Series!Stateful
        PROVE  SeriesServing'
    BY <1>0, <1>2, ServableStands DEF SeriesServing, Series!HonestSourcesAreServed
  <1>3. CASE Series!Start
    <2>1. /\ at = "accepted" /\ Series!Stateful /\ UNCHANGED <<request, books, rates>>
          /\ at' = "returns" \/ (at' = "snapshot" /\ Series!WantsRates)
      BY <1>3 DEF Series!Start, Series!AskReturns
    <2>2. CASE at' = "snapshot" /\ Series!WantsRates
      BY <1>0, <2>1, <2>2, ServableStands DEF SeriesServing, Series!HonestSourcesAreServed
    <2> QED BY <1>2, <2>1, <2>2
  <1>4. CASE Series!TakeSnapshot
    <2>1. /\ at = "snapshot" /\ UNCHANGED <<request, books, rates>>
          /\ at' = "done" \/ at' = "returns"
      BY <1>4 DEF Series!TakeSnapshot, Series!AskReturns, Series!Fail
    <2>2. Series!WantsRates /\ rates' = None
      BY <2>1 DEF SeriesServing
    <2>3. CASE at' = "done"
      BY <1>0, <2>1, <2>2, <2>3, SeriesEnds
    <2>4. CASE at' = "returns"
      <3>1. Series!Stateful
        BY <2>1 DEF SeriesServing
      <3> QED BY <1>2, <2>1, <2>4, <3>1
    <2> QED BY <2>1, <2>3, <2>4
  <1>5. CASE Series!TakeReturns
    <2>1. at = "returns" /\ UNCHANGED <<request, books, currency, rates>> /\ Series!Stateful
      BY <1>5 DEF Series!TakeReturns, SeriesServing
    <2> DEFINE portfolio(kind) == Series!Points(Series!Given(books.portfolio, kind))
               benchmark(kind) == IF Series!WantsBenchmark
                                    THEN Series!Points(Series!Given(books.benchmark, kind))
                                    ELSE Series!Nobody
               series(kind) == [portfolio |-> IF request.service = "risk"
                                                THEN Series!Normalized(portfolio(kind)) ELSE portfolio(kind),
                                benchmark |-> benchmark(kind)]
               refusal(kind) == IF request.service = "risk" THEN Series!RiskRefusal(kind, portfolio(kind))
                                ELSE Series!DrawdownRefusal(kind, portfolio(kind), benchmark(kind))
    <2>2. PICK kind \in Series!Kinds :
            /\ returns' = Series!Evidence(kind)
            /\ \/ kind = "failed" /\ Series!Fail("upstream") /\ UNCHANGED <<admitted, sent>>
               \/ kind = "malformed" /\ Series!Fail("invalid") /\ UNCHANGED <<admitted, sent>>
               \/ /\ kind \notin {"failed", "malformed"} /\ refusal(kind) # "none"
                  /\ Series!Fail(refusal(kind)) /\ UNCHANGED <<admitted, sent>>
               \/ /\ kind \notin {"failed", "malformed"} /\ refusal(kind) = "none" /\ Series!WantsRates
                  /\ at' = "rates" /\ sent' = sent \cup {"rates"}
                  /\ admitted' = series(kind) /\ UNCHANGED outcome
               \/ /\ kind \notin {"failed", "malformed"} /\ refusal(kind) = "none" /\ ~Series!WantsRates
                  /\ UNCHANGED sent
                  /\ IF request.service = "risk" THEN Series!FinishRisk(series(kind), Series!Evidence(kind))
                     ELSE admitted' = series(kind) /\ Series!Finish(series(kind), Series!Evidence(kind))
      BY <1>5 DEF Series!TakeReturns
    <2>3. returns'.kind = kind
      BY <2>2 DEF Series!Evidence
    <2>4. kind = "none" => /\ Series!AllOverlap(benchmark(kind))
                           /\ Servable => refusal(kind) = "none"
      <3> SUFFICES ASSUME kind = "none"
                   PROVE  /\ Series!AllOverlap(benchmark("none"))
                          /\ Servable => refusal("none") = "none"
        OBVIOUS
      <3> QED BY <1>0, <2>1, TrueAnswersAreKept
    <2>5. series(kind).benchmark = benchmark(kind)
      OBVIOUS
    <2> HIDE DEF portfolio, benchmark, series, refusal
    <2>6. CASE \E reason : Series!Fail(reason) /\ (kind # "none" \/ refusal(kind) # "none")
      <3>1. at' = "done" /\ (returns'.kind # "none" \/ ~Servable)
        BY <2>3, <2>4, <2>6 DEF Series!Fail
      <3> QED BY <1>0, <2>1, <3>1, SeriesEnds
    <2>7. CASE at' = "rates" /\ admitted' = series(kind) /\ Series!WantsRates
      <3>1. returns'.kind = "none" => Series!AllOverlap(admitted'.benchmark)
        BY <2>3, <2>4, <2>5, <2>7
      <3>2. (returns.kind = "none" => Series!AllOverlap(admitted.benchmark))'
        <4>1. PICK kept : kept = admitted'.benchmark
          OBVIOUS
        <4>2. Series!AllOverlap(kept)' <=> Series!AllOverlap(kept)
          BY <2>1, ServableStands
        <4>3. Series!AllOverlap(admitted.benchmark)' <=> Series!AllOverlap(kept)'
          BY <4>1 DEF Series!AllOverlap
        <4> QED BY <3>1, <4>1, <4>2, <4>3
      <3> QED BY <1>0, <2>1, <2>7, <3>2, ServableStands
              DEF SeriesServing, Series!HonestSourcesAreServed
    <2>8. CASE Series!FinishRisk(series(kind), Series!Evidence(kind))
      BY <1>0, <2>1, <2>3, <2>4, <2>5, <2>8, FinishingSeriesServes
    <2>9. CASE Series!Finish(series(kind), Series!Evidence(kind))
      BY <1>0, <2>1, <2>9, FinishingSeriesServes
    <2> QED BY <2>2, <2>6, <2>7, <2>8, <2>9
  <1>6. CASE Series!TakeRates
    <2>1. at = "rates" /\ UNCHANGED <<request, books, currency, returns>>
      BY <1>6 DEF Series!TakeRates
    <2>2. PICK kind \in {"none", "failed", "malformed", "date", "empty"} :
            /\ rates' = IF kind = "none" THEN currency ELSE None
            /\ CASE kind = "failed" -> Series!Fail("upstream") /\ UNCHANGED admitted
                 [] kind # "failed" /\ ~Series!AllOverlap(admitted.benchmark)
                      -> Series!Fail("invalid") /\ UNCHANGED admitted
                 [] kind = "none" /\ Series!AllOverlap(admitted.benchmark)
                      -> Series!FinishRisk(admitted, returns)
                 [] OTHER -> /\ UNCHANGED admitted
                             /\ Series!Fail(CASE kind = "malformed" -> "invalid"
                                              [] kind = "date" -> "rejected"
                                              [] kind = "empty" -> "missing")
      BY <1>6 DEF Series!TakeRates
    <2>3. (returns.kind = "none" => Series!AllOverlap(admitted.benchmark)) /\ returns' = returns
      BY <2>1 DEF SeriesServing
    <2>4. CASE Series!FinishRisk(admitted, returns)
      BY <1>0, <2>1, <2>3, <2>4, FinishingSeriesServes
    <2>5. CASE at' = "done" /\ (kind # "none" \/ ~Series!AllOverlap(admitted.benchmark))
      <3>1. CASE kind # "none"
        <4>1. rates' = None /\ Series!WantsRates
          BY <2>1, <2>2, <3>1 DEF SeriesServing
        <4> QED BY <1>0, <2>1, <2>5, <4>1, SeriesEnds
      <3>2. CASE ~Series!AllOverlap(admitted.benchmark)
        <4>1. returns'.kind # "none"
          BY <2>3, <3>2
        <4> QED BY <1>0, <2>1, <2>5, <4>1, SeriesEnds
      <3> QED BY <2>5, <3>1, <3>2
    <2>6. \/ Series!FinishRisk(admitted, returns)
          \/ at' = "done" /\ (kind # "none" \/ ~Series!AllOverlap(admitted.benchmark))
      BY <2>2 DEF Series!Fail
    <2> QED BY <2>4, <2>5, <2>6
  <1>7. CASE Series!Rest
    <2>1. UNCHANGED <<request, books, at, outcome, returns, rates>> /\ at = "done"
      BY <1>7 DEF Series!Rest, Series!vars
    <2>2. \/ outcome'.kind = "response" \/ ~Servable \/ returns'.kind # "none"
          \/ Series!WantsRates /\ rates' = None
      BY <2>1 DEF SeriesServing, Series!HonestSourcesAreServed, Servable, Series!Responded
    <2> QED BY <1>0, <2>1, <2>2, SeriesEnds
  <1> QED BY <1>1, <1>3, <1>4, <1>5, <1>6, <1>7 DEF Series!Next

-----------------------------------------------------------------------------
(* True answers are served: a request for concentration *)

(* Only a valid stateless request is asked issuers for, and only the others a
   snapshot. *)
ConcentrationInv ==
  /\ at = "enrichment" => Concentration!Stateless /\ Concentration!Admitted
  /\ at = "snapshot" => ~Concentration!Stateless
  /\ Concentration!HonestSourcesAreServed

LEMMA ConcentrationInit == Concentration!Init => ConcentrationInv
  BY DEF Concentration!Init, ConcentrationInv, Concentration!HonestSourcesAreServed

(* What is said of the request and its rows stands. *)
LEMMA RowsStand ==
  ASSUME UNCHANGED <<request, books>>
  PROVE  /\ Concentration!Stateless' <=> Concentration!Stateless
         /\ Concentration!Admitted' <=> Concentration!Admitted
         /\ Concentration!NoMarketValue(books.current)' <=> Concentration!NoMarketValue(books.current)
         /\ Concentration!NoMarketValue(Concentration!Projected)' 
              <=> Concentration!NoMarketValue(Concentration!Projected)
  BY DEF Concentration!Stateless, Concentration!Admitted, Concentration!MixedBases,
         Concentration!BasesDiffer, Concentration!NoMarketValue, Concentration!Projected,
         Concentration!Supplied

(* A request that is answered is served. *)
LEMMA ConcentrationSteps == ConcentrationInv /\ Concentration!Next => ConcentrationInv'
  <1> SUFFICES ASSUME ConcentrationInv, Concentration!Next PROVE ConcentrationInv'
    OBVIOUS
  <1>1. ASSUME NEW core, NEW unanswered, Concentration!RespondStateless(core, unanswered)
        PROVE  ConcentrationInv'
    BY <1>1 DEF Concentration!RespondStateless, Concentration!Respond, ConcentrationInv,
                Concentration!HonestSourcesAreServed, Concentration!Responded
  <1>2. CASE Concentration!Accept
    <2>1. UNCHANGED <<request, books>>
      BY <1>2 DEF Concentration!Accept
    <2>2. CASE at' = "snapshot" /\ ~Concentration!Stateless
      BY <2>1, <2>2, RowsStand DEF ConcentrationInv, Concentration!HonestSourcesAreServed
    <2>3. CASE Concentration!Fail("rejected") /\ Concentration!Stateless /\ ~Concentration!Admitted
      BY <2>1, <2>3, RowsStand
      DEF Concentration!Fail, ConcentrationInv, Concentration!HonestSourcesAreServed
    <2>4. CASE at' = "enrichment" /\ Concentration!Stateless /\ Concentration!Admitted
      BY <2>1, <2>4, RowsStand DEF ConcentrationInv, Concentration!HonestSourcesAreServed
    <2> QED BY <1>1, <1>2, <2>2, <2>3, <2>4 DEF Concentration!Accept
  <1>3. CASE Concentration!TakeEnrichment
    BY <1>1, <1>3 DEF Concentration!TakeEnrichment
  <1>4. CASE Concentration!TakeSnapshot
    <2>1. at = "snapshot" /\ UNCHANGED <<request, books>> /\ ~Concentration!Stateless
      BY <1>4 DEF Concentration!TakeSnapshot, ConcentrationInv
    <2>2. CASE snapshot'.kind # "whole" /\ at' = "done"
      BY <2>1, <2>2, RowsStand DEF ConcentrationInv, Concentration!HonestSourcesAreServed
    <2>3. CASE at' = "done" /\ outcome'.kind = "response"
      BY <2>3 DEF ConcentrationInv, Concentration!HonestSourcesAreServed, Concentration!Responded
    <2>4. CASE at' = "done" /\ (Concentration!NoMarketValue(books.current)
                                  \/ Concentration!NoMarketValue(Concentration!Projected))
      BY <2>1, <2>4, RowsStand DEF ConcentrationInv, Concentration!HonestSourcesAreServed
    <2>5. ASSUME NEW kind \in {"whole", "no baseline", "no projection"}, NEW known,
                 snapshot' = [kind |-> kind, known |-> known],
                 Concentration!RespondSnapshot(kind, known)
          PROVE  \/ at' = "done" /\ outcome'.kind = "response"
                 \/ at' = "done" /\ snapshot'.kind # "whole"
                 \/ at' = "done" /\ (Concentration!NoMarketValue(books.current)
                                       \/ Concentration!NoMarketValue(Concentration!Projected))
      <3> DEFINE baseline == IF kind = "no baseline" THEN <<>> ELSE books.current
                 refused == \/ Concentration!NoMarketValue(baseline)
                            \/ /\ request.mode = "SIMULATION"
                               /\ \/ kind = "no projection"
                                  \/ Concentration!NoMarketValue(Concentration!Projected)
      <3>1. \/ refused /\ Concentration!Fail("invalid")
            \/ \E current, proposed, note : Concentration!Respond(current, proposed, note)
        BY <2>5 DEF Concentration!RespondSnapshot
      <3>2. CASE \E current, proposed, note : Concentration!Respond(current, proposed, note)
        <4>1. PICK current, proposed, note : Concentration!Respond(current, proposed, note)
          BY <3>2
        <4>2. at' = "done" /\ outcome'.kind = "response"
          BY <4>1 DEF Concentration!Respond
        <4> QED BY <4>2
      <3>3. CASE refused /\ Concentration!Fail("invalid")
        <4>1. at' = "done" /\ snapshot'.kind = kind
          BY <2>5, <3>3 DEF Concentration!Fail
        <4>2. CASE kind # "whole"
          BY <4>1, <4>2
        <4>3. CASE kind = "whole"
          <5>1. baseline = books.current
            BY <4>3
          <5>2. \/ Concentration!NoMarketValue(baseline)
                \/ Concentration!NoMarketValue(Concentration!Projected)
            BY <3>3, <4>3
          <5> QED BY <4>1, <5>1, <5>2
        <4> QED BY <4>2, <4>3
      <3> QED BY <3>1, <3>2, <3>3
    <2>6. CASE \E kind \in {"failed", "malformed"} :
                 /\ snapshot' = [kind |-> kind, known |-> Concentration!Nothing]
                 /\ \E reason : Concentration!Fail(reason)
      BY <2>2, <2>6 DEF Concentration!Fail
    <2>7. CASE \E kind \in {"whole", "no baseline", "no projection"} : \E known :
                 /\ snapshot' = [kind |-> kind, known |-> known]
                 /\ Concentration!RespondSnapshot(kind, known)
      BY <2>2, <2>3, <2>4, <2>5, <2>7
    <2> QED BY <1>4, <2>6, <2>7 DEF Concentration!TakeSnapshot
  <1>5. CASE Concentration!Rest
    BY <1>5, RowsStand
    DEF Concentration!Rest, Concentration!vars, ConcentrationInv,
        Concentration!HonestSourcesAreServed, Concentration!Responded
  <1> QED BY <1>2, <1>3, <1>4, <1>5 DEF Concentration!Next

-----------------------------------------------------------------------------
(* True answers are served: any request *)

ServedInv ==
  /\ BooksInv
  /\ calculator = "rolling" => ServingInv
  /\ calculator = "series" => SeriesServing
  /\ calculator = "concentration" => ConcentrationInv

(* It holds of every request at first. *)
LEMMA ServedInit == AnyInit => ServedInv
  <1> SUFFICES ASSUME AnyInit PROVE ServedInv
    OBVIOUS
  <1>1. BooksInv
    BY BooksInit
  <1>2. calculator = "rolling" => ServingInv
    <2>1. Rolling!Init => Accepted /\ Countable(request)
      BY WorldsAreCountable DEF Rolling!Init, Accepted
    <2> QED BY <2>1, AcceptedServes DEF AnyInit
  <1>3. calculator = "series" => SeriesServing
    <2>1. Series!Init => SoundSeries(request, books)
      BY SeriesWorldsAreSound DEF Series!Init
    <2>2. Series!Init => at = "accepted" /\ rates = None
      BY DEF Series!Init
    <2> QED BY <2>1, <2>2 DEF AnyInit, SeriesServing, Series!HonestSourcesAreServed
  <1>4. calculator = "concentration" => ConcentrationInv
    BY ConcentrationInit DEF AnyInit
  <1> QED BY <1>1, <1>2, <1>3, <1>4 DEF ServedInv

(* Every step of any calculator keeps it. *)
LEMMA ServedSteps == ServedInv /\ [AnyNext]_everything => ServedInv'
  <1> SUFFICES ASSUME ServedInv, [AnyNext]_everything PROVE ServedInv'
    OBVIOUS
  <1>1. BooksInv'
    BY BooksSteps DEF ServedInv
  <1>2. CASE ARollingStep
    <2>1. calculator = "rolling" /\ calculator' = "rolling" /\ Rolling!Next
      BY <1>2 DEF ARollingStep
    <2>2. RollingInv /\ TellingInv /\ ServingInv
      BY <2>1 DEF ServedInv, BooksInv, CurrencyInv
    <2> QED BY <1>1, <2>1, <2>2, ServingSteps DEF ServedInv
  <1>3. CASE ASeriesStep
    <2>1. calculator = "series" /\ calculator' = "series" /\ Series!Next
      BY <1>3 DEF ASeriesStep
    <2> QED BY <1>1, <2>1, SeriesServingSteps DEF ServedInv
  <1>4. CASE AConcentrationStep
    <2>1. calculator = "concentration" /\ calculator' = "concentration" /\ Concentration!Next
      BY <1>4 DEF AConcentrationStep
    <2> QED BY <1>1, <2>1, ConcentrationSteps DEF ServedInv
  <1>5. CASE UNCHANGED calculator /\ calculator \notin {"rolling", "series", "concentration"}
    BY <1>1, <1>5 DEF ServedInv
  <1>6. CASE UNCHANGED everything
    <2>1. /\ UNCHANGED <<calculator, request, books, at, returns, outcome>>
          /\ UNCHANGED <<currency, rates, admitted, sent, snapshot>>
      BY <1>6 DEF everything, requestVars, rollingVars, seriesVars
    <2>2. ServingInv => ServingInv'
      BY <2>1, AnswersStand DEF ServingInv, Rolling!Responded
    <2>3. SeriesServing => SeriesServing'
      BY <2>1, ServableStands
      DEF SeriesServing, Series!HonestSourcesAreServed, Servable, Series!AllOverlap, Series!Responded
    <2>4. ConcentrationInv => ConcentrationInv'
      BY <2>1, RowsStand
      DEF ConcentrationInv, Concentration!HonestSourcesAreServed, Concentration!Responded
    <2> QED BY <1>1, <2>1, <2>2, <2>3, <2>4 DEF ServedInv
  <1>7. AnObservation \/ AnAttributionStep \/ AProductStep =>
          UNCHANGED calculator /\ calculator \notin {"rolling", "series", "concentration"}
    BY DEF AnObservation, AnAttributionStep, AProductStep
  <1> QED BY <1>2, <1>3, <1>4, <1>5, <1>6, <1>7 DEF AnyNext, NoMore

(* The invariant has the property. *)
LEMMA ServedSuffices == ServedInv => HonestSourcesAreServed
  BY ServingSuffices DEF ServedInv, SeriesServing, ConcentrationInv, HonestSourcesAreServed

(* Answers that are true and have what is needed are served, whichever came first and
   whatever was asked again: no check of the source refuses a true window, a true
   count of rows or the label of a true week, and none of the limits refuses what
   fits (extract_stateful_returns_source_evidence, _bucket_overlaps_window,
   _validate_returned_points_within_window, _validate_rolling_limits). *)
THEOREM TrueAnswersAreServed == AnySpec => []HonestSourcesAreServed
  BY ServedInit, ServedSteps, ServedSuffices, PTL DEF AnySpec

(* So are those to any sound request for rolling metrics, risk or drawdowns, whatever
   its days, periods, windows and books. *)
THEOREM EveryTrueAnswerIsServed ==
  /\ SoundSpec /\ Countable(request) => []HonestSourcesAreServed
  /\ SoundSeriesSpec /\ rates = None => []HonestSourcesAreServed
  <1>1. calculator = "rolling" /\ Accepted /\ Sound(request, books) /\ Countable(request) => ServedInv
    BY AcceptedTells, AcceptedServes DEF BooksInv, CurrencyInv, ServedInv
  <1>2. calculator = "series" /\ SeriesAccepted /\ SoundSeries(request, books) /\ rates = None
          => ServedInv
    <2>1. calculator = "series" /\ SeriesAccepted => CurrencyInv
      BY DEF SeriesAccepted, CurrencyInv, SeriesInv, Series!OneCurrency, Series!Responded, Series!Silence
    <2>2. SeriesAccepted /\ SoundSeries(request, books) /\ rates = None => SeriesServing
      BY DEF SeriesAccepted, SeriesServing, Series!HonestSourcesAreServed
    <2> QED BY <2>1, <2>2 DEF BooksInv, ServedInv
  <1>3. SoundSpec /\ Countable(request) => []HonestSourcesAreServed
    BY <1>1, ServedSteps, ServedSuffices, PTL DEF SoundSpec
  <1>4. SoundSeriesSpec /\ rates = None => []HonestSourcesAreServed
    BY <1>2, ServedSteps, ServedSuffices, PTL DEF SoundSeriesSpec
  <1> QED BY <1>3, <1>4
=============================================================================
