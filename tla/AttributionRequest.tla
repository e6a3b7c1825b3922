------------------------- MODULE AttributionRequest --------------------------
(***************************************************************************)
(* A request for historical attribution, from its acceptance to its answer *)
(* (src/src/app/services/attribution_mode_adapter.py,                      *)
(* attribution_stateful_inputs.py and what they call).  A stateful request *)
(* asks lotus-performance for the returns, lotus-core for the positions    *)
(* page by page and for their issuers, lotus-performance for the exposure  *)
(* of the benchmark page by page, and then, period by period, for evidence *)
(* of the groups' returns.  Every call is awaited before the next is made. *)
(*                                                                         *)
(* The upstreams are external.  They have books, and answer from them, but *)
(* an answer may fail, be malformed, be cut short, repeat or lack things.  *)
(***************************************************************************)
EXTENDS Attribution

LOCAL INSTANCE SequencesExt

CONSTANTS
  Worlds,     \* requests, each with the books of the upstreams
  PageSize,   \* rows of a page, as the upstreams cut them
  MaxPages,   \* POSITION_TIMESERIES_MAX_PAGES, BENCHMARK_EXPOSURE_MAX_PAGES
  MaxRows,    \* POSITION_TIMESERIES_MAX_ROWS, BENCHMARK_EXPOSURE_MAX_ROWS
  MaxFaults,  \* bound: answers to a request that are not as they should be
  Foreign     \* a label and a currency that no book has

VARIABLES
  request,     \* what the caller asks for
  books,       \* what the upstreams would tell, or what a caller supplies
  at,          \* the call that is awaited, or where the handler is
  returns,     \* portfolio and benchmark returns that came
  page,        \* page_count of the call that is awaited
  rows,        \* rows of its pages so far
  exposures,   \* exposure_history
  others,      \* benchmark_exposure_history
  identity,    \* benchmark_identity, of its first page
  todo,        \* evidence calls still to be made, in order
  evidence,    \* packs by period and dimension
  asked,       \* evidence calls made: contribution_requests, active_evidence_requests
  deviations,  \* history: what the answers were like
  outcome      \* what the caller gets

vars == <<request, books, at, returns, page, rows, exposures, others, identity, todo, evidence,
          asked, deviations, outcome>>

Silence == [kind |-> "none"]

Options == request.options

Fail(kind) ==
  /\ at' = "done"
  /\ outcome' = [kind |-> kind]

-----------------------------------------------------------------------------
(* The answer of a request *)

(* _attach_stateful_lineage: the operations whose requests are fingerprinted. *)
Lineage(made) ==
  IF request.mode = "STATELESS" THEN {} ELSE {"returns"} \cup {task.kind : task \in made}

(* Exposures that contradict each other are the caller's invalid input; they
   are met in the first period that is decomposed. *)
Contradicts(series, held, otherHeld) ==
  \E k \in DOMAIN request.periods, dimension \in Options.dimensions :
    LET bounds == BoundsOf(request, series, k) IN
    /\ Cardinality(DOMAIN Within(series.portfolio, bounds)) >= 2
    /\ \/ Contradictory(Scoped(held, dimension, bounds))
       \/ RequiresActive(Options) /\ Contradictory(Scoped(otherHeld, dimension, bounds))

(* calculate_historical_attribution and its lineage. *)
Respond(series, held, otherHeld, packs, made) ==
  IF DOMAIN series.portfolio # {} /\ Contradicts(series, held, otherHeld) THEN Fail("rejected")
  ELSE LET results == Attributed(request, series, held, otherHeld, packs) IN
       /\ at' = "done"
       /\ outcome' = [kind |-> "response", results |-> results, lineage |-> Lineage(made),
                      qualification |-> AttributionQualification(request, series, results)]

-----------------------------------------------------------------------------
(* Acceptance *)

Init ==
  /\ \E world \in Worlds : request = world.request /\ books = world.books
  /\ at = "accepted" /\ returns = [portfolio |-> NoReturns, benchmark |-> NoReturns]
  /\ page = 0 /\ rows = <<>> /\ exposures = {} /\ others = {} /\ identity = None
  /\ todo = <<>> /\ evidence = NoSets /\ asked = {} /\ deviations = {}
  /\ outcome = Silence

(* A stateless request carries its series; validate_active_attribution_inputs. *)
Accept ==
  /\ at = "accepted" /\ request.mode = "STATELESS"
  /\ IF RequiresActive(Options) /\ (DOMAIN books.benchmark = {} \/ books.others = {})
       THEN Fail("rejected") /\ UNCHANGED <<returns, exposures, others>>
       ELSE /\ returns' = [portfolio |-> books.portfolio, benchmark |-> books.benchmark]
            /\ exposures' = books.exposures /\ others' = books.others
            /\ Respond(returns', exposures', others', NoSets, {})
  /\ UNCHANGED <<request, books, page, rows, identity, todo, evidence, asked, deviations>>

(* validate_stateful_groupings, then the request for returns. *)
Start ==
  /\ at = "accepted" /\ request.mode = "STATEFUL"
  /\ IF "CUSTOM" \in Options.dimensions THEN Fail("rejected")
     ELSE at' = "returns" /\ UNCHANGED outcome
  /\ UNCHANGED <<request, books, returns, page, rows, exposures, others, identity, todo, evidence,
                 asked, deviations>>

(* At most MaxFaults of the answers of a request deviate. *)
Deviate(kind) ==
  IF kind = "none" THEN UNCHANGED deviations
  ELSE Cardinality(deviations) < MaxFaults /\ deviations' = deviations \cup {<<at, page, kind>>}

(* A call that fails, or an answer that is no such document. *)
Refuse ==
  /\ at \in {"returns", "positions", "issuers", "benchmark", "contribution", "active"}
  /\ \/ Fail("upstream") /\ Deviate("failed")
     \/ Fail("invalid") /\ Deviate("malformed")
  /\ UNCHANGED <<request, books, returns, page, rows, exposures, others, identity, todo, evidence,
                 asked>>

TradingRows(series) == Restrict(series, {d \in DOMAIN series : ~Weekend(d)})

(* fetch_stateful_returns_context; a cut answer lacks its first day. *)
TakeReturns ==
  /\ at = "returns"
  /\ \E kind \in {"none", "cut"}, unbenchmarked \in BOOLEAN :
       LET given(series) == IF kind = "none" \/ DOMAIN series = {} THEN series
                            ELSE Restrict(series, DOMAIN series \ {Earliest(DOMAIN series)})
           portfolio == TradingRows(given(books.portfolio))
           benchmark == IF unbenchmarked \/ ~RequiresActive(Options) THEN NoReturns
                        ELSE TradingRows(given(books.benchmark))
       IN /\ Deviate(IF unbenchmarked THEN "cut" ELSE kind)
          /\ IF \/ DOMAIN portfolio = {}
                \/ RequiresActive(Options) /\ DOMAIN benchmark = {}
               THEN Fail("missing") /\ UNCHANGED returns
               ELSE /\ returns' = [portfolio |-> portfolio, benchmark |-> benchmark]
                    /\ at' = "positions" /\ UNCHANGED outcome
  /\ UNCHANGED <<request, books, page, rows, exposures, others, identity, todo, evidence, asked>>

-----------------------------------------------------------------------------
(* Pages *)

(* Page n of some rows, and the token of the next one.  Tokens are numbers of
   pages; "repeat" gives one that was given before, "endless" one although
   nothing is left, "cut" none although something is. *)
PageOf(all, n) ==
  SubSeq(all, n * PageSize + 1, IF (n + 1) * PageSize <= Len(all) THEN (n + 1) * PageSize ELSE Len(all))

NextToken(all, n, kind) ==
  CASE kind = "repeat"  -> n
    [] kind = "endless" -> n + 1
    [] kind = "cut"     -> None
    [] OTHER            -> IF (n + 1) * PageSize < Len(all) THEN n + 1 ELSE None

PageDeviations(all, n) ==
  {"none", "endless"} \cup (IF n > 0 THEN {"repeat"} ELSE {})
    \cup (IF (n + 1) * PageSize < Len(all) THEN {"cut"} ELSE {})

(* Mutant: the last page is refused for its number. *)
FullPagingVerdict(token, n, got) ==
  IF n >= MaxPages \/ Len(got) > MaxRows THEN "unsafe"
  ELSE IF token = None THEN "last"
  ELSE IF token < n THEN "unsafe"
  ELSE "more"

(* What follows a page, in the order of the checks of both loops, when n have
   come and got are their rows. *)
PagingVerdict(token, n, got) ==
  IF Len(got) > MaxRows THEN "unsafe"
  ELSE IF token = None THEN "last"
  ELSE IF token < n THEN "unsafe"
  ELSE IF n >= MaxPages THEN "unsafe"
  ELSE "more"

(* What lotus-core has of the positions, and lotus-performance of the
   benchmark, for the days from the first return. *)
SourceRows(all) ==
  SelectSeq(all, LAMBDA r : r.day >= Earliest(DOMAIN returns.portfolio) /\ r.day <= request.asOf)

-----------------------------------------------------------------------------
(* Positions and issuers, of lotus-core *)

(* group_key_and_label: the key of a group is derived from its label, so the
   label is the key. *)
LabelOf(row, dimension, issuers) ==
  IF dimension = "ISSUER"
    THEN IF row.security \in DOMAIN issuers THEN issuers[row.security] ELSE row.security
    ELSE books.labels[dimension][row.security]

(* build_exposure_points: a row without a date is passed over, and so is a day
   whose values come to nothing. *)
ExposuresOf(held, issuers) ==
  LET dated    == {i \in DOMAIN held : held[i].day # None}
      on(d)    == {i \in dated : held[i].day = d}
      worth(S) == SumOf([i \in S |-> held[i].value])
      days     == {held[i].day : i \in dated}
      in(d, dimension, label) == {i \in on(d) : LabelOf(held[i], dimension, issuers) = label}
  IN UNION {{[day |-> d, dimension |-> dimension, group |-> label, label |-> label,
              weight |-> (worth(in(d, dimension, label)) * Whole) \div worth(on(d))] :
               label \in {LabelOf(held[i], dimension, issuers) : i \in on(d)}} :
              d \in {e \in days : worth(on(e)) # 0}, dimension \in Options.dimensions}

(* The evidence calls, period by period, of periods that are decomposed. *)
CallsOf(k) ==
  LET joined == Options.dimensions \cap Joinable
      kinds  == (IF Needs(Options, "TOTAL_RISK") THEN <<"contribution">> ELSE <<>>) \o
                (IF Needs(Options, "ACTIVE_RISK") /\ request.basis = "GROSS"
                      /\ request.currency # None THEN <<"active">> ELSE <<>>)
      calls(dimension) == [i \in DOMAIN kinds |->
                             [period |-> k, dimension |-> dimension, kind |-> kinds[i]]]
  IN IF Cardinality(DOMAIN Within(returns.portfolio, BoundsOf(request, returns, k))) < 2 THEN <<>>
     ELSE FlattenSeq([i \in DOMAIN SetToSeq(joined) |-> calls(SetToSeq(joined)[i])])

EvidenceCalls ==
  LET names == SetToSeq(DOMAIN request.periods)
  IN FlattenSeq([i \in DOMAIN names |-> CallsOf(names[i])])

Exposed(held, task) ==
  Scoped(held, task.dimension, BoundsOf(request, returns, task.period))

(* The first of some evidence calls, or the answer.  A category that cannot be
   told from the missing ones is refused before its call is made. *)
Proceed(held, otherHeld, tasks, packs, made) ==
  IF tasks = <<>>
    THEN Respond(returns, held, otherHeld, packs, made) /\ UNCHANGED <<todo, asked>>
  ELSE IF Head(tasks).kind = "contribution" /\ AmbiguousUniverse(Exposed(held, Head(tasks)))
    THEN Fail("invalid") /\ UNCHANGED <<todo, asked>>
  ELSE /\ todo' = tasks /\ asked' = made \cup {Head(tasks)}
       /\ at' = Head(tasks).kind /\ UNCHANGED outcome

(* _validated_exposure_history; a market value that is none is the caller's
   invalid input. *)
UsePositions(held, issuers) ==
  IF \E i \in DOMAIN held : held[i].day # None /\ held[i].value = None
    THEN Fail("rejected") /\ UNCHANGED <<exposures, others, todo, asked>>
  ELSE IF ExposuresOf(held, issuers) = {}
    THEN Fail("missing") /\ UNCHANGED <<exposures, others, todo, asked>>
  ELSE IF RequiresActive(Options)
    THEN /\ at' = "benchmark" /\ exposures' = ExposuresOf(held, issuers)
         /\ UNCHANGED <<others, todo, asked, outcome>>
  ELSE /\ exposures' = ExposuresOf(held, issuers) /\ UNCHANGED others
       /\ Proceed(ExposuresOf(held, issuers), {}, EvidenceCalls, NoSets, {})

(* A page as it comes: as it is, or one row without a day or a value. *)
PositionPages(all) ==
  LET batch == PageOf(all, page) IN
  {[kind |-> kind, rows |-> batch] : kind \in PageDeviations(all, page)} \cup
  (IF batch = <<>> THEN {}
   ELSE {[kind |-> "undated", rows |-> [batch EXCEPT ![1].day = None]],
         [kind |-> "worthless", rows |-> [batch EXCEPT ![1].value = None]]})

(* fetch_position_timeseries_rows, one page. *)
TakePositions ==
  /\ at = "positions"
  /\ \E answer \in PositionPages(SourceRows(books.positions)) :
       LET got     == rows \o answer.rows
           token   == NextToken(SourceRows(books.positions), page, answer.kind)
           verdict == PagingVerdict(token, page + 1, got)
       IN /\ Deviate(answer.kind)
          /\ CASE verdict = "unsafe" ->
                    Fail("invalid") /\ UNCHANGED <<page, rows, exposures, others, todo, asked>>
               [] verdict = "more" ->
                    /\ page' = page + 1 /\ rows' = got
                    /\ UNCHANGED <<at, exposures, others, todo, asked, outcome>>
               [] verdict = "last" ->
                    /\ page' = 0
                    /\ IF got = <<>>
                         THEN Fail("missing") /\ UNCHANGED <<rows, exposures, others, todo, asked>>
                       ELSE IF "ISSUER" \in Options.dimensions
                         THEN /\ at' = "issuers" /\ rows' = got
                              /\ UNCHANGED <<exposures, others, todo, asked, outcome>>
                       ELSE rows' = <<>> /\ UsePositions(got, NoSets)
  /\ UNCHANGED <<request, books, returns, identity, evidence>>

(* build_issuer_map: securities that the answer leaves out are issuers of their
   own. *)
TakeIssuers ==
  /\ at = "issuers"
  /\ \E known \in SUBSET {rows[i].security : i \in DOMAIN rows} :
       /\ UsePositions(rows, [s \in known |-> books.labels["ISSUER"][s]])
       /\ Deviate(IF known = {rows[i].security : i \in DOMAIN rows} THEN "none" ELSE "unknown") /\ rows' = <<>>
  /\ UNCHANGED <<request, books, returns, page, identity, evidence>>

-----------------------------------------------------------------------------
(* The exposure of the benchmark, of lotus-performance *)

RowKey(row) == <<row.day, row.dimension, row.group>>

(* A page as it comes: as it is, of another benchmark, with a row of a page
   before or of a day before the first return, or of an incomplete source. *)
BenchmarkPages(all) ==
  LET batch == PageOf(all, page)
      answer(kind, index, got) == [kind |-> kind, identity |-> index, rows |-> got]
  IN {answer(kind, books.index, batch) : kind \in PageDeviations(all, page) \cup {"incomplete"}} \cup
     {answer("changed", Foreign, batch)} \cup
     (IF rows = <<>> THEN {} ELSE {answer("twice", books.index, batch \o <<Head(rows)>>)}) \cup
     (IF batch = <<>> THEN {}
      ELSE {answer("outside", books.index,
              [batch EXCEPT ![1].day = Earliest(DOMAIN returns.portfolio) - 1])})

(* _row_to_exposure_point and _validate_page_identity_and_rows: what makes a
   page invalid after some rows. *)
BadPage(answer) ==
  \/ page > 0 /\ answer.identity # identity
  \/ Repeats([i \in DOMAIN (rows \o answer.rows) |-> RowKey((rows \o answer.rows)[i])])
  \/ \E i \in DOMAIN answer.rows :
       \/ answer.rows[i].day < Earliest(DOMAIN returns.portfolio)
       \/ answer.rows[i].day > request.asOf
       \/ answer.rows[i].dimension \notin Options.dimensions

(* _validate_lineage and _require_complete_exposure_source_quality: the producer
   says that economics are left out. *)
IncompleteSource(answer) == answer.kind = "incomplete"

(* validate_benchmark_exposure_alignment, and an answer without any row. *)
UseBenchmark(got) ==
  IF got = <<>> \/ ~(DOMAIN returns.benchmark \subseteq {got[i].day : i \in DOMAIN got})
    THEN Fail("missing") /\ UNCHANGED <<others, todo, asked>>
    ELSE LET admitted == {got[i] : i \in DOMAIN got} IN
         others' = admitted /\ Proceed(exposures, admitted, EvidenceCalls, NoSets, {})

(* fetch_benchmark_exposure_history_with_identity, one page. *)
TakeBenchmark ==
  /\ at = "benchmark"
  /\ \E answer \in BenchmarkPages(SourceRows(books.constituents)) :
       LET got     == rows \o answer.rows
           verdict == PagingVerdict(NextToken(SourceRows(books.constituents), page, answer.kind),
                        page + 1, got)
           failed  == IncompleteSource(answer) \/ BadPage(answer) \/ verdict = "unsafe"
       IN /\ Deviate(answer.kind)
          /\ IF failed THEN /\ Fail(IF IncompleteSource(answer) THEN "missing" ELSE "invalid")
                            /\ UNCHANGED <<page, rows, others, identity, todo, asked>>
             ELSE /\ identity' = answer.identity
                  /\ IF verdict = "more"
                       THEN /\ page' = page + 1 /\ rows' = got
                            /\ UNCHANGED <<at, others, todo, asked, outcome>>
                       ELSE page' = 0 /\ rows' = <<>> /\ UseBenchmark(got)
  /\ UNCHANGED <<request, books, returns, exposures, evidence>>

-----------------------------------------------------------------------------
(* Evidence of the groups, of lotus-performance *)

NoPack == [series |-> NoReturns, flags |-> {}, active |-> None]

Task == Head(todo)

Held == IF Task.period \in DOMAIN evidence THEN evidence[Task.period] ELSE NoSets

PackOf(dimension) == IF dimension \in DOMAIN Held THEN Held[dimension] ELSE NoPack

With(f, k, v) == [q \in DOMAIN f \cup {k} |-> IF q = k THEN v ELSE f[q]]

(* The pack is kept, and the next call is made. *)
Keep(pack) ==
  LET packs == With(evidence, Task.period, With(Held, Task.dimension, pack)) IN
  /\ evidence' = packs
  /\ Proceed(exposures, others, Tail(todo), packs, asked)

(* The days the producer has of a task, weekends included, in order. *)
TaskBounds == BoundsOf(request, returns, Task.period)

TaskDays ==
  SetToSortSeq({d \in UNION {DOMAIN books.shares[Task.dimension][l] :
                               l \in DOMAIN books.shares[Task.dimension]} :
                  TaskBounds.start <= d /\ d <= TaskBounds.end}, <)

Share(label, d) == books.shares[Task.dimension][label][d]

(* The rows of a contribution as the producer has them. *)
HonestRows ==
  LET labels == SetToSeq(DOMAIN books.shares[Task.dimension]) IN
  [i \in DOMAIN labels |->
     [other |-> FALSE, key |-> IF labels[i] = Unknown THEN Unclassified ELSE labels[i],
      status |-> "READY", basis |-> TRUE, currency |-> books.currency,
      points |-> [j \in DOMAIN TaskDays |->
                    [day |-> TaskDays[j], weight |-> Share(labels[i], TaskDays[j]).weight,
                     return |-> Share(labels[i], TaskDays[j]).return]]]]

(* Its rows as they come: one is lost, rolled up, unavailable, repeated, of
   another group, currency or basis, or lacks, repeats or changes a day. *)
ContributionAnswers ==
  LET honest == HonestRows
      answer(kind, got) == [kind |-> kind, missing |-> kind = "missing", rows |-> got]
  IN {answer("none", honest), answer("missing", <<>>)} \cup
     (IF honest = <<>> THEN {}
      ELSE LET points == honest[1].points IN
        {answer("lost", Tail(honest)),
         answer("rolled", [honest EXCEPT ![1].other = TRUE]),
         answer("unavailable", [honest EXCEPT ![1].status = "UNAVAILABLE"]),
         answer("status", [honest EXCEPT ![1].status = "STALE"]),
         answer("twice", honest \o <<honest[1]>>),
         answer("foreign", [honest EXCEPT ![1].key = Foreign]),
         answer("currency", [honest EXCEPT ![1].currency = Foreign]),
         answer("basis", [honest EXCEPT ![1].basis = FALSE]),
         answer("repeated", [honest EXCEPT ![1].points = @ \o <<points[1]>>]),
         answer("outside", [honest EXCEPT ![1].points[1].day = TaskBounds.end + 7]),
         answer("short", [honest EXCEPT ![1].points = Tail(@)]),
         answer("changed", [honest EXCEPT ![1].points[Len(points)].return = @ + 1])})

(* parse_group_evidence *)
TakeContribution ==
  /\ at = "contribution"
  /\ \E answer \in ContributionAnswers :
       LET universe  == Universe(Exposed(exposures, Task))
           portfolio == Within(returns.portfolio, TaskBounds)
       IN /\ Deviate(answer.kind)
          /\ IF /\ ~answer.missing
                /\ BadRows(answer.rows, universe, DOMAIN portfolio, TaskBounds, request.currency)
               THEN Fail("invalid") /\ UNCHANGED <<todo, evidence, asked>>
               ELSE Keep(Pack(answer, universe, portfolio))
  /\ UNCHANGED <<request, books, returns, page, rows, exposures, others, identity>>

Active(label, d) ==
  LET s == Share(label, d) IN
  [day |-> d, label |-> label, weight |-> s.weight, return |-> s.return,
   otherWeight |-> s.otherWeight, otherReturn |-> s.otherReturn,
   active |-> s.weight * s.return - s.otherWeight * s.otherReturn]

(* The active evidence of a task as the producer has it. *)
HonestActive ==
  LET labels == SetToSeq(DOMAIN books.shares[Task.dimension])
      sum(d, f(_)) == SumOf([l \in DOMAIN books.shares[Task.dimension] |-> f(Share(l, d))])
      portfolio(d) == sum(d, LAMBDA s : s.weight * s.return) \div Whole
      benchmark(d) == sum(d, LAMBDA s : s.otherWeight * s.otherReturn) \div Whole
  IN [kind |-> "none", scope |-> TRUE, benchmark |-> books.index, complete |-> TRUE,
      malformed |-> FALSE, days |-> Range(TaskDays),
      aggregates |-> [d \in Range(TaskDays) |->
                        [portfolio |-> portfolio(d), benchmark |-> benchmark(d),
                         active |-> portfolio(d) - benchmark(d)]],
      rows |-> FlattenSeq([i \in DOMAIN labels |->
                 [j \in DOMAIN TaskDays |-> Active(labels[i], TaskDays[j])]])]

(* As it comes: of another scope or benchmark, incomplete, with a row that is
   lost, repeated, of another group, or changed on either side, or without a
   day. *)
ActiveAnswers ==
  LET honest == HonestActive
      day    == Head(TaskDays)
  IN {honest,
      [honest EXCEPT !.kind = "scope", !.scope = FALSE],
      [honest EXCEPT !.kind = "index", !.benchmark = Foreign],
      [honest EXCEPT !.kind = "incomplete", !.complete = FALSE],
      [honest EXCEPT !.kind = "contradictory", !.malformed = TRUE],
      [honest EXCEPT !.kind = "lost", !.rows = Tail(@)],
      [honest EXCEPT !.kind = "twice", !.rows = @ \o <<Head(@)>>],
      [honest EXCEPT !.kind = "foreign", !.rows[1].label = Foreign],
      [honest EXCEPT !.kind = "inconsistent", !.rows[1].active = @ + 1],
      [honest EXCEPT !.kind = "changed", !.rows[1].return = @ + 1,
                     !.rows[1].active = @ + honest.rows[1].weight],
      [honest EXCEPT !.kind = "tilted", !.rows[1].otherReturn = @ + 1,
                     !.rows[1].active = @ - honest.rows[1].otherWeight],
      [honest EXCEPT !.kind = "short", !.days = @ \ {day},
                     !.aggregates = Restrict(@, DOMAIN @ \ {day}),
                     !.rows = SelectSeq(@, LAMBDA r : r.day # day)]}

(* fetch_active_group_evidence; what came before of the dimension is kept. *)
TakeActive ==
  /\ at = "active"
  /\ \E answer \in ActiveAnswers :
       LET portfolio == Within(returns.portfolio, TaskBounds)
           benchmark == Within(returns.benchmark, TaskBounds)
           exposed   == Exposed(exposures, Task) \cup Exposed(others, Task)
           verdict   == ActiveRefusal(answer, identity, exposed, portfolio, benchmark)
       IN /\ Deviate(answer.kind)
          /\ IF verdict # "none"
               THEN Fail(verdict) /\ UNCHANGED <<todo, evidence, asked>>
               ELSE Keep([PackOf(Task.dimension) EXCEPT
                            !.active = ActiveObservations(answer, exposed, DOMAIN portfolio)])
  /\ UNCHANGED <<request, books, returns, page, rows, exposures, others, identity>>

-----------------------------------------------------------------------------

(* The request is over. *)
Rest == at = "done" /\ UNCHANGED vars

Next ==
  \/ Accept \/ Start \/ Refuse \/ TakeReturns \/ TakePositions \/ TakeIssuers \/ TakeBenchmark
  \/ TakeContribution \/ TakeActive \/ Rest

Spec == Init /\ [][Next]_vars

-----------------------------------------------------------------------------

Answered == at = "done" /\ outcome.kind = "response"

(* Sets of the answer that are calculated, by period and key. *)
AnsweredSets ==
  {q \in UNION {{k} \X DOMAIN outcome.results[k].sets : k \in DOMAIN outcome.results} :
     outcome.results[q[1]].sets[q[2]].total # None}

AnsweredSet(q) == outcome.results[q[1]].sets[q[2]]

SeriesIn(k) == Windowed(returns, BoundsOf(request, returns, k))

(* What a set would be with nothing but the books of lotus-performance. *)
BookComponents(q) ==
  LET type   == q[2][2]
      shares == books.shares[q[2][1]]
      metric == MetricSeries(type, SeriesIn(q[1]))
      added(s) == IF type = "TOTAL_RISK" THEN s.weight * s.return
                  ELSE s.weight * s.return - s.otherWeight * s.otherReturn
  IN [l \in DOMAIN shares |-> Covariance([d \in DOMAIN metric |-> added(shares[l][d])], metric)]

(* A set that calls itself empirical is: whatever rows were lost, repeated,
   changed or mixed up on the way, on one side or the other, its components are
   those of the producer's books, one for each group that Risk itself has seen
   exposed (parse_group_evidence, parse_active_group_evidence). *)
EmpiricalSetsAreTrue ==
  Answered =>
    \A q \in AnsweredSets :
      LET s == AnsweredSet(q) IN
      s.basis = "empirical_group_returns" /\ s.total # 0 =>
        /\ s.components = BookComponents(q)
        /\ {e.group : e \in Scoped(exposures, q[2][1], BoundsOf(request, returns, q[1]))}
             \subseteq DOMAIN s.components

ObservedAll(held, q, days) ==
  days \subseteq Observed(Scoped(held, q[2][1], BoundsOf(request, returns, q[1])))

(* A decomposition adds up.  The components of an empirical set are all of the
   risk; so are those of a proxy of the total risk, if exposures whose weights
   are not flagged are there on all its days; and those of a proxy of the active
   risk, then, are nothing together, as active weights are
   (component_decomposition, pivot_exposure). *)
DecompositionsAddUp ==
  Answered =>
    \A q \in AnsweredSets :
      LET s      == AnsweredSet(q)
          type   == q[2][2]
          metric == MetricSeries(type, SeriesIn(q[1]))
          whole  == /\ s.flags \cap {"weight_not_sum_to_one", "no_exposure_data"} = {}
                    /\ ObservedAll(exposures, q, DOMAIN metric)
                    /\ type = "ACTIVE_RISK" => ObservedAll(others, q, DOMAIN metric)
      IN CASE s.basis = "empirical_group_returns" -> s.residual = 0
           [] s.basis = "weight_proxy" /\ whole   ->
                IF type = "TOTAL_RISK" THEN s.residual = 0 ELSE SumOf(s.components) = 0
           [] OTHER -> TRUE

(* The answer is called ready only if no period of it is short of observations,
   some set was decomposed, and none of those that were rests on the proxy; a
   set that is not supported or is empty may stand beside them.  Otherwise it
   says the gravest of what is wrong with it
   (supportability_from_attribution_results). *)
AttributionIsQualified ==
  Answered =>
    LET q     == outcome.qualification
        short == {k \in DOMAIN outcome.results : outcome.results[k].error # "none"}
        proxy == {p \in AnsweredSets : AnsweredSet(p).basis = "weight_proxy"}
    IN /\ q.degraded = Cardinality(short)
       /\ CASE DOMAIN returns.portfolio = {}  -> q.state = "empty"
            [] short # {}                     -> q.reason = "insufficient_observations"
            [] DOMAIN returns.portfolio # {} /\ short = {}
                 -> IF proxy # {} \/ AnsweredSets = {}
                      THEN q.state = "degraded" /\ q.reason = "group_return_series_unavailable"
                      ELSE q.state = IF q.bucket = "stale" THEN "stale" ELSE "ready"

(* Books that allow an answer. *)
Sound ==
  LET portfolio == TradingRows(books.portfolio)
      benchmark == TradingRows(books.benchmark)
      from      == Earliest(DOMAIN portfolio)
      inScope(all) == SelectSeq(all, LAMBDA r : r.day >= from /\ r.day <= request.asOf)
      fits(all)    == Len(inScope(all)) <= MaxRows /\ Len(inScope(all)) <= MaxPages * PageSize
  IN /\ request.mode = "STATEFUL" /\ "CUSTOM" \notin Options.dimensions
     /\ DOMAIN portfolio # {}
     /\ fits(books.positions) /\ fits(books.constituents)
     /\ ~({Unknown, Unclassified} \subseteq Range(books.labels["SECTOR"]))
     /\ RequiresActive(Options) =>
          /\ DOMAIN benchmark = DOMAIN portfolio
          /\ DOMAIN benchmark \subseteq {books.constituents[i].day : i \in DOMAIN books.constituents}

(* Sources that answer as they should are served, up to the last row and the
   last page that the limits allow, and with all of their pages; and no source,
   whatever tokens it gives, is asked for more pages than that or has more rows
   kept (fetch_position_timeseries_rows and
   fetch_benchmark_exposure_history_with_identity). *)
HonestSourcesAreServed ==
  /\ at = "done" /\ deviations = {} /\ Sound =>
       /\ outcome.kind = "response"
       /\ exposures = ExposuresOf(SourceRows(books.positions),
                        IF "ISSUER" \in Options.dimensions THEN books.labels["ISSUER"] ELSE NoSets)
       /\ RequiresActive(Options) => others = Range(SourceRows(books.constituents))
  /\ at \in {"positions", "benchmark"} => page < MaxPages /\ Len(rows) <= MaxRows
=============================================================================
