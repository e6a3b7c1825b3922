---------------------------- MODULE Concentration ----------------------------
(***************************************************************************)
(* A request to risk/concentration, from its acceptance to its answer      *)
(* (src/src/app/services/concentration_engine.py, concentration/).  A      *)
(* stateless request carries its positions and asks lotus-core, if at all, *)
(* for the issuers of their securities; the others take positions and      *)
(* issuers from a snapshot, a simulation from that of its session, which   *)
(* is the matter of SimulationSession.                                     *)
(*                                                                         *)
(* Securities and issuers are numbers in the order of their identifiers,   *)
(* and 0 is none.  Values are whole, and a ratio is a pair of a numerator  *)
(* and a denominator, <<0, 1>> if there is nothing.                        *)
(***************************************************************************)
EXTENDS Integers, Sequences, FiniteSets, FiniteSetsExt, Functions, TLC

CONSTANTS
  Worlds,   \* requests, each with the positions and the issuers that there are
  None      \* no projected positions

VARIABLES
  request,   \* what the caller asks for, with the issuers that it says
  books,     \* positions, of the caller or of lotus-core, and the issuers it knows
  at,        \* the call that is awaited, or where the handler is
  answer,    \* what lotus-core says
  outcome    \* what the caller gets

vars == <<request, books, at, answer, outcome>>

Silence == [kind |-> "none"]

Nothing == [s \in {} |-> 0]

Stateless == request.mode = "STATELESS"

UsesCore == request.policy # "USE_CALLER_ONLY"

-----------------------------------------------------------------------------
(* Positions *)

(* stateless_exposure_basis: what the rows of a state are measured in. *)
MixedBases(rows) ==
  \/ \E i, j \in DOMAIN rows : rows[i].basis = "market" /\ rows[j].basis # "market"
  \/ \E i \in DOMAIN rows : rows[i].basis = "none"

BasesDiffer(current, projected) ==
  \E i \in DOMAIN current, j \in DOMAIN projected : current[i].basis # projected[j].basis

(* _snapshot_market_value *)
NoMarketValue(rows) == \E i \in DOMAIN rows : rows[i].basis # "market"

(* Rows of no value, or less, are no positions: _to_decimal and again
   _snapshot_market_value. *)
Counted(rows) == {i \in DOMAIN rows : rows[i].value > 0}

-----------------------------------------------------------------------------
(* Issuers *)

(* _issuer_key_from_mapping, _issuer_key_from_position, issuer_map_from_core_records *)
Key(identity) ==
  IF request.grouping = "ULTIMATE_PARENT" /\ identity.parent # 0 THEN identity.parent
  ELSE identity.legal

(* _issuer_map_from_positions, _caller_issuer_map: the last row that has one. *)
IssuerMap(rows) ==
  LET keyed == {i \in DOMAIN rows : Key(rows[i]) # 0}
      last(s) == Max({i \in keyed : rows[i].security = s})
  IN [s \in {rows[i].security : i \in keyed} |-> Key(rows[last(s)])]

(* _extract_issuer_map, issuer_map_from_core_records *)
CoreMap(known) ==
  [s \in {t \in DOMAIN known : Key(known[t]) # 0} |-> Key(known[s])]

(* _merge_issuer_maps *)
Merge(caller, core) ==
  CASE request.policy = "USE_CALLER_ONLY" -> caller
    [] request.policy = "CORE_ONLY"       -> core
    [] OTHER                              -> caller @@ core

(* The rows that an issuer is known for. *)
Covered(rows, issuers) == {i \in Counted(rows) : rows[i].security \in DOMAIN issuers}

(* _to_weighted_values, _extract_values_with_issuer_from_snapshot *)
Positions(rows) == [i \in Counted(rows) |-> rows[i].value]

Totals(rows, issuers) ==
  LET covered == Covered(rows, issuers)
      of(k)   == {i \in covered : issuers[rows[i].security] = k}
  IN [k \in {issuers[rows[i].security] : i \in covered} |->
        MapThenSumSet(LAMBDA i : rows[i].value, of(k))]

-----------------------------------------------------------------------------
(* Measures *)

Total(values) == MapThenSumSet(LAMBDA k : values[k], DOMAIN values)

Ratio(part, whole) == IF whole = 0 THEN <<0, 1>> ELSE <<part, whole>>

(* _compute_hhi, without its factor. *)
Hhi(values) ==
  Ratio(MapThenSumSet(LAMBDA k : values[k] * values[k], DOMAIN values),
        Total(values) * Total(values))

(* The largest sum that n of the values have. *)
Largest(values, n) ==
  LET some == {S \in SUBSET DOMAIN values : Cardinality(S) <= n}
  IN Max({Total(Restrict(values, S)) : S \in some})

(* _single_position_metrics *)
TopShare(values, n) == Ratio(Largest(values, n), Total(values))

(* _top_position_driver, _top_issuer_driver: of equals the last by name. *)
Driver(values, names) ==
  LET tops == {k \in DOMAIN values : values[k] = Largest(values, 1)} IN
  IF tops = {} THEN 0 ELSE Max({names[k] : k \in tops})

(* position_metrics, issuer_metrics, of one state. *)
Measures(rows, issuers) ==
  LET values == Positions(rows)
      totals == Totals(rows, issuers)
  IN [hhi       |-> Hhi(values),
      top       |-> TopShare(values, 1),
      topN      |-> TopShare(values, request.topN),
      driver    |-> Driver(values, [i \in Counted(rows) |-> rows[i].security]),
      issuerHhi |-> Hhi(totals),
      issuerTop |-> TopShare(totals, 1),
      issuer    |-> Driver(totals, [k \in DOMAIN totals |-> k]),
      covered   |-> Cardinality(Covered(rows, issuers)),
      total     |-> Cardinality(Counted(rows))]

(* issuer_coverage_status *)
CoverageStatus(current, proposed) ==
  IF current.total = 0 /\ proposed.total = 0 THEN "unavailable"
  ELSE IF current.covered = current.total /\ proposed.covered = proposed.total THEN "complete"
  ELSE IF current.covered > 0 \/ proposed.covered > 0 THEN "partial"
  ELSE "unavailable"

(* supportability_from_concentration_response *)
Supportability(current, proposed, note) ==
  IF current.total + proposed.total = 0 THEN "empty"
  ELSE IF current.covered + proposed.covered = 0 \/ note THEN "degraded"
  ELSE "ready"

-----------------------------------------------------------------------------
(* The handler *)

Init ==
  /\ \E world \in Worlds : request = world.request /\ books = world.books
  /\ at = "accepted" /\ answer = Silence /\ outcome = Silence

(* Raises an error: "rejected" 422, "invalid" 502, "upstream" what the client
   makes of a failed call. *)
Fail(kind) == outcome' = [kind |-> kind] /\ at' = "done"

(* _build_response; note says that the issuers may not be all that there are. *)
Respond(current, proposed, note) ==
  /\ at' = "done"
  /\ outcome' = [kind |-> "response", current |-> current, proposed |-> proposed,
                 coverage |-> CoverageStatus(current, proposed),
                 state    |-> Supportability(current, proposed, note)]

Supplied == books.projected # None

Projected == IF Supplied THEN books.projected ELSE <<>>

(* Mutant: one map, with what the caller says of both states. *)
OneCallerMap(state) == IssuerMap(Projected) @@ IssuerMap(books.current)

(* stateless_caller_issuer_maps *)
CallerMap(state) ==
  IF state = "current" THEN IssuerMap(books.current)
  ELSE IssuerMap(Projected) @@ IssuerMap(books.current)

(* _weighted_stateless_state: without a projection nothing changes. *)
RespondStateless(core, unanswered) ==
  LET current  == Measures(books.current, Merge(CallerMap("current"), core))
      proposed == IF Supplied THEN Measures(Projected, Merge(CallerMap("proposed"), core))
                  ELSE current
      unmapped == current.covered = 0 /\ proposed.covered = 0
                    /\ (current.total > 0 \/ proposed.total > 0)
  IN Respond(current, proposed, unanswered \/ unmapped)

(* A valid stateless request. *)
Admitted ==
  ~MixedBases(books.current) /\ ~MixedBases(Projected) /\ ~BasesDiffer(books.current, Projected)

(* calculate_concentration, stateless_core_issuer_map: only the issuers of
   positions are asked for, and of a service that is there. *)
Accept ==
  /\ at = "accepted"
  /\ LET asked == Counted(books.current) # {} \/ Counted(Projected) # {} IN
     IF ~Stateless THEN at' = "snapshot" /\ UNCHANGED outcome
     ELSE IF ~Admitted THEN Fail("rejected")
     ELSE IF UsesCore /\ request.client /\ asked THEN at' = "enrichment" /\ UNCHANGED outcome
     ELSE RespondStateless(Nothing, FALSE)
  /\ UNCHANGED <<request, books, answer>>

(* lotus-core may know the issuers of some of the securities; a stateless
   request does without an answer. *)
TakeEnrichment ==
  /\ at = "enrichment"
  /\ \/ \E kind \in {"failed", "malformed"} :
          answer' = [kind |-> kind, known |-> Nothing] /\ RespondStateless(Nothing, TRUE)
     \/ \E some \in SUBSET DOMAIN books.known :
          LET known == Restrict(books.known, some) IN
          answer' = [kind |-> "whole", known |-> known] /\ RespondStateless(CoreMap(known), FALSE)
  /\ UNCHANGED <<request, books>>

(* fetch_stateful_snapshot_state with stateful_baseline_values, and
   simulation_snapshot_state: a snapshot without its baseline has none, and
   one that lacks what else there has to be is refused. *)
RespondSnapshot(kind, known) ==
  LET baseline   == IF kind = "no baseline" THEN <<>> ELSE books.current
      simulation == request.mode = "SIMULATION"
      core       == CoreMap(known)
      issuers    == Merge(IssuerMap(request.mappings), core)
      current    == Measures(baseline, issuers)
      proposed   == IF simulation THEN Measures(Projected, issuers) ELSE current
  IN IF NoMarketValue(baseline)
          \/ (simulation /\ (kind = "no projection" \/ NoMarketValue(Projected)))
       THEN Fail("invalid")
       ELSE Respond(current, proposed, DOMAIN core = {})

TakeSnapshot ==
  /\ at = "snapshot"
  /\ \/ answer' = [kind |-> "failed", known |-> Nothing] /\ Fail("upstream")
     \/ answer' = [kind |-> "malformed", known |-> Nothing] /\ Fail("invalid")
     \/ \E kind \in {"whole", "no baseline", "no projection"}, some \in SUBSET DOMAIN books.known :
          LET known == Restrict(books.known, some) IN
          answer' = [kind |-> kind, known |-> known] /\ RespondSnapshot(kind, known)
  /\ UNCHANGED <<request, books>>

(* A request ends. *)
Rest == at = "done" /\ UNCHANGED vars

Next == Accept \/ TakeEnrichment \/ TakeSnapshot \/ Rest

Spec == Init /\ [][Next]_vars

-----------------------------------------------------------------------------
(* Properties *)

Responded == outcome.kind = "response"

RowsOf(state) ==
  IF state = "proposed" /\ Supplied THEN Projected
  ELSE IF answer.kind = "no baseline" THEN <<>>
  ELSE books.current

(* What the caller says of the owner of a security, the later the stronger: of
   what there is, a projection says nothing. *)
SaidOwner(s, state) ==
  LET rows == IF ~Stateless THEN request.mappings
              ELSE IF state = "current" THEN books.current
              ELSE books.current \o Projected
      said == {i \in DOMAIN rows : rows[i].security = s /\ Key(rows[i]) # 0}
  IN IF said = {} THEN 0 ELSE Key(rows[Max(said)])

KnownOwner(s) ==
  IF answer # Silence /\ s \in DOMAIN answer.known THEN Key(answer.known[s]) ELSE 0

(* The owner by docs/domain-apis/risk-concentration.md, Issuer Grouping and
   Enrichment. *)
Owner(s, state) ==
  IF request.policy # "CORE_ONLY" /\ SaidOwner(s, state) # 0 THEN SaidOwner(s, state)
  ELSE IF UsesCore THEN KnownOwner(s) ELSE 0

(* The chance that two units of value, drawn from some rows, are Alike. *)
Chance(rows, some, Alike(_, _)) ==
  LET worth(p) == rows[p[1]].value * rows[p[2]].value
      pairs    == {p \in some \X some : Alike(p[1], p[2])}
  IN Ratio(MapThenSumSet(worth, pairs), MapThenSumSet(worth, some \X some))

AtMost(p, q) == p[1] * q[2] <= q[1] * p[2]

(* The measures of a state are those of its own rows and owners. *)
MeasuresAreTrue(state) ==
  LET measures == outcome[state]
      rows     == RowsOf(state)
      counted  == {i \in DOMAIN rows : rows[i].value > 0}
      owner    == [i \in counted |-> Owner(rows[i].security, state)]
      owned    == {i \in counted : owner[i] # 0}
  IN /\ measures.hhi = Chance(rows, counted, LAMBDA i, j : i = j)
     /\ measures.issuerHhi = Chance(rows, owned, LAMBDA i, j : owner[i] = owner[j])
     /\ measures.total = Cardinality(counted) /\ measures.covered = Cardinality(owned)
     /\ AtMost(measures.hhi, measures.top) /\ AtMost(measures.top, measures.topN)
     /\ AtMost(measures.topN, <<1, 1>>)
     /\ counted # {} => \E i \in counted :
          /\ rows[i].security = measures.driver
          /\ \A j \in counted : rows[j].value <= rows[i].value
     /\ owned # {} => measures.issuer \in {owner[i] : i \in owned}

(* Where every position has an owner the owners are at least as concentrated
   as the positions. *)
OwnersConcentrate ==
  outcome.coverage = "complete" => \A state \in {"current", "proposed"} :
    /\ AtMost(outcome[state].hhi, outcome[state].issuerHhi)
    /\ AtMost(outcome[state].top, outcome[state].issuerTop)

(* Never a quantity beside a value, in a state or in the comparison of two. *)
OneMeasure ==
  \E basis \in {"market", "quantity"} :
    /\ Stateless \/ basis = "market"
    /\ \A state \in {"current", "proposed"} : \A i \in DOMAIN RowsOf(state) :
         RowsOf(state)[i].basis = basis

(* "ready": some position has an owner, and lotus-core was not wanting; and
   nothing less is said of a whole answer for positions that have owners. *)
ReadyIsFounded ==
  LET owned == outcome.current.covered + outcome.proposed.covered
      total == outcome.current.total + outcome.proposed.total
      heard == IF Stateless THEN answer.kind \in {"none", "whole"}
               ELSE \E s \in DOMAIN answer.known : Key(answer.known[s]) # 0
  IN /\ outcome.state = "ready" <=> owned > 0 /\ heard
     /\ outcome.state = "empty" <=> total = 0
     /\ outcome.coverage = "unavailable" <=> owned = 0

(* A response tells the concentration of each state by itself, in one measure,
   and how far it knows the issuers (concentration/stateless_issuer_mapping.py,
   parsing.py, response_metrics.py, supportability_from_concentration_response). *)
ConcentrationIsTrue ==
  Responded =>
    /\ MeasuresAreTrue("current") /\ MeasuresAreTrue("proposed")
    /\ OwnersConcentrate /\ OneMeasure /\ ReadyIsFounded
    /\ (request.mode = "STATEFUL" \/ ~Supplied) => outcome.proposed = outcome.current

(* No answer about issuers keeps a stateless request from its response, and a
   whole snapshot of market values is served. *)
HonestSourcesAreServed ==
  (at = "done" /\ (IF Stateless THEN Admitted
                   ELSE /\ answer.kind = "whole"
                        /\ ~NoMarketValue(books.current) /\ ~NoMarketValue(Projected)))
  => Responded
=============================================================================
