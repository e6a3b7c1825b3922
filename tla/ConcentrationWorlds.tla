------------------------- MODULE ConcentrationWorlds -------------------------
(***************************************************************************)
(* Requests to risk/concentration, with the positions and issuers behind   *)
(* them, for the model checker: two securities of two issuers of one       *)
(* parent, and a caller who says something else of either or nothing.      *)
(***************************************************************************)
EXTENDS Integers, Sequences, TLC

CONSTANT None

(* What the caller says: nothing, an issuer, or an issuer and its parent. *)
Identities == {<<0, 0>>, <<11, 0>>, <<11, 20>>}

Row(security, value, basis, identity) ==
  [security |-> security, value |-> value, basis |-> basis,
   legal |-> identity[1], parent |-> identity[2]]

Rows(values, identities) ==
  {Row(s, v, "market", i) : s \in {1, 2}, v \in values, i \in identities}

UpTo(n, rows) == UNION {[1..k -> rows] : k \in 0..n}

Known == (1 :> [legal |-> 12, parent |-> 20]) @@ (2 :> [legal |-> 13, parent |-> 20])

Policies == {"MERGE_CALLER_THEN_CORE", "USE_CALLER_ONLY", "CORE_ONLY"}

Groupings == {"ULTIMATE_PARENT", "LEGAL_ISSUER"}

World(mode, policy, grouping, mappings, client, current, projected) ==
  [request |-> [mode |-> mode, policy |-> policy, grouping |-> grouping, topN |-> 2,
                mappings |-> mappings, client |-> client],
   books   |-> [current |-> current, projected |-> projected, known |-> Known]]

Projections ==
  {None} \cup UpTo(1, Rows({0, 2}, {<<0, 0>>, <<11, 20>>}))

StatelessWorlds ==
  {World("STATELESS", p, g, <<>>, TRUE, current, projected) :
     p \in Policies, g \in Groupings, projected \in Projections,
     current \in UpTo(1, Rows({0, 2}, Identities))
                  \cup (Rows({2}, Identities) \X Rows({1, 2}, Identities))}

(* Three rows, of one security twice, and no lotus-core. *)
LongWorlds ==
  {World("STATELESS", "MERGE_CALLER_THEN_CORE", g, <<>>, FALSE, current, None) :
     g \in Groupings,
     current \in [1..3 -> Rows({1, 3}, {<<0, 0>>, <<11, 20>>})]}

(* Values, quantities and neither. *)
BasisWorlds ==
  LET rows == {Row(1, v, b, <<11, 0>>) : v \in {0, 1}, b \in {"market", "quantity", "none"}} IN
  {World("STATELESS", "USE_CALLER_ONLY", "LEGAL_ISSUER", <<>>, TRUE, current, projected) :
     current \in UpTo(2, rows), projected \in {None} \cup UpTo(1, rows)}

(* Rows of lotus-core: without a security, a value or anything positive too. *)
SnapshotRows ==
  Rows({1, 2}, {<<0, 0>>})
    \cup {Row(0, 1, "market", <<0, 0>>), Row(1, -1, "market", <<0, 0>>),
          Row(2, 1, "none", <<0, 0>>)}

Mappings ==
  {<<>>, <<Row(1, 0, "none", <<11, 20>>)>>,
   <<Row(2, 0, "none", <<12, 0>>), Row(1, 0, "none", <<11, 0>>)>>}

SnapshotWorlds ==
  {World("STATEFUL", p, g, m, TRUE, current, None) :
     p \in Policies, g \in Groupings, m \in Mappings, current \in UpTo(2, SnapshotRows)}
  \cup
  {World("SIMULATION", p, g, m, TRUE, current, projected) :
     p \in Policies, g \in Groupings, m \in Mappings,
     current \in UpTo(1, SnapshotRows), projected \in UpTo(2, SnapshotRows)}

Worlds == StatelessWorlds \cup LongWorlds \cup BasisWorlds \cup SnapshotWorlds
=============================================================================
