------------------------- MODULE MCScenarioJobReads -------------------------
(* Small instances of ScenarioJobReads for TLC. *)
EXTENDS ScenarioJobReads

CONSTANTS w1, c1, t1, t2, k1, i1, r1, b1, b2, caller

(* b2 has dropped the pack. *)
DroppedCatalogue ==
  [b \in Builds |-> [i \in Inputs |-> IF b = b1 THEN r1 ELSE NoRevision]]

OneEvaluable == [b \in Builds |-> Inputs]
UnitLease    == [w \in Workers |-> 1]
ThreeRows    == [i \in Inputs |-> 3]
=============================================================================
