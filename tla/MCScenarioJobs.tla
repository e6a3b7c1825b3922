--------------------------- MODULE MCScenarioJobs ---------------------------
(* Small instances of ScenarioJobs for TLC. *)
EXTENDS ScenarioJobs, TLC

CONSTANTS w1, w2, c1, c2, t1, t2, k1, k2, i1, i2, r1, r2, b1, b2

(* b2 ships another revision of i1's pack than b1 and cannot evaluate i2. *)
RollingCatalogue ==
  [b \in Builds |-> [i \in Inputs |-> IF b = b1 THEN r1 ELSE r2]]
RollingEvaluable == [b \in Builds |-> IF b = b1 THEN Inputs ELSE {i1}]

(* One build, one revision; i2 cannot be evaluated. *)
SteadyCatalogue == [b \in Builds |-> [i \in Inputs |-> r1]]
SteadyEvaluable == [b \in Builds |-> {i1}]

UnitLease == [w \in Workers |-> 1]
TwoRows   == [i \in Inputs |-> 2]

WorkerSymmetry == Permutations(Workers)
ClientSymmetry == Permutations(Clients)
=============================================================================
