------------------------- MODULE MCSimulationSession -------------------------
(* A small instance of SimulationSession for TLC. *)
EXTENDS SimulationSession, TLC

Renamings == Permutations(Callers) \cup Permutations(SessionIds) \cup Permutations(Keys)
=============================================================================
