---------------------------- MODULE JobLifecycle ----------------------------
(***************************************************************************)
(* What the durable scenario-evaluation jobs of lotus-risk promise their   *)
(* submitters, without processes, leases, tokens, locks or clocks: a job   *)
(* is admitted once for an owner (a tenant and its idempotency key) with   *)
(* its evaluation fixed, is started, ends once, either failed or with the  *)
(* whole evidence of that evaluation, and is purged with its evidence.     *)
(***************************************************************************)
EXTENDS Naturals

CONSTANTS
  JobIds, Owners, Evaluations,
  Evidence,       \* Evidence[j][e]: job j's contribution rows for evaluation e
  Nobody, Nothing \* the owner and the evaluation of a job that does not exist

VARIABLES
  phase,      \* job -> where its life stands
  owner,      \* job -> whom it was admitted for
  promised,   \* job -> the evaluation fixed at its admission
  result,     \* job -> its published aggregate
  evidence    \* job -> its published contribution rows

jvars == <<phase, owner, promised, result, evidence>>

Phases  == {"UNBORN", "QUEUED", "RUNNING", "SUCCEEDED", "FAILED", "PURGED"}
Present == {j \in JobIds : phase[j] \notin {"UNBORN", "PURGED"}}

Init ==
  /\ phase = [j \in JobIds |-> "UNBORN"]
  /\ owner = [j \in JobIds |-> Nobody]
  /\ promised = [j \in JobIds |-> Nothing]
  /\ result = [j \in JobIds |-> Nothing]
  /\ evidence = [j \in JobIds |-> {}]

(* An owner has one present job at most. *)
Admit(j, o, e) ==
  /\ phase[j] = "UNBORN"
  /\ \A l \in Present : owner[l] # o
  /\ phase' = [phase EXCEPT ![j] = "QUEUED"]
  /\ owner' = [owner EXCEPT ![j] = o]
  /\ promised' = [promised EXCEPT ![j] = e]
  /\ UNCHANGED <<result, evidence>>

Start(j) ==
  /\ phase[j] = "QUEUED"
  /\ phase' = [phase EXCEPT ![j] = "RUNNING"]
  /\ UNCHANGED <<owner, promised, result, evidence>>

(* The evidence is exactly that of the evaluation promised at admission. *)
Succeed(j) ==
  /\ phase[j] = "RUNNING"
  /\ phase' = [phase EXCEPT ![j] = "SUCCEEDED"]
  /\ result' = [result EXCEPT ![j] = promised[j]]
  /\ evidence' = [evidence EXCEPT ![j] = Evidence[j][promised[j]]]
  /\ UNCHANGED <<owner, promised>>

Fail(j) ==
  /\ phase[j] = "RUNNING"
  /\ phase' = [phase EXCEPT ![j] = "FAILED"]
  /\ UNCHANGED <<owner, promised, result, evidence>>

(* Jobs leave together, in any phase, and leave nothing behind. *)
Purge(D) ==
  /\ phase' = [j \in JobIds |-> IF j \in D THEN "PURGED" ELSE phase[j]]
  /\ owner' = [j \in JobIds |-> IF j \in D THEN Nobody ELSE owner[j]]
  /\ promised' = [j \in JobIds |-> IF j \in D THEN Nothing ELSE promised[j]]
  /\ result' = [j \in JobIds |-> IF j \in D THEN Nothing ELSE result[j]]
  /\ evidence' = [j \in JobIds |-> IF j \in D THEN {} ELSE evidence[j]]

Next ==
  \/ \E j \in JobIds :
       \/ \E o \in Owners, e \in Evaluations : Admit(j, o, e)
       \/ Start(j) \/ Succeed(j) \/ Fail(j)
  \/ \E D \in SUBSET Present : Purge(D)

Spec == Init /\ [][Next]_jvars
=============================================================================
