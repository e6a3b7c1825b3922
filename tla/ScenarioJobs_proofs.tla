------------------------ MODULE ScenarioJobs_proofs ------------------------
(***************************************************************************)
(* Theorems about ScenarioJobs for any number of workers, clients, jobs,   *)
(* tenants and keys, any leases, clocks, builds and bounds.                *)
(*                                                                         *)
(* Base is inductive: the types, where each process is, and what it holds. *)
(* Every other invariant is proved relative to it.                         *)
(*                                                                         *)
(* Then about ScenarioJobReads, for any readers and any page limit.        *)
(* Readers change nothing, so what is proved of ScenarioJobs holds while   *)
(* they read.  ReaderInv says of one of them what its pages and its polls  *)
(* have shown it, beside the job as it is now.                             *)
(***************************************************************************)
EXTENDS ScenarioJobReads, FiniteSetTheorems, TLAPS

Locking == {"claimed", "recording", "purging"}
Working == {"evaluating", "deciding", "recording"}

(* The local state of a worker that its place in the code implies. *)
WorkerShape ==
  \A w \in Workers :
    /\ pc[w] \in WorkerSteps
    /\ pc[w] \notin Locking => held[w] = {}
    /\ pc[w] \in Working => claim[w] \in ClaimRecords
    /\ pc[w] \in {"deciding", "recording"} => verdict[w] \in VerdictsOf(build[w], claim[w])

(* The same of a request thread. *)
ClientShape ==
  \A c \in Clients :
    /\ pc[c] \in ClientSteps
    /\ pc[c] # "replaying" => held[c] = {}
    /\ pc[c] # "idle" => request[c] \in Requests
    /\ pc[c] = "created" => request[c].job \in JobIds

Base ==
  /\ TypeOK
  /\ WorkerShape
  /\ ClientShape
  /\ Live \subseteq usedIds
  /\ LockedReadsHold

-----------------------------------------------------------------------------
(* A reading of the clock is an instant. *)
LEMMA TimesAreInts == Times \subseteq Int
  BY ConfigurationAssumption DEF Times

(* A verdict is one of the three; a success needs the admitted revision. *)
LEMMA VerdictFacts ==
  ASSUME NEW b, NEW cl, NEW v \in VerdictsOf(b, cl)
  PROVE  /\ v \in Verdicts
         /\ v = "SUCCEEDED" => Catalogue[b][cl.input] = cl.revision
  BY DEF VerdictsOf, Verdicts, Failures

(* The row of an admission is a job row. *)
LEMMA QueuedRowType ==
  ASSUME NEW r \in Requests
  PROVE  QueuedRow(r) \in JobRows
  BY ConfigurationAssumption
  DEF QueuedRow, Requests, JobRows, NoToken, NoTime, NoFailure

(* The evidence of an evaluation is a set of contribution rows. *)
LEMMA EvidenceRowsType ==
  ASSUME NEW j \in JobIds, NEW e \in Evaluations
  PROVE  EvidenceRows(j, e) \subseteq ContributionRows
  BY CatalogueAssumption DEF EvidenceRows, ContributionRows, Evaluations

-----------------------------------------------------------------------------
(* The effects of the steps that write the table of jobs. *)

(* An admission adds one row under an id never drawn before. *)
LEMMA InsertEffect ==
  ASSUME Base, NEW c \in Clients, Insert(c)
  PROVE  /\ request[c] \in Requests
         /\ \E k \in JobIds \ usedIds :
              /\ usedIds' = usedIds \cup {k}
              /\ jobs' = [jobs EXCEPT ![k] = QueuedRow(request[c])]
              /\ jobs'[k] = QueuedRow(request[c]) /\ jobs'[k] \in JobRows
              /\ \A j \in JobIds \ {k} : jobs'[j] = jobs[j]
              /\ k \notin Live /\ Live' = Live \cup {k}
              /\ request' = [request EXCEPT ![c].job = k]
<1>1. request[c] \in Requests
  BY DEF Base, ClientShape, Insert
<1>2. PICK k \in JobIds \ usedIds :
        /\ usedIds' = usedIds \cup {k}
        /\ jobs' = [jobs EXCEPT ![k] = QueuedRow(request[c])]
        /\ request' = [request EXCEPT ![c].job = k]
  BY DEF Insert
<1>3. QueuedRow(request[c]) \in JobRows
  BY <1>1, QueuedRowType
<1>4. /\ jobs'[k] = QueuedRow(request[c])
      /\ \A j \in JobIds \ {k} : jobs'[j] = jobs[j]
  BY <1>2 DEF Base, TypeOK
<1>5. k \notin Live /\ Live' = Live \cup {k}
  BY <1>3, <1>4, SentinelAssumption DEF Base, Live
<1> QED
  BY <1>1, <1>2, <1>3, <1>4, <1>5

(* A claim rewrites the claimable row its transaction locked. *)
LEMMA ClaimEffect ==
  ASSUME Base, NEW w \in Workers, CommitClaim(w)
  PROVE  \E k \in Claimable(at[w]) :
           /\ k \in Live /\ jobs[k] \in JobRows /\ held[w] = {k}
           /\ jobs' = [jobs EXCEPT ![k] = ClaimedRow(k, w)]
           /\ jobs'[k] = ClaimedRow(k, w) /\ jobs'[k] \in JobRows
           /\ \A j \in JobIds \ {k} : jobs'[j] = jobs[j]
           /\ Live' = Live
           /\ claim' = [claim EXCEPT ![w] = ClaimRecord(k)]
           /\ claim'[w] = ClaimRecord(k) /\ claim'[w] \in ClaimRecords
           /\ \A v \in Workers \ {w} : claim'[v] = claim[v]
<1>0. TypeOK
  BY DEF Base
<1>1. PICK k \in Claimable(at[w]) : held[w] = {k}
  BY DEF Base, LockedReadsHold, CommitClaim
<1>2. k \in Live /\ k \in JobIds /\ jobs[k] \in JobRows
  BY <1>0, <1>1 DEF Claimable, Live, TypeOK
<1>3. nextToken \in Nat /\ at[w] + Lease[w] \in Int
  BY <1>0, ConfigurationAssumption DEF TypeOK
<1>4. ClaimedRow(k, w) \in JobRows
  <2> DEFINE lease == at[w] + Lease[w]  tries == jobs[k].attempts + 1
  <2>1. lease \in Int /\ tries \in Nat
    BY <1>2, <1>3 DEF JobRows
  <2> HIDE DEF lease, tries
  <2>2. [jobs[k] EXCEPT !.status = "RUNNING", !.token = nextToken,
           !.leaseExpiresAt = lease, !.attempts = tries, !.failure = NoFailure] \in JobRows
    BY <1>2, <1>3, <2>1 DEF JobRows
  <2> QED
    BY <2>2 DEF ClaimedRow, ClaimToken, lease, tries
<1>5. ClaimRecord(k) \in ClaimRecords
  BY <1>2, <1>3 DEF JobRows, ClaimRecords, ClaimRecord, ClaimToken
<1>6. /\ jobs' = [jobs EXCEPT ![k] = ClaimedRow(k, w)]
      /\ claim' = [claim EXCEPT ![w] = ClaimRecord(k)]
  BY <1>1 DEF CommitClaim
<1>7. /\ jobs'[k] = ClaimedRow(k, w) /\ claim'[w] = ClaimRecord(k)
      /\ \A j \in JobIds \ {k} : jobs'[j] = jobs[j]
      /\ \A v \in Workers \ {w} : claim'[v] = claim[v]
  BY <1>0, <1>2, <1>6 DEF TypeOK
<1>8. Live' = Live
  BY <1>2, <1>4, <1>7, SentinelAssumption DEF Live
<1> QED
  BY <1>1, <1>2, <1>4, <1>5, <1>6, <1>7, <1>8

(* An outcome rewrites the running row whose token the worker holds. *)
LEMMA OutcomeEffect ==
  ASSUME Base, NEW w \in Workers, CommitSuccess(w) \/ CommitFailure(w)
  PROVE  LET k == claim[w].job IN
         /\ claim[w] \in ClaimRecords /\ OwnsClaim(w) /\ held[w] = {k}
         /\ verdict[w] \in VerdictsOf(build[w], claim[w])
         /\ k \in Live /\ jobs[k] \in JobRows /\ jobs'[k] \in JobRows
         /\ CommitSuccess(w) => /\ jobs'[k] = SucceededRow(w)
                               /\ Computed(w) = Evaluation(claim[w].input, claim[w].revision)
                               /\ Computed(w) \in Evaluations
         /\ CommitFailure(w) => jobs'[k] = FailedRow(w)
         /\ \A j \in JobIds \ {k} : jobs'[j] = jobs[j]
         /\ Live' = Live
<1> DEFINE k == claim[w].job
<1>0. TypeOK
  BY DEF Base
<1>1. /\ claim[w] \in ClaimRecords /\ OwnsClaim(w) /\ held[w] = {k}
      /\ verdict[w] \in VerdictsOf(build[w], claim[w])
  BY DEF Base, CommitSuccess, CommitFailure, WorkerShape, Working, LockedReadsHold
<1>2. k \in JobIds /\ k \in Live /\ jobs[k] \in JobRows
  BY <1>0, <1>1 DEF ClaimRecords, OwnsClaim, TypeOK, Live
<1>3. CommitSuccess(w) => /\ Computed(w) = Evaluation(claim[w].input, claim[w].revision)
                          /\ Computed(w) \in Evaluations
  BY <1>1, VerdictFacts DEF CommitSuccess, Computed, Evaluation, Evaluations, ClaimRecords
<1>4. CommitSuccess(w) => SucceededRow(w) \in JobRows
  BY <1>0, <1>2, <1>3 DEF JobRows, TypeOK, SucceededRow
<1>5. CommitFailure(w) => FailedRow(w) \in JobRows
  BY <1>0, <1>2 DEF JobRows, TypeOK, CommitFailure, FailedRow
<1>6. /\ CommitSuccess(w) => jobs'[k] = SucceededRow(w)
      /\ CommitFailure(w) => jobs'[k] = FailedRow(w)
      /\ \A j \in JobIds \ {k} : jobs'[j] = jobs[j]
  BY <1>0, <1>2 DEF TypeOK, CommitSuccess, CommitFailure
<1>7. jobs'[k] \in JobRows
  BY <1>4, <1>5, <1>6
<1>8. Live' = Live
  BY <1>2, <1>6, <1>7, SentinelAssumption DEF Live
<1> QED
  BY <1>1, <1>2, <1>3, <1>6, <1>7, <1>8

(* A purge removes the rows its transaction locked and no other. *)
LEMMA PurgeEffect ==
  ASSUME Base, NEW w \in Workers, CommitPurge(w)
  PROVE  /\ held[w] \subseteq Expired(at[w])
         /\ \A j \in JobIds : jobs'[j] = IF j \in held[w] THEN NoJob ELSE jobs[j]
         /\ Live' = Live \ held[w]
  BY DEF Base, LockedReadsHold, CommitPurge, Live

(* The steps that write the tables. *)
LEMMA Writers ==
  ASSUME [Next]_vars
  PROVE  \/ \E c \in Clients : Insert(c)
         \/ \E w \in Workers : \/ CommitClaim(w) \/ CommitSuccess(w)
                               \/ CommitFailure(w) \/ CommitPurge(w)
         \/ UNCHANGED <<jobs, contributions, usedIds>>
  BY DEF Next, Serve, WorkerStep, Process, Sweep, store, local, vars, Submit,
      InsertConflict, Refresh, RereadKey, Replay, LoseRequest, WakeUp, SelectClaim,
      Evaluate, LockClaim, StartSweep, SelectExpired, Crash, Restart, Tick

(* The initial states. *)
LEMMA BaseInit == Init => Base
<1> SUFFICES ASSUME Init PROVE Base
  OBVIOUS
<1> USE DEF Init
<1>1. Live = {}
  BY DEF Live
<1>2. TypeOK
  BY ProcessAssumption DEF TypeOK, WorkerSteps, ClientSteps, Processes, NoTime
<1>3. WorkerShape
  BY ProcessAssumption DEF WorkerShape, Locking, Working, WorkerSteps, Processes
<1>4. ClientShape
  BY ProcessAssumption DEF ClientShape, ClientSteps, Processes
<1>5. LockedReadsHold
  BY ProcessAssumption DEF LockedReadsHold, Processes
<1> QED
  BY <1>1, <1>2, <1>3, <1>4, <1>5 DEF Base

-----------------------------------------------------------------------------
(* Types are preserved. *)
LEMMA TypeStep == Base /\ [Next]_vars => TypeOK'
<1> SUFFICES ASSUME Base, [Next]_vars PROVE TypeOK'
  OBVIOUS
<1> USE DEF store, local
<1>0. TypeOK /\ WorkerShape /\ ClientShape /\ LockedReadsHold
  BY DEF Base
<1>1. ASSUME NEW c \in Clients, Submit(c) PROVE TypeOK'
  <2>1. PICK t \in Tenants, k \in Keys, i \in Inputs, b \in Builds, m \in Times :
          /\ Catalogue[b][i] # NoRevision
          /\ request' = [request EXCEPT ![c] =
               [tenant |-> t, key |-> k, input |-> i, revision |-> Catalogue[b][i],
                at |-> m, job |-> NoJob]]
    BY <1>1 DEF Submit
  <2>2. [tenant |-> t, key |-> k, input |-> i, revision |-> Catalogue[b][i],
         at |-> m, job |-> NoJob] \in Requests
    BY <2>1, TimesAreInts, CatalogueAssumption DEF Requests
  <2> QED
    BY <1>0, <1>1, <2>1, <2>2 DEF TypeOK, Submit, ClientSteps, Processes
<1>2. ASSUME NEW c \in Clients, Insert(c) PROVE TypeOK'
  <2>1. PICK k \in JobIds \ usedIds :
          /\ request[c] \in Requests
          /\ usedIds' = usedIds \cup {k}
          /\ jobs' = [jobs EXCEPT ![k] = QueuedRow(request[c])]
          /\ QueuedRow(request[c]) \in JobRows
          /\ request' = [request EXCEPT ![c].job = k]
    BY <1>2, InsertEffect
  <2>2. [request[c] EXCEPT !.job = k] \in Requests
    BY <2>1 DEF Requests
  <2> QED
    BY <1>0, <1>2, <2>1, <2>2 DEF TypeOK, Insert, ClientSteps, Processes
<1>3. ASSUME NEW c \in Clients, InsertConflict(c) PROVE TypeOK'
  BY <1>0, <1>3 DEF TypeOK, InsertConflict, ClientSteps, Processes
<1>4. ASSUME NEW c \in Clients, Refresh(c) PROVE TypeOK'
  <2>1. request[c] \in Requests /\ request[c].job \in JobIds
    BY <1>0, <1>4 DEF ClientShape, Refresh
  <2>2. answers' \subseteq Answers
    BY <1>0, <1>4, <2>1 DEF TypeOK, Refresh, Answer, Answers, Requests
  <2> QED
    BY <1>0, <1>4, <2>2 DEF TypeOK, Refresh, EndRequest, ClientSteps, Processes
<1>5. ASSUME NEW c \in Clients, RereadKey(c) PROVE TypeOK'
  BY <1>0, <1>5 DEF TypeOK, RereadKey, EndRequest, ClientSteps, Processes, KeyRows, Live
<1>6. ASSUME NEW c \in Clients, Replay(c) PROVE TypeOK'
  <2>1. request[c] \in Requests
    BY <1>0, <1>6 DEF ClientShape, Replay
  <2>2. answers' \subseteq Answers
    BY <1>0, <1>6, <2>1 DEF TypeOK, Replay, Answer, Answers, Requests, Processes
  <2> QED
    BY <1>0, <1>6, <2>2 DEF TypeOK, Replay, EndRequest, ClientSteps, Processes
<1>7. ASSUME NEW c \in Clients, LoseRequest(c) PROVE TypeOK'
  BY <1>0, <1>7 DEF TypeOK, LoseRequest, EndRequest, ClientSteps, Processes
<1>8. ASSUME NEW w \in Workers, WakeUp(w) PROVE TypeOK'
  BY <1>0, <1>8, TimesAreInts DEF TypeOK, WakeUp, WorkerSteps, Processes
<1>9. ASSUME NEW w \in Workers, SelectClaim(w) PROVE TypeOK'
  BY <1>0, <1>9
  DEF TypeOK, SelectClaim, SkipLocked, Claimable, Live, WorkerSteps, Processes
<1>10. ASSUME NEW w \in Workers, CommitClaim(w) PROVE TypeOK'
  <2>1. PICK k \in JobIds :
          /\ jobs' = [jobs EXCEPT ![k] = ClaimedRow(k, w)] /\ ClaimedRow(k, w) \in JobRows
          /\ claim' = [claim EXCEPT ![w] = ClaimRecord(k)] /\ ClaimRecord(k) \in ClaimRecords
    BY <1>10, ClaimEffect DEF Claimable, Live
  <2>2. nextToken + 1 \in Nat \ {0}
    BY <1>0 DEF TypeOK
  <2> QED
    BY <1>0, <1>10, <2>1, <2>2 DEF TypeOK, CommitClaim, WorkerSteps, Processes
<1>11. ASSUME NEW w \in Workers, Evaluate(w) PROVE TypeOK'
  BY <1>0, <1>11, VerdictFacts, TimesAreInts DEF TypeOK, Evaluate, WorkerSteps, Processes
<1>12. ASSUME NEW w \in Workers, LockClaim(w) PROVE TypeOK'
  BY <1>0, <1>12
  DEF TypeOK, LockClaim, WorkerShape, Working, ClaimRecords, WorkerSteps, Processes
<1>13. ASSUME NEW w \in Workers, CommitSuccess(w) PROVE TypeOK'
  <2>1. /\ claim[w].job \in JobIds /\ Computed(w) \in Evaluations
        /\ SucceededRow(w) \in JobRows
    BY <1>13, OutcomeEffect DEF Live
  <2>2. EvidenceRows(claim[w].job, Computed(w)) \subseteq ContributionRows
    BY <2>1, EvidenceRowsType
  <2> QED
    BY <1>0, <1>13, <2>1, <2>2 DEF TypeOK, CommitSuccess, WorkerSteps, Processes
<1>14. ASSUME NEW w \in Workers, CommitFailure(w) PROVE TypeOK'
  <2>1. FailedRow(w) \in JobRows
    BY <1>14, OutcomeEffect DEF Live
  <2> QED
    BY <1>0, <1>14, <2>1 DEF TypeOK, CommitFailure, WorkerSteps, Processes
<1>15. ASSUME NEW w \in Workers, StartSweep(w) PROVE TypeOK'
  BY <1>0, <1>15, TimesAreInts DEF TypeOK, StartSweep, WorkerSteps, Processes
<1>16. ASSUME NEW w \in Workers, SelectExpired(w) PROVE TypeOK'
  BY <1>0, <1>16
  DEF TypeOK, SelectExpired, Expired, SkipLocked, Live, WorkerSteps, Processes, NoTime
<1>17. ASSUME NEW w \in Workers, CommitPurge(w) PROVE TypeOK'
  BY <1>0, <1>17
  DEF TypeOK, CommitPurge, OtherContributions, WorkerSteps, Processes, NoTime
<1>18. ASSUME NEW w \in Workers, Crash(w) PROVE TypeOK'
  BY <1>0, <1>18 DEF TypeOK, Crash, WorkerSteps, Processes, NoTime
<1>19. ASSUME NEW w \in Workers, Restart(w) PROVE TypeOK'
  BY <1>0, <1>19 DEF TypeOK, Restart, WorkerSteps, Processes
<1>20. CASE Tick
  BY <1>0, <1>20 DEF TypeOK, Tick
<1>21. CASE UNCHANGED vars
  BY <1>0, <1>21 DEF TypeOK, vars
<1> QED
  BY <1>1, <1>2, <1>3, <1>4, <1>5, <1>6, <1>7, <1>8, <1>9, <1>10, <1>11, <1>12, <1>13,
     <1>14, <1>15, <1>16, <1>17, <1>18, <1>19, <1>20, <1>21
  DEF Next, Serve, WorkerStep, Process, Sweep

-----------------------------------------------------------------------------
(* What the places of the processes imply is preserved. *)
LEMMA ShapeStep == Base /\ [Next]_vars => WorkerShape' /\ ClientShape'
<1> SUFFICES ASSUME Base, [Next]_vars PROVE WorkerShape' /\ ClientShape'
  OBVIOUS
<1> USE DEF store, local, Locking, Working, WorkerSteps, ClientSteps, Processes
<1>0. TypeOK /\ WorkerShape /\ ClientShape /\ LockedReadsHold /\ TypeOK'
  BY TypeStep DEF Base
<1>1. ASSUME NEW c \in Clients, Submit(c) PROVE WorkerShape' /\ ClientShape'
  <2>1. /\ request'[c] \in Requests
        /\ \A d \in Clients \ {c} : request'[d] = request[d]
    <3>1. request'[c] # NoRequest
      BY <1>0, <1>1, SentinelAssumption, CatalogueAssumption, TimesAreInts
      DEF Submit, TypeOK, Requests
    <3> QED
      BY <1>0, <1>1, <3>1 DEF Submit, TypeOK
  <2> QED
    BY <1>0, <1>1, <2>1, ProcessAssumption DEF Submit, TypeOK, WorkerShape, ClientShape
<1>2. ASSUME NEW c \in Clients, Insert(c) PROVE WorkerShape' /\ ClientShape'
  BY <1>0, <1>2, ProcessAssumption DEF Insert, TypeOK, WorkerShape, ClientShape, Requests
<1>3. ASSUME NEW c \in Clients, InsertConflict(c) PROVE WorkerShape' /\ ClientShape'
  BY <1>0, <1>3, ProcessAssumption DEF InsertConflict, TypeOK, WorkerShape, ClientShape
<1>4. ASSUME NEW c \in Clients, Refresh(c) PROVE WorkerShape' /\ ClientShape'
  BY <1>0, <1>4, ProcessAssumption DEF Refresh, EndRequest, TypeOK, WorkerShape, ClientShape
<1>5. ASSUME NEW c \in Clients, RereadKey(c) PROVE WorkerShape' /\ ClientShape'
  BY <1>0, <1>5, ProcessAssumption DEF RereadKey, EndRequest, TypeOK, WorkerShape, ClientShape
<1>6. ASSUME NEW c \in Clients, Replay(c) PROVE WorkerShape' /\ ClientShape'
  BY <1>0, <1>6, ProcessAssumption DEF Replay, EndRequest, TypeOK, WorkerShape, ClientShape
<1>7. ASSUME NEW c \in Clients, LoseRequest(c) PROVE WorkerShape' /\ ClientShape'
  BY <1>0, <1>7, ProcessAssumption
  DEF LoseRequest, EndRequest, TypeOK, WorkerShape, ClientShape
<1>8. ASSUME NEW w \in Workers, WakeUp(w) PROVE WorkerShape' /\ ClientShape'
  BY <1>0, <1>8, ProcessAssumption DEF WakeUp, TypeOK, WorkerShape, ClientShape
<1>9. ASSUME NEW w \in Workers, SelectClaim(w) PROVE WorkerShape' /\ ClientShape'
  BY <1>0, <1>9, ProcessAssumption DEF SelectClaim, TypeOK, WorkerShape, ClientShape
<1>10. ASSUME NEW w \in Workers, CommitClaim(w) PROVE WorkerShape' /\ ClientShape'
  <2>1. claim'[w] \in ClaimRecords /\ \A v \in Workers \ {w} : claim'[v] = claim[v]
    BY <1>10, ClaimEffect
  <2> QED
    BY <1>0, <1>10, <2>1, ProcessAssumption DEF CommitClaim, TypeOK, WorkerShape, ClientShape
<1>11. ASSUME NEW w \in Workers, Evaluate(w) PROVE WorkerShape' /\ ClientShape'
  BY <1>0, <1>11, ProcessAssumption
  DEF Evaluate, TypeOK, WorkerShape, ClientShape
<1>12. ASSUME NEW w \in Workers, LockClaim(w) PROVE WorkerShape' /\ ClientShape'
  BY <1>0, <1>12, ProcessAssumption DEF LockClaim, TypeOK, WorkerShape, ClientShape
<1>13. ASSUME NEW w \in Workers, CommitSuccess(w) PROVE WorkerShape' /\ ClientShape'
  BY <1>0, <1>13, ProcessAssumption DEF CommitSuccess, TypeOK, WorkerShape, ClientShape
<1>14. ASSUME NEW w \in Workers, CommitFailure(w) PROVE WorkerShape' /\ ClientShape'
  BY <1>0, <1>14, ProcessAssumption DEF CommitFailure, TypeOK, WorkerShape, ClientShape
<1>15. ASSUME NEW w \in Workers, StartSweep(w) PROVE WorkerShape' /\ ClientShape'
  BY <1>0, <1>15, ProcessAssumption DEF StartSweep, TypeOK, WorkerShape, ClientShape
<1>16. ASSUME NEW w \in Workers, SelectExpired(w) PROVE WorkerShape' /\ ClientShape'
  BY <1>0, <1>16, ProcessAssumption DEF SelectExpired, TypeOK, WorkerShape, ClientShape
<1>17. ASSUME NEW w \in Workers, CommitPurge(w) PROVE WorkerShape' /\ ClientShape'
  BY <1>0, <1>17, ProcessAssumption DEF CommitPurge, TypeOK, WorkerShape, ClientShape
<1>18. ASSUME NEW w \in Workers, Crash(w) PROVE WorkerShape' /\ ClientShape'
  BY <1>0, <1>18, ProcessAssumption DEF Crash, TypeOK, WorkerShape, ClientShape
<1>19. ASSUME NEW w \in Workers, Restart(w) PROVE WorkerShape' /\ ClientShape'
  BY <1>0, <1>19, ProcessAssumption DEF Restart, TypeOK, WorkerShape, ClientShape
<1>20. CASE Tick
  BY <1>0, <1>20 DEF Tick, WorkerShape, ClientShape
<1>21. CASE UNCHANGED vars
  BY <1>0, <1>21 DEF vars, WorkerShape, ClientShape
<1> QED
  BY <1>1, <1>2, <1>3, <1>4, <1>5, <1>6, <1>7, <1>8, <1>9, <1>10, <1>11, <1>12, <1>13,
     <1>14, <1>15, <1>16, <1>17, <1>18, <1>19, <1>20, <1>21
  DEF Next, Serve, WorkerStep, Process, Sweep

-----------------------------------------------------------------------------
(* What a step of process p leaves of the others: their places and locks, the
   rows they hold, and the values they use under their locks. *)
OthersKept(p) ==
  /\ \A q \in Processes \ {p} :
       /\ pc'[q] = pc[q]
       /\ held'[q] = held[q]
       /\ held'[p] \cap held[q] = {}
       /\ \A j \in held[q] : jobs'[j] = jobs[j]
  /\ \A w \in Workers \ {p} : at'[w] = at[w] /\ claim'[w] = claim[w]
  /\ \A c \in Clients \ {p} : request'[c] = request[c]

(* What LockedReadsHold says of p itself. *)
OwnReads(p) ==
  /\ p \in Workers =>
       /\ pc[p] = "claimed" => \E j \in Claimable(at[p]) : held[p] = {j}
       /\ pc[p] = "recording" => OwnsClaim(p) /\ held[p] = {claim[p].job}
       /\ pc[p] = "purging" => held[p] \subseteq Expired(at[p])
  /\ p \in Clients => (pc[p] = "replaying" =>
       \E j \in KeyRows(request[p].tenant, request[p].key) : held[p] = {j})

(* A step that keeps the others keeps what they read under their locks. *)
LEMMA LockFrame ==
  ASSUME Base, NEW p \in Processes, OthersKept(p), OwnReads(p)'
  PROVE  LockedReadsHold'
<1>0. LockedReadsHold
  BY DEF Base
<1>1. \A q, r \in Processes : q # r => held'[q] \cap held'[r] = {}
  BY <1>0 DEF OthersKept, LockedReadsHold
<1>2. ASSUME NEW w \in Workers PROVE OwnReads(w)'
  <2>1. CASE w = p
    BY <2>1
  <2>2. CASE w # p
    <3>1. /\ pc'[w] = pc[w] /\ held'[w] = held[w]
          /\ at'[w] = at[w] /\ claim'[w] = claim[w]
          /\ \A j \in held[w] : jobs'[j] = jobs[j]
      BY <2>2 DEF OthersKept, Processes
    <3>2. w \notin Clients
      BY ProcessAssumption
    <3> QED
      BY <1>0, <3>1, <3>2
      DEF OwnReads, LockedReadsHold, Claimable, Expired, OwnsClaim, Live
  <2> QED
    BY <2>1, <2>2
<1>3. ASSUME NEW c \in Clients PROVE OwnReads(c)'
  <2>1. CASE c = p
    BY <2>1
  <2>2. CASE c # p
    <3>1. /\ pc'[c] = pc[c] /\ held'[c] = held[c] /\ request'[c] = request[c]
          /\ \A j \in held[c] : jobs'[j] = jobs[j]
      BY <2>2 DEF OthersKept, Processes
    <3>2. c \notin Workers
      BY ProcessAssumption
    <3> QED
      BY <1>0, <3>1, <3>2 DEF OwnReads, LockedReadsHold, KeyRows, Live
  <2> QED
    BY <2>1, <2>2
<1> QED
  BY <1>1, <1>2, <1>3 DEF LockedReadsHold, OwnReads

(* Locked rows exist. *)
LEMMA HeldIsLive == Base => Held \subseteq Live
  BY DEF Base, Held, LockedReadsHold, WorkerShape, ClientShape, Processes, Locking,
         Claimable, Expired, KeyRows, OwnsClaim, Live, TypeOK

(* Ids of rows are never drawn again. *)
LEMMA LiveStep == Base /\ [Next]_vars => Live' \subseteq usedIds'
<1> SUFFICES ASSUME Base, [Next]_vars PROVE Live' \subseteq usedIds'
  OBVIOUS
<1>0. TypeOK /\ Live \subseteq usedIds /\ Held \subseteq Live
  BY HeldIsLive DEF Base
<1>1. ASSUME NEW c \in Clients, Insert(c) PROVE Live' \subseteq usedIds'
  BY <1>0, <1>1 DEF Insert, Live, TypeOK
<1>2. ASSUME NEW w \in Workers, CommitClaim(w) PROVE Live' \subseteq usedIds'
  BY <1>0, <1>2 DEF CommitClaim, Live, TypeOK, Held, Processes
<1>3. ASSUME NEW w \in Workers, CommitSuccess(w) \/ CommitFailure(w)
      PROVE Live' \subseteq usedIds'
  <2>1. claim[w].job \in Live
    BY <1>3 DEF Base, LockedReadsHold, WorkerShape, Working, OwnsClaim, CommitSuccess,
                CommitFailure, ClaimRecords, Live
  <2> QED
    BY <1>0, <1>3, <2>1 DEF CommitSuccess, CommitFailure, Live, TypeOK
<1>4. ASSUME NEW w \in Workers, CommitPurge(w) PROVE Live' \subseteq usedIds'
  BY <1>0, <1>4 DEF CommitPurge, Live, TypeOK
<1>5. CASE UNCHANGED <<jobs, usedIds>>
  BY <1>0, <1>5 DEF Live
<1> QED
  BY <1>1, <1>2, <1>3, <1>4, <1>5
  DEF Next, Serve, WorkerStep, Process, Sweep, store, local, vars, Submit, InsertConflict,
      Refresh, RereadKey, Replay, LoseRequest, WakeUp, SelectClaim, Evaluate, LockClaim,
      StartSweep, SelectExpired, Crash, Restart, Tick

-----------------------------------------------------------------------------
(* What is read under row locks holds until the transaction ends. *)
LEMMA LockStep == Base /\ [Next]_vars => LockedReadsHold'
<1> SUFFICES ASSUME Base, [Next]_vars PROVE LockedReadsHold'
  OBVIOUS
<1> USE DEF store, local, Processes
<1>0. /\ TypeOK /\ WorkerShape /\ ClientShape /\ LockedReadsHold
      /\ Held \subseteq Live /\ Live \subseteq usedIds
  BY HeldIsLive DEF Base
<1>1. ASSUME NEW c \in Clients, Submit(c) PROVE LockedReadsHold'
  <2>1. OthersKept(c) /\ OwnReads(c)'
    BY <1>0, <1>1, ProcessAssumption DEF Submit, OthersKept, OwnReads, TypeOK, ClientShape
  <2> QED
    BY <2>1, LockFrame
<1>2. ASSUME NEW c \in Clients, InsertConflict(c) PROVE LockedReadsHold'
  <2>1. OthersKept(c) /\ OwnReads(c)'
    BY <1>0, <1>2, ProcessAssumption DEF InsertConflict, OthersKept, OwnReads, TypeOK, ClientShape
  <2> QED
    BY <2>1, LockFrame
<1>3. ASSUME NEW c \in Clients, Refresh(c) PROVE LockedReadsHold'
  <2>1. OthersKept(c) /\ OwnReads(c)'
    BY <1>0, <1>3, ProcessAssumption DEF Refresh, EndRequest, OthersKept, OwnReads, TypeOK, ClientShape
  <2> QED
    BY <2>1, LockFrame
<1>4. ASSUME NEW c \in Clients, Replay(c) PROVE LockedReadsHold'
  <2>1. OthersKept(c) /\ OwnReads(c)'
    BY <1>0, <1>4, ProcessAssumption DEF Replay, EndRequest, OthersKept, OwnReads, TypeOK, ClientShape
  <2> QED
    BY <2>1, LockFrame
<1>5. ASSUME NEW c \in Clients, LoseRequest(c) PROVE LockedReadsHold'
  <2>1. OthersKept(c) /\ OwnReads(c)'
    BY <1>0, <1>5, ProcessAssumption DEF LoseRequest, EndRequest, OthersKept, OwnReads, TypeOK, ClientShape
  <2> QED
    BY <2>1, LockFrame
<1>6. ASSUME NEW c \in Clients, Insert(c) PROVE LockedReadsHold'
  <2>1. OthersKept(c)
    BY <1>0, <1>6, ProcessAssumption DEF Insert, OthersKept, TypeOK, ClientShape, Held
  <2>2. OwnReads(c)'
    BY <1>0, <1>6, ProcessAssumption DEF Insert, OwnReads, TypeOK
  <2> QED
    BY <2>1, <2>2, LockFrame
<1>7. ASSUME NEW c \in Clients, RereadKey(c) PROVE LockedReadsHold'
  <2>1. OthersKept(c)
    BY <1>0, <1>7, ProcessAssumption
    DEF RereadKey, EndRequest, OthersKept, TypeOK, ClientShape, Held
  <2>2. OwnReads(c)'
    BY <1>0, <1>7, ProcessAssumption
    DEF RereadKey, EndRequest, OwnReads, TypeOK, KeyRows, Live
  <2> QED
    BY <2>1, <2>2, LockFrame
<1>8. ASSUME NEW w \in Workers, WakeUp(w) PROVE LockedReadsHold'
  <2>1. OthersKept(w) /\ OwnReads(w)'
    BY <1>0, <1>8, ProcessAssumption
    DEF WakeUp, OthersKept, OwnReads, TypeOK, WorkerShape, Locking
  <2> QED
    BY <2>1, LockFrame
<1>9. ASSUME NEW w \in Workers, Evaluate(w) PROVE LockedReadsHold'
  <2>1. OthersKept(w) /\ OwnReads(w)'
    BY <1>0, <1>9, ProcessAssumption
    DEF Evaluate, OthersKept, OwnReads, TypeOK, WorkerShape, Locking
  <2> QED
    BY <2>1, LockFrame
<1>10. ASSUME NEW w \in Workers, StartSweep(w) PROVE LockedReadsHold'
  <2>1. OthersKept(w) /\ OwnReads(w)'
    BY <1>0, <1>10, ProcessAssumption
    DEF StartSweep, OthersKept, OwnReads, TypeOK, WorkerShape, Locking
  <2> QED
    BY <2>1, LockFrame
<1>11. ASSUME NEW w \in Workers, Crash(w) PROVE LockedReadsHold'
  <2>1. OthersKept(w) /\ OwnReads(w)'
    BY <1>0, <1>11, ProcessAssumption
    DEF Crash, OthersKept, OwnReads, TypeOK, WorkerShape, Locking
  <2> QED
    BY <2>1, LockFrame
<1>12. ASSUME NEW w \in Workers, Restart(w) PROVE LockedReadsHold'
  <2>1. OthersKept(w) /\ OwnReads(w)'
    BY <1>0, <1>12, ProcessAssumption
    DEF Restart, OthersKept, OwnReads, TypeOK, WorkerShape, Locking
  <2> QED
    BY <2>1, LockFrame
<1>13. ASSUME NEW w \in Workers, SelectClaim(w) PROVE LockedReadsHold'
  <2>1. OthersKept(w)
    BY <1>0, <1>13, ProcessAssumption
    DEF SelectClaim, SkipLocked, OthersKept, TypeOK, WorkerShape, Locking, Held
  <2>2. OwnReads(w)'
    BY <1>0, <1>13, ProcessAssumption DEF SelectClaim, OwnReads, TypeOK, SkipLocked, Claimable, Live
  <2> QED
    BY <2>1, <2>2, LockFrame
<1>14. ASSUME NEW w \in Workers, LockClaim(w) PROVE LockedReadsHold'
  <2>1. OthersKept(w)
    BY <1>0, <1>14, ProcessAssumption
    DEF LockClaim, SkipLocked, OthersKept, TypeOK, WorkerShape, Locking, Held
  <2>2. OwnReads(w)'
    BY <1>0, <1>14, ProcessAssumption DEF LockClaim, OwnReads, TypeOK, OwnsClaim, Live
  <2> QED
    BY <2>1, <2>2, LockFrame
<1>15. ASSUME NEW w \in Workers, SelectExpired(w) PROVE LockedReadsHold'
  <2>1. OthersKept(w)
    BY <1>0, <1>15, ProcessAssumption
    DEF SelectExpired, SkipLocked, OthersKept, TypeOK, WorkerShape, Locking, Held
  <2>2. OwnReads(w)'
    BY <1>0, <1>15, ProcessAssumption DEF SelectExpired, OwnReads, TypeOK, SkipLocked, Expired, Live
  <2> QED
    BY <2>1, <2>2, LockFrame
<1>16. ASSUME NEW w \in Workers, CommitClaim(w) PROVE LockedReadsHold'
  <2>1. \A q \in Processes \ {w} : \A j \in held[q] : jobs'[j] = jobs[j]
    BY <1>0, <1>16 DEF CommitClaim, TypeOK, LockedReadsHold
  <2>2. OthersKept(w) /\ OwnReads(w)'
    BY <1>0, <1>16, <2>1, ProcessAssumption DEF CommitClaim, OthersKept, OwnReads, TypeOK
  <2> QED
    BY <2>2, LockFrame
<1>17. ASSUME NEW w \in Workers, CommitSuccess(w) PROVE LockedReadsHold'
  <2>1. \A q \in Processes \ {w} : \A j \in held[q] : jobs'[j] = jobs[j]
    BY <1>0, <1>17 DEF CommitSuccess, TypeOK, LockedReadsHold
  <2>2. OthersKept(w) /\ OwnReads(w)'
    BY <1>0, <1>17, <2>1, ProcessAssumption DEF CommitSuccess, OthersKept, OwnReads, TypeOK
  <2> QED
    BY <2>2, LockFrame
<1>18. ASSUME NEW w \in Workers, CommitFailure(w) PROVE LockedReadsHold'
  <2>1. \A q \in Processes \ {w} : \A j \in held[q] : jobs'[j] = jobs[j]
    BY <1>0, <1>18 DEF CommitFailure, TypeOK, LockedReadsHold
  <2>2. OthersKept(w) /\ OwnReads(w)'
    BY <1>0, <1>18, <2>1, ProcessAssumption DEF CommitFailure, OthersKept, OwnReads, TypeOK
  <2> QED
    BY <2>2, LockFrame
<1>19. ASSUME NEW w \in Workers, CommitPurge(w) PROVE LockedReadsHold'
  <2>1. \A q \in Processes \ {w} : \A j \in held[q] : jobs'[j] = jobs[j]
    BY <1>0, <1>19 DEF CommitPurge, TypeOK, LockedReadsHold
  <2>2. OthersKept(w) /\ OwnReads(w)'
    BY <1>0, <1>19, <2>1, ProcessAssumption DEF CommitPurge, OthersKept, OwnReads, TypeOK
  <2> QED
    BY <2>2, LockFrame
<1>20. CASE Tick \/ UNCHANGED vars
  BY <1>0, <1>20 DEF Tick, vars, LockedReadsHold, Claimable, Expired, OwnsClaim, KeyRows, Live
<1> QED
  BY <1>1, <1>2, <1>3, <1>4, <1>5, <1>6, <1>7, <1>8, <1>9, <1>10, <1>11, <1>12, <1>13,
     <1>14, <1>15, <1>16, <1>17, <1>18, <1>19, <1>20
  DEF Next, Serve, WorkerStep, Process, Sweep

(* Base is an invariant. *)
LEMMA BaseInvariant == Spec => []Base
<1>1. Base /\ [Next]_vars => Base'
  BY TypeStep, ShapeStep, LiveStep, LockStep DEF Base
<1> QED
  BY BaseInit, <1>1, PTL DEF Spec

(* Every state of every execution is one the tables, the processes and the
   clock can be in. *)
THEOREM TypeCorrect == Spec => []TypeOK
<1>1. Base => TypeOK
  BY DEF Base
<1> QED
  BY BaseInvariant, <1>1, PTL

(* What a transaction read under its row locks is what it commits on. *)
THEOREM LockedReadsAreStable == Spec => []LockedReadsHold
<1>1. Base => LockedReadsHold
  BY DEF Base
<1> QED
  BY BaseInvariant, <1>1, PTL

-----------------------------------------------------------------------------
(* What a job was admitted with. *)
Admission(j) == <<jobs[j].tenant, jobs[j].key, jobs[j].input, jobs[j].revision,
                  jobs[j].submittedAt, jobs[j].expiresAt>>

(* Only Insert adds a row, and no step changes what a job was admitted with. *)
LEMMA AdmissionStep ==
  ASSUME Base, [Next]_vars
  PROVE  /\ \A j \in JobIds : j \in Live /\ jobs'[j] # NoJob => Admission(j)' = Admission(j)
         /\ \A j \in JobIds : j \notin Live /\ jobs'[j] # NoJob =>
              \E c \in Clients : /\ Insert(c) /\ j \notin usedIds
                                /\ jobs' = [jobs EXCEPT ![j] = QueuedRow(request[c])]
                                /\ request' = [request EXCEPT ![c].job = j]
<1> DEFINE Fixed == \A j \in JobIds :
                      j \in Live /\ jobs'[j] # NoJob => Admission(j)' = Admission(j)
           Added == \A j \in JobIds : j \notin Live /\ jobs'[j] # NoJob =>
              \E c \in Clients : /\ Insert(c) /\ j \notin usedIds
                                /\ jobs' = [jobs EXCEPT ![j] = QueuedRow(request[c])]
                                /\ request' = [request EXCEPT ![c].job = j]
<1>0. TypeOK /\ Live \subseteq usedIds
  BY DEF Base
<1>1. ASSUME NEW c \in Clients, Insert(c) PROVE Fixed /\ Added
  <2>1. PICK k \in JobIds \ usedIds :
          /\ jobs' = [jobs EXCEPT ![k] = QueuedRow(request[c])]
          /\ request' = [request EXCEPT ![c].job = k]
          /\ k \notin Live
          /\ \A j \in JobIds \ {k} : jobs'[j] = jobs[j]
    BY <1>1, InsertEffect
  <2>2. Fixed
    BY <2>1 DEF Admission
  <2>3. Added
    BY <1>1, <2>1 DEF Live
  <2> QED
    BY <2>2, <2>3
<1>2. ASSUME NEW w \in Workers, CommitClaim(w) PROVE Fixed /\ Added
  <2>1. PICK k \in Live : /\ jobs[k] \in JobRows /\ jobs'[k] = ClaimedRow(k, w)
                          /\ \A j \in JobIds \ {k} : jobs'[j] = jobs[j]
    BY <1>2, ClaimEffect
  <2>2. Admission(k)' = Admission(k)
    BY <2>1 DEF ClaimedRow, JobRows, Admission
  <2> QED
    BY <2>1, <2>2 DEF Live, Admission
<1>3. ASSUME NEW w \in Workers, CommitSuccess(w) \/ CommitFailure(w) PROVE Fixed /\ Added
  <2>1. PICK k \in Live : /\ jobs[k] \in JobRows /\ k = claim[w].job
                          /\ jobs'[k] = SucceededRow(w) \/ jobs'[k] = FailedRow(w)
                          /\ \A j \in JobIds \ {k} : jobs'[j] = jobs[j]
    BY <1>3, OutcomeEffect
  <2>2. Admission(k)' = Admission(k)
    BY <2>1 DEF SucceededRow, FailedRow, JobRows, Admission
  <2> QED
    BY <2>1, <2>2 DEF Live, Admission
<1>4. ASSUME NEW w \in Workers, CommitPurge(w) PROVE Fixed /\ Added
  BY <1>4, PurgeEffect DEF Live, Admission
<1>5. CASE UNCHANGED jobs
  BY <1>5 DEF Live, Admission
<1> QED
  BY <1>1, <1>2, <1>3, <1>4, <1>5, Writers

-----------------------------------------------------------------------------
(* Fencing.  A token is drawn once, so no two workers hold the same one. *)
TokensAreUnique ==
  /\ \A w \in Workers : claim[w] # NoClaim => claim[w].token < nextToken
  /\ \A v, w \in Workers :
       claim[v] # NoClaim /\ claim[w] # NoClaim /\ claim[v].token = claim[w].token => v = w

LEMMA TokenStep == Base /\ TokensAreUnique /\ [Next]_vars => TokensAreUnique'
<1> SUFFICES ASSUME Base, TokensAreUnique, [Next]_vars PROVE TokensAreUnique'
  OBVIOUS
<1>0. TypeOK
  BY DEF Base
<1>1. ASSUME NEW w \in Workers, CommitClaim(w) PROVE TokensAreUnique'
  <2>1. PICK j \in held[w] : claim' = [claim EXCEPT ![w] = ClaimRecord(j)]
    BY <1>1 DEF CommitClaim
  <2>2. /\ nextToken' = nextToken + 1 /\ nextToken \in Nat
        /\ claim'[w].token = nextToken
        /\ \A v \in Workers \ {w} : claim'[v] = claim[v]
    BY <1>0, <1>1, <2>1 DEF CommitClaim, ClaimRecord, ClaimToken, TypeOK
  <2>3. \A v \in Workers : claim[v] # NoClaim => claim[v].token \in Nat
    BY <1>0 DEF TypeOK, ClaimRecords
  <2> QED
    BY <2>2, <2>3 DEF TokensAreUnique
<1>2. ASSUME NEW w \in Workers, StartSweep(w) \/ Crash(w) PROVE TokensAreUnique'
  <2>1. nextToken' = nextToken /\ claim' = [claim EXCEPT ![w] = NoClaim]
    BY <1>2 DEF StartSweep, Crash, store
  <2> QED
    BY <1>0, <2>1 DEF TokensAreUnique, TypeOK
<1>3. CASE UNCHANGED <<nextToken, claim>>
  BY <1>3 DEF TokensAreUnique
<1> QED
  BY <1>1, <1>2, <1>3
  DEF Next, Serve, WorkerStep, Process, Sweep, store, local, vars, Submit, Insert,
      InsertConflict, Refresh, RereadKey, Replay, LoseRequest, WakeUp, SelectClaim,
      Evaluate, LockClaim, CommitSuccess, CommitFailure, SelectExpired, CommitPurge,
      Restart, Tick

(* At most one worker can still record an outcome for a job, however claims
   lapse and workers of any number race (claim_next, complete_claim). *)
THEOREM ClaimsAreFenced == Spec => []OneClaimant
<1>1. Init => TokensAreUnique
  BY DEF Init, TokensAreUnique
<1>2. TokensAreUnique => OneClaimant
  BY DEF TokensAreUnique, OneClaimant, OwnsClaim
<1> QED
  BY BaseInvariant, TokenStep, <1>1, <1>2, PTL DEF Spec

-----------------------------------------------------------------------------
(* Idempotency.  What a request inserted or was answered with is a drawn id,
   and its row, while it lasts, is the one asked for. *)
Matches(j, r) == jobs[j].tenant = r.tenant /\ jobs[j].key = r.key /\ jobs[j].input = r.input

OwnsCreated(c) == pc[c] = "created" =>
  /\ request[c].job \in usedIds
  /\ request[c].job \in Live => Matches(request[c].job, request[c])

KeysAreOwned ==
  /\ OneJobPerKey
  /\ \A a \in answers : a.job \in usedIds
  /\ \A c \in Clients : OwnsCreated(c)

LEMMA KeyStep == Base /\ KeysAreOwned /\ [Next]_vars => KeysAreOwned'
<1> SUFFICES ASSUME Base, KeysAreOwned, [Next]_vars PROVE KeysAreOwned'
  OBVIOUS
<1> USE DEF store, local, Processes
<1>0. /\ TypeOK /\ ClientShape /\ LockedReadsHold
      /\ Live \subseteq usedIds /\ Held \subseteq Live
  BY HeldIsLive DEF Base
(* Rows and ids: the rest of the proof is about the steps that touch them. *)
<1>1. ASSUME NEW c \in Clients, Insert(c) PROVE KeysAreOwned'
  <2>0. request[c] \in Requests
    BY <1>0, <1>1 DEF ClientShape, Insert
  <2>1. PICK k \in JobIds \ usedIds :
          /\ usedIds' = usedIds \cup {k}
          /\ jobs' = [jobs EXCEPT ![k] = QueuedRow(request[c])]
          /\ request' = [request EXCEPT ![c].job = k]
    BY <1>1 DEF Insert
  <2>2. /\ \A j \in JobIds \ {k} : jobs'[j] = jobs[j]
        /\ jobs'[k] = QueuedRow(request[c])
    BY <1>0, <2>1 DEF TypeOK
  <2>3. \A l \in Live : ~(jobs[l].tenant = request[c].tenant /\ jobs[l].key = request[c].key)
    BY <1>1 DEF Insert, KeyRows
  <2>4. Live' = Live \cup {k}
    BY <2>0, <2>2, QueuedRowType, SentinelAssumption DEF Live
  <2>5. OneJobPerKey'
    <3>1. \A j, l \in Live' :
            jobs'[j].tenant = jobs'[l].tenant /\ jobs'[j].key = jobs'[l].key => j = l
      BY <1>0, <2>1, <2>2, <2>3, <2>4 DEF KeysAreOwned, OneJobPerKey, QueuedRow, Live
    <3>2. \A a \in answers' : a.job \in Live' => Matches(a.job, a)'
      BY <1>0, <1>1, <2>1, <2>2, <2>4
      DEF KeysAreOwned, OneJobPerKey, Matches, Insert, Live
    <3> QED
      BY <3>1, <3>2 DEF OneJobPerKey, Matches
  <2>6. ASSUME NEW d \in Clients PROVE OwnsCreated(d)'
    <3>1. CASE d = c
      <4>1. request'[c] = [request[c] EXCEPT !.job = k]
        BY <1>0, <2>1 DEF TypeOK
      <4>2. /\ request'[c].job = k /\ request'[c].tenant = request[c].tenant
            /\ request'[c].key = request[c].key /\ request'[c].input = request[c].input
        BY <2>0, <4>1 DEF Requests
      <4>3. /\ jobs'[k].tenant = request[c].tenant /\ jobs'[k].key = request[c].key
            /\ jobs'[k].input = request[c].input
        BY <2>2 DEF QueuedRow
      <4>4. k \in usedIds' /\ request'[c].job \in usedIds'
        BY <2>1, <4>2
      <4> QED
        BY <3>1, <4>2, <4>3, <4>4 DEF OwnsCreated, Matches
    <3>2. CASE d # c
      <4>1. request'[d] = request[d] /\ pc'[d] = pc[d]
        BY <1>0, <1>1, <2>1, <3>2 DEF TypeOK, Insert
      <4>2. OwnsCreated(d) /\ usedIds \subseteq JobIds
        BY <1>0 DEF KeysAreOwned, TypeOK
      <4>3. request[d].job \in usedIds => request[d].job \in JobIds \ {k}
        BY <2>1, <4>2
      <4>4. request[d].job \in usedIds => jobs'[request[d].job] = jobs[request[d].job]
        BY <2>2, <4>3
      <4>5. usedIds \subseteq usedIds'
        BY <2>1
      <4> QED
        BY <4>1, <4>2, <4>3, <4>4, <4>5 DEF OwnsCreated, Matches, Live
    <3> QED
      BY <3>1, <3>2
  <2> QED
    BY <1>0, <1>1, <2>1, <2>5, <2>6 DEF KeysAreOwned, Insert
<1>2. ASSUME usedIds' = usedIds, Live' \subseteq Live,
             \A j \in Live' : Admission(j)' = Admission(j),
             answers' = answers, 
             \A c \in Clients : pc'[c] = "created" => pc[c] = "created" /\ request'[c] = request[c]
      PROVE KeysAreOwned'
  BY <1>2 DEF KeysAreOwned, OwnsCreated, OneJobPerKey, Matches, Admission
<1>3. ASSUME NEW c \in Clients, Refresh(c) \/ Replay(c) PROVE KeysAreOwned'
  <2>1. /\ \A a \in answers' \ answers :
             /\ a.job \in Live
             /\ Matches(a.job, a)
        /\ jobs' = jobs /\ usedIds' = usedIds
    <3>1. CASE Refresh(c)
      BY <1>0, <3>1 DEF Refresh, Answer, KeysAreOwned, OwnsCreated, Matches, Live, ClientShape
    <3>2. CASE Replay(c)
      <4>1. PICK j \in KeyRows(request[c].tenant, request[c].key) : held[c] = {j}
        BY <1>0, <3>2 DEF Replay, LockedReadsHold
      <4> QED
        BY <3>2, <4>1 DEF Replay, Answer, SameRequest, KeyRows, Matches
    <3> QED
      BY <1>3, <3>1, <3>2
  <2>2. \A d \in Clients : pc'[d] = "created" => pc[d] = "created" /\ request'[d] = request[d]
    BY <1>0, <1>3 DEF Refresh, Replay, EndRequest, TypeOK
  <2> QED
    BY <1>0, <2>1, <2>2 DEF KeysAreOwned, OwnsCreated, OneJobPerKey, Matches, Live
<1>4. ASSUME NEW w \in Workers, WorkerStep(w) \/ Crash(w) PROVE KeysAreOwned'
  <2>1. /\ usedIds' = usedIds /\ answers' = answers /\ request' = request
        /\ \A c \in Clients : pc'[c] = pc[c]
    BY <1>0, <1>4, ProcessAssumption
    DEF WorkerStep, Process, Sweep, TypeOK, WakeUp, SelectClaim, CommitClaim, Evaluate,
        LockClaim, CommitSuccess, CommitFailure, StartSweep, SelectExpired, CommitPurge,
        Crash, Restart
  <2>2. \A c \in Clients : ~Insert(c)
    BY <1>0, <2>1 DEF Insert, TypeOK
  <2>3. Live' \subseteq Live /\ \A j \in Live' : Admission(j)' = Admission(j)
    BY <2>2, AdmissionStep DEF Live
  <2> QED
    BY <1>2, <2>1, <2>3
<1>5. ASSUME NEW c \in Clients,
             Submit(c) \/ InsertConflict(c) \/ RereadKey(c) \/ LoseRequest(c)
      PROVE KeysAreOwned'
  <2>1. /\ UNCHANGED <<jobs, usedIds, answers>>
        /\ \A d \in Clients :
             pc'[d] = "created" => pc[d] = "created" /\ request'[d] = request[d]
    BY <1>0, <1>5 DEF Submit, InsertConflict, RereadKey, LoseRequest, EndRequest, TypeOK
  <2> QED
    BY <1>2, <2>1 DEF Live, Admission
<1>6. CASE Tick \/ UNCHANGED vars
  BY <1>2, <1>6 DEF Tick, vars, Live, Admission
<1> QED
  BY <1>1, <1>3, <1>4, <1>5, <1>6 DEF Next, Serve

LEMMA KeysInvariant == Spec => []KeysAreOwned
<1>1. Init => KeysAreOwned
  BY ProcessAssumption DEF Init, KeysAreOwned, OwnsCreated, OneJobPerKey, Live, Processes
<1> QED
  BY BaseInvariant, KeyStep, <1>1, PTL DEF Spec

(* A tenant's key names one live job at most, and an answer never names a live
   job of another tenant, key or input (store.submit). *)
THEOREM AdmissionIsIdempotent == Spec => []OneJobPerKey
<1>1. KeysAreOwned => OneJobPerKey
  BY DEF KeysAreOwned
<1> QED
  BY KeysInvariant, <1>1, PTL

-----------------------------------------------------------------------------
(* Evidence.  A claimed record copies what its job was admitted with. *)
CopiesAdmission(w) == claim[w] # NoClaim =>
  /\ claim[w].job \in usedIds
  /\ claim[w].job \in Live => /\ jobs[claim[w].job].input = claim[w].input
                             /\ jobs[claim[w].job].revision = claim[w].revision

(* EvidenceIsWhole of one job. *)
Whole(j) ==
  LET e == Evaluation(jobs[j].input, jobs[j].revision) IN
  IF jobs[j].status = "SUCCEEDED"
    THEN jobs[j].result = e /\ RowsOf(j) = EvidenceRows(j, e)
    ELSE jobs[j].result = NoEvaluation /\ RowsOf(j) = {}

ClaimsCopyAdmissions == \A w \in Workers : CopiesAdmission(w)

LEMMA CopyStep == Base /\ ClaimsCopyAdmissions /\ [Next]_vars => ClaimsCopyAdmissions'
<1> SUFFICES ASSUME Base, ClaimsCopyAdmissions, [Next]_vars, NEW v \in Workers
             PROVE CopiesAdmission(v)'
  BY DEF ClaimsCopyAdmissions
<1>0. /\ TypeOK /\ Held \subseteq Live /\ Live \subseteq usedIds
      /\ CopiesAdmission(v) /\ LockedReadsHold
  BY HeldIsLive DEF Base, ClaimsCopyAdmissions
(* A drawn id whose row is there has the row it was admitted with. *)
<1>1. /\ usedIds \subseteq usedIds'
      /\ \A j \in usedIds : j \in Live' => j \in Live /\ Admission(j)' = Admission(j)
  <2>1. usedIds \subseteq usedIds'
    BY DEF Next, Serve, WorkerStep, Process, Sweep, store, local, vars, Submit, Insert,
         InsertConflict, Refresh, RereadKey, Replay, LoseRequest, WakeUp, SelectClaim,
         CommitClaim, Evaluate, LockClaim, CommitSuccess, CommitFailure, StartSweep,
         SelectExpired, CommitPurge, Crash, Restart, Tick
  <2> QED
    BY <1>0, <2>1, AdmissionStep DEF Live, TypeOK
<1>2. ASSUME claim'[v] = claim[v] PROVE CopiesAdmission(v)'
  BY <1>0, <1>1, <1>2 DEF CopiesAdmission, Admission
<1>3. ASSUME NEW w \in Workers, CommitClaim(w) PROVE CopiesAdmission(v)'
  <2>1. PICK j \in Claimable(at[w]) : held[w] = {j}
    BY <1>0, <1>3 DEF LockedReadsHold, CommitClaim
  <2>2. /\ j \in Live /\ jobs[j] \in JobRows /\ j \in usedIds
        /\ claim' = [claim EXCEPT ![w] = ClaimRecord(j)]
        /\ jobs' = [jobs EXCEPT ![j] = ClaimedRow(j, w)]
    BY <1>0, <1>3, <2>1 DEF Claimable, Live, TypeOK, CommitClaim
  <2>3. CASE v = w
    <3>1. claim'[v] = ClaimRecord(j)
      BY <1>0, <2>2, <2>3 DEF TypeOK
    <3>2. jobs'[j].input = jobs[j].input /\ jobs'[j].revision = jobs[j].revision
      BY <1>0, <2>2 DEF TypeOK, ClaimedRow, JobRows, Live
    <3> QED
      BY <1>1, <2>2, <3>1, <3>2 DEF CopiesAdmission, ClaimRecord
  <2>4. CASE v # w
    BY <1>0, <1>2, <2>2, <2>4 DEF TypeOK
  <2> QED
    BY <2>3, <2>4
<1>4. ASSUME NEW w \in Workers, StartSweep(w) \/ Crash(w) PROVE CopiesAdmission(v)'
  <2>1. claim'[v] \in {claim[v], NoClaim}
    BY <1>0, <1>4 DEF StartSweep, Crash, TypeOK
  <2> QED
    BY <1>2, <2>1 DEF CopiesAdmission
<1>5. CASE UNCHANGED claim
  BY <1>2, <1>5
<1> QED
  BY <1>3, <1>4, <1>5
  DEF Next, Serve, WorkerStep, Process, Sweep, store, local, vars, Submit, Insert,
      InsertConflict, Refresh, RereadKey, Replay, LoseRequest, WakeUp, SelectClaim,
      Evaluate, LockClaim, CommitSuccess, CommitFailure, SelectExpired, CommitPurge,
      Restart, Tick

(* The evidence rows of a job are its own. *)
LEMMA EvidenceRowsAreOwn ==
  ASSUME NEW j, NEW e, NEW row \in EvidenceRows(j, e)
  PROVE  row.job = j
  BY DEF EvidenceRows

(* A success and its evidence stay whole. *)
LEMMA EvidenceStep ==
  Base /\ ClaimsCopyAdmissions /\ EvidenceIsWhole /\ [Next]_vars => EvidenceIsWhole'
<1> SUFFICES ASSUME Base, ClaimsCopyAdmissions, EvidenceIsWhole, [Next]_vars
             PROVE EvidenceIsWhole'
  OBVIOUS
<1> DEFINE Own == \A row \in contributions : row.job \in Live
           All == \A j \in Live : Whole(j)
<1>0. TypeOK /\ Own /\ All
  BY DEF Base, EvidenceIsWhole, Whole, RowsOf
<1>1. SUFFICES Own' /\ All'
  BY DEF EvidenceIsWhole, Whole, RowsOf
<1>2. ASSUME NEW c \in Clients, Insert(c) PROVE Own' /\ All'
  <2>1. PICK k \in JobIds \ usedIds :
          /\ jobs'[k] = QueuedRow(request[c])
          /\ \A j \in JobIds \ {k} : jobs'[j] = jobs[j]
          /\ k \notin Live /\ Live' = Live \cup {k}
    BY <1>2, InsertEffect
  <2>2. contributions' = contributions
    BY <1>2 DEF Insert
  <2>3. Whole(k)'
    BY <1>0, <2>1, <2>2 DEF Whole, RowsOf, QueuedRow
  <2>4. \A j \in Live : jobs'[j] = jobs[j]
    BY <2>1 DEF Live
  <2> QED
    BY <1>0, <2>1, <2>2, <2>3, <2>4 DEF Whole, RowsOf
<1>3. ASSUME NEW w \in Workers, CommitClaim(w) PROVE Own' /\ All'
  <2>1. PICK k \in Claimable(at[w]) :
          /\ k \in Live /\ jobs[k] \in JobRows
          /\ jobs'[k] = ClaimedRow(k, w)
          /\ \A j \in JobIds \ {k} : jobs'[j] = jobs[j]
          /\ Live' = Live
    BY <1>3, ClaimEffect
  <2>2. contributions' = contributions
    BY <1>3 DEF CommitClaim
  <2>3. /\ jobs[k].status # "SUCCEEDED" /\ jobs'[k].status = "RUNNING"
        /\ jobs'[k].result = jobs[k].result
    BY <2>1 DEF Claimable, ClaimedRow, JobRows
  <2>4. Whole(k)'
    BY <1>0, <2>1, <2>2, <2>3 DEF Whole, RowsOf
  <2>5. \A j \in Live \ {k} : jobs'[j] = jobs[j]
    BY <2>1 DEF Live
  <2> QED
    BY <1>0, <2>1, <2>2, <2>4, <2>5 DEF Whole, RowsOf
<1>4. ASSUME NEW w \in Workers, CommitSuccess(w) PROVE Own' /\ All'
  <2>1. PICK k \in JobIds :
        /\ claim[w] \in ClaimRecords /\ OwnsClaim(w) /\ k = claim[w].job
        /\ k \in Live /\ jobs[k] \in JobRows
        /\ jobs'[k] = SucceededRow(w)
        /\ Computed(w) = Evaluation(claim[w].input, claim[w].revision)
        /\ \A j \in JobIds \ {k} : jobs'[j] = jobs[j]
        /\ Live' = Live
    BY <1>4, OutcomeEffect DEF Live
  <2>2. contributions' = contributions \cup EvidenceRows(k, Computed(w))
    BY <1>4, <2>1 DEF CommitSuccess
  <2>3. jobs[k].input = claim[w].input /\ jobs[k].revision = claim[w].revision
    BY <2>1, SentinelAssumption DEF ClaimsCopyAdmissions, CopiesAdmission
  <2>4. RowsOf(k) = {}
    BY <1>0, <2>1 DEF Whole, OwnsClaim
  <2>5. RowsOf(k)' = EvidenceRows(k, Computed(w))
    BY <2>2, <2>4, EvidenceRowsAreOwn DEF RowsOf
  <2>6. /\ jobs'[k].status = "SUCCEEDED" /\ jobs'[k].result = Computed(w)
        /\ jobs'[k].input = jobs[k].input /\ jobs'[k].revision = jobs[k].revision
    BY <2>1 DEF SucceededRow, JobRows
  <2>7. Whole(k)'
    BY <2>1, <2>3, <2>5, <2>6 DEF Whole
  <2>8. ASSUME NEW j \in Live \ {k} PROVE Whole(j)'
    <3>1. jobs'[j] = jobs[j]
      BY <2>1 DEF Live
    <3>2. RowsOf(j)' = RowsOf(j)
      BY <2>2, EvidenceRowsAreOwn DEF RowsOf
    <3> QED
      BY <1>0, <3>1, <3>2 DEF Whole
  <2>9. Own'
    BY <1>0, <2>1, <2>2, EvidenceRowsAreOwn
  <2> QED
    BY <2>1, <2>7, <2>8, <2>9
<1>5. ASSUME NEW w \in Workers, CommitFailure(w) PROVE Own' /\ All'
  <2>1. PICK k \in JobIds :
        /\ OwnsClaim(w) /\ k = claim[w].job /\ k \in Live /\ jobs[k] \in JobRows
        /\ jobs'[k] = FailedRow(w)
        /\ \A j \in JobIds \ {k} : jobs'[j] = jobs[j]
        /\ Live' = Live
    BY <1>5, OutcomeEffect DEF Live
  <2>2. contributions' = contributions
    BY <1>5 DEF CommitFailure
  <2>3. jobs'[k].status = "FAILED" /\ jobs'[k].result = jobs[k].result
    BY <2>1 DEF FailedRow, JobRows
  <2>4. Whole(k)'
    BY <1>0, <2>1, <2>2, <2>3 DEF Whole, RowsOf, OwnsClaim
  <2>5. \A j \in Live \ {k} : jobs'[j] = jobs[j]
    BY <2>1 DEF Live
  <2> QED
    BY <1>0, <2>1, <2>2, <2>4, <2>5 DEF Whole, RowsOf
<1>6. ASSUME NEW w \in Workers, CommitPurge(w) PROVE Own' /\ All'
  <2>1. /\ \A j \in JobIds : jobs'[j] = IF j \in held[w] THEN NoJob ELSE jobs[j]
        /\ Live' = Live \ held[w]
    BY <1>6, PurgeEffect
  <2>2. contributions' = {row \in contributions : row.job \notin held[w]}
    BY <1>6 DEF CommitPurge, OtherContributions
  <2>3. \A j \in Live' : jobs'[j] = jobs[j] /\ RowsOf(j)' = RowsOf(j)
    BY <2>1, <2>2 DEF RowsOf, Live
  <2> QED
    BY <1>0, <2>1, <2>2, <2>3 DEF Whole
<1>7. CASE UNCHANGED <<jobs, contributions>>
  BY <1>0, <1>7 DEF Whole, RowsOf, Live
<1> QED
  BY <1>2, <1>3, <1>4, <1>5, <1>6, <1>7, Writers

(* A job has its aggregate and all its contribution rows, those of the
   evaluation fixed at admission, when it has succeeded, and none otherwise
   (complete_claim, delete_expired). *)
THEOREM EvidenceIsComplete == Spec => []EvidenceIsWhole
<1>1. Init => ClaimsCopyAdmissions /\ EvidenceIsWhole
  BY DEF Init, ClaimsCopyAdmissions, CopiesAdmission, EvidenceIsWhole, Live
<1> QED
  BY BaseInvariant, CopyStep, EvidenceStep, <1>1, PTL DEF Spec

-----------------------------------------------------------------------------
(* What a step may never do. *)
TerminalStep ==
  \A j \in JobIds :
    j \in Live /\ jobs[j].status \in {"SUCCEEDED", "FAILED"} => jobs'[j] \in {jobs[j], NoJob}

LEMMA TerminalIsKept == Base /\ [Next]_vars => TerminalStep
<1> SUFFICES ASSUME Base, [Next]_vars PROVE TerminalStep
  OBVIOUS
<1>1. ASSUME NEW c \in Clients, Insert(c) PROVE TerminalStep
  <2>1. PICK k \in JobIds : k \notin Live /\ \A j \in JobIds \ {k} : jobs'[j] = jobs[j]
    BY <1>1, InsertEffect
  <2> QED
    BY <2>1 DEF TerminalStep
<1>2. ASSUME NEW w \in Workers, CommitClaim(w) PROVE TerminalStep
  <2>1. PICK k \in Claimable(at[w]) : \A j \in JobIds \ {k} : jobs'[j] = jobs[j]
    BY <1>2, ClaimEffect
  <2> QED
    BY <2>1 DEF TerminalStep, Claimable
<1>3. ASSUME NEW w \in Workers, CommitSuccess(w) \/ CommitFailure(w) PROVE TerminalStep
  <2>1. OwnsClaim(w) /\ \A j \in JobIds \ {claim[w].job} : jobs'[j] = jobs[j]
    BY <1>3, OutcomeEffect
  <2> QED
    BY <2>1 DEF TerminalStep, OwnsClaim
<1>4. ASSUME NEW w \in Workers, CommitPurge(w) PROVE TerminalStep
  BY <1>4, PurgeEffect DEF TerminalStep
<1>5. CASE UNCHANGED jobs
  BY <1>5 DEF TerminalStep
<1> QED
  BY <1>1, <1>2, <1>3, <1>4, <1>5, Writers

(* No stale claimant, late worker or reclaim changes a job that has ended
   (claim_next, complete_claim, fail_claim). *)
THEOREM OutcomesAreFinal == Spec => TerminalIsFinal
  BY BaseInvariant, TerminalIsKept, PTL DEF Spec, TerminalIsFinal, TerminalStep

(* The condition of LeaseIsRespected. *)
LeaseStep ==
  \A j \in JobIds : j \in Live /\ jobs'[j] # NoJob /\ jobs'[j].token # jobs[j].token
    => \E w \in Workers :
         /\ claim'[w] # NoClaim /\ claim'[w].token = jobs'[j].token
         /\ jobs[j].expiresAt > at[w]
         /\ jobs[j].status = "RUNNING" => jobs[j].leaseExpiresAt <= at[w]

LEMMA LeaseIsKept == Base /\ [Next]_vars => LeaseStep
<1> SUFFICES ASSUME Base, [Next]_vars PROVE LeaseStep
  OBVIOUS
<1>1. ASSUME NEW c \in Clients, Insert(c) PROVE LeaseStep
  <2>1. PICK k \in JobIds : k \notin Live /\ \A j \in JobIds \ {k} : jobs'[j] = jobs[j]
    BY <1>1, InsertEffect
  <2> QED
    BY <2>1 DEF LeaseStep
<1>2. ASSUME NEW w \in Workers, CommitClaim(w) PROVE LeaseStep
  <2>1. PICK k \in Claimable(at[w]) :
          /\ jobs[k] \in JobRows
          /\ jobs'[k] = ClaimedRow(k, w)
          /\ \A j \in JobIds \ {k} : jobs'[j] = jobs[j]
          /\ claim'[w] = ClaimRecord(k) /\ claim'[w] \in ClaimRecords
    BY <1>2, ClaimEffect
  <2>2. jobs'[k].token = nextToken
    BY <2>1 DEF ClaimedRow, ClaimToken, JobRows
  <2>3. claim'[w] # NoClaim /\ claim'[w].token = nextToken
    BY <2>1, SentinelAssumption DEF ClaimRecord, ClaimToken
  <2>4. /\ jobs[k].expiresAt > at[w]
        /\ jobs[k].status = "RUNNING" => jobs[k].leaseExpiresAt <= at[w]
    BY <2>1 DEF Claimable
  <2> QED
    BY <2>1, <2>2, <2>3, <2>4 DEF LeaseStep
<1>3. ASSUME NEW w \in Workers, CommitSuccess(w) \/ CommitFailure(w) PROVE LeaseStep
  <2>1. PICK k \in JobIds :
          /\ jobs[k] \in JobRows
          /\ jobs'[k] = SucceededRow(w) \/ jobs'[k] = FailedRow(w)
          /\ k = claim[w].job
          /\ \A j \in JobIds \ {k} : jobs'[j] = jobs[j]
    BY <1>3, OutcomeEffect DEF Live
  <2>2. jobs'[k].token = jobs[k].token
    BY <2>1 DEF SucceededRow, FailedRow, JobRows
  <2> QED
    BY <2>1, <2>2 DEF LeaseStep
<1>4. ASSUME NEW w \in Workers, CommitPurge(w) PROVE LeaseStep
  BY <1>4, PurgeEffect DEF LeaseStep
<1>5. CASE UNCHANGED jobs
  BY <1>5 DEF LeaseStep
<1> QED
  BY <1>1, <1>2, <1>3, <1>4, <1>5, Writers

(* A running job changes hands only after its lease, and only before its
   expiry, on the claimant's clock (claim_next). *)
THEOREM LeasesHold == Spec => LeaseIsRespected
  BY BaseInvariant, LeaseIsKept, PTL DEF Spec, LeaseIsRespected, LeaseStep

(* A process's last reading of the clock is not ahead of the true time by more
   than the skew, then and later. *)
ReadingsArePast == \A w \in Workers : at[w] <= now + Skew

LEMMA ReadingStep == Base /\ ReadingsArePast /\ [Next]_vars => ReadingsArePast'
<1> SUFFICES ASSUME Base, ReadingsArePast, [Next]_vars, NEW v \in Workers
             PROVE at'[v] <= now' + Skew
  BY DEF ReadingsArePast
<1>0. /\ now \in Nat /\ Skew \in Nat /\ at[v] \in Int /\ at[v] <= now + Skew
      /\ at \in [Workers -> Int]
  BY ConfigurationAssumption DEF Base, TypeOK, ReadingsArePast
<1>1. ASSUME NEW w \in Workers, WakeUp(w) \/ Evaluate(w) \/ StartSweep(w)
      PROVE at'[v] <= now' + Skew
  <2>1. PICK m \in Times : Reading(m) /\ at' = [at EXCEPT ![w] = m]
    BY <1>1 DEF WakeUp, Evaluate, StartSweep
  <2>2. m <= now + Skew
    BY <1>0, <2>1 DEF Reading
  <2>3. now' = now
    BY <1>1 DEF WakeUp, Evaluate, StartSweep
  <2> QED
    BY <1>0, <2>1, <2>2, <2>3
<1>2. ASSUME NEW w \in Workers, SelectExpired(w) \/ CommitPurge(w) \/ Crash(w)
      PROVE at'[v] <= now' + Skew
  <2>1. at'[v] \in {at[v], NoTime} /\ now' = now
    BY <1>0, <1>2 DEF SelectExpired, CommitPurge, Crash
  <2> QED
    BY <1>0, <2>1 DEF NoTime
<1>3. CASE at' = at /\ now' \in {now, now + 1}
  BY <1>0, <1>3
<1> QED
  BY <1>1, <1>2, <1>3
  DEF Next, Serve, WorkerStep, Process, Sweep, store, local, vars, Submit, Insert,
      InsertConflict, Refresh, RereadKey, Replay, LoseRequest, SelectClaim, CommitClaim,
      LockClaim, CommitSuccess, CommitFailure, Restart, Tick

(* The condition of RetainedUntilExpiry. *)
RetentionStep ==
  \A j \in JobIds : j \in Live /\ jobs'[j] = NoJob => jobs[j].expiresAt <= now + Skew

LEMMA RetentionIsKept == Base /\ ReadingsArePast /\ [Next]_vars => RetentionStep
<1> SUFFICES ASSUME Base, ReadingsArePast, [Next]_vars, NEW j \in Live, jobs'[j] = NoJob
             PROVE jobs[j].expiresAt <= now + Skew
  BY DEF RetentionStep
<1>0. jobs[j] # NoJob /\ j \in JobIds /\ jobs[j] \in JobRows
  BY DEF Live, Base, TypeOK
<1>1. PICK w \in Workers : CommitPurge(w)
  <2>1. ASSUME NEW c \in Clients, Insert(c) PROVE FALSE
    BY <1>0, <2>1, InsertEffect, SentinelAssumption
  <2>2. ASSUME NEW w \in Workers, CommitClaim(w) PROVE FALSE
    BY <1>0, <2>2, ClaimEffect DEF Live
  <2>3. ASSUME NEW w \in Workers, CommitSuccess(w) \/ CommitFailure(w) PROVE FALSE
    BY <1>0, <2>3, OutcomeEffect DEF Live
  <2> QED
    BY <1>0, <2>1, <2>2, <2>3, Writers
<1>2. j \in held[w] /\ held[w] \subseteq Expired(at[w])
  BY <1>0, <1>1, PurgeEffect
<1>3. jobs[j].expiresAt <= at[w] /\ at[w] <= now + Skew
  BY <1>2 DEF Expired, ReadingsArePast
<1>4. jobs[j].expiresAt \in Int /\ at[w] \in Int /\ now + Skew \in Int
  BY <1>0, ConfigurationAssumption DEF JobRows, Base, TypeOK
<1> QED
  BY <1>3, <1>4

(* Evidence is retained: a job disappears only once its retention has run out,
   up to the error of a clock (delete_expired). *)
THEOREM EvidenceIsRetained == Spec => RetainedUntilExpiry
<1>1. Init => ReadingsArePast
  BY ConfigurationAssumption DEF Init, ReadingsArePast, NoTime
<1> QED
  BY BaseInvariant, ReadingStep, RetentionIsKept, <1>1, PTL
  DEF Spec, RetainedUntilExpiry, RetentionStep

-----------------------------------------------------------------------------
(* ScenarioJobs implements JobLifecycle, for every value of the constants: the
   store's initial state maps to the promised one, and every step maps to one step
   of a job's promised life or to none. *)

(* What the rest of the proof needs of a reachable state. *)
Sound == Base /\ ClaimsCopyAdmissions /\ EvidenceIsWhole

LifeStep == [Lifecycle!Next]_(Lifecycle!jvars)

(* What the abstract variables show of one job. *)
Unmoved(j) == /\ Phase(j)' = Phase(j) /\ Owner(j)' = Owner(j) /\ Promised(j)' = Promised(j)
              /\ Result(j)' = Result(j) /\ RowsOf(j)' = RowsOf(j)

(* A job whose row and contributions are left alone does not move. *)
LEMMA UnmovedJob ==
  ASSUME NEW j \in JobIds, jobs'[j] = jobs[j], RowsOf(j)' = RowsOf(j),
         j \in usedIds' <=> j \in usedIds
  PROVE  Unmoved(j)
  BY DEF Unmoved, Phase, Owner, Promised, Result, Live

(* The jobs that are present are the live ones. *)
LEMMA PresentIsLive == ASSUME Base PROVE Lifecycle!Present = Live
  BY DEF Base, TypeOK, Lifecycle!Present, Phase, Live, JobRows

LEMMA StutterLife == (\A j \in JobIds : Unmoved(j)) => UNCHANGED Lifecycle!jvars
  BY DEF Unmoved, Lifecycle!jvars

(* An admission. *)
LEMMA InsertLife == ASSUME Sound, NEW c \in Clients, Insert(c) PROVE LifeStep
<1> DEFINE r == request[c]
<1>0. Base /\ \A row \in contributions : row.job \in Live
  BY DEF Sound, EvidenceIsWhole
<1>1. PICK k \in JobIds \ usedIds :
        /\ r \in Requests
        /\ usedIds' = usedIds \cup {k}
        /\ jobs'[k] = QueuedRow(r)
        /\ \A j \in JobIds \ {k} : jobs'[j] = jobs[j]
        /\ k \notin Live /\ Live' = Live \cup {k}
  BY <1>0, InsertEffect
<1>2. contributions' = contributions
  BY DEF Insert
<1>3. \A j \in JobIds \ {k} : Unmoved(j)
  BY <1>1, <1>2, UnmovedJob DEF RowsOf
<1>4. /\ Phase(k) = "UNBORN" /\ Phase(k)' = "QUEUED"
      /\ Owner(k)' = <<r.tenant, r.key>>
      /\ Promised(k)' = Evaluation(r.input, r.revision)
      /\ Result(k)' = Result(k) /\ RowsOf(k)' = RowsOf(k)
  BY <1>1, <1>2 DEF Phase, Owner, Promised, Result, RowsOf, QueuedRow
<1>5. \A l \in Live : Owner(l) # <<r.tenant, r.key>>
  BY DEF Insert, KeyRows, Owner
<1>6. <<r.tenant, r.key>> \in Tenants \X Keys /\ Evaluation(r.input, r.revision) \in Evaluations
  BY <1>1 DEF Requests, Evaluation, Evaluations
<1>7. Lifecycle!Admit(k, <<r.tenant, r.key>>, Evaluation(r.input, r.revision))
  <2>1. \A l \in Lifecycle!Present : [j \in JobIds |-> Owner(j)][l] # <<r.tenant, r.key>>
    BY <1>0, <1>5, PresentIsLive DEF Live
  <2>2. /\ [j \in JobIds |-> Phase(j)][k] = "UNBORN"
        /\ [j \in JobIds |-> Phase(j)]' = [[j \in JobIds |-> Phase(j)] EXCEPT ![k] = "QUEUED"]
        /\ [j \in JobIds |-> Owner(j)]'
             = [[j \in JobIds |-> Owner(j)] EXCEPT ![k] = <<r.tenant, r.key>>]
        /\ [j \in JobIds |-> Promised(j)]'
             = [[j \in JobIds |-> Promised(j)] EXCEPT ![k] = Evaluation(r.input, r.revision)]
    BY <1>3, <1>4 DEF Unmoved
  <2>3. UNCHANGED <<[j \in JobIds |-> Result(j)], [j \in JobIds |-> RowsOf(j)]>>
    BY <1>3, <1>4 DEF Unmoved
  <2> QED
    BY <2>1, <2>2, <2>3 DEF Lifecycle!Admit
<1> QED
  BY <1>1, <1>6, <1>7 DEF LifeStep, Lifecycle!Next

(* A claim starts a queued job; the claim of a running one does not show. *)
LEMMA ClaimLife == ASSUME Sound, NEW w \in Workers, CommitClaim(w) PROVE LifeStep
<1>0. Base
  BY DEF Sound
<1>1. PICK k \in Claimable(at[w]) :
        /\ k \in Live /\ k \in JobIds /\ jobs[k] \in JobRows
        /\ jobs'[k] = ClaimedRow(k, w)
        /\ \A j \in JobIds \ {k} : jobs'[j] = jobs[j]
        /\ Live' = Live
  BY <1>0, ClaimEffect DEF Live
<1>2. contributions' = contributions /\ usedIds' = usedIds
  BY DEF CommitClaim
<1>3. \A j \in JobIds \ {k} : Unmoved(j)
  BY <1>1, <1>2, UnmovedJob DEF RowsOf
<1>4. /\ jobs[k].status \in {"QUEUED", "RUNNING"}
      /\ Phase(k) = jobs[k].status /\ Phase(k)' = "RUNNING"
      /\ Owner(k)' = Owner(k) /\ Promised(k)' = Promised(k)
      /\ Result(k)' = Result(k) /\ RowsOf(k)' = RowsOf(k)
  BY <1>1, <1>2 DEF Claimable, Phase, Owner, Promised, Result, RowsOf, ClaimedRow, JobRows
<1>5. CASE jobs[k].status = "RUNNING"
  <2>1. \A j \in JobIds : Unmoved(j)
    BY <1>3, <1>4, <1>5 DEF Unmoved
  <2> QED
    BY <2>1, StutterLife DEF LifeStep
<1>6. CASE jobs[k].status = "QUEUED"
  <2>1. /\ [j \in JobIds |-> Phase(j)][k] = "QUEUED"
        /\ [j \in JobIds |-> Phase(j)]' = [[j \in JobIds |-> Phase(j)] EXCEPT ![k] = "RUNNING"]
    BY <1>1, <1>3, <1>4, <1>6 DEF Unmoved
  <2>2. UNCHANGED <<[j \in JobIds |-> Owner(j)], [j \in JobIds |-> Promised(j)],
                    [j \in JobIds |-> Result(j)], [j \in JobIds |-> RowsOf(j)]>>
    BY <1>3, <1>4 DEF Unmoved
  <2>3. Lifecycle!Start(k)
    BY <2>1, <2>2 DEF Lifecycle!Start
  <2> QED
    BY <1>1, <2>3 DEF LifeStep, Lifecycle!Next
<1> QED
  BY <1>4, <1>5, <1>6

(* A success publishes what was promised. *)
LEMMA SuccessLife == ASSUME Sound, NEW w \in Workers, CommitSuccess(w) PROVE LifeStep
<1>0. Base
  BY DEF Sound
<1>1. PICK k \in JobIds :
        /\ k = claim[w].job /\ claim[w] \in ClaimRecords /\ OwnsClaim(w)
        /\ k \in Live /\ jobs[k] \in JobRows
        /\ jobs'[k] = SucceededRow(w)
        /\ Computed(w) = Evaluation(claim[w].input, claim[w].revision)
        /\ Computed(w) \in Evaluations
        /\ \A j \in JobIds \ {k} : jobs'[j] = jobs[j]
        /\ Live' = Live
  BY <1>0, OutcomeEffect DEF Live
<1>2. /\ contributions' = contributions \cup EvidenceRows(k, Computed(w))
      /\ usedIds' = usedIds
  BY <1>1 DEF CommitSuccess
<1>3. \A j \in JobIds \ {k} : RowsOf(j)' = RowsOf(j)
  BY <1>2, EvidenceRowsAreOwn DEF RowsOf
<1>4. \A j \in JobIds \ {k} : Unmoved(j)
  BY <1>1, <1>2, <1>3, UnmovedJob
<1>5. Promised(k) = Computed(w)
  BY <1>1, SentinelAssumption DEF Sound, ClaimsCopyAdmissions, CopiesAdmission, Promised
<1>6. RowsOf(k)' = EvidenceRows(k, Computed(w))
  <2>1. RowsOf(k) = {}
    BY <1>1 DEF Sound, EvidenceIsWhole, RowsOf, OwnsClaim
  <2> QED
    BY <1>2, <2>1, EvidenceRowsAreOwn DEF RowsOf
<1>7. /\ Phase(k) = "RUNNING" /\ Phase(k)' = "SUCCEEDED"
      /\ Owner(k)' = Owner(k) /\ Promised(k)' = Promised(k)
      /\ Result(k)' = Computed(w)
  BY <1>1 DEF OwnsClaim, Phase, Owner, Promised, Result, SucceededRow, JobRows
<1>8. Lifecycle!Succeed(k)
  <2>1. /\ [j \in JobIds |-> Phase(j)][k] = "RUNNING"
        /\ [j \in JobIds |-> Phase(j)]' = [[j \in JobIds |-> Phase(j)] EXCEPT ![k] = "SUCCEEDED"]
        /\ [j \in JobIds |-> Result(j)]' = [[j \in JobIds |-> Result(j)] EXCEPT
                                              ![k] = [j \in JobIds |-> Promised(j)][k]]
    BY <1>4, <1>5, <1>7 DEF Unmoved
  <2>2. [j \in JobIds |-> [e \in Evaluations |-> EvidenceRows(j, e)]]
          [k][[j \in JobIds |-> Promised(j)][k]] = EvidenceRows(k, Computed(w))
    BY <1>1, <1>5
  <2>3. [j \in JobIds |-> RowsOf(j)]' = [[j \in JobIds |-> RowsOf(j)] EXCEPT
                                          ![k] = EvidenceRows(k, Computed(w))]
    BY <1>4, <1>6 DEF Unmoved
  <2>4. UNCHANGED <<[j \in JobIds |-> Owner(j)], [j \in JobIds |-> Promised(j)]>>
    BY <1>4, <1>7 DEF Unmoved
  <2> QED
    BY <2>1, <2>2, <2>3, <2>4 DEF Lifecycle!Succeed
<1> QED
  BY <1>1, <1>8 DEF LifeStep, Lifecycle!Next

(* A failure publishes nothing. *)
LEMMA FailureLife == ASSUME Sound, NEW w \in Workers, CommitFailure(w) PROVE LifeStep
<1>0. Base
  BY DEF Sound
<1>1. PICK k \in JobIds :
        /\ OwnsClaim(w) /\ k = claim[w].job
        /\ k \in Live /\ jobs[k] \in JobRows
        /\ jobs'[k] = FailedRow(w)
        /\ \A j \in JobIds \ {k} : jobs'[j] = jobs[j]
        /\ Live' = Live
  BY <1>0, OutcomeEffect DEF Live
<1>2. contributions' = contributions /\ usedIds' = usedIds
  BY DEF CommitFailure
<1>3. \A j \in JobIds \ {k} : Unmoved(j)
  BY <1>1, <1>2, UnmovedJob DEF RowsOf
<1>4. /\ Phase(k) = "RUNNING" /\ Phase(k)' = "FAILED"
      /\ Owner(k)' = Owner(k) /\ Promised(k)' = Promised(k)
      /\ Result(k)' = Result(k) /\ RowsOf(k)' = RowsOf(k)
  BY <1>1, <1>2 DEF OwnsClaim, Phase, Owner, Promised, Result, RowsOf, FailedRow, JobRows
<1>5. Lifecycle!Fail(k)
  <2>1. /\ [j \in JobIds |-> Phase(j)][k] = "RUNNING"
        /\ [j \in JobIds |-> Phase(j)]' = [[j \in JobIds |-> Phase(j)] EXCEPT ![k] = "FAILED"]
    BY <1>3, <1>4 DEF Unmoved
  <2>2. UNCHANGED <<[j \in JobIds |-> Owner(j)], [j \in JobIds |-> Promised(j)],
                    [j \in JobIds |-> Result(j)], [j \in JobIds |-> RowsOf(j)]>>
    BY <1>3, <1>4 DEF Unmoved
  <2> QED
    BY <2>1, <2>2 DEF Lifecycle!Fail
<1> QED
  BY <1>1, <1>5 DEF LifeStep, Lifecycle!Next

(* A purge removes the jobs with all they published. *)
LEMMA PurgeLife == ASSUME Sound, NEW w \in Workers, CommitPurge(w) PROVE LifeStep
<1> DEFINE D == held[w]
<1>0. Base
  BY DEF Sound
<1>1. /\ D \subseteq Expired(at[w])
      /\ \A j \in JobIds : jobs'[j] = IF j \in D THEN NoJob ELSE jobs[j]
      /\ Live' = Live \ D
  BY <1>0, PurgeEffect
<1>2. /\ contributions' = {row \in contributions : row.job \notin D}
      /\ usedIds' = usedIds
  BY DEF CommitPurge, OtherContributions
<1>3. D \subseteq Live /\ Live \subseteq usedIds
  BY <1>0, <1>1 DEF Expired, Base
<1>4. \A j \in JobIds \ D : RowsOf(j)' = RowsOf(j)
  BY <1>2 DEF RowsOf
<1>5. \A j \in JobIds \ D : Unmoved(j)
  BY <1>1, <1>2, <1>4, UnmovedJob
<1>6. ASSUME NEW j \in D
      PROVE  /\ Phase(j)' = "PURGED" /\ Owner(j)' = NoJob /\ Promised(j)' = NoEvaluation
             /\ Result(j)' = NoEvaluation /\ RowsOf(j)' = {}
  BY <1>1, <1>2, <1>3 DEF Phase, Owner, Promised, Result, RowsOf
<1>7. \A j \in JobIds :
        /\ Phase(j)' = IF j \in D THEN "PURGED" ELSE Phase(j)
        /\ Owner(j)' = IF j \in D THEN NoJob ELSE Owner(j)
        /\ Promised(j)' = IF j \in D THEN NoEvaluation ELSE Promised(j)
        /\ Result(j)' = IF j \in D THEN NoEvaluation ELSE Result(j)
        /\ RowsOf(j)' = IF j \in D THEN {} ELSE RowsOf(j)
  BY <1>5, <1>6 DEF Unmoved
<1>8. Lifecycle!Purge(D)
  BY <1>7 DEF Lifecycle!Purge
<1>9. D \in SUBSET Lifecycle!Present
  BY <1>0, <1>3, PresentIsLive
<1> QED
  BY <1>8, <1>9 DEF LifeStep, Lifecycle!Next

-----------------------------------------------------------------------------
LEMMA LifeInit == Init => Lifecycle!Init
  BY DEF Init, Lifecycle!Init, Phase, Owner, Promised, Result, RowsOf, Live

LEMMA LifeNext == Sound /\ [Next]_vars => LifeStep
<1> SUFFICES ASSUME Sound, [Next]_vars PROVE LifeStep
  OBVIOUS
<1>1. CASE UNCHANGED <<jobs, contributions, usedIds>>
  <2>1. \A j \in JobIds : Unmoved(j)
    BY <1>1, UnmovedJob DEF RowsOf
  <2> QED
    BY <2>1, StutterLife DEF LifeStep
<1> QED
  BY <1>1, InsertLife, ClaimLife, SuccessLife, FailureLife, PurgeLife, Writers

LEMMA SoundInvariant == Spec => []Sound
<1>1. Init => ClaimsCopyAdmissions /\ EvidenceIsWhole
  BY DEF Init, ClaimsCopyAdmissions, CopiesAdmission, EvidenceIsWhole, Live
<1> QED
  BY BaseInvariant, CopyStep, EvidenceStep, <1>1, PTL DEF Spec, Sound

(* The store, the workers and the request threads together implement the life
   of a job that its submitter is promised (store.py as a whole). *)
THEOREM StoreImplementsLifecycle == Spec => ImplementsLifecycle
  BY SoundInvariant, LifeInit, LifeNext, PTL
  DEF Spec, ImplementsLifecycle, Lifecycle!Spec, LifeStep

-----------------------------------------------------------------------------
(* Readers *)

(* The contribution rows of a job from number a to number b. *)
Pieces(j, e, a, b) == {[job |-> j, ordinal |-> n, evaluation |-> e] : n \in a .. b}

(* The rows a caller has are the first ones, up to its cursor. *)
Paged(me) ==
  LET n == Cardinality(me.rows) IN
  /\ \E e \in Evaluations \cup {NoEvaluation} : me.rows = Pieces(me.job, e, 1, n)
  /\ n \in Nat
  /\ me.step # "complete" => n = me.cursor

(* They are those of the evaluation its job was admitted for. *)
Faithful(me) == me.job \in Live =>
  LET job == jobs[me.job]
      e   == Evaluation(job.input, job.revision)
      n   == Cardinality(me.rows) IN
  /\ me.step \in {"checked", "complete"} \/ me.rows # {} =>
       job.status = "SUCCEEDED" /\ job.tenant = me.tenant
  /\ me.rows = Pieces(me.job, e, 1, n) /\ n <= RowCount[e.input]
  /\ me.step = "complete" => n = RowCount[e.input]

(* What a caller saw last is behind what its job is now. *)
Polled(me) ==
  /\ me.seen \notin {"unseen", "gone"} /\ me.job \in Live =>
       /\ jobs[me.job].tenant = me.tenant
       /\ me.seen = jobs[me.job].status \/ Rank(me.seen) < Rank(jobs[me.job].status)
  /\ me.seen = "gone" => ~OwnRow(me.tenant, me.job)

ReaderInv(me) ==
  /\ me.step = "idle" => me.seen = "unseen" /\ me.rows = {} /\ me.cursor = 0
  /\ me.step # "idle" => me.job \in usedIds
  /\ Paged(me)
  /\ Faithful(me)
  /\ Polled(me)

ReadInv ==
  /\ readers \in [Readers -> Readings]
  /\ \A r \in Readers : ReaderInv(readers[r])

-----------------------------------------------------------------------------
(* Rows and pages. *)

LEMMA PiecesCount ==
  ASSUME NEW j, NEW e, NEW a \in Int, NEW b \in Int
  PROVE  /\ IsFiniteSet(Pieces(j, e, a, b))
         /\ Cardinality(Pieces(j, e, a, b)) = IF a > b THEN 0 ELSE b - a + 1
<1> DEFINE f == [n \in a .. b |-> [job |-> j, ordinal |-> n, evaluation |-> e]]
<1>1. f \in Bijection(a .. b, Pieces(j, e, a, b))
  <2>1. f \in [a .. b -> Pieces(j, e, a, b)]
    BY DEF Pieces
  <2>2. \A m, n \in a .. b : f[m] = f[n] => m = n
    OBVIOUS
  <2>3. \A row \in Pieces(j, e, a, b) : \E n \in a .. b : f[n] = row
    BY DEF Pieces
  <2> QED
    BY <2>1, <2>2, <2>3 DEF Bijection, Injection, Surjection, IsInjective
<1>2. IsFiniteSet(a .. b) /\ Cardinality(a .. b) = IF a > b THEN 0 ELSE b - a + 1
  BY FS_Interval
<1> QED
  BY <1>1, <1>2, FS_Bijection DEF ExistsBijection

(* The k first of the rows behind a cursor c. *)
LEMMA FirstPieces ==
  ASSUME NEW j, NEW e, NEW c \in Nat, NEW last \in Int, NEW k \in Nat
  PROVE  First(k, Pieces(j, e, c + 1, last)) =
           Pieces(j, e, c + 1, IF c + k < last THEN c + k ELSE last)
<1> DEFINE S == Pieces(j, e, c + 1, last)
           Before(row) == {q \in S : q.ordinal < row.ordinal}
           Row(n) == [job |-> j, ordinal |-> n, evaluation |-> e]
<1>1. ASSUME NEW n \in c + 1 .. last PROVE Cardinality(Before(Row(n))) < k <=> n <= c + k
  <2>1. Before(Row(n)) = Pieces(j, e, c + 1, n - 1)
    <3>1. \A m \in c + 1 .. last : m < n <=> m \in c + 1 .. n - 1
      OBVIOUS
    <3>2. \A m \in c + 1 .. n - 1 : m \in c + 1 .. last
      OBVIOUS
    <3>3. Before(Row(n)) = {q \in S : q.ordinal < n}
      OBVIOUS
    <3> QED
      BY <3>1, <3>2, <3>3 DEF Pieces
  <2>2. Cardinality(Pieces(j, e, c + 1, n - 1)) = IF c + 1 > n - 1 THEN 0 ELSE (n - 1) - (c + 1) + 1
    BY PiecesCount
  <2>3. n \in Int /\ n >= c + 1
    OBVIOUS
  <2> HIDE DEF Before, Row
  <2> QED
    BY <2>1, <2>2, <2>3
<1>2. First(k, S) = {row \in S : Cardinality(Before(row)) < k}
  BY DEF First
<1>3. S = {Row(n) : n \in c + 1 .. last}
  BY DEF Pieces
<1>4. {row \in S : Cardinality(Before(row)) < k} = {Row(n) : n \in {m \in c + 1 .. last : m <= c + k}}
  <2> HIDE DEF Before, S
  <2> QED
    BY <1>1, <1>3
<1>5. {m \in c + 1 .. last : m <= c + k} = c + 1 .. (IF c + k < last THEN c + k ELSE last)
  OBVIOUS
<1> QED
  BY <1>2, <1>4, <1>5 DEF Pieces

-----------------------------------------------------------------------------
(* Jobs as their readers see them. *)

(* A drawn id has its row for good or has it no more; what it was admitted
   with stays, and its status only goes on. *)
LEMMA JobGoesOn ==
  ASSUME Base, [Next]_vars, NEW j \in usedIds
  PROVE  /\ j \in usedIds'
         /\ j \in Live' =>
              /\ j \in Live /\ jobs'[j].tenant = jobs[j].tenant
              /\ jobs'[j].input = jobs[j].input /\ jobs'[j].revision = jobs[j].revision
              /\ \/ jobs'[j].status = jobs[j].status
                 \/ Rank(jobs[j].status) < Rank(jobs'[j].status)
<1>0. TypeOK /\ j \in JobIds
  BY DEF Base, TypeOK
<1>1. j \in usedIds'
  BY <1>0 DEF Next, Serve, WorkerStep, Process, Sweep, store, vars, Submit, Insert,
    InsertConflict, Refresh, RereadKey, Replay, LoseRequest, WakeUp, SelectClaim,
    CommitClaim, Evaluate, LockClaim, CommitSuccess, CommitFailure, StartSweep,
    SelectExpired, CommitPurge, Crash, Restart, Tick
<1>2. ASSUME j \in Live'
      PROVE  /\ j \in Live /\ jobs'[j].tenant = jobs[j].tenant
             /\ jobs'[j].input = jobs[j].input /\ jobs'[j].revision = jobs[j].revision
  BY <1>0, <1>2, AdmissionStep DEF Live, Admission
<1>3. ASSUME j \in Live'
      PROVE  \/ jobs'[j].status = jobs[j].status
             \/ Rank(jobs[j].status) < Rank(jobs'[j].status)
  <2>1. ASSUME NEW c \in Clients, Insert(c) PROVE jobs'[j] = jobs[j]
    BY <1>0, <2>1, InsertEffect
  <2>2. ASSUME NEW w \in Workers, CommitClaim(w)
        PROVE  \/ jobs'[j].status = jobs[j].status
               \/ Rank(jobs[j].status) < Rank(jobs'[j].status)
    <3>1. PICK k \in Claimable(at[w]) :
            /\ jobs[k] \in JobRows /\ jobs'[k] = ClaimedRow(k, w)
            /\ \A l \in JobIds \ {k} : jobs'[l] = jobs[l]
      BY <2>2, ClaimEffect
    <3>2. jobs'[k].status = "RUNNING" /\ jobs[k].status \in {"QUEUED", "RUNNING"}
      BY <3>1 DEF ClaimedRow, JobRows, Claimable
    <3> QED
      BY <1>0, <3>1, <3>2 DEF Rank
  <2>3. ASSUME NEW w \in Workers, CommitSuccess(w) \/ CommitFailure(w)
        PROVE  \/ jobs'[j].status = jobs[j].status
               \/ Rank(jobs[j].status) < Rank(jobs'[j].status)
    <3> DEFINE k == claim[w].job
    <3>1. /\ jobs[k] \in JobRows /\ jobs[k].status = "RUNNING"
          /\ jobs'[k] = SucceededRow(w) \/ jobs'[k] = FailedRow(w)
          /\ \A l \in JobIds \ {k} : jobs'[l] = jobs[l]
      BY <2>3, OutcomeEffect DEF OwnsClaim
    <3>2. jobs'[k].status \in {"SUCCEEDED", "FAILED"}
      BY <3>1, ZenonT(60) DEF SucceededRow, FailedRow, JobRows
    <3> QED
      BY <1>0, <3>1, <3>2 DEF Rank
  <2>4. ASSUME NEW w \in Workers, CommitPurge(w) PROVE jobs'[j] = jobs[j]
    BY <1>0, <1>3, <2>4, PurgeEffect DEF Live
  <2> QED
    BY <2>1, <2>2, <2>3, <2>4, Writers
<1> QED
  BY <1>1, <1>2, <1>3

(* A step of the jobs leaves a caller with what it has and saw. *)
LEMMA JobsStepKeeps ==
  ASSUME Base, [Next]_vars, NEW me \in Readings, ReaderInv(me)
  PROVE  ReaderInv(me)'
<1>1. Paged(me)' /\ (me.step = "idle" => me.seen = "unseen" /\ me.rows = {} /\ me.cursor = 0)
  BY DEF ReaderInv, Paged
<1>2. me.step = "idle" => Polled(me)'
  BY <1>1 DEF Polled
<1>3. CASE me.job \in usedIds
  <2> DEFINE j == me.job
  <2>1. /\ j \in usedIds'
        /\ j \in Live' =>
              /\ j \in Live /\ jobs'[j].tenant = jobs[j].tenant
              /\ jobs'[j].input = jobs[j].input /\ jobs'[j].revision = jobs[j].revision
              /\ \/ jobs'[j].status = jobs[j].status
                 \/ Rank(jobs[j].status) < Rank(jobs'[j].status)
    BY <1>3, JobGoesOn
  <2>2. ASSUME j \in Live'
        PROVE  /\ jobs[j].status \in {"QUEUED", "RUNNING", "SUCCEEDED", "FAILED"}
               /\ jobs'[j].status \in {"QUEUED", "RUNNING", "SUCCEEDED", "FAILED"}
               /\ jobs[j].status = "SUCCEEDED" => jobs'[j].status = "SUCCEEDED"
    <3>1. TypeOK /\ TypeOK'
      BY TypeStep DEF Base
    <3>2. jobs[j] \in JobRows /\ jobs'[j] \in JobRows
      BY <2>1, <2>2, <3>1 DEF Live, TypeOK
    <3> QED
      BY <2>1, <2>2, <3>2 DEF JobRows, Rank
  <2>3. Faithful(me)'
    BY <2>1, <2>2 DEF ReaderInv, Faithful, Evaluation
  <2>4. Polled(me)'
    <3>1. me.seen \in Statuses
      BY DEF Readings
    <3>2. ASSUME me.seen \notin {"unseen", "gone"}, j \in Live'
          PROVE  /\ jobs'[j].tenant = me.tenant
                 /\ me.seen = jobs'[j].status \/ Rank(me.seen) < Rank(jobs'[j].status)
      <4>1. /\ jobs[j].tenant = me.tenant
            /\ me.seen = jobs[j].status \/ Rank(me.seen) < Rank(jobs[j].status)
        BY <2>1, <3>2 DEF ReaderInv, Polled
      <4> QED
        BY <2>1, <2>2, <3>1, <3>2, <4>1 DEF Rank, Statuses
    <3>3. ASSUME me.seen = "gone" PROVE ~OwnRow(me.tenant, j)'
      BY <2>1, <3>3 DEF ReaderInv, Polled, OwnRow
    <3> QED
      BY <3>2, <3>3 DEF Polled, OwnRow
  <2> QED
    BY <1>1, <2>1, <2>3, <2>4 DEF ReaderInv
<1>4. CASE me.job \notin usedIds
  <2>1. me.step = "idle" /\ me.rows = {}
    BY <1>1, <1>4 DEF ReaderInv
  <2>2. Cardinality(me.rows) = 0
    BY <2>1, FS_EmptySet
  <2>3. Faithful(me)'
    <3> SUFFICES ASSUME me.job \in Live'
                 PROVE  LET e == Evaluation(jobs'[me.job].input, jobs'[me.job].revision) IN
                        {} = Pieces(me.job, e, 1, 0) /\ 0 <= RowCount[e.input]
      BY <2>1, <2>2 DEF Faithful
    <3>1. jobs'[me.job] \in JobRows
      BY TypeStep DEF Base, TypeOK, Live
    <3>2. RowCount[jobs'[me.job].input] \in Nat
      BY <3>1, CatalogueAssumption DEF JobRows
    <3> QED
      BY <3>2 DEF Pieces, Evaluation
  <2> QED
    BY <1>1, <1>2, <2>1, <2>3 DEF ReaderInv
<1> QED
  BY <1>3, <1>4

-----------------------------------------------------------------------------
(* What a caller reads. *)

(* The step of a caller moves it alone. *)
LEMMA MoveKeeps ==
  ASSUME ReadInv, UNCHANGED vars, NEW r \in Readers, NEW you \in Readings,
         readers' = [readers EXCEPT ![r] = you], ReaderInv(you)
  PROVE  ReadInv'
<1>1. \A me : ReaderInv(me)' <=> ReaderInv(me)
  BY DEF vars, ReaderInv, Paged, Faithful, Polled, OwnRow, Live
<1> QED
  BY <1>1 DEF ReadInv

(* A job that is followed was drawn. *)
LEMMA FollowKeeps ==
  ASSUME Base, KeysAreOwned, ReadInv, NEW r \in Readers, Follow(r)
  PROVE  ReadInv'
<1> DEFINE me == readers[r]
<1>0. /\ me \in Readings /\ ReaderInv(me) /\ UNCHANGED vars
      /\ me.seen = "unseen" /\ me.rows = {} /\ me.cursor = 0
  BY DEF ReadInv, ReaderInv, Follow
<1>1. PICK a \in answers, t \in Tenants :
        readers' = [readers EXCEPT ![r] = [@ EXCEPT !.tenant = t, !.job = a.job,
                                                    !.step = "asking"]]
  BY DEF Follow
<1> DEFINE you == [me EXCEPT !.tenant = t, !.job = a.job, !.step = "asking"]
<1>2. a.job \in JobIds /\ a.job \in usedIds
  BY DEF Base, TypeOK, Answers, KeysAreOwned
<1>3. /\ you \in Readings /\ you.seen = "unseen" /\ you.rows = {} /\ you.cursor = 0
      /\ you.job = a.job /\ you.step = "asking" /\ readers' = [readers EXCEPT ![r] = you]
  BY <1>0, <1>1, <1>2 DEF Readings, Steps, ReadInv
<1> HIDE DEF you
<1>4. Cardinality(you.rows) = 0
  BY <1>3, FS_EmptySet
<1>5. \A e : {} = Pieces(you.job, e, 1, 0)
  BY DEF Pieces
<1>6. Paged(you)
  BY <1>3, <1>4, <1>5 DEF Paged
<1>7. Faithful(you)
  <2> SUFFICES ASSUME a.job \in Live PROVE 0 <= RowCount[jobs[a.job].input]
    BY <1>3, <1>4, <1>5 DEF Faithful, Evaluation
  <2>1. jobs[a.job] \in JobRows
    BY DEF Base, TypeOK, Live
  <2> QED
    BY <2>1, CatalogueAssumption DEF JobRows
<1>8. ReaderInv(you)
  BY <1>2, <1>3, <1>6, <1>7 DEF ReaderInv, Polled
<1> QED
  BY <1>0, <1>3, <1>8, MoveKeeps

LEMMA PollStatusKeeps ==
  ASSUME Base, ReadInv, NEW r \in Readers, PollStatus(r)
  PROVE  ReadInv'
<1> DEFINE me  == readers[r]
           shown == IF OwnRow(me.tenant, me.job) THEN jobs[me.job].status ELSE "gone"
           you == [me EXCEPT !.seen = shown]
<1>0. /\ me \in Readings /\ ReaderInv(me) /\ UNCHANGED vars /\ me.step # "idle"
      /\ readers' = [readers EXCEPT ![r].seen = shown]
  BY DEF ReadInv, PollStatus
<1>1. OwnRow(me.tenant, me.job) =>
        jobs[me.job].status \in {"QUEUED", "RUNNING", "SUCCEEDED", "FAILED"}
  BY DEF OwnRow, Base, TypeOK, Live, JobRows
<1>2. shown \in Statuses /\ shown # "unseen"
  BY <1>1 DEF Statuses
<1>3. /\ you \in Readings /\ you.seen = shown /\ you.rows = me.rows /\ you.cursor = me.cursor
      /\ you.job = me.job /\ you.step = me.step /\ you.tenant = me.tenant
  BY <1>0, <1>2 DEF Readings
<1>4. readers' = [readers EXCEPT ![r] = you]
  BY <1>0 DEF ReadInv
<1> HIDE DEF you
<1>5. Polled(you)
  BY <1>1, <1>3 DEF Polled, OwnRow
<1>6. ReaderInv(you)
  BY <1>0, <1>3, <1>5 DEF ReaderInv, Paged, Faithful
<1> QED
  BY <1>0, <1>3, <1>4, <1>6, MoveKeeps

LEMMA SelectJobKeeps ==
  ASSUME Base, ReadInv, NEW r \in Readers, SelectJob(r)
  PROVE  ReadInv'
<1> DEFINE me   == readers[r]
           next == IF Readable(me.tenant, me.job) THEN "checked" ELSE "refused"
           you  == [me EXCEPT !.step = next]
<1>0. /\ me \in Readings /\ ReaderInv(me) /\ UNCHANGED vars /\ me.step = "asking"
      /\ readers' = [readers EXCEPT ![r].step = next]
  BY DEF ReadInv, SelectJob
<1>1. /\ you \in Readings /\ you.seen = me.seen /\ you.rows = me.rows /\ you.cursor = me.cursor
      /\ you.job = me.job /\ you.step = next /\ you.tenant = me.tenant
  BY <1>0 DEF Readings, Steps
<1>2. readers' = [readers EXCEPT ![r] = you]
  BY <1>0 DEF ReadInv
<1>3. /\ next \in {"checked", "refused"}
      /\ next = "checked" => jobs[me.job].status = "SUCCEEDED" /\ jobs[me.job].tenant = me.tenant
  BY DEF Readable, OwnRow
<1> HIDE DEF you, next
<1>4. Faithful(you)
  BY <1>0, <1>1, <1>3 DEF ReaderInv, Faithful
<1>5. Paged(you) /\ Polled(you)
  BY <1>0, <1>1, <1>3 DEF ReaderInv, Paged, Polled
<1>6. ReaderInv(you)
  BY <1>0, <1>1, <1>3, <1>4, <1>5 DEF ReaderInv
<1> QED
  BY <1>0, <1>1, <1>2, <1>6, MoveKeeps

(* The rows behind a cursor of a job that is gone, and of one that is there. *)
LEMMA RowsBehind ==
  ASSUME Base, EvidenceIsWhole, NEW me \in Readings, ReaderInv(me), me.step = "checked"
  PROVE  /\ me.job \notin Live => RowsAfter(me.job, me.cursor) = {}
         /\ me.job \in Live =>
              LET e == Evaluation(jobs[me.job].input, jobs[me.job].revision) IN
              RowsAfter(me.job, me.cursor) = Pieces(me.job, e, me.cursor + 1, RowCount[e.input])
<1> DEFINE e == Evaluation(jobs[me.job].input, jobs[me.job].revision)
           j == me.job
<1>1. ASSUME j \notin Live PROVE RowsAfter(j, me.cursor) = {}
  BY <1>1 DEF RowsAfter, EvidenceIsWhole
<1>2. ASSUME j \in Live
      PROVE  RowsAfter(j, me.cursor) = Pieces(j, e, me.cursor + 1, RowCount[e.input])
  <2>1. jobs[j].status = "SUCCEEDED"
    BY <1>2 DEF ReaderInv, Faithful
  <2>2. {row \in contributions : row.job = j} = EvidenceRows(j, e)
    BY <1>2, <2>1 DEF EvidenceIsWhole
  <2>3. RowsAfter(j, me.cursor) = {row \in EvidenceRows(j, e) : row.ordinal > me.cursor}
    BY <2>2 DEF RowsAfter
  <2>4. jobs[j] \in JobRows /\ me.cursor \in Nat
    BY <1>2 DEF Base, TypeOK, Live, Readings
  <2>5. RowCount[e.input] \in Nat
    BY <2>4, CatalogueAssumption DEF JobRows, Evaluation
  <2>6. \A n \in Nat : n \in 1 .. RowCount[e.input] /\ n > me.cursor
                       <=> n \in me.cursor + 1 .. RowCount[e.input]
    BY <2>4, <2>5
  <2>7. \A n : n \in 1 .. RowCount[e.input] \/ n \in me.cursor + 1 .. RowCount[e.input] => n \in Nat
    BY <2>4, <2>5
  <2> HIDE DEF e
  <2> QED
    BY <2>3, <2>6, <2>7 DEF EvidenceRows, Pieces
<1> QED
  BY <1>1, <1>2

LEMMA SelectRowsKeeps ==
  ASSUME Base, EvidenceIsWhole, ReadInv, NEW r \in Readers, SelectRows(r)
  PROVE  ReadInv'
<1> DEFINE me      == readers[r]
           j       == me.job
           c       == me.cursor
           fetched == First(FetchLimit, RowsAfter(j, c))
           page    == First(PageLimit, fetched)
           more    == Cardinality(fetched) > PageLimit /\ page # {}
           e       == Evaluation(jobs[j].input, jobs[j].revision)
           all     == RowCount[e.input]
<1>0. /\ me \in Readings /\ ReaderInv(me) /\ UNCHANGED vars /\ me.step = "checked"
      /\ c \in Nat /\ Cardinality(me.rows) = c /\ PageLimit \in Nat \ {0}
  BY PageLimitAssumption DEF ReadInv, SelectRows, ReaderInv, Paged, Readings
<1>1. page \subseteq ContributionRows
  BY DEF Base, TypeOK, First, RowsAfter
<1>2. \/ /\ more
         /\ \E last \in page :
              /\ \A row \in page : row.ordinal <= last.ordinal
              /\ readers' = [readers EXCEPT ![r] =
                   [me EXCEPT !.rows = me.rows \cup page, !.cursor = last.ordinal,
                              !.step = "asking"]]
      \/ /\ ~more
         /\ readers' = [readers EXCEPT ![r] =
              [me EXCEPT !.rows = me.rows \cup page, !.step = "complete"]]
  BY DEF SelectRows
<1>3. CASE j \notin Live
  <2> DEFINE you == [me EXCEPT !.rows = me.rows \cup page, !.step = "complete"]
  <2>1. page = {}
    BY <1>0, <1>3, RowsBehind DEF First
  <2>2. readers' = [readers EXCEPT ![r] = you]
    BY <1>2, <2>1
  <2>3. /\ you \in Readings /\ you.seen = me.seen /\ you.rows = me.rows /\ you.cursor = c
        /\ you.job = j /\ you.step = "complete" /\ you.tenant = me.tenant
    BY <1>0, <2>1 DEF Readings, Steps
  <2> HIDE DEF you
  <2>4. ReaderInv(you)
    BY <1>0, <1>3, <2>3 DEF ReaderInv, Paged, Faithful, Polled
  <2> QED
    BY <1>0, <2>2, <2>3, <2>4, MoveKeeps
<1>4. CASE j \in Live
  <2>1. /\ RowsAfter(j, c) = Pieces(j, e, c + 1, all)
        /\ me.rows = Pieces(j, e, 1, c) /\ c <= all
        /\ jobs[j].status = "SUCCEEDED" /\ jobs[j].tenant = me.tenant
    BY <1>0, <1>4, RowsBehind DEF ReaderInv, Faithful
  <2>2. all \in Nat /\ e \in Evaluations
    <3>1. jobs[j] \in JobRows
      BY <1>4 DEF Base, TypeOK, Live
    <3> QED
      BY <3>1, CatalogueAssumption DEF JobRows, Evaluation, Evaluations
  <2> HIDE DEF all, e, j, c
  <2> DEFINE end == IF c + FetchLimit < all THEN c + FetchLimit ELSE all
             to  == IF c + PageLimit < all THEN c + PageLimit ELSE all
  <2>3. fetched = Pieces(j, e, c + 1, end)
    BY <1>0, <2>1, <2>2, FirstPieces DEF FetchLimit
  <2>4. end \in Int /\ (c + PageLimit < end <=> c + PageLimit < all) /\ end <= all
    BY <1>0, <2>2 DEF FetchLimit
  <2>5. page = Pieces(j, e, c + 1, to)
    <3>1. page = Pieces(j, e, c + 1, IF c + PageLimit < end THEN c + PageLimit ELSE end)
      BY <1>0, <2>3, <2>4, FirstPieces
    <3>2. ~(c + PageLimit < all) => end = all
      BY <1>0, <2>2 DEF FetchLimit
    <3> QED
      BY <2>4, <3>1, <3>2
  <2>6. Cardinality(fetched) = IF c + 1 > end THEN 0 ELSE end - (c + 1) + 1
    BY <1>0, <2>3, <2>4, PiecesCount
  <2>7. Cardinality(fetched) > PageLimit <=> c + PageLimit < all
    BY <1>0, <2>2, <2>4, <2>6
  <2>8. me.rows \cup page = Pieces(j, e, 1, to)
    <3>1. to \in Int /\ to >= c
      BY <1>0, <2>1, <2>2
    <3>2. \A n \in Int : n \in 1 .. c \/ n \in c + 1 .. to <=> n \in 1 .. to
      BY <1>0, <3>1
    <3> HIDE DEF to, page
    <3> QED
      BY <2>1, <2>5, <3>2 DEF Pieces
  <2>9. Cardinality(Pieces(j, e, 1, to)) = to /\ to \in Nat /\ to <= all
    <3>1. to \in Nat /\ to <= all
      BY <1>0, <2>2
    <3>2. Cardinality(Pieces(j, e, 1, to)) = IF 1 > to THEN 0 ELSE to - 1 + 1
      BY <3>1, PiecesCount
    <3> QED
      BY <3>1, <3>2
  <2>10. \E k \in Nat, s \in {"asking", "complete"} :
           /\ readers' = [readers EXCEPT ![r] =
                [me EXCEPT !.rows = me.rows \cup page, !.cursor = k, !.step = s]]
           /\ s = "complete" => to = all
           /\ s = "asking" => k = to
    <3>1. CASE more
      <4>1. PICK last \in page :
              /\ \A row \in page : row.ordinal <= last.ordinal
              /\ readers' = [readers EXCEPT ![r] =
                   [me EXCEPT !.rows = me.rows \cup page, !.cursor = last.ordinal,
                              !.step = "asking"]]
        BY <1>2, <3>1
      <4>2. to = c + PageLimit /\ to \in c + 1 .. to
        BY <1>0, <2>7, <3>1
      <4>3. [job |-> j, ordinal |-> to, evaluation |-> e] \in page
        BY <2>5, <4>2 DEF Pieces
      <4>4. PICK n \in c + 1 .. to : last = [job |-> j, ordinal |-> n, evaluation |-> e]
        BY <2>5, <4>1 DEF Pieces
      <4>5. to <= last.ordinal
        BY <4>1, <4>3
      <4>6. last.ordinal = to
        BY <2>9, <4>4, <4>5, <1>0
      <4> QED
        BY <2>9, <4>1, <4>6
    <3>2. CASE ~more
      <4>1. ~(c + PageLimit < all)
        <5>1. c + PageLimit < all => c + 1 \in c + 1 .. to
          BY <1>0, <2>2
        <5>2. c + PageLimit < all => page # {}
          BY <2>5, <5>1 DEF Pieces
        <5> QED
          BY <2>7, <3>2, <5>2
      <4>2. readers' = [readers EXCEPT ![r] =
              [me EXCEPT !.rows = me.rows \cup page, !.cursor = c, !.step = "complete"]]
        <5>1. [me EXCEPT !.rows = me.rows \cup page, !.step = "complete"] =
                [me EXCEPT !.rows = me.rows \cup page, !.cursor = c, !.step = "complete"]
          <6> HIDE DEF page
          <6> QED
            BY <1>0 DEF Readings, c
        <5> QED
          BY <1>2, <3>2, <5>1
      <4> QED
        BY <1>0, <4>1, <4>2
    <3> QED
      BY <3>1, <3>2
  <2>11. PICK k \in Nat, s \in {"asking", "complete"} :
           /\ readers' = [readers EXCEPT ![r] =
                [me EXCEPT !.rows = me.rows \cup page, !.cursor = k, !.step = s]]
           /\ s = "complete" => to = all
           /\ s = "asking" => k = to
    BY <2>10
  <2> DEFINE you == [me EXCEPT !.rows = me.rows \cup page, !.cursor = k, !.step = s]
  <2>12. /\ you \in Readings /\ you.seen = me.seen /\ you.rows = me.rows \cup page
         /\ you.cursor = k /\ you.job = me.job /\ you.step = s /\ you.tenant = me.tenant
    BY <1>0, <1>1 DEF Readings, Steps
  <2>13. readers' = [readers EXCEPT ![r] = you]
    BY <2>11
  <2> HIDE DEF you, to, page, fetched
  <2>14. /\ you.rows = Pieces(you.job, e, 1, to) /\ Cardinality(you.rows) = to
         /\ you.job = j
         /\ you.step # "complete" => to = you.cursor
    BY <2>8, <2>9, <2>11, <2>12 DEF j
  <2>15. Paged(you)
    BY <2>2, <2>9, <2>14 DEF Paged, Evaluations
  <2>16. Faithful(you)
    BY <2>1, <2>9, <2>11, <2>12, <2>14 DEF Faithful, e, all, j
  <2>17. Polled(you)
    BY <1>0, <2>12 DEF ReaderInv, Polled
  <2>18. ReaderInv(you)
    BY <1>0, <2>11, <2>12, <2>15, <2>16, <2>17 DEF ReaderInv
  <2> QED
    BY <1>0, <2>12, <2>13, <2>18, MoveKeeps
<1> QED
  BY <1>3, <1>4

-----------------------------------------------------------------------------
(* Readers among the processes of ScenarioJobs. *)

(* Who only reads changes nothing of the jobs, the workers and the clients. *)
LEMMA ReadingIsInvisible == ReadSpec => Spec
<1>1. ReadInit => Init
  BY DEF ReadInit
<1>2. [ReadNext]_readVars => [Next]_vars
  BY DEF ReadNext, Read, readVars, Follow, PollStatus, SelectJob, SelectRows
<1> QED
  BY <1>1, <1>2, PTL DEF ReadSpec, Spec

LEMMA ReadInitHolds == ReadInit => ReadInv
<1>1. ReadInit => readers \in [Readers -> Readings]
  BY DEF ReadInit, Readings, Steps, Statuses
<1> SUFFICES ASSUME ReadInit, NEW r \in Readers
             PROVE  ReaderInv(readers[r])
  BY <1>1 DEF ReadInv
<1> DEFINE me == readers[r]
<1>2. me.job = NoJob /\ me.step = "idle" /\ me.cursor = 0 /\ me.rows = {} /\ me.seen = "unseen"
  BY DEF ReadInit
<1>3. me.job \notin Live
  BY <1>2, SentinelAssumption DEF Live
<1>4. Cardinality(me.rows) = 0 /\ me.rows = Pieces(me.job, NoEvaluation, 1, 0)
  BY <1>2, FS_EmptySet DEF Pieces
<1>5. Paged(me)
  BY <1>2, <1>4 DEF Paged
<1> QED
  BY <1>2, <1>3, <1>5 DEF ReaderInv, Faithful, Polled

LEMMA ReadStepKeeps ==
  Base /\ KeysAreOwned /\ EvidenceIsWhole /\ ReadInv /\ [ReadNext]_readVars => ReadInv'
<1> SUFFICES ASSUME Base, KeysAreOwned, EvidenceIsWhole, ReadInv, [ReadNext]_readVars
             PROVE  ReadInv'
  OBVIOUS
<1>1. ASSUME [Next]_vars, UNCHANGED readers PROVE ReadInv'
  BY <1>1, JobsStepKeeps DEF ReadInv
<1>2. ASSUME NEW r \in Readers, Read(r) PROVE ReadInv'
  BY <1>2, FollowKeeps, PollStatusKeeps, SelectJobKeeps, SelectRowsKeeps DEF Read
<1> QED
  BY <1>1, <1>2 DEF ReadNext, readVars

LEMMA ReadInvariance == ReadSpec => [](Base /\ ReadInv)
  BY ReadingIsInvisible, BaseInvariant, KeysInvariant, EvidenceIsComplete,
     ReadInitHolds, ReadStepKeeps, PTL
  DEF ReadSpec

(* What a caller's pages have shown it is the beginning of the evidence of its
   job, in order, once and of its own tenant, and all of it when they end,
   while the job is there (contribution_page). *)
THEOREM PagesTellTheEvidence == ReadSpec => []PagesAreWhole
<1>1. Base /\ ReadInv => PagesAreWhole
  <2> SUFFICES ASSUME Base, ReadInv, NEW r \in Readers
               PROVE  LET me  == readers[r]
                          job == jobs[me.job]
                          all == EvidenceRows(me.job, Evaluation(job.input, job.revision)) IN
                      /\ {row.ordinal : row \in me.rows} = 1 .. Cardinality(me.rows)
                      /\ me.job \in Live =>
                           /\ me.rows \subseteq all
                           /\ me.rows # {} => job.tenant = me.tenant
                           /\ me.step = "complete" => me.rows = all
    BY DEF PagesAreWhole
  <2> DEFINE me == readers[r]
             n  == Cardinality(me.rows)
             e  == Evaluation(jobs[me.job].input, jobs[me.job].revision)
  <2>1. ReaderInv(me)
    BY DEF ReadInv
  <2>2. {row.ordinal : row \in me.rows} = 1 .. n
    <3>1. PICK x : me.rows = Pieces(me.job, x, 1, n)
      BY <2>1 DEF ReaderInv, Paged
    <3>2. {row.ordinal : row \in Pieces(me.job, x, 1, n)} = 1 .. n
      <4> HIDE DEF n
      <4>1. \A i \in 1 .. n : \E row \in Pieces(me.job, x, 1, n) : row.ordinal = i
        <5> SUFFICES ASSUME NEW i \in 1 .. n
                     PROVE  \E row \in Pieces(me.job, x, 1, n) : row.ordinal = i
          OBVIOUS
        <5>1. [job |-> me.job, ordinal |-> i, evaluation |-> x] \in Pieces(me.job, x, 1, n)
          BY DEF Pieces
        <5> QED
          BY <5>1
      <4>2. \A row \in Pieces(me.job, x, 1, n) : row.ordinal \in 1 .. n
        BY DEF Pieces
      <4> QED
        BY <4>1, <4>2
    <3> QED
      BY <3>1, <3>2
  <2>3. ASSUME me.job \in Live
        PROVE  /\ me.rows \subseteq EvidenceRows(me.job, e)
               /\ me.rows # {} => jobs[me.job].tenant = me.tenant
               /\ me.step = "complete" => me.rows = EvidenceRows(me.job, e)
    <3>1. /\ me.rows = Pieces(me.job, e, 1, n) /\ n <= RowCount[e.input] /\ n \in Nat
          /\ me.rows # {} => jobs[me.job].tenant = me.tenant
          /\ me.step = "complete" => n = RowCount[e.input]
      BY <2>1, <2>3 DEF ReaderInv, Faithful, Paged
    <3>2. RowCount[e.input] \in Nat
      <4>1. jobs[me.job] \in JobRows
        BY <2>3 DEF Base, TypeOK, Live
      <4> QED
        BY <4>1, CatalogueAssumption DEF JobRows, Evaluation
    <3> HIDE DEF n, e
    <3>3. 1 .. n \subseteq 1 .. RowCount[e.input]
      BY <3>1, <3>2
    <3> QED
      BY <3>1, <3>3 DEF Pieces, EvidenceRows
  <2> QED
    BY <2>2, <2>3
<1> QED
  BY <1>1, ReadInvariance, PTL

(* What one step of StatusAdvances asks for. *)
AdvanceStep ==
  \A r \in Readers :
    LET old == readers[r].seen  new == readers'[r].seen IN
    Rank(old) < Rank(new) \/ old = new

(* A poll never tells less than the one before, and never another outcome
   (get_for_tenant against the worker's transactions). *)
THEOREM PollsAdvance == ReadSpec => StatusAdvances
<1>1. Base /\ ReadInv /\ [ReadNext]_readVars => AdvanceStep
  <2> SUFFICES ASSUME Base, ReadInv, [ReadNext]_readVars, NEW r \in Readers,
                      readers'[r].seen # readers[r].seen
               PROVE  Rank(readers[r].seen) < Rank(readers'[r].seen)
    BY DEF AdvanceStep
  <2> DEFINE me == readers[r]
  <2>1. me \in Readings /\ Polled(me)
    BY DEF ReadInv, ReaderInv
  <2>2. PollStatus(r)
    <3>1. PICK q \in Readers : Read(q)
      BY DEF ReadNext, readVars
    <3>2. r = q
      BY <3>1 DEF ReadInv, Read, Follow, PollStatus, SelectJob, SelectRows
    <3>3. ~Follow(r)
      BY <2>1, ZenonT(60) DEF ReadInv, Follow, Readings
    <3>4. ~SelectJob(r)
      BY <2>1 DEF ReadInv, SelectJob, Readings
    <3>5. ~SelectRows(r)
      <4>1. ASSUME NEW page, NEW k,
                   readers' = [readers EXCEPT ![r] =
                     [me EXCEPT !.rows = me.rows \cup page, !.cursor = k, !.step = "asking"]]
            PROVE  FALSE
        BY <2>1, <4>1 DEF ReadInv, Readings
      <4>2. ASSUME NEW page,
                   readers' = [readers EXCEPT ![r] =
                     [me EXCEPT !.rows = me.rows \cup page, !.step = "complete"]]
            PROVE  FALSE
        BY <2>1, <4>2 DEF ReadInv, Readings
      <4> QED
        BY <4>1, <4>2 DEF SelectRows
    <3> QED
      BY <3>1, <3>2, <3>3, <3>4, <3>5 DEF Read
  <2>3. readers'[r].seen = IF OwnRow(me.tenant, me.job) THEN jobs[me.job].status ELSE "gone"
    BY <2>2 DEF PollStatus, ReadInv, Readings
  <2>4. CASE OwnRow(me.tenant, me.job)
    <3>1. jobs[me.job].status \in {"QUEUED", "RUNNING", "SUCCEEDED", "FAILED"}
      BY <2>4 DEF OwnRow, Base, TypeOK, Live, JobRows
    <3> QED
      BY <2>1, <2>3, <2>4, <3>1 DEF Polled, OwnRow, Rank, Readings, Statuses
  <2>5. CASE ~OwnRow(me.tenant, me.job)
    BY <2>1, <2>3, <2>5 DEF Rank, Readings, Statuses
  <2> QED
    BY <2>4, <2>5
<1> QED
  BY <1>1, ReadInvariance, PTL DEF ReadSpec, StatusAdvances, AdvanceStep
===============================================================================
