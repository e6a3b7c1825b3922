---------------------------- MODULE ScenarioJobs ----------------------------
(***************************************************************************)
(* The durable scenario-evaluation jobs of lotus-risk                      *)
(* (src/src/app/scenario_jobs): API request threads (Clients) admit a job  *)
(* under a tenant's idempotency key; scenario workers claim a job under a  *)
(* lease and a fresh token, evaluate its immutable input and publish the   *)
(* outcome through that token; the same workers purge expired jobs.        *)
(*                                                                         *)
(* The shared state is the relational store.  A transaction that locks     *)
(* rows is two steps, the locking SELECT and the commit, so the steps of   *)
(* the other processes fall between them; a transaction of one statement   *)
(* is one step.  `held' names the rows a process has locked: FOR UPDATE    *)
(* waits for them, SKIP LOCKED passes over them.                           *)
(***************************************************************************)
EXTENDS Integers, FiniteSets

CONSTANTS
  Workers, Clients,    \* scenario worker processes; API request threads
  Tenants, Keys,       \* tenant identities; Idempotency-Key values
  JobIds,              \* the uuid4 values a job can get: ordered, never repeated
  Inputs,              \* request contents; an input stands for its sha256 too
  Revisions,           \* revisions a scenario pack can have
  NoRevision,          \* what a build without the input's pack has for it
  Builds,              \* deployed builds of the service
  Catalogue,           \* Catalogue[b][i]: revision, in build b, of input i's pack
  Evaluable,           \* Evaluable[b]: inputs build b parses and evaluates
  RowCount,            \* RowCount[i]: contribution rows of an evaluation of i
  Lease,               \* Lease[w]: worker w's --lease-seconds
  Retention,           \* LOTUS_RISK_SCENARIO_JOB_RETENTION_HOURS
  CleanupLimit,        \* --cleanup-limit
  Skew,                \* how far a process's clock may be from the true time
  MaxTime,             \* bound: the last instant of the true time
  SubmitUntil,         \* bound: submissions start before this instant only
  CrashUntil,          \* bound: processes are lost before this instant only
  MaxClaims,           \* bound: how many claim tokens are ever drawn
  NoJob, NoClaim, NoRequest, NoEvaluation  \* no row, record, request, result

(* The clock is read where the code reads it, and used later. *)
Times   == 0 .. MaxTime + Skew
NoTime  == -1
NoToken == 0

ASSUME CatalogueAssumption ==
  /\ NoRevision \notin Revisions
  /\ Catalogue \in [Builds -> [Inputs -> Revisions \cup {NoRevision}]]
  /\ Evaluable \in [Builds -> SUBSET Inputs]
  /\ RowCount \in [Inputs -> Nat \ {0}]

ASSUME ConfigurationAssumption ==
  /\ JobIds \subseteq Nat
  /\ Lease \in [Workers -> Nat \ {0}]
  /\ Retention \in Nat \ {0}
  /\ CleanupLimit \in Nat \ {0}
  /\ Skew \in Nat /\ MaxTime \in Nat /\ MaxClaims \in Nat
  /\ SubmitUntil \in Nat /\ CrashUntil \in Nat

ASSUME ProcessAssumption == Workers \cap Clients = {}

VARIABLES
  jobs,           \* table scenario_evaluation_jobs: id -> row or NoJob
  contributions,  \* table scenario_evaluation_job_contributions: set of rows
  usedIds,        \* uuids drawn for jobs so far
  nextToken,      \* the next fresh claim token
  now,            \* the true time
  held,           \* process -> ids of the rows its open transaction has locked
  pc,             \* process -> where it is
  at,             \* worker -> its last reading of the clock
  build,          \* worker -> the build it runs
  claim,          \* worker -> the record claim_next returned
  verdict,        \* worker -> the terminal state it is about to record
  request,        \* client -> the submission it is serving
  answers         \* history: the submissions answered 202, with their job

store == <<jobs, contributions, usedIds, nextToken, held>>
local == <<at, build, claim, verdict>>
vars  == <<jobs, contributions, usedIds, nextToken, now, held, pc, at, build,
           claim, verdict, request, answers>>

Processes == Workers \cup Clients

Failures == {"SCENARIO_PACK_REVISION_UNAVAILABLE", "SCENARIO_EVALUATION_INVALID_INPUT"}
Verdicts == {"SUCCEEDED"} \cup Failures
NoFailure == "none"
NoVerdict == "undecided"

WorkerSteps == {"asleep", "claiming", "claimed", "evaluating", "deciding",
                "recording", "finished", "sweeping", "purging", "down"}
ClientSteps == {"idle", "admitting", "created", "conflicted", "replaying"}

(* An evaluation is a pure function of the input and the pack revision. *)
Evaluations  == [input : Inputs, revision : Revisions]
Evaluation(i, r) == [input |-> i, revision |-> r]

JobRows == [tenant : Tenants, key : Keys, input : Inputs, revision : Revisions,
            status : {"QUEUED", "RUNNING", "SUCCEEDED", "FAILED"},
            token : Nat, leaseExpiresAt : Int, attempts : Nat,
            failure : Failures \cup {NoFailure},
            result : Evaluations \cup {NoEvaluation},
            submittedAt : Int, expiresAt : Int, completedAt : Int]

ContributionRows == [job : JobIds, ordinal : Nat, evaluation : Evaluations]

ClaimRecords == [job : JobIds, token : Nat, input : Inputs, revision : Revisions]

Requests == [tenant : Tenants, key : Keys, input : Inputs, revision : Revisions,
             at : Int, job : JobIds \cup {NoJob}]
Answers == [tenant : Tenants, key : Keys, input : Inputs, job : JobIds]

ASSUME SentinelAssumption ==
  /\ NoJob \notin JobRows \cup JobIds
  /\ NoClaim \notin ClaimRecords
  /\ NoRequest \notin Requests
  /\ NoEvaluation \notin Evaluations

Live == {j \in JobIds : jobs[j] # NoJob}
Held == UNION {held[p] : p \in Processes}

(* Mutant: the rows other transactions hold are not passed over. *)
AllRows(S) == S

(* The rows of S a statement with SKIP LOCKED sees. *)
SkipLocked(S) == S \ Held

(* The rows of a successful evaluation of one job, as _contribution_records
   flattens them. *)
EvidenceRows(j, e) ==
  {[job |-> j, ordinal |-> n, evaluation |-> e] : n \in 1 .. RowCount[e.input]}

(* A reading of a process's clock. *)
Reading(t) == t \in now - Skew .. now + Skew

-----------------------------------------------------------------------------
(* Submission: routers/scenario_jobs.py, service.submit_scenario_job and
   store.submit, in a request thread of an API replica of any build. *)

KeyRows(t, k) == {j \in Live : jobs[j].tenant = t /\ jobs[j].key = k}

(* The pack must be in the replica's catalogue (a 400 without effect
   otherwise); the clock and the revision are read before the transaction. *)
Submit(c) ==
  /\ pc[c] = "idle"
  /\ now < SubmitUntil
  /\ \E t \in Tenants, k \in Keys, i \in Inputs, b \in Builds, m \in Times :
       /\ Catalogue[b][i] # NoRevision
       /\ Reading(m)
       /\ request' = [request EXCEPT ![c] =
            [tenant |-> t, key |-> k, input |-> i, revision |-> Catalogue[b][i],
             at |-> m, job |-> NoJob]]
  /\ pc' = [pc EXCEPT ![c] = "admitting"]
  /\ UNCHANGED <<store, now, local, answers>>

(* Mutant: the admission stores its outward word for the status. *)
AcceptedRow(r) ==
  [tenant |-> r.tenant, key |-> r.key, input |-> r.input, revision |-> r.revision,
   status |-> "ACCEPTED", token |-> NoToken, leaseExpiresAt |-> NoTime, attempts |-> 0,
   failure |-> NoFailure, result |-> NoEvaluation,
   submittedAt |-> r.at, expiresAt |-> r.at + Retention, completedAt |-> NoTime]

QueuedRow(r) ==
  [tenant |-> r.tenant, key |-> r.key, input |-> r.input, revision |-> r.revision,
   status |-> "QUEUED", token |-> NoToken, leaseExpiresAt |-> NoTime, attempts |-> 0,
   failure |-> NoFailure, result |-> NoEvaluation,
   submittedAt |-> r.at, expiresAt |-> r.at + Retention, completedAt |-> NoTime]

(* A row another transaction is deleting makes the uniqueness check wait. *)
KeyPurging(t, k) ==
  \E w \in Workers : pc[w] = "purging" /\ held[w] \cap KeyRows(t, k) # {}

Insert(c) ==
  LET r == request[c] IN
  /\ pc[c] = "admitting"
  /\ KeyRows(r.tenant, r.key) = {}
  /\ \E j \in JobIds \ usedIds :
       /\ usedIds' = usedIds \cup {j}
       /\ jobs' = [jobs EXCEPT ![j] = QueuedRow(r)]
       /\ request' = [request EXCEPT ![c].job = j]
  /\ pc' = [pc EXCEPT ![c] = "created"]
  /\ UNCHANGED <<contributions, nextToken, held, now, local, answers>>

(* IntegrityError, and the rollback. *)
InsertConflict(c) ==
  LET r == request[c] IN
  /\ pc[c] = "admitting"
  /\ KeyRows(r.tenant, r.key) # {}
  /\ ~KeyPurging(r.tenant, r.key)
  /\ pc' = [pc EXCEPT ![c] = "conflicted"]
  /\ UNCHANGED <<store, now, local, request, answers>>

Answer(c, j) ==
  answers' = answers \cup {[tenant |-> request[c].tenant, key |-> request[c].key,
                            input |-> request[c].input, job |-> j]}

(* The request ends: an answer, an error, or the loss of either. *)
EndRequest(c) ==
  /\ pc' = [pc EXCEPT ![c] = "idle"]
  /\ request' = [request EXCEPT ![c] = NoRequest]

(* The committed row is read back; it may be gone by then, an error. *)
Refresh(c) ==
  /\ pc[c] = "created"
  /\ IF jobs[request[c].job] # NoJob THEN Answer(c, request[c].job)
                                     ELSE UNCHANGED answers
  /\ EndRequest(c)
  /\ UNCHANGED <<store, now, local>>

(* The row that holds the key is read again under a lock.  It may be gone:
   RuntimeError, no answer. *)
RereadKey(c) ==
  LET rows == KeyRows(request[c].tenant, request[c].key) IN
  /\ pc[c] = "conflicted"
  /\ \/ /\ rows = {}
        /\ EndRequest(c)
        /\ UNCHANGED held
     \/ \E j \in rows :
        /\ j \notin Held
        /\ held' = [held EXCEPT ![c] = {j}]
        /\ pc' = [pc EXCEPT ![c] = "replaying"]
        /\ UNCHANGED request
  /\ UNCHANGED <<jobs, contributions, usedIds, nextToken, now, local, answers>>

(* Mutant: the fingerprints are not compared. *)
AnyRequest(c, j) == TRUE

SameRequest(c, j) == jobs[j].input = request[c].input

(* A different fingerprint is a conflict (409); the same one replays the job. *)
Replay(c) ==
  /\ pc[c] = "replaying"
  /\ \E j \in held[c] :
       IF SameRequest(c, j) THEN Answer(c, j) ELSE UNCHANGED answers
  /\ held' = [held EXCEPT ![c] = {}]
  /\ EndRequest(c)
  /\ UNCHANGED <<jobs, contributions, usedIds, nextToken, now, local>>

(* The replica dies or its connection drops: the open transaction rolls
   back and the caller gets no answer. *)
LoseRequest(c) ==
  /\ pc[c] # "idle"
  /\ now < CrashUntil
  /\ held' = [held EXCEPT ![c] = {}]
  /\ EndRequest(c)
  /\ UNCHANGED <<jobs, contributions, usedIds, nextToken, now, local, answers>>

-----------------------------------------------------------------------------
(* A worker's pass: worker.main claims and processes at most one job, then
   purges one batch.  *)

WakeUp(w) ==
  /\ pc[w] = "asleep"
  /\ \E m \in Times : Reading(m) /\ at' = [at EXCEPT ![w] = m]
  /\ pc' = [pc EXCEPT ![w] = "claiming"]
  /\ UNCHANGED <<store, now, build, claim, verdict, request, answers>>

(* ORDER BY submitted_at, job_id. *)
SubmittedBefore(j, l) ==
  \/ jobs[j].submittedAt < jobs[l].submittedAt
  \/ jobs[j].submittedAt = jobs[l].submittedAt /\ j < l

(* Mutant: a lapsed lease alone makes a job claimable. *)
LapsedInAnyStatus(t) ==
  {j \in Live : /\ \/ jobs[j].status = "QUEUED"
                   \/ jobs[j].leaseExpiresAt # NoTime /\ jobs[j].leaseExpiresAt <= t
                /\ jobs[j].expiresAt > t}

(* Mutant: a running job is claimable whatever its lease. *)
RunningOrQueued(t) ==
  {j \in Live : jobs[j].status \in {"QUEUED", "RUNNING"} /\ jobs[j].expiresAt > t}

(* Mutant: a running job is never claimed again. *)
QueuedOnly(t) == {j \in Live : jobs[j].status = "QUEUED" /\ jobs[j].expiresAt > t}

Claimable(t) ==
  {j \in Live : /\ \/ jobs[j].status = "QUEUED"
                   \/ /\ jobs[j].status = "RUNNING"
                      /\ jobs[j].leaseExpiresAt # NoTime
                      /\ jobs[j].leaseExpiresAt <= t
                /\ jobs[j].expiresAt > t}

(* The locking SELECT of claim_next, with SKIP LOCKED. *)
SelectClaim(w) ==
  LET free == SkipLocked(Claimable(at[w])) IN
  /\ pc[w] = "claiming"
  /\ \/ /\ free = {}
        /\ pc' = [pc EXCEPT ![w] = "finished"]
        /\ UNCHANGED held
     \/ \E j \in free :
        /\ \A l \in free \ {j} : SubmittedBefore(j, l)
        /\ held' = [held EXCEPT ![w] = {j}]
        /\ pc' = [pc EXCEPT ![w] = "claimed"]
  /\ UNCHANGED <<jobs, contributions, usedIds, nextToken, now, local, request, answers>>

(* Mutant: a reclaim keeps the token of the lapsed claim. *)
KeptToken(j) == IF jobs[j].token = NoToken THEN nextToken ELSE jobs[j].token

(* A uuid4, new at every claim. *)
ClaimToken(j) == nextToken

ClaimedRow(j, w) ==
  [jobs[j] EXCEPT !.status = "RUNNING", !.token = ClaimToken(j),
                  !.leaseExpiresAt = at[w] + Lease[w], !.attempts = @ + 1,
                  !.failure = NoFailure]

ClaimRecord(j) == [job |-> j, token |-> ClaimToken(j),
                   input |-> jobs[j].input, revision |-> jobs[j].revision]

(* The claim commits: the row gets a fresh token and a lease counted from the
   reading taken before the transaction, and the worker gets the record. *)
CommitClaim(w) ==
  /\ pc[w] = "claimed"
  /\ nextToken <= MaxClaims
  /\ \E j \in held[w] :
       /\ jobs' = [jobs EXCEPT ![j] = ClaimedRow(j, w)]
       /\ claim' = [claim EXCEPT ![w] = ClaimRecord(j)]
  /\ nextToken' = nextToken + 1
  /\ held' = [held EXCEPT ![w] = {}]
  /\ pc' = [pc EXCEPT ![w] = "evaluating"]
  /\ UNCHANGED <<contributions, usedIds, now, at, build, verdict, request, answers>>

(* Mutant: the worker evaluates with the revision it has. *)
UnpinnedVerdicts(b, cl) ==
  IF Catalogue[b][cl.input] # NoRevision /\ cl.input \in Evaluable[b]
    THEN {"SUCCEEDED"} ELSE {"SCENARIO_EVALUATION_INVALID_INPUT"}

(* The verdicts _evaluate_claim can reach: an input this build cannot parse
   or evaluate and a pack it does not have are invalid input, a revision that
   is not the admitted one is a qualified failure. *)
VerdictsOf(b, cl) ==
  LET r == Catalogue[b][cl.input] IN
  {v \in Verdicts :
     \/ v = "SUCCEEDED" /\ r = cl.revision /\ cl.input \in Evaluable[b]
     \/ v = "SCENARIO_PACK_REVISION_UNAVAILABLE" /\ r # NoRevision /\ r # cl.revision
     \/ v = "SCENARIO_EVALUATION_INVALID_INPUT"
        /\ (r = NoRevision \/ cl.input \notin Evaluable[b])}

(* The evaluation ends and the clock is read for the outcome. *)
Evaluate(w) ==
  /\ pc[w] = "evaluating"
  /\ \E v \in VerdictsOf(build[w], claim[w]), m \in Times :
       /\ Reading(m)
       /\ verdict' = [verdict EXCEPT ![w] = v]
       /\ at' = [at EXCEPT ![w] = m]
  /\ pc' = [pc EXCEPT ![w] = "deciding"]
  /\ UNCHANGED <<store, now, build, claim, request, answers>>

(* Mutant: the tests of status and token refuse a claim only together. *)
RunningOrOwnToken(w) ==
  /\ jobs[claim[w].job] # NoJob
  /\ \/ jobs[claim[w].job].status = "RUNNING"
     \/ jobs[claim[w].job].token = claim[w].token

(* The fence of complete_claim and fail_claim. *)
OwnsClaim(w) ==
  /\ jobs[claim[w].job] # NoJob
  /\ jobs[claim[w].job].status = "RUNNING"
  /\ jobs[claim[w].job].token = claim[w].token

(* Their locking SELECT, which waits for the row; a claim that is not current
   any more records nothing ("stale_claim"). *)
LockClaim(w) ==
  /\ pc[w] = "deciding"
  /\ claim[w].job \notin Held
  /\ IF OwnsClaim(w)
       THEN /\ held' = [held EXCEPT ![w] = {claim[w].job}]
            /\ pc' = [pc EXCEPT ![w] = "recording"]
       ELSE /\ pc' = [pc EXCEPT ![w] = "finished"]
            /\ UNCHANGED held
  /\ UNCHANGED <<jobs, contributions, usedIds, nextToken, now, local, request, answers>>

(* What the worker computed: with its own build's revision of the pack. *)
Computed(w) == Evaluation(claim[w].input, Catalogue[build[w]][claim[w].input])

SucceededRow(w) ==
  [jobs[claim[w].job] EXCEPT
     !.status = "SUCCEEDED", !.result = Computed(w), !.completedAt = at[w],
     !.leaseExpiresAt = at[w], !.failure = NoFailure]

FailedRow(w) ==
  [jobs[claim[w].job] EXCEPT
     !.status = "FAILED", !.leaseExpiresAt = at[w], !.completedAt = at[w],
     !.failure = verdict[w]]

(* complete_claim commits the aggregate, every contribution row and the
   terminal state together. *)
CommitSuccess(w) ==
  /\ pc[w] = "recording"
  /\ verdict[w] = "SUCCEEDED"
  /\ contributions' = contributions \cup EvidenceRows(claim[w].job, Computed(w))
  /\ jobs' = [jobs EXCEPT ![claim[w].job] = SucceededRow(w)]
  /\ held' = [held EXCEPT ![w] = {}]
  /\ pc' = [pc EXCEPT ![w] = "finished"]
  /\ UNCHANGED <<usedIds, nextToken, now, local, request, answers>>

(* fail_claim commits. *)
CommitFailure(w) ==
  /\ pc[w] = "recording"
  /\ verdict[w] \in Failures
  /\ jobs' = [jobs EXCEPT ![claim[w].job] = FailedRow(w)]
  /\ held' = [held EXCEPT ![w] = {}]
  /\ pc' = [pc EXCEPT ![w] = "finished"]
  /\ UNCHANGED <<contributions, usedIds, nextToken, now, local, request, answers>>

(* cleanup_expired_scenario_jobs reads the clock ... *)
StartSweep(w) ==
  /\ pc[w] = "finished"
  /\ \E m \in Times : Reading(m) /\ at' = [at EXCEPT ![w] = m]
  /\ claim' = [claim EXCEPT ![w] = NoClaim]
  /\ verdict' = [verdict EXCEPT ![w] = NoVerdict]
  /\ pc' = [pc EXCEPT ![w] = "sweeping"]
  /\ UNCHANGED <<store, now, build, request, answers>>

(* Mutant: a finished job is purged early. *)
ExpiredOrFinished(t) ==
  {j \in Live : jobs[j].expiresAt <= t \/ jobs[j].status \in {"SUCCEEDED", "FAILED"}}

(* Mutant: only finished jobs are purged. *)
ExpiredAndFinished(t) ==
  {j \in Live : jobs[j].expiresAt <= t /\ jobs[j].status \in {"SUCCEEDED", "FAILED"}}

Expired(t) == {j \in Live : jobs[j].expiresAt <= t}

(* ORDER BY expires_at, job_id. *)
ExpiresBefore(j, l) ==
  \/ jobs[j].expiresAt < jobs[l].expiresAt
  \/ jobs[j].expiresAt = jobs[l].expiresAt /\ j < l

(* The first CleanupLimit rows of S in that order. *)
Batch(S, D) ==
  /\ D \subseteq S
  /\ Cardinality(D) <= CleanupLimit
  /\ D # S => Cardinality(D) = CleanupLimit
  /\ \A j \in D, l \in S \ D : ExpiresBefore(j, l)

(* ... and delete_expired selects a batch, with SKIP LOCKED, ... *)
SelectExpired(w) ==
  /\ pc[w] = "sweeping"
  /\ \E D \in SUBSET SkipLocked(Expired(at[w])) :
       /\ Batch(SkipLocked(Expired(at[w])), D)
       /\ held' = [held EXCEPT ![w] = D]
       /\ pc' = [pc EXCEPT ![w] = IF D = {} THEN "asleep" ELSE "purging"]
       /\ at' = [at EXCEPT ![w] = IF D = {} THEN NoTime ELSE @]
  /\ UNCHANGED <<jobs, contributions, usedIds, nextToken, now, build, claim, verdict,
                 request, answers>>

(* The contributions refer to their job by a foreign key that cascades: theirs
   go with it, by the DELETE that names them and by the key in any case. *)
OtherContributions(D) == {row \in contributions : row.job \notin D}

(* ... deletes it with its contributions, whatever its status, and commits. *)
CommitPurge(w) ==
  /\ pc[w] = "purging"
  /\ jobs' = [j \in JobIds |-> IF j \in held[w] THEN NoJob ELSE jobs[j]]
  /\ contributions' = OtherContributions(held[w])
  /\ held' = [held EXCEPT ![w] = {}]
  /\ at' = [at EXCEPT ![w] = NoTime]
  /\ pc' = [pc EXCEPT ![w] = "asleep"]
  /\ UNCHANGED <<usedIds, nextToken, now, build, claim, verdict, request, answers>>

(* The worker process is lost anywhere, also by an exception that no handler
   of process_one_scenario_job takes: its open transaction rolls back, and
   what it committed stays. *)
Crash(w) ==
  /\ pc[w] # "down"
  /\ now < CrashUntil
  /\ held' = [held EXCEPT ![w] = {}]
  /\ claim' = [claim EXCEPT ![w] = NoClaim]
  /\ verdict' = [verdict EXCEPT ![w] = NoVerdict]
  /\ at' = [at EXCEPT ![w] = NoTime]
  /\ pc' = [pc EXCEPT ![w] = "down"]
  /\ UNCHANGED <<jobs, contributions, usedIds, nextToken, now, build, request, answers>>

(* It is started again, perhaps from another build. *)
Restart(w) ==
  /\ pc[w] = "down"
  /\ \E b \in Builds : build' = [build EXCEPT ![w] = b]
  /\ pc' = [pc EXCEPT ![w] = "asleep"]
  /\ UNCHANGED <<store, now, at, claim, verdict, request, answers>>

Tick ==
  /\ now < MaxTime
  /\ now' = now + 1
  /\ UNCHANGED <<store, pc, local, request, answers>>

-----------------------------------------------------------------------------
Init ==
  /\ jobs = [j \in JobIds |-> NoJob]
  /\ contributions = {}
  /\ usedIds = {}
  /\ nextToken = 1
  /\ now = 0
  /\ held = [p \in Processes |-> {}]
  /\ pc = [p \in Processes |-> IF p \in Workers THEN "asleep" ELSE "idle"]
  /\ at = [w \in Workers |-> NoTime]
  /\ build \in [Workers -> Builds]
  /\ claim = [w \in Workers |-> NoClaim]
  /\ verdict = [w \in Workers |-> NoVerdict]
  /\ request = [c \in Clients |-> NoRequest]
  /\ answers = {}

Process(w) ==
  \/ SelectClaim(w) \/ CommitClaim(w) \/ Evaluate(w) \/ LockClaim(w)
  \/ CommitSuccess(w) \/ CommitFailure(w)

Sweep(w) == StartSweep(w) \/ SelectExpired(w) \/ CommitPurge(w)

WorkerStep(w) == WakeUp(w) \/ Process(w) \/ Sweep(w) \/ Restart(w)

Serve(c) == Insert(c) \/ InsertConflict(c) \/ Refresh(c) \/ RereadKey(c) \/ Replay(c)

Next ==
  \/ \E c \in Clients : Submit(c) \/ Serve(c) \/ LoseRequest(c)
  \/ \E w \in Workers : WorkerStep(w) \/ Crash(w)
  \/ Tick

Spec == Init /\ [][Next]_vars

(* A worker's loop and its supervisor keep going, a started request is served
   and time passes; nobody has to submit and nothing has to crash. *)
Fairness ==
  /\ \A w \in Workers : WF_vars(WorkerStep(w))
  /\ \A c \in Clients : WF_vars(Serve(c))
  /\ WF_vars(Tick)

FairSpec == Spec /\ Fairness

-----------------------------------------------------------------------------
(* Properties *)

(* Every variable holds what the tables, the processes and the clock can hold. *)
TypeOK ==
  /\ jobs \in [JobIds -> JobRows \cup {NoJob}]
  /\ contributions \subseteq ContributionRows
  /\ usedIds \subseteq JobIds
  /\ nextToken \in Nat \ {0}
  /\ now \in Nat
  /\ held \in [Processes -> SUBSET JobIds]
  /\ pc \in [Processes -> WorkerSteps \cup ClientSteps]
  /\ at \in [Workers -> Int]
  /\ build \in [Workers -> Builds]
  /\ claim \in [Workers -> ClaimRecords \cup {NoClaim}]
  /\ verdict \in [Workers -> Verdicts \cup {NoVerdict}]
  /\ request \in [Clients -> Requests \cup {NoRequest}]
  /\ answers \subseteq Answers

(* Idempotency: the answers given to one tenant's key name one live job at
   most, and a live job named in an answer was admitted for that tenant, key
   and input, however requests, purges and lost answers interleave
   (store.submit; the unique constraint of db/models.py). *)
OneJobPerKey ==
  /\ \A j, l \in Live :
       jobs[j].tenant = jobs[l].tenant /\ jobs[j].key = jobs[l].key => j = l
  /\ \A a \in answers :
       a.job \in Live => /\ jobs[a.job].tenant = a.tenant
                         /\ jobs[a.job].key = a.key
                         /\ jobs[a.job].input = a.input

(* Fencing: of the workers that hold a record of a running job, at most one
   holds its current token, so at most one can still record an outcome
   (complete_claim, fail_claim). *)
OneClaimant ==
  \A v, w \in Workers :
    /\ claim[v] # NoClaim /\ claim[w] # NoClaim
    /\ claim[v].job = claim[w].job
    /\ OwnsClaim(v) /\ OwnsClaim(w)
    => v = w

(* A success and its evidence appear together and whole: a job has its
   aggregate and all contribution rows of the evaluation of its admitted
   input under its admitted pack revision when it has SUCCEEDED, and neither
   otherwise, and no row outlives its job (complete_claim, delete_expired). *)
EvidenceIsWhole ==
  /\ \A row \in contributions : row.job \in Live
  /\ \A j \in Live :
       LET e == Evaluation(jobs[j].input, jobs[j].revision)
           rows == {row \in contributions : row.job = j} IN
       IF jobs[j].status = "SUCCEEDED"
         THEN jobs[j].result = e /\ rows = EvidenceRows(j, e)
         ELSE jobs[j].result = NoEvaluation /\ rows = {}

(* A job that reached a terminal state keeps it, with all its fields, until it
   is purged, whatever stale claimants and late workers do. *)
TerminalIsFinal ==
  [][\A j \in JobIds :
       j \in Live /\ jobs[j].status \in {"SUCCEEDED", "FAILED"}
       => jobs'[j] \in {jobs[j], NoJob}]_vars

(* A running job changes hands only after its lease ended, and no job that had
   expired starts or restarts, on the claimant's own clock reading
   (claim_next). *)
LeaseIsRespected ==
  [][\A j \in JobIds : j \in Live /\ jobs'[j] # NoJob /\ jobs'[j].token # jobs[j].token
       => \E w \in Workers :
            /\ claim'[w] # NoClaim /\ claim'[w].token = jobs'[j].token
            /\ jobs[j].expiresAt > at[w]
            /\ jobs[j].status = "RUNNING" => jobs[j].leaseExpiresAt <= at[w]]_vars

(* Retained evidence: a job disappears only once its retention has run out,
   but for the error of a clock (delete_expired). *)
RetainedUntilExpiry ==
  [][\A j \in JobIds : j \in Live /\ jobs'[j] = NoJob
       => jobs[j].expiresAt <= now + Skew]_vars

(* What a process read under its row locks is what it commits on: no other
   transaction holds those rows, they exist, and the row is still claimable,
   owned, expired or the holder of the key when the transaction commits
   (FOR UPDATE and SKIP LOCKED in store.py). *)
LockedReadsHold ==
  /\ \A p, q \in Processes : p # q => held[p] \cap held[q] = {}
  /\ \A w \in Workers :
       /\ pc[w] = "claimed" => \E j \in Claimable(at[w]) : held[w] = {j}
       /\ pc[w] = "recording" => OwnsClaim(w) /\ held[w] = {claim[w].job}
       /\ pc[w] = "purging" => held[w] \subseteq Expired(at[w])
  /\ \A c \in Clients : pc[c] = "replaying" =>
       \E j \in KeyRows(request[c].tenant, request[c].key) : held[c] = {j}

(* How the store shows the life of a job that its submitter is promised. *)
Phase(j) == IF j \in Live THEN jobs[j].status
            ELSE IF j \in usedIds THEN "PURGED" ELSE "UNBORN"
Owner(j) == IF j \in Live THEN <<jobs[j].tenant, jobs[j].key>> ELSE NoJob
Promised(j) == IF j \in Live THEN Evaluation(jobs[j].input, jobs[j].revision)
                             ELSE NoEvaluation
Result(j) == IF j \in Live THEN jobs[j].result ELSE NoEvaluation
RowsOf(j) == {row \in contributions : row.job = j}

Lifecycle == INSTANCE JobLifecycle WITH
  Owners <- Tenants \X Keys,
  Nobody <- NoJob,
  Nothing <- NoEvaluation,
  Evidence <- [j \in JobIds |-> [e \in Evaluations |-> EvidenceRows(j, e)]],
  phase <- [j \in JobIds |-> Phase(j)],
  owner <- [j \in JobIds |-> Owner(j)],
  promised <- [j \in JobIds |-> Promised(j)],
  result <- [j \in JobIds |-> Result(j)],
  evidence <- [j \in JobIds |-> RowsOf(j)]

(* Refinement: every step of the store, the workers and the request threads is
   a step of the promised job life or leaves it unchanged: one admission per
   owner, one end per job, evidence only with success and only that of the
   evaluation fixed at admission (store.py as a whole). *)
ImplementsLifecycle == Lifecycle!Spec

(* Liveness: no admitted job stays queued or running for ever: it reaches a
   terminal state or is purged (worker.main). *)
JobsFinish ==
  \A j \in JobIds :
    (j \in Live) ~> (j \notin Live \/ jobs[j].status \in {"SUCCEEDED", "FAILED"})

(* Liveness: every job admitted whose retention ends is purged in the end,
   with its evidence and whatever its status (the clock stops at MaxTime). *)
JobsArePurged ==
  \A j \in JobIds : (j \in Live /\ jobs[j].expiresAt <= MaxTime) ~> (j \notin Live)
=============================================================================
