-------------------------- MODULE ScenarioJobReads --------------------------
(***************************************************************************)
(* The callers that read scenario-evaluation jobs while ScenarioJobs runs: *)
(* they poll a job's status and follow the cursor of its contribution      *)
(* pages from request to request.  One page is two SELECTs of a            *)
(* read-committed session, the job row and then the contribution rows.     *)
(*                                                                         *)
(* The order (scenario_id, ordinal) of the contribution rows is the order  *)
(* of one number, `ordinal' here, and a cursor is the number of the last   *)
(* row of the page it ends, 0 for no cursor.                               *)
(***************************************************************************)
EXTENDS ScenarioJobs

CONSTANTS Readers, PageLimit

ASSUME PageLimitAssumption == PageLimit \in Nat \ {0}

VARIABLE readers  \* caller -> its tenant and job, and what it has read

readVars == <<vars, readers>>

Steps == {"idle", "asking", "checked", "complete", "refused"}
Statuses == {"unseen", "QUEUED", "RUNNING", "SUCCEEDED", "FAILED", "gone"}

Readings == [tenant : Tenants, job : JobIds \cup {NoJob}, step : Steps, cursor : Nat,
             rows : SUBSET ContributionRows, seen : Statuses]

(* A caller learns a job id from a 202 answer and asks for some tenant. *)
Follow(r) ==
  /\ readers[r].step = "idle"
  /\ \E a \in answers, t \in Tenants :
       readers' = [readers EXCEPT ![r] = [@ EXCEPT !.tenant = t, !.job = a.job,
                                                   !.step = "asking"]]
  /\ UNCHANGED vars

(* get_for_tenant, and the select of the job row of contribution_page. *)
OwnRow(t, j) == j \in Live /\ jobs[j].tenant = t

(* GET jobs/{id}: one SELECT; a foreign and an unknown job are a 404. *)
PollStatus(r) ==
  LET me == readers[r] IN
  /\ me.step # "idle"
  /\ readers' = [readers EXCEPT ![r].seen =
       IF OwnRow(me.tenant, me.job) THEN jobs[me.job].status ELSE "gone"]
  /\ UNCHANGED vars

Readable(t, j) == OwnRow(t, j) /\ jobs[j].status = "SUCCEEDED"

(* GET jobs/{id}/contributions: the job row first ... *)
SelectJob(r) ==
  /\ readers[r].step = "asking"
  /\ readers' = [readers EXCEPT ![r].step =
       IF Readable(readers[r].tenant, readers[r].job) THEN "checked" ELSE "refused"]
  /\ UNCHANGED vars

(* The n first rows of S. *)
First(n, S) == {row \in S : Cardinality({q \in S : q.ordinal < row.ordinal}) < n}

RowsAfter(j, cursor) == {row \in contributions : row.job = j /\ row.ordinal > cursor}

(* Mutant: as many rows as the page holds are fetched. *)
ExactFetch == PageLimit

FetchLimit == PageLimit + 1

(* ... then its rows, one more than the page holds: the page goes to the
   caller with a cursor if there was one more, and the caller asks on. *)
SelectRows(r) ==
  LET me      == readers[r]
      fetched == First(FetchLimit, RowsAfter(me.job, me.cursor))
      page    == First(PageLimit, fetched)
      more    == Cardinality(fetched) > PageLimit /\ page # {} IN
  /\ me.step = "checked"
  /\ \/ /\ more
        /\ \E last \in page :
             /\ \A row \in page : row.ordinal <= last.ordinal
             /\ readers' = [readers EXCEPT ![r] =
                  [me EXCEPT !.rows = me.rows \cup page, !.cursor = last.ordinal,
                             !.step = "asking"]]
     \/ /\ ~more
        /\ readers' = [readers EXCEPT ![r] =
             [me EXCEPT !.rows = me.rows \cup page, !.step = "complete"]]
  /\ UNCHANGED vars

ReadInit ==
  /\ Init
  /\ readers \in [Readers -> [tenant : Tenants, job : {NoJob}, step : {"idle"},
                              cursor : {0}, rows : {{}}, seen : {"unseen"}]]

Read(r) == Follow(r) \/ PollStatus(r) \/ SelectJob(r) \/ SelectRows(r)

ReadNext ==
  \/ Next /\ UNCHANGED readers
  \/ \E r \in Readers : Read(r)

ReadSpec == ReadInit /\ [][ReadNext]_readVars

-----------------------------------------------------------------------------
(* What the pages of one caller have shown it so far is the beginning, in
   order and without a gap or a repetition, of the evidence its job was
   admitted for, and nothing for a caller of another tenant; a caller whose
   pages ended has all of it, unless the job has been purged meanwhile
   (store.contribution_page, service.scenario_job_contribution_page). *)
PagesAreWhole ==
  \A r \in Readers :
    LET me == readers[r] IN
    /\ {row.ordinal : row \in me.rows} = 1 .. Cardinality(me.rows)
    /\ me.job \in Live =>
         LET job == jobs[me.job]
             all == EvidenceRows(me.job, Evaluation(job.input, job.revision)) IN
         /\ me.rows \subseteq all
         /\ me.rows # {} => job.tenant = me.tenant
         /\ me.step = "complete" => me.rows = all

Rank(s) == CASE s = "unseen" -> 0 [] s = "QUEUED" -> 1 [] s = "RUNNING" -> 2
             [] s \in {"SUCCEEDED", "FAILED"} -> 3 [] s = "gone" -> 4

(* A caller that polls its job never sees it go back, from an outcome to
   running, from running to queued or from gone to anything, and never sees
   one outcome turn into the other (get_for_tenant against the worker's
   transactions). *)
StatusAdvances ==
  [][\A r \in Readers :
       LET old == readers[r].seen  new == readers'[r].seen IN
       Rank(old) < Rank(new) \/ old = new]_readVars

(* What the endpoint matrix says: an expired record exposes no rows. *)
ExpiredExposesNoRows ==
  [][\A r \in Readers :
       readers[r].step = "asking" /\ readers'[r].step = "checked"
       => jobs[readers[r].job].expiresAt > now]_readVars
=============================================================================
