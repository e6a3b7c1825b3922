---------------------------- MODULE AsyncWorkflow ----------------------------
(***************************************************************************)
(* The asynchronous analytics workflows of lotus-risk against              *)
(* lotus-performance (src/src/app/integrations): a request handler submits *)
(* a calculation; the producer answers at once or accepts it with paths to *)
(* poll; the handler then polls status and result in rounds until a        *)
(* result, a failure or the end of its polling budget.  Every request is   *)
(* two steps, its answer by the producer and its reception by the handler, *)
(* so calculations and other handlers move in between.                     *)
(***************************************************************************)
EXTENDS Naturals, FiniteSets

CONSTANTS
  Flows,          \* workflows of the request handlers of one process
  Binding,        \* those of returns-series, which bind_result_calculation_id
  Calculations,   \* the ids the producer can give
  MaxPolls,       \* LOTUS_PERFORMANCE_ASYNC_MAX_POLLS
  NoCalculation   \* no id

ASSUME FlowAssumption ==
  /\ Binding \subseteq Flows
  /\ MaxPolls \in Nat \ {0}
  /\ NoCalculation \notin Calculations

VARIABLES
  calculations,  \* producer: id -> where the calculation is
  step,          \* flow -> the request it awaits, or where it is
  reply,         \* flow -> the answer to its request
  accepted,      \* flow -> the calculation id of the accepted payload
  polled,        \* flow -> whether the accepted payload has a poll_path
  lastStatus,    \* flow -> last_status
  rounds,        \* flow -> rounds of polling begun
  outcome,       \* flow -> how it ended
  returned,      \* flow -> the calculation its payload is of
  counted,       \* upstream_requests_total: flow -> outcome -> count
  requests       \* producer: requests received from a flow

vars == <<calculations, step, reply, accepted, polled, lastStatus, rounds,
          outcome, returned, counted, requests>>

Waits   == {"submit", "status", "result"}
Steps   == Waits \cup {"idle", "sleep", "done"}
Ends    == {"success", "refused", "invalid_response", "data_gap", "invalid_input"}
Undecided == "undecided"

Stages   == {"unknown", "running", "completed", "failed"}
Statuses == {"pending", "running", "completed", "failed"}

(* What can come back: a dictionary about a calculation, 202 with paths, a
   status, 202 or 404 for a result, JSON null, JSON of another shape, a body
   that is not JSON, or an error status, time-out or transport error. *)
Of(kind, c, s) == [kind |-> kind, calculation |-> c, status |-> s]
NoReply == Of("none", NoCalculation, "pending")
Kinds   == {"none", "payload", "accepted", "acceptedNoPoll", "acceptedInvalid",
            "status", "noStatus", "pending", "null", "misshaped", "unparsable", "refused"}

-----------------------------------------------------------------------------
(* The producer and the network, as the client code provides for them. *)

Settle(f, r) == reply' = [reply EXCEPT ![f] = r]

Awaited(f) == step[f] \in Waits /\ reply[f] = NoReply

(* Bound: requests are counted up to one more than a workflow may send. *)
CountBound == 2 * MaxPolls + 2

Received(f) ==
  requests' = [requests EXCEPT ![f] = IF @ < CountBound THEN @ + 1 ELSE @]

(* A submission starts a calculation, joins one that has the same content or
   is answered at once. *)
AnswerSubmit(f) ==
  /\ Awaited(f) /\ step[f] = "submit"
  /\ \E c \in Calculations :
       \/ /\ calculations[c] \in {"unknown", "running"}
          /\ calculations' = [calculations EXCEPT ![c] = "running"]
          /\ \E k \in {"accepted", "acceptedNoPoll", "acceptedInvalid"} :
               Settle(f, Of(k, c, "pending"))
       \/ /\ calculations[c] \in {"unknown", "completed"}
          /\ calculations' = [calculations EXCEPT ![c] = "completed"]
          /\ Settle(f, Of("payload", c, "pending"))
  /\ Received(f)
  /\ UNCHANGED <<step, accepted, polled, lastStatus, rounds, outcome, returned, counted>>

AnswerStatus(f) ==
  /\ Awaited(f) /\ step[f] = "status"
  /\ \/ Settle(f, Of("status", accepted[f], calculations[accepted[f]]))
     \/ Settle(f, Of("noStatus", accepted[f], "pending"))
  /\ Received(f)
  /\ UNCHANGED <<calculations, step, accepted, polled, lastStatus, rounds, outcome,
                 returned, counted>>

(* A result path gives the result once it is there; it may also give that of
   another calculation, which is what the binding is for. *)
AnswerResult(f) ==
  /\ Awaited(f) /\ step[f] = "result"
  /\ \/ calculations[accepted[f]] # "completed" /\ Settle(f, Of("pending", accepted[f], "pending"))
     \/ \E c \in Calculations :
          calculations[c] = "completed" /\ Settle(f, Of("payload", c, "pending"))
     \/ calculations[accepted[f]] = "completed" /\ Settle(f, Of("null", accepted[f], "pending"))
  /\ Received(f)
  /\ UNCHANGED <<calculations, step, accepted, polled, lastStatus, rounds, outcome,
                 returned, counted>>

(* Any request can be refused, lost, too late, or answered with nonsense. *)
AnswerBadly(f) ==
  /\ Awaited(f)
  /\ \E k \in {"refused", "misshaped", "unparsable"} :
       Settle(f, Of(k, NoCalculation, "pending"))
  /\ Received(f)
  /\ UNCHANGED <<calculations, step, accepted, polled, lastStatus, rounds, outcome,
                 returned, counted>>

Calculate(c) ==
  /\ calculations[c] = "running"
  /\ \E s \in {"completed", "failed"} : calculations' = [calculations EXCEPT ![c] = s]
  /\ UNCHANGED <<step, reply, accepted, polled, lastStatus, rounds, outcome, returned,
                 counted, requests>>

-----------------------------------------------------------------------------
(* The handler. *)

Await(f, s) ==
  /\ step' = [step EXCEPT ![f] = s]
  /\ reply' = [reply EXCEPT ![f] = NoReply]

End(f, o, c) ==
  /\ step' = [step EXCEPT ![f] = "done"]
  /\ outcome' = [outcome EXCEPT ![f] = o]
  /\ returned' = [returned EXCEPT ![f] = c]
  /\ UNCHANGED reply

Count(f, o) == counted' = [counted EXCEPT ![f][o] = @ + 1]

(* execute_downstream_request_json: a refusal and a shape it does not expect
   are counted where they are raised; a body that is no JSON is a ValueError
   that passes every handler, and is counted nowhere. *)
Raise(f) ==
  \/ reply[f].kind = "refused" /\ End(f, "refused", NoCalculation) /\ Count(f, "failure")
  \/ reply[f].kind = "misshaped" /\ End(f, "invalid_response", NoCalculation)
     /\ Count(f, "failure")
  \/ reply[f].kind = "unparsable" /\ End(f, "invalid_input", NoCalculation)
     /\ UNCHANGED counted

(* What is raised outside of it is not counted either. *)
Fail(f, o) == End(f, o, NoCalculation) /\ UNCHANGED counted

Succeed(f, c) == End(f, "success", c) /\ Count(f, "success")

(* Mutant: the submission counts its own success as well. *)
RecordSuccess(f) == Count(f, "success")

(* record_success=False: only a whole workflow is counted as a success. *)
RecordAnswer(f) == UNCHANGED counted

Start(f) ==
  /\ step[f] = "idle"
  /\ Await(f, "submit")
  /\ UNCHANGED <<calculations, accepted, polled, lastStatus, rounds, outcome, returned,
                 counted, requests>>

(* Mutant: the rounds of polling are not counted. *)
SameRound(f) == UNCHANGED rounds

NextRound(f) == rounds' = [rounds EXCEPT ![f] = @ + 1]

(* A round starts with the status, when there is a path for it. *)
FirstOfRound(f) == IF polled'[f] THEN "status" ELSE "result"

Submitted(f) ==
  /\ step[f] = "submit"
  /\ \/ Raise(f) /\ UNCHANGED <<accepted, polled, rounds>>
     \/ /\ reply[f].kind = "payload"
        /\ Succeed(f, reply[f].calculation)
        /\ UNCHANGED <<accepted, polled, rounds>>
     \/ /\ reply[f].kind = "acceptedInvalid"
        /\ Fail(f, "invalid_response")
        /\ UNCHANGED <<accepted, polled, rounds>>
     \/ /\ reply[f].kind \in {"accepted", "acceptedNoPoll"}
        /\ accepted' = [accepted EXCEPT ![f] = reply[f].calculation]
        /\ polled' = [polled EXCEPT ![f] = reply[f].kind = "accepted"]
        /\ NextRound(f)
        /\ Await(f, FirstOfRound(f))
        /\ RecordAnswer(f)
        /\ UNCHANGED <<outcome, returned>>
  /\ UNCHANGED <<calculations, lastStatus, requests>>

(* _poll_status: a failed calculation ends the workflow, any other status
   only goes into the message of a time-out. *)
StatusPolled(f) ==
  /\ step[f] = "status"
  /\ \/ Raise(f) /\ UNCHANGED lastStatus
     \/ /\ reply[f].kind = "status" /\ reply[f].status = "failed"
        /\ Fail(f, "data_gap")
        /\ UNCHANGED lastStatus
     \/ /\ \/ /\ reply[f].kind = "status" /\ reply[f].status # "failed"
              /\ lastStatus' = [lastStatus EXCEPT ![f] = reply[f].status]
           \/ reply[f].kind = "noStatus" /\ UNCHANGED lastStatus
        /\ Await(f, "result")
        /\ RecordAnswer(f)
        /\ UNCHANGED <<outcome, returned>>
  /\ UNCHANGED <<calculations, accepted, polled, rounds, requests>>

(* Mutant: the result is taken for that of the accepted calculation. *)
AnyResult(f) == TRUE

OwnResult(f) == f \in Binding => reply[f].calculation = accepted[f]

(* _get_result and required_async_result. *)
ResultPolled(f) ==
  /\ step[f] = "result"
  /\ \/ Raise(f)
     \/ /\ reply[f].kind = "pending"
        /\ Await(f, "sleep")
        /\ RecordAnswer(f)
        /\ UNCHANGED <<outcome, returned>>
     \/ reply[f].kind = "null" /\ Fail(f, "data_gap")
     \/ reply[f].kind = "payload" /\ OwnResult(f) /\ Succeed(f, reply[f].calculation)
     \/ reply[f].kind = "payload" /\ ~OwnResult(f) /\ Fail(f, "invalid_response")
  /\ UNCHANGED <<calculations, accepted, polled, lastStatus, rounds, requests>>

(* Mutant: one round less than the budget. *)
OneRoundLess(f) == rounds[f] + 1 < MaxPolls

RoundsLeft(f) == rounds[f] < MaxPolls

(* The sleep of every round, the last one too, and raise_async_poll_timeout. *)
WakeUp(f) ==
  /\ step[f] = "sleep"
  /\ \/ /\ RoundsLeft(f)
        /\ NextRound(f)
        /\ UNCHANGED polled
        /\ Await(f, FirstOfRound(f))
        /\ UNCHANGED <<outcome, returned, counted>>
     \/ /\ ~RoundsLeft(f)
        /\ Fail(f, "data_gap")
        /\ UNCHANGED <<rounds, polled>>
  /\ UNCHANGED <<calculations, accepted, lastStatus, requests>>

-----------------------------------------------------------------------------
Init ==
  /\ calculations = [c \in Calculations |-> "unknown"]
  /\ step = [f \in Flows |-> "idle"]
  /\ reply = [f \in Flows |-> NoReply]
  /\ accepted = [f \in Flows |-> NoCalculation]
  /\ polled = [f \in Flows |-> FALSE]
  /\ lastStatus = [f \in Flows |-> "pending"]
  /\ rounds = [f \in Flows |-> 0]
  /\ outcome = [f \in Flows |-> Undecided]
  /\ returned = [f \in Flows |-> NoCalculation]
  /\ counted = [f \in Flows |-> [success |-> 0, failure |-> 0]]
  /\ requests = [f \in Flows |-> 0]

Answer(f) == AnswerSubmit(f) \/ AnswerStatus(f) \/ AnswerResult(f) \/ AnswerBadly(f)

Resume(f) == Submitted(f) \/ StatusPolled(f) \/ ResultPolled(f) \/ WakeUp(f)

Next ==
  \/ \E f \in Flows : Start(f) \/ Answer(f) \/ Resume(f)
  \/ \E c \in Calculations : Calculate(c)

Spec == Init /\ [][Next]_vars

(* Every request ends, at the latest with the time-out of the HTTP client, and
   the event loop resumes a handler; no calculation has to end. *)
Fairness == \A f \in Flows : WF_vars(Answer(f)) /\ WF_vars(Resume(f))

FairSpec == Spec /\ Fairness

-----------------------------------------------------------------------------
(* Properties *)

(* Every variable holds what the handlers and the producer can hold. *)
TypeOK ==
  /\ calculations \in [Calculations -> Stages]
  /\ step \in [Flows -> Steps]
  /\ reply \in [Flows -> [kind : Kinds, calculation : Calculations \cup {NoCalculation},
                          status : Statuses]]
  /\ accepted \in [Flows -> Calculations \cup {NoCalculation}]
  /\ polled \in [Flows -> BOOLEAN]
  /\ lastStatus \in [Flows -> Statuses]
  /\ rounds \in [Flows -> 0 .. MaxPolls]
  /\ outcome \in [Flows -> Ends \cup {Undecided}]
  /\ returned \in [Flows -> Calculations \cup {NoCalculation}]
  /\ counted \in [Flows -> [success : Nat, failure : Nat]]
  /\ requests \in [Flows -> 0 .. CountBound]

(* A success carries the result of a completed calculation, and a
   returns-series workflow that was accepted carries that of its own, however
   calculations and the answers to other workflows interleave
   (required_async_result). *)
ResultsAreOwn ==
  \A f \in Flows :
    IF outcome[f] = "success"
      THEN /\ returned[f] \in Calculations /\ calculations[returned[f]] = "completed"
           /\ f \in Binding /\ accepted[f] # NoCalculation => returned[f] = accepted[f]
      ELSE returned[f] = NoCalculation

(* A workflow of many requests is counted once: as one success exactly when it
   ends in one, and otherwise as one failure or not at all
   (record_success=False, record_upstream_request). *)
CountedAsOne ==
  \A f \in Flows :
    /\ counted[f].success = (IF outcome[f] = "success" THEN 1 ELSE 0)
    /\ counted[f].success + counted[f].failure <= 1
    /\ counted[f].failure = 1 => outcome[f] \in {"refused", "invalid_response"}

(* The load of a workflow on the producer is bounded by its budget, and a
   workflow that gives up after "pending" answers has used the whole of it:
   no poll was skipped (poll_async_result). *)
BudgetIsUsed ==
  \A f \in Flows :
    LET perRound == IF polled[f] THEN 2 ELSE 1 IN
    /\ requests[f] <= 1 + perRound * MaxPolls
    /\ step[f] = "done" /\ reply[f].kind = "none" => requests[f] = 1 + perRound * MaxPolls

(* Liveness: every workflow that starts ends, also when its calculation
   never does (the loop bound of poll_async_result). *)
FlowsEnd == \A f \in Flows : (step[f] = "submit") ~> (step[f] = "done")

(* risk-upstream-failure-behavior.md: an invalid upstream payload is reported
   as UPSTREAM_INVALID_RESPONSE. *)
NonsenseIsInvalidResponse ==
  \A f \in Flows :
    step[f] = "done" /\ reply[f].kind \in {"misshaped", "unparsable"}
    => outcome[f] = "invalid_response"
=============================================================================
