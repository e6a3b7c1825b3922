------------------------ MODULE AsyncWorkflow_proofs ------------------------
(***************************************************************************)
(* Proofs about AsyncWorkflow for every set of workflows, every set of     *)
(* calculations and every polling budget: types, CountedAsOne,             *)
(* ResultsAreOwn and BudgetIsUsed.  All of them follow from what a single  *)
(* workflow looks like at each of its steps (FlowInv), because the only    *)
(* thing that workflows share is the calculations of the producer, and one *)
(* that is completed stays so.                                             *)
(***************************************************************************)
EXTENDS AsyncWorkflow, TLAPS

Bad == {"refused", "misshaped", "unparsable"}

(* What a handler can hold in its hands at each of its steps. *)
Shape(f) ==
  /\ step[f] \in {"idle", "sleep"} => reply[f] = NoReply
  /\ step[f] = "submit" =>
       reply[f].kind \in {"none", "payload", "accepted", "acceptedNoPoll", "acceptedInvalid"} \cup Bad
  /\ step[f] = "status" => reply[f].kind \in {"none", "status", "noStatus"} \cup Bad /\ polled[f]
  /\ step[f] = "result" => reply[f].kind \in {"none", "pending", "payload", "null"} \cup Bad
  /\ step[f] \in {"status", "result", "sleep"} => accepted[f] \in Calculations /\ rounds[f] > 0
  /\ step[f] \in {"idle", "submit"} => accepted[f] = NoCalculation /\ rounds[f] = 0 /\ ~polled[f]
  /\ step[f] = "done" <=> outcome[f] # Undecided

Naming == {"payload", "accepted", "acceptedNoPoll"}

(* An answer with a calculation names one that has been started, and a payload
   a completed one. *)
Answers(f) ==
  /\ reply[f].kind \in Naming =>
       reply[f].calculation \in Calculations /\ calculations[reply[f].calculation] # "unknown"
  /\ reply[f].kind = "payload" => calculations[reply[f].calculation] = "completed"
  /\ accepted[f] # NoCalculation => calculations[accepted[f]] # "unknown"

Own(f) ==
  IF outcome[f] = "success"
    THEN /\ returned[f] \in Calculations /\ calculations[returned[f]] = "completed"
         /\ f \in Binding /\ accepted[f] # NoCalculation => returned[f] = accepted[f]
    ELSE returned[f] = NoCalculation

Counted(f) ==
  /\ counted[f].success = (IF outcome[f] = "success" THEN 1 ELSE 0)
  /\ counted[f].success + counted[f].failure <= 1
  /\ counted[f].failure = 1 => outcome[f] \in {"refused", "invalid_response"}

Received1(f) == IF reply[f].kind = "none" THEN 0 ELSE 1

(* The requests of a workflow are exactly those its rounds have called for. *)
Sent(f) ==
  /\ step[f] = "idle" => requests[f] = 0
  /\ step[f] = "submit" => requests[f] = Received1(f)
  /\ step[f] = "status" => requests[f] = 2 * rounds[f] - 1 + Received1(f)
  /\ step[f] = "result" =>
       requests[f] = (IF polled[f] THEN 2 * rounds[f] ELSE rounds[f]) + Received1(f)
  /\ step[f] = "sleep" =>
       requests[f] = 1 + (IF polled[f] THEN 2 * rounds[f] ELSE rounds[f])
  /\ step[f] = "done" =>
       LET budget == 1 + (IF polled[f] THEN 2 * MaxPolls ELSE MaxPolls) IN
       requests[f] <= budget /\ (reply[f].kind = "none" => requests[f] = budget)

FlowInv(f) == Shape(f) /\ Answers(f) /\ Own(f) /\ Counted(f) /\ Sent(f)

IInv == TypeOK /\ \A f \in Flows : FlowInv(f)

-----------------------------------------------------------------------------
(* A step of one workflow leaves everything of another as it is, and no step
   undoes a completed calculation or forgets one. *)
Untouched(g) ==
  /\ step'[g] = step[g] /\ reply'[g] = reply[g] /\ accepted'[g] = accepted[g]
  /\ polled'[g] = polled[g] /\ rounds'[g] = rounds[g] /\ outcome'[g] = outcome[g]
  /\ returned'[g] = returned[g] /\ counted'[g] = counted[g] /\ requests'[g] = requests[g]

ProducerAdvances ==
  \A c \in Calculations :
    /\ calculations[c] = "completed" => calculations'[c] = "completed"
    /\ calculations[c] # "unknown" => calculations'[c] # "unknown"

LEMMA OthersKeep ==
  ASSUME IInv, NEW g \in Flows, Untouched(g), ProducerAdvances
  PROVE  FlowInv(g)'
<1>1. FlowInv(g)
  BY DEF IInv
<1>2. Shape(g)' /\ Counted(g)' /\ Sent(g)'
  BY <1>1 DEF FlowInv, Shape, Counted, Sent, Received1, Untouched
<1>3. Answers(g)'
  <2>1. accepted[g] \in Calculations \cup {NoCalculation}
    BY DEF IInv, TypeOK
  <2> QED
    BY <1>1, <2>1 DEF FlowInv, Answers, Naming, Untouched, ProducerAdvances
<1>4. Own(g)'
  BY <1>1 DEF FlowInv, Own, Untouched, ProducerAdvances
<1> QED
  BY <1>2, <1>3, <1>4 DEF FlowInv

(* So what is left to show of a step is its own workflow. *)
LEMMA OneFlow ==
  ASSUME IInv, NEW f \in Flows, ProducerAdvances,
         \A g \in Flows \ {f} : Untouched(g),
         TypeOK', FlowInv(f)'
  PROVE  IInv'
<1> SUFFICES ASSUME NEW g \in Flows
             PROVE  FlowInv(g)'
  BY DEF IInv
<1>1. CASE g = f
  BY <1>1
<1>2. CASE g # f
  BY <1>2, OthersKeep
<1> QED
  BY <1>1, <1>2

-----------------------------------------------------------------------------
(* Facts about the records that actions build. *)

LEMMA ReplyFacts ==
  /\ NoReply.kind = "none" /\ NoReply.calculation = NoCalculation /\ NoReply.status = "pending"
  /\ NoReply \in [kind : Kinds, calculation : Calculations \cup {NoCalculation}, status : Statuses]
  /\ \A k \in Kinds, c \in Calculations \cup {NoCalculation}, s \in Statuses :
       /\ Of(k, c, s).kind = k /\ Of(k, c, s).calculation = c /\ Of(k, c, s).status = s
       /\ Of(k, c, s) \in [kind : Kinds, calculation : Calculations \cup {NoCalculation},
                            status : Statuses]
  BY DEF NoReply, Of, Kinds, Statuses

(* A handler that is awaiting has its request in Sent, so the bound of the
   counter of requests is never met. *)
LEMMA ReceivedCounts ==
  ASSUME IInv, NEW f \in Flows, Awaited(f), Received(f)
  PROVE  /\ requests' = [requests EXCEPT ![f] = requests[f] + 1]
         /\ requests' \in [Flows -> 0 .. CountBound]
<1>1. FlowInv(f) /\ TypeOK
  BY DEF IInv
<1>2. rounds[f] \in 0 .. MaxPolls /\ requests[f] \in 0 .. CountBound /\ MaxPolls \in Nat
  BY <1>1, FlowAssumption DEF TypeOK
<1>3. reply[f].kind = "none"
  BY ReplyFacts DEF Awaited
<1>4. requests[f] < CountBound
  BY <1>1, <1>2, <1>3 DEF FlowInv, Sent, Received1, Awaited, Waits, CountBound
<1>5. requests' = [requests EXCEPT ![f] = requests[f] + 1]
  BY <1>4 DEF Received
<1> QED
  BY <1>1, <1>2, <1>4, <1>5 DEF TypeOK, CountBound

(* An answer of any kind the handler awaits keeps the invariant. *)
LEMMA Answered ==
  ASSUME IInv, NEW f \in Flows, Awaited(f), Received(f), ProducerAdvances,
         calculations' \in [Calculations -> Stages],
         NEW k \in Kinds \ {"none"}, NEW c \in Calculations \cup {NoCalculation},
         NEW s \in Statuses, Settle(f, Of(k, c, s)),
         step[f] = "submit" =>
           k \in {"payload", "accepted", "acceptedNoPoll", "acceptedInvalid"} \cup Bad,
         step[f] = "status" => k \in {"status", "noStatus"} \cup Bad,
         step[f] = "result" => k \in {"pending", "payload", "null"} \cup Bad,
         k \in Naming => c \in Calculations /\ calculations'[c] # "unknown",
         k = "payload" => calculations'[c] = "completed",
         UNCHANGED <<step, accepted, polled, lastStatus, rounds, outcome, returned, counted>>
  PROVE  IInv'
<1>1. FlowInv(f) /\ TypeOK
  BY DEF IInv
<1>2. reply' = [reply EXCEPT ![f] = Of(k, c, s)] /\ reply'[f] = Of(k, c, s)
  BY <1>1 DEF Settle, TypeOK
<1>3. reply'[f].kind = k /\ reply'[f].calculation = c
  BY <1>2, ReplyFacts
<1>4. requests' = [requests EXCEPT ![f] = requests[f] + 1]
      /\ requests' \in [Flows -> 0 .. CountBound]
  BY ReceivedCounts
<1>5. TypeOK'
  <2>1. reply' \in [Flows -> [kind : Kinds, calculation : Calculations \cup {NoCalculation},
                              status : Statuses]]
    BY <1>1, <1>2, ReplyFacts DEF TypeOK
  <2> QED
    BY <1>1, <1>4, <2>1 DEF TypeOK
<1>6. \A g \in Flows \ {f} : Untouched(g)
  BY <1>1, <1>2, <1>4 DEF Untouched, TypeOK
<1>7. Shape(f)'
  BY <1>1, <1>3 DEF FlowInv, Shape, Awaited, Waits
<1>8. Answers(f)'
  <2>1. accepted[f] \in Calculations \cup {NoCalculation}
    BY <1>1 DEF TypeOK
  <2> QED
    BY <1>1, <1>3, <2>1 DEF FlowInv, Answers, Naming, ProducerAdvances
<1>9. Own(f)' /\ Counted(f)'
  BY <1>1 DEF FlowInv, Own, Counted, ProducerAdvances
<1>10. Sent(f)'
  <2>1. reply[f].kind = "none" /\ Received1(f) = 0 /\ Received1(f)' = 1
    BY <1>3, ReplyFacts DEF Awaited, Received1
  <2>2. requests'[f] = requests[f] + 1 /\ requests[f] \in Nat /\ rounds[f] \in Nat
    BY <1>1, <1>4 DEF TypeOK
  <2> QED
    BY <1>1, <2>1, <2>2 DEF FlowInv, Sent, Awaited, Waits
<1> QED
  BY <1>5, <1>6, <1>7, <1>8, <1>9, <1>10, OneFlow DEF FlowInv

LEMMA AnswersKeep ==
  ASSUME IInv, NEW f \in Flows, Answer(f)
  PROVE  IInv'
<1>1. TypeOK
  BY DEF IInv
<1>2. CASE AnswerSubmit(f)
  <2>1. PICK c \in Calculations :
          \/ /\ calculations[c] \in {"unknown", "running"}
             /\ calculations' = [calculations EXCEPT ![c] = "running"]
             /\ \E k \in {"accepted", "acceptedNoPoll", "acceptedInvalid"} :
                  Settle(f, Of(k, c, "pending"))
          \/ /\ calculations[c] \in {"unknown", "completed"}
             /\ calculations' = [calculations EXCEPT ![c] = "completed"]
             /\ Settle(f, Of("payload", c, "pending"))
    BY <1>2 DEF AnswerSubmit
  <2>2. ProducerAdvances /\ calculations' \in [Calculations -> Stages]
    BY <1>1, <2>1 DEF ProducerAdvances, TypeOK, Stages
  <2>3. PICK k \in {"payload", "accepted", "acceptedNoPoll", "acceptedInvalid"} :
          /\ Settle(f, Of(k, c, "pending"))
          /\ calculations'[c] # "unknown" /\ (k = "payload" => calculations'[c] = "completed")
    BY <1>1, <2>1 DEF TypeOK
  <2>4. k \in Kinds \ {"none"} /\ "pending" \in Statuses
    BY DEF Kinds, Statuses
  <2> QED
    BY <1>2, <2>2, <2>3, <2>4, Answered DEF AnswerSubmit
<1>3. CASE AnswerStatus(f)
  <2>1. ProducerAdvances /\ accepted[f] \in Calculations \cup {NoCalculation}
    BY <1>1, <1>3 DEF AnswerStatus, ProducerAdvances, TypeOK
  <2>2. accepted[f] \in Calculations /\ calculations[accepted[f]] \in Statuses
    BY <1>1, <1>3, FlowAssumption
    DEF IInv, FlowInv, Shape, Answers, AnswerStatus, TypeOK, Stages, Statuses
  <2>3. CASE Settle(f, Of("status", accepted[f], calculations[accepted[f]]))
    BY <1>1, <1>3, <2>1, <2>2, <2>3, Answered DEF AnswerStatus, Kinds, Naming, TypeOK
  <2>4. CASE Settle(f, Of("noStatus", accepted[f], "pending"))
    BY <1>1, <1>3, <2>1, <2>4, Answered DEF AnswerStatus, Kinds, Naming, TypeOK, Statuses
  <2> QED
    BY <1>3, <2>3, <2>4 DEF AnswerStatus
<1>4. CASE AnswerResult(f)
  <2>1. ProducerAdvances /\ accepted[f] \in Calculations \cup {NoCalculation}
    BY <1>1, <1>4 DEF AnswerResult, ProducerAdvances, TypeOK
  <2>2. PICK k \in {"pending", "payload", "null"}, c \in Calculations \cup {NoCalculation} :
          /\ Settle(f, Of(k, c, "pending"))
          /\ k = "payload" => c \in Calculations /\ calculations[c] = "completed"
    BY <1>4, <2>1 DEF AnswerResult
  <2>3. k \in Kinds \ {"none"} /\ "pending" \in Statuses
    BY DEF Kinds, Statuses
  <2>4. calculations' = calculations /\ calculations \in [Calculations -> Stages]
    BY <1>1, <1>4 DEF AnswerResult, TypeOK
  <2> QED
    BY <1>4, <2>1, <2>2, <2>3, <2>4, Answered DEF AnswerResult, Naming
<1>5. CASE AnswerBadly(f)
  <2>1. ProducerAdvances /\ calculations' = calculations /\ calculations \in [Calculations -> Stages]
    BY <1>1, <1>5 DEF AnswerBadly, ProducerAdvances, TypeOK
  <2>2. PICK k \in Bad : Settle(f, Of(k, NoCalculation, "pending"))
    BY <1>5 DEF AnswerBadly, Bad
  <2>3. k \in Kinds \ {"none"} /\ "pending" \in Statuses /\ k \notin Naming /\ k # "payload"
    BY DEF Kinds, Statuses, Bad, Naming
  <2> QED
    BY <1>5, <2>1, <2>2, <2>3, Answered DEF AnswerBadly
<1> QED
  BY <1>2, <1>3, <1>4, <1>5 DEF Answer

-----------------------------------------------------------------------------
(* The ways a handler goes on. *)

(* What a handler counts when it ends. *)
Accounted(f, o) ==
  \/ o = "success" /\ Count(f, "success")
  \/ o \in {"refused", "invalid_response"} /\ Count(f, "failure")
  \/ o # "success" /\ UNCHANGED counted

(* A workflow ends with an answer in its hands or out of budget. *)
MayEnd(f) ==
  \/ step[f] \in Waits /\ reply[f].kind # "none"
  \/ step[f] = "sleep" /\ ~RoundsLeft(f)

LEMMA Ended ==
  ASSUME IInv, NEW f \in Flows,
         MayEnd(f),
         NEW o \in Ends, NEW c \in Calculations \cup {NoCalculation},
         End(f, o, c), Accounted(f, o),
         o = "success" => /\ c \in Calculations /\ calculations[c] = "completed"
                          /\ f \in Binding /\ accepted[f] # NoCalculation => c = accepted[f],
         o # "success" => c = NoCalculation,
         UNCHANGED <<calculations, accepted, polled, lastStatus, rounds, requests>>
  PROVE  IInv'
<1>1. FlowInv(f) /\ TypeOK
  BY DEF IInv
<1>2. /\ step' = [step EXCEPT ![f] = "done"] /\ step'[f] = "done"
      /\ outcome' = [outcome EXCEPT ![f] = o] /\ outcome'[f] = o
      /\ returned' = [returned EXCEPT ![f] = c] /\ returned'[f] = c
      /\ reply' = reply
  BY <1>1 DEF End, TypeOK
<1>3. outcome[f] = Undecided /\ o # Undecided
  BY <1>1 DEF FlowInv, Shape, MayEnd, Waits, Ends, Undecided
<1>4. counted[f] = [success |-> 0, failure |-> 0]
  <2>1. counted[f] \in [success : Nat, failure : Nat]
    BY <1>1 DEF TypeOK
  <2>2. counted[f].success = 0 /\ counted[f].failure # 1 /\ counted[f].failure <= 1
    BY <1>1, <1>3, <2>1 DEF FlowInv, Counted, Undecided
  <2> QED
    BY <2>1, <2>2
<1>5. /\ counted' \in [Flows -> [success : Nat, failure : Nat]]
      /\ \A g \in Flows \ {f} : counted'[g] = counted[g]
      /\ counted'[f].success = (IF o = "success" THEN 1 ELSE 0)
      /\ counted'[f].failure \in {0, 1}
      /\ counted'[f].failure = 1 => o \in {"refused", "invalid_response"}
  <2>1. CASE o = "success" /\ Count(f, "success")
    BY <1>1, <1>4, <2>1, SMTT(30) DEF Count, TypeOK
  <2>2. CASE o \in {"refused", "invalid_response"} /\ Count(f, "failure")
    BY <1>1, <1>4, <2>2, SMTT(30) DEF Count, TypeOK
  <2>3. CASE o # "success" /\ UNCHANGED counted
    BY <1>1, <1>4, <2>3 DEF TypeOK
  <2> QED
    BY <2>1, <2>2, <2>3 DEF Accounted
<1>6. TypeOK'
  BY <1>1, <1>2, <1>5 DEF TypeOK, Steps
<1>7. \A g \in Flows \ {f} : Untouched(g)
  BY <1>1, <1>2, <1>5 DEF Untouched, TypeOK
<1>8. Shape(f)'
  BY <1>2, <1>3 DEF Shape
<1>9. Answers(f)' /\ Own(f)'
  BY <1>1, <1>2 DEF FlowInv, Answers, Own
<1>10. Counted(f)'
  BY <1>2, <1>5 DEF Counted
<1>11. Sent(f)'
  <2>1. rounds[f] \in 0 .. MaxPolls /\ requests[f] \in Nat /\ MaxPolls \in Nat
    BY <1>1, FlowAssumption DEF TypeOK
  <2>2. step[f] = "sleep" => rounds[f] = MaxPolls
    BY <2>1 DEF MayEnd, RoundsLeft, Waits
  <2> QED
    BY <1>1, <1>2, <2>1, <2>2 DEF FlowInv, Shape, Sent, Received1, MayEnd, Waits
<1>12. ProducerAdvances
  BY DEF ProducerAdvances
<1> QED
  BY <1>6, <1>7, <1>8, <1>9, <1>10, <1>11, <1>12, OneFlow DEF FlowInv

(* A workflow that goes on: to its first request, into a round, on to the
   result or into the sleep. *)
LEMMA Continued ==
  ASSUME IInv, NEW f \in Flows, NEW s \in {"submit", "status", "result", "sleep"}, Await(f, s),
         accepted' \in [Flows -> Calculations \cup {NoCalculation}],
         \A g \in Flows \ {f} :
           accepted'[g] = accepted[g] /\ polled'[g] = polled[g] /\ rounds'[g] = rounds[g],
         polled' \in [Flows -> BOOLEAN], lastStatus' \in [Flows -> Statuses],
         rounds' \in [Flows -> 0 .. MaxPolls], step[f] # "done",
         s = "submit" => accepted'[f] = NoCalculation /\ rounds'[f] = 0 /\ ~polled'[f],
         s # "submit" => /\ accepted'[f] \in Calculations /\ rounds'[f] > 0
                         /\ calculations[accepted'[f]] # "unknown",
         s = "status" => polled'[f],
         requests[f] = CASE s = "submit" -> 0
                         [] s = "status" -> 2 * rounds'[f] - 1
                         [] s = "result" -> (IF polled'[f] THEN 2 * rounds'[f] ELSE rounds'[f])
                         [] s = "sleep" -> 1 + (IF polled'[f] THEN 2 * rounds'[f] ELSE rounds'[f]),
         UNCHANGED <<calculations, outcome, returned, counted, requests>>
  PROVE  IInv'
<1>1. FlowInv(f) /\ TypeOK
  BY DEF IInv
<1>2. /\ step' = [step EXCEPT ![f] = s] /\ step'[f] = s
      /\ reply' = [reply EXCEPT ![f] = NoReply] /\ reply'[f] = NoReply
  BY <1>1 DEF Await, TypeOK
<1>3. reply'[f].kind = "none"
  BY <1>2, ReplyFacts
<1>4. TypeOK'
  BY <1>1, <1>2, ReplyFacts DEF TypeOK, Steps, Waits
<1>5. \A g \in Flows \ {f} : Untouched(g)
  BY <1>1, <1>2 DEF Untouched, TypeOK
<1>6. outcome[f] = Undecided
  BY <1>1 DEF FlowInv, Shape
<1>7. Shape(f)'
  BY <1>2, <1>3, <1>6 DEF Shape
<1>8. Answers(f)'
  BY <1>3 DEF Answers, Naming
<1>9. Own(f)' /\ Counted(f)'
  BY <1>1, <1>6 DEF FlowInv, Own, Counted, Undecided
<1>10. Sent(f)'
  <2>1. Received1(f)' = 0 /\ rounds'[f] \in Nat /\ requests'[f] = requests[f]
    BY <1>3 DEF Received1
  <2> QED
    BY <1>2, <2>1 DEF Sent
<1>11. ProducerAdvances
  BY DEF ProducerAdvances
<1> QED
  BY <1>4, <1>5, <1>7, <1>8, <1>9, <1>10, <1>11, OneFlow DEF FlowInv

(* A failure raised by the request itself. *)
LEMMA Raised ==
  ASSUME IInv, NEW f \in Flows, step[f] \in Waits, Raise(f),
         UNCHANGED <<calculations, accepted, polled, lastStatus, rounds, requests>>
  PROVE  IInv'
<1>1. MayEnd(f)
  BY DEF Raise, MayEnd
<1>2. PICK o \in {"refused", "invalid_response", "invalid_input"} :
        End(f, o, NoCalculation) /\ Accounted(f, o)
  BY DEF Raise, Accounted
<1>3. o \in Ends /\ o # "success"
  BY DEF Ends
<1> QED
  BY <1>1, <1>2, <1>3, Ended

(* One raised after the answer was taken. *)
LEMMA Failed ==
  ASSUME IInv, NEW f \in Flows, NEW o \in {"data_gap", "invalid_response"}, Fail(f, o),
         MayEnd(f),
         UNCHANGED <<calculations, accepted, polled, lastStatus, rounds, requests>>
  PROVE  IInv'
<1>1. End(f, o, NoCalculation) /\ Accounted(f, o)
  BY DEF Fail, Accounted
<1>2. o \in Ends /\ o # "success"
  BY DEF Ends
<1> QED
  BY <1>1, <1>2, Ended

(* A result that may be returned. *)
LEMMA Succeeded ==
  ASSUME IInv, NEW f \in Flows, step[f] \in Waits, reply[f].kind = "payload",
         Succeed(f, reply[f].calculation),
         f \in Binding /\ accepted[f] # NoCalculation => reply[f].calculation = accepted[f],
         UNCHANGED <<calculations, accepted, polled, lastStatus, rounds, requests>>
  PROVE  IInv'
<1>1. reply[f].calculation \in Calculations /\ calculations[reply[f].calculation] = "completed"
  BY DEF IInv, FlowInv, Answers, Naming
<1>2. End(f, "success", reply[f].calculation) /\ Accounted(f, "success")
  BY DEF Succeed, Accounted
<1>3. MayEnd(f) /\ "success" \in Ends
  BY DEF MayEnd, Ends
<1> QED
  BY <1>1, <1>2, <1>3, Ended

LEMMA StartKeeps ==
  ASSUME IInv, NEW f \in Flows, Start(f)
  PROVE  IInv'
<1>1. FlowInv(f) /\ TypeOK
  BY DEF IInv
<1>2. accepted[f] = NoCalculation /\ rounds[f] = 0 /\ ~polled[f] /\ requests[f] = 0
  BY <1>1 DEF FlowInv, Shape, Sent, Start
<1> QED
  BY <1>1, <1>2, Continued DEF Start, TypeOK

LEMMA SubmittedKeeps ==
  ASSUME IInv, NEW f \in Flows, Submitted(f)
  PROVE  IInv'
<1>1. FlowInv(f) /\ TypeOK
  BY DEF IInv
<1>2. step[f] = "submit" /\ step[f] \in Waits
  BY DEF Submitted, Waits
<1>3. accepted[f] = NoCalculation /\ rounds[f] = 0 /\ ~polled[f]
  BY <1>1, <1>2 DEF FlowInv, Shape
<1>4. CASE Raise(f) /\ UNCHANGED <<accepted, polled, rounds>>
  BY <1>2, <1>4, Raised DEF Submitted
<1>5. CASE /\ reply[f].kind = "payload" /\ Succeed(f, reply[f].calculation)
           /\ UNCHANGED <<accepted, polled, rounds>>
  BY <1>2, <1>3, <1>5, Succeeded DEF Submitted
<1>6. CASE /\ reply[f].kind = "acceptedInvalid" /\ Fail(f, "invalid_response")
           /\ UNCHANGED <<accepted, polled, rounds>>
  BY <1>2, <1>6, Failed DEF Submitted, MayEnd
<1>7. CASE /\ reply[f].kind \in {"accepted", "acceptedNoPoll"}
           /\ accepted' = [accepted EXCEPT ![f] = reply[f].calculation]
           /\ polled' = [polled EXCEPT ![f] = reply[f].kind = "accepted"]
           /\ NextRound(f) /\ Await(f, FirstOfRound(f))
           /\ RecordAnswer(f) /\ UNCHANGED <<outcome, returned>>
  <2>1. reply[f].calculation \in Calculations /\ calculations[reply[f].calculation] # "unknown"
    BY <1>1, <1>7 DEF FlowInv, Answers, Naming
  <2>2. rounds' = [rounds EXCEPT ![f] = 1] /\ rounds' \in [Flows -> 0 .. MaxPolls] /\ rounds'[f] = 1
    BY <1>1, <1>3, <1>7, FlowAssumption DEF NextRound, TypeOK
  <2>3. /\ accepted' \in [Flows -> Calculations \cup {NoCalculation}]
        /\ accepted'[f] = reply[f].calculation
        /\ polled' \in [Flows -> BOOLEAN]
    BY <1>1, <1>7, <2>1 DEF TypeOK
  <2>4. requests[f] = 1
    BY <1>1, <1>2, <1>7 DEF FlowInv, Sent, Received1
  <2>5. CASE polled'[f]
    <3>1. FirstOfRound(f) = "status" /\ Await(f, "status")
      BY <1>7, <2>5 DEF FirstOfRound
    <3>2. requests[f] = 2 * rounds'[f] - 1
      BY <2>2, <2>4
    <3>3. step[f] # "done" /\ UNCHANGED <<calculations, outcome, returned, counted, requests>>
      BY <1>2, <1>7 DEF Submitted, RecordAnswer
    <3>4. /\ \A g \in Flows \ {f} :
               accepted'[g] = accepted[g] /\ polled'[g] = polled[g] /\ rounds'[g] = rounds[g]
          /\ rounds'[f] > 0 /\ lastStatus' \in [Flows -> Statuses]
      BY <1>1, <1>7, <2>2 DEF Submitted, TypeOK
    <3> QED
      BY <2>1, <2>2, <2>3, <2>5, <3>1, <3>2, <3>3, <3>4, Continued
  <2>6. CASE ~polled'[f]
    <3>1. FirstOfRound(f) = "result" /\ Await(f, "result")
      BY <1>7, <2>6 DEF FirstOfRound
    <3> QED
      BY <1>1, <1>2, <1>7, <2>1, <2>2, <2>3, <2>4, <2>6, <3>1, Continued, SMTT(30)
      DEF Submitted, RecordAnswer, TypeOK
  <2> QED
    BY <2>5, <2>6
<1> QED
  BY <1>4, <1>5, <1>6, <1>7 DEF Submitted

LEMMA StatusPolledKeeps ==
  ASSUME IInv, NEW f \in Flows, StatusPolled(f)
  PROVE  IInv'
<1>1. FlowInv(f) /\ TypeOK
  BY DEF IInv
<1>2. step[f] = "status" /\ step[f] \in Waits
  BY DEF StatusPolled, Waits
<1>3. CASE Raise(f) /\ UNCHANGED lastStatus
  BY <1>2, <1>3, Raised DEF StatusPolled
<1>4. CASE /\ reply[f].kind = "status" /\ Fail(f, "data_gap") /\ UNCHANGED lastStatus
  BY <1>2, <1>4, Failed DEF StatusPolled, MayEnd
<1>5. CASE /\ \/ /\ reply[f].kind = "status" /\ reply[f].status # "failed"
                 /\ lastStatus' = [lastStatus EXCEPT ![f] = reply[f].status]
              \/ reply[f].kind = "noStatus" /\ UNCHANGED lastStatus
           /\ Await(f, "result") /\ RecordAnswer(f) /\ UNCHANGED <<outcome, returned>>
  <2>1. /\ accepted[f] \in Calculations /\ accepted[f] # NoCalculation
        /\ calculations[accepted[f]] # "unknown" /\ rounds[f] > 0 /\ polled[f]
    BY <1>1, <1>2, FlowAssumption DEF FlowInv, Shape, Answers
  <2>2. lastStatus' \in [Flows -> Statuses]
    BY <1>1, <1>5 DEF TypeOK
  <2>3. requests[f] = 2 * rounds[f] /\ rounds[f] \in Nat
    BY <1>1, <1>2, <1>5 DEF FlowInv, Sent, Received1, TypeOK
  <2> QED
    BY <1>1, <1>2, <1>5, <2>1, <2>2, <2>3, Continued DEF StatusPolled, RecordAnswer, TypeOK
<1> QED
  BY <1>3, <1>4, <1>5 DEF StatusPolled

LEMMA ResultPolledKeeps ==
  ASSUME IInv, NEW f \in Flows, ResultPolled(f)
  PROVE  IInv'
<1>1. FlowInv(f) /\ TypeOK
  BY DEF IInv
<1>2. step[f] = "result" /\ step[f] \in Waits
  BY DEF ResultPolled, Waits
<1>3. CASE Raise(f)
  BY <1>2, <1>3, Raised DEF ResultPolled
<1>4. CASE /\ reply[f].kind = "pending" /\ Await(f, "sleep") /\ RecordAnswer(f)
           /\ UNCHANGED <<outcome, returned>>
  <2>1. /\ accepted[f] \in Calculations /\ accepted[f] # NoCalculation
        /\ calculations[accepted[f]] # "unknown" /\ rounds[f] > 0
    BY <1>1, <1>2, FlowAssumption DEF FlowInv, Shape, Answers
  <2>2. requests[f] = 1 + (IF polled[f] THEN 2 * rounds[f] ELSE rounds[f])
    BY <1>1, <1>2, <1>4 DEF FlowInv, Sent, Received1, TypeOK
  <2> QED
    BY <1>1, <1>2, <1>4, <2>1, <2>2, Continued DEF ResultPolled, RecordAnswer, TypeOK
<1>5. CASE reply[f].kind = "null" /\ Fail(f, "data_gap")
  BY <1>2, <1>5, Failed DEF ResultPolled, MayEnd
<1>6. CASE reply[f].kind = "payload" /\ OwnResult(f) /\ Succeed(f, reply[f].calculation)
  BY <1>2, <1>6, Succeeded DEF ResultPolled, OwnResult
<1>7. CASE reply[f].kind = "payload" /\ ~OwnResult(f) /\ Fail(f, "invalid_response")
  BY <1>2, <1>7, Failed DEF ResultPolled, MayEnd
<1> QED
  BY <1>3, <1>4, <1>5, <1>6, <1>7 DEF ResultPolled

LEMMA WakeUpKeeps ==
  ASSUME IInv, NEW f \in Flows, WakeUp(f)
  PROVE  IInv'
<1>1. FlowInv(f) /\ TypeOK
  BY DEF IInv
<1>2. step[f] = "sleep"
  BY DEF WakeUp
<1>3. CASE /\ RoundsLeft(f) /\ NextRound(f) /\ UNCHANGED polled
           /\ Await(f, FirstOfRound(f)) /\ UNCHANGED <<outcome, returned, counted>>
  <2>1. /\ accepted[f] \in Calculations /\ accepted[f] # NoCalculation
        /\ calculations[accepted[f]] # "unknown" /\ rounds[f] \in Nat
    BY <1>1, <1>2, FlowAssumption DEF FlowInv, Shape, Answers, TypeOK
  <2>2. rounds' = [rounds EXCEPT ![f] = rounds[f] + 1] /\ rounds'[f] = rounds[f] + 1
        /\ rounds' \in [Flows -> 0 .. MaxPolls]
    BY <1>1, <1>3, FlowAssumption DEF NextRound, RoundsLeft, TypeOK
  <2>3. requests[f] = 1 + (IF polled[f] THEN 2 * rounds[f] ELSE rounds[f])
    BY <1>1, <1>2 DEF FlowInv, Sent
  <2>4. CASE polled[f]
    <3>1. Await(f, "status")
      BY <1>3, <2>4 DEF FirstOfRound
    <3>2. requests[f] = 2 * rounds'[f] - 1
      BY <2>1, <2>2, <2>3, <2>4
    <3> QED
      BY <1>1, <1>2, <1>3, <2>1, <2>2, <2>4, <3>1, <3>2, Continued, SMTT(30) DEF WakeUp, TypeOK
  <2>5. CASE ~polled[f]
    <3>1. Await(f, "result")
      BY <1>3, <2>5 DEF FirstOfRound
    <3>2. requests[f] = (IF polled'[f] THEN 2 * rounds'[f] ELSE rounds'[f])
      BY <1>3, <2>1, <2>2, <2>3, <2>5
    <3> QED
      BY <1>1, <1>2, <1>3, <2>1, <2>2, <2>5, <3>1, <3>2, Continued, SMTT(30) DEF WakeUp, TypeOK
  <2> QED
    BY <2>4, <2>5
<1>4. CASE ~RoundsLeft(f) /\ Fail(f, "data_gap") /\ UNCHANGED <<rounds, polled>>
  BY <1>2, <1>4, Failed DEF WakeUp, MayEnd
<1> QED
  BY <1>3, <1>4 DEF WakeUp

LEMMA CalculateKeeps ==
  ASSUME IInv, NEW c \in Calculations, Calculate(c)
  PROVE  IInv'
<1>1. TypeOK
  BY DEF IInv
<1>2. ProducerAdvances /\ TypeOK'
  BY <1>1 DEF Calculate, ProducerAdvances, TypeOK, Stages
<1>3. \A g \in Flows : Untouched(g)
  BY DEF Calculate, Untouched
<1>4. \A g \in Flows : FlowInv(g)'
  BY <1>2, <1>3, OthersKeep
<1> QED
  BY <1>2, <1>4 DEF IInv

-----------------------------------------------------------------------------
(* Theorems *)

LEMMA Initially == Init => IInv
<1> SUFFICES ASSUME Init
             PROVE  IInv
  OBVIOUS
<1>1. TypeOK
  BY ReplyFacts, FlowAssumption
  DEF Init, TypeOK, Stages, Steps, Ends, Statuses, CountBound, Undecided
<1>2. ASSUME NEW f \in Flows
      PROVE  FlowInv(f)
  BY ReplyFacts
  DEF Init, FlowInv, Shape, Answers, Naming, Own, Counted, Sent, Received1, Undecided
<1> QED
  BY <1>1, <1>2 DEF IInv

(* The invariant of every behaviour of the workflows and the producer. *)
THEOREM Inductive == Spec => []IInv
<1>1. IInv /\ [Next]_vars => IInv'
  <2> SUFFICES ASSUME IInv, [Next]_vars
               PROVE  IInv'
    OBVIOUS
  <2>1. ASSUME NEW f \in Flows, Start(f) \/ Answer(f) \/ Resume(f)
        PROVE  IInv'
    BY <2>1, StartKeeps, AnswersKeep, SubmittedKeeps, StatusPolledKeeps, ResultPolledKeeps,
       WakeUpKeeps DEF Resume
  <2>2. ASSUME NEW c \in Calculations, Calculate(c)
        PROVE  IInv'
    BY <2>2, CalculateKeeps
  <2>3. CASE UNCHANGED vars
    BY <2>3 DEF vars, IInv, TypeOK, FlowInv, Shape, Answers, Own, Counted, Sent, Received1
  <2> QED
    BY <2>1, <2>2, <2>3 DEF Next
<1> QED
  BY Initially, <1>1, PTL DEF Spec

(* Every variable of the handlers and of the producer keeps its type. *)
THEOREM TypeCorrect == Spec => []TypeOK
<1>1. IInv => TypeOK
  BY DEF IInv
<1> QED
  BY Inductive, <1>1, PTL

(* A success carries a completed result, and in returns-series that of the
   calculation it accepted (required_async_result). *)
THEOREM ResultsOwned == Spec => []ResultsAreOwn
<1>1. IInv => ResultsAreOwn
  BY DEF IInv, FlowInv, Own, ResultsAreOwn
<1> QED
  BY Inductive, <1>1, PTL

(* A workflow of many requests counts as one (record_upstream_request). *)
THEOREM CountedOnce == Spec => []CountedAsOne
<1>1. IInv => CountedAsOne
  BY DEF IInv, FlowInv, Counted, CountedAsOne
<1> QED
  BY Inductive, <1>1, PTL

(* No workflow sends more than its polling budget, and one that gives up has
   sent all of it (poll_async_result). *)
THEOREM BudgetUsed == Spec => []BudgetIsUsed
<1>1. ASSUME IInv
      PROVE  BudgetIsUsed
  <2> SUFFICES ASSUME NEW f \in Flows
               PROVE  LET perRound == IF polled[f] THEN 2 ELSE 1 IN
                      /\ requests[f] <= 1 + perRound * MaxPolls
                      /\ step[f] = "done" /\ reply[f].kind = "none"
                           => requests[f] = 1 + perRound * MaxPolls
    BY DEF BudgetIsUsed
  <2>1. /\ FlowInv(f) /\ step[f] \in Steps /\ rounds[f] \in 0 .. MaxPolls
        /\ requests[f] \in Nat /\ MaxPolls \in Nat
    BY <1>1, FlowAssumption DEF IInv, TypeOK
  <2> QED
    BY <2>1 DEF FlowInv, Shape, Sent, Received1, Steps, Waits
<1> QED
  BY Inductive, <1>1, PTL
=============================================================================
