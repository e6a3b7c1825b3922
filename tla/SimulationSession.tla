-------------------------- MODULE SimulationSession --------------------------
(***************************************************************************)
(* Simulated concentration (src/src/app/services/concentration): a handler *)
(* of lotus-risk resolves a lotus-core simulation session, applies the     *)
(* caller's change set under an idempotency key and reads a snapshot of    *)
(* the session.  lotus-core owns sessions and replay; any answer can be    *)
(* lost after it had its effect, and callers ask again.                    *)
(*                                                                         *)
(* A request to lotus-core is two steps: lotus-core handles it, the        *)
(* handler resumes; other handlers act in between.  A change set stands    *)
(* for the portfolio and the normalised list of changes.                   *)
(***************************************************************************)
EXTENDS Naturals, Sequences

CONSTANTS
  Callers,       \* callers, each with one request at a time
  SessionIds,    \* the session ids lotus-core can give
  ChangeSets,    \* contents of simulation_changes
  Keys,          \* values of the Idempotency-Key header
  ExpectedVersions,  \* values callers give as expected_version
  MaxAttempts,   \* bound: requests of a caller, new ones or repeated
  MaxFaults,     \* bound: answers of lotus-core that are lost or refusals
  NoSession, NoChanges, NoKey, NoVersion, NoRequest, NoReply, NoResponse

ASSUME BoundsAssumption == MaxAttempts \in Nat /\ MaxFaults \in Nat

VARIABLES
  sessions,   \* lotus-core: id -> change sets applied, in order, or NoSession
  ledger,     \* lotus-core: first fingerprint and version of each key
  creators,   \* history: id -> key and changes its session was created for
  late,       \* requests for changes on their way, given up by their handler
  request,    \* caller -> its request
  step,       \* caller -> the request to lotus-core its handler awaits
  reply,      \* caller -> lotus-core's answer
  session,    \* caller -> the handler's SimulationSession
  attempts,   \* caller -> attempts made
  faults,     \* answers lost or refused so far
  response    \* caller -> the response to its last request

core    == <<sessions, ledger, creators, late>>
handler == <<request, step, session, attempts>>
vars == <<sessions, ledger, creators, late, request, step, reply, session, attempts,
          faults, response>>

Versions == (Nat \ {0}) \cup {NoVersion}
Requests == [session : SessionIds \cup {NoSession}, startNew : BOOLEAN,
             changes : ChangeSets \cup {NoChanges}, key : Keys \cup {NoKey},
             expected : ExpectedVersions \cup {NoVersion}]
Handles  == [id : SessionIds \cup {NoSession}, version : Versions]

(* What lotus-core keeps, is sent and answers, and what callers are told. *)
Entries      == [key : Keys, changes : ChangeSets]
Contents     == Seq(Entries)
Fingerprints == SessionIds \X ChangeSets
Ledger       == [key : Keys, fingerprint : Fingerprints, version : Nat \ {0}]
Messages     == [session : SessionIds, key : Keys, sent : Entries, fingerprint : Fingerprints]
Creators     == [key : Keys \cup {NoKey}, changes : ChangeSets \cup {NoChanges}]
Replies      == [kind : {"refused"}]
                \cup [kind : {"session"}, id : SessionIds, version : Versions]
                \cup [kind : {"applied"}, version : Versions]
                \cup [kind : {"snapshot"}, version : Versions, content : Contents]
Responses    == [request : Requests, expected : ExpectedVersions \cup Versions,
                 version : Versions, content : Contents]

(* What is missing is none of the values that can be there. *)
ASSUME SentinelAssumption ==
  /\ NoSession \notin SessionIds /\ NoChanges \notin ChangeSets
  /\ NoKey \notin Keys /\ NoVersion \notin Nat
  /\ NoSession \notin Contents /\ NoReply \notin Replies
  /\ NoRequest \notin Requests /\ NoResponse \notin Responses

Unresolved == [id |-> NoSession, version |-> NoVersion]

Exists(s) == sessions[s] # NoSession
Version(s) == Len(sessions[s]) + 1

Sent(c) == [key |-> request[c].key, changes |-> request[c].changes]

(* Mutant: each submission is sent under a key of its own. *)
KeyOfAttempt(c) == <<request[c].key, c, attempts[c]>>

SentKey(c) == request[c].key

(* Mutant: the session is left out of the fingerprint. *)
ChangesOnly(c) == request[c].changes

(* Mutant: the version of the session goes into the fingerprint. *)
WholeSession(c) == <<session[c], request[c].changes>>

(* _change_set_fingerprint *)
Fingerprint(c) == <<session[c].id, request[c].changes>>

-----------------------------------------------------------------------------
(* lotus-core, as its use by the client provides for it. *)

Awaits(c, s) == step[c] = s /\ reply[c] = NoReply
Reply(c, r) == reply' = [reply EXCEPT ![c] = r]
Refused == [kind |-> "refused"]

CreateSession(c) ==
  /\ Awaits(c, "create")
  /\ \E s \in SessionIds :
       /\ ~Exists(s)
       /\ sessions' = [sessions EXCEPT ![s] = <<>>]
       /\ creators' = [creators EXCEPT ![s] = Sent(c)]
       /\ \E v \in {1, NoVersion} : Reply(c, [kind |-> "session", id |-> s, version |-> v])
  /\ UNCHANGED <<ledger, late, handler, faults, response>>

Message(c) == [session |-> session[c].id, key |-> SentKey(c), sent |-> Sent(c),
               fingerprint |-> Fingerprint(c)]

Seen(m) == {e \in ledger : e.key = m.key}

Store(m) ==
  /\ sessions' = [sessions EXCEPT ![m.session] = Append(@, m.sent)]
  /\ ledger' = ledger \cup {[key |-> m.key, fingerprint |-> m.fingerprint,
                             version |-> Version(m.session) + 1]}

(* The same key with the same fingerprint replays the first result, with
   another fingerprint it is a conflict; a fresh key applies the changes. *)
AddChanges(c) ==
  LET m == Message(c) IN
  /\ Awaits(c, "change")
  /\ \/ /\ Seen(m) = {}
        /\ Store(m)
        /\ \E v \in {Version(m.session) + 1, NoVersion} :
             Reply(c, [kind |-> "applied", version |-> v])
     \/ /\ \E e \in Seen(m) :
             IF e.fingerprint = m.fingerprint
               THEN Reply(c, [kind |-> "applied", version |-> e.version])
               ELSE Reply(c, Refused)
        /\ UNCHANGED <<sessions, ledger>>
  /\ UNCHANGED <<creators, late, handler, faults, response>>

(* A request for changes the handler has given up arrives all the same. *)
AddLateChanges(m) ==
  /\ late' = late \ {m}
  /\ IF Seen(m) = {} THEN Store(m) ELSE UNCHANGED <<sessions, ledger>>
  /\ UNCHANGED <<creators, handler, reply, faults, response>>

(* simulation_snapshot_payload: the caller's expected version goes before the
   one the session has. *)
SentVersion(c) ==
  IF request[c].expected # NoVersion THEN request[c].expected ELSE session[c].version

ExpectedVersion(c) == SentVersion(c)

TakeSnapshot(c) ==
  LET s == session[c].id IN
  /\ Awaits(c, "snapshot")
  /\ IF ExpectedVersion(c) \in {NoVersion, Version(s)}
       THEN \E v \in {Version(s), NoVersion} :
              Reply(c, [kind |-> "snapshot", version |-> v, content |-> sessions[s]])
       ELSE Reply(c, Refused)
  /\ UNCHANGED <<core, handler, faults, response>>

(* A request is lost or late, or its answer is lost or cannot be used: the
   handler sees an upstream error, whatever lotus-core does. *)
LoseAnswer(c) ==
  /\ step[c] \in {"create", "change", "snapshot"}
  /\ reply[c] # Refused
  /\ faults < MaxFaults
  /\ Reply(c, Refused)
  /\ faults' = faults + 1
  /\ \/ UNCHANGED late
     \/ Awaits(c, "change") /\ late' = late \cup {Message(c)}
  /\ UNCHANGED <<sessions, ledger, creators, handler, response>>

-----------------------------------------------------------------------------
(* The handler. *)

(* Mutant: the key is not looked at before the first write. *)
AlwaysAdmitted(r) == TRUE

(* _resolve_applied_simulation_session validates the key of a request with
   changes before it asks lotus-core for anything. *)
Admitted(r) == r.changes # NoChanges => r.key # NoKey

Await(c, s) ==
  /\ step' = [step EXCEPT ![c] = s]
  /\ Reply(c, NoReply)

Finish(c, a) ==
  /\ Await(c, "idle")
  /\ request' = [request EXCEPT ![c] = NoRequest]
  /\ session' = [session EXCEPT ![c] = Unresolved]
  /\ response' = [response EXCEPT ![c] = a]

(* A caller, for the first time or again, names a session there is or none.  A
   key is read only with changes, and start_new_session changes something
   only for a named session. *)
Ask(c) ==
  /\ step[c] = "idle"
  /\ attempts[c] < MaxAttempts
  /\ \E r \in Requests :
       /\ r.session # NoSession => Exists(r.session)
       /\ r.changes = NoChanges => r.key = NoKey
       /\ r.startNew => r.session # NoSession
       /\ request' = [request EXCEPT ![c] = r]
       /\ Await(c, IF Admitted(r) THEN "resolve" ELSE "refuse")
  /\ attempts' = [attempts EXCEPT ![c] = @ + 1]
  /\ response' = [response EXCEPT ![c] = NoResponse]
  /\ UNCHANGED <<core, session, faults>>

(* The request ends with an error. *)
Fail(c) ==
  /\ \/ step[c] = "refuse" \/ reply[c] = Refused
     \/ step[c] = "apply" /\ request[c].changes # NoChanges /\ request[c].key = NoKey
  /\ Finish(c, NoResponse)
  /\ UNCHANGED <<core, attempts, faults>>

(* _created_simulation_session *)
CreatedSession(c) == [id |-> reply[c].id, version |-> reply[c].version]

(* resolve_simulation_session *)
Resolve(c) ==
  LET r == request[c] IN
  \/ /\ step[c] = "resolve"
     /\ IF r.startNew \/ r.session = NoSession
          THEN Await(c, "create") /\ UNCHANGED session
          ELSE /\ Await(c, "apply")
               /\ session' = [session EXCEPT ![c] = [id |-> r.session, version |-> NoVersion]]
     /\ UNCHANGED <<core, request, attempts, faults, response>>
  \/ /\ step[c] = "create" /\ reply[c] \notin {NoReply, Refused}
     /\ session' = [session EXCEPT ![c] = CreatedSession(c)]
     /\ Await(c, "apply")
     /\ UNCHANGED <<core, request, attempts, faults, response>>

(* apply_simulation_changes, which validates the key once more, and
   `changes_response.version or session.version'. *)
Apply(c) ==
  LET r == request[c] IN
  \/ /\ step[c] = "apply"
     /\ \/ r.changes = NoChanges /\ Await(c, "snapshot")
        \/ r.changes # NoChanges /\ r.key # NoKey /\ Await(c, "change")
     /\ UNCHANGED <<core, request, session, attempts, faults, response>>
  \/ /\ step[c] = "change" /\ reply[c] \notin {NoReply, Refused}
     /\ session' = [session EXCEPT ![c].version =
                      IF reply[c].version # NoVersion THEN reply[c].version ELSE @]
     /\ Await(c, "snapshot")
     /\ UNCHANGED <<core, request, attempts, faults, response>>

(* session_with_snapshot_version, and the response. *)
Respond(c) ==
  /\ step[c] = "snapshot" /\ reply[c] \notin {NoReply, Refused}
  /\ Finish(c, [request |-> request[c], expected |-> SentVersion(c),
                version |-> IF reply[c].version # NoVersion THEN reply[c].version
                                                           ELSE session[c].version,
                content |-> reply[c].content])
  /\ UNCHANGED <<core, attempts, faults>>

-----------------------------------------------------------------------------
Init ==
  /\ sessions = [s \in SessionIds |-> NoSession]
  /\ ledger = {}
  /\ late = {}
  /\ creators = [s \in SessionIds |-> NoRequest]
  /\ request = [c \in Callers |-> NoRequest]
  /\ step = [c \in Callers |-> "idle"]
  /\ reply = [c \in Callers |-> NoReply]
  /\ session = [c \in Callers |-> Unresolved]
  /\ attempts = [c \in Callers |-> 0]
  /\ faults = 0
  /\ response = [c \in Callers |-> NoResponse]

CoreHandles(c) == CreateSession(c) \/ AddChanges(c) \/ TakeSnapshot(c)

Resume(c) == Resolve(c) \/ Apply(c) \/ Respond(c) \/ Fail(c)

Next ==
  \/ \E c \in Callers : Ask(c) \/ CoreHandles(c) \/ LoseAnswer(c) \/ Resume(c)
  \/ \E m \in late : AddLateChanges(m)

Spec == Init /\ [][Next]_vars

-----------------------------------------------------------------------------
(* Properties *)

(* Every variable holds what handlers and lotus-core can hold. *)
TypeOK ==
  /\ sessions \in [SessionIds -> Contents \cup {NoSession}]
  /\ creators \in [SessionIds -> Creators \cup {NoRequest}]
  /\ ledger \subseteq Ledger /\ late \subseteq Messages
  /\ request \in [Callers -> Requests \cup {NoRequest}]
  /\ step \in [Callers -> {"idle", "refuse", "resolve", "create", "apply",
                           "change", "snapshot"}]
  /\ reply \in [Callers -> Replies \cup {NoReply}]
  /\ session \in [Callers -> Handles]
  /\ attempts \in [Callers -> 0 .. MaxAttempts]
  /\ faults \in 0 .. MaxFaults
  /\ response \in [Callers -> Responses \cup {NoResponse}]

(* No session has a change set twice under one key, whatever is lost, repeated
   or asked at the same time (the key and fingerprint sent with the changes). *)
ChangesAreAppliedOnce ==
  \A s \in SessionIds : Exists(s) =>
    \A i, j \in DOMAIN sessions[s] : sessions[s][i].key = sessions[s][j].key => i = j

(* A response to a request with changes is computed from a snapshot that has
   them, exactly once (resolve_simulation). *)
AnswersShowOwnChanges ==
  \A c \in Callers : response[c] # NoResponse /\ response[c].request.changes # NoChanges =>
    LET a == response[c] IN
    \E i \in DOMAIN a.content :
      /\ a.content[i] = [key |-> a.request.key, changes |-> a.request.changes]
      /\ \A j \in DOMAIN a.content : a.content[j].key = a.request.key => i = j

(* A response whose version was expected, by the caller or from the answers of
   lotus-core, shows the session at that version, so without what others
   changed after it; and it names that version unless the caller's own
   expectation replaced the handler's (simulation_snapshot_payload,
   session_with_snapshot_version). *)
AnswersAreAtTheirVersion ==
  \A c \in Callers : response[c] # NoResponse =>
    LET a == response[c] IN
    /\ a.expected # NoVersion => a.expected = Len(a.content) + 1
    /\ a.request.expected = NoVersion /\ a.version # NoVersion
       => a.version = Len(a.content) + 1

(* An answer tells one state of a session: that of the version it names, with
   the caller's own changes in it. *)
AnswersTellOneVersion == AnswersShowOwnChanges /\ AnswersAreAtTheirVersion

(* A request that its own validation refuses has not created a session
   (_resolve_applied_simulation_session). *)
RefusalsCreateNothing ==
  \A s \in SessionIds : 
    Exists(s) /\ creators[s].changes # NoChanges => creators[s].key # NoKey

(* A change set sent again to the session that has it is replayed and not
   refused as a conflict, also when the first attempt created the session and
   the second one names it (_change_set_fingerprint). *)
RepeatsAreReplayed ==
  [][\A c \in Callers :
       /\ Awaits(c, "change") /\ reply'[c] = Refused /\ faults' = faults
       => \A i \in DOMAIN sessions[session[c].id] :
            sessions[session[c].id][i] # Sent(c)]_vars
=============================================================================
