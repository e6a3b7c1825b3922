-------------------------------- MODULE Gateway --------------------------------
(***************************************************************************)
(* How a request reaches a handler of lotus-risk and how the process that  *)
(* serves it starts and stops (src/src/app): create_app and the runtime    *)
(* configuration, the lifespan with its two HTTP client pools, the         *)
(* admission middleware in its two postures, the resolution of a verified  *)
(* principal against identity authorities that change while it runs, the   *)
(* routes' own scope and tenant checks, and the audit event of the answer. *)
(***************************************************************************)
EXTENDS Naturals, Sequences

CONSTANTS
  Requests,        \* requests of one life of the process
  Configurations,  \* environments and providers the process can be given
  Shapes,          \* what a request can be
  MaxChanges       \* bound: changes of the identity authorities

Pools  == {"core", "performance"}
Opening == <<"core", "performance">>

(* What the handler of a route asks for before its work: the clients and the
   tenant of its stateful modes, the portfolios it names, or the one tenant
   header of a job route. *)
Handler(clients, scope, tenancy) == [clients |-> clients, scope |-> scope, tenancy |-> tenancy]

CalculateRoute     == Handler({"performance", "core"}, FALSE, "stateful")
DrawdownRoute      == Handler({"performance"}, FALSE, "stateful")
RollingRoute       == Handler({"performance", "core"}, FALSE, "stateful")
AttributionRoute   == Handler({"performance", "core"}, FALSE, "stateful")
ConcentrationRoute == Handler({"core"}, TRUE, "stateful")
EvaluateRoute      == Handler({}, TRUE, "none")
CohortRoute        == Handler({}, TRUE, "none")
MandateRoute       == Handler({}, FALSE, "none")
SubmitRoute        == Handler({}, FALSE, "header")
StatusRoute        == Handler({}, FALSE, "header")
PageRoute          == Handler({}, FALSE, "header")
OpsRoute           == Handler({}, FALSE, "none")
ProbeRoute         == Handler({}, FALSE, "none")

(* GET routes read; "ops" stands for the protected operational paths and
   "probe" for the health routes. *)
SupportedWrites == {"calculate", "drawdown", "rolling", "attribution", "concentration",
                    "evaluate", "cohort", "mandate", "submitJob"}
Writes   == SupportedWrites
Jobs     == {"submitJob", "readJob", "readPage"}
Routes   == SupportedWrites \cup Jobs \cup {"ops", "probe"}

HandlerOf(route) ==
  CASE route = "calculate" -> CalculateRoute
    [] route = "drawdown" -> DrawdownRoute
    [] route = "rolling" -> RollingRoute
    [] route = "attribution" -> AttributionRoute
    [] route = "concentration" -> ConcentrationRoute
    [] route = "evaluate" -> EvaluateRoute
    [] route = "cohort" -> CohortRoute
    [] route = "mandate" -> MandateRoute
    [] route = "submitJob" -> SubmitRoute
    [] route = "readJob" -> StatusRoute
    [] route = "readPage" -> PageRoute
    [] route = "ops" -> OpsRoute
    [] route = "probe" -> ProbeRoute

(* What the authorities say of the subject, and of the application that acts
   for it in a delegated credential. *)
Facts == {"keyKnown", "unexpired", "unrevoked", "member", "granted", "portfolio",
          "actorMember", "actorGranted", "actorPortfolio"}

ASSUME GatewayAssumption ==
  /\ MaxChanges \in Nat
  /\ \A s \in Shapes : s.route \in Routes
  /\ \A c \in Configurations : c.rules \subseteq SupportedWrites /\ c.injected \cup c.urls \subseteq Pools

VARIABLES
  config,     \* the environment and the providers
  phase,      \* of the process
  clients,    \* client attributes of app.state
  pool,       \* HTTP pool of the process's own -> where its life stands
  owned,      \* owned_http_clients, in the order they were recorded
  draining,   \* app.state.is_draining
  authority,  \* the facts that hold now
  changes,    \* changes of the authorities so far
  request     \* request -> its progress

vars == <<config, phase, clients, pool, owned, draining, authority, changes, request>>

Phases == {"composing", "starting", "serving", "finishing", "closing", "stopped"}

(* "unclosed" is a pool whose aclose() has failed. *)
Lives == {"none", "open", "closed", "unclosed"}

(* Stages from "key" to "application" are one synchronous call of
   resolve_principal on the event loop. *)
Resolving == {"key", "clock", "revocation", "membership", "grants", "actor", "application"}
InFlight  == Resolving \cup {"arrived", "handler", "working"}
Stages    == InFlight \cup {"idle", "answered"}

NoShape == [route |-> "none"]
NoAudit == [event |-> "none", identity |-> "none"]
Fresh == [stage |-> "idle", shape |-> NoShape, read |-> {}, held |-> {}, lacked |-> {},
          effect |-> "none", audit |-> NoAudit, answer |-> "none", secured |-> FALSE]

Verified == config.posture = "verified"
Shape(r) == request[r].shape

Events == [event : {"none", "deny", "write"},
           identity : {"none", "unverified", "headers", "principal"}]

Progress == [stage : Stages, shape : Shapes \cup {NoShape}, read : SUBSET Facts,
             held : SUBSET Facts, lacked : SUBSET Facts,
             effect : {"none", "own", "header", "principal", "ready", "draining"},
             audit : Events,
             answer : {"none", "unauthenticated", "forbidden", "too large", "unavailable",
                       "rejected", "no tenant", "uncomposed", "done", "failed", "crashed"},
             secured : BOOLEAN]

(* Every variable holds what the process, the authorities and a request can
   be in. *)
TypeOK ==
  /\ config \in Configurations /\ phase \in Phases
  /\ clients \subseteq Pools /\ owned \in Seq(Pools) /\ draining \in BOOLEAN
  /\ pool \in [Pools -> Lives]
  /\ authority \subseteq Facts /\ changes \in 0..MaxChanges
  /\ request \in [Requests -> Progress]

-----------------------------------------------------------------------------
(* Composition, start and stop of the process. *)

(* An unenforced configuration only reports its issues. *)
PostureAllowed(c) == c.posture = "headerTrust" => c.environment \in {"local", "dev"}

RulesCoverWrites(c) == SupportedWrites \subseteq c.rules

BankConfigured(c) == PostureAllowed(c) /\ c.complete /\ c.authz /\ c.secret /\ RulesCoverWrites(c)

Boots(c) == PostureAllowed(c) /\ (c.enforced => BankConfigured(c))

Compose ==
  /\ phase = "composing"
  /\ phase' = IF Boots(config) THEN "starting" ELSE "stopped"
  /\ UNCHANGED <<config, clients, pool, owned, draining, authority, changes, request>>

Awaited == {p \in Pools : p \notin clients}
NextPool == IF "core" \in Awaited THEN "core" ELSE "performance"

(* make_client() opens a pool for a client that was not injected ... *)
OpenPool ==
  /\ phase = "starting" /\ Awaited # {}
  /\ pool[NextPool] = "none"
  /\ pool' = [pool EXCEPT ![NextPool] = "open"]
  /\ UNCHANGED <<config, phase, clients, owned, draining, authority, changes, request>>

(* ... and only once the client that is to use it has accepted its base URL
   is the pool recorded as owned. *)
OwnPool ==
  /\ phase = "starting" /\ Awaited # {}
  /\ pool[NextPool] = "open" /\ NextPool \in config.urls
  /\ clients' = clients \cup {NextPool}
  /\ owned' = owned \o <<NextPool>>
  /\ UNCHANGED <<config, phase, pool, draining, authority, changes, request>>

StartFails == pool[NextPool] = "none" \/ NextPool \notin config.urls

(* Mutant: a failed start leaves the lifespan at once. *)
FailStartUnclosed ==
  /\ phase = "starting" /\ Awaited # {} /\ StartFails
  /\ phase' = "stopped"
  /\ UNCHANGED <<config, clients, pool, owned, draining, authority, changes, request>>

(* The pool cannot be opened, or the client refuses its base URL: what is
   owned will be closed, a pool just opened is left as it is. *)
FailStart ==
  /\ phase = "starting" /\ Awaited # {} /\ StartFails
  /\ phase' = "closing"
  /\ draining' = TRUE
  /\ UNCHANGED <<config, clients, pool, owned, authority, changes, request>>

Serve ==
  /\ phase = "starting" /\ Awaited = {}
  /\ phase' = "serving"
  /\ UNCHANGED <<config, clients, pool, owned, draining, authority, changes, request>>

(* The server takes no more requests and lets the running ones finish; only
   then does it resume the lifespan. *)
StopServing ==
  /\ phase = "serving"
  /\ phase' = "finishing"
  /\ UNCHANGED <<config, clients, pool, owned, draining, authority, changes, request>>

Drain ==
  /\ phase = "finishing"
  /\ \A r \in Requests : request[r].stage \notin InFlight
  /\ phase' = "closing"
  /\ draining' = TRUE
  /\ UNCHANGED <<config, clients, pool, owned, authority, changes, request>>

(* Closing may fail: that is logged, and the attribute goes all the same. *)
ClosePool ==
  LET p == owned[Len(owned)] IN
  /\ phase = "closing" /\ owned # <<>>
  /\ \E outcome \in {"closed", "unclosed"} : pool' = [pool EXCEPT ![p] = outcome]
  /\ clients' = clients \ {p}
  /\ owned' = SubSeq(owned, 1, Len(owned) - 1)
  /\ UNCHANGED <<config, phase, draining, authority, changes, request>>

Stop ==
  /\ phase = "closing" /\ owned = <<>>
  /\ phase' = "stopped"
  /\ UNCHANGED <<config, clients, pool, owned, draining, authority, changes, request>>

-----------------------------------------------------------------------------
(* The authorities, which other systems change at any time; a credential only
   expires. *)

Observed(r, facts) ==
  [request[r] EXCEPT !.held = @ \cup facts, !.lacked = @ \cup (Facts \ facts)]

ChangeAuthority ==
  /\ changes < MaxChanges
  /\ \E f \in Facts :
       /\ f = "unexpired" => f \in authority
       /\ authority' = IF f \in authority THEN authority \ {f} ELSE authority \cup {f}
  /\ changes' = changes + 1
  /\ request' = [r \in Requests |->
       IF request[r].stage \in InFlight THEN Observed(r, authority') ELSE request[r]]
  /\ UNCHANGED <<config, phase, clients, pool, owned, draining>>

-----------------------------------------------------------------------------
(* A request.  Only one runs on the event loop, so no other moves while one
   is being resolved. *)

Turn(r) == \A s \in Requests \ {r} : request[s].stage \notin Resolving

Others == UNCHANGED <<config, phase, clients, pool, owned, draining, authority, changes>>

Arrive(r) ==
  /\ phase = "serving" /\ request[r].stage = "idle" /\ Turn(r)
  /\ \E s \in Shapes :
       request' = [request EXCEPT ![r] =
         [Observed(r, authority) EXCEPT !.stage = "arrived", !.shape = s]]
  /\ Others

MoveTo(r, stage) == request' = [request EXCEPT ![r].stage = stage]

Answer(r, status, audit) ==
  request' = [request EXCEPT ![r].stage = "answered", ![r].answer = status,
                             ![r].audit = audit, ![r].secured = status # "crashed"]

Event(name, identity) == [event |-> name, identity |-> identity]

IngressRequired(s) == s.route \in Writes \cup {"ops"}
Protected(s)  == IngressRequired(s) \/ s.route \in Jobs
IngressFails(s) == IngressRequired(s) /\ config.secret /\ ~s.marker
PayloadFails(s) == s.route \in Writes /\ s.oversized

(* authorize_write_request: the required headers, a service identity, a rule
   for the route and its capability among those the header claims. *)
HasCapability(s) == s.route \in config.rules /\ s.capability

HeadersFail(s) ==
  s.route \in Writes /\ config.authz /\ ~(s.headers /\ s.service /\ HasCapability(s))

(* Mutant: headers are audited before the ingress that vouches for them. *)
AdmitByHeadersAuditing(r) ==
  /\ request[r].stage = "arrived" /\ ~Verified /\ Turn(r)
  /\ IF IngressFails(Shape(r)) THEN Answer(r, "forbidden", Event("deny", "headers"))
                              ELSE MoveTo(r, "handler")
  /\ Others

AdmitByHeaders(r) ==
  LET s == Shape(r) IN
  /\ request[r].stage = "arrived" /\ ~Verified /\ Turn(r)
  /\ \/ IngressFails(s) /\ Answer(r, "forbidden", Event("deny", "unverified"))
     \/ ~IngressFails(s) /\ PayloadFails(s) /\ Answer(r, "too large", NoAudit)
     \/ /\ ~IngressFails(s) /\ ~PayloadFails(s) /\ HeadersFail(s)
        /\ Answer(r, "forbidden", Event("deny", "headers"))
     \/ /\ ~IngressFails(s) /\ ~PayloadFails(s) /\ ~HeadersFail(s)
        /\ MoveTo(r, "handler")
  /\ Others

(* Mutant: the jobs join the pilot routes; their tenant is still a header. *)
PilotsWithJobs == {"concentration", "evaluate", "cohort", "submitJob"}

Pilots == {"concentration", "evaluate", "cohort"}

Deny(r, status) == Answer(r, status, Event("deny", "unverified"))

AdmitVerified(r) ==
  LET s == Shape(r) IN
  /\ request[r].stage = "arrived" /\ Verified /\ Turn(r)
  /\ \/ ~Protected(s) /\ MoveTo(r, "handler")
     \/ Protected(s) /\ PayloadFails(s) /\ Answer(r, "too large", NoAudit)
     \/ Protected(s) /\ ~PayloadFails(s) /\ s.route \notin Pilots /\ Deny(r, "forbidden")
     \/ /\ s.route \in Pilots /\ ~PayloadFails(s)
        /\ IF s.bearer \in {"missing", "malformed"} THEN Deny(r, "unauthenticated")
                                                    ELSE MoveTo(r, "key")
  /\ Others

(* Mutant: an authority that fails is taken for a refusal. *)
UnavailableRefuses(r) == Deny(r, "forbidden")

Unavailable(r) == Deny(r, "unavailable")

(* One question to an authority: it fails, says no, or says yes. *)
Ask(r, fact, refusal, next) ==
  \/ Unavailable(r)
  \/ fact \notin authority /\ Deny(r, refusal)
  \/ /\ fact \in authority
     /\ request' = [request EXCEPT ![r].stage = next, ![r].read = @ \cup {fact}]

(* The key of the credential, its signature and its claims; the keys are asked
   for before the signature can fail. *)
Decodable(s) == s.bearer # "undecodable"
Genuine(s)   == s.bearer = "genuine" /\ s.fits

FindKey(r) ==
  LET s == Shape(r) IN
  /\ request[r].stage = "key"
  /\ \/ ~config.verifier /\ Unavailable(r)
     \/ config.verifier /\ ~Decodable(s) /\ Deny(r, "unauthenticated")
     \/ config.verifier /\ Decodable(s) /\ ~Genuine(s) /\ (Unavailable(r) \/ Deny(r, "unauthenticated"))
     \/ config.verifier /\ Genuine(s) /\ Ask(r, "keyKnown", "unauthenticated", "clock")
  /\ Others

ReadClock(r) ==
  request[r].stage = "clock" /\ Ask(r, "unexpired", "unauthenticated", "revocation") /\ Others

CheckRevocation(r) ==
  /\ request[r].stage = "revocation"
  /\ Ask(r, "unrevoked", "unauthenticated", "membership")
  /\ Others

CheckMembership(r) ==
  /\ request[r].stage = "membership"
  /\ \/ ~config.store /\ Unavailable(r)
     \/ config.store /\ Ask(r, "member", "forbidden", "grants")
  /\ Others

(* The last step of resolve_principal, with the grants it has read. *)
Decide(r, read) ==
  IF /\ Shape(r).route \in config.rules
     /\ "granted" \in read
     /\ Shape(r).delegated => "actorGranted" \in read
  THEN request' = [request EXCEPT ![r].stage = "handler", ![r].read = read]
  ELSE Deny(r, "forbidden")

(* Capabilities and portfolios come in one answer. *)
ReadGrants(r) ==
  LET read == request[r].read \cup (authority \cap {"granted", "portfolio"}) IN
  /\ request[r].stage = "grants"
  /\ \/ Unavailable(r)
     \/ ~Shape(r).delegated /\ Decide(r, read)
     \/ Shape(r).delegated /\ request' = [request EXCEPT ![r].stage = "actor", ![r].read = read]
  /\ Others

CheckActor(r) ==
  request[r].stage = "actor" /\ Ask(r, "actorMember", "forbidden", "application") /\ Others

ReadApplication(r) ==
  /\ request[r].stage = "application"
  /\ \/ Unavailable(r)
     \/ Decide(r, request[r].read \cup (authority \cap {"actorGranted", "actorPortfolio"}))
  /\ Others

Resolve(r) == \/ FindKey(r) \/ ReadClock(r) \/ CheckRevocation(r) \/ CheckMembership(r)
              \/ ReadGrants(r) \/ CheckActor(r) \/ ReadApplication(r)

-----------------------------------------------------------------------------
(* The route's own checks and its work. *)

(* The audit event of a write is emitted once its handler has answered. *)
WriteEvent(r) ==
  IF Shape(r).route \in Writes
  THEN Event("write", IF Verified THEN "principal" ELSE "headers")
  ELSE NoAudit

(* require_portfolio_scope: every portfolio named is in the granted set, of
   the user and of the application that acts for it. *)
OutOfScope(r) ==
  LET s == Shape(r) IN
  /\ Verified /\ HandlerOf(s.route).scope /\ s.scoped
  /\ ~({"portfolio"} \cup (IF s.delegated THEN {"actorPortfolio"} ELSE {}) \subseteq request[r].read)

NeedsTenant(s) ==
  \/ HandlerOf(s.route).tenancy = "header"
  \/ HandlerOf(s.route).tenancy = "stateful" /\ s.stateful

(* A job route reads the header itself and wants it once; the others take
   the first one, or the tenant of the principal, whose length is bounded. *)
HeaderTenant(s) == s.tenant

TenantFails(s) ==
  \/ HandlerOf(s.route).tenancy = "header" /\ HeaderTenant(s) \in {"none", "two", "long"}
  \/ /\ HandlerOf(s.route).tenancy = "stateful" /\ s.stateful
     /\ ~Verified /\ s.tenant \in {"none", "long"}

ClientMissing(s) == s.stateful /\ ~(HandlerOf(s.route).clients \subseteq clients)

(* In whose name the work is done; of a probe, what it shows. *)
Readiness == IF draining THEN "draining" ELSE "ready"

Authority(s) ==
  CASE s.route = "probe" -> Readiness
    [] s.route # "probe" /\ ~NeedsTenant(s) -> "own"
    [] NeedsTenant(s) -> IF Verified /\ s.route \notin Jobs THEN "principal" ELSE "header"

(* The document may also be refused by its contract before all else. *)
Handle(r) ==
  LET s == Shape(r) IN
  /\ request[r].stage = "handler" /\ Turn(r)
  /\ \/ s.route \in Writes /\ Answer(r, "rejected", WriteEvent(r))
     \/ OutOfScope(r) /\ Answer(r, "forbidden", Event("deny", "principal"))
     \/ ~OutOfScope(r) /\ TenantFails(s) /\ Answer(r, "no tenant", WriteEvent(r))
     \/ /\ ~OutOfScope(r) /\ ~TenantFails(s) /\ ClientMissing(s)
        /\ Answer(r, "uncomposed", WriteEvent(r))
     \/ /\ ~OutOfScope(r) /\ ~TenantFails(s) /\ ~ClientMissing(s)
        /\ request' = [request EXCEPT ![r].stage = "working", ![r].effect = Authority(s)]
  /\ Others

(* A failure the application has a handler for is an answer; any other one
   passes all its middleware. *)
Finish(r) ==
  /\ request[r].stage = "working" /\ Turn(r)
  /\ \/ \E a \in {"done", "failed"} : Answer(r, a, WriteEvent(r))
     \/ Answer(r, "crashed", NoAudit)
  /\ Others

Init ==
  /\ config \in Configurations
  /\ phase = "composing"
  /\ clients = config.injected /\ owned = <<>> /\ draining = FALSE
  /\ pool = [p \in Pools |-> "none"]
  /\ authority = Facts /\ changes = 0
  /\ request = [r \in Requests |-> Fresh]

Lifespan == \/ Compose \/ OpenPool \/ OwnPool \/ FailStart \/ Serve \/ StopServing
            \/ Drain \/ ClosePool \/ Stop

Step(r) == \/ Arrive(r) \/ AdmitByHeaders(r) \/ AdmitVerified(r) \/ Resolve(r)
           \/ Handle(r) \/ Finish(r)

Next == Lifespan \/ ChangeAuthority \/ \E r \in Requests : Step(r)

Spec == Init /\ [][Next]_vars

-----------------------------------------------------------------------------
(* Properties. *)

(* The facts a request to a pilot route rests on. *)
Identity == {"keyKnown", "unexpired", "unrevoked", "member"}
Needed(s) ==
  Identity \cup {"granted"}
  \cup (IF s.delegated THEN {"actorMember", "actorGranted"} ELSE {})
  \cup (IF s.scoped THEN {"portfolio"} ELSE {})
  \cup (IF s.scoped /\ s.delegated THEN {"actorPortfolio"} ELSE {})

(* No protected work is done, in either posture and however the authorities
   change while a request is resolved, unless each fact it needs has held
   since it arrived: the principal's in the verified posture, whose tenant is
   the one it is done for, and the ingress marker with a claimed capability
   in a deployment whose configuration is enforced. *)
EffectsAreAuthorised ==
  \A r \in Requests :
    LET s == Shape(r) IN
    request[r].effect # "none" /\ Protected(s) =>
      /\ Verified => /\ Genuine(s) /\ Needed(s) \subseteq request[r].held
                     /\ request[r].effect # "header"
      /\ ~Verified /\ config.enforced /\ s.route \in Writes =>
           s.marker /\ s.capability /\ s.route \in config.rules

(* A caller with a genuine credential is refused for its entitlements only if
   one of those its request needs was lacking at some instant since it
   arrived: neither an authority that fails nor one it does not need refuses it. *)
RefusalsAreTimely ==
  \A r \in Requests :
    LET s == Shape(r) IN
    /\ request[r].answer \in {"unauthenticated", "forbidden"}
    /\ Verified /\ s.route \in Pilots \cap config.rules /\ Genuine(s)
    => Needed(s) \cap request[r].lacked # {}

(* The audit trail says of an answered write whether its work was admitted,
   and names nobody who was not established: a principal only once it is
   verified, the headers' actor only behind the trusted ingress. *)
AuditTellsTheDecision ==
  \A r \in Requests :
    LET s == Shape(r)
        a == request[r] IN
    /\ a.audit.event = "deny" <=>
         \/ a.answer \in {"unauthenticated", "forbidden"}
         \/ a.answer = "unavailable"
    /\ a.audit.event = "deny" => a.effect = "none"
    /\ a.effect # "none" /\ s.route \in Writes /\ a.answer \in {"done", "failed"} =>
         a.audit.event = "write"
    /\ a.audit.identity = "principal" => Genuine(s) /\ Identity \subseteq a.held
    /\ a.audit.identity = "headers" => ~Verified /\ (config.secret => s.marker)

Usable(p) == p \in clients /\ (p \in config.injected \/ pool[p] = "open")

(* A request that is served finds the clients it needs, on open pools, until it
   has ended, through every order of start and stop.  A process that has
   stopped owns no pool and has its injected clients only; it has closed each
   pool that a client was given, or tried to, whatever became of the other.
   What is left open is one pool at most, whose client refused its base URL. *)
PoolsServeRequests ==
  /\ \A r \in Requests :
       /\ request[r].answer # "uncomposed"
       /\ request[r].stage = "working" /\ Shape(r).stateful =>
            \A p \in HandlerOf(Shape(r).route).clients : Usable(p)
  /\ phase = "stopped" =>
       /\ owned = <<>> /\ clients = config.injected
       /\ \A p \in Pools : pool[p] = "open" => p \notin config.urls
       /\ \A p, q \in Pools : pool[p] = "open" /\ pool[q] = "open" => p = q
================================================================================
