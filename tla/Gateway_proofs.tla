----------------------------- MODULE Gateway_proofs -----------------------------
(***************************************************************************)
(* Theorems about Gateway for any deployments, any requests and any number *)
(* of changes of the authorities.                                          *)
(*                                                                         *)
(* One invariant is of the process and its pools, the other of a single    *)
(* request: what its stage implies about the questions that were answered  *)
(* for it and about the facts that held meanwhile.                         *)
(***************************************************************************)
EXTENDS Gateway, TLAPS

(* Of the process: what it owns is what it recorded, in order and once, and is
   open; it serves with both pools, and whatever is in flight is served. *)
Recorded == {owned[i] : i \in DOMAIN owned}

Unrecorded(p) == pool[p] = "open" /\ p \notin Recorded

(* A pool is opened only if its client was not injected, and recorded only
   with a base URL that its client accepts; at most one is open and not
   recorded: the next one during a start, later the one that made it fail. *)
PoolsInv ==
  /\ \A p \in Recorded : pool[p] = "open" /\ p \in config.urls
  /\ \A p \in config.injected : pool[p] = "none"
  /\ phase \in {"composing", "starting"} => \A p \in Pools : pool[p] \in {"none", "open"}
  /\ \A p, q \in Pools : Unrecorded(p) /\ Unrecorded(q) => p = q
  /\ phase = "composing" => \A p \in Pools : pool[p] = "none"
  /\ phase = "starting" => \A p \in Pools : Unrecorded(p) => p = NextPool
  /\ phase \in {"closing", "stopped"} => \A p \in Pools : Unrecorded(p) => p \notin config.urls

ProcessInv ==
  /\ \A i, j \in DOMAIN owned : owned[i] = owned[j] => i = j
  /\ clients = config.injected \cup Recorded
  /\ config.injected \cap Recorded = {}
  /\ phase \in {"composing", "stopped"} => owned = <<>>
  /\ phase \in {"serving", "finishing"} => clients = Pools
  /\ phase \in {"starting", "serving", "finishing"} => Boots(config)
  /\ \A r \in Requests : request[r].stage \in InFlight => phase \in {"serving", "finishing"}
  /\ \A r \in Requests : request[r].stage # "idle" => Boots(config)

(* Of a request q: what was read was true, and the present is remembered. *)
Remembers(q) ==
  /\ q.read \subseteq q.held
  /\ q.stage \in InFlight => authority \subseteq q.held /\ Facts \ authority \subseteq q.lacked

Unanswered(q) ==
  /\ q.stage = "idle" => q = Fresh
  /\ q.stage # "idle" => q.shape \in Shapes
  /\ q.stage # "answered" => q.answer = "none" /\ q.audit = NoAudit
  /\ q.effect # "none" => q.stage \in {"working", "answered"}

(* What resolve_principal has established at each of its steps. *)
Questioned(q) ==
  /\ q.stage \in Resolving => Verified /\ q.shape.route \in Pilots
  /\ q.stage \in Resolving \ {"key"} => Genuine(q.shape) /\ "keyKnown" \in q.read
  /\ q.stage \in Resolving \ {"key", "clock"} => "unexpired" \in q.read
  /\ q.stage \in Resolving \ {"key", "clock", "revocation"} => "unrevoked" \in q.read
  /\ q.stage \in {"grants", "actor", "application"} => "member" \in q.read
  /\ q.stage \in {"actor", "application"} =>
       q.shape.delegated /\ {"granted", "portfolio"} \subseteq q.read \cup q.lacked
  /\ q.stage = "application" => "actorMember" \in q.read

(* A principal, once resolve_principal has returned it. *)
Principal(q) ==
  /\ Genuine(q.shape) /\ q.shape.route \in Pilots \cap config.rules
  /\ Identity \cup {"granted"} \subseteq q.read
  /\ q.shape.delegated => {"actorMember", "actorGranted"} \subseteq q.read

(* What the middleware has established when the route's own code begins. *)
PastMiddleware(q) ==
  /\ Verified /\ Protected(q.shape) =>
       Principal(q) /\ Needed(q.shape) \subseteq q.read \cup q.lacked
  /\ ~Verified => ~IngressFails(q.shape) /\ ~HeadersFail(q.shape)

Authorised(q) ==
  /\ q.stage \in {"handler", "working"} \/ q.effect # "none" => PastMiddleware(q)
  /\ Verified /\ Protected(q.shape) /\ (q.stage = "working" \/ q.effect # "none") =>
       Needed(q.shape) \subseteq q.read /\ q.effect # "header"

(* The two promises about answers, of one request and of the answer and the
   audit event that it gets. *)
TimelyAnswer(q, status) ==
  /\ status \in {"unauthenticated", "forbidden"}
  /\ Verified /\ q.shape.route \in Pilots \cap config.rules /\ Genuine(q.shape)
  => Needed(q.shape) \cap q.lacked # {}

AuditedAnswer(q, status, audit) ==
  /\ audit.event = "deny" <=> status \in {"unauthenticated", "forbidden", "unavailable"}
  /\ audit.event = "deny" => q.effect = "none"
  /\ q.effect # "none" /\ q.shape.route \in Writes /\ status \in {"done", "failed"} =>
       audit.event = "write"
  /\ audit.identity = "principal" => Genuine(q.shape) /\ Identity \subseteq q.held
  /\ audit.identity = "headers" => ~Verified /\ (config.secret => q.shape.marker)

Timely(q)  == TimelyAnswer(q, q.answer)
Audited(q) == AuditedAnswer(q, q.answer, q.audit)

RequestInv(q) ==
  /\ Remembers(q) /\ Unanswered(q) /\ Questioned(q) /\ Authorised(q)
  /\ Timely(q) /\ Audited(q)

Composed(q) == q.answer # "uncomposed"

IInv ==
  /\ TypeOK
  /\ ProcessInv /\ PoolsInv
  /\ \A r \in Requests : RequestInv(request[r]) /\ Composed(request[r])

-----------------------------------------------------------------------------
(* Facts about the routes and the questions. *)

(* The routes with a scope are the pilots, and each asks for pools there are. *)
LEMMA RouteFacts ==
  ASSUME NEW route \in Routes
  PROVE  /\ HandlerOf(route).clients \subseteq Pools
         /\ HandlerOf(route).scope => route \in Pilots
         /\ route \in Pilots => HandlerOf(route).scope /\ route \in Writes /\ route \notin Jobs \ Writes
  BY DEF HandlerOf, Routes, SupportedWrites, Jobs, Pools, Pilots, Writes, Handler,
      CalculateRoute, DrawdownRoute, RollingRoute, AttributionRoute, ConcentrationRoute,
      EvaluateRoute, CohortRoute, MandateRoute, SubmitRoute, StatusRoute, PageRoute,
      OpsRoute, ProbeRoute

(* A pilot is protected. *)
LEMMA PilotsAreProtected ==
  ASSUME NEW s, s.route \in Pilots
  PROVE  Protected(s) /\ s.route \in Writes /\ s.route \notin Jobs /\ s.route # "probe"
  BY DEF Protected, IngressRequired, Pilots, Writes, SupportedWrites, Jobs

(* A shape has a route; no shape is the one of a request that has not come. *)
LEMMA ShapeFacts ==
  ASSUME NEW s \in Shapes
  PROVE  s.route \in Routes
  BY GatewayAssumption

(* The invariant of a request speaks of the configuration, the authorities and
   the request. *)
LEMMA SameRules ==
  ASSUME NEW r \in Requests, UNCHANGED <<config, authority>>,
         RequestInv(request'[r])
  PROVE  RequestInv(request[r])'
  BY DEF RequestInv, Remembers, Unanswered, Questioned, Authorised, Timely, TimelyAnswer,
     Audited, AuditedAnswer, PastMiddleware, Principal, Verified, HeadersFail,
     HasCapability, IngressFails

-----------------------------------------------------------------------------
(* What the primitives of a step do to its request. *)

(* What no step of a request after its arrival changes of it. *)
SameRequest(p, q) == p.shape = q.shape /\ p.held = q.held /\ p.lacked = q.lacked

(* An answer changes stage, answer, audit event and headers. *)
LEMMA AnswerEffect ==
  ASSUME TypeOK, NEW r \in Requests, NEW status, NEW audit, Answer(r, status, audit)
  PROVE  /\ request'[r].stage = "answered"
         /\ request'[r].answer = status /\ request'[r].audit = audit
         /\ request'[r].read = request[r].read /\ request'[r].effect = request[r].effect
         /\ SameRequest(request'[r], request[r])
         /\ \A t \in Requests \ {r} : request'[t] = request[t]
<1>1. /\ request'[r] = [request[r] EXCEPT !.stage = "answered", !.answer = status,
                            !.audit = audit, !.secured = status # "crashed"]
      /\ \A t \in Requests \ {r} : request'[t] = request[t]
  BY DEF Answer, TypeOK
<1>2. request[r] \in Progress
  BY DEF TypeOK
<1> QED
  BY <1>1, <1>2 DEF Progress, SameRequest

(* Moving on changes the stage. *)
LEMMA MoveEffect ==
  ASSUME TypeOK, NEW r \in Requests, NEW stage, MoveTo(r, stage)
  PROVE  /\ request'[r].stage = stage
         /\ request'[r].answer = request[r].answer /\ request'[r].audit = request[r].audit
         /\ request'[r].read = request[r].read /\ request'[r].effect = request[r].effect
         /\ SameRequest(request'[r], request[r])
         /\ \A t \in Requests \ {r} : request'[t] = request[t]
  BY DEF MoveTo, TypeOK, Progress, SameRequest

(* An answer keeps the invariant of its request if it is timely and audited. *)
LEMMA AnswerKeeps ==
  ASSUME TypeOK, NEW r \in Requests, NEW status, NEW audit, Answer(r, status, audit),
         UNCHANGED <<config, authority>>,
         RequestInv(request[r]), request[r].stage \in InFlight,
         TimelyAnswer(request[r], status), AuditedAnswer(request[r], status, audit)
  PROVE  RequestInv(request[r])'
<1> DEFINE q == request[r]
           p == request'[r]
<1>1. /\ p.stage = "answered" /\ p.answer = status /\ p.audit = audit
      /\ p.read = q.read /\ p.effect = q.effect
      /\ p.shape = q.shape /\ p.held = q.held /\ p.lacked = q.lacked
  BY AnswerEffect DEF SameRequest
<1> HIDE DEF p
<1>2. "answered" \notin InFlight /\ "answered" \notin Resolving /\ q.stage # "idle"
  BY DEF InFlight, Resolving
<1>3. Remembers(p) /\ Unanswered(p) /\ Questioned(p)
  BY <1>1, <1>2 DEF RequestInv, Remembers, Unanswered, Questioned
<1>4. Authorised(p)
  BY <1>1 DEF RequestInv, Authorised, PastMiddleware, Principal
<1>5. Timely(p) /\ Audited(p)
  BY <1>1 DEF Timely, Audited, TimelyAnswer, AuditedAnswer
<1>6. RequestInv(p)
  BY <1>3, <1>4, <1>5 DEF RequestInv
<1> QED
  BY <1>6, SameRules DEF p

(* So does moving on, where the next stage is justified. *)
LEMMA MovedKeeps ==
  ASSUME NEW r \in Requests, UNCHANGED <<config, authority>>,
         RequestInv(request[r]), request[r].stage \in InFlight,
         request'[r].stage \in InFlight,
         request'[r].answer = request[r].answer, request'[r].audit = request[r].audit,
         SameRequest(request'[r], request[r]),
         request'[r].read \subseteq request[r].held,
         request'[r].effect # "none" => request'[r].stage = "working",
         Questioned(request'[r]), Authorised(request'[r])
  PROVE  RequestInv(request[r])'
<1> DEFINE q == request[r]
           p == request'[r]
<1>1. /\ p.stage \in InFlight /\ p.answer = q.answer /\ p.audit = q.audit
      /\ p.shape = q.shape /\ p.held = q.held /\ p.lacked = q.lacked
      /\ p.read \subseteq q.held
      /\ p.effect # "none" => p.stage = "working"
      /\ Questioned(p) /\ Authorised(p)
  BY DEF SameRequest
<1> HIDE DEF p
<1>2. /\ q.stage # "idle" /\ q.stage # "answered" /\ p.stage # "idle" /\ p.stage # "answered"
  BY <1>1 DEF InFlight, Resolving
<1>3. p.answer = "none" /\ p.audit = NoAudit /\ q.shape \in Shapes
  BY <1>1, <1>2 DEF RequestInv, Unanswered
<1>4. Remembers(p) /\ Unanswered(p)
  BY <1>1, <1>2, <1>3 DEF RequestInv, Remembers, Unanswered
<1>5. Timely(p) /\ Audited(p)
  BY <1>3 DEF Timely, Audited, TimelyAnswer, AuditedAnswer, NoAudit
<1>6. RequestInv(p)
  BY <1>1, <1>4, <1>5 DEF RequestInv
<1> QED
  BY <1>6, SameRules DEF p

(* A denial before the work is audited as one. *)
LEMMA DenyKeeps ==
  ASSUME TypeOK, NEW r \in Requests,
         NEW status \in {"unauthenticated", "forbidden", "unavailable"}, Deny(r, status),
         UNCHANGED <<config, authority>>,
         RequestInv(request[r]), request[r].stage \in Resolving \cup {"arrived"},
         TimelyAnswer(request[r], status)
  PROVE  RequestInv(request[r])'
<1>1. request[r].stage \in InFlight /\ request[r].effect = "none"
  BY DEF InFlight, Resolving, RequestInv, Unanswered
<1>2. AuditedAnswer(request[r], status, Event("deny", "unverified"))
  BY <1>1 DEF AuditedAnswer, Event
<1> QED
  BY <1>1, <1>2, AnswerKeeps DEF Deny

(* So is the failure of an authority, whatever it was asked. *)
LEMMA UnavailableKeeps ==
  ASSUME TypeOK, NEW r \in Requests, Unavailable(r), UNCHANGED <<config, authority>>,
         RequestInv(request[r]), request[r].stage \in Resolving
  PROVE  RequestInv(request[r])'
  BY DenyKeeps DEF Unavailable, TimelyAnswer

(* What a request lacks now it has lacked since it arrived. *)
LEMMA LackIsRemembered ==
  ASSUME NEW q, Remembers(q), q.stage \in InFlight, NEW fact \in Facts \ authority
  PROVE  fact \in q.lacked
  BY DEF Remembers

(* A question ends in an answer that keeps the invariant, or adds its fact to
   what was read. *)
LEMMA AskKeeps ==
  ASSUME TypeOK, NEW r \in Requests, NEW fact \in Facts,
         NEW refusal \in {"unauthenticated", "forbidden"}, NEW next,
         Ask(r, fact, refusal, next), UNCHANGED <<config, authority>>,
         RequestInv(request[r]), request[r].stage \in Resolving,
         fact \in Needed(request[r].shape)
  PROVE  \/ RequestInv(request[r])'
         \/ /\ request'[r].stage = next
            /\ request'[r].read = request[r].read \cup {fact}
            /\ request'[r].read \subseteq request[r].held
            /\ request'[r].answer = request[r].answer
            /\ request'[r].audit = request[r].audit
            /\ request'[r].effect = request[r].effect
            /\ SameRequest(request'[r], request[r])
<1>0. request[r].stage \in InFlight /\ Remembers(request[r])
  BY DEF InFlight, RequestInv
<1>1. CASE Unavailable(r)
  BY <1>1, UnavailableKeeps
<1>2. CASE fact \notin authority /\ Deny(r, refusal)
  <2>1. TimelyAnswer(request[r], refusal)
    BY <1>0, <1>2, LackIsRemembered DEF TimelyAnswer
  <2> QED
    BY <1>2, <2>1, DenyKeeps
<1>3. CASE /\ fact \in authority
           /\ request' = [request EXCEPT ![r].stage = next, ![r].read = @ \cup {fact}]
  <2>1. request[r] \in Progress
    BY DEF TypeOK
  <2>2. request'[r] = [request[r] EXCEPT !.stage = next, !.read = @ \cup {fact}]
    BY <1>3 DEF TypeOK
  <2>3. /\ request'[r].stage = next
        /\ request'[r].read = request[r].read \cup {fact}
        /\ request'[r].answer = request[r].answer
        /\ request'[r].audit = request[r].audit
        /\ request'[r].effect = request[r].effect
        /\ SameRequest(request'[r], request[r])
    BY <2>1, <2>2 DEF Progress, SameRequest
  <2>4. request'[r].read \subseteq request[r].held
    BY <1>0, <1>3, <2>3 DEF Remembers
  <2> QED
    BY <2>3, <2>4
<1> QED
  BY <1>1, <1>2, <1>3 DEF Ask

-----------------------------------------------------------------------------
(* The steps of resolve_principal. *)

LEMMA FindKeyKeeps ==
  ASSUME TypeOK, NEW r \in Requests, FindKey(r), RequestInv(request[r])
  PROVE  RequestInv(request[r])'
<1> DEFINE q == request[r]
           s == q.shape
<1>0. /\ q.stage = "key" /\ q.stage \in Resolving /\ q.stage \in InFlight
      /\ UNCHANGED <<config, authority>>
  BY DEF FindKey, Resolving, InFlight, Others
<1>1. CASE Unavailable(r)
  BY <1>0, <1>1, UnavailableKeeps
<1>2. CASE ~Genuine(s) /\ Deny(r, "unauthenticated")
  BY <1>0, <1>2, DenyKeeps DEF TimelyAnswer
<1>3. CASE Genuine(s) /\ Ask(r, "keyKnown", "unauthenticated", "clock")
  <2>1. "keyKnown" \in Facts /\ "keyKnown" \in Needed(s)
    BY DEF Facts, Needed, Identity
  <2>2. SUFFICES ASSUME /\ request'[r].stage = "clock"
                        /\ request'[r].read = q.read \cup {"keyKnown"}
                        /\ request'[r].read \subseteq q.held
                        /\ request'[r].answer = q.answer /\ request'[r].audit = q.audit
                        /\ request'[r].effect = q.effect
                        /\ SameRequest(request'[r], q)
                 PROVE  RequestInv(request[r])'
    BY <1>0, <1>3, <2>1, AskKeeps
  <2>3. "clock" \in InFlight /\ "clock" \in Resolving /\ q.effect = "none"
    BY <1>0 DEF InFlight, Resolving, RequestInv, Unanswered
  <2>4. Questioned(request'[r])
    BY <1>0, <1>3, <2>2, <2>3 DEF RequestInv, Questioned, SameRequest
  <2>5. Authorised(request'[r])
    BY <2>2, <2>3 DEF Authorised
  <2> QED
    BY <1>0, <2>2, <2>3, <2>4, <2>5, MovedKeeps
<1> QED
  BY <1>1, <1>2, <1>3 DEF FindKey, Decodable, Genuine, Shape

LEMMA ReadClockKeeps ==
  ASSUME TypeOK, NEW r \in Requests, ReadClock(r), RequestInv(request[r])
  PROVE  RequestInv(request[r])'
<1> DEFINE q == request[r]
<1>0. /\ q.stage = "clock" /\ q.stage \in Resolving /\ q.stage \in InFlight
      /\ UNCHANGED <<config, authority>>
  BY DEF ReadClock, Resolving, InFlight, Others
<1>1. "unexpired" \in Facts /\ "unexpired" \in Needed(q.shape)
  BY DEF Facts, Needed, Identity
<1>2. SUFFICES ASSUME /\ request'[r].stage = "revocation"
                      /\ request'[r].read = q.read \cup {"unexpired"}
                      /\ request'[r].read \subseteq q.held
                      /\ request'[r].answer = q.answer /\ request'[r].audit = q.audit
                      /\ request'[r].effect = q.effect
                      /\ SameRequest(request'[r], q)
               PROVE  RequestInv(request[r])'
  BY <1>0, <1>1, AskKeeps DEF ReadClock
<1>3. "revocation" \in InFlight /\ "revocation" \in Resolving /\ q.effect = "none"
  BY <1>0 DEF InFlight, Resolving, RequestInv, Unanswered
<1>4. Questioned(request'[r])
  BY <1>0, <1>2, <1>3 DEF RequestInv, Questioned, SameRequest
<1>5. Authorised(request'[r])
  BY <1>2, <1>3 DEF Authorised
<1> QED
  BY <1>0, <1>2, <1>3, <1>4, <1>5, MovedKeeps

LEMMA CheckRevocationKeeps ==
  ASSUME TypeOK, NEW r \in Requests, CheckRevocation(r), RequestInv(request[r])
  PROVE  RequestInv(request[r])'
<1> DEFINE q == request[r]
<1>0. /\ q.stage = "revocation" /\ q.stage \in Resolving /\ q.stage \in InFlight
      /\ UNCHANGED <<config, authority>>
  BY DEF CheckRevocation, Resolving, InFlight, Others
<1>1. "unrevoked" \in Facts /\ "unrevoked" \in Needed(q.shape)
  BY DEF Facts, Needed, Identity
<1>2. SUFFICES ASSUME /\ request'[r].stage = "membership"
                      /\ request'[r].read = q.read \cup {"unrevoked"}
                      /\ request'[r].read \subseteq q.held
                      /\ request'[r].answer = q.answer /\ request'[r].audit = q.audit
                      /\ request'[r].effect = q.effect
                      /\ SameRequest(request'[r], q)
               PROVE  RequestInv(request[r])'
  BY <1>0, <1>1, AskKeeps DEF CheckRevocation
<1>3. "membership" \in InFlight /\ "membership" \in Resolving /\ q.effect = "none"
  BY <1>0 DEF InFlight, Resolving, RequestInv, Unanswered
<1>4. Questioned(request'[r])
  BY <1>0, <1>2, <1>3 DEF RequestInv, Questioned, SameRequest
<1>5. Authorised(request'[r])
  BY <1>2, <1>3 DEF Authorised
<1> QED
  BY <1>0, <1>2, <1>3, <1>4, <1>5, MovedKeeps

LEMMA CheckMembershipKeeps ==
  ASSUME TypeOK, NEW r \in Requests, CheckMembership(r), RequestInv(request[r])
  PROVE  RequestInv(request[r])'
<1> DEFINE q == request[r]
<1>0. /\ q.stage = "membership" /\ q.stage \in Resolving /\ q.stage \in InFlight
      /\ UNCHANGED <<config, authority>>
  BY DEF CheckMembership, Resolving, InFlight, Others
<1>1. CASE Unavailable(r)
  BY <1>0, <1>1, UnavailableKeeps
<1>2. CASE Ask(r, "member", "forbidden", "grants")
  <2>1. "member" \in Facts /\ "member" \in Needed(q.shape)
    BY DEF Facts, Needed, Identity
  <2>2. SUFFICES ASSUME /\ request'[r].stage = "grants"
                        /\ request'[r].read = q.read \cup {"member"}
                        /\ request'[r].read \subseteq q.held
                        /\ request'[r].answer = q.answer /\ request'[r].audit = q.audit
                        /\ request'[r].effect = q.effect
                        /\ SameRequest(request'[r], q)
                 PROVE  RequestInv(request[r])'
    BY <1>0, <1>2, <2>1, AskKeeps
  <2>3. "grants" \in InFlight /\ "grants" \in Resolving /\ q.effect = "none"
    BY <1>0 DEF InFlight, Resolving, RequestInv, Unanswered
  <2>4. Questioned(request'[r])
    BY <1>0, <2>2, <2>3 DEF RequestInv, Questioned, SameRequest
  <2>5. Authorised(request'[r])
    BY <2>2, <2>3 DEF Authorised
  <2> QED
    BY <1>0, <2>2, <2>3, <2>4, <2>5, MovedKeeps
<1> QED
  BY <1>1, <1>2 DEF CheckMembership

LEMMA CheckActorKeeps ==
  ASSUME TypeOK, NEW r \in Requests, CheckActor(r), RequestInv(request[r])
  PROVE  RequestInv(request[r])'
<1> DEFINE q == request[r]
<1>0. /\ q.stage = "actor" /\ q.stage \in Resolving /\ q.stage \in InFlight
      /\ UNCHANGED <<config, authority>>
  BY DEF CheckActor, Resolving, InFlight, Others
<1>1. "actorMember" \in Facts /\ "actorMember" \in Needed(q.shape)
  BY <1>0 DEF Facts, Needed, Identity, RequestInv, Questioned
<1>2. SUFFICES ASSUME /\ request'[r].stage = "application"
                      /\ request'[r].read = q.read \cup {"actorMember"}
                      /\ request'[r].read \subseteq q.held
                      /\ request'[r].answer = q.answer /\ request'[r].audit = q.audit
                      /\ request'[r].effect = q.effect
                      /\ SameRequest(request'[r], q)
               PROVE  RequestInv(request[r])'
  BY <1>0, <1>1, AskKeeps DEF CheckActor
<1>3. "application" \in InFlight /\ "application" \in Resolving /\ q.effect = "none"
  BY <1>0 DEF InFlight, Resolving, RequestInv, Unanswered
<1>4. Questioned(request'[r])
  BY <1>0, <1>2, <1>3 DEF RequestInv, Questioned, SameRequest
<1>5. Authorised(request'[r])
  BY <1>2, <1>3 DEF Authorised
<1> QED
  BY <1>0, <1>2, <1>3, <1>4, <1>5, MovedKeeps

(* The decision itself, with all the answers it rests on. *)
LEMMA DecideKeeps ==
  ASSUME TypeOK, NEW r \in Requests, NEW read, Decide(r, read),
         UNCHANGED <<config, authority>>,
         RequestInv(request[r]), request[r].stage \in Resolving,
         request[r].shape.route \in Pilots, Genuine(request[r].shape),
         read \subseteq request[r].held,
         Identity \subseteq read,
         request[r].shape.delegated => "actorMember" \in read,
         Needed(request[r].shape) \subseteq read \cup request[r].lacked
  PROVE  RequestInv(request[r])'
<1> DEFINE q == request[r]
           s == q.shape
           p == request'[r]
<1>0. /\ q.stage \in InFlight /\ q.effect = "none" /\ Verified
      /\ "handler" \in InFlight /\ "handler" \notin Resolving
  BY DEF InFlight, Resolving, RequestInv, Unanswered, Questioned
<1>1. CASE /\ s.route \in config.rules
           /\ "granted" \in read
           /\ s.delegated => "actorGranted" \in read
  <2>1. request' = [request EXCEPT ![r].stage = "handler", ![r].read = read]
    BY <1>1 DEF Decide, Shape
  <2>2. /\ p.stage = "handler" /\ p.read = read
        /\ p.answer = q.answer /\ p.audit = q.audit /\ p.effect = q.effect
        /\ SameRequest(p, q)
    BY <2>1 DEF TypeOK, Progress, SameRequest
  <2> HIDE DEF p
  <2>3. Principal(p)
    BY <1>1, <2>2 DEF Principal, SameRequest
  <2>4. PastMiddleware(p)
    BY <1>0, <2>2, <2>3 DEF PastMiddleware, SameRequest
  <2>5. Authorised(p) /\ Questioned(p)
    BY <1>0, <2>2, <2>4 DEF Authorised, Questioned, Resolving
  <2> QED
    BY <1>0, <2>2, <2>5, MovedKeeps DEF p
<1>2. CASE ~(/\ s.route \in config.rules
             /\ "granted" \in read
             /\ s.delegated => "actorGranted" \in read)
  <2>1. Deny(r, "forbidden")
    BY <1>2 DEF Decide, Shape
  <2>2. TimelyAnswer(q, "forbidden")
    <3>1. CASE s.route \notin config.rules
      BY <3>1 DEF TimelyAnswer
    <3>2. CASE "granted" \notin read
      <4>1. "granted" \in Needed(s)
        BY DEF Needed
      <4> QED
        BY <3>2, <4>1 DEF TimelyAnswer
    <3>3. CASE s.delegated /\ "actorGranted" \notin read
      <4>1. "actorGranted" \in Needed(s)
        BY <3>3 DEF Needed
      <4> QED
        BY <3>3, <4>1 DEF TimelyAnswer
    <3> QED
      BY <1>2, <3>1, <3>2, <3>3
  <2> QED
    BY <2>1, <2>2, DenyKeeps
<1> QED
  BY <1>1, <1>2

LEMMA ReadGrantsKeeps ==
  ASSUME TypeOK, NEW r \in Requests, ReadGrants(r), RequestInv(request[r])
  PROVE  RequestInv(request[r])'
<1> DEFINE q == request[r]
           s == q.shape
           p == request'[r]
           read == q.read \cup (authority \cap {"granted", "portfolio"})
<1>0. /\ q.stage = "grants" /\ q.stage \in Resolving /\ q.stage \in InFlight
      /\ UNCHANGED <<config, authority>>
  BY DEF ReadGrants, Resolving, InFlight, Others
<1>1. /\ s.route \in Pilots /\ Genuine(s) /\ Identity \subseteq q.read
      /\ q.effect = "none"
  BY <1>0 DEF RequestInv, Questioned, Unanswered, Resolving, Identity
<1>2. read \subseteq q.held
  BY <1>0 DEF RequestInv, Remembers
<1>3. {"granted", "portfolio"} \subseteq read \cup q.lacked
  BY <1>0 DEF RequestInv, Remembers, Facts
<1>4. CASE Unavailable(r)
  BY <1>0, <1>4, UnavailableKeeps
<1>5. CASE ~s.delegated /\ Decide(r, read)
  <2>1. Needed(s) \subseteq read \cup q.lacked
    BY <1>1, <1>3, <1>5 DEF Needed
  <2> HIDE DEF read
  <2> QED
    BY <1>0, <1>1, <1>2, <1>5, <2>1, DecideKeeps DEF read
<1>6. CASE s.delegated /\ request' = [request EXCEPT ![r].stage = "actor", ![r].read = read]
  <2>1. /\ p.stage = "actor" /\ p.read = read
        /\ p.answer = q.answer /\ p.audit = q.audit /\ p.effect = q.effect
        /\ SameRequest(p, q)
    BY <1>6, ZenonT(60) DEF TypeOK, Progress, SameRequest
  <2> HIDE DEF p
  <2>2. p.stage \in InFlight /\ p.stage \in Resolving
    BY <2>1 DEF InFlight, Resolving
  <2>3. Questioned(p)
    <3>1. Identity \subseteq p.read
      BY <1>1, <2>1
    <3>2. Verified /\ p.shape = s
      BY <1>0, <2>1 DEF RequestInv, Questioned, SameRequest
    <3>3. p.shape.delegated /\ {"granted", "portfolio"} \subseteq p.read \cup p.lacked
      BY <1>3, <1>6, <2>1, <3>2 DEF SameRequest
    <3> QED
      BY <1>1, <2>1, <3>1, <3>2, <3>3 DEF Questioned, Identity
  <2>4. Authorised(p)
    BY <1>1, <2>1 DEF Authorised
  <2> QED
    BY <1>0, <1>1, <1>2, <2>1, <2>2, <2>3, <2>4, MovedKeeps DEF p
<1> QED
  BY <1>4, <1>5, <1>6 DEF ReadGrants, Shape

LEMMA ReadApplicationKeeps ==
  ASSUME TypeOK, NEW r \in Requests, ReadApplication(r), RequestInv(request[r])
  PROVE  RequestInv(request[r])'
<1> DEFINE q == request[r]
           s == q.shape
           read == q.read \cup (authority \cap {"actorGranted", "actorPortfolio"})
<1>0. /\ q.stage = "application" /\ q.stage \in Resolving /\ q.stage \in InFlight
      /\ UNCHANGED <<config, authority>>
  BY DEF ReadApplication, Resolving, InFlight, Others
<1>1. /\ s.route \in Pilots /\ Genuine(s) /\ Identity \subseteq q.read
      /\ {"granted", "portfolio"} \subseteq q.read \cup q.lacked
      /\ "actorMember" \in q.read
  BY <1>0 DEF RequestInv, Questioned, Resolving, Identity
<1>2. read \subseteq q.held
  BY <1>0 DEF RequestInv, Remembers
<1>3. {"actorGranted", "actorPortfolio"} \subseteq read \cup q.lacked
  BY <1>0 DEF RequestInv, Remembers, Facts
<1>4. CASE Unavailable(r)
  BY <1>0, <1>4, UnavailableKeeps
<1>5. CASE Decide(r, read)
  <2>1. Needed(s) \subseteq read \cup q.lacked
    BY <1>1, <1>3 DEF Needed
  <2>2. Identity \subseteq read /\ "actorMember" \in read
    BY <1>1
  <2> HIDE DEF read
  <2> QED
    BY <1>0, <1>1, <1>2, <1>5, <2>1, <2>2, DecideKeeps
<1> QED
  BY <1>4, <1>5 DEF ReadApplication

LEMMA ResolveKeeps ==
  ASSUME TypeOK, NEW r \in Requests, Resolve(r), RequestInv(request[r])
  PROVE  RequestInv(request[r])'
  BY FindKeyKeeps, ReadClockKeeps, CheckRevocationKeeps, CheckMembershipKeeps,
     ReadGrantsKeeps, CheckActorKeeps, ReadApplicationKeeps DEF Resolve

-----------------------------------------------------------------------------
(* Arrival, middleware, the route and its work. *)

LEMMA ArriveKeeps ==
  ASSUME TypeOK, NEW r \in Requests, Arrive(r), RequestInv(request[r])
  PROVE  RequestInv(request[r])'
<1> DEFINE q == request[r]
           p == request'[r]
<1>0. q.stage = "idle" /\ q = Fresh /\ q \in Progress /\ UNCHANGED <<config, authority>>
  BY DEF Arrive, Others, RequestInv, Unanswered, TypeOK
<1>1. PICK s \in Shapes :
        request' = [request EXCEPT ![r] =
          [Observed(r, authority) EXCEPT !.stage = "arrived", !.shape = s]]
  BY DEF Arrive
<1>2. p = [Observed(r, authority) EXCEPT !.stage = "arrived", !.shape = s]
  BY <1>1 DEF TypeOK
<1>3. /\ p.stage = "arrived" /\ p.shape = s /\ p.read = {} /\ p.effect = "none"
      /\ p.answer = "none" /\ p.audit = NoAudit
      /\ p.held = authority /\ p.lacked = Facts \ authority
  BY <1>0, <1>2 DEF Observed, Fresh, Progress
<1> HIDE DEF p
<1>4. Remembers(p)
  BY <1>3 DEF Remembers
<1>5. Unanswered(p) /\ Questioned(p)
  BY <1>3 DEF Unanswered, Questioned, Resolving
<1>6. Authorised(p)
  BY <1>3 DEF Authorised
<1>7. Timely(p) /\ Audited(p)
  BY <1>3 DEF Timely, TimelyAnswer, Audited, AuditedAnswer, NoAudit
<1>8. RequestInv(p)
  BY <1>4, <1>5, <1>6, <1>7 DEF RequestInv
<1> QED
  BY <1>0, <1>8, SameRules DEF p

LEMMA AdmitByHeadersKeeps ==
  ASSUME TypeOK, NEW r \in Requests, AdmitByHeaders(r), RequestInv(request[r])
  PROVE  RequestInv(request[r])'
<1> DEFINE q == request[r]
           s == q.shape
           p == request'[r]
<1>0. /\ q.stage = "arrived" /\ q.stage \in InFlight /\ ~Verified /\ q.effect = "none"
      /\ UNCHANGED <<config, authority>>
  BY DEF AdmitByHeaders, InFlight, Others, RequestInv, Unanswered
<1>1. ASSUME NEW status PROVE TimelyAnswer(q, status)
  BY <1>0 DEF TimelyAnswer
<1>2. CASE Answer(r, "forbidden", Event("deny", "unverified"))
  <2>1. AuditedAnswer(q, "forbidden", Event("deny", "unverified"))
    BY <1>0 DEF AuditedAnswer, Event
  <2> QED
    BY <1>0, <1>1, <1>2, <2>1, AnswerKeeps
<1>3. CASE Answer(r, "too large", NoAudit)
  <2>1. AuditedAnswer(q, "too large", NoAudit)
    BY <1>0 DEF AuditedAnswer, NoAudit
  <2> QED
    BY <1>0, <1>1, <1>3, <2>1, AnswerKeeps
<1>4. CASE ~IngressFails(s) /\ HeadersFail(s) /\ Answer(r, "forbidden", Event("deny", "headers"))
  <2>1. AuditedAnswer(q, "forbidden", Event("deny", "headers"))
    BY <1>0, <1>4 DEF AuditedAnswer, Event, HeadersFail, IngressFails, IngressRequired
  <2> QED
    BY <1>0, <1>1, <1>4, <2>1, AnswerKeeps
<1>5. CASE ~IngressFails(s) /\ ~HeadersFail(s) /\ MoveTo(r, "handler")
  <2>1. /\ p.stage = "handler" /\ p.read = q.read
        /\ p.answer = q.answer /\ p.audit = q.audit /\ p.effect = q.effect
        /\ SameRequest(p, q)
    BY <1>5, MoveEffect
  <2> HIDE DEF p
  <2>2. p.stage \in InFlight /\ p.stage \notin Resolving
    BY <2>1 DEF InFlight, Resolving
  <2>3. Questioned(p) /\ Authorised(p)
    BY <1>0, <1>5, <2>1, <2>2
    DEF Questioned, Authorised, PastMiddleware, SameRequest, Resolving
  <2>4. p.read \subseteq q.held
    BY <2>1 DEF RequestInv, Remembers
  <2> QED
    BY <1>0, <2>1, <2>2, <2>3, <2>4, MovedKeeps DEF p
<1> QED
  BY <1>2, <1>3, <1>4, <1>5 DEF AdmitByHeaders, Shape

LEMMA AdmitVerifiedKeeps ==
  ASSUME TypeOK, NEW r \in Requests, AdmitVerified(r), RequestInv(request[r])
  PROVE  RequestInv(request[r])'
<1> DEFINE q == request[r]
           s == q.shape
           p == request'[r]
<1>0. /\ q.stage = "arrived" /\ q.stage \in InFlight /\ Verified /\ q.effect = "none"
      /\ q.read \subseteq q.held /\ UNCHANGED <<config, authority>>
  BY DEF AdmitVerified, InFlight, Others, RequestInv, Unanswered, Remembers
<1>1. CASE ~Protected(s) /\ MoveTo(r, "handler")
  <2>1. /\ p.stage = "handler" /\ p.read = q.read
        /\ p.answer = q.answer /\ p.audit = q.audit /\ p.effect = q.effect
        /\ SameRequest(p, q)
    BY <1>1, MoveEffect
  <2> HIDE DEF p
  <2>2. p.stage \in InFlight /\ p.stage \notin Resolving
    BY <2>1 DEF InFlight, Resolving
  <2>3. Questioned(p) /\ Authorised(p)
    BY <1>0, <1>1, <2>1, <2>2
    DEF Questioned, Authorised, PastMiddleware, SameRequest, Resolving
  <2> QED
    BY <1>0, <2>1, <2>2, <2>3, MovedKeeps DEF p
<1>2. CASE Answer(r, "too large", NoAudit)
  <2>1. AuditedAnswer(q, "too large", NoAudit) /\ TimelyAnswer(q, "too large")
    BY <1>0 DEF AuditedAnswer, TimelyAnswer, NoAudit
  <2> QED
    BY <1>0, <1>2, <2>1, AnswerKeeps
<1>3. CASE s.route \notin Pilots /\ Deny(r, "forbidden")
  BY <1>0, <1>3, DenyKeeps DEF TimelyAnswer
<1>4. CASE s.bearer \in {"missing", "malformed"} /\ Deny(r, "unauthenticated")
  BY <1>0, <1>4, DenyKeeps DEF TimelyAnswer, Genuine
<1>5. CASE s.route \in Pilots /\ MoveTo(r, "key")
  <2>1. /\ p.stage = "key" /\ p.read = q.read
        /\ p.answer = q.answer /\ p.audit = q.audit /\ p.effect = q.effect
        /\ SameRequest(p, q)
    BY <1>5, MoveEffect
  <2> HIDE DEF p
  <2>2. p.stage \in InFlight
    BY <2>1 DEF InFlight, Resolving
  <2>3. Questioned(p) /\ Authorised(p)
    BY <1>0, <1>5, <2>1 DEF Questioned, Authorised, SameRequest, Resolving
  <2> QED
    BY <1>0, <2>1, <2>2, <2>3, MovedKeeps DEF p
<1> QED
  BY <1>1, <1>2, <1>3, <1>4, <1>5 DEF AdmitVerified, Shape

(* The event of a write names only who was established. *)
LEMMA WriteIsAudited ==
  ASSUME NEW r \in Requests, RequestInv(request[r]),
         request[r].stage \in {"handler", "working"},
         NEW status \in {"rejected", "no tenant", "uncomposed", "done", "failed"}
  PROVE  AuditedAnswer(request[r], status, WriteEvent(r))
<1> DEFINE q == request[r]
           s == q.shape
<1>1. PastMiddleware(q) /\ q.read \subseteq q.held
  BY DEF RequestInv, Authorised, Remembers
<1>2. CASE s.route \in Writes /\ Verified
  <2>1. WriteEvent(r).event = "write" /\ WriteEvent(r).identity = "principal"
    BY <1>2 DEF WriteEvent, Event, Shape
  <2>2. Genuine(s) /\ Identity \subseteq q.held
    BY <1>1, <1>2 DEF PastMiddleware, Principal, Protected, IngressRequired
  <2> QED
    BY <2>1, <2>2 DEF AuditedAnswer
<1>3. CASE s.route \in Writes /\ ~Verified
  <2>1. WriteEvent(r).event = "write" /\ WriteEvent(r).identity = "headers"
    BY <1>3 DEF WriteEvent, Event, Shape
  <2>2. config.secret => s.marker
    BY <1>1, <1>3 DEF PastMiddleware, IngressFails, IngressRequired
  <2> QED
    BY <1>3, <2>1, <2>2 DEF AuditedAnswer
<1>4. CASE s.route \notin Writes
  <2>1. WriteEvent(r).event = "none" /\ WriteEvent(r).identity = "none"
    BY <1>4 DEF WriteEvent, NoAudit, Shape
  <2> QED
    BY <1>4, <2>1 DEF AuditedAnswer
<1> QED
  BY <1>2, <1>3, <1>4

LEMMA HandleKeeps ==
  ASSUME TypeOK, NEW r \in Requests, Handle(r), RequestInv(request[r])
  PROVE  RequestInv(request[r])'
<1> DEFINE q == request[r]
           s == q.shape
           p == request'[r]
<1>0. /\ q.stage = "handler" /\ q.stage \in InFlight /\ q.effect = "none"
      /\ q.read \subseteq q.held /\ PastMiddleware(q) /\ s \in Shapes
      /\ UNCHANGED <<config, authority>>
  BY DEF Handle, InFlight, Others, RequestInv, Unanswered, Authorised, Remembers
<1>1. ASSUME NEW status \in {"rejected", "no tenant", "uncomposed"},
             Answer(r, status, WriteEvent(r))
      PROVE  RequestInv(request[r])'
  <2>1. TimelyAnswer(q, status)
    BY <1>0 DEF TimelyAnswer
  <2> QED
    BY <1>0, <1>1, <2>1, AnswerKeeps, WriteIsAudited
<1>2. s.route \in Routes
  BY <1>0, ShapeFacts
<1>3. CASE OutOfScope(r) /\ Answer(r, "forbidden", Event("deny", "principal"))
  <2>1. /\ Verified /\ s.route \in Pilots /\ s.scoped
        /\ ~({"portfolio"} \cup (IF s.delegated THEN {"actorPortfolio"} ELSE {}) \subseteq q.read)
    BY <1>2, <1>3, RouteFacts DEF OutOfScope, Shape
  <2>2. Principal(q) /\ Needed(s) \subseteq q.read \cup q.lacked
    BY <1>0, <2>1, PilotsAreProtected DEF PastMiddleware
  <2>3. TimelyAnswer(q, "forbidden")
    BY <2>1, <2>2 DEF TimelyAnswer, Needed
  <2>4. AuditedAnswer(q, "forbidden", Event("deny", "principal"))
    BY <1>0, <2>2 DEF AuditedAnswer, Event, Principal
  <2> QED
    BY <1>0, <1>3, <2>3, <2>4, AnswerKeeps
<1>4. CASE /\ ~OutOfScope(r)
           /\ request' = [request EXCEPT ![r].stage = "working", ![r].effect = Authority(s)]
  <2>1. /\ p.stage = "working" /\ p.effect = Authority(s) /\ p.read = q.read
        /\ p.answer = q.answer /\ p.audit = q.audit
        /\ SameRequest(p, q)
    BY <1>4, ZenonT(60) DEF TypeOK, Progress, SameRequest
  <2> HIDE DEF p
  <2>2. p.stage \in InFlight /\ p.stage \notin Resolving
    BY <2>1 DEF InFlight, Resolving
  <2>3. PastMiddleware(p)
    BY <1>0, <2>1 DEF PastMiddleware, Principal, SameRequest
  <2>4. ASSUME Verified, Protected(s)
        PROVE  Needed(s) \subseteq q.read /\ Authority(s) # "header"
    <3>1. Principal(q) /\ s.route \in Pilots
      BY <1>0, <2>4 DEF PastMiddleware, Principal
    <3>2. HandlerOf(s.route).scope /\ s.route \notin Jobs /\ s.route # "probe"
      BY <1>2, <3>1, RouteFacts, PilotsAreProtected
    <3>3. s.scoped => {"portfolio"} \cup (IF s.delegated THEN {"actorPortfolio"} ELSE {}) \subseteq q.read
      BY <1>4, <2>4, <3>2 DEF OutOfScope, Shape
    <3>4. Needed(s) \subseteq q.read
      BY <3>1, <3>3 DEF Needed, Principal
    <3>5. Authority(s) # "header"
      <4>1. CASE NeedsTenant(s)
        BY <2>4, <3>2, <4>1 DEF Authority
      <4>2. CASE ~NeedsTenant(s)
        BY <3>2, <4>2 DEF Authority
      <4> QED
        BY <4>1, <4>2
    <3> QED
      BY <3>4, <3>5
  <2>5. Authorised(p) /\ Questioned(p)
    BY <2>1, <2>2, <2>3, <2>4 DEF Authorised, Questioned, SameRequest, Resolving
  <2> QED
    BY <1>0, <2>1, <2>2, <2>5, MovedKeeps DEF p
<1> QED
  BY <1>1, <1>3, <1>4 DEF Handle, Shape

LEMMA FinishKeeps ==
  ASSUME TypeOK, NEW r \in Requests, Finish(r), RequestInv(request[r])
  PROVE  RequestInv(request[r])'
<1> DEFINE q == request[r]
<1>0. /\ q.stage = "working" /\ q.stage \in InFlight /\ UNCHANGED <<config, authority>>
  BY DEF Finish, InFlight, Others
<1>1. ASSUME NEW a \in {"done", "failed"}, Answer(r, a, WriteEvent(r))
      PROVE  RequestInv(request[r])'
  <2>1. TimelyAnswer(q, a)
    BY DEF TimelyAnswer
  <2> QED
    BY <1>0, <1>1, <2>1, AnswerKeeps, WriteIsAudited
<1>2. CASE Answer(r, "crashed", NoAudit)
  <2>1. TimelyAnswer(q, "crashed") /\ AuditedAnswer(q, "crashed", NoAudit)
    BY DEF TimelyAnswer, AuditedAnswer, NoAudit
  <2> QED
    BY <1>0, <1>2, <2>1, AnswerKeeps
<1> QED
  BY <1>1, <1>2 DEF Finish

-----------------------------------------------------------------------------
(* Types, and what a step leaves alone. *)

(* A step is of one request, which is under way afterwards, and was not
   answered before. *)
LEMMA StepFrame ==
  ASSUME TypeOK, NEW r \in Requests, Step(r)
  PROVE  /\ UNCHANGED <<config, phase, clients, pool, owned, draining, authority, changes>>
         /\ \A t \in Requests \ {r} : request'[t] = request[t]
         /\ request[r].stage \in InFlight \/ (request[r].stage = "idle" /\ phase = "serving")
<1>1. ASSUME NEW status, NEW audit, Answer(r, status, audit)
      PROVE  \A t \in Requests \ {r} : request'[t] = request[t]
  BY <1>1, AnswerEffect
<1>2. ASSUME NEW stage, MoveTo(r, stage)
      PROVE  \A t \in Requests \ {r} : request'[t] = request[t]
  BY <1>2, MoveEffect
<1>3. ASSUME NEW fact, NEW refusal, NEW next, Ask(r, fact, refusal, next)
      PROVE  \A t \in Requests \ {r} : request'[t] = request[t]
  BY <1>1, <1>3 DEF Ask, Unavailable, Deny, TypeOK
<1>4. ASSUME NEW read, Decide(r, read)
      PROVE  \A t \in Requests \ {r} : request'[t] = request[t]
  BY <1>1, <1>4 DEF Decide, Deny, TypeOK
<1> USE DEF Others, InFlight, Resolving
<1>5. CASE Arrive(r)
  BY <1>5 DEF Arrive, TypeOK
<1>6. CASE AdmitByHeaders(r)
  BY <1>1, <1>2, <1>6 DEF AdmitByHeaders
<1>7. CASE AdmitVerified(r)
  BY <1>1, <1>2, <1>7 DEF AdmitVerified, Deny
<1>8. CASE FindKey(r)
  BY <1>1, <1>3, <1>8 DEF FindKey, Unavailable, Deny
<1>9. CASE ReadClock(r) \/ CheckRevocation(r) \/ CheckMembership(r) \/ CheckActor(r)
  BY <1>1, <1>3, <1>9
  DEF ReadClock, CheckRevocation, CheckMembership, CheckActor, Unavailable, Deny
<1>10. CASE ReadGrants(r)
  BY <1>1, <1>4, <1>10 DEF ReadGrants, Unavailable, Deny, TypeOK
<1>11. CASE ReadApplication(r)
  BY <1>1, <1>4, <1>11 DEF ReadApplication, Unavailable, Deny
<1>12. CASE Handle(r)
  BY <1>1, <1>12 DEF Handle, TypeOK
<1>13. CASE Finish(r)
  BY <1>1, <1>13 DEF Finish
<1> QED
  BY <1>5, <1>6, <1>7, <1>8, <1>9, <1>10, <1>11, <1>12, <1>13 DEF Step, Resolve

(* The record of the request of a step is one of a request. *)
LEMMA StepType ==
  ASSUME TypeOK, NEW r \in Requests, Step(r)
  PROVE  request' \in [Requests -> Progress]
<1> DEFINE Statuses == {"unauthenticated", "forbidden", "too large", "unavailable", "rejected",
                        "no tenant", "uncomposed", "done", "failed", "crashed"}
<1>0. request \in [Requests -> Progress] /\ request[r] \in Progress /\ authority \subseteq Facts
  BY DEF TypeOK
<1>1. ASSUME NEW status \in Statuses, NEW audit \in Events, Answer(r, status, audit)
      PROVE  request' \in [Requests -> Progress]
  <2>1. "answered" \in Stages
    BY DEF Stages
  <2> DEFINE p == [request[r] EXCEPT !.stage = "answered", !.answer = status,
                                     !.audit = audit, !.secured = status # "crashed"]
  <2>2. p \in Progress
    BY <1>0, <2>1 DEF Progress
  <2>3. request' = [request EXCEPT ![r] = p]
    BY <1>0, <1>1 DEF Answer
  <2> QED
    BY <1>0, <2>2, <2>3
<1>2. ASSUME NEW stage \in Stages, MoveTo(r, stage)
      PROVE  request' \in [Requests -> Progress]
  BY <1>0, <1>2 DEF MoveTo, Progress
<1>3. ASSUME NEW stage \in Stages, NEW read \in SUBSET Facts,
             request' = [request EXCEPT ![r].stage = stage, ![r].read = read]
      PROVE  request' \in [Requests -> Progress]
  BY <1>0, <1>3 DEF Progress
<1>4. ASSUME NEW status \in {"unauthenticated", "forbidden", "unavailable"}, Deny(r, status)
      PROVE  request' \in [Requests -> Progress]
  BY <1>1, <1>4 DEF Deny, Event, Events
<1>5. ASSUME NEW fact \in Facts, NEW refusal \in {"unauthenticated", "forbidden"},
             NEW next \in Stages, Ask(r, fact, refusal, next)
      PROVE  request' \in [Requests -> Progress]
  <2>1. request[r].read \cup {fact} \in SUBSET Facts
    BY <1>0 DEF Progress
  <2>2. CASE request' = [request EXCEPT ![r].stage = next, ![r].read = @ \cup {fact}]
    <3>1. request' = [request EXCEPT ![r].stage = next,
                                     ![r].read = request[r].read \cup {fact}]
      BY <1>0, <2>2 DEF Progress
    <3> QED
      BY <1>3, <2>1, <3>1
  <2> QED
    BY <1>4, <1>5, <2>2 DEF Ask, Unavailable
<1>6. ASSUME NEW read \in SUBSET Facts, Decide(r, read)
      PROVE  request' \in [Requests -> Progress]
  BY <1>3, <1>4, <1>6 DEF Decide, Stages, InFlight
<1> USE DEF Stages, InFlight, Resolving, Facts
<1>7. CASE Arrive(r)
  <2>1. PICK s \in Shapes :
          request' = [request EXCEPT ![r] =
            [Observed(r, authority) EXCEPT !.stage = "arrived", !.shape = s]]
    BY <1>7 DEF Arrive
  <2>2. [Observed(r, authority) EXCEPT !.stage = "arrived", !.shape = s] \in Progress
    BY <1>0 DEF Observed, Progress
  <2> QED
    BY <1>0, <2>1, <2>2
<1>8. CASE AdmitByHeaders(r)
  BY <1>1, <1>2, <1>8 DEF AdmitByHeaders, Event, Events, NoAudit
<1>9. CASE AdmitVerified(r)
  BY <1>1, <1>2, <1>4, <1>9 DEF AdmitVerified, Events, NoAudit
<1>10. CASE FindKey(r)
  BY <1>4, <1>5, <1>10 DEF FindKey, Unavailable
<1>11. CASE ReadClock(r) \/ CheckRevocation(r) \/ CheckMembership(r) \/ CheckActor(r)
  BY <1>4, <1>5, <1>11
  DEF ReadClock, CheckRevocation, CheckMembership, CheckActor, Unavailable
<1>12. CASE ReadGrants(r)
  <2>1. request[r].read \cup (authority \cap {"granted", "portfolio"}) \in SUBSET Facts
    BY <1>0 DEF Progress
  <2> QED
    BY <1>3, <1>4, <1>6, <1>12, <2>1 DEF ReadGrants, Unavailable
<1>13. CASE ReadApplication(r)
  <2>1. request[r].read \cup (authority \cap {"actorGranted", "actorPortfolio"}) \in SUBSET Facts
    BY <1>0 DEF Progress
  <2> QED
    BY <1>4, <1>6, <1>13, <2>1 DEF ReadApplication, Unavailable
<1>14. WriteEvent(r) \in Events
  BY DEF WriteEvent, Event, Events, NoAudit
<1>15. CASE Handle(r)
  <2>1. Event("deny", "principal") \in Events
    BY DEF Event, Events
  <2>2. Authority(Shape(r)) \in {"none", "own", "header", "principal", "ready", "draining"}
    BY DEF Authority, Readiness
  <2>3. CASE request' = [request EXCEPT ![r].stage = "working",
                                        ![r].effect = Authority(Shape(r))]
    <3>1. PICK effect : effect = Authority(Shape(r))
      OBVIOUS
    <3>2. [request[r] EXCEPT !.stage = "working", !.effect = effect] \in Progress
      BY <1>0, <2>2, <3>1, ZenonT(60) DEF Progress
    <3>3. request' = [request EXCEPT ![r] = [request[r] EXCEPT !.stage = "working", !.effect = effect]]
      BY <2>3, <3>1
    <3> QED
      BY <1>0, <3>2, <3>3
  <2> QED
    BY <1>1, <1>14, <1>15, <2>1, <2>3 DEF Handle
<1>16. CASE Finish(r)
  <2>1. NoAudit \in Events
    BY DEF Events, NoAudit
  <2> QED
    BY <1>1, <1>14, <1>16, <2>1 DEF Finish
<1> QED
  BY <1>7, <1>8, <1>9, <1>10, <1>11, <1>12, <1>13, <1>15, <1>16 DEF Step, Resolve

-----------------------------------------------------------------------------
(* The invariants are inductive. *)

(* A change of the authorities is remembered by every request in flight. *)
LEMMA ChangeKeeps ==
  ASSUME TypeOK, NEW r \in Requests, ChangeAuthority, RequestInv(request[r])
  PROVE  /\ RequestInv(request[r])'
         /\ request'[r].answer = request[r].answer
         /\ request'[r].stage = request[r].stage
<1> DEFINE q == request[r]
           p == request'[r]
<1>0. q \in Progress /\ config' = config
  BY DEF ChangeAuthority, TypeOK
<1>1. /\ p.stage = q.stage /\ p.shape = q.shape /\ p.read = q.read /\ p.effect = q.effect
      /\ p.audit = q.audit /\ p.answer = q.answer
      /\ q.held \subseteq p.held /\ q.lacked \subseteq p.lacked
      /\ q.stage \in InFlight => authority' \subseteq p.held
      /\ q.stage \in InFlight => Facts \ authority' \subseteq p.lacked
      /\ q.stage \notin InFlight => p = q
  <2>1. CASE q.stage \in InFlight
    <3>1. p = [q EXCEPT !.held = @ \cup authority', !.lacked = @ \cup (Facts \ authority')]
      BY <2>1 DEF ChangeAuthority, Observed
    <3> QED
      BY <1>0, <2>1, <3>1, ZenonT(60) DEF Progress
  <2>2. CASE q.stage \notin InFlight
    BY <2>2 DEF ChangeAuthority
  <2> QED
    BY <2>1, <2>2
<1> HIDE DEF p
<1>2. "idle" \notin InFlight
  BY DEF InFlight, Resolving
<1>3. Unanswered(p) /\ Questioned(p)
  BY <1>1, <1>2 DEF RequestInv, Unanswered, Questioned
<1>4. PastMiddleware(q) => PastMiddleware(p)
  BY <1>1 DEF PastMiddleware, Principal
<1>5. Authorised(p)
  BY <1>1, <1>4 DEF RequestInv, Authorised
<1>6. Timely(p) /\ Audited(p)
  BY <1>1 DEF RequestInv, Timely, TimelyAnswer, Audited, AuditedAnswer
<1>7. (Unanswered(q) /\ Questioned(q) /\ Authorised(q) /\ Timely(q) /\ Audited(q))'
  BY <1>0, <1>3, <1>5, <1>6
  DEF p, Unanswered, Questioned, Authorised, Timely, TimelyAnswer, Audited, AuditedAnswer,
      PastMiddleware, Principal, Verified, HeadersFail, HasCapability, IngressFails
<1>8. Remembers(q)'
  BY <1>1 DEF RequestInv, Remembers, p
<1> QED
  BY <1>1, <1>7, <1>8 DEF RequestInv, p

(* A step keeps the invariant of every request. *)
LEMMA StepKeeps ==
  ASSUME TypeOK, NEW r \in Requests, Step(r), NEW t \in Requests,
         RequestInv(request[t])
  PROVE  RequestInv(request[t])'
<1>1. CASE t = r
  BY <1>1, ArriveKeeps, AdmitByHeadersKeeps, AdmitVerifiedKeeps, ResolveKeeps, HandleKeeps,
     FinishKeeps DEF Step
<1>2. CASE t # r
  <2>1. request'[t] = request[t] /\ UNCHANGED <<config, authority>>
    BY <1>2, StepFrame
  <2>2. RequestInv(request'[t])
    BY <2>1
  <2> QED
    BY <2>1, <2>2, SameRules
<1> QED
  BY <1>1, <1>2

(* The lifespan leaves requests, configuration and authorities alone. *)
LEMMA LifespanFrame ==
  ASSUME Lifespan
  PROVE  UNCHANGED <<config, authority, changes, request>>
  BY DEF Lifespan, Compose, OpenPool, OwnPool, FailStart, Serve, StopServing, Drain, ClosePool, Stop

(* Recording adds a pool that is neither injected nor owned. *)
LEMMA OwnPoolEffect ==
  ASSUME TypeOK, ProcessInv, OwnPool
  PROVE  /\ owned' \in Seq(Pools) /\ clients' \subseteq Pools
         /\ \A i, j \in DOMAIN owned' : owned'[i] = owned'[j] => i = j
         /\ clients' = config.injected \cup Recorded'
         /\ config.injected \cap Recorded' = {}
         /\ Recorded' = Recorded \cup {NextPool} /\ NextPool \notin clients
<1>1. NextPool \in Pools \ clients
  BY DEF OwnPool, NextPool, Awaited, Pools
<1>2. /\ owned \in Seq(Pools) /\ clients' = clients \cup {NextPool}
      /\ owned' = owned \o <<NextPool>>
  BY DEF OwnPool, TypeOK
<1> DEFINE p == NextPool
<1> HIDE DEF p
<1>3. /\ owned' \in Seq(Pools) /\ Len(owned') = Len(owned) + 1
      /\ \A i \in 1..Len(owned) : owned'[i] = owned[i]
      /\ owned'[Len(owned) + 1] = p
      /\ DOMAIN owned' = 1..(Len(owned) + 1) /\ DOMAIN owned = 1..Len(owned)
      /\ Len(owned) \in Nat
  BY <1>1, <1>2 DEF p
<1>4. Recorded' = Recorded \cup {p}
  BY <1>3 DEF Recorded
<1>5. p \notin Recorded /\ p \notin config.injected
  BY <1>1 DEF ProcessInv, p
<1>6. \A i \in 1..Len(owned) : owned[i] # p
  BY <1>3, <1>5 DEF Recorded
<1>7. \A i, j \in DOMAIN owned' : owned'[i] = owned'[j] => i = j
  BY <1>3, <1>6 DEF ProcessInv
<1> QED
  BY <1>1, <1>2, <1>3, <1>4, <1>5, <1>7 DEF ProcessInv, TypeOK, p

(* Closing removes the pool that was recorded last. *)
LEMMA ClosePoolEffect ==
  ASSUME TypeOK, ProcessInv, ClosePool
  PROVE  /\ owned[Len(owned)] \in Recorded
         /\ Recorded' = Recorded \ {owned[Len(owned)]}
         /\ owned' \in Seq(Pools) /\ clients' \subseteq Pools
         /\ \A i, j \in DOMAIN owned' : owned'[i] = owned'[j] => i = j
         /\ clients' = config.injected \cup Recorded'
         /\ config.injected \cap Recorded' = {}
<1> DEFINE n == Len(owned)
<1>1. /\ owned \in Seq(Pools) /\ owned # <<>> /\ owned' = SubSeq(owned, 1, n - 1)
      /\ clients' = clients \ {owned[n]}
  BY DEF ClosePool, TypeOK
<1>2. n \in Nat /\ n > 0 /\ DOMAIN owned = 1..n
  BY <1>1
<1>3. /\ owned' \in Seq(Pools) /\ DOMAIN owned' = 1..(n - 1)
      /\ \A i \in 1..(n - 1) : owned'[i] = owned[i]
  BY <1>1, <1>2
<1> HIDE DEF n
<1>4. \A i \in 1..(n - 1) : owned[i] # owned[n]
  BY <1>2 DEF ProcessInv
<1>5. Recorded' = Recorded \ {owned[n]}
  BY <1>2, <1>3, <1>4 DEF Recorded
<1>6. owned[n] \in Recorded /\ owned[n] \notin config.injected
  BY <1>2 DEF ProcessInv, Recorded
<1>7. \A i, j \in DOMAIN owned' : owned'[i] = owned'[j] => i = j
  BY <1>2, <1>3 DEF ProcessInv
<1> QED
  BY <1>1, <1>3, <1>5, <1>6, <1>7 DEF ProcessInv, TypeOK, n

(* The process keeps its invariant in each step of its lifespan. *)
LEMMA LifespanKeeps ==
  ASSUME TypeOK, ProcessInv, Lifespan
  PROVE  TypeOK' /\ ProcessInv'
<1>0. UNCHANGED <<config, authority, changes, request>>
  BY LifespanFrame
<1>1. CASE OwnPool
  <2>1. phase' = phase /\ phase = "starting" /\ draining' = draining /\ pool' = pool
    BY <1>1 DEF OwnPool
  <2>2. TypeOK'
    BY <1>0, <1>1, <2>1, OwnPoolEffect DEF TypeOK
  <2>3. ProcessInv'
    BY <1>0, <1>1, <2>1, OwnPoolEffect DEF ProcessInv
  <2> QED
    BY <2>2, <2>3
<1>2. CASE ClosePool
  <2>1. phase' = phase /\ phase = "closing" /\ draining' = draining
    BY <1>2 DEF ClosePool
  <2>4. pool' \in [Pools -> Lives]
    BY <1>2 DEF ClosePool, TypeOK, Lives
  <2>2. TypeOK'
    BY <1>0, <1>2, <2>1, <2>4, ClosePoolEffect DEF TypeOK
  <2>3. ProcessInv'
    BY <1>0, <1>2, <2>1, ClosePoolEffect DEF ProcessInv
  <2> QED
    BY <2>2, <2>3
<1>3. CASE Compose \/ FailStart \/ Serve \/ StopServing \/ Drain \/ Stop
  <2>1. UNCHANGED <<clients, pool, owned>> /\ Recorded' = Recorded
    BY <1>3 DEF Compose, FailStart, Serve, StopServing, Drain, Stop, Recorded
  <2>2. TypeOK'
    BY <1>0, <1>3, <2>1
    DEF TypeOK, Phases, Compose, FailStart, Serve, StopServing, Drain, Stop
  <2>3. ASSUME Compose PROVE ProcessInv'
    <3>1. \A r \in Requests : request[r].stage \notin InFlight
      BY <2>3 DEF Compose, ProcessInv
    <3> QED
      BY <1>0, <2>1, <2>3, <3>1 DEF Compose, ProcessInv
  <2>4. ASSUME FailStart PROVE ProcessInv'
    BY <1>0, <2>1, <2>4 DEF FailStart, ProcessInv
  <2>5. ASSUME Serve PROVE ProcessInv'
    BY <1>0, <2>1, <2>5 DEF Serve, ProcessInv, Awaited, TypeOK
  <2>6. ASSUME StopServing PROVE ProcessInv'
    BY <1>0, <2>1, <2>6 DEF StopServing, ProcessInv
  <2>7. ASSUME Drain PROVE ProcessInv'
    BY <1>0, <2>1, <2>7 DEF Drain, ProcessInv
  <2>8. ASSUME Stop PROVE ProcessInv'
    BY <1>0, <2>1, <2>8 DEF Stop, ProcessInv
  <2> QED
    BY <1>3, <2>2, <2>3, <2>4, <2>5, <2>6, <2>7, <2>8
<1>4. CASE OpenPool
  <2>1. UNCHANGED <<phase, clients, owned, draining>> /\ Recorded' = Recorded
    BY <1>4 DEF OpenPool, Recorded
  <2>2. pool' \in [Pools -> Lives]
    BY <1>4 DEF OpenPool, TypeOK, Lives
  <2> QED
    BY <1>0, <2>1, <2>2 DEF TypeOK, ProcessInv
<1> QED
  BY <1>1, <1>2, <1>3, <1>4 DEF Lifespan

(* The pools keep theirs. *)
LEMMA LifespanKeepsPools ==
  ASSUME TypeOK, ProcessInv, PoolsInv, Lifespan
  PROVE  PoolsInv'
<1>0. config' = config /\ pool \in [Pools -> Lives] /\ config.injected \subseteq clients
  BY LifespanFrame DEF TypeOK, ProcessInv
<1>1. CASE OpenPool
  <2> DEFINE n == NextPool
  <2>1. /\ phase = "starting" /\ UNCHANGED <<phase, clients, owned>>
        /\ n \in Pools \ clients /\ pool[n] = "none"
        /\ pool' = [pool EXCEPT ![n] = "open"]
    BY <1>1 DEF OpenPool, NextPool, Awaited, Pools
  <2>2. NextPool' = n /\ Recorded' = Recorded
    BY <2>1 DEF NextPool, Awaited, Recorded
  <2> HIDE DEF n
  <2>3. n \notin Recorded /\ n \notin config.injected
    BY <2>1 DEF ProcessInv
  <2>4. \A p \in Pools : pool'[p] = IF p = n THEN "open" ELSE pool[p]
    BY <1>0, <2>1
  <2>5. \A p \in Pools : Unrecorded(p)' <=> p = n \/ Unrecorded(p)
    BY <2>2, <2>3, <2>4 DEF Unrecorded
  <2>6. \A p \in Pools : Unrecorded(p) => p = n
    BY <2>1 DEF PoolsInv, n
  <2>7. config.injected \subseteq Pools /\ Recorded \subseteq Pools
    BY <1>0 DEF TypeOK, ProcessInv
  <2> QED
    BY <1>0, <2>1, <2>2, <2>3, <2>4, <2>5, <2>6, <2>7 DEF PoolsInv
<1>2. CASE OwnPool
  <2> DEFINE n == NextPool
  <2>1. /\ phase = "starting" /\ UNCHANGED <<phase, pool>>
        /\ pool[n] = "open" /\ n \in config.urls
    BY <1>2 DEF OwnPool
  <2>2. Recorded' = Recorded \cup {n}
    BY <1>2, OwnPoolEffect
  <2>3. \A p \in Pools : ~Unrecorded(p)'
    BY <2>1, <2>2 DEF PoolsInv, Unrecorded
  <2> HIDE DEF n
  <2> QED
    BY <1>0, <2>1, <2>2, <2>3 DEF PoolsInv
<1>3. CASE ClosePool
  <2> DEFINE n == owned[Len(owned)]
  <2>1. /\ phase = "closing" /\ phase' = phase
        /\ \E outcome \in {"closed", "unclosed"} : pool' = [pool EXCEPT ![n] = outcome]
    BY <1>3 DEF ClosePool
  <2>2. n \in Recorded /\ Recorded' = Recorded \ {n}
    BY <1>3, ClosePoolEffect
  <2> HIDE DEF n
  <2>3. Recorded \subseteq Pools /\ config.injected \subseteq Pools /\ n \notin config.injected
    BY <2>2 DEF ProcessInv, TypeOK
  <2>4. pool'[n] # "open" /\ \A p \in Pools \ {n} : pool'[p] = pool[p]
    BY <1>0, <2>1, <2>2, <2>3
  <2>5. \A p \in Pools : Unrecorded(p)' => Unrecorded(p)
    BY <2>2, <2>4 DEF Unrecorded
  <2> QED
    BY <1>0, <2>1, <2>2, <2>3, <2>4, <2>5 DEF PoolsInv
<1>4. CASE Compose \/ FailStart \/ Serve \/ StopServing \/ Drain \/ Stop
  <2>1. UNCHANGED <<clients, pool, owned>>
    BY <1>4 DEF Compose, FailStart, Serve, StopServing, Drain, Stop
  <2>2. Recorded' = Recorded /\ NextPool' = NextPool /\ \A p : Unrecorded(p)' <=> Unrecorded(p)
    BY <2>1 DEF Recorded, NextPool, Awaited, Unrecorded
  <2>3. ASSUME FailStart, NEW p \in Pools, Unrecorded(p) PROVE p \notin config.urls
    BY <2>3 DEF FailStart, StartFails, PoolsInv, Unrecorded
  <2>4. ASSUME Drain, NEW p \in Pools PROVE ~Unrecorded(p)
    BY <2>4 DEF Drain, ProcessInv, PoolsInv, Unrecorded
  <2>5. ASSUME Compose, NEW p \in Pools PROVE ~Unrecorded(p) /\ pool[p] = "none"
    BY <2>5 DEF Compose, PoolsInv, Unrecorded
  <2>6. ASSUME Compose \/ FailStart \/ Drain PROVE PoolsInv'
    BY <1>0, <2>1, <2>2, <2>3, <2>4, <2>5, <2>6 DEF PoolsInv, Compose, FailStart, Drain
  <2>7. ASSUME Serve \/ StopServing \/ Stop PROVE PoolsInv'
    BY <1>0, <2>1, <2>2, <2>7 DEF PoolsInv, Serve, StopServing, Stop
  <2> QED
    BY <1>4, <2>6, <2>7
<1> QED
  BY <1>1, <1>2, <1>3, <1>4 DEF Lifespan

(* They are the same where the process is. *)
LEMMA PoolsFrame ==
  ASSUME PoolsInv, UNCHANGED <<config, phase, clients, pool, owned>>
  PROVE  PoolsInv'
  BY DEF PoolsInv, Unrecorded, Recorded, NextPool, Awaited

(* A step of a request leaves the process alone, and is one of a process that
   serves. *)
LEMMA StepKeepsProcess ==
  ASSUME TypeOK, ProcessInv, NEW r \in Requests, Step(r)
  PROVE  TypeOK' /\ ProcessInv'
<1>1. /\ UNCHANGED <<config, phase, clients, pool, owned, draining, authority, changes>>
      /\ \A t \in Requests \ {r} : request'[t] = request[t]
      /\ request[r].stage \in InFlight \/ phase = "serving"
  BY StepFrame
<1>2. TypeOK'
  BY <1>1, StepType DEF TypeOK
<1>3. phase \in {"serving", "finishing"} /\ Boots(config)
  BY <1>1 DEF ProcessInv
<1>4. Recorded' = Recorded
  BY <1>1 DEF Recorded
<1>5. ProcessInv'
  BY <1>1, <1>3, <1>4 DEF ProcessInv
<1> QED
  BY <1>2, <1>5

(* A request in flight never finds a client missing. *)
LEMMA ClientsAreThere ==
  ASSUME TypeOK, ProcessInv, NEW r \in Requests, request[r].stage \in InFlight,
         RequestInv(request[r])
  PROVE  /\ clients = Pools
         /\ HandlerOf(Shape(r).route).clients \subseteq Pools
         /\ ~ClientMissing(Shape(r))
<1>1. Shape(r) \in Shapes
  BY DEF RequestInv, Unanswered, Shape, InFlight, Resolving
<1>2. HandlerOf(Shape(r).route).clients \subseteq Pools
  BY <1>1, ShapeFacts, RouteFacts
<1>3. clients = Pools
  BY DEF ProcessInv
<1> QED
  BY <1>2, <1>3 DEF ClientMissing

LEMMA StepKeepsComposed ==
  ASSUME TypeOK, ProcessInv, NEW r \in Requests, Step(r), RequestInv(request[r]),
         Composed(request[r])
  PROVE  Composed(request[r])'
<1>1. request[r] \in Progress
  BY DEF TypeOK
<1>2. ASSUME NEW status, status # "uncomposed", NEW audit, Answer(r, status, audit)
      PROVE  Composed(request[r])'
  BY <1>2, AnswerEffect DEF Composed
<1>3. ASSUME NEW stage, MoveTo(r, stage) PROVE Composed(request[r])'
  BY <1>3, MoveEffect DEF Composed
<1>4. ASSUME NEW fact, NEW refusal, refusal # "uncomposed", NEW next,
             Ask(r, fact, refusal, next)
      PROVE  Composed(request[r])'
  BY <1>1, <1>2, <1>4, ZenonT(60) DEF Ask, Unavailable, Deny, TypeOK, Composed, Progress
<1>5. ASSUME NEW read, Decide(r, read) PROVE Composed(request[r])'
  BY <1>1, <1>2, <1>5, ZenonT(60) DEF Decide, Deny, TypeOK, Composed, Progress
<1>6. CASE Arrive(r)
  BY <1>1, <1>6, ZenonT(60) DEF Arrive, Observed, TypeOK, Composed, Progress
<1>7. CASE AdmitByHeaders(r)
  BY <1>2, <1>3, <1>7 DEF AdmitByHeaders
<1>8. CASE AdmitVerified(r)
  BY <1>2, <1>3, <1>8 DEF AdmitVerified, Deny
<1>9. CASE FindKey(r)
  BY <1>2, <1>4, <1>9 DEF FindKey, Unavailable, Deny
<1>10. CASE ReadClock(r) \/ CheckRevocation(r) \/ CheckMembership(r) \/ CheckActor(r)
  BY <1>2, <1>4, <1>10
  DEF ReadClock, CheckRevocation, CheckMembership, CheckActor, Unavailable, Deny
<1>11. CASE ReadGrants(r)
  BY <1>1, <1>2, <1>5, <1>11, ZenonT(60) DEF ReadGrants, Unavailable, Deny, TypeOK, Composed, Progress
<1>12. CASE ReadApplication(r)
  BY <1>2, <1>5, <1>12 DEF ReadApplication, Unavailable, Deny
<1>13. CASE Handle(r)
  <2>1. ~ClientMissing(Shape(r))
    BY <1>13, ClientsAreThere DEF Handle, InFlight
  <2>2. CASE request' = [request EXCEPT ![r].stage = "working",
                                        ![r].effect = Authority(Shape(r))]
    BY <1>1, <2>2 DEF TypeOK, Composed, Progress
  <2> QED
    BY <1>2, <1>13, <2>1, <2>2 DEF Handle
<1>14. CASE Finish(r)
  BY <1>2, <1>14 DEF Finish
<1> QED
  BY <1>6, <1>7, <1>8, <1>9, <1>10, <1>11, <1>12, <1>13, <1>14 DEF Step, Resolve

LEMMA InitHolds == Init => IInv
<1> SUFFICES ASSUME Init PROVE IInv
  OBVIOUS
<1> USE DEF Init
<1>1. TypeOK
  <2>1. Fresh \in Progress
    BY DEF Progress, Stages, Events, Fresh, NoAudit
  <2>2. /\ owned \in Seq(Pools) /\ changes \in 0..MaxChanges /\ clients \subseteq Pools
        /\ pool \in [Pools -> Lives]
    BY GatewayAssumption DEF Lives
  <2> QED
    BY <2>1, <2>2 DEF TypeOK, Phases
<1>2. Recorded = {}
  BY DEF Recorded
<1>3. ProcessInv /\ PoolsInv
  <2>1. ProcessInv
    BY <1>2 DEF ProcessInv, Fresh, InFlight, Resolving
  <2>2. \A p \in Pools : pool[p] = "none"
    OBVIOUS
  <2>3. config.injected \subseteq Pools
    BY GatewayAssumption
  <2>4. PoolsInv
    BY <1>2, <2>2, <2>3 DEF PoolsInv, Unrecorded
  <2> QED
    BY <2>1, <2>4
<1>4. ASSUME NEW r \in Requests PROVE RequestInv(request[r]) /\ Composed(request[r])
  <2>1. request[r] = Fresh
    OBVIOUS
  <2>2. Remembers(Fresh) /\ Unanswered(Fresh) /\ Questioned(Fresh) /\ Authorised(Fresh)
    BY DEF Remembers, Unanswered, Questioned, Authorised, Fresh, InFlight, Resolving
  <2>3. Timely(Fresh) /\ Audited(Fresh) /\ Composed(Fresh)
    BY DEF Timely, TimelyAnswer, Audited, AuditedAnswer, Composed, Fresh, NoAudit
  <2> QED
    BY <2>1, <2>2, <2>3 DEF RequestInv
<1> QED
  BY <1>1, <1>3, <1>4 DEF IInv

LEMMA NextKeeps == IInv /\ [Next]_vars => IInv'
<1> SUFFICES ASSUME IInv, [Next]_vars PROVE IInv'
  OBVIOUS
<1>0. TypeOK /\ ProcessInv /\ PoolsInv /\ \A r \in Requests : RequestInv(request[r]) /\ Composed(request[r])
  BY DEF IInv
<1>1. CASE Lifespan
  <2>1. UNCHANGED <<config, authority, request>>
    BY <1>1, LifespanFrame
  <2>2. ASSUME NEW r \in Requests PROVE (RequestInv(request[r]) /\ Composed(request[r]))'
    <3>1. RequestInv(request'[r]) /\ Composed(request'[r])
      BY <1>0, <2>1
    <3> QED
      BY <2>1, <3>1, SameRules DEF Composed
  <2> QED
    BY <1>0, <1>1, <2>2, LifespanKeeps, LifespanKeepsPools DEF IInv
<1>2. CASE ChangeAuthority
  <2>1. UNCHANGED <<config, phase, clients, pool, owned, draining>> /\ Recorded' = Recorded
    BY <1>2 DEF ChangeAuthority, Recorded
  <2>2. \A r \in Requests : request'[r].stage = request[r].stage
    BY <1>0, <1>2, ChangeKeeps
  <2>3. ProcessInv'
    BY <1>0, <2>1, <2>2 DEF ProcessInv
  <2>4. authority' \subseteq Facts /\ changes' \in 0..MaxChanges
    BY <1>0, <1>2, GatewayAssumption DEF ChangeAuthority, TypeOK
  <2>5. \A r \in Requests : Observed(r, authority') \in Progress
    BY <1>0, <2>4, ZenonT(60) DEF Observed, TypeOK, Progress
  <2>6. TypeOK'
    BY <1>0, <1>2, <2>1, <2>4, <2>5 DEF TypeOK, ChangeAuthority
  <2>7. \A r \in Requests : (RequestInv(request[r]) /\ Composed(request[r]))'
    BY <1>0, <1>2, ChangeKeeps DEF Composed
  <2>8. PoolsInv'
    BY <1>0, <2>1, PoolsFrame
  <2> QED
    BY <2>3, <2>6, <2>7, <2>8 DEF IInv
<1>3. ASSUME NEW r \in Requests, Step(r) PROVE IInv'
  <2>1. ASSUME NEW t \in Requests PROVE (RequestInv(request[t]) /\ Composed(request[t]))'
    <3>1. t # r => request'[t] = request[t]
      BY <1>0, <1>3, StepFrame
    <3> QED
      BY <1>0, <1>3, <3>1, StepKeeps, StepKeepsComposed DEF Composed
  <2>2. PoolsInv'
    BY <1>0, <1>3, StepFrame, PoolsFrame
  <2> QED
    BY <1>0, <1>3, <2>1, <2>2, StepKeepsProcess DEF IInv
<1>4. CASE UNCHANGED vars
  <2>1. UNCHANGED <<config, phase, clients, pool, owned, draining, authority, changes, request>>
    BY <1>4 DEF vars
  <2>2. \A r \in Requests : (RequestInv(request[r]) /\ Composed(request[r]))'
    BY <1>0, <2>1, SameRules DEF Composed
  <2>3. TypeOK'
    BY <1>0, <2>1 DEF TypeOK
  <2>4. ProcessInv'
    BY <1>0, <2>1 DEF ProcessInv, Recorded
  <2>5. PoolsInv'
    BY <1>0, <2>1, PoolsFrame
  <2> QED
    BY <2>2, <2>3, <2>4, <2>5 DEF IInv
<1> QED
  BY <1>1, <1>2, <1>3, <1>4 DEF Next

LEMMA Invariance == Spec => []IInv
<1> QED
  BY InitHolds, NextKeeps, PTL DEF Spec

-----------------------------------------------------------------------------
(* The results. *)

(* The process, the authorities and every request are what they can be. *)
THEOREM TypeCorrect == Spec => []TypeOK
<1>1. IInv => TypeOK
  BY DEF IInv
<1> QED
  BY <1>1, Invariance, PTL

(* No protected work is done unless each fact it needs has held since the
   request arrived, whatever the authorities do while it is resolved. *)
THEOREM WorkIsAuthorised == Spec => []EffectsAreAuthorised
<1>1. IInv => EffectsAreAuthorised
  <2> SUFFICES ASSUME IInv, NEW r \in Requests, request[r].effect # "none", Protected(Shape(r))
               PROVE  /\ Verified => /\ Genuine(Shape(r)) /\ Needed(Shape(r)) \subseteq request[r].held
                                     /\ request[r].effect # "header"
                      /\ ~Verified /\ config.enforced /\ Shape(r).route \in Writes =>
                           Shape(r).marker /\ Shape(r).capability /\ Shape(r).route \in config.rules
    BY DEF EffectsAreAuthorised
  <2> DEFINE q == request[r]
  <2>1. /\ RequestInv(q) /\ q.shape = Shape(r)
        /\ PastMiddleware(q) /\ q.read \subseteq q.held
    BY DEF IInv, RequestInv, Authorised, Remembers, Shape
  <2>2. ASSUME Verified
        PROVE  Genuine(q.shape) /\ Needed(q.shape) \subseteq q.held /\ q.effect # "header"
    BY <2>1, <2>2 DEF RequestInv, Authorised, PastMiddleware, Principal
  <2>3. ASSUME ~Verified, config.enforced, q.shape.route \in Writes
        PROVE  q.shape.marker /\ q.shape.capability /\ q.shape.route \in config.rules
    <3>1. Boots(config)
      BY DEF IInv, ProcessInv, RequestInv, Unanswered, Fresh
    <3>2. config.secret /\ config.authz
      BY <2>3, <3>1 DEF Boots, BankConfigured
    <3> QED
      BY <2>1, <2>3, <3>2
      DEF PastMiddleware, IngressFails, IngressRequired, HeadersFail, HasCapability
  <2> QED
    BY <2>1, <2>2, <2>3
<1> QED
  BY <1>1, Invariance, PTL

(* A genuine caller is refused for its entitlements only if one that its
   request needs was lacking since it arrived. *)
THEOREM RefusalsAreJustified == Spec => []RefusalsAreTimely
<1>1. IInv => RefusalsAreTimely
  BY DEF IInv, RequestInv, Timely, TimelyAnswer, RefusalsAreTimely, Shape
<1> QED
  BY <1>1, Invariance, PTL

(* The audit trail tells what was decided and names nobody else. *)
THEOREM AuditIsTrue == Spec => []AuditTellsTheDecision
<1>1. IInv => AuditTellsTheDecision
  BY DEF IInv, RequestInv, Audited, AuditedAnswer, AuditTellsTheDecision, Shape
<1> QED
  BY <1>1, Invariance, PTL

(* A request that is served finds its clients on open pools until it has
   ended; a process that stops owns nothing, and leaves no pool open but the
   one whose client refused its base URL. *)
THEOREM PoolsOutliveRequests == Spec => []PoolsServeRequests
<1>1. IInv => PoolsServeRequests
  <2> SUFFICES ASSUME IInv PROVE PoolsServeRequests
    OBVIOUS
  <2>0. TypeOK /\ ProcessInv /\ PoolsInv
    BY DEF IInv
  <2>1. ASSUME NEW r \in Requests, request[r].stage = "working",
               NEW p \in HandlerOf(Shape(r).route).clients
        PROVE  Usable(p)
    <3>1. clients = Pools /\ p \in Pools
      BY <2>1, ClientsAreThere DEF IInv, InFlight
    <3> QED
      BY <2>0, <3>1 DEF Usable, ProcessInv, PoolsInv
  <2>2. \A r \in Requests : request[r].answer # "uncomposed"
    BY DEF IInv, Composed
  <2>3. ASSUME phase = "stopped"
        PROVE  /\ owned = <<>> /\ clients = config.injected
               /\ \A p \in Pools : pool[p] = "open" => Unrecorded(p)
    <3>1. owned = <<>>
      BY <2>0, <2>3 DEF ProcessInv
    <3>2. Recorded = {}
      BY <3>1 DEF Recorded
    <3> QED
      BY <2>0, <3>1, <3>2 DEF ProcessInv, Unrecorded
  <2>4. phase = "stopped" =>
          /\ \A p \in Pools : pool[p] = "open" => p \notin config.urls
          /\ \A p, q \in Pools : pool[p] = "open" /\ pool[q] = "open" => p = q
    BY <2>0, <2>3 DEF PoolsInv
  <2> QED
    BY <2>1, <2>2, <2>3, <2>4 DEF PoolsServeRequests
<1> QED
  BY <1>1, Invariance, PTL
=============================================================================
