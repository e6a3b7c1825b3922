------------------------------- MODULE MCGateway -------------------------------
(***************************************************************************)
(* Small instances of Gateway: the configurations and the requests that    *)
(* tell its decisions apart.                                               *)
(***************************************************************************)
EXTENDS Gateway, TLC

RequestSymmetry == Permutations(Requests)

Deployment(posture, environment, enforced, secret, authz, rules) ==
  [posture |-> posture, environment |-> environment, enforced |-> enforced,
   complete |-> TRUE, secret |-> secret, authz |-> authz, rules |-> rules,
   verifier |-> TRUE, store |-> TRUE, injected |-> {},
   urls |-> Pools]

Bank     == Deployment("verified", "production", TRUE, TRUE, TRUE, SupportedWrites)
Trusting == Deployment("headerTrust", "dev", TRUE, TRUE, TRUE, SupportedWrites)
Local    == [Deployment("headerTrust", "local", FALSE, FALSE, FALSE, {})
               EXCEPT !.injected = {"core"}, !.urls = {"performance"}]

SmallConfigurations ==
  {Bank, Trusting, Local,
   [Local EXCEPT !.injected = Pools],
   [Local EXCEPT !.injected = {}, !.urls = {"core"}],
   [Local EXCEPT !.injected = {}, !.urls = {}],
   [Trusting EXCEPT !.environment = "production"],
   [Trusting EXCEPT !.rules = @ \ {"submitJob"}],
   [Trusting EXCEPT !.secret = FALSE],
   [Bank EXCEPT !.enforced = FALSE, !.rules = {"evaluate"}, !.injected = Pools],
   [Bank EXCEPT !.store = FALSE],
   [Bank EXCEPT !.verifier = FALSE]}

Plain == [route |-> "evaluate", marker |-> TRUE, oversized |-> FALSE, headers |-> TRUE,
          service |-> TRUE, capability |-> TRUE, bearer |-> "genuine", fits |-> TRUE,
          delegated |-> FALSE, scoped |-> FALSE, stateful |-> FALSE, tenant |-> "one"]

Stateful == [Plain EXCEPT !.route = "concentration", !.scoped = TRUE, !.stateful = TRUE]

SmallShapes ==
  {Plain, Stateful,
   [Stateful EXCEPT !.delegated = TRUE],
   [Stateful EXCEPT !.tenant = "none"],
   [Plain EXCEPT !.bearer = "missing", !.marker = FALSE],
   [Plain EXCEPT !.bearer = "forged", !.capability = FALSE],
   [Plain EXCEPT !.bearer = "undecodable", !.service = FALSE],
   [Plain EXCEPT !.fits = FALSE, !.oversized = TRUE],
   [Plain EXCEPT !.fits = FALSE],
   [Plain EXCEPT !.route = "calculate", !.stateful = TRUE],
   [Plain EXCEPT !.route = "mandate", !.marker = FALSE],
   [Plain EXCEPT !.route = "submitJob"],
   [Plain EXCEPT !.route = "readJob", !.tenant = "two"],
   [Plain EXCEPT !.route = "ops", !.marker = FALSE],
   [Plain EXCEPT !.route = "probe"]}
================================================================================
