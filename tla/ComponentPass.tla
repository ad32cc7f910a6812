--------------------------- MODULE ComponentPass ---------------------------
(***************************************************************************)
(* The components of a NetEye pass: how the pass puts them in order, and   *)
(* what each of them does, step by step.                                   *)
(*                                                                         *)
(* "identity" brings Keycloak up in stages: certificate, instance, route,  *)
(* the configuration of the master realm, the accounts, the rest.  Behind  *)
(* each stage stands somebody else (cert-manager, the Keycloak operator,   *)
(* the controllers of KeycloakResources) whose progress the pass looks at  *)
(* and never waits for.  "edot-gateway" and "otel-collector" each run a    *)
(* Deployment whose annotations carry the versions of what it was          *)
(* configured from, so that a change of a Secret restarts it.              *)
(*                                                                         *)
(* Objects of typed kinds are read from informer copies.                   *)
(***************************************************************************)
EXTENDS Naturals, Sequences, FiniteSets

CONSTANTS
    Setups      \* the configurations a NetEye starts from

\* The identifiers of the components in their alphabetical order.
Identifiers == <<"edot-gateway", "identity", "otel-collector">>

Components == {Identifiers[i] : i \in 1..Len(Identifiers)}

Telemetry == {"edot-gateway", "otel-collector"}

\* What may happen to the cluster from outside.
DisturbanceKinds ==
    {"item", "instance", "issuer", "route", "declaration", "realm", "controller", "enabled",
     "secret", "config", "deployment"}

\* A setup: the dependencies of each component in the graph, whether the Elastic
\* Stack is enabled, whether Keycloak came with a bootstrap account, and the
\* disturbances that may come, each once.
ASSUME ComponentPassAssumption ==
    \A s \in Setups :
        /\ s.graph \in UNION {[D -> SUBSET Components] : D \in (SUBSET Components) \ {{}}}
        /\ s.enabled \in BOOLEAN
        /\ s.bootstrap \in BOOLEAN
        /\ s.disturbances \subseteq DisturbanceKinds

VARIABLES
    graph,      \* the dependencies between components
    enabled,    \* spec.elasticStack.enabled
    bootstrap,  \* Kubernetes: the Secret of the bootstrap account exists
    asked,      \* the same in the copy that the pass works from
    issuer,     \* Kubernetes: the Issuer of certificates exists
    applied,    \* Kubernetes: objects that others bring up
    service,    \* Kubernetes: the Service the Keycloak operator creates
    lost,       \* history: the Keycloak instance was deleted during the pass
    route,      \* Kubernetes: the HTTPRoute to it
    decl,       \* Kubernetes: the Keycloak resources the pass declares
    seenDecl,   \* the informer copies
    policy,     \* Keycloak: the password policy of the master realm
    minted,     \* Keycloak: the policy each account got its password under
    secret,     \* Kubernetes: the version of the Secrets telemetry requires
    seenSecret, \* the informer copy
    config,     \* Kubernetes: the ConfigMap of each telemetry component
    seenConfig, \* the informer copies
    dep,        \* Kubernetes: the Deployment of each telemetry component
    seenDep,    \* the informer copies
    at,         \* the step the pass takes next
    order,      \* the components in the order of the pass
    turn,       \* the place of the component whose turn it is
    results,    \* the results of the components before it
    version,    \* the version of the Secrets that the component has read
    status,     \* Kubernetes: what the NetEye's status says
    budget,     \* disturbances that may still come
    settled     \* no fault, crash or disturbance happens any more

identityVars == <<applied, service, route, decl, seenDecl, policy, minted>>
telemetryVars == <<secret, seenSecret, config, seenConfig, dep, seenDep>>
workerVars == <<at, order, turn, results, version, asked, lost>>
adminVars == <<graph, enabled, bootstrap, issuer, budget, settled>>
vars == <<graph, enabled, bootstrap, issuer, applied, service, route, decl, seenDecl,
          policy, minted, secret, seenSecret, config, seenConfig, dep, seenDep,
          at, order, turn, results, version, asked, lost, status, budget, settled>>

-----------------------------------------------------------------------------
(***************************************************************************)
(* The lifecycle graph.                                                    *)
(***************************************************************************)

\* The first in the alphabet.
First(S) == Identifiers[CHOOSE i \in 1..Len(Identifiers) :
                           /\ Identifiers[i] \in S
                           /\ \A j \in 1..(i - 1) : Identifiers[j] \notin S]

\* Of the components whose dependencies have come, the first in the alphabet is
\* next.
Orders(g) ==
    {s \in [1..Cardinality(DOMAIN g) -> DOMAIN g] :
        \A i \in DOMAIN s :
            LET come == {s[j] : j \in 1..(i - 1)}
                ready == {c \in DOMAIN g \ come : g[c] \subseteq come}
            IN ready # {} /\ s[i] = First(ready)}

\* Mutant: the order of the identifiers, whatever depends on what.
setOrderAlphabetical(g) == SelectSeq(Identifiers, LAMBDA c : c \in DOMAIN g)

setOrder(g) == CHOOSE s \in Orders(g) : TRUE

\* Unknown dependencies are refused, and cycles, which never get their turn.
newLifecycleGraph(g) ==
    /\ \A c \in DOMAIN g : g[c] \subseteq DOMAIN g
    /\ Orders(g) # {}

blockingDependenciesForNode(c) ==
    {d \in graph[c] : d \notin DOMAIN results \/ results[d] # "Ready"}

aggregateComponentPhase(r) ==
    IF \E c \in DOMAIN r : r[c] = "Degraded" THEN "Failed"
    ELSE IF \E c \in DOMAIN r : r[c] \in {"Progressing", "Blocked"} THEN "NotReady"
    ELSE "Ready"

\* The state of a telemetry service in the status, under the results r of a pass
\* that found the Elastic Stack enabled or not.  Every pass starts with "Unknown",
\* which a component that did not run leaves.
ServiceState(r, on, c) ==
    CASE c \notin DOMAIN r -> "Unknown"
      [] c \in DOMAIN r /\ r[c] = "Blocked" -> "Unknown"
      [] c \in DOMAIN r /\ r[c] = "Ready" -> IF on THEN "Ready" ELSE "Disabled"
      [] c \in DOMAIN r /\ r[c] = "Progressing" -> "NotReady"
      [] c \in DOMAIN r /\ r[c] = "Degraded" -> "Failed"

aggregateElasticStackStatus(states) ==
    IF states = {"Disabled"} THEN "Disabled"
    ELSE IF "Failed" \in states THEN "Failed"
    ELSE IF states \subseteq {"Ready"} THEN "Ready" ELSE "NotReady"

-----------------------------------------------------------------------------
(***************************************************************************)
(* State.                                                                  *)
(***************************************************************************)

\* The objects others bring up: the certificate of the route, the Keycloak
\* instance, the certificates and routes of the collector.
Items == {"certificate", "keycloak", "routes"}

Accounts == {"admin", "root"}

\* Both flows are declared alike, one after the other, and stand as one here.
Declared == {"realm", "client", "flows"} \cup Accounts

\* "spec" is the password policy that a KeycloakRealm asks for.
Undeclared == [there |-> FALSE, ready |-> FALSE, spec |-> "declared"]

NoConfig == [there |-> FALSE, version |-> 0, asRendered |-> FALSE]

NoDeployment == [there |-> FALSE, secret |-> 0, config |-> 0, rolledOut |-> FALSE]

NoResults == [c \in {} |-> "Ready"]

\* A Keycloak without a bootstrap account was there before the operator, and so
\* were its accounts.
Init ==
    /\ \E s \in Setups : /\ graph = s.graph /\ enabled = s.enabled
                         /\ bootstrap = s.bootstrap /\ budget = s.disturbances
    /\ issuer = TRUE
    /\ applied = [x \in Items |-> "absent"]
    /\ service = FALSE
    /\ route = FALSE
    /\ decl = [r \in Declared |-> Undeclared] /\ seenDecl = decl
    /\ policy = "original"
    /\ minted = [u \in Accounts |-> IF bootstrap THEN "none" ELSE "migrated"]
    /\ secret = [there |-> TRUE, version |-> 1] /\ seenSecret = secret
    /\ config = [c \in Telemetry |-> NoConfig] /\ seenConfig = config
    /\ dep = [c \in Telemetry |-> NoDeployment] /\ seenDep = dep
    /\ at = "idle"
    /\ order = << >>
    /\ turn = 1
    /\ results = NoResults
    /\ version = 0
    /\ asked = enabled
    /\ lost = FALSE
    /\ status = [phase |-> "", elastic |-> "Unknown"]
    /\ settled = FALSE

-----------------------------------------------------------------------------
(***************************************************************************)
(* The frame of a pass.                                                    *)
(***************************************************************************)

Goto(step) ==
    /\ at' = step
    /\ UNCHANGED <<order, turn, results, version, asked, lost>>

\* The result of the component whose turn it is.
Current == order[turn]

Record(state) ==
    /\ results' = [c \in DOMAIN results \cup {Current} |->
                     IF c = Current THEN state ELSE results[c]]
    /\ turn' = turn + 1
    /\ at' = "component"
    /\ version' = 0
    /\ UNCHANGED <<order, asked, lost>>

\* A step that only looks.
Looks == UNCHANGED <<identityVars, telemetryVars, adminVars, status>>

\* The pass works from the copy of the NetEye it starts with.
Reconcile ==
    /\ at = "idle"
    /\ at' = "reconcileBaseResources"
    /\ asked' = enabled
    /\ lost' = FALSE
    /\ UNCHANGED <<order, turn, results, version>>
    /\ Looks

\* A pass that ends before any component had its turn.
EndsEarly == at' = "updateStatus" /\ UNCHANGED <<order, turn, results, version, asked, lost>>

\* What all components share, the Issuer first: without it, or when a call fails,
\* the pass ends, and so it does with a graph that cannot be built.
reconcileBaseResources ==
    /\ at = "reconcileBaseResources"
    /\ \/ /\ issuer /\ newLifecycleGraph(graph)
          /\ at' = "component" /\ order' = setOrder(graph)
          /\ UNCHANGED <<turn, results, version, asked, lost>>
       \/ ~issuer /\ EndsEarly
       \/ ~newLifecycleGraph(graph) /\ EndsEarly
       \/ ~settled /\ EndsEarly
    /\ Looks

\* One round of runComponentOperations.
runComponentOperations ==
    /\ at = "component" /\ turn <= Len(order)
    /\ IF blockingDependenciesForNode(Current) # {} THEN Record("Blocked")
       ELSE Goto(IF Current = "identity" THEN "EnsureIssuerExists"
                 ELSE IF asked THEN "requiredSecretResourceVersion" ELSE "Delete")
    /\ Looks

AllDone ==
    /\ at = "component" /\ turn > Len(order)
    /\ Goto("updateStatus")
    /\ Looks

\* What the status says of a pass that ended with the results r.
Verdict(r, on) ==
    IF DOMAIN r = DOMAIN graph
    THEN [phase |-> aggregateComponentPhase(r),
          elastic |-> aggregateElasticStackStatus({ServiceState(r, on, c) : c \in Telemetry})]
    ELSE [phase |-> "Failed", elastic |-> "Unknown"]

\* Mutant: the next pass goes on where this one ended.
EndPassInPlace ==
    /\ at' = "idle"
    /\ order' = << >>
    /\ turn' = turn
    /\ results' = NoResults
    /\ version' = 0
    /\ asked' = asked
    /\ lost' = FALSE

EndPass ==
    /\ at' = "idle"
    /\ order' = << >>
    /\ turn' = 1
    /\ results' = NoResults
    /\ version' = 0
    /\ asked' = asked
    /\ lost' = FALSE

\* The deferred write of the status.
updateStatus ==
    /\ at = "updateStatus"
    /\ \/ status' = Verdict(results, asked)
       \/ ~settled /\ status' = status
    /\ EndPass
    /\ UNCHANGED <<identityVars, telemetryVars, adminVars>>

-----------------------------------------------------------------------------
(***************************************************************************)
(* The identity component: reconcileKeycloak.                              *)
(***************************************************************************)

\* The Issuer may have gone since reconcileBaseResources looked.
EnsureIssuerExists ==
    /\ at = "EnsureIssuerExists"
    /\ IF issuer THEN Goto("EnsureCertificate") ELSE Record("Degraded")
    /\ Looks

\* Apply: what is missing is created, and comes up in its own time.  (That what
\* differs is corrected is in Platform.)
Ensure(x, step, next) ==
    /\ at = step
    /\ applied' = [applied EXCEPT ![x] = IF @ = "absent" THEN "pending" ELSE @]
    /\ Goto(next)
    /\ UNCHANGED <<service, route, decl, seenDecl, policy, minted,
                   telemetryVars, adminVars, status>>

\* A look at how far something has come: go on, or try again in a later pass.
Gate(ready, step, next) ==
    /\ at = step
    /\ IF ready THEN Goto(next) ELSE Record("Progressing")
    /\ Looks

EnsureCertificate == Ensure("certificate", "EnsureCertificate", "IsCertificateReady")

IsCertificateReady ==
    Gate(applied["certificate"] = "ready", "IsCertificateReady", "EnsureInstance")

\* Mutant: goes on to the route without a look at the instance.
EnsureInstanceOnly == Ensure("keycloak", "EnsureInstance", "EnsureHTTPRoute")

EnsureInstance == Ensure("keycloak", "EnsureInstance", "IsReady")

IsReady(step, next) == Gate(applied["keycloak"] = "ready", step, next)

EnsureHTTPRoute ==
    /\ at = "EnsureHTTPRoute"
    /\ route' = TRUE
    /\ Goto("IsReadyAgain")
    /\ UNCHANGED <<applied, service, decl, seenDecl, policy, minted,
                   telemetryVars, adminVars, status>>

\* Creates a resource that the informer does not show; that it exists after all
\* is no error.
Declare(r, step, next) ==
    /\ at = step
    /\ decl' = IF decl[r].there \/ seenDecl[r].there THEN decl
               ELSE [decl EXCEPT ![r] = [Undeclared EXCEPT !.there = TRUE]]
    /\ Goto(next)
    /\ UNCHANGED <<applied, service, route, seenDecl, policy, minted,
                   telemetryVars, adminVars, status>>

\* Mutant: declares the first account without waiting for the realm.
EnsureMasterRealmOnly == Declare("realm", "EnsureMasterRealm", "EnsureInternalAdminUser")

EnsureMasterRealm == Declare("realm", "EnsureMasterRealm", "IsRealmReady")

\* Neither check compares generations: a status written for an earlier spec, or
\* an old copy, will do.
IsRealmReady ==
    Gate(seenDecl["realm"].there /\ seenDecl["realm"].ready,
         "IsRealmReady", "EnsureInternalAdminUser")

IsUserReady(u, step, next) == Gate(seenDecl[u].there /\ seenDecl[u].ready, step, next)

EnsureInternalAdminUser == Declare("admin", "EnsureInternalAdminUser", "IsAdminReady")

EnsureRootUser == Declare("root", "EnsureRootUser", "IsRootReady")

EnsureNetEyeClient == Declare("client", "EnsureNetEyeClient", "ensureAuthFlow")

ensureAuthFlow == Declare("flows", "ensureAuthFlow", "EnsureBootstrapAdminDisabled")

\* What happens to the account is in AdminAccess; an error is no failure, and a
\* Secret that is not there is an error.
EnsureBootstrapAdminDisabled ==
    /\ at = "EnsureBootstrapAdminDisabled"
    /\ \/ bootstrap /\ Record("Ready")
       \/ ~bootstrap /\ Record("Progressing")
       \/ ~settled /\ Record("Progressing")
    /\ Looks

reconcileKeycloak ==
    \/ EnsureIssuerExists \/ EnsureCertificate \/ IsCertificateReady \/ EnsureInstance
    \/ IsReady("IsReady", "EnsureHTTPRoute") \/ EnsureHTTPRoute
    \/ IsReady("IsReadyAgain", "EnsureMasterRealm")
    \/ EnsureMasterRealm \/ IsRealmReady
    \/ EnsureInternalAdminUser \/ IsUserReady("admin", "IsAdminReady", "EnsureRootUser")
    \/ EnsureRootUser \/ IsUserReady("root", "IsRootReady", "EnsureNetEyeClient")
    \/ EnsureNetEyeClient \/ ensureAuthFlow
    \/ EnsureBootstrapAdminDisabled

-----------------------------------------------------------------------------
(***************************************************************************)
(* The telemetry components.                                               *)
(***************************************************************************)

\* The Secrets a component requires, taken together; one that lacks its key is as
\* good as missing.
requiredSecretResourceVersion ==
    /\ at = "requiredSecretResourceVersion"
    /\ IF ~seenSecret.there THEN Record("Degraded")
       ELSE /\ at' = "EnsureConfigMap"
            /\ version' = seenSecret.version
            /\ UNCHANGED <<order, turn, results, asked, lost>>
    /\ Looks

\* A write from a copy that is out of date is refused.
EnsureConfigMap ==
    LET c == Current
        rendered == [there |-> TRUE, version |-> config[c].version + 1, asRendered |-> TRUE]
    IN /\ at = "EnsureConfigMap"
       /\ \/ seenConfig[c].asRendered /\ config' = config /\ Goto("configMapResourceVersion")
          \/ /\ ~seenConfig[c].asRendered /\ config[c] = seenConfig[c]
             /\ config' = [config EXCEPT ![c] = rendered]
             /\ Goto("configMapResourceVersion")
          \/ /\ ~seenConfig[c].asRendered /\ config[c] # seenConfig[c]
             /\ config' = config /\ Record("Degraded")
       /\ UNCHANGED <<identityVars, secret, seenSecret, seenConfig, dep, seenDep,
                      adminVars, status>>

\* Right after the creation the informer may not show the ConfigMap yet.
configMapResourceVersion ==
    /\ at = "configMapResourceVersion"
    /\ IF ~seenConfig[Current].there THEN Record("Degraded") ELSE Goto("EnsureDeployment")
    /\ Looks

\* Mutant: annotates the Deployment when it is created, not later.
EnsureDeploymentOnce ==
    LET c == Current
        rendered == [there |-> TRUE, secret |-> version, config |-> seenConfig[c].version,
                     rolledOut |-> FALSE]
    IN /\ at = "EnsureDeployment"
       /\ dep' = IF dep[c].there THEN dep ELSE [dep EXCEPT ![c] = rendered]
       /\ Goto(IF c = "otel-collector" THEN "EnsureRoutes" ELSE "IsDeploymentReady")
       /\ UNCHANGED <<identityVars, secret, seenSecret, config, seenConfig, seenDep,
                      adminVars, status>>

\* The stored spec has defaults the rendered one lacks, so the comparison always
\* finds a difference and the update is always sent; one that changes nothing
\* leaves the Deployment as it is.
EnsureDeployment ==
    LET c == Current
        rendered == [there |-> TRUE, secret |-> version, config |-> seenConfig[c].version,
                     rolledOut |-> FALSE]
        same == [rendered EXCEPT !.rolledOut = dep[c].rolledOut] = dep[c]
    IN /\ at = "EnsureDeployment"
       /\ \/ /\ dep[c] = seenDep[c]
             /\ dep' = IF same THEN dep ELSE [dep EXCEPT ![c] = rendered]
             /\ Goto(IF c = "otel-collector" THEN "EnsureRoutes" ELSE "IsDeploymentReady")
          \/ dep[c] # seenDep[c] /\ dep' = dep /\ Record("Degraded")
       /\ UNCHANGED <<identityVars, secret, seenSecret, config, seenConfig, seenDep,
                      adminVars, status>>

\* Certificates and routes of the collector, and whether they are ready.
EnsureRoutes == Ensure("routes", "EnsureRoutes", "routeReady")

routeReady == Gate(applied["routes"] = "ready", "routeReady", "IsDeploymentReady")

\* The generation is compared, but of the informer's copy.
IsDeploymentReady ==
    /\ at = "IsDeploymentReady"
    /\ Record(IF seenDep[Current].there /\ seenDep[Current].rolledOut THEN "Ready" ELSE "Progressing")
    /\ Looks

\* A deleted ConfigMap that is created again has a version it never had before.
Gone(c) == [config EXCEPT ![c] = [NoConfig EXCEPT !.version = config[c].version]]

\* deleteOwnedResources, in the order of the inventory; an error leaves the rest.
Delete ==
    LET c == Current
        routes == IF c = "otel-collector" THEN [applied EXCEPT !["routes"] = "absent"] ELSE applied
    IN /\ at = "Delete"
       /\ \/ /\ config' = Gone(c)
             /\ dep' = [dep EXCEPT ![c] = NoDeployment]
             /\ applied' = routes
             /\ Record("Ready")
          \/ /\ ~settled
             /\ \/ UNCHANGED <<config, dep>>
                \/ config' = Gone(c) /\ dep' \in {dep, [dep EXCEPT ![c] = NoDeployment]}
             /\ Record("Degraded")
             /\ UNCHANGED applied
       /\ UNCHANGED <<service, route, decl, seenDecl, policy, minted,
                      secret, seenSecret, seenConfig, seenDep, adminVars, status>>

telemetryEnsure ==
    \/ requiredSecretResourceVersion \/ EnsureConfigMap \/ configMapResourceVersion
    \/ EnsureDeployment \/ EnsureRoutes \/ routeReady \/ IsDeploymentReady \/ Delete

-----------------------------------------------------------------------------
(***************************************************************************)
(* Everybody else.                                                         *)
(***************************************************************************)

PassStep ==
    \/ Reconcile \/ reconcileBaseResources \/ runComponentOperations \/ AllDone \/ updateStatus
    \/ reconcileKeycloak \/ telemetryEnsure

\* A call that fails degrades the component; the others still get their turn.
CallFails ==
    /\ ~settled
    /\ at \notin {"idle", "reconcileBaseResources", "component", "updateStatus",
                  "EnsureBootstrapAdminDisabled", "Delete"}
    /\ Record("Degraded")
    /\ Looks

\* A new process lists everything anew.
Crash ==
    /\ ~settled
    /\ EndPass
    /\ seenDecl' = decl /\ seenSecret' = secret /\ seenConfig' = config /\ seenDep' = dep
    /\ UNCHANGED <<applied, service, route, decl, policy, minted, secret, config, dep,
                   adminVars, status>>

\* A disturbance of a kind comes at most once.
Spend(kind) ==
    /\ ~settled /\ kind \in budget
    /\ budget' = budget \ {kind}

Disturb(kind) ==
    /\ Spend(kind)
    /\ UNCHANGED <<graph, bootstrap, settled, service, policy, minted,
                   seenDecl, seenSecret, seenConfig, seenDep, workerVars, status>>

\* cert-manager, the Keycloak operator, the Gateway's controller.
ItemReady(x) ==
    /\ applied[x] = "pending"
    /\ applied' = [applied EXCEPT ![x] = "ready"]
    /\ service' = (service \/ x = "keycloak")
    /\ UNCHANGED <<route, decl, seenDecl, policy, minted, telemetryVars, workerVars,
                   adminVars, status>>

\* Something falls back, or is deleted by hand; so the instance, see below.
ItemLost(x) ==
    /\ applied[x] = "ready"
    /\ \/ applied' = [applied EXCEPT ![x] = "pending"]
       \/ x # "keycloak" /\ applied' = [applied EXCEPT ![x] = "absent"]
    /\ Disturb("item")
    /\ UNCHANGED <<enabled, issuer, route, decl, secret, config, dep>>

\* The instance is deleted by hand, and its Service goes with it; the database
\* keeps what is in Keycloak, and the route stays.
InstanceDeleted ==
    /\ applied["keycloak"] # "absent"
    /\ applied' = [applied EXCEPT !["keycloak"] = "absent"]
    /\ service' = FALSE
    /\ lost' = TRUE
    /\ Spend("instance")
    /\ UNCHANGED <<graph, enabled, bootstrap, issuer, settled, route, decl, seenDecl, policy,
                   minted, telemetryVars, at, order, turn, results, version, asked, status>>

IssuerToggled ==
    /\ issuer' = ~issuer
    /\ Disturb("issuer")
    /\ UNCHANGED <<enabled, applied, route, decl, secret, config, dep>>

RouteDeleted ==
    /\ route /\ route' = FALSE
    /\ Disturb("route")
    /\ UNCHANGED <<enabled, issuer, applied, decl, secret, config, dep>>

\* A pass of the KeycloakRealm controller, whose status may fail to be written.
RealmController ==
    /\ decl["realm"].there /\ applied["keycloak"] = "ready"
    /\ policy' = decl["realm"].spec
    /\ \/ decl' = [decl EXCEPT !["realm"].ready = TRUE]
       \/ ~settled /\ decl' = decl
    /\ UNCHANGED <<applied, service, route, seenDecl, minted, telemetryVars, workerVars,
                   adminVars, status>>

\* A pass of the KeycloakUser controller: an account that exists keeps its
\* password.
UserController(u) ==
    /\ decl[u].there /\ applied["keycloak"] = "ready"
    /\ minted' = [minted EXCEPT ![u] = IF @ = "none" THEN policy ELSE @]
    /\ \/ decl' = [decl EXCEPT ![u].ready = TRUE]
       \/ ~settled /\ decl' = decl
    /\ UNCHANGED <<applied, service, route, seenDecl, policy, telemetryVars, workerVars,
                   adminVars, status>>

\* A pass of either that could not reach Keycloak says so.
ControllerFailed(r) ==
    /\ decl[r].ready
    /\ decl' = [decl EXCEPT ![r].ready = FALSE]
    /\ Disturb("controller")
    /\ UNCHANGED <<enabled, issuer, applied, route, secret, config, dep>>

\* The deletion policy of every declared resource is Orphan: Keycloak keeps what
\* it has.
DeclarationDeleted(r) ==
    /\ decl[r].there
    /\ decl' = [decl EXCEPT ![r] = Undeclared]
    /\ Disturb("declaration")
    /\ UNCHANGED <<enabled, issuer, applied, route, secret, config, dep>>

\* An administrator asks for another password policy; the status stays as it was
\* until the controller's next pass.
RealmEdited ==
    /\ decl["realm"].there
    /\ decl' = [decl EXCEPT !["realm"].spec = "edited"]
    /\ Disturb("realm")
    /\ UNCHANGED <<enabled, issuer, applied, route, secret, config, dep>>

EnabledToggled ==
    /\ enabled' = ~enabled
    /\ Disturb("enabled")
    /\ UNCHANGED <<issuer, applied, route, decl, secret, config, dep>>

\* The Secrets get other contents, or go missing.
SecretChanged ==
    /\ secret' \in {[there |-> b, version |-> secret.version + 1] : b \in BOOLEAN}
    /\ Disturb("secret")
    /\ UNCHANGED <<enabled, issuer, applied, route, decl, config, dep>>

\* A ConfigMap is edited or deleted by hand.
ConfigChanged(c) ==
    /\ config[c].there
    /\ config' \in {Gone(c),
                    [config EXCEPT ![c] = [there |-> TRUE, version |-> @.version + 1,
                                           asRendered |-> FALSE]]}
    /\ Disturb("config")
    /\ UNCHANGED <<enabled, issuer, applied, route, decl, secret, dep>>

\* A Deployment is deleted by hand, or its pods fail.
DeploymentLost(c) ==
    /\ dep[c].there
    /\ dep' \in {[dep EXCEPT ![c] = NoDeployment], [dep EXCEPT ![c].rolledOut = FALSE]}
    /\ Disturb("deployment")
    /\ UNCHANGED <<enabled, issuer, applied, route, decl, secret, config>>

Rollout(c) ==
    /\ dep[c].there /\ ~dep[c].rolledOut
    /\ dep' = [dep EXCEPT ![c].rolledOut = TRUE]
    /\ UNCHANGED <<identityVars, secret, seenSecret, config, seenConfig, seenDep, workerVars,
                   adminVars, status>>

\* The informers catch up, kind by kind.
SyncDeclared(r) ==
    /\ seenDecl[r] # decl[r]
    /\ seenDecl' = [seenDecl EXCEPT ![r] = decl[r]]
    /\ UNCHANGED <<applied, service, route, decl, policy, minted, telemetryVars, workerVars,
                   adminVars, status>>

SyncSecret ==
    /\ seenSecret # secret
    /\ seenSecret' = secret
    /\ UNCHANGED <<identityVars, secret, config, seenConfig, dep, seenDep, workerVars,
                   adminVars, status>>

SyncConfig(c) ==
    /\ seenConfig[c] # config[c]
    /\ seenConfig' = [seenConfig EXCEPT ![c] = config[c]]
    /\ UNCHANGED <<identityVars, secret, seenSecret, config, dep, seenDep, workerVars,
                   adminVars, status>>

SyncDeployment(c) ==
    /\ seenDep[c] # dep[c]
    /\ seenDep' = [seenDep EXCEPT ![c] = dep[c]]
    /\ UNCHANGED <<identityVars, secret, seenSecret, config, seenConfig, dep, workerVars,
                   adminVars, status>>

Settle ==
    /\ ~settled
    /\ settled' = TRUE
    /\ UNCHANGED <<graph, enabled, bootstrap, issuer, budget,
                   identityVars, telemetryVars, workerVars, status>>

Disturbance ==
    \/ \E x \in Items : ItemLost(x)
    \/ InstanceDeleted
    \/ IssuerToggled
    \/ RouteDeleted
    \/ \E r \in Declared : DeclarationDeleted(r) \/ ControllerFailed(r)
    \/ RealmEdited
    \/ EnabledToggled
    \/ SecretChanged
    \/ \E c \in Telemetry : ConfigChanged(c) \/ DeploymentLost(c)

Next ==
    \/ PassStep
    \/ CallFails
    \/ Crash
    \/ \E x \in Items : ItemReady(x)
    \/ RealmController
    \/ \E u \in Accounts : UserController(u)
    \/ \E c \in Telemetry : Rollout(c) \/ SyncConfig(c) \/ SyncDeployment(c)
    \/ \E r \in Declared : SyncDeclared(r)
    \/ SyncSecret
    \/ Disturbance
    \/ Settle

Spec == Init /\ [][Next]_vars

\* The work queue keeps requeueing the NetEye, the controllers their resources;
\* watches deliver; faults and disturbances end.
Fairness ==
    /\ WF_vars(PassStep)
    /\ \A x \in Items : WF_vars(ItemReady(x))
    /\ WF_vars(RealmController)
    /\ \A u \in Accounts : WF_vars(UserController(u))
    /\ \A c \in Telemetry : /\ WF_vars(Rollout(c))
                            /\ WF_vars(SyncConfig(c))
                            /\ WF_vars(SyncDeployment(c))
    /\ \A r \in Declared : WF_vars(SyncDeclared(r))
    /\ WF_vars(SyncSecret)
    /\ WF_vars(Settle)

FairSpec == Spec /\ Fairness

-----------------------------------------------------------------------------
(***************************************************************************)
(* Properties.                                                             *)
(***************************************************************************)

IdentitySteps ==
    {"EnsureIssuerExists", "EnsureCertificate", "IsCertificateReady", "EnsureInstance",
     "IsReady", "EnsureHTTPRoute", "IsReadyAgain", "EnsureMasterRealm", "IsRealmReady",
     "EnsureInternalAdminUser", "IsAdminReady", "EnsureRootUser", "IsRootReady",
     "EnsureNetEyeClient", "ensureAuthFlow", "EnsureBootstrapAdminDisabled"}

TelemetrySteps ==
    {"requiredSecretResourceVersion", "EnsureConfigMap", "configMapResourceVersion",
     "EnsureDeployment", "EnsureRoutes", "routeReady", "IsDeploymentReady", "Delete"}

\* Every variable has its type, a step belongs to the component whose turn it is,
\* and there are results for exactly the components before it: a pass starts from
\* the first one, whatever became of the pass before.
TypeOK ==
    /\ {bootstrap, issuer, service, lost, route, enabled, asked, settled} \subseteq BOOLEAN
    /\ applied \in [Items -> {"absent", "pending", "ready"}]
    /\ {decl, seenDecl} \subseteq
         [Declared -> [there : BOOLEAN, ready : BOOLEAN, spec : {"declared", "edited"}]]
    /\ policy \in {"original", "declared", "edited"}
    /\ minted \in [Accounts -> {"none", "migrated", "original", "declared", "edited"}]
    /\ {secret, seenSecret} \subseteq [there : BOOLEAN, version : Nat]
    /\ {config, seenConfig} \subseteq
         [Telemetry -> [there : BOOLEAN, version : Nat, asRendered : BOOLEAN]]
    /\ {dep, seenDep} \subseteq
         [Telemetry -> [there : BOOLEAN, secret : Nat, config : Nat, rolledOut : BOOLEAN]]
    /\ version \in Nat
    /\ budget \subseteq DisturbanceKinds
    /\ at \in {"idle", "reconcileBaseResources", "component", "updateStatus"}
              \cup IdentitySteps \cup TelemetrySteps
    /\ at \in IdentitySteps => Current = "identity"
    /\ at \in TelemetrySteps => Current \in Telemetry
    /\ turn \in 1..(Len(order) + 1)
    /\ DOMAIN results = {order[i] : i \in 1..(turn - 1)}
    /\ \A c \in DOMAIN results : results[c] \in {"Ready", "Progressing", "Degraded", "Blocked"}

\* No account ever got its password under the policy the realm had before the
\* operator's: the realm is configured before an account is declared, through
\* crashes, stale copies, deleted declarations and a status that lags its spec
\* (reconcileKeycloak; Keycloak never checks a stored password again).
AccountsUnderPolicy == \A u \in Accounts : minted[u] # "original"

\* The HTTPRoute comes after the Service it leads to, which the Keycloak operator
\* creates late: no pass, however it was interrupted and whatever it finds, creates
\* the route first, unless somebody deletes the instance during that very pass (the
\* workaround in EnsureResources; afterwards nothing keeps the Service).
RouteAfterService == [][~route /\ route' => service \/ lost]_vars

\* Every set of components has one that waits for no other of them.
WellFounded ==
    /\ \A c \in DOMAIN graph : graph[c] \subseteq DOMAIN graph
    /\ \A S \in (SUBSET DOMAIN graph) \ {{}} : \E c \in S : graph[c] \cap S = {}

\* What c stands on, directly or not.
Above(c) == graph[c] \cup UNION {graph[d] : d \in graph[c]}

\* A complete pass leaves a component out exactly when something it stands on,
\* directly or not, is in trouble of its own: neither an unrelated component nor
\* the order of the identifiers holds it back (runComponentOperations, setOrder).
BlockedByTrouble ==
    at = "updateStatus" /\ order # << >> /\ WellFounded =>
        \A c \in DOMAIN graph :
            results[c] = "Blocked" <=> \E d \in Above(c) : results[d] \in {"Progressing", "Degraded"}

\* How component c fares once everything has come up that will.
Fares(c) ==
    IF c = "identity" THEN IF bootstrap THEN "Ready" ELSE "Progressing"
    ELSE IF ~enabled \/ secret.there THEN "Ready" ELSE "Degraded"

\* The results every pass ends with then.
Deserved ==
    [c \in DOMAIN graph |->
       IF \E d \in Above(c) : Fares(d) # "Ready" THEN "Blocked" ELSE Fares(c)]

IdentityUp ==
    /\ \A r \in Declared : decl[r].there
    /\ policy = decl["realm"].spec
    /\ \A u \in Accounts : minted[u] # "none"
    /\ service /\ route

\* The Deployment was started from the Secrets and the ConfigMap there are.
TelemetryUp(c) ==
    /\ config[c].there /\ config[c].asRendered
    /\ dep[c] = [there |-> TRUE, secret |-> secret.version, config |-> config[c].version,
                 rolledOut |-> TRUE]

TelemetryDown(c) == ~config[c].there /\ ~dep[c].there

\* Once faults and disturbances end, every component that can run comes up as
\* configured, a disabled one is taken down, no Deployment keeps running on old
\* Secrets or an old ConfigMap, and the status says how things stand for good.
\* Without the Issuer, or with a graph that cannot be built, it says so; without
\* a bootstrap account, identity comes up all the same and never counts as ready.
Converges ==
    <>[] IF issuer /\ WellFounded
         THEN /\ status = Verdict(Deserved, enabled)
              /\ \A c \in DOMAIN graph :
                   Deserved[c] \in {"Ready", "Progressing"} =>
                     IF c = "identity" THEN IdentityUp
                     ELSE IF enabled THEN TelemetryUp(c) ELSE TelemetryDown(c)
         ELSE status = [phase |-> "Failed", elastic |-> "Unknown"]

=============================================================================
