------------------------ MODULE ComponentPassProofs ------------------------
(***************************************************************************)
(* Theorems about ComponentPass, for every set of setups.                  *)
(***************************************************************************)
EXTENDS ComponentPass, FiniteSetTheorems, TLAPS

-----------------------------------------------------------------------------
(***************************************************************************)
(* The components and their order.                                         *)
(***************************************************************************)

\* The three components by name.
LEMMA ComponentNames ==
    /\ Components = {"edot-gateway", "identity", "otel-collector"}
    /\ IsFiniteSet(Components)
    /\ \A c \in Components : c # "identity" => c \in Telemetry
  <1>1. /\ Len(Identifiers) = 3
        /\ Identifiers[1] = "edot-gateway"
        /\ Identifiers[2] = "identity"
        /\ Identifiers[3] = "otel-collector"
    BY DEF Identifiers
  <1>2. Components = {"edot-gateway", "identity", "otel-collector"}
    <2>1. 1..Len(Identifiers) = {1, 2, 3}
      BY <1>1
    <2> QED
      BY <1>1, <2>1 DEF Components
  <1>3. IsFiniteSet({"edot-gateway", "identity", "otel-collector"})
    <2>1. IsFiniteSet({"edot-gateway"})
      BY FS_Singleton
    <2>2. IsFiniteSet({"edot-gateway"} \cup {"identity"})
      BY <2>1, FS_AddElement
    <2>3. IsFiniteSet(({"edot-gateway"} \cup {"identity"}) \cup {"otel-collector"})
      BY <2>2, FS_AddElement
    <2>4. ({"edot-gateway"} \cup {"identity"}) \cup {"otel-collector"}
            = {"edot-gateway", "identity", "otel-collector"}
      OBVIOUS
    <2> QED
      BY <2>3, <2>4
  <1> QED
    BY <1>2, <1>3 DEF Telemetry

\* The order of a graph that can be built is a sequence of its components.
LEMMA OrderOfGraph ==
    ASSUME NEW g, DOMAIN g \subseteq Components, newLifecycleGraph(g)
    PROVE  setOrder(g) \in Seq(DOMAIN g) /\ setOrder(g) \in Orders(g)
  <1>1. setOrder(g) \in Orders(g)
    BY DEF newLifecycleGraph, setOrder
  <1>2. Cardinality(DOMAIN g) \in Nat
    BY ComponentNames, FS_Subset, FS_CardinalityType
  <1>3. setOrder(g) \in [1..Cardinality(DOMAIN g) -> DOMAIN g]
    BY <1>1 DEF Orders
  <1> QED
    BY <1>1, <1>2, <1>3

-----------------------------------------------------------------------------
(***************************************************************************)
(* Type correctness.                                                       *)
(***************************************************************************)

\* The parts of TypeOK: what the cluster and Keycloak hold ...
StoreType ==
    /\ {bootstrap, issuer, service, route, enabled, settled} \subseteq BOOLEAN
    /\ applied \in [Items -> {"absent", "pending", "ready"}]
    /\ {decl, seenDecl} \subseteq
         [Declared -> [there : BOOLEAN, ready : BOOLEAN, spec : {"declared", "edited"}]]
    /\ policy \in {"original", "declared", "edited"}
    /\ minted \in [Accounts -> {"none", "migrated", "original", "declared", "edited"}]
    /\ {secret, seenSecret} \subseteq [there : BOOLEAN, version : Nat]
    /\ {config, seenConfig} \subseteq
         [Telemetry -> [there : BOOLEAN, version : Nat, asRendered : BOOLEAN]]
    /\ {dep, seenDep} \subseteq
         [Telemetry -> [there : BOOLEAN, secret : Nat, config : Nat, rolledOut : BOOLEAN]]
    /\ budget \subseteq DisturbanceKinds

\* ... and the pass, with what the type alone does not say: the order is one of
\* the graph's components, a component at work has a place in it, and a pass
\* starts at its first place.
WorkerType ==
    /\ DOMAIN graph \subseteq Components
    /\ order \in Seq(DOMAIN graph)
    /\ version \in Nat
    /\ {asked, lost} \subseteq BOOLEAN
    /\ at \in {"idle", "reconcileBaseResources", "component", "updateStatus"}
              \cup IdentitySteps \cup TelemetrySteps
    /\ at \in IdentitySteps => turn <= Len(order) /\ Current = "identity"
    /\ at \in TelemetrySteps => turn <= Len(order) /\ Current \in Telemetry
    /\ turn \in 1..(Len(order) + 1)
    /\ at \in {"idle", "reconcileBaseResources"} => turn = 1 /\ order = << >>
    /\ DOMAIN results = {order[i] : i \in 1..(turn - 1)}
    /\ \A c \in DOMAIN results : results[c] \in {"Ready", "Progressing", "Degraded", "Blocked"}

LEMMA TypeParts == StoreType /\ WorkerType => TypeOK
  BY DEF StoreType, WorkerType, TypeOK

\* A worker step of the same component leads to another of its steps.
LEMMA GotoType ==
    ASSUME NEW next, WorkerType, Goto(next), graph' = graph,
           \/ next = "updateStatus"
           \/ next \in IdentitySteps /\ at \in IdentitySteps
           \/ next \in TelemetrySteps /\ at \in TelemetrySteps
    PROVE  WorkerType'
  <1>1. next \notin {"idle", "reconcileBaseResources"}
    BY DEF IdentitySteps, TelemetrySteps
  <1>2. next \in IdentitySteps => next \notin TelemetrySteps
    BY DEF IdentitySteps, TelemetrySteps
  <1>3. next = "updateStatus" => next \notin IdentitySteps \cup TelemetrySteps
    BY DEF IdentitySteps, TelemetrySteps
  <1> QED
    BY <1>1, <1>2, <1>3 DEF WorkerType, Goto, Current

\* A recorded result completes the turn of its component.
LEMMA RecordType ==
    ASSUME NEW state \in {"Ready", "Progressing", "Degraded", "Blocked"},
           WorkerType, Record(state), graph' = graph, turn <= Len(order)
    PROVE  WorkerType'
  <1>1. /\ turn \in Nat /\ turn >= 1 /\ turn' = turn + 1 /\ order' = order
        /\ at' = "component" /\ version' = 0 /\ asked' = asked /\ lost' = lost
        /\ Len(order) \in Nat
    BY DEF WorkerType, Record
  <1>2. at' \notin IdentitySteps \cup TelemetrySteps
    BY <1>1 DEF IdentitySteps, TelemetrySteps
  <1>3. DOMAIN results' = {order[i] : i \in 1..(turn - 1)} \cup {order[turn]}
    BY DEF WorkerType, Record, Current
  <1>4. DOMAIN results' = {order'[i] : i \in 1..(turn' - 1)}
    BY <1>1, <1>3
  <1>5. \A c \in DOMAIN results' : results'[c] \in {"Ready", "Progressing", "Degraded", "Blocked"}
    BY DEF WorkerType, Record
  <1> QED
    BY <1>1, <1>2, <1>4, <1>5 DEF WorkerType

\* A pass that ends, by itself or by a crash, leaves nothing to the next.
LEMMA EndPassType ==
    ASSUME WorkerType, EndPass, graph' = graph
    PROVE  WorkerType'
  <1>1. at' \notin IdentitySteps \cup TelemetrySteps
    BY DEF EndPass, IdentitySteps, TelemetrySteps
  <1>2. DOMAIN results' = {}
    BY DEF EndPass, NoResults
  <1>3. order' = << >> /\ order' \in Seq(DOMAIN graph) /\ Len(order') = 0 /\ turn' = 1
    BY DEF EndPass
  <1>4. 1..(turn' - 1) = {} /\ turn' \in 1..(Len(order') + 1)
    BY <1>3
  <1>5. DOMAIN results' = {order'[i] : i \in 1..(turn' - 1)}
    BY <1>2, <1>4
  <1>6. /\ at' = "idle" /\ version' = 0 /\ asked' = asked /\ lost' = FALSE
        /\ version' \in Nat /\ {asked', lost'} \subseteq BOOLEAN
    BY DEF EndPass, WorkerType
  <1>7. \A c \in DOMAIN results' : results'[c] \in {"Ready", "Progressing", "Degraded", "Blocked"}
    BY <1>2
  <1>8. DOMAIN graph' \subseteq Components /\ order' \in Seq(DOMAIN graph')
    BY <1>3 DEF WorkerType
  <1> QED
    BY <1>1, <1>3, <1>4, <1>5, <1>6, <1>7, <1>8 DEF WorkerType

\* A function stays of its type when one of its values is replaced.
LEMMA ReplaceType ==
    ASSUME NEW S, NEW T, NEW f \in [S -> T], NEW x \in S, NEW y \in T
    PROVE  [f EXCEPT ![x] = y] \in [S -> T]
  OBVIOUS

ConfigType == [there : BOOLEAN, version : Nat, asRendered : BOOLEAN]

DeploymentType == [there : BOOLEAN, secret : Nat, config : Nat, rolledOut : BOOLEAN]

\* The groups of variables that actions leave alone.
LEMMA IdleType ==
    ASSUME WorkerType, UNCHANGED workerVars, graph' = graph
    PROVE  WorkerType'
  BY DEF WorkerType, workerVars, Current

LEMMA LooksType ==
    ASSUME StoreType, Looks
    PROVE  StoreType' /\ graph' = graph
  BY DEF StoreType, Looks, identityVars, telemetryVars, adminVars

\* The steps that apply, look and declare, for any two successive steps of one
\* component.
SameComponent(step, next) ==
    \/ step \in IdentitySteps /\ next \in IdentitySteps
    \/ step \in TelemetrySteps /\ next \in TelemetrySteps

LEMMA EnsureType ==
    ASSUME NEW x \in Items, NEW step, NEW next, SameComponent(step, next),
           StoreType, WorkerType, Ensure(x, step, next)
    PROVE  StoreType' /\ WorkerType'
  <1>1. StoreType' /\ graph' = graph
    BY DEF StoreType, Ensure, telemetryVars, adminVars
  <1>2. Goto(next) /\ at = step
    BY DEF Ensure
  <1> QED
    BY <1>1, <1>2, GotoType DEF SameComponent

LEMMA GateType ==
    ASSUME NEW ready, NEW step, NEW next, SameComponent(step, next),
           StoreType, WorkerType, Gate(ready, step, next)
    PROVE  StoreType' /\ WorkerType'
  <1>1. StoreType' /\ graph' = graph
    BY LooksType DEF Gate
  <1>2. at = step /\ turn <= Len(order)
    BY DEF Gate, SameComponent, WorkerType
  <1>3. Goto(next) \/ Record("Progressing")
    BY DEF Gate
  <1> QED
    BY <1>1, <1>2, <1>3, GotoType, RecordType DEF SameComponent

LEMMA DeclareType ==
    ASSUME NEW r \in Declared, NEW step, NEW next, SameComponent(step, next),
           StoreType, WorkerType, Declare(r, step, next)
    PROVE  StoreType' /\ WorkerType'
  <1>1. graph' = graph /\ Goto(next) /\ at = step
    BY DEF Declare, adminVars
  <1>2. decl' \in [Declared -> [there : BOOLEAN, ready : BOOLEAN, spec : {"declared", "edited"}]]
    BY DEF StoreType, Declare, Undeclared
  <1>3. StoreType'
    BY <1>2 DEF StoreType, Declare, telemetryVars, adminVars
  <1> QED
    BY <1>1, <1>3, GotoType DEF SameComponent

\* Every step of the identity component keeps the types.
LEMMA IdentityType ==
    ASSUME StoreType, WorkerType, reconcileKeycloak
    PROVE  StoreType' /\ WorkerType'
  <1> USE DEF SameComponent, IdentitySteps, TelemetrySteps
  <1>1. CASE EnsureIssuerExists
    <2>1. StoreType' /\ graph' = graph
      BY <1>1, LooksType DEF EnsureIssuerExists
    <2>2. turn <= Len(order)
      BY <1>1 DEF EnsureIssuerExists, WorkerType
    <2>3. Goto("EnsureCertificate") \/ Record("Degraded")
      BY <1>1 DEF EnsureIssuerExists
    <2> QED
      BY <1>1, <2>1, <2>2, <2>3, GotoType, RecordType DEF EnsureIssuerExists
  <1>2. CASE EnsureCertificate
    BY <1>2, EnsureType DEF EnsureCertificate, Items
  <1>3. CASE IsCertificateReady
    BY <1>3, GateType DEF IsCertificateReady
  <1>4. CASE EnsureInstance
    BY <1>4, EnsureType DEF EnsureInstance, Items
  <1>5. CASE IsReady("IsReady", "EnsureHTTPRoute") \/ IsReady("IsReadyAgain", "EnsureMasterRealm")
    BY <1>5, GateType DEF IsReady
  <1>6. CASE EnsureHTTPRoute
    <2>1. StoreType' /\ graph' = graph /\ Goto("IsReadyAgain")
      BY <1>6 DEF EnsureHTTPRoute, StoreType, telemetryVars, adminVars
    <2> QED
      BY <1>6, <2>1, GotoType DEF EnsureHTTPRoute
  <1>7. CASE EnsureMasterRealm
    BY <1>7, DeclareType DEF EnsureMasterRealm, Declared
  <1>8. CASE IsRealmReady
    BY <1>8, GateType DEF IsRealmReady
  <1>9. CASE EnsureInternalAdminUser
    BY <1>9, DeclareType DEF EnsureInternalAdminUser, Declared, Accounts
  <1>10. CASE \/ IsUserReady("admin", "IsAdminReady", "EnsureRootUser")
              \/ IsUserReady("root", "IsRootReady", "EnsureNetEyeClient")
    BY <1>10, GateType DEF IsUserReady
  <1>11. CASE EnsureRootUser
    BY <1>11, DeclareType DEF EnsureRootUser, Declared, Accounts
  <1>12. CASE EnsureNetEyeClient
    BY <1>12, DeclareType DEF EnsureNetEyeClient, Declared
  <1>13. CASE ensureAuthFlow
    BY <1>13, DeclareType DEF ensureAuthFlow, Declared
  <1>14. CASE EnsureBootstrapAdminDisabled
    <2>1. StoreType' /\ graph' = graph
      BY <1>14, LooksType DEF EnsureBootstrapAdminDisabled
    <2>2. turn <= Len(order)
      BY <1>14 DEF EnsureBootstrapAdminDisabled, WorkerType
    <2> QED
      BY <1>14, <2>1, <2>2, RecordType DEF EnsureBootstrapAdminDisabled
  <1> QED
    BY <1>1, <1>2, <1>3, <1>4, <1>5, <1>6, <1>7, <1>8, <1>9, <1>10, <1>11, <1>12,
       <1>13, <1>14 DEF reconcileKeycloak

\* What is left when a ConfigMap or a Deployment is deleted.
LEMMA GoneType ==
    ASSUME StoreType, NEW c \in Telemetry
    PROVE  Gone(c) \in [Telemetry -> ConfigType]
  <1>1. config \in [Telemetry -> ConfigType]
    BY DEF StoreType, ConfigType
  <1>2. config[c].version \in Nat
    BY <1>1 DEF ConfigType
  <1>3. [NoConfig EXCEPT !.version = config[c].version] \in ConfigType
    BY <1>2 DEF NoConfig, ConfigType
  <1> QED
    BY <1>1, <1>3, ReplaceType DEF Gone

LEMMA NoDeploymentType ==
    ASSUME StoreType, NEW c \in Telemetry
    PROVE  [dep EXCEPT ![c] = NoDeployment] \in [Telemetry -> DeploymentType]
  <1>1. dep \in [Telemetry -> DeploymentType] /\ NoDeployment \in DeploymentType
    BY DEF StoreType, DeploymentType, NoDeployment
  <1> QED
    BY <1>1, ReplaceType

\* Every step of a telemetry component keeps the types.
LEMMA TelemetryType ==
    ASSUME StoreType, WorkerType, telemetryEnsure
    PROVE  StoreType' /\ WorkerType'
  <1> USE DEF IdentitySteps, TelemetrySteps
  <1>0. at \in TelemetrySteps /\ turn <= Len(order) /\ Current \in Telemetry
    BY DEF telemetryEnsure, WorkerType, requiredSecretResourceVersion, EnsureConfigMap,
           configMapResourceVersion, EnsureDeployment, EnsureRoutes, routeReady,
           IsDeploymentReady, Delete, Ensure, Gate
  <1>1. CASE requiredSecretResourceVersion
    <2>1. StoreType' /\ graph' = graph
      BY <1>1, LooksType DEF requiredSecretResourceVersion
    <2>2. CASE Record("Degraded")
      BY <1>0, <2>1, <2>2, RecordType
    <2>3. CASE ~Record("Degraded")
      <3>1. /\ at' = "EnsureConfigMap" /\ version' = seenSecret.version
            /\ UNCHANGED <<order, turn, results, asked, lost>>
        BY <1>1, <2>3 DEF requiredSecretResourceVersion
      <3>2. seenSecret.version \in Nat
        BY DEF StoreType
      <3> QED
        BY <1>0, <2>1, <3>1, <3>2 DEF WorkerType, Current
    <2> QED
      BY <2>2, <2>3
  <1>2. CASE EnsureConfigMap
    <2>1. /\ config' = config \/ config' = [config EXCEPT ![Current] =
                [there |-> TRUE, version |-> config[Current].version + 1, asRendered |-> TRUE]]
          /\ UNCHANGED <<identityVars, secret, seenSecret, seenConfig, dep, seenDep, adminVars>>
          /\ Goto("configMapResourceVersion") \/ Record("Degraded")
      BY <1>2 DEF EnsureConfigMap
    <2>2. config' \in [Telemetry -> ConfigType]
      <3> DEFINE rendered == [there |-> TRUE, version |-> config[Current].version + 1,
                              asRendered |-> TRUE]
      <3>1. config \in [Telemetry -> ConfigType]
        BY DEF StoreType, ConfigType
      <3>2. rendered \in ConfigType
        <4>1. config[Current] \in ConfigType
          BY <1>0, <3>1
        <4> QED
          BY <4>1 DEF ConfigType
      <3>3. [config EXCEPT ![Current] = rendered] \in [Telemetry -> ConfigType]
        BY <1>0, <3>1, <3>2, ReplaceType
      <3> QED
        BY <2>1, <3>1, <3>3
    <2>3. StoreType' /\ graph' = graph
      BY <2>1, <2>2 DEF StoreType, ConfigType, identityVars, adminVars
    <2> QED
      BY <1>0, <2>1, <2>3, GotoType, RecordType
  <1>3. CASE configMapResourceVersion
    <2>1. StoreType' /\ graph' = graph
      BY <1>3, LooksType DEF configMapResourceVersion
    <2>2. Goto("EnsureDeployment") \/ Record("Degraded")
      BY <1>3 DEF configMapResourceVersion
    <2> QED
      BY <1>0, <2>1, <2>2, GotoType, RecordType
  <1>4. CASE EnsureDeployment
    <2>1. /\ dep' = dep \/ dep' = [dep EXCEPT ![Current] =
                [there |-> TRUE, secret |-> version, config |-> seenConfig[Current].version,
                 rolledOut |-> FALSE]]
          /\ UNCHANGED <<identityVars, secret, seenSecret, config, seenConfig, seenDep, adminVars>>
          /\ \/ Record("Degraded")
             \/ Goto("EnsureRoutes") \/ Goto("IsDeploymentReady")
      BY <1>4 DEF EnsureDeployment
    <2>2. dep' \in [Telemetry -> DeploymentType]
      <3> DEFINE rendered == [there |-> TRUE, secret |-> version,
                              config |-> seenConfig[Current].version, rolledOut |-> FALSE]
      <3>1. dep \in [Telemetry -> DeploymentType]
        BY DEF StoreType, DeploymentType
      <3>2. rendered \in DeploymentType
        <4>1. seenConfig[Current] \in ConfigType /\ version \in Nat
          BY <1>0 DEF StoreType, WorkerType, ConfigType
        <4> QED
          BY <4>1 DEF ConfigType, DeploymentType
      <3>3. [dep EXCEPT ![Current] = rendered] \in [Telemetry -> DeploymentType]
        BY <1>0, <3>1, <3>2, ReplaceType
      <3> QED
        BY <2>1, <3>1, <3>3
    <2>3. StoreType' /\ graph' = graph
      BY <2>1, <2>2 DEF StoreType, DeploymentType, identityVars, adminVars
    <2> QED
      BY <1>0, <2>1, <2>3, GotoType, RecordType
  <1>5. CASE EnsureRoutes
    BY <1>5, EnsureType DEF EnsureRoutes, Items, SameComponent
  <1>6. CASE routeReady
    BY <1>6, GateType DEF routeReady, SameComponent
  <1>7. CASE IsDeploymentReady
    <2>1. StoreType' /\ graph' = graph
      BY <1>7, LooksType DEF IsDeploymentReady
    <2>2. Record("Ready") \/ Record("Progressing")
      BY <1>7 DEF IsDeploymentReady
    <2> QED
      BY <1>0, <2>1, <2>2, RecordType
  <1>8. CASE Delete
    <2>1. /\ config' = config \/ config' = Gone(Current)
          /\ dep' = dep \/ dep' = [dep EXCEPT ![Current] = NoDeployment]
          /\ applied' = applied \/ applied' = [applied EXCEPT !["routes"] = "absent"]
          /\ UNCHANGED <<service, route, decl, seenDecl, policy, minted,
                         secret, seenSecret, seenConfig, seenDep, adminVars>>
          /\ Record("Ready") \/ Record("Degraded")
      BY <1>8 DEF Delete
    <2>2. config' \in [Telemetry -> ConfigType]
      <3>1. Gone(Current) \in [Telemetry -> ConfigType]
        BY <1>0, GoneType
      <3>2. config \in [Telemetry -> ConfigType]
        BY DEF StoreType, ConfigType
      <3> QED
        BY <2>1, <3>1, <3>2
    <2>3. dep' \in [Telemetry -> DeploymentType]
      <3>1. [dep EXCEPT ![Current] = NoDeployment] \in [Telemetry -> DeploymentType]
        BY <1>0, NoDeploymentType
      <3>2. dep \in [Telemetry -> DeploymentType]
        BY DEF StoreType, DeploymentType
      <3> QED
        BY <2>1, <3>1, <3>2
    <2>4. applied' \in [Items -> {"absent", "pending", "ready"}]
      BY <2>1 DEF StoreType
    <2>5. StoreType' /\ graph' = graph
      BY <2>1, <2>2, <2>3, <2>4 DEF StoreType, ConfigType, DeploymentType, adminVars
    <2> QED
      BY <1>0, <2>1, <2>5, RecordType
  <1> QED
    BY <1>1, <1>2, <1>3, <1>4, <1>5, <1>6, <1>7, <1>8 DEF telemetryEnsure

\* The frame of a pass keeps the types.
LEMMA FrameType ==
    ASSUME StoreType, WorkerType,
           \/ Reconcile \/ reconcileBaseResources
           \/ runComponentOperations \/ AllDone \/ updateStatus
    PROVE  StoreType' /\ WorkerType'
  <1>0. CASE Reconcile
    <2>1. StoreType' /\ graph' = graph
      BY <1>0, LooksType DEF Reconcile
    <2>2. /\ UNCHANGED <<order, turn, results, version>>
          /\ at' = "reconcileBaseResources" /\ {asked', lost'} \subseteq BOOLEAN
      BY <1>0 DEF Reconcile, StoreType
    <2>3. at' \notin IdentitySteps \cup TelemetrySteps
      BY <2>2 DEF IdentitySteps, TelemetrySteps
    <2>4. turn = 1 /\ order = << >>
      BY <1>0 DEF Reconcile, WorkerType
    <2> QED
      BY <2>1, <2>2, <2>3, <2>4 DEF WorkerType
  <1>1. CASE reconcileBaseResources
    <2>1. StoreType' /\ graph' = graph
      BY <1>1, LooksType DEF reconcileBaseResources
    <2>2. order' \in Seq(DOMAIN graph)
      <3>1. (order' = setOrder(graph) /\ newLifecycleGraph(graph)) \/ order' = order
        BY <1>1 DEF reconcileBaseResources, EndsEarly
      <3>2. DOMAIN graph \subseteq Components /\ order \in Seq(DOMAIN graph)
        BY DEF WorkerType
      <3>3. newLifecycleGraph(graph) => setOrder(graph) \in Seq(DOMAIN graph)
        BY <3>2, OrderOfGraph, Zenon
      <3> QED
        BY <3>1, <3>2, <3>3, Zenon
    <2>3. turn = 1 /\ DOMAIN results = {}
      BY <1>1 DEF reconcileBaseResources, WorkerType
    <2>4. at' \in {"component", "updateStatus"} /\ at' \notin IdentitySteps \cup TelemetrySteps
      BY <1>1 DEF reconcileBaseResources, EndsEarly, IdentitySteps, TelemetrySteps
    <2>5. UNCHANGED <<turn, results, version, asked, lost>>
      BY <1>1 DEF reconcileBaseResources, EndsEarly
    <2> QED
      BY <2>1, <2>2, <2>3, <2>4, <2>5 DEF WorkerType
  <1>2. CASE runComponentOperations
    <2>1. StoreType' /\ graph' = graph
      BY <1>2, LooksType DEF runComponentOperations
    <2>2. CASE Record("Blocked")
      BY <1>2, <2>1, <2>2, RecordType DEF runComponentOperations
    <2>3. CASE ~Record("Blocked")
      <3>1. at = "component" /\ turn <= Len(order) /\ Current \in Components
        BY <1>2 DEF runComponentOperations, WorkerType, Current
      <3>2. UNCHANGED <<order, turn, results, version, asked, lost>>
        BY <1>2, <2>3 DEF runComponentOperations, Goto
      <3>3. \/ at' \in IdentitySteps /\ Current = "identity"
            \/ at' \in TelemetrySteps /\ Current \in Telemetry
        BY <1>2, <2>3, <3>1, ComponentNames
           DEF runComponentOperations, Goto, IdentitySteps, TelemetrySteps
      <3>4. at' \notin {"idle", "reconcileBaseResources"} /\ (at' \in IdentitySteps => at' \notin TelemetrySteps)
        BY <3>3 DEF IdentitySteps, TelemetrySteps
      <3> QED
        BY <2>1, <3>1, <3>2, <3>3, <3>4 DEF WorkerType, Current
    <2> QED
      BY <2>2, <2>3
  <1>3. CASE AllDone
    <2>1. StoreType' /\ graph' = graph /\ Goto("updateStatus")
      BY <1>3, LooksType DEF AllDone
    <2> QED
      BY <2>1, GotoType
  <1>4. CASE updateStatus
    <2>1. StoreType' /\ graph' = graph /\ EndPass
      BY <1>4 DEF updateStatus, StoreType, identityVars, telemetryVars, adminVars
    <2> QED
      BY <2>1, EndPassType
  <1> QED
    BY <1>0, <1>1, <1>2, <1>3, <1>4

\* Failures and crashes keep the types.
LEMMA FaultType ==
    ASSUME StoreType, WorkerType, CallFails \/ Crash
    PROVE  StoreType' /\ WorkerType'
  <1>1. CASE CallFails
    <2>1. StoreType' /\ graph' = graph
      BY <1>1, LooksType DEF CallFails
    <2>2. turn <= Len(order)
      BY <1>1 DEF CallFails, WorkerType
    <2> QED
      BY <1>1, <2>1, <2>2, RecordType DEF CallFails
  <1>2. CASE Crash
    <2>1. StoreType' /\ graph' = graph /\ EndPass
      BY <1>2 DEF Crash, StoreType, adminVars
    <2> QED
      BY <2>1, EndPassType
  <1> QED
    BY <1>1, <1>2

DeclarationType == [there : BOOLEAN, ready : BOOLEAN, spec : {"declared", "edited"}]

\* A new status, or the progress of a rollout, is one field of one object.
LEMMA StatusType ==
    ASSUME NEW d \in [Declared -> DeclarationType], NEW r \in Declared, NEW b \in BOOLEAN,
           NEW e, e = [d EXCEPT ![r].ready = b]
    PROVE  e \in [Declared -> DeclarationType]
  <1>1. [d[r] EXCEPT !.ready = b] \in DeclarationType
    BY DEF DeclarationType
  <1>2. e = [d EXCEPT ![r] = [d[r] EXCEPT !.ready = b]]
    OBVIOUS
  <1> QED
    BY <1>1, <1>2, ReplaceType

LEMMA RolloutType ==
    ASSUME NEW d \in [Telemetry -> DeploymentType], NEW c \in Telemetry, NEW b \in BOOLEAN
    PROVE  [d EXCEPT ![c].rolledOut = b] \in [Telemetry -> DeploymentType]
  <1>1. [d[c] EXCEPT !.rolledOut = b] \in DeploymentType
    BY DEF DeploymentType
  <1> QED
    BY <1>1, ReplaceType

\* The functions of StoreType.
LEMMA StoreFunctions ==
    ASSUME StoreType
    PROVE  /\ decl \in [Declared -> DeclarationType]
           /\ dep \in [Telemetry -> DeploymentType]
           /\ "realm" \in Declared
           /\ Accounts \subseteq Declared
  BY DEF StoreType, DeclarationType, DeploymentType, Declared

\* What others do keeps the types and leaves the pass and the graph alone.
LEMMA OthersType ==
    ASSUME StoreType,
           \/ \E x \in Items : ItemReady(x)
           \/ RealmController
           \/ \E u \in Accounts : UserController(u)
           \/ \E c \in Telemetry : Rollout(c) \/ SyncConfig(c) \/ SyncDeployment(c)
           \/ \E r \in Declared : SyncDeclared(r)
           \/ SyncSecret \/ Settle
    PROVE  StoreType' /\ UNCHANGED workerVars /\ graph' = graph
  <1> USE DEF adminVars
  <1>1. ASSUME NEW x \in Items, ItemReady(x)
        PROVE  StoreType' /\ UNCHANGED workerVars /\ graph' = graph
    BY <1>1 DEF ItemReady, StoreType, telemetryVars
  <1>2. CASE RealmController
    <2>1. decl' \in [Declared -> DeclarationType]
      <3>1. decl' = [decl EXCEPT !["realm"].ready = TRUE] \/ decl' = decl
        BY <1>2 DEF RealmController
      <3> QED
        BY <3>1, StatusType, StoreFunctions, Zenon
    <2>2. policy' \in {"declared", "edited"}
      BY <1>2 DEF RealmController, StoreType, Declared
    <2> QED
      BY <1>2, <2>1, <2>2 DEF RealmController, StoreType, DeclarationType, telemetryVars
  <1>3. ASSUME NEW u \in Accounts, UserController(u)
        PROVE  StoreType' /\ UNCHANGED workerVars /\ graph' = graph
    <2>1. decl' \in [Declared -> DeclarationType]
      <3>1. decl' = [decl EXCEPT ![u].ready = TRUE] \/ decl' = decl
        BY <1>3 DEF UserController
      <3> QED
        BY <3>1, StatusType, StoreFunctions, Zenon
    <2>2. minted' \in [Accounts -> {"none", "migrated", "original", "declared", "edited"}]
      BY <1>3 DEF UserController, StoreType
    <2> QED
      BY <1>3, <2>1, <2>2 DEF UserController, StoreType, DeclarationType, telemetryVars
  <1>4. ASSUME NEW c \in Telemetry, Rollout(c)
        PROVE  StoreType' /\ UNCHANGED workerVars /\ graph' = graph
    <2>1. dep' \in [Telemetry -> DeploymentType]
      BY <1>4, RolloutType, StoreFunctions DEF Rollout
    <2> QED
      BY <1>4, <2>1 DEF Rollout, StoreType, DeploymentType, identityVars
  <1>5. ASSUME NEW c \in Telemetry, SyncConfig(c)
        PROVE  StoreType' /\ UNCHANGED workerVars /\ graph' = graph
    <2>1. seenConfig' \in [Telemetry -> ConfigType]
      BY <1>5 DEF SyncConfig, StoreType, ConfigType
    <2> QED
      BY <1>5, <2>1 DEF SyncConfig, StoreType, ConfigType, identityVars
  <1>6. ASSUME NEW c \in Telemetry, SyncDeployment(c)
        PROVE  StoreType' /\ UNCHANGED workerVars /\ graph' = graph
    <2>1. seenDep' \in [Telemetry -> DeploymentType]
      BY <1>6 DEF SyncDeployment, StoreType, DeploymentType
    <2> QED
      BY <1>6, <2>1 DEF SyncDeployment, StoreType, DeploymentType, identityVars
  <1>7. ASSUME NEW r \in Declared, SyncDeclared(r)
        PROVE  StoreType' /\ UNCHANGED workerVars /\ graph' = graph
    <2>1. seenDecl' \in [Declared -> DeclarationType]
      BY <1>7 DEF SyncDeclared, StoreType, DeclarationType
    <2> QED
      BY <1>7, <2>1 DEF SyncDeclared, StoreType, DeclarationType, telemetryVars
  <1>8. CASE SyncSecret \/ Settle
    BY <1>8 DEF SyncSecret, Settle, StoreType, identityVars, telemetryVars
  <1> QED
    BY <1>1, <1>2, <1>3, <1>4, <1>5, <1>6, <1>7, <1>8

\* So do disturbances, except that a pass is marked in which the instance went.
PassAlone == UNCHANGED <<at, order, turn, results, version, asked>>

LEMMA PassAloneType ==
    ASSUME WorkerType, PassAlone, lost' \in BOOLEAN, graph' = graph
    PROVE  WorkerType'
  BY DEF WorkerType, PassAlone, Current

LEMMA DisturbanceType ==
    ASSUME StoreType, WorkerType, Disturbance
    PROVE  StoreType' /\ PassAlone /\ lost' \in BOOLEAN /\ graph' = graph
  <1> SUFFICES StoreType' /\ PassAlone /\ (lost' = lost \/ lost' = TRUE) /\ graph' = graph
    BY DEF WorkerType
  <1> USE DEF Disturb, Spend, PassAlone, workerVars
  <1>1. ASSUME NEW x \in Items, ItemLost(x)
        PROVE  StoreType' /\ PassAlone /\ lost' = lost /\ graph' = graph
    <2>1. applied' \in [Items -> {"absent", "pending", "ready"}]
      BY <1>1 DEF ItemLost, StoreType
    <2> QED
      BY <1>1, <2>1 DEF ItemLost, StoreType
  <1>2. CASE IssuerToggled \/ RouteDeleted \/ EnabledToggled
    BY <1>2 DEF IssuerToggled, RouteDeleted, EnabledToggled, StoreType
  <1>3. ASSUME NEW r \in Declared, DeclarationDeleted(r) \/ ControllerFailed(r)
        PROVE  StoreType' /\ PassAlone /\ lost' = lost /\ graph' = graph
    <2>1. decl' \in [Declared -> DeclarationType]
      <3>1. Undeclared \in DeclarationType
        BY DEF Undeclared, DeclarationType
      <3>2. decl' = [decl EXCEPT ![r] = Undeclared] \/ decl' = [decl EXCEPT ![r].ready = FALSE]
        BY <1>3 DEF DeclarationDeleted, ControllerFailed
      <3>3. [decl EXCEPT ![r] = Undeclared] \in [Declared -> DeclarationType]
        BY <3>1, StoreFunctions, ReplaceType
      <3> QED
        BY <3>2, <3>3, StatusType, StoreFunctions, Zenon
    <2> QED
      BY <1>3, <2>1 DEF DeclarationDeleted, ControllerFailed, StoreType, DeclarationType
  <1>4. CASE RealmEdited
    <2>1. decl' \in [Declared -> DeclarationType]
      BY <1>4 DEF RealmEdited, StoreType, DeclarationType, Declared
    <2> QED
      BY <1>4, <2>1 DEF RealmEdited, StoreType, DeclarationType
  <1>5. CASE SecretChanged
    <2>1. secret' \in [there : BOOLEAN, version : Nat]
      BY <1>5 DEF SecretChanged, StoreType
    <2> QED
      BY <1>5, <2>1 DEF SecretChanged, StoreType
  <1>6. ASSUME NEW c \in Telemetry, ConfigChanged(c)
        PROVE  StoreType' /\ PassAlone /\ lost' = lost /\ graph' = graph
    <2> DEFINE edited == [there |-> TRUE, version |-> config[c].version + 1, asRendered |-> FALSE]
    <2>1. config' \in {Gone(c), [config EXCEPT ![c] = edited]}
      BY <1>6 DEF ConfigChanged
    <2>2. config \in [Telemetry -> ConfigType]
      BY DEF StoreType, ConfigType
    <2>3. edited \in ConfigType
      <3>1. config[c] \in ConfigType
        BY <2>2
      <3> QED
        BY <3>1 DEF ConfigType
    <2>4. config' \in [Telemetry -> ConfigType]
      <3>1. Gone(c) \in [Telemetry -> ConfigType]
        BY GoneType
      <3>2. [config EXCEPT ![c] = edited] \in [Telemetry -> ConfigType]
        <4> HIDE DEF edited
        <4> QED
          BY <2>2, <2>3, ReplaceType
      <3> HIDE DEF edited
      <3> QED
        BY <2>1, <3>1, <3>2, Zenon
    <2> QED
      BY <1>6, <2>4 DEF ConfigChanged, StoreType, ConfigType
  <1>7. ASSUME NEW c \in Telemetry, DeploymentLost(c)
        PROVE  StoreType' /\ PassAlone /\ lost' = lost /\ graph' = graph
    <2>1. [dep EXCEPT ![c].rolledOut = FALSE] \in [Telemetry -> DeploymentType]
      BY DEF StoreType, DeploymentType
    <2>2. dep' \in [Telemetry -> DeploymentType]
      BY <1>7, <2>1, NoDeploymentType DEF DeploymentLost
    <2> QED
      BY <1>7, <2>2 DEF DeploymentLost, StoreType, DeploymentType
  <1>8. CASE InstanceDeleted
    <2>1. applied' \in [Items -> {"absent", "pending", "ready"}]
      BY <1>8 DEF InstanceDeleted, StoreType
    <2> QED
      BY <1>8, <2>1 DEF InstanceDeleted, StoreType, telemetryVars
  <1> QED
    BY <1>1, <1>2, <1>3, <1>4, <1>5, <1>6, <1>7, <1>8 DEF Disturbance

TypeInv == StoreType /\ WorkerType

LEMMA TypeInit == Init => TypeInv
  <1> SUFFICES ASSUME Init PROVE TypeInv
    OBVIOUS
  <1>1. PICK s \in Setups : /\ graph = s.graph /\ enabled = s.enabled
                            /\ bootstrap = s.bootstrap /\ budget = s.disturbances
    BY DEF Init
  <1>2. /\ graph \in UNION {[D -> SUBSET Components] : D \in (SUBSET Components) \ {{}}}
        /\ enabled \in BOOLEAN /\ bootstrap \in BOOLEAN
        /\ budget \subseteq DisturbanceKinds
    BY <1>1, ComponentPassAssumption
  <1>3. DOMAIN graph \subseteq Components
    BY <1>2
  <1>4. decl \in [Declared -> DeclarationType] /\ seenDecl = decl
    BY DEF Init, Undeclared, DeclarationType
  <1>5. /\ config \in [Telemetry -> ConfigType] /\ seenConfig = config
        /\ dep \in [Telemetry -> DeploymentType] /\ seenDep = dep
    BY DEF Init, NoConfig, NoDeployment, ConfigType, DeploymentType
  <1>6. StoreType
    <2>1. applied \in [Items -> {"absent", "pending", "ready"}]
      BY DEF Init
    <2>2. minted \in [Accounts -> {"none", "migrated", "original", "declared", "edited"}]
      BY DEF Init
    <2>3. secret \in [there : BOOLEAN, version : Nat] /\ seenSecret = secret
      BY DEF Init
    <2>4. /\ issuer = TRUE /\ service = FALSE /\ route = FALSE /\ settled = FALSE
          /\ policy = "original"
      BY DEF Init
    <2> QED
      BY <1>2, <1>4, <1>5, <2>1, <2>2, <2>3, <2>4
         DEF StoreType, DeclarationType, ConfigType, DeploymentType
  <1>7. DOMAIN results = {}
    BY DEF Init, NoResults
  <1>8. at \notin IdentitySteps \cup TelemetrySteps
    BY DEF Init, IdentitySteps, TelemetrySteps
  <1>9. WorkerType
    <2>1. /\ at = "idle" /\ order = << >> /\ turn = 1 /\ version = 0
          /\ asked = enabled /\ lost = FALSE
      BY DEF Init
    <2>2. order \in Seq(DOMAIN graph) /\ Len(order) = 0
      BY <2>1
    <2>3. 1..(turn - 1) = {} /\ turn \in 1..(Len(order) + 1)
      BY <2>1, <2>2
    <2>4. DOMAIN results = {order[i] : i \in 1..(turn - 1)}
      BY <1>7, <2>3
    <2>5. version \in Nat /\ {asked, lost} \subseteq BOOLEAN
      BY <1>2, <2>1
    <2>6. \A c \in DOMAIN results : results[c] \in {"Ready", "Progressing", "Degraded", "Blocked"}
      BY <1>7
    <2> QED
      BY <1>3, <1>8, <2>1, <2>2, <2>3, <2>4, <2>5, <2>6 DEF WorkerType
  <1> QED
    BY <1>6, <1>9 DEF TypeInv

LEMMA TypeStep == TypeInv /\ [Next]_vars => TypeInv'
  <1> SUFFICES ASSUME TypeInv, [Next]_vars PROVE TypeInv'
    OBVIOUS
  <1> USE DEF TypeInv
  <1>1. CASE PassStep
    BY <1>1, FrameType, IdentityType, TelemetryType DEF PassStep
  <1>2. CASE CallFails \/ Crash
    BY <1>2, FaultType
  <1>3. CASE Disturbance
    BY <1>3, DisturbanceType, PassAloneType
  <1>4. CASE \/ \E x \in Items : ItemReady(x)
             \/ RealmController
             \/ \E u \in Accounts : UserController(u)
             \/ \E c \in Telemetry : Rollout(c) \/ SyncConfig(c) \/ SyncDeployment(c)
             \/ \E r \in Declared : SyncDeclared(r)
             \/ SyncSecret \/ Settle
    BY <1>4, OthersType, IdleType
  <1>5. CASE UNCHANGED vars
    BY <1>5 DEF vars, StoreType, WorkerType, Current
  <1> QED
    BY <1>1, <1>2, <1>3, <1>4, <1>5 DEF Next

\* Every variable of a pass and of the cluster keeps its type, a step belongs to
\* the component whose turn it is, and a pass starts from its first component,
\* through every fault and disturbance (TypeOK; runComponentOperations).
THEOREM PassTypeCorrect == Spec => []TypeOK
  <1>1. TypeInv => TypeOK
    BY TypeParts DEF TypeInv
  <1> QED
    BY <1>1, TypeInit, TypeStep, PTL DEF Spec

-----------------------------------------------------------------------------
(***************************************************************************)
(* Accounts and the password policy.                                       *)
(***************************************************************************)

\* The steps of reconcileKeycloak that follow the gate of the realm.
AfterRealm ==
    {"EnsureInternalAdminUser", "IsAdminReady", "EnsureRootUser", "IsRootReady",
     "EnsureNetEyeClient", "ensureAuthFlow", "EnsureBootstrapAdminDisabled"}

\* As long as the realm has the policy it came with, nobody has said that it is
\* configured, no pass has got past its gate and no account is declared.
PolicyInv ==
    /\ policy = "original" =>
         /\ ~decl["realm"].ready
         /\ ~seenDecl["realm"].ready
         /\ at \notin AfterRealm
         /\ \A u \in Accounts : ~decl[u].there
    /\ AccountsUnderPolicy

LEMMA PolicyInit == Init => PolicyInv
  <1> SUFFICES ASSUME Init PROVE PolicyInv
    OBVIOUS
  <1>1. \A r \in Declared : /\ ~decl[r].ready /\ ~decl[r].there
                            /\ ~seenDecl[r].ready
    BY DEF Init, Undeclared
  <1>2. \A u \in Accounts : minted[u] \in {"none", "migrated"}
    BY DEF Init
  <1>3. at \notin AfterRealm
    BY DEF Init, AfterRealm
  <1> QED
    BY <1>1, <1>2, <1>3 DEF PolicyInv, AccountsUnderPolicy, Declared

\* What a step of the pass does to all that PolicyInv speaks of.
LEMMA PolicyStep == TypeInv /\ PolicyInv /\ [Next]_vars => PolicyInv'
  <1> SUFFICES ASSUME TypeInv, PolicyInv, [Next]_vars PROVE PolicyInv'
    OBVIOUS
  <1> USE DEF Accounts, Declared
  \* A step that only looks, and goes on to a later step only if it was there.
  <1>0. ASSUME UNCHANGED <<policy, minted, decl>>, seenDecl' \in {seenDecl, decl},
               at' \in AfterRealm => at \in AfterRealm
        PROVE  PolicyInv'
    BY <1>0 DEF PolicyInv, AccountsUnderPolicy
  <1>1. CASE \/ Reconcile \/ reconcileBaseResources
             \/ runComponentOperations \/ AllDone \/ updateStatus
    <2>1. UNCHANGED <<policy, minted, decl, seenDecl>>
      BY <1>1 DEF Reconcile, reconcileBaseResources, runComponentOperations, AllDone,
                  updateStatus, Looks, identityVars
    <2>2. at' \notin AfterRealm
      BY <1>1 DEF Reconcile, reconcileBaseResources, EndsEarly, runComponentOperations, AllDone, updateStatus, Record, Goto,
                  EndPass, AfterRealm
    <2> QED
      BY <1>0, <2>1, <2>2
  <1>2. CASE \/ EnsureIssuerExists \/ EnsureCertificate \/ IsCertificateReady \/ EnsureInstance
             \/ IsReady("IsReady", "EnsureHTTPRoute") \/ EnsureHTTPRoute
             \/ IsReady("IsReadyAgain", "EnsureMasterRealm")
    <2>1. UNCHANGED <<policy, minted, decl, seenDecl>>
      BY <1>2 DEF EnsureIssuerExists, EnsureCertificate, IsCertificateReady, EnsureInstance,
                  IsReady, EnsureHTTPRoute, Ensure, Gate, Looks, identityVars
    <2>2. at' \notin AfterRealm
      BY <1>2 DEF EnsureIssuerExists, EnsureCertificate, IsCertificateReady, EnsureInstance,
                  IsReady, EnsureHTTPRoute, Ensure, Gate, Goto, Record, AfterRealm
    <2> QED
      BY <1>0, <2>1, <2>2
  <1>3. CASE EnsureMasterRealm
    <2>1. UNCHANGED <<policy, minted, seenDecl>> /\ at' \notin AfterRealm
      BY <1>3 DEF EnsureMasterRealm, Declare, Goto, AfterRealm
    <2>2. /\ decl'["realm"] = decl["realm"] \/ ~decl'["realm"].ready
          /\ \A u \in Accounts : decl'[u] = decl[u]
      BY <1>3 DEF EnsureMasterRealm, Declare, TypeInv, StoreType, Undeclared
    <2> QED
      BY <2>1, <2>2 DEF PolicyInv, AccountsUnderPolicy
  <1>4. CASE IsRealmReady
    <2>1. UNCHANGED <<policy, minted, decl, seenDecl>>
      BY <1>4 DEF IsRealmReady, Gate, Looks, identityVars
    <2>2. at' \in AfterRealm => seenDecl["realm"].ready
      BY <1>4 DEF IsRealmReady, Gate, Goto, Record, AfterRealm
    <2> QED
      BY <2>1, <2>2 DEF PolicyInv, AccountsUnderPolicy
  <1>5. CASE \/ EnsureInternalAdminUser \/ EnsureRootUser \/ EnsureNetEyeClient \/ ensureAuthFlow
    <2>1. UNCHANGED <<policy, minted>> /\ at \in AfterRealm
      BY <1>5 DEF EnsureInternalAdminUser, EnsureRootUser, EnsureNetEyeClient, ensureAuthFlow,
                  Declare, AfterRealm
    <2> QED
      BY <2>1 DEF PolicyInv, AccountsUnderPolicy
  <1>6. CASE \/ IsUserReady("admin", "IsAdminReady", "EnsureRootUser")
             \/ IsUserReady("root", "IsRootReady", "EnsureNetEyeClient")
             \/ EnsureBootstrapAdminDisabled
    <2>1. UNCHANGED <<policy, minted, decl, seenDecl>> /\ at \in AfterRealm
      BY <1>6 DEF IsUserReady, Gate, EnsureBootstrapAdminDisabled, Looks, identityVars, AfterRealm
    <2> QED
      BY <1>0, <2>1
  <1>7. CASE telemetryEnsure
    <2>1. UNCHANGED <<policy, minted, decl, seenDecl>>
      BY <1>7 DEF telemetryEnsure, requiredSecretResourceVersion, EnsureConfigMap,
                  configMapResourceVersion, EnsureDeployment, EnsureRoutes, routeReady,
                  IsDeploymentReady, Delete, Ensure, Gate, Looks, identityVars
    <2>2. at' \notin AfterRealm
      BY <1>7 DEF telemetryEnsure, requiredSecretResourceVersion, EnsureConfigMap,
                  configMapResourceVersion, EnsureDeployment, EnsureRoutes, routeReady,
                  IsDeploymentReady, Delete, Ensure, Gate, Goto, Record, AfterRealm
    <2> QED
      BY <1>0, <2>1, <2>2
  <1>8. CASE CallFails \/ Crash
    <2>1. UNCHANGED <<policy, minted, decl>> /\ seenDecl' \in {seenDecl, decl}
      BY <1>8 DEF CallFails, Crash, Looks, identityVars
    <2>2. at' \notin AfterRealm
      BY <1>8 DEF CallFails, Crash, Record, EndPass, AfterRealm
    <2> QED
      BY <1>0, <2>1, <2>2
  <1>9. CASE RealmController
    <2>1. policy' # "original" /\ minted' = minted
      BY <1>9 DEF RealmController, TypeInv, StoreType
    <2> QED
      BY <2>1 DEF PolicyInv, AccountsUnderPolicy
  <1>10. ASSUME NEW u \in Accounts, UserController(u)
         PROVE  PolicyInv'
    <2>1. policy # "original" /\ policy' = policy
      BY <1>10 DEF UserController, PolicyInv
    <2>2. \A v \in Accounts : minted'[v] \in {minted[v], policy}
      BY <1>10 DEF UserController, TypeInv, StoreType
    <2> QED
      BY <2>1, <2>2 DEF PolicyInv, AccountsUnderPolicy
  <1>11. ASSUME NEW r \in Declared, SyncDeclared(r)
         PROVE  PolicyInv'
    <2>1. UNCHANGED <<policy, minted, decl, at>>
      BY <1>11 DEF SyncDeclared, workerVars
    <2>2. seenDecl'["realm"] \in {seenDecl["realm"], decl["realm"]}
      BY <1>11 DEF SyncDeclared, TypeInv, StoreType
    <2> QED
      BY <2>1, <2>2 DEF PolicyInv, AccountsUnderPolicy
  <1>12. ASSUME NEW r \in Declared,
                DeclarationDeleted(r) \/ ControllerFailed(r) \/ RealmEdited
         PROVE  PolicyInv'
    <2>1. UNCHANGED <<policy, minted, seenDecl, at>>
      BY <1>12 DEF DeclarationDeleted, ControllerFailed, RealmEdited, Disturb, workerVars
    <2>2. \A q \in Declared : /\ decl'[q].ready => decl[q].ready
                              /\ decl'[q].there => decl[q].there
      <3>1. CASE DeclarationDeleted(r)
        BY <3>1 DEF DeclarationDeleted, TypeInv, StoreType, Undeclared
      <3>2. CASE ControllerFailed(r)
        BY <3>2 DEF ControllerFailed, TypeInv, StoreType
      <3>3. CASE RealmEdited
        BY <3>3 DEF RealmEdited, TypeInv, StoreType
      <3> QED
        BY <1>12, <3>1, <3>2, <3>3
    <2> QED
      BY <2>1, <2>2 DEF PolicyInv, AccountsUnderPolicy
  <1>13. CASE \/ \E x \in Items : ItemReady(x) \/ ItemLost(x)
              \/ \E c \in Telemetry : \/ Rollout(c) \/ SyncConfig(c) \/ SyncDeployment(c)
                                      \/ ConfigChanged(c) \/ DeploymentLost(c)
              \/ SyncSecret \/ Settle \/ IssuerToggled \/ RouteDeleted \/ EnabledToggled
              \/ SecretChanged \/ InstanceDeleted
    <2>1. UNCHANGED <<policy, minted, decl, seenDecl, at>>
      BY <1>13 DEF ItemReady, ItemLost, Rollout, SyncConfig, SyncDeployment, ConfigChanged,
                   DeploymentLost, SyncSecret, Settle, IssuerToggled, RouteDeleted,
                   EnabledToggled, SecretChanged, InstanceDeleted, Disturb, workerVars,
                   identityVars
    <2> QED
      BY <1>0, <2>1
  <1>14. CASE UNCHANGED vars
    BY <1>0, <1>14 DEF vars
  <1> QED
    BY <1>1, <1>2, <1>3, <1>4, <1>5, <1>6, <1>7, <1>8, <1>9, <1>10, <1>11, <1>12, <1>13, <1>14
       DEF Next, PassStep, reconcileKeycloak, Disturbance

\* No account gets its password under the policy the realm came with, however
\* stale the status that lets the pass go on (AccountsUnderPolicy; the gate of
\* reconcileKeycloak between EnsureMasterRealm and EnsureInternalAdminUser).
THEOREM PolicyBeforeAccounts == Spec => []AccountsUnderPolicy
  <1>1. PolicyInv => AccountsUnderPolicy
    BY DEF PolicyInv
  <1> QED
    BY <1>1, TypeInit, TypeStep, PolicyInit, PolicyStep, PTL DEF Spec

-----------------------------------------------------------------------------
(***************************************************************************)
(* The route and its backend.                                              *)
(***************************************************************************)

\* An instance that is ready has its Service, and a pass that is about to apply
\* the route has come through that gate and lost the Service only with the
\* instance.
RouteInv ==
    /\ applied["keycloak"] = "ready" => service
    /\ at = "EnsureHTTPRoute" => service \/ lost

LEMMA RouteInit == Init => RouteInv
  <1> SUFFICES ASSUME Init PROVE RouteInv
    OBVIOUS
  <1>1. applied["keycloak"] = "absent" /\ at = "idle"
    BY DEF Init, Items
  <1> QED
    BY <1>1 DEF RouteInv

LEMMA RouteStep == TypeInv /\ RouteInv /\ [Next]_vars => RouteInv'
  <1> SUFFICES ASSUME TypeInv, RouteInv, [Next]_vars PROVE RouteInv'
    OBVIOUS
  \* Most steps neither touch the Service nor go to the route.
  <1>0. ASSUME service' = service,
               at' = "EnsureHTTPRoute" => at = "EnsureHTTPRoute" /\ lost' = lost,
               applied'["keycloak"] = "ready" => applied["keycloak"] = "ready"
        PROVE  RouteInv'
    BY <1>0 DEF RouteInv
  <1>1. CASE \/ Reconcile \/ reconcileBaseResources
             \/ runComponentOperations \/ AllDone \/ updateStatus
    <2>1. UNCHANGED <<service, applied>>
      BY <1>1 DEF Reconcile, reconcileBaseResources, runComponentOperations, AllDone,
                  updateStatus, Looks, identityVars
    <2>2. at' # "EnsureHTTPRoute"
      BY <1>1 DEF Reconcile, reconcileBaseResources, EndsEarly, runComponentOperations, AllDone,
                  updateStatus, Record, Goto, EndPass
    <2> QED
      BY <1>0, <2>1, <2>2
  <1>2. CASE IsReady("IsReady", "EnsureHTTPRoute")
    <2>1. UNCHANGED <<service, applied>>
      BY <1>2 DEF IsReady, Gate, Looks, identityVars
    <2>2. at' = "EnsureHTTPRoute" => applied["keycloak"] = "ready"
      BY <1>2 DEF IsReady, Gate, Goto, Record
    <2> QED
      BY <2>1, <2>2 DEF RouteInv
  <1>3. CASE EnsureHTTPRoute
    <2>1. UNCHANGED <<service, applied>> /\ at' # "EnsureHTTPRoute"
      BY <1>3 DEF EnsureHTTPRoute, Goto
    <2> QED
      BY <1>0, <2>1
  <1>4. CASE EnsureCertificate \/ EnsureInstance \/ EnsureRoutes
    <2>1. UNCHANGED service /\ at' # "EnsureHTTPRoute"
      BY <1>4 DEF EnsureCertificate, EnsureInstance, EnsureRoutes, Ensure, Goto
    <2>2. applied'["keycloak"] = "ready" => applied["keycloak"] = "ready"
      BY <1>4 DEF EnsureCertificate, EnsureInstance, EnsureRoutes, Ensure, TypeInv, StoreType, Items
    <2> QED
      BY <1>0, <2>1, <2>2
  <1>5. CASE \/ EnsureIssuerExists \/ IsCertificateReady
             \/ IsReady("IsReadyAgain", "EnsureMasterRealm")
             \/ EnsureMasterRealm \/ IsRealmReady \/ EnsureInternalAdminUser
             \/ IsUserReady("admin", "IsAdminReady", "EnsureRootUser") \/ EnsureRootUser
             \/ IsUserReady("root", "IsRootReady", "EnsureNetEyeClient")
             \/ EnsureNetEyeClient \/ ensureAuthFlow \/ EnsureBootstrapAdminDisabled
    <2>1. UNCHANGED <<service, applied>>
      BY <1>5 DEF EnsureIssuerExists, IsCertificateReady, IsReady, EnsureMasterRealm, IsRealmReady,
                  EnsureInternalAdminUser, IsUserReady, EnsureRootUser, EnsureNetEyeClient,
                  ensureAuthFlow, EnsureBootstrapAdminDisabled, Gate, Declare, Looks, identityVars
    <2>2. at' # "EnsureHTTPRoute"
      BY <1>5 DEF EnsureIssuerExists, IsCertificateReady, IsReady, EnsureMasterRealm, IsRealmReady,
                  EnsureInternalAdminUser, IsUserReady, EnsureRootUser, EnsureNetEyeClient,
                  ensureAuthFlow, EnsureBootstrapAdminDisabled, Gate, Declare, Goto, Record
    <2> QED
      BY <1>0, <2>1, <2>2
  <1>6. CASE \/ requiredSecretResourceVersion \/ EnsureConfigMap \/ configMapResourceVersion
             \/ EnsureDeployment \/ routeReady \/ IsDeploymentReady
    <2>1. UNCHANGED <<service, applied>>
      BY <1>6 DEF requiredSecretResourceVersion, EnsureConfigMap, configMapResourceVersion,
                  EnsureDeployment, routeReady, IsDeploymentReady, Gate, Looks, identityVars
    <2>2. at' # "EnsureHTTPRoute"
      BY <1>6 DEF requiredSecretResourceVersion, EnsureConfigMap, configMapResourceVersion,
                  EnsureDeployment, routeReady, IsDeploymentReady, Gate, Goto, Record
    <2> QED
      BY <1>0, <2>1, <2>2
  <1>7. CASE Delete
    <2>1. UNCHANGED service /\ at' # "EnsureHTTPRoute"
      BY <1>7 DEF Delete, Record
    <2>2. applied' = applied \/ applied' = [applied EXCEPT !["routes"] = "absent"]
      BY <1>7 DEF Delete
    <2>3. applied'["keycloak"] = applied["keycloak"]
      BY <2>2 DEF TypeInv, StoreType, Items
    <2> QED
      BY <1>0, <2>1, <2>3
  <1>8. CASE CallFails \/ Crash
    <2>1. UNCHANGED <<service, applied>> /\ at' # "EnsureHTTPRoute"
      BY <1>8 DEF CallFails, Crash, Looks, identityVars, Record, EndPass
    <2> QED
      BY <1>0, <2>1
  <1>9. ASSUME NEW x \in Items, ItemReady(x)
        PROVE  RouteInv'
    <2>1. UNCHANGED <<lost, at>> /\ service' = (service \/ x = "keycloak")
      BY <1>9 DEF ItemReady, workerVars
    <2>2. x # "keycloak" => applied'["keycloak"] = applied["keycloak"]
      BY <1>9 DEF ItemReady, TypeInv, StoreType, Items
    <2> QED
      BY <2>1, <2>2 DEF RouteInv
  <1>10. ASSUME NEW x \in Items, ItemLost(x)
         PROVE  RouteInv'
    <2>1. UNCHANGED <<service, lost, at>>
      BY <1>10 DEF ItemLost, Disturb, workerVars
    <2>2. applied'["keycloak"] = "ready" => applied["keycloak"] = "ready"
      BY <1>10 DEF ItemLost, TypeInv, StoreType, Items
    <2> QED
      BY <1>0, <2>1, <2>2
  <1>11. CASE InstanceDeleted
    <2>1. applied'["keycloak"] = "absent"
      BY <1>11 DEF InstanceDeleted, TypeInv, StoreType, Items
    <2>2. lost'
      BY <1>11 DEF InstanceDeleted
    <2> QED
      BY <2>1, <2>2 DEF RouteInv
  <1>12. CASE \/ RealmController \/ \E u \in Accounts : UserController(u)
              \/ \E r \in Declared : SyncDeclared(r) \/ DeclarationDeleted(r) \/ ControllerFailed(r)
              \/ \E c \in Telemetry : \/ Rollout(c) \/ SyncConfig(c) \/ SyncDeployment(c)
                                      \/ ConfigChanged(c) \/ DeploymentLost(c)
              \/ SyncSecret \/ Settle \/ IssuerToggled \/ EnabledToggled \/ SecretChanged
              \/ RealmEdited \/ RouteDeleted
    <2>1. UNCHANGED <<service, applied, at, lost>>
      BY <1>12 DEF RealmController, UserController, SyncDeclared, DeclarationDeleted,
                   ControllerFailed, Rollout, SyncConfig, SyncDeployment, ConfigChanged,
                   DeploymentLost, SyncSecret, Settle, IssuerToggled, EnabledToggled,
                   SecretChanged, RealmEdited, RouteDeleted, Disturb, workerVars, identityVars
    <2> QED
      BY <1>0, <2>1
  <1>13. CASE UNCHANGED vars
    BY <1>0, <1>13 DEF vars
  <1> QED
    BY <1>1, <1>2, <1>3, <1>4, <1>5, <1>6, <1>7, <1>8, <1>9, <1>10, <1>11, <1>12, <1>13
       DEF Next, PassStep, reconcileKeycloak, telemetryEnsure, Disturbance

\* Only EnsureHTTPRoute creates the route.
LEMMA OnlyOneCreatesRoute ==
    ASSUME [Next]_vars, ~route, route', TypeInv
    PROVE  EnsureHTTPRoute
  <1>1. CASE PassStep
    <2>1. route' = route \/ EnsureHTTPRoute
      BY <1>1 DEF PassStep, Reconcile, reconcileBaseResources, runComponentOperations, AllDone,
                  updateStatus, reconcileKeycloak, EnsureIssuerExists, EnsureCertificate,
                  IsCertificateReady, EnsureInstance, IsReady, EnsureMasterRealm, IsRealmReady,
                  EnsureInternalAdminUser, IsUserReady, EnsureRootUser, EnsureNetEyeClient,
                  ensureAuthFlow, EnsureBootstrapAdminDisabled, telemetryEnsure,
                  requiredSecretResourceVersion, EnsureConfigMap, configMapResourceVersion,
                  EnsureDeployment, EnsureRoutes, routeReady, IsDeploymentReady, Delete,
                  Ensure, Gate, Declare, Looks, identityVars
    <2> QED
      BY <2>1
  <1>2. CASE CallFails \/ Crash
    BY <1>2 DEF CallFails, Crash, Looks, identityVars
  <1>3. CASE Disturbance
    BY <1>3 DEF Disturbance, ItemLost, InstanceDeleted, IssuerToggled, RouteDeleted,
                DeclarationDeleted, ControllerFailed, RealmEdited, EnabledToggled, SecretChanged,
                ConfigChanged, DeploymentLost
  <1>4. CASE \/ \E x \in Items : ItemReady(x)
             \/ RealmController
             \/ \E u \in Accounts : UserController(u)
             \/ \E c \in Telemetry : Rollout(c) \/ SyncConfig(c) \/ SyncDeployment(c)
             \/ \E r \in Declared : SyncDeclared(r)
             \/ SyncSecret \/ Settle
    BY <1>4 DEF ItemReady, RealmController, UserController, Rollout, SyncConfig, SyncDeployment,
                SyncDeclared, SyncSecret, Settle, identityVars
  <1>5. CASE UNCHANGED vars
    BY <1>5 DEF vars
  <1> QED
    BY <1>1, <1>2, <1>3, <1>4, <1>5 DEF Next

\* A pass creates the HTTPRoute only once the Service is there, unless somebody
\* deletes the instance while it is under way (RouteAfterService; the gate of
\* EnsureResources between EnsureInstance and EnsureHTTPRoute).
THEOREM RouteComesAfterService == Spec => RouteAfterService
  <1>1. TypeInv /\ RouteInv /\ [Next]_vars => [~route /\ route' => service \/ lost]_vars
    <2> SUFFICES ASSUME TypeInv, RouteInv, [Next]_vars, ~route, route'
                 PROVE  service \/ lost
      OBVIOUS
    <2>1. at = "EnsureHTTPRoute"
      BY OnlyOneCreatesRoute DEF EnsureHTTPRoute
    <2> QED
      BY <2>1 DEF RouteInv
  <1> QED
    BY <1>1, TypeInit, TypeStep, RouteInit, RouteStep, PTL DEF Spec, RouteAfterService

-----------------------------------------------------------------------------
(***************************************************************************)
(* Components that wait for each other.                                    *)
(***************************************************************************)

\* The components of graph g that may follow those that have come.
MayFollow(g, come) == {c \in DOMAIN g \ come : g[c] \subseteq come}

LEMMA FirstInSet ==
    ASSUME NEW S \in SUBSET Components, S # {}
    PROVE  First(S) \in S
  <1>1. /\ Len(Identifiers) = 3
        /\ Identifiers[1] = "edot-gateway"
        /\ Identifiers[2] = "identity"
        /\ Identifiers[3] = "otel-collector"
    BY DEF Identifiers
  <1> DEFINE IsFirst(i) == /\ Identifiers[i] \in S
                           /\ \A j \in 1..(i - 1) : Identifiers[j] \notin S
  <1>2. \E i \in 1..Len(Identifiers) : IsFirst(i)
    <2>1. CASE "edot-gateway" \in S
      <3>1. IsFirst(1)
        BY <1>1, <2>1
      <3> QED
        BY <1>1, <3>1
    <2>2. CASE "edot-gateway" \notin S /\ "identity" \in S
      <3>1. IsFirst(2)
        BY <1>1, <2>2
      <3> QED
        BY <1>1, <3>1
    <2>3. CASE "edot-gateway" \notin S /\ "identity" \notin S
      <3>1. "otel-collector" \in S
        BY <2>3, ComponentNames
      <3>2. IsFirst(3)
        <4>1. \A j \in 1..(3 - 1) : j = 1 \/ j = 2
          OBVIOUS
        <4> QED
          BY <1>1, <2>3, <3>1, <4>1
      <3> QED
        BY <1>1, <3>2
    <2> QED
      BY <2>1, <2>2, <2>3
  <1>3. IsFirst(CHOOSE i \in 1..Len(Identifiers) : IsFirst(i))
    BY <1>2
  <1> QED
    BY <1>3 DEF First

\* What an order of a graph says of each place.
LEMMA PlaceInOrder ==
    ASSUME NEW g, DOMAIN g \subseteq Components, NEW s \in Orders(g), NEW i \in DOMAIN s
    PROVE  s[i] \in MayFollow(g, {s[j] : j \in 1..(i - 1)})
  <1> DEFINE come == {s[j] : j \in 1..(i - 1)}
  <1>1. MayFollow(g, come) # {} /\ s[i] = First(MayFollow(g, come))
    BY DEF Orders, MayFollow
  <1>2. MayFollow(g, come) \in SUBSET Components
    BY DEF MayFollow
  <1> QED
    BY <1>1, <1>2, FirstInSet

\* An order has every component once.
LEMMA OrderIsComplete ==
    ASSUME NEW g, DOMAIN g \subseteq Components, NEW s \in Orders(g)
    PROVE  /\ s \in Seq(DOMAIN g)
           /\ {s[i] : i \in 1..Len(s)} = DOMAIN g
           /\ \A i \in 1..Len(s) : /\ s[i] \notin {s[j] : j \in 1..(i - 1)}
                                   /\ g[s[i]] \subseteq {s[j] : j \in 1..(i - 1)}
  <1> DEFINE n == Cardinality(DOMAIN g)
  <1>1. IsFiniteSet(DOMAIN g) /\ n \in Nat
    BY ComponentNames, FS_Subset, FS_CardinalityType
  <1>2. s \in [1..n -> DOMAIN g]
    BY DEF Orders
  <1>3. s \in Seq(DOMAIN g) /\ Len(s) = n /\ DOMAIN s = 1..n
    BY <1>1, <1>2
  <1>4. \A i \in 1..n : /\ s[i] \notin {s[j] : j \in 1..(i - 1)}
                        /\ g[s[i]] \subseteq {s[j] : j \in 1..(i - 1)}
    BY <1>3, PlaceInOrder DEF MayFollow
  <1>5. \A i, j \in 1..n : s[i] = s[j] => i = j
    <2>1. \A i, j \in 1..n : i < j => s[i] # s[j]
      BY <1>1, <1>4
    <2> QED
      BY <1>1, <2>1
  <1>6. s \in Injection(1..n, DOMAIN g)
    BY <1>2, <1>5 DEF Injection, IsInjective
  <1>7. Cardinality(1..n) = n
    BY <1>1, FS_Interval
  <1>8. s \in Surjection(1..n, DOMAIN g)
    BY <1>1, <1>6, <1>7, FS_Injection
  <1>9. {s[i] : i \in 1..n} = DOMAIN g
    BY <1>2, <1>8 DEF Surjection
  <1> QED
    BY <1>3, <1>4, <1>9

\* A set that has more elements than one, or two, is not made of so many.
LEMMA LargerSets ==
    ASSUME NEW S, IsFiniteSet(S), NEW a, NEW b
    PROVE  /\ Cardinality(S) >= 1 => S # {}
           /\ Cardinality(S) >= 2 => S # {a}
           /\ Cardinality(S) >= 3 => S # {a, b}
  <1>1. Cardinality({}) = 0
    BY FS_EmptySet
  <1>2. IsFiniteSet({a}) /\ Cardinality({a}) = 1
    BY FS_Singleton
  <1>3. Cardinality({a} \cup {b}) \in {1, 2}
    BY <1>2, FS_AddElement
  <1>4. {a} \cup {b} = {a, b}
    OBVIOUS
  <1>5. ASSUME Cardinality(S) >= 1, S = {} PROVE FALSE
    BY <1>1, <1>5
  <1>6. ASSUME Cardinality(S) >= 2, S = {a} PROVE FALSE
    BY <1>2, <1>6
  <1>7. ASSUME Cardinality(S) >= 3, S = {a, b} PROVE FALSE
    <2>1. Cardinality(S) \in {1, 2}
      BY <1>3, <1>4, <1>7
    <2> QED
      BY <1>7, <2>1
  <1> QED
    BY <1>5, <1>6, <1>7

\* A graph without cycles has an order.
LEMMA WellFoundedHasOrder ==
    ASSUME DOMAIN graph \subseteq Components, WellFounded
    PROVE  newLifecycleGraph(graph)
  <1> DEFINE D == DOMAIN graph
             n == Cardinality(D)
             c1 == First(MayFollow(graph, {}))
             c2 == First(MayFollow(graph, {c1}))
             c3 == First(MayFollow(graph, {c1, c2}))
             s == [i \in 1..n |-> IF i = 1 THEN c1 ELSE IF i = 2 THEN c2 ELSE c3]
  <1>1. IsFiniteSet(D) /\ n \in Nat
    BY ComponentNames, FS_Subset, FS_CardinalityType
  <1>2. n <= 3
    <2>1. Cardinality(Components) <= 3
      <3>1. IsFiniteSet({"edot-gateway"}) /\ Cardinality({"edot-gateway"}) = 1
        BY FS_Singleton
      <3>2. /\ IsFiniteSet({"edot-gateway"} \cup {"identity"})
            /\ Cardinality({"edot-gateway"} \cup {"identity"}) <= 2
        BY <3>1, FS_AddElement
      <3>3. Cardinality({"edot-gateway"} \cup {"identity"}) \in Nat
        BY <3>2, FS_CardinalityType
      <3>4. Cardinality(({"edot-gateway"} \cup {"identity"}) \cup {"otel-collector"}) <= 3
        BY <3>2, <3>3, FS_AddElement
      <3>5. ({"edot-gateway"} \cup {"identity"}) \cup {"otel-collector"} = Components
        BY ComponentNames
      <3> QED
        BY <3>4, <3>5
    <2>2. Cardinality(D) <= Cardinality(Components) /\ Cardinality(Components) \in Nat
      BY ComponentNames, FS_Subset, FS_CardinalityType
    <2> QED
      BY <1>1, <2>1, <2>2
  <1>3. ASSUME NEW come \in SUBSET D, come # D
        PROVE  MayFollow(graph, come) # {} /\ First(MayFollow(graph, come)) \in D
    <2>1. PICK c \in D \ come : graph[c] \cap (D \ come) = {}
      BY <1>3 DEF WellFounded
    <2>2. graph[c] \subseteq D
      BY DEF WellFounded
    <2>3. c \in MayFollow(graph, come)
      BY <2>1, <2>2 DEF MayFollow
    <2>4. MayFollow(graph, come) \in SUBSET Components /\ MayFollow(graph, come) \subseteq D
      BY DEF MayFollow
    <2> QED
      BY <2>3, <2>4, FirstInSet
  <1>c. /\ c1 = First(MayFollow(graph, {}))
        /\ c2 = First(MayFollow(graph, {c1}))
        /\ c3 = First(MayFollow(graph, {c1, c2}))
    OBVIOUS
  <1> HIDE DEF c1, c2, c3
  <1>4. n >= 1 => MayFollow(graph, {}) # {} /\ c1 \in D
    BY <1>1, <1>3, <1>c, LargerSets
  <1>5. n >= 2 => MayFollow(graph, {c1}) # {} /\ c2 \in D
    BY <1>1, <1>3, <1>4, <1>c, LargerSets
  <1>6. n >= 3 => MayFollow(graph, {c1, c2}) # {} /\ c3 \in D
    BY <1>1, <1>3, <1>4, <1>5, <1>c, LargerSets
  <1>7. s \in [1..n -> D]
    BY <1>1, <1>2, <1>4, <1>5, <1>6
  <1>8. ASSUME NEW i \in DOMAIN s
        PROVE  /\ MayFollow(graph, {s[j] : j \in 1..(i - 1)}) # {}
               /\ s[i] = First(MayFollow(graph, {s[j] : j \in 1..(i - 1)}))
    <2>0. i \in 1..n /\ (i = 1 \/ i = 2 \/ i = 3)
      BY <1>1, <1>2
    <2>1. CASE i = 1
      <3>1. {s[j] : j \in 1..(i - 1)} = {}
        BY <2>1
      <3>2. s[i] = c1 /\ n >= 1
        BY <2>0, <2>1, <1>1
      <3> QED
        BY <3>1, <3>2, <1>4, <1>c
    <2>2. CASE i = 2
      <3>1. 1..(i - 1) = {1} /\ 1 \in 1..n
        BY <2>0, <2>2, <1>1
      <3>2. {s[j] : j \in 1..(i - 1)} = {c1}
        BY <3>1
      <3>3. s[i] = c2 /\ n >= 2
        BY <2>0, <2>2, <1>1
      <3> QED
        BY <3>2, <3>3, <1>5, <1>c
    <2>3. CASE i = 3
      <3>1. 1..(i - 1) = {1, 2} /\ 1 \in 1..n /\ 2 \in 1..n
        BY <2>0, <2>3, <1>1
      <3>2. {s[j] : j \in 1..(i - 1)} = {c1, c2}
        <4>1. s[1] = c1 /\ s[2] = c2
          BY <3>1
        <4>2. {s[j] : j \in 1..(i - 1)} = {s[1], s[2]}
          <5> HIDE DEF s
          <5> QED
            BY <3>1
        <4> QED
          BY <4>1, <4>2
      <3>3. s[i] = c3 /\ n >= 3
        BY <2>0, <2>3, <1>1
      <3> QED
        BY <3>2, <3>3, <1>6, <1>c
    <2> QED
      BY <2>0, <2>1, <2>2, <2>3
  <1>9. s \in Orders(graph)
    <2> HIDE DEF s
    <2> QED
      BY <1>7, <1>8 DEF Orders, MayFollow
  <1> QED
    BY <1>9 DEF newLifecycleGraph, WellFounded

ComponentSteps == IdentitySteps \cup TelemetrySteps

\* Of a graph without cycles, once it is built: the pass goes through an order of it; what a
\* component waits for has come before it; a result is "Blocked" exactly when
\* something the component waits for is not ready; a component at work has all
\* it waits for; and a pass reports only after the last turn.
ResultInv ==
    WellFounded /\ order # << >> =>
        /\ order \in Orders(graph)
        /\ \A c \in DOMAIN results : graph[c] \subseteq DOMAIN results
        /\ \A c \in DOMAIN results :
             results[c] = "Blocked" <=> \E d \in graph[c] : results[d] # "Ready"
        /\ at \in ComponentSteps => blockingDependenciesForNode(Current) = {}
        /\ at = "updateStatus" => turn > Len(order)

LEMMA ResultInit == Init => ResultInv
  BY DEF Init, ResultInv

\* The ways in which a step may touch the results.
LEMMA WorkerMoves ==
    ASSUME TypeInv, [Next]_vars
    PROVE  /\ graph' = graph
           /\ \/ reconcileBaseResources
              \/ /\ at = "component" /\ turn <= Len(order)
                 /\ blockingDependenciesForNode(Current) # {}
                 /\ Record("Blocked")
              \/ /\ at = "component"
                 /\ blockingDependenciesForNode(Current) = {}
                 /\ at' \in ComponentSteps /\ UNCHANGED <<order, turn, results>>
              \/ /\ at = "component" /\ turn > Len(order)
                 /\ at' = "updateStatus" /\ UNCHANGED <<order, turn, results>>
              \/ /\ at \in ComponentSteps
                 /\ at' \in ComponentSteps /\ UNCHANGED <<order, turn, results>>
              \/ /\ at \in ComponentSteps
                 /\ \E state \in {"Ready", "Progressing", "Degraded"} : Record(state)
              \/ order' = << >>
              \/ UNCHANGED <<at, order, turn, results>>
  <1>0. CASE reconcileBaseResources
    BY <1>0 DEF reconcileBaseResources, Looks, adminVars
  <1>a. CASE Reconcile
    BY <1>a DEF Reconcile, Looks, adminVars, TypeInv, WorkerType
  <1>1. CASE runComponentOperations
    BY <1>1 DEF runComponentOperations, Looks, adminVars, Goto, ComponentSteps,
                IdentitySteps, TelemetrySteps
  <1>2. CASE AllDone
    BY <1>2 DEF AllDone, Looks, adminVars, Goto
  <1>3. CASE updateStatus \/ Crash
    BY <1>3 DEF updateStatus, Crash, EndPass, adminVars
  <1>4. CASE reconcileKeycloak
    <2>1. graph' = graph
      BY <1>4 DEF reconcileKeycloak, EnsureIssuerExists, EnsureCertificate, IsCertificateReady,
                  EnsureInstance, IsReady, EnsureHTTPRoute, EnsureMasterRealm, IsRealmReady,
                  EnsureInternalAdminUser, IsUserReady, EnsureRootUser, EnsureNetEyeClient,
                  ensureAuthFlow, EnsureBootstrapAdminDisabled, Ensure, Gate, Declare, Looks,
                  adminVars
    <2>2. at \in IdentitySteps
      BY <1>4 DEF reconcileKeycloak, EnsureIssuerExists, EnsureCertificate, IsCertificateReady,
                  EnsureInstance, IsReady, EnsureHTTPRoute, EnsureMasterRealm, IsRealmReady,
                  EnsureInternalAdminUser, IsUserReady, EnsureRootUser, EnsureNetEyeClient,
                  ensureAuthFlow, EnsureBootstrapAdminDisabled, Ensure, Gate, Declare,
                  IdentitySteps
    <2>3. \/ Record("Ready") \/ Record("Progressing") \/ Record("Degraded")
          \/ \E next \in IdentitySteps : Goto(next)
      BY <1>4 DEF reconcileKeycloak, EnsureIssuerExists, EnsureCertificate, IsCertificateReady,
                  EnsureInstance, IsReady, EnsureHTTPRoute, EnsureMasterRealm, IsRealmReady,
                  EnsureInternalAdminUser, IsUserReady, EnsureRootUser, EnsureNetEyeClient,
                  ensureAuthFlow, EnsureBootstrapAdminDisabled, Ensure, Gate, Declare,
                  IdentitySteps
    <2> QED
      BY <2>1, <2>2, <2>3 DEF Goto, ComponentSteps
  <1>5. CASE telemetryEnsure
    <2>1. graph' = graph
      BY <1>5 DEF telemetryEnsure, requiredSecretResourceVersion, EnsureConfigMap,
                  configMapResourceVersion, EnsureDeployment, EnsureRoutes, routeReady,
                  IsDeploymentReady, Delete, Ensure, Gate, Looks, adminVars
    <2>2. at \in TelemetrySteps
      BY <1>5 DEF telemetryEnsure, requiredSecretResourceVersion, EnsureConfigMap,
                  configMapResourceVersion, EnsureDeployment, EnsureRoutes, routeReady,
                  IsDeploymentReady, Delete, Ensure, Gate, TelemetrySteps
    <2>3. \/ Record("Ready") \/ Record("Progressing") \/ Record("Degraded")
          \/ at' \in TelemetrySteps /\ UNCHANGED <<order, turn, results>>
      BY <1>5 DEF telemetryEnsure, requiredSecretResourceVersion, EnsureConfigMap,
                  configMapResourceVersion, EnsureDeployment, EnsureRoutes, routeReady,
                  IsDeploymentReady, Delete, Ensure, Gate, Goto, TelemetrySteps
    <2> QED
      BY <2>1, <2>2, <2>3 DEF ComponentSteps
  <1>6. CASE CallFails
    BY <1>6 DEF CallFails, Looks, adminVars, TypeInv, WorkerType, ComponentSteps
  <1>7. CASE Disturbance
    BY <1>7, DisturbanceType DEF TypeInv, PassAlone
  <1>8. CASE \/ \E x \in Items : ItemReady(x)
             \/ RealmController
             \/ \E u \in Accounts : UserController(u)
             \/ \E c \in Telemetry : Rollout(c) \/ SyncConfig(c) \/ SyncDeployment(c)
             \/ \E r \in Declared : SyncDeclared(r)
             \/ SyncSecret \/ Settle
    BY <1>8, OthersType DEF TypeInv, workerVars
  <1>9. CASE UNCHANGED vars
    BY <1>9 DEF vars
  <1> QED
    BY <1>0, <1>a, <1>1, <1>2, <1>3, <1>4, <1>5, <1>6, <1>7, <1>8, <1>9 DEF Next, PassStep

\* A recorded result that is "Blocked" exactly when the component had to wait.
LEMMA RecordResult ==
    ASSUME TypeInv, ResultInv, graph' = graph, turn <= Len(order),
           NEW state, Record(state),
           state = "Blocked" <=> blockingDependenciesForNode(Current) # {}
    PROVE  ResultInv'
  <1> SUFFICES ASSUME WellFounded
               PROVE  ResultInv'
    BY DEF ResultInv, WellFounded
  <1>0. order # << >>
    BY DEF TypeInv, WorkerType
  <1>1. /\ order \in Orders(graph) /\ DOMAIN graph \subseteq Components
        /\ turn \in 1..Len(order) /\ DOMAIN results = {order[i] : i \in 1..(turn - 1)}
    BY <1>0 DEF ResultInv, TypeInv, WorkerType
  <1>2. Current \notin DOMAIN results /\ graph[Current] \subseteq DOMAIN results
    BY <1>1, OrderIsComplete DEF Current
  <1>3. /\ DOMAIN results' = DOMAIN results \cup {Current}
        /\ results'[Current] = state
        /\ \A c \in DOMAIN results : results'[c] = results[c]
        /\ at' = "component" /\ order' = order
    BY <1>2 DEF Record
  <1>4. at' \notin ComponentSteps
    BY <1>3 DEF ComponentSteps, IdentitySteps, TelemetrySteps
  <1>5. \A c \in DOMAIN results' : graph[c] \subseteq DOMAIN results
    BY <1>0, <1>2, <1>3 DEF ResultInv
  <1>6. \A c \in DOMAIN results' :
          results'[c] = "Blocked" <=> \E d \in graph[c] : results'[d] # "Ready"
    <2>1. state = "Blocked" <=> \E d \in graph[Current] : results[d] # "Ready"
      BY <1>2 DEF blockingDependenciesForNode
    <2>2. ASSUME NEW c \in DOMAIN results
          PROVE  results'[c] = "Blocked" <=> \E d \in graph[c] : results'[d] # "Ready"
      BY <1>0, <1>3, <1>5, <2>2 DEF ResultInv
    <2> QED
      BY <1>2, <1>3, <2>1, <2>2
  <1> QED
    BY <1>1, <1>3, <1>4, <1>5, <1>6 DEF ResultInv

LEMMA ResultStep == TypeInv /\ ResultInv /\ [Next]_vars => ResultInv'
  <1> SUFFICES ASSUME TypeInv, ResultInv, [Next]_vars PROVE ResultInv'
    OBVIOUS
  <1> USE DEF ComponentSteps
  <1>0. graph' = graph /\ (WellFounded' <=> WellFounded) /\ DOMAIN graph \subseteq Components
    BY WorkerMoves DEF WellFounded, TypeInv, WorkerType
  <1>1. CASE reconcileBaseResources
    <2> SUFFICES ASSUME WellFounded, order' # << >> PROVE ResultInv'
      BY <1>0 DEF ResultInv
    <2>1. order = << >> /\ DOMAIN results = {}
      BY <1>1 DEF reconcileBaseResources, TypeInv, WorkerType
    <2>2. /\ newLifecycleGraph(graph)
          /\ at' = "component" /\ order' = setOrder(graph) /\ results' = results
      BY <1>1, <2>1 DEF reconcileBaseResources, EndsEarly
    <2>4. setOrder(graph) \in Orders(graph)
      BY <1>0, <2>2, OrderOfGraph, Zenon
    <2>5. at' \notin IdentitySteps \cup TelemetrySteps
      BY <2>2 DEF IdentitySteps, TelemetrySteps
    <2> QED
      BY <1>0, <2>1, <2>2, <2>4, <2>5 DEF ResultInv
  <1>2. CASE /\ at = "component" /\ turn <= Len(order)
             /\ blockingDependenciesForNode(Current) # {}
             /\ Record("Blocked")
    BY <1>0, <1>2, RecordResult
  <1>3. CASE /\ at = "component"
             /\ blockingDependenciesForNode(Current) = {}
             /\ at' \in ComponentSteps /\ UNCHANGED <<order, turn, results>>
    <2>1. at' # "updateStatus"
      BY <1>3 DEF IdentitySteps, TelemetrySteps
    <2>2. (blockingDependenciesForNode(Current) = {})'
      BY <1>0, <1>3 DEF blockingDependenciesForNode, Current
    <2> QED
      BY <1>0, <1>3, <2>1, <2>2 DEF ResultInv
  <1>4. CASE /\ at = "component" /\ turn > Len(order)
             /\ at' = "updateStatus" /\ UNCHANGED <<order, turn, results>>
    <2>1. at' \notin ComponentSteps
      BY <1>4 DEF IdentitySteps, TelemetrySteps
    <2> QED
      BY <1>0, <1>4, <2>1 DEF ResultInv
  <1>5. CASE /\ at \in ComponentSteps
             /\ at' \in ComponentSteps /\ UNCHANGED <<order, turn, results>>
    <2>1. at' # "updateStatus" /\ order # << >>
      BY <1>5 DEF IdentitySteps, TelemetrySteps, TypeInv, WorkerType
    <2>2. WellFounded => (blockingDependenciesForNode(Current) = {})'
      BY <1>0, <1>5, <2>1 DEF ResultInv, blockingDependenciesForNode, Current
    <2> QED
      BY <1>0, <1>5, <2>1, <2>2 DEF ResultInv
  <1>6. CASE /\ at \in ComponentSteps
             /\ \E state \in {"Ready", "Progressing", "Degraded"} : Record(state)
    <2>1. PICK state \in {"Ready", "Progressing", "Degraded"} : Record(state)
      BY <1>6
    <2>2. turn <= Len(order) /\ order # << >>
      BY <1>6 DEF IdentitySteps, TelemetrySteps, TypeInv, WorkerType
    <2>3. CASE WellFounded
      <3>1. blockingDependenciesForNode(Current) = {}
        BY <1>6, <2>2, <2>3 DEF ResultInv
      <3> QED
        BY <1>0, <2>1, <2>2, <3>1, RecordResult
    <2>4. CASE ~WellFounded
      BY <1>0, <2>4 DEF ResultInv
    <2> QED
      BY <2>3, <2>4
  <1>7. CASE order' = << >>
    BY <1>7 DEF ResultInv
  <1>8. CASE UNCHANGED <<at, order, turn, results>>
    BY <1>0, <1>8 DEF ResultInv, blockingDependenciesForNode, Current
  <1> QED
    BY <1>1, <1>2, <1>3, <1>4, <1>5, <1>6, <1>7, <1>8, WorkerMoves

\* Three components that do not wait in circles wait over two steps at most.
LEMMA ShortChains ==
    ASSUME WellFounded, DOMAIN graph \subseteq Components,
           NEW c \in DOMAIN graph, NEW d \in graph[c], NEW e \in graph[d], NEW f \in graph[e]
    PROVE  FALSE
  <1>1. d \in DOMAIN graph /\ e \in DOMAIN graph /\ f \in DOMAIN graph
    BY DEF WellFounded
  <1>2. ASSUME NEW x \in DOMAIN graph PROVE x \notin graph[x]
    <2>1. \E y \in {x} : graph[y] \cap {x} = {}
      BY <1>2 DEF WellFounded
    <2> QED
      BY <2>1
  <1>3. ASSUME NEW x \in DOMAIN graph, NEW y \in graph[x], y \in DOMAIN graph
        PROVE  x \notin graph[y]
    <2>1. \E z \in {x, y} : graph[z] \cap {x, y} = {}
      BY <1>3 DEF WellFounded
    <2> QED
      BY <2>1
  <1>4. c \notin graph[e]
    <2>1. \E z \in {c, d, e} : graph[z] \cap {c, d, e} = {}
      BY <1>1 DEF WellFounded
    <2> QED
      BY <2>1
  <1>5. c # d /\ d # e /\ e # f /\ c # e /\ d # f
    BY <1>1, <1>2, <1>3
  <1>6. c # f
    BY <1>4
  <1> QED
    BY <1>1, <1>5, <1>6, ComponentNames

\* A complete pass leaves out exactly the components that stand on one in trouble
\* of its own, for every graph without cycles and whatever fails on the way
\* (BlockedByTrouble; setOrder and runComponentOperations).
THEOREM OnlyTroubleBlocks == Spec => []BlockedByTrouble
  <1>1. TypeInv /\ ResultInv => BlockedByTrouble
    <2> SUFFICES ASSUME TypeInv, ResultInv, at = "updateStatus", order # << >>, WellFounded,
                        NEW c \in DOMAIN graph
                 PROVE  results[c] = "Blocked" <=>
                          \E d \in Above(c) : results[d] \in {"Progressing", "Degraded"}
      BY DEF BlockedByTrouble
    <2>1. DOMAIN graph \subseteq Components /\ order \in Orders(graph)
      BY DEF TypeInv, WorkerType, ResultInv
    <2>2. DOMAIN results = DOMAIN graph
      <3>1. turn - 1 = Len(order)
        BY DEF TypeInv, WorkerType, ResultInv
      <3>2. DOMAIN results = {order[i] : i \in 1..Len(order)}
        BY <3>1 DEF TypeInv, WorkerType
      <3> QED
        BY <2>1, <3>2, OrderIsComplete
    <2>3. \A x \in DOMAIN graph :
            /\ graph[x] \subseteq DOMAIN graph
            /\ results[x] = "Blocked" <=> \E d \in graph[x] : results[d] # "Ready"
            /\ results[x] \in {"Ready", "Progressing", "Degraded", "Blocked"}
      BY <2>2 DEF ResultInv, TypeInv, WorkerType
    <2>4. ASSUME results[c] = "Blocked"
          PROVE  \E d \in Above(c) : results[d] \in {"Progressing", "Degraded"}
      <3>1. PICK d \in graph[c] : results[d] # "Ready"
        BY <2>3, <2>4
      <3>2. CASE results[d] # "Blocked"
        BY <2>3, <3>1, <3>2 DEF Above
      <3>3. CASE results[d] = "Blocked"
        <4>1. PICK e \in graph[d] : results[e] # "Ready"
          BY <2>3, <3>3
        <4>2. results[e] # "Blocked"
          <5>1. d \in DOMAIN graph /\ e \in DOMAIN graph
            BY <2>3
          <5> QED
            BY <2>1, <2>3, <5>1, ShortChains
        <4>3. e \in Above(c)
          BY DEF Above
        <4>4. e \in DOMAIN graph
          BY <2>3
        <4> QED
          BY <2>3, <4>1, <4>2, <4>3, <4>4
      <3> QED
        BY <3>2, <3>3
    <2>5. ASSUME NEW d \in Above(c), results[d] \in {"Progressing", "Degraded"}
          PROVE  results[c] = "Blocked"
      <3>1. CASE d \in graph[c]
        BY <2>3, <2>5, <3>1
      <3>2. ASSUME NEW e \in graph[c], d \in graph[e]
            PROVE  results[c] = "Blocked"
        <4>1. results[e] = "Blocked"
          BY <2>3, <2>5, <3>2
        <4> QED
          BY <2>3, <4>1
      <3> QED
        BY <3>1, <3>2 DEF Above
    <2> QED
      BY <2>4, <2>5
  <1> QED
    BY <1>1, TypeInit, TypeStep, ResultInit, ResultStep, PTL DEF Spec
=============================================================================
