# Verification of the NetEye operator

This directory holds TLA+ models of the NetEye operator (the Go program in this
repository), configurations that check them with TLC, and theorems that TLAPS
proves. Paths below are relative to the root of the repository; `K/` stands for
`src/internal/keycloak/`, `C/` for `src/controllers/`, `R/` for
`src/internal/resources/`, `S/` for `src/internal/elasticstack/` and `A/` for
`src/api/v1alpha1/`.

## 1. The system

The operator is one process with a controller-runtime manager. Each controller
has a single worker and a work queue; they share an API client whose reads of
typed objects come from informer caches, while unstructured objects are read
from the API server. Every write can conflict with somebody else's, every call
can fail, take effect without an answer, or be cut off by a restart.

| Component | State it keeps | Operations | Hard because | Correct when |
|---|---|---|---|---|
| NetEye controller (`C/neteye_controller.go`) | NetEye status, the cluster authority Lease, the phase of the pass | `Reconcile`, `ensureClusterAuthority`, `reconcileBaseResources`, `reconcileKeycloak`, `updateStatus` | reads from stale copies, racing NetEyes, partial failure | one NetEye owns the platform; its phase tells the truth |
| Admission webhook (`A/neteye_webhook.go`) | none | `ValidateCreate`, `ValidateUpdate` | looks before the resource is stored | the Lease covers what it cannot |
| Component lifecycle graph (`C/component_reconciliation.go`) | results of the pass | `newLifecycleGraph`, `runComponentOperations` | dependencies, one of several failing | every component gets its turn or is reported blocked |
| Shared resource library (`R/`) | Kubernetes objects and their owner references | `Apply`, `EnsureConfigMap` and siblings, `RequireManagedOwner` | check-then-act on objects others may own | never takes or changes what belongs to others; converges |
| Telemetry components (`S/`) | collector and EDOT gateway objects | `Ensure`, `Delete` | enabled and disabled again while others act | deletes only its own |
| Keycloak component (`K/component.go`, `masterrealm.go`, `rootuser.go`, `neteyeclient.go`, `authflows.go`) | Keycloak instance, declared realm, users, client, flows | `EnsureResources`, `IsReady`, `Ensure...` | waits on resources other controllers answer for | declares everything once, becomes Ready |
| Internal administrator (`K/internaladmin.go`) | the internal account, its Secret, the bootstrap account | `EnsureInternalAdminUser`, `EnsureBootstrapAdminDisabled` | two controllers, Kubernetes and Keycloak, no transaction | never locked out; bootstrap account retired |
| Admin access (`K/adminprovider.go`) | cached client, throttle deadline | `Get`, registry `For`/`Forget` | cached proof of a credential that may change | hands out clients that work |
| Resource controllers (`C/keycloak*_controller.go`) | KeycloakRealm, KeycloakClient, KeycloakUser, KeycloakAuthFlow and their finalizers | `Reconcile`, `reconcileDelete`, `setStatus` | deletion and re-creation during a pass, restarts | nothing left behind; deletions complete; converges |
| Synchronisation (`K/*sync.go`) | objects in Keycloak | `ReconcileRealm`, `ReconcileClient`, `ReconcileUser`, `ReconcileFlow`, `Delete...` | read-modify-write without versions | what is there equals the spec |
| Admin REST client (`K/admin.go`, `adminusers.go`) | token | `authenticate`, `do` | lost answers | |

How they interact: the NetEye controller creates Keycloak resources and reads
their status; the resource controllers answer through the status and through
Secrets; both sides talk to Keycloak with clients from their own
`AdminProvider`, which reads the Secrets the KeycloakUser controller writes.
The garbage collector removes what a deleted NetEye owned.

`PROJECT.json` lists the components, the modelled ones and those left out, and
under "hazards" the places where a test would hardly reach.

## 2. Modules

| Module | What it is |
|---|---|
| `AdminProvider` | `AdminProvider.Get` as the set of its outcomes; no state |
| `AdminAccess` | the internal administrator: KeycloakUser worker, NetEye worker, environment; extends `AdminProvider` and uses it for both providers of the operator |
| `KeycloakResources` | the four resource controllers, one resource of each kind, against one Keycloak |
| `FlowSync` | `ReconcileFlow` call by call, next to the realm controller that writes the same realm |
| `Platform` | webhook, NetEye controller, Lease, shared objects, garbage collector |
| `ComponentPass` | the lifecycle graph and what each component does in its turn |
| `Custody` | abstract: who answers for an object in Keycloak; implemented by `KeycloakResources` |
| `Authority` | abstract: an office that one NetEye holds; implemented by `Platform` |
| `AdminAccessProofs`, `KeycloakResourcesProofs`, `PlatformProofs`, `ComponentPassProofs`, `FlowSyncProofs`, `FlowPassProofs` | theorems; `FlowPassProofs` extends `FlowSyncProofs` |
| `MCAdminAccess`, `MCKeycloakResources`, `MCFlowSync`, `MCPlatform`, `MCComponentPass` | instances for TLC |

The modules fit together along the same steps. `KeycloakResources` treats a
synchronisation as a few calls that may fail; `FlowSync` opens the longest of
them. `Platform` treats a component as an object to apply; `ComponentPass` opens
the components and leaves ownership to `Platform`. What `ComponentPass` has as
one step of the KeycloakRealm or the KeycloakUser controller is a pass of
`KeycloakResources`, and its last step for the identity component is
`AdminAccess`.

Operators named *Mutant* in a comment are wrong variants of the definition
below them. No specification uses them; putting one in the place of that
definition must break the property it is listed with in `PROJECT.json`.

### Conventions

* A remote call is a step. Local computation between two calls belongs to the
  step of the call before it. What a pass remembers between calls is a record
  (`u`, `loc`, `pass`), reset when the worker is idle.
* Informer copies (`seen...`) are variables of their own that catch up in a
  separate step. A restart lists everything and so brings them up to date.
* An update carries the resource version that was read. As versions are unique,
  it is modelled as a comparison of the object with the copy that was read.
* `settled` becomes TRUE once, at an arbitrary moment; after that nobody but the
  operator, the API server, the informers and the garbage collector acts, and
  calls do not fail. Safety is checked before and after; liveness properties
  say what follows once it holds.
* A call that fails before it takes effect and one that takes effect without an
  answer are different disjuncts.

### AdminAccess

State: the account in Keycloak (`acctPwd`, `acctAdmin`), the bootstrap account
(`bootEnabled`) and its Secret (`bootSecret`), the Secret of the internal
account (`secret`), its KeycloakUser (`kcu`), the two providers (`registry`,
`component`), the two workers. `Reconcile` to `setStatus` are the calls of
`KeycloakUserReconciler.Reconcile` in order; `EnsureInternalAdminUser` to
`DisableBootstrapUser` those of the end of `reconcileKeycloak`. The gates for
the root user, the NetEye client and the flows that lie between `IsUserReady`
and `EnsureBootstrapAdminDisabled` only delay; they are one choice in
`IsUserReady`.

A password is a model value; a generated one is any that nobody holds. A client
for the internal account keeps being honoured after a password reset, because
its token lives on until it expires (`Honoured`), but may be refused as well.
The throttle deadline is a flag that time clears.

Initial states are the fresh installation, a Keycloak database that already has
the internal account, and a migrated one together with its Secret. A Secret
whose password is not that of the account at the start is not among them.

### KeycloakResources

A resource is its phase, UID, the name its spec gives the object (alias,
username, clientId), generation, deletion policy, finalizer and status. An
object in Keycloak is reduced to the generation whose spec it has (0 for
anything else) and to whether Keycloak refuses to remove it; there may be one
under each name. Only `spec.realm` of a KeycloakRealm is immutable, so that
`Edit` may rename the object of any other kind: the next pass looks for the new
name, creates what is missing, and nobody comes back for the old one. The
variable `left` records the names for which nobody needs to answer: those of
objects that were there before and of those the operator let go on purpose
(policy Orphan, missing credentials, master realm, built-in flow). `renamed`
records the names that a resource with the finalizer has turned away from. Both
have no counterpart in the code and no step depends on them.

`Synchronise` is the common shape of `ReconcileRealm`, `ReconcileClient`,
`ReconcileUser` and `ReconcileFlow`; the last three do several calls ("parts"),
of which each may fail and leave the object incomplete. The client's Secret,
its mappers, scopes and roles, a user's groups and roles and the executions of
a flow are all part of being complete.

### Platform

`ne`, `lease` and `obj` are what Kubernetes holds. UID 0 stands for none. The
webhook's list and the storage of the resource are two steps (`ValidateCreate`,
`Store`), which is how two NetEyes come about. `obj` has one representative for
each way the code treats objects: "gateway" for the base resources, whose
failure ends the pass; "keycloak" for the identity component, read live and
applied with `Apply`; "collector" for typed objects, read from the informer and
written by `EnsureConfigMap`, `EnsureDeployment` and `EnsureService`, and
removed by `deleteOwnedResources` when the Elastic Stack is disabled. The
rendered spec of "gateway" depends on the NetEye (telemetry listeners), the
others have one rendered spec; any other spec is FALSE.

The order of the objects is the order of the code: base resources, then the
components in the order of the lifecycle graph, which has no edges between
them. `NetEye.status.phase` is kept in a variable of its own. `updateStatus`
writes it when the informer's copy is current and may give up when it is not:
the code tries again from the informer and stops after a few conflicts.

### FlowSync

`tree` holds the executions of all flows in Keycloak, each with its parent flow,
requirement, configuration and priority; subflows are executions whose name is
the alias of a flow. `stack` is the recursion of `reconcileFlowExecutions`: one
frame for each flow the pass is in, with the list it has read (`live`), the
executions it has claimed (`used`) and the entry it is at. The steps are the
calls of `K/authflowsync.go`, with the local work after each: `ensureRootFlow`,
`List`, `Match` (`matchingExecution`), `Create` and `Relist`,
`UpdateExecutionRequirement`, `Descend`, `reconcileAuthenticatorConfig` and its
write, `Prune` and `DeleteExecution`, `Order` and `reconcileExecutionOrder`,
`GetBoundRealm` and `BindFlow`. `GetRealm` and `UpdateRealm` are the realm
controller's pass; both controllers write back the whole representation they
have read.

Keycloak is modelled from how the client uses it (marked external): a flow is
listed by priority, in any order where priorities are equal; a new execution
is disabled and comes with priority 0; an update without a priority may or may
not reset it; an alias is unique in its realm; empty configuration values are
dropped; with a subflow go its executions. A call that took effect without an
answer needs no disjunct of its own: the effect followed by an end of the pass
before the next call is the same. `clean` records that nobody has interfered
since the pass began, `finished` the flows that the pass is through with, and
`budget` bounds disturbances; no step of a controller reads any of them.

A spec is a function from the aliases of its flows to their lists. `IsSpec` says
what the API type says of it: it is a tree below the root flow with at most
three levels, an entry is an authenticator or a subflow, and only an
authenticator has a configuration. The API type does not say that a flow has an
authenticator once (`NoTwins`), nor that the alias of an entry is not that of
another authenticator's configuration (`AliasesTell`), so these are no
assumptions of the module; where a property needs them it says so.

### ComponentPass

`at` is the call the pass makes next, `order`, `turn` and `results` are those of
`runComponentOperations`. `newLifecycleGraph` and `setOrder` are operators over
any graph of the three components. In `reconcileKeycloak` every call and every
gate is a step. What others bring up (`applied`) goes from absent to pending to
ready by itself and may fall back or be deleted by hand; when the Keycloak
instance is (`InstanceDeleted`), its Service goes too and the route stays, and
`lost` remembers for the rest of the pass that it happened. `decl` holds the
Keycloak resources the pass declares, `seenDecl` the informer's copies. The two authentication flows are
declared alike and one after the other and stand as one. `policy` is the
password policy of the realm in Keycloak ("original" before the operator has
set one) and `minted` the policy under which each account got its password
("migrated" for one that was there before the operator).

A pass begins with `reconcileBaseResources`. Without the Issuer, or when one of
its calls fails, the pass ends there: phase Failed, Elastic Stack Unknown, no
component run. The graph is built after it, and one that cannot be built ends
the pass in the same way. The identity component looks for the Issuer once
more, which matters only when it goes in between. `bootstrap` says whether there
is a Secret of a bootstrap account; in a migrated installation there is none,
and `EnsureBootstrapAdminDisabled` ends Progressing every time (this is the
finding of `AdminAccessMigrated`).

A telemetry component reads its Secrets (taken together), writes its ConfigMap,
reads its version back, writes the Deployment with both versions as annotations
and looks at the rollout; the collector also has routes and certificates.
Versions count up and a deleted ConfigMap does not get an old one back. Service
and network policies are applied and never looked at, so they are not there.
A pass works from the copy of the NetEye it started with (`asked`).

`ServiceState` and `aggregateElasticStackStatus` make the status of the Elastic
Stack, `aggregateComponentPhase` the phase. The graph `Reconcile` builds has no
edges; the code allows any, so graphs with dependencies are checked as well.

### Custody and Authority

`Custody` says what the resource controllers promise together: a thing is
claimed (finalizer), put there, may vanish, and is let go when it is gone or
knowingly given up. A holder may be made to turn to another thing (a rename);
the one it drops is nobody's, and a pass under way may still put it there. A
thing is a kind with a name. `KeycloakResources` maps `held` to the names in
the specs of resources with the finalizer, `present` to the objects in Keycloak,
`free` to `left` and `dropped` to `renamed`.
`Authority` says what the Lease is for: at most one NetEye holds the office, for
as long as it lives, and a living NetEye takes nothing without it. `Platform`
maps `alive` to the UIDs of existing NetEyes, `holder` to the holder of the Lease
and `owner` to the owners of the objects. Both maps are at the end of the
detailed modules.

## 3. What is checked

`tlc -config X.cfg M`, with the module of each run in `PROJECT.json`.

| Run | States | Question | Answer |
|---|---|---|---|
| `AdminAccessSafety` | 2.7 million | Can two rotations, interrupted anywhere, with stale copies and lost answers, lock the platform out (`NotLockedOut`)? Is a password stored that the account does not have (`StoresWorkingPassword`)? | Only a rotation cut short can, and the account still exists then; no |
| `AdminAccessLiveness` | 300 thousand | Is the bootstrap account retired, does the provider come back after a rejection, do deletions end? | yes |
| `KeycloakResourcesLifecycle` | 480 thousand | One flow, two generations, created twice, crashes anywhere, either possibly built in and with all other disturbances, or renamed: does a pass act for a resource that is not the one it read (`HoldsResource`)? Does an object stay behind (`NothingLeaked`)? Is every step one of `Custody` (`KeepsCustody`)? Do object and status converge, do deletions end? | no; only one that a rename has dropped; yes; yes |
| `KeycloakResourcesRealm` | 1.2 million | A realm, possibly master, and a user in it with two workers, where the removal of the realm takes the user along: is every step one of `Custody` (`KeepsCustody`)? | yes |
| `Platform` | 370 thousand | Two NetEyes past the webhook, deletions, a Lease without its owner reference: do two existing NetEyes ever own objects (`SingleAuthority`)? Is every step one of `Authority` (`KeepsOffice`)? One NetEye with gateway and collector, edits, releases, squatters and drift: does an object change hands (`NeverAdopts`)? Of both: do Lease, objects and phase come out right (`Converges`)? | no; yes; no; yes |
| `FlowSync` | 295 thousand | Subflows, twins, configurations, an edit or a change in the console between any two calls: is one undisturbed pass enough (`OnePassSuffices`)? Is a flow that is right ever taken apart (`NeverTakenApart`)? Do two writers of the realm converge, and stop writing, order included (`Converges`, `Quiet`)? | yes, but see below; no; yes |
| `ComponentPass` | 544 thousand | Can an account get its password before the realm has its policy (`AccountsUnderPolicy`)? Does a pass create the route before its Service is there (`RouteAfterService`)? Is a component left out for no reason, or run without what it stands on (`BlockedByTrouble`)? Does everything that can run do so on its present Secrets and ConfigMap in the end, and does the status say how it stands (`Converges`)? | no; only when somebody deletes the instance during that pass; no; yes |

Statements of `FlowSync` have exceptions, found with TLC. Two executions of the
same authenticator in one flow may change places in the last step of a pass,
when Keycloak lists equal priorities in another order; the next pass puts them
right (`OnePassSuffices` asks for `NoTwins`). The other two contradict the words
of the API type and violate `Authoritative`, see below: an entry that goes by an
alias takes any execution whose configuration has that alias (`OnePassSuffices`
asks for `AliasesTell`), and a subflow that the spec moves below another flow is
never moved (`Converges` and `Quiet` except `Misplaced`).

Five runs end in a counterexample; each is a place where the code does not do
what the repository says of it ("findings" in `PROJECT.json`):

* `AdminAccessLostPassword`: the account is created and the pass fails before
  the password is stored. No later pass sets or stores one, and the user is
  Ready without its Secret.
* `AdminAccessStaleProof`: the bootstrap account is disabled with a client that
  was verified before a rotation, while the stored password no longer works.
* `AdminAccessMigrated`: `bootstrapAdminCredentials` hides the NotFound that
  `EnsureBootstrapAdminDisabled` looks for. In an installation without a
  bootstrap Secret every pass shows the identity service as Ready with "bootstrap
  admin disable is pending", and ends with the result Progressing: the phase of
  the NetEye never becomes Ready.
* `KeycloakResourcesGoneRealm`: a client, user or flow whose realm was removed
  first can never be deleted, because the lookup in a missing realm is an error.
* `FlowSyncMoved`: `CreateSubflow` is refused as long as the subflow is in its
  old place, and the pass ends before it would remove it there. The list that
  the API type calls "ordered, authoritative" is never brought about.
  (`Authoritative` does not hold for `AliasSpecs` either, put in the place of
  `MovedSpecs`: an authenticator is replaced by another under the same alias, and
  `matchingExecution` finds the old one by its alias and keeps it for good.)

An edit of `clientId`, `username`, `alias` or `realm` makes another object, and the
deletion of the resource removes only that one, although the API types say that
the object "is removed with the resource unless Orphan is asked for explicitly".
`NothingLeaked` has this leak as its only accident: without the disjunct for
`renamed` TLC finds it violated by one edit of a resource that has its object.

`deleteOwnedResources` reads an object from the API server, as it is
unstructured, checks its owner and deletes it by name without a precondition,
so that an object of somebody else put there in between would go too. No
statement in the repository excludes that; it is listed as a hazard.

Bounds. `MaxToken` 2: a first token is recorded without a reset, so the second
is the first that rotates. `Passwords` 3 in the rotating instance: the old, the
new and one in flight; they are interchangeable, which the run with the largest
state space uses as symmetry (it checks invariants only). `MaxGeneration` 2 and
`MaxUid` 2: an edit, or a re-creation, during a pass; a third would repeat what
the second shows, since a pass holds one copy. `Names` 2 in `KeycloakResources`:
the old one and the new one, which also come in turn when the resource is created
again. `Names` 2 for the authority, because the Lease separates one holder from
the rest.

Two runs hold two families of behaviours each, told apart by a variable of the
MC module that never changes, to keep the product of all disturbances out. In
`MCPlatform`, `rivals` are two NetEyes with the Lease, without edits and
squatters, which do not touch it, and with telemetry disabled; or there is one
NetEye, as the Lease leaves one to work on objects, with everything else. The
gateway and the collector stand for the two ways of reading and writing; the
identity component, which is read like the one and whose failure ends the pass
no more than that of the other, is in the theorems. In `MCKeycloakResources`,
`renaming` behaviours have an object that Keycloak lets go of, credentials and
no drift; the others keep the name.

`FlowSync` has three specs of one flow, between which an edit goes: an
authenticator with a requirement and a subflow, bound to a purpose; the subflow
first and emptied and the authenticator twice, once with a configuration; the
subflow one level deeper. With them a pass creates, corrects, reorders, removes,
descends twice and binds. One disturbance comes at any moment, on top of
passes cut short anywhere; a second would come in the same states as the first,
because a disturbed pass is followed by one that starts from nothing. The nine
identifiers are more than an interrupted pass can use.

`ComponentPass` gives each setup one or two kinds of disturbance, each at most
once, and runs a component alone where it waits for nobody: components without
edges share the pass and nothing else. The chain runs against the alphabet, so
that the order by names is wrong for it; the cycle is refused, and the migrated
installation shows that identity, without ever counting as Ready, comes up and
holds back what stands on it. The tests in
`C/component_reconciliation_test.go` build graphs of both kinds.

Deadlock. `AdminAccess`, `FlowSync` and `ComponentPass` never stop. `KeycloakResources` and `Platform` may:
when no resource exists, the bound on creations is used up and everything has
settled, nothing is left to do. The runs of these two do not check deadlock;
what has to go on happening is in the liveness properties.

Fairness. Work queues are FIFO and every pass ends with a requeue
(`reconciliationRequeue`, `failureRequeue`), also without an event, so every
worker step has weak fairness. One worker serves all NetEyes, so a NetEye that
waits for it needs strong fairness of its `Reconcile`: the step is disabled
while the other's pass runs, and the queue gives it its turn. Informers and the
garbage collector are weakly fair. Faults are not assumed to stop within any
time, only to stop some day (weak fairness of `Settle`); administrators need
not do anything. In `FlowSync` each of the two controllers is one worker, so weak
fairness of its next call is enough. In `ComponentPass` the same holds for the
pass; cert-manager, the Keycloak operator and the Gateway's controller bring
things up in finite time, which is what the gates of the code wait for, and the
KeycloakRealm and KeycloakUser controllers come round by their requeue.

## 4. What is proved

All theorems hold for every value of the constants that satisfies the ASSUMEs
of the module, that is for any number of passwords, tokens, kinds, generations,
NetEyes, objects, setups, specs and executions.

* `AdminAccessProofs`. `TypeCorrect`. `AlwaysWayIn`: when nobody rotates, the
  platform always has a usable administrator account. Its invariant `AccessInv`
  says that the stored password works, that every copy of it in a cache, a
  provider or a client is empty or the same, that a pass carries the password
  the account has, and that a worker on its way to disable the bootstrap
  account has an internal client; `WayIn` alone is not inductive, because
  nothing in it keeps the disabling step from removing the second way in.
  `StoredOnlyWhenSet` and `NeverLockedOut` hold with rotation: what a pass has
  in hand after the reset is the account's password since one worker alone
  changes it (`CarriesPassword`), and the Secret is filled before an internal
  client can exist (`HandoverInv`).
* `KeycloakResourcesProofs`. `ResourcesTypeCorrect`, `NeverLeaks`,
  `AlwaysHoldsResource` from `ResourcesInv`: an informer copy with a finalizer
  is of the current resource or of one that is gone; a pass that works holds a
  resource with the finalizer and its UID; a pass that removes an object does
  so for a resource that is being deleted, so that no pass can put the object
  back; an object is named by a resource with the finalizer or is in `left` or in
  `renamed`. With renames, `NeverLeaks` says that a rename is the only accident
  by which an object stays behind, and that a pass for the old name adds nothing
  to what the rename dropped.
* `PlatformProofs`. `PlatformTypeCorrect`, `OneAuthority`, `NothingAdopted`
  from `IInv`: UIDs are given out once (`Fresh`); an informer copy of the Lease
  that names an existing NetEye names the holder (`CopyIsTrue`), because a
  Lease is collected only after its holder is gone; so a pass for an existing
  NetEye that got past the Lease holds it (`WorkIsAuthorised`), and what it
  carries to an update it owns (`Carried`). Without these the single-authority
  property is not preserved by `createObject`.
* The refinements. `ImplementsCustody` (`KeycloakResourcesProofs`): every step of
  `KeycloakResources` is a step of `Custody` or changes nothing there. It rests
  on `ResourcesInv`: `Put` needs that a pass which synchronises holds a resource
  with the finalizer, whose name is the one the pass has or has been turned away
  from, `Release` that the object is gone or in `left`; a rename is `Turn`.
  `ImplementsAuthority` (`PlatformProofs`): every step of `Platform` is one of
  `Authority`. It rests on `IInv`: `Take` needs that the pass holds the Lease or
  that its NetEye has died meanwhile, `Born` that UIDs are new.
* `ComponentPassProofs`, for every set of setups. `PassTypeCorrect`.
  `PolicyBeforeAccounts` from `PolicyInv`: as long as the realm has the policy it
  came with, neither its resource nor a copy of it says Ready, no pass is past
  the gate and no account is declared; the gate looks at old copies, so that the
  copies have to be in the invariant. `RouteComesAfterService` from `RouteInv`:
  the Service is there when the instance is ready, and is gone only with the
  instance, so that a pass at the route has seen it or `lost` says that somebody
  deleted the instance since.
  `OnlyTroubleBlocks` from `ResultInv`: the pass goes through an order of the
  graph, what a component waits for has come before it, and a result is
  "Blocked" exactly when one of these is not ready. It rests on lemmas about the
  operators: a graph without cycles has an order (`WellFoundedHasOrder`), an order
  has every component once and after what it waits for (`OrderIsComplete`), and
  three components wait over two steps at most (`ShortChains`), which is why
  `Above` looks two steps far.
* `FlowSyncProofs`, for every set of specs and of identifiers, with any
  disturbances. `FlowTypeCorrect` from `TypeInv`. Its first part is about the
  tree: parents exist, aliases are unique, and what holds the executions of the
  root flow and is closed holds all (`Rooted`), which is what makes a removal
  leave a tree (`Below`). Its second part is about the frames: an execution
  that a frame remembers is gone or still of the same flow, kind and name,
  because identifiers are not given out twice while somebody remembers them; a
  frame that has claimed an execution has one of the entry's kind; and the
  levels of the flows on the stack ascend, which bounds the recursion by the
  levels of the API type, although the spec can change meanwhile.
* `FlowPassProofs`. `OnePassMakesTheTree` from `Inv`, which adds two parts to
  `TypeInv`. `AliasInv`, when aliases tell: an alias found in Keycloak is
  declared for that authenticator, whoever wrote it, so that matching by alias
  and by name agree. `PassInv`, in a pass nobody has interfered with: for every
  frame, the claimed executions are one to one the entries handled so far and
  have their requirement and configuration, and the list is complete and, as
  far as it is unclaimed, up to date (`FrameInv`: `Claims`, `Walk`); after the
  prune nothing but the claimed is left, and the order step puts one after the
  other in place from a list that is still true (`Ordering`). The flows the pass
  is through with are as declared and stay so (`FinishedInv`): a removal, which
  takes all that lies below along, never reaches one, as each hangs in a flow
  that has been seen and is not up for removal there (`Anchored`); nor does the
  pass enter one again (`Handled`). At the end these flows contain the root and,
  with a flow, its subflows, so they are all flows of the spec, and everything in
  Keycloak lies in them. The number of entries is of no matter: the invariant
  goes from entry to entry, so that no induction over lists is needed, and
  `Mirrors` follows from it by counting (as many executions as entries).
  `LoginNeverTakenApart` goes the other way: in a tree as declared, `Inv` leaves
  nothing to create, no requirement to correct and nothing to remove, and what
  is written of configurations and priorities is what is there. It is proved for
  specs without twins and aliases that tell. Twins in general can break it:
  when the first of two entries of one authenticator goes by the alias
  of the second one's configuration, it claims the execution of the second, and
  a pass over a flow that is as declared exchanges their requirements. TLC finds
  this for such a pair, and checks the property for twins that go by their own
  alias (`Twins` in `MCFlowSync`).

Only model-checked: everything temporal under fairness, since the prover does
not handle it; `NeverTakenApart` for specs with twins that go by their own aliases; and the
findings, which are counterexamples.

## 5. Not modelled

* `spec.realm` of clients, users and flows as something apart: it may be edited
  like the alias, and a name of `KeycloakResources` stands for the two of them,
  but all names are in the realm of the instance, so that a move to a realm that
  is not there, or goes, is not checked.
* In `ComponentPass`: an edit of the master KeycloakRealm that drops the
  `passwordPolicy`, and one that somebody else declared before the operator did
  (both leave the accounts without the operator's policy); spec edits go from one
  policy to another.
* In `FlowSync`: the lookup and the creation of the root flow are one step, and
  nobody removes the root flow in the console. No property tells the difference:
  a root flow that comes between the two makes the creation fail, which is a
  pass that ends there.
* Contents of rendered objects: pod templates, network policies, certificates,
  routes, Keycloak options. They are data for `Apply`.
* Validation of single fields of a NetEye (a predicate on the spec), and the
  password policy: parsing one string and generating a random one. A generated
  password is one that nobody has.
* Protocol mappers, client scopes, service account roles and groups. They are
  only ever added, so they are the completeness of an object.
* The token cache and the HTTP layer of the Admin API beyond which calls take
  effect; the key of the provider registry.
* Lengths of requeue delays: fairness says that a pass comes again.
* Leader election: `main.go` turns it on, so one replica runs the controllers;
  a change of leader is a restart here. Process start, the installation of the
  Keycloak operator then, generated code and build scripts have no state that
  several steps share.

## 6. Plan

Built, in this order: `AdminProvider` and `AdminAccess`, `KeycloakResources`,
`Platform`, their proofs; `ComponentPass` (the lifecycle graph and all gates of
`reconcileKeycloak`), `FlowSync` (flow executions and the shared realm
representation), `Custody` and `Authority` with the refinements, the proofs of
`ComponentPass`, and those of `FlowSync`.

Left:

1. `NeverTakenApart` for specs with twins that go by their own aliases: the
   executions of one authenticator have to be told apart by their places, so that
   `Claims` would have to say which of them each entry has.
2. `mergeRepresentation` and the additive lists as operators over nested maps,
   against idempotence.
3. `ComponentPass` with the resource controllers of `KeycloakResources` in the
   place of their one-step summaries.
