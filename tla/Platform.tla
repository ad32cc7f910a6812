------------------------------ MODULE Platform ------------------------------
(***************************************************************************)
(* The NetEye controller: which NetEye resource manages the objects that   *)
(* the cluster shares, and how a pass brings them to what its spec asks.   *)
(*                                                                         *)
(* The admission webhook wants a single NetEye, but it looks before the    *)
(* resource is stored, so two can exist.  A Lease then decides: a pass     *)
(* that does not hold it stops.  The Lease and the objects carry the UID   *)
(* of their NetEye as owner and are collected when it is gone.             *)
(*                                                                         *)
(* The controller has one worker.  NetEyes, the Lease and the objects of   *)
(* typed kinds are read from informer copies, which may be behind; objects *)
(* handled as unstructured are read from the API server.                   *)
(***************************************************************************)
EXTENDS Naturals

CONSTANTS
    Names,          \* names under which a NetEye may be created
    Objects,        \* the shared objects of this instance
    MaxUid,         \* bound on how many NetEyes are ever created
    Disturbances    \* what happens besides creations, deletions and faults

\* "gateway" stands for the base resources, "keycloak" for the identity
\* component, "collector" for the typed objects of a telemetry component.
ASSUME PlatformAssumption ==
    /\ Names # {}
    /\ Objects # {} /\ Objects \subseteq {"gateway", "keycloak", "collector"}
    /\ MaxUid \in Nat
    /\ Disturbances \subseteq {"edit", "release", "strip", "squat", "drift"}

VARIABLES
    ne,         \* Kubernetes: the NetEye of each name
    seenNe,     \* the operator's informer copies of them
    status,     \* Kubernetes: status.phase of the NetEye of each name
    uids,       \* how many UIDs have been given out
    admitted,   \* creations the webhook let through that are not stored yet
    lease,      \* Kubernetes: the cluster authority Lease
    seenLease,  \* the operator's informer copy of it
    obj,        \* Kubernetes: the shared objects
    seenObj,    \* the operator's informer copies of those of typed kinds
    at,         \* the step the worker takes next
    pass,       \* the local variables of its pass
    settled     \* no fault, crash or administrator action happens any more

vars == <<ne, seenNe, status, uids, admitted, lease, seenLease, obj, seenObj,
          at, pass, settled>>

cacheVars == <<seenNe, seenLease, seenObj>>
workerVars == <<at, pass>>
adminVars == <<uids, admitted, settled>>

-----------------------------------------------------------------------------
(***************************************************************************)
(* "uid" 0 stands for no NetEye; "enabled" is spec.elasticStack.enabled;   *)
(* "version" relates spec.version to the releases the operator knows.      *)
(***************************************************************************)
Phases == {"", "Ready", "NotReady", "PendingUpgrades", "Failed"}

NetEyes ==
    [uid : 0..MaxUid, enabled : BOOLEAN,
     version : {"current", "previous", "unsupported"}]

NoNetEye == [uid |-> 0, enabled |-> FALSE, version |-> "current"]

\* The Lease: its holder, and whether its owner reference names the holder.
Leases == [holder : 0..MaxUid, owned : BOOLEAN]

NoLease == [holder |-> 0, owned |-> FALSE]

\* A shared object: the UID of its controller, 0 when no NetEye is, and its
\* spec: whether it has the telemetry listeners for the gateway, whether it is
\* the rendered one for the others.
Things == [there : BOOLEAN, owner : 0..MaxUid, spec : BOOLEAN]

Missing == [there |-> FALSE, owner |-> 0, spec |-> FALSE]

Squatter == [there |-> TRUE, owner |-> 0, spec |-> FALSE]

AuthoritySteps == {"getLease", "createLease", "rereadLease", "ownLease"}

WriteSteps == {"createObject", "reconcileExisting", "update", "delete"}

Passes ==
    [name : Names, ne : NetEyes, todo : SUBSET Objects,
     lease : Leases, read : Things, phase : Phases]

\* A worker without a pass.
NoPass ==
    [name |-> CHOOSE n \in Names : TRUE, ne |-> NoNetEye, todo |-> {},
     lease |-> NoLease, read |-> Missing, phase |-> ""]

\* Objects read through typed clients come from the informers.
Cached == Objects \cap {"collector"}

\* Telemetry is wanted when the Elastic Stack is enabled.
Wanted(o, n) == o # "collector" \/ n.enabled

\* The rendered specs.  The gateway has its telemetry listeners when telemetry
\* is wanted; what the others depend on is fixed in this model, so that there is
\* one rendered spec, and any other is FALSE.
gatewayListeners(n) == n.enabled

keycloakInstanceSpec == TRUE

collectorDeployment == TRUE

\* What a pass for n applies.
Desired(o, n) ==
    [there |-> TRUE, owner |-> n.uid,
     spec |-> CASE o = "gateway" -> gatewayListeners(n)
                [] o = "keycloak" -> keycloakInstanceSpec
                [] o = "collector" -> collectorDeployment]

Live(uid) == \E n \in Names : ne[n].uid # 0 /\ ne[n].uid = uid

Init ==
    /\ ne = [n \in Names |-> NoNetEye]
    /\ seenNe = [n \in Names |-> NoNetEye]
    /\ status = [n \in Names |-> ""]
    /\ uids = 0
    /\ admitted = {}
    /\ lease = NoLease
    /\ seenLease = NoLease
    /\ obj \in [Objects -> IF "squat" \in Disturbances THEN {Missing, Squatter}
                           ELSE {Missing}]
    /\ seenObj = [o \in Cached |-> obj[o]]
    /\ at = "idle"
    /\ pass = NoPass
    /\ settled = FALSE

-----------------------------------------------------------------------------
(***************************************************************************)
(* How a pass ends.                                                        *)
(***************************************************************************)

phaseSeverity(phase) ==
    CASE phase = "Failed" -> 3
      [] phase \in {"NotReady", "PendingUpgrades"} -> 2
      [] phase = "Ready" -> 1
      [] phase = "" -> 0

\* A less severe phase does not clobber the one the pass has recorded.
setPhase(old, phase) == IF phaseSeverity(phase) < phaseSeverity(old) THEN old ELSE phase

\* An early return with this phase.
Return(phase) ==
    /\ at' = "updateStatus"
    /\ pass' = [pass EXCEPT !.phase = setPhase(@, phase), !.todo = {},
                            !.lease = NoLease, !.read = Missing]

\* The base resources come first, then the components in the order of their
\* identifiers.
Turn(todo) ==
    IF "gateway" \in todo THEN "gateway"
    ELSE IF "keycloak" \in todo THEN "keycloak" ELSE "collector"

Item == Turn(pass.todo)

\* Mutant: counts one item too many.
FinishLate(phase) ==
    IF pass.todo = {} \/ (Item = "gateway" /\ phase = "Failed")
    THEN Return(phase)
    ELSE /\ at' = "look"
         /\ pass' = [pass EXCEPT !.phase = setPhase(@, phase), !.todo = @ \ {Item},
                                 !.read = Missing]

\* The result of the current item.  A base resource that fails ends the pass;
\* a component that does leaves the next one its turn, and the phase of the
\* pass is the worst of theirs (runComponentOperations, aggregateComponentPhase).
Finish(phase) ==
    IF pass.todo = {Item} \/ (Item = "gateway" /\ phase = "Failed")
    THEN Return(phase)
    ELSE /\ at' = "look"
         /\ pass' = [pass EXCEPT !.phase = setPhase(@, phase), !.todo = @ \ {Item},
                                 !.read = Missing]

\* The item is as desired; the workload behind it may still be coming up.
Applied ==
    \/ Finish("Ready")
    \/ ~settled /\ Item # "gateway" /\ Finish("NotReady")

\* A write that has taken effect may still be answered with an error.
Written == Applied \/ (~settled /\ Finish("Failed"))

-----------------------------------------------------------------------------
(***************************************************************************)
(* The pass: Reconcile up to the cluster authority.                        *)
(***************************************************************************)

\* Mutant: keeps the phase of the previous pass to compare with.
ReconcileSticky(n) ==
    /\ at = "idle" /\ seenNe[n].uid # 0 /\ seenNe[n].version = "current"
    /\ at' = "getLease"
    /\ pass' = [NoPass EXCEPT !.name = n, !.ne = seenNe[n], !.phase = status[n]]
    /\ UNCHANGED <<ne, status, lease, obj, cacheVars, adminVars>>

Reconcile(n) ==
    /\ at = "idle" /\ seenNe[n].uid # 0
    /\ LET start == [NoPass EXCEPT !.name = n, !.ne = seenNe[n]]
       IN \/ /\ seenNe[n].version = "previous"
             /\ at' = "updateStatus"
             /\ pass' = [start EXCEPT !.phase = "PendingUpgrades"]
          \/ /\ seenNe[n].version = "unsupported"
             /\ at' = "updateStatus"
             /\ pass' = [start EXCEPT !.phase = "Failed"]
          \/ /\ seenNe[n].version = "current"
             /\ at' = "getLease"
             /\ pass' = start
    /\ UNCHANGED <<ne, status, lease, obj, cacheVars, adminVars>>

\* The rest of ensureClusterAuthority once a Lease is in hand.
Decide(read) ==
    IF read.holder # pass.ne.uid THEN Return("Failed")
    ELSE IF ~read.owned
         THEN at' = "ownLease" /\ pass' = [pass EXCEPT !.lease = read]
         ELSE at' = "look" /\ pass' = [pass EXCEPT !.todo = Objects]

getLease ==
    /\ at = "getLease"
    /\ IF seenLease = NoLease
       THEN at' = "createLease" /\ pass' = pass
       ELSE Decide(seenLease)
    /\ UNCHANGED <<ne, status, lease, obj, cacheVars, adminVars>>

\* Mutant: takes AlreadyExists for success.
createLeaseRaced ==
    /\ at = "createLease"
    /\ lease' = IF lease = NoLease THEN [holder |-> pass.ne.uid, owned |-> TRUE] ELSE lease
    /\ at' = "look" /\ pass' = [pass EXCEPT !.todo = Objects]
    /\ UNCHANGED <<ne, status, obj, cacheVars, adminVars>>

\* Mutant: writes over a Lease that exists by now.
createLeaseOver ==
    /\ at = "createLease"
    /\ lease' = [holder |-> pass.ne.uid, owned |-> TRUE]
    /\ at' = "look" /\ pass' = [pass EXCEPT !.todo = Objects]
    /\ UNCHANGED <<ne, status, obj, cacheVars, adminVars>>

\* An answer that says AlreadyExists only leads to another look.
createLease ==
    /\ at = "createLease"
    /\ \/ /\ lease = NoLease
          /\ lease' = [holder |-> pass.ne.uid, owned |-> TRUE]
          /\ Decide(lease') \/ (~settled /\ Return("Failed"))
       \/ /\ lease # NoLease
          /\ at' = "rereadLease"
          /\ UNCHANGED <<lease, pass>>
    /\ UNCHANGED <<ne, status, obj, cacheVars, adminVars>>

rereadLease ==
    /\ at = "rereadLease"
    /\ IF seenLease = NoLease THEN Return("Failed") ELSE Decide(seenLease)
    /\ UNCHANGED <<ne, status, lease, obj, cacheVars, adminVars>>

\* SetControllerReference and the update, which a change of the Lease since it
\* was read makes fail.
ownLease ==
    /\ at = "ownLease"
    /\ \/ /\ lease = pass.lease
          /\ lease' = [lease EXCEPT !.owned = TRUE]
          /\ \/ at' = "look" /\ pass' = [pass EXCEPT !.todo = Objects, !.lease = NoLease]
             \/ ~settled /\ Return("Failed")
       \/ /\ lease # pass.lease
          /\ Return("Failed")
          /\ lease' = lease
    /\ UNCHANGED <<ne, status, obj, cacheVars, adminVars>>

-----------------------------------------------------------------------------
(***************************************************************************)
(* The pass: the shared objects.                                           *)
(***************************************************************************)

\* Mutant: SetOwnerReference alone, which takes what has no controller.
AdjustAdopts(read) ==
    IF read.owner \notin {0, pass.ne.uid} THEN Finish("Failed")
    ELSE IF read = Desired(Item, pass.ne)
         THEN Applied
         ELSE at' = "update" /\ pass' = [pass EXCEPT !.read = read]

\* RequireManagedOwner on an object that exists; then what Apply and its
\* typed counterparts do with the difference.
Adjust(read) ==
    IF read.owner # pass.ne.uid THEN Finish("Failed")
    ELSE IF read = Desired(Item, pass.ne)
         THEN Applied
         ELSE at' = "update" /\ pass' = [pass EXCEPT !.read = read]

\* The first Get: of Apply, which reads again when there is something; of
\* EnsureConfigMap and its siblings, which go on with the informer's copy; or
\* of deleteOwnedResources, which leaves what the NetEye does not own.
look ==
    /\ at = "look"
    /\ IF Wanted(Item, pass.ne)
       THEN LET read == IF Item \in Cached THEN seenObj[Item] ELSE obj[Item]
            IN IF ~read.there THEN at' = "createObject" /\ pass' = pass
               ELSE IF Item \in Cached THEN Adjust(read)
                    ELSE at' = "reconcileExisting" /\ pass' = pass
       ELSE IF obj[Item].owner = pass.ne.uid
            THEN at' = "delete" /\ pass' = pass
            ELSE Finish("Ready")
    /\ UNCHANGED <<ne, status, lease, obj, cacheVars, adminVars>>

createObject ==
    /\ at = "createObject"
    /\ \/ /\ ~obj[Item].there
          /\ obj' = [obj EXCEPT ![Item] = Desired(Item, pass.ne)]
          /\ Written
       \/ /\ obj[Item].there
          /\ IF Item \in Cached THEN Finish("Failed")
             ELSE at' = "reconcileExisting" /\ pass' = pass
          /\ obj' = obj
    /\ UNCHANGED <<ne, status, lease, cacheVars, adminVars>>

\* One attempt of RetryOnConflict up to its Update.
reconcileExisting ==
    /\ at = "reconcileExisting"
    /\ IF obj[Item].there THEN Adjust(obj[Item]) ELSE Finish("Failed")
    /\ UNCHANGED <<ne, status, lease, obj, cacheVars, adminVars>>

\* The update carries the resource version that was read.  Apply tries again
\* after a conflict, a few times; the typed counterparts do not.
update ==
    /\ at = "update"
    /\ \/ /\ obj[Item] = pass.read
          /\ obj' = [obj EXCEPT ![Item] = Desired(Item, pass.ne)]
          /\ Written
       \/ /\ obj[Item] # pass.read
          /\ \/ Finish("Failed")
             \/ /\ Item \notin Cached /\ obj[Item].there
                /\ at' = "reconcileExisting"
                /\ pass' = [pass EXCEPT !.read = Missing]
          /\ obj' = obj
    /\ UNCHANGED <<ne, status, lease, cacheVars, adminVars>>

\* The deletion names the object only.
delete ==
    /\ at = "delete"
    /\ obj' = [obj EXCEPT ![Item] = Missing]
    /\ Finish("Ready") \/ (~settled /\ Finish("Failed"))
    /\ UNCHANGED <<ne, status, lease, cacheVars, adminVars>>

\* A call of the pass fails: the Lease ends it, an item is reported.
CallFails ==
    /\ ~settled
    /\ \/ at \in AuthoritySteps /\ Return("Failed")
       \/ at \in WriteSteps \cup {"look"} /\ Finish("Failed")
    /\ UNCHANGED <<ne, status, lease, obj, cacheVars, adminVars>>

\* The deferred write of the status, to whatever NetEye has the name.  A
\* conflict is tried again until the attempts are used up.
updateStatus ==
    /\ at = "updateStatus"
    /\ LET current == seenNe[pass.name]
       IN \/ /\ current.uid # 0 /\ current = ne[pass.name]
             /\ status' = [status EXCEPT ![pass.name] = pass.phase]
          \/ /\ current.uid = 0 \/ current # ne[pass.name] \/ ~settled
             /\ status' = status
    /\ at' = "idle"
    /\ pass' = NoPass
    /\ UNCHANGED <<ne, lease, obj, cacheVars, adminVars>>

-----------------------------------------------------------------------------
(***************************************************************************)
(* Admission, the API server, the garbage collector and the people.        *)
(***************************************************************************)

\* Another NetEye than the one of this name.
Another(n) == \E m \in Names \ {n} : ne[m].uid # 0

\* ValidateCreate and its list of the NetEyes; the request is stored later.
ValidateCreate(n) ==
    /\ ~settled /\ uids < MaxUid /\ n \notin admitted
    /\ ne[n].uid = 0 /\ ~Another(n)
    /\ admitted' = admitted \cup {n}
    /\ UNCHANGED <<ne, status, uids, lease, obj, cacheVars, workerVars, settled>>

Store(n) ==
    /\ n \in admitted /\ uids < MaxUid
    /\ ne[n].uid = 0
    /\ \E e \in BOOLEAN : ne' = [ne EXCEPT ![n] = [NoNetEye EXCEPT !.uid = uids + 1,
                                                                   !.enabled = e]]
    /\ status' = [status EXCEPT ![n] = ""]
    /\ uids' = uids + 1
    /\ admitted' = admitted \ {n}
    /\ UNCHANGED <<lease, obj, cacheVars, workerVars, settled>>

\* A request whose name is taken meanwhile is refused.
Refuse(n) ==
    /\ n \in admitted /\ (ne[n].uid # 0 \/ uids = MaxUid)
    /\ admitted' = admitted \ {n}
    /\ UNCHANGED <<ne, status, uids, lease, obj, cacheVars, workerVars, settled>>

\* An edit that ValidateUpdate admits: it ends in the current version, from
\* this or the previous one.
ValidateUpdate(n) ==
    /\ "edit" \in Disturbances /\ ~settled
    /\ ne[n].uid # 0 /\ ~Another(n)
    /\ ne[n].version \in {"current", "previous"}
    /\ \E e \in BOOLEAN :
          ne' = [ne EXCEPT ![n].enabled = e, ![n].version = "current"]
    /\ UNCHANGED <<status, uids, admitted, lease, obj, cacheVars, workerVars, settled>>

DeleteNetEye(n) ==
    /\ ~settled /\ ne[n].uid # 0
    /\ ne' = [ne EXCEPT ![n] = NoNetEye]
    /\ status' = [status EXCEPT ![n] = ""]
    /\ UNCHANGED <<uids, admitted, lease, obj, cacheVars, workerVars, settled>>

\* A new process lists everything before it starts.
Restart ==
    /\ at' = "idle"
    /\ pass' = NoPass
    /\ seenNe' = ne' /\ seenLease' = lease' /\ seenObj' = [o \in Cached |-> obj'[o]]

Crash ==
    /\ ~settled
    /\ UNCHANGED <<ne, status, lease, obj, adminVars>>
    /\ Restart

\* A new release of the operator: every NetEye is one version older.
Release ==
    /\ "release" \in Disturbances /\ ~settled
    /\ \E n \in Names : ne[n].uid # 0 /\ ne[n].version # "unsupported"
    /\ ne' = [n \in Names |->
                IF ne[n].uid = 0 THEN ne[n]
                ELSE [ne[n] EXCEPT !.version =
                        IF @ = "current" THEN "previous" ELSE "unsupported"]]
    /\ UNCHANGED <<status, lease, obj, adminVars>>
    /\ Restart

\* The garbage collector removes what belongs to a NetEye that is gone.
CollectLease ==
    /\ lease.owned /\ ~Live(lease.holder)
    /\ lease' = NoLease
    /\ UNCHANGED <<ne, status, obj, cacheVars, workerVars, adminVars>>

CollectObject(o) ==
    /\ obj[o].owner # 0 /\ ~Live(obj[o].owner)
    /\ obj' = [obj EXCEPT ![o] = Missing]
    /\ UNCHANGED <<ne, status, lease, cacheVars, workerVars, adminVars>>

\* Somebody removes the owner reference of the Lease.
Strip ==
    /\ "strip" \in Disturbances /\ ~settled
    /\ lease.owned
    /\ lease' = [lease EXCEPT !.owned = FALSE]
    /\ UNCHANGED <<ne, status, obj, cacheVars, workerVars, adminVars>>

\* Somebody removes an object, or puts one of their own under its name.
Squat(o) ==
    /\ "squat" \in Disturbances /\ ~settled
    /\ obj' = [obj EXCEPT ![o] = IF @.there THEN Missing ELSE Squatter]
    /\ UNCHANGED <<ne, status, lease, cacheVars, workerVars, adminVars>>

Drift(o) ==
    /\ "drift" \in Disturbances /\ ~settled
    /\ obj[o].there
    /\ obj' = [obj EXCEPT ![o].spec = ~@]
    /\ UNCHANGED <<ne, status, lease, cacheVars, workerVars, adminVars>>

SyncNetEye(n) ==
    /\ seenNe[n] # ne[n]
    /\ seenNe' = [seenNe EXCEPT ![n] = ne[n]]
    /\ UNCHANGED <<ne, status, lease, seenLease, obj, seenObj, workerVars, adminVars>>

SyncLease ==
    /\ seenLease # lease
    /\ seenLease' = lease
    /\ UNCHANGED <<ne, status, seenNe, lease, obj, seenObj, workerVars, adminVars>>

SyncObject(o) ==
    /\ o \in Cached /\ seenObj[o] # obj[o]
    /\ seenObj' = [seenObj EXCEPT ![o] = obj[o]]
    /\ UNCHANGED <<ne, status, seenNe, lease, seenLease, obj, workerVars, adminVars>>

Settle ==
    /\ ~settled
    /\ settled' = TRUE
    /\ UNCHANGED <<ne, status, uids, admitted, lease, obj, cacheVars, workerVars>>

-----------------------------------------------------------------------------
PassStep ==
    \/ getLease \/ createLease \/ rereadLease \/ ownLease
    \/ look \/ createObject \/ reconcileExisting \/ update \/ delete
    \/ updateStatus

Environment ==
    \/ \E n \in Names :
          \/ ValidateCreate(n) \/ Store(n) \/ Refuse(n)
          \/ ValidateUpdate(n) \/ DeleteNetEye(n) \/ SyncNetEye(n)
    \/ \E o \in Objects :
          CollectObject(o) \/ Squat(o) \/ Drift(o) \/ SyncObject(o)
    \/ CollectLease \/ Strip \/ SyncLease
    \/ Crash \/ Release \/ Settle

Next ==
    \/ \E n \in Names : Reconcile(n)
    \/ PassStep \/ CallFails
    \/ Environment

Spec == Init /\ [][Next]_vars

\* Every NetEye is put back on the work queue after its pass, which the one
\* worker takes from in turn; informers, garbage collector and API server get
\* round to what they have to do, and disturbances end some day.
Fairness ==
    /\ \A n \in Names : SF_vars(Reconcile(n)) /\ WF_vars(SyncNetEye(n))
                        /\ WF_vars(Store(n) \/ Refuse(n))
    /\ \A o \in Objects : WF_vars(CollectObject(o)) /\ WF_vars(SyncObject(o))
    /\ WF_vars(PassStep)
    /\ WF_vars(CollectLease) /\ WF_vars(SyncLease)
    /\ WF_vars(Settle)

FairSpec == Spec /\ Fairness

-----------------------------------------------------------------------------
(***************************************************************************)
(* Properties.                                                             *)
(***************************************************************************)

\* Every variable keeps its type, and a pass that works on an object has one
\* left to work on.
TypeOK ==
    /\ ne \in [Names -> NetEyes] /\ seenNe \in [Names -> NetEyes]
    /\ status \in [Names -> Phases]
    /\ uids \in 0..MaxUid
    /\ admitted \subseteq Names
    /\ lease \in Leases /\ seenLease \in Leases
    /\ obj \in [Objects -> Things] /\ seenObj \in [Cached -> Things]
    /\ at \in {"idle", "look", "updateStatus"} \cup AuthoritySteps \cup WriteSteps
    /\ pass \in Passes
    /\ at \in WriteSteps \cup {"look"} => pass.todo # {}
    /\ settled \in BOOLEAN

\* Two NetEyes that both exist never share out the platform between them: what
\* belongs to an existing NetEye belongs to the one that holds the Lease,
\* whatever creations the webhook let race and however old the copies are that
\* passes read (ensureClusterAuthority before every write).
SingleAuthority ==
    \A o \in Objects : Live(obj[o].owner) => lease.holder = obj[o].owner

\* An object does not change hands: no pass turns one that exists, unowned or
\* of another NetEye, into its own (RequireManagedOwner and the resource version
\* of the update).
ChangesHands(o) ==
    obj[o].there /\ obj'[o].there /\ obj'[o].owner # obj[o].owner

NeverAdopts == [][\A o \in Objects : ~ChangesHands(o)]_vars

\* A Lease that nobody can collect or take over.
Orphaned == lease.holder # 0 /\ ~lease.owned /\ ~Live(lease.holder)

\* Somebody else's object is in the way of the pass.
Obstructed(n) == \E o \in Objects : Wanted(o, ne[n]) /\ obj[o].there /\ obj[o].owner = 0

Deserved(n) ==
    CASE ne[n].version = "previous" -> "PendingUpgrades"
      [] ne[n].version = "unsupported" -> "Failed"
      [] ne[n].version = "current" ->
           IF lease.holder # ne[n].uid \/ Obstructed(n) THEN "Failed" ELSE "Ready"

InPlace(n) ==
    \A o \in Objects : IF Wanted(o, ne[n]) THEN obj[o] = Desired(o, ne[n])
                                           ELSE obj[o].owner # ne[n].uid

\* Once nothing disturbs the cluster any more, a NetEye of the current version
\* leads to a holder of the Lease, the objects of the holder are as its spec
\* says, and every NetEye's phase tells the truth about all that, for good.
Converged ==
    /\ (\E n \in Names : ne[n].uid # 0 /\ ne[n].version = "current")
          => Live(lease.holder) \/ Orphaned
    /\ \A n \in Names : ne[n].uid # 0 =>
          /\ status[n] = Deserved(n)
          /\ Deserved(n) = "Ready" => InPlace(n)

Converges == <>[]Converged

\* Who lives, who holds the Lease and who owns what.
Office ==
    INSTANCE Authority WITH
        Uids   <- 1..MaxUid,
        Nobody <- 0,
        alive  <- {ne[n].uid : n \in Names} \ {0},
        holder <- lease.holder,
        owner  <- [o \in Objects |-> IF obj[o].there THEN obj[o].owner ELSE 0]

\* The Lease works as an office that a living NetEye cannot lose, that only its
\* death vacates, and without which a living one takes nothing, through races of
\* two creations, old copies and crashes (ensureClusterAuthority, Apply).
KeepsOffice == Office!Spec
=============================================================================
