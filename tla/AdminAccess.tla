---------------------------- MODULE AdminAccess ----------------------------
(***************************************************************************)
(* How the operator obtains, keeps and hands over administrative access to *)
(* Keycloak.                                                               *)
(*                                                                         *)
(* On a fresh installation only the bootstrap account exists.  The NetEye  *)
(* controller declares the internal administrator as a KeycloakUser, the   *)
(* KeycloakUser controller creates the account with a generated password   *)
(* and stores that password in a Secret, and once the internal account is  *)
(* seen to work the NetEye controller disables the bootstrap account.      *)
(*                                                                         *)
(* Three parties take the steps: the KeycloakUser worker (u...), the       *)
(* NetEye worker (n...), and the environment: an administrator, the        *)
(* informer cache, time, faults and crashes.  Each remote call is a step   *)
(* of its own, so a crash or a step of the other worker can come between   *)
(* any two of them.                                                        *)
(***************************************************************************)
EXTENDS AdminProvider, Naturals

CONSTANTS
    MaxToken,       \* bound on the rotation tokens an administrator uses
    AdminActions    \* what the administrator may do in this instance

ASSUME AdminAccessAssumption ==
    /\ MaxToken \in Nat
    /\ AdminActions \subseteq {"delete", "reenable", "rotate"}

VARIABLES
    acctPwd,        \* Keycloak: password of the internal account, NoPassword if absent
    acctAdmin,      \* Keycloak: the internal account has the admin realm role
    bootEnabled,    \* Keycloak: the account the bootstrap Secret names exists and is enabled
    secret,         \* Kubernetes: password in the internal admin Secret
    bootSecret,     \* Kubernetes: the bootstrap admin Secret exists
    kcu,            \* Kubernetes: the KeycloakUser resource of the internal admin
    seenSecret,     \* the operator's informer copy of secret
    seenKcu,        \* the operator's informer copy of kcu
    registry,       \* the provider the resource controllers share
    component,      \* the provider of the Keycloak component
    uPc,            \* KeycloakUser worker: the step it takes next
    u,              \* KeycloakUser worker: its local variables
    nPc,            \* NetEye worker: the step it takes next
    nClient,        \* NetEye worker: the client it was handed
    identity,       \* the result of the identity component in its last pass
    settled         \* no fault, crash or administrator action happens any more

keycloakVars == <<acctPwd, acctAdmin, bootEnabled>>
clusterVars == <<secret, bootSecret, kcu>>
cacheVars == <<seenSecret, seenKcu>>
userVars == <<uPc, u>>
neteyeVars == <<nPc, nClient, identity>>
vars == <<keycloakVars, clusterVars, cacheVars, registry, component,
          userVars, neteyeVars, settled>>

-----------------------------------------------------------------------------
(***************************************************************************)
(* The KeycloakUser resource.  "token" is spec.credential.rotationToken,   *)
(* 0 when empty, "rotation" is status.credentialRotation, and "ready" says *)
(* that status.status is Ready.                                            *)
(***************************************************************************)
Resources ==
    [phase : {"absent", "live", "deleting"}, finalizer : BOOLEAN,
     token : 0..MaxToken, rotation : 0..MaxToken, ready : BOOLEAN]

Absent == [phase |-> "absent", finalizer |-> FALSE, token |-> 0, rotation |-> 0,
           ready |-> FALSE]

\* internalAdminSpec: the resource as EnsureInternalAdminUser creates it.
internalAdminSpec == [Absent EXCEPT !.phase = "live"]

\* internalAdminSpec, DeletionPolicy.
DeletionPolicy == "Orphan"

Locals ==
    [kcu : Resources, client : Clients, pwd : Passwords \cup {NoPassword},
     generated : BOOLEAN, rotate : BOOLEAN, created : BOOLEAN, ready : BOOLEAN]

NoLocals ==
    [kcu |-> Absent, client |-> NoClient, pwd |-> NoPassword,
     generated |-> FALSE, rotate |-> FALSE, created |-> FALSE, ready |-> FALSE]

UserSteps == {"idle", "reconcileDelete", "finalize", "credential",
              "reconcileUser", "resetPassword", "realmRoles", "storePassword",
              "setStatus"}
NetEyeSteps == {"idle", "getAdmin", "getBootstrap", "disableBootstrap"}
IdentityResults == {"NotReady", "DisablePending", "Ready"}

\* Every password some party still holds: a generated one differs from all.
InUse == {acctPwd, secret, seenSecret, registry.api.pwd, component.api.pwd,
          nClient.pwd, u.client.pwd, u.pwd}

-----------------------------------------------------------------------------
(***************************************************************************)
(* Keycloak.  A token is issued for the password of the account.  A        *)
(* request made with an internal client is honoured on the token the       *)
(* client obtained when it was verified, which outlives a password reset   *)
(* until it expires; a disabled bootstrap account is refused at once.      *)
(***************************************************************************)
Accepts(pwd) == pwd # NoPassword /\ pwd = acctPwd

Honoured(c) ==
    \/ c.who = "bootstrap" /\ bootEnabled
    \/ c.who = "internal" /\ acctPwd # NoPassword /\ acctAdmin

\* The request fails and had no effect.
Refused(c) == ~settled \/ ~Honoured(c) \/ (c.who = "internal" /\ c.pwd # acctPwd)

\* The request took effect and its answer was lost.
AnswerLost(c) == ~settled /\ Honoured(c)

-----------------------------------------------------------------------------
(***************************************************************************)
(* Initial states: a fresh installation, a Keycloak database that already  *)
(* holds the internal account, or one migrated together with its Secret.   *)
(* The platform can get in through at least one of the two accounts.       *)
(***************************************************************************)
InternalUsable == secret # NoPassword /\ secret = acctPwd /\ acctAdmin

BootstrapUsable == bootEnabled /\ bootSecret

Init ==
    /\ acctPwd \in Passwords \cup {NoPassword}
    /\ acctAdmin \in BOOLEAN
    /\ acctPwd = NoPassword => ~acctAdmin
    /\ bootSecret \in BOOLEAN
    /\ bootEnabled \in BOOLEAN
    /\ bootEnabled => bootSecret
    /\ secret \in {NoPassword, acctPwd}
    /\ InternalUsable \/ (BootstrapUsable /\ secret = NoPassword)
    /\ kcu = Absent
    /\ seenSecret = secret
    /\ seenKcu = kcu
    /\ registry = NewAdminProvider
    /\ component = NewAdminProvider
    /\ uPc = "idle"
    /\ u = NoLocals
    /\ nPc = "idle"
    /\ nClient = NoClient
    /\ identity = "NotReady"
    /\ settled = FALSE

-----------------------------------------------------------------------------
(***************************************************************************)
(* The KeycloakUser worker.                                                *)
(***************************************************************************)

\* Ends a pass with the status that setStatus will write: Ready, or a failure.
Report(ready) ==
    /\ uPc' = "setStatus"
    /\ u' = [u EXCEPT !.ready = ready]

\* Reconcile up to the branch on the deletion timestamp: the resource is read
\* from the cache and an Admin API client is asked for.
Reconcile ==
    /\ uPc = "idle"
    /\ seenKcu.phase # "absent"
    /\ \E o \in Get(registry, seenSecret, bootSecret, Accepts(seenSecret), ~settled) :
         LET local == [NoLocals EXCEPT !.kcu = seenKcu, !.client = o.client]
             deleting == seenKcu.phase = "deleting"
         IN /\ registry' = o.provider
            /\ \/ /\ o.err # "none"
                  /\ ~deleting
                  /\ uPc' = "setStatus"
                  /\ u' = local
               \/ /\ o.err = "missing" \/ (o.err = "none" /\ seenKcu.finalizer)
                  /\ deleting
                  /\ uPc' = "reconcileDelete"
                  /\ u' = local
               \/ /\ o.err = "other" \/ (o.err = "none" /\ ~seenKcu.finalizer)
                  /\ deleting
                  /\ uPc' = "idle"
                  /\ u' = NoLocals
               \/ /\ o.err = "none"
                  /\ ~deleting
                  /\ uPc' = IF seenKcu.finalizer THEN "credential" ELSE "finalize"
                  /\ u' = local
    /\ UNCHANGED <<keycloakVars, clusterVars, cacheVars, component, neteyeVars, settled>>

\* Mutant of reconcileDelete: an orphaned account ends the pass early, and the
\* finalizer stays.
reconcileDeleteKeepsFinalizer ==
    /\ uPc = "reconcileDelete"
    /\ uPc' = "idle"
    /\ u' = NoLocals
    /\ UNCHANGED <<keycloakVars, clusterVars, cacheVars, registry, component,
                   neteyeVars, settled>>

\* reconcileDelete and removeFinalizer: the account goes first unless it is
\* orphaned or the credentials are missing; the update that drops the finalizer
\* fails on a conflict with a newer resource, and removes the resource
\* otherwise.  A failure in between keeps the finalizer.
reconcileDelete ==
    /\ uPc = "reconcileDelete"
    /\ LET keep == DeletionPolicy = "Orphan" \/ u.client.who = "none"
       IN \/ /\ keep \/ Honoured(u.client)
             /\ kcu = u.kcu
             /\ kcu' = Absent
             /\ acctPwd' = IF keep THEN acctPwd ELSE NoPassword
          \/ /\ kcu # u.kcu \/ ~settled \/ (~keep /\ Refused(u.client))
             /\ kcu' = kcu
             /\ acctPwd' \in {acctPwd, IF keep THEN acctPwd ELSE NoPassword}
    /\ acctAdmin' = (acctAdmin /\ acctPwd' # NoPassword)
    /\ uPc' = "idle"
    /\ u' = NoLocals
    /\ UNCHANGED <<bootEnabled, secret, bootSecret, cacheVars, registry,
                   component, neteyeVars, settled>>

\* AddFinalizer and its update.
AddFinalizer ==
    /\ uPc = "finalize"
    /\ \/ /\ kcu = u.kcu
          /\ kcu' = [kcu EXCEPT !.finalizer = TRUE]
          /\ uPc' = "credential"
          /\ u' = [u EXCEPT !.kcu = kcu']
       \/ /\ kcu # u.kcu \/ ~settled
          /\ uPc' = "idle"
          /\ u' = NoLocals
          /\ kcu' = kcu
    /\ UNCHANGED <<keycloakVars, secret, bootSecret, cacheVars, registry,
                   component, neteyeVars, settled>>

\* The rotation the resource asks for, judged by the copy the pass works on.
RotationRequested(r) == r.token # 0 /\ r.rotation # 0 /\ r.token # r.rotation

\* credential: reuse the stored password, or read the realm policy and
\* generate a new one.
credential ==
    /\ uPc = "credential"
    /\ LET rotate == RotationRequested(u.kcu)
           stored == seenSecret
       IN \/ /\ stored # NoPassword /\ ~rotate
             /\ uPc' = "reconcileUser"
             /\ u' = [u EXCEPT !.pwd = stored, !.generated = FALSE, !.rotate = FALSE]
          \/ /\ stored = NoPassword \/ rotate
             /\ Honoured(u.client)
             /\ \E p \in Passwords \ InUse :
                  u' = [u EXCEPT !.pwd = p, !.generated = TRUE, !.rotate = rotate]
             /\ uPc' = "reconcileUser"
          \/ /\ ~settled \/ ((stored = NoPassword \/ rotate) /\ Refused(u.client))
             /\ Report(FALSE)
    /\ UNCHANGED <<keycloakVars, clusterVars, cacheVars, registry, component,
                   neteyeVars, settled>>

\* ReconcileUser, account part: create it with the password inline, or adopt
\* the one that exists.
ReconcileUser ==
    /\ uPc = "reconcileUser"
    /\ \/ /\ Honoured(u.client)
          /\ acctPwd = NoPassword
          /\ acctPwd' = u.pwd
          /\ acctAdmin' = FALSE
          /\ uPc' = "realmRoles"
          /\ u' = [u EXCEPT !.created = TRUE]
       \/ /\ AnswerLost(u.client)
          /\ acctPwd = NoPassword
          /\ acctPwd' = u.pwd
          /\ acctAdmin' = FALSE
          /\ Report(FALSE)
       \/ /\ Honoured(u.client)
          /\ acctPwd # NoPassword
          /\ uPc' = IF u.rotate THEN "resetPassword" ELSE "realmRoles"
          /\ UNCHANGED <<u, acctPwd, acctAdmin>>
       \/ /\ Refused(u.client)
          /\ Report(FALSE)
          /\ UNCHANGED <<acctPwd, acctAdmin>>
    /\ UNCHANGED <<bootEnabled, clusterVars, cacheVars, registry, component,
                   neteyeVars, settled>>

\* ReconcileUser, password part: an existing account is reset on rotation.
ResetUserPassword ==
    /\ uPc = "resetPassword"
    /\ \/ /\ Honoured(u.client)
          /\ acctPwd' = u.pwd
          /\ uPc' = "realmRoles"
          /\ u' = u
       \/ /\ AnswerLost(u.client)
          /\ acctPwd' = u.pwd
          /\ Report(FALSE)
       \/ /\ Refused(u.client)
          /\ Report(FALSE)
          /\ acctPwd' = acctPwd
    /\ UNCHANGED <<acctAdmin, bootEnabled, clusterVars, cacheVars, registry,
                   component, neteyeVars, settled>>

\* Mutant of PasswordToStore: every generated password is stored.
PasswordToStoreAlways(l) == l.generated

\* Whether the password of this pass reached the account and must be stored.
PasswordToStore(l) == l.generated /\ (l.created \/ l.rotate)

\* reconcileRealmRoles, then the rest of Reconcile up to the Secret.
reconcileRealmRoles ==
    /\ uPc = "realmRoles"
    /\ \/ /\ Honoured(u.client)
          /\ acctAdmin' = TRUE
          /\ \/ /\ PasswordToStore(u)
                /\ uPc' = "storePassword"
                /\ u' = u
             \/ /\ ~PasswordToStore(u)
                /\ Report(TRUE)
       \/ /\ AnswerLost(u.client)
          /\ acctAdmin' = TRUE
          /\ Report(FALSE)
       \/ /\ Refused(u.client)
          /\ Report(FALSE)
          /\ acctAdmin' = acctAdmin
    /\ UNCHANGED <<acctPwd, bootEnabled, clusterVars, cacheVars, registry,
                   component, neteyeVars, settled>>

\* storePassword: create or update the Secret.  A stale cached copy makes the
\* write fail.
storePassword ==
    /\ uPc = "storePassword"
    /\ \/ /\ seenSecret = secret
          /\ secret' = u.pwd
          /\ Report(TRUE)
       \/ /\ ~settled
          /\ secret' \in {secret, u.pwd}
          /\ Report(FALSE)
       \/ /\ seenSecret # secret
          /\ secret' = secret
          /\ Report(FALSE)
    /\ UNCHANGED <<keycloakVars, bootSecret, kcu, cacheVars, registry,
                   component, neteyeVars, settled>>

\* setStatus through writeStatus: the status fields of the pass replace the
\* ones of the current resource; a failed write is only logged.  A pass that
\* ended Ready has acted on the rotation token it read.
setStatus ==
    /\ uPc = "setStatus"
    /\ \/ /\ kcu.phase # "absent"
          /\ kcu' = [kcu EXCEPT
                !.ready = u.ready,
                !.rotation = IF u.ready THEN u.kcu.token ELSE u.kcu.rotation]
       \/ /\ kcu.phase = "absent" \/ ~settled
          /\ kcu' = kcu
    /\ uPc' = "idle"
    /\ u' = NoLocals
    /\ UNCHANGED <<keycloakVars, secret, bootSecret, cacheVars, registry,
                   component, neteyeVars, settled>>

User ==
    \/ Reconcile \/ reconcileDelete \/ AddFinalizer \/ credential
    \/ ReconcileUser \/ ResetUserPassword \/ reconcileRealmRoles
    \/ storePassword \/ setStatus

-----------------------------------------------------------------------------
(***************************************************************************)
(* The NetEye worker: the identity pass from the declaration of the        *)
(* internal admin to the retirement of the bootstrap admin.                *)
(***************************************************************************)

\* Ends a pass with its result.
Conclude(result) ==
    /\ nPc' = "idle"
    /\ nClient' = NoClient
    /\ identity' = result

\* EnsureInternalAdminUser: create the resource when the cache has none; one
\* that appeared meanwhile is left alone.  The pass then waits for it.
EnsureInternalAdminUser ==
    /\ nPc = "idle"
    /\ seenKcu.phase = "absent"
    /\ \/ kcu' = IF kcu.phase = "absent" THEN internalAdminSpec ELSE kcu
       \/ ~settled /\ kcu' = kcu
    /\ Conclude("NotReady")
    /\ UNCHANGED <<keycloakVars, secret, bootSecret, cacheVars, registry,
                   component, userVars, settled>>

\* IsUserReady and the gates for the root user, the client and the flows,
\* which let the pass through once everything has settled.
IsUserReady ==
    /\ nPc = "idle"
    /\ seenKcu.phase # "absent"
    /\ \/ /\ seenKcu.ready
          /\ nPc' = "getAdmin"
          /\ UNCHANGED <<nClient, identity>>
       \/ /\ ~seenKcu.ready \/ ~settled
          /\ Conclude("NotReady")
    /\ UNCHANGED <<keycloakVars, clusterVars, cacheVars, registry, component,
                   userVars, settled>>

\* Mutant of EnsureBootstrapAdminDisabled: any client will do.
EnsureBootstrapAdminDisabledByAny ==
    /\ nPc = "getAdmin"
    /\ \E o \in Get(component, seenSecret, bootSecret, Accepts(seenSecret), ~settled) :
         /\ component' = o.provider
         /\ \/ o.err # "none" /\ Conclude("DisablePending")
            \/ /\ o.err = "none"
               /\ nPc' = "getBootstrap"
               /\ nClient' = o.client
               /\ UNCHANGED identity
    /\ UNCHANGED <<keycloakVars, clusterVars, cacheVars, registry, userVars, settled>>

\* EnsureBootstrapAdminDisabled: ask for a client, and do nothing unless it is
\* one of the internal admin.
EnsureBootstrapAdminDisabled ==
    /\ nPc = "getAdmin"
    /\ \E o \in Get(component, seenSecret, bootSecret, Accepts(seenSecret), ~settled) :
         /\ component' = o.provider
         /\ \/ o.err # "none" /\ Conclude("DisablePending")
            \/ o.err = "none" /\ o.client.who # "internal" /\ Conclude("Ready")
            \/ /\ o.err = "none" /\ o.client.who = "internal"
               /\ nPc' = "getBootstrap"
               /\ nClient' = o.client
               /\ UNCHANGED identity
    /\ UNCHANGED <<keycloakVars, clusterVars, cacheVars, registry, userVars, settled>>

\* Mutant of GetBootstrapUser: an account that is found counts as dealt with.
GetBootstrapUserFound ==
    /\ nPc = "getBootstrap"
    /\ \/ ~bootSecret /\ Conclude("DisablePending")
       \/ bootSecret /\ Refused(nClient) /\ Conclude("DisablePending")
       \/ bootSecret /\ Honoured(nClient) /\ Conclude("Ready")
    /\ UNCHANGED <<keycloakVars, clusterVars, cacheVars, registry, component,
                   userVars, settled>>

\* The same, reading the bootstrap account: a missing Secret is an error.
GetBootstrapUser ==
    /\ nPc = "getBootstrap"
    /\ \/ ~bootSecret /\ Conclude("DisablePending")
       \/ bootSecret /\ Refused(nClient) /\ Conclude("DisablePending")
       \/ bootSecret /\ Honoured(nClient) /\ ~bootEnabled /\ Conclude("Ready")
       \/ /\ bootSecret /\ Honoured(nClient) /\ bootEnabled
          /\ nPc' = "disableBootstrap"
          /\ UNCHANGED <<nClient, identity>>
    /\ UNCHANGED <<keycloakVars, clusterVars, cacheVars, registry, component,
                   userVars, settled>>

\* The same, writing the account back disabled.
DisableBootstrapUser ==
    /\ nPc = "disableBootstrap"
    /\ \/ Honoured(nClient) /\ bootEnabled' = FALSE /\ Conclude("Ready")
       \/ AnswerLost(nClient) /\ bootEnabled' = FALSE /\ Conclude("DisablePending")
       \/ Refused(nClient) /\ bootEnabled' = bootEnabled /\ Conclude("DisablePending")
    /\ UNCHANGED <<acctPwd, acctAdmin, clusterVars, cacheVars, registry,
                   component, userVars, settled>>

NetEye ==
    \/ EnsureInternalAdminUser \/ IsUserReady \/ EnsureBootstrapAdminDisabled
    \/ GetBootstrapUser \/ DisableBootstrapUser

-----------------------------------------------------------------------------
(***************************************************************************)
(* The environment.                                                        *)
(***************************************************************************)

\* The informers catch up with the API server, one kind at a time.
SyncSecret ==
    /\ seenSecret # secret
    /\ seenSecret' = secret
    /\ UNCHANGED <<keycloakVars, clusterVars, seenKcu, registry, component,
                   userVars, neteyeVars, settled>>

SyncKcu ==
    /\ seenKcu # kcu
    /\ seenKcu' = kcu
    /\ UNCHANGED <<keycloakVars, clusterVars, seenSecret, registry, component,
                   userVars, neteyeVars, settled>>

\* nextInternalAttempt passes.
RetryIntervalElapses ==
    /\ \/ /\ registry.throttled
          /\ registry' = [registry EXCEPT !.throttled = FALSE]
          /\ UNCHANGED component
       \/ /\ component.throttled
          /\ component' = [component EXCEPT !.throttled = FALSE]
          /\ UNCHANGED registry
    /\ UNCHANGED <<keycloakVars, clusterVars, cacheVars, userVars, neteyeVars, settled>>

\* Another Keycloak resource controller asks the shared registry for a client.
OtherControllerGet ==
    /\ \E o \in Get(registry, seenSecret, bootSecret, Accepts(seenSecret), ~settled) :
         registry' = o.provider
    /\ registry' # registry
    /\ UNCHANGED <<keycloakVars, clusterVars, cacheVars, component, userVars,
                   neteyeVars, settled>>

\* Forget, or the eviction of an idle provider: the next For builds a new one.
Forget ==
    /\ ~settled
    /\ registry # NewAdminProvider
    /\ registry' = NewAdminProvider
    /\ UNCHANGED <<keycloakVars, clusterVars, cacheVars, component, userVars,
                   neteyeVars, settled>>

\* The operator restarts: memory is lost and the caches are filled afresh.
Crash ==
    /\ ~settled
    /\ registry' = NewAdminProvider
    /\ component' = NewAdminProvider
    /\ uPc' = "idle"
    /\ u' = NoLocals
    /\ nPc' = "idle"
    /\ nClient' = NoClient
    /\ seenSecret' = secret
    /\ seenKcu' = kcu
    /\ UNCHANGED <<keycloakVars, clusterVars, identity, settled>>

\* An administrator deletes the resource; a finalizer holds it back.
DeleteKcu ==
    /\ ~settled
    /\ "delete" \in AdminActions
    /\ kcu.phase = "live"
    /\ kcu' = IF kcu.finalizer THEN [kcu EXCEPT !.phase = "deleting"] ELSE Absent
    /\ UNCHANGED <<keycloakVars, secret, bootSecret, cacheVars, registry,
                   component, userVars, neteyeVars, settled>>

\* An administrator enables the bootstrap account in the Keycloak console.
ReenableBootstrap ==
    /\ ~settled
    /\ "reenable" \in AdminActions
    /\ bootSecret /\ ~bootEnabled
    /\ bootEnabled' = TRUE
    /\ UNCHANGED <<acctPwd, acctAdmin, clusterVars, cacheVars, registry,
                   component, userVars, neteyeVars, settled>>

\* An administrator sets a rotation token never used before.  That tokens only
\* grow bounds the number of rotations by MaxToken.
SetRotationToken ==
    /\ ~settled
    /\ "rotate" \in AdminActions
    /\ kcu.phase = "live"
    /\ \E t \in (kcu.token + 1)..MaxToken : kcu' = [kcu EXCEPT !.token = t]
    /\ UNCHANGED <<keycloakVars, secret, bootSecret, cacheVars, registry,
                   component, userVars, neteyeVars, settled>>

\* From here on the environment is quiet.
Settle ==
    /\ ~settled
    /\ settled' = TRUE
    /\ UNCHANGED <<keycloakVars, clusterVars, cacheVars, registry, component,
                   userVars, neteyeVars>>

Environment ==
    \/ SyncSecret \/ SyncKcu \/ RetryIntervalElapses \/ OtherControllerGet
    \/ Forget \/ Crash \/ DeleteKcu \/ ReenableBootstrap \/ SetRotationToken
    \/ Settle

Next == User \/ NetEye \/ Environment

(***************************************************************************)
(* Both controllers requeue after every pass, the informers deliver every  *)
(* change and time passes; a fault-free period is eventually long enough.  *)
(***************************************************************************)
Fairness ==
    /\ WF_vars(User)
    /\ WF_vars(NetEye)
    /\ WF_vars(SyncSecret)
    /\ WF_vars(SyncKcu)
    /\ WF_vars(RetryIntervalElapses)
    /\ WF_vars(Settle)

Spec == Init /\ [][Next]_vars

FairSpec == Spec /\ Fairness
-----------------------------------------------------------------------------
(***************************************************************************)
(* Correctness.                                                            *)
(***************************************************************************)

\* Every variable has its type; workers that are idle hold nothing.
TypeOK ==
    /\ acctPwd \in Passwords \cup {NoPassword}
    /\ acctAdmin \in BOOLEAN
    /\ bootEnabled \in BOOLEAN
    /\ secret \in Passwords \cup {NoPassword}
    /\ bootSecret \in BOOLEAN
    /\ kcu \in Resources
    /\ seenSecret \in Passwords \cup {NoPassword}
    /\ seenKcu \in Resources
    /\ registry \in Providers
    /\ component \in Providers
    /\ uPc \in UserSteps
    /\ u \in Locals
    /\ nPc \in NetEyeSteps
    /\ nClient \in Clients
    /\ identity \in IdentityResults
    /\ settled \in BOOLEAN

\* The platform can get into its own Keycloak: the stored internal credential
\* works, or the bootstrap account is still there.
WayIn == InternalUsable \/ BootstrapUsable

\* The account has a password that a rotation set and did not get to store.
RotationCutShort ==
    acctAdmin /\ acctPwd # NoPassword /\ secret # NoPassword /\ secret # acctPwd

\* Nothing but a rotation that was cut short takes the last way in away, and
\* then an administrator's password is at most out of date: the internal account
\* and its Secret both exist before the bootstrap account is disabled, in every
\* interleaving of the two workers (EnsureBootstrapAdminDisabled,
\* internalAdminSpec).
NotLockedOut == WayIn \/ RotationCutShort

\* A generated password is stored only when it is the one the account has by
\* then, roles included, whatever the passes before it left half done
\* (Reconcile, lines on PasswordSet; credential; ReconcileUser).
StoresWorkingPassword ==
    uPc = "storePassword" => u.pwd = acctPwd /\ acctAdmin

\* An account that exists while its password is in no Secret: the operator
\* neither knows the password nor sets another one.
PasswordUnknown == acctPwd # NoPassword /\ secret = NoPassword

\* The bootstrap account does not stay enabled for good, unless the internal
\* password is unknown (EnsureBootstrapAdminDisabled and its retries).
BootstrapRetired == <>[](~bootEnabled \/ PasswordUnknown)

\* After a transient rejection the shared provider returns to the internal
\* account: in the end no pass of the KeycloakUser controller works with a
\* client that Keycloak refuses (verifyInternal, Get).
NoDeadClient ==
    <>[](u.client.who # "none" => Honoured(u.client))

\* A KeycloakUser being deleted is released in the end (reconcileDelete).
DeletionCompletes == kcu.phase = "deleting" ~> kcu.phase # "deleting"

\* The bootstrap account is disabled only while the stored internal credential
\* works (EnsureBootstrapAdminDisabled: "the last usable credential is never
\* taken away").
DisableIsSafe ==
    (nPc = "disableBootstrap" /\ Honoured(nClient)) => InternalUsable

\* A KeycloakUser that asks for a generated password and is reported Ready has
\* it in its Secret (KeycloakUserCredentialSpec.Generate).
ReadyHasGeneratedPassword == kcu.ready => secret # NoPassword

\* The identity component reports itself done in the end, with or without a
\* bootstrap Secret (EnsureBootstrapAdminDisabled: a missing one "is the normal
\* state against a pre-existing Keycloak").  Without one it does not: the service
\* is shown as Ready all the same, but the result of the component stays
\* Progressing, so that the phase of the NetEye never becomes Ready.
IdentityResultReady == <>(identity = "Ready")
=============================================================================
