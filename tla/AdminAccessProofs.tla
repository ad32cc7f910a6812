------------------------- MODULE AdminAccessProofs -------------------------
(***************************************************************************)
(* The platform is not locked out of its own Keycloak, for every set of    *)
(* passwords and everything an administrator may do.  Three results, from  *)
(* three invariants:                                                       *)
(*                                                                         *)
(*  - without rotation there is always a way in.  WayIn is not inductive.  *)
(*    It rests on a chain: the Secret only ever receives the password the  *)
(*    account has (WorkerAgrees), so what it holds works (SecretWorks);    *)
(*    the informer copy is that password or none (CacheBehind); so every   *)
(*    internal client somebody holds was built from the password now in    *)
(*    the Secret (ClientsCurrent), and whoever disables the bootstrap      *)
(*    account holds one (DisablerIsInternal);                              *)
(*  - a password is stored only once it is the account's (CarriesPassword),*)
(*    rotations included;                                                  *)
(*  - with rotations, what remains of the chain (HandoverInv) shows that   *)
(*    only one cut short between reset and store can take the way in away. *)
(***************************************************************************)
EXTENDS AdminAccess, TLAPS

\* What the Secret holds is the password of an administrator account.
SecretWorks == secret # NoPassword => secret = acctPwd /\ acctAdmin

\* The informer copy of the Secret is current or from before it existed.
CacheBehind == seenSecret = NoPassword \/ seenSecret = secret

\* An internal client was built from the password that is in the Secret.
Current(c) == c.who = "internal" => c.pwd = secret

ClientsCurrent ==
    /\ Current(registry.api)
    /\ Current(component.api)
    /\ Current(nClient)

\* A pass that created the account carries the account's password until it
\* stores it, and reaches the store only with the admin role in place; no pass
\* resets a password.
WorkerAgrees ==
    /\ uPc \in {"finalize", "credential", "reconcileUser"} => ~u.created
    /\ uPc # "resetPassword"
    /\ uPc = "realmRoles" /\ u.created => u.pwd = acctPwd
    /\ uPc = "storePassword" => u.pwd = acctPwd /\ acctAdmin

\* The bootstrap account is out of use only once the Secret is filled.
BootstrapKept == BootstrapUsable \/ secret # NoPassword

DisablerIsInternal ==
    nPc \in {"getBootstrap", "disableBootstrap"} => nClient.who = "internal"

\* No copy of the resource carries a rotation token.
NoRotation ==
    /\ kcu.token = 0
    /\ seenKcu.token = 0
    /\ u.kcu.token = 0
    /\ ~u.rotate

AccessInv ==
    /\ TypeOK
    /\ SecretWorks
    /\ CacheBehind
    /\ ClientsCurrent
    /\ WorkerAgrees
    /\ BootstrapKept
    /\ DisablerIsInternal
    /\ NoRotation

-----------------------------------------------------------------------------
(***************************************************************************)
(* What Get hands out and leaves behind.                                   *)
(***************************************************************************)

\* An outcome of a call with this provider and this password.
BuiltFrom(o, p, pwd) ==
    /\ o.provider \in Providers
    /\ o.client \in Clients
    /\ o.client.who = "internal" => o.client.pwd = pwd
    /\ o.provider.api.who = "internal" =>
           o.provider.api = p.api \/ o.provider.api.pwd = pwd

\* A provider stays a provider, and every internal client Get returns was
\* built from the password it was given (AdminProvider.Get).
LEMMA GetOutcome ==
    ASSUME NEW p \in Providers,
           NEW pwd \in Passwords \cup {NoPassword},
           NEW boot \in BOOLEAN, NEW accepts \in BOOLEAN, NEW flaky \in BOOLEAN,
           NEW o \in Get(p, pwd, boot, accepts, flaky)
    PROVE  BuiltFrom(o, p, pwd)
  <1> USE PasswordAssumption DEF BuiltFrom
  <1>1. /\ NoClient \in Clients
        /\ BootstrapClient \in Clients
        /\ pwd # NoPassword => InternalClient(pwd) \in Clients
    BY DEF Clients, InternalClients, NoClient, BootstrapClient, InternalClient
  <1>2. ASSUME NEW t \in tryInternal(p, pwd, accepts, flaky)
        PROVE  /\ t.provider \in Providers
               /\ t.provider.api = p.api \/ t.provider.api = InternalClient(pwd)
               /\ t.ok => t.provider.api = InternalClient(pwd)
    <2>1. CASE pwd = NoPassword \/ cached(p, InternalClient(pwd)) \/ p.throttled
      BY <1>2, <2>1 DEF tryInternal, verifyInternal, cached
    <2>2. CASE ~(pwd = NoPassword \/ cached(p, InternalClient(pwd)) \/ p.throttled)
      <3>1. t \in {[provider |-> [api |-> InternalClient(pwd), throttled |-> FALSE], ok |-> TRUE],
                   [provider |-> [p EXCEPT !.throttled = TRUE], ok |-> FALSE]}
        BY <1>2, <2>2 DEF tryInternal, verifyInternal
      <3>2. CASE t = [provider |-> [api |-> InternalClient(pwd), throttled |-> FALSE], ok |-> TRUE]
        BY <3>2, <2>2, <1>1 DEF Providers
      <3>3. CASE t = [provider |-> [p EXCEPT !.throttled = TRUE], ok |-> FALSE]
        <4>1. [p EXCEPT !.throttled = TRUE] \in Providers
              /\ [p EXCEPT !.throttled = TRUE].api = p.api
          BY DEF Providers
        <4> QED
          BY <3>3, <4>1
      <3> QED
        BY <3>1, <3>2, <3>3
    <2> QED
      BY <2>1, <2>2
  <1>3. CASE \E t \in tryInternal(p, pwd, accepts, flaky) :
                o = IF t.ok THEN [provider |-> t.provider, client |-> t.provider.api, err |-> "none"]
                            ELSE useBootstrap(t.provider, boot)
    <2>1. PICK t \in tryInternal(p, pwd, accepts, flaky) :
                o = IF t.ok THEN [provider |-> t.provider, client |-> t.provider.api, err |-> "none"]
                            ELSE useBootstrap(t.provider, boot)
      BY <1>3
    <2>2. CASE t.ok
      <3>1. o = [provider |-> t.provider, client |-> t.provider.api, err |-> "none"]
        BY <2>1, <2>2
      <3>2. t.provider \in Providers /\ t.provider.api = InternalClient(pwd)
        BY <1>2, <2>2
      <3> QED
        BY <3>1, <3>2 DEF Providers, InternalClient
    <2>3. CASE ~t.ok
      <3>1. o = useBootstrap(t.provider, boot)
        BY <2>1, <2>3
      <3>2. t.provider \in Providers /\ (t.provider.api = p.api \/ t.provider.api = InternalClient(pwd))
        BY <1>2
      <3> QED
        BY <3>1, <3>2, <1>1 DEF useBootstrap, Providers, InternalClient, NoClient, BootstrapClient
    <2> QED
      BY <2>2, <2>3
  <1>4. CASE o = [provider |-> p, client |-> NoClient, err |-> "other"]
    BY <1>1, <1>4 DEF NoClient
  <1> QED
    BY <1>3, <1>4 DEF Get

-----------------------------------------------------------------------------
(***************************************************************************)
(* Type correctness.                                                       *)
(***************************************************************************)

\* The values memory is reset to have their types (Crash, Conclude, Absent).
LEMMA ResetValues ==
    /\ NoClient \in Clients
    /\ NewAdminProvider \in Providers
    /\ Absent \in Resources
    /\ internalAdminSpec \in Resources
    /\ NoLocals \in Locals
  <1>1. NoClient \in Clients
    BY DEF Clients
  <1>2. NewAdminProvider \in Providers
    BY <1>1 DEF NewAdminProvider, Providers
  <1>3. Absent \in Resources /\ internalAdminSpec \in Resources
    <2>1. 0 \in 0..MaxToken
      BY AdminAccessAssumption
    <2>2. Absent \in Resources
      BY <2>1 DEF Absent, Resources
    <2> QED
      BY <2>2 DEF internalAdminSpec, Resources
  <1>4. NoLocals \in Locals
    BY <1>1, <1>3 DEF NoLocals, Locals
  <1> QED
    BY <1>1, <1>2, <1>3, <1>4

\* Every step of the KeycloakUser worker keeps the types (Reconcile and the
\* calls it makes).
LEMMA TypeUser == TypeOK /\ User => TypeOK'
  <1> SUFFICES ASSUME TypeOK, User PROVE TypeOK'
    OBVIOUS
  <1> USE ResetValues
  <1>1. CASE Reconcile
    <2>1. PICK o \in Get(registry, seenSecret, bootSecret, Accepts(seenSecret), ~settled) :
            /\ registry' = o.provider
            /\ uPc' \in UserSteps
            /\ u' \in {NoLocals, [NoLocals EXCEPT !.kcu = seenKcu, !.client = o.client]}
      BY <1>1 DEF Reconcile, UserSteps
    <2>2. Accepts(seenSecret) \in BOOLEAN
      BY DEF Accepts
    <2>3. o.provider \in Providers /\ o.client \in Clients
      BY <2>2, GetOutcome DEF TypeOK, BuiltFrom
    <2>4. u' \in Locals
      BY <2>1, <2>3 DEF TypeOK, Locals
    <2> QED
      BY <1>1, <2>1, <2>3, <2>4 DEF TypeOK, Reconcile, keycloakVars, clusterVars, cacheVars, neteyeVars
  <1>2. CASE reconcileDelete
    BY <1>2 DEF TypeOK, reconcileDelete, cacheVars, neteyeVars, UserSteps
  <1>3. CASE AddFinalizer
    <2>0. kcu' \in Resources
      BY <1>3 DEF TypeOK, AddFinalizer, Resources
    <2>1. kcu' \in Resources /\ u' \in Locals
      BY <1>3, <2>0 DEF TypeOK, AddFinalizer, Locals
    <2> QED
      BY <1>3, <2>1 DEF TypeOK, AddFinalizer, keycloakVars, cacheVars, neteyeVars, UserSteps
  <1>4. CASE credential
    <2>1. u' \in Locals
      BY <1>4 DEF TypeOK, credential, Report, Locals, RotationRequested
    <2> QED
      BY <1>4, <2>1 DEF TypeOK, credential, Report, keycloakVars, clusterVars, cacheVars, neteyeVars, UserSteps
  <1>5. CASE ReconcileUser
    <2>1. u' \in Locals
      BY <1>5 DEF TypeOK, ReconcileUser, Report, Locals
    <2>2. u.pwd \in Passwords \cup {NoPassword}
      BY DEF TypeOK, Locals
    <2> QED
      BY <1>5, <2>1, <2>2 DEF TypeOK, ReconcileUser, Report, clusterVars, cacheVars, neteyeVars, UserSteps
  <1>6. CASE ResetUserPassword
    <2>1. u' \in Locals
      BY <1>6 DEF TypeOK, ResetUserPassword, Report, Locals
    <2>2. u.pwd \in Passwords \cup {NoPassword}
      BY DEF TypeOK, Locals
    <2> QED
      BY <1>6, <2>1, <2>2 DEF TypeOK, ResetUserPassword, Report, clusterVars, cacheVars, neteyeVars, UserSteps
  <1>7. CASE reconcileRealmRoles
    <2>1. u' \in Locals
      BY <1>7 DEF TypeOK, reconcileRealmRoles, Report, Locals
    <2> QED
      BY <1>7, <2>1 DEF TypeOK, reconcileRealmRoles, Report, clusterVars, cacheVars, neteyeVars, UserSteps
  <1>8. CASE storePassword
    <2>1. u' \in Locals
      BY <1>8 DEF TypeOK, storePassword, Report, Locals
    <2>2. u.pwd \in Passwords \cup {NoPassword}
      BY DEF TypeOK, Locals
    <2> QED
      BY <1>8, <2>1, <2>2 DEF TypeOK, storePassword, Report, keycloakVars, cacheVars, neteyeVars, UserSteps
  <1>9. CASE setStatus
    <2>1. kcu' \in Resources
      BY <1>9 DEF TypeOK, setStatus, Resources, Locals
    <2> QED
      BY <1>9, <2>1 DEF TypeOK, setStatus, keycloakVars, cacheVars, neteyeVars, UserSteps
  <1> QED
    BY <1>1, <1>2, <1>3, <1>4, <1>5, <1>6, <1>7, <1>8, <1>9 DEF User

\* Every step of the NetEye worker keeps the types (reconcileKeycloak).
LEMMA TypeNetEye == TypeOK /\ NetEye => TypeOK'
  <1> SUFFICES ASSUME TypeOK, NetEye PROVE TypeOK'
    OBVIOUS
  <1> USE ResetValues DEF Conclude, IdentityResults, NetEyeSteps
  <1>1. CASE EnsureInternalAdminUser
    BY <1>1 DEF TypeOK, EnsureInternalAdminUser, keycloakVars, cacheVars, userVars
  <1>2. CASE IsUserReady
    BY <1>2 DEF TypeOK, IsUserReady, keycloakVars, clusterVars, cacheVars, userVars
  <1>3. CASE EnsureBootstrapAdminDisabled
    <2>1. PICK o \in Get(component, seenSecret, bootSecret, Accepts(seenSecret), ~settled) :
            /\ component' = o.provider
            /\ nPc' \in NetEyeSteps
            /\ nClient' \in {NoClient, o.client}
            /\ identity' \in IdentityResults \cup {identity}
      BY <1>3 DEF EnsureBootstrapAdminDisabled
    <2>2. Accepts(seenSecret) \in BOOLEAN
      BY DEF Accepts
    <2>3. o.provider \in Providers /\ o.client \in Clients
      BY <2>2, GetOutcome DEF TypeOK, BuiltFrom
    <2> QED
      BY <1>3, <2>1, <2>3 DEF TypeOK, EnsureBootstrapAdminDisabled, keycloakVars, clusterVars, cacheVars, userVars
  <1>4. CASE GetBootstrapUser
    BY <1>4 DEF TypeOK, GetBootstrapUser, keycloakVars, clusterVars, cacheVars, userVars
  <1>5. CASE DisableBootstrapUser
    BY <1>5 DEF TypeOK, DisableBootstrapUser, clusterVars, cacheVars, userVars
  <1> QED
    BY <1>1, <1>2, <1>3, <1>4, <1>5 DEF NetEye

\* Every step of the environment keeps the types.
LEMMA TypeEnvironment == TypeOK /\ Environment => TypeOK'
  <1> SUFFICES ASSUME TypeOK, Environment PROVE TypeOK'
    OBVIOUS
  <1> USE ResetValues DEF TypeOK, keycloakVars, clusterVars, cacheVars, userVars, neteyeVars
  <1>1. CASE SyncSecret \/ SyncKcu \/ Settle
    BY <1>1 DEF SyncSecret, SyncKcu, Settle
  <1>2. CASE RetryIntervalElapses
    <2>1. registry' \in Providers /\ component' \in Providers
      BY <1>2 DEF RetryIntervalElapses, Providers
    <2> QED
      BY <1>2, <2>1 DEF RetryIntervalElapses
  <1>3. CASE OtherControllerGet
    <2>1. PICK o \in Get(registry, seenSecret, bootSecret, Accepts(seenSecret), ~settled) :
            registry' = o.provider
      BY <1>3 DEF OtherControllerGet
    <2>2. Accepts(seenSecret) \in BOOLEAN
      BY DEF Accepts
    <2>3. o.provider \in Providers
      BY <2>2, GetOutcome DEF BuiltFrom
    <2> QED
      BY <1>3, <2>1, <2>3 DEF OtherControllerGet
  <1>4. CASE Forget \/ Crash
    BY <1>4 DEF Forget, Crash, UserSteps, NetEyeSteps
  <1>5. CASE DeleteKcu \/ SetRotationToken
    <2>1. kcu' \in Resources
      BY <1>5 DEF DeleteKcu, SetRotationToken, Resources
    <2> QED
      BY <1>5, <2>1 DEF DeleteKcu, SetRotationToken
  <1>6. CASE ReenableBootstrap
    BY <1>6 DEF ReenableBootstrap
  <1> QED
    BY <1>1, <1>2, <1>3, <1>4, <1>5, <1>6 DEF Environment

\* The specification is well typed, whatever the administrator does
\* (AdminAccess.TypeOK).
THEOREM TypeCorrect == Spec => []TypeOK
  <1>1. Init => TypeOK
    BY ResetValues DEF Init, TypeOK, UserSteps, NetEyeSteps, IdentityResults
  <1>2. TypeOK /\ [Next]_vars => TypeOK'
    <2>1. TypeOK /\ UNCHANGED vars => TypeOK'
      BY DEF TypeOK, vars, keycloakVars, clusterVars, cacheVars, userVars, neteyeVars
    <2> QED
      BY <2>1, TypeUser, TypeNetEye, TypeEnvironment DEF Next
  <1> QED
    BY <1>1, <1>2, PTL DEF Spec

-----------------------------------------------------------------------------
(***************************************************************************)
(* The platform is never locked out.                                       *)
(***************************************************************************)

\* Keycloak starts with one way in and nobody holds a client
\* (AdminAccess.Init).
LEMMA AccessInit == Init => AccessInv
  <1> SUFFICES ASSUME Init PROVE AccessInv
    OBVIOUS
  <1>1. TypeOK
    BY ResetValues DEF Init, TypeOK, UserSteps, NetEyeSteps, IdentityResults
  <1>2. SecretWorks /\ CacheBehind /\ BootstrapKept
    BY DEF Init, SecretWorks, CacheBehind, BootstrapKept, InternalUsable
  <1>3. ClientsCurrent
    BY DEF Init, ClientsCurrent, Current, NewAdminProvider, NoClient
  <1>4. WorkerAgrees /\ DisablerIsInternal
    BY DEF Init, WorkerAgrees, DisablerIsInternal
  <1>5. NoRotation
    BY DEF Init, NoRotation, Absent, NoLocals
  <1> QED
    BY <1>1, <1>2, <1>3, <1>4, <1>5 DEF AccessInv

\* An internal client that Get returns, given the informer copy of the Secret,
\* was built from the password in the Secret; so was the one it keeps.
LEMMA GetCurrent ==
    ASSUME TypeOK, CacheBehind, NEW p \in Providers, Current(p.api),
           NEW o \in Get(p, seenSecret, bootSecret, Accepts(seenSecret), ~settled)
    PROVE  Current(o.client) /\ Current(o.provider.api)
  <1>1. /\ Accepts(seenSecret) \in BOOLEAN
        /\ bootSecret \in BOOLEAN
        /\ (~settled) \in BOOLEAN
        /\ seenSecret \in Passwords \cup {NoPassword}
    BY DEF Accepts, TypeOK
  <1>2. /\ o.client \in Clients
        /\ o.provider \in Providers
        /\ o.client.who = "internal" => o.client.pwd = seenSecret
        /\ o.provider.api.who = "internal" =>
               o.provider.api = p.api \/ o.provider.api.pwd = seenSecret
    <2>1. BuiltFrom(o, p, seenSecret)
      BY <1>1, GetOutcome
    <2> QED
      BY <2>1 DEF BuiltFrom
  <1>3. \A c \in Clients : c.who = "internal" => c.pwd # NoPassword
    BY PasswordAssumption DEF Clients, InternalClients, NoClient, BootstrapClient
  <1>4. o.provider.api \in Clients
    BY <1>2 DEF Providers
  <1> QED
    BY <1>2, <1>3, <1>4 DEF Current, CacheBehind

\* A client that is current stays so when the Secret receives the password of
\* the account (storePassword).
LEMMA CurrentAfterStore ==
    ASSUME TypeOK, SecretWorks, secret' = acctPwd, NEW c \in Clients, Current(c)
    PROVE  c.who = "internal" => c.pwd = secret'
  <1>1. c.who = "internal" => c.pwd # NoPassword
    BY PasswordAssumption DEF Clients, InternalClients, NoClient, BootstrapClient
  <1> QED
    BY <1>1 DEF Current, SecretWorks

\* The parts of the invariant that a step leaving Keycloak, the Secret and the
\* clients alone cannot disturb.
LEMMA AccessFrame ==
    ASSUME AccessInv, TypeOK',
           UNCHANGED <<acctPwd, acctAdmin, bootEnabled, secret, bootSecret,
                       seenSecret, registry, component, nClient>>
    PROVE  SecretWorks' /\ CacheBehind' /\ ClientsCurrent' /\ BootstrapKept'
  BY DEF AccessInv, SecretWorks, CacheBehind, ClientsCurrent, Current,
         BootstrapKept, BootstrapUsable

\* Every step of the KeycloakUser worker keeps the invariant.
LEMMA AccessUser == AccessInv /\ User => AccessInv'
  <1> SUFFICES ASSUME AccessInv, User PROVE AccessInv'
    OBVIOUS
  <1>0. TypeOK /\ TypeOK'
    BY TypeUser DEF AccessInv
  <1>1. CASE Reconcile
    <2>1. PICK o \in Get(registry, seenSecret, bootSecret, Accepts(seenSecret), ~settled) :
            /\ registry' = o.provider
            /\ uPc' \in {"setStatus", "reconcileDelete", "idle", "credential", "finalize"}
            /\ u' \in {NoLocals, [NoLocals EXCEPT !.kcu = seenKcu, !.client = o.client]}
      BY <1>1 DEF Reconcile
    <2>2. /\ UNCHANGED <<acctPwd, acctAdmin, bootEnabled, secret, bootSecret,
                          seenSecret, component, nClient, nPc, kcu, seenKcu>>
      BY <1>1 DEF Reconcile, keycloakVars, clusterVars, cacheVars, neteyeVars
    <2>3. Current(o.provider.api)
      BY <1>0, GetCurrent DEF AccessInv, ClientsCurrent, TypeOK
    <2>4. ClientsCurrent'
      BY <2>1, <2>2, <2>3 DEF AccessInv, ClientsCurrent, Current
    <2>5. SecretWorks' /\ CacheBehind' /\ BootstrapKept' /\ DisablerIsInternal'
      BY <2>2 DEF AccessInv, SecretWorks, CacheBehind, BootstrapKept, BootstrapUsable, DisablerIsInternal
    <2>6. ~u'.created /\ ~u'.rotate /\ u'.kcu.token = 0
      <3>1. CASE u' = NoLocals
        BY <3>1 DEF NoLocals, Absent
      <3>2. CASE u' = [NoLocals EXCEPT !.kcu = seenKcu, !.client = o.client]
        <4>1. u'.created = NoLocals.created /\ u'.rotate = NoLocals.rotate /\ u'.kcu = seenKcu
          BY <3>2, ResetValues DEF Locals
        <4>2. ~NoLocals.created /\ ~NoLocals.rotate
          BY DEF NoLocals
        <4>3. seenKcu.token = 0
          BY DEF AccessInv, NoRotation
        <4> QED
          BY <4>1, <4>2, <4>3
      <3> QED
        BY <2>1, <3>1, <3>2
    <2>7. WorkerAgrees' /\ NoRotation'
      BY <2>1, <2>2, <2>6 DEF WorkerAgrees, AccessInv, NoRotation
    <2> QED
      BY <1>0, <2>4, <2>5, <2>7 DEF AccessInv
  <1>2. CASE reconcileDelete
    <2>1. /\ acctPwd' = acctPwd
          /\ acctAdmin' = (acctAdmin /\ acctPwd # NoPassword)
          /\ UNCHANGED <<bootEnabled, secret, bootSecret, seenSecret, seenKcu,
                         registry, component, nClient, nPc>>
          /\ kcu' \in {kcu, Absent}
          /\ uPc' = "idle" /\ u' = NoLocals
      BY <1>2 DEF reconcileDelete, DeletionPolicy, cacheVars, neteyeVars
    <2>2. SecretWorks'
      BY <2>1 DEF AccessInv, SecretWorks
    <2>3. CacheBehind' /\ ClientsCurrent' /\ BootstrapKept' /\ DisablerIsInternal'
      BY <2>1 DEF AccessInv, CacheBehind, ClientsCurrent, Current, BootstrapKept,
                  BootstrapUsable, DisablerIsInternal
    <2>4. WorkerAgrees' /\ NoRotation'
      BY <2>1 DEF AccessInv, WorkerAgrees, NoRotation, NoLocals, Absent
    <2> QED
      BY <1>0, <2>2, <2>3, <2>4 DEF AccessInv
  <1>3. CASE AddFinalizer
    <2>1. /\ UNCHANGED <<acctPwd, acctAdmin, bootEnabled, secret, bootSecret,
                          seenSecret, seenKcu, registry, component, nClient, nPc>>
          /\ uPc' \in {"credential", "idle"}
      BY <1>3 DEF AddFinalizer, keycloakVars, cacheVars, neteyeVars
    <2>2. ~u'.created /\ ~u'.rotate /\ u'.kcu.token = 0 /\ kcu'.token = 0
      <3>1. CASE u' = NoLocals /\ kcu' = kcu
        BY <3>1 DEF NoLocals, Absent, AccessInv, NoRotation
      <3>2. CASE kcu' = [kcu EXCEPT !.finalizer = TRUE] /\ u' = [u EXCEPT !.kcu = kcu']
        <4>1. kcu'.token = kcu.token
          BY <3>2, <1>0 DEF TypeOK, Resources
        <4>2. u'.created = u.created /\ u'.rotate = u.rotate /\ u'.kcu = kcu'
          BY <3>2, <1>0 DEF TypeOK, Locals
        <4>3. uPc = "finalize"
          BY <1>3 DEF AddFinalizer
        <4> QED
          BY <4>1, <4>2, <4>3 DEF AccessInv, NoRotation, WorkerAgrees
      <3> QED
        BY <1>3, <3>1, <3>2 DEF AddFinalizer
    <2>3. WorkerAgrees' /\ NoRotation' /\ DisablerIsInternal'
      BY <2>1, <2>2 DEF AccessInv, WorkerAgrees, NoRotation, DisablerIsInternal
    <2> QED
      BY <1>0, <2>1, <2>3, AccessFrame DEF AccessInv
  <1>4. CASE credential
    <2>1. /\ UNCHANGED <<acctPwd, acctAdmin, bootEnabled, secret, bootSecret,
                          seenSecret, seenKcu, kcu, registry, component, nClient, nPc>>
          /\ uPc = "credential"
          /\ uPc' \in {"reconcileUser", "setStatus"}
      BY <1>4 DEF credential, Report, keycloakVars, clusterVars, cacheVars, neteyeVars
    <2>2. ~RotationRequested(u.kcu)
      BY DEF AccessInv, NoRotation, RotationRequested
    <2>3. u'.created = u.created /\ u'.kcu = u.kcu /\ ~u'.rotate
      BY <1>4, <1>0, <2>2 DEF credential, Report, TypeOK, Locals, AccessInv, NoRotation
    <2>4. WorkerAgrees' /\ NoRotation' /\ DisablerIsInternal'
      BY <2>1, <2>3 DEF AccessInv, WorkerAgrees, NoRotation, DisablerIsInternal
    <2> QED
      BY <1>0, <2>1, <2>4, AccessFrame DEF AccessInv
  <1>5. CASE ReconcileUser
    <2>1. /\ UNCHANGED <<bootEnabled, secret, bootSecret, seenSecret, seenKcu, kcu,
                          registry, component, nClient, nPc>>
          /\ uPc = "reconcileUser"
      BY <1>5 DEF ReconcileUser, clusterVars, cacheVars, neteyeVars
    <2>2. \/ acctPwd = NoPassword /\ acctPwd' = u.pwd
          \/ acctPwd' = acctPwd /\ acctAdmin' = acctAdmin
      BY <1>5 DEF ReconcileUser
    <2>3. SecretWorks'
      BY <2>1, <2>2 DEF AccessInv, SecretWorks
    <2>4. CacheBehind' /\ ClientsCurrent' /\ BootstrapKept' /\ DisablerIsInternal'
      BY <2>1 DEF AccessInv, CacheBehind, ClientsCurrent, Current, BootstrapKept,
                  BootstrapUsable, DisablerIsInternal
    <2>5. u'.kcu = u.kcu /\ u'.rotate = u.rotate /\ u'.pwd = u.pwd
      BY <1>5, <1>0 DEF ReconcileUser, Report, TypeOK, Locals
    <2>6. \/ uPc' = "realmRoles" /\ acctPwd' = u.pwd
          \/ uPc' = "realmRoles" /\ ~u'.created
          \/ uPc' = "setStatus"
      BY <1>5, <2>1 DEF ReconcileUser, Report, AccessInv, WorkerAgrees, NoRotation
    <2>7. WorkerAgrees' /\ NoRotation'
      BY <2>1, <2>5, <2>6 DEF AccessInv, WorkerAgrees, NoRotation
    <2> QED
      BY <1>0, <2>3, <2>4, <2>7 DEF AccessInv
  <1>6. CASE ResetUserPassword
    \* Reached only by a pass that rotates.
    BY <1>6 DEF ResetUserPassword, AccessInv, WorkerAgrees
  <1>7. CASE reconcileRealmRoles
    <2>1. /\ UNCHANGED <<acctPwd, bootEnabled, secret, bootSecret, seenSecret,
                          seenKcu, kcu, registry, component, nClient, nPc>>
          /\ uPc = "realmRoles"
          /\ acctAdmin' \in {TRUE, acctAdmin}
      BY <1>7 DEF reconcileRealmRoles, clusterVars, cacheVars, neteyeVars
    <2>2. SecretWorks'
      BY <2>1 DEF AccessInv, SecretWorks
    <2>3. CacheBehind' /\ ClientsCurrent' /\ BootstrapKept' /\ DisablerIsInternal'
      BY <2>1 DEF AccessInv, CacheBehind, ClientsCurrent, Current, BootstrapKept,
                  BootstrapUsable, DisablerIsInternal
    <2>4. u'.kcu = u.kcu /\ u'.rotate = u.rotate
      BY <1>7, <1>0 DEF reconcileRealmRoles, Report, TypeOK, Locals
    <2>5. \/ uPc' = "storePassword" /\ u' = u /\ u.created /\ acctAdmin' = TRUE
          \/ uPc' = "setStatus"
      BY <1>7 DEF reconcileRealmRoles, Report, PasswordToStore, AccessInv, NoRotation
    <2>6. WorkerAgrees' /\ NoRotation'
      BY <2>1, <2>4, <2>5 DEF AccessInv, WorkerAgrees, NoRotation
    <2> QED
      BY <1>0, <2>2, <2>3, <2>6 DEF AccessInv
  <1>8. CASE storePassword
    <2>1. /\ UNCHANGED <<acctPwd, acctAdmin, bootEnabled, bootSecret, seenSecret,
                          seenKcu, kcu, registry, component, nClient, nPc>>
          /\ u.pwd = acctPwd /\ acctAdmin
          /\ secret' = secret \/ secret' = acctPwd
          /\ uPc' = "setStatus"
      BY <1>8 DEF storePassword, Report, keycloakVars, cacheVars, neteyeVars,
                  AccessInv, WorkerAgrees
    <2>2. u'.kcu = u.kcu /\ u'.rotate = u.rotate
      BY <1>8, <1>0 DEF storePassword, Report, TypeOK, Locals
    <2>3. SecretWorks' /\ DisablerIsInternal' /\ WorkerAgrees' /\ NoRotation'
      BY <2>1, <2>2 DEF AccessInv, SecretWorks, DisablerIsInternal, WorkerAgrees, NoRotation
    <2>4. secret # NoPassword => secret' = secret
      BY <2>1 DEF AccessInv, SecretWorks
    <2>5. CacheBehind' /\ BootstrapKept'
      BY <2>1, <2>4 DEF AccessInv, CacheBehind, BootstrapKept, BootstrapUsable
    <2>6. ASSUME NEW c \in Clients, Current(c)
          PROVE  c.who = "internal" => c.pwd = secret'
      BY <1>0, <2>1, <2>6, CurrentAfterStore DEF AccessInv, Current
    <2>7. registry.api \in Clients /\ component.api \in Clients /\ nClient \in Clients
      BY <1>0 DEF TypeOK, Providers
    <2>8. ClientsCurrent'
      BY <2>1, <2>6, <2>7 DEF AccessInv, ClientsCurrent, Current
    <2> QED
      BY <1>0, <2>3, <2>5, <2>8 DEF AccessInv
  <1>9. CASE setStatus
    <2>1. /\ UNCHANGED <<acctPwd, acctAdmin, bootEnabled, secret, bootSecret,
                          seenSecret, seenKcu, registry, component, nClient, nPc>>
          /\ uPc' = "idle" /\ u' = NoLocals
      BY <1>9 DEF setStatus, keycloakVars, cacheVars, neteyeVars
    <2>2. kcu'.token = kcu.token
      BY <1>9, <1>0 DEF setStatus, TypeOK, Resources
    <2>3. WorkerAgrees' /\ NoRotation' /\ DisablerIsInternal'
      BY <2>1, <2>2 DEF AccessInv, WorkerAgrees, NoRotation, DisablerIsInternal, NoLocals, Absent
    <2> QED
      BY <1>0, <2>1, <2>3, AccessFrame DEF AccessInv
  <1> QED
    BY <1>1, <1>2, <1>3, <1>4, <1>5, <1>6, <1>7, <1>8, <1>9 DEF User

\* Every step of the NetEye worker keeps the invariant: only a pass that was
\* handed an internal client reaches the bootstrap account.
LEMMA AccessNetEye == AccessInv /\ NetEye => AccessInv'
  <1> SUFFICES ASSUME AccessInv, NetEye PROVE AccessInv'
    OBVIOUS
  <1>0. TypeOK /\ TypeOK'
    BY TypeNetEye DEF AccessInv
  <1>1. CASE EnsureInternalAdminUser
    <2>1. /\ UNCHANGED <<acctPwd, acctAdmin, bootEnabled, secret, bootSecret,
                          seenSecret, seenKcu, registry, component, uPc, u>>
          /\ kcu' \in {kcu, internalAdminSpec}
          /\ nPc' = "idle" /\ nClient' = NoClient
      BY <1>1 DEF EnsureInternalAdminUser, Conclude, keycloakVars, cacheVars, userVars
    <2>2. internalAdminSpec.token = 0
      BY DEF internalAdminSpec, Absent
    <2>3. SecretWorks' /\ CacheBehind' /\ BootstrapKept' /\ WorkerAgrees'
      BY <2>1 DEF AccessInv, SecretWorks, CacheBehind, BootstrapKept, BootstrapUsable, WorkerAgrees
    <2>4. ClientsCurrent' /\ DisablerIsInternal'
      BY <2>1 DEF AccessInv, ClientsCurrent, Current, NoClient, DisablerIsInternal
    <2>5. NoRotation'
      BY <2>1, <2>2 DEF AccessInv, NoRotation
    <2> QED
      BY <1>0, <2>3, <2>4, <2>5 DEF AccessInv
  <1>2. CASE IsUserReady
    <2>1. /\ UNCHANGED <<acctPwd, acctAdmin, bootEnabled, secret, bootSecret,
                          seenSecret, seenKcu, kcu, registry, component, uPc, u>>
          /\ nPc' \in {"idle", "getAdmin"} /\ nClient' \in {nClient, NoClient}
      BY <1>2 DEF IsUserReady, Conclude, keycloakVars, clusterVars, cacheVars, userVars
    <2>2. SecretWorks' /\ CacheBehind' /\ BootstrapKept' /\ WorkerAgrees' /\ NoRotation'
      BY <2>1 DEF AccessInv, SecretWorks, CacheBehind, BootstrapKept, BootstrapUsable,
                  WorkerAgrees, NoRotation
    <2>3. ClientsCurrent' /\ DisablerIsInternal'
      BY <2>1 DEF AccessInv, ClientsCurrent, Current, NoClient, DisablerIsInternal
    <2> QED
      BY <1>0, <2>2, <2>3 DEF AccessInv
  <1>3. CASE EnsureBootstrapAdminDisabled
    <2>1. PICK o \in Get(component, seenSecret, bootSecret, Accepts(seenSecret), ~settled) :
            /\ component' = o.provider
            /\ \/ nPc' = "idle" /\ nClient' = NoClient
               \/ nClient' = o.client /\ o.client.who = "internal"
      BY <1>3 DEF EnsureBootstrapAdminDisabled, Conclude
    <2>2. UNCHANGED <<acctPwd, acctAdmin, bootEnabled, secret, bootSecret,
                      seenSecret, seenKcu, kcu, registry, uPc, u>>
      BY <1>3 DEF EnsureBootstrapAdminDisabled, keycloakVars, clusterVars, cacheVars, userVars
    <2>3. Current(o.client) /\ Current(o.provider.api)
      BY <1>0, GetCurrent DEF AccessInv, ClientsCurrent, TypeOK
    <2>4. ClientsCurrent'
      BY <2>1, <2>2, <2>3 DEF AccessInv, ClientsCurrent, Current, NoClient
    <2>5. SecretWorks' /\ CacheBehind' /\ BootstrapKept' /\ WorkerAgrees' /\ NoRotation'
      BY <2>2 DEF AccessInv, SecretWorks, CacheBehind, BootstrapKept, BootstrapUsable,
                  WorkerAgrees, NoRotation
    <2>6. DisablerIsInternal'
      BY <2>1 DEF DisablerIsInternal
    <2> QED
      BY <1>0, <2>4, <2>5, <2>6 DEF AccessInv
  <1>4. CASE GetBootstrapUser
    <2>1. /\ UNCHANGED <<acctPwd, acctAdmin, bootEnabled, secret, bootSecret,
                          seenSecret, seenKcu, kcu, registry, component, uPc, u>>
          /\ nPc = "getBootstrap"
          /\ \/ nPc' = "idle" /\ nClient' = NoClient
             \/ nPc' = "disableBootstrap" /\ nClient' = nClient
      BY <1>4 DEF GetBootstrapUser, Conclude, keycloakVars, clusterVars, cacheVars, userVars
    <2>2. SecretWorks' /\ CacheBehind' /\ BootstrapKept' /\ WorkerAgrees' /\ NoRotation'
      BY <2>1 DEF AccessInv, SecretWorks, CacheBehind, BootstrapKept, BootstrapUsable,
                  WorkerAgrees, NoRotation
    <2>3. ClientsCurrent' /\ DisablerIsInternal'
      BY <2>1 DEF AccessInv, ClientsCurrent, Current, NoClient, DisablerIsInternal
    <2> QED
      BY <1>0, <2>2, <2>3 DEF AccessInv
  <1>5. CASE DisableBootstrapUser
    <2>1. /\ UNCHANGED <<acctPwd, acctAdmin, secret, bootSecret, seenSecret,
                          seenKcu, kcu, registry, component, uPc, u>>
          /\ nPc = "disableBootstrap"
          /\ nPc' = "idle" /\ nClient' = NoClient
      BY <1>5 DEF DisableBootstrapUser, Conclude, clusterVars, cacheVars, userVars
    <2>2. secret # NoPassword
      \* The worker holds an internal client, built from what the Secret holds.
      <3>1. nClient \in Clients /\ nClient.who = "internal" /\ nClient.pwd = secret
        BY <1>0, <2>1 DEF TypeOK, AccessInv, DisablerIsInternal, ClientsCurrent, Current
      <3> QED
        BY <3>1, PasswordAssumption DEF Clients, InternalClients, NoClient, BootstrapClient
    <2>3. SecretWorks' /\ CacheBehind' /\ BootstrapKept' /\ WorkerAgrees' /\ NoRotation'
      BY <2>1, <2>2 DEF AccessInv, SecretWorks, CacheBehind, BootstrapKept, WorkerAgrees, NoRotation
    <2>4. ClientsCurrent' /\ DisablerIsInternal'
      BY <2>1 DEF AccessInv, ClientsCurrent, Current, NoClient, DisablerIsInternal
    <2> QED
      BY <1>0, <2>3, <2>4 DEF AccessInv
  <1> QED
    BY <1>1, <1>2, <1>3, <1>4, <1>5 DEF NetEye

\* Without rotations, every step of the environment keeps the invariant.
LEMMA AccessEnvironment ==
    ASSUME "rotate" \notin AdminActions
    PROVE  AccessInv /\ Environment => AccessInv'
  <1> SUFFICES ASSUME AccessInv, Environment PROVE AccessInv'
    OBVIOUS
  <1>0. TypeOK /\ TypeOK'
    BY TypeEnvironment DEF AccessInv
  <1> USE DEF keycloakVars, clusterVars, cacheVars, userVars, neteyeVars
  <1>1. CASE SyncSecret \/ SyncKcu \/ Settle
    <2>1. /\ UNCHANGED <<acctPwd, acctAdmin, bootEnabled, secret, bootSecret, kcu,
                          registry, component, uPc, u, nPc, nClient>>
          /\ seenSecret' \in {seenSecret, secret}
          /\ seenKcu' \in {seenKcu, kcu}
      BY <1>1 DEF SyncSecret, SyncKcu, Settle
    <2>2. SecretWorks' /\ CacheBehind' /\ ClientsCurrent' /\ BootstrapKept'
      BY <2>1 DEF AccessInv, SecretWorks, CacheBehind, ClientsCurrent, Current,
                  BootstrapKept, BootstrapUsable
    <2>3. WorkerAgrees' /\ DisablerIsInternal' /\ NoRotation'
      BY <2>1 DEF AccessInv, WorkerAgrees, DisablerIsInternal, NoRotation
    <2> QED
      BY <1>0, <2>2, <2>3 DEF AccessInv
  <1>2. CASE RetryIntervalElapses \/ OtherControllerGet \/ Forget
    <2>1. UNCHANGED <<acctPwd, acctAdmin, bootEnabled, secret, bootSecret, kcu,
                      seenSecret, seenKcu, uPc, u, nPc, nClient>>
      BY <1>2 DEF RetryIntervalElapses, OtherControllerGet, Forget
    <2>2. Current(registry'.api) /\ Current(component'.api)
      <3>1. CASE RetryIntervalElapses
        <4>1. registry'.api = registry.api /\ component'.api = component.api
          BY <3>1, <1>0 DEF RetryIntervalElapses, TypeOK, Providers
        <4> QED
          BY <4>1 DEF AccessInv, ClientsCurrent
      <3>2. CASE OtherControllerGet
        <4>1. PICK o \in Get(registry, seenSecret, bootSecret, Accepts(seenSecret), ~settled) :
                registry' = o.provider
          BY <3>2 DEF OtherControllerGet
        <4>2. Current(o.provider.api)
          BY <1>0, GetCurrent DEF AccessInv, ClientsCurrent, TypeOK
        <4> QED
          BY <3>2, <4>1, <4>2 DEF OtherControllerGet, AccessInv, ClientsCurrent
      <3>3. CASE Forget
        BY <3>3 DEF Forget, AccessInv, ClientsCurrent, Current, NewAdminProvider, NoClient
      <3> QED
        BY <1>2, <3>1, <3>2, <3>3
    <2>3. ClientsCurrent'
      BY <2>1, <2>2 DEF AccessInv, ClientsCurrent, Current
    <2>4. /\ SecretWorks' /\ CacheBehind' /\ BootstrapKept'
          /\ WorkerAgrees' /\ DisablerIsInternal' /\ NoRotation'
      BY <2>1 DEF AccessInv, SecretWorks, CacheBehind, BootstrapKept, BootstrapUsable,
                  WorkerAgrees, DisablerIsInternal, NoRotation
    <2> QED
      BY <1>0, <2>3, <2>4 DEF AccessInv
  <1>3. CASE Crash
    <2>1. /\ UNCHANGED <<acctPwd, acctAdmin, bootEnabled, secret, bootSecret, kcu>>
          /\ registry' = NewAdminProvider /\ component' = NewAdminProvider
          /\ nClient' = NoClient /\ nPc' = "idle"
          /\ uPc' = "idle" /\ u' = NoLocals
          /\ seenSecret' = secret /\ seenKcu' = kcu
      BY <1>3 DEF Crash
    <2>2. ClientsCurrent' /\ DisablerIsInternal'
      BY <2>1 DEF ClientsCurrent, Current, NewAdminProvider, NoClient, DisablerIsInternal
    <2>3. SecretWorks' /\ CacheBehind' /\ BootstrapKept'
      BY <2>1 DEF AccessInv, SecretWorks, CacheBehind, BootstrapKept, BootstrapUsable
    <2>4. WorkerAgrees' /\ NoRotation'
      BY <2>1 DEF AccessInv, WorkerAgrees, NoRotation, NoLocals, Absent
    <2> QED
      BY <1>0, <2>2, <2>3, <2>4 DEF AccessInv
  <1>4. CASE DeleteKcu
    <2>1. UNCHANGED <<acctPwd, acctAdmin, bootEnabled, secret, bootSecret,
                      seenSecret, seenKcu, registry, component, uPc, u, nPc, nClient>>
      BY <1>4 DEF DeleteKcu
    <2>2. kcu'.token = 0
      <3>1. CASE kcu' = Absent
        BY <3>1 DEF Absent
      <3>2. CASE kcu' = [kcu EXCEPT !.phase = "deleting"]
        BY <3>2, <1>0 DEF TypeOK, Resources, AccessInv, NoRotation
      <3> QED
        BY <1>4, <3>1, <3>2 DEF DeleteKcu
    <2>3. WorkerAgrees' /\ DisablerIsInternal' /\ NoRotation'
      BY <2>1, <2>2 DEF AccessInv, WorkerAgrees, DisablerIsInternal, NoRotation
    <2> QED
      BY <1>0, <2>1, <2>3, AccessFrame DEF AccessInv
  <1>5. CASE ReenableBootstrap
    <2>1. /\ UNCHANGED <<acctPwd, acctAdmin, secret, bootSecret, kcu, seenSecret,
                          seenKcu, registry, component, uPc, u, nPc, nClient>>
          /\ bootEnabled' /\ bootSecret
      BY <1>5 DEF ReenableBootstrap
    <2>2. SecretWorks' /\ CacheBehind' /\ ClientsCurrent' /\ BootstrapKept'
      BY <2>1 DEF AccessInv, SecretWorks, CacheBehind, ClientsCurrent, Current,
                  BootstrapKept, BootstrapUsable
    <2>3. WorkerAgrees' /\ DisablerIsInternal' /\ NoRotation'
      BY <2>1 DEF AccessInv, WorkerAgrees, DisablerIsInternal, NoRotation
    <2> QED
      BY <1>0, <2>2, <2>3 DEF AccessInv
  <1>6. CASE SetRotationToken
    BY <1>6 DEF SetRotationToken
  <1> QED
    BY <1>1, <1>2, <1>3, <1>4, <1>5, <1>6 DEF Environment

\* What the invariant says of every reachable state: the stored credential
\* works, or nothing has replaced the bootstrap account yet.
LEMMA AccessImpliesGoal == AccessInv => WayIn
  BY DEF AccessInv, SecretWorks, BootstrapKept, WayIn, InternalUsable, BootstrapUsable

\* As long as no rotation is requested the invariant holds, whatever crashes,
\* lost answers, deletions and re-enablings happen (AccessInv).
THEOREM AccessInvariant ==
    ASSUME "rotate" \notin AdminActions
    PROVE  Spec => []AccessInv
  <1>1. AccessInv /\ [Next]_vars => AccessInv'
    <2>1. AccessInv /\ UNCHANGED vars => AccessInv'
      <3> SUFFICES ASSUME AccessInv, UNCHANGED vars PROVE AccessInv'
        OBVIOUS
      <3>1. UNCHANGED <<acctPwd, acctAdmin, bootEnabled, secret, bootSecret, kcu,
                        seenSecret, seenKcu, registry, component, uPc, u, nPc,
                        nClient, identity, settled>>
        BY DEF vars, keycloakVars, clusterVars, cacheVars, userVars, neteyeVars
      <3>2. TypeOK'
        BY <3>1 DEF AccessInv, TypeOK
      <3>3. WorkerAgrees' /\ DisablerIsInternal' /\ NoRotation'
        BY <3>1 DEF AccessInv, WorkerAgrees, DisablerIsInternal, NoRotation
      <3> QED
        BY <3>1, <3>2, <3>3, AccessFrame DEF AccessInv
    <2> QED
      BY <2>1, AccessUser, AccessNetEye, AccessEnvironment DEF Next
  <1> QED
    BY <1>1, AccessInit, PTL DEF Spec

\* As long as no rotation is requested, the platform always has a way into its
\* own Keycloak (EnsureBootstrapAdminDisabled, internalAdminSpec, ReconcileUser).
THEOREM AlwaysWayIn ==
    ASSUME "rotate" \notin AdminActions
    PROVE  Spec => []WayIn
  BY AccessInvariant, AccessImpliesGoal, PTL

-----------------------------------------------------------------------------
(***************************************************************************)
(* A generated password reaches the Secret only once it is the account's,  *)
(* rotations included.                                                     *)
(***************************************************************************)

\* The pass carries the account's password from the moment it created or reset
\* the account; until then it has created nothing.
CarriesPassword ==
    /\ uPc \in {"finalize", "credential", "reconcileUser", "resetPassword"} => ~u.created
    /\ uPc = "resetPassword" => u.rotate
    /\ uPc = "realmRoles" /\ (u.created \/ u.rotate) => u.pwd = acctPwd
    /\ uPc = "storePassword" => u.pwd = acctPwd /\ acctAdmin

\* Every step of the KeycloakUser worker keeps that (Reconcile, ReconcileUser).
LEMMA CarriesUser == TypeOK /\ CarriesPassword /\ User => CarriesPassword'
  <1> SUFFICES ASSUME TypeOK, CarriesPassword, User PROVE CarriesPassword'
    OBVIOUS
  <1>1. CASE Reconcile
    <2>1. PICK o \in Get(registry, seenSecret, bootSecret, Accepts(seenSecret), ~settled) :
            /\ uPc' \in {"setStatus", "reconcileDelete", "idle", "credential", "finalize"}
            /\ u' \in {NoLocals, [NoLocals EXCEPT !.kcu = seenKcu, !.client = o.client]}
      BY <1>1 DEF Reconcile
    <2>2. ~u'.created
      <3>1. ~NoLocals.created
        BY DEF NoLocals
      <3>2. [NoLocals EXCEPT !.kcu = seenKcu, !.client = o.client].created = NoLocals.created
        BY ResetValues DEF Locals
      <3> QED
        BY <2>1, <3>1, <3>2
    <2> QED
      BY <2>1, <2>2 DEF CarriesPassword
  <1>2. CASE reconcileDelete \/ setStatus
    BY <1>2 DEF reconcileDelete, setStatus, CarriesPassword
  <1>3. CASE AddFinalizer
    <2>1. uPc = "finalize" /\ (uPc' = "idle" \/ (uPc' = "credential" /\ u'.created = u.created))
      BY <1>3 DEF AddFinalizer, TypeOK, Locals
    <2> QED
      BY <2>1 DEF CarriesPassword
  <1>4. CASE credential
    <2>1. /\ uPc = "credential"
          /\ uPc' \in {"reconcileUser", "setStatus"}
          /\ u'.created = u.created
      BY <1>4 DEF credential, Report, TypeOK, Locals
    <2> QED
      BY <2>1 DEF CarriesPassword
  <1>5. CASE ReconcileUser
    <2>1. CASE uPc' = "realmRoles" /\ acctPwd' = u.pwd /\ u' = [u EXCEPT !.created = TRUE]
      <3>1. u'.pwd = u.pwd
        BY <2>1 DEF TypeOK, Locals
      <3> QED
        BY <2>1, <3>1 DEF CarriesPassword
    <2>2. CASE u' = u /\ uPc' = IF u.rotate THEN "resetPassword" ELSE "realmRoles"
      <3>1. ~u.created
        BY <1>5 DEF ReconcileUser, CarriesPassword
      <3> QED
        BY <2>2, <3>1 DEF CarriesPassword
    <2>3. CASE uPc' = "setStatus"
      BY <2>3 DEF CarriesPassword
    <2> QED
      BY <1>5, <2>1, <2>2, <2>3 DEF ReconcileUser, Report
  <1>6. CASE ResetUserPassword
    <2>1. \/ uPc' = "realmRoles" /\ acctPwd' = u.pwd /\ u' = u
          \/ uPc' = "setStatus"
      BY <1>6 DEF ResetUserPassword, Report
    <2> QED
      BY <2>1 DEF CarriesPassword
  <1>7. CASE reconcileRealmRoles
    <2>1. \/ /\ uPc = "realmRoles" /\ uPc' = "storePassword" /\ u' = u
             /\ u.created \/ u.rotate
             /\ acctAdmin' = TRUE
             /\ acctPwd' = acctPwd
          \/ uPc' = "setStatus"
      BY <1>7 DEF reconcileRealmRoles, Report, PasswordToStore
    <2> QED
      BY <2>1 DEF CarriesPassword
  <1>8. CASE storePassword
    BY <1>8 DEF storePassword, Report, CarriesPassword
  <1> QED
    BY <1>1, <1>2, <1>3, <1>4, <1>5, <1>6, <1>7, <1>8 DEF User

\* Nobody but that worker writes the password or the roles of the account.
LEMMA CarriesOthers == CarriesPassword /\ (NetEye \/ Environment) => CarriesPassword'
  <1> SUFFICES ASSUME CarriesPassword, NetEye \/ Environment PROVE CarriesPassword'
    OBVIOUS
  <1> USE DEF keycloakVars, userVars
  <1>1. CASE NetEye
    <2>1. UNCHANGED <<acctPwd, acctAdmin, uPc, u>>
      BY <1>1 DEF NetEye, EnsureInternalAdminUser, IsUserReady,
                  EnsureBootstrapAdminDisabled, GetBootstrapUser, DisableBootstrapUser
    <2> QED
      BY <2>1 DEF CarriesPassword
  <1>2. CASE Environment
    <2>1. UNCHANGED <<acctPwd, acctAdmin, uPc, u>> \/ uPc' = "idle"
      BY <1>2 DEF Environment, SyncSecret, SyncKcu, RetryIntervalElapses,
                  OtherControllerGet, Forget, Crash, DeleteKcu, ReenableBootstrap,
                  SetRotationToken, Settle
    <2> QED
      BY <2>1 DEF CarriesPassword
  <1> QED
    BY <1>1, <1>2

\* A generated password is stored only when the account has it by then
\* (Reconcile, credential, ReconcileUser).
THEOREM StoredOnlyWhenSet == Spec => []StoresWorkingPassword
  <1>1. Init => CarriesPassword
    BY DEF Init, CarriesPassword
  <1>2. TypeOK /\ CarriesPassword /\ [Next]_vars => CarriesPassword'
    <2>1. CarriesPassword /\ UNCHANGED vars => CarriesPassword'
      BY DEF CarriesPassword, vars, keycloakVars, userVars
    <2> QED
      BY <2>1, CarriesUser, CarriesOthers DEF Next
  <1>3. CarriesPassword => StoresWorkingPassword
    BY DEF CarriesPassword, StoresWorkingPassword
  <1> QED
    BY <1>1, <1>2, <1>3, TypeCorrect, PTL DEF Spec

-----------------------------------------------------------------------------
(***************************************************************************)
(* With rotations.                                                         *)
(***************************************************************************)

\* A pass past the choice of its password has one, and works on an account that
\* exists from the moment it looks at its roles.
PasswordChosen ==
    /\ uPc \in {"reconcileUser", "resetPassword", "realmRoles", "storePassword"}
           => u.pwd # NoPassword
    /\ uPc \in {"resetPassword", "realmRoles"} => acctPwd # NoPassword
    /\ acctAdmin => acctPwd # NoPassword

\* Whoever has seen a password, or holds an internal client, knows that the
\* Secret is filled.
SecretFilled ==
    /\ seenSecret # NoPassword => secret # NoPassword
    /\ component.api.who = "internal" => secret # NoPassword
    /\ nClient.who = "internal" => secret # NoPassword

\* The bootstrap account goes out of use after the Secret is filled and the
\* internal account has its role.
HandedOver == BootstrapUsable \/ (secret # NoPassword /\ acctAdmin)

HandoverInv ==
    TypeOK /\ CarriesPassword /\ PasswordChosen /\ SecretFilled
    /\ DisablerIsInternal /\ HandedOver

\* Passwords are never empty (PasswordAssumption).
LEMMA NonEmpty == NoPassword \notin Passwords /\ \A c \in Clients : c.who = "internal" => c.pwd # NoPassword
  BY PasswordAssumption DEF Clients, InternalClients, NoClient, BootstrapClient

\* The parts of the invariant about the two workers' clients survive a step
\* that leaves them and the Secret alone.
LEMMA HandoverFrame ==
    ASSUME HandoverInv, UNCHANGED <<secret, seenSecret, component, nPc, nClient>>
    PROVE  SecretFilled' /\ DisablerIsInternal'
  BY DEF HandoverInv, SecretFilled, DisablerIsInternal

\* Every step of the KeycloakUser worker keeps the invariant.
LEMMA HandoverUser == HandoverInv /\ User => HandoverInv'
  <1> SUFFICES ASSUME HandoverInv, User PROVE HandoverInv'
    OBVIOUS
  <1>1. TypeOK /\ TypeOK' /\ CarriesPassword'
    BY TypeUser, CarriesUser DEF HandoverInv
  <1>2. UNCHANGED <<bootEnabled, bootSecret, seenSecret, component, nPc, nClient>>
    BY DEF User, Reconcile, reconcileDelete, AddFinalizer, credential, ReconcileUser,
           ResetUserPassword, reconcileRealmRoles, storePassword, setStatus,
           keycloakVars, clusterVars, cacheVars, neteyeVars
  <1>3. CASE storePassword
    <2>1. u.pwd # NoPassword /\ UNCHANGED <<acctPwd, acctAdmin>>
      BY <1>3 DEF storePassword, HandoverInv, PasswordChosen, keycloakVars
    <2>2. secret' \in {secret, u.pwd} /\ uPc' = "setStatus"
      BY <1>3 DEF storePassword, Report
    <2> QED
      BY <1>1, <1>2, <2>1, <2>2 DEF HandoverInv, PasswordChosen, SecretFilled,
         DisablerIsInternal, HandedOver, BootstrapUsable
  <1>4. CASE ~storePassword
    <2>1. secret' = secret
      BY <1>4 DEF User, Reconcile, reconcileDelete, AddFinalizer, credential, ReconcileUser,
           ResetUserPassword, reconcileRealmRoles, setStatus, clusterVars
    <2>2. SecretFilled' /\ DisablerIsInternal'
      BY <1>2, <2>1, HandoverFrame
    <2>3. PasswordChosen' /\ (acctAdmin => acctAdmin')
      <3> USE DEF HandoverInv, PasswordChosen
      <3>1. CASE Reconcile \/ setStatus
        <4>1. /\ uPc' \in {"setStatus", "reconcileDelete", "idle", "credential", "finalize"}
              /\ UNCHANGED <<acctPwd, acctAdmin>>
          BY <3>1 DEF Reconcile, setStatus, keycloakVars
        <4> QED
          BY <4>1
      <3>2. CASE reconcileDelete
        <4>1. uPc' = "idle" /\ acctPwd' = acctPwd /\ acctAdmin' = (acctAdmin /\ acctPwd' # NoPassword)
          BY <3>2 DEF reconcileDelete, DeletionPolicy
        <4> QED
          BY <4>1
      <3>3. CASE AddFinalizer
        <4>1. uPc' \in {"idle", "credential"} /\ UNCHANGED <<acctPwd, acctAdmin>>
          BY <3>3 DEF AddFinalizer, keycloakVars
        <4> QED
          BY <4>1
      <3>4. CASE credential
        <4>1. /\ UNCHANGED <<acctPwd, acctAdmin>>
              /\ \/ uPc' = "setStatus"
                 \/ uPc' = "reconcileUser" /\ u'.pwd \in Passwords
          <5>1. CASE uPc' = "setStatus"
            BY <3>4, <5>1 DEF credential, keycloakVars
          <5>2. CASE uPc' # "setStatus"
            <6>1. /\ UNCHANGED <<acctPwd, acctAdmin>> /\ uPc' = "reconcileUser"
                  /\ \E p \in Passwords, g, r \in BOOLEAN :
                       u' = [u EXCEPT !.pwd = p, !.generated = g, !.rotate = r]
              BY <3>4, <5>2, <1>1 DEF credential, keycloakVars, Report, RotationRequested, TypeOK
            <6> QED
              BY <6>1, <1>1 DEF TypeOK, Locals
          <5> QED
            BY <5>1, <5>2
        <4> QED
          BY <4>1, NonEmpty
      <3>5. CASE ReconcileUser
        <4>1. \/ /\ uPc' = "realmRoles" /\ acctPwd' = u.pwd /\ acctAdmin' = FALSE
                 /\ u' = [u EXCEPT !.created = TRUE]
              \/ uPc' = "setStatus" /\ acctPwd' = u.pwd /\ acctAdmin' = FALSE
              \/ /\ uPc' \in {"resetPassword", "realmRoles"} /\ acctPwd # NoPassword
                 /\ UNCHANGED <<u, acctPwd, acctAdmin>>
              \/ uPc' = "setStatus" /\ UNCHANGED <<acctPwd, acctAdmin>>
          BY <3>5 DEF ReconcileUser, Report
        <4>2. acctPwd = NoPassword \/ acctAdmin' = acctAdmin
          BY <3>5 DEF ReconcileUser
        <4>3. uPc = "reconcileUser" /\ u.pwd # NoPassword
          BY <3>5 DEF ReconcileUser
        <4>4. [u EXCEPT !.created = TRUE].pwd = u.pwd
          BY <1>1 DEF TypeOK, Locals
        <4>5. acctAdmin => acctAdmin'
          BY <4>2
        <4>6. CASE uPc' = "realmRoles" /\ acctPwd' = u.pwd /\ u' = [u EXCEPT !.created = TRUE]
          BY <4>3, <4>4, <4>5, <4>6
        <4>7. CASE uPc' = "setStatus" /\ acctPwd' = u.pwd
          BY <4>3, <4>5, <4>7
        <4>8. CASE /\ uPc' \in {"resetPassword", "realmRoles"} /\ acctPwd # NoPassword
                   /\ UNCHANGED <<u, acctPwd, acctAdmin>>
          BY <4>3, <4>8
        <4>9. CASE uPc' = "setStatus" /\ UNCHANGED <<acctPwd, acctAdmin>>
          BY <4>9
        <4> QED
          BY <4>1, <4>6, <4>7, <4>8, <4>9
      <3>6. CASE ResetUserPassword
        <4>1. /\ uPc = "resetPassword" /\ acctAdmin' = acctAdmin
              /\ acctPwd' \in {acctPwd, u.pwd}
              /\ uPc' = "setStatus" \/ (uPc' = "realmRoles" /\ u' = u)
          BY <3>6 DEF ResetUserPassword, Report
        <4> QED
          BY <4>1
      <3>7. CASE reconcileRealmRoles
        <4>1. /\ uPc = "realmRoles" /\ acctPwd' = acctPwd /\ (acctAdmin' = TRUE \/ acctAdmin' = acctAdmin)
              /\ uPc' = "setStatus" \/ (uPc' = "storePassword" /\ u' = u)
          BY <3>7 DEF reconcileRealmRoles, Report
        <4> QED
          BY <4>1
      <3> QED
        BY <1>4, <3>1, <3>2, <3>3, <3>4, <3>5, <3>6, <3>7 DEF User
    <2>4. HandedOver'
      BY <1>2, <2>1, <2>3 DEF HandoverInv, HandedOver, BootstrapUsable
    <2> QED
      BY <1>1, <2>2, <2>3, <2>4 DEF HandoverInv
  <1> QED
    BY <1>3, <1>4

\* Every step of the NetEye worker keeps it: whoever disables the bootstrap
\* account is an administrator whose Secret is filled.
LEMMA HandoverNetEye == HandoverInv /\ NetEye => HandoverInv'
  <1> SUFFICES ASSUME HandoverInv, NetEye PROVE HandoverInv'
    OBVIOUS
  <1>1. TypeOK /\ TypeOK' /\ CarriesPassword'
    BY TypeNetEye, CarriesOthers DEF HandoverInv
  <1>2. UNCHANGED <<acctPwd, acctAdmin, secret, bootSecret, seenSecret, uPc, u>>
    BY DEF NetEye, EnsureInternalAdminUser, IsUserReady, EnsureBootstrapAdminDisabled,
           GetBootstrapUser, DisableBootstrapUser, keycloakVars, clusterVars, cacheVars, userVars
  <1>3. PasswordChosen'
    BY <1>2 DEF HandoverInv, PasswordChosen
  <1>4. NoClient.who # "internal"
    BY DEF NoClient
  <1>5. SecretFilled' /\ DisablerIsInternal'
    <2>1. CASE EnsureBootstrapAdminDisabled
      <3>1. PICK o \in Get(component, seenSecret, bootSecret, Accepts(seenSecret), ~settled) :
              /\ component' = o.provider
              /\ \/ nPc' = "idle" /\ nClient' = NoClient
                 \/ /\ nPc' = "getBootstrap" /\ nClient' = o.client
                    /\ o.client.who = "internal"
        BY <2>1 DEF EnsureBootstrapAdminDisabled, Conclude
      <3>2. /\ component \in Providers /\ Accepts(seenSecret) \in BOOLEAN
            /\ bootSecret \in BOOLEAN /\ (~settled) \in BOOLEAN
            /\ seenSecret \in Passwords \cup {NoPassword}
        BY <1>1 DEF TypeOK, Accepts
      <3>3. BuiltFrom(o, component, seenSecret)
        BY <3>2, GetOutcome
      <3>4. /\ o.client.who = "internal" => seenSecret # NoPassword
            /\ o.provider.api.who = "internal" =>
                   o.provider.api = component.api \/ seenSecret # NoPassword
        BY <3>3, NonEmpty DEF BuiltFrom, Providers
      <3> QED
        BY <1>2, <1>4, <3>1, <3>4 DEF HandoverInv, SecretFilled, DisablerIsInternal
    <2>2. CASE ~EnsureBootstrapAdminDisabled
      <3>1. /\ component' = component
            /\ \/ nPc' = "idle" /\ nClient' = NoClient
               \/ nPc' = "getAdmin" /\ nClient' = nClient
               \/ nPc = "getBootstrap" /\ nPc' = "disableBootstrap" /\ nClient' = nClient
        BY <2>2 DEF NetEye, EnsureInternalAdminUser, IsUserReady, GetBootstrapUser,
                    DisableBootstrapUser, Conclude
      <3> QED
        BY <1>2, <1>4, <3>1 DEF HandoverInv, SecretFilled, DisablerIsInternal
    <2> QED
      BY <2>1, <2>2
  <1>6. HandedOver'
    <2>1. CASE DisableBootstrapUser
      <3>1. bootEnabled' = bootEnabled \/ (Honoured(nClient) /\ nClient.who = "internal")
        BY <2>1 DEF DisableBootstrapUser, AnswerLost, HandoverInv, DisablerIsInternal
      <3> QED
        BY <1>2, <3>1 DEF HandoverInv, HandedOver, BootstrapUsable, Honoured, SecretFilled
    <2>2. CASE ~DisableBootstrapUser
      <3>1. bootEnabled' = bootEnabled
        BY <2>2 DEF NetEye, EnsureInternalAdminUser, IsUserReady,
                    EnsureBootstrapAdminDisabled, GetBootstrapUser, keycloakVars
      <3> QED
        BY <1>2, <3>1 DEF HandoverInv, HandedOver, BootstrapUsable
    <2> QED
      BY <2>1, <2>2
  <1> QED
    BY <1>1, <1>3, <1>5, <1>6 DEF HandoverInv

\* So does the environment, which may only bring the bootstrap account back.
LEMMA HandoverEnvironment == HandoverInv /\ Environment => HandoverInv'
  <1> SUFFICES ASSUME HandoverInv, Environment PROVE HandoverInv'
    OBVIOUS
  <1>1. TypeOK' /\ CarriesPassword'
    BY TypeEnvironment, CarriesOthers DEF HandoverInv
  <1>2. /\ UNCHANGED <<acctPwd, acctAdmin, secret, bootSecret>>
        /\ bootEnabled' = bootEnabled \/ bootEnabled' = TRUE
        /\ seenSecret' \in {seenSecret, secret}
        /\ component' = component \/ component'.api = component.api \/ component' = NewAdminProvider
        /\ UNCHANGED <<nPc, nClient>> \/ (nPc' = "idle" /\ nClient' = NoClient)
        /\ UNCHANGED <<uPc, u>> \/ uPc' = "idle"
    <2>1. CASE RetryIntervalElapses
      <3>1. component \in Providers
        BY DEF HandoverInv, TypeOK
      <3>2. [component EXCEPT !.throttled = FALSE].api = component.api
        BY <3>1 DEF Providers
      <3> QED
        BY <2>1, <3>2 DEF RetryIntervalElapses, keycloakVars, clusterVars, cacheVars,
           userVars, neteyeVars
    <2>2. CASE ~RetryIntervalElapses
      BY <2>2 DEF Environment, SyncSecret, SyncKcu, OtherControllerGet, Forget, Crash,
         DeleteKcu, ReenableBootstrap, SetRotationToken, Settle, keycloakVars,
         clusterVars, cacheVars, userVars, neteyeVars
    <2> QED
      BY <2>1, <2>2
  <1>3. NoClient.who # "internal" /\ NewAdminProvider.api.who # "internal"
    BY DEF NoClient, NewAdminProvider
  <1> QED
    BY <1>1, <1>2, <1>3 DEF HandoverInv, PasswordChosen, SecretFilled,
       DisablerIsInternal, HandedOver, BootstrapUsable

\* Nothing but a rotation cut short takes the last way into Keycloak away,
\* whatever the administrator does (EnsureBootstrapAdminDisabled, Reconcile).
THEOREM NeverLockedOut == Spec => []NotLockedOut
  <1>1. Init => HandoverInv
    <2> SUFFICES ASSUME Init PROVE HandoverInv
      OBVIOUS
    <2>1. TypeOK
      BY ResetValues DEF Init, TypeOK, UserSteps, NetEyeSteps, IdentityResults
    <2> QED
      BY <2>1 DEF Init, HandoverInv, CarriesPassword, PasswordChosen, SecretFilled,
         DisablerIsInternal, HandedOver, InternalUsable, NewAdminProvider, NoClient
  <1>2. HandoverInv /\ UNCHANGED vars => HandoverInv'
    <2> SUFFICES ASSUME HandoverInv, UNCHANGED vars PROVE HandoverInv'
      OBVIOUS
    <2>1. UNCHANGED <<acctPwd, acctAdmin, bootEnabled, secret, bootSecret, kcu,
                      seenSecret, seenKcu, registry, component, uPc, u, nPc,
                      nClient, identity, settled>>
      BY DEF vars, keycloakVars, clusterVars, cacheVars, userVars, neteyeVars
    <2>2. TypeOK'
      BY <2>1 DEF HandoverInv, TypeOK
    <2> QED
      BY <2>1, <2>2 DEF HandoverInv, CarriesPassword, PasswordChosen, SecretFilled,
         DisablerIsInternal, HandedOver, BootstrapUsable
  <1>3. HandoverInv => NotLockedOut
    BY DEF HandoverInv, HandedOver, PasswordChosen, NotLockedOut, WayIn,
       InternalUsable, RotationCutShort
  <1> QED
    BY <1>1, <1>2, <1>3, HandoverUser, HandoverNetEye, HandoverEnvironment, PTL
       DEF Spec, Next
=============================================================================
