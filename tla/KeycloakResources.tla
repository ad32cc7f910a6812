------------------------- MODULE KeycloakResources -------------------------
(***************************************************************************)
(* The four controllers that mirror a Kubernetes resource in Keycloak:     *)
(* KeycloakRealm, KeycloakClient, KeycloakUser and KeycloakAuthFlow.       *)
(*                                                                         *)
(* They share one protocol.  A pass reads the resource, obtains an Admin   *)
(* API client, puts a finalizer on the resource, brings the object in      *)
(* Keycloak to the state the spec asks for and writes the status.  A       *)
(* resource marked for deletion has its object removed before its          *)
(* finalizer is.  Clients, users and flows live in the realm and go with   *)
(* it.                                                                     *)
(*                                                                         *)
(* One worker per kind takes these steps, one remote call at a time, next  *)
(* to an administrator of the cluster, one of Keycloak, and crashes.       *)
(***************************************************************************)
EXTENDS Naturals

CONSTANTS
    Kinds,          \* the kinds of this instance, one resource of each
    Names,          \* what a spec may call its object: alias, username, clientId
    RealmName,      \* the one the realm has
    Policies,       \* the deletion policies a spec may carry
    BuiltIn,        \* kinds that may name an object Keycloak came with
    MaxGeneration,  \* bound on the edits of one resource
    MaxUid,         \* bound on how often a resource is created
    Disturbances    \* what the administrators may do besides creating

ASSUME KeycloakResourcesAssumption ==
    /\ Kinds \subseteq {"realm", "client", "user", "flow"}
    /\ RealmName \in Names
    /\ Policies \subseteq {"Delete", "Orphan"}
    /\ BuiltIn \subseteq {"realm", "flow"}
    /\ MaxGeneration \in Nat \ {0}
    /\ MaxUid \in Nat \ {0}
    /\ Disturbances \subseteq {"edit", "rename", "delete", "drift", "credentials"}

VARIABLES
    res,        \* Kubernetes: the resource of each kind
    seen,       \* the operator's informer copy of it
    creds,      \* Kubernetes: the Secret with the admin credentials exists
    remote,     \* Keycloak: the objects of each kind, by name
    left,       \* names of objects found there, or let go knowingly
    renamed,    \* names a resource that held them has turned away from
    pc,         \* the step the worker of each kind takes next
    loc,        \* the local variables of its pass
    settled     \* no fault, crash or administrator action happens any more

vars == <<res, seen, creds, remote, left, renamed, pc, loc, settled>>

-----------------------------------------------------------------------------
(***************************************************************************)
(* A resource: "name" is what its spec calls the object, "gen" is          *)
(* metadata.generation, "ready" says status.status is Ready, "observed" is *)
(* status.observedGeneration.                                              *)
(***************************************************************************)
Resources ==
    [phase : {"absent", "live", "deleting"}, uid : 0..MaxUid, finalizer : BOOLEAN,
     name : Names, gen : 0..MaxGeneration, policy : {"Delete", "Orphan"},
     ready : BOOLEAN, observed : 0..MaxGeneration]

Absent(uid) ==
    [phase |-> "absent", uid |-> uid, finalizer |-> FALSE, name |-> RealmName,
     gen |-> 0, policy |-> "Delete", ready |-> FALSE, observed |-> 0]

\* spec.realm of a KeycloakRealm is immutable; alias, username and clientId are not.
NamesOf(k) == IF k = "realm" THEN {RealmName} ELSE Names

\* An object in Keycloak: there or not, the generation whose spec it has, 0 when
\* it is incomplete or somebody else configured it, and whether it is one that
\* cannot be removed: the master realm or a built-in flow.
Objects == [there : BOOLEAN, gen : 0..MaxGeneration, builtIn : BOOLEAN]

Gone == [there |-> FALSE, gen |-> 0, builtIn |-> FALSE]

\* An object the operator finds.
Foreign(builtIn) == [there |-> TRUE, gen |-> 0, builtIn |-> builtIn]

Locals ==
    [copy : Resources, live : Objects, ready : BOOLEAN, abandon : BOOLEAN]

NoLocals ==
    [copy |-> Absent(0), live |-> Gone, ready |-> FALSE, abandon |-> FALSE]

Steps == {"idle", "finalize", "read", "write", "setStatus", "delete", "release"}

\* A call about something in the realm fails when the realm is not there;
\* without a realm resource the instance lives in the master realm.
RealmUp(k) == ("realm" \in Kinds \ {k}) => remote["realm"][RealmName].there

Init ==
    /\ res = [k \in Kinds |-> Absent(0)]
    /\ seen = res
    /\ creds \in BOOLEAN
    /\ remote \in [Kinds -> [Names -> {Gone, Foreign(FALSE), Foreign(TRUE)}]]
    /\ \A k \in Kinds, n \in Names :
         /\ remote[k][n].builtIn => k \in BuiltIn
         /\ remote[k][n].there => n \in NamesOf(k) /\ RealmUp(k)
    /\ left = [k \in Kinds |-> {n \in Names : remote[k][n].there}]
    /\ renamed = [k \in Kinds |-> {}]
    /\ pc = [k \in Kinds |-> "idle"]
    /\ loc = [k \in Kinds |-> NoLocals]
    /\ settled = FALSE

-----------------------------------------------------------------------------
(***************************************************************************)
(* A pass of the controller of kind k.                                     *)
(***************************************************************************)

Goto(k, step) == pc' = [pc EXCEPT ![k] = step]

Finish(k) ==
    /\ pc' = [pc EXCEPT ![k] = "idle"]
    /\ loc' = [loc EXCEPT ![k] = NoLocals]

\* Ends a pass with the status setStatus will write: Ready, or a failure.
Report(k, ready) ==
    /\ pc' = [pc EXCEPT ![k] = "setStatus"]
    /\ loc' = [loc EXCEPT ![k].ready = ready]

\* adminAPI: a client, or the error isMissingCredentials recognises, or another.
adminAPI == (IF creds THEN {"ok"} ELSE {"missing"}) \cup (IF settled THEN {} ELSE {"other"})

\* What a deletion asks for once a client is there, or is not needed.
DeletionStep(r) ==
    IF ~r.finalizer THEN "idle"
    ELSE IF r.policy = "Orphan" THEN "release" ELSE "delete"

\* Mutant of AfterStart that never puts the finalizer on.
AfterStartUnfinalized(r, api) ==
    IF r.phase = "deleting"
    THEN CASE api = "ok" -> DeletionStep(r)
           [] api = "missing" -> "release"
           [] api = "other" -> "idle"
    ELSE IF api = "ok" THEN "read" ELSE "setStatus"

\* Where a pass of the realm, client and user controllers goes from its start:
\* the client comes first, also for a deletion that will not use it.
AfterStart(r, api) ==
    IF r.phase = "deleting"
    THEN CASE api = "ok" -> DeletionStep(r)
           [] api = "missing" -> "release"
           [] api = "other" -> "idle"
    ELSE CASE api # "ok" -> "setStatus"
           [] api = "ok" /\ r.finalizer -> "read"
           [] api = "ok" /\ ~r.finalizer -> "finalize"

\* The same for the flow controller, which asks for a client only when there
\* is something to remove.
FlowAfterStart(r, api) ==
    IF r.phase = "deleting" /\ DeletionStep(r) # "delete"
    THEN DeletionStep(r)
    ELSE AfterStart(r, api)

Reconcile(k) ==
    /\ pc[k] = "idle"
    /\ seen[k].phase # "absent"
    /\ \E api \in adminAPI :
         LET step == IF k = "flow" THEN FlowAfterStart(seen[k], api)
                                   ELSE AfterStart(seen[k], api)
         IN IF step = "idle" THEN Finish(k)
            ELSE /\ Goto(k, step)
                 /\ loc' = [loc EXCEPT ![k] =
                        [NoLocals EXCEPT !.copy = seen[k], !.abandon = (step = "release")]]
    /\ UNCHANGED <<res, seen, creds, remote, left, renamed, settled>>

\* AddFinalizer and Update: a conflict with a newer resource ends the pass.
AddFinalizer(k) ==
    /\ pc[k] = "finalize"
    /\ \/ /\ res[k] = loc[k].copy
          /\ res' = [res EXCEPT ![k].finalizer = TRUE]
          /\ loc' = [loc EXCEPT ![k].copy = res'[k]]
          /\ left' = [left EXCEPT ![k] = left[k] \ {res[k].name}]
          /\ renamed' = [renamed EXCEPT ![k] = renamed[k] \ {res[k].name}]
          /\ Goto(k, "read")
       \/ /\ res[k] # loc[k].copy \/ ~settled
          /\ Finish(k)
          /\ UNCHANGED <<res, left, renamed>>
    /\ UNCHANGED <<seen, creds, remote, settled>>

\* The lookup every synchronisation starts with.
GetObject(k) ==
    /\ pc[k] = "read"
    /\ \/ /\ RealmUp(k)
          /\ loc' = [loc EXCEPT ![k].live = remote[k][loc[k].copy.name]]
          /\ Goto(k, "write")
       \/ /\ ~RealmUp(k) \/ ~settled
          /\ Report(k, FALSE)
    /\ UNCHANGED <<res, seen, creds, remote, left, renamed, settled>>

\* Mutant of Synchronise that trusts whatever it finds.
SynchroniseCreates(k, parts) ==
    /\ pc[k] = "write"
    /\ IF loc[k].live.there THEN UNCHANGED remote
       ELSE remote' = [remote EXCEPT ![k][loc[k].copy.name] =
                          [Foreign(FALSE) EXCEPT !.gen = loc[k].copy.gen]]
    /\ Report(k, TRUE)
    /\ UNCHANGED <<res, seen, creds, left, renamed, settled>>

\* Create when nothing was found, update when what was found differs, and write
\* nothing otherwise, whatever has happened to the object since.  A kind with
\* parts reads and writes more: it may still meet a change, and a failure of one
\* of its calls leaves an incomplete object.
Synchronise(k, parts) ==
    LET name == loc[k].copy.name
        incomplete == Foreign(loc[k].live.builtIn)
        complete == [incomplete EXCEPT !.gen = loc[k].copy.gen]
        upToDate == loc[k].live = complete
        calls == parts \/ ~upToDate
        possible == RealmUp(k) /\ remote[k][name].there = loc[k].live.there
    IN /\ pc[k] = "write"
       /\ \/ /\ upToDate
             /\ calls => possible
             /\ Report(k, TRUE)
             /\ UNCHANGED remote
          \/ /\ calls /\ possible
             /\ remote' = [remote EXCEPT ![k][name] = complete]
             /\ Report(k, TRUE)
          \/ /\ calls
             /\ ~possible \/ ~settled
             /\ Report(k, FALSE)
             /\ UNCHANGED remote
          \/ /\ calls /\ possible /\ ~settled
             /\ Report(k, FALSE)
             /\ \E o \in (IF parts THEN {complete, incomplete} ELSE {complete}) :
                  remote' = [remote EXCEPT ![k][name] = o]
       /\ UNCHANGED <<res, seen, creds, left, renamed, settled>>

\* ReconcileRealm is a single call; ReconcileClient, ReconcileUser and
\* ReconcileFlow have parts.
ReconcileRealm == "realm" \in Kinds /\ Synchronise("realm", FALSE)

ReconcileInRealm(k) == k # "realm" /\ Synchronise(k, TRUE)

\* Mutant of setStatus that is one generation ahead.
setStatusAhead(k) ==
    /\ pc[k] = "setStatus"
    /\ res[k].phase # "absent"
    /\ res' = [res EXCEPT ![k].ready = loc[k].ready, ![k].observed = loc[k].copy.gen + 1]
    /\ Finish(k)
    /\ UNCHANGED <<seen, creds, remote, left, renamed, settled>>

\* setStatus through writeStatus: the resource that has the name by now gets
\* the status of the pass.  The write starts from the informer's copy, gives up
\* when that stays behind for all retries, and a failure is only logged.
setStatus(k) ==
    /\ pc[k] = "setStatus"
    /\ \/ /\ res[k].phase # "absent"
          /\ res' = [res EXCEPT ![k].ready = loc[k].ready, ![k].observed = loc[k].copy.gen]
       \/ /\ res[k].phase = "absent" \/ seen[k] # res[k] \/ ~settled
          /\ UNCHANGED res
    /\ Finish(k)
    /\ UNCHANGED <<seen, creds, remote, left, renamed, settled>>

-----------------------------------------------------------------------------
(***************************************************************************)
(* The removal of the object with a given name: what is left of the remote *)
(* objects, and whether the call reports success.  A lookup in a realm     *)
(* that is not there is an error, except that of the realm itself.         *)
(***************************************************************************)

\* What is in Keycloak when the realm is gone.
Nothing == [k \in Kinds |-> [n \in Names |-> Gone]]

\* The master realm is left alone without an error.
DeleteRealm(n) ==
    IF remote["realm"][n].builtIn THEN [remote |-> remote, ok |-> TRUE, abandon |-> TRUE]
    ELSE [remote |-> Nothing, ok |-> TRUE, abandon |-> FALSE]

DeleteInRealm(k, n) ==
    IF RealmUp(k) THEN [remote |-> [remote EXCEPT ![k][n] = Gone], ok |-> TRUE, abandon |-> FALSE]
    ELSE [remote |-> remote, ok |-> FALSE, abandon |-> FALSE]

DeleteClient(n) == DeleteInRealm("client", n)

DeleteUser(n) == DeleteInRealm("user", n)

\* Mutant of DeleteFlow whose refusal is an error like any other.
DeleteFlowRetried(n) ==
    IF RealmUp("flow") /\ remote["flow"][n].builtIn
    THEN [remote |-> remote, ok |-> FALSE, abandon |-> FALSE]
    ELSE DeleteInRealm("flow", n)

\* A built-in flow is a PermanentDeleteError, on which the caller lets go.
DeleteFlow(n) ==
    IF RealmUp("flow") /\ remote["flow"][n].builtIn
    THEN [remote |-> remote, ok |-> TRUE, abandon |-> TRUE]
    ELSE DeleteInRealm("flow", n)

DeleteObject(k, n) ==
    CASE k = "realm" -> DeleteRealm(n)
      [] k = "client" -> DeleteClient(n)
      [] k = "user" -> DeleteUser(n)
      [] k = "flow" -> DeleteFlow(n)

\* An object that is gone is no longer left.
StillThere == [k \in Kinds |-> {n \in left[k] : remote'[k][n].there}]

\* Mutant of reconcileDelete that lets go whether or not the removal worked.
reconcileDeleteForgets(k) ==
    /\ pc[k] = "delete"
    /\ remote' = IF settled THEN DeleteObject(k, loc[k].copy.name).remote ELSE remote
    /\ Goto(k, "release")
    /\ left' = StillThere
    /\ UNCHANGED <<res, seen, creds, renamed, loc, settled>>

\* reconcileDelete up to the finalizer: an error keeps it for the next pass.
reconcileDelete(k) ==
    /\ pc[k] = "delete"
    /\ LET d == DeleteObject(k, loc[k].copy.name)
       IN \/ /\ d.ok
             /\ remote' = d.remote
             /\ Goto(k, "release")
             /\ loc' = [loc EXCEPT ![k].abandon = d.abandon]
          \/ /\ ~d.ok \/ ~settled
             /\ remote' = remote
             /\ Finish(k)
          \/ /\ d.ok /\ ~settled
             /\ remote' = d.remote
             /\ Finish(k)
    /\ left' = StillThere
    /\ UNCHANGED <<res, seen, creds, renamed, settled>>

\* removeFinalizer: the resource disappears with its last finalizer.
removeFinalizer(k) ==
    /\ pc[k] = "release"
    /\ \/ /\ res[k] = loc[k].copy
          /\ res' = [res EXCEPT ![k] = Absent(res[k].uid)]
          /\ left' = IF loc[k].abandon /\ remote[k][res[k].name].there
                     THEN [left EXCEPT ![k] = left[k] \cup {res[k].name}] ELSE left
       \/ /\ res[k] # loc[k].copy \/ ~settled
          /\ UNCHANGED <<res, left>>
    /\ Finish(k)
    /\ UNCHANGED <<seen, creds, remote, renamed, settled>>

Worker(k) ==
    \/ Reconcile(k) \/ AddFinalizer(k) \/ GetObject(k)
    \/ k = "realm" /\ ReconcileRealm
    \/ ReconcileInRealm(k)
    \/ setStatus(k) \/ reconcileDelete(k) \/ removeFinalizer(k)

-----------------------------------------------------------------------------
(***************************************************************************)
(* The environment.                                                        *)
(***************************************************************************)

\* The informer catches up.
SyncCache(k) ==
    /\ seen[k] # res[k]
    /\ seen' = [seen EXCEPT ![k] = res[k]]
    /\ UNCHANGED <<res, creds, remote, left, renamed, pc, loc, settled>>

\* An administrator, or the Keycloak component when there is none
\* (EnsureNetEyeClient and its siblings), declares the resource, perhaps again.
Create(k) ==
    /\ ~settled
    /\ res[k].phase = "absent" /\ res[k].uid < MaxUid
    /\ \E p \in Policies, n \in NamesOf(k) :
         res' = [res EXCEPT ![k] = [Absent(res[k].uid + 1) EXCEPT
                    !.phase = "live", !.name = n, !.gen = 1, !.policy = p]]
    /\ UNCHANGED <<seen, creds, remote, left, renamed, pc, loc, settled>>

\* An edit may give the object another name.  A resource that holds the old one
\* holds the new one from now on, and nobody comes back for the old one.
Edit(k) ==
    /\ ~settled
    /\ "edit" \in Disturbances
    /\ res[k].phase # "absent" /\ res[k].gen < MaxGeneration
    /\ \E p \in Policies, n \in NamesOf(k) :
         /\ n # res[k].name => "rename" \in Disturbances
         /\ res' = [res EXCEPT ![k].gen = res[k].gen + 1, ![k].policy = p, ![k].name = n]
         /\ IF n # res[k].name /\ res[k].finalizer
            THEN /\ renamed' = [renamed EXCEPT ![k] = (renamed[k] \cup {res[k].name}) \ {n}]
                 /\ left' = [left EXCEPT ![k] = left[k] \ {n}]
            ELSE UNCHANGED <<left, renamed>>
    /\ UNCHANGED <<seen, creds, remote, pc, loc, settled>>

Delete(k) ==
    /\ ~settled
    /\ "delete" \in Disturbances
    /\ res[k].phase = "live"
    /\ res' = IF res[k].finalizer THEN [res EXCEPT ![k].phase = "deleting"]
              ELSE [res EXCEPT ![k] = Absent(res[k].uid)]
    /\ UNCHANGED <<seen, creds, remote, left, renamed, pc, loc, settled>>

\* Somebody reconfigures or removes the object in the Keycloak console.
Drift(k) ==
    /\ ~settled
    /\ "drift" \in Disturbances
    /\ \E n \in Names :
         /\ remote[k][n].there
         /\ \/ remote' = [remote EXCEPT ![k][n].gen = 0]
            \/ /\ ~remote[k][n].builtIn
               /\ remote' = IF k = "realm" THEN Nothing ELSE [remote EXCEPT ![k][n] = Gone]
    /\ left' = StillThere
    /\ UNCHANGED <<res, seen, creds, renamed, pc, loc, settled>>

\* The Secret with the admin credentials comes and goes.
ChangeCredentials ==
    /\ ~settled
    /\ "credentials" \in Disturbances
    /\ creds' = ~creds
    /\ UNCHANGED <<res, seen, remote, left, renamed, pc, loc, settled>>

Crash ==
    /\ ~settled
    /\ pc' = [k \in Kinds |-> "idle"]
    /\ loc' = [k \in Kinds |-> NoLocals]
    /\ seen' = res
    /\ UNCHANGED <<res, creds, remote, left, renamed, settled>>

\* From here on the environment is quiet.
Settle ==
    /\ ~settled
    /\ settled' = TRUE
    /\ UNCHANGED <<res, seen, creds, remote, left, renamed, pc, loc>>

Disturb(k) == SyncCache(k) \/ Create(k) \/ Edit(k) \/ Delete(k) \/ Drift(k)

Next ==
    \/ \E k \in Kinds : Worker(k) \/ Disturb(k)
    \/ ChangeCredentials \/ Crash \/ Settle

(***************************************************************************)
(* Every pass that finds a resource requeues itself, informers deliver     *)
(* every change, and a fault-free period is eventually long enough.        *)
(***************************************************************************)
Fairness ==
    /\ \A k \in Kinds : WF_vars(Worker(k)) /\ WF_vars(SyncCache(k))
    /\ WF_vars(Settle)

Spec == Init /\ [][Next]_vars

FairSpec == Spec /\ Fairness

-----------------------------------------------------------------------------
(***************************************************************************)
(* Correctness.                                                            *)
(***************************************************************************)

\* Every variable has its type.
TypeOK ==
    /\ res \in [Kinds -> Resources]
    /\ seen \in [Kinds -> Resources]
    /\ creds \in BOOLEAN
    /\ remote \in [Kinds -> [Names -> Objects]]
    /\ left \in [Kinds -> SUBSET Names]
    /\ renamed \in [Kinds -> SUBSET Names]
    /\ pc \in [Kinds -> Steps]
    /\ loc \in [Kinds -> Locals]
    /\ settled \in BOOLEAN

\* Only a rename leaves anything behind in Keycloak by accident: an object is named
\* by a resource that cannot vanish, or the operator found it there or let it go
\* knowingly, or its resource was renamed (AddFinalizer before ReconcileClient and
\* its siblings, reconcileDelete before removeFinalizer).
NothingLeaked ==
    \A k \in Kinds, n \in Names :
        remote[k][n].there =>
            \/ res[k].finalizer /\ res[k].name = n
            \/ n \in left[k] \cup renamed[k]

\* A pass writes to Keycloak, and reports Ready, for the very resource it read:
\* that one is still there, whatever the administrator did meanwhile
\* (AddFinalizer, writeStatus).
HoldsResource ==
    \A k \in Kinds :
        pc[k] \in {"read", "write"} \/ (pc[k] = "setStatus" /\ loc[k].ready)
            => res[k].finalizer /\ res[k].uid = loc[k].copy.uid

\* In the end the object of every live resource is as its spec says and the
\* status says so too, as long as there are credentials and a realm
\* (ReconcileClient and its siblings, the requeues).
Converges ==
    <>[](\A k \in Kinds :
           res[k].phase = "live" /\ creds /\ RealmUp(k) =>
               /\ remote[k][res[k].name].there
               /\ remote[k][res[k].name].gen = res[k].gen
               /\ res[k].ready /\ res[k].observed = res[k].gen)

\* A resource being deleted is released in the end, unless its realm is gone
\* (reconcileDelete, removeFinalizer).
DeletionCompletes ==
    \A k \in Kinds :
        res[k].phase = "deleting" ~> (res[k].phase # "deleting" \/ ~RealmUp(k))

\* What the kinds look like from outside.
Keeping ==
    INSTANCE Custody WITH
        Things  <- Kinds \X Names,
        held    <- {t \in Kinds \X Names : res[t[1]].finalizer /\ res[t[1]].name = t[2]},
        present <- {t \in Kinds \X Names : remote[t[1]][t[2]].there},
        free    <- {t \in Kinds \X Names : t[2] \in left[t[1]]},
        dropped <- {t \in Kinds \X Names : t[2] \in renamed[t[1]]}

\* The passes of all kinds, however they interleave, crash and read old copies,
\* keep the order that Custody asks for: a finalizer before an object, and no
\* object without one unless it was there before, was let go knowingly or has
\* been dropped for another one by a rename (AddFinalizer, ReconcileClient and its
\* siblings, removeFinalizer).
KeepsCustody == Keeping!Spec

\* DeletionCompletes without exception (DeleteClient: "a no-op when the client is already
\* gone, so it is safe to call from a finalizer").
SafeFromFinalizer ==
    \A k \in Kinds : res[k].phase = "deleting" ~> res[k].phase # "deleting"
=============================================================================
