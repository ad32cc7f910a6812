---------------------- MODULE KeycloakResourcesProofs ----------------------
(***************************************************************************)
(* A resource controller leaks no object unless its resource is renamed,   *)
(* and never works for a resource that has gone: for every set of kinds    *)
(* and names and any number of edits and re-creations.                     *)
(*                                                                         *)
(* Both rest on how far the informer copy a pass starts from may be behind *)
(* (SeenBehind): it may still show a resource that has been released, but  *)
(* not as a live one with a finalizer, because the pass that releases a    *)
(* resource has seen it marked for deletion (Releasing).  A pass may also  *)
(* be behind a rename, but only to a name its resource has had (Known).    *)
(***************************************************************************)
EXTENDS KeycloakResources, TLAPS

\* A live resource whose finalizer is on.
Held(r) == r.phase = "live" /\ r.finalizer

\* A name the resource has, or had until it was renamed.
Known(k, n) == n = res[k].name \/ n \in renamed[k]

\* How the informer copy relates to the resource.
SeenBehind(k) ==
    /\ res[k].phase = "absent" => ~res[k].finalizer
    /\ seen[k].uid <= res[k].uid
    /\ seen[k].uid = res[k].uid /\ seen[k].phase = "deleting" => res[k].phase # "live"
    /\ Held(seen[k]) =>
         res[k].finalizer /\ res[k].uid = seen[k].uid /\ Known(k, seen[k].name)
    /\ seen[k].phase = "deleting" => ~Held(res[k])

\* A pass that will put the finalizer on has not been overtaken unnoticed.
Finalizing(k) ==
    pc[k] = "finalize" =>
        /\ loc[k].copy.phase = "live" /\ ~loc[k].copy.finalizer
        /\ loc[k].copy.uid <= seen[k].uid

\* While a pass removes something, nobody can take its resource for a held one.
Releasing(k) == pc[k] \in {"delete", "release"} => ~Held(seen[k]) /\ ~Held(res[k])

\* A resource marked for deletion has its finalizer, and so has every copy of it.
Marked(k) ==
    /\ res[k].phase = "deleting" => res[k].finalizer
    /\ seen[k].phase = "deleting" => seen[k].finalizer
    /\ pc[k] \in {"delete", "release"} => loc[k].copy.finalizer

\* HoldsResource, for one kind, and the name the pass works with.
Working(k) ==
    /\ pc[k] \in {"read", "write"} \/ (pc[k] = "setStatus" /\ loc[k].ready)
         => res[k].finalizer /\ res[k].uid = loc[k].copy.uid
    /\ pc[k] \in {"read", "write"} => Known(k, loc[k].copy.name)

\* NothingLeaked, for one kind.
Answered(k) ==
    \A n \in Names :
        remote[k][n].there =>
            (res[k].finalizer /\ res[k].name = n) \/ n \in left[k] \/ n \in renamed[k]

\* The finalizer goes only after the object has, or knowingly.
Removed(k) ==
    pc[k] = "release" /\ ~loc[k].abandon => ~remote[k][loc[k].copy.name].there

KindInv(k) ==
    /\ SeenBehind(k)
    /\ Finalizing(k)
    /\ Releasing(k)
    /\ Marked(k)
    /\ Working(k)
    /\ Answered(k)
    /\ Removed(k)

ResourcesInv == TypeOK /\ \A k \in Kinds : KindInv(k)

-----------------------------------------------------------------------------
(***************************************************************************)
(* Types.                                                                  *)
(***************************************************************************)

\* The initial values have their types.
LEMMA Values ==
    /\ NoLocals \in Locals
    /\ Gone \in Objects
    /\ \A b \in BOOLEAN : Foreign(b) \in Objects
    /\ \A n \in 0..MaxUid : Absent(n) \in Resources
  BY KeycloakResourcesAssumption DEF NoLocals, Locals, Absent, Resources, Gone, Foreign, Objects

\* So have the initial states.
LEMMA TypeInit == Init => TypeOK
  <1> SUFFICES ASSUME Init PROVE TypeOK
    OBVIOUS
  <1>1. 0 \in 0..MaxUid /\ 0 \in 0..MaxGeneration
    BY KeycloakResourcesAssumption
  <1>2. res \in [Kinds -> Resources] /\ seen \in [Kinds -> Resources]
    BY <1>1, Values DEF Init
  <1>3. Foreign(FALSE) \in Objects /\ Foreign(TRUE) \in Objects /\ Gone \in Objects
    BY Values
  <1>4. remote \in [Kinds -> [Names -> Objects]]
    <2>1. {Gone, Foreign(FALSE), Foreign(TRUE)} \subseteq Objects
      BY <1>3
    <2>2. remote \in [Kinds -> [Names -> {Gone, Foreign(FALSE), Foreign(TRUE)}]]
      BY DEF Init
    <2> QED
      BY <2>1, <2>2
  <1>6. left \in [Kinds -> SUBSET Names] /\ renamed \in [Kinds -> SUBSET Names]
    BY DEF Init
  <1>5. pc \in [Kinds -> Steps] /\ loc \in [Kinds -> Locals]
    BY Values DEF Init, Steps
  <1> QED
    BY <1>2, <1>4, <1>5, <1>6 DEF Init, TypeOK

\* What the removal of an object can do, whichever kind it is: objects only
\* disappear, and one that was removed is gone (DeleteRealm, DeleteClient,
\* DeleteUser, DeleteFlow).
LEMMA Removal ==
    ASSUME TypeOK, NEW k \in Kinds, NEW n \in Names
    PROVE  /\ DeleteObject(k, n).remote \in [Kinds -> [Names -> Objects]]
           /\ DeleteObject(k, n).ok \in BOOLEAN
           /\ DeleteObject(k, n).abandon \in BOOLEAN
           /\ \A j \in Kinds, m \in Names :
                DeleteObject(k, n).remote[j][m] \in {remote[j][m], Gone}
           /\ DeleteObject(k, n).ok /\ ~DeleteObject(k, n).abandon =>
                ~DeleteObject(k, n).remote[k][n].there
  <1> USE Values DEF TypeOK, Gone, Nothing
  <1>1. CASE k = "realm"
    BY <1>1 DEF DeleteObject, DeleteRealm
  <1>2. CASE k = "client"
    BY <1>2 DEF DeleteObject, DeleteClient, DeleteInRealm
  <1>3. CASE k = "user"
    BY <1>3 DEF DeleteObject, DeleteUser, DeleteInRealm
  <1>4. CASE k = "flow"
    BY <1>4 DEF DeleteObject, DeleteFlow, DeleteInRealm
  <1> QED
    BY <1>1, <1>2, <1>3, <1>4, KeycloakResourcesAssumption

\* A pass starts from the informer copy and goes to one of these steps.
LEMMA Start ==
    ASSUME TypeOK, NEW k \in Kinds, Reconcile(k)
    PROVE  /\ UNCHANGED <<res, seen, creds, remote, left, renamed, settled>>
           /\ \/ /\ pc' = [pc EXCEPT ![k] = "idle"]
                 /\ loc' = [loc EXCEPT ![k] = NoLocals]
              \/ \E step \in Steps \ {"idle", "write"} :
                   /\ pc' = [pc EXCEPT ![k] = step]
                   /\ loc' = [loc EXCEPT ![k] =
                        [NoLocals EXCEPT !.copy = seen[k], !.abandon = (step = "release")]]
                   /\ step = "finalize" => seen[k].phase = "live" /\ ~seen[k].finalizer
                   /\ step = "read" => Held(seen[k])
                   /\ step \in {"delete", "release"} => seen[k].phase = "deleting"
  <1>1. seen[k].phase \in {"live", "deleting"} /\ seen[k].finalizer \in BOOLEAN
    BY DEF TypeOK, Resources, Reconcile
  <1>2. PICK api \in adminAPI :
          LET step == IF k = "flow" THEN FlowAfterStart(seen[k], api)
                                    ELSE AfterStart(seen[k], api)
          IN IF step = "idle" THEN Finish(k)
             ELSE /\ Goto(k, step)
                  /\ loc' = [loc EXCEPT ![k] =
                        [NoLocals EXCEPT !.copy = seen[k], !.abandon = (step = "release")]]
    BY DEF Reconcile
  <1> DEFINE step == IF k = "flow" THEN FlowAfterStart(seen[k], api)
                                   ELSE AfterStart(seen[k], api)
  <1>3. api \in {"ok", "missing", "other"}
    BY DEF adminAPI
  <1>4. /\ step \in Steps \ {"write"}
        /\ step = "finalize" => seen[k].phase = "live" /\ ~seen[k].finalizer
        /\ step = "read" => Held(seen[k])
        /\ step \in {"delete", "release"} => seen[k].phase = "deleting"
    BY <1>1, <1>3 DEF FlowAfterStart, AfterStart, DeletionStep, Steps, Held
  <1>5. UNCHANGED <<res, seen, creds, remote, left, renamed, settled>>
    BY DEF Reconcile
  <1> QED
    BY <1>2, <1>4, <1>5 DEF Finish, Goto

\* A synchronisation writes the object, or nothing, and reports how it went
\* (ReconcileRealm, ReconcileClient, ReconcileUser, ReconcileFlow).
LEMMA Written ==
    ASSUME TypeOK, NEW k \in Kinds, NEW parts \in BOOLEAN, Synchronise(k, parts)
    PROVE  /\ pc[k] = "write"
           /\ \E b \in BOOLEAN : Report(k, b)
           /\ \/ UNCHANGED remote
              \/ \E o \in Objects :
                   o.there /\ remote' = [remote EXCEPT ![k][loc[k].copy.name] = o]
           /\ UNCHANGED <<res, seen, creds, left, renamed, settled>>
  <1>1. loc[k].copy.gen \in 0..MaxGeneration
    BY DEF TypeOK, Locals, Resources
  <1>2. loc[k].live.builtIn \in BOOLEAN
    BY DEF TypeOK, Locals, Objects
  <1>3. \A b \in BOOLEAN, n \in 0..MaxGeneration :
          /\ [Foreign(b) EXCEPT !.gen = n] \in Objects
          /\ [Foreign(b) EXCEPT !.gen = n].there
          /\ Foreign(b) \in Objects /\ Foreign(b).there
    <2>1. \A b \in BOOLEAN : Foreign(b) \in Objects /\ Foreign(b).there
      BY Values DEF Foreign
    <2> QED
      BY <2>1 DEF Objects
  <1> DEFINE incomplete == Foreign(loc[k].live.builtIn)
             complete == [incomplete EXCEPT !.gen = loc[k].copy.gen]
  <1>4. /\ complete \in Objects /\ complete.there
        /\ incomplete \in Objects /\ incomplete.there
    BY <1>1, <1>2, <1>3
  <1>5. /\ pc[k] = "write"
        /\ \E b \in BOOLEAN : Report(k, b)
        /\ \/ UNCHANGED remote
           \/ remote' = [remote EXCEPT ![k][loc[k].copy.name] = complete]
           \/ remote' = [remote EXCEPT ![k][loc[k].copy.name] = incomplete]
        /\ UNCHANGED <<res, seen, creds, left, renamed, settled>>
    <2> HIDE DEF complete, incomplete
    <2> QED
      BY DEF Synchronise, complete, incomplete
  <1> HIDE DEF complete, incomplete
  <1> QED
    BY <1>4, <1>5

\* The steps of a pass are well typed.
LEMMA TypeWorker == ASSUME TypeOK, NEW k \in Kinds, Worker(k) PROVE TypeOK'
  <1> USE DEF TypeOK
  <1>0. /\ res[k] \in Resources /\ seen[k] \in Resources /\ loc[k] \in Locals
        /\ remote[k] \in [Names -> Objects]
    OBVIOUS
  <1>n. res[k].name \in Names /\ loc[k].copy.name \in Names
    BY <1>0 DEF Locals, Resources
  <1>1. CASE Reconcile(k)
    <2>1. \A b \in BOOLEAN :
            [NoLocals EXCEPT !.copy = seen[k], !.abandon = b] \in Locals
      BY <1>0, Values DEF Locals
    <2>2. CASE /\ pc' = [pc EXCEPT ![k] = "idle"]
               /\ loc' = [loc EXCEPT ![k] = NoLocals]
      BY <1>1, <2>2, Start, Values DEF Steps
    <2>3. ASSUME NEW step \in Steps,
                 pc' = [pc EXCEPT ![k] = step],
                 loc' = [loc EXCEPT ![k] =
                   [NoLocals EXCEPT !.copy = seen[k], !.abandon = (step = "release")]]
          PROVE  TypeOK'
      BY <1>1, <2>1, <2>3, Start
    <2> QED
      BY <1>1, <2>2, <2>3, Start
  <1>2. CASE AddFinalizer(k)
    <2>1. [res[k] EXCEPT !.finalizer = TRUE] \in Resources
      BY <1>0 DEF Resources
    <2>2. CASE Finish(k) /\ UNCHANGED <<res, seen, creds, remote, left, renamed, settled>>
      BY <2>2, Values DEF Finish, Steps
    <2>3. CASE /\ res' = [res EXCEPT ![k].finalizer = TRUE]
               /\ loc' = [loc EXCEPT ![k].copy = res'[k]]
               /\ Goto(k, "read")
      <3>1. res' \in [Kinds -> Resources]
        BY <2>1, <2>3
      <3>2. [loc[k] EXCEPT !.copy = res'[k]] \in Locals
        BY <1>0, <3>1 DEF Locals
      <3>3. /\ left' \in {left, [left EXCEPT ![k] = left[k] \ {res[k].name}]}
            /\ renamed' \in {renamed, [renamed EXCEPT ![k] = renamed[k] \ {res[k].name}]}
        BY <1>2 DEF AddFinalizer
      <3>4. left[k] \ {res[k].name} \in SUBSET Names /\ renamed[k] \ {res[k].name} \in SUBSET Names
        OBVIOUS
      <3>5. left' \in [Kinds -> SUBSET Names] /\ renamed' \in [Kinds -> SUBSET Names]
        BY <3>3, <3>4
      <3> QED
        BY <1>2, <2>3, <3>1, <3>2, <3>5 DEF AddFinalizer, Goto, Steps
    <2> QED
      BY <1>2, <2>2, <2>3 DEF AddFinalizer
  <1>3. CASE GetObject(k)
    <2>1. /\ [loc[k] EXCEPT !.live = remote[k][loc[k].copy.name]] \in Locals
          /\ [loc[k] EXCEPT !.ready = FALSE] \in Locals
      BY <1>0, <1>n DEF Locals
    <2>2. CASE /\ loc' = [loc EXCEPT ![k].live = remote[k][loc[k].copy.name]]
               /\ Goto(k, "write")
      BY <1>3, <2>1, <2>2 DEF GetObject, Goto, Steps
    <2>3. CASE Report(k, FALSE)
      BY <1>3, <2>1, <2>3 DEF GetObject, Report, Steps
    <2> QED
      BY <1>3, <2>2, <2>3 DEF GetObject
  <1>4. ASSUME NEW parts \in BOOLEAN, Synchronise(k, parts) PROVE TypeOK'
    <2>1. \A b \in BOOLEAN : [loc[k] EXCEPT !.ready = b] \in Locals
      BY <1>0 DEF Locals
    <2>2. PICK b \in BOOLEAN : Report(k, b)
      BY <1>4, Written
    <2>3. pc' \in [Kinds -> Steps] /\ loc' \in [Kinds -> Locals]
      BY <2>1, <2>2 DEF Report, Steps
    <2>4. ASSUME NEW o \in Objects, remote' = [remote EXCEPT ![k][loc[k].copy.name] = o]
          PROVE  remote' \in [Kinds -> [Names -> Objects]]
      BY <1>n, <2>4
    <2>5. remote' \in [Kinds -> [Names -> Objects]]
      BY <1>4, <2>4, Written
    <2>6. UNCHANGED <<res, seen, creds, left, renamed, settled>>
      BY <1>4, Written
    <2> QED
      BY <2>3, <2>5, <2>6
  <1>5. CASE setStatus(k)
    <2>1. [res[k] EXCEPT !.ready = loc[k].ready, !.observed = loc[k].copy.gen] \in Resources
      BY <1>0 DEF Resources, Locals
    <2> QED
      BY <1>5, <2>1, Values DEF setStatus, Finish, Steps
  <1>6. CASE reconcileDelete(k)
    <2>0. DeleteObject(k, loc[k].copy.name).remote \in [Kinds -> [Names -> Objects]]
      BY <1>n, Removal
    <2>1. /\ remote' \in [Kinds -> [Names -> Objects]]
          /\ pc' \in [Kinds -> Steps]
      BY <1>6, <2>0 DEF reconcileDelete, Finish, Goto, Steps
    <2>2. [loc[k] EXCEPT !.abandon = DeleteObject(k, loc[k].copy.name).abandon] \in Locals
      BY <1>0, <1>n, Removal DEF Locals
    <2>3. loc' \in [Kinds -> Locals]
      BY <1>6, <2>2, Values DEF reconcileDelete, Finish
    <2>4. left' \in [Kinds -> SUBSET Names]
      BY <1>6 DEF reconcileDelete, StillThere
    <2> QED
      BY <1>6, <2>1, <2>3, <2>4 DEF reconcileDelete
  <1>7. CASE removeFinalizer(k)
    <2>1. Absent(res[k].uid) \in Resources
      BY <1>0, Values DEF Resources
    <2>2. left' \in [Kinds -> SUBSET Names]
      BY <1>7, <1>n DEF removeFinalizer
    <2> QED
      BY <1>7, <2>1, <2>2, Values DEF removeFinalizer, Finish, Steps
  <1> QED
    BY <1>1, <1>2, <1>3, <1>4, <1>5, <1>6, <1>7
    DEF Worker, ReconcileRealm, ReconcileInRealm

\* So are those of the environment.
LEMMA TypeEnvironment ==
    ASSUME TypeOK,
           (\E k \in Kinds : Disturb(k)) \/ ChangeCredentials \/ Crash \/ Settle
    PROVE  TypeOK'
  <1> USE DEF TypeOK
  <1>1. ASSUME NEW k \in Kinds, Disturb(k) PROVE TypeOK'
    <2>0. res[k] \in Resources
      OBVIOUS
    <2>1. CASE SyncCache(k)
      BY <2>1 DEF SyncCache
    <2>2. CASE Create(k)
      <3>1. PICK p \in Policies, n \in Names : res' = [res EXCEPT ![k] =
              [Absent(res[k].uid + 1) EXCEPT
                 !.phase = "live", !.name = n, !.gen = 1, !.policy = p]]
        BY <2>2, KeycloakResourcesAssumption DEF Create, NamesOf
      <3>2. Absent(res[k].uid + 1) \in Resources
        <4>1. res[k].uid + 1 \in 0..MaxUid
          BY <2>0, <2>2, KeycloakResourcesAssumption DEF Create, Resources
        <4> QED
          BY <4>1, Values
      <3>3. 1 \in 0..MaxGeneration /\ p \in {"Delete", "Orphan"}
        BY KeycloakResourcesAssumption
      <3>4. [Absent(res[k].uid + 1) EXCEPT
               !.phase = "live", !.name = n, !.gen = 1, !.policy = p] \in Resources
        BY <3>2, <3>3 DEF Resources
      <3> QED
        BY <2>2, <3>1, <3>4 DEF Create
    <2>3. CASE Edit(k)
      <3>1. PICK p \in Policies, n \in Names :
              /\ res' = [res EXCEPT ![k].gen = res[k].gen + 1, ![k].policy = p, ![k].name = n]
              /\ \/ UNCHANGED <<left, renamed>>
                 \/ /\ renamed' =
                         [renamed EXCEPT ![k] = (renamed[k] \cup {res[k].name}) \ {n}]
                    /\ left' = [left EXCEPT ![k] = left[k] \ {n}]
        <4>1. NamesOf(k) \subseteq Names
          BY KeycloakResourcesAssumption DEF NamesOf
        <4> QED
          BY <2>3, <4>1, Zenon DEF Edit
      <3>2. res[k].gen \in 0..MaxGeneration /\ res[k].gen < MaxGeneration
        BY <2>0, <2>3 DEF Edit, Resources
      <3>3. res[k].gen + 1 \in 0..MaxGeneration /\ p \in {"Delete", "Orphan"}
        BY <3>2, KeycloakResourcesAssumption
      <3>4. [res[k] EXCEPT !.gen = res[k].gen + 1, !.policy = p, !.name = n] \in Resources
        BY <2>0, <3>3 DEF Resources
      <3>5. left' \in [Kinds -> SUBSET Names] /\ renamed' \in [Kinds -> SUBSET Names]
        <4>1. res[k].name \in Names
          BY <2>0 DEF Resources
        <4>2. CASE UNCHANGED <<left, renamed>>
          BY <4>2
        <4>3. CASE /\ renamed' =
                        [renamed EXCEPT ![k] = (renamed[k] \cup {res[k].name}) \ {n}]
                   /\ left' = [left EXCEPT ![k] = left[k] \ {n}]
          <5>1. left[k] \ {n} \in SUBSET Names
            OBVIOUS
          <5>2. (renamed[k] \cup {res[k].name}) \ {n} \in SUBSET Names
            BY <4>1
          <5> QED
            BY <4>3, <5>1, <5>2
        <4> QED
          BY <3>1, <4>2, <4>3
      <3>6. res' \in [Kinds -> Resources]
        BY <3>1, <3>4
      <3> QED
        BY <2>3, <3>5, <3>6 DEF Edit
    <2>4. CASE Delete(k)
      <3>1. /\ Absent(res[k].uid) \in Resources
            /\ [res[k] EXCEPT !.phase = "deleting"] \in Resources
        BY <2>0, Values DEF Resources
      <3> QED
        BY <2>4, <3>1 DEF Delete
    <2>5. CASE Drift(k)
      <3>1. \A n \in Names : [remote[k][n] EXCEPT !.gen = 0] \in Objects
        <4>1. 0 \in 0..MaxGeneration
          BY KeycloakResourcesAssumption
        <4>2. \A o \in Objects : [o EXCEPT !.gen = 0] \in Objects
          BY <4>1 DEF Objects
        <4> QED
          BY <4>2
      <3>2. remote' \in [Kinds -> [Names -> Objects]]
        <4>1. PICK n \in Names :
                \/ remote' = [remote EXCEPT ![k][n].gen = 0]
                \/ remote' = Nothing
                \/ remote' = [remote EXCEPT ![k][n] = Gone]
          BY <2>5 DEF Drift
        <4>2. [remote EXCEPT ![k][n].gen = 0] \in [Kinds -> [Names -> Objects]]
          BY <3>1
        <4>3. Nothing \in [Kinds -> [Names -> Objects]]
          BY Values DEF Nothing
        <4>4. [remote EXCEPT ![k][n] = Gone] \in [Kinds -> [Names -> Objects]]
          BY Values
        <4> QED
          BY <4>1, <4>2, <4>3, <4>4, Zenon
      <3>3. left' \in [Kinds -> SUBSET Names]
        BY <2>5 DEF Drift, StillThere
      <3> QED
        BY <2>5, <3>2, <3>3 DEF Drift
    <2> QED
      BY <1>1, <2>1, <2>2, <2>3, <2>4, <2>5 DEF Disturb
  <1>2. CASE ChangeCredentials
    BY <1>2 DEF ChangeCredentials
  <1>3. CASE Crash
    BY <1>3, Values DEF Crash, Steps
  <1>4. CASE Settle
    BY <1>4 DEF Settle
  <1> QED
    BY <1>1, <1>2, <1>3, <1>4

\* Every step of Next, or none.
LEMMA TypeStep == TypeOK /\ [Next]_vars => TypeOK'
  <1>1. TypeOK /\ UNCHANGED vars => TypeOK'
    BY DEF TypeOK, vars
  <1> QED
    BY <1>1, TypeWorker, TypeEnvironment DEF Next

\* Every variable of the resource controllers keeps its type (TypeOK).
THEOREM ResourcesTypeCorrect == Spec => []TypeOK
  BY TypeInit, TypeStep, PTL DEF Spec

-----------------------------------------------------------------------------
(***************************************************************************)
(* The invariant.                                                          *)
(***************************************************************************)

\* It holds initially: every object there is was found there.
LEMMA InvInit == Init => ResourcesInv
  <1> SUFFICES ASSUME Init PROVE ResourcesInv
    OBVIOUS
  <1>1. ASSUME NEW k \in Kinds PROVE KindInv(k)
    <2>1. /\ res[k] = Absent(0) /\ seen[k] = Absent(0)
          /\ pc[k] = "idle"
          /\ \A n \in Names : remote[k][n].there => n \in left[k]
      BY DEF Init
    <2> QED
      BY <2>1 DEF KindInv, SeenBehind, Finalizing, Releasing, Marked, Working, Answered,
                  Removed, Held, Absent
  <1> QED
    BY <1>1, TypeInit DEF ResourcesInv

\* What a step of somebody else leaves to a kind: at most its objects go.
Untouched(k) ==
    /\ UNCHANGED <<res[k], seen[k], renamed[k], pc[k], loc[k]>>
    /\ \A n \in Names :
         remote'[k][n].there => remote[k][n].there /\ (n \in left[k] => n \in left'[k])

\* Such a step keeps the invariant of the kind.
LEMMA Frame ==
    ASSUME TypeOK, NEW k \in Kinds, KindInv(k), Untouched(k)
    PROVE  KindInv(k)'
  <1>1. SeenBehind(k)' /\ Finalizing(k)' /\ Releasing(k)' /\ Marked(k)' /\ Working(k)'
    BY DEF KindInv, SeenBehind, Finalizing, Releasing, Marked, Working, Held, Known, Untouched
  <1>2. Answered(k)'
    BY DEF KindInv, Answered, Untouched
  <1>3. Removed(k)'
    <2>1. loc[k].copy.name \in Names
      BY DEF TypeOK, Locals, Resources
    <2> QED
      BY <2>1 DEF KindInv, Removed, Untouched
  <1> QED
    BY <1>1, <1>2, <1>3 DEF KindInv

\* A pass concerns its own kind; the removal of a realm takes others with it.
LEMMA OtherKinds ==
    ASSUME TypeOK, NEW k \in Kinds, Worker(k) \/ Disturb(k), NEW j \in Kinds \ {k}
    PROVE  Untouched(j)
  <1> USE DEF Untouched, TypeOK
  <1>1. CASE Reconcile(k)
    <2>1. UNCHANGED <<res, seen, remote, left, renamed>>
      BY <1>1 DEF Reconcile
    <2>2. UNCHANGED <<pc[j], loc[j]>>
      BY <1>1 DEF Reconcile, Finish, Goto
    <2> QED
      BY <2>1, <2>2
  <1>2. CASE AddFinalizer(k)
    BY <1>2 DEF AddFinalizer, Goto, Finish
  <1>3. CASE GetObject(k)
    BY <1>3 DEF GetObject, Report, Goto
  <1>4. ASSUME NEW parts \in BOOLEAN, Synchronise(k, parts) PROVE Untouched(j)
    <2>1. remote'[j] = remote[j]
      BY <1>4, Written
    <2> QED
      BY <1>4, <2>1, Written DEF Report
  <1>5. CASE setStatus(k)
    BY <1>5 DEF setStatus, Finish
  <1>6. CASE reconcileDelete(k)
    <2>0. loc[k].copy.name \in Names
      BY DEF Locals, Resources
    <2>1. \A n \in Names : remote'[j][n] \in {remote[j][n], Gone}
      BY <1>6, <2>0, Removal DEF reconcileDelete
    <2>2. left'[j] = {n \in left[j] : remote'[j][n].there}
      BY <1>6 DEF reconcileDelete, StillThere
    <2>3. UNCHANGED <<res[j], seen[j], renamed[j], pc[j], loc[j]>>
      BY <1>6 DEF reconcileDelete, Finish, Goto
    <2> QED
      BY <2>1, <2>2, <2>3 DEF Gone
  <1>7. CASE removeFinalizer(k)
    BY <1>7 DEF removeFinalizer, Finish
  <1>8. CASE SyncCache(k) \/ Create(k) \/ Edit(k) \/ Delete(k)
    BY <1>8 DEF SyncCache, Create, Edit, Delete
  <1>9. CASE Drift(k)
    <2>1. \A n \in Names : remote'[j][n] \in {remote[j][n], Gone}
      BY <1>9 DEF Drift, Nothing
    <2>2. left'[j] = {n \in left[j] : remote'[j][n].there}
      BY <1>9 DEF Drift, StillThere
    <2> QED
      BY <1>9, <2>1, <2>2 DEF Drift, Gone
  <1> QED
    BY <1>1, <1>2, <1>3, <1>4, <1>5, <1>6, <1>7, <1>8, <1>9
    DEF Worker, Disturb, ReconcileRealm, ReconcileInRealm

\* A pass keeps the invariant of its kind.
LEMMA OwnPass ==
    ASSUME TypeOK, NEW k \in Kinds, KindInv(k), Worker(k)
    PROVE  KindInv(k)'
  <1> USE DEF KindInv, TypeOK
  <1>0. res[k] \in Resources /\ seen[k] \in Resources /\ loc[k] \in Locals
    OBVIOUS
  <1>1. CASE Reconcile(k)
    <2>1. CASE /\ pc' = [pc EXCEPT ![k] = "idle"]
               /\ UNCHANGED <<res, seen, remote, left, renamed>>
      BY <2>1 DEF SeenBehind, Finalizing, Releasing, Marked, Working, Answered, Removed,
                  Held, Known
    <2>2. ASSUME NEW step \in Steps \ {"idle", "write"},
                 UNCHANGED <<res, seen, remote, left, renamed>>,
                 pc'[k] = step,
                 loc'[k] = [NoLocals EXCEPT !.copy = seen[k], !.abandon = (step = "release")],
                 step = "finalize" => seen[k].phase = "live" /\ ~seen[k].finalizer,
                 step = "read" => Held(seen[k]),
                 step \in {"delete", "release"} => seen[k].phase = "deleting"
          PROVE  KindInv(k)'
      <3>1. /\ loc'[k].copy = seen[k]
            /\ ~loc'[k].ready
            /\ step = "release" => loc'[k].abandon
        BY <2>2 DEF NoLocals
      <3>2. SeenBehind(k)' /\ Answered(k)'
        BY <2>2 DEF SeenBehind, Answered, Held, Known
      <3>3. Finalizing(k)'
        BY <1>0, <2>2, <3>1 DEF Finalizing, Resources
      <3>4. Releasing(k)' /\ Marked(k)'
        BY <2>2, <3>1 DEF Releasing, Marked, SeenBehind, Held
      <3>5. Working(k)' /\ Removed(k)'
        BY <2>2, <3>1 DEF Working, Removed, SeenBehind, Known
      <3> QED
        BY <3>2, <3>3, <3>4, <3>5
    <2> QED
      BY <1>1, <2>1, <2>2, Start
  <1>2. CASE AddFinalizer(k)
    <2>1. CASE Finish(k) /\ UNCHANGED <<res, left, renamed>>
      BY <1>2, <2>1 DEF AddFinalizer, Finish, SeenBehind, Finalizing, Releasing, Marked,
                        Working, Answered, Removed, Held, Known
    <2>2. CASE /\ res[k] = loc[k].copy
               /\ res' = [res EXCEPT ![k].finalizer = TRUE]
               /\ loc' = [loc EXCEPT ![k].copy = res'[k]]
               /\ left' = [left EXCEPT ![k] = left[k] \ {res[k].name}]
               /\ renamed' = [renamed EXCEPT ![k] = renamed[k] \ {res[k].name}]
               /\ Goto(k, "read")
      <3>1. /\ res'[k].finalizer /\ res'[k].name = res[k].name
            /\ res'[k].phase = res[k].phase /\ res'[k].uid = res[k].uid
            /\ loc'[k].copy = res'[k]
            /\ pc'[k] = "read"
            /\ left'[k] = left[k] \ {res[k].name}
            /\ renamed'[k] = renamed[k] \ {res[k].name}
            /\ UNCHANGED <<seen, remote>>
        BY <1>0, <1>2, <2>2 DEF AddFinalizer, Goto, Resources, Locals
      <3>2. res[k].phase = "live" /\ seen[k].uid = res[k].uid
        <4>1. res[k].uid \in Nat /\ seen[k].uid \in Nat
          BY <1>0, KeycloakResourcesAssumption DEF Resources
        <4>2. /\ res[k].phase = "live" /\ res[k].uid <= seen[k].uid
              /\ seen[k].uid <= res[k].uid
          BY <1>2, <2>2 DEF AddFinalizer, Finalizing, SeenBehind
        <4>3. \A m, n \in Nat : m <= n /\ n <= m => n = m
          OBVIOUS
        <4> QED
          BY <4>1, <4>2, <4>3, Zenon
      <3>3. ~res[k].finalizer
        BY <1>2, <2>2 DEF AddFinalizer, Finalizing
      <3>4. SeenBehind(k)'
        BY <3>1, <3>2, <3>3 DEF SeenBehind, Held
      <3>5. Answered(k)'
        BY <3>1, <3>3 DEF Answered
      <3> QED
        BY <3>1, <3>4, <3>5 DEF Finalizing, Releasing, Marked, Working, Removed, Known
    <2> QED
      BY <1>2, <2>1, <2>2 DEF AddFinalizer
  <1>3. CASE GetObject(k)
    <2>1. /\ UNCHANGED <<res, seen, remote, left, renamed>>
          /\ loc'[k].copy = loc[k].copy
          /\ pc[k] = "read"
          /\ pc'[k] = "write" \/ (pc'[k] = "setStatus" /\ ~loc'[k].ready)
      BY <1>0, <1>3 DEF GetObject, Report, Goto, Locals
    <2> QED
      BY <2>1 DEF SeenBehind, Finalizing, Releasing, Marked, Working, Answered, Removed,
                  Held, Known
  <1>4. ASSUME NEW parts \in BOOLEAN, Synchronise(k, parts) PROVE KindInv(k)'
    <2>1. /\ UNCHANGED <<res, seen, left, renamed>>
          /\ loc'[k].copy = loc[k].copy
          /\ pc[k] = "write" /\ pc'[k] = "setStatus"
      BY <1>0, <1>4, Written DEF Report, Locals
    <2>2. res[k].finalizer /\ Known(k, loc[k].copy.name)
      BY <2>1 DEF Working
    <2>3. \A n \in Names : n # loc[k].copy.name => remote'[k][n] = remote[k][n]
      BY <1>4, Written
    <2>4. Answered(k)'
      BY <2>1, <2>2, <2>3 DEF Answered, Known
    <2> QED
      BY <2>1, <2>2, <2>4 DEF SeenBehind, Finalizing, Releasing, Marked, Working, Removed,
                              Held, Known
  <1>5. CASE setStatus(k)
    <2>1. /\ res'[k].phase = res[k].phase /\ res'[k].uid = res[k].uid
          /\ res'[k].finalizer = res[k].finalizer /\ res'[k].name = res[k].name
          /\ pc'[k] = "idle"
          /\ UNCHANGED <<seen, remote, left, renamed>>
      BY <1>0, <1>5 DEF setStatus, Finish, Resources
    <2> QED
      BY <2>1 DEF SeenBehind, Finalizing, Releasing, Marked, Working, Answered, Removed,
                  Held, Known
  <1>6. CASE reconcileDelete(k)
    <2>0. loc[k].copy.name \in Names
      BY <1>0 DEF Locals, Resources
    <2>1. /\ UNCHANGED <<res, seen, renamed>>
          /\ pc[k] = "delete"
          /\ pc'[k] \in {"idle", "release"}
          /\ pc'[k] = "release" => loc'[k].copy = loc[k].copy
      BY <1>0, <1>6 DEF reconcileDelete, Finish, Goto, Locals
    <2>2. /\ \A n \in Names : remote'[k][n] \in {remote[k][n], Gone}
          /\ left'[k] = {n \in left[k] : remote'[k][n].there}
      BY <1>6, <2>0, Removal DEF reconcileDelete, StillThere
    <2>3. pc'[k] = "release" /\ ~loc'[k].abandon => ~remote'[k][loc[k].copy.name].there
      BY <1>0, <1>6, <2>0, Removal DEF reconcileDelete, Finish, Goto, Locals
    <2>4. Answered(k)'
      BY <2>1, <2>2 DEF Answered, Gone
    <2> QED
      BY <2>1, <2>3, <2>4 DEF SeenBehind, Finalizing, Releasing, Marked, Working, Removed,
                              Held, Known
  <1>7. CASE removeFinalizer(k)
    <2>1. CASE UNCHANGED <<res, left>>
      BY <1>7, <2>1 DEF removeFinalizer, Finish, SeenBehind, Finalizing, Releasing, Marked,
                        Working, Answered, Removed, Held, Known
    <2>2. CASE /\ res[k] = loc[k].copy
               /\ res' = [res EXCEPT ![k] = Absent(res[k].uid)]
               /\ left' = IF loc[k].abandon /\ remote[k][res[k].name].there
                          THEN [left EXCEPT ![k] = left[k] \cup {res[k].name}] ELSE left
      <3>1. /\ res'[k].phase = "absent" /\ ~res'[k].finalizer /\ res'[k].uid = res[k].uid
            /\ pc[k] = "release" /\ pc'[k] = "idle"
            /\ UNCHANGED <<seen, remote, renamed>>
        BY <1>7, <2>2 DEF removeFinalizer, Finish, Absent
      <3>2. SeenBehind(k)'
        BY <3>1 DEF SeenBehind, Releasing, Held
      <3>3. /\ left[k] \subseteq left'[k]
            /\ remote[k][res[k].name].there => res[k].name \in left'[k]
        BY <2>2, <3>1 DEF Removed
      <3>4. Answered(k)'
        BY <3>1, <3>3 DEF Answered
      <3> QED
        BY <3>1, <3>2, <3>4 DEF Finalizing, Releasing, Marked, Working, Removed
    <2> QED
      BY <1>7, <2>1, <2>2 DEF removeFinalizer
  <1> QED
    BY <1>1, <1>2, <1>3, <1>4, <1>5, <1>6, <1>7
    DEF Worker, ReconcileRealm, ReconcileInRealm

\* So does whatever the environment does to it.
LEMMA OwnDisturbance ==
    ASSUME TypeOK, NEW k \in Kinds, KindInv(k), Disturb(k)
    PROVE  KindInv(k)'
  <1> USE DEF KindInv, TypeOK
  <1>0. /\ res[k] \in Resources /\ seen[k] \in Resources /\ loc[k] \in Locals
        /\ res[k].uid \in Nat /\ seen[k].uid \in Nat /\ loc[k].copy.uid \in Nat
    BY KeycloakResourcesAssumption DEF Resources, Locals
  <1>1. CASE SyncCache(k)
    <2>1. seen'[k] = res[k] /\ UNCHANGED <<res, remote, left, renamed, pc, loc>>
      BY <1>1 DEF SyncCache
    <2>2. SeenBehind(k)' /\ Releasing(k)' /\ Marked(k)'
      BY <1>0, <2>1 DEF SeenBehind, Releasing, Marked, Held, Known
    <2>3. Finalizing(k)'
      BY <1>0, <2>1 DEF Finalizing, SeenBehind
    <2> QED
      BY <2>1, <2>2, <2>3 DEF Working, Answered, Removed, Known
  <1>2. CASE Create(k)
    <2>1. /\ res[k].phase = "absent"
          /\ res'[k].phase = "live" /\ ~res'[k].finalizer /\ res'[k].uid = res[k].uid + 1
          /\ UNCHANGED <<seen, remote, left, renamed, pc, loc>>
      BY <1>2 DEF Create, Absent
    <2>2. ~res[k].finalizer
      BY <2>1 DEF SeenBehind
    <2>3. SeenBehind(k)'
      BY <1>0, <2>1, <2>2 DEF SeenBehind, Held
    <2> QED
      BY <2>1, <2>2, <2>3 DEF Finalizing, Releasing, Marked, Working, Answered, Removed, Held
  <1>3. CASE Edit(k)
    <2>1. /\ res'[k].phase = res[k].phase /\ res'[k].uid = res[k].uid
          /\ res'[k].finalizer = res[k].finalizer
          /\ UNCHANGED <<seen, remote, pc, loc>>
      BY <1>0, <1>3 DEF Edit, Resources
    <2>2. \/ /\ res'[k].name = res[k].name \/ ~res[k].finalizer
             /\ UNCHANGED <<left, renamed>>
          \/ /\ renamed'[k] = (renamed[k] \cup {res[k].name}) \ {res'[k].name}
             /\ left'[k] = left[k] \ {res'[k].name}
             /\ res[k].finalizer
      BY <1>0, <1>3 DEF Edit, Resources
    <2>3. res[k].finalizer => \A n \in Names : Known(k, n) => Known(k, n)'
      BY <2>2 DEF Known
    <2>4. Answered(k)'
      BY <2>1, <2>2 DEF Answered
    <2>5. SeenBehind(k)' /\ Working(k)'
      <3>1. seen[k].name \in Names /\ loc[k].copy.name \in Names
        BY <1>0 DEF Resources, Locals
      <3> HIDE DEF Known
      <3> QED
        BY <2>1, <2>3, <3>1 DEF SeenBehind, Working, Held
    <2> QED
      BY <2>1, <2>4, <2>5 DEF Finalizing, Releasing, Marked, Removed, Held
  <1>4. CASE Delete(k)
    <2>1. /\ res[k].phase = "live"
          /\ res'[k].phase = IF res[k].finalizer THEN "deleting" ELSE "absent"
          /\ res'[k].uid = res[k].uid
          /\ res'[k].finalizer = res[k].finalizer
          /\ res[k].finalizer => res'[k].name = res[k].name
          /\ UNCHANGED <<seen, remote, left, renamed, pc, loc>>
      BY <1>0, <1>4 DEF Delete, Resources, Absent
    <2> QED
      BY <2>1 DEF SeenBehind, Finalizing, Releasing, Marked, Working, Answered, Removed,
                  Held, Known
  <1>5. CASE Drift(k)
    <2>1. /\ UNCHANGED <<res, seen, renamed, pc, loc>>
          /\ left'[k] = {n \in left[k] : remote'[k][n].there}
      BY <1>5 DEF Drift, StillThere
    <2>2. \A n \in Names : remote'[k][n].there => remote[k][n].there
      BY <1>5 DEF Drift, Nothing, Gone
    <2>3. Untouched(k)
      BY <2>1, <2>2 DEF Untouched
    <2> QED
      BY <2>3, Frame
  <1> QED
    BY <1>1, <1>2, <1>3, <1>4, <1>5 DEF Disturb

\* Every step keeps the invariant.
LEMMA InvStep == ResourcesInv /\ [Next]_vars => ResourcesInv'
  <1> SUFFICES ASSUME ResourcesInv, [Next]_vars PROVE ResourcesInv'
    OBVIOUS
  <1>1. TypeOK /\ TypeOK'
    BY TypeStep DEF ResourcesInv
  <1>2. ASSUME NEW j \in Kinds PROVE KindInv(j)'
    <2>0. KindInv(j)
      BY DEF ResourcesInv
    <2>1. CASE \E k \in Kinds : Worker(k) \/ Disturb(k)
      <3>1. PICK k \in Kinds : Worker(k) \/ Disturb(k)
        BY <2>1
      <3>2. CASE j = k
        BY <1>1, <2>0, <3>1, <3>2, OwnPass, OwnDisturbance
      <3>3. CASE j # k
        BY <1>1, <2>0, <3>1, <3>3, OtherKinds, Frame
      <3> QED
        BY <3>2, <3>3
    <2>2. CASE Crash
      <3>1. /\ pc'[j] = "idle" /\ seen'[j] = res[j]
            /\ UNCHANGED <<res, remote, left, renamed>>
        BY <2>2 DEF Crash
      <3>2. res[j].uid \in Nat
        BY <1>1, KeycloakResourcesAssumption DEF TypeOK, Resources
      <3> QED
        BY <2>0, <3>1, <3>2 DEF KindInv, SeenBehind, Finalizing, Releasing, Marked,
                                Working, Answered, Removed, Held, Known
    <2>3. CASE ChangeCredentials \/ Settle \/ UNCHANGED vars
      <3>1. Untouched(j)
        BY <2>3 DEF ChangeCredentials, Settle, vars, Untouched
      <3> QED
        BY <1>1, <2>0, <3>1, Frame
    <2> QED
      BY <2>1, <2>2, <2>3 DEF Next
  <1> QED
    BY <1>1, <1>2 DEF ResourcesInv

\* How the informer copy, the pass and the object relate holds throughout
\* (ResourcesInv).
THEOREM ResourcesInvariant == Spec => []ResourcesInv
  BY InvInit, InvStep, PTL DEF Spec

\* No controller leaves an object behind in Keycloak by accident, except under a
\* name its resource was renamed from (AddFinalizer, reconcileDelete, removeFinalizer).
THEOREM NeverLeaks == Spec => []NothingLeaked
  <1>1. ResourcesInv => NothingLeaked
    BY DEF ResourcesInv, KindInv, Answered, NothingLeaked
  <1> QED
    BY <1>1, ResourcesInvariant, PTL

\* A pass that writes to Keycloak or reports Ready does so for the resource it
\* read, which is still there (AddFinalizer, writeStatus).
THEOREM AlwaysHoldsResource == Spec => []HoldsResource
  <1>1. ResourcesInv => HoldsResource
    BY DEF ResourcesInv, KindInv, Working, HoldsResource
  <1> QED
    BY <1>1, ResourcesInvariant, PTL

-----------------------------------------------------------------------------
(***************************************************************************)
(* The controllers implement Custody.                                      *)
(***************************************************************************)

Things == Kinds \X Names

heldNow == {t \in Things : res[t[1]].finalizer /\ res[t[1]].name = t[2]}

presentNow == {t \in Things : remote[t[1]][t[2]].there}

freeNow == {t \in Things : t[2] \in left[t[1]]}

droppedNow == {t \in Things : t[2] \in renamed[t[1]]}

\* A thing is a kind and a name.
LEMMA Pairs ==
    /\ \A t \in Things : t[1] \in Kinds /\ t[2] \in Names /\ t = <<t[1], t[2]>>
    /\ \A k \in Kinds, n \in Names : <<k, n>> \in Things
    /\ \A k, n : <<k, n>>[1] = k /\ <<k, n>>[2] = n
  BY DEF Things

\* Resources with the same finalizers and names hold the same things.
LEMMA SameHeld ==
    ASSUME \A k \in Kinds :
             /\ res'[k].finalizer <=> res[k].finalizer
             /\ res[k].finalizer => res'[k].name = res[k].name
    PROVE  heldNow' = heldNow
  BY Pairs DEF heldNow

\* A step after which the same resources hold, the same objects are there and the
\* same are free or dropped is none of Custody's.
LEMMA Unseen ==
    ASSUME heldNow' = heldNow, presentNow' = presentNow, freeNow' = freeNow,
           droppedNow' = droppedNow
    PROVE  [Keeping!Next]_(Keeping!vars)
  BY DEF heldNow, presentNow, freeNow, droppedNow, Things, Keeping!vars

\* Objects that go take what is free about them along.
LEMMA Vanishing ==
    ASSUME TypeOK, heldNow' = heldNow, left' = StillThere, renamed' = renamed,
           \A k \in Kinds, n \in Names : remote'[k][n].there => remote[k][n].there
    PROVE  [Keeping!Next]_(Keeping!vars)
  <1> DEFINE S == {t \in Things : ~remote'[t[1]][t[2]].there}
  <1>1. presentNow' = presentNow \ S
    BY Pairs DEF presentNow
  <1>2. \A k \in Kinds : left'[k] = {n \in left[k] : remote'[k][n].there}
    BY DEF StillThere
  <1>3. freeNow' = freeNow \ S
    BY <1>2, Pairs DEF freeNow
  <1>4. droppedNow' = droppedNow
    BY DEF droppedNow
  <1>5. S \in SUBSET Things
    OBVIOUS
  <1>6. heldNow' = heldNow
    OBVIOUS
  <1> HIDE DEF S
  <1>7. PICK T \in SUBSET Things : T = S
    BY <1>5
  <1>8. Keeping!Vanish(T)
    BY <1>1, <1>3, <1>4, <1>6, <1>7
    DEF heldNow, presentNow, freeNow, droppedNow, Things, Keeping!Vanish
  <1> QED
    BY <1>8 DEF Keeping!Next, Things

\* Every step of a pass is one of Custody's, or none.
LEMMA CustodyPass ==
    ASSUME ResourcesInv, NEW k \in Kinds, Worker(k)
    PROVE  [Keeping!Next]_(Keeping!vars)
  <1>0. TypeOK /\ KindInv(k)
    BY DEF ResourcesInv
  <1>r. /\ res[k] \in Resources /\ loc[k] \in Locals
        /\ res \in [Kinds -> Resources] /\ remote \in [Kinds -> [Names -> Objects]]
        /\ left \in [Kinds -> SUBSET Names] /\ renamed \in [Kinds -> SUBSET Names]
    BY <1>0 DEF TypeOK
  <1>1. CASE UNCHANGED <<res, remote, left, renamed>>
    BY <1>1, Unseen DEF heldNow, presentNow, freeNow, droppedNow
  <1>2. CASE AddFinalizer(k)
    <2>1. CASE UNCHANGED <<res, left, renamed>>
      BY <1>1, <1>2, <2>1 DEF AddFinalizer
    <2>2. CASE /\ res[k] = loc[k].copy
               /\ res' = [res EXCEPT ![k].finalizer = TRUE]
               /\ left' = [left EXCEPT ![k] = left[k] \ {res[k].name}]
               /\ renamed' = [renamed EXCEPT ![k] = renamed[k] \ {res[k].name}]
      <3>1. PICK n \in Names : n = res[k].name
        BY <1>r DEF Resources
      <3>2. ~res[k].finalizer
        BY <1>0, <1>2, <2>2 DEF AddFinalizer, KindInv, Finalizing
      <3>3. /\ \A j \in Kinds : res'[j].name = res[j].name
            /\ \A j \in Kinds \ {k} : res'[j] = res[j]
            /\ res'[k].finalizer
        BY <1>r, <2>2 DEF Resources
      <3>4. heldNow' = heldNow \cup {<<k, n>>} /\ <<k, n>> \notin heldNow
        BY <3>1, <3>2, <3>3, Pairs DEF heldNow
      <3>5. freeNow' = freeNow \ {<<k, n>>}
        <4>1. left'[k] = left[k] \ {n} /\ \A j \in Kinds \ {k} : left'[j] = left[j]
          BY <1>r, <2>2, <3>1
        <4> QED
          BY <4>1, Pairs DEF freeNow
      <3>6. droppedNow' = droppedNow \ {<<k, n>>}
        <4>1. renamed'[k] = renamed[k] \ {n} /\ \A j \in Kinds \ {k} : renamed'[j] = renamed[j]
          BY <1>r, <2>2, <3>1
        <4> QED
          BY <4>1, Pairs DEF droppedNow
      <3>7. presentNow' = presentNow
        BY <1>2 DEF AddFinalizer, presentNow
      <3>8. Keeping!Claim(<<k, n>>)
        BY <3>4, <3>5, <3>6, <3>7
        DEF heldNow, presentNow, freeNow, droppedNow, Things, Keeping!Claim
      <3> QED
        BY <3>8, Pairs DEF Keeping!Next, Things
    <2> QED
      BY <1>2, <2>1, <2>2 DEF AddFinalizer
  <1>3. ASSUME NEW parts \in BOOLEAN, Synchronise(k, parts)
        PROVE  [Keeping!Next]_(Keeping!vars)
    <2>1. pc[k] = "write" /\ UNCHANGED <<res, left, renamed>>
      BY <1>0, <1>3, Written
    <2>2. PICK n \in Names : n = loc[k].copy.name
      BY <1>r DEF Locals, Resources
    <2>3. <<k, n>> \in heldNow \cup droppedNow
      <3>1. res[k].finalizer /\ (n = res[k].name \/ n \in renamed[k])
        BY <1>0, <2>1, <2>2 DEF KindInv, Working, Known
      <3> QED
        BY <3>1, Pairs DEF heldNow, droppedNow
    <2>4. CASE UNCHANGED remote
      BY <1>1, <2>1, <2>4
    <2>5. ASSUME NEW o \in Objects, o.there,
                 remote' = [remote EXCEPT ![k][loc[k].copy.name] = o]
          PROVE  [Keeping!Next]_(Keeping!vars)
      <3>1. /\ remote'[k][n].there
            /\ \A m \in Names \ {n} : remote'[k][m] = remote[k][m]
            /\ \A j \in Kinds \ {k} : remote'[j] = remote[j]
        BY <1>r, <2>2, <2>5
      <3>2. presentNow' = presentNow \cup {<<k, n>>}
        BY <3>1, Pairs DEF presentNow
      <3>3. UNCHANGED <<heldNow, freeNow, droppedNow>>
        BY <2>1 DEF heldNow, freeNow, droppedNow
      <3>4. Keeping!Put(<<k, n>>)
        BY <2>3, <3>2, <3>3
        DEF heldNow, presentNow, freeNow, droppedNow, Things, Keeping!Put
      <3> QED
        BY <3>4, Pairs DEF Keeping!Next, Things
    <2> QED
      BY <1>0, <1>3, <2>4, <2>5, Written
  <1>4. CASE setStatus(k)
    <2>1. UNCHANGED <<remote, left, renamed>>
      BY <1>4 DEF setStatus
    <2>2. \A j \in Kinds : res'[j].finalizer = res[j].finalizer /\ res'[j].name = res[j].name
      BY <1>r, <1>4 DEF setStatus, Resources
    <2>3. heldNow' = heldNow
      BY <2>2, SameHeld
    <2> QED
      BY <2>1, <2>3, Unseen DEF presentNow, freeNow, droppedNow
  <1>5. CASE reconcileDelete(k)
    <2>1. UNCHANGED <<res, renamed>> /\ left' = StillThere
      BY <1>5 DEF reconcileDelete
    <2>2. loc[k].copy.name \in Names
      BY <1>r DEF Locals, Resources
    <2>3. \A j \in Kinds, m \in Names : remote'[j][m] \in {remote[j][m], Gone}
      BY <1>0, <1>5, <2>2, Removal DEF reconcileDelete
    <2>4. \A j \in Kinds, m \in Names : remote'[j][m].there => remote[j][m].there
      BY <2>3 DEF Gone
    <2>5. heldNow' = heldNow
      BY <2>1 DEF heldNow
    <2> QED
      BY <1>0, <2>1, <2>4, <2>5, Vanishing
  <1>6. CASE removeFinalizer(k)
    <2>1. CASE UNCHANGED <<res, left>>
      BY <1>1, <1>6, <2>1 DEF removeFinalizer
    <2>2. CASE /\ res[k] = loc[k].copy
               /\ res' = [res EXCEPT ![k] = Absent(res[k].uid)]
               /\ left' = IF loc[k].abandon /\ remote[k][res[k].name].there
                          THEN [left EXCEPT ![k] = left[k] \cup {res[k].name}] ELSE left
      <3>1. PICK n \in Names : n = res[k].name
        BY <1>r DEF Resources
      <3>2. pc[k] = "release" /\ UNCHANGED <<remote, renamed>>
        BY <1>6 DEF removeFinalizer
      <3>3. res[k].finalizer
        BY <1>0, <2>2, <3>2 DEF KindInv, Marked
      <3>4. ~res'[k].finalizer /\ \A j \in Kinds \ {k} : res'[j] = res[j]
        BY <1>r, <2>2 DEF Absent
      <3>5. heldNow' = heldNow \ {<<k, n>>} /\ <<k, n>> \in heldNow
        BY <3>1, <3>3, <3>4, Pairs DEF heldNow
      <3>6. /\ left'[k] \in {left[k], left[k] \cup {n}}
            /\ \A j \in Kinds \ {k} : left'[j] = left[j]
            /\ remote[k][n].there => n \in left'[k]
        BY <1>0, <1>r, <2>2, <3>1, <3>2 DEF KindInv, Removed
      <3>7. freeNow' \in {freeNow, freeNow \cup {<<k, n>>}}
        <4>1. CASE left'[k] = left[k]
          BY <3>6, <4>1, Pairs DEF freeNow
        <4>2. CASE left'[k] = left[k] \cup {n}
          <5>1. freeNow' = freeNow \cup {<<k, n>>}
            BY <3>6, <4>2, Pairs DEF freeNow
          <5> QED
            BY <5>1
        <4> QED
          BY <3>6, <4>1, <4>2
      <3>8. <<k, n>> \in presentNow => <<k, n>> \in freeNow'
        BY <3>6, Pairs DEF presentNow, freeNow
      <3>9. UNCHANGED <<presentNow, droppedNow>>
        BY <3>2 DEF presentNow, droppedNow
      <3>10. Keeping!Release(<<k, n>>)
        BY <3>5, <3>7, <3>8, <3>9
        DEF heldNow, presentNow, freeNow, droppedNow, Things, Keeping!Release
      <3> QED
        BY <3>10, Pairs DEF Keeping!Next, Things
    <2> QED
      BY <1>6, <2>1, <2>2 DEF removeFinalizer
  <1>7. CASE Reconcile(k) \/ GetObject(k)
    BY <1>1, <1>7 DEF Reconcile, GetObject
  <1> QED
    BY <1>2, <1>3, <1>4, <1>5, <1>6, <1>7 DEF Worker, ReconcileRealm, ReconcileInRealm

\* So is an edit: a rename turns the holder from one thing to another.
LEMMA CustodyEdit ==
    ASSUME ResourcesInv, NEW k \in Kinds, Edit(k)
    PROVE  [Keeping!Next]_(Keeping!vars)
  <1>r. /\ res[k] \in Resources /\ res \in [Kinds -> Resources]
        /\ left \in [Kinds -> SUBSET Names] /\ renamed \in [Kinds -> SUBSET Names]
    BY DEF ResourcesInv, TypeOK
  <1>n. NamesOf(k) \subseteq Names
    BY KeycloakResourcesAssumption DEF NamesOf
  <1>1. PICK p \in Policies, n \in Names :
          /\ res' = [res EXCEPT ![k].gen = res[k].gen + 1, ![k].policy = p, ![k].name = n]
          /\ IF n # res[k].name /\ res[k].finalizer
             THEN /\ renamed' = [renamed EXCEPT ![k] = (renamed[k] \cup {res[k].name}) \ {n}]
                  /\ left' = [left EXCEPT ![k] = left[k] \ {n}]
             ELSE UNCHANGED <<left, renamed>>
    BY <1>n, Zenon DEF Edit
  <1>2. /\ \A j \in Kinds : res'[j].finalizer = res[j].finalizer
        /\ \A j \in Kinds \ {k} : res'[j] = res[j]
        /\ res'[k].name = n
    BY <1>r, <1>1 DEF Resources
  <1>3. presentNow' = presentNow
    BY DEF Edit, presentNow
  <1>4. CASE n # res[k].name /\ res[k].finalizer
    <2>1. PICK m \in Names : m = res[k].name
      BY <1>r DEF Resources
    <2>2. /\ heldNow' = (heldNow \ {<<k, m>>}) \cup {<<k, n>>}
          /\ <<k, m>> \in heldNow /\ <<k, n>> \notin heldNow
      BY <1>2, <1>4, <2>1, Pairs DEF heldNow
    <2>3. freeNow' = freeNow \ {<<k, n>>}
      <3>1. left'[k] = left[k] \ {n} /\ \A j \in Kinds \ {k} : left'[j] = left[j]
        BY <1>r, <1>1, <1>4
      <3> QED
        BY <3>1, Pairs DEF freeNow
    <2>4. droppedNow' = (droppedNow \cup {<<k, m>>}) \ {<<k, n>>}
      <3>1. /\ renamed'[k] = (renamed[k] \cup {m}) \ {n}
            /\ \A j \in Kinds \ {k} : renamed'[j] = renamed[j]
        BY <1>r, <1>1, <1>4, <2>1
      <3> QED
        BY <3>1, Pairs DEF droppedNow
    <2>5. Keeping!Turn(<<k, m>>, <<k, n>>)
      BY <1>3, <2>2, <2>3, <2>4
      DEF heldNow, presentNow, freeNow, droppedNow, Things, Keeping!Turn
    <2> QED
      BY <2>5, Pairs DEF Keeping!Next, Things
  <1>5. CASE ~(n # res[k].name /\ res[k].finalizer)
    <2>1. heldNow' = heldNow
      BY <1>2, <1>5, SameHeld
    <2> QED
      BY <1>1, <1>3, <1>5, <2>1, Unseen DEF freeNow, droppedNow
  <1> QED
    BY <1>4, <1>5

\* And every other step of the environment.
LEMMA CustodyEnvironment ==
    ASSUME ResourcesInv,
           \/ \E k \in Kinds : Disturb(k)
           \/ ChangeCredentials \/ Crash \/ Settle \/ UNCHANGED vars
    PROVE  [Keeping!Next]_(Keeping!vars)
  <1>0. TypeOK /\ res \in [Kinds -> Resources] /\ \A k \in Kinds : KindInv(k)
    BY DEF ResourcesInv, TypeOK
  <1>1. CASE UNCHANGED <<res, remote, left, renamed>>
    BY <1>1, Unseen DEF heldNow, presentNow, freeNow, droppedNow
  <1>2. ASSUME NEW k \in Kinds, Create(k) \/ Delete(k)
        PROVE  [Keeping!Next]_(Keeping!vars)
    <2>1. UNCHANGED <<remote, left, renamed>> /\ \A j \in Kinds \ {k} : res'[j] = res[j]
      BY <1>0, <1>2 DEF Create, Delete
    <2>2. /\ res'[k].finalizer <=> res[k].finalizer
          /\ res[k].finalizer => res'[k].name = res[k].name
      <3>0. res[k] \in Resources /\ SeenBehind(k)
        BY <1>0 DEF KindInv
      <3>1. CASE Create(k)
        <4>1. res[k].phase = "absent" /\ ~res'[k].finalizer
          BY <1>0, <3>1 DEF Create, Absent
        <4>2. ~res[k].finalizer
          BY <3>0, <4>1 DEF SeenBehind
        <4> QED
          BY <4>1, <4>2
      <3>2. CASE Delete(k)
        BY <1>0, <3>0, <3>2 DEF Delete, Resources, Absent
      <3> QED
        BY <1>2, <3>1, <3>2
    <2>3. heldNow' = heldNow
      BY <2>1, <2>2, SameHeld
    <2> QED
      BY <2>1, <2>3, Unseen DEF presentNow, freeNow, droppedNow
  <1>3. ASSUME NEW k \in Kinds, Drift(k) PROVE [Keeping!Next]_(Keeping!vars)
    <2>1. UNCHANGED <<res, renamed>> /\ left' = StillThere
      BY <1>3 DEF Drift
    <2>2. \A j \in Kinds, n \in Names : remote'[j][n].there => remote[j][n].there
      <3>1. PICK m \in Names :
              /\ remote[k][m].there
              /\ \/ remote' = [remote EXCEPT ![k][m].gen = 0]
                 \/ remote' = Nothing
                 \/ remote' = [remote EXCEPT ![k][m] = Gone]
        BY <1>3 DEF Drift
      <3>2. remote \in [Kinds -> [Names -> Objects]]
        BY <1>0 DEF TypeOK
      <3>3. CASE remote' = [remote EXCEPT ![k][m].gen = 0]
        BY <3>1, <3>2, <3>3
      <3>4. CASE remote' = Nothing
        BY <3>4 DEF Nothing, Gone
      <3>5. CASE remote' = [remote EXCEPT ![k][m] = Gone]
        BY <3>2, <3>5 DEF Gone
      <3> QED
        BY <3>1, <3>3, <3>4, <3>5
    <2>3. heldNow' = heldNow
      BY <2>1 DEF heldNow
    <2> QED
      BY <1>0, <2>1, <2>2, <2>3, Vanishing
  <1>4. CASE ChangeCredentials \/ Crash \/ Settle \/ UNCHANGED vars
    BY <1>1, <1>4 DEF ChangeCredentials, Crash, Settle, vars
  <1>5. ASSUME NEW k \in Kinds, SyncCache(k) PROVE [Keeping!Next]_(Keeping!vars)
    BY <1>1, <1>5 DEF SyncCache
  <1> QED
    BY <1>2, <1>3, <1>4, <1>5, CustodyEdit DEF Disturb

\* The controllers of all kinds together do what Custody promises: whatever they
\* read, crash or race with, a finalizer comes before an object and goes after it,
\* or the object is let go knowingly or dropped for another by a rename
\* (KeepsCustody).
THEOREM ImplementsCustody == Spec => KeepsCustody
  <1>1. Init => Keeping!Init
    <2> SUFFICES ASSUME Init PROVE Keeping!Init
      OBVIOUS
    <2>1. \A k \in Kinds : ~res[k].finalizer
      BY DEF Init, Absent
    <2>2. heldNow = {} /\ droppedNow = {}
      BY <2>1, Pairs DEF Init, heldNow, droppedNow
    <2>3. freeNow = presentNow
      BY Pairs DEF Init, freeNow, presentNow
    <2> QED
      BY <2>2, <2>3 DEF heldNow, presentNow, freeNow, droppedNow, Things, Keeping!Init
  <1>2. ResourcesInv /\ [Next]_vars => [Keeping!Next]_(Keeping!vars)
    BY CustodyPass, CustodyEnvironment DEF Next
  <1> QED
    BY <1>1, <1>2, ResourcesInvariant, PTL DEF Spec, KeepsCustody, Keeping!Spec
=============================================================================
