--------------------------- MODULE PlatformProofs ---------------------------
(***************************************************************************)
(* Proofs about Platform, for every set of names and of objects and every  *)
(* bound: types, the single authority, and that objects never change       *)
(* hands.                                                                  *)
(***************************************************************************)
EXTENDS Platform, TLAPS

ObjectSteps == WriteSteps \cup {"look"}

StepNames == {"idle", "look", "updateStatus"} \cup AuthoritySteps \cup WriteSteps

-----------------------------------------------------------------------------
(***************************************************************************)
(* What the helpers of the pass leave behind.                              *)
(***************************************************************************)

\* A worker without a pass is well typed.
LEMMA NoPassType == NoPass \in Passes
  <1>1. (CHOOSE n \in Names : TRUE) \in Names
    BY PlatformAssumption
  <1>2. NoNetEye \in NetEyes /\ NoLease \in Leases /\ Missing \in Things
    BY PlatformAssumption DEF NoNetEye, NetEyes, NoLease, Leases, Missing, Things
  <1> QED
    BY <1>1, <1>2 DEF NoPass, Passes, Phases

\* An early return ends the pass without touching its NetEye.
LEMMA ReturnEffect ==
  ASSUME TypeOK, NEW ph \in Phases, Return(ph)
  PROVE  at' = "updateStatus" /\ pass' \in Passes /\ pass'.ne = pass.ne
  <1>1. setPhase(pass.phase, ph) \in Phases
    BY DEF setPhase, TypeOK, Passes
  <1>2. NoLease \in Leases /\ Missing \in Things
    BY PlatformAssumption DEF NoLease, Leases, Missing, Things
  <1> QED
    BY <1>1, <1>2 DEF Return, TypeOK, Passes

\* The current item is one of those left.
LEMMA ItemLeft ==
  ASSUME TypeOK, at \in ObjectSteps
  PROVE  Item \in pass.todo /\ Item \in Objects /\ pass.todo \subseteq Objects
  <1>1. pass.todo # {} /\ pass.todo \subseteq Objects
    BY DEF TypeOK, Passes, ObjectSteps
  <1>2. pass.todo \subseteq {"gateway", "keycloak", "collector"}
    BY <1>1, PlatformAssumption
  <1>3. Item \in pass.todo
    BY <1>1, <1>2 DEF Item, Turn
  <1> QED
    BY <1>1, <1>3

\* The end of an item leaves a pass of the same NetEye with an item to look at, or
\* one that writes its status (runComponentOperations).
LEMMA FinishEffect ==
  ASSUME TypeOK, at \in ObjectSteps, NEW ph \in Phases, Finish(ph)
  PROVE  /\ at' \in {"updateStatus", "look"}
         /\ pass' \in Passes /\ pass'.ne = pass.ne
         /\ at' = "look" => pass'.todo # {}
  <1>1. CASE pass.todo = {Item} \/ (Item = "gateway" /\ ph = "Failed")
    BY <1>1, ReturnEffect DEF Finish
  <1>2. CASE ~(pass.todo = {Item} \/ (Item = "gateway" /\ ph = "Failed"))
    <2>1. setPhase(pass.phase, ph) \in Phases
      BY DEF setPhase, TypeOK, Passes
    <2>2. Missing \in Things
      BY PlatformAssumption DEF Missing, Things
    <2>3. pass.todo \ {Item} # {} /\ pass.todo \ {Item} \subseteq Objects
      BY <1>2, ItemLeft
    <2> QED
      BY <1>2, <2>1, <2>2, <2>3 DEF Finish, TypeOK, Passes
  <1> QED
    BY <1>1, <1>2

\* So does every result of a write (Ensure and its outcomes).
LEMMA AppliedEffect ==
  ASSUME TypeOK, at \in ObjectSteps, Applied \/ Written
  PROVE  /\ at' \in {"updateStatus", "look"}
         /\ pass' \in Passes /\ pass'.ne = pass.ne
         /\ at' = "look" => pass'.todo # {}
  <1>1. PICK ph \in Phases : Finish(ph)
    BY DEF Applied, Written, Phases
  <1> QED
    BY <1>1, FinishEffect

\* Only a Lease that names the NetEye of the pass lets it go on.
LEMMA DecideEffect ==
  ASSUME TypeOK, NEW read \in Leases, Decide(read)
  PROVE  /\ at' \in {"updateStatus", "ownLease", "look"}
         /\ pass' \in Passes /\ pass'.ne = pass.ne
         /\ at' = "look" => pass'.todo # {}
         /\ at' # "updateStatus" => read.holder = pass.ne.uid
         /\ at' = "ownLease" => pass'.lease = read
  <1>1. CASE read.holder # pass.ne.uid
    BY <1>1, ReturnEffect DEF Decide, Phases
  <1>2. CASE read.holder = pass.ne.uid /\ ~read.owned
    BY <1>2 DEF Decide, TypeOK, Passes
  <1>3. CASE read.holder = pass.ne.uid /\ read.owned
    BY <1>3, PlatformAssumption DEF Decide, TypeOK, Passes
  <1> QED
    BY <1>1, <1>2, <1>3

\* Only an object of the NetEye of the pass is going to be updated.
LEMMA AdjustEffect ==
  ASSUME TypeOK, at \in ObjectSteps, NEW read \in Things, Adjust(read)
  PROVE  /\ at' \in {"updateStatus", "look", "update"}
         /\ pass' \in Passes /\ pass'.ne = pass.ne
         /\ at' \in ObjectSteps => pass'.todo # {}
         /\ at' = "update" => pass'.read.owner = pass.ne.uid
  <1>1. CASE read.owner # pass.ne.uid
    BY <1>1, FinishEffect DEF Adjust, Phases, ObjectSteps, WriteSteps
  <1>2. CASE read.owner = pass.ne.uid /\ read = Desired(Item, pass.ne)
    BY <1>2, AppliedEffect DEF Adjust, ObjectSteps, WriteSteps
  <1>3. CASE read.owner = pass.ne.uid /\ read # Desired(Item, pass.ne)
    <2>1. at' = "update" /\ pass' = [pass EXCEPT !.read = read]
      BY <1>3 DEF Adjust
    <2> QED
      BY <1>3, <2>1 DEF TypeOK, Passes, ObjectSteps
  <1> QED
    BY <1>1, <1>2, <1>3

-----------------------------------------------------------------------------
(***************************************************************************)
(* What the steps of the pass do to its local variables.                   *)
(***************************************************************************)

WorkerType ==
    /\ at \in StepNames /\ pass \in Passes
    /\ at \in ObjectSteps => pass.todo # {}

\* A pass keeps the NetEye it was started for.
Keeps == at' = "idle" \/ pass'.ne = pass.ne

\* A step on the Lease keeps the type of the worker and the NetEye of its pass
\* (ensureClusterAuthority).
LEMMA AuthorityStepEffect ==
  ASSUME TypeOK, getLease \/ createLease \/ rereadLease \/ ownLease
  PROVE  /\ WorkerType' /\ Keeps
         /\ lease' \in Leases
         /\ at' # "update"
  <1> USE DEF WorkerType, Keeps, StepNames, ObjectSteps, AuthoritySteps, WriteSteps
  <1>1. CASE getLease
    <2>1. CASE seenLease = NoLease
      BY <1>1, <2>1 DEF getLease, TypeOK
    <2>2. CASE seenLease # NoLease
      BY <1>1, <2>2, DecideEffect DEF getLease, TypeOK
    <2> QED
      BY <2>1, <2>2
  <1>2. CASE createLease
    <2>1. CASE lease = NoLease
      <3>0. pass.ne.uid \in 0..MaxUid
        BY DEF TypeOK, Passes, NetEyes
      <3>a. lease' = [holder |-> pass.ne.uid, owned |-> TRUE]
        BY <1>2, <2>1 DEF createLease
      <3>1. lease' \in Leases
        BY <3>0, <3>a DEF Leases
      <3>2. CASE Decide(lease')
        BY <3>1, <3>2, DecideEffect
      <3>3. CASE Return("Failed")
        BY <3>1, <3>3, ReturnEffect DEF Phases
      <3> QED
        BY <1>2, <2>1, <3>2, <3>3 DEF createLease
    <2>2. CASE lease # NoLease
      BY <1>2, <2>2 DEF createLease, TypeOK
    <2> QED
      BY <2>1, <2>2
  <1>3. CASE rereadLease
    <2>1. CASE seenLease = NoLease
      BY <1>3, <2>1, ReturnEffect DEF rereadLease, TypeOK, Phases
    <2>2. CASE seenLease # NoLease
      BY <1>3, <2>2, DecideEffect DEF rereadLease, TypeOK
    <2> QED
      BY <2>1, <2>2
  <1>4. CASE ownLease
    <2>1. lease' \in Leases
      BY <1>4 DEF ownLease, TypeOK, Leases
    <2>2. CASE Return("Failed")
      BY <2>1, <2>2, ReturnEffect DEF Phases
    <2>3. CASE at' = "look" /\ pass' = [pass EXCEPT !.todo = Objects, !.lease = NoLease]
      <3>1. NoLease \in Leases
        BY PlatformAssumption DEF NoLease, Leases
      <3> QED
        BY <2>1, <2>3, <3>1, PlatformAssumption DEF TypeOK, Passes
    <2> QED
      BY <1>4, <2>2, <2>3 DEF ownLease
  <1> QED
    BY <1>1, <1>2, <1>3, <1>4

\* The objects a pass writes get its NetEye as owner.
LEMMA DesiredType ==
  ASSUME TypeOK, NEW o \in Objects
  PROVE  Desired(o, pass.ne) \in Things /\ Desired(o, pass.ne).owner = pass.ne.uid
  BY PlatformAssumption DEF TypeOK, Passes, NetEyes, Desired, Things, gatewayListeners,
                            keycloakInstanceSpec, collectorDeployment

\* A step on an object keeps the type of the worker and the NetEye of its pass, and
\* leads to an update only of what that NetEye owns (RequireManagedOwner).
LEMMA ObjectStepEffect ==
  ASSUME TypeOK, look \/ createObject \/ reconcileExisting \/ update \/ delete
  PROVE  /\ WorkerType' /\ Keeps
         /\ obj' \in [Objects -> Things]
         /\ at' # "ownLease"
         /\ at' = "update" => pass'.read.owner = pass'.ne.uid
  <1> USE DEF WorkerType, Keeps, StepNames, ObjectSteps, AuthoritySteps, WriteSteps
  <1>0. at \in ObjectSteps
    BY DEF look, createObject, reconcileExisting, update, delete
  <1>i. Item \in Objects
    BY <1>0, ItemLeft
  <1>1. CASE look
    <2>1. obj' \in [Objects -> Things]
      BY <1>1 DEF look, TypeOK
    <2>2. CASE pass' = pass
      BY <1>0, <1>1, <2>1, <2>2, AdjustEffect, FinishEffect DEF look, TypeOK, Phases
    <2>3. CASE \E read \in Things : Adjust(read)
      BY <1>0, <2>1, <2>3, AdjustEffect
    <2>4. CASE Finish("Ready")
      BY <1>0, <2>1, <2>4, FinishEffect DEF Phases
    <2>5. (Item \in Cached => seenObj[Item] \in Things) /\ obj[Item] \in Things
      BY <1>i DEF TypeOK
    <2> QED
      BY <1>1, <2>2, <2>3, <2>4, <2>5 DEF look
  <1>2. CASE createObject
    <2>1. obj' \in [Objects -> Things]
      BY <1>2, <1>i, DesiredType DEF createObject, TypeOK
    <2>2. CASE Written
      BY <1>0, <2>1, <2>2, AppliedEffect
    <2>3. CASE Finish("Failed")
      BY <1>0, <2>1, <2>3, FinishEffect DEF Phases
    <2>4. CASE at' = "reconcileExisting" /\ pass' = pass
      BY <1>0, <2>1, <2>4 DEF TypeOK
    <2> QED
      BY <1>2, <2>2, <2>3, <2>4 DEF createObject
  <1>3. CASE reconcileExisting
    <2>1. obj' \in [Objects -> Things] /\ obj[Item] \in Things
      BY <1>3, <1>i DEF reconcileExisting, TypeOK
    <2>2. CASE Adjust(obj[Item])
      BY <1>0, <2>1, <2>2, AdjustEffect
    <2>3. CASE Finish("Failed")
      BY <1>0, <2>1, <2>3, FinishEffect DEF Phases
    <2> QED
      BY <1>3, <2>2, <2>3 DEF reconcileExisting
  <1>4. CASE update
    <2>1. obj' \in [Objects -> Things]
      BY <1>4, <1>i, DesiredType DEF update, TypeOK
    <2>2. CASE Written
      BY <1>0, <2>1, <2>2, AppliedEffect
    <2>3. CASE Finish("Failed")
      BY <1>0, <2>1, <2>3, FinishEffect DEF Phases
    <2>4. CASE at' = "reconcileExisting" /\ pass' = [pass EXCEPT !.read = Missing]
      <3>1. Missing \in Things
        BY PlatformAssumption DEF Missing, Things
      <3> QED
        BY <1>0, <2>1, <2>4, <3>1 DEF TypeOK, Passes
    <2> QED
      BY <1>4, <2>2, <2>3, <2>4 DEF update
  <1>5. CASE delete
    <2>1. Missing \in Things
      BY PlatformAssumption DEF Missing, Things
    <2>2. obj' \in [Objects -> Things]
      BY <1>5, <1>i, <2>1 DEF delete, TypeOK
    <2>3. PICK ph \in Phases : Finish(ph)
      BY <1>5 DEF delete, Phases
    <2> QED
      BY <1>0, <2>2, <2>3, FinishEffect
  <1> QED
    BY <1>1, <1>2, <1>3, <1>4, <1>5

\* So does the failure of a call.
LEMMA CallFailsEffect ==
  ASSUME TypeOK, CallFails
  PROVE  WorkerType' /\ Keeps /\ at' \notin {"ownLease", "update"}
  <1> USE DEF WorkerType, Keeps, StepNames, ObjectSteps, AuthoritySteps, WriteSteps
  <1>1. CASE at \in AuthoritySteps /\ Return("Failed")
    BY <1>1, ReturnEffect DEF Phases
  <1>2. CASE at \in ObjectSteps /\ Finish("Failed")
    BY <1>2, FinishEffect DEF Phases
  <1> QED
    BY <1>1, <1>2 DEF CallFails

-----------------------------------------------------------------------------
(***************************************************************************)
(* Types.                                                                  *)
(***************************************************************************)

ClusterType ==
    /\ ne \in [Names -> NetEyes] /\ seenNe \in [Names -> NetEyes]
    /\ status \in [Names -> Phases]
    /\ uids \in 0..MaxUid
    /\ admitted \subseteq Names
    /\ lease \in Leases /\ seenLease \in Leases
    /\ obj \in [Objects -> Things] /\ seenObj \in [Cached -> Things]
    /\ settled \in BOOLEAN

\* The types of the cluster and those of the worker, apart.
LEMMA TypeParts == TypeOK <=> ClusterType /\ WorkerType
  BY DEF TypeOK, ClusterType, WorkerType, StepNames, ObjectSteps

\* Absent resources are well typed.
LEMMA EmptyTypes ==
  NoNetEye \in NetEyes /\ NoLease \in Leases /\ Missing \in Things /\ Squatter \in Things
  BY PlatformAssumption
     DEF NoNetEye, NetEyes, NoLease, Leases, Missing, Squatter, Things

\* A restarted process has nothing but fresh copies.
LEMMA RestartEffect ==
  ASSUME Restart, ne' \in [Names -> NetEyes], lease' \in Leases, obj' \in [Objects -> Things]
  PROVE  /\ WorkerType'
         /\ seenNe' \in [Names -> NetEyes] /\ seenLease' \in Leases
         /\ seenObj' \in [Cached -> Things]
  BY NoPassType DEF Restart, WorkerType, StepNames, ObjectSteps, WriteSteps, Cached

\* Every step keeps the types.
LEMMA TypeStep == TypeOK /\ [Next]_vars => TypeOK'
  <1> SUFFICES ASSUME TypeOK, [Next]_vars PROVE TypeOK'
    OBVIOUS
  <1>t. ClusterType /\ WorkerType
    BY TypeParts
  <1> SUFFICES (ClusterType /\ WorkerType)'
    BY TypeParts, PTL
  <1> USE DEF ClusterType
  <1>1. CASE UNCHANGED vars
    BY <1>1, <1>t DEF vars, WorkerType
  <1>2. ASSUME NEW n \in Names, Reconcile(n) PROVE (ClusterType /\ WorkerType)'
    <2>1. ClusterType'
      BY <1>2, <1>t DEF Reconcile, cacheVars, adminVars
    <2>2. [NoPass EXCEPT !.name = n, !.ne = seenNe[n]] \in Passes
      BY <1>t, NoPassType DEF Passes
    <2>3. pass' \in Passes /\ at' \in {"getLease", "updateStatus"}
      BY <1>2, <2>2 DEF Reconcile, Passes, Phases
    <2> QED
      BY <2>1, <2>3 DEF WorkerType, StepNames, ObjectSteps, WriteSteps, AuthoritySteps
  <1>3. CASE getLease \/ createLease \/ rereadLease \/ ownLease
    <2>1. UNCHANGED <<ne, status, obj, cacheVars, adminVars>>
      BY <1>3 DEF getLease, createLease, rereadLease, ownLease
    <2> QED
      BY <1>3, <1>t, <2>1, AuthorityStepEffect DEF cacheVars, adminVars
  <1>4. CASE look \/ createObject \/ reconcileExisting \/ update \/ delete
    <2>1. UNCHANGED <<ne, status, lease, cacheVars, adminVars>>
      BY <1>4 DEF look, createObject, reconcileExisting, update, delete
    <2> QED
      BY <1>4, <1>t, <2>1, ObjectStepEffect DEF cacheVars, adminVars
  <1>5. CASE updateStatus
    <2>1. ClusterType'
      BY <1>5, <1>t DEF updateStatus, cacheVars, adminVars, WorkerType, Passes
    <2>2. WorkerType'
      BY <1>5, NoPassType DEF updateStatus, WorkerType, StepNames, ObjectSteps, WriteSteps
    <2> QED
      BY <2>1, <2>2
  <1>6. CASE CallFails
    BY <1>6, <1>t, CallFailsEffect DEF CallFails, cacheVars, adminVars
  <1>7. ASSUME NEW n \in Names,
               \/ ValidateCreate(n) \/ Store(n) \/ Refuse(n)
               \/ ValidateUpdate(n) \/ DeleteNetEye(n) \/ SyncNetEye(n)
        PROVE  (ClusterType /\ WorkerType)'
    <2> USE DEF cacheVars, adminVars
    <2>0. WorkerType'
      BY <1>7, <1>t DEF ValidateCreate, Store, Refuse, ValidateUpdate, DeleteNetEye,
                        SyncNetEye, workerVars, WorkerType
    <2>1. CASE ValidateCreate(n) \/ Refuse(n)
      BY <2>0, <2>1, <1>t DEF ValidateCreate, Refuse
    <2>2. CASE Store(n)
      <3>1. uids + 1 \in 0..MaxUid
        <4>1. uids < MaxUid /\ uids \in 0..MaxUid /\ MaxUid \in Nat
          BY <2>2, <1>t, PlatformAssumption DEF Store
        <4> QED
          BY <4>1
      <3>2. PICK e \in BOOLEAN :
              ne' = [ne EXCEPT ![n] = [NoNetEye EXCEPT !.uid = uids + 1, !.enabled = e]]
        BY <2>2 DEF Store
      <3>3. [NoNetEye EXCEPT !.uid = uids + 1, !.enabled = e] \in NetEyes
        BY <3>1, EmptyTypes DEF NetEyes
      <3>4. ne' \in [Names -> NetEyes] /\ status' \in [Names -> Phases]
        BY <2>2, <3>2, <3>3, <1>t DEF Store, Phases
      <3> QED
        BY <2>0, <2>2, <3>1, <3>4, <1>t DEF Store
    <2>3. CASE ValidateUpdate(n)
      <3>1. ne' \in [Names -> NetEyes]
        BY <2>3, <1>t DEF ValidateUpdate, NetEyes
      <3> QED
        BY <2>0, <2>3, <3>1, <1>t DEF ValidateUpdate
    <2>4. CASE DeleteNetEye(n)
      BY <2>0, <2>4, <1>t, EmptyTypes DEF DeleteNetEye, Phases
    <2>5. CASE SyncNetEye(n)
      BY <2>0, <2>5, <1>t DEF SyncNetEye
    <2> QED
      BY <1>7, <2>1, <2>2, <2>3, <2>4, <2>5
  <1>8. ASSUME NEW o \in Objects,
               CollectObject(o) \/ Squat(o) \/ Drift(o) \/ SyncObject(o)
        PROVE  (ClusterType /\ WorkerType)'
    <2> USE DEF cacheVars, adminVars
    <2>0. WorkerType'
      BY <1>8, <1>t DEF CollectObject, Squat, Drift, SyncObject, workerVars, WorkerType
    <2>1. CASE CollectObject(o) \/ Squat(o)
      BY <2>0, <2>1, <1>t, EmptyTypes DEF CollectObject, Squat
    <2>2. CASE Drift(o)
      <3>1. obj' \in [Objects -> Things]
        BY <2>2, <1>t DEF Drift, Things
      <3> QED
        BY <2>0, <2>2, <3>1, <1>t DEF Drift
    <2>3. CASE SyncObject(o)
      BY <2>0, <2>3, <1>t DEF SyncObject
    <2> QED
      BY <1>8, <2>1, <2>2, <2>3
  <1>9. CASE CollectLease \/ Strip \/ SyncLease \/ Settle
    <2> USE DEF cacheVars, adminVars
    <2>0. WorkerType'
      BY <1>9, <1>t DEF CollectLease, Strip, SyncLease, Settle, workerVars, WorkerType
    <2>1. lease' \in Leases
      BY <1>9, <1>t, EmptyTypes DEF CollectLease, Strip, SyncLease, Settle, Leases
    <2> QED
      BY <1>9, <2>0, <2>1, <1>t DEF CollectLease, Strip, SyncLease, Settle
  <1>10. CASE Crash
    <2>1. ne' \in [Names -> NetEyes] /\ lease' \in Leases /\ obj' \in [Objects -> Things]
      BY <1>10, <1>t DEF Crash
    <2> QED
      BY <1>10, <2>1, <1>t, RestartEffect DEF Crash, adminVars
  <1>11. CASE Release
    <2>1. ne' \in [Names -> NetEyes]
      BY <1>11, <1>t DEF Release, NetEyes
    <2>2. lease' \in Leases /\ obj' \in [Objects -> Things]
      BY <1>11, <1>t DEF Release
    <2> QED
      BY <1>11, <2>1, <2>2, <1>t, RestartEffect DEF Release, adminVars
  <1> QED
    BY <1>1, <1>2, <1>3, <1>4, <1>5, <1>6, <1>7, <1>8, <1>9, <1>10, <1>11
       DEF Next, PassStep, Environment

\* The initial states are well typed.
LEMMA TypeInit == Init => TypeOK
  <1> SUFFICES ASSUME Init PROVE TypeOK
    OBVIOUS
  <1>1. WorkerType
    BY NoPassType DEF Init, WorkerType, StepNames, ObjectSteps, WriteSteps
  <1>2. obj \in [Objects -> Things]
    BY EmptyTypes DEF Init
  <1>3. seenObj \in [Cached -> Things]
    BY <1>2 DEF Init, Cached
  <1>4. uids \in 0..MaxUid
    <2>1. uids = 0 /\ MaxUid \in Nat
      BY PlatformAssumption DEF Init
    <2> QED
      BY <2>1
  <1>5. ClusterType
    BY <1>2, <1>3, <1>4, EmptyTypes DEF Init, ClusterType, Phases
  <1> QED
    BY <1>1, <1>5, TypeParts

\* The types of Platform, for every set of names and objects and every bound: a
\* pass never works on an object when none is left (runComponentOperations).
THEOREM PlatformTypeCorrect == Spec => []TypeOK
  BY TypeInit, TypeStep, PTL DEF Spec

-----------------------------------------------------------------------------
(***************************************************************************)
(* The single authority.  A NetEye that exists and is named as holder, be  *)
(* it by an old copy of the Lease, is the holder: its Lease cannot have    *)
(* been collected or taken over meanwhile, and UIDs are never given twice. *)
(***************************************************************************)

\* No UID is in use before it has been given out.
Fresh ==
    /\ \A n \in Names : ne[n].uid <= uids /\ seenNe[n].uid <= uids
    /\ lease.holder <= uids /\ seenLease.holder <= uids
    /\ pass.ne.uid <= uids
    /\ \A o \in Objects : obj[o].owner <= uids

CopyIsTrue == Live(seenLease.holder) => lease.holder = seenLease.holder

WorkIsAuthorised ==
    at \in ObjectSteps /\ Live(pass.ne.uid) => lease.holder = pass.ne.uid

\* What the pass carries to its next update.
Carried ==
    /\ at = "ownLease" => pass.lease.holder = pass.ne.uid
    /\ at = "update" => pass.read.owner = pass.ne.uid

AuthorityInv ==
    Fresh /\ CopyIsTrue /\ WorkIsAuthorised /\ SingleAuthority /\ Carried

IInv == TypeOK /\ AuthorityInv

\* No NetEye has the UID that stands for none.
LEMMA LiveNotZero == ~Live(0)
  BY DEF Live

\* The steps that decide about the Lease.
LEMMA AuthoritySteps_Inv ==
  ASSUME IInv, TypeOK', getLease \/ createLease \/ rereadLease \/ ownLease
  PROVE  AuthorityInv'
  <1>0. /\ UNCHANGED <<ne, seenNe, uids, seenLease, obj>>
        /\ Keeps /\ at' # "update" /\ at' # "idle"
    <2>1. UNCHANGED <<ne, seenNe, uids, seenLease, obj>>
      BY DEF getLease, createLease, rereadLease, ownLease, cacheVars, adminVars
    <2>2. Keeps /\ at' # "update"
      BY AuthorityStepEffect DEF IInv
    <2>3. at' # "idle"
      BY ReturnEffect, DecideEffect
         DEF getLease, createLease, rereadLease, ownLease, Return, Decide
    <2> QED
      BY <2>1, <2>2, <2>3
  <1>1. pass'.ne = pass.ne
    BY <1>0 DEF Keeps
  <1>2. \A u : Live(u)' <=> Live(u)
    BY <1>0 DEF Live
  <1>3. CASE lease'.holder = lease.holder
    <2>1. at' \in {"look", "ownLease"} /\ Live(pass.ne.uid) => lease.holder = pass.ne.uid
      <3>1. CASE getLease \/ rereadLease
        <4>1. at' \in {"look", "ownLease"} => Decide(seenLease)
          BY <3>1 DEF getLease, rereadLease, Return
        <4>2. at' \in {"look", "ownLease"} => seenLease.holder = pass.ne.uid
          BY <4>1, DecideEffect DEF IInv, TypeOK
        <4> QED
          BY <4>2 DEF IInv, AuthorityInv, CopyIsTrue
      <3>2. CASE createLease
        <4>1. at' \in {"look", "ownLease"} => Decide(lease') /\ lease' \in Leases
          BY <3>2, AuthorityStepEffect DEF createLease, Return, IInv
        <4>2. at' \in {"look", "ownLease"} => lease'.holder = pass.ne.uid
          BY <4>1, DecideEffect DEF IInv
        <4> QED
          BY <4>2, <1>3
      <3>3. CASE ownLease
        BY <3>3 DEF ownLease, Return, IInv, AuthorityInv, Carried
      <3> QED
        BY <3>1, <3>2, <3>3
    <2>2. at' = "ownLease" => pass'.lease.holder = pass'.ne.uid
      <3>1. CASE getLease \/ rereadLease
        <4>1. at' = "ownLease" => Decide(seenLease)
          BY <3>1 DEF getLease, rereadLease, Return
        <4> QED
          BY <4>1, <1>1, DecideEffect DEF IInv, TypeOK
      <3>2. CASE createLease
        <4>1. at' = "ownLease" => Decide(lease') /\ lease' \in Leases
          BY <3>2, AuthorityStepEffect DEF createLease, Return, IInv
        <4> QED
          BY <4>1, <1>1, DecideEffect DEF IInv
      <3>3. CASE ownLease
        BY <3>3 DEF ownLease, Return
      <3> QED
        BY <3>1, <3>2, <3>3
    <2>3. at' \in ObjectSteps => at' = "look"
      BY DEF getLease, createLease, rereadLease, ownLease, Decide, Return,
             ObjectSteps, WriteSteps
    <2>4. Fresh' /\ CopyIsTrue' /\ SingleAuthority'
      BY <1>0, <1>1, <1>2, <1>3
         DEF IInv, AuthorityInv, Fresh, CopyIsTrue, SingleAuthority
    <2>5. WorkIsAuthorised'
      BY <1>1, <1>2, <1>3, <2>1, <2>3 DEF WorkIsAuthorised
    <2> QED
      BY <1>0, <2>2, <2>4, <2>5 DEF AuthorityInv, Carried
  <1>4. CASE lease'.holder # lease.holder
    <2>1. createLease /\ lease = NoLease
      BY <1>4 DEF getLease, createLease, rereadLease, ownLease, IInv, TypeOK, Leases
    <2>2. lease' = [holder |-> pass.ne.uid, owned |-> TRUE]
      BY <2>1 DEF createLease
    <2>3. lease.holder = 0
      BY <2>1 DEF NoLease
    <2>4. \A u : u \in {seenLease.holder} \cup {obj[o].owner : o \in Objects} => ~Live(u)
      BY <2>3, LiveNotZero DEF IInv, AuthorityInv, CopyIsTrue, SingleAuthority
    <2>5. CopyIsTrue' /\ SingleAuthority'
      BY <1>0, <1>2, <2>4 DEF CopyIsTrue, SingleAuthority
    <2>6. Fresh'
      BY <1>0, <1>1, <2>2 DEF IInv, AuthorityInv, Fresh
    <2>7. WorkIsAuthorised'
      BY <1>1, <2>2 DEF WorkIsAuthorised
    <2>8. at' # "ownLease"
      BY <2>1, <2>2 DEF createLease, Decide, Return
    <2> QED
      BY <1>0, <2>5, <2>6, <2>7, <2>8 DEF AuthorityInv, Carried
  <1> QED
    BY <1>3, <1>4

\* The steps that read and write the objects.
LEMMA ObjectSteps_Inv ==
  ASSUME IInv, TypeOK', look \/ createObject \/ reconcileExisting \/ update \/ delete
  PROVE  AuthorityInv'
  <1>0. at \in ObjectSteps
    BY DEF look, createObject, reconcileExisting, update, delete, ObjectSteps, WriteSteps
  <1>1. UNCHANGED <<ne, seenNe, uids, lease, seenLease>>
    BY DEF look, createObject, reconcileExisting, update, delete, cacheVars, adminVars
  <1>2. /\ pass'.ne = pass.ne /\ at' # "ownLease"
        /\ at' = "update" => pass'.read.owner = pass'.ne.uid
    <2>1. Keeps /\ at' # "ownLease" /\ (at' = "update" => pass'.read.owner = pass'.ne.uid)
      BY ObjectStepEffect DEF IInv
    <2>2. at' # "idle"
      BY DEF look, createObject, reconcileExisting, update, delete, Adjust, Written,
             Applied, Finish, Return
    <2> QED
      BY <2>1, <2>2 DEF Keeps
  <1>3. Item \in Objects
    BY <1>0, ItemLeft DEF IInv
  <1>4. \A u : Live(u)' <=> Live(u)
    BY <1>1 DEF Live
  <1>5. \A o \in Objects : obj'[o].owner \in {0, obj[o].owner, pass.ne.uid}
    <2>1. Desired(Item, pass.ne).owner = pass.ne.uid
      BY <1>3, DesiredType DEF IInv
    <2>2. CASE look \/ reconcileExisting
      BY <2>2 DEF look, reconcileExisting
    <2>3. CASE createObject \/ update
      BY <2>1, <2>3, <1>3 DEF createObject, update, IInv, TypeOK
    <2>4. CASE delete
      BY <2>4, <1>3 DEF delete, Missing, IInv, TypeOK
    <2> QED
      BY <2>2, <2>3, <2>4
  <1>6. Fresh'
    <2>1. 0 <= uids
      BY DEF IInv, TypeOK
    <2> QED
      BY <1>1, <1>2, <1>5, <2>1 DEF IInv, AuthorityInv, Fresh
  <1>7. CopyIsTrue' /\ WorkIsAuthorised'
    BY <1>0, <1>1, <1>2, <1>4
       DEF IInv, AuthorityInv, CopyIsTrue, WorkIsAuthorised
  <1>8. SingleAuthority'
    BY <1>0, <1>1, <1>4, <1>5, LiveNotZero
       DEF IInv, AuthorityInv, SingleAuthority, WorkIsAuthorised
  <1> QED
    BY <1>2, <1>6, <1>7, <1>8 DEF AuthorityInv, Carried

\* A worker that becomes idle, or starts a pass, carries nothing.
LEMMA Quiet ==
  ASSUME at' \in {"idle", "getLease", "updateStatus"}
  PROVE  WorkIsAuthorised' /\ Carried'
  BY DEF WorkIsAuthorised, Carried, ObjectSteps, WriteSteps

\* Restarting brings the copies up to date.
LEMMA Restart_Inv ==
  ASSUME IInv, Restart, UNCHANGED <<uids, lease, obj>>,
         \A n \in Names : ne'[n].uid = ne[n].uid
  PROVE  AuthorityInv'
  <1>1. \A u : Live(u)' <=> Live(u)
    BY DEF Live
  <1>2. pass'.ne.uid = 0 /\ at' = "idle"
    BY DEF Restart, NoPass, NoNetEye
  <1>3. Fresh'
    <2>1. 0 <= uids
      BY DEF IInv, TypeOK
    <2> QED
      BY <1>2, <2>1 DEF Restart, IInv, AuthorityInv, Fresh
  <1>4. CopyIsTrue' /\ SingleAuthority'
    BY <1>1 DEF Restart, IInv, AuthorityInv, CopyIsTrue, SingleAuthority
  <1> QED
    BY <1>2, <1>3, <1>4, Quiet DEF AuthorityInv

\* Every step keeps the authority invariant.
LEMMA AuthorityStep == IInv /\ [Next]_vars => AuthorityInv'
  <1> SUFFICES ASSUME IInv, [Next]_vars PROVE AuthorityInv'
    OBVIOUS
  <1>t. TypeOK'
    BY TypeStep DEF IInv
  <1>z. 0 <= uids
    BY DEF IInv, TypeOK
  <1>1. CASE UNCHANGED vars
    <2>1. \A u : Live(u)' <=> Live(u)
      BY <1>1 DEF vars, Live
    <2> QED
      BY <1>1, <2>1 DEF vars, IInv, AuthorityInv, Fresh, CopyIsTrue, WorkIsAuthorised,
                        SingleAuthority, Carried
  <1>2. ASSUME NEW n \in Names, Reconcile(n) PROVE AuthorityInv'
    <2>1. at' \in {"getLease", "updateStatus"} /\ pass'.ne = seenNe[n]
      BY <1>2 DEF Reconcile, NoPass
    <2>2. UNCHANGED <<ne, seenNe, uids, lease, seenLease, obj>>
      BY <1>2 DEF Reconcile, cacheVars, adminVars
    <2>3. \A u : Live(u)' <=> Live(u)
      BY <2>2 DEF Live
    <2>4. Fresh' /\ CopyIsTrue' /\ SingleAuthority'
      BY <2>1, <2>2, <2>3 DEF IInv, AuthorityInv, Fresh, CopyIsTrue, SingleAuthority
    <2> QED
      BY <2>1, <2>4, Quiet DEF AuthorityInv
  <1>3. CASE getLease \/ createLease \/ rereadLease \/ ownLease
    BY <1>3, <1>t, AuthoritySteps_Inv
  <1>4. CASE look \/ createObject \/ reconcileExisting \/ update \/ delete
    BY <1>4, <1>t, ObjectSteps_Inv
  <1>5. CASE updateStatus
    <2>1. at' = "idle" /\ pass'.ne.uid = 0
      BY <1>5 DEF updateStatus, NoPass, NoNetEye
    <2>2. UNCHANGED <<ne, seenNe, uids, lease, seenLease, obj>>
      BY <1>5 DEF updateStatus, cacheVars, adminVars
    <2>3. \A u : Live(u)' <=> Live(u)
      BY <2>2 DEF Live
    <2>4. Fresh' /\ CopyIsTrue' /\ SingleAuthority'
      BY <1>z, <2>1, <2>2, <2>3 DEF IInv, AuthorityInv, Fresh, CopyIsTrue, SingleAuthority
    <2> QED
      BY <2>1, <2>4, Quiet DEF AuthorityInv
  <1>6. CASE CallFails
    <2>1. at' \notin {"ownLease", "update", "idle"} /\ pass'.ne = pass.ne
      <3>1. Keeps /\ at' \notin {"ownLease", "update"}
        BY <1>6, CallFailsEffect DEF IInv
      <3>2. at' # "idle"
        BY <1>6 DEF CallFails, Return, Finish
      <3> QED
        BY <3>1, <3>2 DEF Keeps
    <2>2. at' \in ObjectSteps => at \in ObjectSteps
      BY <1>6 DEF CallFails, Return, ObjectSteps, WriteSteps
    <2>3. UNCHANGED <<ne, seenNe, uids, lease, seenLease, obj>>
      BY <1>6 DEF CallFails, cacheVars, adminVars
    <2>4. \A u : Live(u)' <=> Live(u)
      BY <2>3 DEF Live
    <2> QED
      BY <2>1, <2>2, <2>3, <2>4
         DEF IInv, AuthorityInv, Fresh, CopyIsTrue, WorkIsAuthorised, SingleAuthority,
             Carried
  <1>7. ASSUME NEW n \in Names, ValidateCreate(n) \/ Refuse(n) \/ SyncNetEye(n)
        PROVE  AuthorityInv'
    <2>1. UNCHANGED <<ne, uids, lease, seenLease, obj, at, pass>>
      BY <1>7 DEF ValidateCreate, Refuse, SyncNetEye, cacheVars, workerVars, adminVars
    <2>2. \A m \in Names : seenNe'[m] \in {seenNe[m], ne[m]}
      BY <1>7 DEF ValidateCreate, Refuse, SyncNetEye, cacheVars, IInv, TypeOK
    <2>3. \A u : Live(u)' <=> Live(u)
      BY <2>1 DEF Live
    <2>4. Fresh'
      BY <2>1, <2>2 DEF IInv, AuthorityInv, Fresh
    <2> QED
      BY <2>1, <2>3, <2>4
         DEF IInv, AuthorityInv, CopyIsTrue, WorkIsAuthorised, SingleAuthority, Carried
  <1>8. ASSUME NEW n \in Names, Store(n) PROVE AuthorityInv'
    <2>1. UNCHANGED <<seenNe, lease, seenLease, obj, at, pass>> /\ uids' = uids + 1
      BY <1>8 DEF Store, cacheVars, workerVars
    <2>2. \A m \in Names : ne'[m].uid = IF m = n THEN uids + 1 ELSE ne[m].uid
      BY <1>8 DEF Store, NoNetEye, IInv, TypeOK
    <2>3. \A u : Live(u)' => Live(u) \/ u = uids + 1
      BY <2>2 DEF Live
    <2>u. uids \in Nat
      BY PlatformAssumption DEF IInv, TypeOK
    <2>4. Fresh'
      <3>1. \A m \in Names : ne'[m].uid <= uids + 1 /\ seenNe'[m].uid <= uids + 1
        BY <2>1, <2>2, <2>u DEF IInv, TypeOK, NetEyes, AuthorityInv, Fresh
      <3>2. /\ lease'.holder <= uids + 1 /\ seenLease'.holder <= uids + 1
            /\ pass'.ne.uid <= uids + 1
        BY <2>1, <2>u DEF IInv, TypeOK, Leases, Passes, NetEyes, AuthorityInv, Fresh
      <3>3. \A o \in Objects : obj'[o].owner <= uids + 1
        BY <2>1, <2>u DEF IInv, TypeOK, Things, AuthorityInv, Fresh
      <3> QED
        BY <2>1, <3>1, <3>2, <3>3 DEF Fresh
    <2>5. /\ seenLease.holder # uids + 1 /\ pass.ne.uid # uids + 1
          /\ \A o \in Objects : obj[o].owner # uids + 1
      BY <2>u DEF IInv, TypeOK, Leases, Passes, NetEyes, Things, AuthorityInv, Fresh
    <2> QED
      BY <2>1, <2>3, <2>4, <2>5
         DEF IInv, AuthorityInv, CopyIsTrue, WorkIsAuthorised, SingleAuthority, Carried
  <1>9. ASSUME NEW n \in Names, ValidateUpdate(n) \/ DeleteNetEye(n) PROVE AuthorityInv'
    <2>1. UNCHANGED <<seenNe, uids, lease, seenLease, obj, at, pass>>
      BY <1>9 DEF ValidateUpdate, DeleteNetEye, cacheVars, workerVars
    <2>2. \A m \in Names : ne'[m].uid \in {0, ne[m].uid}
      <3>0. ne \in [Names -> NetEyes]
        BY DEF IInv, TypeOK
      <3>1. CASE ValidateUpdate(n)
        BY <3>0, <3>1 DEF ValidateUpdate, NetEyes
      <3>2. CASE DeleteNetEye(n)
        BY <3>0, <3>2 DEF DeleteNetEye, NoNetEye
      <3> QED
        BY <1>9, <3>1, <3>2
    <2>3. \A u : Live(u)' => Live(u)
      BY <2>2 DEF Live
    <2>4. Fresh'
      BY <1>z, <2>1, <2>2 DEF IInv, AuthorityInv, Fresh
    <2> QED
      BY <2>1, <2>3, <2>4
         DEF IInv, AuthorityInv, CopyIsTrue, WorkIsAuthorised, SingleAuthority, Carried
  <1>10. ASSUME NEW o \in Objects,
                CollectObject(o) \/ Squat(o) \/ Drift(o) \/ SyncObject(o)
         PROVE  AuthorityInv'
    <2>1. UNCHANGED <<ne, seenNe, uids, lease, seenLease, at, pass>>
      BY <1>10 DEF CollectObject, Squat, Drift, SyncObject, cacheVars, workerVars, adminVars
    <2>2. \A q \in Objects : obj'[q].owner \in {0, obj[q].owner}
      BY <1>10 DEF CollectObject, Squat, Drift, SyncObject, Missing, Squatter, IInv, TypeOK,
                   Things
    <2>3. \A u : Live(u)' <=> Live(u)
      BY <2>1 DEF Live
    <2>4. Fresh'
      BY <1>z, <2>1, <2>2 DEF IInv, AuthorityInv, Fresh
    <2> QED
      BY <2>1, <2>2, <2>3, <2>4, LiveNotZero
         DEF IInv, AuthorityInv, CopyIsTrue, WorkIsAuthorised, SingleAuthority, Carried
  <1>11. CASE CollectLease
    <2>1. UNCHANGED <<ne, seenNe, uids, seenLease, obj, at, pass>> /\ ~Live(lease.holder)
      BY <1>11 DEF CollectLease, cacheVars, workerVars, adminVars
    <2>2. \A u : Live(u)' <=> Live(u)
      BY <2>1 DEF Live
    <2>3. lease'.holder = 0
      BY <1>11 DEF CollectLease, NoLease
    <2>4. Fresh'
      BY <1>z, <2>1, <2>3 DEF IInv, AuthorityInv, Fresh
    <2> QED
      BY <2>1, <2>2, <2>4
         DEF IInv, AuthorityInv, CopyIsTrue, WorkIsAuthorised, SingleAuthority, Carried
  <1>12. CASE Strip \/ SyncLease \/ Settle
    <2>1. UNCHANGED <<ne, seenNe, uids, obj, at, pass>>
      BY <1>12 DEF Strip, SyncLease, Settle, cacheVars, workerVars, adminVars
    <2>2. \A u : Live(u)' <=> Live(u)
      BY <2>1 DEF Live
    <2>3. lease'.holder = lease.holder /\ seenLease'.holder \in {lease.holder, seenLease.holder}
      BY <1>12 DEF Strip, SyncLease, Settle, cacheVars, IInv, TypeOK, Leases
    <2> QED
      BY <2>1, <2>2, <2>3
         DEF IInv, AuthorityInv, Fresh, CopyIsTrue, WorkIsAuthorised, SingleAuthority,
             Carried
  <1>13. CASE Crash
    <2>1. UNCHANGED <<ne, uids, lease, obj>> /\ Restart
      BY <1>13 DEF Crash, adminVars
    <2> QED
      BY <2>1, Restart_Inv
  <1>14. CASE Release
    <2>1. UNCHANGED <<uids, lease, obj>> /\ Restart
      BY <1>14 DEF Release, adminVars
    <2>2. \A n \in Names : ne'[n].uid = ne[n].uid
      BY <1>14 DEF Release, IInv, TypeOK, NetEyes
    <2> QED
      BY <2>1, <2>2, Restart_Inv
  <1> QED
    BY <1>1, <1>2, <1>3, <1>4, <1>5, <1>6, <1>7, <1>8, <1>9, <1>10, <1>11, <1>12, <1>13,
       <1>14
       DEF Next, PassStep, Environment

\* The initial states satisfy the invariant.
LEMMA IInvInit == Init => IInv
  <1> SUFFICES ASSUME Init PROVE IInv
    OBVIOUS
  <1>1. TypeOK
    BY TypeInit
  <1>2. \A u : ~Live(u)
    BY DEF Init, Live, NoNetEye
  <1>3. \A o \in Objects : obj[o].owner = 0
    <2>1. \A o \in Objects : obj[o] \in {Missing, Squatter}
      BY DEF Init
    <2>2. Missing.owner = 0 /\ Squatter.owner = 0
      BY DEF Missing, Squatter
    <2> QED
      BY <2>1, <2>2
  <1>4. Fresh
    <2>1. NoNetEye.uid = 0 /\ NoLease.holder = 0 /\ NoPass.ne.uid = 0
      BY DEF NoNetEye, NoLease, NoPass
    <2>2. 0 <= 0
      OBVIOUS
    <2> QED
      BY <1>3, <2>1, <2>2 DEF Init, Fresh
  <1> QED
    BY <1>1, <1>2, <1>4
       DEF Init, IInv, AuthorityInv, CopyIsTrue, WorkIsAuthorised, SingleAuthority, Carried

\* The inductive invariant of Platform: copies of the Lease that are behind are
\* still true of its holder, and a pass that works on objects holds the Lease or
\* its NetEye is gone (IInv).
THEOREM PlatformInvariant == Spec => []IInv
  <1>1. IInv /\ [Next]_vars => IInv'
    BY TypeStep, AuthorityStep DEF IInv
  <1> QED
    BY IInvInit, <1>1, PTL DEF Spec

\* However many NetEyes the webhook lets through and however stale the copies a
\* pass reads, what belongs to an existing NetEye belongs to the Lease holder.
THEOREM OneAuthority == Spec => []SingleAuthority
  <1>1. IInv => SingleAuthority
    BY DEF IInv, AuthorityInv
  <1> QED
    BY PlatformInvariant, <1>1, PTL

\* No step hands an existing object from one owner to another.
LEMMA HandsStep == IInv /\ [Next]_vars => [\A o \in Objects : ~ChangesHands(o)]_vars
  <1> SUFFICES ASSUME IInv, Next, NEW o \in Objects, obj[o].there, obj'[o].there
               PROVE  obj'[o].owner = obj[o].owner
    BY DEF ChangesHands
  <1>1. CASE UNCHANGED obj
    BY <1>1
  <1>2. CASE createObject \/ update
    <2>0. at \in ObjectSteps
      BY <1>2 DEF createObject, update, ObjectSteps, WriteSteps
    <2>1. Item \in Objects
      BY <2>0, ItemLeft DEF IInv
    <2>2. Desired(Item, pass.ne).owner = pass.ne.uid
      BY <2>1, DesiredType DEF IInv
    <2>3. CASE createObject
      BY <2>1, <2>3 DEF createObject, IInv, TypeOK
    <2>4. CASE update
      BY <2>1, <2>2, <2>4 DEF update, IInv, TypeOK, AuthorityInv, Carried
    <2> QED
      BY <1>2, <2>3, <2>4
  <1>3. CASE delete
    BY <1>3 DEF delete, Missing, IInv, TypeOK
  <1>4. CASE \E q \in Objects : CollectObject(q) \/ Squat(q) \/ Drift(q)
    BY <1>4 DEF CollectObject, Squat, Drift, Missing, Squatter, IInv, TypeOK, Things
  <1>5. \/ UNCHANGED obj \/ createObject \/ update \/ delete
        \/ \E q \in Objects : CollectObject(q) \/ Squat(q) \/ Drift(q)
    BY DEF Next, PassStep, Environment, Reconcile, CallFails, getLease, createLease,
           rereadLease, ownLease, look, reconcileExisting, updateStatus, ValidateCreate,
           Store, Refuse, ValidateUpdate, DeleteNetEye, SyncNetEye, SyncObject,
           CollectLease, Strip, SyncLease, Crash, Release, Settle
  <1> QED
    BY <1>1, <1>2, <1>3, <1>4, <1>5

\* No pass adopts an object that exists and is not its NetEye's.
THEOREM NothingAdopted == Spec => NeverAdopts
  <1>1. Spec => []IInv
    BY PlatformInvariant
  <1> QED
    BY <1>1, HandsStep, PTL DEF Spec, NeverAdopts

-----------------------------------------------------------------------------
(***************************************************************************)
(* The controller implements Authority.                                    *)
(***************************************************************************)

aliveNow == {ne[n].uid : n \in Names} \ {0}

ownerOf(o) == IF obj[o].there THEN obj[o].owner ELSE 0

\* A step after which the same NetEyes live, hold the Lease and own the objects is
\* none of Authority's.
LEMMA OfficeUnseen ==
  ASSUME aliveNow' = aliveNow, lease'.holder = lease.holder,
         \A o \in Objects : ownerOf(o)' = ownerOf(o)
  PROVE  [Office!Next]_(Office!vars)
  BY DEF aliveNow, ownerOf, Office!vars

\* Those who live are the UIDs that some name has.
LEMMA AliveIsLive == \A u : u \in aliveNow <=> Live(u)
  BY DEF aliveNow, Live

\* Whoever holds the Lease, or is gone, may take what is nobody's, and write again
\* what is theirs.
LEMMA OfficeTake ==
  ASSUME IInv, NEW i \in Objects, NEW u \in 0..MaxUid, lease.holder = u \/ ~Live(u),
         NEW o1, o1.there, o1.owner = u, ~obj[i].there \/ obj[i].owner = u,
         obj' = [obj EXCEPT ![i] = o1], UNCHANGED <<ne, lease>>
  PROVE  [Office!Next]_(Office!vars)
  <1>1. aliveNow' = aliveNow /\ lease' = lease
    BY DEF aliveNow
  <1>2. /\ ownerOf(i) \in {0, u} /\ ownerOf(i)' = u
        /\ \A o \in Objects \ {i} : ownerOf(o)' = ownerOf(o)
    BY DEF ownerOf, IInv, TypeOK
  <1>3. CASE ownerOf(i) = u
    BY <1>1, <1>2, <1>3, OfficeUnseen
  <1>4. CASE ownerOf(i) # u
    <2>1. ownerOf(i) = 0 /\ u \in 1..MaxUid
      BY <1>2, <1>4, PlatformAssumption
    <2>2. lease.holder = u \/ u \notin aliveNow
      BY AliveIsLive
    <2>3. [o \in Objects |-> ownerOf(o)]'
             = [[o \in Objects |-> ownerOf(o)] EXCEPT ![i] = u]
      BY <1>2
    <2>4. Office!Take(i, u)
      BY <1>1, <2>1, <2>2, <2>3 DEF Office!Take, aliveNow, ownerOf
    <2> QED
      BY <2>1, <2>4 DEF Office!Next, Office!Take
  <1> QED
    BY <1>3, <1>4

\* A write of an object by a pass takes it, or leaves it with its owner: the pass
\* holds the Lease, or its NetEye is gone.
LEMMA OfficeWrite ==
  ASSUME IInv, createObject \/ update
  PROVE  [Office!Next]_(Office!vars)
  <1>0. at \in ObjectSteps
    BY DEF createObject, update, ObjectSteps, WriteSteps
  <1>1. Item \in Objects
    BY <1>0, ItemLeft DEF IInv
  <1>2. UNCHANGED <<ne, lease>>
    BY DEF createObject, update
  <1>3. CASE UNCHANGED obj
    BY <1>2, <1>3, OfficeUnseen DEF aliveNow, ownerOf
  <1>4. CASE /\ obj' = [obj EXCEPT ![Item] = Desired(Item, pass.ne)]
             /\ ~obj[Item].there \/ obj[Item].owner = pass.ne.uid
    <2>1. /\ Desired(Item, pass.ne).there
          /\ Desired(Item, pass.ne).owner = pass.ne.uid
      BY <1>1, DesiredType DEF IInv, Desired
    <2>2. pass.ne.uid \in 0..MaxUid
      BY DEF IInv, TypeOK, Passes, NetEyes
    <2>3. lease.holder = pass.ne.uid \/ ~Live(pass.ne.uid)
      BY <1>0 DEF IInv, AuthorityInv, WorkIsAuthorised
    <2> QED
      BY <1>1, <1>2, <1>4, <2>1, <2>2, <2>3, OfficeTake
  <1> QED
    BY <1>3, <1>4 DEF createObject, update, IInv, AuthorityInv, Carried

\* Whatever goes, or comes without an owner, is dropped, and a change of an object
\* that keeps its owner is none of Authority's.
LEMMA OfficeDrop ==
  ASSUME IInv, NEW i \in Objects, NEW o1, o1.there => o1.owner \in {0, obj[i].owner},
         o1.there => obj[i].there \/ o1.owner = 0,
         obj' = [obj EXCEPT ![i] = o1], UNCHANGED <<ne, lease>>
  PROVE  [Office!Next]_(Office!vars)
  <1>1. aliveNow' = aliveNow /\ lease' = lease
    BY DEF aliveNow
  <1>2. /\ ownerOf(i)' \in {0, ownerOf(i)}
        /\ \A o \in Objects \ {i} : ownerOf(o)' = ownerOf(o)
    BY DEF ownerOf, IInv, TypeOK
  <1>3. CASE ownerOf(i)' = ownerOf(i)
    BY <1>1, <1>2, <1>3, OfficeUnseen
  <1>4. CASE ownerOf(i)' = 0
    <2>1. [o \in Objects |-> ownerOf(o)]'
             = [[o \in Objects |-> ownerOf(o)] EXCEPT ![i] = 0]
      BY <1>2, <1>4
    <2>2. Office!Drop(i)
      BY <1>1, <2>1 DEF Office!Drop, aliveNow, ownerOf
    <2> QED
      BY <2>2 DEF Office!Next, Office!Drop
  <1> QED
    BY <1>2, <1>3, <1>4

\* Every step is one of Authority's, or none.
LEMMA OfficeStep == IInv /\ [Next]_vars => [Office!Next]_(Office!vars)
  <1> SUFFICES ASSUME IInv, [Next]_vars PROVE [Office!Next]_(Office!vars)
    OBVIOUS
  <1>t. /\ ne \in [Names -> NetEyes] /\ obj \in [Objects -> Things]
        /\ lease \in Leases /\ uids \in 0..MaxUid
    BY DEF IInv, TypeOK
  <1>1. ASSUME UNCHANGED obj, lease'.holder = lease.holder,
               \A n \in Names : ne'[n].uid = ne[n].uid
        PROVE  [Office!Next]_(Office!vars)
    BY <1>1, OfficeUnseen DEF aliveNow, ownerOf
  <1>2. CASE createObject \/ update
    BY <1>2, OfficeWrite
  <1>3. CASE delete
    <2>1. Item \in Objects
      BY <1>3, ItemLeft DEF delete, IInv, ObjectSteps, WriteSteps
    <2> QED
      BY <1>3, <2>1, OfficeDrop DEF delete, Missing
  <1>4. ASSUME NEW o \in Objects, CollectObject(o) \/ Squat(o) \/ Drift(o)
        PROVE  [Office!Next]_(Office!vars)
    <2>1. CASE CollectObject(o)
      BY <2>1, OfficeDrop DEF CollectObject, Missing
    <2>2. CASE Squat(o)
      <3>1. PICK o1 \in {Missing, Squatter} : obj' = [obj EXCEPT ![o] = o1]
        BY <2>2 DEF Squat
      <3> QED
        BY <2>2, <3>1, OfficeDrop DEF Squat, Missing, Squatter
    <2>3. CASE Drift(o)
      <3>1. obj' = [obj EXCEPT ![o] = [obj[o] EXCEPT !.spec = ~obj[o].spec]]
        BY <2>3 DEF Drift
      <3>2. [obj[o] EXCEPT !.spec = ~obj[o].spec].owner = obj[o].owner
        BY <1>t DEF Things
      <3> QED
        BY <2>3, <3>1, <3>2, OfficeDrop DEF Drift
    <2> QED
      BY <1>4, <2>1, <2>2, <2>3
  <1>5. CASE createLease
    <2>1. UNCHANGED <<ne, obj>>
      BY <1>5 DEF createLease
    <2>2. CASE lease'.holder = lease.holder
      BY <1>1, <2>1, <2>2
    <2>3. CASE lease'.holder # lease.holder
      <3>1. lease = NoLease /\ lease'.holder = pass.ne.uid
        BY <1>5, <2>3 DEF createLease
      <3>2. lease.holder = 0 /\ pass.ne.uid \in 1..MaxUid
        BY <2>3, <3>1, PlatformAssumption DEF NoLease, IInv, TypeOK, Passes, NetEyes
      <3>3. Office!Acquire(pass.ne.uid)
        BY <2>1, <3>1, <3>2 DEF Office!Acquire
      <3> QED
        BY <3>2, <3>3 DEF Office!Next, Office!Acquire
    <2> QED
      BY <2>2, <2>3
  <1>6. CASE CollectLease
    <2>1. /\ UNCHANGED <<ne, obj>> /\ lease'.holder = 0
          /\ lease.holder \notin aliveNow
      BY <1>6, AliveIsLive DEF CollectLease, NoLease
    <2>2. Office!Lapse
      BY <2>1 DEF Office!Lapse, aliveNow
    <2> QED
      BY <2>2 DEF Office!Next, Office!Lapse
  <1>7. ASSUME NEW n \in Names, Store(n) PROVE [Office!Next]_(Office!vars)
    <2> DEFINE u == uids + 1
    <2>1. /\ UNCHANGED <<lease, obj>> /\ ne[n].uid = 0 /\ ne'[n].uid = u
          /\ \A m \in Names \ {n} : ne'[m].uid = ne[m].uid
      BY <1>t, <1>7 DEF Store, NoNetEye
    <2>2. u \in 1..MaxUid /\ u # 0
      <3>1. uids < MaxUid
        BY <1>7 DEF Store
      <3> QED
        BY <1>t, <3>1, PlatformAssumption
    <2>3. lease.holder # u /\ \A o \in Objects : ownerOf(o) # u
      BY <1>t DEF IInv, AuthorityInv, Fresh, ownerOf, Leases, Things
    <2> HIDE DEF u
    <2>4. aliveNow' = aliveNow \cup {u}
      BY <2>1, <2>2 DEF aliveNow
    <2>5. Office!Born(u)
      BY <2>1, <2>3, <2>4 DEF Office!Born, aliveNow, ownerOf
    <2> QED
      BY <2>2, <2>5 DEF Office!Next, Office!Born
  <1>8. ASSUME NEW n \in Names, DeleteNetEye(n) PROVE [Office!Next]_(Office!vars)
    <2> DEFINE u == ne[n].uid
    <2>1. /\ UNCHANGED <<lease, obj>> /\ u # 0 /\ ne'[n].uid = 0
          /\ \A m \in Names \ {n} : ne'[m].uid = ne[m].uid
      BY <1>t, <1>8 DEF DeleteNetEye, NoNetEye
    <2>2. u \in 1..MaxUid
      BY <1>t, <2>1, PlatformAssumption DEF NetEyes
    <2>3. CASE \E m \in Names \ {n} : ne[m].uid = u
      <3>1. aliveNow' = aliveNow
        BY <2>1, <2>3 DEF aliveNow
      <3> QED
        BY <2>1, <3>1, OfficeUnseen DEF ownerOf
    <2>4. CASE ~\E m \in Names \ {n} : ne[m].uid = u
      <3>1. aliveNow' = aliveNow \ {u}
        BY <2>1, <2>4 DEF aliveNow
      <3> HIDE DEF u
      <3>2. Office!Die(u)
        BY <2>1, <3>1 DEF Office!Die, aliveNow
      <3> QED
        BY <2>2, <3>2 DEF Office!Next, Office!Die
    <2> QED
      BY <2>3, <2>4
  <1>9. CASE \/ Release \/ ownLease \/ Strip \/ \E n \in Names : ValidateUpdate(n)
    <2>1. UNCHANGED obj /\ lease'.holder = lease.holder
      BY <1>t, <1>9 DEF Release, ownLease, Strip, ValidateUpdate, Leases
    <2>2. \A n \in Names : ne'[n].uid = ne[n].uid
      <3>1. CASE Release
        BY <1>t, <3>1 DEF Release, NetEyes
      <3>2. CASE ownLease \/ Strip
        BY <3>2 DEF ownLease, Strip
      <3>3. ASSUME NEW n \in Names, ValidateUpdate(n)
            PROVE  \A m \in Names : ne'[m].uid = ne[m].uid
        BY <1>t, <3>3 DEF ValidateUpdate, NetEyes
      <3> QED
        BY <1>9, <3>1, <3>2, <3>3
    <2> QED
      BY <1>1, <2>1, <2>2
  <1>10. CASE UNCHANGED <<ne, lease, obj>>
    BY <1>1, <1>10
  <1>11. \/ UNCHANGED <<ne, lease, obj>>
         \/ createObject \/ update \/ delete \/ createLease \/ CollectLease
         \/ Release \/ ownLease \/ Strip
         \/ \E n \in Names : ValidateUpdate(n) \/ Store(n) \/ DeleteNetEye(n)
         \/ \E o \in Objects : CollectObject(o) \/ Squat(o) \/ Drift(o)
    BY DEF Next, vars, PassStep, Environment, Reconcile, CallFails, getLease, rereadLease,
           look, reconcileExisting, updateStatus, ValidateCreate, Refuse, SyncNetEye,
           SyncObject, SyncLease, Crash, Settle
  <1> QED
    BY <1>2, <1>3, <1>4, <1>5, <1>6, <1>7, <1>8, <1>9, <1>10, <1>11

\* For any number of NetEyes, names and objects, the Lease works as the office that
\* Authority describes: no living holder loses it, only its death vacates it, and a
\* living NetEye takes nothing without it (KeepsOffice).
THEOREM ImplementsAuthority == Spec => KeepsOffice
  <1>1. Init => Office!Init
    <2> SUFFICES ASSUME Init PROVE Office!Init
      OBVIOUS
    <2>1. aliveNow = {} /\ lease.holder = 0
      BY DEF Init, aliveNow, NoNetEye, NoLease
    <2>2. \A o \in Objects : ownerOf(o) = 0
      <3>1. \A o \in Objects : obj[o] \in {Missing, Squatter}
        BY DEF Init
      <3> QED
        BY <3>1 DEF ownerOf, Missing, Squatter
    <2> QED
      BY <2>1, <2>2 DEF Office!Init, aliveNow, ownerOf
  <1> QED
    BY <1>1, OfficeStep, PlatformInvariant, PTL DEF Spec, KeepsOffice, Office!Spec
=============================================================================
