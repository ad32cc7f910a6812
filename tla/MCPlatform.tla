----------------------------- MODULE MCPlatform -----------------------------
(***************************************************************************)
(* Small instances of Platform.                                            *)
(***************************************************************************)
EXTENDS Platform

\* What a behaviour is about: two NetEyes and the Lease between them, or the
\* objects of one NetEye in the midst of all that can happen to them.
VARIABLE rivals

\* Two NetEyes contend for the identity component and leave telemetry alone.
MCInit ==
    /\ Init
    /\ rivals \in BOOLEAN
    /\ rivals => \A o \in Objects : obj[o] = Missing

\* Who may come.
Enters(n) == rivals \/ (uids = 0 /\ n = CHOOSE m \in Names : TRUE)

MCNext ==
    /\ \/ \E n \in Names : Reconcile(n) \/ SyncNetEye(n) \/ Refuse(n) \/ DeleteNetEye(n)
       \/ PassStep \/ CallFails
       \/ \E n \in Names : ValidateCreate(n) /\ Enters(n)
       \/ \E n \in Names : Store(n) /\ (rivals => ~ne'[n].enabled)
       \/ \E o \in Objects : CollectObject(o) \/ SyncObject(o)
       \/ CollectLease \/ SyncLease \/ Crash \/ Settle
       \/ rivals /\ Strip
       \/ ~rivals /\ (\/ \E n \in Names : ValidateUpdate(n)
                      \/ \E o \in Objects : Squat(o) \/ Drift(o)
                      \/ Release)
    /\ UNCHANGED rivals

MCFairSpec == MCInit /\ [][MCNext]_<<vars, rivals>> /\ Fairness
=============================================================================
