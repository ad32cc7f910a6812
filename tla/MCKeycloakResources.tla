------------------------ MODULE MCKeycloakResources ------------------------
(***************************************************************************)
(* Small instances of KeycloakResources.                                   *)
(***************************************************************************)
EXTENDS KeycloakResources

\* What a behaviour is about: the renames of an object, or all that can happen to
\* one that keeps its name.
VARIABLE renaming

OneNameInit ==
    \A k \in Kinds, n \in Names \ {RealmName} : ~remote[k][n].there

RenamingInit ==
    creds /\ \A k \in Kinds, n \in Names : ~remote[k][n].builtIn

MCInit ==
    /\ Init
    /\ renaming \in (IF "rename" \in Disturbances THEN BOOLEAN ELSE {FALSE})
    /\ IF renaming THEN RenamingInit ELSE OneNameInit

\* A resource that is created or edited.
Declared(r) == IF renaming THEN r.policy = "Delete" ELSE r.name = RealmName

MCNext ==
    /\ \/ \E k \in Kinds : Worker(k) \/ SyncCache(k) \/ Delete(k)
       \/ \E k \in Kinds : (Create(k) \/ Edit(k)) /\ Declared(res'[k])
       \/ ~renaming /\ ((\E k \in Kinds : Drift(k)) \/ ChangeCredentials)
       \/ Crash \/ Settle
    /\ UNCHANGED renaming

MCSpec == MCInit /\ [][MCNext]_<<vars, renaming>>

MCFairSpec == MCSpec /\ Fairness
=============================================================================
