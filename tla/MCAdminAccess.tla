--------------------------- MODULE MCAdminAccess ---------------------------
(***************************************************************************)
(* Instances of AdminAccess for TLC.                                       *)
(***************************************************************************)
EXTENDS AdminAccess, TLC

\* Generated passwords carry no structure, so they are interchangeable.
PasswordSymmetry == Permutations(Passwords)

\* A fresh installation: Keycloak knows the bootstrap account only.
FreshSpec == Init /\ acctPwd = NoPassword /\ [][Next]_vars

\* A database migrated with its internal admin and no bootstrap Secret.
MigratedFairSpec == FairSpec /\ ~bootSecret
=============================================================================
