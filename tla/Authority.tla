----------------------------- MODULE Authority -----------------------------
(***************************************************************************)
(* What the Lease of Platform is for: an office that at most one NetEye    *)
(* holds, for life, and without which a living one takes nothing.          *)
(***************************************************************************)
CONSTANTS
    Uids,       \* NetEyes that may come to exist
    Nobody,     \* none of them
    Objects     \* what they may own

VARIABLES
    alive,      \* the NetEyes that exist
    holder,     \* the one that holds the office
    owner       \* the one that owns each object

vars == <<alive, holder, owner>>

Init ==
    /\ alive = {}
    /\ holder = Nobody
    /\ owner = [o \in Objects |-> Nobody]

\* A newcomer comes with nothing.
Born(u) ==
    /\ u # holder
    /\ \A o \in Objects : owner[o] # u
    /\ alive' = alive \cup {u}
    /\ UNCHANGED <<holder, owner>>

Die(u) ==
    /\ alive' = alive \ {u}
    /\ UNCHANGED <<holder, owner>>

\* Whoever comes first; a NetEye may die on the way.
Acquire(u) ==
    /\ holder = Nobody
    /\ holder' = u
    /\ UNCHANGED <<alive, owner>>

Lapse ==
    /\ holder \notin alive
    /\ holder' = Nobody
    /\ UNCHANGED <<alive, owner>>

\* What belongs to somebody is not taken, and nothing without the office, except
\* by one that does not live to use it.
Take(o, u) ==
    /\ holder = u \/ u \notin alive
    /\ owner[o] = Nobody
    /\ owner' = [owner EXCEPT ![o] = u]
    /\ UNCHANGED <<alive, holder>>

Drop(o) ==
    /\ owner' = [owner EXCEPT ![o] = Nobody]
    /\ UNCHANGED <<alive, holder>>

Next ==
    \/ \E u \in Uids : Born(u) \/ Die(u) \/ Acquire(u)
    \/ Lapse
    \/ \E o \in Objects : Drop(o) \/ \E u \in Uids : Take(o, u)

Spec == Init /\ [][Next]_vars
=============================================================================
