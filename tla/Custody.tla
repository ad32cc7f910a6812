------------------------------ MODULE Custody ------------------------------
(***************************************************************************)
(* What the controllers of KeycloakResources promise together: nothing is  *)
(* put into Keycloak before a resource that cannot vanish answers for it,  *)
(* and none lets go of an object that is there without saying so.  What a  *)
(* resource was made to drop for something else is nobody's any more.      *)
(***************************************************************************)
CONSTANT Things     \* what a resource may answer for

VARIABLES
    held,       \* things a resource with a finalizer answers for
    present,    \* things that are there
    free,       \* things that are there and need nobody to answer for them
    dropped     \* things their holder has turned away from

vars == <<held, present, free, dropped>>

\* What is there at the start was not put there by anybody here.
Init ==
    /\ held = {}
    /\ present \subseteq Things
    /\ free = present
    /\ dropped = {}

Claim(t) ==
    /\ t \notin held
    /\ held' = held \cup {t}
    /\ free' = free \ {t}
    /\ dropped' = dropped \ {t}
    /\ UNCHANGED present

\* The holder of t answers for u instead.
Turn(t, u) ==
    /\ t \in held /\ u \notin held
    /\ held' = (held \ {t}) \cup {u}
    /\ free' = free \ {u}
    /\ dropped' = (dropped \cup {t}) \ {u}
    /\ UNCHANGED present

\* A holder that has just been turned away may still act on what it dropped.
Put(t) ==
    /\ t \in held \cup dropped
    /\ present' = present \cup {t}
    /\ UNCHANGED <<held, free, dropped>>

\* Some things go: a removal, by whomever, and what goes along with it.
Vanish(S) ==
    /\ present' = present \ S
    /\ free' = free \ S
    /\ UNCHANGED <<held, dropped>>

Release(t) ==
    /\ t \in held
    /\ held' = held \ {t}
    /\ free' \in {free, free \cup {t}}
    /\ t \in present => t \in free'
    /\ UNCHANGED <<present, dropped>>

Next ==
    \/ \E t \in Things : Claim(t) \/ Put(t) \/ Release(t)
    \/ \E t, u \in Things : Turn(t, u)
    \/ \E S \in SUBSET Things : Vanish(S)

Spec == Init /\ [][Next]_vars
=============================================================================
