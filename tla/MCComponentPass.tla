-------------------------- MODULE MCComponentPass --------------------------
(***************************************************************************)
(* Small instances of ComponentPass.                                       *)
(***************************************************************************)
EXTENDS ComponentPass

Setup(g, e, n) == [graph |-> g, enabled |-> e, bootstrap |-> TRUE, disturbances |-> n]

\* The same in an installation that was migrated.
Migrated(s) == [s EXCEPT !.bootstrap = FALSE]

\* Components that wait for nobody share nothing but the pass, so that one of
\* them alone meets the same disturbances as among the others.
Alone(c, n) == Setup([d \in {c} |-> {}], TRUE, n)

\* The graph of Reconcile.
Independent == [c \in Components |-> {}]

\* A chain against the alphabet, and a cycle, as in the tests of the graph.
Chain == [c \in Components |->
            CASE c = "edot-gateway" -> {"identity"}
              [] c = "identity" -> {"otel-collector"}
              [] c = "otel-collector" -> {}]

Cycle == [c \in Components |-> Components \ {c}]

MCSetups ==
    {Alone("identity", {"declaration"}),
     Alone("identity", {"realm"}),
     Alone("identity", {"item"}),
     Alone("identity", {"route", "controller"}),
     Alone("identity", {"instance", "issuer"}),
     Alone("otel-collector", {"secret", "config"}),
     Alone("otel-collector", {"enabled", "deployment"}),
     Alone("edot-gateway", {"secret"}),
     Setup(Independent, FALSE, {"issuer"}),
     Setup(Chain, FALSE, {"issuer"}),
     Setup(Chain, TRUE, {}),
     Migrated(Setup(Chain, FALSE, {})),
     Setup(Cycle, TRUE, {})}

=============================================================================
