----------------------------- MODULE MCFlowSync -----------------------------
(***************************************************************************)
(* Instances of FlowSync for TLC: specs of one flow.                       *)
(***************************************************************************)
EXTENDS FlowSync, TLC

Leaf(name, req) ==
    [sub |-> FALSE, name |-> name, alias |-> "", req |-> req, cfg |-> NoConfig]

Subflow(name) ==
    [sub |-> TRUE, name |-> name, alias |-> "", req |-> "", cfg |-> NoConfig]

Configured(name, alias, values) ==
    [sub |-> FALSE, name |-> name, alias |-> alias, req |-> "",
     cfg |-> [alias |-> alias, values |-> values]]

\* A required authenticator and a subflow, bound to a purpose.
Plain ==
    [flows |-> ("root" :> <<Leaf("a", "REQUIRED"), Subflow("s")>>
                @@ "s" :> <<Leaf("b", "")>>),
     bindings |-> {"browser"}]

\* The subflow first, emptied, and the authenticator twice, once with a
\* configuration one of whose values is empty.
Twins ==
    [flows |-> ("root" :> <<Subflow("s"), Leaf("a", ""),
                            Configured("a", "x", {<<"k", "">>, <<"m", "1">>})>>
                @@ "s" :> << >>),
     bindings |-> {}]

\* The subflow one level further down.
Nested ==
    [flows |-> ("root" :> <<Subflow("p")>>
                @@ "p" :> <<Subflow("s")>>
                @@ "s" :> <<Leaf("b", "")>>),
     bindings |-> {}]

\* One authenticator, and another in its place whose configuration bears the
\* same alias.
Before == [flows |-> ("root" :> <<Configured("a", "x", {})>>), bindings |-> {}]

After == [flows |-> ("root" :> <<Configured("b", "x", {})>>), bindings |-> {}]

MovedSpecs == {Plain, Nested}

AliasSpecs == {Before, After}

MCSpecs == {Plain, Twins, Nested}
=============================================================================
