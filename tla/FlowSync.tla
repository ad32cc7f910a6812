------------------------------ MODULE FlowSync ------------------------------
(***************************************************************************)
(* The synchronisation of an authentication flow, call by call.            *)
(*                                                                         *)
(* A KeycloakAuthFlow declares a tree of executions.  A pass walks it from *)
(* the root flow down: in every flow it matches what is declared with what *)
(* Keycloak has, creates what is missing, corrects requirements and        *)
(* configurations, goes into subflows, and then removes what nobody        *)
(* declared and numbers the rest.  Finally it binds the flow to purposes   *)
(* of the realm, in a representation of the realm that it reads and writes *)
(* whole, as the realm controller does for the settings it is after.       *)
(*                                                                         *)
(* Nothing in Keycloak is versioned: between any two calls somebody may    *)
(* use the console, edit the resource, or the process may end.             *)
(***************************************************************************)
EXTENDS Naturals, Sequences, FiniteSets

CONSTANTS
    Root,           \* the alias of the declared flow
    Specs,          \* the specs an administrator may give the resource
    Requirements,   \* requirements an execution may have
    Ids,            \* bound on executions: the identifiers Keycloak gives out
    MaxDisturbances \* bound on edits and on changes in the console

\* A configuration: its alias and its values, pairs of a key and a value.  The
\* alias "" says that there is none.
Configs == [alias : STRING, values : SUBSET (STRING \X STRING)]

NoConfig == [alias |-> "", values |-> {}]

\* A declared execution: a subflow or an authenticator, named by "name"; the
\* requirement "" leaves it open.
Entries ==
    [sub : BOOLEAN, name : STRING, alias : STRING, req : Requirements \cup {""}, cfg : Configs]

\* The API type nests flows over so many levels, the root flow the first.
Levels == 3

IsWant(w) ==
    /\ w.name # ""
    /\ w.sub => w.alias = "" /\ w.cfg = NoConfig

\* The set contains, with a flow, the subflows it declares.
Closed(flows, S) ==
    \A f \in S : \A i \in 1..Len(flows[f]) : flows[f][i].sub => flows[f][i].name \in S

\* A spec: for the root flow and every subflow the executions it declares in
\* order, and the purposes the flow is bound to.  It is written as a tree: a
\* subflow lies deeper than the flow that declares it, and no flow outside the
\* tree is mentioned.
IsSpec(s) ==
    /\ Root \in DOMAIN s.flows /\ DOMAIN s.flows \subseteq STRING
    /\ \A f \in DOMAIN s.flows :
          /\ s.flows[f] \in Seq(Entries)
          /\ \A i \in 1..Len(s.flows[f]) :
                LET w == s.flows[f][i]
                IN IsWant(w) /\ (w.sub => w.name \in DOMAIN s.flows \ {Root})
    /\ \E level \in [DOMAIN s.flows -> 1..Levels] :
          \A f \in DOMAIN s.flows : \A i \in 1..Len(s.flows[f]) :
             s.flows[f][i].sub => level[f] < level[s.flows[f][i].name]
    /\ \A S \in SUBSET DOMAIN s.flows :
          Root \in S /\ Closed(s.flows, S) => S = DOMAIN s.flows
    /\ s.bindings \subseteq {"browser", "registration"}

ASSUME FlowSyncAssumption ==
    /\ \A s \in Specs : IsSpec(s)
    /\ "DISABLED" \in Requirements /\ "" \notin Requirements
    /\ Ids \subseteq Nat /\ IsFiniteSet(Ids)
    /\ MaxDisturbances \in Nat

\* The empty alias is a string, which the provers are not aware of.
ASSUME EmptyAliasAssumption == "" \in STRING

VARIABLES
    spec,       \* Kubernetes: the spec of the KeycloakAuthFlow
    tree,       \* Keycloak: the executions of all flows, by identifier
    rootThere,  \* Keycloak: the root flow exists
    realm,      \* Keycloak: the realm representation
    step,       \* the call the flow controller makes next
    mine,       \* the spec its pass works on
    stack,      \* the flows it is in, the innermost last
    copy,       \* the realm representation it has read
    finished,   \* history: the flows it is through with
    clean,      \* history: nobody has interfered since the pass began
    rstep,      \* the call the realm controller makes next
    rcopy,      \* the realm representation it has read
    budget,     \* disturbances that may still come
    settled     \* no fault or disturbance happens any more

flowVars == <<step, mine, stack, copy, finished>>
realmVars == <<rstep, rcopy>>
adminVars == <<spec, budget, settled>>
vars == <<spec, tree, rootThere, realm, step, mine, stack, copy, finished, clean,
          rstep, rcopy, budget, settled>>

-----------------------------------------------------------------------------
(***************************************************************************)
(* Keycloak.                                                               *)
(***************************************************************************)

Purposes == {"browser", "registration"}

\* The realm representation: the password policy stands for the settings the
\* realm controller is after, the bindings for those of this flow.
Representation(policy, flow) == [policy |-> policy, bound |-> [p \in Purposes |-> flow]]

NoRealm == Representation("", "")

Flows == (IF rootThere THEN {Root} ELSE {})
         \cup {tree[i].name : i \in {j \in DOMAIN tree : tree[j].sub}}

Children(t, f) == {i \in DOMAIN t : t[i].flow = f}

\* ListDirectExecutions: executions by priority; what the order of equal
\* priorities is, nobody promises.

Listings(S) ==
    LET n == Cardinality(S)
    IN {[k \in 1..n |-> [id |-> q[k], rep |-> tree[q[k]]]] :
          q \in {p \in [1..n -> S] : \A j, k \in 1..n :
                   j < k => p[j] # p[k] /\ tree[p[j]].prio <= tree[p[k]].prio}}

\* An execution that has just been created.
NewExecution(f, w) ==
    [flow |-> f, sub |-> w.sub, name |-> w.name, req |-> "DISABLED",
     cfg |-> NoConfig, prio |-> 0]

\* With a subflow go its executions, over all levels: the least set that holds
\* the execution and is closed.
Below(t, i) ==
    {j \in DOMAIN t :
       \A S \in SUBSET DOMAIN t :
          i \in S /\ (\A k \in S : t[k].sub => Children(t, t[k].name) \subseteq S) => j \in S}

Without(t, ids) == [i \in DOMAIN t \ ids |-> t[i]]

With(t, i, e) == [j \in DOMAIN t \cup {i} |-> IF j = i THEN e ELSE t[j]]

\* The identifiers nobody has seen yet.
Remembered == UNION {stack[d].used \cup {stack[d].live[k].id : k \in DOMAIN stack[d].live} :
                       d \in DOMAIN stack}

Unseen == Ids \ (DOMAIN tree \cup Remembered)

Fresh == CHOOSE i \in Unseen : TRUE

Init ==
    /\ spec \in Specs
    /\ tree = << >>
    /\ rootThere = FALSE
    /\ realm = Representation("default", "other")
    /\ step = "idle"
    /\ mine = spec
    /\ stack = << >>
    /\ copy = NoRealm
    /\ finished = {}
    /\ clean = TRUE
    /\ rstep = "idle"
    /\ rcopy = NoRealm
    /\ budget = MaxDisturbances
    /\ settled = FALSE

-----------------------------------------------------------------------------
(***************************************************************************)
(* What a pass makes of what it has read.                                  *)
(***************************************************************************)

Least(S) == CHOOSE k \in S : \A j \in S : k <= j

\* Mutant: forgets which executions have been claimed.
matchingExecutionCollapses(live, w, used) ==
    LET alike == {k \in DOMAIN live : live[k].rep.sub = w.sub /\ live[k].rep.name = w.name}
    IN IF alike = {} THEN 0 ELSE Least(alike)

\* The place of the execution that w stands for, 0 when there is none: a subflow
\* by its alias, an authenticator by the alias of its configuration or else by
\* its name; what an earlier entry has claimed is passed over.
matchingExecution(live, w, used) ==
    LET open == {k \in DOMAIN live : live[k].id \notin used /\ live[k].rep.sub = w.sub}
        aliased == {k \in open : w.alias # "" /\ live[k].rep.cfg.alias = w.alias}
        alike == {k \in open : live[k].rep.name = w.name}
    IN IF aliased # {} THEN Least(aliased)
       ELSE IF alike # {} THEN Least(alike) ELSE 0

\* Mutant: renders the values as they are declared.
stringMapRepresentationAll(values) == values

\* Empty values are dropped, as Keycloak drops them.
stringMapRepresentation(values) == {v \in values : v[2] # ""}

\* Mutant: counts the places from one.
wantPriorityFromOne(i) == i

\* The priority of the i-th entry.
wantPriority(i) == i - 1

Rendered(cfg) == [cfg EXCEPT !.values = stringMapRepresentation(@)]

Stored(cfg) == [cfg EXCEPT !.values = {v \in @ : v[2] # ""}]

-----------------------------------------------------------------------------
(***************************************************************************)
(* A pass of the flow controller.                                          *)
(***************************************************************************)

Frame(f) == [flow |-> f, i |-> 1, live |-> << >>, used |-> {}, cur |-> 0]

Top == stack[Len(stack)]

Desired == mine.flows[Top.flow]

Want == Desired[Top.i]

Current == Top.live[Top.cur].id

Replace(frame) == stack' = [stack EXCEPT ![Len(stack)] = frame]

Push(f) ==
    /\ step' = "list"
    /\ stack' = Append(stack, Frame(f))

\* The pass is over; the next one starts from nothing.
Finish ==
    /\ step' = "idle"
    /\ stack' = << >>
    /\ copy' = NoRealm
    /\ finished' = {}

\* An error: the pass ends where it is.
Fail ==
    /\ Finish
    /\ UNCHANGED <<tree, rootThere, realm>>

NextWant ==
    /\ step' = "want"
    /\ Replace([Top EXCEPT !.i = @ + 1, !.cur = 0])

ReconcileFlow ==
    /\ step = "idle"
    /\ step' = "ensureRootFlow"
    /\ mine' = spec
    /\ clean' = TRUE
    /\ UNCHANGED <<tree, rootThere, realm, stack, copy, finished, realmVars, adminVars>>

\* The lookup by alias and, when it finds nothing, the creation.  They make one
\* step, because only this pass creates the root flow and what the controller
\* refers to later is its alias; nobody removes the flow under a pass.
ensureRootFlow ==
    /\ step = "ensureRootFlow"
    /\ rootThere' = TRUE
    /\ Push(Root)
    /\ UNCHANGED <<tree, realm, mine, copy, finished, clean, realmVars, adminVars>>

\* Mutant: leaves the executions of a subflow alone.
FollowShallow(w) == IF ~w.sub /\ w.cfg # NoConfig THEN "config" ELSE "next"

\* What follows once an execution has been claimed and has its requirement.
Follow(w) ==
    IF w.sub THEN "descend" ELSE IF w.cfg # NoConfig THEN "config" ELSE "next"

\* The entry is answered by the k-th execution of this list.
Claim(live, k) ==
    /\ Replace([Top EXCEPT !.live = live, !.used = @ \cup {live[k].id}, !.cur = k])
    /\ step' = IF Want.req \notin {"", live[k].rep.req} THEN "requirement" ELSE Follow(Want)

List ==
    /\ step = "list"
    /\ \/ /\ Top.flow \in Flows
          /\ \E live \in Listings(Children(tree, Top.flow)) : Replace([Top EXCEPT !.live = live])
          /\ step' = "want"
          /\ UNCHANGED <<tree, rootThere, realm, copy, finished>>
       \/ Top.flow \notin Flows /\ Fail
    /\ UNCHANGED <<mine, clean, realmVars, adminVars>>

Match ==
    /\ step = "want"
    /\ LET k == matchingExecution(Top.live, Want, Top.used)
       IN IF Top.i > Len(Desired) THEN step' = "prune" /\ stack' = stack
          ELSE IF k # 0 THEN Claim(Top.live, k)
          ELSE step' = "create" /\ stack' = stack
    /\ UNCHANGED <<tree, rootThere, realm, copy, finished, mine, clean, realmVars, adminVars>>

\* CreateSubflow or CreateExecution; an alias is unique in its realm.
Create ==
    /\ step = "create"
    /\ \/ /\ Top.flow \in Flows /\ ~(Want.sub /\ Want.name \in Flows)
          /\ Unseen # {}
          /\ tree' = With(tree, Fresh, NewExecution(Top.flow, Want))
          /\ step' = "relist"
          /\ UNCHANGED <<rootThere, realm, stack, copy, finished>>
       \/ /\ Top.flow \notin Flows \/ (Want.sub /\ Want.name \in Flows)
          /\ Fail
    /\ UNCHANGED <<mine, clean, realmVars, adminVars>>

Relist ==
    /\ step = "relist"
    /\ \/ /\ Top.flow \in Flows
          /\ \E live \in Listings(Children(tree, Top.flow)) :
               LET k == matchingExecution(live, Want, Top.used)
               IN IF k # 0
                  THEN Claim(live, k) /\ UNCHANGED <<tree, rootThere, realm, copy, finished>>
                  ELSE Fail
       \/ Top.flow \notin Flows /\ Fail
    /\ UNCHANGED <<mine, clean, realmVars, adminVars>>

\* A call about the execution in hand, which somebody may have removed.
OnCurrent(change, then) ==
    /\ \/ /\ Current \in DOMAIN tree
          /\ change
          /\ then
          /\ UNCHANGED <<rootThere, realm, copy, finished>>
       \/ Current \notin DOMAIN tree /\ Fail
    /\ UNCHANGED <<mine, clean, realmVars, adminVars>>

\* The update says nothing about the priority, and Keycloak may take that for 0.
UpdateExecutionRequirement ==
    /\ step = "requirement"
    /\ OnCurrent(\E p \in {0, tree[Current].prio} :
                   tree' = [tree EXCEPT ![Current].req = Want.req, ![Current].prio = p],
                 step' = Follow(Want) /\ stack' = stack)

\* GetAuthFlowByID and the recursion.
Descend ==
    /\ step = "descend"
    /\ OnCurrent(tree' = tree, Push(Want.name))

\* A configuration is created when the list showed none, and otherwise read and
\* updated when it differs.
Listed == Top.live[Top.cur].rep.cfg

ConfigFound == Current \in DOMAIN tree /\ (Listed # NoConfig => tree[Current].cfg # NoConfig)

reconcileAuthenticatorConfig ==
    /\ step = "config"
    /\ \/ /\ Listed = NoConfig
          /\ step' = "writeConfig" /\ UNCHANGED <<stack, copy, finished>>
       \/ /\ Listed # NoConfig /\ ConfigFound
          /\ IF tree[Current].cfg = Rendered(Want.cfg) THEN NextWant
             ELSE step' = "writeConfig" /\ stack' = stack
          /\ UNCHANGED <<copy, finished>>
       \/ /\ Listed # NoConfig /\ ~ConfigFound
          /\ Finish
    /\ UNCHANGED <<tree, rootThere, realm, mine, clean, realmVars, adminVars>>

WriteAuthenticatorConfig ==
    /\ step = "writeConfig"
    /\ \/ /\ ConfigFound
          /\ tree' = [tree EXCEPT ![Current].cfg = Stored(Rendered(Want.cfg))]
          /\ NextWant
          /\ UNCHANGED <<rootThere, realm, copy, finished>>
       \/ ~ConfigFound /\ Fail
    /\ UNCHANGED <<mine, clean, realmVars, adminVars>>

Proceed ==
    /\ step = "next"
    /\ NextWant
    /\ UNCHANGED <<tree, rootThere, realm, copy, finished, mine, clean, realmVars, adminVars>>

\* The last list but one: what is left unclaimed goes.
Prune ==
    /\ step = "prune"
    /\ \/ /\ Top.flow \in Flows
          /\ \E extra \in Listings(Children(tree, Top.flow) \ Top.used) :
               /\ Replace([Top EXCEPT !.live = extra])
               /\ step' = IF extra = << >> THEN "order" ELSE "delete"
          /\ UNCHANGED <<tree, rootThere, realm, copy, finished>>
       \/ Top.flow \notin Flows /\ Fail
    /\ UNCHANGED <<mine, clean, realmVars, adminVars>>

DeleteExecution ==
    /\ step = "delete"
    /\ LET id == Head(Top.live).id
       IN \/ /\ id \in DOMAIN tree
             /\ tree' = Without(tree, Below(tree, id))
             /\ Replace([Top EXCEPT !.live = Tail(@)])
             /\ step' = IF Len(Top.live) = 1 THEN "order" ELSE "delete"
             /\ UNCHANGED <<rootThere, realm, copy, finished>>
          \/ id \notin DOMAIN tree /\ Fail
    /\ UNCHANGED <<mine, clean, realmVars, adminVars>>

\* The last list, for the priorities.
Order ==
    /\ step = "order"
    /\ \/ /\ Top.flow \in Flows
          /\ \E live \in Listings(Children(tree, Top.flow)) :
               Replace([Top EXCEPT !.live = live, !.used = {}, !.i = 1, !.cur = 0])
          /\ step' = "reorder"
          /\ UNCHANGED <<tree, rootThere, realm, copy, finished>>
       \/ Top.flow \notin Flows /\ Fail
    /\ UNCHANGED <<mine, clean, realmVars, adminVars>>

\* Out of a flow: back to its parent's next entry, or on to the bindings.
Return ==
    /\ finished' = finished \cup {Top.flow}
    /\ IF Len(stack) = 1 THEN step' = "bind" /\ stack' = << >>
       ELSE LET parent == stack[Len(stack) - 1]
            IN /\ step' = "want"
               /\ stack' = [SubSeq(stack, 1, Len(stack) - 1)
                              EXCEPT ![Len(stack) - 1] = [parent EXCEPT !.i = @ + 1, !.cur = 0]]

\* On to the next entry of the order, these executions claimed.
NextPlace(used) ==
    /\ step' = "reorder"
    /\ Replace([Top EXCEPT !.i = @ + 1, !.used = used])
    /\ UNCHANGED <<rootThere, realm, copy, finished>>

\* One entry of reconcileExecutionOrder.  The update carries the representation
\* that was listed, requirement included.
reconcileExecutionOrder ==
    LET k == matchingExecution(Top.live, Want, Top.used)
        id == Top.live[k].id
        rep == Top.live[k].rep
        place == wantPriority(Top.i)
    IN /\ step = "reorder"
       /\ \/ /\ Top.i > Len(Desired)
             /\ Return
             /\ UNCHANGED <<tree, rootThere, realm, copy>>
          \/ /\ Top.i <= Len(Desired) /\ k = 0
             /\ NextPlace(Top.used) /\ tree' = tree
          \/ /\ Top.i <= Len(Desired) /\ k # 0
             /\ rep.prio = place
             /\ NextPlace(Top.used \cup {id}) /\ tree' = tree
          \/ /\ Top.i <= Len(Desired) /\ k # 0
             /\ rep.prio # place
             /\ \/ /\ id \in DOMAIN tree
                   /\ tree' = [tree EXCEPT ![id].prio = place, ![id].req = rep.req]
                   /\ NextPlace(Top.used \cup {id})
                \/ id \notin DOMAIN tree /\ Fail
       /\ UNCHANGED <<mine, clean, realmVars, adminVars>>

\* reconcileBindings: the lookup.
GetBoundRealm ==
    /\ step = "bind"
    /\ IF \A p \in mine.bindings : realm.bound[p] = Root
       THEN Finish
       ELSE step' = "updateRealm" /\ copy' = realm /\ UNCHANGED <<stack, finished>>
    /\ UNCHANGED <<tree, rootThere, realm, mine, clean, realmVars, adminVars>>

\* Mutant: what was read wins over what is to be bound.
BindFlowOverwritten ==
    /\ step = "updateRealm"
    /\ realm' = copy
    /\ Finish
    /\ UNCHANGED <<tree, rootThere, mine, clean, realmVars, adminVars>>

\* reconcileBindings: the update, everything else as it was read.
BindFlow ==
    /\ step = "updateRealm"
    /\ realm' = [copy EXCEPT !.bound =
                   [p \in Purposes |-> IF p \in mine.bindings THEN Root ELSE @[p]]]
    /\ Finish
    /\ UNCHANGED <<tree, rootThere, mine, clean, realmVars, adminVars>>

FlowStep ==
    \/ ReconcileFlow \/ ensureRootFlow \/ List \/ Match \/ Create \/ Relist
    \/ UpdateExecutionRequirement \/ Descend \/ reconcileAuthenticatorConfig
    \/ WriteAuthenticatorConfig \/ Proceed \/ Prune \/ DeleteExecution \/ Order \/ reconcileExecutionOrder
    \/ GetBoundRealm \/ BindFlow

-----------------------------------------------------------------------------
(***************************************************************************)
(* A pass of the realm controller, whose realm declares a password policy. *)
(***************************************************************************)

GetRealm ==
    /\ rstep = "idle"
    /\ realm.policy # "declared"
    /\ rcopy' = realm
    /\ rstep' = "updateRealm"
    /\ UNCHANGED <<tree, rootThere, realm, flowVars, clean, adminVars>>

\* mergeRepresentation and the update: what the spec does not mention is written
\* back as it was read.
UpdateRealm ==
    /\ rstep = "updateRealm"
    /\ realm' = [rcopy EXCEPT !.policy = "declared"]
    /\ rstep' = "idle"
    /\ rcopy' = NoRealm
    /\ UNCHANGED <<tree, rootThere, flowVars, clean, adminVars>>

RealmStep == GetRealm \/ UpdateRealm

-----------------------------------------------------------------------------
(***************************************************************************)
(* The environment.                                                        *)
(***************************************************************************)

\* A call fails, its answer is lost or the process ends.
FlowPassEnds ==
    /\ ~settled /\ step # "idle"
    /\ Fail
    /\ UNCHANGED <<mine, clean, realmVars, adminVars>>

RealmPassEnds ==
    /\ ~settled /\ rstep # "idle"
    /\ rstep' = "idle"
    /\ rcopy' = NoRealm
    /\ UNCHANGED <<tree, rootThere, realm, flowVars, clean, adminVars>>

Interfere ==
    /\ ~settled /\ budget > 0
    /\ budget' = budget - 1
    /\ clean' = FALSE
    /\ UNCHANGED settled

Edit ==
    /\ Interfere
    /\ \E s \in Specs \ {spec} : spec' = s
    /\ UNCHANGED <<tree, rootThere, realm, flowVars, realmVars>>

\* The console: an execution is changed, moved to the front, removed or added.
ChangeExecution ==
    /\ Interfere
    /\ \E i \in DOMAIN tree :
          \/ \E r \in Requirements : tree' = [tree EXCEPT ![i].req = r]
          \/ tree' = [tree EXCEPT ![i].prio = 0]
          \/ tree' = [tree EXCEPT ![i].cfg = NoConfig]
          \/ tree' = Without(tree, Below(tree, i))
    /\ UNCHANGED <<spec, rootThere, realm, flowVars, realmVars>>

AddExecution ==
    /\ Interfere
    /\ Unseen # {}
    /\ \E f \in Flows, i \in DOMAIN tree :
          ~tree[i].sub /\ tree' = With(tree, Fresh, NewExecution(f, tree[i]))
    /\ UNCHANGED <<spec, rootThere, realm, flowVars, realmVars>>

ChangeRealm ==
    /\ Interfere
    /\ realm' \in {[realm EXCEPT !.policy = "default"],
                   [realm EXCEPT !.bound = [p \in Purposes |-> "other"]]}
    /\ UNCHANGED <<spec, tree, rootThere, flowVars, realmVars>>

Settle ==
    /\ ~settled
    /\ settled' = TRUE
    /\ UNCHANGED <<spec, budget, tree, rootThere, realm, flowVars, realmVars, clean>>

Next ==
    \/ FlowStep \/ RealmStep
    \/ FlowPassEnds \/ RealmPassEnds
    \/ Edit \/ ChangeExecution \/ AddExecution \/ ChangeRealm
    \/ Settle

Spec == Init /\ [][Next]_vars

\* Both controllers come round again and again; disturbances end some day.
Fairness == WF_vars(FlowStep) /\ WF_vars(RealmStep) /\ WF_vars(Settle)

FairSpec == Spec /\ Fairness

-----------------------------------------------------------------------------
(***************************************************************************)
(* Properties.                                                             *)
(***************************************************************************)

FlowSteps ==
    {"idle", "ensureRootFlow", "list", "want", "create", "relist", "requirement",
     "descend", "config", "writeConfig", "next", "prune", "delete", "order",
     "reorder", "bind", "updateRealm"}

Executions ==
    [flow : STRING, sub : BOOLEAN, name : STRING, req : Requirements, cfg : Configs, prio : Nat]

Frames ==
    [flow : STRING, i : Nat, live : Seq([id : Ids, rep : Executions]), used : SUBSET Ids,
     cur : Nat]

RealmRepresentations ==
    [policy : {"", "default", "declared"}, bound : [Purposes -> {"", "other", Root}]]

\* Everything has its type, the executions in Keycloak form a tree, priorities
\* are places of some declared list, and the flows a pass is in lie below each
\* other.
TypeOK ==
    /\ spec \in Specs /\ mine \in Specs
    /\ DOMAIN tree \subseteq Ids
    /\ \A i \in DOMAIN tree :
          /\ tree[i] \in Executions
          /\ tree[i].flow \in Flows
          /\ \E s \in Specs :
                /\ tree[i].flow \in DOMAIN s.flows
                /\ tree[i].prio \in {0} \cup 0..(Len(s.flows[tree[i].flow]) - 1)
          /\ \A j \in DOMAIN tree :
                tree[i].sub /\ tree[j].sub /\ tree[i].name = tree[j].name => i = j
    /\ {realm, copy, rcopy} \subseteq RealmRepresentations
    /\ step \in FlowSteps
    /\ step \in {"idle", "ensureRootFlow", "bind", "updateRealm"} <=> stack = << >>
    /\ stack \in Seq(Frames) /\ Len(stack) <= Levels
    /\ \A d \in 2..Len(stack) :
          LET above == mine.flows[stack[d - 1].flow][stack[d - 1].i]
          IN above.sub /\ above.name = stack[d].flow
    /\ finished \subseteq DOMAIN mine.flows
    /\ rstep \in {"idle", "updateRealm"}
    /\ budget \in 0..MaxDisturbances
    /\ {clean, settled, rootThere} \subseteq BOOLEAN

\* Execution e is what the entry w declares, as far as the controller can tell
\* (matchingExecution goes by the alias first).
Satisfies(e, w) ==
    /\ e.sub = w.sub
    /\ e.name = w.name \/ (w.alias # "" /\ e.cfg.alias = w.alias)
    /\ w.req \in {"", e.req}
    /\ w.cfg # NoConfig => e.cfg = Stored(w.cfg)

\* Keycloak has the declared tree: the executions of every flow are the entries
\* of its list in that order, and there are no others.
Mirrors(s) ==
    /\ rootThere
    /\ \A i \in DOMAIN tree : tree[i].flow \in DOMAIN s.flows
    /\ \A f \in DOMAIN s.flows :
         /\ Cardinality(Children(tree, f)) = Len(s.flows[f])
         /\ \A k \in 1..Len(s.flows[f]) :
              \E i \in Children(tree, f) :
                 tree[i].prio = k - 1 /\ Satisfies(tree[i], s.flows[f][k])

Bound(s) == \A p \in s.bindings : realm.bound[p] = Root

\* No flow declares an authenticator twice, and no subflow is declared twice.
NoTwins(s) ==
    \A f, g \in DOMAIN s.flows : \A j \in 1..Len(s.flows[f]), k \in 1..Len(s.flows[g]) :
        LET w == s.flows[f][j]
            v == s.flows[g][k]
        IN w.name = v.name /\ (f = g \/ (w.sub /\ v.sub)) => f = g /\ j = k

\* An alias that an entry goes by is that of configurations of its authenticator
\* only.
AliasesTell ==
    \A s, t \in Specs : \A f \in DOMAIN s.flows, g \in DOMAIN t.flows :
        \A j \in 1..Len(s.flows[f]), k \in 1..Len(t.flows[g]) :
            LET w == s.flows[f][j]
                v == t.flows[g][k]
            IN w.alias # "" /\ v.cfg.alias = w.alias => w.name = v.name

\* A pass that nobody interferes with and that gets through has made the whole
\* tree as declared, whatever it found.  Twins may change places in the last
\* step, when Keycloak lists equal priorities in a new order, and take a second
\* pass (reconcileFlowExecutions, reconcileExecutionOrder).
OnePassSuffices ==
    step = "bind" /\ clean /\ NoTwins(mine) /\ AliasesTell => Mirrors(mine)

\* A flow that is as declared stays so, call by call: a pass never takes a login
\* apart to put it together again, as long as nobody interferes
\* (matchingExecution, the prune and the order of reconcileFlowExecutions).
NeverTakenApart == [][clean /\ clean' /\ Mirrors(mine) /\ mine' = mine => Mirrors(mine)']_vars

\* A subflow hangs below another flow than the spec says.
Misplaced ==
    \E i \in DOMAIN tree :
        /\ tree[i].sub
        /\ \E f \in DOMAIN spec.flows \ {tree[i].flow} : \E k \in 1..Len(spec.flows[f]) :
              spec.flows[f][k].sub /\ spec.flows[f][k].name = tree[i].name

\* Once disturbances and faults end, the flow is as declared, its bindings and
\* the realm's settings too, although two controllers write the realm back whole
\* and passes were cut short anywhere.  The exception is a subflow that has
\* moved to another flow: CreateSubflow is refused while the old one, which the
\* pass removes later, has the alias (reconcileFlowExecutions, reconcileBindings).
Converges == <>[]((Mirrors(spec) /\ Bound(spec) /\ realm.policy = "declared") \/ Misplaced)

\* In the end every flow has the executions of its list, each of the kind and the
\* name that is declared, in that order ("the ordered, authoritative list of direct
\* child executions" of the API type).  It does not hold: a subflow that moves
\* blocks its new place and is never removed from the old one, and an authenticator
\* whose configuration has the alias of another entry stands for that entry
\* (reconcileFlowExecutions, matchingExecution).
Authoritative ==
    <>[] \A f \in DOMAIN spec.flows :
            /\ Cardinality(Children(tree, f)) = Len(spec.flows[f])
            /\ \A k \in 1..Len(spec.flows[f]) :
                 \E i \in Children(tree, f) :
                    /\ tree[i].prio = k - 1
                    /\ tree[i].sub = spec.flows[f][k].sub
                    /\ tree[i].name = spec.flows[f][k].name

WriteSteps == {"create", "requirement", "writeConfig", "delete", "updateRealm"}

\* The next call gives an execution another priority.
Renumbers ==
    /\ step = "reorder" /\ Top.i <= Len(Desired)
    /\ LET k == matchingExecution(Top.live, Want, Top.used)
       IN k # 0 /\ Top.live[k].rep.prio # wantPriority(Top.i)

\* Controllers at rest do not write: passes go on for ever, but end up finding
\* nothing to create, correct, remove or renumber (stringMapRepresentation, and
\* the comparisons before every update).
Quiet ==
    <>[](Misplaced \/ (step \notin WriteSteps /\ ~Renumbers /\ rstep # "updateRealm"))
=============================================================================
