--------------------------- MODULE FlowSyncProofs ---------------------------
(***************************************************************************)
(* Theorems about FlowSync, for every set of specs and of identifiers.     *)
(***************************************************************************)
EXTENDS FlowSync, FiniteSetTheorems, SequenceTheorems, TLAPS

-----------------------------------------------------------------------------
(***************************************************************************)
(* The inductive invariant: what holds whatever happens.                   *)
(***************************************************************************)

\* The subflows of all specs.
Subflows == UNION {DOMAIN s.flows \ {Root} : s \in Specs}

\* Two executions of one flow and one kind, by one name.
SameExecution(e, g) == e.flow = g.flow /\ e.sub = g.sub /\ e.name = g.name

\* The executions form a tree: parents exist, aliases are unique, and what is
\* closed and holds the executions of the root flow holds all.
TreeType(t, roots) ==
    /\ DOMAIN t \subseteq Ids
    /\ \A i \in DOMAIN t : t[i] \in Executions
    /\ \A i \in DOMAIN t : t[i].sub => t[i].name \in Subflows
    /\ \A i \in DOMAIN t :
          t[i].flow \in roots \/ \E k \in DOMAIN t : t[k].sub /\ t[k].name = t[i].flow
    /\ \A i, j \in DOMAIN t : t[i].sub /\ t[j].sub /\ t[i].name = t[j].name => i = j

ClosedIn(t, S) == \A k \in S : t[k].sub => Children(t, t[k].name) \subseteq S

Rooted(t) ==
    \A S \in SUBSET DOMAIN t : Children(t, Root) \subseteq S /\ ClosedIn(t, S) => S = DOMAIN t

PlacesType(t) ==
    \A i \in DOMAIN t : \E s \in Specs :
       /\ t[i].flow \in DOMAIN s.flows
       /\ t[i].prio \in {0} \cup 0..(Len(s.flows[t[i].flow]) - 1)

\* The steps in which the entry in hand has been claimed.
ClaimSteps == {"requirement", "descend", "config", "writeConfig", "next"}

EntrySteps == ClaimSteps \cup {"create", "relist"}

EndSteps == {"prune", "delete", "order"}

\* The call that the flow at depth d is at: all but the innermost have gone into
\* a subflow.
StepAt(d) == IF d = Len(stack) THEN step ELSE "descend"

\* What a flow remembers, given the executions and what it declares.
FrameType(t, D, fr, st) ==
    /\ fr.i \in 1..(Len(D) + 1)
    /\ \A k \in DOMAIN fr.live :
          /\ fr.live[k].rep.flow = fr.flow
          /\ fr.live[k].id \in DOMAIN t => SameExecution(fr.live[k].rep, t[fr.live[k].id])
    /\ st = "list" => fr.i = 1 /\ fr.used = {}
    /\ st \in EntrySteps => fr.i <= Len(D)
    /\ st \in EndSteps => fr.i = Len(D) + 1
    /\ st = "delete" => fr.live # << >>
    /\ st \in ClaimSteps => fr.cur \in DOMAIN fr.live /\ fr.live[fr.cur].rep.sub = D[fr.i].sub
    /\ st = "requirement" => D[fr.i].req # ""
    /\ st = "descend" => D[fr.i].sub
    /\ st \in {"config", "writeConfig"} => ~D[fr.i].sub /\ D[fr.i].cfg # NoConfig
    /\ st = "next" => ~D[fr.i].sub /\ D[fr.i].cfg = NoConfig

\* The levels of the flows of a spec.
Deeper(s, level) ==
    \A f \in DOMAIN s.flows : \A i \in 1..Len(s.flows[f]) :
        s.flows[f][i].sub => level[f] < level[s.flows[f][i].name]

Level(s) == CHOOSE level \in [DOMAIN s.flows -> 1..Levels] : Deeper(s, level)

StackType ==
    /\ stack \in Seq(Frames)
    /\ \A d \in 1..Len(stack) :
          /\ stack[d].flow \in DOMAIN mine.flows
          /\ FrameType(tree, mine.flows[stack[d].flow], stack[d], StepAt(d))
          /\ d <= Level(mine)[stack[d].flow]
          /\ d = 1 <=> stack[d].flow = Root
    /\ \A d, e \in 1..Len(stack) :
          d < e => Level(mine)[stack[d].flow] < Level(mine)[stack[e].flow]
    /\ \A d \in 2..Len(stack) :
          LET above == mine.flows[stack[d - 1].flow][stack[d - 1].i]
          IN above.sub /\ above.name = stack[d].flow

StateType ==
    /\ spec \in Specs /\ mine \in Specs
    /\ {realm, copy, rcopy} \subseteq RealmRepresentations
    /\ step \in FlowSteps
    /\ step \in {"idle", "ensureRootFlow", "bind", "updateRealm"} <=> stack = << >>
    /\ step \in {"idle", "ensureRootFlow"} => finished = {}
    /\ step \notin {"idle", "ensureRootFlow"} => rootThere
    /\ finished \subseteq DOMAIN mine.flows
    /\ rstep \in {"idle", "updateRealm"}
    /\ budget \in 0..MaxDisturbances
    /\ {clean, settled, rootThere} \subseteq BOOLEAN

Roots == IF rootThere THEN {Root} ELSE {}

TreeInv == TreeType(tree, Roots) /\ Rooted(tree) /\ PlacesType(tree)

TypeInv == StateType /\ TreeInv /\ StackType

\* The execution is of the kind and the name that the entry declares.
Alike(e, w) == e.sub = w.sub /\ e.name = w.name


-----------------------------------------------------------------------------
(***************************************************************************)
(* The operators of the model.                                             *)
(***************************************************************************)

\* A set of numbers that is not empty has a least element.
LEMMA LeastIsLeast ==
    ASSUME NEW S, S \subseteq Nat, S # {}
    PROVE  Least(S) \in S
  <1> DEFINE R == {ss \in Nat \X Nat : ss[1] < ss[2]}
  <1>1. OpToRel(<, Nat) = R
    BY Zenon DEF OpToRel
  <1>2. IsWellFoundedOn(R, Nat)
    BY <1>1, NatLessThanWellFounded, Zenon
  <1>3. \A x, y \in Nat : <<y, x>> \in R <=> y < x
    OBVIOUS
  <1> HIDE DEF R
  <1>4. \E x \in S : \A y \in S : ~(<<y, x>> \in R)
    BY <1>2, WFMin
  <1>5. PICK x \in S : \A y \in S : ~(<<y, x>> \in R)
    BY <1>4
  <1>6. \A y \in S : ~(y < x)
    BY <1>3, <1>5, Zenon
  <1>7. \A y \in S : x <= y
    BY <1>6
  <1> QED
    BY <1>7 DEF Least

Listing == Seq([id : Ids, rep : Executions])

\* The execution bears the entry's name or its alias.
Bears(e, w) == e.name = w.name \/ (w.alias # "" /\ e.cfg.alias = w.alias)

\* The k-th of a list is unclaimed and of the entry's kind, and bears its name or
\* its alias; for k = 0, no unclaimed execution of that kind bears the name.
Answers(live, w, used, k) ==
    /\ k \in Nat
    /\ k # 0 => /\ k \in DOMAIN live
                /\ live[k].id \notin used
                /\ live[k].rep.sub = w.sub
                /\ Bears(live[k].rep, w)
    /\ k = 0 => \A j \in DOMAIN live :
                  live[j].id \notin used => ~Alike(live[j].rep, w)

LEMMA Matching ==
    ASSUME NEW live \in Listing, NEW w, NEW used
    PROVE  Answers(live, w, used, matchingExecution(live, w, used))
  <1> DEFINE open == {j \in DOMAIN live : live[j].id \notin used /\ live[j].rep.sub = w.sub}
             aliased == {j \in open : w.alias # "" /\ live[j].rep.cfg.alias = w.alias}
             alike == {j \in open : live[j].rep.name = w.name}
  <1>1. matchingExecution(live, w, used)
          = IF aliased # {} THEN Least(aliased) ELSE IF alike # {} THEN Least(alike) ELSE 0
    BY DEF matchingExecution
  <1>2. DOMAIN live \subseteq Nat /\ 0 \notin DOMAIN live
    BY DEF Listing
  <1>3. aliased # {} => Least(aliased) \in aliased
    BY <1>2, LeastIsLeast
  <1>4. alike # {} => Least(alike) \in alike
    BY <1>2, LeastIsLeast
  <1>5. \A j \in DOMAIN live : live[j].id \notin used /\ Alike(live[j].rep, w) => j \in alike
    BY DEF Alike
  <1>6. \A j \in aliased :
           /\ j \in DOMAIN live /\ live[j].id \notin used /\ live[j].rep.sub = w.sub
           /\ w.alias # "" /\ live[j].rep.cfg.alias = w.alias
    OBVIOUS
  <1>7. \A j \in alike :
           /\ j \in DOMAIN live /\ live[j].id \notin used /\ live[j].rep.sub = w.sub
           /\ live[j].rep.name = w.name
    OBVIOUS
  <1> HIDE DEF aliased, alike
  <1> DEFINE k == matchingExecution(live, w, used)
  <1>11. k = IF aliased # {} THEN Least(aliased) ELSE IF alike # {} THEN Least(alike) ELSE 0
    BY <1>1
  <1> SUFFICES Answers(live, w, used, k)
    OBVIOUS
  <1> HIDE DEF k
  <1>8. CASE aliased # {}
    BY <1>11, <1>2, <1>3, <1>6, <1>8 DEF Answers, Bears
  <1>9. CASE aliased = {} /\ alike # {}
    BY <1>11, <1>2, <1>4, <1>7, <1>9 DEF Answers, Bears
  <1>10. CASE aliased = {} /\ alike = {}
    BY <1>11, <1>2, <1>5, <1>10 DEF Answers
  <1> QED
    BY <1>8, <1>9, <1>10

LEMMA ListingElement ==
    ASSUME NEW live \in Listing, NEW k \in DOMAIN live
    PROVE  k \in Nat \ {0} /\ live[k].id \in Ids /\ live[k].rep \in Executions
  <1> DEFINE S == [id : Ids, rep : Executions]
  <1>0. live \in Seq(S)
    BY DEF Listing
  <1> HIDE DEF S
  <1>1. Len(live) \in Nat /\ DOMAIN live = 1..Len(live) /\ \A j \in 1..Len(live) : live[j] \in S
    BY <1>0
  <1>2. k \in 1..Len(live) /\ live[k] \in S
    BY <1>1
  <1>3. live[k].id \in Ids /\ live[k].rep \in Executions
    BY <1>2 DEF S
  <1> QED
    BY <1>1, <1>2, <1>3

\* A list of executions: each as it is, and all of them.
LEMMA ListingOf ==
    ASSUME NEW S, S \subseteq DOMAIN tree, S \subseteq Ids,
           \A i \in S : tree[i] \in Executions, NEW live \in Listings(S)
    PROVE  /\ live \in Listing
           /\ \A k \in DOMAIN live : live[k].id \in S /\ live[k].rep = tree[live[k].id]
           /\ S = {live[k].id : k \in DOMAIN live}
  <1> DEFINE n == Cardinality(S)
  <1>1. IsFiniteSet(S) /\ n \in Nat
    BY FlowSyncAssumption, FS_Subset, FS_CardinalityType
  <1>2. PICK q \in [1..n -> S] :
           /\ live = [k \in 1..n |-> [id |-> q[k], rep |-> tree[q[k]]]]
           /\ \A j, k \in 1..n : j < k => q[j] # q[k] /\ tree[q[j]].prio <= tree[q[k]].prio
    BY Zenon DEF Listings
  <1> HIDE DEF n
  <1>3. DOMAIN live = 1..n /\ \A k \in 1..n : live[k].id = q[k] /\ live[k].rep = tree[q[k]]
    BY <1>2
  <1>4. q \in Injection(1..n, S)
    BY <1>1, <1>2 DEF Injection, IsInjective
  <1>5. IsFiniteSet(1..n) /\ Cardinality(1..n) = n
    <2>1. IsFiniteSet(1..n) /\ Cardinality(1..n) = IF 1 > n THEN 0 ELSE n - 1 + 1
      BY <1>1, FS_Interval
    <2> QED
      BY <1>1, <2>1
  <1>6. q \in Surjection(1..n, S)
    <2>1. Cardinality(1..n) = Cardinality(S) <=> q \in Surjection(1..n, S)
      BY <1>1, <1>4, FS_Injection
    <2> QED
      BY <2>1, <1>5 DEF n
  <1>7. \A i \in S : \E k \in 1..n : q[k] = i
    BY <1>6 DEF Surjection
  <1>8. \A k \in 1..n : live[k] \in [id : Ids, rep : Executions]
    BY <1>2
  <1>9. live \in Listing
    BY <1>1, <1>2, <1>8 DEF Listing
  <1>10. S = {live[k].id : k \in DOMAIN live}
    BY <1>3, <1>7, <1>2
  <1> QED
    BY <1>3, <1>2, <1>9, <1>10

\* A fresh identifier is unseen.
LEMMA FreshUnseen ==
    ASSUME Unseen # {}
    PROVE  Fresh \in Ids /\ Fresh \notin DOMAIN tree /\ Fresh \notin Remembered
  BY DEF Fresh, Unseen

\* Below is closed and holds the execution itself.
LEMMA BelowClosed ==
    ASSUME NEW t, NEW i \in DOMAIN t
    PROVE  /\ i \in Below(t, i)
           /\ Below(t, i) \subseteq DOMAIN t
           /\ ClosedIn(t, Below(t, i))
           /\ \A S \in SUBSET DOMAIN t : i \in S /\ ClosedIn(t, S) => Below(t, i) \subseteq S
  <1>1. i \in Below(t, i) /\ Below(t, i) \subseteq DOMAIN t
    BY DEF Below
  <1>2. \A S \in SUBSET DOMAIN t : i \in S /\ ClosedIn(t, S) => Below(t, i) \subseteq S
    BY DEF Below, ClosedIn
  <1>3. ASSUME NEW k \in Below(t, i), t[k].sub, NEW j \in Children(t, t[k].name)
        PROVE  j \in Below(t, i)
    <2>1. j \in DOMAIN t
      BY <1>3 DEF Children
    <2>2. ASSUME NEW S \in SUBSET DOMAIN t, i \in S,
                 \A m \in S : t[m].sub => Children(t, t[m].name) \subseteq S
          PROVE  j \in S
      <3>1. k \in S
        BY <2>2 DEF Below
      <3> QED
        BY <3>1, <2>2, <1>3
    <2> QED
      BY <2>1, <2>2 DEF Below
  <1>4. ClosedIn(t, Below(t, i))
    BY <1>3 DEF ClosedIn
  <1> QED
    BY <1>1, <1>2, <1>4

\* Storing a configuration twice makes no difference to storing it once.
LEMMA StoredRendered ==
    ASSUME NEW c \in Configs
    PROVE  /\ Stored(Rendered(c)) = Stored(c)
           /\ Stored(c) \in Configs
           /\ Stored(c).alias = c.alias
           /\ Rendered(c) = Stored(c)
  <1>1. Rendered(c) = Stored(c)
    BY DEF Rendered, Stored, stringMapRepresentation
  <1>2. Stored(c) \in Configs /\ Stored(c).alias = c.alias
    BY DEF Stored, Configs
  <1>3. Stored(Stored(c)) = Stored(c)
    <2> DEFINE vals(x) == {v \in x : v[2] # ""}
               rec(x) == [alias |-> c.alias, values |-> x]
    <2>1. c = rec(c.values)
      BY DEF Configs
    <2>2. ASSUME NEW x
          PROVE  Stored(rec(x)) = rec(vals(x))
      <3>1. Stored(rec(x)) = [rec(x) EXCEPT !.values = vals(rec(x).values)]
        BY DEF Stored
      <3>2. rec(x).values = x
        OBVIOUS
      <3>3. \A y : [rec(x) EXCEPT !.values = y] = rec(y)
        OBVIOUS
      <3> HIDE DEF vals
      <3> QED
        BY <3>1, <3>2, <3>3
    <2>3. \A x : vals(vals(x)) = vals(x)
      OBVIOUS
    <2> HIDE DEF vals, rec
    <2> QED
      BY <2>1, <2>2, <2>3
  <1> QED
    BY <1>1, <1>2, <1>3

\* A spec: its flows are lists of entries, and its levels are levels.
LEMMA SpecFacts ==
    ASSUME NEW s \in Specs
    PROVE  /\ Root \in DOMAIN s.flows /\ DOMAIN s.flows \subseteq STRING
           /\ \A f \in DOMAIN s.flows :
                 /\ s.flows[f] \in Seq(Entries)
                 /\ Len(s.flows[f]) \in Nat
                 /\ \A i \in 1..Len(s.flows[f]) :
                       /\ s.flows[f][i] \in Entries
                       /\ IsWant(s.flows[f][i])
                       /\ s.flows[f][i].sub => s.flows[f][i].name \in DOMAIN s.flows \ {Root}
           /\ Level(s) \in [DOMAIN s.flows -> 1..Levels]
           /\ Deeper(s, Level(s))
           /\ \A S \in SUBSET DOMAIN s.flows :
                 Root \in S /\ Closed(s.flows, S) => S = DOMAIN s.flows
           /\ s.bindings \subseteq Purposes
  <1>1. IsSpec(s)
    BY FlowSyncAssumption
  <1>2. \E level \in [DOMAIN s.flows -> 1..Levels] : Deeper(s, level)
    BY <1>1 DEF IsSpec, Deeper
  <1>3. Level(s) \in [DOMAIN s.flows -> 1..Levels] /\ Deeper(s, Level(s))
    BY <1>2, Zenon DEF Level
  <1>4. \A f \in DOMAIN s.flows :
           /\ s.flows[f] \in Seq(Entries)
           /\ \A i \in 1..Len(s.flows[f]) :
                 /\ IsWant(s.flows[f][i])
                 /\ s.flows[f][i].sub => s.flows[f][i].name \in DOMAIN s.flows \ {Root}
    BY <1>1 DEF IsSpec
  <1>5. \A f \in DOMAIN s.flows : Len(s.flows[f]) \in Nat
                                   /\ \A i \in 1..Len(s.flows[f]) : s.flows[f][i] \in Entries
    BY <1>4
  <1>6. /\ Root \in DOMAIN s.flows /\ DOMAIN s.flows \subseteq STRING
        /\ \A S \in SUBSET DOMAIN s.flows :
              Root \in S /\ Closed(s.flows, S) => S = DOMAIN s.flows
        /\ s.bindings \subseteq Purposes
    BY <1>1 DEF IsSpec, Purposes
  <1> QED
    BY <1>3, <1>4, <1>5, <1>6

-----------------------------------------------------------------------------
(***************************************************************************)
(* What happens to the tree.                                               *)
(***************************************************************************)

\* The flow f is one of the roots or a subflow of the tree.
Exists(t, roots, f) == f \in roots \/ \E k \in DOMAIN t : t[k].sub /\ t[k].name = f

\* A new execution in a flow that exists, its alias new if it is a subflow, leaves
\* a tree.
LEMMA TreeAdd ==
    ASSUME NEW t, NEW roots, NEW i \in Ids, i \notin DOMAIN t, NEW e \in Executions,
           TreeType(t, roots), roots \subseteq {Root}, Rooted(t), Exists(t, roots, e.flow),
           e.sub => e.name \in Subflows /\ ~Exists(t, roots, e.name)
    PROVE  /\ TreeType(With(t, i, e), roots)
           /\ Rooted(With(t, i, e))
           /\ DOMAIN With(t, i, e) = DOMAIN t \cup {i}
           /\ With(t, i, e)[i] = e
           /\ \A k \in DOMAIN t : With(t, i, e)[k] = t[k]
  <1> DEFINE u == With(t, i, e)
  <1>1. DOMAIN u = DOMAIN t \cup {i} /\ u[i] = e /\ \A k \in DOMAIN t : u[k] = t[k]
    BY DEF With
  <1> HIDE DEF u
  <1>2. DOMAIN u \subseteq Ids /\ \A k \in DOMAIN u : u[k] \in Executions
    BY <1>1 DEF TreeType
  <1>3. \A k \in DOMAIN u : u[k].sub => u[k].name \in Subflows
    BY <1>1 DEF TreeType
  <1>4. \A k \in DOMAIN u : u[k].flow \in roots \/ \E j \in DOMAIN u : u[j].sub /\ u[j].name = u[k].flow
    BY <1>1 DEF TreeType, Exists
  <1>5. \A k, j \in DOMAIN u : u[k].sub /\ u[j].sub /\ u[k].name = u[j].name => k = j
    BY <1>1 DEF TreeType, Exists
  <1>6. TreeType(u, roots)
    BY <1>2, <1>3, <1>4, <1>5 DEF TreeType
  <1>7. ASSUME NEW S \in SUBSET DOMAIN u, Children(u, Root) \subseteq S, ClosedIn(u, S)
        PROVE  S = DOMAIN u
    <2>1. Children(t, Root) \subseteq S \ {i}
      BY <1>1, <1>7 DEF Children
    <2>2. ASSUME NEW k \in S \ {i}, t[k].sub
          PROVE  Children(t, t[k].name) \subseteq S \ {i}
      <3>1. k \in DOMAIN t /\ u[k] = t[k]
        BY <1>1
      <3>2. Children(u, t[k].name) \subseteq S
        BY <3>1, <2>2, <1>7 DEF ClosedIn
      <3> QED
        BY <3>2, <1>1 DEF Children
    <2>3. S \ {i} = DOMAIN t
      BY <2>1, <2>2, <1>1 DEF Rooted, ClosedIn
    <2>4. i \in S
      <3>1. CASE e.flow = Root
        BY <3>1, <1>1, <1>7 DEF Children
      <3>2. CASE e.flow # Root
        <4>1. PICK k \in DOMAIN t : t[k].sub /\ t[k].name = e.flow
          BY <3>2 DEF Exists
        <4>2. k \in S /\ u[k] = t[k]
          BY <4>1, <2>3, <1>1
        <4>3. i \in Children(u, u[k].name)
          BY <4>1, <4>2, <1>1 DEF Children
        <4> QED
          BY <4>1, <4>2, <4>3, <1>7 DEF ClosedIn
      <3> QED
        BY <3>1, <3>2
    <2> QED
      BY <2>3, <2>4, <1>1
  <1>8. Rooted(u)
    BY <1>7 DEF Rooted
  <1> QED
    BY <1>1, <1>6, <1>8 DEF u

\* The same executions in the same places, whatever else has changed in them.
SameShape(t, u) == DOMAIN u = DOMAIN t /\ \A i \in DOMAIN t : SameExecution(t[i], u[i])

LEMMA TreeChange ==
    ASSUME NEW t, NEW u, NEW roots, SameShape(t, u), TreeType(t, roots), Rooted(t),
           \A i \in DOMAIN u : u[i] \in Executions
    PROVE  TreeType(u, roots) /\ Rooted(u)
  <1>1. /\ DOMAIN u = DOMAIN t
        /\ \A i \in DOMAIN t : t[i].flow = u[i].flow /\ t[i].sub = u[i].sub /\ t[i].name = u[i].name
    BY DEF SameShape, SameExecution
  <1>2. TreeType(u, roots)
    BY <1>1 DEF TreeType
  <1>3. \A f : Children(u, f) = Children(t, f)
    BY <1>1 DEF Children
  <1>4. \A S \in SUBSET DOMAIN t : ClosedIn(u, S) => ClosedIn(t, S)
    BY <1>1, <1>3 DEF ClosedIn
  <1>5. Rooted(u)
    BY <1>1, <1>3, <1>4 DEF Rooted
  <1> QED
    BY <1>2, <1>5

\* An execution that goes with everything below it leaves a tree.
LEMMA TreeRemove ==
    ASSUME NEW t, NEW roots, TreeType(t, roots), Rooted(t), NEW i \in DOMAIN t
    PROVE  LET u == Without(t, Below(t, i))
           IN /\ TreeType(u, roots) /\ Rooted(u)
              /\ DOMAIN u = DOMAIN t \ Below(t, i)
              /\ \A k \in DOMAIN u : u[k] = t[k]
  <1> DEFINE B == Below(t, i)
             u == Without(t, B)
  <1>1. DOMAIN u = DOMAIN t \ B /\ \A k \in DOMAIN u : u[k] = t[k]
    BY DEF Without
  <1>2. B \subseteq DOMAIN t /\ ClosedIn(t, B)
    BY BelowClosed
  <1> HIDE DEF u, B
  <1>3. ASSUME NEW k \in DOMAIN u
        PROVE  u[k].flow \in roots \/ \E j \in DOMAIN u : u[j].sub /\ u[j].name = u[k].flow
    <2>1. SUFFICES ASSUME u[k].flow \notin roots
                   PROVE  \E j \in DOMAIN u : u[j].sub /\ u[j].name = u[k].flow
      OBVIOUS
    <2>2. PICK j \in DOMAIN t : t[j].sub /\ t[j].name = t[k].flow
      BY <1>1, <2>1 DEF TreeType
    <2>3. j \notin B
      BY <1>1, <1>2, <2>2 DEF ClosedIn, Children
    <2> QED
      BY <1>1, <2>2, <2>3
  <1>4. TreeType(u, roots)
    BY <1>1, <1>3 DEF TreeType
  <1>5. ASSUME NEW S \in SUBSET DOMAIN u, Children(u, Root) \subseteq S, ClosedIn(u, S)
        PROVE  S = DOMAIN u
    <2>1. Children(t, Root) \subseteq S \cup B
      BY <1>1, <1>5 DEF Children
    <2>2. ASSUME NEW k \in S \cup B, t[k].sub
          PROVE  Children(t, t[k].name) \subseteq S \cup B
      <3>1. CASE k \in B
        BY <3>1, <2>2, <1>2 DEF ClosedIn
      <3>2. CASE k \in S
        <4>1. Children(u, t[k].name) \subseteq S
          BY <3>2, <2>2, <1>1, <1>5 DEF ClosedIn
        <4> QED
          BY <4>1, <1>1 DEF Children
      <3> QED
        BY <3>1, <3>2
    <2>3. S \cup B = DOMAIN t
      BY <2>1, <2>2, <1>1, <1>2 DEF Rooted, ClosedIn
    <2> QED
      BY <2>3, <1>1
  <1>6. Rooted(u)
    BY <1>5 DEF Rooted
  <1> QED
    BY <1>1, <1>4, <1>6 DEF u, B

-----------------------------------------------------------------------------
(***************************************************************************)
(* What happens to the stack.                                              *)
(***************************************************************************)

RestSteps == {"idle", "ensureRootFlow", "bind", "updateRealm"}

WorkSteps == FlowSteps \ RestSteps

\* The innermost flow remembers fr now, and the others what they did.
TopBecomes(fr) ==
    /\ stack' \in Seq(Frames) /\ Len(stack') = Len(stack)
    /\ \A d \in 1..(Len(stack) - 1) : stack'[d] = stack[d]
    /\ stack'[Len(stack)] = fr

\* Of the executions the pass remembers none has become another one.
KeepsSeen ==
    \A i \in Remembered \cap DOMAIN tree' : i \in DOMAIN tree /\ SameExecution(tree[i], tree'[i])

\* A frame and its fields.
FrameIs(fr, flow, i, live, used, cur) ==
    /\ fr \in Frames /\ fr.flow = flow /\ fr.i = i /\ fr.live = live
    /\ fr.used = used /\ fr.cur = cur
LEMMA FrameUpdates ==
    ASSUME NEW fr \in Frames, NEW i \in Nat, NEW live \in Listing, NEW used \in SUBSET Ids,
           NEW cur \in Nat
    PROVE  /\ FrameIs([fr EXCEPT !.i = i, !.cur = cur], fr.flow, i, fr.live, fr.used, cur)
           /\ FrameIs([fr EXCEPT !.i = i, !.used = used], fr.flow, i, fr.live, used, fr.cur)
           /\ FrameIs([fr EXCEPT !.live = live], fr.flow, fr.i, live, fr.used, fr.cur)
           /\ FrameIs([fr EXCEPT !.live = live, !.used = used, !.cur = cur], fr.flow, fr.i, live, used, cur)
           /\ FrameIs([fr EXCEPT !.live = live, !.used = used, !.i = i, !.cur = cur], fr.flow, i, live, used, cur)
  <1>1. FrameIs([fr EXCEPT !.i = i, !.cur = cur], fr.flow, i, fr.live, fr.used, cur)
    BY DEF FrameIs, Frames, Listing
  <1>2. FrameIs([fr EXCEPT !.i = i, !.used = used], fr.flow, i, fr.live, used, fr.cur)
    BY DEF FrameIs, Frames, Listing
  <1>3. FrameIs([fr EXCEPT !.live = live], fr.flow, fr.i, live, fr.used, fr.cur)
    BY DEF FrameIs, Frames, Listing
  <1>4. FrameIs([fr EXCEPT !.live = live, !.used = used, !.cur = cur], fr.flow, fr.i, live, used, cur)
    BY DEF FrameIs, Frames, Listing
  <1>5. FrameIs([fr EXCEPT !.live = live, !.used = used, !.i = i, !.cur = cur], fr.flow, i, live, used, cur)
    BY DEF FrameIs, Frames, Listing
  <1> QED
     BY <1>1, <1>2, <1>3, <1>4, <1>5, Zenon

LEMMA ReplaceTop ==
    ASSUME stack \in Seq(Frames), stack # << >>, NEW fr \in Frames, Replace(fr)
    PROVE  TopBecomes(fr)
  <1>1. Len(stack) \in Nat \ {0}
    OBVIOUS
  <1>2. Len(stack) \in 1..Len(stack)
    BY <1>1
  <1> DEFINE u == [stack EXCEPT ![Len(stack)] = fr]
  <1>3. /\ u \in Seq(Frames)
        /\ Len(u) = Len(stack)
        /\ \A j \in 1..Len(stack) : u[j] = IF j = Len(stack) THEN fr ELSE stack[j]
    BY <1>2, ExceptSeq
  <1>4. stack' = u
    BY DEF Replace
  <1> HIDE DEF u
  <1> QED
    BY <1>1, <1>3, <1>4 DEF TopBecomes

LEMMA KeepTop ==
    ASSUME stack \in Seq(Frames), stack # << >>, stack' = stack
    PROVE  TopBecomes(Top)
  BY DEF TopBecomes, Top

\* The innermost flow of a pass at work.
AtWork ==
    /\ stack \in Seq(Frames) /\ stack # << >>
    /\ Len(stack) \in Nat \ {0}
    /\ Top \in Frames
    /\ Top.flow \in DOMAIN mine.flows
    /\ mine \in Specs
    /\ FrameType(tree, Desired, Top, step)
    /\ Len(Desired) \in Nat
    /\ \A j \in 1..Len(Desired) : Desired[j] \in Entries /\ IsWant(Desired[j])
    /\ Top.i \in 1..(Len(Desired) + 1)
    /\ step \in EntrySteps =>
          Top.i \in 1..Len(Desired) /\ Want \in Entries /\ IsWant(Want)
    /\ Top.live \in Listing /\ Top.used \in SUBSET Ids
    /\ rootThere

LEMMA TopFacts ==
    ASSUME TypeInv, step \in WorkSteps
    PROVE  AtWork
  <1>1. stack \in Seq(Frames) /\ stack # << >> /\ mine \in Specs /\ rootThere
    BY DEF TypeInv, StateType, StackType, WorkSteps, RestSteps
  <1>2. Len(stack) \in Nat \ {0} /\ Len(stack) \in 1..Len(stack) /\ Top \in Frames
    BY <1>1 DEF Top
  <1>3. Top.flow \in DOMAIN mine.flows
    BY <1>2 DEF TypeInv, StackType, Top
  <1>4. FrameType(tree, Desired, Top, StepAt(Len(stack)))
    BY <1>2 DEF TypeInv, StackType, Top, Desired
  <1>5. StepAt(Len(stack)) = step
    BY DEF StepAt
  <1>6. /\ Len(Desired) \in Nat
        /\ \A j \in 1..Len(Desired) : Desired[j] \in Entries /\ IsWant(Desired[j])
    BY <1>1, <1>3, SpecFacts DEF Desired
  <1>7. Top.i \in 1..(Len(Desired) + 1) /\ (step \in EntrySteps => Top.i <= Len(Desired))
    BY <1>4, <1>5 DEF FrameType
  <1>8. step \in EntrySteps => Top.i \in 1..Len(Desired) /\ Want \in Entries /\ IsWant(Want)
    BY <1>6, <1>7 DEF Want
  <1>9. Top.live \in Listing /\ Top.used \in SUBSET Ids
    BY <1>2 DEF Frames, Listing
  <1> QED
    BY <1>1, <1>2, <1>3, <1>4, <1>5, <1>6, <1>7, <1>8, <1>9 DEF AtWork

LEMMA FrameTypeKept ==
    ASSUME NEW t, NEW u, NEW D, NEW fr, NEW st, FrameType(t, D, fr, st),
           \A k \in DOMAIN fr.live :
              fr.live[k].id \in DOMAIN u =>
                 /\ fr.live[k].id \in DOMAIN t
                 /\ SameExecution(t[fr.live[k].id], u[fr.live[k].id])
    PROVE  FrameType(u, D, fr, st)
  <1>1. ASSUME NEW k \in DOMAIN fr.live
        PROVE  /\ fr.live[k].rep.flow = fr.flow
               /\ fr.live[k].id \in DOMAIN u => SameExecution(fr.live[k].rep, u[fr.live[k].id])
    BY DEF FrameType, SameExecution
  <1> QED
    BY <1>1 DEF FrameType

LEMMA RememberedIds ==
    ASSUME NEW d \in DOMAIN stack
    PROVE  /\ \A k \in DOMAIN stack[d].live : stack[d].live[k].id \in Remembered
           /\ stack[d].used \subseteq Remembered
  BY DEF Remembered

\* The stack is as it should be when its innermost frame is.
LEMMA StackTypeTop ==
    ASSUME TypeInv, step \in WorkSteps, NEW fr, TopBecomes(fr), fr.flow = Top.flow,
           mine' = mine, KeepsSeen, FrameType(tree', Desired, fr, step')
    PROVE  StackType'
  <1>0. AtWork
    BY TopFacts
  <1> USE <1>0 DEF AtWork
  <1>1. Len(stack') = Len(stack) /\ Len(stack) \in Nat \ {0} /\ stack' \in Seq(Frames)
    BY DEF TopBecomes
  <1>2. \A d \in 1..Len(stack) : stack'[d].flow = stack[d].flow
    BY <1>1 DEF TopBecomes, Top
  <1>3. \A d \in 1..(Len(stack) - 1) : stack'[d] = stack[d]
    BY DEF TopBecomes
  <1>4. ASSUME NEW d \in 1..Len(stack)
        PROVE  FrameType(tree', mine'.flows[stack'[d].flow], stack'[d], StepAt(d)')
    <2>1. CASE d = Len(stack)
      BY <2>1, <1>1, <1>2 DEF TopBecomes, StepAt, Desired, Top
    <2>2. CASE d # Len(stack)
      <3>1. d \in 1..(Len(stack) - 1) /\ d \in DOMAIN stack
        BY <2>2, <1>1
      <3>2. FrameType(tree, mine.flows[stack[d].flow], stack[d], "descend")
        BY <3>1, <2>2 DEF TypeInv, StackType, StepAt
      <3>3. \A k \in DOMAIN stack[d].live :
               stack[d].live[k].id \in DOMAIN tree' =>
                  /\ stack[d].live[k].id \in DOMAIN tree
                  /\ SameExecution(tree[stack[d].live[k].id], tree'[stack[d].live[k].id])
        BY <3>1, RememberedIds DEF KeepsSeen
      <3>4. FrameType(tree', mine.flows[stack[d].flow], stack[d], "descend")
        BY <3>2, <3>3, FrameTypeKept
      <3>5. StepAt(d)' = "descend"
        BY <2>2, <1>1 DEF StepAt
      <3> QED
        BY <3>1, <3>4, <3>5, <1>3
    <2> QED
      BY <2>1, <2>2
  <1>5. \A d \in 1..Len(stack') :
           /\ stack'[d].flow \in DOMAIN mine'.flows
           /\ d <= Level(mine')[stack'[d].flow]
           /\ d = 1 <=> stack'[d].flow = Root
    BY <1>1, <1>2 DEF TypeInv, StackType
  <1>6. \A d, e \in 1..Len(stack') :
           d < e => Level(mine')[stack'[d].flow] < Level(mine')[stack'[e].flow]
    BY <1>1, <1>2 DEF TypeInv, StackType
  <1>7. ASSUME NEW d \in 2..Len(stack')
        PROVE  LET above == mine'.flows[stack'[d - 1].flow][stack'[d - 1].i]
               IN above.sub /\ above.name = stack'[d].flow
    <2>1. d - 1 \in 1..(Len(stack) - 1) /\ d \in 1..Len(stack) /\ d \in 2..Len(stack)
      BY <1>1
    <2>2. stack'[d - 1] = stack[d - 1] /\ stack'[d].flow = stack[d].flow
      BY <2>1, <1>2, <1>3
    <2> QED
      BY <2>1, <2>2 DEF TypeInv, StackType
  <1> QED
    BY <1>1, <1>4, <1>5, <1>6, <1>7 DEF StackType

\* A step that keeps the tree.
LEMMA TreeKept ==
    ASSUME TreeInv, UNCHANGED <<tree, rootThere>>
    PROVE  TreeInv' /\ KeepsSeen
  BY DEF TreeInv, TreeType, PlacesType, Roots, KeepsSeen, SameExecution

\* A step within the innermost flow.
LEMMA StepWithin ==
    ASSUME TypeInv, step \in WorkSteps, step' \in WorkSteps, NEW fr, TopBecomes(fr),
           fr.flow = Top.flow, FrameType(tree', Desired, fr, step'), KeepsSeen, TreeInv',
           UNCHANGED <<mine, rootThere, realm, copy, finished, clean, realmVars, adminVars>>
    PROVE  TypeInv'
  <1>1. StackType'
    BY StackTypeTop
  <1>2. stack' # << >>
    BY TopFacts DEF TopBecomes, AtWork
  <1>3. StateType'
    BY <1>2 DEF TypeInv, StateType, WorkSteps, RestSteps, realmVars, adminVars
  <1> QED
    BY <1>1, <1>3 DEF TypeInv

LEMMA NoRealmType ==
    NoRealm \in RealmRepresentations /\ Representation("default", "other") \in RealmRepresentations
  BY DEF NoRealm, Representation, RealmRepresentations

\* The end of a pass.
LEMMA StepFinish ==
    ASSUME TypeInv, Finish, realm' \in RealmRepresentations,
           UNCHANGED <<tree, rootThere, mine, clean, realmVars, adminVars>>
    PROVE  TypeInv'
  <1>1. StackType'
    BY DEF Finish, StackType
  <1>2. TreeInv'
    BY TreeKept DEF TypeInv
  <1>3. NoRealm \in RealmRepresentations
    BY NoRealmType
  <1>4. StateType'
    BY <1>3 DEF TypeInv, StateType, Finish, FlowSteps, realmVars, adminVars
  <1> QED
    BY <1>1, <1>2, <1>4 DEF TypeInv

LEMMA StepFail ==
    ASSUME TypeInv, Fail, UNCHANGED <<mine, clean, realmVars, adminVars>>
    PROVE  TypeInv'
  <1>1. realm' \in RealmRepresentations
    BY DEF Fail, TypeInv, StateType
  <1> QED
    BY <1>1, StepFinish DEF Fail

-----------------------------------------------------------------------------
(***************************************************************************)
(* Type correctness, action by action.                                     *)
(***************************************************************************)

\* The execution g is e, but for the requirement, the configuration and the
\* priority.
Becomes(e, g, req, cfg, prio) ==
    SameExecution(e, g) /\ g.req = req /\ g.cfg = cfg /\ g.prio = prio

\* The tree u is t, but for c.
Changed(t, u, c, req, cfg, prio) ==
    /\ DOMAIN u = DOMAIN t
    /\ \A j \in DOMAIN t \ {c} : u[j] = t[j]
    /\ Becomes(t[c], u[c], req, cfg, prio)
    /\ u[c] \in Executions

\* The requirement and the priority, in either order.
LEMMA ExecutionChanges ==
    ASSUME NEW e \in Executions, NEW r \in Requirements, NEW p \in Nat
    PROVE  /\ [[e EXCEPT !.req = r] EXCEPT !.prio = p] \in Executions
           /\ Becomes(e, [[e EXCEPT !.req = r] EXCEPT !.prio = p], r, e.cfg, p)
           /\ [[e EXCEPT !.prio = p] EXCEPT !.req = r] \in Executions
           /\ Becomes(e, [[e EXCEPT !.prio = p] EXCEPT !.req = r], r, e.cfg, p)
  <1>1. \A f, h : (\E z : Becomes(e, f, r, e.cfg, z)) /\ Becomes(f, h, f.req, f.cfg, p)
           => Becomes(e, h, r, e.cfg, p)
    BY DEF Becomes, SameExecution
  <1>2. \A f, h : (\E z : Becomes(e, f, z, e.cfg, p)) /\ Becomes(f, h, r, f.cfg, f.prio)
           => Becomes(e, h, r, e.cfg, p)
    BY DEF Becomes, SameExecution
  <1>3. ASSUME NEW f, f = [e EXCEPT !.req = r]
        PROVE  [f EXCEPT !.prio = p] \in Executions /\ Becomes(e, [f EXCEPT !.prio = p], r, e.cfg, p)
    <2>1. f \in Executions /\ Becomes(e, f, r, e.cfg, e.prio)
      BY <1>3 DEF Executions, Becomes, SameExecution
    <2>2. [f EXCEPT !.prio = p] \in Executions
          /\ Becomes(f, [f EXCEPT !.prio = p], f.req, f.cfg, p)
      BY <2>1 DEF Executions, Becomes, SameExecution
    <2> QED
      BY <2>1, <2>2, <1>1, Zenon
  <1>4. ASSUME NEW f, f = [e EXCEPT !.prio = p]
        PROVE  [f EXCEPT !.req = r] \in Executions /\ Becomes(e, [f EXCEPT !.req = r], r, e.cfg, p)
    <2>1. f \in Executions /\ Becomes(e, f, e.req, e.cfg, p)
      BY <1>4 DEF Executions, Becomes, SameExecution
    <2>2. [f EXCEPT !.req = r] \in Executions
          /\ Becomes(f, [f EXCEPT !.req = r], r, f.cfg, f.prio)
      BY <2>1 DEF Executions, Becomes, SameExecution
    <2> QED
      BY <2>1, <2>2, <1>2, Zenon
  <1> QED
    BY <1>3, <1>4, Zenon

LEMMA ChangeAt ==
    ASSUME NEW t, NEW c \in DOMAIN t, NEW e \in Executions, NEW u, u = [t EXCEPT ![c] = e],
           NEW req, NEW cfg, NEW prio, Becomes(t[c], e, req, cfg, prio)
    PROVE  Changed(t, u, c, req, cfg, prio)
  <1>1. DOMAIN u = DOMAIN t /\ u[c] = e /\ \A j \in DOMAIN t \ {c} : u[j] = t[j]
    OBVIOUS
  <1> QED
    BY <1>1, Zenon DEF Changed

\* The changes that the actions make.
LEMMA ChangeBoth ==
    ASSUME NEW t, NEW c \in DOMAIN t, t[c] \in Executions, NEW r \in Requirements, NEW p \in Nat,
           NEW u, \/ u = [t EXCEPT ![c].req = r, ![c].prio = p]
                  \/ u = [t EXCEPT ![c].prio = p, ![c].req = r]
    PROVE  Changed(t, u, c, r, t[c].cfg, p)
  <1>1. \/ u = [t EXCEPT ![c] = [[t[c] EXCEPT !.req = r] EXCEPT !.prio = p]]
        \/ u = [t EXCEPT ![c] = [[t[c] EXCEPT !.prio = p] EXCEPT !.req = r]]
    OBVIOUS
  <1> QED
    BY <1>1, ExecutionChanges, ChangeAt, Zenon

LEMMA ChangeReq ==
    ASSUME NEW t, NEW c \in DOMAIN t, t[c] \in Executions, NEW r \in Requirements,
           NEW u, u = [t EXCEPT ![c].req = r]
    PROVE  Changed(t, u, c, r, t[c].cfg, t[c].prio)
  <1>1. u = [t EXCEPT ![c] = [t[c] EXCEPT !.req = r]]
    OBVIOUS
  <1>2. [t[c] EXCEPT !.req = r] \in Executions
        /\ Becomes(t[c], [t[c] EXCEPT !.req = r], r, t[c].cfg, t[c].prio)
    BY DEF Executions, Becomes, SameExecution
  <1> QED
    BY <1>1, <1>2, ChangeAt, Zenon

LEMMA ChangePrio ==
    ASSUME NEW t, NEW c \in DOMAIN t, t[c] \in Executions, NEW p \in Nat,
           NEW u, u = [t EXCEPT ![c].prio = p]
    PROVE  Changed(t, u, c, t[c].req, t[c].cfg, p)
  <1>1. u = [t EXCEPT ![c] = [t[c] EXCEPT !.prio = p]]
    OBVIOUS
  <1>2. [t[c] EXCEPT !.prio = p] \in Executions
        /\ Becomes(t[c], [t[c] EXCEPT !.prio = p], t[c].req, t[c].cfg, p)
    BY DEF Executions, Becomes, SameExecution
  <1> QED
    BY <1>1, <1>2, ChangeAt, Zenon

LEMMA ChangeConfig ==
    ASSUME NEW t, NEW c \in DOMAIN t, t[c] \in Executions, NEW g \in Configs,
           NEW u, u = [t EXCEPT ![c].cfg = g]
    PROVE  Changed(t, u, c, t[c].req, g, t[c].prio)
  <1>1. u = [t EXCEPT ![c] = [t[c] EXCEPT !.cfg = g]]
    OBVIOUS
  <1>2. [t[c] EXCEPT !.cfg = g] \in Executions
        /\ Becomes(t[c], [t[c] EXCEPT !.cfg = g], t[c].req, g, t[c].prio)
    BY DEF Executions, Becomes, SameExecution
  <1> QED
    BY <1>1, <1>2, ChangeAt, Zenon

\* A change of one execution keeps the tree a tree.
LEMMA TreeChanged ==
    ASSUME TreeInv, NEW c \in DOMAIN tree, NEW r, NEW g, NEW p,
           Changed(tree, tree', c, r, g, p), rootThere' = rootThere,
           \/ p \in {0, tree[c].prio}
           \/ \E s \in Specs : /\ tree[c].flow \in DOMAIN s.flows
                               /\ p \in 0..(Len(s.flows[tree[c].flow]) - 1)
    PROVE  TreeInv' /\ KeepsSeen
  <1>2. tree'[c] \in Executions /\ SameExecution(tree[c], tree'[c]) /\ tree'[c].prio = p
    BY DEF Changed, Becomes
  <1>3. DOMAIN tree' = DOMAIN tree /\ \A j \in DOMAIN tree \ {c} : tree'[j] = tree[j]
    BY DEF Changed
  <1>4. \A j \in DOMAIN tree : SameExecution(tree[j], tree'[j]) /\ tree'[j] \in Executions
    BY <1>2, <1>3 DEF TreeInv, TreeType, SameExecution
  <1>5. SameShape(tree, tree')
    BY <1>3, <1>4 DEF SameShape
  <1>6. TreeType(tree', Roots) /\ Rooted(tree')
    BY <1>3, <1>4, <1>5, TreeChange DEF TreeInv
  <1>7. ASSUME NEW j \in DOMAIN tree'
        PROVE  \E s \in Specs :
                  /\ tree'[j].flow \in DOMAIN s.flows
                  /\ tree'[j].prio \in {0} \cup 0..(Len(s.flows[tree'[j].flow]) - 1)
    <2>1. CASE j # c
      BY <2>1, <1>3 DEF TreeInv, PlacesType
    <2>2. CASE j = c
      <3>1. \E s \in Specs : /\ tree[c].flow \in DOMAIN s.flows
                             /\ tree[c].prio \in {0} \cup 0..(Len(s.flows[tree[c].flow]) - 1)
        BY DEF TreeInv, PlacesType
      <3> QED
        BY <3>1, <2>2, <1>2, <1>3 DEF SameExecution
    <2> QED
      BY <2>1, <2>2
  <1>8. Roots' = Roots
    BY DEF Roots
  <1>9. TreeInv'
    BY <1>6, <1>7, <1>8 DEF TreeInv, PlacesType
  <1> QED
    BY <1>3, <1>4, <1>9 DEF KeepsSeen

\* A new execution in a flow that exists.
LEMMA TreeGrown ==
    ASSUME TypeInv, Unseen # {}, NEW f \in Flows, NEW w, w.sub \in BOOLEAN, w.name \in STRING,
           w.sub => w.name \in Subflows /\ w.name \notin Flows,
           tree' = With(tree, Fresh, NewExecution(f, w)), rootThere' = rootThere
    PROVE  /\ TreeInv' /\ KeepsSeen
           /\ Fresh \notin DOMAIN tree /\ Fresh \notin Remembered
           /\ DOMAIN tree' = DOMAIN tree \cup {Fresh}
           /\ tree'[Fresh] = NewExecution(f, w)
           /\ \A k \in DOMAIN tree : tree'[k] = tree[k]
  <1> DEFINE e == NewExecution(f, w)
  <1>1. TreeType(tree, Roots) /\ Rooted(tree) /\ PlacesType(tree) /\ spec \in Specs
    BY DEF TypeInv, TreeInv, StateType
  <1>2. \A g : g \in Flows <=> Exists(tree, Roots, g)
    BY DEF Flows, Exists, Roots
  <1>3. \E s \in Specs : f \in DOMAIN s.flows
    BY <1>1, SpecFacts DEF Flows, TreeType, Subflows
  <1>4. f \in STRING
    BY <1>3, SpecFacts
  <1>5. NoConfig \in Configs
    BY EmptyAliasAssumption DEF NoConfig, Configs
  <1>6. e \in Executions /\ e.flow = f /\ e.sub = w.sub /\ e.name = w.name /\ e.prio = 0
    BY <1>4, <1>5, FlowSyncAssumption DEF NewExecution, Executions
  <1>7. Fresh \in Ids /\ Fresh \notin DOMAIN tree /\ Fresh \notin Remembered
    BY FreshUnseen
  <1> HIDE DEF e
  <1>8. Roots \subseteq {Root}
    BY DEF Roots
  <1>9. /\ TreeType(With(tree, Fresh, e), Roots) /\ Rooted(With(tree, Fresh, e))
        /\ DOMAIN With(tree, Fresh, e) = DOMAIN tree \cup {Fresh}
        /\ With(tree, Fresh, e)[Fresh] = e
        /\ \A k \in DOMAIN tree : With(tree, Fresh, e)[k] = tree[k]
    BY <1>1, <1>2, <1>6, <1>7, <1>8, TreeAdd
  <1>10. tree' = With(tree, Fresh, e)
    BY DEF e
  <1>11. PlacesType(tree')
    <2>1. ASSUME NEW j \in DOMAIN tree'
          PROVE  \E s \in Specs :
                    /\ tree'[j].flow \in DOMAIN s.flows
                    /\ tree'[j].prio \in {0} \cup 0..(Len(s.flows[tree'[j].flow]) - 1)
      <3>1. CASE j = Fresh
        BY <3>1, <1>3, <1>6, <1>9, <1>10
      <3>2. CASE j # Fresh
        BY <3>2, <1>1, <1>9, <1>10 DEF PlacesType
      <3> QED
        BY <3>1, <3>2
    <2> QED
      BY <2>1 DEF PlacesType
  <1>12. Roots' = Roots
    BY DEF Roots
  <1>13. KeepsSeen
    BY <1>7, <1>9, <1>10 DEF KeepsSeen, SameExecution
  <1> QED
    BY <1>7, <1>9, <1>10, <1>11, <1>12, <1>13 DEF TreeInv, e

\* An execution that goes with everything below it.
LEMMA TreeShrunk ==
    ASSUME TreeInv, NEW i \in DOMAIN tree, tree' = Without(tree, Below(tree, i)),
           rootThere' = rootThere
    PROVE  /\ TreeInv' /\ KeepsSeen
           /\ DOMAIN tree' = DOMAIN tree \ Below(tree, i)
           /\ \A k \in DOMAIN tree' : tree'[k] = tree[k]
  <1>1. /\ TreeType(tree', Roots) /\ Rooted(tree')
        /\ DOMAIN tree' = DOMAIN tree \ Below(tree, i)
        /\ \A k \in DOMAIN tree' : tree'[k] = tree[k]
    BY TreeRemove DEF TreeInv
  <1>2. PlacesType(tree')
    BY <1>1 DEF TreeInv, PlacesType
  <1>3. Roots' = Roots
    BY DEF Roots
  <1> QED
    BY <1>1, <1>2, <1>3 DEF TreeInv, KeepsSeen, SameExecution

\* A list of executions of one flow.
LEMMA ListedFacts ==
    ASSUME TypeInv, NEW f, NEW S \in SUBSET Children(tree, f), NEW live \in Listings(S)
    PROVE  /\ live \in Listing
           /\ \A k \in DOMAIN live :
                 /\ live[k].id \in S /\ live[k].id \in DOMAIN tree
                 /\ live[k].rep = tree[live[k].id] /\ live[k].rep.flow = f
                 /\ SameExecution(live[k].rep, tree[live[k].id])
           /\ S = {live[k].id : k \in DOMAIN live}
  <1>1. S \subseteq DOMAIN tree /\ S \subseteq Ids /\ \A i \in S : tree[i] \in Executions /\ tree[i].flow = f
    BY DEF TypeInv, TreeInv, TreeType, Children
  <1>2. /\ live \in Listing
        /\ \A k \in DOMAIN live : live[k].id \in S /\ live[k].rep = tree[live[k].id]
        /\ S = {live[k].id : k \in DOMAIN live}
    BY <1>1, ListingOf
  <1> QED
    BY <1>1, <1>2 DEF SameExecution

\* An entry is claimed by what the list shows for it.
LEMMA ClaimType ==
    ASSUME TypeInv, step \in {"want", "relist"}, Top.i <= Len(Desired), NEW live \in Listing,
           \A j \in DOMAIN live :
              /\ live[j].rep.flow = Top.flow
              /\ live[j].id \in DOMAIN tree => SameExecution(live[j].rep, tree[live[j].id]),
           NEW k, k = matchingExecution(live, Want, Top.used), k # 0, Claim(live, k),
           UNCHANGED <<tree, rootThere, realm, copy, finished, mine, clean, realmVars, adminVars>>
    PROVE  TypeInv'
  <1>1. k \in Nat /\ k \in DOMAIN live /\ live[k].rep.sub = Want.sub
    <2>1. Answers(live, Want, Top.used, k)
      BY Matching, Zenon
    <2> QED
      BY <2>1 DEF Answers
  <1>a. step \in WorkSteps
    BY DEF WorkSteps, RestSteps, FlowSteps
  <1>b. AtWork
    BY <1>a, TopFacts
  <1> USE <1>a, <1>b DEF AtWork
  <1>2. live[k].id \in Ids
    BY <1>1, ListingElement
  <1> DEFINE fr == [Top EXCEPT !.live = live, !.used = @ \cup {live[k].id}, !.cur = k]
  <1>9. Top.used \cup {live[k].id} \in SUBSET Ids
    BY <1>2 DEF Frames
  <1>3. FrameIs(fr, Top.flow, Top.i, live, Top.used \cup {live[k].id}, k)
    BY <1>1, <1>9, FrameUpdates, Zenon
  <1>4. TopBecomes(fr)
    BY <1>3, ReplaceTop DEF Claim, FrameIs
  <1> HIDE DEF fr
  <1>8. Top.i \in 1..(Len(Desired) + 1)
    BY DEF FrameType
  <1>5. Top.i \in 1..Len(Desired) /\ Want = Desired[Top.i] /\ Want \in Entries /\ IsWant(Want)
    BY <1>8 DEF Want
  <1>6. /\ step' \in ClaimSteps /\ step' \in WorkSteps
        /\ step' = "requirement" => Want.req # ""
        /\ step' = "descend" => Want.sub
        /\ step' \in {"config", "writeConfig"} => ~Want.sub /\ Want.cfg # NoConfig
        /\ step' = "next" => ~Want.sub /\ Want.cfg = NoConfig
    BY DEF Claim, Follow, ClaimSteps, WorkSteps, RestSteps, FlowSteps
  <1>7. FrameType(tree', Desired, fr, step')
    BY <1>1, <1>3, <1>5, <1>6 DEF FrameIs, FrameType, ClaimSteps, EntrySteps, EndSteps
  <1> QED
    BY <1>3, <1>4, <1>6, <1>7, StepWithin, TreeKept DEF TypeInv, FrameIs

\* On to the next entry.
LEMMA NextWantType ==
    ASSUME TypeInv, step \in ClaimSteps, NextWant, KeepsSeen, TreeInv',
           UNCHANGED <<mine, rootThere, realm, copy, finished, clean, realmVars, adminVars>>
    PROVE  TypeInv'
  <1>a. step \in WorkSteps
    BY DEF WorkSteps, RestSteps, FlowSteps, ClaimSteps
  <1>b. AtWork
    BY <1>a, TopFacts
  <1> USE <1>a, <1>b DEF AtWork
  <1> DEFINE fr == [Top EXCEPT !.i = @ + 1, !.cur = 0]
  <1>7. Top.i + 1 \in Nat /\ 0 \in Nat /\ Top.live \in Listing /\ Top.used \in SUBSET Ids
    OBVIOUS
  <1>1. FrameIs(fr, Top.flow, Top.i + 1, Top.live, Top.used, 0)
    BY <1>7, FrameUpdates, Zenon
  <1>2. TopBecomes(fr)
    BY <1>1, ReplaceTop DEF NextWant, FrameIs
  <1> HIDE DEF fr
  <1>3. step' = "want" /\ step' \in WorkSteps
    BY DEF NextWant, WorkSteps, RestSteps, FlowSteps
  <1>4. Len(stack) \in DOMAIN stack
    OBVIOUS
  <1>5. FrameType(tree', Desired, Top, step)
    <2>1. \A k \in DOMAIN Top.live : Top.live[k].id \in Remembered
      BY <1>4, RememberedIds DEF Top
    <2> QED
      BY <2>1, FrameTypeKept DEF KeepsSeen
  <1>8. Top.i \in 1..Len(Desired)
    BY DEF EntrySteps
  <1>6. FrameType(tree', Desired, fr, step')
    <2>1. fr.i \in 1..(Len(Desired) + 1)
      BY <1>1, <1>8 DEF FrameIs
    <2>2. fr.live = Top.live /\ fr.flow = Top.flow
      BY <1>1 DEF FrameIs
    <2>3. \A k \in DOMAIN fr.live :
             /\ fr.live[k].rep.flow = fr.flow
             /\ fr.live[k].id \in DOMAIN tree' => SameExecution(fr.live[k].rep, tree'[fr.live[k].id])
      BY <2>2, <1>5 DEF FrameType
    <2> QED
      BY <2>1, <2>3, <1>3 DEF FrameType, ClaimSteps, EntrySteps, EndSteps
  <1> QED
    BY <1>1, <1>2, <1>3, <1>6, StepWithin DEF FrameIs

\* A step that leaves the innermost flow what it remembers.
LEMMA SameTopType ==
    ASSUME TypeInv, step \in WorkSteps, step' \in WorkSteps, stack' = stack, KeepsSeen, TreeInv',
           FrameType(tree, Desired, Top, step'),
           UNCHANGED <<mine, rootThere, realm, copy, finished, clean, realmVars, adminVars>>
    PROVE  TypeInv'
  <1>b. AtWork
    BY TopFacts
  <1> USE <1>b DEF AtWork
  <1>1. TopBecomes(Top)
    BY KeepTop
  <1>2. Len(stack) \in DOMAIN stack
    OBVIOUS
  <1>3. \A k \in DOMAIN Top.live : Top.live[k].id \in Remembered
    BY <1>2, RememberedIds DEF Top
  <1>4. FrameType(tree', Desired, Top, step')
    BY <1>3, FrameTypeKept DEF KeepsSeen
  <1> QED
    BY <1>1, <1>4, StepWithin

LEMMA ReconcileFlowType == TypeInv /\ ReconcileFlow => TypeInv'
  <1> SUFFICES ASSUME TypeInv, ReconcileFlow PROVE TypeInv'
    OBVIOUS
  <1>1. stack = << >> /\ stack' = << >>
    BY DEF ReconcileFlow, TypeInv, StateType
  <1>2. StackType'
    BY <1>1 DEF StackType
  <1>3. TreeInv'
    BY TreeKept DEF ReconcileFlow, TypeInv
  <1>4. StateType'
    BY <1>1 DEF ReconcileFlow, TypeInv, StateType, FlowSteps, realmVars, adminVars
  <1> QED
    BY <1>2, <1>3, <1>4 DEF TypeInv

LEMMA FrameOf ==
    ASSUME NEW f \in STRING
    PROVE  /\ Frame(f) \in Frames /\ Frame(f).flow = f /\ Frame(f).i = 1
           /\ Frame(f).live = << >> /\ Frame(f).used = {}
  BY DEF Frame, Frames

\* The type of a frame that has just been pushed.
LEMMA NewFrameType ==
    ASSUME NEW f \in STRING, NEW D, Len(D) \in Nat, NEW t
    PROVE  FrameType(t, D, Frame(f), "list")
  BY FrameOf DEF FrameType, ClaimSteps, EntrySteps, EndSteps

LEMMA EnsureRootFlowType == TypeInv /\ ensureRootFlow => TypeInv'
  <1> SUFFICES ASSUME TypeInv, ensureRootFlow PROVE TypeInv'
    OBVIOUS
  <1>1. stack = << >> /\ mine \in Specs /\ finished = {}
    BY DEF ensureRootFlow, TypeInv, StateType
  <1>2. Root \in DOMAIN mine.flows /\ Root \in STRING /\ Len(mine.flows[Root]) \in Nat
        /\ Level(mine) \in [DOMAIN mine.flows -> 1..Levels]
    BY <1>1, SpecFacts
  <1>3. stack' = <<Frame(Root)>> /\ step' = "list" /\ mine' = mine /\ tree' = tree
    BY <1>1 DEF ensureRootFlow, Push
  <1>9. Frame(Root) \in Frames /\ Frame(Root).flow = Root
    BY <1>2, FrameOf
  <1>4. stack' \in Seq(Frames) /\ Len(stack') = 1 /\ stack'[1] = Frame(Root)
    BY <1>3, <1>9
  <1>5. StepAt(1)' = "list"
    BY <1>3, <1>4 DEF StepAt
  <1>6. StackType'
    <2>0. FrameType(tree', mine.flows[Root], Frame(Root), "list")
      BY <1>2, NewFrameType
    <2>1. FrameType(tree', mine'.flows[stack'[1].flow], stack'[1], StepAt(1)')
      BY <2>0, <1>3, <1>4, <1>5, <1>9, Zenon
    <2>2. stack'[1].flow = Root /\ 1 <= Level(mine)[Root]
      BY <1>2, <1>4, <1>9
    <2> QED
      BY <2>1, <2>2, <1>2, <1>3, <1>4 DEF StackType
  <1>7. TreeInv'
    <2>1. tree' = tree /\ Roots \subseteq Roots'
      BY DEF ensureRootFlow, Roots
    <2> QED
      BY <2>1 DEF TypeInv, TreeInv, TreeType, PlacesType
  <1>8. StateType'
    BY <1>1, <1>3, <1>4 DEF ensureRootFlow, TypeInv, StateType, FlowSteps, realmVars, adminVars
  <1> QED
    BY <1>6, <1>7, <1>8 DEF TypeInv

LEMMA ListType == TypeInv /\ List => TypeInv'
  <1> SUFFICES ASSUME TypeInv, List PROVE TypeInv'
    OBVIOUS
  <1>a. step = "list" /\ step \in WorkSteps
    BY DEF List, WorkSteps, RestSteps, FlowSteps
  <1>b. AtWork
    BY <1>a, TopFacts
  <1> USE <1>a, <1>b DEF AtWork
  <1>1. CASE Top.flow \notin Flows /\ Fail
    BY <1>1, StepFail DEF List
  <1>2. ASSUME NEW live \in Listings(Children(tree, Top.flow)), Replace([Top EXCEPT !.live = live]),
               step' = "want", UNCHANGED <<tree, rootThere, realm, copy, finished>>
        PROVE  TypeInv'
    <2>1. /\ live \in Listing
          /\ \A k \in DOMAIN live : live[k].rep.flow = Top.flow
                                     /\ SameExecution(live[k].rep, tree[live[k].id])
      BY ListedFacts
    <2> DEFINE fr == [Top EXCEPT !.live = live]
    <2>2. fr \in Frames /\ fr.flow = Top.flow /\ fr.i = Top.i /\ fr.live = live
      BY <2>1 DEF Frames, Listing
    <2>3. TopBecomes(fr)
      BY <2>2, <1>2, ReplaceTop
    <2> HIDE DEF fr
    <2>4. FrameType(tree', Desired, fr, step')
      BY <2>1, <2>2, <1>2 DEF FrameType, ClaimSteps, EntrySteps, EndSteps
    <2>5. step' \in WorkSteps
      BY <1>2 DEF WorkSteps, RestSteps, FlowSteps
    <2> QED
      BY <2>2, <2>3, <2>4, <2>5, <1>2, StepWithin, TreeKept DEF TypeInv, List
  <1> QED
    BY <1>1, <1>2 DEF List

LEMMA MatchType == TypeInv /\ Match => TypeInv'
  <1> SUFFICES ASSUME TypeInv, Match PROVE TypeInv'
    OBVIOUS
  <1>a. step = "want" /\ step \in WorkSteps
    BY DEF Match, WorkSteps, RestSteps, FlowSteps
  <1>b. AtWork
    BY <1>a, TopFacts
  <1> USE <1>a, <1>b DEF AtWork
  <1>1. Top.live \in Listing /\ Top.i \in 1..(Len(Desired) + 1)
    BY DEF Frames, Listing, FrameType
  <1> DEFINE k == matchingExecution(Top.live, Want, Top.used)
  <1>2. UNCHANGED <<tree, rootThere, realm, copy, finished, mine, clean, realmVars, adminVars>>
    BY DEF Match
  <1>3. TreeInv' /\ KeepsSeen
    BY <1>2, TreeKept DEF TypeInv
  <1>4. CASE Top.i > Len(Desired)
    <2>1. step' = "prune" /\ stack' = stack /\ Top.i = Len(Desired) + 1
      BY <1>1, <1>4 DEF Match
    <2>2. step' \in WorkSteps /\ FrameType(tree, Desired, Top, step')
      BY <2>1 DEF WorkSteps, RestSteps, FlowSteps, FrameType, ClaimSteps, EntrySteps, EndSteps
    <2> QED
      BY <2>1, <2>2, <1>2, <1>3, SameTopType
  <1>5. CASE Top.i <= Len(Desired) /\ k = 0
    <2>1. step' = "create" /\ stack' = stack
      BY <1>1, <1>5 DEF Match
    <2>2. step' \in WorkSteps /\ FrameType(tree, Desired, Top, step')
      BY <2>1, <1>5 DEF WorkSteps, RestSteps, FlowSteps, FrameType, ClaimSteps, EntrySteps, EndSteps
    <2> QED
      BY <2>1, <2>2, <1>2, <1>3, SameTopType
  <1>6. CASE Top.i <= Len(Desired) /\ k # 0
    <2>1. Claim(Top.live, k)
      BY <1>1, <1>6 DEF Match
    <2>2. \A j \in DOMAIN Top.live :
             /\ Top.live[j].rep.flow = Top.flow
             /\ Top.live[j].id \in DOMAIN tree =>
                   SameExecution(Top.live[j].rep, tree[Top.live[j].id])
      BY DEF FrameType
    <2> HIDE DEF k
    <2>3. k = matchingExecution(Top.live, Want, Top.used)
      BY DEF k
    <2> QED
      BY <2>1, <2>2, <2>3, <1>1, <1>2, <1>6, ClaimType
  <1> QED
    BY <1>1, <1>4, <1>5, <1>6

\* The execution in hand.
LEMMA CurrentFacts ==
    ASSUME TypeInv, step \in ClaimSteps
    PROVE  /\ Top.cur \in DOMAIN Top.live
           /\ Top.live[Top.cur].rep.sub = Want.sub
           /\ Top.live[Top.cur].rep \in Executions
           /\ Current \in Remembered
           /\ Current \in DOMAIN tree =>
                 /\ tree[Current] \in Executions
                 /\ SameExecution(Top.live[Top.cur].rep, tree[Current])
                 /\ tree[Current].flow = Top.flow
  <1>a. step \in WorkSteps
    BY DEF WorkSteps, RestSteps, FlowSteps, ClaimSteps
  <1>b. AtWork
    BY <1>a, TopFacts
  <1>1. /\ Top.cur \in DOMAIN Top.live /\ Top.live[Top.cur].rep.sub = Want.sub
        /\ Top.live[Top.cur].rep.flow = Top.flow
        /\ Current \in DOMAIN tree => SameExecution(Top.live[Top.cur].rep, tree[Current])
    BY <1>b DEF AtWork, FrameType, Want, Current
  <1>2. Top.live[Top.cur].rep \in Executions
    BY <1>1, <1>b, ListingElement DEF AtWork
  <1>3. Len(stack) \in DOMAIN stack
    BY <1>b DEF AtWork
  <1>4. Current \in Remembered
    BY <1>1, <1>3, RememberedIds DEF Current, Top
  <1>5. Current \in DOMAIN tree => tree[Current] \in Executions
    BY DEF TypeInv, TreeInv, TreeType
  <1> QED
    BY <1>1, <1>2, <1>4, <1>5 DEF SameExecution

LEMMA WantFacts ==
    ASSUME TypeInv, step \in EntrySteps
    PROVE  /\ Want \in Entries /\ IsWant(Want)
           /\ Want.sub => Want.name \in DOMAIN mine.flows \ {Root} /\ Want.name \in Subflows
           /\ Want.sub \in BOOLEAN /\ Want.name \in STRING /\ Want.cfg \in Configs
           /\ Want.req \in Requirements \cup {""}
  <1>a. step \in WorkSteps
    BY DEF WorkSteps, RestSteps, FlowSteps, ClaimSteps, EntrySteps
  <1>b. AtWork
    BY <1>a, TopFacts
  <1>1. Want \in Entries /\ IsWant(Want)
    BY <1>b DEF AtWork
  <1>2. Want.sub => Want.name \in DOMAIN mine.flows \ {Root}
    BY <1>b, SpecFacts DEF AtWork, Want, Desired
  <1>3. Want.sub => Want.name \in Subflows
    BY <1>2, <1>b DEF AtWork, Subflows
  <1> QED
    BY <1>1, <1>2, <1>3 DEF Entries

LEMMA CreateType == TypeInv /\ Create => TypeInv'
  <1> SUFFICES ASSUME TypeInv, Create PROVE TypeInv'
    OBVIOUS
  <1>a. step = "create" /\ step \in WorkSteps /\ step \in EntrySteps
    BY DEF Create, WorkSteps, RestSteps, FlowSteps, EntrySteps
  <1>b. AtWork
    BY <1>a, TopFacts
  <1>c. UNCHANGED <<mine, clean, realmVars, adminVars>>
    BY DEF Create
  <1>1. CASE Fail
    BY <1>1, <1>c, StepFail
  <1>2. CASE /\ Top.flow \in Flows /\ ~(Want.sub /\ Want.name \in Flows)
             /\ Unseen # {}
             /\ tree' = With(tree, Fresh, NewExecution(Top.flow, Want))
             /\ step' = "relist"
             /\ UNCHANGED <<rootThere, realm, stack, copy, finished>>
    <2>1. /\ Want.sub \in BOOLEAN /\ Want.name \in STRING
          /\ Want.sub => Want.name \in Subflows /\ Want.name \notin Flows
      BY <1>a, <1>2, WantFacts
    <2>2. TreeInv' /\ KeepsSeen
      BY <2>1, <1>2, TreeGrown
    <2>3. step' \in WorkSteps
      BY <1>2 DEF WorkSteps, RestSteps, FlowSteps
    <2>4. FrameType(tree, Desired, Top, step')
      BY <1>2, <1>a, <1>b DEF AtWork, FrameType, ClaimSteps, EntrySteps, EndSteps
    <2> QED
      BY <2>2, <2>3, <2>4, <1>2, <1>a, <1>c, SameTopType
  <1> QED
    BY <1>1, <1>2 DEF Create

LEMMA RelistType == TypeInv /\ Relist => TypeInv'
  <1> SUFFICES ASSUME TypeInv, Relist PROVE TypeInv'
    OBVIOUS
  <1>a. step = "relist" /\ step \in WorkSteps /\ step \in EntrySteps
    BY DEF Relist, WorkSteps, RestSteps, FlowSteps, EntrySteps
  <1>b. AtWork
    BY <1>a, TopFacts
  <1>c. UNCHANGED <<mine, clean, realmVars, adminVars>>
    BY DEF Relist
  <1>1. CASE Fail
    BY <1>1, <1>c, StepFail
  <1>2. ASSUME NEW live \in Listings(Children(tree, Top.flow)),
               matchingExecution(live, Want, Top.used) # 0,
               Claim(live, matchingExecution(live, Want, Top.used)),
               UNCHANGED <<tree, rootThere, realm, copy, finished>>
        PROVE  TypeInv'
    <2>1. /\ live \in Listing
          /\ \A k \in DOMAIN live : live[k].rep.flow = Top.flow
                                     /\ SameExecution(live[k].rep, tree[live[k].id])
      BY ListedFacts
    <2>2. Top.i <= Len(Desired)
      BY <1>a, <1>b DEF AtWork
    <2> DEFINE k == matchingExecution(live, Want, Top.used)
    <2>3. k = matchingExecution(live, Want, Top.used) /\ k # 0 /\ Claim(live, k)
      BY <1>2
    <2> HIDE DEF k
    <2> QED
      BY <2>1, <2>2, <2>3, <1>2, <1>a, <1>c, ClaimType
  <1> QED
    BY <1>1, <1>2 DEF Relist

LEMMA FollowSteps ==
    ASSUME NEW w \in Entries, IsWant(w)
    PROVE  /\ Follow(w) \in {"descend", "config", "next"}
           /\ Follow(w) = "descend" <=> w.sub
           /\ Follow(w) = "config" <=> ~w.sub /\ w.cfg # NoConfig
           /\ Follow(w) = "next" <=> ~w.sub /\ w.cfg = NoConfig
  BY DEF Follow

LEMMA RequirementType == TypeInv /\ UpdateExecutionRequirement => TypeInv'
  <1> SUFFICES ASSUME TypeInv, UpdateExecutionRequirement PROVE TypeInv'
    OBVIOUS
  <1>a. step = "requirement" /\ step \in WorkSteps /\ step \in EntrySteps /\ step \in ClaimSteps
    BY DEF UpdateExecutionRequirement, WorkSteps, RestSteps, FlowSteps, EntrySteps, ClaimSteps
  <1>b. AtWork
    BY <1>a, TopFacts
  <1>c. UNCHANGED <<mine, clean, realmVars, adminVars>>
    BY DEF UpdateExecutionRequirement, OnCurrent
  <1>1. CASE Fail
    BY <1>1, <1>c, StepFail
  <1>2. ASSUME Current \in DOMAIN tree, NEW p \in {0, tree[Current].prio},
               tree' = [tree EXCEPT ![Current].req = Want.req, ![Current].prio = p],
               step' = Follow(Want), stack' = stack,
               UNCHANGED <<rootThere, realm, copy, finished>>
        PROVE  TypeInv'
    <2>1. Want.req \in Requirements
      BY <1>a, <1>b, WantFacts DEF AtWork, FrameType, Want
    <2>2. tree[Current] \in Executions
      BY <1>a, <1>2, CurrentFacts
    <2>3. p \in Nat
      BY <1>2, <2>2 DEF Executions
    <2>4. Changed(tree, tree', Current, Want.req, tree[Current].cfg, p)
      BY <2>1, <2>2, <2>3, <1>2, ChangeBoth, Zenon
    <2>5. TreeInv' /\ KeepsSeen
      BY <2>4, <1>2, TreeChanged DEF TypeInv
    <2>6. Follow(Want) \in {"descend", "config", "next"} /\ step' \in WorkSteps
      BY <1>2, <1>a, WantFacts, FollowSteps DEF WorkSteps, RestSteps, FlowSteps
    <2>7. FrameType(tree, Desired, Top, step')
      <3>1. /\ step' = "descend" => Want.sub
            /\ step' = "config" => ~Want.sub /\ Want.cfg # NoConfig
            /\ step' = "next" => ~Want.sub /\ Want.cfg = NoConfig
            /\ step' \in {"descend", "config", "next"}
        BY <1>2, <1>a, WantFacts, FollowSteps
      <3> QED
        BY <3>1, <1>a, <1>b DEF AtWork, FrameType, ClaimSteps, EntrySteps, EndSteps, Want
    <2> QED
      BY <2>5, <2>6, <2>7, <1>2, <1>a, <1>c, SameTopType
  <1> QED
    BY <1>1, <1>2 DEF UpdateExecutionRequirement, OnCurrent

LEMMA DescendType == TypeInv /\ Descend => TypeInv'
  <1> SUFFICES ASSUME TypeInv, Descend PROVE TypeInv'
    OBVIOUS
  <1>a. step = "descend" /\ step \in WorkSteps /\ step \in EntrySteps /\ step \in ClaimSteps
    BY DEF Descend, WorkSteps, RestSteps, FlowSteps, EntrySteps, ClaimSteps
  <1>b. AtWork
    BY <1>a, TopFacts
  <1>c. UNCHANGED <<mine, clean, realmVars, adminVars>>
    BY DEF Descend, OnCurrent
  <1>1. CASE Fail
    BY <1>1, <1>c, StepFail
  <1>2. CASE tree' = tree /\ Push(Want.name) /\ UNCHANGED <<rootThere, realm, copy, finished>>
    <2> DEFINE n == Len(stack)
               g == Want.name
    <2>1. /\ n \in Nat \ {0} /\ stack \in Seq(Frames) /\ mine \in Specs
          /\ Top.flow \in DOMAIN mine.flows /\ Top.i \in 1..Len(Desired)
      BY <1>a, <1>b DEF AtWork
    <2>2. Want.sub /\ g \in DOMAIN mine.flows \ {Root} /\ g \in STRING
      BY <1>a, <1>b, WantFacts DEF AtWork, FrameType, Want
    <2>3. Level(mine) \in [DOMAIN mine.flows -> 1..Levels] /\ Deeper(mine, Level(mine))
      BY <2>1, SpecFacts
    <2>4. Level(mine)[Top.flow] < Level(mine)[g]
      BY <2>1, <2>2, <2>3 DEF Deeper, Want, Desired
    <2>5. Frame(g) \in Frames /\ Frame(g).flow = g
      BY <2>2, FrameOf
    <2>6. step' = "list" /\ stack' = Append(stack, Frame(g)) /\ mine' = mine
      BY <1>2, <1>c DEF Push
    <2> HIDE DEF g
    <2>7. /\ stack' \in Seq(Frames) /\ Len(stack') = n + 1
          /\ \A d \in 1..n : stack'[d] = stack[d]
          /\ stack'[n + 1] = Frame(g)
      BY <2>1, <2>5, <2>6
    <2> HIDE DEF n
    <2>8. stack[n] = Top /\ n = Len(stack)
      BY DEF Top, n
    <2>9. TreeInv' /\ KeepsSeen
      BY <1>2, TreeKept DEF TypeInv
    <2>10. ASSUME NEW d \in 1..Len(stack')
           PROVE  /\ FrameType(tree', mine'.flows[stack'[d].flow], stack'[d], StepAt(d)')
                  /\ stack'[d].flow \in DOMAIN mine'.flows
                  /\ d <= Level(mine')[stack'[d].flow]
                  /\ d = 1 <=> stack'[d].flow = Root
      <3>1. CASE d = n + 1
        <4>1. StepAt(d)' = "list"
          BY <3>1, <2>6, <2>7 DEF StepAt
        <4>2. FrameType(tree', mine.flows[g], Frame(g), "list")
          BY <2>1, <2>2, SpecFacts, NewFrameType
        <4>3. FrameType(tree', mine'.flows[stack'[d].flow], stack'[d], StepAt(d)')
          BY <4>1, <4>2, <3>1, <2>5, <2>6, <2>7, Zenon
        <4>4. n <= Level(mine)[Top.flow]
          BY <2>1, <2>8 DEF TypeInv, StackType
        <4> QED
          BY <4>3, <4>4, <3>1, <2>1, <2>2, <2>3, <2>4, <2>5, <2>6, <2>7
      <3>2. CASE d # n + 1
        <4>1. d \in 1..n /\ d \in 1..Len(stack) /\ stack'[d] = stack[d]
          BY <3>2, <2>1, <2>7, <2>8
        <4>2. StepAt(d)' = StepAt(d)
          BY <4>1, <3>2, <2>7, <2>8, <1>a DEF StepAt
        <4> QED
          BY <4>1, <4>2, <2>6, <1>2 DEF TypeInv, StackType
      <3> QED
        BY <3>1, <3>2
    <2>11. ASSUME NEW d \in 1..Len(stack'), NEW e \in 1..Len(stack'), d < e
           PROVE  Level(mine')[stack'[d].flow] < Level(mine')[stack'[e].flow]
      <3>1. d \in 1..n /\ stack'[d] = stack[d]
        BY <2>11, <2>1, <2>7
      <3>2. CASE e = n + 1
        <4>1. d = n \/ (d < n /\ d \in 1..Len(stack) /\ n \in 1..Len(stack))
          BY <3>1, <2>1, <2>8
        <4>2. d < n => Level(mine)[stack[d].flow] < Level(mine)[Top.flow]
          BY <4>1, <2>8 DEF TypeInv, StackType
        <4>3. stack[d].flow \in DOMAIN mine.flows
          BY <3>1, <2>8 DEF TypeInv, StackType
        <4> QED
          BY <4>1, <4>2, <4>3, <3>1, <3>2, <2>1, <2>2, <2>3, <2>4, <2>5, <2>6, <2>7, <2>8
      <3>3. CASE e # n + 1
        <4>1. e \in 1..n /\ stack'[e] = stack[e]
          BY <3>3, <2>11, <2>1, <2>7
        <4>2. Level(mine)[stack[d].flow] < Level(mine)[stack[e].flow]
          BY <4>1, <3>1, <2>8, <2>11 DEF TypeInv, StackType
        <4> QED
          BY <4>1, <4>2, <3>1, <2>6
      <3> QED
        BY <3>2, <3>3
    <2>12. ASSUME NEW d \in 2..Len(stack')
           PROVE  LET above == mine'.flows[stack'[d - 1].flow][stack'[d - 1].i]
                  IN above.sub /\ above.name = stack'[d].flow
      <3>1. d - 1 \in 1..n /\ stack'[d - 1] = stack[d - 1]
        BY <2>1, <2>7
      <3>2. CASE d = n + 1
        BY <3>1, <3>2, <2>1, <2>2, <2>5, <2>6, <2>7, <2>8 DEF Want, Desired, g
      <3>3. CASE d # n + 1
        BY <3>1, <3>3, <2>1, <2>6, <2>7, <2>8 DEF TypeInv, StackType
      <3> QED
        BY <3>2, <3>3
    <2>13. StackType'
      BY <2>7, <2>10, <2>11, <2>12 DEF StackType
    <2>14. stack' # << >>
      BY <2>1, <2>7
    <2>15. StateType'
      BY <2>6, <2>14, <1>2, <1>a, <1>c DEF TypeInv, StateType, FlowSteps, realmVars, adminVars
    <2> QED
      BY <2>9, <2>13, <2>15 DEF TypeInv
  <1> QED
    BY <1>1, <1>2 DEF Descend, OnCurrent

LEMMA ReconcileConfigType == TypeInv /\ reconcileAuthenticatorConfig => TypeInv'
  <1> SUFFICES ASSUME TypeInv, reconcileAuthenticatorConfig PROVE TypeInv'
    OBVIOUS
  <1>a. step = "config" /\ step \in WorkSteps /\ step \in ClaimSteps
    BY DEF reconcileAuthenticatorConfig, WorkSteps, RestSteps, FlowSteps, ClaimSteps
  <1>b. AtWork
    BY <1>a, TopFacts
  <1>c. UNCHANGED <<tree, rootThere, realm, mine, clean, realmVars, adminVars>>
    BY DEF reconcileAuthenticatorConfig
  <1>d. TreeInv' /\ KeepsSeen
    BY <1>c, TreeKept DEF TypeInv
  <1>1. CASE Finish
    <2>1. realm' \in RealmRepresentations
      BY <1>c DEF TypeInv, StateType
    <2> QED
      BY <2>1, <1>1, <1>c, StepFinish
  <1>2. CASE NextWant /\ UNCHANGED <<copy, finished>>
    BY <1>2, <1>a, <1>c, <1>d, NextWantType
  <1>3. CASE step' = "writeConfig" /\ UNCHANGED <<stack, copy, finished>>
    <2>1. step' \in WorkSteps
      BY <1>3 DEF WorkSteps, RestSteps, FlowSteps
    <2>2. FrameType(tree, Desired, Top, step')
      BY <1>3, <1>a, <1>b DEF AtWork, FrameType, ClaimSteps, EntrySteps, EndSteps
    <2> QED
      BY <2>1, <2>2, <1>3, <1>a, <1>c, <1>d, SameTopType
  <1> QED
    BY <1>1, <1>2, <1>3 DEF reconcileAuthenticatorConfig

LEMMA WriteConfigType == TypeInv /\ WriteAuthenticatorConfig => TypeInv'
  <1> SUFFICES ASSUME TypeInv, WriteAuthenticatorConfig PROVE TypeInv'
    OBVIOUS
  <1>a. step = "writeConfig" /\ step \in WorkSteps /\ step \in ClaimSteps /\ step \in EntrySteps
    BY DEF WriteAuthenticatorConfig, WorkSteps, RestSteps, FlowSteps, ClaimSteps, EntrySteps
  <1>b. AtWork
    BY <1>a, TopFacts
  <1>c. UNCHANGED <<mine, clean, realmVars, adminVars>>
    BY DEF WriteAuthenticatorConfig
  <1>1. CASE Fail
    BY <1>1, <1>c, StepFail
  <1>2. CASE /\ ConfigFound
             /\ tree' = [tree EXCEPT ![Current].cfg = Stored(Rendered(Want.cfg))]
             /\ NextWant
             /\ UNCHANGED <<rootThere, realm, copy, finished>>
    <2>1. Current \in DOMAIN tree
      BY <1>2 DEF ConfigFound
    <2>2. Stored(Rendered(Want.cfg)) \in Configs
      BY <1>a, WantFacts, StoredRendered
    <2>3. tree[Current] \in Executions
      BY <2>1, <1>a, CurrentFacts
    <2>4. Changed(tree, tree', Current, tree[Current].req, Stored(Rendered(Want.cfg)), tree[Current].prio)
      BY <2>1, <2>2, <2>3, <1>2, ChangeConfig, Zenon
    <2>5. TreeInv' /\ KeepsSeen
      BY <2>1, <2>4, <1>2, TreeChanged DEF TypeInv
    <2> QED
      BY <2>5, <1>2, <1>a, <1>c, NextWantType
  <1> QED
    BY <1>1, <1>2 DEF WriteAuthenticatorConfig

LEMMA ProceedType == TypeInv /\ Proceed => TypeInv'
  <1> SUFFICES ASSUME TypeInv, Proceed PROVE TypeInv'
    OBVIOUS
  <1>a. step \in ClaimSteps /\ NextWant
    BY DEF Proceed, ClaimSteps
  <1>b. UNCHANGED <<tree, rootThere, realm, copy, finished, mine, clean, realmVars, adminVars>>
    BY DEF Proceed
  <1>c. TreeInv' /\ KeepsSeen
    BY <1>b, TreeKept DEF TypeInv
  <1> QED
    BY <1>a, <1>b, <1>c, NextWantType

\* A step that makes the innermost flow remember another list.
LEMMA RelistedType ==
    ASSUME TypeInv, step \in WorkSteps, step' \in WorkSteps, NEW live \in Listing,
           \A k \in DOMAIN live : live[k].rep.flow = Top.flow
                                   /\ SameExecution(live[k].rep, tree[live[k].id]),
           NEW fr, FrameIs(fr, Top.flow, fr.i, live, fr.used, fr.cur), Replace(fr),
           fr.i \in 1..(Len(Desired) + 1), step' \in {"delete", "order", "reorder"},
           step' \in EndSteps => fr.i = Len(Desired) + 1, step' = "delete" => live # << >>,
           UNCHANGED <<tree, rootThere, realm, copy, finished, mine, clean, realmVars, adminVars>>
    PROVE  TypeInv'
  <1>1. AtWork
    BY TopFacts
  <1>2. TopBecomes(fr) /\ fr.flow = Top.flow
    BY <1>1, ReplaceTop DEF FrameIs, AtWork
  <1>3. FrameType(tree', Desired, fr, step')
    BY DEF FrameIs, FrameType, ClaimSteps, EntrySteps, EndSteps
  <1>4. TreeInv' /\ KeepsSeen
    BY TreeKept DEF TypeInv
  <1> QED
    BY <1>2, <1>3, <1>4, StepWithin

LEMMA PruneType == TypeInv /\ Prune => TypeInv'
  <1> SUFFICES ASSUME TypeInv, Prune PROVE TypeInv'
    OBVIOUS
  <1>a. step = "prune" /\ step \in WorkSteps
    BY DEF Prune, WorkSteps, RestSteps, FlowSteps
  <1>b. AtWork
    BY <1>a, TopFacts
  <1>c. UNCHANGED <<mine, clean, realmVars, adminVars>>
    BY DEF Prune
  <1>1. CASE Fail
    BY <1>1, <1>c, StepFail
  <1>2. ASSUME NEW extra \in Listings(Children(tree, Top.flow) \ Top.used),
               Replace([Top EXCEPT !.live = extra]),
               step' = IF extra = << >> THEN "order" ELSE "delete",
               UNCHANGED <<tree, rootThere, realm, copy, finished>>
        PROVE  TypeInv'
    <2>1. /\ extra \in Listing
          /\ \A k \in DOMAIN extra : extra[k].rep.flow = Top.flow
                                      /\ SameExecution(extra[k].rep, tree[extra[k].id])
      BY ListedFacts
    <2> DEFINE fr == [Top EXCEPT !.live = extra]
    <2>2. FrameIs(fr, Top.flow, Top.i, extra, Top.used, Top.cur)
      BY <2>1, <1>b DEF AtWork, FrameIs, Frames, Listing
    <2>3. Replace(fr)
      BY <1>2
    <2> HIDE DEF fr
    <2>4. FrameIs(fr, Top.flow, fr.i, extra, fr.used, fr.cur) /\ fr.i = Len(Desired) + 1
      BY <2>2, <1>a, <1>b DEF FrameIs, AtWork, FrameType, EndSteps
    <2>5. step' \in {"delete", "order", "reorder"} /\ step' \in WorkSteps
      BY <1>2 DEF WorkSteps, RestSteps, FlowSteps
    <2>6. step' = "delete" => extra # << >>
      BY <1>2
    <2>7. fr.i \in 1..(Len(Desired) + 1)
      BY <2>4, <1>b DEF AtWork
    <2> QED
      BY <2>1, <2>3, <2>4, <2>5, <2>6, <2>7, <1>2, <1>a, <1>c, RelistedType
  <1> QED
    BY <1>1, <1>2 DEF Prune

LEMMA OrderType == TypeInv /\ Order => TypeInv'
  <1> SUFFICES ASSUME TypeInv, Order PROVE TypeInv'
    OBVIOUS
  <1>a. step = "order" /\ step \in WorkSteps
    BY DEF Order, WorkSteps, RestSteps, FlowSteps
  <1>b. AtWork
    BY <1>a, TopFacts
  <1>c. UNCHANGED <<mine, clean, realmVars, adminVars>>
    BY DEF Order
  <1>1. CASE Fail
    BY <1>1, <1>c, StepFail
  <1>2. ASSUME NEW live \in Listings(Children(tree, Top.flow)),
               Replace([Top EXCEPT !.live = live, !.used = {}, !.i = 1, !.cur = 0]),
               step' = "reorder",
               UNCHANGED <<tree, rootThere, realm, copy, finished>>
        PROVE  TypeInv'
    <2>1. /\ live \in Listing
          /\ \A k \in DOMAIN live : live[k].rep.flow = Top.flow
                                      /\ SameExecution(live[k].rep, tree[live[k].id])
      BY ListedFacts
    <2> DEFINE fr == [Top EXCEPT !.live = live, !.used = {}, !.i = 1, !.cur = 0]
    <2>2. FrameIs(fr, Top.flow, 1, live, {}, 0)
      BY <2>1, <1>b DEF AtWork, FrameIs, Frames, Listing
    <2>3. Replace(fr)
      BY <1>2
    <2> HIDE DEF fr
    <2>4. FrameIs(fr, Top.flow, fr.i, live, fr.used, fr.cur) /\ fr.i \in 1..(Len(Desired) + 1)
      BY <2>2, <1>b DEF FrameIs, AtWork
    <2>5. step' \in {"delete", "order", "reorder"} /\ step' \in WorkSteps /\ step' \notin EndSteps
      BY <1>2 DEF WorkSteps, RestSteps, FlowSteps, EndSteps
    <2>6. step' # "delete"
      BY <1>2
    <2> QED
      BY <2>1, <2>3, <2>4, <2>5, <2>6, <1>2, <1>a, <1>c, RelistedType
  <1> QED
    BY <1>1, <1>2 DEF Order

\* A list without its first element.
LEMMA TailOf ==
    ASSUME NEW live \in Listing, live # << >>
    PROVE  /\ Tail(live) \in Listing
           /\ 1 \in DOMAIN live /\ Head(live) = live[1]
           /\ \A k \in DOMAIN Tail(live) : k + 1 \in DOMAIN live /\ Tail(live)[k] = live[k + 1]
           /\ \A k \in DOMAIN live : k = 1 \/ (k - 1 \in DOMAIN Tail(live) /\ Tail(live)[k - 1] = live[k])
           /\ Tail(live) = << >> <=> Len(live) = 1
  <1> DEFINE S == [id : Ids, rep : Executions]
  <1>1. live \in Seq(S)
    BY DEF Listing
  <1> HIDE DEF S
  <1>2. /\ Tail(live) \in Seq(S) /\ Len(Tail(live)) = Len(live) - 1
        /\ Len(live) \in Nat \ {0}
        /\ \A k \in 1..Len(Tail(live)) : Tail(live)[k] = live[k + 1]
    BY <1>1
  <1>3. Head(live) = live[1]
    BY <1>1
  <1>4. Tail(live) = << >> <=> Len(live) = 1
    BY <1>1, <1>2
  <1>5. DOMAIN live = 1..Len(live) /\ DOMAIN Tail(live) = 1..Len(Tail(live))
    BY <1>1, <1>2
  <1> QED
    BY <1>2, <1>3, <1>4, <1>5 DEF Listing, S

LEMMA DeleteType == TypeInv /\ DeleteExecution => TypeInv'
  <1> SUFFICES ASSUME TypeInv, DeleteExecution PROVE TypeInv'
    OBVIOUS
  <1>a. step = "delete" /\ step \in WorkSteps
    BY DEF DeleteExecution, WorkSteps, RestSteps, FlowSteps
  <1>b. AtWork
    BY <1>a, TopFacts
  <1>c. UNCHANGED <<mine, clean, realmVars, adminVars>>
    BY DEF DeleteExecution
  <1> DEFINE id == Head(Top.live).id
  <1>1. CASE Fail
    BY <1>1, <1>c, StepFail
  <1>2. CASE /\ id \in DOMAIN tree
             /\ tree' = Without(tree, Below(tree, id))
             /\ Replace([Top EXCEPT !.live = Tail(@)])
             /\ step' = IF Len(Top.live) = 1 THEN "order" ELSE "delete"
             /\ UNCHANGED <<rootThere, realm, copy, finished>>
    <2> HIDE DEF id
    <2>1. TreeInv' /\ KeepsSeen
      BY <1>2, TreeShrunk DEF TypeInv
    <2>2. Top.live # << >> /\ Top.i = Len(Desired) + 1
      BY <1>a, <1>b DEF AtWork, FrameType, EndSteps
    <2>3. /\ Tail(Top.live) \in Listing
          /\ \A k \in DOMAIN Tail(Top.live) :
                k + 1 \in DOMAIN Top.live /\ Tail(Top.live)[k] = Top.live[k + 1]
          /\ Tail(Top.live) = << >> <=> Len(Top.live) = 1
      BY <2>2, <1>b, TailOf DEF AtWork
    <2> DEFINE rest == Tail(Top.live)
               fr == [Top EXCEPT !.live = rest]
    <2>4. Replace(fr)
      BY <1>2
    <2> HIDE DEF rest
    <2>5. FrameIs(fr, Top.flow, Top.i, rest, Top.used, Top.cur)
      BY <2>3, <1>b DEF AtWork, FrameIs, Frames, Listing, rest
    <2>6. TopBecomes(fr) /\ fr.flow = Top.flow
      BY <2>4, <2>5, <1>b, ReplaceTop DEF FrameIs, AtWork
    <2> HIDE DEF fr
    <2>7. \A k \in DOMAIN Top.live : Top.live[k].id \in Remembered
      <3>1. Len(stack) \in DOMAIN stack
        BY <1>b DEF AtWork
      <3> QED
        BY <3>1, RememberedIds DEF Top
    <2>8. FrameType(tree', Desired, Top, step)
      BY <2>7, <2>1, <1>b, FrameTypeKept DEF KeepsSeen, AtWork
    <2>9. ASSUME NEW k \in DOMAIN rest
          PROVE  /\ rest[k].rep.flow = Top.flow
                 /\ rest[k].id \in DOMAIN tree' => SameExecution(rest[k].rep, tree'[rest[k].id])
      BY <2>3, <2>8 DEF FrameType, rest
    <2>10. FrameType(tree', Desired, fr, step')
      <3>1. fr.i = Len(Desired) + 1 /\ fr.i \in 1..(Len(Desired) + 1) /\ fr.live = rest
            /\ fr.flow = Top.flow
        BY <2>2, <2>5, <1>b DEF FrameIs, AtWork
      <3>2. step' \in {"order", "delete"} /\ (step' = "delete" => rest # << >>)
        BY <1>2, <2>3 DEF rest
      <3> QED
        BY <2>9, <3>1, <3>2 DEF FrameType, ClaimSteps, EntrySteps, EndSteps
    <2>11. step' \in WorkSteps
      BY <1>2 DEF WorkSteps, RestSteps, FlowSteps
    <2> QED
      BY <2>1, <2>6, <2>10, <2>11, <1>2, <1>a, <1>c, StepWithin
  <1> QED
    BY <1>1, <1>2 DEF DeleteExecution

\* On to the next place.
LEMMA NextPlaceType ==
    ASSUME TypeInv, step = "reorder", Top.i <= Len(Desired), NEW used \in SUBSET Ids,
           NextPlace(used), TreeInv', KeepsSeen, UNCHANGED <<mine, clean, realmVars, adminVars>>
    PROVE  TypeInv'
  <1>a. step \in WorkSteps
    BY DEF WorkSteps, RestSteps, FlowSteps
  <1>b. AtWork
    BY <1>a, TopFacts
  <1> USE <1>b DEF AtWork
  <1> DEFINE fr == [Top EXCEPT !.i = @ + 1, !.used = used]
  <1>1. Top.i + 1 \in Nat
    OBVIOUS
  <1>2. FrameIs(fr, Top.flow, Top.i + 1, Top.live, used, Top.cur)
    BY <1>1 DEF FrameIs, Frames, Listing
  <1>3. TopBecomes(fr) /\ fr.flow = Top.flow
    BY <1>2, ReplaceTop DEF NextPlace, FrameIs
  <1> HIDE DEF fr
  <1>4. step' = "reorder" /\ step' \in WorkSteps
    BY DEF NextPlace, WorkSteps, RestSteps, FlowSteps
  <1>5. Len(stack) \in DOMAIN stack
    OBVIOUS
  <1>6. FrameType(tree', Desired, Top, step)
    <2>1. \A k \in DOMAIN Top.live : Top.live[k].id \in Remembered
      BY <1>5, RememberedIds DEF Top
    <2> QED
      BY <2>1, FrameTypeKept DEF KeepsSeen
  <1>7. FrameType(tree', Desired, fr, step')
    <2>1. fr.i \in 1..(Len(Desired) + 1)
      BY <1>2 DEF FrameIs
    <2>2. fr.live = Top.live /\ fr.flow = Top.flow
      BY <1>2 DEF FrameIs
    <2>3. \A k \in DOMAIN fr.live :
             /\ fr.live[k].rep.flow = fr.flow
             /\ fr.live[k].id \in DOMAIN tree' => SameExecution(fr.live[k].rep, tree'[fr.live[k].id])
      BY <2>2, <1>6 DEF FrameType
    <2> QED
      BY <2>1, <2>3, <1>4 DEF FrameType, ClaimSteps, EntrySteps, EndSteps
  <1> QED
    BY <1>a, <1>3, <1>4, <1>7, StepWithin DEF NextPlace

\* The innermost flow is left, and the one above it remembers fr now.
PopsTo(fr) ==
    /\ Len(stack) > 1 /\ stack' \in Seq(Frames) /\ Len(stack') = Len(stack) - 1
    /\ \A d \in 1..(Len(stack) - 2) : stack'[d] = stack[d]
    /\ stack'[Len(stack) - 1] = fr

LEMMA ReturnPops ==
    ASSUME TypeInv, step = "reorder", Return, Len(stack) # 1
    PROVE  \E fr :
             LET parent == stack[Len(stack) - 1]
             IN FrameIs(fr, parent.flow, parent.i + 1, parent.live, parent.used, 0) /\ PopsTo(fr)
  <1>a. step \in WorkSteps
    BY DEF WorkSteps, RestSteps, FlowSteps
  <1>b. AtWork
    BY <1>a, TopFacts
  <1>c. Len(stack) \in Nat \ {0, 1} /\ stack \in Seq(Frames)
    BY <1>b DEF AtWork
  <1>d. \A m \in Nat \ {0, 1} : m > 1 /\ m - 1 \in 1..m
    OBVIOUS
  <1> DEFINE n == Len(stack)
             parent == stack[n - 1]
             fr == [parent EXCEPT !.i = @ + 1, !.cur = 0]
             s == SubSeq(stack, 1, n - 1)
  <1>0. n \in Nat /\ n > 1 /\ n - 1 \in 1..n /\ stack \in Seq(Frames)
    BY <1>c, <1>d, Zenon
  <1>3. stack' = [s EXCEPT ![n - 1] = fr]
    BY <1>0 DEF Return
  <1>1. n \in Nat /\ n > 1 /\ n - 1 \in 1..n /\ stack \in Seq(Frames) /\ parent \in Frames
    BY <1>0, ElementOfSeq
  <1> HIDE DEF parent, n
  <1>2. parent.i + 1 \in Nat /\ parent.live \in Listing /\ parent.used \in SUBSET Ids /\ 0 \in Nat
    BY <1>1 DEF Frames, Listing
  <1>4. FrameIs(fr, parent.flow, parent.i + 1, parent.live, parent.used, 0)
    BY <1>1, <1>2, FrameUpdates, Zenon
  <1>5. fr \in Frames
    BY <1>4 DEF FrameIs
  <1>6. s \in Seq(Frames) /\ Len(s) = n - 1 /\ \A d \in 1..(n - 1) : s[d] = stack[d]
    BY <1>1 DEF n
  <1> HIDE DEF s, fr
  <1>7. n - 1 \in 1..Len(s)
    BY <1>1, <1>6
  <1>8. /\ stack' \in Seq(Frames) /\ Len(stack') = Len(s)
        /\ \A j \in 1..Len(s) : stack'[j] = IF j = n - 1 THEN fr ELSE s[j]
    BY <1>3, <1>5, <1>6, <1>7, ExceptSeq
  <1>9. PopsTo(fr)
    BY <1>1, <1>6, <1>8 DEF PopsTo, n
  <1> QED
    BY <1>4, <1>9 DEF n, parent

LEMMA ReturnType ==
    ASSUME TypeInv, step = "reorder", Return,
           UNCHANGED <<tree, rootThere, realm, copy, mine, clean, realmVars, adminVars>>
    PROVE  TypeInv'
  <1>a. step \in WorkSteps
    BY DEF WorkSteps, RestSteps, FlowSteps
  <1>b. AtWork
    BY <1>a, TopFacts
  <1>1. TreeInv'
    BY TreeKept DEF TypeInv
  <1>2. finished' \subseteq DOMAIN mine.flows
    BY <1>b DEF Return, TypeInv, StateType, AtWork
  <1>3. CASE Len(stack) = 1
    <2>1. step' = "bind" /\ stack' = << >>
      BY <1>3 DEF Return
    <2>2. StackType'
      BY <2>1 DEF StackType
    <2>3. StateType'
      BY <2>1, <1>2, <1>b DEF AtWork, TypeInv, StateType, FlowSteps, realmVars, adminVars
    <2> QED
      BY <2>2, <2>3, <1>1 DEF TypeInv
  <1>4. CASE Len(stack) # 1
    <2> DEFINE n == Len(stack)
               parent == stack[n - 1]
    <2>1. PICK fr : FrameIs(fr, parent.flow, parent.i + 1, parent.live, parent.used, 0) /\ PopsTo(fr)
      BY <1>4, ReturnPops
    <2>2. step' = "want" /\ mine' = mine /\ tree' = tree
      BY <1>4 DEF Return
    <2>3. /\ n \in Nat /\ n > 1 /\ Len(stack') = n - 1 /\ stack' \in Seq(Frames)
          /\ \A d \in 1..(n - 2) : stack'[d] = stack[d]
          /\ stack'[n - 1] = fr
      BY <2>1, <1>b DEF PopsTo, AtWork
    <2>4. n - 1 \in 1..Len(stack) /\ n - 1 # Len(stack)
      BY <2>3
    <2>5. /\ parent.flow \in DOMAIN mine.flows
          /\ FrameType(tree, mine.flows[parent.flow], parent, "descend")
      BY <2>4 DEF TypeInv, StackType, StepAt
    <2> HIDE DEF n, parent
    <2>6. /\ fr.flow = parent.flow /\ fr.i = parent.i + 1 /\ fr.live = parent.live
      BY <2>1 DEF FrameIs
    <2> DEFINE D == mine.flows[parent.flow]
    <2>7. Len(D) \in Nat
      BY <2>5, <1>b, SpecFacts DEF AtWork
    <2> HIDE DEF D
    <2>8. FrameType(tree, D, parent, "descend")
      BY <2>5 DEF D
    <2>9. FrameType(tree', D, fr, "want")
      <3>1. fr.i \in 1..(Len(D) + 1)
        BY <2>6, <2>7, <2>8 DEF FrameType, EntrySteps, ClaimSteps
      <3> QED
        BY <3>1, <2>2, <2>6, <2>8 DEF FrameType, ClaimSteps, EntrySteps, EndSteps
    <2>10. \A d \in 1..(n - 1) : stack'[d].flow = stack[d].flow /\ d \in 1..Len(stack)
      <3>1. \A d \in 1..(n - 1) : d = n - 1 \/ d \in 1..(n - 2)
        BY <2>3
      <3>2. stack[n - 1] = parent /\ n = Len(stack)
        BY DEF parent, n
      <3> QED
        BY <3>1, <3>2, <2>3, <2>6
    <2>11. ASSUME NEW d \in 1..(n - 1)
           PROVE  FrameType(tree', mine'.flows[stack'[d].flow], stack'[d], StepAt(d)')
      <3>1. CASE d = n - 1
        <4>1. StepAt(d)' = "want"
          BY <3>1, <2>2, <2>3 DEF StepAt
        <4> QED
          BY <4>1, <3>1, <2>2, <2>3, <2>6, <2>9, Zenon DEF D
      <3>2. CASE d # n - 1
        <4>1. d \in 1..(n - 2) /\ d \in 1..Len(stack) /\ d # Len(stack)
          BY <3>2, <2>3 DEF n
        <4>2. StepAt(d)' = "descend" /\ StepAt(d) = "descend"
          BY <4>1, <3>2, <2>3 DEF StepAt
        <4> QED
          BY <4>1, <4>2, <2>2, <2>3 DEF TypeInv, StackType
      <3> QED
        BY <3>1, <3>2
    <2>12. ASSUME NEW d \in 2..(n - 1)
           PROVE  LET above == mine'.flows[stack'[d - 1].flow][stack'[d - 1].i]
                  IN above.sub /\ above.name = stack'[d].flow
      <3>1. d - 1 \in 1..(n - 2) /\ d \in 1..(n - 1) /\ d \in 2..Len(stack)
        BY <2>3 DEF n
      <3>2. stack'[d - 1] = stack[d - 1] /\ stack'[d].flow = stack[d].flow
        BY <3>1, <2>3, <2>10
      <3> QED
        BY <3>1, <3>2, <2>2 DEF TypeInv, StackType
    <2>13. \A d \in 1..(n - 1) :
              /\ stack'[d].flow \in DOMAIN mine'.flows
              /\ d <= Level(mine')[stack'[d].flow]
              /\ d = 1 <=> stack'[d].flow = Root
      BY <2>2, <2>10 DEF TypeInv, StackType
    <2>14. \A d, e \in 1..(n - 1) :
              d < e => Level(mine')[stack'[d].flow] < Level(mine')[stack'[e].flow]
      BY <2>2, <2>10 DEF TypeInv, StackType
    <2>15. StackType'
      BY <2>3, <2>11, <2>12, <2>13, <2>14 DEF StackType
    <2>16. stack' # << >>
      BY <2>3
    <2>17. StateType'
      BY <2>2, <2>16, <1>2, <1>b DEF AtWork, TypeInv, StateType, FlowSteps, realmVars, adminVars
    <2> QED
      BY <2>15, <2>17, <1>1 DEF TypeInv
  <1> QED
    BY <1>3, <1>4

\* What the order finds for an entry.
LEMMA PlaceFacts ==
    ASSUME TypeInv, step = "reorder", Top.i <= Len(Desired),
           NEW k, k = matchingExecution(Top.live, Want, Top.used)
    PROVE  /\ Answers(Top.live, Want, Top.used, k)
           /\ wantPriority(Top.i) \in 0..(Len(Desired) - 1)
           /\ k # 0 => /\ k \in DOMAIN Top.live
                       /\ Top.live[k].id \in Ids /\ Top.live[k].rep \in Executions
                       /\ Top.live[k].id \in DOMAIN tree =>
                             /\ tree[Top.live[k].id] \in Executions
                             /\ tree[Top.live[k].id].flow = Top.flow
                             /\ SameExecution(Top.live[k].rep, tree[Top.live[k].id])
  <1>a. step \in WorkSteps
    BY DEF WorkSteps, RestSteps, FlowSteps
  <1>b. AtWork
    BY <1>a, TopFacts
  <1>1. Answers(Top.live, Want, Top.used, k)
    <2>1. Top.live \in Listing
      BY <1>b DEF AtWork
    <2> QED
      BY <2>1, Matching, Zenon
  <1>2. wantPriority(Top.i) \in 0..(Len(Desired) - 1)
    BY <1>b DEF AtWork, wantPriority
  <1>3. ASSUME k # 0
        PROVE  /\ k \in DOMAIN Top.live
               /\ Top.live[k].id \in Ids /\ Top.live[k].rep \in Executions
    <2>1. k \in DOMAIN Top.live
      BY <1>1, <1>3 DEF Answers
    <2> QED
      BY <2>1, <1>b, ListingElement DEF AtWork
  <1>4. ASSUME k # 0, Top.live[k].id \in DOMAIN tree
        PROVE  /\ tree[Top.live[k].id] \in Executions
               /\ tree[Top.live[k].id].flow = Top.flow
               /\ SameExecution(Top.live[k].rep, tree[Top.live[k].id])
    <2>1. tree[Top.live[k].id] \in Executions
      BY <1>4 DEF TypeInv, TreeInv, TreeType
    <2>2. Top.live[k].rep.flow = Top.flow /\ SameExecution(Top.live[k].rep, tree[Top.live[k].id])
      BY <1>3, <1>4, <1>b DEF AtWork, FrameType
    <2> QED
      BY <2>1, <2>2 DEF SameExecution
  <1> QED
    BY <1>1, <1>2, <1>3, <1>4

\* An execution gets its place.
LEMMA PlaceChange ==
    ASSUME TypeInv, step = "reorder", Top.i <= Len(Desired),
           NEW k, k = matchingExecution(Top.live, Want, Top.used), k # 0,
           Top.live[k].id \in DOMAIN tree, rootThere' = rootThere,
           tree' = [tree EXCEPT ![Top.live[k].id].prio = wantPriority(Top.i),
                                ![Top.live[k].id].req = Top.live[k].rep.req]
    PROVE  /\ TreeInv' /\ KeepsSeen
           /\ Changed(tree, tree', Top.live[k].id, Top.live[k].rep.req,
                      tree[Top.live[k].id].cfg, wantPriority(Top.i))
  <1>a. step \in WorkSteps
    BY DEF WorkSteps, RestSteps, FlowSteps
  <1>b. AtWork
    BY <1>a, TopFacts
  <1> DEFINE id == Top.live[k].id
             rep == Top.live[k].rep
             place == wantPriority(Top.i)
  <1>1. /\ place \in 0..(Len(Desired) - 1) /\ rep \in Executions
        /\ id \in DOMAIN tree /\ tree[id] \in Executions /\ tree[id].flow = Top.flow
    BY PlaceFacts
  <1>2. tree' = [tree EXCEPT ![id].prio = place, ![id].req = rep.req]
    OBVIOUS
  <1> HIDE DEF id, rep, place
  <1>3. place \in Nat /\ rep.req \in Requirements
    BY <1>1, <1>b DEF Executions, AtWork
  <1>4. Changed(tree, tree', id, rep.req, tree[id].cfg, place)
    BY <1>1, <1>2, <1>3, ChangeBoth, Zenon
  <1>5. \E s \in Specs : tree[id].flow \in DOMAIN s.flows /\ place \in 0..(Len(s.flows[tree[id].flow]) - 1)
    BY <1>1, <1>b DEF AtWork, Desired
  <1>6. TreeInv' /\ KeepsSeen
    BY <1>1, <1>4, <1>5, TreeChanged DEF TypeInv
  <1> QED
    BY <1>4, <1>6 DEF id, rep, place

LEMMA ReorderType == TypeInv /\ reconcileExecutionOrder => TypeInv'
  <1> SUFFICES ASSUME TypeInv, reconcileExecutionOrder PROVE TypeInv'
    OBVIOUS
  <1>a. step = "reorder" /\ step \in WorkSteps
    BY DEF reconcileExecutionOrder, WorkSteps, RestSteps, FlowSteps
  <1>b. AtWork
    BY <1>a, TopFacts
  <1>c. UNCHANGED <<mine, clean, realmVars, adminVars>>
    BY DEF reconcileExecutionOrder
  <1> DEFINE k == matchingExecution(Top.live, Want, Top.used)
             id == Top.live[k].id
             rep == Top.live[k].rep
             place == wantPriority(Top.i)
  <1>1. \/ Fail
        \/ Return /\ UNCHANGED <<tree, rootThere, realm, copy>>
        \/ Top.i <= Len(Desired) /\ NextPlace(Top.used) /\ tree' = tree
        \/ Top.i <= Len(Desired) /\ k # 0 /\ NextPlace(Top.used \cup {id}) /\ tree' = tree
        \/ /\ Top.i <= Len(Desired) /\ k # 0 /\ id \in DOMAIN tree
           /\ tree' = [tree EXCEPT ![id].prio = place, ![id].req = rep.req]
           /\ NextPlace(Top.used \cup {id})
    BY Zenon DEF reconcileExecutionOrder
  <1>2. k = matchingExecution(Top.live, Want, Top.used)
    OBVIOUS
  <1> HIDE DEF k
  <1>3. Top.i <= Len(Desired) /\ k # 0 => Top.used \cup {id} \in SUBSET Ids
    BY <1>2, <1>a, <1>b, PlaceFacts DEF AtWork
  <1>4. Top.used \in SUBSET Ids
    BY <1>b DEF AtWork
  <1>5. CASE Fail
    BY <1>5, <1>c, StepFail
  <1>6. CASE Return /\ UNCHANGED <<tree, rootThere, realm, copy>>
    BY <1>6, <1>a, <1>c, ReturnType
  <1>7. CASE Top.i <= Len(Desired) /\ NextPlace(Top.used) /\ tree' = tree
    <2>1. TreeInv' /\ KeepsSeen
      BY <1>7, TreeKept DEF TypeInv, NextPlace
    <2> QED
      BY <2>1, <1>4, <1>7, <1>a, <1>c, NextPlaceType
  <1>8. CASE Top.i <= Len(Desired) /\ k # 0 /\ NextPlace(Top.used \cup {id}) /\ tree' = tree
    <2>1. TreeInv' /\ KeepsSeen
      BY <1>8, TreeKept DEF TypeInv, NextPlace
    <2> QED
      BY <2>1, <1>3, <1>8, <1>a, <1>c, NextPlaceType
  <1>9. CASE /\ Top.i <= Len(Desired) /\ k # 0 /\ id \in DOMAIN tree
             /\ tree' = [tree EXCEPT ![id].prio = place, ![id].req = rep.req]
             /\ NextPlace(Top.used \cup {id})
    <2>1. TreeInv' /\ KeepsSeen
      BY <1>9, <1>a, <1>2, PlaceChange DEF NextPlace
    <2> QED
      BY <2>1, <1>3, <1>9, <1>a, <1>c, NextPlaceType
  <1> QED
    BY <1>1, <1>5, <1>6, <1>7, <1>8, <1>9

LEMMA GetBoundRealmType == TypeInv /\ GetBoundRealm => TypeInv'
  <1> SUFFICES ASSUME TypeInv, GetBoundRealm PROVE TypeInv'
    OBVIOUS
  <1>c. UNCHANGED <<tree, rootThere, realm, mine, clean, realmVars, adminVars>>
    BY DEF GetBoundRealm
  <1>1. CASE Finish
    <2>1. realm' \in RealmRepresentations
      BY <1>c DEF TypeInv, StateType
    <2> QED
      BY <2>1, <1>1, <1>c, StepFinish
  <1>2. CASE step' = "updateRealm" /\ copy' = realm /\ UNCHANGED <<stack, finished>>
    <2>1. stack = << >> /\ stack' = << >>
      BY <1>2 DEF GetBoundRealm, TypeInv, StateType
    <2>2. StackType'
      BY <2>1 DEF StackType
    <2>3. TreeInv'
      BY <1>c, TreeKept DEF TypeInv
    <2>4. StateType'
      BY <2>1, <1>2, <1>c DEF GetBoundRealm, TypeInv, StateType, FlowSteps, realmVars, adminVars
    <2> QED
      BY <2>2, <2>3, <2>4 DEF TypeInv
  <1> QED
    BY <1>1, <1>2 DEF GetBoundRealm

\* The two changes to a realm representation.
LEMMA RealmChanges ==
    ASSUME NEW r \in RealmRepresentations, NEW p \in {"", "default", "declared"},
           NEW b \in [Purposes -> {"", "other", Root}]
    PROVE  /\ [r EXCEPT !.policy = p] \in RealmRepresentations
           /\ [r EXCEPT !.bound = b] \in RealmRepresentations
           /\ r.bound \in [Purposes -> {"", "other", Root}]
  BY DEF RealmRepresentations

LEMMA BindFlowType == TypeInv /\ BindFlow => TypeInv'
  <1> SUFFICES ASSUME TypeInv, BindFlow PROVE TypeInv'
    OBVIOUS
  <1> DEFINE b == [p \in Purposes |-> IF p \in mine.bindings THEN Root ELSE copy.bound[p]]
  <1>1. realm' = [copy EXCEPT !.bound = b] /\ Finish
        /\ UNCHANGED <<tree, rootThere, mine, clean, realmVars, adminVars>>
    BY DEF BindFlow
  <1>2. copy \in RealmRepresentations
    BY DEF TypeInv, StateType
  <1>3. b \in [Purposes -> {"", "other", Root}]
    <2>1. copy.bound \in [Purposes -> {"", "other", Root}]
      BY <1>2 DEF RealmRepresentations
    <2> QED
      BY <2>1
  <1> HIDE DEF b
  <1>4. realm' \in RealmRepresentations
    BY <1>1, <1>2, <1>3, RealmChanges
  <1> QED
    BY <1>1, <1>4, StepFinish

LEMMA FlowStepType == TypeInv /\ FlowStep => TypeInv'
  BY ReconcileFlowType, EnsureRootFlowType, ListType, MatchType, CreateType, RelistType,
     RequirementType, DescendType, ReconcileConfigType, WriteConfigType, ProceedType, PruneType,
     DeleteType, OrderType, ReorderType, GetBoundRealmType, BindFlowType
     DEF FlowStep

\* A step that concerns neither the flows of Keycloak nor a pass over them.
LEMMA AsideType ==
    ASSUME TypeInv, UNCHANGED <<tree, rootThere, flowVars>>,
           spec' \in Specs, {realm', rcopy'} \subseteq RealmRepresentations,
           rstep' \in {"idle", "updateRealm"}, budget' \in 0..MaxDisturbances,
           {clean', settled'} \subseteq BOOLEAN
    PROVE  TypeInv'
  <1>1. TreeInv' /\ UNCHANGED <<tree, rootThere, step, mine, stack, copy, finished>>
    BY TreeKept DEF TypeInv, flowVars
  <1>2. \A d : StepAt(d)' = StepAt(d)
    BY <1>1 DEF StepAt
  <1>3. StackType'
    BY <1>1, <1>2 DEF TypeInv, StackType
  <1>4. StateType'
    BY <1>1 DEF TypeInv, StateType
  <1> QED
    BY <1>1, <1>3, <1>4 DEF TypeInv

LEMMA RealmStepType == TypeInv /\ RealmStep => TypeInv'
  <1> SUFFICES ASSUME TypeInv, RealmStep PROVE TypeInv'
    OBVIOUS
  <1>1. /\ UNCHANGED <<tree, rootThere, flowVars, clean, adminVars>>
        /\ rstep' \in {"idle", "updateRealm"}
    BY DEF RealmStep, GetRealm, UpdateRealm
  <1>2. {realm, rcopy, NoRealm} \subseteq RealmRepresentations
    BY NoRealmType DEF TypeInv, StateType
  <1>3. {realm', rcopy'} \subseteq RealmRepresentations
    <2>1. CASE GetRealm
      BY <2>1, <1>2 DEF GetRealm
    <2>2. CASE UpdateRealm
      <3>1. realm' = [rcopy EXCEPT !.policy = "declared"] /\ rcopy' = NoRealm
        BY <2>2 DEF UpdateRealm
      <3>2. [rcopy EXCEPT !.policy = "declared"] \in RealmRepresentations
        BY <1>2 DEF RealmRepresentations
      <3> QED
        BY <3>1, <3>2, <1>2
    <2> QED
      BY <2>1, <2>2 DEF RealmStep
  <1>4. spec' \in Specs /\ budget' \in 0..MaxDisturbances /\ {clean', settled'} \subseteq BOOLEAN
    BY <1>1 DEF adminVars, TypeInv, StateType
  <1> QED
    BY <1>1, <1>3, <1>4, AsideType

LEMMA InterfereType ==
    ASSUME TypeInv, Interfere
    PROVE  budget' \in 0..MaxDisturbances /\ {clean', settled'} \subseteq BOOLEAN
  <1>0. MaxDisturbances \in Nat
    BY FlowSyncAssumption
  <1>3. budget \in 0..MaxDisturbances /\ budget > 0 /\ budget' = budget - 1
    BY DEF TypeInv, StateType, Interfere
  <1>1. budget' \in 0..MaxDisturbances
    BY <1>0, <1>3
  <1>2. clean' \in BOOLEAN /\ settled' \in BOOLEAN
    BY Zenon DEF TypeInv, StateType, Interfere
  <1> QED
    BY <1>1, <1>2

LEMMA ChangeRealmType == TypeInv /\ ChangeRealm => TypeInv'
  <1> SUFFICES ASSUME TypeInv, ChangeRealm PROVE TypeInv'
    OBVIOUS
  <1>1. UNCHANGED <<spec, tree, rootThere, flowVars, realmVars>> /\ Interfere
    BY DEF ChangeRealm
  <1>2. realm \in RealmRepresentations
    BY DEF TypeInv, StateType
  <1> DEFINE b == [p \in Purposes |-> "other"]
  <1>3. b \in [Purposes -> {"", "other", Root}]
    OBVIOUS
  <1>4. realm' \in {[realm EXCEPT !.policy = "default"], [realm EXCEPT !.bound = b]}
    BY DEF ChangeRealm
  <1> HIDE DEF b
  <1>5. realm' \in RealmRepresentations
    BY <1>2, <1>3, <1>4, RealmChanges
  <1>6. spec' \in Specs /\ rcopy' \in RealmRepresentations /\ rstep' \in {"idle", "updateRealm"}
    BY <1>1 DEF TypeInv, StateType, realmVars
  <1> QED
    BY <1>1, <1>5, <1>6, InterfereType, AsideType

\* The console changes a tree into a tree.
LEMMA ConsoleType ==
    ASSUME TypeInv, Interfere, TreeInv', KeepsSeen,
           UNCHANGED <<spec, rootThere, realm, flowVars, realmVars>>
    PROVE  TypeInv'
  <1>1. UNCHANGED <<step, mine, stack, copy, finished, rstep, rcopy, spec, rootThere, realm>>
    BY DEF flowVars, realmVars
  <1>2. StateType'
    BY <1>1, InterfereType DEF TypeInv, StateType
  <1>3. StackType'
    <2>1. ASSUME NEW d \in 1..Len(stack)
          PROVE  FrameType(tree', mine.flows[stack[d].flow], stack[d], StepAt(d))
      <3>1. FrameType(tree, mine.flows[stack[d].flow], stack[d], StepAt(d)) /\ d \in DOMAIN stack
        BY DEF TypeInv, StackType
      <3>2. \A k \in DOMAIN stack[d].live : stack[d].live[k].id \in Remembered
        BY <3>1, RememberedIds
      <3> QED
        BY <3>1, <3>2, FrameTypeKept DEF KeepsSeen
    <2>2. \A d : StepAt(d)' = StepAt(d)
      BY <1>1 DEF StepAt
    <2> QED
      BY <2>1, <2>2, <1>1 DEF TypeInv, StackType
  <1> QED
    BY <1>2, <1>3 DEF TypeInv

LEMMA ChangeExecutionTree ==
    ASSUME TypeInv, ChangeExecution
    PROVE  TreeInv' /\ KeepsSeen
  <1>1. rootThere' = rootThere /\ TreeInv
    BY DEF ChangeExecution, TypeInv
  <1>2. PICK i \in DOMAIN tree :
          \/ \E r \in Requirements : tree' = [tree EXCEPT ![i].req = r]
          \/ tree' = [tree EXCEPT ![i].prio = 0]
          \/ tree' = [tree EXCEPT ![i].cfg = NoConfig]
          \/ tree' = Without(tree, Below(tree, i))
    BY DEF ChangeExecution
  <1>3. tree[i] \in Executions
    BY DEF TypeInv, TreeInv, TreeType
  <1>4. ASSUME NEW r \in Requirements, tree' = [tree EXCEPT ![i].req = r]
        PROVE  TreeInv' /\ KeepsSeen
    <2>1. Changed(tree, tree', i, r, tree[i].cfg, tree[i].prio)
      BY <1>3, <1>4, ChangeReq, Zenon
    <2> QED
      BY <2>1, <1>1, TreeChanged
  <1>5. CASE tree' = [tree EXCEPT ![i].prio = 0]
    <2>1. 0 \in Nat
      OBVIOUS
    <2>2. Changed(tree, tree', i, tree[i].req, tree[i].cfg, 0)
      BY <2>1, <1>3, <1>5, ChangePrio, Zenon
    <2> QED
      BY <2>2, <1>1, TreeChanged
  <1>6. CASE tree' = [tree EXCEPT ![i].cfg = NoConfig]
    <2>1. NoConfig \in Configs
      BY EmptyAliasAssumption DEF NoConfig, Configs
    <2>2. Changed(tree, tree', i, tree[i].req, NoConfig, tree[i].prio)
      BY <2>1, <1>3, <1>6, ChangeConfig, Zenon
    <2> QED
      BY <2>2, <1>1, TreeChanged
  <1>7. CASE tree' = Without(tree, Below(tree, i))
    BY <1>1, <1>7, TreeShrunk
  <1> QED
    BY <1>2, <1>4, <1>5, <1>6, <1>7

LEMMA AddExecutionTree ==
    ASSUME TypeInv, AddExecution
    PROVE  TreeInv' /\ KeepsSeen
  <1>1. PICK f \in Flows, i \in DOMAIN tree :
           ~tree[i].sub /\ tree' = With(tree, Fresh, NewExecution(f, tree[i]))
    BY DEF AddExecution
  <1>2. tree[i].sub \in BOOLEAN /\ tree[i].name \in STRING
    BY DEF TypeInv, TreeInv, TreeType, Executions
  <1>3. Unseen # {} /\ rootThere' = rootThere
    BY DEF AddExecution
  <1> QED
    BY <1>1, <1>2, <1>3, TreeGrown

LEMMA NextType == TypeInv /\ [Next]_vars => TypeInv'
  <1> SUFFICES ASSUME TypeInv, [Next]_vars PROVE TypeInv'
    OBVIOUS
  <1>0. /\ spec \in Specs /\ {realm, rcopy} \subseteq RealmRepresentations
        /\ rstep \in {"idle", "updateRealm"} /\ budget \in 0..MaxDisturbances
        /\ {clean, settled} \subseteq BOOLEAN
    BY DEF TypeInv, StateType
  <1>1. CASE FlowStep
    BY <1>1, FlowStepType
  <1>2. CASE RealmStep
    BY <1>2, RealmStepType
  <1>3. CASE FlowPassEnds
    BY <1>3, StepFail DEF FlowPassEnds
  <1>4. CASE RealmPassEnds
    BY <1>4, <1>0, NoRealmType, AsideType DEF RealmPassEnds, adminVars
  <1>5. CASE Edit
    BY <1>5, <1>0, InterfereType, AsideType DEF Edit, realmVars
  <1>6. CASE ChangeExecution
    BY <1>6, ChangeExecutionTree, ConsoleType DEF ChangeExecution
  <1>7. CASE AddExecution
    BY <1>7, AddExecutionTree, ConsoleType DEF AddExecution
  <1>8. CASE ChangeRealm
    BY <1>8, ChangeRealmType
  <1>9. CASE Settle
    BY <1>9, <1>0, AsideType DEF Settle, realmVars
  <1>10. CASE UNCHANGED vars
    BY <1>10, <1>0, AsideType DEF vars, flowVars
  <1> QED
    BY <1>1, <1>2, <1>3, <1>4, <1>5, <1>6, <1>7, <1>8, <1>9, <1>10 DEF Next

LEMMA InitType == Init => TypeInv
  <1> SUFFICES ASSUME Init PROVE TypeInv
    OBVIOUS
  <1>1. DOMAIN tree = {} /\ stack = << >>
    BY DEF Init
  <1>2. TreeInv
    BY <1>1 DEF TreeInv, TreeType, Rooted, PlacesType
  <1>3. StackType
    BY <1>1 DEF StackType
  <1>4. {realm, copy, rcopy} \subseteq RealmRepresentations
    BY NoRealmType DEF Init
  <1>9. MaxDisturbances \in Nat
    BY FlowSyncAssumption
  <1>5. budget \in 0..MaxDisturbances
    BY <1>9 DEF Init
  <1>6. {clean, settled, rootThere} \subseteq BOOLEAN
    BY DEF Init
  <1>7. /\ spec \in Specs /\ mine \in Specs /\ step = "idle" /\ finished = {} /\ rstep = "idle"
    BY DEF Init
  <1>8. StateType
    BY <1>1, <1>4, <1>5, <1>6, <1>7 DEF StateType, FlowSteps
  <1> QED
    BY <1>2, <1>3, <1>8 DEF TypeInv

LEMMA TypeInvariant == Spec => []TypeInv
  BY InitType, NextType, PTL DEF Spec

LEMMA TypeInvImplies == TypeInv => TypeOK
  <1> SUFFICES ASSUME TypeInv PROVE TypeOK
    OBVIOUS
  <1>1. ASSUME NEW i \in DOMAIN tree
        PROVE  /\ tree[i] \in Executions
               /\ tree[i].flow \in Flows
               /\ \E s \in Specs :
                     /\ tree[i].flow \in DOMAIN s.flows
                     /\ tree[i].prio \in {0} \cup 0..(Len(s.flows[tree[i].flow]) - 1)
               /\ \A j \in DOMAIN tree :
                     tree[i].sub /\ tree[j].sub /\ tree[i].name = tree[j].name => i = j
    <2>1. tree[i] \in Executions
      BY DEF TypeInv, TreeInv, TreeType
    <2>2. tree[i].flow \in Flows
      BY DEF TypeInv, TreeInv, TreeType, Flows, Roots
    <2>3. \E s \in Specs :
             /\ tree[i].flow \in DOMAIN s.flows
             /\ tree[i].prio \in {0} \cup 0..(Len(s.flows[tree[i].flow]) - 1)
      BY DEF TypeInv, TreeInv, PlacesType
    <2>4. \A j \in DOMAIN tree :
             tree[i].sub /\ tree[j].sub /\ tree[i].name = tree[j].name => i = j
      BY DEF TypeInv, TreeInv, TreeType
    <2> QED
      BY <2>1, <2>2, <2>3, <2>4
  <1>2. Len(stack) <= Levels
    <2>1. CASE stack = << >>
      BY <2>1 DEF Levels
    <2>2. CASE stack # << >>
      <3>1. Len(stack) \in 1..Len(stack) /\ mine \in Specs
        BY <2>2 DEF TypeInv, StackType, StateType
      <3>2. Level(mine) \in [DOMAIN mine.flows -> 1..Levels]
        BY <3>1, SpecFacts
      <3>3. stack[Len(stack)].flow \in DOMAIN mine.flows
            /\ Len(stack) <= Level(mine)[stack[Len(stack)].flow]
        BY <3>1 DEF TypeInv, StackType
      <3> QED
        BY <3>1, <3>2, <3>3 DEF Levels
    <2> QED
      BY <2>1, <2>2
  <1>3. DOMAIN tree \subseteq Ids
    BY DEF TypeInv, TreeInv, TreeType
  <1>4. /\ stack \in Seq(Frames)
        /\ \A d \in 2..Len(stack) :
             LET above == mine.flows[stack[d - 1].flow][stack[d - 1].i]
             IN above.sub /\ above.name = stack[d].flow
    BY DEF TypeInv, StackType
  <1> QED
    BY <1>1, <1>2, <1>3, <1>4 DEF TypeOK, TypeInv, StateType

\* Whatever happens, the executions of Keycloak form a tree whose priorities are
\* places of declared lists, and a pass is in flows that lie below each other, no
\* more than the API type has levels (TypeOK).
THEOREM FlowTypeCorrect == Spec => []TypeOK
  BY TypeInvariant, TypeInvImplies, PTL
=============================================================================
