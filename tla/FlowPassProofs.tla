--------------------------- MODULE FlowPassProofs ---------------------------
(***************************************************************************)
(* A pass of FlowSync that nobody interferes with, for every set of specs  *)
(* and of identifiers.                                                     *)
(***************************************************************************)
EXTENDS FlowSyncProofs

-----------------------------------------------------------------------------
(***************************************************************************)
(* What holds when aliases tell authenticators apart.                      *)
(***************************************************************************)

\* A configuration of that alias is declared for that authenticator.
Declares(alias, name) ==
    \E s \in Specs : \E f \in DOMAIN s.flows : \E k \in 1..Len(s.flows[f]) :
        s.flows[f][k].cfg.alias = alias /\ s.flows[f][k].name = name

GoodAlias(e) == e.cfg.alias # "" => Declares(e.cfg.alias, e.name)

AliasInv ==
    /\ \A i \in DOMAIN tree : GoodAlias(tree[i])
    /\ \A d \in 1..Len(stack) :
          /\ \A k \in DOMAIN stack[d].live : GoodAlias(stack[d].live[k].rep)
          /\ StepAt(d) \in ClaimSteps =>
                stack[d].live[stack[d].cur].rep.name
                  = mine.flows[stack[d].flow][stack[d].i].name

-----------------------------------------------------------------------------
(***************************************************************************)
(* What holds in a pass that nobody interferes with, for a spec without    *)
(* twins.                                                                  *)
(***************************************************************************)

Required(e, w) == w.req \in {"", e.req}

Configured(e, w) == w.cfg # NoConfig => e.cfg = Stored(w.cfg)

AsDeclared(e, w) == Alike(e, w) /\ Required(e, w) /\ Configured(e, w)

\* The executions of flow f are one to one the entries of D ...
Paired(t, D, f) ==
    /\ \A i \in Children(t, f) : \E j \in 1..Len(D) : AsDeclared(t[i], D[j])
    /\ \A j \in 1..Len(D) : \E i \in Children(t, f) : Alike(t[i], D[j])
    /\ \A i, k \in Children(t, f) : t[i].name = t[k].name => i = k

\* ... and the first n of these are in their places.
Placed(t, D, f, n) ==
    \A i \in Children(t, f) : \A j \in 1..n : Alike(t[i], D[j]) => t[i].prio = j - 1

Mirrored(t, D, f) == Paired(t, D, f) /\ Placed(t, D, f, Len(D))

LiveIds(fr) == {fr.live[k].id : k \in DOMAIN fr.live}

\* What is listed and not claimed is as it was listed.
UpToDate(t, fr) ==
    \A k \in DOMAIN fr.live :
        fr.live[k].id \notin fr.used =>
            fr.live[k].id \in DOMAIN t /\ fr.live[k].rep = t[fr.live[k].id]

\* How many entries have been claimed, have their requirement and have their
\* configuration.
ClaimedTo(fr, st) == IF st \in ClaimSteps THEN fr.i ELSE fr.i - 1

RequiredTo(fr, st) == IF st \in ClaimSteps \ {"requirement"} THEN fr.i ELSE fr.i - 1

ConfiguredTo(fr, st) == IF st \in {"descend", "next"} THEN fr.i ELSE fr.i - 1

\* The executions claimed so far are one to one the entries handled so far.
Claims(t, D, fr, st) ==
    /\ \A i \in fr.used : \E j \in 1..ClaimedTo(fr, st) : Alike(t[i], D[j])
    /\ \A j \in 1..ClaimedTo(fr, st) : \E i \in fr.used : Alike(t[i], D[j])
    /\ \A i, k \in fr.used : t[i].name = t[k].name => i = k
    /\ \A i \in fr.used : \A j \in 1..RequiredTo(fr, st) :
          Alike(t[i], D[j]) => Required(t[i], D[j])
    /\ \A i \in fr.used : \A j \in 1..ConfiguredTo(fr, st) :
          Alike(t[i], D[j]) => Configured(t[i], D[j])

\* In the walk over the entries the list is complete and up to date.
Walk(t, D, fr, st) ==
    /\ Children(t, fr.flow) \subseteq fr.used \cup LiveIds(fr)
    /\ UpToDate(t, fr)
    /\ st = "create" =>
          \A k \in DOMAIN fr.live : fr.live[k].id \notin fr.used => ~Alike(fr.live[k].rep, D[fr.i])
    /\ st \in ClaimSteps =>
          fr.live[fr.cur].id \in fr.used /\ Alike(t[fr.live[fr.cur].id], D[fr.i])
    /\ st = "requirement" => t[fr.live[fr.cur].id].req # D[fr.i].req

\* When the priorities are given, everything else is as declared.
Ordering(t, D, fr) ==
    /\ Paired(t, D, fr.flow)
    /\ Placed(t, D, fr.flow, fr.i - 1)
    /\ LiveIds(fr) = Children(t, fr.flow)
    /\ UpToDate(t, fr)
    /\ \A i \in fr.used : \E j \in 1..(fr.i - 1) : Alike(t[i], D[j])

FrameInv(t, D, fr, st) ==
    /\ fr.used \subseteq Children(t, fr.flow)
    /\ st # "reorder" => Claims(t, D, fr, st)
    /\ st \in {"want", "create"} \cup ClaimSteps => Walk(t, D, fr, st)
    /\ st = "delete" => /\ Children(t, fr.flow) \subseteq fr.used \cup LiveIds(fr)
                        /\ fr.used \cap LiveIds(fr) = {}
    /\ st = "order" => Children(t, fr.flow) \subseteq fr.used
    /\ st = "reorder" => Ordering(t, D, fr)

StackFlows == {stack[d].flow : d \in 1..Len(stack)}

\* The flows a pass has seen.
Seen == finished \cup StackFlows

\* How many entries the pass is through with.
HandledTo(D, fr, st) == IF st = "reorder" THEN Len(D) ELSE fr.i - 1

HandledAt(d) == HandledTo(mine.flows[stack[d].flow], stack[d], StepAt(d))

\* Subflow n hangs in a flow that has been seen, and is not up for removal.
Anchored(n) ==
    \E k \in DOMAIN tree :
        /\ tree[k].sub /\ tree[k].name = n
        /\ tree[k].flow \in Seen
        /\ \A d \in 1..Len(stack) :
              stack[d].flow = tree[k].flow /\ StepAt(d) # "reorder" => k \in stack[d].used

\* Subflow n is declared in a flow that has been seen, among the handled entries.
Handled(n) ==
    \E p \in Seen : p \in DOMAIN mine.flows /\ \E j \in 1..Len(mine.flows[p]) :
        /\ mine.flows[p][j].sub /\ mine.flows[p][j].name = n
        /\ \A d \in 1..Len(stack) : stack[d].flow = p => j <= HandledAt(d)

FinishedInv ==
    /\ \A f \in finished : Mirrored(tree, mine.flows[f], f)
    /\ \A f \in finished : \A j \in 1..Len(mine.flows[f]) :
          mine.flows[f][j].sub => mine.flows[f][j].name \in finished
    /\ \A d \in 1..Len(stack) : \A j \in 1..HandledAt(d) :
          LET w == mine.flows[stack[d].flow][j] IN w.sub => w.name \in finished
    /\ finished \cap StackFlows = {}
    /\ \A n \in Seen \ {Root} : Anchored(n)
    /\ \A n \in finished \ {Root} : Handled(n)
    /\ step \in {"bind", "updateRealm"} => Root \in finished

PassInv ==
    /\ \A d \in 1..Len(stack) :
          FrameInv(tree, mine.flows[stack[d].flow], stack[d], StepAt(d))
    /\ FinishedInv

Inv ==
    /\ TypeInv
    /\ AliasesTell => AliasInv
    /\ AliasesTell /\ clean /\ NoTwins(mine) => PassInv

-----------------------------------------------------------------------------
(***************************************************************************)
(* What a flow remembers, step by step, in a pass nobody interferes with.  *)
(***************************************************************************)

\* No two entries of a list bear one name.
Distinct(D) == \A j, k \in 1..Len(D) : D[j].name = D[k].name => j = k

\* Flow f has the same executions in both trees.
SameAt(t, u, f) ==
    Children(u, f) = Children(t, f) /\ \A i \in Children(t, f) : u[i] = t[i]

LEMMA MirroredKept ==
    ASSUME NEW t, NEW u, NEW D, NEW f, SameAt(t, u, f), Mirrored(t, D, f)
    PROVE  Mirrored(u, D, f)
  <1>1. Children(u, f) = Children(t, f) /\ \A i \in Children(t, f) : u[i] = t[i]
    BY DEF SameAt
  <1>2. Paired(u, D, f)
    BY <1>1 DEF Mirrored, Paired
  <1>3. Placed(u, D, f, Len(D))
    BY <1>1 DEF Mirrored, Placed
  <1> QED
    BY <1>2, <1>3 DEF Mirrored

\* A flow that has gone into a subflow is not touched.
LEMMA FrameKept ==
    ASSUME NEW t, NEW u, NEW D, NEW fr, SameAt(t, u, fr.flow), FrameType(t, D, fr, "descend"),
           FrameInv(t, D, fr, "descend")
    PROVE  FrameInv(u, D, fr, "descend")
  <1>1. Children(u, fr.flow) = Children(t, fr.flow) /\ \A i \in Children(t, fr.flow) : u[i] = t[i]
    BY DEF SameAt
  <1>2. /\ fr.used \subseteq Children(t, fr.flow) /\ \A i \in fr.used : u[i] = t[i]
        /\ Claims(t, D, fr, "descend")
        /\ Walk(t, D, fr, "descend")
    BY <1>1 DEF FrameInv, ClaimSteps
  <1>3. Claims(u, D, fr, "descend")
    BY <1>2 DEF Claims
  <1>4. ASSUME NEW k \in DOMAIN fr.live, fr.live[k].id \notin fr.used
        PROVE  fr.live[k].id \in DOMAIN u /\ fr.live[k].rep = u[fr.live[k].id]
    <2>1. fr.live[k].id \in DOMAIN t /\ fr.live[k].rep = t[fr.live[k].id]
      BY <1>2, <1>4 DEF Walk, UpToDate
    <2>2. t[fr.live[k].id].flow = fr.flow
      BY <2>1 DEF FrameType
    <2>3. fr.live[k].id \in Children(t, fr.flow)
      BY <2>1, <2>2 DEF Children
    <2>4. fr.live[k].id \in DOMAIN u
      BY <2>3, <1>1 DEF Children
    <2> QED
      BY <2>1, <2>3, <2>4, <1>1
  <1>5. Walk(u, D, fr, "descend")
    BY <1>1, <1>2, <1>4 DEF Walk, UpToDate, ClaimSteps
  <1> QED
    BY <1>1, <1>2, <1>3, <1>5 DEF FrameInv, ClaimSteps

\* The list is complete and up to date, as far as it is not claimed.
Shows(t, fr, live) ==
    /\ Children(t, fr.flow) \subseteq fr.used \cup {live[j].id : j \in DOMAIN live}
    /\ \A j \in DOMAIN live : live[j].id \notin fr.used =>
          live[j].id \in DOMAIN t /\ live[j].rep = t[live[j].id]

\* The k-th of the list is claimed for the entry in hand, and then fr becomes g.
Claiming(D, fr, live, k, g, st) ==
    /\ fr.i \in 1..Len(D) /\ k \in DOMAIN live
    /\ live[k].id \notin fr.used /\ live[k].rep.flow = fr.flow /\ Alike(live[k].rep, D[fr.i])
    /\ g.flow = fr.flow /\ g.i = fr.i /\ g.live = live /\ g.used = fr.used \cup {live[k].id}
    /\ g.cur = k
    /\ st \in ClaimSteps
    /\ st = "requirement" => D[fr.i].req # live[k].rep.req
    /\ st # "requirement" => Required(live[k].rep, D[fr.i])
    /\ st \in {"descend", "next"} => D[fr.i].cfg = NoConfig

\* An entry is claimed.
LEMMA ClaimFrame ==
    ASSUME NEW t, NEW D, Len(D) \in Nat, Distinct(D), NEW fr, NEW s, s \in {"want", "relist"},
           FrameInv(t, D, fr, s), NEW live, Shows(t, fr, live), NEW k, NEW g, NEW st,
           Claiming(D, fr, live, k, g, st)
    PROVE  FrameInv(t, D, g, st)
  <1>a. /\ fr.i \in 1..Len(D) /\ k \in DOMAIN live
        /\ live[k].id \notin fr.used /\ live[k].rep.flow = fr.flow /\ Alike(live[k].rep, D[fr.i])
        /\ g.flow = fr.flow /\ g.i = fr.i /\ g.live = live /\ g.used = fr.used \cup {live[k].id}
        /\ g.cur = k
        /\ st \in ClaimSteps
        /\ st = "requirement" => D[fr.i].req # live[k].rep.req
        /\ st # "requirement" => Required(live[k].rep, D[fr.i])
        /\ st \in {"descend", "next"} => D[fr.i].cfg = NoConfig
    BY DEF Claiming
  <1>b. /\ Children(t, fr.flow) \subseteq fr.used \cup {live[j].id : j \in DOMAIN live}
        /\ \A j \in DOMAIN live : live[j].id \notin fr.used =>
              live[j].id \in DOMAIN t /\ live[j].rep = t[live[j].id]
    BY DEF Shows
  <1> USE <1>a, <1>b
  <1> DEFINE id == live[k].id
  <1>1. id \in DOMAIN t /\ live[k].rep = t[id] /\ id \notin fr.used /\ g.used = fr.used \cup {id}
    OBVIOUS
  <1>2. id \in Children(t, fr.flow) /\ Alike(t[id], D[fr.i]) /\ live[g.cur].id = id
    BY <1>1 DEF Children
  <1> HIDE DEF id
  <1>3. fr.used \subseteq Children(t, fr.flow) /\ Claims(t, D, fr, s)
    BY DEF FrameInv
  <1>4. ClaimedTo(fr, s) = fr.i - 1 /\ RequiredTo(fr, s) = fr.i - 1 /\ ConfiguredTo(fr, s) = fr.i - 1
    BY DEF ClaimedTo, RequiredTo, ConfiguredTo, ClaimSteps
  <1>5. fr.i \in Nat \ {0} /\ \A j \in 1..fr.i : j = fr.i \/ j \in 1..(fr.i - 1)
    OBVIOUS
  <1>6. \A j \in 1..fr.i : j \in 1..Len(D)
    BY <1>5
  <1>7. \A i \in fr.used : \E j \in 1..(fr.i - 1) : Alike(t[i], D[j])
    BY <1>3, <1>4 DEF Claims
  <1>8. \A j \in 1..(fr.i - 1) : j \in 1..Len(D) /\ D[j].name # D[fr.i].name
    BY <1>5, <1>6 DEF Distinct
  <1>9. \A i \in fr.used : t[i].name # D[fr.i].name
    BY <1>7, <1>8 DEF Alike
  <1>10. t[id].name = D[fr.i].name
    BY <1>2 DEF Alike
  <1>11. ClaimedTo(g, st) = fr.i
    BY DEF ClaimedTo
  <1>12. \A i \in g.used : \E j \in 1..fr.i : Alike(t[i], D[j])
    BY <1>1, <1>2, <1>5, <1>7
  <1>13. \A j \in 1..fr.i : \E i \in g.used : Alike(t[i], D[j])
    BY <1>1, <1>2, <1>3, <1>4, <1>5 DEF Claims
  <1>14. \A i, j \in g.used : t[i].name = t[j].name => i = j
    BY <1>1, <1>3, <1>9, <1>10 DEF Claims
  <1>15. \A i \in g.used : \A j \in 1..RequiredTo(g, st) : Alike(t[i], D[j]) => Required(t[i], D[j])
    <2> SUFFICES ASSUME NEW i \in g.used, NEW j \in 1..RequiredTo(g, st), Alike(t[i], D[j])
                 PROVE  Required(t[i], D[j])
      OBVIOUS
    <2>1. j \in 1..(fr.i - 1) \/ (j = fr.i /\ st # "requirement")
      BY <1>5 DEF RequiredTo
    <2>2. CASE j \in 1..(fr.i - 1)
      <3>1. i \in fr.used
        BY <2>2, <1>1, <1>8, <1>10 DEF Alike
      <3> QED
        BY <2>2, <3>1, <1>3, <1>4 DEF Claims
    <2>3. CASE j = fr.i /\ st # "requirement"
      <3>1. i = id
        BY <2>3, <1>1, <1>9 DEF Alike
      <3> QED
        BY <2>3, <3>1, <1>1
    <2> QED
      BY <2>1, <2>2, <2>3
  <1>16. \A i \in g.used : \A j \in 1..ConfiguredTo(g, st) : Alike(t[i], D[j]) => Configured(t[i], D[j])
    <2> SUFFICES ASSUME NEW i \in g.used, NEW j \in 1..ConfiguredTo(g, st), Alike(t[i], D[j])
                 PROVE  Configured(t[i], D[j])
      OBVIOUS
    <2>1. j \in 1..(fr.i - 1) \/ (j = fr.i /\ D[fr.i].cfg = NoConfig)
      BY <1>5 DEF ConfiguredTo
    <2>2. CASE j \in 1..(fr.i - 1)
      <3>1. i \in fr.used
        BY <2>2, <1>1, <1>8, <1>10 DEF Alike
      <3> QED
        BY <2>2, <3>1, <1>3, <1>4 DEF Claims
    <2>3. CASE j = fr.i /\ D[fr.i].cfg = NoConfig
      BY <2>3 DEF Configured
    <2> QED
      BY <2>1, <2>2, <2>3
  <1>17. Claims(t, D, g, st)
    BY <1>11, <1>12, <1>13, <1>14, <1>15, <1>16 DEF Claims
  <1>18. Walk(t, D, g, st)
    <2>1. Children(t, g.flow) \subseteq g.used \cup LiveIds(g)
      BY <1>1 DEF LiveIds
    <2>2. UpToDate(t, g)
      BY <1>1 DEF UpToDate
    <2>3. st # "create"
      BY DEF ClaimSteps
    <2>4. g.live[g.cur].id = id /\ id \in g.used /\ g.i = fr.i
      BY <1>1, <1>2
    <2> QED
      BY <2>1, <2>2, <2>3, <2>4, <1>1, <1>2 DEF Walk
  <1>19. g.used \subseteq Children(t, g.flow) /\ st \notin {"reorder", "delete", "order"}
    BY <1>1, <1>2, <1>3 DEF ClaimSteps
  <1> QED
    BY <1>17, <1>18, <1>19 DEF FrameInv

\* On to the next entry, once its requirement and its configuration are right.
LEMMA NextFrame ==
    ASSUME NEW t, NEW D, Len(D) \in Nat, Distinct(D), NEW fr, NEW st \in ClaimSteps,
           FrameInv(t, D, fr, st), fr.i \in 1..Len(D),
           \A i \in fr.used : Alike(t[i], D[fr.i]) => Required(t[i], D[fr.i]) /\ Configured(t[i], D[fr.i]),
           NEW g, g.flow = fr.flow, g.i = fr.i + 1, g.live = fr.live, g.used = fr.used
    PROVE  FrameInv(t, D, g, "want")
  <1>1. fr.used \subseteq Children(t, fr.flow) /\ Claims(t, D, fr, st) /\ Walk(t, D, fr, st)
    BY DEF FrameInv, ClaimSteps
  <1>2. ClaimedTo(g, "want") = fr.i /\ RequiredTo(g, "want") = fr.i /\ ConfiguredTo(g, "want") = fr.i
    BY DEF ClaimedTo, RequiredTo, ConfiguredTo, ClaimSteps
  <1>3. /\ ClaimedTo(fr, st) = fr.i
        /\ RequiredTo(fr, st) \in {fr.i - 1, fr.i} /\ ConfiguredTo(fr, st) \in {fr.i - 1, fr.i}
    BY DEF ClaimedTo, RequiredTo, ConfiguredTo
  <1>4. \A j \in 1..fr.i : j = fr.i \/ (j \in 1..RequiredTo(fr, st) /\ j \in 1..ConfiguredTo(fr, st))
    BY <1>3
  <1>5. Claims(t, D, g, "want")
    BY <1>1, <1>2, <1>3, <1>4 DEF Claims
  <1>6. Walk(t, D, g, "want")
    BY <1>1 DEF Walk, UpToDate, LiveIds, ClaimSteps
  <1> QED
    BY <1>1, <1>5, <1>6 DEF FrameInv

\* The execution in hand is changed.
LEMMA TouchFrame ==
    ASSUME NEW t, NEW u, NEW D, Len(D) \in Nat, Distinct(D), NEW fr, NEW s \in ClaimSteps,
           FrameInv(t, D, fr, s), fr.i \in 1..Len(D), NEW c, c = fr.live[fr.cur].id,
           NEW r, NEW h, NEW p, Changed(t, u, c, r, h, p),
           NEW st \in ClaimSteps \ {"requirement"}, Required(u[c], D[fr.i]),
           st \in {"descend", "next"} => Configured(u[c], D[fr.i])
    PROVE  FrameInv(u, D, fr, st)
  <1>1. fr.used \subseteq Children(t, fr.flow) /\ Claims(t, D, fr, s) /\ Walk(t, D, fr, s)
    BY DEF FrameInv, ClaimSteps
  <1>2. c \in fr.used /\ Alike(t[c], D[fr.i])
    BY <1>1 DEF Walk
  <1>3. /\ DOMAIN u = DOMAIN t /\ \A j \in DOMAIN t : j # c => u[j] = t[j]
        /\ u[c].flow = t[c].flow /\ u[c].sub = t[c].sub /\ u[c].name = t[c].name
    BY DEF Changed, Becomes, SameExecution
  <1>4. fr.used \subseteq DOMAIN t
    BY <1>1 DEF Children
  <1>5. \A i \in DOMAIN t : u[i].flow = t[i].flow /\ u[i].sub = t[i].sub /\ u[i].name = t[i].name
    BY <1>3
  <1>6. Children(u, fr.flow) = Children(t, fr.flow)
    BY <1>3, <1>5 DEF Children
  <1>7. \A i \in fr.used : \A w : Alike(u[i], w) <=> Alike(t[i], w)
    BY <1>4, <1>5 DEF Alike
  <1>8. /\ ClaimedTo(fr, s) = fr.i /\ ClaimedTo(fr, st) = fr.i
        /\ RequiredTo(fr, s) \in {fr.i - 1, fr.i} /\ ConfiguredTo(fr, s) \in {fr.i - 1, fr.i}
        /\ RequiredTo(fr, st) = fr.i
        /\ ConfiguredTo(fr, st) = IF st \in {"descend", "next"} THEN fr.i ELSE fr.i - 1
    BY DEF ClaimedTo, RequiredTo, ConfiguredTo
  <1>9. fr.i \in Nat \ {0} /\ \A j \in 1..fr.i :
           j \in 1..Len(D)
           /\ (j = fr.i \/ (j \in 1..(fr.i - 1) /\ j \in 1..RequiredTo(fr, s) /\ j \in 1..ConfiguredTo(fr, s)))
    BY <1>8
  <1>10. \A i \in fr.used : \A j \in 1..fr.i :
            Alike(u[i], D[j]) => /\ j = fr.i => i = c
                                 /\ j # fr.i => i # c
    <2> SUFFICES ASSUME NEW i \in fr.used, NEW j \in 1..fr.i, Alike(u[i], D[j])
                 PROVE  (j = fr.i => i = c) /\ (j # fr.i => i # c)
      OBVIOUS
    <2>1. t[i].name = D[j].name /\ t[c].name = D[fr.i].name
      BY <1>2, <1>7 DEF Alike
    <2>2. j = fr.i => i = c
      BY <2>1, <1>1, <1>2 DEF Claims
    <2>3. i = c => j = fr.i
      BY <2>1, <1>9 DEF Distinct
    <2> QED
      BY <2>2, <2>3
  <1>11. \A i \in fr.used : \A j \in 1..fr.i : Alike(u[i], D[j]) => Required(u[i], D[j])
    <2> SUFFICES ASSUME NEW i \in fr.used, NEW j \in 1..fr.i, Alike(u[i], D[j])
                 PROVE  Required(u[i], D[j])
      OBVIOUS
    <2>1. CASE j = fr.i
      BY <2>1, <1>10
    <2>2. CASE j # fr.i
      <3>1. i # c /\ u[i] = t[i] /\ j \in 1..RequiredTo(fr, s)
        BY <2>2, <1>10, <1>9, <1>3, <1>4
      <3> QED
        BY <3>1, <1>1, <1>7 DEF Claims
    <2> QED
      BY <2>1, <2>2
  <1>12. \A i \in fr.used : \A j \in 1..ConfiguredTo(fr, st) : Alike(u[i], D[j]) => Configured(u[i], D[j])
    <2> SUFFICES ASSUME NEW i \in fr.used, NEW j \in 1..ConfiguredTo(fr, st), Alike(u[i], D[j])
                 PROVE  Configured(u[i], D[j])
      OBVIOUS
    <2>0. j \in 1..fr.i /\ (j = fr.i => st \in {"descend", "next"})
      BY <1>8, <1>9
    <2>1. CASE j = fr.i
      BY <2>0, <2>1, <1>10
    <2>2. CASE j # fr.i
      <3>1. i # c /\ u[i] = t[i] /\ j \in 1..ConfiguredTo(fr, s)
        BY <2>0, <2>2, <1>10, <1>9, <1>3, <1>4
      <3> QED
        BY <3>1, <1>1, <1>7 DEF Claims
    <2> QED
      BY <2>1, <2>2
  <1>13. \A i, k \in fr.used : u[i].name = u[k].name => i = k
    BY <1>1, <1>4, <1>5 DEF Claims
  <1>14. Claims(u, D, fr, st)
    BY <1>1, <1>7, <1>8, <1>11, <1>12, <1>13 DEF Claims
  <1>15. Walk(u, D, fr, st)
    <2>1. UpToDate(u, fr)
      BY <1>1, <1>2, <1>3 DEF Walk, UpToDate
    <2>2. st # "create" /\ st # "requirement"
      BY DEF ClaimSteps
    <2> QED
      BY <2>1, <2>2, <1>1, <1>2, <1>6, <1>7 DEF Walk
  <1> QED
    BY <1>1, <1>6, <1>14, <1>15 DEF FrameInv, ClaimSteps

\* An execution is created.
LEMMA CreateFrame ==
    ASSUME NEW t, NEW u, NEW D, NEW fr, FrameInv(t, D, fr, "create"), NEW c,
           DOMAIN u = DOMAIN t \cup {c}, c \notin DOMAIN t, \A i \in DOMAIN t : u[i] = t[i]
    PROVE  FrameInv(u, D, fr, "relist")
  <1>1. fr.used \subseteq Children(t, fr.flow) /\ Claims(t, D, fr, "create")
    BY DEF FrameInv
  <1>2. fr.used \subseteq Children(u, fr.flow) /\ \A i \in fr.used : u[i] = t[i]
    BY <1>1 DEF Children
  <1>3. /\ ClaimedTo(fr, "relist") = ClaimedTo(fr, "create")
        /\ RequiredTo(fr, "relist") = RequiredTo(fr, "create")
        /\ ConfiguredTo(fr, "relist") = ConfiguredTo(fr, "create")
    BY DEF ClaimedTo, RequiredTo, ConfiguredTo, ClaimSteps
  <1>4. Claims(u, D, fr, "relist")
    BY <1>1, <1>2, <1>3 DEF Claims
  <1> QED
    BY <1>2, <1>4 DEF FrameInv, ClaimSteps

\* What has been claimed is claimed in the steps that follow the walk.
LEMMA ClaimsKept ==
    ASSUME NEW t, NEW u, NEW D, NEW fr, NEW g, NEW s, NEW st, Claims(t, D, fr, s),
           g.used = fr.used, g.i = fr.i, \A i \in fr.used : u[i] = t[i],
           s \notin ClaimSteps, st \notin ClaimSteps
    PROVE  Claims(u, D, g, st)
  <1>1. /\ ClaimedTo(g, st) = ClaimedTo(fr, s)
        /\ RequiredTo(g, st) = RequiredTo(fr, s)
        /\ ConfiguredTo(g, st) = ConfiguredTo(fr, s)
    BY DEF ClaimedTo, RequiredTo, ConfiguredTo, ClaimSteps
  <1> QED
    BY <1>1 DEF Claims

\* What nobody claims is listed.
LEMMA PruneFrame ==
    ASSUME NEW t, NEW D, NEW fr, FrameInv(t, D, fr, "prune"), NEW g, g.flow = fr.flow,
           g.used = fr.used, g.i = fr.i,
           Children(t, fr.flow) \ fr.used = LiveIds(g), NEW st \in {"delete", "order"},
           st = "order" => LiveIds(g) = {}
    PROVE  FrameInv(t, D, g, st)
  <1>1. fr.used \subseteq Children(t, fr.flow) /\ Claims(t, D, fr, "prune")
    BY DEF FrameInv
  <1>2. Claims(t, D, g, st)
    BY <1>1, ClaimsKept DEF ClaimSteps
  <1> QED
    BY <1>1, <1>2 DEF FrameInv, ClaimSteps

\* An execution is removed.
LEMMA DeleteFrame ==
    ASSUME NEW t, NEW u, NEW D, NEW fr, FrameInv(t, D, fr, "delete"), NEW id, id \in LiveIds(fr),
           Children(u, fr.flow) = Children(t, fr.flow) \ {id},
           \A i \in DOMAIN u : u[i] = t[i],
           NEW g, g.flow = fr.flow, g.used = fr.used, g.i = fr.i,
           LiveIds(g) \subseteq LiveIds(fr), LiveIds(fr) \subseteq LiveIds(g) \cup {id},
           NEW st \in {"delete", "order"}, st = "order" => LiveIds(g) = {}
    PROVE  FrameInv(u, D, g, st)
  <1>1. /\ fr.used \subseteq Children(t, fr.flow) /\ Claims(t, D, fr, "delete")
        /\ Children(t, fr.flow) \subseteq fr.used \cup LiveIds(fr)
        /\ fr.used \cap LiveIds(fr) = {}
    BY DEF FrameInv
  <1>2. fr.used \subseteq Children(u, fr.flow) /\ \A i \in fr.used : u[i] = t[i]
    BY <1>1 DEF Children
  <1>3. Claims(u, D, g, st)
    BY <1>1, <1>2, ClaimsKept DEF ClaimSteps
  <1>4. Children(u, g.flow) \subseteq g.used \cup LiveIds(g) /\ g.used \cap LiveIds(g) = {}
    BY <1>1
  <1> QED
    BY <1>2, <1>3, <1>4 DEF FrameInv, ClaimSteps

\* Everything left is claimed and as declared, and is listed for the order.
LEMMA OrderFrame ==
    ASSUME NEW t, NEW D, Len(D) \in Nat, NEW fr, FrameInv(t, D, fr, "order"), fr.i = Len(D) + 1,
           NEW g, g.flow = fr.flow, g.used = {}, g.i = 1, LiveIds(g) = Children(t, fr.flow),
           \A k \in DOMAIN g.live : g.live[k].rep = t[g.live[k].id]
    PROVE  FrameInv(t, D, g, "reorder")
  <1>1. /\ fr.used = Children(t, fr.flow) /\ Claims(t, D, fr, "order")
    BY DEF FrameInv
  <1>2. /\ ClaimedTo(fr, "order") = Len(D) /\ RequiredTo(fr, "order") = Len(D)
        /\ ConfiguredTo(fr, "order") = Len(D)
    BY DEF ClaimedTo, RequiredTo, ConfiguredTo, ClaimSteps
  <1>3. Paired(t, D, g.flow)
    <2>1. \A i \in Children(t, g.flow) : \E j \in 1..Len(D) : AsDeclared(t[i], D[j])
      BY <1>1, <1>2 DEF Claims, AsDeclared
    <2>2. \A j \in 1..Len(D) : \E i \in Children(t, g.flow) : Alike(t[i], D[j])
      BY <1>1, <1>2 DEF Claims
    <2>3. \A i, k \in Children(t, g.flow) : t[i].name = t[k].name => i = k
      BY <1>1 DEF Claims
    <2> QED
      BY <2>1, <2>2, <2>3 DEF Paired
  <1>4. Placed(t, D, g.flow, g.i - 1)
    BY DEF Placed
  <1>5. UpToDate(t, g)
    BY DEF UpToDate, LiveIds, Children
  <1> QED
    BY <1>3, <1>4, <1>5 DEF FrameInv, Ordering, ClaimSteps

\* An execution gets its place, or has it already.
LEMMA PlaceFrame ==
    ASSUME NEW t, NEW u, NEW D, Len(D) \in Nat, Distinct(D), NEW fr, FrameInv(t, D, fr, "reorder"),
           fr.i \in 1..Len(D), NEW c \in Children(t, fr.flow), Alike(t[c], D[fr.i]),
           DOMAIN u = DOMAIN t, \A i \in DOMAIN t : i # c => u[i] = t[i],
           Becomes(t[c], u[c], t[c].req, t[c].cfg, fr.i - 1),
           NEW g, g.flow = fr.flow, g.i = fr.i + 1, g.live = fr.live, g.used = fr.used \cup {c}
    PROVE  FrameInv(u, D, g, "reorder")
  <1>1. /\ fr.used \subseteq Children(t, fr.flow)
        /\ Paired(t, D, fr.flow)
        /\ Placed(t, D, fr.flow, fr.i - 1)
        /\ LiveIds(fr) = Children(t, fr.flow)
        /\ UpToDate(t, fr)
        /\ \A i \in fr.used : \E j \in 1..(fr.i - 1) : Alike(t[i], D[j])
    BY DEF FrameInv, Ordering
  <1>2. /\ u[c].flow = t[c].flow /\ u[c].sub = t[c].sub /\ u[c].name = t[c].name
        /\ u[c].req = t[c].req /\ u[c].cfg = t[c].cfg /\ u[c].prio = fr.i - 1
    BY DEF Becomes, SameExecution
  <1>3. c \in DOMAIN t
    BY DEF Children
  <1>4. \A i \in DOMAIN t : /\ u[i].flow = t[i].flow /\ u[i].sub = t[i].sub /\ u[i].name = t[i].name
                            /\ u[i].req = t[i].req /\ u[i].cfg = t[i].cfg
    BY <1>2, <1>3
  <1>5. Children(u, fr.flow) = Children(t, fr.flow) /\ Children(t, fr.flow) \subseteq DOMAIN t
    BY <1>4 DEF Children
  <1>6. \A i \in DOMAIN t : \A w : (Alike(u[i], w) <=> Alike(t[i], w)) /\ (AsDeclared(u[i], w) <=> AsDeclared(t[i], w))
    BY <1>4 DEF AsDeclared, Alike, Required, Configured
  <1>7. Paired(u, D, fr.flow)
    BY <1>1, <1>4, <1>5, <1>6 DEF Paired
  <1>8. fr.i \in Nat \ {0} /\ \A j \in 1..fr.i : j \in 1..Len(D) /\ (j = fr.i \/ j \in 1..(fr.i - 1))
    OBVIOUS
  <1>9. Placed(u, D, fr.flow, fr.i)
    <2> SUFFICES ASSUME NEW i \in Children(t, fr.flow), NEW j \in 1..fr.i, Alike(u[i], D[j])
                 PROVE  u[i].prio = j - 1
      BY <1>5 DEF Placed
    <2>1. t[i].name = D[j].name /\ t[c].name = D[fr.i].name /\ Alike(t[i], D[j]) /\ i \in DOMAIN t
      BY <1>5, <1>6 DEF Alike
    <2>2. i = c <=> j = fr.i
      <3>1. i = c => j = fr.i
        BY <2>1, <1>8 DEF Distinct
      <3>2. j = fr.i => i = c
        BY <2>1, <1>1 DEF Paired
      <3> QED
        BY <3>1, <3>2
    <2>3. CASE j = fr.i
      BY <2>2, <2>3, <1>2
    <2>4. CASE j # fr.i
      <3>1. u[i] = t[i] /\ j \in 1..(fr.i - 1)
        BY <2>1, <2>2, <2>4, <1>8
      <3> QED
        BY <3>1, <2>1, <1>1 DEF Placed
    <2> QED
      BY <2>3, <2>4
  <1>10. UpToDate(u, g)
    BY <1>1 DEF UpToDate
  <1>11. \A i \in g.used : \E j \in 1..fr.i : Alike(u[i], D[j])
    BY <1>1, <1>3, <1>5, <1>6, <1>8
  <1>12. g.i - 1 = fr.i /\ LiveIds(g) = LiveIds(fr)
    BY <1>8 DEF LiveIds
  <1>13. Ordering(u, D, g)
    BY <1>1, <1>5, <1>7, <1>9, <1>10, <1>11, <1>12 DEF Ordering
  <1>14. g.used \subseteq Children(u, g.flow)
    BY <1>1, <1>5
  <1> QED
    BY <1>13, <1>14 DEF FrameInv, ClaimSteps

\* For every entry there is an execution that the order has not dealt with.
LEMMA PlaceFound ==
    ASSUME NEW t, NEW D, Len(D) \in Nat, Distinct(D), NEW fr, FrameInv(t, D, fr, "reorder"),
           fr.i \in 1..Len(D)
    PROVE  \E k \in DOMAIN fr.live : fr.live[k].id \notin fr.used /\ Alike(fr.live[k].rep, D[fr.i])
  <1>1. /\ Paired(t, D, fr.flow)
        /\ LiveIds(fr) = Children(t, fr.flow)
        /\ UpToDate(t, fr)
        /\ \A i \in fr.used : \E j \in 1..(fr.i - 1) : Alike(t[i], D[j])
    BY DEF FrameInv, Ordering
  <1>2. PICK i \in Children(t, fr.flow) : Alike(t[i], D[fr.i])
    BY <1>1 DEF Paired
  <1>3. i \notin fr.used
    <2> SUFFICES ASSUME i \in fr.used PROVE FALSE
      OBVIOUS
    <2>1. PICK j \in 1..(fr.i - 1) : Alike(t[i], D[j])
      BY <1>1
    <2>2. j \in 1..Len(D) /\ j # fr.i /\ D[j].name = D[fr.i].name
      BY <2>1, <1>2 DEF Alike
    <2> QED
      BY <2>2 DEF Distinct
  <1>4. PICK k \in DOMAIN fr.live : fr.live[k].id = i
    BY <1>1, <1>2 DEF LiveIds
  <1>5. fr.live[k].rep = t[i]
    BY <1>1, <1>3, <1>4 DEF UpToDate
  <1> QED
    BY <1>2, <1>3, <1>4, <1>5

-----------------------------------------------------------------------------
(***************************************************************************)
(* A pass nobody interferes with.                                          *)
(***************************************************************************)

\* No flow is on the stack twice.
LEMMA StackDistinct ==
    ASSUME TypeInv
    PROVE  \A d, e \in 1..Len(stack) : stack[d].flow = stack[e].flow => d = e
  <1> SUFFICES ASSUME NEW d \in 1..Len(stack), NEW e \in 1..Len(stack), stack[d].flow = stack[e].flow
               PROVE  d = e
    OBVIOUS
  <1>1. mine \in Specs /\ stack[d].flow \in DOMAIN mine.flows /\ Len(stack) \in Nat
    BY DEF TypeInv, StateType, StackType
  <1>2. Level(mine)[stack[d].flow] \in Nat
    BY <1>1, SpecFacts
  <1>3. d < e => Level(mine)[stack[d].flow] < Level(mine)[stack[e].flow]
    BY DEF TypeInv, StackType
  <1>4. e < d => Level(mine)[stack[e].flow] < Level(mine)[stack[d].flow]
    BY DEF TypeInv, StackType
  <1> QED
    BY <1>1, <1>2, <1>3, <1>4

LEMMA TwinFree ==
    ASSUME NEW s \in Specs, NoTwins(s), NEW f \in DOMAIN s.flows
    PROVE  Distinct(s.flows[f])
  BY DEF NoTwins, Distinct

\* A step within the innermost flow, which remembers fr then.
Within(fr) ==
    /\ step \in WorkSteps /\ step' \in WorkSteps
    /\ TopBecomes(fr) /\ fr \in Frames /\ fr.flow = Top.flow
    /\ mine' = mine /\ finished' = finished

\* The subflows that the innermost flow holds, and has claimed, stay where they are.
AnchorsKept(fr) ==
    \A k \in DOMAIN tree :
        tree[k].flow = Top.flow /\ tree[k].sub /\ (step # "reorder" => k \in Top.used) =>
            /\ k \in DOMAIN tree' /\ SameExecution(tree[k], tree'[k])
            /\ step' # "reorder" => k \in fr.used

\* Among the entries it gets through with there is no new subflow.
NoSubflowHandled(fr) ==
    /\ HandledTo(Desired, Top, step) <= HandledTo(Desired, fr, step')
    /\ \A j \in 1..HandledTo(Desired, fr, step') :
          j <= HandledTo(Desired, Top, step) \/ ~Desired[j].sub

LEMMA WithinPass ==
    ASSUME TypeInv, PassInv, NEW fr, Within(fr), FrameInv(tree', Desired, fr, step'),
           \A f \in Seen \ {Top.flow} : SameAt(tree, tree', f), AnchorsKept(fr), NoSubflowHandled(fr)
    PROVE  PassInv'
  <1>a. AtWork
    BY TopFacts DEF Within
  <1>6. PICK n : n = Len(stack)
    OBVIOUS
  <1>1. n \in Nat \ {0} /\ n \in 1..n /\ Top = stack[n] /\ Len(stack') = n
    BY <1>a, <1>6 DEF AtWork, Top, Within, TopBecomes
  <1>2. /\ \A d \in 1..n : d # n => stack'[d] = stack[d]
        /\ stack'[n] = fr /\ fr.flow = Top.flow
        /\ mine' = mine /\ finished' = finished
    BY <1>1, <1>6 DEF Within, TopBecomes
  <1>3. \A d \in 1..n : stack'[d].flow = stack[d].flow
    BY <1>1, <1>2
  <1>4. \A d \in 1..n : d # n => stack[d].flow # Top.flow
    BY <1>1, <1>6, StackDistinct
  <1>5. /\ StepAt(n) = step /\ StepAt(n)' = step'
        /\ \A d \in 1..n : d # n => StepAt(d) = "descend" /\ StepAt(d)' = "descend"
    BY <1>1, <1>6 DEF StepAt
  <1>7. StackFlows' = StackFlows /\ Seen' = Seen /\ \A d \in 1..n : stack[d].flow \in Seen
    BY <1>1, <1>2, <1>3, <1>6 DEF StackFlows, Seen
  <1>8. ASSUME NEW d \in 1..n
        PROVE  FrameInv(tree', mine'.flows[stack'[d].flow], stack'[d], StepAt(d)')
    <2>1. CASE d = n
      BY <2>1, <1>1, <1>2, <1>5 DEF Desired
    <2>2. CASE d # n
      <3>1. /\ FrameType(tree, mine.flows[stack[d].flow], stack[d], "descend")
            /\ FrameInv(tree, mine.flows[stack[d].flow], stack[d], "descend")
        BY <2>2, <1>5, <1>6 DEF TypeInv, StackType, PassInv
      <3>2. SameAt(tree, tree', stack[d].flow)
        BY <2>2, <1>4, <1>7
      <3>3. FrameInv(tree', mine.flows[stack[d].flow], stack[d], "descend")
        BY <3>1, <3>2, FrameKept
      <3> QED
        BY <3>3, <2>2, <1>2, <1>5
    <2> QED
      BY <2>1, <2>2
  <1>9. FinishedInv
    BY DEF PassInv
  <1>10. Top.flow \notin finished /\ finished \subseteq Seen
    BY <1>9, <1>1, <1>6 DEF FinishedInv, StackFlows, Seen
  <1>11. \A f \in finished' : Mirrored(tree', mine'.flows[f], f)
    <2> SUFFICES ASSUME NEW f \in finished PROVE Mirrored(tree', mine.flows[f], f)
      BY <1>2
    <2>1. Mirrored(tree, mine.flows[f], f)
      BY <1>9 DEF FinishedInv
    <2>2. SameAt(tree, tree', f)
      BY <1>10
    <2> QED
      BY <2>1, <2>2, MirroredKept
  <1>12. \A f \in finished' : \A j \in 1..Len(mine'.flows[f]) :
            mine'.flows[f][j].sub => mine'.flows[f][j].name \in finished'
    BY <1>2, <1>9 DEF FinishedInv
  <1>13. HandledAt(n) = HandledTo(Desired, Top, step) /\ HandledAt(n)' = HandledTo(Desired, fr, step')
    BY <1>1, <1>2, <1>5 DEF HandledAt, Desired
  <1>14. \A d \in 1..n : d # n => HandledAt(d)' = HandledAt(d)
    BY <1>2, <1>5 DEF HandledAt
  <1>15. ASSUME NEW d \in 1..n, NEW j \in 1..HandledAt(d)', mine'.flows[stack'[d].flow][j].sub
         PROVE  mine'.flows[stack'[d].flow][j].name \in finished'
    <2>1. mine'.flows[stack'[d].flow] = mine.flows[stack[d].flow]
      BY <1>2, <1>3
    <2>2. j \in 1..HandledAt(d)
      <3>1. CASE d = n
        <4>1. j \in 1..HandledTo(Desired, fr, step') /\ Desired[j].sub
          BY <3>1, <2>1, <1>1, <1>13, <1>15 DEF Desired
        <4>2. HandledTo(Desired, Top, step) \in Int
          BY <1>a DEF HandledTo, AtWork
        <4> QED
          BY <4>1, <4>2, <3>1, <1>13 DEF NoSubflowHandled
      <3>2. CASE d # n
        BY <3>2, <1>14
      <3> QED
        BY <3>1, <3>2
    <2> QED
      BY <2>1, <2>2, <1>2, <1>6, <1>9, <1>15 DEF FinishedInv
  <1>16. finished' \cap StackFlows' = {}
    BY <1>2, <1>7, <1>9 DEF FinishedInv
  <1>17. ASSUME NEW m \in Seen' \ {Root}
         PROVE  Anchored(m)'
    <2>1. Anchored(m)
      BY <1>7, <1>9 DEF FinishedInv
    <2>2. PICK k \in DOMAIN tree :
             /\ tree[k].sub /\ tree[k].name = m /\ tree[k].flow \in Seen
             /\ \A d \in 1..Len(stack) :
                   stack[d].flow = tree[k].flow /\ StepAt(d) # "reorder" => k \in stack[d].used
      BY <2>1 DEF Anchored
    <2>3. CASE tree[k].flow = Top.flow
      <3>1. step # "reorder" => k \in Top.used
        BY <2>2, <2>3, <1>1, <1>5, <1>6
      <3>2. k \in DOMAIN tree' /\ SameExecution(tree[k], tree'[k]) /\ (step' # "reorder" => k \in fr.used)
        BY <2>2, <2>3, <3>1 DEF AnchorsKept
      <3>3. tree'[k].sub /\ tree'[k].name = m /\ tree'[k].flow = Top.flow /\ tree'[k].flow \in Seen'
        BY <2>2, <2>3, <3>2, <1>7 DEF SameExecution
      <3>4. \A d \in 1..Len(stack') :
               stack'[d].flow = tree'[k].flow /\ StepAt(d)' # "reorder" => k \in stack'[d].used
        BY <3>2, <3>3, <1>1, <1>2, <1>3, <1>4, <1>5
      <3> QED
        BY <3>2, <3>3, <3>4 DEF Anchored
    <2>4. CASE tree[k].flow # Top.flow
      <3>1. SameAt(tree, tree', tree[k].flow) /\ k \in Children(tree, tree[k].flow)
        BY <2>2, <2>4 DEF Children
      <3>2. k \in DOMAIN tree' /\ tree'[k] = tree[k]
        BY <3>1 DEF SameAt, Children
      <3>3. \A d \in 1..Len(stack') :
               stack'[d].flow = tree'[k].flow /\ StepAt(d)' # "reorder" => k \in stack'[d].used
        BY <2>2, <2>4, <3>2, <1>1, <1>2, <1>3, <1>5, <1>6
      <3> QED
        BY <3>2, <3>3, <2>2, <1>7 DEF Anchored
    <2> QED
      BY <2>3, <2>4
  <1>18. ASSUME NEW m \in finished' \ {Root}
         PROVE  Handled(m)'
    <2>1. Handled(m)
      BY <1>2, <1>9 DEF FinishedInv
    <2>2. PICK p \in Seen : p \in DOMAIN mine.flows /\ \E j \in 1..Len(mine.flows[p]) :
             /\ mine.flows[p][j].sub /\ mine.flows[p][j].name = m
             /\ \A d \in 1..Len(stack) : stack[d].flow = p => j <= HandledAt(d)
      BY <2>1 DEF Handled
    <2>3. PICK j \in 1..Len(mine.flows[p]) :
             /\ mine.flows[p][j].sub /\ mine.flows[p][j].name = m
             /\ \A d \in 1..Len(stack) : stack[d].flow = p => j <= HandledAt(d)
      BY <2>2
    <2>4. ASSUME NEW d \in 1..Len(stack'), stack'[d].flow = p
          PROVE  j <= HandledAt(d)'
      <3>1. d \in 1..n /\ stack[d].flow = p /\ j <= HandledAt(d)
        BY <2>3, <2>4, <1>1, <1>3, <1>6
      <3>2. CASE d = n
        <4>1. HandledTo(Desired, Top, step) \in Int
          BY <1>a DEF HandledTo, AtWork
        <4>2. fr.i \in Nat /\ Len(Desired) \in Nat
          BY <1>a DEF AtWork, Within, Frames
        <4>3. HandledTo(Desired, fr, step') \in Int
          BY <4>2 DEF HandledTo
        <4>4. HandledTo(Desired, Top, step) <= HandledTo(Desired, fr, step')
          BY DEF NoSubflowHandled
        <4> QED
          BY <3>1, <3>2, <4>1, <4>3, <4>4, <1>13
      <3>3. CASE d # n
        BY <3>1, <3>3, <1>14
      <3> QED
        BY <3>2, <3>3
    <2> QED
      BY <2>2, <2>3, <2>4, <1>2, <1>7 DEF Handled
  <1>19. step' \notin {"bind", "updateRealm"}
    BY DEF Within, WorkSteps, RestSteps
  <1>20. FinishedInv'
    BY <1>1, <1>11, <1>12, <1>15, <1>16, <1>17, <1>18, <1>19 DEF FinishedInv
  <1> QED
    BY <1>1, <1>8, <1>20 DEF PassInv

-----------------------------------------------------------------------------
(***************************************************************************)
(* The steps of a pass: what becomes of the innermost flow.                *)
(***************************************************************************)

\* The list shows the executions S of the innermost flow as they are.
Lists(live, S) ==
    /\ live \in Listing
    /\ S = {live[k].id : k \in DOMAIN live}
    /\ \A k \in DOMAIN live : /\ live[k].id \in DOMAIN tree
                              /\ live[k].rep = tree[live[k].id] /\ live[k].rep.flow = Top.flow

\* The entry in hand is claimed by the k-th of the list.
Claimed(fr, live, k) ==
    /\ Within(fr)
    /\ FrameIs(fr, Top.flow, Top.i, live, Top.used \cup {live[k].id}, k)
    /\ k # 0 /\ Answers(live, Want, Top.used, k)
    /\ step' \in ClaimSteps /\ tree' = tree
    /\ step' = "requirement" <=> Want.req \notin {"", live[k].rep.req}
    /\ step' \in {"descend", "next"} => Want.cfg = NoConfig

\* On to the next entry.
ToNextWant(fr) ==
    /\ Within(fr)
    /\ FrameIs(fr, Top.flow, Top.i + 1, Top.live, Top.used, 0)
    /\ step' = "want"

LEMMA WorkStepNames ==
    WorkSteps = {"list", "want", "create", "relist", "requirement", "descend", "config",
                 "writeConfig", "next", "prune", "delete", "order", "reorder"}
  BY DEF WorkSteps, RestSteps, FlowSteps

LEMMA ReplaceWithin ==
    ASSUME TypeInv, step \in WorkSteps, step' \in WorkSteps, NEW fr, Replace(fr),
           NEW i, NEW live, NEW used, NEW cur, FrameIs(fr, Top.flow, i, live, used, cur),
           mine' = mine, finished' = finished
    PROVE  Within(fr)
  <1>1. AtWork
    BY TopFacts
  <1>2. fr \in Frames /\ fr.flow = Top.flow
    BY DEF FrameIs
  <1>3. TopBecomes(fr)
    BY <1>1, <1>2, ReplaceTop DEF AtWork
  <1> QED
    BY <1>2, <1>3 DEF Within

LEMMA KeepWithin ==
    ASSUME TypeInv, step \in WorkSteps, step' \in WorkSteps, stack' = stack, mine' = mine,
           finished' = finished
    PROVE  Within(Top)
  <1>1. AtWork
    BY TopFacts
  <1>2. TopBecomes(Top)
    BY <1>1, KeepTop DEF AtWork
  <1> QED
    BY <1>1, <1>2 DEF Within, AtWork

LEMMA ListsAll ==
    ASSUME TypeInv, NEW S \in SUBSET Children(tree, Top.flow), NEW live \in Listings(S)
    PROVE  Lists(live, S)
  <1>1. /\ S \subseteq DOMAIN tree /\ S \subseteq Ids
        /\ \A i \in S : tree[i] \in Executions /\ tree[i].flow = Top.flow
    BY DEF TypeInv, TreeInv, TreeType, Children
  <1>2. /\ live \in Listing
        /\ \A k \in DOMAIN live : live[k].id \in S /\ live[k].rep = tree[live[k].id]
        /\ S = {live[k].id : k \in DOMAIN live}
    BY <1>1, ListingOf
  <1> QED
    BY <1>1, <1>2 DEF Lists

LEMMA ClaimShape ==
    ASSUME TypeInv, step \in {"want", "relist"}, Top.i <= Len(Desired), NEW live \in Listing,
           NEW k, k = matchingExecution(live, Want, Top.used), k # 0, Claim(live, k),
           UNCHANGED <<tree, finished, mine>>
    PROVE  \E fr : Claimed(fr, live, k)
  <1>a. step \in WorkSteps
    BY WorkStepNames
  <1>b. AtWork
    BY <1>a, TopFacts
  <1>1. Answers(live, Want, Top.used, k)
    BY Matching, Zenon
  <1>2. k \in Nat /\ k \in DOMAIN live
    BY <1>1 DEF Answers
  <1>3. live[k].id \in Ids
    BY <1>2, ListingElement
  <1>4. Top.used \cup {live[k].id} \in SUBSET Ids /\ Top.i \in Nat /\ Top \in Frames
    BY <1>3, <1>b DEF AtWork
  <1>5. Top.i \in 1..Len(Desired)
    BY <1>b DEF AtWork
  <1>6. Want \in Entries /\ IsWant(Want)
    BY <1>5, <1>b DEF AtWork, Want
  <1> DEFINE fr == [Top EXCEPT !.live = live, !.used = @ \cup {live[k].id}, !.cur = k]
  <1>7. FrameIs(fr, Top.flow, Top.i, live, Top.used \cup {live[k].id}, k)
    BY <1>2, <1>4, FrameUpdates, Zenon
  <1>8. Replace(fr)
    BY DEF Claim
  <1> HIDE DEF fr
  <1>9. /\ step' \in ClaimSteps
        /\ step' = "requirement" <=> Want.req \notin {"", live[k].rep.req}
        /\ step' \in {"descend", "next"} => Want.cfg = NoConfig
    BY <1>6 DEF Claim, Follow, ClaimSteps, IsWant
  <1>10. step' \in WorkSteps
    BY <1>9, WorkStepNames DEF ClaimSteps
  <1>11. Within(fr)
    BY <1>a, <1>7, <1>8, <1>10, ReplaceWithin
  <1>12. Claimed(fr, live, k)
    BY <1>1, <1>7, <1>9, <1>11, Zenon DEF Claimed
  <1> QED
    BY <1>12

LEMMA NextWantShape ==
    ASSUME TypeInv, step \in ClaimSteps, NextWant, UNCHANGED <<finished, mine>>
    PROVE  \E fr : ToNextWant(fr)
  <1>a. step \in WorkSteps
    BY WorkStepNames DEF ClaimSteps
  <1>b. AtWork
    BY <1>a, TopFacts
  <1>1. Top.i + 1 \in Nat /\ 0 \in Nat /\ Top.live \in Listing /\ Top.used \in SUBSET Ids /\ Top \in Frames
    BY <1>b DEF AtWork
  <1> DEFINE fr == [Top EXCEPT !.i = @ + 1, !.cur = 0]
  <1>2. FrameIs(fr, Top.flow, Top.i + 1, Top.live, Top.used, 0)
    BY <1>1, FrameUpdates, Zenon
  <1>3. Replace(fr) /\ step' = "want"
    BY DEF NextWant
  <1> HIDE DEF fr
  <1>4. step' \in WorkSteps
    BY <1>3, WorkStepNames
  <1>5. Within(fr)
    BY <1>a, <1>2, <1>3, <1>4, ReplaceWithin
  <1> QED
    BY <1>2, <1>3, <1>5 DEF ToNextWant

LEMMA ListShape ==
    ASSUME TypeInv, List
    PROVE  \/ Fail
           \/ \E live, fr : /\ Lists(live, Children(tree, Top.flow))
                            /\ Within(fr) /\ FrameIs(fr, Top.flow, 1, live, {}, Top.cur)
                            /\ step' = "want" /\ tree' = tree
  <1>a. step = "list" /\ step \in WorkSteps
    BY WorkStepNames DEF List
  <1>b. AtWork
    BY <1>a, TopFacts
  <1>1. ASSUME NEW live \in Listings(Children(tree, Top.flow)), Replace([Top EXCEPT !.live = live]),
               step' = "want", UNCHANGED <<tree, rootThere, realm, copy, finished>>
        PROVE  \E fr : /\ Lists(live, Children(tree, Top.flow))
                       /\ Within(fr) /\ FrameIs(fr, Top.flow, 1, live, {}, Top.cur)
    <2>1. Lists(live, Children(tree, Top.flow)) /\ live \in Listing
      BY ListsAll DEF Lists
    <2> DEFINE fr == [Top EXCEPT !.live = live]
    <2>2. FrameIs(fr, Top.flow, Top.i, live, Top.used, Top.cur)
      BY <2>1, <1>b DEF AtWork, FrameIs, Frames, Listing
    <2>3. Replace(fr)
      BY <1>1
    <2> HIDE DEF fr
    <2>4. Top.i = 1 /\ Top.used = {}
      BY <1>a, <1>b DEF AtWork, FrameType
    <2>5. step' \in WorkSteps /\ mine' = mine
      BY <1>1, WorkStepNames DEF List
    <2>6. Within(fr)
      BY <1>1, <1>a, <2>2, <2>3, <2>5, ReplaceWithin
    <2> QED
      BY <2>1, <2>2, <2>4, <2>6
  <1> QED
    BY <1>1 DEF List

LEMMA MatchShape ==
    ASSUME TypeInv, Match
    PROVE  /\ step = "want" /\ tree' = tree /\ Top.i \in 1..(Len(Desired) + 1)
           /\ \/ Within(Top) /\ step' = "prune" /\ Top.i = Len(Desired) + 1
              \/ /\ Within(Top) /\ step' = "create" /\ Top.i \in 1..Len(Desired)
                 /\ Answers(Top.live, Want, Top.used, 0)
              \/ Top.i \in 1..Len(Desired) /\ \E k, fr : Claimed(fr, Top.live, k)
  <1>a. step = "want" /\ step \in WorkSteps /\ tree' = tree
    BY WorkStepNames DEF Match
  <1>b. AtWork
    BY <1>a, TopFacts
  <1> DEFINE k == matchingExecution(Top.live, Want, Top.used)
  <1>1. Top.live \in Listing /\ Top.i \in 1..(Len(Desired) + 1) /\ Len(Desired) \in Nat
    BY <1>b DEF AtWork
  <1>2. mine' = mine /\ finished' = finished
    BY DEF Match
  <1>3. CASE Top.i > Len(Desired)
    <2>1. step' = "prune" /\ stack' = stack /\ Top.i = Len(Desired) + 1
      BY <1>1, <1>3 DEF Match
    <2>2. Within(Top)
      BY <2>1, <1>2, <1>a, WorkStepNames, KeepWithin
    <2> QED
      BY <2>1, <2>2, <1>1, <1>a
  <1>4. CASE Top.i <= Len(Desired) /\ k = 0
    <2>1. step' = "create" /\ stack' = stack /\ Top.i \in 1..Len(Desired)
      BY <1>1, <1>4 DEF Match
    <2>2. Within(Top)
      BY <2>1, <1>2, <1>a, WorkStepNames, KeepWithin
    <2>3. Answers(Top.live, Want, Top.used, 0)
      BY <1>1, <1>4, Matching, Zenon
    <2> QED
      BY <2>1, <2>2, <2>3, <1>1, <1>a
  <1>5. CASE Top.i <= Len(Desired) /\ k # 0
    <2>1. Claim(Top.live, k) /\ Top.i \in 1..Len(Desired)
      BY <1>1, <1>5 DEF Match
    <2>2. k = matchingExecution(Top.live, Want, Top.used)
      OBVIOUS
    <2> HIDE DEF k
    <2>3. \E fr : Claimed(fr, Top.live, k)
      BY <2>1, <2>2, <1>1, <1>2, <1>5, <1>a, ClaimShape
    <2> QED
      BY <2>1, <2>3, <1>1, <1>a
  <1> QED
    BY <1>1, <1>3, <1>4, <1>5

LEMMA CreateShape ==
    ASSUME TypeInv, Create
    PROVE  \/ Fail
           \/ /\ Within(Top) /\ step' = "relist" /\ step = "create"
              /\ Fresh \notin DOMAIN tree
              /\ DOMAIN tree' = DOMAIN tree \cup {Fresh}
              /\ tree'[Fresh] = NewExecution(Top.flow, Want)
              /\ \A k \in DOMAIN tree : tree'[k] = tree[k]
  <1>a. step = "create" /\ step \in WorkSteps /\ step \in EntrySteps
    BY WorkStepNames DEF Create, EntrySteps
  <1>1. CASE /\ Top.flow \in Flows /\ ~(Want.sub /\ Want.name \in Flows)
             /\ Unseen # {}
             /\ tree' = With(tree, Fresh, NewExecution(Top.flow, Want))
             /\ step' = "relist"
             /\ UNCHANGED <<rootThere, realm, stack, copy, finished>>
    <2>1. /\ Want.sub \in BOOLEAN /\ Want.name \in STRING
          /\ Want.sub => Want.name \in Subflows /\ Want.name \notin Flows
      BY <1>a, <1>1, WantFacts
    <2>2. /\ Fresh \notin DOMAIN tree
          /\ DOMAIN tree' = DOMAIN tree \cup {Fresh}
          /\ tree'[Fresh] = NewExecution(Top.flow, Want)
          /\ \A k \in DOMAIN tree : tree'[k] = tree[k]
      BY <2>1, <1>1, TreeGrown
    <2>3. Within(Top)
      BY <1>1, <1>a, WorkStepNames, KeepWithin DEF Create
    <2> QED
      BY <2>2, <2>3, <1>1, <1>a
  <1> QED
    BY <1>1 DEF Create

LEMMA RelistShape ==
    ASSUME TypeInv, Relist
    PROVE  /\ step = "relist" /\ Top.i \in 1..Len(Desired)
           /\ \/ Fail
              \/ \E live, k, fr : Lists(live, Children(tree, Top.flow)) /\ Claimed(fr, live, k)
  <1>a. step = "relist" /\ step \in WorkSteps /\ step \in EntrySteps
    BY WorkStepNames DEF Relist, EntrySteps
  <1>b. AtWork
    BY <1>a, TopFacts
  <1>1. Top.i \in 1..Len(Desired)
    BY <1>a, <1>b DEF AtWork
  <1>2. ASSUME NEW live \in Listings(Children(tree, Top.flow)),
               matchingExecution(live, Want, Top.used) # 0,
               Claim(live, matchingExecution(live, Want, Top.used)),
               UNCHANGED <<tree, rootThere, realm, copy, finished>>
        PROVE  \E k, fr : Lists(live, Children(tree, Top.flow)) /\ Claimed(fr, live, k)
    <2>1. Lists(live, Children(tree, Top.flow)) /\ live \in Listing
      BY ListsAll DEF Lists
    <2>2. Top.i <= Len(Desired) /\ mine' = mine
      BY <1>1, <1>b DEF AtWork, Relist
    <2> DEFINE k == matchingExecution(live, Want, Top.used)
    <2>3. k = matchingExecution(live, Want, Top.used) /\ k # 0 /\ Claim(live, k)
      BY <1>2
    <2> HIDE DEF k
    <2>4. \E fr : Claimed(fr, live, k)
      BY <2>1, <2>2, <2>3, <1>2, <1>a, ClaimShape
    <2> QED
      BY <2>1, <2>4
  <1> QED
    BY <1>1, <1>2, <1>a DEF Relist

LEMMA RequirementShape ==
    ASSUME TypeInv, UpdateExecutionRequirement
    PROVE  \/ Fail
           \/ /\ step = "requirement" /\ Within(Top) /\ Current \in DOMAIN tree
              /\ \E p : Changed(tree, tree', Current, Want.req, tree[Current].cfg, p)
              /\ step' \in {"descend", "config", "next"}
              /\ step' \in {"descend", "next"} => Want.cfg = NoConfig
  <1>a. step = "requirement" /\ step \in WorkSteps /\ step \in EntrySteps /\ step \in ClaimSteps
    BY WorkStepNames DEF UpdateExecutionRequirement, EntrySteps, ClaimSteps
  <1>b. AtWork
    BY <1>a, TopFacts
  <1>1. ASSUME Current \in DOMAIN tree, NEW p \in {0, tree[Current].prio},
               tree' = [tree EXCEPT ![Current].req = Want.req, ![Current].prio = p],
               step' = Follow(Want), stack' = stack,
               UNCHANGED <<rootThere, realm, copy, finished>>
        PROVE  /\ Within(Top) /\ Current \in DOMAIN tree
               /\ Changed(tree, tree', Current, Want.req, tree[Current].cfg, p)
               /\ step' \in {"descend", "config", "next"}
               /\ step' \in {"descend", "next"} => Want.cfg = NoConfig
    <2>1. Want.req \in Requirements
      BY <1>a, <1>b, WantFacts DEF AtWork, FrameType, Want
    <2>2. tree[Current] \in Executions
      BY <1>a, <1>1, CurrentFacts
    <2>3. p \in Nat
      BY <1>1, <2>2 DEF Executions
    <2>4. Changed(tree, tree', Current, Want.req, tree[Current].cfg, p)
      BY <2>1, <2>2, <2>3, <1>1, ChangeBoth, Zenon
    <2>5. step' \in {"descend", "config", "next"} /\ (step' \in {"descend", "next"} => Want.cfg = NoConfig)
      BY <1>1, <1>a, WantFacts, FollowSteps DEF IsWant
    <2>6. Within(Top)
      BY <2>5, <1>1, <1>a, WorkStepNames, KeepWithin DEF UpdateExecutionRequirement, OnCurrent
    <2> QED
      BY <2>4, <2>5, <2>6, <1>1
  <1> QED
    BY <1>1, <1>a DEF UpdateExecutionRequirement, OnCurrent

LEMMA ReconcileConfigShape ==
    ASSUME TypeInv, reconcileAuthenticatorConfig
    PROVE  /\ step = "config" /\ tree' = tree
           /\ \/ Finish
              \/ Within(Top) /\ step' = "writeConfig"
              \/ /\ \E fr : ToNextWant(fr)
                 /\ Current \in DOMAIN tree /\ tree[Current].cfg = Rendered(Want.cfg)
  <1>a. step = "config" /\ step \in WorkSteps /\ step \in ClaimSteps /\ mine' = mine /\ tree' = tree
    BY WorkStepNames DEF reconcileAuthenticatorConfig, ClaimSteps
  <1>1. CASE NextWant /\ UNCHANGED <<copy, finished>> /\ ConfigFound
             /\ tree[Current].cfg = Rendered(Want.cfg)
    <2>1. \E fr : ToNextWant(fr)
      BY <1>1, <1>a, NextWantShape
    <2> QED
      BY <2>1, <1>1, <1>a DEF ConfigFound
  <1>2. CASE step' = "writeConfig" /\ UNCHANGED <<stack, copy, finished>>
    <2>1. Within(Top)
      BY <1>2, <1>a, WorkStepNames, KeepWithin
    <2> QED
      BY <2>1, <1>2, <1>a
  <1> QED
    BY <1>1, <1>2, <1>a DEF reconcileAuthenticatorConfig

LEMMA WriteConfigShape ==
    ASSUME TypeInv, WriteAuthenticatorConfig
    PROVE  \/ Fail
           \/ /\ step = "writeConfig" /\ \E fr : ToNextWant(fr)
              /\ Current \in DOMAIN tree /\ Want.cfg \in Configs
              /\ Changed(tree, tree', Current, tree[Current].req, Stored(Want.cfg), tree[Current].prio)
  <1>a. step = "writeConfig" /\ step \in ClaimSteps /\ step \in EntrySteps
    BY DEF WriteAuthenticatorConfig, ClaimSteps, EntrySteps
  <1>1. CASE /\ ConfigFound
             /\ tree' = [tree EXCEPT ![Current].cfg = Stored(Rendered(Want.cfg))]
             /\ NextWant
             /\ UNCHANGED <<rootThere, realm, copy, finished>>
    <2>1. Current \in DOMAIN tree
      BY <1>1 DEF ConfigFound
    <2>2. Want.cfg \in Configs /\ Stored(Rendered(Want.cfg)) = Stored(Want.cfg) /\ Stored(Want.cfg) \in Configs
      BY <1>a, WantFacts, StoredRendered
    <2>3. tree[Current] \in Executions
      BY <2>1, <1>a, CurrentFacts
    <2>4. tree' = [tree EXCEPT ![Current].cfg = Stored(Want.cfg)]
      BY <2>2, <1>1
    <2>5. Changed(tree, tree', Current, tree[Current].req, Stored(Want.cfg), tree[Current].prio)
      BY <2>1, <2>2, <2>3, <2>4, ChangeConfig, Zenon
    <2>6. \E fr : ToNextWant(fr)
      BY <1>1, <1>a, NextWantShape DEF WriteAuthenticatorConfig
    <2> QED
      BY <2>1, <2>2, <2>5, <2>6, <1>a
  <1> QED
    BY <1>1 DEF WriteAuthenticatorConfig

LEMMA ProceedShape ==
    ASSUME TypeInv, Proceed
    PROVE  step = "next" /\ tree' = tree /\ \E fr : ToNextWant(fr)
  <1>1. step = "next" /\ step \in ClaimSteps /\ tree' = tree /\ NextWant /\ UNCHANGED <<finished, mine>>
    BY DEF Proceed, ClaimSteps
  <1> QED
    BY <1>1, NextWantShape

LEMMA PruneShape ==
    ASSUME TypeInv, Prune
    PROVE  \/ Fail
           \/ \E extra, fr :
                /\ step = "prune" /\ tree' = tree
                /\ Lists(extra, Children(tree, Top.flow) \ Top.used)
                /\ Within(fr) /\ FrameIs(fr, Top.flow, Top.i, extra, Top.used, Top.cur)
                /\ step' \in {"delete", "order"} /\ (step' = "order" <=> extra = << >>)
  <1>a. step = "prune" /\ step \in WorkSteps
    BY WorkStepNames DEF Prune
  <1>b. AtWork
    BY <1>a, TopFacts
  <1>1. ASSUME NEW extra \in Listings(Children(tree, Top.flow) \ Top.used),
               Replace([Top EXCEPT !.live = extra]),
               step' = IF extra = << >> THEN "order" ELSE "delete",
               UNCHANGED <<tree, rootThere, realm, copy, finished>>
        PROVE  \E fr : /\ Lists(extra, Children(tree, Top.flow) \ Top.used)
                       /\ Within(fr) /\ FrameIs(fr, Top.flow, Top.i, extra, Top.used, Top.cur)
    <2>1. Lists(extra, Children(tree, Top.flow) \ Top.used) /\ extra \in Listing
      BY ListsAll DEF Lists
    <2> DEFINE fr == [Top EXCEPT !.live = extra]
    <2>2. FrameIs(fr, Top.flow, Top.i, extra, Top.used, Top.cur)
      BY <2>1, <1>b DEF AtWork, FrameIs, Frames, Listing
    <2>3. Replace(fr)
      BY <1>1
    <2> HIDE DEF fr
    <2>4. step' \in WorkSteps /\ mine' = mine /\ finished' = finished
      BY <1>1, WorkStepNames DEF Prune
    <2>5. Within(fr)
      BY <1>a, <2>2, <2>3, <2>4, ReplaceWithin
    <2> QED
      BY <2>1, <2>2, <2>5
  <1> QED
    BY <1>1, <1>a DEF Prune

LEMMA DeleteShape ==
    ASSUME TypeInv, DeleteExecution
    PROVE  \/ Fail
           \/ /\ step = "delete" /\ Top.live # << >>
              /\ Top.live[1].id \in DOMAIN tree
              /\ tree' = Without(tree, Below(tree, Top.live[1].id)) /\ rootThere' = rootThere
              /\ \E fr : Within(fr) /\ FrameIs(fr, Top.flow, Top.i, Tail(Top.live), Top.used, Top.cur)
              /\ step' \in {"delete", "order"} /\ (step' = "order" <=> Tail(Top.live) = << >>)
  <1>a. step = "delete" /\ step \in WorkSteps
    BY WorkStepNames DEF DeleteExecution
  <1>b. AtWork
    BY <1>a, TopFacts
  <1>2. Top.live # << >>
    BY <1>a, <1>b DEF AtWork, FrameType
  <1>3. /\ Tail(Top.live) \in Listing
        /\ Tail(Top.live) = << >> <=> Len(Top.live) = 1
        /\ Head(Top.live) = Top.live[1]
    BY <1>2, <1>b, TailOf DEF AtWork
  <1>4. CASE /\ Head(Top.live).id \in DOMAIN tree
             /\ tree' = Without(tree, Below(tree, Head(Top.live).id))
             /\ Replace([Top EXCEPT !.live = Tail(@)])
             /\ step' = IF Len(Top.live) = 1 THEN "order" ELSE "delete"
             /\ UNCHANGED <<rootThere, realm, copy, finished>>
    <2> DEFINE rest == Tail(Top.live)
               fr == [Top EXCEPT !.live = rest]
    <2>1. Replace(fr)
      BY <1>4
    <2> HIDE DEF rest
    <2>2. FrameIs(fr, Top.flow, Top.i, rest, Top.used, Top.cur)
      BY <1>3, <1>b DEF AtWork, FrameIs, Frames, Listing, rest
    <2> HIDE DEF fr
    <2>3. step' \in WorkSteps /\ mine' = mine /\ finished' = finished
      BY <1>4, WorkStepNames DEF DeleteExecution
    <2>4. Within(fr)
      BY <1>a, <2>1, <2>2, <2>3, ReplaceWithin
    <2>5. \E g : Within(g) /\ FrameIs(g, Top.flow, Top.i, Tail(Top.live), Top.used, Top.cur)
      BY <2>2, <2>4 DEF rest
    <2>6. step' \in {"delete", "order"} /\ (step' = "order" <=> Tail(Top.live) = << >>)
      BY <1>3, <1>4
    <2>7. /\ Top.live[1].id \in DOMAIN tree /\ rootThere' = rootThere
          /\ tree' = Without(tree, Below(tree, Top.live[1].id))
      BY <1>3, <1>4
    <2> QED
      BY <2>5, <2>6, <2>7, <1>2, <1>a
  <1> QED
    BY <1>4 DEF DeleteExecution

LEMMA OrderShape ==
    ASSUME TypeInv, Order
    PROVE  \/ Fail
           \/ \E live, fr :
                /\ step = "order" /\ tree' = tree /\ step' = "reorder"
                /\ Lists(live, Children(tree, Top.flow))
                /\ Within(fr) /\ FrameIs(fr, Top.flow, 1, live, {}, 0)
  <1>a. step = "order" /\ step \in WorkSteps
    BY WorkStepNames DEF Order
  <1>b. AtWork
    BY <1>a, TopFacts
  <1>1. ASSUME NEW live \in Listings(Children(tree, Top.flow)),
               Replace([Top EXCEPT !.live = live, !.used = {}, !.i = 1, !.cur = 0]),
               step' = "reorder",
               UNCHANGED <<tree, rootThere, realm, copy, finished>>
        PROVE  \E fr : /\ Lists(live, Children(tree, Top.flow))
                       /\ Within(fr) /\ FrameIs(fr, Top.flow, 1, live, {}, 0)
    <2>1. Lists(live, Children(tree, Top.flow)) /\ live \in Listing
      BY ListsAll DEF Lists
    <2> DEFINE fr == [Top EXCEPT !.live = live, !.used = {}, !.i = 1, !.cur = 0]
    <2>2. FrameIs(fr, Top.flow, 1, live, {}, 0)
      BY <2>1, <1>b DEF AtWork, FrameIs, Frames, Listing
    <2>3. Replace(fr)
      BY <1>1
    <2> HIDE DEF fr
    <2>4. step' \in WorkSteps /\ mine' = mine /\ finished' = finished
      BY <1>1, WorkStepNames DEF Order
    <2>5. Within(fr)
      BY <1>a, <2>2, <2>3, <2>4, ReplaceWithin
    <2> QED
      BY <2>1, <2>2, <2>5
  <1> QED
    BY <1>1, <1>a DEF Order

LEMMA NextPlaceShape ==
    ASSUME TypeInv, step = "reorder", Top.i <= Len(Desired), NEW used \in SUBSET Ids,
           NextPlace(used), mine' = mine
    PROVE  \E fr : /\ Within(fr) /\ FrameIs(fr, Top.flow, Top.i + 1, Top.live, used, Top.cur)
                   /\ step' = "reorder"
  <1>a. step \in WorkSteps
    BY WorkStepNames
  <1>b. AtWork
    BY <1>a, TopFacts
  <1> DEFINE fr == [Top EXCEPT !.i = @ + 1, !.used = used]
  <1>1. FrameIs(fr, Top.flow, Top.i + 1, Top.live, used, Top.cur)
    <2>1. Top.i + 1 \in Nat /\ Top \in Frames
      BY <1>b DEF AtWork
    <2> QED
      BY <2>1 DEF FrameIs, Frames, Listing
  <1>2. Replace(fr) /\ step' = "reorder" /\ finished' = finished
    BY DEF NextPlace
  <1> HIDE DEF fr
  <1>3. Within(fr)
    BY <1>1, <1>2, <1>a, ReplaceWithin
  <1> QED
    BY <1>1, <1>2, <1>3

-----------------------------------------------------------------------------
(***************************************************************************)
(* The invariants, action by action.                                       *)
(***************************************************************************)

SameName(e, w) == e.name = w.name

\* Who goes by an entry's alias bears its name.
LEMMA AliasName ==
    ASSUME AliasesTell, NEW s \in Specs, NEW f \in DOMAIN s.flows, NEW j \in 1..Len(s.flows[f]),
           NEW e, GoodAlias(e), Bears(e, s.flows[f][j])
    PROVE  SameName(e, s.flows[f][j])
  <1> DEFINE w == s.flows[f][j]
  <1> SUFFICES e.name = w.name
    BY DEF SameName
  <1>1. CASE w.alias # "" /\ e.cfg.alias = w.alias
    <2>1. Declares(w.alias, e.name)
      BY <1>1 DEF GoodAlias
    <2>2. PICK t \in Specs : \E g \in DOMAIN t.flows : \E k \in 1..Len(t.flows[g]) :
             t.flows[g][k].cfg.alias = w.alias /\ t.flows[g][k].name = e.name
      BY <2>1 DEF Declares
    <2>3. PICK g \in DOMAIN t.flows : \E k \in 1..Len(t.flows[g]) :
             t.flows[g][k].cfg.alias = w.alias /\ t.flows[g][k].name = e.name
      BY <2>2
    <2>4. PICK k \in 1..Len(t.flows[g]) :
             t.flows[g][k].cfg.alias = w.alias /\ t.flows[g][k].name = e.name
      BY <2>3
    <2>5. w.alias # "" /\ t.flows[g][k].cfg.alias = w.alias => w.name = t.flows[g][k].name
      BY DEF AliasesTell
    <2> QED
      BY <1>1, <2>4, <2>5
  <1> QED
    BY <1>1 DEF Bears

\* What answers the entry in hand is of its kind and name.
LEMMA AnswerAlike ==
    ASSUME AliasesTell, AtWork, Top.i \in 1..Len(Desired), NEW live,
           \A k \in DOMAIN live : GoodAlias(live[k].rep),
           NEW k, k # 0, Answers(live, Want, Top.used, k)
    PROVE  k \in DOMAIN live /\ live[k].id \notin Top.used /\ Alike(live[k].rep, Want)
  <1>1. /\ k \in DOMAIN live /\ live[k].id \notin Top.used /\ live[k].rep.sub = Want.sub
        /\ Bears(live[k].rep, Want)
    BY DEF Answers
  <1>2. mine \in Specs /\ Top.flow \in DOMAIN mine.flows /\ Top.i \in 1..Len(mine.flows[Top.flow])
        /\ Want = mine.flows[Top.flow][Top.i]
    BY DEF AtWork, Desired, Want
  <1>3. GoodAlias(live[k].rep)
    BY <1>1
  <1>5. Bears(live[k].rep, mine.flows[Top.flow][Top.i])
    BY <1>1, <1>2
  <1>6. SameName(live[k].rep, mine.flows[Top.flow][Top.i])
    BY <1>2, <1>3, <1>5, AliasName, Zenon
  <1>4. live[k].rep.name = Want.name
    BY <1>2, <1>6 DEF SameName
  <1> QED
    BY <1>1, <1>4 DEF Alike

LEMMA AliasTop ==
    ASSUME TypeInv, AliasInv, NEW fr, Within(fr), \A i \in DOMAIN tree' : GoodAlias(tree'[i]),
           \A k \in DOMAIN fr.live : GoodAlias(fr.live[k].rep),
           step' \in ClaimSteps => fr.live[fr.cur].rep.name = Desired[fr.i].name
    PROVE  AliasInv'
  <1>a. AtWork
    BY TopFacts DEF Within
  <1>6. PICK n : n = Len(stack)
    OBVIOUS
  <1>1. n \in Nat \ {0} /\ n \in 1..n /\ Top = stack[n] /\ Len(stack') = n
    BY <1>a, <1>6 DEF AtWork, Top, Within, TopBecomes
  <1>2. /\ \A d \in 1..n : d # n => stack'[d] = stack[d]
        /\ stack'[n] = fr /\ fr.flow = Top.flow /\ mine' = mine
    BY <1>1, <1>6 DEF Within, TopBecomes
  <1>3. StepAt(n)' = step' /\ \A d \in 1..n : d # n => StepAt(d) = "descend" /\ StepAt(d)' = "descend"
    BY <1>1, <1>6 DEF StepAt
  <1>4. ASSUME NEW d \in 1..n
        PROVE  /\ \A k \in DOMAIN stack'[d].live : GoodAlias(stack'[d].live[k].rep)
               /\ StepAt(d)' \in ClaimSteps =>
                     stack'[d].live[stack'[d].cur].rep.name
                       = mine'.flows[stack'[d].flow][stack'[d].i].name
    <2>1. CASE d = n
      BY <2>1, <1>2, <1>3 DEF Desired
    <2>2. CASE d # n
      BY <2>2, <1>2, <1>3, <1>6 DEF AliasInv
    <2> QED
      BY <2>1, <2>2
  <1> QED
    BY <1>1, <1>4 DEF AliasInv

\* What the innermost flow remembers, and what it says about the entry in hand.
LEMMA AliasOfTop ==
    ASSUME AtWork, AliasInv
    PROVE  /\ \A i \in DOMAIN tree : GoodAlias(tree[i])
           /\ \A k \in DOMAIN Top.live : GoodAlias(Top.live[k].rep)
           /\ step \in ClaimSteps => Top.live[Top.cur].rep.name = Want.name
  <1>1. Len(stack) \in 1..Len(stack) /\ StepAt(Len(stack)) = step
    BY DEF AtWork, StepAt
  <1> QED
    BY <1>1 DEF AliasInv, Top, Want, Desired

LEMMA PassOfTop ==
    ASSUME AtWork, PassInv
    PROVE  FrameInv(tree, Desired, Top, step)
  <1>1. Len(stack) \in 1..Len(stack) /\ StepAt(Len(stack)) = step
    BY DEF AtWork, StepAt
  <1> QED
    BY <1>1 DEF PassInv, Top, Desired

LEMMA TopDistinct ==
    ASSUME AtWork, NoTwins(mine)
    PROVE  Distinct(Desired)
  BY TwinFree DEF AtWork, Desired

\* The tree stays.
LEMMA SameTreePass ==
    ASSUME TypeInv, PassInv, NEW fr, Within(fr), tree' = tree, FrameInv(tree, Desired, fr, step'),
           (Top.used \subseteq fr.used /\ step # "reorder") \/ step' = "reorder",
           NoSubflowHandled(fr)
    PROVE  PassInv'
  <1>1. \A f : SameAt(tree, tree', f)
    BY DEF SameAt
  <1>2. AnchorsKept(fr)
    BY DEF AnchorsKept, SameExecution
  <1>3. FrameInv(tree', Desired, fr, step')
    OBVIOUS
  <1> QED
    BY <1>1, <1>2, <1>3, WithinPass

\* An execution of the innermost flow is changed.
LEMMA ChangedTreePass ==
    ASSUME TypeInv, PassInv, NEW fr, Within(fr), NEW c \in DOMAIN tree, tree[c].flow = Top.flow,
           NEW r, NEW g, NEW p, Changed(tree, tree', c, r, g, p),
           FrameInv(tree', Desired, fr, step'),
           (Top.used \subseteq fr.used /\ step # "reorder") \/ step' = "reorder",
           NoSubflowHandled(fr)
    PROVE  PassInv'
  <1>1. /\ DOMAIN tree' = DOMAIN tree /\ \A j \in DOMAIN tree \ {c} : tree'[j] = tree[j]
        /\ SameExecution(tree[c], tree'[c])
    BY DEF Changed, Becomes
  <1>2. ASSUME NEW f, f # Top.flow
        PROVE  SameAt(tree, tree', f)
    <2>1. tree'[c].flow = Top.flow
      BY <1>1 DEF SameExecution
    <2>2. \A i \in DOMAIN tree : tree'[i].flow = f <=> tree[i].flow = f
      BY <2>1, <1>1, <1>2
    <2>3. Children(tree', f) = Children(tree, f)
      BY <2>2, <1>1 DEF Children
    <2>4. \A i \in Children(tree, f) : tree'[i] = tree[i]
      BY <1>1, <1>2 DEF Children
    <2> QED
      BY <2>3, <2>4 DEF SameAt
  <1>3. \A k \in DOMAIN tree : k \in DOMAIN tree' /\ SameExecution(tree[k], tree'[k])
    BY <1>1 DEF SameExecution
  <1>4. AnchorsKept(fr)
    BY <1>3 DEF AnchorsKept
  <1> QED
    BY <1>2, <1>4, WithinPass

\* A pass that ends, or has not begun, has nothing to keep.
LEMMA FinishPass ==
    ASSUME Finish, tree' = tree, AliasInv
    PROVE  AliasInv' /\ PassInv'
  <1>1. stack' = << >> /\ finished' = {} /\ step' = "idle" /\ Len(stack') = 0 /\ StackFlows' = {}
    BY DEF Finish, StackFlows
  <1>2. AliasInv'
    BY <1>1 DEF AliasInv
  <1>3. Seen' = {}
    BY <1>1 DEF Seen
  <1>4. FinishedInv'
    BY <1>1, <1>3 DEF FinishedInv
  <1> QED
    BY <1>1, <1>2, <1>4 DEF PassInv

Clear == TypeInv /\ AliasesTell /\ AliasInv

Clean == NoTwins(mine) /\ PassInv

LEMMA ListPass ==
    ASSUME Clear, List
    PROVE  AliasInv' /\ (Clean => PassInv')
  <1> USE DEF Clear
  <1>a. step = "list" /\ step \in WorkSteps
    BY WorkStepNames DEF List
  <1>b. AtWork
    BY <1>a, TopFacts
  <1>1. CASE Fail
    BY <1>1, FinishPass DEF Fail
  <1>2. ASSUME NEW live, NEW fr, Lists(live, Children(tree, Top.flow)), Within(fr),
               FrameIs(fr, Top.flow, 1, live, {}, Top.cur), step' = "want", tree' = tree
        PROVE  AliasInv' /\ (Clean => PassInv')
    <2>1. fr.flow = Top.flow /\ fr.i = 1 /\ fr.live = live /\ fr.used = {}
      BY <1>2 DEF FrameIs
    <2>2. \A k \in DOMAIN live : live[k].id \in DOMAIN tree /\ live[k].rep = tree[live[k].id]
      BY <1>2 DEF Lists
    <2>3. AliasInv'
      BY <2>1, <2>2, <1>2, <1>b, AliasOfTop, AliasTop DEF ClaimSteps
    <2>4. ASSUME Clean PROVE PassInv'
      <3>1. LiveIds(fr) = Children(tree, Top.flow)
        BY <2>1, <1>2 DEF LiveIds, Lists
      <3>2. Claims(tree, Desired, fr, "want")
        BY <2>1 DEF Claims, ClaimedTo, RequiredTo, ConfiguredTo, ClaimSteps
      <3>3. Walk(tree, Desired, fr, "want")
        BY <2>1, <2>2, <3>1 DEF Walk, UpToDate, ClaimSteps
      <3>4. FrameInv(tree, Desired, fr, step')
        BY <2>1, <3>2, <3>3, <1>2 DEF FrameInv, ClaimSteps
      <3>5. Top.used = {} /\ Top.i = 1
        BY <1>a, <1>b DEF AtWork, FrameType
      <3>6. NoSubflowHandled(fr)
        BY <2>1, <3>5, <1>a, <1>2 DEF NoSubflowHandled, HandledTo
      <3> QED
        BY <2>4, <3>4, <3>5, <3>6, <1>a, <1>2, SameTreePass DEF Clean
    <2> QED
      BY <2>3, <2>4
  <1> QED
    BY <1>1, <1>2, ListShape

\* The entry in hand is claimed: from a list that is complete and up to date.
LEMMA ClaimedPass ==
    ASSUME Clear, step \in {"want", "relist"}, Top.i \in 1..Len(Desired), NEW live, NEW k, NEW fr,
           \A j \in DOMAIN live : GoodAlias(live[j].rep) /\ live[j].rep.flow = Top.flow,
           Claimed(fr, live, k)
    PROVE  /\ AliasInv'
           /\ Clean /\ Shows(tree, Top, live) => PassInv'
  <1> USE DEF Clear
  <1>a. step \in WorkSteps
    BY WorkStepNames
  <1>b. AtWork
    BY <1>a, TopFacts
  <1>1. /\ Within(fr) /\ k # 0 /\ Answers(live, Want, Top.used, k) /\ step' \in ClaimSteps
        /\ tree' = tree
        /\ step' = "requirement" <=> Want.req \notin {"", live[k].rep.req}
        /\ step' \in {"descend", "next"} => Want.cfg = NoConfig
    BY DEF Claimed
  <1>2. /\ fr.flow = Top.flow /\ fr.i = Top.i /\ fr.live = live
        /\ fr.used = Top.used \cup {live[k].id} /\ fr.cur = k
    BY DEF Claimed, FrameIs
  <1>3. k \in DOMAIN live /\ live[k].id \notin Top.used /\ Alike(live[k].rep, Want)
    BY <1>1, <1>b, AnswerAlike
  <1>4. Want = Desired[Top.i]
    BY DEF Want
  <1>5. AliasInv'
    <2>1. fr.live[fr.cur].rep.name = Desired[fr.i].name
      BY <1>2, <1>3, <1>4 DEF Alike
    <2> QED
      BY <2>1, <1>1, <1>2, <1>b, AliasOfTop, AliasTop
  <1>6. ASSUME Clean, Shows(tree, Top, live)
        PROVE  PassInv'
    <2>1. FrameInv(tree, Desired, Top, step) /\ Distinct(Desired) /\ Len(Desired) \in Nat
      BY <1>6, <1>b, PassOfTop, TopDistinct DEF Clean, AtWork
    <2>2. live[k].rep.flow = Top.flow
      BY <1>3
    <2>3. /\ step' = "requirement" => Desired[Top.i].req # live[k].rep.req
          /\ step' # "requirement" => Required(live[k].rep, Desired[Top.i])
          /\ step' \in {"descend", "next"} => Desired[Top.i].cfg = NoConfig
      BY <1>1, <1>4 DEF Required
    <2>6. Alike(live[k].rep, Desired[Top.i])
      BY <1>3, <1>4
    <2>4. FrameInv(tree, Desired, fr, step')
      <3>1. Claiming(Desired, Top, live, k, fr, step')
        BY <2>2, <2>3, <2>6, <1>1, <1>2, <1>3 DEF Claiming
      <3> QED
        BY <2>1, <3>1, <1>6, ClaimFrame, Zenon
    <2>5. NoSubflowHandled(fr)
      <3>1. HandledTo(Desired, Top, step) = Top.i - 1 /\ HandledTo(Desired, fr, step') = Top.i - 1
        BY <1>1, <1>2 DEF HandledTo, ClaimSteps
      <3> QED
        BY <3>1 DEF NoSubflowHandled
    <2> QED
      BY <2>4, <2>5, <1>1, <1>2, <1>6, SameTreePass DEF Clean
  <1> QED
    BY <1>5, <1>6

LEMMA MatchPass ==
    ASSUME Clear, Match
    PROVE  AliasInv' /\ (Clean => PassInv')
  <1> USE DEF Clear
  <1>a. step = "want" /\ step \in WorkSteps /\ tree' = tree
    BY WorkStepNames DEF Match
  <1>b. AtWork
    BY <1>a, TopFacts
  <1>c. Clean => FrameInv(tree, Desired, Top, "want")
    BY <1>a, <1>b, PassOfTop DEF Clean
  <1>d. /\ \A i \in DOMAIN tree : GoodAlias(tree[i])
        /\ \A k \in DOMAIN Top.live : GoodAlias(Top.live[k].rep)
    BY <1>b, AliasOfTop
  <1>1. CASE Within(Top) /\ step' = "prune"
    <2>1. AliasInv'
      BY <1>1, <1>a, <1>d, AliasTop DEF ClaimSteps
    <2>2. ASSUME Clean PROVE PassInv'
      <3>1. FrameInv(tree, Desired, Top, "prune")
        <4>1. Top.used \subseteq Children(tree, Top.flow) /\ Claims(tree, Desired, Top, "want")
          BY <2>2, <1>c DEF FrameInv
        <4>2. Claims(tree, Desired, Top, "prune")
          BY <4>1, ClaimsKept DEF ClaimSteps
        <4> QED
          BY <4>1, <4>2 DEF FrameInv, ClaimSteps
      <3>2. NoSubflowHandled(Top)
        BY <1>1, <1>a, <1>b DEF NoSubflowHandled, HandledTo, AtWork
      <3> QED
        BY <2>2, <3>1, <3>2, <1>1, <1>a, SameTreePass DEF Clean
    <2> QED
      BY <2>1, <2>2
  <1>2. CASE Within(Top) /\ step' = "create" /\ Answers(Top.live, Want, Top.used, 0)
    <2>1. AliasInv'
      BY <1>2, <1>a, <1>d, AliasTop DEF ClaimSteps
    <2>2. ASSUME Clean PROVE PassInv'
      <3>1. FrameInv(tree, Desired, Top, "create")
        <4>1. /\ Top.used \subseteq Children(tree, Top.flow) /\ Claims(tree, Desired, Top, "want")
              /\ Walk(tree, Desired, Top, "want")
          BY <2>2, <1>c DEF FrameInv
        <4>2. Claims(tree, Desired, Top, "create")
          BY <4>1, ClaimsKept DEF ClaimSteps
        <4>3. \A j \in DOMAIN Top.live : Top.live[j].id \notin Top.used => ~Alike(Top.live[j].rep, Desired[Top.i])
          BY <1>2 DEF Answers, Want
        <4>4. Walk(tree, Desired, Top, "create")
          BY <4>1, <4>3 DEF Walk, ClaimSteps
        <4> QED
          BY <4>1, <4>2, <4>4 DEF FrameInv, ClaimSteps
      <3>2. NoSubflowHandled(Top)
        BY <1>2, <1>a, <1>b DEF NoSubflowHandled, HandledTo, AtWork
      <3> QED
        BY <2>2, <3>1, <3>2, <1>2, <1>a, SameTreePass DEF Clean
    <2> QED
      BY <2>1, <2>2
  <1>3. ASSUME Top.i \in 1..Len(Desired), NEW k, NEW fr, Claimed(fr, Top.live, k)
        PROVE  AliasInv' /\ (Clean => PassInv')
    <2>1. \A j \in DOMAIN Top.live : GoodAlias(Top.live[j].rep) /\ Top.live[j].rep.flow = Top.flow
      BY <1>b, <1>d DEF AtWork, FrameType
    <2>2. Clean => Shows(tree, Top, Top.live)
      <3>1. Clean => Walk(tree, Desired, Top, "want")
        BY <1>c DEF FrameInv
      <3> QED
        BY <3>1 DEF Walk, UpToDate, LiveIds, Shows
    <2> QED
      BY <2>1, <2>2, <1>3, <1>a, ClaimedPass
  <1> QED
    BY <1>1, <1>2, <1>3, MatchShape

LEMMA RelistPass ==
    ASSUME Clear, Relist
    PROVE  AliasInv' /\ (Clean => PassInv')
  <1> USE DEF Clear
  <1>a. step = "relist" /\ step \in WorkSteps /\ Top.i \in 1..Len(Desired)
    BY WorkStepNames, RelistShape
  <1>b. AtWork
    BY <1>a, TopFacts
  <1>1. CASE Fail
    BY <1>1, FinishPass DEF Fail
  <1>2. ASSUME NEW live, NEW k, NEW fr, Lists(live, Children(tree, Top.flow)), Claimed(fr, live, k)
        PROVE  AliasInv' /\ (Clean => PassInv')
    <2>1. /\ \A j \in DOMAIN live : /\ live[j].id \in DOMAIN tree /\ live[j].rep = tree[live[j].id]
                                    /\ live[j].rep.flow = Top.flow
          /\ Children(tree, Top.flow) = {live[j].id : j \in DOMAIN live}
      BY <1>2 DEF Lists
    <2>2. \A j \in DOMAIN live : GoodAlias(live[j].rep)
      BY <2>1, <1>b, AliasOfTop
    <2>3. Shows(tree, Top, live)
      BY <2>1 DEF Shows
    <2> QED
      BY <2>1, <2>2, <2>3, <1>2, <1>a, ClaimedPass
  <1> QED
    BY <1>1, <1>2, RelistShape

LEMMA NewExecutionFields ==
    ASSUME NEW f, NEW w
    PROVE  /\ NewExecution(f, w).flow = f /\ NewExecution(f, w).sub = w.sub
           /\ NewExecution(f, w).name = w.name /\ NewExecution(f, w).cfg.alias = ""
  BY DEF NewExecution, NoConfig

LEMMA CreatePass ==
    ASSUME Clear, Create
    PROVE  AliasInv' /\ (Clean => PassInv')
  <1> USE DEF Clear
  <1>1. CASE Fail
    BY <1>1, FinishPass DEF Fail
  <1>2. CASE /\ Within(Top) /\ step' = "relist" /\ step = "create"
             /\ Fresh \notin DOMAIN tree
             /\ DOMAIN tree' = DOMAIN tree \cup {Fresh}
             /\ tree'[Fresh] = NewExecution(Top.flow, Want)
             /\ \A k \in DOMAIN tree : tree'[k] = tree[k]
    <2>a. AtWork
      BY <1>2, WorkStepNames, TopFacts
    <2>1. tree'[Fresh].flow = Top.flow /\ tree'[Fresh].cfg.alias = ""
      <3>1. NewExecution(Top.flow, Want).flow = Top.flow /\ NewExecution(Top.flow, Want).cfg.alias = ""
        BY NewExecutionFields, Zenon
      <3>2. tree'[Fresh] = NewExecution(Top.flow, Want)
        BY <1>2
      <3> QED
        BY <3>1, <3>2, Zenon
    <2>2. AliasInv'
      <3>1. GoodAlias(tree'[Fresh])
        BY <2>1 DEF GoodAlias
      <3>2. \A i \in DOMAIN tree' : GoodAlias(tree'[i])
        BY <3>1, <1>2, <2>a, AliasOfTop
      <3> QED
        BY <3>2, <1>2, <2>a, AliasOfTop, AliasTop DEF ClaimSteps
    <2>3. ASSUME Clean PROVE PassInv'
      <3>1. FrameInv(tree, Desired, Top, "create")
        BY <2>3, <2>a, <1>2, PassOfTop DEF Clean
      <3>2. FrameInv(tree', Desired, Top, "relist")
        BY <3>1, <1>2, CreateFrame
      <3>3. ASSUME NEW f, f # Top.flow PROVE SameAt(tree, tree', f)
        <4>1. Children(tree', f) = Children(tree, f)
          BY <3>3, <2>1, <1>2 DEF Children
        <4> QED
          BY <4>1, <1>2 DEF SameAt, Children
      <3>4. AnchorsKept(Top)
        BY <1>2 DEF AnchorsKept, SameExecution
      <3>5. NoSubflowHandled(Top)
        BY <1>2, <2>a DEF NoSubflowHandled, HandledTo, AtWork
      <3> QED
        BY <3>2, <3>3, <3>4, <3>5, <2>3, <1>2, WithinPass DEF Clean
    <2> QED
      BY <2>2, <2>3
  <1> QED
    BY <1>1, <1>2, CreateShape

\* The execution in hand is the only one that has been claimed for the entry.
LEMMA OnlyCurrent ==
    ASSUME NEW t, NEW D, NEW fr, NEW st \in ClaimSteps, FrameInv(t, D, fr, st)
    PROVE  /\ \A i \in fr.used : Alike(t[i], D[fr.i]) => i = fr.live[fr.cur].id
           /\ fr.live[fr.cur].id \in fr.used /\ fr.used \subseteq Children(t, fr.flow)
           /\ Alike(t[fr.live[fr.cur].id], D[fr.i])
  <1>1. Claims(t, D, fr, st) /\ Walk(t, D, fr, st) /\ fr.used \subseteq Children(t, fr.flow)
    BY DEF FrameInv, ClaimSteps
  <1>2. fr.live[fr.cur].id \in fr.used /\ Alike(t[fr.live[fr.cur].id], D[fr.i])
    BY <1>1 DEF Walk
  <1> QED
    BY <1>1, <1>2 DEF Claims, Alike

\* A change of the execution in hand, by which no alias changes.
LEMMA RequirementPass ==
    ASSUME Clear, UpdateExecutionRequirement
    PROVE  AliasInv' /\ (Clean => PassInv')
  <1> USE DEF Clear
  <1>1. CASE Fail
    BY <1>1, FinishPass DEF Fail
  <1>2. ASSUME step = "requirement", Within(Top), Current \in DOMAIN tree, NEW p,
               Changed(tree, tree', Current, Want.req, tree[Current].cfg, p),
               step' \in {"descend", "config", "next"},
               step' \in {"descend", "next"} => Want.cfg = NoConfig
        PROVE  AliasInv' /\ (Clean => PassInv')
    <2>a. step \in ClaimSteps /\ step' \in ClaimSteps \ {"requirement"} /\ step \in WorkSteps
          /\ step \in EntrySteps
      BY <1>2, WorkStepNames DEF ClaimSteps, EntrySteps
    <2>b. AtWork
      BY <2>a, TopFacts
    <2>1. /\ DOMAIN tree' = DOMAIN tree /\ \A j \in DOMAIN tree \ {Current} : tree'[j] = tree[j]
          /\ tree'[Current].name = tree[Current].name
          /\ tree'[Current].cfg = tree[Current].cfg /\ tree'[Current].req = Want.req
      BY <1>2 DEF Changed, Becomes, SameExecution
    <2>2. \A i \in DOMAIN tree' : GoodAlias(tree'[i])
      BY <2>1, <2>b, AliasOfTop DEF GoodAlias
    <2>3. AliasInv'
      BY <2>2, <2>a, <2>b, <1>2, AliasOfTop, AliasTop DEF Want
    <2>4. ASSUME Clean PROVE PassInv'
      <3>1. FrameInv(tree, Desired, Top, step) /\ Distinct(Desired) /\ Len(Desired) \in Nat
            /\ Top.i \in 1..Len(Desired)
        BY <2>4, <2>a, <2>b, PassOfTop, TopDistinct DEF Clean, AtWork
      <3>2. Required(tree'[Current], Desired[Top.i])
        BY <2>1 DEF Required, Want
      <3>3. step' \in {"descend", "next"} => Configured(tree'[Current], Desired[Top.i])
        BY <1>2 DEF Configured, Want
      <3>4. Current = Top.live[Top.cur].id
        BY DEF Current
      <3>5. FrameInv(tree', Desired, Top, step')
        BY <3>1, <3>2, <3>3, <3>4, <2>a, <1>2, TouchFrame, ZenonT(30)
      <3>6. NoSubflowHandled(Top)
        BY <1>2, <2>b DEF NoSubflowHandled, HandledTo, AtWork
      <3>7. tree[Current].flow = Top.flow
        BY <1>2, <2>a, CurrentFacts
      <3> QED
        BY <3>5, <3>6, <3>7, <2>4, <1>2, ChangedTreePass DEF Clean
    <2> QED
      BY <2>3, <2>4
  <1> QED
    BY <1>1, <1>2, RequirementShape

\* On to the next entry, the execution in hand being as declared.
LEMMA ToNextWantPass ==
    ASSUME Clear, step \in {"config", "writeConfig", "next"}, NEW fr, ToNextWant(fr),
           NEW r, NEW g, NEW p, Changed(tree, tree', Current, r, g, p), Current \in DOMAIN tree,
           GoodAlias(tree'[Current]), Clean,
           FrameInv(tree', Desired, Top, step),
           Required(tree'[Current], Want), Configured(tree'[Current], Want)
    PROVE  PassInv'
  <1> USE DEF Clear, Clean
  <1>a. step \in ClaimSteps /\ step \in WorkSteps /\ step \in EntrySteps /\ Want = Desired[Top.i]
    BY WorkStepNames DEF ClaimSteps, EntrySteps, Want
  <1>b. AtWork
    BY <1>a, TopFacts
  <1>1. Distinct(Desired) /\ Len(Desired) \in Nat /\ Top.i \in 1..Len(Desired)
    BY <1>a, <1>b, TopDistinct DEF AtWork
  <1>2. \A i \in Top.used : Alike(tree'[i], Desired[Top.i]) => i = Current
    BY <1>a, OnlyCurrent DEF Current
  <1>3. \A i \in Top.used : Alike(tree'[i], Desired[Top.i]) =>
           Required(tree'[i], Desired[Top.i]) /\ Configured(tree'[i], Desired[Top.i])
    BY <1>2, <1>a
  <1>4. /\ Within(fr) /\ step' = "want" /\ fr.flow = Top.flow /\ fr.i = Top.i + 1
        /\ fr.live = Top.live /\ fr.used = Top.used
    BY DEF ToNextWant, FrameIs
  <1>5. FrameInv(tree', Desired, fr, "want")
    BY <1>1, <1>3, <1>4, <1>a, NextFrame, ZenonT(30)
  <1>6. ~Desired[Top.i].sub
    BY <1>b DEF AtWork, FrameType
  <1>7. NoSubflowHandled(fr)
    <2>1. HandledTo(Desired, Top, step) = Top.i - 1 /\ HandledTo(Desired, fr, step') = Top.i
      BY <1>1, <1>4 DEF HandledTo
    <2> QED
      BY <2>1, <1>1, <1>6 DEF NoSubflowHandled
  <1>8. tree[Current].flow = Top.flow
    BY <1>a, CurrentFacts
  <1> QED
    BY <1>4, <1>5, <1>7, <1>8, ChangedTreePass

LEMMA NextWantAlias ==
    ASSUME Clear, step \in ClaimSteps, NEW fr, ToNextWant(fr), \A i \in DOMAIN tree' : GoodAlias(tree'[i])
    PROVE  AliasInv'
  <1> USE DEF Clear
  <1>1. AtWork
    BY WorkStepNames, TopFacts DEF ClaimSteps
  <1>2. Within(fr) /\ step' = "want" /\ fr.live = Top.live
    BY DEF ToNextWant, FrameIs
  <1> QED
    BY <1>1, <1>2, AliasOfTop, AliasTop DEF ClaimSteps

\* Nothing has changed.
LEMMA UnchangedIsChanged ==
    ASSUME TypeInv, NEW c \in DOMAIN tree, tree' = tree
    PROVE  Changed(tree, tree', c, tree[c].req, tree[c].cfg, tree[c].prio)
  <1>1. tree[c] \in Executions
    BY DEF TypeInv, TreeInv, TreeType
  <1> QED
    BY <1>1 DEF Changed, Becomes, SameExecution

LEMMA ReconcileConfigPass ==
    ASSUME Clear, reconcileAuthenticatorConfig
    PROVE  AliasInv' /\ (Clean => PassInv')
  <1> USE DEF Clear
  <1>a. step = "config" /\ step \in WorkSteps /\ step \in ClaimSteps /\ step \in EntrySteps /\ tree' = tree
    BY WorkStepNames DEF reconcileAuthenticatorConfig, ClaimSteps, EntrySteps
  <1>b. AtWork
    BY <1>a, TopFacts
  <1>c. Clean => FrameInv(tree, Desired, Top, "config")
    BY <1>a, <1>b, PassOfTop DEF Clean
  <1>d. \A i \in DOMAIN tree' : GoodAlias(tree'[i])
    BY <1>a, <1>b, AliasOfTop
  <1>1. CASE Finish
    BY <1>1, <1>a, FinishPass
  <1>2. CASE Within(Top) /\ step' = "writeConfig"
    <2>1. AliasInv'
      BY <1>2, <1>a, <1>b, <1>d, AliasOfTop, AliasTop DEF Want
    <2>2. ASSUME Clean PROVE PassInv'
      <3>1. FrameInv(tree, Desired, Top, "writeConfig")
        <4>1. /\ Top.used \subseteq Children(tree, Top.flow) /\ Claims(tree, Desired, Top, "config")
              /\ Walk(tree, Desired, Top, "config")
          BY <2>2, <1>c DEF FrameInv, ClaimSteps
        <4>2. /\ ClaimedTo(Top, "writeConfig") = ClaimedTo(Top, "config")
              /\ RequiredTo(Top, "writeConfig") = RequiredTo(Top, "config")
              /\ ConfiguredTo(Top, "writeConfig") = ConfiguredTo(Top, "config")
          BY DEF ClaimedTo, RequiredTo, ConfiguredTo, ClaimSteps
        <4>3. Claims(tree, Desired, Top, "writeConfig")
          BY <4>1, <4>2 DEF Claims
        <4>4. Walk(tree, Desired, Top, "writeConfig")
          BY <4>1 DEF Walk, ClaimSteps
        <4> QED
          BY <4>1, <4>3, <4>4 DEF FrameInv, ClaimSteps
      <3>2. NoSubflowHandled(Top)
        BY <1>2, <1>a, <1>b DEF NoSubflowHandled, HandledTo, AtWork
      <3> QED
        BY <2>2, <3>1, <3>2, <1>2, <1>a, SameTreePass DEF Clean
    <2> QED
      BY <2>1, <2>2
  <1>3. ASSUME NEW fr, ToNextWant(fr), Current \in DOMAIN tree, tree[Current].cfg = Rendered(Want.cfg)
        PROVE  AliasInv' /\ (Clean => PassInv')
    <2>1. AliasInv'
      BY <1>3, <1>a, <1>d, NextWantAlias
    <2>2. ASSUME Clean PROVE PassInv'
      <3>1. FrameInv(tree', Desired, Top, step)
        BY <2>2, <1>a, <1>c
      <3>2. tree[Current].cfg = Stored(Want.cfg)
        BY <1>3, <1>a, WantFacts, StoredRendered
      <3>3. Configured(tree'[Current], Want)
        BY <3>2, <1>a DEF Configured
      <3>4. Required(tree'[Current], Want)
        <4>1. Current \in Top.used /\ Alike(tree[Current], Desired[Top.i]) /\ Claims(tree, Desired, Top, "config")
          BY <2>2, <1>a, <1>c, OnlyCurrent DEF Current, FrameInv
        <4>2. Top.i \in 1..RequiredTo(Top, "config")
          BY <1>a, <1>b DEF RequiredTo, ClaimSteps, AtWork
        <4> QED
          BY <4>1, <4>2, <1>a DEF Claims, Want
      <3>5. Changed(tree, tree', Current, tree[Current].req, tree[Current].cfg, tree[Current].prio)
        BY <1>3, <1>a, UnchangedIsChanged
      <3>6. GoodAlias(tree'[Current])
        BY <1>3, <1>a, <1>d
      <3> QED
        BY <3>1, <3>3, <3>4, <3>5, <3>6, <2>2, <1>3, <1>a, ToNextWantPass
    <2> QED
      BY <2>1, <2>2
  <1> QED
    BY <1>1, <1>2, <1>3, ReconcileConfigShape

LEMMA WriteConfigPass ==
    ASSUME Clear, WriteAuthenticatorConfig
    PROVE  AliasInv' /\ (Clean => PassInv')
  <1> USE DEF Clear
  <1>1. CASE Fail
    BY <1>1, FinishPass DEF Fail
  <1>2. ASSUME step = "writeConfig", NEW fr, ToNextWant(fr), Current \in DOMAIN tree,
               Want.cfg \in Configs,
               Changed(tree, tree', Current, tree[Current].req, Stored(Want.cfg), tree[Current].prio)
        PROVE  AliasInv' /\ (Clean => PassInv')
    <2>a. step \in WorkSteps /\ step \in ClaimSteps /\ step \in EntrySteps
      BY <1>2, WorkStepNames DEF ClaimSteps, EntrySteps
    <2>b. AtWork
      BY <2>a, TopFacts
    <2>1. /\ DOMAIN tree' = DOMAIN tree /\ \A j \in DOMAIN tree \ {Current} : tree'[j] = tree[j]
          /\ tree'[Current].name = tree[Current].name
          /\ tree'[Current].cfg = Stored(Want.cfg) /\ tree'[Current].req = tree[Current].req
      BY <1>2 DEF Changed, Becomes, SameExecution
    <2>2. tree[Current].name = Want.name
      BY <1>2, <2>a, <2>b, CurrentFacts, AliasOfTop DEF SameExecution
    <2>3. Stored(Want.cfg).alias = Want.cfg.alias
      BY <1>2, StoredRendered
    <2>4. Declares(Want.cfg.alias, Want.name)
      <3>1. mine \in Specs /\ Top.flow \in DOMAIN mine.flows /\ Top.i \in 1..Len(mine.flows[Top.flow])
        BY <2>a, <2>b DEF AtWork, Desired
      <3> QED
        BY <3>1 DEF Declares, Want, Desired
    <2>5. GoodAlias(tree'[Current])
      BY <2>1, <2>2, <2>3, <2>4 DEF GoodAlias
    <2>6. \A i \in DOMAIN tree' : GoodAlias(tree'[i])
      BY <2>1, <2>5, <2>b, AliasOfTop
    <2>7. AliasInv'
      BY <2>6, <2>a, <1>2, NextWantAlias
    <2>8. ASSUME Clean PROVE PassInv'
      <3>1. FrameInv(tree, Desired, Top, step) /\ Distinct(Desired) /\ Len(Desired) \in Nat
            /\ Top.i \in 1..Len(Desired)
        BY <2>8, <2>a, <2>b, PassOfTop, TopDistinct DEF Clean, AtWork
      <3>2. Required(tree[Current], Want)
        <4>1. Current \in Top.used /\ Alike(tree[Current], Desired[Top.i]) /\ Claims(tree, Desired, Top, step)
          BY <3>1, <2>a, <1>2, OnlyCurrent DEF Current, FrameInv
        <4>2. Top.i \in 1..RequiredTo(Top, step)
          BY <3>1, <1>2 DEF RequiredTo, ClaimSteps
        <4> QED
          BY <4>1, <4>2 DEF Claims, Want
      <3>3. Required(tree'[Current], Want) /\ Configured(tree'[Current], Want)
        BY <3>2, <2>1 DEF Required, Configured
      <3>4. /\ Current = Top.live[Top.cur].id
            /\ Required(tree'[Current], Desired[Top.i])
            /\ step \in {"descend", "next"} => Configured(tree'[Current], Desired[Top.i])
            /\ step \in ClaimSteps \ {"requirement"}
        BY <3>3, <2>a, <1>2 DEF Want, Current
      <3>5. FrameInv(tree', Desired, Top, step)
        BY <3>1, <3>4, <2>a, <1>2, TouchFrame, ZenonT(30)
      <3> QED
        BY <3>3, <3>5, <2>5, <2>8, <1>2, ToNextWantPass
    <2> QED
      BY <2>7, <2>8
  <1> QED
    BY <1>1, <1>2, WriteConfigShape

LEMMA ProceedPass ==
    ASSUME Clear, Proceed
    PROVE  AliasInv' /\ (Clean => PassInv')
  <1> USE DEF Clear
  <1>a. step = "next" /\ step \in WorkSteps /\ step \in ClaimSteps /\ step \in EntrySteps /\ tree' = tree
    BY WorkStepNames DEF Proceed, ClaimSteps, EntrySteps
  <1>b. AtWork
    BY <1>a, TopFacts
  <1>1. PICK fr : ToNextWant(fr)
    BY ProceedShape
  <1>2. \A i \in DOMAIN tree' : GoodAlias(tree'[i])
    BY <1>a, <1>b, AliasOfTop
  <1>3. AliasInv'
    BY <1>1, <1>2, <1>a, NextWantAlias
  <1>4. ASSUME Clean PROVE PassInv'
    <2>1. FrameInv(tree, Desired, Top, step)
      BY <1>4, <1>b, PassOfTop DEF Clean
    <2>2. /\ Current \in Top.used /\ Alike(tree[Current], Desired[Top.i])
          /\ Claims(tree, Desired, Top, step) /\ Top.used \subseteq Children(tree, Top.flow)
      BY <2>1, <1>a, OnlyCurrent DEF Current, FrameInv
    <2>3. Top.i \in 1..RequiredTo(Top, step) /\ Top.i \in 1..ConfiguredTo(Top, step)
      BY <1>a, <1>b DEF RequiredTo, ConfiguredTo, ClaimSteps, AtWork
    <2>4. Required(tree'[Current], Want) /\ Configured(tree'[Current], Want)
      BY <2>2, <2>3, <1>a DEF Claims, Want
    <2>5. Current \in DOMAIN tree
      BY <2>2 DEF Children
    <2>6. Changed(tree, tree', Current, tree[Current].req, tree[Current].cfg, tree[Current].prio)
      BY <2>5, <1>a, UnchangedIsChanged
    <2>7. GoodAlias(tree'[Current]) /\ FrameInv(tree', Desired, Top, step)
      BY <2>1, <2>5, <1>a, <1>2
    <2> QED
      BY <2>4, <2>5, <2>6, <2>7, <1>1, <1>4, <1>a, ToNextWantPass
  <1> QED
    BY <1>3, <1>4

LEMMA PrunePass ==
    ASSUME Clear, Prune
    PROVE  AliasInv' /\ (Clean => PassInv')
  <1> USE DEF Clear
  <1>1. CASE Fail
    BY <1>1, FinishPass DEF Fail
  <1>2. ASSUME NEW extra, NEW fr, step = "prune", tree' = tree,
               Lists(extra, Children(tree, Top.flow) \ Top.used),
               Within(fr), FrameIs(fr, Top.flow, Top.i, extra, Top.used, Top.cur),
               step' \in {"delete", "order"}, step' = "order" <=> extra = << >>
        PROVE  AliasInv' /\ (Clean => PassInv')
    <2>a. AtWork
      BY <1>2, WorkStepNames, TopFacts
    <2>1. fr.flow = Top.flow /\ fr.i = Top.i /\ fr.live = extra /\ fr.used = Top.used
      BY <1>2 DEF FrameIs
    <2>2. /\ \A k \in DOMAIN extra : extra[k].id \in DOMAIN tree /\ extra[k].rep = tree[extra[k].id]
          /\ Children(tree, Top.flow) \ Top.used = LiveIds(fr)
      BY <2>1, <1>2 DEF Lists, LiveIds
    <2>3. AliasInv'
      BY <2>1, <2>2, <2>a, <1>2, AliasOfTop, AliasTop DEF ClaimSteps
    <2>4. ASSUME Clean PROVE PassInv'
      <3>1. FrameInv(tree, Desired, Top, "prune")
        BY <2>4, <2>a, <1>2, PassOfTop DEF Clean
      <3>2. step' = "order" => LiveIds(fr) = {}
        BY <2>1, <1>2 DEF LiveIds
      <3>5. PICK st : st = step'
        OBVIOUS
      <3>6. st \in {"delete", "order"} /\ (st = "order" => LiveIds(fr) = {})
        BY <3>2, <3>5, <1>2
      <3>7. FrameInv(tree, Desired, fr, st)
        BY <3>1, <3>6, <2>1, <2>2, PruneFrame
      <3>3. FrameInv(tree, Desired, fr, step')
        BY <3>5, <3>7
      <3>4. NoSubflowHandled(fr)
        BY <2>1, <2>a, <1>2 DEF NoSubflowHandled, HandledTo, AtWork
      <3> QED
        BY <3>3, <3>4, <2>1, <2>4, <1>2, SameTreePass DEF Clean
    <2> QED
      BY <2>3, <2>4
  <1> QED
    BY <1>1, <1>2, PruneShape

LEMMA OrderPass ==
    ASSUME Clear, Order
    PROVE  AliasInv' /\ (Clean => PassInv')
  <1> USE DEF Clear
  <1>1. CASE Fail
    BY <1>1, FinishPass DEF Fail
  <1>2. ASSUME NEW live, NEW fr, step = "order", tree' = tree, step' = "reorder",
               Lists(live, Children(tree, Top.flow)),
               Within(fr), FrameIs(fr, Top.flow, 1, live, {}, 0)
        PROVE  AliasInv' /\ (Clean => PassInv')
    <2>a. AtWork
      BY <1>2, WorkStepNames, TopFacts
    <2>1. fr.flow = Top.flow /\ fr.i = 1 /\ fr.live = live /\ fr.used = {}
      BY <1>2 DEF FrameIs
    <2>2. /\ \A k \in DOMAIN live : live[k].id \in DOMAIN tree /\ live[k].rep = tree[live[k].id]
          /\ LiveIds(fr) = Children(tree, Top.flow)
      BY <2>1, <1>2 DEF Lists, LiveIds
    <2>3. AliasInv'
      BY <2>1, <2>2, <2>a, <1>2, AliasOfTop, AliasTop DEF ClaimSteps
    <2>4. ASSUME Clean PROVE PassInv'
      <3>1. FrameInv(tree, Desired, Top, "order") /\ Len(Desired) \in Nat
        BY <2>4, <2>a, <1>2, PassOfTop DEF Clean, AtWork
      <3>2. Top.i = Len(Desired) + 1
        BY <2>a, <1>2 DEF AtWork, FrameType, EndSteps
      <3>3. FrameInv(tree, Desired, fr, "reorder")
        BY <3>1, <3>2, <2>1, <2>2, OrderFrame, ZenonT(30)
      <3>4. NoSubflowHandled(fr)
        BY <3>1, <3>2, <1>2 DEF NoSubflowHandled, HandledTo
      <3> QED
        BY <3>3, <3>4, <2>4, <1>2, SameTreePass DEF Clean
    <2> QED
      BY <2>3, <2>4
  <1> QED
    BY <1>1, <1>2, OrderShape

\* What is removed lies outside the flows that the pass has seen, but for the
\* execution itself.
LEMMA DeleteSpares ==
    ASSUME Clear, Clean, step = "delete", NEW id, id \in LiveIds(Top), id \in DOMAIN tree,
           tree[id].flow = Top.flow, NEW k \in Below(tree, id)
    PROVE  k = id \/ tree[k].flow \notin Seen
  <1> USE DEF Clear, Clean
  <1>a. AtWork
    BY WorkStepNames, TopFacts
  <1>1. FrameInv(tree, Desired, Top, step)
    BY <1>a, PassOfTop
  <1>2. id \notin Top.used
    BY <1>1 DEF FrameInv
  <1>3. /\ \A i, j \in DOMAIN tree : tree[i].sub /\ tree[j].sub /\ tree[i].name = tree[j].name => i = j
        /\ \A i \in DOMAIN tree : tree[i].sub => tree[i].name \in Subflows
    BY DEF TypeInv, TreeInv, TreeType
  <1>4. Root \notin Subflows
    BY DEF Subflows
  <1>5. Len(stack) \in 1..Len(stack) /\ StepAt(Len(stack)) = step /\ Top = stack[Len(stack)]
    BY <1>a DEF AtWork, StepAt, Top
  <1>6. Top.flow \in Seen
    BY <1>5 DEF Seen, StackFlows
  <1> DEFINE S == {id} \cup {j \in DOMAIN tree : tree[j].flow \notin Seen}
  <1>7. S \in SUBSET DOMAIN tree /\ id \in S
    OBVIOUS
  <1>8. ASSUME NEW j \in S, tree[j].sub, NEW c \in Children(tree, tree[j].name)
        PROVE  c \in S
    <2>1. c \in DOMAIN tree /\ tree[c].flow = tree[j].name /\ j \in DOMAIN tree
      BY <1>7 DEF Children
    <2>2. SUFFICES ASSUME tree[j].name \in Seen PROVE FALSE
      BY <2>1
    <2>3. tree[j].name # Root
      BY <2>1, <1>3, <1>4, <1>8
    <2>4. Anchored(tree[j].name)
      BY <2>2, <2>3 DEF PassInv, FinishedInv
    <2>5. PICK m \in DOMAIN tree :
             /\ tree[m].sub /\ tree[m].name = tree[j].name /\ tree[m].flow \in Seen
             /\ \A d \in 1..Len(stack) :
                   stack[d].flow = tree[m].flow /\ StepAt(d) # "reorder" => m \in stack[d].used
      BY <2>4 DEF Anchored
    <2>6. m = j
      BY <2>1, <2>5, <1>3, <1>8
    <2>7. j = id
      BY <2>5, <2>6, <1>8
    <2>8. id \in Top.used
      BY <2>5, <2>6, <2>7, <1>5
    <2> QED
      BY <2>8, <1>2
  <1>9. ClosedIn(tree, S)
    BY <1>8, Zenon DEF ClosedIn
  <1>10. Below(tree, id) \subseteq S
    BY <1>7, <1>9, BelowClosed
  <1> QED
    BY <1>10

LEMMA DeletePass ==
    ASSUME Clear, DeleteExecution
    PROVE  AliasInv' /\ (Clean => PassInv')
  <1> USE DEF Clear
  <1>1. CASE Fail
    BY <1>1, FinishPass DEF Fail
  <1>2. ASSUME step = "delete", Top.live # << >>, Top.live[1].id \in DOMAIN tree,
               tree' = Without(tree, Below(tree, Top.live[1].id)), rootThere' = rootThere,
               NEW fr, Within(fr),
               FrameIs(fr, Top.flow, Top.i, Tail(Top.live), Top.used, Top.cur),
               step' \in {"delete", "order"}, step' = "order" <=> Tail(Top.live) = << >>
        PROVE  AliasInv' /\ (Clean => PassInv')
    <2>a. AtWork
      BY <1>2, WorkStepNames, TopFacts
    <2>b. PICK id : id = Top.live[1].id
      OBVIOUS
    <2>1. fr.flow = Top.flow /\ fr.i = Top.i /\ fr.live = Tail(Top.live) /\ fr.used = Top.used
      BY <1>2 DEF FrameIs
    <2>2. /\ DOMAIN tree' = DOMAIN tree \ Below(tree, id)
          /\ \A k \in DOMAIN tree' : tree'[k] = tree[k]
      BY <2>b, <1>2, TreeShrunk DEF TypeInv
    <2>3. /\ 1 \in DOMAIN Top.live
          /\ \A k \in DOMAIN Tail(Top.live) :
                k + 1 \in DOMAIN Top.live /\ Tail(Top.live)[k] = Top.live[k + 1]
          /\ \A k \in DOMAIN Top.live :
                k = 1 \/ (k - 1 \in DOMAIN Tail(Top.live) /\ Tail(Top.live)[k - 1] = Top.live[k])
      BY <1>2, <2>a, TailOf DEF AtWork
    <2>4. AliasInv'
      <3>1. \A k \in DOMAIN fr.live : GoodAlias(fr.live[k].rep)
        BY <2>1, <2>3, <2>a, AliasOfTop
      <3>2. \A i \in DOMAIN tree' : GoodAlias(tree'[i])
        BY <2>2, <2>a, AliasOfTop
      <3> QED
        BY <3>1, <3>2, <1>2, AliasTop DEF ClaimSteps
    <2>5. ASSUME Clean PROVE PassInv'
      <3>1. FrameInv(tree, Desired, Top, "delete")
        BY <2>5, <2>a, <1>2, PassOfTop DEF Clean
      <3>2. id \in LiveIds(Top) /\ id \in DOMAIN tree
        BY <2>3, <2>b, <1>2 DEF LiveIds
      <3>3. tree[id].flow = Top.flow
        BY <2>3, <2>b, <1>2, <2>a DEF AtWork, FrameType, SameExecution
      <3>4. \A k \in Below(tree, id) : k = id \/ tree[k].flow \notin Seen
        BY <3>2, <3>3, <2>5, <1>2, DeleteSpares
      <3>5. id \in Below(tree, id)
        BY <3>2, BelowClosed
      <3>6. Top.flow \in Seen
        BY <2>a DEF AtWork, Seen, StackFlows, Top
      <3>7. Children(tree', Top.flow) = Children(tree, Top.flow) \ {id}
        BY <3>4, <3>5, <3>6, <2>2 DEF Children
      <3>8. LiveIds(fr) \subseteq LiveIds(Top) /\ LiveIds(Top) \subseteq LiveIds(fr) \cup {id}
        BY <2>1, <2>3, <2>b DEF LiveIds
      <3>9. step' = "order" => LiveIds(fr) = {}
        BY <2>1, <1>2 DEF LiveIds
      <3>14. PICK st, u : st = step' /\ u = tree'
        OBVIOUS
      <3>15. /\ st \in {"delete", "order"} /\ (st = "order" => LiveIds(fr) = {})
             /\ Children(u, Top.flow) = Children(tree, Top.flow) \ {id}
             /\ \A i \in DOMAIN u : u[i] = tree[i]
        BY <3>7, <3>9, <3>14, <2>2, <1>2
      <3>16. FrameInv(u, Desired, fr, st)
        BY <3>1, <3>2, <3>8, <3>15, <2>1, DeleteFrame
      <3>10. FrameInv(tree', Desired, fr, step')
        BY <3>14, <3>16
      <3>11. ASSUME NEW f \in Seen \ {Top.flow} PROVE SameAt(tree, tree', f)
        <4>1. \A k \in DOMAIN tree : tree[k].flow = f => k \in DOMAIN tree'
          BY <3>3, <3>4, <2>2
        <4> QED
          BY <4>1, <2>2 DEF SameAt, Children
      <3>12. AnchorsKept(fr)
        <4>1. id \notin Top.used
          BY <3>1, <3>2 DEF FrameInv
        <4>2. \A k \in DOMAIN tree : tree[k].flow = Top.flow /\ k \in Top.used =>
                 k \in DOMAIN tree' /\ tree'[k] = tree[k]
          BY <4>1, <3>4, <3>6, <2>2
        <4> QED
          BY <4>2, <2>1, <1>2 DEF AnchorsKept, SameExecution
      <3>13. NoSubflowHandled(fr)
        BY <2>1, <2>a, <1>2 DEF NoSubflowHandled, HandledTo, AtWork
      <3> QED
        BY <3>10, <3>11, <3>12, <3>13, <2>5, <1>2, WithinPass DEF Clean
    <2> QED
      BY <2>4, <2>5
  <1> QED
    BY <1>1, <1>2, DeleteShape

LEMMA ReorderShape ==
    ASSUME TypeInv, reconcileExecutionOrder
    PROVE  /\ step = "reorder"
           /\ \/ Fail
              \/ Top.i = Len(Desired) + 1 /\ Return /\ tree' = tree /\ mine' = mine
              \/ /\ Top.i \in 1..Len(Desired) /\ Answers(Top.live, Want, Top.used, 0)
                 /\ step' = "reorder" /\ tree' = tree
                 /\ \E fr : Within(fr) /\ FrameIs(fr, Top.flow, Top.i + 1, Top.live, Top.used, Top.cur)
              \/ \E k, fr :
                   /\ Top.i \in 1..Len(Desired) /\ k # 0 /\ Answers(Top.live, Want, Top.used, k)
                   /\ step' = "reorder" /\ Within(fr)
                   /\ FrameIs(fr, Top.flow, Top.i + 1, Top.live, Top.used \cup {Top.live[k].id}, Top.cur)
                   /\ \/ tree' = tree /\ Top.live[k].rep.prio = Top.i - 1
                      \/ /\ Top.live[k].id \in DOMAIN tree
                         /\ Changed(tree, tree', Top.live[k].id, Top.live[k].rep.req,
                                    tree[Top.live[k].id].cfg, Top.i - 1)
  <1>a. step = "reorder" /\ step \in WorkSteps /\ mine' = mine
    BY WorkStepNames DEF reconcileExecutionOrder
  <1>b. AtWork
    BY <1>a, TopFacts
  <1>c. /\ Top.i \in 1..(Len(Desired) + 1) /\ Len(Desired) \in Nat /\ Top.used \in SUBSET Ids
        /\ wantPriority(Top.i) = Top.i - 1
    BY <1>b DEF AtWork, wantPriority
  <1>d. PICK k : k = matchingExecution(Top.live, Want, Top.used)
    OBVIOUS
  <1>1. CASE Top.i > Len(Desired) /\ Return /\ UNCHANGED <<tree, rootThere, realm, copy>>
    <2>1. Top.i = Len(Desired) + 1
      BY <1>1, <1>c
    <2> QED
      BY <2>1, <1>1, <1>a
  <1>2. CASE Top.i <= Len(Desired) /\ k = 0 /\ NextPlace(Top.used) /\ tree' = tree
    <2>1. Top.i \in 1..Len(Desired) /\ step' = "reorder"
      BY <1>2, <1>c DEF NextPlace
    <2>2. Answers(Top.live, Want, Top.used, 0)
      BY <1>2, <1>a, <1>d, PlaceFacts
    <2>3. \E fr : Within(fr) /\ FrameIs(fr, Top.flow, Top.i + 1, Top.live, Top.used, Top.cur)
      BY <1>2, <1>a, <1>c, NextPlaceShape
    <2> QED
      BY <2>1, <2>2, <2>3, <1>2, <1>a
  <1>3. CASE /\ Top.i <= Len(Desired) /\ k # 0 /\ NextPlace(Top.used \cup {Top.live[k].id})
             /\ \/ Top.live[k].rep.prio = wantPriority(Top.i) /\ tree' = tree
                \/ /\ Top.live[k].id \in DOMAIN tree
                   /\ tree' = [tree EXCEPT ![Top.live[k].id].prio = wantPriority(Top.i),
                                           ![Top.live[k].id].req = Top.live[k].rep.req]
    <2>1. Top.i \in 1..Len(Desired) /\ step' = "reorder" /\ rootThere' = rootThere
      BY <1>3, <1>c DEF NextPlace
    <2>2. Answers(Top.live, Want, Top.used, k) /\ Top.live[k].id \in Ids
      BY <1>3, <1>a, <1>d, PlaceFacts
    <2>3. PICK fr : /\ Within(fr)
                    /\ FrameIs(fr, Top.flow, Top.i + 1, Top.live, Top.used \cup {Top.live[k].id}, Top.cur)
      <3>1. PICK used : used = Top.used \cup {Top.live[k].id}
        OBVIOUS
      <3>2. used \in SUBSET Ids /\ NextPlace(used)
        BY <3>1, <2>2, <1>3, <1>c
      <3>3. \E fr : Within(fr) /\ FrameIs(fr, Top.flow, Top.i + 1, Top.live, used, Top.cur)
        BY <3>2, <1>3, <1>a, NextPlaceShape
      <3> QED
        BY <3>1, <3>3
    <2>4. \/ tree' = tree /\ Top.live[k].rep.prio = Top.i - 1
          \/ /\ Top.live[k].id \in DOMAIN tree
             /\ Changed(tree, tree', Top.live[k].id, Top.live[k].rep.req,
                        tree[Top.live[k].id].cfg, Top.i - 1)
      <3>1. CASE /\ Top.live[k].id \in DOMAIN tree
                 /\ tree' = [tree EXCEPT ![Top.live[k].id].prio = wantPriority(Top.i),
                                         ![Top.live[k].id].req = Top.live[k].rep.req]
        <4>1. Changed(tree, tree', Top.live[k].id, Top.live[k].rep.req,
                      tree[Top.live[k].id].cfg, wantPriority(Top.i))
          BY <3>1, <2>1, <1>3, <1>a, <1>d, PlaceChange
        <4> QED
          BY <4>1, <3>1, <1>c
      <3> QED
        BY <3>1, <1>3, <1>c
    <2> QED
      BY <2>1, <2>2, <2>3, <2>4, <1>3, <1>a
  <1> QED
    BY <1>1, <1>2, <1>3, <1>a, <1>d DEF reconcileExecutionOrder

LEMMA ReorderWithin ==
    ASSUME Clear, step = "reorder", step' = "reorder", Top.i \in 1..Len(Desired), NEW k, k # 0,
           Answers(Top.live, Want, Top.used, k), NEW fr, Within(fr),
           FrameIs(fr, Top.flow, Top.i + 1, Top.live, Top.used \cup {Top.live[k].id}, Top.cur),
           \/ tree' = tree /\ Top.live[k].rep.prio = Top.i - 1
           \/ /\ Top.live[k].id \in DOMAIN tree
              /\ Changed(tree, tree', Top.live[k].id, Top.live[k].rep.req,
                         tree[Top.live[k].id].cfg, Top.i - 1)
    PROVE  AliasInv' /\ (Clean => PassInv')
  <1> USE DEF Clear
  <1>a. AtWork
    BY WorkStepNames, TopFacts
  <1>b. PICK c : c = Top.live[k].id
    OBVIOUS
  <1>1. /\ fr.flow = Top.flow /\ fr.i = Top.i + 1 /\ fr.live = Top.live /\ fr.used = Top.used \cup {c}
    BY <1>b DEF FrameIs
  <1>2. AliasInv'
    <2>1. \A i \in DOMAIN tree' : i \in DOMAIN tree /\ tree'[i].name = tree[i].name /\ tree'[i].cfg = tree[i].cfg
      BY DEF Changed, Becomes, SameExecution
    <2>2. \A i \in DOMAIN tree' : GoodAlias(tree'[i])
      BY <2>1, <1>a, AliasOfTop DEF GoodAlias
    <2> QED
      BY <2>2, <1>1, <1>a, AliasOfTop, AliasTop DEF ClaimSteps
  <1>3. ASSUME Clean PROVE PassInv'
    <2>1. FrameInv(tree, Desired, Top, "reorder") /\ Distinct(Desired) /\ Len(Desired) \in Nat
      BY <1>3, <1>a, PassOfTop, TopDistinct DEF Clean, AtWork
    <2>2. \A j \in DOMAIN Top.live : GoodAlias(Top.live[j].rep)
      BY <1>a, AliasOfTop
    <2>3. k \in DOMAIN Top.live /\ c \notin Top.used /\ Alike(Top.live[k].rep, Want)
      BY <2>2, <1>a, <1>b, AnswerAlike
    <2>4. c \in DOMAIN tree /\ Top.live[k].rep = tree[c]
      BY <2>1, <2>3, <1>b DEF FrameInv, Ordering, UpToDate
    <2>5. Alike(tree[c], Desired[Top.i])
      BY <2>3, <2>4 DEF Want
    <2>6. tree[c].flow = Top.flow
      BY <2>3, <2>4, <1>a DEF AtWork, FrameType
    <2>7. Changed(tree, tree', c, tree[c].req, tree[c].cfg, Top.i - 1)
      <3>1. CASE tree' = tree /\ Top.live[k].rep.prio = Top.i - 1
        BY <3>1, <2>4, UnchangedIsChanged
      <3> QED
        BY <3>1, <2>4, <1>b
    <2>8. FrameInv(tree', Desired, fr, "reorder")
      <3>1. PICK t, u, D, top : t = tree /\ u = tree' /\ D = Desired /\ top = Top
        OBVIOUS
      <3>2. /\ DOMAIN u = DOMAIN t /\ \A i \in DOMAIN t : i # c => u[i] = t[i]
            /\ Becomes(t[c], u[c], t[c].req, t[c].cfg, top.i - 1)
        BY <3>1, <2>7 DEF Changed
      <3>3. c \in Children(t, top.flow)
        BY <3>1, <2>4, <2>6 DEF Children
      <3>5. /\ Len(D) \in Nat /\ Distinct(D) /\ FrameInv(t, D, top, "reorder")
            /\ top.i \in 1..Len(D) /\ Alike(t[c], D[top.i])
            /\ fr.flow = top.flow /\ fr.i = top.i + 1 /\ fr.live = top.live
            /\ fr.used = top.used \cup {c}
        BY <3>1, <2>1, <2>5, <1>1
      <3>4. FrameInv(u, D, fr, "reorder")
        BY <3>2, <3>3, <3>5, PlaceFrame, Zenon
      <3> QED
        BY <3>1, <3>4
    <2>9. NoSubflowHandled(fr)
      BY <2>1 DEF NoSubflowHandled, HandledTo
    <2> QED
      BY <2>4, <2>6, <2>7, <2>8, <2>9, <1>3, ChangedTreePass DEF Clean
  <1> QED
    BY <1>2, <1>3

\* A flow is entered, nothing in it being claimed or listed yet.
LEMMA PushPass ==
    ASSUME TypeInv, PassInv, NEW g \in STRING, Push(g), tree' = tree, mine' = mine,
           finished' = finished, stack = << >> \/ step = "descend", g \notin Seen,
           g # Root =>
              \E k \in DOMAIN tree :
                 /\ tree[k].sub /\ tree[k].name = g /\ tree[k].flow \in Seen
                 /\ \A d \in 1..Len(stack) : stack[d].flow = tree[k].flow => k \in stack[d].used
    PROVE  PassInv'
  <1>a. stack \in Seq(Frames) /\ step' = "list"
    BY DEF TypeInv, StackType, Push
  <1>b. PICK n : n = Len(stack)
    OBVIOUS
  <1>c. /\ Frame(g) \in Frames /\ Frame(g).flow = g /\ Frame(g).i = 1
        /\ Frame(g).live = << >> /\ Frame(g).used = {}
    BY FrameOf
  <1>d. PICK fr : fr = Frame(g)
    OBVIOUS
  <1>1. /\ n \in Nat /\ Len(stack') = n + 1 /\ stack'[n + 1] = fr
        /\ \A d \in 1..n : stack'[d] = stack[d]
    <2>1. stack' = Append(stack, fr)
      BY <1>d DEF Push
    <2> QED
      BY <2>1, <1>a, <1>b, <1>c, <1>d
  <1>2. \A d \in 1..(n + 1) : d \in 1..n \/ d = n + 1
    BY <1>1
  <1>3. /\ fr.flow = g /\ fr.i = 1 /\ fr.used = {}
        /\ StepAt(n + 1)' = "list" /\ \A d \in 1..n : StepAt(d)' = StepAt(d) /\ StepAt(d) = "descend"
    <2>1. \A d \in 1..n : d # n + 1 /\ n # 0
      BY <1>1
    <2>2. n # 0 => step = "descend"
      BY <1>b
    <2> QED
      BY <2>1, <2>2, <1>1, <1>a, <1>b, <1>c, <1>d DEF StepAt
  <1>4. StackFlows' = StackFlows \cup {g} /\ Seen' = Seen \cup {g}
    <2>1. StackFlows' = {stack'[d].flow : d \in 1..(n + 1)}
      BY <1>1 DEF StackFlows
    <2>2. StackFlows = {stack[d].flow : d \in 1..n}
      BY <1>b DEF StackFlows
    <2>3. n + 1 \in 1..(n + 1) /\ \A d \in 1..n : d \in 1..(n + 1)
      BY <1>1
    <2>4. StackFlows' = StackFlows \cup {g}
      BY <2>1, <2>2, <2>3, <1>1, <1>2, <1>3
    <2> QED
      BY <2>4 DEF Seen
  <1>5. ASSUME NEW d \in 1..(n + 1)
        PROVE  FrameInv(tree', mine'.flows[stack'[d].flow], stack'[d], StepAt(d)')
    <2>1. CASE d \in 1..n
      BY <2>1, <1>1, <1>3, <1>b DEF PassInv
    <2>2. CASE d = n + 1
      <3>1. \A D : Claims(tree, D, fr, "list")
        BY <1>3 DEF Claims, ClaimedTo, RequiredTo, ConfiguredTo, ClaimSteps
      <3>2. \A D : FrameInv(tree, D, fr, "list")
        BY <3>1, <1>3 DEF FrameInv, ClaimSteps
      <3> QED
        BY <3>2, <2>2, <1>1, <1>3
    <2> QED
      BY <2>1, <2>2, <1>2
  <1>6. FinishedInv
    BY DEF PassInv
  <1>7. HandledAt(n + 1)' = 0 /\ \A d \in 1..n : HandledAt(d)' = HandledAt(d)
    BY <1>1, <1>3 DEF HandledAt, HandledTo
  <1>8. ASSUME NEW d \in 1..(n + 1), NEW j \in 1..HandledAt(d)', mine'.flows[stack'[d].flow][j].sub
        PROVE  mine'.flows[stack'[d].flow][j].name \in finished'
    <2>1. d \in 1..n
      BY <1>2, <1>7
    <2> QED
      BY <2>1, <1>1, <1>6, <1>7, <1>8, <1>b DEF FinishedInv
  <1>9. finished' \cap StackFlows' = {}
    BY <1>4, <1>6 DEF FinishedInv, Seen
  <1>10. ASSUME NEW m \in Seen' \ {Root}
         PROVE  Anchored(m)'
    <2>1. PICK k \in DOMAIN tree :
             /\ tree[k].sub /\ tree[k].name = m /\ tree[k].flow \in Seen
             /\ \A d \in 1..n : stack[d].flow = tree[k].flow => k \in stack[d].used
      <3>1. CASE m = g
        BY <3>1, <1>10, <1>b
      <3>2. CASE m # g
        <4>1. Anchored(m)
          BY <3>2, <1>4, <1>6 DEF FinishedInv
        <4> QED
          BY <4>1, <1>3, <1>b DEF Anchored
      <3> QED
        BY <3>1, <3>2
    <2>2. \A d \in 1..Len(stack') :
             stack'[d].flow = tree'[k].flow /\ StepAt(d)' # "reorder" => k \in stack'[d].used
      BY <2>1, <1>1, <1>2, <1>3
    <2> QED
      BY <2>1, <2>2, <1>4 DEF Anchored
  <1>11. ASSUME NEW m \in finished' \ {Root}
         PROVE  Handled(m)'
    <2>1. Handled(m)
      BY <1>6 DEF FinishedInv
    <2>2. PICK p \in Seen : p \in DOMAIN mine.flows /\ \E j \in 1..Len(mine.flows[p]) :
             /\ mine.flows[p][j].sub /\ mine.flows[p][j].name = m
             /\ \A d \in 1..Len(stack) : stack[d].flow = p => j <= HandledAt(d)
      BY <2>1 DEF Handled
    <2>3. PICK j \in 1..Len(mine.flows[p]) :
             /\ mine.flows[p][j].sub /\ mine.flows[p][j].name = m
             /\ \A d \in 1..Len(stack) : stack[d].flow = p => j <= HandledAt(d)
      BY <2>2
    <2>4. ASSUME NEW d \in 1..Len(stack'), stack'[d].flow = p
          PROVE  j <= HandledAt(d)'
      <3>1. d \in 1..n /\ stack[d].flow = p
        BY <2>4, <2>2, <1>1, <1>2, <1>3
      <3> QED
        BY <3>1, <2>3, <1>7, <1>b
    <2> QED
      BY <2>2, <2>3, <2>4, <1>4 DEF Handled
  <1>12. \A f \in finished' : /\ Mirrored(tree', mine'.flows[f], f)
                              /\ \A j \in 1..Len(mine'.flows[f]) :
                                    mine'.flows[f][j].sub => mine'.flows[f][j].name \in finished'
    BY <1>6 DEF FinishedInv
  <1>13. FinishedInv'
    BY <1>1, <1>8, <1>9, <1>10, <1>11, <1>12, <1>a DEF FinishedInv
  <1> QED
    BY <1>1, <1>5, <1>13 DEF PassInv

LEMMA PushAlias ==
    ASSUME TypeInv, AliasInv, NEW g \in STRING, Push(g), tree' = tree, mine' = mine,
           stack = << >> \/ step = "descend"
    PROVE  AliasInv'
  <1>a. stack \in Seq(Frames) /\ step' = "list"
    BY DEF TypeInv, StackType, Push
  <1>b. PICK n : n = Len(stack)
    OBVIOUS
  <1>c. Frame(g) \in Frames /\ Frame(g).live = << >>
    BY FrameOf
  <1>d. PICK fr : fr = Frame(g)
    OBVIOUS
  <1>1. /\ n \in Nat /\ Len(stack') = n + 1 /\ stack'[n + 1] = fr
        /\ \A d \in 1..n : stack'[d] = stack[d]
    <2>1. stack' = Append(stack, fr)
      BY <1>d DEF Push
    <2> QED
      BY <2>1, <1>a, <1>b, <1>c, <1>d
  <1>2. StepAt(n + 1)' = "list" /\ \A d \in 1..n : StepAt(d)' = StepAt(d)
    <2>1. \A d \in 1..n : d # n + 1 /\ n # 0
      BY <1>1
    <2>2. n # 0 => step = "descend"
      BY <1>b
    <2> QED
      BY <2>1, <2>2, <1>1, <1>a, <1>b DEF StepAt
  <1>3. ASSUME NEW d \in 1..Len(stack')
        PROVE  /\ \A k \in DOMAIN stack'[d].live : GoodAlias(stack'[d].live[k].rep)
               /\ StepAt(d)' \in ClaimSteps =>
                     stack'[d].live[stack'[d].cur].rep.name
                       = mine'.flows[stack'[d].flow][stack'[d].i].name
    <2>1. CASE d \in 1..n
      BY <2>1, <1>1, <1>2, <1>b DEF AliasInv
    <2>2. CASE d = n + 1
      BY <2>2, <1>1, <1>2, <1>c, <1>d DEF ClaimSteps
    <2> QED
      BY <2>1, <2>2, <1>1
  <1> QED
    BY <1>3 DEF AliasInv

LEMMA EnsureRootFlowPass ==
    ASSUME Clear, ensureRootFlow
    PROVE  AliasInv' /\ (Clean => PassInv')
  <1> USE DEF Clear
  <1>1. /\ step = "ensureRootFlow" /\ Push(Root) /\ tree' = tree /\ mine' = mine
        /\ finished' = finished
    BY DEF ensureRootFlow
  <1>2. stack = << >> /\ finished = {} /\ Root \in STRING
    BY <1>1, SpecFacts DEF TypeInv, StateType
  <1>3. Seen = {}
    BY <1>2 DEF Seen, StackFlows
  <1>4. AliasInv'
    BY <1>1, <1>2, PushAlias
  <1>5. ASSUME Clean PROVE PassInv'
    BY <1>1, <1>2, <1>3, <1>5, PushPass DEF Clean
  <1> QED
    BY <1>4, <1>5

LEMMA SubflowOnce ==
    ASSUME NEW s, NoTwins(s), NEW f \in DOMAIN s.flows, NEW g \in DOMAIN s.flows,
           NEW j \in 1..Len(s.flows[f]), NEW k \in 1..Len(s.flows[g]),
           s.flows[f][j].sub, s.flows[g][k].sub, s.flows[f][j].name = s.flows[g][k].name
    PROVE  f = g /\ j = k
  BY DEF NoTwins

\* The subflow in hand has not been entered yet.
LEMMA DescendUnseen ==
    ASSUME Clear, Clean, step = "descend"
    PROVE  Want.name \notin Seen
  <1> USE DEF Clear, Clean
  <1>a. step \in EntrySteps /\ step \in WorkSteps
    BY WorkStepNames DEF EntrySteps, ClaimSteps
  <1>b. AtWork
    BY <1>a, TopFacts
  <1>c. PICK n : n = Len(stack)
    OBVIOUS
  <1>1. /\ n \in 1..n /\ n \in Nat /\ Top = stack[n] /\ StepAt(n) = "descend"
        /\ Top.i \in 1..Len(Desired) /\ Top.flow \in DOMAIN mine.flows /\ mine \in Specs
    BY <1>a, <1>b, <1>c DEF AtWork, Top, StepAt
  <1>2. Want.sub /\ Want = mine.flows[Top.flow][Top.i] /\ Top.i \in 1..Len(mine.flows[Top.flow])
    BY <1>1, <1>b DEF AtWork, FrameType, Want, Desired
  <1>3. Want.name \in DOMAIN mine.flows /\ Want.name # Root
    BY <1>2, <1>a, WantFacts
  <1>4. Want.name \notin finished
    <2> SUFFICES ASSUME Want.name \in finished PROVE FALSE
      OBVIOUS
    <2>1. Handled(Want.name)
      BY <1>3 DEF PassInv, FinishedInv
    <2>2. PICK p \in Seen : p \in DOMAIN mine.flows /\ \E j \in 1..Len(mine.flows[p]) :
             /\ mine.flows[p][j].sub /\ mine.flows[p][j].name = Want.name
             /\ \A d \in 1..Len(stack) : stack[d].flow = p => j <= HandledAt(d)
      BY <2>1 DEF Handled
    <2>3. PICK j \in 1..Len(mine.flows[p]) :
             /\ mine.flows[p][j].sub /\ mine.flows[p][j].name = Want.name
             /\ \A d \in 1..Len(stack) : stack[d].flow = p => j <= HandledAt(d)
      BY <2>2
    <2>4. p = Top.flow /\ j = Top.i
      <3>1. PICK s, f, i : s = mine /\ f = Top.flow /\ i = Top.i
        OBVIOUS
      <3>2. /\ NoTwins(s) /\ f \in DOMAIN s.flows /\ i \in 1..Len(s.flows[f]) /\ s.flows[f][i].sub
            /\ p \in DOMAIN s.flows /\ j \in 1..Len(s.flows[p]) /\ s.flows[p][j].sub
            /\ s.flows[p][j].name = s.flows[f][i].name
        BY <3>1, <2>2, <2>3, <1>1, <1>2
      <3>3. p = f /\ j = i
        BY <3>2, SubflowOnce
      <3> QED
        BY <3>1, <3>3
    <2>5. Top.i <= HandledAt(n)
      BY <2>3, <2>4, <1>1, <1>c
    <2>6. HandledAt(n) = Top.i - 1
      BY <1>1 DEF HandledAt, HandledTo
    <2> QED
      BY <2>5, <2>6, <1>1
  <1>5. Want.name \notin StackFlows
    <2> SUFFICES ASSUME NEW d \in 1..n, stack[d].flow = Want.name PROVE FALSE
      BY <1>c DEF StackFlows
    <2>1. Level(mine) \in [DOMAIN mine.flows -> 1..Levels] /\ Deeper(mine, Level(mine))
      BY <1>1, SpecFacts
    <2>2. Level(mine)[Top.flow] < Level(mine)[Want.name]
      BY <2>1, <1>1, <1>2 DEF Deeper
    <2>3. d # n => Level(mine)[stack[d].flow] < Level(mine)[Top.flow]
      <3>1. d # n => d < n
        BY <1>1
      <3> QED
        BY <3>1, <1>1, <1>c DEF TypeInv, StackType
    <2>4. Level(mine)[Top.flow] \in Nat /\ Level(mine)[Want.name] \in Nat
      BY <2>1, <1>1, <1>3
    <2> QED
      BY <2>2, <2>3, <2>4, <1>1
  <1> QED
    BY <1>4, <1>5 DEF Seen

LEMMA DescendPass ==
    ASSUME Clear, Descend
    PROVE  AliasInv' /\ (Clean => PassInv')
  <1> USE DEF Clear
  <1>a. step = "descend" /\ step \in EntrySteps /\ step \in ClaimSteps /\ step \in WorkSteps
    BY WorkStepNames DEF Descend, EntrySteps, ClaimSteps
  <1>b. AtWork
    BY <1>a, TopFacts
  <1>1. CASE Fail
    BY <1>1, FinishPass DEF Fail
  <1>2. CASE /\ Current \in DOMAIN tree /\ Push(Want.name)
             /\ UNCHANGED <<tree, mine, finished>>
    <2>1. Want.name \in STRING
      BY <1>a, WantFacts
    <2>2. AliasInv'
      BY <2>1, <1>2, <1>a, PushAlias
    <2>3. ASSUME Clean PROVE PassInv'
      <3>1. Want.name \notin Seen
        BY <2>3, <1>a, DescendUnseen
      <3>2. FrameInv(tree, Desired, Top, step)
        BY <2>3, <1>b, PassOfTop DEF Clean
      <3>3. Current \in Top.used /\ Alike(tree[Current], Want)
        BY <3>2, <1>a, OnlyCurrent DEF Current, Want
      <3>4. tree[Current].flow = Top.flow /\ Want.sub
        BY <1>2, <1>a, <1>b, CurrentFacts DEF AtWork, FrameType, Want
      <3>5. tree[Current].sub /\ tree[Current].name = Want.name
        BY <3>3, <3>4 DEF Alike
      <3>6. Len(stack) \in 1..Len(stack) /\ Top = stack[Len(stack)]
        BY <1>b DEF AtWork, Top
      <3>7. Top.flow \in Seen
        BY <3>6 DEF Seen, StackFlows
      <3>8. \A d \in 1..Len(stack) : stack[d].flow = tree[Current].flow => Current \in stack[d].used
        BY <3>3, <3>4, <3>6, StackDistinct
      <3>9. \E k \in DOMAIN tree :
               /\ tree[k].sub /\ tree[k].name = Want.name /\ tree[k].flow \in Seen
               /\ \A d \in 1..Len(stack) : stack[d].flow = tree[k].flow => k \in stack[d].used
        BY <3>4, <3>5, <3>7, <3>8, <1>2, Zenon
      <3> QED
        BY <3>1, <3>9, <2>1, <2>3, <1>2, <1>a, PushPass DEF Clean
    <2> QED
      BY <2>2, <2>3
  <1> QED
    BY <1>1, <1>2 DEF Descend, OnCurrent

\* The flow that is left is as declared, and so are the subflows it declares.
LEMMA LeavingMirrored ==
    ASSUME TypeInv, PassInv, step = "reorder", Top.i = Len(Desired) + 1
    PROVE  /\ Mirrored(tree, Desired, Top.flow)
           /\ \A j \in 1..Len(Desired) : Desired[j].sub => Desired[j].name \in finished
  <1>a. AtWork
    BY WorkStepNames, TopFacts
  <1>1. FrameInv(tree, Desired, Top, "reorder") /\ Len(Desired) \in Nat
    BY <1>a, PassOfTop DEF AtWork
  <1>2. Paired(tree, Desired, Top.flow) /\ Placed(tree, Desired, Top.flow, Top.i - 1)
    BY <1>1 DEF FrameInv, Ordering
  <1>3. Mirrored(tree, Desired, Top.flow)
    BY <1>1, <1>2 DEF Mirrored
  <1>4. Len(stack) \in 1..Len(stack) /\ Top = stack[Len(stack)] /\ StepAt(Len(stack)) = "reorder"
    BY <1>a DEF AtWork, Top, StepAt
  <1>5. HandledAt(Len(stack)) = Len(Desired)
    BY <1>4 DEF HandledAt, HandledTo, Desired
  <1>6. \A j \in 1..HandledAt(Len(stack)) :
           mine.flows[stack[Len(stack)].flow][j].sub => mine.flows[stack[Len(stack)].flow][j].name \in finished
    BY <1>4 DEF PassInv, FinishedInv
  <1> QED
    BY <1>3, <1>4, <1>5, <1>6 DEF Desired

LEMMA ReturnLastPass ==
    ASSUME Clear, Clean, step = "reorder", Top.i = Len(Desired) + 1, Return, Len(stack) = 1,
           UNCHANGED <<tree, mine>>
    PROVE  PassInv'
  <1> USE DEF Clear, Clean
  <1>a. AtWork
    BY WorkStepNames, TopFacts
  <1>1. stack' = << >> /\ step' = "bind" /\ finished' = finished \cup {Top.flow} /\ Len(stack') = 0
    BY DEF Return
  <1>2. Top = stack[1] /\ Top.flow = Root
    BY <1>a DEF Top, TypeInv, StackType
  <1>3. FinishedInv
    BY DEF PassInv
  <1>4. StackFlows = {Root} /\ StackFlows' = {} /\ Seen' = Seen
    <2>1. StackFlows = {Root}
      BY <1>2 DEF StackFlows
    <2>2. StackFlows' = {}
      BY <1>1 DEF StackFlows
    <2> QED
      BY <2>1, <2>2, <1>1, <1>2 DEF Seen
  <1>5. \A f \in finished' : /\ Mirrored(tree', mine'.flows[f], f)
                             /\ \A j \in 1..Len(mine'.flows[f]) :
                                   mine'.flows[f][j].sub => mine'.flows[f][j].name \in finished'
    <2>1. \A f \in finished : /\ Mirrored(tree, mine.flows[f], f)
                              /\ \A j \in 1..Len(mine.flows[f]) :
                                    mine.flows[f][j].sub => mine.flows[f][j].name \in finished
      BY <1>3 DEF FinishedInv
    <2>2. /\ Mirrored(tree, mine.flows[Top.flow], Top.flow)
          /\ \A j \in 1..Len(mine.flows[Top.flow]) :
                mine.flows[Top.flow][j].sub => mine.flows[Top.flow][j].name \in finished
      BY LeavingMirrored DEF Desired
    <2> QED
      BY <2>1, <2>2, <1>1
  <1>6. ASSUME NEW m \in Seen' \ {Root} PROVE Anchored(m)'
    <2>1. Anchored(m)
      BY <1>3, <1>4 DEF FinishedInv
    <2> QED
      BY <2>1, <1>1, <1>4 DEF Anchored
  <1>7. ASSUME NEW m \in finished' \ {Root} PROVE Handled(m)'
    <2>1. Handled(m)
      BY <1>1, <1>2, <1>3 DEF FinishedInv
    <2> QED
      BY <2>1, <1>1, <1>4 DEF Handled
  <1>8. FinishedInv'
    BY <1>1, <1>2, <1>4, <1>5, <1>6, <1>7 DEF FinishedInv
  <1> QED
    BY <1>1, <1>8 DEF PassInv

LEMMA ReturnUpPass ==
    ASSUME Clear, Clean, step = "reorder", Top.i = Len(Desired) + 1, Return, Len(stack) # 1,
           UNCHANGED <<tree, mine>>
    PROVE  PassInv'
  <1> USE DEF Clear, Clean
  <1>a. AtWork
    BY WorkStepNames, TopFacts
  <1>b. PICK m : m = Len(stack) - 1
    OBVIOUS
  <1>1. /\ m \in Nat \ {0} /\ m \in 1..m /\ Len(stack) = m + 1 /\ Top = stack[m + 1]
        /\ \A d \in 1..(m + 1) : d \in 1..m \/ d = m + 1
        /\ \A d \in 1..m : d \in 1..(m + 1) /\ (d # m => d \in 1..(m - 1))
    <2>1. Len(stack) \in Nat /\ Len(stack) # 0 /\ Len(stack) # 1
      BY <1>a DEF AtWork
    <2>2. m \in Nat \ {0} /\ Len(stack) = m + 1
      BY <2>1, <1>b
    <2>3. Top = stack[m + 1]
      BY <2>2 DEF Top
    <2>4. \A d \in 1..(m + 1) : d \in 1..m \/ d = m + 1
      BY <2>2
    <2>5. \A d \in 1..m : d \in 1..(m + 1) /\ (d # m => d \in 1..(m - 1))
      BY <2>2
    <2> QED
      BY <2>2, <2>3, <2>4, <2>5
  <1>c. PICK up : up = stack[m]
    OBVIOUS
  <1>2. PICK fr : FrameIs(fr, up.flow, up.i + 1, up.live, up.used, 0) /\ PopsTo(fr)
    BY <1>b, <1>c, ReturnPops
  <1>3. /\ fr.flow = up.flow /\ fr.i = up.i + 1 /\ fr.live = up.live /\ fr.used = up.used
        /\ Len(stack') = m /\ stack'[m] = fr
        /\ \A d \in 1..m : d # m => stack'[d] = stack[d]
    BY <1>1, <1>2, <1>b DEF FrameIs, PopsTo
  <1>4. /\ step' = "want" /\ finished' = finished \cup {Top.flow}
        /\ StepAt(m)' = "want"
        /\ \A d \in 1..m : StepAt(d) = "descend" /\ (d # m => StepAt(d)' = "descend")
        /\ StepAt(m + 1) = "reorder"
    BY <1>1, <1>3, <1>b DEF Return, StepAt
  <1>5. \A d \in 1..m : stack'[d].flow = stack[d].flow /\ stack'[d].used = stack[d].used
    BY <1>3, <1>c
  <1>6. StackFlows = StackFlows' \cup {Top.flow} /\ Top.flow \notin StackFlows' /\ Seen' = Seen
    <2>1. StackFlows = {stack[d].flow : d \in 1..(m + 1)} /\ StackFlows' = {stack'[d].flow : d \in 1..m}
      BY <1>1, <1>3 DEF StackFlows
    <2>2. m + 1 \in 1..(m + 1)
      BY <1>1
    <2>3. StackFlows = StackFlows' \cup {Top.flow}
      BY <2>1, <2>2, <1>1, <1>5
    <2>4. \A d \in 1..m : stack[d].flow # Top.flow
      <3>1. \A d \in 1..m : d # m + 1
        BY <1>1
      <3> QED
        BY <3>1, <2>2, <1>1, StackDistinct
    <2> QED
      BY <2>1, <2>3, <2>4, <1>4, <1>5 DEF Seen
  <1>7. /\ up.flow \in DOMAIN mine.flows /\ mine \in Specs
        /\ FrameType(tree, mine.flows[up.flow], up, "descend")
        /\ FrameInv(tree, mine.flows[up.flow], up, "descend")
    BY <1>1, <1>4, <1>c DEF TypeInv, StateType, StackType, PassInv
  <1>d. PICK D : D = mine.flows[up.flow]
    OBVIOUS
  <1>8. Distinct(D) /\ Len(D) \in Nat /\ up.i \in 1..Len(D)
    <2>1. Distinct(D) /\ Len(D) \in Nat
      BY <1>7, <1>d, TwinFree, SpecFacts
    <2> QED
      BY <2>1, <1>7, <1>d DEF FrameType, EntrySteps, ClaimSteps
  <1>9. FrameInv(tree, D, fr, "want")
    <2>1. Claims(tree, D, up, "descend") /\ FrameInv(tree, D, up, "descend")
      BY <1>7, <1>d DEF FrameInv
    <2>2. up.i \in 1..RequiredTo(up, "descend") /\ up.i \in 1..ConfiguredTo(up, "descend")
      BY <1>8 DEF RequiredTo, ConfiguredTo, ClaimSteps
    <2>3. \A i \in up.used : Alike(tree[i], D[up.i]) => Required(tree[i], D[up.i]) /\ Configured(tree[i], D[up.i])
      BY <2>1, <2>2 DEF Claims
    <2>4. "descend" \in ClaimSteps
      BY DEF ClaimSteps
    <2> QED
      BY <2>1, <2>3, <2>4, <1>3, <1>8, NextFrame
  <1>10. ASSUME NEW d \in 1..m
         PROVE  FrameInv(tree', mine'.flows[stack'[d].flow], stack'[d], StepAt(d)')
    <2>1. CASE d = m
      BY <2>1, <1>3, <1>4, <1>9, <1>d
    <2>2. CASE d # m
      BY <2>2, <1>1, <1>3, <1>4 DEF PassInv
    <2> QED
      BY <2>1, <2>2
  <1>11. FinishedInv
    BY DEF PassInv
  <1>12. \A f \in finished' : /\ Mirrored(tree', mine'.flows[f], f)
                              /\ \A j \in 1..Len(mine'.flows[f]) :
                                    mine'.flows[f][j].sub => mine'.flows[f][j].name \in finished'
    <2>1. \A f \in finished : /\ Mirrored(tree, mine.flows[f], f)
                              /\ \A j \in 1..Len(mine.flows[f]) :
                                    mine.flows[f][j].sub => mine.flows[f][j].name \in finished
      BY <1>11 DEF FinishedInv
    <2>2. /\ Mirrored(tree, mine.flows[Top.flow], Top.flow)
          /\ \A j \in 1..Len(mine.flows[Top.flow]) :
                mine.flows[Top.flow][j].sub => mine.flows[Top.flow][j].name \in finished
      BY LeavingMirrored DEF Desired
    <2> QED
      BY <2>1, <2>2, <1>4
  <1>13. D[up.i].sub /\ D[up.i].name = Top.flow
    <2>1. m + 1 \in 2..Len(stack) /\ (m + 1) - 1 = m
      BY <1>1
    <2>2. \A d \in 2..Len(stack) :
             LET above == mine.flows[stack[d - 1].flow][stack[d - 1].i]
             IN above.sub /\ above.name = stack[d].flow
      BY DEF TypeInv, StackType
    <2> QED
      BY <2>1, <2>2, <1>1, <1>c, <1>d
  <1>14. /\ HandledAt(m)' = up.i /\ HandledAt(m) = up.i - 1
         /\ \A d \in 1..m : d # m => HandledAt(d)' = HandledAt(d)
    <2>1. HandledAt(m)' = fr.i - 1
      BY <1>3, <1>4 DEF HandledAt, HandledTo
    <2>2. HandledAt(m) = up.i - 1
      BY <1>1, <1>4, <1>c DEF HandledAt, HandledTo
    <2>3. \A d \in 1..m : d # m => HandledAt(d)' = HandledAt(d)
      BY <1>3, <1>4 DEF HandledAt
    <2> QED
      BY <2>1, <2>2, <2>3, <1>3, <1>8
  <1>15. ASSUME NEW d \in 1..m, NEW j \in 1..HandledAt(d)', mine'.flows[stack'[d].flow][j].sub
         PROVE  mine'.flows[stack'[d].flow][j].name \in finished'
    <2>1. CASE d = m /\ j = up.i
      BY <2>1, <1>3, <1>4, <1>13, <1>d
    <2>2. CASE ~(d = m /\ j = up.i)
      <3>1. j \in 1..HandledAt(d)
        BY <2>2, <1>8, <1>14
      <3>2. d \in 1..Len(stack) /\ mine.flows[stack[d].flow][j].sub
        BY <1>1, <1>5, <1>15
      <3>3. mine.flows[stack[d].flow][j].name \in finished
        BY <3>1, <3>2, <1>11 DEF FinishedInv
      <3> QED
        BY <3>3, <1>4, <1>5
    <2> QED
      BY <2>1, <2>2
  <1>16. finished' \cap StackFlows' = {}
    BY <1>4, <1>6, <1>11 DEF FinishedInv
  <1>17. ASSUME NEW a \in Seen' \ {Root} PROVE Anchored(a)'
    <2>1. Anchored(a)
      BY <1>6, <1>11 DEF FinishedInv
    <2>2. PICK k \in DOMAIN tree :
             /\ tree[k].sub /\ tree[k].name = a /\ tree[k].flow \in Seen
             /\ \A d \in 1..Len(stack) :
                   stack[d].flow = tree[k].flow /\ StepAt(d) # "reorder" => k \in stack[d].used
      BY <2>1 DEF Anchored
    <2>3. \A d \in 1..Len(stack') :
             stack'[d].flow = tree'[k].flow /\ StepAt(d)' # "reorder" => k \in stack'[d].used
      BY <2>2, <1>1, <1>3, <1>4, <1>5
    <2> QED
      BY <2>2, <2>3, <1>6 DEF Anchored
  <1>18. ASSUME NEW a \in finished' \ {Root} PROVE Handled(a)'
    <2>1. CASE a = Top.flow
      <3>1. up.flow \in Seen'
        BY <1>1, <1>6, <1>c DEF Seen, StackFlows
      <3>2. ASSUME NEW d \in 1..Len(stack'), stack'[d].flow = up.flow PROVE up.i <= HandledAt(d)'
        <4>1. d \in 1..m /\ stack[d].flow = stack[m].flow /\ d \in 1..Len(stack) /\ m \in 1..Len(stack)
          BY <3>2, <1>1, <1>3, <1>5, <1>c
        <4>2. d = m
          BY <4>1, StackDistinct
        <4> QED
          BY <4>2, <1>8, <1>14
      <3> QED
        BY <2>1, <3>1, <3>2, <1>7, <1>8, <1>13, <1>d DEF Handled
    <2>2. CASE a # Top.flow
      <3>1. Handled(a)
        BY <2>2, <1>4, <1>11 DEF FinishedInv
      <3>2. PICK p \in Seen : p \in DOMAIN mine.flows /\ \E j \in 1..Len(mine.flows[p]) :
               /\ mine.flows[p][j].sub /\ mine.flows[p][j].name = a
               /\ \A d \in 1..Len(stack) : stack[d].flow = p => j <= HandledAt(d)
        BY <3>1 DEF Handled
      <3>3. PICK j \in 1..Len(mine.flows[p]) :
               /\ mine.flows[p][j].sub /\ mine.flows[p][j].name = a
               /\ \A d \in 1..Len(stack) : stack[d].flow = p => j <= HandledAt(d)
        BY <3>2
      <3>4. ASSUME NEW d \in 1..Len(stack'), stack'[d].flow = p PROVE j <= HandledAt(d)'
        <4>1. d \in 1..m /\ j <= HandledAt(d)
          BY <3>3, <3>4, <1>1, <1>3, <1>5
        <4>2. CASE d = m
          BY <4>1, <4>2, <1>8, <1>14
        <4>3. CASE d # m
          BY <4>1, <4>3, <1>14
        <4> QED
          BY <4>2, <4>3
      <3> QED
        BY <3>2, <3>3, <3>4, <1>6 DEF Handled
    <2> QED
      BY <2>1, <2>2
  <1>19. FinishedInv'
    BY <1>3, <1>4, <1>12, <1>15, <1>16, <1>17, <1>18 DEF FinishedInv
  <1> QED
    BY <1>3, <1>10, <1>19 DEF PassInv

LEMMA ReturnAlias ==
    ASSUME Clear, step = "reorder", Return, UNCHANGED <<tree, mine>>
    PROVE  AliasInv'
  <1> USE DEF Clear
  <1>a. AtWork
    BY WorkStepNames, TopFacts
  <1>0. CASE Len(stack) = 1
    <2>1. Len(stack') = 0
      BY <1>0 DEF Return
    <2> QED
      BY <2>1 DEF AliasInv
  <1>9. CASE Len(stack) # 1
    <2>b. PICK m : m = Len(stack) - 1
      OBVIOUS
    <2>1. m \in Nat \ {0} /\ \A d \in 1..m : d \in 1..Len(stack)
      BY <1>9, <1>a, <2>b DEF AtWork
    <2>c. PICK up : up = stack[m]
      OBVIOUS
    <2>2. PICK fr : FrameIs(fr, up.flow, up.i + 1, up.live, up.used, 0) /\ PopsTo(fr)
      BY <1>9, <2>b, <2>c, ReturnPops
    <2>3. /\ fr.live = up.live /\ Len(stack') = m /\ stack'[m] = fr /\ step' = "want"
          /\ \A d \in 1..m : d # m => stack'[d] = stack[d]
      BY <1>9, <2>1, <2>2, <2>b DEF FrameIs, PopsTo, Return
    <2>4. StepAt(m)' = "want" /\ \A d \in 1..m : StepAt(d) = "descend" /\ (d # m => StepAt(d)' = "descend")
      BY <2>1, <2>3, <2>b DEF StepAt
    <2>5. ASSUME NEW d \in 1..Len(stack')
          PROVE  /\ \A k \in DOMAIN stack'[d].live : GoodAlias(stack'[d].live[k].rep)
                 /\ StepAt(d)' \in ClaimSteps =>
                       stack'[d].live[stack'[d].cur].rep.name
                         = mine'.flows[stack'[d].flow][stack'[d].i].name
      <3>1. d \in 1..m /\ d \in 1..Len(stack)
        BY <2>1, <2>3
      <3>2. CASE d = m
        BY <3>1, <3>2, <2>3, <2>4, <2>c DEF AliasInv, ClaimSteps
      <3>3. CASE d # m
        BY <3>1, <3>3, <2>3, <2>4 DEF AliasInv
      <3> QED
        BY <3>2, <3>3
    <2> QED
      BY <2>5 DEF AliasInv
  <1> QED
    BY <1>0, <1>9

LEMMA ReorderPass ==
    ASSUME Clear, reconcileExecutionOrder
    PROVE  AliasInv' /\ (Clean => PassInv')
  <1> USE DEF Clear
  <1>a. step = "reorder"
    BY ReorderShape
  <1>b. AtWork
    BY <1>a, WorkStepNames, TopFacts
  <1>1. CASE Fail
    BY <1>1, FinishPass DEF Fail
  <1>2. CASE Top.i = Len(Desired) + 1 /\ Return /\ tree' = tree /\ mine' = mine
    BY <1>2, <1>a, ReturnAlias, ReturnLastPass, ReturnUpPass
  <1>3. ASSUME Top.i \in 1..Len(Desired), Answers(Top.live, Want, Top.used, 0),
               step' = "reorder", tree' = tree, NEW fr, Within(fr),
               FrameIs(fr, Top.flow, Top.i + 1, Top.live, Top.used, Top.cur)
        PROVE  AliasInv' /\ (Clean => PassInv')
    <2>1. AliasInv'
      BY <1>3, <1>b, AliasOfTop, AliasTop DEF ClaimSteps, FrameIs
    <2>2. ASSUME Clean PROVE FALSE
      <3>1. FrameInv(tree, Desired, Top, "reorder") /\ Distinct(Desired) /\ Len(Desired) \in Nat
        BY <2>2, <1>a, <1>b, PassOfTop, TopDistinct DEF Clean, AtWork
      <3>2. \E k \in DOMAIN Top.live : Top.live[k].id \notin Top.used /\ Alike(Top.live[k].rep, Desired[Top.i])
        BY <3>1, <1>3, PlaceFound
      <3> QED
        BY <3>2, <1>3 DEF Answers, Want
    <2> QED
      BY <2>1, <2>2
  <1>4. ASSUME NEW k, NEW fr, Top.i \in 1..Len(Desired), k # 0, Answers(Top.live, Want, Top.used, k),
               step' = "reorder", Within(fr),
               FrameIs(fr, Top.flow, Top.i + 1, Top.live, Top.used \cup {Top.live[k].id}, Top.cur),
               \/ tree' = tree /\ Top.live[k].rep.prio = Top.i - 1
               \/ /\ Top.live[k].id \in DOMAIN tree
                  /\ Changed(tree, tree', Top.live[k].id, Top.live[k].rep.req,
                             tree[Top.live[k].id].cfg, Top.i - 1)
        PROVE  AliasInv' /\ (Clean => PassInv')
    BY <1>4, <1>a, ReorderWithin
  <1> QED
    BY <1>1, <1>2, <1>3, <1>4, ReorderShape

\* A pass that has entered no flow yet.
LEMMA NoFlowPass ==
    ASSUME stack' = << >>, finished' = {}, step' \notin {"bind", "updateRealm"}
    PROVE  PassInv'
  <1>1. Len(stack') = 0 /\ StackFlows' = {}
    BY DEF StackFlows
  <1>2. Seen' = {}
    BY <1>1 DEF Seen
  <1>3. FinishedInv'
    BY <1>1, <1>2 DEF FinishedInv
  <1> QED
    BY <1>1, <1>3 DEF PassInv

LEMMA ReconcileFlowPass ==
    ASSUME TypeInv, ReconcileFlow
    PROVE  (AliasInv => AliasInv') /\ PassInv'
  <1>1. /\ step = "idle" /\ step' = "ensureRootFlow" /\ tree' = tree /\ stack' = stack
        /\ finished' = finished
    BY DEF ReconcileFlow
  <1>2. stack' = << >> /\ finished' = {} /\ Len(stack') = 0
    BY <1>1 DEF TypeInv, StateType
  <1>3. AliasInv => AliasInv'
    BY <1>1, <1>2 DEF AliasInv
  <1> QED
    BY <1>1, <1>2, <1>3, NoFlowPass

LEMMA GetBoundRealmPass ==
    ASSUME Clear, GetBoundRealm
    PROVE  AliasInv' /\ (Clean => PassInv')
  <1> USE DEF Clear
  <1>1. CASE Finish
    BY <1>1, FinishPass DEF GetBoundRealm
  <1>2. CASE step' = "updateRealm" /\ UNCHANGED <<stack, finished>>
    <2>1. step = "bind" /\ tree' = tree /\ mine' = mine
      BY DEF GetBoundRealm
    <2>2. stack = << >> /\ Len(stack) = 0 /\ Len(stack') = 0
      BY <2>1, <1>2 DEF TypeInv, StateType
    <2>3. AliasInv'
      BY <2>1, <2>2 DEF AliasInv
    <2>4. ASSUME Clean PROVE PassInv'
      <3>1. FinishedInv
        BY <2>4 DEF Clean, PassInv
      <3>2. StackFlows = {} /\ StackFlows' = {}
        BY <2>2 DEF StackFlows
      <3>3. Seen' = Seen
        BY <3>2, <1>2 DEF Seen
      <3>4. \A m : Anchored(m) => Anchored(m)'
        BY <2>1, <2>2, <3>3 DEF Anchored
      <3>5. \A m : Handled(m) => Handled(m)'
        BY <2>1, <2>2, <3>3 DEF Handled
      <3>6. FinishedInv'
        BY <3>1, <3>2, <3>3, <3>4, <3>5, <2>1, <2>2, <1>2 DEF FinishedInv
      <3> QED
        BY <3>6, <2>2 DEF PassInv
    <2> QED
      BY <2>3, <2>4
  <1> QED
    BY <1>1, <1>2 DEF GetBoundRealm

LEMMA FlowStepPass ==
    ASSUME Inv, FlowStep
    PROVE  Inv'
  <1>a. TypeInv /\ TypeInv' /\ (AliasesTell' <=> AliasesTell)
    BY FlowStepType DEF Inv, AliasesTell
  <1>b. SUFFICES ASSUME AliasesTell
                 PROVE  AliasInv' /\ (clean' /\ NoTwins(mine') => PassInv')
    BY <1>a DEF Inv, NoTwins
  <1>c. Clear
    BY <1>a, <1>b DEF Inv, Clear
  <1>d. clean /\ NoTwins(mine) => Clean
    BY <1>b DEF Inv, Clean
  <1>1. CASE ReconcileFlow
    BY <1>1, <1>c, ReconcileFlowPass DEF Clear
  <1>2. ASSUME clean' = clean, mine' = mine, AliasInv' /\ (Clean => PassInv')
        PROVE  AliasInv' /\ (clean' /\ NoTwins(mine') => PassInv')
    BY <1>2, <1>d
  <1>3. CASE ensureRootFlow
    BY <1>3, <1>2, <1>c, EnsureRootFlowPass DEF ensureRootFlow
  <1>4. CASE List
    BY <1>4, <1>2, <1>c, ListPass DEF List
  <1>5. CASE Match
    BY <1>5, <1>2, <1>c, MatchPass DEF Match
  <1>6. CASE Create
    BY <1>6, <1>2, <1>c, CreatePass DEF Create
  <1>7. CASE Relist
    BY <1>7, <1>2, <1>c, RelistPass DEF Relist
  <1>8. CASE UpdateExecutionRequirement
    BY <1>8, <1>2, <1>c, RequirementPass DEF UpdateExecutionRequirement, OnCurrent
  <1>9. CASE Descend
    BY <1>9, <1>2, <1>c, DescendPass DEF Descend, OnCurrent
  <1>10. CASE reconcileAuthenticatorConfig
    BY <1>10, <1>2, <1>c, ReconcileConfigPass DEF reconcileAuthenticatorConfig
  <1>11. CASE WriteAuthenticatorConfig
    BY <1>11, <1>2, <1>c, WriteConfigPass DEF WriteAuthenticatorConfig
  <1>12. CASE Proceed
    BY <1>12, <1>2, <1>c, ProceedPass DEF Proceed
  <1>13. CASE Prune
    BY <1>13, <1>2, <1>c, PrunePass DEF Prune
  <1>14. CASE DeleteExecution
    BY <1>14, <1>2, <1>c, DeletePass DEF DeleteExecution
  <1>15. CASE Order
    BY <1>15, <1>2, <1>c, OrderPass DEF Order
  <1>16. CASE reconcileExecutionOrder
    <2>1. clean' = clean /\ mine' = mine
      BY <1>16 DEF reconcileExecutionOrder
    <2> QED
      BY <2>1, <1>16, <1>2, <1>c, ReorderPass
  <1>17. CASE GetBoundRealm
    BY <1>17, <1>2, <1>c, GetBoundRealmPass DEF GetBoundRealm
  <1>18. CASE BindFlow
    BY <1>18, <1>2, <1>c, FinishPass DEF BindFlow, Clear
  <1> QED
    BY <1>1, <1>3, <1>4, <1>5, <1>6, <1>7, <1>8, <1>9, <1>10, <1>11, <1>12, <1>13, <1>14, <1>15,
       <1>16, <1>17, <1>18 DEF FlowStep

\* A step that concerns neither the flows of Keycloak nor a pass over them.
LEMMA AsidePass ==
    ASSUME Inv, TypeInv', UNCHANGED <<tree, flowVars>>, clean' \in {clean, FALSE}
    PROVE  Inv'
  <1>1. UNCHANGED <<tree, stack, step, mine, finished>>
    BY DEF flowVars
  <1>2. \A d : StepAt(d)' = StepAt(d)
    BY <1>1 DEF StepAt
  <1>3. AliasInv => AliasInv'
    BY <1>1, <1>2 DEF AliasInv
  <1>4. PassInv => PassInv'
    <2>1. StackFlows' = StackFlows
      BY <1>1 DEF StackFlows
    <2>2. Seen' = Seen
      BY <2>1, <1>1 DEF Seen
    <2>3. \A d : HandledAt(d)' = HandledAt(d)
      BY <1>1, <1>2 DEF HandledAt
    <2>4. \A m : (Anchored(m) => Anchored(m)')
      BY <2>2, <1>1, <1>2 DEF Anchored
    <2>5. \A m : (Handled(m) => Handled(m)')
      BY <2>2, <2>3, <1>1 DEF Handled
    <2>6. FinishedInv => FinishedInv'
      BY <2>1, <2>2, <2>3, <2>4, <2>5, <1>1 DEF FinishedInv
    <2> QED
      BY <2>6, <1>1, <1>2 DEF PassInv
  <1>5. AliasesTell' <=> AliasesTell
    BY DEF AliasesTell
  <1>6. NoTwins(mine)' <=> NoTwins(mine)
    BY <1>1 DEF NoTwins
  <1>7. clean' => clean
    OBVIOUS
  <1> QED
    BY <1>3, <1>4, <1>5, <1>6, <1>7, Zenon DEF Inv

\* The console says nothing about aliases that is not declared.
LEMMA ConsolePass ==
    ASSUME Inv, TypeInv', Interfere, UNCHANGED flowVars,
           AliasInv => \A i \in DOMAIN tree' : GoodAlias(tree'[i])
    PROVE  Inv'
  <1>1. UNCHANGED <<stack, step, mine, finished>> /\ clean' = FALSE
    BY DEF flowVars, Interfere
  <1>2. \A d : StepAt(d)' = StepAt(d)
    BY <1>1 DEF StepAt
  <1>3. AliasInv => AliasInv'
    BY <1>1, <1>2 DEF AliasInv
  <1>4. AliasesTell' <=> AliasesTell
    BY DEF AliasesTell
  <1> QED
    BY <1>1, <1>3, <1>4 DEF Inv

LEMMA ChangeExecutionAlias ==
    ASSUME TypeInv, ChangeExecution, AliasInv
    PROVE  \A i \in DOMAIN tree' : GoodAlias(tree'[i])
  <1>a. \A i \in DOMAIN tree : GoodAlias(tree[i]) /\ tree[i] \in Executions
    BY DEF AliasInv, TypeInv, TreeInv, TreeType
  <1>b. TreeInv /\ rootThere' = rootThere
    BY DEF TypeInv, ChangeExecution
  <1>1. PICK i \in DOMAIN tree :
          \/ \E r \in Requirements : tree' = [tree EXCEPT ![i].req = r]
          \/ tree' = [tree EXCEPT ![i].prio = 0]
          \/ tree' = [tree EXCEPT ![i].cfg = NoConfig]
          \/ tree' = Without(tree, Below(tree, i))
    BY DEF ChangeExecution
  <1>2. ASSUME NEW r, NEW g, NEW p, Changed(tree, tree', i, r, g, p), g = tree[i].cfg \/ g.alias = ""
        PROVE  \A j \in DOMAIN tree' : GoodAlias(tree'[j])
    <2>1. /\ DOMAIN tree' = DOMAIN tree /\ \A j \in DOMAIN tree \ {i} : tree'[j] = tree[j]
          /\ tree'[i].name = tree[i].name /\ tree'[i].cfg = g
      BY <1>2 DEF Changed, Becomes, SameExecution
    <2>2. GoodAlias(tree'[i])
      BY <2>1, <1>2, <1>a DEF GoodAlias
    <2> QED
      BY <2>1, <2>2, <1>a
  <1>3. CASE \E r \in Requirements : tree' = [tree EXCEPT ![i].req = r]
    <2>1. PICK r \in Requirements : tree' = [tree EXCEPT ![i].req = r]
      BY <1>3
    <2>2. Changed(tree, tree', i, r, tree[i].cfg, tree[i].prio)
      BY <2>1, <1>a, ChangeReq, Zenon
    <2> QED
      BY <2>2, <1>2
  <1>4. CASE tree' = [tree EXCEPT ![i].prio = 0]
    <2>1. Changed(tree, tree', i, tree[i].req, tree[i].cfg, 0)
      BY <1>4, <1>a, ChangePrio
    <2> QED
      BY <2>1, <1>2
  <1>5. CASE tree' = [tree EXCEPT ![i].cfg = NoConfig]
    <2>1. NoConfig \in Configs /\ NoConfig.alias = ""
      BY EmptyAliasAssumption DEF NoConfig, Configs
    <2>2. Changed(tree, tree', i, tree[i].req, NoConfig, tree[i].prio)
      BY <2>1, <1>5, <1>a, ChangeConfig, Zenon
    <2> QED
      BY <2>1, <2>2, <1>2
  <1>6. CASE tree' = Without(tree, Below(tree, i))
    BY <1>6, <1>a, <1>b, TreeShrunk
  <1> QED
    BY <1>1, <1>3, <1>4, <1>5, <1>6

LEMMA AddExecutionAlias ==
    ASSUME TypeInv, AddExecution, AliasInv
    PROVE  \A i \in DOMAIN tree' : GoodAlias(tree'[i])
  <1>a. \A i \in DOMAIN tree : GoodAlias(tree[i]) /\ tree[i] \in Executions
    BY DEF AliasInv, TypeInv, TreeInv, TreeType
  <1>1. PICK f \in Flows, i \in DOMAIN tree :
          ~tree[i].sub /\ tree' = With(tree, Fresh, NewExecution(f, tree[i]))
    BY DEF AddExecution
  <1>2. Unseen # {} /\ rootThere' = rootThere
    BY DEF AddExecution
  <1>3. tree[i].sub \in BOOLEAN /\ tree[i].name \in STRING
    BY <1>a DEF Executions
  <1>4. /\ DOMAIN tree' = DOMAIN tree \cup {Fresh}
        /\ tree'[Fresh] = NewExecution(f, tree[i])
        /\ \A k \in DOMAIN tree : tree'[k] = tree[k]
    BY <1>1, <1>2, <1>3, TreeGrown
  <1>7. PICK e : e = tree[i]
    OBVIOUS
  <1>8. NewExecution(f, e).cfg.alias = ""
    BY NewExecutionFields, Zenon
  <1>5. NewExecution(f, tree[i]).cfg.alias = ""
    BY <1>7, <1>8
  <1>6. GoodAlias(tree'[Fresh])
    BY <1>4, <1>5 DEF GoodAlias
  <1> QED
    BY <1>4, <1>6, <1>a

LEMMA NextInv == Inv /\ [Next]_vars => Inv'
  <1> SUFFICES ASSUME Inv, [Next]_vars PROVE Inv'
    OBVIOUS
  <1>a. TypeInv /\ TypeInv'
    BY NextType DEF Inv
  <1>1. CASE FlowStep
    BY <1>1, FlowStepPass
  <1>2. CASE RealmStep
    BY <1>2, <1>a, AsidePass DEF RealmStep, GetRealm, UpdateRealm
  <1>3. CASE FlowPassEnds
    <2>1. Finish /\ tree' = tree /\ mine' = mine /\ clean' = clean
      BY <1>3 DEF FlowPassEnds, Fail
    <2>2. AliasInv => AliasInv' /\ PassInv'
      BY <2>1, FinishPass
    <2>3. AliasesTell' <=> AliasesTell
      BY DEF AliasesTell
    <2> QED
      BY <2>2, <2>3, <1>a DEF Inv
  <1>4. CASE RealmPassEnds
    BY <1>4, <1>a, AsidePass DEF RealmPassEnds
  <1>5. CASE Edit
    BY <1>5, <1>a, AsidePass DEF Edit, Interfere
  <1>6. CASE ChangeExecution
    BY <1>6, <1>a, ChangeExecutionAlias, ConsolePass DEF ChangeExecution
  <1>7. CASE AddExecution
    BY <1>7, <1>a, AddExecutionAlias, ConsolePass DEF AddExecution
  <1>8. CASE ChangeRealm
    BY <1>8, <1>a, AsidePass DEF ChangeRealm, Interfere
  <1>9. CASE Settle
    BY <1>9, <1>a, AsidePass DEF Settle
  <1>10. CASE UNCHANGED vars
    BY <1>10, <1>a, AsidePass DEF vars, flowVars
  <1> QED
    BY <1>1, <1>2, <1>3, <1>4, <1>5, <1>6, <1>7, <1>8, <1>9, <1>10 DEF Next

LEMMA InitInv == Init => Inv
  <1> SUFFICES ASSUME Init PROVE Inv
    OBVIOUS
  <1>1. TypeInv
    BY InitType
  <1>2. stack = << >> /\ finished = {} /\ step = "idle" /\ tree = << >>
    BY DEF Init
  <1>3. Len(stack) = 0 /\ StackFlows = {} /\ DOMAIN tree = {}
    BY <1>2 DEF StackFlows
  <1>4. AliasInv
    BY <1>3 DEF AliasInv
  <1>5. Seen = {}
    BY <1>2, <1>3 DEF Seen
  <1>6. FinishedInv
    BY <1>2, <1>3, <1>5 DEF FinishedInv
  <1>7. PassInv
    BY <1>3, <1>6 DEF PassInv
  <1> QED
    BY <1>1, <1>4, <1>7 DEF Inv

LEMMA PassInvariant == Spec => []Inv
  BY InitInv, NextInv, PTL DEF Spec

-----------------------------------------------------------------------------
(***************************************************************************)
(* What a flow that mirrors its list is.                                   *)
(***************************************************************************)

\* Every entry has its execution, in its place.
Stands(t, D, f, k, i) == i \in Children(t, f) /\ t[i].prio = k - 1 /\ Satisfies(t[i], D[k])

LEMMA IntervalSize ==
    ASSUME NEW n \in Nat
    PROVE  IsFiniteSet(1..n) /\ Cardinality(1..n) = n
  <1>1. IsFiniteSet(1..n) /\ Cardinality(1..n) = IF 1 > n THEN 0 ELSE n - 1 + 1
    BY FS_Interval
  <1> QED
    BY <1>1

LEMMA MirroredStands ==
    ASSUME NEW t, NEW D, Len(D) \in Nat, Distinct(D), NEW f, Mirrored(t, D, f)
    PROVE  /\ Cardinality(Children(t, f)) = Len(D)
           /\ \A k \in 1..Len(D) : \E i \in Children(t, f) : Stands(t, D, f, k, i)
  <1> DEFINE C == Children(t, f)
             g == [j \in 1..Len(D) |-> CHOOSE i \in C : Alike(t[i], D[j])]
  <1>1. /\ \A i \in C : \E j \in 1..Len(D) : AsDeclared(t[i], D[j])
        /\ \A j \in 1..Len(D) : \E i \in C : Alike(t[i], D[j])
        /\ \A i, k \in C : t[i].name = t[k].name => i = k
        /\ \A i \in C : \A j \in 1..Len(D) : Alike(t[i], D[j]) => t[i].prio = j - 1
    BY DEF Mirrored, Paired, Placed
  <1> HIDE DEF C
  <1>2. \A j \in 1..Len(D) : g[j] \in C /\ Alike(t[g[j]], D[j])
    BY <1>1
  <1>3. g \in [1..Len(D) -> C]
    BY <1>2
  <1> HIDE DEF g
  <1>4. \A j, k \in 1..Len(D) : g[j] = g[k] => j = k
    BY <1>2 DEF Alike, Distinct
  <1>5. \A i \in C : \E j \in 1..Len(D) : g[j] = i
    BY <1>1, <1>2 DEF AsDeclared, Alike
  <1>6. g \in Bijection(1..Len(D), C)
    <2>1. g \in Injection(1..Len(D), C)
      BY <1>3, <1>4 DEF Injection, IsInjective
    <2>2. g \in Surjection(1..Len(D), C)
      BY <1>3, <1>5 DEF Surjection
    <2> QED
      BY <2>1, <2>2 DEF Bijection
  <1>7. IsFiniteSet(1..Len(D)) /\ Cardinality(1..Len(D)) = Len(D)
    BY IntervalSize, Zenon
  <1>8. Cardinality(C) = Len(D)
    <2>1. ExistsBijection(1..Len(D), C)
      BY <1>6 DEF ExistsBijection
    <2> QED
      BY <2>1, <1>7, FS_Bijection
  <1>9. ASSUME NEW k \in 1..Len(D)
        PROVE  \E i \in C : Stands(t, D, f, k, i)
    <2>1. PICK i \in C : Alike(t[i], D[k])
      BY <1>1
    <2>2. PICK j \in 1..Len(D) : AsDeclared(t[i], D[j])
      BY <1>1
    <2>3. j = k
      BY <2>1, <2>2 DEF AsDeclared, Alike, Distinct
    <2>4. Satisfies(t[i], D[k])
      BY <2>2, <2>3 DEF AsDeclared, Alike, Required, Configured, Satisfies
    <2>5. t[i].prio = k - 1
      BY <2>1, <1>1
    <2> QED
      BY <2>4, <2>5 DEF Stands, C
  <1> QED
    BY <1>8, <1>9 DEF C

\* The other way round, when aliases tell authenticators apart.
LEMMA StandsMirrored ==
    ASSUME NEW t, NEW D, Len(D) \in Nat, Distinct(D), NEW f, IsFiniteSet(Children(t, f)),
           Cardinality(Children(t, f)) = Len(D),
           \A k \in 1..Len(D) : \E i \in Children(t, f) : Stands(t, D, f, k, i),
           \A i \in Children(t, f) : \A k \in 1..Len(D) : Bears(t[i], D[k]) => SameName(t[i], D[k])
    PROVE  Mirrored(t, D, f)
  <1> DEFINE C == Children(t, f)
             g == [j \in 1..Len(D) |-> CHOOSE i \in C : Stands(t, D, f, j, i)]
  <1>1. \A j \in 1..Len(D) : g[j] \in C /\ Stands(t, D, f, j, g[j])
    OBVIOUS
  <1>2. g \in [1..Len(D) -> C]
    BY <1>1
  <1>a. IsFiniteSet(C) /\ Cardinality(C) = Len(D)
    OBVIOUS
  <1>b. C = Children(t, f)
    OBVIOUS
  <1> HIDE DEF g, C
  <1>3. \A j, k \in 1..Len(D) : g[j] = g[k] => j = k
    <2> SUFFICES ASSUME NEW j \in 1..Len(D), NEW k \in 1..Len(D), g[j] = g[k] PROVE j = k
      OBVIOUS
    <2>1. t[g[j]].prio = j - 1 /\ t[g[j]].prio = k - 1
      BY <1>1 DEF Stands
    <2> QED
      BY <2>1
  <1>4. IsFiniteSet(1..Len(D)) /\ Cardinality(1..Len(D)) = Len(D)
    BY IntervalSize, Zenon
  <1>5. \A i \in C : \E j \in 1..Len(D) : g[j] = i
    <2>1. g \in Injection(1..Len(D), C)
      BY <1>2, <1>3 DEF Injection, IsInjective
    <2>2. g \in Surjection(1..Len(D), C)
      BY <2>1, <1>4, <1>a, FS_Injection
    <2> QED
      BY <2>2 DEF Surjection
  <1>6. \A j \in 1..Len(D) : AsDeclared(t[g[j]], D[j]) /\ t[g[j]].prio = j - 1
    <2> SUFFICES ASSUME NEW j \in 1..Len(D) PROVE AsDeclared(t[g[j]], D[j]) /\ t[g[j]].prio = j - 1
      OBVIOUS
    <2>1. g[j] \in C /\ Satisfies(t[g[j]], D[j]) /\ t[g[j]].prio = j - 1
      BY <1>1 DEF Stands
    <2>2. Bears(t[g[j]], D[j])
      BY <2>1 DEF Satisfies, Bears
    <2>3. SameName(t[g[j]], D[j])
      BY <2>1, <2>2, <1>b
    <2> QED
      BY <2>1, <2>3 DEF SameName, Satisfies, AsDeclared, Alike, Required, Configured
  <1>7. \A j, k \in 1..Len(D) : Alike(t[g[j]], D[k]) => j = k
    BY <1>6 DEF AsDeclared, Alike, Distinct
  <1>8. Paired(t, D, f)
    <2>1. \A i \in C : \E j \in 1..Len(D) : AsDeclared(t[i], D[j])
      BY <1>5, <1>6
    <2>2. \A j \in 1..Len(D) : \E i \in C : Alike(t[i], D[j])
      BY <1>1, <1>6 DEF AsDeclared
    <2>3. ASSUME NEW i \in C, NEW k \in C, t[i].name = t[k].name PROVE i = k
      <3>1. PICK a \in 1..Len(D) : g[a] = i
        BY <1>5
      <3>2. PICK b \in 1..Len(D) : g[b] = k
        BY <1>5
      <3>3. D[a].name = D[b].name
        BY <3>1, <3>2, <2>3, <1>6 DEF AsDeclared, Alike
      <3> QED
        BY <3>1, <3>2, <3>3 DEF Distinct
    <2> QED
      BY <2>1, <2>2, <2>3, <1>b DEF Paired
  <1>9. Placed(t, D, f, Len(D))
    BY <1>5, <1>6, <1>7, <1>b DEF Placed
  <1> QED
    BY <1>8, <1>9 DEF Mirrored

-----------------------------------------------------------------------------
(***************************************************************************)
(* One pass suffices.                                                      *)
(***************************************************************************)

\* At its end a pass is through with all the flows it declares.
LEMMA AllFinished ==
    ASSUME Clear, Clean, step = "bind"
    PROVE  finished = DOMAIN mine.flows
  <1>1. FinishedInv /\ mine \in Specs /\ finished \subseteq DOMAIN mine.flows
    BY DEF Clear, Clean, PassInv, TypeInv, StateType
  <1>2. Root \in finished /\ Closed(mine.flows, finished)
    BY <1>1 DEF FinishedInv, Closed
  <1> QED
    BY <1>1, <1>2, SpecFacts

LEMMA OnePass ==
    ASSUME Clear, Clean, step = "bind"
    PROVE  Mirrors(mine)
  <1>1. /\ FinishedInv /\ mine \in Specs /\ rootThere /\ Rooted(tree)
        /\ finished = DOMAIN mine.flows
    BY AllFinished DEF Clear, Clean, PassInv, TypeInv, StateType, TreeInv
  <1>2. \A f \in DOMAIN mine.flows : Mirrored(tree, mine.flows[f], f)
    BY <1>1 DEF FinishedInv
  <1>3. /\ Root \in DOMAIN mine.flows
        /\ \A f \in DOMAIN mine.flows :
              /\ Len(mine.flows[f]) \in Nat
              /\ \A i \in 1..Len(mine.flows[f]) :
                    mine.flows[f][i].sub => mine.flows[f][i].name \in DOMAIN mine.flows
    BY <1>1, SpecFacts
  <1>4. ASSUME NEW f \in DOMAIN mine.flows
        PROVE  /\ Cardinality(Children(tree, f)) = Len(mine.flows[f])
               /\ \A k \in 1..Len(mine.flows[f]) : \E i \in Children(tree, f) :
                     Stands(tree, mine.flows[f], f, k, i)
    <2>1. Distinct(mine.flows[f])
      BY <1>1, TwinFree DEF Clean
    <2> QED
      BY <2>1, <1>2, <1>3, MirroredStands
  <1> DEFINE S == {i \in DOMAIN tree : tree[i].flow \in DOMAIN mine.flows}
  <1>5. Children(tree, Root) \subseteq S
    BY <1>3 DEF Children
  <1>6. ASSUME NEW k \in S, tree[k].sub
        PROVE  Children(tree, tree[k].name) \subseteq S
    <2>1. tree[k].flow \in DOMAIN mine.flows /\ k \in Children(tree, tree[k].flow)
      BY DEF Children
    <2>2. PICK j \in 1..Len(mine.flows[tree[k].flow]) : AsDeclared(tree[k], mine.flows[tree[k].flow][j])
      BY <2>1, <1>2 DEF Mirrored, Paired
    <2>3. tree[k].name \in DOMAIN mine.flows
      BY <2>1, <2>2, <1>3, <1>6 DEF AsDeclared, Alike
    <2> QED
      BY <2>3 DEF Children
  <1>7. S = DOMAIN tree
    <2>1. ClosedIn(tree, S)
      BY <1>6, Zenon DEF ClosedIn
    <2>2. S \in SUBSET DOMAIN tree
      OBVIOUS
    <2> QED
      BY <2>1, <2>2, <1>1, <1>5 DEF Rooted
  <1>8. \A i \in DOMAIN tree : tree[i].flow \in DOMAIN mine.flows
    BY <1>7
  <1> QED
    BY <1>1, <1>4, <1>8 DEF Mirrors, Stands

\* A pass that nobody interferes with and that gets through has made the whole
\* tree as declared, whatever it found and however often earlier passes were cut
\* short (OnePassSuffices: reconcileFlowExecutions, reconcileExecutionOrder).
THEOREM OnePassMakesTheTree == Spec => []OnePassSuffices
  <1>1. Inv => OnePassSuffices
    BY OnePass DEF Inv, OnePassSuffices, Clear, Clean
  <1> QED
    BY <1>1, PassInvariant, PTL

-----------------------------------------------------------------------------
(***************************************************************************)
(* A flow that is as declared is not taken apart.                          *)
(***************************************************************************)

\* If the tree is as declared, so is the flow the pass is in.
LEMMA MirrorsTop ==
    ASSUME Clear, Clean, AtWork, Mirrors(mine)
    PROVE  Mirrored(tree, Desired, Top.flow)
  <1>1. PICK t, D, f : t = tree /\ D = Desired /\ f = Top.flow
    OBVIOUS
  <1>2. /\ mine \in Specs /\ f \in DOMAIN mine.flows /\ D = mine.flows[f]
        /\ Len(D) \in Nat /\ Distinct(D)
    BY <1>1, TopDistinct DEF AtWork, Desired, Clean
  <1>3. IsFiniteSet(Children(t, f))
    <2>1. Children(t, f) \subseteq Ids
      BY <1>1 DEF Children, Clear, TypeInv, TreeInv, TreeType
    <2> QED
      BY <2>1, FlowSyncAssumption, FS_Subset
  <1>4. /\ Cardinality(Children(t, f)) = Len(D)
        /\ \A k \in 1..Len(D) : \E i \in Children(t, f) : Stands(t, D, f, k, i)
    BY <1>1, <1>2 DEF Mirrors, Stands
  <1>5. ASSUME NEW i \in Children(t, f), NEW k \in 1..Len(D), Bears(t[i], D[k])
        PROVE  SameName(t[i], D[k])
    <2>1. GoodAlias(t[i])
      BY <1>1 DEF Clear, AliasInv, Children
    <2>2. PICK s : s = mine
      OBVIOUS
    <2>3. s \in Specs /\ f \in DOMAIN s.flows /\ k \in 1..Len(s.flows[f]) /\ Bears(t[i], s.flows[f][k])
      BY <2>2, <1>2, <1>5
    <2>4. AliasesTell
      BY DEF Clear
    <2>5. SameName(t[i], s.flows[f][k])
      BY <2>1, <2>3, <2>4, AliasName, Zenon
    <2> QED
      BY <2>2, <2>5, <1>2
  <1>6. Mirrored(t, D, f)
    BY <1>2, <1>3, <1>4, <1>5, StandsMirrored, Zenon
  <1> QED
    BY <1>1, <1>6

\* The same executions.
LEMMA MirrorsKept ==
    ASSUME Mirrors(mine), DOMAIN tree' = DOMAIN tree, \A i \in DOMAIN tree : tree'[i] = tree[i],
           rootThere => rootThere', mine' = mine
    PROVE  Mirrors(mine)'
  <1>1. \A f : Children(tree', f) = Children(tree, f) /\ \A i \in Children(tree, f) : tree'[i] = tree[i]
    BY DEF Children
  <1>2. \A f \in DOMAIN mine.flows :
           /\ Cardinality(Children(tree, f)) = Len(mine.flows[f])
           /\ \A k \in 1..Len(mine.flows[f]) :
                 \E i \in Children(tree, f) :
                    tree[i].prio = k - 1 /\ Satisfies(tree[i], mine.flows[f][k])
    BY DEF Mirrors
  <1>3. \A f \in DOMAIN mine'.flows :
           /\ Cardinality(Children(tree', f)) = Len(mine'.flows[f])
           /\ \A k \in 1..Len(mine'.flows[f]) :
                 \E i \in Children(tree', f) :
                    tree'[i].prio = k - 1 /\ Satisfies(tree'[i], mine'.flows[f][k])
    BY <1>1, <1>2
  <1> QED
    BY <1>3 DEF Mirrors

\* Nothing is missing.
LEMMA NothingCreated ==
    ASSUME Clear, Clean, step = "create", AtWork, Mirrors(mine)
    PROVE  FALSE
  <1>a. step \in EntrySteps
    BY DEF EntrySteps
  <1>1. /\ Mirrored(tree, Desired, Top.flow) /\ FrameInv(tree, Desired, Top, "create")
        /\ Distinct(Desired) /\ Top.i \in 1..Len(Desired) /\ Len(Desired) \in Nat
    BY <1>a, MirrorsTop, PassOfTop, TopDistinct DEF Clean, AtWork
  <1>2. PICK i \in Children(tree, Top.flow) : Alike(tree[i], Desired[Top.i])
    BY <1>1 DEF Mirrored, Paired
  <1>3. Claims(tree, Desired, Top, "create") /\ Walk(tree, Desired, Top, "create")
    BY <1>1 DEF FrameInv
  <1>4. i \notin Top.used
    <2> SUFFICES ASSUME i \in Top.used PROVE FALSE
      OBVIOUS
    <2>1. ClaimedTo(Top, "create") = Top.i - 1
      BY DEF ClaimedTo, ClaimSteps
    <2>2. PICK j \in 1..(Top.i - 1) : Alike(tree[i], Desired[j])
      BY <2>1, <1>3 DEF Claims
    <2>3. j \in 1..Len(Desired) /\ j # Top.i /\ Desired[j].name = Desired[Top.i].name
      BY <2>2, <1>1, <1>2 DEF Alike
    <2> QED
      BY <2>3, <1>1 DEF Distinct
  <1>5. PICK k \in DOMAIN Top.live : Top.live[k].id = i
    BY <1>2, <1>3, <1>4 DEF Walk, LiveIds
  <1>6. Top.live[k].rep = tree[i]
    BY <1>3, <1>4, <1>5 DEF Walk, UpToDate
  <1> QED
    BY <1>2, <1>3, <1>4, <1>5, <1>6 DEF Walk

\* The execution in hand is as declared.
LEMMA CurrentDeclared ==
    ASSUME Clear, Clean, step \in ClaimSteps, AtWork, Mirrors(mine)
    PROVE  AsDeclared(tree[Current], Want)
  <1>a. step \in EntrySteps
    BY DEF EntrySteps
  <1>1. /\ Mirrored(tree, Desired, Top.flow) /\ FrameInv(tree, Desired, Top, step)
        /\ Distinct(Desired) /\ Top.i \in 1..Len(Desired)
    BY <1>a, MirrorsTop, PassOfTop, TopDistinct DEF Clean, AtWork
  <1>2. Current \in Children(tree, Top.flow) /\ Alike(tree[Current], Desired[Top.i])
    BY <1>1, OnlyCurrent DEF Current
  <1>3. PICK j \in 1..Len(Desired) : AsDeclared(tree[Current], Desired[j])
    BY <1>1, <1>2 DEF Mirrored, Paired
  <1>4. j = Top.i
    BY <1>1, <1>2, <1>3 DEF AsDeclared, Alike, Distinct
  <1> QED
    BY <1>3, <1>4 DEF Want

\* A requirement is right.
LEMMA NothingRequired ==
    ASSUME Clear, Clean, step = "requirement", AtWork, Mirrors(mine)
    PROVE  FALSE
  <1>a. step \in ClaimSteps
    BY DEF ClaimSteps
  <1>1. Want.req \in {"", tree[Current].req}
    BY <1>a, CurrentDeclared DEF AsDeclared, Required
  <1>2. Want.req # ""
    BY DEF AtWork, FrameType, Want
  <1>3. tree[Current].req # Want.req
    BY <1>a, PassOfTop DEF Clean, FrameInv, Walk, Current, Want
  <1> QED
    BY <1>1, <1>2, <1>3

\* Nothing is left over.
LEMMA NothingDeleted ==
    ASSUME Clear, Clean, step = "delete", AtWork, Mirrors(mine), NEW id, id \in LiveIds(Top),
           id \in Children(tree, Top.flow)
    PROVE  FALSE
  <1>1. /\ Mirrored(tree, Desired, Top.flow) /\ FrameInv(tree, Desired, Top, "delete")
        /\ Len(Desired) \in Nat /\ Top.i = Len(Desired) + 1
    BY MirrorsTop, PassOfTop DEF Clean, AtWork, FrameType, EndSteps
  <1>2. PICK j \in 1..Len(Desired) : Alike(tree[id], Desired[j])
    BY <1>1 DEF Mirrored, Paired, AsDeclared
  <1>3. /\ Claims(tree, Desired, Top, "delete") /\ Top.used \cap LiveIds(Top) = {}
        /\ Top.used \subseteq Children(tree, Top.flow)
    BY <1>1 DEF FrameInv
  <1>4. ClaimedTo(Top, "delete") = Len(Desired)
    BY <1>1 DEF ClaimedTo, ClaimSteps
  <1>5. PICK i \in Top.used : Alike(tree[i], Desired[j])
    BY <1>3, <1>4 DEF Claims
  <1>6. i = id
    BY <1>1, <1>2, <1>3, <1>5 DEF Alike, Mirrored, Paired
  <1> QED
    BY <1>3, <1>5, <1>6

\* What is written is what is there.
LEMMA WrittenSame ==
    ASSUME TypeInv, NEW c \in DOMAIN tree,
           Changed(tree, tree', c, tree[c].req, tree[c].cfg, tree[c].prio)
    PROVE  DOMAIN tree' = DOMAIN tree /\ \A i \in DOMAIN tree : tree'[i] = tree[i]
  <1>1. tree[c] \in Executions /\ tree'[c] \in Executions
    BY DEF TypeInv, TreeInv, TreeType, Changed
  <1>2. PICK e, g : e = tree[c] /\ g = tree'[c]
    OBVIOUS
  <1>3. /\ e \in Executions /\ g \in Executions /\ g.flow = e.flow /\ g.sub = e.sub
        /\ g.name = e.name /\ g.req = e.req /\ g.cfg = e.cfg /\ g.prio = e.prio
    BY <1>1, <1>2 DEF Changed, Becomes, SameExecution
  <1>4. g = e
    BY <1>3 DEF Executions
  <1> QED
    BY <1>2, <1>4 DEF Changed

\* The calls that write, when the tree is as declared.
LEMMA WriteConfigKeeps ==
    ASSUME Clear, Clean, Mirrors(mine), mine' = mine, WriteAuthenticatorConfig
    PROVE  Mirrors(mine)'
  <1>1. CASE Fail
    BY <1>1, MirrorsKept DEF Fail
  <1>2. CASE /\ step = "writeConfig" /\ Current \in DOMAIN tree /\ Want.cfg \in Configs
             /\ Changed(tree, tree', Current, tree[Current].req, Stored(Want.cfg), tree[Current].prio)
    <2>1. step \in ClaimSteps /\ step \in WorkSteps
      BY <1>2, WorkStepNames DEF ClaimSteps
    <2>2. AtWork
      BY <2>1, TopFacts DEF Clear
    <2>3. Want.cfg # NoConfig
      BY <2>2, <1>2 DEF AtWork, FrameType, Want
    <2>4. tree[Current].cfg = Stored(Want.cfg)
      BY <2>1, <2>2, <2>3, CurrentDeclared DEF AsDeclared, Configured
    <2>5. Changed(tree, tree', Current, tree[Current].req, tree[Current].cfg, tree[Current].prio)
      BY <2>4, <1>2
    <2>6. DOMAIN tree' = DOMAIN tree /\ \A i \in DOMAIN tree : tree'[i] = tree[i]
      BY <2>5, <1>2, WrittenSame DEF Clear
    <2>7. rootThere' = rootThere
      BY DEF WriteAuthenticatorConfig, Fail
    <2> QED
      BY <2>6, <2>7, MirrorsKept
  <1> QED
    BY <1>1, <1>2, WriteConfigShape DEF Clear

LEMMA ReorderKeeps ==
    ASSUME Clear, Clean, Mirrors(mine), mine' = mine, reconcileExecutionOrder
    PROVE  Mirrors(mine)'
  <1>a. rootThere' = rootThere
    BY DEF reconcileExecutionOrder, NextPlace, Fail
  <1>1. CASE Fail
    BY <1>1, MirrorsKept DEF Fail
  <1>2. CASE tree' = tree
    BY <1>2, <1>a, MirrorsKept
  <1>3. ASSUME NEW k, step = "reorder", Top.i \in 1..Len(Desired), k # 0,
               Answers(Top.live, Want, Top.used, k), Top.live[k].id \in DOMAIN tree,
               Changed(tree, tree', Top.live[k].id, Top.live[k].rep.req,
                       tree[Top.live[k].id].cfg, Top.i - 1)
        PROVE  Mirrors(mine)'
    <2>a. AtWork
      BY <1>3, WorkStepNames, TopFacts DEF Clear
    <2>b. PICK c : c = Top.live[k].id
      OBVIOUS
    <2>1. FrameInv(tree, Desired, Top, "reorder") /\ Mirrored(tree, Desired, Top.flow)
      BY <1>3, <2>a, PassOfTop, MirrorsTop DEF Clean
    <2>2. \A j \in DOMAIN Top.live : GoodAlias(Top.live[j].rep)
      BY <2>a, AliasOfTop DEF Clear
    <2>3. k \in DOMAIN Top.live /\ c \notin Top.used /\ Alike(Top.live[k].rep, Want)
      BY <2>2, <2>a, <2>b, <1>3, AnswerAlike DEF Clear
    <2>4. c \in DOMAIN tree /\ Top.live[k].rep = tree[c]
      BY <2>1, <2>3, <2>b DEF FrameInv, Ordering, UpToDate
    <2>5. c \in Children(tree, Top.flow) /\ Alike(tree[c], Desired[Top.i])
      BY <2>1, <2>3, <2>4, <2>b DEF FrameInv, Ordering, LiveIds, Want
    <2>6. tree[c].prio = Top.i - 1
      BY <2>1, <2>5, <1>3 DEF Mirrored, Placed
    <2>7. Changed(tree, tree', c, tree[c].req, tree[c].cfg, tree[c].prio)
      BY <2>4, <2>6, <2>b, <1>3
    <2>8. DOMAIN tree' = DOMAIN tree /\ \A i \in DOMAIN tree : tree'[i] = tree[i]
      BY <2>4, <2>7, WrittenSame DEF Clear
    <2> QED
      BY <2>8, <1>a, MirrorsKept
  <1> QED
    BY <1>1, <1>2, <1>3, ReorderShape DEF Clear

LEMMA DeleteKeeps ==
    ASSUME Clear, Clean, Mirrors(mine), mine' = mine, DeleteExecution
    PROVE  Mirrors(mine)'
  <1>1. CASE Fail
    BY <1>1, MirrorsKept DEF Fail
  <1>2. CASE step = "delete" /\ Top.live # << >> /\ Top.live[1].id \in DOMAIN tree
    <2>1. AtWork
      BY <1>2, WorkStepNames, TopFacts DEF Clear
    <2>2. 1 \in DOMAIN Top.live
      BY <1>2, <2>1, TailOf DEF AtWork
    <2>3. Top.live[1].id \in LiveIds(Top)
      BY <2>2 DEF LiveIds
    <2>4. Top.live[1].id \in Children(tree, Top.flow)
      BY <2>1, <2>2, <1>2 DEF AtWork, FrameType, SameExecution, Children
    <2> QED
      BY <2>1, <2>3, <2>4, <1>2, NothingDeleted
  <1> QED
    BY <1>1, <1>2, DeleteShape DEF Clear

LEMMA FlowStepKeeps ==
    ASSUME Clear, Clean, Mirrors(mine), mine' = mine, FlowStep
    PROVE  Mirrors(mine)'
  <1>1. CASE tree' = tree /\ (rootThere => rootThere')
    BY <1>1, MirrorsKept
  <1>2. CASE Create
    <2>1. step = "create"
      BY <1>2 DEF Create
    <2>2. AtWork
      BY <2>1, WorkStepNames, TopFacts DEF Clear
    <2> QED
      BY <2>1, <2>2, NothingCreated
  <1>3. CASE UpdateExecutionRequirement
    <2>1. step = "requirement"
      BY <1>3 DEF UpdateExecutionRequirement
    <2>2. AtWork
      BY <2>1, WorkStepNames, TopFacts DEF Clear
    <2> QED
      BY <2>1, <2>2, NothingRequired
  <1>4. CASE WriteAuthenticatorConfig
    BY <1>4, WriteConfigKeeps
  <1>5. CASE DeleteExecution
    BY <1>5, DeleteKeeps
  <1>6. CASE reconcileExecutionOrder
    BY <1>6, ReorderKeeps
  <1>7. CASE ReconcileFlow \/ ensureRootFlow \/ List \/ Match \/ Proceed
    <2>1. tree' = tree /\ (rootThere => rootThere')
      BY <1>7 DEF ReconcileFlow, ensureRootFlow, List, Match, Proceed, Fail
    <2> QED
      BY <2>1, <1>1
  <1>8. CASE Relist
    <2>1. tree' = tree /\ (rootThere => rootThere')
      BY <1>8 DEF Relist, Fail
    <2> QED
      BY <2>1, <1>1
  <1>9. CASE Prune
    <2>1. tree' = tree /\ (rootThere => rootThere')
      BY <1>9 DEF Prune, Fail
    <2> QED
      BY <2>1, <1>1
  <1>12. CASE Order
    <2>2. UNCHANGED <<tree, rootThere, realm, copy, finished>> \/ Fail
      BY <1>12, Zenon DEF Order
    <2>1. tree' = tree /\ (rootThere => rootThere')
      BY <2>2 DEF Fail
    <2> QED
      BY <2>1, <1>1
  <1>11. CASE Descend
    <2>1. tree' = tree /\ (rootThere => rootThere')
      BY <1>11 DEF Descend, OnCurrent, Fail
    <2> QED
      BY <2>1, <1>1
  <1>10. CASE reconcileAuthenticatorConfig \/ GetBoundRealm \/ BindFlow
    <2>1. tree' = tree /\ (rootThere => rootThere')
      BY <1>10 DEF reconcileAuthenticatorConfig, GetBoundRealm, BindFlow
    <2> QED
      BY <2>1, <1>1
  <1> QED
    BY <1>2, <1>3, <1>4, <1>5, <1>6, <1>7, <1>8, <1>9, <1>10, <1>11,
       <1>12 DEF FlowStep

\* A flow that is as declared stays so, call by call: a pass that nobody
\* interferes with creates, corrects, removes and moves nothing in it
\* (NeverTakenApart), when aliases tell authenticators apart and no spec has twins.
THEOREM LoginNeverTakenApart ==
    ASSUME AliasesTell, \A s \in Specs : NoTwins(s)
    PROVE  Spec => NeverTakenApart
  <1>1. ASSUME Inv, [Next]_vars, clean, clean', Mirrors(mine), mine' = mine
        PROVE  Mirrors(mine)'
    <2>1. Clear /\ Clean
      BY <1>1 DEF Inv, Clear, Clean, TypeInv, StateType
    <2>2. CASE FlowStep
      BY <2>1, <2>2, <1>1, FlowStepKeeps
    <2>3. CASE RealmStep \/ FlowPassEnds \/ RealmPassEnds \/ Settle \/ UNCHANGED vars
      <3>1. tree' = tree /\ rootThere' = rootThere
        BY <2>3 DEF RealmStep, GetRealm, UpdateRealm, FlowPassEnds, Fail, RealmPassEnds, Settle, vars
      <3> QED
        BY <3>1, <1>1, MirrorsKept
    <2>4. CASE Edit \/ ChangeExecution \/ AddExecution \/ ChangeRealm
      <3>1. clean' = FALSE
        BY <2>4 DEF Edit, ChangeExecution, AddExecution, ChangeRealm, Interfere
      <3> QED
        BY <3>1, <1>1
    <2> QED
      BY <2>2, <2>3, <2>4, <1>1 DEF Next
  <1>2. Inv /\ [Next]_vars => [clean /\ clean' /\ Mirrors(mine) /\ mine' = mine => Mirrors(mine)']_vars
    BY <1>1
  <1> QED
    BY <1>2, PassInvariant, PTL DEF Spec, NeverTakenApart
=============================================================================
