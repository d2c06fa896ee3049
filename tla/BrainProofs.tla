----------------------------- MODULE BrainProofs -----------------------------
(***************************************************************************)
(* What holds of what drives an NPC, for any templates, any NPCs and any   *)
(* threats: first of conditions, then of trees, then of the brain that     *)
(* puts them together.                                                     *)
(***************************************************************************)
EXTENDS Brain, DataLemmas, FiniteSetTheorems

-----------------------------------------------------------------------------
(* Conditions *)

\* h gives, for each of the first m parts, what it comes to.
HoldsUpTo(c, bb, h, m) == h = [k \in 1 .. m |-> EvaluatePart(c[k], h, bb)]

\* A condition is made of one part or more, each of earlier ones.
LEMMA ConditionShape ==
  ASSUME NEW c, IsCondition(c)
  PROVE  /\ Len(c) \in Nat \ {0} /\ DOMAIN c = 1 .. Len(c)
         /\ \A k \in 1 .. Len(c) : c[k].and \subseteq 1 .. k-1 /\ c[k].or \subseteq 1 .. k-1
<1>1. PICK Parts : c \in Seq(Parts) /\ c # <<>>
  BY DEF IsCondition
<1>2. Len(c) \in Nat /\ DOMAIN c = 1 .. Len(c)
  BY <1>1, LenProperties
<1>3. Len(c) # 0
  BY <1>1, EmptySeq
<1>4. \A k \in DOMAIN c : c[k].and \cup c[k].or \subseteq 1 .. k-1
  BY DEF IsCondition
<1> QED BY <1>2, <1>3, <1>4

\* A part comes to the same under h and g if they agree on the parts it is made of.
LEMMA PartDepends ==
  ASSUME NEW p, NEW bb, NEW h, NEW g, \A j \in p.and \cup p.or : h[j] = g[j]
  PROVE  EvaluatePart(p, h, bb) = EvaluatePart(p, g, bb)
<1>1. (\A j \in p.and : h[j]) = (\A j \in p.and : g[j])
  OBVIOUS
<1>2. (\E j \in p.or : h[j]) = (\E j \in p.or : g[j])
  OBVIOUS
<1> QED BY <1>1, <1>2 DEF EvaluatePart

\* The recursion of Evaluate has a solution.
LEMMA HoldsExists ==
  ASSUME NEW c, IsCondition(c), NEW bb
  PROVE  \E h : HoldsUpTo(c, bb, h, Len(c))
<1> DEFINE n == Len(c)
           T == {m \in 0 .. n : ~ \E h : HoldsUpTo(c, bb, h, m)}
<1>1. n \in Nat /\ \A k \in 1 .. n : c[k].and \subseteq 1 .. k-1 /\ c[k].or \subseteq 1 .. k-1
  BY ConditionShape
<1> HIDE DEF n
<1>2. SUFFICES ASSUME T # {} PROVE FALSE
  <2>1. n \in 0 .. n
    BY <1>1
  <2> QED BY <2>1 DEF n
<1>3. PICK m \in T : \A i \in T : m <= i
  <2>1. T \subseteq Nat
    BY <1>1
  <2> HIDE DEF T
  <2> QED BY <1>2, <2>1, LeastElement
<1>4. m \in Nat /\ m <= n
  BY <1>1
<1>5. CASE m = 0
  <2> DEFINE h == [k \in 1 .. 0 |-> TRUE]
  <2>1. HoldsUpTo(c, bb, h, 0)
    BY DEF HoldsUpTo
  <2> QED BY <1>3, <1>5, <2>1
<1>6. CASE m # 0
  <2>1. m - 1 \in 0 .. n /\ m - 1 \notin T
    BY <1>1, <1>3, <1>4, <1>6
  <2>2. PICK h : HoldsUpTo(c, bb, h, m - 1)
    BY <2>1
  <2> DEFINE g == [k \in 1 .. m |-> IF k = m THEN EvaluatePart(c[m], h, bb) ELSE h[k]]
  <2>3. \A k \in 1 .. m - 1 : h[k] = EvaluatePart(c[k], h, bb)
    BY <2>2 DEF HoldsUpTo
  <2>4. ASSUME NEW k \in 1 .. m
        PROVE  g[k] = EvaluatePart(c[k], g, bb)
    <3>1. \A j \in c[k].and \cup c[k].or : j \in 1 .. m /\ j # m /\ h[j] = g[j]
      <4>1. k \in 1 .. n /\ k <= m /\ k \in Nat
        BY <1>1, <1>4
      <4>2. \A j \in c[k].and \cup c[k].or : j \in 1 .. k-1
        BY <1>1, <4>1
      <4> QED BY <1>4, <4>1, <4>2
    <3>2. EvaluatePart(c[k], h, bb) = EvaluatePart(c[k], g, bb)
      BY <3>1, PartDepends
    <3>3. CASE k = m
      BY <3>2, <3>3
    <3>4. CASE k # m
      <4>1. k \in 1 .. m - 1 /\ g[k] = h[k]
        BY <1>4, <3>4
      <4> QED BY <2>3, <3>2, <4>1
    <3> QED BY <3>3, <3>4
  <2> HIDE DEF g
  <2>5. g = [k \in 1 .. m |-> g[k]]
    BY DEF g
  <2>6. HoldsUpTo(c, bb, g, m)
    BY <2>4, <2>5 DEF HoldsUpTo
  <2> QED BY <1>3, <2>6
<1> QED BY <1>5, <1>6

\* Evaluate is what the recursion arrives at.
LEMMA EvaluateIs ==
  ASSUME NEW c, IsCondition(c), NEW bb
  PROVE  \E h : HoldsUpTo(c, bb, h, Len(c)) /\ Evaluate(c, bb) = h[Len(c)]
<1> DEFINE n == Len(c)
           F == CHOOSE h : HoldsUpTo(c, bb, h, n)
<1>1. HoldsUpTo(c, bb, F, n)
  BY HoldsExists
<1>2. Evaluate(c, bb) = F[n]
  BY ConditionShape DEF Evaluate, HoldsUpTo
<1> QED BY <1>1, <1>2

\* A leaf that holds without a key holds with it.
LEMMA LeafMissing ==
  ASSUME NEW p, NEW bb \in Boards, NEW gone \in Keys, EvaluateLeaf(p, Put(bb, gone, Absent))
  PROVE  EvaluateLeaf(p, bb)
<1> DEFINE less == Put(bb, gone, Absent)
<1>1. \A k \in Keys : less[k] = IF k = gone THEN Absent ELSE bb[k]
  BY DEF Put, Boards
<1>2. \A k : Has(less, k) => Has(bb, k) /\ less[k] = bb[k]
  BY <1>1 DEF Has
<1> HIDE DEF less
<1>3. EvaluateLeaf(p, less)
  BY DEF less
<1> QED BY <1>2, <1>3 DEF EvaluateLeaf

\* Nor does any condition over such leaves: what is missing enables nothing.
THEOREM EvaluateMonotone ==
  ASSUME NEW c, IsCondition(c), NEW bb \in Boards, NEW gone \in Keys
  PROVE  Evaluate(c, Put(bb, gone, Absent)) => Evaluate(c, bb)
<1> DEFINE n == Len(c)
           less == Put(bb, gone, Absent)
<1>1. n \in Nat \ {0} /\ \A k \in 1 .. n : c[k].and \subseteq 1 .. k-1 /\ c[k].or \subseteq 1 .. k-1
  BY ConditionShape
<1>2. PICK h : HoldsUpTo(c, less, h, n) /\ Evaluate(c, less) = h[n]
  BY EvaluateIs
<1>3. PICK g : HoldsUpTo(c, bb, g, n) /\ Evaluate(c, bb) = g[n]
  BY EvaluateIs
<1>4. \A p : EvaluateLeaf(p, less) => EvaluateLeaf(p, bb)
  BY LeafMissing
<1> HIDE DEF n, less
<1>5. \A k \in 1 .. n : h[k] = EvaluatePart(c[k], h, less) /\ g[k] = EvaluatePart(c[k], g, bb)
  BY <1>2, <1>3 DEF HoldsUpTo
<1> DEFINE T == {k \in 1 .. n : h[k] /\ ~ g[k]}
<1>6. SUFFICES T = {}
  <2>1. n \in 1 .. n
    BY <1>1
  <2> QED BY <1>2, <1>3, <2>1 DEF n, less
<1>7. SUFFICES ASSUME T # {} PROVE FALSE
  OBVIOUS
<1>8. PICK k \in T : \A i \in T : k <= i
  <2>1. T \subseteq Nat
    BY <1>1
  <2> HIDE DEF T
  <2> QED BY <1>7, <2>1, LeastElement
<1>9. k \in 1 .. n /\ h[k] /\ ~ g[k] /\ k \in Nat
  BY <1>1
<1>10. ASSUME NEW j \in c[k].and \cup c[k].or, h[j] PROVE g[j]
  <2>1. j \in 1 .. k-1
    BY <1>1, <1>9
  <2>2. j \in 1 .. n /\ ~ (k <= j)
    BY <1>1, <1>9, <2>1
  <2>3. j \notin T
    BY <1>8, <2>2
  <2> QED BY <1>10, <2>2, <2>3
<1>11. EvaluatePart(c[k], h, less)
  BY <1>5, <1>9
<1>12. EvaluatePart(c[k], g, bb)
  <2>1. CASE IsEmpty(c[k])
    BY <2>1 DEF EvaluatePart, IsEmpty
  <2>2. CASE ~ IsEmpty(c[k]) /\ c[k].and # {}
    BY <1>10, <1>11, <2>2 DEF EvaluatePart, IsEmpty
  <2>3. CASE ~ IsEmpty(c[k]) /\ c[k].and = {} /\ c[k].or # {}
    BY <1>10, <1>11, <2>3 DEF EvaluatePart, IsEmpty
  <2>4. CASE ~ IsEmpty(c[k]) /\ c[k].and = {} /\ c[k].or = {}
    BY <1>4, <1>11, <2>4 DEF EvaluatePart, IsEmpty
  <2> QED BY <2>1, <2>2, <2>3, <2>4
<1> QED BY <1>5, <1>9, <1>12

-----------------------------------------------------------------------------
(* Trees *)

Unpanicked == Statuses \ {"panic"}

\* What nodes that write nothing but ws may make of a blackboard.
Leaves(bb, after, ws) ==
  after \in Boards /\ \A k \in Keys : after[k] = bb[k] \/ \E w \in ws : w.key = k /\ after[k] = w.value

\* A tick that writes nothing but ws and does not panic, wherever it starts.
Sound(tick, ws) == \A b \in Boards : tick[b].status \in Unpanicked /\ Leaves(b, tick[b].bb, ws)

\* Doing nothing writes nothing.
LEMMA LeavesSelf == ASSUME NEW bb \in Boards, NEW ws PROVE Leaves(bb, bb, ws)
BY DEF Leaves

\* Two ticks after each other write nothing but what either may.
LEMMA LeavesMore ==
  ASSUME NEW ws, NEW bb, NEW b, Leaves(bb, b, ws), NEW after, Leaves(b, after, ws)
  PROVE  Leaves(bb, after, ws)
BY DEF Leaves

\* A tree is made of one node or more, and children come before their parents.
LEMMA TreeShape ==
  ASSUME NEW tree, IsTree(tree)
  PROVE  /\ Len(tree) \in Nat \ {0} /\ DOMAIN tree = 1 .. Len(tree)
         /\ \A k \in 1 .. Len(tree) :
              /\ tree[k].value \in Values /\ tree[k].children \in Seq(Nat)
              /\ Len(tree[k].children) \in Nat
              /\ DOMAIN tree[k].children = 1 .. Len(tree[k].children)
              /\ \A j \in 1 .. Len(tree[k].children) : tree[k].children[j] \in 1 .. k-1
<1> DEFINE Nodes == [type : STRING, key : STRING, op : STRING, value : Values, children : Seq(Nat)]
<1>1. tree \in Seq(Nodes) /\ tree # <<>> /\ \A k \in DOMAIN tree : Range(tree[k].children) \subseteq 1 .. k-1
  BY DEF IsTree
<1>2. \A n \in Nodes : n.value \in Values /\ n.children \in Seq(Nat)
  OBVIOUS
<1> HIDE DEF Nodes
<1>3. Len(tree) \in Nat /\ DOMAIN tree = 1 .. Len(tree) /\ \A k \in 1 .. Len(tree) : tree[k] \in Nodes
  BY <1>1, LenProperties
<1>4. Len(tree) # 0
  BY <1>1, EmptySeq
<1>5. ASSUME NEW k \in 1 .. Len(tree)
      PROVE  /\ Len(tree[k].children) \in Nat
             /\ DOMAIN tree[k].children = 1 .. Len(tree[k].children)
             /\ \A j \in 1 .. Len(tree[k].children) : tree[k].children[j] \in 1 .. k-1
  <2>1. tree[k].children \in Seq(Nat)
    BY <1>2, <1>3
  <2>2. Len(tree[k].children) \in Nat /\ DOMAIN tree[k].children = 1 .. Len(tree[k].children)
    BY <2>1, LenProperties
  <2> QED BY <1>1, <1>3, <2>2 DEF Range
<1> QED BY <1>2, <1>3, <1>4, <1>5

\* run gives, for each j up to m, what the first j children come to.
RunUpTo(on, ticks, bb, run, m) ==
  run = [j \in 0 .. m |-> IF j = 0 THEN [seen |-> {}, bb |-> bb] ELSE TickChild(on, ticks[j], run[j-1])]

\* Before its first child a composite has seen nothing.
LEMMA RunStart ==
  ASSUME NEW on, NEW ticks, NEW bb, NEW n \in Nat, NEW run, RunUpTo(on, ticks, bb, run, n)
  PROVE  run[0] = [seen |-> {}, bb |-> bb]
<1>1. 0 \in 0 .. n
  OBVIOUS
<1> QED BY <1>1 DEF RunUpTo

\* Each child goes on from where the one before it left off.
LEMMA RunStep ==
  ASSUME NEW on, NEW ticks, NEW bb, NEW n \in Nat, NEW run, RunUpTo(on, ticks, bb, run, n),
         NEW j \in 1 .. n
  PROVE  run[j] = TickChild(on, ticks[j], run[j-1])
<1>1. j \in 0 .. n /\ j # 0
  OBVIOUS
<1> QED BY <1>1 DEF RunUpTo

\* The recursion of TickChildren has a solution.
LEMMA RunExists ==
  ASSUME NEW on, NEW ticks, NEW bb, NEW n \in Nat
  PROVE  \E run : RunUpTo(on, ticks, bb, run, n)
<1> DEFINE T == {m \in 0 .. n : ~ \E run : RunUpTo(on, ticks, bb, run, m)}
           first == [seen |-> {}, bb |-> bb]
<1>1. SUFFICES ASSUME T # {} PROVE FALSE
  <2>1. n \in 0 .. n
    OBVIOUS
  <2> QED BY <2>1
<1>2. PICK m \in T : \A i \in T : m <= i
  <2>1. T \subseteq Nat
    OBVIOUS
  <2> HIDE DEF T
  <2> QED BY <1>1, <2>1, LeastElement
<1>3. CASE m = 0
  <2> DEFINE run == [j \in 0 .. 0 |-> first]
  <2>1. RunUpTo(on, ticks, bb, run, 0)
    BY DEF RunUpTo
  <2> QED BY <1>2, <1>3, <2>1
<1>4. CASE m # 0
  <2>1. m \in Nat /\ m - 1 \in 0 .. n /\ m - 1 \notin T
    BY <1>2, <1>4
  <2>2. PICK run : RunUpTo(on, ticks, bb, run, m - 1)
    BY <2>1
  <2> DEFINE g == [j \in 0 .. m |-> IF j = m THEN TickChild(on, ticks[m], run[m-1]) ELSE run[j]]
  <2> HIDE DEF first
  <2>3. \A j \in 0 .. m - 1 : run[j] = IF j = 0 THEN first ELSE TickChild(on, ticks[j], run[j-1])
    BY <2>2 DEF RunUpTo, first
  <2>4. ASSUME NEW j \in 0 .. m
        PROVE  g[j] = IF j = 0 THEN first ELSE TickChild(on, ticks[j], g[j-1])
    <3>1. j # 0 => j - 1 \in 0 .. m /\ j - 1 # m /\ g[j-1] = run[j-1]
      BY <2>1
    <3>2. CASE j = m
      BY <1>4, <3>1, <3>2
    <3>3. CASE j # m
      <4>1. j \in 0 .. m - 1 /\ g[j] = run[j]
        BY <2>1, <3>3
      <4> QED BY <2>3, <3>1, <4>1
    <3> QED BY <3>2, <3>3
  <2> HIDE DEF g
  <2>5. g = [j \in 0 .. m |-> g[j]]
    BY DEF g
  <2>6. RunUpTo(on, ticks, bb, g, m)
    BY <2>4, <2>5 DEF RunUpTo, first
  <2> QED BY <1>2, <2>6
<1> QED BY <1>3, <1>4

\* TickChildren is what the recursion arrives at.
LEMMA TickChildrenIs ==
  ASSUME NEW on, NEW ticks, NEW bb, Len(ticks) \in Nat
  PROVE  \E run : RunUpTo(on, ticks, bb, run, Len(ticks)) /\ TickChildren(on, ticks, bb) = run[Len(ticks)]
<1> DEFINE n == Len(ticks)
           F == CHOOSE run : RunUpTo(on, ticks, bb, run, n)
<1>1. RunUpTo(on, ticks, bb, F, n)
  BY RunExists
<1>2. TickChildren(on, ticks, bb) = F[n]
  BY DEF TickChildren, RunUpTo
<1> QED BY <1>1, <1>2

\* One more child, sound like those before it.
LEMMA OneMoreChild ==
  ASSUME NEW on, NEW ws, NEW tick, Sound(tick, ws), NEW bb,
         NEW before, before.seen \subseteq Unpanicked, Leaves(bb, before.bb, ws)
  PROVE  LET r == TickChild(on, tick, before)
         IN  r.seen \subseteq Unpanicked /\ Leaves(bb, r.bb, ws) /\ Leaves(before.bb, r.bb, ws)
<1>1. before.bb \in Boards
  BY DEF Leaves
<1>2. tick[before.bb].status \in Unpanicked /\ Leaves(before.bb, tick[before.bb].bb, ws)
  BY <1>1 DEF Sound
<1>3. CASE before.seen \subseteq on
  BY <1>2, <1>3, LeavesMore DEF TickChild
<1>4. CASE ~ (before.seen \subseteq on)
  BY <1>1, <1>4, LeavesSelf DEF TickChild
<1> QED BY <1>3, <1>4

\* After each of the children, nothing but ws was written and none panicked.
LEMMA RunIsSound ==
  ASSUME NEW on, NEW ticks, NEW bb \in Boards, NEW ws, NEW n \in Nat, NEW run,
         RunUpTo(on, ticks, bb, run, n), \A j \in 1 .. n : Sound(ticks[j], ws)
  PROVE  \A j \in 0 .. n : run[j].seen \subseteq Unpanicked /\ Leaves(bb, run[j].bb, ws)
<1> DEFINE Fine(j) == run[j].seen \subseteq Unpanicked /\ Leaves(bb, run[j].bb, ws)
           T == {j \in 0 .. n : ~ Fine(j)}
<1>1. \A j \in 1 .. n : run[j] = TickChild(on, ticks[j], run[j-1])
  BY RunStep
<1>2. Fine(0)
  <2>1. run[0] = [seen |-> {}, bb |-> bb]
    BY RunStart
  <2> QED BY <2>1, LeavesSelf
<1>3. ASSUME NEW j \in 1 .. n, Fine(j-1) PROVE Fine(j)
  <2>1. Sound(ticks[j], ws) /\ run[j] = TickChild(on, ticks[j], run[j-1])
    BY <1>1
  <2>2. run[j-1].seen \subseteq Unpanicked /\ Leaves(bb, run[j-1].bb, ws)
    BY <1>3
  <2> QED BY <2>1, <2>2, OneMoreChild
<1> HIDE DEF Fine
<1>4. SUFFICES ASSUME T # {} PROVE FALSE
  BY DEF Fine
<1>5. PICK m \in T : \A i \in T : m <= i
  <2>1. T \subseteq Nat
    OBVIOUS
  <2> HIDE DEF T
  <2> QED BY <1>4, <2>1, LeastElement
<1>6. m # 0 /\ m \in 1 .. n
  BY <1>2
<1>7. m - 1 \in 0 .. n /\ ~ (m <= m - 1)
  BY <1>6
<1>8. Fine(m - 1)
  BY <1>5, <1>7
<1> QED BY <1>3, <1>6, <1>8

\* Neither does a composite of sound children.
LEMMA ChildrenAreSound ==
  ASSUME NEW on, NEW ticks, NEW bb \in Boards, NEW ws, Len(ticks) \in Nat,
         \A j \in 1 .. Len(ticks) : Sound(ticks[j], ws)
  PROVE  LET r == TickChildren(on, ticks, bb) IN r.seen \subseteq Unpanicked /\ Leaves(bb, r.bb, ws)
<1>1. PICK run : RunUpTo(on, ticks, bb, run, Len(ticks)) /\ TickChildren(on, ticks, bb) = run[Len(ticks)]
  BY TickChildrenIs
<1>2. Len(ticks) \in 0 .. Len(ticks)
  OBVIOUS
<1> QED BY <1>1, <1>2, RunIsSound

\* What the first child writes to a key stays, unless another child writes there.
LEMMA FirstChildStays ==
  ASSUME NEW on, NEW ticks, NEW bb \in Boards, NEW ws, Len(ticks) \in Nat \ {0},
         \A j \in 1 .. Len(ticks) : Sound(ticks[j], ws),
         NEW key \in Keys, NEW V, \A w \in ws : w.key = key => w.value \in V,
         ticks[1][bb].bb[key] \in V
  PROVE  TickChildren(on, ticks, bb).bb[key] \in V
<1> DEFINE n == Len(ticks)
<1>1. PICK run : RunUpTo(on, ticks, bb, run, n) /\ TickChildren(on, ticks, bb) = run[n]
  BY TickChildrenIs
<1>2. n \in Nat \ {0} /\ \A j \in 1 .. n : Sound(ticks[j], ws)
  OBVIOUS
<1> HIDE DEF n
<1>3. \A j \in 1 .. n : run[j] = TickChild(on, ticks[j], run[j-1])
  <2>1. n \in Nat
    BY <1>2
  <2> TAKE j \in 1 .. n
  <2>2. j \in 0 .. n /\ j # 0
    BY <2>1
  <2> QED BY <1>1, <2>2 DEF RunUpTo
<1>4. run[1].bb[key] \in V
  <2>1. 1 \in 1 .. n /\ 1 - 1 = 0
    BY <1>2
  <2>2. run[1] = TickChild(on, ticks[1], run[0])
    BY <1>3, <2>1
  <2>3. run[0] = [seen |-> {}, bb |-> bb]
    BY <1>1, <1>2, RunStart
  <2> QED BY <2>2, <2>3 DEF TickChild
<1>5. ASSUME NEW j \in 2 .. n, run[j-1].bb[key] \in V PROVE run[j].bb[key] \in V
  <2>1. j - 1 \in 0 .. n /\ j \in 1 .. n
    BY <1>2
  <2>2. run[j-1].seen \subseteq Unpanicked /\ Leaves(bb, run[j-1].bb, ws)
    BY <1>1, <1>2, <2>1, RunIsSound
  <2>3. Leaves(run[j-1].bb, run[j].bb, ws)
    BY <1>2, <1>3, <2>1, <2>2, OneMoreChild
  <2> QED BY <1>5, <2>3 DEF Leaves
<1> DEFINE T == {j \in 1 .. n : run[j].bb[key] \notin V}
<1>6. SUFFICES T = {}
  <2>1. n \in 1 .. n
    BY <1>2
  <2> QED BY <1>1, <2>1 DEF n
<1>7. SUFFICES ASSUME T # {} PROVE FALSE
  OBVIOUS
<1>8. PICK m \in T : \A i \in T : m <= i
  <2>1. T \subseteq Nat
    BY <1>2
  <2> HIDE DEF T
  <2> QED BY <1>7, <2>1, LeastElement
<1>9. m \in 2 .. n /\ m - 1 \in 1 .. n /\ ~ (m <= m - 1)
  BY <1>2, <1>4
<1> QED BY <1>5, <1>8, <1>9

\* Where no child panicked a composite does not.
LEMMA JudgedUnpanicked ==
  ASSUME NEW one, NEW seen, seen \subseteq Unpanicked
  PROVE  Judged(one, seen) \in Unpanicked
BY DEF Judged, Inverted, Unpanicked, Statuses

\* A write of a value changes its key and no other.
LEMMA PutBoards ==
  ASSUME NEW bb \in Boards, NEW key, NEW value \in Values
  PROVE  /\ Put(bb, key, value) \in Boards
         /\ key \in Keys => Put(bb, key, value)[key] = value
         /\ \A k \in Keys : k # key => Put(bb, key, value)[k] = bb[k]
BY DEF Put, Boards

\* A leaf that was built writes what it says and does not panic.
LEMMA LeafIsSound ==
  ASSUME NEW n, n.value \in Values, NEW known, known \subseteq Keys, LeafBuilds(n, known),
         NEW ws, n.type = "set_bb_value" => n \in ws, NEW bb \in Boards
  PROVE  LET r == TickLeaf(n, bb, known) IN r.status \in Unpanicked /\ Leaves(bb, r.bb, ws)
<1>1. CASE n.type = "set_bb_value"
  <2>1. n.key \in known /\ n.key \in Keys
    BY <1>1 DEF LeafBuilds
  <2>2. TickLeaf(n, bb, known) = Result("success", Put(bb, n.key, n.value))
    BY <1>1, <2>1 DEF TickLeaf
  <2>3. Leaves(bb, Put(bb, n.key, n.value), ws)
    BY <1>1, <2>1, PutBoards DEF Leaves
  <2> QED BY <2>2, <2>3 DEF Result, Unpanicked, Statuses
<1>2. CASE n.type \in {"check_bb_float", "check_bb_string"}
  <2>1. PICK holds : TickLeaf(n, bb, known) = Result(Verdict(holds), bb)
    BY <1>2 DEF TickLeaf
  <2> QED BY <2>1, LeavesSelf DEF Result, Verdict, Unpanicked, Statuses
<1>3. CASE n.type = "stub_action"
  <2>1. n.op \in {Blank, "success", "failure", "running"}
    BY <1>3 DEF LeafBuilds
  <2>2. TickLeaf(n, bb, known) = Result(IF n.op = Blank THEN "success" ELSE n.op, bb)
    BY <1>3 DEF TickLeaf
  <2> QED BY <2>1, <2>2, LeavesSelf DEF Result, Unpanicked, Statuses
<1>4. n.type \in {"check_bb_float", "check_bb_string", "set_bb_value", "stub_action"}
  BY DEF LeafBuilds
<1> QED BY <1>1, <1>2, <1>3, <1>4

\* Nor does a node over sound children.
LEMMA NodeIsSound ==
  ASSUME NEW n, n.value \in Values, NEW known, known \subseteq Keys, NodeBuilds(n, known),
         NEW ws, n.type = "set_bb_value" => n \in ws,
         NEW ticks, Len(ticks) \in Nat, n.type = "inverter" => Len(ticks) # 0,
         \A j \in 1 .. Len(ticks) : Sound(ticks[j], ws), NEW bb \in Boards
  PROVE  LET r == TickNode(n, ticks, bb, known) IN r.status \in Unpanicked /\ Leaves(bb, r.bb, ws)
<1>1. CASE n.type \in Composites
  <2> DEFINE r == TickChildren(GoesOn(n.type), ticks, bb)
  <2>1. r.seen \subseteq Unpanicked /\ Leaves(bb, r.bb, ws)
    BY ChildrenAreSound
  <2>2. TickNode(n, ticks, bb, known) = Result(Judged(EnoughIsOne(n), r.seen), r.bb)
    BY <1>1 DEF TickNode, Composites
  <2> QED BY <2>1, <2>2, JudgedUnpanicked DEF Result
<1>2. CASE n.type = "inverter"
  <2> DEFINE r == ticks[1][bb]
  <2>1. r.status \in Unpanicked /\ Leaves(bb, r.bb, ws)
    BY <1>2 DEF Sound
  <2>2. TickNode(n, ticks, bb, known) = Result(Inverted(r.status), r.bb)
    BY <1>2 DEF TickNode, Composites
  <2> QED BY <2>1, <2>2 DEF Result, Inverted, Unpanicked, Statuses
<1>3. CASE n.type \notin Composites \cup {"inverter"}
  <2>1. LeafBuilds(n, known) /\ TickNode(n, ticks, bb, known) = TickLeaf(n, bb, known)
    BY <1>3 DEF NodeBuilds, TickNode
  <2> QED BY <2>1, LeafIsSound
<1> QED BY <1>1, <1>2, <1>3

\* tick gives, for each of the first m nodes, what a tick of it does.
TicksUpTo(tree, known, tick, m) ==
  tick = [k \in 1 .. m |-> [b \in Boards |-> TickNode(tree[k], OfChildren(tree[k], tick), b, known)]]

\* The recursion of TickTree has a solution.
LEMMA TicksExist ==
  ASSUME NEW tree, IsTree(tree), NEW known
  PROVE  \E tick : TicksUpTo(tree, known, tick, Len(tree))
<1> DEFINE n == Len(tree)
           T == {m \in 0 .. n : ~ \E tick : TicksUpTo(tree, known, tick, m)}
           Ticks(k, tick) == [b \in Boards |-> TickNode(tree[k], OfChildren(tree[k], tick), b, known)]
<1>1. /\ n \in Nat
      /\ \A k \in 1 .. n : /\ DOMAIN tree[k].children = 1 .. Len(tree[k].children)
                           /\ \A j \in 1 .. Len(tree[k].children) : tree[k].children[j] \in 1 .. k-1
  BY TreeShape
<1> HIDE DEF n
<1>2. SUFFICES ASSUME T # {} PROVE FALSE
  <2>1. n \in 0 .. n
    BY <1>1
  <2> QED BY <2>1 DEF n
<1>3. PICK m \in T : \A i \in T : m <= i
  <2>1. T \subseteq Nat
    BY <1>1
  <2> HIDE DEF T
  <2> QED BY <1>2, <2>1, LeastElement
<1>4. m \in Nat /\ m <= n
  BY <1>1
<1>5. CASE m = 0
  <2> DEFINE tick == [k \in 1 .. 0 |-> {}]
  <2>1. TicksUpTo(tree, known, tick, 0)
    BY DEF TicksUpTo
  <2> QED BY <1>3, <1>5, <2>1
<1>6. CASE m # 0
  <2>1. m - 1 \in 0 .. n /\ m - 1 \notin T
    BY <1>1, <1>3, <1>4, <1>6
  <2>2. PICK tick : TicksUpTo(tree, known, tick, m - 1)
    BY <2>1
  <2> DEFINE g == [k \in 1 .. m |-> IF k = m THEN Ticks(m, tick) ELSE tick[k]]
  <2>3. \A k \in 1 .. m - 1 : tick[k] = Ticks(k, tick)
    BY <2>2 DEF TicksUpTo
  <2>4. ASSUME NEW k \in 1 .. m
        PROVE  Ticks(k, tick) = Ticks(k, g)
    <3>1. ASSUME NEW j \in DOMAIN tree[k].children
          PROVE  tick[tree[k].children[j]] = g[tree[k].children[j]]
      <4>1. k \in 1 .. n /\ k <= m /\ k \in Nat
        BY <1>1, <1>4
      <4>2. tree[k].children[j] \in 1 .. k-1
        BY <1>1, <4>1
      <4>3. tree[k].children[j] \in 1 .. m /\ tree[k].children[j] # m
        BY <1>4, <4>1, <4>2
      <4> QED BY <4>3
    <3>2. OfChildren(tree[k], tick) = OfChildren(tree[k], g)
      BY <3>1 DEF OfChildren
    <3> QED BY <3>2
  <2> HIDE DEF Ticks
  <2>5. ASSUME NEW k \in 1 .. m
        PROVE  g[k] = Ticks(k, g)
    <3>1. CASE k = m
      BY <2>4, <3>1
    <3>2. CASE k # m
      <4>1. k \in 1 .. m - 1 /\ g[k] = tick[k]
        BY <1>4, <3>2
      <4> QED BY <2>3, <2>4, <4>1
    <3> QED BY <3>1, <3>2
  <2> HIDE DEF g
  <2>6. g = [k \in 1 .. m |-> g[k]]
    BY DEF g
  <2>7. TicksUpTo(tree, known, g, m)
    BY <2>5, <2>6 DEF TicksUpTo, Ticks
  <2> QED BY <1>3, <2>7
<1> QED BY <1>5, <1>6

\* TickTree is what the recursion arrives at.
LEMMA TickTreeIs ==
  ASSUME NEW tree, IsTree(tree), NEW known, NEW bb
  PROVE  \E tick : /\ TicksUpTo(tree, known, tick, Len(tree))
                   /\ TickTree(tree, bb, known) = tick[Len(tree)][bb]
<1> DEFINE n == Len(tree)
           F == CHOOSE tick : TicksUpTo(tree, known, tick, n)
<1>1. TicksUpTo(tree, known, F, n)
  BY TicksExist
<1>2. TickTree(tree, bb, known) = F[n][bb]
  BY TreeShape DEF TickTree, TicksUpTo
<1> QED BY <1>1, <1>2

\* The ticks of the children, in their order.
LEMMA OfChildrenLen ==
  ASSUME NEW n, n.children \in Seq(Nat), NEW tick
  PROVE  /\ Len(OfChildren(n, tick)) = Len(n.children)
         /\ \A j \in 1 .. Len(n.children) : OfChildren(n, tick)[j] = tick[n.children[j]]
<1> DEFINE l == Len(n.children)
           f == OfChildren(n, tick)
<1>1. l \in Nat /\ DOMAIN n.children = 1 .. l
  BY LenProperties
<1>2. f = [j \in 1 .. l |-> tick[n.children[j]]]
  BY <1>1 DEF OfChildren
<1> HIDE DEF l, f
<1>3. f \in [1 .. l -> {f[j] : j \in 1 .. l}]
  BY <1>2
<1>4. Len(f) = l
  BY <1>1, <1>3, FunctionIsSeq
<1> QED BY <1>2, <1>4 DEF l, f

\* Every node of a tree that was built is sound.
LEMMA TicksAreSound ==
  ASSUME NEW tree, IsTree(tree), NEW known, known \subseteq Keys, Builds(tree, known),
         NEW tick, TicksUpTo(tree, known, tick, Len(tree)), NEW k \in 1 .. Len(tree)
  PROVE  /\ Sound(tick[k], Setters(tree))
         /\ \A j \in 1 .. Len(tree[k].children) : Sound(OfChildren(tree[k], tick)[j], Setters(tree))
<1> DEFINE n == Len(tree)
           ws == Setters(tree)
           T == {i \in 1 .. n : ~ Sound(tick[i], ws)}
<1>1. /\ n \in Nat /\ DOMAIN tree = 1 .. n
      /\ \A i \in 1 .. n : /\ tree[i].value \in Values /\ tree[i].children \in Seq(Nat)
                           /\ Len(tree[i].children) \in Nat
                           /\ \A j \in 1 .. Len(tree[i].children) : tree[i].children[j] \in 1 .. i-1
  BY TreeShape
<1>2. \A i \in 1 .. n : NodeBuilds(tree[i], known) /\ (tree[i].type = "set_bb_value" => tree[i] \in ws)
  BY <1>1 DEF Builds, Range, Setters
<1>3. \A i \in 1 .. n :
        tick[i] = [b \in Boards |-> TickNode(tree[i], OfChildren(tree[i], tick), b, known)]
  BY DEF TicksUpTo
<1>4. k \in 1 .. n
  OBVIOUS
<1> HIDE DEF n, ws
<1>5. ASSUME NEW i \in 1 .. n, \A j \in 1 .. i-1 : Sound(tick[j], ws)
      PROVE  \A j \in 1 .. Len(tree[i].children) : Sound(OfChildren(tree[i], tick)[j], ws)
  BY <1>1, <1>5, OfChildrenLen
<1>6. ASSUME NEW i \in 1 .. n, \A j \in 1 .. i-1 : Sound(tick[j], ws)
      PROVE  Sound(tick[i], ws)
  <2> DEFINE ticks == OfChildren(tree[i], tick)
  <2>1. Len(ticks) = Len(tree[i].children) /\ Len(ticks) \in Nat
    BY <1>1, OfChildrenLen
  <2>2. \A j \in 1 .. Len(ticks) : Sound(ticks[j], ws)
    BY <1>5, <1>6, <2>1
  <2>3. tree[i].type = "inverter" => Len(ticks) # 0
    <3>1. tree[i].type = "inverter" => tree[i].children # <<>>
      BY <1>2 DEF NodeBuilds, Composites
    <3> QED BY <1>1, <2>1, <3>1, EmptySeq
  <2>4. ASSUME NEW b \in Boards
        PROVE  tick[i][b].status \in Unpanicked /\ Leaves(b, tick[i][b].bb, ws)
    <3>1. tick[i][b] = TickNode(tree[i], ticks, b, known)
      BY <1>3
    <3> HIDE DEF ticks
    <3> QED BY <1>1, <1>2, <2>1, <2>2, <2>3, <3>1, NodeIsSound
  <2> QED BY <2>4 DEF Sound
<1>7. T = {}
  <2> SUFFICES ASSUME T # {} PROVE FALSE
    OBVIOUS
  <2>1. PICK i \in T : \A j \in T : i <= j
    <3>1. T \subseteq Nat
      BY <1>1
    <3> HIDE DEF T
    <3> QED BY <3>1, LeastElement
  <2>2. i \in 1 .. n /\ \A j \in 1 .. i-1 : j \in 1 .. n /\ ~ (i <= j)
    BY <1>1
  <2>3. \A j \in 1 .. i-1 : Sound(tick[j], ws)
    BY <2>1, <2>2
  <2> QED BY <1>6, <2>1, <2>2, <2>3
<1>8. \A j \in 1 .. k-1 : Sound(tick[j], ws)
  <2>1. \A j \in 1 .. k-1 : j \in 1 .. n
    BY <1>1, <1>4
  <2> QED BY <1>7, <2>1
<1> QED BY <1>4, <1>5, <1>6, <1>8 DEF ws

\* A tick of a tree that was built does not panic and writes nothing but what its set_bb_value
\* nodes say, under the keys they say.
THEOREM TreeIsSound ==
  ASSUME NEW tree, IsTree(tree), NEW known, known \subseteq Keys, Builds(tree, known), NEW bb \in Boards
  PROVE  LET r == TickTree(tree, bb, known)
         IN  r.status \in Unpanicked /\ Leaves(bb, r.bb, Setters(tree))
<1>1. PICK tick : /\ TicksUpTo(tree, known, tick, Len(tree))
                  /\ TickTree(tree, bb, known) = tick[Len(tree)][bb]
  BY TickTreeIs
<1>2. Len(tree) \in 1 .. Len(tree)
  BY TreeShape
<1>3. Sound(tick[Len(tree)], Setters(tree))
  BY <1>1, <1>2, TicksAreSound
<1> QED BY <1>1, <1>3 DEF Sound

\* The action that a tree shows once it has been ticked is one of those it names.
Named(tree) == {w.value : w \in {v \in Setters(tree) : v.key = "current_action"}}

\* A tree that begins by naming an action leaves one that it names, whatever it does next: its
\* first child is always ticked and succeeds, and the others write only values of the tree.
THEOREM AnnouncedIsNamed ==
  ASSUME NEW tree, IsTree(tree), Announces(tree), "current_action" \in Keys,
         NEW known, known \subseteq Keys, Builds(tree, known), NEW bb \in Boards
  PROVE  TickTree(tree, bb, known).bb["current_action"] \in Named(tree)
<1> DEFINE n == Len(tree)
           root == tree[n]
<1>1. PICK tick : /\ TicksUpTo(tree, known, tick, n)
                  /\ TickTree(tree, bb, known) = tick[n][bb]
  BY TickTreeIs
<1> DEFINE ticks == OfChildren(root, tick)
           first == tree[root.children[1]]
<1>2. /\ n \in 1 .. n /\ DOMAIN tree = 1 .. n
      /\ root.children \in Seq(Nat) /\ Len(root.children) \in Nat
      /\ \A j \in 1 .. Len(root.children) : root.children[j] \in 1 .. n-1
      /\ \A k \in 1 .. n : tree[k].value \in Values
  BY TreeShape
<1>3. /\ root.type = "sequence" /\ root.children # <<>>
      /\ first.type = "set_bb_value" /\ first.key = "current_action"
  BY <1>2 DEF Announces, Root
<1>4. Len(ticks) = Len(root.children) /\ Len(ticks) \in Nat \ {0}
  BY <1>2, <1>3, OfChildrenLen, EmptySeq
<1>5. \A j \in 1 .. Len(ticks) : Sound(ticks[j], Setters(tree))
  BY <1>1, <1>2, <1>4, TicksAreSound
<1>6. ticks[1] = tick[root.children[1]] /\ root.children[1] \in 1 .. n
  <2>1. 1 \in 1 .. Len(root.children)
    BY <1>4
  <2> QED BY <1>2, <2>1, OfChildrenLen
<1>7. ticks[1][bb].bb["current_action"] \in Named(tree)
  <2>1. tick[root.children[1]] =
          [b \in Boards |-> TickNode(first, OfChildren(first, tick), b, known)]
    BY <1>1, <1>6 DEF TicksUpTo
  <2>2. ticks[1][bb] = TickNode(first, OfChildren(first, tick), bb, known)
    BY <1>6, <2>1
  <2>3. first \in Setters(tree) /\ NodeBuilds(first, known) /\ first.value \in Values
    BY <1>2, <1>3, <1>6 DEF Setters, Builds, Range
  <2> HIDE DEF first
  <2>4. LeafBuilds(first, known) /\ ticks[1][bb] = TickLeaf(first, bb, known)
    BY <1>3, <2>2, <2>3 DEF NodeBuilds, TickNode, Composites
  <2>5. first.key \in known
    BY <1>3, <2>4 DEF LeafBuilds
  <2>6. ticks[1][bb] = Result("success", Put(bb, "current_action", first.value))
    BY <1>3, <2>4, <2>5 DEF TickLeaf
  <2>7. ticks[1][bb].bb["current_action"] = first.value
    BY <2>3, <2>6, PutBoards DEF Result
  <2> QED BY <1>3, <2>3, <2>7 DEF Named
<1>8. TickChildren({"success"}, ticks, bb).bb["current_action"] \in Named(tree)
  <2>1. \A w \in Setters(tree) : w.key = "current_action" => w.value \in Named(tree)
    BY DEF Named
  <2> HIDE DEF ticks
  <2> QED BY <1>4, <1>5, <1>7, <2>1, FirstChildStays
<1>9. tick[n][bb] = TickNode(root, ticks, bb, known)
  BY <1>1, <1>2 DEF TicksUpTo
<1> HIDE DEF root, ticks, n
<1>10. TickNode(root, ticks, bb, known).bb = TickChildren({"success"}, ticks, bb).bb
  BY <1>3 DEF TickNode, Composites, GoesOn, Result
<1> QED BY <1>1, <1>8, <1>9, <1>10 DEF n

-----------------------------------------------------------------------------
(* An NPC's brain *)

\* What wiring leaves of a template that wires.
Wired(t, known) ==
  /\ Blank \notin Range(t.states) /\ \A r \in Range(t.transitions) : r.to \in Range(t.states)
  /\ \A s \in DOMAIN t.trees : Builds(t.trees[s], known)

Shaped(i) ==
  LET t == Templates[i.template]
  IN  i \in [template : DOMAIN Templates, state : Range(t.states),
             table : [Range(t.states) -> Seq(DOMAIN t.transitions)], bb : Boards]

Written(t) == {w.key : w \in UNION {Setters(t.trees[s]) : s \in DOMAIN t.trees}}
ShowsState(i) ==
  "fsm_state" \notin Written(Templates[i.template]) => i.bb["fsm_state"] = Text(i.state)

ShowsAction(i) ==
  LET t == Templates[i.template]
  IN  /\ i.state \in DOMAIN t.trees /\ "current_action" \notin DOMAIN t.fields
      /\ Announces(t.trees[i.state]) /\ Has(i.bb, "current_action")
      => i.bb["current_action"] \in Named(t.trees[i.state])

Typed(i) == WellTyped(Templates[i.template]) => \A k \in DOMAIN KeyType : ~ Mistyped(i.bb, k)

\* All that holds of an NPC between the FSM and the tree, and all that holds of it elsewhere.
Moved(i, known) == Shaped(i) /\ Wired(Templates[i.template], known) /\ ShowsState(i) /\ Typed(i)
Sane(i, known) == Moved(i, known) /\ ShowsAction(i)

\* The inductive invariant.
BrainInv ==
  /\ keys \subseteq Keys
  /\ DOMAIN npc = Npcs /\ \A n \in Live : Sane(npc[n], keys)
  /\ order \in Seq(Live)
  /\ TypingIsSound

\* The keys of the program are keys of a blackboard.
LEMMA KeyTypeKeys ==
  /\ DOMAIN KeyType = {"threat_level", "last_event_type", "threat_expire_at", "current_time", "fsm_state",
                       "current_action", "group_alert", "emotion_dominant_val", "npc_pos_x"}
  /\ DOMAIN KeyType \subseteq Keys
BY BrainAssumption DEF BrainAssumption, KeyType

\* Every template is what JSON decodes to.
LEMMA TemplateShape ==
  ASSUME NEW name \in DOMAIN Templates
  PROVE  IsTemplate(Templates[name])
BY BrainAssumption DEF BrainAssumption

\* The values that Go code writes.
LEMMA ValuesWritten ==
  /\ \A n \in Int : Float64(n) \in Values /\ Int64(n) \in Values
  /\ \A s \in Strings : Text(s) \in Values
  /\ \A b : Flag(b) \in Values
<1>1. Blank \in Strings
  BY BrainAssumption DEF BrainAssumption
<1> QED BY <1>1 DEF Float64, Int64, Text, Flag, Value, Values, Scalars

\* NoNpc is in no state.
LEMMA SaneIsLive ==
  ASSUME NEW i, NEW known, Moved(i, known)
  PROVE  i # NoNpc
<1>1. i.state \in Range(Templates[i.template].states)
  BY DEF Moved, Shaped
<1>2. i.state # Blank
  BY <1>1 DEF Moved, Wired
<1> QED BY <1>2 DEF NoNpc

\* What was built stays so while more keys are registered.
LEMMA WiredMore ==
  ASSUME NEW t, NEW known, NEW more, known \subseteq more, Wired(t, known)
  PROVE  Wired(t, more)
<1>1. \A n : LeafBuilds(n, known) => LeafBuilds(n, more)
  BY DEF LeafBuilds
<1>2. \A n : NodeBuilds(n, known) => NodeBuilds(n, more)
  BY <1>1 DEF NodeBuilds
<1> QED BY <1>2 DEF Wired, Builds

\* A sane NPC stays so while more keys are registered.
LEMMA SaneMore ==
  ASSUME NEW i, NEW known, NEW more, known \subseteq more, Sane(i, known)
  PROVE  Sane(i, more)
BY WiredMore DEF Sane, Moved

\* A change of the blackboard that concerns neither the state nor the action it shows.
LEMMA BoardChange ==
  ASSUME NEW i, NEW known, Sane(i, known), NEW bb \in Boards,
         bb["fsm_state"] = i.bb["fsm_state"], bb["current_action"] = i.bb["current_action"],
         \A k \in DOMAIN KeyType : Mistyped(bb, k) => Mistyped(i.bb, k)
  PROVE  Sane([i EXCEPT !.bb = bb], known)
<1> DEFINE j == [i EXCEPT !.bb = bb]
           t == Templates[i.template]
<1>1. Shaped(i)
  BY DEF Sane, Moved
<1>2. j.template = i.template /\ j.state = i.state /\ j.bb = bb /\ Shaped(j)
  BY <1>1 DEF Shaped
<1> HIDE DEF j
<1>3. ShowsState(j) /\ Typed(j)
  BY <1>2 DEF Sane, Moved, ShowsState, Typed
<1>4. ShowsAction(j)
  BY <1>2 DEF Sane, ShowsAction, Has
<1> QED BY <1>2, <1>3, <1>4 DEF Sane, Moved, j

\* The order of a finite set is a sequence of its elements.
LEMMA OrderIsSeq ==
  ASSUME NEW S, IsFiniteSet(S), NEW o \in SetToSeqs(S)
  PROVE  o \in Seq(S)
<1>1. Cardinality(S) \in Nat /\ o \in [1 .. Cardinality(S) -> S]
  BY FS_CardinalityType DEF SetToSeqs
<1> QED BY <1>1, FunctionIsSeq

\* The table of transitions an NPC gets.
LEMMA TablesShape ==
  ASSUME NEW name \in DOMAIN Templates, NEW table \in Tables[name]
  PROVE  table \in [Range(Templates[name].states) -> Seq(DOMAIN Templates[name].transitions)]
<1> DEFINE t == Templates[name]
           states == Range(t.states)
<1>1. DOMAIN table = states /\ table = [s \in DOMAIN table |-> table[s]]
      /\ \A s \in states : table[s] \in Orders(t, s)
  BY DEF Tables
<1>2. ASSUME NEW s \in states PROVE table[s] \in Seq(DOMAIN t.transitions)
  <2> DEFINE S == {k \in DOMAIN t.transitions : t.transitions[k].from = s}
  <2>1. IsFiniteSet(S)
    BY TemplateShape, FS_Subset DEF IsTemplate
  <2>2. table[s] \in SetToSeqs(S)
    BY <1>1 DEF Orders
  <2>3. table[s] \in Seq(S)
    BY <2>1, <2>2, OrderIsSeq
  <2>4. S \subseteq DOMAIN t.transitions
    OBVIOUS
  <2> HIDE DEF S
  <2>5. Len(table[s]) \in Nat /\ table[s] \in [1 .. Len(table[s]) -> DOMAIN t.transitions]
    BY <2>3, <2>4, LenProperties
  <2> QED BY <2>5, FunctionIsSeq
<1> HIDE DEF t, states
<1> QED BY <1>1, <1>2 DEF t, states

\* A value of the right type under a key of the program.
LEMMA PutTyped ==
  ASSUME NEW bb \in Boards, NEW key \in DOMAIN KeyType, NEW value \in Values, value.type = KeyType[key]
  PROVE  /\ Put(bb, key, value) \in Boards
         /\ \A k \in DOMAIN KeyType : Mistyped(Put(bb, key, value), k) => Mistyped(bb, k)
<1> DEFINE b == Put(bb, key, value)
<1>1. b \in Boards /\ b[key] = value /\ \A k \in Keys : k # key => b[k] = bb[k]
  BY KeyTypeKeys, PutBoards
<1> HIDE DEF b
<1>2. \A k \in DOMAIN KeyType : Mistyped(b, k) => Mistyped(bb, k)
  BY <1>1 DEF Mistyped, Has
<1> QED BY <1>1, <1>2 DEF b

\* What Go code writes has the type it is read with.
LEMMA TypesOfTheDecision ==
  /\ \A n : Float64(n).type = KeyType["threat_level"] /\ Int64(n).type = KeyType["threat_expire_at"]
  /\ \A s : Text(s).type = KeyType["last_event_type"] /\ Text(s).type = KeyType["fsm_state"]
  /\ \A b : Flag(b).type = KeyType["group_alert"]
BY DEF Float64, Int64, Text, Flag, Value, KeyType

\* A number on a blackboard is one.
LEMMA NumberOnBoard ==
  ASSUME NEW bb \in Boards, NEW k \in Keys
  PROVE  bb[k].num \in Int
BY DEF Boards, Values, Absent, Value

\* Times and levels stay numbers.
LEMMA MinusInt ==
  ASSUME NEW a \in Int, NEW b \in Int
  PROVE  Minus(a, b) \in Int
BY DEF Minus

\* The decision leaves the state and the action alone and mistypes nothing.
LEMMA DecideBoard ==
  ASSUME NEW bb \in Boards, NEW heard \in Nat
  PROVE  LET b == Decide(bb, heard) IN
         /\ b \in Boards
         /\ b["fsm_state"] = bb["fsm_state"] /\ b["current_action"] = bb["current_action"]
         /\ \A k \in DOMAIN KeyType : Mistyped(b, k) => Mistyped(bb, k)
<1> DEFINE b == Decide(bb, heard)
           Kept(c) == /\ c \in Boards
                      /\ c["fsm_state"] = bb["fsm_state"] /\ c["current_action"] = bb["current_action"]
                      /\ \A k \in DOMAIN KeyType : Mistyped(c, k) => Mistyped(bb, k)
<1>1. ASSUME NEW c, Kept(c), NEW key \in {"threat_level", "last_event_type", "threat_expire_at"},
             NEW value \in Values, value.type = KeyType[key]
      PROVE  Kept(Put(c, key, value))
  <2>1. c \in Boards /\ key \in DOMAIN KeyType /\ "fsm_state" \in Keys /\ "current_action" \in Keys
    BY <1>1, KeyTypeKeys
  <2>2. /\ Put(c, key, value) \in Boards
        /\ \A k \in DOMAIN KeyType : Mistyped(Put(c, key, value), k) => Mistyped(c, k)
    BY <1>1, <2>1, PutTyped
  <2>3. \A k \in Keys : k # key => Put(c, key, value)[k] = c[k]
    BY <1>1, <2>1, PutBoards
  <2>4. Put(c, key, value)["fsm_state"] = c["fsm_state"]
        /\ Put(c, key, value)["current_action"] = c["current_action"]
    BY <2>1, <2>3
  <2> QED BY <1>1, <2>2, <2>4
<1>2. Kept(bb)
  OBVIOUS
<1>3. \A n \in Int : Float64(n) \in Values /\ Int64(n) \in Values
  BY ValuesWritten
<1>4. Text("alarm") \in Values /\ Text(Blank) \in Values
  BY ValuesWritten, BrainAssumption DEF BrainAssumption
<1> HIDE DEF Kept
<1>5. CASE heard # 0
  <2>1. Kept(Put(bb, "threat_level", Float64(heard)))
    BY <1>1, <1>2, <1>3, TypesOfTheDecision
  <2>2. Kept(Put(Put(bb, "threat_level", Float64(heard)), "last_event_type", Text("alarm")))
    BY <1>1, <1>4, <2>1, TypesOfTheDecision
  <2>3. Int64(ThreatTtl) \in Values
    BY <1>3, BrainAssumption DEF BrainAssumption
  <2>4. Kept(Put(Put(Put(bb, "threat_level", Float64(heard)), "last_event_type", Text("alarm")),
                 "threat_expire_at", Int64(ThreatTtl)))
    BY <1>1, <2>2, <2>3, TypesOfTheDecision
  <2>5. Kept(b)
    BY <1>5, <2>4 DEF Decide
  <2> QED BY <2>5 DEF Kept
<1>6. CASE heard = 0
  <2> DEFINE level == Minus(bb["threat_level"].num, Decay)
             decayed == Put(bb, "threat_level", Float64(level))
  <2>1. b = bb \/ b = decayed \/ b = Put(decayed, "last_event_type", Text(Blank))
    BY <1>6 DEF Decide
  <2>2. level \in Int
    <3>1. "threat_level" \in Keys /\ Decay \in Int
      BY KeyTypeKeys, BrainAssumption DEF BrainAssumption
    <3>2. bb["threat_level"].num \in Int
      BY <3>1, NumberOnBoard
    <3> QED BY <3>1, <3>2, MinusInt
  <2> HIDE DEF level
  <2>3. Kept(decayed)
    BY <1>1, <1>2, <1>3, <2>2, TypesOfTheDecision
  <2> HIDE DEF decayed
  <2>4. Kept(Put(decayed, "last_event_type", Text(Blank)))
    BY <1>1, <1>4, <2>3, TypesOfTheDecision
  <2>5. Kept(b)
    BY <1>2, <2>1, <2>3, <2>4
  <2> QED BY <2>5 DEF Kept
<1> QED BY <1>5, <1>6

\* The FSM goes to a state it has and shows it.
LEMMA FsmMoved ==
  ASSUME NEW i, NEW known, Moved(i, known), NEW bb \in Boards, bb["fsm_state"] = i.bb["fsm_state"],
         \A k \in DOMAIN KeyType : Mistyped(bb, k) => Mistyped(i.bb, k)
  PROVE  Moved(FsmTick(i, bb), known) /\ FsmTick(i, bb).template = i.template
<1> DEFINE t == Templates[i.template]
           mine == i.table[i.state]
           ready == {k \in DOMAIN mine : Evaluate(t.transitions[mine[k]].condition, bb)}
           j == FsmTick(i, bb)
<1>1. Shaped(i) /\ Wired(t, known)
  BY DEF Moved
<1>2. i.state \in Range(t.states) /\ mine \in Seq(DOMAIN t.transitions) /\ i.template \in DOMAIN Templates
  BY <1>1 DEF Shaped
<1>3. CASE ready = {}
  <2>1. j = [i EXCEPT !.bb = bb]
    BY <1>3 DEF FsmTick
  <2>2. j.template = i.template /\ j.state = i.state /\ j.bb = bb /\ Shaped(j)
    BY <1>1, <2>1 DEF Shaped
  <2> HIDE DEF j
  <2>3. ShowsState(j) /\ Typed(j)
    BY <2>2 DEF Moved, ShowsState, Typed
  <2> QED BY <1>1, <2>2, <2>3 DEF Moved, j
<1>4. CASE ready # {}
  <2> DEFINE to == t.transitions[mine[Min(ready)]].to
  <2>1. Min(ready) \in DOMAIN mine
    <3>1. ready \subseteq DOMAIN mine /\ DOMAIN mine \subseteq Nat
      BY <1>2, LenProperties
    <3> HIDE DEF ready
    <3> QED BY <1>4, <3>1, MinMember
  <2>2. to \in Range(t.states)
    <3>1. mine[Min(ready)] \in DOMAIN t.transitions
      <4>1. \A k \in DOMAIN mine : mine[k] \in DOMAIN t.transitions
        BY <1>2, LenProperties
      <4> HIDE DEF ready
      <4> QED BY <2>1, <4>1
    <3>2. t.transitions[mine[Min(ready)]] \in Range(t.transitions)
      BY <3>1 DEF Range
    <3> QED BY <1>1, <3>2 DEF Wired
  <2>3. j = [i EXCEPT !.state = to, !.bb = Put(bb, "fsm_state", Text(to))]
    BY <1>4 DEF FsmTick
  <2>4. Text(to) \in Values /\ Text(to).type = KeyType["fsm_state"]
        /\ "fsm_state" \in DOMAIN KeyType /\ "fsm_state" \in Keys
    <3>1. t.states \in Seq(Strings)
      BY <1>2, TemplateShape DEF IsTemplate
    <3>2. to \in Strings
      BY <2>2, <3>1, LenProperties DEF Range
    <3> QED BY <3>2, ValuesWritten, TypesOfTheDecision, KeyTypeKeys
  <2> HIDE DEF to
  <2> DEFINE b == Put(bb, "fsm_state", Text(to))
  <2>5. b \in Boards /\ b["fsm_state"] = Text(to)
        /\ \A k \in DOMAIN KeyType : Mistyped(b, k) => Mistyped(bb, k)
    BY <2>4, PutBoards, PutTyped
  <2> HIDE DEF b
  <2>6. j.template = i.template /\ j.state = to /\ j.bb = b /\ Shaped(j)
    BY <1>1, <2>2, <2>3, <2>5 DEF Shaped, b
  <2> HIDE DEF j
  <2>7. ShowsState(j)
    BY <2>5, <2>6 DEF ShowsState
  <2>8. Typed(j)
    BY <2>5, <2>6 DEF Moved, Typed
  <2> QED BY <1>1, <2>6, <2>7, <2>8 DEF Moved, j
<1> QED BY <1>3, <1>4

\* The tree of the state leaves the NPC sane: it shows an action of that tree.
LEMMA ActIsSane ==
  ASSUME NEW i, keys \subseteq Keys, Moved(i, keys), NEW before
  PROVE  Act(before, i).status # "panic" /\ Sane([i EXCEPT !.bb = Act(before, i).bb], keys)
<1> DEFINE t == Templates[i.template]
           r == Act(before, i)
           j == [i EXCEPT !.bb = r.bb]
           tree == t.trees[i.state]
<1>1. Shaped(i) /\ Wired(t, keys)
  BY DEF Moved
<1>2. i.bb \in Boards /\ i.template \in DOMAIN Templates
  BY <1>1 DEF Shaped
<1>3. CASE i.state \notin DOMAIN t.trees
  <2>1. r = Result("success", i.bb)
    BY <1>3 DEF Act
  <2>2. j.template = i.template /\ j.state = i.state /\ j.bb = i.bb /\ Shaped(j)
    BY <1>1, <2>1 DEF Shaped, Result
  <2>3. r.status # "panic"
    BY <2>1 DEF Result
  <2> HIDE DEF j
  <2>4. ShowsState(j) /\ Typed(j) /\ ShowsAction(j)
    BY <1>3, <2>2 DEF Moved, ShowsState, Typed, ShowsAction
  <2> QED BY <1>1, <2>2, <2>3, <2>4 DEF Moved, Sane, j
<1>4. CASE i.state \in DOMAIN t.trees
  <2>1. r = TickTree(tree, i.bb, keys)
    BY <1>4 DEF Act
  <2>2. IsTree(tree) /\ Builds(tree, keys)
    BY <1>1, <1>2, <1>4, TemplateShape DEF IsTemplate, Wired
  <2>3. r.status \in Unpanicked /\ Leaves(i.bb, r.bb, Setters(tree))
    BY <1>2, <2>1, <2>2, TreeIsSound
  <2>4. r.bb \in Boards
        /\ \A k \in Keys : r.bb[k] = i.bb[k] \/ \E w \in Setters(tree) : w.key = k /\ r.bb[k] = w.value
    BY <2>3 DEF Leaves
  <2>5. Announces(tree) => r.bb["current_action"] \in Named(tree)
    BY <1>2, <2>1, <2>2, AnnouncedIsNamed, KeyTypeKeys
  <2> HIDE DEF r
  <2>6. j.template = i.template /\ j.state = i.state /\ j.bb = r.bb /\ Shaped(j)
    BY <1>1, <2>4 DEF Shaped
  <2> HIDE DEF j
  <2>7. ShowsState(j)
    <3>1. ASSUME "fsm_state" \notin Written(t) PROVE r.bb["fsm_state"] = i.bb["fsm_state"]
      <4>1. \A w \in Setters(tree) : w.key \in Written(t)
        BY <1>4 DEF Written
      <4> QED BY <2>4, <3>1, <4>1, KeyTypeKeys
    <3> QED BY <2>6, <3>1 DEF Moved, ShowsState
  <2>8. Typed(j)
    <3>1. ASSUME WellTyped(t), NEW k \in DOMAIN KeyType PROVE ~ Mistyped(r.bb, k)
      <4>1. \A w \in Setters(tree) : FitsKey(w.key, w.value)
        BY <1>4, <3>1 DEF WellTyped
      <4>2. ~ Mistyped(i.bb, k)
        BY <3>1 DEF Moved, Typed
      <4>3. k \in Keys
        BY KeyTypeKeys
      <4> QED BY <2>4, <4>1, <4>2, <4>3 DEF Mistyped, Has, FitsKey
    <3> QED BY <2>6, <3>1 DEF Typed
  <2>9. ShowsAction(j)
    BY <2>5, <2>6 DEF ShowsAction
  <2>10. r.status # "panic"
    BY <2>3 DEF Unpanicked
  <2> QED BY <1>1, <2>6, <2>7, <2>8, <2>9, <2>10 DEF Moved, Sane, j, r
<1> QED BY <1>3, <1>4

\* An NPC that was just spawned.
LEMMA FreshIsSane ==
  ASSUME NEW name \in DOMAIN Templates, NEW known, Wires(Templates[name], known),
         NEW table \in Tables[name]
  PROVE  LET t == Templates[name]
         IN  Sane([template |-> name, state |-> t.initial, table |-> table,
                   bb |-> Put(Fresh(t), "fsm_state", Text(t.initial))], known)
<1> DEFINE t == Templates[name]
           b == Put(Fresh(t), "fsm_state", Text(t.initial))
           i == [template |-> name, state |-> t.initial, table |-> table, bb |-> b]
<1>1. t.initial \in Range(t.states) /\ Wired(t, known)
  <2>1. FsmValid(t, known) /\ \A s \in DOMAIN t.trees : Builds(t.trees[s], known)
    BY DEF Wires
  <2>2. \A k \in DOMAIN t.transitions : t.transitions[k].to \in Range(t.states)
    BY <2>1 DEF FsmValid
  <2> QED BY <2>1, <2>2 DEF FsmValid, Wired, Range
<1>2. Text(t.initial) \in Values /\ Text(t.initial).type = KeyType["fsm_state"]
  <2>1. t.states \in Seq(Strings)
    BY TemplateShape DEF IsTemplate
  <2>2. t.initial \in Strings
    BY <1>1, <2>1, LenProperties DEF Range
  <2> QED BY <2>2, ValuesWritten, TypesOfTheDecision
<1>3. Fresh(t) \in Boards
  <2>1. \A k \in DOMAIN t.fields : t.fields[k] \in Values
    BY TemplateShape DEF IsTemplate
  <2>2. Float64(0) \in Values /\ Int64(0) \in Values
    BY ValuesWritten
  <2> QED BY <2>1, <2>2 DEF Fresh, Boards
<1>4. WellTyped(t) => \A k \in DOMAIN KeyType : ~ Mistyped(Fresh(t), k)
  <2>1. SUFFICES ASSUME WellTyped(t), NEW k \in DOMAIN KeyType PROVE ~ Mistyped(Fresh(t), k)
    OBVIOUS
  <2>2. k \in Keys
    BY KeyTypeKeys
  <2>3. CASE k \in DOMAIN t.fields
    <3>1. Fresh(t)[k] = t.fields[k] /\ t.fields[k].type = KeyType[k]
      BY <2>1, <2>2, <2>3 DEF Fresh, WellTyped, FitsKey
    <3> QED BY <3>1 DEF Mistyped
  <2>4. CASE k \notin DOMAIN t.fields
    <3>1. Fresh(t)[k] = IF k = "npc_pos_x" THEN Float64(0)
                        ELSE IF k = "current_time" THEN Int64(0) ELSE Absent
      BY <2>2, <2>4 DEF Fresh
    <3>2. KeyType["npc_pos_x"] = Float64(0).type /\ KeyType["current_time"] = Int64(0).type
      BY DEF KeyType, Float64, Int64, Value
    <3> QED BY <3>1, <3>2 DEF Mistyped, Has
  <2> QED BY <2>3, <2>4
<1>5. b \in Boards /\ b["fsm_state"] = Text(t.initial)
      /\ \A k \in Keys : k # "fsm_state" => b[k] = Fresh(t)[k]
  BY <1>2, <1>3, PutBoards, KeyTypeKeys
<1>6. \A k \in DOMAIN KeyType : Mistyped(b, k) => Mistyped(Fresh(t), k)
  BY <1>2, <1>3, PutTyped, KeyTypeKeys
<1> HIDE DEF b
<1>7. i.template = name /\ i.state = t.initial /\ i.bb = b /\ Shaped(i)
  BY <1>1, <1>5, TablesShape DEF Shaped
<1> HIDE DEF i
<1>8. ShowsState(i) /\ Typed(i)
  BY <1>4, <1>5, <1>6, <1>7 DEF ShowsState, Typed
<1>9. ShowsAction(i)
  <2>1. "current_action" \notin DOMAIN t.fields => ~ Has(b, "current_action")
    BY <1>5, KeyTypeKeys DEF Fresh, Has
  <2> QED BY <1>7, <2>1 DEF ShowsAction
<1> QED BY <1>1, <1>7, <1>8, <1>9 DEF Sane, Moved, i, b

\* A sequence over a set is one over a larger set.
LEMMA SeqMore ==
  ASSUME NEW A, NEW B, A \subseteq B, NEW s \in Seq(A)
  PROVE  s \in Seq(B)
<1>1. Len(s) \in Nat /\ s \in [1 .. Len(s) -> B]
  BY LenProperties
<1> QED BY <1>1, FunctionIsSeq

\* What a panic was blamed on may still be blamed, and nobody who lived is gone.
LEMMA NobodyGone ==
  ASSUME BrainInv, \A n \in Live : n \in Live' /\ npc'[n].template = npc[n].template,
         outcome' \in {outcome, "fine"}
  PROVE  order \in Seq(Live') /\ TypingIsSound'
<1>1. order \in Seq(Live')
  BY SeqMore DEF BrainInv
<1>2. TypingIsSound'
  BY DEF BrainInv, TypingIsSound, Of
<1> QED BY <1>1, <1>2

\* The program starts in the invariant.
LEMMA BrainInitInv == Init => BrainInv
<1> SUFFICES ASSUME Init PROVE BrainInv
  OBVIOUS
<1>1. keys \subseteq Keys
  BY KeyTypeKeys DEF Init
<1>2. DOMAIN npc = Npcs /\ Live = {}
  BY DEF Init, Live
<1>3. order \in Seq(Live)
  BY DEF Init
<1>4. TypingIsSound
  BY DEF Init, TypingIsSound
<1> QED BY <1>1, <1>2, <1>3, <1>4 DEF BrainInv

\* What is wired starts sane, and nobody else notices.
LEMMA SpawnInv ==
  ASSUME BrainInv, NEW n \in Npcs, NEW name \in DOMAIN Templates, Spawn(n, name)
  PROVE  BrainInv'
<1> DEFINE t == Templates[name]
<1>1. keys' = keys \cup DOMAIN t.fields /\ npc[n] = NoNpc /\ UNCHANGED <<order, outcome>>
  BY DEF Spawn
<1>2. keys' \subseteq Keys /\ keys \subseteq keys'
  BY <1>1, TemplateShape DEF BrainInv, IsTemplate
<1>3. CASE Wires(t, keys')
  <2>1. PICK table \in Tables[name] :
          npc' = [npc EXCEPT ![n] = [template |-> name, state |-> t.initial, table |-> table,
                                     bb |-> Put(Fresh(t), "fsm_state", Text(t.initial))]]
    BY <1>3 DEF Spawn
  <2>2. Sane(npc'[n], keys') /\ DOMAIN npc' = Npcs /\ \A m \in Npcs : m # n => npc'[m] = npc[m]
    BY <1>3, <2>1, FreshIsSane DEF BrainInv
  <2>3. \A m \in Live : m # n /\ m \in Live' /\ npc'[m] = npc[m]
    BY <1>1, <2>2 DEF Live
  <2>4. \A m \in Live' : Sane(npc'[m], keys')
    BY <1>2, <2>2, SaneMore DEF BrainInv, Live
  <2> QED BY <1>1, <1>2, <2>2, <2>3, <2>4, NobodyGone DEF BrainInv
<1>4. CASE ~ Wires(t, keys')
  <2>1. npc' = npc
    BY <1>4 DEF Spawn
  <2>2. Live' = Live
    BY <2>1 DEF Live
  <2>3. \A m \in Live' : Sane(npc'[m], keys')
    BY <1>2, <2>1, <2>2, SaneMore DEF BrainInv
  <2> QED BY <1>1, <1>2, <2>1, <2>2, <2>3, NobodyGone DEF BrainInv
<1> QED BY <1>3, <1>4

\* A tick of the clock leaves state and action alone and mistypes nothing.
LEMMA TickedBoard ==
  ASSUME NEW bb \in Boards
  PROVE  /\ Ticked(bb) \in Boards
         /\ Ticked(bb)["fsm_state"] = bb["fsm_state"]
         /\ Ticked(bb)["current_action"] = bb["current_action"]
         /\ \A k \in DOMAIN KeyType : Mistyped(Ticked(bb), k) => Mistyped(bb, k)
<1> DEFINE b == Ticked(bb)
           Late(v) == [v EXCEPT !.num = Minus(@, 1)]
<1>1. Int64(0) \in Values /\ Int64(0).type = KeyType["current_time"]
  BY ValuesWritten DEF Int64, Value, KeyType
<1>2. ASSUME NEW v \in Values PROVE Late(v) \in Values /\ Late(v).type = v.type
  <2>1. Minus(v.num, 1) \in Int
    BY MinusInt DEF Values
  <2> QED BY <2>1 DEF Values
<1>3. \A k \in Keys : b[k] = IF k = "current_time" THEN Int64(0)
                            ELSE IF k = "threat_expire_at" /\ Has(bb, k) THEN Late(bb[k]) ELSE bb[k]
  BY DEF Ticked
<1>4. \A k \in Keys : Has(bb, k) => bb[k] \in Values
  BY DEF Boards, Has
<1>5. b \in Boards
  <2>1. \A k \in Keys : b[k] \in Values \cup {Absent}
    <3> HIDE DEF b, Late
    <3> QED BY <1>1, <1>2, <1>3, <1>4 DEF Boards
  <2>2. b = [k \in Keys |-> b[k]]
    BY DEF Ticked
  <2> HIDE DEF b
  <2> QED BY <2>1, <2>2 DEF Boards
<1>6. b["fsm_state"] = bb["fsm_state"] /\ b["current_action"] = bb["current_action"]
  BY <1>3, KeyTypeKeys
<1>7. ASSUME NEW k \in DOMAIN KeyType, Mistyped(b, k) PROVE Mistyped(bb, k)
  <2> HIDE DEF b, Late
  <2> QED BY <1>1, <1>2, <1>3, <1>4, <1>7, KeyTypeKeys DEF Mistyped, Has
<1> QED BY <1>5, <1>6, <1>7

\* A change of every live NPC's blackboard that keeps it sane.
LEMMA BoardsInv ==
  ASSUME BrainInv, UNCHANGED keys, outcome' \in {outcome, "fine"}, DOMAIN npc' = Npcs,
         \A n \in Npcs : IF n \in Live THEN Sane(npc'[n], keys) /\ npc'[n].template = npc[n].template
                         ELSE npc'[n] = NoNpc
  PROVE  Live' = Live /\ keys' \subseteq Keys /\ (\A n \in Live' : Sane(npc'[n], keys')) /\ TypingIsSound'
<1>1. \A n \in Npcs : n \in Live' <=> n \in Live
  BY SaneIsLive DEF Live, Sane
<1>2. Live' = Live
  BY <1>1 DEF Live
<1>3. \A n \in Live : n \in Live' /\ npc'[n].template = npc[n].template
  BY <1>2 DEF Live
<1>4. TypingIsSound'
  BY <1>3, NobodyGone
<1> QED BY <1>2, <1>4 DEF BrainInv, Live

\* The first pass keeps every NPC sane and visits only those that live.
LEMMA TickBeginInv == BrainInv /\ TickBegin => BrainInv'
<1> SUFFICES ASSUME BrainInv, TickBegin PROVE BrainInv'
  OBVIOUS
<1>1. /\ UNCHANGED <<keys, outcome>> /\ order' \in SetToSeqs(Live) /\ DOMAIN npc' = Npcs
      /\ \A n \in Npcs : npc'[n] = IF n \in Live THEN [npc[n] EXCEPT !.bb = Ticked(@)] ELSE NoNpc
  BY DEF TickBegin
<1>2. ASSUME NEW n \in Live
      PROVE  Sane(npc'[n], keys) /\ npc'[n].template = npc[n].template
  <2>1. Sane(npc[n], keys) /\ npc[n].bb \in Boards /\ n \in Npcs
    BY DEF BrainInv, Sane, Moved, Shaped, Live
  <2>2. npc'[n] = [npc[n] EXCEPT !.bb = Ticked(npc[n].bb)]
    BY <1>1, <2>1
  <2>3. Sane(npc'[n], keys)
    BY <2>1, <2>2, TickedBoard, BoardChange
  <2> QED BY <2>1, <2>2, <2>3 DEF Sane, Moved, Shaped
<1>3. order' \in Seq(Live)
  <2>1. IsFiniteSet(Live)
    BY BrainAssumption, FS_Subset DEF BrainAssumption, Live
  <2> QED BY <1>1, <2>1, OrderIsSeq
<1>4. Live' = Live /\ keys' \subseteq Keys /\ (\A n \in Live' : Sane(npc'[n], keys')) /\ TypingIsSound'
  BY <1>1, <1>2, BoardsInv
<1> QED BY <1>1, <1>3, <1>4 DEF BrainInv

\* The group state disturbs nothing.
LEMMA TickEndInv == BrainInv /\ TickEnd => BrainInv'
<1> SUFFICES ASSUME BrainInv, TickEnd PROVE BrainInv'
  OBVIOUS
<1> DEFINE alert == Flag(\E n \in Live : npc[n].state = "Flee")
<1>1. /\ UNCHANGED <<keys, order>> /\ outcome' = "fine" /\ DOMAIN npc' = Npcs
      /\ \A n \in Npcs : npc'[n] = IF n \in Live THEN [npc[n] EXCEPT !.bb = Put(@, "group_alert", alert)]
                                   ELSE NoNpc
  BY DEF TickEnd
<1>2. alert \in Values /\ alert.type = KeyType["group_alert"]
      /\ "group_alert" \in DOMAIN KeyType /\ "group_alert" \in Keys
      /\ "fsm_state" \in Keys /\ "current_action" \in Keys
  BY ValuesWritten, TypesOfTheDecision, KeyTypeKeys
<1> HIDE DEF alert
<1>3. ASSUME NEW n \in Live
      PROVE  Sane(npc'[n], keys) /\ npc'[n].template = npc[n].template
  <2> DEFINE b == Put(npc[n].bb, "group_alert", alert)
  <2>1. Sane(npc[n], keys) /\ npc[n].bb \in Boards /\ n \in Npcs
    BY DEF BrainInv, Sane, Moved, Shaped, Live
  <2>2. npc'[n] = [npc[n] EXCEPT !.bb = b]
    BY <1>1, <2>1
  <2>3. b \in Boards /\ b["fsm_state"] = npc[n].bb["fsm_state"]
        /\ b["current_action"] = npc[n].bb["current_action"]
    BY <1>2, <2>1, PutBoards
  <2>4. \A k \in DOMAIN KeyType : Mistyped(b, k) => Mistyped(npc[n].bb, k)
    BY <1>2, <2>1, PutTyped
  <2> HIDE DEF b
  <2>5. Sane(npc'[n], keys)
    BY <2>1, <2>2, <2>3, <2>4, BoardChange
  <2> QED BY <2>1, <2>2, <2>5 DEF Sane, Moved, Shaped
<1>4. Live' = Live /\ keys' \subseteq Keys /\ (\A n \in Live' : Sane(npc'[n], keys')) /\ TypingIsSound'
  BY <1>1, <1>3, BoardsInv
<1> QED BY <1>1, <1>4 DEF BrainInv

\* Decision, FSM and tree leave an NPC sane, and if one of them panics the NPC is badly typed.
LEMMA TickNpcInv == BrainInv /\ TickNpc => BrainInv'
<1> SUFFICES ASSUME BrainInv, TickNpc PROVE BrainInv'
  OBVIOUS
<1> DEFINE n == Head(order)
<1>1. phase = "decide" /\ order # <<>> /\ keys' = keys
  BY DEF TickNpc
<1>2. PICK heard \in {0} \cup Threats :
        LET i == FsmTick(npc[n], Decide(npc[n].bb, heard))
            r == Act(npc[n], i)
        IN  IF DecisionPanics(npc[n].bb, heard)
            THEN Abort /\ UNCHANGED npc
            ELSE /\ npc' = [npc EXCEPT ![n] = [i EXCEPT !.bb = r.bb]]
                 /\ IF r.status = "panic" \/ Mistyped(r.bb, "npc_pos_x") THEN Abort ELSE Proceed(n)
  BY DEF TickNpc
<1> DEFINE i == FsmTick(npc[n], Decide(npc[n].bb, heard))
           r == Act(npc[n], i)
           j == [i EXCEPT !.bb = r.bb]
<1>3. n \in Live /\ Tail(order) \in Seq(Live)
  <2>1. order \in Seq(Live)
    BY DEF BrainInv
  <2> QED BY <1>1, <2>1, HeadTailProperties
<1>4. Sane(npc[n], keys) /\ Moved(npc[n], keys) /\ n \in Npcs /\ npc[n].bb \in Boards /\ heard \in Nat
  BY <1>3, BrainAssumption DEF BrainInv, Sane, Moved, Shaped, Live, BrainAssumption
<1> HIDE DEF n
<1>5. Moved(i, keys) /\ i.template = npc[n].template
  BY <1>4, DecideBoard, FsmMoved
<1> HIDE DEF i
<1>6. r.status # "panic" /\ Sane(j, keys) /\ j.template = npc[n].template /\ j.bb = r.bb
  <2>1. r.status # "panic" /\ Sane(j, keys)
    BY <1>5, ActIsSane DEF BrainInv
  <2>2. j.template = i.template /\ j.bb = r.bb
    BY <1>5 DEF Moved, Shaped
  <2> QED BY <1>5, <2>1, <2>2
<1> HIDE DEF r, j
<1>7. CASE DecisionPanics(npc[n].bb, heard)
  <2>1. Abort /\ npc' = npc
    BY <1>2, <1>7
  <2>2. Live' = Live
    BY <2>1 DEF Live
  <2>3. ~ WellTyped(Of(n))
    BY <1>4, <1>7, KeyTypeKeys DEF DecisionPanics, Moved, Typed, Of
  <2>4. TypingIsSound'
    BY <1>3, <2>1, <2>2, <2>3 DEF TypingIsSound, Of
  <2>5. order' \in Seq(Live')
    BY <2>1 DEF Abort
  <2> QED BY <1>1, <2>1, <2>2, <2>4, <2>5 DEF BrainInv
<1>8. CASE ~ DecisionPanics(npc[n].bb, heard)
  <2>1. /\ npc' = [npc EXCEPT ![n] = j]
        /\ IF r.status = "panic" \/ Mistyped(r.bb, "npc_pos_x") THEN Abort ELSE Proceed(n)
    BY <1>2, <1>8 DEF i, r, j
  <2>2. DOMAIN npc' = Npcs /\ npc'[n] = j /\ \A m \in Npcs : m # n => npc'[m] = npc[m]
    BY <1>4, <2>1 DEF BrainInv
  <2>3. \A m \in Npcs : m \in Live' <=> m \in Live
    BY <1>3, <1>6, <2>2, SaneIsLive DEF Live, Sane
  <2>4. Live' = Live
    BY <2>3 DEF Live
  <2>5. \A m \in Live' : Sane(npc'[m], keys')
    BY <1>1, <1>6, <2>2, <2>4 DEF BrainInv, Live
  <2>6. order' \in Seq(Live') /\ TypingIsSound'
    <3>1. CASE Mistyped(r.bb, "npc_pos_x")
      <4>1. Abort
        BY <2>1, <3>1
      <4>2. ~ WellTyped(Templates[npc'[n].template])
        BY <1>6, <2>2, <3>1, KeyTypeKeys DEF Sane, Moved, Typed
      <4> QED BY <1>3, <2>4, <4>1, <4>2 DEF Abort, TypingIsSound, Of
    <3>2. CASE ~ Mistyped(r.bb, "npc_pos_x")
      <4>1. Proceed(n)
        BY <1>6, <2>1, <3>2
      <4> QED BY <1>3, <2>4, <4>1 DEF Proceed, TypingIsSound
    <3> QED BY <3>1, <3>2
  <2> QED BY <1>1, <2>2, <2>5, <2>6 DEF BrainInv
<1> QED BY <1>7, <1>8

\* A snapshot or a query reads what a well typed NPC has right.
LEMMA LookInv ==
  ASSUME BrainInv, NEW ns \in SUBSET Live, Look(ns)
  PROVE  BrainInv'
<1>1. UNCHANGED <<keys, npc, order>>
  BY DEF Look
<1>2. Live' = Live
  BY <1>1 DEF Live
<1>3. TypingIsSound'
  <2>1. SUFFICES ASSUME outcome' = "panic" PROVE \E n \in Live : ~ WellTyped(Of(n))
    BY <1>1, <1>2 DEF TypingIsSound, Of
  <2>2. PICK n \in ns : Mistyped(npc[n].bb, "current_action") \/ Mistyped(npc[n].bb, "threat_level")
    BY <2>1 DEF Look
  <2>3. n \in Live /\ Typed(npc[n])
    BY DEF BrainInv, Sane, Moved
  <2>4. ~ WellTyped(Of(n))
    BY <2>2, <2>3, KeyTypeKeys DEF Typed, Of
  <2> QED BY <2>3, <2>4
<1> QED BY <1>1, <1>2, <1>3 DEF BrainInv

\* Nor does a step that changes nothing disturb the invariant.
LEMMA BrainStutterInv == BrainInv /\ UNCHANGED vars => BrainInv'
<1> SUFFICES ASSUME BrainInv, UNCHANGED vars PROVE BrainInv'
  OBVIOUS
<1>1. UNCHANGED <<keys, npc, order, outcome>>
  BY DEF vars
<1>2. Live' = Live
  BY <1>1 DEF Live
<1> QED BY <1>1, <1>2 DEF BrainInv, TypingIsSound, Of

\* Every step keeps the invariant.
LEMMA BrainNextInv == BrainInv /\ [Next]_vars => BrainInv'
<1> SUFFICES ASSUME BrainInv, [Next]_vars PROVE BrainInv'
  OBVIOUS
<1>1. CASE \E n \in Npcs, name \in DOMAIN Templates : Spawn(n, name)
  BY <1>1, SpawnInv
<1>2. CASE TickBegin
  BY <1>2, TickBeginInv
<1>3. CASE TickNpc
  BY <1>3, TickNpcInv
<1>4. CASE TickEnd
  BY <1>4, TickEndInv
<1>5. CASE Look(Live)
  BY <1>5, LookInv
<1>6. CASE \E n \in Live : Look({n})
  BY <1>6, LookInv
<1>7. CASE UNCHANGED vars
  BY <1>7, BrainStutterInv
<1> QED BY <1>1, <1>2, <1>3, <1>4, <1>5, <1>6, <1>7 DEF Next

-----------------------------------------------------------------------------
(* The theorems *)

\* Whatever is spawned in whatever order and whatever its trees do, every live NPC is sane.
THEOREM BrainInvHolds == Spec => []BrainInv
<1> QED BY BrainInitInv, BrainNextInv, PTL DEF Spec

\* Every NPC is in a state of its FSM, and shows it if its trees do not write there.
THEOREM StateKnownHolds == Spec => []StateKnown
<1>1. BrainInv => StateKnown
  BY DEF BrainInv, Sane, Moved, Shaped, ShowsState, Written, StateKnown, Of
<1> QED BY <1>1, BrainInvHolds, PTL

\* SetRaw is never called with a key that was not registered.
THEOREM WritesRegisteredHolds == Spec => []WritesRegistered
<1>1. BrainInv => WritesRegistered
  <2> SUFFICES ASSUME BrainInv, NEW n \in Live, NEW s \in DOMAIN Of(n).trees,
                      NEW w \in Setters(Of(n).trees[s])
               PROVE  w.key \in keys
    BY DEF WritesRegistered
  <2>1. Builds(Of(n).trees[s], keys)
    BY DEF BrainInv, Sane, Moved, Wired, Of
  <2>2. NodeBuilds(w, keys) /\ w.type = "set_bb_value"
    BY <2>1 DEF Builds, Setters
  <2>3. LeafBuilds(w, keys)
    BY <2>2 DEF NodeBuilds, Composites
  <2> QED BY <2>2, <2>3 DEF LeafBuilds
<1> QED BY <1>1, BrainInvHolds, PTL

\* Among well typed NPCs no tick, snapshot or query panics.
THEOREM TypingIsSoundHolds == Spec => []TypingIsSound
<1>1. BrainInv => TypingIsSound
  BY DEF BrainInv
<1> QED BY <1>1, BrainInvHolds, PTL

\* A key that is not there never enables a transition.
THEOREM MissingNeverEnablesHolds == Spec => []MissingNeverEnables
<1>1. BrainInv => MissingNeverEnables
  <2> SUFFICES ASSUME BrainInv, NEW n \in Live, NEW r \in Range(Of(n).transitions), NEW gone \in Keys
               PROVE  Evaluate(r.condition, Put(npc[n].bb, gone, Absent)) => Evaluate(r.condition, npc[n].bb)
    BY DEF MissingNeverEnables
  <2>1. npc[n].bb \in Boards /\ npc[n].template \in DOMAIN Templates
    BY DEF BrainInv, Sane, Moved, Shaped
  <2>2. IsCondition(r.condition)
    BY <2>1, TemplateShape DEF IsTemplate, Of
  <2> QED BY <2>1, <2>2, EvaluateMonotone
<1> QED BY <1>1, BrainInvHolds, PTL

\* The action an NPC shows is one that the tree of the state it shows names.
THEOREM ActionOfStateHolds == Spec => []ActionOfState
<1>1. BrainInv => ActionOfState
  BY DEF BrainInv, Sane, ShowsAction, Named, ActionOfState, Of
<1> QED BY <1>1, BrainInvHolds, PTL
=============================================================================
