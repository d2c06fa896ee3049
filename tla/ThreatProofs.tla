----------------------------- MODULE ThreatProofs -----------------------------
(***************************************************************************)
(* What holds of the answer to threats for any NPCs and groups, any        *)
(* events, thresholds, rates, attention and memory.                        *)
(***************************************************************************)
EXTENDS ThreatResponse, DataLemmas, FiniteSetTheorems

-----------------------------------------------------------------------------
(* Memory *)

Entry == [target : Actors, ttl : Nat, value : Nat]

\* No two entries are about the same actor.
Distinct(mem) == \A j, k \in DOMAIN mem : mem[j].target = mem[k].target => j = k

\* One step of Only, from the entries up to k-1 to those up to k.
OnlyNext(mem, positions, before, k) ==
  IF k \in positions THEN Append(before, mem[k]) ELSE before

\* f gives, for each k up to m, the entries at the positions up to k.
UpTo(mem, positions, f, m) ==
  f = [k \in 0 .. m |-> IF k = 0 THEN <<>> ELSE OnlyNext(mem, positions, f[k-1], k)]

\* The recursion of Only has a solution.
LEMMA UpToExists ==
  ASSUME NEW mem, NEW positions, NEW n \in Nat
  PROVE  \E f : UpTo(mem, positions, f, n)
<1> DEFINE T == {m \in 0 .. n : ~ \E f : UpTo(mem, positions, f, m)}
<1>1. SUFFICES ASSUME T # {} PROVE FALSE
  <2>1. n \in 0 .. n
    OBVIOUS
  <2> QED BY <2>1
<1>2. PICK m \in T : \A i \in T : m <= i
  <2>1. T \subseteq Nat
    OBVIOUS
  <2> HIDE DEF T
  <2> QED BY <1>1, <2>1, LeastElement
<1>3. CASE m = 0
  <2> DEFINE f == [k \in 0 .. 0 |-> <<>>]
  <2>1. UpTo(mem, positions, f, 0)
    BY DEF UpTo
  <2> QED BY <1>2, <1>3, <2>1
<1>4. CASE m # 0
  <2>1. m \in Nat /\ m - 1 \in 0 .. n /\ m - 1 \notin T
    BY <1>2, <1>4
  <2>2. PICK f : UpTo(mem, positions, f, m - 1)
    BY <2>1
  <2> DEFINE g == [k \in 0 .. m |-> IF k = m THEN OnlyNext(mem, positions, f[m-1], m) ELSE f[k]]
  <2>3. \A k \in 0 .. m - 1 : f[k] = IF k = 0 THEN <<>> ELSE OnlyNext(mem, positions, f[k-1], k)
    BY <2>2 DEF UpTo
  <2>4. ASSUME NEW k \in 0 .. m
        PROVE  g[k] = IF k = 0 THEN <<>> ELSE OnlyNext(mem, positions, g[k-1], k)
    <3>1. k # 0 => k - 1 \in 0 .. m /\ k - 1 # m /\ g[k-1] = f[k-1]
      BY <2>1
    <3>2. CASE k = m
      BY <1>4, <3>1, <3>2
    <3>3. CASE k # m
      <4>1. k \in 0 .. m - 1 /\ g[k] = f[k]
        BY <2>1, <3>3
      <4> QED BY <2>3, <3>1, <4>1
    <3> QED BY <3>2, <3>3
  <2> HIDE DEF g
  <2>5. g = [k \in 0 .. m |-> g[k]]
    BY DEF g
  <2>6. UpTo(mem, positions, g, m)
    BY <2>4, <2>5 DEF UpTo
  <2> QED BY <1>2, <2>6
<1> QED BY <1>3, <1>4

\* Only is what the recursion arrives at.
LEMMA OnlyIs ==
  ASSUME NEW mem, NEW positions, Len(mem) \in Nat
  PROVE  \E f : UpTo(mem, positions, f, Len(mem)) /\ Only(mem, positions) = f[Len(mem)]
<1> DEFINE n == Len(mem)
           F == CHOOSE f : UpTo(mem, positions, f, n)
<1>1. UpTo(mem, positions, F, n)
  BY UpToExists
<1>2. Only(mem, positions) = F[n]
  BY DEF Only, UpTo, OnlyNext
<1> QED BY <1>1, <1>2

\* r takes its entries from the first m of mem, at some of the positions, in their order.
InOrder(mem, positions, r, m) ==
  \E g \in [1 .. Len(r) -> 1 .. m] :
    /\ \A i \in 1 .. Len(r) : g[i] \in positions /\ r[i] = mem[g[i]]
    /\ \A i, j \in 1 .. Len(r) : i < j => g[i] < g[j]

Selects(mem, positions, r, m) ==
  /\ Len(r) <= m
  /\ (\E k \in 1 .. m : k \notin positions) => Len(r) < m
  /\ InOrder(mem, positions, r, m)

\* One more position, taken or left out.
LEMMA SelectsNext ==
  ASSUME NEW A, NEW mem \in Seq(A), NEW positions, NEW m \in 1 .. Len(mem),
         NEW r \in Seq(A), Selects(mem, positions, r, m - 1)
  PROVE  /\ OnlyNext(mem, positions, r, m) \in Seq(A)
         /\ Selects(mem, positions, OnlyNext(mem, positions, r, m), m)
<1>1. m \in Nat /\ m - 1 \in Nat /\ Len(r) \in Nat /\ mem[m] \in A
  BY LenProperties
<1>2. PICK g \in [1 .. Len(r) -> 1 .. m - 1] :
        /\ \A i \in 1 .. Len(r) : g[i] \in positions /\ r[i] = mem[g[i]]
        /\ \A i, j \in 1 .. Len(r) : i < j => g[i] < g[j]
  BY DEF Selects, InOrder
<1>3. Len(r) <= m - 1 /\ ((\E k \in 1 .. m - 1 : k \notin positions) => Len(r) < m - 1)
  BY DEF Selects
<1>4. \A k \in 1 .. m : k = m \/ k \in 1 .. m - 1
  BY <1>1
<1>5. CASE m \in positions
  <2> DEFINE a == Append(r, mem[m])
             h == [i \in 1 .. Len(r) + 1 |-> IF i = Len(r) + 1 THEN m ELSE g[i]]
  <2>1. a \in Seq(A) /\ Len(a) = Len(r) + 1 /\ a[Len(r) + 1] = mem[m]
        /\ \A i \in 1 .. Len(r) : a[i] = r[i]
    BY <1>1, AppendProperties
  <2>2. \A i \in 1 .. Len(r) : h[i] = g[i] /\ g[i] \in 1 .. m - 1
    BY <1>1, <1>2
  <2>3. h[Len(r) + 1] = m /\ \A i \in 1 .. Len(r) + 1 : i = Len(r) + 1 \/ i \in 1 .. Len(r)
    BY <1>1
  <2> HIDE DEF a, h
  <2>4. h \in [1 .. Len(a) -> 1 .. m]
    <3>1. \A i \in 1 .. Len(r) + 1 : h[i] \in 1 .. m
      BY <1>1, <2>2, <2>3
    <3> QED BY <2>1, <3>1 DEF h
  <2>5. \A i \in 1 .. Len(a) : h[i] \in positions /\ a[i] = mem[h[i]]
    BY <1>2, <1>5, <2>1, <2>2, <2>3
  <2>6. \A i, j \in 1 .. Len(a) : i < j => h[i] < h[j]
    <3> SUFFICES ASSUME NEW i \in 1 .. Len(r) + 1, NEW j \in 1 .. Len(r) + 1, i < j
                 PROVE  h[i] < h[j]
      BY <2>1
    <3>1. i \in 1 .. Len(r) /\ h[i] \in 1 .. m - 1
      BY <1>1, <2>2, <2>3
    <3>2. CASE j = Len(r) + 1
      BY <1>1, <2>3, <3>1, <3>2
    <3>3. CASE j \in 1 .. Len(r)
      BY <1>2, <2>2, <3>1, <3>3
    <3> QED BY <2>3, <3>2, <3>3
  <2>7. Len(a) <= m /\ ((\E k \in 1 .. m : k \notin positions) => Len(a) < m)
    BY <1>1, <1>3, <1>4, <1>5, <2>1
  <2>8. OnlyNext(mem, positions, r, m) = a
    BY <1>5 DEF OnlyNext, a
  <2>9. InOrder(mem, positions, a, m)
    BY <2>4, <2>5, <2>6 DEF InOrder
  <2> QED BY <2>1, <2>7, <2>8, <2>9 DEF Selects
<1>6. CASE m \notin positions
  <2>1. OnlyNext(mem, positions, r, m) = r
    BY <1>6 DEF OnlyNext
  <2>2. g \in [1 .. Len(r) -> 1 .. m] /\ Len(r) < m
    BY <1>1, <1>2, <1>3
  <2>3. (\E k \in 1 .. m : k \notin positions) => Len(r) < m
    BY <2>2
  <2>4. InOrder(mem, positions, r, m)
    BY <1>2, <2>2 DEF InOrder
  <2>5. Selects(mem, positions, r, m)
    BY <1>1, <2>2, <2>3, <2>4 DEF Selects
  <2> QED BY <2>1, <2>5
<1> QED BY <1>5, <1>6

\* Filtering keeps entries and their order, the last one if it is kept.
LEMMA OnlyProperties ==
  ASSUME NEW A, NEW mem \in Seq(A), NEW positions
  PROVE  /\ Only(mem, positions) \in Seq(A)
         /\ Selects(mem, positions, Only(mem, positions), Len(mem))
         /\ Len(mem) > 0 /\ Len(mem) \in positions =>
              LET r == Only(mem, positions)
              IN  Len(r) > 0 /\ r[Len(r)] = mem[Len(mem)]
<1> DEFINE n == Len(mem)
<1>1. n \in Nat
  BY LenProperties
<1>2. PICK f : UpTo(mem, positions, f, n) /\ Only(mem, positions) = f[n]
  BY <1>1, OnlyIs
<1>3. \A k \in 0 .. n : f[k] = IF k = 0 THEN <<>> ELSE OnlyNext(mem, positions, f[k-1], k)
  BY <1>2 DEF UpTo
<1> DEFINE Good(m) == f[m] \in Seq(A) /\ Selects(mem, positions, f[m], m)
           T == {m \in 0 .. n : ~ Good(m)}
<1>4. \A m \in 0 .. n : Good(m)
  <2>1. SUFFICES ASSUME T # {} PROVE FALSE
    OBVIOUS
  <2>2. PICK m \in T : \A i \in T : m <= i
    <3>1. T \subseteq Nat
      BY <1>1
    <3> HIDE DEF T
    <3> QED BY <2>1, <3>1, LeastElement
  <2>3. CASE m = 0
    <3> DEFINE g == [i \in 1 .. 0 |-> i]
    <3>1. f[0] = <<>> /\ Len(f[0]) = 0 /\ f[0] \in Seq(A)
      <4>1. 0 \in 0 .. n
        BY <1>1
      <4>2. f[0] = <<>>
        BY <1>3, <4>1
      <4> QED BY <4>2, EmptySeq
    <3>2. g \in [1 .. Len(f[0]) -> 1 .. 0]
      BY <3>1
    <3>3. Selects(mem, positions, f[0], 0)
      <4>1. \A i : i \notin 1 .. 0
        OBVIOUS
      <4> HIDE DEF g
      <4>2. InOrder(mem, positions, f[0], 0)
        BY <3>1, <3>2, <4>1 DEF InOrder
      <4> QED BY <3>1, <4>1, <4>2 DEF Selects
    <3> QED BY <2>2, <2>3, <3>1, <3>3
  <2>4. CASE m # 0
    <3>1. m \in 1 .. n /\ m - 1 \in 0 .. n /\ m - 1 \notin T /\ m \in 0 .. n
      BY <1>1, <2>2, <2>4
    <3>2. Good(m - 1)
      BY <3>1
    <3>3. f[m] = OnlyNext(mem, positions, f[m-1], m)
      BY <1>3, <2>4, <3>1
    <3>4. Good(m)
      BY <3>1, <3>2, <3>3, SelectsNext
    <3> QED BY <2>2, <3>4
  <2> QED BY <2>3, <2>4
<1>5. n \in 0 .. n /\ (n > 0 => n - 1 \in 0 .. n)
  BY <1>1
<1>6. ASSUME n > 0, n \in positions
      PROVE  Len(f[n]) > 0 /\ f[n][Len(f[n])] = mem[n]
  <2>1. f[n] = Append(f[n-1], mem[n])
    <3>1. f[n] = OnlyNext(mem, positions, f[n-1], n)
      BY <1>1, <1>3, <1>5, <1>6
    <3> QED BY <1>6, <3>1 DEF OnlyNext
  <2>2. f[n-1] \in Seq(A) /\ mem[n] \in A
    BY <1>1, <1>4, <1>5, <1>6, LenProperties
  <2> QED BY <2>1, <2>2, AppendProperties, LenProperties
<1> QED BY <1>2, <1>4, <1>5, <1>6

\* What Only takes from entries about different actors is about different actors.
LEMMA OnlyDistinct ==
  ASSUME NEW A, NEW mem \in Seq(A), NEW positions, Distinct(mem)
  PROVE  Distinct(Only(mem, positions))
<1> DEFINE r == Only(mem, positions)
<1>1. r \in Seq(A) /\ Selects(mem, positions, r, Len(mem))
  BY OnlyProperties
<1> HIDE DEF r
<1>2. Len(r) \in Nat /\ DOMAIN r = 1 .. Len(r) /\ DOMAIN mem = 1 .. Len(mem)
  BY <1>1, LenProperties
<1>3. PICK g \in [1 .. Len(r) -> 1 .. Len(mem)] :
        /\ \A i \in 1 .. Len(r) : g[i] \in positions /\ r[i] = mem[g[i]]
        /\ \A i, j \in 1 .. Len(r) : i < j => g[i] < g[j]
  BY <1>1 DEF Selects, InOrder
<1>4. ASSUME NEW i \in 1 .. Len(r), NEW j \in 1 .. Len(r), r[i].target = r[j].target
      PROVE  i = j
  <2>1. g[i] \in 1 .. Len(mem) /\ g[j] \in 1 .. Len(mem) /\ mem[g[i]].target = mem[g[j]].target
    BY <1>3, <1>4
  <2>2. g[i] = g[j]
    BY <1>2, <2>1 DEF Distinct
  <2>3. Len(mem) \in Nat /\ ~ (g[i] < g[j]) /\ ~ (g[j] < g[i])
    BY <2>1, <2>2, LenProperties
  <2>4. ~ (i < j) /\ ~ (j < i)
    BY <1>3, <2>3
  <2> QED BY <1>2, <2>4
<1> QED BY <1>2, <1>4 DEF Distinct, r

\* AddMemory: the memory stays within its capacity and one entry per actor; the newest entry is
\* the actor's, with its full time and at least the given value.
LEMMA RememberProperties ==
  ASSUME NEW mem \in Seq(Entry), Len(mem) <= Capacity, Distinct(mem),
         NEW target \in Actors, NEW value \in Nat
  PROVE  LET r == Remember(mem, target, value)
         IN  /\ r \in Seq(Entry) /\ Len(r) <= Capacity /\ Distinct(r) /\ Len(r) > 0
             /\ r[Len(r)].target = target /\ r[Len(r)].ttl = DecayTime /\ r[Len(r)].value >= value
<1> DEFINE known == {k \in DOMAIN mem : mem[k].target = target}
           others == Only(mem, DOMAIN mem \ known)
           rest == IF known # {} \/ Len(mem) < Capacity THEN others ELSE Tail(mem)
           values == {value} \cup {mem[k].value : k \in known}
           v == CHOOSE x \in values : \A w \in values : w <= x
           e == [target |-> target, ttl |-> DecayTime, value |-> v]
<1>1. /\ Len(mem) \in Nat /\ DOMAIN mem = 1 .. Len(mem) /\ \A k \in 1 .. Len(mem) : mem[k] \in Entry
      /\ Capacity \in Nat \ {0} /\ DecayTime \in Nat
  BY LenProperties, ConfigAssumption DEF ConfigAssumption
<1>2. v \in Nat /\ v >= value
  <2>1. \E x \in values : \A w \in values : w <= x
    <3>1. CASE known = {}
      <4>1. values = {value}
        BY <3>1
      <4> HIDE DEF values
      <4> QED BY <4>1
    <3>2. ASSUME NEW k \in known PROVE \E x \in values : \A w \in values : w <= x
      <4>1. known = {k} /\ mem[k].value \in Nat
        BY <1>1 DEF Distinct, Entry
      <4>2. values = {value, mem[k].value}
        BY <4>1
      <4> HIDE DEF values
      <4>3. CASE value <= mem[k].value
        BY <4>1, <4>2, <4>3
      <4>4. CASE mem[k].value <= value
        BY <4>1, <4>2, <4>4
      <4> QED BY <4>1, <4>3, <4>4
    <3> QED BY <3>1, <3>2
  <2>2. values \subseteq Nat /\ value \in values
    BY <1>1 DEF Entry
  <2> HIDE DEF values
  <2> QED BY <2>1, <2>2
<1>3. e \in Entry
  BY <1>1, <1>2 DEF Entry
<1>4. others \in Seq(Entry) /\ Selects(mem, DOMAIN mem \ known, others, Len(mem)) /\ Distinct(others)
  BY OnlyProperties, OnlyDistinct
<1>5. rest \in Seq(Entry) /\ Len(rest) < Capacity /\ Distinct(rest)
      /\ \A k \in 1 .. Len(rest) : rest[k].target # target
  <2>1. CASE known # {} \/ Len(mem) < Capacity
    <3>1. rest = others /\ Len(others) \in Nat /\ Len(others) <= Len(mem)
      BY <1>4, <2>1, LenProperties DEF Selects
    <3>2. known # {} => Len(others) < Len(mem)
      <4>1. known # {} => \E k \in 1 .. Len(mem) : k \notin DOMAIN mem \ known
        BY <1>1
      <4> QED BY <1>4, <4>1 DEF Selects
    <3>3. Len(others) < Capacity
      BY <1>1, <2>1, <3>1, <3>2
    <3>4. \A k \in 1 .. Len(others) : others[k].target # target
      BY <1>4 DEF Selects, InOrder
    <3> QED BY <1>4, <3>1, <3>3, <3>4
  <2>2. CASE ~ (known # {} \/ Len(mem) < Capacity)
    <3>1. rest = Tail(mem) /\ Len(mem) = Capacity /\ mem # <<>> /\ known = {}
      <4>1. ~ (Len(mem) < Capacity)
        BY <2>2
      <4>2. Len(mem) = Capacity /\ Len(mem) # 0
        <5>1. Len(mem) \in Nat /\ Capacity \in Nat /\ Capacity # 0
          BY <1>1
        <5> HIDE DEF known, others, rest, values, v, e
        <5> QED BY <4>1, <5>1
      <4> QED BY <2>2, <4>2, EmptySeq
    <3>2. /\ Tail(mem) \in Seq(Entry) /\ Len(Tail(mem)) = Len(mem) - 1
          /\ \A k \in 1 .. Len(mem) - 1 : Tail(mem)[k] = mem[k+1]
      BY <3>1, HeadTailProperties
    <3>3. \A k \in 1 .. Len(mem) - 1 : k + 1 \in 1 .. Len(mem)
      BY <1>1
    <3>4. DOMAIN Tail(mem) = 1 .. Len(mem) - 1
      BY <3>2, LenProperties
    <3>5. Distinct(Tail(mem))
      <4> SUFFICES ASSUME NEW j \in 1 .. Len(mem) - 1, NEW k \in 1 .. Len(mem) - 1,
                          mem[j+1].target = mem[k+1].target
                   PROVE  j = k
        BY <3>2, <3>4 DEF Distinct
      <4>1. j + 1 = k + 1
        BY <1>1, <3>3 DEF Distinct
      <4> QED BY <1>1, <4>1
    <3>6. \A k \in 1 .. Len(mem) - 1 : Tail(mem)[k].target # target
      BY <1>1, <3>1, <3>2, <3>3
    <3> QED BY <1>1, <3>1, <3>2, <3>5, <3>6
  <2> QED BY <2>1, <2>2
<1>6. Remember(mem, target, value) = Append(rest, e)
  BY DEF Remember
<1>7. e.target = target /\ e.ttl = DecayTime /\ e.value = v
  OBVIOUS
<1> HIDE DEF rest, e, v
<1> DEFINE r == Append(rest, e)
<1>8. /\ r \in Seq(Entry) /\ Len(r) = Len(rest) + 1 /\ r[Len(rest) + 1] = e
      /\ Len(rest) \in Nat /\ \A k \in 1 .. Len(rest) : r[k] = rest[k]
  BY <1>3, <1>5, AppendProperties, LenProperties
<1> HIDE DEF r
<1>9. DOMAIN r = 1 .. Len(rest) + 1 /\ DOMAIN rest = 1 .. Len(rest)
  BY <1>5, <1>8, LenProperties
<1>10. Distinct(r)
  <2> SUFFICES ASSUME NEW j \in 1 .. Len(rest) + 1, NEW k \in 1 .. Len(rest) + 1, r[j].target = r[k].target
               PROVE  j = k
    BY <1>9 DEF Distinct
  <2>1. \A i \in 1 .. Len(rest) + 1 : i = Len(rest) + 1 \/ i \in 1 .. Len(rest)
    BY <1>8
  <2>2. CASE j \in 1 .. Len(rest) /\ k \in 1 .. Len(rest)
    BY <1>5, <1>8, <1>9, <2>2 DEF Distinct
  <2>3. CASE ~ (j \in 1 .. Len(rest) /\ k \in 1 .. Len(rest))
    BY <1>5, <1>7, <1>8, <2>1, <2>3
  <2> QED BY <2>2, <2>3
<1>11. Len(r) <= Capacity /\ Len(r) > 0
  BY <1>1, <1>5, <1>8
<1>12. r[Len(r)] = e
  BY <1>8
<1>13. Remember(mem, target, value) = r
  BY <1>6 DEF r
<1> QED BY <1>2, <1>7, <1>8, <1>10, <1>11, <1>12, <1>13

\* MemoryComponent.Tick: nothing is added; the newest entry stays while it has time left.
LEMMA ForgetProperties ==
  ASSUME NEW mem \in Seq(Entry), Distinct(mem), NEW dt \in Nat
  PROVE  LET r == Forget(mem, dt)
         IN  /\ r \in Seq(Entry) /\ Len(r) <= Len(mem) /\ Distinct(r)
             /\ Len(mem) > 0 /\ mem[Len(mem)].ttl > dt =>
                  /\ Len(r) > 0 /\ r[Len(r)].target = mem[Len(mem)].target
                  /\ r[Len(r)].value = mem[Len(mem)].value
                  /\ r[Len(r)].ttl = mem[Len(mem)].ttl - dt
<1> DEFINE a == Aged(mem, dt)
           alive == {k \in DOMAIN mem : mem[k].ttl > dt}
<1>1. Len(mem) \in Nat /\ DOMAIN mem = 1 .. Len(mem) /\ \A k \in 1 .. Len(mem) : mem[k] \in Entry
  BY LenProperties
<1>2. ASSUME NEW k \in 1 .. Len(mem)
      PROVE  /\ a[k] \in Entry /\ a[k].target = mem[k].target /\ a[k].value = mem[k].value
             /\ mem[k].ttl > dt => a[k].ttl = mem[k].ttl - dt
  BY <1>1 DEF Aged, Entry, Minus
<1>3. a = [k \in 1 .. Len(mem) |-> a[k]]
  BY <1>1 DEF Aged
<1> HIDE DEF a
<1>4. a \in Seq(Entry) /\ Len(a) = Len(mem) /\ DOMAIN a = 1 .. Len(mem)
  <2>1. a \in [1 .. Len(mem) -> Entry]
    BY <1>2, <1>3
  <2> QED BY <1>1, <2>1, FunctionIsSeq
<1>5. Distinct(a)
  BY <1>1, <1>2, <1>4 DEF Distinct
<1>6. Forget(mem, dt) = Only(a, alive)
  BY DEF Forget, a
<1> HIDE DEF alive
<1> DEFINE r == Only(a, alive)
<1>7. r \in Seq(Entry) /\ Len(r) <= Len(mem) /\ Distinct(r)
  BY <1>4, <1>5, OnlyProperties, OnlyDistinct DEF Selects
<1>8. Len(mem) > 0 /\ Len(mem) \in alive => Len(r) > 0 /\ r[Len(r)] = a[Len(mem)]
  BY <1>4, OnlyProperties
<1> HIDE DEF r
<1>9. ASSUME Len(mem) > 0, mem[Len(mem)].ttl > dt
      PROVE  /\ Len(r) > 0 /\ r[Len(r)].target = mem[Len(mem)].target
             /\ r[Len(r)].value = mem[Len(mem)].value
             /\ r[Len(r)].ttl = mem[Len(mem)].ttl - dt
  <2>1. Len(mem) \in 1 .. Len(mem) /\ Len(mem) \in alive
    BY <1>1, <1>9 DEF alive
  <2> QED BY <1>2, <1>8, <1>9, <2>1
<1> QED BY <1>6, <1>7, <1>9 DEF r

-----------------------------------------------------------------------------
(* The inductive invariant *)

EventRecord == [type : EventTypes, severity : Severities, actor : Actors \cup {None}]

Types ==
  /\ sent \in Seq(EventRecord)
  /\ Len(sent) <= MaxEvents
  /\ ttl \in Seq(Nat) /\ Len(ttl) = Len(sent)
  /\ phase \in {"wait", "think"} /\ lag \in 0 .. MaxLag
  /\ phase = "think" => lag > 0
  /\ level \in [Npcs -> Nat] /\ left \in [Npcs -> Nat]
  /\ source \in [Npcs -> 0 .. Len(sent)]
  /\ lastType \in [Npcs -> {None} \cup {t.name : t \in EventTypes}]
  /\ fsm \in [Npcs -> {"Idle", "Alarmed", "Flee", "Cower"}]
  /\ memory \in [Npcs -> Seq(Entry)]
  /\ exposure \in [Npcs -> 0 .. 2] /\ overdue \in [Npcs -> 0 .. 2]

MemoryShape(n) == Len(memory[n]) <= Capacity /\ Distinct(memory[n])

\* One tick of a severe event is enough to leave Idle, and only Cower outlasts the threat.
Flight(n) ==
  /\ exposure[n] # 0 => fsm[n] # "Idle"
  /\ exposure[n] = 2 => fsm[n] \in {"Flee", "Cower"}
  /\ overdue[n] = 0 \/ (overdue[n] = 1 /\ fsm[n] = "Cower")

ThreatInv == Types /\ ClearedTogether /\ SharedFate /\ \A n \in Npcs : MemoryShape(n) /\ Flight(n)

\* The newest memory is of whoever caused the threat, and has time left for as long as the level
\* takes to decay.
Blames(n) ==
  LET a == sent[source[n]].actor
      newest == memory[n][Len(memory[n])]
  IN  source[n] # 0 /\ a # None =>
        /\ Len(memory[n]) > 0 /\ newest.target = a
        /\ newest.value >= level[n] /\ level[n] <= DecayRate * newest.ttl

BlameInv == \A n \in Npcs : Blames(n)

-----------------------------------------------------------------------------
(* FSM *)

\* The civilian's transition table, state by state.
LEMMA FsmTable ==
  ASSUME NEW lv \in Nat, NEW type, NEW time \in Nat
  PROVE  /\ FsmTick("Idle", lv, type, time) = IF type # None THEN "Alarmed" ELSE "Idle"
         /\ FsmTick("Alarmed", lv, type, time) =
              IF lv >= FleeLevel /\ time > 0 THEN "Flee" ELSE IF type = None THEN "Idle" ELSE "Alarmed"
         /\ FsmTick("Flee", lv, type, time) =
              IF lv >= CowerLevel THEN "Cower" ELSE IF lv < CalmLevel \/ time = 0 THEN "Idle" ELSE "Flee"
         /\ FsmTick("Cower", lv, type, time) = IF lv < CalmLevel \/ time = 0 THEN "Idle" ELSE "Cower"
<1> DEFINE T == Transitions(lv, type, time)
           ready(state) == {t \in T : t.from = state /\ t.holds}
           first(state) == CHOOSE t \in ready(state) : \A u \in ready(state) : u.priority <= t.priority
<1> DEFINE toAlarmed == [from |-> "Idle", to |-> "Alarmed", priority |-> 10, holds |-> type # None]
           toFlee == [from |-> "Alarmed", to |-> "Flee", priority |-> 10, holds |-> lv >= FleeLevel /\ time > 0]
           unalarmed == [from |-> "Alarmed", to |-> "Idle", priority |-> 5, holds |-> type = None]
           toCower == [from |-> "Flee", to |-> "Cower", priority |-> 8, holds |-> lv >= CowerLevel]
           calmed == [from |-> "Flee", to |-> "Idle", priority |-> 5, holds |-> lv < CalmLevel \/ time = 0]
           recovered == [from |-> "Cower", to |-> "Idle", priority |-> 5, holds |-> lv < CalmLevel \/ time = 0]
<1>0. FleeLevel \in Nat /\ CowerLevel \in Nat /\ CalmLevel \in Nat
  BY ConfigAssumption DEF ConfigAssumption
<1>1. \A t : t \in T <=> t \in {toAlarmed, toFlee, unalarmed, toCower, calmed, recovered}
  BY DEF Transitions
<1>2. /\ toAlarmed.from = "Idle" /\ toFlee.from = "Alarmed" /\ unalarmed.from = "Alarmed"
      /\ toCower.from = "Flee" /\ calmed.from = "Flee" /\ recovered.from = "Cower"
      /\ toAlarmed.holds <=> type # None
      /\ toFlee.holds <=> lv >= FleeLevel /\ time > 0
      /\ unalarmed.holds <=> type = None
      /\ toCower.holds <=> lv >= CowerLevel
      /\ calmed.holds <=> lv < CalmLevel \/ time = 0
      /\ recovered.holds <=> lv < CalmLevel \/ time = 0
  OBVIOUS
<1>3. /\ toAlarmed.priority = 10 /\ toFlee.priority = 10 /\ unalarmed.priority = 5 /\ toCower.priority = 8
      /\ calmed.priority = 5 /\ recovered.priority = 5 /\ toAlarmed.to = "Alarmed" /\ toFlee.to = "Flee"
      /\ unalarmed.to = "Idle" /\ toCower.to = "Cower" /\ calmed.to = "Idle" /\ recovered.to = "Idle"
  OBVIOUS
<1> HIDE DEF T, toAlarmed, toFlee, unalarmed, toCower, calmed, recovered
<1>4. \A t : t \in ready("Idle") <=> t = toAlarmed /\ type # None
  BY <1>1, <1>2
<1>5. /\ \A t \in ready("Alarmed") : t = toFlee \/ t = unalarmed
      /\ toFlee \in ready("Alarmed") <=> lv >= FleeLevel /\ time > 0
      /\ unalarmed \in ready("Alarmed") <=> type = None
  BY <1>1, <1>2
<1>6. \A t : t \in ready("Flee") <=> (t = toCower /\ lv >= CowerLevel) \/ (t = calmed /\ (lv < CalmLevel \/ time = 0))
  BY <1>1, <1>2
<1>7. \A t : t \in ready("Cower") <=> t = recovered /\ (lv < CalmLevel \/ time = 0)
  BY <1>1, <1>2
<1>8. ASSUME NEW state
      PROVE  FsmTick(state, lv, type, time) = IF ready(state) = {} THEN state ELSE first(state).to
  BY DEF FsmTick, T
<1>9. ASSUME NEW state, NEW t \in ready(state), \A u \in ready(state) : u.priority <= t.priority,
             \A u \in ready(state) : u.priority = t.priority => u = t, \A u \in ready(state) : u.priority \in Nat
      PROVE  FsmTick(state, lv, type, time) = t.to
  <2>1. first(state) \in ready(state) /\ \A u \in ready(state) : u.priority <= first(state).priority
    BY <1>9
  <2>2. first(state) = t
    BY <1>9, <2>1
  <2> QED BY <1>8, <1>9, <2>2
<1> HIDE DEF ready
<1> QED
  <2>1. FsmTick("Idle", lv, type, time) = IF type # None THEN "Alarmed" ELSE "Idle"
    <3>1. CASE type # None
      <4>1. \A u : u \in ready("Idle") <=> u = toAlarmed
        BY <1>4, <3>1
      <4>2. FsmTick("Idle", lv, type, time) = toAlarmed.to
        BY <1>3, <1>9, <4>1
      <4> QED BY <1>3, <3>1, <4>2
    <3>2. CASE type = None
      <4>1. ready("Idle") = {}
        BY <1>4, <3>2
      <4> QED BY <1>8, <3>2, <4>1
    <3> QED BY <3>1, <3>2
  <2>2. FsmTick("Alarmed", lv, type, time) =
          IF lv >= FleeLevel /\ time > 0 THEN "Flee" ELSE IF type = None THEN "Idle" ELSE "Alarmed"
    <3>1. \A u \in ready("Alarmed") : u.priority \in Nat /\ u.priority <= 10
                                       /\ (u.priority = 10 => u = toFlee) /\ (u.priority = 5 => u = unalarmed)
      <4> TAKE u \in ready("Alarmed")
      <4>1. CASE u = toFlee
        BY <1>3, <4>1
      <4>2. CASE u = unalarmed
        BY <1>3, <4>2
      <4> QED BY <1>5, <4>1, <4>2
    <3>2. CASE lv >= FleeLevel /\ time > 0
      <4>1. toFlee \in ready("Alarmed")
        BY <1>5, <3>2
      <4>2. FsmTick("Alarmed", lv, type, time) = toFlee.to
        BY <1>3, <1>9, <3>1, <4>1
      <4> QED BY <1>3, <3>2, <4>2
    <3>3. CASE ~ (lv >= FleeLevel /\ time > 0) /\ type = None
      <4>1. \A u : u \in ready("Alarmed") <=> u = unalarmed
        BY <1>5, <3>3
      <4>2. FsmTick("Alarmed", lv, type, time) = unalarmed.to
        BY <1>3, <1>9, <4>1
      <4> QED BY <1>3, <3>3, <4>2
    <3>4. CASE ~ (lv >= FleeLevel /\ time > 0) /\ type # None
      <4>1. ready("Alarmed") = {}
        BY <1>5, <3>4
      <4> QED BY <1>8, <3>4, <4>1
    <3> QED BY <3>2, <3>3, <3>4
  <2>3. FsmTick("Flee", lv, type, time) =
          IF lv >= CowerLevel THEN "Cower" ELSE IF lv < CalmLevel \/ time = 0 THEN "Idle" ELSE "Flee"
    <3>1. CASE lv >= CowerLevel
      BY <1>3, <1>6, <1>9, <3>1
    <3>2. CASE ~ (lv >= CowerLevel)
      BY <1>3, <1>6, <1>8, <1>9, <3>2
    <3> QED BY <3>1, <3>2
  <2>4. FsmTick("Cower", lv, type, time) = IF lv < CalmLevel \/ time = 0 THEN "Idle" ELSE "Cower"
    BY <1>3, <1>7, <1>8, <1>9
  <2> QED BY <2>1, <2>2, <2>3, <2>4

-----------------------------------------------------------------------------
(* Perception *)

\* What is on the bus: each event with its severity, of which there are finitely many.
LEMMA ActiveTypes ==
  ASSUME Types
  PROVE  /\ IsFiniteSet(Active) /\ 0 \notin Active
         /\ \A e \in Active : /\ e \in 1 .. Len(sent) /\ sent[e].severity \in Severities
                              /\ sent[e].severity \in Nat /\ sent[e].severity > 0
                              /\ sent[e].type \in EventTypes /\ sent[e].actor \in Actors \cup {None}
                              /\ ttl[e] \in Nat /\ ttl[e] > 0
<1>0. Len(sent) \in Nat
  BY LenProperties DEF Types
<1>1. Len(sent) \in Nat /\ DOMAIN sent = 1 .. Len(sent)
      /\ \A e \in 1 .. Len(sent) : /\ sent[e].type \in EventTypes /\ sent[e].severity \in Severities
                                   /\ sent[e].actor \in Actors \cup {None}
                                   /\ ttl[e] \in Nat
  <2>1. /\ Len(sent) \in Nat /\ DOMAIN sent = 1 .. Len(sent)
        /\ \A e \in 1 .. Len(sent) : sent[e] \in EventRecord
    BY LenProperties DEF Types
  <2>2. \A e \in 1 .. Len(sent) : ttl[e] \in Nat
    BY LenProperties DEF Types
  <2> QED BY <2>1, <2>2 DEF EventRecord
<1>2. Active \subseteq 1 .. Len(sent)
  BY <1>1 DEF Active
<1>3. IsFiniteSet(Active)
  <2>1. IsFiniteSet(1 .. Len(sent))
    <3>1. 1 \in Int /\ Len(sent) \in Int
      BY <1>0
    <3> QED BY <3>1, FS_Interval
  <2> QED BY <1>2, <2>1, FS_Subset
<1>4. ASSUME NEW e \in Active
      PROVE  e \in 1 .. Len(sent) /\ ttl[e] > 0 /\ sent[e].severity \in Nat /\ sent[e].severity > 0
  <2>1. e \in 1 .. Len(sent) /\ ttl[e] > 0
    BY <1>1 DEF Active
  <2>2. sent[e].severity \in Nat \ {0}
    BY <1>1, <2>1, ConfigAssumption DEF ConfigAssumption
  <2> QED BY <2>1, <2>2
<1>5. 0 \notin Active
  <2>1. 0 \notin 1 .. Len(sent)
    BY <1>0
  <2> QED BY <1>2, <2>1
<1> QED BY <1>1, <1>3, <1>4, <1>5

\* Companions is an equivalence: a group, or an NPC by itself.
LEMMA CompanionsSame ==
  ASSUME NEW n \in Npcs, NEW m \in Companions(n)
  PROVE  m \in Npcs /\ n \in Companions(n) /\ Companions(m) = Companions(n)
BY DEF Companions

\* The greatest strength at which the members attend to a pooled event exists, and is that of one.
LEMMA StrengthIs ==
  ASSUME Types, NEW heard \in Perceptions,
         NEW kept, \A m \in Npcs : kept[m] \in Kept(heard[m]),
         NEW n \in Npcs, NEW e \in Pool(heard, kept, n)
  PROVE  /\ e \in Active /\ Strength(heard, kept, n, e) \in 1 .. sent[e].severity
         /\ \A m \in Companions(n) : e \in kept[m] => heard[m][e] <= Strength(heard, kept, n, e)
<1> DEFINE S == {heard[m][e] : m \in {o \in Companions(n) : e \in kept[o]}}
           v == Strength(heard, kept, n, e)
<1>1. PICK k \in Companions(n) : e \in kept[k]
  BY DEF Pool
<1>2. ASSUME NEW m \in Companions(n), e \in kept[m]
      PROVE  e \in Active /\ heard[m][e] \in Nat /\ heard[m][e] > 0 /\ heard[m][e] <= sent[e].severity
  <2>1. m \in Npcs /\ kept[m] \in Kept(heard[m])
    BY CompanionsSame
  <2>2. e \in Active /\ heard[m][e] > 0
    BY <1>2, <2>1 DEF Kept
  <2>3. heard[m][e] \in Strengths \cup Severities
    BY <2>1, <2>2 DEF Perceptions
  <2>4. heard[m][e] \in Nat
    BY <2>3, ConfigAssumption DEF ConfigAssumption
  <2>5. heard[m][e] <= sent[e].severity
    <3>1. IF sent[e].type.global THEN heard[m][e] = sent[e].severity ELSE heard[m][e] <= sent[e].severity
      BY <2>1, <2>2 DEF Perceptions
    <3> QED BY <2>4, <3>1
  <2> QED BY <2>2, <2>4, <2>5
<1>3. sent[e].severity \in Nat
  BY <1>1, <1>2, ActiveTypes
<1>4. \E x \in S : \A y \in S : y <= x
  <2>1. S \subseteq Nat /\ S # {} /\ \A y \in S : y <= sent[e].severity
    BY <1>1, <1>2
  <2> HIDE DEF S
  <2> QED BY <1>3, <2>1, GreatestElement
<1>5. \E x \in S : \A m \in Companions(n) : e \in kept[m] => heard[m][e] <= x
  BY <1>4
<1>6. v \in S /\ \A m \in Companions(n) : e \in kept[m] => heard[m][e] <= v
  <2>1. v = CHOOSE x \in S : \A m \in Companions(n) : e \in kept[m] => heard[m][e] <= x
    BY DEF Strength
  <2> HIDE DEF v, S
  <2> QED BY <1>5, <2>1
<1>7. v \in 1 .. sent[e].severity
  <2>1. PICK m \in Companions(n) : e \in kept[m] /\ v = heard[m][e]
    BY <1>6
  <2> HIDE DEF v
  <2> QED BY <1>2, <1>3, <2>1
<1> QED BY <1>1, <1>2, <1>6, <1>7

\* Whoever can hear an event attends to one at least as strong.
LEMMA AttendsTo ==
  ASSUME Types, NEW heard \in Perceptions, NEW n \in Npcs, NEW kept \in Kept(heard[n]),
         NEW e \in Active, heard[n][e] > 0
  PROVE  \E d \in kept : heard[n][d] >= heard[n][e]
<1> DEFINE audible == {d \in Active : heard[n][d] > 0}
<1>1. /\ kept \subseteq audible
      /\ Cardinality(kept) = IF Cardinality(audible) < Attention THEN Cardinality(audible) ELSE Attention
      /\ \A k \in kept, d \in audible \ kept : heard[n][d] <= heard[n][k]
  BY DEF Kept
<1>2. e \in audible /\ IsFiniteSet(audible)
  <2>1. audible \subseteq Active
    OBVIOUS
  <2> QED BY <2>1, ActiveTypes, FS_Subset
<1>3. heard[n][e] \in Nat
  <2>1. heard[n][e] \in Strengths \cup Severities
    BY DEF Perceptions
  <2> QED BY <2>1, ConfigAssumption DEF ConfigAssumption
<1> HIDE DEF audible
<1>4. Cardinality(audible) \in Nat /\ Cardinality(audible) # 0
  BY <1>2, FS_CardinalityType, FS_EmptySet
<1>5. kept # {}
  <2>1. Cardinality(kept) # 0
    BY <1>1, <1>4, ConfigAssumption DEF ConfigAssumption
  <2> QED BY <2>1, FS_EmptySet
<1>6. CASE e \in kept
  BY <1>3, <1>6
<1>7. CASE e \notin kept
  <2>1. PICK d \in kept : TRUE
    BY <1>5
  <2>2. heard[n][e] <= heard[n][d]
    BY <1>1, <1>2, <1>7, <2>1
  <2> QED BY <2>1, <2>2
<1> QED BY <1>6, <1>7

\* What the decision is given: the members of a group the same event at the same strength, and a
\* severe one if there is any.
Perceived(best, s) ==
  /\ best \in [Npcs -> Active \cup {0}] /\ s \in [Npcs -> Nat]
  /\ \A n \in Npcs : IF best[n] = 0 THEN s[n] = 0 ELSE s[n] \in 1 .. sent[best[n]].severity
  /\ \A n \in Npcs : \A m \in Companions(n) : best[m] = best[n] /\ s[m] = s[n]
  /\ (\E e \in Active : Severe(e)) => \A n \in Npcs : best[n] # 0 /\ s[n] >= FleeLevel

\* Trimming, pooling and the choice of the worst yield what Perceived promises.
LEMMA PerceivedIs ==
  ASSUME Types, NEW heard \in Perceptions,
         NEW kept \in {k \in [Npcs -> SUBSET Active] : \A n \in Npcs : k[n] \in Kept(heard[n])},
         NEW best \in Worst(heard, kept)
  PROVE  Perceived(best, [n \in Npcs |-> IF best[n] = 0 THEN 0 ELSE Strength(heard, kept, n, best[n])])
<1> DEFINE s == [n \in Npcs |-> IF best[n] = 0 THEN 0 ELSE Strength(heard, kept, n, best[n])]
<1>1. \A m \in Npcs : kept[m] \in Kept(heard[m])
  OBVIOUS
<1>2. best \in [Npcs -> Active \cup {0}] /\ 0 \notin Active
  BY ActiveTypes DEF Worst
<1>3. ASSUME NEW n \in Npcs, best[n] # 0
      PROVE  /\ best[n] \in Pool(heard, kept, n) /\ best[n] \in Active
             /\ s[n] = Strength(heard, kept, n, best[n]) /\ s[n] \in 1 .. sent[best[n]].severity
  <2>1. best[n] \in Pool(heard, kept, n)
    BY <1>3 DEF Worst
  <2> QED BY <1>1, <1>3, <2>1, StrengthIs
<1>4. ASSUME NEW n \in Npcs, NEW m \in Companions(n) PROVE best[m] = best[n] /\ s[m] = s[n]
  <2>1. m \in Npcs /\ Companions(m) = Companions(n)
    BY CompanionsSame
  <2>2. best[m] = best[n]
    BY DEF Worst
  <2>3. \A e : Strength(heard, kept, m, e) = Strength(heard, kept, n, e)
    BY <2>1 DEF Strength
  <2> QED BY <2>1, <2>2, <2>3
<1>5. ASSUME NEW e \in Active, Severe(e), NEW n \in Npcs
      PROVE  best[n] # 0 /\ s[n] >= FleeLevel
  <2>1. heard[n][e] = sent[e].severity /\ sent[e].severity >= FleeLevel /\ sent[e].severity > 0
    BY <1>5, ActiveTypes DEF Perceptions, Severe
  <2>2. PICK d \in kept[n] : heard[n][d] >= heard[n][e]
    BY <1>1, <2>1, AttendsTo
  <2>3. n \in Companions(n) /\ d \in Pool(heard, kept, n)
    BY DEF Companions, Pool
  <2>4. heard[n][d] <= Strength(heard, kept, n, d) /\ Strength(heard, kept, n, d) \in Nat
    <3>1. Strength(heard, kept, n, d) \in 1 .. sent[d].severity
      BY <1>1, <2>3, StrengthIs
    <3>2. heard[n][d] <= Strength(heard, kept, n, d)
      BY <1>1, <2>2, <2>3, StrengthIs
    <3> QED BY <3>1, <3>2
  <2>5. best[n] # 0 /\ Strength(heard, kept, n, d) <= Strength(heard, kept, n, best[n])
    <3>1. best[n] \in Pool(heard, kept, n)
          /\ \A x \in Pool(heard, kept, n) : Strength(heard, kept, n, x) <= Strength(heard, kept, n, best[n])
      BY <2>3 DEF Worst
    <3>2. best[n] \in Active
      BY <1>1, <3>1, StrengthIs
    <3> QED BY <1>2, <2>3, <3>1, <3>2
  <2>6. heard[n][d] \in Nat
    <3>1. d \in Active
      BY <1>1, <2>3, StrengthIs
    <3>2. heard[n][d] \in Strengths \cup Severities
      BY <3>1 DEF Perceptions
    <3> QED BY <3>2, ConfigAssumption DEF ConfigAssumption
  <2>7. s[n] = Strength(heard, kept, n, best[n]) /\ s[n] \in Nat /\ FleeLevel \in Nat
    <3> HIDE DEF s
    <3>1. s[n] = Strength(heard, kept, n, best[n]) /\ s[n] \in 1 .. sent[best[n]].severity
      BY <1>3, <2>5
    <3>2. FleeLevel \in Nat
      BY ConfigAssumption DEF ConfigAssumption
    <3>3. s[n] \in Nat
      BY <3>1
    <3> QED BY <3>1, <3>2, <3>3
  <2>8. sent[e].severity \in Nat
    BY ActiveTypes
  <2> HIDE DEF s
  <2> QED BY <2>1, <2>2, <2>4, <2>5, <2>6, <2>7, <2>8
<1>6. \A n \in Npcs : IF best[n] = 0 THEN s[n] = 0 ELSE s[n] \in 1 .. sent[best[n]].severity
  BY <1>3
<1>7. s \in [Npcs -> Nat]
  <2>1. \A n \in Npcs : s[n] \in Nat
    <3> HIDE DEF s
    <3> QED BY <1>6
  <2> QED BY <2>1
<1> HIDE DEF s
<1>8. Perceived(best, s)
  BY <1>2, <1>4, <1>5, <1>6, <1>7 DEF Perceived
<1> QED BY <1>8 DEF s

-----------------------------------------------------------------------------
(* The steps *)

\* A difference that stops at zero.
LEMMA MinusNat ==
  ASSUME NEW a \in Nat, NEW b \in Nat
  PROVE  Minus(a, b) \in Nat /\ Minus(a, b) <= a
BY DEF Minus

\* An empty memory is one.
LEMMA NothingRemembered ==
  /\ <<>> \in Seq(Entry) /\ Len(<<>>) <= Capacity /\ Distinct(<<>>)
<1>1. <<>> \in Seq(Entry) /\ Len(<<>>) = 0 /\ \A k : k \notin DOMAIN <<>>
  <2>1. <<>> \in Seq(Entry) /\ Len(<<>>) = 0
    BY EmptySeq
  <2>2. DOMAIN <<>> = 1 .. 0
    BY <2>1, LenProperties
  <2> QED BY <2>1, <2>2
<1>2. Capacity \in Nat
  BY ConfigAssumption DEF ConfigAssumption
<1> QED BY <1>1, <1>2 DEF Distinct

\* The program starts in the invariants.
LEMMA InitThreat == Init => ThreatInv /\ BlameInv
<1> SUFFICES ASSUME Init PROVE ThreatInv /\ BlameInv
  OBVIOUS
<1>1. Len(sent) = 0 /\ sent \in Seq(EventRecord) /\ ttl \in Seq(Nat) /\ Len(ttl) = 0
  BY EmptySeq DEF Init
<1>2. Types
  <2>1. phase = "wait" /\ lag = 0 /\ MaxLag \in Nat /\ MaxEvents \in Nat
    BY ConfigAssumption DEF Init, ConfigAssumption
  <2>2. memory \in [Npcs -> Seq(Entry)]
    BY NothingRemembered DEF Init
  <2>3. level \in [Npcs -> Nat] /\ left \in [Npcs -> Nat]
    BY DEF Init
  <2>4. source \in [Npcs -> 0 .. Len(sent)]
    <3>1. 0 \in 0 .. Len(sent)
      BY <1>1
    <3> QED BY <3>1 DEF Init
  <2>5. /\ lastType \in [Npcs -> {None} \cup {t.name : t \in EventTypes}]
        /\ fsm \in [Npcs -> {"Idle", "Alarmed", "Flee", "Cower"}]
    BY DEF Init
  <2>6. exposure \in [Npcs -> 0 .. 2] /\ overdue \in [Npcs -> 0 .. 2]
    <3>1. 0 \in 0 .. 2
      OBVIOUS
    <3> QED BY <3>1 DEF Init
  <2>7. Len(sent) <= MaxEvents /\ lag \in 0 .. MaxLag
    BY <1>1, <2>1
  <2> QED BY <1>1, <2>1, <2>2, <2>3, <2>4, <2>5, <2>6, <2>7 DEF Types
<1>3. ASSUME NEW n \in Npcs PROVE MemoryShape(n) /\ Flight(n) /\ Blames(n)
  <2>1. memory[n] = <<>> /\ source[n] = 0 /\ exposure[n] = 0 /\ overdue[n] = 0
    BY DEF Init
  <2> QED BY <2>1, NothingRemembered DEF MemoryShape, Flight, Blames
<1>4. ClearedTogether /\ SharedFate
  BY DEF Init, ClearedTogether, SharedFate
<1> QED BY <1>2, <1>3, <1>4 DEF ThreatInv, BlameInv

\* What an NPC fears is still what it was after another event is published.
LEMMA PublishKeeps ==
  ASSUME ThreatInv, NEW type \in EventTypes, NEW severity \in Severities, NEW actor \in Actors \cup {None},
         Publish(type, severity, actor), NEW n \in Npcs, source[n] # 0
  PROVE  sent'[source[n]] = sent[source[n]]
<1> DEFINE e == [type |-> type, severity |-> severity, actor |-> actor]
<1>1. sent' = Append(sent, e) /\ e \in EventRecord
  BY DEF Publish, EventRecord
<1> HIDE DEF e
<1>2. sent \in Seq(EventRecord) /\ Len(sent) \in Nat /\ source[n] \in 0 .. Len(sent)
  BY LenProperties DEF ThreatInv, Types
<1>3. source[n] \in 1 .. Len(sent)
  BY <1>2
<1> QED BY <1>1, <1>2, <1>3, AppendProperties

\* A new event is added to the bus and changes nothing about the others.
LEMMA PublishThreat ==
  ASSUME ThreatInv, NEW type \in EventTypes, NEW severity \in Severities, NEW actor \in Actors \cup {None},
         Publish(type, severity, actor)
  PROVE  ThreatInv' /\ (BlameInv => BlameInv')
<1> DEFINE e == [type |-> type, severity |-> severity, actor |-> actor]
<1>1. sent' = Append(sent, e) /\ ttl' = Append(ttl, type.ttl) /\ Len(sent) < MaxEvents
      /\ UNCHANGED <<phase, lag, level, source, lastType, left, fsm, memory, exposure, overdue>>
  BY DEF Publish, npcVars, historyVars
<1>2. e \in EventRecord /\ type.ttl \in Nat
  BY ConfigAssumption DEF ConfigAssumption, EventRecord
<1> HIDE DEF e
<1>3. sent \in Seq(EventRecord) /\ ttl \in Seq(Nat) /\ Len(sent) \in Nat /\ Len(ttl) = Len(sent)
  BY LenProperties DEF ThreatInv, Types
<1>4. sent' \in Seq(EventRecord) /\ Len(sent') = Len(sent) + 1 /\ \A k \in 1 .. Len(sent) : sent'[k] = sent[k]
  <2>1. sent' = Append(sent, e) /\ sent \in Seq(EventRecord) /\ e \in EventRecord
    BY <1>1, <1>2, <1>3
  <2> QED BY <2>1, AppendProperties
<1>13. Len(sent) \in Nat /\ Len(sent') \in Nat /\ Len(sent') = Len(sent) + 1
  BY <1>3, <1>4, LenProperties
<1>5. ttl' \in Seq(Nat) /\ Len(ttl') = Len(sent) + 1
  <2>1. ttl' = Append(ttl, type.ttl) /\ ttl \in Seq(Nat) /\ type.ttl \in Nat /\ Len(ttl) = Len(sent)
    BY <1>1, <1>2, <1>3
  <2> QED BY <2>1, AppendProperties
<1>6. Len(sent') <= MaxEvents
  <2>1. MaxEvents \in Nat
    BY ConfigAssumption DEF ConfigAssumption
  <2>2. Len(sent) < MaxEvents
    BY <1>1
  <2> QED BY <1>13, <2>1, <2>2
<1>7. source' \in [Npcs -> 0 .. Len(sent')]
  <2>1. 0 .. Len(sent) \subseteq 0 .. Len(sent')
    BY <1>13
  <2> QED BY <1>1, <2>1 DEF ThreatInv, Types
<1>8. Types'
  BY <1>1, <1>4, <1>5, <1>6, <1>7 DEF ThreatInv, Types
<1>9. \A n \in Npcs : source[n] # 0 => sent'[source[n]] = sent[source[n]]
  BY PublishKeeps
<1>10. ClearedTogether'
  BY <1>1, <1>9 DEF ThreatInv, ClearedTogether
<1>11. SharedFate' /\ \A n \in Npcs : MemoryShape(n)' /\ Flight(n)'
  BY <1>1 DEF ThreatInv, SharedFate, Companions, MemoryShape, Distinct, Flight
<1>12. BlameInv => BlameInv'
  BY <1>1, <1>9 DEF BlameInv, Blames
<1> QED BY <1>8, <1>10, <1>11, <1>12 DEF ThreatInv

\* The bus ages; nothing else happens.
LEMMA TickBusThreat ==
  ASSUME ThreatInv, TickBus
  PROVE  ThreatInv' /\ (BlameInv => BlameInv')
<1>1. PICK dt \in 1 .. MaxLag : lag' = dt /\ ttl' = [e \in DOMAIN ttl |-> Minus(ttl[e], dt)]
  BY DEF TickBus
<1>2. phase' = "think"
      /\ UNCHANGED <<sent, level, source, lastType, left, fsm, memory, exposure, overdue>>
  BY DEF TickBus, npcVars, historyVars
<1>3. MaxLag \in Nat
  BY ConfigAssumption DEF ConfigAssumption
<1>4. lag' \in 0 .. MaxLag /\ lag' > 0 /\ dt \in Nat
  BY <1>1, <1>3
<1>5. ttl \in Seq(Nat) /\ Len(ttl) = Len(sent) /\ Len(ttl) \in Nat
  BY LenProperties DEF ThreatInv, Types
<1>6. ttl' \in Seq(Nat) /\ Len(ttl') = Len(ttl)
  <2>1. DOMAIN ttl = 1 .. Len(ttl) /\ \A e \in 1 .. Len(ttl) : ttl[e] \in Nat
    BY <1>5, LenProperties
  <2>2. \A e \in 1 .. Len(ttl) : Minus(ttl[e], dt) \in Nat
    BY <1>4, <2>1, MinusNat
  <2>3. ttl' \in [1 .. Len(ttl) -> Nat]
    BY <1>1, <2>1, <2>2
  <2> QED BY <1>5, <2>3, FunctionIsSeq
<1>7. Types'
  BY <1>2, <1>4, <1>5, <1>6 DEF ThreatInv, Types
<1>8. ClearedTogether' /\ SharedFate' /\ \A n \in Npcs : MemoryShape(n)' /\ Flight(n)'
  BY <1>2 DEF ThreatInv, ClearedTogether, SharedFate, Companions, MemoryShape, Distinct, Flight
<1>9. BlameInv => BlameInv'
  BY <1>2 DEF BlameInv, Blames
<1> QED BY <1>7, <1>8, <1>9 DEF ThreatInv

\* A fresh instance feels and remembers nothing.
LEMMA RespawnThreat ==
  ASSUME ThreatInv, NEW n \in Npcs, Respawn(n)
  PROVE  ThreatInv' /\ (BlameInv => BlameInv')
<1>1. UNCHANGED <<sent, ttl, phase, lag>>
  BY DEF Respawn, busVars
<1>2. \A m \in Npcs \ {n} :
        /\ level'[m] = level[m] /\ source'[m] = source[m] /\ lastType'[m] = lastType[m]
        /\ left'[m] = left[m] /\ fsm'[m] = fsm[m] /\ memory'[m] = memory[m]
        /\ exposure'[m] = exposure[m] /\ overdue'[m] = overdue[m]
  BY DEF Respawn, ThreatInv, Types
<1>3. /\ level'[n] = 0 /\ source'[n] = 0 /\ lastType'[n] = None /\ left'[n] = 0 /\ fsm'[n] = "Idle"
      /\ memory'[n] = <<>> /\ exposure'[n] = 0 /\ overdue'[n] = 0
  BY DEF Respawn, ThreatInv, Types
<1>4. Types'
  <2>1. 0 \in 0 .. Len(sent)
    <3>1. Len(sent) \in Nat
      BY LenProperties DEF ThreatInv, Types
    <3> QED BY <3>1
  <2>2. level' \in [Npcs -> Nat] /\ left' \in [Npcs -> Nat]
    BY DEF Respawn, ThreatInv, Types
  <2>3. source' \in [Npcs -> 0 .. Len(sent)]
    BY <2>1 DEF Respawn, ThreatInv, Types
  <2>4. /\ lastType' \in [Npcs -> {None} \cup {t.name : t \in EventTypes}]
        /\ fsm' \in [Npcs -> {"Idle", "Alarmed", "Flee", "Cower"}]
    BY DEF Respawn, ThreatInv, Types
  <2>5. memory' \in [Npcs -> Seq(Entry)]
    BY NothingRemembered DEF Respawn, ThreatInv, Types
  <2>6. exposure' \in [Npcs -> 0 .. 2] /\ overdue' \in [Npcs -> 0 .. 2]
    BY DEF Respawn, ThreatInv, Types
  <2> QED BY <1>1, <2>2, <2>3, <2>4, <2>5, <2>6 DEF ThreatInv, Types
<1>5. ClearedTogether'
  BY <1>1, <1>2, <1>3 DEF ThreatInv, ClearedTogether
<1>6. SharedFate'
  <2> SUFFICES ASSUME NEW k \in Npcs, NEW m \in Companions(k), source'[k] # 0, source'[m] # 0
               PROVE  source'[m] = source'[k] /\ level'[m] = level'[k] /\ left'[m] = left'[k]
    BY DEF SharedFate, Companions
  <2>1. m \in Npcs /\ k # n /\ m # n
    BY <1>3, CompanionsSame
  <2> QED BY <1>2, <2>1 DEF ThreatInv, SharedFate
<1>7. MemoryShape(n)' /\ Flight(n)' /\ Blames(n)'
  BY <1>3, NothingRemembered DEF MemoryShape, Distinct, Flight, Blames
<1>8. \A m \in Npcs \ {n} : MemoryShape(m)' /\ Flight(m)'
  BY <1>2 DEF ThreatInv, MemoryShape, Distinct, Flight
<1>9. BlameInv => \A m \in Npcs \ {n} : Blames(m)'
  BY <1>1, <1>2 DEF BlameInv, Blames
<1> QED BY <1>4, <1>5, <1>6, <1>7, <1>8, <1>9 DEF ThreatInv, BlameInv

\* What the decision writes for one NPC.
Decides(best, s, wall, fading, n) ==
  /\ best[n] # 0 =>
       /\ level'[n] = s[n] /\ source'[n] = best[n]
       /\ lastType'[n] = sent[best[n]].type.name
       /\ left'[n] = IF best[n] \in fading THEN 0 ELSE ttl[best[n]]
  /\ best[n] = 0 =>
       /\ level'[n] = Minus(level[n], DecayRate * lag)
       /\ source'[n] = IF level'[n] = 0 THEN 0 ELSE source[n]
       /\ lastType'[n] = IF level'[n] = 0 THEN None ELSE lastType[n]
       /\ left'[n] = Minus(left[n], wall)
       /\ level'[n] \in Nat /\ left'[n] \in Nat /\ level'[n] <= level[n]

\* Evaluate writes it for every NPC.
LEMMA Decided ==
  ASSUME ThreatInv, NEW best, NEW s, NEW wall \in 1 .. MaxLag, NEW fading,
         Evaluate(best, s, wall, fading), NEW n \in Npcs
  PROVE  Decides(best, s, wall, fading, n)
<1>1. /\ level' = [k \in Npcs |-> IF best[k] # 0 THEN s[k] ELSE Minus(level[k], DecayRate * lag)]
      /\ source' = [k \in Npcs |-> IF best[k] # 0 THEN best[k]
                                   ELSE IF level'[k] = 0 THEN 0 ELSE source[k]]
      /\ lastType' = [k \in Npcs |-> IF best[k] # 0 THEN sent[best[k]].type.name
                                     ELSE IF level'[k] = 0 THEN None ELSE lastType[k]]
      /\ left' = [k \in Npcs |-> IF best[k] = 0 THEN Minus(left[k], wall)
                                 ELSE IF best[k] \in fading THEN 0 ELSE ttl[best[k]]]
  BY DEF Evaluate
<1>2. DecayRate * lag \in Nat /\ wall \in Nat /\ level[n] \in Nat /\ left[n] \in Nat
  <2>1. lag \in Nat /\ DecayRate \in Nat /\ wall \in Nat
    BY ConfigAssumption DEF ConfigAssumption, ThreatInv, Types
  <2>2. DecayRate * lag \in Nat
    BY <2>1
  <2> QED BY <2>1, <2>2 DEF ThreatInv, Types
<1>3. /\ Minus(level[n], DecayRate * lag) \in Nat /\ Minus(level[n], DecayRate * lag) <= level[n]
      /\ Minus(left[n], wall) \in Nat
  BY <1>2, MinusNat
<1> QED BY <1>1, <1>3 DEF Decides

\* The second pass keeps the types,
LEMMA ThinkTypes ==
  ASSUME ThreatInv, NEW best, NEW s, Perceived(best, s), Think(best, s),
         \A n \in Npcs : memory'[n] \in Seq(Entry)
  PROVE  Types'
<1>1. PICK wall \in 1 .. MaxLag, fading \in SUBSET {e \in Active : ttl[e] = 1} :
        Evaluate(best, s, wall, fading)
  BY DEF Think
<1>decided. \A k \in Npcs : Decides(best, s, wall, fading, k)
  BY <1>1, Decided
<1>2. UNCHANGED <<sent, ttl>> /\ phase' = "wait" /\ lag' = 0
  BY DEF Think, busVars
<1>3. lag' \in 0 .. MaxLag
  BY <1>2, ConfigAssumption DEF ConfigAssumption
<1>4. Types
  BY DEF ThreatInv
<1>5. ASSUME NEW n \in Npcs
      PROVE  /\ level'[n] \in Nat /\ left'[n] \in Nat
             /\ source'[n] \in 0 .. Len(sent) /\ lastType'[n] \in {None} \cup {t.name : t \in EventTypes}
  <2>1. Len(sent) \in Nat
    BY <1>4, LenProperties DEF Types
  <2>2. CASE best[n] = 0
    <3>1. level'[n] \in Nat /\ left'[n] \in Nat
      BY <1>1, <2>2, <1>decided DEF Decides
    <3>2. source'[n] \in {0, source[n]} /\ lastType'[n] \in {None, lastType[n]}
      BY <1>1, <2>2, <1>decided DEF Decides
    <3>3. source[n] \in 0 .. Len(sent) /\ lastType[n] \in {None} \cup {t.name : t \in EventTypes}
      BY <1>4 DEF Types
    <3>4. 0 \in 0 .. Len(sent)
      BY <2>1
    <3> QED BY <3>1, <3>2, <3>3, <3>4
  <2>3. CASE best[n] # 0
    <3>1. best[n] \in Active /\ s[n] \in Nat
      BY <2>3 DEF Perceived
    <3>2. /\ level'[n] = s[n] /\ source'[n] = best[n]
          /\ lastType'[n] = sent[best[n]].type.name /\ left'[n] \in {0, ttl[best[n]]}
      BY <1>1, <2>3, <1>decided DEF Decides
    <3>3. best[n] \in 1 .. Len(sent) /\ sent[best[n]].type \in EventTypes /\ ttl[best[n]] \in Nat
      BY <1>4, <3>1, ActiveTypes
    <3>4. best[n] \in 0 .. Len(sent)
      BY <2>1, <3>3
    <3> QED BY <3>1, <3>2, <3>3, <3>4
  <2> QED BY <2>2, <2>3
<1>6. /\ level' \in [Npcs -> Nat] /\ left' \in [Npcs -> Nat] /\ source' \in [Npcs -> 0 .. Len(sent)]
      /\ lastType' \in [Npcs -> {None} \cup {t.name : t \in EventTypes}]
  <2>1. /\ level' = [n \in Npcs |-> level'[n]] /\ source' = [n \in Npcs |-> source'[n]]
        /\ lastType' = [n \in Npcs |-> lastType'[n]] /\ left' = [n \in Npcs |-> left'[n]]
    BY <1>1 DEF Evaluate
  <2> QED BY <1>5, <2>1
<1>7. ASSUME NEW n \in Npcs PROVE fsm'[n] \in {"Idle", "Alarmed", "Flee", "Cower"}
  <2>1. fsm'[n] = FsmTick(fsm[n], level'[n], lastType'[n], left'[n])
    BY DEF Think
  <2>2. fsm[n] \in {"Idle", "Alarmed", "Flee", "Cower"}
    BY <1>4 DEF Types
  <2> QED BY <1>5, <2>1, <2>2, FsmTable
<1>8. fsm' \in [Npcs -> {"Idle", "Alarmed", "Flee", "Cower"}]
  <2>1. fsm' = [n \in Npcs |-> fsm'[n]]
    BY DEF Think
  <2> QED BY <1>7, <2>1
<1>9. memory' \in [Npcs -> Seq(Entry)]
  <2>1. memory' = [n \in Npcs |-> memory'[n]]
    BY DEF Think, Memorize
  <2> QED BY <2>1
<1>10. exposure' \in [Npcs -> 0 .. 2] /\ overdue' \in [Npcs -> 0 .. 2]
  <2>1. ASSUME NEW k \in 0 .. 2 PROVE Min2(k + 1) \in 0 .. 2
    BY DEF Min2
  <2>2. exposure \in [Npcs -> 0 .. 2] /\ overdue \in [Npcs -> 0 .. 2]
    BY <1>4 DEF Types
  <2>3. 0 \in 0 .. 2
    OBVIOUS
  <2>4. exposure' \in [Npcs -> 0 .. 2]
    BY <2>1, <2>2, <2>3 DEF Think
  <2>5. overdue' \in [Npcs -> 0 .. 2]
    BY <2>1, <2>2, <2>3 DEF Think
  <2> QED BY <2>4, <2>5
<1> QED BY <1>2, <1>3, <1>4, <1>6, <1>8, <1>9, <1>10 DEF Types

\* The memory after a tick: aged, and before that the cause of the worst event remembered.
LEMMA Memorized ==
  ASSUME ThreatInv, NEW best, NEW s, Perceived(best, s), Think(best, s), NEW n \in Npcs
  PROVE  LET a == sent[best[n]].actor
             r == IF best[n] # 0 /\ a # None THEN Remember(memory[n], a, s[n]) ELSE memory[n]
         IN  /\ memory'[n] = Forget(r, lag)
             /\ r \in Seq(Entry) /\ Len(r) <= Capacity /\ Distinct(r)
             /\ best[n] # 0 /\ a # None =>
                  /\ Len(r) > 0 /\ r[Len(r)].target = a
                  /\ r[Len(r)].ttl = DecayTime /\ r[Len(r)].value >= s[n]
<1> DEFINE a == sent[best[n]].actor
           r == IF best[n] # 0 /\ a # None THEN Remember(memory[n], a, s[n]) ELSE memory[n]
<1>1. memory'[n] = Forget(r, lag)
  BY DEF Think, Memorize
<1>2. memory[n] \in Seq(Entry) /\ Len(memory[n]) <= Capacity /\ Distinct(memory[n])
  BY DEF ThreatInv, Types, MemoryShape
<1>3. CASE best[n] # 0 /\ a # None
  <2>1. best[n] \in Active /\ s[n] \in Nat
    BY <1>3 DEF Perceived
  <2>2. a \in Actors
    BY <1>3, <2>1, ActiveTypes DEF ThreatInv
  <2>3. r = Remember(memory[n], a, s[n])
    BY <1>3
  <2> HIDE DEF a, r
  <2>4. /\ r \in Seq(Entry) /\ Len(r) <= Capacity /\ Distinct(r) /\ Len(r) > 0
        /\ r[Len(r)].target = a /\ r[Len(r)].ttl = DecayTime /\ r[Len(r)].value >= s[n]
    BY <1>2, <2>1, <2>2, <2>3, RememberProperties
  <2> QED BY <1>1, <2>4 DEF a, r
<1>4. CASE ~ (best[n] # 0 /\ a # None)
  <2>1. r = memory[n]
    BY <1>4
  <2> QED BY <1>1, <1>2, <1>4, <2>1
<1> QED BY <1>3, <1>4

\* the shape of each memory,
LEMMA ThinkMemory ==
  ASSUME ThreatInv, NEW best, NEW s, Perceived(best, s), Think(best, s), NEW n \in Npcs
  PROVE  memory'[n] \in Seq(Entry) /\ MemoryShape(n)'
<1>1. lag \in Nat
  BY DEF ThreatInv, Types
<1>2. PICK r \in Seq(Entry) : memory'[n] = Forget(r, lag) /\ Len(r) <= Capacity /\ Distinct(r)
  BY Memorized
<1>3. memory'[n] \in Seq(Entry) /\ Len(memory'[n]) <= Len(r) /\ Distinct(memory'[n])
  BY <1>1, <1>2, ForgetProperties
<1>4. Len(memory'[n]) \in Nat /\ Len(r) \in Nat /\ Capacity \in Nat
  BY <1>2, <1>3, LenProperties, ConfigAssumption DEF ConfigAssumption
<1> QED BY <1>2, <1>3, <1>4 DEF MemoryShape, Distinct

\* ClearedTogether and SharedFate,
LEMMA ThinkCleared ==
  ASSUME ThreatInv, NEW best, NEW s, Perceived(best, s), Think(best, s)
  PROVE  ClearedTogether' /\ SharedFate'
<1>1. PICK wall \in 1 .. MaxLag, fading \in SUBSET {e \in Active : ttl[e] = 1} :
        Evaluate(best, s, wall, fading)
  BY DEF Think
<1>decided. \A k \in Npcs : Decides(best, s, wall, fading, k)
  BY <1>1, Decided
<1>2. sent' = sent
  BY DEF Think, busVars
<1>3. ASSUME NEW n \in Npcs
      PROVE  /\ level'[n] = 0 <=> source'[n] = 0
             /\ lastType'[n] = IF source'[n] = 0 THEN None ELSE sent[source'[n]].type.name
  <2>1. CASE best[n] # 0
    <3>1. s[n] # 0
      BY <2>1 DEF Perceived
    <3> QED BY <1>1, <2>1, <3>1, <1>decided DEF Decides
  <2>2. CASE best[n] = 0
    <3>1. level[n] = 0 => level'[n] = 0
      <4>1. level'[n] \in Nat /\ level[n] \in Nat /\ level'[n] <= level[n]
        BY <1>1, <2>2, <1>decided DEF Decides, ThreatInv, Types
      <4> QED BY <4>1
    <3> QED BY <1>1, <2>2, <3>1, <1>decided DEF Decides, ThreatInv, ClearedTogether
  <2> QED BY <2>1, <2>2
<1>4. ASSUME NEW n \in Npcs, NEW m \in Companions(n), source'[n] # 0, source'[m] # 0
      PROVE  source'[m] = source'[n] /\ level'[m] = level'[n] /\ left'[m] = left'[n]
  <2>1. m \in Npcs /\ best[m] = best[n] /\ s[m] = s[n]
    BY CompanionsSame DEF Perceived
  <2>2. CASE best[n] # 0
    BY <1>1, <2>1, <2>2, <1>decided DEF Decides
  <2>3. CASE best[n] = 0
    <3>1. source'[n] = source[n] /\ source'[m] = source[m] /\ source[n] # 0 /\ source[m] # 0
      BY <1>1, <1>4, <2>1, <2>3, <1>decided DEF Decides
    <3>2. source[m] = source[n] /\ level[m] = level[n] /\ left[m] = left[n]
      BY <3>1 DEF ThreatInv, SharedFate
    <3> QED BY <1>1, <2>1, <2>3, <3>1, <3>2, <1>decided DEF Decides
  <2> QED BY <2>2, <2>3
<1> QED BY <1>2, <1>3, <1>4 DEF ClearedTogether, SharedFate, Companions

\* A severe event moves the FSM on towards flight and never back; past the end of a threat only
\* Flee can pass to Cower, and Cower passes to Idle.
LEMMA ThinkFlight ==
  ASSUME ThreatInv, NEW best, NEW s, Perceived(best, s), Think(best, s), NEW n \in Npcs
  PROVE  Flight(n)'
<1>1. PICK wall \in 1 .. MaxLag, fading \in SUBSET {e \in Active : ttl[e] = 1} :
        /\ Evaluate(best, s, wall, fading)
        /\ exposure' = [m \in Npcs |-> IF (\E e \in Active : Severe(e)) /\ best[m] \notin fading
                                       THEN Min2(exposure[m] + 1) ELSE 0]
  BY DEF Think
<1>decided. \A k \in Npcs : Decides(best, s, wall, fading, k)
  BY <1>1, Decided
<1>2. /\ fsm'[n] = FsmTick(fsm[n], level'[n], lastType'[n], left'[n])
      /\ overdue'[n] = IF left'[n] = 0 /\ fsm'[n] \in {"Flee", "Cower"} THEN Min2(overdue[n] + 1) ELSE 0
  BY DEF Think
<1>counted. /\ exposure'[n] \in {0, Min2(exposure[n] + 1)}
            /\ exposure'[n] # 0 => best[n] \notin fading /\ \E e \in Active : Severe(e)
  BY <1>1
<1>3. Flight(n) /\ fsm[n] \in {"Idle", "Alarmed", "Flee", "Cower"} /\ exposure[n] \in 0 .. 2
  BY DEF ThreatInv, Types
<1>4. level'[n] \in Nat /\ left'[n] \in Nat
  <2>1. CASE best[n] = 0
    BY <1>1, <2>1, <1>decided DEF Decides
  <2>2. CASE best[n] # 0
    <3>1. best[n] \in Active /\ s[n] \in Nat
      BY <2>2 DEF Perceived
    <3> QED BY <1>1, <2>2, <3>1, <1>decided, ActiveTypes DEF Decides, ThreatInv
  <2> QED BY <2>1, <2>2
<1>5. FleeLevel \in Nat /\ CalmLevel \in Nat /\ CowerLevel \in Nat /\ CalmLevel <= FleeLevel
  BY ConfigAssumption DEF ConfigAssumption
<1>6. ASSUME NEW e \in Active, Severe(e), best[n] \notin fading
      PROVE  level'[n] >= FleeLevel /\ left'[n] > 0 /\ lastType'[n] # None
  <2>1. best[n] # 0 /\ s[n] >= FleeLevel /\ best[n] \in Active
    BY <1>6 DEF Perceived
  <2>2. sent[best[n]].type \in EventTypes /\ ttl[best[n]] > 0
    BY <2>1, ActiveTypes DEF ThreatInv
  <2>3. sent[best[n]].type.name # None
    BY <2>2, ConfigAssumption DEF ConfigAssumption
  <2> QED BY <1>1, <1>6, <2>1, <2>2, <2>3, <1>decided DEF Decides
<1>7. exposure'[n] # 0 => fsm'[n] # "Idle"
  <2> SUFFICES ASSUME exposure'[n] # 0 PROVE fsm'[n] # "Idle"
    OBVIOUS
  <2>1. PICK e \in Active : Severe(e) /\ best[n] \notin fading
    BY <1>counted
  <2>2. level'[n] >= FleeLevel /\ left'[n] > 0 /\ lastType'[n] # None
    BY <1>6, <2>1
  <2>3. ~ (level'[n] < CalmLevel \/ left'[n] = 0)
    BY <1>4, <1>5, <2>2
  <2> QED BY <1>2, <1>3, <1>4, <2>2, <2>3, FsmTable
<1>8. exposure'[n] = 2 => fsm'[n] \in {"Flee", "Cower"}
  <2> SUFFICES ASSUME exposure'[n] = 2 PROVE fsm'[n] \in {"Flee", "Cower"}
    OBVIOUS
  <2>1. PICK e \in Active : Severe(e) /\ best[n] \notin fading
    BY <1>counted
  <2>2. exposure[n] # 0
    BY <1>counted, <1>3 DEF Min2
  <2>3. fsm[n] \in {"Alarmed", "Flee", "Cower"}
    BY <1>3, <2>2 DEF Flight
  <2>4. level'[n] >= FleeLevel /\ left'[n] > 0 /\ lastType'[n] # None
    BY <1>6, <2>1
  <2>5. ~ (level'[n] < CalmLevel \/ left'[n] = 0)
    BY <1>4, <1>5, <2>4
  <2> QED BY <1>2, <1>4, <2>3, <2>4, <2>5, FsmTable
<1>9. overdue'[n] = 0 \/ (overdue'[n] = 1 /\ fsm'[n] = "Cower")
  <2>1. CASE ~ (left'[n] = 0 /\ fsm'[n] \in {"Flee", "Cower"})
    BY <1>2, <2>1
  <2>2. CASE left'[n] = 0 /\ fsm'[n] \in {"Flee", "Cower"}
    <3>1. ~ (left'[n] > 0)
      BY <2>2
    <3>2. fsm[n] = "Flee" /\ fsm'[n] = "Cower"
      BY <1>2, <1>3, <1>4, <2>2, <3>1, FsmTable
    <3>3. overdue[n] = 0
      BY <1>3, <3>2 DEF Flight
    <3>4. overdue'[n] = 1
      BY <1>2, <2>2, <3>3 DEF Min2
    <3> QED BY <3>2, <3>4
  <2> QED BY <2>1, <2>2
<1> QED BY <1>7, <1>8, <1>9 DEF Flight

\* Products with a rate grow with the time.
LEMMA RateMonotone ==
  ASSUME NEW rate \in Nat, NEW a \in Int, NEW b \in Int, a <= b
  PROVE  rate * a \in Int /\ rate * b \in Int /\ rate * a <= rate * b
         /\ rate * (b - a) = rate * b - rate * a
OBVIOUS

\* and the newest memory of who caused the threat.
LEMMA ThinkBlames ==
  ASSUME LongMemory, ThreatInv, NEW best, NEW s, Perceived(best, s), Think(best, s),
         NEW n \in Npcs, Blames(n)
  PROVE  Blames(n)'
<1>1. PICK wall \in 1 .. MaxLag, fading \in SUBSET {e \in Active : ttl[e] = 1} :
        Evaluate(best, s, wall, fading)
  BY DEF Think
<1>decided. \A k \in Npcs : Decides(best, s, wall, fading, k)
  BY <1>1, Decided
<1>2. /\ sent' = sent /\ lag \in Nat /\ MaxLag \in Nat /\ lag <= MaxLag
      /\ DecayRate \in Nat /\ DecayTime \in Nat
  BY ConfigAssumption DEF ConfigAssumption, Think, busVars, ThreatInv, Types
<1> DEFINE r == IF best[n] # 0 /\ sent[best[n]].actor # None
                THEN Remember(memory[n], sent[best[n]].actor, s[n]) ELSE memory[n]
           newest == r[Len(r)]
           after == memory'[n][Len(memory'[n])]
<1>3. memory'[n] = Forget(r, lag) /\ r \in Seq(Entry) /\ Distinct(r)
  BY Memorized
<1>4. ASSUME Len(r) > 0, newest.ttl > lag
      PROVE  /\ Len(memory'[n]) > 0 /\ after.target = newest.target /\ after.value = newest.value
             /\ after.ttl = newest.ttl - lag
  <2> HIDE DEF r
  <2> QED BY <1>2, <1>3, <1>4, ForgetProperties
<1>5. CASE best[n] # 0
  <2> SUFFICES ASSUME sent[best[n]].actor # None
               PROVE  /\ Len(memory'[n]) > 0 /\ after.target = sent[best[n]].actor
                      /\ after.value >= level'[n] /\ level'[n] <= DecayRate * after.ttl
    BY <1>1, <1>2, <1>5, <1>decided DEF Decides, Blames
  <2>1. /\ Len(r) > 0 /\ newest.target = sent[best[n]].actor
        /\ newest.ttl = DecayTime /\ newest.value >= s[n]
    BY <1>5, Memorized
  <2>2. s[n] \in 1 .. sent[best[n]].severity /\ best[n] \in Active /\ level'[n] = s[n]
    BY <1>1, <1>5, <1>decided DEF Decides, Perceived
  <2>3. sent[best[n]].severity \in Nat /\ sent[best[n]].severity <= DecayRate * (DecayTime - MaxLag)
    BY <2>2, ActiveTypes DEF LongMemory, ThreatInv
  <2>4. s[n] \in Nat /\ s[n] > 0
    BY <2>2, <2>3
  <2>5. DecayTime - MaxLag \in Int /\ DecayTime - lag \in Int /\ DecayTime - MaxLag <= DecayTime - lag
    BY <1>2
  <2>6. /\ DecayRate * (DecayTime - MaxLag) \in Int /\ DecayRate * (DecayTime - lag) \in Int
        /\ DecayRate * (DecayTime - MaxLag) <= DecayRate * (DecayTime - lag)
    BY <1>2, <2>5, RateMonotone
  <2>7. s[n] <= sent[best[n]].severity
    BY <2>2, <2>3
  <2>8. s[n] <= DecayRate * (DecayTime - lag)
    BY <2>3, <2>4, <2>6, <2>7
  <2>9. DecayTime > lag
    <3>1. SUFFICES ASSUME DecayTime - lag <= 0 PROVE FALSE
      BY <1>2, <2>5
    <3>2. DecayRate * (DecayTime - lag) <= DecayRate * 0 /\ DecayRate * 0 = 0
      BY <1>2, <2>5, <3>1, RateMonotone
    <3> QED BY <2>4, <2>6, <2>8, <3>2
  <2>10. /\ Len(memory'[n]) > 0 /\ after.target = newest.target /\ after.value = newest.value
         /\ after.ttl = DecayTime - lag
    <3> HIDE DEF newest, after, r
    <3> QED BY <1>4, <2>1, <2>9
  <2> HIDE DEF newest, after, r
  <2> QED BY <2>1, <2>2, <2>8, <2>10
<1>6. CASE best[n] = 0
  <2> SUFFICES ASSUME source'[n] # 0, sent[source'[n]].actor # None
               PROVE  /\ Len(memory'[n]) > 0 /\ after.target = sent[source'[n]].actor
                      /\ after.value >= level'[n] /\ level'[n] <= DecayRate * after.ttl
    BY <1>2 DEF Blames
  <2>1. /\ level'[n] = Minus(level[n], DecayRate * lag) /\ level'[n] # 0 /\ source'[n] = source[n]
        /\ level'[n] \in Nat /\ level'[n] <= level[n]
    BY <1>1, <1>6, <1>decided DEF Decides
  <2>2. r = memory[n]
    BY <1>6
  <2>3. /\ Len(r) > 0 /\ newest.target = sent[source[n]].actor
        /\ newest.value >= level[n] /\ level[n] <= DecayRate * newest.ttl
    BY <2>1, <2>2 DEF Blames
  <2> HIDE DEF r
  <2>4. newest.ttl \in Nat /\ newest.value \in Nat
    <3>1. Len(r) \in 1 .. Len(r) /\ \A k \in 1 .. Len(r) : r[k] \in Entry
      BY <1>3, <2>3, LenProperties
    <3> QED BY <3>1 DEF Entry
  <2>5. level[n] \in Nat
    BY DEF ThreatInv, Types
  <2> HIDE DEF newest, after
  <2>6. DecayRate * lag \in Int
    BY <1>2, RateMonotone
  <2>7. level[n] > DecayRate * lag /\ level'[n] = level[n] - DecayRate * lag
    BY <2>1, <2>5, <2>6 DEF Minus
  <2>8. newest.ttl > lag
    <3>1. SUFFICES ASSUME newest.ttl <= lag PROVE FALSE
      BY <1>2, <2>4
    <3>2. DecayRate * newest.ttl <= DecayRate * lag /\ DecayRate * newest.ttl \in Int
      BY <1>2, <2>4, <3>1, RateMonotone
    <3> QED BY <2>3, <2>5, <2>6, <2>7, <3>2
  <2>9. /\ Len(memory'[n]) > 0 /\ after.target = newest.target /\ after.value = newest.value
        /\ after.ttl = newest.ttl - lag
    BY <1>4, <2>3, <2>8
  <2>10. DecayRate * (newest.ttl - lag) = DecayRate * newest.ttl - DecayRate * lag
         /\ DecayRate * newest.ttl \in Int
    BY <1>2, <2>4, <2>8, RateMonotone
  <2> QED BY <2>1, <2>3, <2>4, <2>5, <2>6, <2>7, <2>9, <2>10
<1> QED BY <1>5, <1>6

\* Every step keeps the invariant.
LEMMA StepThreat == ThreatInv /\ [Next]_vars => ThreatInv' /\ (LongMemory /\ BlameInv => BlameInv')
<1> SUFFICES ASSUME ThreatInv, [Next]_vars PROVE ThreatInv' /\ (LongMemory /\ BlameInv => BlameInv')
  OBVIOUS
<1>1. CASE \E t \in EventTypes, v \in Severities, a \in Actors \cup {None} : Publish(t, v, a)
  BY <1>1, PublishThreat
<1>2. CASE \E n \in Npcs : Respawn(n)
  BY <1>2, RespawnThreat
<1>3. CASE TickBus
  BY <1>3, TickBusThreat
<1>4. CASE TickThink
  <2>1. PICK heard \in Perceptions :
          \E kept \in {k \in [Npcs -> SUBSET Active] : \A n \in Npcs : k[n] \in Kept(heard[n])} :
            \E best \in Worst(heard, kept) :
              Think(best, [n \in Npcs |-> IF best[n] = 0 THEN 0 ELSE Strength(heard, kept, n, best[n])])
    BY <1>4 DEF TickThink
  <2>2. PICK kept \in {k \in [Npcs -> SUBSET Active] : \A n \in Npcs : k[n] \in Kept(heard[n])} :
          \E best \in Worst(heard, kept) :
            Think(best, [n \in Npcs |-> IF best[n] = 0 THEN 0 ELSE Strength(heard, kept, n, best[n])])
    BY <2>1
  <2>3. PICK best \in Worst(heard, kept) :
          Think(best, [n \in Npcs |-> IF best[n] = 0 THEN 0 ELSE Strength(heard, kept, n, best[n])])
    BY <2>2
  <2> DEFINE s == [n \in Npcs |-> IF best[n] = 0 THEN 0 ELSE Strength(heard, kept, n, best[n])]
  <2>4. Perceived(best, s)
    BY PerceivedIs DEF ThreatInv
  <2>5. Think(best, s)
    BY <2>3
  <2> HIDE DEF s
  <2>6. \A n \in Npcs : memory'[n] \in Seq(Entry) /\ MemoryShape(n)' /\ Flight(n)'
    BY <2>4, <2>5, ThinkMemory, ThinkFlight
  <2>7. Types' /\ ClearedTogether' /\ SharedFate'
    BY <2>4, <2>5, <2>6, ThinkTypes, ThinkCleared
  <2>8. LongMemory /\ BlameInv => BlameInv'
    BY <2>4, <2>5, ThinkBlames DEF BlameInv
  <2> QED BY <2>6, <2>7, <2>8 DEF ThreatInv
<1>5. CASE UNCHANGED vars
  BY <1>5 DEF vars, busVars, npcVars, historyVars, ThreatInv, Types, ClearedTogether, SharedFate, Companions,
              MemoryShape, Distinct, Flight, BlameInv, Blames
<1> QED BY <1>1, <1>2, <1>3, <1>4, <1>5 DEF Next

-----------------------------------------------------------------------------
(* The theorems *)

\* For any NPCs, groups, events and configuration the invariant holds in every tick.
THEOREM ThreatInvHolds == Spec => []ThreatInv
BY InitThreat, StepThreat, PTL DEF Spec

\* Every variable keeps its type, and no memory exceeds its capacity or knows an actor twice.
THEOREM ThreatTypeCorrect == Spec => []TypeOK
<1>1. ThreatInv => TypeOK
  <2> SUFFICES ASSUME ThreatInv PROVE TypeOK
    OBVIOUS
  <2>1. /\ Len(sent) \in Nat /\ DOMAIN sent = 1 .. Len(sent)
        /\ DOMAIN ttl = 1 .. Len(sent) /\ \A e \in 1 .. Len(sent) : ttl[e] \in Nat
    BY LenProperties DEF ThreatInv, Types
  <2>2. source \in [Npcs -> {0} \cup DOMAIN sent]
    <3>1. \A k \in 0 .. Len(sent) : k \in {0} \cup DOMAIN sent
      BY <2>1
    <3> QED BY <3>1 DEF ThreatInv, Types
  <2>3. \A n \in Npcs : Len(memory[n]) <= Capacity /\ Distinct(memory[n])
    BY DEF ThreatInv, MemoryShape
  <2> QED BY <2>1, <2>2, <2>3 DEF ThreatInv, Types, TypeOK, Distinct
<1> QED BY <1>1, ThreatInvHolds, PTL

\* In any configuration, level, source and type of a threat are set and cleared together.
THEOREM ClearedTogetherHolds == Spec => []ClearedTogether
<1>1. ThreatInv => ClearedTogether
  BY DEF ThreatInv
<1> QED BY <1>1, ThreatInvHolds, PTL

\* For any groups and any attention, members of a group that feel a threat feel the same one.
THEOREM SharedFateHolds == Spec => []SharedFate
<1>1. ThreatInv => SharedFate
  BY DEF ThreatInv
<1> QED BY <1>1, ThreatInvHolds, PTL

\* For any thresholds and any attention, two ticks of a severe global event put every NPC to flight.
THEOREM PromptFlightHolds == Spec => []PromptFlight
<1>1. ThreatInv => PromptFlight
  BY DEF ThreatInv, Flight, PromptFlight
<1> QED BY <1>1, ThreatInvHolds, PTL

\* For any thresholds, nobody is in flight for two ticks from a threat that has expired.
THEOREM NoStaleFlightHolds == Spec => []NoStaleFlight
<1>1. ThreatInv => NoStaleFlight
  BY DEF ThreatInv, Flight, NoStaleFlight
<1> QED BY <1>1, ThreatInvHolds, PTL

\* The newest memory of an NPC under threat is of the one who caused it: the invariant behind the
\* theorem below and behind what Mind adds.
THEOREM BlameHolds == ASSUME LongMemory PROVE Spec => []BlameInv
<1>1. Init => BlameInv
  BY InitThreat
<1>2. ThreatInv /\ BlameInv /\ [Next]_vars => BlameInv'
  BY StepThreat
<1> QED BY <1>1, <1>2, ThreatInvHolds, PTL DEF Spec

\* For any configuration in which memories outlast the decay of a threat, an NPC that feels a threat
\* remembers its cause at least as strongly, whatever else happens and however small the memory is.
THEOREM RemembersThreatHolds == ASSUME LongMemory PROVE Spec => []RemembersThreat
<1>1. ThreatInv /\ BlameInv => RemembersThreat
  <2> SUFFICES ASSUME ThreatInv, BlameInv, NEW n \in Npcs, source[n] # 0, sent[source[n]].actor # None
               PROVE  \E k \in DOMAIN memory[n] : /\ memory[n][k].target = sent[source[n]].actor
                                                  /\ memory[n][k].value >= level[n]
    BY DEF RemembersThreat
  <2>1. Len(memory[n]) \in Nat /\ DOMAIN memory[n] = 1 .. Len(memory[n])
    BY LenProperties DEF ThreatInv, Types
  <2>2. Len(memory[n]) > 0 /\ memory[n][Len(memory[n])].target = sent[source[n]].actor
        /\ memory[n][Len(memory[n])].value >= level[n]
    BY DEF BlameInv, Blames
  <2> QED BY <2>1, <2>2
<1> QED BY <1>1, ThreatInvHolds, BlameHolds, PTL
=============================================================================
