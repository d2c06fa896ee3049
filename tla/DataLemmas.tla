------------------------------ MODULE DataLemmas ------------------------------
(***************************************************************************)
(* Facts about numbers and sequences that the proofs about the components  *)
(* share.  A set of naturals has a least element because < is well-founded *)
(* on Nat (WellFoundedInduction), and that stands in for induction: what   *)
(* fails for some number fails for a least one.                            *)
(***************************************************************************)
EXTENDS Naturals, SequencesExt, SequenceTheorems, WellFoundedInduction, TLAPS

\* Every non-empty set of naturals has a least element.
LEMMA LeastElement ==
  ASSUME NEW T, T \subseteq Nat, T # {}
  PROVE  \E x \in T : \A y \in T : x <= y
<1> DEFINE R == {ss \in Nat \X Nat : ss[1] < ss[2]}
<1>1. IsWellFoundedOn(R, Nat)
  BY NatLessThanWellFounded DEF OpToRel
<1>2. \A x, y \in Nat : y < x => <<y, x>> \in R
  OBVIOUS
<1> HIDE DEF R
<1>3. PICK x \in T : \A y \in T : ~ (<<y, x>> \in R)
  BY <1>1, WFMin
<1>4. \A y \in T : ~ (y < x) /\ y \in Nat /\ x \in Nat
  BY <1>2, <1>3
<1> QED BY <1>4

\* Min of such a set is one of its elements.
LEMMA MinMember ==
  ASSUME NEW T, T \subseteq Nat, T # {}
  PROVE  Min(T) \in T /\ \A y \in T : Min(T) <= y
BY LeastElement DEF Min

\* Every non-empty set of naturals with an upper bound has a greatest element.
LEMMA GreatestElement ==
  ASSUME NEW T, T \subseteq Nat, T # {}, NEW b \in Nat, \A y \in T : y <= b
  PROVE  \E x \in T : \A y \in T : y <= x
<1> DEFINE B == {n \in Nat : \A y \in T : y <= n}
<1>1. PICK m \in B : \A n \in B : m <= n
  <2>1. b \in B /\ B \subseteq Nat
    OBVIOUS
  <2> HIDE DEF B
  <2> QED BY <2>1, LeastElement
<1>2. m \in Nat /\ \A y \in T : y <= m
  OBVIOUS
<1>3. CASE m \in T
  BY <1>2, <1>3
<1>4. CASE m \notin T
  <2>1. m # 0
    <3>1. PICK y \in T : y \in Nat /\ y <= m /\ y # m
      BY <1>2, <1>4
    <3> QED BY <1>2, <3>1
  <2>2. m - 1 \in B
    BY <1>2, <1>4, <2>1
  <2> QED BY <1>1, <1>2, <2>2
<1> QED BY <1>3, <1>4

\* A function on 1 .. n is a sequence of length n.
LEMMA FunctionIsSeq ==
  ASSUME NEW A, NEW n \in Nat, NEW f \in [1 .. n -> A]
  PROVE  f \in Seq(A) /\ Len(f) = n /\ DOMAIN f = 1 .. n
<1>1. f \in Seq(A) /\ DOMAIN f = 1 .. n
  BY SeqDef
<1>2. DOMAIN f = 1 .. Len(f) /\ Len(f) \in Nat
  BY <1>1, LenProperties
<1>3. 1 .. Len(f) = 1 .. n
  BY <1>1, <1>2
<1>4. Len(f) \in Nat
  BY <1>2
<1>5. Len(f) < n => n \in 1 .. n /\ n \notin 1 .. Len(f)
  BY <1>4
<1>6. n < Len(f) => Len(f) \in 1 .. Len(f) /\ Len(f) \notin 1 .. n
  BY <1>4
<1>7. ~ (Len(f) < n) /\ ~ (n < Len(f))
  BY <1>3, <1>5, <1>6
<1> QED BY <1>1, <1>4, <1>7

\* The sequence without its j-th element.
LEMMA RemoveAtProperties ==
  ASSUME NEW A, NEW s \in Seq(A), NEW j \in 1 .. Len(s)
  PROVE  /\ RemoveAt(s, j) \in Seq(A)
         /\ Len(RemoveAt(s, j)) = Len(s) - 1
         /\ \A k \in 1 .. Len(s) - 1 : RemoveAt(s, j)[k] = IF k < j THEN s[k] ELSE s[k+1]
<1> DEFINE a == SubSeq(s, 1, j-1)
           z == SubSeq(s, j+1, Len(s))
<1>1. Len(s) \in Nat /\ \A k \in 1 .. Len(s) : s[k] \in A
  BY LenProperties
<1>2. a \in Seq(A) /\ Len(a) = j-1 /\ \A k \in 1 .. j-1 : a[k] = s[k]
  BY <1>1, SubSeqProperties
<1>3. z \in Seq(A) /\ Len(z) = Len(s) - j /\ \A k \in 1 .. Len(s) - j : z[k] = s[j+k]
  BY <1>1, SubSeqProperties
<1> HIDE DEF a, z
<1>4. a \o z \in Seq(A) /\ Len(a \o z) = Len(s) - 1
  <2>1. a \o z \in Seq(A) /\ Len(a \o z) = Len(a) + Len(z)
    BY <1>2, <1>3, ConcatProperties
  <2> QED BY <1>1, <1>2, <1>3, <2>1
<1>5. ASSUME NEW k \in 1 .. Len(s) - 1
      PROVE  (a \o z)[k] = IF k < j THEN s[k] ELSE s[k+1]
  <2>1. (a \o z)[k] = IF k <= Len(a) THEN a[k] ELSE z[k - Len(a)]
    BY <1>1, <1>2, <1>3, ConcatProperties
  <2>2. CASE k < j
    BY <1>1, <1>2, <2>1, <2>2
  <2>3. CASE ~ (k < j)
    <3>1. k - (j-1) \in 1 .. Len(s) - j /\ j + (k - (j-1)) = k + 1
      BY <1>1, <2>3
    <3> QED BY <1>1, <1>2, <1>3, <2>1, <2>3, <3>1
  <2> QED BY <2>2, <2>3
<1> QED BY <1>4, <1>5 DEF RemoveAt, a, z
=============================================================================
