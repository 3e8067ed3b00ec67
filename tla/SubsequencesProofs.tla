------------------------- MODULE SubsequencesProofs -------------------------
(***************************************************************************)
(* What Pick, Earliest and Concat return, for every sequence and every set *)
(* of positions.  The least element of a set of numbers, which stands for  *)
(* induction here, comes from the well-foundedness of their order.         *)
(***************************************************************************)
EXTENDS Subsequences, Integers, Functions, FiniteSetTheorems, WellFoundedInduction, TLAPS

\* A set of natural numbers that is not empty has a least element.
LEMMA LeastNat ==
  ASSUME NEW I, I \subseteq Nat, I # {}
  PROVE  \E i \in I : \A j \in I : i <= j
<1>1. IsWellFoundedOn(OpToRel(<, Nat), Nat)
  BY NatLessThanWellFounded
<1>2. PICK i \in I : \A j \in I : <<j, i>> \notin OpToRel(<, Nat)
  BY <1>1, WFMin
<1>3. \A j \in I : ~(j < i)
  BY <1>2 DEF OpToRel
<1>. QED BY <1>3

\* Earliest returns the least of some positions.
LEMMA EarliestIsLeast ==
  ASSUME NEW I, I \subseteq Nat, I # {}
  PROVE  Earliest(I) \in I /\ \A j \in I : Earliest(I) <= j
BY LeastNat DEF Earliest

\* Ranks number the positions in their order, from 1 and without a gap.
LEMMA RankNumbers ==
  ASSUME NEW n \in Nat, NEW I \in SUBSET (1 .. n)
  PROVE  /\ IsFiniteSet(I) /\ Cardinality(I) \in Nat
         /\ \A i \in I : Rank(I, i) \in 1 .. Cardinality(I)
         /\ \A i, j \in I : i < j => Rank(I, i) < Rank(I, j)
         /\ \A k \in 1 .. Cardinality(I) : \E i \in I : Rank(I, i) = k
<1> DEFINE Upto(i) == {j \in I : j <= i}
<1>0. \A i \in I : i \in Int
  OBVIOUS
<1>1. IsFiniteSet(I) /\ Cardinality(I) \in Nat
  <2>1. IsFiniteSet(1 .. n)
    BY FS_Interval
  <2>2. IsFiniteSet(I)
    BY <2>1, FS_Subset
  <2>. QED BY <2>2, FS_CardinalityType
<1>2. \A i \in I : Rank(I, i) \in 1 .. Cardinality(I)
  <2> TAKE i \in I
  <2>1. Upto(i) \in SUBSET I /\ i \in Upto(i)
    OBVIOUS
  <2>2. IsFiniteSet(Upto(i)) /\ Cardinality(Upto(i)) <= Cardinality(I)
        /\ Cardinality(Upto(i)) \in Nat
    BY <1>1, <2>1, FS_Subset, FS_CardinalityType
  <2>3. Cardinality(Upto(i)) # 0
    BY <2>1, <2>2, FS_EmptySet
  <2>. QED BY <1>1, <2>2, <2>3 DEF Rank
<1>3. \A i, j \in I : i < j => Rank(I, i) < Rank(I, j)
  <2> SUFFICES ASSUME NEW i \in I, NEW j \in I, i < j
               PROVE  Rank(I, i) < Rank(I, j)
    OBVIOUS
  <2>0. i \in Int /\ j \in Int
    BY <1>0
  <2>1. Upto(i) \in SUBSET Upto(j) /\ j \in Upto(j) /\ j \notin Upto(i)
    <3>1. \A m \in I : m <= i => m <= j
      BY <1>0, <2>0
    <3>2. Upto(i) \subseteq Upto(j)
      BY <3>1
    <3>3. j \in Upto(j) /\ j \notin Upto(i)
      BY <2>0
    <3>. QED BY <3>2, <3>3
  <2>2. IsFiniteSet(Upto(j))
    BY <1>1, FS_Subset
  <2>3. Cardinality(Upto(i)) <= Cardinality(Upto(j))
        /\ Cardinality(Upto(i)) # Cardinality(Upto(j))
    <3> HIDE DEF Upto
    <3>. QED BY <2>1, <2>2, FS_Subset
  <2>4. Rank(I, i) \in Nat /\ Rank(I, j) \in Nat
    BY <1>1, <1>2
  <2>. QED BY <2>3, <2>4 DEF Rank
<1>4. \A k \in 1 .. Cardinality(I) : \E i \in I : Rank(I, i) = k
  <2> DEFINE f == [i \in I |-> Rank(I, i)]
             n1 == Cardinality(I)
  <2>1. \A i, j \in I : Rank(I, i) = Rank(I, j) => i = j
    BY <1>0, <1>1, <1>2, <1>3
  <2>2. f \in Injection(I, 1 .. n1)
    BY <1>2, <2>1 DEF Injection, IsInjective
  <2>3. IsFiniteSet(1 .. n1) /\ Cardinality(1 .. n1) = n1
    BY <1>1, FS_Interval
  <2>4. f \in Surjection(I, 1 .. n1)
    <3> HIDE DEF f
    <3>. QED BY <2>2, <2>3, FS_Injection
  <2>. QED BY <2>4 DEF Surjection
<1>. QED BY <1>1, <1>2, <1>3, <1>4

\* Nth is the position of a rank.
LEMMA NthPosition ==
  ASSUME NEW n \in Nat, NEW I \in SUBSET (1 .. n)
  PROVE  /\ \A k \in 1 .. Cardinality(I) : Nth(I, k) \in I /\ Rank(I, Nth(I, k)) = k
         /\ \A i \in I : Nth(I, Rank(I, i)) = i
         /\ \A k, l \in 1 .. Cardinality(I) : k < l => Nth(I, k) < Nth(I, l)
<1>0. /\ \A i \in I : i \in Int /\ Rank(I, i) \in 1 .. Cardinality(I)
      /\ \A i, j \in I : i < j => Rank(I, i) < Rank(I, j)
      /\ Cardinality(I) \in Nat
  BY RankNumbers
<1>1. \A k \in 1 .. Cardinality(I) : Nth(I, k) \in I /\ Rank(I, Nth(I, k)) = k
  BY RankNumbers DEF Nth
<1>2. \A i, j \in I : Rank(I, i) = Rank(I, j) => i = j
  <2> SUFFICES ASSUME NEW i \in I, NEW j \in I, Rank(I, i) = Rank(I, j), i # j
               PROVE  FALSE
    OBVIOUS
  <2>1. i < j \/ j < i
    BY <1>0
  <2>. QED BY <2>1, <1>0
<1>3. \A i \in I : Nth(I, Rank(I, i)) = i
  BY <1>0, <1>1, <1>2
<1>4. \A k, l \in 1 .. Cardinality(I) : k < l => Nth(I, k) < Nth(I, l)
  <2> SUFFICES ASSUME NEW k \in 1 .. Cardinality(I), NEW l \in 1 .. Cardinality(I), k < l,
                      ~(Nth(I, k) < Nth(I, l))
               PROVE  FALSE
    OBVIOUS
  <2>1. Nth(I, l) = Nth(I, k) \/ Nth(I, l) < Nth(I, k)
    <3>1. Nth(I, l) \in Int /\ Nth(I, k) \in Int
      BY <1>0, <1>1
    <3>. QED BY <3>1
  <2>2. Nth(I, l) = Nth(I, k) => l = k
    BY <1>1
  <2>3. Nth(I, l) < Nth(I, k) => l < k
    BY <1>0, <1>1
  <2>. QED BY <2>1, <2>2, <2>3, <1>0
<1>. QED BY <1>1, <1>3, <1>4

\* Pick returns the elements at the positions, each once and in their order.
LEMMA PickIsSubsequence ==
  ASSUME NEW S, NEW s \in Seq(S), NEW I \in SUBSET DOMAIN s
  PROVE  /\ Pick(s, I) \in Seq(S) /\ Len(Pick(s, I)) = Cardinality(I)
         /\ Cardinality(I) \in Nat /\ DOMAIN Pick(s, I) = 1 .. Cardinality(I)
         /\ \A k \in DOMAIN Pick(s, I) : Nth(I, k) \in I /\ Pick(s, I)[k] = s[Nth(I, k)]
         /\ \A k, l \in DOMAIN Pick(s, I) : k < l => Nth(I, k) < Nth(I, l)
         /\ \A i \in I : \E k \in DOMAIN Pick(s, I) : Nth(I, k) = i
<1>1. Len(s) \in Nat /\ DOMAIN s = 1 .. Len(s) /\ I \in SUBSET (1 .. Len(s))
  OBVIOUS
<1>2. Cardinality(I) \in Nat /\ \A i \in I : Rank(I, i) \in 1 .. Cardinality(I)
  BY <1>1, RankNumbers
<1>3. /\ \A k \in 1 .. Cardinality(I) : Nth(I, k) \in I
      /\ \A i \in I : Nth(I, Rank(I, i)) = i
      /\ \A k, l \in 1 .. Cardinality(I) : k < l => Nth(I, k) < Nth(I, l)
  BY <1>1, NthPosition
<1>4. \A k \in 1 .. Cardinality(I) : s[Nth(I, k)] \in S
  BY <1>1, <1>3
<1>5. DOMAIN Pick(s, I) = 1 .. Cardinality(I)
      /\ \A k \in 1 .. Cardinality(I) : Pick(s, I)[k] = s[Nth(I, k)]
  BY DEF Pick
<1>6. Pick(s, I) \in Seq(S) /\ Len(Pick(s, I)) = Cardinality(I)
  BY <1>2, <1>4 DEF Pick
<1>. QED BY <1>2, <1>3, <1>5, <1>6
-----------------------------------------------------------------------------
(* Concatenation.  Its recursive function exists because its approximations *)
(* do, which the least length without one refutes.                          *)

ConcatStep(ss, n, f) == f = [i \in 0 .. n |-> IF i = 0 THEN << >> ELSE f[i - 1] \o ss[i]]

\* Concat is given by its recursion: the least length without such a function
\* has one.
LEMMA ConcatFunction ==
  ASSUME NEW ss, NEW n \in Nat
  PROVE  \E f : ConcatStep(ss, n, f) /\ Concat(ss, n) = f[n]
<1> DEFINE Bad == {m \in Nat : ~\E f : ConcatStep(ss, m, f)}
<1>1. Bad = {}
  <2> SUFFICES ASSUME Bad # {} PROVE FALSE
    OBVIOUS
  <2>1. PICK m \in Bad : \A k \in Bad : m <= k
    <3>1. Bad \subseteq Nat /\ Bad # {}
      OBVIOUS
    <3>. QED BY <3>1, LeastNat
  <2>2. CASE m = 0
    <3>1. ConcatStep(ss, 0, [i \in 0 .. 0 |-> << >>])
      BY DEF ConcatStep
    <3>. QED BY <2>1, <2>2, <3>1
  <2>3. CASE m # 0
    <3>1. m - 1 \in Nat /\ m - 1 \notin Bad /\ m \in Nat
      BY <2>1, <2>3
    <3>2. PICK f : ConcatStep(ss, m - 1, f)
      BY <3>1
    <3> DEFINE g == [i \in 0 .. m |-> IF i = m THEN f[m - 1] \o ss[m] ELSE f[i]]
    <3>3. \A i \in 0 .. m - 1 : g[i] = f[i]
      BY <3>1
    <3>4. \A i \in 0 .. m - 1 : f[i] = IF i = 0 THEN << >> ELSE f[i - 1] \o ss[i]
      BY <3>1, <3>2 DEF ConcatStep
    <3>5. \A i \in 0 .. m : g[i] = IF i = 0 THEN << >> ELSE g[i - 1] \o ss[i]
      <4> TAKE i \in 0 .. m
      <4>1. CASE i = m
        BY <4>1, <3>1, <3>3, <2>3
      <4>2. CASE i # m
        <5>1. i \in 0 .. m - 1 /\ (i # 0 => i - 1 \in 0 .. m - 1)
          BY <4>2, <3>1
        <5>. QED BY <5>1, <3>3, <3>4
      <4>. QED BY <4>1, <4>2
    <3>6. ConcatStep(ss, m, g)
      BY <3>5 DEF ConcatStep
    <3>. QED BY <2>1, <3>6
  <2>. QED BY <2>2, <2>3
<1>2. PICK f : ConcatStep(ss, n, f)
  BY <1>1
<1>. DEFINE h == CHOOSE g : g = [i \in 0 .. n |-> IF i = 0 THEN << >> ELSE g[i - 1] \o ss[i]]
<1>3. ConcatStep(ss, n, h)
  BY <1>2 DEF ConcatStep
<1>4. Concat(ss, n) = h[n]
  BY DEF Concat
<1>. QED BY <1>3, <1>4

\* The concatenation of sequences over a set is one.
LEMMA ConcatType ==
  ASSUME NEW T, NEW ss, NEW n \in Nat, \A i \in 1 .. n : ss[i] \in Seq(T)
  PROVE  Concat(ss, n) \in Seq(T)
<1>1. PICK f : ConcatStep(ss, n, f) /\ Concat(ss, n) = f[n]
  BY ConcatFunction
<1>2. \A i \in 0 .. n : f[i] = IF i = 0 THEN << >> ELSE f[i - 1] \o ss[i]
  BY <1>1 DEF ConcatStep
<1> DEFINE Bad == {i \in 0 .. n : f[i] \notin Seq(T)}
<1>3. Bad = {}
  <2> SUFFICES ASSUME Bad # {} PROVE FALSE
    OBVIOUS
  <2>1. PICK m \in Bad : \A k \in Bad : m <= k
    <3>1. Bad \subseteq Nat /\ Bad # {}
      OBVIOUS
    <3>. QED BY <3>1, LeastNat
  <2>a. m \in 0 .. n /\ f[m] \notin Seq(T)
    BY <2>1
  <2>2. CASE m = 0
    <3>1. f[m] = << >>
      BY <2>2, <1>2
    <3>. QED BY <2>a, <3>1
  <2>3. CASE m # 0
    <3>1. m - 1 \in 0 .. n /\ m - 1 \notin Bad /\ m \in 1 .. n
      BY <2>1, <2>3
    <3>2. f[m - 1] \in Seq(T) /\ ss[m] \in Seq(T) /\ f[m] = f[m - 1] \o ss[m]
      BY <3>1, <1>2, <2>3
    <3>3. f[m - 1] \o ss[m] \in Seq(T)
      BY <3>2
    <3>. QED BY <3>2, <3>3, <2>a
  <2>. QED BY <2>2, <2>3
<1>. QED BY <1>1, <1>3

\* What one sequence after another holds.
LEMMA AppendedMembers ==
  ASSUME NEW T
  PROVE  \A s, t \in Seq(T) :
           /\ s \o t \in Seq(T)
           /\ Range(s \o t) = Range(s) \cup Range(t)
<1> TAKE s, t \in Seq(T)
<1> DEFINE u == s \o t
<1>1. /\ u \in Seq(T) /\ DOMAIN u = 1 .. Len(s) + Len(t)
      /\ Len(s) \in Nat /\ Len(t) \in Nat /\ DOMAIN s = 1 .. Len(s) /\ DOMAIN t = 1 .. Len(t)
      /\ \A k \in 1 .. Len(s) : u[k] = s[k]
      /\ \A k \in 1 .. Len(t) : u[Len(s) + k] = t[k]
  OBVIOUS
<1> HIDE DEF u
<1>2. \A k \in DOMAIN u : k \in DOMAIN s \/ (k - Len(s) \in DOMAIN t /\ k = Len(s) + (k - Len(s)))
  BY <1>1
<1>3. \A k \in DOMAIN s : k \in DOMAIN u
  BY <1>1
<1>4. \A k \in DOMAIN t : Len(s) + k \in DOMAIN u
  BY <1>1
<1>5. \A k \in DOMAIN u : u[k] \in {s[i] : i \in DOMAIN s} \cup {t[i] : i \in DOMAIN t}
  BY <1>1, <1>2
<1>6. \A k \in DOMAIN s : s[k] \in {u[i] : i \in DOMAIN u}
  BY <1>1, <1>3
<1>7. \A k \in DOMAIN t : t[k] \in {u[i] : i \in DOMAIN u}
  BY <1>1, <1>4
<1>8. {u[k] : k \in DOMAIN u} = {s[k] : k \in DOMAIN s} \cup {t[k] : k \in DOMAIN t}
  BY <1>5, <1>6, <1>7
<1>. QED BY <1>1, <1>8 DEF u, Range

\* Nothing stands twice in s.
Once(s) == \A i, j \in DOMAIN s : s[i] = s[j] => i = j

\* Nor in two sequences one after the other that have nothing in common.
LEMMA AppendedOnce ==
  ASSUME NEW T
  PROVE  \A s, t \in Seq(T) :
           Once(s) /\ Once(t) /\ Range(s) \cap Range(t) = {} => Once(s \o t)
<1> SUFFICES ASSUME NEW p \in Seq(T), NEW q \in Seq(T), Once(p), Once(q),
                    Range(p) \cap Range(q) = {}
             PROVE  Once(p \o q)
  OBVIOUS
<1> DEFINE u == p \o q
<1>1. /\ DOMAIN u = 1 .. Len(p) + Len(q)
      /\ Len(p) \in Nat /\ Len(q) \in Nat /\ DOMAIN p = 1 .. Len(p) /\ DOMAIN q = 1 .. Len(q)
      /\ \A k \in 1 .. Len(p) : u[k] = p[k]
      /\ \A k \in 1 .. Len(q) : u[Len(p) + k] = q[k]
  OBVIOUS
<1>. HIDE DEF u
<1>2. \A k \in DOMAIN u :
        \/ k \in DOMAIN p /\ u[k] = p[k]
        \/ k - Len(p) \in DOMAIN q /\ u[k] = q[k - Len(p)] /\ k \in Nat
  BY <1>1
<1>3. \A x \in DOMAIN p, y \in DOMAIN q : p[x] # q[y]
  BY DEF Range
<1>4. ASSUME NEW k \in DOMAIN u, NEW l \in DOMAIN u, u[k] = u[l] PROVE k = l
  <2>1. CASE k \in DOMAIN p /\ u[k] = p[k] /\ l \in DOMAIN p /\ u[l] = p[l]
    BY <2>1, <1>4 DEF Once
  <2>2. CASE /\ k - Len(p) \in DOMAIN q /\ u[k] = q[k - Len(p)] /\ k \in Nat
             /\ l - Len(p) \in DOMAIN q /\ u[l] = q[l - Len(p)] /\ l \in Nat
    <3>1. k - Len(p) = l - Len(p)
      BY <2>2, <1>4 DEF Once
    <3>. QED BY <2>2, <3>1, <1>1
  <2>. QED BY <1>2, <1>3, <1>4, <2>1, <2>2
<1>5. Once(u)
  BY <1>4 DEF Once
<1>. QED BY <1>5 DEF u

\* A thing is in a concatenation that is in one of its parts.
LEMMA ConcatMembers ==
  ASSUME NEW T, NEW ss, NEW n \in Nat, \A i \in 1 .. n : ss[i] \in Seq(T)
  PROVE  Range(Concat(ss, n)) = UNION {Range(ss[i]) : i \in 1 .. n}
<1> DEFINE Upto(i) == UNION {Range(ss[j]) : j \in 1 .. i}
<1>1. PICK f : ConcatStep(ss, n, f) /\ Concat(ss, n) = f[n]
  BY ConcatFunction
<1>2. \A i \in 0 .. n : f[i] = IF i = 0 THEN << >> ELSE f[i - 1] \o ss[i]
  BY <1>1 DEF ConcatStep
<1> HIDE DEF Upto
<1> DEFINE Bad == {i \in 0 .. n : ~(f[i] \in Seq(T) /\ Range(f[i]) = Upto(i))}
<1>3. Bad = {}
  <2> SUFFICES ASSUME Bad # {} PROVE FALSE
    OBVIOUS
  <2>1. PICK m \in Bad : \A k \in Bad : m <= k
    <3>1. Bad \subseteq Nat /\ Bad # {}
      OBVIOUS
    <3>. QED BY <3>1, LeastNat
  <2>a. m \in 0 .. n /\ ~(f[m] \in Seq(T) /\ Range(f[m]) = Upto(m))
    BY <2>1
  <2>2. CASE m = 0
    <3>1. f[m] = << >>
      BY <2>2, <1>2
    <3>2. Upto(0) = {} /\ Range(<< >>) = {} /\ << >> \in Seq(T)
      BY DEF Range, Upto
    <3>. QED BY <2>a, <2>2, <3>1, <3>2
  <2>3. CASE m # 0
    <3>1. m - 1 \in 0 .. n /\ m - 1 \notin Bad /\ m \in 1 .. n
      BY <2>1, <2>3
    <3>2. f[m - 1] \in Seq(T) /\ Range(f[m - 1]) = Upto(m - 1)
          /\ ss[m] \in Seq(T) /\ f[m] = f[m - 1] \o ss[m]
      BY <3>1, <1>2, <2>3
    <3>3. \A s, t \in Seq(T) : s \o t \in Seq(T) /\ Range(s \o t) = Range(s) \cup Range(t)
      BY AppendedMembers
    <3>4. Upto(m) = Upto(m - 1) \cup Range(ss[m])
      <4>1. 1 .. m = (1 .. m - 1) \cup {m}
        BY <3>1
      <4>. QED BY <4>1 DEF Upto
    <3>. QED BY <3>2, <3>3, <3>4, <2>a
  <2>. QED BY <2>2, <2>3
<1>4. Range(f[n]) = Upto(n)
  BY <1>3
<1>. QED BY <1>1, <1>4 DEF Upto

\* Nothing stands twice in a concatenation of parts in which nothing stands
\* twice and that have, two by two, nothing in common.
LEMMA ConcatOnce ==
  ASSUME NEW T, NEW ss, NEW n \in Nat, \A i \in 1 .. n : ss[i] \in Seq(T) /\ Once(ss[i]),
         \A i, j \in 1 .. n : i # j => Range(ss[i]) \cap Range(ss[j]) = {}
  PROVE  Once(Concat(ss, n))
<1>1. PICK f : ConcatStep(ss, n, f) /\ Concat(ss, n) = f[n]
  BY ConcatFunction
<1>2. \A i \in 0 .. n : f[i] = IF i = 0 THEN << >> ELSE f[i - 1] \o ss[i]
  BY <1>1 DEF ConcatStep
<1> DEFINE Good(i) == /\ f[i] \in Seq(T) /\ Once(f[i])
                      /\ \A x \in Range(f[i]) : \E j \in 1 .. i : x \in Range(ss[j])
           Bad == {i \in 0 .. n : ~Good(i)}
<1>. HIDE DEF Good
<1>3. Bad = {}
  <2> SUFFICES ASSUME Bad # {} PROVE FALSE
    OBVIOUS
  <2>1. PICK m \in Bad : \A k \in Bad : m <= k
    <3>1. Bad \subseteq Nat /\ Bad # {}
      OBVIOUS
    <3>. QED BY <3>1, LeastNat
  <2>a. m \in 0 .. n /\ ~Good(m)
    BY <2>1
  <2>2. CASE m = 0
    <3>1. f[m] = << >>
      BY <2>2, <1>2
    <3>2. Once(<< >>) /\ Range(<< >>) = {} /\ << >> \in Seq(T)
      BY DEF Once, Range
    <3>. QED BY <2>a, <2>2, <3>1, <3>2 DEF Good
  <2>3. CASE m # 0
    <3>1. m - 1 \in 0 .. n /\ m - 1 \notin Bad /\ m \in 1 .. n
      BY <2>1, <2>3
    <3>2. /\ f[m - 1] \in Seq(T) /\ Once(f[m - 1]) /\ ss[m] \in Seq(T) /\ Once(ss[m])
          /\ \A x \in Range(f[m - 1]) : \E j \in 1 .. m - 1 : x \in Range(ss[j])
          /\ f[m] = f[m - 1] \o ss[m]
      BY <3>1, <1>2, <2>3 DEF Good
    <3>3. \A j \in 1 .. m - 1 : j \in 1 .. n /\ j # m /\ j \in 1 .. m
      BY <3>1
    <3>4. Range(f[m - 1]) \cap Range(ss[m]) = {}
      BY <3>1, <3>2, <3>3
    <3>5. f[m] \in Seq(T) /\ Range(f[m]) = Range(f[m - 1]) \cup Range(ss[m])
      BY <3>2, AppendedMembers
    <3>6. Once(f[m])
      BY <3>2, <3>4, AppendedOnce
    <3>7. m \in 1 .. m
      BY <3>1
    <3>8. \A x \in Range(f[m]) : \E j \in 1 .. m : x \in Range(ss[j])
      BY <3>2, <3>3, <3>5, <3>7
    <3>. QED BY <2>a, <3>5, <3>6, <3>8 DEF Good
  <2>. QED BY <2>2, <2>3
<1>4. n \in 0 .. n /\ n \notin Bad
  BY <1>3
<1>. QED BY <1>1, <1>4 DEF Good

\* Pick has the elements at the positions, and repeats none that s does not.
LEMMA PickMembers ==
  ASSUME NEW S, NEW s \in Seq(S), NEW I \in SUBSET DOMAIN s
  PROVE  /\ Range(Pick(s, I)) = {s[i] : i \in I}
         /\ Once(s) => Once(Pick(s, I))
<1> DEFINE p == Pick(s, I)
<1>1. /\ \A k \in DOMAIN p : Nth(I, k) \in I /\ p[k] = s[Nth(I, k)]
      /\ \A k, l \in DOMAIN p : k < l => Nth(I, k) < Nth(I, l)
      /\ \A i \in I : \E k \in DOMAIN p : Nth(I, k) = i
      /\ DOMAIN p = 1 .. Cardinality(I) /\ Cardinality(I) \in Nat
  BY PickIsSubsequence
<1>2. I \subseteq DOMAIN s /\ DOMAIN s \subseteq Nat
  OBVIOUS
<1>. HIDE DEF p
<1>3. Range(p) = {s[i] : i \in I}
  BY <1>1 DEF Range
<1>4. ASSUME Once(s), NEW k \in DOMAIN p, NEW l \in DOMAIN p, p[k] = p[l], k # l
      PROVE  FALSE
  <2>1. Nth(I, k) = Nth(I, l)
    BY <1>1, <1>2, <1>4 DEF Once
  <2>2. k < l \/ l < k
    BY <1>1, <1>4
  <2>3. Nth(I, k) \in Nat /\ Nth(I, l) \in Nat
    BY <1>1, <1>2
  <2>4. ~(Nth(I, k) < Nth(I, l)) /\ ~(Nth(I, l) < Nth(I, k))
    BY <2>1, <2>3
  <2>. QED BY <1>1, <1>4, <2>2, <2>4
<1>. QED BY <1>3, <1>4 DEF p, Once

\* The same of two picks, one after the other.
LEMMA TwoPicks ==
  ASSUME NEW S, NEW s \in Seq(S), NEW I \in SUBSET DOMAIN s, NEW J \in SUBSET DOMAIN s
  PROVE  /\ Pick(s, I) \o Pick(s, J) \in Seq(S)
         /\ Range(Pick(s, I) \o Pick(s, J)) = {s[i] : i \in I \cup J}
         /\ Once(s) /\ I \cap J = {} => Once(Pick(s, I) \o Pick(s, J))
<1> DEFINE p == Pick(s, I)
           q == Pick(s, J)
           u == p \o q
<1>1. p \in Seq(S) /\ q \in Seq(S)
  BY PickIsSubsequence
<1>2. /\ Range(p) = {s[i] : i \in I} /\ (Once(s) => Once(p))
      /\ Range(q) = {s[i] : i \in J} /\ (Once(s) => Once(q))
  BY PickMembers
<1>. HIDE DEF p, q
<1>3. u \in Seq(S) /\ Range(u) = Range(p) \cup Range(q)
  BY <1>1, AppendedMembers
<1>4. ASSUME Once(s), I \cap J = {} PROVE Once(u)
  <2>1. \A x \in Range(p), y \in Range(q) : x # y
    BY <1>2, <1>4 DEF Once
  <2>2. Range(p) \cap Range(q) = {}
    BY <2>1
  <2>. QED BY <1>1, <1>2, <1>4, <2>2, AppendedOnce
<1>5. Range(u) = {s[i] : i \in I \cup J}
  BY <1>2, <1>3
<1>6. u = Pick(s, I) \o Pick(s, J)
  BY DEF p, q
<1>. HIDE DEF u
<1>. QED BY <1>3, <1>4, <1>5, <1>6
=============================================================================
