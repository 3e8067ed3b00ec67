------------------------- MODULE ComposeSchemaProofs -------------------------
(***************************************************************************)
(* What an application of use-case services publishes, for every set of    *)
(* classes and applications: a registry in which every type has one        *)
(* meaning, wherever a service or a method stands, and fragments that      *)
(* define what they name.                                                  *)
(***************************************************************************)
EXTENDS UseCaseServer, UseCaseExecutorProofs

-----------------------------------------------------------------------------
(* Spread *)

SpreadStep(next, start, n, f) ==
  f = [k \in 0 .. n |-> IF k = 0 THEN start ELSE f[k - 1] \cup UNION {next[x] : x \in f[k - 1]}]
Chained(next, f, n) ==
  \A k \in 1 .. n : f[k] = f[k - 1] \cup UNION {next[x] : x \in f[k - 1]}

\* Spread is given by its recursion: the least length without such a function
\* has one.
LEMMA SpreadFunction ==
  ASSUME NEW next, NEW start, Cardinality(DOMAIN next) \in Nat
  PROVE  \E f : /\ Spread(next, start) = f[Cardinality(DOMAIN next)] /\ f[0] = start
                /\ Chained(next, f, Cardinality(DOMAIN next))
<1> DEFINE n == Cardinality(DOMAIN next)
           Bad == {m \in Nat : ~\E f : SpreadStep(next, start, m, f)}
<1>1. Bad = {}
  <2> SUFFICES ASSUME Bad # {} PROVE FALSE
    OBVIOUS
  <2>1. PICK m \in Bad : \A k \in Bad : m <= k
    <3>1. Bad \subseteq Nat /\ Bad # {}
      OBVIOUS
    <3>. QED BY <3>1, LeastNat
  <2>2. CASE m = 0
    <3>1. SpreadStep(next, start, 0, [i \in 0 .. 0 |-> start])
      BY DEF SpreadStep
    <3>. QED BY <2>1, <2>2, <3>1
  <2>3. CASE m # 0
    <3>1. m - 1 \in Nat /\ m - 1 \notin Bad /\ m \in Nat
      BY <2>1, <2>3
    <3>2. PICK f : SpreadStep(next, start, m - 1, f)
      BY <3>1
    <3> DEFINE new(i) == f[i] \cup UNION {next[x] : x \in f[i]}
    <3> DEFINE g == [i \in 0 .. m |-> IF i = m THEN new(m - 1) ELSE f[i]]
    <3>3. \A i \in 0 .. m - 1 : g[i] = f[i]
      BY <3>1
    <3>4. \A i \in 0 .. m - 1 : f[i] = IF i = 0 THEN start ELSE new(i - 1)
      BY <3>1, <3>2 DEF SpreadStep
    <3>5. \A i \in 0 .. m :
            g[i] = IF i = 0 THEN start ELSE g[i - 1] \cup UNION {next[x] : x \in g[i - 1]}
      <4> TAKE i \in 0 .. m
      <4>1. CASE i = m
        BY <4>1, <3>1, <3>3, <2>3
      <4>2. CASE i # m
        <5>1. i \in 0 .. m - 1 /\ (i # 0 => i - 1 \in 0 .. m - 1)
          BY <4>2, <3>1
        <5>. QED BY <5>1, <3>3, <3>4
      <4>. QED BY <4>1, <4>2
    <3>6. SpreadStep(next, start, m, g)
      BY <3>5 DEF SpreadStep
    <3>. QED BY <2>1, <3>6
  <2>. QED BY <2>2, <2>3
<1>2. n \in Nat
  OBVIOUS
<1>3. PICK f : SpreadStep(next, start, n, f)
  BY <1>1, <1>2
<1> DEFINE h == CHOOSE g : g = [k \in 0 .. n |->
                 IF k = 0 THEN start ELSE g[k - 1] \cup UNION {next[x] : x \in g[k - 1]}]
<1>4. SpreadStep(next, start, n, h)
  BY <1>3 DEF SpreadStep
<1>5. Spread(next, start) = h[n]
  BY DEF Spread
<1>. HIDE DEF h, n
<1>6. h[0] = start /\ \A k \in 1 .. n : h[k] = h[k - 1] \cup UNION {next[x] : x \in h[k - 1]}
  BY <1>2, <1>4 DEF SpreadStep
<1>7. Chained(next, h, n)
  BY <1>6 DEF Chained
<1>. QED BY <1>5, <1>6, <1>7 DEF n

\* Nothing is reached but what any closed set has.
LEMMA SpreadLeast ==
  ASSUME NEW next, NEW start, Cardinality(DOMAIN next) \in Nat,
         NEW S, start \subseteq S, \A x \in S : next[x] \subseteq S
  PROVE  Spread(next, start) \subseteq S
<1> DEFINE n == Cardinality(DOMAIN next)
<1>1. PICK f : Spread(next, start) = f[n] /\ f[0] = start /\ Chained(next, f, n)
  BY SpreadFunction
<1> DEFINE Bad == {k \in 0 .. n : ~(f[k] \subseteq S)}
<1>2. Bad = {}
  <2> SUFFICES ASSUME Bad # {} PROVE FALSE
    OBVIOUS
  <2>1. PICK m \in Bad : \A k \in Bad : m <= k
    <3>1. Bad \subseteq Nat /\ Bad # {}
      OBVIOUS
    <3>. QED BY <3>1, LeastNat
  <2>2. m \in 0 .. n /\ ~(f[m] \subseteq S) /\ m # 0
    BY <1>1
  <2>3. m \in 1 .. n /\ m - 1 \in 0 .. n /\ m - 1 \notin Bad
    BY <2>1, <2>2
  <2>4. f[m - 1] \subseteq S /\ f[m] = f[m - 1] \cup UNION {next[x] : x \in f[m - 1]}
    BY <1>1, <2>3 DEF Chained
  <2>. QED BY <2>2, <2>4
<1>. QED BY <1>1, <1>2

\* The sets of a chain grow.
LEMMA ChainedGrows ==
  ASSUME NEW next, NEW f, NEW n \in Nat, Chained(next, f, n)
  PROVE  \A i, j \in 0 .. n : i <= j => f[i] \subseteq f[j]
<1> SUFFICES ASSUME NEW i \in 0 .. n, NEW h \in 0 .. n, i <= h, ~(f[i] \subseteq f[h])
             PROVE  FALSE
  OBVIOUS
<1> DEFINE Bad == {j \in 0 .. n : i <= j /\ ~(f[i] \subseteq f[j])}
<1>1. PICK j \in Bad : \A k \in Bad : j <= k
  <2>1. h \in Bad /\ Bad \subseteq Nat
    OBVIOUS
  <2>. QED BY <2>1, LeastNat
<1>2. j \in 0 .. n /\ i <= j /\ ~(f[i] \subseteq f[j])
  OBVIOUS
<1>3. i # j
  BY <1>2
<1>4. j \in 1 .. n /\ j - 1 \in 0 .. n /\ i <= j - 1 /\ ~(j <= j - 1)
  BY <1>2, <1>3
<1>5. f[i] \subseteq f[j - 1]
  BY <1>1, <1>4
<1>. QED BY <1>2, <1>4, <1>5 DEF Chained

\* What is there at a round and was not at the one before.
NewIn(f, k) == {x \in f[k] : k # 0 => x \notin f[k - 1]}

\* What is new is so because of something that was new a round before.
LEMMA NewEarlier ==
  ASSUME NEW next, NEW f, NEW n \in Nat, Chained(next, f, n), NEW k \in 1 .. n, NewIn(f, k) # {}
  PROVE  NewIn(f, k - 1) # {}
<1>0. k - 1 \in 0 .. n /\ k # 0 /\ f[k] = f[k - 1] \cup UNION {next[x] : x \in f[k - 1]}
  BY DEF Chained
<1>1. PICK x : x \in f[k] /\ x \notin f[k - 1]
  BY <1>0 DEF NewIn
<1>2. PICK y \in f[k - 1] : x \in next[y]
  BY <1>0, <1>1
<1>3. ASSUME k - 1 # 0 PROVE y \notin f[k - 1 - 1]
  <2>1. k - 1 \in 1 .. n
    BY <1>0, <1>3
  <2>2. f[k - 1] = f[k - 1 - 1] \cup UNION {next[z] : z \in f[k - 1 - 1]}
    BY <2>1 DEF Chained
  <2>. QED BY <1>1, <1>2, <2>2
<1>. QED BY <1>2, <1>3 DEF NewIn

\* Were the chain still open at its end, every round would have something new.
LEMMA OpenChained ==
  ASSUME NEW next, NEW f, NEW n \in Nat, Chained(next, f, n), NEW D, \A k \in 0 .. n : f[k] \subseteq D,
         ~(\A x \in f[n] : next[x] \subseteq f[n])
  PROVE  \E g : g \in Injection(0 .. n, D)
<1>1. PICK y \in f[n] : ~(next[y] \subseteq f[n])
  OBVIOUS
<1>2. NewIn(f, n) # {}
  <2>1. ASSUME n # 0 PROVE y \notin f[n - 1]
    <3>1. n \in 1 .. n
      BY <2>1
    <3>2. f[n] = f[n - 1] \cup UNION {next[x] : x \in f[n - 1]}
      BY <3>1 DEF Chained
    <3>. QED BY <1>1, <3>2
  <2>. QED BY <1>1, <2>1 DEF NewIn
<1>3. \A k \in 0 .. n : NewIn(f, k) # {}
  <2> SUFFICES ASSUME NEW h \in 0 .. n, NewIn(f, h) = {} PROVE FALSE
    OBVIOUS
  <2> DEFINE Bad == {k \in 0 .. n : NewIn(f, n - k) = {}}
  <2>1. PICK k \in Bad : \A j \in Bad : k <= j
    <3>1. n - h \in 0 .. n /\ n - (n - h) = h
      OBVIOUS
    <3>2. n - h \in Bad
      BY <3>1
    <3>3. Bad \subseteq Nat
      OBVIOUS
    <3>. QED BY <3>2, <3>3, LeastNat
  <2>2. k \in 0 .. n /\ NewIn(f, n - k) = {}
    OBVIOUS
  <2>3. k # 0
    <3>1. ASSUME k = 0 PROVE FALSE
      <4>1. n - k = n
        BY <3>1
      <4>. QED BY <1>2, <2>2, <4>1
    <3>. QED BY <3>1
  <2>4. k - 1 \in 0 .. n /\ ~(k <= k - 1) /\ n - (k - 1) \in 1 .. n
        /\ n - (k - 1) - 1 = n - k
    BY <2>2, <2>3
  <2>5. k - 1 \notin Bad
    BY <2>1, <2>4
  <2>6. NewIn(f, n - (k - 1)) # {}
    BY <2>4, <2>5
  <2>7. NewIn(f, n - (k - 1) - 1) # {}
    BY <2>4, <2>6, NewEarlier
  <2>. QED BY <2>2, <2>4, <2>7
<1> DEFINE g == [k \in 0 .. n |-> CHOOSE x \in NewIn(f, k) : TRUE]
<1>4. \A k \in 0 .. n : g[k] \in NewIn(f, k)
  BY <1>3
<1>5. DOMAIN g = 0 .. n /\ g \in [0 .. n -> D]
  BY <1>4 DEF NewIn
<1>. HIDE DEF g
<1>6. \A i, j \in 0 .. n : i < j => g[i] # g[j]
  <2> SUFFICES ASSUME NEW i \in 0 .. n, NEW j \in 0 .. n, i < j, g[i] = g[j]
               PROVE  FALSE
    OBVIOUS
  <2>1. j - 1 \in 0 .. n /\ i <= j - 1 /\ j # 0
    OBVIOUS
  <2>2. g[i] \in f[i] /\ g[j] \notin f[j - 1]
    BY <1>4, <2>1 DEF NewIn
  <2>3. f[i] \subseteq f[j - 1]
    BY <2>1, ChainedGrows
  <2>. QED BY <2>2, <2>3
<1>7. \A i, j \in 0 .. n : g[i] = g[j] => i = j
  <2> SUFFICES ASSUME NEW i \in 0 .. n, NEW j \in 0 .. n, g[i] = g[j], i # j
               PROVE  FALSE
    OBVIOUS
  <2>1. i < j \/ j < i
    OBVIOUS
  <2>. QED BY <1>6, <2>1
<1>8. g \in Injection(0 .. n, D)
  BY <1>5, <1>7 DEF Injection, IsInjective
<1>. QED BY <1>8

\* What is reached is closed: there were as many rounds as things to reach.
LEMMA SpreadClosed ==
  ASSUME NEW D, IsFiniteSet(D), NEW next \in [D -> SUBSET D], NEW start \in SUBSET D
  PROVE  /\ start \subseteq Spread(next, start) /\ Spread(next, start) \subseteq D
         /\ \A x \in Spread(next, start) : next[x] \subseteq Spread(next, start)
<1> DEFINE n == Cardinality(D)
<1>1. n \in Nat /\ DOMAIN next = D
  BY FS_CardinalityType
<1>2. PICK f : Spread(next, start) = f[n] /\ f[0] = start /\ Chained(next, f, n)
  BY <1>1, SpreadFunction
<1>3. \A k \in 0 .. n : f[k] \subseteq D
  <2> DEFINE Bad == {k \in 0 .. n : ~(f[k] \subseteq D)}
  <2> SUFFICES ASSUME Bad # {} PROVE FALSE
    OBVIOUS
  <2>1. PICK m \in Bad : \A k \in Bad : m <= k
    <3>1. Bad \subseteq Nat /\ Bad # {}
      OBVIOUS
    <3>. QED BY <3>1, LeastNat
  <2>2. m \in 0 .. n /\ ~(f[m] \subseteq D) /\ m # 0
    BY <1>2
  <2>3. m \in 1 .. n /\ m - 1 \in 0 .. n /\ m - 1 \notin Bad
    BY <1>1, <2>1, <2>2
  <2>4. f[m - 1] \subseteq D /\ f[m] = f[m - 1] \cup UNION {next[x] : x \in f[m - 1]}
    BY <1>2, <2>3 DEF Chained
  <2>. QED BY <2>2, <2>4
<1>4. 0 \in 0 .. n /\ n \in 0 .. n /\ 0 <= n
  BY <1>1
<1>5. f[0] \subseteq f[n]
  BY <1>1, <1>2, <1>4, ChainedGrows
<1>6. \A x \in f[n] : next[x] \subseteq f[n]
  <2> SUFFICES ASSUME ~(\A x \in f[n] : next[x] \subseteq f[n])
               PROVE  FALSE
    OBVIOUS
  <2>1. PICK g : g \in Injection(0 .. n, D)
    BY <1>1, <1>2, <1>3, OpenChained
  <2>2. Cardinality(0 .. n) <= n
    BY <2>1, FS_Injection
  <2>3. Cardinality(0 .. n) = n + 1
    <3>1. \A i \in Nat : Cardinality(0 .. i) = i + 1
      BY FS_Interval
    <3>. QED BY <1>1, <3>1
  <2>. QED BY <1>1, <2>2, <2>3
<1>. QED BY <1>2, <1>3, <1>4, <1>5, <1>6

-----------------------------------------------------------------------------
(* Mappers *)

ItemsOf(calls) ==
  (UNION {Range(calls[i].items) : i \in DOMAIN calls})
    \cup (UNION {Range(Class[c].fields) : c \in DOMAIN Class})
TypeNames == NamesOf(DOMAIN Class) \cup {InputName(c) : c \in DOMAIN Class}
TypeKinds == {"SCALAR", "ENUM", "OBJECT", "INPUT_OBJECT"}
Refs(calls) == [shape : {Shape(x.type) : x \in ItemsOf(calls)}, kind : TypeKinds, name : TypeNames]
MappedItems(calls) == [name : {x.name : x \in ItemsOf(calls)}, ref : Refs(calls)]
Infos(calls) ==
  [kind : TypeKinds, class : DOMAIN Class \cup {None}, fields : Seq(MappedItems(calls))]
Walks(calls) ==
  [items : Seq(ItemsOf(calls)), input : BOOLEAN, class : DOMAIN Class \cup {None},
   name : TypeNames \cup {None}, mapped : Seq(MappedItems(calls))]
Partial(A, B) == UNION {[D -> B] : D \in SUBSET A}
Mappers(calls) ==
  [registry : Partial(TypeNames, Infos(calls)), byId : Partial(DOMAIN Class, TypeNames),
   answers : Seq(Seq(MappedItems(calls))), failed : BOOLEAN, open : Seq(Walks(calls))]

\* Calls whose annotations are of known classes, outputs before inputs.
GoodCalls(calls) ==
  /\ calls \in Seq([items : Seq(ItemsOf(calls)), input : BOOLEAN])
  /\ \A x \in ItemsOf(calls) : x.type.leaf \in DOMAIN Class
  /\ \A c \in DOMAIN Class : Class[c].fields \in Seq(ItemsOf(calls)) /\ Class[c].kind \in ClassKinds
  /\ \A i, j \in DOMAIN calls : i <= j /\ calls[i].input => calls[j].input
  /\ None \notin DOMAIN Class

LEMMA PartialFacts ==
  ASSUME NEW A, NEW B, NEW f \in Partial(A, B)
  PROVE  /\ DOMAIN f \subseteq A /\ f \in [DOMAIN f -> B]
         /\ \A x \in DOMAIN f : f[x] \in B
BY DEF Partial

LEMMA PutFacts ==
  ASSUME NEW A, NEW B, NEW f \in Partial(A, B), NEW a \in A, NEW b \in B
  PROVE  /\ Put(f, a, b) \in Partial(A, B) /\ DOMAIN Put(f, a, b) = DOMAIN f \cup {a}
         /\ Put(f, a, b)[a] = b
         /\ \A x \in DOMAIN f : x # a => Put(f, a, b)[x] = f[x]
<1>1. PICK D \in SUBSET A : f \in [D -> B]
  BY DEF Partial
<1>2. Put(f, a, b) \in [D \cup {a} -> B]
  BY <1>1 DEF Put
<1>3. D \cup {a} \in SUBSET A
  OBVIOUS
<1>. QED BY <1>1, <1>2, <1>3 DEF Partial, Put

\* A mapper with an item to map.
HasItem(m) == m.open # << >> /\ Len(Top(m).mapped) < Len(Top(m).items)

LEMMA MapperFacts ==
  ASSUME NEW calls, NEW m \in Mappers(calls)
  PROVE  /\ m.registry \in Partial(TypeNames, Infos(calls)) /\ m.byId \in Partial(DOMAIN Class, TypeNames)
         /\ m.answers \in Seq(Seq(MappedItems(calls))) /\ m.failed \in BOOLEAN
         /\ m.open \in Seq(Walks(calls)) /\ Len(m.open) \in Nat /\ Len(m.answers) \in Nat
         /\ \A i \in DOMAIN m.open : m.open[i] \in Walks(calls)
         /\ m.open # << >> => Len(m.open) \in DOMAIN m.open /\ Top(m) = m.open[Len(m.open)]
BY DEF Mappers, Top

LEMMA WalkFacts ==
  ASSUME NEW calls, NEW w \in Walks(calls)
  PROVE  /\ w.items \in Seq(ItemsOf(calls)) /\ w.input \in BOOLEAN
         /\ w.class \in DOMAIN Class \cup {None} /\ w.name \in TypeNames \cup {None}
         /\ w.mapped \in Seq(MappedItems(calls)) /\ Len(w.mapped) \in Nat /\ Len(w.items) \in Nat
BY DEF Walks

LEMMA CurrentFacts ==
  ASSUME NEW calls, GoodCalls(calls), NEW m \in Mappers(calls), HasItem(m)
  PROVE  /\ Current(m) \in ItemsOf(calls) /\ Current(m).type.leaf \in DOMAIN Class
         /\ Top(m) \in Walks(calls) /\ Len(m.open) \in Nat \ {0} /\ Len(m.open) \in DOMAIN m.open
         /\ Len(Top(m).mapped) \in Nat
<1>1. Top(m) \in Walks(calls) /\ Len(m.open) \in Nat /\ Len(m.open) \in DOMAIN m.open
  BY MapperFacts DEF HasItem
<1>2. Len(Top(m).mapped) \in Nat /\ Top(m).items \in Seq(ItemsOf(calls))
  BY <1>1, WalkFacts
<1>3. Len(Top(m).mapped) + 1 \in 1 .. Len(Top(m).items)
  BY <1>2 DEF HasItem
<1>4. Current(m) \in ItemsOf(calls)
  BY <1>2, <1>3 DEF Current
<1>5. Len(m.open) # 0
  BY MapperFacts DEF HasItem
<1>. QED BY <1>1, <1>2, <1>4, <1>5 DEF GoodCalls

\* What mapping the current item changes: the innermost walk, by one item.
LEMMA AnsweredFacts ==
  ASSUME NEW calls, GoodCalls(calls), NEW m \in Mappers(calls), HasItem(m), NEW name \in TypeNames
  PROVE  LET m2 == Answered(m, name)
             k == Len(m.open)
             ref == [shape |-> Shape(Current(m).type),
                     kind |-> LeafKind(Current(m).type.leaf, Top(m).input), name |-> name]
         IN /\ m2 \in Mappers(calls)
            /\ m2.registry = m.registry /\ m2.byId = m.byId /\ m2.answers = m.answers
            /\ m2.failed = m.failed /\ Len(m2.open) = k /\ DOMAIN m2.open = DOMAIN m.open
            /\ \A i \in DOMAIN m.open : i # k => m2.open[i] = m.open[i]
            /\ m2.open[k].items = Top(m).items /\ m2.open[k].input = Top(m).input
            /\ m2.open[k].class = Top(m).class /\ m2.open[k].name = Top(m).name
            /\ m2.open[k].mapped = Append(Top(m).mapped, [name |-> Current(m).name, ref |-> ref])
<1> DEFINE m2 == Answered(m, name)
           k == Len(m.open)
           ref == [shape |-> Shape(Current(m).type),
                   kind |-> LeafKind(Current(m).type.leaf, Top(m).input), name |-> name]
           item == [name |-> Current(m).name, ref |-> ref]
           w == [Top(m) EXCEPT !.mapped = Append(Top(m).mapped, item)]
<1>1. /\ Current(m) \in ItemsOf(calls) /\ Current(m).type.leaf \in DOMAIN Class
      /\ Top(m) \in Walks(calls) /\ k \in Nat \ {0} /\ k \in DOMAIN m.open /\ Top(m) = m.open[k]
  BY CurrentFacts, MapperFacts DEF HasItem
<1>2. LeafKind(Current(m).type.leaf, Top(m).input) \in TypeKinds
  BY DEF LeafKind, TypeKinds
<1>3. ref \in Refs(calls)
  BY <1>1, <1>2 DEF Refs
<1>4. item \in MappedItems(calls)
  BY <1>1, <1>3 DEF MappedItems
<1>5. w \in Walks(calls)
  <2>1. Append(Top(m).mapped, item) \in Seq(MappedItems(calls))
    BY <1>1, <1>4, WalkFacts
  <2>. HIDE DEF item
  <2>. QED BY <1>1, <2>1 DEF Walks
<1>6. /\ w.items = Top(m).items /\ w.input = Top(m).input /\ w.class = Top(m).class
      /\ w.name = Top(m).name /\ w.mapped = Append(Top(m).mapped, item)
  <2>. HIDE DEF item
  <2>. QED BY <1>1 DEF Walks
<1>7. m2 = [m EXCEPT !.open = [m.open EXCEPT ![k] = w]]
  BY <1>1 DEF Answered, Mappers
<1>. HIDE DEF w, item, ref, m2
<1>8. [m.open EXCEPT ![k] = w] \in Seq(Walks(calls))
      /\ Len([m.open EXCEPT ![k] = w]) = k /\ DOMAIN [m.open EXCEPT ![k] = w] = DOMAIN m.open
  BY <1>1, <1>5, MapperFacts
<1>9. m2 \in Mappers(calls) /\ m2.open = [m.open EXCEPT ![k] = w]
      /\ m2.registry = m.registry /\ m2.byId = m.byId /\ m2.answers = m.answers /\ m2.failed = m.failed
  BY <1>7, <1>8 DEF Mappers
<1>10. m2.open[k] = w /\ \A i \in DOMAIN m.open : i # k => m2.open[i] = m.open[i]
  BY <1>1, <1>9, MapperFacts
<1>. QED BY <1>6, <1>8, <1>9, <1>10 DEF m2, ref, item

LEMMA InfoType ==
  ASSUME NEW calls, NEW kind \in TypeKinds, NEW class \in DOMAIN Class \cup {None},
         NEW fields \in Seq(MappedItems(calls))
  PROVE  TypeInfo(kind, class, fields) \in Infos(calls)
BY DEF TypeInfo, Infos

LEMMA LeafKinds ==
  ASSUME NEW c, NEW input
  PROVE  LeafKind(c, input) \in TypeKinds
BY DEF LeafKind, TypeKinds

LEMMA DefineFacts ==
  ASSUME NEW calls, GoodCalls(calls), NEW m \in Mappers(calls), NEW c \in DOMAIN Class,
         NEW name \in TypeNames, NEW input \in BOOLEAN
  PROVE  LET m2 == Define(m, c, name, input)
             k == Len(m.open)
         IN /\ m2 \in Mappers(calls)
            /\ m2.registry = Put(m.registry, name, TypeInfo(LeafKind(c, input), c, << >>))
            /\ m2.byId = IF input THEN m.byId ELSE Put(m.byId, c, name)
            /\ m2.answers = m.answers /\ m2.failed = m.failed
            /\ Len(m2.open) = k + 1 /\ DOMAIN m2.open = 1 .. k + 1
            /\ \A i \in DOMAIN m.open : m2.open[i] = m.open[i]
            /\ m2.open[k + 1] = Walk(Call(Class[c].fields, input), c, name)
            /\ m2.open[k + 1] = [items |-> Class[c].fields, input |-> input, class |-> c,
                                 name |-> name, mapped |-> << >>]
<1> DEFINE w == [items |-> Class[c].fields, input |-> input, class |-> c,
                 name |-> name, mapped |-> << >>]
           R == Put(m.registry, name, TypeInfo(LeafKind(c, input), c, << >>))
           B == IF input THEN m.byId ELSE Put(m.byId, c, name)
           open == Append(m.open, w)
<1>1. w = Walk(Call(Class[c].fields, input), c, name)
  BY DEF Walk, Call
<1>2. << >> \in Seq(MappedItems(calls)) /\ Class[c].fields \in Seq(ItemsOf(calls))
  BY DEF GoodCalls
<1>3. w \in Walks(calls)
  BY <1>2 DEF Walks
<1>4. R \in Partial(TypeNames, Infos(calls))
  BY <1>2, LeafKinds, InfoType, MapperFacts, PutFacts
<1>5. B \in Partial(DOMAIN Class, TypeNames)
  BY MapperFacts, PutFacts
<1>. HIDE DEF w
<1>6. open \in Seq(Walks(calls)) /\ Len(open) = Len(m.open) + 1 /\ DOMAIN open = 1 .. Len(m.open) + 1
      /\ open[Len(m.open) + 1] = w /\ \A i \in DOMAIN m.open : open[i] = m.open[i]
  BY <1>3, MapperFacts
<1>. HIDE DEF R, B, open
<1>7. Define(m, c, name, input)
        = [m EXCEPT !.registry = R, !.byId = B, !.open = open, !.answers = m.answers]
  BY <1>1 DEF Define, R, B, open, Mappers
<1>8. m.answers \in Seq(Seq(MappedItems(calls)))
  BY MapperFacts
<1> DEFINE m2 == Define(m, c, name, input)
<1>. HIDE DEF m2
<1>a. m2 = [m EXCEPT !.registry = R, !.byId = B, !.open = open, !.answers = m.answers]
  BY <1>7 DEF m2
<1>9. /\ m2 \in Mappers(calls) /\ m2.registry = R /\ m2.byId = B /\ m2.open = open
      /\ m2.answers = m.answers /\ m2.failed = m.failed
  BY <1>4, <1>5, <1>6, <1>8, <1>a DEF Mappers
<1>. QED BY <1>1, <1>6, <1>9 DEF R, B, w, m2

-----------------------------------------------------------------------------
(* What holds of a mapper between two of its steps                         *)

LeafName(m, c, input) ==
  IF input /\ Class[c].kind = "model" /\ c \in DOMAIN m.byId THEN InputName(c) ELSE Class[c].name
RefTo(m, t, input) ==
  [shape |-> Shape(t), kind |-> LeafKind(t.leaf, input), name |-> LeafName(m, t.leaf, input)]

\* The class is registered, under the name its kind has there.
Known(m, c, input) ==
  LET n == LeafName(m, c, input)
  IN /\ c \in DOMAIN Class /\ Class[c].kind \in {"scalar", "enum", "model"}
     /\ n \in DOMAIN m.registry /\ m.registry[n].kind = LeafKind(c, input)
     /\ m.registry[n].class = IF Class[c].kind = "scalar" THEN None ELSE c

\* The first n items are mapped, to types that are registered.
Maps(m, xs, input, mapped, n) ==
  /\ Len(mapped) = n
  /\ \A j \in 1 .. n : /\ mapped[j] = [name |-> xs[j].name, ref |-> RefTo(m, xs[j].type, input)]
                       /\ Known(m, xs[j].type.leaf, input)
MapsAll(m, xs, input, mapped) == Maps(m, xs, input, mapped, Len(xs))

\* A type of the registry is a scalar, an enum, or the class it has as output or
\* input, whose fields are mapped or being walked.
ScalarEntry(m, n) ==
  /\ m.registry[n] = TypeInfo("SCALAR", None, << >>)
  /\ \E c \in DOMAIN Class : Class[c].kind = "scalar" /\ Class[c].name = n
EnumEntry(m, n) ==
  \E c \in DOMAIN m.byId :
    Class[c].kind = "enum" /\ Class[c].name = n /\ m.registry[n] = TypeInfo("ENUM", c, << >>)
ModelEntry(m, n, c, input) ==
  /\ Class[c].kind = "model" /\ n = LeafName(m, c, input)
  /\ m.registry[n].kind = LeafKind(c, input) /\ m.registry[n].class = c
  /\ ~input => c \in DOMAIN m.byId
  /\ \/ MapsAll(m, Class[c].fields, input, m.registry[n].fields)
     \/ \E i \in DOMAIN m.open : m.open[i].class = c /\ m.open[i].input = input
EntryOK(m, n) ==
  ScalarEntry(m, n) \/ EnumEntry(m, n)
  \/ \E c \in DOMAIN Class, input \in BOOLEAN : ModelEntry(m, n, c, input)

ByIdOK(m) ==
  \A c \in DOMAIN m.byId :
    m.byId[c] = Class[c].name /\ Class[c].kind \in {"enum", "model"} /\ Known(m, c, FALSE)

\* A walk is a call or a class met at the current item of the walk around it.
WalkOK(m, calls, i) ==
  LET w == m.open[i]
      call == calls[Len(m.answers) + 1]
  IN /\ w.input = call.input
     /\ Len(w.mapped) <= Len(w.items) /\ Maps(m, w.items, w.input, w.mapped, Len(w.mapped))
     /\ i = 1 => w.class = None /\ w.items = call.items
     /\ i # 1 => /\ w.class \in DOMAIN Class /\ Class[w.class].kind = "model"
                 /\ w.items = Class[w.class].fields
                 /\ w.name = LeafName(m, w.class, w.input) /\ Known(m, w.class, w.input)
     /\ i < Len(m.open) => /\ Len(w.mapped) < Len(w.items)
                           /\ w.items[Len(w.mapped) + 1].type.leaf = m.open[i + 1].class
WalksOK(m, calls) ==
  /\ Len(m.answers) <= Len(calls)
  /\ m.open # << >> => Len(m.answers) < Len(calls)
  /\ \A i \in DOMAIN m.open : WalkOK(m, calls, i)
AnswersOK(m, calls) ==
  \A i \in DOMAIN m.answers : MapsAll(m, calls[i].items, calls[i].input, m.answers[i])

\* Inputs are met when the outputs are done.
InputMet(m, calls) ==
  \E i \in DOMAIN calls :
    calls[i].input /\ i <= Len(m.answers) + (IF m.open = << >> THEN 0 ELSE 1)
PhaseOK(m, calls) ==
  \A n \in DOMAIN m.registry : m.registry[n].kind = "INPUT_OBJECT" => InputMet(m, calls)

MapperInv(m, calls) ==
  /\ m \in Mappers(calls)
  /\ \A n \in DOMAIN m.registry : EntryOK(m, n)
  /\ ByIdOK(m) /\ WalksOK(m, calls) /\ AnswersOK(m, calls) /\ PhaseOK(m, calls)

\* What is registered stays so under its name.
Keeps(m, m2) ==
  \A c, input : Known(m, c, input) => Known(m2, c, input) /\ LeafName(m2, c, input) = LeafName(m, c, input)

LEMMA MapsKept ==
  ASSUME NEW m, NEW m2, Keeps(m, m2), NEW xs, NEW input, NEW mapped, NEW n,
         Maps(m, xs, input, mapped, n)
  PROVE  Maps(m2, xs, input, mapped, n)
<1>1. \A j \in 1 .. n : /\ Known(m2, xs[j].type.leaf, input)
                        /\ LeafName(m2, xs[j].type.leaf, input) = LeafName(m, xs[j].type.leaf, input)
  BY DEF Maps, Keeps
<1>2. \A j \in 1 .. n : RefTo(m2, xs[j].type, input) = RefTo(m, xs[j].type, input)
  BY <1>1 DEF RefTo
<1>. QED BY <1>1, <1>2 DEF Maps

LEMMA ModelKnown ==
  ASSUME NEW m, NEW n \in DOMAIN m.registry, NEW c \in DOMAIN Class, NEW input \in BOOLEAN,
         ModelEntry(m, n, c, input)
  PROVE  Known(m, c, input)
BY DEF ModelEntry, Known

\* A mapper that has one name more, and maybe one walk more, keeps what it had.
Adds(m, m2, name, info, B) ==
  /\ name \notin DOMAIN m.registry /\ m2.registry = Put(m.registry, name, info) /\ m2.byId = B
  /\ m2.answers = m.answers /\ \A i \in DOMAIN m.open : i \in DOMAIN m2.open /\ m2.open[i] = m.open[i]

\* It may have one class more; of a model, only while outputs are met.
MayAdd(m, calls, B, d) ==
  \/ B = m.byId
  \/ B = Put(m.byId, d, Class[d].name) /\ (Class[d].kind = "model" => ~InputMet(m, calls))

AddKept(m, m2, name, info) ==
  /\ Keeps(m, m2) /\ name \in DOMAIN m2.registry /\ m2.registry[name] = info
  /\ DOMAIN m.registry \subseteq DOMAIN m2.registry /\ DOMAIN m.byId \subseteq DOMAIN m2.byId
  /\ \A n \in DOMAIN m.registry : m2.registry[n] = m.registry[n] /\ EntryOK(m2, n)

LEMMA AddKeeps ==
  ASSUME NEW calls, NEW m, NEW m2, NEW name \in TypeNames, NEW info \in Infos(calls), NEW B, NEW d,
         MapperInv(m, calls), Adds(m, m2, name, info, B), MayAdd(m, calls, B, d)
  PROVE  AddKept(m, m2, name, info)
<1>1. m.registry \in Partial(TypeNames, Infos(calls))
  BY MapperFacts DEF MapperInv
<1>2. /\ DOMAIN m2.registry = DOMAIN m.registry \cup {name} /\ m2.registry[name] = info
      /\ \A n \in DOMAIN m.registry : m2.registry[n] = m.registry[n]
  <2>1. \A n \in DOMAIN m.registry : n # name
    BY DEF Adds
  <2>2. m2.registry = Put(m.registry, name, info)
    BY DEF Adds
  <2>3. /\ DOMAIN Put(m.registry, name, info) = DOMAIN m.registry \cup {name}
        /\ Put(m.registry, name, info)[name] = info
        /\ \A x \in DOMAIN m.registry : x # name => Put(m.registry, name, info)[x] = m.registry[x]
    BY DEF Put
  <2>. QED BY <2>1, <2>2, <2>3
<1>3. DOMAIN m.byId \subseteq DOMAIN m2.byId
      /\ \A c \in DOMAIN m2.byId : c \in DOMAIN m.byId \/ (c = d /\ B = Put(m.byId, d, Class[d].name))
  BY DEF Adds, Put, MayAdd
<1>4. ASSUME NEW c, NEW input, Known(m, c, input)
      PROVE  LeafName(m2, c, input) = LeafName(m, c, input) /\ Known(m2, c, input)
  <2>1. ASSUME LeafName(m2, c, input) # LeafName(m, c, input) PROVE FALSE
    <3>1. input /\ Class[c].kind = "model" /\ c \in DOMAIN m2.byId /\ c \notin DOMAIN m.byId
      BY <1>3, <2>1 DEF LeafName
    <3>2. c = d /\ ~InputMet(m, calls)
      BY <1>3, <3>1 DEF Adds, MayAdd
    <3>3. LeafName(m, c, input) \in DOMAIN m.registry
          /\ m.registry[LeafName(m, c, input)].kind = "INPUT_OBJECT"
      BY <1>4, <3>1 DEF Known, LeafKind
    <3>. QED BY <3>2, <3>3 DEF MapperInv, PhaseOK
  <2>. QED BY <1>2, <1>4, <2>1 DEF Known
<1>5. Keeps(m, m2)
  BY <1>4 DEF Keeps
<1>6. ASSUME NEW n \in DOMAIN m.registry PROVE EntryOK(m2, n)
  <2>1. EntryOK(m, n) /\ m2.registry[n] = m.registry[n]
    BY <1>2 DEF MapperInv
  <2>2. CASE ScalarEntry(m, n)
    BY <2>1, <2>2 DEF EntryOK, ScalarEntry
  <2>3. CASE EnumEntry(m, n)
    BY <1>3, <2>1, <2>3 DEF EntryOK, EnumEntry
  <2>4. ASSUME NEW c \in DOMAIN Class, NEW input \in BOOLEAN, ModelEntry(m, n, c, input)
        PROVE  EntryOK(m2, n)
    <3>1. LeafName(m2, c, input) = LeafName(m, c, input)
      BY <1>4, <2>4, ModelKnown
    <3>2. CASE MapsAll(m, Class[c].fields, input, m.registry[n].fields)
      <4>1. MapsAll(m2, Class[c].fields, input, m2.registry[n].fields)
        BY <1>5, <2>1, <3>2, MapsKept DEF MapsAll
      <4>. QED BY <1>3, <2>1, <2>4, <3>1, <4>1 DEF EntryOK, ModelEntry
    <3>3. CASE \E i \in DOMAIN m.open : m.open[i].class = c /\ m.open[i].input = input
      <4>1. \E i \in DOMAIN m2.open : m2.open[i].class = c /\ m2.open[i].input = input
        BY <3>3 DEF Adds
      <4>. QED BY <1>3, <2>1, <2>4, <3>1, <4>1 DEF EntryOK, ModelEntry
    <3>. QED BY <2>4, <3>2, <3>3 DEF ModelEntry
  <2>. QED BY <2>1, <2>2, <2>3, <2>4 DEF EntryOK
<1>. QED BY <1>2, <1>3, <1>5, <1>6 DEF AddKept

\* The walks and answers there were stay in order.
LEMMA WalksKept ==
  ASSUME NEW calls, NEW m, NEW m2, Keeps(m, m2), m2.answers = m.answers,
         NEW i, WalkOK(m, calls, i), m2.open[i] = m.open[i],
         i < Len(m2.open) => /\ Len(m.open[i].mapped) < Len(m.open[i].items)
                             /\ m.open[i].items[Len(m.open[i].mapped) + 1].type.leaf = m2.open[i + 1].class
  PROVE  WalkOK(m2, calls, i)
<1> DEFINE w == m.open[i]
<1>1. Maps(m2, w.items, w.input, w.mapped, Len(w.mapped))
  BY MapsKept DEF WalkOK
<1>2. i # 1 => Known(m2, w.class, w.input) /\ w.name = LeafName(m2, w.class, w.input)
  BY DEF WalkOK, Keeps
<1>. QED BY <1>1, <1>2 DEF WalkOK

LEMMA AnswersKept ==
  ASSUME NEW calls, NEW m, NEW m2, Keeps(m, m2), m2.answers = m.answers, AnswersOK(m, calls)
  PROVE  AnswersOK(m2, calls)
BY MapsKept DEF AnswersOK, MapsAll

\* Mapping the current item to its type keeps the invariant.
LEMMA AnsweredInv ==
  ASSUME NEW calls, GoodCalls(calls), NEW m, MapperInv(m, calls), HasItem(m),
         NEW c, c = Current(m).type.leaf, Known(m, c, Top(m).input)
  PROVE  MapperInv(Answered(m, LeafName(m, c, Top(m).input)), calls)
<1> DEFINE name == LeafName(m, c, Top(m).input)
           m2 == Answered(m, name)
           k == Len(m.open)
           ref == [shape |-> Shape(Current(m).type), kind |-> LeafKind(Current(m).type.leaf, Top(m).input),
                   name |-> name]
           item == [name |-> Current(m).name, ref |-> ref]
<1>0. m \in Mappers(calls)
  BY DEF MapperInv
<1>1. name \in TypeNames
  BY DEF LeafName, TypeNames, NamesOf, Known
<1>2. /\ m2 \in Mappers(calls)
      /\ m2.registry = m.registry /\ m2.byId = m.byId /\ m2.answers = m.answers
      /\ Len(m2.open) = k /\ DOMAIN m2.open = DOMAIN m.open
      /\ \A i \in DOMAIN m.open : i # k => m2.open[i] = m.open[i]
      /\ m2.open[k].items = Top(m).items /\ m2.open[k].input = Top(m).input
      /\ m2.open[k].class = Top(m).class /\ m2.open[k].name = Top(m).name
      /\ m2.open[k].mapped = Append(Top(m).mapped, item)
  BY <1>0, <1>1, AnsweredFacts
<1> DEFINE p == Len(Top(m).mapped)
           q == Len(Top(m).items)
<1>3. /\ Top(m) \in Walks(calls) /\ k \in Nat \ {0} /\ k \in DOMAIN m.open /\ Top(m) = m.open[k]
      /\ p \in Nat /\ q \in Nat /\ p < q /\ Top(m).mapped \in Seq(MappedItems(calls))
      /\ Current(m) = Top(m).items[p + 1] /\ DOMAIN m.open = 1 .. k
  BY <1>0, CurrentFacts, MapperFacts, WalkFacts DEF HasItem, Current
<1>a. item = [name |-> Current(m).name, ref |-> RefTo(m, Current(m).type, Top(m).input)]
  BY DEF RefTo
<1>b. /\ Len(m2.open[k].mapped) = p + 1 /\ m2.open[k].mapped[p + 1] = item
      /\ \A j \in 1 .. p : m2.open[k].mapped[j] = Top(m).mapped[j]
  <2>1. m2.open[k].mapped = Append(Top(m).mapped, item)
    BY <1>2
  <2>. HIDE DEF m2, item
  <2>2. Top(m).mapped \in Seq(MappedItems(calls))
    BY <1>3
  <2>. QED BY <2>1, <2>2
<1>c. k \in Nat \ {0} /\ DOMAIN m.open = 1 .. k /\ DOMAIN m2.open = 1 .. k /\ Len(m2.open) = k
      /\ Len(m.open) = k /\ p \in Nat /\ q \in Nat /\ p < q
  BY <1>2, <1>3
<1>. HIDE DEF m2, item, ref, k, p, q
<1>4. \A x, in : LeafName(m2, x, in) = LeafName(m, x, in) /\ (Known(m2, x, in) <=> Known(m, x, in))
  BY <1>2 DEF LeafName, Known
<1>5. Keeps(m, m2)
  BY <1>4 DEF Keeps
<1>6. \A n \in DOMAIN m2.registry : EntryOK(m2, n)
  <2> SUFFICES ASSUME NEW n \in DOMAIN m.registry PROVE EntryOK(m2, n)
    BY <1>2
  <2>1. EntryOK(m, n)
    BY DEF MapperInv
  <2>2. CASE ScalarEntry(m, n)
    BY <1>2, <2>2 DEF EntryOK, ScalarEntry
  <2>3. CASE EnumEntry(m, n)
    BY <1>2, <2>3 DEF EntryOK, EnumEntry
  <2>4. ASSUME NEW d \in DOMAIN Class, NEW input \in BOOLEAN, ModelEntry(m, n, d, input)
        PROVE  EntryOK(m2, n)
    <3>2. CASE MapsAll(m, Class[d].fields, input, m.registry[n].fields)
      <4>1. MapsAll(m2, Class[d].fields, input, m2.registry[n].fields)
        BY <1>2, <1>5, <3>2, MapsKept DEF MapsAll
      <4>. QED BY <1>2, <1>4, <2>4, <4>1 DEF EntryOK, ModelEntry
    <3>3. CASE \E i \in DOMAIN m.open : m.open[i].class = d /\ m.open[i].input = input
      <4>1. \E i \in DOMAIN m2.open : m2.open[i].class = d /\ m2.open[i].input = input
        BY <1>2, <1>3, <3>3
      <4>. QED BY <1>2, <1>4, <2>4, <4>1 DEF EntryOK, ModelEntry
    <3>. QED BY <2>4, <3>2, <3>3 DEF ModelEntry
  <2>. QED BY <2>1, <2>2, <2>3, <2>4 DEF EntryOK
<1>7. ByIdOK(m2)
  BY <1>2, <1>4 DEF MapperInv, ByIdOK
<1>8. WalksOK(m2, calls)
  <2>0. WalksOK(m, calls)
    BY DEF MapperInv
  <2>1. ASSUME NEW i \in 1 .. k PROVE WalkOK(m2, calls, i)
    <3>0. WalkOK(m, calls, i) /\ i \in Nat
      BY <1>c, <2>0 DEF WalksOK
    <3>1. CASE i # k
      <4>0. i < k /\ i + 1 \in 1 .. k
        BY <1>c, <3>0, <3>1
      <4>1. m2.open[i] = m.open[i] /\ m2.open[i + 1].class = m.open[i + 1].class
        <5>1. i + 1 # k => m2.open[i + 1] = m.open[i + 1]
          BY <1>2, <1>c, <4>0
        <5>2. i + 1 = k => m2.open[i + 1].class = m.open[i + 1].class
          BY <1>2, <1>3
        <5>. QED BY <1>2, <1>c, <3>1, <5>1, <5>2
      <4>2. /\ Len(m.open[i].mapped) < Len(m.open[i].items)
            /\ m.open[i].items[Len(m.open[i].mapped) + 1].type.leaf = m.open[i + 1].class
        BY <1>c, <3>0, <4>0 DEF WalkOK
      <4>. QED BY <1>2, <1>5, <3>0, <4>1, <4>2, WalksKept
    <3>2. CASE i = k
      <4> DEFINE w == m2.open[k]
      <4>2. Maps(m2, Top(m).items, Top(m).input, Top(m).mapped, p)
        BY <1>3, <1>5, <3>0, <3>2, MapsKept DEF WalkOK, p
      <4>3. /\ item = [name |-> Top(m).items[p + 1].name, ref |-> RefTo(m2, Top(m).items[p + 1].type, Top(m).input)]
            /\ Known(m2, Top(m).items[p + 1].type.leaf, Top(m).input)
        BY <1>3, <1>4, <1>a DEF RefTo
      <4>4. \A j \in 1 .. p + 1 : j \in 1 .. p \/ j = p + 1
        BY <1>c
      <4>5. w.items = Top(m).items /\ w.input = Top(m).input /\ w.class = Top(m).class
            /\ w.name = Top(m).name
        BY <1>2
      <4>6. Maps(m2, w.items, w.input, w.mapped, Len(w.mapped))
        BY <1>b, <4>2, <4>3, <4>4, <4>5 DEF Maps
      <4>7. Len(w.mapped) <= Len(w.items)
        BY <1>b, <1>c, <4>5 DEF q
      <4>8. k # 1 => w.name = LeafName(m2, w.class, w.input) /\ Known(m2, w.class, w.input)
        BY <1>3, <1>4, <3>0, <3>2, <4>5 DEF WalkOK
      <4>9. ~(k < Len(m2.open))
        BY <1>c
      <4>. QED BY <1>2, <1>3, <3>0, <3>2, <4>5, <4>6, <4>7, <4>8, <4>9 DEF WalkOK
    <3>. QED BY <3>1, <3>2
  <2>2. m.open # << >>
    BY DEF HasItem
  <2>. QED BY <1>2, <1>c, <2>0, <2>1, <2>2 DEF WalksOK
<1>9. AnswersOK(m2, calls)
  BY <1>2, <1>5, AnswersKept DEF MapperInv
<1>10. PhaseOK(m2, calls)
  <2>1. m2.open # << >> /\ m.open # << >>
    <3>1. 1 \in DOMAIN m2.open
      BY <1>c
    <3>. QED BY <3>1 DEF HasItem
  <2>. QED BY <1>2, <2>1 DEF MapperInv, PhaseOK, InputMet
<1>. QED BY <1>2, <1>6, <1>7, <1>8, <1>9, <1>10 DEF MapperInv, m2

-----------------------------------------------------------------------------
(* The classes a mapper may meet                                           *)

Allowed(O, I, input) == IF input THEN I ELSE O

\* Classes that hold those calls are made for, and those of their fields.
Covers(calls, O, I) ==
  /\ O \subseteq DOMAIN Class /\ I \subseteq DOMAIN Class
  /\ \A i \in DOMAIN calls : \A j \in DOMAIN calls[i].items :
       calls[i].items[j].type.leaf \in Allowed(O, I, calls[i].input)
  /\ \A input \in BOOLEAN : \A c \in Allowed(O, I, input) : Class[c].kind = "model" =>
       \A j \in DOMAIN Class[c].fields : Class[c].fields[j].type.leaf \in Allowed(O, I, input)
EnvOK(m, O, I) ==
  /\ \A i \in DOMAIN m.open : \A j \in DOMAIN m.open[i].items :
       m.open[i].items[j].type.leaf \in Allowed(O, I, m.open[i].input)
  /\ \A c \in DOMAIN m.byId : c \in O \cup I /\ (Class[c].kind = "model" => c \in O)
  /\ \A n \in DOMAIN m.registry :
       /\ m.registry[n].kind = "INPUT_OBJECT" => m.registry[n].class \in I
       /\ m.registry[n].kind = "SCALAR" =>
            \E c \in O \cup I : Class[c].kind = "scalar" /\ Class[c].name = n
Apart(O, I) ==
  /\ \A c, d \in O \cup I :
       Class[c].kind = "scalar" /\ Class[d].name = Class[c].name => Class[d].kind = "scalar"
  /\ \A c \in O \cap I, d \in O \cup I : Class[c].kind = "model" => InputName(c) # Class[d].name
  /\ \A c, d \in O \cup I : InputName(c) = InputName(d) => Class[c].name = Class[d].name

\* What the type of a name is.
ScalarNamed(m, n, d) == Class[d].kind = "scalar" /\ Class[d].name = n /\ m.registry[n].kind = "SCALAR"
EnumNamed(m, n, d) ==
  /\ d \in DOMAIN m.byId /\ Class[d].kind = "enum" /\ Class[d].name = n
  /\ m.registry[n].kind = "ENUM" /\ m.registry[n].class = d
OutputNamed(m, n, d) ==
  /\ d \in DOMAIN m.byId /\ Class[d].kind = "model" /\ Class[d].name = n
  /\ m.registry[n].kind = "OBJECT" /\ m.registry[n].class = d
InputNamed(m, n, d) ==
  /\ Class[d].kind = "model" /\ m.registry[n].kind = "INPUT_OBJECT" /\ m.registry[n].class = d
  /\ IF d \in DOMAIN m.byId THEN n = InputName(d) ELSE n = Class[d].name

LEMMA EntryNamed ==
  ASSUME NEW calls, NEW m, MapperInv(m, calls), NEW O, NEW I, EnvOK(m, O, I),
         NEW n \in DOMAIN m.registry
  PROVE  \/ \E d \in O \cup I : ScalarNamed(m, n, d)
         \/ \E d \in O \cup I : EnumNamed(m, n, d)
         \/ \E d \in O : OutputNamed(m, n, d)
         \/ \E d \in I : InputNamed(m, n, d) /\ (d \in DOMAIN m.byId => d \in O)
<1>1. EntryOK(m, n)
  BY DEF MapperInv
<1>2. CASE ScalarEntry(m, n)
  <2>1. m.registry[n].kind = "SCALAR"
    BY <1>2 DEF ScalarEntry, TypeInfo
  <2>. QED BY <2>1 DEF EnvOK, ScalarNamed
<1>3. CASE EnumEntry(m, n)
  <2>1. \E d \in DOMAIN m.byId : EnumNamed(m, n, d)
    BY <1>3 DEF EnumEntry, TypeInfo, EnumNamed
  <2>. QED BY <2>1 DEF EnvOK
<1>4. ASSUME NEW d \in DOMAIN Class, ModelEntry(m, n, d, FALSE)
      PROVE  OutputNamed(m, n, d) /\ d \in O
  BY <1>4 DEF ModelEntry, LeafName, LeafKind, OutputNamed, EnvOK
<1>5. ASSUME NEW d \in DOMAIN Class, ModelEntry(m, n, d, TRUE)
      PROVE  InputNamed(m, n, d) /\ d \in I /\ (d \in DOMAIN m.byId => d \in O)
  <2>1. /\ Class[d].kind = "model" /\ m.registry[n].kind = "INPUT_OBJECT" /\ m.registry[n].class = d
        /\ n = LeafName(m, d, TRUE)
    BY <1>5 DEF ModelEntry, LeafKind
  <2>. QED BY <2>1 DEF LeafName, InputNamed, EnvOK
<1>. QED BY <1>1, <1>2, <1>3, <1>4, <1>5 DEF EntryOK

\* The current item is of a class it may be of.
LEMMA CurrentAllowed ==
  ASSUME NEW calls, GoodCalls(calls), NEW m \in Mappers(calls), HasItem(m),
         NEW O, NEW I, EnvOK(m, O, I)
  PROVE  Current(m).type.leaf \in Allowed(O, I, Top(m).input)
<1>1. /\ Len(m.open) \in DOMAIN m.open /\ Top(m) = m.open[Len(m.open)] /\ Top(m) \in Walks(calls)
      /\ Len(Top(m).mapped) \in Nat
  BY CurrentFacts, MapperFacts DEF HasItem
<1>2. Top(m).items \in Seq(ItemsOf(calls))
  BY <1>1, WalkFacts
<1>3. Len(Top(m).mapped) + 1 \in DOMAIN Top(m).items
  BY <1>1, <1>2 DEF HasItem
<1>. QED BY <1>1, <1>3 DEF EnvOK, Current

\* A mapper that has one more name and walk that are in order is in order.
LEMMA AddInv ==
  ASSUME NEW calls, NEW m, NEW m2 \in Mappers(calls), NEW name \in TypeNames, NEW info \in Infos(calls),
         NEW B, NEW d,
         MapperInv(m, calls), Adds(m, m2, name, info, B),
         \/ B = m.byId
         \/ /\ B = Put(m.byId, d, Class[d].name) /\ Class[d].kind \in {"enum", "model"}
            /\ Known(m2, d, FALSE) /\ (Class[d].kind = "model" => ~InputMet(m, calls)),
         EntryOK(m2, name), WalksOK(m2, calls), m.open # << >>, m2.open # << >>,
         info.kind = "INPUT_OBJECT" => InputMet(m2, calls)
  PROVE  MapperInv(m2, calls)
<1>1. /\ Keeps(m, m2) /\ name \in DOMAIN m2.registry /\ m2.registry[name] = info
      /\ \A n \in DOMAIN m.registry : m2.registry[n] = m.registry[n] /\ EntryOK(m2, n)
  <2>1. MayAdd(m, calls, B, d)
    BY DEF MayAdd
  <2>2. AddKept(m, m2, name, info)
    BY <2>1, AddKeeps
  <2>. QED BY <2>2 DEF AddKept
<1>2. DOMAIN m2.registry = DOMAIN m.registry \cup {name}
  BY DEF Adds, Put
<1>3. ByIdOK(m2)
  <2>1. ByIdOK(m) /\ m2.byId = B
    BY DEF MapperInv, Adds
  <2>2. \A c \in DOMAIN m.byId : Known(m2, c, FALSE)
    BY <1>1, <2>1 DEF ByIdOK, Keeps
  <2>3. CASE B = m.byId
    BY <2>1, <2>2, <2>3 DEF ByIdOK
  <2>4. CASE B # m.byId
    <3>1. DOMAIN m2.byId = DOMAIN m.byId \cup {d} /\ m2.byId[d] = Class[d].name
          /\ \A c \in DOMAIN m.byId : c # d => m2.byId[c] = m.byId[c]
      BY <2>1, <2>4 DEF Put
    <3>. QED BY <2>1, <2>2, <2>4, <3>1 DEF ByIdOK
  <2>. QED BY <2>3, <2>4
<1>4. AnswersOK(m2, calls) /\ m2.answers = m.answers
  BY <1>1, AnswersKept DEF MapperInv, Adds
<1>5. PhaseOK(m2, calls)
  <2>1. InputMet(m, calls) => InputMet(m2, calls)
    BY <1>4 DEF InputMet
  <2>. QED BY <1>1, <1>2, <2>1 DEF PhaseOK, MapperInv
<1>. QED BY <1>1, <1>2, <1>3, <1>4, <1>5 DEF MapperInv

\* Walks stay in order while names are added.
LEMMA SameWalksOK ==
  ASSUME NEW calls, NEW m, NEW m2, MapperInv(m, calls), Keeps(m, m2), m2.answers = m.answers,
         m2.open = m.open
  PROVE  WalksOK(m2, calls)
<1>1. WalksOK(m, calls)
  BY DEF MapperInv
<1>2. ASSUME NEW i \in DOMAIN m.open PROVE WalkOK(m2, calls, i)
  <2>1. WalkOK(m, calls, i)
    BY <1>1 DEF WalksOK
  <2>2. i < Len(m2.open) =>
          /\ Len(m.open[i].mapped) < Len(m.open[i].items)
          /\ m.open[i].items[Len(m.open[i].mapped) + 1].type.leaf = m2.open[i + 1].class
    BY <2>1 DEF WalkOK
  <2>. QED BY <2>1, <2>2, WalksKept
<1>. QED BY <1>1, <1>2 DEF WalksOK

-----------------------------------------------------------------------------
(* The steps of a mapper keep it in order                                  *)

LEMMA SameKeeps ==
  ASSUME NEW m, NEW m2, m2.registry = m.registry, m2.byId = m.byId
  PROVE  /\ Keeps(m, m2)
         /\ \A c, input : LeafName(m2, c, input) = LeafName(m, c, input)
                          /\ (Known(m2, c, input) <=> Known(m, c, input))
BY DEF Keeps, LeafName, Known

\* A call begins.
LEMMA BeginInv ==
  ASSUME NEW calls, GoodCalls(calls), NEW m, MapperInv(m, calls), m.open = << >>,
         ~Ended(m, calls)
  PROVE  MapperInv([m EXCEPT !.open = <<Walk(calls[Len(m.answers) + 1], None, None)>>], calls)
<1> DEFINE call == calls[Len(m.answers) + 1]
           w == Walk(call, None, None)
           m2 == [m EXCEPT !.open = <<w>>]
<1>1. m \in Mappers(calls) /\ m.answers \in Seq(Seq(MappedItems(calls))) /\ WalksOK(m, calls)
  BY MapperFacts DEF MapperInv
<1>2. Len(m.answers) \in Nat /\ Len(m.answers) < Len(calls) /\ Len(m.answers) + 1 \in DOMAIN calls
  <2>1. Len(m.answers) \in Nat /\ Len(m.answers) <= Len(calls) /\ Len(m.answers) # Len(calls)
    BY <1>1 DEF WalksOK, Ended
  <2>2. calls \in Seq([items : Seq(ItemsOf(calls)), input : BOOLEAN])
    BY DEF GoodCalls
  <2>. QED BY <2>1, <2>2
<1>3. call \in [items : Seq(ItemsOf(calls)), input : BOOLEAN]
  <2> DEFINE S == [items : Seq(ItemsOf(calls)), input : BOOLEAN]
  <2>1. calls \in Seq(S)
    BY DEF GoodCalls
  <2>. HIDE DEF S
  <2>2. call \in S
    BY <1>2, <2>1
  <2>. QED BY <2>2 DEF S
<1>4. /\ w \in Walks(calls) /\ w.items = call.items /\ w.input = call.input /\ w.class = None
      /\ w.mapped = << >>
  <2>1. << >> \in Seq(MappedItems(calls))
    OBVIOUS
  <2>. QED BY <1>3, <2>1 DEF Walks, Walk
<1>. HIDE DEF w, call
<1>5. <<w>> \in Seq(Walks(calls)) /\ DOMAIN <<w>> = 1 .. 1 /\ <<w>>[1] = w /\ Len(<<w>>) = 1 /\ <<w>> # << >>
  BY <1>4
<1>6. /\ m2 \in Mappers(calls) /\ m2.open = <<w>>
      /\ m2.registry = m.registry /\ m2.byId = m.byId /\ m2.answers = m.answers /\ m2.failed = m.failed
  <2> DEFINE open == <<w>>
  <2>1. m2 = [m EXCEPT !.open = open] /\ open \in Seq(Walks(calls))
    BY <1>5
  <2>. HIDE DEF open
  <2>2. /\ m2 \in Mappers(calls) /\ m2.open = open
        /\ m2.registry = m.registry /\ m2.byId = m.byId /\ m2.answers = m.answers /\ m2.failed = m.failed
    BY <1>1, <2>1 DEF Mappers
  <2>. QED BY <2>2 DEF open
<1>. HIDE DEF m2
<1>7. Keeps(m, m2)
  BY <1>6, SameKeeps
<1>8. \A n \in DOMAIN m2.registry : EntryOK(m2, n)
  <2> SUFFICES ASSUME NEW n \in DOMAIN m.registry PROVE EntryOK(m2, n)
    BY <1>6
  <2>1. EntryOK(m, n)
    BY DEF MapperInv
  <2>2. ASSUME NEW d \in DOMAIN Class, NEW input \in BOOLEAN, ModelEntry(m, n, d, input)
        PROVE  EntryOK(m2, n)
    <3>1. MapsAll(m, Class[d].fields, input, m.registry[n].fields)
      BY <2>2 DEF ModelEntry
    <3>2. MapsAll(m2, Class[d].fields, input, m2.registry[n].fields)
      BY <1>6, <1>7, <3>1, MapsKept DEF MapsAll
    <3>. QED BY <1>6, <2>2, <3>2, SameKeeps DEF EntryOK, ModelEntry
  <2>. QED BY <1>6, <2>1, <2>2 DEF EntryOK, ScalarEntry, EnumEntry
<1>9. ByIdOK(m2)
  BY <1>6, SameKeeps DEF MapperInv, ByIdOK
<1>10. WalksOK(m2, calls)
  <2>1. WalkOK(m2, calls, 1)
    <3>1. Maps(m2, w.items, w.input, w.mapped, 0) /\ Len(w.mapped) = 0 /\ Len(w.items) \in Nat
      BY <1>4, WalkFacts DEF Maps
    <3>. QED BY <1>4, <1>5, <1>6, <3>1 DEF WalkOK, call
  <2>. QED BY <1>2, <1>5, <1>6, <2>1 DEF WalksOK
<1>11. AnswersOK(m2, calls)
  BY <1>6, <1>7, AnswersKept DEF MapperInv
<1>12. PhaseOK(m2, calls)
  <2>1. InputMet(m, calls) => InputMet(m2, calls)
    <3> SUFFICES ASSUME NEW i \in DOMAIN calls, calls[i].input, i <= Len(m.answers) + 0
                 PROVE  i <= Len(m.answers) + 1
      BY <1>5, <1>6 DEF InputMet
    <3>. QED BY <1>2 DEF GoodCalls
  <2>. QED BY <1>6, <2>1 DEF MapperInv, PhaseOK
<1>. QED BY <1>6, <1>8, <1>9, <1>10, <1>11, <1>12 DEF MapperInv, m2, w, call

\* A scalar or an enum is registered, and the item is still to be mapped.
LEMMA LeafInv ==
  ASSUME NEW calls, GoodCalls(calls), NEW m, MapperInv(m, calls), HasItem(m),
         NEW m2 \in Mappers(calls), NEW name \in TypeNames, NEW info \in Infos(calls), NEW B, NEW d,
         Adds(m, m2, name, info, B), m2.open = m.open,
         B = m.byId \/ (B = Put(m.byId, d, Class[d].name) /\ Class[d].kind = "enum" /\ Known(m2, d, FALSE)),
         EntryOK(m2, name), info.kind # "INPUT_OBJECT"
  PROVE  MapperInv(m2, calls) /\ HasItem(m2) /\ Top(m2) = Top(m) /\ Current(m2) = Current(m)
<1>1. MayAdd(m, calls, B, d) /\ m2.answers = m.answers
  BY DEF MayAdd, Adds
<1>2. Keeps(m, m2)
  BY <1>1, AddKeeps DEF AddKept
<1>3. WalksOK(m2, calls)
  BY <1>1, <1>2, SameWalksOK
<1>4. m.open # << >> /\ m2.open # << >>
  BY DEF HasItem
<1>5. \/ B = m.byId
      \/ /\ B = Put(m.byId, d, Class[d].name) /\ Class[d].kind \in {"enum", "model"}
         /\ Known(m2, d, FALSE) /\ (Class[d].kind = "model" => ~InputMet(m, calls))
  OBVIOUS
<1>6. MapperInv(m2, calls)
  BY <1>3, <1>4, <1>5, AddInv
<1>. QED BY <1>6 DEF HasItem, Top, Current

LEMMA WithRegistry ==
  ASSUME NEW calls, NEW m \in Mappers(calls), NEW R \in Partial(TypeNames, Infos(calls)),
         NEW B \in Partial(DOMAIN Class, TypeNames)
  PROVE  LET m2 == [m EXCEPT !.registry = R, !.byId = B]
         IN /\ m2 \in Mappers(calls) /\ m2.registry = R /\ m2.byId = B /\ m2.open = m.open
            /\ m2.answers = m.answers /\ m2.failed = m.failed
            /\ [m EXCEPT !.registry = R, !.byId = m.byId] = [m EXCEPT !.registry = R]
            /\ [m EXCEPT !.byId = B, !.registry = R] = m2
            /\ [m EXCEPT !.registry = m.registry] = m
BY DEF Mappers

\* The class at hand is one of those that may be met.
LEMMA AtHand ==
  ASSUME NEW calls, GoodCalls(calls), NEW m, MapperInv(m, calls), HasItem(m), NEW O, NEW I,
         EnvOK(m, O, I), NEW c, c = Current(m).type.leaf
  PROVE  /\ c \in Allowed(O, I, Top(m).input) /\ c \in O \cup I /\ c \in DOMAIN Class
         /\ Class[c].name \in TypeNames /\ InputName(c) \in TypeNames /\ Top(m).input \in BOOLEAN
         /\ m \in Mappers(calls) /\ m.registry \in Partial(TypeNames, Infos(calls))
         /\ m.byId \in Partial(DOMAIN Class, TypeNames) /\ << >> \in Seq(MappedItems(calls))
<1>1. m \in Mappers(calls)
  BY DEF MapperInv
<1>2. c \in Allowed(O, I, Top(m).input)
  BY <1>1, CurrentAllowed
<1>3. c \in DOMAIN Class /\ Top(m) \in Walks(calls)
  BY <1>1, CurrentFacts
<1>4. Top(m).input \in BOOLEAN
  BY <1>3, WalkFacts
<1>5. Class[c].name \in TypeNames /\ InputName(c) \in TypeNames
  BY <1>3 DEF TypeNames, NamesOf
<1>6. m.registry \in Partial(TypeNames, Infos(calls)) /\ m.byId \in Partial(DOMAIN Class, TypeNames)
  BY <1>1, MapperFacts
<1>. QED BY <1>1, <1>2, <1>3, <1>4, <1>5, <1>6 DEF Allowed

LEMMA ScalarInv ==
  ASSUME NEW calls, GoodCalls(calls), NEW m, MapperInv(m, calls), HasItem(m), NEW O, NEW I,
         EnvOK(m, O, I), Apart(O, I), NEW c, c = Current(m).type.leaf, Class[c].kind = "scalar"
  PROVE  MapperInv(RegisterScalar(m, c), calls)
<1> DEFINE name == Class[c].name
           input == Top(m).input
           info == TypeInfo("SCALAR", None, << >>)
<1>1. /\ c \in O \cup I /\ c \in DOMAIN Class /\ name \in TypeNames /\ input \in BOOLEAN
      /\ m \in Mappers(calls) /\ m.registry \in Partial(TypeNames, Infos(calls))
      /\ m.byId \in Partial(DOMAIN Class, TypeNames) /\ << >> \in Seq(MappedItems(calls))
  BY AtHand
<1>2. \A x : LeafName(x, c, input) = name /\ LeafKind(c, input) = "SCALAR"
  BY DEF LeafName, LeafKind
<1>3. info \in Infos(calls) /\ info.kind = "SCALAR" /\ info.class = None
  <2>1. "SCALAR" \in TypeKinds
    BY DEF TypeKinds
  <2>. QED BY <1>1, <2>1, InfoType DEF TypeInfo
<1>4. CASE name \in DOMAIN m.registry
  <2>1. m.registry[name].kind = "SCALAR"
    <3>1. ASSUME NEW d \in O \cup I, EnumNamed(m, name, d) PROVE FALSE
      BY <1>1, <3>1 DEF EnumNamed, Apart
    <3>2. ASSUME NEW d \in O, OutputNamed(m, name, d) PROVE FALSE
      BY <1>1, <3>2 DEF OutputNamed, Apart
    <3>3. ASSUME NEW d \in I, InputNamed(m, name, d), d \in DOMAIN m.byId => d \in O PROVE FALSE
      <4>1. CASE d \in DOMAIN m.byId
        BY <1>1, <3>3, <4>1 DEF InputNamed, Apart
      <4>2. CASE d \notin DOMAIN m.byId
        BY <1>1, <3>3, <4>2 DEF InputNamed, Apart
      <4>. QED BY <4>1, <4>2
    <3>. QED BY <1>4, <3>1, <3>2, <3>3, EntryNamed DEF ScalarNamed
  <2>2. m.registry[name].class = None
    <3>1. EntryOK(m, name)
      BY <1>4 DEF MapperInv
    <3>2. ASSUME NEW d, m.registry[name] = TypeInfo("ENUM", d, << >>) PROVE FALSE
      BY <2>1, <3>2 DEF TypeInfo
    <3>3. \A d \in DOMAIN Class, i \in BOOLEAN : ~ModelEntry(m, name, d, i)
      BY <2>1 DEF ModelEntry, LeafKind
    <3>4. ScalarEntry(m, name)
      BY <3>1, <3>2, <3>3 DEF EntryOK, EnumEntry
    <3>. QED BY <3>4 DEF ScalarEntry, TypeInfo
  <2>3. Known(m, c, input)
    BY <1>1, <1>2, <1>4, <2>1, <2>2 DEF Known
  <2>4. RegisterScalar(m, c) = Answered(m, name)
    BY <1>1, <1>4, WithRegistry DEF RegisterScalar
  <2>. QED BY <1>2, <2>3, <2>4, AnsweredInv
<1>5. CASE name \notin DOMAIN m.registry
  <2> DEFINE R == Put(m.registry, name, info)
             m2 == [m EXCEPT !.registry = R]
  <2>1. R \in Partial(TypeNames, Infos(calls)) /\ DOMAIN R = DOMAIN m.registry \cup {name} /\ R[name] = info
    <3>1. R \in Partial(TypeNames, Infos(calls))
      BY <1>1, <1>3, PutFacts
    <3>. QED BY <3>1 DEF Put
  <2>2. RegisterScalar(m, c) = Answered(m2, name)
    BY <1>5 DEF RegisterScalar
  <2>. HIDE DEF R, info
  <2>3. /\ m2 \in Mappers(calls) /\ m2.registry = R /\ m2.byId = m.byId /\ m2.open = m.open
        /\ m2.answers = m.answers
    <3>1. m \in Mappers(calls) /\ R \in Partial(TypeNames, Infos(calls)) /\ m.byId \in Partial(DOMAIN Class, TypeNames)
      BY <1>1, <2>1
    <3>2. m2 = [m EXCEPT !.registry = R, !.byId = m.byId]
      BY <3>1 DEF Mappers
    <3>. HIDE DEF m2
    <3>. QED BY <3>1, <3>2 DEF Mappers
  <2>. HIDE DEF m2
  <2>4. Adds(m, m2, name, info, m.byId)
    BY <1>5, <2>3 DEF Adds, R
  <2>5. EntryOK(m2, name)
    BY <1>1, <2>1, <2>3 DEF EntryOK, ScalarEntry, info
  <2>6. MapperInv(m2, calls) /\ HasItem(m2) /\ Top(m2) = Top(m) /\ Current(m2) = Current(m)
    BY <1>1, <1>3, <2>3, <2>4, <2>5, LeafInv
  <2>7. Known(m2, c, input)
    BY <1>1, <1>2, <1>3, <2>1, <2>3 DEF Known
  <2>. QED BY <1>2, <2>2, <2>6, <2>7, AnsweredInv
<1>. QED BY <1>4, <1>5

LEMMA EnumInv ==
  ASSUME NEW calls, GoodCalls(calls), NEW m, MapperInv(m, calls), HasItem(m), NEW O, NEW I,
         EnvOK(m, O, I), NEW c, c = Current(m).type.leaf, Class[c].kind = "enum"
  PROVE  MapperInv(RegisterEnum(m, c), calls) \/ RegisterEnum(m, c).failed
<1> DEFINE name == Class[c].name
           input == Top(m).input
           info == TypeInfo("ENUM", c, << >>)
<1>1. /\ c \in DOMAIN Class /\ name \in TypeNames /\ input \in BOOLEAN
      /\ m \in Mappers(calls) /\ m.registry \in Partial(TypeNames, Infos(calls))
      /\ m.byId \in Partial(DOMAIN Class, TypeNames) /\ << >> \in Seq(MappedItems(calls))
  BY AtHand
<1>2. \A x, i : LeafName(x, c, i) = name /\ LeafKind(c, i) = "ENUM"
  BY DEF LeafName, LeafKind
<1>3. info \in Infos(calls) /\ info.kind = "ENUM" /\ info.class = c
  <2>1. "ENUM" \in TypeKinds
    BY DEF TypeKinds
  <2>. QED BY <1>1, <2>1, InfoType DEF TypeInfo
<1>4. CASE c \in DOMAIN m.byId
  <2>1. m.byId[c] = name /\ Known(m, c, FALSE)
    BY <1>4 DEF MapperInv, ByIdOK
  <2>2. Known(m, c, input)
    BY <1>2, <2>1 DEF Known
  <2>3. RegisterEnum(m, c) = Answered(m, LeafName(m, c, input))
    BY <1>2, <1>4, <2>1 DEF RegisterEnum
  <2>. QED BY <2>2, <2>3, AnsweredInv
<1>5. CASE c \notin DOMAIN m.byId /\ name \in DOMAIN m.registry
  <2>1. RegisterEnum(m, c) = Failed(m)
    BY <1>5 DEF RegisterEnum
  <2>. QED BY <1>1, <2>1 DEF Failed, Mappers
<1>6. CASE c \notin DOMAIN m.byId /\ name \notin DOMAIN m.registry
  <2> DEFINE R == Put(m.registry, name, info)
             B == Put(m.byId, c, name)
             m2 == [m EXCEPT !.byId = B, !.registry = R]
  <2>1. R \in Partial(TypeNames, Infos(calls)) /\ DOMAIN R = DOMAIN m.registry \cup {name} /\ R[name] = info
    <3>1. R \in Partial(TypeNames, Infos(calls))
      BY <1>1, <1>3, PutFacts
    <3>. QED BY <3>1 DEF Put
  <2>2. B \in Partial(DOMAIN Class, TypeNames) /\ c \in DOMAIN B
    <3>1. B \in Partial(DOMAIN Class, TypeNames)
      BY <1>1, PutFacts
    <3>. QED BY <3>1 DEF Put
  <2>3. RegisterEnum(m, c) = Answered(m2, name)
    BY <1>6 DEF RegisterEnum
  <2>. HIDE DEF R, B, info
  <2>4. m2 = [m EXCEPT !.byId = B, !.registry = R]
    OBVIOUS
  <2>. HIDE DEF m2
  <2>5. /\ m2 \in Mappers(calls) /\ m2.registry = R /\ m2.byId = B /\ m2.open = m.open
        /\ m2.answers = m.answers
    BY <1>1, <2>1, <2>2, <2>4 DEF Mappers
  <2>6. Adds(m, m2, name, info, B)
    BY <1>6, <2>5 DEF Adds, R
  <2>7. EntryOK(m2, name)
    BY <1>1, <2>1, <2>2, <2>5 DEF EntryOK, EnumEntry, info
  <2>8. \A i \in BOOLEAN : Known(m2, c, i)
    BY <1>1, <1>2, <1>3, <2>1, <2>5 DEF Known
  <2>9. MapperInv(m2, calls) /\ HasItem(m2) /\ Top(m2) = Top(m) /\ Current(m2) = Current(m)
    <3>1. B = Put(m.byId, c, Class[c].name) /\ Class[c].kind = "enum" /\ Known(m2, c, FALSE)
      BY <2>8 DEF B
    <3>2. info.kind # "INPUT_OBJECT"
      BY <1>3
    <3>. HIDE DEF name
    <3>. QED BY <1>1, <1>3, <2>5, <2>6, <2>7, <3>1, <3>2, LeafInv
  <2>. QED BY <1>1, <1>2, <2>3, <2>8, <2>9, AnsweredInv
<1>. QED BY <1>4, <1>5, <1>6

\* Inputs are met from the first call for inputs on.
LEMMA InputMetTop ==
  ASSUME NEW calls, GoodCalls(calls), NEW m, MapperInv(m, calls), m.open # << >>
  PROVE  Top(m).input <=> InputMet(m, calls)
<1>1. WalksOK(m, calls) /\ Len(m.open) \in DOMAIN m.open /\ Top(m) = m.open[Len(m.open)]
      /\ Len(m.answers) \in Nat
  BY MapperFacts DEF MapperInv
<1>2. Top(m).input = calls[Len(m.answers) + 1].input /\ Len(m.answers) < Len(calls)
  BY <1>1 DEF WalksOK, WalkOK
<1>3. DOMAIN calls = 1 .. Len(calls) /\ Len(calls) \in Nat
  <2> DEFINE S == [items : Seq(ItemsOf(calls)), input : BOOLEAN]
  <2>1. calls \in Seq(S)
    BY DEF GoodCalls
  <2>. HIDE DEF S
  <2>. QED BY <2>1
<1>4. Len(m.answers) + 1 \in DOMAIN calls
  BY <1>1, <1>2, <1>3
<1>5. InputMet(m, calls) <=> \E i \in DOMAIN calls : calls[i].input /\ i <= Len(m.answers) + 1
  BY DEF InputMet
<1>6. \A i \in DOMAIN calls : i <= Len(m.answers) + 1 /\ calls[i].input => calls[Len(m.answers) + 1].input
  BY <1>4 DEF GoodCalls
<1>. QED BY <1>1, <1>2, <1>4, <1>5, <1>6

\* A class is met for the first time: its walk begins.
LEMMA DefineInv ==
  ASSUME NEW calls, GoodCalls(calls), NEW m, MapperInv(m, calls), HasItem(m),
         NEW c, c = Current(m).type.leaf, Class[c].kind = "model",
         NEW name, name = LeafName(m, c, Top(m).input), name \notin DOMAIN m.registry
  PROVE  MapperInv(Define(m, c, name, Top(m).input), calls)
<1> DEFINE input == Top(m).input
           m2 == Define(m, c, name, input)
           k == Len(m.open)
           info == TypeInfo(LeafKind(c, input), c, << >>)
           B == IF input THEN m.byId ELSE Put(m.byId, c, name)
<1>1. /\ m \in Mappers(calls) /\ c \in DOMAIN Class /\ Top(m) \in Walks(calls) /\ input \in BOOLEAN
      /\ k \in Nat \ {0} /\ DOMAIN m.open = 1 .. k /\ Top(m) = m.open[k] /\ m.open # << >>
      /\ << >> \in Seq(MappedItems(calls))
  BY CurrentFacts, MapperFacts, WalkFacts DEF MapperInv, HasItem
<1>2. name \in TypeNames
  BY <1>1 DEF LeafName, TypeNames, NamesOf
<1>3. /\ m2 \in Mappers(calls) /\ m2.registry = Put(m.registry, name, info) /\ m2.byId = B
      /\ m2.answers = m.answers /\ Len(m2.open) = k + 1 /\ DOMAIN m2.open = 1 .. k + 1
      /\ \A i \in DOMAIN m.open : m2.open[i] = m.open[i]
      /\ m2.open[k + 1] = [items |-> Class[c].fields, input |-> input, class |-> c,
                           name |-> name, mapped |-> << >>]
  BY <1>1, <1>2, DefineFacts
<1>4. info \in Infos(calls) /\ info.kind = LeafKind(c, input) /\ info.class = c
  BY <1>1, LeafKinds, InfoType DEF TypeInfo
<1>. HIDE DEF m2, info
<1>5. Adds(m, m2, name, info, B)
  BY <1>1, <1>3 DEF Adds
<1>6. input <=> InputMet(m, calls)
  BY <1>1, InputMetTop
<1>7. ~input => name = Class[c].name
  BY DEF LeafName
<1>8. MayAdd(m, calls, B, c)
  BY <1>1, <1>6, <1>7 DEF MayAdd
<1>9. /\ Keeps(m, m2) /\ name \in DOMAIN m2.registry /\ m2.registry[name] = info
      /\ DOMAIN m.byId \subseteq DOMAIN m2.byId
  <2>. HIDE DEF B
  <2>1. info \in Infos(calls)
    BY <1>4
  <2>2. AddKept(m, m2, name, info)
    BY <1>2, <1>5, <1>8, <2>1, AddKeeps
  <2>. QED BY <2>2 DEF AddKept
<1>10. LeafName(m2, c, input) = name
  <2>1. CASE input
    BY <1>3, <2>1 DEF LeafName
  <2>2. CASE ~input
    BY <2>2 DEF LeafName
  <2>. QED BY <2>1, <2>2
<1>11. Known(m2, c, input)
  BY <1>1, <1>4, <1>9, <1>10 DEF Known
<1>12. ~input => c \in DOMAIN m2.byId
  BY <1>3 DEF Put
<1>13. EntryOK(m2, name)
  <2>1. k + 1 \in DOMAIN m2.open /\ m2.open[k + 1].class = c /\ m2.open[k + 1].input = input
    BY <1>1, <1>3
  <2>2. ModelEntry(m2, name, c, input)
    BY <1>4, <1>9, <1>10, <1>12, <2>1 DEF ModelEntry
  <2>. QED BY <1>1, <2>2 DEF EntryOK
<1>14. WalksOK(m2, calls)
  <2>1. WalksOK(m, calls)
    BY DEF MapperInv
  <2>2. ASSUME NEW i \in 1 .. k PROVE WalkOK(m2, calls, i)
    <3>1. WalkOK(m, calls, i) /\ m2.open[i] = m.open[i]
      BY <1>1, <1>3, <2>1 DEF WalksOK
    <3>2. CASE i = k
      <4>1. /\ Len(m.open[k].mapped) < Len(m.open[k].items)
            /\ m.open[k].items[Len(m.open[k].mapped) + 1].type.leaf = m2.open[k + 1].class
        <5>1. Len(Top(m).mapped) < Len(Top(m).items) /\ c = Top(m).items[Len(Top(m).mapped) + 1].type.leaf
          BY DEF HasItem, Current
        <5>2. m2.open[k + 1].class = c
          BY <1>3
        <5>. QED BY <1>1, <5>1, <5>2
      <4>. QED BY <1>3, <1>9, <3>1, <3>2, <4>1, WalksKept
    <3>3. CASE i # k
      <4>1. i < k /\ i + 1 \in 1 .. k
        BY <1>1, <3>3
      <4>2. /\ Len(m.open[i].mapped) < Len(m.open[i].items)
            /\ m.open[i].items[Len(m.open[i].mapped) + 1].type.leaf = m2.open[i + 1].class
        BY <1>1, <1>3, <3>1, <4>1 DEF WalkOK
      <4>. QED BY <1>3, <1>9, <3>1, <4>2, WalksKept
    <3>. QED BY <3>2, <3>3
  <2>3. WalkOK(m2, calls, k + 1)
    <3> DEFINE w == m2.open[k + 1]
    <3>1. /\ w.items = Class[c].fields /\ w.input = input /\ w.class = c /\ w.name = name
          /\ w.mapped = << >> /\ Len(w.mapped) = 0
      BY <1>3
    <3>2. Len(w.items) \in Nat
      BY <1>1, <3>1 DEF GoodCalls
    <3>3. input = calls[Len(m.answers) + 1].input
      BY <1>1, <2>1 DEF WalksOK, WalkOK
    <3>4. k + 1 # 1 /\ ~(k + 1 < Len(m2.open))
      BY <1>1, <1>3
    <3>5. Maps(m2, w.items, w.input, w.mapped, Len(w.mapped))
      BY <3>1 DEF Maps
    <3>. HIDE DEF w
    <3>6. Len(w.mapped) <= Len(w.items)
      BY <3>1, <3>2
    <3>. QED BY <1>1, <1>3, <1>10, <1>11, <3>1, <3>3, <3>4, <3>5, <3>6 DEF WalkOK, w
  <2>4. \A i \in 1 .. k + 1 : i \in 1 .. k \/ i = k + 1
    BY <1>1
  <2>. QED BY <1>1, <1>3, <2>1, <2>2, <2>3, <2>4 DEF WalksOK
<1>15. m2.open # << >>
  BY <1>1, <1>3
<1>16. info.kind = "INPUT_OBJECT" => InputMet(m2, calls)
  <2>1. info.kind = "INPUT_OBJECT" => InputMet(m, calls)
    BY <1>4, <1>6 DEF LeafKind
  <2>. QED BY <1>1, <1>3, <1>15, <2>1 DEF InputMet
<1>17. \/ B = m.byId
       \/ /\ B = Put(m.byId, c, Class[c].name) /\ Class[c].kind \in {"enum", "model"}
          /\ Known(m2, c, FALSE) /\ (Class[c].kind = "model" => ~InputMet(m, calls))
  BY <1>1, <1>6, <1>7, <1>11
<1>. HIDE DEF B
<1>18. MapperInv(m2, calls)
  BY <1>1, <1>2, <1>3, <1>4, <1>5, <1>13, <1>14, <1>15, <1>16, <1>17, AddInv
<1>. QED BY <1>18 DEF m2

LEMMA ObjectInv ==
  ASSUME NEW calls, GoodCalls(calls), NEW m, MapperInv(m, calls), HasItem(m), NEW O, NEW I,
         EnvOK(m, O, I), NEW c, c = Current(m).type.leaf, Class[c].kind = "model", ~Top(m).input
  PROVE  MapperInv(RegisterObject(m, c), calls) \/ RegisterObject(m, c).failed
<1> DEFINE name == Class[c].name
<1>1. m \in Mappers(calls) /\ Top(m).input \in BOOLEAN
  BY AtHand
<1>2. name = LeafName(m, c, Top(m).input) /\ Top(m).input = FALSE
  BY <1>1 DEF LeafName
<1>3. CASE c \in DOMAIN m.byId
  <2>1. m.byId[c] = name /\ Known(m, c, FALSE)
    BY <1>3 DEF MapperInv, ByIdOK
  <2>2. RegisterObject(m, c) = Answered(m, LeafName(m, c, Top(m).input))
    BY <1>2, <1>3, <2>1 DEF RegisterObject
  <2>. QED BY <1>2, <2>1, <2>2, AnsweredInv
<1>4. CASE c \notin DOMAIN m.byId /\ name \in DOMAIN m.registry
  <2>1. RegisterObject(m, c) = Failed(m)
    BY <1>4 DEF RegisterObject
  <2>. QED BY <1>1, <2>1 DEF Failed, Mappers
<1>5. CASE c \notin DOMAIN m.byId /\ name \notin DOMAIN m.registry
  <2>1. RegisterObject(m, c) = Define(m, c, name, Top(m).input)
    BY <1>2, <1>5 DEF RegisterObject
  <2>. QED BY <1>2, <1>5, <2>1, DefineInv
<1>. QED BY <1>3, <1>4, <1>5

\* The name a class gets as an input type because it is returned is free.
LEMMA InputNameFree ==
  ASSUME NEW calls, NEW m, MapperInv(m, calls), NEW O, NEW I, EnvOK(m, O, I), Apart(O, I),
         NEW c \in I, c \in DOMAIN m.byId, Class[c].kind = "model",
         \A n \in DOMAIN m.registry :
           ~(m.registry[n].kind = "INPUT_OBJECT" /\ m.registry[n].class = c)
  PROVE  InputName(c) \notin DOMAIN m.registry
<1> DEFINE n == InputName(c)
<1>. SUFFICES ASSUME n \in DOMAIN m.registry PROVE FALSE
  OBVIOUS
<1>1. c \in O
  BY DEF EnvOK
<1>2. \A d \in O \cup I : n # Class[d].name
  BY <1>1 DEF Apart
<1>3. ASSUME NEW d \in I, InputNamed(m, n, d), d \in DOMAIN m.byId => d \in O
      PROVE  FALSE
  <2>1. d \in DOMAIN m.byId /\ n = InputName(d) /\ Class[d].kind = "model"
    BY <1>2, <1>3 DEF InputNamed
  <2>2. Class[c].name = Class[d].name
    BY <1>1, <1>3, <2>1 DEF Apart
  <2>3. Known(m, c, FALSE) /\ Known(m, d, FALSE)
    BY <2>1 DEF MapperInv, ByIdOK
  <2>4. c = d
    BY <2>1, <2>2, <2>3 DEF Known, LeafName
  <2>. QED BY <1>3, <2>4 DEF InputNamed
<1>. HIDE DEF n
<1>4. \/ \E d \in O \cup I : ScalarNamed(m, n, d)
      \/ \E d \in O \cup I : EnumNamed(m, n, d)
      \/ \E d \in O : OutputNamed(m, n, d)
      \/ \E d \in I : InputNamed(m, n, d) /\ (d \in DOMAIN m.byId => d \in O)
  BY EntryNamed
<1>. QED BY <1>2, <1>3, <1>4 DEF ScalarNamed, EnumNamed, OutputNamed

\* The type a class has as input stands under the name the class has as input.
LEMMA InputUnique ==
  ASSUME NEW calls, NEW m, MapperInv(m, calls), NEW n \in DOMAIN m.registry, NEW c,
         m.registry[n].kind = "INPUT_OBJECT", m.registry[n].class = c
  PROVE  n = LeafName(m, c, TRUE) /\ Known(m, c, TRUE)
<1>1. EntryOK(m, n)
  BY DEF MapperInv
<1>2. ~ScalarEntry(m, n)
  BY DEF ScalarEntry, TypeInfo
<1>3. ~EnumEntry(m, n)
  <2>1. \A d : m.registry[n] # TypeInfo("ENUM", d, << >>)
    BY DEF TypeInfo
  <2>. QED BY <2>1 DEF EnumEntry
<1>4. PICK d \in DOMAIN Class, input \in BOOLEAN : ModelEntry(m, n, d, input)
  BY <1>1, <1>2, <1>3 DEF EntryOK
<1>5. input = TRUE /\ d = c
  BY <1>4 DEF ModelEntry, LeafKind
<1>6. Known(m, c, TRUE)
  BY <1>4, <1>5, ModelKnown
<1>. QED BY <1>4, <1>5, <1>6 DEF ModelEntry

LEMMA OutputUnique ==
  ASSUME NEW calls, NEW m, MapperInv(m, calls), NEW n \in DOMAIN m.registry, NEW c,
         m.registry[n].kind = "OBJECT", m.registry[n].class = c
  PROVE  c \in DOMAIN m.byId
<1>1. EntryOK(m, n)
  BY DEF MapperInv
<1>2. ~ScalarEntry(m, n)
  BY DEF ScalarEntry, TypeInfo
<1>3. ~EnumEntry(m, n)
  <2>1. \A d : m.registry[n] # TypeInfo("ENUM", d, << >>)
    BY DEF TypeInfo
  <2>. QED BY <2>1 DEF EnumEntry
<1>4. PICK d \in DOMAIN Class, input \in BOOLEAN : ModelEntry(m, n, d, input)
  BY <1>1, <1>2, <1>3 DEF EntryOK
<1>5. input = FALSE /\ d = c
  BY <1>4 DEF ModelEntry, LeafKind
<1>. QED BY <1>4, <1>5 DEF ModelEntry

LEMMA InputObjectInv ==
  ASSUME NEW calls, GoodCalls(calls), NEW m, MapperInv(m, calls), HasItem(m), NEW O, NEW I,
         EnvOK(m, O, I), Apart(O, I), NEW c, c = Current(m).type.leaf, Class[c].kind = "model",
         Top(m).input
  PROVE  MapperInv(RegisterInputObject(m, c), calls) \/ RegisterInputObject(m, c).failed
<1> DEFINE name == Class[c].name
           known == {n \in DOMAIN m.registry :
                       m.registry[n].kind = "INPUT_OBJECT" /\ m.registry[n].class = c}
           returned == name \in DOMAIN m.registry
                       /\ m.registry[name].class = c /\ m.registry[name].kind = "OBJECT"
<1>1. m \in Mappers(calls) /\ Top(m).input \in BOOLEAN /\ c \in Allowed(O, I, Top(m).input)
  BY AtHand
<1>2. Top(m).input = TRUE /\ c \in I
  BY <1>1 DEF Allowed
<1>3. returned <=> c \in DOMAIN m.byId
  <2>1. returned => c \in DOMAIN m.byId
    BY OutputUnique
  <2>2. c \in DOMAIN m.byId => returned
    <3>1. c \in DOMAIN m.byId => Known(m, c, FALSE)
      BY DEF MapperInv, ByIdOK
    <3>. QED BY <3>1 DEF Known, LeafName, LeafKind
  <2>. QED BY <2>1, <2>2
<1>4. CASE known # {}
  <2>1. PICK n \in known : n = CHOOSE x \in known : TRUE
    BY <1>4
  <2>2. n = LeafName(m, c, TRUE) /\ Known(m, c, TRUE)
    BY <2>1, InputUnique
  <2>3. RegisterInputObject(m, c) = Answered(m, n)
    BY <1>4, <2>1 DEF RegisterInputObject
  <2>. QED BY <1>2, <2>2, <2>3, AnsweredInv
<1>5. CASE known = {} /\ ~returned /\ name \in DOMAIN m.registry
  <2>1. RegisterInputObject(m, c) = Failed(m)
    BY <1>5 DEF RegisterInputObject
  <2>. QED BY <1>1, <2>1 DEF Failed, Mappers
<1>6. CASE known = {} /\ returned
  <2>1. InputName(c) = LeafName(m, c, Top(m).input)
    BY <1>2, <1>3, <1>6 DEF LeafName
  <2>2. InputName(c) \notin DOMAIN m.registry
    BY <1>2, <1>3, <1>6, InputNameFree
  <2>3. RegisterInputObject(m, c) = Define(m, c, InputName(c), Top(m).input)
    BY <1>2, <1>6 DEF RegisterInputObject
  <2>. QED BY <2>1, <2>2, <2>3, DefineInv
<1>7. CASE known = {} /\ ~returned /\ name \notin DOMAIN m.registry
  <2>1. name = LeafName(m, c, Top(m).input)
    BY <1>2, <1>3, <1>7 DEF LeafName
  <2>2. RegisterInputObject(m, c) = Define(m, c, name, Top(m).input)
    BY <1>2, <1>7 DEF RegisterInputObject
  <2>. QED BY <1>7, <2>1, <2>2, DefineInv
<1>. QED BY <1>4, <1>5, <1>6, <1>7

\* What the innermost walk is when its items are mapped.
LEMMA ReturnFacts ==
  ASSUME NEW calls, GoodCalls(calls), NEW m, MapperInv(m, calls), m.open # << >>, ~HasItem(m)
  PROVE  LET k == Len(m.open)
             f == Top(m)
             call == calls[Len(m.answers) + 1]
         IN /\ m \in Mappers(calls) /\ k \in Nat \ {0} /\ DOMAIN m.open = 1 .. k /\ f = m.open[k]
            /\ f \in Walks(calls) /\ WalkOK(m, calls, k) /\ f.input = call.input
            /\ Len(m.answers) + 1 \in DOMAIN calls
            /\ MapsAll(m, f.items, f.input, f.mapped)
            /\ Front(m.open) \in Seq(Walks(calls)) /\ Len(Front(m.open)) = k - 1
            /\ DOMAIN Front(m.open) = 1 .. k - 1
            /\ \A i \in 1 .. k - 1 : Front(m.open)[i] = m.open[i]
            /\ (f.class = None <=> k = 1)
<1> DEFINE k == Len(m.open)
           f == Top(m)
           call == calls[Len(m.answers) + 1]
<1>1. /\ m \in Mappers(calls) /\ WalksOK(m, calls) /\ k \in Nat /\ k \in DOMAIN m.open /\ f = m.open[k]
      /\ m.open \in Seq(Walks(calls)) /\ Len(m.answers) \in Nat /\ f \in Walks(calls)
  BY MapperFacts DEF MapperInv
<1>2. k \in Nat \ {0} /\ DOMAIN m.open = 1 .. k
  BY <1>1
<1>3. WalkOK(m, calls, k) /\ f.input = call.input
  BY <1>1 DEF WalksOK, WalkOK
<1>4. Len(m.answers) + 1 \in DOMAIN calls
  <2> DEFINE S == [items : Seq(ItemsOf(calls)), input : BOOLEAN]
  <2>1. calls \in Seq(S)
    BY DEF GoodCalls
  <2>. HIDE DEF S
  <2>2. Len(m.answers) < Len(calls)
    BY <1>1 DEF WalksOK
  <2>. QED BY <1>1, <2>1, <2>2
<1>5. MapsAll(m, f.items, f.input, f.mapped)
  <2>1. Len(f.mapped) \in Nat /\ Len(f.items) \in Nat /\ Len(f.mapped) <= Len(f.items)
    BY <1>1, <1>3, WalkFacts DEF WalkOK
  <2>2. Len(f.mapped) = Len(f.items)
    BY <2>1 DEF HasItem
  <2>3. Maps(m, f.items, f.input, f.mapped, Len(f.mapped))
    BY <1>1, <1>3 DEF WalkOK
  <2>. QED BY <2>2, <2>3 DEF MapsAll
<1>6. /\ Front(m.open) \in Seq(Walks(calls)) /\ Len(Front(m.open)) = k - 1
      /\ \A i \in 1 .. k - 1 : Front(m.open)[i] = m.open[i]
  <2> DEFINE s == m.open
  <2>1. k - 1 \in Int /\ 1 \in Int /\ \A i \in 1 .. k - 1 : s[i] \in Walks(calls)
    BY <1>1, <1>2
  <2>2. /\ SubSeq(s, 1, k - 1) \in Seq(Walks(calls))
        /\ Len(SubSeq(s, 1, k - 1)) = IF 1 <= k - 1 THEN (k - 1) - 1 + 1 ELSE 0
        /\ \A i \in 1 .. (k - 1) - 1 + 1 : SubSeq(s, 1, k - 1)[i] = s[1 + i - 1]
    <3>. HIDE DEF s, k
    <3>. QED BY <2>1
  <2>. HIDE DEF s
  <2>3. (k - 1) - 1 + 1 = k - 1 /\ \A i \in 1 .. k - 1 : 1 + i - 1 = i
    BY <1>2
  <2>4. Len(SubSeq(s, 1, k - 1)) = k - 1
    BY <1>2, <2>2
  <2>5. Front(s) = SubSeq(s, 1, k - 1)
    BY DEF Front, s
  <2>. HIDE DEF k
  <2>. QED BY <2>2, <2>3, <2>4, <2>5 DEF s
<1>7. DOMAIN Front(m.open) = 1 .. k - 1
  BY <1>6
<1>8. f.class = None <=> k = 1
  BY <1>1, <1>2, <1>3 DEF WalkOK, GoodCalls
<1>. QED BY <1>1, <1>2, <1>3, <1>4, <1>5, <1>6, <1>7, <1>8

\* A call returns.
LEMMA CallAnsweredInv ==
  ASSUME NEW calls, GoodCalls(calls), NEW m, MapperInv(m, calls), m.open # << >>, ~HasItem(m),
         Top(m).class = None
  PROVE  MapperInv(Return(m), calls)
<1> DEFINE f == Top(m)
           A == Append(m.answers, f.mapped)
           n == Len(m.answers)
           call == calls[n + 1]
           m2 == Return(m)
<1>1. /\ m \in Mappers(calls) /\ Len(m.open) = 1 /\ DOMAIN m.open = 1 .. 1 /\ f = m.open[1]
      /\ f \in Walks(calls) /\ WalkOK(m, calls, 1) /\ f.input = call.input
      /\ n + 1 \in DOMAIN calls /\ MapsAll(m, f.items, f.input, f.mapped)
      /\ Front(m.open) \in Seq(Walks(calls)) /\ Len(Front(m.open)) = 0
  BY ReturnFacts
<1>2. Front(m.open) = << >>
  BY <1>1
<1>3. f.mapped \in Seq(MappedItems(calls)) /\ m.answers \in Seq(Seq(MappedItems(calls))) /\ n \in Nat
  BY <1>1, WalkFacts, MapperFacts
<1>. HIDE DEF f
<1>4. A \in Seq(Seq(MappedItems(calls))) /\ Len(A) = n + 1 /\ DOMAIN A = 1 .. n + 1 /\ A[n + 1] = f.mapped
      /\ \A i \in 1 .. n : A[i] = m.answers[i]
  BY <1>3
<1>5. m2 = [m EXCEPT !.open = << >>, !.answers = A]
  BY <1>1, <1>2 DEF Return, f, Mappers
<1>. HIDE DEF m2, A
<1>6. << >> \in Seq(Walks(calls))
  OBVIOUS
<1>7. /\ m2 \in Mappers(calls) /\ m2.open = << >> /\ m2.answers = A /\ m2.registry = m.registry
      /\ m2.byId = m.byId
  BY <1>1, <1>4, <1>5, <1>6 DEF Mappers
<1>8. Keeps(m, m2)
  BY <1>7, SameKeeps
<1>9. \A x \in DOMAIN m2.registry : EntryOK(m2, x)
  <2> SUFFICES ASSUME NEW x \in DOMAIN m.registry PROVE EntryOK(m2, x)
    BY <1>7
  <2>1. EntryOK(m, x)
    BY DEF MapperInv
  <2>2. ASSUME NEW d \in DOMAIN Class, NEW input \in BOOLEAN, ModelEntry(m, x, d, input)
        PROVE  EntryOK(m2, x)
    <3>1. \A i \in DOMAIN m.open : m.open[i].class # d
      BY <1>1, <1>1 DEF f, GoodCalls
    <3>2. MapsAll(m, Class[d].fields, input, m.registry[x].fields)
      BY <2>2, <3>1 DEF ModelEntry
    <3>3. MapsAll(m2, Class[d].fields, input, m2.registry[x].fields)
      BY <1>7, <1>8, <3>2, MapsKept DEF MapsAll
    <3>. QED BY <1>7, <2>2, <3>3, SameKeeps DEF EntryOK, ModelEntry
  <2>. QED BY <1>7, <2>1, <2>2 DEF EntryOK, ScalarEntry, EnumEntry
<1>10. ByIdOK(m2)
  BY <1>7, SameKeeps DEF MapperInv, ByIdOK
<1>11. WalksOK(m2, calls)
  <2>1. n + 1 <= Len(calls)
    BY <1>1, <1>3 DEF GoodCalls
  <2>. QED BY <1>4, <1>7, <2>1 DEF WalksOK
<1>12. AnswersOK(m2, calls)
  <2> SUFFICES ASSUME NEW i \in 1 .. n + 1
               PROVE  MapsAll(m2, calls[i].items, calls[i].input, A[i])
    BY <1>4, <1>7 DEF AnswersOK
  <2>1. CASE i = n + 1
    <3>1. f.items = call.items
      BY <1>1 DEF WalkOK
    <3>2. MapsAll(m2, f.items, f.input, f.mapped)
      BY <1>1, <1>8, MapsKept DEF MapsAll
    <3>. QED BY <1>1, <1>4, <2>1, <3>1, <3>2
  <2>2. CASE i # n + 1
    <3>1. i \in 1 .. n /\ DOMAIN m.answers = 1 .. n
      BY <1>3, <2>2
    <3>2. MapsAll(m, calls[i].items, calls[i].input, m.answers[i])
      BY <3>1 DEF MapperInv, AnswersOK
    <3>. QED BY <1>4, <1>8, <3>1, <3>2, MapsKept DEF MapsAll
  <2>. QED BY <2>1, <2>2
<1>13. PhaseOK(m2, calls)
  <2>1. InputMet(m, calls) => InputMet(m2, calls)
    <3>1. Len(m2.answers) + 0 = Len(m.answers) + 1
      BY <1>3, <1>4, <1>7
    <3>. QED BY <1>7, <3>1 DEF InputMet
  <2>. QED BY <1>7, <2>1 DEF MapperInv, PhaseOK
<1>. QED BY <1>7, <1>9, <1>10, <1>11, <1>12, <1>13 DEF MapperInv, m2

\* The walk of a class returns: its fields are mapped, and so is the item of the
\* walk around it.
LEMMA CompletedInv ==
  ASSUME NEW calls, GoodCalls(calls), NEW m, MapperInv(m, calls), m.open # << >>, ~HasItem(m),
         Top(m).class # None
  PROVE  LET f == Top(m)
             m1 == [m EXCEPT !.open = Front(m.open), !.registry[f.name].fields = f.mapped]
         IN /\ MapperInv(m1, calls) /\ HasItem(m1) /\ Current(m1).type.leaf = f.class
            /\ Top(m1).input = f.input /\ f.name = LeafName(m1, f.class, f.input)
            /\ Known(m1, f.class, f.input)
<1> DEFINE f == Top(m)
           k == Len(m.open)
           open == Front(m.open)
           info == [m.registry[f.name] EXCEPT !.fields = f.mapped]
           R == [m.registry EXCEPT ![f.name] = info]
           m1 == [m EXCEPT !.open = Front(m.open), !.registry[f.name].fields = f.mapped]
<1>1. /\ m \in Mappers(calls) /\ k \in Nat \ {0} /\ DOMAIN m.open = 1 .. k /\ f = m.open[k]
      /\ f \in Walks(calls) /\ WalkOK(m, calls, k) /\ f.input = calls[Len(m.answers) + 1].input
      /\ MapsAll(m, f.items, f.input, f.mapped)
      /\ open \in Seq(Walks(calls)) /\ Len(open) = k - 1 /\ DOMAIN open = 1 .. k - 1
      /\ \A i \in 1 .. k - 1 : open[i] = m.open[i]
      /\ k # 1
  BY ReturnFacts
<1>2. k - 1 \in Nat \ {0} /\ k - 1 < k /\ k - 1 \in 1 .. k /\ k - 1 \in 1 .. k - 1 /\ open # << >>
  <2>1. k \in Nat \ {0} /\ k # 1 /\ Len(open) = k - 1
    BY <1>1
  <2>. HIDE DEF k, open
  <2>2. k - 1 \in Nat \ {0} /\ k - 1 < k /\ k - 1 \in 1 .. k /\ k - 1 \in 1 .. k - 1
    BY <2>1
  <2>. QED BY <2>1, <2>2
<1>3. /\ f.class \in DOMAIN Class /\ Class[f.class].kind = "model" /\ f.items = Class[f.class].fields
      /\ f.name = LeafName(m, f.class, f.input) /\ Known(m, f.class, f.input)
      /\ f.input \in BOOLEAN /\ f.mapped \in Seq(MappedItems(calls))
  BY <1>1, WalkFacts DEF WalkOK
<1>4. /\ f.name \in DOMAIN m.registry /\ m.registry[f.name].kind = LeafKind(f.class, f.input)
      /\ m.registry[f.name].class = f.class
  BY <1>3 DEF Known
<1>5. m.registry \in Partial(TypeNames, Infos(calls))
  BY <1>1, MapperFacts
<1>6. m.registry[f.name] \in Infos(calls)
  BY <1>4, <1>5, PartialFacts
<1>. HIDE DEF f
<1>7. info \in Infos(calls) /\ info.kind = m.registry[f.name].kind
      /\ info.class = m.registry[f.name].class /\ info.fields = f.mapped
  BY <1>3, <1>6 DEF Infos
<1>8. /\ R \in Partial(TypeNames, Infos(calls)) /\ DOMAIN R = DOMAIN m.registry /\ R[f.name] = info
      /\ \A n \in DOMAIN m.registry : n # f.name => R[n] = m.registry[n]
  <2>. HIDE DEF info
  <2>. QED BY <1>4, <1>5, <1>7 DEF Partial
<1>9. m1 = [m EXCEPT !.open = open, !.registry = R]
  BY <1>1 DEF f, Mappers
<1>. HIDE DEF m1, R, info, open, k
<1>10. /\ m1 \in Mappers(calls) /\ m1.open = open /\ m1.registry = R /\ m1.byId = m.byId
       /\ m1.answers = m.answers
  BY <1>1, <1>8, <1>9 DEF Mappers
<1>11. \A c, input : LeafName(m1, c, input) = LeafName(m, c, input)
                     /\ (Known(m1, c, input) <=> Known(m, c, input))
  <2>1. \A c, input : LeafName(m1, c, input) = LeafName(m, c, input)
    BY <1>10 DEF LeafName
  <2>2. \A n \in DOMAIN m.registry :
          m1.registry[n].kind = m.registry[n].kind /\ m1.registry[n].class = m.registry[n].class
    BY <1>7, <1>8, <1>10
  <2>. QED BY <1>8, <1>10, <2>1, <2>2 DEF Known
<1>12. Keeps(m, m1)
  BY <1>11 DEF Keeps
<1>13. \A n \in DOMAIN m1.registry : EntryOK(m1, n)
  <2> SUFFICES ASSUME NEW n \in DOMAIN m.registry PROVE EntryOK(m1, n)
    BY <1>8, <1>10
  <2>1. CASE n = f.name
    <3>1. MapsAll(m1, Class[f.class].fields, f.input, m1.registry[n].fields)
      <4>1. MapsAll(m1, f.items, f.input, f.mapped)
        BY <1>1, <1>12, MapsKept DEF MapsAll
      <4>2. m1.registry[n].fields = f.mapped
        BY <1>7, <1>8, <1>10, <2>1
      <4>. QED BY <1>3, <4>1, <4>2
    <3>2. m1.registry[n].kind = LeafKind(f.class, f.input) /\ m1.registry[n].class = f.class
      BY <1>4, <1>7, <1>8, <1>10, <2>1
    <3>3. ~f.input => f.class \in DOMAIN m1.byId
      <4> SUFFICES ASSUME ~f.input PROVE f.class \in DOMAIN m.byId
        BY <1>10
      <4>1. m.registry[f.name].kind = "OBJECT"
        BY <1>3, <1>4 DEF LeafKind
      <4>. QED BY <1>4, <4>1, OutputUnique
    <3>4. n = LeafName(m1, f.class, f.input)
      BY <1>3, <1>11, <2>1
    <3>. QED BY <1>3, <3>1, <3>2, <3>3, <3>4 DEF EntryOK, ModelEntry
  <2>2. CASE n # f.name
    <3>0. EntryOK(m, n) /\ m1.registry[n] = m.registry[n]
      BY <1>8, <1>10, <2>2 DEF MapperInv
    <3>1. ASSUME NEW d \in DOMAIN Class, NEW input \in BOOLEAN, ModelEntry(m, n, d, input)
          PROVE  EntryOK(m1, n)
      <4>1. MapsAll(m, Class[d].fields, input, m.registry[n].fields)
            => MapsAll(m1, Class[d].fields, input, m1.registry[n].fields)
        BY <1>12, <3>0, MapsKept DEF MapsAll
      <4>2. ASSUME NEW i \in DOMAIN m.open, m.open[i].class = d, m.open[i].input = input
            PROVE  \E j \in DOMAIN m1.open : m1.open[j].class = d /\ m1.open[j].input = input
        <5>1. i # k
          <6>1. n = LeafName(m, d, input)
            BY <3>1 DEF ModelEntry
          <6>. QED BY <1>1, <1>3, <2>2, <4>2, <6>1
        <5>2. i \in 1 .. k - 1
          BY <1>1, <1>2, <5>1
        <5>. QED BY <1>1, <1>10, <4>2, <5>2
      <4>3. n = LeafName(m1, d, input)
        BY <1>11, <3>1 DEF ModelEntry
      <4>. QED BY <1>10, <3>0, <3>1, <4>1, <4>2, <4>3 DEF EntryOK, ModelEntry
    <3>. QED BY <1>10, <3>0, <3>1 DEF EntryOK, ScalarEntry, EnumEntry
  <2>. QED BY <2>1, <2>2
<1>14. ByIdOK(m1)
  BY <1>10, <1>11 DEF MapperInv, ByIdOK
<1>15. WalksOK(m1, calls)
  <2>1. WalksOK(m, calls)
    BY DEF MapperInv
  <2>2. ASSUME NEW i \in 1 .. k - 1 PROVE WalkOK(m1, calls, i)
    <3>1. i \in 1 .. k /\ i < k /\ i \in Nat /\ (i < k - 1 => i + 1 \in 1 .. k - 1)
      BY <1>1, <1>2
    <3>2. WalkOK(m, calls, i) /\ m1.open[i] = m.open[i]
      BY <1>1, <1>10, <2>1, <3>1 DEF WalksOK
    <3>3. /\ Len(m.open[i].mapped) < Len(m.open[i].items)
          /\ m.open[i].items[Len(m.open[i].mapped) + 1].type.leaf = m.open[i + 1].class
      BY <3>1, <3>2 DEF WalkOK, k
    <3>4. i < Len(m1.open) => m1.open[i + 1] = m.open[i + 1]
      BY <1>1, <1>10, <3>1
    <3>. QED BY <1>10, <1>12, <3>2, <3>3, <3>4, WalksKept
  <2>3. m.open # << >>
    OBVIOUS
  <2>. QED BY <1>1, <1>10, <2>1, <2>2, <2>3 DEF WalksOK
<1>16. AnswersOK(m1, calls)
  BY <1>10, <1>12, AnswersKept DEF MapperInv
<1>17. PhaseOK(m1, calls)
  <2>1. InputMet(m, calls) <=> InputMet(m1, calls)
    BY <1>2, <1>10 DEF InputMet
  <2>2. \A n \in DOMAIN m1.registry : n \in DOMAIN m.registry /\ m1.registry[n].kind = m.registry[n].kind
    BY <1>7, <1>8, <1>10
  <2>. QED BY <2>1, <2>2 DEF MapperInv, PhaseOK
<1>18. MapperInv(m1, calls)
  BY <1>10, <1>13, <1>14, <1>15, <1>16, <1>17 DEF MapperInv
<1>19. Top(m1) = m.open[k - 1]
  BY <1>1, <1>2, <1>10 DEF Top
<1>20. WalkOK(m, calls, k - 1)
  BY <1>1, <1>2 DEF MapperInv, WalksOK
<1>21. /\ Len(Top(m1).mapped) < Len(Top(m1).items) /\ Top(m1).input = f.input
       /\ Top(m1).items[Len(Top(m1).mapped) + 1].type.leaf = f.class
  <2>1. k - 1 < Len(m.open) /\ (k - 1) + 1 = k
    BY <1>2 DEF k
  <2>. QED BY <1>1, <1>19, <1>20, <2>1 DEF WalkOK
<1>22. HasItem(m1) /\ Current(m1).type.leaf = f.class
  BY <1>2, <1>10, <1>21 DEF HasItem, Current
<1>23. f.name = LeafName(m1, f.class, f.input) /\ Known(m1, f.class, f.input)
  BY <1>3, <1>11
<1>. QED BY <1>18, <1>21, <1>22, <1>23 DEF m1, f

LEMMA ReturnInv ==
  ASSUME NEW calls, GoodCalls(calls), NEW m, MapperInv(m, calls), m.open # << >>, ~HasItem(m)
  PROVE  MapperInv(Return(m), calls)
<1>1. CASE Top(m).class = None
  BY <1>1, CallAnsweredInv
<1>2. CASE Top(m).class # None
  <2> DEFINE f == Top(m)
             m1 == [m EXCEPT !.open = Front(m.open), !.registry[f.name].fields = f.mapped]
  <2>1. /\ MapperInv(m1, calls) /\ HasItem(m1) /\ Current(m1).type.leaf = f.class
        /\ Top(m1).input = f.input /\ f.name = LeafName(m1, f.class, f.input)
        /\ Known(m1, f.class, f.input)
    BY <1>2, CompletedInv
  <2>2. Return(m) = Answered(m1, f.name)
    BY <1>2 DEF Return
  <2>. HIDE DEF m1, f
  <2>3. MapperInv(Answered(m1, LeafName(m1, f.class, Top(m1).input)), calls)
    BY <2>1, AnsweredInv
  <2>. QED BY <2>1, <2>2, <2>3
<1>. QED BY <1>1, <1>2

-----------------------------------------------------------------------------
(* The steps of a mapper meet no class but those that cover its calls      *)

LEMMA AnsweredEnv ==
  ASSUME NEW calls, GoodCalls(calls), NEW m \in Mappers(calls), HasItem(m), NEW name \in TypeNames,
         NEW O, NEW I, EnvOK(m, O, I)
  PROVE  EnvOK(Answered(m, name), O, I)
<1> DEFINE m2 == Answered(m, name)
           k == Len(m.open)
<1>1. /\ m2.registry = m.registry /\ m2.byId = m.byId /\ DOMAIN m2.open = DOMAIN m.open
      /\ \A i \in DOMAIN m.open : i # k => m2.open[i] = m.open[i]
      /\ m2.open[k].items = Top(m).items /\ m2.open[k].input = Top(m).input
  BY AnsweredFacts
<1>2. Top(m) = m.open[k]
  BY DEF Top
<1>. HIDE DEF m2
<1>3. \A i \in DOMAIN m.open : m2.open[i].items = m.open[i].items /\ m2.open[i].input = m.open[i].input
  BY <1>1, <1>2
<1>4. EnvOK(m2, O, I)
  BY <1>1, <1>3 DEF EnvOK
<1>. QED BY <1>4 DEF m2

LEMMA BeginEnv ==
  ASSUME NEW calls, GoodCalls(calls), NEW m, MapperInv(m, calls), m.open = << >>, ~Ended(m, calls),
         NEW O, NEW I, Covers(calls, O, I), EnvOK(m, O, I)
  PROVE  EnvOK([m EXCEPT !.open = <<Walk(calls[Len(m.answers) + 1], None, None)>>], O, I)
<1> DEFINE call == calls[Len(m.answers) + 1]
           open == <<Walk(call, None, None)>>
           m2 == [m EXCEPT !.open = open]
<1>1. m \in Mappers(calls) /\ Len(m.answers) \in Nat /\ WalksOK(m, calls)
  BY MapperFacts DEF MapperInv
<1>2. Len(m.answers) + 1 \in DOMAIN calls
  <2> DEFINE S == [items : Seq(ItemsOf(calls)), input : BOOLEAN]
  <2>1. calls \in Seq(S)
    BY DEF GoodCalls
  <2>2. Len(m.answers) <= Len(calls) /\ Len(m.answers) # Len(calls)
    BY <1>1 DEF WalksOK, Ended
  <2>. HIDE DEF S
  <2>. QED BY <1>1, <2>1, <2>2
<1>3. /\ \A i \in DOMAIN open : open[i].items = call.items /\ open[i].input = call.input
  BY DEF Walk
<1>. HIDE DEF open
<1>4. m2.open = open /\ m2.registry = m.registry /\ m2.byId = m.byId
  BY <1>1 DEF Mappers
<1>5. \A j \in DOMAIN call.items : call.items[j].type.leaf \in Allowed(O, I, call.input)
  BY <1>2 DEF Covers
<1>. HIDE DEF call, m2
<1>6. EnvOK(m2, O, I)
  BY <1>3, <1>4, <1>5 DEF EnvOK
<1>. QED BY <1>6 DEF m2, open, call

LEMMA FailedEnv ==
  ASSUME NEW calls, NEW m \in Mappers(calls), NEW O, NEW I, EnvOK(m, O, I)
  PROVE  EnvOK(Failed(m), O, I)
<1>1. Failed(m).open = m.open /\ Failed(m).registry = m.registry /\ Failed(m).byId = m.byId
  BY DEF Failed, Mappers
<1>. QED BY <1>1 DEF EnvOK

LEMMA ScalarEnv ==
  ASSUME NEW calls, GoodCalls(calls), NEW m, MapperInv(m, calls), HasItem(m), NEW O, NEW I,
         EnvOK(m, O, I), NEW c, c = Current(m).type.leaf, Class[c].kind = "scalar"
  PROVE  EnvOK(RegisterScalar(m, c), O, I)
<1> DEFINE name == Class[c].name
           info == TypeInfo("SCALAR", None, << >>)
           R == IF name \in DOMAIN m.registry THEN m.registry ELSE Put(m.registry, name, info)
           m2 == [m EXCEPT !.registry = R]
<1>1. /\ c \in O \cup I /\ name \in TypeNames /\ m \in Mappers(calls)
      /\ m.registry \in Partial(TypeNames, Infos(calls)) /\ << >> \in Seq(MappedItems(calls))
  BY AtHand
<1>2. info \in Infos(calls) /\ info.kind = "SCALAR"
  <2>1. "SCALAR" \in TypeKinds
    BY DEF TypeKinds
  <2>. QED BY <1>1, <2>1, InfoType DEF TypeInfo
<1>3. R \in Partial(TypeNames, Infos(calls))
  BY <1>1, <1>2, PutFacts
<1>4. \A n \in DOMAIN R : (n \in DOMAIN m.registry /\ R[n] = m.registry[n]) \/ (n = name /\ R[n] = info)
  BY DEF Put
<1>5. RegisterScalar(m, c) = Answered(m2, name)
  BY DEF RegisterScalar
<1>. HIDE DEF R, info
<1>6. /\ m2 \in Mappers(calls) /\ m2.registry = R /\ m2.byId = m.byId /\ m2.open = m.open
  BY <1>1, <1>3 DEF Mappers
<1>. HIDE DEF m2
<1>7. \A n \in DOMAIN m2.registry :
        /\ m2.registry[n].kind = "INPUT_OBJECT" => m2.registry[n].class \in I
        /\ m2.registry[n].kind = "SCALAR" =>
             \E d \in O \cup I : Class[d].kind = "scalar" /\ Class[d].name = n
  BY <1>1, <1>2, <1>4, <1>6 DEF EnvOK
<1>8. EnvOK(m2, O, I)
  BY <1>6, <1>7 DEF EnvOK
<1>9. HasItem(m2)
  BY <1>6 DEF HasItem, Top
<1>. QED BY <1>1, <1>5, <1>6, <1>8, <1>9, AnsweredEnv

LEMMA EnumEnv ==
  ASSUME NEW calls, GoodCalls(calls), NEW m, MapperInv(m, calls), HasItem(m), NEW O, NEW I,
         EnvOK(m, O, I), NEW c, c = Current(m).type.leaf, Class[c].kind = "enum"
  PROVE  EnvOK(RegisterEnum(m, c), O, I)
<1> DEFINE name == Class[c].name
           info == TypeInfo("ENUM", c, << >>)
           R == Put(m.registry, name, info)
           B == Put(m.byId, c, name)
           m2 == [m EXCEPT !.byId = B, !.registry = R]
<1>1. /\ c \in O \cup I /\ c \in DOMAIN Class /\ name \in TypeNames /\ m \in Mappers(calls)
      /\ m.registry \in Partial(TypeNames, Infos(calls)) /\ << >> \in Seq(MappedItems(calls))
      /\ m.byId \in Partial(DOMAIN Class, TypeNames)
  BY AtHand
<1>2. CASE c \in DOMAIN m.byId
  <2>1. m.byId[c] \in TypeNames /\ RegisterEnum(m, c) = Answered(m, m.byId[c])
    BY <1>1, <1>2, PartialFacts DEF RegisterEnum
  <2>. QED BY <1>1, <2>1, AnsweredEnv
<1>3. CASE c \notin DOMAIN m.byId /\ name \in DOMAIN m.registry
  <2>1. RegisterEnum(m, c) = Failed(m)
    BY <1>3 DEF RegisterEnum
  <2>. QED BY <1>1, <2>1, FailedEnv
<1>4. CASE c \notin DOMAIN m.byId /\ name \notin DOMAIN m.registry
  <2>1. info \in Infos(calls) /\ info.kind = "ENUM"
    <3>1. "ENUM" \in TypeKinds
      BY DEF TypeKinds
    <3>. QED BY <1>1, <3>1, InfoType DEF TypeInfo
  <2>2. R \in Partial(TypeNames, Infos(calls))
    BY <1>1, <2>1, PutFacts
  <2>3. B \in Partial(DOMAIN Class, TypeNames)
    BY <1>1, PutFacts
  <2>4. \A n \in DOMAIN R : (n \in DOMAIN m.registry /\ R[n] = m.registry[n]) \/ (n = name /\ R[n] = info)
    BY DEF Put
  <2>5. \A d \in DOMAIN B : d \in DOMAIN m.byId \/ d = c
    BY DEF Put
  <2>6. RegisterEnum(m, c) = Answered(m2, name)
    BY <1>4 DEF RegisterEnum
  <2>. HIDE DEF R, B, info
  <2>7. /\ m2 \in Mappers(calls) /\ m2.registry = R /\ m2.byId = B /\ m2.open = m.open
    BY <1>1, <2>2, <2>3 DEF Mappers
  <2>. HIDE DEF m2
  <2>8. \A n \in DOMAIN m2.registry :
          /\ m2.registry[n].kind = "INPUT_OBJECT" => m2.registry[n].class \in I
          /\ m2.registry[n].kind = "SCALAR" =>
               \E d \in O \cup I : Class[d].kind = "scalar" /\ Class[d].name = n
    BY <2>1, <2>4, <2>7 DEF EnvOK
  <2>9. \A d \in DOMAIN m2.byId : d \in O \cup I /\ (Class[d].kind = "model" => d \in O)
    BY <1>1, <2>5, <2>7 DEF EnvOK
  <2>10. EnvOK(m2, O, I)
    BY <2>7, <2>8, <2>9 DEF EnvOK
  <2>11. HasItem(m2)
    BY <2>7 DEF HasItem, Top
  <2>. QED BY <1>1, <2>6, <2>7, <2>10, <2>11, AnsweredEnv
<1>. QED BY <1>2, <1>3, <1>4

LEMMA DefineEnv ==
  ASSUME NEW calls, GoodCalls(calls), NEW m \in Mappers(calls), NEW O, NEW I,
         Covers(calls, O, I), EnvOK(m, O, I), NEW input \in BOOLEAN, NEW c \in Allowed(O, I, input),
         Class[c].kind = "model", NEW name \in TypeNames
  PROVE  EnvOK(Define(m, c, name, input), O, I)
<1> DEFINE m2 == Define(m, c, name, input)
           k == Len(m.open)
           info == TypeInfo(LeafKind(c, input), c, << >>)
<1>1. c \in DOMAIN Class /\ k \in Nat /\ DOMAIN m.open = 1 .. k
  BY MapperFacts DEF Covers, Allowed
<1>2. /\ m2.registry = Put(m.registry, name, info)
      /\ m2.byId = IF input THEN m.byId ELSE Put(m.byId, c, name)
      /\ DOMAIN m2.open = 1 .. k + 1 /\ \A i \in DOMAIN m.open : m2.open[i] = m.open[i]
      /\ m2.open[k + 1] = [items |-> Class[c].fields, input |-> input, class |-> c,
                           name |-> name, mapped |-> << >>]
  BY <1>1, DefineFacts
<1>3. info.kind = LeafKind(c, input) /\ info.class = c
  BY DEF TypeInfo
<1>. HIDE DEF m2, info
<1>4. \A n \in DOMAIN m2.registry :
        (n \in DOMAIN m.registry /\ m2.registry[n] = m.registry[n]) \/ (n = name /\ m2.registry[n] = info)
  BY <1>2 DEF Put
<1>5. \A d \in DOMAIN m2.byId : d \in DOMAIN m.byId \/ (d = c /\ ~input)
  BY <1>2 DEF Put
<1>6. \A n \in DOMAIN m2.registry :
        /\ m2.registry[n].kind = "INPUT_OBJECT" => m2.registry[n].class \in I
        /\ m2.registry[n].kind = "SCALAR" =>
             \E d \in O \cup I : Class[d].kind = "scalar" /\ Class[d].name = n
  BY <1>3, <1>4 DEF EnvOK, LeafKind, Allowed
<1>7. \A d \in DOMAIN m2.byId : d \in O \cup I /\ (Class[d].kind = "model" => d \in O)
  BY <1>5 DEF EnvOK, Allowed
<1>8. \A i \in DOMAIN m2.open : \A j \in DOMAIN m2.open[i].items :
        m2.open[i].items[j].type.leaf \in Allowed(O, I, m2.open[i].input)
  <2>1. m2.open[k + 1].items = Class[c].fields /\ m2.open[k + 1].input = input
    BY <1>2
  <2>2. \A j \in DOMAIN Class[c].fields : Class[c].fields[j].type.leaf \in Allowed(O, I, input)
    BY DEF Covers
  <2>3. \A i \in 1 .. k + 1 : i \in 1 .. k \/ i = k + 1
    BY <1>1
  <2>. HIDE DEF k
  <2>. QED BY <1>1, <1>2, <2>1, <2>2, <2>3 DEF EnvOK, k
<1>9. EnvOK(m2, O, I)
  BY <1>6, <1>7, <1>8 DEF EnvOK
<1>. QED BY <1>9 DEF m2

LEMMA ModelEnv ==
  ASSUME NEW calls, GoodCalls(calls), NEW m, MapperInv(m, calls), HasItem(m), NEW O, NEW I,
         Covers(calls, O, I), EnvOK(m, O, I), NEW c, c = Current(m).type.leaf, Class[c].kind = "model"
  PROVE  EnvOK(IF Top(m).input THEN RegisterInputObject(m, c) ELSE RegisterObject(m, c), O, I)
<1> DEFINE name == Class[c].name
           known == {n \in DOMAIN m.registry :
                       m.registry[n].kind = "INPUT_OBJECT" /\ m.registry[n].class = c}
           returned == name \in DOMAIN m.registry
                       /\ m.registry[name].class = c /\ m.registry[name].kind = "OBJECT"
<1>1. /\ c \in Allowed(O, I, Top(m).input) /\ c \in DOMAIN Class /\ Top(m).input \in BOOLEAN
      /\ name \in TypeNames /\ InputName(c) \in TypeNames /\ m \in Mappers(calls)
      /\ m.registry \in Partial(TypeNames, Infos(calls)) /\ m.byId \in Partial(DOMAIN Class, TypeNames)
  BY AtHand
<1>2. EnvOK(Failed(m), O, I)
  BY <1>1, FailedEnv
<1>3. \A n \in TypeNames : EnvOK(Answered(m, n), O, I)
  BY <1>1, AnsweredEnv
<1>4. \A n \in TypeNames : EnvOK(Define(m, c, n, Top(m).input), O, I)
  BY <1>1, DefineEnv
<1>5. CASE Top(m).input
  <2>1. known \subseteq TypeNames
    BY <1>1, PartialFacts
  <2>2. known # {} => RegisterInputObject(m, c) = Answered(m, CHOOSE n \in known : TRUE)
    BY DEF RegisterInputObject
  <2>3. known = {} /\ ~returned /\ name \in DOMAIN m.registry => RegisterInputObject(m, c) = Failed(m)
    BY DEF RegisterInputObject
  <2>4. known = {} /\ ~(~returned /\ name \in DOMAIN m.registry)
        => RegisterInputObject(m, c) = Define(m, c, IF returned THEN InputName(c) ELSE name, TRUE)
    BY DEF RegisterInputObject
  <2>5. Top(m).input = TRUE
    BY <1>1, <1>5
  <2>. HIDE DEF known, returned
  <2>. QED BY <1>1, <1>2, <1>3, <1>4, <1>5, <2>1, <2>2, <2>3, <2>4, <2>5
<1>6. CASE ~Top(m).input
  <2>1. c \in DOMAIN m.byId => m.byId[c] \in TypeNames
    BY <1>1, PartialFacts
  <2>2. Top(m).input = FALSE
    BY <1>1, <1>6
  <2>3. \/ c \in DOMAIN m.byId /\ RegisterObject(m, c) = Answered(m, m.byId[c])
        \/ RegisterObject(m, c) = Failed(m) \/ RegisterObject(m, c) = Define(m, c, name, FALSE)
    BY DEF RegisterObject
  <2>. QED BY <1>1, <1>2, <1>3, <1>4, <1>6, <2>1, <2>2, <2>3
<1>. QED BY <1>5, <1>6

LEMMA ReturnEnv ==
  ASSUME NEW calls, GoodCalls(calls), NEW m, MapperInv(m, calls), m.open # << >>, ~HasItem(m),
         NEW O, NEW I, EnvOK(m, O, I)
  PROVE  EnvOK(Return(m), O, I)
<1> DEFINE f == Top(m)
           k == Len(m.open)
           open == Front(m.open)
<1>1. /\ m \in Mappers(calls) /\ k \in Nat \ {0} /\ DOMAIN m.open = 1 .. k /\ f \in Walks(calls)
      /\ DOMAIN open = 1 .. k - 1 /\ \A i \in 1 .. k - 1 : open[i] = m.open[i]
      /\ WalkOK(m, calls, k) /\ f = m.open[k] /\ (f.class = None <=> k = 1)
  BY ReturnFacts
<1>2. \A i \in DOMAIN open : i \in DOMAIN m.open /\ open[i] = m.open[i]
  <2>1. \A i \in 1 .. k - 1 : i \in 1 .. k
    BY <1>1
  <2>. HIDE DEF open, k
  <2>. QED BY <1>1, <2>1
<1>. HIDE DEF open, f, k
<1>3. CASE f.class = None
  <2> DEFINE A == Append(m.answers, f.mapped)
             m2 == Return(m)
  <2>1. m2 = [m EXCEPT !.open = open, !.answers = A]
    BY <1>1, <1>3 DEF Return, f, open, Mappers
  <2>. HIDE DEF m2, A
  <2>2. m2.open = open /\ m2.registry = m.registry /\ m2.byId = m.byId
    BY <1>1, <2>1 DEF Mappers
  <2>3. EnvOK(m2, O, I)
    BY <1>2, <2>2 DEF EnvOK
  <2>. QED BY <2>3 DEF m2
<1>4. CASE f.class # None
  <2> DEFINE m1 == [m EXCEPT !.open = Front(m.open), !.registry[f.name].fields = f.mapped]
             info == [m.registry[f.name] EXCEPT !.fields = f.mapped]
             R == [m.registry EXCEPT ![f.name] = info]
  <2>1. MapperInv(m1, calls) /\ HasItem(m1) /\ f.name = LeafName(m1, f.class, f.input)
    BY <1>4, CompletedInv DEF f
  <2>2. Return(m) = Answered(m1, f.name)
    BY <1>4 DEF Return, f
  <2>3. f.name \in TypeNames
    BY <1>1, <1>4, WalkFacts, <2>1 DEF LeafName, TypeNames, NamesOf
  <2>4. m1 = [m EXCEPT !.open = open, !.registry = R]
    BY <1>1 DEF Mappers, open
  <2>5. f.name \in DOMAIN m.registry
    BY <1>1, <1>4 DEF WalkOK, Known
  <2>6. m.registry[f.name] \in Infos(calls)
    BY <1>1, <2>5, PartialFacts, MapperFacts
  <2>7. info.kind = m.registry[f.name].kind /\ info.class = m.registry[f.name].class
    BY <2>6 DEF Infos
  <2>8. DOMAIN R = DOMAIN m.registry
        /\ \A n \in DOMAIN m.registry : R[n].kind = m.registry[n].kind /\ R[n].class = m.registry[n].class
    <3>. HIDE DEF info
    <3>. QED BY <2>7
  <2>. HIDE DEF m1, R, info
  <2>9. m1.open = open /\ m1.registry = R /\ m1.byId = m.byId
    BY <1>1, <2>4 DEF Mappers
  <2>10. EnvOK(m1, O, I)
    BY <1>2, <2>8, <2>9 DEF EnvOK
  <2>11. m1 \in Mappers(calls)
    BY <2>1 DEF MapperInv
  <2>. QED BY <2>1, <2>2, <2>3, <2>10, <2>11, AnsweredEnv
<1>. QED BY <1>3, <1>4

-----------------------------------------------------------------------------
(* A mapper after its calls                                                *)

LEMMA MapLeafCases ==
  ASSUME NEW calls, GoodCalls(calls), NEW m, MapperInv(m, calls), HasItem(m)
  PROVE  LET c == Current(m).type.leaf
         IN \/ Class[c].kind \in {"entity", "unsupported"} /\ MapLeaf(m) = Failed(m)
            \/ Class[c].kind = "scalar" /\ MapLeaf(m) = RegisterScalar(m, c)
            \/ Class[c].kind = "enum" /\ MapLeaf(m) = RegisterEnum(m, c)
            \/ /\ Class[c].kind = "model"
               /\ MapLeaf(m) = IF Top(m).input THEN RegisterInputObject(m, c) ELSE RegisterObject(m, c)
<1> DEFINE c == Current(m).type.leaf
<1>1. Class[c].kind \in {"model", "enum", "scalar", "entity", "unsupported"}
  BY CurrentFacts DEF MapperInv, GoodCalls, ClassKinds
<1>. QED BY <1>1 DEF MapLeaf

LEMMA StepInv ==
  ASSUME NEW calls, GoodCalls(calls), NEW m, MapperInv(m, calls), NEW O, NEW I,
         EnvOK(m, O, I), Apart(O, I)
  PROVE  MapperInv(MapStep(m, calls), calls) \/ MapStep(m, calls).failed
<1>1. CASE m.failed \/ Ended(m, calls)
  BY <1>1 DEF MapStep, Ended
<1>2. CASE ~m.failed /\ m.open = << >> /\ ~Ended(m, calls)
  <2>1. MapStep(m, calls) = [m EXCEPT !.open = <<Walk(calls[Len(m.answers) + 1], None, None)>>]
    BY <1>2 DEF MapStep
  <2>. QED BY <1>2, <2>1, BeginInv
<1>3. CASE ~m.failed /\ m.open # << >>
  <2>0. ~Ended(m, calls)
    BY <1>3 DEF Ended
  <2>1. CASE HasItem(m)
    <3>1. MapStep(m, calls) = MapLeaf(m)
      BY <1>3, <2>0, <2>1 DEF MapStep, HasItem
    <3>2. m \in Mappers(calls)
      BY DEF MapperInv
    <3>3. Failed(m).failed
      BY <3>2 DEF Failed, Mappers
    <3> DEFINE c == Current(m).type.leaf
    <3>4. Class[c].kind = "scalar" => MapperInv(RegisterScalar(m, c), calls)
      BY <2>1, ScalarInv
    <3>5. Class[c].kind = "enum" => MapperInv(RegisterEnum(m, c), calls) \/ RegisterEnum(m, c).failed
      BY <2>1, EnumInv
    <3>6. Class[c].kind = "model" /\ ~Top(m).input
          => MapperInv(RegisterObject(m, c), calls) \/ RegisterObject(m, c).failed
      BY <2>1, ObjectInv
    <3>7. Class[c].kind = "model" /\ Top(m).input
          => MapperInv(RegisterInputObject(m, c), calls) \/ RegisterInputObject(m, c).failed
      BY <2>1, InputObjectInv
    <3>8. MapperInv(MapLeaf(m), calls) \/ MapLeaf(m).failed
      <4>1. \/ Class[c].kind \in {"entity", "unsupported"} /\ MapLeaf(m) = Failed(m)
            \/ Class[c].kind = "scalar" /\ MapLeaf(m) = RegisterScalar(m, c)
            \/ Class[c].kind = "enum" /\ MapLeaf(m) = RegisterEnum(m, c)
            \/ /\ Class[c].kind = "model"
               /\ MapLeaf(m) = IF Top(m).input THEN RegisterInputObject(m, c) ELSE RegisterObject(m, c)
        BY <2>1, MapLeafCases
      <4>. HIDE DEF c
      <4>. QED BY <3>3, <3>4, <3>5, <3>6, <3>7, <4>1
    <3>. QED BY <3>1, <3>8
  <2>2. CASE ~HasItem(m)
    <3>1. MapStep(m, calls) = Return(m)
      BY <1>3, <2>0, <2>2 DEF MapStep, HasItem
    <3>. QED BY <1>3, <2>2, <3>1, ReturnInv
  <2>. QED BY <2>1, <2>2
<1>. QED BY <1>1, <1>2, <1>3

LEMMA StepEnv ==
  ASSUME NEW calls, GoodCalls(calls), NEW m, MapperInv(m, calls), NEW O, NEW I,
         EnvOK(m, O, I), Covers(calls, O, I)
  PROVE  EnvOK(MapStep(m, calls), O, I)
<1>1. CASE m.failed \/ Ended(m, calls)
  BY <1>1 DEF MapStep, Ended
<1>2. CASE ~m.failed /\ m.open = << >> /\ ~Ended(m, calls)
  <2>1. MapStep(m, calls) = [m EXCEPT !.open = <<Walk(calls[Len(m.answers) + 1], None, None)>>]
    BY <1>2 DEF MapStep
  <2>. QED BY <1>2, <2>1, BeginEnv
<1>3. CASE ~m.failed /\ m.open # << >>
  <2>0. ~Ended(m, calls)
    BY <1>3 DEF Ended
  <2>1. CASE HasItem(m)
    <3>1. MapStep(m, calls) = MapLeaf(m)
      BY <1>3, <2>0, <2>1 DEF MapStep, HasItem
    <3>2. m \in Mappers(calls)
      BY DEF MapperInv
    <3>3. EnvOK(Failed(m), O, I)
      BY <3>2, FailedEnv
    <3> DEFINE c == Current(m).type.leaf
    <3>4. Class[c].kind = "scalar" => EnvOK(RegisterScalar(m, c), O, I)
      BY <2>1, ScalarEnv
    <3>5. Class[c].kind = "enum" => EnvOK(RegisterEnum(m, c), O, I)
      BY <2>1, EnumEnv
    <3>6. Class[c].kind = "model"
          => EnvOK(IF Top(m).input THEN RegisterInputObject(m, c) ELSE RegisterObject(m, c), O, I)
      BY <2>1, ModelEnv
    <3>7. EnvOK(MapLeaf(m), O, I)
      <4>1. \/ Class[c].kind \in {"entity", "unsupported"} /\ MapLeaf(m) = Failed(m)
            \/ Class[c].kind = "scalar" /\ MapLeaf(m) = RegisterScalar(m, c)
            \/ Class[c].kind = "enum" /\ MapLeaf(m) = RegisterEnum(m, c)
            \/ /\ Class[c].kind = "model"
               /\ MapLeaf(m) = IF Top(m).input THEN RegisterInputObject(m, c) ELSE RegisterObject(m, c)
        BY <2>1, MapLeafCases
      <4>. HIDE DEF c
      <4>. QED BY <3>3, <3>4, <3>5, <3>6, <4>1
    <3>. QED BY <3>1, <3>7
  <2>2. CASE ~HasItem(m)
    <3>1. MapStep(m, calls) = Return(m)
      BY <1>3, <2>0, <2>2 DEF MapStep, HasItem
    <3>. QED BY <1>3, <2>2, <3>1, ReturnEnv
  <2>. QED BY <2>1, <2>2
<1>. QED BY <1>1, <1>2, <1>3

MapRun(calls, n, f) ==
  f = [k \in 0 .. n |-> IF k = 0 THEN EmptyMapper ELSE MapStep(f[k - 1], calls)]

\* Mapped is given by its steps.
LEMMA MappedRun ==
  ASSUME NEW calls, MaxSteps \in Nat
  PROVE  \E f : /\ Mapped(calls) = f[MaxSteps] /\ f[0] = EmptyMapper
                /\ \A k \in 1 .. MaxSteps : f[k] = MapStep(f[k - 1], calls)
<1> DEFINE Bad == {n \in Nat : ~\E f : MapRun(calls, n, f)}
<1>1. Bad = {}
  <2> SUFFICES ASSUME Bad # {} PROVE FALSE
    OBVIOUS
  <2>1. PICK n \in Bad : \A k \in Bad : n <= k
    <3>1. Bad \subseteq Nat /\ Bad # {}
      OBVIOUS
    <3>. QED BY <3>1, LeastNat
  <2>2. CASE n = 0
    <3>1. MapRun(calls, 0, [i \in 0 .. 0 |-> EmptyMapper])
      BY DEF MapRun
    <3>. QED BY <2>1, <2>2, <3>1
  <2>3. CASE n # 0
    <3>1. n - 1 \in Nat /\ n - 1 \notin Bad /\ n \in Nat
      BY <2>1, <2>3
    <3>2. PICK f : MapRun(calls, n - 1, f)
      BY <3>1
    <3> DEFINE g == [i \in 0 .. n |-> IF i = n THEN MapStep(f[n - 1], calls) ELSE f[i]]
    <3>3. \A i \in 0 .. n - 1 : g[i] = f[i]
      BY <3>1
    <3>4. \A i \in 0 .. n - 1 : f[i] = IF i = 0 THEN EmptyMapper ELSE MapStep(f[i - 1], calls)
      BY <3>1, <3>2 DEF MapRun
    <3>5. \A i \in 0 .. n : g[i] = IF i = 0 THEN EmptyMapper ELSE MapStep(g[i - 1], calls)
      <4> TAKE i \in 0 .. n
      <4>1. CASE i = n
        BY <4>1, <3>1, <3>3, <2>3
      <4>2. CASE i # n
        <5>1. i \in 0 .. n - 1 /\ (i # 0 => i - 1 \in 0 .. n - 1)
          BY <4>2, <3>1
        <5>. QED BY <5>1, <3>3, <3>4
      <4>. QED BY <4>1, <4>2
    <3>6. MapRun(calls, n, g)
      BY <3>5 DEF MapRun
    <3>. QED BY <2>1, <3>6
  <2>. QED BY <2>2, <2>3
<1>2. PICK f : MapRun(calls, MaxSteps, f)
  BY <1>1
<1> DEFINE h == CHOOSE g : g = [k \in 0 .. MaxSteps |->
                                  IF k = 0 THEN EmptyMapper ELSE MapStep(g[k - 1], calls)]
<1>3. MapRun(calls, MaxSteps, h)
  BY <1>2 DEF MapRun
<1>4. Mapped(calls) = h[MaxSteps]
  BY DEF Mapped
<1>. HIDE DEF h
<1>5. h[0] = EmptyMapper /\ \A k \in 1 .. MaxSteps : h[k] = MapStep(h[k - 1], calls)
  BY <1>3 DEF MapRun
<1>. QED BY <1>4, <1>5

\* What holds of a mapper before its first step.
LEMMA EmptyInv ==
  ASSUME NEW calls, GoodCalls(calls)
  PROVE  /\ MapperInv(EmptyMapper, calls) /\ ~EmptyMapper.failed
         /\ \A O, I : EnvOK(EmptyMapper, O, I)
<1> DEFINE m == EmptyMapper
<1>1. /\ m.registry = << >> /\ m.byId = << >> /\ m.answers = << >> /\ m.open = << >> /\ m.failed = FALSE
  BY DEF EmptyMapper
<1>2. << >> \in Partial(TypeNames, Infos(calls)) /\ << >> \in Partial(DOMAIN Class, TypeNames)
  <2>1. \A A, B : << >> \in Partial(A, B)
    <3> TAKE A, B
    <3>1. << >> = [x \in {} |-> x] /\ [x \in {} |-> x] \in [{} -> B]
      OBVIOUS
    <3>. QED BY <3>1 DEF Partial
  <2>. QED BY <2>1
<1>3. m \in Mappers(calls)
  BY <1>2 DEF EmptyMapper, Mappers
<1>4. DOMAIN m.registry = {} /\ DOMAIN m.byId = {} /\ DOMAIN m.open = {} /\ DOMAIN m.answers = {}
      /\ Len(m.answers) = 0
  BY <1>1
<1>5. Len(m.answers) <= Len(calls)
  <2> DEFINE S == [items : Seq(ItemsOf(calls)), input : BOOLEAN]
  <2>1. calls \in Seq(S)
    BY DEF GoodCalls
  <2>. HIDE DEF S
  <2>. QED BY <1>4, <2>1
<1>6. ByIdOK(m) /\ WalksOK(m, calls) /\ AnswersOK(m, calls) /\ PhaseOK(m, calls)
  BY <1>1, <1>4, <1>5 DEF ByIdOK, WalksOK, AnswersOK, PhaseOK
<1>7. MapperInv(m, calls)
  BY <1>3, <1>4, <1>6 DEF MapperInv
<1>8. \A O, I : EnvOK(m, O, I)
  BY <1>4 DEF EnvOK
<1>. QED BY <1>1, <1>7, <1>8

Tight(m, calls) == \A O, I : Covers(calls, O, I) => EnvOK(m, O, I)

\* A mapper that has not failed is in order after every step, and has met no
\* class but those that cover its calls.
LEMMA MappedInv ==
  ASSUME NEW calls, GoodCalls(calls), MaxSteps \in Nat, NEW O, NEW I, Covers(calls, O, I), Apart(O, I)
  PROVE  ~Mapped(calls).failed => MapperInv(Mapped(calls), calls) /\ Tight(Mapped(calls), calls)
<1>1. PICK f : /\ Mapped(calls) = f[MaxSteps] /\ f[0] = EmptyMapper
               /\ \A k \in 1 .. MaxSteps : f[k] = MapStep(f[k - 1], calls)
  BY MappedRun
<1> DEFINE OK(k) == ~f[k].failed => MapperInv(f[k], calls) /\ Tight(f[k], calls)
           Bad == {k \in 0 .. MaxSteps : ~OK(k)}
<1>2. Bad = {}
  <2> SUFFICES ASSUME Bad # {} PROVE FALSE
    OBVIOUS
  <2>1. PICK k \in Bad : \A j \in Bad : k <= j
    <3>1. Bad \subseteq Nat /\ Bad # {}
      OBVIOUS
    <3>. HIDE DEF Bad
    <3>. QED BY <3>1, LeastNat
  <2>2. k # 0
    BY <1>1, <2>1, EmptyInv DEF Tight
  <2>3. k \in 1 .. MaxSteps /\ k - 1 \in 0 .. MaxSteps /\ k - 1 \notin Bad
    BY <2>1, <2>2
  <2>4. f[k] = MapStep(f[k - 1], calls) /\ OK(k - 1) /\ ~OK(k)
    BY <1>1, <2>1, <2>3
  <2>5. f[k - 1].failed => f[k] = f[k - 1]
    BY <2>4 DEF MapStep, Ended
  <2>6. ~f[k - 1].failed
    BY <2>4, <2>5
  <2>7. MapperInv(f[k - 1], calls) /\ Tight(f[k - 1], calls)
    BY <2>4, <2>6
  <2>8. MapperInv(f[k], calls) \/ f[k].failed
    BY <2>4, <2>7, StepInv DEF Tight
  <2>9. Tight(f[k], calls)
    BY <2>4, <2>7, StepEnv DEF Tight
  <2>. QED BY <2>4, <2>8, <2>9
<1>3. MaxSteps \in 0 .. MaxSteps
  OBVIOUS
<1>4. OK(MaxSteps)
  BY <1>2, <1>3
<1>. QED BY <1>1, <1>4

-----------------------------------------------------------------------------
(* The calls an application makes                                          *)

AppOK(app) ==
  /\ app.services \in Seq(Range(app.services))
  /\ \A s \in Range(app.services) :
       /\ s.methods \in Seq(Range(s.methods))
       /\ \A m \in Range(s.methods) :
            /\ m.kind \in MethodKinds /\ (m.returns = NoReturn \/ AnnotationOf(m.returns))
            /\ m.params \in Seq(Range(m.params))
            /\ \A k \in DOMAIN m.params : AnnotationOf(m.params[k].type)

MetaSet(app) ==
  UNION {{[service |-> s.name, method |-> m] : m \in {x \in Range(s.methods) : ~Hidden(app, x)}} :
         s \in Range(app.services)}

LEMMA AppsOK ==
  ASSUME NEW a \in DOMAIN App, UseCaseServicesAssumption, ComposeAssumption
  PROVE  AppOK(App[a])
<1>1. /\ App[a].services \in Seq(Range(App[a].services))
      /\ \A s \in Range(App[a].services) :
           /\ s.methods \in Seq(Range(s.methods))
           /\ \A m \in Range(s.methods) : m.params \in Seq(Range(m.params))
  BY DEF ComposeAssumption
<1>2. \A i \in DOMAIN App[a].services : \A m \in Range(App[a].services[i].methods) :
         /\ m.kind \in {"query", "mutation"}
         /\ m.returns = NoReturn \/ AnnotationOf(m.returns)
         /\ \A k \in DOMAIN m.params : AnnotationOf(m.params[k].type)
  BY DEF UseCaseServicesAssumption
<1>3. \A s \in Range(App[a].services) : \E i \in DOMAIN App[a].services : s = App[a].services[i]
  BY DEF Range
<1>. QED BY <1>1, <1>2, <1>3 DEF AppOK, MethodKinds

LEMMA MetasFacts ==
  ASSUME NEW app, AppOK(app)
  PROVE  /\ MethodMetas(app) \in Seq(MetaSet(app)) /\ Range(MethodMetas(app)) = MetaSet(app)
         /\ \A meta \in MetaSet(app) :
              /\ meta.service \in Range(ServiceNames(app)) /\ meta.method.kind \in MethodKinds
              /\ meta.method.returns = NoReturn \/ AnnotationOf(meta.method.returns)
              /\ meta.method.params \in Seq(Range(meta.method.params))
              /\ \A k \in DOMAIN meta.method.params : AnnotationOf(meta.method.params[k].type)
<1> DEFINE n == Len(app.services)
           ss == [i \in DOMAIN app.services |-> MetasOf(app, app.services[i])]
<1>1. n \in Nat /\ DOMAIN app.services = 1 .. n
  BY DEF AppOK
<1>2. \A i \in 1 .. n : app.services[i] \in Range(app.services)
  BY <1>1 DEF Range
<1>3. ASSUME NEW s \in Range(app.services)
      PROVE  /\ MetasOf(app, s) \in Seq(MetaSet(app))
             /\ Range(MetasOf(app, s))
                = {[service |-> s.name, method |-> m] : m \in {x \in Range(s.methods) : ~Hidden(app, x)}}
  <2> DEFINE I == {j \in DOMAIN s.methods : ~Hidden(app, s.methods[j])}
             p == Shown(app, s)
             ms == {x \in Range(s.methods) : ~Hidden(app, x)}
  <2>1. s.methods \in Seq(Range(s.methods)) /\ I \in SUBSET DOMAIN s.methods
    BY DEF AppOK
  <2>2. p = Pick(s.methods, I)
    BY DEF Shown
  <2>3. p \in Seq(Range(s.methods)) /\ Range(p) = {s.methods[i] : i \in I}
    <3> DEFINE S == Range(s.methods)
               q == s.methods
    <3>1. q \in Seq(S) /\ I \in SUBSET DOMAIN q
      BY <2>1
    <3>. HIDE DEF S, q, I
    <3>2. Pick(q, I) \in Seq(S) /\ Range(Pick(q, I)) = {q[i] : i \in I}
      BY <3>1, PickIsSubsequence, PickMembers
    <3>. QED BY <2>2, <3>2 DEF S, q
  <2>4. {s.methods[i] : i \in I} = ms
    BY DEF Range
  <2>. HIDE DEF p, I, ms
  <2>5. MetasOf(app, s) = [j \in DOMAIN p |-> [service |-> s.name, method |-> p[j]]]
    BY DEF MetasOf, p
  <2>6. Range(MetasOf(app, s)) = {[service |-> s.name, method |-> m] : m \in ms}
    <3>1. Range(p) = ms
      BY <2>3, <2>4
    <3>2. Range(MetasOf(app, s)) = {[service |-> s.name, method |-> p[j]] : j \in DOMAIN p}
      BY <2>5 DEF Range
    <3>3. Range(p) = {p[j] : j \in DOMAIN p}
      BY DEF Range
    <3>. QED BY <3>1, <3>2, <3>3
  <2>7. {[service |-> s.name, method |-> m] : m \in ms} \subseteq MetaSet(app)
    BY DEF MetaSet, ms
  <2>8. \A j \in DOMAIN p : MetasOf(app, s)[j] \in MetaSet(app)
    BY <2>5, <2>6, <2>7 DEF Range
  <2>9. DOMAIN p = 1 .. Len(p) /\ Len(p) \in Nat
    BY <2>3
  <2>10. MetasOf(app, s) \in Seq(MetaSet(app))
    <3> DEFINE g == MetasOf(app, s)
    <3>1. DOMAIN g = 1 .. Len(p) /\ g = [j \in 1 .. Len(p) |-> g[j]]
      BY <2>5, <2>9
    <3>2. g \in [1 .. Len(p) -> MetaSet(app)]
      BY <2>8, <2>9, <3>1
    <3>. QED BY <2>9, <3>2
  <2>. QED BY <2>6, <2>10 DEF ms
<1>4. \A i \in 1 .. n : ss[i] \in Seq(MetaSet(app))
  BY <1>1, <1>2, <1>3
<1>5. MethodMetas(app) = Concat(ss, n)
  BY DEF MethodMetas
<1>6. UNION {Range(ss[i]) : i \in 1 .. n} = MetaSet(app)
  <2>1. \A s \in Range(app.services) : \E i \in 1 .. n : s = app.services[i]
    BY <1>1 DEF Range
  <2>2. \A i \in 1 .. n : Range(ss[i]) = {[service |-> app.services[i].name, method |-> m] :
                              m \in {x \in Range(app.services[i].methods) : ~Hidden(app, x)}}
    BY <1>1, <1>2, <1>3
  <2>. HIDE DEF ss, n
  <2>3. \A x \in MetaSet(app) : \E i \in 1 .. n : x \in Range(ss[i])
    BY <2>1, <2>2 DEF MetaSet
  <2>4. \A i \in 1 .. n : \A x \in Range(ss[i]) : x \in MetaSet(app)
    BY <1>2, <2>2 DEF MetaSet
  <2>. QED BY <2>3, <2>4
<1>. HIDE DEF ss, n
<1>7. MethodMetas(app) \in Seq(MetaSet(app)) /\ Range(MethodMetas(app)) = MetaSet(app)
  <2>1. n \in Nat
    BY <1>1 DEF n
  <2> DEFINE T == MetaSet(app)
  <2>2. \A i \in 1 .. n : ss[i] \in Seq(T)
    BY <1>4
  <2>. HIDE DEF T
  <2>3. Concat(ss, n) \in Seq(T) /\ Range(Concat(ss, n)) = UNION {Range(ss[i]) : i \in 1 .. n}
    BY <2>1, <2>2, ConcatType, ConcatMembers
  <2>. QED BY <1>5, <1>6, <2>3 DEF T
<1>8. ASSUME NEW meta \in MetaSet(app)
      PROVE  /\ meta.service \in Range(ServiceNames(app)) /\ meta.method.kind \in MethodKinds
             /\ meta.method.returns = NoReturn \/ AnnotationOf(meta.method.returns)
             /\ meta.method.params \in Seq(Range(meta.method.params))
             /\ \A k \in DOMAIN meta.method.params : AnnotationOf(meta.method.params[k].type)
  <2>1. PICK s \in Range(app.services) : \E m \in Range(s.methods) :
          meta = [service |-> s.name, method |-> m]
    BY DEF MetaSet
  <2>2. PICK m \in Range(s.methods) : meta = [service |-> s.name, method |-> m]
    BY <2>1
  <2>3. s.name \in Range(ServiceNames(app))
    BY DEF Range, ServiceNames
  <2>4. meta.service = s.name /\ meta.method = m
    BY <2>2
  <2>. QED BY <2>3, <2>4 DEF AppOK
<1>. QED BY <1>7, <1>8

MetaOK(meta) ==
  /\ AnnotationOf(meta.method.returns) /\ meta.method.params \in Seq(Range(meta.method.params))
  /\ \A k \in DOMAIN meta.method.params : AnnotationOf(meta.method.params[k].type)

LEMMA PublicFacts ==
  ASSUME NEW meta, MetaOK(meta)
  PROVE  /\ Public(meta.method) \in Seq(Range(Public(meta.method)))
         /\ Len(Public(meta.method)) \in Nat
         /\ DOMAIN Public(meta.method) = 1 .. Len(Public(meta.method))
         /\ \A k \in DOMAIN Public(meta.method) : AnnotationOf(Public(meta.method)[k].type)
<1> DEFINE q == meta.method.params
           I == {k \in DOMAIN q : ~q[k].ctx}
           S == Range(q)
           p == Public(meta.method)
<1>1. q \in Seq(S) /\ I \in SUBSET DOMAIN q /\ \A k \in DOMAIN q : AnnotationOf(q[k].type)
  BY DEF MetaOK
<1>2. p = Pick(q, I)
  BY DEF Public
<1>. HIDE DEF S, q, I, p
<1>3. p \in Seq(S) /\ \A k \in DOMAIN p : Nth(I, k) \in I /\ p[k] = q[Nth(I, k)]
  BY <1>1, <1>2, PickIsSubsequence
<1>4. Len(p) \in Nat /\ DOMAIN p = 1 .. Len(p)
  BY <1>3
<1>5. \A k \in DOMAIN p : AnnotationOf(p[k].type)
  BY <1>1, <1>3
<1>6. p \in [1 .. Len(p) -> Range(p)]
  BY <1>3, <1>4 DEF Range
<1>7. p \in Seq(Range(p))
  BY <1>4, <1>6
<1>. QED BY <1>4, <1>5, <1>7 DEF p

Halves(s, r, q, n) ==
  /\ Len(s) = n + n /\ DOMAIN s = 1 .. n + n
  /\ \A i \in 1 .. n : s[i] = r[i] /\ s[n + i] = q[i]

LEMMA TwoHalves ==
  ASSUME NEW U, NEW r \in Seq(U), NEW q \in Seq(U), NEW n \in Nat, Len(r) = n, Len(q) = n
  PROVE  r \o q \in Seq(U) /\ Halves(r \o q, r, q, n)
<1>1. r \o q \in Seq(U) /\ Len(r \o q) = n + n
  OBVIOUS
<1>2. DOMAIN (r \o q) = 1 .. n + n
  BY <1>1
<1>3. ASSUME NEW i \in 1 .. n PROVE (r \o q)[i] = r[i] /\ (r \o q)[n + i] = q[i]
  <2>1. i \in 1 .. n + n /\ n + i \in 1 .. n + n /\ ~(n + i <= n) /\ i <= n /\ (n + i) - n = i
    OBVIOUS
  <2>2. (r \o q)[i] = r[i]
    BY <2>1
  <2>3. (r \o q)[n + i] = q[i]
    BY <2>1
  <2>. QED BY <2>2, <2>3
<1>. QED BY <1>1, <1>2, <1>3 DEF Halves

LEMMA CallsFacts ==
  ASSUME NEW T, NEW metas \in Seq(T)
  PROVE  LET n == Len(metas)
             calls == MethodCalls(metas)
         IN /\ n \in Nat /\ DOMAIN metas = 1 .. n /\ Len(calls) = n + n /\ DOMAIN calls = 1 .. n + n
            /\ \A i \in 1 .. n : calls[i] = ReturnCall(metas[i]) /\ calls[n + i] = ArgumentsCall(metas[i])
            /\ \A i \in 1 .. n + n : i \in 1 .. n \/ \E j \in 1 .. n : i = n + j
            /\ \A i \in 1 .. n + n : calls[i].input <=> ~(i <= n)
            /\ calls \in Seq(Range(calls))
<1> DEFINE n == Len(metas)
           calls == MethodCalls(metas)
           rs == [i \in DOMAIN metas |-> ReturnCall(metas[i])]
           as == [i \in DOMAIN metas |-> ArgumentsCall(metas[i])]
           U == Range(rs) \cup Range(as)
<1>1. n \in Nat /\ DOMAIN metas = 1 .. n
  OBVIOUS
<1>2. rs \in Seq(U) /\ as \in Seq(U) /\ Len(rs) = n /\ Len(as) = n
  <2>1. rs \in [1 .. n -> U] /\ as \in [1 .. n -> U]
    BY <1>1 DEF Range
  <2>. HIDE DEF U, rs, as, n
  <2>2. \A f \in [1 .. n -> U] : f \in Seq(U) /\ Len(f) = n
    BY <1>1
  <2>. QED BY <2>1, <2>2
<1>3. calls = rs \o as
  BY DEF MethodCalls
<1>4. \A i \in 1 .. n : rs[i] = ReturnCall(metas[i]) /\ as[i] = ArgumentsCall(metas[i])
  BY <1>1
<1>. HIDE DEF calls, rs, as, U, n
<1>5. /\ calls \in Seq(U) /\ Len(calls) = n + n /\ DOMAIN calls = 1 .. n + n
      /\ \A i \in 1 .. n : calls[i] = rs[i] /\ calls[n + i] = as[i]
  <2>1. n \in Nat
    BY <1>1 DEF n
  <2>2. rs \o as \in Seq(U) /\ Halves(rs \o as, rs, as, n)
    BY <1>2, <2>1, TwoHalves
  <2>. QED BY <1>3, <2>2 DEF Halves
<1>6. \A i \in 1 .. n + n : i \in 1 .. n \/ \E j \in 1 .. n : i = n + j
  <2> SUFFICES ASSUME NEW i \in 1 .. n + n, ~(i \in 1 .. n) PROVE \E j \in 1 .. n : i = n + j
    OBVIOUS
  <2>1. i - n \in 1 .. n /\ i = n + (i - n)
    BY <1>1
  <2>. QED BY <2>1
<1>7. \A i \in 1 .. n : calls[i].input = FALSE /\ calls[n + i].input = TRUE
  <2> TAKE i \in 1 .. n
  <2>1. ReturnCall(metas[i]).input = FALSE
    BY DEF ReturnCall, Call
  <2>2. ArgumentsCall(metas[i]).input = TRUE
    BY DEF ArgumentsCall, Call
  <2>. QED BY <1>4, <1>5, <2>1, <2>2
<1>8. \A i \in 1 .. n + n : calls[i].input <=> ~(i <= n)
  <2> TAKE i \in 1 .. n + n
  <2>1. CASE i \in 1 .. n
    BY <1>1, <1>7, <2>1
  <2>2. CASE \E j \in 1 .. n : i = n + j
    <3>1. PICK j \in 1 .. n : i = n + j
      BY <2>2
    <3>. QED BY <1>1, <1>7, <3>1
  <2>. QED BY <1>6, <2>1, <2>2
<1>9. calls \in [1 .. n + n -> Range(calls)] /\ n + n \in Nat
  BY <1>1, <1>5 DEF Range
<1>10. calls \in Seq(Range(calls))
  BY <1>9
<1>. QED BY <1>1, <1>4, <1>5, <1>6, <1>8, <1>10 DEF n, calls

LEMMA MethodCallsGood ==
  ASSUME NEW T, NEW metas \in Seq(T), \A i \in DOMAIN metas : MetaOK(metas[i]),
         UseCaseServicesAssumption, ComposeAssumption
  PROVE  GoodCalls(MethodCalls(metas))
<1> DEFINE n == Len(metas)
           calls == MethodCalls(metas)
<1>1. /\ n \in Nat /\ DOMAIN metas = 1 .. n /\ DOMAIN calls = 1 .. n + n
      /\ \A i \in 1 .. n : calls[i] = ReturnCall(metas[i]) /\ calls[n + i] = ArgumentsCall(metas[i])
      /\ \A i \in 1 .. n + n : i \in 1 .. n \/ \E j \in 1 .. n : i = n + j
      /\ \A i \in 1 .. n + n : calls[i].input <=> ~(i <= n)
      /\ calls \in Seq(Range(calls))
  BY CallsFacts
<1>. HIDE DEF calls, n
<1>2. ASSUME NEW i \in 1 .. n + n
      PROVE  /\ calls[i] \in [items : Seq(Range(calls[i].items)), input : BOOLEAN]
             /\ \A x \in Range(calls[i].items) : x.type.leaf \in DOMAIN Class
  <2>1. CASE i \in 1 .. n
    <3>1. calls[i] = [items |-> <<[name |-> metas[i].method.name, type |-> metas[i].method.returns]>>,
                      input |-> FALSE]
      BY <1>1, <2>1 DEF ReturnCall, Call
    <3> DEFINE x == [name |-> metas[i].method.name, type |-> metas[i].method.returns]
    <3>2. x.type.leaf \in DOMAIN Class
      BY <1>1, <2>1 DEF MetaOK, AnnotationOf
    <3>. HIDE DEF x
    <3>3. Range(<<x>>) = {x} /\ <<x>> \in Seq({x})
      BY DEF Range
    <3>. QED BY <3>1, <3>2, <3>3 DEF x
  <2>2. CASE \E j \in 1 .. n : i = n + j
    <3>1. PICK j \in 1 .. n : i = n + j
      BY <2>2
    <3>2. MetaOK(metas[j])
      BY <1>1
    <3> DEFINE p == Public(metas[j].method)
    <3>3. calls[i] = [items |-> p, input |-> TRUE]
      BY <1>1, <3>1 DEF ArgumentsCall, Call
    <3>4. p \in Seq(Range(p)) /\ \A k \in DOMAIN p : AnnotationOf(p[k].type)
      BY <3>2, PublicFacts
    <3>. HIDE DEF p
    <3>. QED BY <3>3, <3>4 DEF Range, AnnotationOf
  <2>. QED BY <1>1, <2>1, <2>2
<1>3. \A i \in DOMAIN calls : Range(calls[i].items) \subseteq ItemsOf(calls)
  BY DEF ItemsOf
<1>4. calls \in Seq([items : Seq(ItemsOf(calls)), input : BOOLEAN])
  <2> DEFINE S == [items : Seq(ItemsOf(calls)), input : BOOLEAN]
  <2>1. ASSUME NEW i \in 1 .. n + n PROVE calls[i] \in S
    <3>1. calls[i] \in [items : Seq(Range(calls[i].items)), input : BOOLEAN]
      BY <1>2
    <3>2. calls[i].items \in Seq(ItemsOf(calls))
      <4> DEFINE A == Range(calls[i].items)
                 B == ItemsOf(calls)
                 q == calls[i].items
      <4>1. q \in Seq(A) /\ A \subseteq B
        BY <1>1, <1>3, <3>1
      <4>. HIDE DEF A, B, q
      <4>2. q \in Seq(B)
        BY <4>1
      <4>. QED BY <4>2 DEF B, q
    <3>. QED BY <3>1, <3>2
  <2>. HIDE DEF S
  <2>2. calls \in [1 .. n + n -> S] /\ n + n \in Nat
    BY <1>1, <2>1
  <2>3. calls \in Seq(S)
    BY <2>2
  <2>. QED BY <2>3 DEF S
<1>5. ASSUME NEW c \in DOMAIN Class
      PROVE  /\ Class[c].fields \in Seq(ItemsOf(calls)) /\ Class[c].kind \in ClassKinds
             /\ \A x \in Range(Class[c].fields) : x.type.leaf \in DOMAIN Class
  <2> DEFINE A == Range(Class[c].fields)
             B == ItemsOf(calls)
             q == Class[c].fields
  <2>0. q \in Seq(A)
    BY DEF ComposeAssumption
  <2>a. A \in {Range(Class[d].fields) : d \in DOMAIN Class}
    OBVIOUS
  <2>1. q \in Seq(A) /\ A \subseteq B
    <3> SUFFICES ASSUME NEW x \in A PROVE x \in UNION {Range(Class[d].fields) : d \in DOMAIN Class}
      BY <2>0 DEF ItemsOf
    <3>. HIDE DEF A, q
    <3>. QED BY <2>a
  <2>2. Class[c].kind \in ClassKinds /\ \A i \in DOMAIN q : AnnotationOf(q[i].type)
    BY DEF UseCaseServicesAssumption
  <2>3. \A x \in A : x.type.leaf \in DOMAIN Class
    BY <2>2 DEF Range, AnnotationOf
  <2>. HIDE DEF A, B, q
  <2>4. q \in Seq(B)
    BY <2>1
  <2>. QED BY <2>2, <2>3, <2>4 DEF A, B, q
<1>6. \A x \in ItemsOf(calls) : x.type.leaf \in DOMAIN Class
  <2> TAKE x \in ItemsOf(calls)
  <2>1. CASE \E i \in DOMAIN calls : x \in Range(calls[i].items)
    BY <1>1, <1>2, <2>1
  <2>2. CASE \E c \in DOMAIN Class : x \in Range(Class[c].fields)
    BY <1>5, <2>2
  <2>3. \/ \E i \in DOMAIN calls : x \in Range(calls[i].items)
        \/ \E c \in DOMAIN Class : x \in Range(Class[c].fields)
    <3>1. CASE x \in UNION {Range(calls[i].items) : i \in DOMAIN calls}
      BY <3>1
    <3>2. CASE x \in UNION {Range(Class[c].fields) : c \in DOMAIN Class}
      BY <3>2
    <3>. QED BY <3>1, <3>2 DEF ItemsOf
  <2>. QED BY <2>1, <2>2, <2>3
<1>7. \A i, j \in DOMAIN calls : i <= j /\ calls[i].input => calls[j].input
  BY <1>1
<1>8. None \notin DOMAIN Class
  BY DEF ComposeAssumption
<1>. QED BY <1>4, <1>5, <1>6, <1>7, <1>8 DEF GoodCalls, calls

\* What covers calls covers the same calls in another order.
LEMMA CoversRange ==
  ASSUME NEW calls, NEW calls2, NEW O, NEW I, Covers(calls, O, I), Range(calls2) \subseteq Range(calls)
  PROVE  Covers(calls2, O, I)
<1>1. \A i \in DOMAIN calls2 : \E k \in DOMAIN calls : calls2[i] = calls[k]
  BY DEF Range
<1>. QED BY <1>1 DEF Covers

LEMMA CallsRange ==
  ASSUME NEW T, NEW metas \in Seq(T), NEW metas2 \in Seq(T), Range(metas2) = Range(metas)
  PROVE  Range(MethodCalls(metas2)) \subseteq Range(MethodCalls(metas))
<1> DEFINE n == Len(metas)
           k == Len(metas2)
           calls == MethodCalls(metas)
           calls2 == MethodCalls(metas2)
<1>1. /\ n \in Nat /\ DOMAIN metas = 1 .. n /\ DOMAIN calls = 1 .. n + n
      /\ \A i \in 1 .. n : calls[i] = ReturnCall(metas[i]) /\ calls[n + i] = ArgumentsCall(metas[i])
  BY CallsFacts
<1>2. /\ k \in Nat /\ DOMAIN metas2 = 1 .. k /\ DOMAIN calls2 = 1 .. k + k
      /\ \A i \in 1 .. k : calls2[i] = ReturnCall(metas2[i]) /\ calls2[k + i] = ArgumentsCall(metas2[i])
      /\ \A i \in 1 .. k + k : i \in 1 .. k \/ \E j \in 1 .. k : i = k + j
  BY CallsFacts
<1>. HIDE DEF calls, calls2, n, k
<1>3. ASSUME NEW j \in 1 .. k
      PROVE  ReturnCall(metas2[j]) \in Range(calls) /\ ArgumentsCall(metas2[j]) \in Range(calls)
  <2>1. PICK i \in 1 .. n : metas2[j] = metas[i]
    <3>1. metas2[j] \in Range(metas2)
      BY <1>2 DEF Range
    <3>2. metas2[j] \in Range(metas)
      BY <3>1
    <3>. QED BY <1>1, <3>2 DEF Range
  <2>2. i \in 1 .. n + n /\ n + i \in 1 .. n + n
    BY <1>1
  <2>. QED BY <1>1, <2>1, <2>2 DEF Range
<1>4. \A i \in 1 .. k + k : calls2[i] \in Range(calls)
  BY <1>2, <1>3
<1>5. Range(calls2) \subseteq Range(calls)
  BY <1>2, <1>4 DEF Range
<1>. QED BY <1>5 DEF calls, calls2

\* The classes an application reaches cover its calls.
LEMMA ReachedCovers ==
  ASSUME NEW app, UseCaseServicesAssumption, ComposeAssumption,
         GoodCalls(MethodCalls(MethodMetas(app)))
  PROVE  Covers(MethodCalls(MethodMetas(app)), Reached(app, FALSE), Reached(app, TRUE))
<1> DEFINE calls == MethodCalls(MethodMetas(app))
           D == DOMAIN Class
           start(input) == LeavesOf(calls, input) \cap D
           R(input) == Reached(app, input)
<1>1. IsFiniteSet(D) /\ ClassLeaves \in [D -> SUBSET D]
  <2>1. \A c \in D : \A i \in DOMAIN Class[c].fields : Class[c].fields[i].type.leaf \in D
    BY DEF UseCaseServicesAssumption, AnnotationOf
  <2>. QED BY <2>1 DEF ComposeAssumption, ClassLeaves
<1>2. ASSUME NEW input \in BOOLEAN
      PROVE  /\ start(input) \subseteq R(input) /\ R(input) \subseteq D
             /\ \A c \in R(input) : ClassLeaves[c] \subseteq R(input)
  <2>1. start(input) \in SUBSET D /\ R(input) = Spread(ClassLeaves, start(input))
    BY DEF Reached
  <2>. HIDE DEF start, R, D
  <2>. QED BY <1>1, <2>1, SpreadClosed
<1>3. \A input \in BOOLEAN : Allowed(R(FALSE), R(TRUE), input) = R(input)
  BY DEF Allowed
<1>4. ASSUME NEW i \in DOMAIN calls, NEW j \in DOMAIN calls[i].items
      PROVE  calls[i].items[j].type.leaf \in R(calls[i].input) /\ calls[i].input \in BOOLEAN
  <2>1. calls[i] \in [items : Seq(ItemsOf(calls)), input : BOOLEAN]
    <3> DEFINE S == [items : Seq(ItemsOf(calls)), input : BOOLEAN]
    <3>1. calls \in Seq(S)
      BY DEF GoodCalls
    <3>. HIDE DEF S
    <3>2. calls[i] \in S
      BY <3>1
    <3>. QED BY <3>2 DEF S
  <2>2. calls[i].items[j] \in ItemsOf(calls)
    BY <2>1
  <2>3. calls[i].items[j].type.leaf \in D
    BY <2>2 DEF GoodCalls
  <2>4. calls[i].items[j].type.leaf \in LeavesOf(calls, calls[i].input)
    <3>1. calls[i] \in {c \in Range(calls) : c.input = calls[i].input}
      BY DEF Range
    <3>2. calls[i].items[j] \in Range(calls[i].items)
      BY DEF Range
    <3>. HIDE DEF calls
    <3>. QED BY <3>1, <3>2 DEF LeavesOf
  <2>. QED BY <1>2, <2>1, <2>3, <2>4
<1>5. \A input \in BOOLEAN : \A c \in R(input) : \A j \in DOMAIN Class[c].fields :
        Class[c].fields[j].type.leaf \in R(input)
  BY <1>2 DEF ClassLeaves
<1>. HIDE DEF R, calls
<1>6. Covers(calls, R(FALSE), R(TRUE))
  <2>1. R(FALSE) \subseteq DOMAIN Class /\ R(TRUE) \subseteq DOMAIN Class
    BY <1>2
  <2>2. \A i \in DOMAIN calls : \A j \in DOMAIN calls[i].items :
          calls[i].items[j].type.leaf \in Allowed(R(FALSE), R(TRUE), calls[i].input)
    BY <1>3, <1>4
  <2>3. \A input \in BOOLEAN : \A c \in Allowed(R(FALSE), R(TRUE), input) :
          \A j \in DOMAIN Class[c].fields :
            Class[c].fields[j].type.leaf \in Allowed(R(FALSE), R(TRUE), input)
    <3> TAKE input \in BOOLEAN
    <3>1. Allowed(R(FALSE), R(TRUE), input) = R(input)
      BY <1>3
    <3>. QED BY <1>5, <3>1
  <2>. QED BY <2>1, <2>2, <2>3 DEF Covers
<1>. QED BY <1>6 DEF R, calls

LEMMA NamesApartApart ==
  ASSUME NEW app, NamesApart(app)
  PROVE  Apart(Reached(app, FALSE), Reached(app, TRUE))
<1> DEFINE O == Reached(app, FALSE)
           I == Reached(app, TRUE)
           renamed == {InputName(c) : c \in {d \in O \cap I : Class[d].kind = "model"}}
<1>1. /\ \A c, d \in O \cup I :
           Class[c].kind = "scalar" /\ Class[d].name = Class[c].name => Class[d].kind = "scalar"
      /\ renamed \cap NamesOf(O \cup I) = {}
      /\ \A c, d \in O \cup I : InputName(c) = InputName(d) => Class[c].name = Class[d].name
  BY DEF NamesApart
<1>. HIDE DEF O, I
<1>2. \A c \in O \cap I, d \in O \cup I : Class[c].kind = "model" => InputName(c) # Class[d].name
  BY <1>1 DEF NamesOf
<1>3. Apart(O, I)
  BY <1>1, <1>2 DEF Apart
<1>. QED BY <1>3 DEF O, I

-----------------------------------------------------------------------------
(* The fields the methods of an application become                         *)

\* What a method's field is, by the names its classes have.
FieldFor(e, meta) ==
  LET params == Public(meta.method)
  IN [name |-> meta.method.name, ref |-> RefTo(e, meta.method.returns, FALSE),
      args |-> [j \in 1 .. Len(params) |->
                  [name |-> params[j].name, ref |-> RefTo(e, params[j].type, TRUE)]]]
MetaKnown(e, meta) ==
  /\ Known(e, meta.method.returns.leaf, FALSE)
  /\ \A j \in DOMAIN Public(meta.method) : Known(e, Public(meta.method)[j].type.leaf, TRUE)

LEMMA RegisteredFields ==
  ASSUME NEW T, NEW metas \in Seq(T), \A i \in DOMAIN metas : MetaOK(metas[i]),
         NEW e, e = Mapped(MethodCalls(metas)), ~e.failed, Ended(e, MethodCalls(metas)),
         MapperInv(e, MethodCalls(metas))
  PROVE  LET done == RegisterMethods(metas)
         IN /\ done.failed = FALSE /\ done.registry = e.registry
            /\ \A i \in DOMAIN metas : MethodField(metas, done, i) = FieldFor(e, metas[i])
                                       /\ MetaKnown(e, metas[i])
<1> DEFINE n == Len(metas)
           calls == MethodCalls(metas)
           done == RegisterMethods(metas)
<1>1. /\ n \in Nat /\ DOMAIN metas = 1 .. n /\ DOMAIN calls = 1 .. n + n /\ Len(calls) = n + n
      /\ \A i \in 1 .. n : calls[i] = ReturnCall(metas[i]) /\ calls[n + i] = ArgumentsCall(metas[i])
  BY CallsFacts
<1>2. done = [failed |-> FALSE, registry |-> e.registry,
              returns |-> [i \in DOMAIN metas |-> e.answers[i][1].ref],
              args |-> [i \in DOMAIN metas |-> e.answers[Len(metas) + i]]]
  BY DEF RegisterMethods, Registered
<1>3. e.answers \in Seq(Seq(MappedItems(calls))) /\ Len(e.answers) = n + n
  BY <1>1, MapperFacts DEF MapperInv, Ended
<1>. HIDE DEF calls, done
<1>4. DOMAIN e.answers = 1 .. n + n /\ \A i \in 1 .. n + n :
        e.answers[i] \in Seq(MappedItems(calls)) /\ MapsAll(e, calls[i].items, calls[i].input, e.answers[i])
  <2> DEFINE S == Seq(MappedItems(calls))
             A == e.answers
             L == n + n
  <2>1. A \in Seq(S) /\ Len(A) = L /\ L \in Nat
    BY <1>1, <1>3
  <2>. HIDE DEF S, A, L
  <2>2. DOMAIN A = 1 .. L /\ \A i \in 1 .. L : A[i] \in S
    BY <2>1
  <2>. QED BY <2>2 DEF S, A, L, MapperInv, AnswersOK, calls
<1>5. ASSUME NEW i \in 1 .. n
      PROVE  /\ e.answers[i][1].ref = RefTo(e, metas[i].method.returns, FALSE)
             /\ Known(e, metas[i].method.returns.leaf, FALSE)
  <2> DEFINE x == [name |-> metas[i].method.name, type |-> metas[i].method.returns]
  <2>1. calls[i].items = <<x>> /\ calls[i].input = FALSE
    <3>1. calls[i] = [items |-> <<x>>, input |-> FALSE]
      BY <1>1 DEF ReturnCall, Call
    <3>. HIDE DEF x
    <3>. QED BY <3>1
  <2>2. i \in 1 .. n + n
    BY <1>1
  <2>3. MapsAll(e, <<x>>, FALSE, e.answers[i])
    BY <1>4, <2>1, <2>2
  <2>4. x.type = metas[i].method.returns /\ <<x>>[1] = x /\ Len(<<x>>) = 1
    OBVIOUS
  <2>. HIDE DEF x
  <2>5. Maps(e, <<x>>, FALSE, e.answers[i], 1)
    <3>1. Maps(e, <<x>>, FALSE, e.answers[i], Len(<<x>>))
      BY <2>3 DEF MapsAll
    <3>2. Len(<<x>>) = 1
      OBVIOUS
    <3>. QED BY <3>1, <3>2
  <2>6. e.answers[i][1] = [name |-> x.name, ref |-> RefTo(e, x.type, FALSE)] /\ Known(e, x.type.leaf, FALSE)
    <3>1. 1 \in 1 .. 1
      OBVIOUS
    <3>. QED BY <2>4, <2>5, <3>1 DEF Maps
  <2>7. e.answers[i][1].ref = RefTo(e, x.type, FALSE)
    BY <2>6
  <2>. QED BY <2>4, <2>6, <2>7
<1>6. ASSUME NEW i \in 1 .. n
      PROVE  /\ e.answers[n + i] = [j \in 1 .. Len(Public(metas[i].method)) |->
                  [name |-> Public(metas[i].method)[j].name,
                   ref |-> RefTo(e, Public(metas[i].method)[j].type, TRUE)]]
             /\ \A j \in DOMAIN Public(metas[i].method) : Known(e, Public(metas[i].method)[j].type.leaf, TRUE)
  <2> DEFINE p == Public(metas[i].method)
             s == e.answers[n + i]
  <2>1. calls[n + i].items = p /\ calls[n + i].input = TRUE
    <3>1. calls[n + i] = [items |-> p, input |-> TRUE]
      BY <1>1 DEF ArgumentsCall, Call
    <3>. HIDE DEF p
    <3>. QED BY <3>1
  <2>2. n + i \in 1 .. n + n
    BY <1>1
  <2>3. MapsAll(e, p, TRUE, s) /\ s \in Seq(MappedItems(calls))
    BY <1>4, <2>1, <2>2
  <2>4. Len(p) \in Nat /\ DOMAIN p = 1 .. Len(p)
    BY <1>1, PublicFacts
  <2>. HIDE DEF p, s
  <2>5. Len(s) = Len(p)
        /\ \A j \in 1 .. Len(p) : s[j] = [name |-> p[j].name, ref |-> RefTo(e, p[j].type, TRUE)]
                                  /\ Known(e, p[j].type.leaf, TRUE)
    BY <2>3 DEF MapsAll, Maps
  <2>6. s = [j \in 1 .. Len(p) |-> s[j]]
    BY <2>3, <2>5
  <2>7. s = [j \in 1 .. Len(p) |-> [name |-> p[j].name, ref |-> RefTo(e, p[j].type, TRUE)]]
    BY <2>5, <2>6
  <2>. QED BY <2>4, <2>5, <2>7 DEF p, s
<1>7. ASSUME NEW i \in DOMAIN metas
      PROVE  MethodField(metas, done, i) = FieldFor(e, metas[i]) /\ MetaKnown(e, metas[i])
  <2>1. done.returns[i] = e.answers[i][1].ref /\ done.args[i] = e.answers[n + i]
    BY <1>2
  <2>. QED BY <1>1, <1>5, <1>6, <2>1 DEF MethodField, FieldFor, MetaKnown
<1>8. done.failed = FALSE /\ done.registry = e.registry
  BY <1>2
<1>. QED BY <1>7, <1>8 DEF done

-----------------------------------------------------------------------------
(* The types that serve methods                                            *)

IsObject(info, fields) ==
  info = TypeInfo("OBJECT", None, info.fields) /\ Range(info.fields) = fields
FieldSet(e, app, s, kind) ==
  {FieldFor(e, meta) : meta \in {x \in MetaSet(app) : x.service = s /\ x.method.kind = kind}}
ServedBy(app, kind) ==
  {s \in Range(ServiceNames(app)) : \E x \in MetaSet(app) : x.service = s /\ x.method.kind = kind}
RootFields(app, kind) == {RootField(s, kind) : s \in ServedBy(app, kind)}

LEMMA ServiceFieldsFacts ==
  ASSUME NEW app, AppOK(app), NEW done, NEW e,
         \A i \in DOMAIN MethodMetas(app) :
           MethodField(MethodMetas(app), done, i) = FieldFor(e, MethodMetas(app)[i]),
         NEW s, NEW kind
  PROVE  /\ Range(ServiceFields(MethodMetas(app), done, s, kind)) = FieldSet(e, app, s, kind)
         /\ ServiceFields(MethodMetas(app), done, s, kind) # << >>
            <=> \E x \in MetaSet(app) : x.service = s /\ x.method.kind = kind
<1> DEFINE metas == MethodMetas(app)
           n == Len(metas)
           q == [i \in DOMAIN metas |-> MethodField(metas, done, i)]
           I == {i \in DOMAIN metas : metas[i].service = s /\ metas[i].method.kind = kind}
           p == ServiceFields(metas, done, s, kind)
           S == {FieldFor(e, metas[i]) : i \in DOMAIN metas}
           X == {x \in MetaSet(app) : x.service = s /\ x.method.kind = kind}
<1>1. metas \in Seq(MetaSet(app)) /\ Range(metas) = MetaSet(app)
  BY MetasFacts
<1>2. n \in Nat /\ DOMAIN metas = 1 .. n /\ DOMAIN q = DOMAIN metas
      /\ \A i \in DOMAIN metas : q[i] = FieldFor(e, metas[i]) /\ q[i] \in S
  BY <1>1
<1>3. p = Pick(q, I) /\ I \in SUBSET DOMAIN q
  BY <1>2 DEF ServiceFields
<1>a. \A i \in DOMAIN metas : metas[i] \in MetaSet(app)
  BY <1>1, <1>2
<1>b. \A x \in MetaSet(app) : \E i \in DOMAIN metas : metas[i] = x
  BY <1>1 DEF Range
<1>4. \A i \in I : i \in DOMAIN metas /\ metas[i] \in X
  BY <1>a
<1>5. \A x \in X : \E i \in I : metas[i] = x
  <2> TAKE x \in X
  <2>1. PICK i \in DOMAIN metas : metas[i] = x
    BY <1>b
  <2>2. i \in I
    BY <2>1
  <2>. QED BY <2>1, <2>2
<1>6. FieldSet(e, app, s, kind) = {FieldFor(e, x) : x \in X}
  BY DEF FieldSet
<1>. HIDE DEF metas, n, I, p, S, X
<1>7. q \in Seq(S)
  <2>1. q \in [1 .. n -> S]
    BY <1>2
  <2>. HIDE DEF q
  <2>. QED BY <1>2, <2>1
<1>. HIDE DEF q
<1>8. /\ Range(Pick(q, I)) = {q[i] : i \in I}
      /\ Cardinality(I) \in Nat /\ DOMAIN Pick(q, I) = 1 .. Cardinality(I)
      /\ \A k \in DOMAIN Pick(q, I) : Nth(I, k) \in I
      /\ \A i \in I : \E k \in DOMAIN Pick(q, I) : Nth(I, k) = i
  BY <1>3, <1>7, PickIsSubsequence, PickMembers
<1>9. {q[i] : i \in I} = {FieldFor(e, x) : x \in X}
  BY <1>2, <1>4, <1>5
<1>10. p # << >> <=> I # {}
  <2>1. p # << >> <=> DOMAIN Pick(q, I) # {}
    <3>1. Pick(q, I) = [k \in 1 .. Cardinality(I) |-> q[Nth(I, k)]]
      BY DEF Pick
    <3>2. Pick(q, I) \in Seq(S)
      BY <1>3, <1>7, PickIsSubsequence
    <3>. QED BY <1>3, <1>8, <3>2
  <2>. QED BY <1>8, <2>1
<1>11. I # {} <=> \E x \in MetaSet(app) : x.service = s /\ x.method.kind = kind
  BY <1>4, <1>5 DEF X
<1>. QED BY <1>3, <1>6, <1>8, <1>9, <1>10, <1>11 DEF metas, p

\* The type of a service and kind is known by its name, and is not a root.
LEMMA ServiceTypesApart ==
  ASSUME NEW app, NamesApart(app)
  PROVE  /\ \A s, t \in Range(ServiceNames(app)) : \A k, l \in MethodKinds :
              TypeOf(s, k) = TypeOf(t, l) => s = t /\ k = l
         /\ \A s \in Range(ServiceNames(app)) : \A k \in MethodKinds :
              TypeOf(s, k) \in ServiceTypes(app) /\ TypeOf(s, k) \notin Operations
         /\ \A k \in MethodKinds : Suffix(k) \in Operations
         /\ Suffix("query") = "Query" /\ Suffix("mutation") = "Mutation"
<1>1. \A s \in Range(ServiceNames(app)) : \A k \in MethodKinds : TypeOf(s, k) \in ServiceTypes(app)
  BY DEF ServiceTypes
<1>2. /\ ServiceTypes(app) \cap Operations = {}
      /\ \A s, t \in Range(ServiceNames(app)) : \A k, l \in MethodKinds :
           TypeOf(s, k) = TypeOf(t, l) => s = t /\ k = l
  BY DEF NamesApart
<1>. QED BY <1>1, <1>2 DEF Suffix, Operations

\* A registry with the types of one kind of methods and their root.
Mounts(M, registry, e, app, kind) ==
  LET V == ServedBy(app, kind)
      rooted == kind = "query" \/ V # {}
  IN /\ \A n : n \in DOMAIN M <=> \/ n \in DOMAIN registry
                                  \/ \E s \in V : n = TypeOf(s, kind)
                                  \/ rooted /\ n = Suffix(kind)
     /\ \A s \in V : IsObject(M[TypeOf(s, kind)], FieldSet(e, app, s, kind))
     /\ rooted => IsObject(M[Suffix(kind)], RootFields(app, kind))
     /\ \A n \in DOMAIN registry :
          (\A s \in V : n # TypeOf(s, kind)) /\ n # Suffix(kind) => M[n] = registry[n]

LEMMA MountFacts ==
  ASSUME NEW app, AppOK(app), NamesApart(app), NEW done, NEW e,
         \A i \in DOMAIN MethodMetas(app) :
           MethodField(MethodMetas(app), done, i) = FieldFor(e, MethodMetas(app)[i]),
         NEW registry, NEW kind \in MethodKinds
  PROVE  Mounts(Mount(registry, app, MethodMetas(app), done, kind), registry, e, app, kind)
<1> DEFINE metas == MethodMetas(app)
           V == ServedBy(app, kind)
           rooted == kind = "query" \/ V # {}
           M == Mount(registry, app, metas, done, kind)
           names == ServiceNames(app)
           fields(s) == ServiceFields(metas, done, s, kind)
           I == {i \in DOMAIN names : fields(names[i]) # << >>}
           served == Pick(names, I)
           types == [n \in {TypeOf(s, kind) : s \in Range(served)} |->
                       TypeInfo("OBJECT", None, fields(CHOOSE s \in Range(served) : TypeOf(s, kind) = n))]
           rfields == [i \in DOMAIN served |-> RootField(served[i], kind)]
           root == TypeInfo("OBJECT", None, rfields)
           reg == IF kind = "query" \/ served # << >> THEN Put(registry, Suffix(kind), root) ELSE registry
<1>1. M = [n \in DOMAIN reg \cup DOMAIN types |-> IF n \in DOMAIN types THEN types[n] ELSE reg[n]]
  BY DEF Mount
<1>2. \A s : Range(fields(s)) = FieldSet(e, app, s, kind)
             /\ (fields(s) # << >> <=> \E x \in MetaSet(app) : x.service = s /\ x.method.kind = kind)
  BY ServiceFieldsFacts
<1>3. V \subseteq Range(names) /\ \A s \in Range(names) : s \in V <=> fields(s) # << >>
  BY <1>2 DEF ServedBy
<1>. HIDE DEF M, V, fields
<1>4. names \in Seq(Range(names)) /\ I \in SUBSET DOMAIN names
  <2> DEFINE n == Len(app.services)
  <2>1. n \in Nat /\ DOMAIN app.services = 1 .. n
    BY DEF AppOK
  <2>2. DOMAIN names = 1 .. n
    BY <2>1 DEF ServiceNames
  <2>. HIDE DEF names, n
  <2>3. names \in [1 .. n -> Range(names)]
    <3>1. names = [i \in 1 .. n |-> names[i]]
      BY <2>1, <2>2 DEF ServiceNames, names
    <3>. QED BY <2>2, <3>1 DEF Range
  <2>4. names \in Seq(Range(names))
    BY <2>1, <2>3
  <2>. QED BY <2>4
<1>5. Range(served) = V /\ (served # << >> <=> V # {}) /\ served \in Seq(Range(names))
  <2> DEFINE S == Range(names)
  <2>1. names \in Seq(S) /\ I \in SUBSET DOMAIN names
    BY <1>4
  <2>2. {names[i] : i \in I} = V
    BY <1>3 DEF Range
  <2>. HIDE DEF S, I, names
  <2>3. /\ Range(Pick(names, I)) = {names[i] : i \in I} /\ Pick(names, I) \in Seq(S)
        /\ Cardinality(I) \in Nat /\ DOMAIN Pick(names, I) = 1 .. Cardinality(I)
    BY <2>1, PickIsSubsequence, PickMembers
  <2>4. served \in Seq(S) /\ Range(served) = V
    BY <2>2, <2>3
  <2>. HIDE DEF served
  <2>5. served # << >> <=> Range(served) # {}
    <3>1. served # << >> => 1 \in DOMAIN served
      BY <2>4
    <3>2. served = << >> => DOMAIN served = {}
      OBVIOUS
    <3>. QED BY <3>1, <3>2 DEF Range
  <2>. QED BY <2>4, <2>5 DEF S
<1>. HIDE DEF served, I, names
<1>6. /\ \A s, t \in V : TypeOf(s, kind) = TypeOf(t, kind) => s = t
      /\ \A s \in V : TypeOf(s, kind) # Suffix(kind)
  BY <1>3, ServiceTypesApart DEF names
<1>7. DOMAIN types = {TypeOf(s, kind) : s \in V}
      /\ \A s \in V : types[TypeOf(s, kind)] = TypeInfo("OBJECT", None, fields(s))
  <2>1. DOMAIN types = {TypeOf(s, kind) : s \in V}
    BY <1>5
  <2>2. ASSUME NEW s \in V PROVE types[TypeOf(s, kind)] = TypeInfo("OBJECT", None, fields(s))
    <3>1. (CHOOSE t \in Range(served) : TypeOf(t, kind) = TypeOf(s, kind)) = s
      BY <1>5, <1>6
    <3>. QED BY <2>1, <3>1
  <2>. QED BY <2>1, <2>2
<1>8. Range(rfields) = RootFields(app, kind)
  <2>1. Range(rfields) = {RootField(s, kind) : s \in Range(served)}
    BY DEF Range
  <2>. QED BY <1>5, <2>1 DEF RootFields, V
<1>. HIDE DEF types, rfields
<1>9. IsObject(root, RootFields(app, kind))
  BY <1>8 DEF IsObject, TypeInfo
<1>10. \A s \in V : IsObject(types[TypeOf(s, kind)], FieldSet(e, app, s, kind))
  <2> TAKE s \in V
  <2>1. types[TypeOf(s, kind)] = TypeInfo("OBJECT", None, fields(s)) /\ Range(fields(s)) = FieldSet(e, app, s, kind)
    BY <1>2, <1>7
  <2> DEFINE t == types[TypeOf(s, kind)]
             q == fields(s)
  <2>. HIDE DEF t, q, types
  <2>2. t = TypeInfo("OBJECT", None, q) /\ Range(q) = FieldSet(e, app, s, kind)
    BY <2>1 DEF t, q
  <2>3. t.fields = q
    BY <2>2 DEF TypeInfo
  <2>4. IsObject(t, FieldSet(e, app, s, kind))
    BY <2>2, <2>3 DEF IsObject
  <2>. QED BY <2>4 DEF t
<1>. HIDE DEF root
<1>11. /\ DOMAIN reg = DOMAIN registry \cup (IF rooted THEN {Suffix(kind)} ELSE {})
       /\ rooted => reg[Suffix(kind)] = root
       /\ \A n \in DOMAIN registry : n # Suffix(kind) => reg[n] = registry[n]
  BY <1>5 DEF Put
<1>. HIDE DEF reg
<1>12. \A n : n \in DOMAIN M <=>
         \/ n \in DOMAIN registry
         \/ \E s \in V : n = TypeOf(s, kind)
         \/ rooted /\ n = Suffix(kind)
  <2> DEFINE D == DOMAIN types
             E == DOMAIN reg
  <2>1. \A n : n \in D <=> \E s \in V : n = TypeOf(s, kind)
    BY <1>7
  <2>2. \A n : n \in E <=> n \in DOMAIN registry \/ (rooted /\ n = Suffix(kind))
    BY <1>11
  <2>3. DOMAIN M = E \cup D
    BY <1>1
  <2>. HIDE DEF D, E, rooted
  <2>. QED BY <2>1, <2>2, <2>3
<1>13. \A s \in V : IsObject(M[TypeOf(s, kind)], FieldSet(e, app, s, kind))
  BY <1>1, <1>7, <1>10
<1>14. rooted => IsObject(M[Suffix(kind)], RootFields(app, kind))
  BY <1>1, <1>6, <1>7, <1>9, <1>11
<1>15. \A n \in DOMAIN registry :
         (\A s \in V : n # TypeOf(s, kind)) /\ n # Suffix(kind) => M[n] = registry[n]
  BY <1>1, <1>7, <1>11
<1>. HIDE DEF rooted, metas
<1>16. Mounts(M, registry, e, app, kind)
  BY <1>12, <1>13, <1>14, <1>15 DEF V, rooted, Mounts
<1>. QED BY <1>16 DEF M, metas

-----------------------------------------------------------------------------
(* The registry of a schema                                                *)

\* The types of the classes an application maps, those that serve its methods
\* and the roots.
Describes(reg, e, app) ==
  /\ \A n : n \in DOMAIN reg <=>
       \/ n \in DOMAIN e.registry
       \/ \E k \in MethodKinds : \E s \in ServedBy(app, k) : n = TypeOf(s, k)
       \/ n = "Query"
       \/ n = "Mutation" /\ ServedBy(app, "mutation") # {}
  /\ \A n \in DOMAIN e.registry : reg[n] = e.registry[n]
  /\ \A k \in MethodKinds : \A s \in ServedBy(app, k) :
       IsObject(reg[TypeOf(s, k)], FieldSet(e, app, s, k))
  /\ IsObject(reg["Query"], RootFields(app, "query"))
  /\ ServedBy(app, "mutation") # {} => IsObject(reg["Mutation"], RootFields(app, "mutation"))

\* No class has the name of a type that serves methods, or of a root.
LEMMA ClassNamesApart ==
  ASSUME NEW app, NamesApart(app), NEW calls, NEW m, MapperInv(m, calls),
         EnvOK(m, Reached(app, FALSE), Reached(app, TRUE)), NEW n \in DOMAIN m.registry
  PROVE  n \notin ServiceTypes(app) /\ n \notin Operations
<1> DEFINE O == Reached(app, FALSE)
           I == Reached(app, TRUE)
           renamed == {InputName(c) : c \in {d \in O \cap I : Class[d].kind = "model"}}
<1>1. (ServiceTypes(app) \cup Operations) \cap (NamesOf(O \cup I) \cup renamed) = {}
  BY DEF NamesApart
<1>2. EnvOK(m, O, I)
  OBVIOUS
<1>. HIDE DEF O, I
<1>3. \/ \E d \in O \cup I : ScalarNamed(m, n, d)
      \/ \E d \in O \cup I : EnumNamed(m, n, d)
      \/ \E d \in O : OutputNamed(m, n, d)
      \/ \E d \in I : InputNamed(m, n, d) /\ (d \in DOMAIN m.byId => d \in O)
  BY <1>2, EntryNamed
<1>4. \A d \in O \cup I : Class[d].name \in NamesOf(O \cup I)
  BY DEF NamesOf
<1>5. \A d \in I : InputNamed(m, n, d) /\ (d \in DOMAIN m.byId => d \in O)
        => n \in NamesOf(O \cup I) \cup renamed
  <2> TAKE d \in I
  <2>1. CASE d \in DOMAIN m.byId
    BY <2>1 DEF InputNamed
  <2>2. CASE d \notin DOMAIN m.byId
    BY <1>4, <2>2 DEF InputNamed
  <2>. QED BY <2>1, <2>2
<1>. HIDE DEF renamed
<1>6. n \in NamesOf(O \cup I) \cup renamed
  BY <1>3, <1>4, <1>5 DEF ScalarNamed, EnumNamed, OutputNamed
<1>. QED BY <1>1, <1>6

LEMMA MountsDescribe ==
  ASSUME NEW app, AppOK(app), NamesApart(app), NEW done, NEW e,
         \A i \in DOMAIN MethodMetas(app) :
           MethodField(MethodMetas(app), done, i) = FieldFor(e, MethodMetas(app)[i]),
         \A n \in DOMAIN e.registry : n \notin ServiceTypes(app) /\ n \notin Operations
  PROVE  Describes(Mount(Mount(e.registry, app, MethodMetas(app), done, "query"),
                         app, MethodMetas(app), done, "mutation"), e, app)
<1> DEFINE metas == MethodMetas(app)
           Q == ServedBy(app, "query")
           V == ServedBy(app, "mutation")
           r1 == Mount(e.registry, app, metas, done, "query")
           r2 == Mount(r1, app, metas, done, "mutation")
<1>1. /\ \A s, t \in Range(ServiceNames(app)) : \A k, l \in MethodKinds :
           TypeOf(s, k) = TypeOf(t, l) => s = t /\ k = l
      /\ \A s \in Range(ServiceNames(app)) : \A k \in MethodKinds :
           TypeOf(s, k) \in ServiceTypes(app) /\ TypeOf(s, k) \notin Operations
      /\ Suffix("query") = "Query" /\ Suffix("mutation") = "Mutation"
      /\ "Query" \in Operations /\ "Mutation" \in Operations
      /\ "query" \in MethodKinds /\ "mutation" \in MethodKinds
  BY ServiceTypesApart DEF Operations, MethodKinds
<1>2. Q \subseteq Range(ServiceNames(app)) /\ V \subseteq Range(ServiceNames(app))
  BY DEF ServedBy
<1>3. /\ \A n : n \in DOMAIN r1 <=> \/ n \in DOMAIN e.registry
                                    \/ \E s \in Q : n = TypeOf(s, "query")
                                    \/ n = "Query"
      /\ \A s \in Q : IsObject(r1[TypeOf(s, "query")], FieldSet(e, app, s, "query"))
      /\ IsObject(r1["Query"], RootFields(app, "query"))
      /\ \A n \in DOMAIN e.registry :
           (\A s \in Q : n # TypeOf(s, "query")) /\ n # "Query" => r1[n] = e.registry[n]
  <2>1. Mounts(r1, e.registry, e, app, "query")
    BY <1>1, MountFacts
  <2>. HIDE DEF r1
  <2>. QED BY <1>1, <2>1 DEF Mounts
<1>. HIDE DEF r1
<1>4. /\ \A n : n \in DOMAIN r2 <=> \/ n \in DOMAIN r1
                                    \/ \E s \in V : n = TypeOf(s, "mutation")
                                    \/ V # {} /\ n = "Mutation"
      /\ \A s \in V : IsObject(r2[TypeOf(s, "mutation")], FieldSet(e, app, s, "mutation"))
      /\ V # {} => IsObject(r2["Mutation"], RootFields(app, "mutation"))
      /\ \A n \in DOMAIN r1 :
           (\A s \in V : n # TypeOf(s, "mutation")) /\ n # "Mutation" => r2[n] = r1[n]
  <2>1. Mounts(r2, r1, e, app, "mutation")
    BY <1>1, MountFacts
  <2>. HIDE DEF r2
  <2>. QED BY <1>1, <2>1 DEF Mounts
<1>. HIDE DEF r2, Q, V, metas
<1>5. \A n \in DOMAIN e.registry : r2[n] = e.registry[n]
  BY <1>1, <1>2, <1>3, <1>4
<1>6. \A s \in Q : \A t \in V : TypeOf(s, "query") # TypeOf(t, "mutation")
  BY <1>1, <1>2
<1>7. \A s \in Q : r2[TypeOf(s, "query")] = r1[TypeOf(s, "query")]
  BY <1>1, <1>2, <1>3, <1>4, <1>6
<1>8. r2["Query"] = r1["Query"]
  BY <1>1, <1>2, <1>3, <1>4
<1>9. \A n : n \in DOMAIN r2 <=>
        \/ n \in DOMAIN e.registry
        \/ \E k \in MethodKinds : \E s \in ServedBy(app, k) : n = TypeOf(s, k)
        \/ n = "Query"
        \/ n = "Mutation" /\ V # {}
  BY <1>3, <1>4 DEF MethodKinds, Q, V
<1>10. \A k \in MethodKinds : \A s \in ServedBy(app, k) :
         IsObject(r2[TypeOf(s, k)], FieldSet(e, app, s, k))
  BY <1>3, <1>4, <1>7 DEF MethodKinds, Q, V
<1>. QED BY <1>3, <1>4, <1>5, <1>8, <1>9, <1>10 DEF Describes, r1, r2, V, metas

\* A mapper that has answered its calls.
Sealed(e, calls) == ~e.failed /\ Ended(e, calls) /\ MapperInv(e, calls) /\ Tight(e, calls)

\* An application whose methods can be fields.
Presentable(app) ==
  UniqueItems(ServiceNames(app)) /\ \A meta \in MetaSet(app) : meta.method.returns # NoReturn

CallsOf(app) == MethodCalls(MethodMetas(app))
MapperOf(app) == Mapped(CallsOf(app))
BuiltOf(app, reg) ==
  /\ Presentable(app) /\ Sealed(MapperOf(app), CallsOf(app)) /\ Describes(reg, MapperOf(app), app)
  /\ \A meta \in MetaSet(app) : MetaOK(meta) /\ MetaKnown(MapperOf(app), meta)

LEMMA PresentableCalls ==
  ASSUME NEW app, AppOK(app), Presentable(app), UseCaseServicesAssumption, ComposeAssumption
  PROVE  /\ \A meta \in MetaSet(app) : MetaOK(meta)
         /\ GoodCalls(CallsOf(app)) /\ Covers(CallsOf(app), Reached(app, FALSE), Reached(app, TRUE))
<1>1. MethodMetas(app) \in Seq(MetaSet(app)) /\ Range(MethodMetas(app)) = MetaSet(app)
  BY MetasFacts
<1>2. \A meta \in MetaSet(app) : MetaOK(meta)
  BY MetasFacts DEF MetaOK, Presentable
<1>3. \A i \in DOMAIN MethodMetas(app) : MetaOK(MethodMetas(app)[i])
  BY <1>1, <1>2 DEF Range
<1>4. GoodCalls(MethodCalls(MethodMetas(app)))
  BY <1>1, <1>3, MethodCallsGood
<1>. QED BY <1>2, <1>4, ReachedCovers DEF CallsOf

\* A schema is built unless methods cannot be fields or a class cannot be
\* mapped.
LEMMA SchemaFails ==
  ASSUME NEW app, AppOK(app)
  PROVE  LET schema == BuildComposeSchema(app)
             e == MapperOf(app)
         IN IF Presentable(app) /\ ~e.failed /\ Ended(e, CallsOf(app))
            THEN /\ schema = Assembled(app, MethodMetas(app), RegisterMethods(MethodMetas(app)))
                 /\ schema.failed = FALSE
            ELSE schema = NoSchema
<1> DEFINE metas == MethodMetas(app)
           done == RegisterMethods(metas)
<1>1. metas \in Seq(MetaSet(app)) /\ Range(metas) = MetaSet(app)
  BY MetasFacts
<1>2. (\E i \in DOMAIN metas : metas[i].method.returns = NoReturn)
      <=> \E meta \in MetaSet(app) : meta.method.returns = NoReturn
  BY <1>1 DEF Range
<1>3. ~Presentable(app) => BuildComposeSchema(app) = NoSchema
  BY <1>2 DEF BuildComposeSchema, Presentable
<1>4. Presentable(app) => BuildComposeSchema(app) = Assembled(app, metas, done)
  BY <1>2 DEF BuildComposeSchema, Presentable
<1>5. done.failed <=> MapperOf(app).failed \/ ~Ended(MapperOf(app), CallsOf(app))
  BY DEF RegisterMethods, Registered, MapperOf, CallsOf, NoMethods
<1>. HIDE DEF done, metas
<1>6. done.failed => Assembled(app, metas, done) = NoSchema
  BY DEF Assembled
<1>7. ~done.failed => Assembled(app, metas, done).failed = FALSE
  BY DEF Assembled
<1>. QED BY <1>3, <1>4, <1>5, <1>6, <1>7 DEF done, metas

LEMMA SchemaOf ==
  ASSUME NEW app, AppOK(app), NamesApart(app), UseCaseServicesAssumption, ComposeAssumption,
         ~BuildComposeSchema(app).failed
  PROVE  BuiltOf(app, BuildComposeSchema(app).registry)
<1> DEFINE metas == MethodMetas(app)
           done == RegisterMethods(metas)
           calls == CallsOf(app)
           e == MapperOf(app)
           O == Reached(app, FALSE)
           I == Reached(app, TRUE)
<1>1. metas \in Seq(MetaSet(app)) /\ Range(metas) = MetaSet(app)
  BY MetasFacts
<1>2. Presentable(app) /\ ~e.failed /\ Ended(e, calls)
      /\ BuildComposeSchema(app) = Assembled(app, metas, done)
  <2> DEFINE B == Presentable(app) /\ ~e.failed /\ Ended(e, calls)
  <2>1. NoSchema.failed
    BY DEF NoSchema
  <2>2. IF B THEN BuildComposeSchema(app) = Assembled(app, metas, done)
        ELSE BuildComposeSchema(app) = NoSchema
    BY SchemaFails
  <2>. HIDE DEF metas, done, B
  <2>3. B /\ BuildComposeSchema(app) = Assembled(app, metas, done)
    BY <2>1, <2>2
  <2>. QED BY <2>3 DEF B
<1>3. (\A meta \in MetaSet(app) : MetaOK(meta)) /\ GoodCalls(calls) /\ Covers(calls, O, I)
  BY <1>2, PresentableCalls
<1>4. MapperInv(e, calls) /\ Tight(e, calls)
  <2>1. Apart(O, I) /\ MaxSteps \in Nat
    BY NamesApartApart DEF ComposeAssumption
  <2>. QED BY <1>2, <1>3, <2>1, MappedInv DEF MapperOf
<1>5. \A i \in DOMAIN metas : MetaOK(metas[i])
  BY <1>1, <1>3 DEF Range
<1>6. /\ done.failed = FALSE /\ done.registry = e.registry
      /\ \A i \in DOMAIN metas : MethodField(metas, done, i) = FieldFor(e, metas[i]) /\ MetaKnown(e, metas[i])
  <2>1. e = Mapped(MethodCalls(metas)) /\ calls = MethodCalls(metas)
    BY DEF MapperOf, CallsOf
  <2>. QED BY <1>1, <1>2, <1>4, <1>5, <2>1, RegisteredFields
<1>7. \A n \in DOMAIN e.registry : n \notin ServiceTypes(app) /\ n \notin Operations
  <2>1. EnvOK(e, O, I)
    BY <1>3, <1>4 DEF Tight
  <2>. QED BY <1>4, <2>1, ClassNamesApart
<1>8. Describes(Mount(Mount(e.registry, app, metas, done, "query"), app, metas, done, "mutation"), e, app)
  BY <1>6, <1>7, MountsDescribe
<1>9. BuildComposeSchema(app).registry
      = Mount(Mount(e.registry, app, metas, done, "query"), app, metas, done, "mutation")
  BY <1>2, <1>6 DEF Assembled
<1>10. \A meta \in MetaSet(app) : MetaKnown(e, meta)
  BY <1>1, <1>6 DEF Range
<1>11. Sealed(e, calls)
  BY <1>2, <1>4 DEF Sealed
<1>12. Describes(BuildComposeSchema(app).registry, e, app)
  BY <1>8, <1>9
<1>. HIDE DEF metas, done, e, calls
<1>. QED BY <1>2, <1>3, <1>10, <1>11, <1>12 DEF BuiltOf, e, calls

-----------------------------------------------------------------------------
(* What the types of a schema refer to                                     *)

\* A type whose class is mapped.
Whole(e, n) ==
  LET t == e.registry[n]
      input == t.kind = "INPUT_OBJECT"
  IN \/ t.kind \in {"SCALAR", "ENUM"} /\ t.fields = << >>
     \/ /\ t.kind \in {"OBJECT", "INPUT_OBJECT"} /\ t.class \in DOMAIN Class
        /\ Class[t.class].kind = "model" /\ n = LeafName(e, t.class, input)
        /\ MapsAll(e, Class[t.class].fields, input, t.fields)

LEMMA SealedWhole ==
  ASSUME NEW calls, NEW e, Sealed(e, calls), NEW n \in DOMAIN e.registry
  PROVE  Whole(e, n)
<1>1. EntryOK(e, n) /\ e.open = << >>
  BY DEF Sealed, MapperInv, Ended
<1>2. CASE ScalarEntry(e, n)
  BY <1>2 DEF ScalarEntry, TypeInfo, Whole
<1>3. CASE EnumEntry(e, n)
  <2>1. \E c : e.registry[n] = TypeInfo("ENUM", c, << >>)
    BY <1>3 DEF EnumEntry
  <2>. QED BY <2>1 DEF TypeInfo, Whole
<1>4. ASSUME NEW c \in DOMAIN Class, NEW input \in BOOLEAN, ModelEntry(e, n, c, input)
      PROVE  Whole(e, n)
  <2>1. /\ Class[c].kind = "model" /\ n = LeafName(e, c, input)
        /\ e.registry[n].kind = LeafKind(c, input) /\ e.registry[n].class = c
        /\ MapsAll(e, Class[c].fields, input, e.registry[n].fields)
    BY <1>1, <1>4 DEF ModelEntry
  <2>2. e.registry[n].kind = IF input THEN "INPUT_OBJECT" ELSE "OBJECT"
    BY <2>1 DEF LeafKind
  <2>3. input = (e.registry[n].kind = "INPUT_OBJECT")
    BY <2>2
  <2>. QED BY <2>1, <2>2, <2>3 DEF Whole
<1>. QED BY <1>1, <1>2, <1>3, <1>4 DEF EntryOK

\* A reference to a type that is there in the kind referred to, which fits the
\* side it stands on.
RefersTo(registry, r, input) ==
  /\ r.name \in DOMAIN registry /\ registry[r.name].kind = r.kind
  /\ r.kind # IF input THEN "OBJECT" ELSE "INPUT_OBJECT"

LEMMA KnownRefers ==
  ASSUME NEW e, NEW t, NEW input \in BOOLEAN, Known(e, t.leaf, input)
  PROVE  RefersTo(e.registry, RefTo(e, t, input), input)
<1>1. /\ LeafName(e, t.leaf, input) \in DOMAIN e.registry
      /\ e.registry[LeafName(e, t.leaf, input)].kind = LeafKind(t.leaf, input)
  BY DEF Known
<1>2. LeafKind(t.leaf, input) # IF input THEN "OBJECT" ELSE "INPUT_OBJECT"
  BY DEF LeafKind
<1>3. RefTo(e, t, input).name = LeafName(e, t.leaf, input)
      /\ RefTo(e, t, input).kind = LeafKind(t.leaf, input)
  BY DEF RefTo
<1>. QED BY <1>1, <1>2, <1>3 DEF RefersTo

\* The fields of a class refer to types of its side.
LEMMA ItemsRefer ==
  ASSUME NEW e, NEW xs, NEW input \in BOOLEAN, NEW mapped, mapped \in Seq(Range(mapped)),
         MapsAll(e, xs, input, mapped), NEW i \in DOMAIN mapped
  PROVE  \A r \in FieldRefs(mapped[i]) : RefersTo(e.registry, r, input)
<1>1. i \in 1 .. Len(mapped) /\ Len(mapped) = Len(xs)
  BY DEF MapsAll, Maps
<1>2. mapped[i] = [name |-> xs[i].name, ref |-> RefTo(e, xs[i].type, input)]
      /\ Known(e, xs[i].type.leaf, input)
  BY <1>1 DEF MapsAll, Maps
<1>3. FieldRefs(mapped[i]) = {RefTo(e, xs[i].type, input)}
  <2> DEFINE R == RefTo(e, xs[i].type, input)
             f == [name |-> xs[i].name, ref |-> R]
  <2>. HIDE DEF R
  <2>1. f.ref = R /\ "args" \notin DOMAIN f
    OBVIOUS
  <2>2. mapped[i] = f
    BY <1>2 DEF R
  <2>. HIDE DEF f
  <2>3. FieldRefs(mapped[i]) = {R}
    BY <2>1, <2>2 DEF FieldRefs
  <2>. QED BY <2>3 DEF R
<1>4. RefersTo(e.registry, RefTo(e, xs[i].type, input), input)
  BY <1>2, KnownRefers
<1>. QED BY <1>3, <1>4

LEMMA WholeRefers ==
  ASSUME NEW calls, NEW e, Sealed(e, calls), NEW n \in DOMAIN e.registry
  PROVE  \A r \in InfoRefs(e.registry[n]) :
           RefersTo(e.registry, r, e.registry[n].kind = "INPUT_OBJECT")
<1> DEFINE t == e.registry[n]
           input == t.kind = "INPUT_OBJECT"
<1>1. t.fields \in Seq(MappedItems(calls))
  <2>1. e.registry[n] \in Infos(calls)
    BY PartialFacts, MapperFacts DEF Sealed, MapperInv
  <2>. QED BY <2>1 DEF Infos
<1>2. Whole(e, n)
  BY SealedWhole
<1>3. InfoRefs(t) = UNION {FieldRefs(t.fields[i]) : i \in DOMAIN t.fields}
  BY DEF InfoRefs
<1>4. CASE t.fields = << >>
  <2>1. DOMAIN t.fields = {}
    BY <1>4
  <2>2. InfoRefs(t) = {}
    BY <1>3, <2>1
  <2>. QED BY <2>2
<1>5. CASE MapsAll(e, Class[t.class].fields, input, t.fields)
  <2>1. t.fields \in Seq(Range(t.fields))
    <3> DEFINE q == t.fields
               S == MappedItems(calls)
    <3>1. q \in Seq(S)
      BY <1>1
    <3>. HIDE DEF q, S
    <3>2. Len(q) \in Nat /\ DOMAIN q = 1 .. Len(q) /\ q \in [1 .. Len(q) -> S]
      BY <3>1
    <3>3. q \in [1 .. Len(q) -> Range(q)]
      BY <3>2 DEF Range
    <3>4. q \in Seq(Range(q))
      BY <3>2, <3>3
    <3>. QED BY <3>4 DEF q
  <2>2. input \in BOOLEAN
    OBVIOUS
  <2>. HIDE DEF t, input
  <2>3. \A i \in DOMAIN t.fields : \A r \in FieldRefs(t.fields[i]) : RefersTo(e.registry, r, input)
    BY <1>5, <2>1, <2>2, ItemsRefer
  <2>4. \A r \in InfoRefs(t) : RefersTo(e.registry, r, input)
    BY <1>3, <2>3
  <2>. QED BY <2>4 DEF t, input
<1>. QED BY <1>2, <1>4, <1>5 DEF Whole

\* What a method's field refers to: its result as output, its arguments as input.
MethodRefs(e, meta) ==
  {RefTo(e, meta.method.returns, FALSE)}
    \cup {RefTo(e, Public(meta.method)[j].type, TRUE) : j \in DOMAIN Public(meta.method)}

LEMMA FieldForRefs ==
  ASSUME NEW e, NEW meta, MetaOK(meta)
  PROVE  FieldRefs(FieldFor(e, meta)) = MethodRefs(e, meta)
<1> DEFINE p == Public(meta.method)
           R == RefTo(e, meta.method.returns, FALSE)
           args == [j \in 1 .. Len(p) |-> [name |-> p[j].name, ref |-> RefTo(e, p[j].type, TRUE)]]
           name == meta.method.name
           f == [name |-> name, ref |-> R, args |-> args]
<1>1. FieldFor(e, meta) = f
  BY DEF FieldFor
<1>2. DOMAIN p = 1 .. Len(p)
  BY PublicFacts
<1>. HIDE DEF R, p, name
<1>3. \A j \in DOMAIN p : args[j].ref = RefTo(e, p[j].type, TRUE)
  <2> TAKE j \in DOMAIN p
  <2> DEFINE A == RefTo(e, p[j].type, TRUE)
             b == p[j].name
  <2>1. args[j] = [name |-> b, ref |-> A]
    BY <1>2
  <2>. HIDE DEF A, b, args
  <2>2. args[j].ref = A
    BY <2>1
  <2>. QED BY <2>2 DEF A
<1>4. DOMAIN args = DOMAIN p
  BY <1>2
<1>. HIDE DEF args
<1>5. f.ref = R /\ f.args = args /\ "args" \in DOMAIN f
  OBVIOUS
<1>. HIDE DEF f
<1>6. FieldRefs(f) = {R} \cup {args[j].ref : j \in DOMAIN args}
  BY <1>5 DEF FieldRefs
<1>7. {args[j].ref : j \in DOMAIN args} = {RefTo(e, p[j].type, TRUE) : j \in DOMAIN p}
  BY <1>3, <1>4
<1>. QED BY <1>1, <1>6, <1>7 DEF R, p, MethodRefs

LEMMA FieldForRefers ==
  ASSUME NEW e, NEW meta, MetaOK(meta), MetaKnown(e, meta)
  PROVE  \A r \in FieldRefs(FieldFor(e, meta)) :
           r.name \in DOMAIN e.registry /\ e.registry[r.name].kind = r.kind
<1> DEFINE p == Public(meta.method)
<1>1. RefersTo(e.registry, RefTo(e, meta.method.returns, FALSE), FALSE)
  BY KnownRefers DEF MetaKnown
<1>2. \A j \in DOMAIN p : RefersTo(e.registry, RefTo(e, p[j].type, TRUE), TRUE)
  BY KnownRefers DEF MetaKnown
<1>3. FieldRefs(FieldFor(e, meta)) = MethodRefs(e, meta)
  BY FieldForRefs
<1>4. \A r \in MethodRefs(e, meta) : r = RefTo(e, meta.method.returns, FALSE)
                                     \/ \E j \in DOMAIN p : r = RefTo(e, p[j].type, TRUE)
  BY DEF MethodRefs
<1>. HIDE DEF p
<1>. QED BY <1>1, <1>2, <1>3, <1>4 DEF RefersTo

LEMMA ObjectRefs ==
  ASSUME NEW info, NEW fields, IsObject(info, fields)
  PROVE  info.kind = "OBJECT" /\ info.class = None
         /\ InfoRefs(info) = UNION {FieldRefs(f) : f \in fields}
<1> DEFINE q == info.fields
<1>1. info = TypeInfo("OBJECT", None, q) /\ Range(q) = fields
  BY DEF IsObject
<1>. HIDE DEF q
<1>2. info.kind = "OBJECT" /\ info.class = None
  BY <1>1 DEF TypeInfo
<1>3. InfoRefs(info) = UNION {FieldRefs(q[i]) : i \in DOMAIN q}
  BY DEF InfoRefs, q
<1>4. UNION {FieldRefs(q[i]) : i \in DOMAIN q} = UNION {FieldRefs(f) : f \in Range(q)}
  BY DEF Range
<1>. QED BY <1>1, <1>2, <1>3, <1>4

LEMMA RootRefs ==
  ASSUME NEW s, NEW kind
  PROVE  FieldRefs(RootField(s, kind))
         = {[shape |-> <<"NON_NULL">>, kind |-> "OBJECT", name |-> TypeOf(s, kind)]}
<1> DEFINE R == [shape |-> <<"NON_NULL">>, kind |-> "OBJECT", name |-> TypeOf(s, kind)]
           f == [name |-> s, ref |-> R]
<1>1. RootField(s, kind) = f
  BY DEF RootField
<1>. HIDE DEF R
<1>2. f.ref = R /\ "args" \notin DOMAIN f
  OBVIOUS
<1>. HIDE DEF f
<1>3. FieldRefs(f) = {R}
  BY <1>2 DEF FieldRefs
<1>. QED BY <1>1, <1>3 DEF R

\* Every type a schema refers to is in it, in the kind it is referred to; input
\* types refer to no OBJECT.
LEMMA SchemaRefers ==
  ASSUME NEW app, NEW reg, BuiltOf(app, reg), NEW n \in DOMAIN reg
  PROVE  \A r \in InfoRefs(reg[n]) :
           /\ r.name \in DOMAIN reg /\ reg[r.name].kind = r.kind
           /\ r.name \in DOMAIN MapperOf(app).registry \cup ServiceTypes(app)
           /\ reg[n].kind = "INPUT_OBJECT" => r.kind # "OBJECT"
<1> DEFINE e == MapperOf(app)
           calls == CallsOf(app)
<1>1. Describes(reg, e, app) /\ Sealed(e, calls) /\ \A meta \in MetaSet(app) : MetaOK(meta) /\ MetaKnown(e, meta)
  BY DEF BuiltOf
<1>. HIDE DEF e, calls
<1>2. \A m \in DOMAIN e.registry : m \in DOMAIN reg /\ reg[m] = e.registry[m]
  BY <1>1 DEF Describes
<1>3. CASE n \in DOMAIN e.registry
  <2>1. \A r \in InfoRefs(e.registry[n]) : RefersTo(e.registry, r, e.registry[n].kind = "INPUT_OBJECT")
    BY <1>1, <1>3, WholeRefers
  <2>. QED BY <1>2, <1>3, <2>1 DEF RefersTo, e
<1>4. ASSUME NEW k \in MethodKinds, NEW s \in ServedBy(app, k), n = TypeOf(s, k)
      PROVE  \A r \in InfoRefs(reg[n]) : /\ r.name \in DOMAIN reg /\ reg[r.name].kind = r.kind
                                         /\ r.name \in DOMAIN e.registry \cup ServiceTypes(app)
                                         /\ reg[n].kind # "INPUT_OBJECT"
  <2>1. IsObject(reg[n], FieldSet(e, app, s, k))
    BY <1>1, <1>4 DEF Describes
  <2>2. reg[n].kind = "OBJECT" /\ InfoRefs(reg[n]) = UNION {FieldRefs(f) : f \in FieldSet(e, app, s, k)}
    BY <2>1, ObjectRefs
  <2>3. \A f \in FieldSet(e, app, s, k) : \A r \in FieldRefs(f) :
          r.name \in DOMAIN e.registry /\ e.registry[r.name].kind = r.kind
    BY <1>1, FieldForRefers DEF FieldSet
  <2>. QED BY <1>2, <2>2, <2>3
<1>5. ASSUME NEW k \in MethodKinds, IsObject(reg[n], RootFields(app, k))
      PROVE  \A r \in InfoRefs(reg[n]) : /\ r.name \in DOMAIN reg /\ reg[r.name].kind = r.kind
                                         /\ r.name \in DOMAIN e.registry \cup ServiceTypes(app)
                                         /\ reg[n].kind # "INPUT_OBJECT"
  <2>1. reg[n].kind = "OBJECT" /\ InfoRefs(reg[n]) = UNION {FieldRefs(f) : f \in RootFields(app, k)}
    BY <1>5, ObjectRefs
  <2>2. ASSUME NEW f \in RootFields(app, k), NEW r \in FieldRefs(f)
        PROVE  r.name \in DOMAIN reg /\ reg[r.name].kind = r.kind /\ r.name \in ServiceTypes(app)
    <3>1. PICK s \in ServedBy(app, k) : f = RootField(s, k)
      BY DEF RootFields
    <3>2. r = [shape |-> <<"NON_NULL">>, kind |-> "OBJECT", name |-> TypeOf(s, k)]
      BY <3>1, RootRefs
    <3>3. r.name = TypeOf(s, k) /\ r.kind = "OBJECT"
      BY <3>2
    <3>4. TypeOf(s, k) \in DOMAIN reg /\ IsObject(reg[TypeOf(s, k)], FieldSet(e, app, s, k))
      BY <1>1, <3>1 DEF Describes
    <3>5. TypeOf(s, k) \in ServiceTypes(app)
      BY <3>1 DEF ServedBy, ServiceTypes
    <3>. QED BY <3>3, <3>4, <3>5, ObjectRefs
  <2>. QED BY <2>1, <2>2
<1>6. CASE n = "Query"
  <2>1. IsObject(reg[n], RootFields(app, "query")) /\ "query" \in MethodKinds
    BY <1>1, <1>6 DEF Describes, MethodKinds
  <2>. QED BY <1>5, <2>1 DEF e
<1>7. CASE n = "Mutation" /\ ServedBy(app, "mutation") # {}
  <2>1. IsObject(reg[n], RootFields(app, "mutation")) /\ "mutation" \in MethodKinds
    BY <1>1, <1>7 DEF Describes, MethodKinds
  <2>. QED BY <1>5, <2>1 DEF e
<1>8. \/ n \in DOMAIN e.registry
      \/ \E k \in MethodKinds : \E s \in ServedBy(app, k) : n = TypeOf(s, k)
      \/ n = "Query"
      \/ n = "Mutation" /\ ServedBy(app, "mutation") # {}
  BY <1>1 DEF Describes
<1>. QED BY <1>3, <1>4, <1>6, <1>7, <1>8 DEF e

-----------------------------------------------------------------------------
(* Fragments                                                               *)

\* The values a finite function has are finite in number.
LEMMA FiniteRange ==
  ASSUME NEW f, IsFiniteSet(DOMAIN f)
  PROVE  IsFiniteSet({f[x] : x \in DOMAIN f})
<1> DEFINE T == {f[x] : x \in DOMAIN f}
           g == [x \in DOMAIN f |-> f[x]]
<1>1. g \in [DOMAIN f -> T] /\ \A t \in T : \E x \in DOMAIN f : g[x] = t
  OBVIOUS
<1>2. g \in Surjection(DOMAIN f, T)
  BY <1>1 DEF Surjection
<1>. QED BY <1>2, FS_Surjection

LEMMA FiniteTypeNames ==
  ASSUME ComposeAssumption
  PROVE  IsFiniteSet(TypeNames)
<1> DEFINE f == [c \in DOMAIN Class |-> Class[c].name]
           g == [c \in DOMAIN Class |-> InputName(c)]
<1>1. IsFiniteSet(DOMAIN f) /\ IsFiniteSet(DOMAIN g)
  BY DEF ComposeAssumption
<1>2. IsFiniteSet({f[x] : x \in DOMAIN f}) /\ IsFiniteSet({g[x] : x \in DOMAIN g})
  BY <1>1, FiniteRange
<1>3. {f[x] : x \in DOMAIN f} = NamesOf(DOMAIN Class) /\ {g[x] : x \in DOMAIN g} = {InputName(c) : c \in DOMAIN Class}
  BY DEF NamesOf
<1>. QED BY <1>2, <1>3, FS_Union DEF TypeNames

LEMMA FiniteServiceTypes ==
  ASSUME NEW app, AppOK(app)
  PROVE  IsFiniteSet(ServiceTypes(app))
<1> DEFINE n == Len(app.services)
           f == [i \in DOMAIN app.services |-> TypeOf(app.services[i].name, "query")]
           g == [i \in DOMAIN app.services |-> TypeOf(app.services[i].name, "mutation")]
<1>1. IsFiniteSet(DOMAIN app.services)
  <2>1. n \in Nat /\ DOMAIN app.services = 1 .. n
    BY DEF AppOK
  <2>. HIDE DEF n
  <2>. QED BY <2>1, FS_Interval
<1>2. IsFiniteSet({f[i] : i \in DOMAIN f}) /\ IsFiniteSet({g[i] : i \in DOMAIN g})
  BY <1>1, FiniteRange
<1>3. ServiceTypes(app) \subseteq {f[i] : i \in DOMAIN f} \cup {g[i] : i \in DOMAIN g}
  <2> SUFFICES ASSUME NEW t \in ServiceTypes(app)
               PROVE  \E i \in DOMAIN app.services : t = f[i] \/ t = g[i]
    OBVIOUS
  <2>1. PICK s \in Range(ServiceNames(app)), k \in MethodKinds : t = TypeOf(s, k)
    BY DEF ServiceTypes
  <2>2. PICK i \in DOMAIN app.services : s = app.services[i].name
    BY DEF Range, ServiceNames
  <2>. QED BY <2>1, <2>2 DEF MethodKinds
<1>. HIDE DEF f, g
<1>4. IsFiniteSet({f[i] : i \in DOMAIN f} \cup {g[i] : i \in DOMAIN g})
  BY <1>2, FS_Union
<1>. QED BY <1>3, <1>4, FS_Subset

LEMMA FiniteRegistry ==
  ASSUME NEW app, AppOK(app), ComposeAssumption, NEW reg, BuiltOf(app, reg)
  PROVE  IsFiniteSet(DOMAIN reg)
<1> DEFINE e == MapperOf(app)
<1>1. Describes(reg, e, app) /\ Sealed(e, CallsOf(app))
  BY DEF BuiltOf
<1>. HIDE DEF e
<1>2. DOMAIN e.registry \subseteq TypeNames
  BY <1>1, PartialFacts, MapperFacts DEF Sealed, MapperInv
<1>3. DOMAIN reg \subseteq (TypeNames \cup ServiceTypes(app)) \cup {"Query", "Mutation"}
  BY <1>1, <1>2 DEF Describes, ServiceTypes, ServedBy
<1>4. IsFiniteSet(TypeNames \cup ServiceTypes(app))
  BY FiniteTypeNames, FiniteServiceTypes, FS_Union
<1>5. IsFiniteSet({"Query", "Mutation"})
  <2>1. IsFiniteSet({"Query"}) /\ IsFiniteSet({"Mutation"})
    BY FS_Singleton
  <2>2. {"Query", "Mutation"} = {"Query"} \cup {"Mutation"}
    OBVIOUS
  <2>3. IsFiniteSet({"Query"} \cup {"Mutation"})
    BY <2>1, FS_Union
  <2>. QED BY <2>2, <2>3
<1>6. IsFiniteSet((TypeNames \cup ServiceTypes(app)) \cup {"Query", "Mutation"})
  BY <1>4, <1>5, FS_Union
<1>. QED BY <1>3, <1>6, FS_Subset

LEMMA BuiltApart ==
  ASSUME NEW app, AppOK(app), NamesApart(app), UseCaseServicesAssumption, ComposeAssumption,
         NEW reg, BuiltOf(app, reg)
  PROVE  /\ EnvOK(MapperOf(app), Reached(app, FALSE), Reached(app, TRUE))
         /\ \A n \in DOMAIN MapperOf(app).registry : n \notin ServiceTypes(app) /\ n \notin Operations
<1> DEFINE e == MapperOf(app)
           calls == CallsOf(app)
<1>1. Sealed(e, calls) /\ Presentable(app)
  BY DEF BuiltOf
<1>2. Covers(calls, Reached(app, FALSE), Reached(app, TRUE))
  BY <1>1, PresentableCalls
<1>3. EnvOK(e, Reached(app, FALSE), Reached(app, TRUE)) /\ MapperInv(e, calls)
  BY <1>1, <1>2 DEF Sealed, Tight
<1>. QED BY <1>3, ClassNamesApart

\* The fields of the type of a service and kind are those of its methods.
LEMMA MethodFieldsAre ==
  ASSUME NEW app, AppOK(app), NamesApart(app), UseCaseServicesAssumption, ComposeAssumption,
         NEW reg, BuiltOf(app, reg), NEW s \in Range(ServiceNames(app)), NEW k \in MethodKinds,
         NEW f \in MethodFields(reg, s, k)
  PROVE  /\ TypeOf(s, k) \in DOMAIN reg /\ TypeOf(s, k) \notin DOMAIN MapperOf(app).registry
         /\ f \in FieldSet(MapperOf(app), app, s, k)
<1> DEFINE e == MapperOf(app)
           n == TypeOf(s, k)
<1>1. Describes(reg, e, app)
  BY DEF BuiltOf
<1>2. n \in DOMAIN reg /\ f \in Range(reg[n].fields)
  BY DEF MethodFields
<1>3. n \in ServiceTypes(app) /\ n \notin Operations /\ n \notin DOMAIN e.registry
  <2>1. n \in ServiceTypes(app) /\ n \notin Operations
    BY ServiceTypesApart
  <2>2. \A x \in DOMAIN MapperOf(app).registry : x \notin ServiceTypes(app)
    BY BuiltApart
  <2>. HIDE DEF n
  <2>. QED BY <2>1, <2>2
<1>. HIDE DEF e
<1>a. PICK l \in MethodKinds : \E t \in ServedBy(app, l) : n = TypeOf(t, l)
  BY <1>1, <1>2, <1>3 DEF Describes, Operations
<1>4. PICK t \in ServedBy(app, l) : n = TypeOf(t, l)
  BY <1>a
<1>5. t = s /\ l = k
  <2>1. t \in Range(ServiceNames(app))
    BY DEF ServedBy
  <2>. QED BY <1>4, <2>1, ServiceTypesApart
<1>6. IsObject(reg[n], FieldSet(e, app, s, k))
  BY <1>1, <1>5 DEF Describes
<1>7. Range(reg[n].fields) = FieldSet(e, app, s, k)
  BY <1>6 DEF IsObject
<1>. QED BY <1>2, <1>3, <1>7 DEF e

\* The field found is one of the kind it is found as.
LEMMA FoundIsThere ==
  ASSUME NEW reg, NEW s, NEW m \in Described(reg, s)
  PROVE  /\ FoundAs(reg, s, m.name) \in MethodKinds
         /\ FoundField(reg, s, m.name) \in MethodFields(reg, s, FoundAs(reg, s, m.name))
<1> DEFINE has(k) == \E f \in MethodFields(reg, s, k) : f.name = m.name
<1>1. \E k \in MethodKinds : has(k)
  <2>1. PICK k \in MethodKinds : m \in {[name |-> f.name, kind |-> k] : f \in MethodFields(reg, s, k)}
    BY DEF Described
  <2>2. PICK f \in MethodFields(reg, s, k) : m = [name |-> f.name, kind |-> k]
    BY <2>1
  <2>3. m.name = f.name
    BY <2>2
  <2>. QED BY <2>3
<1>2. has("query") \/ (~has("query") /\ has("mutation"))
  BY <1>1 DEF MethodKinds
<1>3. FoundAs(reg, s, m.name) = CASE has("query") -> "query"
                                  [] ~has("query") /\ has("mutation") -> "mutation"
                                  [] OTHER -> None
  BY DEF FoundAs
<1> DEFINE k == FoundAs(reg, s, m.name)
<1>4. k \in MethodKinds /\ has(k)
  <2>1. CASE has("query")
    <3>1. k = "query"
      BY <1>3, <2>1
    <3>. HIDE DEF k
    <3>. QED BY <2>1, <3>1 DEF MethodKinds
  <2>2. CASE ~has("query") /\ has("mutation")
    <3>1. k = "mutation"
      BY <1>3, <2>2
    <3>. HIDE DEF k
    <3>. QED BY <2>2, <3>1 DEF MethodKinds
  <2>. QED BY <1>2, <2>1, <2>2
<1>. QED BY <1>4 DEF FoundField

\* The fragment of a method defines every type it names.
LEMMA FragmentClosed ==
  ASSUME NEW app, AppOK(app), NamesApart(app), UseCaseServicesAssumption, ComposeAssumption,
         NEW reg, BuiltOf(app, reg), NEW s \in Range(ServiceNames(app)), NEW m \in Described(reg, s)
  PROVE  FragmentUses(reg, s, m.name) \subseteq FragmentDefines(reg, s, m.name)
<1> DEFINE e == MapperOf(app)
           k == FoundAs(reg, s, m.name)
           f == FoundField(reg, s, m.name)
           owner == TypeOf(s, k)
           seeds == FragmentSeeds(f)
           next == [n \in DOMAIN reg |-> InfoNames(reg[n]) \cap DOMAIN reg]
           D == DOMAIN reg
           E == DOMAIN e.registry
           C == Closure(reg, seeds \cap D)
<1>1. Describes(reg, e, app) /\ Sealed(e, CallsOf(app))
      /\ \A meta \in MetaSet(app) : MetaOK(meta) /\ MetaKnown(e, meta)
  BY DEF BuiltOf
<1>2. k \in MethodKinds /\ f \in MethodFields(reg, s, k)
  BY FoundIsThere
<1>3. owner \in D /\ owner \notin E /\ f \in FieldSet(e, app, s, k)
  BY <1>2, MethodFieldsAre
<1>4. E \subseteq D /\ \A n \in E : reg[n] = e.registry[n]
  BY <1>1 DEF Describes
<1>5. seeds \subseteq E
  <2>1. PICK meta \in MetaSet(app) : f = FieldFor(e, meta)
    BY <1>3 DEF FieldSet
  <2>2. \A r \in FieldRefs(f) : r.name \in E
    BY <1>1, <2>1, FieldForRefers
  <2>. QED BY <2>2 DEF FragmentSeeds
<1>6. \A n \in E : InfoNames(reg[n]) \subseteq E
  <2> TAKE n \in E
  <2>1. \A r \in InfoRefs(e.registry[n]) : r.name \in E
    BY <1>1, WholeRefers DEF RefersTo
  <2>. QED BY <1>4, <2>1 DEF InfoNames
<1>7. IsFiniteSet(D) /\ next \in [D -> SUBSET D]
  <2>1. IsFiniteSet(D)
    BY FiniteRegistry
  <2>. QED BY <2>1
<1>8. \A n \in D : next[n] = InfoNames(reg[n]) \cap D
  OBVIOUS
<1>9. C = Spread(next, seeds \cap D)
  BY DEF Closure
<1>. HIDE DEF D, E, next, seeds, C, e, k, f, owner
<1>10. seeds \cap D = seeds
  BY <1>4, <1>5
<1>11. seeds \in SUBSET D
  BY <1>4, <1>5
<1>12. seeds \subseteq C /\ C \subseteq D /\ \A n \in C : next[n] \subseteq C
  BY <1>7, <1>9, <1>10, <1>11, SpreadClosed
<1>13. C \subseteq E
  <2>1. \A n \in E : next[n] \subseteq E
    BY <1>4, <1>6, <1>8
  <2>2. Cardinality(DOMAIN next) \in Nat
    BY <1>7, FS_CardinalityType
  <2>. QED BY <1>5, <1>9, <1>10, <2>1, <2>2, SpreadLeast
<1>14. "Query" \notin E /\ "Mutation" \notin E
  BY BuiltApart DEF Operations, E, e
<1>15. FragmentDefines(reg, s, m.name) = {owner} \cup C
  <2>1. FragmentDefines(reg, s, m.name) = {owner} \cup (C \ {"Query", "Mutation", owner})
    BY DEF FragmentDefines, owner, C, k, f, D, seeds
  <2>2. C \ {"Query", "Mutation", owner} = C
    BY <1>3, <1>13, <1>14
  <2>. QED BY <2>1, <2>2
<1>16. FragmentUses(reg, s, m.name)
       = seeds \cup UNION {InfoNames(reg[n]) : n \in FragmentDefines(reg, s, m.name) \ {owner}}
  BY DEF FragmentUses, owner, k, f, seeds, FragmentSeeds
<1>17. \A n \in C : InfoNames(reg[n]) \subseteq C
  <2> TAKE n \in C
  <2>1. n \in E /\ n \in D
    BY <1>4, <1>13
  <2>2. InfoNames(reg[n]) \subseteq D /\ next[n] = InfoNames(reg[n]) \cap D /\ next[n] \subseteq C
    BY <1>4, <1>6, <1>8, <1>12, <2>1
  <2>. QED BY <2>2
<1>. QED BY <1>12, <1>15, <1>16, <1>17

\* The introspection names types that are there, and input types no OBJECT.
LEMMA IntrospectionClosed ==
  ASSUME NEW app, NEW reg, BuiltOf(app, reg), NEW n \in DOMAIN reg
  PROVE  LET t == Introspection(reg)[n]
         IN /\ {r.name : r \in t.fields \cup t.inputs} \subseteq DOMAIN reg
            /\ \A r \in t.inputs : reg[r.name].kind # "OBJECT"
            /\ t.kind # "INPUT_OBJECT" => t.inputs = {}
<1> DEFINE t == Introspection(reg)[n]
           kind == reg[n].kind
           refs == InfoRefs(reg[n])
           fs == IF kind = "OBJECT" THEN refs ELSE {}
           is == IF kind = "INPUT_OBJECT" THEN refs ELSE {}
<1>1. t = [kind |-> kind, fields |-> fs, inputs |-> is]
  BY DEF Introspection, IntrospectedType
<1>2. \A r \in refs : /\ r.name \in DOMAIN reg /\ reg[r.name].kind = r.kind
                      /\ kind = "INPUT_OBJECT" => r.kind # "OBJECT"
  BY SchemaRefers
<1>3. fs \cup is \subseteq refs /\ (kind # "INPUT_OBJECT" => is = {})
      /\ \A r \in is : r \in refs /\ kind = "INPUT_OBJECT"
  OBVIOUS
<1>. HIDE DEF t, kind, refs, fs, is
<1>4. t.kind = kind /\ t.fields = fs /\ t.inputs = is
  BY <1>1
<1>5. {r.name : r \in fs \cup is} \subseteq DOMAIN reg
  BY <1>2, <1>3
<1>6. \A r \in is : reg[r.name].kind # "OBJECT"
  BY <1>2, <1>3
<1>. QED BY <1>3, <1>4, <1>5, <1>6 DEF t

\* The names of the OBJECT types that are no roots are kept.
LEMMA ObjectsKept ==
  ASSUME NEW app, AppOK(app), NamesApart(app), NamesKept(app),
         UseCaseServicesAssumption, ComposeAssumption,
         NEW reg, BuiltOf(app, reg), NEW n \in DOMAIN MapperOf(app).registry \cup ServiceTypes(app),
         n \in DOMAIN reg, reg[n].kind = "OBJECT"
  PROVE  SdlKeeps(n)
<1> DEFINE e == MapperOf(app)
           O == Reached(app, FALSE)
           I == Reached(app, TRUE)
<1>1. CASE n \in ServiceTypes(app)
  BY <1>1 DEF NamesKept
<1>2. CASE n \in DOMAIN e.registry
  <2>1. Describes(reg, e, app) /\ MapperInv(e, CallsOf(app)) /\ EnvOK(e, O, I)
    BY BuiltApart DEF BuiltOf, Sealed
  <2>2. e.registry[n].kind = "OBJECT"
    BY <1>2, <2>1 DEF Describes
  <2>. HIDE DEF e, O, I
  <2>3. \/ \E d \in O \cup I : ScalarNamed(e, n, d)
        \/ \E d \in O \cup I : EnumNamed(e, n, d)
        \/ \E d \in O : OutputNamed(e, n, d)
        \/ \E d \in I : InputNamed(e, n, d) /\ (d \in DOMAIN e.byId => d \in O)
    BY <1>2, <2>1, EntryNamed
  <2>4. PICK d \in O : OutputNamed(e, n, d)
    BY <2>2, <2>3 DEF ScalarNamed, EnumNamed, InputNamed
  <2>5. n = Class[d].name /\ Class[d].kind = "model"
    BY <2>4 DEF OutputNamed
  <2>6. n \in NamesOf({c \in Reached(app, FALSE) : Class[c].kind = "model"})
    BY <2>5 DEF NamesOf, O
  <2>. QED BY <2>6 DEF NamesKept
<1>. QED BY <1>1, <1>2

\* The kind of a type.
LEMMA SchemaKinds ==
  ASSUME NEW app, NEW reg, BuiltOf(app, reg), NEW n \in DOMAIN reg
  PROVE  /\ reg[n].kind \in TypeKinds
         /\ reg[n].kind \in {"SCALAR", "ENUM"} => InfoRefs(reg[n]) = {}
<1> DEFINE e == MapperOf(app)
           calls == CallsOf(app)
<1>1. Describes(reg, e, app) /\ Sealed(e, calls)
  BY DEF BuiltOf
<1>. HIDE DEF e, calls
<1>2. \A f : IsObject(reg[n], f) => reg[n].kind = "OBJECT"
  BY ObjectRefs
<1>3. CASE n \in DOMAIN e.registry
  <2>1. e.registry[n] \in Infos(calls) /\ reg[n] = e.registry[n]
    BY <1>1, <1>3, PartialFacts, MapperFacts DEF Sealed, MapperInv, Describes
  <2>2. reg[n].kind \in TypeKinds
    BY <2>1 DEF Infos
  <2>3. ASSUME reg[n].kind \in {"SCALAR", "ENUM"} PROVE InfoRefs(reg[n]) = {}
    <3>1. Whole(e, n)
      BY <1>1, <1>3, SealedWhole
    <3>2. reg[n].fields = << >>
      BY <2>1, <2>3, <3>1 DEF Whole
    <3>3. DOMAIN reg[n].fields = {}
      BY <3>2
    <3>. QED BY <3>3 DEF InfoRefs
  <2>. QED BY <2>2, <2>3
<1>4. CASE \E f : IsObject(reg[n], f)
  BY <1>2, <1>4 DEF TypeKinds
<1>5. n \in DOMAIN e.registry \/ \E f : IsObject(reg[n], f)
  <2>1. \/ n \in DOMAIN e.registry
        \/ \E k \in MethodKinds : \E s \in ServedBy(app, k) : n = TypeOf(s, k)
        \/ n = "Query"
        \/ n = "Mutation" /\ ServedBy(app, "mutation") # {}
    BY <1>1 DEF Describes
  <2>2. /\ \A k \in MethodKinds : \A s \in ServedBy(app, k) :
             IsObject(reg[TypeOf(s, k)], FieldSet(e, app, s, k))
        /\ IsObject(reg["Query"], RootFields(app, "query"))
        /\ ServedBy(app, "mutation") # {} => IsObject(reg["Mutation"], RootFields(app, "mutation"))
    BY <1>1 DEF Describes
  <2>. QED BY <2>1, <2>2
<1>. QED BY <1>3, <1>4, <1>5

LEMMA SdlClosed ==
  ASSUME NEW app, AppOK(app), NamesApart(app), NamesKept(app),
         UseCaseServicesAssumption, ComposeAssumption, NEW reg, BuiltOf(app, reg)
  PROVE  SdlUses(reg) \subseteq SdlDefines(reg)
<1>1. SUFFICES ASSUME NEW x \in SdlUses(reg) PROVE x \in SdlDefines(reg)
  OBVIOUS
<1>2. PICK n \in SdlDefines(reg) : x \in InfoNames(reg[n])
  BY DEF SdlUses
<1>3. n \in DOMAIN reg
  BY DEF SdlDefines
<1>4. PICK r \in InfoRefs(reg[n]) : x = r.name
  BY <1>2 DEF InfoNames
<1>5. x \in DOMAIN reg /\ x \in DOMAIN MapperOf(app).registry \cup ServiceTypes(app)
  BY <1>3, <1>4, SchemaRefers
<1>6. reg[x].kind # "INPUT_OBJECT"
  BY <1>5 DEF SdlUses
<1>7. reg[x].kind \in {"SCALAR", "ENUM", "OBJECT"}
  <2>1. reg[x].kind \in TypeKinds
    BY <1>5, SchemaKinds
  <2>. QED BY <1>6, <2>1 DEF TypeKinds
<1>8. reg[x].kind = "OBJECT" => SdlKeeps(x)
  BY <1>5, ObjectsKept
<1>. QED BY <1>5, <1>7, <1>8 DEF SdlDefines

\* What the applications of a server publish is closed.
LEMMA SchemasClosed ==
  ASSUME NEW a \in DOMAIN App, NamesApart(App[a]), NamesKept(App[a]),
         UseCaseServicesAssumption, ComposeAssumption
  PROVE  FragmentsAreClosed(a)
<1> DEFINE app == App[a]
           reg == Schema[a].registry
<1>1. Schema[a] = BuildComposeSchema(app) /\ AppOK(app)
  BY AppsOK DEF Schema
<1>2. CASE ~Schema[a].failed
  <2>1. BuiltOf(app, reg)
    BY <1>1, <1>2, SchemaOf
  <2>2. \A s \in Range(ServiceNames(app)) : \A m \in Described(reg, s) :
          FragmentUses(reg, s, m.name) \subseteq FragmentDefines(reg, s, m.name)
    BY <1>1, <2>1, FragmentClosed
  <2>3. \A n \in DOMAIN reg :
          LET t == Introspection(reg)[n]
          IN /\ {r.name : r \in t.fields \cup t.inputs} \subseteq DOMAIN reg
             /\ \A r \in t.inputs : reg[r.name].kind # "OBJECT"
             /\ t.kind # "INPUT_OBJECT" => t.inputs = {}
    BY <2>1, IntrospectionClosed
  <2>4. SdlUses(reg) \subseteq SdlDefines(reg)
    BY <1>1, <2>1, SdlClosed
  <2>. HIDE DEF reg
  <2>. QED BY <2>2, <2>3, <2>4 DEF FragmentsAreClosed, TextsClosed, reg
<1>3. CASE Schema[a].failed
  <2>1. Schema[a] = NoSchema
    <3> DEFINE B == Presentable(app) /\ ~MapperOf(app).failed /\ Ended(MapperOf(app), CallsOf(app))
    <3>1. IF B THEN BuildComposeSchema(app).failed = FALSE ELSE BuildComposeSchema(app) = NoSchema
      BY <1>1, SchemaFails
    <3>. HIDE DEF B
    <3>. QED BY <1>1, <1>3, <3>1
  <2>2. reg = << >>
    BY <2>1 DEF NoSchema
  <2>. HIDE DEF reg
  <2>3. DOMAIN reg = {}
    BY <2>2
  <2>4. \A s : Described(reg, s) = {}
    BY <2>3 DEF Described, MethodFields
  <2>5. SdlUses(reg) = {}
    BY <2>3 DEF SdlUses, SdlDefines
  <2>. QED BY <2>3, <2>4, <2>5 DEF FragmentsAreClosed, TextsClosed, reg
<1>. QED BY <1>2, <1>3

-----------------------------------------------------------------------------
(* The classes a mapper has met                                            *)

Met(e, input) == {c \in DOMAIN Class : Known(e, c, input)}

\* They cover the calls the mapper has answered.
LEMMA MetCovers ==
  ASSUME NEW calls, GoodCalls(calls), NEW e, Sealed(e, calls)
  PROVE  Covers(calls, Met(e, FALSE), Met(e, TRUE))
<1> DEFINE S == [items : Seq(ItemsOf(calls)), input : BOOLEAN]
<1>1. calls \in Seq(S) /\ Len(e.answers) = Len(calls) /\ AnswersOK(e, calls) /\ e.answers \in Seq(Seq(MappedItems(calls)))
  BY MapperFacts DEF GoodCalls, Sealed, Ended, MapperInv
<1>2. \A input \in BOOLEAN : Allowed(Met(e, FALSE), Met(e, TRUE), input) = Met(e, input)
  BY DEF Allowed
<1>3. DOMAIN e.answers = DOMAIN calls /\ \A i \in DOMAIN calls : calls[i] \in S
  <2> DEFINE A == Seq(MappedItems(calls))
             s == e.answers
  <2>1. calls \in Seq(S) /\ s \in Seq(A) /\ Len(s) = Len(calls)
    BY <1>1
  <2>. HIDE DEF A, S, s
  <2>2. DOMAIN s = DOMAIN calls /\ \A i \in DOMAIN calls : calls[i] \in S
    BY <2>1
  <2>. QED BY <2>2 DEF s
<1>4. ASSUME NEW i \in DOMAIN calls, NEW j \in DOMAIN calls[i].items
      PROVE  calls[i].items[j].type.leaf \in Met(e, calls[i].input) /\ calls[i].input \in BOOLEAN
  <2>1. MapsAll(e, calls[i].items, calls[i].input, e.answers[i])
    BY <1>1, <1>3 DEF AnswersOK
  <2>2. calls[i].items \in Seq(ItemsOf(calls)) /\ calls[i].input \in BOOLEAN
    BY <1>3
  <2>3. j \in 1 .. Len(calls[i].items)
    BY <2>2
  <2>4. Known(e, calls[i].items[j].type.leaf, calls[i].input)
    BY <2>1, <2>3 DEF MapsAll, Maps
  <2>. QED BY <2>2, <2>4 DEF Met, Known
<1>5. ASSUME NEW input \in BOOLEAN, NEW c \in Met(e, input), Class[c].kind = "model",
             NEW j \in DOMAIN Class[c].fields
      PROVE  Class[c].fields[j].type.leaf \in Met(e, input)
  <2> DEFINE n == LeafName(e, c, input)
  <2>1. c \in DOMAIN Class /\ n \in DOMAIN e.registry /\ e.registry[n].kind = LeafKind(c, input)
        /\ e.registry[n].class = c
    BY <1>5 DEF Met, Known
  <2>2. e.registry[n].kind = IF input THEN "INPUT_OBJECT" ELSE "OBJECT"
    BY <1>5, <2>1 DEF LeafKind
  <2>3. Whole(e, n)
    BY <2>1, SealedWhole
  <2>4. MapsAll(e, Class[c].fields, input, e.registry[n].fields)
    <3>1. input = (e.registry[n].kind = "INPUT_OBJECT")
      BY <2>2
    <3>2. e.registry[n].kind \notin {"SCALAR", "ENUM"}
      BY <2>2
    <3>. HIDE DEF n
    <3>. QED BY <2>1, <2>3, <3>1, <3>2 DEF Whole
  <2>5. j \in 1 .. Len(Class[c].fields)
    BY <2>1 DEF GoodCalls
  <2>6. Known(e, Class[c].fields[j].type.leaf, input)
    BY <2>4, <2>5 DEF MapsAll, Maps
  <2>. QED BY <2>6 DEF Met, Known
<1>. QED BY <1>2, <1>4, <1>5 DEF Covers, Met

\* The bare name of a class that was met stands for it.
Bare(e, c) ==
  /\ c \in DOMAIN Class /\ Class[c].kind \in {"scalar", "enum", "model"}
  /\ Class[c].name \in DOMAIN e.registry
  /\ e.registry[Class[c].name].class = IF Class[c].kind = "scalar" THEN None ELSE c

LEMMA BareName ==
  ASSUME NEW calls, NEW e, MapperInv(e, calls), NEW c \in Met(e, FALSE) \cup Met(e, TRUE)
  PROVE  Bare(e, c)
<1>1. CASE Known(e, c, FALSE)
  BY <1>1 DEF Known, LeafName, Met, Bare
<1>2. CASE Known(e, c, TRUE) /\ ~(Class[c].kind = "model" /\ c \in DOMAIN e.byId)
  BY <1>2 DEF Known, LeafName, Met, Bare
<1>3. CASE c \in DOMAIN e.byId
  <2>1. Known(e, c, FALSE)
    BY <1>3 DEF MapperInv, ByIdOK
  <2>. QED BY <1>1, <2>1
<1>. QED BY <1>1, <1>2, <1>3 DEF Met

\* Two of them share a name only as scalars.
LEMMA OneName ==
  ASSUME NEW calls, GoodCalls(calls), NEW e, MapperInv(e, calls),
         NEW c \in Met(e, FALSE) \cup Met(e, TRUE), NEW d \in Met(e, FALSE) \cup Met(e, TRUE),
         Class[c].name = Class[d].name
  PROVE  c = d \/ (Class[c].kind = "scalar" /\ Class[d].kind = "scalar")
<1>1. Bare(e, c) /\ Bare(e, d)
  BY BareName
<1>2. (IF Class[c].kind = "scalar" THEN None ELSE c) = IF Class[d].kind = "scalar" THEN None ELSE d
  BY <1>1 DEF Bare
<1>3. c \in DOMAIN Class /\ d \in DOMAIN Class /\ None \notin DOMAIN Class
  BY DEF Met, GoodCalls
<1>. QED BY <1>1, <1>2, <1>3

\* None of them has the name another one has as input because it is returned.
LEMMA InputNameOwned ==
  ASSUME NEW calls, GoodCalls(calls), NEW e, MapperInv(e, calls),
         NEW d \in Met(e, FALSE), d \in Met(e, TRUE), Class[d].kind = "model",
         NEW c \in Met(e, FALSE) \cup Met(e, TRUE)
  PROVE  Class[c].name # InputName(d)
<1>. SUFFICES ASSUME Class[c].name = InputName(d) PROVE FALSE
  OBVIOUS
<1>1. Known(e, d, FALSE) /\ Known(e, d, TRUE) /\ d \in DOMAIN Class /\ None \notin DOMAIN Class
  BY DEF Met, GoodCalls
<1>2. LeafName(e, d, FALSE) = Class[d].name /\ Class[d].name \in DOMAIN e.registry
      /\ e.registry[Class[d].name].kind = "OBJECT" /\ e.registry[Class[d].name].class = d
  BY <1>1 DEF Known, LeafName, LeafKind
<1>3. d \in DOMAIN e.byId
  BY <1>2, OutputUnique
<1>4. e.registry[InputName(d)].kind = "INPUT_OBJECT" /\ e.registry[InputName(d)].class = d
  BY <1>1, <1>3 DEF Known, LeafName, LeafKind
<1>5. e.registry[InputName(d)].class = IF Class[c].kind = "scalar" THEN None ELSE c
  BY BareName DEF Bare
<1>6. c = d
  BY <1>1, <1>4, <1>5
<1>. QED BY <1>2, <1>4, <1>6

-----------------------------------------------------------------------------
(* Calls in another order                                                  *)

\* Where only classes are met that another mapper has met, the bare name of one
\* of them is its own, or free.
LEMMA NamedByMet ==
  ASSUME NEW calls, NEW calls2, NEW e, GoodCalls(calls), MapperInv(e, calls), NEW m, MapperInv(m, calls2),
         EnvOK(m, Met(e, FALSE), Met(e, TRUE)), NEW c \in Met(e, FALSE) \cup Met(e, TRUE),
         Class[c].kind # "scalar", Class[c].name \in DOMAIN m.registry
  PROVE  \/ EnumNamed(m, Class[c].name, c)
         \/ OutputNamed(m, Class[c].name, c)
         \/ InputNamed(m, Class[c].name, c) /\ c \notin DOMAIN m.byId
<1> DEFINE n == Class[c].name
           O == Met(e, FALSE)
           I == Met(e, TRUE)
<1>1. \A d \in O \cup I : Class[d].name = n => d = c
  BY OneName
<1>2. \A d \in I : d \in O /\ Class[d].kind = "model" => n # InputName(d)
  BY InputNameOwned
<1>3. EnvOK(m, O, I) /\ n \in DOMAIN m.registry /\ Class[c].kind # "scalar"
  OBVIOUS
<1>. HIDE DEF O, I, n
<1>4. \/ \E d \in O \cup I : ScalarNamed(m, n, d)
      \/ \E d \in O \cup I : EnumNamed(m, n, d)
      \/ \E d \in O : OutputNamed(m, n, d)
      \/ \E d \in I : InputNamed(m, n, d) /\ (d \in DOMAIN m.byId => d \in O)
  BY <1>3, EntryNamed
<1>5. \A d \in O \cup I : ~ScalarNamed(m, n, d)
  BY <1>1, <1>3 DEF ScalarNamed
<1>6. \A d \in O \cup I : EnumNamed(m, n, d) => d = c
  BY <1>1 DEF EnumNamed
<1>7. \A d \in O : OutputNamed(m, n, d) => d = c
  BY <1>1 DEF OutputNamed
<1>8. \A d \in I : InputNamed(m, n, d) /\ (d \in DOMAIN m.byId => d \in O) => d = c /\ d \notin DOMAIN m.byId
  BY <1>1, <1>2 DEF InputNamed
<1>. QED BY <1>4, <1>5, <1>6, <1>7, <1>8 DEF n

LEMMA AnsweredFails ==
  ASSUME NEW m, NEW name, "failed" \in DOMAIN m
  PROVE  Answered(m, name).failed = m.failed
BY DEF Answered

\* A class that another mapper has met can be mapped.
LEMMA LeafFits ==
  ASSUME NEW calls, NEW calls2, NEW e, GoodCalls(calls), GoodCalls(calls2), MapperInv(e, calls),
         NEW m, MapperInv(m, calls2), ~m.failed, HasItem(m), EnvOK(m, Met(e, FALSE), Met(e, TRUE))
  PROVE  ~MapLeaf(m).failed
<1> DEFINE O == Met(e, FALSE)
           I == Met(e, TRUE)
           c == Current(m).type.leaf
           name == Class[c].name
<1>1. /\ c \in Allowed(O, I, Top(m).input) /\ c \in O \cup I /\ c \in DOMAIN Class
      /\ Top(m).input \in BOOLEAN /\ m \in Mappers(calls2) /\ name \in TypeNames /\ InputName(c) \in TypeNames
  BY AtHand
<1>2. "failed" \in DOMAIN m
  BY <1>1 DEF Mappers
<1>3. Class[c].kind \in {"scalar", "enum", "model"}
  BY <1>1, BareName DEF Bare
<1>4. \/ Class[c].kind = "scalar" /\ MapLeaf(m) = RegisterScalar(m, c)
      \/ Class[c].kind = "enum" /\ MapLeaf(m) = RegisterEnum(m, c)
      \/ /\ Class[c].kind = "model"
         /\ MapLeaf(m) = IF Top(m).input THEN RegisterInputObject(m, c) ELSE RegisterObject(m, c)
  <2>1. \/ Class[c].kind \in {"entity", "unsupported"} /\ MapLeaf(m) = Failed(m)
        \/ Class[c].kind = "scalar" /\ MapLeaf(m) = RegisterScalar(m, c)
        \/ Class[c].kind = "enum" /\ MapLeaf(m) = RegisterEnum(m, c)
        \/ /\ Class[c].kind = "model"
           /\ MapLeaf(m) = IF Top(m).input THEN RegisterInputObject(m, c) ELSE RegisterObject(m, c)
    BY MapLeafCases
  <2>. HIDE DEF c
  <2>. QED BY <1>3, <2>1
<1>5. Class[c].kind # "scalar" /\ name \in DOMAIN m.registry =>
        \/ EnumNamed(m, name, c) \/ OutputNamed(m, name, c)
        \/ InputNamed(m, name, c) /\ c \notin DOMAIN m.byId
  BY <1>1, NamedByMet
<1>. HIDE DEF c, O, I, name
<1>6. CASE Class[c].kind = "scalar"
  <2> DEFINE R == IF Class[c].name \in DOMAIN m.registry THEN m.registry
                  ELSE Put(m.registry, Class[c].name, TypeInfo("SCALAR", None, << >>))
             m2 == [m EXCEPT !.registry = R]
  <2>1. RegisterScalar(m, c) = Answered(m2, Class[c].name)
    BY DEF RegisterScalar
  <2>. HIDE DEF R
  <2>2. "failed" \in DOMAIN m2 /\ m2.failed = m.failed
    BY <1>2
  <2>. HIDE DEF m2
  <2>. QED BY <1>4, <1>6, <2>1, <2>2, AnsweredFails
<1>7. CASE Class[c].kind = "enum"
  <2> DEFINE R == Put(m.registry, Class[c].name, TypeInfo("ENUM", c, << >>))
             B == Put(m.byId, c, Class[c].name)
             m2 == [m EXCEPT !.byId = B, !.registry = R]
  <2>1. c \notin DOMAIN m.byId => Class[c].name \notin DOMAIN m.registry
    BY <1>5, <1>7 DEF EnumNamed, OutputNamed, InputNamed, name
  <2>2. RegisterEnum(m, c) = IF c \in DOMAIN m.byId THEN Answered(m, m.byId[c]) ELSE Answered(m2, Class[c].name)
    BY <2>1 DEF RegisterEnum
  <2>. HIDE DEF R, B
  <2>3. "failed" \in DOMAIN m2 /\ m2.failed = m.failed
    BY <1>2
  <2>. HIDE DEF m2
  <2>4. ~RegisterEnum(m, c).failed
    BY <1>2, <2>2, <2>3, AnsweredFails
  <2>. QED BY <1>4, <1>7, <2>4
<1>8. ASSUME NEW x \in TypeNames, NEW input \in BOOLEAN PROVE ~Define(m, c, x, input).failed
  BY <1>2 DEF Define
<1>9. CASE Class[c].kind = "model" /\ ~Top(m).input
  <2>1. ~InputMet(m, calls2)
    <3>1. m.open # << >>
      BY DEF HasItem
    <3>. QED BY <1>9, <3>1, InputMetTop
  <2>2. ASSUME c \notin DOMAIN m.byId, name \in DOMAIN m.registry PROVE FALSE
    <3>1. InputNamed(m, name, c)
      BY <1>5, <1>9, <2>2 DEF EnumNamed, OutputNamed
    <3>. QED BY <2>1, <2>2, <3>1 DEF InputNamed, MapperInv, PhaseOK
  <2>3. \/ RegisterObject(m, c) = Answered(m, m.byId[c])
        \/ RegisterObject(m, c) = Define(m, c, Class[c].name, FALSE)
    BY <2>2 DEF RegisterObject, name
  <2>4. ~RegisterObject(m, c).failed
    BY <1>1, <1>2, <1>8, <2>3, AnsweredFails DEF name
  <2>. QED BY <1>4, <1>9, <2>4
<1>10. CASE Class[c].kind = "model" /\ Top(m).input
  <2> DEFINE known == {n \in DOMAIN m.registry :
                         m.registry[n].kind = "INPUT_OBJECT" /\ m.registry[n].class = c}
             returned == Class[c].name \in DOMAIN m.registry
                         /\ m.registry[Class[c].name].class = c /\ m.registry[Class[c].name].kind = "OBJECT"
  <2>1. ASSUME known = {}, name \in DOMAIN m.registry PROVE returned
    <3>1. OutputNamed(m, name, c)
      BY <1>5, <1>10, <2>1 DEF EnumNamed, InputNamed
    <3>. QED BY <2>1, <3>1 DEF OutputNamed, name
  <2>2. RegisterInputObject(m, c) =
          CASE known # {} -> Answered(m, CHOOSE n \in known : TRUE)
            [] known = {} /\ ~returned /\ Class[c].name \in DOMAIN m.registry -> Failed(m)
            [] OTHER -> Define(m, c, IF returned THEN InputName(c) ELSE Class[c].name, TRUE)
    BY DEF RegisterInputObject
  <2>. HIDE DEF known, returned
  <2>3. \/ RegisterInputObject(m, c) = Answered(m, CHOOSE n \in known : TRUE)
        \/ RegisterInputObject(m, c) = Define(m, c, InputName(c), TRUE)
        \/ RegisterInputObject(m, c) = Define(m, c, Class[c].name, TRUE)
    BY <2>1, <2>2 DEF name
  <2>4. ~RegisterInputObject(m, c).failed
    BY <1>1, <1>2, <1>8, <2>3, AnsweredFails DEF name
  <2>. QED BY <1>4, <1>10, <2>4
<1>. QED BY <1>3, <1>6, <1>7, <1>9, <1>10

\* No step of such a mapper fails.
LEMMA StepFits ==
  ASSUME NEW calls, NEW calls2, NEW e, GoodCalls(calls), GoodCalls(calls2), MapperInv(e, calls),
         NEW m, MapperInv(m, calls2), ~m.failed, EnvOK(m, Met(e, FALSE), Met(e, TRUE))
  PROVE  ~MapStep(m, calls2).failed
<1>0. m \in Mappers(calls2) /\ "failed" \in DOMAIN m
  BY DEF MapperInv, Mappers
<1>1. CASE Ended(m, calls2)
  BY <1>1 DEF MapStep, Ended
<1>2. CASE m.open = << >> /\ ~Ended(m, calls2)
  <2>1. MapStep(m, calls2) = [m EXCEPT !.open = <<Walk(calls2[Len(m.answers) + 1], None, None)>>]
    BY <1>2 DEF MapStep
  <2> DEFINE w == <<Walk(calls2[Len(m.answers) + 1], None, None)>>
  <2>. HIDE DEF w
  <2>2. MapStep(m, calls2) = [m EXCEPT !.open = w]
    BY <2>1 DEF w
  <2>. QED BY <1>0, <2>2
<1>3. CASE m.open # << >> /\ HasItem(m)
  <2>1. MapStep(m, calls2) = MapLeaf(m)
    BY <1>3 DEF MapStep, HasItem, Ended
  <2>. QED BY <1>3, <2>1, LeafFits
<1>4. CASE m.open # << >> /\ ~HasItem(m)
  <2> DEFINE f == Top(m)
             rest == [m EXCEPT !.open = Front(@)]
             m1 == [rest EXCEPT !.registry[f.name].fields = f.mapped]
             A == [rest EXCEPT !.answers = Append(@, f.mapped)]
  <2>1. MapStep(m, calls2) = Return(m)
    BY <1>4 DEF MapStep, HasItem, Ended
  <2>2. Return(m) = IF f.class = None THEN A ELSE Answered(m1, f.name)
    BY DEF Return
  <2>3. "failed" \in DOMAIN rest /\ rest.failed = m.failed
    BY <1>0
  <2>. HIDE DEF rest, f
  <2>4. "failed" \in DOMAIN m1 /\ m1.failed = m.failed /\ A.failed = m.failed
    BY <2>3
  <2>. HIDE DEF m1, A
  <2>. QED BY <2>1, <2>2, <2>4, AnsweredFails
<1>. QED BY <1>1, <1>2, <1>3, <1>4

\* A mapper answers calls that another one has answered in another order.
LEMMA MappedFits ==
  ASSUME NEW calls, NEW calls2, NEW e, GoodCalls(calls), GoodCalls(calls2), Sealed(e, calls),
         MaxSteps \in Nat, Range(calls2) \subseteq Range(calls),
         NEW O, NEW I, Covers(calls2, O, I), Apart(O, I)
  PROVE  ~Mapped(calls2).failed
<1>1. PICK f : /\ Mapped(calls2) = f[MaxSteps] /\ f[0] = EmptyMapper
               /\ \A k \in 1 .. MaxSteps : f[k] = MapStep(f[k - 1], calls2)
  BY MappedRun
<1> DEFINE S == Met(e, FALSE)
           T == Met(e, TRUE)
<1>2. Covers(calls2, S, T) /\ MapperInv(e, calls)
  BY MetCovers, CoversRange DEF Sealed
<1> DEFINE OK(k) == ~f[k].failed /\ MapperInv(f[k], calls2) /\ EnvOK(f[k], S, T) /\ EnvOK(f[k], O, I)
           Bad == {k \in 0 .. MaxSteps : ~OK(k)}
<1>a. OK(0)
  BY <1>1, EmptyInv
<1>. HIDE DEF OK
<1>3. Bad = {}
  <2> SUFFICES ASSUME Bad # {} PROVE FALSE
    OBVIOUS
  <2>1. PICK k \in Bad : \A j \in Bad : k <= j
    <3>1. Bad \subseteq Nat /\ Bad # {}
      OBVIOUS
    <3>. HIDE DEF Bad
    <3>. QED BY <3>1, LeastNat
  <2>2. k # 0
    BY <1>a, <2>1
  <2>3. k \in 1 .. MaxSteps /\ k - 1 \in 0 .. MaxSteps /\ k - 1 \notin Bad
    BY <2>1, <2>2
  <2>4. f[k] = MapStep(f[k - 1], calls2) /\ OK(k - 1) /\ ~OK(k)
    BY <1>1, <2>1, <2>3
  <2> DEFINE m == f[k - 1]
  <2>5. ~m.failed /\ MapperInv(m, calls2) /\ EnvOK(m, S, T) /\ EnvOK(m, O, I)
    BY <2>4 DEF OK
  <2>. HIDE DEF m
  <2>6. ~MapStep(m, calls2).failed
    BY <1>2, <2>5, StepFits
  <2>7. EnvOK(MapStep(m, calls2), S, T) /\ EnvOK(MapStep(m, calls2), O, I)
    BY <1>2, <2>5, StepEnv
  <2>8. MapperInv(MapStep(m, calls2), calls2)
    BY <2>5, <2>6, StepInv
  <2>. QED BY <2>4, <2>6, <2>7, <2>8 DEF m, OK
<1>4. MaxSteps \in 0 .. MaxSteps
  OBVIOUS
<1>5. OK(MaxSteps)
  BY <1>3, <1>4
<1>. QED BY <1>1, <1>5 DEF OK

LEMMA ScalarUnique ==
  ASSUME NEW calls, NEW m, MapperInv(m, calls), NEW n \in DOMAIN m.registry,
         m.registry[n].kind = "SCALAR"
  PROVE  m.registry[n].class = None
<1>1. EntryOK(m, n)
  BY DEF MapperInv
<1>2. ASSUME NEW d, m.registry[n] = TypeInfo("ENUM", d, << >>) PROVE FALSE
  BY <1>2 DEF TypeInfo
<1>3. \A d \in DOMAIN Class, i \in BOOLEAN : ~ModelEntry(m, n, d, i)
  BY DEF ModelEntry, LeafKind
<1>4. ScalarEntry(m, n)
  BY <1>1, <1>2, <1>3 DEF EntryOK, EnumEntry
<1>. QED BY <1>4 DEF ScalarEntry, TypeInfo

\* Two mappers that have met each other's classes only.
Alike(e, e2) ==
  EnvOK(e, Met(e2, FALSE), Met(e2, TRUE)) /\ EnvOK(e2, Met(e, FALSE), Met(e, TRUE))

LEMMA SameOutputs ==
  ASSUME NEW calls, NEW e, NEW e2, MapperInv(e, calls), EnvOK(e2, Met(e, FALSE), Met(e, TRUE)),
         NEW c \in DOMAIN e2.byId, Class[c].kind = "model"
  PROVE  c \in DOMAIN e.byId
<1>1. c \in Met(e, FALSE)
  BY DEF EnvOK
<1>2. Known(e, c, FALSE)
  BY <1>1 DEF Met
<1>3. Class[c].name \in DOMAIN e.registry /\ e.registry[Class[c].name].kind = "OBJECT"
      /\ e.registry[Class[c].name].class = c
  BY <1>2 DEF Known, LeafName, LeafKind
<1>. QED BY <1>3, OutputUnique

LEMMA SameNames ==
  ASSUME NEW calls, NEW calls2, NEW e, NEW e2, MapperInv(e, calls), MapperInv(e2, calls2), Alike(e, e2)
  PROVE  \A c, input : LeafName(e2, c, input) = LeafName(e, c, input)
<1>1. \A c : Class[c].kind = "model" => (c \in DOMAIN e.byId <=> c \in DOMAIN e2.byId)
  BY SameOutputs DEF Alike
<1>. QED BY <1>1 DEF LeafName

\* What the one has registered, the other has for the same class.
LEMMA EntryThere ==
  ASSUME NEW calls, NEW calls2, NEW e, NEW e2, MapperInv(e, calls), MapperInv(e2, calls2), Alike(e, e2),
         NEW n \in DOMAIN e2.registry
  PROVE  /\ n \in DOMAIN e.registry /\ e.registry[n].kind = e2.registry[n].kind
         /\ e.registry[n].class = e2.registry[n].class
<1> DEFINE O == Met(e, FALSE)
           I == Met(e, TRUE)
<1>1. EnvOK(e2, O, I)
  BY DEF Alike
<1>2. \A c : (c \in O => Known(e, c, FALSE)) /\ (c \in I => Known(e, c, TRUE))
  BY DEF Met
<1>3. \A c, input : LeafName(e2, c, input) = LeafName(e, c, input)
  BY SameNames
<1>. HIDE DEF O, I
<1>4. \/ \E d \in O \cup I : ScalarNamed(e2, n, d)
      \/ \E d \in O \cup I : EnumNamed(e2, n, d)
      \/ \E d \in O : OutputNamed(e2, n, d)
      \/ \E d \in I : InputNamed(e2, n, d) /\ (d \in DOMAIN e2.byId => d \in O)
  BY <1>1, EntryNamed
<1>5. ASSUME NEW d \in O \cup I, ScalarNamed(e2, n, d)
      PROVE  /\ n \in DOMAIN e.registry /\ e.registry[n].kind = e2.registry[n].kind
             /\ e.registry[n].class = e2.registry[n].class
  <2>1. e2.registry[n].kind = "SCALAR" /\ e2.registry[n].class = None
    BY <1>5, ScalarUnique DEF ScalarNamed
  <2>2. Known(e, d, FALSE) \/ Known(e, d, TRUE)
    BY <1>2
  <2>. QED BY <1>5, <2>1, <2>2 DEF ScalarNamed, Known, LeafName, LeafKind
<1>6. ASSUME NEW d \in O \cup I, EnumNamed(e2, n, d)
      PROVE  /\ n \in DOMAIN e.registry /\ e.registry[n].kind = e2.registry[n].kind
             /\ e.registry[n].class = e2.registry[n].class
  <2>1. Known(e, d, FALSE) \/ Known(e, d, TRUE)
    BY <1>2
  <2>. QED BY <1>6, <2>1 DEF EnumNamed, Known, LeafName, LeafKind
<1>7. ASSUME NEW d \in O, OutputNamed(e2, n, d)
      PROVE  /\ n \in DOMAIN e.registry /\ e.registry[n].kind = e2.registry[n].kind
             /\ e.registry[n].class = e2.registry[n].class
  BY <1>2, <1>7 DEF OutputNamed, Known, LeafName, LeafKind
<1>8. ASSUME NEW d \in I, InputNamed(e2, n, d)
      PROVE  /\ n \in DOMAIN e.registry /\ e.registry[n].kind = e2.registry[n].kind
             /\ e.registry[n].class = e2.registry[n].class
  <2>1. n = LeafName(e2, d, TRUE)
    BY <1>8 DEF InputNamed, LeafName
  <2>2. Known(e, d, TRUE) /\ n = LeafName(e, d, TRUE)
    BY <1>2, <1>3, <2>1
  <2>. QED BY <1>8, <2>2 DEF InputNamed, Known, LeafKind
<1>. QED BY <1>4, <1>5, <1>6, <1>7, <1>8

LEMMA SameMaps ==
  ASSUME NEW calls, NEW calls2, NEW e, NEW e2, MapperInv(e, calls), MapperInv(e2, calls2), Alike(e, e2),
         NEW xs, NEW input, NEW A, NEW A2, NEW s \in Seq(A), NEW t \in Seq(A2),
         MapsAll(e, xs, input, s), MapsAll(e2, xs, input, t)
  PROVE  s = t
<1>1. \A c, i : LeafName(e2, c, i) = LeafName(e, c, i)
  BY SameNames
<1>2. \A x, i : RefTo(e2, x, i) = RefTo(e, x, i)
  BY <1>1 DEF RefTo
<1>3. Len(s) = Len(xs) /\ Len(t) = Len(xs) /\ \A j \in 1 .. Len(xs) : s[j] = t[j]
  BY <1>2 DEF MapsAll, Maps
<1>. QED BY <1>3

\* Mappers alike have the same registry.
LEMMA SameRegistry ==
  ASSUME NEW calls, NEW calls2, NEW e, NEW e2, Sealed(e, calls), Sealed(e2, calls2), Alike(e, e2)
  PROVE  e2.registry = e.registry
<1>1. MapperInv(e, calls) /\ MapperInv(e2, calls2) /\ Alike(e2, e)
  BY DEF Sealed, Alike
<1>2. \A n \in DOMAIN e2.registry :
        /\ n \in DOMAIN e.registry /\ e.registry[n].kind = e2.registry[n].kind
        /\ e.registry[n].class = e2.registry[n].class
  BY <1>1, EntryThere
<1>3. \A n \in DOMAIN e.registry : n \in DOMAIN e2.registry
  BY <1>1, EntryThere
<1>4. ASSUME NEW n \in DOMAIN e2.registry PROVE e2.registry[n] = e.registry[n]
  <2> DEFINE r == e.registry[n]
             t == e2.registry[n]
  <2>1. r \in Infos(calls) /\ t \in Infos(calls2)
    BY <1>1, <1>2, PartialFacts, MapperFacts DEF MapperInv
  <2>2. Whole(e, n) /\ Whole(e2, n)
    BY <1>2, SealedWhole
  <2>3. r.kind = t.kind /\ r.class = t.class
    BY <1>2
  <2>4. r.fields \in Seq(MappedItems(calls)) /\ t.fields \in Seq(MappedItems(calls2))
    BY <2>1 DEF Infos
  <2>5. \/ r.fields = << >> /\ t.fields = << >>
        \/ /\ MapsAll(e, Class[r.class].fields, r.kind = "INPUT_OBJECT", r.fields)
           /\ MapsAll(e2, Class[r.class].fields, r.kind = "INPUT_OBJECT", t.fields)
    BY <2>2, <2>3 DEF Whole
  <2>. HIDE DEF r, t
  <2>6. r.fields = t.fields
    <3>1. CASE r.fields = << >> /\ t.fields = << >>
      BY <3>1
    <3>2. CASE /\ MapsAll(e, Class[r.class].fields, r.kind = "INPUT_OBJECT", r.fields)
               /\ MapsAll(e2, Class[r.class].fields, r.kind = "INPUT_OBJECT", t.fields)
      <4> DEFINE A == MappedItems(calls)
                 A2 == MappedItems(calls2)
                 input == r.kind = "INPUT_OBJECT"
                 xs == Class[r.class].fields
      <4>1. r.fields \in Seq(A) /\ t.fields \in Seq(A2)
        BY <2>4
      <4>2. MapsAll(e, xs, input, r.fields) /\ MapsAll(e2, xs, input, t.fields)
        BY <3>2
      <4>. HIDE DEF A, A2, input, xs
      <4>. QED BY <1>1, <4>1, <4>2, SameMaps
    <3>. QED BY <2>5, <3>1, <3>2
  <2>7. r = t
    BY <2>1, <2>3, <2>6 DEF Infos
  <2>. QED BY <2>7 DEF r, t
<1>5. e.registry \in [DOMAIN e.registry -> Infos(calls)]
      /\ e2.registry \in [DOMAIN e2.registry -> Infos(calls2)]
  <2>1. e.registry \in Partial(TypeNames, Infos(calls)) /\ e2.registry \in Partial(TypeNames, Infos(calls2))
    BY <1>1, MapperFacts DEF MapperInv
  <2>. QED BY <2>1, PartialFacts
<1>. QED BY <1>2, <1>3, <1>4, <1>5

-----------------------------------------------------------------------------
(* Applications in another order                                           *)

\* The same methods of the same services.
Rearranged(app, app2) ==
  /\ AppOK(app) /\ AppOK(app2) /\ MetaSet(app2) = MetaSet(app)
  /\ Range(ServiceNames(app2)) = Range(ServiceNames(app))
  /\ UniqueItems(ServiceNames(app2)) <=> UniqueItems(ServiceNames(app))

LEMMA RearrangedCalls ==
  ASSUME NEW app, NEW app2, Rearranged(app, app2)
  PROVE  Range(CallsOf(app2)) = Range(CallsOf(app))
<1> DEFINE T == MetaSet(app)
           metas == MethodMetas(app)
           metas2 == MethodMetas(app2)
<1>1. metas \in Seq(T) /\ metas2 \in Seq(T) /\ Range(metas2) = Range(metas)
  BY MetasFacts DEF Rearranged
<1>. HIDE DEF T, metas, metas2
<1>2. Range(MethodCalls(metas2)) \subseteq Range(MethodCalls(metas))
      /\ Range(MethodCalls(metas)) \subseteq Range(MethodCalls(metas2))
  BY <1>1, CallsRange
<1>. QED BY <1>2 DEF CallsOf, metas, metas2

LEMMA RearrangedApart ==
  ASSUME NEW app, NEW app2, Rearranged(app, app2), NamesApart(app)
  PROVE  NamesApart(app2)
<1>1. ASSUME NEW input PROVE Reached(app2, input) = Reached(app, input)
  <2>1. Range(MethodCalls(MethodMetas(app2))) = Range(MethodCalls(MethodMetas(app)))
    BY RearrangedCalls DEF CallsOf
  <2>2. LeavesOf(MethodCalls(MethodMetas(app2)), input) = LeavesOf(MethodCalls(MethodMetas(app)), input)
    BY <2>1 DEF LeavesOf
  <2>. QED BY <2>2 DEF Reached
<1>2. Range(ServiceNames(app2)) = Range(ServiceNames(app))
  BY DEF Rearranged
<1>3. ServiceTypes(app2) = ServiceTypes(app)
  BY <1>2 DEF ServiceTypes
<1>4. Reached(app2, FALSE) = Reached(app, FALSE) /\ Reached(app2, TRUE) = Reached(app, TRUE)
  BY <1>1
<1>. QED BY <1>2, <1>3, <1>4 DEF NamesApart

\* A mapper that has as many steps as it takes.
Suffices(app) == MapperOf(app).failed \/ Ended(MapperOf(app), CallsOf(app))

LEMMA RearrangedBuilt ==
  ASSUME NEW app, NEW app2, Rearranged(app, app2), NamesApart(app), Suffices(app2),
         UseCaseServicesAssumption, ComposeAssumption, ~BuildComposeSchema(app).failed
  PROVE  BuildComposeSchema(app2).failed = FALSE
<1> DEFINE calls == CallsOf(app)
           calls2 == CallsOf(app2)
           e == MapperOf(app)
<1>1. BuiltOf(app, BuildComposeSchema(app).registry) /\ AppOK(app) /\ AppOK(app2)
  BY SchemaOf DEF Rearranged
<1>2. Presentable(app) /\ Presentable(app2) /\ Sealed(e, calls)
  BY <1>1 DEF BuiltOf, Presentable, Rearranged
<1>3. GoodCalls(calls) /\ GoodCalls(calls2)
      /\ Covers(calls2, Reached(app2, FALSE), Reached(app2, TRUE))
  BY <1>1, <1>2, PresentableCalls
<1>4. Apart(Reached(app2, FALSE), Reached(app2, TRUE)) /\ MaxSteps \in Nat
  BY RearrangedApart, NamesApartApart DEF ComposeAssumption
<1>5. Range(calls2) \subseteq Range(calls)
  BY RearrangedCalls
<1>6. ~Mapped(calls2).failed
  <2> DEFINE O == Reached(app2, FALSE)
             I == Reached(app2, TRUE)
  <2>1. Covers(calls2, O, I) /\ Apart(O, I)
    BY <1>3, <1>4
  <2>. HIDE DEF O, I, calls, calls2, e
  <2>. QED BY <1>2, <1>3, <1>4, <1>5, <2>1, MappedFits
<1>7. ~MapperOf(app2).failed /\ Ended(MapperOf(app2), calls2)
  BY <1>6 DEF Suffices, MapperOf
<1> DEFINE B == Presentable(app2) /\ ~MapperOf(app2).failed /\ Ended(MapperOf(app2), CallsOf(app2))
<1>8. IF B THEN BuildComposeSchema(app2).failed = FALSE ELSE BuildComposeSchema(app2) = NoSchema
  BY <1>1, SchemaFails
<1>9. B
  BY <1>2, <1>7
<1>. HIDE DEF B
<1>. QED BY <1>8, <1>9

\* Their mappers have the same registry.
LEMMA RearrangedAlike ==
  ASSUME NEW app, NEW app2, Rearranged(app, app2), UseCaseServicesAssumption, ComposeAssumption,
         Presentable(app), Presentable(app2),
         Sealed(MapperOf(app), CallsOf(app)), Sealed(MapperOf(app2), CallsOf(app2))
  PROVE  /\ MapperOf(app2).registry = MapperOf(app).registry
         /\ \A meta : FieldFor(MapperOf(app2), meta) = FieldFor(MapperOf(app), meta)
<1> DEFINE calls == CallsOf(app)
           calls2 == CallsOf(app2)
           e == MapperOf(app)
           e2 == MapperOf(app2)
<1>1. GoodCalls(calls) /\ GoodCalls(calls2) /\ Range(calls2) = Range(calls)
  BY RearrangedCalls, PresentableCalls DEF Rearranged
<1>2. Sealed(e, calls) /\ Sealed(e2, calls2)
  OBVIOUS
<1>. HIDE DEF e, e2, calls, calls2
<1>3. Covers(calls2, Met(e, FALSE), Met(e, TRUE)) /\ Covers(calls, Met(e2, FALSE), Met(e2, TRUE))
  BY <1>1, <1>2, MetCovers, CoversRange
<1>4. Alike(e, e2) /\ MapperInv(e, calls) /\ MapperInv(e2, calls2)
  BY <1>2, <1>3 DEF Alike, Sealed, Tight
<1>5. e2.registry = e.registry
  BY <1>2, <1>4, SameRegistry
<1>6. \A c, input : LeafName(e2, c, input) = LeafName(e, c, input)
  BY <1>4, SameNames
<1>7. \A t, input : RefTo(e2, t, input) = RefTo(e, t, input)
  BY <1>6 DEF RefTo
<1>8. \A meta : FieldFor(e2, meta) = FieldFor(e, meta)
  BY <1>7 DEF FieldFor
<1>. QED BY <1>5, <1>8 DEF e, e2

\* What a type that serves methods means is which fields it has.
LEMMA ObjectMeaning ==
  ASSUME NEW info, NEW info2, NEW fields, IsObject(info, fields), IsObject(info2, fields)
  PROVE  [info EXCEPT !.fields = Range(@)] = [info2 EXCEPT !.fields = Range(@)]
<1> DEFINE q == info.fields
           q2 == info2.fields
<1>1. info = [kind |-> "OBJECT", class |-> None, fields |-> q] /\ Range(q) = fields
      /\ info2 = [kind |-> "OBJECT", class |-> None, fields |-> q2] /\ Range(q2) = fields
  BY DEF IsObject, TypeInfo
<1>. HIDE DEF q, q2
<1>2. [info EXCEPT !.fields = Range(@)] = [kind |-> "OBJECT", class |-> None, fields |-> fields]
      /\ [info2 EXCEPT !.fields = Range(@)] = [kind |-> "OBJECT", class |-> None, fields |-> fields]
  BY <1>1
<1>. QED BY <1>2

LEMMA DescribedAlike ==
  ASSUME NEW app, NEW app2, Rearranged(app, app2), NEW e, NEW e2, e2.registry = e.registry,
         \A meta : FieldFor(e2, meta) = FieldFor(e, meta),
         NEW reg, NEW reg2, Describes(reg, e, app), Describes(reg2, e2, app2)
  PROVE  [n \in DOMAIN reg2 |-> [reg2[n] EXCEPT !.fields = Range(@)]]
         = [n \in DOMAIN reg |-> [reg[n] EXCEPT !.fields = Range(@)]]
<1>1. \A k : ServedBy(app2, k) = ServedBy(app, k)
  BY DEF ServedBy, Rearranged
<1>2. \A k : RootFields(app2, k) = RootFields(app, k)
  BY <1>1 DEF RootFields
<1>3. \A s, k : FieldSet(e2, app2, s, k) = FieldSet(e, app, s, k)
  <2> TAKE s, k
  <2>1. {x \in MetaSet(app2) : x.service = s /\ x.method.kind = k}
        = {x \in MetaSet(app) : x.service = s /\ x.method.kind = k}
    BY DEF Rearranged
  <2>. QED BY <2>1 DEF FieldSet
<1>4. DOMAIN reg2 = DOMAIN reg
  <2>1. \A n : n \in DOMAIN reg2 <=> n \in DOMAIN reg
    BY <1>1 DEF Describes
  <2>. QED BY <2>1
<1>5. ASSUME NEW n \in DOMAIN reg
      PROVE  [reg2[n] EXCEPT !.fields = Range(@)] = [reg[n] EXCEPT !.fields = Range(@)]
  <2>1. CASE n \in DOMAIN e.registry
    <3>1. reg2[n] = reg[n]
      BY <2>1 DEF Describes
    <3>. QED BY <3>1
  <2>2. ASSUME NEW k \in MethodKinds, NEW s \in ServedBy(app, k), n = TypeOf(s, k)
        PROVE  \E F : IsObject(reg[n], F) /\ IsObject(reg2[n], F)
    <3>1. IsObject(reg[n], FieldSet(e, app, s, k))
      BY <2>2 DEF Describes
    <3>2. IsObject(reg2[n], FieldSet(e2, app2, s, k))
      BY <1>1, <2>2 DEF Describes
    <3>. QED BY <1>3, <3>1, <3>2
  <2>3. CASE n = "Query"
    <3>1. IsObject(reg[n], RootFields(app, "query")) /\ IsObject(reg2[n], RootFields(app, "query"))
      BY <1>2, <2>3 DEF Describes
    <3>. QED BY <3>1, ObjectMeaning
  <2>4. CASE n = "Mutation" /\ ServedBy(app, "mutation") # {}
    <3>1. IsObject(reg[n], RootFields(app, "mutation")) /\ IsObject(reg2[n], RootFields(app, "mutation"))
      BY <1>1, <1>2, <2>4 DEF Describes
    <3>. QED BY <3>1, ObjectMeaning
  <2>5. \/ n \in DOMAIN e.registry
        \/ \E k \in MethodKinds : \E s \in ServedBy(app, k) : n = TypeOf(s, k)
        \/ n = "Query"
        \/ n = "Mutation" /\ ServedBy(app, "mutation") # {}
    BY DEF Describes
  <2>. QED BY <2>1, <2>2, <2>3, <2>4, <2>5, ObjectMeaning
<1>. QED BY <1>4, <1>5

LEMMA RearrangedBack ==
  ASSUME NEW app, NEW app2, Rearranged(app, app2)
  PROVE  Rearranged(app2, app)
BY DEF Rearranged

\* The same methods in another order make a schema of the same meaning.
LEMMA SameMeaning ==
  ASSUME NEW app, NEW app2, Rearranged(app, app2), NamesApart(app), Suffices(app), Suffices(app2),
         UseCaseServicesAssumption, ComposeAssumption
  PROVE  Meaning(BuildComposeSchema(app2)) = Meaning(BuildComposeSchema(app))
<1> DEFINE schema == BuildComposeSchema(app)
           schema2 == BuildComposeSchema(app2)
<1>1. Rearranged(app2, app) /\ NamesApart(app2) /\ AppOK(app) /\ AppOK(app2)
  BY RearrangedBack, RearrangedApart DEF Rearranged
<1>2. (~schema.failed => schema2.failed = FALSE) /\ (~schema2.failed => schema.failed = FALSE)
  BY <1>1, RearrangedBuilt
<1>3. CASE schema.failed
  <2>1. schema2.failed
    BY <1>2, <1>3
  <2>2. Meaning(schema) = NoSchema /\ Meaning(schema2) = NoSchema
    BY <1>3, <2>1 DEF Meaning
  <2>. QED BY <2>2
<1>4. CASE ~schema.failed
  <2> DEFINE reg == schema.registry
             reg2 == schema2.registry
             e == MapperOf(app)
             e2 == MapperOf(app2)
  <2>1. BuiltOf(app, reg) /\ BuiltOf(app2, reg2)
    BY <1>1, <1>2, <1>4, SchemaOf
  <2>2. /\ Presentable(app) /\ Sealed(e, CallsOf(app)) /\ Describes(reg, e, app)
        /\ Presentable(app2) /\ Sealed(e2, CallsOf(app2)) /\ Describes(reg2, e2, app2)
    BY <2>1 DEF BuiltOf
  <2>3. e2.registry = e.registry /\ \A meta : FieldFor(e2, meta) = FieldFor(e, meta)
    BY <2>2, RearrangedAlike
  <2>. HIDE DEF e, e2, reg, reg2
  <2>4. [n \in DOMAIN reg2 |-> [reg2[n] EXCEPT !.fields = Range(@)]]
        = [n \in DOMAIN reg |-> [reg[n] EXCEPT !.fields = Range(@)]]
    BY <2>2, <2>3, DescribedAlike
  <2>5. ~schema2.failed
    BY <1>2, <1>4
  <2>6. Meaning(schema)
        = [failed |-> FALSE, registry |-> [n \in DOMAIN reg |-> [reg[n] EXCEPT !.fields = Range(@)]]]
    BY <1>4 DEF Meaning, reg
  <2>7. Meaning(schema2)
        = [failed |-> FALSE, registry |-> [n \in DOMAIN reg2 |-> [reg2[n] EXCEPT !.fields = Range(@)]]]
    BY <2>5 DEF Meaning, reg2
  <2>. QED BY <2>4, <2>6, <2>7
<1>. QED BY <1>3, <1>4

LEMMA ReverseFacts ==
  ASSUME NEW s, s \in Seq(Range(s))
  PROVE  Reverse(s) \in Seq(Range(Reverse(s))) /\ Range(Reverse(s)) = Range(s)
<1> DEFINE r == Reverse(s)
           n == Len(s)
<1>1. n \in Nat /\ DOMAIN s = 1 .. n
  OBVIOUS
<1>2. r = [i \in 1 .. n |-> s[(n - i) + 1]]
  BY DEF Reverse
<1>. HIDE DEF r, n
<1>3. \A i \in 1 .. n : (n - i) + 1 \in 1 .. n /\ (n - ((n - i) + 1)) + 1 = i
  BY <1>1
<1>4. \A i \in 1 .. n : r[i] = s[(n - i) + 1] /\ r[(n - i) + 1] = s[i]
  BY <1>2, <1>3
<1>5. DOMAIN r = 1 .. n
  BY <1>2
<1>6. Range(r) = Range(s)
  <2>1. \A x \in Range(r) : x \in Range(s)
    BY <1>1, <1>3, <1>4, <1>5 DEF Range
  <2>2. \A x \in Range(s) : x \in Range(r)
    BY <1>1, <1>3, <1>4, <1>5 DEF Range
  <2>. QED BY <2>1, <2>2
<1>7. r \in [1 .. n -> Range(r)]
  <2>1. \A i \in 1 .. n : r[i] \in Range(r)
    BY <1>5 DEF Range
  <2>. QED BY <1>2, <2>1
<1>8. r \in Seq(Range(r))
  BY <1>1, <1>7
<1>. QED BY <1>6, <1>8 DEF r

\* A sequence of the first numbers that has no two equal has each of them.
LEMMA EachPlace ==
  ASSUME NEW n \in Nat, NEW p \in [1 .. n -> 1 .. n], UniqueItems(p)
  PROVE  \A i \in 1 .. n : \E j \in 1 .. n : p[j] = i
<1>1. IsFiniteSet(1 .. n)
  BY FS_Interval
<1>2. p \in Injection(1 .. n, 1 .. n)
  BY DEF Injection, IsInjective, UniqueItems
<1>3. p \in Surjection(1 .. n, 1 .. n)
  BY <1>1, <1>2, FS_Injection
<1>. QED BY <1>3 DEF Surjection

-----------------------------------------------------------------------------
(* Services in another order                                               *)

MovedService(s, back) == [s EXCEPT !.methods = IF back THEN Reverse(@) ELSE @]
Moved(app, p, back) ==
  [app EXCEPT !.services = [i \in DOMAIN app.services |-> MovedService(app.services[p[i]], back)]]

LEMMA MovedServiceFacts ==
  ASSUME NEW s, {"name", "methods"} \subseteq DOMAIN s, s.methods \in Seq(Range(s.methods)),
         NEW back \in BOOLEAN
  PROVE  LET t == MovedService(s, back)
         IN /\ t.name = s.name /\ t.methods \in Seq(Range(t.methods))
            /\ Range(t.methods) = Range(s.methods)
<1> DEFINE M == IF back THEN Reverse(s.methods) ELSE s.methods
           t == MovedService(s, back)
<1>1. M \in Seq(Range(M)) /\ Range(M) = Range(s.methods)
  BY ReverseFacts
<1>2. t = [s EXCEPT !.methods = M]
  BY DEF MovedService
<1>. HIDE DEF M
<1>3. t.name = s.name /\ t.methods = M
  BY <1>2
<1>. HIDE DEF t
<1>. QED BY <1>1, <1>3 DEF t

LEMMA MovedRearranged ==
  ASSUME NEW a \in DOMAIN App, UseCaseServicesAssumption, ComposeAssumption,
         NEW p \in [DOMAIN App[a].services -> DOMAIN App[a].services], UniqueItems(p),
         NEW back \in BOOLEAN
  PROVE  Rearranged(App[a], Moved(App[a], p, back))
<1> DEFINE app == App[a]
           app2 == Moved(app, p, back)
           n == Len(app.services)
           svc(i) == MovedService(app.services[p[i]], back)
<1>1. AppOK(app) /\ {"services", "enableMutation"} \subseteq DOMAIN app
      /\ \A s \in Range(app.services) : {"name", "methods"} \subseteq DOMAIN s
  BY AppsOK DEF ComposeAssumption
<1>2. n \in Nat /\ DOMAIN app.services = 1 .. n
  BY <1>1 DEF AppOK
<1>3. app2.services = [i \in 1 .. n |-> svc(i)] /\ app2.enableMutation = app.enableMutation
  BY <1>1, <1>2 DEF Moved
<1>4. p \in [1 .. n -> 1 .. n] /\ \A i \in 1 .. n : \E j \in 1 .. n : p[j] = i
  BY <1>2, EachPlace
<1>5. \A i \in 1 .. n : app.services[i] \in Range(app.services)
  BY <1>2 DEF Range
<1>6. ASSUME NEW i \in 1 .. n
      PROVE  /\ svc(i).name = app.services[p[i]].name
             /\ svc(i).methods \in Seq(Range(svc(i).methods))
             /\ Range(svc(i).methods) = Range(app.services[p[i]].methods)
  <2> DEFINE s == app.services[p[i]]
  <2>1. s \in Range(app.services)
    BY <1>4, <1>5
  <2>2. {"name", "methods"} \subseteq DOMAIN s /\ s.methods \in Seq(Range(s.methods))
    BY <1>1, <2>1 DEF AppOK
  <2>. HIDE DEF s
  <2>. QED BY <2>2, MovedServiceFacts DEF s
<1>. HIDE DEF svc, n, app, app2
<1>7. DOMAIN app2.services = 1 .. n /\ \A i \in 1 .. n : app2.services[i] = svc(i)
  BY <1>3
<1>8. \A t : t \in Range(app2.services) <=> \E i \in 1 .. n : t = svc(i)
  BY <1>7 DEF Range
<1>9. AppOK(app2)
  <2>1. app2.services \in Seq(Range(app2.services))
    <3>1. app2.services \in [1 .. n -> Range(app2.services)]
      BY <1>3, <1>7, <1>8
    <3>. QED BY <1>2, <3>1
  <2>2. ASSUME NEW t \in Range(app2.services)
        PROVE  /\ t.methods \in Seq(Range(t.methods))
               /\ \A m \in Range(t.methods) :
                    /\ m.kind \in MethodKinds /\ (m.returns = NoReturn \/ AnnotationOf(m.returns))
                    /\ m.params \in Seq(Range(m.params))
                    /\ \A k \in DOMAIN m.params : AnnotationOf(m.params[k].type)
    <3>1. PICK i \in 1 .. n : t = svc(i)
      BY <1>8
    <3>2. app.services[p[i]] \in Range(app.services)
      BY <1>4, <1>5
    <3>. QED BY <1>1, <1>6, <3>1, <3>2 DEF AppOK
  <2>. QED BY <2>1, <2>2 DEF AppOK
<1>10. Range(ServiceNames(app2)) = Range(ServiceNames(app))
       /\ (UniqueItems(ServiceNames(app2)) <=> UniqueItems(ServiceNames(app)))
  <2> DEFINE names == ServiceNames(app)
             names2 == ServiceNames(app2)
  <2>1. /\ DOMAIN names = 1 .. n /\ DOMAIN names2 = 1 .. n
        /\ \A i \in 1 .. n : names[i] = app.services[i].name
    BY <1>2, <1>7 DEF ServiceNames
  <2>2. \A i \in 1 .. n : names2[i] = app.services[p[i]].name
    BY <1>6, <1>7 DEF ServiceNames
  <2>. HIDE DEF names, names2
  <2>3. \A i \in 1 .. n : names2[i] = names[p[i]]
    BY <1>4, <2>1, <2>2
  <2>4. \A x : x \in Range(names2) <=> x \in Range(names)
    <3>1. ASSUME NEW x \in Range(names2) PROVE x \in Range(names)
      <4>1. PICK i \in 1 .. n : names2[i] = x
        BY <2>1 DEF Range
      <4>2. p[i] \in DOMAIN names /\ names[p[i]] = x
        BY <1>4, <2>1, <2>3, <4>1
      <4>. QED BY <4>2 DEF Range
    <3>2. ASSUME NEW x \in Range(names) PROVE x \in Range(names2)
      <4>1. PICK i \in 1 .. n : names[i] = x
        BY <2>1 DEF Range
      <4>2. PICK j \in 1 .. n : p[j] = i
        BY <1>4
      <4>3. names2[j] = x
        BY <2>3, <4>1, <4>2
      <4>. QED BY <2>1, <4>3 DEF Range
    <3>. QED BY <3>1, <3>2
  <2>5. ASSUME UniqueItems(names), NEW i \in 1 .. n, NEW j \in 1 .. n, names2[i] = names2[j]
        PROVE  i = j
    <3>1. p[i] = p[j]
      <4>1. p[i] \in DOMAIN names /\ p[j] \in DOMAIN names
        BY <1>4, <2>1
      <4>2. names[p[i]] = names[p[j]]
        BY <2>3, <2>5
      <4>. QED BY <2>5, <4>1, <4>2 DEF UniqueItems
    <3>. QED BY <1>4, <3>1 DEF UniqueItems
  <2>6. ASSUME UniqueItems(names2), NEW i \in 1 .. n, NEW j \in 1 .. n, names[i] = names[j]
        PROVE  i = j
    <3>1. PICK k \in 1 .. n : p[k] = i
      BY <1>4
    <3>2. PICK l \in 1 .. n : p[l] = j
      BY <1>4
    <3>3. k = l
      <4>1. names2[k] = names2[l]
        BY <2>3, <2>6, <3>1, <3>2
      <4>2. k \in DOMAIN names2 /\ l \in DOMAIN names2
        BY <2>1
      <4>. QED BY <2>6, <4>1, <4>2 DEF UniqueItems
    <3>. QED BY <3>1, <3>2, <3>3
  <2>7. UniqueItems(names) => UniqueItems(names2)
    BY <2>1, <2>5 DEF UniqueItems
  <2>8. UniqueItems(names2) => UniqueItems(names)
    BY <2>1, <2>6 DEF UniqueItems
  <2>. QED BY <2>4, <2>7, <2>8 DEF names, names2
<1>11. MetaSet(app2) = MetaSet(app)
  <2>1. \A m : Hidden(app2, m) <=> Hidden(app, m)
    BY <1>3 DEF Hidden
  <2>2. ASSUME NEW x \in MetaSet(app2) PROVE x \in MetaSet(app)
    <3>1. PICK t \in Range(app2.services) :
            \E m \in {y \in Range(t.methods) : ~Hidden(app2, y)} : x = [service |-> t.name, method |-> m]
      BY DEF MetaSet
    <3>2. PICK m \in Range(t.methods) : ~Hidden(app2, m) /\ x = [service |-> t.name, method |-> m]
      BY <3>1
    <3>3. PICK i \in 1 .. n : t = svc(i)
      BY <1>8
    <3>4. app.services[p[i]] \in Range(app.services)
      BY <1>4, <1>5
    <3>5. m \in Range(app.services[p[i]].methods) /\ x = [service |-> app.services[p[i]].name, method |-> m]
      BY <1>6, <3>2, <3>3
    <3>. QED BY <2>1, <3>2, <3>4, <3>5 DEF MetaSet
  <2>3. ASSUME NEW x \in MetaSet(app) PROVE x \in MetaSet(app2)
    <3>1. PICK s \in Range(app.services) :
            \E m \in {y \in Range(s.methods) : ~Hidden(app, y)} : x = [service |-> s.name, method |-> m]
      BY DEF MetaSet
    <3>2. PICK m \in Range(s.methods) : ~Hidden(app, m) /\ x = [service |-> s.name, method |-> m]
      BY <3>1
    <3>3. PICK i \in 1 .. n : s = app.services[i]
      BY <1>2 DEF Range
    <3>4. PICK j \in 1 .. n : p[j] = i
      BY <1>4
    <3>5. svc(j) \in Range(app2.services)
      BY <1>8
    <3>6. m \in Range(svc(j).methods) /\ x = [service |-> svc(j).name, method |-> m]
      BY <1>6, <3>2, <3>3, <3>4
    <3>. QED BY <2>1, <3>2, <3>5, <3>6 DEF MetaSet
  <2>. QED BY <2>2, <2>3
<1>. QED BY <1>1, <1>9, <1>10, <1>11 DEF Rearranged, app, app2

LEMMA ReorderedMoved ==
  ASSUME NEW app
  PROVE  LET P == [DOMAIN app.services -> DOMAIN app.services]
         IN /\ \A app2 \in ReorderedServices(app) : \E p \in P : \E back \in BOOLEAN :
                 UniqueItems(p) /\ app2 = Moved(app, p, back)
            /\ \A p \in P : \A back \in BOOLEAN :
                 UniqueItems(p) => Moved(app, p, back) \in ReorderedServices(app)
<1> DEFINE P == [DOMAIN app.services -> DOMAIN app.services]
           Q == {q \in P : UniqueItems(q)}
<1>1. ReorderedServices(app) = {Moved(app, p, back) : p \in Q, back \in BOOLEAN}
  BY DEF ReorderedServices, Moved, MovedService
<1>. HIDE DEF P
<1>2. \A app2 \in ReorderedServices(app) : \E p \in P : \E back \in BOOLEAN :
        UniqueItems(p) /\ app2 = Moved(app, p, back)
  BY <1>1
<1>3. \A p \in P : \A back \in BOOLEAN : UniqueItems(p) => Moved(app, p, back) \in ReorderedServices(app)
  BY <1>1
<1>. QED BY <1>2, <1>3 DEF P

\* An application has the methods it has when nothing is moved.
LEMMA Unmoved ==
  ASSUME NEW a \in DOMAIN App, UseCaseServicesAssumption, ComposeAssumption,
         NEW p, p = [i \in DOMAIN App[a].services |-> i]
  PROVE  MethodMetas(Moved(App[a], p, FALSE)) = MethodMetas(App[a])
<1> DEFINE app == App[a]
           app2 == Moved(app, p, FALSE)
           n == Len(app.services)
<1>1. AppOK(app) /\ {"services", "enableMutation"} \subseteq DOMAIN app
      /\ \A s \in Range(app.services) : {"name", "methods"} \subseteq DOMAIN s
  BY AppsOK DEF ComposeAssumption
<1>2. n \in Nat /\ DOMAIN app.services = 1 .. n
  BY <1>1 DEF AppOK
<1>3. app2.services = [i \in 1 .. n |-> MovedService(app.services[i], FALSE)]
      /\ app2.enableMutation = app.enableMutation
  BY <1>1, <1>2 DEF Moved
<1>4. DOMAIN app2.services = 1 .. n /\ Len(app2.services) = n
  <2>1. p \in [DOMAIN app.services -> DOMAIN app.services] /\ UniqueItems(p)
    BY DEF UniqueItems
  <2>2. Rearranged(app, app2)
    BY <2>1, MovedRearranged
  <2>3. app2.services \in Seq(Range(app2.services))
    BY <2>2 DEF Rearranged, AppOK
  <2> DEFINE ss == app2.services
  <2>4. DOMAIN ss = 1 .. n
    BY <1>3
  <2>. HIDE DEF ss
  <2>5. ss \in Seq(Range(ss))
    BY <2>3 DEF ss
  <2>6. Len(ss) = n
    BY <1>2, <2>4, <2>5
  <2>. QED BY <2>4, <2>6 DEF ss
<1>5. \A m : Hidden(app2, m) <=> Hidden(app, m)
  BY <1>3 DEF Hidden
<1>6. ASSUME NEW i \in 1 .. n
      PROVE  MetasOf(app2, app2.services[i]) = MetasOf(app, app.services[i])
  <2> DEFINE s == app.services[i]
             t == app2.services[i]
  <2>1. {"name", "methods"} \subseteq DOMAIN s
    BY <1>1, <1>2 DEF Range
  <2>2. t = [s EXCEPT !.methods = s.methods]
    BY <1>3 DEF MovedService
  <2>. HIDE DEF s
  <2>3. t.name = s.name /\ t.methods = s.methods
    BY <2>1, <2>2
  <2>. HIDE DEF t, app2, app
  <2>4. {j \in DOMAIN t.methods : ~Hidden(app2, t.methods[j])}
        = {j \in DOMAIN s.methods : ~Hidden(app, s.methods[j])}
    BY <1>5, <2>3
  <2>5. Shown(app2, t) = Shown(app, s)
    BY <2>3, <2>4 DEF Shown
  <2>6. MetasOf(app2, t) = MetasOf(app, s)
    BY <2>3, <2>5 DEF MetasOf
  <2>. QED BY <2>6 DEF s, t
<1> DEFINE ss == [i \in 1 .. n |-> MetasOf(app, app.services[i])]
           ss2 == [i \in 1 .. n |-> MetasOf(app2, app2.services[i])]
<1>. HIDE DEF app, app2, n
<1>7. ss2 = ss
  BY <1>6
<1>. HIDE DEF ss, ss2
<1>8. MethodMetas(app) = Concat(ss, n) /\ MethodMetas(app2) = Concat(ss2, n)
  BY <1>2, <1>4 DEF MethodMetas, ss, ss2, n
<1>. QED BY <1>7, <1>8 DEF app, app2

LEMMA AppSuffices ==
  ASSUME NEW a \in DOMAIN App, UseCaseServicesAssumption, ComposeAssumption
  PROVE  Suffices(App[a]) /\ \A app \in ReorderedServices(App[a]) : Suffices(app)
<1>1. \A app \in ReorderedServices(App[a]) : Suffices(app)
  BY DEF ComposeAssumption, StepsSuffice, Suffices, MapperOf, CallsOf
<1> DEFINE p == [i \in DOMAIN App[a].services |-> i]
<1>2. p \in [DOMAIN App[a].services -> DOMAIN App[a].services] /\ UniqueItems(p)
  BY DEF UniqueItems
<1>3. MethodMetas(Moved(App[a], p, FALSE)) = MethodMetas(App[a])
  BY Unmoved
<1>. HIDE DEF p
<1>4. Moved(App[a], p, FALSE) \in ReorderedServices(App[a])
  BY <1>2, ReorderedMoved
<1>5. Suffices(Moved(App[a], p, FALSE))
  BY <1>1, <1>4
<1>. QED BY <1>1, <1>3, <1>5 DEF Suffices, MapperOf, CallsOf

\* What the applications of a server publish has one meaning.
LEMMA SchemasMean ==
  ASSUME NEW a \in DOMAIN App, NamesApart(App[a]), UseCaseServicesAssumption, ComposeAssumption
  PROVE  OneMeaning(a)
<1> DEFINE app == App[a]
           schema == Schema[a]
<1>1. schema = BuildComposeSchema(app) /\ AppOK(app)
  BY AppsOK DEF Schema
<1>2. ASSUME NEW app2 \in ReorderedServices(app)
      PROVE  Meaning(BuildComposeSchema(app2)) = Meaning(schema)
  <2>1. PICK p \in [DOMAIN app.services -> DOMAIN app.services] :
          \E back \in BOOLEAN : UniqueItems(p) /\ app2 = Moved(app, p, back)
    BY ReorderedMoved
  <2>2. PICK back \in BOOLEAN : UniqueItems(p) /\ app2 = Moved(app, p, back)
    BY <2>1
  <2>3. Rearranged(app, app2)
    BY <2>2, MovedRearranged
  <2>4. Suffices(app) /\ Suffices(app2)
    BY AppSuffices
  <2>. QED BY <1>1, <2>3, <2>4, SameMeaning
<1>3. CASE ~schema.failed
  <2>1. BuiltOf(app, schema.registry)
    BY <1>1, <1>3, SchemaOf
  <2>2. \A n \in DOMAIN schema.registry : \A r \in InfoRefs(schema.registry[n]) :
          r.name \in DOMAIN schema.registry /\ schema.registry[r.name].kind = r.kind
    BY <2>1, SchemaRefers
  <2>. QED BY <1>2, <2>2 DEF OneMeaning, MeansOne
<1>4. CASE schema.failed
  <2> DEFINE B == Presentable(app) /\ ~MapperOf(app).failed /\ Ended(MapperOf(app), CallsOf(app))
  <2>1. IF B THEN BuildComposeSchema(app).failed = FALSE ELSE BuildComposeSchema(app) = NoSchema
    BY <1>1, SchemaFails
  <2>. HIDE DEF B
  <2>2. schema = NoSchema
    BY <1>1, <1>4, <2>1
  <2>3. DOMAIN schema.registry = {}
    BY <2>2 DEF NoSchema
  <2>. QED BY <1>2, <2>3 DEF OneMeaning, MeansOne
<1>. QED BY <1>3, <1>4

-----------------------------------------------------------------------------
(* Servers                                                                 *)

\* The applications a server has are applications.
LEMMA ServedApps ==
  ASSUME TypeOK, NEW i \in DOMAIN world.apps
  PROVE  world.apps[i] \in DOMAIN App
<1>1. world.apps \in Seq(DOMAIN App)
  BY UseCaseAssumption DEF TypeOK
<1>. QED BY <1>1

\* build_compose_schema: where a service stands in the list an application is
\* made of, and a method in its class, changes neither whether the schema can
\* be built nor what a type of it means, and every reference finds its type, in
\* the kind it was made for.  Classes keep their names apart: where
\* compose_type_mapper renames an input type to a name that is taken, it
\* overwrites it.
THEOREM RegistryMeansOne ==
  ASSUME \A a \in DOMAIN App : NamesApart(App[a])
  PROVE  Spec => []RegistryOneMeaning
<1>1. ASSUME TypeOK PROVE RegistryOneMeaning
  BY <1>1, ServedApps, SchemasMean, UseCaseServicesAssumption, ComposeAssumption DEF RegistryOneMeaning
<1>. QED BY <1>1, TypeCorrect, PTL

\* _render_method_sdl, _render_introspection and _render_sdl: each text defines
\* the types it names.  Classes keep their names apart, and no class or service
\* has a name the full SDL takes for a service type of its own.
THEOREM FragmentsAllClosed ==
  ASSUME \A a \in DOMAIN App : NamesApart(App[a]) /\ NamesKept(App[a])
  PROVE  Spec => []FragmentsClosed
<1>1. ASSUME TypeOK PROVE FragmentsClosed
  BY <1>1, ServedApps, SchemasClosed, UseCaseServicesAssumption, ComposeAssumption DEF FragmentsClosed
<1>. QED BY <1>1, TypeCorrect, PTL
=============================================================================
