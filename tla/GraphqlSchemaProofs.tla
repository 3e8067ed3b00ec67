------------------------ MODULE GraphqlSchemaProofs ------------------------
(***************************************************************************)
(* The SDL and the introspection a service serves are one schema, closed,  *)
(* for all declarations, registries and moments: first what the walks over *)
(* annotations reach, then what a service serves, then the two documents,  *)
(* category by category.                                                   *)
(***************************************************************************)
EXTENDS GraphqlSchema, FederationProofs

-----------------------------------------------------------------------------
(* What is reached.  As for concatenation, the recursive function exists   *)
(* because its approximations do.                                          *)

\* How many steps there are, and what one adds.
Models(edges) == Cardinality({e[1] : e \in edges})
Widened(edges, before) ==
  before \cup {e[2] : e \in {x \in edges : x[1] \in ModelNames(before)}}
ReachStep(edges, types, n, f) ==
  f = [k \in 0 .. n |-> IF k = 0 THEN types ELSE Widened(edges, f[k - 1])]

Chain(edges, f, n) == \A k \in 1 .. n : f[k] = Widened(edges, f[k - 1])

\* Reached is given by its recursion.
LEMMA ReachedFunction ==
  ASSUME NEW edges, NEW types, Models(edges) \in Nat
  PROVE  \E f : /\ Reached(edges, types) = f[Models(edges)] /\ f[0] = types
                /\ Chain(edges, f, Models(edges))
<1> DEFINE n == Models(edges)
           Bad == {m \in Nat : ~\E f : ReachStep(edges, types, m, f)}
<1>1. Bad = {}
  <2> SUFFICES ASSUME Bad # {} PROVE FALSE
    OBVIOUS
  <2>1. PICK m \in Bad : \A k \in Bad : m <= k
    <3>1. Bad \subseteq Nat /\ Bad # {}
      OBVIOUS
    <3>. QED BY <3>1, LeastNat
  <2>2. CASE m = 0
    <3>1. ReachStep(edges, types, 0, [i \in 0 .. 0 |-> types])
      BY DEF ReachStep
    <3>. QED BY <2>1, <2>2, <3>1
  <2>3. CASE m # 0
    <3>1. m - 1 \in Nat /\ m - 1 \notin Bad /\ m \in Nat
      BY <2>1, <2>3
    <3>2. PICK f : ReachStep(edges, types, m - 1, f)
      BY <3>1
    <3> DEFINE g == [i \in 0 .. m |-> IF i = m THEN Widened(edges, f[m - 1]) ELSE f[i]]
    <3>3. \A i \in 0 .. m - 1 : g[i] = f[i]
      BY <3>1
    <3>4. \A i \in 0 .. m - 1 : f[i] = IF i = 0 THEN types ELSE Widened(edges, f[i - 1])
      BY <3>1, <3>2 DEF ReachStep
    <3>5. \A i \in 0 .. m : g[i] = IF i = 0 THEN types ELSE Widened(edges, g[i - 1])
      <4> TAKE i \in 0 .. m
      <4>1. CASE i = m
        BY <4>1, <3>1, <3>3, <2>3
      <4>2. CASE i # m
        <5>1. i \in 0 .. m - 1 /\ (i # 0 => i - 1 \in 0 .. m - 1)
          BY <4>2, <3>1
        <5>. QED BY <5>1, <3>3, <3>4
      <4>. QED BY <4>1, <4>2
    <3>6. ReachStep(edges, types, m, g)
      BY <3>5 DEF ReachStep
    <3>. QED BY <2>1, <3>6
  <2>. QED BY <2>2, <2>3
<1>2. n \in Nat
  OBVIOUS
<1>3. PICK f : ReachStep(edges, types, n, f)
  BY <1>1, <1>2
<1> DEFINE h == CHOOSE g : g = [k \in 0 .. n |->
                 IF k = 0 THEN types
                 ELSE LET before == g[k - 1]
                      IN before \cup {e[2] : e \in {x \in edges : x[1] \in ModelNames(before)}}]
<1>4. ReachStep(edges, types, n, h)
  BY <1>3 DEF ReachStep, Widened
<1>5. Reached(edges, types) = h[n]
  BY DEF Reached, Models
<1>. HIDE DEF h, n
<1>6. h[0] = types /\ \A k \in 1 .. n : h[k] = Widened(edges, h[k - 1])
  BY <1>2, <1>4 DEF ReachStep
<1>7. Chain(edges, h, n)
  BY <1>6 DEF Chain
<1>. QED BY <1>5, <1>6, <1>7 DEF n

\* Nothing is reached but what any closed set has.
LEMMA ReachedLeast ==
  ASSUME NEW edges, NEW types, Models(edges) \in Nat,
         NEW S, types \subseteq S, Widened(edges, S) \subseteq S
  PROVE  Reached(edges, types) \subseteq S
<1>1. PICK f : /\ Reached(edges, types) = f[Models(edges)] /\ f[0] = types
               /\ Chain(edges, f, Models(edges))
  BY ReachedFunction
<1> DEFINE Bad == {k \in 0 .. Models(edges) : ~(f[k] \subseteq S)}
<1>3. Bad = {}
  <2> SUFFICES ASSUME Bad # {} PROVE FALSE
    OBVIOUS
  <2>1. PICK m \in Bad : \A k \in Bad : m <= k
    <3>1. Bad \subseteq Nat /\ Bad # {}
      OBVIOUS
    <3>. QED BY <3>1, LeastNat
  <2>2. m \in 0 .. Models(edges) /\ ~(f[m] \subseteq S)
    OBVIOUS
  <2>3. m # 0
    BY <1>1, <2>2
  <2>4. m \in 1 .. Models(edges) /\ m - 1 \in 0 .. Models(edges) /\ m - 1 \notin Bad
    BY <2>1, <2>2, <2>3
  <2>5. f[m - 1] \subseteq S
    BY <2>4
  <2>6. ModelNames(f[m - 1]) \subseteq ModelNames(S)
    BY <2>5 DEF ModelNames
  <2>7. Widened(edges, f[m - 1]) \subseteq Widened(edges, S)
    BY <2>5, <2>6 DEF Widened
  <2>8. f[m] = Widened(edges, f[m - 1])
    BY <1>1, <2>4 DEF Chain
  <2>. QED BY <2>2, <2>7, <2>8
<1>. QED BY <1>1, <1>3

\* The sets of a chain grow.
LEMMA ChainGrows ==
  ASSUME NEW edges, NEW f, NEW n \in Nat, Chain(edges, f, n)
  PROVE  \A i, j \in 0 .. n : i <= j => f[i] \subseteq f[j]
<1> SUFFICES ASSUME NEW i \in 0 .. n, NEW h \in 0 .. n, i <= h, ~(f[i] \subseteq f[h])
             PROVE  FALSE
  OBVIOUS
<1> DEFINE Bad == {j \in 0 .. n : i <= j /\ ~(f[i] \subseteq f[j])}
<1>1. PICK j \in Bad : \A k \in Bad : j <= k
  <2>1. h \in Bad
    OBVIOUS
  <2>2. Bad \subseteq Nat
    OBVIOUS
  <2>. QED BY <2>1, <2>2, LeastNat
<1>2. j \in 0 .. n /\ i <= j /\ ~(f[i] \subseteq f[j])
  OBVIOUS
<1>3. i # j
  BY <1>2
<1>4. j \in 1 .. n /\ j - 1 \in 0 .. n /\ i <= j - 1 /\ ~(j <= j - 1)
  BY <1>2, <1>3
<1>5. f[i] \subseteq f[j - 1]
  BY <1>1, <1>4
<1>6. f[j] = Widened(edges, f[j - 1])
  BY <1>4 DEF Chain
<1>. QED BY <1>2, <1>5, <1>6 DEF Widened

\* What has a name at a step and none at the step before.
NewAt(edges, f, k) ==
  {x \in {e[1] : e \in edges} :
     x \in ModelNames(f[k]) /\ (k # 0 => x \notin ModelNames(f[k - 1]))}

\* A name that is new is so because of one that was new a step before.
LEMMA NewBefore ==
  ASSUME NEW edges, NEW f, NEW n \in Nat, Chain(edges, f, n),
         NEW k \in 1 .. n, NewAt(edges, f, k) # {}
  PROVE  NewAt(edges, f, k - 1) # {}
<1>0. k - 1 \in 0 .. n /\ k \in 0 .. n /\ k # 0 /\ f[k] = Widened(edges, f[k - 1])
  BY DEF Chain
<1>1. PICK x : x \in ModelNames(f[k]) /\ x \notin ModelNames(f[k - 1])
  BY <1>0 DEF NewAt
<1>2. PICK t \in f[k] : t.kind = "model" /\ t.name = x
  BY <1>1 DEF ModelNames
<1>3. t \notin f[k - 1]
  BY <1>1, <1>2 DEF ModelNames
<1>4. PICK e \in edges : e[2] = t /\ e[1] \in ModelNames(f[k - 1])
  BY <1>0, <1>2, <1>3 DEF Widened
<1>5. ASSUME k - 1 # 0 PROVE e[1] \notin ModelNames(f[k - 1 - 1])
  <2>1. k - 1 \in 1 .. n
    BY <1>0, <1>5
  <2>2. f[k - 1] = Widened(edges, f[k - 1 - 1])
    BY <2>1 DEF Chain
  <2>3. e[1] \in ModelNames(f[k - 1 - 1]) => e[2] \in f[k - 1]
    BY <2>2 DEF Widened
  <2>. QED BY <1>3, <1>4, <2>3
<1>. QED BY <1>4, <1>5 DEF NewAt

\* Were the chain still open at its end, every step would have a name of its own.
LEMMA OpenChain ==
  ASSUME NEW edges, NEW f, NEW n \in Nat, Chain(edges, f, n),
         ~(Widened(edges, f[n]) \subseteq f[n])
  PROVE  \E g : g \in Injection(0 .. n, {e[1] : e \in edges})
<1> DEFINE M == {e[1] : e \in edges}
<1>1. PICK e \in edges : e[1] \in ModelNames(f[n]) /\ e[2] \notin f[n]
  BY DEF Widened
<1>2. NewAt(edges, f, n) # {}
  <2>1. ASSUME n # 0 PROVE e[1] \notin ModelNames(f[n - 1])
    <3>1. n \in 1 .. n
      BY <2>1
    <3>2. f[n] = Widened(edges, f[n - 1])
      BY <3>1 DEF Chain
    <3>. QED BY <1>1, <3>2 DEF Widened
  <2>. QED BY <1>1, <2>1 DEF NewAt
<1>3. \A k \in 0 .. n : NewAt(edges, f, k) # {}
  <2> SUFFICES ASSUME NEW h \in 0 .. n, NewAt(edges, f, h) = {} PROVE FALSE
    OBVIOUS
  <2> DEFINE Bad == {k \in 0 .. n : NewAt(edges, f, n - k) = {}}
  <2>1. PICK k \in Bad : \A j \in Bad : k <= j
    <3>1. n - h \in 0 .. n /\ n - (n - h) = h
      OBVIOUS
    <3>2. n - h \in Bad
      BY <3>1
    <3>3. Bad \subseteq Nat
      OBVIOUS
    <3>. QED BY <3>2, <3>3, LeastNat
  <2>2. k \in 0 .. n /\ NewAt(edges, f, n - k) = {}
    OBVIOUS
  <2>3. k # 0
    <3>1. ASSUME k = 0 PROVE FALSE
      <4>1. n - k = n
        BY <3>1
      <4>. QED BY <1>2, <2>2, <4>1
    <3>. QED BY <3>1
  <2>4. k - 1 \in 0 .. n /\ ~(k <= k - 1) /\ n - (k - 1) \in 1 .. n
        /\ n - (k - 1) - 1 = n - k
    BY <2>2, <2>3
  <2>5. k - 1 \notin Bad
    BY <2>1, <2>4
  <2>6. NewAt(edges, f, n - (k - 1)) # {}
    BY <2>4, <2>5
  <2>7. NewAt(edges, f, n - (k - 1) - 1) # {}
    BY <2>4, <2>6, NewBefore
  <2>. QED BY <2>2, <2>4, <2>7
<1> DEFINE g == [k \in 0 .. n |-> CHOOSE x \in NewAt(edges, f, k) : TRUE]
<1>4. \A k \in 0 .. n : g[k] \in NewAt(edges, f, k)
  BY <1>3
<1>5. DOMAIN g = 0 .. n /\ g \in [0 .. n -> M]
  BY <1>3 DEF NewAt
<1>. HIDE DEF g
<1>6. \A i, j \in 0 .. n : i < j => g[i] # g[j]
  <2> SUFFICES ASSUME NEW i \in 0 .. n, NEW j \in 0 .. n, i < j, g[i] = g[j]
               PROVE  FALSE
    OBVIOUS
  <2>1. j - 1 \in 0 .. n /\ i <= j - 1 /\ j # 0
    OBVIOUS
  <2>2. g[i] \in ModelNames(f[i]) /\ g[j] \notin ModelNames(f[j - 1])
    BY <1>4, <2>1 DEF NewAt
  <2>3. f[i] \subseteq f[j - 1]
    BY <2>1, ChainGrows
  <2>. QED BY <2>2, <2>3 DEF ModelNames
<1>7. \A i, j \in 0 .. n : g[i] = g[j] => i = j
  <2> SUFFICES ASSUME NEW i \in 0 .. n, NEW j \in 0 .. n, g[i] = g[j], i # j
               PROVE  FALSE
    OBVIOUS
  <2>1. i < j \/ j < i
    OBVIOUS
  <2>. QED BY <1>6, <2>1
<1>8. g \in Injection(0 .. n, M)
  BY <1>5, <1>7 DEF Injection, IsInjective
<1>. QED BY <1>8

\* What is reached is closed: it was widened once for every model there is.
LEMMA ReachedClosed ==
  ASSUME NEW edges, NEW types, IsFiniteSet({e[1] : e \in edges})
  PROVE  /\ types \subseteq Reached(edges, types)
         /\ Widened(edges, Reached(edges, types)) \subseteq Reached(edges, types)
         /\ Models(edges) \in Nat
<1>1. Models(edges) \in Nat
  BY FS_CardinalityType DEF Models
<1>2. PICK f : /\ Reached(edges, types) = f[Models(edges)] /\ f[0] = types
               /\ Chain(edges, f, Models(edges))
  BY <1>1, ReachedFunction
<1>3. 0 \in 0 .. Models(edges) /\ Models(edges) \in 0 .. Models(edges) /\ 0 <= Models(edges)
  BY <1>1
<1>4. f[0] \subseteq f[Models(edges)]
  BY <1>1, <1>2, <1>3, ChainGrows
<1>5. Widened(edges, f[Models(edges)]) \subseteq f[Models(edges)]
  <2> SUFFICES ASSUME ~(Widened(edges, f[Models(edges)]) \subseteq f[Models(edges)])
               PROVE  FALSE
    OBVIOUS
  <2>1. PICK g : g \in Injection(0 .. Models(edges), {e[1] : e \in edges})
    BY <1>1, <1>2, OpenChain
  <2>2. Cardinality(0 .. Models(edges)) <= Cardinality({e[1] : e \in edges})
    BY <2>1, FS_Injection
  <2>3. Cardinality(0 .. Models(edges)) = Models(edges) + 1
    <3>1. \A i \in Nat : Cardinality(0 .. i) = i + 1
      BY FS_Interval
    <3>. QED BY <1>1, <3>1
  <2>. QED BY <1>1, <2>2, <2>3 DEF Models
<1>. QED BY <1>1, <1>2, <1>4, <1>5

-----------------------------------------------------------------------------
(* The views from which the documents agree.                               *)

\* What a rendering reads is current and closed but for the custom relationships
\* of the own classes, and bare names are unique.
GoodView(v) ==
  /\ world \in Worlds /\ Regular(world) /\ v.m \in Services /\ v.m \in world.serves
  /\ v.then = v.reg /\ v.classes = DOMAIN v.reg
  /\ RegistryType(v.m, v.reg) /\ OwnRelations(world, v.m, v.reg)
  /\ \A c \in DOMAIN v.reg : \A n \in DOMAIN v.reg[c] :
       v.reg[c][n].target \in DOMAIN v.reg \/ (v.reg[c][n].kind = "custom" /\ c.try = 0)
  /\ \A c, d \in DOMAIN v.reg : c.type = d.type => c = d

LEMMA PairOf ==
  ASSUME NEW S, NEW T, NEW a \in S, NEW b \in T
  PROVE  \E p \in S \X T : p[1] = a /\ p[2] = b
<1>1. <<a, b>> \in S \X T
  OBVIOUS
<1>2. <<a, b>>[1] = a /\ <<a, b>>[2] = b
  OBVIOUS
<1>. QED BY <1>1, <1>2

\* A class is of a declared type, and one that was not materialized is local.
LEMMA ViewClass ==
  ASSUME NEW v, GoodView(v), NEW c \in v.classes
  PROVE  /\ c.svc \in Services /\ c.type \in Types /\ c.type \in EntityNames(v)
         /\ ~Materialized(c) => c = Local(v.m, c.type) /\ c.svc = v.m
         /\ Materialized(c) \in BOOLEAN
<1>1. c \in ClassIds /\ c.by = v.m /\ (c.try = 0 => c.svc = v.m) /\ c \in DOMAIN v.reg
  BY DEF GoodView, RegistryType
<1>2. c.svc \in Services /\ c.type \in Types /\ c = [svc |-> c.svc, type |-> c.type, by |-> c.by, try |-> c.try]
  BY <1>1 DEF ClassIds
<1>3. c.type \in EntityNames(v)
  BY DEF EntityNames
<1>4. ASSUME ~Materialized(c) PROVE c = Local(v.m, c.type) /\ c.svc = v.m
  BY <1>1, <1>2, <1>4 DEF Materialized, Local
<1>5. Materialized(c) \in BOOLEAN
  BY DEF Materialized
<1>. QED BY <1>2, <1>3, <1>4, <1>5

\* A relationship has a name, and leads to an entity that is listed or to a
\* stray; one that is paginated is a list of an entity.
LEMMA ViewRelation ==
  ASSUME NEW v, GoodView(v), NEW c \in v.classes, NEW n \in DOMAIN v.reg[c]
  PROVE  /\ n \in Rels /\ v.reg[c][n].list \in BOOLEAN /\ v.reg[c][n].target.type \in Types
         /\ \/ v.reg[c][n].target.type \in EntityNames(v)
            \/ <<v.reg[c][n].target.type>> \in StrayNames(v) /\ ~Materialized(c)
         /\ IsPaginated(v, c, n) <=> ActivePaginated(v.reg[c][n])
         /\ IsPaginated(v, c, n) => /\ v.reg[c][n].list /\ v.reg[c][n].target.type \in EntityNames(v)
                                    /\ v.reg[c][n].target.type \in PaginatedTargets(v)
<1> DEFINE S == v.classes
           t == v.reg[c][n].target.type
<1>1. n \in Rels /\ v.reg[c][n] \in RelInfo /\ c \in S
  BY DEF GoodView, RegistryType
<1>2. v.reg[c][n].list \in BOOLEAN /\ t \in Types
  BY <1>1 DEF RelInfo, ClassIds
<1>3. \/ t \in EntityNames(v)
      \/ v.reg[c][n].kind = "custom" /\ ~Materialized(c) /\ t \notin EntityNames(v)
  <2>1. v.reg[c][n].target \in v.classes \/ (v.reg[c][n].kind = "custom" /\ c.try = 0)
    BY DEF GoodView
  <2>2. v.reg[c][n].target \in v.classes => t \in EntityNames(v)
    BY DEF EntityNames
  <2>. QED BY <2>1, <2>2 DEF Materialized
<1>4. IsPaginated(v, c, n) <=> ActivePaginated(v.reg[c][n])
  BY DEF IsPaginated
<1>. HIDE DEF S
<1>5. PICK p \in S \X Rels : p[1] = c /\ p[2] = n
  BY <1>1, PairOf
<1>. USE DEF S
<1>6. ASSUME v.reg[c][n].kind = "custom", t \notin EntityNames(v) PROVE <<t>> \in StrayNames(v)
  <2>1. p \in {q \in v.classes \X Rels : q[2] \in DOMAIN v.reg[q[1]] /\ v.reg[q[1]][q[2]].kind = "custom"}
    BY <1>5, <1>6
  <2>2. v.reg[p[1]][p[2]].target.type = t
    BY <1>5
  <2>3. t \in Strays(v)
    BY <1>6, <2>1, <2>2 DEF Strays
  <2>. QED BY <2>3 DEF StrayNames
<1>7. ASSUME IsPaginated(v, c, n)
      PROVE  v.reg[c][n].list /\ t \in EntityNames(v) /\ t \in PaginatedTargets(v)
  <2>1. v.reg[c][n].list /\ v.reg[c][n].kind # "custom"
    BY <1>4, <1>7 DEF ActivePaginated
  <2>2. p \in {q \in v.classes \X Rels : IsPaginated(v, q[1], q[2])}
    BY <1>5, <1>7
  <2>3. v.reg[p[1]][p[2]].target.type = t
    BY <1>5
  <2>4. t \in PaginatedTargets(v)
    BY <2>2, <2>3 DEF PaginatedTargets
  <2>. QED BY <1>3, <2>1, <2>4
<1>. QED BY <1>1, <1>2, <1>3, <1>4, <1>6, <1>7

\* An ORM hint says what the registry says.
LEMMA ViewHint ==
  ASSUME NEW v, GoodView(v), NEW c \in v.classes, NEW h \in Hints(c)
  PROVE  /\ ~Materialized(c) /\ h.name \in DOMAIN v.reg[c]
         /\ h.type = PyModel(v.reg[c][h.name].target.type, v.reg[c][h.name].list,
                             ~v.reg[c][h.name].list)
         /\ h.type.name[1] = v.reg[c][h.name].target.type
<1>1. ~Materialized(c)
  BY DEF Hints
<1>2. c = Local(v.m, c.type) /\ c.svc = v.m
  BY <1>1, ViewClass
<1>3. PICK l \in world.local[v.m] : /\ l.src = c.type /\ ~l.custom
                                    /\ h = [name |-> l.name, type |-> PyModel(l.target, l.list, ~l.list)]
  BY <1>1, <1>2 DEF Hints
<1>a. l \in Built(world, v.m)
  BY <1>3 DEF GoodView, Regular, MappedListed, Built
<1>4. /\ l.name \in DOMAIN v.reg[c] /\ v.reg[c][l.name].target = Local(v.m, l.target)
      /\ v.reg[c][l.name].list = l.list
  BY <1>2, <1>3, <1>a DEF GoodView, OwnRelations
<1>5. h.name = l.name /\ h.type = PyModel(l.target, l.list, ~l.list)
  BY <1>3
<1>6. v.reg[c][l.name].target.type = l.target
  BY <1>4 DEF Local
<1>7. h.type.name[1] = l.target
  BY <1>5 DEF PyModel, PyType
<1>. QED BY <1>1, <1>4, <1>5, <1>6, <1>7

\* An annotation as a printer meets it.
Printable(t) ==
  /\ t.kind \in {"scalar", "enum", "model", "other"}
  /\ t.list \in BOOLEAN /\ t.elemOpt \in BOOLEAN /\ t.opt \in BOOLEAN
  /\ t.kind = "model" => t.name = <<t.name[1]>>

LEMMA TypePrints ==
  ASSUME NEW t, IsType(t)
  PROVE  Printable(t)
BY DEF IsType, Printable

\* What a world of the runs says of its annotations.
LEMMA Declared ==
  ASSUME world \in Worlds
  PROVE  /\ world.pagination \in BOOLEAN /\ IsFiniteSet(DOMAIN world.inputs)
         /\ \A n \in DOMAIN world.inputs : \A f \in world.inputs[n] :
              f.type \in Annotations(world) /\ IsType(f.type)
         /\ \A f \in DeclaredFields(world) : f.type \in Annotations(world) /\ IsType(f.type)
         /\ \A f \in DeclaredMethods(world) :
              /\ f.returns \in Annotations(world) /\ IsType(f.returns)
              /\ \A a \in f.args : /\ a.type \in Annotations(world) /\ IsType(a.type)
                                   /\ a.default \in BOOLEAN
<1>1. WellAnnotated(world)
  BY SchemaAssumption
<1> DEFINE columns == UNION {world.inputs[n] : n \in DOMAIN world.inputs}
           args == UNION {f.args : f \in DeclaredMethods(world)}
<1>2. Annotations(world) = {f.type : f \in columns \cup DeclaredFields(world) \cup args}
                           \cup {f.returns : f \in DeclaredMethods(world)}
  BY DEF Annotations
<1>3. \A n \in DOMAIN world.inputs : \A f \in world.inputs[n] : f \in columns
  OBVIOUS
<1>4. \A f \in DeclaredMethods(world) : \A a \in f.args : a \in args
  OBVIOUS
<1>. HIDE DEF columns, args
<1>5. \A f \in columns \cup DeclaredFields(world) \cup args : f.type \in Annotations(world)
  BY <1>2
<1>6. \A f \in DeclaredMethods(world) : f.returns \in Annotations(world)
  BY <1>2
<1>. QED BY <1>1, <1>3, <1>4, <1>5, <1>6 DEF WellAnnotated

\* The columns and methods of a class are declared ones.
LEMMA ClassDeclares ==
  ASSUME NEW c, c.svc \in Services, c.type \in Types
  PROVE  /\ world.models[c.svc][c.type].fields \subseteq DeclaredFields(world)
         /\ world.models[c.svc][c.type].methods \subseteq DeclaredMethods(world)
<1> DEFINE s == c.svc
           t == c.type
<1>1. s \in Services /\ t \in Types
  OBVIOUS
<1>. HIDE DEF s, t
<1>2. PICK k \in Services \X Types : k[1] = s /\ k[2] = t
  BY <1>1, PairOf
<1>3. /\ world.models[k[1]][k[2]].fields \subseteq DeclaredFields(world)
      /\ world.models[k[1]][k[2]].methods \subseteq DeclaredMethods(world)
  BY DEF DeclaredFields, DeclaredMethods
<1>. QED BY <1>2, <1>3 DEF s, t

\* A relationship among the fields of a materialized class, which no type hint
\* resolves; or a column.
IsRelation(v, c, f) ==
  /\ Materialized(c) /\ f.name \in DOMAIN v.reg[c] /\ Printable(f.type) /\ f.type.opt
  /\ f.type.kind \in {"model", "other"}
  /\ f.type.kind = "model" => f.type.name[1] = v.reg[c][f.name].target.type
IsColumn(c, f) ==
  /\ Printable(f.type)
  /\ f.type.kind = "enum" => ~Materialized(c) /\ f.type \in Annotations(world)
  /\ f.type.kind = "enum" => f \in world.models[c.svc][c.type].fields
  /\ f.type.kind = "model" => f.type.name[1] \notin DOMAIN world.inputs

LEMMA ViewField ==
  ASSUME NEW v, GoodView(v), NEW c \in v.classes, NEW f \in ModelFields(v, c)
  PROVE  \/ IsRelation(v, c, f)
         \/ IsColumn(c, f) /\ (Materialized(c) => f.name \notin DOMAIN v.reg[c])
<1>1. c.svc \in Services /\ c.type \in Types
  BY ViewClass
<1>2. world.models[c.svc][c.type].fields \subseteq DeclaredFields(world)
  BY <1>1, ClassDeclares
<1>3. world \in Worlds /\ InputsGoIn(world)
  BY DEF GoodView, Regular
<1>4. ASSUME NEW g \in world.models[c.svc][c.type].fields
      PROVE  /\ Printable(g.type) /\ g.type \in Annotations(world)
             /\ g.type.kind = "model" => g.type.name[1] \notin DOMAIN world.inputs
  <2>1. g \in DeclaredFields(world)
    BY <1>2
  <2>2. g.type \in Annotations(world) /\ IsType(g.type)
    BY <1>3, <2>1, Declared
  <2>. QED BY <1>3, <2>1, <2>2, TypePrints DEF InputsGoIn
<1>5. CASE ~Materialized(c)
  <2>1. f \in world.models[c.svc][c.type].fields
    BY <1>5 DEF ModelFields
  <2>. QED BY <1>4, <1>5, <2>1 DEF IsColumn
<1>6. CASE Materialized(c)
  <2>1. f \in MaterializedFields(v, c)
    BY <1>6 DEF ModelFields
  <2> DEFINE any == PyType("other", <<"Any">>, FALSE, FALSE, FALSE)
             known(t) == IF t.kind = "scalar" THEN t ELSE any
             rel(r) == IF r.paged THEN PyType("other", <<"Any">>, FALSE, FALSE, TRUE)
                       ELSE PyModel(r.target.type, r.list, TRUE)
  <2>2. \/ \E g \in world.models[c.svc][c.type].fields : g.name \notin DOMAIN v.reg[c] /\
             f = [name |-> g.name, fk |-> FALSE, type |-> known(g.type)]
        \/ \E n \in DOMAIN v.reg[c] : f = [name |-> n, fk |-> FALSE, type |-> rel(v.reg[c][n])]
    BY <2>1 DEF MaterializedFields
  <2>3. ASSUME NEW g \in world.models[c.svc][c.type].fields, g.name \notin DOMAIN v.reg[c],
               f = [name |-> g.name, fk |-> FALSE, type |-> known(g.type)]
        PROVE  IsColumn(c, f) /\ f.name \notin DOMAIN v.reg[c]
    <3>1. f.name = g.name /\ f.type = known(g.type)
      BY <2>3
    <3>2. CASE g.type.kind = "scalar"
      BY <1>4, <2>3, <3>1, <3>2 DEF IsColumn
    <3>3. CASE g.type.kind # "scalar"
      <4>1. f.type = any
        BY <3>1, <3>3
      <4>2. any.kind = "other" /\ Printable(any)
        BY DEF Printable, PyType
      <4>. HIDE DEF any
      <4>. QED BY <1>4, <2>3, <3>1, <4>1, <4>2 DEF IsColumn
    <3>. QED BY <3>2, <3>3
  <2>4. ASSUME NEW n \in DOMAIN v.reg[c], f = [name |-> n, fk |-> FALSE, type |-> rel(v.reg[c][n])]
        PROVE  IsRelation(v, c, f)
    <3>1. f.name = n /\ f.type = rel(v.reg[c][n])
      BY <2>4
    <3>2. v.reg[c][n].list \in BOOLEAN
      BY ViewRelation
    <3>3. CASE v.reg[c][n].paged
      BY <1>6, <3>1, <3>3 DEF IsRelation, Printable, PyType
    <3>4. CASE ~v.reg[c][n].paged
      BY <1>6, <3>1, <3>2, <3>4 DEF IsRelation, Printable, PyType, PyModel
    <3>. QED BY <3>3, <3>4
  <2>. QED BY <2>2, <2>3, <2>4
<1>. QED BY <1>5, <1>6

\* What the names of enums are.
EnumNamed(t) ==
  t.kind = "enum" =>
    \/ t.name = <<"Direction">> \/ \E e \in Types : t.name = <<e, "PageOrder">>
    \/ t.name = <<t.name[1]>> /\ t.name[1] \notin Types \cup DOMAIN world.inputs \cup {"Pagination", "Query", "Mutation"}

\* A method whose signature either printer can print.
IsMethod(f) ==
  /\ Printable(f.returns) /\ EnumNamed(f.returns)
  /\ f.returns.kind = "model" => f.returns.name[1] \notin DOMAIN world.inputs
  /\ \A a \in f.args : Printable(a.type) /\ EnumNamed(a.type) /\ a.default \in BOOLEAN

LEMMA EnumOf ==
  ASSUME NEW v, GoodView(v), NEW t \in Annotations(world), IsType(t)
  PROVE  EnumNamed(t)
BY DEF GoodView, Regular, NamesDistinct, IsType, EnumNamed

LEMMA DeclaredMethod ==
  ASSUME NEW v, GoodView(v), NEW f \in DeclaredMethods(world)
  PROVE  IsMethod(f)
<1>1. world \in Worlds /\ InputsGoIn(world)
  BY DEF GoodView, Regular
<1>2. f.returns \in Annotations(world) /\ IsType(f.returns)
  BY <1>1, Declared
<1>3. \A a \in f.args : a.type \in Annotations(world) /\ IsType(a.type) /\ a.default \in BOOLEAN
  BY <1>1, Declared
<1>. QED BY <1>1, <1>2, <1>3, EnumOf, TypePrints DEF InputsGoIn, IsMethod

\* The roots of a federation key.
LEMMA RootMethod ==
  ASSUME NEW v, GoodView(v), NEW s, NEW t \in Types
  PROVE  IsMethod(KeyRoot(s, t)) /\ IsMethod(PageRoot(s, t))
<1>1. t \notin DOMAIN world.inputs
  BY DEF GoodView, Regular, NamesDistinct
<1>2. /\ KeyRoot(s, t).returns = PyModel(t, TRUE, FALSE)
      /\ PageRoot(s, t).returns = PyModel(t, TRUE, FALSE)
  BY DEF PageRoot, KeyRoot
<1>3. /\ PyModel(t, TRUE, FALSE).kind = "model" /\ PyModel(t, TRUE, FALSE).name[1] = t
      /\ Printable(PyModel(t, TRUE, FALSE))
  BY DEF PyModel, PyType, Printable
<1> DEFINE key == [name |-> "key_list", default |-> FALSE,
                   type |-> PyType("scalar", <<world.keyType[s][t]>>, TRUE, FALSE, FALSE)]
           paging == {<<"order", "enum", <<t, "PageOrder">>, FALSE>>,
                      <<"direction", "enum", <<"Direction">>, FALSE>>,
                      <<"limit", "scalar", <<"int">>, TRUE>>, <<"offset", "scalar", <<"int">>, FALSE>>}
           arg(a) == [name |-> a[1], default |-> TRUE, type |-> PyType(a[2], a[3], FALSE, FALSE, a[4])]
<1>4. KeyRoot(s, t).args = {key}
  BY DEF KeyRoot
<1>5. PageRoot(s, t).args = {key} \cup {arg(a) : a \in paging}
  BY <1>4 DEF PageRoot, KeyRoot
<1>6. Printable(key.type) /\ EnumNamed(key.type) /\ key.default \in BOOLEAN
  BY DEF Printable, EnumNamed, PyType
<1>7. ASSUME NEW a \in paging
      PROVE  Printable(arg(a).type) /\ EnumNamed(arg(a).type) /\ arg(a).default \in BOOLEAN
  <2>1. /\ arg(a).default = TRUE /\ arg(a).type.kind = a[2] /\ arg(a).type.name = a[3]
        /\ arg(a).type.list = FALSE /\ arg(a).type.elemOpt = FALSE /\ arg(a).type.opt = a[4]
    BY DEF PyType
  <2>2. \/ a[2] = "enum" /\ a[3] = <<t, "PageOrder">> /\ a[4] = FALSE
        \/ a[2] = "enum" /\ a[3] = <<"Direction">> /\ a[4] = FALSE
        \/ a[2] = "scalar" /\ a[4] \in BOOLEAN
    <3>1. \/ a = <<"order", "enum", <<t, "PageOrder">>, FALSE>>
          \/ a = <<"direction", "enum", <<"Direction">>, FALSE>>
          \/ a = <<"limit", "scalar", <<"int">>, TRUE>>
          \/ a = <<"offset", "scalar", <<"int">>, FALSE>>
      OBVIOUS
    <3>. HIDE DEF paging, arg, key
    <3>2. CASE a = <<"order", "enum", <<t, "PageOrder">>, FALSE>>
      BY <3>2
    <3>3. CASE a = <<"direction", "enum", <<"Direction">>, FALSE>>
      BY <3>3
    <3>4. CASE a = <<"limit", "scalar", <<"int">>, TRUE>>
      BY <3>4
    <3>5. CASE a = <<"offset", "scalar", <<"int">>, FALSE>>
      BY <3>5
    <3>. QED BY <3>1, <3>2, <3>3, <3>4, <3>5
  <2>. HIDE DEF arg, paging
  <2>. QED BY <2>1, <2>2 DEF Printable, EnumNamed
<1>. HIDE DEF key, arg, paging
<1>8. \A a \in PageRoot(s, t).args : Printable(a.type) /\ EnumNamed(a.type) /\ a.default \in BOOLEAN
  BY <1>5, <1>6, <1>7
<1>9. EnumNamed(PyModel(t, TRUE, FALSE))
  BY <1>3 DEF EnumNamed
<1>. QED BY <1>1, <1>2, <1>3, <1>4, <1>6, <1>8, <1>9 DEF IsMethod

\* A listed class with methods is one the introspection scanned.
LEMMA ViewMethod ==
  ASSUME NEW v, GoodView(v), NEW c \in v.classes, NEW f \in Methods(c)
  PROVE  c \in Scanned(v) /\ IsMethod(f)
<1>1. c.svc \in Services /\ c.type \in Types
  BY ViewClass
<1>2. ~Materialized(c)
  BY DEF Methods
<1>3. c = Local(v.m, c.type) /\ c.svc = v.m
  BY <1>2, ViewClass
<1>4. \/ f \in world.models[c.svc][c.type].methods
      \/ "full" \in world.roots[c.svc][c.type] /\ f = KeyRoot(c.svc, c.type)
      \/ "page" \in world.roots[c.svc][c.type] /\ f = PageRoot(c.svc, c.type)
  BY <1>2 DEF Methods, HasOrders
<1>5. IsMethod(f)
  BY <1>1, <1>4, ClassDeclares, DeclaredMethod, RootMethod
<1>6. c.type \in world.entities[v.m]
  <2> SUFFICES ASSUME c.type \notin world.entities[v.m] PROVE FALSE
    OBVIOUS
  <2>1. c.type \in Range(world.virtual[v.m])
    BY <1>2 DEF GoodView, OwnRelations, Materialized
  <2>. QED BY <1>3, <1>4, <2>1 DEF GoodView, Regular, VirtualPlain
<1>. QED BY <1>2, <1>5, <1>6 DEF Scanned

\* So both scan the same methods.
AllMethods(v) == UNION {Methods(c) : c \in v.classes}

LEMMA MethodsAgree ==
  ASSUME NEW v, GoodView(v)
  PROVE  /\ UNION {Methods(c) : c \in Scanned(v)} = AllMethods(v)
         /\ \A f \in AllMethods(v) : IsMethod(f)
         /\ \A c \in v.classes : c \notin Scanned(v) => Methods(c) = {}
BY ViewMethod DEF AllMethods, Scanned

-----------------------------------------------------------------------------
(* The enums and inputs of the two documents.                              *)

HintTypes(v) == {h[2] : h \in ClassHints(v)}
ParamsOf(fs) == UNION {ParamTypes(f) : f \in fs}
TypesOf(fs) == UNION {ParamTypes(f) \cup {f.returns} : f \in fs}
Mentioned(v) == HintTypes(v) \cup TypesOf(AllMethods(v))
Edges(v) == InputFields \cup ClassHints(v)
FromParams(v) == Reached(InputFields, ParamsOf(AllMethods(v)))
FromAll(v) == Reached(Edges(v), Mentioned(v))
Shown(v) == InputNames(ParamsOf(AllMethods(v)))
Layout(v) == OrderLayout(v.classes, v.reg)
Enums(v) == {t.name : t \in {u \in FromAll(v) : u.kind = "enum"}} \cup LayoutEnums(Layout(v))

\* The documents have the same inputs and the same enums.
LEMMA NamesAgree ==
  ASSUME NEW v, GoodView(v)
  PROVE  /\ IntroInputNames(v) = Shown(v) /\ IntroLayout(v) = Layout(v)
         /\ SdlEnums(v, Layout(v)) = Enums(v) /\ IntroEnums(v) = Enums(v)
<1> DEFINE A == UNION {Methods(c) : c \in v.classes}
           B == UNION {Methods(c) : c \in Scanned(v)}
<1>1. A = AllMethods(v) /\ B = AllMethods(v)
  BY MethodsAgree DEF AllMethods
<1>2. IntroInputNames(v) = InputNames(UNION {ParamTypes(f) : f \in B})
  BY DEF IntroInputNames
<1>3. IntroLayout(v) = Layout(v)
  BY DEF GoodView, IntroLayout, Layout
<1>4. SdlEnums(v, Layout(v)) =
        EnumNames(v, {h[2] : h \in ClassHints(v)} \cup (UNION {ParamTypes(f) \cup {f.returns} : f \in A}))
        \cup LayoutEnums(Layout(v))
  BY DEF SdlEnums
<1>5. IntroEnums(v) =
        EnumNames(v, {h[2] : h \in ClassHints(v)} \cup (UNION {ParamTypes(f) \cup {f.returns} : f \in B}))
        \cup LayoutEnums(IntroLayout(v))
  BY DEF IntroEnums
<1>. HIDE DEF A, B
<1>6. IntroInputNames(v) = Shown(v)
  BY <1>1, <1>2 DEF Shown, ParamsOf
<1>7. \A T : EnumNames(v, T) = {t.name : t \in {u \in Reached(Edges(v), T) : u.kind = "enum"}}
  BY DEF EnumNames, Edges
<1>8. EnumNames(v, Mentioned(v)) \cup LayoutEnums(Layout(v)) = Enums(v)
  BY <1>7 DEF Enums, FromAll
<1>9. SdlEnums(v, Layout(v)) = EnumNames(v, Mentioned(v)) \cup LayoutEnums(Layout(v))
  BY <1>1, <1>4 DEF Mentioned, HintTypes, TypesOf
<1>10. IntroEnums(v) = EnumNames(v, Mentioned(v)) \cup LayoutEnums(Layout(v))
  BY <1>1, <1>3, <1>5 DEF Mentioned, HintTypes, TypesOf
<1>. QED BY <1>3, <1>6, <1>8, <1>9, <1>10

\* What an input field and a hint are.
LEMMA InputField ==
  /\ \A n \in DOMAIN world.inputs : \A f \in world.inputs[n] : << <<n>>, f.type>> \in InputFields
  /\ \A e \in InputFields : \E n \in DOMAIN world.inputs : \E f \in world.inputs[n] :
       e[1] = <<n>> /\ e[2] = f.type
<1>1. \A n \in DOMAIN world.inputs : \A f \in world.inputs[n] : << <<n>>, f.type>> \in InputFields
  BY DEF InputFields
<1>2. ASSUME NEW e \in InputFields
      PROVE  \E n \in DOMAIN world.inputs : \E f \in world.inputs[n] : e[1] = <<n>> /\ e[2] = f.type
  <2>1. PICK n \in DOMAIN world.inputs : \E f \in world.inputs[n] : e = << <<n>>, f.type>>
    BY DEF InputFields
  <2>2. PICK f \in world.inputs[n] : e = << <<n>>, f.type>>
    BY <2>1
  <2>3. e[1] = <<n>> /\ e[2] = f.type
    BY <2>2
  <2>. QED BY <2>3
<1>. QED BY <1>1, <1>2

LEMMA ClassHint ==
  ASSUME NEW v
  PROVE  /\ \A c \in v.classes : ~Materialized(c) =>
              \A h \in world.models[c.svc][c.type].fields \cup Hints(c) : h.type \in HintTypes(v)
         /\ \A e \in ClassHints(v) : \E c \in v.classes : ~Materialized(c) /\
              \E h \in world.models[c.svc][c.type].fields \cup Hints(c) : e[1] = <<c.type>> /\ e[2] = h.type
<1>1. ASSUME NEW c \in v.classes, ~Materialized(c),
             NEW h \in world.models[c.svc][c.type].fields \cup Hints(c)
      PROVE  h.type \in HintTypes(v)
  <2>1. << <<c.type>>, h.type>> \in ClassHints(v)
    BY <1>1 DEF ClassHints
  <2>2. << <<c.type>>, h.type>>[2] = h.type
    OBVIOUS
  <2>. QED BY <2>1, <2>2 DEF HintTypes
<1>2. ASSUME NEW e \in ClassHints(v)
      PROVE  \E c \in v.classes : ~Materialized(c) /\
               \E h \in world.models[c.svc][c.type].fields \cup Hints(c) : e[1] = <<c.type>> /\ e[2] = h.type
  <2>1. PICK c \in v.classes : ~Materialized(c) /\
           \E h \in world.models[c.svc][c.type].fields \cup Hints(c) : e = << <<c.type>>, h.type>>
    BY DEF ClassHints
  <2>2. PICK h \in world.models[c.svc][c.type].fields \cup Hints(c) : e = << <<c.type>>, h.type>>
    BY <2>1
  <2>3. e[1] = <<c.type>> /\ e[2] = h.type
    BY <2>2
  <2>. QED BY <2>1, <2>3
<1>. QED BY <1>1, <1>2

LEMMA SingletonsFinite ==
  ASSUME NEW S, IsFiniteSet(S)
  PROVE  IsFiniteSet({<<x>> : x \in S})
<1> DEFINE T == {<<x>> : x \in S}
           f == [x \in S |-> <<x>>]
<1>1. f \in Surjection(S, T)
  BY DEF Surjection
<1>. HIDE DEF T
<1>2. \E g : g \in Surjection(S, T)
  BY <1>1
<1>3. IsFiniteSet(T)
  BY <1>2, FS_Surjection
<1>. QED BY <1>3 DEF T

\* There are finitely many models to follow.
LEMMA EdgesFinite ==
  ASSUME NEW v, GoodView(v)
  PROVE  IsFiniteSet({e[1] : e \in InputFields}) /\ IsFiniteSet({e[1] : e \in Edges(v)})
<1> DEFINE I == {<<n>> : n \in DOMAIN world.inputs}
           T == {<<t>> : t \in Types}
<1>1. IsFiniteSet(DOMAIN world.inputs) /\ IsFiniteSet(Types)
  BY Declared, SchemaAssumption DEF GoodView
<1>2. IsFiniteSet(I) /\ IsFiniteSet(T)
  BY <1>1, SingletonsFinite
<1>3. {e[1] : e \in InputFields} \subseteq I
  BY InputField
<1>4. {e[1] : e \in ClassHints(v)} \subseteq T
  <2>1. \A c \in v.classes : c.type \in Types
    BY ViewClass
  <2>2. ASSUME NEW e \in ClassHints(v) PROVE e[1] \in T
    <3>1. PICK c \in v.classes : e[1] = <<c.type>>
      BY ClassHint
    <3>. QED BY <2>1, <3>1
  <2>. QED BY <2>2
<1>. HIDE DEF I, T
<1>5. {e[1] : e \in Edges(v)} \subseteq I \cup T
  BY <1>3, <1>4 DEF Edges
<1>6. IsFiniteSet(I \cup T)
  BY <1>2, FS_Union
<1>. QED BY <1>2, <1>3, <1>5, <1>6, FS_Subset

\* Only what is mentioned is reached.
LEMMA ReachedOf ==
  ASSUME NEW edges, NEW types, IsFiniteSet({e[1] : e \in edges})
  PROVE  Reached(edges, types) \subseteq types \cup {e[2] : e \in edges}
<1> DEFINE S == types \cup {e[2] : e \in edges}
<1>1. types \subseteq S /\ Widened(edges, S) \subseteq S
  BY DEF Widened
<1>2. Models(edges) \in Nat
  BY ReachedClosed
<1>. HIDE DEF S
<1>3. Reached(edges, types) \subseteq S
  BY <1>1, <1>2, ReachedLeast
<1>. QED BY <1>3 DEF S

\* What the documents mention is closed: an input or an enum that is reached is
\* shown, and so is what the fields of a shown input mention.
LEMMA ViewReach ==
  ASSUME NEW v, GoodView(v)
  PROVE  /\ \A t \in FromAll(v) : Printable(t) /\ EnumNamed(t)
         /\ Mentioned(v) \subseteq FromAll(v) /\ ParamsOf(AllMethods(v)) \subseteq FromParams(v)
         /\ FromParams(v) \subseteq FromAll(v)
         /\ \A n \in Shown(v) : n \in DOMAIN world.inputs
              /\ \A f \in world.inputs[n] : f.type \in FromParams(v)
         /\ \A t \in FromParams(v) :
              t.kind = "model" /\ t.name[1] \in DOMAIN world.inputs => t.name[1] \in Shown(v)
<1>1. world \in Worlds
  BY DEF GoodView
<1>2. \A n \in DOMAIN world.inputs : \A f \in world.inputs[n] : Printable(f.type) /\ EnumNamed(f.type)
  BY <1>1, Declared, EnumOf, TypePrints
<1>3. ASSUME NEW t \in HintTypes(v) PROVE Printable(t) /\ EnumNamed(t)
  <2>1. PICK e \in ClassHints(v) : t = e[2]
    BY DEF HintTypes
  <2>2. PICK c \in v.classes : ~Materialized(c) /\
          \E h \in world.models[c.svc][c.type].fields \cup Hints(c) : e[2] = h.type
    BY ClassHint
  <2>3. PICK h \in world.models[c.svc][c.type].fields \cup Hints(c) : t = h.type
    BY <2>1, <2>2
  <2>4. CASE h \in Hints(c)
    <3>1. h.name \in DOMAIN v.reg[c]
          /\ h.type = PyModel(v.reg[c][h.name].target.type, v.reg[c][h.name].list, ~v.reg[c][h.name].list)
      BY <2>4, ViewHint
    <3>2. v.reg[c][h.name].list \in BOOLEAN
      BY <3>1, ViewRelation
    <3>. QED BY <2>3, <3>1, <3>2 DEF Printable, EnumNamed, PyModel, PyType
  <2>5. CASE h \in world.models[c.svc][c.type].fields
    <3>1. h \in DeclaredFields(world)
      BY <2>5, ViewClass, ClassDeclares
    <3>. QED BY <1>1, <2>3, <3>1, Declared, EnumOf, TypePrints
  <2>. QED BY <2>4, <2>5
<1>4. \A t \in TypesOf(AllMethods(v)) : Printable(t) /\ EnumNamed(t)
  BY MethodsAgree DEF TypesOf, ParamTypes, IsMethod
<1>5. {e[2] : e \in ClassHints(v)} = HintTypes(v)
  BY DEF HintTypes
<1>6. \A e \in InputFields : Printable(e[2]) /\ EnumNamed(e[2])
  BY <1>2, InputField
<1>7. IsFiniteSet({e[1] : e \in InputFields}) /\ IsFiniteSet({e[1] : e \in Edges(v)})
  BY EdgesFinite
<1>8. \A t \in FromAll(v) : Printable(t) /\ EnumNamed(t)
  <2>1. FromAll(v) \subseteq Mentioned(v) \cup {e[2] : e \in Edges(v)}
    BY <1>7, ReachedOf DEF FromAll
  <2>2. \A e \in Edges(v) : Printable(e[2]) /\ EnumNamed(e[2])
    BY <1>3, <1>5, <1>6 DEF Edges
  <2>. QED BY <1>3, <1>4, <2>1, <2>2 DEF Mentioned
<1>9. /\ Mentioned(v) \subseteq FromAll(v) /\ Widened(Edges(v), FromAll(v)) \subseteq FromAll(v)
      /\ ParamsOf(AllMethods(v)) \subseteq FromParams(v)
      /\ Widened(InputFields, FromParams(v)) \subseteq FromParams(v)
      /\ Models(InputFields) \in Nat
  BY <1>7, ReachedClosed DEF FromAll, FromParams
<1>10. ParamsOf(AllMethods(v)) \subseteq Mentioned(v)
  BY DEF ParamsOf, Mentioned, TypesOf
<1>11. FromParams(v) \subseteq FromAll(v)
  <2>1. ParamsOf(AllMethods(v)) \subseteq FromAll(v)
    BY <1>9, <1>10
  <2>2. Widened(InputFields, FromAll(v)) \subseteq FromAll(v)
    BY <1>9 DEF Widened, Edges
  <2>. QED BY <1>9, <2>1, <2>2, ReachedLeast DEF FromParams
<1>12. ASSUME NEW n \in Shown(v)
       PROVE  n \in DOMAIN world.inputs /\ \A f \in world.inputs[n] : f.type \in FromParams(v)
  <2>1. n \in DOMAIN world.inputs /\ \E x \in ModelNames(FromParams(v)) : n = x[1]
    BY DEF Shown, InputNames, FromParams
  <2>2. PICK t \in FromParams(v) : t.kind = "model" /\ n = t.name[1]
    BY <2>1 DEF ModelNames
  <2>3. t.name = <<n>>
    BY <1>8, <1>11, <2>2 DEF Printable
  <2>4. <<n>> \in ModelNames(FromParams(v))
    BY <2>2, <2>3 DEF ModelNames
  <2>5. ASSUME NEW f \in world.inputs[n] PROVE f.type \in FromParams(v)
    <3>1. << <<n>>, f.type>> \in InputFields
      BY <2>1, InputField
    <3>2. << <<n>>, f.type>>[1] = <<n>> /\ << <<n>>, f.type>>[2] = f.type
      OBVIOUS
    <3>3. f.type \in Widened(InputFields, FromParams(v))
      BY <2>4, <3>1, <3>2 DEF Widened
    <3>. QED BY <1>9, <3>3
  <2>. QED BY <2>1, <2>5
<1>13. ASSUME NEW t \in FromParams(v), t.kind = "model", t.name[1] \in DOMAIN world.inputs
       PROVE  t.name[1] \in Shown(v)
  BY <1>13 DEF Shown, InputNames, ModelNames, FromParams
<1>. QED BY <1>8, <1>9, <1>11, <1>12, <1>13

\* An enum that is reached is shown.
LEMMA EnumShown ==
  ASSUME NEW v, NEW t \in FromAll(v), t.kind = "enum"
  PROVE  t.name \in Enums(v)
BY DEF Enums

-----------------------------------------------------------------------------
(* Entities.  Either document shows a relationship, whether the class      *)
(* hints it or only the registry has it; introspection also shows a column *)
(* of its name.                                                            *)

PagedField(v, c, n) ==
  Field(n, PageArgs(Layout(v), c, n, v.reg[c][n]), ResultRef(v.reg[c][n].target.type))
PlainField(v, c, n, nn) ==
  Field(n, {}, Ref(<<v.reg[c][n].target.type>>, v.reg[c][n].list, v.reg[c][n].list, nn))
StrayField(v, c, n) ==
  Field(n, {}, Ref(<<"String">>, v.reg[c][n].list, v.reg[c][n].list, TRUE))
SdlRelation(v, c, n) ==
  IF ActivePaginated(v.reg[c][n]) THEN PagedField(v, c, n) ELSE PlainField(v, c, n, v.reg[c][n].list)
IntroRelation(v, c, n, g) ==
  IF ActivePaginated(v.reg[c][n]) THEN g = PagedField(v, c, n)
  ELSE IF v.reg[c][n].target.type \notin EntityNames(v) THEN g = StrayField(v, c, n)
  ELSE \E nn \in BOOLEAN : (v.reg[c][n].list => nn) /\ g = PlainField(v, c, n, nn)
SdlColumns(v, c) ==
  {Field(f.name, {}, SdlRef(v, f.type, {})) : f \in {k \in ModelFields(v, c) : k.name \notin DOMAIN v.reg[c]}}

\* An entity type is printed by its name.
LEMMA EntityLeaf ==
  ASSUME NEW v, NEW t \in EntityNames(v), NEW list, NEW opt, NEW shown
  PROVE  LeafName(v, PyModel(t, list, opt), shown) = <<t>>
BY DEF LeafName, PyModel, PyType

LEMMA SdlEntityFields ==
  ASSUME NEW v, GoodView(v), NEW c \in v.classes
  PROVE  SdlEntity(v, Layout(v), c) =
           Definition("object", <<c.type>>,
             SdlColumns(v, c) \cup {SdlRelation(v, c, n) : n \in DOMAIN v.reg[c]})
<1> DEFINE rels == v.reg[c]
           hinted == {h \in Hints(c) : h.type.name[1] \in EntityNames(v)}
           args(n) == IF IsPaginated(v, c, n) THEN PageArgs(Layout(v), c, n, rels[n]) ELSE {}
           ofHint(h) == IF h.type.list /\ IsPaginated(v, c, h.name) THEN ResultRef(h.type.name[1])
                        ELSE SdlRef(v, h.type, {})
           ofRel(r) == IF ActivePaginated(r) THEN ResultRef(r.target.type)
                       ELSE IF r.list THEN Many(<<r.target.type>>) ELSE One(<<r.target.type>>, FALSE)
           others == DOMAIN rels \ {h.name : h \in hinted}
           H == {Field(h.name, args(h.name), ofHint(h)) : h \in hinted}
           O == {Field(n, args(n), ofRel(rels[n])) : n \in others}
<1>1. SdlEntity(v, Layout(v), c) = Definition("object", <<c.type>>, SdlColumns(v, c) \cup H \cup O)
  BY DEF SdlEntity, SdlColumns
<1>2. ASSUME NEW n \in DOMAIN v.reg[c]
      PROVE  Field(n, args(n), ofRel(rels[n])) = SdlRelation(v, c, n)
  <2>1. rels[n].list \in BOOLEAN /\ (IsPaginated(v, c, n) <=> ActivePaginated(rels[n]))
    BY ViewRelation
  <2>2. CASE ActivePaginated(rels[n])
    BY <2>1, <2>2 DEF SdlRelation, PagedField
  <2>3. CASE ~ActivePaginated(rels[n])
    BY <2>1, <2>3 DEF SdlRelation, PlainField, Many, One
  <2>. QED BY <2>2, <2>3
<1>3. ASSUME NEW h \in hinted
      PROVE  /\ h.name \in DOMAIN v.reg[c]
             /\ Field(h.name, args(h.name), ofHint(h)) = SdlRelation(v, c, h.name)
  <2> DEFINE n == h.name
             t == rels[n].target.type
             l == rels[n].list
  <2>1. n \in DOMAIN v.reg[c] /\ h.type = PyModel(t, l, ~l) /\ h.type.name[1] = t
        /\ t \in EntityNames(v)
    BY ViewHint
  <2>2. /\ l \in BOOLEAN /\ (IsPaginated(v, c, n) <=> ActivePaginated(rels[n]))
        /\ IsPaginated(v, c, n) => l
    BY <2>1, ViewRelation
  <2>3. h.type.list = l /\ h.type.kind = "model" /\ h.type.opt = ~l /\ h.type.elemOpt = FALSE
    BY <2>1 DEF PyModel, PyType
  <2>4. SdlRef(v, h.type, {}) = Ref(<<t>>, l, l, l)
    <3>1. LeafName(v, h.type, {}) = <<t>>
      BY <2>1, EntityLeaf
    <3>. QED BY <2>2, <2>3, <3>1 DEF SdlRef
  <2>5. CASE ActivePaginated(rels[n])
    BY <2>1, <2>2, <2>3, <2>5 DEF SdlRelation, PagedField
  <2>6. CASE ~ActivePaginated(rels[n])
    BY <2>1, <2>2, <2>3, <2>4, <2>6 DEF SdlRelation, PlainField
  <2>. QED BY <2>1, <2>5, <2>6
<1> DEFINE F(h) == Field(h.name, args(h.name), ofHint(h))
           G(n) == Field(n, args(n), ofRel(rels[n]))
<1>4. H = {F(h) : h \in hinted} /\ O = {G(n) : n \in others}
  OBVIOUS
<1>5. \A h \in hinted : F(h) = SdlRelation(v, c, h.name) /\ h.name \in DOMAIN v.reg[c]
  BY <1>3
<1>6. \A n \in DOMAIN v.reg[c] : G(n) = SdlRelation(v, c, n)
  BY <1>2
<1>7. others = DOMAIN v.reg[c] \ {h.name : h \in hinted}
  OBVIOUS
<1>. HIDE DEF hinted, args, ofHint, ofRel, others, H, O, F, G, rels
<1>8. H \cup O = {SdlRelation(v, c, n) : n \in DOMAIN v.reg[c]}
  BY <1>4, <1>5, <1>6, <1>7
<1>. QED BY <1>1, <1>8

\* A field of the class itself, unless a relationship of its name is paginated;
\* what a materialized class has for a relationship is Optional, so not paginated.
IntroOwn(v, shown, f) == Field(f.name, {}, IntroRef(v, f.type, shown, TRUE))

LEMMA IntroOwnField ==
  ASSUME NEW v, NEW c, NEW f, IsRelation(v, c, f) \/ ~IsPaginated(v, c, f.name), NEW shown
  PROVE  IntroField(v, c, f.name, f.type, shown) = IntroOwn(v, shown, f)
<1>1. CASE IsRelation(v, c, f)
  BY <1>1 DEF IsRelation, IntroField, IntroOwn
<1>2. CASE ~IsPaginated(v, c, f.name)
  BY <1>2 DEF IntroField, IntroOwn
<1>. QED BY <1>1, <1>2

LEMMA IntroRelationField ==
  ASSUME NEW v, GoodView(v), NEW c \in v.classes, NEW n \in DOMAIN v.reg[c],
         NEW opt \in BOOLEAN, v.reg[c][n].list => ~opt,
         opt => v.reg[c][n].target.type \in EntityNames(v),
         NEW shown, shown \subseteq DOMAIN world.inputs
  PROVE  IntroRelation(v, c, n,
           IntroField(v, c, n, PyModel(v.reg[c][n].target.type, v.reg[c][n].list, opt), shown))
<1> DEFINE t == v.reg[c][n].target.type
           l == v.reg[c][n].list
           type == PyModel(t, l, opt)
<1>1. /\ l \in BOOLEAN /\ t \in Types
      /\ IsPaginated(v, c, n) <=> ActivePaginated(v.reg[c][n])
      /\ IsPaginated(v, c, n) => l /\ t \in EntityNames(v)
  BY ViewRelation
<1>2. type.list = l /\ type.opt = opt /\ type.name[1] = t /\ type.kind = "model"
  BY DEF PyModel, PyType
<1>3. t \in EntityNames(v) => LeafName(v, type, shown) = <<t>>
  BY EntityLeaf
<1>a. t \notin EntityNames(v) => LeafName(v, type, shown) = <<"String">>
  <2>1. t \notin DOMAIN world.inputs
    BY <1>1 DEF GoodView, Regular, NamesDistinct
  <2>. HIDE DEF type, t
  <2>. QED BY <1>2, <2>1 DEF LeafName
<1>4. IntroRef(v, type, shown, TRUE) = Ref(LeafName(v, type, shown), l, l, ~opt)
  BY <1>2 DEF IntroRef
<1>5. IntroLayout(v) = Layout(v)
  BY NamesAgree
<1>6. (l => ~opt) /\ (~opt) \in BOOLEAN /\ (opt => t \in EntityNames(v))
  OBVIOUS
<1>7. CASE ActivePaginated(v.reg[c][n])
  <2>1. IntroField(v, c, n, type, shown) = Field(n, PageArgs(Layout(v), c, n, v.reg[c][n]), ResultRef(t))
    BY <1>1, <1>2, <1>5, <1>6, <1>7 DEF IntroField
  <2>. QED BY <1>7, <2>1 DEF IntroRelation, PagedField
<1>8. CASE ~ActivePaginated(v.reg[c][n])
  <2>1. IntroField(v, c, n, type, shown) = Field(n, {}, Ref(LeafName(v, type, shown), l, l, ~opt))
    BY <1>1, <1>4, <1>8 DEF IntroField
  <2>2. CASE t \in EntityNames(v)
    <3>1. IntroField(v, c, n, type, shown) = PlainField(v, c, n, ~opt)
      BY <1>3, <2>1, <2>2 DEF PlainField
    <3>. HIDE DEF type, t, l
    <3>2. v.reg[c][n].list => ~opt
      OBVIOUS
    <3>. QED BY <1>6, <1>8, <2>2, <3>1, <3>2 DEF IntroRelation, type, t, l
  <2>3. CASE t \notin EntityNames(v)
    <3>1. IntroField(v, c, n, type, shown) = StrayField(v, c, n)
      BY <1>a, <1>6, <2>1, <2>3 DEF StrayField
    <3>. HIDE DEF type
    <3>. QED BY <1>8, <2>3, <3>1 DEF IntroRelation, type
  <2>. QED BY <2>2, <2>3
<1>. QED BY <1>7, <1>8

\* A field introspection shows for one of the model's.
OwnField(v, shown, c, f) == IntroField(v, c, f.name, f.type, shown)

LEMMA IntroEntityFields ==
  ASSUME NEW v, GoodView(v), NEW c \in v.classes, NEW shown, shown \subseteq DOMAIN world.inputs
  PROVE  \E fields :
           /\ IntroEntity(v, shown, c) = Definition("object", <<c.type>>, fields)
           /\ \A f \in ModelFields(v, c) : OwnField(v, shown, c, f) \in fields
           /\ \A n \in DOMAIN v.reg[c] : \E g \in fields : IntroRelation(v, c, n, g)
           /\ \A g \in fields : \/ \E f \in ModelFields(v, c) : g = OwnField(v, shown, c, f)
                                \/ \E n \in DOMAIN v.reg[c] : IntroRelation(v, c, n, g)
<1> DEFINE hinted == {h \in Hints(c) : h.type.name[1] \in EntityNames(v)}
           others == DOMAIN v.reg[c] \ {h.name : h \in hinted}
           rel(n) == [name |-> n, type |-> PyModel(v.reg[c][n].target.type, v.reg[c][n].list, FALSE)]
           rels == {rel(n) : n \in others}
           own == {[name |-> k.name, type |-> k.type] : k \in ModelFields(v, c)}
           fields == {IntroField(v, c, f.name, f.type, shown) : f \in own \cup hinted \cup rels}
<1>1. IntroEntity(v, shown, c) = Definition("object", <<c.type>>, fields)
  BY DEF IntroEntity
<1>2. ASSUME NEW h \in hinted
      PROVE  /\ h.name \in DOMAIN v.reg[c]
             /\ IntroRelation(v, c, h.name, IntroField(v, c, h.name, h.type, shown))
  <2>1. /\ h.name \in DOMAIN v.reg[c]
        /\ h.type = PyModel(v.reg[c][h.name].target.type, v.reg[c][h.name].list, ~v.reg[c][h.name].list)
        /\ v.reg[c][h.name].target.type \in EntityNames(v)
    BY ViewHint
  <2>2. v.reg[c][h.name].list \in BOOLEAN
    BY <2>1, ViewRelation
  <2> DEFINE opt == ~v.reg[c][h.name].list
  <2>3. opt \in BOOLEAN /\ (v.reg[c][h.name].list => ~opt)
    BY <2>2
  <2>4. h.type = PyModel(v.reg[c][h.name].target.type, v.reg[c][h.name].list, opt)
    BY <2>1
  <2>. HIDE DEF opt, hinted
  <2>. QED BY <2>1, <2>3, <2>4, IntroRelationField
<1>3. ASSUME NEW n \in others
      PROVE  IntroRelation(v, c, n, IntroField(v, c, rel(n).name, rel(n).type, shown))
  <2>1. rel(n).name = n /\ rel(n).type = PyModel(v.reg[c][n].target.type, v.reg[c][n].list, FALSE)
    OBVIOUS
  <2>2. n \in DOMAIN v.reg[c] /\ FALSE \in BOOLEAN /\ (v.reg[c][n].list => ~FALSE)
    OBVIOUS
  <2>. HIDE DEF rel, others
  <2>3. IntroRelation(v, c, n,
          IntroField(v, c, n, PyModel(v.reg[c][n].target.type, v.reg[c][n].list, FALSE), shown))
    BY <2>2, IntroRelationField
  <2>. QED BY <2>1, <2>3
<1>4. ASSUME NEW f \in ModelFields(v, c)
      PROVE  \E k \in own : OwnField(v, shown, c, f) = IntroField(v, c, k.name, k.type, shown)
  <2>1. [name |-> f.name, type |-> f.type] \in own
    OBVIOUS
  <2>. QED BY <2>1 DEF OwnField
<1>5. ASSUME NEW k \in own
      PROVE  \E f \in ModelFields(v, c) : OwnField(v, shown, c, f) = IntroField(v, c, k.name, k.type, shown)
  <2>1. PICK f \in ModelFields(v, c) : k = [name |-> f.name, type |-> f.type]
    OBVIOUS
  <2>. QED BY <2>1 DEF OwnField
<1>6. others \subseteq DOMAIN v.reg[c]
      /\ \A n \in DOMAIN v.reg[c] : n \in others \/ \E h \in hinted : h.name = n
  OBVIOUS
<1>. HIDE DEF hinted, others, own, rel
<1>7. \A f \in ModelFields(v, c) : OwnField(v, shown, c, f) \in fields
  BY <1>4
<1>8. ASSUME NEW n \in DOMAIN v.reg[c]
      PROVE  \E g \in fields : IntroRelation(v, c, n, g)
  <2>1. CASE n \in others
    <3>1. rel(n) \in rels
      BY <2>1
    <3>2. IntroField(v, c, rel(n).name, rel(n).type, shown) \in fields
      BY <3>1
    <3>. QED BY <1>3, <2>1, <3>2
  <2>2. ASSUME NEW h \in hinted, h.name = n PROVE \E g \in fields : IntroRelation(v, c, n, g)
    <3>1. IntroField(v, c, h.name, h.type, shown) \in fields
      OBVIOUS
    <3>. QED BY <1>2, <2>2, <3>1
  <2>. QED BY <1>6, <2>1, <2>2
<1>9. ASSUME NEW g \in fields
      PROVE  \/ \E f \in ModelFields(v, c) : g = OwnField(v, shown, c, f)
             \/ \E n \in DOMAIN v.reg[c] : IntroRelation(v, c, n, g)
  <2>1. PICK k \in own \cup hinted \cup rels : g = IntroField(v, c, k.name, k.type, shown)
    OBVIOUS
  <2>2. CASE k \in own
    BY <1>5, <2>1, <2>2
  <2>3. CASE k \in hinted
    BY <1>2, <2>1, <2>3
  <2>4. CASE k \in rels
    <3>1. PICK n \in others : k = rel(n)
      BY <2>4
    <3>. QED BY <1>3, <1>6, <2>1, <3>1
  <2>. QED BY <2>1, <2>2, <2>3, <2>4
<1>. HIDE DEF fields
<1>. QED BY <1>1, <1>7, <1>8, <1>9

\* An enum of an entity is in the documents.
LEMMA FieldEnum ==
  ASSUME NEW v, GoodView(v), NEW c \in v.classes, NEW f \in ModelFields(v, c), f.type.kind = "enum"
  PROVE  f.type.name \in Enums(v)
<1>1. IsColumn(c, f)
  BY ViewField DEF IsRelation
<1>2. f \in world.models[c.svc][c.type].fields /\ ~Materialized(c)
  BY <1>1 DEF IsColumn
<1>3. f.type \in HintTypes(v)
  BY <1>2, ClassHint
<1>4. f.type \in FromAll(v)
  BY <1>3, ViewReach DEF Mentioned
<1>. QED BY <1>4, EnumShown

\* The other definitions, one by one.
SdlInput(v, n) ==
  Definition("input", <<n>>,
    {Field(f.name, {}, SdlInputRef(v, f.type, DOMAIN world.inputs)) : f \in world.inputs[n]})
IntroInput(v, n) ==
  Definition("input", <<n>>,
    {Field(f.name, {}, IntroRef(v, f.type, Shown(v), TRUE)) : f \in world.inputs[n]})
Of(c, kind) == {f \in Methods(c) : f.kind = kind}
On(v, kind) == {c \in v.classes : Of(c, kind) # {}}
SdlGroup(v, c, kind) ==
  Definition("object", <<c.type, kind>>, {SdlMethod(v, c, f) : f \in Of(c, kind)})
IntroGroup(v, c, kind) ==
  Definition("object", <<c.type, kind>>, {IntroMethod(v, Shown(v), c, f) : f \in Of(c, kind)})
GroupRoot(v, kind) ==
  Definition("object", <<kind>>, {Field(c.type, {}, One(<<c.type, kind>>, TRUE)) : c \in On(v, kind)})
GroupRoots(v, kind) == IF On(v, kind) = {} THEN {} ELSE {GroupRoot(v, kind)}

-----------------------------------------------------------------------------
(* The documents: definitions both have, and the entities, inputs and      *)
(* groups, given as functions.                                             *)

Kinds == {"Query", "Mutation"}
Grouped(v) == {p \in v.classes \X Kinds : Of(p[1], p[2]) # {}}
Paginations(v) == IF NeedsPagination(v) THEN PaginationTypes(v) ELSE {}
EnumsOf(v) == {Definition("enum", n, {}) : n \in Enums(v)}
Shared(v) ==
  EnumsOf(v) \cup Paginations(v) \cup SdlPackages(v) \cup GroupRoots(v, "Query") \cup GroupRoots(v, "Mutation")
Document(v, entity, input, group) ==
  Shared(v) \cup {entity[c] : c \in v.classes} \cup {input[n] : n \in Shown(v)}
            \cup {group[p] : p \in Grouped(v)}
Titled(v, entity, input, group) ==
  /\ \A c \in v.classes : entity[c].kind = "object" /\ entity[c].name = <<c.type>>
  /\ \A n \in Shown(v) : input[n].kind = "input" /\ input[n].name = <<n>>
  /\ \A p \in Grouped(v) : group[p].kind = "object" /\ group[p].name = <<p[1].type, p[2]>>

SdlEntities(v) == [c \in v.classes |-> SdlEntity(v, Layout(v), c)]
SdlShown(v) == [n \in Shown(v) |-> SdlInput(v, n)]
SdlGrouped(v) == [p \in Grouped(v) |-> SdlGroup(v, p[1], p[2])]
IntroEntities(v) == [c \in v.classes |-> IntroEntity(v, Shown(v), c)]
IntroShown(v) == [n \in Shown(v) |-> IntroInput(v, n)]
IntroGrouped(v) == [p \in Grouped(v) |-> IntroGroup(v, p[1], p[2])]

\* A class has a group of a kind when it has methods of it.
LEMMA GroupedOn ==
  ASSUME NEW v
  PROVE  /\ \A kind \in Kinds : \A c \in On(v, kind) : \E p \in Grouped(v) : p[1] = c /\ p[2] = kind
         /\ \A p \in Grouped(v) : p[2] \in Kinds /\ p[1] \in On(v, p[2]) /\ p[1] \in v.classes
<1>1. ASSUME NEW kind \in Kinds, NEW c \in On(v, kind)
      PROVE  \E p \in Grouped(v) : p[1] = c /\ p[2] = kind
  <2>1. c \in v.classes /\ Of(c, kind) # {}
    BY DEF On
  <2>2. PICK p \in v.classes \X Kinds : p[1] = c /\ p[2] = kind
    <3>1. <<c, kind>> \in v.classes \X Kinds
      BY <2>1
    <3>2. <<c, kind>>[1] = c /\ <<c, kind>>[2] = kind
      OBVIOUS
    <3>. QED BY <3>1, <3>2
  <2>3. p \in Grouped(v)
    BY <2>1, <2>2 DEF Grouped
  <2>. QED BY <2>2, <2>3
<1>2. ASSUME NEW p \in Grouped(v)
      PROVE  p[2] \in Kinds /\ p[1] \in On(v, p[2]) /\ p[1] \in v.classes
  BY DEF Grouped, On
<1>. QED BY <1>1, <1>2

LEMMA SdlGroupsOf ==
  ASSUME NEW v
  PROVE  SdlGroups(v, "Query") \cup SdlGroups(v, "Mutation")
           = {SdlGrouped(v)[p] : p \in Grouped(v)} \cup GroupRoots(v, "Query") \cup GroupRoots(v, "Mutation")
<1>1. \A kind : SdlGroups(v, kind) = {SdlGroup(v, c, kind) : c \in On(v, kind)} \cup GroupRoots(v, kind)
  BY DEF SdlGroups, SdlGroup, On, Of, GroupRoots, GroupRoot
<1>2. \A p \in Grouped(v) : SdlGrouped(v)[p] = SdlGroup(v, p[1], p[2])
  BY DEF SdlGrouped
<1>3. ASSUME NEW kind \in Kinds, NEW c \in On(v, kind)
      PROVE  \E p \in Grouped(v) : SdlGrouped(v)[p] = SdlGroup(v, c, kind)
  BY <1>2, GroupedOn
<1>4. ASSUME NEW p \in Grouped(v)
      PROVE  \/ \E c \in On(v, "Query") : SdlGrouped(v)[p] = SdlGroup(v, c, "Query")
             \/ \E c \in On(v, "Mutation") : SdlGrouped(v)[p] = SdlGroup(v, c, "Mutation")
  <2>1. p[2] \in Kinds /\ p[1] \in On(v, p[2])
    BY GroupedOn
  <2>2. CASE p[2] = "Query"
    BY <1>2, <2>1, <2>2
  <2>3. CASE p[2] = "Mutation"
    BY <1>2, <2>1, <2>3
  <2>. QED BY <2>1, <2>2, <2>3 DEF Kinds
<1>5. {SdlGrouped(v)[p] : p \in Grouped(v)}
        = {SdlGroup(v, c, "Query") : c \in On(v, "Query")} \cup {SdlGroup(v, c, "Mutation") : c \in On(v, "Mutation")}
  BY <1>3, <1>4 DEF Kinds
<1>. QED BY <1>1, <1>5

LEMMA IntroGroupsOf ==
  ASSUME NEW v, GoodView(v)
  PROVE  IntroGroups(v, Shown(v), "Query") \cup IntroGroups(v, Shown(v), "Mutation")
           = {IntroGrouped(v)[p] : p \in Grouped(v)} \cup GroupRoots(v, "Query") \cup GroupRoots(v, "Mutation")
<1>1. ASSUME NEW kind
      PROVE  IntroGroups(v, Shown(v), kind) = {IntroGroup(v, c, kind) : c \in On(v, kind)} \cup GroupRoots(v, kind)
  <2>1. {c \in Scanned(v) : Of(c, kind) # {}} = On(v, kind)
    BY MethodsAgree DEF On, Of, Scanned
  <2> DEFINE on == {c \in Scanned(v) : Of(c, kind) # {}}
  <2>2. IntroGroups(v, Shown(v), kind)
          = {IntroGroup(v, c, kind) : c \in on}
            \cup IF on = {} THEN {}
                 ELSE {Definition("object", <<kind>>, {Field(c.type, {}, One(<<c.type, kind>>, TRUE)) : c \in on})}
    BY DEF IntroGroups, IntroGroup, Of
  <2>. QED BY <2>1, <2>2 DEF GroupRoots, GroupRoot
<1>2. \A p \in Grouped(v) : IntroGrouped(v)[p] = IntroGroup(v, p[1], p[2])
  BY DEF IntroGrouped
<1>3. ASSUME NEW kind \in Kinds, NEW c \in On(v, kind)
      PROVE  \E p \in Grouped(v) : IntroGrouped(v)[p] = IntroGroup(v, c, kind)
  BY <1>2, GroupedOn
<1>4. ASSUME NEW p \in Grouped(v)
      PROVE  \/ \E c \in On(v, "Query") : IntroGrouped(v)[p] = IntroGroup(v, c, "Query")
             \/ \E c \in On(v, "Mutation") : IntroGrouped(v)[p] = IntroGroup(v, c, "Mutation")
  <2>1. p[2] \in Kinds /\ p[1] \in On(v, p[2])
    BY GroupedOn
  <2>2. CASE p[2] = "Query"
    BY <1>2, <2>1, <2>2
  <2>3. CASE p[2] = "Mutation"
    BY <1>2, <2>1, <2>3
  <2>. QED BY <2>1, <2>2, <2>3 DEF Kinds
<1>5. {IntroGrouped(v)[p] : p \in Grouped(v)}
        = {IntroGroup(v, c, "Query") : c \in On(v, "Query")} \cup {IntroGroup(v, c, "Mutation") : c \in On(v, "Mutation")}
  BY <1>3, <1>4 DEF Kinds
<1>. QED BY <1>1, <1>5

\* The key of a page is one scalar, printed alike.
LEMMA PackagesAgree ==
  ASSUME NEW v
  PROVE  SdlPackages(v) = IntroPackages(v)
<1>1. ASSUME NEW s, NEW t, NEW k \in ParamTypes(KeyRoot(s, t))
      PROVE  SdlRef(v, [k EXCEPT !.list = FALSE], {}) = IntroRef(v, [k EXCEPT !.list = FALSE], {}, TRUE)
  <2>1. k = PyType("scalar", <<world.keyType[s][t]>>, TRUE, FALSE, FALSE)
    <3>1. \A a \in KeyRoot(s, t).args : a.type = PyType("scalar", <<world.keyType[s][t]>>, TRUE, FALSE, FALSE)
      BY DEF KeyRoot, PyType
    <3>. QED BY <3>1 DEF ParamTypes
  <2> DEFINE u == [k EXCEPT !.list = FALSE]
  <2>2. u.kind = "scalar" /\ u.list = FALSE /\ u.elemOpt = FALSE /\ u.opt = FALSE
    BY <2>1 DEF PyType
  <2>. HIDE DEF u
  <2>3. SdlRef(v, u, {}) = IntroRef(v, u, {}, TRUE)
    BY <2>2 DEF SdlRef, IntroRef
  <2>. QED BY <2>3 DEF u
<1>2. ASSUME NEW s, NEW t
      PROVE  {Field("key", {}, SdlRef(v, [k EXCEPT !.list = FALSE], {})) : k \in ParamTypes(KeyRoot(s, t))}
             = {Field("key", {}, IntroRef(v, [k EXCEPT !.list = FALSE], {}, TRUE)) : k \in ParamTypes(KeyRoot(s, t))}
  BY <1>1
<1>3. \A c \in PageRoots(v) :
        {Field("key", {}, SdlRef(v, [k EXCEPT !.list = FALSE], {})) : k \in ParamTypes(KeyRoot(c.svc, c.type))}
        = {Field("key", {}, IntroRef(v, [k EXCEPT !.list = FALSE], {}, TRUE)) : k \in ParamTypes(KeyRoot(c.svc, c.type))}
  BY <1>2
<1>. QED BY <1>3 DEF SdlPackages, IntroPackages

LEMMA SdlDocument ==
  ASSUME NEW v, GoodView(v)
  PROVE  /\ Sdl(v) = Document(v, SdlEntities(v), SdlShown(v), SdlGrouped(v))
         /\ Titled(v, SdlEntities(v), SdlShown(v), SdlGrouped(v))
<1>1. {SdlEntity(v, Layout(v), c) : c \in v.classes} = {SdlEntities(v)[c] : c \in v.classes}
  BY DEF SdlEntities
<1>2. SdlInputs(v) = {SdlShown(v)[n] : n \in Shown(v)}
  BY DEF SdlInputs, SdlShown, SdlInput, Shown, ParamsOf, AllMethods
<1>3. {Definition("enum", n, {}) : n \in SdlEnums(v, Layout(v))} = EnumsOf(v)
  BY NamesAgree DEF EnumsOf
<1>4. Sdl(v) = EnumsOf(v) \cup SdlInputs(v) \cup {SdlEntity(v, Layout(v), c) : c \in v.classes}
               \cup Paginations(v) \cup SdlPackages(v) \cup SdlGroups(v, "Query") \cup SdlGroups(v, "Mutation")
  BY <1>3, Zenon DEF Sdl, Layout, Paginations
<1>5. Sdl(v) = Document(v, SdlEntities(v), SdlShown(v), SdlGrouped(v))
  BY <1>1, <1>2, <1>4, SdlGroupsOf DEF Document, Shared
<1>6. \A c \in v.classes : SdlEntities(v)[c].kind = "object" /\ SdlEntities(v)[c].name = <<c.type>>
  <2>1. \A c \in v.classes : SdlEntity(v, Layout(v), c).kind = "object" /\ SdlEntity(v, Layout(v), c).name = <<c.type>>
    BY SdlEntityFields DEF Definition
  <2>. QED BY <2>1 DEF SdlEntities
<1>7. /\ \A n \in Shown(v) : SdlShown(v)[n].kind = "input" /\ SdlShown(v)[n].name = <<n>>
      /\ \A p \in Grouped(v) : SdlGrouped(v)[p].kind = "object" /\ SdlGrouped(v)[p].name = <<p[1].type, p[2]>>
  BY DEF SdlShown, SdlInput, SdlGrouped, SdlGroup, Definition
<1>. QED BY <1>5, <1>6, <1>7 DEF Titled

LEMMA IntroDocument ==
  ASSUME NEW v, GoodView(v)
  PROVE  /\ Introspection(v) = Document(v, IntroEntities(v), IntroShown(v), IntroGrouped(v))
         /\ Titled(v, IntroEntities(v), IntroShown(v), IntroGrouped(v))
<1>1. {IntroEntity(v, Shown(v), c) : c \in v.classes} = {IntroEntities(v)[c] : c \in v.classes}
  BY DEF IntroEntities
<1>2. IntroInputs(v, Shown(v)) = {IntroShown(v)[n] : n \in Shown(v)}
  BY DEF IntroInputs, IntroShown, IntroInput
<1>3. {Definition("enum", n, {}) : n \in IntroEnums(v)} = EnumsOf(v)
  BY NamesAgree DEF EnumsOf
<1>4. IntroInputNames(v) = Shown(v)
  BY NamesAgree
<1>5. Introspection(v)
        = EnumsOf(v) \cup IntroInputs(v, Shown(v)) \cup {IntroEntity(v, Shown(v), c) : c \in v.classes}
          \cup Paginations(v) \cup IntroPackages(v)
          \cup IntroGroups(v, Shown(v), "Query") \cup IntroGroups(v, Shown(v), "Mutation")
  BY <1>3, <1>4 DEF Introspection, Paginations
<1>6. Introspection(v) = Document(v, IntroEntities(v), IntroShown(v), IntroGrouped(v))
  BY <1>1, <1>2, <1>5, IntroGroupsOf, PackagesAgree DEF Document, Shared
<1>7. \A c \in v.classes : IntroEntities(v)[c].kind = "object" /\ IntroEntities(v)[c].name = <<c.type>>
  <2>1. ASSUME NEW c \in v.classes
        PROVE  IntroEntity(v, Shown(v), c).kind = "object" /\ IntroEntity(v, Shown(v), c).name = <<c.type>>
    BY DEF IntroEntity, Definition
  <2>. QED BY <2>1 DEF IntroEntities
<1>8. /\ \A n \in Shown(v) : IntroShown(v)[n].kind = "input" /\ IntroShown(v)[n].name = <<n>>
      /\ \A p \in Grouped(v) : IntroGrouped(v)[p].kind = "object" /\ IntroGrouped(v)[p].name = <<p[1].type, p[2]>>
  BY DEF IntroShown, IntroInput, IntroGrouped, IntroGroup, Definition
<1>. QED BY <1>6, <1>7, <1>8 DEF Titled

\* The parts of a document.
LEMMA DocumentParts ==
  ASSUME NEW v, NEW entity, NEW input, NEW group, NEW d
  PROVE  d \in Document(v, entity, input, group) <=>
           \/ d \in Shared(v)
           \/ \E c \in v.classes : d = entity[c]
           \/ \E n \in Shown(v) : d = input[n]
           \/ \E p \in Grouped(v) : d = group[p]
BY DEF Document

-----------------------------------------------------------------------------
(* Names are defined once: the shape of a name tells what it names.        *)

Slots == {"enum", "entity", "input", "pagination", "result", "package", "group", "root"}
SlotOfOne(n) ==
  IF n \in Types THEN "entity" ELSE IF n \in DOMAIN world.inputs THEN "input"
  ELSE IF n = "Pagination" THEN "pagination" ELSE IF n \in Kinds THEN "root" ELSE "enum"
SlotOfTwo(n) ==
  IF n = "Result" THEN "result" ELSE IF n = "PagePackage" THEN "package"
  ELSE IF n \in Kinds THEN "group" ELSE "enum"
Slot(n) == IF Len(n) = 1 THEN SlotOfOne(n[1]) ELSE SlotOfTwo(n[2])

Part(v, entity, input, group, slot) ==
  CASE slot = "enum" -> EnumsOf(v)
    [] slot = "entity" -> {entity[c] : c \in v.classes}
    [] slot = "input" -> {input[n] : n \in Shown(v)}
    [] slot = "pagination" -> {d \in PaginationTypes(v) : d.name = <<"Pagination">>}
    [] slot = "result" -> {Definition("object", <<t, "Result">>, Items(t)) : t \in PaginatedTargets(v)}
    [] slot = "package" -> SdlPackages(v)
    [] slot = "group" -> {group[p] : p \in Grouped(v)}
    [] slot = "root" -> GroupRoots(v, "Query") \cup GroupRoots(v, "Mutation")

LEMMA SlotsOfTuples ==
  /\ \A t : Slot(<<t>>) = SlotOfOne(t)
  /\ \A t, n : Slot(<<t, n>>) = SlotOfTwo(n)
<1>1. \A t : Len(<<t>>) = 1 /\ <<t>>[1] = t
  OBVIOUS
<1>2. \A t, n : Len(<<t, n>>) = 2 /\ <<t, n>>[2] = n
  OBVIOUS
<1>3. \A t : Slot(<<t>>) = SlotOfOne(t)
  BY <1>1 DEF Slot
<1>4. \A t, n : Slot(<<t, n>>) = SlotOfTwo(n)
  BY <1>2 DEF Slot
<1>. QED BY <1>3, <1>4

LEMMA SlotsOfNames ==
  ASSUME NEW v, GoodView(v)
  PROVE  /\ \A t \in Types : Slot(<<t>>) = "entity"
         /\ \A n \in DOMAIN world.inputs : Slot(<<n>>) = "input"
         /\ Slot(<<"Pagination">>) = "pagination" /\ \A k \in Kinds : Slot(<<k>>) = "root"
         /\ \A t : Slot(<<t, "Result">>) = "result" /\ Slot(<<t, "PagePackage">>) = "package"
         /\ \A t : \A k \in Kinds : Slot(<<t, k>>) = "group"
         /\ \A n \in Enums(v) : Slot(n) = "enum"
<1>1. /\ Types \cap DOMAIN world.inputs = {}
      /\ Reserved \cap (Types \cup DOMAIN world.inputs) = {}
  BY DEF GoodView, Regular, NamesDistinct
<1>2. \A n \in Types \cup DOMAIN world.inputs : n \notin Reserved
  BY <1>1
<1>3. /\ \A t \in Types : SlotOfOne(t) = "entity"
      /\ \A n \in DOMAIN world.inputs : SlotOfOne(n) = "input"
      /\ SlotOfOne("Pagination") = "pagination" /\ \A k \in Kinds : SlotOfOne(k) = "root"
      /\ SlotOfOne("Direction") = "enum"
      /\ \A n : n \notin Types \cup DOMAIN world.inputs \cup {"Pagination", "Query", "Mutation"}
                => SlotOfOne(n) = "enum"
  <2>1. \A t \in Types : SlotOfOne(t) = "entity"
    BY DEF SlotOfOne
  <2>2. \A n \in DOMAIN world.inputs : SlotOfOne(n) = "input"
    BY <1>1 DEF SlotOfOne
  <2>3. SlotOfOne("Pagination") = "pagination"
    BY <1>2 DEF SlotOfOne, Reserved
  <2>4. SlotOfOne("Direction") = "enum"
    BY <1>2 DEF SlotOfOne, Reserved, Kinds
  <2>5. SlotOfOne("Query") = "root" /\ SlotOfOne("Mutation") = "root"
    BY <1>2 DEF SlotOfOne, Reserved, Kinds
  <2>6. \A n : n \notin Types \cup DOMAIN world.inputs \cup {"Pagination", "Query", "Mutation"}
               => SlotOfOne(n) = "enum"
    BY DEF SlotOfOne, Kinds
  <2>. QED BY <2>1, <2>2, <2>3, <2>4, <2>5, <2>6 DEF Kinds
<1>4. /\ SlotOfTwo("Result") = "result" /\ SlotOfTwo("PagePackage") = "package"
      /\ \A k \in Kinds : SlotOfTwo(k) = "group"
      /\ SlotOfTwo("Order") = "enum" /\ SlotOfTwo("PageOrder") = "enum"
  BY DEF SlotOfTwo, Kinds
<1>5. ASSUME NEW n \in Enums(v) PROVE Slot(n) = "enum"
  <2>1. CASE n \in LayoutEnums(Layout(v))
    <3>1. n = <<"Direction">> \/ \E t : n = <<t, "Order">>
      BY <2>1 DEF LayoutEnums, Layout, OrderLayout
    <3>. QED BY <1>3, <1>4, <3>1, SlotsOfTuples
  <2>2. CASE n \notin LayoutEnums(Layout(v))
    <3>1. PICK t \in FromAll(v) : t.kind = "enum" /\ n = t.name
      BY <2>2 DEF Enums
    <3>2. EnumNamed(t)
      BY <3>1, ViewReach
    <3>3. \/ n = <<"Direction">> \/ \E e \in Types : n = <<e, "PageOrder">>
          \/ n = <<t.name[1]>>
             /\ t.name[1] \notin Types \cup DOMAIN world.inputs \cup {"Pagination", "Query", "Mutation"}
      BY <3>1, <3>2 DEF EnumNamed
    <3>. QED BY <1>3, <1>4, <3>3, SlotsOfTuples
  <2>. QED BY <2>1, <2>2
<1>. QED BY <1>3, <1>4, <1>5, SlotsOfTuples

\* A definition is in the part its name tells.
LEMMA DefinitionsInSlots ==
  ASSUME NEW v, GoodView(v), NEW entity, NEW input, NEW group, Titled(v, entity, input, group),
         NEW d \in Document(v, entity, input, group)
  PROVE  Slot(d.name) \in Slots /\ d \in Part(v, entity, input, group, Slot(d.name))
<1>1. CASE d \in EnumsOf(v)
  <2>1. PICK n \in Enums(v) : d = Definition("enum", n, {})
    BY <1>1 DEF EnumsOf
  <2>2. Slot(d.name) = "enum"
    BY <2>1, SlotsOfNames DEF Definition
  <2>. QED BY <1>1, <2>2 DEF Part, Slots
<1>2. CASE d \in Paginations(v)
  <2>1. d \in PaginationTypes(v)
    BY <1>2 DEF Paginations
  <2>2. d.name = <<"Pagination">>
        \/ \E t \in PaginatedTargets(v) : d = Definition("object", <<t, "Result">>, Items(t))
    <3>1. \A fields : Definition("object", <<"Pagination">>, fields).name = <<"Pagination">>
      BY DEF Definition
    <3>. QED BY <2>1, <3>1 DEF PaginationTypes
  <2>3. CASE d.name = <<"Pagination">>
    <3>1. Slot(d.name) = "pagination"
      BY <2>3, SlotsOfNames
    <3>. QED BY <2>1, <2>3, <3>1 DEF Part, Slots
  <2>4. CASE \E t \in PaginatedTargets(v) : d = Definition("object", <<t, "Result">>, Items(t))
    <3>1. PICK t \in PaginatedTargets(v) : d = Definition("object", <<t, "Result">>, Items(t))
      BY <2>4
    <3>2. d.name = <<t, "Result">>
      BY <3>1 DEF Definition
    <3>3. Slot(d.name) = "result"
      BY <3>2, SlotsOfNames
    <3>. QED BY <2>4, <3>3 DEF Part, Slots
  <2>. QED BY <2>2, <2>3, <2>4
<1>3. CASE d \in SdlPackages(v)
  <2>1. \E t : d.name = <<t, "PagePackage">>
    BY <1>3 DEF SdlPackages, Definition
  <2>2. Slot(d.name) = "package"
    BY <2>1, SlotsOfNames
  <2>. QED BY <1>3, <2>2 DEF Part, Slots
<1>4. CASE d \in GroupRoots(v, "Query") \cup GroupRoots(v, "Mutation")
  <2>1. \E k \in Kinds : d.name = <<k>>
    <3>1. PICK k \in Kinds : d = GroupRoot(v, k)
      BY <1>4 DEF GroupRoots, Kinds
    <3>2. d.name = <<k>>
      BY <3>1 DEF GroupRoot, Definition
    <3>. QED BY <3>2
  <2>2. Slot(d.name) = "root"
    BY <2>1, SlotsOfNames
  <2>. QED BY <1>4, <2>2 DEF Part, Slots
<1>5. ASSUME NEW c \in v.classes, d = entity[c]
      PROVE  Slot(d.name) \in Slots /\ d \in Part(v, entity, input, group, Slot(d.name))
  <2>1. c.type \in Types /\ d.name = <<c.type>>
    BY <1>5, ViewClass DEF Titled
  <2>2. Slot(d.name) = "entity"
    BY <2>1, SlotsOfNames
  <2>. QED BY <1>5, <2>2 DEF Part, Slots
<1>6. ASSUME NEW n \in Shown(v), d = input[n]
      PROVE  Slot(d.name) \in Slots /\ d \in Part(v, entity, input, group, Slot(d.name))
  <2>1. n \in DOMAIN world.inputs /\ d.name = <<n>>
    BY <1>6, ViewReach DEF Titled
  <2>2. Slot(d.name) = "input"
    BY <2>1, SlotsOfNames
  <2>. QED BY <1>6, <2>2 DEF Part, Slots
<1>7. ASSUME NEW p \in Grouped(v), d = group[p]
      PROVE  Slot(d.name) \in Slots /\ d \in Part(v, entity, input, group, Slot(d.name))
  <2>1. p[2] \in Kinds /\ d.name = <<p[1].type, p[2]>>
    BY <1>7, GroupedOn DEF Titled
  <2>2. Slot(d.name) = "group"
    BY <2>1, SlotsOfNames
  <2>. QED BY <1>7, <2>2 DEF Part, Slots
<1>8. d \in Shared(v) => d \in EnumsOf(v) \/ d \in Paginations(v) \/ d \in SdlPackages(v)
                         \/ d \in GroupRoots(v, "Query") \cup GroupRoots(v, "Mutation")
  BY DEF Shared
<1>. QED BY <1>1, <1>2, <1>3, <1>4, <1>5, <1>6, <1>7, <1>8, DocumentParts

\* In a part, a name is given once.
LEMMA NamedOnce ==
  ASSUME NEW v, GoodView(v), NEW entity, NEW input, NEW group, Titled(v, entity, input, group),
         NEW slot \in Slots,
         NEW d \in Part(v, entity, input, group, slot), NEW e \in Part(v, entity, input, group, slot),
         d.name = e.name
  PROVE  d = e
<1>1. \A c, k \in v.classes : c.type = k.type => c = k
  BY DEF GoodView
<1>2. \A s, t : <<s>> = <<t>> => s = t
  OBVIOUS
<1>3. \A s, t, x, y : <<s, x>> = <<t, y>> => s = t /\ x = y
  OBVIOUS
<1>4. CASE slot = "enum"
  BY <1>4 DEF Part, EnumsOf, Definition
<1>5. CASE slot = "entity"
  <2>1. PICK c \in v.classes : d = entity[c]
    BY <1>5 DEF Part
  <2>2. PICK k \in v.classes : e = entity[k]
    BY <1>5 DEF Part
  <2>3. <<c.type>> = <<k.type>>
    BY <2>1, <2>2 DEF Titled
  <2>. QED BY <1>1, <1>2, <2>1, <2>2, <2>3
<1>6. CASE slot = "input"
  <2>1. PICK c \in Shown(v) : d = input[c]
    BY <1>6 DEF Part
  <2>2. PICK k \in Shown(v) : e = input[k]
    BY <1>6 DEF Part
  <2>3. <<c>> = <<k>>
    BY <2>1, <2>2 DEF Titled
  <2>. QED BY <1>2, <2>1, <2>2, <2>3
<1>7. CASE slot = "pagination"
  <2>1. \A t : Definition("object", <<t, "Result">>, Items(t)).name # <<"Pagination">>
    <3>1. \A t : Len(<<t, "Result">>) = 2 /\ Len(<<"Pagination">>) = 1
      OBVIOUS
    <3>2. \A t : <<t, "Result">> # <<"Pagination">>
      BY <3>1
    <3>. QED BY <3>2 DEF Definition
  <2>. QED BY <1>7, <2>1 DEF Part, PaginationTypes
<1>8. CASE slot = "result"
  <2>1. PICK s \in PaginatedTargets(v) : d = Definition("object", <<s, "Result">>, Items(s))
    BY <1>8 DEF Part
  <2>2. PICK t \in PaginatedTargets(v) : e = Definition("object", <<t, "Result">>, Items(t))
    BY <1>8 DEF Part
  <2>3. <<s, "Result">> = <<t, "Result">>
    BY <2>1, <2>2 DEF Definition
  <2>. QED BY <1>3, <2>1, <2>2, <2>3
<1>9. CASE slot = "package"
  <2> DEFINE package(c) ==
        Definition("object", <<c.type, "PagePackage">>,
          Items(c.type) \cup {Field("key", {}, SdlRef(v, [k EXCEPT !.list = FALSE], {})) :
                                k \in ParamTypes(KeyRoot(c.svc, c.type))})
  <2>1. PICK c \in PageRoots(v) : d = package(c)
    BY <1>9 DEF Part, SdlPackages
  <2>2. PICK k \in PageRoots(v) : e = package(k)
    BY <1>9 DEF Part, SdlPackages
  <2>3. <<c.type, "PagePackage">> = <<k.type, "PagePackage">>
    BY <2>1, <2>2 DEF Definition
  <2>4. c \in v.classes /\ k \in v.classes
    BY DEF PageRoots
  <2>. HIDE DEF package
  <2>. QED BY <1>1, <1>3, <2>1, <2>2, <2>3, <2>4
<1>10. CASE slot = "group"
  <2>1. PICK p \in Grouped(v) : d = group[p]
    BY <1>10 DEF Part
  <2>2. PICK q \in Grouped(v) : e = group[q]
    BY <1>10 DEF Part
  <2>3. <<p[1].type, p[2]>> = <<q[1].type, q[2]>>
    BY <2>1, <2>2 DEF Titled
  <2>4. p[1] \in v.classes /\ q[1] \in v.classes
    BY GroupedOn
  <2>5. p[1] = q[1] /\ p[2] = q[2]
    BY <1>1, <1>3, <2>3, <2>4
  <2>6. p = <<p[1], p[2]>> /\ q = <<q[1], q[2]>>
    BY DEF Grouped
  <2>. QED BY <2>1, <2>2, <2>5, <2>6
<1>11. CASE slot = "root"
  <2>1. PICK j \in Kinds : d = GroupRoot(v, j)
    BY <1>11 DEF Part, GroupRoots, Kinds
  <2>2. PICK k \in Kinds : e = GroupRoot(v, k)
    BY <1>11 DEF Part, GroupRoots, Kinds
  <2>3. <<j>> = <<k>>
    BY <2>1, <2>2 DEF GroupRoot, Definition
  <2>. QED BY <1>2, <2>1, <2>2, <2>3
<1>. QED BY <1>4, <1>5, <1>6, <1>7, <1>8, <1>9, <1>10, <1>11 DEF Slots

LEMMA DefinedOnce ==
  ASSUME NEW v, GoodView(v), NEW entity, NEW input, NEW group, Titled(v, entity, input, group)
  PROVE  \A d, e \in Document(v, entity, input, group) : d.name = e.name => d = e
BY DefinitionsInSlots, NamedOnce

-----------------------------------------------------------------------------
(* Names are defined: whatever a field refers to has a definition.         *)

Defines(v, names) ==
  /\ Enums(v) \subseteq names
  /\ \A t \in EntityNames(v) : <<t>> \in names
  /\ \A n \in Shown(v) : <<n>> \in names
  /\ \A p \in Grouped(v) : <<p[1].type, p[2]>> \in names
  /\ \A c \in PageRoots(v) : <<c.type, "PagePackage">> \in names
  /\ \A t \in PaginatedTargets(v) : <<t, "Result">> \in names
  /\ NeedsPagination(v) => <<"Pagination">> \in names
DefinedIn(names, f) ==
  /\ f.ref.name \in BuiltIn \cup names
  /\ \A a \in f.args : a.ref.name \in BuiltIn \cup names
AllDefined(names, d) == \A f \in d.fields : DefinedIn(names, f)

LEMMA DefinedWider ==
  ASSUME NEW names, NEW wider, names \subseteq wider, NEW d, AllDefined(names, d)
  PROVE  AllDefined(wider, d)
BY DEF AllDefined, DefinedIn

\* No column of an own class is named like a relationship that is paginated.
ColumnsApart(v) ==
  \A c \in v.classes : \A f \in ModelFields(v, c) : Materialized(c) \/ ~IsPaginated(v, c, f.name)

LEMMA DocumentDefines ==
  ASSUME NEW v, NEW entity, NEW input, NEW group, Titled(v, entity, input, group)
  PROVE  Defines(v, {d.name : d \in Document(v, entity, input, group)})
<1> DEFINE doc == Document(v, entity, input, group)
           names == {d.name : d \in doc}
<1>1. \A d \in Shared(v) : d.name \in names
  BY DEF Document
<1>2. \A c \in v.classes : <<c.type>> \in names
  <2>1. \A c \in v.classes : entity[c] \in doc /\ entity[c].name = <<c.type>>
    BY DocumentParts DEF Titled
  <2>. QED BY <2>1
<1>3. \A n \in Shown(v) : <<n>> \in names
  <2>1. \A n \in Shown(v) : input[n] \in doc /\ input[n].name = <<n>>
    BY DocumentParts DEF Titled
  <2>. QED BY <2>1
<1>4. \A p \in Grouped(v) : <<p[1].type, p[2]>> \in names
  <2>1. \A p \in Grouped(v) : group[p] \in doc /\ group[p].name = <<p[1].type, p[2]>>
    BY DocumentParts DEF Titled
  <2>. QED BY <2>1
<1>. HIDE DEF doc, names
<1>5. \A kind, name, fields : Definition(kind, name, fields).name = name
  BY DEF Definition
<1>6. ASSUME NEW n \in Enums(v) PROVE n \in names
  <2>1. Definition("enum", n, {}) \in Shared(v)
    BY DEF Shared, EnumsOf
  <2>. QED BY <1>1, <1>5, <2>1
<1>7. ASSUME NEW t \in EntityNames(v) PROVE <<t>> \in names
  BY <1>2 DEF EntityNames
<1>8. ASSUME NEW c \in PageRoots(v) PROVE <<c.type, "PagePackage">> \in names
  <2>1. \E d \in SdlPackages(v) : d.name = <<c.type, "PagePackage">>
    <3> DEFINE fields == Items(c.type) \cup {Field("key", {}, SdlRef(v, [k EXCEPT !.list = FALSE], {})) :
                                               k \in ParamTypes(KeyRoot(c.svc, c.type))}
    <3>1. Definition("object", <<c.type, "PagePackage">>, fields) \in SdlPackages(v)
      BY DEF SdlPackages
    <3>. HIDE DEF fields
    <3>. QED BY <1>5, <3>1
  <2>. QED BY <1>1, <2>1 DEF Shared
<1>9. NeedsPagination(v) =>
        <<"Pagination">> \in names /\ \A t \in PaginatedTargets(v) : <<t, "Result">> \in names
  <2>. SUFFICES ASSUME NeedsPagination(v)
                PROVE  <<"Pagination">> \in names /\ \A t \in PaginatedTargets(v) : <<t, "Result">> \in names
    OBVIOUS
  <2>1. PaginationTypes(v) \subseteq Shared(v)
    BY DEF Shared, Paginations
  <2>2. \E d \in PaginationTypes(v) : d.name = <<"Pagination">>
    BY <1>5 DEF PaginationTypes
  <2>3. ASSUME NEW t \in PaginatedTargets(v) PROVE \E d \in PaginationTypes(v) : d.name = <<t, "Result">>
    <3>1. Definition("object", <<t, "Result">>, Items(t)) \in PaginationTypes(v)
      BY DEF PaginationTypes
    <3>. QED BY <1>5, <3>1
  <2>. QED BY <1>1, <2>1, <2>2, <2>3
<1>10. PaginatedTargets(v) # {} => NeedsPagination(v)
  BY DEF NeedsPagination
<1>11. Defines(v, names)
  BY <1>3, <1>4, <1>6, <1>7, <1>8, <1>9, <1>10 DEF Defines
<1>. QED BY <1>11 DEF names, doc

\* What a leaf is printed as is defined.
LEMMA LeafDefined ==
  ASSUME NEW v, NEW names, Defines(v, names), NEW t, Printable(t), NEW shown,
         t.kind = "enum" => t.name \in Enums(v),
         t.kind = "model" /\ t.name[1] \in shown => t.name[1] \in EntityNames(v) \cup Shown(v)
  PROVE  LeafName(v, t, shown) \in BuiltIn \cup names
<1>1. \A n : ScalarName(n) \in BuiltIn
  BY DEF ScalarName, BuiltIn
<1>2. <<"String">> \in BuiltIn
  BY DEF BuiltIn
<1>3. CASE t.kind = "enum"
  BY <1>3 DEF LeafName, Defines
<1>4. CASE t.kind = "model"
  <2>1. CASE t.name[1] \in EntityNames(v) \cup shown
    <3>1. LeafName(v, t, shown) = t.name /\ t.name = <<t.name[1]>>
      BY <1>4, <2>1 DEF LeafName, Printable
    <3>2. t.name[1] \in EntityNames(v) \/ t.name[1] \in Shown(v)
      BY <1>4, <2>1
    <3>. QED BY <3>1, <3>2 DEF Defines
  <2>2. CASE t.name[1] \notin EntityNames(v) \cup shown
    <3>1. LeafName(v, t, shown) = <<"String">>
      BY <1>4, <2>2 DEF LeafName
    <3>. QED BY <1>2, <3>1
  <2>. QED BY <2>1, <2>2
<1>5. CASE t.kind = "scalar"
  BY <1>1, <1>5 DEF LeafName
<1>6. CASE t.kind = "other"
  BY <1>2, <1>6 DEF LeafName
<1>. QED BY <1>3, <1>4, <1>5, <1>6 DEF Printable

\* A relationship refers to its target, or to its result; a page argument to
\* an enum of the layout.
LEMMA RelationDefined ==
  ASSUME NEW v, GoodView(v), NEW names, Defines(v, names), NEW c \in v.classes, NEW n \in DOMAIN v.reg[c]
  PROVE  /\ ActivePaginated(v.reg[c][n]) => DefinedIn(names, PagedField(v, c, n))
         /\ \A nn : DefinedIn(names \cup StrayNames(v), PlainField(v, c, n, nn))
         /\ v.reg[c][n].target.type \in EntityNames(v) => \A nn : DefinedIn(names, PlainField(v, c, n, nn))
         /\ DefinedIn(names, StrayField(v, c, n))
<1> DEFINE r == v.reg[c][n]
           paged == PagedField(v, c, n)
<1>1. n \in Rels /\ (r.target.type \in EntityNames(v) \/ <<r.target.type>> \in StrayNames(v))
      /\ (ActivePaginated(r) => r.target.type \in PaginatedTargets(v))
  BY ViewRelation
<1>2. /\ \A nn : DefinedIn(names \cup StrayNames(v), PlainField(v, c, n, nn))
      /\ r.target.type \in EntityNames(v) => \A nn : DefinedIn(names, PlainField(v, c, n, nn))
  <2>1. \A nn : PlainField(v, c, n, nn).args = {} /\ PlainField(v, c, n, nn).ref.name = <<r.target.type>>
    BY DEF PlainField, Field, Ref
  <2>2. r.target.type \in EntityNames(v) => <<r.target.type>> \in names
    BY DEF Defines
  <2>. HIDE DEF r
  <2>. QED BY <1>1, <2>1, <2>2 DEF DefinedIn
<1>a. DefinedIn(names, StrayField(v, c, n))
  <2>1. StrayField(v, c, n).args = {} /\ StrayField(v, c, n).ref.name = <<"String">>
    BY DEF StrayField, Field, Ref
  <2>. QED BY <2>1 DEF DefinedIn, BuiltIn
<1>3. ASSUME ActivePaginated(r) PROVE DefinedIn(names, paged)
  <2>1. paged.args = PageArgs(Layout(v), c, n, r) /\ paged.ref.name = <<r.target.type, "Result">>
    BY DEF PagedField, Field, ResultRef, One, Ref
  <2>2. paged.ref.name \in BuiltIn \cup names
    BY <1>1, <1>3, <2>1 DEF Defines
  <2>3. \A a \in LimitOffset : a.ref.name \in BuiltIn
    BY DEF LimitOffset, Arg, One, Ref, BuiltIn
  <2>4. ASSUME NEW a \in paged.args PROVE a.ref.name \in BuiltIn \cup names
    <3>1. CASE ~Capable(r)
      BY <2>1, <2>3, <3>1 DEF PageArgs
    <3>2. CASE Capable(r)
      <4>1. \E o \in Layout(v) : TRUE
        <5>1. <<c, n>> \in v.classes \X Rels
          BY <1>1
        <5>2. <<c, n>>[1] = c /\ <<c, n>>[2] = n
          OBVIOUS
        <5> DEFINE p == <<c, n>>
        <5>3. p \in {q \in v.classes \X Rels : q[2] \in DOMAIN v.reg[q[1]]
                                               /\ Capable(v.reg[q[1]][q[2]])}
          BY <3>2, <5>1, <5>2
        <5>. QED BY <5>3 DEF Layout, OrderLayout
      <4>2. <<"Direction">> \in Enums(v) /\ \A o \in Layout(v) : o.enum \in Enums(v)
        BY <4>1 DEF Enums, LayoutEnums
      <4>3. \/ a \in LimitOffset
            \/ a = Arg("direction", One(<<"Direction">>, FALSE))
            \/ \E o \in Layout(v) : a = Arg("order", One(o.enum, FALSE))
        BY <2>1, <3>2 DEF PageArgs
      <4>4. \A name, x : Arg(name, One(x, FALSE)).ref.name = x
        BY DEF Arg, One, Ref
      <4>5. Enums(v) \subseteq names
        BY DEF Defines
      <4>6. CASE a \in LimitOffset
        BY <2>3, <4>6
      <4>7. CASE a = Arg("direction", One(<<"Direction">>, FALSE))
        BY <4>2, <4>4, <4>5, <4>7
      <4>8. CASE \E o \in Layout(v) : a = Arg("order", One(o.enum, FALSE))
        <5>1. PICK o \in Layout(v) : a = Arg("order", One(o.enum, FALSE))
          BY <4>8
        <5>2. a.ref.name = o.enum
          BY <4>4, <5>1
        <5>. QED BY <4>2, <4>5, <5>2
      <4>. QED BY <4>3, <4>6, <4>7, <4>8
    <3>. QED BY <3>1, <3>2
  <2>. QED BY <2>2, <2>4 DEF DefinedIn
<1>. QED BY <1>2, <1>3, <1>a

LEMMA EntityDefined ==
  ASSUME NEW v, GoodView(v), NEW names, Defines(v, names), NEW c \in v.classes
  PROVE  /\ AllDefined(names \cup StrayNames(v), SdlEntity(v, Layout(v), c))
         /\ ColumnsApart(v) => AllDefined(names, IntroEntity(v, Shown(v), c))
<1> DEFINE d == SdlEntity(v, Layout(v), c)
           e == IntroEntity(v, Shown(v), c)
<1>1. d.fields = SdlColumns(v, c) \cup {SdlRelation(v, c, n) : n \in DOMAIN v.reg[c]}
  BY SdlEntityFields DEF Definition
<1>2. PICK fields :
        /\ e = Definition("object", <<c.type>>, fields)
        /\ \A f \in ModelFields(v, c) : OwnField(v, Shown(v), c, f) \in fields
        /\ \A n \in DOMAIN v.reg[c] : \E g \in fields : IntroRelation(v, c, n, g)
        /\ \A g \in fields : \/ \E f \in ModelFields(v, c) : g = OwnField(v, Shown(v), c, f)
                             \/ \E n \in DOMAIN v.reg[c] : IntroRelation(v, c, n, g)
  BY IntroEntityFields, ViewReach
<1>3. e.fields = fields
  BY <1>2 DEF Definition
<1>. HIDE DEF d, e
<1>4. ASSUME NEW k \in ModelFields(v, c)
      PROVE  /\ DefinedIn(names, Field(k.name, {}, SdlRef(v, k.type, {})))
             /\ DefinedIn(names, IntroOwn(v, Shown(v), k))
  <2>1. Printable(k.type) /\ (k.type.kind = "enum" => k.type.name \in Enums(v))
    BY FieldEnum, ViewField DEF IsRelation, IsColumn
  <2>2. LeafName(v, k.type, {}) \in BuiltIn \cup names
    BY <2>1, LeafDefined
  <2>3. LeafName(v, k.type, Shown(v)) \in BuiltIn \cup names
    BY <2>1, LeafDefined
  <2> DEFINE x == Field(k.name, {}, SdlRef(v, k.type, {}))
             y == IntroOwn(v, Shown(v), k)
  <2>4. x.args = {} /\ x.ref.name = LeafName(v, k.type, {})
    BY DEF Field, SdlRef, Ref
  <2>5. y.args = {} /\ y.ref.name = LeafName(v, k.type, Shown(v))
    BY DEF IntroOwn, Field, IntroRef, Ref
  <2>. HIDE DEF x, y
  <2>6. DefinedIn(names, x) /\ DefinedIn(names, y)
    BY <2>2, <2>3, <2>4, <2>5 DEF DefinedIn
  <2>. QED BY <2>6 DEF x, y
<1>5. ASSUME NEW f \in d.fields PROVE DefinedIn(names \cup StrayNames(v), f)
  <2>1. CASE f \in SdlColumns(v, c)
    <3>1. \E k \in ModelFields(v, c) : f = Field(k.name, {}, SdlRef(v, k.type, {}))
      BY <2>1 DEF SdlColumns
    <3>2. DefinedIn(names, f)
      BY <1>4, <3>1
    <3>. QED BY <3>2 DEF DefinedIn
  <2>2. CASE \E n \in DOMAIN v.reg[c] : f = SdlRelation(v, c, n)
    <3>1. PICK n \in DOMAIN v.reg[c] : f = SdlRelation(v, c, n)
      BY <2>2
    <3>2. CASE ActivePaginated(v.reg[c][n])
      <4>1. DefinedIn(names, f)
        BY <3>1, <3>2, RelationDefined DEF SdlRelation
      <4>. QED BY <4>1 DEF DefinedIn
    <3>3. CASE ~ActivePaginated(v.reg[c][n])
      BY <3>1, <3>3, RelationDefined DEF SdlRelation
    <3>. QED BY <3>2, <3>3
  <2>. QED BY <1>1, <2>1, <2>2
<1>6. ASSUME NEW g \in e.fields, ColumnsApart(v) PROVE DefinedIn(names, g)
  <2>1. CASE \E f \in ModelFields(v, c) : g = OwnField(v, Shown(v), c, f)
    <3>1. PICK f \in ModelFields(v, c) : g = OwnField(v, Shown(v), c, f)
      BY <2>1
    <3>2. IsRelation(v, c, f) \/ ~IsPaginated(v, c, f.name)
      BY <1>6, ViewField DEF ColumnsApart, IsPaginated
    <3>3. g = IntroOwn(v, Shown(v), f)
      BY <3>1, <3>2, IntroOwnField DEF OwnField
    <3>. QED BY <1>4, <3>3
  <2>2. CASE \E n \in DOMAIN v.reg[c] : IntroRelation(v, c, n, g)
    BY <2>2, RelationDefined DEF IntroRelation
  <2>. QED BY <1>2, <1>3, <2>1, <2>2
<1>7. AllDefined(names \cup StrayNames(v), d) /\ (ColumnsApart(v) => AllDefined(names, e))
  BY <1>5, <1>6 DEF AllDefined
<1>. QED BY <1>7 DEF d, e

LEMMA InputDefined ==
  ASSUME NEW v, GoodView(v), NEW names, Defines(v, names), NEW n \in Shown(v)
  PROVE  AllDefined(names, SdlInput(v, n)) /\ AllDefined(names, IntroInput(v, n))
<1> DEFINE sdl(f) == Field(f.name, {}, SdlInputRef(v, f.type, DOMAIN world.inputs))
           intro(f) == Field(f.name, {}, IntroRef(v, f.type, Shown(v), TRUE))
           d == SdlInput(v, n)
           e == IntroInput(v, n)
<1>1. d.fields = {sdl(f) : f \in world.inputs[n]} /\ e.fields = {intro(f) : f \in world.inputs[n]}
  BY DEF SdlInput, IntroInput, Definition
<1>2. ASSUME NEW f \in world.inputs[n]
      PROVE  DefinedIn(names, sdl(f)) /\ DefinedIn(names, intro(f))
  <2>1. f.type \in FromParams(v) /\ f.type \in FromAll(v) /\ Printable(f.type)
    BY ViewReach
  <2>2. f.type.kind = "enum" => f.type.name \in Enums(v)
    BY <2>1, EnumShown
  <2>3. f.type.kind = "model" /\ f.type.name[1] \in DOMAIN world.inputs => f.type.name[1] \in Shown(v)
    BY <2>1, ViewReach
  <2>4. LeafName(v, f.type, DOMAIN world.inputs) \in BuiltIn \cup names
    BY <2>1, <2>2, <2>3, LeafDefined
  <2>5. LeafName(v, f.type, Shown(v)) \in BuiltIn \cup names
    BY <2>1, <2>2, LeafDefined
  <2>6. sdl(f).args = {} /\ sdl(f).ref.name = LeafName(v, f.type, DOMAIN world.inputs)
    BY DEF Field, SdlInputRef, SdlRef, Ref
  <2>7. intro(f).args = {} /\ intro(f).ref.name = LeafName(v, f.type, Shown(v))
    BY DEF Field, IntroRef, Ref
  <2>. HIDE DEF sdl, intro
  <2>. QED BY <2>4, <2>5, <2>6, <2>7 DEF DefinedIn
<1>. HIDE DEF d, e, sdl, intro
<1>3. AllDefined(names, d) /\ AllDefined(names, e)
  BY <1>1, <1>2 DEF AllDefined
<1>. QED BY <1>3 DEF d, e

\* A printed method: its page, or what it answers with, and its arguments.
LEMMA MethodDefined ==
  ASSUME NEW v, GoodView(v), NEW names, Defines(v, names), NEW c \in v.classes, NEW f \in Methods(c)
  PROVE  DefinedIn(names, SdlMethod(v, c, f)) /\ DefinedIn(names, IntroMethod(v, Shown(v), c, f))
<1> DEFINE d == SdlMethod(v, c, f)
           e == IntroMethod(v, Shown(v), c, f)
           known == DOMAIN world.inputs
<1>1. f \in AllMethods(v) /\ IsMethod(f)
  BY ViewMethod DEF AllMethods
<1>2. ParamTypes(f) \subseteq ParamsOf(AllMethods(v)) /\ f.returns \in TypesOf(AllMethods(v))
  BY <1>1 DEF ParamsOf, TypesOf
<1>3. ASSUME NEW t, t \in ParamTypes(f) \/ t = f.returns
      PROVE  LeafName(v, t, known) \in BuiltIn \cup names /\ LeafName(v, t, Shown(v)) \in BuiltIn \cup names
  <2>1. t \in FromAll(v)
    BY <1>2, <1>3, ViewReach DEF Mentioned
  <2>2. Printable(t) /\ (t.kind = "enum" => t.name \in Enums(v))
    BY <2>1, ViewReach, EnumShown
  <2>3. t.kind = "model" /\ t.name[1] \in known => t.name[1] \in Shown(v)
    BY <1>1, <1>2, <1>3, ViewReach DEF IsMethod
  <2>. HIDE DEF known
  <2>4. LeafName(v, t, known) \in BuiltIn \cup names
    BY <2>2, <2>3, LeafDefined
  <2>5. LeafName(v, t, Shown(v)) \in BuiltIn \cup names
    BY <2>2, LeafDefined
  <2>. QED BY <2>4, <2>5
<1>4. /\ \A t : SdlRef(v, t, known).name = LeafName(v, t, known)
                /\ [SdlRef(v, t, known) EXCEPT !.nn = FALSE].name = LeafName(v, t, known)
      /\ \A t, b : IntroRef(v, t, Shown(v), b).name = LeafName(v, t, Shown(v))
  BY DEF SdlRef, IntroRef, Ref
<1>5. f.page => <<c.type, "PagePackage">> \in names
  <2>1. f.page => c \in PageRoots(v)
    BY DEF PageRoots
  <2>. QED BY <2>1 DEF Defines
<1>6. Many(<<c.type, "PagePackage">>).name = <<c.type, "PagePackage">>
  BY DEF Many, Ref
<1>7. ASSUME NEW a \in d.args PROVE a.ref.name \in BuiltIn \cup names
  <2>1. PICK b \in f.args :
          a.ref = IF b.default THEN [SdlRef(v, b.type, known) EXCEPT !.nn = FALSE] ELSE SdlRef(v, b.type, known)
    <3> DEFINE ref(b) == IF b.default THEN [SdlRef(v, b.type, known) EXCEPT !.nn = FALSE]
                         ELSE SdlRef(v, b.type, known)
    <3>1. d.args = {Arg(b.name, ref(b)) : b \in f.args}
      BY DEF SdlMethod, Field
    <3>. HIDE DEF d, ref
    <3>2. PICK b \in f.args : a = Arg(b.name, ref(b))
      BY <1>7, <3>1
    <3>3. a.ref = ref(b)
      BY <3>2 DEF Arg
    <3>. QED BY <3>3 DEF ref
  <2>2. a.ref.name = LeafName(v, b.type, known)
    BY <1>4, <2>1
  <2>. QED BY <1>3, <2>2 DEF ParamTypes
<1>8. ASSUME NEW a \in e.args PROVE a.ref.name \in BuiltIn \cup names
  <2>1. PICK b \in f.args : a.ref = IntroRef(v, b.type, Shown(v), ~b.default)
    BY <1>8 DEF IntroMethod, Field, Arg
  <2>2. a.ref.name = LeafName(v, b.type, Shown(v))
    BY <1>4, <2>1
  <2>. QED BY <1>3, <2>2 DEF ParamTypes
<1>9. d.ref = (IF f.page THEN Many(<<c.type, "PagePackage">>) ELSE SdlRef(v, f.returns, known))
      /\ e.ref = (IF f.page THEN Many(<<c.type, "PagePackage">>) ELSE IntroRef(v, f.returns, Shown(v), TRUE))
  BY DEF SdlMethod, IntroMethod, Field
<1>. HIDE DEF d, e, known
<1>10. d.ref.name \in BuiltIn \cup names /\ e.ref.name \in BuiltIn \cup names
  <2>1. CASE f.page
    BY <1>5, <1>6, <1>9, <2>1
  <2>2. CASE ~f.page
    <3>1. LeafName(v, f.returns, known) \in BuiltIn \cup names
          /\ LeafName(v, f.returns, Shown(v)) \in BuiltIn \cup names
      BY <1>3
    <3>2. d.ref = SdlRef(v, f.returns, known) /\ e.ref = IntroRef(v, f.returns, Shown(v), TRUE)
      BY <1>9, <2>2
    <3>3. d.ref.name = LeafName(v, f.returns, known)
      BY <1>4, <3>2, Zenon
    <3>4. e.ref.name = LeafName(v, f.returns, Shown(v))
      BY <3>2 DEF IntroRef, Ref
    <3>. QED BY <3>1, <3>3, <3>4
  <2>. QED BY <2>1, <2>2
<1>11. DefinedIn(names, d) /\ DefinedIn(names, e)
  BY <1>7, <1>8, <1>10 DEF DefinedIn
<1>. QED BY <1>11 DEF d, e

LEMMA GroupDefined ==
  ASSUME NEW v, GoodView(v), NEW names, Defines(v, names), NEW p \in Grouped(v)
  PROVE  AllDefined(names, SdlGroup(v, p[1], p[2])) /\ AllDefined(names, IntroGroup(v, p[1], p[2]))
<1> DEFINE c == p[1]
           d == SdlGroup(v, c, p[2])
           e == IntroGroup(v, c, p[2])
           methods == Of(c, p[2])
<1>1. c \in v.classes /\ methods \subseteq Methods(c)
  BY GroupedOn DEF Of
<1>2. /\ d.fields = {SdlMethod(v, c, f) : f \in methods}
      /\ e.fields = {IntroMethod(v, Shown(v), c, f) : f \in methods}
  BY DEF SdlGroup, IntroGroup, Definition
<1>. HIDE DEF c, d, e, methods
<1>3. AllDefined(names, d) /\ AllDefined(names, e)
  BY <1>1, <1>2, MethodDefined DEF AllDefined
<1>. QED BY <1>3 DEF c, d, e

LEMMA SharedDefined ==
  ASSUME NEW v, GoodView(v), NEW names, Defines(v, names), NEW d \in Shared(v)
  PROVE  AllDefined(names, d)
<1>1. \A kind, name, fields : Definition(kind, name, fields).fields = fields
  BY DEF Definition
<1>2. \A name, ref : Field(name, {}, ref).args = {} /\ Field(name, {}, ref).ref = ref
  BY DEF Field
<1>3. \A name, nn : One(name, nn).name = name /\ Many(name).name = name
  BY DEF One, Many, Ref
<1>4. ASSUME NEW t \in EntityNames(v), NeedsPagination(v), NEW f \in Items(t)
      PROVE  DefinedIn(names, f)
  <2>1. f.args = {} /\ (f.ref.name = <<t>> \/ f.ref.name = <<"Pagination">>)
    <3>1. f = Field("items", {}, Many(<<t>>)) \/ f = Field("pagination", {}, One(<<"Pagination">>, TRUE))
      BY <1>4 DEF Items
    <3>2. CASE f = Field("items", {}, Many(<<t>>))
      BY <3>2 DEF Field, Many, Ref
    <3>3. CASE f = Field("pagination", {}, One(<<"Pagination">>, TRUE))
      BY <3>3 DEF Field, One, Ref
    <3>. QED BY <3>1, <3>2, <3>3
  <2>. QED BY <1>4, <2>1 DEF DefinedIn, Defines
<1>5. CASE d \in EnumsOf(v)
  BY <1>1, <1>5 DEF EnumsOf, AllDefined
<1>6. CASE d \in Paginations(v)
  <2>1. NeedsPagination(v) /\ d \in PaginationTypes(v)
    BY <1>6 DEF Paginations
  <2>2. CASE d = Definition("object", <<"Pagination">>,
                   {Field("has_more", {}, One(<<"Boolean">>, TRUE)), Field("total_count", {}, One(<<"Int">>, FALSE))})
    <3>1. \A f \in d.fields : f.args = {} /\ f.ref.name \in BuiltIn
      <4> DEFINE more == Field("has_more", {}, One(<<"Boolean">>, TRUE))
                 total == Field("total_count", {}, One(<<"Int">>, FALSE))
      <4>1. d.fields = {more, total}
        BY <1>1, <2>2
      <4>2. /\ more.args = {} /\ more.ref.name = <<"Boolean">>
            /\ total.args = {} /\ total.ref.name = <<"Int">>
        BY DEF Field, One, Ref
      <4>. HIDE DEF more, total
      <4>. QED BY <4>1, <4>2 DEF BuiltIn
    <3>. QED BY <3>1 DEF AllDefined, DefinedIn
  <2>3. ASSUME NEW t \in PaginatedTargets(v), d = Definition("object", <<t, "Result">>, Items(t))
        PROVE  AllDefined(names, d)
    <3>1. PICK p \in v.classes \X Rels : IsPaginated(v, p[1], p[2]) /\ t = v.reg[p[1]][p[2]].target.type
      BY <2>3 DEF PaginatedTargets
    <3>2. p[1] \in v.classes /\ p[2] \in DOMAIN v.reg[p[1]]
      BY <3>1 DEF IsPaginated
    <3>3. t \in EntityNames(v)
      BY <3>1, <3>2, ViewRelation
    <3>. QED BY <1>1, <1>4, <2>1, <2>3, <3>3 DEF AllDefined
  <2>. QED BY <2>1, <2>2, <2>3 DEF PaginationTypes
<1>7. CASE d \in SdlPackages(v)
  <2> DEFINE key(c) == {Field("key", {}, SdlRef(v, [k EXCEPT !.list = FALSE], {})) :
                          k \in ParamTypes(KeyRoot(c.svc, c.type))}
  <2>1. PICK c \in PageRoots(v) : d = Definition("object", <<c.type, "PagePackage">>, Items(c.type) \cup key(c))
    BY <1>7 DEF SdlPackages
  <2>2. c.type \in EntityNames(v) /\ NeedsPagination(v)
    BY <2>1 DEF PageRoots, EntityNames, NeedsPagination
  <2>3. ASSUME NEW f \in key(c) PROVE DefinedIn(names, f)
    <3>1. PICK k \in ParamTypes(KeyRoot(c.svc, c.type)) :
            f = Field("key", {}, SdlRef(v, [k EXCEPT !.list = FALSE], {}))
      BY <2>3
    <3>2. k.kind = "scalar" /\ [k EXCEPT !.list = FALSE].kind = "scalar"
      <4>1. \A a \in KeyRoot(c.svc, c.type).args :
              a.type = PyType("scalar", <<world.keyType[c.svc][c.type]>>, TRUE, FALSE, FALSE)
        BY DEF KeyRoot, PyType
      <4>2. k = PyType("scalar", <<world.keyType[c.svc][c.type]>>, TRUE, FALSE, FALSE)
        BY <4>1 DEF ParamTypes
      <4>. QED BY <4>2 DEF PyType
    <3> DEFINE u == [k EXCEPT !.list = FALSE]
    <3>3. SdlRef(v, u, {}).name = LeafName(v, u, {})
      BY DEF SdlRef, Ref
    <3>4. u.kind = "scalar"
      BY <3>2
    <3>. HIDE DEF u
    <3>5. LeafName(v, u, {}) \in BuiltIn
      BY <3>4 DEF LeafName, ScalarName, BuiltIn
    <3>6. f.args = {} /\ f.ref.name \in BuiltIn
      BY <1>2, <3>1, <3>3, <3>5 DEF u
    <3>. QED BY <3>6 DEF DefinedIn
  <2>4. d.fields = Items(c.type) \cup key(c)
    BY <1>1, <2>1
  <2>. HIDE DEF key
  <2>. QED BY <1>4, <2>2, <2>3, <2>4 DEF AllDefined
<1>8. ASSUME NEW kind \in Kinds, d \in GroupRoots(v, kind)
      PROVE  AllDefined(names, d)
  <2>1. d.fields = {Field(c.type, {}, One(<<c.type, kind>>, TRUE)) : c \in On(v, kind)}
    <3>1. d = GroupRoot(v, kind)
      BY <1>8 DEF GroupRoots
    <3>. QED BY <1>1, <3>1 DEF GroupRoot
  <2>2. ASSUME NEW f \in d.fields PROVE DefinedIn(names, f)
    <3>1. PICK c \in On(v, kind) : f = Field(c.type, {}, One(<<c.type, kind>>, TRUE))
      BY <2>1, <2>2
    <3>2. f.args = {} /\ f.ref.name = <<c.type, kind>>
      BY <3>1 DEF Field, One, Ref
    <3>3. <<c.type, kind>> \in names
      <4>1. PICK p \in Grouped(v) : p[1] = c /\ p[2] = kind
        BY GroupedOn
      <4>. QED BY <4>1 DEF Defines
    <3>. QED BY <3>2, <3>3 DEF DefinedIn
  <2>. QED BY <2>2 DEF AllDefined
<1>. QED BY <1>5, <1>6, <1>7, <1>8 DEF Shared, Kinds

\* A document of such parts is well formed.
LEMMA DocumentWellFormed ==
  ASSUME NEW v, GoodView(v), NEW entity, NEW input, NEW group, Titled(v, entity, input, group), NEW others,
         \A names : Defines(v, names) =>
           /\ \A c \in v.classes : AllDefined(names \cup others, entity[c])
           /\ \A n \in Shown(v) : AllDefined(names \cup others, input[n])
           /\ \A p \in Grouped(v) : AllDefined(names \cup others, group[p])
  PROVE  WellFormed(Document(v, entity, input, group), others)
<1> DEFINE doc == Document(v, entity, input, group)
           names == {d.name : d \in doc}
<1>1. Defines(v, names)
  BY DocumentDefines
<1>. HIDE DEF names
<1>2. ASSUME NEW d \in doc PROVE AllDefined(names \cup others, d)
  <2>1. d \in Shared(v) => AllDefined(names \cup others, d)
    BY <1>1, SharedDefined, DefinedWider
  <2>2. /\ \A c \in v.classes : AllDefined(names \cup others, entity[c])
        /\ \A n \in Shown(v) : AllDefined(names \cup others, input[n])
        /\ \A p \in Grouped(v) : AllDefined(names \cup others, group[p])
    BY <1>1
  <2>3. \/ d \in Shared(v)
        \/ \E c \in v.classes : d = entity[c]
        \/ \E n \in Shown(v) : d = input[n]
        \/ \E p \in Grouped(v) : d = group[p]
    BY <1>2, DocumentParts
  <2>. HIDE DEF doc
  <2>. QED BY <2>1, <2>2, <2>3
<1>3. \A d, e \in doc : d.name = e.name => d = e
  BY DefinedOnce
<1>. HIDE DEF doc
<1>4. \A d \in doc : \A f \in d.fields :
        \A r \in {f.ref} \cup {a.ref : a \in f.args} : r.name \in BuiltIn \cup names \cup others
  BY <1>2 DEF AllDefined, DefinedIn
<1>5. WellFormed(doc, others)
  BY <1>3, <1>4 DEF WellFormed, names
<1>. QED BY <1>5 DEF doc

LEMMA ViewWellFormed ==
  ASSUME NEW v, GoodView(v)
  PROVE  /\ WellFormed(Sdl(v), StrayNames(v))
         /\ ColumnsApart(v) => WellFormed(Introspection(v), {})
<1>1. ASSUME NEW names, Defines(v, names)
      PROVE  /\ \A c \in v.classes : AllDefined(names \cup StrayNames(v), SdlEntities(v)[c])
             /\ \A n \in Shown(v) : AllDefined(names \cup StrayNames(v), SdlShown(v)[n])
             /\ \A p \in Grouped(v) : AllDefined(names \cup StrayNames(v), SdlGrouped(v)[p])
  BY <1>1, EntityDefined, InputDefined, GroupDefined, DefinedWider DEF SdlEntities, SdlShown, SdlGrouped
<1>2. ASSUME NEW names, Defines(v, names), ColumnsApart(v)
      PROVE  /\ \A c \in v.classes : AllDefined(names, IntroEntities(v)[c])
             /\ \A n \in Shown(v) : AllDefined(names, IntroShown(v)[n])
             /\ \A p \in Grouped(v) : AllDefined(names, IntroGrouped(v)[p])
  BY <1>2, EntityDefined, InputDefined, GroupDefined DEF IntroEntities, IntroShown, IntroGrouped
<1>3. WellFormed(Sdl(v), StrayNames(v))
  <2>1. /\ Sdl(v) = Document(v, SdlEntities(v), SdlShown(v), SdlGrouped(v))
        /\ Titled(v, SdlEntities(v), SdlShown(v), SdlGrouped(v))
    BY SdlDocument
  <2>2. \A names : Defines(v, names) =>
          /\ \A c \in v.classes : AllDefined(names \cup StrayNames(v), SdlEntities(v)[c])
          /\ \A n \in Shown(v) : AllDefined(names \cup StrayNames(v), SdlShown(v)[n])
          /\ \A p \in Grouped(v) : AllDefined(names \cup StrayNames(v), SdlGrouped(v)[p])
    BY <1>1
  <2>3. WellFormed(Document(v, SdlEntities(v), SdlShown(v), SdlGrouped(v)), StrayNames(v))
    BY <2>1, <2>2, DocumentWellFormed
  <2>. QED BY <2>1, <2>3
<1>4. ASSUME ColumnsApart(v) PROVE WellFormed(Introspection(v), {})
  <2>1. \A names : names \cup {} = names
    OBVIOUS
  <2>. QED BY <1>2, <1>4, <2>1, IntroDocument, DocumentWellFormed
<1>. QED BY <1>3, <1>4

-----------------------------------------------------------------------------
(* The two documents agree.                                                *)

\* What SameFields asks of a field and its counterpart.
Matches(f, g, kind, enums, strays) ==
  /\ f.name = g.name
  /\ {a.name : a \in f.args} = {a.name : a \in g.args}
  /\ \A a \in f.args : \E b \in g.args :
       a.name = b.name /\ Agree(a.ref, b.ref, a.ref.name \in enums \/ kind = "input")
  /\ IF f.ref.name \in strays THEN AgreeOnStray(f.ref, g.ref)
     ELSE Agree(f.ref, g.ref, f.ref.name \in enums \/ kind = "input" \/ (f.name \in Rels /\ ~f.ref.list))

LEMMA Counterparts ==
  ASSUME NEW d, NEW e, NEW enums, NEW strays,
         {f.name : f \in d.fields} = {f.name : f \in e.fields},
         \A f \in d.fields : \E g \in e.fields : Matches(f, g, d.kind, enums, strays)
  PROVE  SameFields(d, e, enums, strays)
<1>1. ASSUME NEW f \in d.fields, NEW g \in e.fields, Matches(f, g, d.kind, enums, strays)
      PROVE  /\ f.name = g.name
             /\ {a.name : a \in f.args} = {a.name : a \in g.args}
             /\ \A a \in f.args : \E b \in g.args :
                  /\ a.name = b.name /\ a.ref.name = b.ref.name /\ a.ref.list = b.ref.list
                  /\ a.ref.name \in enums \/ d.kind = "input" \/ a.ref.nn = b.ref.nn
             /\ f.ref.name \in strays => AgreeOnStray(f.ref, g.ref)
             /\ f.ref.name \notin strays =>
                  /\ f.ref.name = g.ref.name /\ f.ref.list = g.ref.list
                  /\ \/ f.ref.name \in enums \/ d.kind = "input" \/ (f.name \in Rels /\ ~f.ref.list)
                     \/ f.ref.nn = g.ref.nn
  BY <1>1 DEF Matches, Agree
<1>2. \A f \in d.fields : \E g \in e.fields :
        /\ f.name = g.name
        /\ {a.name : a \in f.args} = {a.name : a \in g.args}
        /\ \A a \in f.args : \E b \in g.args :
             /\ a.name = b.name
             /\ /\ a.ref.name = b.ref.name /\ a.ref.list = b.ref.list
                /\ (a.ref.name \in enums \/ d.kind = "input") \/ a.ref.nn = b.ref.nn
        /\ IF f.ref.name \in strays THEN AgreeOnStray(f.ref, g.ref)
           ELSE /\ f.ref.name = g.ref.name /\ f.ref.list = g.ref.list
                /\ ((f.ref.name \in enums \/ d.kind = "input") \/ (f.name \in Rels /\ ~f.ref.list))
                   \/ f.ref.nn = g.ref.nn
  <2>. TAKE f \in d.fields
  <2>1. PICK g \in e.fields : Matches(f, g, d.kind, enums, strays)
    OBVIOUS
  <2>. WITNESS g \in e.fields
  <2>. QED BY <1>1, <2>1
<1>. QED BY <1>2, Zenon DEF SameFields, Agree

\* A field is its own counterpart.
LEMMA SelfMatch ==
  ASSUME NEW f, NEW kind, NEW enums, NEW strays, f.ref.name \notin strays
  PROVE  Matches(f, f, kind, enums, strays)
BY DEF Matches, Agree

\* A definition both documents have.
LEMMA SelfSame ==
  ASSUME NEW d, NEW enums, NEW strays, \A f \in d.fields : f.ref.name \notin strays
  PROVE  SameFields(d, d, enums, strays)
<1>1. \A f \in d.fields : \E g \in d.fields : Matches(f, g, d.kind, enums, strays)
  BY SelfMatch
<1>. QED BY <1>1, Counterparts

\* Names that tell a stray from what a document defines.
Known(v, names) == Defines(v, names) /\ StrayNames(v) \cap (BuiltIn \cup names) = {}

LEMMA NotStray ==
  ASSUME NEW v, NEW names, Known(v, names), NEW f, DefinedIn(names, f)
  PROVE  f.ref.name \notin StrayNames(v)
BY DEF Known, DefinedIn

LEMMA DocumentKnown ==
  ASSUME NEW v, GoodView(v), NEW entity, NEW input, NEW group, Titled(v, entity, input, group)
  PROVE  Known(v, {d.name : d \in Document(v, entity, input, group)})
<1> DEFINE doc == Document(v, entity, input, group)
           names == {d.name : d \in doc}
<1>1. Defines(v, names)
  BY DocumentDefines
<1>2. ASSUME NEW t \in Strays(v) PROVE <<t>> \notin BuiltIn \cup names
  <2>1. t \in Types /\ t \notin EntityNames(v)
    <3>1. PICK p \in v.classes \X Rels :
            p[2] \in DOMAIN v.reg[p[1]] /\ t = v.reg[p[1]][p[2]].target.type /\ t \notin EntityNames(v)
      BY DEF Strays
    <3> DEFINE c == p[1]
               n == p[2]
    <3>2. c \in v.classes /\ n \in DOMAIN v.reg[c] /\ t = v.reg[c][n].target.type
      BY <3>1
    <3>. HIDE DEF c, n
    <3>3. t \in Types
      BY <3>2, ViewRelation
    <3>. QED BY <3>1, <3>3
  <2>2. <<t>> \notin BuiltIn
    <3>1. t \notin Reserved
      BY <2>1 DEF GoodView, Regular, NamesDistinct
    <3>2. \A x : <<t>> = <<x>> => t = x
      OBVIOUS
    <3>. QED BY <3>1, <3>2 DEF BuiltIn, Reserved
  <2>3. ASSUME NEW d \in doc PROVE d.name # <<t>>
    <3>. SUFFICES ASSUME d.name = <<t>> PROVE FALSE
      OBVIOUS
    <3>1. Slot(d.name) = "entity"
      BY <2>1, SlotsOfNames
    <3>2. d \in Part(v, entity, input, group, "entity")
      BY <3>1, DefinitionsInSlots
    <3>3. PICK c \in v.classes : d = entity[c]
      BY <3>2 DEF Part
    <3>4. <<c.type>> = <<t>>
      BY <3>3 DEF Titled
    <3>5. c.type = t
      BY <3>4
    <3>. QED BY <2>1, <3>5 DEF EntityNames
  <2>. HIDE DEF doc
  <2>. QED BY <2>2, <2>3
<1>. HIDE DEF names
<1>3. Known(v, names)
  BY <1>1, <1>2 DEF Known, StrayNames
<1>. QED BY <1>3 DEF names, doc

\* The printers name an annotation alike when they know the same of its model,
\* and differ in the "!" of enums only.
LEMMA LeavesAgree ==
  ASSUME NEW v, NEW t, NEW s1, NEW s2,
         t.kind = "model" => (t.name[1] \in EntityNames(v) \cup s1 <=> t.name[1] \in EntityNames(v) \cup s2)
  PROVE  LeafName(v, t, s1) = LeafName(v, t, s2)
<1>1. CASE t.kind = "model"
  BY <1>1 DEF LeafName
<1>2. CASE t.kind # "model"
  BY <1>2 DEF LeafName
<1>. QED BY <1>1, <1>2

LEMMA RefsAgree ==
  ASSUME NEW v, NEW t, Printable(t), NEW s1, NEW s2, NEW enums,
         t.kind = "model" => (t.name[1] \in EntityNames(v) \cup s1 <=> t.name[1] \in EntityNames(v) \cup s2),
         t.kind = "enum" => t.name \in enums
  PROVE  /\ SdlRef(v, t, s1).name = IntroRef(v, t, s2, TRUE).name
         /\ SdlRef(v, t, s1).list = IntroRef(v, t, s2, TRUE).list
         /\ SdlRef(v, t, s1).name \in enums \/ SdlRef(v, t, s1).nn = IntroRef(v, t, s2, TRUE).nn
<1>1. LeafName(v, t, s1) = LeafName(v, t, s2)
  BY LeavesAgree
<1>2. t.kind = "enum" => LeafName(v, t, s1) = t.name
  BY DEF LeafName
<1>3. SdlRef(v, t, s1).nn = (~t.opt /\ (t.list \/ t.kind # "enum"))
      /\ IntroRef(v, t, s2, TRUE).nn = (TRUE /\ ~t.opt)
      /\ SdlRef(v, t, s1).name = LeafName(v, t, s1) /\ SdlRef(v, t, s1).list = t.list
      /\ IntroRef(v, t, s2, TRUE).name = LeafName(v, t, s2) /\ IntroRef(v, t, s2, TRUE).list = t.list
  BY DEF SdlRef, IntroRef, Ref
<1>. HIDE DEF SdlRef
<1>4. CASE t.kind = "enum"
  BY <1>1, <1>2, <1>3, <1>4
<1>5. CASE t.kind # "enum"
  BY <1>1, <1>3, <1>5
<1>. QED BY <1>4, <1>5

\* An entity has the same fields in either.
LEMMA EntityAgrees ==
  ASSUME NEW v, GoodView(v), NEW c \in v.classes, NEW enums, Enums(v) \subseteq enums,
         NEW names, Known(v, names)
  PROVE  SameFields(SdlEntity(v, Layout(v), c), IntroEntity(v, Shown(v), c), enums, StrayNames(v))
<1> DEFINE d == SdlEntity(v, Layout(v), c)
           e == IntroEntity(v, Shown(v), c)
           strays == StrayNames(v)
<1>1. d.kind = "object" /\ d.fields = SdlColumns(v, c) \cup {SdlRelation(v, c, n) : n \in DOMAIN v.reg[c]}
  BY SdlEntityFields DEF Definition
<1>2. PICK fields :
        /\ e = Definition("object", <<c.type>>, fields)
        /\ \A f \in ModelFields(v, c) : OwnField(v, Shown(v), c, f) \in fields
        /\ \A n \in DOMAIN v.reg[c] : \E g \in fields : IntroRelation(v, c, n, g)
        /\ \A g \in fields : \/ \E f \in ModelFields(v, c) : g = OwnField(v, Shown(v), c, f)
                             \/ \E n \in DOMAIN v.reg[c] : IntroRelation(v, c, n, g)
  BY IntroEntityFields, ViewReach
<1>3. e.fields = fields
  BY <1>2 DEF Definition
<1>a. Defines(v, names)
  BY DEF Known
<1>. HIDE DEF d, e, strays
<1>4. ASSUME NEW n \in DOMAIN v.reg[c], NEW g, IntroRelation(v, c, n, g)
      PROVE  /\ g.name = n /\ SdlRelation(v, c, n).name = n
             /\ Matches(SdlRelation(v, c, n), g, "object", enums, strays)
  <2>1. n \in Rels /\ v.reg[c][n].list \in BOOLEAN
    BY ViewRelation
  <2>2. CASE ActivePaginated(v.reg[c][n])
    <3>1. g = PagedField(v, c, n) /\ SdlRelation(v, c, n) = PagedField(v, c, n)
      BY <1>4, <2>2 DEF IntroRelation, SdlRelation
    <3>2. PagedField(v, c, n).name = n
      BY DEF PagedField, Field
    <3>3. PagedField(v, c, n).ref.name \notin strays
      BY <1>a, <2>2, RelationDefined, NotStray DEF strays
    <3>. QED BY <3>1, <3>2, <3>3, SelfMatch
  <2>a. CASE ~ActivePaginated(v.reg[c][n]) /\ v.reg[c][n].target.type \notin EntityNames(v)
    <3>1. g = StrayField(v, c, n) /\ SdlRelation(v, c, n) = PlainField(v, c, n, v.reg[c][n].list)
      BY <1>4, <2>a DEF IntroRelation, SdlRelation
    <3>2. <<v.reg[c][n].target.type>> \in strays
      BY <2>a, ViewRelation DEF strays
    <3> DEFINE f == PlainField(v, c, n, v.reg[c][n].list)
    <3>3. f.name = n /\ f.args = {} /\ f.ref.name \in strays /\ f.ref.list = v.reg[c][n].list
      BY <3>2 DEF PlainField, Field, Ref
    <3>4. g.name = n /\ g.args = {} /\ g.ref = Ref(<<"String">>, v.reg[c][n].list, v.reg[c][n].list, TRUE)
      BY <3>1 DEF StrayField, Field
    <3>. HIDE DEF f
    <3>5. AgreeOnStray(f.ref, g.ref)
      BY <2>1, <3>3, <3>4 DEF AgreeOnStray, Many, One
    <3>6. Matches(f, g, "object", enums, strays)
      BY <3>3, <3>4, <3>5 DEF Matches
    <3>. QED BY <3>1, <3>3, <3>4, <3>6 DEF f
  <2>3. CASE ~ActivePaginated(v.reg[c][n]) /\ v.reg[c][n].target.type \in EntityNames(v)
    <3>1. PICK nn \in BOOLEAN : (v.reg[c][n].list => nn) /\ g = PlainField(v, c, n, nn)
      BY <1>4, <2>3 DEF IntroRelation
    <3>2. SdlRelation(v, c, n) = PlainField(v, c, n, v.reg[c][n].list)
      BY <2>3 DEF SdlRelation
    <3>3. \A b : /\ PlainField(v, c, n, b).name = n /\ PlainField(v, c, n, b).args = {}
                 /\ PlainField(v, c, n, b).ref.name = <<v.reg[c][n].target.type>>
                 /\ PlainField(v, c, n, b).ref.list = v.reg[c][n].list
                 /\ PlainField(v, c, n, b).ref.nn = b
      BY DEF PlainField, Field, Ref
    <3>4. <<v.reg[c][n].target.type>> \notin strays
      BY <1>a, <2>3 DEF Known, Defines, strays
    <3>. QED BY <2>1, <3>1, <3>2, <3>3, <3>4 DEF Matches, Agree
  <2>. QED BY <2>2, <2>3, <2>a
<1>5. ASSUME NEW f \in ModelFields(v, c), f.name \notin DOMAIN v.reg[c]
      PROVE  Matches(Field(f.name, {}, SdlRef(v, f.type, {})), OwnField(v, Shown(v), c, f), "object", enums, strays)
  <2>1. IsColumn(c, f)
    BY <1>5, ViewField DEF IsRelation
  <2>2. f.type.kind = "enum" => f.type.name \in enums
    BY FieldEnum
  <2>3. Shown(v) \subseteq DOMAIN world.inputs
    BY ViewReach
  <2>4. /\ SdlRef(v, f.type, {}).name = IntroRef(v, f.type, Shown(v), TRUE).name
        /\ SdlRef(v, f.type, {}).list = IntroRef(v, f.type, Shown(v), TRUE).list
        /\ SdlRef(v, f.type, {}).name \in enums
           \/ SdlRef(v, f.type, {}).nn = IntroRef(v, f.type, Shown(v), TRUE).nn
    <3>1. f.type.kind = "model" => (f.type.name[1] \in EntityNames(v) \cup {}
                                    <=> f.type.name[1] \in EntityNames(v) \cup Shown(v))
      BY <2>1, <2>3 DEF IsColumn
    <3>2. Printable(f.type)
      BY <2>1 DEF IsColumn
    <3>. QED BY <2>2, <3>1, <3>2, RefsAgree
  <2>5. OwnField(v, Shown(v), c, f) = IntroOwn(v, Shown(v), f)
    BY <1>5, IntroOwnField DEF OwnField, IsPaginated
  <2>6. SdlRef(v, f.type, {}).name \notin strays
    <3>1. SdlRef(v, f.type, {}).name = LeafName(v, f.type, {})
      BY DEF SdlRef, Ref
    <3>2. Printable(f.type) /\ (f.type.kind = "enum" => f.type.name \in Enums(v))
      BY <2>1, FieldEnum DEF IsColumn
    <3>3. LeafName(v, f.type, {}) \in BuiltIn \cup names
      BY <1>a, <3>2, LeafDefined
    <3>. QED BY <3>1, <3>3 DEF Known, strays
  <2> DEFINE r == SdlRef(v, f.type, {})
             q == IntroRef(v, f.type, Shown(v), TRUE)
             p == Field(f.name, {}, r)
  <2>7. p.name = f.name /\ p.args = {} /\ p.ref = r
    BY DEF Field
  <2>8. /\ IntroOwn(v, Shown(v), f).name = f.name /\ IntroOwn(v, Shown(v), f).args = {}
        /\ IntroOwn(v, Shown(v), f).ref = q
    BY DEF IntroOwn, Field
  <2>. HIDE DEF p, r, q
  <2>9. /\ r.name \notin strays /\ r.name = q.name /\ r.list = q.list
        /\ r.name \in enums \/ r.nn = q.nn
    BY <2>4, <2>6 DEF r, q
  <2>10. Matches(p, IntroOwn(v, Shown(v), f), "object", enums, strays)
    BY <2>7, <2>8, <2>9 DEF Matches, Agree
  <2>. QED BY <2>5, <2>10 DEF p, r
<1>6. ASSUME NEW f \in d.fields
      PROVE  \E g \in e.fields : Matches(f, g, "object", enums, strays)
  <2>1. CASE f \in SdlColumns(v, c)
    <3>1. PICK k \in ModelFields(v, c) : k.name \notin DOMAIN v.reg[c]
                                         /\ f = Field(k.name, {}, SdlRef(v, k.type, {}))
      BY <2>1 DEF SdlColumns
    <3>. QED BY <1>2, <1>3, <1>5, <3>1
  <2>2. ASSUME NEW n \in DOMAIN v.reg[c], f = SdlRelation(v, c, n)
        PROVE  \E g \in e.fields : Matches(f, g, "object", enums, strays)
    <3>1. PICK g \in fields : IntroRelation(v, c, n, g)
      BY <1>2
    <3>. QED BY <1>3, <1>4, <2>2, <3>1
  <2>. QED BY <1>1, <2>1, <2>2
<1>7. ASSUME NEW g \in e.fields PROVE \E f \in d.fields : f.name = g.name
  <2>1. ASSUME NEW n \in DOMAIN v.reg[c], g.name = n PROVE \E f \in d.fields : f.name = g.name
    <3>1. PICK h \in fields : IntroRelation(v, c, n, h)
      BY <1>2
    <3>. QED BY <1>1, <1>4, <2>1, <3>1
  <2>2. ASSUME NEW n \in DOMAIN v.reg[c], IntroRelation(v, c, n, g)
        PROVE  \E f \in d.fields : f.name = g.name
    BY <1>4, <2>1, <2>2
  <2>3. ASSUME NEW f \in ModelFields(v, c), g = OwnField(v, Shown(v), c, f)
        PROVE  \E k \in d.fields : k.name = g.name
    <3>1. g.name = f.name /\ Field(f.name, {}, SdlRef(v, f.type, {})).name = f.name
      BY <2>3 DEF OwnField, IntroField, Field
    <3>2. CASE f.name \in DOMAIN v.reg[c]
      BY <2>1, <3>1, <3>2
    <3>3. CASE f.name \notin DOMAIN v.reg[c]
      <4>1. Field(f.name, {}, SdlRef(v, f.type, {})) \in SdlColumns(v, c)
        BY <3>3 DEF SdlColumns
      <4>. QED BY <1>1, <3>1, <4>1
    <3>. QED BY <3>2, <3>3
  <2>. QED BY <1>2, <1>3, <2>2, <2>3
<1>8. \A f \in d.fields : \E g \in e.fields : f.name = g.name
  BY <1>6 DEF Matches
<1>9. {f.name : f \in d.fields} = {f.name : f \in e.fields}
  BY <1>7, <1>8
<1>10. SameFields(d, e, enums, strays)
  BY <1>1, <1>6, <1>9, Counterparts
<1>. QED BY <1>10 DEF d, e, strays

\* An input has the same fields in either.
LEMMA InputAgrees ==
  ASSUME NEW v, GoodView(v), NEW n \in Shown(v), NEW enums, NEW names, Known(v, names)
  PROVE  SameFields(SdlInput(v, n), IntroInput(v, n), enums, StrayNames(v))
<1> DEFINE sdl(f) == Field(f.name, {}, SdlInputRef(v, f.type, DOMAIN world.inputs))
           intro(f) == Field(f.name, {}, IntroRef(v, f.type, Shown(v), TRUE))
           d == SdlInput(v, n)
           e == IntroInput(v, n)
           strays == StrayNames(v)
<1>1. /\ d.kind = "input" /\ d.fields = {sdl(f) : f \in world.inputs[n]}
      /\ e.fields = {intro(f) : f \in world.inputs[n]}
  BY DEF SdlInput, IntroInput, Definition
<1>2. ASSUME NEW f \in world.inputs[n]
      PROVE  /\ Matches(sdl(f), intro(f), "input", enums, strays)
             /\ sdl(f).name = f.name /\ intro(f).name = f.name
  <2>1. f.type \in FromParams(v) /\ Shown(v) \subseteq DOMAIN world.inputs
    BY ViewReach
  <2>2. f.type.kind = "model" => (f.type.name[1] \in EntityNames(v) \cup DOMAIN world.inputs
                                  <=> f.type.name[1] \in EntityNames(v) \cup Shown(v))
    BY <2>1, ViewReach
  <2>3. LeafName(v, f.type, DOMAIN world.inputs) = LeafName(v, f.type, Shown(v))
    BY <2>2, LeavesAgree
  <2>4. /\ SdlInputRef(v, f.type, DOMAIN world.inputs).name = LeafName(v, f.type, DOMAIN world.inputs)
        /\ SdlInputRef(v, f.type, DOMAIN world.inputs).list = f.type.list
        /\ IntroRef(v, f.type, Shown(v), TRUE).name = LeafName(v, f.type, Shown(v))
        /\ IntroRef(v, f.type, Shown(v), TRUE).list = f.type.list
    BY DEF SdlInputRef, SdlRef, IntroRef, Ref
  <2>5. sdl(f).ref.name \notin strays
    <3>1. sdl(f) \in d.fields /\ Defines(v, names)
      BY <1>1 DEF Known
    <3>2. DefinedIn(names, sdl(f))
      BY <3>1, InputDefined DEF AllDefined
    <3>. QED BY <3>2, NotStray
  <2>. HIDE DEF strays
  <2>. QED BY <2>3, <2>4, <2>5 DEF Matches, Agree, Field
<1>. HIDE DEF d, e, sdl, intro, strays
<1>3. {f.name : f \in d.fields} = {f.name : f \in e.fields}
  BY <1>1, <1>2
<1>4. \A f \in d.fields : \E g \in e.fields : Matches(f, g, d.kind, enums, strays)
  BY <1>1, <1>2
<1>5. SameFields(d, e, enums, strays)
  BY <1>3, <1>4, Counterparts
<1>. QED BY <1>5 DEF d, e, strays

\* A method has the same signature in either.
LEMMA MethodAgrees ==
  ASSUME NEW v, GoodView(v), NEW c \in v.classes, NEW f \in Methods(c),
         NEW enums, Enums(v) \subseteq enums, NEW names, Known(v, names)
  PROVE  /\ SdlMethod(v, c, f).name = f.name /\ IntroMethod(v, Shown(v), c, f).name = f.name
         /\ Matches(SdlMethod(v, c, f), IntroMethod(v, Shown(v), c, f), "object", enums, StrayNames(v))
<1> DEFINE ref(a) == IF a.default THEN [SdlRef(v, a.type, DOMAIN world.inputs) EXCEPT !.nn = FALSE]
                     ELSE SdlRef(v, a.type, DOMAIN world.inputs)
           other(a) == IntroRef(v, a.type, Shown(v), ~a.default)
           back == SdlRef(v, f.returns, DOMAIN world.inputs)
           forth == IntroRef(v, f.returns, Shown(v), TRUE)
           d == SdlMethod(v, c, f)
           e == IntroMethod(v, Shown(v), c, f)
<1>1. d = Field(f.name, {Arg(a.name, ref(a)) : a \in f.args},
                IF f.page THEN Many(<<c.type, "PagePackage">>) ELSE back)
  BY DEF SdlMethod
<1>2. e = Field(f.name, {Arg(a.name, other(a)) : a \in f.args},
                IF f.page THEN Many(<<c.type, "PagePackage">>) ELSE forth)
  BY DEF IntroMethod
<1>3. f \in AllMethods(v) /\ IsMethod(f)
  BY ViewMethod DEF AllMethods
<1>4. ParamTypes(f) \subseteq ParamsOf(AllMethods(v))
      /\ f.returns \in TypesOf(AllMethods(v))
  BY <1>3 DEF ParamsOf, TypesOf
<1>5. ASSUME NEW a \in f.args
      PROVE  ref(a).name = other(a).name /\ ref(a).list = other(a).list
             /\ (ref(a).name \in enums \/ ref(a).nn = other(a).nn)
  <2>1. Printable(a.type) /\ a.default \in BOOLEAN
    BY <1>3 DEF IsMethod
  <2>2. a.type \in FromParams(v) /\ a.type \in FromAll(v) /\ Shown(v) \subseteq DOMAIN world.inputs
    BY <1>4, ViewReach DEF ParamTypes
  <2>3. a.type.kind = "enum" => a.type.name \in enums
    BY <2>2, EnumShown
  <2>4. a.type.kind = "model" => (a.type.name[1] \in EntityNames(v) \cup DOMAIN world.inputs
                                  <=> a.type.name[1] \in EntityNames(v) \cup Shown(v))
    BY <2>2, ViewReach
  <2> DEFINE t == a.type
  <2>. HIDE DEF t, ref, other, d, e, back, forth
  <2>5. /\ SdlRef(v, t, DOMAIN world.inputs).name = IntroRef(v, t, Shown(v), TRUE).name
        /\ SdlRef(v, t, DOMAIN world.inputs).list = IntroRef(v, t, Shown(v), TRUE).list
        /\ SdlRef(v, t, DOMAIN world.inputs).name \in enums
           \/ SdlRef(v, t, DOMAIN world.inputs).nn = IntroRef(v, t, Shown(v), TRUE).nn
    BY <2>1, <2>3, <2>4, RefsAgree DEF t
  <2>. USE DEF t, ref, other
  <2> DEFINE p == SdlRef(v, a.type, DOMAIN world.inputs)
             q == IntroRef(v, a.type, Shown(v), TRUE)
  <2>6. other(a).name = q.name /\ other(a).list = q.list
        /\ (~a.default => other(a).nn = q.nn) /\ (a.default => other(a).nn = FALSE)
    BY <2>1 DEF IntroRef, Ref
  <2>7. [p EXCEPT !.nn = FALSE].name = p.name /\ [p EXCEPT !.nn = FALSE].list = p.list
        /\ [p EXCEPT !.nn = FALSE].nn = FALSE
    BY DEF SdlRef, Ref
  <2>a. p.name = q.name /\ p.list = q.list /\ (p.name \in enums \/ p.nn = q.nn)
    BY <2>5 DEF p, q, t
  <2>. HIDE DEF p, q, other, t
  <2>8. CASE a.default
    <3>1. ref(a) = [p EXCEPT !.nn = FALSE]
      BY <2>8 DEF p
    <3>. HIDE DEF ref
    <3>. QED BY <2>a, <2>6, <2>7, <2>8, <3>1
  <2>9. CASE ~a.default
    <3>1. ref(a) = p
      BY <2>9 DEF p
    <3>. HIDE DEF ref
    <3>. QED BY <2>a, <2>6, <2>9, <3>1
  <2>. QED BY <2>1, <2>8, <2>9
<1>6. back.name = forth.name /\ back.list = forth.list /\ (back.name \in enums \/ back.nn = forth.nn)
  <2>1. Printable(f.returns) /\ (f.returns.kind = "model" => f.returns.name[1] \notin DOMAIN world.inputs)
    BY <1>3 DEF IsMethod
  <2>2. f.returns \in FromAll(v) /\ Shown(v) \subseteq DOMAIN world.inputs
    BY <1>4, ViewReach DEF Mentioned
  <2>3. f.returns.kind = "enum" => f.returns.name \in enums
    BY <2>2, EnumShown
  <2>4. f.returns.kind = "model" => (f.returns.name[1] \in EntityNames(v) \cup DOMAIN world.inputs
                                     <=> f.returns.name[1] \in EntityNames(v) \cup Shown(v))
    BY <2>1, <2>2
  <2> DEFINE t == f.returns
  <2>. HIDE DEF t, ref, other, d, e, back, forth
  <2>5. Printable(t)
    BY <2>1 DEF t
  <2>6. /\ SdlRef(v, t, DOMAIN world.inputs).name = IntroRef(v, t, Shown(v), TRUE).name
        /\ SdlRef(v, t, DOMAIN world.inputs).list = IntroRef(v, t, Shown(v), TRUE).list
        /\ SdlRef(v, t, DOMAIN world.inputs).name \in enums
           \/ SdlRef(v, t, DOMAIN world.inputs).nn = IntroRef(v, t, Shown(v), TRUE).nn
    BY <2>3, <2>4, <2>5, RefsAgree DEF t
  <2>. QED BY <2>6 DEF t, back, forth
<1>. HIDE DEF d, e, ref, other, back, forth
<1> DEFINE r == IF f.page THEN Many(<<c.type, "PagePackage">>) ELSE back
           s == IF f.page THEN Many(<<c.type, "PagePackage">>) ELSE forth
<1>7. r.name = s.name /\ r.list = s.list /\ (r.name \in enums \/ r.nn = s.nn)
  BY <1>6
<1>8. /\ d.name = f.name /\ d.args = {Arg(a.name, ref(a)) : a \in f.args} /\ d.ref = r
      /\ e.name = f.name /\ e.args = {Arg(a.name, other(a)) : a \in f.args} /\ e.ref = s
  BY <1>1, <1>2 DEF Field
<1>. HIDE DEF r, s
<1>9. \A a : /\ Arg(a.name, ref(a)).name = a.name /\ Arg(a.name, ref(a)).ref = ref(a)
             /\ Arg(a.name, other(a)).name = a.name /\ Arg(a.name, other(a)).ref = other(a)
  BY DEF Arg
<1>10. /\ \A x \in d.args : \E a \in f.args : x.name = a.name /\ x.ref = ref(a)
       /\ \A a \in f.args : \E x \in d.args : x.name = a.name
       /\ \A a \in f.args : \E x \in e.args : x.name = a.name /\ x.ref = other(a)
       /\ \A x \in e.args : \E a \in f.args : x.name = a.name
  BY <1>8, <1>9
<1>11. {a.name : a \in d.args} = {a.name : a \in e.args}
  <2>1. \A x \in d.args : \E y \in e.args : x.name = y.name
    BY <1>10
  <2>2. \A y \in e.args : \E x \in d.args : x.name = y.name
    BY <1>10
  <2>. QED BY <2>1, <2>2
<1>12. \A x \in d.args : \E y \in e.args :
         x.name = y.name /\ x.ref.name = y.ref.name /\ x.ref.list = y.ref.list
         /\ (x.ref.name \in enums \/ x.ref.nn = y.ref.nn)
  BY <1>5, <1>10
<1>a. d.ref.name \notin StrayNames(v)
  <2>1. DefinedIn(names, d)
    BY MethodDefined DEF Known, d
  <2>. QED BY <2>1, NotStray
<1>13. Matches(d, e, "object", enums, StrayNames(v))
  BY <1>7, <1>8, <1>11, <1>12, <1>a DEF Matches, Agree
<1>. QED BY <1>8, <1>13 DEF d, e

\* A group has the same methods in either.
LEMMA GroupAgrees ==
  ASSUME NEW v, GoodView(v), NEW p \in Grouped(v), NEW enums, Enums(v) \subseteq enums,
         NEW names, Known(v, names)
  PROVE  SameFields(SdlGroup(v, p[1], p[2]), IntroGroup(v, p[1], p[2]), enums, StrayNames(v))
<1> DEFINE c == p[1]
           d == SdlGroup(v, c, p[2])
           e == IntroGroup(v, c, p[2])
           methods == Of(c, p[2])
<1>1. c \in v.classes /\ methods \subseteq Methods(c)
  BY GroupedOn DEF Of
<1>2. /\ d.kind = "object" /\ d.fields = {SdlMethod(v, c, f) : f \in methods}
      /\ e.fields = {IntroMethod(v, Shown(v), c, f) : f \in methods}
  BY DEF SdlGroup, IntroGroup, Definition
<1>. HIDE DEF c, d, e, methods
<1>3. ASSUME NEW f \in methods
      PROVE  /\ SdlMethod(v, c, f).name = f.name /\ IntroMethod(v, Shown(v), c, f).name = f.name
             /\ Matches(SdlMethod(v, c, f), IntroMethod(v, Shown(v), c, f), "object", enums, StrayNames(v))
  BY <1>1, MethodAgrees
<1>4. {f.name : f \in d.fields} = {f.name : f \in e.fields}
  <2>1. \A x \in d.fields : \E y \in e.fields : x.name = y.name
    BY <1>2, <1>3
  <2>2. \A y \in e.fields : \E x \in d.fields : x.name = y.name
    BY <1>2, <1>3
  <2>. QED BY <2>1, <2>2
<1>5. \A f \in d.fields : \E g \in e.fields : Matches(f, g, d.kind, enums, StrayNames(v))
  BY <1>2, <1>3
<1>6. SameFields(d, e, enums, StrayNames(v))
  BY <1>4, <1>5, Counterparts
<1>. QED BY <1>6 DEF c, d, e

\* From one view, the two documents are one schema.
LEMMA ViewRendersAlike ==
  ASSUME NEW v, GoodView(v)
  PROVE  SameSchema(Sdl(v), Introspection(v), StrayNames(v))
<1> DEFINE sdl == Sdl(v)
           intro == Introspection(v)
           enums == {d.name : d \in {e \in sdl : e.kind = "enum"}}
           names == {d.name : d \in sdl}
<1>1. /\ sdl = Document(v, SdlEntities(v), SdlShown(v), SdlGrouped(v))
      /\ Titled(v, SdlEntities(v), SdlShown(v), SdlGrouped(v))
  BY SdlDocument
<1>2. /\ intro = Document(v, IntroEntities(v), IntroShown(v), IntroGrouped(v))
      /\ Titled(v, IntroEntities(v), IntroShown(v), IntroGrouped(v))
  BY IntroDocument
<1>3. Enums(v) \subseteq enums
  <2>1. ASSUME NEW n \in Enums(v) PROVE n \in enums
    <3>1. Definition("enum", n, {}) \in EnumsOf(v)
      BY DEF EnumsOf
    <3>2. Definition("enum", n, {}) \in sdl
      BY <1>1, <3>1 DEF Document, Shared
    <3>3. Definition("enum", n, {}).kind = "enum" /\ Definition("enum", n, {}).name = n
      BY DEF Definition
    <3>. HIDE DEF sdl
    <3>. QED BY <3>2, <3>3
  <2>. QED BY <2>1
<1>a. Known(v, names)
  BY <1>1, DocumentKnown
<1>. HIDE DEF sdl, intro, enums, names
<1>4. /\ \A c \in v.classes : SdlEntities(v)[c] = SdlEntity(v, Layout(v), c)
                              /\ IntroEntities(v)[c] = IntroEntity(v, Shown(v), c)
      /\ \A n \in Shown(v) : SdlShown(v)[n] = SdlInput(v, n) /\ IntroShown(v)[n] = IntroInput(v, n)
      /\ \A p \in Grouped(v) : SdlGrouped(v)[p] = SdlGroup(v, p[1], p[2])
                               /\ IntroGrouped(v)[p] = IntroGroup(v, p[1], p[2])
  BY DEF SdlEntities, IntroEntities, SdlShown, IntroShown, SdlGrouped, IntroGrouped
<1>5. ASSUME NEW d \in sdl
      PROVE  \E e \in intro : e.kind = d.kind /\ e.name = d.name /\ SameFields(d, e, enums, StrayNames(v))
  <2>1. CASE d \in Shared(v)
    <3>1. AllDefined(names, d)
      BY <1>a, <2>1, SharedDefined DEF Known
    <3>2. SameFields(d, d, enums, StrayNames(v))
      BY <1>a, <3>1, SelfSame, NotStray DEF AllDefined
    <3>. QED BY <1>2, <2>1, <3>2, DocumentParts
  <2>2. ASSUME NEW c \in v.classes, d = SdlEntities(v)[c]
        PROVE  \E e \in intro : e.kind = d.kind /\ e.name = d.name /\ SameFields(d, e, enums, StrayNames(v))
    <3>1. IntroEntities(v)[c] \in intro
      BY <1>2, DocumentParts
    <3>2. IntroEntities(v)[c].kind = d.kind /\ IntroEntities(v)[c].name = d.name
      BY <1>1, <1>2, <2>2 DEF Titled
    <3>3. SameFields(d, IntroEntities(v)[c], enums, StrayNames(v))
      BY <1>3, <1>4, <1>a, <2>2, EntityAgrees
    <3>. QED BY <3>1, <3>2, <3>3
  <2>3. ASSUME NEW n \in Shown(v), d = SdlShown(v)[n]
        PROVE  \E e \in intro : e.kind = d.kind /\ e.name = d.name /\ SameFields(d, e, enums, StrayNames(v))
    <3>1. IntroShown(v)[n] \in intro
      BY <1>2, DocumentParts
    <3>2. IntroShown(v)[n].kind = d.kind /\ IntroShown(v)[n].name = d.name
      BY <1>1, <1>2, <2>3 DEF Titled
    <3>3. SameFields(d, IntroShown(v)[n], enums, StrayNames(v))
      BY <1>4, <1>a, <2>3, InputAgrees
    <3>. QED BY <3>1, <3>2, <3>3
  <2>4. ASSUME NEW p \in Grouped(v), d = SdlGrouped(v)[p]
        PROVE  \E e \in intro : e.kind = d.kind /\ e.name = d.name /\ SameFields(d, e, enums, StrayNames(v))
    <3>1. IntroGrouped(v)[p] \in intro
      BY <1>2, DocumentParts
    <3>2. IntroGrouped(v)[p].kind = d.kind /\ IntroGrouped(v)[p].name = d.name
      BY <1>1, <1>2, <2>4 DEF Titled
    <3>3. SameFields(d, IntroGrouped(v)[p], enums, StrayNames(v))
      BY <1>3, <1>4, <1>a, <2>4, GroupAgrees
    <3>. QED BY <3>1, <3>2, <3>3
  <2>. QED BY <1>1, <2>1, <2>2, <2>3, <2>4, DocumentParts
<1>6. ASSUME NEW e \in intro
      PROVE  \E d \in sdl : e.kind = d.kind /\ e.name = d.name
  <2>1. CASE e \in Shared(v)
    BY <1>1, <2>1, DocumentParts
  <2>2. ASSUME NEW c \in v.classes, e = IntroEntities(v)[c]
        PROVE  \E d \in sdl : e.kind = d.kind /\ e.name = d.name
    BY <1>1, <1>2, <2>2, DocumentParts DEF Titled
  <2>3. ASSUME NEW n \in Shown(v), e = IntroShown(v)[n]
        PROVE  \E d \in sdl : e.kind = d.kind /\ e.name = d.name
    BY <1>1, <1>2, <2>3, DocumentParts DEF Titled
  <2>4. ASSUME NEW p \in Grouped(v), e = IntroGrouped(v)[p]
        PROVE  \E d \in sdl : e.kind = d.kind /\ e.name = d.name
    BY <1>1, <1>2, <2>4, DocumentParts DEF Titled
  <2>. QED BY <1>2, <2>1, <2>2, <2>3, <2>4, DocumentParts
<1>7. {<<d.kind, d.name>> : d \in sdl} = {<<d.kind, d.name>> : d \in intro}
  BY <1>5, <1>6
<1>8. \A d \in sdl : \E e \in intro : e.name = d.name /\ SameFields(d, e, enums, StrayNames(v))
  BY <1>5
<1>9. {<<d.kind, d.name>> : d \in sdl} = {<<d.kind, d.name>> : d \in intro}
      /\ \A d \in sdl : \E e \in intro : e.name = d.name
           /\ SameFields(d, e, {f.name : f \in {k \in sdl : k.kind = "enum"}}, StrayNames(v))
  BY <1>7, <1>8 DEF enums
<1>. QED BY <1>9, Zenon DEF SameSchema, sdl, intro

-----------------------------------------------------------------------------
(* What a handler renders is such a view: no failed call, no dangling      *)
(* target but of a custom relationship, and caches only where a schema is  *)
(* served.                                                                 *)

SchemaInv ==
  /\ \A m \in Services : ~spoilt[m] => TargetsKnown(m, er[m].reg, << >>)
  /\ \A m \in Services, k \in Renderings : entities[m][k].classes # {} => m \in world.serves

\* Classes of the program, with custom relationships alone.
AllCustom(new) ==
  \A c \in DOMAIN new : c.try = 0 /\ \A n \in DOMAIN new[c] : new[c][n].kind = "custom"

\* A step that leaves the registry of m, or marks its call as failed, or adds
\* such classes.
SchemaQuiet(m) ==
  /\ spoilt[m] => spoilt'[m]
  /\ spoilt'[m] \/ er'[m].reg = er[m].reg
                \/ \E new : er'[m].reg = Updated(er[m].reg, new) /\ AllCustom(new)

LEMMA QuietKeepsSchema ==
  ASSUME SchemaInv, NEW m \in Services, SchemaQuiet(m), ~spoilt'[m]
  PROVE  TargetsKnown(m, er'[m].reg, << >>)
<1>1. TargetsKnown(m, er[m].reg, << >>)
  BY DEF SchemaInv, SchemaQuiet
<1>2. CASE er'[m].reg = er[m].reg
  BY <1>1, <1>2
<1>3. ASSUME NEW new, er'[m].reg = Updated(er[m].reg, new), AllCustom(new)
      PROVE  TargetsKnown(m, er'[m].reg, << >>)
  <2> DEFINE old == er[m].reg
             reg == Updated(old, new)
  <2>1. /\ DOMAIN reg = DOMAIN old \cup DOMAIN new
        /\ \A c \in DOMAIN new : reg[c] = new[c]
        /\ \A c \in DOMAIN old \ DOMAIN new : reg[c] = old[c]
    BY UpdatedFacts
  <2>2. Range(<< >>) = {}
    BY DEF Range
  <2>3. \A c \in DOMAIN old : \A n \in DOMAIN old[c] :
          old[c][n].target \in DOMAIN old \/ (old[c][n].kind = "custom" /\ c.try = 0)
    BY <1>1, <2>2 DEF TargetsKnown
  <2>. HIDE DEF reg, old
  <2>4. \A c \in DOMAIN reg : \A n \in DOMAIN reg[c] :
          reg[c][n].target \in DOMAIN reg \/ (reg[c][n].kind = "custom" /\ c.try = 0)
    BY <1>3, <2>1, <2>3 DEF AllCustom
  <2>5. TargetsKnown(m, reg, << >>)
    BY <2>4 DEF TargetsKnown
  <2>. QED BY <1>3, <2>5 DEF reg, old
<1>. QED BY <1>2, <1>3 DEF SchemaQuiet

\* One manager changes, and is quiet.
LEMMA OneQuiet ==
  ASSUME FedInv, NEW m \in Services, NEW e, NEW b \in BOOLEAN,
         er' = [er EXCEPT ![m] = e], spoilt' = [spoilt EXCEPT ![m] = b], spoilt[m] => b,
         b \/ e.reg = er[m].reg \/ \E new : e.reg = Updated(er[m].reg, new) /\ AllCustom(new)
  PROVE  \A n \in Services : SchemaQuiet(n)
<1>1. PerService(er) /\ spoilt \in [Services -> BOOLEAN]
  BY DEF FedInv
<1>2. er'[m] = e /\ spoilt'[m] = b
  BY <1>1 DEF PerService
<1>3. \A n \in Services : n # m => er'[n] = er[n] /\ spoilt'[n] = spoilt[n]
  BY <1>1 DEF PerService
<1>. QED BY <1>2, <1>3 DEF SchemaQuiet

LEMMA NoneLoud ==
  ASSUME FedInv, NEW m \in Services, er' = er, spoilt' = spoilt \/ Fails(m)
  PROVE  \A n \in Services : SchemaQuiet(n)
<1>1. spoilt \in [Services -> BOOLEAN]
  BY DEF FedInv
<1>2. CASE spoilt' = spoilt
  BY <1>2 DEF SchemaQuiet
<1>3. CASE Fails(m)
  <2>1. \A n \in Services : spoilt[n] => spoilt'[n]
    BY <1>1, <1>3 DEF Fails
  <2>. QED BY <2>1 DEF SchemaQuiet
<1>. QED BY <1>2, <1>3

\* All steps but Wire are quiet, and all but ReadSchema leave the caches.
LEMMA SchemaQuietSteps ==
  ASSUME FedInv, [Next]_vars, \A m \in Services : ~Wire(m)
  PROVE  \A n \in Services : SchemaQuiet(n)
<1> DEFINE P == \A n \in Services : SchemaQuiet(n)
<1>a. /\ PerService(er) /\ spoilt \in [Services -> BOOLEAN]
      /\ \A m \in Services : DOMAIN er[m] = ManagerFields
  BY DEF FedInv, ManagerInv
<1>b. \A m \in Services : spoilt[m] \in BOOLEAN /\ spoilt = [spoilt EXCEPT ![m] = spoilt[m]]
  BY <1>a
<1>c. ASSUME NEW m \in Services, NEW e, er' = [er EXCEPT ![m] = e], spoilt' = spoilt, e.reg = er[m].reg
      PROVE  P
  <2>1. spoilt' = [spoilt EXCEPT ![m] = spoilt[m]] /\ spoilt[m] \in BOOLEAN
    BY <1>b, <1>c
  <2> DEFINE b == spoilt[m]
  <2>2. b \in BOOLEAN /\ spoilt' = [spoilt EXCEPT ![m] = b] /\ (spoilt[m] => b)
    BY <2>1
  <2>. HIDE DEF b
  <2>. QED BY <1>c, <2>2, OneQuiet
<1>d. ASSUME UNCHANGED <<er, spoilt>> PROVE P
  BY <1>d DEF SchemaQuiet
<1>1. ASSUME NEW m \in Services, Initialize(m) PROVE P
  <2>1. spoilt' = spoilt
    BY <1>1 DEF Initialize
  <2>2. PICK e : er' = [er EXCEPT ![m] = e] /\ e.reg = er[m].reg
    <3> DEFINE fields == FieldsOf(m, subsets.bound)
               e1 == [er[m] EXCEPT !.version = Bumped(@)]
               e2 == [er[m] EXCEPT !.mounted = Updated(@, FirstUrl(er[m].pending \o fields))]
    <3>1. er' = [er EXCEPT ![m] = e1] \/ er' = [er EXCEPT ![m] = e2]
      BY <1>1 DEF Initialize
    <3>2. e1.reg = er[m].reg /\ e2.reg = er[m].reg
      BY <1>a DEF ManagerFields
    <3>. HIDE DEF e1, e2
    <3>. QED BY <3>1, <3>2
  <2>. QED BY <1>c, <2>1, <2>2
<1>2. ASSUME NEW m \in Services, Discover(m) PROVE P
  BY <1>2, NoneLoud, FollowSpoils DEF Discover
<1>3. ASSUME NEW m \in Services, FetchFragments(m) PROVE P
  BY <1>3, NoneLoud, FollowSpoils DEF FetchFragments
<1>4. ASSUME NEW m \in Services, TransportRaises(m) PROVE P
  BY <1>4, NoneLoud DEF TransportRaises
<1>5. ASSUME NEW m \in Services, MaterializeTypes(m) PROVE P
  <2>1. CASE Fails(m) /\ er' = er
    BY <2>1, NoneLoud
  <2>2. ASSUME NEW x, er' = [er EXCEPT ![m].fed = x], spoilt' = spoilt PROVE P
    <3> DEFINE e == [er[m] EXCEPT !.fed = x]
    <3>1. er' = [er EXCEPT ![m] = e] /\ e.reg = er[m].reg
      BY <1>a, <2>2 DEF ManagerFields
    <3>. HIDE DEF e
    <3>. QED BY <1>c, <2>2, <3>1
  <2>. QED BY <1>5, <2>1, <2>2 DEF MaterializeTypes
<1>6. ASSUME NEW m \in Services, NEW s, AskDtos(m, s) PROVE P
  BY <1>6, NoneLoud DEF AskDtos
<1>7. ASSUME NEW m \in Services, AddVirtualEntities(m) PROVE P
  <2>a. PICK new, q :
          /\ \A c \in DOMAIN new : c.try = 0 /\ \A n \in DOMAIN new[c] : new[c][n].kind = "custom"
          /\ \E b \in BOOLEAN :
               /\ er' = [er EXCEPT ![m].virtual = << >>, ![m].pending = @ \o q,
                           ![m].reg = Updated(@, new), ![m].version = IF b THEN @ ELSE Bumped(@)]
               /\ spoilt' = [spoilt EXCEPT ![m] = @ \/ b]
               /\ entities' = entities
    BY <1>7, AddedParts
  <2>1. PICK b \in BOOLEAN :
          /\ er' = [er EXCEPT ![m].virtual = << >>, ![m].pending = @ \o q,
                      ![m].reg = Updated(@, new), ![m].version = IF b THEN @ ELSE Bumped(@)]
          /\ spoilt' = [spoilt EXCEPT ![m] = @ \/ b]
    BY <2>a
  <2>b. AllCustom(new)
    BY <2>a DEF AllCustom
  <2> DEFINE e == [er[m] EXCEPT !.virtual = << >>, !.pending = @ \o q, !.reg = Updated(@, new),
                                !.version = IF b THEN @ ELSE Bumped(@)]
             bad == spoilt[m] \/ b
  <2>2. er' = [er EXCEPT ![m] = e] /\ spoilt' = [spoilt EXCEPT ![m] = bad]
    BY <2>1
  <2>3. e.reg = Updated(er[m].reg, new)
    BY <1>a DEF ManagerFields
  <2>4. bad \in BOOLEAN /\ (spoilt[m] => bad)
    BY <1>b
  <2>. HIDE DEF e, bad
  <2>. QED BY <2>1, <2>b, <2>2, <2>3, <2>4, OneQuiet
<1>8. ASSUME NEW m \in Services, CreateResolver(m) PROVE P
  <2> DEFINE e == [er[m] EXCEPT !.frozen = TRUE]
  <2>1. er' = [er EXCEPT ![m] = e] /\ spoilt' = spoilt
    BY <1>8 DEF CreateResolver
  <2>2. e.reg = er[m].reg
    BY <1>a DEF ManagerFields
  <2>. HIDE DEF e
  <2>. QED BY <1>c, <2>1, <2>2
<1>9. ASSUME NEW m \in Services, NEW k \in Renderings, ReadSchema(m, k) PROVE P
  BY <1>9, <1>d DEF ReadSchema
<1>10. ASSUME Compose PROVE P
  BY <1>10, <1>d DEF Compose
<1>11. ASSUME UNCHANGED vars PROVE P
  BY <1>11, <1>d DEF vars
<1>. HIDE DEF P
<1>12. ASSUME Next PROVE P
  <2>1. PICK m \in Services :
          \/ Initialize(m) \/ BringUp(m) \/ TransportRaises(m)
          \/ AddVirtualEntities(m) \/ CreateResolver(m) \/ Compose
          \/ \E k \in Renderings : ReadSchema(m, k)
    BY <1>12 DEF Next
  <2>2. ASSUME BringUp(m) PROVE P
    BY <1>2, <1>3, <1>5, <1>6, <2>2 DEF BringUp
  <2>. QED BY <1>1, <1>4, <1>7, <1>8, <1>9, <1>10, <2>1, <2>2
<1>13. P
  BY <1>11, <1>12
<1>. QED BY <1>13 DEF P

\* The caches are filled by ReadSchema alone, of a service that serves.
LEMMA CachesServed ==
  ASSUME FedInv, CacheInv, SchemaInv, [Next]_vars
  PROVE  \A m \in Services, k \in Renderings : entities'[m][k].classes # {} => m \in world'.serves
<1> DEFINE P == \A m \in Services, k \in Renderings : entities'[m][k].classes # {} => m \in world'.serves
<1>1. ASSUME UNCHANGED <<world, entities>> PROVE P
  BY <1>1 DEF SchemaInv
<1>2. ASSUME NEW m \in Services, NEW k \in Renderings, ReadSchema(m, k) PROVE P
  <2>1. m \in world.serves /\ world' = world
    BY <1>2 DEF ReadSchema
  <2>2. PICK c : entities' = [entities EXCEPT ![m][k] = c]
    BY <1>2 DEF ReadSchema
  <2>3. PICK D : entities \in [Services -> [Renderings -> D]]
    BY DEF CacheInv
  <2>4. \A n \in Services, j \in Renderings : n # m => entities'[n][j] = entities[n][j]
    BY <2>2, <2>3
  <2>. QED BY <2>1, <2>4 DEF SchemaInv
<1>3. ASSUME NEW m \in Services,
             Initialize(m) \/ TransportRaises(m) \/ AddVirtualEntities(m) \/ CreateResolver(m) \/ Compose
      PROVE  UNCHANGED <<world, entities>>
  BY <1>3 DEF Initialize, TransportRaises, AddVirtualEntities, CreateResolver, Compose
<1>4. ASSUME NEW m \in Services, BringUp(m)
      PROVE  UNCHANGED <<world, entities>>
  BY <1>4 DEF BringUp, Discover, FetchFragments, MaterializeTypes, Wire, AskDtos
<1>5. UNCHANGED vars => UNCHANGED <<world, entities>>
  BY DEF vars
<1>. HIDE DEF P
<1>6. P
  BY <1>1, <1>2, <1>3, <1>4, <1>5 DEF Next
<1>. QED BY <1>6 DEF P

LEMMA SchemaStep == FedInv /\ CacheInv /\ SchemaInv /\ [Next]_vars => SchemaInv'
<1>. SUFFICES ASSUME FedInv, CacheInv, SchemaInv, [Next]_vars PROVE SchemaInv'
  OBVIOUS
<1>1. ASSUME NEW m \in Services, ~spoilt'[m] PROVE TargetsKnown(m, er'[m].reg, << >>)
  <2>1. CASE \A n \in Services : ~Wire(n)
    BY <1>1, <2>1, SchemaQuietSteps, QuietKeepsSchema
  <2>2. ASSUME NEW n \in Services, Wire(n) PROVE TargetsKnown(m, er'[m].reg, << >>)
    <3>1. CASE n # m
      <4>1. er'[m] = er[m] /\ spoilt'[m] = spoilt[m]
        BY <2>2, <3>1, WireEffect
      <4>. QED BY <1>1, <4>1 DEF SchemaInv
    <3>2. CASE n = m
      <4>1. PICK done \in Federated(m) :
              er'[m].reg = done.reg /\ spoilt'[m] = IF done.ok THEN spoilt[m] ELSE TRUE
        BY <2>2, <3>2, WireEffect
      <4>2. done.ok => TargetsKnown(m, done.reg, << >>)
        <5>1. Wiring(m)
          BY <2>2, <3>2, WireEffect
        <5>. QED BY <5>1, FederatedChain
      <4>. QED BY <1>1, <4>1, <4>2
    <3>. QED BY <3>1, <3>2
  <2>. QED BY <2>1, <2>2
<1>. QED BY <1>1, CachesServed DEF SchemaInv

\* The registry a service starts with is closed, but for custom targets.
LEMMA FirstClosed ==
  ASSUME world \in Worlds, NEW m \in Services
  PROVE  TargetsKnown(m, Registry0(m), << >>)
<1> DEFINE reg == Registry0(m)
           names(c) == {l.name : l \in {k \in Built(world, m) : k.src = c.type}}
           at(c, n) == CHOOSE k \in Built(world, m) : k.src = c.type /\ k.name = n
<1>1. /\ DOMAIN reg = {Local(m, t) : t \in world.entities[m]}
      /\ \A c \in DOMAIN reg : reg[c] = [n \in names(c) |-> LocalInfo(m, at(c, n))]
  BY DEF Registry0
<1>a. \A c, n : n \in names(c) => \E k \in Built(world, m) : k.src = c.type /\ k.name = n
  OBVIOUS
<1>. HIDE DEF reg, names
<1>b. \A c \in DOMAIN reg : DOMAIN reg[c] = names(c)
  BY <1>1
<1>2. ASSUME NEW c \in DOMAIN reg, NEW n \in DOMAIN reg[c]
      PROVE  reg[c][n].target \in DOMAIN reg \/ (reg[c][n].kind = "custom" /\ c.try = 0)
  <2> DEFINE l == at(c, n)
  <2>1. reg[c][n] = LocalInfo(m, l)
    BY <1>1
  <2>2. \E k \in Built(world, m) : k.src = c.type /\ k.name = n
    BY <1>a, <1>b
  <2>3. l \in Built(world, m)
    BY <2>2
  <2>a. PICK t \in world.entities[m] : c = Local(m, t)
    BY <1>1
  <2>4. c.try = 0
    BY <2>a DEF Local
  <2>. HIDE DEF l
  <2>5. l.custom \in BOOLEAN /\ (l.custom \/ l.target \in world.entities[m])
    BY <2>3, WorldFacts
  <2>6. LocalInfo(m, l).target = Local(m, l.target) /\ (l.custom => LocalInfo(m, l).kind = "custom")
    BY DEF LocalInfo
  <2>. QED BY <1>1, <2>1, <2>4, <2>5, <2>6
<1>3. TargetsKnown(m, reg, << >>)
  BY <1>2 DEF TargetsKnown
<1>. QED BY <1>3 DEF reg

LEMMA SchemaInit == Init => SchemaInv
<1>. SUFFICES ASSUME Init PROVE SchemaInv
  OBVIOUS
<1>1. world \in Worlds
  BY DEF Init
<1>2. ASSUME NEW m \in Services PROVE TargetsKnown(m, er[m].reg, << >>)
  <2>1. er[m].reg = Registry0(m)
    BY DEF Init
  <2>. QED BY <1>1, <2>1, FirstClosed
<1>3. \A m \in Services, k \in Renderings : entities[m][k] = NoCache
  BY DEF Init
<1>4. \A m \in Services, k \in Renderings : entities[m][k].classes = {}
  BY <1>3 DEF NoCache
<1>. QED BY <1>2, <1>4 DEF SchemaInv

\* The two renderings a handler serves are of one view, and it is good.
LEMMA ServedView ==
  ASSUME FedInv, CacheInv, SchemaInv, \A w \in Worlds : Regular(w), NEW m \in Served
  PROVE  View(m, "sdl") = View(m, "intro") /\ GoodView(View(m, "sdl"))
<1>1. m \in Services /\ Cached(m, "sdl") /\ Cached(m, "intro") /\ ~spoilt[m] /\ BareNamesUnique(m)
  BY DEF Served
<1>2. ASSUME NEW k \in Renderings, Cached(m, k)
      PROVE  /\ entities[m][k].classes = DOMAIN er[m].reg /\ entities[m][k].reg = er[m].reg
             /\ m \in world.serves
  <2>1. CacheFollows(er[m], entities[m][k], spoilt[m])
    BY <1>1 DEF CacheInv
  <2>2. entities[m][k].version = er[m].version /\ entities[m][k].classes # {}
    BY <1>2 DEF Cached
  <2>3. m \in world.serves
    BY <1>1, <2>2 DEF SchemaInv
  <2>. QED BY <1>1, <2>1, <2>2, <2>3 DEF CacheFollows
<1>3. /\ entities[m]["sdl"].classes = DOMAIN er[m].reg /\ entities[m]["sdl"].reg = er[m].reg
      /\ entities[m]["intro"].classes = DOMAIN er[m].reg /\ entities[m]["intro"].reg = er[m].reg
      /\ m \in world.serves
  BY <1>1, <1>2 DEF Renderings
<1>4. View(m, "sdl") = View(m, "intro")
  BY <1>3 DEF View
<1> DEFINE v == View(m, "sdl")
<1>5. v.m = m /\ v.classes = DOMAIN v.reg /\ v.then = v.reg /\ v.reg = er[m].reg
  BY <1>3 DEF View
<1>6. /\ world \in Worlds /\ Regular(world)
      /\ ManagerInv(world, m, pc[m], tries[m], er[m])
  BY <1>1 DEF FedInv
<1>7. RegistryType(m, er[m].reg) /\ OwnRelations(world, m, er[m].reg)
  BY <1>6 DEF ManagerInv
<1>8. \A c \in DOMAIN er[m].reg : \A n \in DOMAIN er[m].reg[c] :
        \/ er[m].reg[c][n].target \in DOMAIN er[m].reg
        \/ er[m].reg[c][n].kind = "custom" /\ c.try = 0
  <2>1. TargetsKnown(m, er[m].reg, << >>)
    BY <1>1 DEF SchemaInv
  <2>2. Range(<< >>) = {}
    BY DEF Range
  <2>. QED BY <2>1, <2>2 DEF TargetsKnown
<1>9. \A c, d \in DOMAIN er[m].reg : c.type = d.type => c = d
  BY <1>1 DEF BareNamesUnique
<1>. HIDE DEF v
<1>10. GoodView(v)
  BY <1>1, <1>3, <1>5, <1>6, <1>7, <1>8, <1>9 DEF GoodView
<1>. QED BY <1>4, <1>10 DEF v

\* What a client reads as SDL and what it reads as __schema is one schema: the
\* two generators of a handler, each filled at a moment of its own, print the
\* same types, fields and arguments of every regular world.  Where a custom
\* relationship leads to a class that is no entity the SDL names that class and
\* __schema a string.
THEOREM SchemasAgree ==
  ASSUME \A w \in Worlds : Regular(w)
  PROVE  Spec => []RenderingsAgree
<1>1. FedInv /\ CacheInv /\ SchemaInv => RenderingsAgree
  BY ServedView, ViewRendersAlike DEF RenderingsAgree
<1>2. FedInv /\ CacheInv /\ SchemaInv /\ [Next]_vars => FedInv' /\ CacheInv' /\ SchemaInv'
  BY FedStep, CacheStep, SchemaStep
<1>. QED BY <1>1, <1>2, FedInit, CacheInit, SchemaInit, PTL DEF Spec

\* Either document a handler serves, SDL or __schema, defines every name it
\* uses, once, in every regular world, wherever no class declares a column of
\* the name of one of its paginated relationships; the SDL leaves undefined the
\* classes that custom relationships lead to and that are no entities.
THEOREM SchemasWellFormed ==
  ASSUME \A w \in Worlds : Regular(w)
  PROVE  Spec => []((\A m \in Served : ColumnsApart(View(m, "sdl"))) => SchemaWellFormed)
<1>1. FedInv /\ CacheInv /\ SchemaInv =>
        ((\A m \in Served : ColumnsApart(View(m, "sdl"))) => SchemaWellFormed)
  BY ServedView, ViewWellFormed DEF SchemaWellFormed
<1>2. FedInv /\ CacheInv /\ SchemaInv /\ [Next]_vars => FedInv' /\ CacheInv' /\ SchemaInv'
  BY FedStep, CacheStep, SchemaStep
<1>. QED BY <1>1, <1>2, FedInit, CacheInit, SchemaInit, PTL DEF Spec

=============================================================================
