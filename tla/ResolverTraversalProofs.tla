----------------------- MODULE ResolverTraversalProofs -----------------------
(***************************************************************************)
(* The guard of Resolver.resolve(), its types, the context its methods     *)
(* receive, the order of its post_* methods, what its Collectors hold and  *)
(* which nodes it visits, for every tree, every number of calls and every  *)
(* order in which coroutines end, fail or are cancelled.                   *)
(***************************************************************************)
EXTENDS SubsetResolution, SubsequencesProofs, TLAPS

Active == {"resolving", "posting", "handling"}
Ended == {"done", "failed", "cancelled", "refused"}

\* A coroutine knows the call it belongs to, so that its error can take no
\* other call with it.
GuardInv ==
  /\ pc \in [Calls -> {"idle"} \cup Active \cup Ended]
  /\ latest \in Calls
  /\ \A j \in jobs : j.call \in Calls
  /\ GuardIsTheRunningCall

\* Entering a level starts coroutines of the call only.
LEMMA EnterLevelGuard ==
  ASSUME NEW c \in Calls, NEW vs, NEW d, EnterLevel(c, vs, d),
         \A j \in jobs : j.call \in Calls
  PROVE  /\ pc' = [pc EXCEPT ![c] = "resolving"]
         /\ \A j \in jobs' : j.call \in Calls
<1>1. \A j \in jobs' : j \in jobs \/ j.call = c
  BY DEF EnterLevel
<1>. QED BY <1>1 DEF EnterLevel

\* The running call leaves, and with it the guard.
LEMMA LeaveGuard ==
  ASSUME GuardInv, NEW c \in Calls, pc[c] \in Active,
         NEW how \in {"done", "failed", "cancelled"}, Leave(c, how),
         latest' = latest, \A j \in jobs' : j.call \in Calls
  PROVE  GuardInv'
<1>1. pc' = [pc EXCEPT ![c] = how] /\ running' = FALSE
  BY DEF Leave
<1>2. \A d \in Calls : pc[d] \in Active => d = c
  BY DEF GuardInv, GuardIsTheRunningCall, Active
<1>3. \A d \in Calls : pc'[d] \notin Active
  BY <1>1, <1>2 DEF GuardInv, Active
<1>4. pc' \in [Calls -> {"idle"} \cup Active \cup Ended]
  BY <1>1 DEF GuardInv, Ended
<1>. QED BY <1>1, <1>3, <1>4 DEF GuardInv, GuardIsTheRunningCall, Active

\* The running call goes on, and the guard stays up.
LEMMA StayGuard ==
  ASSUME GuardInv, NEW c \in Calls, pc[c] \in Active, NEW next \in Active,
         pc' = [pc EXCEPT ![c] = next], running' = running,
         latest' = latest, \A j \in jobs' : j.call \in Calls
  PROVE  GuardInv'
<1>1. \A d \in Calls : pc'[d] \in Active <=> pc[d] \in Active
  BY DEF GuardInv, Active
<1>2. pc' \in [Calls -> {"idle"} \cup Active \cup Ended]
  BY DEF GuardInv
<1>. QED BY <1>1, <1>2 DEF GuardInv, GuardIsTheRunningCall, Active

\* Every step keeps the guard with the call that set it.
LEMMA GuardStep == GuardInv /\ [Next]_vars => GuardInv'
<1>. SUFFICES ASSUME GuardInv, [Next]_vars PROVE GuardInv'
  OBVIOUS
\* Steps that leave the calls alone.
<1>a. CASE /\ UNCHANGED <<pc, running, latest>>
           /\ \A j \in jobs' : j.call \in Calls
  BY <1>a DEF GuardInv, GuardIsTheRunningCall
<1>b. \A j \in jobs : j.call \in Calls
  BY DEF GuardInv
<1>1. ASSUME NEW c \in Calls, Begin(c)
      PROVE  GuardInv'
  <2>1. /\ pc' = [pc EXCEPT ![c] = "resolving"] /\ \A j \in jobs' : j.call \in Calls
        /\ running' = TRUE /\ latest' = c /\ ~running
    BY <1>1, <1>b, EnterLevelGuard DEF Begin
  <2>2. \A d \in Calls : pc'[d] \in Active <=> d = c
    BY <2>1 DEF GuardInv, GuardIsTheRunningCall, Active
  <2>3. pc' \in [Calls -> {"idle"} \cup Active \cup Ended]
    BY <2>1 DEF GuardInv, Active
  <2>. QED BY <2>1, <2>2, <2>3 DEF GuardInv, GuardIsTheRunningCall, Active
<1>2. ASSUME NEW c \in Calls, Refuse(c)
      PROVE  GuardInv'
  <2>1. pc' = [pc EXCEPT ![c] = "refused"] /\ UNCHANGED <<running, latest, jobs>>
        /\ pc[c] = "idle"
    BY <1>2 DEF Refuse
  <2>2. \A d \in Calls : pc'[d] \in Active <=> pc[d] \in Active
    BY <2>1 DEF GuardInv, Active
  <2>3. pc' \in [Calls -> {"idle"} \cup Active \cup Ended]
    BY <2>1 DEF GuardInv, Ended
  <2>. QED BY <2>1, <2>2, <2>3 DEF GuardInv, GuardIsTheRunningCall, Active
<1>3. ASSUME NEW c \in Calls, Cancel(c)
      PROVE  GuardInv'
  <2>1. /\ pc[c] \in Active /\ Leave(c, "cancelled") /\ latest' = latest
        /\ \A j \in jobs' : j.call \in Calls
    BY <1>3, <1>b DEF Cancel, Active
  <2>. QED BY <2>1, LeaveGuard
<1>4. ASSUME NEW c \in Calls, NEW g, AutoLoadGroup(c, g)
      PROVE  GuardInv'
  BY <1>4, <1>a, <1>b DEF AutoLoadGroup
<1>5. ASSUME NEW c \in Calls, AutoLoadRaises(c)
      PROVE  GuardInv'
  <2>1. /\ pc[c] \in Active /\ Leave(c, "failed") /\ latest' = latest /\ jobs' = jobs
    BY <1>5 DEF AutoLoadRaises, Active
  <2>. QED BY <2>1, <1>b, LeaveGuard
<1>6. ASSUME NEW c \in Calls, EndLevel(c)
      PROVE  GuardInv'
  <2>1. pc[c] \in Active /\ running' = running /\ latest' = latest
    BY <1>6 DEF EndLevel, Active
  <2>2. CASE EnterLevel(c, visits \o NextItems, depth + 1)
    <3>1. pc' = [pc EXCEPT ![c] = "resolving"] /\ \A j \in jobs' : j.call \in Calls
      BY <2>2, <1>b, EnterLevelGuard
    <3>2. "resolving" \in Active
      BY DEF Active
    <3>. QED BY <2>1, <3>1, <3>2, StayGuard
  <2>3. CASE pc' = [pc EXCEPT ![c] = "posting"] /\ jobs' = jobs
    <3>1. "posting" \in Active
      BY DEF Active
    <3>. QED BY <2>1, <2>3, <3>1, <1>b, StayGuard
  <2>. QED BY <1>6, <2>2, <2>3 DEF EndLevel
<1>7. ASSUME NEW c \in Calls, RunPosts(c)
      PROVE  GuardInv'
  <2>1. /\ pc[c] \in Active /\ pc' = [pc EXCEPT ![c] = "handling"] /\ "handling" \in Active
        /\ UNCHANGED <<running, latest, jobs>>
    BY <1>7 DEF RunPosts, Active
  <2>. QED BY <2>1, <1>b, StayGuard
<1>8. ASSUME NEW c \in Calls, EndPosts(c)
      PROVE  GuardInv'
  <2>1. pc[c] \in Active /\ latest' = latest /\ jobs' = jobs
    BY <1>8 DEF EndPosts, Active
  <2>2. CASE Leave(c, "done")
    BY <2>1, <2>2, <1>b, LeaveGuard
  <2>3. CASE pc' = [pc EXCEPT ![c] = "posting"] /\ UNCHANGED running
    <3>1. "posting" \in Active
      BY DEF Active
    <3>. QED BY <2>1, <2>3, <3>1, <1>b, StayGuard
  <2>. QED BY <1>8, <2>2, <2>3 DEF EndPosts
<1>9. ASSUME NEW c \in Calls, PostRaises(c)
      PROVE  GuardInv'
  <2>1. /\ pc[c] \in Active /\ Leave(c, "failed") /\ latest' = latest /\ jobs' = jobs
    BY <1>9 DEF PostRaises, Active
  <2>. QED BY <2>1, <1>b, LeaveGuard
<1>10. ASSUME NEW j \in jobs, ResolveReturns(j)
       PROVE  GuardInv'
  BY <1>10, <1>a, <1>b DEF ResolveReturns
\* An error ends the call its coroutine belongs to, if that one still runs.
<1>11. ASSUME NEW j \in jobs, ResolveRaises(j)
       PROVE  GuardInv'
  <2>1. j.call \in Calls /\ latest' = latest /\ \A k \in jobs' : k.call \in Calls
    BY <1>11, <1>b DEF ResolveRaises
  <2>2. CASE pc[j.call] = "resolving"
    <3>1. Leave(j.call, "failed") /\ pc[j.call] \in Active
      BY <1>11, <2>2 DEF ResolveRaises, Active
    <3>. QED BY <2>1, <3>1, LeaveGuard
  <2>3. CASE pc[j.call] # "resolving"
    BY <1>11, <1>a, <2>1, <2>3 DEF ResolveRaises
  <2>. QED BY <2>2, <2>3
<1>12. CASE UNCHANGED vars
  BY <1>12, <1>a, <1>b DEF vars
<1>. QED
  BY <1>1, <1>2, <1>3, <1>4, <1>5, <1>6, <1>7, <1>8, <1>9, <1>10, <1>11, <1>12
  DEF Next, Settle

\* A Resolver is free again after every end of a call, and a call that is
\* refused, or a coroutine that outlived its call, does not free it early.
THEOREM GuardHeld ==
  ASSUME Calls # {}
  PROVE  Spec => []GuardIsTheRunningCall
<1>1. Init => GuardInv
  <2>1. (CHOOSE c \in Calls : TRUE) \in Calls
    OBVIOUS
  <2>. QED BY <2>1 DEF Init, GuardInv, GuardIsTheRunningCall
<1>2. GuardInv => GuardIsTheRunningCall
  BY DEF GuardInv
<1>. QED BY <1>1, <1>2, GuardStep, PTL DEF Spec

-----------------------------------------------------------------------------
(* Level entries, for a class of each node.                                *)

Exposing(class, p, a) == {k \in 1 .. Len(p) - 1 : a \in Desc[class[p[k]]].exposes}

\* What a context holds: under each alias the node nearest above that exposes it.
Nearest(class, p, seen) ==
  /\ DOMAIN seen = {a \in Aliases : Exposing(class, p, a) # {}}
  /\ \A a \in DOMAIN seen :
       \E k \in Exposing(class, p, a) :
         seen[a] = p[k] /\ \A l \in Exposing(class, p, a) : l <= k

ExposedBy(class, n) == [a \in Desc[class[n]].exposes |-> n]

WellFormed(class, v) ==
  /\ DOMAIN v = {"node", "path", "seen", "ctx", "snap"}
  /\ v.path \in Seq(Nodes) /\ Len(v.path) \in Nat \ {0}
  /\ v.node = v.path[Len(v.path)]
  /\ v.ctx = Over(ExposedBy(class, v.node), v.seen)
  /\ Nearest(class, v.path, v.seen)

Entry(class, n, above, seen) ==
  [node |-> n, path |-> Append(above, n), seen |-> seen,
   ctx |-> Over(ExposedBy(class, n), seen), snap |-> Empty]

\* The context below an entry is right for its path and any node appended to it.
LEMMA ContextBelow ==
  ASSUME ResolverAssumption, NEW class \in [Nodes -> Classes], NEW p \in Seq(Nodes),
         Len(p) \in Nat \ {0}, NEW seen, Nearest(class, p, seen), NEW n
  PROVE  Nearest(class, Append(p, n), Over(ExposedBy(class, p[Len(p)]), seen))
<1> DEFINE m == Len(p)
           q == Append(p, n)
           own == ExposedBy(class, p[m])
           ctx == Over(own, seen)
<1>0. m \in Nat \ {0} /\ p[m] \in Nodes /\ class[p[m]] \in Classes
  OBVIOUS
<1>1. Len(q) - 1 = m /\ \A k \in 1 .. m : q[k] = p[k]
  OBVIOUS
<1>2. \A a : Exposing(class, q, a) = Exposing(class, p, a)
                \cup (IF a \in Desc[class[p[m]]].exposes THEN {m} ELSE {})
  <2> SUFFICES ASSUME NEW a
               PROVE  Exposing(class, q, a) = Exposing(class, p, a)
                        \cup (IF a \in Desc[class[p[m]]].exposes THEN {m} ELSE {})
    OBVIOUS
  <2>1. Exposing(class, q, a) = {k \in 1 .. m : a \in Desc[class[p[k]]].exposes}
    BY <1>0, <1>1 DEF Exposing
  <2>2. Exposing(class, p, a) = {k \in 1 .. m - 1 : a \in Desc[class[p[k]]].exposes}
    BY DEF Exposing
  <2>. HIDE DEF q
  <2>3. 1 .. m = (1 .. m - 1) \cup {m}
    BY <1>0
  <2>. QED BY <2>1, <2>2, <2>3
<1>3. DOMAIN own = Desc[class[p[m]]].exposes /\ DOMAIN own \subseteq Aliases
      /\ \A a \in DOMAIN own : own[a] = p[m]
  BY <1>0 DEF ExposedBy, ResolverAssumption
<1>4. DOMAIN ctx = DOMAIN own \cup DOMAIN seen
      /\ \A a \in DOMAIN ctx : ctx[a] = IF a \in DOMAIN own THEN own[a] ELSE seen[a]
  BY DEF Over
<1>5. DOMAIN seen = {a \in Aliases : Exposing(class, p, a) # {}}
  BY DEF Nearest
<1>6. \A a : \A l \in Exposing(class, p, a) : l <= m
  BY <1>0 DEF Exposing
<1>7. DOMAIN ctx = {a \in Aliases : Exposing(class, q, a) # {}}
  <2> HIDE DEF q, own, ctx, m
  <2>. QED BY <1>2, <1>3, <1>4, <1>5, ZenonT(40)
<1>8. ASSUME NEW a \in DOMAIN ctx
      PROVE  \E k \in Exposing(class, q, a) :
                ctx[a] = q[k] /\ \A l \in Exposing(class, q, a) : l <= k
  <2>1. CASE a \in DOMAIN own
    <3>1. ctx[a] = q[m] /\ m \in Exposing(class, q, a)
      BY <1>0, <1>1, <1>2, <1>3, <1>4, <2>1
    <3>2. \A l \in Exposing(class, q, a) : l <= m
      BY <1>0, <1>2, <1>6
    <3>. QED BY <3>1, <3>2
  <2>2. CASE a \notin DOMAIN own
    <3>0. a \in DOMAIN seen /\ ctx[a] = seen[a]
      <4> HIDE DEF own, ctx
      <4>. QED BY <1>4, <1>8, <2>2
    <3>a. a \notin Desc[class[p[m]]].exposes
      BY <1>3, <2>2
    <3>b. Exposing(class, q, a) = Exposing(class, p, a)
      <4> HIDE DEF q
      <4>. QED BY <1>2, <3>a
    <3>1. a \in DOMAIN seen /\ ctx[a] = seen[a] /\ Exposing(class, q, a) = Exposing(class, p, a)
      BY <3>0, <3>b
    <3>2. PICK k \in Exposing(class, p, a) :
            seen[a] = p[k] /\ \A l \in Exposing(class, p, a) : l <= k
      BY <3>1 DEF Nearest
    <3>3. k \in 1 .. m
      BY <1>0 DEF Exposing
    <3>. QED BY <3>1, <3>2, <3>3, <1>1
  <2>. QED BY <2>1, <2>2
<1>. QED BY <1>7, <1>8 DEF Nearest

\* A child of a well-formed entry is one, a level further down.
LEMMA ChildWellFormed ==
  ASSUME ResolverAssumption, NEW class \in [Nodes -> Classes], NEW v, WellFormed(class, v),
         NEW n \in Nodes
  PROVE  /\ WellFormed(class, Entry(class, n, v.path, v.ctx))
         /\ Len(Entry(class, n, v.path, v.ctx).path) = Len(v.path) + 1
<1> DEFINE w == Entry(class, n, v.path, v.ctx)
<1>1. /\ DOMAIN w = {"node", "path", "seen", "ctx", "snap"}
      /\ w.node = n /\ w.path = Append(v.path, n) /\ w.seen = v.ctx
      /\ w.ctx = Over(ExposedBy(class, n), v.ctx)
  BY DEF Entry
<1>2. v.path \in Seq(Nodes) /\ Len(v.path) \in Nat \ {0} /\ Nearest(class, v.path, v.seen)
      /\ v.ctx = Over(ExposedBy(class, v.path[Len(v.path)]), v.seen)
  BY DEF WellFormed
<1>3. Nearest(class, Append(v.path, n), v.ctx)
  BY <1>2, ContextBelow
<1>4. /\ Append(v.path, n) \in Seq(Nodes) /\ Len(Append(v.path, n)) = Len(v.path) + 1
      /\ Append(v.path, n)[Len(v.path) + 1] = n
  BY <1>2
<1> HIDE DEF w
<1>. QED BY <1>1, <1>2, <1>3, <1>4 DEF WellFormed, w

\* A root has nothing above it.
LEMMA RootWellFormed ==
  ASSUME NEW class \in [Nodes -> Classes], NEW n \in Nodes
  PROVE  /\ WellFormed(class, Entry(class, n, << >>, Empty))
         /\ Len(Entry(class, n, << >>, Empty).path) = 1
<1> DEFINE w == Entry(class, n, << >>, Empty)
<1>1. /\ DOMAIN w = {"node", "path", "seen", "ctx", "snap"}
      /\ w.node = n /\ w.path = <<n>> /\ w.seen = Empty
      /\ w.ctx = Over(ExposedBy(class, n), Empty)
  BY DEF Entry
<1>2. \A a : Exposing(class, <<n>>, a) = {}
  BY DEF Exposing
<1>3. Nearest(class, <<n>>, Empty)
  BY <1>2 DEF Nearest, Empty
<1>4. <<n>> \in Seq(Nodes) /\ Len(<<n>>) = 1 /\ <<n>>[1] = n
  OBVIOUS
<1> HIDE DEF w
<1>5. WellFormed(class, w) /\ Len(w.path) = 1
  BY <1>1, <1>3, <1>4 DEF WellFormed
<1>. QED BY <1>5 DEF w

-----------------------------------------------------------------------------
(* The entries of the next level.                                          *)

\* What the code relies on when it reads the document.
LEMMA DocFacts ==
  ASSUME ResolverAssumption, doc \in Docs
  PROVE  /\ doc.calls \subseteq Calls
         /\ doc.class \in [Nodes -> Classes]
         /\ \A n \in Nodes : ClassOf(n) \in Classes
         /\ \A c \in Calls : doc.roots[c] \in Values
         /\ \A c \in Calls, n \in Nodes, f \in Fields : doc.loads[c][n][f] \in Values
<1>1. /\ doc.calls \subseteq Calls
      /\ doc.class \in [Nodes -> Classes]
      /\ doc.roots \in [Calls -> Values]
      /\ doc.loads \in [Calls -> [Nodes -> [Fields -> Values]]]
  BY DEF ResolverAssumption
<1>. QED BY <1>1 DEF ClassOf

\* The fields a class resolves, loads or follows are fields.
LEMMA ClassFields ==
  ASSUME ResolverAssumption, NEW k \in Classes
  PROVE  /\ ResolveFields(k) \subseteq Fields /\ AutoFields(k) \subseteq Fields
         /\ \A r : TraversableFields(k, r) \subseteq Fields
BY DEF ResolverAssumption, ResolveFields, AutoFields, TraversableFields

\* What the model makes of a node below a path is an entry.
LEMMA LevelNodeIsEntry ==
  ASSUME NEW n, NEW above, NEW seen
  PROVE  LevelNode(n, above, seen) = Entry(doc.class, n, above, seen)
BY DEF LevelNode, Entry, Context, Exposed, ExposedBy, ClassOf

IsSequence(s) == \E T : s \in Seq(T)

\* A function on 1 .. n is a sequence of length n.
LEMMA FunctionIsSequence ==
  ASSUME NEW n \in Nat, NEW s, s = [i \in 1 .. n |-> s[i]]
  PROVE  IsSequence(s) /\ Len(s) = n
<1> DEFINE T == {s[i] : i \in 1 .. n}
<1>1. \A i \in 1 .. n : s[i] \in T
  OBVIOUS
<1>. HIDE DEF T
<1>2. s \in Seq(T) /\ Len(s) = n
  BY <1>1
<1>. QED BY <1>2 DEF IsSequence

VisitsInv ==
  /\ IsSequence(visits)
  /\ \A i \in 1 .. Len(visits) : WellFormed(doc.class, visits[i])

\* The entries a node of the level may have below it.
LevelChildren == UNION {{Entry(doc.class, n, visits[i].path, visits[i].ctx) : n \in Nodes} : i \in Level}

\* A level is a set of positions of visits.
LEMMA LevelIndices ==
  ASSUME VisitsInv
  PROVE  Len(visits) \in Nat /\ \A d : LevelOf(visits, d) \subseteq 1 .. Len(visits)
BY DEF VisitsInv, IsSequence, LevelOf

\* Picking visits in their order returns those visits.
LEMMA InOrderType ==
  ASSUME VisitsInv, NEW I, I \subseteq 1 .. Len(visits)
  PROVE  /\ InOrder(I) \in Seq(I) /\ Len(InOrder(I)) = Cardinality(I)
         /\ \A k, l \in 1 .. Len(InOrder(I)) : k < l => InOrder(I)[k] < InOrder(I)[l]
         /\ \A i \in I : \E k \in 1 .. Len(InOrder(I)) : InOrder(I)[k] = i
<1> DEFINE n == Len(visits)
           s == [i \in 1 .. n |-> i]
<1>1. n \in Nat
  BY LevelIndices
<1>2. s \in Seq(1 .. n) /\ DOMAIN s = 1 .. n /\ \A i \in 1 .. n : s[i] = i
  BY <1>1
<1>3. InOrder(I) = Pick(s, I)
  BY DEF InOrder
<1>. HIDE DEF s, n
<1>4. I \in SUBSET DOMAIN s
  BY <1>2 DEF n
<1>5. /\ Pick(s, I) \in Seq(1 .. n) /\ Len(Pick(s, I)) = Cardinality(I)
      /\ Cardinality(I) \in Nat /\ DOMAIN Pick(s, I) = 1 .. Cardinality(I)
      /\ \A k \in DOMAIN Pick(s, I) : Nth(I, k) \in I /\ Pick(s, I)[k] = s[Nth(I, k)]
      /\ \A k, l \in DOMAIN Pick(s, I) : k < l => Nth(I, k) < Nth(I, l)
      /\ \A i \in I : \E k \in DOMAIN Pick(s, I) : Nth(I, k) = i
  <2> DEFINE S == 1 .. n
  <2>1. s \in Seq(S)
    BY <1>2
  <2>. HIDE DEF S
  <2>2. Pick(s, I) \in Seq(S)
    BY <2>1, <1>4, PickIsSubsequence
  <2>3. Len(Pick(s, I)) = Cardinality(I)
    BY <2>1, <1>4, PickIsSubsequence
  <2>4. Cardinality(I) \in Nat /\ DOMAIN Pick(s, I) = 1 .. Cardinality(I)
    BY <2>1, <1>4, PickIsSubsequence
  <2>5. \A k \in DOMAIN Pick(s, I) : Nth(I, k) \in I /\ Pick(s, I)[k] = s[Nth(I, k)]
    BY <2>1, <1>4, PickIsSubsequence
  <2>6. \A k, l \in DOMAIN Pick(s, I) : k < l => Nth(I, k) < Nth(I, l)
    BY <2>1, <1>4, PickIsSubsequence
  <2>7. \A i \in I : \E k \in DOMAIN Pick(s, I) : Nth(I, k) = i
    <3>1. I \in SUBSET (1 .. n) /\ n \in Nat
      BY <1>1, <1>2, <1>4 DEF n
    <3>2. /\ \A i \in I : Rank(I, i) \in 1 .. Cardinality(I)
          /\ \A i \in I : Nth(I, Rank(I, i)) = i
      BY <3>1, RankNumbers, NthPosition
    <3>. QED BY <3>2, <2>4
  <2>. QED BY <2>2, <2>3, <2>4, <2>5, <2>6, <2>7 DEF S
<1>6. \A k \in DOMAIN Pick(s, I) : Pick(s, I)[k] = Nth(I, k)
  BY <1>2, <1>4, <1>5
<1>7. Pick(s, I) \in Seq(I)
  BY <1>5, <1>6
<1>. QED BY <1>3, <1>5, <1>6, <1>7

\* The children of a visit of the level.
LEMMA ChildrenType ==
  ASSUME NEW i \in Level, NEW nodes \in Values
  PROVE  ChildrenOf(visits[i], nodes) \in Seq(LevelChildren)
<1>1. \A k \in 1 .. Len(nodes) :
        LevelNode(nodes[k], visits[i].path, visits[i].ctx) \in LevelChildren
  BY LevelNodeIsEntry DEF LevelChildren, Values
<1>. QED BY <1>1 DEF ChildrenOf, Values

\* Concatenating over visits and fields stays in the level's children.
LEMMA ResolveItemsType ==
  ASSUME ResolverAssumption, VisitsInv, \A p \in DOMAIN outputs : outputs[p] \in Values
  PROVE  ResolveItems \in Seq(LevelChildren)
<1> DEFINE Of(i, f) == IF <<i, f>> \in DOMAIN outputs
                       THEN ChildrenOf(visits[i], outputs[<<i, f>>]) ELSE << >>
           Fs(i) == [x \in 1 .. Len(FieldOrder) |-> Of(i, FieldOrder[x])]
           s == InOrder(Level)
           Ss == [k \in 1 .. Len(s) |-> Concat(Fs(s[k]), Len(FieldOrder))]
<1>1. ResolveItems = Concat(Ss, Len(s))
  BY DEF ResolveItems, ConcatMap
<1>2. \A i \in Level : \A f : Of(i, f) \in Seq(LevelChildren)
  BY ChildrenType
<1>3. Len(FieldOrder) \in Nat
  BY DEF ResolverAssumption
<1>4. \A i \in Level : Concat(Fs(i), Len(FieldOrder)) \in Seq(LevelChildren)
  <2> SUFFICES ASSUME NEW i \in Level
               PROVE  Concat(Fs(i), Len(FieldOrder)) \in Seq(LevelChildren)
    OBVIOUS
  <2>1. \A x \in 1 .. Len(FieldOrder) : Fs(i)[x] \in Seq(LevelChildren)
    BY <1>2
  <2>. HIDE DEF Fs
  <2>. QED BY <1>3, <2>1, ConcatType
<1>5. s \in Seq(Level)
  BY InOrderType, LevelIndices DEF Level
<1>6. Len(s) \in Nat /\ \A k \in 1 .. Len(s) : s[k] \in Level
  <2> HIDE DEF s
  <2>. QED BY <1>5
<1>7. \A k \in 1 .. Len(s) : Ss[k] \in Seq(LevelChildren)
  <2> HIDE DEF s, Fs
  <2>. QED BY <1>4, <1>6
<1>. HIDE DEF s, Ss
<1>. QED BY <1>1, <1>6, <1>7, ConcatType

\* A well-formed visit is of a node, which has a class.
LEMMA VisitNode ==
  ASSUME ResolverAssumption, doc \in Docs, VisitsInv, NEW i \in 1 .. Len(visits)
  PROVE  visits[i].node \in Nodes /\ ClassOf(visits[i].node) \in Classes
<1>1. visits[i].path \in Seq(Nodes) /\ Len(visits[i].path) \in Nat \ {0}
      /\ visits[i].node = visits[i].path[Len(visits[i].path)]
  BY DEF VisitsInv, WellFormed
<1>2. visits[i].node \in Nodes
  BY <1>1
<1>. QED BY <1>2, DocFacts

TraversableOK ==
  \A k \in Classes : traversable[k] \subseteq SUBSET Fields /\ Cardinality(traversable[k]) <= 1

\* The class-level cache holds fields.
LEMMA CachedFields ==
  ASSUME ResolverAssumption, TraversableOK, NEW k \in Classes
  PROVE  CachedTraversable(k) \subseteq Fields
<1>1. CASE traversable[k] = {}
  BY <1>1, ClassFields DEF CachedTraversable
<1>2. CASE traversable[k] # {}
  <2>1. (CHOOSE s \in traversable[k] : TRUE) \in traversable[k]
    BY <1>2
  <2>. QED BY <1>2, <2>1 DEF CachedTraversable, TraversableOK
<1>. QED BY <1>1, <1>2

\* What given and resolved fields lead to is below the level.
LEMMA ExistingItemsType ==
  ASSUME ResolverAssumption, doc \in Docs, VisitsInv, TraversableOK,
         heap \in [Nodes -> [Fields -> Values]]
  PROVE  ExistingItems \in Seq(LevelChildren)
<1> DEFINE Of(i, f) == IF f \in CachedTraversable(ClassOf(visits[i].node))
                           /\ <<visits[i].node, f>> \notin LoadedKeys
                       THEN ChildrenOf(visits[i], heap[visits[i].node][f]) ELSE << >>
           Fs(i) == [x \in 1 .. Len(FieldOrder) |-> Of(i, FieldOrder[x])]
           s == InOrder(Level)
           Ss == [k \in 1 .. Len(s) |-> Concat(Fs(s[k]), Len(FieldOrder))]
<1>1. ExistingItems = Concat(Ss, Len(s))
  BY DEF ExistingItems, ConcatMap
<1>2. ASSUME NEW i \in Level, NEW f
      PROVE  Of(i, f) \in Seq(LevelChildren)
  <2>1. i \in 1 .. Len(visits)
    BY LevelIndices DEF Level
  <2>2. visits[i].node \in Nodes /\ CachedTraversable(ClassOf(visits[i].node)) \subseteq Fields
    BY <2>1, VisitNode, CachedFields
  <2>3. CASE f \in CachedTraversable(ClassOf(visits[i].node))
    <3>1. heap[visits[i].node][f] \in Values
      BY <2>2, <2>3
    <3>. QED BY <3>1, ChildrenType
  <2>4. CASE f \notin CachedTraversable(ClassOf(visits[i].node))
    BY <2>4
  <2>. QED BY <2>3, <2>4
<1>3. Len(FieldOrder) \in Nat
  BY DEF ResolverAssumption
<1>4. ASSUME NEW i \in Level
      PROVE  Concat(Fs(i), Len(FieldOrder)) \in Seq(LevelChildren)
  <2>1. \A x \in 1 .. Len(FieldOrder) : Fs(i)[x] \in Seq(LevelChildren)
    BY <1>2
  <2>. HIDE DEF Fs
  <2>. QED BY <1>3, <2>1, ConcatType
<1>5. s \in Seq(Level)
  BY InOrderType, LevelIndices DEF Level
<1>6. Len(s) \in Nat /\ \A k \in 1 .. Len(s) : s[k] \in Level
  <2> HIDE DEF s
  <2>. QED BY <1>5
<1>7. \A k \in 1 .. Len(s) : Ss[k] \in Seq(LevelChildren)
  <2> HIDE DEF s, Fs
  <2>. QED BY <1>4, <1>6
<1>. HIDE DEF s, Ss
<1>. QED BY <1>1, <1>6, <1>7, ConcatType

\* What one group of auto-load appends.
LoadedItems(c, f, hit) ==
  Concat([x \in 1 .. Len(InOrder(hit)) |->
            ChildrenOf(visits[InOrder(hit)[x]], doc.loads[c][visits[InOrder(hit)[x]].node][f])],
         Len(InOrder(hit)))

\* What a group of auto-loads leads to is below the level.
LEMMA LoadedItemsType ==
  ASSUME ResolverAssumption, doc \in Docs, VisitsInv, NEW hit, hit \subseteq Level,
         NEW c \in Calls, NEW f \in Fields
  PROVE  LoadedItems(c, f, hit) \in Seq(LevelChildren)
<1> DEFINE s == InOrder(hit)
           Ss == [k \in 1 .. Len(s) |-> ChildrenOf(visits[s[k]], doc.loads[c][visits[s[k]].node][f])]
<1>1. s \in Seq(hit) /\ hit \subseteq 1 .. Len(visits)
  BY InOrderType, LevelIndices DEF Level
<1>2. Len(s) \in Nat /\ \A k \in 1 .. Len(s) : s[k] \in hit
  <2> HIDE DEF s
  <2>. QED BY <1>1
<1>3. \A i \in hit : doc.loads[c][visits[i].node][f] \in Values
  BY <1>1, VisitNode, DocFacts
<1>4. \A k \in 1 .. Len(s) : Ss[k] \in Seq(LevelChildren)
  <2> HIDE DEF s
  <2>. QED BY <1>2, <1>3, ChildrenType
<1>5. LoadedItems(c, f, hit) = Concat(Ss, Len(s))
  BY DEF LoadedItems
<1>. HIDE DEF s, Ss
<1>. QED BY <1>2, <1>4, <1>5, ConcatType

\* The next level's entries are children of this one's.
LEMMA NextItemsType ==
  ASSUME ResolverAssumption, doc \in Docs, VisitsInv, TraversableOK,
         heap \in [Nodes -> [Fields -> Values]],
         \A p \in DOMAIN outputs : outputs[p] \in Values,
         autoItems \in Seq(LevelChildren)
  PROVE  NextItems \in Seq(LevelChildren)
<1>1. ResolveItems \in Seq(LevelChildren)
  BY ResolveItemsType
<1>2. ExistingItems \in Seq(LevelChildren)
  BY ExistingItemsType
<1>. QED BY <1>1, <1>2 DEF NextItems

-----------------------------------------------------------------------------
(* The inductive invariant.  Apart from the types it says that every entry  *)
(* has the context its path calls for, that the entries of a running call   *)
(* are no deeper than the level it has reached, and that the levels whose   *)
(* posts have run are exactly those below the one being posted.             *)

StoreInv ==
  /\ heap \in [Nodes -> [Fields -> Values]]
  /\ TraversableOK
  /\ jobs \subseteq [call : Calls, visit : Nat, node : Nodes, field : Fields]
  /\ \A p \in DOMAIN outputs : outputs[p] \in Values
  /\ autoLeft \subseteq Classes \X Fields
  /\ loaded \subseteq Nodes \X Fields
  /\ strays \subseteq Nodes

CollectorsInv ==
  /\ running \in BOOLEAN
  /\ DOMAIN collectors \subseteq Nodes
  /\ \A n \in DOMAIN collectors : \A a \in DOMAIN collectors[n] :
       running => collectors[n][a] \in DOMAIN collected

PhaseInv ==
  /\ depth \in Nat /\ posted \subseteq 1 .. Len(visits)
  /\ pc[latest] = "resolving" =>
       /\ depth # 0 /\ posted = {} /\ reads = {}
       /\ \A i \in 1 .. Len(visits) : Len(visits[i].path) <= depth
       /\ autoItems \in Seq(LevelChildren)
  /\ pc[latest] \in {"posting", "handling"} =>
       /\ depth # 0
       /\ posted = {i \in 1 .. Len(visits) : Len(visits[i].path) > depth}

Deeper(i) == {j \in 1 .. Len(visits) : Len(visits[j].path) > Len(visits[i].path)}

ReadsInv == \A r \in reads : r.visit \in 1 .. Len(visits) /\ r.after = Deeper(r.visit)

TraversalInv == /\ doc \in Docs /\ GuardInv
                /\ StoreInv /\ CollectorsInv /\ VisitsInv /\ PhaseInv /\ ReadsInv

\* Only the call that set the guard is active.
LEMMA ActiveIsLatest ==
  ASSUME GuardInv, NEW c \in Calls, pc[c] \in Active
  PROVE  c = latest
BY DEF GuardInv, GuardIsTheRunningCall, Active

\* A step that leaves the entries and what hangs on them.
LEMMA VisitsFrame ==
  ASSUME VisitsInv, ReadsInv, UNCHANGED <<doc, visits, reads>>
  PROVE  VisitsInv' /\ ReadsInv'
BY DEF VisitsInv, ReadsInv, IsSequence, Deeper

\* The call fails or is cancelled: everything stands as it was.
LEMMA FailureStep ==
  ASSUME TraversalInv, NEW c \in Calls, pc[c] \in Active, NEW how \in {"failed", "cancelled"},
         Leave(c, how), jobs' \subseteq jobs,
         UNCHANGED <<doc, heap, traversable, latest, strays, visits, depth, phaseA, phaseB>>
  PROVE  doc' \in Docs /\ StoreInv' /\ CollectorsInv' /\ VisitsInv' /\ PhaseInv' /\ ReadsInv'
<1>1. c = latest
  BY ActiveIsLatest DEF TraversalInv
<1>2. pc'[latest'] = how /\ running' = FALSE
  BY <1>1 DEF Leave, TraversalInv, GuardInv
<1>3. StoreInv'
  BY DEF TraversalInv, StoreInv, TraversableOK, phaseA
<1>4. CollectorsInv'
  BY <1>2 DEF TraversalInv, CollectorsInv, phaseB
<1>5. VisitsInv' /\ ReadsInv'
  BY VisitsFrame DEF TraversalInv, phaseB
<1>6. PhaseInv'
  BY <1>2 DEF TraversalInv, PhaseInv, phaseB
<1>. QED BY <1>3, <1>4, <1>5, <1>6 DEF TraversalInv

\* The level is entered with the entries vs, of which those at depth d are new.
LEMMA EnterStore ==
  ASSUME ResolverAssumption, doc \in Docs, doc' = doc, StoreInv, NEW c \in Calls, NEW vs, NEW d \in Nat,
         EnterLevel(c, vs, d), \A i \in 1 .. Len(vs) : WellFormed(doc.class, vs[i]),
         Len(vs) \in Nat, heap' = heap, strays' \subseteq strays, TraversableOK'
  PROVE  StoreInv'
<1>1. \A i \in LevelOf(vs, d) : vs[i].node \in Nodes /\ ClassOf(vs[i].node) \in Classes /\ i \in Nat
  <2> SUFFICES ASSUME NEW i \in LevelOf(vs, d)
               PROVE  vs[i].node \in Nodes /\ ClassOf(vs[i].node) \in Classes /\ i \in Nat
    OBVIOUS
  <2>1. i \in 1 .. Len(vs) /\ i \in Nat
    BY DEF LevelOf
  <2>2. vs[i].node \in Nodes
    BY <2>1 DEF WellFormed
  <2>. QED BY <2>1, <2>2, DocFacts
<1>2. \A k \in Classes : ResolveFields(k) \subseteq Fields /\ AutoFields(k) \subseteq Fields
  BY ClassFields
<1>3. jobs' \subseteq [call : Calls, visit : Nat, node : Nodes, field : Fields]
  <2>1. jobs' = jobs \cup UNION {{[call |-> c, visit |-> i, node |-> vs[i].node, field |-> f] :
                   f \in ResolveFields(ClassOf(vs[i].node))} : i \in LevelOf(vs, d)}
    BY DEF EnterLevel
  <2>2. ASSUME NEW i \in LevelOf(vs, d), NEW f \in ResolveFields(ClassOf(vs[i].node))
        PROVE  [call |-> c, visit |-> i, node |-> vs[i].node, field |-> f]
                 \in [call : Calls, visit : Nat, node : Nodes, field : Fields]
    BY <1>1, <1>2
  <2>3. \A j \in jobs' : j \in jobs \/ \E i \in LevelOf(vs, d) :
          \E f \in ResolveFields(ClassOf(vs[i].node)) :
            j = [call |-> c, visit |-> i, node |-> vs[i].node, field |-> f]
    BY <2>1
  <2>. QED BY <2>2, <2>3 DEF StoreInv
<1>4. autoLeft' \subseteq Classes \X Fields
  <2>1. \A g \in autoLeft' : \E i \in LevelOf(vs, d) : \E f \in AutoFields(ClassOf(vs[i].node)) :
          g = <<ClassOf(vs[i].node), f>>
    BY DEF EnterLevel
  <2>. QED BY <1>1, <1>2, <2>1
<1>5. loaded' = {} /\ outputs' = Empty
  BY DEF EnterLevel
<1>. QED BY <1>3, <1>4, <1>5 DEF StoreInv, Empty

Rest == doc \in Docs /\ StoreInv /\ CollectorsInv /\ VisitsInv /\ PhaseInv /\ ReadsInv

\* The first level: one entry for every root.
LEMMA BeginStep ==
  ASSUME ResolverAssumption, TraversalInv, NEW c \in Calls, Begin(c)
  PROVE  Rest'
<1> DEFINE roots == doc.roots[c]
           vs == [i \in 1 .. Len(roots) |-> LevelNode(roots[i], << >>, Empty)]
<1>0. /\ UNCHANGED <<doc, heap, traversable>> /\ strays' = {} /\ EnterLevel(c, vs, 1)
      /\ latest' = c /\ running' = TRUE /\ collectors' = Cleared /\ collected' = Empty
      /\ posted' = {} /\ reads' = {}
  BY DEF Begin
<1>1. doc \in Docs /\ doc.class \in [Nodes -> Classes] /\ roots \in Values
  BY DocFacts DEF TraversalInv
<1>2. Len(roots) \in Nat /\ \A i \in 1 .. Len(roots) : roots[i] \in Nodes
  BY <1>1 DEF Values
<1>3. \A i \in 1 .. Len(roots) : vs[i] = Entry(doc.class, roots[i], << >>, Empty)
  BY LevelNodeIsEntry
<1>4. Len(vs) = Len(roots) /\ IsSequence(vs)
  <2>1. vs = [i \in 1 .. Len(roots) |-> vs[i]]
    OBVIOUS
  <2>. HIDE DEF vs, roots
  <2>. QED BY <1>2, <2>1, FunctionIsSequence
<1>. HIDE DEF vs, roots
<1>5. \A i \in 1 .. Len(vs) : WellFormed(doc.class, vs[i]) /\ Len(vs[i].path) = 1
  <2>1. \A n \in Nodes : LET w == Entry(doc.class, n, << >>, Empty)
                         IN WellFormed(doc.class, w) /\ Len(w.path) = 1
    BY <1>1, RootWellFormed
  <2>. QED BY <1>2, <1>3, <1>4, <2>1
<1>6. visits' = vs /\ depth' = 1 /\ autoItems' = << >> /\ pc' = [pc EXCEPT ![c] = "resolving"]
  BY <1>0 DEF EnterLevel
<1>7. StoreInv'
  <2>1. TraversableOK'
    BY <1>0 DEF TraversableOK, TraversalInv, StoreInv
  <2>. QED BY <1>0, <1>1, <1>2, <1>4, <1>5, <2>1, EnterStore DEF TraversalInv
<1>8. VisitsInv'
  BY <1>0, <1>4, <1>5, <1>6 DEF VisitsInv
<1>9. PhaseInv'
  <2>1. pc'[latest'] = "resolving"
    BY <1>0, <1>6 DEF TraversalInv, GuardInv
  <2>2. autoItems' \in Seq(LevelChildren')
    BY <1>6
  <2>3. \A i \in 1 .. Len(visits') : Len(visits'[i].path) <= depth'
    <3>1. visits' = vs /\ depth' = 1 /\ \A i \in 1 .. Len(vs) : Len(vs[i].path) = 1
      BY <1>5, <1>6
    <3>2. ASSUME NEW i \in 1 .. Len(vs)
          PROVE  Len(vs[i].path) <= 1
      <4>1. Len(vs[i].path) = 1
        BY <3>1
      <4>2. 1 <= 1
        OBVIOUS
      <4>. QED BY ONLY <4>1, <4>2
    <3>. QED BY <3>1, <3>2
  <2>. QED BY <1>0, <1>6, <2>1, <2>2, <2>3 DEF PhaseInv
<1>10. CollectorsInv' /\ ReadsInv'
  BY <1>0 DEF CollectorsInv, ReadsInv, Cleared, Empty
<1>. QED BY <1>0, <1>1, <1>7, <1>8, <1>9, <1>10 DEF Rest

\* A coroutine returns: a value of its field, in the heap and in the outputs.
LEMMA ReturnStep ==
  ASSUME ResolverAssumption, TraversalInv, NEW j \in jobs, ResolveReturns(j)
  PROVE  Rest'
<1>1. /\ UNCHANGED <<doc, traversable, running, pc, latest, visits, depth, autoLeft, autoItems,
                     loaded, collectors, collected, posted, reads>>
      /\ jobs' \subseteq jobs
  BY DEF ResolveReturns, phaseB
<1> DEFINE val == doc.loads[j.call][j.node][j.field]
<1>2. j.call \in Calls /\ j.node \in Nodes /\ j.field \in Fields
  BY DEF TraversalInv, StoreInv
<1>3. val \in Values
  BY <1>2, DocFacts DEF TraversalInv
<1>. HIDE DEF val
<1>4. heap' = [heap EXCEPT ![j.node][j.field] = val] /\ heap \in [Nodes -> [Fields -> Values]]
  BY DEF ResolveReturns, val, TraversalInv, StoreInv
<1>5. heap' \in [Nodes -> [Fields -> Values]]
  BY <1>2, <1>3, <1>4
<1>6. \A p \in DOMAIN outputs' : outputs'[p] \in Values
  <2>1. CASE outputs' = outputs
    BY <2>1 DEF TraversalInv, StoreInv
  <2>2. CASE outputs' = Over([p \in {<<j.visit, j.field>>} |-> val], outputs)
    BY <1>3, <2>2 DEF Over, TraversalInv, StoreInv
  <2>. QED BY <2>1, <2>2 DEF ResolveReturns, val
<1>7. strays' \subseteq Nodes
  BY <1>2 DEF ResolveReturns, TraversalInv, StoreInv
<1>8. StoreInv'
  BY <1>1, <1>5, <1>6, <1>7 DEF TraversalInv, StoreInv, TraversableOK
<1>9. CollectorsInv'
  BY <1>1 DEF TraversalInv, CollectorsInv
<1>10. VisitsInv' /\ ReadsInv'
  BY <1>1, VisitsFrame DEF TraversalInv
<1>11. PhaseInv'
  BY <1>1 DEF TraversalInv, PhaseInv, LevelChildren, Level, LevelOf
<1>. QED BY <1>1, <1>8, <1>9, <1>10, <1>11 DEF Rest, TraversalInv

\* The visits of the level on which a group finds something to set.
Hit(c, g) == {i \in Level : /\ ClassOf(visits[i].node) = g[1]
                            /\ <<visits[i].node, g[2]>> \notin doc.keyless
                            /\ ~(Desc[g[1]].fields[g[2]].one
                                 /\ doc.loads[c][visits[i].node][g[2]] = << >>)}

\* What a group writes, and what it appends to the children.
LEMMA GroupWrites ==
  ASSUME NEW c, NEW k, NEW f, AutoLoadGroup(c, <<k, f>>)
  PROVE  /\ heap' = [n \in Nodes |-> IF \E i \in Hit(c, <<k, f>>) : visits[i].node = n
                                     THEN [heap[n] EXCEPT ![f] = doc.loads[c][n][f]] ELSE heap[n]]
         /\ loaded' = loaded \cup {<<visits[i].node, f>> : i \in Hit(c, <<k, f>>)}
         /\ autoItems' = autoItems \o LoadedItems(c, f, Hit(c, <<k, f>>))
<1> DEFINE hit == {i \in Level : /\ ClassOf(visits[i].node) = k
                                 /\ <<visits[i].node, f>> \notin doc.keyless
                                 /\ ~(Desc[k].fields[f].one /\ doc.loads[c][visits[i].node][f] = << >>)}
           items == LoadedItems(c, f, hit)
<1>1. hit = Hit(c, <<k, f>>)
  BY DEF Hit
<1>2. heap' = [n \in Nodes |-> IF \E i \in hit : visits[i].node = n
                               THEN [heap[n] EXCEPT ![f] = doc.loads[c][n][f]] ELSE heap[n]]
  BY DEF AutoLoadGroup
<1>3. loaded' = loaded \cup {<<visits[i].node, f>> : i \in hit}
  BY DEF AutoLoadGroup
<1>4. autoItems' = autoItems \o items /\ pc[c] = "resolving"
  BY DEF AutoLoadGroup, ConcatMap, LoadedItems
<1>. HIDE DEF hit
<1>. QED BY <1>1, <1>2, <1>3, <1>4

\* A group of auto-load writes values of its field and appends children.
LEMMA LoadGroupStep ==
  ASSUME ResolverAssumption, TraversalInv, NEW c \in Calls, NEW k \in Classes, NEW f \in Fields,
         AutoLoadGroup(c, <<k, f>>)
  PROVE  Rest'
<1> DEFINE hit == Hit(c, <<k, f>>)
           items == LoadedItems(c, f, hit)
<1>1. /\ UNCHANGED <<doc, traversable, running, pc, latest, strays, visits, depth, jobs, outputs,
                     collectors, collected, posted, reads>>
      /\ autoLeft' = autoLeft \ {<<k, f>>} /\ pc[c] = "resolving"
  BY DEF AutoLoadGroup, phaseB, Remaining
<1>2. /\ heap' = [n \in Nodes |-> IF \E i \in hit : visits[i].node = n
                                  THEN [heap[n] EXCEPT ![f] = doc.loads[c][n][f]] ELSE heap[n]]
      /\ loaded' = loaded \cup {<<visits[i].node, f>> : i \in hit}
      /\ autoItems' = autoItems \o items
  BY GroupWrites
<1>3. hit \subseteq Level
  BY DEF Hit
<1>4. items \in Seq(LevelChildren)
  <2>. HIDE DEF hit
  <2>. QED BY <1>3, LoadedItemsType DEF TraversalInv
<1>. HIDE DEF hit, items
<1>5. \A i \in hit : visits[i].node \in Nodes
  BY <1>3, LevelIndices, VisitNode DEF TraversalInv, Level
<1>6. \A n \in Nodes : doc.loads[c][n][f] \in Values
  BY DocFacts DEF TraversalInv
<1>7. heap' \in [Nodes -> [Fields -> Values]]
  BY <1>2, <1>6 DEF TraversalInv, StoreInv
<1>8. loaded' \subseteq Nodes \X Fields
  BY <1>2, <1>5 DEF TraversalInv, StoreInv
<1>9. StoreInv'
  BY <1>1, <1>7, <1>8 DEF TraversalInv, StoreInv, TraversableOK
<1>10. CollectorsInv'
  BY <1>1 DEF TraversalInv, CollectorsInv
<1>11. VisitsInv' /\ ReadsInv'
  BY <1>1, VisitsFrame DEF TraversalInv
<1>12. PhaseInv'
  <2>1. c = latest
    BY <1>1, ActiveIsLatest DEF TraversalInv, Active
  <2>2. autoItems' \in Seq(LevelChildren)
    BY <1>1, <1>2, <1>4, <2>1 DEF TraversalInv, PhaseInv
  <2>3. LevelChildren' = LevelChildren
    BY <1>1 DEF LevelChildren, Level, LevelOf
  <2>. QED BY <1>1, <2>1, <2>2, <2>3 DEF TraversalInv, PhaseInv
<1>. QED BY <1>1, <1>9, <1>10, <1>11, <1>12 DEF Rest, TraversalInv

\* The cache holds at most one set of fields for a class.
LEMMA CacheKept ==
  ASSUME ResolverAssumption, StoreInv, NEW S, S \subseteq Classes,
         traversable' = [k \in Classes |-> IF k \in S THEN {CachedTraversable(k)} ELSE traversable[k]]
  PROVE  TraversableOK'
<1>1. ASSUME NEW k \in Classes
      PROVE  traversable'[k] \subseteq SUBSET Fields /\ Cardinality(traversable'[k]) <= 1
  <2>1. CASE k \in S
    <3>1. traversable'[k] = {CachedTraversable(k)} /\ CachedTraversable(k) \subseteq Fields
      BY <2>1, CachedFields DEF StoreInv
    <3>2. Cardinality({CachedTraversable(k)}) = 1
      BY FS_Singleton
    <3>3. 1 <= 1
      OBVIOUS
    <3>. QED BY <3>1, <3>2, <3>3
  <2>2. CASE k \notin S
    BY <2>2 DEF StoreInv, TraversableOK
  <2>. QED BY <2>1, <2>2
<1>. QED BY <1>1 DEF TraversableOK

\* The entries appended for the next level are one deeper than this level.
LEMMA ItemsBelow ==
  ASSUME ResolverAssumption, doc \in Docs, VisitsInv, NEW w \in LevelChildren
  PROVE  WellFormed(doc.class, w) /\ Len(w.path) = depth + 1
<1>1. PICK i \in Level, n \in Nodes : w = Entry(doc.class, n, visits[i].path, visits[i].ctx)
  BY DEF LevelChildren
<1>2. i \in 1 .. Len(visits) /\ Len(visits[i].path) = depth
  BY DEF Level, LevelOf
<1>3. WellFormed(doc.class, visits[i]) /\ doc.class \in [Nodes -> Classes]
  BY <1>2, DocFacts DEF VisitsInv
<1>. QED BY <1>1, <1>2, <1>3, ChildWellFormed

\* The next level is entered.
LEMMA NextLevelStep ==
  ASSUME ResolverAssumption, TraversalInv, NEW c \in Calls, EndLevel(c), NextItems # << >>,
         EnterLevel(c, visits \o NextItems, depth + 1), UNCHANGED <<collectors, collected>>
  PROVE  Rest'
<1> DEFINE vs == visits \o NextItems
           n == Len(visits)
<1>0. /\ UNCHANGED <<doc, heap, running, latest, strays, posted, reads, collectors, collected>>
      /\ pc[c] = "resolving" /\ visits' = vs /\ depth' = depth + 1 /\ autoItems' = << >>
      /\ pc' = [pc EXCEPT ![c] = "resolving"]
  BY DEF EndLevel, EnterLevel
<1>1. c = latest /\ pc[latest] = "resolving"
  BY <1>0, ActiveIsLatest DEF TraversalInv, Active
<1>2. /\ depth \in Nat /\ posted = {} /\ reads = {} /\ autoItems \in Seq(LevelChildren)
      /\ \A i \in 1 .. n : Len(visits[i].path) <= depth
  BY <1>1 DEF TraversalInv, PhaseInv
<1>3. NextItems \in Seq(LevelChildren)
  BY <1>2, NextItemsType DEF TraversalInv, StoreInv
<1>4. PICK T : visits \in Seq(T)
  BY DEF TraversalInv, VisitsInv, IsSequence
<1>5. n \in Nat /\ Len(NextItems) \in Nat
  BY <1>3, <1>4
<1>6. /\ Len(vs) = n + Len(NextItems) /\ vs \in Seq(T \cup LevelChildren)
      /\ \A i \in 1 .. n : vs[i] = visits[i]
      /\ \A i \in n + 1 .. Len(vs) : vs[i] = NextItems[i - n] /\ i - n \in 1 .. Len(NextItems)
  <2> DEFINE m == NextItems
             S == T \cup LevelChildren
  <2>1. visits \in Seq(S) /\ m \in Seq(S)
    BY <1>3, <1>4
  <2>. HIDE DEF m, S
  <2>2. visits \o m \in Seq(S) /\ Len(visits \o m) = n + Len(m)
    BY <2>1
  <2>3. \A i \in 1 .. n : (visits \o m)[i] = visits[i]
    BY <2>1
  <2>4. \A i \in n + 1 .. n + Len(m) : (visits \o m)[i] = m[i - n] /\ i - n \in 1 .. Len(m)
    BY <2>1
  <2>. QED BY <2>2, <2>3, <2>4 DEF m, S
<1>. HIDE DEF vs
<1>7. \A i \in n + 1 .. Len(vs) : vs[i] \in LevelChildren
  BY <1>3, <1>6
<1>8. \A i \in n + 1 .. Len(vs) : WellFormed(doc.class, vs[i]) /\ Len(vs[i].path) = depth + 1
  BY <1>7, ItemsBelow DEF TraversalInv
<1>9. \A i \in 1 .. Len(vs) : i \in 1 .. n \/ i \in n + 1 .. Len(vs)
  BY <1>5, <1>6
<1>10. \A i \in 1 .. Len(vs) : WellFormed(doc.class, vs[i])
  BY <1>6, <1>8, <1>9 DEF TraversalInv, VisitsInv
<1>11. \A i \in 1 .. Len(vs) : Len(vs[i].path) <= depth + 1
  <2> TAKE i \in 1 .. Len(vs)
  <2>1. CASE i \in 1 .. n
    <3>1. vs[i].path \in Seq(Nodes) /\ vs[i] = visits[i]
      BY <1>6, <1>10, <2>1 DEF WellFormed
    <3>2. Len(vs[i].path) \in Nat /\ Len(vs[i].path) <= depth
      BY <1>2, <2>1, <3>1
    <3>. QED BY <1>2, <3>2
  <2>2. CASE i \in n + 1 .. Len(vs)
    BY <1>2, <1>8, <2>2
  <2>. QED BY <1>9, <2>1, <2>2
<1>12. StoreInv'
  <2> DEFINE S == {k \in Classes : \E i \in Level : ClassOf(visits[i].node) = k}
  <2>1. traversable' = [k \in Classes |-> IF k \in S THEN {CachedTraversable(k)} ELSE traversable[k]]
    BY DEF EndLevel
  <2>2. S \subseteq Classes
    OBVIOUS
  <2>. HIDE DEF S
  <2>3. TraversableOK'
    BY <2>1, <2>2, CacheKept DEF TraversalInv
  <2>4. EnterLevel(c, vs, depth + 1) /\ depth + 1 \in Nat /\ Len(vs) \in Nat
    BY <1>2, <1>5, <1>6 DEF vs
  <2>. QED BY <1>0, <1>10, <2>3, <2>4, EnterStore DEF TraversalInv
<1>13. VisitsInv'
  BY <1>0, <1>6, <1>10 DEF VisitsInv, IsSequence
<1>14. PhaseInv'
  <2>1. autoItems' \in Seq(LevelChildren')
    BY <1>0
  <2>2. pc'[latest'] = "resolving"
    BY <1>0, <1>1 DEF TraversalInv, GuardInv
  <2>3. depth' \in Nat /\ depth' # 0 /\ posted' = {} /\ reads' = {}
    BY <1>0, <1>2
  <2>4. \A i \in 1 .. Len(visits') : Len(visits'[i].path) <= depth'
    BY <1>0, <1>11
  <2>. QED BY <2>1, <2>2, <2>3, <2>4 DEF PhaseInv
<1>15. CollectorsInv' /\ ReadsInv'
  BY <1>0, <1>2 DEF TraversalInv, CollectorsInv, ReadsInv
<1>. QED BY <1>0, <1>12, <1>13, <1>14, <1>15 DEF Rest, TraversalInv

-----------------------------------------------------------------------------
(* Phase B.                                                                *)

\* Of some positions one is the greatest.
LEMMA GreatestNat ==
  ASSUME NEW n \in Nat, NEW I, I \subseteq 1 .. n, I # {}
  PROVE  \E i \in I : \A j \in I : j <= i
<1> DEFINE J == {n - i : i \in I}
<1>1. J \subseteq Nat /\ J # {}
  <2>1. \A i \in I : n - i \in Nat
    OBVIOUS
  <2>. QED BY <2>1
<1>2. PICK j \in J : \A k \in J : j <= k
  BY <1>1, LeastNat
<1>3. PICK i \in I : j = n - i
  BY <1>2
<1>4. \A k \in I : n - i <= n - k
  BY <1>2, <1>3
<1>. QED BY <1>4

\* Every collector a node is registered with has been made for a visit.
LEMMA CollectorsMade ==
  ASSUME ResolverAssumption, doc \in Docs, VisitsInv
  PROVE  /\ DOMAIN NodeCollectors(visits) \subseteq Nodes
         /\ \A n \in DOMAIN NodeCollectors(visits) : \A a \in DOMAIN NodeCollectors(visits)[n] :
              NodeCollectors(visits)[n][a]
                \in UNION {{Own(visits, i)[a2] : a2 \in Collects(visits[i])} : i \in 1 .. Len(visits)}
<1> DEFINE C == {i \in 1 .. Len(visits) : Collects(visits[i]) # {}}
           N == {visits[i].node : i \in C}
           Last(n) == CHOOSE i \in C : visits[i].node = n
                                       /\ \A k \in C : visits[k].node = n => k <= i
<1>1. NodeCollectors(visits) = [n \in N |-> Own(visits, Last(n))]
  BY DEF NodeCollectors
<1>2. N \subseteq Nodes
  BY VisitNode
<1>3. Len(visits) \in Nat
  BY LevelIndices
<1>4. ASSUME NEW n \in N
      PROVE  Last(n) \in C
  <2> DEFINE I == {i \in C : visits[i].node = n}
  <2>1. I \subseteq 1 .. Len(visits) /\ I # {}
    OBVIOUS
  <2>2. \E i \in I : \A k \in I : k <= i
    <3>. HIDE DEF I
    <3>. QED BY <1>3, <2>1, GreatestNat
  <2>3. \E i \in C : visits[i].node = n /\ \A k \in C : visits[k].node = n => k <= i
    BY <2>2
  <2>. QED BY <2>3
<1>5. \A i \in C : i \in 1 .. Len(visits) /\ DOMAIN Own(visits, i) = Collects(visits[i])
  BY DEF Own
<1>. HIDE DEF C, N, Last
<1>. QED BY <1>1, <1>2, <1>4, <1>5

\* No node is left: the collectors are made and the deepest level is posted.
LEMMA PostingStep ==
  ASSUME ResolverAssumption, TraversalInv, NEW c \in Calls, EndLevel(c),
         visits' = LET snaps == Snapshots(visits)
                   IN [i \in 1 .. Len(visits) |-> [visits[i] EXCEPT !.snap = snaps[i]]],
         collectors' = NodeCollectors(visits),
         collected' = [s \in UNION {{Own(visits, i)[a] : a \in Collects(visits[i])} :
                                      i \in 1 .. Len(visits)} |-> << >>],
         pc' = [pc EXCEPT ![c] = "posting"], depth' = FirstPosted, UNCHANGED <<jobs, phaseA>>
  PROVE  Rest'
<1>0. /\ UNCHANGED <<doc, heap, running, latest, strays, posted, reads>> /\ pc[c] = "resolving"
      /\ depth' = depth
  BY DEF EndLevel, FirstPosted
<1>1. c = latest /\ pc[latest] = "resolving"
  BY <1>0, ActiveIsLatest DEF TraversalInv, Active
<1>2. /\ depth \in Nat /\ depth # 0 /\ posted = {} /\ reads = {}
      /\ \A i \in 1 .. Len(visits) : Len(visits[i].path) <= depth
  BY <1>1 DEF TraversalInv, PhaseInv
<1>3. Len(visits) \in Nat /\ \A i \in 1 .. Len(visits) : WellFormed(doc.class, visits[i])
  BY LevelIndices DEF TraversalInv, VisitsInv
<1> DEFINE vs == [i \in 1 .. Len(visits) |-> [visits[i] EXCEPT !.snap = Snapshots(visits)[i]]]
<1>4. visits' = vs
  OBVIOUS
<1>5. IsSequence(vs) /\ Len(vs) = Len(visits)
  <2>1. vs = [i \in 1 .. Len(visits) |-> vs[i]]
    OBVIOUS
  <2>. HIDE DEF vs
  <2>. QED BY <1>3, <2>1, FunctionIsSequence
<1>6. \A i \in 1 .. Len(visits) :
         /\ DOMAIN vs[i] = DOMAIN visits[i] /\ vs[i].node = visits[i].node
         /\ vs[i].path = visits[i].path /\ vs[i].seen = visits[i].seen
         /\ vs[i].ctx = visits[i].ctx
  BY <1>3 DEF WellFormed
<1>. HIDE DEF vs
<1>7. VisitsInv'
  <2>1. \A i \in 1 .. Len(vs) : WellFormed(doc.class, vs[i])
    BY <1>3, <1>5, <1>6 DEF WellFormed
  <2>. QED BY <1>0, <1>4, <1>5, <2>1 DEF VisitsInv
<1>8. StoreInv'
  <2> DEFINE S == {k \in Classes : \E i \in Level : ClassOf(visits[i].node) = k}
  <2>1. traversable' = [k \in Classes |-> IF k \in S THEN {CachedTraversable(k)} ELSE traversable[k]]
    BY DEF EndLevel
  <2>2. S \subseteq Classes
    OBVIOUS
  <2>. HIDE DEF S
  <2>3. TraversableOK'
    BY <2>1, <2>2, CacheKept DEF TraversalInv
  <2>. QED BY <1>0, <2>3 DEF TraversalInv, StoreInv, phaseA
<1>9. CollectorsInv'
  BY <1>0, CollectorsMade DEF TraversalInv, CollectorsInv
<1>10. PhaseInv'
  <2>1. pc'[latest'] = "posting"
    BY <1>0, <1>1 DEF TraversalInv, GuardInv
  <2>2. \A i \in 1 .. Len(vs) : ~(Len(vs[i].path) > depth)
    <3> TAKE i \in 1 .. Len(vs)
    <3>1. vs[i].path = visits[i].path /\ i \in 1 .. Len(visits)
      BY <1>5, <1>6
    <3>2. Len(visits[i].path) \in Nat /\ Len(visits[i].path) <= depth
      BY <1>2, <1>3, <3>1 DEF WellFormed
    <3>. QED BY <1>2, <3>1, <3>2
  <2>. QED BY <1>0, <1>2, <1>4, <2>1, <2>2 DEF PhaseInv
<1>11. ReadsInv'
  BY <1>0, <1>2 DEF ReadsInv
<1>. QED BY <1>0, <1>7, <1>8, <1>9, <1>10, <1>11 DEF Rest, TraversalInv

\* Posts and handlers read when the levels below theirs have been posted.
LEMMA ReadsStep ==
  ASSUME TraversalInv, pc[latest] \in {"posting", "handling"}, NEW I, I \subseteq Level,
         reads' = reads \cup {Read(i) : i \in I}, visits' = visits
  PROVE  ReadsInv'
<1>1. posted = {j \in 1 .. Len(visits) : Len(visits[j].path) > depth}
  BY DEF TraversalInv, PhaseInv
<1>2. ASSUME NEW i \in I
      PROVE  Read(i).visit \in 1 .. Len(visits) /\ Read(i).after = Deeper(Read(i).visit)
  <2>1. i \in 1 .. Len(visits) /\ Len(visits[i].path) = depth
    BY DEF Level, LevelOf
  <2>. QED BY <1>1, <2>1 DEF Read, Deeper
<1>3. \A r \in reads' : r \in reads \/ \E i \in I : r = Read(i)
  OBVIOUS
<1>4. \A r \in reads' : r.visit \in 1 .. Len(visits) /\ r.after = Deeper(r.visit)
  BY <1>2, <1>3 DEF TraversalInv, ReadsInv
<1>. QED BY <1>4 DEF ReadsInv, Deeper

\* Reading a collector and posting a level leave the tree as it is.
LEMMA RunPostsStep ==
  ASSUME TraversalInv, NEW c \in Calls, RunPosts(c)
  PROVE  Rest'
<1>1. /\ UNCHANGED <<doc, heap, traversable, running, latest, strays, visits, depth, jobs, phaseA,
                     collectors, collected, posted>>
      /\ pc' = [pc EXCEPT ![c] = "handling"] /\ pc[c] = "posting"
  BY DEF RunPosts
<1>2. c = latest
  BY <1>1, ActiveIsLatest DEF TraversalInv, Active
<1>3. pc'[latest'] = "handling" /\ pc[latest] = "posting"
  BY <1>1, <1>2 DEF TraversalInv, GuardInv
<1>4. ReadsInv'
  <2> DEFINE I == {k \in Level : Desc[ClassOf(visits[k].node)].posts}
  <2>1. reads' = reads \cup {Read(i) : i \in I} /\ I \subseteq Level
    BY DEF RunPosts
  <2>. HIDE DEF I
  <2>. QED BY <1>1, <1>3, <2>1, ReadsStep
<1>5. StoreInv'
  BY <1>1 DEF TraversalInv, StoreInv, TraversableOK, phaseA
<1>6. CollectorsInv' /\ VisitsInv'
  BY <1>1 DEF TraversalInv, CollectorsInv, VisitsInv, IsSequence
<1>7. PhaseInv'
  BY <1>1, <1>3 DEF TraversalInv, PhaseInv
<1>. QED BY <1>1, <1>4, <1>5, <1>6, <1>7 DEF Rest, TraversalInv

\* The level is posted: what is left lies above it.
LEMMA EndPostsStep ==
  ASSUME TraversalInv, NEW c \in Calls, EndPosts(c)
  PROVE  Rest'
<1>1. /\ UNCHANGED <<doc, heap, traversable, latest, strays, visits, jobs, phaseA>>
      /\ pc[c] = "handling" /\ posted' = posted \cup Level /\ depth' = depth - 1
      /\ DOMAIN collected' = DOMAIN collected
  BY DEF EndPosts
<1>2. c = latest /\ pc[latest] = "handling"
  BY <1>1, ActiveIsLatest DEF TraversalInv, Active
<1>3. /\ depth \in Nat /\ depth # 0
      /\ posted = {i \in 1 .. Len(visits) : Len(visits[i].path) > depth}
  BY <1>2 DEF TraversalInv, PhaseInv
<1>4. ReadsInv'
  <2> DEFINE I == {k \in Level : Desc[ClassOf(visits[k].node)].handler}
  <2>1. reads' = reads \cup {Read(i) : i \in I} /\ I \subseteq Level
    BY DEF EndPosts
  <2>. HIDE DEF I
  <2>. QED BY <1>1, <1>2, <2>1, ReadsStep
<1>5. StoreInv'
  BY <1>1 DEF TraversalInv, StoreInv, TraversableOK, phaseA
<1>6. VisitsInv'
  BY <1>1 DEF TraversalInv, VisitsInv, IsSequence
<1>7. CollectorsInv'
  <2>1. DOMAIN collectors' \subseteq DOMAIN collectors
        /\ \A n \in DOMAIN collectors' : collectors'[n] = collectors[n]
    BY DEF EndPosts
  <2>2. running' \in BOOLEAN /\ (running' => running)
    BY DEF EndPosts, Leave, TraversalInv, CollectorsInv
  <2>. QED BY <1>1, <2>1, <2>2 DEF TraversalInv, CollectorsInv
<1>8. PhaseInv'
  <2>1. \A i \in 1 .. Len(visits) : Len(visits[i].path) \in Nat
    BY DEF TraversalInv, VisitsInv, WellFormed
  <2>2. posted' = {i \in 1 .. Len(visits) : Len(visits[i].path) > depth - 1}
    BY <1>1, <1>3, <2>1 DEF Level, LevelOf
  <2>3. depth' \in Nat /\ posted' \subseteq 1 .. Len(visits')
    BY <1>1, <1>3, <2>2
  <2>4. CASE depth = 1
    <3>1. pc'[latest'] = "done"
      BY <1>1, <1>2, <2>4 DEF EndPosts, Leave, TraversalInv, GuardInv
    <3>. QED BY <2>3, <3>1 DEF PhaseInv
  <2>5. CASE depth # 1
    <3>1. pc'[latest'] = "posting"
      BY <1>1, <1>2, <2>5 DEF EndPosts, TraversalInv, GuardInv
    <3>2. depth' # 0
      BY <1>1, <1>3, <2>5
    <3>. QED BY <1>1, <2>2, <2>3, <3>1, <3>2 DEF PhaseInv
  <2>. QED BY <2>4, <2>5
<1>. QED BY <1>1, <1>4, <1>5, <1>6, <1>7, <1>8 DEF Rest, TraversalInv

-----------------------------------------------------------------------------
(* Every step keeps the invariant.                                         *)

\* Every step keeps what TraversalInv says beside the guard.
LEMMA RestStep ==
  ASSUME ResolverAssumption, TraversalInv, [Next]_vars
  PROVE  Rest'
<1>1. ASSUME NEW c \in Calls, Begin(c)
      PROVE  Rest'
  BY <1>1, BeginStep
<1>2. ASSUME NEW c \in Calls, Refuse(c)
      PROVE  Rest'
  <2>1. /\ UNCHANGED <<doc, heap, traversable, running, latest, strays, visits, depth, jobs,
                       phaseA, phaseB>>
        /\ pc[c] = "idle" /\ pc' = [pc EXCEPT ![c] = "refused"]
    BY <1>2 DEF Refuse
  <2>2. StoreInv' /\ CollectorsInv'
    BY <2>1 DEF TraversalInv, StoreInv, TraversableOK, CollectorsInv, phaseA, phaseB
  <2>3. VisitsInv' /\ ReadsInv'
    BY <2>1, VisitsFrame DEF TraversalInv, phaseB
  <2>4. LevelChildren' = LevelChildren
    BY <2>1 DEF LevelChildren, Level, LevelOf
  <2>5. pc'[latest'] = pc[latest] \/ pc'[latest'] = "refused"
    BY <2>1 DEF TraversalInv, GuardInv
  <2>6. PhaseInv'
    BY <2>1, <2>4, <2>5 DEF TraversalInv, PhaseInv, phaseA, phaseB
  <2>. QED BY <2>1, <2>2, <2>3, <2>6 DEF Rest, TraversalInv
<1>3. ASSUME NEW c \in Calls, Cancel(c)
      PROVE  Rest'
  <2>1. pc[c] \in Active /\ Leave(c, "cancelled") /\ jobs' \subseteq jobs
        /\ UNCHANGED <<doc, heap, traversable, latest, strays, visits, depth, phaseA, phaseB>>
    BY <1>3 DEF Cancel, Active
  <2>. QED BY <2>1, FailureStep DEF Rest
<1>4. ASSUME NEW c \in Calls, NEW k \in Classes, NEW f \in Fields, AutoLoadGroup(c, <<k, f>>)
      PROVE  Rest'
  BY <1>4, LoadGroupStep
<1>5. ASSUME NEW c \in Calls, AutoLoadRaises(c) \/ PostRaises(c)
      PROVE  Rest'
  <2>1. pc[c] \in Active /\ Leave(c, "failed") /\ jobs' \subseteq jobs
        /\ UNCHANGED <<doc, heap, traversable, latest, strays, visits, depth, phaseA, phaseB>>
    BY <1>5 DEF AutoLoadRaises, PostRaises, Active
  <2>. QED BY <2>1, FailureStep DEF Rest
<1>6. ASSUME NEW c \in Calls, EndLevel(c)
      PROVE  Rest'
  <2>1. CASE NextItems # << >> /\ EnterLevel(c, visits \o NextItems, depth + 1)
             /\ UNCHANGED <<collectors, collected>>
    BY <1>6, <2>1, NextLevelStep
  <2>2. CASE /\ visits' = LET snaps == Snapshots(visits)
                          IN [i \in 1 .. Len(visits) |-> [visits[i] EXCEPT !.snap = snaps[i]]]
             /\ collectors' = NodeCollectors(visits)
             /\ collected' = [s \in UNION {{Own(visits, i)[a] : a \in Collects(visits[i])} :
                                             i \in 1 .. Len(visits)} |-> << >>]
             /\ pc' = [pc EXCEPT ![c] = "posting"]
             /\ depth' = FirstPosted
             /\ UNCHANGED <<jobs, phaseA>>
    BY <1>6, <2>2, PostingStep
  <2>. QED BY <1>6, <2>1, <2>2 DEF EndLevel
<1>7. ASSUME NEW c \in Calls, RunPosts(c)
      PROVE  Rest'
  BY <1>7, RunPostsStep
<1>8. ASSUME NEW c \in Calls, EndPosts(c)
      PROVE  Rest'
  BY <1>8, EndPostsStep
<1>9. ASSUME NEW j \in jobs, ResolveReturns(j)
      PROVE  Rest'
  BY <1>9, ReturnStep
<1>10. ASSUME NEW j \in jobs, ResolveRaises(j)
       PROVE  Rest'
  <2>1. j.call \in Calls
    BY DEF TraversalInv, GuardInv
  <2>2. CASE pc[j.call] = "resolving"
    <3>1. pc[j.call] \in Active /\ Leave(j.call, "failed") /\ jobs' \subseteq jobs
          /\ UNCHANGED <<doc, heap, traversable, latest, strays, visits, depth, phaseA, phaseB>>
      BY <1>10, <2>2 DEF ResolveRaises, Active
    <3>. QED BY <2>1, <3>1, FailureStep DEF Rest
  <2>3. CASE pc[j.call] # "resolving"
    <3>1. jobs' \subseteq jobs /\ UNCHANGED <<doc, heap, traversable, running, pc, latest, strays,
                                              visits, depth, phaseA, phaseB>>
      BY <1>10, <2>3 DEF ResolveRaises
    <3>2. StoreInv' /\ CollectorsInv'
      BY <3>1 DEF TraversalInv, StoreInv, TraversableOK, CollectorsInv, phaseA, phaseB
    <3>3. VisitsInv' /\ ReadsInv'
      BY <3>1, VisitsFrame DEF TraversalInv, phaseB
    <3>4. PhaseInv'
      BY <3>1 DEF TraversalInv, PhaseInv, LevelChildren, Level, LevelOf, phaseA, phaseB
    <3>. QED BY <3>1, <3>2, <3>3, <3>4 DEF Rest, TraversalInv
  <2>. QED BY <2>2, <2>3
<1>11. CASE UNCHANGED vars
  <2>1. UNCHANGED <<doc, heap, traversable, running, pc, latest, strays,
                    visits, depth, jobs, phaseA, phaseB>>
    BY <1>11 DEF vars, phaseA, phaseB
  <2>2. StoreInv' /\ CollectorsInv'
    BY <2>1 DEF TraversalInv, StoreInv, TraversableOK, CollectorsInv, phaseA, phaseB
  <2>3. VisitsInv' /\ ReadsInv'
    BY <2>1, VisitsFrame DEF TraversalInv, phaseB
  <2>4. PhaseInv'
    BY <2>1 DEF TraversalInv, PhaseInv, LevelChildren, Level, LevelOf, phaseA, phaseB
  <2>. QED BY <2>1, <2>2, <2>3, <2>4 DEF Rest, TraversalInv
<1>. QED
  BY <1>1, <1>2, <1>3, <1>4, <1>5, <1>6, <1>7, <1>8, <1>9, <1>10, <1>11 DEF Next, Settle

\* Initially nothing is visited.  The class-level cache may have been filled by
\* a Resolver without a registry.
LEMMA TraversalInit ==
  ASSUME ResolverAssumption, Calls # {}, Init
  PROVE  TraversalInv
<1>1. doc \in Docs /\ heap \in [Nodes -> [Fields -> Values]]
  BY DEF Init, ResolverAssumption
<1>2. (CHOOSE c \in Calls : TRUE) \in Calls
  OBVIOUS
<1>3. GuardInv
  BY <1>2 DEF Init, GuardInv, GuardIsTheRunningCall
<1>4. TraversableOK
  <2>1. \A k \in Classes : Cardinality({TraversableFields(k, FALSE)}) = 1
    BY FS_Singleton
  <2>2. Cardinality({}) = 0
    BY FS_EmptySet
  <2>3. 1 <= 1 /\ 0 <= 1
    OBVIOUS
  <2>4. ASSUME NEW k \in Classes
        PROVE  traversable[k] \subseteq SUBSET Fields /\ Cardinality(traversable[k]) <= 1
    <3>1. TraversableFields(k, FALSE) \subseteq Fields
      BY ClassFields
    <3>2. traversable[k] = IF k \in doc.scannedBefore THEN {TraversableFields(k, FALSE)} ELSE {}
      BY DEF Init
    <3>. QED BY <2>1, <2>2, <2>3, <3>1, <3>2
  <2>. QED BY <2>4 DEF TraversableOK
<1>5. StoreInv /\ CollectorsInv
  <2>1. jobs = {} /\ outputs = << >> /\ autoLeft = {} /\ loaded = {} /\ strays = {}
        /\ running = FALSE /\ collectors = << >>
    BY DEF Init, Empty
  <2>2. StoreInv
    BY <1>1, <1>4, <2>1 DEF StoreInv
  <2>3. CollectorsInv
    <3>1. DOMAIN collectors = {}
      BY <2>1
    <3>. QED BY <2>1, <3>1 DEF CollectorsInv
  <2>. QED BY <2>2, <2>3
<1>6. VisitsInv /\ ReadsInv
  <2>1. visits \in Seq({}) /\ Len(visits) = 0 /\ reads = {}
    BY DEF Init
  <2>. QED BY <2>1 DEF VisitsInv, ReadsInv, IsSequence
<1>7. PhaseInv
  BY <1>2 DEF Init, PhaseInv
<1>. QED BY <1>1, <1>3, <1>5, <1>6, <1>7 DEF TraversalInv

\* TraversalInv holds throughout.
LEMMA TraversalInvariant ==
  ASSUME ResolverAssumption, Calls # {}
  PROVE  Spec => []TraversalInv
<1>1. TraversalInv /\ [Next]_vars => TraversalInv'
  <2> SUFFICES ASSUME TraversalInv, [Next]_vars PROVE TraversalInv'
    OBVIOUS
  <2>1. GuardInv'
    BY GuardStep DEF TraversalInv
  <2>2. Rest'
    BY RestStep
  <2>. QED BY <2>1, <2>2 DEF TraversalInv, Rest
<1>2. Init => TraversalInv
  BY TraversalInit
<1>. QED BY <1>1, <1>2, PTL DEF Spec

\* The heap holds node values in every field, a class has at most one cached
\* set of fields, coroutines and groups name nodes and fields of the document,
\* and while a call runs every collector a node is registered with exists.
THEOREM TypeCorrect ==
  ASSUME ResolverAssumption, Calls # {}
  PROVE  Spec => []TypeOK
<1>1. TraversalInv => TypeOK
  <2> SUFFICES ASSUME TraversalInv PROVE TypeOK
    OBVIOUS
  <2>1. doc.calls \subseteq Calls
    BY DocFacts DEF TraversalInv
  <2>2. pc \in [Calls -> {"idle", "resolving", "posting", "handling", "done", "failed",
                          "cancelled", "refused"}] /\ latest \in Calls
    BY DEF TraversalInv, GuardInv, Active, Ended
  <2>3. \A i \in 1 .. Len(visits) : /\ visits[i].node = visits[i].path[Len(visits[i].path)]
                                    /\ visits[i].path \in Seq(Nodes)
    BY DEF TraversalInv, VisitsInv, WellFormed
  <2>. QED
    BY <2>1, <2>2, <2>3 DEF TypeOK, TraversalInv, StoreInv, TraversableOK, CollectorsInv, PhaseInv
<1>. QED BY <1>1, TraversalInvariant, PTL

\* ExposeAs: a method sees under each alias the nearest node above its own that
\* exposes the alias, and under no other alias anything.
THEOREM NearestAncestorHolds ==
  ASSUME ResolverAssumption, Calls # {}
  PROVE  Spec => []NearestAncestorIsExposed
<1>1. TraversalInv => NearestAncestorIsExposed
  BY DEF TraversalInv, VisitsInv, WellFormed, Nearest, Exposing, NearestAncestorIsExposed, ClassOf
<1>. QED BY <1>1, TraversalInvariant, PTL

\* Bottom-up: what a post_* method or handler reads was written when every
\* descendant of its node had been posted.
THEOREM PostsFollow ==
  ASSUME ResolverAssumption, Calls # {}
  PROVE  Spec => []PostsAfterDescendants
<1>1. TraversalInv => PostsAfterDescendants
  BY DEF TraversalInv, ReadsInv, Deeper, PostsAfterDescendants, Under
<1>. QED BY <1>1, TraversalInvariant, PTL

-----------------------------------------------------------------------------
(* Collectors.  In a tree whose nodes are not shared, a value is received   *)
(* by the nearest visit at or above its sender that collects its alias.     *)

\* Every visit below the first level was appended for an earlier one.
Parented(vs) ==
  \A j \in 1 .. Len(vs) : Len(vs[j].path) = 1 \/
    \E p \in 1 .. j - 1 : vs[j].path = Append(vs[p].path, vs[j].node)

Unshared(vs) == \A i, j \in 1 .. Len(vs) : vs[i].node = vs[j].node => i = j

Above(vs, i, j) == /\ Len(vs[i].path) < Len(vs[j].path)
                   /\ SubSeq(vs[j].path, 1, Len(vs[i].path)) = vs[i].path
AtOrAbove(vs, i, j) == i = j \/ Above(vs, i, j)

CollectedBy(class, v) == Desc[class[v.node]].collects

Receives(class, vs, i, a, j) ==
  /\ AtOrAbove(vs, i, j) /\ a \in CollectedBy(class, vs[i])
  /\ \A k \in 1 .. Len(vs) :
       Above(vs, i, k) /\ AtOrAbove(vs, k, j) => a \notin CollectedBy(class, vs[k])

Sends(class, h, v, a) ==
  LET k == Desc[class[v.node]]
  IN /\ a \in DOMAIN k.sends
     /\ ~(k.sends[a] # Scalar /\ k.fields[k.sends[a]].one /\ h[v.node][k.sends[a]] = << >>)

\* The snapshot of a visit maps an alias to the collector that receives it.
Snapped(class, vs) ==
  \A j \in 1 .. Len(vs) :
    /\ \A a \in DOMAIN vs[j].snap : \E i \in 1 .. Len(vs) :
         vs[j].snap[a] = <<i, a>> /\ Receives(class, vs, i, a, j)
    /\ \A i \in 1 .. Len(vs) : \A a \in CollectedBy(class, vs[i]) :
         Receives(class, vs, i, a, j) => a \in DOMAIN vs[j].snap /\ vs[j].snap[a] = <<i, a>>

\* s holds the elements of D, each once.
Lists(s, D) == /\ s \in Seq(D)
               /\ \A x \in D : \E k \in 1 .. Len(s) : s[k] = x
               /\ \A k, l \in 1 .. Len(s) : s[k] = s[l] => k = l

\* What a collector is due from visits deeper than d.
Due(class, h, vs, d, i, a) ==
  {j \in 1 .. Len(vs) : /\ Len(vs[j].path) > d
                        /\ Receives(class, vs, i, a, j) /\ Sends(class, h, vs[j], a)}

\* While levels are posted, collectors hold what has been sent below the level,
\* and the nodes of the levels still to be posted find theirs.
Collecting(class, h, vs, d, held, registered) ==
  \A i \in 1 .. Len(vs) : \A a \in CollectedBy(class, vs[i]) :
    /\ <<i, a>> \in DOMAIN held /\ Lists(held[<<i, a>>], Due(class, h, vs, d, i, a))
    /\ Len(vs[i].path) <= d =>
         /\ vs[i].node \in DOMAIN registered
         /\ registered[vs[i].node] = [b \in CollectedBy(class, vs[i]) |-> <<i, b>>]

PostingCollect ==
  Unshared(visits) /\ pc[latest] \in {"posting", "handling"} =>
    /\ Snapped(doc.class, visits)
    /\ strays = {} => Collecting(doc.class, heap, visits, depth, collected, collectors)

ReadComplete(r) ==
  \A a \in DOMAIN r.got :
    /\ a \in CollectedBy(doc.class, visits[r.visit])
    /\ Lists(r.got[a], Due(doc.class, heap, visits, Len(visits[r.visit].path), r.visit, a))

ReadsComplete == Unshared(visits) /\ strays = {} => \A r \in reads : ReadComplete(r)

CollectInv == Parented(visits) /\ PostingCollect /\ ReadsComplete

\* The recursion of Snapshots, step by step.
SnapStep(f, i) ==
  LET above == Len(visits[i].path) - 1
      entries == {k \in 1 .. i - 1 : /\ above > 0
                                     /\ visits[k].node = visits[i].path[above]
                                     /\ DOMAIN f[k] # {}}
  IN Over(Own(visits, i), IF entries = {} THEN Empty
                          ELSE f[CHOOSE k \in entries : \A l \in entries : l <= k])

\* A step of the recursion reads earlier positions only.
LEMMA SnapStepAgrees ==
  ASSUME NEW i \in Nat \ {0}, NEW f, NEW g, \A k \in 1 .. i - 1 : f[k] = g[k]
  PROVE  SnapStep(f, i) = SnapStep(g, i)
<1> DEFINE above == Len(visits[i].path) - 1
           Es(h) == {k \in 1 .. i - 1 : /\ above > 0
                                        /\ visits[k].node = visits[i].path[above]
                                        /\ DOMAIN h[k] # {}}
           last == CHOOSE k \in Es(f) : \A l \in Es(f) : l <= k
<1>1. Es(f) = Es(g)
  OBVIOUS
<1>2. CASE Es(f) = {}
  BY <1>1, <1>2 DEF SnapStep
<1>3. CASE Es(f) # {}
  <2>1. last \in 1 .. i - 1
    <3>1. i - 1 \in Nat /\ Es(f) \subseteq 1 .. i - 1
      OBVIOUS
    <3>. HIDE DEF Es
    <3>2. \E k \in Es(f) : \A l \in Es(f) : l <= k
      BY <1>3, <3>1, GreatestNat
    <3>. QED BY <3>1, <3>2
  <2>2. f[last] = g[last]
    <3>. HIDE DEF last
    <3>. QED BY <2>1
  <2>3. SnapStep(f, i) = Over(Own(visits, i), f[last])
    BY <1>3 DEF SnapStep
  <2>4. SnapStep(g, i) = Over(Own(visits, i), g[CHOOSE k \in Es(g) : \A l \in Es(g) : l <= k])
    BY <1>1, <1>3 DEF SnapStep
  <2>5. (CHOOSE k \in Es(g) : \A l \in Es(g) : l <= k) = last
    <3>. HIDE DEF Es
    <3>. QED BY <1>1
  <2>. HIDE DEF last, Es
  <2>. QED BY <2>2, <2>3, <2>4, <2>5
<1>. QED BY <1>2, <1>3

\* Snapshots satisfies its recursion.
LEMMA SnapFunction ==
  ASSUME VisitsInv
  PROVE  \A i \in 1 .. Len(visits) : Snapshots(visits)[i] = SnapStep(Snapshots(visits), i)
<1> DEFINE n == Len(visits)
           Is(f, m) == f = [i \in 1 .. m |-> SnapStep(f, i)]
           Bad == {m \in 0 .. n : ~\E f : Is(f, m)}
<1>1. n \in Nat
  BY LevelIndices
<1>. HIDE DEF n
<1>2. Bad = {}
  <2> SUFFICES ASSUME Bad # {} PROVE FALSE
    OBVIOUS
  <2>1. PICK m \in Bad : \A k \in Bad : m <= k
    <3>1. Bad \subseteq Nat /\ Bad # {}
      BY <1>1
    <3>. HIDE DEF Bad
    <3>. QED BY <3>1, LeastNat
  <2>2. m \in 0 .. n /\ ~\E f : Is(f, m)
    OBVIOUS
  <2>3. CASE m = 0
    <3>1. Is(<< >>, 0)
      OBVIOUS
    <3>. QED BY <2>2, <2>3, <3>1
  <2>4. CASE m # 0
    <3>1. m - 1 \in 0 .. n /\ m - 1 \notin Bad /\ m \in Nat \ {0}
      <4>. HIDE DEF Bad
      <4>. QED BY <1>1, <2>1, <2>2, <2>4
    <3>2. PICK f : Is(f, m - 1)
      BY <3>1
    <3> DEFINE g == [i \in 1 .. m |-> SnapStep(f, i)]
    <3>3. \A i \in 1 .. m - 1 : f[i] = SnapStep(f, i)
      BY <3>1, <3>2
    <3>4. \A i \in 1 .. m - 1 : g[i] = f[i]
      <4>1. \A i \in 1 .. m - 1 : i \in 1 .. m
        BY <3>1
      <4>. QED BY <3>3, <4>1
    <3>5. ASSUME NEW i \in 1 .. m
          PROVE  SnapStep(f, i) = SnapStep(g, i)
      <4>1. i \in Nat \ {0} /\ \A k \in 1 .. i - 1 : k \in 1 .. m - 1
        BY <3>1
      <4>. HIDE DEF g
      <4>2. \A k \in 1 .. i - 1 : f[k] = g[k]
        BY <3>4, <4>1
      <4>. QED BY <4>1, <4>2, SnapStepAgrees
    <3>6. Is(g, m)
      BY <3>5
    <3>. QED BY <2>2, <3>6
  <2>. QED BY <2>3, <2>4
<1>3. \E f : Is(f, n)
  <2>1. n \in 0 .. n
    BY <1>1
  <2>. QED BY <1>2, <2>1
<1> DEFINE h == CHOOSE f : f = [i \in 1 .. n |->
             LET above == Len(visits[i].path) - 1
                 entries == {k \in 1 .. i - 1 : /\ above > 0
                                                /\ visits[k].node = visits[i].path[above]
                                                /\ DOMAIN f[k] # {}}
             IN Over(Own(visits, i), IF entries = {} THEN Empty
                                     ELSE f[CHOOSE k \in entries : \A l \in entries : l <= k])]
<1>4. Is(h, n)
  BY <1>3 DEF SnapStep
<1>5. Snapshots(visits) = [i \in 1 .. n |-> h[i]]
  BY DEF Snapshots, n
<1>. HIDE DEF h
<1>6. Snapshots(visits) = h
  BY <1>4, <1>5
<1>7. \A i \in 1 .. n : h[i] = SnapStep(h, i)
  BY <1>4
<1>. QED BY <1>6, <1>7 DEF n

Pathed(vs) ==
  /\ Len(vs) \in Nat
  /\ \A i \in 1 .. Len(vs) : /\ vs[i].path \in Seq(Nodes) /\ Len(vs[i].path) \in Nat \ {0}
                             /\ vs[i].node = vs[i].path[Len(vs[i].path)]

\* The first n elements of a path and of the path one longer.
LEMMA PathPrefix ==
  ASSUME NEW T, NEW p \in Seq(T), NEW x \in T
  PROVE  /\ Append(p, x) \in Seq(T) /\ Len(Append(p, x)) = Len(p) + 1
         /\ \A n \in 0 .. Len(p) : SubSeq(Append(p, x), 1, n) = SubSeq(p, 1, n)
         /\ SubSeq(p, 1, Len(p)) = p
<1>1. Append(p, x) \in Seq(T) /\ Len(Append(p, x)) = Len(p) + 1 /\ Len(p) \in Nat
      /\ \A k \in 1 .. Len(p) : Append(p, x)[k] = p[k]
  OBVIOUS
<1>2. ASSUME NEW n \in 0 .. Len(p)
      PROVE  SubSeq(Append(p, x), 1, n) = SubSeq(p, 1, n)
  <2> DEFINE q == Append(p, x)
  <2>1. q \in Seq(T) /\ Len(q) = Len(p) + 1 /\ \A k \in 1 .. n : q[k] = p[k]
    BY <1>1
  <2>. HIDE DEF q
  <2>2. SubSeq(q, 1, n) = [k \in 1 .. n |-> q[k]]
    BY <1>1, <2>1
  <2>3. SubSeq(p, 1, n) = [k \in 1 .. n |-> p[k]]
    BY <1>1
  <2>. QED BY <2>1, <2>2, <2>3 DEF q
<1>3. SubSeq(p, 1, Len(p)) = p
  OBVIOUS
<1>. QED BY <1>1, <1>2, <1>3

\* Above a visit stand its parent and what stands above that.
LEMMA AboveParent ==
  ASSUME NEW vs, Pathed(vs), Unshared(vs), NEW j \in 1 .. Len(vs), NEW p \in 1 .. Len(vs),
         vs[j].path = Append(vs[p].path, vs[j].node), NEW i \in 1 .. Len(vs)
  PROVE  Above(vs, i, j) <=> AtOrAbove(vs, i, p)
<1> DEFINE pi == vs[i].path
           pp == vs[p].path
           pj == vs[j].path
<1>1. /\ pi \in Seq(Nodes) /\ pp \in Seq(Nodes) /\ Len(pi) \in Nat \ {0} /\ Len(pp) \in Nat \ {0}
      /\ vs[i].node = pi[Len(pi)] /\ vs[p].node = pp[Len(pp)] /\ pj = Append(pp, vs[j].node)
      /\ vs[j].node \in Nodes
  BY DEF Pathed
<1>. HIDE DEF pi, pp, pj
<1>2. /\ Len(pj) = Len(pp) + 1 /\ SubSeq(pp, 1, Len(pp)) = pp /\ SubSeq(pi, 1, Len(pi)) = pi
      /\ \A n \in 0 .. Len(pp) : SubSeq(pj, 1, n) = SubSeq(pp, 1, n)
  BY <1>1, PathPrefix
<1>3. ASSUME Len(pi) < Len(pj), SubSeq(pj, 1, Len(pi)) = pi
      PROVE  i = p \/ (Len(pi) < Len(pp) /\ SubSeq(pp, 1, Len(pi)) = pi)
  <2>1. Len(pi) \in 0 .. Len(pp)
    BY <1>1, <1>2, <1>3
  <2>2. SubSeq(pp, 1, Len(pi)) = pi
    BY <1>2, <1>3, <2>1
  <2>3. CASE Len(pi) = Len(pp)
    <3>1. pi = pp
      BY <1>2, <2>2, <2>3
    <3>2. vs[i].node = vs[p].node
      BY <1>1, <3>1
    <3>. QED BY <3>2 DEF Unshared
  <2>. QED BY <1>1, <2>1, <2>2, <2>3
<1>4. ASSUME i = p \/ (Len(pi) < Len(pp) /\ SubSeq(pp, 1, Len(pi)) = pi)
      PROVE  Len(pi) < Len(pj) /\ SubSeq(pj, 1, Len(pi)) = pi
  <2>1. CASE i = p
    <3>1. pi = pp
      BY <2>1 DEF pi, pp
    <3>2. Len(pp) \in 0 .. Len(pp)
      BY <1>1
    <3>. QED BY <1>1, <1>2, <3>1, <3>2
  <2>2. CASE Len(pi) < Len(pp) /\ SubSeq(pp, 1, Len(pi)) = pi
    <3>1. Len(pi) \in 0 .. Len(pp)
      BY <1>1, <2>2
    <3>. QED BY <1>1, <1>2, <2>2, <3>1
  <2>. QED BY <1>4, <2>1, <2>2
<1>5. Above(vs, i, j) <=> Len(pi) < Len(pj) /\ SubSeq(pj, 1, Len(pi)) = pi
  BY DEF Above, pi, pj
<1>6. AtOrAbove(vs, i, p) <=> i = p \/ (Len(pi) < Len(pp) /\ SubSeq(pp, 1, Len(pi)) = pi)
  BY DEF Above, AtOrAbove, pi, pp
<1>. QED BY <1>3, <1>4, <1>5, <1>6

\* Nothing stands above a root, and no visit above itself.
LEMMA AboveShorter ==
  ASSUME NEW vs, Pathed(vs), NEW i \in 1 .. Len(vs), NEW j \in 1 .. Len(vs), Above(vs, i, j)
  PROVE  Len(vs[j].path) # 1 /\ i # j /\ ~Above(vs, j, i)
BY DEF Above, Pathed

\* A visit that collects the alias receives its own value; any other passes it
\* on to where its parent's goes.
LEMMA ReceivesStep ==
  ASSUME NEW class, NEW vs, Pathed(vs), Unshared(vs), NEW j \in 1 .. Len(vs), NEW a,
         NEW i \in 1 .. Len(vs)
  PROVE  /\ a \in CollectedBy(class, vs[j]) => (Receives(class, vs, i, a, j) <=> i = j)
         /\ a \notin CollectedBy(class, vs[j]) /\ Len(vs[j].path) = 1 =>
              ~Receives(class, vs, i, a, j)
         /\ a \notin CollectedBy(class, vs[j]) =>
              \A p \in 1 .. Len(vs) : vs[j].path = Append(vs[p].path, vs[j].node) =>
                (Receives(class, vs, i, a, j) <=> Receives(class, vs, i, a, p))
<1>1. ASSUME a \in CollectedBy(class, vs[j])
      PROVE  Receives(class, vs, i, a, j) <=> i = j
  <2>1. CASE i = j
    <3>1. ASSUME NEW k \in 1 .. Len(vs), Above(vs, i, k), AtOrAbove(vs, k, j)
          PROVE  FALSE
      <4>1. k # j /\ ~Above(vs, k, i)
        BY <2>1, <3>1, AboveShorter
      <4>. QED BY <2>1, <3>1, <4>1 DEF AtOrAbove
    <3>. QED BY <1>1, <2>1, <3>1 DEF Receives, AtOrAbove
  <2>2. CASE i # j
    <3>1. Receives(class, vs, i, a, j) => Above(vs, i, j) /\ AtOrAbove(vs, j, j)
      BY <2>2 DEF Receives, AtOrAbove
    <3>. QED BY <1>1, <2>2, <3>1 DEF Receives
  <2>. QED BY <2>1, <2>2
<1>2. ASSUME a \notin CollectedBy(class, vs[j]), Receives(class, vs, i, a, j)
      PROVE  Above(vs, i, j)
  BY <1>2 DEF Receives, AtOrAbove
<1>3. ASSUME a \notin CollectedBy(class, vs[j]), Len(vs[j].path) = 1
      PROVE  ~Receives(class, vs, i, a, j)
  BY <1>2, <1>3, AboveShorter
<1>4. ASSUME a \notin CollectedBy(class, vs[j]), NEW p \in 1 .. Len(vs),
             vs[j].path = Append(vs[p].path, vs[j].node)
      PROVE  Receives(class, vs, i, a, j) <=> Receives(class, vs, i, a, p)
  <2>0. \A k \in 1 .. Len(vs) : Above(vs, k, j) <=> AtOrAbove(vs, k, p)
    BY <1>4, AboveParent
  <2>1. ASSUME Receives(class, vs, i, a, j)
        PROVE  Receives(class, vs, i, a, p)
    <3>1. AtOrAbove(vs, i, p)
      BY <1>2, <1>4, <2>0, <2>1
    <3>2. \A k \in 1 .. Len(vs) : AtOrAbove(vs, k, p) => AtOrAbove(vs, k, j)
      BY <2>0 DEF AtOrAbove
    <3>. QED BY <2>1, <3>1, <3>2 DEF Receives
  <2>2. ASSUME Receives(class, vs, i, a, p)
        PROVE  Receives(class, vs, i, a, j)
    <3>1. AtOrAbove(vs, i, j)
      BY <2>0, <2>2 DEF Receives, AtOrAbove
    <3>2. ASSUME NEW k \in 1 .. Len(vs), Above(vs, i, k), AtOrAbove(vs, k, j)
          PROVE  a \notin CollectedBy(class, vs[k])
      <4>1. CASE k = j
        BY <1>4, <4>1
      <4>2. CASE k # j
        <5>1. AtOrAbove(vs, k, p)
          BY <2>0, <3>2, <4>2 DEF AtOrAbove
        <5>. QED BY <2>2, <3>2, <5>1 DEF Receives
      <4>. QED BY <4>1, <4>2
    <3>. QED BY <2>2, <3>1, <3>2 DEF Receives
  <2>. QED BY <2>1, <2>2
<1>. QED BY <1>1, <1>3, <1>4

\* Entries have paths that lead to their nodes.
LEMMA VisitsPathed ==
  ASSUME VisitsInv
  PROVE  Pathed(visits)
BY LevelIndices DEF VisitsInv, WellFormed, Pathed

\* A snapshot: the visit's own collectors, and for other aliases its parent's.
LEMMA SnapRelation ==
  ASSUME VisitsInv, Unshared(visits), NEW j \in 1 .. Len(visits), NEW a
  PROVE  /\ a \in Collects(visits[j]) =>
              a \in DOMAIN Snapshots(visits)[j] /\ Snapshots(visits)[j][a] = <<j, a>>
         /\ a \notin Collects(visits[j]) /\ Len(visits[j].path) = 1 =>
              a \notin DOMAIN Snapshots(visits)[j]
         /\ a \notin Collects(visits[j]) =>
              \A p \in 1 .. j - 1 : visits[j].path = Append(visits[p].path, visits[j].node) =>
                /\ a \in DOMAIN Snapshots(visits)[j] <=> a \in DOMAIN Snapshots(visits)[p]
                /\ a \in DOMAIN Snapshots(visits)[j] =>
                     Snapshots(visits)[j][a] = Snapshots(visits)[p][a]
<1> DEFINE S == Snapshots(visits)
           above == Len(visits[j].path) - 1
           E == {k \in 1 .. j - 1 : /\ above > 0
                                    /\ visits[k].node = visits[j].path[above]
                                    /\ DOMAIN S[k] # {}}
           inherited == IF E = {} THEN Empty ELSE S[CHOOSE k \in E : \A l \in E : l <= k]
           own == Own(visits, j)
<1>0. Pathed(visits)
  BY VisitsPathed
<1>1. S[j] = Over(own, inherited)
  BY SnapFunction DEF SnapStep
<1>2. DOMAIN own = Collects(visits[j]) /\ \A b \in DOMAIN own : own[b] = <<j, b>>
  BY DEF Own
<1>. HIDE DEF S, E, own, inherited
<1>3. DOMAIN S[j] = DOMAIN own \cup DOMAIN inherited
      /\ \A b \in DOMAIN S[j] : S[j][b] = IF b \in DOMAIN own THEN own[b] ELSE inherited[b]
  BY <1>1 DEF Over
<1>4. DOMAIN Empty = {}
  BY DEF Empty
<1>5. ASSUME Len(visits[j].path) = 1
      PROVE  DOMAIN inherited = {}
  <2>1. E = {}
    BY <1>5 DEF E
  <2>. QED BY <1>4, <2>1 DEF inherited
<1>6. ASSUME NEW p \in 1 .. j - 1, visits[j].path = Append(visits[p].path, visits[j].node)
      PROVE  DOMAIN inherited = DOMAIN S[p] /\ \A b \in DOMAIN inherited : inherited[b] = S[p][b]
  <2>1. p \in 1 .. Len(visits) /\ j \in Nat /\ p \in Nat
    BY <1>0 DEF Pathed
  <2>2. /\ visits[p].path \in Seq(Nodes) /\ Len(visits[p].path) \in Nat \ {0}
        /\ visits[p].node = visits[p].path[Len(visits[p].path)]
    BY <1>0, <2>1 DEF Pathed
  <2>3. above = Len(visits[p].path)
        /\ visits[j].path[Len(visits[p].path)] = visits[p].path[Len(visits[p].path)]
    BY <1>6, <2>2
  <2>4. above > 0 /\ visits[j].path[above] = visits[p].node
    BY <2>2, <2>3
  <2>5. \A k \in E : k = p
    <3>1. \A k \in 1 .. j - 1 : k \in 1 .. Len(visits)
      BY <1>0 DEF Pathed
    <3>2. \A k \in E : k \in 1 .. j - 1 /\ visits[k].node = visits[j].path[above]
      BY DEF E
    <3>. HIDE DEF above
    <3>. QED BY <2>1, <2>4, <3>1, <3>2 DEF Unshared
  <2>6. E = IF DOMAIN S[p] = {} THEN {} ELSE {p}
    <3>1. p \in E <=> DOMAIN S[p] # {}
      BY <2>4 DEF E
    <3>. QED BY <2>5, <3>1
  <2>7. CASE DOMAIN S[p] = {}
    BY <1>4, <2>6, <2>7 DEF inherited
  <2>8. CASE DOMAIN S[p] # {}
    <3>1. E = {p}
      BY <2>6, <2>8
    <3>2. (CHOOSE k \in E : \A l \in E : l <= k) = p
      BY <2>1, <3>1
    <3>3. inherited = S[p]
      BY <3>1, <3>2 DEF inherited
    <3>. QED BY <3>3
  <2>. QED BY <2>7, <2>8
<1>7. a \in Collects(visits[j]) => a \in DOMAIN S[j] /\ S[j][a] = <<j, a>>
  BY <1>2, <1>3
<1>8. a \notin Collects(visits[j]) /\ Len(visits[j].path) = 1 => a \notin DOMAIN S[j]
  BY <1>2, <1>3, <1>5
<1>9. ASSUME a \notin Collects(visits[j]), NEW p \in 1 .. j - 1,
             visits[j].path = Append(visits[p].path, visits[j].node)
      PROVE  /\ a \in DOMAIN S[j] <=> a \in DOMAIN S[p]
             /\ a \in DOMAIN S[j] => S[j][a] = S[p][a]
  <2>1. DOMAIN inherited = DOMAIN S[p] /\ \A b \in DOMAIN inherited : inherited[b] = S[p][b]
    BY <1>6, <1>9
  <2>. QED BY <1>2, <1>3, <1>9, <2>1
<1>. QED BY <1>7, <1>8, <1>9 DEF S

\* What _phase_b_prepare_collectors computes: the receiver of every alias.
LEMMA SnapshotsReceive ==
  ASSUME VisitsInv, Parented(visits), Unshared(visits), NEW j \in 1 .. Len(visits)
  PROVE  /\ \A a \in DOMAIN Snapshots(visits)[j] : \E i \in 1 .. Len(visits) :
              Snapshots(visits)[j][a] = <<i, a>> /\ Receives(doc.class, visits, i, a, j)
         /\ \A i \in 1 .. Len(visits) : \A a : Receives(doc.class, visits, i, a, j) =>
              a \in DOMAIN Snapshots(visits)[j] /\ Snapshots(visits)[j][a] = <<i, a>>
<1> DEFINE S == Snapshots(visits)
           n == Len(visits)
           Ok(m) == \A a :
             /\ a \in DOMAIN S[m] => \E i \in 1 .. n :
                  S[m][a] = <<i, a>> /\ Receives(doc.class, visits, i, a, m)
             /\ \A i \in 1 .. n : Receives(doc.class, visits, i, a, m) =>
                  a \in DOMAIN S[m] /\ S[m][a] = <<i, a>>
           Bad == {m \in 1 .. n : ~Ok(m)}
<1>0. Pathed(visits) /\ n \in Nat
  BY VisitsPathed, LevelIndices
<1>1. \A m \in 1 .. n : CollectedBy(doc.class, visits[m]) = Collects(visits[m])
  BY DEF CollectedBy, Collects, ClassOf
<1>2. ASSUME NEW m \in 1 .. n, \A k \in 1 .. m - 1 : Ok(k), NEW a
      PROVE  /\ a \in DOMAIN S[m] => \E i \in 1 .. n :
                  S[m][a] = <<i, a>> /\ Receives(doc.class, visits, i, a, m)
             /\ \A i \in 1 .. n : Receives(doc.class, visits, i, a, m) =>
                  a \in DOMAIN S[m] /\ S[m][a] = <<i, a>>
  <2>1. CASE a \in Collects(visits[m])
    <3>1. a \in DOMAIN S[m] /\ S[m][a] = <<m, a>>
      BY <2>1, SnapRelation
    <3>2. \A i \in 1 .. n : Receives(doc.class, visits, i, a, m) <=> i = m
      BY <1>0, <1>1, <2>1, ReceivesStep
    <3>. QED BY <3>1, <3>2
  <2>2. CASE a \notin Collects(visits[m]) /\ Len(visits[m].path) = 1
    <3>1. a \notin DOMAIN S[m]
      BY <2>2, SnapRelation
    <3>2. \A i \in 1 .. n : ~Receives(doc.class, visits, i, a, m)
      BY <1>0, <1>1, <2>2, ReceivesStep
    <3>. QED BY <3>1, <3>2
  <2>3. CASE a \notin Collects(visits[m]) /\ Len(visits[m].path) # 1
    <3>1. PICK p \in 1 .. m - 1 : visits[m].path = Append(visits[p].path, visits[m].node)
      BY <2>3 DEF Parented
    <3>2. p \in 1 .. n
      BY <1>0
    <3>3. /\ a \in DOMAIN S[m] <=> a \in DOMAIN S[p]
          /\ a \in DOMAIN S[m] => S[m][a] = S[p][a]
      BY <2>3, <3>1, SnapRelation
    <3>4. \A i \in 1 .. n : Receives(doc.class, visits, i, a, m)
                              <=> Receives(doc.class, visits, i, a, p)
      BY <1>0, <1>1, <2>3, <3>1, <3>2, ReceivesStep
    <3>5. /\ a \in DOMAIN S[p] => \E i \in 1 .. n :
                  S[p][a] = <<i, a>> /\ Receives(doc.class, visits, i, a, p)
          /\ \A i \in 1 .. n : Receives(doc.class, visits, i, a, p) =>
                  a \in DOMAIN S[p] /\ S[p][a] = <<i, a>>
      BY <1>2
    <3>. HIDE DEF S, n
    <3>. QED BY <3>3, <3>4, <3>5
  <2>. QED BY <2>1, <2>2, <2>3
<1>3. Bad = {}
  <2> SUFFICES ASSUME Bad # {} PROVE FALSE
    OBVIOUS
  <2>1. PICK m \in Bad : \A k \in Bad : m <= k
    <3>1. Bad \subseteq Nat /\ Bad # {}
      BY <1>0
    <3>. HIDE DEF Bad
    <3>. QED BY <3>1, LeastNat
  <2>2. m \in 1 .. n /\ ~Ok(m)
    OBVIOUS
  <2>3. \A k \in 1 .. m - 1 : k \in 1 .. n /\ ~(m <= k)
    BY <1>0, <2>2
  <2>. HIDE DEF Ok
  <2>4. \A k \in 1 .. m - 1 : Ok(k)
    BY <2>1, <2>3
  <2>5. Ok(m)
    <3>. USE DEF Ok
    <3>. QED BY <1>2, <2>2, <2>4
  <2>. QED BY <2>2, <2>5
<1>4. Ok(j)
  <2>. HIDE DEF Ok
  <2>. QED BY <1>3
<1>. QED BY <1>4 DEF S, n

\* Who receives depends on paths and nodes only.
LEMMA ReceivesSame ==
  ASSUME NEW class, NEW vs, NEW ws, Len(ws) = Len(vs),
         \A i \in 1 .. Len(vs) : ws[i].path = vs[i].path /\ ws[i].node = vs[i].node
  PROVE  \A i, j \in 1 .. Len(vs) : \A a :
           Receives(class, ws, i, a, j) <=> Receives(class, vs, i, a, j)
<1>1. \A i, j \in 1 .. Len(vs) : Above(ws, i, j) <=> Above(vs, i, j)
  BY DEF Above
<1>2. \A i, j \in 1 .. Len(vs) : AtOrAbove(ws, i, j) <=> AtOrAbove(vs, i, j)
  BY <1>1 DEF AtOrAbove
<1>3. \A i \in 1 .. Len(vs) : CollectedBy(class, ws[i]) = CollectedBy(class, vs[i])
  BY DEF CollectedBy
<1>. QED BY <1>1, <1>2, <1>3 DEF Receives

\* A node visited once is registered with the collectors of its visit.
LEMMA Registered ==
  ASSUME VisitsInv, Unshared(visits), NEW i \in 1 .. Len(visits), Collects(visits[i]) # {}
  PROVE  /\ visits[i].node \in DOMAIN NodeCollectors(visits)
         /\ NodeCollectors(visits)[visits[i].node] = Own(visits, i)
<1> DEFINE C == {k \in 1 .. Len(visits) : Collects(visits[k]) # {}}
           N == {visits[k].node : k \in C}
           Last(n) == CHOOSE k \in C : visits[k].node = n
                                       /\ \A l \in C : visits[l].node = n => l <= k
<1>1. NodeCollectors(visits) = [n \in N |-> Own(visits, Last(n))]
  BY DEF NodeCollectors
<1>2. i \in C /\ visits[i].node \in N
  OBVIOUS
<1>3. \A k \in C : k \in 1 .. Len(visits) /\ k \in Nat
  BY LevelIndices
<1>4. \A k \in C : visits[k].node = visits[i].node => k = i
  BY <1>3 DEF Unshared
<1>5. Last(visits[i].node) = i
  <2>1. i <= i
    BY <1>2, <1>3
  <2>2. visits[i].node = visits[i].node /\ \A l \in C : visits[l].node = visits[i].node => l <= i
    BY <1>4, <2>1
  <2>. HIDE DEF C
  <2>. QED BY <1>2, <1>4, <2>2
<1>. HIDE DEF C, N, Last
<1>. QED BY <1>1, <1>2, <1>5

\* The empty sequence lists the empty set.
LEMMA NothingListed ==
  Lists(<< >>, {})
BY DEF Lists

\* Phase B-1 builds what the posts of the deepest level need.
LEMMA PostingCollects ==
  ASSUME ResolverAssumption, TraversalInv, CollectInv, NEW c \in Calls, EndLevel(c),
         visits' = LET snaps == Snapshots(visits)
                   IN [i \in 1 .. Len(visits) |-> [visits[i] EXCEPT !.snap = snaps[i]]],
         collectors' = NodeCollectors(visits),
         collected' = [s \in UNION {{Own(visits, i)[a] : a \in Collects(visits[i])} :
                                      i \in 1 .. Len(visits)} |-> << >>],
         depth' = FirstPosted
  PROVE  CollectInv'
<1> DEFINE vs == [i \in 1 .. Len(visits) |-> [visits[i] EXCEPT !.snap = Snapshots(visits)[i]]]
           n == Len(visits)
           class == doc.class
<1>0. /\ doc' = doc /\ heap' = heap /\ reads' = reads /\ depth' = depth /\ visits' = vs
      /\ pc[c] = "resolving"
  BY DEF EndLevel, FirstPosted
<1>1. pc[latest] = "resolving" /\ reads = {} /\ depth \in Nat
      /\ \A i \in 1 .. n : Len(visits[i].path) <= depth
  BY <1>0, ActiveIsLatest DEF TraversalInv, Active, PhaseInv
<1>2. VisitsInv /\ n \in Nat /\ Parented(visits)
  BY LevelIndices DEF TraversalInv, CollectInv
<1>3. Len(vs) = n
  <2>1. vs = [i \in 1 .. n |-> vs[i]]
    OBVIOUS
  <2>. HIDE DEF vs, n
  <2>. QED BY <1>2, <2>1, FunctionIsSequence
<1>4. \A i \in 1 .. n : /\ vs[i].path = visits[i].path /\ vs[i].node = visits[i].node
                        /\ vs[i].snap = Snapshots(visits)[i]
  BY <1>2 DEF VisitsInv, WellFormed
<1>5. \A i \in 1 .. n : CollectedBy(class, vs[i]) = Collects(visits[i])
  BY <1>4 DEF CollectedBy, Collects, ClassOf
<1>. HIDE DEF vs, class
<1>6. Parented(vs)
  <2>1. \A j \in 1 .. n : \A p \in 1 .. j - 1 : p \in 1 .. n
    BY <1>2
  <2>. QED BY <1>2, <1>3, <1>4, <2>1 DEF Parented
<1>7. \A i, j \in 1 .. n : \A a : Receives(class, vs, i, a, j) <=> Receives(class, visits, i, a, j)
  BY <1>3, <1>4, ReceivesSame DEF n
<1>8. ASSUME Unshared(vs)
      PROVE  /\ Snapped(class, vs)
             /\ Collecting(class, heap, vs, depth, collected', collectors')
  <2>1. Unshared(visits)
    BY <1>3, <1>4, <1>8 DEF Unshared
  <2>2. Snapped(class, vs)
    <3>1. \A j \in 1 .. n :
            /\ \A a \in DOMAIN Snapshots(visits)[j] : \E i \in 1 .. n :
                 Snapshots(visits)[j][a] = <<i, a>> /\ Receives(class, visits, i, a, j)
            /\ \A i \in 1 .. n : \A a : Receives(class, visits, i, a, j) =>
                 a \in DOMAIN Snapshots(visits)[j] /\ Snapshots(visits)[j][a] = <<i, a>>
      BY <1>2, <2>1, SnapshotsReceive DEF class
    <3>. QED BY <1>3, <1>4, <1>7, <3>1 DEF Snapped
  <2>3. ASSUME NEW i \in 1 .. n, NEW a \in Collects(visits[i])
        PROVE  /\ <<i, a>> \in DOMAIN collected'
               /\ Lists(collected'[<<i, a>>], Due(class, heap, vs, depth, i, a))
               /\ visits[i].node \in DOMAIN collectors'
               /\ collectors'[visits[i].node] = [b \in Collects(visits[i]) |-> <<i, b>>]
    <3>1. Own(visits, i)[a] = <<i, a>>
      BY DEF Own
    <3>2. <<i, a>> \in DOMAIN collected' /\ collected'[<<i, a>>] = << >>
      <4>1. <<i, a>> \in UNION {{Own(visits, k)[b] : b \in Collects(visits[k])} : k \in 1 .. n}
        BY <3>1
      <4>. QED BY <4>1
    <3>3. Due(class, heap, vs, depth, i, a) = {}
      <4>1. \A j \in 1 .. n : ~(Len(vs[j].path) > depth)
        BY <1>1, <1>2, <1>4, SMTT(30) DEF VisitsInv, WellFormed
      <4>. QED BY <1>3, <4>1 DEF Due
    <3>4. visits[i].node \in DOMAIN collectors' /\ collectors'[visits[i].node] = Own(visits, i)
      BY <1>2, <2>1, Registered
    <3>. QED BY <3>2, <3>3, <3>4, NothingListed DEF Own
  <2>4. Collecting(class, heap, vs, depth, collected', collectors')
    <3> SUFFICES ASSUME NEW i \in 1 .. Len(vs), NEW a \in CollectedBy(class, vs[i])
                 PROVE  /\ <<i, a>> \in DOMAIN collected'
                        /\ Lists(collected'[<<i, a>>], Due(class, heap, vs, depth, i, a))
                        /\ vs[i].node \in DOMAIN collectors'
                        /\ collectors'[vs[i].node] = [b \in CollectedBy(class, vs[i]) |-> <<i, b>>]
      BY DEF Collecting
    <3>1. i \in 1 .. n /\ a \in Collects(visits[i]) /\ vs[i].node = visits[i].node
          /\ CollectedBy(class, vs[i]) = Collects(visits[i])
      BY <1>3, <1>4, <1>5
    <3>. QED BY <2>3, <3>1
  <2>. QED BY <2>2, <2>4
<1>. QED BY <1>0, <1>1, <1>6, <1>8 DEF CollectInv, PostingCollect, ReadsComplete, class

\* Two lists of different things, one after the other.
LEMMA ListsConcat ==
  ASSUME NEW s, NEW D, Lists(s, D), NEW t, NEW E, Lists(t, E), D \cap E = {}
  PROVE  Lists(s \o t, D \cup E)
<1> DEFINE U == D \cup E
           u == s \o t
           m == Len(s)
<1>1. s \in Seq(D) /\ t \in Seq(E) /\ s \in Seq(U) /\ t \in Seq(U) /\ m \in Nat /\ Len(t) \in Nat
  BY DEF Lists
<1>. HIDE DEF U
<1>2. /\ u \in Seq(U) /\ Len(u) = m + Len(t)
      /\ \A k \in 1 .. m : u[k] = s[k]
      /\ \A k \in 1 .. Len(t) : u[m + k] = t[k]
  BY <1>1
<1>. HIDE DEF u, m
<1>3. \A k \in 1 .. Len(u) : (k \in 1 .. m /\ u[k] \in D)
         \/ (k - m \in 1 .. Len(t) /\ u[k] = t[k - m] /\ u[k] \in E)
  <2> TAKE k \in 1 .. Len(u)
  <2>1. CASE k \in 1 .. m
    BY <1>1, <1>2, <2>1 DEF m
  <2>2. CASE k \notin 1 .. m
    <3>1. k - m \in 1 .. Len(t) /\ k = m + (k - m)
      BY <1>1, <1>2, <2>2
    <3>2. u[k] = t[k - m]
      BY <1>2, <3>1
    <3>. QED BY <1>1, <3>1, <3>2
  <2>. QED BY <2>1, <2>2
<1>4. \A x \in U : \E k \in 1 .. Len(u) : u[k] = x
  <2> TAKE x \in U
  <2>1. CASE x \in D
    <3>1. PICK k \in 1 .. m : s[k] = x
      BY <2>1 DEF Lists, m
    <3>2. k \in 1 .. Len(u) /\ u[k] = x
      BY <1>1, <1>2, <3>1
    <3>. QED BY <3>2
  <2>2. CASE x \in E
    <3>1. PICK k \in 1 .. Len(t) : t[k] = x
      BY <2>2 DEF Lists
    <3>2. m + k \in 1 .. Len(u) /\ u[m + k] = x
      BY <1>1, <1>2, <3>1
    <3>. QED BY <3>2
  <2>. QED BY <2>1, <2>2 DEF U
<1>5. \A k, l \in 1 .. Len(u) : u[k] = u[l] => k = l
  <2> SUFFICES ASSUME NEW k \in 1 .. Len(u), NEW l \in 1 .. Len(u), u[k] = u[l]
               PROVE  k = l
    OBVIOUS
  <2>1. CASE u[k] \in D
    <3>1. k \in 1 .. m /\ l \in 1 .. m
      BY <1>3, <2>1
    <3>. QED BY <1>2, <3>1 DEF Lists, m
  <2>2. CASE u[k] \notin D
    <3>1. /\ k - m \in 1 .. Len(t) /\ u[k] = t[k - m]
          /\ l - m \in 1 .. Len(t) /\ u[l] = t[l - m]
      BY <1>3, <2>2
    <3>2. k - m = l - m
      BY <3>1 DEF Lists
    <3>. QED BY <1>1, <1>2, <3>2
  <2>. QED BY <2>1, <2>2
<1>. QED BY <1>2, <1>4, <1>5 DEF Lists, U, u

\* InOrder lists the positions it is given.
LEMMA InOrderLists ==
  ASSUME VisitsInv, NEW I, I \subseteq 1 .. Len(visits)
  PROVE  Lists(InOrder(I), I)
<1> DEFINE s == InOrder(I)
<1>1. /\ s \in Seq(I)
      /\ \A k, l \in 1 .. Len(s) : k < l => s[k] < s[l]
      /\ \A i \in I : \E k \in 1 .. Len(s) : s[k] = i
  BY InOrderType
<1>. HIDE DEF s
<1>2. \A i \in I : i \in Int
  BY LevelIndices
<1>3. \A k, l \in 1 .. Len(s) : s[k] = s[l] => k = l
  <2> SUFFICES ASSUME NEW k \in 1 .. Len(s), NEW l \in 1 .. Len(s), s[k] = s[l], k # l
               PROVE  FALSE
    OBVIOUS
  <2>1. s[k] \in Int /\ s[l] \in Int
    <3>1. s[k] \in I /\ s[l] \in I
      BY <1>1
    <3>. QED BY <1>2, <3>1
  <2>2. k < l \/ l < k
    BY <1>1
  <2>3. s[k] < s[l] \/ s[l] < s[k]
    BY <1>1, <2>2
  <2>. QED BY <2>1, <2>3
<1>. QED BY <1>1, <1>3 DEF Lists, s

\* The values of a level that a collector receives.
LEMMA SentToReceiver ==
  ASSUME VisitsInv, Snapped(doc.class, visits), NEW i \in 1 .. Len(visits), NEW a,
         a \in CollectedBy(doc.class, visits[i])
  PROVE  Lists(SentTo(<<i, a>>),
               {j \in Level : /\ Receives(doc.class, visits, i, a, j)
                              /\ Sends(doc.class, heap, visits[j], a)})
<1> DEFINE sends(j) == Desc[ClassOf(visits[j].node)].sends
           I == {j \in Level : \E b \in DOMAIN sends(j) \cap DOMAIN visits[j].snap :
                   visits[j].snap[b] = <<i, a>> /\ ~IsNone(visits[j].node, sends(j)[b])}
           J == {j \in Level : /\ Receives(doc.class, visits, i, a, j)
                               /\ Sends(doc.class, heap, visits[j], a)}
<1>1. SentTo(<<i, a>>) = InOrder(I)
  BY DEF SentTo
<1>2. Level \subseteq 1 .. Len(visits)
  BY LevelIndices DEF Level
<1>3. \A j \in Level : \A b :
        Sends(doc.class, heap, visits[j], b)
          <=> b \in DOMAIN sends(j) /\ ~IsNone(visits[j].node, sends(j)[b])
  BY DEF Sends, IsNone, ClassOf
<1>4. ASSUME NEW j \in Level
      PROVE  j \in I <=> j \in J
  <2>1. ASSUME NEW b \in DOMAIN sends(j) \cap DOMAIN visits[j].snap,
               visits[j].snap[b] = <<i, a>>, ~IsNone(visits[j].node, sends(j)[b])
        PROVE  Receives(doc.class, visits, i, a, j) /\ Sends(doc.class, heap, visits[j], a)
    <3>1. PICK k \in 1 .. Len(visits) :
            visits[j].snap[b] = <<k, b>> /\ Receives(doc.class, visits, k, b, j)
      BY <1>2 DEF Snapped
    <3>2. k = i /\ b = a
      BY <2>1, <3>1
    <3>. QED BY <1>3, <2>1, <3>1, <3>2
  <2>2. ASSUME Receives(doc.class, visits, i, a, j), Sends(doc.class, heap, visits[j], a)
        PROVE  a \in DOMAIN sends(j) \cap DOMAIN visits[j].snap /\ visits[j].snap[a] = <<i, a>>
               /\ ~IsNone(visits[j].node, sends(j)[a])
    <3>1. a \in DOMAIN visits[j].snap /\ visits[j].snap[a] = <<i, a>>
      BY <1>2, <2>2 DEF Snapped
    <3>2. a \in DOMAIN sends(j) /\ ~IsNone(visits[j].node, sends(j)[a])
      BY <1>3, <2>2
    <3>. QED BY <3>1, <3>2
  <2>. QED BY <2>1, <2>2
<1>. HIDE DEF I
<1>5. I = J
  BY <1>4 DEF I
<1>6. Lists(InOrder(I), I)
  <2>1. I \subseteq 1 .. Len(visits)
    BY <1>2 DEF I
  <2>. QED BY <2>1, InOrderLists
<1>. QED BY <1>1, <1>5, <1>6

\* What a post_* method or handler of the level finds in a collector.
LEMMA LevelReads ==
  ASSUME TraversalInv,
         Collecting(doc.class, heap, visits, depth, collected, collectors),
         NEW i \in Level
  PROVE  ReadComplete(Read(i))
<1> SUFFICES ASSUME NEW a \in DOMAIN Read(i).got
             PROVE  /\ a \in CollectedBy(doc.class, visits[i])
                    /\ Lists(Read(i).got[a], Due(doc.class, heap, visits, Len(visits[i].path), i, a))
  BY DEF ReadComplete, Read
<1>1. i \in 1 .. Len(visits) /\ Len(visits[i].path) = depth /\ depth \in Nat
  BY DEF Level, LevelOf, TraversalInv, PhaseInv
<1>2. Collects(visits[i]) = CollectedBy(doc.class, visits[i])
  BY DEF Collects, CollectedBy, ClassOf
<1>3. Read(i).got = Injected(i) /\ DOMAIN Injected(i) = Collects(visits[i])
  BY DEF Read, Injected
<1>4. a \in CollectedBy(doc.class, visits[i]) /\ a \in Collects(visits[i])
  BY <1>2, <1>3
<1>5. depth <= depth
  BY <1>1
<1>6. /\ Lists(collected[<<i, a>>], Due(doc.class, heap, visits, depth, i, a))
      /\ visits[i].node \in DOMAIN collectors
      /\ collectors[visits[i].node] = [b \in CollectedBy(doc.class, visits[i]) |-> <<i, b>>]
  BY <1>1, <1>4, <1>5 DEF Collecting
<1>7. a \in DOMAIN collectors[visits[i].node] /\ collectors[visits[i].node][a] = <<i, a>>
  BY <1>4, <1>6
<1>8. Injected(i)[a] = collected[<<i, a>>]
  BY <1>4, <1>6, <1>7 DEF Injected
<1>. QED BY <1>1, <1>3, <1>4, <1>6, <1>8

\* Reads that are added are complete, and those before stay so.
LEMMA ReadsAdded ==
  ASSUME TraversalInv, CollectInv, pc[latest] \in {"posting", "handling"}, NEW I, I \subseteq Level,
         reads' = reads \cup {Read(i) : i \in I}, UNCHANGED <<doc, heap, visits, strays>>
  PROVE  ReadsComplete'
<1> SUFFICES ASSUME Unshared(visits), strays = {}
             PROVE  \A r \in reads' : ReadComplete(r)
  BY DEF ReadsComplete, ReadComplete
<1>1. \A r \in reads : ReadComplete(r)
  BY DEF CollectInv, ReadsComplete
<1>2. Collecting(doc.class, heap, visits, depth, collected, collectors)
  BY DEF CollectInv, PostingCollect
<1>3. \A i \in I : ReadComplete(Read(i))
  BY <1>2, LevelReads
<1>4. \A r \in reads' : r \in reads \/ \E i \in I : r = Read(i)
  OBVIOUS
<1>. QED BY <1>1, <1>3, <1>4

\* A post method finds in its collectors what they are due.
LEMMA RunPostsCollects ==
  ASSUME TraversalInv, CollectInv, NEW c \in Calls, RunPosts(c)
  PROVE  CollectInv'
<1>1. /\ UNCHANGED <<doc, heap, latest, strays, visits, depth, collectors, collected>>
      /\ pc' = [pc EXCEPT ![c] = "handling"] /\ pc[c] = "posting"
  BY DEF RunPosts
<1>2. pc[latest] = "posting"
  BY <1>1, ActiveIsLatest DEF TraversalInv, Active
<1>3. ReadsComplete'
  <2> DEFINE I == {k \in Level : Desc[ClassOf(visits[k].node)].posts}
  <2>1. reads' = reads \cup {Read(i) : i \in I} /\ I \subseteq Level
    BY DEF RunPosts
  <2>. HIDE DEF I
  <2>. QED BY <1>1, <1>2, <2>1, ReadsAdded
<1>4. PostingCollect'
  BY <1>1, <1>2 DEF CollectInv, PostingCollect
<1>. QED BY <1>1, <1>3, <1>4 DEF CollectInv

\* The level's values are delivered, and its collectors are gone.
LEMMA LevelDelivered ==
  ASSUME TraversalInv, Unshared(visits), Snapped(doc.class, visits), depth # 0,
         Collecting(doc.class, heap, visits, depth, collected, collectors),
         collected' = [s \in DOMAIN collected |-> collected[s] \o SentTo(s)],
         collectors' = [n \in DOMAIN collectors
                              \ {visits[i].node : i \in {k \in Level : Collects(visits[k]) # {}}}
                          |-> collectors[n]]
  PROVE  Collecting(doc.class, heap, visits, depth - 1, collected', collectors')
<1> SUFFICES ASSUME NEW i \in 1 .. Len(visits), NEW a \in CollectedBy(doc.class, visits[i])
             PROVE  /\ <<i, a>> \in DOMAIN collected'
                    /\ Lists(collected'[<<i, a>>], Due(doc.class, heap, visits, depth - 1, i, a))
                    /\ Len(visits[i].path) <= depth - 1 =>
                         /\ visits[i].node \in DOMAIN collectors'
                         /\ collectors'[visits[i].node]
                              = [b \in CollectedBy(doc.class, visits[i]) |-> <<i, b>>]
  BY DEF Collecting
<1>1. depth \in Nat \ {0} /\ \A j \in 1 .. Len(visits) : Len(visits[j].path) \in Nat
  BY DEF TraversalInv, PhaseInv, VisitsInv, WellFormed
<1> DEFINE D == Due(doc.class, heap, visits, depth, i, a)
           E == {j \in Level : /\ Receives(doc.class, visits, i, a, j)
                               /\ Sends(doc.class, heap, visits[j], a)}
<1>2. <<i, a>> \in DOMAIN collected /\ Lists(collected[<<i, a>>], D)
  BY DEF Collecting
<1>3. Lists(SentTo(<<i, a>>), E)
  BY SentToReceiver DEF TraversalInv
<1>4. D \cap E = {}
  BY <1>1 DEF Due, Level, LevelOf
<1>5. D \cup E = Due(doc.class, heap, visits, depth - 1, i, a)
  <2>1. \A j \in 1 .. Len(visits) :
          Len(visits[j].path) > depth - 1 <=> Len(visits[j].path) > depth \/ j \in Level
    BY <1>1 DEF Level, LevelOf
  <2>2. Level \subseteq 1 .. Len(visits)
    BY DEF Level, LevelOf
  <2>. QED BY <2>1, <2>2 DEF Due
<1>. HIDE DEF D, E
<1>6. Lists(collected[<<i, a>>] \o SentTo(<<i, a>>), Due(doc.class, heap, visits, depth - 1, i, a))
  BY <1>2, <1>3, <1>4, <1>5, ListsConcat
<1>7. <<i, a>> \in DOMAIN collected' /\ collected'[<<i, a>>] = collected[<<i, a>>] \o SentTo(<<i, a>>)
  BY <1>2
<1>8. ASSUME Len(visits[i].path) <= depth - 1
      PROVE  /\ visits[i].node \in DOMAIN collectors'
             /\ collectors'[visits[i].node] = [b \in CollectedBy(doc.class, visits[i]) |-> <<i, b>>]
  <2>1. Len(visits[i].path) <= depth /\ Len(visits[i].path) # depth
    BY <1>1, <1>8
  <2>2. /\ visits[i].node \in DOMAIN collectors
        /\ collectors[visits[i].node] = [b \in CollectedBy(doc.class, visits[i]) |-> <<i, b>>]
    BY <2>1 DEF Collecting
  <2>3. \A k \in Level : visits[k].node # visits[i].node
    BY <2>1 DEF Level, LevelOf, Unshared
  <2>. QED BY <2>2, <2>3
<1>. QED BY <1>6, <1>7, <1>8

\* When a level has posted, its entries have sent what they owe.
LEMMA EndPostsCollects ==
  ASSUME TraversalInv, CollectInv, NEW c \in Calls, EndPosts(c)
  PROVE  CollectInv'
<1>1. /\ UNCHANGED <<doc, heap, latest, strays, visits>>
      /\ pc[c] = "handling" /\ depth' = depth - 1
  BY DEF EndPosts
<1>2. pc[latest] = "handling" /\ depth # 0
  BY <1>1, ActiveIsLatest DEF TraversalInv, Active, PhaseInv
<1>3. ReadsComplete'
  <2> DEFINE I == {k \in Level : Desc[ClassOf(visits[k].node)].handler}
  <2>1. reads' = reads \cup {Read(i) : i \in I} /\ I \subseteq Level
    BY DEF EndPosts
  <2>. HIDE DEF I
  <2>. QED BY <1>1, <1>2, <2>1, ReadsAdded
<1>4. PostingCollect'
  <2>1. ASSUME Unshared(visits)
        PROVE  Snapped(doc.class, visits)
    BY <1>2, <2>1 DEF CollectInv, PostingCollect
  <2>2. ASSUME Unshared(visits), strays = {}
        PROVE  Collecting(doc.class, heap, visits, depth - 1, collected', collectors')
    <3>1. Collecting(doc.class, heap, visits, depth, collected, collectors)
      BY <1>2, <2>2 DEF CollectInv, PostingCollect
    <3>2. /\ collected' = [s \in DOMAIN collected |-> collected[s] \o SentTo(s)]
          /\ collectors' = [n \in DOMAIN collectors
                              \ {visits[i].node : i \in {k \in Level : Collects(visits[k]) # {}}}
                              |-> collectors[n]]
      BY DEF EndPosts
    <3>. QED BY <1>2, <2>1, <2>2, <3>1, <3>2, LevelDelivered
  <2>. QED BY <1>1, <2>1, <2>2 DEF PostingCollect
<1>. QED BY <1>1, <1>3, <1>4 DEF CollectInv

\* A step of phase A, or one that ends a call, reads nothing.
LEMMA NothingRead ==
  ASSUME CollectInv, UNCHANGED <<doc, visits>>, pc'[latest'] \notin {"posting", "handling"},
         reads' = {} \/ (UNCHANGED <<heap, reads>> /\ strays' = strays)
  PROVE  CollectInv'
<1>1. PostingCollect' /\ Parented(visits')
  BY DEF CollectInv, PostingCollect
<1>2. CASE reads' = {}
  BY <1>1, <1>2 DEF CollectInv, ReadsComplete
<1>3. CASE UNCHANGED <<heap, reads>> /\ strays' = strays
  BY <1>1, <1>3 DEF CollectInv, ReadsComplete, ReadComplete
<1>. QED BY <1>2, <1>3

\* A call begins with its roots and no collectors.
LEMMA BeginCollects ==
  ASSUME ResolverAssumption, TraversalInv, NEW c \in Calls, Begin(c)
  PROVE  CollectInv'
<1> DEFINE roots == doc.roots[c]
           vs == [i \in 1 .. Len(roots) |-> LevelNode(roots[i], << >>, Empty)]
<1>1. visits' = vs /\ reads' = {} /\ pc' = [pc EXCEPT ![c] = "resolving"] /\ latest' = c
  BY DEF Begin, EnterLevel
<1>2. pc'[latest'] = "resolving"
  BY <1>1 DEF TraversalInv, GuardInv
<1>3. roots \in Values
  BY DocFacts DEF TraversalInv
<1>4. Len(roots) \in Nat
  BY <1>3 DEF Values
<1>5. Len(vs) = Len(roots)
  <2>1. vs = [i \in 1 .. Len(roots) |-> vs[i]]
    OBVIOUS
  <2>. HIDE DEF vs, roots
  <2>. QED BY <1>4, <2>1, FunctionIsSequence
<1>6. \A i \in 1 .. Len(roots) : Len(vs[i].path) = 1
  BY DEF LevelNode
<1>. HIDE DEF vs, roots
<1>7. Parented(vs)
  BY <1>5, <1>6 DEF Parented
<1>. QED BY <1>1, <1>2, <1>7 DEF CollectInv, PostingCollect, ReadsComplete

\* The entries of the next level are below entries of this one.
LEMMA NextLevelCollects ==
  ASSUME ResolverAssumption, TraversalInv, CollectInv, NEW c \in Calls, EndLevel(c),
         EnterLevel(c, visits \o NextItems, depth + 1)
  PROVE  CollectInv'
<1> DEFINE vs == visits \o NextItems
           n == Len(visits)
<1>0. /\ UNCHANGED <<latest, reads>> /\ pc[c] = "resolving" /\ visits' = vs
      /\ pc' = [pc EXCEPT ![c] = "resolving"]
  BY DEF EndLevel, EnterLevel
<1>1. c = latest /\ pc[latest] = "resolving"
  BY <1>0, ActiveIsLatest DEF TraversalInv, Active
<1>2. reads = {} /\ autoItems \in Seq(LevelChildren)
  BY <1>1 DEF TraversalInv, PhaseInv
<1>3. NextItems \in Seq(LevelChildren)
  BY <1>2, NextItemsType DEF TraversalInv, StoreInv
<1>4. PICK T : visits \in Seq(T)
  BY DEF TraversalInv, VisitsInv, IsSequence
<1>5. /\ n \in Nat /\ Len(vs) = n + Len(NextItems) /\ Len(NextItems) \in Nat
      /\ \A i \in 1 .. n : vs[i] = visits[i]
      /\ \A i \in n + 1 .. Len(vs) : vs[i] = NextItems[i - n] /\ i - n \in 1 .. Len(NextItems)
  <2> DEFINE m == NextItems
             S == T \cup LevelChildren
  <2>1. visits \in Seq(S) /\ m \in Seq(S)
    BY <1>3, <1>4
  <2>. HIDE DEF m, S
  <2>2. Len(visits \o m) = n + Len(m) /\ n \in Nat /\ Len(m) \in Nat
    BY <2>1
  <2>3. \A i \in 1 .. n : (visits \o m)[i] = visits[i]
    BY <2>1
  <2>4. \A i \in n + 1 .. n + Len(m) : (visits \o m)[i] = m[i - n] /\ i - n \in 1 .. Len(m)
    BY <2>1
  <2>. QED BY <2>2, <2>3, <2>4 DEF m
<1>. HIDE DEF vs
<1>6. ASSUME NEW j \in n + 1 .. Len(vs)
      PROVE  \E p \in 1 .. j - 1 : vs[j].path = Append(vs[p].path, vs[j].node)
  <2>1. vs[j] \in LevelChildren
    BY <1>3, <1>5
  <2>2. PICK i \in Level, x \in Nodes : vs[j] = Entry(doc.class, x, visits[i].path, visits[i].ctx)
    BY <2>1 DEF LevelChildren
  <2>3. i \in 1 .. n
    BY DEF Level, LevelOf
  <2>4. vs[j].path = Append(vs[i].path, vs[j].node)
    BY <1>5, <2>2, <2>3 DEF Entry
  <2>5. i \in 1 .. j - 1
    BY <1>5, <2>3
  <2>. QED BY <2>4, <2>5
<1>7. Parented(vs)
  <2> SUFFICES ASSUME NEW j \in 1 .. Len(vs)
               PROVE  Len(vs[j].path) = 1
                        \/ \E p \in 1 .. j - 1 : vs[j].path = Append(vs[p].path, vs[j].node)
    BY DEF Parented
  <2>1. CASE j \in 1 .. n
    <3>1. \A p \in 1 .. j - 1 : p \in 1 .. n
      BY <1>5, <2>1
    <3>. QED BY <1>5, <2>1, <3>1 DEF CollectInv, Parented
  <2>2. CASE j \notin 1 .. n
    <3>1. j \in n + 1 .. Len(vs)
      BY <1>5, <2>2
    <3>. QED BY <1>6, <3>1
  <2>. QED BY <2>1, <2>2
<1>8. pc'[latest'] = "resolving"
  BY <1>0, <1>1 DEF TraversalInv, GuardInv
<1>. QED BY <1>0, <1>2, <1>7, <1>8 DEF CollectInv, PostingCollect, ReadsComplete

\* A coroutine of the running call returns in phase A; one that outlived its
\* call writes into a node, which is then a stray.
LEMMA ReturnCollects ==
  ASSUME TraversalInv, CollectInv, NEW j \in jobs, ResolveReturns(j)
  PROVE  CollectInv'
<1>1. UNCHANGED <<doc, pc, latest, visits, reads, depth, collected, collectors>>
  BY DEF ResolveReturns, phaseB
<1>2. CASE pc[j.call] = "resolving"
  <2>1. j.call = latest
    BY <1>2, ActiveIsLatest DEF TraversalInv, GuardInv, Active
  <2>2. reads' = {} /\ pc'[latest'] = "resolving"
    BY <1>1, <1>2, <2>1 DEF TraversalInv, PhaseInv
  <2>. QED BY <1>1, <2>2, NothingRead
<1>3. CASE pc[j.call] # "resolving"
  <2>1. strays' # {}
    BY <1>3 DEF ResolveReturns
  <2>. QED BY <1>1, <2>1 DEF CollectInv, PostingCollect, ReadsComplete
<1>. QED BY <1>2, <1>3

\* Every step keeps CollectInv.
LEMMA CollectStep ==
  ASSUME ResolverAssumption, TraversalInv, CollectInv, [Next]_vars
  PROVE  CollectInv'
\* Steps that end a call, and those that leave it where it is.
<1>a. ASSUME NEW c \in Calls, pc[c] \in Active, NEW how \in {"failed", "cancelled"}, Leave(c, how),
             UNCHANGED <<doc, heap, visits, reads, strays, latest>>
      PROVE  CollectInv'
  <2>1. c = latest
    BY <1>a, ActiveIsLatest DEF TraversalInv
  <2>2. pc'[latest'] = how
    BY <1>a, <2>1 DEF Leave, TraversalInv, GuardInv
  <2>. QED BY <1>a, <2>2, NothingRead
<1>b. ASSUME UNCHANGED <<doc, heap, visits, reads, strays, latest, depth, collected, collectors>>,
             pc'[latest] = pc[latest] \/ pc'[latest] = "refused"
      PROVE  CollectInv'
  <2>1. CASE pc'[latest] = pc[latest]
    BY <1>b, <2>1 DEF CollectInv, PostingCollect, ReadsComplete, ReadComplete
  <2>2. CASE pc'[latest] = "refused"
    BY <1>b, <2>2, NothingRead
  <2>. QED BY <1>b, <2>1, <2>2
<1>1. ASSUME NEW c \in Calls, Begin(c)
      PROVE  CollectInv'
  BY <1>1, BeginCollects
<1>2. ASSUME NEW c \in Calls, Refuse(c)
      PROVE  CollectInv'
  <2>1. UNCHANGED <<doc, heap, visits, reads, strays, latest, depth, collected, collectors>>
        /\ pc' = [pc EXCEPT ![c] = "refused"]
    BY <1>2 DEF Refuse, phaseB
  <2>2. pc'[latest] = pc[latest] \/ pc'[latest] = "refused"
    BY <2>1 DEF TraversalInv, GuardInv
  <2>. QED BY <1>b, <2>1, <2>2
<1>3. ASSUME NEW c \in Calls, Cancel(c)
      PROVE  CollectInv'
  <2>1. pc[c] \in Active /\ Leave(c, "cancelled")
        /\ UNCHANGED <<doc, heap, visits, reads, strays, latest>>
    BY <1>3 DEF Cancel, Active, phaseB
  <2>. QED BY <1>a, <2>1
<1>4. ASSUME NEW c \in Calls, NEW g, AutoLoadGroup(c, g)
      PROVE  CollectInv'
  <2>1. UNCHANGED <<doc, visits, latest, pc, reads>> /\ pc[c] = "resolving"
    BY <1>4 DEF AutoLoadGroup, phaseB
  <2>2. pc'[latest'] = "resolving" /\ reads' = {}
    BY <2>1, ActiveIsLatest DEF TraversalInv, Active, PhaseInv
  <2>. QED BY <2>1, <2>2, NothingRead
<1>5. ASSUME NEW c \in Calls, AutoLoadRaises(c) \/ PostRaises(c)
      PROVE  CollectInv'
  <2>1. pc[c] \in Active /\ Leave(c, "failed")
        /\ UNCHANGED <<doc, heap, visits, reads, strays, latest>>
    BY <1>5 DEF AutoLoadRaises, PostRaises, Active, phaseB
  <2>. QED BY <1>a, <2>1
<1>6. ASSUME NEW c \in Calls, EndLevel(c)
      PROVE  CollectInv'
  <2>1. CASE NextItems # << >> /\ EnterLevel(c, visits \o NextItems, depth + 1)
             /\ UNCHANGED <<collectors, collected>>
    BY <1>6, <2>1, NextLevelCollects
  <2>2. CASE /\ visits' = LET snaps == Snapshots(visits)
                          IN [i \in 1 .. Len(visits) |-> [visits[i] EXCEPT !.snap = snaps[i]]]
             /\ collectors' = NodeCollectors(visits)
             /\ collected' = [s \in UNION {{Own(visits, i)[a] : a \in Collects(visits[i])} :
                                             i \in 1 .. Len(visits)} |-> << >>]
             /\ pc' = [pc EXCEPT ![c] = "posting"]
             /\ depth' = FirstPosted
             /\ UNCHANGED <<jobs, phaseA>>
    BY <1>6, <2>2, PostingCollects
  <2>. QED BY <1>6, <2>1, <2>2 DEF EndLevel
<1>7. ASSUME NEW c \in Calls, RunPosts(c)
      PROVE  CollectInv'
  BY <1>7, RunPostsCollects
<1>8. ASSUME NEW c \in Calls, EndPosts(c)
      PROVE  CollectInv'
  BY <1>8, EndPostsCollects
<1>9. ASSUME NEW j \in jobs, ResolveReturns(j)
      PROVE  CollectInv'
  BY <1>9, ReturnCollects
<1>10. ASSUME NEW j \in jobs, ResolveRaises(j)
       PROVE  CollectInv'
  <2>1. j.call \in Calls
    BY DEF TraversalInv, GuardInv
  <2>2. UNCHANGED <<doc, heap, visits, reads, strays, latest, depth, collected, collectors>>
    BY <1>10 DEF ResolveRaises, phaseB
  <2>3. CASE pc[j.call] = "resolving"
    <3>1. pc[j.call] \in Active /\ Leave(j.call, "failed")
      BY <1>10, <2>3 DEF ResolveRaises, Active
    <3>. QED BY <1>a, <2>1, <2>2, <3>1
  <2>4. CASE pc[j.call] # "resolving"
    <3>1. pc' = pc
      BY <1>10, <2>4 DEF ResolveRaises
    <3>. QED BY <1>b, <2>2, <3>1
  <2>. QED BY <2>3, <2>4
<1>11. CASE UNCHANGED vars
  BY <1>11, <1>b DEF vars
<1>. QED
  BY <1>1, <1>2, <1>3, <1>4, <1>5, <1>6, <1>7, <1>8, <1>9, <1>10, <1>11 DEF Next, Settle

\* A list of a set is as long as the set is large.
LEMMA ListCounts ==
  ASSUME NEW s, NEW D, Lists(s, D)
  PROVE  Len(s) = Cardinality(D) /\ {s[n] : n \in 1 .. Len(s)} = D
<1> DEFINE m == Len(s)
<1>1. s \in Seq(D) /\ m \in Nat
  BY DEF Lists
<1>2. s \in Bijection(1 .. m, D)
  <2>1. s \in [1 .. m -> D]
    BY <1>1
  <2>2. s \in Injection(1 .. m, D)
    BY <2>1 DEF Injection, IsInjective, Lists
  <2>3. s \in Surjection(1 .. m, D)
    BY <2>1 DEF Surjection, Lists
  <2>. QED BY <2>2, <2>3 DEF Bijection
<1>3. Cardinality(D) = m
  BY <1>1, <1>2, FS_CountingElements DEF ExistsBijection
<1>4. {s[n] : n \in 1 .. m} = D
  BY <1>1 DEF Lists
<1>. QED BY <1>3, <1>4

\* Collectors: in a tree whose nodes are not shared, and into which no ended call
\* writes, a post_* method or handler finds in a Collector the value of every
\* descendant that sends to it with no nearer Collector of the alias, each once.
THEOREM CollectorsHold ==
  ASSUME ResolverAssumption, Calls # {}
  PROVE  Spec => []CollectorsComplete
<1>1. TraversalInv /\ CollectInv => CollectorsComplete
  <2> SUFFICES ASSUME TraversalInv, CollectInv, ~Shared, strays = {},
                      NEW r \in reads, NEW a \in DOMAIN r.got
               PROVE  LET due == {j \in 1 .. Len(visits) :
                            LET sends == Desc[ClassOf(visits[j].node)].sends
                            IN /\ Under(r.visit, j)
                               /\ a \in DOMAIN sends /\ ~IsNone(visits[j].node, sends[a])
                               /\ ~\E k \in 1 .. Len(visits) :
                                    /\ Under(r.visit, k)
                                    /\ k = j \/ Under(k, j)
                                    /\ a \in Collects(visits[k])}
                      IN Len(r.got[a]) = Cardinality(due)
                         /\ {r.got[a][n] : n \in 1 .. Len(r.got[a])} = due
    BY DEF CollectorsComplete
  <2> DEFINE i == r.visit
             class == doc.class
             D == Due(class, heap, visits, Len(visits[i].path), i, a)
  <2>1. Unshared(visits)
    BY DEF Shared, Unshared
  <2>2. a \in CollectedBy(class, visits[i]) /\ Lists(r.got[a], D)
    BY <2>1 DEF CollectInv, ReadsComplete, ReadComplete
  <2>3. i \in 1 .. Len(visits) /\ Pathed(visits)
    BY VisitsPathed DEF TraversalInv, ReadsInv
  <2>4. \A x, y \in 1 .. Len(visits) : Under(x, y) <=> Above(visits, x, y)
    BY DEF Under, Above
  <2>5. \A k \in 1 .. Len(visits) : Collects(visits[k]) = CollectedBy(class, visits[k])
    BY DEF Collects, CollectedBy, ClassOf
  <2>6. ASSUME NEW j \in 1 .. Len(visits)
        PROVE  j \in D <=>
                 LET sends == Desc[ClassOf(visits[j].node)].sends
                 IN /\ Under(i, j)
                    /\ a \in DOMAIN sends /\ ~IsNone(visits[j].node, sends[a])
                    /\ ~\E k \in 1 .. Len(visits) :
                         /\ Under(i, k)
                         /\ k = j \/ Under(k, j)
                         /\ a \in Collects(visits[k])
    <3>1. Sends(class, heap, visits[j], a) <=>
            LET sends == Desc[ClassOf(visits[j].node)].sends
            IN a \in DOMAIN sends /\ ~IsNone(visits[j].node, sends[a])
      BY DEF Sends, IsNone, ClassOf
    <3>2. Len(visits[j].path) > Len(visits[i].path) /\ AtOrAbove(visits, i, j)
            <=> Above(visits, i, j)
      BY <2>3 DEF AtOrAbove, Above, Pathed
    <3>3. Receives(class, visits, i, a, j) <=>
            AtOrAbove(visits, i, j) /\ ~\E k \in 1 .. Len(visits) :
              Under(i, k) /\ (k = j \/ Under(k, j)) /\ a \in Collects(visits[k])
      BY <2>2, <2>3, <2>4, <2>5 DEF Receives, AtOrAbove
    <3>. QED BY <2>3, <2>4, <3>1, <3>2, <3>3 DEF Due
  <2>7. D = {j \in 1 .. Len(visits) :
               LET sends == Desc[ClassOf(visits[j].node)].sends
               IN /\ Under(i, j)
                  /\ a \in DOMAIN sends /\ ~IsNone(visits[j].node, sends[a])
                  /\ ~\E k \in 1 .. Len(visits) :
                       /\ Under(i, k)
                       /\ k = j \/ Under(k, j)
                       /\ a \in Collects(visits[k])}
    <3>1. D \subseteq 1 .. Len(visits)
      BY DEF Due
    <3>. HIDE DEF D
    <3>. QED BY <2>6, <3>1
  <2>. HIDE DEF D
  <2>8. Len(r.got[a]) = Cardinality(D) /\ {r.got[a][n] : n \in 1 .. Len(r.got[a])} = D
    BY <2>2, ListCounts
  <2>. QED BY <2>7, <2>8
<1>2. Init => CollectInv
  <2>1. Init => Len(visits) = 0 /\ reads = {} /\ pc[latest] \notin {"posting", "handling"}
    <3>1. (CHOOSE c \in Calls : TRUE) \in Calls
      OBVIOUS
    <3>. QED BY <3>1 DEF Init
  <2>. QED BY <2>1 DEF CollectInv, Parented, PostingCollect, ReadsComplete
<1>3. TraversalInv /\ CollectInv /\ [Next]_vars => CollectInv'
  BY CollectStep
<1>. QED BY <1>1, <1>2, <1>3, TraversalInvariant, PTL DEF Spec

-----------------------------------------------------------------------------
(* The walk.  A level settles when every field its nodes load is loaded;   *)
(* its children are then the nodes that the fields it follows hold.        *)

\* The heap holds what the document gives or some call loads.
HeapFrom == \A n \in Nodes, f \in Fields : heap[n][f] \in Held(n, f)

\* A Resolver that started with an empty cache caches what it computes.
CacheFrom ==
  doc.scannedBefore = {} =>
    \A k \in Classes : traversable[k] \subseteq {TraversableFields(k, doc.registry)}

\* Only calls that have begun have coroutines.
JobsBegun == \A j \in jobs : pc[j.call] # "idle"

\* w is the entry of a node that field f of visit i of the level may hold.
Placed(w, i, f) ==
  /\ i \in Level /\ f \in Fields
  /\ \E value \in Held(visits[i].node, f) : \E x \in 1 .. Len(value) :
       w = Entry(doc.class, value[x], visits[i].path, visits[i].ctx)

\* Every resolve_* method of the level has returned or still runs.
OutputsInv ==
  /\ \A j \in jobs : j.call = latest =>
       /\ j.visit \in Level /\ j.node = visits[j.visit].node
       /\ j.field \in ResolveFields(ClassOf(j.node))
  /\ \A p \in DOMAIN outputs : \E i \in Level : \E f \in ResolveFields(ClassOf(visits[i].node)) :
       p = <<i, f>> /\ outputs[p] = doc.loads[latest][visits[i].node][f]
  /\ \A i \in Level : \A f \in ResolveFields(ClassOf(visits[i].node)) :
       \/ <<i, f>> \in DOMAIN outputs
       \/ \E j \in jobs : j.call = latest /\ j.visit = i /\ j.field = f

\* Groups are of fields the level's classes auto-load; what they append is
\* theirs, and what is not left has been loaded and appended.
GroupsLoad ==
  /\ \A g \in autoLeft : doc.registry /\ g[2] \in AutoFields(g[1])
  /\ \A g \in loaded : doc.registry /\ g[2] \in AutoFields(ClassOf(g[1])) /\ Loads(g[1], g[2])
GroupItems ==
  \A w \in Range(autoItems) : \E i \in Level, f \in Fields :
    /\ <<visits[i].node, f>> \in loaded /\ <<ClassOf(visits[i].node), f>> \notin autoLeft
    /\ Placed(w, i, f)
GroupDone(i, f) ==
  LET n == visits[i].node
      value == doc.loads[latest][n][f]
  IN /\ <<n, f>> \in loaded
     /\ \A x \in 1 .. Len(value) : \E w \in Range(autoItems) :
          w.path = Append(visits[i].path, value[x])
GroupsCover ==
  \A i \in Level : \A f \in AutoFields(ClassOf(visits[i].node)) :
    doc.registry /\ Loads(visits[i].node, f) =>
      <<ClassOf(visits[i].node), f>> \in autoLeft \/ GroupDone(i, f)
GroupsInv == GroupsLoad /\ GroupItems /\ GroupsCover

LevelInv == pc[latest] = "resolving" => OutputsInv /\ GroupsInv

\* A visit is of a root of call c, or of a node that a visit of the level above
\* holds in document d.
Rooted(d, c, vs) ==
  \A i \in 1 .. Len(vs) :
    \/ /\ Len(vs[i].path) = 1
       /\ \E x \in 1 .. Len(d.roots[c]) : vs[i].node = d.roots[c][x]
    \/ \E j \in 1 .. Len(vs), f \in Fields :
         /\ Len(vs[i].path) = Len(vs[j].path) + 1
         /\ \E value \in {d.given[vs[j].node][f]} \cup {d.loads[b][vs[j].node][f] : b \in Calls} :
              \E x \in 1 .. Len(value) : vs[i].node = value[x]

TreeInv ==
  /\ Rooted(doc, latest, visits)
  /\ IsTree(latest) => /\ Unshared(visits)
                       /\ pc[latest] = "resolving" => Once(autoItems)

Settled(i) == pc[latest] = "resolving" => Len(visits[i].path) < depth
Walking == pc[latest] \in {"resolving", "posting", "handling", "done"} /\ strays = {}

\* What the call has loaded stands in the heap, and is not written otherwise.
WrittenInv ==
  Walking =>
    /\ \A i \in 1 .. Len(visits) : \A f \in Fields : Settled(i) /\ Loads(visits[i].node, f) =>
         heap[visits[i].node][f] = doc.loads[latest][visits[i].node][f]
    /\ pc[latest] = "resolving" =>
         /\ \A p \in DOMAIN outputs : heap[visits[p[1]].node][p[2]] = outputs[p]
         /\ \A g \in loaded : heap[g[1]][g[2]] = doc.loads[latest][g[1]][g[2]]

FollowedInv ==
  Walking /\ doc.scannedBefore = {} =>
    \A i \in 1 .. Len(visits) : Settled(i) =>
      \A f \in Followed(visits[i].node) : VisitedBelow(i, f)

WalkInv == HeapFrom /\ CacheFrom /\ JobsBegun /\ LevelInv /\ TreeInv /\ WrittenInv /\ FollowedInv

\* What a field may hold is a value.
LEMMA HeldValues ==
  ASSUME ResolverAssumption, doc \in Docs, NEW n \in Nodes, NEW f \in Fields
  PROVE  /\ Held(n, f) \subseteq Values
         /\ \A c \in Calls : doc.loads[c][n][f] \in Held(n, f)
<1>1. doc.given[n][f] \in Values
  BY DEF ResolverAssumption
<1>. QED BY <1>1, DocFacts DEF Held

\* Each position of what a field may hold is a reference.
LEMMA HeldReference ==
  ASSUME NEW n \in Nodes, NEW f \in Fields, NEW value \in Held(n, f), NEW x \in 1 .. Len(value)
  PROVE  <<n, f, x, value[x]>> \in References(latest)
<1> DEFINE Positions(m, g, v) == {<<m, g, i, v[i]>> : i \in 1 .. Len(v)}
           At(m, g) == UNION {Positions(m, g, v) : v \in Held(m, g)}
<1>1. <<n, f, x, value[x]>> \in Positions(n, f, value)
  OBVIOUS
<1>2. Positions(n, f, value) \subseteq At(n, f)
  <2>. HIDE DEF Positions
  <2>. QED OBVIOUS
<1>3. At(n, f) \subseteq UNION {At(m, g) : m \in Nodes, g \in Fields}
  <2>. HIDE DEF At
  <2>. QED OBVIOUS
<1>4. UNION {At(m, g) : m \in Nodes, g \in Fields} \subseteq References(latest)
  BY DEF References
<1>. HIDE DEF Positions, At
<1>. QED BY <1>1, <1>2, <1>3, <1>4

\* A node below a visit is held at a place of its own, and its entry is that of
\* the visit and the node.
LEMMA PlacedReference ==
  ASSUME ResolverAssumption, doc \in Docs, VisitsInv, NEW w, NEW i, NEW f, Placed(w, i, f)
  PROVE  /\ \E x : <<visits[i].node, f, x, w.node>> \in References(latest)
         /\ w = Entry(doc.class, w.node, visits[i].path, visits[i].ctx)
         /\ i \in 1 .. Len(visits) /\ w \in LevelChildren
         /\ w.path = Append(visits[i].path, w.node)
<1>1. i \in Level /\ f \in Fields /\ i \in 1 .. Len(visits)
  BY LevelIndices DEF Placed, Level
<1>2. visits[i].node \in Nodes
  BY <1>1, VisitNode
<1>3. PICK value \in Held(visits[i].node, f) : \E x \in 1 .. Len(value) :
        w = Entry(doc.class, value[x], visits[i].path, visits[i].ctx)
  BY DEF Placed
<1>4. PICK x \in 1 .. Len(value) : w = Entry(doc.class, value[x], visits[i].path, visits[i].ctx)
  BY <1>3
<1>5. value \in Values
  BY <1>1, <1>2, HeldValues
<1>6. w.node = value[x] /\ value[x] \in Nodes /\ w.path = Append(visits[i].path, value[x])
  BY <1>4, <1>5 DEF Entry, Values
<1>7. <<visits[i].node, f, x, value[x]>> \in References(latest)
  BY <1>1, <1>2, HeldReference
<1>8. w \in LevelChildren
  BY <1>1, <1>4, <1>6 DEF LevelChildren
<1>. QED BY <1>1, <1>4, <1>6, <1>7, <1>8

\* In a tree whose nodes are visited once, entries of one node are one entry.
LEMMA PlacedOnce ==
  ASSUME ResolverAssumption, doc \in Docs, VisitsInv, IsTree(latest), Unshared(visits),
         NEW v, NEW i, NEW f, Placed(v, i, f), NEW w, NEW j, NEW g, Placed(w, j, g),
         v.node = w.node
  PROVE  i = j /\ f = g /\ v = w
<1>1. PICK x : <<visits[i].node, f, x, v.node>> \in References(latest)
  BY PlacedReference
<1>2. PICK y : <<visits[j].node, g, y, w.node>> \in References(latest)
  BY PlacedReference
<1>3. <<visits[i].node, f, x, v.node>> = <<visits[j].node, g, y, w.node>>
  BY <1>1, <1>2 DEF IsTree
<1>4. visits[i].node = visits[j].node /\ f = g
  BY <1>3
<1>5. i \in 1 .. Len(visits) /\ j \in 1 .. Len(visits)
  BY PlacedReference
<1>6. i = j
  BY <1>4, <1>5 DEF Unshared
<1>7. /\ v = Entry(doc.class, v.node, visits[i].path, visits[i].ctx)
      /\ w = Entry(doc.class, w.node, visits[j].path, visits[j].ctx)
  BY PlacedReference
<1>. QED BY <1>4, <1>6, <1>7

\* The children of a visit through one field: an entry for each node of the value.
LEMMA ChildrenPlaced ==
  ASSUME ResolverAssumption, doc \in Docs, VisitsInv, NEW i \in Level, NEW f \in Fields,
         NEW value \in Held(visits[i].node, f)
  PROVE  LET s == ChildrenOf(visits[i], value)
         IN /\ s \in Seq(LevelChildren)
            /\ \A w \in Range(s) : Placed(w, i, f)
            /\ \A x \in 1 .. Len(value) : \E w \in Range(s) :
                 w.path = Append(visits[i].path, value[x])
            /\ IsTree(latest) => Once(s)
<1> DEFINE s == ChildrenOf(visits[i], value)
           E(x) == Entry(doc.class, value[x], visits[i].path, visits[i].ctx)
<1>1. i \in 1 .. Len(visits) /\ visits[i].node \in Nodes
  BY LevelIndices, VisitNode DEF Level
<1>2. value \in Values /\ Len(value) \in Nat
  BY <1>1, HeldValues DEF Values
<1>3. s = [x \in 1 .. Len(value) |-> E(x)]
  BY LevelNodeIsEntry DEF ChildrenOf
<1>4. s \in Seq(LevelChildren)
  BY <1>2, ChildrenType
<1>5. \A x \in 1 .. Len(value) : Placed(E(x), i, f)
  BY DEF Placed
<1>6. \A x : E(x).path = Append(visits[i].path, value[x]) /\ E(x).node = value[x]
  BY DEF Entry
<1>. HIDE DEF s, E
<1>7. DOMAIN s = 1 .. Len(value) /\ \A x \in 1 .. Len(value) : s[x] = E(x)
  BY <1>3
<1>8. \A x \in 1 .. Len(value) : s[x] \in Range(s)
  BY <1>7 DEF Range
<1>9. \A w \in Range(s) : \E x \in 1 .. Len(value) : w = E(x)
  BY <1>7 DEF Range
<1>10. ASSUME IsTree(latest) PROVE Once(s)
  <2> SUFFICES ASSUME NEW x \in 1 .. Len(value), NEW y \in 1 .. Len(value), s[x] = s[y]
               PROVE  x = y
    BY <1>7 DEF Once
  <2>1. value[x] = value[y]
    BY <1>6, <1>7
  <2>2. /\ <<visits[i].node, f, x, value[x]>> \in References(latest)
        /\ <<visits[i].node, f, y, value[y]>> \in References(latest)
    BY <1>1, HeldReference
  <2>3. <<visits[i].node, f, x, value[x]>> = <<visits[i].node, f, y, value[y]>>
    BY <1>10, <2>1, <2>2 DEF IsTree
  <2>. QED BY <2>3
<1>11. \A x \in 1 .. Len(value) : \E w \in Range(s) : w.path = Append(visits[i].path, value[x])
  BY <1>6, <1>7, <1>8
<1>12. \A w \in Range(s) : Placed(w, i, f)
  BY <1>5, <1>9
<1>. QED BY <1>4, <1>10, <1>11, <1>12 DEF s

\* Pieces for the visits and fields of the level, visit by visit.
PieceSeq(P, i) == [x \in 1 .. Len(FieldOrder) |-> P[i][FieldOrder[x]]]
LevelItems(P) ==
  Concat([k \in 1 .. Len(InOrder(Level)) |->
            Concat(PieceSeq(P, InOrder(Level)[k]), Len(FieldOrder))], Len(InOrder(Level)))

\* A level's visits in order: each once, and all of them.
LEMMA LevelInOrder ==
  ASSUME VisitsInv
  PROVE  LET s == InOrder(Level)
         IN /\ Len(s) \in Nat /\ \A k \in 1 .. Len(s) : s[k] \in Level
            /\ \A k, l \in 1 .. Len(s) : s[k] = s[l] => k = l
            /\ \A i \in Level : \E k \in 1 .. Len(s) : s[k] = i
<1> DEFINE s == InOrder(Level)
<1>1. Level \subseteq 1 .. Len(visits) /\ Len(visits) \in Nat
  BY LevelIndices DEF Level
<1>2. /\ s \in Seq(Level)
      /\ \A k, l \in 1 .. Len(s) : k < l => s[k] < s[l]
      /\ \A i \in Level : \E k \in 1 .. Len(s) : s[k] = i
  BY <1>1, InOrderType
<1>. HIDE DEF s
<1>3. Len(s) \in Nat /\ \A k \in 1 .. Len(s) : s[k] \in Level /\ s[k] \in Nat
  <2>1. Len(s) \in Nat /\ \A k \in 1 .. Len(s) : s[k] \in Level
    BY <1>2
  <2>2. \A i \in Level : i \in Nat
    BY <1>1
  <2>. QED BY <2>1, <2>2
<1>4. ASSUME NEW k \in 1 .. Len(s), NEW l \in 1 .. Len(s), s[k] = s[l] PROVE k = l
  <2>1. k < l \/ l < k \/ k = l
    BY <1>3
  <2>2. ~(s[k] < s[l]) /\ ~(s[l] < s[k])
    BY <1>3, <1>4
  <2>. QED BY <1>2, <2>1, <2>2
<1>5. \A k, l \in 1 .. Len(s) : s[k] = s[l] => k = l
  BY <1>4
<1>6. \A k \in 1 .. Len(s) : s[k] \in Level
  BY <1>3
<1>. QED BY <1>2, <1>3, <1>5, <1>6 DEF s

\* The pieces of one visit hold what its fields' pieces hold.
LEMMA PieceSeqMembers ==
  ASSUME ResolverAssumption, NEW T, NEW P, NEW i,
         \A f \in Fields : P[i][f] \in Seq(T)
  PROVE  LET s == Concat(PieceSeq(P, i), Len(FieldOrder))
         IN /\ s \in Seq(T)
            /\ \A w : w \in Range(s) <=> \E f \in Fields : w \in Range(P[i][f])
            /\ (/\ \A f \in Fields : Once(P[i][f])
                /\ \A f, g \in Fields : f # g => Range(P[i][f]) \cap Range(P[i][g]) = {})
               => Once(s)
<1> DEFINE ss == PieceSeq(P, i)
           n == Len(FieldOrder)
<1>1. /\ n \in Nat /\ \A x \in 1 .. n : FieldOrder[x] \in Fields
      /\ \A f \in Fields : \E x \in 1 .. n : FieldOrder[x] = f
      /\ \A x, y \in 1 .. n : FieldOrder[x] = FieldOrder[y] => x = y
  BY DEF ResolverAssumption, FieldsDiffer, Fields
<1>2. \A x \in 1 .. n : ss[x] = P[i][FieldOrder[x]]
  BY DEF PieceSeq
<1>. HIDE DEF ss, n
<1>3. \A x \in 1 .. n : ss[x] \in Seq(T)
  BY <1>1, <1>2
<1>4. Concat(ss, n) \in Seq(T)
  BY <1>1, <1>3, ConcatType
<1>5. Range(Concat(ss, n)) = UNION {Range(ss[x]) : x \in 1 .. n}
  BY <1>1, <1>3, ConcatMembers
<1>6. \A w : w \in Range(Concat(ss, n)) <=> \E f \in Fields : w \in Range(P[i][f])
  <2> TAKE w
  <2>1. w \in Range(Concat(ss, n)) <=> \E x \in 1 .. n : w \in Range(ss[x])
    BY <1>5
  <2>2. ASSUME NEW x \in 1 .. n, w \in Range(ss[x])
        PROVE  \E f \in Fields : w \in Range(P[i][f])
    BY <1>1, <1>2, <2>2
  <2>3. ASSUME NEW f \in Fields, w \in Range(P[i][f])
        PROVE  \E x \in 1 .. n : w \in Range(ss[x])
    <3>1. PICK x \in 1 .. n : FieldOrder[x] = f
      BY <1>1
    <3>. QED BY <1>2, <2>3, <3>1
  <2>. QED BY <2>1, <2>2, <2>3
<1>7. ASSUME \A f \in Fields : Once(P[i][f]),
             \A f, g \in Fields : f # g => Range(P[i][f]) \cap Range(P[i][g]) = {}
      PROVE  Once(Concat(ss, n))
  <2>1. \A x \in 1 .. n : ss[x] \in Seq(T) /\ Once(ss[x])
    BY <1>1, <1>2, <1>3, <1>7
  <2>2. \A x, y \in 1 .. n : x # y => Range(ss[x]) \cap Range(ss[y]) = {}
    <3> SUFFICES ASSUME NEW x \in 1 .. n, NEW y \in 1 .. n, x # y
                 PROVE  Range(ss[x]) \cap Range(ss[y]) = {}
      OBVIOUS
    <3>1. FieldOrder[x] # FieldOrder[y] /\ FieldOrder[x] \in Fields /\ FieldOrder[y] \in Fields
      BY <1>1
    <3>2. ss[x] = P[i][FieldOrder[x]] /\ ss[y] = P[i][FieldOrder[y]]
      BY <1>2
    <3>3. Range(P[i][FieldOrder[x]]) \cap Range(P[i][FieldOrder[y]]) = {}
      BY <1>7, <3>1
    <3>. QED BY <3>2, <3>3
  <2>. QED BY <1>1, <2>1, <2>2, ConcatOnce
<1>. QED BY <1>4, <1>6, <1>7 DEF ss, n

\* The pieces of the level together, likewise.
LEMMA LevelItemsMembers ==
  ASSUME ResolverAssumption, VisitsInv, NEW T, NEW P,
         \A i \in Level, f \in Fields : P[i][f] \in Seq(T)
  PROVE  /\ LevelItems(P) \in Seq(T)
         /\ \A w : w \in Range(LevelItems(P)) <=>
                     \E i \in Level, f \in Fields : w \in Range(P[i][f])
         /\ (/\ \A i \in Level, f \in Fields : Once(P[i][f])
             /\ \A i, j \in Level, f, g \in Fields :
                  <<i, f>> # <<j, g>> => Range(P[i][f]) \cap Range(P[j][g]) = {})
            => Once(LevelItems(P))
<1> DEFINE o == InOrder(Level)
           n == Len(o)
           Part(i) == Concat(PieceSeq(P, i), Len(FieldOrder))
           ss == [k \in 1 .. n |-> Part(o[k])]
<1>1. /\ n \in Nat /\ \A k \in 1 .. n : o[k] \in Level
      /\ \A k, l \in 1 .. n : o[k] = o[l] => k = l
      /\ \A i \in Level : \E k \in 1 .. n : o[k] = i
  BY LevelInOrder
<1>2. LevelItems(P) = Concat(ss, n)
  BY DEF LevelItems
<1>3. \A i \in Level :
        /\ Part(i) \in Seq(T)
        /\ \A w : w \in Range(Part(i)) <=> \E f \in Fields : w \in Range(P[i][f])
        /\ (/\ \A f \in Fields : Once(P[i][f])
            /\ \A f, g \in Fields : f # g => Range(P[i][f]) \cap Range(P[i][g]) = {})
           => Once(Part(i))
  <2> TAKE i \in Level
  <2>1. \A f \in Fields : P[i][f] \in Seq(T)
    OBVIOUS
  <2>. QED BY <2>1, PieceSeqMembers
<1>4. \A k \in 1 .. n : ss[k] = Part(o[k])
  OBVIOUS
<1>. HIDE DEF o, n, Part, ss
<1>5. \A k \in 1 .. n : ss[k] \in Seq(T)
  BY <1>1, <1>3, <1>4
<1>6. Concat(ss, n) \in Seq(T)
  BY <1>1, <1>5, ConcatType
<1>7. Range(Concat(ss, n)) = UNION {Range(ss[k]) : k \in 1 .. n}
  BY <1>1, <1>5, ConcatMembers
<1>8. ASSUME NEW w
      PROVE  w \in Range(Concat(ss, n)) <=> \E i \in Level, f \in Fields : w \in Range(P[i][f])
  <2>1. w \in Range(Concat(ss, n)) <=> \E k \in 1 .. n : w \in Range(Part(o[k]))
    BY <1>4, <1>7
  <2>2. w \in Range(Concat(ss, n)) <=> \E i \in Level : w \in Range(Part(i))
    BY <1>1, <2>1
  <2>. QED BY <1>3, <2>2
<1>9. ASSUME \A i \in Level, f \in Fields : Once(P[i][f]),
             \A i, j \in Level, f, g \in Fields :
               <<i, f>> # <<j, g>> => Range(P[i][f]) \cap Range(P[j][g]) = {}
      PROVE  Once(Concat(ss, n))
  <2>1. \A i \in Level : Once(Part(i))
    <3> TAKE i \in Level
    <3>1. \A f, g \in Fields : f # g => Range(P[i][f]) \cap Range(P[i][g]) = {}
      BY <1>9
    <3>. QED BY <1>3, <1>9, <3>1
  <2>2. \A i, j \in Level : i # j => Range(Part(i)) \cap Range(Part(j)) = {}
    <3> SUFFICES ASSUME NEW i \in Level, NEW j \in Level, i # j, NEW w,
                        w \in Range(Part(i)), w \in Range(Part(j))
                 PROVE  FALSE
      OBVIOUS
    <3>1. PICK f \in Fields : w \in Range(P[i][f])
      BY <1>3
    <3>2. PICK g \in Fields : w \in Range(P[j][g])
      BY <1>3
    <3>. QED BY <1>9, <3>1, <3>2
  <2>3. \A k \in 1 .. n : ss[k] \in Seq(T) /\ Once(ss[k])
    BY <1>1, <1>4, <1>5, <2>1
  <2>4. \A k, l \in 1 .. n : k # l => Range(ss[k]) \cap Range(ss[l]) = {}
    BY <1>1, <1>4, <2>2
  <2>. QED BY <1>1, <2>3, <2>4, ConcatOnce
<1>. QED BY <1>2, <1>6, <1>8, <1>9

\* What each visit and field brings to the next level: of its result, and of what
\* stands in it when the field is followed and has not been loaded.
ResolvePieces ==
  [i \in Level |-> [f \in Fields |->
     IF <<i, f>> \in DOMAIN outputs THEN ChildrenOf(visits[i], outputs[<<i, f>>]) ELSE << >>]]
Unloaded(i, f) == /\ f \in CachedTraversable(ClassOf(visits[i].node))
                  /\ <<visits[i].node, f>> \notin LoadedKeys
ExistingPieces ==
  [i \in Level |-> [f \in Fields |->
     IF Unloaded(i, f) THEN ChildrenOf(visits[i], heap[visits[i].node][f]) ELSE << >>]]

\* The children of results and of what stands in the fields, by visit and field.
LEMMA ItemsByPiece ==
  ASSUME ResolverAssumption, VisitsInv
  PROVE  /\ ResolveItems = LevelItems(ResolvePieces)
         /\ ExistingItems = LevelItems(ExistingPieces)
<1> DEFINE o == InOrder(Level)
           n == Len(FieldOrder)
           R(i, f) == IF <<i, f>> \in DOMAIN outputs
                      THEN ChildrenOf(visits[i], outputs[<<i, f>>]) ELSE << >>
           X(i, f) == IF f \in CachedTraversable(ClassOf(visits[i].node))
                         /\ <<visits[i].node, f>> \notin LoadedKeys
                      THEN ChildrenOf(visits[i], heap[visits[i].node][f]) ELSE << >>
           Rs(i) == [x \in 1 .. n |-> R(i, FieldOrder[x])]
           Xs(i) == [x \in 1 .. n |-> X(i, FieldOrder[x])]
<1>1. /\ ResolveItems = Concat([k \in 1 .. Len(o) |-> Concat(Rs(o[k]), n)], Len(o))
      /\ ExistingItems = Concat([k \in 1 .. Len(o) |-> Concat(Xs(o[k]), n)], Len(o))
  BY DEF ResolveItems, ExistingItems, ConcatMap
<1>2. \A k \in 1 .. Len(o) : o[k] \in Level
  BY LevelInOrder
<1>3. \A x \in 1 .. n : FieldOrder[x] \in Fields
  BY DEF Fields
<1>4. \A i \in Level, f \in Fields : ResolvePieces[i][f] = R(i, f) /\ ExistingPieces[i][f] = X(i, f)
  BY DEF ResolvePieces, ExistingPieces, Unloaded
<1>. HIDE DEF o, n, R, X
<1>5. \A i \in Level : Rs(i) = PieceSeq(ResolvePieces, i) /\ Xs(i) = PieceSeq(ExistingPieces, i)
  BY <1>3, <1>4 DEF PieceSeq, n
<1>. HIDE DEF Rs, Xs
<1>6. /\ ResolveItems = Concat([k \in 1 .. Len(o) |-> Concat(PieceSeq(ResolvePieces, o[k]), n)], Len(o))
      /\ ExistingItems = Concat([k \in 1 .. Len(o) |-> Concat(PieceSeq(ExistingPieces, o[k]), n)], Len(o))
  BY <1>1, <1>2, <1>5
<1>. QED BY <1>6 DEF LevelItems, o, n

\* Nothing comes of an empty piece.
LEMMA NoPiece ==
  ASSUME NEW T
  PROVE  << >> \in Seq(T) /\ Range(<< >>) = {} /\ Once(<< >>)
BY DEF Range, Once

\* The children of one result.
LEMMA ResolvePiece ==
  ASSUME ResolverAssumption, TraversalInv, OutputsInv, NEW i \in Level, NEW f \in Fields
  PROVE  LET s == ResolvePieces[i][f]
         IN /\ s \in Seq(LevelChildren) /\ (IsTree(latest) => Once(s))
            /\ \A w \in Range(s) : /\ Placed(w, i, f) /\ f \in ResolveFields(ClassOf(visits[i].node))
                                   /\ <<visits[i].node, f>> \in LoadedKeys
            /\ <<i, f>> \in DOMAIN outputs => \A x \in 1 .. Len(outputs[<<i, f>>]) :
                 \E w \in Range(s) : w.path = Append(visits[i].path, outputs[<<i, f>>][x])
<1> DEFINE s == ResolvePieces[i][f]
           value == outputs[<<i, f>>]
           n == visits[i].node
<1>1. doc \in Docs /\ VisitsInv /\ latest \in Calls
  BY DEF TraversalInv, GuardInv
<1>2. CASE <<i, f>> \in DOMAIN outputs
  <2>1. s = ChildrenOf(visits[i], value)
    BY <1>2 DEF ResolvePieces
  <2>2. PICK j \in Level : \E g \in ResolveFields(ClassOf(visits[j].node)) :
          <<i, f>> = <<j, g>> /\ outputs[<<i, f>>] = doc.loads[latest][visits[j].node][g]
    BY <1>2 DEF OutputsInv
  <2>3. value = doc.loads[latest][n][f] /\ f \in ResolveFields(ClassOf(n))
    BY <2>2
  <2>4. n \in Nodes
    BY <1>1, LevelIndices, VisitNode DEF Level
  <2>5. value \in Held(n, f)
    BY <1>1, <2>3, <2>4, HeldValues
  <2>6. <<n, f>> \in LoadedKeys
    <3>1. <<i, f>>[1] = i /\ <<i, f>>[2] = f
      OBVIOUS
    <3>2. <<visits[<<i, f>>[1]].node, <<i, f>>[2]>> \in LoadedKeys
      BY <1>2 DEF LoadedKeys
    <3>. QED BY <3>1, <3>2
  <2>7. LET t == ChildrenOf(visits[i], value)
        IN /\ t \in Seq(LevelChildren)
           /\ \A w \in Range(t) : Placed(w, i, f)
           /\ \A x \in 1 .. Len(value) : \E w \in Range(t) : w.path = Append(visits[i].path, value[x])
           /\ IsTree(latest) => Once(t)
    BY <1>1, <2>5, ChildrenPlaced
  <2>. HIDE DEF s, value
  <2>8. /\ s \in Seq(LevelChildren)
        /\ \A w \in Range(s) : Placed(w, i, f)
        /\ \A x \in 1 .. Len(value) : \E w \in Range(s) : w.path = Append(visits[i].path, value[x])
        /\ IsTree(latest) => Once(s)
    BY <2>1, <2>7
  <2>. QED BY <2>3, <2>6, <2>8 DEF s, value
<1>3. CASE <<i, f>> \notin DOMAIN outputs
  <2>1. s = << >>
    BY <1>3 DEF ResolvePieces
  <2>. HIDE DEF s
  <2>2. s \in Seq(LevelChildren) /\ Range(s) = {} /\ Once(s)
    BY <2>1, NoPiece
  <2>. QED BY <1>3, <2>2 DEF s
<1>. QED BY <1>2, <1>3

\* The children of what stands in one field.
LEMMA ExistingPiece ==
  ASSUME ResolverAssumption, TraversalInv, HeapFrom, NEW i \in Level, NEW f \in Fields
  PROVE  LET s == ExistingPieces[i][f]
         IN /\ s \in Seq(LevelChildren) /\ (IsTree(latest) => Once(s))
            /\ \A w \in Range(s) : Placed(w, i, f) /\ Unloaded(i, f)
            /\ Unloaded(i, f) => \A x \in 1 .. Len(heap[visits[i].node][f]) :
                 \E w \in Range(s) : w.path = Append(visits[i].path, heap[visits[i].node][f][x])
<1> DEFINE s == ExistingPieces[i][f]
           value == heap[visits[i].node][f]
           n == visits[i].node
<1>1. doc \in Docs /\ VisitsInv
  BY DEF TraversalInv
<1>2. CASE Unloaded(i, f)
  <2>1. s = ChildrenOf(visits[i], value)
    BY <1>2 DEF ExistingPieces
  <2>2. n \in Nodes
    BY <1>1, LevelIndices, VisitNode DEF Level
  <2>3. value \in Held(n, f)
    BY <2>2 DEF HeapFrom
  <2>4. LET t == ChildrenOf(visits[i], value)
        IN /\ t \in Seq(LevelChildren)
           /\ \A w \in Range(t) : Placed(w, i, f)
           /\ \A x \in 1 .. Len(value) : \E w \in Range(t) : w.path = Append(visits[i].path, value[x])
           /\ IsTree(latest) => Once(t)
    BY <1>1, <2>3, ChildrenPlaced
  <2>. HIDE DEF s, value
  <2>5. /\ s \in Seq(LevelChildren)
        /\ \A w \in Range(s) : Placed(w, i, f)
        /\ \A x \in 1 .. Len(value) : \E w \in Range(s) : w.path = Append(visits[i].path, value[x])
        /\ IsTree(latest) => Once(s)
    BY <2>1, <2>4
  <2>. QED BY <1>2, <2>5 DEF s, value
<1>3. CASE ~Unloaded(i, f)
  <2>1. s = << >>
    BY <1>3 DEF ExistingPieces
  <2>. HIDE DEF s
  <2>2. s \in Seq(LevelChildren) /\ Range(s) = {} /\ Once(s)
    BY <2>1, NoPiece
  <2>. QED BY <1>3, <2>2 DEF s
<1>. QED BY <1>2, <1>3

\* In a tree the pieces of different visits or fields have nothing in common.
LEMMA TreePieces ==
  ASSUME ResolverAssumption, TraversalInv, IsTree(latest), Unshared(visits), NEW P,
         \A i \in Level, f \in Fields :
           P[i][f] \in Seq(LevelChildren) /\ Once(P[i][f]) /\ \A w \in Range(P[i][f]) : Placed(w, i, f)
  PROVE  Once(LevelItems(P))
<1>1. doc \in Docs /\ VisitsInv
  BY DEF TraversalInv
<1>2. \A i, j \in Level, f, g \in Fields : <<i, f>> # <<j, g>> => Range(P[i][f]) \cap Range(P[j][g]) = {}
  <2> SUFFICES ASSUME NEW i \in Level, NEW j \in Level, NEW f \in Fields, NEW g \in Fields,
                      NEW w, w \in Range(P[i][f]), w \in Range(P[j][g])
               PROVE  <<i, f>> = <<j, g>>
    OBVIOUS
  <2>1. Placed(w, i, f) /\ Placed(w, j, g)
    OBVIOUS
  <2>. QED BY <1>1, <2>1, PlacedOnce
<1>3. \A i \in Level, f \in Fields : P[i][f] \in Seq(LevelChildren)
  OBVIOUS
<1>4. \A i \in Level, f \in Fields : Once(P[i][f])
  OBVIOUS
<1>. QED BY <1>1, <1>2, <1>3, <1>4, LevelItemsMembers

\* The next level: entries of what the level's fields hold, and in a tree each
\* once.  A field that has been loaded is not followed as it stood.
LEMMA NextItemsPlaced ==
  ASSUME ResolverAssumption, TraversalInv, pc[latest] = "resolving", OutputsInv, GroupsInv, HeapFrom
  PROVE  /\ NextItems \in Seq(LevelChildren)
         /\ Range(NextItems) = Range(ResolveItems) \cup Range(autoItems) \cup Range(ExistingItems)
         /\ \A w \in Range(NextItems) : \E i, f : Placed(w, i, f)
         /\ (IsTree(latest) /\ Unshared(visits) /\ Once(autoItems)) => Once(NextItems)
<1> DEFINE R == ResolveItems
           A == autoItems
           X == ExistingItems
<1>1. doc \in Docs /\ VisitsInv /\ A \in Seq(LevelChildren)
  BY DEF TraversalInv, PhaseInv
<1>2. R = LevelItems(ResolvePieces) /\ X = LevelItems(ExistingPieces)
  BY <1>1, ItemsByPiece
<1>3. \A i \in Level, f \in Fields :
        /\ ResolvePieces[i][f] \in Seq(LevelChildren) /\ (IsTree(latest) => Once(ResolvePieces[i][f]))
        /\ \A w \in Range(ResolvePieces[i][f]) :
             /\ Placed(w, i, f) /\ f \in ResolveFields(ClassOf(visits[i].node))
             /\ <<visits[i].node, f>> \in LoadedKeys
  BY ResolvePiece
<1>4. \A i \in Level, f \in Fields :
        /\ ExistingPieces[i][f] \in Seq(LevelChildren) /\ (IsTree(latest) => Once(ExistingPieces[i][f]))
        /\ \A w \in Range(ExistingPieces[i][f]) : Placed(w, i, f) /\ Unloaded(i, f)
  BY ExistingPiece
<1>5. R \in Seq(LevelChildren) /\ X \in Seq(LevelChildren)
  BY <1>1, <1>2, <1>3, <1>4, LevelItemsMembers
<1>6. \A w \in Range(R) : \E i \in Level, f \in Fields :
        /\ Placed(w, i, f) /\ f \in ResolveFields(ClassOf(visits[i].node))
        /\ <<visits[i].node, f>> \in LoadedKeys
  <2> TAKE w \in Range(R)
  <2>1. PICK i \in Level, f \in Fields : w \in Range(ResolvePieces[i][f])
    BY <1>1, <1>2, <1>3, LevelItemsMembers
  <2>. QED BY <1>3, <2>1
<1>7. \A w \in Range(X) : \E i \in Level, f \in Fields : Placed(w, i, f) /\ Unloaded(i, f)
  <2> TAKE w \in Range(X)
  <2>1. PICK i \in Level, f \in Fields : w \in Range(ExistingPieces[i][f])
    BY <1>1, <1>2, <1>4, LevelItemsMembers
  <2>. QED BY <1>4, <2>1
<1>8. \A w \in Range(A) : \E i \in Level, f \in Fields :
        /\ Placed(w, i, f) /\ f \in AutoFields(ClassOf(visits[i].node))
        /\ <<visits[i].node, f>> \in LoadedKeys
  <2> TAKE w \in Range(A)
  <2>1. PICK i \in Level, f \in Fields : <<visits[i].node, f>> \in loaded /\ Placed(w, i, f)
    BY DEF GroupsInv, GroupsLoad, GroupItems, GroupsCover, GroupDone
  <2>2. f \in AutoFields(ClassOf(visits[i].node))
    <3>1. <<visits[i].node, f>>[1] = visits[i].node /\ <<visits[i].node, f>>[2] = f
      OBVIOUS
    <3>. QED BY <2>1, <3>1 DEF GroupsInv, GroupsLoad, GroupItems, GroupsCover, GroupDone
  <2>. QED BY <2>1, <2>2 DEF LoadedKeys
<1>9. NextItems = (R \o A) \o X
  BY DEF NextItems
<1>. HIDE DEF R, A, X
<1>10. R \o A \in Seq(LevelChildren) /\ Range(R \o A) = Range(R) \cup Range(A)
  BY <1>1, <1>5, AppendedMembers
<1> DEFINE B == R \o A
<1>. HIDE DEF B
<1>b. B \in Seq(LevelChildren) /\ NextItems = B \o X
  BY <1>9, <1>10 DEF B
<1>c. NextItems \in Seq(LevelChildren) /\ Range(NextItems) = Range(B) \cup Range(X)
  BY <1>5, <1>b, AppendedMembers
<1>11. NextItems \in Seq(LevelChildren) /\ Range(NextItems) = Range(R) \cup Range(A) \cup Range(X)
  BY <1>10, <1>c DEF B
<1>12. \A w \in Range(NextItems) : \E i, f : Placed(w, i, f)
  BY <1>6, <1>7, <1>8, <1>11
<1>13. ASSUME IsTree(latest), Unshared(visits), Once(A) PROVE Once(NextItems)
  <2>1. Once(R) /\ Once(X)
    BY <1>2, <1>3, <1>4, <1>13, TreePieces
  <2>2. \A k : AutoFields(k) \cap ResolveFields(k) = {}
    BY DEF AutoFields, ResolveFields
  <2>3. ASSUME NEW w, w \in Range(R), w \in Range(A) PROVE FALSE
    <3>1. PICK i \in Level, f \in Fields :
            Placed(w, i, f) /\ f \in ResolveFields(ClassOf(visits[i].node))
      BY <1>6, <2>3
    <3>2. PICK j \in Level, g \in Fields :
            Placed(w, j, g) /\ g \in AutoFields(ClassOf(visits[j].node))
      BY <1>8, <2>3
    <3>3. i = j /\ f = g
      BY <1>1, <1>13, <3>1, <3>2, PlacedOnce
    <3>. QED BY <2>2, <3>1, <3>2, <3>3
  <2>4. Once(R \o A)
    BY <1>1, <1>5, <1>13, <2>1, <2>3, AppendedOnce
  <2>5. ASSUME NEW w, w \in Range(R \o A), w \in Range(X) PROVE FALSE
    <3>1. PICK i \in Level, f \in Fields : Placed(w, i, f) /\ <<visits[i].node, f>> \in LoadedKeys
      BY <1>6, <1>8, <1>10, <2>5
    <3>2. PICK j \in Level, g \in Fields : Placed(w, j, g) /\ Unloaded(j, g)
      BY <1>7, <2>5
    <3>3. i = j /\ f = g
      BY <1>1, <1>13, <3>1, <3>2, PlacedOnce
    <3>. QED BY <3>1, <3>2, <3>3 DEF Unloaded
  <2>. QED BY <1>5, <1>9, <1>10, <2>1, <2>4, <2>5, AppendedOnce
<1>. QED BY <1>11, <1>12, <1>13 DEF R, A, X

\* When the level has settled, the next one has an entry for each node that the
\* fields it follows hold.
LEMMA NextItemsCover ==
  ASSUME ResolverAssumption, TraversalInv, pc[latest] = "resolving", WalkInv, Walking,
         doc.scannedBefore = {}, ~Awaits(latest), autoLeft = {},
         NEW i \in Level, NEW f \in Followed(visits[i].node),
         NEW x \in 1 .. Len(heap[visits[i].node][f])
  PROVE  \E w \in Range(NextItems) : w.path = Append(visits[i].path, heap[visits[i].node][f][x])
<1> DEFINE n == visits[i].node
           value == heap[n][f]
<1>1. doc \in Docs /\ VisitsInv /\ OutputsInv /\ GroupsInv /\ HeapFrom /\ latest \in Calls
  BY DEF TraversalInv, GuardInv, WalkInv, LevelInv
<1>2. f \in Fields /\ i \in 1 .. Len(visits) /\ n \in Nodes /\ ClassOf(n) \in Classes
  BY <1>1, LevelIndices, VisitNode DEF Followed, Level
<1>3. Range(NextItems) = Range(ResolveItems) \cup Range(autoItems) \cup Range(ExistingItems)
  BY <1>1, NextItemsPlaced
<1>4. /\ ResolveItems = LevelItems(ResolvePieces) /\ ExistingItems = LevelItems(ExistingPieces)
      /\ \A j \in Level, g \in Fields : ResolvePieces[j][g] \in Seq(LevelChildren)
      /\ \A j \in Level, g \in Fields : ExistingPieces[j][g] \in Seq(LevelChildren)
  BY <1>1, ItemsByPiece, ResolvePiece, ExistingPiece
<1>5. CASE f \in ResolveFields(ClassOf(n))
  <2>1. <<i, f>> \in DOMAIN outputs
    BY <1>1, <1>5 DEF OutputsInv, Awaits
  <2>2. value = outputs[<<i, f>>]
    <3>1. <<i, f>>[1] = i /\ <<i, f>>[2] = f
      OBVIOUS
    <3>2. \A p \in DOMAIN outputs : heap[visits[p[1]].node][p[2]] = outputs[p]
      BY DEF WalkInv, WrittenInv
    <3>. QED BY <2>1, <3>1, <3>2
  <2>3. \A y \in 1 .. Len(outputs[<<i, f>>]) : \E w \in Range(ResolvePieces[i][f]) :
          w.path = Append(visits[i].path, outputs[<<i, f>>][y])
    <3>1. LET s == ResolvePieces[i][f]
          IN <<i, f>> \in DOMAIN outputs => \A y \in 1 .. Len(outputs[<<i, f>>]) :
               \E w \in Range(s) : w.path = Append(visits[i].path, outputs[<<i, f>>][y])
      BY <1>1, <1>2, ResolvePiece
    <3>. QED BY <2>1, <3>1
  <2>4. Range(ResolvePieces[i][f]) \subseteq Range(ResolveItems)
    BY <1>1, <1>2, <1>4, LevelItemsMembers
  <2>5. x \in 1 .. Len(outputs[<<i, f>>])
    BY <2>2
  <2>. QED BY <1>3, <2>2, <2>3, <2>4, <2>5
<1>6. CASE f \notin ResolveFields(ClassOf(n)) /\ Loads(n, f)
  <2>1. doc.registry /\ f \in AutoFields(ClassOf(n))
    BY <1>6 DEF Loads
  <2>2. <<n, f>> \in loaded /\ \A y \in 1 .. Len(doc.loads[latest][n][f]) : \E w \in Range(autoItems) :
          w.path = Append(visits[i].path, doc.loads[latest][n][f][y])
    BY <1>1, <1>6, <2>1 DEF GroupsInv, GroupsLoad, GroupItems, GroupsCover, GroupDone
  <2>3. value = doc.loads[latest][n][f]
    <3>1. <<n, f>>[1] = n /\ <<n, f>>[2] = f
      OBVIOUS
    <3>2. \A g \in loaded : heap[g[1]][g[2]] = doc.loads[latest][g[1]][g[2]]
      BY DEF WalkInv, WrittenInv
    <3>. QED BY <2>2, <3>1, <3>2
  <2>. QED BY <1>3, <2>2, <2>3
<1>7. CASE ~Loads(n, f)
  <2>1. f \in TraversableFields(ClassOf(n), doc.registry)
    BY <1>7 DEF Followed
  <2>2. CachedTraversable(ClassOf(n)) = TraversableFields(ClassOf(n), doc.registry)
    <3>1. traversable[ClassOf(n)] \subseteq {TraversableFields(ClassOf(n), doc.registry)}
      BY <1>2 DEF WalkInv, CacheFrom
    <3>. QED BY <3>1 DEF CachedTraversable
  <2>3. <<n, f>> \notin LoadedKeys
    <3>1. ASSUME <<n, f>> \in loaded PROVE FALSE
      <4>1. <<n, f>>[1] = n /\ <<n, f>>[2] = f
        OBVIOUS
      <4>. QED BY <1>1, <1>7, <3>1, <4>1 DEF GroupsInv, GroupsLoad, GroupItems, GroupsCover, GroupDone
    <3>2. ASSUME NEW p \in DOMAIN outputs, <<n, f>> = <<visits[p[1]].node, p[2]>> PROVE FALSE
      <4>1. PICK j \in Level : \E g \in ResolveFields(ClassOf(visits[j].node)) : p = <<j, g>>
        BY <1>1, <3>2 DEF OutputsInv
      <4>2. PICK g \in ResolveFields(ClassOf(visits[j].node)) : p = <<j, g>>
        BY <4>1
      <4>3. n = visits[j].node /\ f = g
        BY <3>2, <4>2
      <4>. QED BY <1>7, <4>2, <4>3 DEF Loads
    <3>. QED BY <3>1, <3>2 DEF LoadedKeys
  <2>4. Unloaded(i, f)
    BY <2>1, <2>2, <2>3 DEF Unloaded
  <2>5. \E w \in Range(ExistingPieces[i][f]) : w.path = Append(visits[i].path, value[x])
    BY <1>1, <1>2, <2>4, ExistingPiece
  <2>6. Range(ExistingPieces[i][f]) \subseteq Range(ExistingItems)
    BY <1>1, <1>2, <1>4, LevelItemsMembers
  <2>. QED BY <1>3, <2>5, <2>6
<1>8. f \in ResolveFields(ClassOf(n)) => Loads(n, f)
  BY DEF Loads
<1>. QED BY <1>5, <1>6, <1>7, <1>8

\* The places of the document, the level and what a call loads do not change
\* while the document, the call and the visits stand.
LEMMA PlacesFrame ==
  ASSUME UNCHANGED <<doc, latest>>
  PROVE  /\ \A n, f : Held(n, f)' = Held(n, f) /\ (Loads(n, f)' <=> Loads(n, f))
         /\ IsTree(latest)' <=> IsTree(latest)
         /\ \A n : Followed(n)' = Followed(n) /\ ClassOf(n)' = ClassOf(n)
<1>1. \A n, f : Held(n, f)' = Held(n, f) /\ (Loads(n, f)' <=> Loads(n, f))
  BY DEF Held, Loads, ClassOf
<1>2. References(latest)' = References(latest)
  BY DEF References, Held
<1>3. IsTree(latest)' <=> IsTree(latest)
  BY <1>2 DEF IsTree
<1>4. \A n : Followed(n)' = Followed(n) /\ ClassOf(n)' = ClassOf(n)
  BY DEF Followed, Loads, ClassOf
<1>. QED BY <1>1, <1>3, <1>4

\* The visits stand, and so does what a tree makes of them.
LEMMA RootedFrame ==
  ASSUME UNCHANGED <<doc, latest, visits>>
  PROVE  /\ Rooted(doc, latest, visits)' <=> Rooted(doc, latest, visits)
         /\ IsTree(latest)' <=> IsTree(latest)
BY PlacesFrame

\* A step that leaves the walk where it is.
LEMMA WalkFrame ==
  ASSUME WalkInv, UNCHANGED <<doc, heap, traversable, latest, strays, visits, depth, phaseA>>,
         pc'[latest] = pc[latest], \A j \in jobs' : j \in jobs /\ pc'[j.call] # "idle",
         \A j \in jobs : pc[latest] = "resolving" /\ j.call = latest => j \in jobs'
  PROVE  WalkInv'
<1>1. HeapFrom' /\ CacheFrom' /\ JobsBegun'
  BY DEF WalkInv, HeapFrom, CacheFrom, JobsBegun, Held
<1>2. UNCHANGED <<outputs, autoLeft, autoItems, loaded>> /\ Level' = Level
  BY DEF phaseA, Level, LevelOf
<1>3. ASSUME pc[latest] = "resolving" PROVE OutputsInv' /\ GroupsInv'
  <2>1. OutputsInv'
    BY <1>2, <1>3 DEF WalkInv, LevelInv, OutputsInv, ClassOf
  <2>2. GroupsInv'
    <3>0. GroupsInv
      BY <1>3 DEF WalkInv, LevelInv
    <3>1. \A w, i, f : Placed(w, i, f)' <=> Placed(w, i, f)
      BY <1>2 DEF Placed, Held
    <3>2. UNCHANGED <<doc, latest, visits, autoLeft, autoItems, loaded>>
      BY <1>2
    <3>3. GroupsLoad'
      BY <3>0, <3>2 DEF GroupsInv, GroupsLoad, Loads, ClassOf
    <3>4. GroupItems'
      BY <1>2, <3>0, <3>1, <3>2 DEF GroupsInv, GroupItems, ClassOf
    <3>5. \A i, f : GroupDone(i, f)' <=> GroupDone(i, f)
      BY <3>2 DEF GroupDone
    <3>6. GroupsCover'
      BY <1>2, <3>0, <3>2, <3>5 DEF GroupsInv, GroupsCover, Loads, ClassOf
    <3>. QED BY <3>3, <3>4, <3>6 DEF GroupsInv
  <2>. QED BY <2>1, <2>2
<1>4. LevelInv'
  BY <1>3 DEF LevelInv
<1>5. TreeInv'
  BY <1>2, RootedFrame DEF WalkInv, TreeInv
<1>6. WrittenInv'
  BY <1>2, PlacesFrame DEF WalkInv, WrittenInv, Walking, Settled
<1>7. FollowedInv'
  BY <1>2, PlacesFrame, SMTT(30) DEF WalkInv, FollowedInv, Walking, Settled, VisitedBelow
<1>. QED BY <1>1, <1>4, <1>5, <1>6, <1>7 DEF WalkInv

\* A step of phase B, or out of a call.
LEMMA WalkOver ==
  ASSUME WalkInv, UNCHANGED <<doc, heap, traversable, latest, strays, visits>>,
         pc'[latest] # "resolving", pc'[latest] \in {"failed", "cancelled"}
                                    \/ pc[latest] \in {"posting", "handling"},
         \A j \in jobs' : j \in jobs /\ pc'[j.call] # "idle"
  PROVE  WalkInv'
<1>1. HeapFrom' /\ CacheFrom' /\ JobsBegun' /\ LevelInv'
  BY DEF WalkInv, HeapFrom, CacheFrom, JobsBegun, LevelInv, Held
<1>2. TreeInv'
  BY RootedFrame DEF WalkInv, TreeInv
<1>3. WrittenInv'
  BY PlacesFrame DEF WalkInv, WrittenInv, Walking, Settled
<1>4. FollowedInv'
  <2>1. Walking' => Walking
    BY DEF Walking
  <2>2. Walking' => \A i : Settled(i)
    BY DEF Settled, Walking
  <2>3. \A i, f : VisitedBelow(i, f)' <=> VisitedBelow(i, f)
    BY DEF VisitedBelow
  <2>4. \A n : Followed(n)' = Followed(n)
    BY PlacesFrame
  <2>. QED BY <2>1, <2>2, <2>3, <2>4 DEF WalkInv, FollowedInv
<1>. QED BY <1>1, <1>2, <1>3, <1>4 DEF WalkInv

\* A level is entered with a coroutine for each resolve_* method of its nodes
\* and a group for each field they auto-load.
LEMMA EnterWalk ==
  ASSUME NEW c, NEW vs, NEW d, EnterLevel(c, vs, d), latest' = c, doc' = doc,
         \A j \in jobs : j.call # c
  PROVE  OutputsInv' /\ GroupsInv'
<1>1. /\ visits' = vs /\ depth' = d /\ outputs' = Empty /\ autoItems' = << >> /\ loaded' = {}
      /\ jobs' = jobs \cup UNION {{[call |-> c, visit |-> i, node |-> vs[i].node, field |-> f] :
                                     f \in ResolveFields(ClassOf(vs[i].node))} : i \in LevelOf(vs, d)}
      /\ autoLeft' = IF doc.registry
                 THEN UNION {{<<ClassOf(vs[i].node), f>> : f \in AutoFields(ClassOf(vs[i].node))} :
                               i \in LevelOf(vs, d)}
                 ELSE {}
  BY DEF EnterLevel
<1>2. Level' = LevelOf(vs, d)
  BY <1>1 DEF Level, LevelOf
<1>3. \A n : ClassOf(n)' = ClassOf(n)
  BY DEF ClassOf
<1>4. DOMAIN outputs' = {} /\ Range(autoItems') = {}
  BY <1>1 DEF Empty, Range
<1>5. OutputsInv'
  <2>1. ASSUME NEW j \in jobs', j.call = c
        PROVE  /\ j.visit \in Level' /\ j.node = visits'[j.visit].node
               /\ j.field \in ResolveFields(ClassOf(j.node))
    <3>1. PICK i \in LevelOf(vs, d) : \E f \in ResolveFields(ClassOf(vs[i].node)) :
            j = [call |-> c, visit |-> i, node |-> vs[i].node, field |-> f]
      BY <1>1, <2>1
    <3>. QED BY <1>1, <1>2, <3>1
  <2>2. ASSUME NEW i \in Level', NEW f \in ResolveFields(ClassOf(visits'[i].node))
        PROVE  \E j \in jobs' : j.call = c /\ j.visit = i /\ j.field = f
    <3> DEFINE j == [call |-> c, visit |-> i, node |-> vs[i].node, field |-> f]
    <3>1. j \in {[call |-> c, visit |-> i, node |-> vs[i].node, field |-> g] :
                   g \in ResolveFields(ClassOf(vs[i].node))}
      BY <1>1, <2>2
    <3>2. i \in LevelOf(vs, d)
      BY <1>2, <2>2
    <3>3. j \in jobs'
      <4>. HIDE DEF j
      <4>. QED BY <1>1, <3>1, <3>2
    <3>. QED BY <3>3
  <2>. QED BY <1>3, <1>4, <2>1, <2>2 DEF OutputsInv
<1>6. GroupsInv'
  <2>1. ASSUME NEW g \in autoLeft' PROVE doc.registry /\ g[2] \in AutoFields(g[1])
    <3>1. doc.registry
      BY <1>1, <2>1
    <3>2. PICK i \in LevelOf(vs, d) : \E f \in AutoFields(ClassOf(vs[i].node)) :
            g = <<ClassOf(vs[i].node), f>>
      BY <1>1, <2>1, <3>1
    <3>. QED BY <3>1, <3>2
  <2>2. ASSUME NEW i \in Level', NEW f \in AutoFields(ClassOf(visits'[i].node)), doc.registry
        PROVE  <<ClassOf(visits'[i].node), f>> \in autoLeft'
    BY <1>1, <1>2, <2>2
  <2>. QED BY <1>1, <1>3, <1>4, <2>1, <2>2 DEF GroupsInv, GroupsLoad, GroupItems, GroupsCover
<1>. QED BY <1>5, <1>6

\* The first level.
LEMMA BeginWalk ==
  ASSUME ResolverAssumption, TraversalInv, WalkInv, NEW c \in Calls, Begin(c)
  PROVE  WalkInv'
<1> DEFINE roots == doc.roots[c]
           vs == [i \in 1 .. Len(roots) |-> LevelNode(roots[i], << >>, Empty)]
<1>0. /\ UNCHANGED <<doc, heap, traversable>> /\ strays' = {} /\ EnterLevel(c, vs, 1)
      /\ latest' = c /\ pc[c] = "idle"
  BY DEF Begin
<1>1. roots \in Values /\ Len(roots) \in Nat
  BY DocFacts DEF TraversalInv, Values
<1>2. /\ visits' = vs /\ depth' = 1 /\ pc' = [pc EXCEPT ![c] = "resolving"]
      /\ autoItems' = << >> /\ loaded' = {} /\ DOMAIN outputs' = {}
  BY <1>0 DEF EnterLevel, Empty
<1>3. Len(vs) = Len(roots)
      /\ \A i \in 1 .. Len(roots) : vs[i].node = roots[i] /\ Len(vs[i].path) = 1
  BY <1>1 DEF LevelNode
<1>. HIDE DEF vs, roots
<1>4. \A j \in jobs : j.call # c
  BY <1>0 DEF WalkInv, JobsBegun
<1>5. LevelInv'
  <2>1. OutputsInv' /\ GroupsInv'
    BY <1>0, <1>4, EnterWalk
  <2>. QED BY <2>1 DEF LevelInv
<1>6. HeapFrom' /\ CacheFrom'
  BY <1>0 DEF WalkInv, HeapFrom, CacheFrom, Held
<1>7. JobsBegun'
  <2>1. \A j \in jobs' : j \in jobs \/ j.call = c
    BY <1>0 DEF EnterLevel
  <2>2. \A j \in jobs : j.call \in Calls
    BY DEF TraversalInv, GuardInv
  <2>3. \A d \in Calls : pc'[d] = "idle" => pc[d] = "idle" /\ d # c
    BY <1>2 DEF TraversalInv, GuardInv
  <2>. QED BY <2>1, <2>2, <2>3 DEF WalkInv, JobsBegun
<1>8. \A i \in 1 .. Len(visits') : Len(visits'[i].path) = 1
  BY <1>2, <1>3
<1>9. TreeInv'
  <2>1. Rooted(doc, latest, visits)'
    <3>1. \A i \in 1 .. Len(vs) : \E x \in 1 .. Len(doc'.roots[latest']) :
            vs[i].node = doc'.roots[latest'][x]
      BY <1>0, <1>3 DEF roots
    <3>. QED BY <1>2, <1>8, <3>1 DEF Rooted
  <2>2. ASSUME IsTree(latest)' PROVE Unshared(vs)
    <3>1. ASSUME NEW i \in 1 .. Len(roots)
          PROVE  <<"root", Scalar, i, roots[i]>> \in References(latest)'
      BY <1>0, <3>1 DEF References, roots
    <3>2. ASSUME NEW i \in 1 .. Len(vs), NEW j \in 1 .. Len(vs), vs[i].node = vs[j].node
          PROVE  i = j
      <4>1. /\ <<"root", Scalar, i, roots[i]>> \in References(latest)'
            /\ <<"root", Scalar, j, roots[j]>> \in References(latest)'
            /\ roots[i] = roots[j]
        BY <1>3, <3>1, <3>2
      <4>2. <<"root", Scalar, i, roots[i]>> = <<"root", Scalar, j, roots[j]>>
        BY <2>2, <4>1 DEF IsTree
      <4>. QED BY <4>2
    <3>. QED BY <3>2 DEF Unshared
  <2>3. Once(autoItems')
    BY <1>2 DEF Once
  <2>. QED BY <1>2, <2>1, <2>2, <2>3 DEF TreeInv
<1>10. pc'[latest'] = "resolving"
  BY <1>0, <1>2 DEF TraversalInv, GuardInv
<1>11. \A i \in 1 .. Len(visits') : ~Settled(i)'
  <2>1. ~(1 < 1)
    OBVIOUS
  <2>. QED BY <1>2, <1>8, <1>10, <2>1, Zenon DEF Settled
<1>12. WrittenInv' /\ FollowedInv'
  BY <1>2, <1>11 DEF WrittenInv, FollowedInv
<1>. QED BY <1>5, <1>6, <1>7, <1>9, <1>12 DEF WalkInv

\* While the walk goes on, only what the call loads is written: what stands in
\* the fields of settled visits stays.
LEMMA SettledKept ==
  ASSUME ResolverAssumption, TraversalInv, WalkInv, UNCHANGED <<doc, latest, visits, depth, pc, strays>>,
         \A n \in Nodes, f \in Fields :
           \/ heap'[n][f] = heap[n][f]
           \/ Loads(n, f) /\ heap'[n][f] = doc.loads[latest][n][f]
  PROVE  /\ FollowedInv'
         /\ Walking => \A i \in 1 .. Len(visits) : \A f \in Fields :
              Settled(i) /\ Loads(visits[i].node, f) =>
                heap'[visits[i].node][f] = doc.loads[latest][visits[i].node][f]
<1>1. \A i \in 1 .. Len(visits) : visits[i].node \in Nodes
  BY VisitNode DEF TraversalInv
<1>2. ASSUME Walking, NEW i \in 1 .. Len(visits), NEW f \in Fields, Settled(i)
      PROVE  /\ heap'[visits[i].node][f] = heap[visits[i].node][f]
             /\ Loads(visits[i].node, f) =>
                  heap'[visits[i].node][f] = doc.loads[latest][visits[i].node][f]
  <2>1. Loads(visits[i].node, f) =>
          heap[visits[i].node][f] = doc.loads[latest][visits[i].node][f]
    BY <1>2 DEF WalkInv, WrittenInv
  <2>2. \/ heap'[visits[i].node][f] = heap[visits[i].node][f]
        \/ /\ Loads(visits[i].node, f)
           /\ heap'[visits[i].node][f] = doc.loads[latest][visits[i].node][f]
    BY <1>1
  <2>. QED BY <2>1, <2>2
<1>3. Walking' = Walking /\ \A i : Settled(i)' <=> Settled(i)
  BY DEF Walking, Settled
<1>4. ASSUME Walking, doc.scannedBefore = {}, NEW i \in 1 .. Len(visits), Settled(i),
             NEW f \in Followed(visits[i].node)
      PROVE  VisitedBelow(i, f)'
  <2>1. f \in Fields /\ VisitedBelow(i, f)
    BY <1>4 DEF Followed, WalkInv, FollowedInv
  <2>2. heap'[visits'[i].node][f] = heap[visits[i].node][f]
    BY <1>2, <1>4, <2>1
  <2>. QED BY <2>1, <2>2 DEF VisitedBelow
<1>5. \A i : Followed(visits[i].node)' = Followed(visits[i].node)
  BY DEF Followed, Loads, ClassOf
<1>6. FollowedInv'
  BY <1>3, <1>4, <1>5 DEF FollowedInv
<1>. QED BY <1>2, <1>6

\* A coroutine returns.  One of the running call is then an output of its visit;
\* one that outlived its call makes a stray.
LEMMA ReturnWalk ==
  ASSUME ResolverAssumption, TraversalInv, WalkInv, NEW j \in jobs, ResolveReturns(j)
  PROVE  WalkInv'
<1> DEFINE val == doc.loads[j.call][j.node][j.field]
<1>0. UNCHANGED <<doc, traversable, pc, latest, visits, depth, autoLeft, autoItems, loaded>>
      /\ jobs' = jobs \ {j}
  BY DEF ResolveReturns
<1>1. j.call \in Calls /\ j.node \in Nodes /\ j.field \in Fields
      /\ heap \in [Nodes -> [Fields -> Values]] /\ latest \in Calls
  BY DEF TraversalInv, StoreInv, GuardInv
<1>2. \A n \in Nodes, f \in Fields :
        heap'[n][f] = IF n = j.node /\ f = j.field THEN val ELSE heap[n][f]
  BY <1>1 DEF ResolveReturns
<1>3. HeapFrom'
  <2>1. \A n \in Nodes, f \in Fields :
          heap'[n][f] = heap[n][f] \/ \E c \in Calls : heap'[n][f] = doc.loads[c][n][f]
    BY <1>1, <1>2
  <2>. QED BY <1>0, <2>1 DEF WalkInv, HeapFrom, Held
<1>4. CacheFrom' /\ JobsBegun'
  BY <1>0 DEF WalkInv, CacheFrom, JobsBegun
<1>5. TreeInv'
  BY <1>0, RootedFrame DEF WalkInv, TreeInv
<1>6. Level' = Level
  BY <1>0 DEF Level, LevelOf
<1>7. ASSUME pc[latest] = "resolving" PROVE GroupsInv'
  <2>0. GroupsInv
    BY <1>7 DEF WalkInv, LevelInv
  <2>1. \A w, i, f : Placed(w, i, f)' <=> Placed(w, i, f)
    BY <1>0, <1>6 DEF Placed, Held
  <2>2. UNCHANGED <<doc, latest, visits, autoLeft, autoItems, loaded>>
    BY <1>0
  <2>3. GroupsLoad'
    BY <2>0, <2>2 DEF GroupsInv, GroupsLoad, Loads, ClassOf
  <2>4. GroupItems'
    BY <1>6, <2>0, <2>1, <2>2 DEF GroupsInv, GroupItems, ClassOf
  <2>5. \A i, f : GroupDone(i, f)' <=> GroupDone(i, f)
    BY <2>2 DEF GroupDone
  <2>6. GroupsCover'
    BY <1>6, <2>0, <2>2, <2>5 DEF GroupsInv, GroupsCover, Loads, ClassOf
  <2>. QED BY <2>3, <2>4, <2>6 DEF GroupsInv
<1>8. CASE pc[j.call] = "resolving"
  <2>1. j.call = latest /\ pc[latest] = "resolving" /\ strays' = strays
        /\ outputs' = Over([p \in {<<j.visit, j.field>>} |-> val], outputs)
    BY <1>1, <1>8, ActiveIsLatest DEF TraversalInv, Active, ResolveReturns
  <2>2. OutputsInv /\ GroupsInv
    BY <2>1 DEF WalkInv, LevelInv
  <2>3. j.visit \in Level /\ j.node = visits[j.visit].node /\ j.field \in ResolveFields(ClassOf(j.node))
    BY <2>1, <2>2 DEF OutputsInv
  <2>4. val = doc.loads[latest][j.node][j.field] /\ Loads(j.node, j.field)
    BY <2>1, <2>3 DEF Loads
  <2>. HIDE DEF val
  <2>5. /\ DOMAIN outputs' = {<<j.visit, j.field>>} \cup DOMAIN outputs
        /\ \A p \in DOMAIN outputs' :
             outputs'[p] = IF p = <<j.visit, j.field>> THEN val ELSE outputs[p]
    BY <2>1 DEF Over
  <2>6. OutputsInv'
    <3>1. \A k \in jobs' : k.call = latest =>
            /\ k.visit \in Level /\ k.node = visits[k.visit].node
            /\ k.field \in ResolveFields(ClassOf(k.node))
      BY <1>0, <2>2 DEF OutputsInv
    <3>2. ASSUME NEW p \in DOMAIN outputs'
          PROVE  \E i \in Level : \E f \in ResolveFields(ClassOf(visits[i].node)) :
                   p = <<i, f>> /\ outputs'[p] = doc.loads[latest][visits[i].node][f]
      <4>1. CASE p = <<j.visit, j.field>>
        BY <2>3, <2>4, <2>5, <4>1
      <4>2. CASE p # <<j.visit, j.field>>
        BY <2>2, <2>5, <4>2 DEF OutputsInv
      <4>. QED BY <4>1, <4>2
    <3>3. ASSUME NEW i \in Level, NEW f \in ResolveFields(ClassOf(visits[i].node))
          PROVE  \/ <<i, f>> \in DOMAIN outputs'
                 \/ \E k \in jobs' : k.call = latest /\ k.visit = i /\ k.field = f
      <4>1. CASE <<i, f>> \in DOMAIN outputs
        BY <2>5, <4>1
      <4>2. CASE <<i, f>> \notin DOMAIN outputs
        <5>1. PICK k \in jobs : k.call = latest /\ k.visit = i /\ k.field = f
          BY <2>2, <4>2 DEF OutputsInv
        <5>2. k = j => <<i, f>> \in DOMAIN outputs'
          BY <2>5, <5>1
        <5>. QED BY <1>0, <5>1, <5>2
      <4>. QED BY <4>1, <4>2
    <3>. QED BY <1>0, <1>6, <3>1, <3>2, <3>3 DEF OutputsInv, ClassOf
  <2>7. LevelInv'
    BY <1>7, <2>1, <2>6 DEF LevelInv
  <2>8. /\ FollowedInv'
        /\ Walking => \A i \in 1 .. Len(visits) : \A f \in Fields :
             Settled(i) /\ Loads(visits[i].node, f) =>
               heap'[visits[i].node][f] = doc.loads[latest][visits[i].node][f]
    <3>1. \A n \in Nodes, f \in Fields :
            \/ heap'[n][f] = heap[n][f]
            \/ Loads(n, f) /\ heap'[n][f] = doc.loads[latest][n][f]
      BY <1>2, <2>4
    <3>. QED BY <1>0, <2>1, <3>1, SettledKept
  <2>9. ASSUME Walking, NEW p \in DOMAIN outputs'
        PROVE  heap'[visits[p[1]].node][p[2]] = outputs'[p]
    <3>1. PICK i \in Level : \E f \in ResolveFields(ClassOf(visits[i].node)) :
            p = <<i, f>> /\ outputs'[p] = doc.loads[latest][visits[i].node][f]
      BY <1>0, <1>6, <2>6, <2>9 DEF OutputsInv, ClassOf
    <3>2. PICK f \in ResolveFields(ClassOf(visits[i].node)) :
            p = <<i, f>> /\ outputs'[p] = doc.loads[latest][visits[i].node][f]
      BY <3>1
    <3>3. visits[i].node \in Nodes /\ f \in Fields
      BY LevelIndices, VisitNode, ClassFields DEF Level, TraversalInv
    <3>4. CASE visits[i].node = j.node /\ f = j.field
      BY <1>2, <2>4, <3>2, <3>3, <3>4
    <3>5. CASE ~(visits[i].node = j.node /\ f = j.field)
      <4>1. p # <<j.visit, j.field>>
        BY <2>3, <3>2, <3>5
      <4>2. p \in DOMAIN outputs /\ outputs'[p] = outputs[p]
        BY <2>5, <2>9, <4>1
      <4>3. heap[visits[p[1]].node][p[2]] = outputs[p]
        BY <2>1, <2>9, <4>2 DEF WalkInv, WrittenInv
      <4>4. p[1] = i /\ p[2] = f
        BY <3>2
      <4>. QED BY <1>2, <3>3, <3>5, <4>2, <4>3, <4>4
    <3>. QED BY <3>4, <3>5
  <2>10. ASSUME Walking, NEW g \in loaded
         PROVE  heap'[g[1]][g[2]] = doc.loads[latest][g[1]][g[2]]
    <3>1. g[1] \in Nodes /\ g[2] \in Fields
      BY <2>10 DEF TraversalInv, StoreInv
    <3>2. heap[g[1]][g[2]] = doc.loads[latest][g[1]][g[2]]
      BY <2>1, <2>10 DEF WalkInv, WrittenInv
    <3>. QED BY <1>2, <2>4, <3>1, <3>2
  <2>11. WrittenInv'
    <3>1. Walking' = Walking /\ \A i : Settled(i)' <=> Settled(i)
      BY <1>0, <2>1 DEF Walking, Settled
    <3>2. \A i, f : Loads(visits[i].node, f)' <=> Loads(visits[i].node, f)
      BY <1>0 DEF Loads, ClassOf
    <3>. QED BY <1>0, <2>8, <2>9, <2>10, <3>1, <3>2 DEF WrittenInv
  <2>. QED BY <1>3, <1>4, <1>5, <2>7, <2>8, <2>11 DEF WalkInv
<1>9. CASE pc[j.call] # "resolving"
  <2>1. strays' # {} /\ outputs' = outputs
    BY <1>9 DEF ResolveReturns
  <2>2. WrittenInv' /\ FollowedInv'
    BY <2>1 DEF WrittenInv, FollowedInv, Walking
  <2>3. ASSUME pc[latest] = "resolving" PROVE OutputsInv'
    <3>1. j.call # latest
      BY <1>9, <2>3
    <3>. QED BY <1>0, <1>6, <2>1, <2>3, <3>1 DEF WalkInv, LevelInv, OutputsInv, ClassOf
  <2>4. LevelInv'
    BY <1>0, <1>7, <2>3 DEF LevelInv
  <2>. QED BY <1>3, <1>4, <1>5, <2>2, <2>4 DEF WalkInv
<1>. QED BY <1>8, <1>9

\* What a group appends: the children of the visits it hits, each through the
\* field of the group.
LEMMA LoadedItemsPlaced ==
  ASSUME ResolverAssumption, TraversalInv, NEW f \in Fields, NEW hit, hit \subseteq Level
  PROVE  LET s == LoadedItems(latest, f, hit)
         IN /\ s \in Seq(LevelChildren)
            /\ \A w \in Range(s) : \E i \in hit : Placed(w, i, f)
            /\ \A i \in hit : \A x \in 1 .. Len(doc.loads[latest][visits[i].node][f]) :
                 \E w \in Range(s) :
                   w.path = Append(visits[i].path, doc.loads[latest][visits[i].node][f][x])
            /\ IsTree(latest) /\ Unshared(visits) => Once(s)
<1> DEFINE o == InOrder(hit)
           n == Len(o)
           value(i) == doc.loads[latest][visits[i].node][f]
           Part(i) == ChildrenOf(visits[i], value(i))
           ss == [k \in 1 .. n |-> Part(o[k])]
           s == LoadedItems(latest, f, hit)
<1>1. doc \in Docs /\ VisitsInv /\ latest \in Calls
  BY DEF TraversalInv, GuardInv
<1>2. hit \subseteq 1 .. Len(visits) /\ Len(visits) \in Nat
  BY <1>1, LevelIndices DEF Level
<1>3. /\ o \in Seq(hit)
      /\ \A k, l \in 1 .. Len(o) : k < l => o[k] < o[l]
      /\ \A i \in hit : \E k \in 1 .. Len(o) : o[k] = i
  BY <1>1, <1>2, InOrderType
<1>4. s = Concat(ss, n)
  BY DEF LoadedItems
<1>5. ASSUME NEW i \in hit
      PROVE  /\ Part(i) \in Seq(LevelChildren)
             /\ \A w \in Range(Part(i)) : Placed(w, i, f)
             /\ \A x \in 1 .. Len(value(i)) : \E w \in Range(Part(i)) :
                  w.path = Append(visits[i].path, value(i)[x])
             /\ IsTree(latest) => Once(Part(i))
  <2>1. i \in Level /\ visits[i].node \in Nodes
    BY <1>1, <1>2, VisitNode
  <2>2. value(i) \in Held(visits[i].node, f)
    BY <1>1, <2>1, HeldValues
  <2>. HIDE DEF value
  <2>3. LET t == ChildrenOf(visits[i], value(i))
        IN /\ t \in Seq(LevelChildren)
           /\ \A w \in Range(t) : Placed(w, i, f)
           /\ \A x \in 1 .. Len(value(i)) : \E w \in Range(t) :
                w.path = Append(visits[i].path, value(i)[x])
           /\ IsTree(latest) => Once(t)
    BY <1>1, <2>1, <2>2, ChildrenPlaced
  <2>. QED BY <2>3
<1>6. \A k \in 1 .. n : ss[k] = Part(o[k])
  OBVIOUS
<1>. HIDE DEF o, ss, s, Part, value
<1>7. n \in Nat /\ \A k \in 1 .. n : o[k] \in hit
  BY <1>3
<1>8. \A k, l \in 1 .. n : o[k] = o[l] => k = l
  <2> SUFFICES ASSUME NEW k \in 1 .. n, NEW l \in 1 .. n, o[k] = o[l] PROVE k = l
    OBVIOUS
  <2>1. o[k] \in Nat /\ o[l] \in Nat
    <3>1. \A i \in hit : i \in Nat
      BY <1>2
    <3>. QED BY <1>7, <3>1
  <2>2. ~(o[k] < o[l]) /\ ~(o[l] < o[k])
    BY <2>1
  <2>3. k < l \/ l < k \/ k = l
    BY <1>7
  <2>. QED BY <1>3, <2>2, <2>3 DEF n
<1>. HIDE DEF n
<1>9. \A k \in 1 .. n : ss[k] \in Seq(LevelChildren)
  BY <1>5, <1>6, <1>7
<1>10. s \in Seq(LevelChildren)
  BY <1>4, <1>7, <1>9, ConcatType
<1>11. Range(s) = UNION {Range(ss[k]) : k \in 1 .. n}
  BY <1>4, <1>7, <1>9, ConcatMembers
<1>12. \A w \in Range(s) : \E i \in hit : w \in Range(Part(i))
  BY <1>6, <1>7, <1>11
<1>13. \A i \in hit : Range(Part(i)) \subseteq Range(s)
  <2> TAKE i \in hit
  <2>1. PICK k \in 1 .. n : o[k] = i
    BY <1>3 DEF n
  <2>2. Range(ss[k]) \subseteq Range(s) /\ ss[k] = Part(i)
    BY <1>6, <1>11, <2>1
  <2>. QED BY <2>2
<1>14. \A w \in Range(s) : \E i \in hit : Placed(w, i, f)
  BY <1>5, <1>12
<1>15. \A i \in hit : \A x \in 1 .. Len(value(i)) : \E w \in Range(s) :
         w.path = Append(visits[i].path, value(i)[x])
  BY <1>5, <1>13
<1>16. ASSUME IsTree(latest), Unshared(visits) PROVE Once(s)
  <2>1. \A k \in 1 .. n : ss[k] \in Seq(LevelChildren) /\ Once(ss[k])
    BY <1>5, <1>6, <1>7, <1>16
  <2>2. ASSUME NEW k \in 1 .. n, NEW l \in 1 .. n, NEW w, w \in Range(ss[k]), w \in Range(ss[l])
        PROVE  k = l
    <3>1. Placed(w, o[k], f) /\ Placed(w, o[l], f)
      BY <1>5, <1>6, <1>7, <2>2
    <3>2. o[k] = o[l]
      BY <1>1, <1>16, <3>1, PlacedOnce
    <3>. QED BY <1>8, <3>2
  <2>3. \A k, l \in 1 .. n : k # l => Range(ss[k]) \cap Range(ss[l]) = {}
    BY <2>2
  <2>. QED BY <1>4, <1>7, <2>1, <2>3, ConcatOnce
<1>. QED BY <1>10, <1>14, <1>15, <1>16 DEF s, value

\* A group loads its field on the level's visits of its class.
LEMMA LoadGroupWalk ==
  ASSUME ResolverAssumption, TraversalInv, WalkInv, NEW c \in Calls, NEW k \in Classes, NEW f \in Fields,
         AutoLoadGroup(c, <<k, f>>)
  PROVE  WalkInv'
<1> DEFINE hit == Hit(c, <<k, f>>)
           items == LoadedItems(c, f, hit)
<1>0. /\ UNCHANGED <<doc, traversable, pc, latest, strays, visits, depth, jobs, outputs>>
      /\ autoLeft' = autoLeft \ {<<k, f>>} /\ <<k, f>> \in autoLeft /\ pc[c] = "resolving"
  BY DEF AutoLoadGroup, Remaining
<1>1. /\ heap' = [n \in Nodes |-> IF \E i \in hit : visits[i].node = n
                                  THEN [heap[n] EXCEPT ![f] = doc.loads[c][n][f]] ELSE heap[n]]
      /\ loaded' = loaded \cup {<<visits[i].node, f>> : i \in hit}
      /\ autoItems' = autoItems \o items
  BY GroupWrites
<1>2. /\ autoItems' = autoItems \o items
      /\ loaded' = loaded \cup {<<visits[i].node, f>> : i \in hit}
  BY <1>1
<1>a. hit = {i \in Level : /\ ClassOf(visits[i].node) = k
                           /\ <<visits[i].node, f>> \notin doc.keyless
                           /\ ~(Desc[k].fields[f].one /\ doc.loads[c][visits[i].node][f] = << >>)}
  BY DEF Hit
<1>3. c = latest /\ pc[latest] = "resolving" /\ doc \in Docs /\ VisitsInv
      /\ heap \in [Nodes -> [Fields -> Values]] /\ autoItems \in Seq(LevelChildren)
  BY <1>0, ActiveIsLatest DEF TraversalInv, Active, StoreInv, PhaseInv
<1>4. OutputsInv /\ GroupsLoad /\ GroupItems /\ GroupsCover /\ HeapFrom
  BY <1>3 DEF WalkInv, LevelInv, GroupsInv
<1>5. doc.registry /\ f \in AutoFields(k)
  BY <1>0, <1>4 DEF GroupsLoad
<1>6. /\ hit \subseteq Level /\ hit \subseteq 1 .. Len(visits)
      /\ \A i \in hit : visits[i].node \in Nodes /\ ClassOf(visits[i].node) = k
  BY <1>3, <1>a, LevelIndices, VisitNode DEF Level
<1>7. \A i \in hit : Loads(visits[i].node, f)
  BY <1>3, <1>5, <1>a DEF Loads
<1>8. \A i \in Level : ClassOf(visits[i].node) = k /\ Loads(visits[i].node, f) => i \in hit
  <2>1. f \notin ResolveFields(k)
    BY <1>5 DEF AutoFields, ResolveFields
  <2>. QED BY <1>3, <1>a, <2>1 DEF Loads
<1>9. LET s == items
      IN /\ s \in Seq(LevelChildren)
         /\ \A w \in Range(s) : \E i \in hit : Placed(w, i, f)
         /\ \A i \in hit : \A x \in 1 .. Len(doc.loads[latest][visits[i].node][f]) :
              \E w \in Range(s) :
                w.path = Append(visits[i].path, doc.loads[latest][visits[i].node][f][x])
         /\ IsTree(latest) /\ Unshared(visits) => Once(s)
  <2>1. items = LoadedItems(latest, f, hit)
    BY <1>3
  <2>. HIDE DEF hit, items
  <2>2. LET s == LoadedItems(latest, f, hit)
        IN /\ s \in Seq(LevelChildren)
           /\ \A w \in Range(s) : \E i \in hit : Placed(w, i, f)
           /\ \A i \in hit : \A x \in 1 .. Len(doc.loads[latest][visits[i].node][f]) :
                \E w \in Range(s) :
                  w.path = Append(visits[i].path, doc.loads[latest][visits[i].node][f][x])
           /\ IsTree(latest) /\ Unshared(visits) => Once(s)
    BY <1>6, LoadedItemsPlaced
  <2>. QED BY <2>1, <2>2
<1>. HIDE DEF hit, items
<1>10. \A n \in Nodes, g \in Fields :
         heap'[n][g] = IF g = f /\ (\E i \in hit : visits[i].node = n)
                       THEN doc.loads[latest][n][g] ELSE heap[n][g]
  BY <1>1, <1>3
<1>11. HeapFrom'
  <2>1. latest \in Calls
    BY <1>3
  <2>. QED BY <1>0, <1>4, <1>10, <2>1 DEF HeapFrom, Held
<1>12. CacheFrom' /\ JobsBegun' /\ Level' = Level
  BY <1>0 DEF WalkInv, CacheFrom, JobsBegun, Level, LevelOf
<1>13. OutputsInv'
  BY <1>0, <1>4, <1>12 DEF OutputsInv, ClassOf
<1>14. Range(autoItems') = Range(autoItems) \cup Range(items)
  BY <1>2, <1>3, <1>9, AppendedMembers
<1>15. GroupsLoad'
  <2>1. \A g \in loaded' : g \in loaded \/ \E i \in hit : g = <<visits[i].node, f>>
    BY <1>2
  <2>2. ASSUME NEW g \in loaded'
        PROVE  g[2] \in AutoFields(ClassOf(g[1])) /\ Loads(g[1], g[2])
    <3>1. CASE g \in loaded
      BY <1>4, <3>1 DEF GroupsLoad
    <3>2. CASE g \notin loaded
      <4>1. PICK i \in hit : g = <<visits[i].node, f>>
        BY <2>1, <3>2
      <4>2. g[1] = visits[i].node /\ g[2] = f
        BY <4>1
      <4>. QED BY <1>5, <1>6, <1>7, <4>2
    <3>. QED BY <3>1, <3>2
  <2>. QED BY <1>0, <1>4, <1>5, <2>2 DEF GroupsLoad, Loads, ClassOf
<1>16. GroupItems'
  <2>1. \A w, i, g : Placed(w, i, g)' <=> Placed(w, i, g)
    BY <1>0, <1>12 DEF Placed, Held
  <2>2. ASSUME NEW w \in Range(autoItems')
        PROVE  \E i \in Level, g \in Fields :
                 /\ <<visits[i].node, g>> \in loaded' /\ <<ClassOf(visits[i].node), g>> \notin autoLeft'
                 /\ Placed(w, i, g)
    <3>1. CASE w \in Range(autoItems)
      BY <1>0, <1>2, <1>4, <3>1 DEF GroupItems
    <3>2. CASE w \in Range(items)
      <4>1. PICK i \in hit : Placed(w, i, f)
        BY <1>9, <3>2
      <4>. QED BY <1>0, <1>2, <1>6, <4>1
    <3>. QED BY <1>14, <3>1, <3>2
  <2>. QED BY <1>0, <1>12, <2>1, <2>2 DEF GroupItems, ClassOf
<1>17. GroupsCover'
  <2>1. ASSUME NEW i \in Level, NEW g \in AutoFields(ClassOf(visits[i].node)),
               Loads(visits[i].node, g), <<ClassOf(visits[i].node), g>> \notin autoLeft'
        PROVE  GroupDone(i, g)'
    <3>1. CASE <<ClassOf(visits[i].node), g>> \notin autoLeft
      <4>1. GroupDone(i, g)
        BY <1>4, <1>5, <2>1, <3>1 DEF GroupsCover
      <4>. QED BY <1>0, <1>2, <1>14, <4>1 DEF GroupDone
    <3>2. CASE <<ClassOf(visits[i].node), g>> \in autoLeft
      <4>1. ClassOf(visits[i].node) = k /\ g = f
        BY <1>0, <2>1, <3>2
      <4>2. i \in hit
        BY <1>8, <2>1, <4>1
      <4>3. <<visits[i].node, f>> \in loaded'
        BY <1>2, <4>2
      <4>4. \A x \in 1 .. Len(doc.loads[latest][visits[i].node][f]) : \E w \in Range(autoItems') :
              w.path = Append(visits[i].path, doc.loads[latest][visits[i].node][f][x])
        BY <1>9, <1>14, <4>2
      <4>. QED BY <1>0, <4>1, <4>3, <4>4 DEF GroupDone
    <3>. QED BY <3>1, <3>2
  <2>. QED BY <1>0, <1>12, <2>1 DEF GroupsCover, Loads, ClassOf
<1>18. LevelInv'
  BY <1>13, <1>15, <1>16, <1>17 DEF LevelInv, GroupsInv
<1>19. TreeInv'
  <2>1. ASSUME IsTree(latest) PROVE Unshared(visits) /\ Once(autoItems')
    <3>1. Unshared(visits) /\ Once(autoItems)
      BY <1>3, <2>1 DEF WalkInv, TreeInv
    <3>2. Once(items)
      BY <1>9, <2>1, <3>1
    <3>3. ASSUME NEW w, w \in Range(autoItems), w \in Range(items) PROVE FALSE
      <4>1. PICK i \in Level, g \in Fields :
              <<ClassOf(visits[i].node), g>> \notin autoLeft /\ Placed(w, i, g)
        BY <1>4, <3>3 DEF GroupItems
      <4>2. PICK j \in hit : Placed(w, j, f)
        BY <1>9, <3>3
      <4>3. i = j /\ g = f
        BY <1>3, <2>1, <3>1, <4>1, <4>2, PlacedOnce
      <4>. QED BY <1>0, <1>6, <4>1, <4>3
    <3>4. items \in Seq(LevelChildren) /\ Range(autoItems) \cap Range(items) = {}
      BY <1>9, <3>3
    <3>. QED BY <1>2, <1>3, <3>1, <3>2, <3>4, AppendedOnce
  <2>. QED BY <1>0, <2>1, RootedFrame DEF WalkInv, TreeInv
<1>20. /\ FollowedInv'
       /\ Walking => \A i \in 1 .. Len(visits) : \A g \in Fields :
            Settled(i) /\ Loads(visits[i].node, g) =>
              heap'[visits[i].node][g] = doc.loads[latest][visits[i].node][g]
  <2>1. \A n \in Nodes, g \in Fields :
          \/ heap'[n][g] = heap[n][g]
          \/ Loads(n, g) /\ heap'[n][g] = doc.loads[latest][n][g]
    BY <1>7, <1>10
  <2>. QED BY <1>0, <2>1, SettledKept
<1>21. WrittenInv'
  <2>1. Walking' = Walking /\ \A i : Settled(i)' <=> Settled(i)
    BY <1>0 DEF Walking, Settled
  <2>2. ASSUME Walking, NEW p \in DOMAIN outputs
        PROVE  heap'[visits[p[1]].node][p[2]] = outputs[p]
    <3>1. PICK i \in Level : \E g \in ResolveFields(ClassOf(visits[i].node)) :
            p = <<i, g>> /\ outputs[p] = doc.loads[latest][visits[i].node][g]
      BY <1>4 DEF OutputsInv
    <3>2. PICK g \in ResolveFields(ClassOf(visits[i].node)) :
            p = <<i, g>> /\ outputs[p] = doc.loads[latest][visits[i].node][g]
      BY <3>1
    <3>3. visits[i].node \in Nodes /\ g \in Fields /\ p[1] = i /\ p[2] = g
      BY <1>3, <3>2, LevelIndices, VisitNode, ClassFields DEF Level
    <3>4. heap[visits[i].node][g] = outputs[p]
      BY <1>3, <2>2, <3>3 DEF WalkInv, WrittenInv
    <3>. QED BY <1>10, <3>2, <3>3, <3>4
  <2>3. ASSUME Walking, NEW g \in loaded'
        PROVE  heap'[g[1]][g[2]] = doc.loads[latest][g[1]][g[2]]
    <3>1. CASE g \in loaded
      <4>1. g[1] \in Nodes /\ g[2] \in Fields
        BY <3>1 DEF TraversalInv, StoreInv
      <4>2. heap[g[1]][g[2]] = doc.loads[latest][g[1]][g[2]]
        BY <1>3, <2>3, <3>1 DEF WalkInv, WrittenInv
      <4>. QED BY <1>10, <4>1, <4>2
    <3>2. CASE g \notin loaded
      <4>1. PICK i \in hit : g = <<visits[i].node, f>>
        BY <1>2, <2>3, <3>2
      <4>2. g[1] = visits[i].node /\ g[2] = f
        BY <4>1
      <4>. QED BY <1>6, <1>10, <4>2
    <3>. QED BY <3>1, <3>2
  <2>4. ASSUME Walking, NEW i \in 1 .. Len(visits), NEW g \in Fields,
               Settled(i), Loads(visits[i].node, g)
        PROVE  heap'[visits[i].node][g] = doc.loads[latest][visits[i].node][g]
    BY <1>20, <2>4
  <2>5. \A i, g : Loads(visits[i].node, g)' <=> Loads(visits[i].node, g)
    BY <1>0 DEF Loads, ClassOf
  <2>. QED BY <1>0, <2>1, <2>2, <2>3, <2>4, <2>5 DEF WrittenInv
<1>. QED BY <1>11, <1>12, <1>18, <1>19, <1>20, <1>21 DEF WalkInv

\* At the end of a level what its visits load stands in the heap.
LEMMA LevelLoaded ==
  ASSUME ResolverAssumption, TraversalInv, WalkInv, Walking, pc[latest] = "resolving",
         ~Awaits(latest), autoLeft = {},
         NEW i \in Level, NEW f \in Fields, Loads(visits[i].node, f)
  PROVE  heap[visits[i].node][f] = doc.loads[latest][visits[i].node][f]
<1> DEFINE n == visits[i].node
<1>1. /\ OutputsInv /\ GroupsCover
      /\ \A p \in DOMAIN outputs : heap[visits[p[1]].node][p[2]] = outputs[p]
      /\ \A g \in loaded : heap[g[1]][g[2]] = doc.loads[latest][g[1]][g[2]]
  BY DEF WalkInv, LevelInv, GroupsInv, WrittenInv
<1>2. CASE f \in ResolveFields(ClassOf(n))
  <2>1. <<i, f>> \in DOMAIN outputs
    BY <1>1, <1>2 DEF OutputsInv, Awaits
  <2>2. PICK j \in Level : \E g \in ResolveFields(ClassOf(visits[j].node)) :
          <<i, f>> = <<j, g>> /\ outputs[<<i, f>>] = doc.loads[latest][visits[j].node][g]
    BY <1>1, <2>1 DEF OutputsInv
  <2>3. outputs[<<i, f>>] = doc.loads[latest][n][f]
    BY <2>2
  <2>4. <<i, f>>[1] = i /\ <<i, f>>[2] = f
    OBVIOUS
  <2>5. heap[visits[<<i, f>>[1]].node][<<i, f>>[2]] = outputs[<<i, f>>]
    BY <1>1, <2>1
  <2>. QED BY <2>3, <2>4, <2>5
<1>3. CASE f \notin ResolveFields(ClassOf(n))
  <2>1. doc.registry /\ f \in AutoFields(ClassOf(n))
    BY <1>3 DEF Loads
  <2>2. <<n, f>> \in loaded
    BY <1>1, <2>1 DEF GroupsCover, GroupDone
  <2>3. <<n, f>>[1] = n /\ <<n, f>>[2] = f
    OBVIOUS
  <2>4. heap[<<n, f>>[1]][<<n, f>>[2]] = doc.loads[latest][<<n, f>>[1]][<<n, f>>[2]]
    BY <1>1, <2>2
  <2>. QED BY <2>3, <2>4
<1>. QED BY <1>2, <1>3

\* The entry of the next level for what the fields of visit i hold.
Entered(i, f) ==
  LET value == heap[visits[i].node][f]
  IN \A x \in 1 .. Len(value) : \E w \in Range(NextItems) :
       w.path = Append(visits[i].path, value[x])

\* At the end of a level the visits down to it have settled.
LEMMA LevelEnds ==
  ASSUME ResolverAssumption, TraversalInv, WalkInv, pc[latest] = "resolving",
         ~Awaits(latest), autoLeft = {}, Walking, NEW i \in 1 .. Len(visits)
  PROVE  /\ \A f \in Fields : Loads(visits[i].node, f) =>
              heap[visits[i].node][f] = doc.loads[latest][visits[i].node][f]
         /\ doc.scannedBefore = {} =>
              \A f \in Followed(visits[i].node) : VisitedBelow(i, f) \/ Entered(i, f)
<1>1. CASE i \in Level
  <2>1. \A f \in Fields : Loads(visits[i].node, f) =>
          heap[visits[i].node][f] = doc.loads[latest][visits[i].node][f]
    BY <1>1, LevelLoaded
  <2>2. ASSUME doc.scannedBefore = {}, NEW f \in Followed(visits[i].node)
        PROVE  Entered(i, f)
    <3>1. ASSUME NEW x \in 1 .. Len(heap[visits[i].node][f])
          PROVE  \E w \in Range(NextItems) :
                   w.path = Append(visits[i].path, heap[visits[i].node][f][x])
      BY <1>1, <2>2, NextItemsCover
    <3>. QED BY <3>1 DEF Entered
  <2>. QED BY <2>1, <2>2
<1>2. CASE i \notin Level
  <2>1. Len(visits[i].path) \in Nat /\ depth \in Nat /\ Len(visits[i].path) <= depth
    BY DEF TraversalInv, VisitsInv, WellFormed, PhaseInv
  <2>2. Len(visits[i].path) # depth
    BY <1>2 DEF Level, LevelOf
  <2>3. Settled(i)
    BY <2>1, <2>2 DEF Settled
  <2>. QED BY <2>3 DEF WalkInv, WrittenInv, FollowedInv
<1>. QED BY <1>1, <1>2

\* Neither the heap nor the call changes at the end of a level, and what is
\* cached is what was computed.
LEMMA EndLevelCache ==
  ASSUME WalkInv, NEW c \in Calls, EndLevel(c)
  PROVE  HeapFrom' /\ CacheFrom'
<1>1. /\ UNCHANGED <<doc, heap>>
      /\ traversable' = [k \in Classes |->
           IF \E i \in Level : ClassOf(visits[i].node) = k THEN {CachedTraversable(k)}
           ELSE traversable[k]]
  BY DEF EndLevel
<1>2. HeapFrom'
  BY <1>1 DEF WalkInv, HeapFrom, Held
<1>3. ASSUME doc.scannedBefore = {}, NEW k \in Classes
      PROVE  traversable'[k] \subseteq {TraversableFields(k, doc.registry)}
  <2>1. traversable[k] \subseteq {TraversableFields(k, doc.registry)}
    BY <1>3 DEF WalkInv, CacheFrom
  <2>2. CachedTraversable(k) = TraversableFields(k, doc.registry)
    BY <2>1 DEF CachedTraversable
  <2>. QED BY <1>1, <2>1, <2>2
<1>. QED BY <1>1, <1>2, <1>3 DEF CacheFrom

\* The entries appended to the visits come behind them.
LEMMA VisitsAppended ==
  ASSUME VisitsInv, NEW T, NEW m \in Seq(T)
  PROVE  LET vs == visits \o m
             n == Len(visits)
         IN /\ n \in Nat /\ Len(vs) \in Nat
            /\ \A i \in 1 .. n : i \in 1 .. Len(vs) /\ vs[i] = visits[i]
            /\ \A i \in 1 .. Len(vs) : i \in 1 .. n \/
                 (i \in n + 1 .. Len(vs) /\ i - n \in DOMAIN m /\ vs[i] = m[i - n] /\ vs[i] \in Range(m))
            /\ \A w \in Range(m) : \E i \in 1 .. Len(vs) : vs[i] = w
<1> DEFINE n == Len(visits)
           vs == visits \o m
<1>1. PICK V : visits \in Seq(V)
  BY DEF VisitsInv, IsSequence
<1> DEFINE S == V \cup T
<1>2. visits \in Seq(S) /\ m \in Seq(S)
  BY <1>1
<1>. HIDE DEF S
<1>3. n \in Nat /\ Len(m) \in Nat /\ DOMAIN m = 1 .. Len(m) /\ Len(vs) = n + Len(m)
  BY <1>2
<1>4. \A i \in 1 .. n : vs[i] = visits[i]
  BY <1>2
<1>5. \A i \in n + 1 .. n + Len(m) : vs[i] = m[i - n] /\ i - n \in 1 .. Len(m)
  BY <1>2
<1>6. \A k \in 1 .. Len(m) : n + k \in n + 1 .. n + Len(m) /\ (n + k) - n = k
  BY <1>3
<1>. HIDE DEF n, vs
<1>7. \A w \in Range(m) : \E i \in 1 .. Len(vs) : vs[i] = w
  <2> TAKE w \in Range(m)
  <2>1. PICK k \in 1 .. Len(m) : w = m[k]
    BY <1>3 DEF Range
  <2>2. vs[n + k] = m[k] /\ n + k \in 1 .. n + Len(m)
    BY <1>3, <1>5, <1>6
  <2>. QED BY <1>3, <2>1, <2>2
<1>8. ASSUME NEW i \in 1 .. Len(vs), i \notin 1 .. n
      PROVE  i \in n + 1 .. Len(vs) /\ i - n \in DOMAIN m /\ vs[i] = m[i - n] /\ vs[i] \in Range(m)
  <2>1. i \in n + 1 .. n + Len(m)
    BY <1>3, <1>8
  <2>. QED BY <1>3, <1>5, <2>1 DEF Range
<1>9. \A i \in 1 .. n : i \in 1 .. Len(vs)
  BY <1>3
<1>10. Len(vs) \in Nat
  BY <1>3
<1>. QED BY <1>3, <1>4, <1>7, <1>8, <1>9, <1>10 DEF n, vs

\* In a tree a node entered at the next level has not been visited.
LEMMA EnteredNew ==
  ASSUME ResolverAssumption, TraversalInv, pc[latest] = "resolving",
         IsTree(latest), Unshared(visits), Rooted(doc, latest, visits),
         NEW w, NEW k, NEW f, Placed(w, k, f), NEW i \in 1 .. Len(visits)
  PROVE  visits[i].node # w.node
<1> SUFFICES ASSUME visits[i].node = w.node PROVE FALSE
  OBVIOUS
<1>1. doc \in Docs /\ VisitsInv /\ depth \in Nat /\ Len(visits[i].path) <= depth
  BY DEF TraversalInv, PhaseInv
<1>2. PICK y : <<visits[k].node, f, y, w.node>> \in References(latest)
  BY <1>1, PlacedReference
<1>3. k \in 1 .. Len(visits) /\ f \in Fields /\ Len(visits[k].path) = depth
  BY <1>1, LevelIndices DEF Placed, Level, LevelOf
<1>4. CASE \E x \in 1 .. Len(doc.roots[latest]) : visits[i].node = doc.roots[latest][x]
  <2>1. PICK x \in 1 .. Len(doc.roots[latest]) : visits[i].node = doc.roots[latest][x]
    BY <1>4
  <2>2. <<"root", Scalar, x, doc.roots[latest][x]>> \in References(latest)
    BY DEF References
  <2>3. <<"root", Scalar, x, doc.roots[latest][x]>> = <<visits[k].node, f, y, w.node>>
    BY <1>2, <2>1, <2>2 DEF IsTree
  <2>4. f = Scalar
    BY <2>3
  <2>. QED BY <1>3, <2>4 DEF ResolverAssumption, FieldsDiffer
<1>5. ASSUME NEW j \in 1 .. Len(visits), NEW g \in Fields,
             Len(visits[i].path) = Len(visits[j].path) + 1,
             NEW value \in Held(visits[j].node, g), NEW x \in 1 .. Len(value),
             visits[i].node = value[x]
      PROVE  FALSE
  <2>1. visits[j].node \in Nodes
    BY <1>1, VisitNode
  <2>2. <<visits[j].node, g, x, value[x]>> \in References(latest)
    BY <2>1, HeldReference
  <2>3. <<visits[j].node, g, x, value[x]>> = <<visits[k].node, f, y, w.node>>
    BY <1>2, <1>5, <2>2 DEF IsTree
  <2>4. visits[j].node = visits[k].node
    BY <2>3
  <2>5. j = k
    BY <1>3, <2>4 DEF Unshared
  <2>. QED BY <1>1, <1>3, <1>5, <2>5
<1>6. \/ \E x \in 1 .. Len(doc.roots[latest]) : visits[i].node = doc.roots[latest][x]
      \/ \E j \in 1 .. Len(visits), g \in Fields :
           /\ Len(visits[i].path) = Len(visits[j].path) + 1
           /\ \E value \in Held(visits[j].node, g) : \E x \in 1 .. Len(value) : visits[i].node = value[x]
  BY DEF Rooted, Held
<1>. QED BY <1>4, <1>5, <1>6

\* The visits with those of the next level: all are rooted, and in a tree no
\* node is visited twice.
LEMMA TreeGrows ==
  ASSUME ResolverAssumption, TraversalInv, WalkInv, pc[latest] = "resolving"
  PROVE  /\ Rooted(doc, latest, visits \o NextItems)
         /\ IsTree(latest) => Unshared(visits \o NextItems)
<1> DEFINE m == NextItems
           n == Len(visits)
           vs == visits \o m
<1>1. /\ m \in Seq(LevelChildren)
      /\ \A w \in Range(m) : \E k, f : Placed(w, k, f)
      /\ (IsTree(latest) /\ Unshared(visits) /\ Once(autoItems)) => Once(m)
  BY NextItemsPlaced DEF WalkInv, LevelInv
<1>2. /\ doc \in Docs /\ VisitsInv /\ Rooted(doc, latest, visits)
      /\ IsTree(latest) => Unshared(visits) /\ Once(autoItems)
  BY DEF TraversalInv, WalkInv, TreeInv
<1>. HIDE DEF m
<1>3. /\ n \in Nat /\ Len(vs) \in Nat
      /\ \A i \in 1 .. n : i \in 1 .. Len(vs) /\ vs[i] = visits[i]
      /\ \A i \in 1 .. Len(vs) : i \in 1 .. n \/
           (i \in n + 1 .. Len(vs) /\ i - n \in DOMAIN m /\ vs[i] = m[i - n] /\ vs[i] \in Range(m))
  BY <1>1, <1>2, VisitsAppended
<1>. HIDE DEF n, vs
<1>4. ASSUME NEW i \in 1 .. Len(vs)
      PROVE  \/ /\ Len(vs[i].path) = 1
                /\ \E x \in 1 .. Len(doc.roots[latest]) : vs[i].node = doc.roots[latest][x]
             \/ \E j \in 1 .. Len(vs), f \in Fields :
                  /\ Len(vs[i].path) = Len(vs[j].path) + 1
                  /\ \E value \in Held(vs[j].node, f) : \E x \in 1 .. Len(value) : vs[i].node = value[x]
  <2>1. CASE i \in 1 .. n
    <3>1. vs[i] = visits[i]
      BY <1>3, <2>1
    <3>2. CASE /\ Len(visits[i].path) = 1
               /\ \E x \in 1 .. Len(doc.roots[latest]) : visits[i].node = doc.roots[latest][x]
      BY <3>1, <3>2
    <3>3. CASE \E j \in 1 .. n, f \in Fields :
                 /\ Len(visits[i].path) = Len(visits[j].path) + 1
                 /\ \E value \in Held(visits[j].node, f) : \E x \in 1 .. Len(value) :
                      visits[i].node = value[x]
      <4>1. PICK j \in 1 .. n, f \in Fields :
              /\ Len(visits[i].path) = Len(visits[j].path) + 1
              /\ \E value \in Held(visits[j].node, f) : \E x \in 1 .. Len(value) :
                   visits[i].node = value[x]
        BY <3>3
      <4>2. j \in 1 .. Len(vs) /\ vs[j] = visits[j]
        BY <1>3
      <4>. QED BY <3>1, <4>1, <4>2
    <3>. QED BY <1>2, <2>1, <3>2, <3>3 DEF Rooted, Held, n
  <2>2. CASE vs[i] \in Range(m)
    <3>1. PICK k, f : Placed(vs[i], k, f)
      BY <1>1, <2>2
    <3>2. k \in 1 .. n /\ f \in Fields /\ visits[k].node \in Nodes
      BY <1>2, <3>1, LevelIndices, VisitNode DEF Placed, Level, n
    <3>3. PICK value \in Held(visits[k].node, f) : \E x \in 1 .. Len(value) :
            vs[i] = Entry(doc.class, value[x], visits[k].path, visits[k].ctx)
      BY <3>1 DEF Placed
    <3>4. PICK x \in 1 .. Len(value) : vs[i] = Entry(doc.class, value[x], visits[k].path, visits[k].ctx)
      BY <3>3
    <3>5. vs[i].node = value[x] /\ vs[i].path = Append(visits[k].path, value[x])
      BY <3>4 DEF Entry
    <3>6. visits[k].path \in Seq(Nodes)
      BY <1>2, <3>2 DEF VisitsInv, WellFormed, n
    <3>7. Len(vs[i].path) = Len(visits[k].path) + 1
      BY <3>5, <3>6
    <3>8. k \in 1 .. Len(vs) /\ vs[k] = visits[k]
      BY <1>3, <3>2
    <3>. QED BY <3>2, <3>5, <3>7, <3>8
  <2>. QED BY <1>3, <2>1, <2>2
<1>5. Rooted(doc, latest, vs)
  BY <1>4 DEF Rooted, Held
<1>6. ASSUME IsTree(latest), NEW i \in 1 .. Len(vs), NEW j \in 1 .. Len(vs), vs[i].node = vs[j].node
      PROVE  i = j
  <2>0. Unshared(visits) /\ Once(m)
    BY <1>1, <1>2, <1>6
  <2>1. CASE i \in 1 .. n /\ j \in 1 .. n
    BY <1>3, <1>6, <2>0, <2>1 DEF Unshared, n
  <2>2. ASSUME NEW a \in 1 .. Len(vs), NEW b \in 1 .. Len(vs), a \in 1 .. n, b \notin 1 .. n
        PROVE  vs[a].node # vs[b].node
    <3>1. PICK k, f : Placed(vs[b], k, f)
      BY <1>1, <1>3, <2>2
    <3>2. visits[a].node # vs[b].node
      BY <1>2, <1>6, <2>0, <2>2, <3>1, EnteredNew DEF n
    <3>. QED BY <1>3, <2>2, <3>2
  <2>3. CASE i \notin 1 .. n /\ j \notin 1 .. n
    <3>1. PICK k, f : Placed(vs[i], k, f)
      BY <1>1, <1>3, <2>3
    <3>2. PICK l, g : Placed(vs[j], l, g)
      BY <1>1, <1>3, <2>3
    <3>3. vs[i] = vs[j]
      BY <1>2, <1>6, <2>0, <3>1, <3>2, PlacedOnce
    <3>4. i - n \in DOMAIN m /\ j - n \in DOMAIN m /\ m[i - n] = m[j - n]
      BY <1>3, <2>3, <3>3
    <3>5. i - n = j - n
      BY <2>0, <3>4 DEF Once
    <3>. QED BY <1>3, <3>5
  <2>. QED BY <1>6, <2>1, <2>2, <2>3
<1>7. IsTree(latest) => Unshared(vs)
  BY <1>6 DEF Unshared
<1>. QED BY <1>5, <1>7 DEF vs, m

\* Visits stay rooted that have the nodes and paths they had.
LEMMA RootedMoves ==
  ASSUME NEW d, NEW c, NEW vs, NEW ws, Rooted(d, c, vs), Len(ws) = Len(vs),
         \A i \in 1 .. Len(vs) : ws[i].node = vs[i].node /\ ws[i].path = vs[i].path
  PROVE  Rooted(d, c, ws)
<1> SUFFICES ASSUME NEW i \in 1 .. Len(ws)
             PROVE  \/ /\ Len(ws[i].path) = 1
                       /\ \E x \in 1 .. Len(d.roots[c]) : ws[i].node = d.roots[c][x]
                    \/ \E j \in 1 .. Len(ws), f \in Fields :
                         /\ Len(ws[i].path) = Len(ws[j].path) + 1
                         /\ \E value \in {d.given[ws[j].node][f]}
                                          \cup {d.loads[b][ws[j].node][f] : b \in Calls} :
                              \E x \in 1 .. Len(value) : ws[i].node = value[x]
  BY DEF Rooted
<1>1. ws[i].node = vs[i].node /\ ws[i].path = vs[i].path
  OBVIOUS
<1>2. CASE /\ Len(vs[i].path) = 1
           /\ \E x \in 1 .. Len(d.roots[c]) : vs[i].node = d.roots[c][x]
  BY <1>1, <1>2
<1>3. ASSUME NEW j \in 1 .. Len(vs), NEW f \in Fields, Len(vs[i].path) = Len(vs[j].path) + 1,
             NEW value \in {d.given[vs[j].node][f]} \cup {d.loads[b][vs[j].node][f] : b \in Calls},
             NEW x \in 1 .. Len(value), vs[i].node = value[x]
      PROVE  /\ j \in 1 .. Len(ws) /\ Len(ws[i].path) = Len(ws[j].path) + 1
             /\ value \in {d.given[ws[j].node][f]} \cup {d.loads[b][ws[j].node][f] : b \in Calls}
             /\ ws[i].node = value[x]
  <2>1. ws[j].node = vs[j].node /\ ws[j].path = vs[j].path
    OBVIOUS
  <2>2. {d.given[ws[j].node][f]} \cup {d.loads[b][ws[j].node][f] : b \in Calls}
          = {d.given[vs[j].node][f]} \cup {d.loads[b][vs[j].node][f] : b \in Calls}
    BY <2>1
  <2>. QED BY <1>1, <1>3, <2>1, <2>2
<1>4. \/ /\ Len(vs[i].path) = 1
         /\ \E x \in 1 .. Len(d.roots[c]) : vs[i].node = d.roots[c][x]
      \/ \E j \in 1 .. Len(vs), f \in Fields :
           /\ Len(vs[i].path) = Len(vs[j].path) + 1
           /\ \E value \in {d.given[vs[j].node][f]} \cup {d.loads[b][vs[j].node][f] : b \in Calls} :
                \E x \in 1 .. Len(value) : vs[i].node = value[x]
  <2>1. i \in 1 .. Len(vs)
    OBVIOUS
  <2>. QED BY <2>1 DEF Rooted
<1>5. CASE \E j \in 1 .. Len(vs), f \in Fields :
             /\ Len(vs[i].path) = Len(vs[j].path) + 1
             /\ \E value \in {d.given[vs[j].node][f]} \cup {d.loads[b][vs[j].node][f] : b \in Calls} :
                  \E x \in 1 .. Len(value) : vs[i].node = value[x]
  <2>1. PICK j \in 1 .. Len(vs), f \in Fields :
          /\ Len(vs[i].path) = Len(vs[j].path) + 1
          /\ \E value \in {d.given[vs[j].node][f]} \cup {d.loads[b][vs[j].node][f] : b \in Calls} :
               \E x \in 1 .. Len(value) : vs[i].node = value[x]
    BY <1>5
  <2>2. PICK value \in {d.given[vs[j].node][f]} \cup {d.loads[b][vs[j].node][f] : b \in Calls} :
          \E x \in 1 .. Len(value) : vs[i].node = value[x]
    BY <2>1
  <2>3. PICK x \in 1 .. Len(value) : vs[i].node = value[x]
    BY <2>2
  <2>4. /\ j \in 1 .. Len(ws) /\ Len(ws[i].path) = Len(ws[j].path) + 1
        /\ value \in {d.given[ws[j].node][f]} \cup {d.loads[b][ws[j].node][f] : b \in Calls}
        /\ ws[i].node = value[x]
    BY <1>3, <2>1, <2>2, <2>3
  <2>. QED BY <2>4
<1>. QED BY <1>2, <1>4, <1>5

\* The next level is entered.
LEMMA NextLevelWalk ==
  ASSUME ResolverAssumption, TraversalInv, WalkInv, NEW c \in Calls, EndLevel(c),
         EnterLevel(c, visits \o NextItems, depth + 1)
  PROVE  WalkInv'
<1> DEFINE n == Len(visits)
           m == NextItems
           vs == visits \o m
<1>0. /\ UNCHANGED <<doc, heap, latest, strays>> /\ visits' = vs /\ depth' = depth + 1
      /\ autoItems' = << >> /\ loaded' = {} /\ DOMAIN outputs' = {}
      /\ pc' = [pc EXCEPT ![c] = "resolving"]
      /\ pc[c] = "resolving" /\ ~Awaits(c) /\ autoLeft = {}
  BY DEF EndLevel, EnterLevel, Empty
<1>1. c = latest /\ pc[latest] = "resolving"
  BY <1>0, ActiveIsLatest DEF TraversalInv, Active
<1>2. pc'[latest'] = "resolving"
  BY <1>0, <1>1 DEF TraversalInv, GuardInv
<1>3. /\ m \in Seq(LevelChildren) /\ \A w \in Range(m) : \E k, f : Placed(w, k, f)
      /\ VisitsInv /\ doc \in Docs
  BY <1>1, NextItemsPlaced DEF WalkInv, LevelInv, TraversalInv
<1>4. depth \in Nat /\ \A i \in 1 .. n : Len(visits[i].path) \in Nat
  BY <1>3 DEF TraversalInv, PhaseInv, VisitsInv, WellFormed
<1>5. Rooted(doc, latest, vs) /\ (IsTree(latest) => Unshared(vs))
  BY <1>1, TreeGrows
<1>6. LevelInv'
  <2>1. \A j \in jobs : j.call # c
    BY <1>0 DEF Awaits
  <2>2. OutputsInv' /\ GroupsInv'
    BY <1>0, <1>1, <2>1, EnterWalk
  <2>. QED BY <2>2 DEF LevelInv
<1>7. HeapFrom' /\ CacheFrom'
  BY EndLevelCache
<1>8. JobsBegun'
  <2>1. \A j \in jobs' : j \in jobs \/ j.call = c
    BY DEF EnterLevel
  <2>2. \A j \in jobs : j.call \in Calls
    BY DEF TraversalInv, GuardInv
  <2>3. \A d \in Calls : pc'[d] = "idle" => pc[d] = "idle" /\ d # c
    BY <1>0 DEF TraversalInv, GuardInv
  <2>. QED BY <2>1, <2>2, <2>3 DEF WalkInv, JobsBegun
<1>. HIDE DEF m
<1>9. /\ n \in Nat /\ Len(vs) \in Nat
      /\ \A i \in 1 .. n : i \in 1 .. Len(vs) /\ vs[i] = visits[i]
      /\ \A i \in 1 .. Len(vs) : i \in 1 .. n \/
           (i \in n + 1 .. Len(vs) /\ i - n \in DOMAIN m /\ vs[i] = m[i - n] /\ vs[i] \in Range(m))
      /\ \A w \in Range(m) : \E i \in 1 .. Len(vs) : vs[i] = w
  BY <1>3, VisitsAppended
<1>. HIDE DEF vs, n
<1>10. TreeInv'
  <2>1. Rooted(doc, latest, visits)'
    BY <1>0, <1>5
  <2>2. IsTree(latest)' => Unshared(visits')
    BY <1>0, <1>5, PlacesFrame
  <2>3. Once(autoItems')
    BY <1>0 DEF Once
  <2>. QED BY <2>1, <2>2, <2>3 DEF TreeInv
\* Those that have settled were there before.
<1>11. ASSUME NEW i \in 1 .. Len(visits'), Settled(i)'
       PROVE  i \in 1 .. n /\ visits'[i] = visits[i]
  <2>1. Len(vs[i].path) < depth + 1 /\ i \in 1 .. Len(vs)
    BY <1>0, <1>2, <1>11 DEF Settled
  <2>2. ASSUME vs[i] \in Range(m) PROVE FALSE
    <3>1. PICK k, f : Placed(vs[i], k, f)
      BY <1>3, <2>2
    <3>2. vs[i].path = Append(visits[k].path, vs[i].node) /\ k \in 1 .. n
      BY <1>3, <3>1, PlacedReference DEF n
    <3>3. Len(visits[k].path) = depth
      BY <3>1 DEF Placed, Level, LevelOf
    <3>4. visits[k].path \in Seq(Nodes)
      BY <1>3, <3>2 DEF VisitsInv, WellFormed, n
    <3>5. Len(vs[i].path) = depth + 1
      BY <3>2, <3>3, <3>4
    <3>. QED BY <1>4, <2>1, <3>5
  <2>. QED BY <1>0, <1>9, <2>1, <2>2
<1>12. Walking' = Walking
  BY <1>0, <1>1, <1>2 DEF Walking
<1>13. ASSUME Walking, NEW i \in 1 .. n
       PROVE  /\ \A f \in Fields : Loads(visits[i].node, f) =>
                   heap[visits[i].node][f] = doc.loads[latest][visits[i].node][f]
              /\ doc.scannedBefore = {} =>
                   \A f \in Followed(visits[i].node) : VisitedBelow(i, f) \/ Entered(i, f)
  BY <1>0, <1>1, <1>13, LevelEnds DEF n
<1>14. WrittenInv'
  <2>1. ASSUME Walking', NEW i \in 1 .. Len(visits'), NEW f \in Fields, Settled(i)',
               Loads(visits[i].node, f)
        PROVE  heap'[visits'[i].node][f] = doc'.loads[latest'][visits'[i].node][f]
    BY <1>0, <1>11, <1>12, <1>13, <2>1
  <2>2. ASSUME NEW i \in 1 .. Len(visits'), Settled(i)', NEW f \in Fields
        PROVE  Loads(visits[i].node, f)' <=> Loads(visits[i].node, f)
    <3>1. visits'[i] = visits[i]
      BY <1>11, <2>2
    <3>. QED BY <1>0, <3>1 DEF Loads, ClassOf
  <2>. QED BY <1>0, <2>1, <2>2 DEF WrittenInv
<1>15. FollowedInv'
  <2>1. ASSUME Walking', doc.scannedBefore = {}, NEW i \in 1 .. Len(visits'), Settled(i)',
               NEW f \in Followed(visits[i].node)
        PROVE  VisitedBelow(i, f)'
    <3>1. i \in 1 .. n /\ visits'[i] = visits[i]
      BY <1>11, <2>1
    <3>2. VisitedBelow(i, f) \/ Entered(i, f)
      BY <1>12, <1>13, <2>1, <3>1
    <3>3. ASSUME NEW x \in 1 .. Len(heap[visits[i].node][f])
          PROVE  \E j \in 1 .. Len(vs) : vs[j].path = Append(visits[i].path, heap[visits[i].node][f][x])
      <4>1. CASE VisitedBelow(i, f)
        <5>1. PICK j \in 1 .. n : visits[j].path = Append(visits[i].path, heap[visits[i].node][f][x])
          BY <4>1, <3>3 DEF VisitedBelow, n
        <5>. QED BY <1>9, <5>1
      <4>2. CASE Entered(i, f)
        <5>1. PICK w \in Range(m) : w.path = Append(visits[i].path, heap[visits[i].node][f][x])
          BY <4>2, <3>3 DEF Entered, m
        <5>. QED BY <1>9, <5>1
      <4>. QED BY <3>2, <4>1, <4>2
    <3>. QED BY <1>0, <3>1, <3>3 DEF VisitedBelow
  <2>2. ASSUME NEW i \in 1 .. Len(visits'), Settled(i)'
        PROVE  Followed(visits[i].node)' = Followed(visits[i].node)
    <3>1. visits'[i] = visits[i]
      BY <1>11, <2>2
    <3>. QED BY <1>0, <3>1 DEF Followed, Loads, ClassOf
  <2>. QED BY <1>0, <2>1, <2>2 DEF FollowedInv
<1>. QED BY <1>6, <1>7, <1>8, <1>10, <1>14, <1>15 DEF WalkInv

\* No node is left to visit: everything has settled.
LEMMA WalkEnds ==
  ASSUME ResolverAssumption, TraversalInv, WalkInv, pc[latest] = "resolving", ~Awaits(latest),
         autoLeft = {}, NextItems = << >>, UNCHANGED <<doc, heap, latest, strays, jobs>>,
         pc' = [pc EXCEPT ![latest] = "posting"], HeapFrom', CacheFrom',
         Len(visits') = Len(visits),
         \A i \in 1 .. Len(visits) : visits'[i].node = visits[i].node /\ visits'[i].path = visits[i].path
  PROVE  WalkInv'
<1>1. pc'[latest'] = "posting"
  BY DEF TraversalInv, GuardInv
<1>2. LevelInv'
  BY <1>1 DEF LevelInv
<1>3. JobsBegun'
  <2>1. \A d \in Calls : pc'[d] = "idle" => pc[d] = "idle"
    BY DEF TraversalInv, GuardInv
  <2>2. \A j \in jobs : j.call \in Calls
    BY DEF TraversalInv, GuardInv
  <2>. QED BY <2>1, <2>2 DEF WalkInv, JobsBegun
<1>4. TreeInv'
  <2>1. Rooted(doc, latest, visits)
    BY DEF WalkInv, TreeInv
  <2>2. Rooted(doc, latest, visits')
    BY <2>1, RootedMoves
  <2>3. IsTree(latest) => Unshared(visits')
    BY DEF WalkInv, TreeInv, Unshared
  <2>4. IsTree(latest)' <=> IsTree(latest)
    BY PlacesFrame
  <2>. QED BY <1>1, <2>2, <2>3, <2>4 DEF TreeInv
<1>5. Walking' = Walking
  BY <1>1 DEF Walking
<1>6. ASSUME Walking, NEW i \in 1 .. Len(visits)
      PROVE  /\ \A f \in Fields : Loads(visits[i].node, f) =>
                  heap[visits[i].node][f] = doc.loads[latest][visits[i].node][f]
             /\ doc.scannedBefore = {} =>
                  \A f \in Followed(visits[i].node) : VisitedBelow(i, f) \/ Entered(i, f)
  BY <1>6, LevelEnds
<1>7. WrittenInv'
  <2>1. ASSUME Walking', NEW i \in 1 .. Len(visits'), NEW f \in Fields, Loads(visits[i].node, f)
        PROVE  heap'[visits'[i].node][f] = doc'.loads[latest'][visits'[i].node][f]
    BY <1>5, <1>6, <2>1
  <2>2. ASSUME NEW i \in 1 .. Len(visits'), NEW f \in Fields
        PROVE  Loads(visits[i].node, f)' <=> Loads(visits[i].node, f)
    BY <2>2 DEF Loads, ClassOf
  <2>. QED BY <1>1, <2>1, <2>2 DEF WrittenInv
<1>8. FollowedInv'
  <2>1. \A x \in Range(NextItems) : FALSE
    BY DEF Range
  <2>2. ASSUME Walking', doc.scannedBefore = {}, NEW i \in 1 .. Len(visits'),
               NEW f \in Followed(visits[i].node)
        PROVE  VisitedBelow(i, f)'
    <3>1. VisitedBelow(i, f) \/ Entered(i, f)
      BY <1>5, <1>6, <2>2
    <3>2. VisitedBelow(i, f)
      BY <2>1, <3>1 DEF Entered, VisitedBelow
    <3>3. ASSUME NEW x \in 1 .. Len(heap[visits[i].node][f])
          PROVE  \E j \in 1 .. Len(visits') :
                   visits'[j].path = Append(visits'[i].path, heap[visits[i].node][f][x])
      BY <2>2, <3>2 DEF VisitedBelow
    <3>. QED BY <2>2, <3>3 DEF VisitedBelow
  <2>3. ASSUME NEW i \in 1 .. Len(visits')
        PROVE  Followed(visits[i].node)' = Followed(visits[i].node)
    BY <2>3 DEF Followed, Loads, ClassOf
  <2>. QED BY <2>2, <2>3 DEF FollowedInv
<1>. QED BY <1>2, <1>3, <1>4, <1>7, <1>8 DEF WalkInv

\* Collectors are prepared for the visits there are.
LEMMA PostingWalk ==
  ASSUME ResolverAssumption, TraversalInv, WalkInv, NEW c \in Calls, EndLevel(c), NextItems = << >>,
         visits' = LET snaps == Snapshots(visits)
                   IN [i \in 1 .. Len(visits) |-> [visits[i] EXCEPT !.snap = snaps[i]]],
         pc' = [pc EXCEPT ![c] = "posting"], UNCHANGED jobs
  PROVE  WalkInv'
<1> DEFINE n == Len(visits)
           vs == [i \in 1 .. n |-> [visits[i] EXCEPT !.snap = Snapshots(visits)[i]]]
<1>1. /\ UNCHANGED <<doc, heap, latest, strays>> /\ visits' = vs
      /\ pc[c] = "resolving" /\ ~Awaits(c) /\ autoLeft = {}
  BY DEF EndLevel
<1>2. c = latest /\ pc[latest] = "resolving"
  BY <1>1, ActiveIsLatest DEF TraversalInv, Active
<1>3. n \in Nat /\ \A i \in 1 .. n : DOMAIN visits[i] = {"node", "path", "seen", "ctx", "snap"}
  BY LevelIndices DEF TraversalInv, VisitsInv, WellFormed
<1>4. Len(vs) = n
  <2>1. vs = [i \in 1 .. n |-> vs[i]]
    OBVIOUS
  <2>. HIDE DEF vs, n
  <2>. QED BY <1>3, <2>1, FunctionIsSequence
<1>5. \A i \in 1 .. n : vs[i].node = visits[i].node /\ vs[i].path = visits[i].path
  BY <1>3
<1>6. HeapFrom' /\ CacheFrom'
  BY EndLevelCache
<1>. HIDE DEF vs
<1>. QED BY <1>1, <1>2, <1>4, <1>5, <1>6, WalkEnds DEF n

\* Every step keeps the walk.
LEMMA WalkStep ==
  ASSUME ResolverAssumption, TraversalInv, WalkInv, [Next]_vars
  PROVE  WalkInv'
\* A call that ends early takes its coroutines with it or leaves them running.
<1>a. ASSUME NEW c \in Calls, pc[c] \in Active, NEW how \in {"failed", "cancelled"}, Leave(c, how),
             jobs' \subseteq jobs, UNCHANGED <<doc, heap, traversable, latest, strays, visits>>
      PROVE  WalkInv'
  <2>1. c = latest
    BY <1>a, ActiveIsLatest DEF TraversalInv
  <2>2. pc' = [pc EXCEPT ![c] = how]
    BY <1>a DEF Leave
  <2>3. pc'[latest] = how
    BY <2>1, <2>2 DEF TraversalInv, GuardInv
  <2>4. \A j \in jobs' : j \in jobs /\ pc'[j.call] # "idle"
    BY <1>a, <2>2 DEF TraversalInv, GuardInv, WalkInv, JobsBegun
  <2>. QED BY <1>a, <2>3, <2>4, WalkOver
<1>1. ASSUME NEW c \in Calls, Begin(c)
      PROVE  WalkInv'
  BY <1>1, BeginWalk
<1>2. ASSUME NEW c \in Calls, Refuse(c)
      PROVE  WalkInv'
  <2>1. /\ UNCHANGED <<doc, heap, traversable, latest, strays, visits, depth, jobs, phaseA>>
        /\ pc[c] = "idle" /\ running /\ pc' = [pc EXCEPT ![c] = "refused"]
    BY <1>2 DEF Refuse
  <2>2. pc[latest] \in Active
    BY <2>1 DEF TraversalInv, GuardInv, GuardIsTheRunningCall, Active
  <2>3. pc'[latest] = pc[latest]
    BY <2>1, <2>2 DEF TraversalInv, GuardInv, Active
  <2>4. \A j \in jobs' : j \in jobs /\ pc'[j.call] # "idle"
    BY <2>1 DEF TraversalInv, GuardInv, WalkInv, JobsBegun
  <2>. QED BY <2>1, <2>3, <2>4, WalkFrame
<1>3. ASSUME NEW c \in Calls, Cancel(c)
      PROVE  WalkInv'
  <2>1. pc[c] \in Active /\ Leave(c, "cancelled") /\ jobs' \subseteq jobs
        /\ UNCHANGED <<doc, heap, traversable, latest, strays, visits>>
    BY <1>3 DEF Cancel, Active
  <2>. QED BY <1>a, <2>1
<1>4. ASSUME NEW c \in Calls, NEW k \in Classes, NEW f \in Fields, AutoLoadGroup(c, <<k, f>>)
      PROVE  WalkInv'
  BY <1>4, LoadGroupWalk
<1>5. ASSUME NEW c \in Calls, AutoLoadRaises(c) \/ PostRaises(c)
      PROVE  WalkInv'
  <2>1. pc[c] \in Active /\ Leave(c, "failed") /\ jobs' \subseteq jobs
        /\ UNCHANGED <<doc, heap, traversable, latest, strays, visits>>
    BY <1>5 DEF AutoLoadRaises, PostRaises, Active
  <2>. QED BY <1>a, <2>1
<1>6. ASSUME NEW c \in Calls, EndLevel(c)
      PROVE  WalkInv'
  <2>1. CASE EnterLevel(c, visits \o NextItems, depth + 1)
    BY <1>6, <2>1, NextLevelWalk
  <2>2. CASE /\ NextItems = << >>
             /\ visits' = LET snaps == Snapshots(visits)
                          IN [i \in 1 .. Len(visits) |-> [visits[i] EXCEPT !.snap = snaps[i]]]
             /\ pc' = [pc EXCEPT ![c] = "posting"] /\ UNCHANGED jobs
    BY <1>6, <2>2, PostingWalk
  <2>. QED BY <1>6, <2>1, <2>2 DEF EndLevel
<1>7. ASSUME NEW c \in Calls, RunPosts(c) \/ EndPosts(c)
      PROVE  WalkInv'
  <2>1. /\ UNCHANGED <<doc, heap, traversable, latest, strays, visits, jobs>>
        /\ pc[c] \in {"posting", "handling"}
        /\ \E next \in {"posting", "handling", "done"} : pc' = [pc EXCEPT ![c] = next]
    BY <1>7 DEF RunPosts, EndPosts, Leave
  <2>2. c = latest
    BY <2>1, ActiveIsLatest DEF TraversalInv, Active
  <2>3. pc[latest] \in {"posting", "handling"} /\ pc'[latest] # "resolving"
    BY <2>1, <2>2 DEF TraversalInv, GuardInv
  <2>4. \A j \in jobs' : j \in jobs /\ pc'[j.call] # "idle"
    BY <2>1 DEF TraversalInv, GuardInv, WalkInv, JobsBegun
  <2>. QED BY <2>1, <2>3, <2>4, WalkOver
<1>8. ASSUME NEW j \in jobs, ResolveReturns(j)
      PROVE  WalkInv'
  BY <1>8, ReturnWalk
<1>9. ASSUME NEW j \in jobs, ResolveRaises(j)
      PROVE  WalkInv'
  <2>1. j.call \in Calls
    BY DEF TraversalInv, GuardInv
  <2>2. CASE pc[j.call] = "resolving"
    <3>1. pc[j.call] \in Active /\ Leave(j.call, "failed") /\ jobs' \subseteq jobs
          /\ UNCHANGED <<doc, heap, traversable, latest, strays, visits>>
      BY <1>9, <2>2 DEF ResolveRaises, Active
    <3>. QED BY <1>a, <2>1, <3>1
  <2>3. CASE pc[j.call] # "resolving"
    <3>1. jobs' = jobs \ {j}
          /\ UNCHANGED <<doc, heap, traversable, pc, latest, strays, visits, depth, phaseA>>
      BY <1>9, <2>3 DEF ResolveRaises
    <3>2. \A k \in jobs' : k \in jobs /\ pc'[k.call] # "idle"
      BY <3>1 DEF WalkInv, JobsBegun
    <3>3. \A k \in jobs : pc[latest] = "resolving" /\ k.call = latest => k \in jobs'
      BY <2>3, <3>1
    <3>. QED BY <3>1, <3>2, <3>3, WalkFrame
  <2>. QED BY <2>2, <2>3
<1>10. CASE UNCHANGED vars
  <2>1. UNCHANGED <<doc, heap, traversable, pc, latest, strays, visits, depth, jobs, phaseA>>
    BY <1>10 DEF vars, phaseA
  <2>2. \A j \in jobs' : j \in jobs /\ pc'[j.call] # "idle"
    BY <2>1 DEF WalkInv, JobsBegun
  <2>. QED BY <2>1, <2>2, WalkFrame
<1>. QED
  BY <1>1, <1>2, <1>3, <1>4, <1>5, <1>6, <1>7, <1>8, <1>9, <1>10 DEF Next, Settle

\* Before the first call nothing is visited, and the heap is as given.
LEMMA WalkInit ==
  ASSUME ResolverAssumption, Calls # {}, Init
  PROVE  WalkInv
<1>1. /\ heap = doc.given /\ jobs = {} /\ Len(visits) = 0 /\ autoItems = << >>
      /\ traversable = [k \in Classes |->
           IF k \in doc.scannedBefore THEN {TraversableFields(k, FALSE)} ELSE {}]
  BY DEF Init
<1>2. (CHOOSE c \in Calls : TRUE) \in Calls
  OBVIOUS
<1>3. pc[latest] = "idle"
  BY <1>2 DEF Init
<1>4. HeapFrom /\ JobsBegun /\ LevelInv
  BY <1>1, <1>3 DEF HeapFrom, JobsBegun, LevelInv, Held
<1>5. CacheFrom
  BY <1>1 DEF CacheFrom
<1>6. TreeInv
  BY <1>1, <1>3 DEF TreeInv, Rooted, Unshared
<1>7. WrittenInv /\ FollowedInv
  BY <1>3 DEF WrittenInv, FollowedInv, Walking
<1>. QED BY <1>4, <1>5, <1>6, <1>7 DEF WalkInv

\* Each node once: when a call succeeds, every node that a field it follows or
\* loads holds has been visited below its holder, and in a tree none twice,
\* whatever the order in which coroutines and loads end, and whatever earlier
\* calls left in the tree.
THEOREM EachNodeOnce ==
  ASSUME ResolverAssumption, Calls # {}
  PROVE  Spec => []EveryNodeVisitedOnce
<1>1. WalkInv => EveryNodeVisitedOnce
  <2> SUFFICES ASSUME WalkInv PROVE EveryNodeVisitedOnce
    OBVIOUS
  <2>1. ASSUME pc[latest] = "done", strays = {}, doc.scannedBefore = {},
               NEW i \in 1 .. Len(visits), NEW f \in Followed(visits[i].node)
        PROVE  VisitedBelow(i, f)
    BY <2>1 DEF WalkInv, FollowedInv, Walking, Settled
  <2>2. IsTree(latest) => ~Shared
    BY DEF WalkInv, TreeInv, Unshared, Shared
  <2>. QED BY <2>1, <2>2 DEF EveryNodeVisitedOnce
<1>2. Init => WalkInv
  BY WalkInit
<1>3. TraversalInv /\ WalkInv /\ [Next]_vars => WalkInv'
  BY WalkStep
<1>. QED BY <1>1, <1>2, <1>3, TraversalInvariant, PTL DEF Spec

-----------------------------------------------------------------------------
(* Instances of DefineSubset classes.                                      *)

\* An accepted definition keeps the key of a relationship it leaves to auto-load,
\* on instances made from either kind of row.
LEMMA KeyHeld ==
  ASSUME NEW d, NEW how, Accepted(d, KeyNamed), NEW r \in AutoLoadable(d), KeyPromised(d, r, how)
  PROVE  HoldsKey(d, r, how)
<1> DEFINE key == d.entity.rels[r].key
<1>1. key \in d.entity.pk \cup d.entity.fk \cup CustomKeys(d.entity) /\ key \notin RelNames(d.entity)
  BY DEF KeyPromised, KeyKnown
<1>2. key \in Omitted(d) => key \in d.entity.pk
  <2> SUFFICES ASSUME key \in Omitted(d), key \in d.entity.fk, key = KeyNamed[r] PROVE FALSE
    BY DEF KeyPromised
  <2>1. r \in Extras(d) \cap RelNames(d.entity)
    BY DEF AutoLoadable
  <2>2. OmittedKeyNeeded(d, KeyNamed)
    BY <2>1 DEF OmittedKeyNeeded
  <2>. QED BY <2>2 DEF Accepted
<1>3. key \in KeysAdded(d)
  BY <1>1, <1>2 DEF KeysAdded
<1>4. key \in SubsetFields(d) /\ key \in Defined(d)
  BY <1>1, <1>3 DEF SubsetFields, Defined, OrmNames
<1>5. how = "select" => key \in SelectedColumns(d)
  <2> SUFFICES ASSUME how = "select" PROVE key \in SelectedColumns(d)
    OBVIOUS
  <2>1. key \in Chosen(d)
    BY DEF KeyPromised
  <2>. QED BY <1>1, <1>4, <2>1 DEF SelectedColumns, AutoExcluded
<1>. QED BY <1>4, <1>5 DEF HoldsKey, ProjectedFields

\* Every field an accepted definition declares for a registered relationship is
\* loaded on every instance a call visits, though the definition does not list
\* the key that _batch_auto_load reads: for all definitions, trees, loads and
\* orders in which coroutines and groups end.
THEOREM DeclaredLoad ==
  ASSUME ResolverAssumption, SubsetAssumption, Calls # {}
  PROVE  Spec => []DeclaredRelationshipsLoad
<1>1. TraversalInv /\ WalkInv => DeclaredRelationshipsLoad
  <2> SUFFICES ASSUME TraversalInv, WalkInv, pc[latest] = "done", strays = {}, doc.registry,
                      NEW i \in 1 .. Len(visits), NEW d \in doc.made[visits[i].node],
                      NEW r \in AutoLoadable(d), KeyPromised(d, r, doc.how),
                      FieldRegistered(Desc[ClassOf(visits[i].node)].fields[r]),
                      <<visits[i].node, r>> \notin doc.nulls
               PROVE  \/ heap[visits[i].node][r] = doc.loads[latest][visits[i].node][r]
                      \/ /\ Desc[ClassOf(visits[i].node)].fields[r].one
                         /\ doc.loads[latest][visits[i].node][r] = << >>
    BY DEF DeclaredRelationshipsLoad
  <2> DEFINE n == visits[i].node
             k == ClassOf(n)
  <2>1. doc \in Docs /\ n \in Nodes
    BY VisitNode DEF TraversalInv
  <2>2. MadeBy(doc, n, d)
    BY <2>1, SubsetAssumption DEF SubsetsFit
  <2>3. r \in DOMAIN Desc[k].fields /\ ExtraField(Desc[k].fields[r]) /\ Accepted(d, KeyNamed)
        /\ (<<n, r>> \in doc.keyless <=> LacksKey(doc, n, d, r))
    BY <2>2 DEF MadeBy, ClassOf
  <2>4. <<n, r>> \notin doc.keyless
    BY <2>3, KeyHeld DEF LacksKey
  <2>5. r \in ResolveFields(k) \/ r \in AutoFields(k)
    BY <2>3 DEF ResolveFields, AutoFields, ExtraField, FieldRegistered
  <2>6. k \in Classes /\ r \in Fields
    BY <2>1, <2>3, DocFacts DEF ResolverAssumption
  <2>7. Loads(n, r) => heap[n][r] = doc.loads[latest][n][r]
    BY <2>6 DEF WalkInv, WrittenInv, Walking, Settled
  <2>8. Loads(n, r) \/ (Desc[k].fields[r].one /\ doc.loads[latest][n][r] = << >>)
    BY <2>4, <2>5 DEF Loads
  <2>. QED BY <2>7, <2>8
<1>2. Init => WalkInv
  BY WalkInit
<1>3. TraversalInv /\ WalkInv /\ [Next]_vars => WalkInv'
  BY WalkStep
<1>. QED BY <1>1, <1>2, <1>3, TraversalInvariant, PTL DEF Spec

=============================================================================
