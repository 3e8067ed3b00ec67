-------------------------- MODULE FederationProofs --------------------------
(***************************************************************************)
(* Safety of bring-up, for all services, declarations and orders in which  *)
(* initialize() is called, fails and is called again: the caches derived   *)
(* from a registry follow it, a ComposedErManager finds the owner of every *)
(* loader, what a service registers is closed, its subsets are bound       *)
(* together and its DTO fields get the classes their loaders return.       *)
(***************************************************************************)
EXTENDS Federation, SubsequencesProofs, TLAPS

-----------------------------------------------------------------------------
(* Schema caches.                                                          *)

\* A manager as initialize() and the others leave it.
Manager(e) == /\ e.version \in Nat
              /\ {"version", "reg"} \subseteq DOMAIN e

\* A generator was made at an earlier version, or at this one with the
\* registry as it is.
CacheFollows(e, cache, bad) ==
  /\ cache.version \in Nat /\ cache.version <= e.version
  /\ cache.version = e.version /\ cache.classes # {} /\ ~bad
       => cache.classes = DOMAIN e.reg /\ cache.reg = e.reg

CacheInv ==
  /\ \E D : er \in [Services -> D]
  /\ spoilt \in [Services -> BOOLEAN]
  /\ \E D : entities \in [Services -> [Renderings -> D]]
  /\ \A m \in Services : Manager(er[m])
  /\ \A m \in Services, k \in Renderings : CacheFollows(er[m], entities[m][k], spoilt[m])


\* A manager whose version moved, whose registry stays, or whose step raised,
\* leaves no cache that is wrong under the current version.
LEMMA ManagerStep ==
  ASSUME CacheInv, NEW m \in Services, NEW e, Manager(e), NEW bad \in BOOLEAN,
         er' = [er EXCEPT ![m] = e], spoilt' = [spoilt EXCEPT ![m] = bad],
         entities' = entities,
         \/ e.version = er[m].version + 1
         \/ e.version = er[m].version /\ bad
         \/ e.version = er[m].version /\ e.reg = er[m].reg /\ bad = spoilt[m]
  PROVE  CacheInv'
<1>1. er'[m] = e /\ \A n \in Services : n # m => er'[n] = er[n]
  BY DEF CacheInv
<1>2. spoilt'[m] = bad /\ \A n \in Services : n # m => spoilt'[n] = spoilt[n]
  BY DEF CacheInv
<1>3. \E D : er' \in [Services -> D]
  <2>1. PICK D : er \in [Services -> D]
    BY DEF CacheInv
  <2>2. er' \in [Services -> D \cup {e}]
    BY <2>1
  <2>. QED BY <2>2
<1>4. ASSUME NEW k \in Renderings PROVE CacheFollows(e, entities[m][k], bad)
  <2>1. CacheFollows(er[m], entities[m][k], spoilt[m]) /\ Manager(er[m])
    BY DEF CacheInv
  <2>. QED BY <2>1 DEF CacheFollows, Manager
<1>5. spoilt' \in [Services -> BOOLEAN]
  BY DEF CacheInv
<1>6. \A n \in Services : Manager(er'[n])
  BY <1>1 DEF CacheInv
<1>7. \A n \in Services, k \in Renderings :
        CacheFollows(er'[n], entities'[n][k], spoilt'[n])
  BY <1>1, <1>2, <1>4 DEF CacheInv
<1>. QED BY <1>3, <1>5, <1>6, <1>7 DEF CacheInv

\* A step that only marks a call as failed.
LEMMA SpoilStep ==
  ASSUME CacheInv, NEW m \in Services, er' = er, entities' = entities,
         spoilt' = spoilt \/ Fails(m)
  PROVE  CacheInv'
<1>1. CASE spoilt' = spoilt
  BY <1>1 DEF CacheInv
<1>2. CASE Fails(m)
  <2>1. spoilt' = [spoilt EXCEPT ![m] = TRUE]
    BY <1>2 DEF Fails
  <2>2. er' = [er EXCEPT ![m] = er[m]]
    BY DEF CacheInv
  <2>3. Manager(er[m])
    BY DEF CacheInv
  <2>. QED BY <2>1, <2>2, <2>3, ManagerStep
<1>. QED BY <1>1, <1>2

\* The queue of discovery is no registry.
LEMMA FollowSpoils ==
  ASSUME NEW m, NEW qn, NEW a, Follow(m, qn, a)
  PROVE  spoilt' = spoilt \/ Fails(m)
BY DEF Follow

\* What add_virtual_entities changes: the classes it registers are of the
\* program, and their relationships custom.
LEMMA AddedParts ==
  ASSUME NEW m, AddVirtualEntities(m)
  PROVE  \E new, q :
           /\ \A c \in DOMAIN new : c.try = 0 /\ \A n \in DOMAIN new[c] : new[c][n].kind = "custom"
           /\ \E bad \in BOOLEAN :
                /\ er' = [er EXCEPT ![m].virtual = << >>, ![m].pending = @ \o q,
                            ![m].reg = Updated(@, new), ![m].version = IF bad THEN @ ELSE Bumped(@)]
                /\ spoilt' = [spoilt EXCEPT ![m] = @ \/ bad]
                /\ entities' = entities
<1> DEFINE vs == er[m].virtual
           own(i) == world.own[m][vs[i]]
           mapped == {l.target : l \in {k \in world.local[m] : ~k.custom}}
           refused == {i \in DOMAIN vs : \/ vs[i] \in mapped \/ Local(m, vs[i]) \in DOMAIN er[m].reg
                                        \/ \E j \in 1 .. i - 1 : vs[j] = vs[i]}
           bads == refused \cup {i \in DOMAIN vs : Repeats(own(i)) # {}}
           met == {i \in DOMAIN vs \ refused : \A j \in bads : i <= j}
           remote(i) == IF i \in met
                        THEN Pick(own(i), {k \in Until(Repeats(own(i)), DOMAIN own(i)) :
                                             own(i)[k].svc # None})
                        ELSE << >>
           q == Concat([i \in DOMAIN vs |-> remote(i)], Len(vs))
           new == [c \in {Local(m, vs[i]) : i \in met \ bads} |-> CustomRels(m, world.own[m][c.type])]
           bad == bads # {}
<1>1. /\ er' = [er EXCEPT ![m].virtual = << >>, ![m].pending = @ \o q, ![m].reg = Updated(@, new),
                          ![m].version = IF bads = {} THEN Bumped(@) ELSE @]
      /\ spoilt' = [spoilt EXCEPT ![m] = @ \/ bads # {}]
      /\ entities' = entities
  BY DEF AddVirtualEntities
<1>4. ASSUME NEW c \in DOMAIN new
      PROVE  c.try = 0 /\ \A n \in DOMAIN new[c] : new[c][n].kind = "custom"
  <2>1. new[c] = CustomRels(m, world.own[m][c.type])
    OBVIOUS
  <2>2. \A n \in DOMAIN CustomRels(m, world.own[m][c.type]) :
          CustomRels(m, world.own[m][c.type])[n].kind = "custom"
    BY DEF CustomRels
  <2>3. \A i : Local(m, vs[i]).try = 0
    BY DEF Local
  <2>4. c \in {Local(m, vs[i]) : i \in met \ bads}
    OBVIOUS
  <2>5. PICK i \in met \ bads : c = Local(m, vs[i])
    BY <2>4
  <2>. HIDE DEF met, bads, vs, new
  <2>6. c.try = 0
    BY <2>3, <2>5
  <2>. QED BY <2>1, <2>2, <2>6
<1>. HIDE DEF bads, new, q
<1>2. bad \in BOOLEAN /\ (bad <=> ~(bads = {}))
  OBVIOUS
<1>3. /\ er' = [er EXCEPT ![m].virtual = << >>, ![m].pending = @ \o q, ![m].reg = Updated(@, new),
                          ![m].version = IF bad THEN @ ELSE Bumped(@)]
      /\ spoilt' = [spoilt EXCEPT ![m] = @ \/ bad]
  BY <1>1
<1>. HIDE DEF bad
<1>5. \A c \in DOMAIN new : c.try = 0 /\ \A n \in DOMAIN new[c] : new[c][n].kind = "custom"
  BY <1>4
<1>6. \E b \in BOOLEAN :
        /\ er' = [er EXCEPT ![m].virtual = << >>, ![m].pending = @ \o q,
                    ![m].reg = Updated(@, new), ![m].version = IF b THEN @ ELSE Bumped(@)]
        /\ spoilt' = [spoilt EXCEPT ![m] = @ \/ b]
        /\ entities' = entities
  BY <1>1, <1>2, <1>3
<1>. QED BY <1>5, <1>6

\* A step changes one manager as ManagerStep allows, fills one cache, or
\* touches neither.
LEMMA CacheStep == CacheInv /\ [Next]_vars => CacheInv'
<1>. SUFFICES ASSUME CacheInv, [Next]_vars PROVE CacheInv'
  OBVIOUS
<1>a. ASSUME UNCHANGED <<er, spoilt, entities>> PROVE CacheInv'
  BY <1>a DEF CacheInv
<1>b. ASSUME NEW m \in Services
      PROVE  /\ Manager(er[m])
             /\ spoilt[m] \in BOOLEAN
             /\ spoilt = [spoilt EXCEPT ![m] = spoilt[m]]
  BY DEF CacheInv
<1>1. ASSUME NEW m \in Services, Initialize(m)
      PROVE  CacheInv'
  <2>1. entities' = entities /\ spoilt' = [spoilt EXCEPT ![m] = spoilt[m]]
    BY <1>1, <1>b DEF Initialize
  <2>2. PICK e : /\ er' = [er EXCEPT ![m] = e] /\ e.reg = er[m].reg /\ DOMAIN e = DOMAIN er[m]
                 /\ e.version \in {er[m].version, er[m].version + 1}
    <3>1. CASE er' = [er EXCEPT ![m].version = Bumped(@)]
      <4>. WITNESS [er[m] EXCEPT !.version = Bumped(@)]
      <4>. QED BY <3>1, <1>b DEF Manager, Bumped
    <3>2. ASSUME NEW v, er' = [er EXCEPT ![m].mounted = Updated(@, v)]
          PROVE  \E e : /\ er' = [er EXCEPT ![m] = e] /\ e.reg = er[m].reg /\ DOMAIN e = DOMAIN er[m]
                        /\ e.version \in {er[m].version, er[m].version + 1}
      <4>. WITNESS [er[m] EXCEPT !.mounted = Updated(@, v)]
      <4>. QED BY <3>2, <1>b DEF Manager
    <3>. QED BY <1>1, <3>1, <3>2 DEF Initialize
  <2>3. Manager(e)
    BY <2>2, <1>b DEF Manager
  <2>. QED BY <2>1, <2>2, <2>3, <1>b, ManagerStep
<1>2. ASSUME NEW m \in Services, Discover(m)
      PROVE  CacheInv'
  <2>1. er' = er /\ entities' = entities /\ (spoilt' = spoilt \/ Fails(m))
    BY <1>2, FollowSpoils DEF Discover
  <2>. QED BY <2>1, SpoilStep
<1>3. ASSUME NEW m \in Services, FetchFragments(m)
      PROVE  CacheInv'
  <2>1. er' = er /\ entities' = entities /\ (spoilt' = spoilt \/ Fails(m))
    BY <1>3, FollowSpoils DEF FetchFragments
  <2>. QED BY <2>1, SpoilStep
<1>4. ASSUME NEW m \in Services, TransportRaises(m)
      PROVE  CacheInv'
  BY <1>4, SpoilStep DEF TransportRaises
<1>5. ASSUME NEW m \in Services, MaterializeTypes(m)
      PROVE  CacheInv'
  <2>1. CASE er' = er
    BY <1>5, <2>1, SpoilStep DEF MaterializeTypes
  <2>2. ASSUME NEW v, er' = [er EXCEPT ![m].fed = v], spoilt' = spoilt
        PROVE  CacheInv'
    <3>. DEFINE e == [er[m] EXCEPT !.fed = v]
    <3>1. er' = [er EXCEPT ![m] = e] /\ e.reg = er[m].reg /\ e.version = er[m].version
          /\ DOMAIN e = DOMAIN er[m]
      BY <2>2, <1>b DEF Manager
    <3>2. Manager(e)
      BY <3>1, <1>b DEF Manager
    <3>3. entities' = entities
      BY <1>5 DEF MaterializeTypes
    <3>. QED BY <2>2, <3>1, <3>2, <3>3, <1>b, ManagerStep
  <2>. QED BY <1>5, <2>1, <2>2 DEF MaterializeTypes
<1>6. ASSUME NEW m \in Services, NEW s, AskDtos(m, s)
      PROVE  CacheInv'
  <2>1. er' = er /\ entities' = entities /\ (spoilt' = spoilt \/ Fails(m))
    BY <1>6 DEF AskDtos
  <2>. QED BY <2>1, SpoilStep
\* federate() bumps the version when it has replaced the registry, or raises.
<1>7. ASSUME NEW m \in Services, Wire(m)
      PROVE  CacheInv'
  <2>1. PICK done :
          /\ er' = [er EXCEPT ![m].fed = done.fed, ![m].reg = done.reg,
                      ![m].loaders = done.loaders,
                      ![m].pending = IF done.ok THEN << >> ELSE @,
                      ![m].version = IF done.ok THEN Bumped(@) ELSE @]
          /\ IF done.ok THEN spoilt' = spoilt ELSE spoilt' = [spoilt EXCEPT ![m] = TRUE]
          /\ entities' = entities
    <3>1. PICK d \in Federated(m) :
            /\ er' = [er EXCEPT ![m].fed = d.fed, ![m].reg = d.reg,
                        ![m].loaders = d.loaders,
                        ![m].pending = IF d.ok THEN << >> ELSE @,
                        ![m].version = IF d.ok THEN Bumped(@) ELSE @]
            /\ IF d.ok THEN spoilt' = spoilt ELSE spoilt' = [spoilt EXCEPT ![m] = TRUE]
      BY <1>7 DEF Wire, Fails
    <3>2. entities' = entities
      BY <1>7 DEF Wire
    <3>. WITNESS d
    <3>. QED BY <3>1, <3>2
  <2>. DEFINE e == [er[m] EXCEPT !.fed = done.fed, !.reg = done.reg, !.loaders = done.loaders,
                      !.pending = IF done.ok THEN << >> ELSE @,
                      !.version = IF done.ok THEN Bumped(@) ELSE @]
  <2>2. er' = [er EXCEPT ![m] = e]
    BY <2>1
  <2>3. DOMAIN e = DOMAIN er[m] /\ e.version = IF done.ok THEN er[m].version + 1 ELSE er[m].version
    BY <1>b DEF Manager, Bumped
  <2>4. Manager(e)
    BY <2>3, <1>b DEF Manager
  <2>. HIDE DEF e
  <2>5. CASE done.ok
    <3>1. e.version = er[m].version + 1 /\ spoilt' = [spoilt EXCEPT ![m] = spoilt[m]]
      BY <2>1, <2>3, <2>5, <1>b
    <3>. QED BY <2>1, <2>2, <2>4, <3>1, <1>b, ManagerStep
  <2>6. CASE ~done.ok
    <3>1. e.version = er[m].version /\ spoilt' = [spoilt EXCEPT ![m] = TRUE]
      BY <2>1, <2>3, <2>6
    <3>. QED BY <2>1, <2>2, <2>4, <3>1, ManagerStep
  <2>. QED BY <2>5, <2>6
<1>8. ASSUME NEW m \in Services, AddVirtualEntities(m)
      PROVE  CacheInv'
  <2>a. PICK new, q :
          /\ \A c \in DOMAIN new : c.try = 0 /\ \A n \in DOMAIN new[c] : new[c][n].kind = "custom"
          /\ \E bad \in BOOLEAN :
               /\ er' = [er EXCEPT ![m].virtual = << >>, ![m].pending = @ \o q,
                           ![m].reg = Updated(@, new), ![m].version = IF bad THEN @ ELSE Bumped(@)]
               /\ spoilt' = [spoilt EXCEPT ![m] = @ \/ bad]
               /\ entities' = entities
    BY <1>8, AddedParts
  <2>1. PICK bad \in BOOLEAN :
          /\ er' = [er EXCEPT ![m].virtual = << >>, ![m].pending = @ \o q,
                      ![m].reg = Updated(@, new), ![m].version = IF bad THEN @ ELSE Bumped(@)]
          /\ spoilt' = [spoilt EXCEPT ![m] = @ \/ bad]
          /\ entities' = entities
    BY <2>a
  <2>. DEFINE e == [er[m] EXCEPT !.virtual = << >>, !.pending = @ \o q,
                      !.reg = Updated(@, new), !.version = IF bad THEN @ ELSE Bumped(@)]
  <2>2. er' = [er EXCEPT ![m] = e]
    BY <2>1
  <2>3. DOMAIN e = DOMAIN er[m] /\ e.version = IF bad THEN er[m].version ELSE er[m].version + 1
    BY <1>b DEF Manager, Bumped
  <2>4. Manager(e)
    BY <2>3, <1>b DEF Manager
  <2>5. spoilt' = [spoilt EXCEPT ![m] = spoilt[m] \/ bad] /\ (spoilt[m] \/ bad) \in BOOLEAN
    BY <2>1, <1>b
  <2>. HIDE DEF e
  <2>. QED BY <2>1, <2>2, <2>3, <2>4, <2>5, ManagerStep
<1>9. ASSUME NEW m \in Services, CreateResolver(m)
      PROVE  CacheInv'
  <2>. DEFINE e == [er[m] EXCEPT !.frozen = TRUE]
  <2>1. er' = [er EXCEPT ![m] = e] /\ e.reg = er[m].reg /\ e.version = er[m].version
        /\ DOMAIN e = DOMAIN er[m]
    BY <1>9, <1>b DEF CreateResolver, Manager
  <2>2. Manager(e)
    BY <2>1, <1>b DEF Manager
  <2>. QED BY <1>9, <2>1, <2>2, <1>b, ManagerStep DEF CreateResolver
\* A generator made now holds the registry of now.
<1>10. ASSUME NEW m \in Services, NEW k \in Renderings, ReadSchema(m, k)
       PROVE  CacheInv'
  <2>1. PICK n : /\ entities' = [entities EXCEPT ![m][k] = n]
                 /\ n.version = er[m].version /\ n.classes = DOMAIN er[m].reg
                 /\ n.reg = er[m].reg
    <3>. WITNESS [version |-> er[m].version, classes |-> DOMAIN er[m].reg, reg |-> er[m].reg]
    <3>. QED BY <1>10 DEF ReadSchema
  <2>2. er' = er /\ spoilt' = spoilt
    BY <1>10 DEF ReadSchema
  <2>3. PICK D : entities \in [Services -> [Renderings -> D]]
    BY DEF CacheInv
  <2>4. entities' \in [Services -> [Renderings -> D \cup {n}]]
    BY <2>1, <2>3
  <2>5. \A s \in Services, l \in Renderings :
          entities'[s][l] = IF s = m /\ l = k THEN n ELSE entities[s][l]
    BY <2>1, <2>3
  <2>6. CacheFollows(er[m], n, spoilt[m])
    BY <2>1, <1>b DEF CacheFollows, Manager
  <2>. QED BY <2>2, <2>4, <2>5, <2>6 DEF CacheInv
<1>11. CASE Compose
  BY <1>11, <1>a DEF Compose
<1>12. CASE UNCHANGED vars
  BY <1>12, <1>a DEF vars
<1>. QED
  BY <1>1, <1>2, <1>3, <1>4, <1>5, <1>6, <1>7, <1>8, <1>9, <1>10, <1>11, <1>12
  DEF Next, BringUp

\* A handler starts with nothing cached.
LEMMA CacheInit == Init => CacheInv
<1>. SUFFICES ASSUME Init PROVE CacheInv
  OBVIOUS
<1>1. /\ \A m \in Services : er[m].version = 0 /\ {"version", "reg"} \subseteq DOMAIN er[m]
      /\ \E D : er \in [Services -> D]
  <2>. DEFINE first(m) ==
         [reg |-> Registry0(m), pending |-> world.declared[m], mounted |-> << >>,
          fed |-> NoFed, loaders |-> << >>, version |-> 0, frozen |-> FALSE,
          virtual |-> world.virtual[m]]
  <2>1. er = [m \in Services |-> first(m)]
    BY DEF Init
  <2>2. \A m \in Services : first(m).version = 0
                           /\ {"version", "reg"} \subseteq DOMAIN first(m)
    OBVIOUS
  <2>. HIDE DEF first
  <2>3. er \in [Services -> {first(m) : m \in Services}]
    BY <2>1
  <2>4. \E D : er \in [Services -> D]
    BY <2>3
  <2>. QED BY <2>1, <2>2, <2>4
<1>2. /\ \E D : entities \in [Services -> [Renderings -> D]]
      /\ \A m \in Services, k \in Renderings : entities[m][k] = NoCache
  <2>1. entities = [m \in Services |-> [k \in Renderings |-> NoCache]]
    BY DEF Init
  <2>2. entities \in [Services -> [Renderings -> {NoCache}]]
    BY <2>1
  <2>3. \E D : entities \in [Services -> [Renderings -> D]]
    BY <2>2
  <2>. QED BY <2>1, <2>3
<1>3. spoilt \in [Services -> BOOLEAN]
  BY DEF Init
<1>4. \A m \in Services : Manager(er[m])
  BY <1>1 DEF Manager
<1>5. \A m \in Services, k \in Renderings : CacheFollows(er[m], entities[m][k], spoilt[m])
  BY <1>1, <1>2 DEF CacheFollows, NoCache
<1>. QED BY <1>1, <1>2, <1>3, <1>4, <1>5 DEF CacheInv

\* A handler never serves a schema of a registry that has changed since, as
\* long as no call of its manager failed halfway.
THEOREM SchemaCacheFresh == Spec => []EntityCacheFresh
<1>1. CacheInv => EntityCacheFresh
  BY DEF CacheInv, CacheFollows, EntityCacheFresh, Cached
<1>. QED BY <1>1, CacheInit, CacheStep, PTL DEF Spec

-----------------------------------------------------------------------------
(* The composed registry.                                                  *)

\* The reverse routes name the service that made the loader.
OwnerInv == \A l \in DOMAIN composed.owner : composed.owner[l] = l.by

\* Only Compose sets the routes, from the makers.
LEMMA OwnerStep == OwnerInv /\ [Next]_vars => OwnerInv'
<1>. SUFFICES ASSUME OwnerInv, [Next]_vars PROVE OwnerInv'
  OBVIOUS
<1>1. CASE Compose
  BY <1>1 DEF Compose, OwnerInv
<1>2. CASE composed' = composed
  BY <1>2 DEF OwnerInv
<1>3. ASSUME NEW m \in Services, BringUp(m) PROVE composed' = composed
  BY <1>3 DEF BringUp, Discover, FetchFragments, MaterializeTypes, AskDtos, Wire
<1>4. ASSUME NEW m \in Services,
             \/ Initialize(m) \/ TransportRaises(m) \/ AddVirtualEntities(m)
             \/ CreateResolver(m) \/ \E k \in Renderings : ReadSchema(m, k)
      PROVE  composed' = composed
  BY <1>4 DEF Initialize, TransportRaises, AddVirtualEntities, CreateResolver, ReadSchema
<1>. QED BY <1>1, <1>2, <1>3, <1>4 DEF Next, vars

\* A load of a ComposedErManager reaches the member that made the loader, the
\* loaders wired after its construction included.
THEOREM ComposedRoutes == Spec => []ComposedLoadersRoute
<1>1. Init => OwnerInv
  BY DEF Init, OwnerInv
<1>2. OwnerInv => ComposedLoadersRoute
  <2>1. ASSUME OwnerInv, NEW m \in world.members, NEW l \in LoadersOf(m)
        PROVE  Owner(l) = m
    <3>1. \A n \in world.members : l \in LoadersOf(n) => l.by = n
      <4>1. SUFFICES ASSUME NEW n \in world.members, l \in LoadersOf(n) PROVE l.by = n
        OBVIOUS
      <4>2. PICK p \in (DOMAIN er[n].reg) \X Rels : l = LoaderOf(n, p[1], p[2])
        BY <4>1 DEF LoadersOf
      <4>. QED BY <4>2 DEF LoaderOf
    <3>. QED BY <2>1, <3>1 DEF Owner, OwnerInv
  <2>. QED BY <2>1 DEF ComposedLoadersRoute
<1>. QED BY <1>1, <1>2, OwnerStep, PTL DEF Spec
-----------------------------------------------------------------------------
(* What every manager keeps.  The operators take the declarations and the  *)
(* parts of one manager, so that a step of one is no step of the others.   *)

QNames == Services \X Types
ManagerFields == {"reg", "pending", "mounted", "fed", "loaders", "version", "frozen", "virtual"}
WorkFields == {"queue", "visited", "endpoints", "held", "fragments", "targets", "asking", "dtos"}

RelDesc == [name : Rels, svc : Services \cup {None}, type : Types, list : BOOLEAN,
            paged : BOOLEAN, endpoint : Services \cup {None}]
OwnerOf(qn, r) == IF r.svc = None THEN qn[1] ELSE r.svc

\* No service advertises the name of another.
OwnNames(w) == \A s \in Services : w.advertised[s] \in Services => w.advertised[s] = s

\* A fragment of qn has, of the service that is so called, every relationship
\* between its own types.
Speaks(w, f, qn) ==
  OwnNames(w) =>
    \A l \in Built(w, qn[1]) : l.src = qn[2] =>
      \E r \in f.rels : r.name = l.name /\ r.svc = None /\ r.type = l.target
GoodFragment(w, f, qn) ==
  /\ f.rels \subseteq RelDesc /\ IsFiniteSet(f.rels)
  /\ \A r, s \in f.rels : r.name = s.name => r = s
  /\ Speaks(w, f, qn)

RegistryType(m, reg) ==
  \A c \in DOMAIN reg :
    /\ c \in ClassIds /\ c.by = m /\ (c.try = 0 => c.svc = m)
    /\ \A n \in DOMAIN reg[c] : n \in Rels /\ reg[c][n] \in RelInfo

\* Every target is registered, or of a custom relationship of an own class, or
\* is to be wired again by the next call.
TargetsKnown(m, reg, pending) ==
  \A c \in DOMAIN reg : \A n \in DOMAIN reg[c] :
    \/ reg[c][n].target \in DOMAIN reg
    \/ reg[c][n].kind = "custom" /\ c.try = 0
    \/ \E d \in Range(pending) : c = Local(m, d.src) /\ d.name = n

\* The relationships of a service between its own types are there, on its
\* entities and on the classes others made of them, and a class that was not
\* materialized is declared.
OwnRelations(w, m, reg) ==
  /\ \A t \in w.entities[m] : Local(m, t) \in DOMAIN reg
  /\ OwnNames(w) =>
       \A c \in DOMAIN reg : \A l \in Built(w, c.svc) : l.src = c.type =>
         l.name \in DOMAIN reg[c] /\ reg[c][l.name].target = [c EXCEPT !.type = l.target]
  /\ \A l \in Built(w, m) :
       LET rels == reg[Local(m, l.src)]
       IN l.name \in DOMAIN rels /\ rels[l.name].svc = None
          /\ rels[l.name].target = Local(m, l.target) /\ rels[l.name].list = l.list
  /\ \A c \in DOMAIN reg : c.try = 0 => c.type \in w.entities[m] \cup Range(w.virtual[m])

\* What is left to wire: of a class that was declared, and of no relationship
\* that is there.
ToWire(w, m, pending) ==
  /\ pending \in Seq(RemoteDecl)
  /\ \A d \in Range(pending) :
       /\ d.src \in w.entities[m] \cup Range(w.virtual[m])
       /\ \A l \in Built(w, m) : l.src = d.src => l.name # d.name

ManagerInv(w, m, p, t, e) ==
  /\ DOMAIN e = ManagerFields
  /\ p \in {"idle", "ready", "failed"} \cup Running
  /\ t \in 0 .. w.calls[m] /\ (p \in Running => t > 0)
  /\ ToWire(w, m, e.pending) /\ (p = "ready" => TargetsKnown(m, e.reg, << >>))
  /\ e.virtual \in Seq(Types) /\ e.virtual \in {w.virtual[m], << >>}
  /\ \A s \in DOMAIN e.mounted : s \in Services /\ e.mounted[s] \in Services
  /\ DOMAIN e.fed = {"try", "types"} /\ e.fed.try \in 0 .. t /\ e.fed.types \subseteq QNames
  /\ \A k \in DOMAIN e.loaders : e.loaders[k] \in ClassIds
  /\ RegistryType(m, e.reg)
  /\ TargetsKnown(m, e.reg, e.pending)
  /\ OwnRelations(w, m, e.reg)

\* The locals of federate(): every fragment is of a service with an endpoint,
\* and what it leads to is held or queued.
Held(w, held, endpoints) ==
  \A s \in DOMAIN held : s \in DOMAIN endpoints
    /\ \A t \in DOMAIN held[s].types : t \in Types /\ GoodFragment(w, held[s].types[t], <<s, t>>)
Closed(fragments, queue) ==
  \A qn \in DOMAIN fragments : \A r \in fragments[qn].rels :
    <<OwnerOf(qn, r), r.type>> \in DOMAIN fragments \cup Range(queue)
Told(w, qn) == \E s \in Services : \E d \in w.public[s] : d.name = qn[2]
WorkInv(w, p, t, e, k) ==
  /\ DOMAIN k = WorkFields
  /\ p \notin Running => k = NoWork
  /\ p # "fetch" => k.queue = << >>
  /\ k.queue \in Seq(QNames) /\ k.visited = DOMAIN k.fragments
  /\ \A s \in DOMAIN k.endpoints : s \in Services /\ k.endpoints[s] \in Services
  /\ Held(w, k.held, k.endpoints)
  /\ \A qn \in DOMAIN k.fragments :
       qn \in QNames /\ qn[1] \in DOMAIN k.endpoints /\ GoodFragment(w, k.fragments[qn], qn)
  /\ Closed(k.fragments, k.queue)
  /\ k.targets \subseteq QNames
  /\ k.asking \subseteq DOMAIN k.endpoints
  /\ \A qn \in DOMAIN k.dtos : qn \in QNames /\ qn[1] \in DOMAIN k.endpoints /\ Told(w, qn)
  /\ p = "dtos" => /\ e.fed = [try |-> t, types |-> DOMAIN k.fragments]
                   /\ \A qn \in k.targets : qn[1] \in DOMAIN k.endpoints

SubsetsType(w, s) ==
  /\ DOMAIN s = {"pending", "bound", "anno"}
  /\ s.pending \in Seq(DOMAIN w.subsets)
  /\ DOMAIN s.bound = DOMAIN w.subsets
  /\ \A i \in DOMAIN w.subsets : s.bound[i] \in Seq(ClassIds)

PerService(f) == f = [s \in Services |-> f[s]]
FedInv ==
  /\ world \in Worlds
  /\ PerService(pc) /\ PerService(tries) /\ PerService(er) /\ PerService(work)
  /\ spoilt \in [Services -> BOOLEAN] /\ lost \in 0 .. MaxLost
  /\ \A m \in Services : /\ ManagerInv(world, m, pc[m], tries[m], er[m])
                         /\ WorkInv(world, pc[m], tries[m], er[m], work[m])
  /\ SubsetsType(world, subsets)

-----------------------------------------------------------------------------
(* Operators of the model.                                                 *)

\* Updated overrides the one by the other.
LEMMA UpdatedFacts ==
  ASSUME NEW f, NEW g
  PROVE  /\ DOMAIN Updated(f, g) = DOMAIN f \cup DOMAIN g
         /\ \A x \in DOMAIN g : Updated(f, g)[x] = g[x]
         /\ \A x \in DOMAIN f \ DOMAIN g : Updated(f, g)[x] = f[x]
BY DEF Updated

\* The elements of a sequence are of the set it is over.
LEMMA SeqRange ==
  ASSUME NEW T, NEW s \in Seq(T)
  PROVE  Range(s) \subseteq T /\ (s = << >> => Range(s) = {})
BY DEF Range

\* An order of a finite set holds its elements and no others.
LEMMA OrdersList ==
  ASSUME NEW S, IsFiniteSet(S)
  PROVE  /\ InSomeOrder(S) \in Orders(S)
         /\ \A q \in Orders(S) : q \in Seq(S) /\ Range(q) = S
<1>1. Cardinality(S) \in Nat /\ ExistsBijection(1 .. Cardinality(S), S)
  BY FS_CardinalityType
<1>2. PICK q : q \in Bijection(1 .. Cardinality(S), S)
  BY <1>1 DEF ExistsBijection
<1>3. q \in Orders(S)
  BY <1>2 DEF Orders, Bijection, Surjection, Range
<1>4. \A r \in Orders(S) : r \in Seq(S) /\ Range(r) = S
  BY <1>1 DEF Orders, Range
<1>. QED BY <1>3, <1>4 DEF InSomeOrder

\* What _pop and list + list leave.
LEMMA PoppedRange ==
  ASSUME NEW T, NEW s \in Seq(T), s # << >>, NEW t \in Seq(T)
  PROVE  /\ WithoutLast(s) \in Seq(T) /\ s[Len(s)] \in T
         /\ Range(s) = Range(WithoutLast(s)) \cup {s[Len(s)]}
         /\ WithoutLast(s) \o t \in Seq(T)
         /\ Range(WithoutLast(s) \o t) = Range(WithoutLast(s)) \cup Range(t)
<1> DEFINE n == Len(s)
           u == WithoutLast(s)
<1>1. n \in Nat /\ n > 0 /\ DOMAIN s = 1 .. n /\ \A k \in 1 .. n : s[k] \in T
  OBVIOUS
<1>2. u \in Seq(T) /\ DOMAIN u = 1 .. n - 1 /\ \A k \in 1 .. n - 1 : u[k] = s[k]
  BY <1>1 DEF WithoutLast
<1>. HIDE DEF n, u
<1>3. \A k \in 1 .. n : k \in 1 .. n - 1 \/ k = n
  BY <1>1
<1>4. \A k \in 1 .. n - 1 : k \in 1 .. n
  BY <1>1
<1>5. n \in 1 .. n
  BY <1>1
<1>6. Range(s) = Range(u) \cup {s[n]}
  BY <1>1, <1>2, <1>3, <1>4, <1>5 DEF Range
<1>7. u \o t \in Seq(T) /\ Range(u \o t) = Range(u) \cup Range(t)
  BY <1>2, AppendedMembers
<1>. QED BY <1>1, <1>2, <1>5, <1>6, <1>7 DEF n, u

-----------------------------------------------------------------------------
(* Every step keeps FedInv.                                                *)

\* A step that changes one manager and its locals need only keep their
\* invariants.
LEMMA MemberStep ==
  ASSUME FedInv, NEW m \in Services, NEW p, NEW t, NEW e, NEW k,
         pc' = [pc EXCEPT ![m] = p], tries' = [tries EXCEPT ![m] = t],
         er' = [er EXCEPT ![m] = e], work' = [work EXCEPT ![m] = k],
         world' = world, spoilt' \in [Services -> BOOLEAN], lost' \in 0 .. MaxLost,
         SubsetsType(world, subsets'),
         ManagerInv(world, m, p, t, e), WorkInv(world, p, t, e, k)
  PROVE  FedInv'
<1>1. /\ PerService(pc') /\ PerService(tries') /\ PerService(er') /\ PerService(work')
      /\ pc'[m] = p /\ tries'[m] = t /\ er'[m] = e /\ work'[m] = k
  BY DEF FedInv, PerService
<1>2. \A n \in Services : n # m =>
        pc'[n] = pc[n] /\ tries'[n] = tries[n] /\ er'[n] = er[n] /\ work'[n] = work[n]
  BY DEF FedInv, PerService
<1>3. ASSUME NEW n \in Services
      PROVE  /\ ManagerInv(world', n, pc'[n], tries'[n], er'[n])
             /\ WorkInv(world', pc'[n], tries'[n], er'[n], work'[n])
  <2>1. CASE n = m
    BY <1>1, <2>1
  <2>2. CASE n # m
    BY <1>2, <2>2 DEF FedInv
  <2>. QED BY <2>1, <2>2
<1>. QED BY <1>1, <1>3 DEF FedInv

\* A call that raises forgets its locals.
LEMMA NoWorkInv ==
  ASSUME NEW w, NEW p, p \notin Running, NEW t, NEW e
  PROVE  WorkInv(w, p, t, e, NoWork)
<1>1. /\ DOMAIN NoWork = WorkFields /\ NoWork.queue = << >> /\ NoWork.visited = {}
      /\ NoWork.fragments = << >> /\ NoWork.endpoints = << >> /\ NoWork.held = << >>
      /\ NoWork.targets = {} /\ NoWork.asking = {} /\ NoWork.dtos = << >>
  BY DEF NoWork, WorkFields
<1>2. DOMAIN << >> = {} /\ << >> \in Seq(QNames)
  OBVIOUS
<1>3. Closed(NoWork.fragments, NoWork.queue)
  BY <1>1, <1>2 DEF Closed
<1>4. Held(w, NoWork.held, NoWork.endpoints)
  BY <1>1, <1>2 DEF Held
<1>. QED BY <1>1, <1>2, <1>3, <1>4 DEF WorkInv, Running

\* The registry of a manager stays when its call ends or raises.
LEMMA ManagerStays ==
  ASSUME NEW w, NEW m, NEW p, NEW t, NEW e, ManagerInv(w, m, p, t, e),
         NEW q \in {"failed", "dtos", "fetch"}, q \in Running => p \in Running
  PROVE  ManagerInv(w, m, q, t, e)
BY DEF ManagerInv, Running

\* A call that fails drops its locals and leaves its manager.
LEMMA FailsStep ==
  ASSUME FedInv, NEW m \in Services, Fails(m), lost' \in 0 .. MaxLost,
         UNCHANGED <<world, tries, er, subsets>>
  PROVE  FedInv'
<1>1. /\ pc' = [pc EXCEPT ![m] = "failed"] /\ work' = [work EXCEPT ![m] = NoWork]
      /\ spoilt' \in [Services -> BOOLEAN]
  BY DEF FedInv, PerService, Fails
<1>a. tries' = [tries EXCEPT ![m] = tries[m]] /\ er' = [er EXCEPT ![m] = er[m]]
  BY DEF FedInv, PerService
<1>2. SubsetsType(world, subsets')
  BY DEF FedInv
<1>3. ManagerInv(world, m, "failed", tries[m], er[m])
  <2>1. ManagerInv(world, m, pc[m], tries[m], er[m])
    BY DEF FedInv
  <2>. QED BY <2>1, ManagerStays DEF Running
<1>4. WorkInv(world, "failed", tries[m], er[m], NoWork)
  BY NoWorkInv DEF Running
<1>. QED BY <1>1, <1>a, <1>2, <1>3, <1>4, MemberStep


\* What FederationAssumption says of the declarations of a service.
LEMMA WorldFacts ==
  ASSUME NEW w \in Worlds, NEW m \in Services
  PROVE  /\ w.entities[m] \subseteq Types /\ w.calls[m] \in 0 .. MaxTries
         /\ w.subsets \in Seq(SubsetDecl) /\ w.declared[m] \in Seq(RemoteDecl)
         /\ w.fields[m] \in Seq(FieldDecl) /\ w.virtual[m] \in Seq(Types)
         /\ \A l \in Built(w, m) :
              /\ l.src \in w.entities[m] /\ l.target \in Types /\ l.name \in Rels
              /\ l.list \in BOOLEAN /\ l.paged \in BOOLEAN /\ l.custom \in BOOLEAN
              /\ l.custom \/ l.target \in w.entities[m]
         /\ w.own[m] \in [Types -> Seq(OwnDecl)]
         /\ \A u \in Types : \A i \in DOMAIN w.own[m][u] : w.own[m][u][i].src = u
         /\ w.public[m] \subseteq [name : Types, keyed : BOOLEAN, refs : SUBSET Types]
         /\ MaxTries \in Nat /\ MaxLost \in Nat /\ IsFiniteSet(Rels) /\ None \notin Services
<1>1. /\ w.entities \in [Services -> SUBSET Types]
      /\ w.calls \in [Services -> 0 .. MaxTries] /\ w.subsets \in Seq(SubsetDecl)
      /\ MaxTries \in Nat /\ MaxLost \in Nat /\ IsFiniteSet(Rels) /\ None \notin Services
  BY FederationAssumption DEF Accepted
<1>2. /\ w.declared[m] \in Seq(RemoteDecl) /\ w.fields[m] \in Seq(FieldDecl)
      /\ w.virtual[m] \in Seq(Types)
      /\ w.public[m] \subseteq [name : Types, keyed : BOOLEAN, refs : SUBSET Types]
  BY FederationAssumption DEF Accepted
<1>3. \A l \in w.local[m] : /\ l.src \in w.entities[m] /\ l.target \in Types /\ l.name \in Rels
                            /\ {l.list, l.paged, l.custom} \subseteq BOOLEAN
  BY FederationAssumption DEF Accepted
<1>4. /\ w.own[m] \in [Types -> Seq(OwnDecl)]
      /\ \A u \in Types : \A i \in DOMAIN w.own[m][u] : w.own[m][u][i].src = u
  BY FederationAssumption DEF Accepted
<1>5. \A l \in Built(w, m) : l \in w.local[m] /\ (l.custom \/ l.target \in w.entities[m])
  BY DEF Built
<1>. QED BY <1>1, <1>2, <1>3, <1>4, <1>5

\* __init__ refuses two relationships of one name.
LEMMA NamesApart ==
  ASSUME NEW w \in Worlds, NEW m \in Services
  PROVE  /\ \A k, l \in Built(w, m) : k.src = l.src /\ k.name = l.name => k = l
         /\ \A d \in Range(w.declared[m]) :
              /\ d.src \in w.entities[m]
              /\ \A l \in Built(w, m) : l.src = d.src => l.name # d.name
              /\ \A f \in Range(w.declared[m]) : f.src = d.src /\ f.name = d.name => f = d
<1>1. \A k, l \in Built(w, m) : k.src = l.src /\ k.name = l.name => k = l
  BY FederationAssumption DEF Accepted
<1>2. \A i \in DOMAIN w.declared[m] :
        /\ w.declared[m][i].src \in w.entities[m]
        /\ \A l \in Built(w, m) : l.src = w.declared[m][i].src => l.name # w.declared[m][i].name
        /\ \A j \in DOMAIN w.declared[m] :
             w.declared[m][j].src = w.declared[m][i].src
               /\ w.declared[m][j].name = w.declared[m][i].name => j = i
  BY FederationAssumption DEF Accepted
<1>. QED BY <1>1, <1>2 DEF Range

\* The RemoteRef fields of a service: declared, or of a subset of its own that
\* is bound.
Declares(w, m, bound) ==
  LET own == {i \in DOMAIN w.subsets : w.subsets[i].owner = m /\ bound[i] # << >>}
  IN Range(w.fields[m]) \cup UNION {Range(w.subsets[i].fields) : i \in own}

\* FieldsOf lists the fields a service declares, and no others.
LEMMA FieldsFacts ==
  ASSUME FedInv, NEW m \in Services, NEW b, DOMAIN b = DOMAIN world.subsets
  PROVE  /\ FieldsOf(m, b) \in Seq(FieldDecl)
         /\ Range(FieldsOf(m, b)) = Declares(world, m, b)
<1> DEFINE n == Len(world.subsets)
           part(i) == IF world.subsets[i].owner = m /\ b[i] # << >>
                      THEN world.subsets[i].fields ELSE << >>
           ss == [i \in DOMAIN world.subsets |-> part(i)]
           Own == {j \in DOMAIN world.subsets : world.subsets[j].owner = m /\ b[j] # << >>}
<1>1. world \in Worlds
  BY DEF FedInv
<1>2. world.subsets \in Seq(SubsetDecl) /\ world.fields[m] \in Seq(FieldDecl)
  BY <1>1, WorldFacts
<1>3. n \in Nat /\ DOMAIN world.subsets = 1 .. n
      /\ \A i \in 1 .. n : world.subsets[i].fields \in Seq(FieldDecl)
  <2>1. n \in Nat /\ DOMAIN world.subsets = 1 .. n
    BY <1>2
  <2>2. \A i \in 1 .. n : world.subsets[i] \in SubsetDecl
    BY <1>2
  <2>3. \A x \in SubsetDecl : x.fields \in Seq(FieldDecl)
    BY DEF SubsetDecl
  <2>. QED BY <2>1, <2>2, <2>3
<1>. HIDE DEF n
<1>4. \A i \in 1 .. n : ss[i] = part(i) /\ ss[i] \in Seq(FieldDecl)
  <2>1. \A i \in 1 .. n : ss[i] = part(i)
    BY <1>3
  <2>2. << >> \in Seq(FieldDecl)
    OBVIOUS
  <2>3. \A i \in 1 .. n : part(i) \in Seq(FieldDecl)
    BY <1>3, <2>2
  <2>. HIDE DEF part, ss
  <2>. QED BY <2>1, <2>3
<1>5. FieldsOf(m, b) = world.fields[m] \o Concat(ss, n)
  BY DEF FieldsOf, n
<1>6. \A i \in 1 .. n : Range(ss[i]) = IF i \in Own THEN Range(world.subsets[i].fields) ELSE {}
  BY <1>3, <1>4 DEF Range
<1>. HIDE DEF ss, part
<1>7. Concat(ss, n) \in Seq(FieldDecl)
  BY <1>3, <1>4, ConcatType
<1>8. Range(Concat(ss, n)) = UNION {Range(ss[i]) : i \in 1 .. n}
  BY <1>3, <1>4, ConcatMembers
<1>9. UNION {Range(ss[i]) : i \in 1 .. n} = UNION {Range(world.subsets[i].fields) : i \in Own}
  BY <1>3, <1>6
<1>10. /\ world.fields[m] \o Concat(ss, n) \in Seq(FieldDecl)
       /\ Range(world.fields[m] \o Concat(ss, n)) = Range(world.fields[m]) \cup Range(Concat(ss, n))
  BY <1>2, <1>7, AppendedMembers
<1>. QED BY <1>5, <1>8, <1>9, <1>10 DEF Declares

\* The endpoints of a list of declarations.
LEMMA FirstUrlType ==
  ASSUME NEW T, NEW ds \in Seq(T), \A d \in T : d.svc \in Services /\ d.url \in Services \cup {None}
  PROVE  \A s \in DOMAIN FirstUrl(ds) : s \in Services /\ FirstUrl(ds)[s] \in Services
<1> DEFINE told == {i \in DOMAIN ds : ds[i].url # None}
<1>1. DOMAIN FirstUrl(ds) = {ds[i].svc : i \in told}
  BY DEF FirstUrl
<1>2. DOMAIN ds \subseteq Nat /\ \A i \in told : ds[i].svc \in Services /\ ds[i].url \in Services
  OBVIOUS
<1>. SUFFICES ASSUME NEW s \in DOMAIN FirstUrl(ds)
              PROVE  s \in Services /\ FirstUrl(ds)[s] \in Services
  OBVIOUS
<1> DEFINE at == {i \in told : ds[i].svc = s}
           first == CHOOSE i \in told : ds[i].svc = s /\ \A j \in told : ds[j].svc = s => i <= j
<1>3. at \subseteq Nat /\ at # {}
  BY <1>1, <1>2
<1>4. \E i \in at : \A j \in at : i <= j
  BY <1>3, LeastNat
<1>5. \E i \in told : ds[i].svc = s /\ \A j \in told : ds[j].svc = s => i <= j
  BY <1>4
<1>6. first \in told
  BY <1>5
<1>7. FirstUrl(ds)[s] = ds[first].url
  BY <1>1 DEF FirstUrl
<1>. QED BY <1>1, <1>2, <1>6, <1>7

\* A function has no more values than arguments.
LEMMA RangeFinite ==
  ASSUME NEW f, IsFiniteSet(DOMAIN f)
  PROVE  IsFiniteSet(Range(f))
<1> DEFINE g == [x \in DOMAIN f |-> f[x]]
<1>1. g \in Surjection(DOMAIN f, Range(f))
  BY DEF Range, Surjection
<1>. HIDE DEF g
<1>. QED BY <1>1, FS_Surjection

\* A call begins with nothing fetched and the mounted services to ask.
LEMMA InitializeStep ==
  ASSUME FedInv, NEW m \in Services, Initialize(m)
  PROVE  FedInv'
<1> DEFINE fields == FieldsOf(m, subsets.bound)
           all == er[m].pending \o fields
           services == FirstUrl(all)
           targets == {QN(d) : d \in Range(er[m].pending)}
           t == tries[m] + 1
<1>1. world \in Worlds /\ ManagerInv(world, m, pc[m], tries[m], er[m])
      /\ WorkInv(world, pc[m], tries[m], er[m], work[m]) /\ SubsetsType(world, subsets)
  BY DEF FedInv
<1>2. fields \in Seq(FieldDecl)
  BY <1>1, FieldsFacts DEF SubsetsType
<1>a. world.declared[m] \in Seq(RemoteDecl) /\ MaxTries \in Nat
      /\ world.calls[m] \in 0 .. MaxTries
  BY <1>1, WorldFacts
<1>b. er[m].pending \in Seq(RemoteDecl) /\ tries[m] \in 0 .. world.calls[m]
  BY <1>1 DEF ManagerInv, ToWire
<1>3. er[m].pending \in Seq(RemoteDecl) /\ MaxTries \in Nat /\ world.calls[m] \in 0 .. MaxTries
  BY <1>a, <1>b
<1>4. all \in Seq(RemoteDecl \cup FieldDecl)
  BY <1>2, <1>3
<1>5. \A d \in RemoteDecl \cup FieldDecl : d.svc \in Services /\ d.url \in Services \cup {None}
                                          /\ QN(d) \in QNames
  BY DEF RemoteDecl, FieldDecl, QN, QNames
<1>6. \A s \in DOMAIN services : s \in Services /\ services[s] \in Services
  BY <1>4, <1>5, FirstUrlType
<1>7. tries' = [tries EXCEPT ![m] = t] /\ t \in 0 .. world.calls[m] /\ t > 0 /\ t - 1 = tries[m]
      /\ pc[m] \notin Running /\ UNCHANGED <<world, spoilt, subsets, lost>>
  <2>1. /\ tries' = [tries EXCEPT ![m] = @ + 1] /\ pc[m] \notin Running
        /\ tries[m] < world.calls[m] /\ UNCHANGED <<world, spoilt, subsets, lost>>
    BY DEF Initialize
  <2>2. tries' = [tries EXCEPT ![m] = t]
    BY <2>1
  <2>. QED BY <1>3, <1>b, <2>1, <2>2
<1>8. SubsetsType(world, subsets') /\ spoilt' \in [Services -> BOOLEAN] /\ lost' \in 0 .. MaxLost
  BY <1>7 DEF FedInv
<1>9. CASE all = << >>
  <2> DEFINE e == [er[m] EXCEPT !.version = Bumped(@)]
  <2>1. pc' = [pc EXCEPT ![m] = "ready"] /\ er' = [er EXCEPT ![m] = e] /\ work' = work
    BY <1>9 DEF Initialize
  <2>2. work' = [work EXCEPT ![m] = work[m]]
    BY <2>1 DEF FedInv, PerService
  <2>3. er[m].pending = << >>
    BY <1>2, <1>3, <1>9
  <2>4. ManagerInv(world, m, "ready", t, e)
    <3>1. /\ DOMAIN e = ManagerFields /\ e.pending = er[m].pending /\ e.virtual = er[m].virtual
          /\ e.mounted = er[m].mounted /\ e.fed = er[m].fed /\ e.loaders = er[m].loaders
          /\ e.reg = er[m].reg
      BY <1>1, <2>3 DEF ManagerInv, ManagerFields
    <3>. QED BY <1>1, <1>3, <1>7, <2>3, <3>1 DEF ManagerInv, Running
  <2>5. WorkInv(world, "ready", t, e, work[m])
    BY <1>1, <1>7, NoWorkInv DEF WorkInv, Running
  <2>. HIDE DEF e, t
  <2>. QED BY <1>7, <1>8, <2>1, <2>2, <2>4, <2>5, MemberStep
<1>10. CASE all # << >>
  <2> DEFINE e == [er[m] EXCEPT !.mounted = Updated(@, services)]
  <2>1. PICK q \in Orders(targets) :
          work' = [work EXCEPT ![m] = [NoWork EXCEPT !.queue = q, !.endpoints = services,
                                         !.targets = {QN(d) : d \in Range(fields)}]]
    BY <1>10 DEF Initialize
  <2> DEFINE k == [NoWork EXCEPT !.queue = q, !.endpoints = services,
                                 !.targets = {QN(d) : d \in Range(fields)}]
  <2>2. pc' = [pc EXCEPT ![m] = "fetch"] /\ er' = [er EXCEPT ![m] = e]
    BY <1>10 DEF Initialize
  <2>3. ManagerInv(world, m, "fetch", t, e)
    <3>1. /\ DOMAIN e = ManagerFields /\ e.pending = er[m].pending /\ e.virtual = er[m].virtual
          /\ e.mounted = Updated(er[m].mounted, services) /\ e.fed = er[m].fed
          /\ e.loaders = er[m].loaders /\ e.reg = er[m].reg
      BY <1>1 DEF ManagerInv, ManagerFields
    <3>2. \A s \in DOMAIN e.mounted : s \in Services /\ e.mounted[s] \in Services
      <4>1. \A s \in DOMAIN er[m].mounted : s \in Services /\ er[m].mounted[s] \in Services
        BY <1>1 DEF ManagerInv
      <4>. HIDE DEF services, e
      <4>2. /\ DOMAIN e.mounted = DOMAIN er[m].mounted \cup DOMAIN services
            /\ \A x \in DOMAIN services : e.mounted[x] = services[x]
            /\ \A x \in DOMAIN er[m].mounted \ DOMAIN services : e.mounted[x] = er[m].mounted[x]
        BY <3>1 DEF Updated
      <4>. QED BY <1>6, <4>1, <4>2
    <3>. QED BY <1>1, <1>3, <1>7, <3>1, <3>2 DEF ManagerInv, Running
  <2>4. q \in Seq(QNames)
    <3>1. targets \subseteq QNames
      BY <1>3, <1>5, SeqRange
    <3>2. Cardinality(targets) \in Nat
      <4> DEFINE f == [i \in DOMAIN er[m].pending |-> QN(er[m].pending[i])]
      <4>1. IsFiniteSet(DOMAIN f)
        <5>1. DOMAIN er[m].pending = 1 .. Len(er[m].pending) /\ Len(er[m].pending) \in Nat
          BY <1>3
        <5>. QED BY <5>1, FS_Interval
      <4>2. targets = Range(f)
        BY DEF Range
      <4>. HIDE DEF f, targets
      <4>3. IsFiniteSet(targets)
        BY <4>1, <4>2, RangeFinite
      <4>. QED BY <4>3, FS_CardinalityType
    <3>3. q \in [1 .. Cardinality(targets) -> targets]
      BY DEF Orders
    <3>. HIDE DEF targets
    <3>. QED BY <3>1, <3>2, <3>3
  <2>5. {QN(d) : d \in Range(fields)} \subseteq QNames
    BY <1>2, <1>5, SeqRange
  <2>6. WorkInv(world, "fetch", t, e, k)
    <3>1. /\ DOMAIN k = WorkFields /\ k.queue = q /\ k.visited = {} /\ k.fragments = << >>
          /\ k.endpoints = services /\ k.held = << >> /\ k.asking = {} /\ k.dtos = << >>
          /\ k.targets = {QN(d) : d \in Range(fields)}
      BY DEF NoWork, WorkFields
    <3>2. DOMAIN << >> = {}
      OBVIOUS
    <3>3. Closed(k.fragments, k.queue) /\ Held(world, k.held, k.endpoints)
      BY <3>1, <3>2 DEF Closed, Held
    <3>. HIDE DEF k, services, fields
    <3>. QED BY <1>6, <2>4, <2>5, <3>1, <3>2, <3>3 DEF WorkInv, Running
  <2>7. work' = [work EXCEPT ![m] = k]
    BY <2>1
  <2>. HIDE DEF e, t, k
  <2>. QED BY <1>7, <1>8, <2>2, <2>3, <2>6, <2>7, MemberStep
<1>. QED BY <1>9, <1>10


\* A step of the discovery that does not end the call.
LEMMA FetchStep ==
  ASSUME FedInv, NEW m \in Services, pc[m] \in Running, NEW k,
         UNCHANGED <<world, pc, tries, spoilt, er, subsets>>, lost' \in 0 .. MaxLost,
         work' = [work EXCEPT ![m] = k], WorkInv(world, pc[m], tries[m], er[m], k)
  PROVE  FedInv'
<1>1. /\ pc' = [pc EXCEPT ![m] = pc[m]] /\ tries' = [tries EXCEPT ![m] = tries[m]]
      /\ er' = [er EXCEPT ![m] = er[m]]
  BY DEF FedInv, PerService
<1>2. ManagerInv(world, m, pc[m], tries[m], er[m]) /\ SubsetsType(world, subsets')
      /\ spoilt' \in [Services -> BOOLEAN]
  BY DEF FedInv
<1>. QED BY <1>1, <1>2, MemberStep

\* The rest of an iteration for a type whose service answered a.
LEMMA FollowStep ==
  ASSUME FedInv, NEW m \in Services, NEW a, pc[m] = "fetch", work[m].queue # << >>,
         Follow(m, work[m].queue[Len(work[m].queue)], a),
         work[m].queue[Len(work[m].queue)][1] \in DOMAIN work[m].endpoints,
         \A t \in DOMAIN a.types : t \in Types
           /\ GoodFragment(world, a.types[t], <<work[m].queue[Len(work[m].queue)][1], t>>),
         UNCHANGED <<world, tries, er, subsets, lost>>
  PROVE  FedInv'
<1> DEFINE w == work[m]
           qn == w.queue[Len(w.queue)]
           frag == a.types[qn[2]]
           learnt == {r \in frag.rels : r.svc # None /\ r.endpoint # None
                                        /\ r.svc \notin DOMAIN w.endpoints}
           told == [s \in {r.svc : r \in learnt} |-> (CHOOSE r \in learnt : r.svc = s).endpoint]
           children == {<<OwnerOf(qn, r), r.type>> : r \in frag.rels}
           new == {c \in children : Unseen(w.visited \cup {qn}, c)}
           k == [w EXCEPT !.visited = @ \cup {qn},
                  !.held = Updated(@, Item(qn[1], a)),
                  !.fragments = Updated(@, Item(qn, frag)),
                  !.endpoints = Updated(told, @),
                  !.queue = WithoutLast(@) \o InSomeOrder(new)]
<1>1. lost' \in 0 .. MaxLost /\ WorkInv(world, "fetch", tries[m], er[m], w)
  BY DEF FedInv
<1>2. CASE qn[2] \notin DOMAIN a.types
  BY <1>1, <1>2, FailsStep DEF Follow
<1>3. CASE qn[2] \in DOMAIN a.types
  <2>1. work' = [work EXCEPT ![m] = k] /\ UNCHANGED <<pc, spoilt>>
    BY <1>3 DEF Follow, OwnerOf
  <2>2. w.queue \in Seq(QNames) /\ w.queue # << >> /\ DOMAIN w = WorkFields
    BY <1>1 DEF WorkInv
  <2>3. qn \in QNames /\ qn = <<qn[1], qn[2]>> /\ qn[1] \in Services
        /\ WithoutLast(w.queue) \in Seq(QNames)
        /\ Range(w.queue) = Range(WithoutLast(w.queue)) \cup {qn}
    <3>1. qn \in QNames
      BY <2>2, PoppedRange
    <3>. QED BY <2>2, <3>1, PoppedRange DEF QNames
  <2>4. GoodFragment(world, frag, qn)
    BY <1>3, <2>3
  <2>5. frag.rels \subseteq RelDesc /\ IsFiniteSet(frag.rels)
        /\ \A r, s \in frag.rels : r.name = s.name => r = s
    BY <2>4 DEF GoodFragment
  <2>6. new \subseteq QNames /\ IsFiniteSet(new)
    <3>1. \A r \in frag.rels : <<OwnerOf(qn, r), r.type>> \in QNames
      BY <2>3, <2>5 DEF OwnerOf, RelDesc, QNames
    <3>2. IsFiniteSet(children)
      <4> DEFINE f == [r \in frag.rels |-> <<OwnerOf(qn, r), r.type>>]
      <4>1. DOMAIN f = frag.rels /\ Range(f) = children
        BY DEF Range
      <4>. HIDE DEF f, children, frag
      <4>. QED BY <2>5, <4>1, RangeFinite
    <3>3. new \in SUBSET children
      OBVIOUS
    <3>4. children \subseteq QNames
      BY <3>1
    <3>. HIDE DEF new, children
    <3>. QED BY <3>2, <3>3, <3>4, FS_Subset
  <2>7. InSomeOrder(new) \in Seq(new) /\ Range(InSomeOrder(new)) = new
    <3>. HIDE DEF new
    <3>. QED BY <2>6, OrdersList
  <2>8. /\ WithoutLast(w.queue) \o InSomeOrder(new) \in Seq(QNames)
        /\ Range(WithoutLast(w.queue) \o InSomeOrder(new)) = Range(WithoutLast(w.queue)) \cup new
    <3>. HIDE DEF new, w
    <3>1. InSomeOrder(new) \in Seq(QNames)
      BY <2>6, <2>7
    <3>. QED BY <2>2, <2>7, <3>1, PoppedRange
  <2>9. /\ DOMAIN k = WorkFields
        /\ k.visited = w.visited \cup {qn}
        /\ k.held = Updated(w.held, Item(qn[1], a))
        /\ k.fragments = Updated(w.fragments, Item(qn, frag))
        /\ k.endpoints = Updated(told, w.endpoints)
        /\ k.queue = WithoutLast(w.queue) \o InSomeOrder(new)
        /\ k.targets = w.targets /\ k.asking = w.asking /\ k.dtos = w.dtos
    BY <2>2 DEF WorkFields
  <2>10. /\ \A s \in DOMAIN told : s \in Services /\ told[s] \in Services
    <3>1. \A r \in learnt : r.svc \in Services /\ r.endpoint \in Services
      BY <2>5 DEF RelDesc
    <3>2. DOMAIN told = {r.svc : r \in learnt}
      OBVIOUS
    <3>3. ASSUME NEW s \in DOMAIN told
          PROVE  s \in Services /\ told[s] \in Services
      <4>1. \E r \in learnt : r.svc = s
        BY <3>2, <3>3
      <4>2. (CHOOSE r \in learnt : r.svc = s) \in learnt
        BY <4>1
      <4>. QED BY <3>1, <4>1, <4>2
    <3>. QED BY <3>3
  <2>11. /\ DOMAIN k.endpoints = DOMAIN told \cup DOMAIN w.endpoints
         /\ \A s \in DOMAIN k.endpoints : s \in Services /\ k.endpoints[s] \in Services
    <3>1. \A s \in DOMAIN w.endpoints : s \in Services /\ w.endpoints[s] \in Services
      BY <1>1 DEF WorkInv
    <3>. HIDE DEF told, k, w
    <3>. QED BY <2>9, <2>10, <3>1 DEF Updated
  <2>12. /\ DOMAIN k.fragments = DOMAIN w.fragments \cup {qn}
         /\ k.fragments[qn] = frag
         /\ \A x \in DOMAIN w.fragments \ {qn} : k.fragments[x] = w.fragments[x]
    <3>. HIDE DEF k, w, qn, frag
    <3>. QED BY <2>9 DEF Updated, Item
  <2>13. /\ DOMAIN k.held = DOMAIN w.held \cup {qn[1]}
         /\ k.held[qn[1]] = a
         /\ \A x \in DOMAIN w.held \ {qn[1]} : k.held[x] = w.held[x]
    <3>. HIDE DEF k, w, qn, frag
    <3>. QED BY <2>9 DEF Updated, Item
  <2>14. Held(world, k.held, k.endpoints)
    <3>1. Held(world, w.held, w.endpoints)
      BY <1>1 DEF WorkInv
    <3>2. qn[1] \in DOMAIN w.endpoints
      OBVIOUS
    <3>3. \A t \in DOMAIN a.types : t \in Types /\ GoodFragment(world, a.types[t], <<qn[1], t>>)
      OBVIOUS
    <3>. HIDE DEF k, w, qn, frag
    <3>. QED BY <2>11, <2>13, <3>1, <3>2, <3>3 DEF Held
  <2>15. \A x \in DOMAIN k.fragments :
           x \in QNames /\ x[1] \in DOMAIN k.endpoints /\ GoodFragment(world, k.fragments[x], x)
    <3>1. \A x \in DOMAIN w.fragments :
            x \in QNames /\ x[1] \in DOMAIN w.endpoints /\ GoodFragment(world, w.fragments[x], x)
      BY <1>1 DEF WorkInv
    <3>2. qn[1] \in DOMAIN w.endpoints
      OBVIOUS
    <3>. HIDE DEF k, w, qn, frag
    <3>. QED BY <2>3, <2>4, <2>11, <2>12, <3>1, <3>2
  <2>16. Closed(k.fragments, k.queue)
    <3>1. Closed(w.fragments, w.queue) /\ w.visited = DOMAIN w.fragments
      BY <1>1 DEF WorkInv
    <3>2. Range(k.queue) = Range(WithoutLast(w.queue)) \cup new
      BY <2>8, <2>9
    <3>3. \A r \in frag.rels :
            <<OwnerOf(qn, r), r.type>> \in DOMAIN w.fragments \cup {qn} \cup new
      BY <3>1 DEF Unseen
    <3>. HIDE DEF k, w, qn, frag, new
    <3>4. ASSUME NEW x \in DOMAIN k.fragments, NEW r \in k.fragments[x].rels
          PROVE  <<OwnerOf(x, r), r.type>> \in DOMAIN k.fragments \cup Range(k.queue)
      <4>1. CASE x = qn
        BY <2>12, <3>2, <3>3, <3>4, <4>1
      <4>2. CASE x # qn
        <5>1. x \in DOMAIN w.fragments /\ r \in w.fragments[x].rels
          BY <2>12, <3>4, <4>2
        <5>2. <<OwnerOf(x, r), r.type>> \in DOMAIN w.fragments \cup Range(w.queue)
          BY <3>1, <5>1 DEF Closed
        <5>. QED BY <2>3, <2>12, <3>2, <5>2
      <4>. QED BY <4>1, <4>2
    <3>. QED BY <3>4 DEF Closed
  <2>17. WorkInv(world, "fetch", tries[m], er[m], k)
    <3>1. /\ w.targets \subseteq QNames /\ w.asking \subseteq DOMAIN w.endpoints
          /\ \A x \in DOMAIN w.dtos : x \in QNames /\ x[1] \in DOMAIN w.endpoints /\ Told(world, x)
          /\ w.visited = DOMAIN w.fragments
      BY <1>1 DEF WorkInv
    <3>2. k.queue \in Seq(QNames)
      BY <2>8, <2>9
    <3>3. k.visited = DOMAIN k.fragments
      BY <2>9, <2>12, <3>1
    <3>. HIDE DEF k, w, qn, frag, new, told
    <3>. QED BY <2>9, <2>11, <2>14, <2>15, <2>16, <3>1, <3>2, <3>3 DEF WorkInv, Running
  <2>. HIDE DEF k
  <2>. QED BY <1>1, <2>1, <2>17, FetchStep DEF Running
<1>. QED BY <1>2, <1>3


\* What a service answers describes its own relationships.
LEMMA AnswerGood ==
  ASSUME FedInv, NEW s \in Services, world.advertised[s] \in Services
  PROVE  \A t \in DOMAIN Answer(s).types :
           t \in Types /\ GoodFragment(world, Answer(s).types[t], <<world.advertised[s], t>>)
<1> DEFINE reg == er[s].reg
           named(t) == {c \in DOMAIN reg : c.type = t}
           class(t) == IF Local(s, t) \in named(t) THEN Local(s, t) ELSE CHOOSE c \in named(t) : TRUE
<1>1. world \in Worlds /\ ManagerInv(world, s, pc[s], tries[s], er[s])
  BY DEF FedInv
<1>2. RegistryType(s, reg) /\ OwnRelations(world, s, reg)
      /\ \A x \in DOMAIN er[s].mounted : x \in Services /\ er[s].mounted[x] \in Services
  BY <1>1 DEF ManagerInv
<1>3. \A c \in DOMAIN reg : c \in ClassIds /\ c.type \in Types
        /\ \A n \in DOMAIN reg[c] : n \in Rels /\ reg[c][n] \in RelInfo
  BY <1>2 DEF RegistryType, ClassIds
<1>4. /\ DOMAIN Answer(s).types = {c.type : c \in DOMAIN reg}
      /\ \A t \in DOMAIN Answer(s).types : Answer(s).types[t] = Fragment(s, class(t))
  BY DEF Answer
<1>. SUFFICES ASSUME NEW t \in DOMAIN Answer(s).types
              PROVE  t \in Types /\ GoodFragment(world, Answer(s).types[t], <<world.advertised[s], t>>)
  OBVIOUS
<1> DEFINE c == class(t)
           f == Fragment(s, c)
<1>5. t \in Types /\ c \in DOMAIN reg /\ c.type = t /\ (Local(s, t) \in DOMAIN reg => c = Local(s, t))
  <2>1. named(t) # {} /\ t \in Types
    BY <1>3, <1>4
  <2>2. Local(s, t).type = t
    BY DEF Local
  <2>3. CASE Local(s, t) \in named(t)
    BY <2>1, <2>3
  <2>4. CASE Local(s, t) \notin named(t)
    <3>1. c \in named(t)
      BY <2>1, <2>4
    <3>. QED BY <2>1, <2>2, <2>4, <3>1
  <2>. QED BY <2>3, <2>4
<1>. HIDE DEF c, class
<1>6. f.rels = {Described(s, n, reg[c][n]) : n \in DOMAIN reg[c]}
  BY DEF Fragment
<1>7. \A n \in DOMAIN reg[c] :
        LET d == Described(s, n, reg[c][n])
        IN /\ d \in RelDesc /\ d.name = n /\ d.svc = reg[c][n].svc
           /\ d.type = reg[c][n].target.type
  <2> TAKE n \in DOMAIN reg[c]
  <2> DEFINE r == reg[c][n]
             d == Described(s, n, r)
             e == IF r.svc # None /\ s \in world.expose /\ r.svc \in DOMAIN er[s].mounted
                  THEN er[s].mounted[r.svc] ELSE None
  <2>1. n \in Rels /\ r \in RelInfo
    BY <1>3, <1>5
  <2>2. /\ r.target \in ClassIds /\ r.list \in BOOLEAN /\ r.paged \in BOOLEAN
        /\ r.svc \in Services \cup {None}
    BY <2>1 DEF RelInfo
  <2>3. r.target.type \in Types
    BY <2>2 DEF ClassIds
  <2>4. Paginates(r) \in BOOLEAN
    BY DEF Paginates
  <2>5. e \in Services \cup {None}
    BY <1>2
  <2>6. d = [name |-> n, svc |-> r.svc, type |-> r.target.type, list |-> r.list,
             paged |-> Paginates(r), endpoint |-> e]
    BY DEF Described
  <2>. HIDE DEF e, r
  <2>7. d \in RelDesc /\ d.name = n /\ d.svc = r.svc /\ d.type = r.target.type
    BY <2>1, <2>2, <2>3, <2>4, <2>5, <2>6 DEF RelDesc
  <2>. QED BY <2>7 DEF r
<1>8. IsFiniteSet(f.rels)
  <2> DEFINE g == [n \in DOMAIN reg[c] |-> Described(s, n, reg[c][n])]
  <2>1. DOMAIN reg[c] \in SUBSET Rels /\ IsFiniteSet(Rels)
    BY <1>1, <1>3, <1>5, WorldFacts
  <2>2. IsFiniteSet(DOMAIN g)
    BY <2>1, FS_Subset
  <2>3. Range(g) = f.rels
    BY <1>6 DEF Range
  <2>. HIDE DEF g, f
  <2>. QED BY <2>2, <2>3, RangeFinite
<1>. HIDE DEF f
<1>9. f.rels \subseteq RelDesc /\ \A p, q \in f.rels : p.name = q.name => p = q
  BY <1>6, <1>7
<1>10. Speaks(world, f, <<world.advertised[s], t>>)
  <2>. SUFFICES ASSUME OwnNames(world), NEW l \in Built(world, world.advertised[s]), l.src = t
                PROVE  \E r \in f.rels : r.name = l.name /\ r.svc = None /\ r.type = l.target
    BY DEF Speaks
  <2>1. l \in Built(world, s)
    BY DEF OwnNames
  <2>2. t \in world.entities[s]
    BY <1>1, <2>1, WorldFacts
  <2>3. c = Local(s, t)
    BY <1>2, <1>5, <2>2 DEF OwnRelations
  <2>4. /\ l.name \in DOMAIN reg[c] /\ reg[c][l.name].svc = None
        /\ reg[c][l.name].target = Local(s, l.target)
    BY <1>2, <2>1, <2>3 DEF OwnRelations
  <2>5. Local(s, l.target).type = l.target
    BY DEF Local
  <2>6. Described(s, l.name, reg[c][l.name]) \in f.rels
    BY <1>6, <2>4
  <2>. QED BY <1>7, <2>4, <2>5, <2>6
<1>. QED BY <1>4, <1>5, <1>8, <1>9, <1>10 DEF GoodFragment, f, c

\* Fragments are held as the member answered, and followed from there.
LEMMA FetchFragmentsStep ==
  ASSUME FedInv, NEW m \in Services, FetchFragments(m)
  PROVE  FedInv'
<1> DEFINE w == work[m]
           qn == w.queue[Len(w.queue)]
           url == w.endpoints[qn[1]]
<1>1. /\ pc[m] = "fetch" /\ w.queue # << >> /\ qn[1] \in DOMAIN w.endpoints
      /\ UNCHANGED <<world, tries, er, subsets, entities, composed, lost>>
      /\ IF Answer(url).name # qn[1] THEN Fails(m) ELSE Follow(m, qn, Answer(url))
  BY DEF FetchFragments
<1>2. WorkInv(world, "fetch", tries[m], er[m], w) /\ lost' \in 0 .. MaxLost
  BY <1>1 DEF FedInv
<1>3. url \in Services /\ qn[1] \in Services
  BY <1>1, <1>2 DEF WorkInv
<1>4. Answer(url).name = world.advertised[url]
  BY DEF Answer
<1>5. CASE Answer(url).name # qn[1]
  BY <1>1, <1>2, <1>5, FailsStep
<1>6. CASE Answer(url).name = qn[1]
  <2>1. \A t \in DOMAIN Answer(url).types :
          t \in Types /\ GoodFragment(world, Answer(url).types[t], <<qn[1], t>>)
    BY <1>3, <1>4, <1>6, AnswerGood
  <2>. QED BY <1>1, <1>6, <2>1, FollowStep
<1>. QED BY <1>5, <1>6

\* What is held already is followed without a request.
LEMMA DiscoverStep ==
  ASSUME FedInv, NEW m \in Services, Discover(m)
  PROVE  FedInv'
<1> DEFINE w == work[m]
           qn == w.queue[Len(w.queue)]
           k == [w EXCEPT !.queue = WithoutLast(@)]
<1>1. /\ pc[m] = "fetch" /\ w.queue # << >>
      /\ UNCHANGED <<world, tries, er, subsets, entities, composed, lost>>
  BY DEF Discover
<1>2. WorkInv(world, "fetch", tries[m], er[m], w) /\ lost' \in 0 .. MaxLost
  BY <1>1 DEF FedInv
<1>3. CASE ~Unseen(w.visited, qn) /\ work' = [work EXCEPT ![m].queue = WithoutLast(@)]
           /\ UNCHANGED <<pc, spoilt>>
  <2>1. work' = [work EXCEPT ![m] = k]
    BY <1>3
  <2>2. /\ DOMAIN w = WorkFields /\ w.queue \in Seq(QNames) /\ Closed(w.fragments, w.queue)
        /\ w.visited = DOMAIN w.fragments
    BY <1>2 DEF WorkInv
  <2>3. /\ DOMAIN k = WorkFields /\ k.queue = WithoutLast(w.queue)
        /\ k.visited = w.visited /\ k.endpoints = w.endpoints /\ k.held = w.held
        /\ k.fragments = w.fragments /\ k.targets = w.targets /\ k.asking = w.asking
        /\ k.dtos = w.dtos
    BY <2>2 DEF WorkFields
  <2>4. k.queue \in Seq(QNames) /\ Range(w.queue) = Range(k.queue) \cup {qn}
    BY <1>1, <2>2, <2>3, PoppedRange
  <2>5. qn \in DOMAIN w.fragments
    BY <1>3, <2>2 DEF Unseen
  <2>6. Closed(k.fragments, k.queue)
    <3>. HIDE DEF k, qn, w
    <3>. QED BY <2>2, <2>3, <2>4, <2>5 DEF Closed
  <2>7. WorkInv(world, "fetch", tries[m], er[m], k)
    <3>. HIDE DEF k, qn, w
    <3>. QED BY <1>2, <2>3, <2>4, <2>6 DEF WorkInv, Running
  <2>. HIDE DEF k
  <2>. QED BY <1>1, <1>2, <1>3, <2>1, <2>7, FetchStep DEF Running
<1>4. CASE Fails(m)
  BY <1>1, <1>2, <1>4, FailsStep
<1>5. CASE qn[1] \in DOMAIN w.held /\ Follow(m, qn, w.held[qn[1]])
  <2>1. Held(world, w.held, w.endpoints)
    BY <1>2 DEF WorkInv
  <2>2. qn[1] \in DOMAIN w.endpoints
        /\ \A t \in DOMAIN w.held[qn[1]].types :
             t \in Types /\ GoodFragment(world, w.held[qn[1]].types[t], <<qn[1], t>>)
    BY <1>5, <2>1 DEF Held
  <2>. QED BY <1>1, <1>5, <2>2, FollowStep
<1>. QED BY <1>3, <1>4, <1>5 DEF Discover

\* A lost request fails the call.
LEMMA TransportRaisesStep ==
  ASSUME FedInv, NEW m \in Services, TransportRaises(m)
  PROVE  FedInv'
<1>1. lost \in 0 .. MaxLost /\ world \in Worlds
  BY DEF FedInv
<1>2. MaxLost \in Nat
  BY FederationAssumption DEF Accepted
<1>3. lost' \in 0 .. MaxLost
  BY <1>1, <1>2 DEF TransportRaises
<1>. QED BY <1>3, FailsStep DEF TransportRaises

\* The queue is empty here, so the fragments lead nowhere else.
LEMMA MaterializeTypesStep ==
  ASSUME FedInv, NEW m \in Services, MaterializeTypes(m)
  PROVE  FedInv'
<1> DEFINE w == work[m]
           k == [w EXCEPT !.asking = DOMAIN w.endpoints]
           e == [er[m] EXCEPT !.fed = [try |-> tries[m], types |-> DOMAIN w.fragments]]
<1>1. pc[m] = "fetch" /\ w.queue = << >> /\ UNCHANGED <<world, tries, subsets, entities, composed, lost>>
  BY DEF MaterializeTypes
<1>2. /\ WorkInv(world, "fetch", tries[m], er[m], w) /\ lost' \in 0 .. MaxLost
      /\ ManagerInv(world, m, "fetch", tries[m], er[m]) /\ SubsetsType(world, subsets')
      /\ world \in Worlds
  BY <1>1 DEF FedInv
<1>3. CASE Fails(m) /\ UNCHANGED er
  BY <1>1, <1>2, <1>3, FailsStep
<1>4. CASE /\ \A qn \in w.targets : qn[1] \in DOMAIN w.endpoints
           /\ pc' = [pc EXCEPT ![m] = "dtos"]
           /\ work' = [work EXCEPT ![m].asking = DOMAIN w.endpoints]
           /\ er' = [er EXCEPT ![m].fed = [try |-> tries[m], types |-> DOMAIN w.fragments]]
           /\ UNCHANGED spoilt
  <2>1. work' = [work EXCEPT ![m] = k] /\ er' = [er EXCEPT ![m] = e]
    BY <1>4
  <2>2. tries' = [tries EXCEPT ![m] = tries[m]] /\ spoilt' \in [Services -> BOOLEAN]
    BY <1>1, <1>4 DEF FedInv, PerService
  <2>3. \A qn \in DOMAIN w.fragments : qn \in QNames
    BY <1>2 DEF WorkInv
  <2>4. tries[m] \in 0 .. world.calls[m] /\ world.calls[m] \in 0 .. MaxTries /\ MaxTries \in Nat
    BY <1>2, WorldFacts DEF ManagerInv
  <2>5. /\ DOMAIN e = ManagerFields /\ e.pending = er[m].pending /\ e.virtual = er[m].virtual
        /\ e.mounted = er[m].mounted /\ e.loaders = er[m].loaders /\ e.reg = er[m].reg
        /\ e.fed = [try |-> tries[m], types |-> DOMAIN w.fragments]
    BY <1>2 DEF ManagerInv, ManagerFields
  <2>6. /\ DOMAIN k = WorkFields /\ k.queue = w.queue /\ k.visited = w.visited
        /\ k.endpoints = w.endpoints /\ k.held = w.held /\ k.fragments = w.fragments
        /\ k.targets = w.targets /\ k.dtos = w.dtos /\ k.asking = DOMAIN w.endpoints
    BY <1>2 DEF WorkInv, WorkFields
  <2>. HIDE DEF k, e, w
  <2>7. DOMAIN e.fed = {"try", "types"} /\ e.fed.try \in 0 .. tries[m] /\ e.fed.types \subseteq QNames
    BY <2>3, <2>4, <2>5
  <2>8. ManagerInv(world, m, "dtos", tries[m], e)
    BY <1>2, <2>5, <2>7 DEF ManagerInv, Running
  <2>9. WorkInv(world, "dtos", tries[m], e, k)
    BY <1>1, <1>2, <1>4, <2>5, <2>6 DEF WorkInv, Running
  <2>. QED BY <1>1, <1>2, <1>4, <2>1, <2>2, <2>8, <2>9, MemberStep
<1>. QED BY <1>3, <1>4 DEF MaterializeTypes

\* The DTOs a member tells of are those of a mounted service.
LEMMA AskDtosStep ==
  ASSUME FedInv, NEW m \in Services, NEW s \in work[m].asking, AskDtos(m, s)
  PROVE  FedInv'
<1> DEFINE w == work[m]
           url == w.endpoints[s]
           answer == DtoAnswer(s, url)
<1>1. pc[m] = "dtos" /\ UNCHANGED <<world, tries, er, subsets, entities, composed>>
  BY DEF AskDtos
<1>2. WorkInv(world, "dtos", tries[m], er[m], w) /\ world \in Worlds /\ lost \in 0 .. MaxLost
  BY <1>1 DEF FedInv
<1>3. MaxLost \in Nat
  BY FederationAssumption DEF Accepted
<1>4. lost' \in 0 .. MaxLost
  BY <1>2, <1>3 DEF AskDtos
<1>5. /\ DOMAIN w = WorkFields /\ s \in DOMAIN w.endpoints /\ s \in Services /\ url \in Services
      /\ w.asking \subseteq DOMAIN w.endpoints
      /\ \A qn \in DOMAIN w.dtos : qn \in QNames /\ qn[1] \in DOMAIN w.endpoints /\ Told(world, qn)
  BY <1>2 DEF WorkInv
<1>6. \A qn \in DOMAIN answer : qn \in QNames /\ qn[1] = s /\ Told(world, qn)
  <2>1. \A d \in world.public[url] : d.name \in Types
    BY <1>2, <1>5, WorldFacts
  <2>. QED BY <1>5, <2>1 DEF DtoAnswer, QNames, Told
<1>7. CASE Fails(m)
  BY <1>1, <1>4, <1>7, FailsStep
<1>8. ASSUME NEW d, work' = [work EXCEPT ![m].asking = @ \ {s}, ![m].dtos = d], UNCHANGED <<pc, spoilt>>,
             \A qn \in DOMAIN d : qn \in QNames /\ qn[1] \in DOMAIN w.endpoints /\ Told(world, qn)
      PROVE  FedInv'
  <2> DEFINE k == [w EXCEPT !.asking = @ \ {s}, !.dtos = d]
  <2>1. work' = [work EXCEPT ![m] = k]
    BY <1>8
  <2>2. /\ DOMAIN k = WorkFields /\ k.queue = w.queue /\ k.visited = w.visited
        /\ k.endpoints = w.endpoints /\ k.held = w.held /\ k.fragments = w.fragments
        /\ k.targets = w.targets /\ k.dtos = d /\ k.asking = w.asking \ {s}
    BY <1>5 DEF WorkFields
  <2>. HIDE DEF k, w
  <2>3. WorkInv(world, "dtos", tries[m], er[m], k)
    BY <1>2, <1>5, <1>8, <2>2 DEF WorkInv, Running
  <2>. QED BY <1>1, <1>4, <1>8, <2>1, <2>3, FetchStep DEF Running
<1>9. CASE work' = [work EXCEPT ![m].asking = @ \ {s}, ![m].dtos = Updated(@, answer)]
           /\ UNCHANGED <<pc, spoilt>>
  <2> DEFINE d == Updated(w.dtos, answer)
  <2>1. work' = [work EXCEPT ![m].asking = @ \ {s}, ![m].dtos = d]
    BY <1>9
  <2>2. DOMAIN d = DOMAIN w.dtos \cup DOMAIN answer
    BY DEF Updated
  <2>. HIDE DEF answer, d
  <2>3. \A qn \in DOMAIN d : qn \in QNames /\ qn[1] \in DOMAIN w.endpoints /\ Told(world, qn)
    BY <1>5, <1>6, <2>2
  <2>. QED BY <1>8, <1>9, <2>1, <2>3
<1>10. CASE work' = [work EXCEPT ![m].asking = @ \ {s}] /\ UNCHANGED <<pc, spoilt>>
  <2> DEFINE k == [w EXCEPT !.asking = @ \ {s}]
  <2>1. work' = [work EXCEPT ![m] = k]
    BY <1>10
  <2>2. /\ DOMAIN k = WorkFields /\ k.queue = w.queue /\ k.visited = w.visited
        /\ k.endpoints = w.endpoints /\ k.held = w.held /\ k.fragments = w.fragments
        /\ k.targets = w.targets /\ k.dtos = w.dtos /\ k.asking = w.asking \ {s}
    BY <1>5 DEF WorkFields
  <2>. HIDE DEF k, w
  <2>3. WorkInv(world, "dtos", tries[m], er[m], k)
    BY <1>2, <1>5, <2>2 DEF WorkInv, Running
  <2>. QED BY <1>1, <1>4, <1>10, <2>1, <2>3, FetchStep DEF Running
<1>. QED BY <1>7, <1>9, <1>10 DEF AskDtos


\* A step of a manager between its calls.
LEMMA RegistryStep ==
  ASSUME FedInv, NEW m \in Services, NEW e,
         UNCHANGED <<world, pc, tries, work, subsets, lost>>,
         er' = [er EXCEPT ![m] = e], spoilt' \in [Services -> BOOLEAN],
         e.fed = er[m].fed, ManagerInv(world, m, pc[m], tries[m], e)
  PROVE  FedInv'
<1>1. /\ pc' = [pc EXCEPT ![m] = pc[m]] /\ tries' = [tries EXCEPT ![m] = tries[m]]
      /\ work' = [work EXCEPT ![m] = work[m]]
  BY DEF FedInv, PerService
<1>2. WorkInv(world, pc[m], tries[m], er[m], work[m]) /\ SubsetsType(world, subsets')
      /\ lost' \in 0 .. MaxLost
  BY DEF FedInv
<1>3. WorkInv(world, pc[m], tries[m], e, work[m])
  BY <1>2 DEF WorkInv
<1>. QED BY <1>1, <1>2, <1>3, MemberStep

\* A resolver freezes the manager and nothing else.
LEMMA CreateResolverStep ==
  ASSUME FedInv, NEW m \in Services, CreateResolver(m)
  PROVE  FedInv'
<1> DEFINE e == [er[m] EXCEPT !.frozen = TRUE]
<1>1. ManagerInv(world, m, pc[m], tries[m], er[m]) /\ spoilt' \in [Services -> BOOLEAN]
  BY DEF FedInv, CreateResolver
<1>2. /\ DOMAIN e = ManagerFields /\ e.pending = er[m].pending /\ e.virtual = er[m].virtual
      /\ e.mounted = er[m].mounted /\ e.loaders = er[m].loaders /\ e.reg = er[m].reg
      /\ e.fed = er[m].fed
  BY <1>1 DEF ManagerInv, ManagerFields
<1>3. er' = [er EXCEPT ![m] = e] /\ UNCHANGED <<world, pc, tries, work, subsets, lost>>
  BY DEF CreateResolver
<1>. HIDE DEF e
<1>4. ManagerInv(world, m, pc[m], tries[m], e)
  BY <1>1, <1>2 DEF ManagerInv
<1>. QED BY <1>1, <1>2, <1>3, <1>4, RegistryStep

\* The custom relationships of a class registered by add_virtual_entities.
LEMMA CustomRelsType ==
  ASSUME NEW w \in Worlds, NEW m \in Services, NEW u \in Types
  PROVE  \A n \in DOMAIN CustomRels(m, w.own[m][u]) :
           /\ n \in Rels /\ CustomRels(m, w.own[m][u])[n] \in RelInfo
           /\ CustomRels(m, w.own[m][u])[n].kind = "custom"
<1> DEFINE ds == w.own[m][u]
           custom == {d \in Range(ds) : d.svc = None}
           at(n) == CHOOSE x \in custom : x.name = n
<1>1. ds \in Seq(OwnDecl) /\ MaxTries \in Nat
  BY WorldFacts
<1>2. Range(ds) \subseteq OwnDecl
  <2>. HIDE DEF ds
  <2>. QED BY <1>1, SeqRange
<1>3. CustomRels(m, ds) =
        [n \in {d.name : d \in custom} |->
           [target |-> Local(m, at(n).type), list |-> at(n).list, paged |-> FALSE,
            kind |-> "custom", svc |-> None]]
  BY DEF CustomRels
<1>. HIDE DEF ds
<1>4. \A n \in {d.name : d \in custom} : at(n) \in custom /\ at(n).name = n
  OBVIOUS
<1>. HIDE DEF at
<1>5. \A n \in {d.name : d \in custom} :
        n \in Rels /\ at(n).list \in BOOLEAN /\ at(n).type \in Types
  BY <1>2, <1>4 DEF OwnDecl
<1>6. \A t \in Types : Local(m, t) \in ClassIds
  BY <1>1 DEF Local, ClassIds
<1>. HIDE DEF custom
<1>7. \A n \in {d.name : d \in custom} :
        /\ CustomRels(m, ds)[n] \in RelInfo
        /\ CustomRels(m, ds)[n].kind = "custom"
  BY <1>3, <1>5, <1>6 DEF RelInfo
<1>. QED BY <1>3, <1>5, <1>7 DEF ds

\* What one class queues is of that class.
LEMMA QueuedType ==
  ASSUME NEW u, NEW ds \in Seq(OwnDecl), \A j \in DOMAIN ds : ds[j].src = u,
         NEW K, K \subseteq DOMAIN ds, \A k \in K : ds[k].svc # None
  PROVE  /\ Pick(ds, K) \in Seq(RemoteDecl)
         /\ \A d \in Range(Pick(ds, K)) : d.src = u
<1> DEFINE p == Pick(ds, K)
<1>1. ds \in Seq(OwnDecl) /\ \A j \in DOMAIN ds : ds[j].src = u
  OBVIOUS
<1>2. K \in SUBSET DOMAIN ds /\ \A k \in K : ds[k].svc # None
  OBVIOUS
<1>3. /\ p \in Seq(OwnDecl) /\ DOMAIN p = 1 .. Len(p) /\ Len(p) \in Nat
      /\ \A k \in DOMAIN p : Nth(K, k) \in K /\ p[k] = ds[Nth(K, k)]
  BY <1>1, <1>2, PickIsSubsequence
<1>. HIDE DEF p
<1>4. \A k \in DOMAIN p : p[k] \in OwnDecl /\ p[k].svc # None /\ p[k].src = u
  BY <1>1, <1>2, <1>3
<1>5. \A d \in OwnDecl : d.svc # None => d \in RemoteDecl
  BY DEF OwnDecl, RemoteDecl
<1>6. \A k \in 1 .. Len(p) : p[k] \in RemoteDecl
  BY <1>3, <1>4, <1>5
<1>7. p \in Seq(RemoteDecl)
  BY <1>3, <1>6
<1>8. \A d \in Range(p) : d.src = u
  BY <1>4 DEF Range
<1>. QED BY <1>7, <1>8 DEF p

\* The entities before the first refused are new to the registry, and what
\* they queue is of classes that were not in it.
LEMMA AddVirtualEntitiesStep ==
  ASSUME FedInv, NEW m \in Services, AddVirtualEntities(m)
  PROVE  FedInv'
<1> DEFINE vs == er[m].virtual
           old == er[m].reg
           own(i) == world.own[m][vs[i]]
           mapped == {l.target : l \in {k \in world.local[m] : ~k.custom}}
           refused == {i \in DOMAIN vs : \/ vs[i] \in mapped \/ Local(m, vs[i]) \in DOMAIN old
                                        \/ \E j \in 1 .. i - 1 : vs[j] = vs[i]}
           bad == refused \cup {i \in DOMAIN vs : Repeats(own(i)) # {}}
           met == {i \in DOMAIN vs \ refused : \A j \in bad : i <= j}
           at(i) == {k \in Until(Repeats(own(i)), DOMAIN own(i)) : own(i)[k].svc # None}
           remote(i) == IF i \in met THEN Pick(own(i), at(i)) ELSE << >>
           ss == [i \in DOMAIN vs |-> remote(i)]
           q == Concat(ss, Len(vs))
           added == {Local(m, vs[i]) : i \in met \ bad}
           new == [c \in added |-> CustomRels(m, world.own[m][c.type])]
           reg == Updated(old, new)
           e == [er[m] EXCEPT !.virtual = << >>, !.pending = @ \o q, !.reg = reg,
                              !.version = IF bad = {} THEN Bumped(@) ELSE @]
<1>1. /\ ManagerInv(world, m, pc[m], tries[m], er[m]) /\ world \in Worlds
      /\ spoilt \in [Services -> BOOLEAN]
  BY DEF FedInv
<1>2. er' = [er EXCEPT ![m] = e] /\ UNCHANGED <<world, pc, tries, work, subsets, lost>>
      /\ spoilt' = [spoilt EXCEPT ![m] = @ \/ bad # {}]
  <2>1. er' = [er EXCEPT ![m].virtual = << >>, ![m].pending = @ \o q, ![m].reg = Updated(@, new),
                         ![m].version = IF bad = {} THEN Bumped(@) ELSE @]
        /\ UNCHANGED <<world, pc, tries, work, subsets, lost>>
        /\ spoilt' = [spoilt EXCEPT ![m] = @ \/ bad # {}]
    BY DEF AddVirtualEntities
  <2>. HIDE DEF bad, new, q
  <2>. QED BY <2>1
<1>3. spoilt' \in [Services -> BOOLEAN]
  <2>. HIDE DEF bad
  <2>. QED BY <1>1, <1>2
<1>4. /\ vs \in Seq(Types) /\ DOMAIN vs = 1 .. Len(vs) /\ Len(vs) \in Nat
      /\ RegistryType(m, old) /\ OwnRelations(world, m, old)
      /\ TargetsKnown(m, old, er[m].pending) /\ ToWire(world, m, er[m].pending)
      /\ (pc[m] = "ready" => TargetsKnown(m, old, << >>))
  BY <1>1 DEF ManagerInv
\* A class met is new, and no entity.
<1>5. \A i \in met : /\ i \in DOMAIN vs /\ vs[i] \in Types /\ Local(m, vs[i]) \notin DOMAIN old
                     /\ vs[i] \in Range(world.virtual[m]) /\ vs[i] \notin world.entities[m]
  <2>. SUFFICES ASSUME NEW i \in met
                PROVE  /\ i \in DOMAIN vs /\ vs[i] \in Types /\ Local(m, vs[i]) \notin DOMAIN old
                       /\ vs[i] \in Range(world.virtual[m]) /\ vs[i] \notin world.entities[m]
    OBVIOUS
  <2>1. i \in DOMAIN vs /\ Local(m, vs[i]) \notin DOMAIN old
    OBVIOUS
  <2>. HIDE DEF met, vs
  <2>2. vs[i] \in Types /\ vs[i] \in Range(vs)
    BY <1>4, <2>1 DEF Range
  <2>3. vs \in {world.virtual[m], << >>} /\ Range(<< >>) = {}
    BY <1>1 DEF ManagerInv, vs, Range
  <2>4. vs[i] \notin world.entities[m]
    BY <1>4, <2>1 DEF OwnRelations
  <2>. QED BY <2>1, <2>2, <2>3, <2>4
<1>6. /\ added \subseteq {Local(m, vs[i]) : i \in met}
      /\ \A c \in added : /\ c \notin DOMAIN old /\ c = Local(m, c.type) /\ c.type \in Types
                          /\ c.type \in Range(world.virtual[m]) /\ c.type \notin world.entities[m]
  <2>1. \A t : Local(m, t).type = t
    BY DEF Local
  <2>. HIDE DEF met, bad, vs
  <2>. QED BY <1>5, <2>1
<1>7. /\ \A i \in 1 .. Len(vs) : ss[i] \in Seq(RemoteDecl)
      /\ \A i \in 1 .. Len(vs) : \A d \in Range(ss[i]) :
           d.src \in Range(world.virtual[m]) /\ d.src \notin world.entities[m]
  <2> SUFFICES ASSUME NEW i \in 1 .. Len(vs)
               PROVE  /\ ss[i] \in Seq(RemoteDecl)
                      /\ \A d \in Range(ss[i]) :
                           d.src \in Range(world.virtual[m]) /\ d.src \notin world.entities[m]
    OBVIOUS
  <2>1. ss[i] = remote(i)
    BY <1>4
  <2>2. CASE i \notin met
    <3>1. remote(i) = << >>
      BY <2>2
    <3>2. << >> \in Seq(RemoteDecl) /\ Range(<< >>) = {}
      BY DEF Range
    <3>. HIDE DEF ss, remote
    <3>. QED BY <2>1, <3>1, <3>2
  <2>3. CASE i \in met
    <3>1. at(i) \subseteq DOMAIN own(i) /\ \A k \in at(i) : own(i)[k].svc # None
      BY DEF Until
    <3>2. ss[i] = Pick(own(i), at(i))
      BY <2>1, <2>3
    <3>3. vs[i] \in Types /\ vs[i] \in Range(world.virtual[m]) /\ vs[i] \notin world.entities[m]
      BY <1>5, <2>3
    <3>. HIDE DEF at, ss, met, vs
    <3>4. \A K : K \subseteq DOMAIN own(i) /\ (\A k \in K : own(i)[k].svc # None)
                => /\ Pick(own(i), K) \in Seq(RemoteDecl)
                   /\ \A d \in Range(Pick(own(i), K)) : d.src = vs[i]
      <4>1. world \in Worlds /\ vs[i] \in Types
        BY <1>1, <3>3
      <4>2. own(i) \in Seq(OwnDecl) /\ \A j \in DOMAIN own(i) : own(i)[j].src = vs[i]
        BY <4>1, WorldFacts
      <4>. HIDE DEF own
      <4>. QED BY <4>2, QueuedType
    <3>5. /\ Pick(own(i), at(i)) \in Seq(RemoteDecl)
          /\ \A d \in Range(Pick(own(i), at(i))) : d.src = vs[i]
      <4>. HIDE DEF own
      <4>. QED BY <3>1, <3>4
    <3>. HIDE DEF own
    <3>. QED BY <3>2, <3>3, <3>5
  <2>. QED BY <2>2, <2>3
<1>8. q \in Seq(RemoteDecl) /\ \A d \in Range(q) : d.src \in Range(world.virtual[m])
                                                  /\ d.src \notin world.entities[m]
  <2>. HIDE DEF ss, vs
  <2>1. q \in Seq(RemoteDecl)
    BY <1>4, <1>7, ConcatType
  <2>2. Range(q) = UNION {Range(ss[i]) : i \in 1 .. Len(vs)}
    BY <1>4, <1>7, ConcatMembers
  <2>. HIDE DEF q
  <2>. QED BY <1>7, <2>1, <2>2
<1>9. \A c \in added : DOMAIN new[c] \subseteq Rels
        /\ \A n \in DOMAIN new[c] : new[c][n] \in RelInfo /\ new[c][n].kind = "custom"
  <2>. HIDE DEF added
  <2>1. \A c \in added : new[c] = CustomRels(m, world.own[m][c.type])
    OBVIOUS
  <2>. HIDE DEF new
  <2>2. \A c \in added : c.type \in Types
    BY <1>6
  <2>. SUFFICES ASSUME NEW c \in added
                PROVE  DOMAIN new[c] \subseteq Rels
                       /\ \A n \in DOMAIN new[c] : new[c][n] \in RelInfo /\ new[c][n].kind = "custom"
    OBVIOUS
  <2>3. new[c] = CustomRels(m, world.own[m][c.type]) /\ c.type \in Types
    BY <2>1, <2>2
  <2>4. \A n \in DOMAIN CustomRels(m, world.own[m][c.type]) :
          /\ n \in Rels /\ CustomRels(m, world.own[m][c.type])[n] \in RelInfo
          /\ CustomRels(m, world.own[m][c.type])[n].kind = "custom"
    BY <1>1, <2>3, CustomRelsType
  <2>. QED BY <2>3, <2>4
<1>10. DOMAIN new = added
  OBVIOUS
<1>. HIDE DEF new, q, met, bad, added, ss, refused, mapped
<1>11. /\ DOMAIN e = ManagerFields /\ e.pending = er[m].pending \o q /\ e.virtual = << >>
       /\ e.mounted = er[m].mounted /\ e.loaders = er[m].loaders /\ e.reg = reg
       /\ e.fed = er[m].fed
  BY <1>1 DEF ManagerInv, ManagerFields
<1>12. /\ DOMAIN reg = DOMAIN old \cup added
       /\ \A c \in DOMAIN old : reg[c] = old[c]
       /\ \A c \in added : reg[c] = new[c]
  BY <1>6, <1>10 DEF Updated
<1>. HIDE DEF e, reg
<1>13. RegistryType(m, reg)
  <2>1. MaxTries \in Nat
    BY <1>1, WorldFacts
  <2>2. \A c \in added : c \in ClassIds /\ c.by = m /\ c.svc = m
    BY <1>6, <2>1 DEF Local, ClassIds
  <2>. QED BY <1>4, <1>9, <1>12, <2>2 DEF RegistryType
\* More pending declarations excuse no fewer targets.
<1>14. ASSUME NEW p, NEW more, TargetsKnown(m, old, p), Range(p) \subseteq Range(more)
       PROVE  TargetsKnown(m, reg, more)
  <2>1. \A c \in added : c.try = 0
    BY <1>6 DEF Local
  <2>. QED BY <1>9, <1>12, <1>14, <2>1 DEF TargetsKnown
<1>15. /\ er[m].pending \in Seq(RemoteDecl)
       /\ e.pending \in Seq(RemoteDecl) /\ Range(e.pending) = Range(er[m].pending) \cup Range(q)
  <2>1. er[m].pending \in Seq(RemoteDecl)
    BY <1>4 DEF ToWire
  <2>. QED BY <1>8, <1>11, <2>1, AppendedMembers
<1>16. ToWire(world, m, e.pending)
  <2>1. \A l \in Built(world, m) : l.src \in world.entities[m]
    BY <1>1, WorldFacts
  <2>. QED BY <1>4, <1>8, <1>15, <2>1 DEF ToWire
<1>17. OwnRelations(world, m, reg)
  <2>1. \A c \in added, l \in Built(world, m) : l.src # c.type
    <3>1. \A l \in Built(world, m) : l.src \in world.entities[m]
      BY <1>1, WorldFacts
    <3>. QED BY <1>6, <3>1
  <2>2. \A c \in added : c.svc = m
    BY <1>6 DEF Local
  <2>3. \A l \in Built(world, m) : Local(m, l.src) \in DOMAIN old
    BY <1>1, <1>4, WorldFacts DEF OwnRelations
  <2>4. \A t \in world.entities[m] : Local(m, t) \in DOMAIN reg
    BY <1>4, <1>12 DEF OwnRelations
  <2>5. \A l \in Built(world, m) :
          LET rels == reg[Local(m, l.src)]
          IN l.name \in DOMAIN rels /\ rels[l.name].svc = None
             /\ rels[l.name].target = Local(m, l.target) /\ rels[l.name].list = l.list
    BY <1>4, <1>12, <2>3 DEF OwnRelations
  <2>6. OwnNames(world) =>
          \A c \in DOMAIN reg : \A l \in Built(world, c.svc) : l.src = c.type =>
            l.name \in DOMAIN reg[c] /\ reg[c][l.name].target = [c EXCEPT !.type = l.target]
    <3>. SUFFICES ASSUME OwnNames(world), NEW c \in DOMAIN reg,
                         NEW l \in Built(world, c.svc), l.src = c.type
                  PROVE  /\ l.name \in DOMAIN reg[c]
                         /\ reg[c][l.name].target = [c EXCEPT !.type = l.target]
      OBVIOUS
    <3>1. c \in DOMAIN old
      BY <1>12, <2>1, <2>2
    <3>. QED BY <1>4, <1>12, <3>1 DEF OwnRelations
  <2>7. \A c \in DOMAIN reg : c.try = 0 => c.type \in world.entities[m] \cup Range(world.virtual[m])
    <3>1. \A c \in DOMAIN old : c.try = 0 => c.type \in world.entities[m] \cup Range(world.virtual[m])
      BY <1>4 DEF OwnRelations
    <3>. QED BY <1>6, <1>12, <3>1
  <2>. QED BY <2>4, <2>5, <2>6, <2>7 DEF OwnRelations
<1>18. ManagerInv(world, m, pc[m], tries[m], e)
  <2>1. << >> \in Seq(Types)
    OBVIOUS
  <2>2. TargetsKnown(m, reg, e.pending)
    BY <1>4, <1>14, <1>15
  <2>3. pc[m] = "ready" => TargetsKnown(m, reg, << >>)
    BY <1>4, <1>14
  <2>. QED BY <1>1, <1>11, <1>13, <1>16, <1>17, <2>1, <2>2, <2>3 DEF ManagerInv
<1>. QED BY <1>2, <1>3, <1>11, <1>18, RegistryStep

-----------------------------------------------------------------------------
(* The last step of initialize().                                          *)

StartOf(m) == [ok |-> TRUE, fed |-> er[m].fed, reg |-> er[m].reg, loaders |-> er[m].loaders,
               subsets |-> subsets]

\* One part after another, until one raises.
LEMMA FederatedParts ==
  ASSUME NEW m, NEW done \in Federated(m)
  PROVE  \E s1, s2, s3, s4, s5 :
           /\ s1 = MaterializeDtos(m, StartOf(m))
           /\ s2 = IF s1.ok THEN BindSubsets(m, s1) ELSE s1
           /\ s3 = IF s2.ok THEN ResolveFields(m, s2) ELSE s2
           /\ s4 = IF s3.ok THEN WireFields(m, s3) ELSE s3
           /\ s5 = IF s4.ok THEN WireRelationships(m, s4) ELSE s4
           /\ done = IF s5.ok THEN RegisterTypes(m, s5) ELSE s5
<1> DEFINE D0 == {StartOf(m)}
           D1 == {IF st.ok THEN MaterializeDtos(m, st) ELSE st : st \in D0}
           D2 == {IF st.ok THEN BindSubsets(m, st) ELSE st : st \in D1}
           D3 == {IF st.ok THEN ResolveFields(m, st) ELSE st : st \in D2}
           D4 == {IF st.ok THEN WireFields(m, st) ELSE st : st \in D3}
           D5 == {IF st.ok THEN WireRelationships(m, st) ELSE st : st \in D4}
           D6 == {IF st.ok THEN RegisterTypes(m, st) ELSE st : st \in D5}
<1>1. StartOf(m).ok
  BY DEF StartOf
<1>2. Federated(m) = D6
  BY DEF Federated, StartOf
<1>3. done \in D6
  BY <1>2
<1>. HIDE DEF D5
<1>4. PICK s5 \in D5 : done = IF s5.ok THEN RegisterTypes(m, s5) ELSE s5
  BY <1>3
<1>. USE DEF D5
<1>. HIDE DEF D4
<1>5. PICK s4 \in D4 : s5 = IF s4.ok THEN WireRelationships(m, s4) ELSE s4
  OBVIOUS
<1>. USE DEF D4
<1>. HIDE DEF D3
<1>6. PICK s3 \in D3 : s4 = IF s3.ok THEN WireFields(m, s3) ELSE s3
  OBVIOUS
<1>. USE DEF D3
<1>. HIDE DEF D2
<1>7. PICK s2 \in D2 : s3 = IF s2.ok THEN ResolveFields(m, s2) ELSE s2
  OBVIOUS
<1>. USE DEF D2
<1>. HIDE DEF D1
<1>8. PICK s1 \in D1 : s2 = IF s1.ok THEN BindSubsets(m, s1) ELSE s1
  OBVIOUS
<1>9. s1 = MaterializeDtos(m, StartOf(m))
  BY <1>1 DEF D1
<1>. HIDE DEF D0, D1, D2, D3, D4, D5, D6
<1>. WITNESS s1, s2, s3, s4, s5
<1>. QED BY <1>4, <1>5, <1>6, <1>7, <1>8, <1>9


\* What the parts keep of the manager they work on.
WireInv(m, st) ==
  /\ DOMAIN st = {"ok", "fed", "reg", "loaders", "subsets"} /\ st.ok \in BOOLEAN
  /\ DOMAIN st.fed = {"try", "types"} /\ st.fed.try = tries[m]
  /\ DOMAIN work[m].fragments \subseteq st.fed.types /\ st.fed.types \subseteq QNames
  /\ st.fed.types \subseteq DOMAIN work[m].fragments \cup DOMAIN work[m].dtos
  /\ DOMAIN er[m].reg \subseteq DOMAIN st.reg
  /\ \A k \in DOMAIN st.loaders : st.loaders[k] \in ClassIds
  /\ SubsetsType(world, st.subsets)
  /\ RegistryType(m, st.reg) /\ OwnRelations(world, m, st.reg)
  /\ TargetsKnown(m, st.reg, er[m].pending)

\* Where a service is when the parts begin.
Wiring(m) == FedInv /\ m \in Services /\ pc[m] = "dtos"

\* What holds of a service about to wire.
LEMMA WiringFacts ==
  ASSUME NEW m, Wiring(m)
  PROVE  /\ world \in Worlds /\ tries[m] \in 1 .. MaxTries /\ MaxTries \in Nat
         /\ er[m].fed = [try |-> tries[m], types |-> DOMAIN work[m].fragments]
         /\ ManagerInv(world, m, pc[m], tries[m], er[m])
         /\ WorkInv(world, pc[m], tries[m], er[m], work[m])
         /\ SubsetsType(world, subsets)
<1>1. /\ world \in Worlds /\ ManagerInv(world, m, pc[m], tries[m], er[m])
      /\ WorkInv(world, pc[m], tries[m], er[m], work[m]) /\ SubsetsType(world, subsets)
  BY DEF Wiring, FedInv
<1>2. m \in Services /\ pc[m] = "dtos"
  BY DEF Wiring
<1>3. world.calls[m] \in 0 .. MaxTries /\ MaxTries \in Nat
  BY <1>1, <1>2, WorldFacts
<1>4. tries[m] \in 0 .. world.calls[m] /\ tries[m] > 0
  BY <1>1, <1>2 DEF ManagerInv, Running
<1>5. er[m].fed = [try |-> tries[m], types |-> DOMAIN work[m].fragments]
  BY <1>1, <1>2 DEF WorkInv
<1>. QED BY <1>1, <1>3, <1>4, <1>5

\* The classes a call makes are its own.
LEMMA ClassFacts ==
  ASSUME NEW m, Wiring(m), NEW fed, fed.try = tries[m], NEW qn \in QNames
  PROVE  /\ Class(m, fed, qn) \in ClassIds
         /\ Class(m, fed, qn).by = m /\ Class(m, fed, qn).try # 0
         /\ Class(m, fed, qn).svc = qn[1] /\ Class(m, fed, qn).type = qn[2]
<1>1. tries[m] \in 1 .. MaxTries /\ MaxTries \in Nat /\ m \in Services
  BY WiringFacts DEF Wiring
<1>2. qn[1] \in Services /\ qn[2] \in Types
  BY DEF QNames
<1>. QED BY <1>1, <1>2 DEF Class, ClassIds

\* A field of a discovered type is annotated with a class of this attempt.
LEMMA AnnotatedType ==
  ASSUME NEW m, Wiring(m), NEW fed, fed.try = tries[m], fed.types \subseteq QNames, NEW D
  PROVE  /\ \A k \in DOMAIN Annotated(m, fed, D) : Annotated(m, fed, D)[k] \in ClassIds
         /\ DOMAIN Annotated(m, fed, D) =
              {<<d.dto, d.name>> : d \in {f \in D : QN(f) \in fed.types}}
<1> DEFINE here == {d \in D : QN(d) \in fed.types}
           at(k) == CHOOSE d \in here : <<d.dto, d.name>> = k
           keys == {<<d.dto, d.name>> : d \in here}
<1>1. Annotated(m, fed, D) = [k \in keys |-> Class(m, fed, QN(at(k)))]
  BY DEF Annotated
<1>2. \A k \in keys : at(k) \in here
  OBVIOUS
<1>3. \A d \in here : QN(d) \in QNames
  OBVIOUS
<1>4. \A qn \in QNames : Class(m, fed, qn) \in ClassIds
  BY ClassFacts
<1>. HIDE DEF here, at, keys
<1>5. \A k \in keys : Class(m, fed, QN(at(k))) \in ClassIds
  BY <1>2, <1>3, <1>4
<1>6. DOMAIN Annotated(m, fed, D) = keys
  BY <1>1
<1>7. \A k \in keys : Annotated(m, fed, D)[k] \in ClassIds
  BY <1>1, <1>5
<1>. QED BY <1>6, <1>7 DEF keys, here

\* A part that leaves the registry alone.
LEMMA PartStays ==
  ASSUME NEW m, Wiring(m), NEW st, WireInv(m, st), NEW s,
         DOMAIN s = DOMAIN st, s.ok \in BOOLEAN, s.reg = st.reg,
         DOMAIN s.fed = {"try", "types"}, s.fed.try = st.fed.try,
         st.fed.types \subseteq s.fed.types, s.fed.types \subseteq QNames,
         s.fed.types \subseteq st.fed.types \cup DOMAIN work[m].dtos,
         \A k \in DOMAIN s.loaders : s.loaders[k] \in ClassIds,
         SubsetsType(world, s.subsets)
  PROVE  WireInv(m, s)
BY DEF WireInv

\* DTO types join the federated ones.
LEMMA MaterializeDtosPart ==
  ASSUME NEW m, Wiring(m), NEW st, WireInv(m, st)
  PROVE  WireInv(m, MaterializeDtos(m, st)) /\ MaterializeDtos(m, st).subsets = st.subsets
<1> DEFINE all == st.fed.types \cup DOMAIN work[m].dtos
           s == MaterializeDtos(m, st)
<1>1. DOMAIN work[m].dtos \subseteq QNames
  BY WiringFacts DEF WorkInv
<1>2. /\ DOMAIN st = {"ok", "fed", "reg", "loaders", "subsets"} /\ DOMAIN st.fed = {"try", "types"}
      /\ st.fed.types \subseteq QNames /\ SubsetsType(world, st.subsets)
      /\ \A k \in DOMAIN st.loaders : st.loaders[k] \in ClassIds
      /\ st.ok \in BOOLEAN
  BY DEF WireInv
<1> DEFINE a == [st EXCEPT !.fed.types = all]
<1>3. s \in {Raised(st), Raised(a), a}
  BY DEF MaterializeDtos
<1>4. /\ DOMAIN a = DOMAIN st /\ a.ok = st.ok /\ a.reg = st.reg /\ a.loaders = st.loaders
      /\ a.subsets = st.subsets /\ DOMAIN a.fed = {"try", "types"} /\ a.fed.try = st.fed.try
      /\ a.fed.types = all
  BY <1>2
<1>. HIDE DEF a, s
<1>5. \A x \in {st, a} :
        /\ DOMAIN Raised(x) = DOMAIN st /\ Raised(x).ok = FALSE /\ Raised(x).reg = st.reg
        /\ Raised(x).loaders = st.loaders /\ Raised(x).subsets = st.subsets /\ Raised(x).fed = x.fed
  BY <1>2, <1>4 DEF Raised
<1>6. /\ DOMAIN s = DOMAIN st /\ s.ok \in BOOLEAN /\ s.reg = st.reg /\ s.loaders = st.loaders
      /\ s.subsets = st.subsets /\ s.fed \in {st.fed, a.fed}
  BY <1>2, <1>3, <1>4, <1>5
<1>7. WireInv(m, s)
  BY <1>1, <1>2, <1>4, <1>6, PartStays
<1>. QED BY <1>6, <1>7 DEF s


\* What BindSubsets does with the pending subsets: those of `now` are bound,
\* once, to classes of this call, with all their fields.
Binds(m, st, s, now) ==
  LET ws == world.subsets
  IN /\ DOMAIN s = DOMAIN st /\ s.ok \in BOOLEAN /\ s.fed = st.fed /\ s.reg = st.reg
     /\ s.loaders = st.loaders /\ DOMAIN s.subsets = {"pending", "bound", "anno"}
     /\ now \subseteq Range(st.subsets.pending)
     /\ \A i \in now : Mounts(st.fed, ws[i].svc) /\ QN(ws[i]) \in st.fed.types
                       /\ \A d \in Range(ws[i].fields) : QN(d) \in st.fed.types
     /\ s.subsets.bound = [i \in DOMAIN ws |->
          IF i \in now THEN Append(st.subsets.bound[i], Class(m, st.fed, QN(ws[i])))
          ELSE st.subsets.bound[i]]
     /\ s.subsets.anno = Updated(st.subsets.anno,
          Annotated(m, st.fed, UNION {Range(ws[i].fields) : i \in now}))
     /\ s.subsets.pending \in Seq(DOMAIN ws)
     /\ Range(s.subsets.pending) \subseteq Range(st.subsets.pending)
     /\ Once(st.subsets.pending) =>
          /\ Once(s.subsets.pending)
          /\ s.ok => Range(s.subsets.pending) \cap now = {}

\* What BindSubsets does, in terms of the subsets it binds.
LEMMA BindSubsetsResult ==
  ASSUME NEW m, Wiring(m), NEW st, WireInv(m, st)
  PROVE  \E now : Binds(m, st, BindSubsets(m, st), now)
<1> DEFINE ws == world.subsets
           q == st.subsets.pending
           of(what) == {k \in DOMAIN q : Outcome(st.fed, ws[q[k]]) = what}
           refused == of("raises")
           now == {q[k] : k \in Until(refused, of("binds"))}
           foreign == {k \in of("waits") : ~Mounts(st.fed, ws[q[k]].svc)}
           waiting == of("waits") \ foreign
           both == Pick(q, foreign) \o Pick(q, waiting)
           fields == UNION {Range(ws[i].fields) : i \in now}
           pending == IF refused = {} THEN both ELSE q
           bound == [i \in DOMAIN st.subsets.bound |->
                       IF i \in now THEN Append(st.subsets.bound[i], Class(m, st.fed, QN(ws[i])))
                       ELSE st.subsets.bound[i]]
           anno == Updated(st.subsets.anno, Annotated(m, st.fed, fields))
           s == BindSubsets(m, st)
<1>1. /\ DOMAIN st = {"ok", "fed", "reg", "loaders", "subsets"}
      /\ DOMAIN st.subsets = {"pending", "bound", "anno"} /\ q \in Seq(DOMAIN ws)
      /\ DOMAIN st.subsets.bound = DOMAIN ws
  BY DEF WireInv, SubsetsType
<1>2. s = [st EXCEPT !.ok = refused = {}, !.subsets.pending = pending,
                     !.subsets.bound = bound, !.subsets.anno = anno]
  BY DEF BindSubsets
<1>3. /\ foreign \in SUBSET DOMAIN q /\ waiting \in SUBSET DOMAIN q
      /\ foreign \cap waiting = {} /\ foreign \cup waiting = of("waits")
      /\ (refused = {}) \in BOOLEAN /\ of("binds") \subseteq DOMAIN q
      /\ Until(refused, of("binds")) \subseteq of("binds")
  BY DEF Until
<1>4. ASSUME NEW i \in now
      PROVE  /\ Mounts(st.fed, ws[i].svc) /\ QN(ws[i]) \in st.fed.types
             /\ \A d \in Range(ws[i].fields) : QN(d) \in st.fed.types
  <2>1. PICK k \in of("binds") : i = q[k]
    BY <1>3
  <2>2. Outcome(st.fed, ws[i]) = "binds"
    BY <2>1
  <2>. HIDE DEF now, s, bound, anno, pending, of
  <2>3. /\ Mounts(st.fed, ws[i].svc) /\ QN(ws[i]) \in st.fed.types
        /\ {j \in DOMAIN ws[i].fields : QN(ws[i].fields[j]) \notin st.fed.types} = {}
    BY <2>2 DEF Outcome
  <2>. QED BY <2>3 DEF Range
<1>5. /\ both \in Seq(DOMAIN ws) /\ Range(both) = {q[k] : k \in of("waits")}
      /\ Once(q) => Once(both)
  <2>. HIDE DEF of, foreign, waiting, q
  <2>. QED BY <1>1, <1>3, TwoPicks
<1>6. now \subseteq Range(q)
  BY <1>3 DEF Range
<1>7. {q[k] : k \in of("waits")} \subseteq Range(q)
  BY DEF Range
<1>8. Once(q) => {q[k] : k \in of("waits")} \cap now = {}
  <2>1. \A k \in of("waits") : k \in DOMAIN q /\ k \notin of("binds")
    OBVIOUS
  <2>2. \A x \in now : \E k \in of("binds") : x = q[k]
    BY <1>3
  <2>. HIDE DEF of, now, q
  <2>. QED BY <1>3, <2>1, <2>2 DEF Once
<1>. HIDE DEF of, now, both, foreign, waiting, refused, anno, bound
<1>9. /\ DOMAIN s = DOMAIN st /\ s.ok = (refused = {}) /\ s.fed = st.fed /\ s.reg = st.reg
      /\ s.loaders = st.loaders /\ DOMAIN s.subsets = DOMAIN st.subsets
  BY <1>1, <1>2
<1>10. s.subsets.pending = pending /\ s.subsets.bound = bound /\ s.subsets.anno = anno
  <2>. HIDE DEF pending, s
  <2>1. s.subsets = [[[st.subsets EXCEPT !.pending = pending] EXCEPT !.bound = bound]
                      EXCEPT !.anno = anno]
    BY <1>1, <1>2
  <2>. QED BY <1>1, <2>1
<1>11. /\ pending \in Seq(DOMAIN ws) /\ Range(pending) \subseteq Range(q)
       /\ Once(q) => Once(pending) /\ (refused = {} => Range(pending) \cap now = {})
  BY <1>1, <1>5, <1>7, <1>8
<1>12. bound = [i \in DOMAIN ws |->
         IF i \in now THEN Append(st.subsets.bound[i], Class(m, st.fed, QN(ws[i])))
         ELSE st.subsets.bound[i]]
  BY <1>1 DEF bound
<1>13. anno = Updated(st.subsets.anno, Annotated(m, st.fed, UNION {Range(ws[i].fields) : i \in now}))
  BY DEF anno
<1>. HIDE DEF s, pending
<1>14. Binds(m, st, s, now)
  BY <1>1, <1>3, <1>4, <1>6, <1>9, <1>10, <1>11, <1>12, <1>13 DEF Binds
<1>. QED BY <1>14 DEF s

\* BindSubsets keeps WireInv: it touches subsets only.
LEMMA BindSubsetsPart ==
  ASSUME NEW m, Wiring(m), NEW st, WireInv(m, st)
  PROVE  WireInv(m, BindSubsets(m, st))
<1> DEFINE s == BindSubsets(m, st)
           ws == world.subsets
<1>1. PICK now : Binds(m, st, s, now)
  BY BindSubsetsResult
<1>. HIDE DEF s
<1>2. /\ DOMAIN s = DOMAIN st /\ s.ok \in BOOLEAN /\ s.fed = st.fed /\ s.reg = st.reg
      /\ s.loaders = st.loaders /\ DOMAIN s.subsets = {"pending", "bound", "anno"}
      /\ s.subsets.pending \in Seq(DOMAIN ws) /\ DOMAIN s.subsets.bound = DOMAIN ws
      /\ \A i \in now : QN(ws[i]) \in st.fed.types
      /\ \A i \in DOMAIN ws : s.subsets.bound[i] =
           IF i \in now THEN Append(st.subsets.bound[i], Class(m, st.fed, QN(ws[i])))
           ELSE st.subsets.bound[i]
  BY <1>1 DEF Binds
<1>3. /\ DOMAIN st.fed = {"try", "types"} /\ st.fed.try = tries[m] /\ st.fed.types \subseteq QNames
      /\ \A k \in DOMAIN st.loaders : st.loaders[k] \in ClassIds
      /\ \A i \in DOMAIN ws : st.subsets.bound[i] \in Seq(ClassIds)
  BY DEF WireInv, SubsetsType
<1>4. \A i \in now : Class(m, st.fed, QN(ws[i])) \in ClassIds
  BY <1>2, <1>3, ClassFacts
<1>5. \A i \in DOMAIN ws : s.subsets.bound[i] \in Seq(ClassIds)
  <2>1. \A l \in Seq(ClassIds), c \in ClassIds : Append(l, c) \in Seq(ClassIds)
    OBVIOUS
  <2>2. ASSUME NEW i \in DOMAIN ws PROVE s.subsets.bound[i] \in Seq(ClassIds)
    <3>1. CASE i \in now
      BY <1>2, <1>3, <1>4, <2>1, <3>1
    <3>2. CASE i \notin now
      BY <1>2, <1>3, <3>2
    <3>. QED BY <3>1, <3>2
  <2>. QED BY <2>2
<1>6. SubsetsType(world, s.subsets)
  BY <1>2, <1>5 DEF SubsetsType
<1>. QED BY <1>2, <1>3, <1>6, PartStays DEF s

\* ResolveFields annotates every declared field of a known type.
LEMMA ResolveFieldsPart ==
  ASSUME NEW m, Wiring(m), NEW st, WireInv(m, st)
  PROVE  LET s == ResolveFields(m, st)
         IN /\ WireInv(m, s) /\ s.ok = st.ok /\ s.fed = st.fed /\ s.loaders = st.loaders
            /\ s.subsets.pending = st.subsets.pending /\ s.subsets.bound = st.subsets.bound
            /\ s.subsets.anno = Updated(st.subsets.anno,
                 Annotated(m, st.fed, Range(FieldsOf(m, st.subsets.bound))))
<1> DEFINE s == ResolveFields(m, st)
           anno == Updated(st.subsets.anno,
                     Annotated(m, st.fed, Range(FieldsOf(m, st.subsets.bound))))
<1>1. s = [st EXCEPT !.subsets.anno = anno]
  BY DEF ResolveFields
<1>2. /\ DOMAIN st = {"ok", "fed", "reg", "loaders", "subsets"} /\ st.ok \in BOOLEAN
      /\ DOMAIN st.fed = {"try", "types"} /\ st.fed.types \subseteq QNames
      /\ \A k \in DOMAIN st.loaders : st.loaders[k] \in ClassIds
      /\ SubsetsType(world, st.subsets) /\ DOMAIN st.subsets = {"pending", "bound", "anno"}
  BY DEF WireInv, SubsetsType
<1>. HIDE DEF anno
<1>3. /\ DOMAIN s = DOMAIN st /\ s.ok = st.ok /\ s.fed = st.fed /\ s.reg = st.reg
      /\ s.loaders = st.loaders
  BY <1>1, <1>2
<1>4. /\ DOMAIN s.subsets = DOMAIN st.subsets /\ s.subsets.pending = st.subsets.pending
      /\ s.subsets.bound = st.subsets.bound /\ s.subsets.anno = anno
  BY <1>1, <1>2
<1>. HIDE DEF s
<1>5. SubsetsType(world, s.subsets)
  BY <1>2, <1>4 DEF SubsetsType
<1>6. WireInv(m, s)
  BY <1>2, <1>3, <1>5, PartStays
<1>. QED BY <1>3, <1>4, <1>6 DEF s, anno


\* WireFields, when it does not raise, gives a loader to every field of a
\* mounted service, whose type is then known.
LEMMA WireFieldsPart ==
  ASSUME NEW m, Wiring(m), NEW st, WireInv(m, st)
  PROVE  LET s == WireFields(m, st)
             here == {d \in Range(FieldsOf(m, st.subsets.bound)) :
                        d.svc \in DOMAIN work[m].endpoints}
         IN /\ WireInv(m, s) /\ s.fed = st.fed /\ s.reg = st.reg /\ s.subsets = st.subsets
            /\ s.ok => /\ s.loaders = Updated(st.loaders, Annotated(m, st.fed, here))
                       /\ \A d \in here : QN(d) \in st.fed.types
<1> DEFINE ds == FieldsOf(m, st.subsets.bound)
           dtos == work[m].dtos
           mounted == {k \in DOMAIN ds : ds[k].svc \in DOMAIN work[m].endpoints}
           bad == {k \in mounted : \/ QN(ds[k]) \notin st.fed.types \cap DOMAIN dtos
                                   \/ ~dtos[QN(ds[k])].keyed}
           wired == {ds[k] : k \in Until(bad, mounted)}
           here == {d \in Range(ds) : d.svc \in DOMAIN work[m].endpoints}
           loaders == Updated(st.loaders, Annotated(m, st.fed, wired))
           s == WireFields(m, st)
<1>1. s = [st EXCEPT !.ok = bad = {}, !.loaders = loaders]
  BY DEF WireFields
<1>2. /\ DOMAIN st = {"ok", "fed", "reg", "loaders", "subsets"} /\ st.ok \in BOOLEAN
      /\ DOMAIN st.fed = {"try", "types"} /\ st.fed.types \subseteq QNames
      /\ st.fed.try = tries[m]
      /\ \A k \in DOMAIN st.loaders : st.loaders[k] \in ClassIds
      /\ SubsetsType(world, st.subsets)
  BY DEF WireInv
<1>3. bad = {} => wired = here /\ \A d \in here : QN(d) \in st.fed.types
  <2>. HIDE DEF ds
  <2>1. here = {ds[k] : k \in mounted}
    BY DEF Range
  <2>2. bad = {} => \A k \in mounted : QN(ds[k]) \in st.fed.types
    OBVIOUS
  <2>. HIDE DEF bad, mounted, here
  <2>3. bad = {} => wired = {ds[k] : k \in mounted}
    BY DEF Until
  <2>. HIDE DEF wired
  <2>4. bad = {} => \A d \in here : QN(d) \in st.fed.types
    BY <2>1, <2>2
  <2>. QED BY <2>1, <2>3, <2>4
<1>4. \A k \in DOMAIN loaders : loaders[k] \in ClassIds
  <2>. HIDE DEF wired
  <2>1. \A k \in DOMAIN Annotated(m, st.fed, wired) : Annotated(m, st.fed, wired)[k] \in ClassIds
    BY <1>2, AnnotatedType
  <2>. QED BY <1>2, <2>1 DEF Updated
<1>5. (bad = {}) \in BOOLEAN
  OBVIOUS
<1>6. loaders = Updated(st.loaders, Annotated(m, st.fed, wired))
  OBVIOUS
<1>. HIDE DEF bad, loaders, wired
<1>7. /\ DOMAIN s = DOMAIN st /\ s.ok = (bad = {}) /\ s.fed = st.fed /\ s.reg = st.reg
      /\ s.loaders = loaders /\ s.subsets = st.subsets
  BY <1>1, <1>2
<1>. HIDE DEF s, here
<1>8. WireInv(m, s)
  BY <1>2, <1>4, <1>5, <1>7, PartStays
<1>9. s.ok => /\ s.loaders = Updated(st.loaders, Annotated(m, st.fed, here))
              /\ \A d \in here : QN(d) \in st.fed.types
  BY <1>3, <1>6, <1>7
<1>. QED BY <1>7, <1>8, <1>9 DEF s, here, ds

\* What a wired relationship leads to is among the fragments.
Mapped(m, st) ==
  \A c \in DOMAIN st.reg : \A n \in DOMAIN st.reg[c] :
    \/ st.reg[c][n].target \in DOMAIN st.reg
    \/ st.reg[c][n].kind = "custom" /\ c.try = 0
    \/ \E qn \in DOMAIN work[m].fragments : st.reg[c][n].target = Class(m, st.fed, qn)

\* WireRelationships, when it does not raise, leaves no target unregistered but
\* those RegisterTypes will register.
LEMMA WireRelationshipsPart ==
  ASSUME NEW m, Wiring(m), NEW st, WireInv(m, st)
  PROVE  LET s == WireRelationships(m, st)
         IN /\ WireInv(m, s) /\ s.fed = st.fed /\ s.loaders = st.loaders
            /\ s.subsets = st.subsets /\ (s.ok => Mapped(m, s))
<1> DEFINE ds == er[m].pending
           bad == {k \in DOMAIN ds : ~ValidRemote(m, ds[k])}
           done == {ds[k] : k \in Until(bad, DOMAIN ds)}
           of(c) == {d \in done : Local(m, d.src) = c}
           made(c) == [n \in {d.name : d \in of(c)} |->
                         Wired(m, st.fed, CHOOSE d \in of(c) : d.name = n)]
           had(c) == IF c \in DOMAIN st.reg THEN st.reg[c] ELSE << >>
           met == {Local(m, d.src) : d \in done}
           reg == [c \in DOMAIN st.reg \cup met |-> Updated(had(c), made(c))]
           s == WireRelationships(m, st)
<1>1. s = [st EXCEPT !.ok = bad = {}, !.reg = reg]
  BY DEF WireRelationships
<1>2. /\ DOMAIN st = {"ok", "fed", "reg", "loaders", "subsets"} /\ st.ok \in BOOLEAN
      /\ DOMAIN st.fed = {"try", "types"} /\ st.fed.types \subseteq QNames
      /\ st.fed.try = tries[m] /\ DOMAIN work[m].fragments \subseteq st.fed.types
      /\ DOMAIN er[m].reg \subseteq DOMAIN st.reg
      /\ RegistryType(m, st.reg) /\ OwnRelations(world, m, st.reg)
      /\ TargetsKnown(m, st.reg, ds)
  BY DEF WireInv
<1>3. /\ world \in Worlds /\ m \in Services /\ ManagerInv(world, m, pc[m], tries[m], er[m])
      /\ WorkInv(world, pc[m], tries[m], er[m], work[m])
  BY WiringFacts DEF Wiring
<1>4. ToWire(world, m, ds) /\ ds \in Seq(RemoteDecl)
  BY <1>3 DEF ManagerInv, ToWire
<1>5. /\ done \subseteq Range(ds) /\ (bad = {} => done = Range(ds))
      /\ \A d \in done : ValidRemote(m, d)
  <2>. HIDE DEF ds
  <2> DEFINE now == Until(bad, DOMAIN ds)
  <2>1. now \subseteq DOMAIN ds /\ \A k \in now : k \notin bad
    <3>1. ASSUME NEW k \in now, k \in bad PROVE FALSE
      <4>1. k < k /\ k \in Nat
        BY <1>4, <3>1 DEF Until
      <4>. QED BY <4>1
    <3>. QED BY <3>1 DEF Until
  <2>2. bad = {} => now = DOMAIN ds
    BY DEF Until
  <2>3. \A k \in now : ValidRemote(m, ds[k])
    BY <2>1
  <2>. HIDE DEF now, bad
  <2>4. done = {ds[k] : k \in now}
    BY DEF now
  <2>. QED BY <2>1, <2>2, <2>3, <2>4 DEF Range
<1>6. \A d \in Range(ds) :
        /\ d \in RemoteDecl /\ d.src \in world.entities[m] \cup Range(world.virtual[m])
        /\ \A l \in Built(world, m) : l.src = d.src => l.name # d.name
  <2>1. Range(ds) \subseteq RemoteDecl
    BY <1>4, SeqRange
  <2>. HIDE DEF ds
  <2>. QED BY <1>4, <2>1 DEF ToWire
<1>. HIDE DEF bad, ds, done
<1>7. \A d \in done : LET r == Wired(m, st.fed, d)
                      IN r \in RelInfo /\ \E qn \in DOMAIN work[m].fragments : r.target = Class(m, st.fed, qn)
  <2> SUFFICES ASSUME NEW d \in done
               PROVE  LET r == Wired(m, st.fed, d)
                      IN r \in RelInfo /\ \E qn \in DOMAIN work[m].fragments : r.target = Class(m, st.fed, qn)
    OBVIOUS
  <2>1. d \in RemoteDecl /\ QN(d) \in DOMAIN work[m].fragments
    BY <1>5, <1>6 DEF ValidRemote
  <2>2. QN(d) \in QNames
    BY <1>2, <2>1
  <2>3. Class(m, st.fed, QN(d)) \in ClassIds
    BY <1>2, <2>2, ClassFacts
  <2>4. d.list \in BOOLEAN /\ d.svc \in Services
    BY <2>1 DEF RemoteDecl
  <2> DEFINE paged == Paged(d, work[m].fragments[QN(d)])
  <2>5. paged \in BOOLEAN
    BY <2>4 DEF Paged
  <2>6. Wired(m, st.fed, d) = [target |-> Class(m, st.fed, QN(d)), list |-> d.list, paged |-> paged,
                               kind |-> IF paged THEN "paged" ELSE "plain", svc |-> d.svc]
    BY DEF Wired
  <2>. HIDE DEF paged
  <2>. QED BY <2>1, <2>3, <2>4, <2>5, <2>6 DEF RelInfo
<1>8. \A c, n : n \in DOMAIN made(c) =>
        \E d \in of(c) : d.name = n /\ made(c)[n] = Wired(m, st.fed, d)
  OBVIOUS
<1>9. /\ DOMAIN reg = DOMAIN st.reg \cup met
      /\ \A c \in DOMAIN reg : /\ DOMAIN reg[c] = DOMAIN had(c) \cup DOMAIN made(c)
                               /\ \A n \in DOMAIN reg[c] :
                                    reg[c][n] = IF n \in DOMAIN made(c) THEN made(c)[n] ELSE had(c)[n]
  <2>. HIDE DEF made, had, met
  <2>. QED BY DEF Updated
\* A class this registers is declared, and keeps nothing of before.
<1>a. /\ \A c \in DOMAIN st.reg : had(c) = st.reg[c]
      /\ \A c : c \notin DOMAIN st.reg => DOMAIN had(c) = {}
  <2>1. DOMAIN << >> = {}
    OBVIOUS
  <2>. QED BY <2>1
<1>b. \A c \in met : /\ c \in ClassIds /\ c.by = m /\ c.svc = m /\ c.try = 0
                     /\ c.type \in world.entities[m] \cup Range(world.virtual[m])
  <2>1. Range(world.virtual[m]) \subseteq Types /\ world.entities[m] \subseteq Types
    <3>1. world.virtual[m] \in Seq(Types) /\ world.entities[m] \subseteq Types
      BY <1>3, WorldFacts
    <3>. QED BY <3>1, SeqRange
  <2>2. \A d \in done : d.src \in world.entities[m] \cup Range(world.virtual[m])
    BY <1>5, <1>6
  <2>3. MaxTries \in Nat
    BY <1>3, WorldFacts
  <2>. QED BY <1>3, <2>1, <2>2, <2>3 DEF Local, ClassIds
<1>10. \A d \in done : d.name \in Rels /\ d \in Range(ds)
  BY <1>5, <1>6 DEF RemoteDecl
<1>11. \A c, d : d \in of(c) => d \in done /\ Local(m, d.src) = c /\ d.name \in DOMAIN made(c)
  OBVIOUS
<1>12. (bad = {}) \in BOOLEAN
  OBVIOUS
<1>. HIDE DEF made, of, reg, had, met
<1>13. /\ DOMAIN s = DOMAIN st /\ s.ok = (bad = {}) /\ s.fed = st.fed /\ s.reg = reg
       /\ s.loaders = st.loaders /\ s.subsets = st.subsets
  BY <1>1, <1>2
<1>14. \A c, n : n \in DOMAIN made(c) =>
         /\ n \in Rels /\ made(c)[n] \in RelInfo
         /\ \E qn \in DOMAIN work[m].fragments : made(c)[n].target = Class(m, st.fed, qn)
         /\ \E d \in done : c = Local(m, d.src) /\ d.name = n
  BY <1>7, <1>8, <1>10, <1>11
\* What is there is wired now, or was there before.
<1>c. \A c \in DOMAIN reg : \A n \in DOMAIN reg[c] :
        \/ n \in DOMAIN made(c) /\ reg[c][n] = made(c)[n]
        \/ /\ n \notin DOMAIN made(c) /\ c \in DOMAIN st.reg /\ n \in DOMAIN st.reg[c]
           /\ reg[c][n] = st.reg[c][n]
  BY <1>9, <1>a
<1>15. RegistryType(m, reg)
  <2>1. \A c \in DOMAIN reg : c \in ClassIds /\ c.by = m /\ (c.try = 0 => c.svc = m)
    BY <1>2, <1>9, <1>b DEF RegistryType
  <2>2. \A c \in DOMAIN reg : \A n \in DOMAIN reg[c] : n \in Rels /\ reg[c][n] \in RelInfo
    BY <1>2, <1>14, <1>c DEF RegistryType
  <2>. QED BY <2>1, <2>2 DEF RegistryType
<1>16. TargetsKnown(m, reg, ds)
  <2> SUFFICES ASSUME NEW c \in DOMAIN reg, NEW n \in DOMAIN reg[c]
               PROVE  \/ reg[c][n].target \in DOMAIN reg
                      \/ reg[c][n].kind = "custom" /\ c.try = 0
                      \/ \E d \in Range(ds) : c = Local(m, d.src) /\ d.name = n
    BY DEF TargetsKnown
  <2>1. CASE n \in DOMAIN made(c)
    BY <1>10, <1>14, <2>1
  <2>2. CASE n \notin DOMAIN made(c)
    BY <1>2, <1>9, <1>c, <2>2 DEF TargetsKnown
  <2>. QED BY <2>1, <2>2
\* What is wired has no name of a local relationship.
<1>17. OwnRelations(world, m, reg)
  <2>1. \A t1, t2 : Local(m, t1) = Local(m, t2) => t1 = t2
    BY DEF Local
  <2>2. \A t : Local(m, t).svc = m /\ Local(m, t).type = t
    BY DEF Local
  <2>3. \A c \in DOMAIN reg : \A l \in Built(world, c.svc) : l.src = c.type => l.name \notin DOMAIN made(c)
    <3> SUFFICES ASSUME NEW c \in DOMAIN reg, NEW l \in Built(world, c.svc), l.src = c.type,
                        l.name \in DOMAIN made(c)
                 PROVE  FALSE
      OBVIOUS
    <3>1. PICK d \in done : c = Local(m, d.src) /\ d.name = l.name
      BY <1>14
    <3>2. c.svc = m /\ l.src = d.src
      BY <2>2, <3>1
    <3>. QED BY <1>6, <1>10, <3>1, <3>2
  <2>4. OwnNames(world) =>
          \A c \in DOMAIN reg : \A l \in Built(world, c.svc) : l.src = c.type =>
            l.name \in DOMAIN reg[c] /\ reg[c][l.name].target = [c EXCEPT !.type = l.target]
    <3>. SUFFICES ASSUME OwnNames(world), NEW c \in DOMAIN reg,
                         NEW l \in Built(world, c.svc), l.src = c.type
                  PROVE  /\ l.name \in DOMAIN reg[c]
                         /\ reg[c][l.name].target = [c EXCEPT !.type = l.target]
      OBVIOUS
    <3>1. c \in DOMAIN st.reg
      <4> SUFFICES ASSUME c \in met PROVE c \in DOMAIN st.reg
        BY <1>9
      <4>1. c.svc = m /\ c = Local(m, c.type)
        BY <1>b DEF ClassIds, Local
      <4>2. c.type \in world.entities[m]
        BY <1>3, <4>1, WorldFacts
      <4>. QED BY <1>2, <4>1, <4>2 DEF OwnRelations
    <3>. QED BY <1>2, <1>9, <1>a, <2>3, <3>1 DEF OwnRelations
  <2>5. \A l \in Built(world, m) :
          LET rels == reg[Local(m, l.src)]
          IN l.name \in DOMAIN rels /\ rels[l.name].svc = None
             /\ rels[l.name].target = Local(m, l.target) /\ rels[l.name].list = l.list
    <3> SUFFICES ASSUME NEW l \in Built(world, m)
                 PROVE  LET rels == reg[Local(m, l.src)]
                        IN l.name \in DOMAIN rels /\ rels[l.name].svc = None
                           /\ rels[l.name].target = Local(m, l.target) /\ rels[l.name].list = l.list
      OBVIOUS
    <3>1. Local(m, l.src) \in DOMAIN st.reg /\ Local(m, l.src) \in DOMAIN reg
      BY <1>2, <1>3, <1>9, WorldFacts DEF OwnRelations
    <3>2. l.name \notin DOMAIN made(Local(m, l.src))
      BY <2>2, <2>3, <3>1
    <3>. QED BY <1>2, <1>9, <1>a, <3>1, <3>2 DEF OwnRelations
  <2>6. \A t \in world.entities[m] : Local(m, t) \in DOMAIN reg
    BY <1>2, <1>9 DEF OwnRelations
  <2>7. \A c \in DOMAIN reg : c.try = 0 => c.type \in world.entities[m] \cup Range(world.virtual[m])
    BY <1>2, <1>9, <1>b DEF OwnRelations
  <2>. QED BY <2>4, <2>5, <2>6, <2>7 DEF OwnRelations
\* When none raised, all that was pending is wired.
<1>18. bad = {} => Mapped(m, s)
  <2> SUFFICES ASSUME bad = {}, NEW c \in DOMAIN reg, NEW n \in DOMAIN reg[c]
               PROVE  \/ reg[c][n].target \in DOMAIN reg
                      \/ reg[c][n].kind = "custom" /\ c.try = 0
                      \/ \E qn \in DOMAIN work[m].fragments : reg[c][n].target = Class(m, st.fed, qn)
    BY <1>13 DEF Mapped
  <2>1. CASE n \in DOMAIN made(c)
    BY <1>14, <1>c, <2>1
  <2>2. CASE n \notin DOMAIN made(c)
    <3>1. c \in DOMAIN st.reg /\ n \in DOMAIN st.reg[c] /\ reg[c][n] = st.reg[c][n]
      BY <1>c, <2>2
    <3>2. ASSUME NEW d \in Range(ds), c = Local(m, d.src), d.name = n PROVE FALSE
      <4>1. d \in of(c)
        BY <1>5, <3>2 DEF of
      <4>. QED BY <1>11, <2>2, <3>2, <4>1
    <3>. QED BY <1>2, <1>9, <3>1, <3>2 DEF TargetsKnown
  <2>. QED BY <2>1, <2>2
<1>19. WireInv(m, s)
  BY <1>2, <1>9, <1>12, <1>13, <1>15, <1>16, <1>17 DEF WireInv, ds
<1>. QED BY <1>13, <1>18, <1>19 DEF s


\* The relationships of a materialized type: all those of its fragment, as
\* discovery is closed.
LEMMA CoalescedFacts ==
  ASSUME NEW m, Wiring(m), NEW st, WireInv(m, st), NEW qn \in DOMAIN work[m].fragments
  PROVE  /\ \A n \in DOMAIN Coalesced(m, st, qn) :
              /\ n \in Rels /\ Coalesced(m, st, qn)[n] \in RelInfo
              /\ \E p \in DOMAIN work[m].fragments :
                   Coalesced(m, st, qn)[n].target = Class(m, st.fed, p)
         /\ OwnNames(world) => \A l \in Built(world, qn[1]) : l.src = qn[2] =>
              /\ l.name \in DOMAIN Coalesced(m, st, qn)
              /\ Coalesced(m, st, qn)[l.name].target = Class(m, st.fed, <<qn[1], l.target>>)
<1> DEFINE rels == work[m].fragments[qn].rels
           owner(r) == OwnerOf(qn, r)
           kept == {r \in rels : <<owner(r), r.type>> \in st.fed.types}
           at(n) == CHOOSE k \in kept : k.name = n
           info(r) == [target |-> Class(m, st.fed, <<owner(r), r.type>>), list |-> r.list,
                       paged |-> r.paged, kind |-> "coalesced", svc |-> owner(r)]
           all == Coalesced(m, st, qn)
<1>1. /\ WorkInv(world, pc[m], tries[m], er[m], work[m]) /\ pc[m] = "dtos"
  BY WiringFacts DEF Wiring
<1>2. /\ qn \in QNames /\ GoodFragment(world, work[m].fragments[qn], qn)
      /\ work[m].queue = << >> /\ Closed(work[m].fragments, work[m].queue)
  BY <1>1 DEF WorkInv
<1>3. /\ DOMAIN work[m].fragments \subseteq st.fed.types /\ st.fed.types \subseteq QNames
      /\ st.fed.try = tries[m]
  BY DEF WireInv
<1>4. /\ rels \subseteq RelDesc /\ \A r, s \in rels : r.name = s.name => r = s
  BY <1>2 DEF GoodFragment
<1>5. \A r \in rels : <<owner(r), r.type>> \in DOMAIN work[m].fragments
  <2>1. Range(<< >>) = {}
    BY DEF Range
  <2>. QED BY <1>2, <2>1 DEF Closed
<1>6. kept = rels
  BY <1>3, <1>5
<1>7. all = [n \in {r.name : r \in kept} |-> info(at(n))]
  BY DEF Coalesced, OwnerOf
<1>8. \A n \in {r.name : r \in rels} : at(n) \in rels /\ at(n).name = n
  BY <1>6
<1>9. \A r \in rels : at(r.name) = r
  BY <1>4, <1>8
<1>. HIDE DEF at, kept
<1>10. \A r \in rels : info(r) \in RelInfo
  <2> SUFFICES ASSUME NEW r \in rels PROVE info(r) \in RelInfo
    OBVIOUS
  <2>1. r \in RelDesc
    BY <1>4
  <2>2. r.list \in BOOLEAN /\ r.paged \in BOOLEAN
    BY <2>1 DEF RelDesc
  <2>3. owner(r) \in Services
    BY <1>2, <2>1 DEF RelDesc, OwnerOf, QNames
  <2>4. <<owner(r), r.type>> \in QNames
    BY <1>3, <1>5
  <2>5. Class(m, st.fed, <<owner(r), r.type>>) \in ClassIds
    BY <1>3, <2>4, ClassFacts
  <2>. HIDE DEF owner
  <2>. QED BY <2>2, <2>3, <2>5 DEF RelInfo
<1>11. \A r \in rels : info(r).target = Class(m, st.fed, <<owner(r), r.type>>)
  OBVIOUS
<1>12. \A r \in rels : r.name \in Rels
  BY <1>4 DEF RelDesc
<1>13. DOMAIN all = {r.name : r \in rels} /\ \A n \in DOMAIN all : all[n] = info(at(n))
  BY <1>6, <1>7
<1>. HIDE DEF info, all
<1>14. \A n \in DOMAIN all : /\ n \in Rels /\ all[n] \in RelInfo
                             /\ \E p \in DOMAIN work[m].fragments : all[n].target = Class(m, st.fed, p)
  <2> SUFFICES ASSUME NEW n \in DOMAIN all
               PROVE  /\ n \in Rels /\ all[n] \in RelInfo
                      /\ \E p \in DOMAIN work[m].fragments : all[n].target = Class(m, st.fed, p)
    OBVIOUS
  <2>1. at(n) \in rels /\ at(n).name = n /\ all[n] = info(at(n))
    BY <1>8, <1>13
  <2>. QED BY <1>5, <1>10, <1>11, <1>12, <2>1
<1>15. ASSUME OwnNames(world), NEW l \in Built(world, qn[1]), l.src = qn[2]
       PROVE  l.name \in DOMAIN all /\ all[l.name].target = Class(m, st.fed, <<qn[1], l.target>>)
  <2>1. PICK r \in rels : r.name = l.name /\ r.svc = None /\ r.type = l.target
    BY <1>2, <1>15 DEF GoodFragment, Speaks
  <2>2. owner(r) = qn[1]
    BY <2>1 DEF OwnerOf
  <2>3. l.name \in DOMAIN all /\ all[l.name] = info(r)
    BY <1>9, <1>13, <2>1
  <2>. QED BY <1>11, <2>1, <2>2, <2>3
<1>. QED BY <1>14, <1>15 DEF all

\* A materialized type gets the relationships its service declares between its
\* own types.
LEMMA CoalescedOwn ==
  ASSUME NEW m, Wiring(m), NEW st, WireInv(m, st), OwnNames(world),
         NEW qn \in DOMAIN work[m].fragments, NEW l \in Built(world, qn[1]), l.src = qn[2]
  PROVE  /\ l.name \in DOMAIN Coalesced(m, st, qn)
         /\ Coalesced(m, st, qn)[l.name].target = Class(m, st.fed, <<qn[1], l.target>>)
<1>1. Wiring(m) /\ WireInv(m, st) /\ qn \in DOMAIN work[m].fragments
  OBVIOUS
<1>2. OwnNames(world) => \A k \in Built(world, qn[1]) : k.src = qn[2] =>
              /\ k.name \in DOMAIN Coalesced(m, st, qn)
              /\ Coalesced(m, st, qn)[k.name].target = Class(m, st.fed, <<qn[1], k.target>>)
  BY ONLY <1>1, CoalescedFacts
<1>. QED BY <1>2

\* RegisterTypes registers every target that is left.
LEMMA RegisterTypesPart ==
  ASSUME NEW m, Wiring(m), NEW st, WireInv(m, st), Mapped(m, st)
  PROVE  LET s == RegisterTypes(m, st)
         IN /\ WireInv(m, s) /\ s.fed = st.fed /\ s.loaders = st.loaders
            /\ s.subsets = st.subsets /\ s.ok = st.ok
            /\ TargetsKnown(m, s.reg, << >>)
            /\ DOMAIN s.reg = DOMAIN st.reg \cup
                 {Class(m, st.fed, qn) : qn \in DOMAIN work[m].fragments}
<1> DEFINE F == DOMAIN work[m].fragments
           made == {Class(m, st.fed, qn) : qn \in F}
           new == [c \in made |-> Coalesced(m, st, <<c.svc, c.type>>)]
           reg == Updated(new, st.reg)
           s == RegisterTypes(m, st)
<1>1. s = [st EXCEPT !.reg = reg]
  BY DEF RegisterTypes
<1>2. /\ DOMAIN st = {"ok", "fed", "reg", "loaders", "subsets"} /\ st.ok \in BOOLEAN
      /\ DOMAIN st.fed = {"try", "types"} /\ st.fed.types \subseteq QNames
      /\ st.fed.try = tries[m] /\ F \subseteq st.fed.types
      /\ RegistryType(m, st.reg) /\ OwnRelations(world, m, st.reg)
  BY DEF WireInv
<1>3. /\ world \in Worlds /\ m \in Services
  BY WiringFacts DEF Wiring
\* A new class and the fragment it is made of.
<1>4. ASSUME NEW c \in made
      PROVE  /\ <<c.svc, c.type>> \in F /\ c = Class(m, st.fed, <<c.svc, c.type>>)
             /\ c \in ClassIds /\ c.by = m /\ c.try # 0
             /\ new[c] = Coalesced(m, st, <<c.svc, c.type>>)
  <2>1. PICK qn \in F : c = Class(m, st.fed, qn)
    OBVIOUS
  <2>2. qn \in QNames
    BY <1>2
  <2>3. c \in ClassIds /\ c.by = m /\ c.try # 0 /\ c.svc = qn[1] /\ c.type = qn[2]
    BY <1>2, <2>1, <2>2, ClassFacts
  <2>4. qn = <<c.svc, c.type>>
    BY <2>2, <2>3 DEF QNames
  <2>5. new[c] = Coalesced(m, st, <<c.svc, c.type>>)
    OBVIOUS
  <2>. QED BY <2>1, <2>3, <2>4, <2>5
<1>5. \A c \in made : \A n \in DOMAIN new[c] :
        n \in Rels /\ new[c][n] \in RelInfo /\ new[c][n].target \in made
  <2> SUFFICES ASSUME NEW c \in made, NEW n \in DOMAIN new[c]
               PROVE  n \in Rels /\ new[c][n] \in RelInfo /\ new[c][n].target \in made
    OBVIOUS
  <2>1. <<c.svc, c.type>> \in F /\ new[c] = Coalesced(m, st, <<c.svc, c.type>>)
    BY <1>4
  <2>. HIDE DEF new, made
  <2>2. /\ n \in Rels /\ new[c][n] \in RelInfo
        /\ \E p \in F : new[c][n].target = Class(m, st.fed, p)
    BY <2>1, CoalescedFacts
  <2>. QED BY <2>2 DEF made
<1>6. OwnNames(world) => \A c \in made : \A l \in Built(world, c.svc) : l.src = c.type =>
        l.name \in DOMAIN new[c] /\ new[c][l.name].target = [c EXCEPT !.type = l.target]
  <2> SUFFICES ASSUME OwnNames(world), NEW c \in made, NEW l \in Built(world, c.svc), l.src = c.type
               PROVE  /\ l.name \in DOMAIN new[c]
                      /\ new[c][l.name].target = [c EXCEPT !.type = l.target]
    OBVIOUS
  <2> DEFINE qn == <<c.svc, c.type>>
  <2>1. qn \in F /\ c = Class(m, st.fed, qn) /\ new[c] = Coalesced(m, st, qn)
    BY <1>4
  <2>2. qn[1] = c.svc /\ qn[2] = c.type
    OBVIOUS
  <2>. HIDE DEF new, made, qn
  <2>3. l.name \in DOMAIN new[c] /\ new[c][l.name].target = Class(m, st.fed, <<c.svc, l.target>>)
    <3>1. l \in Built(world, qn[1]) /\ l.src = qn[2]
      BY <2>2
    <3>2. /\ l.name \in DOMAIN Coalesced(m, st, qn)
          /\ Coalesced(m, st, qn)[l.name].target = Class(m, st.fed, <<qn[1], l.target>>)
      BY <2>1, <3>1, CoalescedOwn
    <3>. QED BY <2>1, <2>2, <3>2
  <2>4. Class(m, st.fed, <<c.svc, l.target>>) = [c EXCEPT !.type = l.target]
    BY <2>1, <2>2 DEF Class
  <2>. QED BY <2>3, <2>4
<1>. HIDE DEF made
<1>7. DOMAIN new = made
  OBVIOUS
<1>. HIDE DEF new
<1>8. /\ DOMAIN reg = DOMAIN st.reg \cup made
      /\ \A c \in DOMAIN st.reg : reg[c] = st.reg[c]
      /\ \A c \in made \ DOMAIN st.reg : reg[c] = new[c]
  BY <1>7 DEF Updated
<1>. HIDE DEF reg
<1>9. /\ DOMAIN s = DOMAIN st /\ s.ok = st.ok /\ s.fed = st.fed /\ s.reg = reg
      /\ s.loaders = st.loaders /\ s.subsets = st.subsets
  BY <1>1, <1>2
<1>10. RegistryType(m, reg)
  BY <1>2, <1>4, <1>5, <1>8 DEF RegistryType
<1>11. TargetsKnown(m, reg, << >>)
  <2>1. \A c \in DOMAIN st.reg : \A n \in DOMAIN st.reg[c] :
          \/ st.reg[c][n].target \in DOMAIN st.reg \cup made
          \/ st.reg[c][n].kind = "custom" /\ c.try = 0
    BY DEF Mapped, made
  <2>. QED BY <1>5, <1>8, <2>1 DEF TargetsKnown
<1>12. OwnRelations(world, m, reg)
  <2>1. \A c \in DOMAIN reg \ DOMAIN st.reg : c \in made /\ reg[c] = new[c]
    BY <1>8
  <2>2. OwnNames(world) =>
          \A c \in DOMAIN reg : \A l \in Built(world, c.svc) : l.src = c.type =>
            l.name \in DOMAIN reg[c] /\ reg[c][l.name].target = [c EXCEPT !.type = l.target]
    <3> SUFFICES ASSUME OwnNames(world), NEW c \in DOMAIN reg, NEW l \in Built(world, c.svc),
                        l.src = c.type
                 PROVE  l.name \in DOMAIN reg[c] /\ reg[c][l.name].target = [c EXCEPT !.type = l.target]
      OBVIOUS
    <3>1. CASE c \in DOMAIN st.reg
      <4>1. /\ l.name \in DOMAIN st.reg[c]
            /\ st.reg[c][l.name].target = [c EXCEPT !.type = l.target]
        BY <1>2, <3>1 DEF OwnRelations
      <4>. QED BY <1>8, <3>1, <4>1
    <3>2. CASE c \notin DOMAIN st.reg
      <4>1. c \in made /\ reg[c] = new[c]
        BY <2>1, <3>2
      <4>. QED BY <1>6, <4>1
    <3>. QED BY <3>1, <3>2
  <2>3. \A t \in world.entities[m] : Local(m, t) \in DOMAIN reg
    BY <1>2, <1>8 DEF OwnRelations
  <2>4. \A l \in Built(world, m) : Local(m, l.src) \in DOMAIN st.reg
    BY <1>2, <1>3, WorldFacts DEF OwnRelations
  <2>5. \A l \in Built(world, m) :
          LET rels == reg[Local(m, l.src)]
          IN l.name \in DOMAIN rels /\ rels[l.name].svc = None
             /\ rels[l.name].target = Local(m, l.target) /\ rels[l.name].list = l.list
    BY <1>2, <1>8, <2>4 DEF OwnRelations
  <2>6. \A c \in DOMAIN reg : c.try = 0 => c.type \in world.entities[m] \cup Range(world.virtual[m])
    <3>1. \A c \in DOMAIN st.reg : c.try = 0 => c.type \in world.entities[m] \cup Range(world.virtual[m])
      BY <1>2 DEF OwnRelations
    <3>2. \A c \in DOMAIN reg \ DOMAIN st.reg : c.try # 0
      BY <1>4, <2>1
    <3>. QED BY <1>8, <3>1, <3>2
  <2>. QED BY <2>2, <2>3, <2>5, <2>6 DEF OwnRelations
<1>13. TargetsKnown(m, reg, er[m].pending)
  BY <1>11 DEF TargetsKnown, Range
<1>14. WireInv(m, s)
  BY <1>8, <1>9, <1>10, <1>12, <1>13 DEF WireInv
<1>. QED BY <1>8, <1>9, <1>11, <1>14 DEF s, made


\* The parts start from the manager as it is.
LEMMA StartWiring ==
  ASSUME NEW m, Wiring(m)
  PROVE  WireInv(m, StartOf(m))
<1> DEFINE s == StartOf(m)
<1>1. /\ er[m].fed = [try |-> tries[m], types |-> DOMAIN work[m].fragments]
      /\ ManagerInv(world, m, pc[m], tries[m], er[m])
      /\ WorkInv(world, pc[m], tries[m], er[m], work[m]) /\ SubsetsType(world, subsets)
  BY WiringFacts
<1>2. /\ DOMAIN s = {"ok", "fed", "reg", "loaders", "subsets"} /\ s.ok = TRUE
      /\ s.fed = er[m].fed /\ s.reg = er[m].reg /\ s.loaders = er[m].loaders
      /\ s.subsets = subsets
  BY DEF StartOf
<1>3. DOMAIN work[m].fragments \subseteq QNames
  BY <1>1 DEF WorkInv
<1>4. /\ DOMAIN er[m].fed = {"try", "types"} /\ er[m].fed.try = tries[m]
      /\ er[m].fed.types = DOMAIN work[m].fragments
  BY <1>1
<1>. HIDE DEF s
<1>5. WireInv(m, s)
  BY <1>1, <1>2, <1>3, <1>4 DEF WireInv, ManagerInv
<1>. QED BY <1>5 DEF s

\* The parts in their order, with what each hands on.
LEMMA FederatedChain ==
  ASSUME NEW m, Wiring(m), NEW done \in Federated(m)
  PROVE  \E s1, s2, s3, s4, s5 :
           /\ s1.subsets = subsets /\ done.fed = s1.fed
           /\ WireInv(m, s1) /\ WireInv(m, s2) /\ WireInv(m, s3) /\ WireInv(m, s4) /\ WireInv(m, s5)
           /\ s2 = IF s1.ok THEN BindSubsets(m, s1) ELSE s1
           /\ s3 = IF s2.ok THEN ResolveFields(m, s2) ELSE s2
           /\ s4 = IF s3.ok THEN WireFields(m, s3) ELSE s3
           /\ s2.fed = s1.fed /\ s3.fed = s1.fed
           /\ done.subsets = s3.subsets /\ done.loaders = s4.loaders /\ done.fed = s3.fed
           /\ WireInv(m, done)
           /\ done.ok => /\ s1.ok /\ s2.ok /\ s3.ok /\ s4.ok
                         /\ TargetsKnown(m, done.reg, << >>)
                         /\ {Class(m, done.fed, qn) : qn \in DOMAIN work[m].fragments}
                              \subseteq DOMAIN done.reg
           /\ done.ok \in BOOLEAN
<1>1. PICK s1, s2, s3, s4, s5 :
        /\ s1 = MaterializeDtos(m, StartOf(m))
        /\ s2 = IF s1.ok THEN BindSubsets(m, s1) ELSE s1
        /\ s3 = IF s2.ok THEN ResolveFields(m, s2) ELSE s2
        /\ s4 = IF s3.ok THEN WireFields(m, s3) ELSE s3
        /\ s5 = IF s4.ok THEN WireRelationships(m, s4) ELSE s4
        /\ done = IF s5.ok THEN RegisterTypes(m, s5) ELSE s5
  BY FederatedParts
<1>2. WireInv(m, s1) /\ s1.subsets = subsets
  <2>1. StartOf(m).subsets = subsets
    BY DEF StartOf
  <2>. QED BY <1>1, <2>1, StartWiring, MaterializeDtosPart
<1>3. WireInv(m, s2) /\ s2.fed = s1.fed
  <2>1. CASE s1.ok
    <3>1. s2 = BindSubsets(m, s1)
      BY <1>1, <2>1
    <3>2. WireInv(m, s2)
      BY <1>2, <3>1, BindSubsetsPart
    <3>3. PICK now : Binds(m, s1, BindSubsets(m, s1), now)
      BY <1>2, BindSubsetsResult
    <3>. QED BY <3>1, <3>2, <3>3 DEF Binds
  <2>2. CASE ~s1.ok
    BY <1>1, <1>2, <2>2
  <2>. QED BY <2>1, <2>2
<1>4. WireInv(m, s3) /\ s3.fed = s2.fed /\ s3.ok = s2.ok
  <2>1. CASE s2.ok
    BY <1>1, <1>3, <2>1, ResolveFieldsPart
  <2>2. CASE ~s2.ok
    BY <1>1, <1>3, <2>2
  <2>. QED BY <2>1, <2>2
<1>5. WireInv(m, s4) /\ s4.fed = s3.fed /\ s4.subsets = s3.subsets
  <2>1. CASE s3.ok
    <3>1. /\ WireInv(m, WireFields(m, s3)) /\ WireFields(m, s3).fed = s3.fed
          /\ WireFields(m, s3).subsets = s3.subsets
      BY <1>4, WireFieldsPart
    <3>. QED BY <1>1, <2>1, <3>1
  <2>2. CASE ~s3.ok
    BY <1>1, <1>4, <2>2
  <2>. QED BY <2>1, <2>2
<1>6. /\ WireInv(m, s5) /\ s5.fed = s4.fed /\ s5.subsets = s4.subsets /\ s5.loaders = s4.loaders
      /\ s5.ok => Mapped(m, s5)
  <2>1. CASE s4.ok
    <3> DEFINE r == WireRelationships(m, s4)
    <3>1. /\ WireInv(m, r) /\ r.fed = s4.fed /\ r.loaders = s4.loaders
          /\ r.subsets = s4.subsets /\ (r.ok => Mapped(m, r))
      BY <1>5, WireRelationshipsPart
    <3>2. s5 = r
      BY <1>1, <2>1
    <3>. HIDE DEF r
    <3>. QED BY <3>1, <3>2
  <2>2. CASE ~s4.ok
    BY <1>1, <1>5, <2>2
  <2>. QED BY <2>1, <2>2
<1>7. /\ WireInv(m, done) /\ done.fed = s5.fed /\ done.subsets = s5.subsets
      /\ done.loaders = s5.loaders /\ done.ok = s5.ok
      /\ done.ok => TargetsKnown(m, done.reg, << >>)
                    /\ {Class(m, done.fed, qn) : qn \in DOMAIN work[m].fragments}
                         \subseteq DOMAIN done.reg
  <2>1. CASE s5.ok
    <3> DEFINE r == RegisterTypes(m, s5)
    <3>1. /\ WireInv(m, r) /\ r.fed = s5.fed /\ r.subsets = s5.subsets
          /\ r.loaders = s5.loaders /\ r.ok = s5.ok /\ TargetsKnown(m, r.reg, << >>)
          /\ {Class(m, s5.fed, qn) : qn \in DOMAIN work[m].fragments} \subseteq DOMAIN r.reg
      BY <1>6, <2>1, RegisterTypesPart
    <3>2. done = r
      BY <1>1, <2>1
    <3>. HIDE DEF r
    <3>. QED BY <3>1, <3>2
  <2>2. CASE ~s5.ok
    BY <1>1, <1>6, <2>2
  <2>. QED BY <2>1, <2>2
<1>8. /\ s5.ok => s4.ok
      /\ s4.ok => s3.ok
      /\ s2.ok => s1.ok
  BY <1>1
<1>9. done.ok \in BOOLEAN
  BY <1>7 DEF WireInv
<1>10. done.fed = s1.fed /\ done.fed = s3.fed /\ done.subsets = s3.subsets /\ done.loaders = s4.loaders
  BY <1>3, <1>4, <1>5, <1>6, <1>7
<1>11. done.ok => s1.ok /\ s2.ok /\ s3.ok /\ s4.ok
  BY <1>4, <1>7, <1>8
<1>. WITNESS s1, s2, s3, s4, s5
<1>. QED BY <1>1, <1>2, <1>3, <1>4, <1>5, <1>6, <1>7, <1>9, <1>10, <1>11

\* Wire keeps what the parts keep when none raised, and fails otherwise.
LEMMA WireStep ==
  ASSUME FedInv, NEW m \in Services, Wire(m)
  PROVE  FedInv'
<1>1. pc[m] = "dtos" /\ UNCHANGED <<world, tries, entities, composed, lost>>
  BY DEF Wire
<1>2. Wiring(m)
  BY <1>1 DEF Wiring
<1>3. PICK done \in Federated(m) :
        /\ subsets' = done.subsets
        /\ er' = [er EXCEPT ![m].fed = done.fed, ![m].reg = done.reg,
                    ![m].loaders = done.loaders,
                    ![m].pending = IF done.ok THEN << >> ELSE @,
                    ![m].version = IF done.ok THEN Bumped(@) ELSE @]
        /\ IF done.ok
           THEN /\ pc' = [pc EXCEPT ![m] = "ready"]
                /\ work' = [work EXCEPT ![m] = NoWork]
                /\ UNCHANGED spoilt
           ELSE Fails(m)
  BY DEF Wire
<1> DEFINE e == [er[m] EXCEPT !.fed = done.fed, !.reg = done.reg, !.loaders = done.loaders,
                   !.pending = IF done.ok THEN << >> ELSE @,
                   !.version = IF done.ok THEN Bumped(@) ELSE @]
           p == IF done.ok THEN "ready" ELSE "failed"
<1>4. /\ WireInv(m, done) /\ done.ok \in BOOLEAN
      /\ done.ok => TargetsKnown(m, done.reg, << >>)
  BY <1>2, FederatedChain
<1>5. er' = [er EXCEPT ![m] = e]
  BY <1>3
<1>6. pc' = [pc EXCEPT ![m] = p] /\ work' = [work EXCEPT ![m] = NoWork]
      /\ spoilt' \in [Services -> BOOLEAN]
  <2>1. spoilt \in [Services -> BOOLEAN]
    BY DEF FedInv
  <2>2. CASE done.ok
    BY <1>3, <2>1, <2>2
  <2>3. CASE ~done.ok
    BY <1>3, <2>1, <2>3 DEF Fails
  <2>. QED BY <2>2, <2>3
<1>7. ManagerInv(world, m, pc[m], tries[m], er[m]) /\ tries[m] \in 1 .. MaxTries
  BY <1>2, WiringFacts
<1>8. /\ DOMAIN e = ManagerFields /\ e.virtual = er[m].virtual /\ e.mounted = er[m].mounted
      /\ e.fed = done.fed /\ e.reg = done.reg /\ e.loaders = done.loaders
      /\ e.pending = IF done.ok THEN << >> ELSE er[m].pending
  BY <1>7 DEF ManagerInv, ManagerFields
<1>9. SubsetsType(world, subsets') /\ lost' \in 0 .. MaxLost
  BY <1>1, <1>3, <1>4 DEF WireInv, FedInv
<1>10. tries' = [tries EXCEPT ![m] = tries[m]]
  BY <1>1 DEF FedInv, PerService
<1>. HIDE DEF e
<1>11. p \in {"ready", "failed"} /\ (p = "ready" => done.ok)
  OBVIOUS
<1>. HIDE DEF p
<1>12. ManagerInv(world, m, p, tries[m], e)
  <2>1. tries[m] \in 0 .. tries[m]
    BY <1>7
  <2>2. ToWire(world, m, e.pending) /\ (done.ok => TargetsKnown(m, e.reg, << >>))
    <3>1. ToWire(world, m, << >>)
      BY DEF ToWire, Range
    <3>. QED BY <1>4, <1>7, <1>8, <3>1 DEF ManagerInv
  <2>3. TargetsKnown(m, e.reg, e.pending)
    BY <1>4, <1>8 DEF WireInv
  <2>4. /\ RegistryType(m, e.reg) /\ OwnRelations(world, m, e.reg)
        /\ \A k \in DOMAIN e.loaders : e.loaders[k] \in ClassIds
        /\ DOMAIN e.fed = {"try", "types"} /\ e.fed.try = tries[m] /\ e.fed.types \subseteq QNames
    BY <1>4, <1>8 DEF WireInv
  <2>. QED BY <1>7, <1>8, <1>11, <2>1, <2>2, <2>3, <2>4 DEF ManagerInv, Running
<1>13. WorkInv(world, p, tries[m], e, NoWork)
  BY <1>11, NoWorkInv DEF Running
<1>. QED BY <1>1, <1>5, <1>6, <1>9, <1>10, <1>12, <1>13, MemberStep

\* Every other step touches no manager.
LEMMA FedStep == FedInv /\ [Next]_vars => FedInv'
<1>. SUFFICES ASSUME FedInv, [Next]_vars PROVE FedInv'
  OBVIOUS
<1>1. ASSUME UNCHANGED <<world, pc, tries, spoilt, er, work, subsets, lost>> PROVE FedInv'
  BY <1>1 DEF FedInv, PerService
<1>2. ASSUME NEW m \in Services, NEW k \in Renderings, ReadSchema(m, k) PROVE FedInv'
  BY <1>1, <1>2 DEF ReadSchema
<1>3. CASE Compose
  BY <1>1, <1>3 DEF Compose
<1>4. CASE UNCHANGED vars
  BY <1>1, <1>4 DEF vars
<1>5. ASSUME NEW m \in Services, BringUp(m) PROVE FedInv'
  BY <1>5, DiscoverStep, FetchFragmentsStep, MaterializeTypesStep, WireStep, AskDtosStep DEF BringUp
<1>. QED
  BY <1>2, <1>3, <1>4, <1>5, InitializeStep, TransportRaisesStep, AddVirtualEntitiesStep,
     CreateResolverStep DEF Next

\* Nothing has been called.
LEMMA FedInit == Init => FedInv
<1>. SUFFICES ASSUME Init PROVE FedInv
  OBVIOUS
<1> DEFINE first(m) ==
      [reg |-> Registry0(m), pending |-> world.declared[m], mounted |-> << >>,
       fed |-> NoFed, loaders |-> << >>, version |-> 0, frozen |-> FALSE,
       virtual |-> world.virtual[m]]
<1>1. /\ world \in Worlds /\ er = [m \in Services |-> first(m)]
      /\ pc = [m \in Services |-> "idle"] /\ tries = [m \in Services |-> 0]
      /\ spoilt = [m \in Services |-> FALSE] /\ lost = 0
      /\ work = [m \in Services |-> NoWork]
      /\ subsets = [pending |-> [i \in DOMAIN world.subsets |-> i],
                    bound |-> [i \in DOMAIN world.subsets |-> << >>], anno |-> << >>]
  BY DEF Init
<1>2. MaxLost \in Nat
  BY FederationAssumption DEF Accepted
<1>3. SubsetsType(world, subsets)
  <2>1. world.subsets \in Seq(SubsetDecl)
    BY <1>1, FederationAssumption DEF Accepted
  <2>2. DOMAIN world.subsets = 1 .. Len(world.subsets) /\ Len(world.subsets) \in Nat
    BY <2>1
  <2>3. [i \in DOMAIN world.subsets |-> i] \in Seq(DOMAIN world.subsets)
    BY <2>2
  <2>4. << >> \in Seq(ClassIds)
    OBVIOUS
  <2>. QED BY <1>1, <2>3, <2>4 DEF SubsetsType
<1>4. ASSUME NEW m \in Services
      PROVE  ManagerInv(world, m, "idle", 0, first(m))
  <2> DEFINE reg == Registry0(m)
  <2>1. /\ world.calls[m] \in 0 .. MaxTries /\ MaxTries \in Nat /\ world.virtual[m] \in Seq(Types)
        /\ world.entities[m] \subseteq Types
        /\ \A l \in Built(world, m) :
             /\ l.src \in world.entities[m] /\ l.target \in Types /\ l.name \in Rels
             /\ l.list \in BOOLEAN /\ l.paged \in BOOLEAN /\ l.custom \in BOOLEAN
             /\ l.custom \/ l.target \in world.entities[m]
    BY <1>1, WorldFacts
  <2>2. \A k, l \in Built(world, m) : k.src = l.src /\ k.name = l.name => k = l
    BY <1>1, NamesApart
  <2> DEFINE from(c) == {k \in Built(world, m) : k.src = c.type}
             names(c) == {l.name : l \in from(c)}
             at(c, n) == CHOOSE k \in Built(world, m) : k.src = c.type /\ k.name = n
             info(l) == LocalInfo(m, l)
  <2>3. /\ DOMAIN reg = {Local(m, t) : t \in world.entities[m]}
        /\ \A c \in DOMAIN reg : reg[c] = [n \in names(c) |-> info(at(c, n))]
    BY DEF Registry0
  <2>4. \A c, n : n \in names(c) => at(c, n) \in Built(world, m) /\ at(c, n).src = c.type /\ at(c, n).name = n
    <3> SUFFICES ASSUME NEW c, NEW n \in names(c)
                 PROVE  /\ at(c, n) \in Built(world, m) /\ at(c, n).src = c.type
                        /\ at(c, n).name = n
      OBVIOUS
    <3>1. \E k \in Built(world, m) : k.src = c.type /\ k.name = n
      OBVIOUS
    <3>. QED BY <3>1
  <2>5. \A c : \A l \in Built(world, m) : l.src = c.type => l.name \in names(c) /\ at(c, l.name) = l
    BY <2>2, <2>4
  <2>6. \A l \in Built(world, m) : /\ info(l) \in RelInfo /\ info(l).svc = None
                                  /\ info(l).target = Local(m, l.target) /\ info(l).list = l.list
                                  /\ (l.custom => info(l).kind = "custom")
    BY <2>1 DEF LocalInfo, RelInfo, ClassIds, Local
  <2>. HIDE DEF at, names, info
  <2>7. \A c \in DOMAIN reg : /\ DOMAIN reg[c] = names(c)
                              /\ \A n \in names(c) : reg[c][n] = info(at(c, n))
    BY <2>3
  <2>8. \A t \in Types : /\ Local(m, t) \in ClassIds /\ Local(m, t).by = m /\ Local(m, t).svc = m
                         /\ Local(m, t).type = t /\ Local(m, t).try = 0
    BY <2>1 DEF Local, ClassIds
  <2>9. \A t, u : [Local(m, t) EXCEPT !.type = u] = Local(m, u)
    BY DEF Local
  <2>. HIDE DEF reg
  <2>10. RegistryType(m, reg)
    BY <2>1, <2>3, <2>4, <2>6, <2>7, <2>8 DEF RegistryType
  <2>11. TargetsKnown(m, reg, world.declared[m])
    <3>1. \A c \in DOMAIN reg : c.try = 0
      BY <2>3 DEF Local
    <3>. QED BY <2>1, <2>3, <2>4, <2>6, <2>7, <3>1 DEF TargetsKnown
  <2>16. ToWire(world, m, world.declared[m])
    <3>1. world.declared[m] \in Seq(RemoteDecl)
      BY <1>1, WorldFacts
    <3>. QED BY <1>1, <3>1, NamesApart DEF ToWire
  <2>12. OwnRelations(world, m, reg)
    <3>1. \A c \in DOMAIN reg : \E t \in world.entities[m] : c = Local(m, t) /\ c.type = t /\ c.svc = m
      BY <2>1, <2>3, <2>8
    <3>2. \A c \in DOMAIN reg : \A l \in Built(world, m) : l.src = c.type =>
            l.name \in DOMAIN reg[c] /\ reg[c][l.name].svc = None
            /\ reg[c][l.name].target = Local(m, l.target) /\ reg[c][l.name].list = l.list
      BY <2>5, <2>6, <2>7
    <3>3. \A c \in DOMAIN reg : \A l \in Built(world, c.svc) : l.src = c.type =>
            l.name \in DOMAIN reg[c] /\ reg[c][l.name].target = [c EXCEPT !.type = l.target]
      BY <2>9, <3>1, <3>2
    <3>4. \A l \in Built(world, m) : Local(m, l.src) \in DOMAIN reg /\ l.src = Local(m, l.src).type
      BY <2>1, <2>3, <2>8
    <3>5. \A l \in Built(world, m) :
            LET rels == reg[Local(m, l.src)]
            IN l.name \in DOMAIN rels /\ rels[l.name].svc = None
               /\ rels[l.name].target = Local(m, l.target) /\ rels[l.name].list = l.list
      BY <3>2, <3>4
    <3>6. \A c \in DOMAIN reg : c.type \in world.entities[m]
      BY <3>1
    <3>. QED BY <2>3, <3>3, <3>5, <3>6 DEF OwnRelations
  <2>13. /\ DOMAIN first(m) = ManagerFields /\ first(m).pending = world.declared[m]
         /\ first(m).virtual = world.virtual[m] /\ first(m).mounted = << >>
         /\ first(m).fed = NoFed /\ first(m).reg = reg /\ first(m).loaders = << >>
    BY DEF ManagerFields, reg
  <2>. HIDE DEF first
  <2>14. DOMAIN NoFed = {"try", "types"} /\ NoFed.try = 0 /\ NoFed.types = {}
    BY DEF NoFed
  <2>15. DOMAIN << >> = {}
    OBVIOUS
  <2>. QED BY <2>1, <2>10, <2>11, <2>12, <2>13, <2>14, <2>15, <2>16 DEF ManagerInv, Running
<1>5. \A m \in Services : WorkInv(world, "idle", 0, first(m), NoWork)
  BY NoWorkInv DEF Running
<1>. HIDE DEF first
<1>6. PerService(pc) /\ PerService(tries) /\ PerService(er) /\ PerService(work)
  BY <1>1 DEF PerService
<1>7. spoilt \in [Services -> BOOLEAN] /\ lost \in 0 .. MaxLost
  BY <1>1, <1>2
<1>8. \A m \in Services : pc[m] = "idle" /\ tries[m] = 0 /\ er[m] = first(m) /\ work[m] = NoWork
  BY <1>1
<1>. QED BY <1>1, <1>3, <1>4, <1>5, <1>6, <1>7, <1>8 DEF FedInv

\* Every state has the shape the model gives it, whatever is declared.
THEOREM TypeCorrect == Spec => []TypeOK
<1>1. FedInv => TypeOK
  <2>. SUFFICES ASSUME FedInv PROVE TypeOK
    OBVIOUS
  <2>1. ASSUME NEW m \in Services
        PROVE  /\ pc[m] \in {"idle", "ready", "failed"} \cup Running
               /\ tries[m] \in 0 .. MaxTries /\ er[m].fed.try <= tries[m]
               /\ RegistryType(m, er[m].reg)
               /\ er[m].fed.types \subseteq QNames /\ (pc[m] # "fetch" => work[m].queue = << >>)
               /\ (pc[m] \notin Running => work[m] = NoWork) /\ work[m].queue \in Seq(QNames)
               /\ \A k \in DOMAIN er[m].loaders : er[m].loaders[k] \in ClassIds
    <3>1. ManagerInv(world, m, pc[m], tries[m], er[m]) /\ world \in Worlds
          /\ WorkInv(world, pc[m], tries[m], er[m], work[m])
      BY DEF FedInv
    <3>2. world.calls[m] \in 0 .. MaxTries /\ MaxTries \in Nat
      BY <3>1, WorldFacts
    <3>3. tries[m] \in 0 .. world.calls[m] /\ er[m].fed.try \in 0 .. tries[m]
      BY <3>1 DEF ManagerInv
    <3>4. tries[m] \in 0 .. MaxTries /\ er[m].fed.try <= tries[m]
      BY <3>2, <3>3
    <3>. QED BY <3>1, <3>4 DEF ManagerInv, WorkInv
  <2>2. pc \in [Services -> {"idle", "ready", "failed"} \cup Running]
        /\ tries \in [Services -> 0 .. MaxTries]
    BY <2>1 DEF FedInv, PerService
  <2>3. \A m \in Services : Range(work[m].queue) \subseteq QNames
    BY <2>1, SeqRange
  <2>4. Range(subsets.pending) \subseteq DOMAIN world.subsets
    <3>1. subsets.pending \in Seq(DOMAIN world.subsets)
      BY DEF FedInv, SubsetsType
    <3>. QED BY <3>1, SeqRange
  <2>5. \A m \in Services : /\ DOMAIN er[m].reg \subseteq ClassIds
                            /\ \A c \in DOMAIN er[m].reg : \A n \in DOMAIN er[m].reg[c] :
                                 n \in Rels /\ er[m].reg[c][n] \in RelInfo
    BY <2>1 DEF RegistryType
  <2>. QED BY <2>1, <2>2, <2>3, <2>4, <2>5 DEF TypeOK, FedInv, QNames
<1>. QED BY <1>1, FedInit, FedStep, PTL DEF Spec

\* A service that came up serves a closed schema, in every world whose services
\* advertise their own names: every relationship leads to a registered class,
\* but for the custom ones of its own entities and virtual entities, and a class
\* has every relationship its service registered for it.
THEOREM SchemaIsClosed ==
  ASSUME \A w \in Worlds : OwnNames(w)
  PROVE  Spec => []SchemaClosed
<1>1. FedInv => SchemaClosed
  <2>. SUFFICES ASSUME FedInv, NEW m \in Services, pc[m] = "ready", NEW c \in DOMAIN er[m].reg
                PROVE  /\ \A n \in DOMAIN er[m].reg[c] :
                            \/ er[m].reg[c][n].target \in DOMAIN er[m].reg
                            \/ er[m].reg[c][n].kind = "custom" /\ c.try = 0
                       /\ \A l \in Built(world, c.svc) : l.src = c.type =>
                            /\ l.name \in DOMAIN er[m].reg[c]
                            /\ er[m].reg[c][l.name].target = [c EXCEPT !.type = l.target]
    BY DEF SchemaClosed
  <2>1. ManagerInv(world, m, pc[m], tries[m], er[m]) /\ OwnNames(world)
    BY DEF FedInv
  <2>2. TargetsKnown(m, er[m].reg, << >>) /\ OwnRelations(world, m, er[m].reg)
    BY <2>1 DEF ManagerInv
  <2>3. Range(<< >>) = {}
    BY DEF Range
  <2>. QED BY <2>1, <2>2, <2>3 DEF TargetsKnown, OwnRelations
<1>. QED BY <1>1, FedInit, FedStep, PTL DEF Spec


-----------------------------------------------------------------------------
(* Subsets and RemoteRef fields.  The ErManagers of a process share the     *)
(* pending subsets and the DTO classes.                                     *)

\* The managers mount different services: what a subset is made of is mounted
\* by none but its owner.
EachMountsItsOwn ==
  \A i \in DOMAIN world.subsets : \A m \in Services :
    Mounts(er[m].fed, world.subsets[i].svc) => m = world.subsets[i].owner

\* A field is declared once, by one class of one service, and a subset is made
\* of an entity.
Key(d) == <<d.dto, d.name>>
FieldsAt(w, m) ==
  LET own == {j \in DOMAIN w.subsets : w.subsets[j].owner = m}
  IN Range(w.fields[m]) \cup UNION {Range(w.subsets[i].fields) : i \in own}
FieldsOnce(w) ==
  \A m, n \in Services : \A d \in FieldsAt(w, m), f \in FieldsAt(w, n) :
    Key(d) = Key(f) => m = n /\ d = f
SubsetsOfEntities(w) ==
  \A i \in DOMAIN w.subsets : \A s \in Services : \A d \in w.public[s] : d.name # w.subsets[i].type

\* A pending subset is not bound, and one that is bound is so once, wholly, to
\* a registered class.
SubsetInv ==
  /\ Once(subsets.pending)
  /\ \A i \in DOMAIN world.subsets :
       LET s == world.subsets[i]
           b == subsets.bound[i]
       IN ~spoilt[s.owner] =>
            /\ i \in Range(subsets.pending) => b = << >>
            /\ b # << >> => /\ Len(b) = 1 /\ b[1] \in DOMAIN er[s.owner].reg
                            /\ \A d \in Range(s.fields) : Key(d) \in DOMAIN subsets.anno

\* What a running call is to wire was among its targets when it began.
FieldsWired(w, m, s, p, e, k) ==
  LET ds == Declares(w, m, s.bound)
  IN /\ p \in Running => \A d \in ds : QN(d) \in k.targets
     /\ p = "ready" =>
          \A d \in ds : /\ Key(d) \in DOMAIN e.loaders /\ Key(d) \in DOMAIN s.anno
                        /\ s.anno[Key(d)] = e.loaders[Key(d)]
FieldInv == \A m \in Services : FieldsWired(world, m, subsets, pc[m], er[m], work[m])

\* The fields of some declarations that get the classes of m.
LEMMA AnnotatedKeys ==
  ASSUME NEW m, NEW fed, NEW D
  PROVE  /\ \A d \in D : QN(d) \in fed.types => Key(d) \in DOMAIN Annotated(m, fed, D)
         /\ \A k \in DOMAIN Annotated(m, fed, D) : \E d \in D : k = Key(d)
BY DEF Annotated, Key

\* What the last step of a call does to the subsets: those of `now` are bound.
Changes(m, done, now) ==
  /\ now \subseteq Range(subsets.pending) /\ now \subseteq DOMAIN world.subsets
  /\ \A i \in now : /\ Mounts(done.fed, world.subsets[i].svc)
                    /\ QN(world.subsets[i]) \in done.fed.types
                    /\ \A d \in Range(world.subsets[i].fields) :
                         QN(d) \in done.fed.types /\ Key(d) \in DOMAIN done.subsets.anno
  /\ \A i \in DOMAIN world.subsets : done.subsets.bound[i] =
       IF i \in now THEN Append(subsets.bound[i], Class(m, done.fed, QN(world.subsets[i])))
       ELSE subsets.bound[i]
  /\ DOMAIN subsets.anno \subseteq DOMAIN done.subsets.anno
  /\ \A k \in DOMAIN subsets.anno : done.subsets.anno[k] = subsets.anno[k]
       \/ \E d \in (UNION {Range(world.subsets[i].fields) : i \in now})
                     \cup Range(FieldsOf(m, done.subsets.bound)) : k = Key(d)
  /\ Range(done.subsets.pending) \subseteq Range(subsets.pending)
  /\ Once(subsets.pending) =>
       /\ Once(done.subsets.pending)
       /\ done.ok => Range(done.subsets.pending) \cap now = {}

\* What a call does to the subsets all managers share.
LEMMA SubsetsChange ==
  ASSUME NEW m, Wiring(m), NEW done \in Federated(m)
  PROVE  \E now : Changes(m, done, now)
<1> DEFINE ws == world.subsets
           fieldsOf(now) == UNION {Range(ws[i].fields) : i \in now}
<1>1. PICK s1, s2, s3, s4 :
           /\ s1.subsets = subsets /\ done.fed = s1.fed
           /\ WireInv(m, s1) /\ WireInv(m, s2)
           /\ s2 = IF s1.ok THEN BindSubsets(m, s1) ELSE s1
           /\ s3 = IF s2.ok THEN ResolveFields(m, s2) ELSE s2
           /\ s2.fed = s1.fed /\ done.subsets = s3.subsets
           /\ done.ok => s1.ok /\ s2.ok
  BY FederatedChain
<1>2. CASE ~s1.ok
  <2>1. done.subsets = subsets /\ ~done.ok
    BY <1>1, <1>2
  <2>2. Changes(m, done, {})
    BY <2>1 DEF Changes
  <2>. QED BY <2>2
<1>3. CASE s1.ok
  <2>1. PICK now : Binds(m, s1, s2, now)
    <3>1. s2 = BindSubsets(m, s1)
      BY <1>1, <1>3
    <3>2. \E now : Binds(m, s1, BindSubsets(m, s1), now)
      BY <1>1, BindSubsetsResult
    <3>. QED BY <3>1, <3>2
  <2> DEFINE bind == Annotated(m, s1.fed, fieldsOf(now))
             own == Annotated(m, s2.fed, Range(FieldsOf(m, s2.subsets.bound)))
  <2>2. /\ now \subseteq Range(subsets.pending) /\ s2.fed = done.fed
        /\ \A i \in now : /\ Mounts(done.fed, ws[i].svc) /\ QN(ws[i]) \in done.fed.types
                          /\ \A d \in Range(ws[i].fields) : QN(d) \in done.fed.types
        /\ s2.subsets.bound = [i \in DOMAIN ws |->
             IF i \in now THEN Append(subsets.bound[i], Class(m, done.fed, QN(ws[i])))
             ELSE subsets.bound[i]]
        /\ s2.subsets.anno = Updated(subsets.anno, bind)
        /\ Range(s2.subsets.pending) \subseteq Range(subsets.pending)
        /\ Once(subsets.pending) =>
             /\ Once(s2.subsets.pending)
             /\ s2.ok => Range(s2.subsets.pending) \cap now = {}
    BY <1>1, <2>1 DEF Binds
  <2>3. now \subseteq DOMAIN ws
    <3>1. subsets.pending \in Seq(DOMAIN ws)
      BY WiringFacts DEF SubsetsType
    <3>. QED BY <2>2, <3>1, SeqRange
  <2>4. /\ s3.subsets.pending = s2.subsets.pending /\ s3.subsets.bound = s2.subsets.bound
        /\ s3.subsets.anno = Updated(s2.subsets.anno, own) \/ s3.subsets.anno = s2.subsets.anno
    <3>1. CASE s2.ok
      <4> DEFINE r == ResolveFields(m, s2)
      <4>1. /\ r.subsets.pending = s2.subsets.pending /\ r.subsets.bound = s2.subsets.bound
            /\ r.subsets.anno = Updated(s2.subsets.anno, own)
        BY <1>1, ResolveFieldsPart
      <4>2. s3 = r
        BY <1>1, <3>1
      <4>. HIDE DEF r, own
      <4>. QED BY <4>1, <4>2
    <3>2. CASE ~s2.ok
      BY <1>1, <3>2
    <3>. QED BY <3>1, <3>2
  <2>5. /\ \A d \in fieldsOf(now) : QN(d) \in s1.fed.types => Key(d) \in DOMAIN bind
        /\ \A k \in DOMAIN bind : \E d \in fieldsOf(now) : k = Key(d)
    <3>. HIDE DEF fieldsOf
    <3>. QED BY AnnotatedKeys
  <2>6. \A k \in DOMAIN own : \E d \in Range(FieldsOf(m, s2.subsets.bound)) : k = Key(d)
    BY AnnotatedKeys
  <2>7. \A i \in now : \A d \in Range(ws[i].fields) : d \in fieldsOf(now)
    OBVIOUS
  <2>. HIDE DEF bind, own, fieldsOf
  <2>8. \A i \in now : \A d \in Range(ws[i].fields) : Key(d) \in DOMAIN bind
    BY <1>1, <2>2, <2>5, <2>7
  <2>9. /\ DOMAIN Updated(subsets.anno, bind) = DOMAIN subsets.anno \cup DOMAIN bind
        /\ \A k \in DOMAIN subsets.anno \ DOMAIN bind : Updated(subsets.anno, bind)[k] = subsets.anno[k]
    BY UpdatedFacts
  <2> DEFINE both == Updated(s2.subsets.anno, own)
  <2>10. /\ DOMAIN both = DOMAIN s2.subsets.anno \cup DOMAIN own
         /\ \A k \in DOMAIN s2.subsets.anno \ DOMAIN own : both[k] = s2.subsets.anno[k]
    BY UpdatedFacts
  <2>11. done.subsets.anno \in {s2.subsets.anno, both}
    BY <1>1, <2>4
  <2>. HIDE DEF both
  <2>12. /\ DOMAIN s2.subsets.anno \subseteq DOMAIN done.subsets.anno
         /\ \A k \in DOMAIN s2.subsets.anno :
              done.subsets.anno[k] = s2.subsets.anno[k] \/ k \in DOMAIN own
    BY <2>10, <2>11
  <2>13. /\ DOMAIN subsets.anno \subseteq DOMAIN done.subsets.anno
         /\ DOMAIN bind \subseteq DOMAIN done.subsets.anno
         /\ \A k \in DOMAIN subsets.anno :
              done.subsets.anno[k] = subsets.anno[k] \/ k \in DOMAIN own \/ k \in DOMAIN bind
    BY <2>2, <2>9, <2>12
  <2>14. done.subsets.bound = s2.subsets.bound /\ done.subsets.pending = s2.subsets.pending
    BY <1>1, <2>4
  <2>15. \A k \in DOMAIN subsets.anno : done.subsets.anno[k] = subsets.anno[k]
           \/ \E d \in fieldsOf(now) \cup Range(FieldsOf(m, done.subsets.bound)) : k = Key(d)
    BY <2>5, <2>6, <2>13, <2>14
  <2>16. \A i \in DOMAIN ws : done.subsets.bound[i] =
           IF i \in now THEN Append(subsets.bound[i], Class(m, done.fed, QN(ws[i])))
           ELSE subsets.bound[i]
    BY <2>2, <2>14
  <2>17. \A i \in now : /\ Mounts(done.fed, ws[i].svc) /\ QN(ws[i]) \in done.fed.types
                        /\ \A d \in Range(ws[i].fields) :
                             QN(d) \in done.fed.types /\ Key(d) \in DOMAIN done.subsets.anno
    BY <2>2, <2>8, <2>13
  <2>18. Once(subsets.pending) =>
         /\ Once(done.subsets.pending)
         /\ done.ok => Range(done.subsets.pending) \cap now = {}
    BY <1>1, <2>2, <2>14
  <2>19. \A k \in DOMAIN subsets.anno : done.subsets.anno[k] = subsets.anno[k]
           \/ \E d \in (UNION {Range(ws[i].fields) : i \in now})
                         \cup Range(FieldsOf(m, done.subsets.bound)) : k = Key(d)
    BY <2>15 DEF fieldsOf
  <2>20. /\ Range(done.subsets.pending) \subseteq Range(subsets.pending)
         /\ now \subseteq Range(subsets.pending)
         /\ DOMAIN subsets.anno \subseteq DOMAIN done.subsets.anno
    BY <2>2, <2>13, <2>14
  <2>21. Changes(m, done, now)
    BY ONLY <2>3, <2>16, <2>17, <2>18, <2>19, <2>20 DEF Changes
  <2>. QED BY <2>21
<1>. QED BY <1>2, <1>3


\* What a step that is not the last of a call may do to a service.
Quiet(m) ==
  /\ spoilt[m] => spoilt'[m]
  /\ DOMAIN er[m].reg \subseteq DOMAIN er'[m].reg
  /\ er'[m].loaders = er[m].loaders
  /\ pc'[m] = "ready" => pc[m] = "ready" \/ FieldsOf(m, subsets.bound) = << >>
  /\ pc'[m] \in Running =>
       \/ pc[m] \in Running /\ work'[m].targets = work[m].targets
       \/ work'[m].targets = {QN(d) : d \in Range(FieldsOf(m, subsets.bound))}

\* A manager a step leaves alone is quiet.
LEMMA QuietOthers ==
  ASSUME FedInv, NEW m \in Services, NEW n \in Services,
         er'[n] = er[n], pc'[n] = pc[n], work'[n] = work[n], spoilt'[n] = spoilt[n]
  PROVE  Quiet(n)
BY DEF Quiet

\* So are all when a step fails its call, or changes locals but not what is to
\* be wired.
LEMMA QuietLocals ==
  ASSUME FedInv, NEW m \in Services, er' = er,
         \/ Fails(m)
         \/ /\ UNCHANGED <<pc, spoilt>>
            /\ \E k : work' = [work EXCEPT ![m] = k] /\ k.targets = work[m].targets
  PROVE  \A n \in Services : Quiet(n)
<1>1. PerService(pc) /\ PerService(work) /\ spoilt \in [Services -> BOOLEAN]
  BY DEF FedInv
<1>2. CASE Fails(m)
  <2>1. /\ pc' = [pc EXCEPT ![m] = "failed"] /\ work' = [work EXCEPT ![m] = NoWork]
        /\ spoilt' = [spoilt EXCEPT ![m] = TRUE]
    BY <1>2 DEF Fails
  <2>2. pc'[m] = "failed" /\ spoilt'[m] = TRUE
    BY <1>1, <2>1 DEF PerService
  <2>3. Quiet(m)
    BY <2>2 DEF Quiet, Running
  <2>4. ASSUME NEW n \in Services, n # m
        PROVE  pc'[n] = pc[n] /\ work'[n] = work[n] /\ spoilt'[n] = spoilt[n] /\ er'[n] = er[n]
    BY <1>1, <2>1, <2>4 DEF PerService
  <2>. QED BY <2>3, <2>4, QuietOthers
<1>3. ASSUME UNCHANGED <<pc, spoilt>>, NEW k, work' = [work EXCEPT ![m] = k],
             k.targets = work[m].targets
      PROVE  \A n \in Services : Quiet(n)
  <2>1. work'[m] = k
    BY <1>1, <1>3 DEF PerService
  <2>2. Quiet(m)
    BY <1>3, <2>1 DEF Quiet
  <2>3. ASSUME NEW n \in Services, n # m
        PROVE  pc'[n] = pc[n] /\ work'[n] = work[n] /\ spoilt'[n] = spoilt[n] /\ er'[n] = er[n]
    BY <1>1, <1>3, <2>3 DEF PerService
  <2>. QED BY <2>2, <2>3, QuietOthers
<1>. QED BY <1>2, <1>3

\* Following a fragment is such a step.
LEMMA QuietFollow ==
  ASSUME FedInv, NEW m \in Services, NEW qn, NEW a, Follow(m, qn, a), er' = er
  PROVE  \A n \in Services : Quiet(n)
<1>1. CASE Fails(m)
  BY <1>1, QuietLocals
<1>2. CASE qn[2] \in DOMAIN a.types
  <2> DEFINE w == work[m]
             frag == a.types[qn[2]]
             learnt == {r \in frag.rels : r.svc # None /\ r.endpoint # None
                                          /\ r.svc \notin DOMAIN w.endpoints}
             told == [s \in {r.svc : r \in learnt} |-> (CHOOSE r \in learnt : r.svc = s).endpoint]
             children == {<<OwnerOf(qn, r), r.type>> : r \in frag.rels}
             new == {c \in children : Unseen(w.visited \cup {qn}, c)}
             k == [w EXCEPT !.visited = @ \cup {qn},
                    !.held = Updated(@, Item(qn[1], a)),
                    !.fragments = Updated(@, Item(qn, frag)),
                    !.endpoints = Updated(told, @),
                    !.queue = WithoutLast(@) \o InSomeOrder(new)]
  <2>1. work' = [work EXCEPT ![m] = k] /\ UNCHANGED <<pc, spoilt>>
    BY <1>2 DEF Follow, OwnerOf
  <2>2. DOMAIN w = WorkFields
    BY DEF FedInv, WorkInv
  <2>. HIDE DEF told, new, frag
  <2>3. k.targets = work[m].targets
    BY <2>2 DEF WorkFields
  <2>. HIDE DEF k
  <2>. QED BY <2>1, <2>3, QuietLocals
<1>3. CASE qn[2] \notin DOMAIN a.types
  BY <1>1, <1>3 DEF Follow
<1>. QED BY <1>2, <1>3

\* A step of one manager that leaves the loaders and drops no class.
LEMMA QuietMember ==
  ASSUME FedInv, NEW m \in Services, NEW e, NEW p, NEW k, NEW b,
         er' = [er EXCEPT ![m] = e], pc' = [pc EXCEPT ![m] = p],
         work' = [work EXCEPT ![m] = k], spoilt' = [spoilt EXCEPT ![m] = b],
         e.loaders = er[m].loaders, DOMAIN er[m].reg \subseteq DOMAIN e.reg,
         spoilt[m] => b,
         p = "ready" => pc[m] = "ready" \/ FieldsOf(m, subsets.bound) = << >>,
         p \in Running =>
           \/ pc[m] \in Running /\ k.targets = work[m].targets
           \/ k.targets = {QN(d) : d \in Range(FieldsOf(m, subsets.bound))}
  PROVE  \A n \in Services : Quiet(n)
<1>1. PerService(pc) /\ PerService(work) /\ PerService(er) /\ spoilt \in [Services -> BOOLEAN]
  BY DEF FedInv
<1>2. er'[m] = e /\ pc'[m] = p /\ work'[m] = k /\ spoilt'[m] = b
  BY <1>1 DEF PerService
<1>3. Quiet(m)
  BY <1>2 DEF Quiet
<1>4. ASSUME NEW n \in Services, n # m
      PROVE  pc'[n] = pc[n] /\ work'[n] = work[n] /\ spoilt'[n] = spoilt[n] /\ er'[n] = er[n]
  BY <1>1, <1>4 DEF PerService
<1>. QED BY <1>3, <1>4, QuietOthers

\* No other step binds a subset or wires a field.
LEMMA QuietSteps ==
  ASSUME FedInv, [Next]_vars, \A m \in Services : ~Wire(m)
  PROVE  subsets' = subsets /\ world' = world /\ \A n \in Services : Quiet(n)
<1> DEFINE P == subsets' = subsets /\ world' = world /\ \A n \in Services : Quiet(n)
<1>a. ASSUME UNCHANGED <<world, pc, spoilt, er, work, subsets>> PROVE P
  BY <1>a, QuietOthers
<1>b. \A m \in Services : DOMAIN work[m] = WorkFields /\ DOMAIN er[m] = ManagerFields
  BY DEF FedInv, WorkInv, ManagerInv
<1>c. PerService(pc) /\ PerService(work) /\ PerService(er) /\ spoilt \in [Services -> BOOLEAN]
  BY DEF FedInv
<1>e. \A m \in Services : /\ pc = [pc EXCEPT ![m] = pc[m]] /\ work = [work EXCEPT ![m] = work[m]]
                          /\ er = [er EXCEPT ![m] = er[m]]
                          /\ spoilt = [spoilt EXCEPT ![m] = spoilt[m]]
  BY <1>c DEF PerService
<1>1. ASSUME NEW m \in Services, Initialize(m) PROVE P
  <2> DEFINE fields == FieldsOf(m, subsets.bound)
             targets == {QN(d) : d \in Range(fields)}
  <2>1. UNCHANGED <<world, spoilt, subsets>>
    BY <1>1 DEF Initialize
  <2>2. CASE er[m].pending \o fields = << >>
    <3> DEFINE e == [er[m] EXCEPT !.version = Bumped(@)]
    <3>1. pc' = [pc EXCEPT ![m] = "ready"] /\ er' = [er EXCEPT ![m] = e] /\ work' = work
      BY <1>1, <2>2 DEF Initialize
    <3>2. e.loaders = er[m].loaders /\ e.reg = er[m].reg
      BY <1>b DEF ManagerFields
    <3>3. fields = << >>
      <4>1. fields \in Seq(FieldDecl)
        BY FieldsFacts DEF FedInv, SubsetsType
      <4>2. er[m].pending \in Seq(RemoteDecl)
        BY DEF FedInv, ManagerInv, ToWire
      <4>. HIDE DEF fields
      <4>. QED BY <2>2, <4>1, <4>2
    <3>. HIDE DEF e, fields
    <3>4. spoilt' = [spoilt EXCEPT ![m] = spoilt[m]] /\ work' = [work EXCEPT ![m] = work[m]]
      BY <1>e, <2>1, <3>1
    <3>5. \A n \in Services : Quiet(n)
      BY QuietMember, <3>1, <3>2, <3>3, <3>4 DEF Running, fields
    <3>. QED BY <2>1, <3>5
  <2>3. CASE er[m].pending \o fields # << >>
    <3>1. PICK v : er' = [er EXCEPT ![m].mounted = v]
      BY <1>1, <2>3 DEF Initialize
    <3>2. PICK q, s : work' = [work EXCEPT ![m] =
                        [NoWork EXCEPT !.queue = q, !.endpoints = s, !.targets = targets]]
      BY <1>1, <2>3 DEF Initialize
    <3>3. pc' = [pc EXCEPT ![m] = "fetch"]
      BY <1>1, <2>3 DEF Initialize
    <3> DEFINE e == [er[m] EXCEPT !.mounted = v]
               k == [NoWork EXCEPT !.queue = q, !.endpoints = s, !.targets = targets]
    <3>4. e.loaders = er[m].loaders /\ e.reg = er[m].reg /\ er' = [er EXCEPT ![m] = e]
      BY <1>b, <3>1 DEF ManagerFields
    <3>5. k.targets = targets /\ work' = [work EXCEPT ![m] = k]
      BY <3>2 DEF NoWork
    <3>. HIDE DEF e, k
    <3>6. spoilt' = [spoilt EXCEPT ![m] = spoilt[m]]
      BY <1>e, <2>1
    <3>7. \A n \in Services : Quiet(n)
      BY QuietMember, <3>3, <3>4, <3>5, <3>6
    <3>. QED BY <2>1, <3>7
  <2>. QED BY <2>2, <2>3
<1>2. ASSUME NEW m \in Services, Discover(m) PROVE P
  <2>1. UNCHANGED <<world, er, subsets>>
    BY <1>2 DEF Discover
  <2>2. CASE Fails(m)
    BY <2>1, <2>2, QuietLocals
  <2>3. ASSUME NEW qn, NEW a, Follow(m, qn, a) PROVE P
    BY <2>1, <2>3, QuietFollow
  <2>4. ASSUME NEW q, work' = [work EXCEPT ![m].queue = q], UNCHANGED <<pc, spoilt>> PROVE P
    <3> DEFINE k == [work[m] EXCEPT !.queue = q]
    <3>1. work' = [work EXCEPT ![m] = k] /\ k.targets = work[m].targets
      BY <1>b, <2>4 DEF WorkFields
    <3>. HIDE DEF k
    <3>. QED BY <2>1, <2>4, <3>1, QuietLocals
  <2>5. \/ Fails(m)
        \/ \E qn, a : Follow(m, qn, a)
        \/ (\E q : work' = [work EXCEPT ![m].queue = q]) /\ UNCHANGED <<pc, spoilt>>
    BY <1>2 DEF Discover
  <2>. QED BY <2>2, <2>3, <2>4, <2>5
<1>3. ASSUME NEW m \in Services, FetchFragments(m) PROVE P
  <2>1. UNCHANGED <<world, er, subsets>>
    BY <1>3 DEF FetchFragments
  <2>2. CASE Fails(m)
    BY <2>1, <2>2, QuietLocals
  <2>3. ASSUME NEW qn, NEW a, Follow(m, qn, a) PROVE P
    BY <2>1, <2>3, QuietFollow
  <2>. QED BY <1>3, <2>2, <2>3 DEF FetchFragments
<1>4. ASSUME NEW m \in Services, TransportRaises(m) PROVE P
  BY <1>4, QuietLocals DEF TransportRaises
<1>5. ASSUME NEW m \in Services, MaterializeTypes(m) PROVE P
  <2>1. UNCHANGED <<world, subsets>> /\ pc[m] = "fetch"
    BY <1>5 DEF MaterializeTypes
  <2>2. CASE Fails(m) /\ er' = er
    BY <2>1, <2>2, QuietLocals
  <2>3. ASSUME NEW v, NEW u, er' = [er EXCEPT ![m].fed = v], work' = [work EXCEPT ![m].asking = u],
               pc' = [pc EXCEPT ![m] = "dtos"], spoilt' = spoilt
        PROVE  P
    <3> DEFINE e == [er[m] EXCEPT !.fed = v]
               k == [work[m] EXCEPT !.asking = u]
    <3>1. e.loaders = er[m].loaders /\ e.reg = er[m].reg /\ er' = [er EXCEPT ![m] = e]
      BY <1>b, <2>3 DEF ManagerFields
    <3>2. k.targets = work[m].targets /\ work' = [work EXCEPT ![m] = k]
      BY <1>b, <2>3 DEF WorkFields
    <3>. HIDE DEF e, k
    <3>3. spoilt' = [spoilt EXCEPT ![m] = spoilt[m]] /\ pc[m] \in Running
      BY <1>e, <2>1, <2>3 DEF Running
    <3>5. DOMAIN er[m].reg \subseteq DOMAIN e.reg
      BY <3>1
    <3> DEFINE p == "dtos"
    <3>6. /\ p = "ready" => pc[m] = "ready" \/ FieldsOf(m, subsets.bound) = << >>
          /\ p \in Running =>
               \/ pc[m] \in Running /\ k.targets = work[m].targets
               \/ k.targets = {QN(d) : d \in Range(FieldsOf(m, subsets.bound))}
      BY <3>2, <3>3
    <3>7. pc' = [pc EXCEPT ![m] = p]
      BY <2>3
    <3>. HIDE DEF p
    <3>4. \A n \in Services : Quiet(n)
      BY QuietMember, <3>1, <3>2, <3>3, <3>5, <3>6, <3>7
    <3>. QED BY <2>1, <3>4
  <2>. QED BY <1>5, <2>2, <2>3 DEF MaterializeTypes
<1>6. ASSUME NEW m \in Services, NEW s \in work[m].asking, AskDtos(m, s) PROVE P
  <2>1. UNCHANGED <<world, er, subsets>>
    BY <1>6 DEF AskDtos
  <2>2. CASE Fails(m)
    BY <2>1, <2>2, QuietLocals
  <2>3. ASSUME NEW u, work' = [work EXCEPT ![m].asking = u], UNCHANGED <<pc, spoilt>> PROVE P
    <3> DEFINE k == [work[m] EXCEPT !.asking = u]
    <3>1. work' = [work EXCEPT ![m] = k] /\ k.targets = work[m].targets
      BY <1>b, <2>3 DEF WorkFields
    <3>. HIDE DEF k
    <3>. QED BY <2>1, <2>3, <3>1, QuietLocals
  <2>4. ASSUME NEW u, NEW d, work' = [work EXCEPT ![m].asking = u, ![m].dtos = d],
               UNCHANGED <<pc, spoilt>>
        PROVE  P
    <3> DEFINE k == [work[m] EXCEPT !.asking = u, !.dtos = d]
    <3>1. work' = [work EXCEPT ![m] = k] /\ k.targets = work[m].targets
      BY <1>b, <2>4 DEF WorkFields
    <3>. HIDE DEF k
    <3>. QED BY <2>1, <2>4, <3>1, QuietLocals
  <2>. QED BY <1>6, <2>2, <2>3, <2>4 DEF AskDtos
<1>7. ASSUME NEW m \in Services, AddVirtualEntities(m) PROVE P
  <2>1. UNCHANGED <<world, pc, work, subsets>>
    BY <1>7 DEF AddVirtualEntities
  <2>2. PICK new, q :
          /\ \A c \in DOMAIN new : c.try = 0 /\ \A n \in DOMAIN new[c] : new[c][n].kind = "custom"
          /\ \E b \in BOOLEAN :
               /\ er' = [er EXCEPT ![m].virtual = << >>, ![m].pending = @ \o q,
                           ![m].reg = Updated(@, new), ![m].version = IF b THEN @ ELSE Bumped(@)]
               /\ spoilt' = [spoilt EXCEPT ![m] = @ \/ b]
               /\ entities' = entities
    BY <1>7, AddedParts
  <2>a. PICK b \in BOOLEAN :
          /\ er' = [er EXCEPT ![m].virtual = << >>, ![m].pending = @ \o q,
                      ![m].reg = Updated(@, new), ![m].version = IF b THEN @ ELSE Bumped(@)]
          /\ spoilt' = [spoilt EXCEPT ![m] = @ \/ b]
    BY <2>2
  <2> DEFINE reg == Updated(er[m].reg, new)
             e == [er[m] EXCEPT !.virtual = << >>, !.pending = @ \o q, !.reg = reg,
                                !.version = IF b THEN @ ELSE Bumped(@)]
             c == spoilt[m] \/ b
  <2>3. DOMAIN er[m].reg \subseteq DOMAIN reg
    BY DEF Updated
  <2>4. er' = [er EXCEPT ![m] = e] /\ spoilt' = [spoilt EXCEPT ![m] = c]
    BY <2>a
  <2>5. spoilt[m] => c
    OBVIOUS
  <2>. HIDE DEF reg, c
  <2>6. e.loaders = er[m].loaders /\ e.reg = reg
    BY <1>b DEF ManagerFields
  <2>. HIDE DEF e
  <2>7. pc' = [pc EXCEPT ![m] = pc[m]] /\ work' = [work EXCEPT ![m] = work[m]]
    BY <1>e, <2>1
  <2>8. \A n \in Services : Quiet(n)
    BY QuietMember, <2>3, <2>4, <2>5, <2>6, <2>7
  <2>. QED BY <2>1, <2>8
<1>8. ASSUME NEW m \in Services, CreateResolver(m) PROVE P
  <2> DEFINE e == [er[m] EXCEPT !.frozen = TRUE]
  <2>1. UNCHANGED <<world, pc, work, spoilt, subsets>> /\ er' = [er EXCEPT ![m] = e]
    BY <1>8 DEF CreateResolver
  <2>2. e.loaders = er[m].loaders /\ e.reg = er[m].reg
    BY <1>b DEF ManagerFields
  <2>. HIDE DEF e
  <2>3. /\ pc' = [pc EXCEPT ![m] = pc[m]] /\ work' = [work EXCEPT ![m] = work[m]]
        /\ spoilt' = [spoilt EXCEPT ![m] = spoilt[m]]
    BY <1>e, <2>1
  <2>4. DOMAIN er[m].reg \subseteq DOMAIN e.reg
    BY <2>2
  <2> DEFINE p == pc[m]
             k == work[m]
             b == spoilt[m]
  <2>6. /\ p = "ready" => pc[m] = "ready" \/ FieldsOf(m, subsets.bound) = << >>
        /\ p \in Running =>
             \/ pc[m] \in Running /\ k.targets = work[m].targets
             \/ k.targets = {QN(d) : d \in Range(FieldsOf(m, subsets.bound))}
        /\ spoilt[m] => b
    OBVIOUS
  <2>7. /\ pc' = [pc EXCEPT ![m] = p] /\ work' = [work EXCEPT ![m] = k]
        /\ spoilt' = [spoilt EXCEPT ![m] = b] /\ er' = [er EXCEPT ![m] = e]
    BY <2>1, <2>3
  <2>. HIDE DEF p, k, b
  <2>5. \A n \in Services : Quiet(n)
    BY QuietMember, <2>2, <2>4, <2>6, <2>7
  <2>. QED BY <2>1, <2>5
<1>9. ASSUME NEW m \in Services, NEW k \in Renderings, ReadSchema(m, k) PROVE P
  BY <1>a, <1>9 DEF ReadSchema
<1>10. ASSUME Compose PROVE P
  BY <1>a, <1>10 DEF Compose
<1>11. ASSUME UNCHANGED vars PROVE P
  BY <1>a, <1>11 DEF vars
<1>. HIDE DEF P
<1>12. ASSUME Next PROVE P
  <2>1. PICK m \in Services :
          \/ Initialize(m) \/ BringUp(m) \/ TransportRaises(m)
          \/ AddVirtualEntities(m) \/ CreateResolver(m) \/ Compose
          \/ \E k \in Renderings : ReadSchema(m, k)
    BY <1>12 DEF Next
  <2>2. ASSUME BringUp(m) PROVE P
    BY <1>2, <1>3, <1>5, <1>6, <2>2 DEF BringUp
  <2>. QED BY <1>1, <1>4, <1>7, <1>8, <1>9, <1>10, <2>1, <2>2
<1>13. P
  BY <1>11, <1>12
<1>. QED BY <1>13 DEF P


\* What Wire leaves of the others, and gives its own manager.
LEMMA WireEffect ==
  ASSUME FedInv, NEW m \in Services, Wire(m)
  PROVE  /\ Wiring(m) /\ world' = world
         /\ \A n \in Services : n # m => /\ er'[n] = er[n] /\ pc'[n] = pc[n]
                                         /\ work'[n] = work[n] /\ spoilt'[n] = spoilt[n]
         /\ \E done \in Federated(m) :
              /\ subsets' = done.subsets /\ er'[m].fed = done.fed /\ er'[m].reg = done.reg
              /\ er'[m].loaders = done.loaders
              /\ pc'[m] = IF done.ok THEN "ready" ELSE "failed"
              /\ spoilt'[m] = IF done.ok THEN spoilt[m] ELSE TRUE
<1>1. pc[m] = "dtos" /\ world' = world
  BY DEF Wire
<1>2. Wiring(m)
  BY <1>1 DEF Wiring
<1>3. PICK done \in Federated(m) :
        /\ subsets' = done.subsets
        /\ er' = [er EXCEPT ![m].fed = done.fed, ![m].reg = done.reg,
                    ![m].loaders = done.loaders,
                    ![m].pending = IF done.ok THEN << >> ELSE @,
                    ![m].version = IF done.ok THEN Bumped(@) ELSE @]
        /\ IF done.ok
           THEN /\ pc' = [pc EXCEPT ![m] = "ready"]
                /\ work' = [work EXCEPT ![m] = NoWork]
                /\ UNCHANGED spoilt
           ELSE Fails(m)
  BY DEF Wire
<1> DEFINE e == [er[m] EXCEPT !.fed = done.fed, !.reg = done.reg, !.loaders = done.loaders,
                   !.pending = IF done.ok THEN << >> ELSE @,
                   !.version = IF done.ok THEN Bumped(@) ELSE @]
           p == IF done.ok THEN "ready" ELSE "failed"
           b == IF done.ok THEN spoilt[m] ELSE TRUE
<1>4. /\ PerService(pc) /\ PerService(er) /\ PerService(work) /\ spoilt \in [Services -> BOOLEAN]
      /\ DOMAIN er[m] = ManagerFields
  BY DEF FedInv, ManagerInv
<1>5. er' = [er EXCEPT ![m] = e]
  BY <1>3
<1>6. pc' = [pc EXCEPT ![m] = p] /\ work' = [work EXCEPT ![m] = NoWork]
  BY <1>3 DEF Fails
<1>7. spoilt' = [spoilt EXCEPT ![m] = b]
  <2>1. CASE done.ok
    BY <1>3, <1>4, <2>1
  <2>2. CASE ~done.ok
    BY <1>3, <2>2 DEF Fails
  <2>. QED BY <2>1, <2>2
<1>8. e.fed = done.fed /\ e.reg = done.reg /\ e.loaders = done.loaders
  BY <1>4 DEF ManagerFields
<1>. HIDE DEF e, p, b
<1>9. er'[m] = e /\ pc'[m] = p /\ spoilt'[m] = b
  BY <1>4, <1>5, <1>6, <1>7 DEF PerService
<1>10. \A n \in Services : n # m => /\ er'[n] = er[n] /\ pc'[n] = pc[n]
                                    /\ work'[n] = work[n] /\ spoilt'[n] = spoilt[n]
  BY <1>4, <1>5, <1>6, <1>7 DEF PerService
<1>11. \E d \in Federated(m) :
              /\ subsets' = d.subsets /\ er'[m].fed = d.fed /\ er'[m].reg = d.reg
              /\ er'[m].loaders = d.loaders
              /\ pc'[m] = IF d.ok THEN "ready" ELSE "failed"
              /\ spoilt'[m] = IF d.ok THEN spoilt[m] ELSE TRUE
  BY <1>3, <1>8, <1>9 DEF p, b
<1>. QED BY <1>1, <1>2, <1>10, <1>11

\* A subset of a service is bound by the call of its owner, and to a class of
\* an entity, which is registered.
LEMMA SubsetStep ==
  ASSUME \A w \in Worlds : SubsetsOfEntities(w),
         FedInv, SubsetInv, EachMountsItsOwn', [Next]_vars
  PROVE  SubsetInv'
<1> DEFINE ws == world.subsets
<1>1. world \in Worlds /\ SubsetsType(world, subsets)
  BY DEF FedInv
<1>2. \A i \in DOMAIN ws : ws[i].owner \in Services
  <2>1. ws \in Seq(SubsetDecl)
    BY <1>1, FederationAssumption DEF Accepted
  <2>2. \A i \in DOMAIN ws : ws[i] \in SubsetDecl
    BY <2>1
  <2>. QED BY <2>2 DEF SubsetDecl
<1>3. CASE \A m \in Services : ~Wire(m)
  <2>1. subsets' = subsets /\ world' = world /\ \A n \in Services : Quiet(n)
    BY <1>3, QuietSteps
  <2>2. \A n \in Services : /\ spoilt[n] => spoilt'[n]
                            /\ DOMAIN er[n].reg \subseteq DOMAIN er'[n].reg
    BY <2>1 DEF Quiet
  <2>. QED BY <1>2, <2>1, <2>2 DEF SubsetInv
<1>4. ASSUME NEW m \in Services, Wire(m) PROVE SubsetInv'
  <2>1. /\ Wiring(m) /\ world' = world
        /\ \A n \in Services : n # m => er'[n] = er[n] /\ spoilt'[n] = spoilt[n]
    BY <1>4, WireEffect
  <2>2. PICK done \in Federated(m) :
              /\ subsets' = done.subsets /\ er'[m].fed = done.fed /\ er'[m].reg = done.reg
              /\ spoilt'[m] = IF done.ok THEN spoilt[m] ELSE TRUE
    BY <1>4, WireEffect
  <2>a. PICK now : Changes(m, done, now)
    BY <2>1, SubsetsChange
  <2>3.
    /\ now \subseteq Range(subsets.pending) /\ now \subseteq DOMAIN ws
    /\ \A i \in now : /\ Mounts(done.fed, ws[i].svc) /\ QN(ws[i]) \in done.fed.types
                      /\ \A d \in Range(ws[i].fields) : Key(d) \in DOMAIN done.subsets.anno
    /\ \A i \in DOMAIN ws : done.subsets.bound[i] =
         IF i \in now THEN Append(subsets.bound[i], Class(m, done.fed, QN(ws[i])))
         ELSE subsets.bound[i]
    /\ DOMAIN subsets.anno \subseteq DOMAIN done.subsets.anno
    /\ Range(done.subsets.pending) \subseteq Range(subsets.pending)
    /\ Once(subsets.pending) =>
         /\ Once(done.subsets.pending)
         /\ done.ok => Range(done.subsets.pending) \cap now = {}
    BY <2>a DEF Changes
  <2>4. /\ DOMAIN er[m].reg \subseteq DOMAIN done.reg /\ done.ok \in BOOLEAN
        /\ done.fed.types \subseteq DOMAIN work[m].fragments \cup DOMAIN work[m].dtos
        /\ done.ok => {Class(m, done.fed, qn) : qn \in DOMAIN work[m].fragments}
                        \subseteq DOMAIN done.reg
    <3>1. WireInv(m, done)
          /\ (done.ok => {Class(m, done.fed, qn) : qn \in DOMAIN work[m].fragments}
                           \subseteq DOMAIN done.reg)
      BY <2>1, FederatedChain
    <3>. QED BY <3>1 DEF WireInv
  <2>5. \A i \in now : ws[i].owner = m
    BY <2>1, <2>2, <2>3 DEF EachMountsItsOwn
  <2>6. Once(subsets'.pending)
    BY <2>2, <2>3 DEF SubsetInv
  <2>7. ASSUME NEW i \in DOMAIN ws, ~spoilt'[ws[i].owner]
        PROVE  /\ i \in Range(subsets'.pending) => subsets'.bound[i] = << >>
               /\ subsets'.bound[i] # << >> =>
                    /\ Len(subsets'.bound[i]) = 1
                    /\ subsets'.bound[i][1] \in DOMAIN er'[ws[i].owner].reg
                    /\ \A d \in Range(ws[i].fields) : Key(d) \in DOMAIN subsets'.anno
    <3> DEFINE b == subsets.bound[i]
               o == ws[i].owner
    <3>1. o \in Services /\ (o # m => er'[o] = er[o] /\ spoilt'[o] = spoilt[o])
      BY <1>2, <2>1
    <3>2. (o = m => done.ok) /\ ~spoilt[o]
      BY <2>2, <2>7, <3>1
    <3>3. /\ i \in Range(subsets.pending) => b = << >>
          /\ b # << >> => /\ Len(b) = 1 /\ b[1] \in DOMAIN er[o].reg
                          /\ \A d \in Range(ws[i].fields) : Key(d) \in DOMAIN subsets.anno
      BY <3>2 DEF SubsetInv
    <3>4. DOMAIN er[o].reg \subseteq DOMAIN er'[o].reg
      BY <2>2, <2>4, <3>1
    <3>5. CASE i \notin now
      <4>1. subsets'.bound[i] = b
        BY <2>2, <2>3, <3>5
      <4>2. i \in Range(subsets'.pending) => i \in Range(subsets.pending)
        BY <2>2, <2>3
      <4>3. DOMAIN subsets.anno \subseteq DOMAIN subsets'.anno
        BY <2>2, <2>3
      <4>. HIDE DEF b, o
      <4>4. i \in Range(subsets'.pending) => subsets'.bound[i] = << >>
        BY <3>3, <4>1, <4>2
      <4>5. ASSUME subsets'.bound[i] # << >>
            PROVE  /\ Len(subsets'.bound[i]) = 1
                   /\ subsets'.bound[i][1] \in DOMAIN er'[o].reg
                   /\ \A d \in Range(ws[i].fields) : Key(d) \in DOMAIN subsets'.anno
        <5>1. /\ Len(b) = 1 /\ b[1] \in DOMAIN er[o].reg
              /\ \A d \in Range(ws[i].fields) : Key(d) \in DOMAIN subsets.anno
          BY <3>3, <4>1, <4>5
        <5>. QED BY <3>4, <4>1, <4>3, <5>1
      <4>. QED BY <4>4, <4>5 DEF o
    <3>6. CASE i \in now
      <4>1. o = m /\ done.ok
        BY <2>5, <3>2, <3>6
      <4>2. i \notin Range(subsets'.pending)
        BY <2>2, <2>3, <3>6, <4>1 DEF SubsetInv
      <4>3. b = << >>
        BY <2>3, <3>3, <3>6
      <4> DEFINE c == Class(m, done.fed, QN(ws[i]))
      <4>4. subsets'.bound[i] = Append(b, c)
        BY <2>2, <2>3, <3>6
      <4>5. QN(ws[i]) \in DOMAIN work[m].fragments
        <5>1. QN(ws[i])[2] = ws[i].type
          BY DEF QN
        <5>2. ~Told(world, QN(ws[i]))
          BY <1>1, <5>1 DEF SubsetsOfEntities, Told
        <5>3. \A qn \in DOMAIN work[m].dtos : Told(world, qn)
          BY <2>1, WiringFacts DEF WorkInv
        <5>. QED BY <2>3, <2>4, <3>6, <5>2, <5>3
      <4>6. c \in DOMAIN done.reg
        BY <2>4, <4>1, <4>5
      <4>. HIDE DEF b, c
      <4>7. subsets'.bound[i] = <<c>>
        BY <4>3, <4>4
      <4>8. Len(subsets'.bound[i]) = 1 /\ subsets'.bound[i][1] = c
        BY <4>7
      <4>9. c \in DOMAIN er'[o].reg
        BY <2>2, <4>1, <4>6
      <4>10. \A d \in Range(ws[i].fields) : Key(d) \in DOMAIN subsets'.anno
        BY <2>2, <2>3, <3>6
      <4>. QED BY <4>2, <4>8, <4>9, <4>10
    <3>. QED BY <3>5, <3>6
  <2>. QED BY <2>1, <2>6, <2>7 DEF SubsetInv
<1>. QED BY <1>3, <1>4


\* No subset is bound yet.
LEMMA SubsetInit == Init => SubsetInv
<1>. SUFFICES ASSUME Init PROVE SubsetInv
  OBVIOUS
<1>1. /\ subsets.pending = [i \in DOMAIN world.subsets |-> i]
      /\ subsets.bound = [i \in DOMAIN world.subsets |-> << >>]
  BY DEF Init
<1>2. Once(subsets.pending)
  BY <1>1 DEF Once
<1>3. \A i \in DOMAIN world.subsets : subsets.bound[i] = << >>
  BY <1>1
<1>. QED BY <1>2, <1>3 DEF SubsetInv

\* While no service mounts what another's subsets are made of, a subset is
\* bound once and wholly, to a class of the registry that serves it.
THEOREM SubsetsBind ==
  ASSUME \A w \in Worlds : SubsetsOfEntities(w)
  PROVE  Spec /\ []EachMountsItsOwn => []SubsetsBoundTogether
<1>1. FedInv /\ SubsetInv => SubsetsBoundTogether
  <2>. SUFFICES ASSUME FedInv, SubsetInv, NEW i \in DOMAIN world.subsets,
                       subsets.bound[i] # << >>, ~spoilt[world.subsets[i].owner]
                PROVE  LET s == world.subsets[i]
                           b == subsets.bound[i]
                       IN /\ Len(b) = 1
                          /\ \A k \in DOMAIN s.fields :
                               <<s.fields[k].dto, s.fields[k].name>> \in DOMAIN subsets.anno
                          /\ pc[s.owner] = "ready" => b[1] \in DOMAIN er[s.owner].reg
    BY DEF SubsetsBoundTogether
  <2>1. /\ Len(subsets.bound[i]) = 1 /\ subsets.bound[i][1] \in DOMAIN er[world.subsets[i].owner].reg
        /\ \A d \in Range(world.subsets[i].fields) : Key(d) \in DOMAIN subsets.anno
    BY DEF SubsetInv
  <2>. QED BY <2>1 DEF Range, Key
<1>2. FedInv /\ SubsetInv /\ EachMountsItsOwn' /\ [Next]_vars => SubsetInv'
  BY SubsetStep
<1>. QED BY <1>1, <1>2, SubsetInit, FedInit, FedStep, PTL DEF Spec

\* The last step of a call wires each field with the class it annotates, and
\* leaves those of the other services.
LEMMA FieldStep ==
  ASSUME \A w \in Worlds : FieldsOnce(w),
         FedInv, FieldInv, EachMountsItsOwn', [Next]_vars
  PROVE  FieldInv'
<1> DEFINE ws == world.subsets
           Now(n) == FieldsWired(world, n, subsets, pc[n], er[n], work[n])
<1>1. /\ world \in Worlds /\ SubsetsType(world, subsets) /\ DOMAIN subsets.bound = DOMAIN ws
  BY DEF FedInv, SubsetsType
<1>2. \A n \in Services : Now(n)
  BY DEF FieldInv
<1>3. CASE \A m \in Services : ~Wire(m)
  <2>1. subsets' = subsets /\ world' = world /\ \A n \in Services : Quiet(n)
    BY <1>3, QuietSteps
  <2>2. ASSUME NEW n \in Services
        PROVE  FieldsWired(world, n, subsets, pc'[n], er'[n], work'[n])
    <3> DEFINE ds == Declares(world, n, subsets.bound)
    <3>1. Range(FieldsOf(n, subsets.bound)) = ds
      BY <1>1, FieldsFacts
    <3>2. FieldsOf(n, subsets.bound) = << >> => ds = {}
      BY <3>1 DEF Range
    <3>3. Quiet(n) /\ Now(n)
      BY <1>2, <2>1
    <3>4. pc'[n] = "ready" => pc[n] = "ready" \/ ds = {}
      BY <3>2, <3>3 DEF Quiet
    <3>5. pc'[n] \in Running => \/ pc[n] \in Running /\ work'[n].targets = work[n].targets
                                \/ work'[n].targets = {QN(d) : d \in ds}
      BY <3>1, <3>3 DEF Quiet
    <3>6. er'[n].loaders = er[n].loaders
      BY <3>3 DEF Quiet
    <3>7. /\ pc[n] \in Running => \A d \in ds : QN(d) \in work[n].targets
          /\ pc[n] = "ready" =>
               \A d \in ds : /\ Key(d) \in DOMAIN er[n].loaders /\ Key(d) \in DOMAIN subsets.anno
                             /\ subsets.anno[Key(d)] = er[n].loaders[Key(d)]
      BY <3>3 DEF FieldsWired
    <3>. HIDE DEF ds
    <3>8. pc'[n] \in Running => \A d \in ds : QN(d) \in work'[n].targets
      BY <3>5, <3>7
    <3>9. pc'[n] = "ready" =>
               \A d \in ds : /\ Key(d) \in DOMAIN er'[n].loaders /\ Key(d) \in DOMAIN subsets.anno
                             /\ subsets.anno[Key(d)] = er'[n].loaders[Key(d)]
      BY <3>4, <3>6, <3>7
    <3>. QED BY <3>8, <3>9 DEF FieldsWired, ds
  <2>. QED BY <2>1, <2>2 DEF FieldInv
<1>4. ASSUME NEW m \in Services, Wire(m) PROVE FieldInv'
  <2>1. /\ Wiring(m) /\ world' = world
        /\ \A n \in Services : n # m => /\ er'[n] = er[n] /\ pc'[n] = pc[n]
                                        /\ work'[n] = work[n]
    BY <1>4, WireEffect
  <2>2. PICK done \in Federated(m) :
              /\ subsets' = done.subsets /\ er'[m].fed = done.fed
              /\ er'[m].loaders = done.loaders
              /\ pc'[m] = IF done.ok THEN "ready" ELSE "failed"
    BY <1>4, WireEffect
  <2>3. PICK now : Changes(m, done, now)
    BY <2>1, SubsetsChange
  <2>4. \A i \in now : ws[i].owner = m /\ i \in DOMAIN ws
    BY <2>1, <2>2, <2>3 DEF EachMountsItsOwn, Changes
  <2> DEFINE mine == Declares(world, m, done.subsets.bound)
  <2>5. Range(FieldsOf(m, done.subsets.bound)) = mine
    <3>1. WireInv(m, done)
      BY <2>1, FederatedChain
    <3>2. DOMAIN done.subsets.bound = DOMAIN ws
      BY <3>1 DEF WireInv, SubsetsType
    <3>. QED BY <3>2, FieldsFacts
\* The fields of others stay, and so do their classes.
  <2>6. ASSUME NEW n \in Services, n # m
        PROVE  FieldsWired(world, n, done.subsets, pc[n], er[n], work[n])
    <3> DEFINE ds == Declares(world, n, subsets.bound)
    <3>1. \A i \in DOMAIN ws : ws[i].owner = n => done.subsets.bound[i] = subsets.bound[i]
      BY <2>3, <2>4, <2>6 DEF Changes
    <3>2. Declares(world, n, done.subsets.bound) = ds
      BY <3>1 DEF Declares
    <3>3. ds \subseteq FieldsAt(world, n) /\ mine \subseteq FieldsAt(world, m)
      BY DEF Declares, FieldsAt
    <3>4. (UNION {Range(ws[i].fields) : i \in now}) \subseteq FieldsAt(world, m)
      BY <2>4 DEF FieldsAt
    <3>5. \A d \in ds, f \in FieldsAt(world, m) : Key(d) # Key(f)
      BY <1>1, <2>6, <3>3 DEF FieldsOnce
    <3>6. ASSUME NEW d \in ds, Key(d) \in DOMAIN subsets.anno
          PROVE  Key(d) \in DOMAIN done.subsets.anno
                 /\ done.subsets.anno[Key(d)] = subsets.anno[Key(d)]
      <4>. HIDE DEF ds, mine
      <4>1. \/ done.subsets.anno[Key(d)] = subsets.anno[Key(d)]
            \/ \E f \in (UNION {Range(ws[i].fields) : i \in now}) \cup mine : Key(d) = Key(f)
        BY <2>3, <2>5, <3>6 DEF Changes
      <4>2. Key(d) \in DOMAIN done.subsets.anno
        BY <2>3, <3>6 DEF Changes
      <4>. QED BY <3>3, <3>4, <3>5, <4>1, <4>2
    <3>7. Now(n)
      BY <1>2
    <3>8. /\ pc[n] \in Running => \A d \in ds : QN(d) \in work[n].targets
          /\ pc[n] = "ready" =>
               \A d \in ds : /\ Key(d) \in DOMAIN er[n].loaders /\ Key(d) \in DOMAIN subsets.anno
                             /\ subsets.anno[Key(d)] = er[n].loaders[Key(d)]
      BY <3>7 DEF FieldsWired
    <3>. HIDE DEF ds
    <3>9. pc[n] = "ready" =>
               \A d \in ds : /\ Key(d) \in DOMAIN er[n].loaders /\ Key(d) \in DOMAIN done.subsets.anno
                             /\ done.subsets.anno[Key(d)] = er[n].loaders[Key(d)]
      BY <3>6, <3>8
    <3>. QED BY <3>2, <3>8, <3>9 DEF FieldsWired
\* Every field of m is of a mounted service: a target, or just bound.
  <2>7. FieldsWired(world, m, done.subsets, pc'[m], er'[m], work'[m])
    <3>1. CASE ~done.ok
      BY <2>2, <3>1 DEF FieldsWired, Running
    <3>2. CASE done.ok
      <4>1. PICK s1, s2, s3, s4 :
           /\ WireInv(m, s2) /\ WireInv(m, s3)
           /\ s3 = IF s2.ok THEN ResolveFields(m, s2) ELSE s2
           /\ s4 = IF s3.ok THEN WireFields(m, s3) ELSE s3
           /\ s2.fed = s1.fed /\ s3.fed = s1.fed /\ done.fed = s3.fed
           /\ done.subsets = s3.subsets /\ done.loaders = s4.loaders
           /\ s2.ok /\ s3.ok /\ s4.ok
        BY <2>1, <3>2, FederatedChain
      <4>2. WireInv(m, done)
        BY <2>1, FederatedChain
      <4>3. ASSUME NEW d \in mine PROVE d.svc \in DOMAIN work[m].endpoints
        <5>1. /\ WorkInv(world, pc[m], tries[m], er[m], work[m]) /\ pc[m] = "dtos"
          BY <2>1, WiringFacts DEF Wiring
        <5>2. /\ \A qn \in work[m].targets : qn[1] \in DOMAIN work[m].endpoints
              /\ \A qn \in DOMAIN work[m].fragments \cup DOMAIN work[m].dtos :
                   qn[1] \in DOMAIN work[m].endpoints
          BY <5>1 DEF WorkInv
        <5>3. QN(d)[1] = d.svc
          BY DEF QN
        <5>4. CASE d \in Declares(world, m, subsets.bound)
          <6>1. Now(m)
            BY <1>2
          <6>2. QN(d) \in work[m].targets
            BY <5>1, <5>4, <6>1 DEF FieldsWired, Running
          <6>. QED BY <5>2, <5>3, <6>2
        <5>5. CASE d \notin Declares(world, m, subsets.bound)
          <6>1. PICK i \in DOMAIN ws : /\ ws[i].owner = m /\ done.subsets.bound[i] # << >>
                                       /\ d \in Range(ws[i].fields) /\ ~(subsets.bound[i] # << >>)
            BY <5>5 DEF Declares
          <6>2. i \in now
            BY <2>3, <6>1 DEF Changes
          <6>3. QN(d) \in done.fed.types
            BY <2>3, <6>1, <6>2 DEF Changes
          <6>4. QN(d) \in DOMAIN work[m].fragments \cup DOMAIN work[m].dtos
            BY <4>2, <6>3 DEF WireInv
          <6>. QED BY <5>2, <5>3, <6>4
        <5>. QED BY <5>4, <5>5
      <4> DEFINE own == Annotated(m, done.fed, mine)
                 here == {d \in mine : d.svc \in DOMAIN work[m].endpoints}
      <4>4. /\ s3.subsets.bound = s2.subsets.bound
            /\ s3.subsets.anno = Updated(s2.subsets.anno,
                 Annotated(m, s2.fed, Range(FieldsOf(m, s2.subsets.bound))))
        <5> DEFINE r == ResolveFields(m, s2)
        <5>1. Wiring(m)
          BY <2>1, WiringFacts
        <5>2. /\ r.subsets.bound = s2.subsets.bound
              /\ r.subsets.anno = Updated(s2.subsets.anno,
                   Annotated(m, s2.fed, Range(FieldsOf(m, s2.subsets.bound))))
          BY <4>1, <5>1, ResolveFieldsPart
        <5>3. s3 = r
          BY <4>1
        <5>. HIDE DEF r
        <5>. QED BY <5>2, <5>3
      <4>5. done.subsets.anno = Updated(s2.subsets.anno, own)
        <5>1. s2.subsets.bound = done.subsets.bound /\ s2.fed = done.fed
          BY <4>1, <4>4
        <5>. QED BY <2>5, <4>1, <4>4, <5>1
      <4>6. here = mine
        BY <4>3
      <4>7. /\ s4.loaders = Updated(s3.loaders, Annotated(m, s3.fed, here))
            /\ \A d \in here : QN(d) \in s3.fed.types
        <5> DEFINE r == WireFields(m, s3)
                   there == {d \in Range(FieldsOf(m, s3.subsets.bound)) :
                               d.svc \in DOMAIN work[m].endpoints}
        <5>1. Wiring(m)
          BY <2>1, WiringFacts
        <5>2. r.ok => /\ r.loaders = Updated(s3.loaders, Annotated(m, s3.fed, there))
                      /\ \A d \in there : QN(d) \in s3.fed.types
          BY <4>1, <5>1, WireFieldsPart
        <5>3. s4 = r /\ s4.ok
          BY <4>1
        <5>4. Range(FieldsOf(m, s3.subsets.bound)) = mine
          BY <2>5, <4>1
        <5>5. here = there
          BY <5>4
        <5>. HIDE DEF r, here, there
        <5>. QED BY <5>2, <5>3, <5>5
      <4>8. done.loaders = Updated(s3.loaders, own) /\ \A d \in mine : QN(d) \in done.fed.types
        BY <4>1, <4>6, <4>7
      <4>9. \A d \in mine : Key(d) \in DOMAIN own
        <5>. HIDE DEF mine
        <5>. QED BY <4>8, AnnotatedKeys
      <4>. HIDE DEF own, mine
      <4>10. \A d \in mine : /\ Key(d) \in DOMAIN done.loaders
                             /\ Key(d) \in DOMAIN done.subsets.anno
                             /\ done.subsets.anno[Key(d)] = done.loaders[Key(d)]
        <5> DEFINE a == Updated(s2.subsets.anno, own)
                   l == Updated(s3.loaders, own)
        <5>1. DOMAIN a = DOMAIN s2.subsets.anno \cup DOMAIN own /\ \A k \in DOMAIN own : a[k] = own[k]
          BY UpdatedFacts
        <5>2. DOMAIN l = DOMAIN s3.loaders \cup DOMAIN own /\ \A k \in DOMAIN own : l[k] = own[k]
          BY UpdatedFacts
        <5>3. done.subsets.anno = a /\ done.loaders = l
          BY <4>5, <4>8
        <5>. HIDE DEF a, l
        <5>. QED BY <4>9, <5>1, <5>2, <5>3
      <4>11. pc'[m] = "ready" /\ er'[m].loaders = done.loaders
        BY <2>2, <3>2
      <4>. QED BY <4>10, <4>11 DEF FieldsWired, Running, mine
    <3>. QED BY <3>1, <3>2
  <2>8. \A n \in Services : FieldsWired(world, n, done.subsets, pc'[n], er'[n], work'[n])
    BY <2>1, <2>6, <2>7
  <2>. QED BY <2>1, <2>2, <2>8 DEF FieldInv
<1>. QED BY <1>3, <1>4

\* While no service mounts what another's subsets are made of, the rows a DTO
\* field loads are of the class its annotation names.
THEOREM FieldsMatch ==
  ASSUME \A w \in Worlds : FieldsOnce(w)
  PROVE  Spec /\ []EachMountsItsOwn => []FieldLoadersMatch
<1>1. FedInv /\ FieldInv => FieldLoadersMatch
  <2>. SUFFICES ASSUME FedInv, FieldInv, NEW m \in Services, pc[m] = "ready",
                       NEW i \in DOMAIN FieldsOf(m, subsets.bound)
                PROVE  LET k == <<FieldsOf(m, subsets.bound)[i].dto, FieldsOf(m, subsets.bound)[i].name>>
                       IN k \in DOMAIN er[m].loaders /\ k \in DOMAIN subsets.anno
                          /\ subsets.anno[k] = er[m].loaders[k]
    BY DEF FieldLoadersMatch
  <2> DEFINE d == FieldsOf(m, subsets.bound)[i]
  <2>1. Range(FieldsOf(m, subsets.bound)) = Declares(world, m, subsets.bound)
    BY FieldsFacts DEF FedInv, SubsetsType
  <2>2. d \in Declares(world, m, subsets.bound)
    BY <2>1 DEF Range
  <2>3. FieldsWired(world, m, subsets, pc[m], er[m], work[m])
    BY DEF FieldInv
  <2>. QED BY <2>2, <2>3 DEF FieldsWired, Key
<1>2. FedInv /\ FieldInv /\ EachMountsItsOwn' /\ [Next]_vars => FieldInv'
  BY FieldStep
<1>3. Init => FieldInv
  <2>1. Init => \A m \in Services : pc[m] = "idle"
    BY DEF Init
  <2>. QED BY <2>1 DEF FieldInv, FieldsWired, Running
<1>. QED BY <1>1, <1>2, <1>3, FedInit, FedStep, PTL DEF Spec
=============================================================================
