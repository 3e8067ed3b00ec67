------------------------------ MODULE Federation ------------------------------
(***************************************************************************)
(* Bring-up of federated services.  Every service is an ErManager that may *)
(* mount others: initialize() fetches the ER fragments of the services its *)
(* declarations name, transitively and from their LIVE registries, then    *)
(* materializes the remote types, binds deferred DefineSubset classes and  *)
(* RemoteRef fields, and wires loaders.  The services come up concurrently *)
(* and in any order; a failed initialize() leaves what it had done and may *)
(* be called again.  add_virtual_entities, the first create_resolver, the  *)
(* schema cache of a handler and a ComposedErManager over some services    *)
(* run between the steps.                                                  *)
(*                                                                         *)
(* An action is the code between two awaits, or a part of it that no other *)
(* task can observe.  A url is the service that answers there.             *)
(***************************************************************************)
EXTENDS Subsequences, Functions

CONSTANTS
  Services,  \* service names
  Types,     \* bare type names
  Rels,      \* relationship and field names
  Worlds,    \* the declarations the runs start from
  MaxTries,  \* bound: calls of initialize() of a service
  MaxLost    \* bound: requests between services that raise

None == "none"
JoinTypes == {"str", "int", "float", "bool", "UUID"}  \* _SUPPORTED_JOIN_TYPES

\* A class: of service svc; local to it (try = 0), or created by service `by`
\* in its try-th initialize().
Local(s, t) == [svc |-> s, type |-> t, by |-> s, try |-> 0]
ClassIds == [svc : Services, type : Types, by : Services, try : 0 .. MaxTries]

\* RelationshipInfo.  svc is target_service; "local" is an ORM relationship,
\* "custom" one of __relationships__.
RelInfo == [target : ClassIds, list : BOOLEAN, paged : BOOLEAN,
            kind : {"local", "custom", "plain", "paged", "coalesced"}, svc : Services \cup {None}]

\* RemoteRelationship, with the type of its local join field, and a field of a
\* DTO annotated with a RemoteRef.
RemoteDecl == [src : Types, name : Rels, svc : Services, type : Types,
               url : Services \cup {None}, list : BOOLEAN, key : STRING]
FieldDecl == [dto : Types, name : Rels, svc : Services, type : Types,
              url : Services \cup {None}]

\* An entry of __relationships__ of a class given to add_virtual_entities: a
\* RemoteRelationship, or without svc a Relationship to a class of the program.
OwnDecl == [src : Types, name : Rels, svc : Services \cup {None}, type : Types,
            url : Services \cup {None}, list : BOOLEAN, key : STRING]

\* A DefineSubset class of a remote type, pending until that is materialized.
SubsetDecl == [owner : Services, svc : Services, type : Types, fields : Seq(FieldDecl)]

QN(d) == <<d.svc, d.type>>

\* The relationships __init__ registers of those of its entities: an ORM
\* relationship to a class that is no entity is skipped, the target of a
\* custom one is any class.
Built(w, m) == {l \in w.local[m] : l.custom \/ l.target \in w.entities[m]}

\* The declarations of a world, as __init__ accepts them.
Accepted(w) ==
  /\ w.entities \in [Services -> SUBSET Types]
  /\ w.calls \in [Services -> 0 .. MaxTries]  \* bound: calls of initialize()
  /\ w.subsets \in Seq(SubsetDecl)
  /\ \A s \in Services :
       /\ w.declared[s] \in Seq(RemoteDecl)
       /\ w.fields[s] \in Seq(FieldDecl)
       /\ w.virtual[s] \in Seq(Types)
       /\ \A l \in w.local[s] : /\ l.src \in w.entities[s] /\ l.target \in Types /\ l.name \in Rels
                                /\ {l.list, l.paged, l.custom} \subseteq BOOLEAN
       /\ w.own[s] \in [Types -> Seq(OwnDecl)]
       /\ \A t \in Types : \A i \in DOMAIN w.own[s][t] : w.own[s][t][i].src = t
       /\ w.keyType[s] \in [Types -> STRING]
       /\ w.roots[s] \in [Types -> SUBSET {"full", "page", "brokenPage"}]
       /\ w.public[s] \subseteq [name : Types, keyed : BOOLEAN, refs : SUBSET Types]
       \* __init__ refuses two relationships of one name on an entity.
       /\ \A k, l \in Built(w, s) : k.src = l.src /\ k.name = l.name => k = l
       /\ \A i \in DOMAIN w.declared[s] :
            LET d == w.declared[s][i]
            IN /\ d.src \in w.entities[s]
               /\ \A l \in Built(w, s) : l.src = d.src => l.name # d.name
               /\ \A j \in DOMAIN w.declared[s] :
                    w.declared[s][j].src = d.src /\ w.declared[s][j].name = d.name => j = i

ASSUME FederationAssumption ==
  /\ MaxTries \in Nat \ {0} /\ MaxLost \in Nat /\ IsFiniteSet(Rels) /\ None \notin Services
  /\ \A w \in Worlds : Accepted(w)

-----------------------------------------------------------------------------
VARIABLES
  world,    \* the declarations, chosen at the start
  pc,       \* where the initialize() of each service is
  tries,    \* how often it was called
  spoilt,   \* a call of initialize() or add_virtual_entities() failed
  er,       \* the ErManager of each service
  work,     \* locals of its running federate()
  subsets,  \* _pending_subsets and the classes the others became
  entities, \* what the two schema caches of its handler hold
  composed, \* the ComposedErManager, if one was built
  lost      \* requests that raised

vars == <<world, pc, tries, spoilt, er, work, subsets, entities, composed, lost>>
Running == {"fetch", "dtos"}

\* dict.update, and a dict of one item.
Updated(f, g) == [x \in DOMAIN f \cup DOMAIN g |-> IF x \in DOMAIN g THEN g[x] ELSE f[x]]
Item(k, v) == [x \in {k} |-> v]
WithoutLast(s) == SubSeq(s, 1, Len(s) - 1)

\* A dict keeps the order of insertion, which the declarations leave open.
Orders(S) == {q \in [1 .. Cardinality(S) -> S] : S \subseteq Range(q)}
InSomeOrder(S) == CHOOSE q \in Orders(S) : TRUE

\* setdefault over declarations: the first url given for a service wins.
FirstUrl(ds) ==
  LET told == {i \in DOMAIN ds : ds[i].url # None}
  IN [s \in {ds[i].svc : i \in told} |->
        ds[CHOOSE i \in told : ds[i].svc = s /\ \A j \in told : ds[j].svc = s => i <= j].url]

\* RemoteRef fields on the DTO classes of m: those declared on local subsets,
\* and those of deferred subsets bound so far.
FieldsOf(m, bound) ==
  world.fields[m] \o
    Concat([i \in DOMAIN world.subsets |->
              IF world.subsets[i].owner = m /\ bound[i] # << >>
              THEN world.subsets[i].fields ELSE << >>], Len(world.subsets))

\* A relationship to a class of the program; a custom one has no page loader.
LocalInfo(m, l) ==
  [target |-> Local(m, l.target), list |-> l.list, paged |-> l.paged /\ ~l.custom,
   kind |-> IF l.custom THEN "custom" ELSE "local", svc |-> None]
Registry0(m) ==
  [c \in {Local(m, t) : t \in world.entities[m]} |->
     [n \in {l.name : l \in {k \in Built(world, m) : k.src = c.type}} |->
        LocalInfo(m, CHOOSE k \in Built(world, m) : k.src = c.type /\ k.name = n)]]

\* What a generator of a handler holds: the entity list of a version, and the
\* relationships of that moment.
Renderings == {"sdl", "intro"}
NoCache == [version |-> 0, classes |-> {}, reg |-> << >>]

NoFed == [try |-> 0, types |-> {}]  \* FederatedTypeRegistry: qualified names
NoWork == [queue |-> << >>, visited |-> {}, endpoints |-> << >>, held |-> << >>,
           fragments |-> << >>, targets |-> {}, asking |-> {}, dtos |-> << >>]

Init ==
  /\ world \in Worlds
  /\ pc = [m \in Services |-> "idle"]
  /\ tries = [m \in Services |-> 0]
  /\ spoilt = [m \in Services |-> FALSE]
  /\ er = [m \in Services |->
             [reg |-> Registry0(m), pending |-> world.declared[m], mounted |-> << >>,
              fed |-> NoFed, loaders |-> << >>, version |-> 0, frozen |-> FALSE,
              virtual |-> world.virtual[m]]]
  /\ work = [m \in Services |-> NoWork]
  /\ subsets = [pending |-> [i \in DOMAIN world.subsets |-> i],
                bound |-> [i \in DOMAIN world.subsets |-> << >>], anno |-> << >>]
  /\ entities = [m \in Services |-> [k \in Renderings |-> NoCache]]
  /\ composed = [route |-> << >>, owner |-> << >>, cross |-> {}]
  /\ lost = 0

-----------------------------------------------------------------------------
(* What a service answers: its registry as it stands.                      *)

\* RelDescriptor.pagination of a relationship.
Paginates(r) == r.list /\ r.paged

Described(s, n, r) ==
  [name |-> n, svc |-> r.svc, type |-> r.target.type, list |-> r.list, paged |-> Paginates(r),
   endpoint |-> IF r.svc # None /\ s \in world.expose /\ r.svc \in DOMAIN er[s].mounted
                THEN er[s].mounted[r.svc] ELSE None]

\* Batch roots and columns exist on a service's own entities; a class it
\* materialized keeps the columns and has no roots.
Fragment(s, c) ==
  [rels |-> {Described(s, n, er[s].reg[c][n]) : n \in DOMAIN er[s].reg[c]},
   roots |-> IF c.try = 0 THEN world.roots[s][c.type] ELSE {},
   key |-> world.keyType[c.svc][c.type]]

\* The first class of each bare name: local entities precede materialized ones.
Answer(s) ==
  [name |-> world.advertised[s],
   types |-> [t \in {c.type : c \in DOMAIN er[s].reg} |->
                LET named == {c \in DOMAIN er[s].reg : c.type = t}
                IN Fragment(s, IF Local(s, t) \in named THEN Local(s, t)
                               ELSE CHOOSE c \in named : TRUE)]]

-----------------------------------------------------------------------------
(* initialize() and the transitive fetch of federate().                    *)

\* Mutant: the locals of a call that raised stay for the next.
FailsKeepingWork(m) == /\ pc' = [pc EXCEPT ![m] = "failed"]
                       /\ spoilt' = [spoilt EXCEPT ![m] = TRUE]
                       /\ UNCHANGED work
Fails(m) == /\ pc' = [pc EXCEPT ![m] = "failed"]
            /\ spoilt' = [spoilt EXCEPT ![m] = TRUE]
            /\ work' = [work EXCEPT ![m] = NoWork]

\* Mutant: a new entity set keeps its version.
BumpedNot(v) == v
Bumped(v) == v + 1

Initialize(m) ==
  LET fields == FieldsOf(m, subsets.bound)
      services == FirstUrl(er[m].pending \o fields)
      targets == {QN(d) : d \in Range(er[m].pending)}
  IN /\ pc[m] \notin Running /\ tries[m] < world.calls[m]
     /\ tries' = [tries EXCEPT ![m] = @ + 1]
     /\ IF er[m].pending \o fields = << >>
        THEN /\ pc' = [pc EXCEPT ![m] = "ready"]
             /\ er' = [er EXCEPT ![m].version = Bumped(@)]
             /\ UNCHANGED work
        ELSE /\ pc' = [pc EXCEPT ![m] = "fetch"]
             /\ er' = [er EXCEPT ![m].mounted = Updated(@, services)]
             /\ \E q \in Orders(targets) :
                  work' = [work EXCEPT ![m] =
                    [NoWork EXCEPT !.queue = q, !.endpoints = services,
                       !.targets = {QN(d) : d \in Range(fields)}]]
     /\ UNCHANGED <<world, spoilt, subsets, entities, composed, lost>>

\* Mutant: types already visited are queued and popped again.
UnseenAll(visited, qn) == TRUE
Unseen(visited, qn) == qn \notin visited

\* The rest of an iteration for qn, whose service answered a.
Follow(m, qn, a) ==
  IF qn[2] \notin DOMAIN a.types THEN Fails(m)
  ELSE LET w == work[m]
           frag == a.types[qn[2]]
           owner(r) == IF r.svc = None THEN qn[1] ELSE r.svc
           learnt == {r \in frag.rels : r.svc # None /\ r.endpoint # None
                                        /\ r.svc \notin DOMAIN w.endpoints}
           children == {<<owner(r), r.type>> : r \in frag.rels}
       IN /\ work' = [work EXCEPT ![m] =
               [w EXCEPT !.visited = @ \cup {qn},
                  !.held = Updated(@, Item(qn[1], a)),
                  !.fragments = Updated(@, Item(qn, frag)),
                  !.endpoints = Updated([s \in {r.svc : r \in learnt} |->
                                  (CHOOSE r \in learnt : r.svc = s).endpoint], @),
                  !.queue = WithoutLast(@) \o InSomeOrder({c \in children : Unseen(w.visited \cup {qn}, c)})]]
          /\ UNCHANGED <<pc, spoilt>>

\* One iteration of the loop: pops the last name, fetches the fragments of its
\* service unless it holds them.
Discover(m) ==
  LET w == work[m]
      qn == w.queue[Len(w.queue)]
  IN /\ pc[m] = "fetch" /\ w.queue # << >>
     /\ \/ /\ ~Unseen(w.visited, qn)
           /\ work' = [work EXCEPT ![m].queue = WithoutLast(@)]
           /\ UNCHANGED <<pc, spoilt>>
        \/ /\ Unseen(w.visited, qn) /\ qn[1] \notin DOMAIN w.endpoints
           /\ Fails(m)
        \/ /\ Unseen(w.visited, qn) /\ qn[1] \in DOMAIN w.held
           /\ Follow(m, qn, w.held[qn[1]])
     /\ UNCHANGED <<world, tries, er, subsets, entities, composed, lost>>

\* fetch_er_introspection: the member answers from its registry of this moment.
FetchFragments(m) ==
  LET w == work[m]
      qn == w.queue[Len(w.queue)]
      a == Answer(w.endpoints[qn[1]])
  IN /\ pc[m] = "fetch" /\ w.queue # << >>
     /\ Unseen(w.visited, qn) /\ qn[1] \in DOMAIN w.endpoints \ DOMAIN w.held
     /\ IF a.name # qn[1] THEN Fails(m) ELSE Follow(m, qn, a)
     /\ UNCHANGED <<world, tries, er, subsets, entities, composed, lost>>

TransportRaises(m) ==
  LET w == work[m]
  IN /\ pc[m] = "fetch" /\ w.queue # << >> /\ lost < MaxLost
     /\ LET qn == w.queue[Len(w.queue)]
        IN Unseen(w.visited, qn) /\ qn[1] \in DOMAIN w.endpoints \ DOMAIN w.held
     /\ lost' = lost + 1
     /\ Fails(m)
     /\ UNCHANGED <<world, tries, er, subsets, entities, composed>>

\* FR-013f: two services must not expose the same bare typename.
BareNameDup(fragments) ==
  \E p, q \in DOMAIN fragments : p[2] = q[2] /\ p[1] # q[1]

\* The queue is empty: DTO-only targets need an endpoint too; the ER types are
\* materialized and the registry of the manager is replaced.
MaterializeTypes(m) ==
  LET w == work[m]
  IN /\ pc[m] = "fetch" /\ w.queue = << >>
     /\ IF (\E qn \in w.targets : qn[1] \notin DOMAIN w.endpoints) \/ BareNameDup(w.fragments)
        THEN Fails(m) /\ UNCHANGED er
        ELSE /\ pc' = [pc EXCEPT ![m] = "dtos"]
             /\ work' = [work EXCEPT ![m].asking = DOMAIN w.endpoints]
             /\ er' = [er EXCEPT ![m].fed = [try |-> tries[m], types |-> DOMAIN w.fragments]]
             /\ UNCHANGED spoilt
     /\ UNCHANGED <<world, tries, subsets, entities, composed, lost>>

\* What a member tells of its public DTOs: with a join key, and remote_refs.
DtoAnswer(s, url) ==
  [qn \in {<<s, d.name>> : d \in world.public[url]} |->
     CHOOSE d \in world.public[url] : d.name = qn[2]]

\* fetch_dto_introspection of one endpoint: a member that predates it, or a
\* request that raises, is skipped unless a DTO target needs the service.
AskDtos(m, s) ==
  LET w == work[m]
      url == w.endpoints[s]
      raises == url \in world.noDtos
  IN /\ pc[m] = "dtos" /\ s \in w.asking
     /\ \/ /\ ~raises /\ world.advertised[url] = s
           /\ work' = [work EXCEPT ![m].asking = @ \ {s}, ![m].dtos = Updated(@, DtoAnswer(s, url))]
           /\ UNCHANGED <<pc, spoilt, lost>>
        \/ /\ ~raises /\ world.advertised[url] # s
           /\ Fails(m) /\ UNCHANGED lost
        \/ /\ raises \/ lost < MaxLost
           /\ lost' = IF raises THEN lost ELSE lost + 1
           /\ IF \E qn \in w.targets : qn[1] = s THEN Fails(m)
              ELSE /\ work' = [work EXCEPT ![m].asking = @ \ {s}]
                   /\ UNCHANGED <<pc, spoilt>>
     /\ UNCHANGED <<world, tries, er, subsets, entities, composed>>

-----------------------------------------------------------------------------
(* The rest of federate() runs without an await.  Each part takes and      *)
(* returns what has been done so far, and does nothing once one has raised.*)

Class(m, fed, qn) == [svc |-> qn[1], type |-> qn[2], by |-> m, try |-> fed.try]
Mounts(fed, s) == \E qn \in fed.types : qn[1] = s
Raised(st) == [st EXCEPT !.ok = FALSE]

\* What a loop over positions does before one of them raises.
Until(bad, D) == {k \in D : \A j \in bad : k < j}

\* materialize_dtos: bare names are unique over entities and DTOs, and every
\* remote_ref of a DTO names a materialized type.
MaterializeDtos(m, st) ==
  LET dtos == work[m].dtos
      all == st.fed.types \cup DOMAIN dtos
  IN IF \E p \in DOMAIN dtos, q \in all : p # q /\ p[2] = q[2] THEN Raised(st)
     ELSE IF \E p \in DOMAIN dtos : ~(dtos[p].refs \subseteq {q[2] : q \in all})
     THEN Raised([st EXCEPT !.fed.types = all])
     ELSE [st EXCEPT !.fed.types = all]

\* The classes of the fields D whose target is materialized here.
Annotated(m, fed, D) ==
  LET here == {d \in D : QN(d) \in fed.types}
  IN [k \in {<<d.dto, d.name>> : d \in here} |->
        Class(m, fed, QN(CHOOSE d \in here : <<d.dto, d.name>> = k))]

\* One pending subset: it waits when its source, or the service of the first
\* field without a class, is not mounted here; an unknown type of a mounted
\* service raises.
\* Mutant: only the source decides.
OutcomeBySource(fed, s) == IF QN(s) \in fed.types THEN "binds" ELSE "waits"
Outcome(fed, s) ==
  LET missing == {k \in DOMAIN s.fields : QN(s.fields[k]) \notin fed.types}
      first == s.fields[Earliest(missing)]
  IN IF ~Mounts(fed, s.svc) THEN "waits"
     ELSE IF QN(s) \notin fed.types THEN "raises"
     ELSE IF missing = {} THEN "binds"
     ELSE IF Mounts(fed, first.svc) THEN "raises" ELSE "waits"

\* Those before one that raises are bound; _pending_subsets is replaced only
\* when none does, by those of other services and then those that wait.
BindSubsets(m, st) ==
  LET q == st.subsets.pending
      of(what) == {k \in DOMAIN q : Outcome(st.fed, world.subsets[q[k]]) = what}
      refused == of("raises")
      now == {q[k] : k \in Until(refused, of("binds"))}
      foreign == {k \in of("waits") : ~Mounts(st.fed, world.subsets[q[k]].svc)}
      fields == UNION {Range(world.subsets[i].fields) : i \in now}
  IN [st EXCEPT
        !.ok = refused = {},
        !.subsets.pending = IF refused = {}
                            THEN Pick(q, foreign) \o Pick(q, of("waits") \ foreign) ELSE @,
        !.subsets.bound = [i \in DOMAIN @ |->
                             IF i \in now THEN Append(@[i], Class(m, st.fed, QN(world.subsets[i])))
                             ELSE @[i]],
        !.subsets.anno = Updated(@, Annotated(m, st.fed, fields))]

\* resolve_remote_field_refs: the annotation becomes the class of THIS registry.
\* Mutant: a field that holds a class already is left alone.
ResolveFieldsOnce(m, st) ==
  [st EXCEPT !.subsets.anno = Updated(Annotated(m, st.fed, Range(FieldsOf(m, st.subsets.bound))), @)]
ResolveFields(m, st) ==
  [st EXCEPT !.subsets.anno = Updated(@, Annotated(m, st.fed, Range(FieldsOf(m, st.subsets.bound))))]

\* _wire_dto_remote_loaders, field by field.
WireFields(m, st) ==
  LET ds == FieldsOf(m, st.subsets.bound)
      dtos == work[m].dtos
      mounted == {k \in DOMAIN ds : ds[k].svc \in DOMAIN work[m].endpoints}
      bad == {k \in mounted : \/ QN(ds[k]) \notin st.fed.types \cap DOMAIN dtos
                              \/ ~dtos[QN(ds[k])].keyed}
      wired == {ds[k] : k \in Until(bad, mounted)}
  IN [st EXCEPT !.ok = bad = {}, !.loaders = Updated(@, Annotated(m, st.fed, wired))]

\* _check_target and _check_join_contract of one RemoteRelationship: the page
\* root is tried first for a list, and then needs the full root beside it.
Paged(d, frag) == d.list /\ {"page", "brokenPage"} \cap frag.roots # {}
ValidRemote(m, d) ==
  /\ d.svc \in DOMAIN work[m].endpoints
  /\ QN(d) \in DOMAIN work[m].fragments
  /\ LET frag == work[m].fragments[QN(d)]
     IN /\ d.key = frag.key /\ d.key \in JoinTypes
        /\ Paged(d, frag) => "brokenPage" \notin frag.roots
        /\ "full" \in frag.roots

Wired(m, fed, d) ==
  LET paged == Paged(d, work[m].fragments[QN(d)])
  IN [target |-> Class(m, fed, QN(d)), list |-> d.list, paged |-> paged,
      kind |-> IF paged THEN "paged" ELSE "plain", svc |-> d.svc]

\* Step 4: one by one; what is wired before one that raises stays.  A source
\* that add_virtual_entities refused is registered by its remote relationship.
WireRelationships(m, st) ==
  LET ds == er[m].pending
      bad == {k \in DOMAIN ds : ~ValidRemote(m, ds[k])}
      done == {ds[k] : k \in Until(bad, DOMAIN ds)}
      of(c) == {d \in done : Local(m, d.src) = c}
      had(c) == IF c \in DOMAIN st.reg THEN st.reg[c] ELSE << >>
  IN [st EXCEPT
        !.ok = bad = {},
        !.reg = [c \in DOMAIN @ \cup {Local(m, d.src) : d \in done} |->
                   Updated(had(c), [n \in {d.name : d \in of(c)} |->
                     Wired(m, st.fed, CHOOSE d \in of(c) : d.name = n)])]]

\* Step 6: every materialized entity type and its relationships, without loaders.
Coalesced(m, st, qn) ==
  LET rels == work[m].fragments[qn].rels
      owner(r) == IF r.svc = None THEN qn[1] ELSE r.svc
      kept == {r \in rels : <<owner(r), r.type>> \in st.fed.types}
  IN [n \in {r.name : r \in kept} |->
        LET r == CHOOSE k \in kept : k.name = n
        IN [target |-> Class(m, st.fed, <<owner(r), r.type>>), list |-> r.list,
            paged |-> r.paged, kind |-> "coalesced", svc |-> owner(r)]]

\* Mutant: a type without relationships is not registered.
RegisterTypesWithRels(m, st) ==
  LET fragments == work[m].fragments
      named == {qn \in DOMAIN fragments : fragments[qn].rels # {}}
  IN [st EXCEPT !.reg =
        Updated([c \in {Class(m, st.fed, qn) : qn \in named} |->
                   Coalesced(m, st, <<c.svc, c.type>>)], @)]
RegisterTypes(m, st) ==
  [st EXCEPT !.reg =
     Updated([c \in {Class(m, st.fed, qn) : qn \in DOMAIN work[m].fragments} |->
                Coalesced(m, st, <<c.svc, c.type>>)], @)]

\* The parts in their order, each when the one before has not raised: a set
\* of one outcome.
Federated(m) ==
  LET start == [ok |-> TRUE, fed |-> er[m].fed, reg |-> er[m].reg, loaders |-> er[m].loaders,
                subsets |-> subsets]
      then(S, Op(_, _)) == {IF st.ok THEN Op(m, st) ELSE st : st \in S}
      dtosMade == then({start}, MaterializeDtos)
      subsetsBound == then(dtosMade, BindSubsets)
      fieldsResolved == then(subsetsBound, ResolveFields)
      fieldsWired == then(fieldsResolved, WireFields)
      relationshipsWired == then(fieldsWired, WireRelationships)
  IN then(relationshipsWired, RegisterTypes)

Wire(m) ==
  /\ pc[m] = "dtos" /\ work[m].asking = {}
  /\ \E done \in Federated(m) :
      /\ subsets' = done.subsets
      /\ er' = [er EXCEPT ![m].fed = done.fed, ![m].reg = done.reg,
                  ![m].loaders = done.loaders,
                  ![m].pending = IF done.ok THEN << >> ELSE @,
                  ![m].version = IF done.ok THEN Bumped(@) ELSE @]
      /\ IF done.ok
         THEN /\ pc' = [pc EXCEPT ![m] = "ready"]
              /\ work' = [work EXCEPT ![m] = NoWork]
              /\ UNCHANGED spoilt
         ELSE Fails(m)
  /\ UNCHANGED <<world, tries, entities, composed, lost>>

-----------------------------------------------------------------------------
(* The manager between its steps: virtual entities, the first Resolver,    *)
(* schema requests, a ComposedErManager.                                   *)

\* The custom relationships of __relationships__, by name.
CustomRels(m, ds) ==
  LET custom == {d \in Range(ds) : d.svc = None}
  IN [n \in {d.name : d \in custom} |->
        LET d == CHOOSE x \in custom : x.name = n
        IN [target |-> Local(m, d.type), list |-> d.list, paged |-> FALSE,
            kind |-> "custom", svc |-> None]]
\* Where a declaration repeats a name.
Repeats(ds) == {k \in DOMAIN ds : \E j \in 1 .. k - 1 : ds[j].name = ds[k].name}

\* The classes one by one, until one is refused: a mapped one, a registered
\* one, or one whose relationships repeat a name.  Those before it stay
\* registered, and the RemoteRelationships met stay queued, its own included.
AddVirtualEntities(m) ==
  LET vs == er[m].virtual
      own(i) == world.own[m][vs[i]]
      mapped == {l.target : l \in {k \in world.local[m] : ~k.custom}}
      refused == {i \in DOMAIN vs : \/ vs[i] \in mapped \/ Local(m, vs[i]) \in DOMAIN er[m].reg
                                   \/ \E j \in 1 .. i - 1 : vs[j] = vs[i]}
      bad == refused \cup {i \in DOMAIN vs : Repeats(own(i)) # {}}
      met == {i \in DOMAIN vs \ refused : \A j \in bad : i <= j}
      remote(i) == IF i \in met THEN Pick(own(i), {k \in Until(Repeats(own(i)), DOMAIN own(i)) :
                                                    own(i)[k].svc # None})
                   ELSE << >>
  IN /\ vs # << >> /\ ~er[m].frozen
     /\ er' = [er EXCEPT ![m].virtual = << >>,
                 ![m].pending = @ \o Concat([i \in DOMAIN vs |-> remote(i)], Len(vs)),
                 ![m].reg = Updated(@, [c \in {Local(m, vs[i]) : i \in met \ bad} |->
                                          CustomRels(m, world.own[m][c.type])]),
                 ![m].version = IF bad = {} THEN Bumped(@) ELSE @]
     /\ spoilt' = [spoilt EXCEPT ![m] = @ \/ bad # {}]
     /\ UNCHANGED <<world, pc, tries, work, subsets, entities, composed, lost>>

CreateResolver(m) ==
  /\ ~er[m].frozen /\ m \in world.serves
  /\ er' = [er EXCEPT ![m].frozen = TRUE]
  /\ UNCHANGED <<world, pc, tries, spoilt, work, subsets, entities, composed, lost>>

\* GraphQLHandler._sdl_generator and _introspection_generator: a new generator
\* takes the entity list when the version moved.
ReadSchema(m, k) ==
  /\ m \in world.serves
  /\ entities[m][k].version # er[m].version \/ entities[m][k].classes = {}
  /\ entities' = [entities EXCEPT ![m][k] =
                    [version |-> er[m].version, classes |-> DOMAIN er[m].reg, reg |-> er[m].reg]]
  /\ UNCHANGED <<world, pc, tries, spoilt, er, work, subsets, composed, lost>>

\* A loader class: made when a relationship is built or wired.
LoaderOf(m, c, n) == [by |-> m, class |-> c, name |-> n,
                      try |-> er[m].reg[c][n].target.try]
LoadersOf(m) == {LoaderOf(m, p[1], p[2]) : p \in
                   {q \in (DOMAIN er[m].reg) \X Rels :
                      q[2] \in DOMAIN er[m].reg[q[1]] /\ er[m].reg[q[1]][q[2]].kind # "coalesced"}}

\* ComposedErManager.__init__ over the members of the world: the routes are
\* taken once.  A cross relationship that shadows a member's raises.
Compose ==
  LET ms == world.members
      shadows == \E x \in world.cross :
                   x.name \in DOMAIN er[x.src.svc].reg[x.src]
  IN /\ ms # {} /\ composed.route = << >> /\ ~shadows
     /\ composed' =
          [route |-> [c \in UNION {DOMAIN er[m].reg : m \in ms} |-> c.by],
           owner |-> [l \in UNION {LoadersOf(m) : m \in ms} |-> l.by],
           cross |-> world.cross]
     /\ UNCHANGED <<world, pc, tries, spoilt, er, work, subsets, entities, lost>>

\* get_loader's owner of a loader class: the reverse route, or a search of the
\* members for loaders wired since.
\* Mutant: the construction-time route only.
OwnerRouteOnly(l) == IF l \in DOMAIN composed.owner THEN composed.owner[l] ELSE None
Owner(l) == IF l \in DOMAIN composed.owner THEN composed.owner[l]
            ELSE IF \E m \in world.members : l \in LoadersOf(m)
                 THEN CHOOSE m \in world.members : l \in LoadersOf(m)
                 ELSE None

BringUp(m) == Discover(m) \/ FetchFragments(m) \/ MaterializeTypes(m) \/ Wire(m)
              \/ \E s \in work[m].asking : AskDtos(m, s)
Next ==
  \E m \in Services :
    \/ Initialize(m) \/ BringUp(m) \/ TransportRaises(m)
    \/ AddVirtualEntities(m) \/ CreateResolver(m) \/ Compose
    \/ \E k \in Renderings : ReadSchema(m, k)

\* A task that can run runs, and a request is answered or raises in the end.
Spec == Init /\ [][Next]_vars /\ \A m \in Services : WF_vars(BringUp(m))

-----------------------------------------------------------------------------
(* Properties.                                                             *)

TypeOK ==
  /\ pc \in [Services -> {"idle", "ready", "failed"} \cup Running]
  /\ tries \in [Services -> 0 .. MaxTries] /\ spoilt \in [Services -> BOOLEAN]
  /\ \A m \in Services :
       /\ DOMAIN er[m].reg \subseteq ClassIds
       /\ \A c \in DOMAIN er[m].reg : \A n \in DOMAIN er[m].reg[c] :
            n \in Rels /\ er[m].reg[c][n] \in RelInfo
       /\ er[m].fed.types \subseteq Services \X Types
       /\ er[m].fed.try <= tries[m]
       /\ pc[m] # "fetch" => work[m].queue = << >>
       /\ pc[m] \notin Running => work[m] = NoWork
       /\ Range(work[m].queue) \subseteq Services \X Types
       /\ \A k \in DOMAIN er[m].loaders : er[m].loaders[k] \in ClassIds
  /\ Range(subsets.pending) \subseteq DOMAIN world.subsets
  /\ lost \in 0 .. MaxLost

\* Mounts may be cyclic (manager.py:109): the transitive fetch of every
\* initialize() ends, and with it the call, whatever the members answer.
BringUpEnds == \A m \in Services : pc[m] \in Running ~> pc[m] \notin Running

\* A service that came up can serve its schema: every relationship it
\* registered leads to a registered class, but for the custom ones of its own
\* classes, whose target may be any class; and a class has all the relationships
\* its own service registered for it, a materialized one included.
SchemaClosed ==
  \A m \in Services : pc[m] = "ready" =>
    \A c \in DOMAIN er[m].reg :
      /\ \A n \in DOMAIN er[m].reg[c] :
           \/ er[m].reg[c][n].target \in DOMAIN er[m].reg
           \/ er[m].reg[c][n].kind = "custom" /\ c.try = 0
      /\ \A l \in Built(world, c.svc) : l.src = c.type =>
           /\ l.name \in DOMAIN er[m].reg[c]
           /\ er[m].reg[c][l.name].target = [c EXCEPT !.type = l.target]

\* resolve_deferred_subsets binds a subset wholly or not at all, once, and to
\* the classes of the registry that serves it, in whatever order the services
\* come up.  Not so after an initialize() that raised: the classes of its
\* attempt stay bound.
SubsetsBoundTogether ==
  \A i \in DOMAIN world.subsets :
    LET s == world.subsets[i]
        b == subsets.bound[i]
    IN b # << >> /\ ~spoilt[s.owner] =>
         /\ Len(b) = 1
         /\ \A k \in DOMAIN s.fields : <<s.fields[k].dto, s.fields[k].name>> \in DOMAIN subsets.anno
         /\ pc[s.owner] = "ready" => b[1] \in DOMAIN er[s.owner].reg

\* The rows a DTO field loads are of the class its annotation names, also
\* after a retried or repeated initialize() made new classes.
FieldLoadersMatch ==
  \A m \in Services : pc[m] = "ready" =>
    LET ds == FieldsOf(m, subsets.bound)
    IN \A i \in DOMAIN ds :
         LET k == <<ds[i].dto, ds[i].name>>
         IN k \in DOMAIN er[m].loaders /\ k \in DOMAIN subsets.anno
            /\ subsets.anno[k] = er[m].loaders[k]

\* A schema cached under the current version lists the current entities, as
\* long as no call failed halfway.
Cached(m, k) == entities[m][k].classes # {} /\ entities[m][k].version = er[m].version
EntityCacheFresh ==
  \A m \in Services, k \in Renderings :
    Cached(m, k) /\ ~spoilt[m] => entities[m][k].classes = DOMAIN er[m].reg

\* Every relationship a ComposedErManager shows is loaded by the member that
\* wired it, those wired after its construction included.
ComposedLoadersRoute ==
  composed.route # << >> =>
    \A m \in world.members : \A l \in LoadersOf(m) : Owner(l) = m
=============================================================================
