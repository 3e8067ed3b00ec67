------------------------- MODULE ResolverTraversal -------------------------
(***************************************************************************)
(* Resolver.resolve() over a tree of DTO nodes: the top-down phase that    *)
(* runs resolve_* methods and auto-loads relationships level by level, the *)
(* instantiation of Collectors, and the bottom-up phase that runs post_*   *)
(* methods, default handlers and SendTo.                                   *)
(*                                                                         *)
(* One Resolver object serves the calls Calls; a call made while another   *)
(* runs is refused, a failed call may be retried over the same nodes.  An  *)
(* action is the code between two awaits of the call's task, or the rest   *)
(* of one resolve_* coroutine of a gather: the coroutines of a level end   *)
(* in any order, and go on running when one of them fails.                 *)
(*                                                                         *)
(* A field value is the sequence of nodes it holds: << >> is None for a    *)
(* to-one field and the empty list for a list.  Values of post_* methods   *)
(* are scalars, so they are not kept.                                      *)
(***************************************************************************)
EXTENDS Subsequences

CONSTANTS
  Calls,      \* the calls of resolve(), in the order they may be retried
  Nodes,      \* model instances
  Classes,    \* DTO classes
  Aliases,    \* names of ExposeAs / SendTo / Collector
  FieldOrder, \* field names that hold nodes, in declaration order
  Desc,       \* what each class declares
  Docs        \* the trees and registries the runs start from

Scalar == "scalar"  \* a field that holds no node
Fields == {FieldOrder[i] : i \in 1 .. Len(FieldOrder)}

\* A field: the class of its values, whether it is to-one, declared on the
\* model, named in __subset__, loaded by a resolve_* method, the relationship
\* of its name, and whether its type is compatible with that relationship.
FieldDesc == [target : Classes, one : BOOLEAN, declared : BOOLEAN, subset : BOOLEAN,
              resolve : BOOLEAN, rel : {"none", "local", "coalesced"}, fits : BOOLEAN]

Values == Seq(Nodes)

\* Each field is declared once, and none goes by the name of a scalar.
FieldsDiffer ==
  /\ Scalar \notin Fields
  /\ \A i, j \in 1 .. Len(FieldOrder) : FieldOrder[i] = FieldOrder[j] => i = j

ASSUME ResolverAssumption ==
  /\ FieldOrder \in Seq(Fields) /\ FieldsDiffer
  /\ \A k \in Classes :
       /\ DOMAIN Desc[k].fields \subseteq Fields
       /\ \A f \in DOMAIN Desc[k].fields : Desc[k].fields[f] \in FieldDesc
       /\ Desc[k].isSource \in BOOLEAN      \* registered as its own source
       /\ Desc[k].unregistered \in BOOLEAN  \* __relationships__, no ErManager
       /\ Desc[k].posts \in BOOLEAN         \* has post_* methods
       /\ Desc[k].handler \in BOOLEAN       \* has post_default_handler
       /\ Desc[k].collects \subseteq Aliases
       /\ Desc[k].exposes \subseteq Aliases
       /\ DOMAIN Desc[k].sends \subseteq Aliases
  /\ \A d \in Docs :
       /\ d.calls \subseteq Calls
       /\ d.class \in [Nodes -> Classes]
       /\ d.roots \in [Calls -> Values]
       /\ d.given \in [Nodes -> [Fields -> Values]]
       /\ d.loads \in [Calls -> [Nodes -> [Fields -> Values]]]
       /\ d.keyless \subseteq Nodes \X Fields
       /\ d.registry \in BOOLEAN
       /\ d.scannedBefore \subseteq Classes

-----------------------------------------------------------------------------
(* What the Resolver derives from a class.                                 *)

ResolveFields(k) == {f \in DOMAIN Desc[k].fields : Desc[k].fields[f].resolve}

\* _scan_auto_load_fields, for a Resolver with a registry.
AutoFields(k) ==
  {f \in DOMAIN Desc[k].fields :
     LET d == Desc[k].fields[f]
     IN /\ ~d.resolve
        /\ ~d.subset
        /\ d.rel = "local"
        /\ IF d.declared THEN d.fits ELSE Desc[k].isSource}

\* The class has behaviour of its own.
Configured(k) == \/ ResolveFields(k) # {}
                 \/ Desc[k].posts \/ Desc[k].handler \/ Desc[k].collects # {}
                 \/ Desc[k].exposes # {} \/ DOMAIN Desc[k].sends # {}

\* Classes reached from k through declared fields.
ChildClasses(k) == {Desc[k].fields[f].target :
                      f \in {g \in DOMAIN Desc[k].fields : Desc[k].fields[g].declared}}
Below(k) ==
  LET f[n \in 0 .. Cardinality(Classes)] ==
        IF n = 0 THEN ChildClasses(k)
        ELSE UNION {{l} \cup ChildClasses(l) : l \in f[n - 1]}
  IN f[Cardinality(Classes)]

Reaches == [k \in Classes |-> Below(k)]

HasRelationships(k) == \E f \in DOMAIN Desc[k].fields : Desc[k].fields[f].rel # "none"

\* _compute_should_traverse: the True sentinel of a class being computed makes
\* every class on a cycle traversable.
ShouldTraverse(k, registry) ==
  \E l \in {k} \cup Reaches[k] :
     \/ Configured(l)
     \/ l \in Reaches[l]
     \/ registry /\ Desc[l].isSource /\ HasRelationships(l)

\* The computation of _get_traversable_fields.
TraversableFields(k, registry) ==
  {f \in DOMAIN Desc[k].fields :
     LET d == Desc[k].fields[f]
     IN IF d.declared THEN ShouldTraverse(d.target, registry)
        ELSE registry /\ Desc[k].isSource /\ d.rel # "none"}

-----------------------------------------------------------------------------
VARIABLES
  doc,        \* the tree, chosen at the start
  heap,       \* the fields of the nodes, as they stand
  traversable,\* _traversable_fields_cache; {} of a class not scanned
  running,    \* _in_resolve
  pc,         \* where each call is
  latest,     \* the call that set _in_resolve last
  visits,     \* the level entries of the running call, in BFS order
  depth,      \* the level being resolved, or posted
  jobs,       \* resolve_* coroutines that have not ended, of any call
  outputs,    \* what those of the current level returned
  autoLeft,   \* (class, field) groups of _batch_auto_load still to run
  autoItems,  \* auto_children: the visits the groups before them appended
  loaded,     \* loaded_field_keys of the level
  collectors, \* _node_collectors: node -> alias -> collector
  collected,  \* what each collector of the call holds
  posted,     \* visits whose level has ended in phase B
  reads,      \* what post_* methods and handlers found, for the properties
  strays      \* nodes written since by coroutines of ended calls, likewise

vars == <<doc, heap, traversable, running, pc, latest, visits, depth, jobs, outputs,
          autoLeft, autoItems, loaded, collectors, collected, posted, reads, strays>>
phaseA == <<outputs, autoLeft, autoItems, loaded>>
phaseB == <<collectors, collected, posted, reads>>

Empty == << >>
ClassOf(n) == doc.class[n]
IsNone(n, f) == f # Scalar /\ Desc[ClassOf(n)].fields[f].one /\ heap[n][f] = << >>

\* The sequences Op(x), for x in s, one after the other.
ConcatMap(s, Op(_)) == Concat([i \in 1 .. Len(s) |-> Op(s[i])], Len(s))

\* Some visits in BFS order.
InOrder(I) == Pick([i \in 1 .. Len(visits) |-> i], I)

\* f, and g where f says nothing.
Over(f, g) == [x \in DOMAIN f \cup DOMAIN g |-> IF x \in DOMAIN f THEN f[x] ELSE g[x]]

\* A level entry: the node, the nodes above it, the ancestor_context its
\* methods receive, the one its children inherit, its collector snapshot.
Exposed(n) == [a \in Desc[ClassOf(n)].exposes |-> n]

\* Mutant: inherited values win over the node's own.
ContextInheritedWins(n, seen) == Over(seen, Exposed(n))
Context(n, seen) == Over(Exposed(n), seen)

LevelNode(n, above, seen) ==
  [node |-> n, path |-> Append(above, n), seen |-> seen,
   ctx |-> Context(n, seen), snap |-> Empty]

ChildrenOf(v, nodes) == [i \in 1 .. Len(nodes) |-> LevelNode(nodes[i], v.path, v.ctx)]

LevelOf(vs, d) == {i \in 1 .. Len(vs) : Len(vs[i].path) = d}
Level == LevelOf(visits, depth)

Init ==
  /\ doc \in Docs
  /\ heap = doc.given
  /\ traversable = [k \in Classes |->
       IF k \in doc.scannedBefore THEN {TraversableFields(k, FALSE)} ELSE {}]
  /\ running = FALSE
  /\ pc = [c \in Calls |-> "idle"]
  /\ latest = CHOOSE c \in Calls : TRUE
  /\ visits = << >>
  /\ depth = 0
  /\ jobs = {}
  /\ outputs = Empty
  /\ autoLeft = {}
  /\ autoItems = << >>
  /\ loaded = {}
  /\ collectors = Empty
  /\ collected = Empty
  /\ posted = {}
  /\ reads = {}
  /\ strays = {}

-----------------------------------------------------------------------------
(* Phase A.                                                                *)

\* A new level: the resolve_* coroutines of its nodes are gathered.
EnterLevel(c, vs, d) ==
  /\ visits' = vs
  /\ depth' = d
  /\ jobs' = jobs \cup UNION {{[call |-> c, visit |-> i, node |-> vs[i].node, field |-> f] :
                                 f \in ResolveFields(ClassOf(vs[i].node))} : i \in LevelOf(vs, d)}
  /\ outputs' = Empty
  /\ autoLeft' = IF doc.registry
                 THEN UNION {{<<ClassOf(vs[i].node), f>> : f \in AutoFields(ClassOf(vs[i].node))} :
                               i \in LevelOf(vs, d)}
                 ELSE {}
  /\ autoItems' = << >>
  /\ loaded' = {}
  /\ pc' = [pc EXCEPT ![c] = "resolving"]

\* Mutant: the collectors of the last call stay.
ClearedKeeps == collectors
\* _node_collectors.clear()
Cleared == Empty

\* resolve() on an idle Resolver: caches emptied, level 0 built.
Begin(c) ==
  /\ pc[c] = "idle" /\ ~running /\ c \in doc.calls
  /\ running' = TRUE
  /\ latest' = c
  /\ strays' = {}
  /\ collectors' = Cleared
  /\ collected' = Empty
  /\ posted' = {}
  /\ reads' = {}
  /\ EnterLevel(c, [i \in 1 .. Len(doc.roots[c]) |-> LevelNode(doc.roots[c][i], << >>, Empty)], 1)
  /\ UNCHANGED <<doc, heap, traversable>>

\* resolve() while another call of this Resolver runs: RuntimeError.
Refuse(c) ==
  /\ pc[c] = "idle" /\ running /\ c \in doc.calls
  /\ pc' = [pc EXCEPT ![c] = "refused"]
  /\ UNCHANGED <<doc, heap, traversable, running, latest, strays, visits, depth, jobs, phaseA, phaseB>>

\* Mutant: the guard is reset on success only.
LeaveGuardKept(c, how) ==
  /\ pc' = [pc EXCEPT ![c] = how]
  /\ running' = (how # "done")

Leave(c, how) ==
  /\ pc' = [pc EXCEPT ![c] = how]
  /\ running' = FALSE

Awaits(c) == \E j \in jobs : j.call = c

\* One resolve_* coroutine ends: the attribute is set at once, also when the
\* call it belongs to has failed meanwhile.
ResolveReturns(j) ==
  LET val == doc.loads[j.call][j.node][j.field]
  IN /\ j \in jobs
     /\ heap' = [heap EXCEPT ![j.node][j.field] = val]
     /\ jobs' = jobs \ {j}
     /\ outputs' = IF pc[j.call] = "resolving"
                   THEN Over([p \in {<<j.visit, j.field>>} |-> val], outputs) ELSE outputs
     /\ strays' = IF pc[j.call] = "resolving" THEN strays ELSE strays \cup {j.node}
     /\ UNCHANGED <<doc, traversable, running, pc, latest, visits, depth, autoLeft,
                    autoItems, loaded, phaseB>>

\* It raises: gather passes the first error on and leaves the others running.
ResolveRaises(j) ==
  /\ j \in jobs
  /\ jobs' = jobs \ {j}
  /\ IF pc[j.call] = "resolving" THEN Leave(j.call, "failed") ELSE UNCHANGED <<pc, running>>
  /\ UNCHANGED <<doc, heap, traversable, latest, strays, visits, depth, phaseA, phaseB>>

\* The task of the call is cancelled while it awaits: so are its coroutines.
Cancel(c) ==
  /\ pc[c] \in {"resolving", "posting", "handling"}
  /\ Leave(c, "cancelled")
  /\ jobs' = {j \in jobs : j.call # c}
  /\ UNCHANGED <<doc, heap, traversable, latest, strays, visits, depth, phaseA, phaseB>>

\* _resolve_source finds a class with __relationships__ but no registration.
Unregistered == doc.registry /\ \E i \in Level : Desc[ClassOf(visits[i].node)].unregistered

\* Mutant: a group none of whose nodes has a key is not taken off.
RemainingIfKeys(g) ==
  IF \E i \in Level : ClassOf(visits[i].node) = g[1] /\ <<visits[i].node, g[2]>> \notin doc.keyless
  THEN autoLeft \ {g} ELSE autoLeft
Remaining(g) == autoLeft \ {g}

\* One relationship group of _batch_auto_load: nodes without the foreign key
\* and to-one results of None are left as they are.
AutoLoadGroup(c, g) ==
  LET k == g[1]
      f == g[2]
      Result(i) == doc.loads[c][visits[i].node][f]
      hit == {i \in Level : /\ ClassOf(visits[i].node) = k
                            /\ <<visits[i].node, f>> \notin doc.keyless
                            /\ ~(Desc[k].fields[f].one /\ Result(i) = << >>)}
  IN /\ pc[c] = "resolving" /\ ~Awaits(c) /\ ~Unregistered
     /\ g \in autoLeft
     /\ autoLeft' = Remaining(g)
     /\ heap' = [n \in Nodes |->
          IF \E i \in hit : visits[i].node = n
          THEN [heap[n] EXCEPT ![f] = doc.loads[c][n][f]] ELSE heap[n]]
     /\ loaded' = loaded \cup {<<visits[i].node, f>> : i \in hit}
     /\ autoItems' = autoItems \o
          ConcatMap(InOrder(hit), LAMBDA i : ChildrenOf(visits[i], Result(i)))
     /\ UNCHANGED <<doc, traversable, running, pc, latest, strays, visits, depth, jobs,
                    outputs, phaseB>>

\* A loader raises, or the scan of the level's classes does.
AutoLoadRaises(c) ==
  /\ pc[c] = "resolving" /\ ~Awaits(c)
  /\ autoLeft # {} \/ Unregistered
  /\ Leave(c, "failed")
  /\ UNCHANGED <<doc, heap, traversable, latest, strays, visits, depth, jobs, phaseA, phaseB>>

-----------------------------------------------------------------------------
(* The next level, or phase B-1.                                           *)

\* _get_traversable_fields with its class-level cache.
CachedTraversable(k) ==
  IF traversable[k] = {} THEN TraversableFields(k, doc.registry)
  ELSE CHOOSE s \in traversable[k] : TRUE

\* 4a. children of the resolve_* results
ResolveItems ==
  ConcatMap(InOrder(Level), LAMBDA i :
    ConcatMap(FieldOrder, LAMBDA f :
      IF <<i, f>> \in DOMAIN outputs THEN ChildrenOf(visits[i], outputs[<<i, f>>]) ELSE << >>))

\* Mutant: the fields auto-load has set are not among the keys.
LoadedKeysOfResolve == {<<visits[p[1]].node, p[2]>> : p \in DOMAIN outputs}
LoadedKeys == loaded \cup {<<visits[p[1]].node, p[2]>> : p \in DOMAIN outputs}

\* 4c. objects the fields already held, unless the level loaded them
ExistingItems ==
  ConcatMap(InOrder(Level), LAMBDA i :
    ConcatMap(FieldOrder, LAMBDA f :
      IF f \in CachedTraversable(ClassOf(visits[i].node)) /\ <<visits[i].node, f>> \notin LoadedKeys
      THEN ChildrenOf(visits[i], heap[visits[i].node][f]) ELSE << >>))

NextItems == ResolveItems \o autoItems \o ExistingItems

Collects(v) == Desc[ClassOf(v.node)].collects

\* Mutant: the prototype is not copied, nodes of a class share one collector.
OwnShared(vs, i) ==
  [a \in Collects(vs[i]) |-> <<ClassOf(vs[i].node), a>>]

\* The collectors copied for a visit, each named by the visit and its alias.
Own(vs, i) == [a \in Collects(vs[i]) |-> <<i, a>>]

\* _phase_b_prepare_collectors over the visits in BFS order: a visit adds its
\* collectors to the snapshot node_id_to_ln holds for its parent, which is that
\* of the parent's latest visit, a shared parent having several.
Snapshots(vs) ==
  LET snap[i \in 1 .. Len(vs)] ==
        LET above == Len(vs[i].path) - 1
            entries == {k \in 1 .. i - 1 : /\ above > 0
                                           /\ vs[k].node = vs[i].path[above]
                                           /\ DOMAIN snap[k] # {}}
        IN Over(Own(vs, i), IF entries = {} THEN Empty
                            ELSE snap[CHOOSE k \in entries : \A l \in entries : l <= k])
  IN [i \in 1 .. Len(vs) |-> snap[i]]

\* _node_collectors: by node, so that the latest visit of a node counts.
NodeCollectors(vs) ==
  LET collecting == {i \in 1 .. Len(vs) : Collects(vs[i]) # {}}
  IN [n \in {vs[i].node : i \in collecting} |->
        Own(vs, CHOOSE i \in collecting : /\ vs[i].node = n
                                          /\ \A k \in collecting : vs[k].node = n => k <= i)]

\* Mutant: levels are posted from the root.
FirstPostedRoot == 1
\* The level posted first: the deepest.
FirstPosted == depth

\* A level has settled: the next one is entered, or, when it has no nodes,
\* collectors are prepared and the deepest level is posted first.
EndLevel(c) ==
  /\ pc[c] = "resolving" /\ ~Awaits(c) /\ ~Unregistered
  /\ autoLeft = {}
  /\ traversable' = [k \in Classes |->
       IF \E i \in Level : ClassOf(visits[i].node) = k THEN {CachedTraversable(k)}
       ELSE traversable[k]]
  /\ \/ /\ NextItems # << >>
        /\ EnterLevel(c, visits \o NextItems, depth + 1)
        /\ UNCHANGED <<collectors, collected>>
     \/ /\ NextItems = << >>
        /\ visits' = LET snaps == Snapshots(visits)
                      IN [i \in 1 .. Len(visits) |-> [visits[i] EXCEPT !.snap = snaps[i]]]
        /\ collectors' = NodeCollectors(visits)
        /\ collected' = [s \in UNION {{Own(visits, i)[a] : a \in Collects(visits[i])} :
                                        i \in 1 .. Len(visits)} |-> << >>]
        /\ pc' = [pc EXCEPT ![c] = "posting"]
        /\ depth' = FirstPosted
        /\ UNCHANGED <<jobs, phaseA>>
  /\ UNCHANGED <<doc, heap, running, latest, strays, posted, reads>>

-----------------------------------------------------------------------------
(* Phase B-2.                                                              *)

\* _build_injected_params: the collectors of a node are looked up by node; a
\* collector that is not there leaves the empty prototype of the signature.
Injected(i) ==
  [a \in Collects(visits[i]) |->
     IF visits[i].node \in DOMAIN collectors /\ a \in DOMAIN collectors[visits[i].node]
     THEN collected[collectors[visits[i].node][a]] ELSE << >>]

Read(i) == [visit |-> i, got |-> Injected(i), after |-> posted]

\* The post_* methods of a level run and their results are set.
RunPosts(c) ==
  /\ pc[c] = "posting"
  /\ reads' = reads \cup {Read(i) : i \in {k \in Level : Desc[ClassOf(visits[k].node)].posts}}
  /\ pc' = [pc EXCEPT ![c] = "handling"]
  /\ UNCHANGED <<doc, heap, traversable, running, latest, strays, visits, depth, jobs, phaseA,
                 collectors, collected, posted>>

\* The values of a level that reach collector s, in the order of the level.
SentTo(s) ==
  InOrder({i \in Level :
    LET v == visits[i]
        sends == Desc[ClassOf(v.node)].sends
    IN \E a \in DOMAIN sends \cap DOMAIN v.snap :
         v.snap[a] = s /\ ~IsNone(v.node, sends[a])})

\* Default handlers, SendTo and clean-up of the level; then the level above.
EndPosts(c) ==
  /\ pc[c] = "handling"
  /\ reads' = reads \cup {Read(i) : i \in {k \in Level : Desc[ClassOf(visits[k].node)].handler}}
  /\ collected' = [s \in DOMAIN collected |-> collected[s] \o SentTo(s)]
  /\ collectors' = [n \in DOMAIN collectors \ {visits[i].node : i \in {k \in Level : Collects(visits[k]) # {}}}
                      |-> collectors[n]]
  /\ posted' = posted \cup Level
  /\ depth' = depth - 1
  /\ IF depth = 1 THEN Leave(c, "done")
     ELSE pc' = [pc EXCEPT ![c] = "posting"] /\ UNCHANGED running
  /\ UNCHANGED <<doc, heap, traversable, latest, strays, visits, jobs, phaseA>>

\* A post_* method or handler raises, or a flat Collector refuses a value.
PostRaises(c) ==
  /\ pc[c] \in {"posting", "handling"}
  /\ \E i \in Level : LET k == Desc[ClassOf(visits[i].node)]
                      IN IF pc[c] = "posting" THEN k.posts
                         ELSE k.handler \/ DOMAIN k.sends # {}
  /\ Leave(c, "failed")
  /\ UNCHANGED <<doc, heap, traversable, latest, strays, visits, depth, jobs, phaseA, phaseB>>

-----------------------------------------------------------------------------
Settle(j) == ResolveReturns(j) \/ ResolveRaises(j)

Next ==
  \/ \E c \in Calls :
       \/ Begin(c) \/ Refuse(c) \/ Cancel(c)
       \/ \E k \in Classes, f \in Fields : AutoLoadGroup(c, <<k, f>>)
       \/ AutoLoadRaises(c) \/ EndLevel(c)
       \/ RunPosts(c) \/ EndPosts(c) \/ PostRaises(c)
  \/ \E j \in jobs : Settle(j)

Advance(c) == \/ \E k \in Classes, f \in Fields : AutoLoadGroup(c, <<k, f>>)
              \/ Unregistered /\ AutoLoadRaises(c)
              \/ EndLevel(c) \/ RunPosts(c) \/ EndPosts(c)

\* The event loop runs a task that can go on; resolve_* coroutines end, and a
\* load, post or handler that does not raise is over in one step.
Fairness ==
  /\ \A c \in Calls : WF_vars(Advance(c))
  /\ \A c \in Calls : WF_vars(\E j \in jobs : j.call = c /\ Settle(j))

Spec == Init /\ [][Next]_vars /\ Fairness

-----------------------------------------------------------------------------
(* Properties.                                                             *)

TypeOK ==
  /\ doc.calls \subseteq Calls
  /\ heap \in [Nodes -> [Fields -> Values]]
  /\ \A k \in Classes : traversable[k] \subseteq SUBSET Fields /\ Cardinality(traversable[k]) <= 1
  /\ running \in BOOLEAN
  /\ pc \in [Calls -> {"idle", "resolving", "posting", "handling", "done", "failed",
                       "cancelled", "refused"}]
  /\ latest \in Calls
  /\ \A i \in 1 .. Len(visits) :
       /\ visits[i].node = visits[i].path[Len(visits[i].path)]
       /\ visits[i].path \in Seq(Nodes)
  /\ depth \in Nat
  /\ jobs \subseteq [call : Calls, visit : Nat, node : Nodes, field : Fields]
  /\ autoLeft \subseteq Classes \X Fields
  /\ loaded \subseteq Nodes \X Fields
  /\ DOMAIN collectors \subseteq Nodes
  /\ \A n \in DOMAIN collectors : \A a \in DOMAIN collectors[n] :
       running => collectors[n][a] \in DOMAIN collected
  /\ posted \subseteq 1 .. Len(visits)
  /\ strays \subseteq Nodes

Under(i, j) == /\ Len(visits[i].path) < Len(visits[j].path)
                /\ SubSeq(visits[j].path, 1, Len(visits[i].path)) = visits[i].path

Shared == \E i, j \in 1 .. Len(visits) : i # j /\ visits[i].node = visits[j].node

\* The guard of a Resolver is up exactly while one of its calls runs: an error,
\* a cancellation or a late coroutine neither leaves it up for good nor takes it
\* down under another call.
GuardIsTheRunningCall ==
  /\ running <=> \E c \in Calls : pc[c] \in {"resolving", "posting", "handling"}
  /\ \A c \in Calls : pc[c] \in {"resolving", "posting", "handling"} => c = latest

\* A method sees, under each alias, the value of the nearest node above it that
\* exposes the alias, whatever its siblings and cousins expose.
NearestAncestorIsExposed ==
  \A i \in 1 .. Len(visits) :
    LET p == visits[i].path
        exposing(a) == {k \in 1 .. Len(p) - 1 : a \in Desc[ClassOf(p[k])].exposes}
    IN /\ DOMAIN visits[i].seen = {a \in Aliases : exposing(a) # {}}
       /\ \A a \in DOMAIN visits[i].seen :
            \E k \in exposing(a) : /\ visits[i].seen[a] = p[k]
                                   /\ \A l \in exposing(a) : l <= k

\* When a post_* method or default handler reads a Collector, it holds the value
\* of every descendant that sends to it and has no nearer Collector of the
\* alias, each once, and nothing of another subtree or an earlier call.  For
\* trees whose nodes are not shared and that no ended call writes into.
CollectorsComplete ==
  (~Shared /\ strays = {}) =>
    \A r \in reads : \A a \in DOMAIN r.got :
      LET due == {j \in 1 .. Len(visits) :
                    LET sends == Desc[ClassOf(visits[j].node)].sends
                    IN /\ Under(r.visit, j)
                       /\ a \in DOMAIN sends /\ ~IsNone(visits[j].node, sends[a])
                       /\ ~\E k \in 1 .. Len(visits) :
                            /\ Under(r.visit, k)
                            /\ k = j \/ Under(k, j)
                            /\ a \in Collects(visits[k])}
      IN Len(r.got[a]) = Cardinality(due) /\ {r.got[a][n] : n \in 1 .. Len(r.got[a])} = due

\* A post_* method runs when the posts, handlers and SendTo of all its
\* descendants have run.
PostsAfterDescendants ==
  \A r \in reads : {j \in 1 .. Len(visits) : Under(r.visit, j)} \subseteq r.after

\* Where a node is held: as a root of a call, or at a position of a field, as
\* given or as some call loads it.  In a tree each node is held at one place.
Held(n, f) == {doc.given[n][f]} \cup {doc.loads[c][n][f] : c \in Calls}
References(c) ==
  {<<"root", Scalar, i, doc.roots[c][i]>> : i \in 1 .. Len(doc.roots[c])}
  \cup UNION {UNION {{<<n, f, i, value[i]>> : i \in 1 .. Len(value)} :
                       value \in Held(n, f)} : n \in Nodes, f \in Fields}
IsTree(c) == \A r, s \in References(c) : r[4] = s[4] => r = s

\* The latest call loads the field: by a resolve_* method, or from the registry
\* with the key it needs and a result that is not None.
Loads(n, f) ==
  LET k == ClassOf(n)
  IN \/ f \in ResolveFields(k)
     \/ /\ doc.registry /\ f \in AutoFields(k) /\ <<n, f>> \notin doc.keyless
        /\ ~(Desc[k].fields[f].one /\ doc.loads[latest][n][f] = << >>)
Followed(n) ==
  {f \in Fields : f \in TraversableFields(ClassOf(n), doc.registry) \/ Loads(n, f)}

\* The nodes field f of a visit now holds are visited below it.
VisitedBelow(i, f) ==
  LET value == heap[visits[i].node][f]
  IN \A x \in 1 .. Len(value) : \E j \in 1 .. Len(visits) :
       visits[j].path = Append(visits[i].path, value[x])

\* When a call succeeds, every node that a field it follows or loads now holds
\* has been visited below its holder, unless an ended call wrote into the tree
\* meanwhile or the class-level cache was filled under another registry; and in
\* a tree no node is visited twice, whatever ended calls write.
EveryNodeVisitedOnce ==
  /\ (pc[latest] = "done" /\ strays = {} /\ doc.scannedBefore = {}) =>
       \A i \in 1 .. Len(visits) : \A f \in Followed(visits[i].node) : VisitedBelow(i, f)
  /\ IsTree(latest) => ~Shared

\* Every call of resolve() ends: with its tree, an error or a refusal.
EveryCallEnds ==
  \A c \in Calls : (pc[c] = "resolving") ~> (pc[c] \in {"done", "failed", "cancelled"})

=============================================================================
