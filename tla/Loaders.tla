------------------------------ MODULE Loaders ------------------------------
(***************************************************************************)
(* The DataLoader layer of one ErManager: the loader instances it hands    *)
(* out (ErManager.get_loader / clear_cache), the column and selection      *)
(* metadata attached to them, the batches they run, and the levels of      *)
(* loads that the GraphQL executor and the DTO Resolver await.             *)
(*                                                                         *)
(* A job is one relationship loaded for the parents of one level.  Its     *)
(* style says which code path issues it:                                   *)
(*   "entity"       GraphQL BFS, Resolver._load_entity_field_batch and     *)
(*                  _load_entity_field_paginated (page # NoPage)           *)
(*   "dto"          Resolver._batch_auto_load                              *)
(*   "named"        a Loader("rel") parameter of a resolve_* method        *)
(*   "remote"       fetch_remote_subtree on a plain remote relationship,   *)
(*                  from the BFS or from _batch_auto_load                  *)
(*   "remotePaged"  fetch_remote_subtree on a paged remote relationship    *)
(* asyncio runs one task at a time: a step of this module is the code      *)
(* between two awaits, and the synchronous prefixes of the coroutines of   *)
(* one asyncio.gather run back to back (pc = "starting").                  *)
(***************************************************************************)
EXTENDS Paging, FiniteSets

CONSTANTS
  Requests,        \* requests served by the ErManager, each runs once
  GraphqlRequests, \* those executed by GraphQLHandler; the rest by a Resolver
  Classes,         \* DataLoader classes, one per relationship and flavour
  Keys,            \* foreign-key values
  Columns,         \* columns (and, for remote jobs, nested paths) of targets
  SqlColumn,       \* the column a selected path keeps: itself or its FK
  Added,           \* columns a loader reads whatever is selected: its join
                   \* column, the primary key, the sort columns of its pages
  Pages, NoPage,   \* pagination parameters, and their absence
  Declared, Raw,   \* the Paged default and the arguments behind each of Pages
  Collections,     \* the rows a key may have, in the order of its pages
  NoRequest,       \* the generation before the first request
  Jobs, Offers,    \* all jobs, and those each request may issue
  SplitMode,       \* ErManager(split_loader_by_type=...)
  MaxLevels,       \* bound on the levels of one request
  MaxWidth         \* bound on the jobs of one level

Local == {"entity", "dto", "named"}
Remote == {"remote", "remotePaged"}

JobType == [cls : Classes, style : Local \cup Remote, cols : SUBSET Columns,
            page : Pages \cup {NoPage}, keys : (SUBSET Keys) \ {{}}]

ASSUME LoadersAssumption ==
  /\ GraphqlRequests \subseteq Requests
  /\ NoRequest \notin Requests
  /\ NoPage \notin Pages
  /\ \A p \in Pages : IsPaged(Declared[p]) /\ IsRaw(Raw[p])
  /\ Collections \subseteq Seq(Int)
  /\ SqlColumn \in [Columns -> Columns]
  /\ Added \in [Classes -> SUBSET Columns]
  /\ Jobs \subseteq JobType
  /\ \A j \in Jobs : j.style \in Remote => j.page # NoPage
  /\ Offers \in [Requests -> SUBSET Jobs]
  /\ \A r \in Requests : \A j \in Offers[r] :
       IF r \in GraphqlRequests THEN j.style \in Remote \cup {"entity"}
                                ELSE j.style \in {"dto", "named", "remote"}
  /\ SplitMode \in BOOLEAN
  /\ MaxLevels \in Nat
  /\ MaxWidth \in Nat \ {0}

-----------------------------------------------------------------------------
(* What a job asks of its loader.                                          *)

\* The columns a selection or DTO names, foreign keys standing for subtrees.
SqlColumns(j) == {SqlColumn[c] : c \in j.cols}

\* generate_type_key_from_selection / generate_type_key_from_dto: a set of
\* one frozenset, or the empty set for None.
TypeKey(j) ==
  IF \/ j.style = "dto"
     \/ j.style \in {"entity", "remote"} /\ j.cols # {}
  THEN {SqlColumns(j)} ELSE {}

\* Mutant: auto-load does not pass params_key.
ParamsKeyRemoteOnly(j) == IF j.style \in Remote THEN j.page ELSE NoPage

\* The params_key argument each path passes to get_loader.
ParamsKey(j) == IF j.style \in Remote \cup {"dto"} THEN j.page ELSE NoPage

\* Mutant: type_key never splits.
UseSplitParamsOnly(j) == ParamsKey(j) # NoPage

\* use_split in ErManager.get_loader.
UseSplit(j) ==
  \/ (SplitMode \/ j.style \in Remote) /\ TypeKey(j) # {}
  \/ ParamsKey(j) # NoPage

\* The key passed to load(): a PageLoadCommand carries its page, the other
\* paths send the bare foreign-key value.
LoadKey(j, k) == <<k, IF j.style \in {"entity", "dto"} THEN j.page ELSE NoPage>>
LoadKeysOf(j) == {LoadKey(j, k) : k \in j.keys}

\* The columns the consumer of the rows reads.
Needs(j) == CASE j.style = "named" -> Columns
              [] j.style \in Remote -> j.cols
              [] OTHER -> SqlColumns(j)

Instances == [cls : Classes, type : SUBSET (SUBSET Columns),
              params : Pages \cup {NoPage}, gen : Requests]
LoadKeys == Keys \X (Pages \cup {NoPage})

-----------------------------------------------------------------------------
VARIABLES
  gen,      \* the request whose clear_cache emptied _loader_instances last
  shape,    \* what _loader_instances[cls] holds: nothing, a loader, a dict
  meta,     \* the _query_meta / _remote_selection attached to instances
  queued,   \* keys in the _queue of an instance
  batches,  \* dispatched batches, and what they captured when they ran
  rows,     \* resolved entries of the instances' caches
  pc,       \* where each request is
  waits,    \* the loads of its current level a request awaits
  levels    \* levels begun by each request

vars == <<gen, shape, meta, queued, batches, rows, pc, waits, levels>>

Batch == [inst : Instances, keys : SUBSET LoadKeys, phase : {"taken", "running"},
          cols : SUBSET Columns, page : Pages \cup {NoPage}, begun : SUBSET Requests]
Row == [inst : Instances, key : LoadKeys, cols : SUBSET Columns,
        page : Pages \cup {NoPage}, begun : SUBSET Requests]
Wait == [inst : Instances, job : Jobs, fresh : SUBSET LoadKeys]

TypeOK ==
  /\ gen \in Requests \cup {NoRequest}
  /\ shape \in [Classes -> {"empty", "single", "split"}]
  /\ meta \subseteq [inst : Instances, cols : SUBSET Columns]
  /\ queued \subseteq [inst : Instances, key : LoadKeys]
  /\ batches \subseteq Batch
  /\ rows \subseteq Row
  /\ pc \in [Requests -> {"idle", "ready", "starting", "loading", "done"}]
  /\ waits \in [Requests -> SUBSET Wait]
  /\ levels \in [Requests -> 0 .. MaxLevels]

Init ==
  /\ gen = NoRequest
  /\ shape = [c \in Classes |-> "empty"]
  /\ meta = {}
  /\ queued = {}
  /\ batches = {}
  /\ rows = {}
  /\ pc = [r \in Requests |-> "idle"]
  /\ waits = [r \in Requests |-> {}]
  /\ levels = [r \in Requests |-> 0]

-----------------------------------------------------------------------------
\* No request is between two coroutines of a gather.
Quiet == \A r \in Requests : pc[r] # "starting"

\* The instance get_loader returns for a job in the current generation.
InstanceFor(j) ==
  [cls |-> j.cls,
   type |-> IF UseSplit(j) THEN TypeKey(j) ELSE {},
   params |-> IF UseSplit(j) THEN ParamsKey(j) ELSE NoPage,
   gen |-> gen]

\* get_loader stores a loader or a dict of loaders in the same slot.
ShapeOf(j) == IF UseSplit(j) THEN "split" ELSE "single"
ShapeFits(j) == shape[j.cls] \in {"empty", ShapeOf(j)}

Attached(i) == {m.cols : m \in {n \in meta : n.inst = i}}

\* Mutant: the last writer wins, also for an instance several jobs share.
AttachMetaOverwrite(j, i) ==
  IF j.style = "named" THEN meta
  ELSE {m \in meta : m.inst # i} \cup {[inst |-> i, cols |-> Needs(j)]}

\* merge_query_meta, set_query_meta, set_remote_selection, or nothing.
AttachMeta(j, i) ==
  IF j.style = "named" THEN meta
  ELSE {m \in meta : m.inst # i} \cup
       {[inst |-> i,
         cols |-> IF j.style = "entity" /\ ~(SplitMode /\ TypeKey(j) # {})
                  THEN SqlColumns(j) \cup UNION Attached(i)
                  ELSE Needs(j)]}

\* The keys of an instance waiting in its _queue, in flight, resolved.
QueuedKeys(i) == {q.key : q \in {p \in queued : p.inst = i}}
FlyingKeys(i) == UNION {b.keys : b \in {c \in batches : c.inst = i}}
CachedKeys(i) == {x.key : x \in {y \in rows : y.inst = i}}

\* Mutant: only resolved futures are found in the cache.
HeldResolvedOnly(i) == CachedKeys(i)

\* The keys an instance has a future for: load() returns it, cached.
Held(i) == QueuedKeys(i) \cup FlyingKeys(i) \cup CachedKeys(i)

-----------------------------------------------------------------------------
(* Requests.                                                               *)

\* Mutants: the cache is emptied by the first request only, or never.
BeginRequestFirstClears(r) ==
  /\ Quiet
  /\ pc[r] = "idle"
  /\ pc' = [pc EXCEPT ![r] = "ready"]
  /\ gen' = IF gen = NoRequest THEN r ELSE gen
  /\ UNCHANGED <<shape, meta, queued, batches, rows, waits, levels>>
BeginRequestNoClear(r) ==
  /\ Quiet
  /\ pc[r] = "idle"
  /\ pc' = [pc EXCEPT ![r] = "ready"]
  /\ UNCHANGED <<gen, shape, meta, queued, batches, rows, waits, levels>>

\* execute_query and Resolver.resolve call ErManager.clear_cache first.
\* Loads in flight keep the instances they hold.
BeginRequest(r) ==
  /\ Quiet
  /\ pc[r] = "idle"
  /\ pc' = [pc EXCEPT ![r] = "ready"]
  /\ gen' = r
  /\ shape' = [c \in Classes |-> "empty"]
  /\ UNCHANGED <<meta, queued, batches, rows, waits, levels>>

\* The next level of the BFS, the next relationship group of an auto-load,
\* or the resolve_* calls of a level: a gather (or one coroutine) starts.
BeginLevel(r) ==
  /\ Quiet
  /\ pc[r] = "ready"
  /\ Offers[r] # {}
  /\ levels[r] < MaxLevels
  /\ pc' = [pc EXCEPT ![r] = "starting"]
  /\ levels' = [levels EXCEPT ![r] = @ + 1]
  /\ UNCHANGED <<gen, shape, meta, queued, batches, rows, waits>>

\* A relationship group of _batch_auto_load.
AutoLoaded(r, j) == r \notin GraphqlRequests /\ j.style # "named"

\* Auto-load groups are awaited one after the other; a resolve_* method may
\* await something of its own before it calls its loader.
MayStart(r, j) ==
  /\ j \in Offers[r]
  /\ Cardinality(waits[r]) < MaxWidth
  /\ \/ /\ pc[r] = "starting"
        /\ AutoLoaded(r, j) => waits[r] = {}
        /\ \A w \in waits[r] : ~AutoLoaded(r, w.job)
     \/ /\ pc[r] = "loading"
        /\ Quiet
        /\ j.style = "named"
        /\ \A w \in waits[r] : w.job.style = "named"

\* get_loader, attach the metadata, load_many: keys without a cached future
\* join the queue of the instance.
StartJob(r, j) ==
  /\ MayStart(r, j)
  /\ ShapeFits(j)
  /\ LET i == InstanceFor(j)
         fresh == LoadKeysOf(j) \ Held(i)
     IN /\ shape' = [shape EXCEPT ![j.cls] = ShapeOf(j)]
        /\ meta' = AttachMeta(j, i)
        /\ queued' = queued \cup [inst : {i}, key : fresh]
        /\ waits' = [waits EXCEPT ![r] =
                       @ \cup {[inst |-> i, job |-> j, fresh |-> fresh]}]
  /\ UNCHANGED <<gen, batches, rows, pc, levels>>

\* An exception in one coroutine fails the gather: the GraphQL executor
\* records RESOLVER_ERROR and goes on, resolve() raises to its caller.
AfterError(r) == IF r \in GraphqlRequests THEN "ready" ELSE "done"

\* get_loader finds a loader where it needs a dict, or returns the dict:
\* the TypeError or AttributeError escapes from the coroutine.  (Siblings of
\* the gather still start: the behaviour in which they started before it.)
ClashJob(r, j) ==
  /\ MayStart(r, j)
  /\ ~ShapeFits(j)
  /\ pc' = [pc EXCEPT ![r] = AfterError(r)]
  /\ waits' = [waits EXCEPT ![r] = {}]
  /\ UNCHANGED <<gen, shape, meta, queued, batches, rows, levels>>

\* The last coroutine of the gather is suspended on its loads.
Suspend(r) ==
  /\ pc[r] = "starting"
  /\ waits[r] # {}
  /\ pc' = [pc EXCEPT ![r] = "loading"]
  /\ UNCHANGED <<gen, shape, meta, queued, batches, rows, waits, levels>>

\* Every future of the level is resolved.
EndLevel(r) ==
  /\ Quiet
  /\ pc[r] = "loading"
  /\ \A w \in waits[r] : \A k \in LoadKeysOf(w.job) :
       \E x \in rows : x.inst = w.inst /\ x.key = k
  /\ pc' = [pc EXCEPT ![r] = "ready"]
  /\ waits' = [waits EXCEPT ![r] = {}]
  /\ UNCHANGED <<gen, shape, meta, queued, batches, rows, levels>>

FinishRequest(r) ==
  /\ Quiet
  /\ pc[r] = "ready"
  /\ pc' = [pc EXCEPT ![r] = "done"]
  /\ UNCHANGED <<gen, shape, meta, queued, batches, rows, waits, levels>>

-----------------------------------------------------------------------------
(* Batches (aiodataloader, and the batch functions of factories.py).       *)

\* aiodataloader's dispatch_queue takes the whole queue of the instance.
Dispatch(i) ==
  /\ Quiet
  /\ \E q \in queued : q.inst = i
  /\ batches' = batches \cup
       {[inst |-> i, keys |-> QueuedKeys(i), phase |-> "taken",
         cols |-> {}, page |-> NoPage, begun |-> {}]}
  /\ queued' = {q \in queued : q.inst # i}
  /\ UNCHANGED <<gen, shape, meta, rows, pc, waits, levels>>

\* Without _query_meta the statement selects every column; with it, the
\* columns it names and those the loader adds.
ReadColumns(i) ==
  IF Attached(i) = {} THEN Columns ELSE Added[i.cls] \cup UNION Attached(i)

\* A page loader applies the parameters of the first command of its batch
\* to the whole batch; a remote loader those set on the instance.
ReadPages(b) == IF b.inst.params # NoPage THEN {b.inst.params}
                ELSE {k[2] : k \in b.keys}

\* The package a row of page p holds for a key with those rows: the page was
\* merged before the load, and is cut here or by a member.
Merged(p) == MergePaged(Declared[p], FromDict(Raw[p]))
PageRead(style, p, list) ==
  IF style = "remotePaged" THEN RemotePage(Merged(p), list) ELSE LocalPage(Merged(p), list)
PageDue(style, p, list) ==
  IF style = "remotePaged" THEN RemotePageAsked(Declared[p], Raw[p], list)
  ELSE PageAsked(Declared[p], Raw[p], list)

\* The requests that have begun.
Begun == {r \in Requests : pc[r] # "idle"}

\* batch_load_fn starts: it reads the metadata and issues its query.
RunBatch(b) ==
  /\ Quiet
  /\ b \in batches
  /\ b.phase = "taken"
  /\ \E p \in ReadPages(b) :
       batches' = (batches \ {b}) \cup
         {[inst |-> b.inst, keys |-> b.keys, phase |-> "running",
           cols |-> ReadColumns(b.inst), page |-> p, begun |-> Begun]}
  /\ UNCHANGED <<gen, shape, meta, queued, rows, pc, waits, levels>>

\* The query returns: the futures of the batch are resolved and stay cached.
BatchOk(b) ==
  /\ Quiet
  /\ b \in batches
  /\ b.phase = "running"
  /\ batches' = batches \ {b}
  /\ rows' = rows \cup [inst : {b.inst}, key : b.keys, cols : {b.cols},
                        page : {b.page}, begun : {b.begun}]
  /\ UNCHANGED <<gen, shape, meta, queued, pc, waits, levels>>

\* Mutant: only the request that queued a key hears of its failure.
AwaitsFresh(r, b) == \E w \in waits[r] : w.inst = b.inst /\ w.fresh \cap b.keys # {}

\* The request awaits a future of the batch.
Awaits(r, b) ==
  \E w \in waits[r] : w.inst = b.inst /\ LoadKeysOf(w.job) \cap b.keys # {}

\* batch_load_fn raises: aiodataloader clears the keys and sets the
\* exception on every future of the batch.
BatchFail(b) ==
  /\ Quiet
  /\ b \in batches
  /\ b.phase = "running"
  /\ batches' = batches \ {b}
  /\ pc' = [r \in Requests |-> IF Awaits(r, b) THEN AfterError(r) ELSE pc[r]]
  /\ waits' = [r \in Requests |-> IF Awaits(r, b) THEN {} ELSE waits[r]]
  /\ UNCHANGED <<gen, shape, meta, queued, rows, levels>>

Terminated ==
  /\ \A r \in Requests : pc[r] = "done"
  /\ queued = {} /\ batches = {}
  /\ UNCHANGED vars

StartStep(r) == \E j \in Jobs : StartJob(r, j) \/ ClashJob(r, j)
BatchStep == \/ \E q \in queued : Dispatch(q.inst)
             \/ \E b \in batches : RunBatch(b) \/ BatchOk(b) \/ BatchFail(b)

Next ==
  \/ \E r \in Requests : \/ BeginRequest(r) \/ BeginLevel(r) \/ StartStep(r)
                         \/ Suspend(r) \/ EndLevel(r) \/ FinishRequest(r)
  \/ BatchStep
  \/ Terminated

\* The event loop runs every ready task, and a query returns or raises.
Fairness ==
  /\ WF_vars(BatchStep)
  /\ \A r \in Requests : /\ WF_vars(pc[r] = "starting" /\ StartStep(r))
                         /\ WF_vars(Suspend(r))
                         /\ WF_vars(EndLevel(r))

Spec == Init /\ [][Next]_vars
FairSpec == Spec /\ Fairness

-----------------------------------------------------------------------------
(* Properties.                                                             *)

\* The rows a request's awaited loads resolve to.
Received(r) == {p \in waits[r] \X rows :
                  p[2].inst = p[1].inst /\ p[2].key \in LoadKeysOf(p[1].job)}

\* No N+1: within one generation of the cache a key is fetched at most once
\* per loader.  It is in the queue, or in one batch, or in one cached row.
OneFetchPerKey ==
  /\ \A b \in batches : \A c \in batches :
       b # c /\ b.inst = c.inst => b.keys \cap c.keys = {}
  /\ \A q \in queued : \A b \in batches : q.inst = b.inst => q.key \notin b.keys
  /\ \A x \in rows : [inst |-> x.inst, key |-> x.key] \notin queued
  /\ \A x \in rows : \A b \in batches : x.inst = b.inst => x.key \notin b.keys
  /\ \A x \in rows : \A y \in rows : x.inst = y.inst /\ x.key = y.key => x = y

\* A future a request awaits is still in a queue, a batch or the cache: a
\* batch that fails takes every request awaiting one of its keys with it,
\* also one that joined through the cache.
NoLostWakeup ==
  \A r \in Requests : \A w \in waits[r] : LoadKeysOf(w.job) \subseteq Held(w.inst)

\* Every row a request receives has the columns its consumer reads, whoever
\* fetched it (query_meta, split_loader_by_type, _remote_selection).
RowsCoverSelection ==
  \A r \in Requests : \A p \in Received(r) : Needs(p[1].job) \subseteq p[2].cols

\* The same for the keys the job itself put in the queue: metadata merged
\* onto a loader before its batch runs is never lost.
FreshRowsCoverSelection ==
  \A r \in Requests : \A p \in Received(r) :
    p[2].key \in p[1].fresh => Needs(p[1].job) \subseteq p[2].cols

\* Every page a request receives is the slice its caller asked for, whoever
\* asked through the same loader: the rows after its offset, at most as many as
\* its limit, the declared one or the default, and whether there are more.
PageParamsHonoured ==
  \A r \in Requests : \A p \in Received(r) :
    LET j == p[1].job
    IN IF j.page = NoPage \/ j.style = "remote" THEN p[2].page = j.page
       ELSE /\ p[2].page \in Pages
            /\ \A list \in Collections :
                 PageRead(j.style, p[2].page, list) = PageDue(j.style, j.page, list)

\* A request never receives a row read before it began: emptying the cache
\* at its start keeps every earlier request's rows out, though requests
\* overlap and share instances.
ReadsSinceBegin ==
  \A r \in Requests : \A p \in Received(r) : r \in p[2].begun

\* Every relationship load obtains a loader: get_loader never meets a slot
\* of the other shape.
NoShapeClash ==
  [][\A r \in Requests, j \in Jobs : ~ClashJob(r, j)]_vars

\* A level that awaits its loads ends, with the rows or with an error.
LevelSettles ==
  \A r \in Requests : (pc[r] = "loading") ~> (pc[r] \in {"ready", "done"})
=============================================================================
