# nexusx: a TLA+ verification project

nexusx turns SQLModel entities into a GraphQL API, resolves trees of pydantic
DTOs over the same relationships, exposes use cases to HTTP and MCP clients, and
federates several such services.  It runs on one asyncio event loop; what is
hard about it is what requests share while they overlap at their awaits, what
several services do to one another while they come up, and that the same
declarations are read by many walks that must come to the same answer.

In all modules with behaviours **a step is the code between two awaits**, or a
part of it no other task can observe: asyncio runs one task at a time, so
nothing interleaves inside it.  File names below are relative to
`src/src/nexusx`.

## 1. Inventory

| Component | State | Operations | Interacts with | Hard behaviour | Correct when | Module |
|---|---|---|---|---|---|---|
| DataLoader registry (`loader/registry.py`, `query_meta.py`, `factories.py`) | `_loader_instances`, `_query_meta` of instances; queue, batches and cache of each aiodataloader | `get_loader`, `clear_cache`, `merge_query_meta`, `set_query_meta`, `batch_load_fn` | called by every load | instances shared by levels, jobs and overlapping requests; metadata set before and read after a queue hop; failing batches | one fetch per key; each consumer gets its columns and page; no row older than the request; every await wakes | `Loaders` |
| Pagination (`loader/pagination.py`, `factories.py`, `standard_queries.py`) | none | `from_dict`, `_merge_paged`, `clamp`, `effective_limit`, the windows of page loaders and `page_by_<key>_in` roots | dispatch, members | zero, omitted, past the end, the peek row | the page is the slice asked for, has_more exact | `Paging` |
| Resolver (`resolver.py`, `context.py`) | levels, `node_id_to_ln`, collectors, exposed values, `_traversable_fields_cache`, `_in_resolve` | `resolve`: phase A (resolve_*, auto-load, next level), phase B (collectors, post_*, SendTo) | registry, DTO classes | gather of coroutines, a failing or cancelled one, shared nodes, re-entry | a collector is complete before it is read; every node visited once; the guard falls with its call | `ResolverTraversal`; its loads in `Loaders` |
| DTO subsets (`subset.py`) | classes made at import | `SubsetMeta.__new__`, `build_dto_select` | Resolver, federation | keys added and hidden, definitions refused | every relationship an accepted class declares can be loaded | `DtoSubset`, `SubsetResolution` |
| GraphQL executor (`execution/query_executor.py`) | `_results` by `(id(entity), field)`, shared by all requests; group, `mutation_aborted` per request | `execute_query`, `_execute_entity_group` | user methods, resolver, registry | overlapping requests, address reuse, fail-stop across groups | one answer per field; skipped exactly after a failure; a relationship is its own entity's | `QueryExecutor`, `SerialExecution` |
| Federation bring-up (`federation/manager.py`, `registry.py`, `remote_ref.py`, `introspect.py`, `loader/registry.py`) | materialized types, pending subsets, resolved annotations, wired loaders, version | `initialize`/`federate`, `add_virtual_entities`, `create_resolver` | members' live registries | transitive and mutual discovery, failure at any step, retry | bring-up ends; what is served is closed; subsets and loaders agree on classes | `Federation` |
| Federation remote loaders (`federation/remote_loader.py`) | selection and page on an instance | `fetch_remote_subtree`, batch functions | registry, transport | selections and pages of concurrent groups | each key its own columns and page | `Loaders` |
| Composed registry (`loader/composed.py`) | routes, cross-boundary loaders | construction, `get_loader`, `clear_cache` | member registries | members go on wiring | a load reaches its owner | `Federation` |
| Handler, SDL and introspection (`handler.py`, `sdl_generator.py`, `introspection.py`, `utils/*`) | generators cached by registry version | `get_sdl`, `__schema` | registry | two walks at two moments over a changing registry | one schema, closed, current | `GraphqlSchema` |
| Use-case schema and surfaces (`use_case/*`) | type registry of a compose schema, app index | build, describe, JSON-RPC, REST, MCP tools | services | names that meet, surfaces that publish the same methods | one meaning per name; what is published can be called | `UseCaseServices`, `ComposeSchema`, `UseCaseServer`, `UseCaseDescriptions` |
| Use-case executor (`use_case/compose_executor.py`, `compose_mcp_server.py`, `jsonrpc.py`, `router.py`) | results, errors and `mutation_aborted` of a request; confirmation legs | concurrent queries, serial mutations, batches | services, human behind a client | cancellation, fail-stop over services, confirmation in a later leg | mutations serial and accounted for; nothing before consent; batch aligned | `UseCaseExecutor` |
| Query parser (`query_parser.py`) | none | operations, groups, key conflicts | executors | two selections under one key | merged or refused | in `UseCaseExecutor` |

`PROJECT.json` lists every component, with its status and what of it is left
out, and the hazards of the code at the line where each bites, with the
properties that catch it.

How a GraphQL request runs: `GraphQLHandler.execute` parses and validates, then
`QueryExecutor.execute_query` empties the loader registry and `_results` and
runs its entity groups in order.  A method returns entities; the Resolver
dispatches their selected relationships level by level, each level a `gather`
of loads; a load gets an instance from the registry, attaches the columns it
wants, and awaits futures that batches resolve.  Values are stored in `_results`
and read back while the response is built.  A DTO request calls
`Resolver.resolve`, which empties the same registry and loads through it.  A
use-case request calls service methods, which may do either, and projects what
they return.

## 2. Modules

| Module | What it is |
|---|---|
| `Paging` | the arithmetic of a page |
| `Loaders` (EXTENDS `Paging`), `MCLoaders` | loader registry, batches and levels of loads of overlapping requests |
| `QueryExecutor`, `MCQueryExecutor` | the GraphQL executor, for overlapping requests |
| `SerialExecution` | what the executor promises: requests served one field after the other, nothing shared |
| `ResolverTraversal` | `Resolver.resolve` over trees of DTO nodes |
| `DtoSubset` | what `DefineSubset` makes of a class body |
| `SubsetResolution` (EXTENDS `ResolverTraversal`, `DtoSubset`), `MCResolver` | nodes of DefineSubset classes in the hands of a Resolver; trees, and trees for each accepted definition of a family of subsets |
| `Federation` | services that mount each other come up, fail, are retried and composed |
| `GraphqlSchema` (EXTENDS `Federation`), `MCFederation` | the two renderings of every registry on the way |
| `UseCaseServices` | applications of services and what every surface reads of them |
| `ComposeSchema` (EXTENDS `UseCaseServices`) | the type registry of use-case services, the mapper that fills it, and its renderings |
| `UseCaseExecutor` (EXTENDS `UseCaseServices`) | one request over MCP, JSON-RPC or REST, over any schemas |
| `UseCaseServer` (EXTENDS `UseCaseExecutor`, `ComposeSchema`) | the executor over the schemas its applications publish |
| `UseCaseDescriptions` (EXTENDS `UseCaseServer`), `MCUseCase` | what a server tells of itself: types, examples and selections that fit, by recursion over classes |
| `Subsequences` | the part of a sequence at given positions, and concatenation: filters of lists, so that proofs can speak of positions |
| `LoadersProofs`, `QueryExecutorProofs`, `SubsequencesProofs`, `ResolverTraversalProofs`, `FederationProofs`, `GraphqlSchemaProofs`, `UseCaseExecutorProofs`, `ComposeSchemaProofs` | the theorems of section 4 |

Composition: `Loaders` cuts its rows with `Paging`; `SubsetResolution` says
what `ResolverTraversal` knows of the classes and nodes `DtoSubset` makes; `GraphqlSchema` renders the registries
`Federation` reaches; `UseCaseServer` gives `UseCaseExecutor` the schemas
`ComposeSchema` builds; `QueryExecutor` instantiates `SerialExecution` under a refinement
mapping.  `ResolverTraversal` sees a load as one step that returns or raises,
which is what `Loaders` shows of a level (`LevelSettles`).

### Paging

`MergePaged`, `FromDict`, `Clamp`, `EffectiveLimit` and the windows follow the
functions of their names; an optional argument is the empty set or the set of
its value.  `LimitAsked`, `OffsetAsked` and `Slice` are the reference: what the
caller asked for, read off the arguments without merging.

### Loaders

A **job** is one relationship loaded for the parents of one level; its style
says which code path issues it, and the operators `TypeKey`, `ParamsKey`,
`UseSplit`, `LoadKey` and `Needs` say what that path passes to `get_loader`, to
`load` and what it later reads.

| State | Code |
|---|---|
| `gen` | the contents of `_loader_instances` are those created since the last `clear_cache`; an instance is named by its class, its split key and the generation that created it, so it survives in the hands of requests that still await it |
| `shape` | what `_loader_instances[cls]` holds: nothing, a loader, or a dict |
| `meta` | `_query_meta` or `_remote_selection` of an instance |
| `queued`, `batches`, `rows` | `_queue`, dispatched batches and resolved futures in `_cache` of aiodataloader |
| `pc`, `waits`, `levels` | where a request is, the futures it awaits, the levels it began |

| Action | Code |
|---|---|
| `BeginRequest` | `clear_cache` at the start of `execute_query` and `resolve` |
| `BeginLevel`, `StartJob`, `Suspend` | a gather starts, its coroutines run one after the other to their first await |
| `ClashJob` | `get_loader` meets a slot of the other shape and the coroutine raises |
| `EndLevel`, `FinishRequest` | all futures resolved; traversal over |
| `Dispatch`, `RunBatch`, `BatchOk`, `BatchFail` | aiodataloader takes the queue; `batch_load_fn` reads metadata and issues its query; it returns, or raises |

While a request is between two coroutines of its gather (`pc = "starting"`)
nothing else runs (`Quiet`).  Batches are dispatched by tasks, so metadata may
be replaced between the queueing of a key and the run of its batch.  A row is
the columns read, the page arguments it was cut with and the requests that had
begun when it was read.  `ReadColumns` are those merged onto the loader and
those it adds by itself (`Added`: its join column, the primary key, the sort
columns of its pages), or all when nothing was attached.  `PageParamsHonoured`
compares the page a consumer receives with the slice it asked for, for every
list of rows up to a bound.  A remote relationship's nested selection is a set
of paths and `SqlColumn` maps a path to the column `type_key` keeps of it.
aiodataloader is modelled from how `load`, `load_many` and `batch_load_fn` are
used and is marked external.

### QueryExecutor and SerialExecution

| State | Code |
|---|---|
| `pc`, `pos` | the await a request is at; the method field it is at |
| `held` | the entity its local `result` refers to, by address |
| `results` | `_results`, by address and name of the relationship |
| `aborted` | `mutation_aborted` or `group_failed` |
| `answers` | the response, one entry per method field |

`BeginRequest` empties `results`; `Reject`, `Skip`, `CallMethod`, `MethodFails`,
`MethodReturns`, `ReturnsWithoutLoad`, `LoadResolves`, `Serialize` and
`SerializeDetached` are the branches of `_execute_entity_group`; `Fail` is its
`except` branch and `Respond` what every branch does.  An entity takes any
address no live entity has.  That of an earlier one is free when `result` is
rebound or the frame of the group ends, and `result = method(**args)` binds the
coroutine of an async method before it is awaited: `CallMethod` releases the
previous entity, and other requests, or the method itself, may be given its
address.  A plain function runs inside the call, while `result` still refers to
the previous entity, and returns in the same step (`Running`).  What is stored
under a freed address stays until a request begins.

`SerialExecution` has no store, no addresses, no loads and no overlap: a field
is answered when its turn comes, with what its status allows.  Two findings of
section 5 stand between it and an executor with no faults, so it lets a loaded
relationship be lost (`executor_pair`) and lets a null key answer with another's
value (`executor_reuse`), and nothing else.

### ResolverTraversal and DtoSubset

| State | Code |
|---|---|
| `heap`, `traversable` | the fields of the nodes; `_traversable_fields_cache` |
| `running`, `latest` | `_in_resolve`, and the call that set it |
| `visits`, `depth` | the `_WorkItem`s of all levels; the level at work |
| `jobs`, `outputs` | resolve_* coroutines that have not ended, of any call; what those of the level returned |
| `autoLeft`, `autoItems`, `loaded` | groups of `_batch_auto_load` to run, `auto_children`, `loaded_field_keys` |
| `collectors`, `collected` | `_node_collectors` and the collectors' values |
| `posted`, `reads`, `strays` | history for the properties |

| Action | Code |
|---|---|
| `Begin`, `Refuse` | `resolve` enters, or finds `_in_resolve` set |
| `ResolveReturns`, `ResolveRaises` | the rest of a resolve_* coroutine; the first error leaves the gather and the call, siblings go on |
| `AutoLoadGroup`, `AutoLoadRaises` | one (class, field) group of `_batch_auto_load` |
| `EndLevel` | the next level is built from results, auto-loaded children and fields as they stand; after the last one collectors are made |
| `RunPosts`, `EndPosts`, `PostRaises` | phase B of a level, deepest first |
| `Cancel` | the caller's task is cancelled at an await |

What a comprehension of the code filters is `Pick` or `InOrder` of the positions
that pass, and what it flattens is `ConcatMap`.

`DtoSubset` has no behaviour: its operators say which fields a definition
gives, which keys are added and hidden, which definitions are refused, and what
an instance made by the projection of a row or by `build_dto_select` holds.
`SubsetResolution` joins the two: a tree says which nodes are instances of a
definition, and `MadeBy` what the Resolver then finds of their fields and keys.
`MCResolver` walks an instance of each accepted definition, so that
`DeclaredRelationshipsLoad` compares what the class statement promises with what
the traversal does.

### Federation and GraphqlSchema

| State | Code |
|---|---|
| `er` | an `ErManager`: `reg` (class → relationships), `version`, `fed` (`FederatedTypeRegistry`), `loaders` of DTO fields, whether frozen |
| `work` | the locals of a running `federate()`: queue, visited, fragments, endpoints, who is still asked for DTOs |
| `subsets` | `_pending_subsets` and the classes each bound subset refers to, `anno` what RemoteRef fields became |
| `entities` | the generators of its handler: version, entity list, registry of that moment |
| `composed` | a `ComposedErManager`: routes fixed at construction, cross-boundary relationships |
| `pc`, `tries`, `spoilt`, `lost` | where a call is, its tries, whether one failed, requests that raised |

The declarations of a world are those the code accepts, and no others
(`Accepted`).  `__init__` registers an ORM relationship only if its target is one
of its entities, and a custom one whatever class it leads to (`Built`); a class
given to `add_virtual_entities` brings its own `__relationships__` (`own`), custom
ones and RemoteRelationships, and is refused when they repeat a name, after those
met before have been queued.  So a custom relationship of a class of the program
may lead to a class that is no entity, which `SchemaClosed` names as its one
exception, and a refused class may be registered later by a RemoteRelationship
it left in the queue (`WireRelationships`).

`Initialize`, `Discover`, `FetchFragments`, `MaterializeTypes`, `AskDtos` and
`Wire` are the parts of `initialize()`/`federate()` between awaits, each with
its error path; `TransportRaises` is a request that raises; `AddVirtualEntities`,
`CreateResolver`, `ReadSchema` and `Compose` are the calls an application makes
meanwhile.  A class is named by its service, its type and the attempt that
materialized it, so that classes of a failed attempt stay distinct.  `Wire` runs
the synchronous rest of `federate()` part by part: `MaterializeDtos`,
`BindSubsets`, `ResolveFields`, `WireFields`, `WireRelationships` and
`RegisterTypes` each take what the one before left and run only if none raised.
A part that is a loop does what its iterations do up to the first that raises
(`Until`); `Outcome` is what `resolve_deferred_subsets` does with one pending
subset: bind it, leave it, or raise.

`GraphqlSchema` has no actions of its own: `Sdl` and `Introspection` are the set
of definitions each generator prints from a `View`, which is what its cache took
at one moment and what the registry holds at another.  `Strays` are the classes
that custom relationships of a view lead to and that no entity is named like: the
SDL prints their names, which it does not define, and introspection answers
`String`.  The two properties state that difference and allow no other
(`AgreeOnStray`).

### UseCaseServices, ComposeSchema and UseCaseExecutor

`UseCaseExecutor` knows a schema by two constants: `Buildable`, the applications
whose compose schema can be built, and `Projects`, whether `build_model` takes a
selection of a class.  What it runs does not depend on them otherwise, so its
theorems hold for every schema; the run gives them the values `BuiltSchemas` and
`SelectionFits`, of `UseCaseServer` and `UseCaseDescriptions`.  The log of a request is history
for the properties: a "start" names all that is started at once, one mutation or
the queries of a group.

`BuildComposeSchema` is `build_compose_schema` with the mapper it runs
(registration of results before arguments, renaming, refusal).  The mapper calls
itself for the classes of fields; in the model the calls that are open are a
stack (`open`) and `MapStep` maps one annotation or returns from the innermost
of them, so that a mapper is a state, and what holds of it between two steps can
be stated: a stub is in the registry while its fields are walked, and what is in
it already is final.  The others are
the readers of the registry: introspection, full and per-method SDL, MCP
descriptions, JSON-RPC schema, REST routes, `describe_service`, `build_model`.

| Action of `UseCaseExecutor` | Code |
|---|---|
| `Receive`, `NotFound` | the request finds its server and app |
| `GateOpen`, `Elicit`, `HumanAnswers`, `GuardLegAsks`, `CallAgain` | the confirmation gate of `compose_query`, by elicitation or by a later leg |
| `ExtractContext`, `ParseDocument`, `PlanError` | context extractor; parser and checks; a group that cannot be planned |
| `StartGroup`, `QueryEnds`, `Gather` | the queries of a group run concurrently |
| `StartMutation`, `MutationEnds`, `SkipMutation`, `NextGroup`, `AnswerData` | its mutations one by one; the next group; the answer |
| `Cancel` | the caller gives up at any await |
| `CheckItem`, `StartItem`, `EndItem`, `AnswerBatch` | JSON-RPC |
| `SolveDependency`, `CallRoute`, `EndRoute` | REST |

## 3. Runs

| Run | Question | Bounds |
|---|---|---|
| `loaders_split` | with `split_loader_by_type`, does everybody get its columns, from one fetch per key, never older than the request, and does every level end? | a GraphQL request and a Resolver request over one relationship; two keys, two columns, five jobs (two selections, two DTOs, one `Loader("owner")`), two levels of up to two jobs |
| `loaders_default` | without it, are selections merged in time and does everybody get the page it asked for? | a GraphQL request over a plain relationship and a remote page of two sizes (one above the member's maximum), two Resolver requests that auto-load one local page (one past the end, one of default size); lists of up to five rows, page size 2, maximum 3; one level of up to two jobs each |
| `executor` | are fail-stop, ownership and completeness exact while requests overlap, and are the responses those of requests served one by one? | a mutation of six fields over three groups (async methods and plain functions, unknown method, unknown group, null key), and a query of four; two relationships, three addresses |
| `resolver` | do context, collectors and posts meet in the documented order, is each node walked, does the guard follow the running call, do accepted subsets load what they declare? | two calls on one Resolver, eight nodes; an epic of two sprints, a tree of five levels mixing given, resolved and auto-loaded fields (also with nodes that lack a key, and with a class scanned before), a node shared by two parents, an unregistered class; and one instance per accepted definition of a family of subsets (three modes, keys listed or not, extra fields of every kind, public or not, from either way of making a row, with and without a NULL key) |
| `federation` | does bring-up end, is what it leaves closed and consistent, do caches and both renderings follow? | up to three services in thirteen worlds: mutual mounts, a chain, a type registered late or with an invalid key, a member without DTO answers or with another name, two types of one name, a composition, a service with methods, inputs, enums and pages, virtual entities with relationships of their own (to a class that is no entity, remote, and one refused for a repeated name), and a member with a custom relationship to an unregistered class and an ORM relationship to an unlisted one; at most one request lost and two attempts each |
| `usecase` | are mutations serial, confirmed and accounted for, batches aligned, and is what the surfaces of a service publish what can be called? | one request in 38 worlds: documents of up to two groups and six selections, with aliases, failures, two operations, unknown names; elicitation, guard legs (at most three) and no confirmation; batches of up to six items; REST; seven applications, two of which cannot be built |
| `loaders_revisit`, `loaders_two_pages`, `loaders_mixed`, `loaders_nested`, `executor_pair`, `executor_reuse` | the findings of section 5 | the smallest instance that shows each |

Why the bounds are enough.  Auto-load awaits its groups one after the other, so
two page sizes of it share a batch only when two Resolver requests overlap:
`loaders_default` has three requests.  Otherwise two requests are what it takes
to empty a cache under another's feet, to join its batch and to fail it; two
keys make batches of several keys that are shared in part; two columns make
selections that are incomparable, nested and equal; a second level revisits what
the first cached.  Three addresses let two requests hold one each with one free.
Five rows are one more than the largest page and its peek row, and reach past
every offset in use.  Five levels let
a collector, an exposing node and a sender all have a node of the alias between
them, two calls let a failed one leave coroutines behind under the next.  Three
services make a cycle and a chain; one lost request and a second attempt reach
every partial state a failure can leave, since attempts share nothing else.
Two groups with queries and mutations let a failure stop a later group.
`MaxLevels`, `MaxWidth`, `Addresses`, `MaxTries`, `MaxLost` and `MaxLegs` bound
what the program leaves unbounded; each is a constant.  So is `MaxSteps`, of a
mapper, which cuts nothing off: `StepsSuffice` is an assumption of
`ComposeSchema`, and TLC evaluates it.

Deadlock is checked for `Loaders` and `QueryExecutor`, where `Terminated` is the
only step of a finished system.  `resolver`, `federation` and `usecase` turn it
off because there a system really stops: calls ended, services up and tried as
often as the world says, a request answered.  What must not stop is what
`EveryCallEnds`, `BringUpEnds` and `RequestsEnd` say.

### Fairness

`Loaders`: weak fairness of batch steps together (the event loop runs each ready
task, and a query returns or raises), of the start of coroutines of a gather, of
their suspension and of the resumption of a gather whose futures are resolved.
None on a request beginning, beginning a level or finishing, nor on a query
succeeding: `LevelSettles` is about the futures alone.

`QueryExecutor`: weak fairness of each request's steps: a called method returns
or raises, and so does a load.

`ResolverTraversal`: weak fairness of the steps of each call and of the end, in
either way, of its coroutines.  None on calls beginning or being cancelled.

`Federation`: weak fairness of the steps of each running `initialize()`; a
request is answered or raises.  None on initialization being called or retried,
on entities, resolvers, renderings or compositions.

`UseCaseExecutor`: weak fairness of the server's own steps, of the end of
methods, and of the human answering an elicitation.  None on a client calling
again after a guard leg, and none on cancellation: a request that is only asked
counts as ended.

## 4. What is proved

Checked with TLAPS for every value of the constants that satisfies the named
assumptions of the modules: any number of requests, jobs, keys, columns, levels,
addresses, rows, services, calls and nodes.

| Theorem | Property | Argument |
|---|---|---|
| `LoadersProofs!TypeCorrect` | `TypeOK` | strengthened with `GenerationLive`: no job starts before a request emptied the cache, so every instance belongs to a request |
| `OneFetch` | `OneFetchPerKey` | inductive with the types: a key joins a queue only if queue, batches and rows of its instance lack it, and each batch step moves it on |
| `WakeupsKept` | `NoLostWakeup` | inductive with the types: a failed batch removes exactly the keys whose waiters it removes |
| `FreshReads` | `ReadsSinceBegin` | `ReadsInv`: the request that made the current generation is the last that began, so what is read through an instance is read after every request that can hold it began |
| `SplitModeCovers` | `RowsCoverSelection` | `SplitInv`, under `PreciseJobs` (split mode, local relationships, no selection of `__typename` alone): an instance with a type key serves only consumers of exactly those columns, and has its metadata before anything is queued; one without has no metadata and reads whole rows |
| `FreshCover` | `FreshRowsCoverSelection` | `FreshInv`, under `MergingJobs` (local selections, and DTOs in split mode or with a page): what a request awaits stays among the columns attached to its instance, whoever merges or replaces them, hence among those its batch reads |
| `PagesHonoured` | `PageParamsHonoured` | `PagesInv`, under `OwnPages` (local pages are asked for by auto-load only): a job gets the instance of its page, an instance cuts by its own parameters; then `LocalPageIsAsked` and `RemotePageIsAsked` say the cut is the slice asked for |
| `LocalPageIsAsked`, `RemotePageIsAsked` | | merging keeps explicit zeros apart from omissions, the window reads one row more, and cutting it back gives the slice and has_more, whether or not a sender clamped before |
| `QueryExecutorProofs!TypeCorrect` | `TypeOK` | strengthened with `PcInv`: what the program counter says of position and held entity |
| `OneAnswer` | `OneAnswerPerField` | `AnswersInv`: the answered positions are exactly those a request has passed |
| `FailStop` | `SkippedIffPriorFailure` | `FailStopInv`: `aborted` says whether an earlier field of a mutation failed |
| `LoadedIsOwn` | `LoadedRelationshipIsOwn` | `OwnInv`: live entities have different addresses, and between storing and serializing the key of an entity holds its own value or nothing, though addresses are given out again while methods run |
| `Serializes` | `ExecutesSerially` | refinement: under the mapping of `QueryExecutor!Serial` initial states map to initial states, and each step answers the field due, begins or ends a request, or stutters; `aborted` is `Stopped` by `FailStopInv`, what is answered is `Servable` by `OwnInv` |
| `ResolverTraversalProofs!GuardHeld` | `GuardIsTheRunningCall` | `GuardInv`: a coroutine knows its call, so the error of one of an ended call takes no other with it |
| `ResolverTraversalProofs!TypeCorrect` | `TypeOK` | part of `TraversalInv` |
| `NearestAncestorHolds` | `NearestAncestorIsExposed` | `TraversalInv`: every entry has the context its path calls for; the next level is made of entries below those of this one, so the nearest exposing node of a child is its parent or the parent's nearest |
| `PostsFollow` | `PostsAfterDescendants` | `TraversalInv`: while posting, the entries whose posts have run are exactly those of deeper levels, and a descendant is deeper |
| `CollectorsHold` | `CollectorsComplete` | `CollectInv`: while posting, a collector lists, each once, the entries of posted levels that send to it with no nearer collector of the alias; the snapshots a level hands down are those of its parents with its own collectors put over them |
| `EachNodeOnce` | `EveryNodeVisitedOnce` | `WalkInv`: of the entries of a level, each `resolve_*` has returned or still runs, each auto-load group is left or has been appended, and what was loaded stands in the heap; so when the level settles the next has an entry for each node a followed field holds. In a tree each entry has a single place of origin, so none is appended twice |
| `DeclaredLoad` | `DeclaredRelationshipsLoad` | `WalkInv` again, whose `WrittenInv` says that what a call loads stands in the heap, and `KeyHeld`: the key of a relationship is a primary key, a foreign key or declared, so `KeysAdded` has it unless the definition omits it, and then it is a primary key or the definition is refused |
| `FederationProofs!SchemaCacheFresh` | `EntityCacheFresh` | `CacheInv`: a step of a manager moves its version, or keeps its registry, or has failed and spoilt it |
| `ComposedRoutes` | `ComposedLoadersRoute` | `OwnerInv`: a route fixed at construction names the class's maker, which never changes, and the search finds the rest |
| `FederationProofs!TypeCorrect` | `TypeOK` | `FedInv`, of every manager and of the locals of every running `federate()` |
| `SchemaIsClosed` | `SchemaClosed` | `FedInv`: what a fragment leads to is held or queued until the queue is empty; `WireInv` carries it through the parts of `Wire`: what is coalesced on a class leads to classes of the same call, and what is still to be wired is among the pending declarations, those of virtual entities included (`TargetsKnown`, whose second disjunct is the custom relationship).  Under `OwnNames` |
| `SubsetsBind` | `SubsetsBoundTogether` | `SubsetInv`: a pending subset is unbound and pending once, and a part that raises after binding has spoilt its manager.  Under `SubsetsOfEntities` and `[]EachMountsItsOwn` |
| `FieldsMatch` | `FieldLoadersMatch` | `FieldInv`: what a call is to wire was among its targets when it began, or was bound by the call itself, so annotation and loader get the class of the same call, and no other call touches the field.  Under `FieldsOnce` and `[]EachMountsItsOwn` |
| `GraphqlSchemaProofs!SchemasAgree` | `RenderingsAgree` | `CacheInv` gives that a cache of a served handler was filled from the registry as it is now, `FedInv` and `SchemaInv` that its relationships, custom ones aside, lead to registered classes (`GoodView`); of such a view the two generators print the same enums, inputs, entities and groups (`ViewRendersAlike`).  What an annotation reaches is closed because each round reaches a new model or none (`Reached`).  Under `Regular` |
| `SchemasWellFormed` | `SchemaWellFormed` | of a `GoodView`, the parts of a document have names of different shapes or of disjoint sets (`DefinedOnce`), and each reference is built in, an entity, or what one of the collectors reached (`DocumentWellFormed`), or in the SDL a stray.  Under `Regular`, of views in which no class of the program has a column of the name of one of its paginated relationships (`ColumnsApart`) |
| `UseCaseExecutorProofs!TypeCorrect` | `TypeOK` | `RequestInv` |
| `ConfirmationHolds` | `ConfirmedFirst` | `ConfirmInv`: past the gate the log holds an acceptance with no refusal after it, in whichever leg it was given |
| `BatchesAligned` | `BatchAligned` | `BatchInv`: an item has a result exactly when its own call returned, and only its own steps move it |
| `MutationsAreSerial` | `MutationsSerial` | `LogInv`: what has started is open or has ended, `aborted` says whether a mutation failed, and a cancellation not yet passed on is still among the tasks |
| `AnswersAccount` | `WritesAccounted` | `AnswerInv`: the places a request is past are accounted for and no others have errors; a task holds what its call returned until it is gathered |
| `ComposeSchemaProofs!RegistryMeansOne` | `RegistryOneMeaning` | `MapperInv`, of a mapper between two steps: every entry is a scalar, an enum or a model whose fields are mapped as far as its walk is, every name a walk refers to is registered in its kind, and the open walks are a chain.  Two mappers that answered the same calls in another order have met the same classes (`Met`), give each the same name (`SameNames`) and so have the same registry (`SameRegistry`); one fails only if the other does (`MappedFits`); and the types mounted on it have the same sets of fields (`DescribedAlike`).  Under `NamesApart` |
| `FragmentsAllClosed` | `FragmentsClosed` | `SchemaRefers`, of `MapperInv`: what a type refers to is in the registry; the closure from a field is closed because each round adds a type or none (`SpreadClosed`).  Under `NamesApart` and `NamesKept` |
| `SubsequencesProofs!PickIsSubsequence`, `ConcatMembers`, `AppendedOnce`, `ConcatOnce` | | what the filters and concatenations of the models return, for every sequence |

The properties are not inductive as they stand: an instance outlives its
generation, so `ReadsSinceBegin` must speak of batches still running and of
requests yet to await; `LoadedRelationshipIsOwn` is about answers already given,
when the store they came from may have been emptied since; a guard says nothing
of coroutines that are still to end; `CollectorsComplete` speaks of what a post
method has read, when what it is due was sent level by level before;
`EveryNodeVisitedOnce` compares fields as they stand at the end with a walk that
followed them levels earlier;
`SchemaClosed` is about a service that came up, when its relationships are what
a queue of fragments promised many steps earlier; `WritesAccounted` is about an
answer, when what it says was logged by steps of several groups;
`RegistryOneMeaning` compares two finished registries that were never in the
same state on the way.

The assumptions are where the findings are: `PreciseJobs` leaves out
`loaders_nested`, `FreshCover` speaks of keys a request queued itself, which
those of `loaders_revisit`, served from the cache, are not, `OwnPages` leaves out
`loaders_two_pages`.  The theorems of `Federation` name what their properties
need of a deployment, and the worlds of `MCFederation` satisfy all of it:

- `OwnNames`: no service advertises the name of another.  A service that does
  has its fragments taken for the other's.
- `EachMountsItsOwn`: what a subset is made of is mounted by its owner only.
  Pending subsets are global to the process and any manager that mounts the
  service binds them to its own classes; the docstring of
  `resolve_deferred_subsets` supports ErManagers "each mounting different
  services".
- `SubsetsOfEntities`, `FieldsOnce`: a subset is made of an entity, not of
  another service's DTO of that name; a field is declared by one class.

`ResolverAssumption` types the class descriptions and trees, and holds what a class
body guarantees (`FieldsDiffer`): a field is declared once, and one that holds nodes
is not one that holds a scalar.  The first
part of `EveryNodeVisitedOnce` is about calls into whose tree no ended call wrote
and whose class-level cache was not filled under another registry: in both cases
the code does follow fields other than those the tree ends with.  `SubsetAssumption`
is the link `MadeBy` of the trees; it does not ask that a relationship is
registered or its key set, which `DeclaredRelationshipsLoad` names as conditions.

- `Regular`, of the two documents: entities, inputs and enums have different
  names, none of them one the generators make up; no method returns an input and
  no column holds one (it dangles in the SDL, section 5); a virtual entity of a
  service that serves a schema has no methods (the introspection never lists
  them); and an ORM relationship leads to an entity of its service
  (`MappedListed`).  The last is for the case that a class left out of `entities`
  has the name of one that is materialized; where it has not, neither document
  shows the relationship.  TLC evaluates it on the worlds of the run but one
  (`MCWorldsRegular`), `Strayed`, whose agreement the run shows.
- `ColumnsApart`, of well-formedness: introspection asks the registry by name
  whether a field is paginated, so a column of that name would refer to a result
  type of its own type.  It holds in every state of the run.
- `NamesApart`, of an application: no class has the name of a scalar, the name
  `{Name}Input` an input type is renamed to, or that of a type that serves
  methods.  The mapper refuses two classes of one name, but these names it
  overwrites or reuses without looking (section 5), and then the order of methods
  does decide what a type means.  Applications in which two classes share a name,
  and so have no schema in any order, are not left out.
- `NamesKept`: no class or service has a name the full SDL takes for a service
  type and leaves out (`Query*`, `Mutation*`).  TLC evaluates both on the
  applications of the run (`MCNamesApart`).

`FederationAssumption` holds what Python types and `__init__` guarantee of the
declarations: no two relationships registered for an entity have one name.  That
targets are registered is not assumed.

`Concat`, `Spread`, the runs of a mapper and the snapshots of a traversal are
recursive functions.  What is
proved of them is proved from the least position at which it would fail
(`LeastNat`): the library's induction theorems take an operator, which no
installed prover can instantiate, but a least element of a set of naturals needs
none.

Model-checked only:

- `LevelSettles`, `RequestAnswered`, `EveryCallEnds`, `BringUpEnds` and
  `RequestsEnd`: liveness under fairness is out of the prover's reach, and so is
  ENABLED.
- `SurfacesAgree`: that the schema, JSON-RPC and REST publish exactly what can be
  called and `describe_service` the disabled mutations too.  The descriptions and examples it speaks of are made by
  recursion over the fields of classes (RECURSIVE operators, which no module with
  theorems may reach); they stand in `UseCaseDescriptions` for that reason.

## 5. Where the code and its words disagree

| Run | What the code does | What it says |
|---|---|---|
| `loaders_revisit` | columns merged onto a loader do not reach a key it has cached: `{ tasks { owner { name tasks { owner { email } } } } }` is served the row read for the outer level, with its key and name and without email | feature-highlights: every consumer's columns are present |
| `loaders_two_pages` | two limits of one local relationship on one level share a batch, which uses the first | `pagination.py`: all commands of a batch share their PageArgs |
| `loaders_mixed` | in split mode typed and untyped calls for one loader class clash on the shape of the slot | `get_loader` docstring and comments |
| `loaders_nested` | remote selections that differ only below a nested relationship share an instance, and the last selection wins | `remote_loader.py`: distinct selections get distinct instances |
| `executor_pair` | a request that begins empties the result store under another, whose response then loses a relationship | the docstring of `_dispatch_entity_fields`: serialization reads what was stored |
| `executor_reuse` | the store outlives the entity whose address keys it: of two methods of one group that answer a Task and select its owner, the second Task may take the address of the first, and without an owner it is served the owner of the first | the entity-group docstring: sequential execution preserves store-then-read |

The quoted lines are in `PROJECT.json`.

### Met while modelling, with no run of their own

These are what the models do, because the code does it; the properties state
their exceptions.  They are observations of the source, in the module that shows
them.

Pagination: a local page loader announces `has_more` after a page of limit 0,
the member's root does not; `Paged.clamp` says its senders call it before the
wire, but only `fetch_remote_subtree` does; a DTO root without an order profile
ignores its limit and is empty for limit 0; the fallback count of a many-to-many
page counts dangling link rows.

`DtoSubset`, `ResolverTraversal`: `build_dto_select` leaves out auto-excluded
keys, so DTOs made of its rows lose the auto-loads keyed by them; an omitted key
is only missed when it is a real foreign key named after the relationship
(`<rel>_id`); naming a relationship among the subset fields drops the field; the key of a
relationship joined on a column that is neither primary nor foreign key is not
added, and the load is skipped; a
node reached twice keeps the collectors of its last visit, which mis-routes what
is sent below it; the class-level cache of traversable fields depends on whether
a registry was there when it was filled; a class with a collector and a SendTo
of one alias swallows its own value; a cyclic object graph never ends; late
coroutines of a failed call write into nodes a later one walks (`strays`).

`Federation`: a second `initialize()` after a success with DTO references
replaces the federated registry with an empty one; a retry leaves subsets bound
to the classes of the first attempt; a failed `add_virtual_entities` leaves
entities registered without a new version, and its retry raises; one refused for
a repeated relationship name leaves the RemoteRelationships met before it queued,
and `federate()` registers the class with those; "fail-fast
before frozen" does not hold where `create_resolver` precedes `initialize`;
success depends on the order in which members start; two managers that mount one
service can bind each other's subsets; a `ComposedErManager` never advertises
mounted endpoints, its view of federated types raises KeyError where its first
member lacks a name, and its routes and entities are fixed when it is built; a
bare name shared by a local and a materialized type is not refused.

`GraphqlSchema`: a custom relationship to a class that is no entity, which
`specs/004-non-sqlmodel-roots/contracts/api.md:125` allows, makes the SDL name a
type it does not define, where introspection answers String; a virtual entity's
field of the name of one of its relationships, as in
`tests/test_virtual_entities.py`, is printed twice by introspection; relationship fields of materialized types are listed twice in
introspection; enums are never NON_NULL in the SDL; introspection loses the
nullability of list elements; input lists differ in `!`; a to-one relationship
that only the registry knows is nullable in the SDL and NON_NULL in
introspection; a field of a non-entity model is String in one and INPUT_OBJECT
in the other; a method that returns a model that is no entity dangles in the SDL;
methods of a virtual entity added late appear in the SDL but neither in
introspection nor in the executor; `Direction` is printed for relationships that
are not paginated; three order sets of one name reuse the first.

`ComposeSchema`: `{Name}Input` and `XQuery` overwrite a class of that name
without DuplicateTypeError; `_render_sdl` leaves out input types and service
types named `Query*` or `Mutation*`; a DTO named like a scalar is order
dependent; the docstring of `UseCaseAppConfig` (`use_case/types.py:20-22`) says
disabled mutations are hidden from `describe_service`, ServiceIntrospector looks
at no `enable_mutation` and lists them with nothing that tells them apart, and
`SurfacesAgree` states the code's behaviour; `describe_service` leaves out
enums.

`UseCaseExecutor`: an unknown service or method in a later group nulls the whole
response after the mutations of earlier groups ran, where a comment says results
are never erased; the gate looks at the operation's keyword and the executor at
the method's kind, so a mutation method under `query` runs unasked; `mutation
{Svc}` asks although nothing runs; a selection error of a mutation's result is
found after it ran and reported as MUTATION_FAILED; a list whose first element
is None is returned unprojected; unknown arguments and fragments are ignored;
JSON-RPC takes a context parameter from the client when the context lacks it,
compose never, REST answers 400 even where there is a default; a ValueError that
says "not found" becomes METHOD_NOT_FOUND; an item that is no object fails the
whole batch while its siblings run on; mutations of a batch are concurrent;
notifications are answered; the MCP server compares app names with their case
and the manager without.

## 6. Not modelled

| Part | Why |
|---|---|
| Rows of the database, SQL text, inspection of SQLAlchemy mappers | `Loaders` keeps which columns, page and read a row is of, not its values; the statements are one query per batch |
| Rendering of remote documents and alignment by join key (`federation/remote_loader.py`) | one dict lookup per key, without interleaving |
| Life cycle of the HTTP client (`federation/http.py`) | it is opened and closed outside the calls followed; a request that fails for whatever reason is `TransportRaises` |
| Argument building, variables and rendering of GraphQL responses | pure projections; they enter as the kind of a field |
| Fragments of GraphQL documents, validation rules | they decide which fields a document selects before the first step modelled; compose documents ignore fragments and so does the model |
| Replacement of annotations from subset to subset, colours, `extra_types`, `generate_operation_sdl` | layout and construction at import time |
| Discovery and scanning, response builder, MCP adapters over `GraphQLHandler`, command line | start-up helpers and adapters without state that changes while requests run |
| ER diagram, Voyager, GraphiQL | visualisation |

A next step would be an abstract loader with no sharing, implemented by `Loaders`
in split mode, and rows with values, to say what a relationship read before a
mutation of the same request may return after it.
