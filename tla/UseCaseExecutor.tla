--------------------------- MODULE UseCaseExecutor ---------------------------
(***************************************************************************)
(* One request to a server of use-case services, over one of its surfaces: *)
(* compose_query of the MCP server (confirmation of mutations, context,    *)
(* GraphQL document, groups of method selections), a JSON-RPC request or   *)
(* batch, or a REST route.  The queries of a group run concurrently, its   *)
(* mutations one after the other; the items of a batch run concurrently.   *)
(* A method may return, raise or be cancelled, and the caller may cancel   *)
(* a compose request at any await.                                         *)
(*                                                                         *)
(* An action is the code between two awaits.  A world is a server and a    *)
(* request to it, chosen at the start.                                     *)
(***************************************************************************)
EXTENDS UseCaseServices, Subsequences

CONSTANTS
  Worlds,          \* servers and the requests they get
  MaxLegs,         \* bound: calls of compose_query for one request
  Buildable,       \* the applications whose compose schema can be built
  Projects(_, _)   \* whether build_model takes a selection of a class

Surfaces == {"mcp", "rpc", "rest"}
Items == {"new", "context", "running", "answered", "raised"}
Results == {"model", "null", "scalar"}  \* what a method returns

ASSUME UseCaseAssumption ==
  /\ MaxLegs \in Nat \ {0}
  /\ \A w \in Worlds :
       /\ w.surface \in Surfaces /\ w.confirm \in BOOLEAN
       /\ w.elicits \in {"no", "handshake", "modern"}
       /\ w.apps \in Seq(DOMAIN App) /\ w.batch \in Seq(Range(w.batch))
       /\ w.doc.ops \in Seq(Range(w.doc.ops))
       /\ \A op \in Range(w.doc.ops) :
            /\ op.groups \in Seq(Range(op.groups))
            /\ \A g \in Range(op.groups) :
                 g.leaf \in BOOLEAN /\ g.methods \in Seq(Range(g.methods))

VARIABLES
  world,    \* the server and the request
  server,   \* whether it could be built
  pc,       \* where the request is
  legs,     \* calls of compose_query made for it, and the human's last answer
  group,    \* the service group _execute_operations is at
  tasks,    \* the gathered query tasks of that group, by response key
  aborted,  \* mutation_aborted
  data,     \* results by group key and method key
  errors,   \* field errors, in order
  items,    \* the items of a JSON-RPC batch
  log,      \* history: what was started, ended, refused, accepted, answered
  answer    \* what the caller gets

vars == <<world, server, pc, legs, group, tasks, aborted, data, errors, items, log, answer>>
runVars == <<group, tasks, aborted, data, errors>>

NoAnswer == [kind |-> None, items |-> << >>]
Answer(kind) == [kind |-> kind, items |-> << >>]
Event(ev, at, what) == [ev |-> ev, at |-> at, what |-> what]
Log(ev, at, what) == log' = Append(log, Event(ev, at, what))

-----------------------------------------------------------------------------
(* Servers *)

SameWord(a, b) == a.word = b.word  \* equal but for upper and lower case

\* create_use_case_graphql_mcp_server and UseCaseManager; the second compares
\* names without their case.
McpStarts(ids) ==
  /\ \A i, j \in DOMAIN ids : i # j => App[ids[i]].name # App[ids[j]].name
  /\ \A i \in DOMAIN ids : ids[i] \in Buildable
ManagerStarts(ids) ==
  \A i, j \in DOMAIN ids : i # j => ~SameWord(App[ids[i]].name, App[ids[j]].name)
CreateServer(w) ==
  CASE w.surface = "mcp" -> McpStarts(w.apps)
    [] w.surface = "rpc" -> ManagerStarts(w.apps)
    [] w.surface = "rest" -> TRUE

\* _get_app and UseCaseManager.get_app: 0 when there is none.
GetApp(ids, name) ==
  LET exact == {i \in DOMAIN ids : App[ids[i]].name = name}
      alike == {i \in DOMAIN ids : SameWord(App[ids[i]].name, name)}
  IN CASE exact # {} -> CHOOSE i \in exact : TRUE
       [] exact = {} /\ alike # {} -> Min(alike)
       [] OTHER -> 0
Served == GetApp(world.apps, world.app)
TheApp == App[world.apps[Served]]
Context == IF TheApp.extractor = "dict" THEN TheApp.context ELSE << >>

Methods(service, name) == {m \in MethodsOf(TheApp, service) : m.name = name}
Method(service, name) == CHOOSE m \in Methods(service, name) : TRUE

-----------------------------------------------------------------------------
(* Arguments.  Given values are "ok" or "bad", which no coercion takes.    *)

\* _build_kwargs
ComposeArgsFit(m, given, context) ==
  \A p \in Range(m.params) :
    LET source == IF p.ctx THEN context ELSE given
    IN IF p.name \in DOMAIN source THEN source[p.name] = "ok" ELSE p.default

\* _execute_method: a value that cannot be coerced is passed as it is; a
\* FromContext parameter may come from params; a strange one is a TypeError, and
\* so is looking one up in a context that is no container.
RpcArgsFit(m, given, context) ==
  /\ TheApp.extractor = "other" => ContextParams(m) = {}
  /\ \A p \in Range(m.params) :
       p.default \/ p.name \in DOMAIN given \/ (p.ctx /\ p.name \in DOMAIN context)
  /\ DOMAIN given \subseteq {p.name : p \in Range(m.params)}

\* The request model and _merge_context_params; without an extractor the
\* context parameters are not passed at all.
RestBodyFits(m, given) ==
  \A p \in {q \in Range(m.params) : ~q.ctx} :
    IF p.name \in DOMAIN given THEN given[p.name] = "ok" ELSE p.default
RestContextFits(m, context) ==
  \A p \in {q \in Range(m.params) : q.ctx} :
    IF TheApp.extractor = None THEN p.default ELSE p.name \in DOMAIN context

-----------------------------------------------------------------------------
(* Documents *)

Doc == world.doc
Keys(s) == [i \in DOMAIN s |-> s[i].key]

\* QueryParser.parse_operations: a group without a selection set is dropped,
\* and a response key that was kept may not come again among its siblings.
Groups(op) == Pick(op.groups, {i \in DOMAIN op.groups : ~op.groups[i].leaf})
KeyConflict(op) ==
  \/ \E i, j \in DOMAIN op.groups :
       i < j /\ op.groups[i].key = op.groups[j].key /\ ~op.groups[i].leaf
  \/ \E g \in Range(Groups(op)) : ~UniqueItems(Keys(g.methods))
NestedAlias(op) == \E g \in Range(Groups(op)) : \E m \in Range(g.methods) : m.nestedAlias

\* What execute_compose_query refuses before it plans anything.
DocumentRefused ==
  \/ Doc.problem # None  \* syntax, variables contract, introspection
  \/ \E op \in Range(Doc.ops) : KeyConflict(op)
  \/ Len(Doc.ops) # 1
  \/ NestedAlias(Doc.ops[1])

\* mutation_fields is not empty: the gate goes by the keyword of an operation.
MutationFields ==
  Doc.problem # "syntax" /\ \E op \in Range(Doc.ops) : op.kind = "mutation" /\ op.groups # << >>

TheGroups == Groups(Doc.ops[1])
Group == TheGroups[group]
\* The places in the group of the selections of a kind.
Selected(kind) ==
  {i \in DOMAIN Group.methods : Method(Group.service, Group.methods[i].name).kind = kind}
Sel(key) == CHOOSE s \in Range(Group.methods) : s.key = key
PathByService(key) == <<Group.service, key>>
Path(key) == <<Group.key, key>>

\* Unknown service, unknown method, or a mutation where they are disabled.
PlanFails(g) ==
  \E s \in Range(g.methods) : ~\E m \in Methods(g.service, s.name) : ~Hidden(TheApp, m)

\* _project_result: a selection is looked at only for a model.
Projected(sel, result) ==
  IF sel.fields # << >> /\ result = "model"
     /\ ~Projects(Method(Group.service, sel.name).returns.leaf, sel.fields)
  THEN "raised" ELSE result

-----------------------------------------------------------------------------
Init ==
  /\ world \in Worlds
  /\ server = IF CreateServer(world) THEN "up" ELSE "refused"
  /\ pc = "create"
  /\ legs = [made |-> 1, response |-> None]
  /\ group = 1 /\ tasks = << >> /\ aborted = FALSE
  /\ data = << >> /\ errors = << >>
  /\ items = [i \in DOMAIN world.batch |-> [pc |-> "new", answer |-> None]]
  /\ log = << >> /\ answer = NoAnswer

Goto(p) == pc' = p /\ UNCHANGED answer
Reply(kind) == pc' = "done" /\ answer' = Answer(kind)
Step == UNCHANGED <<world, server, legs, items, log>> /\ UNCHANGED runVars

\* A request comes in.
Receive ==
  /\ pc = "create" /\ Step
  /\ IF server = "up"
     THEN Goto(CASE world.surface = "mcp" -> "gate" [] world.surface = "rpc" -> "items"
                 [] world.surface = "rest" -> "dependency")
     ELSE Reply("refused")

-----------------------------------------------------------------------------
(* compose_query *)

MustAsk == world.confirm /\ MutationFields /\ world.elicits # "no"

NotFound == pc = "gate" /\ Served = 0 /\ Step /\ Reply("error")
GateOpen == pc = "gate" /\ Served # 0 /\ ~MustAsk /\ Step /\ Goto("context")

\* A handshake-era connection: ctx.elicit() waits for the human.
Elicit == /\ pc = "gate" /\ Served # 0 /\ MustAsk /\ world.elicits = "handshake"
          /\ Step /\ Goto("asked")
HumanAnswers(accepts) ==
  /\ pc = "asked"
  /\ Log(IF accepts THEN "accept" ELSE "decline", << >>, None)
  /\ IF accepts THEN Goto("context") ELSE Reply("declined")
  /\ UNCHANGED <<world, server, legs, items>> /\ UNCHANGED runVars

\* _confirm_verdict of the responses a later leg brings.
VerdictUnlessDeclined ==
  CASE legs.response \in {"accept false", "decline"} -> "no"
    [] legs.response \in {"accept", "nothing"} -> "yes"
    [] OTHER -> "ask"
Verdict == CASE legs.response = "accept" -> "yes"
             [] legs.response \in {"accept false", "decline"} -> "no"
             [] OTHER -> "ask"

\* A modern connection: the ask is the result of this leg.
GuardLeg(verdict) ==
  /\ pc = "gate" /\ Served # 0 /\ MustAsk /\ world.elicits = "modern"
  /\ Step
  /\ CASE verdict = "yes" -> Goto("context")
       [] verdict = "no" -> Reply("declined")
       [] verdict = "ask" -> Reply("ask")
GuardLegAsks == GuardLeg(Verdict)

\* The client calls again with what the human said, or without it.
CallAgain(response) ==
  /\ pc = "done" /\ answer.kind = "ask" /\ legs.made < MaxLegs
  /\ legs' = [made |-> legs.made + 1, response |-> response]
  /\ pc' = "gate" /\ answer' = NoAnswer
  /\ Log(response, << >>, None)
  /\ UNCHANGED <<world, server, items>> /\ UNCHANGED runVars

ExtractContext ==
  /\ pc = "context" /\ Step
  /\ IF TheApp.extractor = "raises" THEN Reply("error") ELSE Goto("parse")

ParseDocument ==
  /\ pc = "parse" /\ Step
  /\ IF DocumentRefused THEN Reply("error") ELSE Goto("group")

-----------------------------------------------------------------------------
(* _execute_operations and _execute_service_methods *)

PlanError ==
  /\ pc = "group" /\ group <= Len(TheGroups) /\ PlanFails(Group)
  /\ Step /\ Reply("error")

Fits(s) == ComposeArgsFit(Method(Group.service, s.name), s.args, Context)

\* The group is planned and its queries are gathered: each builds its
\* arguments and starts.
StartGroup ==
  /\ pc = "group" /\ group <= Len(TheGroups) /\ ~PlanFails(Group)
  /\ tasks' = [k \in {Group.methods[i].key : i \in Selected("query")} |->
                 IF Fits(Sel(k)) THEN "running" ELSE "raised"]
  /\ Log("start", {Path(k) : k \in {q \in DOMAIN tasks' : tasks'[q] = "running"}}, "query")
  /\ data' = Put(data, Group.key, << >>)
  /\ Goto("queries")
  /\ UNCHANGED <<world, server, legs, group, aborted, errors, items>>

QueryEnds(k, result) ==
  /\ pc \in {"queries", "unwinding"}
  /\ tasks[k] = "running"
  /\ LET outcome == IF result \in Results THEN Projected(Sel(k), result) ELSE result
     IN tasks' = [tasks EXCEPT ![k] = outcome] /\ Log("end", Path(k), outcome)
  /\ UNCHANGED <<world, server, pc, legs, group, aborted, data, errors, items, answer>>

SettledUnlessRaised == \A k \in DOMAIN tasks : tasks[k] \in Results \cup {"cancelled"}
Settled == \A k \in DOMAIN tasks : tasks[k] # "running"
ValueRaw(result) == result
Value(result) == IF result \in Results THEN result ELSE "null"
Error(path, code) == [path |-> path, code |-> code]

\* asyncio.gather returns: the results in order of declaration, or the
\* cancellation of a task or of the request.
Gather ==
  /\ pc \in {"queries", "unwinding"} /\ Settled
  /\ UNCHANGED <<world, server, legs, group, tasks, aborted, items, log>>
  /\ IF pc = "unwinding" \/ "cancelled" \in Range(tasks)
     THEN Reply("cancelled") /\ UNCHANGED <<data, errors>>
     ELSE LET failed == Pick(Group.methods, {i \in Selected("query") :
                                              tasks[Group.methods[i].key] = "raised"})
          IN /\ data' = [data EXCEPT ![Group.key] =
                           [k \in DOMAIN tasks |-> Value(tasks[k])]]
             /\ errors' = errors \o [i \in DOMAIN failed |->
                                       Error(Path(failed[i].key), "QUERY_FAILED")]
             /\ Goto("mutations")

Pending == {i \in Selected("mutation") : Group.methods[i].key \notin DOMAIN data[Group.key]}
NextWrite == Group.methods[Earliest(Pending)]
PutResult(key, value) == data' = [data EXCEPT ![Group.key] = Put(@, key, value)]

StartMutation ==
  /\ pc = "mutations" /\ Pending # {} /\ ~aborted
  /\ LET s == NextWrite
     IN IF Fits(s)
        THEN /\ Goto("mutating") /\ Log("start", {Path(s.key)}, "mutation")
             /\ UNCHANGED <<data, errors, aborted>>
        ELSE /\ PutResult(s.key, "null") /\ aborted' = TRUE
             /\ errors' = Append(errors, Error(Path(s.key), "MUTATION_FAILED"))
             /\ Log("refuse", Path(s.key), "mutation") /\ Goto(pc)
  /\ UNCHANGED <<world, server, legs, group, tasks, items>>

MutationEnds(result) ==
  /\ pc = "mutating"
  /\ LET s == NextWrite
         outcome == IF result \in Results THEN Projected(s, result) ELSE result
     IN /\ Log("end", Path(s.key), outcome)
        /\ CASE outcome \in Results ->
                  PutResult(s.key, outcome) /\ Goto("mutations") /\ UNCHANGED <<errors, aborted>>
             [] outcome = "raised" ->
                  /\ PutResult(s.key, "null") /\ Goto("mutations") /\ aborted' = TRUE
                  /\ errors' = Append(errors, Error(Path(s.key), "MUTATION_FAILED"))
             [] outcome = "cancelled" ->
                  Reply("cancelled") /\ UNCHANGED <<data, errors, aborted>>
  /\ UNCHANGED <<world, server, legs, group, tasks, items>>

SkipMutation ==
  /\ pc = "mutations" /\ Pending # {} /\ aborted
  /\ PutResult(NextWrite.key, "null")
  /\ errors' = Append(errors, Error(Path(NextWrite.key), "SKIPPED_PRIOR_FAILURE"))
  /\ UNCHANGED <<world, server, pc, legs, group, tasks, aborted, items, log, answer>>

NextGroupAfresh ==
  /\ pc = "mutations" /\ Pending = {}
  /\ group' = group + 1 /\ tasks' = << >> /\ Goto("group") /\ aborted' = FALSE
  /\ UNCHANGED <<world, server, legs, data, errors, items, log>>
NextGroup ==
  /\ pc = "mutations" /\ Pending = {}
  /\ group' = group + 1 /\ tasks' = << >> /\ Goto("group")
  /\ UNCHANGED <<world, server, legs, aborted, data, errors, items, log>>

AnswerData ==
  /\ pc = "group" /\ group > Len(TheGroups) /\ Step /\ Reply("data")

\* The task of the request is cancelled while it awaits something.
Cancel ==
  /\ world.cancels
  /\ \/ pc = "asked" /\ Step /\ Reply("cancelled")
     \/ pc = "queries" /\ ~Settled /\ Step /\ Goto("unwinding")

-----------------------------------------------------------------------------
(* JSON-RPC *)

Item(i, p, a) == items' = [items EXCEPT ![i] = [pc |-> p, answer |-> a]]
ItemStep == UNCHANGED <<world, server, pc, legs, answer>> /\ UNCHANGED runVars

\* _handle_single_request up to its first await.  An item that is no object
\* raises.
CheckItem(i) ==
  /\ items[i].pc = "new" /\ (pc = "items" \/ (world.surface = "rpc" /\ answer.kind = "500"))
  /\ CASE world.batch[i].problem = "no object" ->
            IF world.single THEN Item(i, "answered", "error") ELSE Item(i, "raised", None)
       [] world.batch[i].problem \in {"format", "params"} -> Item(i, "answered", "error")
       [] world.batch[i].problem = "rpc" -> Item(i, "answered", "result")
       [] OTHER -> Item(i, "context", None)
  /\ UNCHANGED log /\ ItemStep

\* The context is there: look the method up, build its arguments, call it.
StartItem(i) ==
  /\ items[i].pc = "context"
  /\ LET r == world.batch[i]
         callable == /\ TheApp.extractor # "raises"
                     /\ \E m \in Methods(r.service, r.name) :
                          ~Hidden(TheApp, m) /\ RpcArgsFit(m, r.args, Context)
     IN IF callable
        THEN Item(i, "running", None) /\ Log("start", {<<i>>}, Method(r.service, r.name).kind)
        ELSE Item(i, "answered", "error") /\ UNCHANGED log
  /\ ItemStep

EndItem(i, result) ==
  /\ items[i].pc = "running"
  /\ Item(i, "answered", IF result = "raised" THEN "error" ELSE "result")
  /\ Log("end", <<i>>, result)
  /\ ItemStep

ItemAnswer(i) == [id |-> world.batch[i].id, outcome |-> items[i].answer]
BatchAnswersAsEnded ==
  LET ended == SelectSeq(log, LAMBDA e : e.ev = "end")
      first == [k \in DOMAIN ended |-> ended[k].at[1]]
      rest == SelectSeq([i \in DOMAIN items |-> i], LAMBDA i : i \notin Range(first))
      order == rest \o first
  IN [k \in DOMAIN order |-> ItemAnswer(order[k])]
BatchAnswers == [i \in DOMAIN items |-> ItemAnswer(i)]

\* gather returns the answers, or raises as soon as an item does.
AnswerBatch ==
  /\ pc = "items"
  /\ \/ items = << >> /\ Reply("error")  \* an empty batch
     \/ /\ items # << >> /\ \A i \in DOMAIN items : items[i].pc = "answered"
        /\ pc' = "done" /\ answer' = [kind |-> "batch", items |-> BatchAnswers]
     \/ /\ \E i \in DOMAIN items : items[i].pc = "raised"
        /\ Reply("500")
  /\ Step

-----------------------------------------------------------------------------
(* A REST route *)

Route == world.batch[1]
RouteMethod == Method(Route.service, Route.name)

SolveDependency ==
  /\ pc = "dependency" /\ Step
  /\ CASE [name |-> Route.name, kind |-> Route.kind] \notin RestRoutes(TheApp, Route.service) ->
            Reply("404")
       [] OTHER ->
            IF TheApp.extractor \in {"raises", "other"} /\ ContextParams(RouteMethod) # {}
            THEN Reply("500")
            ELSE IF ~RestBodyFits(RouteMethod, Route.args) THEN Reply("422")
            ELSE IF TheApp.extractor # None /\ ~RestContextFits(RouteMethod, Context)
            THEN Reply("400")
            ELSE IF ~RestContextFits(RouteMethod, Context) THEN Reply("500")
            ELSE Goto("call")

CallRoute ==
  /\ pc = "call" /\ Goto("handling") /\ Log("start", {<<1>>}, RouteMethod.kind)
  /\ UNCHANGED <<world, server, legs, items>> /\ UNCHANGED runVars
EndRoute(result) ==
  /\ pc = "handling" /\ Log("end", <<1>>, result)
  /\ Reply(IF result = "raised" THEN "500" ELSE "result")
  /\ UNCHANGED <<world, server, legs, items>> /\ UNCHANGED runVars

-----------------------------------------------------------------------------
Ends == Results \cup {"raised"}

Serve ==
  \/ Receive \/ NotFound \/ GateOpen \/ Elicit \/ GuardLegAsks
  \/ ExtractContext \/ ParseDocument
  \/ PlanError \/ StartGroup \/ Gather \/ StartMutation \/ SkipMutation
  \/ NextGroup \/ AnswerData
  \/ (\E i \in DOMAIN items : CheckItem(i) \/ StartItem(i)) \/ AnswerBatch
  \/ SolveDependency \/ CallRoute

\* The methods are the application's; they end.
MethodsEnd ==
  \/ \E k \in DOMAIN tasks, result \in Ends \cup {"cancelled"} : QueryEnds(k, result)
  \/ \E result \in Ends \cup (IF world.cancels THEN {"cancelled"} ELSE {}) : MutationEnds(result)
  \/ \E i \in DOMAIN items, result \in {"model", "raised"} : EndItem(i, result)
  \/ \E result \in {"model", "raised"} : EndRoute(result)

HumanOrClient ==
  \/ \E accepts \in BOOLEAN : HumanAnswers(accepts)
  \/ \E response \in {"accept", "accept false", "decline", "nothing"} : CallAgain(response)

Next == Serve \/ MethodsEnd \/ HumanOrClient \/ Cancel

\* The event loop runs what can run, methods end, and a human who is asked
\* answers; a client need not call again and nobody need cancel.
Spec == /\ Init /\ [][Next]_vars
        /\ WF_vars(Serve) /\ WF_vars(MethodsEnd)
        /\ WF_vars(\E accepts \in BOOLEAN : HumanAnswers(accepts))

-----------------------------------------------------------------------------
(* Properties *)

Kinds == {None, "refused", "error", "declined", "ask", "cancelled", "data", "batch", "result",
          "400", "404", "422", "500"}

\* The shape of every variable; what the answer holds is a result or null,
\* never an exception that gather handed over as a value.
TypeOK ==
  /\ world \in Worlds /\ server \in {"up", "refused"}
  /\ pc \in {"create", "gate", "asked", "context", "parse", "group", "queries", "unwinding",
             "mutations", "mutating", "items", "dependency", "call", "handling", "done"}
  /\ legs.made \in 1 .. MaxLegs
  /\ aborted \in BOOLEAN
  /\ \A k \in DOMAIN tasks : tasks[k] \in Results \cup {"running", "raised", "cancelled"}
  /\ \A g \in DOMAIN data : \A k \in DOMAIN data[g] : data[g][k] \in Results
  /\ \A i \in DOMAIN items : items[i].pc \in Items /\ items[i].answer \in {None, "error", "result"}
  /\ answer.kind \in Kinds /\ (answer.kind = None <=> pc # "done")

Compose == world.surface = "mcp"
\* A place in the document: a service group of it and a selection of that.
Places == UNION {{<<g, i>> : i \in DOMAIN TheGroups[g].methods} : g \in DOMAIN TheGroups}
KeyAt(a) == TheGroups[a[1]].methods[a[2]].key
PathAt(a) == <<TheGroups[a[1]].key, KeyAt(a)>>
KindAt(a) == Method(TheGroups[a[1]].service, TheGroups[a[1]].methods[a[2]].name).kind
Before(a, b) == a[1] < b[1] \/ (a[1] = b[1] /\ a[2] < b[2])

Paths == {PathAt(a) : a \in Places}
DeclaredBefore(p, q) == \E a, b \in Places : p = PathAt(a) /\ q = PathAt(b) /\ Before(a, b)
IsMutation(path) == \E a \in Places : path = PathAt(a) /\ KindAt(a) = "mutation"
FailedCall(e) == e.ev = "refuse" \/ (e.ev = "end" /\ e.what \notin Results)

\* A mutation runs alone, and so does what a group starts at once: everything
\* started before has ended.  Mutations start in the order of the document,
\* none after one that failed, in whatever service group, and nothing starts
\* once anything was cancelled.
MutationsSerial ==
  Compose => \A i, j \in DOMAIN log : i < j /\ log[j].ev = "start" =>
    /\ log[i].ev = "start" => \A p \in log[i].at :
         /\ \E k \in i + 1 .. j - 1 : log[k].ev = "end" /\ log[k].at = p
         /\ log[i].what = "mutation" /\ log[j].what = "mutation" =>
              \A q \in log[j].at : DeclaredBefore(p, q)
    /\ FailedCall(log[i]) /\ IsMutation(log[i].at) => log[j].what = "query"
    /\ FailedCall(log[i]) => log[i].what # "cancelled"

RanAs(path) == {log[i].what : i \in {k \in DOMAIN log : log[k].ev = "end" /\ log[k].at = path}}
CodesAt(path) == {errors[i].code : i \in {k \in DOMAIN errors : errors[k].path = path}}
FailedBefore(path) ==
  \E i \in DOMAIN log : FailedCall(log[i]) /\ IsMutation(log[i].at) /\ DeclaredBefore(log[i].at, path)

\* An answer with data accounts for every selection: what a call returned is
\* there, and what is null without having been returned has one error that
\* the caller can locate in the data, which says whether the write was tried.
WritesAccounted ==
  answer.kind = "data" =>
    /\ \A i \in DOMAIN errors : errors[i].path \in Paths
    /\ \A i, j \in DOMAIN errors : errors[i].path = errors[j].path => i = j
    /\ \A path \in Paths :
         /\ path[1] \in DOMAIN data /\ path[2] \in DOMAIN data[path[1]]
         /\ RanAs(path) \cap Results # {} => CodesAt(path) = {}
         /\ CodesAt(path) = {} => data[path[1]][path[2]] \in RanAs(path)
         /\ CodesAt(path) # {} => data[path[1]][path[2]] = "null"
         /\ CodesAt(path) = {"SKIPPED_PRIOR_FAILURE"} <=>
              IsMutation(path) /\ FailedBefore(path)

\* Of a client that can ask its human, nothing of a document with a mutation
\* operation runs before the human accepts, and nothing after a refusal.
ConfirmedFirst ==
  Compose /\ MustAsk => \A i \in DOMAIN log : log[i].ev = "start" =>
    \E k \in 1 .. i - 1 :
      log[k].ev = "accept" /\ \A j \in k .. i : log[j].ev \notin {"decline", "accept false", "nothing"}

\* The answers of a batch are its items' in their order, in whatever order
\* the calls ended; an item has a result only if its own call returned.
BatchAligned ==
  answer.kind = "batch" =>
    /\ Len(answer.items) = Len(world.batch)
    /\ \A i \in DOMAIN world.batch :
         /\ answer.items[i].id = world.batch[i].id
         /\ answer.items[i].outcome = "result" <=>
              (world.batch[i].problem = "rpc" \/ "model" \in RanAs(<<i>>))
    /\ \A i, j \in DOMAIN log : log[i].ev = "start" /\ log[j].ev = "start" =>
         (log[i].at \cap log[j].at # {} => i = j)

\* Every request ends, whatever its methods do, in an answer, in the question
\* to the human, or in its cancellation.
RequestsEnd == <>[](pc = "done")
=============================================================================
