------------------------------ MODULE MCUseCase ------------------------------
EXTENDS UseCaseDescriptions

Type(leaf) == [wraps |-> << >>, leaf |-> leaf]
OptOf(leaf) == [wraps |-> <<"opt">>, leaf |-> leaf]
ListOf(leaf) == [wraps |-> <<"list">>, leaf |-> leaf]
OptListOf(leaf) == [wraps |-> <<"opt", "list">>, leaf |-> leaf]
Item0(name, type) == [name |-> name, type |-> type]
Kind(name, kind, fields) == [name |-> name, kind |-> kind, fields |-> fields]

\* Task is returned and taken as an argument, Filter refers to itself, and
\* User2 is a second class named User.
MCClass ==
  [int |-> Kind("Int", "scalar", << >>),
   str |-> Kind("String", "scalar", << >>),
   Role |-> Kind("Role", "enum", << >>),
   Task |-> Kind("Task", "model",
              <<Item0("id", Type("int")), Item0("owner", OptOf("User")),
                Item0("parent", OptOf("Task")), Item0("tags", OptListOf("str"))>>),
   User |-> Kind("User", "model",
              <<Item0("role", Type("Role")), Item0("tasks", ListOf("Task"))>>),
   Filter |-> Kind("Filter", "model",
              <<Item0("role", OptOf("Role")), Item0("any", OptListOf("Filter"))>>),
   Loop |-> Kind("Loop", "model", <<Item0("next", OptOf("Loop"))>>),
   User2 |-> Kind("User", "model", <<Item0("id", Type("int"))>>),
   Row |-> Kind("Row", "entity", <<Item0("id", Type("int"))>>),
   Any |-> Kind("Any", "unsupported", << >>)]

Par(name, type, ctx, default) == [name |-> name, type |-> type, ctx |-> ctx, default |-> default]
Op(name, kind, returns, params) ==
  [name |-> name, kind |-> kind, returns |-> returns, params |-> params]
Service(name, methods) == [name |-> name, methods |-> methods]

TaskService == Service("Tasks",
  <<Op("create", "mutation", Type("Task"), <<Par("task", Type("Task"), FALSE, FALSE)>>),
    Op("list", "query", ListOf("Task"),
       <<Par("filter", OptOf("Filter"), FALSE, TRUE), Par("user", Type("int"), TRUE, TRUE)>>),
    Op("close", "mutation", OptOf("Task"), <<Par("id", Type("int"), FALSE, FALSE)>>),
    Op("count", "query", Type("int"), << >>)>>)
UserService == Service("Users",
  <<Op("me", "query", Type("User"), <<Par("user", Type("int"), TRUE, FALSE)>>),
    Op("rename", "mutation", OptOf("User"),
       <<Par("name", Type("str"), FALSE, FALSE), Par("user", Type("int"), TRUE, FALSE)>>)>>)

AppOf(name, services, mutations, extractor, context) ==
  [name |-> name, services |-> services, enableMutation |-> mutations,
   extractor |-> extractor, context |-> context]
Named(word, style) == [word |-> word, style |-> style]
Known == [user |-> "ok"]

MCApp ==
  [full |-> AppOf(Named("tasks", "lower"), <<TaskService, UserService>>, TRUE, "dict", Known),
   shout |-> AppOf(Named("tasks", "upper"), <<TaskService>>, TRUE, "other", << >>),
   reader |-> AppOf(Named("reader", "lower"), <<UserService, TaskService>>, FALSE, None, << >>),
   broken |-> AppOf(Named("broken", "lower"), <<TaskService>>, TRUE, "raises", << >>),
   twins |-> AppOf(Named("twins", "lower"),
               <<Service("A", <<Op("one", "query", Type("User"), << >>)>>),
                 Service("B", <<Op("two", "query", Type("User2"), << >>)>>)>>, TRUE, None, << >>),
   rows |-> AppOf(Named("rows", "lower"),
               <<Service("A", <<Op("one", "query", ListOf("Row"), << >>)>>)>>, TRUE, None, << >>),
   loops |-> AppOf(Named("loops", "lower"),
               <<Service("A", <<Op("one", "query", OptOf("Loop"),
                                   <<Par("role", Type("Role"), FALSE, TRUE)>>),
                                Op("quiet", "mutation", NoReturn, << >>)>>)>>, FALSE, None, << >>)]

-----------------------------------------------------------------------------
Base ==
  [surface |-> "mcp", apps |-> <<"full">>, app |-> Named("tasks", "lower"), confirm |-> FALSE,
   elicits |-> "no", cancels |-> FALSE, doc |-> [problem |-> None, ops |-> << >>],
   batch |-> << >>, single |-> FALSE]

Leaf == << >>
S0(key, name, args, fields) ==
  [key |-> key, name |-> name, args |-> args, fields |-> fields, nestedAlias |-> FALSE]
G0(key, service, methods) == [key |-> key, service |-> service, leaf |-> FALSE, methods |-> methods]
DocOf(kind, groups) == [problem |-> None, ops |-> <<[kind |-> kind, groups |-> groups]>>]

List(key) == S0(key, "list", << >>, [id |-> Leaf])
Create(key) == S0(key, "create", [task |-> "ok"], [id |-> Leaf])
Close(key) == S0(key, "close", [id |-> "ok"], Leaf)
Me == S0("me", "me", << >>, [role |-> Leaf, tasks |-> [id |-> Leaf]])
Rename(key) == S0(key, "rename", [name |-> "ok"], Leaf)

\* Two groups, with aliases, mutations before and after queries.
Mixed == [Base EXCEPT !.doc = DocOf("mutation",
  <<G0("t", "Tasks", <<Create("create"), List("a"), Close("close"), List("b")>>),
    G0("Users", "Users", <<Me, Rename("rename")>>)>>)]
\* One service under two keys; arguments and selections that fail.
Twice == [Base EXCEPT !.cancels = TRUE, !.doc = DocOf("mutation",
  <<G0("one", "Tasks", <<Close("x"), S0("bad", "list", [filter |-> "bad"], [id |-> Leaf])>>),
    G0("two", "Tasks", <<S0("x", "create", [task |-> "ok"], [owner |-> Leaf]), Close("y"),
                         S0("count", "count", << >>, Leaf)>>)>>)]
Bad == [Base EXCEPT !.doc = DocOf("mutation",
  <<G0("one", "Tasks", <<S0("x", "close", << >>, Leaf), S0("y", "close", [id |-> "bad"], Leaf)>>)>>)]
\* The second group cannot be planned when the first has run.
LatePlan == [Base EXCEPT !.doc = DocOf("mutation",
  <<G0("Tasks", "Tasks", <<Create("create")>>), G0("Gone", "Gone", <<List("list")>>)>>)]
NoMethod == [Base EXCEPT !.doc = DocOf("query", <<G0("Tasks", "Tasks", <<S0("z", "z", << >>, Leaf)>>)>>)]
Disabled == [LatePlan EXCEPT !.apps = <<"full", "reader">>, !.app = Named("reader", "upper")]
NoContext == [Base EXCEPT !.apps = <<"reader">>, !.app = Named("reader", "lower"),
  !.doc = DocOf("query", <<G0("Users", "Users", <<Me>>), G0("Tasks", "Tasks", <<List("list")>>)>>)]

\* Confirmation, over both kinds of connection.
Asked == [Base EXCEPT !.confirm = TRUE, !.elicits = "handshake", !.cancels = TRUE,
  !.doc = DocOf("mutation", <<G0("Tasks", "Tasks", <<Create("create"), List("list")>>)>>)]
Guarded == [Asked EXCEPT !.elicits = "modern", !.cancels = FALSE]
Ungated == [Asked EXCEPT !.elicits = "no", !.cancels = FALSE]
Query == [Guarded EXCEPT !.doc = DocOf("query", <<G0("Tasks", "Tasks", <<List("list")>>)>>)]
OnlyLeaf == [Guarded EXCEPT !.doc = DocOf("mutation", <<[G0("Tasks", "Tasks", << >>) EXCEPT !.leaf = TRUE]>>)]

\* Requests that are refused, and servers.
Syntax == [Guarded EXCEPT !.doc = [problem |-> "syntax", ops |-> << >>]]
Doubled == [Base EXCEPT !.doc = DocOf("query", <<G0("Tasks", "Tasks", <<List("a"), List("a")>>)>>)]
Renamed == [Base EXCEPT !.doc = DocOf("query",
  <<G0("Tasks", "Tasks", <<[List("a") EXCEPT !.nestedAlias = TRUE]>>)>>)]
TwoOps == [Base EXCEPT !.doc = [problem |-> None, ops |-> <<Mixed.doc.ops[1], Bad.doc.ops[1]>>]]
Unknown == [Base EXCEPT !.app = Named("users", "lower")]
TwoCases == [Query EXCEPT !.apps = <<"full", "shout">>, !.app = Named("tasks", "mixed")]
Raises == [Query EXCEPT !.apps = <<"broken">>, !.app = Named("broken", "lower")]
Broken(a) == [Base EXCEPT !.apps = <<a>>]
Loops == [Base EXCEPT !.apps = <<"loops">>, !.app = Named("loops", "lower"),
            !.doc = DocOf("query", <<G0("A", "A", <<S0("one", "one", << >>, [next |-> Leaf])>>)>>)]

\* JSON-RPC
Rpc(id, service, name, args, problem) ==
  [id |-> id, service |-> service, name |-> name, args |-> args, problem |-> problem, kind |-> "query"]
Batch == [Base EXCEPT !.surface = "rpc", !.batch =
  <<Rpc("1", "Tasks", "close", [id |-> "ok"], None), Rpc("2", "Users", "me", << >>, None),
    Rpc("2", "Tasks", "count", << >>, None), Rpc(None, "Tasks", "close", << >>, None),
    Rpc("4", "rpc", "schema", << >>, "rpc"), Rpc("5", "Tasks", "count", << >>, "params")>>]
BatchRaises == [Batch EXCEPT !.batch =
  <<Rpc("1", "Tasks", "close", [id |-> "bad"], None), Rpc("2", "Tasks", "count", << >>, "no object"),
    Rpc("3", "Tasks", "count", [strange |-> "ok"], None)>>]
BatchEmpty == [Batch EXCEPT !.batch = << >>]
SingleBad == [BatchRaises EXCEPT !.single = TRUE, !.batch = <<@[2]>>]
RpcReader == [Batch EXCEPT !.apps = <<"reader">>, !.app = Named("reader", "lower")]
RpcTwice == [Batch EXCEPT !.apps = <<"full", "shout">>]
RpcOther == [Batch EXCEPT !.apps = <<"shout">>, !.batch =
  <<Rpc("1", "Tasks", "list", << >>, None), Rpc("2", "Tasks", "count", << >>, None)>>]
RpcRaises == [Batch EXCEPT !.apps = <<"broken">>, !.app = Named("broken", "lower")]

\* REST
Rest(service, name, kind, args) ==
  [Base EXCEPT !.surface = "rest",
     !.batch = <<[Rpc("1", service, name, args, None) EXCEPT !.kind = kind]>>]
RestWorlds ==
  {Rest("Tasks", "close", "mutation", [id |-> "ok"]), Rest("Tasks", "close", "mutation", << >>),
   Rest("Tasks", "gone", "query", << >>), Rest("Users", "me", "query", << >>),
   [Rest("Users", "me", "query", << >>) EXCEPT !.apps = <<"reader">>, !.app = Named("reader", "lower")],
   [Rest("Tasks", "list", "query", << >>) EXCEPT !.apps = <<"shout">>],
   [Rest("Tasks", "list", "query", << >>) EXCEPT !.apps = <<"broken">>, !.app = Named("broken", "lower")],
   [Rest("Tasks", "close", "mutation", [id |-> "ok"]) EXCEPT !.apps = <<"reader">>,
      !.app = Named("reader", "lower")]}

MCWorlds ==
  {Mixed, Twice, Bad, LatePlan, NoMethod, Disabled, NoContext, Asked, Guarded, Ungated, Query,
   OnlyLeaf, Syntax, Doubled, Renamed, TwoOps, Unknown, TwoCases, Raises, Broken("twins"),
   Broken("rows"), Loops, Batch, BatchRaises, BatchEmpty, SingleBad, RpcReader, RpcTwice, RpcOther,
   RpcRaises}
  \cup RestWorlds

\* The theorem about schemas is not about this server in vain.
ASSUME MCNamesApart == \A a \in DOMAIN App : NamesApart(App[a]) /\ NamesKept(App[a])
=============================================================================
