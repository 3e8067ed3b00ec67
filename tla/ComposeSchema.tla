---------------------------- MODULE ComposeSchema ----------------------------
(***************************************************************************)
(* What an application of use-case services publishes: the registry of     *)
(* GraphQL types a compose schema is built from, its full and per-method   *)
(* renderings and the MCP tools that describe it.                          *)
(*                                                                         *)
(* A TypeRef is [shape, kind, name]: "NON_NULL" and "LIST" from the        *)
(* outside in around a named leaf.                                         *)
(***************************************************************************)
EXTENDS UseCaseServices, Subsequences

CONSTANT MaxSteps  \* bound: steps of a mapper

\* What is reached from a set, in as many rounds as next has arguments.
Spread(next, start) ==
  LET n == Cardinality(DOMAIN next)
      f[k \in 0 .. n] == IF k = 0 THEN start ELSE f[k - 1] \cup UNION {next[x] : x \in f[k - 1]}
  IN f[n]

-----------------------------------------------------------------------------
(* ComposeTypeMapper.  A mapper is its _registry, its _by_python_id, the   *)
(* answers of the calls made to it, whether one raised, and the walks that *)
(* are open, outermost first.                                              *)
(*                                                                         *)
(* A call maps annotated items in order, as input or output.  A walk is a  *)
(* call, or a class met below it, with the items mapped to a TypeRef so    *)
(* far.  A step maps one item, or returns from the innermost walk.         *)

Call(items, input) == [items |-> items, input |-> input]
Walk(call, class, name) ==
  [items |-> call.items, input |-> call.input, class |-> class, name |-> name, mapped |-> << >>]

EmptyMapper ==
  [registry |-> << >>, byId |-> << >>, answers |-> << >>, failed |-> FALSE, open |-> << >>]
Failed(m) == [m EXCEPT !.failed = TRUE]
Ended(m, calls) == m.open = << >> /\ Len(m.answers) = Len(calls)

Top(m) == m.open[Len(m.open)]
Current(m) == Top(m).items[Len(Top(m).mapped) + 1]

TypeInfo(kind, class, fields) == [kind |-> kind, class |-> class, fields |-> fields]

\* _map, _map_optional, _map_list: a node is NON_NULL unless an Optional is
\* right around it.
Shape(t) ==
  FlattenSeq([i \in 1 .. Len(t.wraps) + 1 |->
    LET nullable == i > 1 /\ t.wraps[i - 1] = "opt"
        node == IF i > Len(t.wraps) THEN "leaf" ELSE t.wraps[i]
    IN (IF nullable \/ node = "opt" THEN << >> ELSE <<"NON_NULL">>)
       \o (IF node = "list" THEN <<"LIST">> ELSE << >>)])

LeafKind(c, input) ==
  CASE Class[c].kind = "scalar" -> "SCALAR"
    [] Class[c].kind = "enum" -> "ENUM"
    [] OTHER -> IF input THEN "INPUT_OBJECT" ELSE "OBJECT"

\* The item of the innermost walk is mapped to a type of this name.
Answered(m, name) ==
  LET t == Current(m).type
      ref == [shape |-> Shape(t), kind |-> LeafKind(t.leaf, Top(m).input), name |-> name]
  IN [m EXCEPT !.open[Len(m.open)].mapped = Append(@, [name |-> Current(m).name, ref |-> ref])]

RegisterScalar(m, c) ==
  LET name == Class[c].name
  IN Answered([m EXCEPT !.registry = IF name \in DOMAIN @ THEN @
                                     ELSE Put(@, name, TypeInfo("SCALAR", None, << >>))], name)

RegisterEnum(m, c) ==
  LET name == Class[c].name
  IN CASE c \in DOMAIN m.byId -> Answered(m, m.byId[c])
       [] c \notin DOMAIN m.byId /\ name \in DOMAIN m.registry -> Failed(m)
       [] OTHER -> Answered([m EXCEPT !.byId = Put(@, c, name),
                               !.registry = Put(@, name, TypeInfo("ENUM", c, << >>))], name)

\* A stub takes the name before the fields are walked, so that a class that
\* refers to itself finds it.
Define(m, c, name, input) ==
  [m EXCEPT !.registry = Put(@, name, TypeInfo(LeafKind(c, input), c, << >>)),
            !.byId = IF input THEN @ ELSE Put(@, c, name),
            !.open = Append(@, Walk(Call(Class[c].fields, input), c, name))]

RegisterObject(m, c) ==
  LET name == Class[c].name
  IN CASE c \in DOMAIN m.byId -> Answered(m, m.byId[c])
       [] c \notin DOMAIN m.byId /\ name \in DOMAIN m.registry -> Failed(m)
       [] OTHER -> Define(m, c, name, FALSE)

\* A class that is also returned keeps its bare name for the OBJECT.
InputName(c) == Class[c].name \o "Input"
RegisterInputObject(m, c) ==
  LET name == Class[c].name
      known == {n \in DOMAIN m.registry :
                  m.registry[n].kind = "INPUT_OBJECT" /\ m.registry[n].class = c}
      returned == name \in DOMAIN m.registry
                  /\ m.registry[name].class = c /\ m.registry[name].kind = "OBJECT"
  IN CASE known # {} -> Answered(m, CHOOSE n \in known : TRUE)
       [] known = {} /\ ~returned /\ name \in DOMAIN m.registry -> Failed(m)
       [] OTHER -> Define(m, c, IF returned THEN InputName(c) ELSE name, TRUE)

MapLeaf(m) ==
  LET c == Current(m).type.leaf
  IN CASE Class[c].kind \in {"entity", "unsupported"} -> Failed(m)
       [] Class[c].kind = "scalar" -> RegisterScalar(m, c)
       [] Class[c].kind = "enum" -> RegisterEnum(m, c)
       [] Class[c].kind = "model" ->
            IF Top(m).input THEN RegisterInputObject(m, c) ELSE RegisterObject(m, c)

\* The innermost walk has mapped its items: they are what its call answers, or
\* the fields of its class, whose name the walk around it gets.
Return(m) ==
  LET f == Top(m)
      rest == [m EXCEPT !.open = Front(@)]
  IN IF f.class = None THEN [rest EXCEPT !.answers = Append(@, f.mapped)]
     ELSE Answered([rest EXCEPT !.registry[f.name].fields = f.mapped], f.name)

MapStep(m, calls) ==
  CASE m.failed \/ Ended(m, calls) -> m
    [] ~m.failed /\ m.open = << >> /\ ~Ended(m, calls) ->
         [m EXCEPT !.open = <<Walk(calls[Len(m.answers) + 1], None, None)>>]
    [] ~m.failed /\ m.open # << >> ->
         IF Len(Top(m).mapped) < Len(Top(m).items) THEN MapLeaf(m) ELSE Return(m)

\* The mapper after calls one after the other.
Mapped(calls) ==
  LET run[k \in 0 .. MaxSteps] == IF k = 0 THEN EmptyMapper ELSE MapStep(run[k - 1], calls)
  IN run[MaxSteps]

-----------------------------------------------------------------------------
(* build_compose_schema *)

\* The methods that become fields, service by service.
Shown(app, s) == Pick(s.methods, {j \in DOMAIN s.methods : ~Hidden(app, s.methods[j])})
MetasOf(app, s) == [j \in DOMAIN Shown(app, s) |-> [service |-> s.name, method |-> Shown(app, s)[j]]]
MethodMetas(app) ==
  Concat([i \in DOMAIN app.services |-> MetasOf(app, app.services[i])], Len(app.services))

\* _build_method_arguments
Public(m) == Pick(m.params, {k \in DOMAIN m.params : ~m.params[k].ctx})

\* Every return type of the application is registered before any argument
\* type, so that a class used as both keeps its bare name for the OBJECT.
ReturnCall(meta) == Call(<<[name |-> meta.method.name, type |-> meta.method.returns]>>, FALSE)
ArgumentsCall(meta) == Call(Public(meta.method), TRUE)
MethodCalls(metas) ==
  [i \in DOMAIN metas |-> ReturnCall(metas[i])] \o [i \in DOMAIN metas |-> ArgumentsCall(metas[i])]
NoMethods == [failed |-> TRUE]
InterleavedCalls(metas) ==
  Concat([i \in DOMAIN metas |-> <<ArgumentsCall(metas[i]), ReturnCall(metas[i])>>], Len(metas))
RegisteredInterleaved(m, metas) ==
  IF m.failed \/ ~Ended(m, InterleavedCalls(metas)) THEN NoMethods
  ELSE [failed |-> FALSE, registry |-> m.registry,
        returns |-> [i \in DOMAIN metas |-> m.answers[2 * i][1].ref],
        args |-> [i \in DOMAIN metas |-> m.answers[2 * i - 1]]]
RegisterMethodsInterleaved(metas) ==
  RegisteredInterleaved(Mapped(InterleavedCalls(metas)), metas)
Registered(m, metas) ==
  IF m.failed \/ ~Ended(m, MethodCalls(metas)) THEN NoMethods
  ELSE [failed |-> FALSE, registry |-> m.registry,
        returns |-> [i \in DOMAIN metas |-> m.answers[i][1].ref],
        args |-> [i \in DOMAIN metas |-> m.answers[Len(metas) + i]]]
RegisterMethods(metas) == Registered(Mapped(MethodCalls(metas)), metas)

\* The fields of {Service}Query and {Service}Mutation, and of the roots.
MethodKinds == {"query", "mutation"}
Suffix(kind) == IF kind = "query" THEN "Query" ELSE "Mutation"
TypeOf(service, kind) == service \o Suffix(kind)
MethodField(metas, done, i) ==
  [name |-> metas[i].method.name, ref |-> done.returns[i], args |-> done.args[i]]
ServiceFields(metas, done, service, kind) ==
  Pick([i \in DOMAIN metas |-> MethodField(metas, done, i)],
       {i \in DOMAIN metas : metas[i].service = service /\ metas[i].method.kind = kind})
RootField(service, kind) ==
  [name |-> service,
   ref |-> [shape |-> <<"NON_NULL">>, kind |-> "OBJECT", name |-> TypeOf(service, kind)]]

Mount(registry, app, metas, done, kind) ==
  LET names == ServiceNames(app)
      fields(s) == ServiceFields(metas, done, s, kind)
      served == Pick(names, {i \in DOMAIN names : fields(names[i]) # << >>})
      types == [n \in {TypeOf(s, kind) : s \in Range(served)} |->
                  TypeInfo("OBJECT", None,
                           fields(CHOOSE s \in Range(served) : TypeOf(s, kind) = n))]
      root == TypeInfo("OBJECT", None, [i \in DOMAIN served |-> RootField(served[i], kind)])
      rooted == IF kind = "query" \/ served # << >> THEN Put(registry, Suffix(kind), root)
                ELSE registry
  IN [n \in DOMAIN rooted \cup DOMAIN types |->
        IF n \in DOMAIN types THEN types[n] ELSE rooted[n]]

NoSchema == [registry |-> << >>, failed |-> TRUE]
Assembled(app, metas, done) ==
  IF done.failed THEN NoSchema
  ELSE [registry |-> Mount(Mount(done.registry, app, metas, done, "query"),
                           app, metas, done, "mutation"),
        failed |-> FALSE]
BuildComposeSchema(app) ==
  LET metas == MethodMetas(app)
  IN IF ~UniqueItems(ServiceNames(app)) \/ (\E i \in DOMAIN metas : metas[i].method.returns = NoReturn)
     THEN NoSchema
     ELSE Assembled(app, metas, RegisterMethods(metas))

Schema == [a \in DOMAIN App |-> BuildComposeSchema(App[a])]

-----------------------------------------------------------------------------
(* Renderings *)

FieldRefs(f) == {f.ref} \cup (IF "args" \in DOMAIN f THEN {f.args[i].ref : i \in DOMAIN f.args}
                              ELSE {})
InfoRefs(info) == UNION {FieldRefs(info.fields[i]) : i \in DOMAIN info.fields}
InfoNames(info) == {r.name : r \in InfoRefs(info)}

\* _collect_closure from a set of names.
Closure(registry, names) ==
  Spread([n \in DOMAIN registry |-> InfoNames(registry[n]) \cap DOMAIN registry], names)

MethodFields(registry, service, kind) ==
  LET type == TypeOf(service, kind)
  IN IF type \in DOMAIN registry THEN Range(registry[type].fields) ELSE {}

\* The field _render_method_sdl and describe_compose_method find: a query of
\* the name, else a mutation.
FoundAs(registry, service, name) ==
  LET has(kind) == \E f \in MethodFields(registry, service, kind) : f.name = name
  IN CASE has("query") -> "query"
       [] ~has("query") /\ has("mutation") -> "mutation"
       [] OTHER -> None
FoundField(registry, service, name) ==
  CHOOSE f \in MethodFields(registry, service, FoundAs(registry, service, name)) : f.name = name

SeedsOfReturn(f) == {f.ref.name}
FragmentSeeds(f) == {r.name : r \in FieldRefs(f)}

\* The types one method's fragment defines, and the names its text uses.
FragmentDefines(registry, service, name) ==
  LET f == FoundField(registry, service, name)
      owner == TypeOf(service, FoundAs(registry, service, name))
  IN {owner} \cup (Closure(registry, FragmentSeeds(f) \cap DOMAIN registry)
                   \ {"Query", "Mutation", owner})
FragmentUses(registry, service, name) ==
  LET f == FoundField(registry, service, name)
      owner == TypeOf(service, FoundAs(registry, service, name))
  IN {r.name : r \in FieldRefs(f)}
     \cup UNION {InfoNames(registry[n]) : n \in FragmentDefines(registry, service, name) \ {owner}}

\* _render_sdl: service types and DTO types are told apart by their names, and
\* input types are left out.
EndsIn(n, suffix) ==
  Len(n) > Len(suffix) /\ SubSeq(n, Len(n) - Len(suffix) + 1, Len(n)) = suffix
StartsIn(n, prefix) == Len(n) >= Len(prefix) /\ SubSeq(n, 1, Len(prefix)) = prefix
Operations == {"Query", "Mutation"}
ServiceType(n) == \E o \in Operations : EndsIn(n, o)
SdlKeeps(n) == ~ServiceType(n) \/ \A o \in Operations : ~StartsIn(n, o)
SdlDefines(registry) ==
  {n \in DOMAIN registry :
     \/ registry[n].kind \in {"SCALAR", "ENUM"}
     \/ registry[n].kind = "OBJECT" /\ SdlKeeps(n)}
SdlUses(registry) ==
  (UNION {InfoNames(registry[n]) : n \in SdlDefines(registry)})
    \ {n \in DOMAIN registry : registry[n].kind = "INPUT_OBJECT"}

\* _render_introspection and one type of it: the whole registry, each type
\* with the fields or input fields its kind has.
IntrospectedType(registry, n) ==
  LET t == registry[n]
  IN [kind |-> t.kind,
      fields |-> IF t.kind = "OBJECT" THEN InfoRefs(t) ELSE {},
      inputs |-> IF t.kind = "INPUT_OBJECT" THEN InfoRefs(t) ELSE {}]
Introspection(registry) == [n \in DOMAIN registry |-> IntrospectedType(registry, n)]

\* describe_compose_schema
Described(registry, service) ==
  UNION {{[name |-> f.name, kind |-> k] : f \in MethodFields(registry, service, k)} :
         k \in MethodKinds}
\* The annotation of compose_query.
Destructive(ids) ==
  \E a \in ids : \E s \in Range(ServiceNames(App[a])) :
    s \o "Mutation" \in DOMAIN Schema[a].registry

-----------------------------------------------------------------------------
(* Which classes an application maps, and which of their names must differ. *)

ClassLeaves ==
  [c \in DOMAIN Class |-> {Class[c].fields[i].type.leaf : i \in DOMAIN Class[c].fields}]
LeavesOf(calls, input) ==
  {x.type.leaf : x \in UNION {Range(call.items) : call \in {c \in Range(calls) : c.input = input}}}
Reached(app, input) ==
  Spread(ClassLeaves, LeavesOf(MethodCalls(MethodMetas(app)), input) \cap DOMAIN Class)

NamesOf(C) == {Class[c].name : c \in C}
ServiceTypes(app) == {TypeOf(s, k) : s \in Range(ServiceNames(app)), k \in MethodKinds}

\* A class has neither the name of a scalar, nor the one a class gets as an
\* input type because it is also returned, nor the one of a type that serves
\* methods.
NamesApart(app) ==
  LET out == Reached(app, FALSE)
      in == Reached(app, TRUE)
      all == out \cup in
      renamed == {InputName(c) : c \in {d \in out \cap in : Class[d].kind = "model"}}
  IN /\ \A c, d \in all :
          Class[c].kind = "scalar" /\ Class[d].name = Class[c].name => Class[d].kind = "scalar"
     /\ renamed \cap NamesOf(all) = {}
     /\ \A c, d \in all : InputName(c) = InputName(d) => Class[c].name = Class[d].name
     /\ (ServiceTypes(app) \cup Operations) \cap (NamesOf(all) \cup renamed) = {}
     /\ ServiceTypes(app) \cap Operations = {}
     /\ \A s, t \in Range(ServiceNames(app)) : \A k, l \in MethodKinds :
          TypeOf(s, k) = TypeOf(t, l) => s = t /\ k = l

\* The full SDL leaves none of its types out.
NamesKept(app) ==
  \A n \in ServiceTypes(app)
           \cup NamesOf({c \in Reached(app, FALSE) : Class[c].kind = "model"}) : SdlKeeps(n)

-----------------------------------------------------------------------------
(* Properties *)

ReorderedServices(app) ==
  {[app EXCEPT !.services =
      [i \in DOMAIN app.services |->
         [app.services[p[i]] EXCEPT !.methods = IF back THEN Reverse(@) ELSE @]]] :
     p \in {q \in [DOMAIN app.services -> DOMAIN app.services] : UniqueItems(q)},
     back \in BOOLEAN}

\* What a type says, whatever the order its fields were declared in.
Meaning(schema) ==
  IF schema.failed THEN NoSchema
  ELSE [failed |-> FALSE,
        registry |-> [n \in DOMAIN schema.registry |->
          [schema.registry[n] EXCEPT !.fields = Range(@)]]]

\* A class is walked once as output and once as input, so that no mapper runs
\* for ever.
StepsSuffice ==
  \A a \in DOMAIN App : \A app \in ReorderedServices(App[a]) :
    LET calls == MethodCalls(MethodMetas(app))
    IN Mapped(calls).failed \/ Ended(Mapped(calls), calls)
ASSUME ComposeAssumption ==
  /\ MaxSteps \in Nat /\ StepsSuffice
  /\ IsFiniteSet(DOMAIN Class) /\ None \notin DOMAIN Class
  /\ \A c \in DOMAIN Class : Class[c].fields \in Seq(Range(Class[c].fields))
  /\ \A a \in DOMAIN App :
       /\ {"services", "enableMutation"} \subseteq DOMAIN App[a]
       /\ App[a].services \in Seq(Range(App[a].services))
       /\ \A s \in Range(App[a].services) :
            /\ {"name", "methods"} \subseteq DOMAIN s /\ s.methods \in Seq(Range(s.methods))
            /\ \A m \in Range(s.methods) : m.params \in Seq(Range(m.params))

\* Moving a service or a method to another place in the application changes
\* neither whether its schema can be built nor what any type of it means, and
\* every type another one refers to is there in the kind it is referred to.
MeansOne(app, schema) ==
  /\ \A moved \in ReorderedServices(app) : Meaning(BuildComposeSchema(moved)) = Meaning(schema)
  /\ \A n \in DOMAIN schema.registry : \A r \in InfoRefs(schema.registry[n]) :
       r.name \in DOMAIN schema.registry /\ schema.registry[r.name].kind = r.kind
OneMeaning(a) == MeansOne(App[a], Schema[a])

\* The fragment of a method is a text of its own: it defines every type it
\* names.  So do the introspection and, input types aside, the full SDL.
TextsClosed(app, registry) ==
  /\ \A s \in Range(ServiceNames(app)) : \A m \in Described(registry, s) :
       FragmentUses(registry, s, m.name) \subseteq FragmentDefines(registry, s, m.name)
  /\ \A n \in DOMAIN registry :
       LET t == Introspection(registry)[n]
       IN /\ {r.name : r \in t.fields \cup t.inputs} \subseteq DOMAIN registry
          /\ \A r \in t.inputs : registry[r.name].kind # "OBJECT"
          /\ t.kind # "INPUT_OBJECT" => t.inputs = {}
  /\ SdlUses(registry) \subseteq SdlDefines(registry)
FragmentsAreClosed(a) == TextsClosed(App[a], Schema[a].registry)
=============================================================================
