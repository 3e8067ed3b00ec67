--------------------------- MODULE GraphqlSchema ---------------------------
(***************************************************************************)
(* The two renderings of the schema a service serves: the SDL text of      *)
(* SDLGenerator and the __schema answer of IntrospectionGenerator.  Each   *)
(* walks the entity list its cache took at the current version, the        *)
(* registry as it is now, the hints of the classes and the methods; the    *)
(* two decide separately what to print.  A document is the set of its type *)
(* definitions, without descriptions, values and order.                    *)
(***************************************************************************)
EXTENDS Federation

\* A type reference: nn and elem say whether it and its elements are non-null.
Ref(name, list, elem, nn) == [name |-> name, list |-> list, elem |-> elem, nn |-> nn]
One(name, nn) == Ref(name, FALSE, FALSE, nn)
Many(name) == Ref(name, TRUE, TRUE, TRUE)

\* A python annotation: kind is "scalar", "enum", "model" or "other"; names are
\* tuples of the parts of a name.
PyType(kind, name, list, elemOpt, opt) ==
  [kind |-> kind, name |-> name, list |-> list, elemOpt |-> elemOpt, opt |-> opt]
PyModel(name, list, opt) == PyType("model", <<name>>, list, FALSE, opt)

\* The annotations a world declares; a class and an enum have a name of one part.
DeclaredFields(w) == UNION {w.models[k[1]][k[2]].fields : k \in Services \X Types}
DeclaredMethods(w) == UNION {w.models[k[1]][k[2]].methods : k \in Services \X Types}
Annotations(w) ==
  {f.type : f \in (UNION {w.inputs[n] : n \in DOMAIN w.inputs}) \cup DeclaredFields(w)
                   \cup (UNION {f.args : f \in DeclaredMethods(w)})}
  \cup {f.returns : f \in DeclaredMethods(w)}
IsType(t) ==
  /\ t.kind \in {"scalar", "enum", "model", "other"}
  /\ {t.list, t.elemOpt, t.opt} \subseteq BOOLEAN
  /\ t.kind \in {"enum", "model"} => t.name = <<t.name[1]>>

WellAnnotated(w) ==
  /\ w.pagination \in BOOLEAN /\ IsFiniteSet(DOMAIN w.inputs)
  /\ \A t \in Annotations(w) : IsType(t)
  /\ \A f \in DeclaredMethods(w) : \A a \in f.args : a.default \in BOOLEAN

ASSUME SchemaAssumption == IsFiniteSet(Types) /\ \A w \in Worlds : WellAnnotated(w)

-----------------------------------------------------------------------------
(* What the theorems about the two documents ask of the declarations; the  *)
(* code accepts others, and then the documents may differ.                 *)

\* The names a generator makes up, and the built-in scalars.
Reserved == {"Pagination", "Direction", "Query", "Mutation",
             "Int", "Float", "String", "Boolean", "UUID"}

\* Entities, inputs and enums have names of their own, and none is reserved.
NamesDistinct(w) ==
  /\ Types \cap DOMAIN w.inputs = {} /\ Reserved \cap (Types \cup DOMAIN w.inputs) = {}
  /\ \A t \in Annotations(w) : t.kind = "enum" =>
       t.name[1] \notin Types \cup DOMAIN w.inputs \cup {"Pagination", "Query", "Mutation"}

\* A method answers with no input and a column holds none.
InputsGoIn(w) ==
  \A t \in {f.returns : f \in DeclaredMethods(w)} \cup {f.type : f \in DeclaredFields(w)} :
    t.kind = "model" => t.name[1] \notin DOMAIN w.inputs

\* A virtual entity of a service that serves a schema has no methods: those
\* the introspection shows were scanned before it came.
VirtualPlain(w) ==
  \A s \in w.serves : \A t \in Range(w.virtual[s]) \ w.entities[s] :
    w.models[s][t].methods = {} /\ {"full", "page"} \cap w.roots[s][t] = {}

\* An ORM relationship leads to an entity of its service.
MappedListed(w) == \A s \in Services : \A l \in w.local[s] : l.custom \/ l.target \in w.entities[s]

Regular(w) == NamesDistinct(w) /\ InputsGoIn(w) /\ VirtualPlain(w) /\ MappedListed(w)

-----------------------------------------------------------------------------
(* Documents and views.                                                    *)

Field(name, args, ref) == [name |-> name, args |-> args, ref |-> ref]
Arg(name, ref) == [name |-> name, ref |-> ref]
Definition(kind, name, fields) == [kind |-> kind, name |-> name, fields |-> fields]

\* What a rendering reads: a cached entity list, and the registry as it is now
\* and as it was when the cache was filled.
View(m, k) ==
  [m |-> m, classes |-> entities[m][k].classes, reg |-> er[m].reg, then |-> entities[m][k].reg]
EntityNames(v) == {c.type : c \in v.classes}

\* The classes that custom relationships lead to and no entity is named like.
Strays(v) ==
  {v.reg[p[1]][p[2]].target.type :
     p \in {q \in v.classes \X Rels : q[2] \in DOMAIN v.reg[q[1]] /\ v.reg[q[1]][q[2]].kind = "custom"}}
  \ EntityNames(v)

-----------------------------------------------------------------------------
(* The classes rendered.                                                   *)

\* FederatedTypeRegistry._create_model keeps scalar annotations it knows, and
\* makes every relationship a model field that get_type_hints cannot resolve;
\* a fragment tells no field that is named like a relationship.
MaterializedFields(v, c) ==
  LET scalars == world.models[c.svc][c.type].fields
      known(t) == IF t.kind = "scalar" THEN t ELSE PyType("other", <<"Any">>, FALSE, FALSE, FALSE)
      rel(r) == IF r.paged THEN PyType("other", <<"Any">>, FALSE, FALSE, TRUE)
                ELSE PyModel(r.target.type, r.list, TRUE)
  IN {[name |-> f.name, fk |-> FALSE, type |-> known(f.type)] :
        f \in {k \in scalars : k.name \notin DOMAIN v.reg[c]}}
     \cup {[name |-> n, fk |-> FALSE, type |-> rel(v.reg[c][n])] : n \in DOMAIN v.reg[c]}

Materialized(c) == c.try # 0
ModelFields(v, c) ==
  {f \in IF Materialized(c) THEN MaterializedFields(v, c)
         ELSE world.models[c.svc][c.type].fields : ~f.fk}

\* ORM relationships are hints of the class; custom and remote ones are not.
Hints(c) ==
  IF Materialized(c) THEN {}
  ELSE {[name |-> l.name, type |-> PyModel(l.target, l.list, ~l.list)] :
          l \in {k \in world.local[c.svc] : k.src = c.type /\ ~k.custom}}

\* __pagination_orders__ of the target gives an ORM list a capability.
HasOrders(s, t) == "page" \in world.roots[s][t]
Capable(r) ==
  \/ r.kind = "paged"
  \/ r.kind = "local" /\ r.list /\ HasOrders(r.target.svc, r.target.type)

\* is_active_paginated_relationship.
ActivePaginated(r) ==
  r.list /\ \/ r.kind = "paged"
            \/ r.kind = "coalesced" /\ r.paged
            \/ r.kind = "local" /\ r.paged /\ world.pagination
IsPaginated(v, c, n) == n \in DOMAIN v.reg[c] /\ ActivePaginated(v.reg[c][n])
PaginatedTargets(v) ==
  {v.reg[p[1]][p[2]].target.type : p \in {q \in v.classes \X Rels : IsPaginated(v, q[1], q[2])}}

\* federation_order_enum_layout: the relationships with a capability, with the
\* order enum of their target.
OrderLayout(classes, reg) ==
  {[on |-> p[1].type, name |-> p[2], enum |-> <<reg[p[1]][p[2]].target.type, "Order">>] :
     p \in {q \in classes \X Rels :
              q[2] \in DOMAIN reg[q[1]] /\ Capable(reg[q[1]][q[2]])}}
LayoutEnums(layout) == {o.enum : o \in layout} \cup IF layout = {} THEN {} ELSE {<<"Direction">>}

\* The methods of an entity: its own, and the roots add_standard_queries makes
\* for its federation key.
KeyRoot(s, t) ==
  [name |-> "by_key_in", kind |-> "Query", page |-> FALSE,
   args |-> {[name |-> "key_list", default |-> FALSE,
              type |-> PyType("scalar", <<world.keyType[s][t]>>, TRUE, FALSE, FALSE)]},
   returns |-> PyModel(t, TRUE, FALSE)]
PageRoot(s, t) ==
  [KeyRoot(s, t) EXCEPT !.name = "page_by_key_in", !.page = TRUE,
     !.args = @ \cup
       {[name |-> a[1], default |-> TRUE, type |-> PyType(a[2], a[3], FALSE, FALSE, a[4])] :
          a \in {<<"order", "enum", <<t, "PageOrder">>, FALSE>>,
                 <<"direction", "enum", <<"Direction">>, FALSE>>,
                 <<"limit", "scalar", <<"int">>, TRUE>>, <<"offset", "scalar", <<"int">>, FALSE>>}}]
Methods(c) ==
  IF Materialized(c) THEN {}
  ELSE world.models[c.svc][c.type].methods
       \cup (IF "full" \in world.roots[c.svc][c.type] THEN {KeyRoot(c.svc, c.type)} ELSE {})
       \cup (IF HasOrders(c.svc, c.type) THEN {PageRoot(c.svc, c.type)} ELSE {})
PageRoots(v) == {c \in v.classes : \E f \in Methods(c) : f.page}

-----------------------------------------------------------------------------
(* Types: what is reached from a set of annotations, and how it is printed. *)

ScalarName(n) == CASE n = <<"int">> -> <<"Int">> [] n = <<"UUID">> -> n [] OTHER -> <<"String">>

\* What the fields of inputs and the hints of classes mention, by model.
InputFields ==
  UNION {{<< <<n>>, f.type>> : f \in world.inputs[n]} : n \in DOMAIN world.inputs}
ClassHints(v) ==
  UNION {{<< <<c.type>>, h.type>> : h \in world.models[c.svc][c.type].fields \cup Hints(c)} :
           c \in {k \in v.classes : ~Materialized(k)}}

\* The annotations reached from a set of annotations through the models.
ModelNames(types) == {t.name : t \in {u \in types : u.kind = "model"}}
Reached(edges, types) ==
  LET models == Cardinality({e[1] : e \in edges})
      f[k \in 0 .. models] ==
        IF k = 0 THEN types
        ELSE LET before == f[k - 1]
             IN before \cup {e[2] : e \in {x \in edges : x[1] \in ModelNames(before)}}
  IN f[models]
ParamTypes(f) == {a.type : a \in f.args}

\* _collect_input_types of either generator: models that are no entities.
InputNames(types) ==
  {n[1] : n \in ModelNames(Reached(InputFields, types))} \cap DOMAIN world.inputs
EnumNames(v, types) ==
  {t.name : t \in {u \in Reached(InputFields \cup ClassHints(v), types) : u.kind = "enum"}}

\* A printed leaf; a model class that is no entity counts when it is in shown.
LeafName(v, t, shown) ==
  CASE t.kind = "enum" -> t.name
    [] t.kind = "model" /\ t.name[1] \in EntityNames(v) \cup shown -> t.name
    [] t.kind = "scalar" -> ScalarName(t.name)
    [] OTHER -> <<"String">>

\* _python_type_to_graphql: an enum never has its own "!".
SdlRef(v, t, shown) ==
  Ref(LeafName(v, t, shown), t.list, t.list /\ ~t.elemOpt /\ t.kind # "enum",
      ~t.opt /\ (t.list \/ t.kind # "enum"))
\* _input_type_to_graphql: a list is non-null even inside Optional.
SdlInputRef(v, t, shown) ==
  [SdlRef(v, t, shown) EXCEPT !.nn = t.list \/ (~t.opt /\ t.kind # "enum")]
\* _build_type_ref: get_list_inner_type drops the nullability of elements.
IntroRef(v, t, shown, required) ==
  Ref(LeafName(v, t, shown), t.list, t.list, required /\ ~t.opt)

-----------------------------------------------------------------------------
(* SDLGenerator.generate.                                                  *)

LimitOffset == {Arg("limit", One(<<"Int">>, FALSE)), Arg("offset", One(<<"Int">>, FALSE))}
\* The order argument names the enum of the layout a generator holds.
PageArgs(layout, c, n, r) ==
  IF ~Capable(r) THEN LimitOffset
  ELSE LimitOffset \cup {Arg("direction", One(<<"Direction">>, FALSE))}
       \cup {Arg("order", One(o.enum, FALSE)) : o \in {p \in layout : p.on = c.type /\ p.name = n}}
ResultRef(target) == One(<<target, "Result">>, TRUE)

SdlEntity(v, layout, c) ==
  LET rels == v.reg[c]
      hinted == {h \in Hints(c) : h.type.name[1] \in EntityNames(v)}
      args(n) == IF IsPaginated(v, c, n) THEN PageArgs(layout, c, n, rels[n]) ELSE {}
      ofHint(h) == IF h.type.list /\ IsPaginated(v, c, h.name) THEN ResultRef(h.type.name[1])
                   ELSE SdlRef(v, h.type, {})
      ofRel(r) == IF ActivePaginated(r) THEN ResultRef(r.target.type)
                  ELSE IF r.list THEN Many(<<r.target.type>>) ELSE One(<<r.target.type>>, FALSE)
      columns == {f \in ModelFields(v, c) : f.name \notin DOMAIN rels}
      others == DOMAIN rels \ {h.name : h \in hinted}
  IN Definition("object", <<c.type>>,
       {Field(f.name, {}, SdlRef(v, f.type, {})) : f \in columns}
       \cup {Field(h.name, args(h.name), ofHint(h)) : h \in hinted}
       \cup {Field(n, args(n), ofRel(rels[n])) : n \in others})

\* _method_to_graphql_field: an argument with a default loses its "!".
SdlMethod(v, c, f) ==
  LET known == DOMAIN world.inputs
      ref(a) == LET r == SdlRef(v, a.type, known)
                IN IF a.default THEN [r EXCEPT !.nn = FALSE] ELSE r
  IN Field(f.name, {Arg(a.name, ref(a)) : a \in f.args},
           IF f.page THEN Many(<<c.type, "PagePackage">>) ELSE SdlRef(v, f.returns, known))

Items(t) == {Field("items", {}, Many(<<t>>)), Field("pagination", {}, One(<<"Pagination">>, TRUE))}
PaginationTypes(v) ==
  {Definition("object", <<"Pagination">>,
     {Field("has_more", {}, One(<<"Boolean">>, TRUE)), Field("total_count", {}, One(<<"Int">>, FALSE))})}
  \cup {Definition("object", <<t, "Result">>, Items(t)) : t \in PaginatedTargets(v)}

SdlPackages(v) ==
  {Definition("object", <<c.type, "PagePackage">>,
     Items(c.type) \cup {Field("key", {}, SdlRef(v, [k EXCEPT !.list = FALSE], {})) :
                           k \in ParamTypes(KeyRoot(c.svc, c.type))}) : c \in PageRoots(v)}

\* _collect_groups, from the methods of the listed classes.
SdlGroups(v, kind) ==
  LET of(c) == {f \in Methods(c) : f.kind = kind}
      on == {c \in v.classes : of(c) # {}}
  IN {Definition("object", <<c.type, kind>>, {SdlMethod(v, c, f) : f \in of(c)}) : c \in on}
     \cup IF on = {} THEN {}
          ELSE {Definition("object", <<kind>>,
                  {Field(c.type, {}, One(<<c.type, kind>>, TRUE)) : c \in on})}

SdlEnums(v, layout) ==
  LET methods == UNION {ParamTypes(f) \cup {f.returns} : f \in UNION {Methods(c) : c \in v.classes}}
  IN EnumNames(v, {h[2] : h \in ClassHints(v)} \cup methods) \cup LayoutEnums(layout)

SdlInputs(v) ==
  LET names == InputNames(UNION {ParamTypes(f) : f \in UNION {Methods(c) : c \in v.classes}})
  IN {Definition("input", <<n>>,
        {Field(f.name, {}, SdlInputRef(v, f.type, DOMAIN world.inputs)) : f \in world.inputs[n]}) :
        n \in names}

\* has_any_paginated_relationship and has_any_pagination_root.
\* Mutant: a service with page roots and no paginated relationship is forgotten.
NeedsPaginationRelsOnly(v) == world.pagination \/ PaginatedTargets(v) # {}
NeedsPagination(v) == world.pagination \/ PaginatedTargets(v) # {} \/ PageRoots(v) # {}

\* The order layout is taken when the text is generated.
Sdl(v) ==
  LET layout == OrderLayout(v.classes, v.reg)
  IN {Definition("enum", n, {}) : n \in SdlEnums(v, layout)}
     \cup SdlInputs(v) \cup {SdlEntity(v, layout, c) : c \in v.classes}
     \cup (IF NeedsPagination(v) THEN PaginationTypes(v) ELSE {})
     \cup SdlPackages(v) \cup SdlGroups(v, "Query") \cup SdlGroups(v, "Mutation")

-----------------------------------------------------------------------------
(* IntrospectionGenerator.generate.                                        *)

IntroLayout(v) == OrderLayout(v.classes, v.then)
\* The methods were scanned when the handler was made.
Scanned(v) == {c \in v.classes : ~Materialized(c) /\ c.type \in world.entities[v.m]}
IntroInputNames(v) ==
  InputNames(UNION {ParamTypes(f) : f \in UNION {Methods(c) : c \in Scanned(v)}})

\* _build_field: paginated only when the annotation itself is a list.
IntroField(v, c, n, t, shown) ==
  LET result == IF t.name[1] \in EntityNames(v) THEN ResultRef(t.name[1]) ELSE IntroRef(v, t, shown, TRUE)
  IN IF IsPaginated(v, c, n) /\ t.list /\ ~t.opt
     THEN Field(n, PageArgs(IntroLayout(v), c, n, v.reg[c][n]), result)
     ELSE Field(n, {}, IntroRef(v, t, shown, TRUE))

\* Model fields, relationships among them, then hints, then the registry.
IntroEntity(v, shown, c) ==
  LET hinted == {h \in Hints(c) : h.type.name[1] \in EntityNames(v)}
      rels == {[name |-> n, type |-> PyModel(v.reg[c][n].target.type, v.reg[c][n].list, FALSE)] :
                 n \in DOMAIN v.reg[c] \ {h.name : h \in hinted}}
  IN Definition("object", <<c.type>>,
       {IntroField(v, c, f.name, f.type, shown) :
          f \in {[name |-> k.name, type |-> k.type] : k \in ModelFields(v, c)} \cup hinted \cup rels})

IntroMethod(v, shown, c, f) ==
  Field(f.name, {Arg(a.name, IntroRef(v, a.type, shown, ~a.default)) : a \in f.args},
        IF f.page THEN Many(<<c.type, "PagePackage">>) ELSE IntroRef(v, f.returns, shown, TRUE))

IntroPackages(v) ==
  {Definition("object", <<c.type, "PagePackage">>,
     Items(c.type) \cup {Field("key", {}, IntroRef(v, [k EXCEPT !.list = FALSE], {}, TRUE)) :
                           k \in ParamTypes(KeyRoot(c.svc, c.type))}) : c \in PageRoots(v)}

IntroGroups(v, shown, kind) ==
  LET of(c) == {f \in Methods(c) : f.kind = kind}
      on == {c \in Scanned(v) : of(c) # {}}
  IN {Definition("object", <<c.type, kind>>, {IntroMethod(v, shown, c, f) : f \in of(c)}) : c \in on}
     \cup IF on = {} THEN {}
          ELSE {Definition("object", <<kind>>,
                  {Field(c.type, {}, One(<<c.type, kind>>, TRUE)) : c \in on})}

\* Mutant: the order enums of remote pages are left to the SDL.
IntroEnumsOwn(v) ==
  LET locals == {c \in v.classes : ~Materialized(c)}
  IN EnumNames(v, (UNION {{f.type : f \in world.models[c.svc][c.type].fields} : c \in locals})
                  \cup (UNION {ParamTypes(f) : f \in UNION {Methods(c) : c \in Scanned(v)}}))
\* The enums of entity hints and method signatures, and those of the layout
\* taken when the generator was made.
IntroEnums(v) ==
  LET methods == UNION {ParamTypes(f) \cup {f.returns} : f \in UNION {Methods(c) : c \in Scanned(v)}}
  IN EnumNames(v, {h[2] : h \in ClassHints(v)} \cup methods) \cup LayoutEnums(IntroLayout(v))

IntroInputs(v, shown) ==
  {Definition("input", <<n>>,
     {Field(f.name, {}, IntroRef(v, f.type, shown, TRUE)) : f \in world.inputs[n]}) : n \in shown}

Introspection(v) ==
  LET shown == IntroInputNames(v)
  IN {Definition("enum", n, {}) : n \in IntroEnums(v)}
     \cup IntroInputs(v, shown) \cup {IntroEntity(v, shown, c) : c \in v.classes}
     \cup (IF NeedsPagination(v) THEN PaginationTypes(v) ELSE {})
     \cup IntroPackages(v) \cup IntroGroups(v, shown, "Query") \cup IntroGroups(v, shown, "Mutation")

-----------------------------------------------------------------------------
(* Properties of the pair.                                                 *)

BuiltIn == {<<"Int">>, <<"Float">>, <<"String">>, <<"Boolean">>, <<"UUID">>}

\* Every name a document uses is defined in it, once, or is one of others.
WellFormed(doc, others) ==
  /\ \A d, e \in doc : d.name = e.name => d = e
  /\ \A d \in doc : \A f \in d.fields :
       \A r \in {f.ref} \cup {a.ref : a \in f.args} :
         r.name \in BuiltIn \cup {e.name : e \in doc} \cup others

\* The same reference, but for the "!" of enums and of list elements and inputs,
\* and of a registered relationship to one.
Agree(r, s, loose) ==
  r.name = s.name /\ r.list = s.list /\ (loose \/ r.nn = s.nn)
\* The SDL prints the name of a class of strays, introspection answers String.
AgreeOnStray(r, s) ==
  s = IF r.list THEN Many(<<"String">>) ELSE One(<<"String">>, TRUE)
SameFields(sdl, intro, enums, strays) ==
  LET loose(r) == r.name \in enums \/ sdl.kind = "input"
  IN /\ {f.name : f \in sdl.fields} = {f.name : f \in intro.fields}
     /\ \A f \in sdl.fields : \E g \in intro.fields :
          /\ f.name = g.name
          /\ {a.name : a \in f.args} = {a.name : a \in g.args}
          /\ \A a \in f.args : \E b \in g.args : a.name = b.name /\ Agree(a.ref, b.ref, loose(a.ref))
          /\ IF f.ref.name \in strays THEN AgreeOnStray(f.ref, g.ref)
             ELSE Agree(f.ref, g.ref, loose(f.ref) \/ (f.name \in Rels /\ ~f.ref.list))
SameSchema(sdl, intro, strays) ==
  LET enums == {d.name : d \in {e \in sdl : e.kind = "enum"}}
  IN /\ {<<d.kind, d.name>> : d \in sdl} = {<<d.kind, d.name>> : d \in intro}
     /\ \A d \in sdl : \E e \in intro : e.name = d.name /\ SameFields(d, e, enums, strays)

\* What a client reads as SDL and what it reads as __schema is one schema, as
\* long as bare names are unique and no call failed halfway: the same types,
\* fields and arguments.  Virtual entities and remote types come between the
\* moments the two caches are filled and the moments they are read.  The two
\* part at one place: a custom relationship to a class that is no entity.
BareNamesUnique(m) ==
  \A c, d \in DOMAIN er[m].reg : c.type = d.type => c = d
Served == {m \in Services : Cached(m, "sdl") /\ Cached(m, "intro")
                            /\ ~spoilt[m] /\ BareNamesUnique(m)}
StrayNames(v) == {<<t>> : t \in Strays(v)}
RenderingsAgree ==
  \A m \in Served : LET v == View(m, "sdl")
                    IN SameSchema(Sdl(v), Introspection(View(m, "intro")), StrayNames(v))
\* Either document, read alone, defines every name it uses, once; the SDL all
\* but the classes that custom relationships lead to and that are no entities.
SchemaWellFormed ==
  \A m \in Served : LET v == View(m, "sdl")
                    IN /\ WellFormed(Sdl(v), StrayNames(v))
                       /\ WellFormed(Introspection(View(m, "intro")), {})
=============================================================================
