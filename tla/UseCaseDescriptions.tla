------------------------ MODULE UseCaseDescriptions ------------------------
(***************************************************************************)
(* What a server of use-case services tells of itself: the types           *)
(* describe_service lists, the selections it gives as examples and whether *)
(* a result can be projected to a selection.                               *)
(***************************************************************************)
EXTENDS UseCaseServer

-----------------------------------------------------------------------------
(* The types describe_service lists *)

\* The classes whose types describe_service prints: what the annotations of its
\* methods' results reach, a class being skipped if one of its name was seen.
RECURSIVE CollectDtoTypes(_, _)
CollectDtoTypes(found, leaf) ==
  IF Class[leaf].kind \notin {"model", "entity"}
     \/ Class[leaf].name \in {Class[c].name : c \in found}
  THEN found
  ELSE FoldLeft(LAMBDA acc, f : CollectDtoTypes(acc, f.type.leaf), found \cup {leaf},
                Class[leaf].fields)
DescribedTypes(app, service) ==
  LET methods == FlattenSeq([i \in DOMAIN app.services |->
                   IF app.services[i].name = service
                   THEN SelectSeq(app.services[i].methods, LAMBDA m : m.returns # NoReturn)
                   ELSE << >>])
  IN FoldLeft(LAMBDA acc, m : CollectDtoTypes(acc, m.returns.leaf), {}, methods)

-----------------------------------------------------------------------------
(* Projection of a result: core_builder.build_model in its strict mode, and *)
(* the example of a selection that describe_service publishes.  A selection *)
(* is a function from field names to selections, empty for a leaf.          *)

FieldsOf(c) == Range(Class[c].fields)
NestedModel(t) == IF Class[t.leaf].kind \in {"model", "entity"} THEN t.leaf ELSE None

RECURSIVE SelectionFits(_, _)
SelectionFits(c, sel) ==
  /\ sel # << >>
  /\ \A n \in DOMAIN sel :
       \E f \in FieldsOf(c) :
         /\ f.name = n
         /\ IF NestedModel(f.type) = None THEN sel[n] = << >>
            ELSE SelectionFits(f.type.leaf, sel[n])

First(s) == IF s = << >> THEN {} ELSE {s[1]}
\* A class is not entered again below one of its name.
RECURSIVE SelectionExample(_, _)
SelectionExample(c, visited) ==
  IF Class[c].name \in visited THEN << >>
  ELSE LET scalars == SelectSeq(Class[c].fields, LAMBDA f : NestedModel(f.type) = None)
           nested == SelectSeq(Class[c].fields,
                       LAMBDA f : NestedModel(f.type) # None
                                  /\ SelectionExample(f.type.leaf, visited \cup {Class[c].name}) # << >>)
           shown == First(scalars) \cup First(nested)
                    \cup (IF nested = << >> /\ Len(scalars) > 1 THEN {scalars[2]} ELSE {})
       IN [n \in {f.name : f \in shown} |->
             LET f == CHOOSE g \in shown : g.name = n
             IN IF NestedModel(f.type) = None THEN << >>
                ELSE SelectionExample(f.type.leaf, visited \cup {Class[c].name})]

-----------------------------------------------------------------------------
(* Properties *)

\* The types describe_service prints are those the schema has for the results
\* of its methods.
DescriptionsMatch(app, registry) ==
  \A s \in Range(ServiceNames(app)) :
    LET results == UNION {{f.ref.name : f \in MethodFields(registry, s, k)} : k \in MethodKinds}
    IN {n \in Closure(registry, results) : registry[n].kind = "OBJECT"}
         \subseteq {Class[c].name : c \in DescribedTypes(app, s)}

\* The schema, the RPC listing and the REST routes publish exactly the methods
\* of a service that can be called, in their kinds; describe_service publishes
\* those and the mutations the application disables as well, with nothing that
\* tells them apart; and the REST body of a method takes the arguments its field
\* of the schema has.
SurfacesMatch(app, registry) ==
  \A s \in Range(ServiceNames(app)) :
    LET callable == NameKind({m \in MethodsOf(app, s) : ~Hidden(app, m)})
    IN /\ Described(registry, s) = callable /\ RpcSchema(app, s) = callable
       /\ RestRoutes(app, s) = callable
       /\ DescribeService(app, s) =
            callable \cup NameKind({m \in MethodsOf(app, s) : Hidden(app, m)})
       /\ \A m \in {x \in MethodsOf(app, s) : ~Hidden(app, x)} :
            {arg.name : arg \in Range(FoundField(registry, s, m.name).args)} = BodyParams(m)

\* A method is published by the schema, JSON-RPC and REST, with one kind and one
\* set of arguments, if and only if it can be called; describe_service does not
\* hide what enable_mutation = False disables, contrary to the docstring of
\* UseCaseAppConfig (use_case/types.py:20-22); an example selection fits the
\* model it was made from; the types a service is described with are those of
\* its schema; compose_query is marked as destructive if and only if it can run
\* a mutation.
SurfacesAgree ==
  pc = "create" =>
    /\ \A a \in {x \in Range(world.apps) : ~Schema[x].failed} :
         LET registry == Schema[a].registry
         IN DescriptionsMatch(App[a], registry) /\ SurfacesMatch(App[a], registry)
    /\ \A c \in DOMAIN Class :
         SelectionExample(c, {}) # << >> => SelectionFits(c, SelectionExample(c, {}))
    /\ LET built == {a \in Range(world.apps) : ~Schema[a].failed}
       IN Destructive(built) <=>
            \E a \in built : \E s \in Range(App[a].services) : \E m \in Range(s.methods) :
              m.kind = "mutation" /\ ~Hidden(App[a], m)
=============================================================================
