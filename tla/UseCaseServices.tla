--------------------------- MODULE UseCaseServices ---------------------------
(***************************************************************************)
(* Applications of use-case services and what every surface reads of       *)
(* them: their services, the methods of a service, which methods a server  *)
(* hides, and the methods JSON-RPC, REST and describe_service list.        *)
(*                                                                         *)
(* An annotation is [wraps, leaf]: "opt" and "list" from the outside in,   *)
(* and the class they wrap.                                                *)
(***************************************************************************)
EXTENDS Naturals, FiniteSets, SequencesExt

CONSTANTS
  Class,  \* class -> [name, kind, fields]: the Python classes annotations use
  App     \* app id -> UseCaseAppConfig

None == "none"
NoReturn == [wraps |-> << >>, leaf |-> None]  \* no return annotation
ClassKinds == {"model", "enum", "scalar", "entity", "unsupported"}
AnnotationOf(t) == t.leaf \in DOMAIN Class /\ t.wraps \in Seq({"opt", "list"})

ASSUME UseCaseServicesAssumption ==
  /\ \A c \in DOMAIN Class :
       /\ Class[c].kind \in ClassKinds
       /\ \A i \in DOMAIN Class[c].fields : AnnotationOf(Class[c].fields[i].type)
  /\ \A a \in DOMAIN App : \A i \in DOMAIN App[a].services :
       \A m \in Range(App[a].services[i].methods) :
         /\ m.kind \in {"query", "mutation"}
         /\ m.returns = NoReturn \/ AnnotationOf(m.returns)
         /\ \A k \in DOMAIN m.params : AnnotationOf(m.params[k].type)

Put(f, key, value) == [x \in DOMAIN f \cup {key} |-> IF x = key THEN value ELSE f[x]]
UniqueItems(s) == \A i, j \in DOMAIN s : s[i] = s[j] => i = j

ServiceNames(app) == [i \in DOMAIN app.services |-> app.services[i].name]
MethodsOf(app, service) ==
  UNION {Range(app.services[i].methods) : i \in {j \in DOMAIN app.services :
                                                    app.services[j].name = service}}
Hidden(app, m) == m.kind = "mutation" /\ ~app.enableMutation
BodyParams(m) == {p.name : p \in {q \in Range(m.params) : ~q.ctx}}
ContextParams(m) == {p.name : p \in {q \in Range(m.params) : q.ctx}}

NameKind(S) == {[name |-> m.name, kind |-> m.kind] : m \in S}
RpcSchema(app, service) == NameKind({m \in MethodsOf(app, service) : ~Hidden(app, m)})
RestRoutesAll(app, service) == NameKind(MethodsOf(app, service))
RestRoutes(app, service) == NameKind({m \in MethodsOf(app, service) : ~Hidden(app, m)})

\* describe_service looks at no enable_mutation: disabled mutations are listed.
DescribeService(app, service) == NameKind(MethodsOf(app, service))
=============================================================================
