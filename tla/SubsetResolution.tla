------------------------- MODULE SubsetResolution -------------------------
(***************************************************************************)
(* Nodes that are instances of DefineSubset classes, in the hands of a     *)
(* Resolver: ResolverTraversal knows a class by the fields it loads and a  *)
(* node by the keys it lacks, DtoSubset says what they are for a class     *)
(* made by a definition.                                                   *)
(*                                                                         *)
(* A tree says besides                                                     *)
(*   made   for each node, the definition of its class, or {} of a class   *)
(*          written by hand                                                *)
(*   how    whether the nodes were made from loaded rows ("row") or from   *)
(*          rows of build_dto_select ("select")                            *)
(*   nulls  node and relationship pairs whose key is NULL in the database  *)
(***************************************************************************)
EXTENDS ResolverTraversal, DtoSubset

CONSTANT KeyNamed  \* relationship name -> the foreign key named after it

\* What _scan_auto_load_fields reads of an extra field: it stands in model_fields
\* and is none of __subset_fields__.
ExtraField(f) == f.declared /\ ~f.subset

\* _batch_auto_load reads the key off the node: an attribute that is missing
\* counts as None.
LacksKey(x, n, d, r) == <<n, r>> \in x.nulls \/ ~HoldsKey(d, r, x.how)

\* Node n of tree x is an instance of the class d made.
MadeBy(x, n, d) ==
  /\ Accepted(d, KeyNamed)
  /\ \A r \in AutoLoadable(d) :
       /\ r \in DOMAIN Desc[x.class[n]].fields /\ ExtraField(Desc[x.class[n]].fields[r])
       /\ <<n, r>> \in x.keyless <=> LacksKey(x, n, d, r)

SubsetsFit == \A x \in Docs : \A n \in Nodes : \A d \in x.made[n] : MadeBy(x, n, d)
ASSUME SubsetAssumption == SubsetsFit

-----------------------------------------------------------------------------
(* Properties.                                                             *)

\* The relationship of the field is registered, for a type the field can hold.
FieldRegistered(f) == f.rel = "local" /\ f.fits

\* The metaclass can tell the key of r: it is a primary or foreign key, or one
\* that __relationships__ declares.
KeyKnown(e, r) == e.rels[r].key \in (e.pk \cup e.fk \cup CustomKeys(e)) \ RelNames(e)

\* A definition that omits the key of r still has it if it is a primary key, and
\* is refused if it is a foreign key named after r; build_dto_select reads the
\* keys the definition lists.
KeyPromised(d, r, how) ==
  LET key == d.entity.rels[r].key
  IN /\ KeyKnown(d.entity, r)
     /\ key \in Omitted(d) => key \in d.entity.pk \/ (key \in d.entity.fk /\ key = KeyNamed[r])
     /\ how = "select" => key \in Chosen(d)

\* A field an accepted definition declares for a registered relationship is
\* loaded on every instance visited, though the definition does not list the key
\* its loader needs; a NULL key and a to-one result of None leave it as it is.
DeclaredRelationshipsLoad ==
  (pc[latest] = "done" /\ strays = {} /\ doc.registry) =>
    \A i \in 1 .. Len(visits) :
      LET n == visits[i].node
          fields == Desc[ClassOf(n)].fields
          promised(d) == {r \in AutoLoadable(d) : FieldRegistered(fields[r]) /\ KeyPromised(d, r, doc.how)
                                                  /\ <<n, r>> \notin doc.nulls}
      IN \A d \in doc.made[n] : \A r \in promised(d) :
           \/ heap[n][r] = doc.loads[latest][n][r]
           \/ fields[r].one /\ doc.loads[latest][n][r] = << >>
=============================================================================
