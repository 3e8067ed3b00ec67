----------------------------- MODULE DtoSubset -----------------------------
(***************************************************************************)
(* What DefineSubset makes of a class body: the fields of the DTO, those   *)
(* added for the loaders and hidden from the output, the definitions it    *)
(* refuses, the rows build_dto_select reads for it, and the projection of  *)
(* a loaded object onto it.                                                *)
(*                                                                         *)
(* A source entity is a record                                             *)
(*   fields  names of its model_fields                                     *)
(*   pk, fk  those with primary_key / foreign_key metadata (none on a      *)
(*           plain BaseModel)                                              *)
(*   rels    relationship name -> [key, custom, target]: the field its     *)
(*           loader is keyed by, and whether __relationships__ declares it *)
(*   federationKeys  its __federation_keys__                               *)
(* and a definition d a record                                             *)
(*   entity  the source                                                    *)
(*   mode    "fields" (also the tuple syntax), "all" or "omit"             *)
(*   names   the names listed, a sequence                                  *)
(*   extras  class body: field name -> "dto", "entity" (a raw SQLModel),   *)
(*           "remote" (a RemoteRef), "paged" (Annotated[list[DTO], Paged]) *)
(*           or "scalar"                                                   *)
(*   hidden  excluded_fields                                               *)
(*   marks   expose_as and send_to: field -> aliases                       *)
(*   public, federationKey   federation_public and federation_key          *)
(***************************************************************************)
EXTENDS Naturals, Sequences, FiniteSets

Names(d) == {d.names[i] : i \in 1 .. Len(d.names)}
RelNames(e) == DOMAIN e.rels
OrmNames(e) == {r \in RelNames(e) : ~e.rels[r].custom}
CustomKeys(e) == {e.rels[r].key : r \in {s \in RelNames(e) : e.rels[s].custom}}

\* The fields the definition asks for.
Chosen(d) == CASE d.mode = "fields" -> Names(d)
               [] d.mode = "all" -> d.entity.fields
               [] d.mode = "omit" -> d.entity.fields \ Names(d)

Omitted(d) == IF d.mode = "omit" THEN Names(d) ELSE {}

\* Mutant: keys that only __relationships__ declares are not included.
KeysAddedSqlOnly(d) == d.entity.pk \cup (d.entity.fk \ Omitted(d))

\* Keys the loaders of relationships need, whatever the definition lists:
\* primary keys always, foreign keys unless omitted.
KeysAdded(d) == d.entity.pk \cup ((d.entity.fk \cup CustomKeys(d.entity)) \ Omitted(d))

\* __subset_fields__ and the fields added but not shown.
SubsetFields(d) == Chosen(d) \cup KeysAdded(d)
AutoExcluded(d) == {k \in KeysAdded(d) \ Chosen(d) : k \in d.entity.pk => k \in Omitted(d)}

\* Body annotations of subset fields only add metadata; the others are fields.
Extras(d) == DOMAIN d.extras \ SubsetFields(d)

\* The fields of the generated model: names of ORM relationships listed in the
\* subset are left to auto-load, and give no field of their own.
Defined(d) == (SubsetFields(d) \ OrmNames(d.entity)) \cup Extras(d)
Shown(d) == Defined(d) \ (AutoExcluded(d) \cup d.hidden)
MarkedAs(d, f) == IF f \in Defined(d) /\ f \in DOMAIN d.marks THEN d.marks[f] ELSE {}

RemoteFieldRefs(d) == {f \in Extras(d) : d.extras[f] = "remote"}
PagedFields(d) == {f \in Extras(d) : d.extras[f] = "paged"}

-----------------------------------------------------------------------------
(* Definitions that raise when the class statement runs.                   *)

DuplicateName(d) == \E i, j \in 1 .. Len(d.names) : i # j /\ d.names[i] = d.names[j]

\* The name of a relationship of __relationships__ is no field of the source.
UnknownField(d) ==
  \E f \in SubsetFields(d) : f \notin d.entity.fields \cup OrmNames(d.entity)

RawEntityField(d) ==
  \E f \in Extras(d) \cap RelNames(d.entity) : d.extras[f] = "entity"

\* An omitted foreign key owner_id is missed when the relationship owner is a
\* field.  keyNamed is the naming convention: relationship name -> key name.
OmittedKeyNeeded(d, keyNamed) ==
  \E r \in Extras(d) \cap RelNames(d.entity) :
    keyNamed[r] \in Omitted(d) \cap d.entity.fk

\* The join key of a public DTO: the one named, or the only one there is.
JoinKeys(d) == IF d.federationKey # {} THEN d.federationKey \cap d.entity.federationKeys
               ELSE d.entity.federationKeys

NoJoinKey(d) == /\ d.public
                /\ \/ Cardinality(JoinKeys(d)) # 1
                   \/ ~ JoinKeys(d) \subseteq SubsetFields(d)

Accepted(d, keyNamed) == /\ ~DuplicateName(d) /\ ~UnknownField(d)
                         /\ ~RawEntityField(d) /\ ~OmittedKeyNeeded(d, keyNamed)
                         /\ ~NoJoinKey(d)

-----------------------------------------------------------------------------
(* Instances of the DTO.                                                   *)

\* build_dto_select: the columns read for the DTO.
SelectedColumns(d) == SubsetFields(d) \ (RelNames(d.entity) \cup AutoExcluded(d))

\* _orm_to_dto: the fields of the source an instance is made from.
ProjectedFields(d) == SubsetFields(d)

\* The instance holds the key of relationship r.
HoldsKey(d, r, from) ==
  d.entity.rels[r].key \in (IF from = "select" THEN SelectedColumns(d) ELSE ProjectedFields(d))
                             \cap Defined(d)

\* The extra fields the Resolver auto-loads, unless a resolve_* method does.
AutoLoadable(d) ==
  {f \in Extras(d) \cap RelNames(d.entity) : d.extras[f] \in {"dto", "paged"}}
=============================================================================
