---------------------------- MODULE MCResolver ----------------------------
(***************************************************************************)
(* Instances of ResolverTraversal for TLC: small trees that between them    *)
(* load children by resolve_* methods, by auto-load and from fields that    *)
(* are already set, at several depths; and, for a family of DefineSubset    *)
(* definitions, the resolution of one instance of each that is accepted.    *)
(***************************************************************************)
EXTENDS SubsetResolution, TLC
LOCAL INSTANCE FiniteSetsExt

MCFields == <<"items", "owner">>

F(target, one, resolve, rel, declared, fits) ==
  [target |-> target, one |-> one, declared |-> declared, subset |-> FALSE,
   resolve |-> resolve, rel |-> rel, fits |-> fits]
Given(t, one) == F(t, one, FALSE, "none", TRUE, FALSE)
Resolved(t, one) == F(t, one, TRUE, "none", TRUE, FALSE)
Auto(t, one) == F(t, one, FALSE, "local", TRUE, TRUE)

Plain == [fields |-> Empty, isSource |-> FALSE, unregistered |-> FALSE, posts |-> FALSE,
          handler |-> FALSE, collects |-> {}, exposes |-> {}, sends |-> Empty]

\* Epic: sprints given, collects.  Sprint: tasks given, collects and exposes.  Task: owner by resolve_owner,
\* subtasks by auto-load, sends its owner, exposes.  Owner: a leaf that sends.
\* Note: a class that is only followed because the registry knows it.
HandDesc == [
  Sprint |-> [Plain EXCEPT !.fields = ("items" :> Given("Task", FALSE)),
                           !.posts = TRUE, !.collects = {"a"}, !.exposes = {"a", "b"}],
  Epic |-> [Plain EXCEPT !.fields = ("items" :> Given("Sprint", FALSE)),
                         !.posts = TRUE, !.collects = {"a", "b"}, !.exposes = {"a"}],
  Task |-> [Plain EXCEPT !.fields = ("items" :> Auto("Owner", FALSE)) @@
                                    ("owner" :> Resolved("Owner", TRUE)),
                         !.sends = ("a" :> "owner"), !.exposes = {"b"}],
  Owner |-> [Plain EXCEPT !.fields = ("items" :> Given("Note", FALSE)),
                          !.posts = TRUE, !.handler = TRUE,
                          !.sends = ("a" :> "scalar"), !.collects = {"b"}],
  Note |-> [Plain EXCEPT !.fields = ("owner" :> F("Leaf", TRUE, FALSE, "local", FALSE, FALSE)) @@
                                    ("items" :> F("Leaf", FALSE, FALSE, "coalesced", FALSE, FALSE)),
                         !.isSource = TRUE],
  Leaf |-> [Plain EXCEPT !.posts = TRUE, !.sends = ("b" :> "scalar")],
  Stray |-> [Plain EXCEPT !.unregistered = TRUE, !.posts = TRUE]]

None == [f \in Fields |-> << >>]
Hold(pairs) == [n \in Nodes |-> IF n \in DOMAIN pairs THEN pairs[n] @@ None ELSE None]

Doc(class, roots, given, loads, registry) ==
  [class |-> class @@ [n \in Nodes |-> "Leaf"], roots |-> roots, given |-> Hold(given),
   loads |-> loads, keyless |-> {}, registry |-> registry, scannedBefore |-> {},
   calls |-> Calls, made |-> [n \in Nodes |-> {}], how |-> "row", nulls |-> {}]

\* An epic of two sprints; the second call is refused or retries.
TwoSprints ==
  Doc(("n1" :> "Sprint") @@ ("n2" :> "Sprint") @@ ("n3" :> "Task") @@ ("n4" :> "Task")
        @@ ("n5" :> "Owner") @@ ("n6" :> "Owner") @@ ("n7" :> "Owner") @@ ("n8" :> "Epic"),
      [c \in Calls |-> <<"n8">>],
      ("n8" :> ("items" :> <<"n1", "n2">>)) @@ ("n1" :> ("items" :> <<"n3">>)) @@ ("n2" :> ("items" :> <<"n4">>)),
      [c \in Calls |-> Hold(("n3" :> ("owner" :> IF c = 1 THEN <<"n5">> ELSE <<"n7">>))
                            @@ ("n4" :> ("owner" :> <<"n6">>)))],
      FALSE)

\* One sprint; its tasks auto-load, a note is reached through the registry.
Deep ==
  Doc(("n1" :> "Sprint") @@ ("n2" :> "Task") @@ ("n3" :> "Task") @@ ("n4" :> "Owner")
        @@ ("n5" :> "Note"),
      [c \in Calls |-> <<"n1">>],
      ("n1" :> ("items" :> <<"n2", "n3">>)) @@ ("n4" :> ("items" :> <<"n5">>))
        @@ ("n5" :> ("items" :> <<"n6">>)),
      [c \in Calls |-> Hold(("n2" :> ("items" :> <<"n4">>)) @@ ("n5" :> ("owner" :> <<"n7">>)))],
      TRUE)

\* The same owner object is returned for both tasks (a DataLoader does).
Diamond ==
  Doc(("n1" :> "Sprint") @@ ("n2" :> "Sprint") @@ ("n3" :> "Task") @@ ("n4" :> "Task")
        @@ ("n5" :> "Owner"),
      [c \in Calls |-> <<"n1", "n2">>],
      ("n1" :> ("items" :> <<"n3">>)) @@ ("n2" :> ("items" :> <<"n4">>)),
      [c \in Calls |-> Hold(("n3" :> ("owner" :> <<"n5">>)) @@ ("n4" :> ("owner" :> <<"n5">>)))],
      FALSE)

Unknown == [Doc(("n1" :> "Stray"), [c \in Calls |-> <<"n1">>], Empty, [c \in Calls |-> Hold(Empty)], TRUE)
            EXCEPT !.scannedBefore = {"Stray"}]

TaskEntity == [fields |-> {"id", "title", "owner_id"}, pk |-> {"id"}, fk |-> {"owner_id"},
               rels |-> ("owner" :> [key |-> "owner_id", custom |-> FALSE])
                        @@ ("items" :> [key |-> "id", custom |-> FALSE]),
               federationKeys |-> {"owner_id"}]
CardEntity == [TaskEntity EXCEPT !.pk = {}, !.fk = {},
               !.rels = ("owner" :> [key |-> "owner_id", custom |-> TRUE])
                        @@ ("items" :> [key |-> "id", custom |-> TRUE])]
MCKeyNamed == [owner |-> "owner_id", items |-> "items_id"]

Definitions ==
  {[entity |-> e, mode |-> l[1], names |-> l[2], extras |-> x, hidden |-> {"title"},
    marks |-> ("title" :> {"a"}), public |-> p[1], federationKey |-> p[2]] :
     e \in {TaskEntity, CardEntity},
     l \in {<<"fields", <<"title">>>>, <<"fields", <<"title", "owner_id">>>>,
            <<"fields", <<"title", "items">>>>, <<"fields", <<"title", "title">>>>,
            <<"fields", <<"nope">>>>, <<"all", << >>>>, <<"omit", <<"owner_id">>>>,
            <<"omit", <<"id">>>>},
     x \in {("owner" :> "dto"), ("owner" :> "entity"), ("items" :> "paged"),
            ("owner" :> "dto") @@ ("items" :> "dto") @@ ("title" :> "scalar")},
     p \in {<<FALSE, {}>>, <<TRUE, {}>>, <<TRUE, {"id"}>>}}
AcceptedDefinitions == {d \in Definitions : Accepted(d, MCKeyNamed)}
\* What the Resolver sees of a DTO: the fields it loads and the aliases it exposes.
Dtos == {<<AutoLoadable(d), MarkedAs(d, "title")>> : d \in AcceptedDefinitions}
DtoNames == FoldSet(LAMBDA x, f : (x :> "Dto" \o ToString(Cardinality(DOMAIN f))) @@ f, Empty, Dtos)
DtoClass(d) == DtoNames[<<AutoLoadable(d), MarkedAs(d, "title")>>]
DescOf(x) == [Plain EXCEPT !.fields = [r \in x[1] |-> Auto("Leaf", r = "owner")], !.exposes = x[2]]

MCDesc == FoldSet(LAMBDA x, f : (DtoNames[x] :> DescOf(x)) @@ f, HandDesc, Dtos)
MCClasses == DOMAIN MCDesc

\* One instance of the DTO, made from a loaded row or from a row of
\* build_dto_select; every relationship of the entity has rows but those whose
\* key is NULL.
DocOf(d, how, nulls) ==
  [Doc("n1" :> DtoClass(d), [c \in Calls |-> <<"n1">>], Empty,
       [c \in Calls |-> Hold("n1" :> ("owner" :> <<"n2">>) @@ ("items" :> <<"n3">>))], TRUE)
   EXCEPT !.keyless = {<<"n1", r>> : r \in {s \in {"owner", "items"} : s \in nulls \/ ~HoldsKey(d, s, how)}},
          !.calls = {1}, !.made["n1"] = {d}, !.how = how, !.nulls = {"n1"} \X nulls]

HandDocs == {TwoSprints, Deep, [Deep EXCEPT !.keyless = {<<"n2", "items">>}],
           [Deep EXCEPT !.keyless = {<<"n2", "items">>, <<"n3", "items">>}],
           [Deep EXCEPT !.scannedBefore = {"Owner", "Note"}], Diamond, Unknown}

MCDocs == HandDocs \cup {DocOf(d, how, nulls) : d \in AcceptedDefinitions,
                          how \in {"row", "select"}, nulls \in {{}, {"owner"}}}
=============================================================================
