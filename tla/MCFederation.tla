---------------------------- MODULE MCFederation ----------------------------
EXTENDS GraphqlSchema

MCServices == {"a", "b", "c"}
MCTypes == {"Author", "Book", "Review", "Comment", "User", "ReviewDTO", "UserDTO",
            "ProductDTO", "ReviewView", "Extra", "CurrentUser", "AgentDTO"}
MCRels == {"books", "author", "reviews", "comments", "boss", "extra", "profile", "agents"}

Col(name, type, fk) == [name |-> name, type |-> type, fk |-> fk]
Integer == PyType("scalar", <<"int">>, FALSE, FALSE, FALSE)
Text == PyType("scalar", <<"str">>, FALSE, FALSE, TRUE)
Plain == [fields |-> {Col("id", Integer, FALSE), Col("owner_id", Integer, TRUE)}, methods |-> {}]

Base ==
  [entities |-> [s \in MCServices |-> {}],
   local |-> [s \in MCServices |-> {}],
   declared |-> [s \in MCServices |-> << >>],
   fields |-> [s \in MCServices |-> << >>],
   public |-> [s \in MCServices |-> {}],
   virtual |-> [s \in MCServices |-> << >>],
   own |-> [s \in MCServices |-> [t \in MCTypes |-> << >>]],
   advertised |-> [s \in MCServices |-> s],
   roots |-> [s \in MCServices |-> [t \in MCTypes |-> {"full"}]],
   keyType |-> [s \in MCServices |-> [t \in MCTypes |-> "int"]],
   subsets |-> << >>, expose |-> {}, noDtos |-> {}, serves |-> {},
   calls |-> [s \in MCServices |-> 0],
   models |-> [s \in MCServices |-> [t \in MCTypes |-> Plain]],
   inputs |-> << >>, pagination |-> FALSE,
   members |-> {}, cross |-> {}]

Rem(src, name, svc, type, url, list) ==
  [src |-> src, name |-> name, svc |-> svc, type |-> type, url |-> url, list |-> list,
   key |-> "int"]
Loc(src, name, target, list, paged) ==
  [src |-> src, name |-> name, target |-> target, list |-> list, paged |-> paged,
   custom |-> FALSE]
\* A Relationship to a class of the program.
Rel(src, name, type, list) ==
  [src |-> src, name |-> name, svc |-> None, type |-> type, url |-> None, list |-> list,
   key |-> "int"]
Fld(dto, name, svc, type, url) ==
  [dto |-> dto, name |-> name, svc |-> svc, type |-> type, url |-> url]

\* Two services that mount each other and advertise their mounts.
Mutual ==
  [Base EXCEPT
     !.entities["a"] = {"Author"}, !.entities["b"] = {"Book"},
     !.declared["a"] = <<Rem("Author", "books", "b", "Book", "b", TRUE)>>,
     !.declared["b"] = <<Rem("Book", "author", "a", "Author", "a", FALSE)>>,
     !.roots["b"]["Book"] = {"full", "page"},
     !.expose = {"a", "b"}, !.serves = {"a"}, !.calls["a"] = 2, !.calls["b"] = 2]

\* a mounts b, b mounts c: relationships, DTO fields and a deferred subset
\* that reaches c only when b has come up.
Chain ==
  [Base EXCEPT
     !.entities["a"] = {"Author"}, !.entities["b"] = {"Review", "Comment"},
     !.entities["c"] = {"User"},
     !.local["b"] = {Loc("Review", "comments", "Comment", TRUE, TRUE)},
     !.local["c"] = {Loc("User", "boss", "User", FALSE, FALSE)},
     !.declared["a"] = <<Rem("Author", "reviews", "b", "Review", "b", TRUE)>>,
     !.declared["b"] = <<Rem("Review", "author", "c", "User", "c", FALSE)>>,
     !.fields["a"] = <<Fld("ProductDTO", "reviews", "b", "ReviewDTO", "b")>>,
     !.public["b"] = {[name |-> "ReviewDTO", keyed |-> TRUE, refs |-> {"Review"}]},
     !.public["c"] = {[name |-> "UserDTO", keyed |-> TRUE, refs |-> {}]},
     !.subsets = <<[owner |-> "a", svc |-> "b", type |-> "Review",
                    fields |-> <<Fld("ReviewView", "profile", "c", "UserDTO", None)>>]>>,
     !.expose = {"b"}, !.calls["a"] = 2, !.calls["b"] = 1]

\* A relationship to a type that its service registers late, beside one that
\* is valid from the start; the service answers to two names.
Late ==
  [Base EXCEPT
     !.entities["a"] = {"Author"}, !.entities["b"] = {"Book"},
     !.declared["a"] = <<Rem("Author", "books", "b", "Book", "b", TRUE),
                         Rem("Author", "extra", "b", "Extra", None, FALSE)>>,
     !.fields["a"] = <<Fld("ProductDTO", "reviews", "b", "ReviewDTO", "b")>>,
     !.public["b"] = {[name |-> "ReviewDTO", keyed |-> TRUE, refs |-> {}]},
     !.virtual["b"] = <<"Extra">>, !.virtual["a"] = <<"Comment", "Author">>,
     !.roots["a"]["Comment"] = {},
     !.serves = {"a"}, !.calls["a"] = 2]
LateInvalid == [Late EXCEPT !.keyType["b"]["Extra"] = "Decimal"]
LateNoDtos == [Late EXCEPT !.noDtos = {"b"}]
Stranger == [Late EXCEPT !.advertised["b"] = "x"]

\* a and b composed; a mounts c.
Composition ==
  [Base EXCEPT
     !.entities["a"] = {"Author"}, !.entities["b"] = {"Book"}, !.entities["c"] = {"User"},
     !.local["c"] = {Loc("User", "boss", "User", FALSE, FALSE)},
     !.declared["a"] = <<Rem("Author", "profile", "c", "User", "c", FALSE)>>,
     !.virtual["b"] = <<"Extra">>,
     !.members = {"a", "b"}, !.calls["a"] = 2,
     !.cross = {[src |-> Local("b", "Book"), name |-> "author", target |-> Local("a", "Author")]}]

\* Two services with a type of one name.
Twins ==
  [Base EXCEPT
     !.entities["a"] = {"Author"}, !.entities["b"] = {"Book"}, !.entities["c"] = {"Book"},
     !.declared["a"] = <<Rem("Author", "books", "b", "Book", "b", TRUE),
                         Rem("Author", "extra", "c", "Book", "c", TRUE)>>, !.calls["a"] = 1]

\* A service with methods, inputs, enums, paginated and custom relationships,
\* that mounts another with page roots.
Color == PyType("enum", <<"Color">>, FALSE, FALSE, FALSE)
Schemas ==
  [Base EXCEPT
     !.entities["a"] = {"Author", "Comment"}, !.entities["b"] = {"Review", "User"},
     !.local["a"] = {Loc("Author", "comments", "Comment", TRUE, TRUE),
                     Loc("Comment", "author", "Author", FALSE, FALSE),
                     [Loc("Author", "boss", "Author", FALSE, FALSE) EXCEPT !.custom = TRUE]},
     !.local["b"] = {Loc("Review", "author", "User", FALSE, FALSE),
                     Loc("User", "reviews", "Review", TRUE, TRUE)},
     !.declared["a"] = <<Rem("Author", "reviews", "b", "Review", "b", TRUE)>>,
     !.roots["a"]["Comment"] = {"full", "page"}, !.roots["b"]["Review"] = {"full", "page"},
     !.models["a"]["Author"] =
       [fields |-> {Col("id", Integer, FALSE), Col("name", Text, FALSE), Col("color", Color, FALSE),
                    Col("tags", PyType("scalar", <<"str">>, TRUE, TRUE, TRUE), FALSE),
                    Col("meta", PyType("other", <<"dict">>, FALSE, FALSE, FALSE), FALSE)},
        methods |-> {[name |-> "create", kind |-> "Mutation", page |-> FALSE,
                      args |-> {[name |-> "input", default |-> FALSE,
                                 type |-> PyModel("AuthorInput", FALSE, FALSE)],
                                [name |-> "color", default |-> TRUE, type |-> Color]},
                      returns |-> PyModel("Author", FALSE, TRUE)],
                     [name |-> "by_filter", kind |-> "Query", page |-> FALSE,
                      args |-> {[name |-> "filter", default |-> TRUE,
                                 type |-> PyModel("AuthorFilterInput", FALSE, FALSE)]},
                      returns |-> PyModel("Author", TRUE, FALSE)]}],
     !.inputs = [AuthorInput |-> {Col("name", Text, FALSE),
                                  Col("colors", PyType("enum", <<"Color">>, TRUE, FALSE, FALSE), FALSE),
                                  Col("home", PyModel("AddressInput", FALSE, TRUE), FALSE)},
                 AddressInput |-> {Col("kind", PyType("enum", <<"Kind">>, FALSE, FALSE, TRUE), FALSE)},
                 AuthorFilterInput |-> {Col("tags", PyType("scalar", <<"str">>, TRUE, TRUE, TRUE), FALSE)}],
     !.roots["a"]["Extra"] = {}, !.pagination = TRUE, !.virtual["a"] = <<"Extra">>,
     !.serves = {"a", "b"}, !.calls["a"] = 2]
SchemasFull == [Schemas EXCEPT !.pagination = FALSE, !.virtual["a"] = << >>, !.calls["a"] = 1]

\* A virtual entity with a list of a DTO that is no entity, which is a field of
\* it as well, and a remote relationship; and one whose relationships repeat a
\* name behind a remote one.
Virtuals ==
  [Base EXCEPT
     !.entities["a"] = {"Author"}, !.entities["b"] = {"Book"},
     !.virtual["a"] = <<"CurrentUser">>,
     !.own["a"]["CurrentUser"] = <<Rel("CurrentUser", "agents", "AgentDTO", TRUE),
                                   Rem("CurrentUser", "books", "b", "Book", "b", TRUE),
                                   Rel("CurrentUser", "author", "Author", FALSE)>>,
     !.own["a"]["Extra"] = <<Rel("Extra", "boss", "AgentDTO", FALSE),
                             Rem("Extra", "extra", "b", "Book", "b", FALSE),
                             Rel("Extra", "boss", "Author", FALSE)>>,
     !.models["a"]["CurrentUser"] =
       [fields |-> {Col("id", Integer, FALSE), Col("agents", PyModel("AgentDTO", TRUE, FALSE), FALSE)},
        methods |-> {}],
     !.roots["a"]["CurrentUser"] = {}, !.roots["a"]["Extra"] = {},
     !.roots["b"]["Book"] = {"full", "page"},
     !.serves = {"a"}, !.calls["a"] = 2]
VirtualsClash == [Virtuals EXCEPT !.virtual["a"] = <<"CurrentUser", "Extra">>]

\* A member with a custom relationship to a DTO it may register later, and an
\* ORM relationship to a class that is no entity of it.
Strayed ==
  [Base EXCEPT
     !.entities["a"] = {"Author"}, !.entities["b"] = {"Book"},
     !.local["b"] = {[Loc("Book", "profile", "AgentDTO", FALSE, FALSE) EXCEPT !.custom = TRUE],
                     Loc("Book", "boss", "User", FALSE, FALSE)},
     !.declared["a"] = <<Rem("Author", "books", "b", "Book", "b", TRUE)>>,
     !.virtual["b"] = <<"AgentDTO", "User">>, !.roots["b"]["AgentDTO"] = {},
     !.roots["b"]["User"] = {},
     !.serves = {"a", "b"}, !.calls["a"] = 2, !.calls["b"] = 1]

MCWorlds == {Mutual, Chain, Late, LateInvalid, LateNoDtos, Stranger, Composition, Twins, Schemas, SchemasFull,
             Virtuals, VirtualsClash, Strayed}

\* They are what the theorems about the documents ask for, but for the ORM
\* relationship of Strayed: there the run alone says that the documents agree.
ASSUME MCWorldsRegular == \A w \in MCWorlds \ {Strayed} : Regular(w)
=============================================================================
