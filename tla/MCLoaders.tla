----------------------------- MODULE MCLoaders -----------------------------
(***************************************************************************)
(* Instances of Loaders for TLC.                                           *)
(***************************************************************************)
EXTENDS Loaders

Job(cls, style, cols, page, keys) ==
  [cls |-> cls, style |-> style, cols |-> cols, page |-> page, keys |-> keys]

\* Pages.  A GraphQL argument may be omitted, stray, zero, more than the
\* maximum or past the end; an auto-loaded field has its declared Paged only.
Paged(limit, offset) == [limit |-> limit, offset |-> offset]
MCRaw == [limit1 |-> Paged({1}, {}), limit5 |-> Paged({5}, {}), all |-> Paged({}, {}),
          none |-> Paged({0}, {Stray}), excess |-> Paged({9}, {1}),
          past |-> Paged({}, {}), default |-> Paged({}, {})]
MCDeclared == [p \in DOMAIN MCRaw |-> IF p = "past" THEN Paged({2}, 4) ELSE Paged({}, 0)]
MCCollections == {[i \in 1 .. n |-> i] : n \in 0 .. 5}

MCColumns == {"id", "name", "email"}
MCSqlColumn == [c \in MCColumns |-> c]

\* Rows are joined, identified and sorted by id; a remote page carries the
\* join key beside its rows.
MCAdded == [c \in Classes |-> IF c = "reviewsPage" THEN {} ELSE {"id"}]

\* Split mode, two overlapping requests.  The GraphQL request selects
\* {name} and {name email} through two paths; the Resolver auto-loads DTOs
\* with {email} and {name} and has a resolve_* method with Loader("owner").
SplitGraphql == {Job("owner", "entity", {"name"}, NoPage, {1, 2}),
                 Job("owner", "entity", {"name", "email"}, NoPage, {1})}
SplitResolver == {Job("owner", "dto", {"email"}, NoPage, {2}),
                  Job("owner", "dto", {"name"}, NoPage, {2}),
                  Job("owner", "named", {}, NoPage, {1})}
SplitJobs == SplitGraphql \cup SplitResolver
SplitOffers == [r \in Requests |->
  IF r \in GraphqlRequests THEN SplitGraphql ELSE SplitResolver]

\* Default mode.  The GraphQL request merges {name} and {email} on one loader
\* and reads a paged remote relationship with two page sizes; two Resolver
\* requests auto-load a paged field, each with the page size of its DTO.
DefaultGraphql == {Job("owner", "entity", {"name"}, NoPage, {1}),
                   Job("owner", "entity", {"email"}, NoPage, {2}),
                   Job("reviewsPage", "remotePaged", {"name"}, "none", {1}),
                   Job("reviewsPage", "remotePaged", {"name"}, "excess", {1})}
DefaultResolver(page) == {Job("tasksPage", "dto", {"name"}, page, {1})}
DefaultJobs == DefaultGraphql \cup DefaultResolver("past") \cup DefaultResolver("default")
DefaultOffers == [r \in Requests |->
  CASE r = "g" -> DefaultGraphql
    [] r = "r" -> DefaultResolver("past")
    [] r = "s" -> DefaultResolver("default")]

\* { tasks { owner { name tasks { owner { email } } } } } in default mode, or
\* with the two columns exchanged: both levels load User 1 through the loader
\* of Task.owner.
RevisitJobs == {Job("owner", "entity", {"name"}, NoPage, {1}),
                Job("owner", "entity", {"email"}, NoPage, {1})}
RevisitOffers == [r \in Requests |-> RevisitJobs]

\* { task { owner { tasks(limit: 1) } reviewer { tasks(limit: 5) } } }: the
\* page loader of User.tasks is asked for two page sizes at one level.
TwoPagesJobs == {Job("tasksPage", "entity", {"name"}, "limit1", {1}),
                 Job("tasksPage", "entity", {"name"}, "limit5", {2})}
TwoPagesOffers == [r \in Requests |-> TwoPagesJobs]

\* Split mode: a DTO auto-loads `owner` where another DTO of the same entity
\* has a resolve_* method with Loader("owner").
MixedJobs == {Job("owner", "dto", {"name"}, NoPage, {1}),
              Job("owner", "named", {}, NoPage, {2})}
MixedOffers == [r \in Requests |-> MixedJobs]

\* A remote relationship selected as {id author{name}} and {id author{email}}
\* in one query: both subtrees stand for the foreign key author_id.
NestedColumns == {"id", "author_id", "author.name", "author.email"}
NestedSql == [c \in NestedColumns |->
  IF c \in {"author.name", "author.email"} THEN "author_id" ELSE c]
NestedJobs == {Job("reviews", "remote", {"id", "author.name"}, "all", {1}),
               Job("reviews", "remote", {"id", "author.email"}, "all", {2})}
NestedOffers == [r \in Requests |-> NestedJobs]
=============================================================================
