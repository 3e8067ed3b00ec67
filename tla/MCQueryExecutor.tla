-------------------------- MODULE MCQueryExecutor --------------------------
(***************************************************************************)
(* Instances of QueryExecutor for TLC.                                     *)
(***************************************************************************)
EXTENDS QueryExecutor

Method(group, rel, fk) ==
  [group |-> group, kind |-> "method", async |-> TRUE, rel |-> rel, fk |-> fk]
PlainMethod(group, rel, fk) == [Method(group, rel, fk) EXCEPT !.async = FALSE]
Unknown(group) == [Method(group, "owner", FALSE) EXCEPT !.kind = "unknown"]
NoGroup(group) == [Method(group, "owner", FALSE) EXCEPT !.kind = "noGroup"]

\* A mutation over three groups, one of them unknown, next to a query.
MixedDocument == [r \in Requests |->
  IF r = "mutation"
  THEN [type |-> "mutation",
        fields |-> <<Method("User", "team", TRUE), Unknown("User"),
                     PlainMethod("User", "team", FALSE), NoGroup("Usr"),
                     Method("Task", "owner", TRUE), PlainMethod("Task", "owner", TRUE)>>]
  ELSE [type |-> "query",
        fields |-> <<Method("User", "team", TRUE), Unknown("User"),
                     Method("Task", "owner", FALSE), Method("Task", "owner", TRUE)>>]]

\* Two queries of one method each.
PairDocument == [r \in Requests |->
  [type |-> "query", fields |-> <<Method("Task", "owner", TRUE)>>]]

\* One query, { Task { first { owner {..} } last { owner {..} } } }, where the
\* last task has no owner.
ReuseDocument == [r \in Requests |->
  [type |-> "query",
   fields |-> <<Method("Task", "owner", TRUE), Method("Task", "owner", FALSE)>>]]
=============================================================================
