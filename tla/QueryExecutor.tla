--------------------------- MODULE QueryExecutor ---------------------------
(***************************************************************************)
(* GraphQL execution: QueryExecutor.execute_query and its entity groups,   *)
(* for requests that overlap on the one executor of a GraphQLHandler.      *)
(*                                                                         *)
(* A method field returns one entity with one selected relationship; the   *)
(* BFS stores the related entity in _results under (id(entity), name of    *)
(* the relationship) and serialization reads it back there.  The address   *)
(* of an entity is free again when the last reference to it, the local     *)
(* `result` of its group, is rebound or dropped: `result = method(..)`     *)
(* binds the coroutine of an async method before it is awaited, and the    *)
(* entity itself when the method is a plain function.  A step is the code  *)
(* between two awaits.                                                     *)
(***************************************************************************)
EXTENDS Integers, Sequences

CONSTANTS
  Requests,   \* overlapping calls of GraphQLHandler.execute
  Document,   \* the operation each executes: [type, fields]
  Addresses,  \* addresses entities are allocated at (a bound)
  NoAddress,  \* no entity
  Relations,  \* names of relationships
  Miss        \* _CACHE_MISS

\* One selected method: its entity group, whether the group and the method
\* exist and validate, whether the method is a coroutine function, the
\* relationship selected, and whether the returned entity's FK is non-null.
FieldType == [group : STRING, kind : {"method", "unknown", "noGroup"},
              async : BOOLEAN, rel : Relations, fk : BOOLEAN]

Fields(r) == Document[r].fields
Positions(r) == 1 .. Len(Fields(r))

\* What a served relationship can hold: the entity loaded for a method, or null.
Null == <<>>
Related == {<<r, i>> : r \in Requests, i \in UNION {Positions(s) : s \in Requests}}

ASSUME ExecutorAssumption ==
  /\ \A r \in Requests : /\ Document[r].type \in {"query", "mutation"}
                         /\ Fields(r) \in Seq(FieldType)
  /\ NoAddress \notin Addresses
  /\ Miss \notin Related

VARIABLES
  pc,       \* where each request is
  pos,      \* the method field it is at
  held,     \* the address of the entity its `result` refers to
  results,  \* QueryExecutor._results
  aborted,  \* mutation_aborted / group_failed
  answers   \* the response: one entry per method field handled

vars == <<pc, pos, held, results, aborted, answers>>

Statuses == {"served", "failed", "lost", "skipped", "rejected"}
Answer == [pos : Nat, status : Statuses, val : Related \cup {Null}]

TypeOK ==
  /\ pc \in [Requests -> {"idle", "next", "calling", "loading", "stored", "done"}]
  /\ pos \in [Requests -> Nat \ {0}]
  /\ \A r \in Requests : pos[r] \in 1 .. Len(Fields(r)) + 1
  /\ held \in [Requests -> Addresses \cup {NoAddress}]
  /\ results \in [Addresses \X Relations -> Related \cup {Null, Miss}]
  /\ aborted \in [Requests -> BOOLEAN]
  /\ answers \in [Requests -> SUBSET Answer]

Init ==
  /\ pc = [r \in Requests |-> "idle"]
  /\ pos = [r \in Requests |-> 1]
  /\ held = [r \in Requests |-> NoAddress]
  /\ results = [key \in Addresses \X Relations |-> Miss]
  /\ aborted = [r \in Requests |-> FALSE]
  /\ answers = [r \in Requests |-> {}]

-----------------------------------------------------------------------------
Field(r) == Fields(r)[pos[r]]
HasField(r) == pos[r] \in Positions(r)

\* The key an entity's relationship is stored under, for the current field.
KeyAt(r, a) == <<a, Field(r).rel>>

\* The frame of _execute_entity_group, and its `result`, end with the group.
GroupEnds(r) ==
  \/ pos[r] = Len(Fields(r))
  \/ pos[r] < Len(Fields(r)) /\ Fields(r)[pos[r] + 1].group # Field(r).group

\* Mutant: the error of an unknown method has no entry in the response.
RespondUnlessRejected(r, status, val, result) ==
  /\ answers' = IF status = "rejected" THEN answers
                ELSE [answers EXCEPT ![r] =
                   @ \cup {[pos |-> pos[r], status |-> status, val |-> val]}]
  /\ pos' = [pos EXCEPT ![r] = @ + 1]
  /\ pc' = [pc EXCEPT ![r] = "next"]
  /\ held' = [held EXCEPT ![r] = IF GroupEnds(r) THEN NoAddress ELSE result]

\* The response entry of the current field, and on to the next one.
Respond(r, status, val, result) ==
  /\ answers' = [answers EXCEPT ![r] =
                   @ \cup {[pos |-> pos[r], status |-> status, val |-> val]}]
  /\ pos' = [pos EXCEPT ![r] = @ + 1]
  /\ pc' = [pc EXCEPT ![r] = "next"]
  /\ held' = [held EXCEPT ![r] = IF GroupEnds(r) THEN NoAddress ELSE result]

\* Mutant: a group forgets that an earlier group failed.
AfterFailureGroupOnly(r) ==
  Document[r].type = "mutation" /\ ~GroupEnds(r)

\* fail_stop: only a mutation skips what follows a failure.
AfterFailure(r) == Document[r].type = "mutation"

\* Mutant: a failure steps over the method after it, without an entry.
FailStepsOver(r, status) ==
  /\ answers' = [answers EXCEPT ![r] =
                   @ \cup {[pos |-> pos[r], status |-> status, val |-> Null]}]
  /\ pos' = [pos EXCEPT ![r] = @ + 2]
  /\ pc' = [pc EXCEPT ![r] = "next"]
  /\ UNCHANGED held
  /\ aborted' = [aborted EXCEPT ![r] = AfterFailure(r)]

\* The except branch: the failed method nulls its own key.
Fail(r, status) ==
  /\ Respond(r, status, Null, held[r])
  /\ aborted' = [aborted EXCEPT ![r] = AfterFailure(r)]

\* Mutant: an error of planning stops the operation.
RejectAborts(r) ==
  /\ pc[r] = "next" /\ HasField(r)
  /\ \/ Field(r).kind = "noGroup"
     \/ Field(r).kind = "unknown" /\ ~aborted[r]
  /\ Fail(r, "rejected")
  /\ UNCHANGED results

\* execute_query empties the loaders and _results before its first await.
BeginRequest(r) ==
  /\ pc[r] = "idle"
  /\ pc' = [pc EXCEPT ![r] = "next"]
  /\ results' = [key \in Addresses \X Relations |-> Miss]
  /\ UNCHANGED <<pos, held, aborted, answers>>

\* An unknown or bare group, and unless a mutation failed before, an unknown
\* method or an invalid selection: an error, and no abort.
Reject(r) ==
  /\ pc[r] = "next" /\ HasField(r)
  /\ \/ Field(r).kind = "noGroup"
     \/ Field(r).kind = "unknown" /\ ~aborted[r]
  /\ Respond(r, "rejected", Null, held[r])
  /\ UNCHANGED <<results, aborted>>

\* Mutant: the skipped method is recorded but never left.
SkipStays(r) ==
  /\ pc[r] = "next" /\ HasField(r)
  /\ aborted[r]
  /\ Field(r).kind # "noGroup"
  /\ answers' = [answers EXCEPT ![r] =
                   @ \cup {[pos |-> pos[r], status |-> "skipped", val |-> Null]}]
  /\ UNCHANGED <<pc, pos, held, results, aborted>>

\* SKIPPED_PRIOR_FAILURE.
Skip(r) ==
  /\ pc[r] = "next" /\ HasField(r)
  /\ aborted[r]
  /\ Field(r).kind # "noGroup"
  /\ Respond(r, "skipped", Null, held[r])
  /\ UNCHANGED <<results, aborted>>

\* The next method of the document is to be executed.
AtMethod(r) ==
  /\ pc[r] = "next" /\ HasField(r)
  /\ ~aborted[r]
  /\ Field(r).kind = "method"

\* An async method is called: `result` is its coroutine, the previous entity
\* is released, and the coroutine is awaited.
CallMethod(r) ==
  /\ AtMethod(r)
  /\ Field(r).async
  /\ pc' = [pc EXCEPT ![r] = "calling"]
  /\ held' = [held EXCEPT ![r] = NoAddress]
  /\ UNCHANGED <<pos, results, aborted, answers>>

\* The method's own code runs: awaited, or for a plain function inside the
\* call, while `result` still refers to the previous entity.
Running(r) ==
  \/ pc[r] = "calling"
  \/ AtMethod(r) /\ ~Field(r).async

\* The arguments raise, the method does, or the load of its relationship.
MethodFails(r) ==
  /\ AtMethod(r) \/ pc[r] \in {"calling", "loading"}
  /\ Fail(r, "failed")
  /\ UNCHANGED results

\* A new entity takes an address no live entity has.  Its relationship is
\* loaded when its FK is not null.
MethodReturns(r, a) ==
  /\ Running(r)
  /\ Field(r).fk
  /\ \A s \in Requests : held[s] # a
  /\ held' = [held EXCEPT ![r] = a]
  /\ pc' = [pc EXCEPT ![r] = "loading"]
  /\ UNCHANGED <<pos, results, aborted, answers>>

\* With a null FK there is no job and no await: the entity is serialized at
\* once, and the accessor looks in _results before it looks at the FK.
ReturnsWithoutLoad(r, a) ==
  /\ Running(r)
  /\ ~Field(r).fk
  /\ \A s \in Requests : held[s] # a
  /\ Respond(r, "served",
             IF results[KeyAt(r, a)] = Miss THEN Null ELSE results[KeyAt(r, a)], a)
  /\ UNCHANGED <<results, aborted>>

\* Mutant: the value is stored under the address of some live entity.
LoadResolvesAnyKey(r) ==
  /\ pc[r] = "loading"
  /\ \E s \in Requests :
       /\ held[s] # NoAddress
       /\ results' = [results EXCEPT ![KeyAt(r, held[s])] = <<r, pos[r]>>]
  /\ pc' = [pc EXCEPT ![r] = "stored"]
  /\ UNCHANGED <<pos, held, aborted, answers>>

\* The task of the load stores its result; the BFS itself resumes later.
LoadResolves(r) ==
  /\ pc[r] = "loading"
  /\ results' = [results EXCEPT ![KeyAt(r, held[r])] = <<r, pos[r]>>]
  /\ pc' = [pc EXCEPT ![r] = "stored"]
  /\ UNCHANGED <<pos, held, aborted, answers>>

\* The BFS resumes, ends, and the entity is serialized.
Serialize(r) ==
  /\ pc[r] = "stored"
  /\ results[KeyAt(r, held[r])] # Miss
  /\ Respond(r, "served", results[KeyAt(r, held[r])], held[r])
  /\ UNCHANGED <<results, aborted>>

\* The stored value is gone: the accessor falls back to the attribute of a
\* detached instance, which raises.
SerializeDetached(r) ==
  /\ pc[r] = "stored"
  /\ results[KeyAt(r, held[r])] = Miss
  /\ Fail(r, "lost")
  /\ UNCHANGED results

FinishRequest(r) ==
  /\ pc[r] = "next" /\ ~HasField(r)
  /\ pc' = [pc EXCEPT ![r] = "done"]
  /\ UNCHANGED <<pos, held, results, aborted, answers>>

Step(r) ==
  \/ Reject(r) \/ Skip(r) \/ CallMethod(r) \/ MethodFails(r)
  \/ \E a \in Addresses : MethodReturns(r, a) \/ ReturnsWithoutLoad(r, a)
  \/ LoadResolves(r) \/ Serialize(r) \/ SerializeDetached(r) \/ FinishRequest(r)

Terminated == (\A r \in Requests : pc[r] = "done") /\ UNCHANGED vars

Next == (\E r \in Requests : BeginRequest(r) \/ Step(r)) \/ Terminated

\* A method that was called returns or raises, and so does a load.
Fairness == \A r \in Requests : WF_vars(Step(r))

Spec == Init /\ [][Next]_vars
FairSpec == Spec /\ Fairness

-----------------------------------------------------------------------------
(* Properties.                                                             *)

Failures == {"failed", "lost"}

\* Operation-scope fail-stop (specs/023 FR-006): a method is skipped exactly
\* when the operation is a mutation one of whose earlier methods failed, in
\* its own entity group or in another, whatever other requests do meanwhile.
SkippedIffPriorFailure ==
  \A r \in Requests : \A a \in answers[r] :
    Fields(r)[a.pos].kind # "noGroup" =>
      (a.status = "skipped" <=>
         /\ Document[r].type = "mutation"
         /\ \E b \in answers[r] : b.pos < a.pos /\ b.status \in Failures)

\* A served entity with a non-null FK carries the relationship loaded for it
\* by its own method, though the requests store under bare addresses, which
\* are given to other entities while a method runs.
LoadedRelationshipIsOwn ==
  \A r \in Requests : \A a \in answers[r] :
    a.status = "served" /\ Fields(r)[a.pos].fk => a.val = <<r, a.pos>>

\* A relationship whose load succeeded reaches the response.
NothingLost ==
  \A r \in Requests : \A a \in answers[r] : a.status # "lost"

\* An entity with a null FK is served without a related entity.
NullKeyServesNull ==
  \A r \in Requests : \A a \in answers[r] :
    a.status = "served" /\ ~Fields(r)[a.pos].fk => a.val = Null

\* Every method field selected gets one entry in the response.
OneAnswerPerField ==
  \A r \in Requests :
    /\ \A a, b \in answers[r] : a.pos = b.pos => a = b
    /\ pc[r] = "done" => {a.pos : a \in answers[r]} = Positions(r)

\* Seen from outside, overlapping requests are answered as if each ran alone:
\* the steps of one are Begin, AnswerDue and End of SerialExecution, or
\* stutter.
Phase(r) == IF pc[r] \in {"idle", "done"} THEN pc[r] ELSE "running"
Serial == INSTANCE SerialExecution
            WITH phase <- [r \in Requests |-> Phase(r)], due <- pos, response <- answers
ExecutesSerially == Serial!SerialSpec

\* A request that begins is answered.
RequestAnswered ==
  \A r \in Requests : (pc[r] # "idle") ~> (pc[r] = "done")
=============================================================================
