------------------------ MODULE UseCaseExecutorProofs ------------------------
(***************************************************************************)
(* Safety of the servers of use cases, for every set of applications,      *)
(* servers and requests: what is confirmed before it runs, that calls of   *)
(* mutations are serial and stop at the first failure, and that an answer  *)
(* with data accounts for every selection.                                 *)
(***************************************************************************)
EXTENDS UseCaseExecutor, SubsequencesProofs

Asking == {"create", "gate", "asked", "context", "parse"}
Running == {"group", "queries", "unwinding", "mutations", "mutating"}

-----------------------------------------------------------------------------
(* What a step changes *)

Responses == {"accept", "accept false", "decline", "nothing"}

\* Who changes what.
Frame ==
  /\ world' = world /\ server' = server
  /\ tasks' = tasks \/ StartGroup \/ NextGroup
     \/ \E k \in DOMAIN tasks, result \in Ends \cup {"cancelled"} : QueryEnds(k, result)
  /\ data' = data \/ StartGroup \/ Gather \/ StartMutation \/ SkipMutation
     \/ \E result \in Ends \cup {"cancelled"} : MutationEnds(result)
  /\ errors' = errors \/ Gather \/ StartMutation \/ SkipMutation
     \/ \E result \in Ends \cup {"cancelled"} : MutationEnds(result)
  /\ items' = items \/ \E i \in DOMAIN items :
        CheckItem(i) \/ StartItem(i) \/ \E result \in {"model", "raised"} : EndItem(i, result)
  /\ legs' = legs \/ \E response \in Responses : CallAgain(response)
  /\ group' = group \/ NextGroup
  /\ aborted' = aborted \/ StartMutation
     \/ \E result \in Ends \cup {"cancelled"} : MutationEnds(result)

\* What each step may change.
LEMMA StepFrame ==
  ASSUME [Next]_vars
  PROVE  Frame
<1>1. CASE Receive
  BY <1>1 DEF Receive, Step, Goto, Reply, runVars, Frame
<1>2. CASE NotFound
  BY <1>2 DEF NotFound, Step, Goto, Reply, runVars, Frame
<1>3. CASE GateOpen
  BY <1>3 DEF GateOpen, Step, Goto, Reply, runVars, Frame
<1>4. CASE Elicit
  BY <1>4 DEF Elicit, Step, Goto, Reply, runVars, Frame
<1>5. CASE GuardLegAsks
  BY <1>5 DEF GuardLegAsks, GuardLeg, Step, Goto, Reply, runVars, Frame
<1>6. CASE ExtractContext
  BY <1>6 DEF ExtractContext, Step, Goto, Reply, runVars, Frame
<1>7. CASE ParseDocument
  BY <1>7 DEF ParseDocument, Step, Goto, Reply, runVars, Frame
<1>8. CASE PlanError
  BY <1>8 DEF PlanError, Step, Goto, Reply, runVars, Frame
<1>9. CASE StartGroup
  BY <1>9 DEF StartGroup, Step, Goto, Reply, runVars, Frame
<1>10. CASE Gather
  BY <1>10 DEF Gather, Step, Goto, Reply, runVars, Frame
<1>11. CASE StartMutation
  BY <1>11 DEF StartMutation, PutResult, Step, Goto, Reply, runVars, Frame
<1>12. CASE SkipMutation
  BY <1>12 DEF SkipMutation, PutResult, Step, Goto, Reply, runVars, Frame
<1>13. CASE NextGroup
  BY <1>13 DEF NextGroup, Step, Goto, Reply, runVars, Frame
<1>14. CASE AnswerData
  BY <1>14 DEF AnswerData, Step, Goto, Reply, runVars, Frame
<1>15. ASSUME NEW i \in DOMAIN items, CheckItem(i)
      PROVE  Frame
  BY <1>15 DEF CheckItem, Item, ItemStep, Step, Goto, Reply, runVars, Frame
<1>16. ASSUME NEW i \in DOMAIN items, StartItem(i)
      PROVE  Frame
  BY <1>16 DEF StartItem, Item, ItemStep, Step, Goto, Reply, runVars, Frame
<1>17. CASE AnswerBatch
  BY <1>17 DEF AnswerBatch, Step, Goto, Reply, runVars, Frame
<1>18. CASE SolveDependency
  BY <1>18 DEF SolveDependency, Step, Goto, Reply, runVars, Frame
<1>19. CASE CallRoute
  BY <1>19 DEF CallRoute, Step, Goto, Reply, runVars, Frame
<1>20. ASSUME NEW k \in DOMAIN tasks, NEW result \in Ends \cup {"cancelled"},
             QueryEnds(k, result)
      PROVE  Frame
  BY <1>20 DEF QueryEnds, Step, Goto, Reply, runVars, Frame
<1>21. ASSUME NEW result \in Ends \cup {"cancelled"}, MutationEnds(result)
      PROVE  Frame
  BY <1>21 DEF MutationEnds, PutResult, Step, Goto, Reply, runVars, Frame
<1>22. ASSUME NEW i \in DOMAIN items, NEW result \in {"model", "raised"}, EndItem(i, result)
      PROVE  Frame
  BY <1>22 DEF EndItem, Item, ItemStep, Step, Goto, Reply, runVars, Frame
<1>23. ASSUME NEW result \in {"model", "raised"}, EndRoute(result)
      PROVE  Frame
  BY <1>23 DEF EndRoute, Step, Goto, Reply, runVars, Frame
<1>24. ASSUME NEW accepts \in BOOLEAN, HumanAnswers(accepts)
      PROVE  Frame
  BY <1>24 DEF HumanAnswers, Step, Goto, Reply, runVars, Frame
<1>25. ASSUME NEW response \in Responses, CallAgain(response)
      PROVE  Frame
  BY <1>25 DEF CallAgain, Step, Goto, Reply, runVars, Frame
<1>26. CASE Cancel
  BY <1>26 DEF Cancel, Step, Goto, Reply, runVars, Frame
<1>27. CASE UNCHANGED vars
  BY <1>27 DEF vars, Step, Goto, Reply, runVars, Frame
<1>. QED
  BY <1>1, <1>2, <1>3, <1>4, <1>5, <1>6, <1>7, <1>8, <1>9, <1>10, <1>11, <1>12, <1>13, <1>14, <1>15, <1>16, <1>17, <1>18, <1>19, <1>20, <1>21, <1>22, <1>23, <1>24, <1>25, <1>26, <1>27
  DEF Next, Serve, MethodsEnd, HumanOrClient, Responses

-----------------------------------------------------------------------------
(* Types *)

\* What a query or a mutation leaves is a result, a failure or a cancellation.
LEMMA OutcomeType ==
  ASSUME NEW sel, NEW result \in Ends \cup {"cancelled"}
  PROVE  (IF result \in Results THEN Projected(sel, result) ELSE result)
           \in Results \cup {"raised", "cancelled"}
BY DEF Projected, Ends, Results

\* The three ways a mutation ends.
MutationReturns(outcome) ==
  /\ outcome \in Results /\ Log("end", Path(NextWrite.key), outcome)
  /\ PutResult(NextWrite.key, outcome) /\ Goto("mutations") /\ UNCHANGED <<errors, aborted>>
MutationRaises ==
  /\ Log("end", Path(NextWrite.key), "raised")
  /\ PutResult(NextWrite.key, "null") /\ Goto("mutations") /\ aborted' = TRUE
  /\ errors' = Append(errors, Error(Path(NextWrite.key), "MUTATION_FAILED"))
MutationCancelled ==
  /\ Log("end", Path(NextWrite.key), "cancelled")
  /\ Reply("cancelled") /\ UNCHANGED <<data, errors, aborted>>

\* How a mutation ends.
LEMMA MutationCases ==
  ASSUME NEW result \in Ends \cup {"cancelled"}, MutationEnds(result)
  PROVE  /\ pc = "mutating" /\ UNCHANGED <<world, server, legs, group, tasks, items>>
         /\ (\E outcome \in Results : MutationReturns(outcome))
            \/ MutationRaises \/ MutationCancelled
<1> DEFINE outcome == IF result \in Results THEN Projected(NextWrite, result) ELSE result
<1>1. outcome \in Results \cup {"raised", "cancelled"}
  BY OutcomeType
<1>2. /\ pc = "mutating" /\ UNCHANGED <<world, server, legs, group, tasks, items>>
      /\ Log("end", Path(NextWrite.key), outcome)
      /\ CASE outcome \in Results ->
                PutResult(NextWrite.key, outcome) /\ Goto("mutations")
                /\ UNCHANGED <<errors, aborted>>
           [] outcome = "raised" ->
                /\ PutResult(NextWrite.key, "null") /\ Goto("mutations") /\ aborted' = TRUE
                /\ errors' = Append(errors, Error(Path(NextWrite.key), "MUTATION_FAILED"))
           [] outcome = "cancelled" ->
                Reply("cancelled") /\ UNCHANGED <<data, errors, aborted>>
  BY DEF MutationEnds
<1> HIDE DEF outcome
<1>3. CASE outcome \in Results
  <2>1. MutationReturns(outcome)
    BY <1>2, <1>3 DEF MutationReturns, Results
  <2>. QED BY <1>2, <1>3, <2>1
<1>4. CASE outcome = "raised"
  BY <1>2, <1>4 DEF MutationRaises, Results
<1>5. CASE outcome = "cancelled"
  BY <1>2, <1>5 DEF MutationCancelled, Results
<1>. QED BY <1>1, <1>3, <1>4, <1>5

\* Where a gathered group leaves a request.
LEMMA GatherCases ==
  ASSUME Gather
  PROVE  /\ pc \in {"queries", "unwinding"} /\ (Reply("cancelled") \/ Goto("mutations"))
         /\ UNCHANGED <<world, server, legs, group, tasks, aborted, items, log>>
BY DEF Gather

PcAnswerType ==
  /\ pc \in {"create", "gate", "asked", "context", "parse", "group", "queries", "unwinding",
             "mutations", "mutating", "items", "dependency", "call", "handling", "done"}
  /\ answer.kind \in Kinds /\ (answer.kind = None <=> pc # "done")

\* Every step keeps PcAnswerType.
LEMMA PcAnswerStep ==
  ASSUME PcAnswerType, world \in Worlds, [Next]_vars
  PROVE  PcAnswerType'
<1>1. CASE Receive
  BY <1>1, UseCaseAssumption DEF Surfaces, Receive, Step, Goto, Reply, Answer, NoAnswer, PcAnswerType, Kinds, None
<1>2. CASE NotFound
  BY <1>2 DEF NotFound, Step, Goto, Reply, Answer, NoAnswer, PcAnswerType, Kinds, None
<1>3. CASE GateOpen
  BY <1>3 DEF GateOpen, Step, Goto, Reply, Answer, NoAnswer, PcAnswerType, Kinds, None
<1>4. CASE Elicit
  BY <1>4 DEF Elicit, Step, Goto, Reply, Answer, NoAnswer, PcAnswerType, Kinds, None
<1>5. CASE GuardLegAsks
  <2>1. Verdict \in {"yes", "no", "ask"}
    BY DEF Verdict
  <2>2. /\ pc = "gate"
        /\ Goto("context") \/ Reply("declined") \/ Reply("ask")
    BY <1>5, <2>1 DEF GuardLegAsks, GuardLeg
  <2>. QED BY <2>2 DEF Goto, Reply, Answer, PcAnswerType, Kinds, None
<1>6. CASE ExtractContext
  BY <1>6 DEF ExtractContext, Step, Goto, Reply, Answer, NoAnswer, PcAnswerType, Kinds, None
<1>7. CASE ParseDocument
  BY <1>7 DEF ParseDocument, Step, Goto, Reply, Answer, NoAnswer, PcAnswerType, Kinds, None
<1>8. CASE PlanError
  BY <1>8 DEF PlanError, Step, Goto, Reply, Answer, NoAnswer, PcAnswerType, Kinds, None
<1>9. CASE StartGroup
  BY <1>9 DEF StartGroup, Step, Goto, Reply, Answer, NoAnswer, PcAnswerType, Kinds, None
<1>10. CASE Gather
  BY <1>10, GatherCases DEF Goto, Reply, Answer, PcAnswerType, Kinds, None
<1>11. CASE StartMutation
  BY <1>11 DEF StartMutation, PutResult, Step, Goto, Reply, Answer, NoAnswer, PcAnswerType, Kinds, None
<1>12. CASE SkipMutation
  BY <1>12 DEF SkipMutation, PutResult, Step, Goto, Reply, Answer, NoAnswer, PcAnswerType, Kinds, None
<1>13. CASE NextGroup
  BY <1>13 DEF NextGroup, Step, Goto, Reply, Answer, NoAnswer, PcAnswerType, Kinds, None
<1>14. CASE AnswerData
  BY <1>14 DEF AnswerData, Step, Goto, Reply, Answer, NoAnswer, PcAnswerType, Kinds, None
<1>15. ASSUME NEW i \in DOMAIN items, CheckItem(i)
      PROVE  PcAnswerType'
  BY <1>15 DEF CheckItem, Item, ItemStep, Step, Goto, Reply, Answer, NoAnswer, PcAnswerType, Kinds, None
<1>16. ASSUME NEW i \in DOMAIN items, StartItem(i)
      PROVE  PcAnswerType'
  BY <1>16 DEF StartItem, Item, ItemStep, Step, Goto, Reply, Answer, NoAnswer, PcAnswerType, Kinds, None
<1>17. CASE AnswerBatch
  BY <1>17 DEF AnswerBatch, Step, Goto, Reply, Answer, NoAnswer, PcAnswerType, Kinds, None
<1>18. CASE SolveDependency
  BY <1>18 DEF SolveDependency, Step, Goto, Reply, Answer, NoAnswer, PcAnswerType, Kinds, None
<1>19. CASE CallRoute
  BY <1>19 DEF CallRoute, Step, Goto, Reply, Answer, NoAnswer, PcAnswerType, Kinds, None
<1>20. ASSUME NEW k \in DOMAIN tasks, NEW result \in Ends \cup {"cancelled"},
             QueryEnds(k, result)
      PROVE  PcAnswerType'
  BY <1>20 DEF QueryEnds, Step, Goto, Reply, Answer, NoAnswer, PcAnswerType, Kinds, None
<1>21. ASSUME NEW result \in Ends \cup {"cancelled"}, MutationEnds(result)
      PROVE  PcAnswerType'
  <2>1. /\ pc = "mutating"
        /\ Goto("mutations") \/ Reply("cancelled")
    BY <1>21, MutationCases DEF MutationReturns, MutationRaises, MutationCancelled
  <2>. QED BY <2>1 DEF Goto, Reply, Answer, PcAnswerType, Kinds, None
<1>22. ASSUME NEW i \in DOMAIN items, NEW result \in {"model", "raised"}, EndItem(i, result)
      PROVE  PcAnswerType'
  BY <1>22 DEF EndItem, Item, ItemStep, Step, Goto, Reply, Answer, NoAnswer, PcAnswerType, Kinds, None
<1>23. ASSUME NEW result \in {"model", "raised"}, EndRoute(result)
      PROVE  PcAnswerType'
  BY <1>23 DEF EndRoute, Step, Goto, Reply, Answer, NoAnswer, PcAnswerType, Kinds, None
<1>24. ASSUME NEW accepts \in BOOLEAN, HumanAnswers(accepts)
      PROVE  PcAnswerType'
  BY <1>24 DEF HumanAnswers, Step, Goto, Reply, Answer, NoAnswer, PcAnswerType, Kinds, None
<1>25. ASSUME NEW response \in Responses, CallAgain(response)
      PROVE  PcAnswerType'
  BY <1>25 DEF CallAgain, Step, Goto, Reply, Answer, NoAnswer, PcAnswerType, Kinds, None
<1>26. CASE Cancel
  BY <1>26 DEF Cancel, Step, Goto, Reply, Answer, NoAnswer, PcAnswerType, Kinds, None
<1>27. CASE UNCHANGED vars
  BY <1>27 DEF vars, Step, Goto, Reply, Answer, NoAnswer, PcAnswerType, Kinds, None
<1>. QED
  BY <1>1, <1>2, <1>3, <1>4, <1>5, <1>6, <1>7, <1>8, <1>9, <1>10, <1>11, <1>12, <1>13, <1>14, <1>15, <1>16, <1>17, <1>18, <1>19, <1>20, <1>21, <1>22, <1>23, <1>24, <1>25, <1>26, <1>27
  DEF Next, Serve, MethodsEnd, HumanOrClient, Responses

\* A task runs, or holds what its call ended with.
LEMMA TasksStep ==
  ASSUME TypeOK, [Next]_vars
  PROVE  \A k \in DOMAIN tasks' : tasks'[k] \in Results \cup {"running", "raised", "cancelled"}
<1>1. CASE StartGroup
  BY <1>1 DEF StartGroup
<1>2. CASE NextGroup
  BY <1>2 DEF NextGroup
<1>3. ASSUME NEW k \in DOMAIN tasks, NEW result \in Ends \cup {"cancelled"}, QueryEnds(k, result)
      PROVE  \A q \in DOMAIN tasks' :
               tasks'[q] \in Results \cup {"running", "raised", "cancelled"}
  <2> DEFINE outcome == IF result \in Results THEN Projected(Sel(k), result) ELSE result
  <2>1. outcome \in Results \cup {"raised", "cancelled"}
    BY OutcomeType
  <2>2. tasks' = [tasks EXCEPT ![k] = outcome]
    BY <1>3 DEF QueryEnds
  <2>. HIDE DEF outcome
  <2>. QED BY <2>1, <2>2 DEF TypeOK
<1>4. CASE tasks' = tasks
  BY <1>4 DEF TypeOK
<1>. QED BY <1>1, <1>2, <1>3, <1>4, StepFrame DEF Frame

\* Data holds results.
LEMMA DataStep ==
  ASSUME TypeOK, [Next]_vars
  PROVE  \A g \in DOMAIN data' : \A k \in DOMAIN data'[g] : data'[g][k] \in Results
<1> DEFINE Typed(d) == \A g \in DOMAIN d : \A k \in DOMAIN d[g] : d[g][k] \in Results
<1>0. Typed(data)
  BY DEF TypeOK
<1>1. ASSUME NEW key, NEW value \in Results, PutResult(key, value)
      PROVE  Typed(data')
  BY <1>0, <1>1 DEF PutResult, Put
<1>2. CASE StartGroup
  BY <1>0, <1>2 DEF StartGroup, Put
<1>3. CASE Gather /\ data' # data
  <2>1. data' = [data EXCEPT ![Group.key] = [k \in DOMAIN tasks |-> Value(tasks[k])]]
    BY <1>3 DEF Gather
  <2>2. \A k \in DOMAIN tasks : Value(tasks[k]) \in Results
    BY DEF Value, Results
  <2>. QED BY <1>0, <2>1, <2>2
<1>4. CASE StartMutation /\ data' # data
  BY <1>1, <1>4 DEF StartMutation, Results
<1>5. CASE SkipMutation
  BY <1>1, <1>5 DEF SkipMutation, Results
<1>6. ASSUME NEW result \in Ends \cup {"cancelled"}, MutationEnds(result), data' # data
      PROVE  Typed(data')
  <2>1. \E value \in Results : PutResult(NextWrite.key, value)
    BY <1>6, MutationCases DEF MutationReturns, MutationRaises, MutationCancelled, Results
  <2>. QED BY <1>1, <2>1
<1>. QED
  <2>1. data' = data \/ StartGroup \/ Gather \/ StartMutation \/ SkipMutation
        \/ \E result \in Ends \cup {"cancelled"} : MutationEnds(result)
    BY StepFrame DEF Frame
  <2>2. data' = data => Typed(data')
    BY <1>0
  <2>3. Typed(data')
    BY <2>1, <2>2, <1>2, <1>3, <1>4, <1>5, <1>6
  <2>. QED BY <2>3

\* Items keep their number and shape.
LEMMA ItemsStep ==
  ASSUME TypeOK, [Next]_vars
  PROVE  /\ DOMAIN items' = DOMAIN items
         /\ \A i \in DOMAIN items' :
              items'[i].pc \in Items /\ items'[i].answer \in {None, "error", "result"}
<1> DEFINE Typed ==
      /\ DOMAIN items' = DOMAIN items
      /\ \A i \in DOMAIN items' :
           items'[i].pc \in Items /\ items'[i].answer \in {None, "error", "result"}
<1>1. ASSUME NEW i \in DOMAIN items, NEW p \in Items, NEW a \in {None, "error", "result"},
             Item(i, p, a)
      PROVE  Typed
  BY <1>1 DEF Item, TypeOK
<1>2. ASSUME NEW i \in DOMAIN items, CheckItem(i)
      PROVE  Typed
  <2>1. \E p \in Items, a \in {None, "error", "result"} : Item(i, p, a)
    BY <1>2 DEF CheckItem, Items
  <2>. QED BY <1>1, <2>1
<1>3. ASSUME NEW i \in DOMAIN items, StartItem(i)
      PROVE  Typed
  <2>1. \E p \in Items, a \in {None, "error", "result"} : Item(i, p, a)
    BY <1>3 DEF StartItem, Items
  <2>. QED BY <1>1, <2>1
<1>4. ASSUME NEW i \in DOMAIN items, NEW result \in {"model", "raised"}, EndItem(i, result)
      PROVE  Typed
  <2>1. \E p \in Items, a \in {None, "error", "result"} : Item(i, p, a)
    BY <1>4 DEF EndItem, Items
  <2>. QED BY <1>1, <2>1
<1>5. CASE items' = items
  BY <1>5 DEF TypeOK
<1>. QED
  <2>1. items' = items \/ \E i \in DOMAIN items :
          CheckItem(i) \/ StartItem(i) \/ \E result \in {"model", "raised"} : EndItem(i, result)
    BY StepFrame DEF Frame
  <2>2. Typed
    BY <2>1, <1>2, <1>3, <1>4, <1>5
  <2>. QED BY <2>2

\* The first state has its type.
LEMMA TypeInit == Init => TypeOK
<1>1. 1 \in 1 .. MaxLegs
  BY UseCaseAssumption
<1>2. ASSUME Init
      PROVE  \A i \in DOMAIN items : items[i].pc = "new" /\ items[i].answer = None
  BY <1>2 DEF Init
<1>3. ASSUME Init
      PROVE  /\ legs.made \in 1 .. MaxLegs /\ DOMAIN tasks = {} /\ DOMAIN data = {}
             /\ server \in {"up", "refused"} /\ answer.kind = None /\ pc = "create"
             /\ aborted = FALSE /\ world \in Worlds
  BY <1>1, <1>3 DEF Init, NoAnswer
<1>. QED BY <1>2, <1>3 DEF TypeOK, Items, Kinds

\* Every step keeps TypeOK.
LEMMA TypeStep ==
  ASSUME TypeOK, [Next]_vars
  PROVE  TypeOK'
<1>1. PcAnswerType'
  BY PcAnswerStep DEF TypeOK, PcAnswerType
<1>2. world' \in Worlds /\ server' \in {"up", "refused"}
  BY StepFrame DEF Frame, TypeOK
<1>3. legs'.made \in 1 .. MaxLegs
  BY StepFrame, UseCaseAssumption DEF Frame, TypeOK, CallAgain
<1>4. aborted' \in BOOLEAN
  <2>1. ASSUME NEW result \in Ends \cup {"cancelled"}, MutationEnds(result)
        PROVE  aborted' = aborted \/ aborted' = TRUE
    BY <2>1, MutationCases DEF MutationReturns, MutationRaises, MutationCancelled
  <2>. QED BY <2>1, StepFrame DEF Frame, TypeOK, StartMutation
<1>. QED BY <1>1, <1>2, <1>3, <1>4, TasksStep, DataStep, ItemsStep DEF TypeOK, PcAnswerType

\* Every variable keeps its shape, and what the answer holds is a result or
\* null, for every server and request.
THEOREM TypeCorrect == Spec => []TypeOK
BY TypeInit, TypeStep, PTL DEF Spec

-----------------------------------------------------------------------------
(* The request and its document do not change *)

\* What is read of the request does not change,
LEMMA StaticRequest ==
  ASSUME world' = world
  PROVE  /\ Served' = Served /\ (Compose' <=> Compose) /\ (MustAsk' <=> MustAsk)
         /\ (DocumentRefused' <=> DocumentRefused)
BY DEF Served, Compose, MustAsk, MutationFields, DocumentRefused, Doc, NestedAlias

\* nor what is read of its document.
LEMMA StaticDocument ==
  ASSUME world' = world
  PROVE  /\ TheGroups' = TheGroups /\ Places' = Places /\ Paths' = Paths
         /\ \A a : KeyAt(a)' = KeyAt(a) /\ PathAt(a)' = PathAt(a) /\ KindAt(a)' = KindAt(a)
         /\ \A q : IsMutation(q)' <=> IsMutation(q)
         /\ \A q, r : DeclaredBefore(q, r)' <=> DeclaredBefore(q, r)
<1>1. TheGroups' = TheGroups
  BY DEF TheGroups, Doc
<1>2. Places' = Places
  BY <1>1 DEF Places
<1>3. \A a : KeyAt(a)' = KeyAt(a) /\ PathAt(a)' = PathAt(a)
  BY <1>1 DEF KeyAt, PathAt
<1>4. \A a : KindAt(a)' = KindAt(a)
  BY <1>1 DEF KindAt, Method, Methods, TheApp, Served
<1>. QED BY <1>1, <1>2, <1>3, <1>4 DEF Paths, IsMutation, DeclaredBefore

-----------------------------------------------------------------------------
(* Where a request is *)

WhereInv ==
  /\ pc \in (Asking \ {"create"}) \cup Running => Compose
  /\ pc \in {"asked", "context", "parse"} \cup Running => Served # 0
  /\ pc = "items" => world.surface = "rpc"
  /\ pc \in {"dependency", "call", "handling"} => world.surface = "rest"
  /\ answer.kind = "batch" => world.surface = "rpc"
  /\ answer.kind \in {"data", "ask"} => Compose

\* Every step keeps WhereInv.
LEMMA WhereStep ==
  ASSUME TypeOK, WhereInv, [Next]_vars
  PROVE  WhereInv'
<1>. DEFINE Here == /\ Served' = Served /\ (Compose' <=> Compose)
                    /\ world'.surface = world.surface
<1>. Here
  BY StepFrame, StaticRequest DEF Frame
<1>1. CASE Receive
  BY <1>1, UseCaseAssumption DEF TypeOK, Surfaces, Compose, Receive, Step, Goto, Reply, Answer, NoAnswer, WhereInv, Asking, Running
<1>2. CASE NotFound
  BY <1>2 DEF NotFound, Step, Goto, Reply, Answer, NoAnswer, WhereInv, Asking, Running
<1>3. CASE GateOpen
  BY <1>3 DEF GateOpen, Step, Goto, Reply, Answer, NoAnswer, WhereInv, Asking, Running
<1>4. CASE Elicit
  BY <1>4 DEF Elicit, Step, Goto, Reply, Answer, NoAnswer, WhereInv, Asking, Running
<1>5. CASE GuardLegAsks
  <2>1. Verdict \in {"yes", "no", "ask"}
    BY DEF Verdict
  <2>2. /\ pc = "gate" /\ Served # 0
        /\ Goto("context") \/ Reply("declined") \/ Reply("ask")
    BY <1>5, <2>1 DEF GuardLegAsks, GuardLeg
  <2>. QED BY <2>2 DEF Goto, Reply, Answer, WhereInv, Asking, Running
<1>6. CASE ExtractContext
  BY <1>6 DEF ExtractContext, Step, Goto, Reply, Answer, NoAnswer, WhereInv, Asking, Running
<1>7. CASE ParseDocument
  BY <1>7 DEF ParseDocument, Step, Goto, Reply, Answer, NoAnswer, WhereInv, Asking, Running
<1>8. CASE PlanError
  BY <1>8 DEF PlanError, Step, Goto, Reply, Answer, NoAnswer, WhereInv, Asking, Running
<1>9. CASE StartGroup
  BY <1>9 DEF StartGroup, Step, Goto, Reply, Answer, NoAnswer, WhereInv, Asking, Running
<1>10. CASE Gather
  BY <1>10, GatherCases DEF Goto, Reply, Answer, WhereInv, Asking, Running
<1>11. CASE StartMutation
  BY <1>11 DEF StartMutation, PutResult, Step, Goto, Reply, Answer, NoAnswer, WhereInv, Asking, Running
<1>12. CASE SkipMutation
  BY <1>12 DEF SkipMutation, PutResult, Step, Goto, Reply, Answer, NoAnswer, WhereInv, Asking, Running
<1>13. CASE NextGroup
  BY <1>13 DEF NextGroup, Step, Goto, Reply, Answer, NoAnswer, WhereInv, Asking, Running
<1>14. CASE AnswerData
  BY <1>14 DEF AnswerData, Step, Goto, Reply, Answer, NoAnswer, WhereInv, Asking, Running
<1>15. ASSUME NEW i \in DOMAIN items, CheckItem(i)
      PROVE  WhereInv'
  BY <1>15 DEF CheckItem, Item, ItemStep, Step, Goto, Reply, Answer, NoAnswer, WhereInv, Asking, Running
<1>16. ASSUME NEW i \in DOMAIN items, StartItem(i)
      PROVE  WhereInv'
  BY <1>16 DEF StartItem, Item, ItemStep, Step, Goto, Reply, Answer, NoAnswer, WhereInv, Asking, Running
<1>17. CASE AnswerBatch
  BY <1>17 DEF AnswerBatch, Step, Goto, Reply, Answer, NoAnswer, WhereInv, Asking, Running
<1>18. CASE SolveDependency
  BY <1>18 DEF SolveDependency, Step, Goto, Reply, Answer, NoAnswer, WhereInv, Asking, Running
<1>19. CASE CallRoute
  BY <1>19 DEF CallRoute, Step, Goto, Reply, Answer, NoAnswer, WhereInv, Asking, Running
<1>20. ASSUME NEW k \in DOMAIN tasks, NEW result \in Ends \cup {"cancelled"},
             QueryEnds(k, result)
      PROVE  WhereInv'
  BY <1>20 DEF QueryEnds, Step, Goto, Reply, Answer, NoAnswer, WhereInv, Asking, Running
<1>21. ASSUME NEW result \in Ends \cup {"cancelled"}, MutationEnds(result)
      PROVE  WhereInv'
  <2>1. /\ pc = "mutating"
        /\ Goto("mutations") \/ Reply("cancelled")
    BY <1>21, MutationCases DEF MutationReturns, MutationRaises, MutationCancelled
  <2>. QED BY <2>1 DEF Goto, Reply, Answer, WhereInv, Asking, Running
<1>22. ASSUME NEW i \in DOMAIN items, NEW result \in {"model", "raised"}, EndItem(i, result)
      PROVE  WhereInv'
  BY <1>22 DEF EndItem, Item, ItemStep, Step, Goto, Reply, Answer, NoAnswer, WhereInv, Asking, Running
<1>23. ASSUME NEW result \in {"model", "raised"}, EndRoute(result)
      PROVE  WhereInv'
  BY <1>23 DEF EndRoute, Step, Goto, Reply, Answer, NoAnswer, WhereInv, Asking, Running
<1>24. ASSUME NEW accepts \in BOOLEAN, HumanAnswers(accepts)
      PROVE  WhereInv'
  BY <1>24 DEF HumanAnswers, Step, Goto, Reply, Answer, NoAnswer, WhereInv, Asking, Running
<1>25. ASSUME NEW response \in Responses, CallAgain(response)
      PROVE  WhereInv'
  BY <1>25 DEF CallAgain, NoAnswer, None, WhereInv, Asking, Running
<1>26. CASE Cancel
  BY <1>26 DEF Cancel, Step, Goto, Reply, Answer, NoAnswer, WhereInv, Asking, Running
<1>27. CASE UNCHANGED vars
  BY <1>27 DEF vars, Step, Goto, Reply, Answer, NoAnswer, WhereInv, Asking, Running
<1>. QED
  BY <1>1, <1>2, <1>3, <1>4, <1>5, <1>6, <1>7, <1>8, <1>9, <1>10, <1>11, <1>12, <1>13, <1>14, <1>15, <1>16, <1>17, <1>18, <1>19, <1>20, <1>21, <1>22, <1>23, <1>24, <1>25, <1>26, <1>27
  DEF Next, Serve, MethodsEnd, HumanOrClient, Responses

\* Only a JSON-RPC request has items that move.
ItemsInv ==
  /\ DOMAIN items = DOMAIN world.batch
  /\ world.surface # "rpc" => \A i \in DOMAIN items : items[i].pc = "new"

\* Every step keeps ItemsInv.
LEMMA ItemsInvStep ==
  ASSUME TypeOK, WhereInv, ItemsInv, [Next]_vars
  PROVE  ItemsInv'
<1>1. world' = world /\ DOMAIN items' = DOMAIN items
  BY StepFrame, ItemsStep DEF Frame
<1>2. ASSUME world.surface # "rpc"
      PROVE  items' = items
  BY <1>2, StepFrame DEF Frame, CheckItem, StartItem, EndItem, ItemsInv, WhereInv
<1>. QED BY <1>1, <1>2 DEF ItemsInv

-----------------------------------------------------------------------------
(* The log grows by one event at a time *)

\* A sequence with one element more.
LEMMA AppendSeq ==
  ASSUME NEW s, s \in Seq(Range(s)), NEW e
  PROVE  LET t == Append(s, e)
         IN /\ t \in Seq(Range(t)) /\ Len(s) \in Nat /\ Len(t) = Len(s) + 1
            /\ DOMAIN s = 1 .. Len(s) /\ DOMAIN t = 1 .. Len(s) + 1
            /\ t[Len(s) + 1] = e /\ \A i \in DOMAIN s : t[i] = s[i]
<1> DEFINE t == Append(s, e)
<1>1. s \in Seq(Range(s) \cup {e}) /\ e \in Range(s) \cup {e}
  OBVIOUS
<1>2. t \in Seq(Range(s) \cup {e})
  BY <1>1
<1>3. /\ Len(s) \in Nat /\ Len(t) = Len(s) + 1
      /\ DOMAIN s = 1 .. Len(s) /\ DOMAIN t = 1 .. Len(s) + 1
      /\ t[Len(s) + 1] = e /\ \A i \in DOMAIN s : t[i] = s[i]
  BY <1>1
<1>4. \A i \in 1 .. Len(t) : t[i] \in Range(t)
  BY <1>3 DEF Range
<1>5. t \in Seq(Range(t))
  BY <1>2, <1>4
<1>. QED BY <1>3, <1>5

\* What is logged, and when.
LogFrame ==
  \/ log' = log
  \/ /\ pc \in Running \/ ~Compose
     /\ \E ev \in {"start", "end", "refuse"} : \E at, what :
          Log(ev, at, what) /\ (ev = "start" /\ Compose => StartGroup \/ StartMutation)
  \/ \E accepts \in BOOLEAN : HumanAnswers(accepts)
  \/ \E response \in Responses : CallAgain(response)

\* A step logs one event or none.
LEMMA LogStep ==
  ASSUME WhereInv, ItemsInv, [Next]_vars
  PROVE  LogFrame
<1>1. CASE Receive
  BY <1>1 DEF Receive, Step, WhereInv, ItemsInv, Compose, Running, LogFrame
<1>2. CASE NotFound
  BY <1>2 DEF NotFound, Step, WhereInv, ItemsInv, Compose, Running, LogFrame
<1>3. CASE GateOpen
  BY <1>3 DEF GateOpen, Step, WhereInv, ItemsInv, Compose, Running, LogFrame
<1>4. CASE Elicit
  BY <1>4 DEF Elicit, Step, WhereInv, ItemsInv, Compose, Running, LogFrame
<1>5. CASE GuardLegAsks
  BY <1>5 DEF GuardLegAsks, GuardLeg, Step, WhereInv, ItemsInv, Compose, Running, LogFrame
<1>6. CASE ExtractContext
  BY <1>6 DEF ExtractContext, Step, WhereInv, ItemsInv, Compose, Running, LogFrame
<1>7. CASE ParseDocument
  BY <1>7 DEF ParseDocument, Step, WhereInv, ItemsInv, Compose, Running, LogFrame
<1>8. CASE PlanError
  BY <1>8 DEF PlanError, Step, WhereInv, ItemsInv, Compose, Running, LogFrame
<1>9. CASE StartGroup
  BY <1>9 DEF StartGroup, Step, WhereInv, ItemsInv, Compose, Running, LogFrame
<1>10. CASE Gather
  BY <1>10 DEF Gather, Step, WhereInv, ItemsInv, Compose, Running, LogFrame
<1>11. CASE StartMutation
  BY <1>11 DEF StartMutation, PutResult, Step, WhereInv, ItemsInv, Compose, Running, LogFrame
<1>12. CASE SkipMutation
  BY <1>12 DEF SkipMutation, PutResult, Step, WhereInv, ItemsInv, Compose, Running, LogFrame
<1>13. CASE NextGroup
  BY <1>13 DEF NextGroup, Step, WhereInv, ItemsInv, Compose, Running, LogFrame
<1>14. CASE AnswerData
  BY <1>14 DEF AnswerData, Step, WhereInv, ItemsInv, Compose, Running, LogFrame
<1>15. ASSUME NEW i \in DOMAIN items, CheckItem(i)
      PROVE  LogFrame
  BY <1>15 DEF CheckItem, Item, ItemStep, Step, WhereInv, ItemsInv, Compose, Running, LogFrame
<1>16. ASSUME NEW i \in DOMAIN items, StartItem(i)
      PROVE  LogFrame
  BY <1>16 DEF StartItem, Item, ItemStep, Step, WhereInv, ItemsInv, Compose, Running, LogFrame
<1>17. CASE AnswerBatch
  BY <1>17 DEF AnswerBatch, Step, WhereInv, ItemsInv, Compose, Running, LogFrame
<1>18. CASE SolveDependency
  BY <1>18 DEF SolveDependency, Step, WhereInv, ItemsInv, Compose, Running, LogFrame
<1>19. CASE CallRoute
  BY <1>19 DEF CallRoute, Step, WhereInv, ItemsInv, Compose, Running, LogFrame
<1>20. ASSUME NEW k \in DOMAIN tasks, NEW result \in Ends \cup {"cancelled"},
             QueryEnds(k, result)
      PROVE  LogFrame
  BY <1>20 DEF QueryEnds, Step, WhereInv, ItemsInv, Compose, Running, LogFrame
<1>21. ASSUME NEW result \in Ends \cup {"cancelled"}, MutationEnds(result)
      PROVE  LogFrame
  BY <1>21 DEF MutationEnds, PutResult, Step, WhereInv, ItemsInv, Compose, Running, LogFrame
<1>22. ASSUME NEW i \in DOMAIN items, NEW result \in {"model", "raised"}, EndItem(i, result)
      PROVE  LogFrame
  BY <1>22 DEF EndItem, Item, ItemStep, Step, WhereInv, ItemsInv, Compose, Running, LogFrame
<1>23. ASSUME NEW result \in {"model", "raised"}, EndRoute(result)
      PROVE  LogFrame
  BY <1>23 DEF EndRoute, Step, WhereInv, ItemsInv, Compose, Running, LogFrame
<1>24. ASSUME NEW accepts \in BOOLEAN, HumanAnswers(accepts)
      PROVE  LogFrame
  BY <1>24 DEF HumanAnswers, Step, WhereInv, ItemsInv, Compose, Running, LogFrame
<1>25. ASSUME NEW response \in Responses, CallAgain(response)
      PROVE  LogFrame
  BY <1>25 DEF CallAgain, Step, WhereInv, ItemsInv, Compose, Running, LogFrame
<1>26. CASE Cancel
  BY <1>26 DEF Cancel, Step, WhereInv, ItemsInv, Compose, Running, LogFrame
<1>27. CASE UNCHANGED vars
  BY <1>27 DEF vars, Step, WhereInv, ItemsInv, Compose, Running, LogFrame
<1>. QED
  BY <1>1, <1>2, <1>3, <1>4, <1>5, <1>6, <1>7, <1>8, <1>9, <1>10, <1>11, <1>12, <1>13, <1>14, <1>15, <1>16, <1>17, <1>18, <1>19, <1>20, <1>21, <1>22, <1>23, <1>24, <1>25, <1>26, <1>27
  DEF Next, Serve, MethodsEnd, HumanOrClient, Responses

LogSeqInv == log \in Seq(Range(log))

\* What the log holds after an event.
LEMMA LogGrows ==
  ASSUME LogSeqInv, NEW ev, NEW at, NEW what, Log(ev, at, what)
  PROVE  /\ Len(log) \in Nat /\ DOMAIN log = 1 .. Len(log)
         /\ Len(log') = Len(log) + 1 /\ DOMAIN log' = 1 .. Len(log) + 1
         /\ log'[Len(log) + 1] = Event(ev, at, what)
         /\ log'[Len(log) + 1].ev = ev /\ log'[Len(log) + 1].at = at
         /\ log'[Len(log) + 1].what = what
         /\ \A i \in DOMAIN log : log'[i] = log[i]
         /\ \A i \in DOMAIN log' : i \in DOMAIN log \/ i = Len(log) + 1
         /\ LogSeqInv'
<1>1. /\ Len(log) \in Nat /\ DOMAIN log = 1 .. Len(log)
      /\ Len(log') = Len(log) + 1 /\ DOMAIN log' = 1 .. Len(log) + 1
      /\ log'[Len(log) + 1] = Event(ev, at, what)
      /\ \A i \in DOMAIN log : log'[i] = log[i]
      /\ LogSeqInv'
  BY AppendSeq DEF LogSeqInv, Log
<1>. QED BY <1>1 DEF Event

\* The log stays a sequence.
LEMMA LogSeqStep ==
  ASSUME LogSeqInv, LogFrame
  PROVE  LogSeqInv'
<1>1. CASE log' = log
  BY <1>1 DEF LogSeqInv
<1>2. CASE \E ev, at, what : Log(ev, at, what)
  BY <1>2, LogGrows
<1>. QED BY <1>1, <1>2 DEF LogFrame, HumanAnswers, CallAgain

\* Nothing ran while the human may still be asked.
FreshInv ==
  Compose /\ (pc \in Asking \/ answer.kind = "ask") =>
    /\ group = 1 /\ ~aborted /\ errors = << >>
    /\ \A i \in DOMAIN log : log[i].ev \notin {"start", "end", "refuse"}

\* Asking goes on only from asking.
FreshBack ==
  pc' \in Asking \/ answer'.kind = "ask" =>
    (pc \in Asking \/ answer.kind = "ask") /\ UNCHANGED <<group, aborted, errors>>

\* A request that nothing has run of after a step was so before it.
LEMMA FreshBackStep ==
  ASSUME TypeOK, [Next]_vars
  PROVE  FreshBack
<1>0. answer.kind = "ask" => pc = "done"
  BY DEF TypeOK, None
<1>1. CASE Receive
  BY <1>1 DEF Receive, Step, Goto, Reply, Answer, NoAnswer, runVars, FreshBack, Asking
<1>2. CASE NotFound
  BY <1>2 DEF NotFound, Step, Goto, Reply, Answer, NoAnswer, runVars, FreshBack, Asking
<1>3. CASE GateOpen
  BY <1>3 DEF GateOpen, Step, Goto, Reply, Answer, NoAnswer, runVars, FreshBack, Asking
<1>4. CASE Elicit
  BY <1>4 DEF Elicit, Step, Goto, Reply, Answer, NoAnswer, runVars, FreshBack, Asking
<1>5. CASE GuardLegAsks
  BY <1>5 DEF GuardLegAsks, GuardLeg, Step, Goto, Reply, Answer, NoAnswer, runVars, FreshBack, Asking
<1>6. CASE ExtractContext
  BY <1>6 DEF ExtractContext, Step, Goto, Reply, Answer, NoAnswer, runVars, FreshBack, Asking
<1>7. CASE ParseDocument
  BY <1>7 DEF ParseDocument, Step, Goto, Reply, Answer, NoAnswer, runVars, FreshBack, Asking
<1>8. CASE PlanError
  BY <1>8 DEF PlanError, Step, Goto, Reply, Answer, NoAnswer, runVars, FreshBack, Asking
<1>9. CASE StartGroup
  BY <1>9 DEF StartGroup, Step, Goto, Reply, Answer, NoAnswer, runVars, FreshBack, Asking
<1>10. CASE Gather
  BY <1>0, <1>10, GatherCases DEF Goto, Reply, Answer, FreshBack, Asking
<1>11. CASE StartMutation
  BY <1>0, <1>11 DEF StartMutation, PutResult, Step, Goto, Reply, Answer, NoAnswer, runVars, FreshBack, Asking
<1>12. CASE SkipMutation
  BY <1>0, <1>12 DEF SkipMutation, PutResult, Step, Goto, Reply, Answer, NoAnswer, runVars, FreshBack, Asking
<1>13. CASE NextGroup
  BY <1>0, <1>13 DEF NextGroup, Step, Goto, Reply, Answer, NoAnswer, runVars, FreshBack, Asking
<1>14. CASE AnswerData
  BY <1>14 DEF AnswerData, Step, Goto, Reply, Answer, NoAnswer, runVars, FreshBack, Asking
<1>15. ASSUME NEW i \in DOMAIN items, CheckItem(i)
      PROVE  FreshBack
  BY <1>15 DEF CheckItem, Item, ItemStep, Step, Goto, Reply, Answer, NoAnswer, runVars, FreshBack, Asking
<1>16. ASSUME NEW i \in DOMAIN items, StartItem(i)
      PROVE  FreshBack
  BY <1>16 DEF StartItem, Item, ItemStep, Step, Goto, Reply, Answer, NoAnswer, runVars, FreshBack, Asking
<1>17. CASE AnswerBatch
  BY <1>17 DEF AnswerBatch, Step, Goto, Reply, Answer, NoAnswer, runVars, FreshBack, Asking
<1>18. CASE SolveDependency
  BY <1>18 DEF SolveDependency, Step, Goto, Reply, Answer, NoAnswer, runVars, FreshBack, Asking
<1>19. CASE CallRoute
  BY <1>19 DEF CallRoute, Step, Goto, Reply, Answer, NoAnswer, runVars, FreshBack, Asking
<1>20. ASSUME NEW k \in DOMAIN tasks, NEW result \in Ends \cup {"cancelled"},
             QueryEnds(k, result)
      PROVE  FreshBack
  BY <1>20 DEF QueryEnds, Step, Goto, Reply, Answer, NoAnswer, runVars, FreshBack, Asking
<1>21. ASSUME NEW result \in Ends \cup {"cancelled"}, MutationEnds(result)
      PROVE  FreshBack
  <2>1. /\ pc = "mutating"
        /\ Goto("mutations") \/ Reply("cancelled")
    BY <1>21, MutationCases DEF MutationReturns, MutationRaises, MutationCancelled
  <2>. QED BY <1>0, <2>1 DEF Goto, Reply, Answer, FreshBack, Asking
<1>22. ASSUME NEW i \in DOMAIN items, NEW result \in {"model", "raised"}, EndItem(i, result)
      PROVE  FreshBack
  BY <1>22 DEF EndItem, Item, ItemStep, Step, Goto, Reply, Answer, NoAnswer, runVars, FreshBack, Asking
<1>23. ASSUME NEW result \in {"model", "raised"}, EndRoute(result)
      PROVE  FreshBack
  BY <1>23 DEF EndRoute, Step, Goto, Reply, Answer, NoAnswer, runVars, FreshBack, Asking
<1>24. ASSUME NEW accepts \in BOOLEAN, HumanAnswers(accepts)
      PROVE  FreshBack
  BY <1>24 DEF HumanAnswers, Step, Goto, Reply, Answer, NoAnswer, runVars, FreshBack, Asking
<1>25. ASSUME NEW response \in Responses, CallAgain(response)
      PROVE  FreshBack
  BY <1>25 DEF CallAgain, Step, Goto, Reply, Answer, NoAnswer, runVars, FreshBack, Asking
<1>26. CASE Cancel
  BY <1>26 DEF Cancel, Step, Goto, Reply, Answer, NoAnswer, runVars, FreshBack, Asking
<1>27. CASE UNCHANGED vars
  BY <1>27 DEF vars, Step, Goto, Reply, Answer, NoAnswer, runVars, FreshBack, Asking
<1>. QED
  BY <1>1, <1>2, <1>3, <1>4, <1>5, <1>6, <1>7, <1>8, <1>9, <1>10, <1>11, <1>12, <1>13, <1>14, <1>15, <1>16, <1>17, <1>18, <1>19, <1>20, <1>21, <1>22, <1>23, <1>24, <1>25, <1>26, <1>27
  DEF Next, Serve, MethodsEnd, HumanOrClient, Responses

\* Every step keeps FreshInv.
LEMMA FreshStep ==
  ASSUME TypeOK, WhereInv, ItemsInv, LogSeqInv, FreshInv, [Next]_vars
  PROVE  FreshInv'
<1> SUFFICES ASSUME Compose', pc' \in Asking \/ answer'.kind = "ask"
             PROVE  /\ group' = 1 /\ ~aborted' /\ errors' = << >>
                    /\ \A i \in DOMAIN log' : log'[i].ev \notin {"start", "end", "refuse"}
  BY DEF FreshInv
<1>1. Compose
  BY StepFrame, StaticRequest DEF Frame
<1>2. pc \in Asking \/ answer.kind = "ask"
  BY FreshBackStep DEF FreshBack
<1>3. group' = 1 /\ ~aborted' /\ errors' = << >>
  BY <1>1, <1>2, FreshBackStep DEF FreshBack, FreshInv
<1>4. \A i \in DOMAIN log : log[i].ev \notin {"start", "end", "refuse"}
  BY <1>1, <1>2 DEF FreshInv
<1>5. pc \notin Running
  BY <1>2 DEF TypeOK, Asking, Running, None
<1>6. ASSUME NEW ev, NEW at, NEW what, Log(ev, at, what), ev \notin {"start", "end", "refuse"}
      PROVE  \A i \in DOMAIN log' : log'[i].ev \notin {"start", "end", "refuse"}
  <2>1. /\ \A i \in DOMAIN log' : i \in DOMAIN log \/ i = Len(log) + 1
        /\ log'[Len(log) + 1].ev = ev /\ \A i \in DOMAIN log : log'[i] = log[i]
    BY <1>6, LogGrows
  <2>. QED BY <1>4, <1>6, <2>1
<1>7. \A i \in DOMAIN log' : log'[i].ev \notin {"start", "end", "refuse"}
  <2>1. CASE log' = log
    BY <2>1, <1>4
  <2>2. ASSUME NEW accepts \in BOOLEAN, HumanAnswers(accepts)
        PROVE  \A i \in DOMAIN log' : log'[i].ev \notin {"start", "end", "refuse"}
    BY <1>6, <2>2 DEF HumanAnswers
  <2>3. ASSUME NEW response \in Responses, CallAgain(response)
        PROVE  \A i \in DOMAIN log' : log'[i].ev \notin {"start", "end", "refuse"}
    BY <1>6, <2>3 DEF CallAgain, Responses
  <2>. QED BY <1>1, <1>5, <2>1, <2>2, <2>3, LogStep DEF LogFrame
<1>. QED BY <1>3, <1>7

-----------------------------------------------------------------------------
(* Confirmation *)

Refusals == {"decline", "accept false", "nothing"}
Consent(n) ==
  \E k \in 1 .. n : log[k].ev = "accept" /\ \A j \in k .. n : log[j].ev \notin Refusals
Agreed == {"context", "parse"} \cup Running

\* What was asked for is in hand: the last word of the human in the log is an
\* acceptance, once the gate is passed or the leg that brings it has come.
ConfirmInv ==
  /\ pc = "create" => legs.response = None
  /\ Compose /\ MustAsk /\ (pc \in Agreed \/ (pc = "gate" /\ legs.response = "accept"))
       => Consent(Len(log))

\* Consent outlasts every event but a refusal.
LEMMA ConsentKept ==
  ASSUME LogSeqInv, NEW ev, NEW at, NEW what, Log(ev, at, what), ev \notin Refusals,
         Consent(Len(log)) \/ ev = "accept"
  PROVE  Consent(Len(log))'
<1>1. /\ Len(log) \in Nat /\ DOMAIN log = 1 .. Len(log) /\ Len(log') = Len(log) + 1
      /\ log'[Len(log) + 1].ev = ev /\ \A i \in DOMAIN log : log'[i] = log[i]
  BY LogGrows
<1>2. CASE ev = "accept"
  BY <1>1, <1>2 DEF Consent
<1>3. CASE Consent(Len(log))
  <2>1. PICK k \in 1 .. Len(log) :
          log[k].ev = "accept" /\ \A j \in k .. Len(log) : log[j].ev \notin Refusals
    BY <1>3 DEF Consent
  <2>2. k \in 1 .. Len(log) + 1 /\ log'[k].ev = "accept"
    BY <1>1, <2>1
  <2>3. \A j \in k .. Len(log) + 1 : j \in k .. Len(log) \/ j = Len(log) + 1
    BY <1>1
  <2>4. \A j \in k .. Len(log) + 1 : log'[j].ev \notin Refusals
    BY <1>1, <2>1, <2>3
  <2>. QED BY <1>1, <2>2, <2>4 DEF Consent
<1>. QED BY <1>2, <1>3

\* How the gate is passed.
GateBack ==
  /\ pc' = "create" => pc = "create" /\ legs' = legs
  /\ Compose /\ MustAsk /\ (pc' \in Agreed \/ (pc' = "gate" /\ legs'.response = "accept")) =>
       \/ pc \in Agreed
       \/ pc = "gate" /\ legs.response = "accept" /\ log' = log
       \/ Log("accept", << >>, None)

\* A request past the gate was so before the step, or the human just accepted.
LEMMA GateBackStep ==
  ASSUME TypeOK, WhereInv, ItemsInv, ConfirmInv, [Next]_vars
  PROVE  GateBack
<1>0. pc = "create" => legs.response # "accept"
  BY DEF ConfirmInv, None
<1>1. CASE Receive
  BY <1>1, <1>0, UseCaseAssumption DEF TypeOK, Surfaces, Receive, Compose, Step, Goto, Reply, GateBack, Agreed, Running
<1>2. CASE NotFound
  BY <1>2 DEF NotFound, Step, Goto, Reply, GateBack, Agreed, Running
<1>3. CASE GateOpen
  BY <1>3 DEF GateOpen, Step, Goto, Reply, GateBack, Agreed, Running
<1>4. CASE Elicit
  BY <1>4 DEF Elicit, Step, Goto, Reply, GateBack, Agreed, Running
<1>5. CASE GuardLegAsks
  BY <1>5 DEF GuardLegAsks, GuardLeg, Step, Goto, Reply, GateBack, Agreed, Running, Verdict
<1>6. CASE ExtractContext
  BY <1>6 DEF ExtractContext, Step, Goto, Reply, GateBack, Agreed, Running
<1>7. CASE ParseDocument
  BY <1>7 DEF ParseDocument, Step, Goto, Reply, GateBack, Agreed, Running
<1>8. CASE PlanError
  BY <1>8 DEF PlanError, Step, Goto, Reply, GateBack, Agreed, Running
<1>9. CASE StartGroup
  BY <1>9 DEF StartGroup, Step, Goto, Reply, GateBack, Agreed, Running
<1>10. CASE Gather
  BY <1>10 DEF Gather, Step, Goto, Reply, GateBack, Agreed, Running
<1>11. CASE StartMutation
  BY <1>11 DEF StartMutation, PutResult, Step, Goto, Reply, GateBack, Agreed, Running
<1>12. CASE SkipMutation
  BY <1>12 DEF SkipMutation, PutResult, Step, Goto, Reply, GateBack, Agreed, Running
<1>13. CASE NextGroup
  BY <1>13 DEF NextGroup, Step, Goto, Reply, GateBack, Agreed, Running
<1>14. CASE AnswerData
  BY <1>14 DEF AnswerData, Step, Goto, Reply, GateBack, Agreed, Running
<1>15. ASSUME NEW i \in DOMAIN items, CheckItem(i)
      PROVE  GateBack
  BY <1>15 DEF CheckItem, Item, ItemStep, Step, Goto, Reply, GateBack, Agreed, Running, Compose, ItemsInv, WhereInv
<1>16. ASSUME NEW i \in DOMAIN items, StartItem(i)
      PROVE  GateBack
  BY <1>16 DEF StartItem, Item, ItemStep, Step, Goto, Reply, GateBack, Agreed, Running, Compose, ItemsInv, WhereInv
<1>17. CASE AnswerBatch
  BY <1>17 DEF AnswerBatch, Step, Goto, Reply, GateBack, Agreed, Running
<1>18. CASE SolveDependency
  BY <1>18 DEF SolveDependency, Step, Goto, Reply, GateBack, Agreed, Running
<1>19. CASE CallRoute
  BY <1>19 DEF CallRoute, Step, Goto, Reply, GateBack, Agreed, Running
<1>20. ASSUME NEW k \in DOMAIN tasks, NEW result \in Ends \cup {"cancelled"},
             QueryEnds(k, result)
      PROVE  GateBack
  BY <1>20 DEF QueryEnds, Step, Goto, Reply, GateBack, Agreed, Running
<1>21. ASSUME NEW result \in Ends \cup {"cancelled"}, MutationEnds(result)
      PROVE  GateBack
  <2>1. pc = "mutating" /\ pc' \in {"mutations", "done"}
    BY <1>21, MutationCases
    DEF MutationReturns, MutationRaises, MutationCancelled, Goto, Reply
  <2>. QED BY <2>1 DEF GateBack, Agreed, Running
<1>22. ASSUME NEW i \in DOMAIN items, NEW result \in {"model", "raised"}, EndItem(i, result)
      PROVE  GateBack
  BY <1>22 DEF EndItem, Item, ItemStep, Compose, ItemsInv, WhereInv, Step, Goto, Reply, GateBack, Agreed, Running
<1>23. ASSUME NEW result \in {"model", "raised"}, EndRoute(result)
      PROVE  GateBack
  BY <1>23 DEF EndRoute, Step, Goto, Reply, GateBack, Agreed, Running
<1>24. ASSUME NEW accepts \in BOOLEAN, HumanAnswers(accepts)
      PROVE  GateBack
  <2>1. CASE accepts
    <3>1. pc' = "context" /\ Log("accept", << >>, None)
      BY <1>24, <2>1 DEF HumanAnswers, Goto
    <3>. QED BY <3>1 DEF GateBack
  <2>2. CASE ~accepts
    <3>1. pc' = "done"
      BY <1>24, <2>2 DEF HumanAnswers, Reply
    <3>. QED BY <3>1 DEF GateBack, Agreed, Running
  <2>. QED BY <2>1, <2>2
<1>25. ASSUME NEW response \in Responses, CallAgain(response)
      PROVE  GateBack
  <2>1. pc' = "gate" /\ legs'.response = response /\ Log(response, << >>, None)
    BY <1>25 DEF CallAgain
  <2>. QED BY <2>1 DEF GateBack, Agreed, Running
<1>26. CASE Cancel
  BY <1>26 DEF Cancel, Step, Goto, Reply, GateBack, Agreed, Running
<1>27. CASE UNCHANGED vars
  BY <1>27 DEF vars, Step, Goto, Reply, GateBack, Agreed, Running
<1>. QED
  BY <1>1, <1>2, <1>3, <1>4, <1>5, <1>6, <1>7, <1>8, <1>9, <1>10, <1>11, <1>12, <1>13, <1>14, <1>15, <1>16, <1>17, <1>18, <1>19, <1>20, <1>21, <1>22, <1>23, <1>24, <1>25, <1>26, <1>27
  DEF Next, Serve, MethodsEnd, HumanOrClient, Responses

\* Every step keeps ConfirmInv.
LEMMA ConfirmStep ==
  ASSUME TypeOK, WhereInv, ItemsInv, LogSeqInv, ConfirmInv, [Next]_vars
  PROVE  ConfirmInv'
<1>0. (Compose' <=> Compose) /\ (MustAsk' <=> MustAsk)
  BY StepFrame, StaticRequest DEF Frame
<1>1. pc' = "create" => legs'.response = None
  BY GateBackStep DEF GateBack, ConfirmInv
<1>2. ASSUME Compose, MustAsk, pc' \in Agreed \/ (pc' = "gate" /\ legs'.response = "accept")
      PROVE  Consent(Len(log))'
  <2>1. \/ pc \in Agreed \/ (pc = "gate" /\ legs.response = "accept" /\ log' = log)
        \/ Log("accept", << >>, None)
    BY <1>2, GateBackStep DEF GateBack
  <2>2. CASE Log("accept", << >>, None)
    BY <2>2, ConsentKept DEF Refusals
  <2>3. CASE ~Log("accept", << >>, None)
    <3>1. Consent(Len(log))
      BY <1>2, <2>1, <2>3 DEF ConfirmInv
    <3>2. CASE log' = log
      BY <3>1, <3>2 DEF Consent
    <3>3. CASE log' # log
      <4>1. pc \in Agreed
        BY <2>1, <2>3, <3>3
      <4>2. PICK ev \in {"start", "end", "refuse"} : \E at, what : Log(ev, at, what)
        BY <4>1, <3>3, LogStep DEF LogFrame, HumanAnswers, CallAgain, Agreed, Running
      <4>. QED BY <3>1, <4>2, ConsentKept DEF Refusals
    <3>. QED BY <3>2, <3>3
  <2>. QED BY <2>2, <2>3
<1>. QED BY <1>0, <1>1, <1>2 DEF ConfirmInv

\* What starts now has consent.
LEMMA ConfirmedStep ==
  ASSUME TypeOK, WhereInv, ItemsInv, LogSeqInv, ConfirmInv, ConfirmedFirst, [Next]_vars
  PROVE  ConfirmedFirst'
<1>0. (Compose' <=> Compose) /\ (MustAsk' <=> MustAsk)
  BY StepFrame, StaticRequest DEF Frame
<1> SUFFICES ASSUME Compose, MustAsk, NEW i \in DOMAIN log', log'[i].ev = "start"
             PROVE  \E k \in 1 .. i - 1 :
                      log'[k].ev = "accept" /\ \A j \in k .. i : log'[j].ev \notin Refusals
  BY <1>0 DEF ConfirmedFirst, Refusals
<1>1. CASE log' = log
  BY <1>1 DEF ConfirmedFirst, Refusals
<1>2. ASSUME NEW ev, NEW at, NEW what, Log(ev, at, what), ev = "start" => pc \in Running
      PROVE  \E k \in 1 .. i - 1 :
               log'[k].ev = "accept" /\ \A j \in k .. i : log'[j].ev \notin Refusals
  <2>1. /\ Len(log) \in Nat /\ DOMAIN log = 1 .. Len(log)
        /\ log'[Len(log) + 1].ev = ev
        /\ \A k \in DOMAIN log : log'[k] = log[k]
        /\ \A k \in DOMAIN log' : k \in DOMAIN log \/ k = Len(log) + 1
    BY <1>2, LogGrows
  <2>2. CASE i \in DOMAIN log
    <3>1. PICK k \in 1 .. i - 1 :
            log[k].ev = "accept" /\ \A j \in k .. i : log[j].ev \notin Refusals
      BY <2>1, <2>2 DEF ConfirmedFirst, Refusals
    <3>2. \A j \in k .. i : j \in DOMAIN log /\ log'[j] = log[j]
      BY <2>1, <2>2
    <3>3. log'[k].ev = "accept"
      BY <2>1, <2>2, <3>1, <3>2
    <3>4. \A j \in k .. i : log'[j].ev \notin Refusals
      BY <3>1, <3>2
    <3>. QED BY <3>3, <3>4
  <2>3. CASE i = Len(log) + 1
    <3>1. Consent(Len(log))
      BY <1>2, <2>1, <2>3 DEF ConfirmInv, Agreed
    <3>2. PICK k \in 1 .. Len(log) :
            log[k].ev = "accept" /\ \A j \in k .. Len(log) : log[j].ev \notin Refusals
      BY <3>1 DEF Consent
    <3>3. \A j \in k .. i : j \in k .. Len(log) \/ j = i
      BY <2>1, <2>3
    <3>4. \A j \in k .. i : log'[j].ev \notin Refusals
      <4>1. \A j \in k .. Len(log) : j \in DOMAIN log
        BY <2>1
      <4>2. log'[i].ev \notin Refusals
        BY DEF Refusals
      <4>. QED BY <2>1, <3>2, <3>3, <4>1, <4>2
    <3>. QED BY <2>1, <2>3, <3>2, <3>4
  <2>. QED BY <2>1, <2>2, <2>3
<1>3. log' = log \/ \E ev, at, what : Log(ev, at, what) /\ (ev = "start" => pc \in Running)
  <2>1. ASSUME NEW accepts \in BOOLEAN, HumanAnswers(accepts)
        PROVE  \E ev, at, what : Log(ev, at, what) /\ ev # "start"
    BY <2>1 DEF HumanAnswers
  <2>2. ASSUME NEW response \in Responses, CallAgain(response)
        PROVE  \E ev, at, what : Log(ev, at, what) /\ ev # "start"
    BY <2>2 DEF CallAgain, Responses
  <2>. QED BY <2>1, <2>2, LogStep DEF LogFrame
<1>. QED BY <1>1, <1>2, <1>3

-----------------------------------------------------------------------------
(* The invariants of every request *)

RequestInv ==
  TypeOK /\ WhereInv /\ ItemsInv /\ LogSeqInv /\ FreshInv /\ ConfirmInv

\* RequestInv holds throughout.
LEMMA RequestInvariant == Spec => []RequestInv
<1>1. Init => RequestInv
  <2> SUFFICES ASSUME Init
               PROVE  WhereInv /\ ItemsInv /\ LogSeqInv /\ FreshInv /\ ConfirmInv
    BY TypeInit DEF RequestInv
  <2>1. pc = "create" /\ answer.kind = None /\ log = << >> /\ legs.response = None
    BY DEF Init, NoAnswer
  <2>2. group = 1 /\ ~aborted /\ errors = << >> /\ DOMAIN items = DOMAIN world.batch
        /\ \A i \in DOMAIN items : items[i].pc = "new"
    BY DEF Init
  <2>. QED BY <2>1, <2>2
       DEF WhereInv, ItemsInv, LogSeqInv, FreshInv, ConfirmInv, Asking, Agreed, Running, None, Range
<1>2. RequestInv /\ [Next]_vars => RequestInv'
  BY TypeStep, WhereStep, ItemsInvStep, LogStep, LogSeqStep, FreshStep, ConfirmStep DEF RequestInv
<1>. QED BY <1>1, <1>2, PTL DEF Spec

\* Of a client that can ask its human, nothing of a document with a mutation
\* operation runs before the human accepts, and nothing after a refusal,
\* whatever the server, the document and the number of legs.
THEOREM ConfirmationHolds == Spec => []ConfirmedFirst
<1>1. Init => ConfirmedFirst
  <2>1. Init => DOMAIN log = {}
    BY DEF Init
  <2>. QED BY <2>1 DEF ConfirmedFirst
<1>2. RequestInv /\ ConfirmedFirst /\ [Next]_vars => ConfirmedFirst'
  BY ConfirmedStep DEF RequestInv
<1>. QED BY <1>1, <1>2, RequestInvariant, PTL DEF Spec

-----------------------------------------------------------------------------
(* The items of a batch *)

\* An item has been called when its event is in the log, and is answered by
\* the end of its own call.
CallsOfItems ==
  /\ \A k \in DOMAIN log : log[k].ev = "start" =>
       \E i \in DOMAIN items : log[k].at = {<<i>>} /\ items[i].pc \in {"running", "answered"}
  /\ \A k \in DOMAIN log : log[k].ev = "end" =>
       \E i \in DOMAIN items : log[k].at = <<i>> /\ items[i].pc = "answered"
CalledOnce ==
  \A k, l \in DOMAIN log :
    log[k].ev = "start" /\ log[l].ev = "start" /\ log[k].at = log[l].at => k = l
ItemAnswered(i) ==
  /\ items[i].pc \in {"context", "running"} => world.batch[i].problem # "rpc"
  /\ items[i].pc = "answered" =>
       (items[i].answer = "result" <=>
          (world.batch[i].problem = "rpc" \/ "model" \in RanAs(<<i>>)))
BatchAnswered ==
  answer.kind = "batch" =>
    (\A i \in DOMAIN items : items[i].pc = "answered") /\ answer.items = BatchAnswers

BatchInv ==
  world.surface = "rpc" =>
    /\ CallsOfItems /\ CalledOnce
    /\ \A i \in DOMAIN items : ItemAnswered(i)
    /\ BatchAnswered

\* What can happen to a JSON-RPC request.
LEMMA RpcStep ==
  ASSUME TypeOK, WhereInv, world.surface = "rpc", [Next]_vars
  PROVE  \/ /\ UNCHANGED <<world, items, log>>
            /\ \/ UNCHANGED answer
               \/ answer'.kind # "batch" /\ answer.kind # "batch"
               \/ (\A i \in DOMAIN items : items[i].pc = "answered") /\ answer'.items = BatchAnswers
         \/ \E i \in DOMAIN items :
              CheckItem(i) \/ StartItem(i) \/ \E result \in {"model", "raised"} : EndItem(i, result)
<1>1. pc \in {"create", "items", "done"}
  BY DEF TypeOK, WhereInv, Asking, Running, Compose
<1>2. answer.kind # "ask" /\ (answer.kind = "batch" => pc = "done")
  BY DEF TypeOK, WhereInv, Compose, None
<1>3. CASE Receive
  BY <1>2, <1>3 DEF Receive, Step, Goto, Reply, Answer
<1>4. CASE AnswerBatch
  BY <1>2, <1>4 DEF AnswerBatch, Step, Reply, Answer
<1>5. CASE UNCHANGED vars
  BY <1>5 DEF vars
<1>. QED
  BY <1>1, <1>2, <1>3, <1>4, <1>5
  DEF Next, Serve, MethodsEnd, HumanOrClient, Cancel, NotFound, GateOpen, Elicit, GuardLegAsks,
      GuardLeg, ExtractContext, ParseDocument, PlanError, StartGroup, Gather, StartMutation,
      SkipMutation, NextGroup, AnswerData, SolveDependency, CallRoute, QueryEnds, MutationEnds,
      EndRoute, HumanAnswers, CallAgain

\* Every step keeps BatchInv.
LEMMA BatchStep ==
  ASSUME TypeOK, WhereInv, ItemsInv, LogSeqInv, BatchInv, [Next]_vars
  PROVE  BatchInv'
<1>0. world' = world
  BY StepFrame DEF Frame
<1> SUFFICES ASSUME world.surface = "rpc"
             PROVE  BatchInv'
  BY <1>0 DEF BatchInv
<1>1. CASE /\ UNCHANGED <<world, items, log>>
           /\ \/ UNCHANGED answer
              \/ answer'.kind # "batch" /\ answer.kind # "batch"
              \/ (\A i \in DOMAIN items : items[i].pc = "answered") /\ answer'.items = BatchAnswers
  <2>1. BatchAnswers' = BatchAnswers /\ \A i : RanAs(<<i>>)' = RanAs(<<i>>)
    BY <1>1 DEF BatchAnswers, ItemAnswer, RanAs
  <2>. QED BY <1>1, <2>1 DEF BatchInv, CallsOfItems, CalledOnce, ItemAnswered, BatchAnswered
<1>2. ASSUME NEW i \in DOMAIN items, items[i].pc # "answered", items' # items \/ answer' = answer
      PROVE  answer.kind # "batch"
  BY <1>2 DEF BatchInv, BatchAnswered
<1>3. ASSUME NEW i \in DOMAIN items, CheckItem(i)
      PROVE  BatchInv'
  <2>1. \E p, a : /\ Item(i, p, a) /\ p \in {"answered", "raised", "context"}
                  /\ p = "answered" => (a = "result" <=> world.batch[i].problem = "rpc")
                  /\ p = "context" => world.batch[i].problem # "rpc"
    <3>1. CASE world.batch[i].problem = "no object"
      <4>1. Item(i, "answered", "error") \/ Item(i, "raised", None)
        BY <1>3, <3>1 DEF CheckItem
      <4>. QED BY <3>1, <4>1
    <3>2. CASE world.batch[i].problem \in {"format", "params"}
      <4>1. Item(i, "answered", "error")
        BY <1>3, <3>2 DEF CheckItem
      <4>. QED BY <3>2, <4>1
    <3>3. CASE world.batch[i].problem = "rpc"
      <4>1. Item(i, "answered", "result")
        BY <1>3, <3>3 DEF CheckItem
      <4>. QED BY <3>3, <4>1
    <3>4. CASE world.batch[i].problem \notin {"no object", "format", "params", "rpc"}
      <4>1. Item(i, "context", None)
        BY <1>3, <3>4 DEF CheckItem
      <4>. QED BY <3>4, <4>1
    <3>. QED BY <3>1, <3>2, <3>3, <3>4
  <2>2. items[i].pc = "new" /\ log' = log /\ answer' = answer
    BY <1>3 DEF CheckItem, ItemStep
  <2>3. /\ DOMAIN items' = DOMAIN items /\ \A j \in DOMAIN items : j # i => items'[j] = items[j]
        /\ items'[i].pc \in {"answered", "raised", "context"}
        /\ items'[i].pc = "answered" =>
             (items'[i].answer = "result" <=> world.batch[i].problem = "rpc")
        /\ items'[i].pc = "context" => world.batch[i].problem # "rpc"
    BY <2>1 DEF Item
  <2>4. answer.kind # "batch"
    BY <2>2, <1>2
  <2>5. \A j : RanAs(<<j>>)' = RanAs(<<j>>)
    BY <2>2 DEF RanAs
  <2>6. RanAs(<<i>>) = {}
    BY <2>2 DEF BatchInv, CallsOfItems, ItemAnswered, BatchAnswered, RanAs
  <2>a. CallsOfItems'
    BY <1>0, <2>2, <2>3, <2>4, <2>5, <2>6 DEF BatchInv, CallsOfItems, Event
  <2>b. CalledOnce'
    BY <1>0, <2>2, <2>3, <2>4, <2>5, <2>6 DEF BatchInv, CalledOnce, Event
  <2>c. (\A j \in DOMAIN items : ItemAnswered(j))'
    BY <1>0, <2>2, <2>3, <2>4, <2>5, <2>6, ZenonT(40) DEF BatchInv, ItemAnswered, Event
  <2>d. BatchAnswered'
    BY <1>0, <2>2, <2>3, <2>4, <2>5, <2>6 DEF BatchInv, BatchAnswered, Event
  <2>. QED BY <1>0, <2>a, <2>b, <2>c, <2>d DEF BatchInv
<1>4. ASSUME NEW i \in DOMAIN items, StartItem(i)
      PROVE  BatchInv'
  <2>1. items[i].pc = "context" /\ answer' = answer /\ answer.kind # "batch"
    BY <1>2, <1>4 DEF StartItem, ItemStep
  <2>2. world.batch[i].problem # "rpc" /\ RanAs(<<i>>) = {}
    BY <2>1 DEF BatchInv, CallsOfItems, ItemAnswered, BatchAnswered, RanAs
  <2>3. CASE Item(i, "answered", "error") /\ log' = log
    <3>1. /\ DOMAIN items' = DOMAIN items
          /\ \A j \in DOMAIN items : j # i => items'[j] = items[j]
          /\ items'[i].pc = "answered" /\ items'[i].answer = "error"
      BY <2>3 DEF Item
    <3>2. \A j : RanAs(<<j>>)' = RanAs(<<j>>)
      BY <2>3 DEF RanAs
    <3>a. CallsOfItems'
      BY <1>0, <2>1, <2>2, <2>3, <3>1, <3>2 DEF BatchInv, CallsOfItems
    <3>b. CalledOnce'
      BY <1>0, <2>1, <2>2, <2>3, <3>1, <3>2 DEF BatchInv, CalledOnce
    <3>c. (\A j \in DOMAIN items : ItemAnswered(j))'
      BY <1>0, <2>1, <2>2, <2>3, <3>1, <3>2, ZenonT(40) DEF BatchInv, ItemAnswered
    <3>d. BatchAnswered'
      BY <1>0, <2>1, <2>2, <2>3, <3>1, <3>2 DEF BatchInv, BatchAnswered
    <3>. QED BY <1>0, <3>a, <3>b, <3>c, <3>d DEF BatchInv
  <2>4. ASSUME NEW kind, Item(i, "running", None), Log("start", {<<i>>}, kind)
        PROVE  BatchInv'
    <3>1. /\ DOMAIN items' = DOMAIN items
          /\ \A j \in DOMAIN items : j # i => items'[j] = items[j]
          /\ items'[i].pc = "running"
      BY <2>4 DEF Item
    <3>2. /\ Len(log) \in Nat /\ DOMAIN log = 1 .. Len(log)
          /\ \A k \in DOMAIN log' : k \in DOMAIN log \/ k = Len(log) + 1
          /\ log'[Len(log) + 1].ev = "start" /\ log'[Len(log) + 1].at = {<<i>>}
          /\ \A k \in DOMAIN log : log'[k] = log[k]
      BY <2>4, LogGrows
    <3>3. \A j : RanAs(<<j>>)' = RanAs(<<j>>)
      <4>1. {k \in DOMAIN log' : log'[k].ev = "end"} = {k \in DOMAIN log : log[k].ev = "end"}
        BY <2>4, LogGrows
      <4>. QED BY <3>2, <4>1 DEF RanAs
    <3>4. \A k \in DOMAIN log : log[k].ev = "start" => log[k].at # {<<i>>}
      <4>1. ASSUME NEW j, {<<j>>} = {<<i>>}
            PROVE  j = i
        <5>1. <<j>> \in {<<i>>}
          BY <4>1
        <5>. QED BY <5>1
      <4>. QED BY <2>1, <4>1 DEF BatchInv, CallsOfItems
    <3>a. CallsOfItems'
      BY <1>0, <2>1, <2>2, <3>1, <3>2, <3>3, <3>4 DEF BatchInv, CallsOfItems
    <3>b. CalledOnce'
      BY <1>0, <2>1, <2>2, <3>1, <3>2, <3>3, <3>4 DEF BatchInv, CalledOnce
    <3>c. (\A j \in DOMAIN items : ItemAnswered(j))'
      <4> SUFFICES ASSUME NEW j \in DOMAIN items
                   PROVE  ItemAnswered(j)'
        BY <3>1
      <4>1. CASE j = i
        BY <1>0, <2>2, <3>1, <4>1 DEF ItemAnswered
      <4>2. CASE j # i
        <5>1. ItemAnswered(j) /\ RanAs(<<j>>)' = RanAs(<<j>>) /\ items'[j] = items[j]
          BY <3>1, <3>3, <4>2 DEF BatchInv
        <5>. QED BY <1>0, <5>1 DEF ItemAnswered
      <4>. QED BY <4>1, <4>2
    <3>d. BatchAnswered'
      BY <1>0, <2>1, <2>2, <3>1, <3>2, <3>3, <3>4 DEF BatchInv, BatchAnswered
    <3>. QED BY <1>0, <3>a, <3>b, <3>c, <3>d DEF BatchInv
  <2>. QED BY <1>4, <2>3, <2>4 DEF StartItem
<1>5. ASSUME NEW i \in DOMAIN items, NEW result \in {"model", "raised"}, EndItem(i, result)
      PROVE  BatchInv'
  <2>1. /\ items[i].pc = "running" /\ answer' = answer /\ Log("end", <<i>>, result)
        /\ Item(i, "answered", IF result = "raised" THEN "error" ELSE "result")
    BY <1>5 DEF EndItem, ItemStep
  <2>2. world.batch[i].problem # "rpc" /\ RanAs(<<i>>) = {} /\ answer.kind # "batch"
    BY <1>2, <2>1 DEF BatchInv, CallsOfItems, ItemAnswered, BatchAnswered, RanAs
  <2>3. /\ DOMAIN items' = DOMAIN items
        /\ \A j \in DOMAIN items : j # i => items'[j] = items[j]
        /\ items'[i].pc = "answered" /\ (items'[i].answer = "result" <=> result = "model")
    BY <2>1 DEF Item
  <2>4. /\ Len(log) \in Nat /\ DOMAIN log = 1 .. Len(log)
        /\ \A k \in DOMAIN log' : k \in DOMAIN log \/ k = Len(log) + 1
        /\ Len(log) + 1 \in DOMAIN log' /\ DOMAIN log \subseteq DOMAIN log'
        /\ log'[Len(log) + 1] = Event("end", <<i>>, result)
        /\ \A k \in DOMAIN log : log'[k] = log[k]
    BY <2>1, LogGrows
  <2>5. RanAs(<<i>>)' = {result} /\ \A j : j # i => RanAs(<<j>>)' = RanAs(<<j>>)
    <3>1. \A j : <<j>> = <<i>> => j = i
      OBVIOUS
    <3>2. \A k \in DOMAIN log : ~(log[k].ev = "end" /\ log[k].at = <<i>>)
      BY <2>1, <3>1 DEF BatchInv, CallsOfItems
    <3>3. {k \in DOMAIN log' : log'[k].ev = "end" /\ log'[k].at = <<i>>} = {Len(log) + 1}
      BY <2>4, <3>2 DEF Event
    <3>4. ASSUME NEW j, j # i
          PROVE  RanAs(<<j>>)' = RanAs(<<j>>)
      <4>1. {k \in DOMAIN log' : log'[k].ev = "end" /\ log'[k].at = <<j>>}
              = {k \in DOMAIN log : log[k].ev = "end" /\ log[k].at = <<j>>}
        BY <2>4, <3>1, <3>4 DEF Event
      <4>. QED BY <2>4, <4>1 DEF RanAs
    <3>. QED BY <2>4, <3>3, <3>4 DEF RanAs, Event
  <2>a. CallsOfItems'
    BY <1>0, <2>1, <2>2, <2>3, <2>4, <2>5 DEF BatchInv, CallsOfItems, Event
  <2>b. CalledOnce'
    BY <1>0, <2>1, <2>2, <2>3, <2>4, <2>5 DEF BatchInv, CalledOnce, Event
  <2>c. (\A j \in DOMAIN items : ItemAnswered(j))'
    <3> SUFFICES ASSUME NEW j \in DOMAIN items
                 PROVE  ItemAnswered(j)'
      BY <2>3
    <3>1. CASE j = i
      <4>1. "model" \in RanAs(<<i>>)' <=> result = "model"
        BY <2>5
      <4>. QED BY <1>0, <2>2, <2>3, <3>1, <4>1 DEF ItemAnswered
    <3>2. CASE j # i
      <4>1. ItemAnswered(j) /\ RanAs(<<j>>)' = RanAs(<<j>>) /\ items'[j] = items[j]
        BY <2>3, <2>5, <3>2 DEF BatchInv
      <4>. QED BY <1>0, <4>1 DEF ItemAnswered
    <3>. QED BY <3>1, <3>2
  <2>d. BatchAnswered'
    BY <1>0, <2>1, <2>2, <2>3, <2>4, <2>5 DEF BatchInv, BatchAnswered, Event
  <2>. QED BY <1>0, <2>a, <2>b, <2>c, <2>d DEF BatchInv
<1>. QED BY <1>1, <1>3, <1>4, <1>5, RpcStep

\* BatchInv is about every item, BatchAligned about those of the answer.
LEMMA BatchFollows ==
  ASSUME TypeOK, WhereInv, ItemsInv, LogSeqInv, BatchInv
  PROVE  BatchAligned
<1> SUFFICES ASSUME answer.kind = "batch"
             PROVE  BatchAligned
  BY DEF BatchAligned
<1>1. world.surface = "rpc"
  BY DEF WhereInv
<1>2. answer.items = [i \in DOMAIN world.batch |-> ItemAnswer(i)]
  BY <1>1 DEF BatchInv, BatchAnswered, BatchAnswers, ItemsInv
<1>3. world.batch \in Seq(Range(world.batch))
  BY UseCaseAssumption DEF TypeOK
<1>4. Len(answer.items) = Len(world.batch)
  BY <1>2, <1>3
<1>5. \A i \in DOMAIN world.batch :
        /\ answer.items[i].id = world.batch[i].id
        /\ answer.items[i].outcome = "result" <=>
             (world.batch[i].problem = "rpc" \/ "model" \in RanAs(<<i>>))
  <2> TAKE i \in DOMAIN world.batch
  <2>1. i \in DOMAIN items /\ items[i].pc = "answered" /\ ItemAnswered(i)
    BY <1>1 DEF BatchInv, BatchAnswered, ItemsInv
  <2>2. answer.items[i] = [id |-> world.batch[i].id, outcome |-> items[i].answer]
    BY <1>2 DEF ItemAnswer
  <2>. QED BY <2>1, <2>2 DEF ItemAnswered
<1>6. ASSUME NEW k \in DOMAIN log, NEW l \in DOMAIN log, log[k].ev = "start", log[l].ev = "start",
             log[k].at \cap log[l].at # {}
      PROVE  k = l
  <2>1. PICK i \in DOMAIN items : log[k].at = {<<i>>}
    BY <1>1, <1>6 DEF BatchInv, CallsOfItems
  <2>2. PICK j \in DOMAIN items : log[l].at = {<<j>>}
    BY <1>1, <1>6 DEF BatchInv, CallsOfItems
  <2>3. log[k].at = log[l].at
    BY <1>6, <2>1, <2>2
  <2>. QED BY <1>1, <1>6, <2>3 DEF BatchInv, CalledOnce
<1>. QED BY <1>4, <1>5, <1>6 DEF BatchAligned

\* The answers of a batch are those of its items, in their order, and each
\* tells how the item's own call ended, for every batch and every order in
\* which the calls end.
THEOREM BatchesAligned == Spec => []BatchAligned
<1>1. Init => BatchInv
  <2>1. Init => /\ DOMAIN log = {} /\ answer.kind # "batch"
                /\ \A i \in DOMAIN items : items[i].pc = "new"
    BY DEF Init, NoAnswer, None
  <2>. QED BY <2>1 DEF BatchInv, CallsOfItems, CalledOnce, ItemAnswered, BatchAnswered
<1>2. RequestInv /\ BatchInv /\ [Next]_vars => BatchInv'
  BY BatchStep DEF RequestInv
<1>3. RequestInv /\ BatchInv => BatchAligned
  BY BatchFollows DEF RequestInv
<1>. QED BY <1>1, <1>2, <1>3, RequestInvariant, PTL DEF Spec

-----------------------------------------------------------------------------
(* A document that was not refused *)

\* An application that is found is one of the server's.
LEMMA ServedIsServed ==
  ASSUME world \in Worlds, Served # 0
  PROVE  Served \in DOMAIN world.apps /\ world.apps[Served] \in DOMAIN App
<1>1. world.apps \in Seq(DOMAIN App)
  BY UseCaseAssumption
<1>2. DOMAIN world.apps \subseteq Nat /\ \A i \in DOMAIN world.apps : world.apps[i] \in DOMAIN App
  BY <1>1
<1> DEFINE exact == {i \in DOMAIN world.apps : App[world.apps[i]].name = world.app}
           alike == {i \in DOMAIN world.apps : SameWord(App[world.apps[i]].name, world.app)}
<1>3. CASE exact # {}
  BY <1>2, <1>3 DEF Served, GetApp
<1>4. CASE exact = {} /\ alike # {}
  <2>1. Served = Min(alike)
    BY <1>4 DEF Served, GetApp
  <2>2. alike \subseteq Nat /\ alike # {}
    BY <1>2, <1>4
  <2>3. \E i \in alike : \A j \in alike : i <= j
    <3> HIDE DEF alike
    <3>. QED BY <2>2, LeastNat
  <2>4. Min(alike) \in alike
    <3> HIDE DEF alike
    <3>. QED BY <2>3 DEF Min
  <2>. QED BY <1>2, <2>1, <2>4
<1>5. CASE exact = {} /\ alike = {}
  BY <1>5 DEF Served, GetApp
<1>. QED BY <1>3, <1>4, <1>5

\* The methods of a service are queries and mutations.
LEMMA MethodHasKind ==
  ASSUME world \in Worlds, Served # 0, NEW service, NEW name, Methods(service, name) # {}
  PROVE  Method(service, name).kind \in {"query", "mutation"}
<1>1. Method(service, name) \in MethodsOf(TheApp, service)
  BY DEF Method, Methods
<1>2. \A i \in DOMAIN TheApp.services :
        \A m \in Range(TheApp.services[i].methods) : m.kind \in {"query", "mutation"}
  BY ServedIsServed, UseCaseServicesAssumption DEF TheApp
<1>. QED BY <1>1, <1>2 DEF MethodsOf

\* Its groups and their selections have unique keys.
DocShape ==
  /\ Len(TheGroups) \in Nat /\ DOMAIN TheGroups = 1 .. Len(TheGroups)
  /\ \A g, h \in DOMAIN TheGroups : TheGroups[g].key = TheGroups[h].key => g = h
  /\ \A g \in DOMAIN TheGroups :
       /\ TheGroups[g].methods \in Seq(Range(TheGroups[g].methods))
       /\ Len(TheGroups[g].methods) \in Nat
       /\ DOMAIN TheGroups[g].methods = 1 .. Len(TheGroups[g].methods)
       /\ \A i, j \in DOMAIN TheGroups[g].methods :
            TheGroups[g].methods[i].key = TheGroups[g].methods[j].key => i = j

\* What parsing and its checks guarantee of a document.
LEMMA DocumentShape ==
  ASSUME world \in Worlds, ~DocumentRefused
  PROVE  DocShape
<1> DEFINE op == Doc.ops[1]
           kept == {i \in DOMAIN op.groups : ~op.groups[i].leaf}
<1>1. Doc.ops \in Seq(Range(Doc.ops)) /\ Len(Doc.ops) = 1
  BY UseCaseAssumption DEF Doc, DocumentRefused
<1>2. op \in Range(Doc.ops)
  BY <1>1 DEF Range
<1>3. ~KeyConflict(op)
  BY <1>2 DEF DocumentRefused
<1>4. op.groups \in Seq(Range(op.groups))
      /\ \A g \in Range(op.groups) : g.methods \in Seq(Range(g.methods))
  BY <1>2, UseCaseAssumption DEF Doc
<1> HIDE DEF op
<1>5. /\ TheGroups \in Seq(Range(op.groups)) /\ Len(TheGroups) = Cardinality(kept)
      /\ Cardinality(kept) \in Nat /\ DOMAIN TheGroups = 1 .. Cardinality(kept)
      /\ \A k \in DOMAIN TheGroups :
           Nth(kept, k) \in kept /\ TheGroups[k] = op.groups[Nth(kept, k)]
      /\ \A k, l \in DOMAIN TheGroups : k < l => Nth(kept, k) < Nth(kept, l)
  <2>1. kept \in SUBSET DOMAIN op.groups
    OBVIOUS
  <2>2. TheGroups = Pick(op.groups, kept)
    BY DEF TheGroups, Groups, op
  <2>. HIDE DEF kept
  <2>. QED BY <1>4, <2>1, <2>2, PickIsSubsequence
<1>6. \A g, h \in DOMAIN TheGroups : TheGroups[g].key = TheGroups[h].key => ~(g < h)
  BY <1>3, <1>5, ZenonT(40) DEF KeyConflict
<1>7. \A g, h \in DOMAIN TheGroups : TheGroups[g].key = TheGroups[h].key => g = h
  BY <1>5, <1>6
<1>8. ASSUME NEW g \in DOMAIN TheGroups
      PROVE  /\ TheGroups[g].methods \in Seq(Range(TheGroups[g].methods))
             /\ Len(TheGroups[g].methods) \in Nat
             /\ DOMAIN TheGroups[g].methods = 1 .. Len(TheGroups[g].methods)
             /\ \A i, j \in DOMAIN TheGroups[g].methods :
                  TheGroups[g].methods[i].key = TheGroups[g].methods[j].key => i = j
  <2>1. TheGroups[g] \in Range(op.groups) /\ TheGroups[g] \in Range(Groups(op))
    BY <1>5 DEF Range, TheGroups, op
  <2>2. TheGroups[g].methods \in Seq(Range(TheGroups[g].methods))
    BY <1>4, <2>1
  <2>3. UniqueItems(Keys(TheGroups[g].methods))
    BY <1>3, <2>1 DEF KeyConflict
  <2>4. \A i, j \in DOMAIN TheGroups[g].methods :
          TheGroups[g].methods[i].key = TheGroups[g].methods[j].key => i = j
    BY <2>3 DEF UniqueItems, Keys
  <2>. QED BY <2>2, <2>4
<1>. QED BY <1>5, <1>7, <1>8 DEF DocShape

\* A place is told by its path.
LEMMA PlaceShape ==
  ASSUME DocShape
  PROVE  /\ \A a \in Places :
              /\ a = <<a[1], a[2]>> /\ a[1] \in 1 .. Len(TheGroups) /\ a[1] \in DOMAIN TheGroups
              /\ a[2] \in DOMAIN TheGroups[a[1]].methods /\ a[2] \in Nat
         /\ \A g \in DOMAIN TheGroups : \A i \in DOMAIN TheGroups[g].methods : <<g, i>> \in Places
         /\ \A a, b \in Places : PathAt(a) = PathAt(b) => a = b
<1>1. \A g \in DOMAIN TheGroups : \A i \in DOMAIN TheGroups[g].methods : <<g, i>> \in Places
  BY DEF Places
<1>2. \A a \in Places :
        /\ a = <<a[1], a[2]>> /\ a[1] \in 1 .. Len(TheGroups) /\ a[1] \in DOMAIN TheGroups
        /\ a[2] \in DOMAIN TheGroups[a[1]].methods /\ a[2] \in Nat
  <2> TAKE a \in Places
  <2>1. PICK g \in DOMAIN TheGroups : a \in {<<g, i>> : i \in DOMAIN TheGroups[g].methods}
    BY DEF Places
  <2>2. PICK i \in DOMAIN TheGroups[g].methods : a = <<g, i>>
    BY <2>1
  <2>. QED BY <2>2 DEF DocShape
<1>3. ASSUME NEW a \in Places, NEW b \in Places, PathAt(a) = PathAt(b)
      PROVE  a = b
  <2>1. TheGroups[a[1]].key = TheGroups[b[1]].key /\ KeyAt(a) = KeyAt(b)
    BY <1>3 DEF PathAt
  <2>2. a[1] = b[1]
    BY <1>2, <2>1 DEF DocShape
  <2>3. a[2] = b[2]
    BY <1>2, <2>1, <2>2 DEF DocShape, KeyAt
  <2>. QED BY <1>2, <2>2, <2>3
<1>. QED BY <1>1, <1>2, <1>3

-----------------------------------------------------------------------------
(* The document as it is worked off *)

\* A place is past when its result is in the data, or its group is.
Past(a) ==
  \/ a[1] < group
  \/ a[1] = group /\ pc \in {"mutations", "mutating"} /\ KeyAt(a) \in DOMAIN data[Group.key]
\* A query of the group whose queries run.
Queried(a) == a[1] = group /\ pc \in {"queries", "unwinding"} /\ KindAt(a) = "query"
\* The mutation that is due.
Due == <<group, Earliest(Pending)>>
\* What has been called and has not ended.
Open(a) ==
  \/ Queried(a) /\ tasks[KeyAt(a)] = "running"
  \/ pc = "mutating" /\ a = Due

\* The group in work was planned; its queries are tasks, then results, and its
\* mutations get their results in order.
Planned ==
  /\ ~DocumentRefused /\ group \in 1 .. Len(TheGroups) + 1
  /\ pc # "group" => group <= Len(TheGroups) /\ ~PlanFails(Group) /\ Group.key \in DOMAIN data
  /\ pc = "mutating" => Pending # {} /\ ~aborted
GroupData ==
  /\ pc \in {"queries", "unwinding"} =>
       DOMAIN tasks = {Group.methods[i].key : i \in Selected("query")}
  /\ pc \in {"mutations", "mutating"} =>
       /\ \A i \in Selected("query") : Group.methods[i].key \in DOMAIN data[Group.key]
       /\ \A i, j \in Selected("mutation") :
            i < j /\ Group.methods[j].key \in DOMAIN data[Group.key] =>
              Group.methods[i].key \in DOMAIN data[Group.key]
DocInv == pc \in Running => Planned /\ GroupData

-----------------------------------------------------------------------------
(* The log and the answer as they are built *)

\* What has started is open or has ended.
StartsKnown ==
  \A i \in DOMAIN log : log[i].ev = "start" =>
    \A p \in log[i].at :
      \E a \in Places :
        /\ p = PathAt(a) /\ log[i].what = KindAt(a) /\ (Past(a) \/ Open(a) \/ Queried(a))
        /\ Open(a) \/ \E k \in i + 1 .. Len(log) : log[k].ev = "end" /\ log[k].at = p
\* What has ended or was refused is past, or a query that is not open.
EndsKnown ==
  \A i \in DOMAIN log : log[i].ev \in {"end", "refuse"} =>
    \E a \in Places : log[i].at = PathAt(a) /\ (Past(a) \/ (Queried(a) /\ ~Open(a)))
\* A cancellation is still to be passed on.
CancelsKnown ==
  \A i \in DOMAIN log : log[i].ev \in {"end", "refuse"} /\ log[i].what = "cancelled" =>
    pc \in {"queries", "unwinding"} /\ "cancelled" \in Range(tasks)
\* Mutations are aborted since one of them failed.
Broken == \E i \in DOMAIN log : FailedCall(log[i]) /\ IsMutation(log[i].at)
LogInv == pc \in Running => StartsKnown /\ EndsKnown /\ CancelsKnown /\ (aborted <=> Broken)

Accounted(path) ==
  /\ path[1] \in DOMAIN data /\ path[2] \in DOMAIN data[path[1]]
  /\ RanAs(path) \cap Results # {} => CodesAt(path) = {}
  /\ CodesAt(path) = {} => data[path[1]][path[2]] \in RanAs(path)
  /\ CodesAt(path) # {} => data[path[1]][path[2]] = "null"
  /\ CodesAt(path) = {"SKIPPED_PRIOR_FAILURE"} <=> IsMutation(path) /\ FailedBefore(path)

\* Errors are of places that are past, one of each.
ErrorsKnown ==
  /\ \A i \in DOMAIN errors : \E a \in Places : errors[i].path = PathAt(a) /\ Past(a)
  /\ \A i, j \in DOMAIN errors : errors[i].path = errors[j].path => i = j
PastAccounted == \A a \in Places : Past(a) => Accounted(PathAt(a))
\* A query's task holds what its call returned.
TasksKnown ==
  \A a \in Places : Queried(a) =>
    /\ tasks[KeyAt(a)] \in Results => RanAs(PathAt(a)) = {tasks[KeyAt(a)]}
    /\ tasks[KeyAt(a)] \notin Results => RanAs(PathAt(a)) \cap Results = {}
AnswerInv ==
  /\ errors \in Seq(Range(errors))
  /\ pc \in Running => ErrorsKnown /\ PastAccounted /\ TasksKnown

-----------------------------------------------------------------------------
(* Steps of a running request *)

RunStep ==
  \/ ParseDocument \/ StartGroup
  \/ \E k \in DOMAIN tasks, result \in Ends \cup {"cancelled"} : QueryEnds(k, result)
  \/ Gather /\ pc = "queries" /\ Settled /\ "cancelled" \notin Range(tasks)
  \/ StartMutation
  \/ \E result \in Ends \cup {"cancelled"} : MutationEnds(result) /\ ~MutationCancelled
  \/ SkipMutation \/ NextGroup
  \/ Cancel /\ pc = "queries" /\ pc' = "unwinding" /\ Step
  \/ UNCHANGED vars

\* The steps after which a request is still running.
LEMMA RunSteps ==
  ASSUME TypeOK, WhereInv, ItemsInv, [Next]_vars, pc' \in Running
  PROVE  RunStep
<1>1. \A i \in DOMAIN items : ~(CheckItem(i) \/ StartItem(i)
        \/ \E result \in {"model", "raised"} : EndItem(i, result))
  <2> SUFFICES ASSUME NEW i \in DOMAIN items,
                      CheckItem(i) \/ StartItem(i)
                        \/ \E result \in {"model", "raised"} : EndItem(i, result)
               PROVE  FALSE
    OBVIOUS
  <2>1. pc \in Running /\ Compose
    BY DEF CheckItem, StartItem, EndItem, ItemStep, WhereInv
  <2>2. items[i].pc = "new"
    BY <2>1 DEF ItemsInv, Compose
  <2>. QED BY <2>1, <2>2 DEF CheckItem, StartItem, EndItem, Compose, Running
<1>2. CASE Gather
  BY <1>2 DEF Gather, Reply, Running, RunStep
<1>3. CASE Cancel
  BY <1>3 DEF Cancel, Reply, Goto, Running, RunStep
<1>4. CASE SolveDependency
  BY <1>4 DEF SolveDependency, Reply, Goto, Running
<1>5. CASE GuardLegAsks
  <2>1. Verdict \in {"yes", "no", "ask"}
    BY DEF Verdict
  <2>. QED BY <1>5, <2>1 DEF GuardLegAsks, GuardLeg, Reply, Goto, Running
<1>6. ASSUME NEW result \in Ends \cup {"cancelled"}, MutationEnds(result)
      PROVE  RunStep
  BY <1>6 DEF RunStep, MutationCancelled, Reply, Running
<1>7. ASSUME Receive \/ NotFound \/ GateOpen \/ Elicit \/ ExtractContext \/ PlanError
             \/ AnswerData \/ AnswerBatch \/ CallRoute
             \/ (\E result \in {"model", "raised"} : EndRoute(result))
             \/ (\E accepts \in BOOLEAN : HumanAnswers(accepts))
             \/ \E response \in Responses : CallAgain(response)
      PROVE  FALSE
  <2>1. CASE Receive
    BY <2>1, UseCaseAssumption DEF Receive, Reply, Goto, Running, TypeOK, Surfaces
  <2>2. CASE \E accepts \in BOOLEAN : HumanAnswers(accepts)
    BY <2>2 DEF HumanAnswers, Reply, Goto, Running
  <2>3. CASE \E response \in Responses : CallAgain(response)
    BY <2>3 DEF CallAgain, Running
  <2>4. CASE AnswerBatch
    BY <2>4 DEF AnswerBatch, Reply, Running
  <2>. QED
    BY <1>7, <2>1, <2>2, <2>3, <2>4
    DEF NotFound, GateOpen, Elicit, ExtractContext, PlanError, AnswerData, CallRoute, EndRoute,
        Reply, Goto, Running
<1>. QED
  BY <1>1, <1>2, <1>3, <1>4, <1>5, <1>6, <1>7
  DEF Next, Serve, MethodsEnd, HumanOrClient, Responses, RunStep

\* The places of the group in work.
LEMMA GroupPlaces ==
  ASSUME world \in Worlds, Served # 0, ~DocumentRefused, group \in 1 .. Len(TheGroups),
         ~PlanFails(Group)
  PROVE  /\ DocShape /\ group \in DOMAIN TheGroups /\ group \in Nat /\ Due[1] = group
         /\ \A i \in DOMAIN Group.methods :
              /\ <<group, i>> \in Places /\ KeyAt(<<group, i>>) = Group.methods[i].key
              /\ KindAt(<<group, i>>) \in {"query", "mutation"}
              /\ PathAt(<<group, i>>) = Path(Group.methods[i].key)
              /\ i \in Nat
         /\ \A kind : \A i \in Selected(kind) :
              i \in DOMAIN Group.methods /\ KindAt(<<group, i>>) = kind
         /\ \A a \in Places : a[1] = group =>
              a[2] \in Selected(KindAt(a)) /\ a = <<group, a[2]>>
              /\ KeyAt(a) = Group.methods[a[2]].key /\ PathAt(a) = Path(KeyAt(a))
              /\ KindAt(a) \in {"query", "mutation"}
         /\ \A a, b \in Places : a[1] = group /\ b[1] = group /\ KeyAt(a) = KeyAt(b) => a = b
<1>1. DocShape /\ group \in DOMAIN TheGroups /\ group \in Nat
  BY DocumentShape DEF DocShape
<1>2. \A i \in DOMAIN Group.methods :
        /\ <<group, i>> \in Places /\ KeyAt(<<group, i>>) = Group.methods[i].key
        /\ PathAt(<<group, i>>) = Path(Group.methods[i].key)
        /\ i \in Nat
  BY <1>1, PlaceShape DEF Group, KeyAt, PathAt, Path, DocShape
<1>3. \A i \in DOMAIN Group.methods : KindAt(<<group, i>>) \in {"query", "mutation"}
  <2> TAKE i \in DOMAIN Group.methods
  <2>1. Group.methods[i] \in Range(Group.methods)
    BY DEF Range
  <2>2. Methods(Group.service, Group.methods[i].name) # {}
    BY <1>1, <2>1 DEF PlanFails
  <2>. QED BY <1>1, <2>2, MethodHasKind DEF KindAt, Group
<1>4. \A kind : \A i \in Selected(kind) :
        i \in DOMAIN Group.methods /\ KindAt(<<group, i>>) = kind
  BY DEF Selected, KindAt, Group
<1>5. ASSUME NEW a \in Places, a[1] = group
      PROVE  a[2] \in Selected(KindAt(a)) /\ a = <<group, a[2]>>
             /\ KeyAt(a) = Group.methods[a[2]].key /\ PathAt(a) = Path(KeyAt(a))
             /\ KindAt(a) \in {"query", "mutation"}
  <2>1. a = <<group, a[2]>> /\ a[2] \in DOMAIN Group.methods
    BY <1>1, <1>5, PlaceShape DEF Group
  <2>2. a[2] \in Selected(KindAt(a))
    BY <1>5, <2>1 DEF Selected, KindAt, Group
  <2>. QED BY <1>2, <1>3, <2>1, <2>2
<1>6. ASSUME NEW a \in Places, NEW b \in Places, a[1] = group, b[1] = group, KeyAt(a) = KeyAt(b)
      PROVE  a = b
  BY <1>1, <1>5, <1>6, PlaceShape
<1>7. Due[1] = group
  BY DEF Due
<1>. QED BY <1>1, <1>2, <1>3, <1>4, <1>5, <1>6, <1>7

\* What a request in a group knows of it.
LEMMA InGroup ==
  ASSUME TypeOK, WhereInv, DocInv, pc \in Running, pc # "group"
  PROVE  /\ DocShape /\ group \in DOMAIN TheGroups /\ group \in Nat /\ Due[1] = group
         /\ \A i \in DOMAIN Group.methods :
              /\ <<group, i>> \in Places /\ KeyAt(<<group, i>>) = Group.methods[i].key
              /\ KindAt(<<group, i>>) \in {"query", "mutation"}
              /\ PathAt(<<group, i>>) = Path(Group.methods[i].key)
              /\ i \in Nat
         /\ \A kind : \A i \in Selected(kind) :
              i \in DOMAIN Group.methods /\ KindAt(<<group, i>>) = kind
         /\ \A a \in Places : a[1] = group =>
              a[2] \in Selected(KindAt(a)) /\ a = <<group, a[2]>>
              /\ KeyAt(a) = Group.methods[a[2]].key /\ PathAt(a) = Path(KeyAt(a))
              /\ KindAt(a) \in {"query", "mutation"}
         /\ \A a, b \in Places : a[1] = group /\ b[1] = group /\ KeyAt(a) = KeyAt(b) => a = b
<1>1. /\ world \in Worlds /\ Served # 0 /\ ~DocumentRefused /\ ~PlanFails(Group)
      /\ group \in 1 .. Len(TheGroups)
  <2>1. ~DocumentRefused /\ group \in 1 .. Len(TheGroups) + 1 /\ group <= Len(TheGroups)
        /\ ~PlanFails(Group)
    BY DEF DocInv, Planned
  <2>2. world \in Worlds /\ Served # 0
    BY DEF TypeOK, WhereInv
  <2>3. Len(TheGroups) \in Nat
    BY <2>1, <2>2, DocumentShape DEF DocShape
  <2>. QED BY <2>1, <2>2, <2>3
<1>. QED BY <1>1, GroupPlaces

\* The mutation that is due comes after those that are past.
LEMMA DueNext ==
  ASSUME TypeOK, WhereInv, DocInv, pc \in {"mutations", "mutating"}, Pending # {}
  PROVE  /\ Due \in Places /\ KindAt(Due) = "mutation" /\ ~Past(Due)
         /\ KeyAt(Due) = NextWrite.key /\ PathAt(Due) = Path(NextWrite.key)
         /\ Due[2] \in Selected("mutation")
         /\ \A a \in Places : Past(a) /\ KindAt(a) = "mutation" => Before(a, Due) /\ ~Before(Due, a)
         /\ \A i \in Selected("mutation") : i < Due[2] => Group.methods[i].key \in DOMAIN data[Group.key]
<1>0. pc \in Running /\ pc # "group"
  BY DEF Running
<1>1. Pending \subseteq Nat /\ \A i \in Pending : i \in Selected("mutation")
  BY <1>0, InGroup DEF Pending
<1>2. Due[2] \in Pending /\ \A j \in Pending : Due[2] <= j
  BY <1>1, EarliestIsLeast DEF Due
<1>3. Due[2] \in Selected("mutation") /\ Group.methods[Due[2]].key \notin DOMAIN data[Group.key]
  BY <1>2 DEF Pending
<1>4. Due = <<group, Due[2]>> /\ NextWrite = Group.methods[Due[2]]
  BY DEF Due, NextWrite
<1>5. Due \in Places /\ KindAt(Due) = "mutation" /\ KeyAt(Due) = NextWrite.key
      /\ PathAt(Due) = Path(NextWrite.key) /\ Due[1] = group /\ group \in Nat
  BY <1>0, <1>3, <1>4, InGroup
<1>6. ~Past(Due)
  BY <1>3, <1>4, <1>5 DEF Past
<1>7. ASSUME NEW i \in Selected("mutation"), i < Due[2]
      PROVE  Group.methods[i].key \in DOMAIN data[Group.key]
  <2>1. i \in Nat /\ Due[2] \in Nat
    BY <1>0, <1>1, <1>2, InGroup
  <2>2. i \notin Pending
    BY <1>2, <1>7, <2>1
  <2>. QED BY <2>2 DEF Pending
<1>8. ASSUME NEW a \in Places, Past(a), KindAt(a) = "mutation"
      PROVE  Before(a, Due) /\ ~Before(Due, a)
  <2>0. a[1] \in Nat /\ a[2] \in Nat /\ Due[2] \in Nat
    BY <1>0, <1>1, <1>2, InGroup, PlaceShape, DocShape DEF DocShape
  <2>1. CASE a[1] < group
    BY <1>5, <2>0, <2>1 DEF Before
  <2>2. CASE a[1] = group
    <3>1. a[2] \in Selected("mutation") /\ KeyAt(a) = Group.methods[a[2]].key
          /\ KeyAt(a) \in DOMAIN data[Group.key]
      BY <1>0, <1>8, <2>2, InGroup DEF Past
    <3>2. a[2] # Due[2] /\ ~(Due[2] < a[2])
      BY <1>3, <3>1 DEF DocInv, GroupData, Running
    <3>. QED BY <1>5, <2>0, <2>2, <3>2 DEF Before
  <2>. QED BY <1>8, <2>1, <2>2 DEF Past
<1>. QED BY <1>3, <1>5, <1>6, <1>7, <1>8

-----------------------------------------------------------------------------
(* What the steps are made of *)

\* The group in work stays the same.
LEMMA SameGroup ==
  ASSUME world' = world, group' = group
  PROVE  /\ Group' = Group /\ (PlanFails(Group)' <=> PlanFails(Group))
         /\ \A kind : Selected(kind)' = Selected(kind)
         /\ \A k : Path(k)' = Path(k)
         /\ \A s, r : Projected(s, r)' = Projected(s, r)
<1>1. Group' = Group /\ TheApp' = TheApp
  BY StaticDocument, StaticRequest DEF Group, TheApp
<1>2. \A s, n : Methods(s, n)' = Methods(s, n)
  BY <1>1 DEF Methods
<1>3. \A s, n : Method(s, n)' = Method(s, n)
  BY <1>2 DEF Method
<1>4. PlanFails(Group)' <=> PlanFails(Group)
  BY <1>1, <1>2 DEF PlanFails
<1>5. \A kind : Selected(kind)' = Selected(kind)
  BY <1>1, <1>3 DEF Selected
<1>6. \A s, r : Projected(s, r)' = Projected(s, r)
  BY <1>1, <1>3 DEF Projected
<1>. QED BY <1>1, <1>4, <1>5, <1>6 DEF Path

\* What an event adds to what the log says.
LEMMA EventStep ==
  ASSUME LogSeqInv, world' = world, NEW ev, NEW at, NEW what, Log(ev, at, what)
  PROVE  /\ \A p : RanAs(p)' = RanAs(p) \cup (IF ev = "end" /\ at = p THEN {what} ELSE {})
         /\ \A p : FailedBefore(p)' <=>
              \/ FailedBefore(p)
              \/ FailedCall(Event(ev, at, what)) /\ IsMutation(at) /\ DeclaredBefore(at, p)
         /\ Broken' <=> (Broken \/ (FailedCall(Event(ev, at, what)) /\ IsMutation(at)))
<1>1. /\ Len(log) + 1 \in DOMAIN log' /\ log'[Len(log) + 1] = Event(ev, at, what)
      /\ \A i \in DOMAIN log : i \in DOMAIN log' /\ log'[i] = log[i]
      /\ \A i \in DOMAIN log' : i \in DOMAIN log \/ i = Len(log) + 1
  BY LogGrows
<1>2. /\ \A q : IsMutation(q)' <=> IsMutation(q)
      /\ \A q, r : DeclaredBefore(q, r)' <=> DeclaredBefore(q, r)
  BY StaticDocument
<1>3. ASSUME NEW p
      PROVE  RanAs(p)' = RanAs(p) \cup (IF ev = "end" /\ at = p THEN {what} ELSE {})
  BY <1>1 DEF RanAs, Event
<1>4. ASSUME NEW p
      PROVE  FailedBefore(p)' <=>
               \/ FailedBefore(p)
               \/ FailedCall(Event(ev, at, what)) /\ IsMutation(at) /\ DeclaredBefore(at, p)
  <2>1. Event(ev, at, what).at = at
    BY DEF Event
  <2>2. \A e : FailedCall(e)' <=> FailedCall(e)
    BY DEF FailedCall
  <2>3. FailedBefore(p)' <=>
          \E i \in DOMAIN log' : FailedCall(log'[i]) /\ IsMutation(log'[i].at)
                                 /\ DeclaredBefore(log'[i].at, p)
    BY <1>2, <2>2 DEF FailedBefore
  <2>. QED BY <1>1, <2>1, <2>3 DEF FailedBefore
<1>5. Broken' <=> (Broken \/ (FailedCall(Event(ev, at, what)) /\ IsMutation(at)))
  <2>1. Event(ev, at, what).at = at
    BY DEF Event
  <2>2. \A e : FailedCall(e)' <=> FailedCall(e)
    BY DEF FailedCall
  <2>3. Broken' <=> \E i \in DOMAIN log' : FailedCall(log'[i]) /\ IsMutation(log'[i].at)
    BY <1>2, <2>2 DEF Broken
  <2>. QED BY <1>1, <2>1, <2>3 DEF Broken
<1>. QED BY <1>3, <1>4, <1>5

\* A quiet step leaves what the log says.
LEMMA LogKept ==
  ASSUME world' = world, log' = log
  PROVE  /\ \A p : RanAs(p)' = RanAs(p) /\ (FailedBefore(p)' <=> FailedBefore(p))
         /\ Broken' <=> Broken
BY StaticDocument DEF RanAs, FailedBefore, Broken, FailedCall

\* What an error adds to the codes of its path.
LEMMA ErrorStep ==
  ASSUME errors \in Seq(Range(errors)), NEW q, NEW c, errors' = Append(errors, Error(q, c))
  PROVE  /\ errors' \in Seq(Range(errors'))
         /\ \A p : CodesAt(p)' = CodesAt(p) \cup (IF p = q THEN {c} ELSE {})
         /\ \A i \in DOMAIN errors' : errors'[i].path = q \/ (i \in DOMAIN errors /\ errors'[i] = errors[i])
         /\ (\A i \in DOMAIN errors : errors[i].path # q)
              /\ (\A i, j \in DOMAIN errors : errors[i].path = errors[j].path => i = j)
              => \A i, j \in DOMAIN errors' : errors'[i].path = errors'[j].path => i = j
<1>1. /\ errors' \in Seq(Range(errors')) /\ Len(errors) \in Nat
      /\ DOMAIN errors = 1 .. Len(errors) /\ DOMAIN errors' = 1 .. Len(errors) + 1
      /\ errors'[Len(errors) + 1] = Error(q, c)
      /\ \A i \in DOMAIN errors : errors'[i] = errors[i]
  BY AppendSeq
<1>2. /\ Len(errors) + 1 \in DOMAIN errors' /\ Len(errors) + 1 \notin DOMAIN errors
      /\ \A i \in DOMAIN errors : i \in DOMAIN errors'
      /\ \A i \in DOMAIN errors' : i \in DOMAIN errors \/ i = Len(errors) + 1
  BY <1>1
<1>3. ASSUME NEW p
      PROVE  CodesAt(p)' = CodesAt(p) \cup (IF p = q THEN {c} ELSE {})
  BY <1>1, <1>2 DEF CodesAt, Error
<1>. QED BY <1>1, <1>2, <1>3 DEF Error

\* A mutation gets its result or null.
MutationSettles(value) ==
  /\ pc \in {"mutations", "mutating"} /\ Pending # {} /\ pc' = "mutations"
  /\ PutResult(NextWrite.key, value) /\ UNCHANGED <<world, group, tasks>>

\* A mutation that settles moves its place to the past and no other.
LEMMA SettleStep ==
  ASSUME TypeOK, WhereInv, DocInv, NEW value, MutationSettles(value)
  PROVE  /\ DocInv'
         /\ \A a \in Places : /\ Past(a)' <=> Past(a) \/ a = Due
                              /\ ~Open(a)' /\ ~Queried(a)' /\ ~Queried(a)
         /\ \A a \in Places : a # Due =>
              LET p == PathAt(a)
              IN p[1] \in DOMAIN data /\ p[2] \in DOMAIN data[p[1]] =>
                   /\ p[1] \in DOMAIN data' /\ p[2] \in DOMAIN data'[p[1]]
                   /\ data'[p[1]][p[2]] = data[p[1]][p[2]]
         /\ LET p == PathAt(Due)
            IN p[1] \in DOMAIN data' /\ p[2] \in DOMAIN data'[p[1]] /\ data'[p[1]][p[2]] = value
<1>0. pc \in Running /\ pc # "group" /\ pc' \in Running /\ pc' = "mutations"
  BY DEF MutationSettles, Running
<1>1. /\ DOMAIN data' = DOMAIN data /\ Group.key \in DOMAIN data
      /\ \A g \in DOMAIN data : g # Group.key => data'[g] = data[g]
      /\ DOMAIN data'[Group.key] = DOMAIN data[Group.key] \cup {NextWrite.key}
      /\ \A k \in DOMAIN data[Group.key] \cup {NextWrite.key} :
           data'[Group.key][k] = IF k = NextWrite.key THEN value ELSE data[Group.key][k]
  <2>1. Group.key \in DOMAIN data
    BY <1>0 DEF DocInv, Planned
  <2>2. data' = [data EXCEPT ![Group.key] = Put(data[Group.key], NextWrite.key, value)]
    BY DEF MutationSettles, PutResult
  <2>. QED BY <2>1, <2>2 DEF Put
<1>2. /\ Group' = Group /\ \A kind : Selected(kind)' = Selected(kind)
      /\ PlanFails(Group)' <=> PlanFails(Group)
  BY SameGroup DEF MutationSettles
<1>3. /\ DocShape /\ group \in DOMAIN TheGroups
      /\ \A a, b \in Places : PathAt(a) = PathAt(b) => a = b
      /\ \A a, b \in Places : a[1] = group /\ b[1] = group /\ KeyAt(a) = KeyAt(b) => a = b
  BY <1>0, InGroup, PlaceShape
<1>4. /\ Due \in Places /\ KindAt(Due) = "mutation" /\ KeyAt(Due) = NextWrite.key
      /\ Due[1] = group /\ PathAt(Due) = <<Group.key, NextWrite.key>>
      /\ Due[2] \in Selected("mutation")
      /\ \A i \in Selected("mutation") : i < Due[2] => Group.methods[i].key \in DOMAIN data[Group.key]
  BY <1>0, DueNext, InGroup DEF MutationSettles, Path
<1>5. ASSUME NEW a \in Places
      PROVE  /\ Past(a)' <=> Past(a) \/ a = Due
             /\ ~Open(a)' /\ ~Queried(a)' /\ ~Queried(a)
  <2>1. KeyAt(a)' = KeyAt(a) /\ group' = group
    BY StaticDocument DEF MutationSettles
  <2>2. a[1] = group /\ KeyAt(a) = NextWrite.key <=> a = Due
    BY <1>3, <1>4
  <2>3. Past(a)' <=> Past(a) \/ a = Due
    BY <1>0, <1>1, <1>2, <2>1, <2>2 DEF Past, MutationSettles
  <2>4. ~Open(a)' /\ ~Queried(a)' /\ ~Queried(a)
    BY <1>0 DEF Open, Queried, MutationSettles
  <2>. QED BY <2>3, <2>4
<1>6. Planned'
  <2>1. (DocumentRefused' <=> DocumentRefused) /\ TheGroups' = TheGroups /\ group' = group
    BY StaticRequest, StaticDocument DEF MutationSettles
  <2>. QED BY <1>0, <1>1, <1>2, <2>1 DEF Planned, DocInv
<1>7. GroupData'
  <2>1. /\ \A i \in Selected("query") : Group.methods[i].key \in DOMAIN data[Group.key]
        /\ \A i, j \in Selected("mutation") :
             i < j /\ Group.methods[j].key \in DOMAIN data[Group.key] =>
               Group.methods[i].key \in DOMAIN data[Group.key]
    BY <1>0 DEF DocInv, GroupData, MutationSettles
  <2>2. \A j \in Selected("mutation") : Group.methods[j].key = NextWrite.key => j = Due[2]
    <3> TAKE j \in Selected("mutation")
    <3>1. <<group, j>> \in Places /\ KeyAt(<<group, j>>) = Group.methods[j].key
      BY <1>0, InGroup
    <3>2. Group.methods[j].key = NextWrite.key => <<group, j>> = Due
      BY <1>3, <1>4, <3>1
    <3>3. <<group, j>>[2] = j
      OBVIOUS
    <3>. QED BY <3>2, <3>3
  <2>. QED BY <1>0, <1>1, <1>2, <1>4, <2>1, <2>2 DEF GroupData
<1>8. ASSUME NEW a \in Places, a # Due, PathAt(a)[1] \in DOMAIN data,
             PathAt(a)[2] \in DOMAIN data[PathAt(a)[1]]
      PROVE  /\ PathAt(a)[1] \in DOMAIN data' /\ PathAt(a)[2] \in DOMAIN data'[PathAt(a)[1]]
             /\ data'[PathAt(a)[1]][PathAt(a)[2]] = data[PathAt(a)[1]][PathAt(a)[2]]
  <2>1. PathAt(a)[1] = Group.key => PathAt(a)[2] # NextWrite.key
    <3>1. PathAt(a) # PathAt(Due) /\ PathAt(a) = <<PathAt(a)[1], PathAt(a)[2]>>
      BY <1>3, <1>4, <1>8 DEF PathAt
    <3>. QED BY <1>4, <3>1
  <2>. QED BY <1>1, <1>8, <2>1
<1>9. PathAt(Due)[1] = Group.key /\ PathAt(Due)[2] = NextWrite.key
  BY <1>4
<1>. QED BY <1>0, <1>1, <1>5, <1>6, <1>7, <1>8, <1>9 DEF DocInv

\* What holds of a running request.
RunInv == TypeOK /\ WhereInv /\ LogSeqInv /\ DocInv /\ LogInv /\ AnswerInv

\* What is said of paths, said of places.
LEMMA PathFacts ==
  ASSUME DocShape
  PROVE  /\ \A a \in Places : IsMutation(PathAt(a)) <=> KindAt(a) = "mutation"
         /\ \A a, b \in Places : DeclaredBefore(PathAt(a), PathAt(b)) <=> Before(a, b)
         /\ \A a \in Places : ~Before(a, a)
<1>1. \A a, b \in Places : PathAt(a) = PathAt(b) => a = b
  BY PlaceShape
<1>2. \A a \in Places : ~Before(a, a)
  BY PlaceShape, DocShape DEF Before
<1>. QED BY <1>1, <1>2 DEF IsMutation, DeclaredBefore

\* A path is accounted for as before when nothing about it changes.
LEMMA AccountedKept ==
  ASSUME NEW p, world' = world, Accounted(p),
         p[1] \in DOMAIN data', p[2] \in DOMAIN data'[p[1]],
         data'[p[1]][p[2]] = data[p[1]][p[2]],
         RanAs(p)' = RanAs(p), CodesAt(p)' = CodesAt(p),
         IsMutation(p) => (FailedBefore(p)' <=> FailedBefore(p))
  PROVE  Accounted(p)'
<1>1. IsMutation(p)' <=> IsMutation(p)
  BY StaticDocument
<1>. QED BY <1>1 DEF Accounted

\* ... and keeps LogInv if it logs no more than its end.
LEMMA SettledLog ==
  ASSUME RunInv, NEW value, MutationSettles(value),
         \/ log' = log
         \/ \E ev \in {"end", "refuse"} : \E what : what # "cancelled" /\ Log(ev, PathAt(Due), what),
         pc = "mutating" => \E what : Log("end", PathAt(Due), what)
  PROVE  StartsKnown' /\ EndsKnown' /\ CancelsKnown'
<1>0. /\ pc \in Running /\ pc # "group" /\ pc' = "mutations"
      /\ pc \notin {"queries", "unwinding"} /\ world' = world
      /\ TypeOK /\ WhereInv /\ LogSeqInv /\ DocInv
      /\ StartsKnown /\ EndsKnown /\ CancelsKnown
  BY DEF MutationSettles, Running, RunInv, LogInv
<1>1. /\ \A a \in Places : (Past(a)' <=> Past(a) \/ a = Due) /\ ~Open(a)' /\ ~Queried(a)' /\ ~Queried(a)
      /\ Due \in Places
  BY <1>0, SettleStep, DueNext DEF MutationSettles
<1>2. \A a \in Places : Open(a) => a = Due /\ pc = "mutating"
  BY <1>0 DEF Open, Queried
<1>3. /\ Len(log) \in Nat /\ DOMAIN log = 1 .. Len(log) /\ Len(log') \in Nat /\ Len(log) <= Len(log')
      /\ \A i \in DOMAIN log : log'[i] = log[i]
      /\ \A i \in DOMAIN log' : i \in DOMAIN log
           \/ (log'[i].ev \in {"end", "refuse"} /\ log'[i].at = PathAt(Due) /\ log'[i].what # "cancelled")
  <2>1. CASE log' = log
    BY <1>0, <2>1 DEF LogSeqInv
  <2>2. ASSUME NEW ev \in {"end", "refuse"}, NEW what, what # "cancelled", Log(ev, PathAt(Due), what)
        PROVE  <1>3!:
    BY <1>0, <2>2, LogGrows
  <2>. QED BY <2>1, <2>2
<1>4. pc = "mutating" =>
        /\ Len(log) + 1 \in DOMAIN log' /\ Len(log') = Len(log) + 1
        /\ log'[Len(log) + 1].ev = "end" /\ log'[Len(log) + 1].at = PathAt(Due)
  BY <1>0, LogGrows
<1>5. /\ Places' = Places /\ \A a : PathAt(a)' = PathAt(a) /\ KindAt(a)' = KindAt(a)
  BY <1>0, StaticDocument
<1>6. StartsKnown'
  <2> SUFFICES ASSUME NEW i \in DOMAIN log', log'[i].ev = "start", NEW p \in log'[i].at
               PROVE  \E a \in Places :
                        /\ p = PathAt(a) /\ log'[i].what = KindAt(a) /\ Past(a)'
                        /\ \E k \in i + 1 .. Len(log') : log'[k].ev = "end" /\ log'[k].at = p
    BY <1>5 DEF StartsKnown
  <2>1. i \in DOMAIN log /\ log'[i] = log[i]
    BY <1>3
  <2>2. PICK a \in Places :
          /\ p = PathAt(a) /\ log[i].what = KindAt(a) /\ (Past(a) \/ Open(a) \/ Queried(a))
          /\ Open(a) \/ \E k \in i + 1 .. Len(log) : log[k].ev = "end" /\ log[k].at = p
    BY <1>0, <2>1 DEF StartsKnown
  <2>3. Past(a)'
    BY <1>1, <1>2, <2>2
  <2>4. CASE Open(a)
    <3>1. a = Due /\ pc = "mutating"
      BY <1>2, <2>4
    <3>2. Len(log) + 1 \in i + 1 .. Len(log')
      BY <1>3, <1>4, <2>1, <3>1
    <3>. QED BY <1>4, <2>1, <2>2, <2>3, <3>1, <3>2
  <2>5. CASE \E k \in i + 1 .. Len(log) : log[k].ev = "end" /\ log[k].at = p
    <3>1. PICK k \in i + 1 .. Len(log) : log[k].ev = "end" /\ log[k].at = p
      BY <2>5
    <3>2. k \in DOMAIN log /\ k \in i + 1 .. Len(log')
      BY <1>3, <2>1
    <3>. QED BY <1>3, <2>1, <2>2, <2>3, <3>1, <3>2
  <2>. QED BY <2>2, <2>4, <2>5
<1>7. EndsKnown'
  <2> SUFFICES ASSUME NEW i \in DOMAIN log', log'[i].ev \in {"end", "refuse"}
               PROVE  \E a \in Places : log'[i].at = PathAt(a) /\ Past(a)'
    BY <1>5 DEF EndsKnown
  <2>1. CASE i \in DOMAIN log
    BY <1>0, <1>1, <1>3, <2>1 DEF EndsKnown
  <2>2. CASE i \notin DOMAIN log
    BY <1>1, <1>3, <2>2
  <2>. QED BY <2>1, <2>2
<1>8. CancelsKnown'
  BY <1>0, <1>3 DEF CancelsKnown
<1>. QED BY <1>6, <1>7, <1>8

\* ... and keeps AnswerInv if it accounts for its place.
LEMMA SettledAnswer ==
  ASSUME RunInv, NEW value, MutationSettles(value), NEW due, due = PathAt(Due),
         log' = log \/ \E ev \in {"end", "refuse"} : \E what : Log(ev, due, what),
         errors' = errors \/ \E c : errors' = Append(errors, Error(due, c)),
         Accounted(due)'
  PROVE  AnswerInv'
<1>0. /\ pc \in Running /\ pc # "group" /\ pc' = "mutations" /\ world' = world
      /\ TypeOK /\ WhereInv /\ LogSeqInv /\ DocInv /\ errors \in Seq(Range(errors))
      /\ ErrorsKnown /\ PastAccounted
  BY DEF MutationSettles, Running, RunInv, AnswerInv
<1>1. /\ \A a \in Places : (Past(a)' <=> Past(a) \/ a = Due) /\ ~Queried(a)'
      /\ Due \in Places /\ ~Past(Due) /\ DocShape
      /\ \A a \in Places : Past(a) /\ KindAt(a) = "mutation" => ~Before(Due, a)
  BY <1>0, SettleStep, DueNext, InGroup DEF MutationSettles
<1>2. /\ Places' = Places /\ \A a : PathAt(a)' = PathAt(a) /\ KindAt(a)' = KindAt(a)
  BY <1>0, StaticDocument
<1>3. /\ \A a, b \in Places : PathAt(a) = PathAt(b) => a = b
      /\ \A a \in Places : IsMutation(PathAt(a)) <=> KindAt(a) = "mutation"
      /\ \A a, b \in Places : DeclaredBefore(PathAt(a), PathAt(b)) <=> Before(a, b)
  BY <1>1, PlaceShape, PathFacts
<1>4. \A i \in DOMAIN errors : errors[i].path # due
  BY <1>0, <1>1, <1>3 DEF ErrorsKnown
<1>5. /\ errors' \in Seq(Range(errors'))
      /\ \A p : p # due => CodesAt(p)' = CodesAt(p)
      /\ \A i \in DOMAIN errors' :
           errors'[i].path = due \/ (i \in DOMAIN errors /\ errors'[i] = errors[i])
      /\ \A i, j \in DOMAIN errors' : errors'[i].path = errors'[j].path => i = j
  <2>1. CASE errors' = errors
    BY <1>0, <2>1 DEF ErrorsKnown, CodesAt
  <2>2. ASSUME NEW c, errors' = Append(errors, Error(due, c))
        PROVE  <1>5!:
    <3>1. \A i, j \in DOMAIN errors : errors[i].path = errors[j].path => i = j
      BY <1>0 DEF ErrorsKnown
    <3>2. /\ errors' \in Seq(Range(errors'))
          /\ \A p : CodesAt(p)' = CodesAt(p) \cup (IF p = due THEN {c} ELSE {})
          /\ \A i \in DOMAIN errors' :
               errors'[i].path = due \/ (i \in DOMAIN errors /\ errors'[i] = errors[i])
      BY <1>0, <2>2, ErrorStep
    <3>3. \A i, j \in DOMAIN errors' : errors'[i].path = errors'[j].path => i = j
      BY <1>0, <1>4, <2>2, <3>1, ErrorStep
    <3>. QED BY <3>2, <3>3
  <2>. QED BY <2>1, <2>2
<1>6. ErrorsKnown'
  BY <1>0, <1>1, <1>2, <1>5 DEF ErrorsKnown
<1>7. \A p : p # due =>
        /\ RanAs(p)' = RanAs(p)
        /\ FailedBefore(p)' => FailedBefore(p) \/ DeclaredBefore(due, p)
        /\ FailedBefore(p) => FailedBefore(p)'
  <2>1. CASE log' = log
    BY <1>0, <2>1, LogKept
  <2>2. ASSUME NEW ev \in {"end", "refuse"}, NEW what, Log(ev, due, what)
        PROVE  <1>7!:
    BY <1>0, <2>2, EventStep
  <2>. QED BY <2>1, <2>2
<1>8. PastAccounted'
  <2> SUFFICES ASSUME NEW a \in Places, Past(a)'
               PROVE  Accounted(PathAt(a))'
    BY <1>2 DEF PastAccounted
  <2>1. CASE a = Due
    BY <1>2, <2>1
  <2>2. CASE a # Due
    <3> SUFFICES ASSUME NEW p, p = PathAt(a)
                 PROVE  Accounted(p)'
      BY <1>2
    <3>1. Past(a) /\ p # due /\ Accounted(p)
      BY <1>0, <1>1, <1>3, <2>2 DEF PastAccounted
    <3>2. /\ p[1] \in DOMAIN data' /\ p[2] \in DOMAIN data'[p[1]]
          /\ data'[p[1]][p[2]] = data[p[1]][p[2]]
      <4>1. p[1] \in DOMAIN data /\ p[2] \in DOMAIN data[p[1]]
        BY <3>1 DEF Accounted
      <4>. QED BY <1>0, <2>2, <4>1, SettleStep
    <3>3. IsMutation(p) => (FailedBefore(p)' <=> FailedBefore(p))
      BY <1>1, <1>3, <1>7, <3>1
    <3>. QED BY <1>0, <1>5, <1>7, <3>1, <3>2, <3>3, AccountedKept
  <2>. QED BY <2>1, <2>2
<1>9. TasksKnown'
  BY <1>1, <1>2 DEF TasksKnown
<1>. QED BY <1>5, <1>6, <1>8, <1>9 DEF AnswerInv

-----------------------------------------------------------------------------
(* The steps that plan and run queries *)

\* A parsed document starts with nothing run.
LEMMA ParseKeeps ==
  ASSUME RunInv, FreshInv, ParseDocument, pc' \in Running
  PROVE  DocInv' /\ LogInv' /\ AnswerInv'
<1>1. /\ pc = "parse" /\ pc' = "group" /\ ~DocumentRefused /\ world' = world
      /\ UNCHANGED <<group, aborted, data, errors, log>>
  BY DEF ParseDocument, Goto, Reply, Step, runVars, Running
<1>2. /\ group = 1 /\ ~aborted /\ errors = << >>
      /\ \A i \in DOMAIN log : log[i].ev \notin {"start", "end", "refuse"}
  BY <1>1 DEF FreshInv, RunInv, WhereInv, Asking
<1>3. DocShape /\ world \in Worlds
  BY <1>1, DocumentShape DEF RunInv, TypeOK
<1>4. /\ TheGroups' = TheGroups /\ Places' = Places /\ \A q : IsMutation(q)' <=> IsMutation(q)
      /\ DocumentRefused' <=> DocumentRefused
  BY <1>1, StaticDocument, StaticRequest
<1>5. DocInv'
  BY <1>1, <1>2, <1>3, <1>4 DEF DocInv, Planned, GroupData, DocShape
<1>6. LogInv'
  <2>1. ~Broken'
    BY <1>1, <1>2 DEF Broken, FailedCall
  <2>. QED BY <1>1, <1>2, <2>1 DEF LogInv, StartsKnown, EndsKnown, CancelsKnown
<1>7. AnswerInv'
  <2>1. \A a \in Places' : ~Past(a)' /\ ~Queried(a)'
    BY <1>1, <1>2, <1>3, <1>4, PlaceShape DEF Past, Queried
  <2>2. DOMAIN errors' = {} /\ errors' \in Seq(Range(errors'))
    BY <1>1, <1>2 DEF Range
  <2>. QED BY <2>1, <2>2 DEF AnswerInv, ErrorsKnown, PastAccounted, TasksKnown
<1>. QED BY <1>5, <1>6, <1>7

\* The queries of a group start together.
LEMMA StartGroupKeeps ==
  ASSUME RunInv, StartGroup
  PROVE  DocInv' /\ LogInv' /\ AnswerInv'
<1> DEFINE at == {Path(k) : k \in {q \in DOMAIN tasks' : tasks'[q] = "running"}}
<1>1. /\ pc = "group" /\ pc' = "queries" /\ group <= Len(TheGroups) /\ ~PlanFails(Group)
      /\ UNCHANGED <<world, group, aborted, errors>>
      /\ data' = Put(data, Group.key, << >>) /\ Log("start", at, "query")
      /\ DOMAIN tasks' = {Group.methods[i].key : i \in Selected("query")}
      /\ \A k \in DOMAIN tasks' : tasks'[k] \in {"running", "raised"}
  BY DEF StartGroup, Goto
<1> HIDE DEF at
<1>2. /\ world \in Worlds /\ Served # 0 /\ ~DocumentRefused /\ group \in 1 .. Len(TheGroups) + 1
      /\ LogSeqInv /\ StartsKnown /\ EndsKnown /\ CancelsKnown /\ (aborted <=> Broken)
      /\ errors \in Seq(Range(errors)) /\ ErrorsKnown /\ PastAccounted
  BY <1>1 DEF RunInv, TypeOK, WhereInv, DocInv, Planned, LogInv, AnswerInv, Running
<1>3. DocShape /\ group \in 1 .. Len(TheGroups) /\ group \in Nat
  BY <1>1, <1>2, DocumentShape DEF DocShape
<1>4. /\ Group' = Group /\ (PlanFails(Group)' <=> PlanFails(Group))
      /\ \A kind : Selected(kind)' = Selected(kind)
  BY <1>1, SameGroup
<1>5. /\ TheGroups' = TheGroups /\ Places' = Places
      /\ \A a : KeyAt(a)' = KeyAt(a) /\ PathAt(a)' = PathAt(a) /\ KindAt(a)' = KindAt(a)
      /\ DocumentRefused' <=> DocumentRefused
  BY <1>1, StaticDocument, StaticRequest
<1>6. /\ \A i \in DOMAIN Group.methods :
           /\ <<group, i>> \in Places /\ KeyAt(<<group, i>>) = Group.methods[i].key
           /\ PathAt(<<group, i>>) = Path(Group.methods[i].key)
      /\ \A i \in Selected("query") : i \in DOMAIN Group.methods /\ KindAt(<<group, i>>) = "query"
      /\ \A a, b \in Places : PathAt(a) = PathAt(b) => a = b
  BY <1>1, <1>2, <1>3, GroupPlaces, PlaceShape
<1>7. \A a \in Places :
        /\ ~Open(a) /\ ~Queried(a) /\ (Past(a) <=> a[1] < group) /\ (Past(a)' <=> a[1] < group)
        /\ Queried(a)' <=> a[1] = group /\ KindAt(a) = "query"
        /\ Open(a)' <=> Queried(a)' /\ tasks'[KeyAt(a)] = "running"
  BY <1>1, <1>5 DEF Open, Queried, Past
<1>8. /\ Len(log) \in Nat /\ DOMAIN log = 1 .. Len(log) /\ Len(log') = Len(log) + 1
      /\ log'[Len(log) + 1] = Event("start", at, "query")
      /\ \A i \in DOMAIN log : log'[i] = log[i]
      /\ \A i \in DOMAIN log' : i \in DOMAIN log \/ i = Len(log) + 1
  BY <1>1, <1>2, LogGrows
<1>9. DocInv'
  <2>1. Group.key \in DOMAIN data'
    BY <1>1 DEF Put
  <2>. QED BY <1>1, <1>2, <1>3, <1>4, <1>5, <2>1 DEF DocInv, Planned, GroupData
<1>10. StartsKnown'
  <2> SUFFICES ASSUME NEW i \in DOMAIN log', log'[i].ev = "start", NEW p \in log'[i].at
               PROVE  \E a \in Places :
                        /\ p = PathAt(a) /\ log'[i].what = KindAt(a) /\ (Past(a)' \/ Open(a)')
                        /\ Open(a)' \/ \E k \in i + 1 .. Len(log') :
                                         log'[k].ev = "end" /\ log'[k].at = p
    BY <1>5 DEF StartsKnown
  <2>1. CASE i \in DOMAIN log
    <3>1. PICK a \in Places :
            /\ p = PathAt(a) /\ log[i].what = KindAt(a) /\ Past(a)
            /\ \E k \in i + 1 .. Len(log) : log[k].ev = "end" /\ log[k].at = p
      BY <1>2, <1>7, <1>8, <2>1 DEF StartsKnown
    <3>2. PICK k \in i + 1 .. Len(log) : log[k].ev = "end" /\ log[k].at = p
      BY <3>1
    <3>3. k \in DOMAIN log /\ k \in i + 1 .. Len(log')
      BY <1>8, <2>1
    <3>. QED BY <1>7, <1>8, <2>1, <3>1, <3>2, <3>3
  <2>2. CASE i = Len(log) + 1
    <3>1. p \in at /\ log'[i].what = "query"
      BY <1>8, <2>2 DEF Event
    <3>2. PICK k \in DOMAIN tasks' : tasks'[k] = "running" /\ p = Path(k)
      BY <3>1 DEF at
    <3>3. PICK j \in Selected("query") : k = Group.methods[j].key
      BY <1>1
    <3>4. /\ <<group, j>> \in Places /\ PathAt(<<group, j>>) = p /\ KeyAt(<<group, j>>) = k
          /\ KindAt(<<group, j>>) = "query" /\ <<group, j>>[1] = group
      BY <1>6, <3>2, <3>3
    <3>. QED BY <1>7, <3>1, <3>2, <3>4
  <2>. QED BY <1>8, <2>1, <2>2
<1>11. EndsKnown' /\ CancelsKnown'
  <2>1. \A i \in DOMAIN log' : log'[i].ev \in {"end", "refuse"} => i \in DOMAIN log /\ log'[i] = log[i]
    BY <1>8 DEF Event
  <2>2. EndsKnown'
    BY <1>2, <1>5, <1>7, <2>1 DEF EndsKnown
  <2>3. CancelsKnown'
    BY <1>1, <1>2, <2>1 DEF CancelsKnown
  <2>. QED BY <2>2, <2>3
<1>12. LogInv'
  <2>1. Broken' <=> Broken
    BY <1>1, <1>2, EventStep DEF FailedCall, Event
  <2>. QED BY <1>1, <1>2, <1>10, <1>11, <2>1 DEF LogInv
<1>13. \A p : RanAs(p)' = RanAs(p) /\ CodesAt(p)' = CodesAt(p) /\ (FailedBefore(p)' <=> FailedBefore(p))
  <2>1. ~FailedCall(Event("start", at, "query"))
    BY DEF FailedCall, Event
  <2>2. \A p : RanAs(p)' = RanAs(p) /\ (FailedBefore(p)' <=> FailedBefore(p))
    <3>1. /\ \A p : RanAs(p)' = RanAs(p) \cup (IF "start" = "end" /\ at = p THEN {"query"} ELSE {})
          /\ \A p : FailedBefore(p)' <=>
               \/ FailedBefore(p)
               \/ FailedCall(Event("start", at, "query")) /\ IsMutation(at) /\ DeclaredBefore(at, p)
      BY <1>1, <1>2, EventStep
    <3>. QED BY <2>1, <3>1
  <2>3. \A p : CodesAt(p)' = CodesAt(p)
    BY <1>1 DEF CodesAt
  <2>. QED BY <2>2, <2>3
<1>14. PastAccounted'
  <2> SUFFICES ASSUME NEW a \in Places, a[1] < group, NEW p, p = PathAt(a)
               PROVE  Accounted(p)'
    BY <1>5, <1>7 DEF PastAccounted
  <2>1. Accounted(p)
    BY <1>2, <1>7 DEF PastAccounted
  <2>2. p[1] # Group.key
    BY <1>3, PlaceShape DEF PathAt, DocShape, Group
  <2>3. /\ p[1] \in DOMAIN data' /\ p[2] \in DOMAIN data'[p[1]]
        /\ data'[p[1]][p[2]] = data[p[1]][p[2]]
    BY <1>1, <2>1, <2>2 DEF Accounted, Put
  <2>. QED BY <1>1, <1>13, <2>1, <2>3, AccountedKept
<1>15. TasksKnown'
  <2> SUFFICES ASSUME NEW a \in Places, Queried(a)', NEW p, p = PathAt(a)
               PROVE  tasks'[KeyAt(a)] \notin Results /\ RanAs(p)' \cap Results = {}
    BY <1>5 DEF TasksKnown
  <2>1. a[1] = group /\ KindAt(a) = "query"
    BY <1>7
  <2>2. KeyAt(a) \in DOMAIN tasks'
    BY <1>1, <1>2, <1>3, <2>1, GroupPlaces
  <2>3. tasks'[KeyAt(a)] \notin Results
    BY <1>1, <2>2 DEF Results
  <2>4. ~Past(a)
    BY <1>3, <1>7, <2>1
  <2>5. RanAs(p) = {}
    BY <1>2, <1>6, <1>7, <2>4 DEF RanAs, EndsKnown
  <2>. QED BY <1>13, <2>3, <2>5
<1>16. ErrorsKnown'
  BY <1>1, <1>2, <1>5, <1>7 DEF ErrorsKnown
<1>. QED BY <1>1, <1>2, <1>9, <1>12, <1>14, <1>15, <1>16 DEF AnswerInv

\* A query that ends fills its task.
LEMMA QueryEndsKeeps ==
  ASSUME RunInv, NEW k \in DOMAIN tasks, NEW result \in Ends \cup {"cancelled"},
         QueryEnds(k, result)
  PROVE  DocInv' /\ LogInv' /\ AnswerInv'
<1> DEFINE outcome == IF result \in Results THEN Projected(Sel(k), result) ELSE result
<1>1. outcome \in Results \cup {"raised", "cancelled"}
  BY OutcomeType
<1>2. /\ pc \in {"queries", "unwinding"} /\ tasks[k] = "running"
      /\ tasks' = [tasks EXCEPT ![k] = outcome] /\ Log("end", Path(k), outcome)
      /\ UNCHANGED <<world, pc, group, aborted, data, errors>>
  BY DEF QueryEnds
<1> HIDE DEF outcome
<1>3. /\ TypeOK /\ WhereInv /\ LogSeqInv /\ DocInv /\ Planned /\ GroupData
      /\ StartsKnown /\ EndsKnown /\ CancelsKnown /\ (aborted <=> Broken)
      /\ errors \in Seq(Range(errors)) /\ ErrorsKnown /\ PastAccounted /\ TasksKnown
      /\ pc \in Running /\ pc # "group"
  BY <1>2 DEF RunInv, DocInv, LogInv, AnswerInv, Running
<1>4. /\ Group' = Group /\ (PlanFails(Group)' <=> PlanFails(Group))
      /\ \A kind : Selected(kind)' = Selected(kind)
  BY <1>2, SameGroup
<1>5. /\ TheGroups' = TheGroups /\ Places' = Places
      /\ \A a : KeyAt(a)' = KeyAt(a) /\ PathAt(a)' = PathAt(a) /\ KindAt(a)' = KindAt(a)
      /\ DocumentRefused' <=> DocumentRefused
  BY <1>2, StaticDocument, StaticRequest
<1>6. DocShape /\ \A a, b \in Places : PathAt(a) = PathAt(b) => a = b
  BY <1>3, InGroup, PlaceShape
<1>7. PICK i0 \in Selected("query") : k = Group.methods[i0].key
  BY <1>2, <1>3 DEF GroupData
<1>8. PICK a0 \in Places : Queried(a0) /\ KeyAt(a0) = k /\ PathAt(a0) = Path(k)
  <2>1. /\ <<group, i0>> \in Places /\ KeyAt(<<group, i0>>) = k
        /\ PathAt(<<group, i0>>) = Path(k) /\ KindAt(<<group, i0>>) = "query"
    BY <1>3, <1>7, InGroup
  <2>. QED BY <1>2, <2>1 DEF Queried
<1>9. ASSUME NEW a \in Places
      PROVE  /\ (Past(a)' <=> Past(a)) /\ (Queried(a)' <=> Queried(a))
             /\ Queried(a) => KeyAt(a) \in DOMAIN tasks /\ (KeyAt(a) = k <=> a = a0)
             /\ Queried(a) /\ a # a0 => tasks'[KeyAt(a)] = tasks[KeyAt(a)]
             /\ (Open(a) <=> Queried(a) /\ tasks[KeyAt(a)] = "running")
             /\ (Open(a)' <=> Open(a) /\ a # a0)
             /\ (Past(a) => ~Queried(a))
  <2>1. (Past(a)' <=> Past(a)) /\ (Queried(a)' <=> Queried(a))
    BY <1>2, <1>4, <1>5 DEF Past, Queried
  <2>2. Queried(a) => KeyAt(a) \in DOMAIN tasks
    BY <1>2, <1>3, InGroup DEF Queried, GroupData
  <2>3. Queried(a) => (KeyAt(a) = k <=> a = a0)
    BY <1>3, <1>8, InGroup DEF Queried
  <2>4. Queried(a) /\ a # a0 => tasks'[KeyAt(a)] = tasks[KeyAt(a)]
    BY <1>2, <2>2, <2>3
  <2>5. Open(a) <=> Queried(a) /\ tasks[KeyAt(a)] = "running"
    BY <1>2 DEF Open
  <2>6. Open(a)' <=> Queried(a)' /\ tasks'[KeyAt(a)] = "running"
    BY <1>2, <1>5 DEF Open
  <2>7. tasks'[k] # "running"
    BY <1>1, <1>2 DEF Results
  <2>8. Open(a)' <=> Open(a) /\ a # a0
    BY <1>8, <2>1, <2>4, <2>5, <2>6, <2>7
  <2>9. Past(a) => ~Queried(a)
    BY <1>2, <1>3, InGroup DEF Past, Queried
  <2>. QED BY <2>1, <2>2, <2>3, <2>4, <2>5, <2>8, <2>9
<1>10. Open(a0) /\ ~Past(a0) /\ KindAt(a0) = "query"
  BY <1>2, <1>8, <1>9 DEF Queried
<1>11. /\ Len(log) \in Nat /\ DOMAIN log = 1 .. Len(log) /\ Len(log') = Len(log) + 1
       /\ log'[Len(log) + 1].ev = "end" /\ log'[Len(log) + 1].at = PathAt(a0)
       /\ log'[Len(log) + 1].what = outcome
       /\ Len(log) + 1 \in DOMAIN log'
       /\ \A i \in DOMAIN log : log'[i] = log[i]
       /\ \A i \in DOMAIN log' : i \in DOMAIN log \/ i = Len(log) + 1
  BY <1>2, <1>3, <1>8, LogGrows
<1>12. DocInv'
  <2>1. DOMAIN tasks' = DOMAIN tasks
    BY <1>2
  <2>. QED BY <1>2, <1>3, <1>4, <1>5, <2>1 DEF DocInv, Planned, GroupData
<1>13. StartsKnown'
  <2> SUFFICES ASSUME NEW i \in DOMAIN log', log'[i].ev = "start", NEW p \in log'[i].at
               PROVE  \E a \in Places :
                        /\ p = PathAt(a) /\ log'[i].what = KindAt(a) /\ (Past(a)' \/ Queried(a)')
                        /\ Open(a)' \/ \E m \in i + 1 .. Len(log') :
                                         log'[m].ev = "end" /\ log'[m].at = p
    BY <1>5 DEF StartsKnown
  <2>1. i \in DOMAIN log /\ log'[i] = log[i]
    BY <1>11
  <2>2. PICK a \in Places :
          /\ p = PathAt(a) /\ log[i].what = KindAt(a) /\ (Past(a) \/ Queried(a))
          /\ Open(a) \/ \E m \in i + 1 .. Len(log) : log[m].ev = "end" /\ log[m].at = p
    BY <1>3, <1>9, <2>1 DEF StartsKnown
  <2>3. Past(a)' \/ Queried(a)'
    BY <1>9, <2>2
  <2>4. CASE Open(a) /\ a # a0
    BY <1>9, <2>1, <2>2, <2>3, <2>4
  <2>5. CASE a = a0
    <3>1. Len(log) + 1 \in i + 1 .. Len(log')
      BY <1>11, <2>1
    <3>. QED BY <1>11, <2>1, <2>2, <2>3, <2>5, <3>1
  <2>6. CASE \E m \in i + 1 .. Len(log) : log[m].ev = "end" /\ log[m].at = p
    <3>1. PICK m \in i + 1 .. Len(log) : log[m].ev = "end" /\ log[m].at = p
      BY <2>6
    <3>2. m \in DOMAIN log /\ m \in i + 1 .. Len(log')
      BY <1>11, <2>1
    <3>. QED BY <1>11, <2>1, <2>2, <2>3, <3>1, <3>2
  <2>. QED BY <2>2, <2>4, <2>5, <2>6
<1>14. EndsKnown'
  <2> SUFFICES ASSUME NEW i \in DOMAIN log', log'[i].ev \in {"end", "refuse"}
               PROVE  \E a \in Places : log'[i].at = PathAt(a) /\ (Past(a)' \/ (Queried(a)' /\ ~Open(a)'))
    BY <1>5 DEF EndsKnown
  <2>1. CASE i \in DOMAIN log
    BY <1>3, <1>9, <1>11, <2>1 DEF EndsKnown
  <2>2. CASE i = Len(log) + 1
    BY <1>8, <1>9, <1>11, <2>2
  <2>. QED BY <1>11, <2>1, <2>2
<1>15. CancelsKnown'
  <2> SUFFICES ASSUME NEW i \in DOMAIN log', log'[i].ev \in {"end", "refuse"},
                      log'[i].what = "cancelled"
               PROVE  \E q \in DOMAIN tasks' : tasks'[q] = "cancelled"
    BY <1>2 DEF CancelsKnown, Range
  <2>1. CASE i \in DOMAIN log
    <3>1. PICK q \in DOMAIN tasks : tasks[q] = "cancelled"
      BY <1>3, <1>11, <2>1 DEF CancelsKnown, Range
    <3>. QED BY <1>2, <3>1
  <2>2. CASE i = Len(log) + 1
    BY <1>2, <1>11, <2>2
  <2>. QED BY <1>11, <2>1, <2>2
<1>16. ~IsMutation(PathAt(a0))
  BY <1>6, <1>10, PathFacts
<1>17. /\ Broken' <=> Broken
       /\ \A p : /\ RanAs(p)' = RanAs(p) \cup (IF p = PathAt(a0) THEN {outcome} ELSE {})
                 /\ CodesAt(p)' = CodesAt(p) /\ (FailedBefore(p)' <=> FailedBefore(p))
  <2>1. \A p : CodesAt(p)' = CodesAt(p)
    BY <1>2 DEF CodesAt
  <2>2. /\ Broken' <=> Broken
        /\ \A p : /\ RanAs(p)' = RanAs(p) \cup (IF p = PathAt(a0) THEN {outcome} ELSE {})
                  /\ FailedBefore(p)' <=> FailedBefore(p)
    BY <1>2, <1>3, <1>8, <1>16, EventStep
  <2>. QED BY <2>1, <2>2
<1>18. LogInv'
  BY <1>2, <1>3, <1>13, <1>14, <1>15, <1>17 DEF LogInv
<1>19. PastAccounted'
  <2> SUFFICES ASSUME NEW a \in Places, Past(a), NEW p, p = PathAt(a)
               PROVE  Accounted(p)'
    BY <1>5, <1>9 DEF PastAccounted
  <2>1. Accounted(p) /\ p # PathAt(a0)
    BY <1>3, <1>6, <1>10 DEF PastAccounted
  <2>2. /\ p[1] \in DOMAIN data' /\ p[2] \in DOMAIN data'[p[1]]
        /\ data'[p[1]][p[2]] = data[p[1]][p[2]]
    BY <1>2, <2>1 DEF Accounted
  <2>. QED BY <1>2, <1>17, <2>1, <2>2, AccountedKept
<1>20. RanAs(PathAt(a0)) = {}
  BY <1>3, <1>6, <1>10 DEF RanAs, EndsKnown
<1>21. TasksKnown'
  <2> SUFFICES ASSUME NEW a \in Places, Queried(a), NEW p, p = PathAt(a)
               PROVE  /\ tasks'[KeyAt(a)] \in Results => RanAs(p)' = {tasks'[KeyAt(a)]}
                      /\ tasks'[KeyAt(a)] \notin Results => RanAs(p)' \cap Results = {}
    BY <1>5, <1>9 DEF TasksKnown
  <2>1. CASE a = a0
    <3>1. tasks'[KeyAt(a)] = outcome /\ RanAs(p)' = {outcome}
      BY <1>2, <1>8, <1>17, <1>20, <2>1
    <3>. QED BY <3>1
  <2>2. CASE a # a0
    <3>1. tasks'[KeyAt(a)] = tasks[KeyAt(a)] /\ RanAs(p)' = RanAs(p)
      BY <1>6, <1>9, <1>17, <2>2
    <3>. QED BY <1>3, <3>1 DEF TasksKnown
  <2>. QED BY <2>1, <2>2
<1>22. ErrorsKnown'
  BY <1>2, <1>3, <1>5, <1>9 DEF ErrorsKnown
<1>. QED BY <1>2, <1>3, <1>12, <1>18, <1>19, <1>21, <1>22 DEF AnswerInv

\* What stands where in a concatenation.
LEMMA ConcatSeq ==
  ASSUME NEW s, s \in Seq(Range(s)), NEW m \in Nat, NEW u, u = [i \in 1 .. m |-> u[i]]
  PROVE  /\ Len(s) \in Nat /\ DOMAIN s = 1 .. Len(s) /\ DOMAIN u = 1 .. m
         /\ s \o u \in Seq(Range(s \o u)) /\ DOMAIN (s \o u) = 1 .. Len(s) + m
         /\ \A i \in 1 .. Len(s) : (s \o u)[i] = s[i]
         /\ \A k \in 1 .. m : (s \o u)[Len(s) + k] = u[k]
<1> DEFINE U == Range(s) \cup Range(u)
           t == s \o u
<1>1. DOMAIN u = 1 .. m /\ \A i \in 1 .. m : u[i] \in U
  BY DEF Range
<1>2. Range(s) \subseteq U
  OBVIOUS
<1>. HIDE DEF U
<1>3. u \in [1 .. m -> U]
  BY <1>1
<1>4. u \in Seq(U) /\ Len(u) = m
  BY <1>3
<1>5. s \in Seq(U)
  BY <1>2
<1>6. t \in Seq(U) /\ Len(t) = Len(s) + m
  BY <1>4, <1>5
<1>7. \A i \in 1 .. Len(t) : t[i] = IF i <= Len(s) THEN s[i] ELSE u[i - Len(s)]
  BY <1>4, <1>5
<1>8. Len(s) \in Nat /\ DOMAIN s = 1 .. Len(s) /\ DOMAIN t = 1 .. Len(t)
  BY <1>5, <1>6
<1>. HIDE DEF t
<1>9. t \in Seq(Range(t))
  <2>1. \A i \in 1 .. Len(t) : t[i] \in Range(t)
    BY <1>8 DEF Range
  <2>. QED BY <1>6, <2>1
<1>10. \A i \in 1 .. Len(s) : t[i] = s[i]
  <2> TAKE i \in 1 .. Len(s)
  <2>1. i \in 1 .. Len(t) /\ i <= Len(s)
    BY <1>6, <1>8
  <2>. QED BY <1>7, <2>1
<1>11. \A k \in 1 .. m : t[Len(s) + k] = u[k]
  <2> TAKE k \in 1 .. m
  <2>1. Len(s) + k \in 1 .. Len(t) /\ ~(Len(s) + k <= Len(s)) /\ (Len(s) + k) - Len(s) = k
    BY <1>6, <1>8
  <2>2. t[Len(s) + k] = u[(Len(s) + k) - Len(s)]
    BY <1>7, <2>1
  <2>. QED BY <2>1, <2>2
<1>12. DOMAIN t = 1 .. Len(s) + m
  BY <1>6, <1>8
<1>. QED BY <1>1, <1>8, <1>9, <1>10, <1>11, <1>12 DEF t

\* The errors of the queries that failed: one each, behind the earlier errors.
LEMMA FailedQueries ==
  ASSUME errors \in Seq(Range(errors)), Group.methods \in Seq(Range(Group.methods)),
         \A i, j \in DOMAIN Group.methods : Group.methods[i].key = Group.methods[j].key => i = j,
         NEW I \in SUBSET DOMAIN Group.methods, NEW c,
         errors' = errors \o [i \in DOMAIN Pick(Group.methods, I) |->
                                Error(Path(Pick(Group.methods, I)[i].key), c)]
  PROVE  /\ errors' \in Seq(Range(errors'))
         /\ \A i \in DOMAIN errors : i \in DOMAIN errors' /\ errors'[i] = errors[i]
         /\ \A i \in DOMAIN errors' : i \in DOMAIN errors
              \/ \E j \in I : errors'[i] = Error(Path(Group.methods[j].key), c)
         /\ \A j \in I : \E i \in DOMAIN errors' : errors'[i] = Error(Path(Group.methods[j].key), c)
         /\ \A i, j \in DOMAIN errors' : i \notin DOMAIN errors /\ j \notin DOMAIN errors
              /\ errors'[i].path = errors'[j].path => i = j
<1> DEFINE failed == Pick(Group.methods, I)
           new == [i \in DOMAIN failed |-> Error(Path(failed[i].key), c)]
           n == Len(errors)
<1>1. /\ Cardinality(I) \in Nat /\ DOMAIN failed = 1 .. Cardinality(I)
      /\ \A k \in DOMAIN failed : Nth(I, k) \in I /\ failed[k] = Group.methods[Nth(I, k)]
      /\ \A k, l \in DOMAIN failed : k < l => Nth(I, k) < Nth(I, l)
      /\ \A i \in I : \E k \in DOMAIN failed : Nth(I, k) = i
  BY PickIsSubsequence
<1> DEFINE m == Cardinality(I)
<1>2. m \in Nat /\ DOMAIN failed = 1 .. m
  BY <1>1
<1>3. \A k \in 1 .. m :
        Nth(I, k) \in I /\ new[k] = Error(Path(Group.methods[Nth(I, k)].key), c)
  BY <1>1, <1>2
<1>4. new = [i \in 1 .. m |-> new[i]] /\ errors' = errors \o new
  BY <1>2
<1>5. /\ \A k, l \in 1 .. m : k < l => Nth(I, k) < Nth(I, l)
      /\ \A i \in I : \E k \in 1 .. m : Nth(I, k) = i
  BY <1>1, <1>2
<1>. HIDE DEF new, failed, m
<1>6. /\ n \in Nat /\ DOMAIN errors = 1 .. n /\ errors' \in Seq(Range(errors'))
      /\ DOMAIN errors' = 1 .. n + m
      /\ \A i \in 1 .. n : errors'[i] = errors[i]
      /\ \A k \in 1 .. m : errors'[n + k] = new[k]
  <2>1. /\ n \in Nat /\ DOMAIN errors = 1 .. n /\ errors \o new \in Seq(Range(errors \o new))
        /\ DOMAIN (errors \o new) = 1 .. n + m
        /\ \A i \in 1 .. n : (errors \o new)[i] = errors[i]
        /\ \A k \in 1 .. m : (errors \o new)[n + k] = new[k]
    BY <1>2, <1>4, ConcatSeq
  <2>. QED BY <1>4, <2>1
<1>a. \A i \in DOMAIN errors' : i \notin DOMAIN errors =>
        i - n \in 1 .. m /\ i = n + (i - n) /\ errors'[i] = new[i - n]
  <2> TAKE i \in DOMAIN errors'
  <2>1. i \notin DOMAIN errors => i - n \in 1 .. m /\ i = n + (i - n)
    BY <1>2, <1>6
  <2>. QED BY <1>6, <2>1
<1>7. \A i \in DOMAIN errors : i \in DOMAIN errors' /\ errors'[i] = errors[i]
  BY <1>2, <1>6
<1>8. ASSUME NEW i \in DOMAIN errors', i \notin DOMAIN errors
      PROVE  \E j \in I : errors'[i] = Error(Path(Group.methods[j].key), c)
  <2>1. PICK k \in 1 .. m : errors'[i] = new[k]
    BY <1>a, <1>8
  <2>. QED BY <1>3, <2>1
<1>9. ASSUME NEW j \in I
      PROVE  \E i \in DOMAIN errors' : errors'[i] = Error(Path(Group.methods[j].key), c)
  <2>1. PICK k \in 1 .. m : Nth(I, k) = j
    BY <1>5
  <2>2. n + k \in DOMAIN errors'
    BY <1>2, <1>6
  <2>3. errors'[n + k] = Error(Path(Group.methods[j].key), c)
    BY <1>3, <1>6, <2>1
  <2>. QED BY <2>2, <2>3
<1>10. ASSUME NEW i \in DOMAIN errors', NEW j \in DOMAIN errors', i \notin DOMAIN errors,
              j \notin DOMAIN errors, errors'[i].path = errors'[j].path
       PROVE  i = j
  <2> DEFINE k == i - n
             l == j - n
  <2>1. k \in 1 .. m /\ l \in 1 .. m /\ i = n + k /\ j = n + l
    BY <1>a, <1>10
  <2>2. /\ errors'[i] = Error(Path(Group.methods[Nth(I, k)].key), c)
        /\ errors'[j] = Error(Path(Group.methods[Nth(I, l)].key), c)
    BY <1>3, <1>a, <1>10, <2>1
  <2>3. Group.methods[Nth(I, k)].key = Group.methods[Nth(I, l)].key
    <3>1. Path(Group.methods[Nth(I, k)].key) = Path(Group.methods[Nth(I, l)].key)
      BY <1>10, <2>2 DEF Error
    <3>. QED BY <3>1 DEF Path
  <2>4. Nth(I, k) \in I /\ Nth(I, l) \in I
    BY <1>3, <2>1
  <2>5. Nth(I, k) = Nth(I, l) /\ Nth(I, k) \in Int
    BY <2>3, <2>4
  <2>6. ~(Nth(I, k) < Nth(I, l)) /\ ~(Nth(I, l) < Nth(I, k))
    BY <2>5
  <2>7. ~(k < l) /\ ~(l < k)
    BY <1>5, <2>1, <2>6
  <2>8. k = l
    BY <1>2, <2>1, <2>7
  <2>. QED BY <2>1, <2>8
<1>. QED BY <1>6, <1>7, <1>8, <1>9, <1>10

\* Gathering accounts for all queries of the group.
LEMMA GatherKeeps ==
  ASSUME RunInv, Gather, pc = "queries", Settled, "cancelled" \notin Range(tasks)
  PROVE  DocInv' /\ LogInv' /\ AnswerInv'
<1> DEFINE I == {i \in Selected("query") : tasks[Group.methods[i].key] = "raised"}
<1>1. /\ pc' = "mutations" /\ UNCHANGED <<world, group, tasks, aborted, log>>
      /\ data' = [data EXCEPT ![Group.key] = [k \in DOMAIN tasks |-> Value(tasks[k])]]
      /\ errors' = errors \o [i \in DOMAIN Pick(Group.methods, I) |->
                               Error(Path(Pick(Group.methods, I)[i].key), "QUERY_FAILED")]
  BY DEF Gather, Goto
<1>2. /\ TypeOK /\ WhereInv /\ LogSeqInv /\ DocInv /\ Planned /\ GroupData
      /\ StartsKnown /\ EndsKnown /\ CancelsKnown /\ (aborted <=> Broken)
      /\ errors \in Seq(Range(errors)) /\ ErrorsKnown /\ PastAccounted /\ TasksKnown
      /\ pc \in Running /\ pc # "group"
  BY DEF RunInv, DocInv, LogInv, AnswerInv, Running
<1>3. /\ Group' = Group /\ (PlanFails(Group)' <=> PlanFails(Group))
      /\ \A kind : Selected(kind)' = Selected(kind)
  BY <1>1, SameGroup
<1>4. /\ TheGroups' = TheGroups /\ Places' = Places
      /\ \A a : KeyAt(a)' = KeyAt(a) /\ PathAt(a)' = PathAt(a) /\ KindAt(a)' = KindAt(a)
      /\ DocumentRefused' <=> DocumentRefused
  BY <1>1, StaticDocument, StaticRequest
<1>5. /\ DocShape /\ group \in DOMAIN TheGroups /\ group \in Nat
      /\ \A a, b \in Places : PathAt(a) = PathAt(b) => a = b
      /\ Group.methods \in Seq(Range(Group.methods))
      /\ \A i, j \in DOMAIN Group.methods : Group.methods[i].key = Group.methods[j].key => i = j
      /\ I \in SUBSET DOMAIN Group.methods
  <2>1. DocShape /\ group \in DOMAIN TheGroups /\ group \in Nat
    BY <1>2, InGroup
  <2>2. I \in SUBSET DOMAIN Group.methods
    BY DEF Selected
  <2>. QED BY <2>1, <2>2, PlaceShape DEF DocShape, Group
<1>6. /\ DOMAIN data' = DOMAIN data /\ Group.key \in DOMAIN data
      /\ \A g \in DOMAIN data : g # Group.key => data'[g] = data[g]
      /\ DOMAIN data'[Group.key] = DOMAIN tasks
      /\ \A k \in DOMAIN tasks : data'[Group.key][k] = Value(tasks[k])
      /\ DOMAIN tasks = {Group.methods[i].key : i \in Selected("query")}
  <2>1. Group.key \in DOMAIN data /\ DOMAIN tasks = {Group.methods[i].key : i \in Selected("query")}
    BY <1>2 DEF Planned, GroupData
  <2>. QED BY <1>1, <2>1
<1>7. ASSUME NEW a \in Places
      PROVE  /\ Queried(a) <=> a[1] = group /\ KindAt(a) = "query"
             /\ Queried(a) => KeyAt(a) \in DOMAIN tasks
             /\ Past(a) <=> a[1] < group
             /\ Past(a)' <=> Past(a) \/ Queried(a)
             /\ ~Open(a) /\ ~Open(a)' /\ ~Queried(a)'
             /\ Past(a) => ~Queried(a)
  <2>1. Queried(a) <=> a[1] = group /\ KindAt(a) = "query"
    BY DEF Queried
  <2>2. a[1] = group => (KeyAt(a) \in DOMAIN tasks <=> KindAt(a) = "query")
    <3> SUFFICES ASSUME a[1] = group
                 PROVE  KeyAt(a) \in DOMAIN tasks <=> KindAt(a) = "query"
      OBVIOUS
    <3>1. KindAt(a) = "query" => KeyAt(a) \in DOMAIN tasks
      BY <1>2, <1>6, InGroup
    <3>2. ASSUME KeyAt(a) \in DOMAIN tasks
          PROVE  KindAt(a) = "query"
      <4>1. PICK i \in Selected("query") : KeyAt(a) = Group.methods[i].key
        BY <1>6, <3>2
      <4>2. <<group, i>> \in Places /\ KeyAt(<<group, i>>) = KeyAt(a) /\ <<group, i>>[1] = group
            /\ KindAt(<<group, i>>) = "query"
        BY <1>2, <4>1, InGroup
      <4>3. a = <<group, i>>
        BY <1>2, <4>2, InGroup
      <4>. QED BY <4>2, <4>3
    <3>. QED BY <3>1, <3>2
  <2>3. Past(a) <=> a[1] < group
    BY DEF Past
  <2>4. Past(a)' <=> Past(a) \/ Queried(a)
    BY <1>1, <1>3, <1>4, <1>6, <2>1, <2>2, <2>3 DEF Past
  <2>5. Queried(a) => tasks[KeyAt(a)] # "running"
    BY <2>1, <2>2 DEF Settled
  <2>6. ~Open(a) /\ ~Open(a)' /\ ~Queried(a)'
    BY <1>1, <2>5 DEF Open, Queried
  <2>7. Past(a) => ~Queried(a)
    BY <1>5, <2>1, <2>3
  <2>. QED BY <2>1, <2>2, <2>3, <2>4, <2>6, <2>7
<1>8. DocInv'
  <2>1. Planned'
    BY <1>1, <1>2, <1>3, <1>4, <1>6 DEF Planned
  <2>2. \A j \in Selected("mutation") : Group.methods[j].key \notin DOMAIN tasks
    <3> SUFFICES ASSUME NEW j \in Selected("mutation"), NEW i \in Selected("query"),
                        Group.methods[j].key = Group.methods[i].key
                 PROVE  FALSE
      BY <1>6
    <3>1. i = j
      BY <1>5 DEF Selected
    <3>. QED BY <3>1 DEF Selected
  <2>3. GroupData'
    BY <1>1, <1>3, <1>6, <2>2 DEF GroupData
  <2>. QED BY <2>1, <2>3 DEF DocInv
<1>9. LogInv'
  <2>1. StartsKnown'
    <3> SUFFICES ASSUME NEW i \in DOMAIN log, log[i].ev = "start", NEW p \in log[i].at
                 PROVE  \E a \in Places :
                          /\ p = PathAt(a) /\ log[i].what = KindAt(a) /\ Past(a)'
                          /\ \E k \in i + 1 .. Len(log) : log[k].ev = "end" /\ log[k].at = p
      <4>1. log' = log /\ Places' = Places
            /\ \A a : PathAt(a)' = PathAt(a) /\ KindAt(a)' = KindAt(a)
        BY <1>1, <1>4
      <4>. QED BY <4>1 DEF StartsKnown
    <3>1. PICK a \in Places :
            /\ p = PathAt(a) /\ log[i].what = KindAt(a) /\ (Past(a) \/ Open(a) \/ Queried(a))
            /\ Open(a) \/ \E k \in i + 1 .. Len(log) : log[k].ev = "end" /\ log[k].at = p
      BY <1>2 DEF StartsKnown
    <3>. QED BY <1>7, <3>1
  <2>2. EndsKnown'
    BY <1>1, <1>2, <1>4, <1>7 DEF EndsKnown
  <2>3. CancelsKnown'
    BY <1>1, <1>2 DEF CancelsKnown
  <2>4. Broken' <=> Broken
    BY <1>1, LogKept
  <2>. QED BY <1>1, <1>2, <2>1, <2>2, <2>3, <2>4 DEF LogInv
<1>10. /\ errors' \in Seq(Range(errors'))
       /\ \A i \in DOMAIN errors : i \in DOMAIN errors' /\ errors'[i] = errors[i]
       /\ \A i \in DOMAIN errors' : i \in DOMAIN errors
            \/ \E j \in I : errors'[i] = Error(Path(Group.methods[j].key), "QUERY_FAILED")
       /\ \A j \in I : \E i \in DOMAIN errors' :
            errors'[i] = Error(Path(Group.methods[j].key), "QUERY_FAILED")
       /\ \A i, j \in DOMAIN errors' : i \notin DOMAIN errors /\ j \notin DOMAIN errors
            /\ errors'[i].path = errors'[j].path => i = j
  <2> HIDE DEF I
  <2>. QED BY <1>1, <1>2, <1>5, FailedQueries
<1>11. \A i \in DOMAIN errors' : i \notin DOMAIN errors =>
         \E a \in Places : /\ Queried(a) /\ tasks[KeyAt(a)] = "raised"
                           /\ errors'[i].path = PathAt(a) /\ errors'[i].code = "QUERY_FAILED"
  <2> SUFFICES ASSUME NEW i \in DOMAIN errors', i \notin DOMAIN errors
               PROVE  \E a \in Places :
                        /\ Queried(a) /\ tasks[KeyAt(a)] = "raised"
                        /\ errors'[i].path = PathAt(a) /\ errors'[i].code = "QUERY_FAILED"
    OBVIOUS
  <2>1. PICK j \in I : errors'[i] = Error(Path(Group.methods[j].key), "QUERY_FAILED")
    BY <1>10
  <2>2. /\ <<group, j>> \in Places /\ KeyAt(<<group, j>>) = Group.methods[j].key
        /\ PathAt(<<group, j>>) = Path(Group.methods[j].key) /\ KindAt(<<group, j>>) = "query"
        /\ <<group, j>>[1] = group
    BY <1>2, InGroup
  <2>. QED BY <1>7, <2>1, <2>2 DEF Error
<1>12. ErrorsKnown'
  <2>1. \A i \in DOMAIN errors' : \E a \in Places : errors'[i].path = PathAt(a) /\ Past(a)'
    BY <1>2, <1>7, <1>10, <1>11 DEF ErrorsKnown
  <2>2. ASSUME NEW i \in DOMAIN errors', NEW j \in DOMAIN errors', errors'[i].path = errors'[j].path
        PROVE  i = j
    <3>1. CASE i \in DOMAIN errors /\ j \in DOMAIN errors
      BY <1>2, <1>10, <2>2, <3>1 DEF ErrorsKnown
    <3>2. CASE i \notin DOMAIN errors /\ j \notin DOMAIN errors
      BY <1>10, <2>2, <3>2
    <3>3. \A k \in DOMAIN errors, l \in DOMAIN errors' :
            l \notin DOMAIN errors => errors'[k].path # errors'[l].path
      <4> SUFFICES ASSUME NEW k \in DOMAIN errors, NEW l \in DOMAIN errors', l \notin DOMAIN errors
                   PROVE  errors'[k].path # errors'[l].path
        OBVIOUS
      <4>1. PICK a \in Places : errors'[k].path = PathAt(a) /\ Past(a)
        BY <1>2, <1>10 DEF ErrorsKnown
      <4>2. PICK b \in Places : errors'[l].path = PathAt(b) /\ Queried(b)
        BY <1>11
      <4>. QED BY <1>5, <1>7, <4>1, <4>2
    <3>. QED BY <2>2, <3>1, <3>2, <3>3
  <2>. QED BY <1>4, <2>1, <2>2 DEF ErrorsKnown
<1>13. ASSUME NEW a \in Places, Past(a), NEW p, p = PathAt(a)
       PROVE  CodesAt(p)' = CodesAt(p)
  <2>1. \A i \in DOMAIN errors' : i \notin DOMAIN errors => errors'[i].path # p
    BY <1>5, <1>7, <1>11, <1>13
  <2>. QED BY <1>10, <2>1 DEF CodesAt
<1>14. ASSUME NEW a \in Places, Queried(a), NEW p, p = PathAt(a)
       PROVE  CodesAt(p)' = IF tasks[KeyAt(a)] = "raised" THEN {"QUERY_FAILED"} ELSE {}
  <2>1. \A i \in DOMAIN errors : errors'[i].path # p
    BY <1>2, <1>5, <1>7, <1>10, <1>14 DEF ErrorsKnown
  <2>2. \A i \in DOMAIN errors' : errors'[i].path = p =>
          tasks[KeyAt(a)] = "raised" /\ errors'[i].code = "QUERY_FAILED"
    BY <1>5, <1>11, <1>14, <2>1
  <2>3. ASSUME tasks[KeyAt(a)] = "raised"
        PROVE  \E i \in DOMAIN errors' : errors'[i].path = p /\ errors'[i].code = "QUERY_FAILED"
    <3>1. a[2] \in I /\ Path(Group.methods[a[2]].key) = p
      BY <1>2, <1>7, <1>14, <2>3, InGroup
    <3>2. PICK i \in DOMAIN errors' :
            errors'[i] = Error(Path(Group.methods[a[2]].key), "QUERY_FAILED")
      BY <1>10, <3>1
    <3>. QED BY <3>1, <3>2 DEF Error
  <2>. QED BY <2>2, <2>3 DEF CodesAt
<1>15. PastAccounted'
  <2> SUFFICES ASSUME NEW a \in Places, Past(a) \/ Queried(a), NEW p, p = PathAt(a)
               PROVE  Accounted(p)'
    BY <1>4, <1>7 DEF PastAccounted
  <2>1. \A q : RanAs(q)' = RanAs(q) /\ (FailedBefore(q)' <=> FailedBefore(q))
    BY <1>1, LogKept
  <2>2. CASE Past(a)
    <3>1. Accounted(p) /\ CodesAt(p)' = CodesAt(p)
      BY <1>2, <1>13, <2>2 DEF PastAccounted
    <3>2. p[1] # Group.key
      BY <1>5, <1>7, <2>2, PlaceShape DEF PathAt, DocShape, Group
    <3>3. /\ p[1] \in DOMAIN data' /\ p[2] \in DOMAIN data'[p[1]]
          /\ data'[p[1]][p[2]] = data[p[1]][p[2]]
      BY <1>6, <3>1, <3>2 DEF Accounted
    <3>. QED BY <1>1, <2>1, <3>1, <3>3, AccountedKept
  <2>3. CASE Queried(a)
    <3> DEFINE task == tasks[KeyAt(a)]
    <3>1. /\ KeyAt(a) \in DOMAIN tasks /\ a[1] = group /\ KindAt(a) = "query"
          /\ p[1] = Group.key /\ p[2] = KeyAt(a)
      BY <1>7, <2>3 DEF PathAt, Group
    <3>2. task \in Results \cup {"raised"}
      <4>1. task \in Results \cup {"running", "raised", "cancelled"}
        BY <1>2, <3>1 DEF TypeOK
      <4>2. task # "running" /\ task # "cancelled"
        BY <3>1 DEF Settled, Range
      <4>. QED BY <4>1, <4>2
    <3>3. /\ p[1] \in DOMAIN data' /\ p[2] \in DOMAIN data'[p[1]]
          /\ data'[p[1]][p[2]] = Value(task)
      BY <1>6, <3>1
    <3>4. CodesAt(p)' = IF task = "raised" THEN {"QUERY_FAILED"} ELSE {}
      BY <1>14, <2>3
    <3>5. /\ task \in Results => RanAs(p)' = {task}
          /\ task \notin Results => RanAs(p)' \cap Results = {}
      BY <1>2, <2>1, <2>3 DEF TasksKnown
    <3>6. ~IsMutation(p)'
      BY <1>1, <1>5, <3>1, PathFacts, StaticDocument
    <3> HIDE DEF task
    <3>7. "raised" \notin Results
      BY DEF Results
    <3>8. CASE task \in Results
      <4>1. CodesAt(p)' = {} /\ RanAs(p)' = {task} /\ Value(task) = task
        BY <3>4, <3>5, <3>7, <3>8 DEF Value
      <4>. QED BY <3>3, <3>6, <4>1 DEF Accounted
    <3>9. CASE task = "raised"
      <4>1. CodesAt(p)' = {"QUERY_FAILED"} /\ RanAs(p)' \cap Results = {} /\ Value(task) = "null"
        BY <3>4, <3>5, <3>7, <3>9 DEF Value
      <4>. QED BY <3>3, <3>6, <4>1 DEF Accounted
    <3>. QED BY <3>2, <3>8, <3>9
  <2>. QED BY <2>2, <2>3
<1>16. TasksKnown'
  BY <1>4, <1>7 DEF TasksKnown
<1>. QED BY <1>8, <1>9, <1>10, <1>12, <1>15, <1>16 DEF AnswerInv

-----------------------------------------------------------------------------
(* The steps that work off the mutations *)

\* Nothing is said yet of the mutation that is due, and what failed before it
\* is whatever failed.
LEMMA DueFresh ==
  ASSUME RunInv, pc \in {"mutations", "mutating"}, Pending # {}, NEW due, due = PathAt(Due)
  PROVE  /\ RanAs(due) = {} /\ CodesAt(due) = {} /\ IsMutation(due) /\ ~DeclaredBefore(due, due)
         /\ FailedBefore(due) <=> Broken
         /\ aborted <=> Broken
<1>1. /\ TypeOK /\ WhereInv /\ DocInv /\ EndsKnown /\ ErrorsKnown /\ (aborted <=> Broken)
      /\ pc \in Running /\ pc # "group"
  BY DEF RunInv, LogInv, AnswerInv, Running
<1>2. DocShape
  BY <1>1, InGroup
<1>3. /\ Due \in Places /\ KindAt(Due) = "mutation" /\ ~Past(Due)
      /\ \A a \in Places : Past(a) /\ KindAt(a) = "mutation" => Before(a, Due)
  BY <1>1, DueNext
<1>4. /\ \A a, b \in Places : PathAt(a) = PathAt(b) => a = b
      /\ \A a \in Places : IsMutation(PathAt(a)) <=> KindAt(a) = "mutation"
      /\ \A a, b \in Places : DeclaredBefore(PathAt(a), PathAt(b)) <=> Before(a, b)
      /\ \A a \in Places : ~Before(a, a)
  BY <1>2, PlaceShape, PathFacts
<1>5. \A i \in DOMAIN log : log[i].ev \in {"end", "refuse"} =>
        \E a \in Places : log[i].at = PathAt(a) /\ Past(a)
  BY <1>1 DEF EndsKnown, Queried
<1>6. RanAs(due) = {}
  BY <1>3, <1>4, <1>5 DEF RanAs
<1>7. CodesAt(due) = {}
  BY <1>1, <1>3, <1>4 DEF CodesAt, ErrorsKnown
<1>8. IsMutation(due) /\ ~DeclaredBefore(due, due)
  BY <1>3, <1>4
<1>9. ASSUME Broken
      PROVE  FailedBefore(due)
  <2>1. PICK i \in DOMAIN log : FailedCall(log[i]) /\ IsMutation(log[i].at)
    BY <1>9 DEF Broken
  <2>2. PICK a \in Places : log[i].at = PathAt(a) /\ Past(a)
    BY <1>5, <2>1 DEF FailedCall
  <2>3. DeclaredBefore(log[i].at, due)
    BY <1>3, <1>4, <2>1, <2>2
  <2>. QED BY <2>1, <2>3 DEF FailedBefore
<1>10. FailedBefore(due) => Broken
  BY DEF FailedBefore, Broken
<1>. QED BY <1>1, <1>6, <1>7, <1>8, <1>9, <1>10

\* The mutation that is due is called.
LEMMA CallKeeps ==
  ASSUME RunInv, StartMutation, Fits(NextWrite)
  PROVE  DocInv' /\ LogInv' /\ AnswerInv'
<1>1. /\ pc = "mutations" /\ pc' = "mutating" /\ Pending # {} /\ ~aborted
      /\ UNCHANGED <<world, group, tasks, data, errors, aborted>>
      /\ Log("start", {Path(NextWrite.key)}, "mutation")
  BY DEF StartMutation, Goto
<1>2. /\ TypeOK /\ WhereInv /\ LogSeqInv /\ DocInv /\ Planned /\ GroupData
      /\ StartsKnown /\ EndsKnown /\ CancelsKnown /\ (aborted <=> Broken)
      /\ errors \in Seq(Range(errors)) /\ ErrorsKnown /\ PastAccounted
      /\ pc \in Running /\ pc # "group"
  BY <1>1 DEF RunInv, DocInv, LogInv, AnswerInv, Running
<1>3. /\ Group' = Group /\ (PlanFails(Group)' <=> PlanFails(Group))
      /\ \A kind : Selected(kind)' = Selected(kind)
  BY <1>1, SameGroup
<1>4. /\ TheGroups' = TheGroups /\ Places' = Places
      /\ \A a : KeyAt(a)' = KeyAt(a) /\ PathAt(a)' = PathAt(a) /\ KindAt(a)' = KindAt(a)
      /\ DocumentRefused' <=> DocumentRefused
  BY <1>1, StaticDocument, StaticRequest
<1>5. Pending' = Pending /\ Due' = Due
  BY <1>1, <1>3 DEF Pending, Due
<1>6. Due \in Places /\ KindAt(Due) = "mutation" /\ PathAt(Due) = Path(NextWrite.key)
  BY <1>1, <1>2, DueNext
<1>7. ASSUME NEW a \in Places
      PROVE  /\ Past(a)' <=> Past(a)
             /\ ~Queried(a) /\ ~Queried(a)' /\ ~Open(a) /\ (Open(a)' <=> a = Due)
  <2>1. Past(a)' <=> Past(a)
    BY <1>1, <1>3, <1>4 DEF Past
  <2>2. ~Queried(a) /\ ~Queried(a)'
    BY <1>1 DEF Queried
  <2>. QED BY <1>1, <1>5, <2>1, <2>2 DEF Open
<1>8. /\ Len(log) \in Nat /\ DOMAIN log = 1 .. Len(log) /\ Len(log') = Len(log) + 1
      /\ log'[Len(log) + 1].ev = "start" /\ log'[Len(log) + 1].at = {Path(NextWrite.key)}
      /\ log'[Len(log) + 1].what = "mutation"
      /\ \A i \in DOMAIN log : log'[i] = log[i]
      /\ \A i \in DOMAIN log' : i \in DOMAIN log \/ i = Len(log) + 1
  BY <1>1, <1>2, LogGrows
<1>9. DocInv'
  BY <1>1, <1>2, <1>3, <1>4, <1>5 DEF DocInv, Planned, GroupData
<1>10. StartsKnown'
  <2> SUFFICES ASSUME NEW i \in DOMAIN log', log'[i].ev = "start", NEW p \in log'[i].at
               PROVE  \E a \in Places :
                        /\ p = PathAt(a) /\ log'[i].what = KindAt(a) /\ (Past(a)' \/ Open(a)')
                        /\ Open(a)' \/ \E k \in i + 1 .. Len(log') :
                                         log'[k].ev = "end" /\ log'[k].at = p
    BY <1>4 DEF StartsKnown
  <2>1. CASE i \in DOMAIN log
    <3>1. PICK a \in Places :
            /\ p = PathAt(a) /\ log[i].what = KindAt(a) /\ Past(a)
            /\ \E k \in i + 1 .. Len(log) : log[k].ev = "end" /\ log[k].at = p
      BY <1>2, <1>7, <1>8, <2>1 DEF StartsKnown
    <3>2. PICK k \in i + 1 .. Len(log) : log[k].ev = "end" /\ log[k].at = p
      BY <3>1
    <3>3. k \in DOMAIN log /\ k \in i + 1 .. Len(log')
      BY <1>8, <2>1
    <3>. QED BY <1>7, <1>8, <2>1, <3>1, <3>2, <3>3
  <2>2. CASE i = Len(log) + 1
    <3>1. p = PathAt(Due) /\ log'[i].what = "mutation"
      BY <1>6, <1>8, <2>2
    <3>. QED BY <1>6, <1>7, <3>1
  <2>. QED BY <1>8, <2>1, <2>2
<1>11. EndsKnown' /\ CancelsKnown'
  <2>1. \A i \in DOMAIN log' : log'[i].ev \in {"end", "refuse"} => i \in DOMAIN log /\ log'[i] = log[i]
    BY <1>8
  <2>2. EndsKnown'
    BY <1>2, <1>4, <1>7, <2>1 DEF EndsKnown
  <2>3. CancelsKnown'
    BY <1>1, <1>2, <2>1 DEF CancelsKnown
  <2>. QED BY <2>2, <2>3
<1>12. /\ Broken' <=> Broken
       /\ \A p : RanAs(p)' = RanAs(p) /\ (FailedBefore(p)' <=> FailedBefore(p))
  <2> DEFINE at == {Path(NextWrite.key)}
  <2>1. Log("start", at, "mutation")
    BY <1>1
  <2> HIDE DEF at
  <2>2. ~FailedCall(Event("start", at, "mutation"))
    BY DEF FailedCall, Event
  <2>3. /\ \A p : RanAs(p)' = RanAs(p) \cup (IF "start" = "end" /\ at = p THEN {"mutation"} ELSE {})
        /\ \A p : FailedBefore(p)' <=>
             \/ FailedBefore(p)
             \/ FailedCall(Event("start", at, "mutation")) /\ IsMutation(at) /\ DeclaredBefore(at, p)
        /\ Broken' <=> (Broken \/ (FailedCall(Event("start", at, "mutation")) /\ IsMutation(at)))
    BY <1>1, <1>2, <2>1, EventStep
  <2>. QED BY <2>2, <2>3
<1>13. LogInv'
  BY <1>1, <1>2, <1>10, <1>11, <1>12 DEF LogInv
<1>14. PastAccounted'
  <2> SUFFICES ASSUME NEW a \in Places, Past(a), NEW p, p = PathAt(a)
               PROVE  Accounted(p)'
    BY <1>4, <1>7 DEF PastAccounted
  <2>1. Accounted(p)
    BY <1>2 DEF PastAccounted
  <2>2. CodesAt(p)' = CodesAt(p)
    BY <1>1 DEF CodesAt
  <2>3. /\ p[1] \in DOMAIN data' /\ p[2] \in DOMAIN data'[p[1]]
        /\ data'[p[1]][p[2]] = data[p[1]][p[2]]
    BY <1>1, <2>1 DEF Accounted
  <2>. QED BY <1>1, <1>12, <2>1, <2>2, <2>3, AccountedKept
<1>15. ErrorsKnown' /\ TasksKnown'
  BY <1>1, <1>2, <1>4, <1>7 DEF ErrorsKnown, TasksKnown
<1>. QED BY <1>1, <1>2, <1>9, <1>13, <1>14, <1>15 DEF AnswerInv

\* The mutation that is due settles, so what is known goes on.
LEMMA SettleKeeps ==
  ASSUME RunInv, NEW value, MutationSettles(value), NEW due, due = PathAt(Due),
         \/ log' = log
         \/ \E ev \in {"end", "refuse"} : \E what : what # "cancelled" /\ Log(ev, due, what),
         pc = "mutating" => \E what : Log("end", due, what),
         errors' = errors \/ \E c : errors' = Append(errors, Error(due, c)),
         aborted' <=> Broken',
         Accounted(due)'
  PROVE  DocInv' /\ LogInv' /\ AnswerInv'
<1>1. DocInv'
  BY SettleStep DEF RunInv
<1>2. StartsKnown' /\ EndsKnown' /\ CancelsKnown'
  BY SettledLog
<1>3. AnswerInv'
  BY SettledAnswer
<1>. QED BY <1>1, <1>2, <1>3 DEF LogInv

\* A mutation whose selection does not fit is refused.
LEMMA RefuseKeeps ==
  ASSUME RunInv, StartMutation, ~Fits(NextWrite)
  PROVE  DocInv' /\ LogInv' /\ AnswerInv'
<1> SUFFICES ASSUME NEW due, due = PathAt(Due)
             PROVE  DocInv' /\ LogInv' /\ AnswerInv'
  OBVIOUS
<1>1. /\ pc = "mutations" /\ Pending # {} /\ ~aborted /\ aborted'
      /\ MutationSettles("null") /\ UNCHANGED world
      /\ errors' = Append(errors, Error(Path(NextWrite.key), "MUTATION_FAILED"))
      /\ Log("refuse", Path(NextWrite.key), "mutation")
  BY DEF StartMutation, Goto, MutationSettles
<1>2. /\ TypeOK /\ WhereInv /\ DocInv /\ LogSeqInv /\ errors \in Seq(Range(errors))
  BY <1>1 DEF RunInv, AnswerInv
<1>3. Path(NextWrite.key) = due
  BY <1>1, <1>2, DueNext
<1>4. /\ RanAs(due) = {} /\ CodesAt(due) = {} /\ IsMutation(due) /\ ~DeclaredBefore(due, due)
      /\ ~FailedBefore(due)
  BY <1>1, DueFresh
<1>5. /\ errors' = Append(errors, Error(due, "MUTATION_FAILED"))
      /\ Log("refuse", due, "mutation")
  BY <1>1, <1>3
<1>6. FailedCall(Event("refuse", due, "mutation"))
  BY DEF FailedCall, Event
<1>7. RanAs(due)' = {} /\ ~FailedBefore(due)' /\ Broken'
  <2>1. /\ \A p : RanAs(p)' = RanAs(p) \cup (IF "refuse" = "end" /\ due = p THEN {"mutation"} ELSE {})
        /\ \A p : FailedBefore(p)' <=>
             \/ FailedBefore(p)
             \/ FailedCall(Event("refuse", due, "mutation")) /\ IsMutation(due) /\ DeclaredBefore(due, p)
        /\ Broken' <=> (Broken \/ (FailedCall(Event("refuse", due, "mutation")) /\ IsMutation(due)))
    BY <1>1, <1>2, <1>5, EventStep
  <2>. QED BY <1>4, <1>6, <2>1
<1>8. CodesAt(due)' = {"MUTATION_FAILED"}
  <2>1. \A p : CodesAt(p)' = CodesAt(p) \cup (IF p = due THEN {"MUTATION_FAILED"} ELSE {})
    BY <1>2, <1>5, ErrorStep
  <2>. QED BY <1>4, <2>1
<1>9. due[1] \in DOMAIN data' /\ due[2] \in DOMAIN data'[due[1]] /\ data'[due[1]][due[2]] = "null"
  BY <1>1, <1>2, SettleStep
<1>10. Accounted(due)'
  BY <1>7, <1>8, <1>9 DEF Accounted
<1>. QED BY <1>1, <1>5, <1>7, <1>10, SettleKeeps

\* A mutation that returns or raises is accounted for.
LEMMA MutationEndsKeeps ==
  ASSUME RunInv, NEW result \in Ends \cup {"cancelled"}, MutationEnds(result), ~MutationCancelled
  PROVE  DocInv' /\ LogInv' /\ AnswerInv'
<1> SUFFICES ASSUME NEW due, due = PathAt(Due)
             PROVE  DocInv' /\ LogInv' /\ AnswerInv'
  OBVIOUS
<1>1. /\ pc = "mutating" /\ UNCHANGED <<world, group, tasks>>
      /\ (\E outcome \in Results : MutationReturns(outcome)) \/ MutationRaises
  BY MutationCases
<1>2. /\ TypeOK /\ WhereInv /\ DocInv /\ LogSeqInv /\ errors \in Seq(Range(errors))
      /\ Pending # {} /\ ~aborted
  BY <1>1 DEF RunInv, AnswerInv, DocInv, Planned, Running
<1>3. Path(NextWrite.key) = due
  BY <1>1, <1>2, DueNext
<1>4. /\ RanAs(due) = {} /\ CodesAt(due) = {} /\ IsMutation(due) /\ ~DeclaredBefore(due, due)
      /\ ~FailedBefore(due) /\ ~Broken
  BY <1>1, <1>2, DueFresh
<1>5. \A what : Log("end", due, what) =>
        /\ RanAs(due)' = {what} /\ ~FailedBefore(due)'
        /\ Broken' <=> what \notin Results
  <2> SUFFICES ASSUME NEW what, Log("end", due, what)
               PROVE  /\ RanAs(due)' = {what} /\ ~FailedBefore(due)'
                      /\ Broken' <=> what \notin Results
    OBVIOUS
  <2>1. FailedCall(Event("end", due, what)) <=> what \notin Results
    BY DEF FailedCall, Event
  <2>2. /\ \A p : RanAs(p)' = RanAs(p) \cup (IF "end" = "end" /\ due = p THEN {what} ELSE {})
        /\ \A p : FailedBefore(p)' <=>
             \/ FailedBefore(p)
             \/ FailedCall(Event("end", due, what)) /\ IsMutation(due) /\ DeclaredBefore(due, p)
        /\ Broken' <=> (Broken \/ (FailedCall(Event("end", due, what)) /\ IsMutation(due)))
    BY <1>1, <1>2, EventStep
  <2>. QED BY <1>4, <2>1, <2>2
<1>6. ASSUME NEW outcome \in Results, MutationReturns(outcome)
      PROVE  DocInv' /\ LogInv' /\ AnswerInv'
  <2>1. /\ MutationSettles(outcome) /\ Log("end", due, outcome) /\ errors' = errors
        /\ aborted' = aborted /\ outcome # "cancelled"
    BY <1>1, <1>2, <1>3, <1>6 DEF MutationReturns, MutationSettles, Goto, Results
  <2>2. RanAs(due)' = {outcome} /\ ~FailedBefore(due)' /\ ~Broken'
    BY <1>5, <2>1
  <2>3. CodesAt(due)' = {}
    BY <1>4, <2>1 DEF CodesAt
  <2>4. due[1] \in DOMAIN data' /\ due[2] \in DOMAIN data'[due[1]] /\ data'[due[1]][due[2]] = outcome
    BY <1>2, <2>1, SettleStep
  <2>5. Accounted(due)'
    BY <2>2, <2>3, <2>4 DEF Accounted
  <2>. QED BY <1>2, <2>1, <2>2, <2>5, SettleKeeps
<1>7. ASSUME MutationRaises
      PROVE  DocInv' /\ LogInv' /\ AnswerInv'
  <2>1. /\ MutationSettles("null") /\ Log("end", due, "raised") /\ aborted'
        /\ errors' = Append(errors, Error(due, "MUTATION_FAILED"))
    BY <1>1, <1>2, <1>3, <1>7 DEF MutationRaises, MutationSettles, Goto
  <2>2. RanAs(due)' = {"raised"} /\ ~FailedBefore(due)' /\ Broken'
    BY <1>5, <2>1 DEF Results
  <2>3. CodesAt(due)' = {"MUTATION_FAILED"}
    <3>1. \A p : CodesAt(p)' = CodesAt(p) \cup (IF p = due THEN {"MUTATION_FAILED"} ELSE {})
      BY <1>2, <2>1, ErrorStep
    <3>. QED BY <1>4, <3>1
  <2>4. due[1] \in DOMAIN data' /\ due[2] \in DOMAIN data'[due[1]] /\ data'[due[1]][due[2]] = "null"
    BY <1>2, <2>1, SettleStep
  <2>5. RanAs(due)' \cap Results = {}
    BY <2>2 DEF Results
  <2>6. Accounted(due)'
    BY <2>2, <2>3, <2>4, <2>5 DEF Accounted
  <2>. QED BY <2>1, <2>2, <2>6, SettleKeeps
<1>. QED BY <1>1, <1>6, <1>7

\* A skipped mutation has an earlier failure in the log.
LEMMA SkipKeeps ==
  ASSUME RunInv, SkipMutation
  PROVE  DocInv' /\ LogInv' /\ AnswerInv'
<1> SUFFICES ASSUME NEW due, due = PathAt(Due)
             PROVE  DocInv' /\ LogInv' /\ AnswerInv'
  OBVIOUS
<1>1. /\ pc = "mutations" /\ Pending # {} /\ aborted /\ aborted' = aborted
      /\ MutationSettles("null") /\ UNCHANGED <<world, log>>
      /\ errors' = Append(errors, Error(Path(NextWrite.key), "SKIPPED_PRIOR_FAILURE"))
  BY DEF SkipMutation, MutationSettles
<1>2. /\ TypeOK /\ WhereInv /\ DocInv /\ LogSeqInv /\ errors \in Seq(Range(errors))
  BY <1>1 DEF RunInv, AnswerInv
<1>3. Path(NextWrite.key) = due
  BY <1>1, <1>2, DueNext
<1>4. RanAs(due) = {} /\ CodesAt(due) = {} /\ IsMutation(due) /\ FailedBefore(due) /\ Broken
  BY <1>1, DueFresh
<1>5. errors' = Append(errors, Error(due, "SKIPPED_PRIOR_FAILURE"))
  BY <1>1, <1>3
<1>6. RanAs(due)' = {} /\ FailedBefore(due)' /\ Broken' /\ IsMutation(due)'
  BY <1>1, <1>4, LogKept, StaticDocument
<1>7. CodesAt(due)' = {"SKIPPED_PRIOR_FAILURE"}
  <2>1. \A p : CodesAt(p)' = CodesAt(p) \cup (IF p = due THEN {"SKIPPED_PRIOR_FAILURE"} ELSE {})
    BY <1>2, <1>5, ErrorStep
  <2>. QED BY <1>4, <2>1
<1>8. due[1] \in DOMAIN data' /\ due[2] \in DOMAIN data'[due[1]] /\ data'[due[1]][due[2]] = "null"
  BY <1>1, <1>2, SettleStep
<1>9. Accounted(due)'
  BY <1>6, <1>7, <1>8 DEF Accounted
<1>. QED BY <1>1, <1>5, <1>6, <1>9, SettleKeeps

\* Nothing of a group is left when the next begins.
LEMMA NextGroupKeeps ==
  ASSUME RunInv, NextGroup
  PROVE  DocInv' /\ LogInv' /\ AnswerInv'
<1>1. /\ pc = "mutations" /\ pc' = "group" /\ Pending = {} /\ group' = group + 1
      /\ UNCHANGED <<world, aborted, data, errors, log>>
  BY DEF NextGroup, Goto
<1>2. /\ TypeOK /\ WhereInv /\ LogSeqInv /\ DocInv /\ Planned /\ GroupData
      /\ StartsKnown /\ EndsKnown /\ CancelsKnown /\ (aborted <=> Broken)
      /\ errors \in Seq(Range(errors)) /\ ErrorsKnown /\ PastAccounted
      /\ pc \in Running /\ pc # "group"
  BY <1>1 DEF RunInv, DocInv, LogInv, AnswerInv, Running
<1>3. /\ TheGroups' = TheGroups /\ Places' = Places
      /\ \A a : KeyAt(a)' = KeyAt(a) /\ PathAt(a)' = PathAt(a) /\ KindAt(a)' = KindAt(a)
      /\ DocumentRefused' <=> DocumentRefused
  BY <1>1, StaticDocument, StaticRequest
<1>4. DocShape /\ group \in DOMAIN TheGroups /\ group \in Nat
  BY <1>2, InGroup
<1>5. ASSUME NEW a \in Places
      PROVE  /\ Past(a)' <=> Past(a)
             /\ ~Queried(a) /\ ~Queried(a)' /\ ~Open(a) /\ ~Open(a)'
  <2>1. ~Queried(a) /\ ~Queried(a)' /\ ~Open(a) /\ ~Open(a)'
    BY <1>1 DEF Queried, Open
  <2>2. a[1] = group => KeyAt(a) \in DOMAIN data[Group.key]
    <3> SUFFICES ASSUME a[1] = group
                 PROVE  KeyAt(a) \in DOMAIN data[Group.key]
      OBVIOUS
    <3>1. /\ a[2] \in Selected(KindAt(a)) /\ KeyAt(a) = Group.methods[a[2]].key
          /\ KindAt(a) \in {"query", "mutation"}
      BY <1>2, InGroup
    <3>2. CASE KindAt(a) = "query"
      BY <1>1, <1>2, <3>1, <3>2 DEF GroupData
    <3>3. CASE KindAt(a) = "mutation"
      BY <1>1, <3>1, <3>3 DEF Pending
    <3>. QED BY <3>1, <3>2, <3>3
  <2>3. a[1] \in Nat
    BY <1>4, PlaceShape DEF DocShape
  <2>4. a[1] < group + 1 <=> a[1] < group \/ a[1] = group
    BY <1>4, <2>3
  <2>5. Past(a)' <=> a[1] < group + 1
    BY <1>1 DEF Past
  <2>6. Past(a) <=> a[1] < group \/ a[1] = group
    BY <1>1, <2>2 DEF Past
  <2>. QED BY <2>1, <2>4, <2>5, <2>6
<1>6. DocInv'
  BY <1>1, <1>2, <1>3, <1>4 DEF DocInv, Planned, GroupData, DocShape
<1>7. LogInv'
  <2>1. StartsKnown'
    <3> SUFFICES ASSUME NEW i \in DOMAIN log, log[i].ev = "start", NEW p \in log[i].at
                 PROVE  \E a \in Places :
                          /\ p = PathAt(a) /\ log[i].what = KindAt(a) /\ Past(a)'
                          /\ \E k \in i + 1 .. Len(log) : log[k].ev = "end" /\ log[k].at = p
      BY <1>1, <1>3 DEF StartsKnown
    <3>. QED BY <1>2, <1>5 DEF StartsKnown
  <2>2. EndsKnown'
    BY <1>1, <1>2, <1>3, <1>5 DEF EndsKnown
  <2>3. CancelsKnown'
    BY <1>1, <1>2 DEF CancelsKnown
  <2>4. Broken' <=> Broken
    BY <1>1, LogKept
  <2>. QED BY <1>1, <1>2, <2>1, <2>2, <2>3, <2>4 DEF LogInv
<1>8. \A p : RanAs(p)' = RanAs(p) /\ CodesAt(p)' = CodesAt(p) /\ (FailedBefore(p)' <=> FailedBefore(p))
  BY <1>1, LogKept DEF CodesAt
<1>9. PastAccounted'
  <2> SUFFICES ASSUME NEW a \in Places, Past(a), NEW p, p = PathAt(a)
               PROVE  Accounted(p)'
    BY <1>3, <1>5 DEF PastAccounted
  <2>1. Accounted(p)
    BY <1>2 DEF PastAccounted
  <2>2. /\ p[1] \in DOMAIN data' /\ p[2] \in DOMAIN data'[p[1]]
        /\ data'[p[1]][p[2]] = data[p[1]][p[2]]
    BY <1>1, <2>1 DEF Accounted
  <2>. QED BY <1>1, <1>8, <2>1, <2>2, AccountedKept
<1>10. ErrorsKnown' /\ TasksKnown'
  BY <1>1, <1>2, <1>3, <1>5 DEF ErrorsKnown, TasksKnown
<1>. QED BY <1>1, <1>2, <1>6, <1>7, <1>9, <1>10 DEF AnswerInv

\* A request that is cancelled while its queries run goes on as it is.
LEMMA CancelKeeps ==
  ASSUME RunInv,
         \/ pc = "queries" /\ pc' = "unwinding" /\ Step
         \/ UNCHANGED vars
  PROVE  DocInv' /\ LogInv' /\ AnswerInv'
<1>1. /\ UNCHANGED <<world, group, tasks, aborted, data, errors, log>>
      /\ pc' = pc \/ (pc = "queries" /\ pc' = "unwinding")
  BY DEF Step, runVars, vars
<1>2. /\ Group' = Group /\ (PlanFails(Group)' <=> PlanFails(Group))
      /\ \A kind : Selected(kind)' = Selected(kind)
  BY <1>1, SameGroup
<1>3. /\ TheGroups' = TheGroups /\ Places' = Places
      /\ \A a : KeyAt(a)' = KeyAt(a) /\ PathAt(a)' = PathAt(a) /\ KindAt(a)' = KindAt(a)
      /\ DocumentRefused' <=> DocumentRefused
  BY <1>1, StaticDocument, StaticRequest
<1>4. (pc' \in Running <=> pc \in Running) /\ Pending' = Pending /\ Due' = Due
  BY <1>1, <1>2 DEF Running, Pending, Due
<1>5. \A a : (Past(a)' <=> Past(a)) /\ (Queried(a)' <=> Queried(a)) /\ (Open(a)' <=> Open(a))
  BY <1>1, <1>2, <1>3, <1>4 DEF Past, Queried, Open
<1>6. /\ Broken' <=> Broken
      /\ \A p : RanAs(p)' = RanAs(p) /\ CodesAt(p)' = CodesAt(p)
                /\ (FailedBefore(p)' <=> FailedBefore(p))
  BY <1>1, LogKept DEF CodesAt
<1>7. DocInv'
  BY <1>1, <1>2, <1>3, <1>4 DEF RunInv, DocInv, Planned, GroupData
<1>8. ASSUME pc \in Running
      PROVE  StartsKnown' /\ EndsKnown' /\ CancelsKnown'
  <2>1. StartsKnown'
    BY <1>1, <1>3, <1>5, <1>8 DEF RunInv, LogInv, StartsKnown
  <2>2. EndsKnown'
    BY <1>1, <1>3, <1>5, <1>8 DEF RunInv, LogInv, EndsKnown
  <2>3. CancelsKnown'
    BY <1>1, <1>8 DEF RunInv, LogInv, CancelsKnown
  <2>. QED BY <2>1, <2>2, <2>3
<1>9. LogInv'
  BY <1>1, <1>4, <1>6, <1>8 DEF RunInv, LogInv
<1>10. ASSUME pc \in Running
       PROVE  ErrorsKnown' /\ PastAccounted' /\ TasksKnown'
  <2>1. ErrorsKnown'
    BY <1>1, <1>3, <1>5, <1>10 DEF RunInv, AnswerInv, ErrorsKnown
  <2>2. \A p : Accounted(p) => Accounted(p)'
    <3> SUFFICES ASSUME NEW p, Accounted(p)
                 PROVE  Accounted(p)'
      OBVIOUS
    <3>1. /\ p[1] \in DOMAIN data' /\ p[2] \in DOMAIN data'[p[1]]
          /\ data'[p[1]][p[2]] = data[p[1]][p[2]]
      BY <1>1 DEF Accounted
    <3>. QED BY <1>1, <1>6, <3>1, AccountedKept
  <2>3. PastAccounted'
    BY <1>3, <1>5, <1>10, <2>2 DEF RunInv, AnswerInv, PastAccounted
  <2>4. TasksKnown'
    BY <1>1, <1>3, <1>5, <1>6, <1>10 DEF RunInv, AnswerInv, TasksKnown
  <2>. QED BY <2>1, <2>3, <2>4
<1>. QED BY <1>1, <1>4, <1>7, <1>9, <1>10 DEF RunInv, AnswerInv

-----------------------------------------------------------------------------
(* The invariant of every request *)

\* Every step keeps the three invariants of a running request.
LEMMA RunInvStep ==
  ASSUME RunInv, FreshInv, ItemsInv, [Next]_vars
  PROVE  DocInv' /\ LogInv' /\ AnswerInv'
<1>1. ASSUME pc' \in Running
      PROVE  DocInv' /\ LogInv' /\ AnswerInv'
  <2>1. RunStep
    BY <1>1, RunSteps DEF RunInv
  <2>2. CASE ParseDocument
    BY <1>1, <2>2, ParseKeeps
  <2>3. CASE StartGroup
    BY <2>3, StartGroupKeeps
  <2>4. CASE \E k \in DOMAIN tasks, result \in Ends \cup {"cancelled"} : QueryEnds(k, result)
    BY <2>4, QueryEndsKeeps
  <2>5. CASE Gather /\ pc = "queries" /\ Settled /\ "cancelled" \notin Range(tasks)
    BY <2>5, GatherKeeps
  <2>6. CASE StartMutation
    BY <2>6, CallKeeps, RefuseKeeps
  <2>7. CASE \E result \in Ends \cup {"cancelled"} : MutationEnds(result) /\ ~MutationCancelled
    BY <2>7, MutationEndsKeeps
  <2>8. CASE SkipMutation
    BY <2>8, SkipKeeps
  <2>9. CASE NextGroup
    BY <2>9, NextGroupKeeps
  <2>10. CASE (Cancel /\ pc = "queries" /\ pc' = "unwinding" /\ Step) \/ UNCHANGED vars
    BY <2>10, CancelKeeps
  <2>. QED
    BY <2>1, <2>2, <2>3, <2>4, <2>5, <2>6, <2>7, <2>8, <2>9, <2>10 DEF RunStep
<1>2. ASSUME pc' \notin Running
      PROVE  errors' = errors
  <2>1. ~SkipMutation /\ ~StartMutation
    BY <1>2 DEF SkipMutation, StartMutation, Goto, Running
  <2>2. Gather => errors' = errors
    BY <1>2 DEF Gather, Goto, Running
  <2>3. ASSUME NEW result \in Ends \cup {"cancelled"}, MutationEnds(result)
        PROVE  errors' = errors
    BY <1>2, <2>3, MutationCases
    DEF MutationReturns, MutationRaises, MutationCancelled, Goto, Running
  <2>. QED BY <2>1, <2>2, <2>3, StepFrame DEF Frame
<1>3. ASSUME pc' \notin Running
      PROVE  DocInv' /\ LogInv' /\ AnswerInv'
  BY <1>2, <1>3 DEF RunInv, DocInv, LogInv, AnswerInv
<1>. QED BY <1>1, <1>3

\* What holds of every request, while it runs and when it has been answered.
ComposeInv == RequestInv /\ DocInv /\ LogInv /\ AnswerInv

\* They hold throughout.
LEMMA ComposeInvariant == Spec => []ComposeInv
<1>1. Init => DocInv /\ LogInv /\ AnswerInv
  <2> SUFFICES ASSUME Init
               PROVE  DocInv /\ LogInv /\ AnswerInv
    OBVIOUS
  <2>1. pc \notin Running /\ errors = << >>
    BY DEF Init, Running
  <2>2. errors \in Seq(Range(errors))
    BY <2>1 DEF Range
  <2>. QED BY <2>1, <2>2 DEF DocInv, LogInv, AnswerInv
<1>2. RequestInv /\ DocInv /\ LogInv /\ AnswerInv /\ [Next]_vars =>
        DocInv' /\ LogInv' /\ AnswerInv'
  BY RunInvStep DEF RequestInv, RunInv
<1>. QED BY <1>1, <1>2, RequestInvariant, PTL DEF ComposeInv, Spec

-----------------------------------------------------------------------------
(* Mutations are serial *)

\* The call that starts now starts after whatever it must not overlap.
LEMMA StartSerial ==
  ASSUME ComposeInv, NEW ats, NEW kind, Log("start", ats, kind), StartGroup \/ StartMutation,
         NEW i \in DOMAIN log
  PROVE  /\ log[i].ev = "start" => \A p \in log[i].at :
              /\ \E k \in i + 1 .. Len(log) : log[k].ev = "end" /\ log[k].at = p
              /\ log[i].what = "mutation" /\ kind = "mutation" =>
                   \A q \in ats : DeclaredBefore(p, q)
         /\ FailedCall(log[i]) /\ IsMutation(log[i].at) => kind = "query"
         /\ FailedCall(log[i]) => log[i].what # "cancelled"
<1>1. /\ TypeOK /\ WhereInv /\ LogSeqInv /\ DocInv
      /\ pc \in {"group", "mutations"} /\ pc \in Running
      /\ StartsKnown /\ CancelsKnown /\ (aborted <=> Broken) /\ Planned
  BY DEF ComposeInv, RequestInv, StartGroup, StartMutation, Running, LogInv, DocInv
<1>2. Event("start", ats, kind) = log'[Len(log) + 1]
  BY <1>1, LogGrows
<1>3. \/ StartGroup /\ kind = "query"
      \/ StartMutation /\ kind = "mutation" /\ ats = {Path(NextWrite.key)} /\ Fits(NextWrite)
  <2>1. CASE StartGroup
    <3>1. PICK others : Log("start", others, "query")
      BY <2>1 DEF StartGroup
    <3>2. log'[Len(log) + 1].what = "query"
      BY <1>1, <3>1, LogGrows
    <3>. QED BY <1>2, <2>1, <3>2 DEF Event
  <2>2. CASE StartMutation
    <3>1. PICK ev, at :
            /\ Log(ev, at, "mutation")
            /\ ev = "start" => at = {Path(NextWrite.key)} /\ Fits(NextWrite)
      BY <2>2 DEF StartMutation
    <3>2. log'[Len(log) + 1] = Event(ev, at, "mutation")
      BY <1>1, <3>1, LogGrows
    <3>. QED BY <1>2, <2>2, <3>1, <3>2 DEF Event
  <2>. QED BY <2>1, <2>2
<1>4. ASSUME log[i].ev = "start", NEW p \in log[i].at
      PROVE  /\ \E k \in i + 1 .. Len(log) : log[k].ev = "end" /\ log[k].at = p
             /\ log[i].what = "mutation" /\ kind = "mutation" =>
                  \A q \in ats : DeclaredBefore(p, q)
  <2>1. PICK a \in Places :
          /\ p = PathAt(a) /\ log[i].what = KindAt(a) /\ (Past(a) \/ Open(a) \/ Queried(a))
          /\ Open(a) \/ \E k \in i + 1 .. Len(log) : log[k].ev = "end" /\ log[k].at = p
    BY <1>1, <1>4 DEF StartsKnown
  <2>2. ~Open(a) /\ ~Queried(a)
    BY <1>1 DEF Open, Queried
  <2>3. ASSUME log[i].what = "mutation", kind = "mutation"
        PROVE  \A q \in ats : DeclaredBefore(p, q)
    <3>1. /\ pc = "mutations" /\ Pending # {} /\ ats = {Path(NextWrite.key)}
      BY <1>3, <2>3 DEF StartMutation
    <3>2. Due \in Places /\ PathAt(Due) = Path(NextWrite.key) /\ Before(a, Due)
      BY <1>1, <2>1, <2>2, <2>3, <3>1, DueNext
    <3>. QED BY <2>1, <3>1, <3>2 DEF DeclaredBefore
  <2>. QED BY <2>1, <2>2, <2>3
<1>5. FailedCall(log[i]) /\ IsMutation(log[i].at) => kind = "query"
  BY <1>1, <1>3 DEF StartMutation, Broken
<1>6. FailedCall(log[i]) => log[i].what # "cancelled"
  BY <1>1 DEF CancelsKnown, FailedCall
<1>. QED BY <1>4, <1>5, <1>6

\* What starts now finds everything before it ended.
LEMMA SerialStep ==
  ASSUME ComposeInv, MutationsSerial, [Next]_vars
  PROVE  MutationsSerial'
<1>1. world' = world /\ (Compose' <=> Compose) /\ LogSeqInv /\ LogFrame
  BY StepFrame, StaticRequest, LogStep DEF Frame, ComposeInv, RequestInv
<1>2. /\ \A q : IsMutation(q)' <=> IsMutation(q)
      /\ \A q, r : DeclaredBefore(q, r)' <=> DeclaredBefore(q, r)
      /\ \A e : FailedCall(e)' <=> FailedCall(e)
  BY <1>1, StaticDocument DEF FailedCall
<1> SUFFICES ASSUME Compose, NEW i \in DOMAIN log', NEW j \in DOMAIN log',
                    i < j, log'[j].ev = "start"
             PROVE  /\ log'[i].ev = "start" => \A p \in log'[i].at :
                         /\ \E k \in i + 1 .. j - 1 : log'[k].ev = "end" /\ log'[k].at = p
                         /\ log'[i].what = "mutation" /\ log'[j].what = "mutation" =>
                              \A q \in log'[j].at : DeclaredBefore(p, q)
                    /\ FailedCall(log'[i]) /\ IsMutation(log'[i].at) => log'[j].what = "query"
                    /\ FailedCall(log'[i]) => log'[i].what # "cancelled"
  BY <1>1, <1>2 DEF MutationsSerial, FailedCall
<1>3. /\ Len(log) \in Nat /\ DOMAIN log = 1 .. Len(log)
      /\ \A k \in DOMAIN log : k \in DOMAIN log' /\ log'[k] = log[k]
      /\ \A k \in DOMAIN log' : k \in DOMAIN log \/ k = Len(log) + 1
  <2>1. CASE log' = log
    BY <1>1, <2>1 DEF LogSeqInv
  <2>2. CASE \E ev, at, what : Log(ev, at, what)
    BY <1>1, <2>2, LogGrows
  <2>. QED BY <1>1, <2>1, <2>2 DEF LogFrame, HumanAnswers, CallAgain
<1>4. CASE j \in DOMAIN log
  <2>1. i \in DOMAIN log
    BY <1>3, <1>4
  <2>2. \A k \in i + 1 .. j - 1 : k \in DOMAIN log
    BY <1>3, <1>4, <2>1
  <2>. QED BY <1>3, <1>4, <2>1, <2>2 DEF MutationsSerial
<1>5. CASE j \notin DOMAIN log
  <2>1. j = Len(log) + 1 /\ i \in DOMAIN log /\ log'[i] = log[i]
    BY <1>3, <1>5
  <2>2. PICK ev, at, what :
          /\ Log(ev, at, what)
          /\ ev = "start" => StartGroup \/ StartMutation
    <3>1. log' # log
      BY <1>5
    <3>2. CASE \E accepts \in BOOLEAN : HumanAnswers(accepts)
      <4>1. PICK ev \in {"accept", "decline"} : Log(ev, << >>, None)
        BY <3>2 DEF HumanAnswers
      <4>. QED BY <4>1
    <3>3. CASE \E response \in Responses : CallAgain(response)
      <4>1. PICK response \in Responses : Log(response, << >>, None)
        BY <3>3 DEF CallAgain
      <4>2. response # "start"
        BY DEF Responses
      <4>. QED BY <4>1, <4>2
    <3>. QED BY <1>1, <3>1, <3>2, <3>3 DEF LogFrame
  <2>3. log'[j].ev = ev /\ log'[j].at = at /\ log'[j].what = what
    BY <1>1, <2>1, <2>2, LogGrows
  <2>4. Log("start", at, what) /\ (StartGroup \/ StartMutation)
    BY <2>2, <2>3
  <2>5. j - 1 = Len(log) /\ \A k \in i + 1 .. Len(log) : k \in DOMAIN log /\ log'[k] = log[k]
    BY <1>3, <2>1
  <2>6. /\ log[i].ev = "start" => \A p \in log[i].at :
             /\ \E k \in i + 1 .. Len(log) : log[k].ev = "end" /\ log[k].at = p
             /\ log[i].what = "mutation" /\ what = "mutation" =>
                  \A q \in at : DeclaredBefore(p, q)
        /\ FailedCall(log[i]) /\ IsMutation(log[i].at) => what = "query"
        /\ FailedCall(log[i]) => log[i].what # "cancelled"
    BY <2>1, <2>4, StartSerial
  <2>. QED BY <2>1, <2>3, <2>5, <2>6
<1>. QED BY <1>4, <1>5

\* A mutation runs alone and in the order of the document, none after one that
\* failed, and nothing starts once anything was cancelled, whatever the
\* document, the applications and what their methods do.
THEOREM MutationsAreSerial == Spec => []MutationsSerial
<1>1. Init => MutationsSerial
  <2>1. Init => DOMAIN log = {}
    BY DEF Init
  <2>. QED BY <2>1 DEF MutationsSerial
<1>2. ComposeInv /\ MutationsSerial /\ [Next]_vars => MutationsSerial'
  BY SerialStep
<1>. QED BY <1>1, <1>2, ComposeInvariant, PTL DEF Spec

-----------------------------------------------------------------------------
(* The answer accounts for the document *)

\* An answer with data is given once, of what there is.
DataKept ==
  answer'.kind = "data" =>
    /\ AnswerData \/ answer.kind = "data"
    /\ UNCHANGED <<world, data, errors, log>>

\* An answer has the data and errors of the step before it.
LEMMA DataKeptStep ==
  ASSUME TypeOK, WhereInv, ItemsInv, [Next]_vars
  PROVE  DataKept
<1>0. answer.kind = "data" => pc = "done" /\ Compose /\ \A i \in DOMAIN items : items[i].pc = "new"
  BY DEF TypeOK, WhereInv, ItemsInv, Compose, None
<1>1. CASE Receive
  BY <1>0, <1>1 DEF Receive, Step, Goto, Reply, Answer, NoAnswer, runVars, DataKept
<1>2. CASE NotFound
  BY <1>0, <1>2 DEF NotFound, Step, Goto, Reply, Answer, NoAnswer, runVars, DataKept
<1>3. CASE GateOpen
  BY <1>0, <1>3 DEF GateOpen, Step, Goto, Reply, Answer, NoAnswer, runVars, DataKept
<1>4. CASE Elicit
  BY <1>0, <1>4 DEF Elicit, Step, Goto, Reply, Answer, NoAnswer, runVars, DataKept
<1>5. CASE GuardLegAsks
  <2>1. Verdict \in {"yes", "no", "ask"}
    BY DEF Verdict
  <2>2. pc = "gate" /\ (Goto("context") \/ Reply("declined") \/ Reply("ask"))
    BY <1>5, <2>1 DEF GuardLegAsks, GuardLeg
  <2>. QED BY <1>0, <2>2 DEF Goto, Reply, Answer, DataKept
<1>6. CASE ExtractContext
  BY <1>0, <1>6 DEF ExtractContext, Step, Goto, Reply, Answer, NoAnswer, runVars, DataKept
<1>7. CASE ParseDocument
  BY <1>0, <1>7 DEF ParseDocument, Step, Goto, Reply, Answer, NoAnswer, runVars, DataKept
<1>8. CASE PlanError
  BY <1>0, <1>8 DEF PlanError, Step, Goto, Reply, Answer, NoAnswer, runVars, DataKept
<1>9. CASE StartGroup
  BY <1>0, <1>9 DEF StartGroup, Step, Goto, Reply, Answer, NoAnswer, runVars, DataKept
<1>10. CASE Gather
  BY <1>0, <1>10, GatherCases DEF Goto, Reply, Answer, DataKept
<1>11. CASE StartMutation
  BY <1>0, <1>11 DEF StartMutation, PutResult, Step, Goto, Reply, Answer, NoAnswer, runVars, DataKept
<1>12. CASE SkipMutation
  BY <1>0, <1>12 DEF SkipMutation, PutResult, Step, Goto, Reply, Answer, NoAnswer, runVars, DataKept
<1>13. CASE NextGroup
  BY <1>0, <1>13 DEF NextGroup, Step, Goto, Reply, Answer, NoAnswer, runVars, DataKept
<1>14. CASE AnswerData
  BY <1>0, <1>14 DEF AnswerData, Step, Goto, Reply, Answer, NoAnswer, runVars, DataKept
<1>15. ASSUME NEW i \in DOMAIN items, CheckItem(i)
      PROVE  DataKept
  BY <1>0, <1>15 DEF CheckItem, Item, ItemStep, Step, Goto, Reply, Answer, NoAnswer, runVars, DataKept
<1>16. ASSUME NEW i \in DOMAIN items, StartItem(i)
      PROVE  DataKept
  BY <1>0, <1>16 DEF StartItem, Item, ItemStep, Step, Goto, Reply, Answer, NoAnswer, runVars, DataKept
<1>17. CASE AnswerBatch
  BY <1>0, <1>17 DEF AnswerBatch, Step, Goto, Reply, Answer, NoAnswer, runVars, DataKept
<1>18. CASE SolveDependency
  BY <1>0, <1>18 DEF SolveDependency, Step, Goto, Reply, Answer, NoAnswer, runVars, DataKept
<1>19. CASE CallRoute
  BY <1>0, <1>19 DEF CallRoute, Step, Goto, Reply, Answer, NoAnswer, runVars, DataKept
<1>20. ASSUME NEW k \in DOMAIN tasks, NEW result \in Ends \cup {"cancelled"},
             QueryEnds(k, result)
      PROVE  DataKept
  BY <1>0, <1>20 DEF QueryEnds, Step, Goto, Reply, Answer, NoAnswer, runVars, DataKept
<1>21. ASSUME NEW result \in Ends \cup {"cancelled"}, MutationEnds(result)
      PROVE  DataKept
  <2>1. /\ pc = "mutating"
        /\ Goto("mutations") \/ Reply("cancelled")
    BY <1>21, MutationCases DEF MutationReturns, MutationRaises, MutationCancelled
  <2>. QED BY <1>0, <2>1 DEF Goto, Reply, Answer, DataKept
<1>22. ASSUME NEW i \in DOMAIN items, NEW result \in {"model", "raised"}, EndItem(i, result)
      PROVE  DataKept
  BY <1>0, <1>22 DEF EndItem, Item, ItemStep, Step, Goto, Reply, Answer, NoAnswer, runVars, DataKept
<1>23. ASSUME NEW result \in {"model", "raised"}, EndRoute(result)
      PROVE  DataKept
  BY <1>0, <1>23 DEF EndRoute, Step, Goto, Reply, Answer, NoAnswer, runVars, DataKept
<1>24. ASSUME NEW accepts \in BOOLEAN, HumanAnswers(accepts)
      PROVE  DataKept
  BY <1>0, <1>24 DEF HumanAnswers, Step, Goto, Reply, Answer, NoAnswer, runVars, DataKept
<1>25. ASSUME NEW response \in Responses, CallAgain(response)
      PROVE  DataKept
  BY <1>0, <1>25 DEF CallAgain, Step, Goto, Reply, Answer, NoAnswer, None, runVars, DataKept
<1>26. CASE Cancel
  BY <1>0, <1>26 DEF Cancel, Step, Goto, Reply, Answer, NoAnswer, runVars, DataKept
<1>27. CASE UNCHANGED vars
  BY <1>0, <1>27 DEF vars, Step, Goto, Reply, Answer, NoAnswer, runVars, DataKept
<1>. QED
  BY <1>1, <1>2, <1>3, <1>4, <1>5, <1>6, <1>7, <1>8, <1>9, <1>10, <1>11, <1>12, <1>13, <1>14, <1>15, <1>16, <1>17, <1>18, <1>19, <1>20, <1>21, <1>22, <1>23, <1>24, <1>25, <1>26, <1>27
  DEF Next, Serve, MethodsEnd, HumanOrClient, Responses

\* When the groups are done every selection is past.
LEMMA AllAccounted ==
  ASSUME ComposeInv, AnswerData
  PROVE  /\ \A i \in DOMAIN errors : errors[i].path \in Paths
         /\ \A i, j \in DOMAIN errors : errors[i].path = errors[j].path => i = j
         /\ \A p \in Paths : Accounted(p)
<1>1. /\ pc = "group" /\ group > Len(TheGroups) /\ world \in Worlds
      /\ ~DocumentRefused /\ group \in 1 .. Len(TheGroups) + 1
      /\ ErrorsKnown /\ PastAccounted
  BY DEF AnswerData, ComposeInv, RequestInv, TypeOK, DocInv, Planned, AnswerInv, Running
<1>2. DocShape
  BY <1>1, DocumentShape
<1>3. \A a \in Places : Past(a)
  BY <1>1, <1>2, PlaceShape DEF Past, DocShape
<1>. QED BY <1>1, <1>3 DEF ErrorsKnown, PastAccounted, Paths

\* An answer with data accounts for every selection of every document:
\* what a call returned is there, and what is null without having been returned
\* has one error, which says whether the write was tried.
THEOREM AnswersAccount == Spec => []WritesAccounted
<1>1. Init => WritesAccounted
  BY DEF Init, NoAnswer, None, WritesAccounted
<1>2. ComposeInv /\ WritesAccounted /\ [Next]_vars => WritesAccounted'
  <2> SUFFICES ASSUME ComposeInv, WritesAccounted, [Next]_vars, answer'.kind = "data"
               PROVE  WritesAccounted'
    BY DEF WritesAccounted
  <2>1. (AnswerData \/ answer.kind = "data") /\ UNCHANGED <<world, data, errors, log>>
    BY DataKeptStep DEF DataKept, ComposeInv, RequestInv
  <2>2. /\ \A i \in DOMAIN errors : errors[i].path \in Paths
        /\ \A i, j \in DOMAIN errors : errors[i].path = errors[j].path => i = j
        /\ \A p \in Paths : Accounted(p)
    BY <2>1, AllAccounted DEF WritesAccounted, Accounted
  <2>3. /\ Paths' = Paths
        /\ \A p : RanAs(p)' = RanAs(p) /\ CodesAt(p)' = CodesAt(p)
                  /\ (FailedBefore(p)' <=> FailedBefore(p)) /\ (IsMutation(p)' <=> IsMutation(p))
    BY <2>1, StaticDocument, LogKept DEF CodesAt
  <2>. QED BY <2>1, <2>2, <2>3 DEF WritesAccounted, Accounted
<1>. QED BY <1>1, <1>2, ComposeInvariant, PTL DEF Spec
=============================================================================
