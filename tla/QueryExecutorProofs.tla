------------------------ MODULE QueryExecutorProofs ------------------------
(***************************************************************************)
(* Safety of the GraphQL executor for every set of overlapping requests,   *)
(* every document and every pool of addresses: type correctness, the       *)
(* fail-stop of mutations, one answer per method field, and that a loaded  *)
(* relationship is served to the entity it was loaded for.                 *)
(***************************************************************************)
EXTENDS QueryExecutor, TLAPS

\* Where a request is tells what it is working on.
PcInv ==
  \A r \in Requests :
    /\ pc[r] \in {"calling", "loading", "stored"} =>
         HasField(r) /\ Field(r).kind = "method" /\ ~aborted[r]
    /\ pc[r] \in {"loading", "stored"} => held[r] # NoAddress /\ Field(r).fk
    /\ pc[r] = "done" => ~HasField(r)

TypeInv == TypeOK /\ PcInv

\* The fields of a document are typed.
LEMMA FieldTyped ==
  ASSUME TypeOK, NEW r \in Requests, HasField(r)
  PROVE  /\ pos[r] \in Nat /\ pos[r] + 1 \in 1 .. Len(Fields(r)) + 1
         /\ Len(Fields(r)) \in Nat
         /\ Field(r).fk \in BOOLEAN
         /\ Field(r).kind \in {"method", "unknown", "noGroup"}
         /\ <<r, pos[r]>> \in Related
         /\ \A a \in Addresses : KeyAt(r, a) \in Addresses \X Relations
<1>1. Fields(r) \in Seq(FieldType) /\ Len(Fields(r)) \in Nat
  BY ExecutorAssumption
<1>2. pos[r] \in 1 .. Len(Fields(r))
  BY DEF HasField, Positions
<1>3. Field(r) \in FieldType
  BY <1>1, <1>2 DEF Field
<1>4. <<r, pos[r]>> \in Related
  BY <1>2 DEF Related, Positions
<1>5. ASSUME NEW a \in Addresses PROVE KeyAt(r, a) \in Addresses \X Relations
  BY <1>3 DEF KeyAt, FieldType
<1>. QED BY <1>1, <1>2, <1>3, <1>4, <1>5 DEF FieldType

\* The code of a method runs at a method of a request that goes on.
LEMMA RunningWhere ==
  ASSUME PcInv, NEW r \in Requests, Running(r)
  PROVE  /\ HasField(r) /\ ~aborted[r] /\ Field(r).kind = "method"
         /\ pc[r] \in {"next", "calling"}
BY DEF Running, AtMethod, PcInv

\* A response entry leaves every variable it sets in its type.
LEMMA RespondTyped ==
  ASSUME TypeOK, NEW r \in Requests, HasField(r),
         NEW status \in Statuses, NEW val \in Related \cup {Null},
         NEW result \in Addresses \cup {NoAddress},
         Respond(r, status, val, result)
  PROVE  /\ pc' \in [Requests -> {"idle", "next", "calling", "loading", "stored", "done"}]
         /\ pos' \in [Requests -> Nat \ {0}]
         /\ \A s \in Requests : pos'[s] \in 1 .. Len(Fields(s)) + 1
         /\ held' \in [Requests -> Addresses \cup {NoAddress}]
         /\ answers' \in [Requests -> SUBSET Answer]
         /\ \A s \in Requests \ {r} : pc'[s] = pc[s] /\ pos'[s] = pos[s] /\ held'[s] = held[s]
         /\ pc'[r] = "next"
<1>1. pos[r] + 1 \in 1 .. Len(Fields(r)) + 1 /\ pos[r] \in Nat
  BY FieldTyped
<1>2. [pos |-> pos[r], status |-> status, val |-> val] \in Answer
  BY <1>1 DEF Answer
<1>3. answers' \in [Requests -> SUBSET Answer]
  BY <1>2 DEF Respond, TypeOK
<1>4. \A s \in Requests : pos'[s] = IF s = r THEN pos[r] + 1 ELSE pos[s]
  BY DEF Respond, TypeOK
<1>5. pos' \in [Requests -> Nat \ {0}]
  BY <1>1 DEF Respond, TypeOK
<1>6. \A s \in Requests : pos'[s] \in 1 .. Len(Fields(s)) + 1
  BY <1>1, <1>4 DEF TypeOK
<1>7. held' \in [Requests -> Addresses \cup {NoAddress}]
  BY DEF Respond, TypeOK
<1>8. pc' \in [Requests -> {"idle", "next", "calling", "loading", "stored", "done"}]
  BY DEF Respond, TypeOK
<1>9. \A s \in Requests \ {r} : pc'[s] = pc[s] /\ pos'[s] = pos[s] /\ held'[s] = held[s]
  BY DEF Respond, TypeOK
<1>10. pc'[r] = "next"
  BY DEF Respond, TypeOK
<1>. QED BY <1>3, <1>5, <1>6, <1>7, <1>8, <1>9, <1>10

\* The step of a request leaves the others where they are.
LEMMA PcInvFrame ==
  ASSUME TypeOK, PcInv, NEW r \in Requests,
         \A s \in Requests \ {r} : /\ pc'[s] = pc[s] /\ pos'[s] = pos[s]
                                   /\ held'[s] = held[s] /\ aborted'[s] = aborted[s],
         \/ pc'[r] = "next"
         \/ /\ pc'[r] \in {"calling", "loading", "stored"} =>
                 HasField(r)' /\ Field(r)'.kind = "method" /\ ~aborted'[r]
            /\ pc'[r] \in {"loading", "stored"} => held'[r] # NoAddress /\ Field(r)'.fk
            /\ pc'[r] = "done" => ~HasField(r)'
  PROVE  PcInv'
<1>1. SUFFICES ASSUME NEW s \in Requests
      PROVE /\ pc'[s] \in {"calling", "loading", "stored"} =>
                 HasField(s)' /\ Field(s)'.kind = "method" /\ ~aborted'[s]
            /\ pc'[s] \in {"loading", "stored"} => held'[s] # NoAddress /\ Field(s)'.fk
            /\ pc'[s] = "done" => ~HasField(s)'
  BY DEF PcInv
<1>2. CASE s = r
  BY <1>2
<1>3. CASE s # r
  BY <1>3 DEF PcInv, HasField, Field
<1>. QED BY <1>2, <1>3

\* A response entry, with or without the failure it records, keeps the types.
LEMMA RespondStep ==
  ASSUME TypeInv, NEW r \in Requests, HasField(r),
         NEW status \in Statuses, NEW val \in Related \cup {Null},
         NEW result \in Addresses \cup {NoAddress},
         Respond(r, status, val, result), UNCHANGED results,
         \/ UNCHANGED aborted
         \/ aborted' = [aborted EXCEPT ![r] = AfterFailure(r)]
  PROVE  TypeInv'
<1>1. aborted' \in [Requests -> BOOLEAN] /\ \A s \in Requests \ {r} : aborted'[s] = aborted[s]
  BY DEF TypeInv, TypeOK, AfterFailure
<1>2. TypeOK'
  BY <1>1, RespondTyped DEF TypeInv, TypeOK
<1>3. PcInv'
  BY <1>1, RespondTyped, PcInvFrame DEF TypeInv
<1>. QED BY <1>2, <1>3 DEF TypeInv

\* The initial states are typed.
LEMMA TypeInit == Init => TypeInv
<1>1. ASSUME NEW r \in Requests PROVE Len(Fields(r)) \in Nat
  BY ExecutorAssumption
<1>. QED BY <1>1 DEF Init, TypeInv, TypeOK, PcInv

\* Every step of the code keeps the types.
LEMMA TypeStep == TypeInv /\ [Next]_vars => TypeInv'
<1>. SUFFICES ASSUME TypeInv, [Next]_vars PROVE TypeInv'
  OBVIOUS
<1>. USE DEF TypeInv
<1>1. ASSUME NEW r \in Requests, BeginRequest(r) PROVE TypeInv'
  <2>1. TypeOK'
    BY <1>1 DEF BeginRequest, TypeOK
  <2>2. PcInv'
    BY <1>1, PcInvFrame DEF BeginRequest, TypeOK
  <2>. QED BY <2>1, <2>2
<1>2. ASSUME NEW r \in Requests, Reject(r) PROVE TypeInv'
  <2>1. HasField(r) /\ Respond(r, "rejected", Null, held[r]) /\ UNCHANGED <<results, aborted>>
    BY <1>2 DEF Reject
  <2>. QED BY <2>1, RespondStep DEF TypeOK, Statuses
<1>3. ASSUME NEW r \in Requests, Skip(r) PROVE TypeInv'
  <2>1. HasField(r) /\ Respond(r, "skipped", Null, held[r]) /\ UNCHANGED <<results, aborted>>
    BY <1>3 DEF Skip
  <2>. QED BY <2>1, RespondStep DEF TypeOK, Statuses
<1>4. ASSUME NEW r \in Requests, CallMethod(r) PROVE TypeInv'
  <2>1. TypeOK'
    BY <1>4 DEF CallMethod, TypeOK
  <2>2. HasField(r)' /\ Field(r)'.kind = "method" /\ ~aborted'[r]
    BY <1>4 DEF CallMethod, AtMethod, HasField, Field
  <2>3. /\ pc'[r] = "calling"
        /\ \A s \in Requests \ {r} : pc'[s] = pc[s] /\ held'[s] = held[s]
    BY <1>4 DEF CallMethod, TypeOK
  <2>4. UNCHANGED <<pos, aborted>>
    BY <1>4 DEF CallMethod
  <2>5. PcInv'
    BY <2>2, <2>3, <2>4, PcInvFrame
  <2>. QED BY <2>1, <2>5
<1>5. ASSUME NEW r \in Requests, MethodFails(r) PROVE TypeInv'
  <2>1. HasField(r) /\ held[r] \in Addresses \cup {NoAddress}
    BY <1>5 DEF MethodFails, AtMethod, PcInv, TypeOK
  <2>2. /\ Respond(r, "failed", Null, held[r]) /\ UNCHANGED results
        /\ aborted' = [aborted EXCEPT ![r] = AfterFailure(r)]
    BY <1>5 DEF MethodFails, Fail
  <2>. QED BY <2>1, <2>2, RespondStep DEF Statuses
<1>6. ASSUME NEW r \in Requests, NEW a \in Addresses, MethodReturns(r, a) PROVE TypeInv'
  <2>1. TypeOK'
    BY <1>6 DEF MethodReturns, TypeOK
  <2>2. HasField(r)' /\ Field(r)'.kind = "method" /\ ~aborted'[r] /\ Field(r)'.fk
    BY <1>6, RunningWhere DEF MethodReturns, HasField, Field
  <2>3. /\ pc'[r] = "loading" /\ held'[r] # NoAddress
        /\ \A s \in Requests \ {r} : pc'[s] = pc[s] /\ held'[s] = held[s]
    BY <1>6, ExecutorAssumption DEF MethodReturns, TypeOK
  <2>4. UNCHANGED <<pos, aborted>>
    BY <1>6 DEF MethodReturns
  <2>5. PcInv'
    BY <2>2, <2>3, <2>4, PcInvFrame
  <2>. QED BY <2>1, <2>5
<1>7. ASSUME NEW r \in Requests, NEW a \in Addresses, ReturnsWithoutLoad(r, a) PROVE TypeInv'
  <2>. DEFINE val == IF results[KeyAt(r, a)] = Miss THEN Null ELSE results[KeyAt(r, a)]
  <2>1. HasField(r) /\ KeyAt(r, a) \in Addresses \X Relations
    BY <1>7, RunningWhere, FieldTyped DEF ReturnsWithoutLoad
  <2>2. Respond(r, "served", val, a) /\ UNCHANGED <<results, aborted>>
    BY <1>7 DEF ReturnsWithoutLoad
  <2>3. val \in Related \cup {Null}
    BY <2>1 DEF TypeOK
  <2>. HIDE DEF val
  <2>. QED BY <2>1, <2>2, <2>3, RespondStep DEF TypeOK, Statuses
<1>8. ASSUME NEW r \in Requests, LoadResolves(r) PROVE TypeInv'
  <2>1. HasField(r) /\ Field(r).kind = "method" /\ ~aborted[r] /\ Field(r).fk
        /\ held[r] # NoAddress
    BY <1>8 DEF LoadResolves, PcInv
  <2>2. <<r, pos[r]>> \in Related /\ KeyAt(r, held[r]) \in Addresses \X Relations
    BY <2>1, FieldTyped DEF TypeOK
  <2>3. TypeOK'
    BY <1>8, <2>2 DEF LoadResolves, TypeOK
  <2>4. /\ pc'[r] = "stored" /\ \A s \in Requests \ {r} : pc'[s] = pc[s]
        /\ UNCHANGED <<pos, held, aborted>>
    BY <1>8 DEF LoadResolves, TypeOK
  <2>5. PcInv'
    BY <2>1, <2>4, PcInvFrame DEF HasField, Field
  <2>. QED BY <2>3, <2>5
<1>9. ASSUME NEW r \in Requests, Serialize(r) PROVE TypeInv'
  <2>1. HasField(r)
    BY <1>9 DEF Serialize, PcInv
  <2>2. Respond(r, "served", results[KeyAt(r, held[r])], held[r]) /\ UNCHANGED <<results, aborted>>
    BY <1>9 DEF Serialize
  <2>3. held[r] \in Addresses
    BY <1>9 DEF Serialize, PcInv, TypeOK
  <2>4. results[KeyAt(r, held[r])] \in Related \cup {Null}
    BY <1>9, <2>1, <2>3, FieldTyped DEF Serialize, TypeOK
  <2>. QED BY <2>1, <2>2, <2>3, <2>4, RespondStep DEF TypeOK, Statuses
<1>10. ASSUME NEW r \in Requests, SerializeDetached(r) PROVE TypeInv'
  <2>1. HasField(r) /\ held[r] \in Addresses \cup {NoAddress}
    BY <1>10 DEF SerializeDetached, PcInv, TypeOK
  <2>2. /\ Respond(r, "lost", Null, held[r]) /\ UNCHANGED results
        /\ aborted' = [aborted EXCEPT ![r] = AfterFailure(r)]
    BY <1>10 DEF SerializeDetached, Fail
  <2>. QED BY <2>1, <2>2, RespondStep DEF Statuses
<1>11. ASSUME NEW r \in Requests, FinishRequest(r) PROVE TypeInv'
  <2>1. TypeOK'
    BY <1>11 DEF FinishRequest, TypeOK
  <2>2. /\ pc'[r] = "done" /\ ~HasField(r)'
        /\ \A s \in Requests \ {r} : pc'[s] = pc[s]
        /\ UNCHANGED <<pos, held, aborted>>
    BY <1>11 DEF FinishRequest, TypeOK, HasField
  <2>3. PcInv'
    BY <2>2, PcInvFrame
  <2>. QED BY <2>1, <2>3
<1>12. CASE UNCHANGED vars
  BY <1>12 DEF vars, TypeOK, PcInv, HasField, Field
<1>. QED
  BY <1>1, <1>2, <1>3, <1>4, <1>5, <1>6, <1>7, <1>8, <1>9, <1>10, <1>11, <1>12
  DEF Next, Step, Terminated

\* Every reachable state of the executor is well typed.
THEOREM TypeCorrect == Spec => []TypeOK
<1>1. TypeInv => TypeOK
  BY DEF TypeInv
<1>. QED BY <1>1, TypeInit, TypeStep, PTL DEF Spec

-----------------------------------------------------------------------------
(* One entry per method field, in the order of the document.               *)

\* The entries cover the fields before the current one, once each.
AnswersInv ==
  \A r \in Requests :
    /\ \A a \in answers[r] : a.pos \in 1 .. pos[r] - 1
    /\ \A i \in 1 .. pos[r] - 1 : \E a \in answers[r] : a.pos = i
    /\ \A a, b \in answers[r] : a.pos = b.pos => a = b

\* A failure is recorded in the request that met it, and only a mutation
\* skips: what is skipped comes after one, what is not does not.
FailStopInv ==
  \A r \in Requests :
    /\ aborted[r] <=> /\ Document[r].type = "mutation"
                      /\ \E b \in answers[r] : b.status \in Failures
    /\ \A a \in answers[r] :
         Fields(r)[a.pos].kind # "noGroup" =>
           (a.status = "skipped" <=>
              /\ Document[r].type = "mutation"
              /\ \E b \in answers[r] : b.pos < a.pos /\ b.status \in Failures)

\* The entities two requests work on are live, so at two addresses, and an
\* address holds what was loaded for its entity, unless it was emptied since.
OwnInv ==
  /\ \A r, s \in Requests : held[r] = held[s] /\ held[r] # NoAddress => r = s
  /\ \A r \in Requests :
       pc[r] = "stored" => results[KeyAt(r, held[r])] \in {Miss, <<r, pos[r]>>}
  /\ LoadedRelationshipIsOwn

\* What Respond does to the response of its request, and of the others.
LEMMA RespondEffect ==
  ASSUME TypeOK, NEW r \in Requests, NEW status, NEW val, NEW result,
         Respond(r, status, val, result)
  PROVE  /\ pos'[r] = pos[r] + 1
         /\ answers'[r] = answers[r] \cup
                            {[pos |-> pos[r], status |-> status, val |-> val]}
         /\ \A s \in Requests \ {r} : pos'[s] = pos[s] /\ answers'[s] = answers[s]
BY DEF Respond, TypeOK

\* The entry a step makes of its field, and the failure it records.
Entry(r, status, val, result) ==
  /\ HasField(r)
  /\ Respond(r, status, val, result)
  /\ IF status \in Failures
     THEN ~aborted[r] /\ aborted' = [aborted EXCEPT ![r] = AfterFailure(r)]
     ELSE UNCHANGED aborted
  /\ Field(r).kind # "noGroup" => (status = "skipped" <=> aborted[r])

\* A step makes no entry, or one that skips exactly after a failure.
LEMMA StepShape ==
  ASSUME TypeInv, NEW r \in Requests, Step(r)
  PROVE  \/ UNCHANGED <<pos, answers, aborted>>
         \/ \E status, val, result : Entry(r, status, val, result)
<1>. USE DEF TypeInv
<1>1. CASE CallMethod(r) \/ LoadResolves(r) \/ FinishRequest(r)
  BY <1>1 DEF CallMethod, LoadResolves, FinishRequest
<1>2. ASSUME NEW a \in Addresses, MethodReturns(r, a)
      PROVE  UNCHANGED <<pos, answers, aborted>>
  BY <1>2 DEF MethodReturns
<1>3. CASE Reject(r)
  <2>1. Entry(r, "rejected", Null, held[r])
    BY <1>3 DEF Reject, Entry, Failures
  <2>. QED BY <2>1
<1>4. CASE Skip(r)
  <2>1. Entry(r, "skipped", Null, held[r])
    BY <1>4 DEF Skip, Entry, Failures
  <2>. QED BY <2>1
<1>5. CASE MethodFails(r)
  <2>1. Entry(r, "failed", Null, held[r])
    BY <1>5 DEF MethodFails, AtMethod, Fail, Entry, Failures, PcInv
  <2>. QED BY <2>1
<1>6. ASSUME NEW a \in Addresses, ReturnsWithoutLoad(r, a)
      PROVE  \E status, val, result : Entry(r, status, val, result)
  <2>1. Entry(r, "served",
              IF results[KeyAt(r, a)] = Miss THEN Null ELSE results[KeyAt(r, a)], a)
    BY <1>6, RunningWhere DEF ReturnsWithoutLoad, Entry, Failures
  <2>. QED BY <2>1
<1>7. CASE Serialize(r)
  <2>1. Entry(r, "served", results[KeyAt(r, held[r])], held[r])
    BY <1>7 DEF Serialize, Entry, Failures, PcInv
  <2>. QED BY <2>1
<1>8. CASE SerializeDetached(r)
  <2>1. Entry(r, "lost", Null, held[r])
    BY <1>8 DEF SerializeDetached, Fail, Entry, Failures, PcInv
  <2>. QED BY <2>1
<1>. QED BY <1>1, <1>2, <1>3, <1>4, <1>5, <1>6, <1>7, <1>8 DEF Step

\* An empty response, before the first field.
LEMMA AnswersInit == Init => AnswersInv
<1>. SUFFICES ASSUME Init, NEW r \in Requests
              PROVE  /\ \A a \in answers[r] : a.pos \in 1 .. pos[r] - 1
                     /\ \A i \in 1 .. pos[r] - 1 : \E a \in answers[r] : a.pos = i
                     /\ \A a, b \in answers[r] : a.pos = b.pos => a = b
  BY DEF AnswersInv
<1>1. pos[r] = 1 /\ answers[r] = {}
  BY DEF Init
<1>. QED BY <1>1

\* Every step makes at most the entry of the current field.
LEMMA AnswersStep == TypeInv /\ AnswersInv /\ [Next]_vars => AnswersInv'
<1>. SUFFICES ASSUME TypeInv, AnswersInv, [Next]_vars PROVE AnswersInv'
  OBVIOUS
<1>1. ASSUME NEW r \in Requests, NEW status, NEW val, NEW result,
             Entry(r, status, val, result)
      PROVE  AnswersInv'
  <2>. DEFINE e == [pos |-> pos[r], status |-> status, val |-> val]
  <2>1. /\ pos'[r] = pos[r] + 1
        /\ answers'[r] = answers[r] \cup {e}
        /\ \A s \in Requests \ {r} : pos'[s] = pos[s] /\ answers'[s] = answers[s]
    BY <1>1, RespondEffect DEF Entry, TypeInv
  <2>2. e.pos = pos[r] /\ pos[r] \in Nat \ {0}
    BY DEF TypeInv, TypeOK
  <2>3. \A a \in answers[r] : a.pos \in 1 .. pos[r] - 1
    BY DEF AnswersInv
  <2>. HIDE DEF e
  <2>4. \A a \in answers'[r] : a.pos \in 1 .. pos'[r] - 1
    BY <2>1, <2>2, <2>3
  <2>5. \A i \in 1 .. pos'[r] - 1 : \E a \in answers'[r] : a.pos = i
    BY <2>1, <2>2 DEF AnswersInv
  <2>6. \A a, b \in answers'[r] : a.pos = b.pos => a = b
    BY <2>1, <2>2, <2>3 DEF AnswersInv
  <2>. QED BY <2>1, <2>4, <2>5, <2>6 DEF AnswersInv
<1>2. CASE UNCHANGED <<pos, answers, aborted>>
  BY <1>2 DEF AnswersInv
<1>. QED
  BY <1>1, <1>2, StepShape DEF Next, BeginRequest, Terminated, vars

\* Every method field of a document gets one entry in the response.
THEOREM OneAnswer == Spec => []OneAnswerPerField
<1>1. TypeInv /\ AnswersInv => OneAnswerPerField
  <2>. SUFFICES ASSUME TypeInv, AnswersInv, NEW r \in Requests, pc[r] = "done"
                PROVE  {a.pos : a \in answers[r]} = Positions(r)
    BY DEF OneAnswerPerField, AnswersInv
  <2>0. Len(Fields(r)) \in Nat
    BY ExecutorAssumption
  <2>1. pos[r] = Len(Fields(r)) + 1
    BY <2>0 DEF TypeInv, TypeOK, PcInv, HasField, Positions
  <2>. QED BY <2>0, <2>1 DEF AnswersInv, Positions
<1>. QED BY <1>1, TypeInit, TypeStep, AnswersInit, AnswersStep, PTL DEF Spec

-----------------------------------------------------------------------------
(* Operation-scope fail-stop.                                              *)

\* Nothing has failed before the first field.
LEMMA FailStopInit == Init => FailStopInv
<1>. SUFFICES ASSUME Init, NEW r \in Requests
              PROVE  answers[r] = {} /\ ~aborted[r]
  BY DEF FailStopInv
<1>. QED BY DEF Init

\* A failure of an operation stays recorded across its entity groups.
LEMMA FailStopStep == TypeInv /\ AnswersInv /\ FailStopInv /\ [Next]_vars => FailStopInv'
<1>. SUFFICES ASSUME TypeInv, AnswersInv, FailStopInv, [Next]_vars PROVE FailStopInv'
  OBVIOUS
<1>1. ASSUME NEW r \in Requests, NEW status, NEW val, NEW result,
             Entry(r, status, val, result)
      PROVE  FailStopInv'
  <2>. DEFINE e == [pos |-> pos[r], status |-> status, val |-> val]
              mutation == Document[r].type = "mutation"
              failedBefore(a) == \E b \in answers[r] : b.pos < a.pos /\ b.status \in Failures
  <2>1. /\ answers'[r] = answers[r] \cup {e}
        /\ \A s \in Requests \ {r} : answers'[s] = answers[s]
    BY <1>1, RespondEffect DEF Entry, TypeInv
  <2>2. e.pos = pos[r] /\ e.status = status /\ pos[r] \in Nat
    BY DEF TypeInv, TypeOK
  <2>3. \A a \in answers[r] : a.pos \in Nat /\ a.pos < pos[r]
    BY <2>2 DEF AnswersInv
  <2>. HIDE DEF e
  <2>4. /\ status \in Failures => ~aborted[r] /\ aborted'[r] = mutation
        /\ status \notin Failures => aborted'[r] = aborted[r]
        /\ \A s \in Requests \ {r} : aborted'[s] = aborted[s]
    BY <1>1 DEF Entry, AfterFailure, TypeInv, TypeOK
  <2>5. Field(r).kind # "noGroup" => (status = "skipped" <=> aborted[r])
    BY <1>1 DEF Entry
  <2>6. aborted[r] <=> mutation /\ \E b \in answers[r] : b.status \in Failures
    BY DEF FailStopInv
  <2>7. aborted'[r] <=> mutation /\ \E b \in answers'[r] : b.status \in Failures
    BY <2>1, <2>2, <2>4, <2>6
  <2>8. ASSUME NEW a \in answers'[r], Fields(r)[a.pos].kind # "noGroup"
        PROVE  a.status = "skipped" <=>
                 mutation /\ \E b \in answers'[r] : b.pos < a.pos /\ b.status \in Failures
    <3>1. (\E b \in answers'[r] : b.pos < a.pos /\ b.status \in Failures) <=> failedBefore(a)
      BY <2>1, <2>2, <2>3
    <3>2. CASE a \in answers[r]
      BY <2>8, <3>1, <3>2 DEF FailStopInv
    <3>3. CASE a = e
      <4>1. failedBefore(a) <=> \E b \in answers[r] : b.status \in Failures
        BY <2>2, <2>3, <3>3
      <4>2. Field(r).kind # "noGroup"
        BY <2>2, <2>8, <3>3 DEF Field
      <4>. QED BY <2>2, <2>5, <2>6, <3>1, <3>3, <4>1, <4>2
    <3>. QED BY <2>1, <3>2, <3>3
  <2>9. ASSUME NEW s \in Requests \ {r}
        PROVE  answers'[s] = answers[s] /\ aborted'[s] = aborted[s]
    BY <2>1, <2>4
  <2>. QED BY <2>7, <2>8, <2>9 DEF FailStopInv
<1>2. CASE UNCHANGED <<pos, answers, aborted>>
  BY <1>2 DEF FailStopInv
<1>. QED
  BY <1>1, <1>2, StepShape DEF Next, BeginRequest, Terminated, vars

\* A method is skipped exactly when it belongs to a mutation and an earlier
\* method of the operation failed.
THEOREM FailStop == Spec => []SkippedIffPriorFailure
<1>1. Init => FailStopInv
  BY FailStopInit
<1>2. FailStopInv => SkippedIffPriorFailure
  BY DEF FailStopInv, SkippedIffPriorFailure
<1>. QED BY <1>1, <1>2, TypeInit, TypeStep, AnswersInit, AnswersStep,
         FailStopStep, PTL DEF Spec

-----------------------------------------------------------------------------
(* Results stored under addresses.                                         *)

\* An entry keeps OwnInv if what it serves is its own, and the address it
\* goes on holding is no other request's.
LEMMA OwnEntry ==
  ASSUME TypeInv, OwnInv, NEW r \in Requests,
         NEW status, NEW val, NEW result,
         HasField(r), Respond(r, status, val, result), UNCHANGED results,
         status = "served" /\ Field(r).fk => val = <<r, pos[r]>>,
         \A s \in Requests \ {r} : result # NoAddress => held[s] # result
  PROVE  OwnInv'
<1>. DEFINE e == [pos |-> pos[r], status |-> status, val |-> val]
<1>1. /\ answers'[r] = answers[r] \cup {e}
      /\ \A s \in Requests \ {r} : answers'[s] = answers[s]
  BY RespondEffect DEF TypeInv
<1>2. e.pos = pos[r] /\ e.status = status /\ e.val = val
  OBVIOUS
<1>. HIDE DEF e
<1>3. ASSUME NEW a \in answers'[r], a.status = "served", Fields(r)[a.pos].fk
      PROVE  a.val = <<r, a.pos>>
  BY <1>1, <1>2, <1>3 DEF OwnInv, LoadedRelationshipIsOwn, Field
<1>4. LoadedRelationshipIsOwn'
  BY <1>1, <1>3 DEF OwnInv, LoadedRelationshipIsOwn
<1>5. /\ pc'[r] = "next" /\ held'[r] \in {NoAddress, result}
      /\ \A s \in Requests \ {r} : pc'[s] = pc[s] /\ pos'[s] = pos[s] /\ held'[s] = held[s]
  BY DEF Respond, TypeInv, TypeOK
<1>6. \A s, t \in Requests : held'[s] = held'[t] /\ held'[s] # NoAddress => s = t
  BY <1>5 DEF OwnInv
<1>7. \A s \in Requests : pc'[s] = "stored" => results'[KeyAt(s, held[s])'] \in {Miss, <<s, pos'[s]>>}
  BY <1>5 DEF OwnInv, KeyAt, Field
<1>. QED BY <1>4, <1>6, <1>7 DEF OwnInv

\* No entity is held and nothing was served.
LEMMA OwnInit == Init => OwnInv
BY DEF Init, OwnInv, LoadedRelationshipIsOwn

\* No step of another request reaches what a request has stored.
LEMMA OwnStep == TypeInv /\ OwnInv /\ [Next]_vars => OwnInv'
<1>. SUFFICES ASSUME TypeInv, OwnInv, [Next]_vars PROVE OwnInv'
  OBVIOUS
<1>a. \A r, s \in Requests : held[r] = held[s] /\ held[r] # NoAddress => r = s
  BY DEF OwnInv
<1>1. ASSUME NEW r \in Requests, BeginRequest(r) PROVE OwnInv'
  <2>1. /\ results' = [key \in Addresses \X Relations |-> Miss]
        /\ UNCHANGED <<pos, held, answers>>
        /\ \A s \in Requests : pc'[s] = "stored" => pc[s] = "stored"
    BY <1>1 DEF BeginRequest, TypeInv, TypeOK
  <2>2. ASSUME NEW s \in Requests, pc[s] = "stored"
        PROVE  results'[KeyAt(s, held[s])'] = Miss
    <3>1. KeyAt(s, held[s]) \in Addresses \X Relations
      BY <2>2, FieldTyped DEF TypeInv, TypeOK, PcInv
    <3>2. KeyAt(s, held[s])' = KeyAt(s, held[s])
      BY <2>1 DEF KeyAt, Field
    <3>. QED BY <2>1, <3>1, <3>2
  <2>. QED BY <2>1, <2>2 DEF OwnInv, LoadedRelationshipIsOwn
<1>2. ASSUME NEW r \in Requests,
             Reject(r) \/ Skip(r) \/ MethodFails(r) \/ SerializeDetached(r)
      PROVE  OwnInv'
  <2>1. /\ HasField(r) /\ UNCHANGED results
        /\ \E status \in Statuses \ {"served"} : Respond(r, status, Null, held[r])
    BY <1>2 DEF Reject, Skip, MethodFails, AtMethod, SerializeDetached, Fail, Statuses,
                TypeInv, PcInv
  <2>. QED BY <2>1, <1>a, OwnEntry
<1>3. ASSUME NEW r \in Requests, CallMethod(r) \/ FinishRequest(r) PROVE OwnInv'
  <2>1. /\ UNCHANGED <<pos, results, answers>>
        /\ \A s \in Requests : pc'[s] = "stored" => pc[s] = "stored" /\ s # r
        /\ \A s \in Requests : held'[s] \in {held[s], NoAddress}
        /\ \A s \in Requests \ {r} : held'[s] = held[s]
    BY <1>3 DEF CallMethod, FinishRequest, TypeInv, TypeOK
  <2>. QED BY <2>1 DEF OwnInv, LoadedRelationshipIsOwn, KeyAt, Field
<1>4. ASSUME NEW r \in Requests, NEW a \in Addresses, MethodReturns(r, a) PROVE OwnInv'
  <2>1. /\ UNCHANGED <<pos, results, answers>>
        /\ \A s \in Requests : pc'[s] = "stored" => pc[s] = "stored" /\ s # r
        /\ \A s \in Requests : held'[s] = IF s = r THEN a ELSE held[s]
        /\ \A s \in Requests : held[s] # a
    BY <1>4 DEF MethodReturns, TypeInv, TypeOK
  <2>. QED BY <2>1 DEF OwnInv, LoadedRelationshipIsOwn, KeyAt, Field
<1>5. ASSUME NEW r \in Requests, NEW a \in Addresses, ReturnsWithoutLoad(r, a) PROVE OwnInv'
  <2>1. /\ HasField(r) /\ UNCHANGED results /\ ~Field(r).fk
        /\ \E val : Respond(r, "served", val, a)
        /\ \A s \in Requests : held[s] # a
    BY <1>5, RunningWhere DEF ReturnsWithoutLoad, TypeInv
  <2>. QED BY <2>1, OwnEntry
<1>6. ASSUME NEW r \in Requests, LoadResolves(r) PROVE OwnInv'
  <2>1. /\ UNCHANGED <<pos, held, answers>>
        /\ \A s \in Requests \ {r} : pc'[s] = pc[s]
        /\ results' = [results EXCEPT ![KeyAt(r, held[r])] = <<r, pos[r]>>]
        /\ HasField(r) /\ held[r] \in Addresses
    BY <1>6 DEF LoadResolves, TypeInv, TypeOK, PcInv
  <2>k. \A s \in Requests : KeyAt(s, held[s])' = KeyAt(s, held[s])
    BY <2>1 DEF KeyAt, Field
  <2>2. results'[KeyAt(r, held[r])] = <<r, pos[r]>>
    BY <2>1, FieldTyped DEF TypeInv, TypeOK
  <2>3. ASSUME NEW s \in Requests \ {r}, pc[s] = "stored"
        PROVE  results'[KeyAt(s, held[s])] = results[KeyAt(s, held[s])]
    <3>1. held[s] # held[r] /\ held[s] \in Addresses /\ HasField(s)
      BY <1>a, <2>1, <2>3 DEF TypeInv, TypeOK, PcInv
    <3>2. /\ KeyAt(s, held[s]) \in Addresses \X Relations
          /\ KeyAt(s, held[s]) # KeyAt(r, held[r])
      BY <3>1, FieldTyped DEF TypeInv, KeyAt
    <3>. QED BY <2>1, <3>2 DEF TypeInv, TypeOK
  <2>. QED BY <2>1, <2>k, <2>2, <2>3 DEF OwnInv, LoadedRelationshipIsOwn
<1>7. ASSUME NEW r \in Requests, Serialize(r) PROVE OwnInv'
  <2>1. /\ HasField(r) /\ UNCHANGED results
        /\ Respond(r, "served", results[KeyAt(r, held[r])], held[r])
        /\ results[KeyAt(r, held[r])] = <<r, pos[r]>>
    BY <1>7 DEF Serialize, TypeInv, PcInv, OwnInv
  <2>. QED BY <2>1, <1>a, OwnEntry
<1>8. CASE UNCHANGED vars
  BY <1>8 DEF vars, OwnInv, LoadedRelationshipIsOwn, KeyAt, Field
<1>. QED
  BY <1>1, <1>2, <1>3, <1>4, <1>5, <1>6, <1>7, <1>8 DEF Next, Step, Terminated

\* A served entity with a non-null FK carries the relationship that was
\* loaded for it, whatever the overlapping requests store and empty.
THEOREM LoadedIsOwn == Spec => []LoadedRelationshipIsOwn
<1>1. Init => OwnInv
  BY OwnInit
<1>2. OwnInv => LoadedRelationshipIsOwn
  BY DEF OwnInv
<1>. QED BY <1>1, <1>2, TypeInit, TypeStep, OwnStep, PTL DEF Spec
-----------------------------------------------------------------------------
(* Refinement of SerialExecution.                                          *)

\* What an entry of the current field says, as SerialExecution allows it.
LEMMA EntryAllowed ==
  ASSUME TypeInv, FailStopInv, NEW r \in Requests, HasField(r), pc[r] \notin {"idle", "done"},
         NEW status \in Statuses, NEW val \in Related \cup {Null},
         NEW result \in Addresses \cup {NoAddress},
         Respond(r, status, val, result),
         Serial!Outcome(r, status, val)
  PROVE  Serial!AnswerDue(r)
<1>1. pos[r] <= Len(Document[r].fields)
  <2>1. Len(Fields(r)) \in Nat /\ pos[r] \in 1 .. Len(Fields(r))
    BY ExecutorAssumption DEF HasField, Positions
  <2>. QED BY <2>1 DEF Fields
<1>2. /\ Phase(r) = "running"
      /\ [s \in Requests |-> Phase(s)]' = [s \in Requests |-> Phase(s)]
  BY DEF Respond, TypeInv, TypeOK, Phase
<1>3. /\ pos' = [pos EXCEPT ![r] = @ + 1]
      /\ answers' = [answers EXCEPT ![r] =
                        @ \cup {[pos |-> pos[r], status |-> status, val |-> val]}]
  BY DEF Respond
<1>4. /\ status \in {"served", "failed", "lost", "skipped", "rejected"}
      /\ val \in Serial!Servable(r) \cup {<<>>}
  BY DEF Statuses, Serial!Outcome
<1>. QED BY <1>1, <1>2, <1>3, <1>4 DEF Serial!AnswerDue, Serial!Selected

\* A request has stopped exactly when it was marked so.
LEMMA StoppedIsAborted ==
  ASSUME FailStopInv, NEW r \in Requests
  PROVE  Serial!Stopped(r) <=> aborted[r]
BY DEF FailStopInv, Failures, Serial!Stopped

\* Every step of a request is one of SerialExecution, or stutters.
LEMMA SerialStep ==
  TypeInv /\ AnswersInv /\ FailStopInv /\ OwnInv /\ [Next]_vars
    => [Serial!SerialNext]_(Serial!serialVars)
<1>. SUFFICES ASSUME TypeInv, AnswersInv, FailStopInv, OwnInv, [Next]_vars
              PROVE  [Serial!SerialNext]_(Serial!serialVars)
  OBVIOUS
<1>. USE DEF TypeInv
<1>t. /\ DOMAIN pc = Requests /\ held \in [Requests -> Addresses \cup {NoAddress}]
      /\ results \in [Addresses \X Relations -> Related \cup {Null, Miss}]
      /\ Null \in Related \cup {Null}
  BY DEF TypeOK
<1>d. ASSUME NEW r \in Requests
      PROVE  Serial!Due(r) = Field(r)
  BY DEF Serial!Due, Serial!Selected, Field, Fields
<1>1. ASSUME NEW r \in Requests, BeginRequest(r) PROVE Serial!Begin(r)
  <2>1. /\ pc[r] = "idle" /\ pc' = [pc EXCEPT ![r] = "next"]
        /\ UNCHANGED <<pos, answers>>
    BY <1>1 DEF BeginRequest
  <2>2. [s \in Requests |-> Phase(s)]' = [[s \in Requests |-> Phase(s)] EXCEPT ![r] = "running"]
    BY <2>1 DEF Phase, TypeOK
  <2>. QED BY <2>1, <2>2 DEF Serial!Begin, Phase
<1>2. ASSUME NEW r \in Requests, Reject(r) PROVE Serial!AnswerDue(r)
  <2>1. /\ pc[r] = "next" /\ HasField(r) /\ Respond(r, "rejected", Null, held[r])
        /\ Field(r).kind = "noGroup" \/ (Field(r).kind = "unknown" /\ ~aborted[r])
    BY <1>2 DEF Reject
  <2>2. Serial!Outcome(r, "rejected", Null)
    BY <2>1, <1>d, StoppedIsAborted DEF Serial!Outcome, Null
  <2>. QED BY <2>1, <2>2, <1>t, EntryAllowed DEF Statuses
<1>3. ASSUME NEW r \in Requests, Skip(r) PROVE Serial!AnswerDue(r)
  <2>1. /\ pc[r] = "next" /\ HasField(r) /\ Respond(r, "skipped", Null, held[r])
        /\ aborted[r] /\ Field(r).kind # "noGroup"
    BY <1>3 DEF Skip
  <2>2. Serial!Outcome(r, "skipped", Null)
    BY <2>1, <1>d, StoppedIsAborted DEF Serial!Outcome, Null
  <2>. QED BY <2>1, <2>2, <1>t, EntryAllowed DEF Statuses
<1>4. ASSUME NEW r \in Requests, MethodFails(r) \/ SerializeDetached(r)
      PROVE  Serial!AnswerDue(r)
  <2>1. /\ pc[r] \in {"next", "calling", "loading", "stored"} /\ HasField(r)
        /\ ~aborted[r] /\ Field(r).kind = "method"
        /\ \E status \in {"failed", "lost"} : Respond(r, status, Null, held[r])
    BY <1>4 DEF MethodFails, AtMethod, SerializeDetached, Fail, PcInv
  <2>2. ASSUME NEW status \in {"failed", "lost"}
        PROVE  Serial!Outcome(r, status, Null)
    BY <2>1, <1>d, StoppedIsAborted DEF Serial!Outcome, Null
  <2>. QED BY <2>1, <2>2, <1>t, EntryAllowed DEF Statuses
<1>5. ASSUME NEW r \in Requests, NEW a \in Addresses, ReturnsWithoutLoad(r, a)
      PROVE  Serial!AnswerDue(r)
  <2>. DEFINE val == IF results[KeyAt(r, a)] = Miss THEN Null ELSE results[KeyAt(r, a)]
  <2>1. /\ pc[r] \in {"next", "calling"} /\ HasField(r) /\ ~Field(r).fk
        /\ ~aborted[r] /\ Field(r).kind = "method"
        /\ Respond(r, "served", val, a)
    BY <1>5, RunningWhere DEF ReturnsWithoutLoad
  <2>2. val \in Related \cup {Null}
    BY <1>t, <2>1, FieldTyped
  <2>. HIDE DEF val
  <2>3. val \in Serial!Servable(r)
    <3>1. CASE val \in Related
      <4>1. Related \subseteq Serial!Servable(r)
        BY <2>1, <1>d DEF Related, Positions, Fields, Serial!Servable, Serial!Selected
      <4>. QED BY <3>1, <4>1
    <3>2. CASE val = Null
      BY <2>1, <3>2, <1>d DEF Serial!Servable, Null
    <3>. QED BY <2>2, <3>1, <3>2
  <2>4. Serial!Outcome(r, "served", val)
    BY <2>1, <2>3, <1>d, StoppedIsAborted DEF Serial!Outcome
  <2>. QED BY <2>1, <2>2, <2>4, <1>t, EntryAllowed DEF Statuses
<1>6. ASSUME NEW r \in Requests, Serialize(r) PROVE Serial!AnswerDue(r)
  <2>1. /\ pc[r] = "stored" /\ HasField(r) /\ Field(r).fk
        /\ ~aborted[r] /\ Field(r).kind = "method"
        /\ Respond(r, "served", results[KeyAt(r, held[r])], held[r])
        /\ results[KeyAt(r, held[r])] = <<r, pos[r]>>
    BY <1>6 DEF Serialize, PcInv, OwnInv
  <2>2. <<r, pos[r]>> \in Related
    BY <2>1, FieldTyped
  <2>3. <<r, pos[r]>> \in Serial!Servable(r)
    BY <2>1, <1>d DEF Serial!Servable
  <2>4. Serial!Outcome(r, "served", <<r, pos[r]>>)
    BY <2>1, <2>3, <1>d, StoppedIsAborted DEF Serial!Outcome
  <2>. QED BY <2>1, <2>2, <2>4, <1>t, EntryAllowed DEF Statuses
<1>7. ASSUME NEW r \in Requests, FinishRequest(r) PROVE Serial!End(r)
  <2>1. /\ pc[r] = "next" /\ ~HasField(r) /\ pc' = [pc EXCEPT ![r] = "done"]
        /\ UNCHANGED <<pos, answers>>
    BY <1>7 DEF FinishRequest
  <2>2. Len(Fields(r)) \in Nat /\ pos[r] \in 1 .. Len(Fields(r)) + 1
    BY ExecutorAssumption DEF TypeOK
  <2>3. pos[r] > Len(Document[r].fields)
    BY <2>1, <2>2 DEF HasField, Positions, Fields
  <2>4. [s \in Requests |-> Phase(s)]' = [[s \in Requests |-> Phase(s)] EXCEPT ![r] = "done"]
    BY <2>1 DEF Phase, TypeOK
  <2>. QED BY <2>1, <2>3, <2>4 DEF Serial!End, Serial!Selected, Phase
<1>8. ASSUME NEW r \in Requests,
             \/ CallMethod(r) \/ LoadResolves(r)
             \/ \E a \in Addresses : MethodReturns(r, a)
      PROVE  UNCHANGED Serial!serialVars
  <2>1. /\ UNCHANGED <<pos, answers>>
        /\ \E p \in {"calling", "loading", "stored"} : pc' = [pc EXCEPT ![r] = p]
        /\ pc[r] \in {"next", "calling", "loading"}
    BY <1>8 DEF CallMethod, AtMethod, LoadResolves, MethodReturns, Running
  <2>2. [s \in Requests |-> Phase(s)]' = [s \in Requests |-> Phase(s)]
    BY <2>1 DEF Phase, TypeOK
  <2>. QED BY <2>1, <2>2 DEF Serial!serialVars
<1>9. CASE UNCHANGED vars
  BY <1>9 DEF vars, Serial!serialVars, Phase
<1>. QED
  BY <1>1, <1>2, <1>3, <1>4, <1>5, <1>6, <1>7, <1>8, <1>9
  DEF Next, Step, Terminated, Serial!SerialNext

\* Overlapping requests are answered as if each ran alone.
THEOREM Serializes == Spec => ExecutesSerially
<1>1. Init => Serial!SerialInit
  BY DEF Init, Serial!SerialInit, Phase
<1>2. Init => FailStopInv /\ OwnInv
  BY FailStopInit, OwnInit
<1>. QED BY <1>1, <1>2, TypeInit, TypeStep, AnswersInit, AnswersStep, FailStopStep, OwnStep,
         SerialStep, PTL DEF Spec, ExecutesSerially, Serial!SerialSpec
=============================================================================
