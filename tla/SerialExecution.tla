-------------------------- MODULE SerialExecution --------------------------
(***************************************************************************)
(* What execute_query promises each request, as if it ran alone: the       *)
(* fields of its operation are answered one at a time, in the order of the *)
(* document, each once; a mutation stops at its first failure; and what a  *)
(* method returned is answered with the relationship loaded for it.  There *)
(* are no addresses, no shared store and no awaits here.                   *)
(***************************************************************************)
EXTENDS Naturals, Sequences

CONSTANTS
  Requests,  \* overlapping calls of GraphQLHandler.execute
  Document   \* the operation each executes: [type, fields]

VARIABLES
  phase,    \* "idle", "running" or "done"
  due,      \* the field to be answered next
  response  \* the entries made so far: [pos, status, val]

serialVars == <<phase, due, response>>

Selected(r) == Document[r].fields
Due(r) == Selected(r)[due[r]]

SerialInit ==
  /\ phase = [r \in Requests |-> "idle"]
  /\ due = [r \in Requests |-> 1]
  /\ response = [r \in Requests |-> {}]

Stopped(r) ==
  Document[r].type = "mutation" /\ \E e \in response[r] : e.status \in {"failed", "lost"}

\* What may be answered for a field that was served: the relationship loaded
\* for it, and for a null key, which nothing is loaded for, null or what some
\* request was served (see NullKeyServesNull).
Servable(r) ==
  IF Due(r).fk THEN {<<r, due[r]>>}
  ELSE {<<>>} \cup {<<s, i>> : s \in Requests, i \in UNION {1 .. Len(Selected(t)) : t \in Requests}}

Outcome(r, status, val) ==
  \/ Due(r).kind = "noGroup" /\ status = "rejected" /\ val = <<>>
  \/ Due(r).kind # "noGroup" /\ Stopped(r) /\ status = "skipped" /\ val = <<>>
  \/ Due(r).kind = "unknown" /\ ~Stopped(r) /\ status = "rejected" /\ val = <<>>
  \/ /\ Due(r).kind = "method" /\ ~Stopped(r)
     /\ \/ status \in {"failed", "lost"} /\ val = <<>>
        \/ status = "served" /\ val \in Servable(r)

Begin(r) ==
  /\ phase[r] = "idle"
  /\ phase' = [phase EXCEPT ![r] = "running"]
  /\ UNCHANGED <<due, response>>

AnswerDue(r) ==
  /\ phase[r] = "running" /\ due[r] <= Len(Selected(r))
  /\ \E status \in {"served", "failed", "lost", "skipped", "rejected"},
        val \in Servable(r) \cup {<<>>} :
       /\ Outcome(r, status, val)
       /\ response' = [response EXCEPT ![r] =
                         @ \cup {[pos |-> due[r], status |-> status, val |-> val]}]
  /\ due' = [due EXCEPT ![r] = @ + 1]
  /\ UNCHANGED phase

End(r) ==
  /\ phase[r] = "running" /\ due[r] > Len(Selected(r))
  /\ phase' = [phase EXCEPT ![r] = "done"]
  /\ UNCHANGED <<due, response>>

SerialNext == \E r \in Requests : Begin(r) \/ AnswerDue(r) \/ End(r)

SerialSpec == SerialInit /\ [][SerialNext]_serialVars
=============================================================================
