---------------------------- MODULE NodeContract ----------------------------
(* What the parts of the runtime that meet at a task node tell each other: *)
(* the status of a node (models.py, NodeStatus), the ways a call of        *)
(* RLMAgent.solve can end, and the NodeResult the scheduler records for    *)
(* each of them.                                                           *)
EXTENDS Integers, FiniteSets

Statuses == {"SOLVED", "AMBIGUOUS", "FAILED", "BLOCKED"}

(* How solve ends. "solved": a strict best candidate, with rows.           *)
(* "tied": the best two candidates are indistinguishable, with rows and a  *)
(* STRUCTURAL replan request. "exhausted": no viable candidate and a       *)
(* replan request. "hopeless": no viable candidate among at most one, no   *)
(* request. "raised": an exception left solve.                             *)
Endings == {"solved", "tied", "exhausted", "hopeless", "raised"}

(* The status of the recorded result. An exception is recorded as a        *)
(* NodeResult built without a status, and the field's default is SOLVED.   *)
StatusOf(e) ==
    [solved |-> "SOLVED", tied |-> "AMBIGUOUS", exhausted |-> "FAILED",
     hopeless |-> "FAILED", raised |-> "SOLVED"][e]

(* The result carries a non-empty DataFrame.                               *)
HasRows(e) == e \in {"solved", "tied"}

(* The result carries a STRUCTURAL replan request.                         *)
AsksReplan(e) == e \in {"tied", "exhausted"}
=============================================================================
