------------------------------ MODULE TaskRun -------------------------------
(* What executing a task graph promises, whatever the layers, the thread   *)
(* pool, the token budget and the context tables do: tasks are attempted   *)
(* in batches whose members depend on concluded tasks only, a task with a  *)
(* failed dependency is blocked instead, an outcome that solved or blocked *)
(* its task is final, any other may be tried once more, and nothing is     *)
(* attempted after the run is closed.                                      *)
EXTENDS NodeContract

CONSTANT Nodes

VARIABLES
    graph,     \* node -> the nodes it depends on
    attempts,  \* node -> how often it was started or blocked
    executing, \* nodes being attempted
    outcome,   \* node -> its status, or "NONE"
    open       \* the run is not over

vars == <<graph, attempts, executing, outcome, open>>

Init ==
    /\ graph \in [Nodes -> SUBSET Nodes]
    /\ attempts = [n \in Nodes |-> 0]
    /\ executing = {}
    /\ outcome = [n \in Nodes |-> "NONE"]
    /\ open = TRUE

Bad(n) == outcome[n] \in {"FAILED", "BLOCKED"}

(* A batch is begun: its members are started, or blocked.                  *)
Begin(start, block) ==
    /\ open /\ executing = {}
    /\ start \cup block # {} /\ start \cap block = {}
    /\ \A n \in start \cup block :
         /\ attempts[n] < 2
         /\ outcome[n] \in {"NONE", "AMBIGUOUS", "FAILED"}
         /\ \A d \in graph[n] : outcome[d] # "NONE" /\ d \notin start \cup block
         /\ n \in block <=> \E d \in graph[n] : Bad(d)
    /\ attempts' = [n \in Nodes |-> attempts[n] +
                       (IF n \in start \cup block THEN 1 ELSE 0)]
    /\ executing' = start
    /\ outcome' = [n \in Nodes |-> IF n \in block THEN "BLOCKED" ELSE outcome[n]]
    /\ UNCHANGED <<graph, open>>

Conclude(n) ==
    /\ open /\ n \in executing
    /\ executing' = executing \ {n}
    /\ \E s \in Statuses \ {"BLOCKED"} : outcome' = [outcome EXCEPT ![n] = s]
    /\ UNCHANGED <<graph, attempts, open>>

(* The run ends. What is still being attempted gets no outcome.            *)
Close ==
    /\ open
    /\ open' = FALSE
    /\ executing' = {}
    /\ UNCHANGED <<graph, attempts, outcome>>

Next ==
    \/ \E start, block \in SUBSET Nodes : Begin(start, block)
    \/ \E n \in Nodes : Conclude(n)
    \/ Close

Spec == Init /\ [][Next]_vars
=============================================================================
