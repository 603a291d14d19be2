----------------------------- MODULE Scheduler ------------------------------
(* Scheduler.run (search/scheduler.py): executes the task DAG layer by     *)
(* layer, the ready nodes of a layer in a thread pool, repeats the walk    *)
(* while it makes progress, materialises SOLVED results as context tables  *)
(* for dependent nodes, grants each node one structural replan, and drops  *)
(* the tables when it returns.                                             *)
(*                                                                         *)
(* The main thread is the control state `phase`; each submitted solve call *)
(* is a future run by one of the pool's workers.                           *)
EXTENDS NodeContract

CONSTANTS
    Nodes,             \* task ids
    DAGs,              \* the task graphs the planner may hand over
    MaxConcurrency,    \* config.max_concurrency
    TokenBudget,       \* config.token_budget
    Costs,             \* tokens one call of solve may report
    MaterializeContext,\* config.materialize_context
    ReplanEnabled,     \* a replan_callback was given
    FaultyDatabase     \* materialize_context and drop_context may raise

(* deps: depends_on as a set. atomic: nodes with is_atomic. skewed: nodes  *)
(* whose depends_on lists an id twice or names no node of the DAG.         *)
DAGShape == [deps: [Nodes -> SUBSET Nodes], atomic: SUBSET Nodes,
             skewed: SUBSET Nodes]

ASSUME NodesAssumption == IsFiniteSet(Nodes)
ASSUME DAGsAssumption == DAGs \subseteq DAGShape
ASSUME ConfigAssumption ==
    /\ MaxConcurrency \in Nat \ {0}
    /\ TokenBudget \in Nat
    /\ Costs \subseteq Nat
    /\ MaterializeContext \in BOOLEAN
    /\ ReplanEnabled \in BOOLEAN
    /\ FaultyDatabase \in BOOLEAN

VARIABLES
    dag,          \* the task graph
    phase,        \* where the main thread is
    layer,        \* index of the layer the walk is at
    progressed,   \* some node got a result in this walk
    results,      \* node -> recorded NodeResult
    consumed,     \* nodes taken and not released by a replan
    replanned,    \* nodes whose replan request was granted
    taken,        \* node -> number of times it was taken
    tokens,       \* total_tokens
    future,       \* node -> state of its future in the current pool
    ending,       \* node -> how its solve call ended
    context,      \* node -> the dependency results handed to its solve call
    tables,       \* node -> its _task_context_ table in the database
    materialized  \* names of the tables to drop on return

control == <<phase, layer, progressed>>
ledger  == <<results, consumed, replanned, taken, tokens>>
pool    == <<future, ending, context>>
db      == <<tables, materialized>>
vars    == <<dag, control, ledger, pool, db>>

-----------------------------------------------------------------------------
(* compute_layers.                                                         *)

(* The nodes of the first k layers. A skewed node keeps a positive         *)
(* in-degree for ever: each distinct dependency lowers it once only.       *)
Placed(d, k) ==
    LET upTo[i \in Nat] ==
          IF i = 0 THEN {}
          ELSE upTo[i - 1] \cup
               {n \in Nodes \ d.skewed : d.deps[n] \subseteq upTo[i - 1]}
    IN  upTo[k]

Layer(d, k) ==
    LET before == Placed(d, k - 1)
    IN  {n \in Nodes \ (d.skewed \cup before) : d.deps[n] \subseteq before}

-----------------------------------------------------------------------------
(* Results and the context built from them.                                *)

NoResult == [status |-> "NONE", rows |-> FALSE, run |-> 0]

Result == {NoResult} \cup
          [status: Statuses, rows: BOOLEAN, run: Nat]

HasResult(n) == results[n] # NoResult

Failed(n) == results[n].status \in {"FAILED", "BLOCKED"}

NoContext == [run |-> [d \in Nodes |-> 0], claimed |-> {}]

(* Mutant: every dependency with rows is flagged as materialised.          *)
ContextClaimsAll(n) ==
    LET given == {d \in dag.deps[n] : results[d].rows}
    IN  [run |-> [d \in Nodes |-> IF d \in given THEN results[d].run ELSE 0],
         claimed |-> given]

(* _build_context: run[d] is the execution of dependency d whose rows are  *)
(* handed over (0: none); claimed are those flagged as materialised. The   *)
(* flag is derived from the status, not from what the database holds.      *)
ContextFor(n) ==
    LET given == {d \in dag.deps[n] : results[d].rows}
    IN  [run |-> [d \in Nodes |-> IF d \in given THEN results[d].run ELSE 0],
         claimed |-> {d \in given : MaterializeContext
                                    /\ results[d].status = "SOLVED"}]

-----------------------------------------------------------------------------
(* The walk of the main thread over the layers.                            *)

Init ==
    /\ dag \in DAGs
    /\ phase = "pass" /\ layer = 1 /\ progressed = FALSE
    /\ results = [n \in Nodes |-> NoResult]
    /\ consumed = {} /\ replanned = {}
    /\ taken = [n \in Nodes |-> 0]
    /\ tokens = 0
    /\ future = [n \in Nodes |-> "none"]
    /\ ending = [n \in Nodes |-> "none"]
    /\ context = [n \in Nodes |-> NoContext]
    /\ tables = [n \in Nodes |-> "absent"]
    /\ materialized = {}

(* Mutant: layers counted from zero.                                       *)
BeginPassAtZero ==
    /\ phase = "pass" /\ phase' = "layer"
    /\ layer' = 0 /\ progressed' = FALSE
    /\ UNCHANGED <<dag, ledger, pool, db>>

BeginPass ==
    /\ phase = "pass"
    /\ phase' = "layer"
    /\ layer' = 1
    /\ progressed' = FALSE
    /\ UNCHANGED <<dag, ledger, pool, db>>

(* The nodes the loop over a layer consumes, those of them it blocks, and  *)
(* those it dispatches.                                                    *)
Takeable == {n \in Layer(dag, layer) \cap dag.atomic :
                 n \notin consumed /\ \A d \in dag.deps[n] : HasResult(d)}
(* Mutant: a BLOCKED dependency does not block.                            *)
BlockedByFailedOnly ==
    {n \in Takeable : \E d \in dag.deps[n] : results[d].status = "FAILED"}

Blocked == {n \in Takeable : \E d \in dag.deps[n] : Failed(d)}
Ready == Takeable \ Blocked

Take ==
    /\ consumed' = consumed \cup Takeable
    /\ taken' = [n \in Nodes |-> taken[n] + (IF n \in Takeable THEN 1 ELSE 0)]
    /\ results' = [n \in Nodes |->
          IF n \in Blocked
          THEN [status |-> "BLOCKED", rows |-> FALSE, run |-> taken[n] + 1]
          ELSE results[n]]
    /\ progressed' = (progressed \/ Blocked # {})
    /\ UNCHANGED <<replanned, tokens>>

(* Mutant: an idle layer ends the walk.                                    *)
SkipLayerBreaks ==
    /\ phase = "layer" /\ Layer(dag, layer) # {} /\ Ready = {}
    /\ Take
    /\ phase' = "cleanup"
    /\ UNCHANGED <<dag, layer, pool, db>>

SkipLayer ==
    /\ phase = "layer" /\ Layer(dag, layer) # {}
    /\ Ready = {}
    /\ Take
    /\ layer' = layer + 1
    /\ UNCHANGED <<dag, phase, pool, db>>

(* Every ready node is submitted before the main thread looks at a future, *)
(* so all the contexts are built from the same results.                    *)
DispatchLayer ==
    /\ phase = "layer" /\ Layer(dag, layer) # {}
    /\ Ready # {}
    /\ Take
    /\ phase' = "wait"
    /\ future' = [n \in Nodes |-> IF n \in Ready THEN "queued" ELSE "none"]
    /\ ending' = [n \in Nodes |-> "none"]
    /\ context' = [n \in Nodes |-> IF n \in Ready THEN ContextFor(n)
                                                 ELSE context[n]]
    /\ UNCHANGED <<dag, layer, db>>

(* Mutant: a single walk over the layers.                                  *)
EndPassOnce ==
    /\ phase = "layer" /\ Layer(dag, layer) = {}
    /\ phase' = "cleanup"
    /\ UNCHANGED <<dag, layer, progressed, ledger, pool, db>>

EndPass ==
    /\ phase = "layer" /\ Layer(dag, layer) = {}
    /\ phase' = IF progressed THEN "pass" ELSE "cleanup"
    /\ UNCHANGED <<dag, layer, progressed, ledger, pool, db>>

-----------------------------------------------------------------------------
(* The thread pool.                                                        *)

Batch == {n \in Nodes : future[n] # "none"}
Running == {n \in Nodes : future[n] = "running"}

StartSolve(n) ==
    /\ future[n] = "queued"
    /\ Cardinality(Running) < MaxConcurrency
    /\ future' = [future EXCEPT ![n] = "running"]
    /\ UNCHANGED <<dag, control, ledger, ending, context, db>>

FinishSolve(n) ==
    /\ future[n] = "running"
    /\ future' = [future EXCEPT ![n] = "done"]
    /\ \E e \in Endings : ending' = [ending EXCEPT ![n] = e]
    /\ UNCHANGED <<dag, control, ledger, context, db>>

-----------------------------------------------------------------------------
(* The main thread's loop over as_completed.                               *)

(* Mutant: any result with rows is materialised.                           *)
MaterializeAnyRows(n) ==
    IF MaterializeContext /\ HasRows(ending[n])
    THEN /\ tables' = [tables EXCEPT ![n] = "full"]
         /\ materialized' = materialized \cup {n}
    ELSE UNCHANGED db

(* materialize_context drops the table and writes it again, the schema     *)
(* before the rows: a failure leaves no table or an empty one, and the     *)
(* name is then not recorded for cleanup.                                  *)
MaterializeResult(n) ==
    IF MaterializeContext /\ ending[n] = "solved"
    THEN \E t \in IF FaultyDatabase THEN {"full", "empty", "absent"}
                                    ELSE {"full"} :
           /\ tables' = [tables EXCEPT ![n] = t]
           /\ materialized' = IF t = "full" THEN materialized \cup {n}
                                            ELSE materialized
    ELSE UNCHANGED db

(* Mutant: replans are not counted against the node.                       *)
GrantReplanAgain(n) ==
    IF ReplanEnabled /\ AsksReplan(ending[n])
    THEN /\ replanned' = replanned \cup {n}
         /\ consumed' = consumed \ {n}
    ELSE UNCHANGED <<replanned, consumed>>

(* Mutant: an errored node is released for a second attempt too.           *)
GrantReplanOnError(n) ==
    IF ReplanEnabled /\ ~HasRows(ending[n]) /\ n \notin replanned
    THEN /\ replanned' = replanned \cup {n}
         /\ consumed' = consumed \ {n}
    ELSE UNCHANGED <<replanned, consumed>>

(* A replan rewrites the node's hint tables only, so the graph is kept.    *)
GrantReplan(n) ==
    IF ReplanEnabled /\ AsksReplan(ending[n]) /\ n \notin replanned
    THEN /\ replanned' = replanned \cup {n}
         /\ consumed' = consumed \ {n}
    ELSE UNCHANGED <<replanned, consumed>>

CompleteFuture(n) ==
    /\ phase = "wait"
    /\ future[n] = "done"
    /\ future' = [future EXCEPT ![n] = "yielded"]
    /\ results' = [results EXCEPT ![n] =
          [status |-> StatusOf(ending[n]), rows |-> HasRows(ending[n]),
           run |-> taken[n]]]
    /\ IF ending[n] = "raised" THEN UNCHANGED tokens
       ELSE \E c \in Costs : tokens' = tokens + c
    /\ progressed' = TRUE
    /\ MaterializeResult(n)
    /\ GrantReplan(n)
    /\ UNCHANGED <<dag, phase, layer, taken, ending, context>>

LayerDone == phase = "wait" /\ \A n \in Batch : future[n] = "yielded"

(* Mutant: the budget is not looked at between layers.                     *)
NextLayerUnchecked ==
    /\ LayerDone
    /\ phase' = "layer" /\ layer' = layer + 1
    /\ future' = [n \in Nodes |-> "none"]
    /\ UNCHANGED <<dag, progressed, ledger, ending, context, db>>

NextLayer ==
    /\ LayerDone
    /\ tokens <= TokenBudget
    /\ phase' = "layer"
    /\ layer' = layer + 1
    /\ future' = [n \in Nodes |-> "none"]
    /\ UNCHANGED <<dag, progressed, ledger, ending, context, db>>

(* Mutant: the early return skips the cleanup.                             *)
StopWithoutCleanup ==
    /\ LayerDone
    /\ tokens > TokenBudget
    /\ phase' = "returned"
    /\ future' = [n \in Nodes |-> "none"]
    /\ UNCHANGED <<dag, layer, progressed, ledger, ending, context, db>>

StopOverBudget ==
    /\ LayerDone
    /\ tokens > TokenBudget
    /\ phase' = "cleanup"
    /\ future' = [n \in Nodes |-> "none"]
    /\ UNCHANGED <<dag, layer, progressed, ledger, ending, context, db>>

(* as_completed raises once node_timeout has passed and a future has not   *)
(* been yielded. Leaving the with block waits for the workers, which still *)
(* run the queued calls; then the exception leaves run().                  *)
WaitTimesOut ==
    /\ phase = "wait"
    /\ \E n \in Batch : future[n] # "yielded"
    /\ phase' = "unwind"
    /\ UNCHANGED <<dag, layer, progressed, ledger, pool, db>>

(* Mutant: unwinding waits for results that nobody yields any more.        *)
UnwindAwaitsYields ==
    /\ phase = "unwind"
    /\ \A n \in Batch : future[n] = "yielded"
    /\ phase' = "raised"
    /\ future' = [n \in Nodes |-> "none"]
    /\ UNCHANGED <<dag, layer, progressed, ledger, ending, context, db>>

Unwind ==
    /\ phase = "unwind"
    /\ \A n \in Batch : future[n] \in {"done", "yielded"}
    /\ phase' = "raised"
    /\ future' = [n \in Nodes |-> "none"]
    /\ UNCHANGED <<dag, layer, progressed, ledger, ending, context, db>>

(* _drop_materialized: an exception on one table is logged, the others are *)
(* still dropped.                                                          *)
DropMaterialized ==
    /\ phase = "cleanup"
    /\ phase' = "returned"
    /\ \E kept \in SUBSET materialized :
         /\ FaultyDatabase \/ kept = {}
         /\ tables' = [n \in Nodes |-> IF n \in materialized \ kept
                                       THEN "absent" ELSE tables[n]]
    /\ UNCHANGED <<dag, layer, progressed, ledger, pool, materialized>>

-----------------------------------------------------------------------------
Finished == phase \in {"returned", "raised"}

(* run() is over: nothing happens any more.                                *)
Rest == Finished /\ UNCHANGED vars

Main ==
    \/ BeginPass \/ SkipLayer \/ DispatchLayer \/ EndPass
    \/ NextLayer \/ StopOverBudget \/ WaitTimesOut \/ Unwind
    \/ DropMaterialized
    \/ \E n \in Nodes : CompleteFuture(n)

Worker(n) == StartSolve(n) \/ FinishSolve(n)

Next == Main \/ (\E n \in Nodes : Worker(n)) \/ Rest

(* The main thread and the workers keep running, and every solve call      *)
(* ends: the LLM client bounds its retries and each call's duration.       *)
Fairness == WF_vars(Main) /\ \A n \in Nodes : WF_vars(Worker(n))

Spec == Init /\ [][Next]_vars /\ Fairness

-----------------------------------------------------------------------------
(* Properties.                                                             *)

FutureStates == {"none", "queued", "running", "done", "yielded"}

Contexts == [run: [Nodes -> Nat], claimed: SUBSET Nodes]

(* The variables keep their types.                                         *)
TypeOK ==
    /\ dag \in DAGs
    /\ phase \in {"pass", "layer", "wait", "unwind", "cleanup",
                  "returned", "raised"}
    /\ layer \in Nat \ {0} /\ progressed \in BOOLEAN
    /\ results \in [Nodes -> Result]
    /\ consumed \subseteq Nodes /\ replanned \subseteq Nodes
    /\ taken \in [Nodes -> Nat]
    /\ tokens \in Nat
    /\ future \in [Nodes -> FutureStates]
    /\ ending \in [Nodes -> Endings \cup {"none"}]
    /\ \A n \in Nodes : future[n] \in {"done", "yielded"} => ending[n] \in Endings
    /\ context \in [Nodes -> Contexts]
    /\ tables \in [Nodes -> {"absent", "empty", "full"}]
    /\ materialized \subseteq Nodes

(* A solve call of n that is not yet turned into a result.                 *)
InFlight(n) == future[n] \in {"queued", "running", "done"}

(* A node is executed or blocked at most twice: once, and once more when   *)
(* its replan was granted, however replans of its neighbours interleave.   *)
NodeTakenAtMostTwice == \A n \in Nodes : taken[n] <= 2

(* While a node is being solved every dependency has a result, and none    *)
(* turns FAILED or BLOCKED under it: no dependency is solved again in the  *)
(* same pool.                                                              *)
NoSolveOnFailedDependency ==
    \A n \in Nodes : InFlight(n) =>
        \A d \in dag.deps[n] : HasResult(d) /\ ~Failed(d)

(* While a node is being solved, the context tables it was told of hold    *)
(* the rows it was told of: nothing drops or replaces them before every    *)
(* worker has ended, also when run() is left by a timeout. Claimed for a   *)
(* database whose writes do not fail.                                      *)
ClaimedTablesExist ==
    \A n \in Nodes : InFlight(n) =>
        \A d \in context[n].claimed :
            /\ tables[d] = "full"
            /\ results[d].run = context[n].run[d]

(* README: uncertain results are never made into a downstream fact. A      *)
(* table exists only for a node whose standing result is SOLVED with rows. *)
OnlySolvedMaterialized ==
    \A n \in Nodes : tables[n] # "absent" =>
        results[n].status = "SOLVED" /\ results[n].rows

(* When run() returns, by exhaustion or over budget, no context table is   *)
(* left in a database whose statements do not fail.                        *)
TablesDroppedOnReturn ==
    phase = "returned" => \A n \in Nodes : tables[n] = "absent"

(* The nodes that can be executed at all, atomic ones on dependencies that *)
(* can: they are in every set that a node joins once its dependencies have.*)
Runnable(d) ==
    {n \in Nodes : \A S \in SUBSET Nodes :
        (\A m \in d.atomic \ d.skewed : d.deps[m] \subseteq S => m \in S) => n \in S}

(* Unless the token budget stopped it, run() returns a result for exactly  *)
(* the runnable nodes: replans never lose a node or wake a stuck one.      *)
CompleteOnReturn ==
    phase = "returned" /\ tokens <= TokenBudget =>
        {n \in Nodes : HasResult(n)} = Runnable(dag)

(* Unless the token budget stopped it, run() honours every replan it       *)
(* granted, and with replanning on it returns AMBIGUOUS only on a second   *)
(* attempt.                                                                *)
ReplansHonoured ==
    phase = "returned" /\ tokens <= TokenBudget =>
        \A n \in Nodes :
            \/ n \in replanned
            \/ ReplanEnabled /\ results[n].status = "AMBIGUOUS"
            => taken[n] = 2

(* Nothing is dispatched once the budget is exceeded.                      *)
NoDispatchOverBudget ==
    [][phase # "wait" /\ phase' = "wait" => tokens <= TokenBudget]_vars

(* A SOLVED or BLOCKED result is final: dependents never see it change.    *)
FinalResultsStand ==
    [][\A n \in Nodes : results[n].status \in {"SOLVED", "BLOCKED"} =>
           results'[n] = results[n]]_vars

(* run() ends, by returning or by raising.                                 *)
Termination == <>Finished

(* run() is an execution of the task graph as TaskRun promises it: the     *)
(* solve calls in flight are the tasks being attempted.                    *)
Promise == INSTANCE TaskRun WITH
    graph <- dag.deps,
    attempts <- taken,
    executing <- {n \in Nodes : InFlight(n)},
    outcome <- [n \in Nodes |-> results[n].status],
    open <- ~Finished

ImplementsTaskRun == Promise!Spec

-----------------------------------------------------------------------------
(* What the documentation says and the code does not do.                   *)

(* README: SOLVED -> a real context table is materialised that dependent   *)
(* tasks can join.                                                         *)
SolvedHasTable ==
    \A n \in Nodes :
        results[n].status = "SOLVED" /\ phase \in {"layer", "wait"} =>
            tables[n] = "full"
=============================================================================
