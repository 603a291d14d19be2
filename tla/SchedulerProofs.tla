-------------------------- MODULE SchedulerProofs ---------------------------
(* Proofs about Scheduler, for every set of nodes, every task graph and    *)
(* every configuration.                                                    *)
EXTENDS Scheduler, TLAPS, FiniteSetTheorems

USE NodesAssumption, DAGsAssumption, ConfigAssumption

-----------------------------------------------------------------------------
(* What the recorded status of an ending is.                               *)
LEMMA StatusOfEnding ==
    ASSUME NEW e \in Endings
    PROVE  /\ StatusOf(e) \in Statuses
           /\ StatusOf(e) # "NONE"
           /\ e = "solved" => StatusOf(e) = "SOLVED" /\ HasRows(e)
           /\ AsksReplan(e) => StatusOf(e) \in {"AMBIGUOUS", "FAILED"}
           /\ StatusOf(e) = "AMBIGUOUS" => AsksReplan(e)
           /\ StatusOf(e) = "SOLVED" /\ HasRows(e) => e = "solved"
           /\ HasRows(e) \in BOOLEAN
<1>1. CASE e = "solved"
  BY <1>1 DEF StatusOf, Statuses, HasRows, AsksReplan
<1>2. CASE e = "tied"
  BY <1>2 DEF StatusOf, Statuses, HasRows, AsksReplan
<1>3. CASE e = "exhausted"
  BY <1>3 DEF StatusOf, Statuses, HasRows, AsksReplan
<1>4. CASE e = "hopeless"
  BY <1>4 DEF StatusOf, Statuses, HasRows, AsksReplan
<1>5. CASE e = "raised"
  BY <1>5 DEF StatusOf, Statuses, HasRows, AsksReplan
<1> QED
  BY <1>1, <1>2, <1>3, <1>4, <1>5 DEF Endings

(* A node of a layer depends on no node of the same layer, whatever the    *)
(* layers before it are: compute_layers never puts a node beside one of    *)
(* its dependencies.                                                       *)
LEMMA LayerIsIndependent ==
    ASSUME NEW d, NEW k, NEW n \in Layer(d, k), NEW m \in Layer(d, k)
    PROVE  m \notin d.deps[n]
BY DEF Layer

-----------------------------------------------------------------------------
(* Type correctness.                                                       *)

LEMMA TypeInit == Init => TypeOK
<1> SUFFICES ASSUME Init PROVE TypeOK
  OBVIOUS
<1>1. NoResult \in Result
  BY DEF Result
<1>2. NoContext \in Contexts
  BY DEF NoContext, Contexts
<1>3. results \in [Nodes -> Result] /\ context \in [Nodes -> Contexts]
  BY <1>1, <1>2 DEF Init
<1>4. progressed \in BOOLEAN
  BY Zenon DEF Init
<1>5. /\ taken \in [Nodes -> Nat]
      /\ future \in [Nodes -> FutureStates]
      /\ ending \in [Nodes -> Endings \cup {"none"}]
      /\ tables \in [Nodes -> {"absent", "empty", "full"}]
  BY DEF Init, FutureStates
<1>6. \A n \in Nodes : future[n] \in {"done", "yielded"} => ending[n] \in Endings
  BY DEF Init
<1>7. layer \in Nat \ {0} /\ tokens \in Nat
  BY DEF Init
<1> QED
  BY <1>3, <1>4, <1>5, <1>6, <1>7 DEF Init, TypeOK

LEMMA ContextType ==
    ASSUME TypeOK, NEW n \in Nodes
    PROVE  ContextFor(n) \in Contexts
<1> DEFINE given == {d \in dag.deps[n] : results[d].rows}
<1>1. dag.deps[n] \subseteq Nodes
  BY DEF TypeOK, DAGShape
<1>2. \A d \in Nodes : results[d].run \in Nat
  BY DEF TypeOK, Result, NoResult
<1> QED
  BY <1>1, <1>2 DEF ContextFor, Contexts

LEMMA TakeType ==
    ASSUME TypeOK, Take
    PROVE  /\ results' \in [Nodes -> Result]
           /\ consumed' \subseteq Nodes /\ replanned' \subseteq Nodes
           /\ taken' \in [Nodes -> Nat]
           /\ tokens' \in Nat
           /\ progressed' \in BOOLEAN
<1>1. Takeable \subseteq Nodes
  BY DEF Takeable, Layer
<1>2. \A n \in Nodes : taken[n] \in Nat /\ results[n] \in Result
  BY DEF TypeOK
<1>3. \A n \in Nodes :
        [status |-> "BLOCKED", rows |-> FALSE, run |-> taken[n] + 1] \in Result
  BY <1>2 DEF Result, Statuses
<1>4. results' \in [Nodes -> Result]
  BY <1>2, <1>3 DEF Take
<1>5. taken' \in [Nodes -> Nat]
  BY <1>2 DEF Take
<1> QED
  BY <1>1, <1>4, <1>5 DEF Take, TypeOK

(* Every step keeps the types.                                             *)
LEMMA TypeStep == TypeOK /\ [Next]_vars => TypeOK'
<1> SUFFICES ASSUME TypeOK, [Next]_vars PROVE TypeOK'
  OBVIOUS
<1> USE DEF control, ledger, pool, db
<1>1. CASE BeginPass
  <2>1. progressed' \in BOOLEAN
    BY <1>1, Zenon DEF BeginPass
  <2> QED
    BY <1>1, <2>1 DEF BeginPass, TypeOK
<1>2. CASE SkipLayer
  <2>1. layer + 1 \in Nat \ {0}
    BY DEF TypeOK
  <2> QED
    BY <1>2, <2>1, TakeType DEF SkipLayer, TypeOK
<1>3. CASE DispatchLayer
  <2>1. context' \in [Nodes -> Contexts]
    BY <1>3, ContextType DEF DispatchLayer, TypeOK
  <2>2. future' \in [Nodes -> FutureStates]
    BY <1>3 DEF DispatchLayer, FutureStates
  <2>3. ending' \in [Nodes -> Endings \cup {"none"}]
    BY <1>3 DEF DispatchLayer
  <2> QED
    BY <1>3, <2>1, <2>2, <2>3, TakeType DEF DispatchLayer, TypeOK
<1>4. CASE EndPass
  BY <1>4 DEF EndPass, TypeOK
<1>5. CASE NextLayer
  BY <1>5 DEF NextLayer, TypeOK, FutureStates
<1>6. CASE StopOverBudget
  BY <1>6 DEF StopOverBudget, TypeOK, FutureStates
<1>7. CASE WaitTimesOut
  BY <1>7 DEF WaitTimesOut, TypeOK
<1>8. CASE Unwind
  BY <1>8 DEF Unwind, TypeOK, FutureStates
<1>9. CASE DropMaterialized
  <2>1. tables' \in [Nodes -> {"absent", "empty", "full"}]
    BY <1>9 DEF DropMaterialized, TypeOK
  <2> QED
    BY <1>9, <2>1 DEF DropMaterialized, TypeOK
<1>10. ASSUME NEW n \in Nodes, CompleteFuture(n) PROVE TypeOK'
  <2>1. ending[n] \in Endings
    BY <1>10 DEF TypeOK, CompleteFuture
  <2>2. [status |-> StatusOf(ending[n]), rows |-> HasRows(ending[n]),
         run |-> taken[n]] \in Result
    BY <2>1, StatusOfEnding DEF TypeOK, Result
  <2>3. results' \in [Nodes -> Result]
    BY <1>10, <2>2 DEF CompleteFuture, TypeOK
  <2>4. tokens' \in Nat
    BY <1>10 DEF CompleteFuture, TypeOK
  <2>5. tables' \in [Nodes -> {"absent", "empty", "full"}] /\ materialized' \subseteq Nodes
    BY <1>10 DEF CompleteFuture, MaterializeResult, TypeOK
  <2>6. replanned' \subseteq Nodes /\ consumed' \subseteq Nodes
    BY <1>10 DEF CompleteFuture, GrantReplan, TypeOK
  <2>7. /\ future' \in [Nodes -> FutureStates]
        /\ \A m \in Nodes : future'[m] \in {"done", "yielded"} => ending'[m] \in Endings
    BY <1>10 DEF CompleteFuture, TypeOK, FutureStates
  <2> QED
    BY <1>10, <2>3, <2>4, <2>5, <2>6, <2>7 DEF CompleteFuture, TypeOK
<1>11. ASSUME NEW n \in Nodes, StartSolve(n) PROVE TypeOK'
  BY <1>11 DEF StartSolve, TypeOK, FutureStates
<1>12. ASSUME NEW n \in Nodes, FinishSolve(n) PROVE TypeOK'
  BY <1>12 DEF FinishSolve, TypeOK, FutureStates
<1>13. CASE Rest
  BY <1>13 DEF Rest, vars, TypeOK
<1>14. CASE UNCHANGED vars
  BY <1>14 DEF vars, TypeOK
<1> QED
  BY <1>1, <1>2, <1>3, <1>4, <1>5, <1>6, <1>7, <1>8, <1>9, <1>10, <1>11,
     <1>12, <1>13, <1>14 DEF Next, Main, Worker

(* TypeOK: the scheduler's variables keep their types.                     *)
THEOREM TypeCorrect == Spec => []TypeOK
BY TypeInit, TypeStep, PTL DEF Spec

-----------------------------------------------------------------------------
(* The inductive invariant. Its parts hold together only: that a SOLVED    *)
(* result is never overwritten rests on the futures being consumed nodes   *)
(* without a final result, which rests on replans releasing unsolved nodes *)
(* only; that a node's dependencies stand still while it is solved rests   *)
(* on a pool never holding nodes of two layers.                            *)

Open(n) == results[n].status \in {"NONE", "AMBIGUOUS", "FAILED"}

(* A node was taken once if consumed, and once more if replanned.          *)
TakenIsAccounted ==
    \A n \in Nodes :
        taken[n] = (IF n \in consumed THEN 1 ELSE 0)
                   + (IF n \in replanned THEN 1 ELSE 0)

(* There are futures only while the main thread waits for them, and they   *)
(* are of nodes of the current layer.                                      *)
PoolIsOneLayer ==
    /\ phase \notin {"wait", "unwind"} => Batch = {}
    /\ Batch \subseteq Layer(dag, layer)

(* A node whose result may still change has none, or was left unsolved.    *)
UnfinishedIsOpen ==
    \A n \in Nodes :
        /\ InFlight(n) => n \in consumed /\ Open(n)
        /\ n \notin consumed => Open(n)

IInv ==
    /\ TypeOK
    /\ TakenIsAccounted
    /\ PoolIsOneLayer
    /\ UnfinishedIsOpen
    /\ NoSolveOnFailedDependency
    /\ OnlySolvedMaterialized

LEMMA InitIInv == Init => IInv
<1> SUFFICES ASSUME Init PROVE IInv
  OBVIOUS
<1>1. TakenIsAccounted
  BY DEF Init, TakenIsAccounted
<1>2. PoolIsOneLayer
  BY DEF Init, PoolIsOneLayer, Batch
<1>3. UnfinishedIsOpen
  BY DEF Init, UnfinishedIsOpen, InFlight, Open, NoResult
<1>4. NoSolveOnFailedDependency
  BY DEF Init, NoSolveOnFailedDependency, InFlight
<1>5. OnlySolvedMaterialized
  BY DEF Init, OnlySolvedMaterialized
<1> QED
  BY <1>1, <1>2, <1>3, <1>4, <1>5, TypeInit DEF IInv

(* What taking the nodes of a layer does, whether or not some of them are  *)
(* dispatched.                                                             *)
LEMMA TakeEffect ==
    ASSUME IInv, phase = "layer", Take
    PROVE  /\ TakenIsAccounted'
           /\ \A n \in Nodes : n \in Ready =>
                 /\ n \in consumed' /\ Open(n)'
                 /\ n \in Layer(dag, layer)
                 /\ \A d \in dag.deps[n] : HasResult(d)' /\ ~Failed(d)'
           /\ \A n \in Nodes : n \notin consumed' => Open(n)'
           /\ \A n \in Nodes : n \notin Blocked => results'[n] = results[n]
           /\ OnlySolvedMaterialized /\ UNCHANGED tables => OnlySolvedMaterialized'
<1>1. Takeable \subseteq Nodes /\ Blocked \subseteq Takeable
  BY DEF Takeable, Blocked, Layer
<1>2. \A n \in Nodes : taken[n] \in Nat
  BY DEF IInv, TypeOK
<1>3. \A n \in Takeable : n \notin consumed /\ Open(n)
  BY <1>1 DEF Takeable, IInv, UnfinishedIsOpen
<1>4. TakenIsAccounted'
  BY <1>1, <1>2, <1>3 DEF Take, TakenIsAccounted, IInv
<1>5. \A n \in Nodes : n \notin Blocked => results'[n] = results[n]
  BY DEF Take
<1>6. ASSUME NEW n \in Nodes, n \in Ready
      PROVE  /\ n \in consumed' /\ Open(n)'
             /\ n \in Layer(dag, layer)
             /\ \A d \in dag.deps[n] : HasResult(d)' /\ ~Failed(d)'
  <2>1. n \in Takeable /\ n \notin Blocked /\ n \in Layer(dag, layer)
    BY <1>6 DEF Ready, Takeable
  <2>2. Open(n)'
    BY <1>3, <1>5, <2>1 DEF Open
  <2>3. ASSUME NEW d \in dag.deps[n] PROVE HasResult(d)' /\ ~Failed(d)'
    <3>1. d \in Nodes
      BY DEF IInv, TypeOK, DAGShape
    <3>2. HasResult(d) /\ ~Failed(d)
      BY <2>1, <2>3 DEF Takeable, Blocked
    <3>3. d \notin Blocked
      BY <2>1, <2>3, <1>1, LayerIsIndependent DEF Takeable
    <3> QED
      BY <1>5, <3>1, <3>2, <3>3 DEF HasResult, Failed
  <2> QED
    BY <2>1, <2>2, <2>3 DEF Take
<1>7. ASSUME NEW n \in Nodes, n \notin consumed' PROVE Open(n)'
  <2>1. n \notin consumed /\ n \notin Blocked
    BY <1>1, <1>7 DEF Take
  <2> QED
    BY <1>5, <2>1 DEF IInv, UnfinishedIsOpen, Open
<1>8. OnlySolvedMaterialized /\ UNCHANGED tables => OnlySolvedMaterialized'
  BY <1>1, <1>3, <1>5 DEF OnlySolvedMaterialized, Open
<1> QED
  BY <1>4, <1>5, <1>6, <1>7, <1>8

(* Turning a finished future into a result keeps the invariant.            *)
LEMMA CompleteFutureStep ==
    ASSUME IInv, NEW n \in Nodes, CompleteFuture(n), TypeOK'
    PROVE  IInv'
<1>1. /\ ending[n] \in Endings
      /\ n \in consumed /\ Open(n)
      /\ n \in Layer(dag, layer)
  BY DEF CompleteFuture, IInv, TypeOK, UnfinishedIsOpen, InFlight,
         PoolIsOneLayer, Batch
<1>2. /\ results'[n].status = StatusOf(ending[n])
      /\ results'[n].rows = HasRows(ending[n])
      /\ \A m \in Nodes \ {n} : results'[m] = results[m]
  BY DEF CompleteFuture, IInv, TypeOK
<1>3. TakenIsAccounted'
  BY <1>1 DEF CompleteFuture, GrantReplan, IInv, TypeOK, TakenIsAccounted
<1>4. /\ future'[n] = "yielded"
      /\ \A m \in Nodes \ {n} : future'[m] = future[m]
      /\ Batch' = Batch
  BY DEF CompleteFuture, IInv, TypeOK, Batch
<1>5. PoolIsOneLayer'
  BY <1>4 DEF CompleteFuture, IInv, PoolIsOneLayer
<1>6. /\ \A m \in Nodes \ {n} : m \in consumed' <=> m \in consumed
      /\ n \notin consumed' => StatusOf(ending[n]) \in {"AMBIGUOUS", "FAILED"}
  BY <1>1, StatusOfEnding DEF CompleteFuture, GrantReplan
<1>7. UnfinishedIsOpen'
  <2> SUFFICES ASSUME NEW m \in Nodes
               PROVE  /\ InFlight(m)' => m \in consumed' /\ Open(m)'
                      /\ m \notin consumed' => Open(m)'
    BY DEF UnfinishedIsOpen
  <2>1. CASE m = n
    BY <2>1, <1>2, <1>4, <1>6 DEF InFlight, Open
  <2>2. CASE m # n
    BY <2>2, <1>2, <1>4, <1>6 DEF InFlight, Open, IInv, UnfinishedIsOpen
  <2> QED
    BY <2>1, <2>2
<1>8. NoSolveOnFailedDependency'
  <2> SUFFICES ASSUME NEW m \in Nodes, InFlight(m)', NEW d \in dag.deps[m]
               PROVE  HasResult(d)' /\ ~Failed(d)'
    BY DEF NoSolveOnFailedDependency, CompleteFuture
  <2>1. m # n /\ InFlight(m)
    BY <1>4 DEF InFlight
  <2>2. d \in Nodes
    BY DEF IInv, TypeOK, DAGShape
  <2>3. d # n
    BY <2>1, <1>1, LayerIsIndependent DEF IInv, PoolIsOneLayer, Batch, InFlight
  <2>4. HasResult(d) /\ ~Failed(d)
    BY <2>1 DEF IInv, NoSolveOnFailedDependency
  <2> QED
    BY <1>2, <2>2, <2>3, <2>4 DEF HasResult, Failed
<1>9. OnlySolvedMaterialized'
  <2> SUFFICES ASSUME NEW m \in Nodes, tables'[m] # "absent"
               PROVE  results'[m].status = "SOLVED" /\ results'[m].rows
    BY DEF OnlySolvedMaterialized
  <2>1. CASE m # n
    <3>1. tables'[m] = tables[m]
      BY <2>1 DEF CompleteFuture, MaterializeResult, db, IInv, TypeOK
    <3> QED
      BY <2>1, <3>1, <1>2 DEF IInv, OnlySolvedMaterialized
  <2>2. CASE m = n
    <3>1. tables[n] = "absent"
      BY <1>1 DEF IInv, OnlySolvedMaterialized, Open
    <3>2. ending[n] = "solved"
      BY <2>2, <3>1 DEF CompleteFuture, MaterializeResult, db
    <3>3. StatusOf(ending[n]) = "SOLVED" /\ HasRows(ending[n])
      BY <3>2, <1>1, StatusOfEnding
    <3> QED
      BY <2>2, <3>3, <1>2
  <2> QED
    BY <2>1, <2>2
<1> QED
  BY <1>3, <1>5, <1>7, <1>8, <1>9 DEF IInv

(* A step that takes no node and completes no future keeps the invariant   *)
(* when it leaves the ledger alone, and either removes every future or     *)
(* moves futures forward in place.                                         *)
LEMMA QuietStep ==
    ASSUME IInv, TypeOK', UNCHANGED <<dag, ledger>>,
           \/ Batch' = {}
           \/ /\ Batch' = Batch /\ layer' = layer
              /\ phase' \in {"wait", "unwind"} \/ Batch = {}
              /\ \A n \in Nodes : InFlight(n)' => InFlight(n),
           \A n \in Nodes : tables'[n] # "absent" => tables[n] # "absent"
    PROVE  IInv'
<1> USE DEF ledger
<1>1. \A n \in Nodes : InFlight(n)' => InFlight(n)
  BY DEF Batch, InFlight
<1>2. TakenIsAccounted'
  BY DEF IInv, TakenIsAccounted
<1>3. PoolIsOneLayer'
  BY DEF IInv, PoolIsOneLayer
<1>4. UnfinishedIsOpen'
  BY <1>1 DEF IInv, UnfinishedIsOpen, Open
<1>5. NoSolveOnFailedDependency'
  BY <1>1 DEF IInv, NoSolveOnFailedDependency, HasResult, Failed
<1>6. OnlySolvedMaterialized'
  BY DEF IInv, OnlySolvedMaterialized
<1> QED
  BY <1>2, <1>3, <1>4, <1>5, <1>6 DEF IInv

LEMMA StepIInv == IInv /\ [Next]_vars => IInv'
<1> SUFFICES ASSUME IInv, [Next]_vars PROVE IInv'
  OBVIOUS
<1> USE DEF control, pool, db
<1>0. TypeOK'
  BY TypeStep DEF IInv
<1>1. CASE BeginPass
  BY <1>0, <1>1, QuietStep DEF BeginPass, IInv, PoolIsOneLayer, Batch
<1>2. CASE SkipLayer
  <2>1. Batch = {} /\ Batch' = {}
    BY <1>2 DEF SkipLayer, IInv, PoolIsOneLayer, Batch
  <2>2. \A n \in Nodes : ~InFlight(n)'
    BY <2>1 DEF Batch, InFlight
  <2>3. TakenIsAccounted' /\ UnfinishedIsOpen' /\ OnlySolvedMaterialized'
    BY <1>2, <2>2, TakeEffect DEF SkipLayer, UnfinishedIsOpen, IInv
  <2> QED
    BY <1>0, <2>1, <2>2, <2>3
       DEF IInv, PoolIsOneLayer, NoSolveOnFailedDependency
<1>3. CASE DispatchLayer
  <2>1. Batch' = Ready
    BY <1>3 DEF DispatchLayer, Batch, Ready, Takeable, Layer
  <2>2. \A n \in Nodes : InFlight(n)' => n \in Ready
    BY <2>1 DEF Batch, InFlight
  <2>3. TakenIsAccounted' /\ OnlySolvedMaterialized'
    BY <1>3, TakeEffect DEF DispatchLayer, IInv
  <2>4. UnfinishedIsOpen'
    BY <1>3, <2>2, TakeEffect DEF DispatchLayer, UnfinishedIsOpen
  <2>5. NoSolveOnFailedDependency'
    BY <1>3, <2>2, TakeEffect DEF DispatchLayer, NoSolveOnFailedDependency
  <2>6. PoolIsOneLayer'
    BY <1>3, <2>1 DEF DispatchLayer, PoolIsOneLayer, Ready, Takeable
  <2> QED
    BY <1>0, <2>3, <2>4, <2>5, <2>6 DEF IInv
<1>4. CASE EndPass
  BY <1>0, <1>4, QuietStep DEF EndPass, IInv, PoolIsOneLayer, Batch, InFlight
<1>5. CASE NextLayer
  BY <1>0, <1>5, QuietStep DEF NextLayer, Batch
<1>6. CASE StopOverBudget
  BY <1>0, <1>6, QuietStep DEF StopOverBudget, Batch
<1>7. CASE WaitTimesOut
  BY <1>0, <1>7, QuietStep DEF WaitTimesOut, Batch, InFlight
<1>8. CASE Unwind
  BY <1>0, <1>8, QuietStep DEF Unwind, Batch
<1>9. CASE DropMaterialized
  <2>1. Batch' = {}
    BY <1>9 DEF DropMaterialized, IInv, PoolIsOneLayer, Batch
  <2>2. \A n \in Nodes : tables'[n] # "absent" => tables[n] # "absent"
    BY <1>9 DEF DropMaterialized
  <2> QED
    BY <1>0, <1>9, <2>1, <2>2, QuietStep DEF DropMaterialized
<1>10. ASSUME NEW n \in Nodes, CompleteFuture(n) PROVE IInv'
  BY <1>0, <1>10, CompleteFutureStep
<1>11. ASSUME NEW n \in Nodes, Worker(n) PROVE IInv'
  <2>1. /\ UNCHANGED <<dag, control, ledger, db>>
        /\ future[n] \in {"queued", "running"}
        /\ future'[n] \in {"running", "done"}
        /\ \A m \in Nodes \ {n} : future'[m] = future[m]
    BY <1>11 DEF Worker, StartSolve, FinishSolve, IInv, TypeOK
  <2>2. Batch' = Batch /\ Batch # {}
    BY <2>1 DEF Batch
  <2>3. \A m \in Nodes : InFlight(m)' => InFlight(m)
    BY <2>1 DEF InFlight
  <2>4. phase \in {"wait", "unwind"}
    BY <2>2 DEF IInv, PoolIsOneLayer
  <2> QED
    BY <1>0, <2>1, <2>2, <2>3, <2>4, QuietStep
<1>12. CASE UNCHANGED vars
  <2>1. Batch' = Batch /\ \A n \in Nodes : InFlight(n)' => InFlight(n)
    BY <1>12 DEF vars, Batch, InFlight
  <2> QED
    BY <1>0, <1>12, <2>1, QuietStep DEF vars, IInv, PoolIsOneLayer
<1> QED
  BY <1>1, <1>2, <1>3, <1>4, <1>5, <1>6, <1>7, <1>8, <1>9, <1>10, <1>11,
     <1>12 DEF Next, Main, Rest

-----------------------------------------------------------------------------
(* The properties that follow from the invariant.                          *)

(* IInv: what the theorems about a run of the scheduler rest on.           *)
THEOREM InductiveInvariant == Spec => []IInv
BY InitIInv, StepIInv, PTL DEF Spec

(* However many nodes ask for replans, and in whatever order their futures *)
(* complete, no node is taken a third time.                                *)
THEOREM TakenAtMostTwice == Spec => []NodeTakenAtMostTwice
<1>1. IInv => NodeTakenAtMostTwice
  BY DEF IInv, TakenIsAccounted, NodeTakenAtMostTwice
<1> QED
  BY <1>1, InductiveInvariant, PTL

(* No solve call runs on a dependency without a result, or on one whose    *)
(* result is, or becomes while the call runs, FAILED or BLOCKED.           *)
THEOREM SolvesOnSoundDependencies == Spec => []NoSolveOnFailedDependency
<1>1. IInv => NoSolveOnFailedDependency
  BY DEF IInv
<1> QED
  BY <1>1, InductiveInvariant, PTL

(* No context table exists for a node whose result is not SOLVED with      *)
(* rows, whether or not the database fails.                                *)
THEOREM UncertainNeverMaterialized == Spec => []OnlySolvedMaterialized
<1>1. IInv => OnlySolvedMaterialized
  BY DEF IInv
<1> QED
  BY <1>1, InductiveInvariant, PTL

(* A SOLVED or BLOCKED result is never replaced.                           *)
THEOREM FinalResults == Spec => FinalResultsStand
<1>1. IInv /\ [Next]_vars =>
        [\A n \in Nodes : results[n].status \in {"SOLVED", "BLOCKED"} =>
             results'[n] = results[n]]_vars
  <2> SUFFICES ASSUME IInv, Next, NEW n \in Nodes,
                      results[n].status \in {"SOLVED", "BLOCKED"}
               PROVE  results'[n] = results[n]
    OBVIOUS
  <2>1. n \in consumed /\ ~InFlight(n)
    BY DEF IInv, UnfinishedIsOpen, Open
  <2>2. ASSUME NEW m \in Nodes, CompleteFuture(m) PROVE results'[n] = results[n]
    <3>1. m # n
      BY <2>1, <2>2 DEF CompleteFuture, InFlight
    <3> QED
      BY <2>2, <3>1 DEF CompleteFuture, IInv, TypeOK
  <2>3. CASE Take
    BY <2>1, <2>3 DEF Take, Blocked, Takeable
  <2>4. CASE UNCHANGED results
    BY <2>4
  <2> QED
    BY <2>2, <2>3, <2>4
       DEF Next, Main, Worker, Rest, vars, ledger, BeginPass, SkipLayer,
           DispatchLayer, EndPass, NextLayer, StopOverBudget, WaitTimesOut,
           Unwind, DropMaterialized, StartSolve, FinishSolve
<1> QED
  BY <1>1, InductiveInvariant, PTL DEF Spec, FinalResultsStand

-----------------------------------------------------------------------------
(* With a database whose statements do not fail, the tables are exactly    *)
(* the names to drop, every standing SOLVED result with rows has its       *)
(* table, and what a running solve call was told of stays in place.        *)

TablesMatchLedger ==
    \A n \in Nodes :
        /\ phase = "returned" => tables[n] = "absent"
        /\ phase # "returned" =>
              tables[n] = IF n \in materialized THEN "full" ELSE "absent"

SolvedRowsHaveTable ==
    phase # "returned" /\ MaterializeContext =>
        \A n \in Nodes :
            results[n].status = "SOLVED" /\ results[n].rows => tables[n] = "full"

ClaimsAreDependencies ==
    \A n \in Nodes : InFlight(n) => context[n].claimed \subseteq dag.deps[n]

DBInv ==
    /\ TablesMatchLedger
    /\ SolvedRowsHaveTable
    /\ ClaimsAreDependencies
    /\ ClaimedTablesExist

LEMMA InitDBInv == Init => DBInv
<1> SUFFICES ASSUME Init PROVE DBInv
  OBVIOUS
<1>1. TablesMatchLedger /\ SolvedRowsHaveTable
  BY DEF Init, TablesMatchLedger, SolvedRowsHaveTable, NoResult
<1>2. ClaimsAreDependencies /\ ClaimedTablesExist
  BY DEF Init, ClaimsAreDependencies, ClaimedTablesExist, InFlight
<1> QED
  BY <1>1, <1>2 DEF DBInv

(* Steps that touch neither tables nor results.                            *)
LEMMA QuietDB ==
    ASSUME IInv, DBInv, UNCHANGED <<dag, results, context, tables, materialized>>,
           phase # "returned", phase' # "returned",
           \A n \in Nodes : InFlight(n)' => InFlight(n)
    PROVE  DBInv'
<1>1. TablesMatchLedger' /\ SolvedRowsHaveTable'
  BY DEF DBInv, TablesMatchLedger, SolvedRowsHaveTable
<1>2. ClaimsAreDependencies' /\ ClaimedTablesExist'
  BY DEF DBInv, ClaimsAreDependencies, ClaimedTablesExist
<1> QED
  BY <1>1, <1>2 DEF DBInv

LEMMA TakeDB ==
    ASSUME IInv, DBInv, phase = "layer", Take, phase' # "returned",
           UNCHANGED <<tables, materialized>>
    PROVE  TablesMatchLedger' /\ SolvedRowsHaveTable'
<1>1. \A n \in Nodes : results'[n] = results[n] \/ results'[n].status = "BLOCKED"
  BY DEF Take
<1> QED
  BY <1>1 DEF DBInv, TablesMatchLedger, SolvedRowsHaveTable

LEMMA CompleteFutureDB ==
    ASSUME ~FaultyDatabase, IInv, DBInv, NEW n \in Nodes, CompleteFuture(n)
    PROVE  DBInv'
<1>1. /\ ending[n] \in Endings /\ Open(n)
      /\ n \in Batch /\ phase = "wait" /\ phase' = "wait"
      /\ UNCHANGED <<dag, context>>
  BY DEF CompleteFuture, IInv, TypeOK, UnfinishedIsOpen, InFlight, Batch
<1>2. /\ results'[n].status = StatusOf(ending[n])
      /\ results'[n].rows = HasRows(ending[n])
      /\ \A m \in Nodes \ {n} : results'[m] = results[m]
  BY DEF CompleteFuture, IInv, TypeOK
<1>3. \/ /\ MaterializeContext /\ ending[n] = "solved"
         /\ tables' = [tables EXCEPT ![n] = "full"]
         /\ materialized' = materialized \cup {n}
      \/ /\ ~(MaterializeContext /\ ending[n] = "solved")
         /\ UNCHANGED <<tables, materialized>>
  BY DEF CompleteFuture, MaterializeResult, db
<1>4. TablesMatchLedger'
  BY <1>1, <1>3 DEF DBInv, TablesMatchLedger, IInv, TypeOK
<1>5. SolvedRowsHaveTable'
  <2> SUFFICES ASSUME MaterializeContext, NEW m \in Nodes,
                      results'[m].status = "SOLVED", results'[m].rows
               PROVE  tables'[m] = "full"
    BY DEF SolvedRowsHaveTable
  <2>1. CASE m = n
    BY <2>1, <1>1, <1>2, <1>3, StatusOfEnding DEF IInv, TypeOK
  <2>2. CASE m # n
    BY <2>2, <1>1, <1>2, <1>3 DEF IInv, TypeOK, DBInv, SolvedRowsHaveTable
  <2> QED
    BY <2>1, <2>2
<1>6. \A m \in Nodes : InFlight(m)' => InFlight(m)
  BY DEF CompleteFuture, IInv, TypeOK, InFlight
<1>7. ClaimsAreDependencies'
  BY <1>1, <1>6 DEF DBInv, ClaimsAreDependencies
<1>8. ClaimedTablesExist'
  <2> SUFFICES ASSUME NEW m \in Nodes, InFlight(m)', NEW d \in context[m].claimed
               PROVE  /\ tables'[d] = "full"
                      /\ results'[d].run = context[m].run[d]
    BY <1>1 DEF ClaimedTablesExist
  <2>1. InFlight(m) /\ m \in Batch
    BY <1>6 DEF InFlight, Batch
  <2>2. d \in dag.deps[m] /\ d \in Nodes
    BY <2>1 DEF DBInv, ClaimsAreDependencies, IInv, TypeOK, DAGShape
  <2>3. d # n
    BY <1>1, <2>1, <2>2, LayerIsIndependent DEF IInv, PoolIsOneLayer
  <2>4. tables'[d] = tables[d] /\ results'[d] = results[d]
    BY <1>2, <1>3, <2>2, <2>3 DEF IInv, TypeOK
  <2> QED
    BY <2>1, <2>4 DEF DBInv, ClaimedTablesExist
<1> QED
  BY <1>4, <1>5, <1>7, <1>8 DEF DBInv

LEMMA DispatchLayerDB ==
    ASSUME IInv, DBInv, DispatchLayer
    PROVE  DBInv'
<1> USE DEF db
<1>1. \A n \in Nodes : InFlight(n)' => n \in Ready
  BY DEF DispatchLayer, InFlight
<1>2. \A n \in Ready : n \in Nodes /\ context'[n] = ContextFor(n)
  BY DEF DispatchLayer, Ready, Takeable, Layer
<1>3. TablesMatchLedger' /\ SolvedRowsHaveTable'
  BY TakeDB DEF DispatchLayer
<1>4. ASSUME NEW n \in Ready, NEW d \in ContextFor(n).claimed
      PROVE  /\ d \in dag.deps[n] /\ d \in Nodes
             /\ tables[d] = "full" /\ results'[d] = results[d]
             /\ results[d].run = ContextFor(n).run[d]
  <2>1. /\ d \in dag.deps[n] /\ d \in Nodes
        /\ results[d].status = "SOLVED" /\ results[d].rows
        /\ MaterializeContext
    BY <1>2, <1>4 DEF ContextFor, IInv, TypeOK, DAGShape
  <2>2. tables[d] = "full"
    BY <2>1 DEF DispatchLayer, DBInv, SolvedRowsHaveTable
  <2>3. d \notin Blocked
    BY <2>1 DEF Blocked, Takeable, IInv, UnfinishedIsOpen, Open
  <2>4. results'[d] = results[d]
    BY <2>1, <2>3 DEF DispatchLayer, Take
  <2> QED
    BY <2>1, <2>2, <2>4 DEF ContextFor
<1>5. ClaimsAreDependencies'
  BY <1>1, <1>2, <1>4 DEF DispatchLayer, ClaimsAreDependencies
<1>6. ClaimedTablesExist'
  BY <1>1, <1>2, <1>4 DEF DispatchLayer, ClaimedTablesExist
<1> QED
  BY <1>3, <1>5, <1>6 DEF DBInv

LEMMA StepDBInv == ~FaultyDatabase /\ IInv /\ DBInv /\ [Next]_vars => DBInv'
<1> SUFFICES ASSUME ~FaultyDatabase, IInv, DBInv, [Next]_vars PROVE DBInv'
  OBVIOUS
<1> USE DEF control, ledger, pool, db
<1>1. CASE \/ BeginPass \/ EndPass \/ NextLayer \/ StopOverBudget
           \/ WaitTimesOut \/ Unwind
  <2>1. /\ UNCHANGED <<dag, results, context, tables, materialized>>
        /\ phase # "returned" /\ phase' # "returned"
    <3>1. CASE EndPass
      <4>1. phase' = "pass" \/ phase' = "cleanup"
        BY <3>1, Zenon DEF EndPass
      <4> QED
        BY <3>1, <4>1 DEF EndPass
    <3>2. CASE \/ BeginPass \/ NextLayer \/ StopOverBudget
               \/ WaitTimesOut \/ Unwind
      BY <3>2 DEF BeginPass, NextLayer, StopOverBudget, WaitTimesOut, Unwind,
                  LayerDone
    <3> QED
      BY <1>1, <3>1, <3>2
  <2>2. \A n \in Nodes : InFlight(n)' => InFlight(n)
    BY <1>1 DEF BeginPass, EndPass, NextLayer, StopOverBudget, WaitTimesOut,
                Unwind, InFlight
  <2> QED
    BY <2>1, <2>2, QuietDB
<1>2. CASE SkipLayer
  <2>1. \A n \in Nodes : ~InFlight(n)'
    BY <1>2 DEF SkipLayer, IInv, PoolIsOneLayer, Batch, InFlight
  <2>2. TablesMatchLedger' /\ SolvedRowsHaveTable'
    BY <1>2, TakeDB DEF SkipLayer
  <2> QED
    BY <2>1, <2>2 DEF DBInv, ClaimsAreDependencies, ClaimedTablesExist
<1>3. CASE DispatchLayer
  BY <1>3, DispatchLayerDB
<1>4. CASE DropMaterialized
  <2>1. \A n \in Nodes : ~InFlight(n)'
    BY <1>4 DEF DropMaterialized, IInv, PoolIsOneLayer, Batch, InFlight
  <2>2. \A n \in Nodes : tables'[n] = "absent"
    BY <1>4 DEF DropMaterialized, DBInv, TablesMatchLedger
  <2> QED
    BY <1>4, <2>1, <2>2 DEF DropMaterialized, DBInv, TablesMatchLedger,
       SolvedRowsHaveTable, ClaimsAreDependencies, ClaimedTablesExist
<1>5. ASSUME NEW n \in Nodes, CompleteFuture(n) PROVE DBInv'
  BY <1>5, CompleteFutureDB
<1>6. ASSUME NEW n \in Nodes, Worker(n) PROVE DBInv'
  <2>1. /\ UNCHANGED <<dag, control, ledger, context, db>>
        /\ \A m \in Nodes : InFlight(m)' => InFlight(m)
        /\ n \in Batch
    BY <1>6 DEF Worker, StartSolve, FinishSolve, IInv, TypeOK, InFlight, Batch
  <2>2. phase # "returned"
    BY <2>1 DEF IInv, PoolIsOneLayer
  <2> QED
    BY <2>1, <2>2, QuietDB
<1>7. CASE UNCHANGED vars
  <2>1. \A n \in Nodes : InFlight(n)' <=> InFlight(n)
    BY <1>7 DEF vars, InFlight
  <2> QED
    BY <1>7, <2>1 DEF vars, DBInv, TablesMatchLedger, SolvedRowsHaveTable,
       ClaimsAreDependencies, ClaimedTablesExist
<1> QED
  BY <1>1, <1>2, <1>3, <1>4, <1>5, <1>6, <1>7 DEF Next, Main, Rest

(* With such a database, a running solve call finds in every context table *)
(* it was told of the rows it was told of.                                 *)
THEOREM ClaimedTablesStay ==
    ASSUME ~FaultyDatabase PROVE Spec => []ClaimedTablesExist
<1>1. IInv /\ DBInv /\ [Next]_vars => DBInv'
  BY StepDBInv
<1>2. DBInv => ClaimedTablesExist
  BY DEF DBInv
<1> QED
  BY <1>1, <1>2, InitDBInv, InductiveInvariant, PTL DEF Spec

(* With such a database, run() leaves no context table when it returns.    *)
THEOREM TablesDropped ==
    ASSUME ~FaultyDatabase PROVE Spec => []TablesDroppedOnReturn
<1>1. IInv /\ DBInv /\ [Next]_vars => DBInv'
  BY StepDBInv
<1>2. DBInv => TablesDroppedOnReturn
  BY DEF DBInv, TablesMatchLedger, TablesDroppedOnReturn
<1> QED
  BY <1>1, <1>2, InitDBInv, InductiveInvariant, PTL DEF Spec
-----------------------------------------------------------------------------
(* Arithmetic without induction over data: sets of naturals instead.       *)
(* A nonempty set of naturals has a least element.                         *)
LEMMA LeastNatural ==
    ASSUME NEW T \in SUBSET Nat, T # {}
    PROVE  \E m \in T : \A n \in T : m <= n
<1> DEFINE Below == {1..m : m \in T}
<1>1. IsWellFoundedOn(StrictSubsetOrdering(Nat), FiniteSubsetsOf(Nat))
  BY FS_StrictSubsetOrderingWellFounded
<1>2. Below \subseteq FiniteSubsetsOf(Nat) /\ Below # {}
  <2>1. \A m \in T : 1..m \in SUBSET Nat /\ IsFiniteSet(1..m)
    BY FS_Interval
  <2> QED
    BY <2>1 DEF FiniteSubsetsOf
<1>3. PICK x \in Below : \A y \in Below : ~(<<y, x>> \in StrictSubsetOrdering(Nat))
  <2> HIDE DEF Below
  <2> QED
    BY <1>1, <1>2, WFMin
<1>4. PICK m \in T : x = 1..m
  OBVIOUS
<1>5. ASSUME NEW n \in T, n < m PROVE FALSE
  <2>1. (1..n) \in SUBSET Nat /\ (1..m) \in SUBSET Nat
    OBVIOUS
  <2>2. (1..n) \subseteq (1..m) /\ m \in 1..m /\ m \notin 1..n
    BY <1>5
  <2>3. <<1..n, 1..m>> \in StrictSubsetOrdering(Nat)
    BY <2>1, <2>2 DEF StrictSubsetOrdering
  <2> QED
    BY <1>3, <1>4, <2>3
<1> QED
  BY <1>5

(* Induction, over a set of naturals.                                      *)
LEMMA InductionOnSet ==
    ASSUME NEW S, 0 \in S, \A k \in Nat : k \in S => k + 1 \in S
    PROVE  Nat \subseteq S
<1> SUFFICES ASSUME Nat \ S # {} PROVE FALSE
  OBVIOUS
<1>1. PICK m \in Nat \ S : \A n \in Nat \ S : m <= n
  BY LeastNatural
<1>2. m - 1 \in Nat /\ m - 1 \in S
  BY <1>1
<1> QED
  BY <1>2

(* A function can be iterated.                                             *)
LEMMA Iteration ==
    ASSUME NEW V, NEW v \in V, NEW G \in [V -> V]
    PROVE  \E f \in [Nat -> V] : f[0] = v /\ \A i \in Nat : f[i + 1] = G[f[i]]
<1> DEFINE Upto(n) == {g \in [0..n -> V] : g[0] = v /\ \A i \in 0..(n - 1) : g[i + 1] = G[g[i]]}
<1>1. \A n \in Nat : Upto(n) # {}
  <2> DEFINE S == {n \in Nat : Upto(n) # {}}
  <2>1. 0 \in S
    <3>1. [i \in 0..0 |-> v] \in Upto(0)
      OBVIOUS
    <3> QED
      BY <3>1
  <2>2. ASSUME NEW k \in Nat, k \in S PROVE k + 1 \in S
    <3>1. PICK g : g \in Upto(k)
      BY <2>2
    <3> DEFINE h == [i \in 0..(k + 1) |-> IF i = k + 1 THEN G[g[k]] ELSE g[i]]
    <3>2. h \in [0..(k + 1) -> V]
      BY <3>1
    <3>3. h[0] = v
      BY <3>1
    <3>4. ASSUME NEW i \in 0..k PROVE h[i + 1] = G[h[i]]
      <4>1. CASE i = k
        BY <4>1
      <4>2. CASE i < k
        <5>1. i \in 0..(k - 1) /\ i + 1 \in 0..k
          BY <4>2
        <5>2. h[i] = g[i] /\ h[i + 1] = g[i + 1]
          BY <5>1
        <5> QED
          BY <3>1, <5>1, <5>2
      <4> QED
        BY <4>1, <4>2
    <3>5. 0..(k + 1 - 1) = 0..k
      OBVIOUS
    <3>6. h \in Upto(k + 1)
      <4> HIDE DEF h
      <4> QED
        BY <3>2, <3>3, <3>4, <3>5
    <3> QED
      BY <3>6
  <2>3. Nat \subseteq S
    <3> HIDE DEF S
    <3> QED
      BY <2>1, <2>2, InductionOnSet
  <2> QED
    BY <2>3
<1>2. ASSUME NEW n \in Nat, NEW m \in Nat, NEW g \in Upto(n), NEW h \in Upto(m)
      PROVE  \A i \in Nat : i <= n /\ i <= m => g[i] = h[i]
  <2> DEFINE S == {i \in Nat : i <= n /\ i <= m => g[i] = h[i]}
  <2>1. 0 \in S
    OBVIOUS
  <2>2. ASSUME NEW k \in Nat, k \in S PROVE k + 1 \in S
    <3> SUFFICES ASSUME k + 1 <= n, k + 1 <= m PROVE g[k + 1] = h[k + 1]
      OBVIOUS
    <3>1. k \in 0..(n - 1) /\ k \in 0..(m - 1) /\ g[k] = h[k]
      BY <2>2
    <3>2. g[k + 1] = G[g[k]] /\ h[k + 1] = G[h[k]]
      BY <3>1
    <3> QED
      BY <3>1, <3>2
  <2>3. Nat \subseteq S
    <3> HIDE DEF S
    <3> QED
      BY <2>1, <2>2, InductionOnSet
  <2> QED
    BY <2>3
<1> DEFINE approx == [n \in Nat |-> CHOOSE g : g \in Upto(n)]
           f == [n \in Nat |-> approx[n][n]]
<1>3. \A n \in Nat : approx[n] \in Upto(n)
  BY <1>1
<1> HIDE DEF approx
<1>4. f \in [Nat -> V]
  <2>1. \A n \in Nat : approx[n] \in [0..n -> V] /\ n \in 0..n
    BY <1>3
  <2> QED
    BY <2>1
<1>5. f[0] = v
  BY <1>3
<1>6. ASSUME NEW i \in Nat PROVE f[i + 1] = G[f[i]]
  <2>1. approx[i + 1] \in Upto(i + 1) /\ approx[i] \in Upto(i) /\ i + 1 \in Nat
    BY <1>3
  <2>2. approx[i + 1][i] = approx[i][i]
    <3> HIDE DEF Upto
    <3> QED
      BY <2>1, <1>2
  <2>3. i \in 0..(i + 1 - 1)
    OBVIOUS
  <2>4. approx[i + 1][i + 1] = G[approx[i + 1][i]]
    BY <2>1, <2>3
  <2> QED
    BY <2>1, <2>2, <2>4
<1> QED
  BY <1>4, <1>5, <1>6

Placing(d) == [S \in SUBSET Nodes |-> S \cup {n \in Nodes \ d.skewed : d.deps[n] \subseteq S}]

LEMMA PlacedSteps ==
    ASSUME NEW d \in DAGShape
    PROVE  /\ Placed(d, 0) = {}
           /\ \A k \in Nat : Placed(d, k + 1) = Placed(d, k) \cup
                  {n \in Nodes \ d.skewed : d.deps[n] \subseteq Placed(d, k)}
<1>1. Placing(d) \in [SUBSET Nodes -> SUBSET Nodes]
  BY DEF Placing
<1>2. PICK f \in [Nat -> SUBSET Nodes] :
          f[0] = {} /\ \A i \in Nat : f[i + 1] = Placing(d)[f[i]]
  <2>1. PICK V, v, G : V = SUBSET Nodes /\ v = {} /\ G = Placing(d)
    OBVIOUS
  <2>2. v \in V /\ G \in [V -> V]
    BY <1>1, <2>1
  <2>3. \E f \in [Nat -> V] : f[0] = v /\ \A i \in Nat : f[i + 1] = G[f[i]]
    BY <2>2, Iteration
  <2> QED
    BY <2>1, <2>3
<1>3. f = [i \in Nat |-> IF i = 0 THEN {}
                         ELSE f[i - 1] \cup {n \in Nodes \ d.skewed : d.deps[n] \subseteq f[i - 1]}]
  <2>1. ASSUME NEW i \in Nat, i # 0
        PROVE  f[i] = f[i - 1] \cup {n \in Nodes \ d.skewed : d.deps[n] \subseteq f[i - 1]}
    <3>1. i - 1 \in Nat /\ (i - 1) + 1 = i
      BY <2>1
    <3>2. f[i] = Placing(d)[f[i - 1]] /\ f[i - 1] \in SUBSET Nodes
      BY <1>2, <3>1
    <3> QED
      BY <3>2 DEF Placing
  <2> QED
    BY <1>2, <2>1
<1> DEFINE F == CHOOSE g : g = [i \in Nat |-> IF i = 0 THEN {}
                         ELSE g[i - 1] \cup {n \in Nodes \ d.skewed : d.deps[n] \subseteq g[i - 1]}]
<1>4. F = [i \in Nat |-> IF i = 0 THEN {}
                         ELSE F[i - 1] \cup {n \in Nodes \ d.skewed : d.deps[n] \subseteq F[i - 1]}]
  BY <1>3
<1>5. \A k : Placed(d, k) = F[k]
  BY DEF Placed
<1> HIDE DEF F
<1>6. F[0] = {} /\ \A k \in Nat : F[k + 1] = F[k] \cup {n \in Nodes \ d.skewed : d.deps[n] \subseteq F[k]}
  BY <1>4
<1> QED
  BY <1>5, <1>6

(* The first k layers hold the nodes of each of them, and no others.       *)
LEMMA PlacedInLayers ==
    ASSUME NEW d \in DAGShape
    PROVE  \A k \in Nat :
               /\ \A j \in 1..k : Layer(d, j) \subseteq Placed(d, k)
               /\ \A n \in Placed(d, k) : \E j \in 1..k : n \in Layer(d, j)
<1> DEFINE S == {k \in Nat : /\ \A j \in 1..k : Layer(d, j) \subseteq Placed(d, k)
                             /\ \A n \in Placed(d, k) : \E j \in 1..k : n \in Layer(d, j)}
<1>1. 0 \in S
  BY PlacedSteps
<1>2. ASSUME NEW k \in Nat, k \in S PROVE k + 1 \in S
  <2>1. /\ Placed(d, k + 1) = Placed(d, k) \cup
               {n \in Nodes \ d.skewed : d.deps[n] \subseteq Placed(d, k)}
        /\ Layer(d, k + 1) = {n \in Nodes \ (d.skewed \cup Placed(d, k)) :
               d.deps[n] \subseteq Placed(d, k)}
    <3>1. (k + 1) - 1 = k
      OBVIOUS
    <3> QED
      BY <3>1, PlacedSteps DEF Layer
  <2>2. Placed(d, k + 1) = Placed(d, k) \cup Layer(d, k + 1)
    BY <2>1
  <2>3. \A j \in 1..(k + 1) : j \in 1..k \/ j = k + 1
    OBVIOUS
  <2>4. \A j \in 1..k : j \in 1..(k + 1)
    OBVIOUS
  <2>5. \A j \in 1..(k + 1) : Layer(d, j) \subseteq Placed(d, k + 1)
    BY <1>2, <2>2, <2>3
  <2>6. ASSUME NEW n \in Placed(d, k + 1) PROVE \E j \in 1..(k + 1) : n \in Layer(d, j)
    <3>1. CASE n \in Placed(d, k)
      BY <1>2, <2>4, <3>1
    <3>2. CASE n \in Layer(d, k + 1)
      BY <3>2
    <3> QED
      BY <2>2, <3>1, <3>2
  <2> QED
    BY <2>5, <2>6
<1>3. Nat \subseteq S
  <2> HIDE DEF S
  <2> QED
    BY <1>1, <1>2, InductionOnSet
<1> QED
  BY <1>3

(* Below an empty layer every well-formed node whose dependencies are in   *)
(* earlier layers is in one itself.                                        *)
LEMMA EmptyLayerIsTheEnd ==
    ASSUME NEW d \in DAGShape, NEW k \in Nat \ {0}, Layer(d, k) = {},
           NEW n \in Nodes \ d.skewed,
           \A e \in d.deps[n] : \E j \in 1..(k - 1) : e \in Layer(d, j)
    PROVE  \E j \in 1..(k - 1) : n \in Layer(d, j)
<1>1. k - 1 \in Nat
  OBVIOUS
<1>2. d.deps[n] \subseteq Placed(d, k - 1)
  BY <1>1, PlacedInLayers
<1>3. n \in Placed(d, k - 1)
  BY <1>2 DEF Layer
<1> QED
  BY <1>1, <1>3, PlacedInLayers

-----------------------------------------------------------------------------
(* What the walk over the layers leaves behind. Nothing is dispatched over *)
(* budget; a node that was ever taken is runnable, and is in a layer that  *)
(* every walk reaches, since no layer before it is empty; and a walk that  *)
(* has made no progress so far has found no node to take. The last walk    *)
(* makes none, unless the budget stopped it.                               *)

WithinBudget == phase \in {"pass", "layer"} => tokens <= TokenBudget

Reached(n) ==
    \E k \in Nat \ {0} : n \in Layer(dag, k) /\ \A j \in 1..k : Layer(dag, j) # {}

TakenIsRunnable ==
    \A n \in Nodes :
        /\ HasResult(n) => taken[n] > 0
        /\ taken[n] > 0 =>
              /\ n \in dag.atomic /\ n \in Runnable(dag) /\ Reached(n)
              /\ \A d \in dag.deps[n] : HasResult(d)

ConsumedHasResult ==
    \A n \in Nodes :
        /\ future[n] = "yielded" => HasResult(n)
        /\ phase # "raised" /\ n \in consumed => HasResult(n) \/ InFlight(n)

LayersBehind ==
    /\ \A j \in 1..(layer - 1) : Layer(dag, j) # {}
    /\ phase = "wait" => Layer(dag, layer) # {}

WaitsForSome ==
    phase = "wait" =>
        /\ Batch # {}
        /\ ~progressed => \A n \in Nodes : future[n] # "yielded"

IdleBefore(k) ==
    \A j \in 1..(k - 1) : \A n \in Layer(dag, j) \cap dag.atomic :
        (\A d \in dag.deps[n] : HasResult(d)) => n \in consumed

IdleWalk ==
    /\ phase = "layer" /\ ~progressed => IdleBefore(layer)
    /\ phase \in {"cleanup", "returned"} /\ tokens <= TokenBudget =>
          Layer(dag, layer) = {} /\ IdleBefore(layer)

AmbiguousIsReplanned ==
    ReplanEnabled => \A n \in Nodes : results[n].status = "AMBIGUOUS" => n \in replanned

WalkInv ==
    /\ WithinBudget
    /\ TakenIsRunnable
    /\ ConsumedHasResult
    /\ LayersBehind
    /\ WaitsForSome
    /\ IdleWalk
    /\ AmbiguousIsReplanned

LEMMA InitWalk == Init => WalkInv
<1> SUFFICES ASSUME Init PROVE WalkInv
  OBVIOUS
<1>1. WithinBudget
  BY DEF Init, WithinBudget
<1>2. TakenIsRunnable /\ ConsumedHasResult
  BY DEF Init, TakenIsRunnable, ConsumedHasResult, HasResult
<1>3. LayersBehind /\ WaitsForSome /\ IdleWalk
  BY DEF Init, LayersBehind, WaitsForSome, IdleWalk
<1>4. AmbiguousIsReplanned
  BY DEF Init, AmbiguousIsReplanned, NoResult
<1> QED
  BY <1>1, <1>2, <1>3, <1>4 DEF WalkInv

(* A node whose dependencies are runnable is so itself.                    *)
LEMMA RunnableCloses ==
    ASSUME NEW d \in DAGShape, NEW n \in d.atomic \ d.skewed,
           d.deps[n] \subseteq Runnable(d)
    PROVE  n \in Runnable(d)
BY DEF Runnable, DAGShape

(* What a step that leaves the graph and the ledger alone keeps.           *)
LEMMA LedgerKept ==
    ASSUME WalkInv, UNCHANGED <<dag, ledger>>
    PROVE  /\ TakenIsRunnable' /\ AmbiguousIsReplanned'
           /\ \A n \in Nodes : HasResult(n)' <=> HasResult(n)
           /\ \A k : IdleBefore(k)' <=> IdleBefore(k)
<1> USE DEF ledger
<1>1. TakenIsRunnable'
  BY DEF WalkInv, TakenIsRunnable, HasResult, Reached
<1>2. AmbiguousIsReplanned'
  BY DEF WalkInv, AmbiguousIsReplanned
<1>3. \A n \in Nodes : HasResult(n)' <=> HasResult(n)
  BY DEF HasResult
<1>4. \A k : IdleBefore(k)' <=> IdleBefore(k)
  BY DEF IdleBefore, HasResult
<1> QED
  BY <1>1, <1>2, <1>3, <1>4

(* Taking the nodes of a layer.                                            *)
LEMMA TakeWalk ==
    ASSUME IInv, WalkInv, phase = "layer", Layer(dag, layer) # {}, Take, UNCHANGED dag
    PROVE  /\ TakenIsRunnable' /\ AmbiguousIsReplanned'
           /\ \A n \in Nodes : HasResult(n) => HasResult(n)'
           /\ \A n \in consumed' : HasResult(n)' \/ n \in Ready
<1>1. Takeable \subseteq Nodes /\ Blocked \subseteq Takeable
  BY DEF Takeable, Blocked, Layer
<1>2. \A n \in Nodes : taken[n] \in Nat
  BY DEF IInv, TypeOK
<1>3. \A n \in Nodes : HasResult(n) => HasResult(n)'
  <2>1. \A n \in Nodes : [status |-> "BLOCKED", rows |-> FALSE, run |-> taken[n] + 1] # NoResult
    BY DEF NoResult
  <2> QED
    BY <2>1 DEF Take, HasResult
<1>4. \A n \in Blocked : HasResult(n)'
  <2>1. \A n \in Nodes : [status |-> "BLOCKED", rows |-> FALSE, run |-> taken[n] + 1] # NoResult
    BY DEF NoResult
  <2> QED
    BY <1>1, <2>1 DEF Take, HasResult
<1>5. \A n \in consumed : HasResult(n)
  BY DEF IInv, PoolIsOneLayer, Batch, InFlight, WalkInv, ConsumedHasResult, TypeOK
<1>6. \A n \in consumed' : HasResult(n)' \/ n \in Ready
  BY <1>1, <1>3, <1>4, <1>5 DEF Take, Ready, IInv, TypeOK
<1>7. AmbiguousIsReplanned'
  BY DEF Take, WalkInv, AmbiguousIsReplanned
<1>8. \A n \in Takeable : n \in dag.atomic /\ n \in Layer(dag, layer)
                          /\ \A d \in dag.deps[n] : d \in Nodes /\ HasResult(d)
  BY <1>1 DEF Takeable, IInv, TypeOK, DAGShape
<1>9. ASSUME NEW n \in Takeable PROVE Reached(n) /\ n \in Runnable(dag)
  <2>1. layer \in Nat \ {0} /\ dag \in DAGShape
    BY DEF IInv, TypeOK
  <2>2. \A j \in 1..layer : j \in 1..(layer - 1) \/ j = layer
    BY <2>1
  <2>3. Reached(n)
    BY <1>8, <2>1, <2>2 DEF Reached, WalkInv, LayersBehind
  <2>4. dag.deps[n] \subseteq Runnable(dag)
    BY <1>8 DEF WalkInv, TakenIsRunnable
  <2>5. n \in dag.atomic \ dag.skewed
    BY <1>8 DEF Layer
  <2>6. n \in Runnable(dag)
    BY <2>1, <2>4, <2>5, RunnableCloses
  <2> QED
    BY <2>3, <2>6
<1>10. ASSUME NEW n \in Nodes
       PROVE  /\ HasResult(n)' => taken'[n] > 0
              /\ taken'[n] > 0 => /\ n \in dag.atomic /\ n \in Runnable(dag) /\ Reached(n)
                                  /\ \A d \in dag.deps[n] : d \in Nodes /\ HasResult(d)
  <2>1. CASE n \in Takeable
    BY <1>2, <1>8, <1>9, <2>1 DEF Take
  <2>2. CASE n \notin Takeable
    <3>1. taken'[n] = taken[n] /\ results'[n] = results[n]
      BY <1>1, <1>2, <2>2 DEF Take
    <3>2. \A d \in dag.deps[n] : d \in Nodes
      BY DEF IInv, TypeOK, DAGShape
    <3> QED
      BY <3>1, <3>2 DEF WalkInv, TakenIsRunnable, HasResult
  <2> QED
    BY <2>1, <2>2
<1>11. TakenIsRunnable'
  BY <1>3, <1>10 DEF TakenIsRunnable, Reached
<1> QED
  BY <1>3, <1>6, <1>7, <1>11

LEMMA SkipLayerWalk ==
    ASSUME IInv, WalkInv, SkipLayer
    PROVE  WalkInv'
<1> USE DEF control, pool, db
<1>1. layer \in Nat \ {0} /\ UNCHANGED <<dag, phase>> /\ layer' = layer + 1
      /\ phase = "layer" /\ Layer(dag, layer) # {} /\ Ready = {} /\ Take
  BY DEF SkipLayer, IInv, TypeOK
<1>2. TakenIsRunnable' /\ AmbiguousIsReplanned'
  BY <1>1, TakeWalk
<1>3. \A n \in Nodes : future'[n] = "none"
  BY <1>1 DEF SkipLayer, IInv, PoolIsOneLayer, Batch
<1>4. ConsumedHasResult'
  BY <1>1, <1>3, TakeWalk DEF ConsumedHasResult
<1>5. \A j \in 1..layer : j \in 1..(layer - 1) \/ j = layer
  BY <1>1
<1>6. LayersBehind'
  <2>1. \A j \in 1..(layer' - 1) : j \in 1..layer
    BY <1>1
  <2> QED
    BY <1>1, <1>5, <2>1 DEF WalkInv, LayersBehind
<1>7. WithinBudget' /\ WaitsForSome'
  BY <1>1 DEF WalkInv, WithinBudget, WaitsForSome, Take
<1>8. IdleWalk'
  <2> SUFFICES ASSUME ~progressed', NEW j \in 1..(layer' - 1),
                      NEW n \in Layer(dag, j) \cap dag.atomic,
                      \A d \in dag.deps[n] : HasResult(d)'
               PROVE  n \in consumed'
    BY <1>1 DEF IdleWalk, IdleBefore
  <2>1. Blocked = {} /\ ~progressed /\ Takeable = {}
    <3>1. ~(progressed \/ Blocked # {})
      BY <1>1, Zenon DEF Take
    <3> QED
      BY <1>1, <3>1 DEF Ready
  <2>2. consumed' = consumed /\ \A d \in Nodes : results'[d] = results[d]
    BY <1>1, <2>1 DEF Take
  <2>3. \A d \in dag.deps[n] : d \in Nodes /\ HasResult(d)
    BY <2>2 DEF HasResult, IInv, TypeOK, DAGShape, Layer
  <2>4. j \in 1..layer
    BY <1>1
  <2>5. CASE j = layer
    BY <2>1, <2>2, <2>3, <2>5 DEF Takeable
  <2>6. CASE j \in 1..(layer - 1)
    BY <1>1, <2>1, <2>2, <2>3, <2>6 DEF WalkInv, IdleWalk, IdleBefore
  <2> QED
    BY <1>5, <2>4, <2>5, <2>6
<1> QED
  BY <1>2, <1>4, <1>6, <1>7, <1>8 DEF WalkInv

LEMMA DispatchLayerWalk ==
    ASSUME IInv, WalkInv, DispatchLayer
    PROVE  WalkInv'
<1> USE DEF db
<1>1. /\ layer \in Nat \ {0} /\ UNCHANGED <<dag, layer>>
      /\ phase = "layer" /\ phase' = "wait"
      /\ Layer(dag, layer) # {} /\ Ready # {} /\ Take
  BY DEF DispatchLayer, IInv, TypeOK
<1>2. TakenIsRunnable' /\ AmbiguousIsReplanned'
  BY <1>1, TakeWalk
<1>3. Ready \subseteq Nodes
  BY DEF Ready, Takeable, Layer
<1>4. \A n \in Nodes : future'[n] = IF n \in Ready THEN "queued" ELSE "none"
  BY DEF DispatchLayer
<1>5. ConsumedHasResult'
  BY <1>1, <1>4, TakeWalk DEF ConsumedHasResult, InFlight
<1>6. WaitsForSome'
  BY <1>1, <1>3, <1>4 DEF WaitsForSome, Batch
<1>7. LayersBehind' /\ WithinBudget' /\ IdleWalk'
  BY <1>1 DEF WalkInv, LayersBehind, WithinBudget, IdleWalk
<1> QED
  BY <1>2, <1>5, <1>6, <1>7 DEF WalkInv

LEMMA CompleteFutureWalk ==
    ASSUME IInv, WalkInv, NEW n \in Nodes, CompleteFuture(n)
    PROVE  WalkInv'
<1>1. /\ phase = "wait" /\ phase' = "wait" /\ UNCHANGED <<dag, layer, taken>>
      /\ ending[n] \in Endings /\ n \in consumed /\ taken[n] > 0
      /\ progressed' = TRUE
  <2>1. ending[n] \in Endings /\ n \in consumed /\ taken[n] \in Nat
    BY DEF CompleteFuture, IInv, TypeOK, UnfinishedIsOpen, InFlight
  <2>2. taken[n] > 0
    BY <2>1 DEF IInv, TakenIsAccounted
  <2> QED
    BY <2>1, <2>2 DEF CompleteFuture
<1>2. /\ results'[n].status = StatusOf(ending[n])
      /\ \A m \in Nodes \ {n} : results'[m] = results[m]
  BY DEF CompleteFuture, IInv, TypeOK
<1>3. HasResult(n)'
  BY <1>1, <1>2, StatusOfEnding DEF HasResult, NoResult
<1>4. \A m \in Nodes : HasResult(m) => HasResult(m)'
  BY <1>2, <1>3 DEF HasResult
<1>5. /\ future'[n] = "yielded"
      /\ \A m \in Nodes \ {n} : future'[m] = future[m]
      /\ Batch' = Batch
  BY DEF CompleteFuture, IInv, TypeOK, Batch
<1>6. TakenIsRunnable'
  <2> SUFFICES ASSUME NEW m \in Nodes
               PROVE  /\ HasResult(m)' => taken[m] > 0
                      /\ taken[m] > 0 =>
                           /\ m \in dag.atomic /\ m \in Runnable(dag) /\ Reached(m)
                           /\ \A d \in dag.deps[m] : HasResult(d)'
    BY <1>1 DEF TakenIsRunnable, Reached
  <2>1. \A d \in dag.deps[m] : d \in Nodes
    BY DEF IInv, TypeOK, DAGShape
  <2> QED
    BY <1>1, <1>2, <1>4, <2>1 DEF WalkInv, TakenIsRunnable, HasResult
<1>7. \A m \in Nodes \ {n} : m \in consumed' => m \in consumed
  BY DEF CompleteFuture, GrantReplan
<1>8. ConsumedHasResult'
  BY <1>1, <1>3, <1>4, <1>5, <1>7 DEF WalkInv, ConsumedHasResult, InFlight
<1>9. AmbiguousIsReplanned'
  <2> SUFFICES ASSUME ReplanEnabled, NEW m \in Nodes, results'[m].status = "AMBIGUOUS"
               PROVE  m \in replanned'
    BY DEF AmbiguousIsReplanned
  <2>1. CASE m = n
    <3>1. AsksReplan(ending[n])
      BY <1>1, <1>2, <2>1, StatusOfEnding
    <3> QED
      BY <2>1, <3>1 DEF CompleteFuture, GrantReplan
  <2>2. CASE m # n
    BY <1>2, <2>2 DEF WalkInv, AmbiguousIsReplanned, CompleteFuture, GrantReplan
  <2> QED
    BY <2>1, <2>2
<1>10. WaitsForSome' /\ LayersBehind' /\ WithinBudget' /\ IdleWalk'
  BY <1>1, <1>5 DEF WalkInv, WaitsForSome, LayersBehind, WithinBudget, IdleWalk
<1> QED
  BY <1>6, <1>8, <1>9, <1>10 DEF WalkInv

(* The remaining steps leave the ledger alone.                             *)
LEMMA StepWalk == IInv /\ WalkInv /\ [Next]_vars => WalkInv'
<1> SUFFICES ASSUME IInv, WalkInv, [Next]_vars PROVE WalkInv'
  OBVIOUS
<1> USE DEF control, pool, db
<1>0. layer \in Nat \ {0} /\ tokens \in Nat
  BY DEF IInv, TypeOK
<1>1. CASE BeginPass
  <2>1. UNCHANGED <<dag, ledger>>
    BY <1>1 DEF BeginPass
  <2>2. ConsumedHasResult'
    BY <1>1, <2>1, LedgerKept DEF BeginPass, ledger, WalkInv, ConsumedHasResult, InFlight
  <2>3. LayersBehind' /\ WithinBudget' /\ WaitsForSome'
    BY <1>1 DEF BeginPass, ledger, WalkInv, LayersBehind, WithinBudget, WaitsForSome
  <2>4. IdleWalk'
    BY <1>1 DEF BeginPass, IdleWalk, IdleBefore
  <2> QED
    BY <2>1, <2>2, <2>3, <2>4, LedgerKept DEF WalkInv
<1>2. CASE SkipLayer
  BY <1>2, SkipLayerWalk
<1>3. CASE DispatchLayer
  BY <1>3, DispatchLayerWalk
<1>4. CASE EndPass
  <2>1. UNCHANGED <<dag, ledger, layer, progressed, future>>
        /\ phase = "layer" /\ Layer(dag, layer) = {}
    BY <1>4 DEF EndPass
  <2>2. phase' = "pass" \/ (phase' = "cleanup" /\ ~progressed)
    BY <1>4, Zenon DEF EndPass
  <2>3. ConsumedHasResult'
    BY <2>1, <2>2, LedgerKept DEF ledger, WalkInv, ConsumedHasResult, InFlight
  <2>4. LayersBehind' /\ WithinBudget' /\ WaitsForSome'
    BY <2>1, <2>2 DEF ledger, WalkInv, LayersBehind, WithinBudget, WaitsForSome
  <2>5. IdleWalk'
    BY <2>1, <2>2, LedgerKept DEF WalkInv, IdleWalk
  <2> QED
    BY <2>1, <2>3, <2>4, <2>5, LedgerKept DEF WalkInv
<1>5. CASE NextLayer
  <2>1. /\ UNCHANGED <<dag, ledger, progressed>> /\ layer' = layer + 1
        /\ phase = "wait" /\ phase' = "layer" /\ tokens <= TokenBudget
        /\ \A n \in Batch : future[n] = "yielded"
        /\ \A n \in Nodes : future'[n] = "none"
    BY <1>5 DEF NextLayer, LayerDone
  <2>2. ConsumedHasResult'
    BY <2>1, LedgerKept DEF ledger, WalkInv, ConsumedHasResult, InFlight, Batch
  <2>3. LayersBehind'
    <3>1. \A j \in 1..(layer' - 1) : j \in 1..(layer - 1) \/ j = layer
      BY <1>0, <2>1
    <3> QED
      BY <2>1, <3>1 DEF WalkInv, LayersBehind
  <2>4. progressed'
    BY <2>1 DEF WalkInv, WaitsForSome, Batch
  <2>5. WithinBudget' /\ WaitsForSome' /\ IdleWalk'
    BY <2>1, <2>4 DEF ledger, WithinBudget, WaitsForSome, IdleWalk
  <2> QED
    BY <2>1, <2>2, <2>3, <2>5, LedgerKept DEF WalkInv
<1>6. CASE StopOverBudget
  <2>1. /\ UNCHANGED <<dag, ledger, layer>> /\ phase = "wait" /\ phase' = "cleanup"
        /\ ~(tokens <= TokenBudget)
        /\ \A n \in Batch : future[n] = "yielded"
        /\ \A n \in Nodes : future'[n] = "none"
    BY <1>0, <1>6 DEF StopOverBudget, LayerDone
  <2>2. ConsumedHasResult'
    BY <2>1, LedgerKept DEF ledger, WalkInv, ConsumedHasResult, InFlight, Batch
  <2>3. LayersBehind' /\ WithinBudget' /\ WaitsForSome' /\ IdleWalk'
    BY <2>1 DEF ledger, WalkInv, LayersBehind, WithinBudget, WaitsForSome, IdleWalk
  <2> QED
    BY <2>1, <2>2, <2>3, LedgerKept DEF WalkInv
<1>7. CASE WaitTimesOut \/ Unwind
  <2>1. /\ UNCHANGED <<dag, ledger, layer>>
        /\ \/ phase' = "unwind" /\ phase = "wait" /\ UNCHANGED future
           \/ phase' = "raised" /\ \A n \in Nodes : future'[n] = "none"
    BY <1>7 DEF WaitTimesOut, Unwind
  <2>2. ConsumedHasResult'
    BY <2>1, LedgerKept DEF ledger, WalkInv, ConsumedHasResult, InFlight
  <2>3. LayersBehind' /\ WithinBudget' /\ WaitsForSome' /\ IdleWalk'
    BY <2>1 DEF WalkInv, LayersBehind, WithinBudget, WaitsForSome, IdleWalk
  <2> QED
    BY <2>1, <2>2, <2>3, LedgerKept DEF WalkInv
<1>8. CASE DropMaterialized
  <2>1. UNCHANGED <<dag, ledger, layer, future>> /\ phase = "cleanup" /\ phase' = "returned"
    BY <1>8 DEF DropMaterialized
  <2>2. ConsumedHasResult'
    BY <2>1, LedgerKept DEF ledger, WalkInv, ConsumedHasResult, InFlight
  <2>3. LayersBehind' /\ WithinBudget' /\ WaitsForSome'
    BY <2>1 DEF WalkInv, LayersBehind, WithinBudget, WaitsForSome
  <2>4. IdleWalk'
    BY <2>1, LedgerKept DEF ledger, WalkInv, IdleWalk
  <2> QED
    BY <2>1, <2>2, <2>3, <2>4, LedgerKept DEF WalkInv
<1>9. ASSUME NEW n \in Nodes, CompleteFuture(n) PROVE WalkInv'
  BY <1>9, CompleteFutureWalk
<1>10. ASSUME NEW n \in Nodes, Worker(n) PROVE WalkInv'
  <2>1. /\ UNCHANGED <<dag, control, ledger>>
        /\ future[n] \in {"queued", "running"}
        /\ future'[n] \in {"running", "done"}
        /\ \A m \in Nodes \ {n} : future'[m] = future[m]
    BY <1>10 DEF Worker, StartSolve, FinishSolve, IInv, TypeOK
  <2>2. Batch' = Batch
    BY <2>1 DEF Batch
  <2>3. ConsumedHasResult'
    BY <2>1, LedgerKept DEF ledger, WalkInv, ConsumedHasResult, InFlight
  <2>4. LayersBehind' /\ WithinBudget' /\ WaitsForSome'
    BY <2>1, <2>2 DEF ledger, WalkInv, LayersBehind, WithinBudget, WaitsForSome
  <2>5. IdleWalk'
    BY <2>1, LedgerKept DEF ledger, WalkInv, IdleWalk
  <2> QED
    BY <2>1, <2>3, <2>4, <2>5, LedgerKept DEF WalkInv
<1>11. CASE UNCHANGED vars
  <2>1. UNCHANGED <<dag, control, ledger, pool>>
    BY <1>11 DEF vars
  <2>2. ConsumedHasResult'
    BY <2>1, LedgerKept DEF ledger, WalkInv, ConsumedHasResult, InFlight
  <2>3. LayersBehind' /\ WithinBudget' /\ WaitsForSome'
    BY <2>1 DEF ledger, WalkInv, LayersBehind, WithinBudget, WaitsForSome, Batch
  <2>4. IdleWalk'
    BY <2>1, LedgerKept DEF ledger, WalkInv, IdleWalk
  <2> QED
    BY <2>1, <2>2, <2>3, <2>4, LedgerKept DEF WalkInv
<1> QED
  BY <1>1, <1>2, <1>3, <1>4, <1>5, <1>6, <1>7, <1>8, <1>9, <1>10, <1>11
     DEF Next, Main, Rest

LEMMA WalkInvariant == Spec => []WalkInv
BY InitWalk, StepWalk, InductiveInvariant, PTL DEF Spec

(* No layer is dispatched once the budget is exceeded (scheduler.py:206).  *)
THEOREM NothingOverBudget == Spec => NoDispatchOverBudget
<1>1. IInv /\ WalkInv /\ [Next]_vars =>
          [phase # "wait" /\ phase' = "wait" => tokens <= TokenBudget]_vars
  <2> SUFFICES ASSUME WalkInv, Next, phase # "wait", phase' = "wait"
               PROVE  tokens <= TokenBudget
    OBVIOUS
  <2>1. phase = "layer"
    <3>1. ~EndPass
      BY Zenon DEF EndPass
    <3> QED
      BY <3>1 DEF Next, Main, Worker, Rest, vars, control, BeginPass, SkipLayer, DispatchLayer,
             NextLayer, StopOverBudget, WaitTimesOut, Unwind, DropMaterialized, CompleteFuture,
             StartSolve, FinishSolve
  <2> QED
    BY <2>1 DEF WalkInv, WithinBudget
<1> QED
  BY <1>1, WalkInvariant, InductiveInvariant, PTL DEF Spec, NoDispatchOverBudget

(* Unless the budget stops it, run() honours every replan it granted, and  *)
(* returns AMBIGUOUS for no node it did not attempt twice.                 *)
THEOREM ReplansAreHonoured == Spec => []ReplansHonoured
<1>1. IInv /\ WalkInv => ReplansHonoured
  <2> SUFFICES ASSUME IInv, WalkInv, phase = "returned", tokens <= TokenBudget,
                      NEW n \in Nodes, n \in replanned
               PROVE  taken[n] = 2
    BY DEF ReplansHonoured, WalkInv, AmbiguousIsReplanned
  <2>1. taken[n] > 0 /\ layer \in Nat \ {0}
    BY DEF IInv, TakenIsAccounted, TypeOK
  <2>2. n \in dag.atomic /\ Reached(n) /\ \A d \in dag.deps[n] : HasResult(d)
    BY <2>1 DEF WalkInv, TakenIsRunnable
  <2>3. PICK k \in Nat \ {0} : n \in Layer(dag, k) /\ \A j \in 1..k : Layer(dag, j) # {}
    BY <2>2 DEF Reached
  <2>4. Layer(dag, layer) = {} /\ IdleBefore(layer)
    BY DEF WalkInv, IdleWalk
  <2>5. k \in 1..(layer - 1)
    BY <2>1, <2>3, <2>4
  <2>6. n \in consumed
    BY <2>2, <2>3, <2>4, <2>5 DEF IdleBefore
  <2> QED
    BY <2>6 DEF IInv, TakenIsAccounted
<1> QED
  BY <1>1, WalkInvariant, InductiveInvariant, PTL

(* Unless the budget stops it, run() returns a result for every node that  *)
(* can be executed at all and for no other (scheduler.py:99-212).          *)
THEOREM ReturnsComplete == Spec => []CompleteOnReturn
<1>1. IInv /\ WalkInv => CompleteOnReturn
  <2> SUFFICES ASSUME IInv, WalkInv, phase = "returned", tokens <= TokenBudget
               PROVE  {n \in Nodes : HasResult(n)} = Runnable(dag)
    BY DEF CompleteOnReturn
  <2> DEFINE Have == {n \in Nodes : HasResult(n)}
  <2>1. Have \subseteq Runnable(dag)
    BY DEF WalkInv, TakenIsRunnable
  <2>2. layer \in Nat \ {0} /\ dag \in DAGShape
    BY DEF IInv, TypeOK
  <2>3. Layer(dag, layer) = {} /\ IdleBefore(layer)
    BY DEF WalkInv, IdleWalk
  <2>4. \A e \in Have : \E j \in 1..(layer - 1) : e \in Layer(dag, j)
    <3> SUFFICES ASSUME NEW e \in Have PROVE \E j \in 1..(layer - 1) : e \in Layer(dag, j)
      OBVIOUS
    <3>1. PICK k \in Nat \ {0} : e \in Layer(dag, k) /\ \A j \in 1..k : Layer(dag, j) # {}
      BY DEF WalkInv, TakenIsRunnable, Reached
    <3>2. k \in 1..(layer - 1)
      BY <2>2, <2>3, <3>1
    <3> QED
      BY <3>1, <3>2
  <2>5. ASSUME NEW m \in dag.atomic \ dag.skewed, dag.deps[m] \subseteq Have
        PROVE  m \in Have
    <3>1. m \in Nodes \ dag.skewed
      BY <2>2 DEF DAGShape
    <3>2. \A e \in dag.deps[m] : \E j \in 1..(layer - 1) : e \in Layer(dag, j)
      BY <2>4, <2>5
    <3>3. PICK j \in 1..(layer - 1) : m \in Layer(dag, j)
      BY <2>2, <2>3, <3>1, <3>2, EmptyLayerIsTheEnd
    <3>4. m \in consumed
      BY <2>3, <2>5, <3>3 DEF IdleBefore
    <3>5. ~InFlight(m)
      BY <3>1 DEF IInv, PoolIsOneLayer, Batch, InFlight
    <3> QED
      BY <3>1, <3>4, <3>5 DEF WalkInv, ConsumedHasResult
  <2>6. Runnable(dag) \subseteq Have
    <3>1. Have \in SUBSET Nodes
      OBVIOUS
    <3> QED
      BY <2>5, <3>1 DEF Runnable
  <2> QED
    BY <2>1, <2>6
<1> QED
  BY <1>1, WalkInvariant, InductiveInvariant, PTL
-----------------------------------------------------------------------------
(* Scheduler implements TaskRun: every step of run() begins a batch of     *)
(* tasks, concludes one, closes the run, or is invisible to the promise.   *)
Outcome == [n \in Nodes |-> results[n].status]

(* A step that moves no task in or out of execution, records nothing and   *)
(* does not end the run is a stutter of the promise.                       *)
LEMMA Invisible ==
    ASSUME UNCHANGED <<dag, taken, results>>, Finished' <=> Finished,
           \A n \in Nodes : InFlight(n)' <=> InFlight(n)
    PROVE  UNCHANGED Promise!vars
<1>1. /\ {n \in Nodes : InFlight(n)}' = {n \in Nodes : InFlight(n)}
      /\ [n \in Nodes |-> results[n].status]' = [n \in Nodes |-> results[n].status]
      /\ (dag.deps)' = dag.deps /\ taken' = taken /\ (~Finished)' = ~Finished
  OBVIOUS
<1> QED
  BY <1>1 DEF Promise!vars

LEMMA BatchesAreNodes == Ready \in SUBSET Nodes /\ Blocked \in SUBSET Nodes
BY DEF Ready, Blocked, Takeable, Layer

(* Taking the nodes of a layer begins a batch: the ready ones are started, *)
(* the blocked ones blocked.                                               *)
LEMMA TakeBegins ==
    ASSUME IInv, phase = "layer", Take, Takeable # {}, UNCHANGED dag,
           ~Finished', \A n \in Nodes : InFlight(n)' <=> n \in Ready
    PROVE  Promise!Begin(Ready, Blocked)
<1>1. /\ Takeable \subseteq Nodes /\ Takeable = Ready \cup Blocked
      /\ Ready \cap Blocked = {} /\ Blocked \subseteq Takeable
  BY DEF Takeable, Blocked, Ready, Layer
<1>2. {n \in Nodes : InFlight(n)} = {}
  BY DEF IInv, PoolIsOneLayer, Batch, InFlight
<1>3. ASSUME NEW n \in Takeable
      PROVE  /\ taken[n] < 2
             /\ results[n].status \in {"NONE", "AMBIGUOUS", "FAILED"}
             /\ \A d \in dag.deps[n] : d \in Nodes
             /\ \A d \in dag.deps[n] : results[d].status # "NONE"
             /\ \A d \in dag.deps[n] : d \notin Takeable
             /\ n \in Blocked <=> \E d \in dag.deps[n] : Failed(d)
  <2>1. n \in Nodes /\ n \notin consumed /\ n \in Layer(dag, layer)
    BY <1>1 DEF Takeable
  <2>2. taken[n] < 2
    BY <2>1 DEF IInv, TakenIsAccounted
  <2>3. results[n].status \in {"NONE", "AMBIGUOUS", "FAILED"}
    BY <2>1 DEF IInv, UnfinishedIsOpen, Open
  <2>4. \A d \in dag.deps[n] : d \in Nodes
    BY <2>1 DEF IInv, TypeOK, DAGShape
  <2>5. \A d \in dag.deps[n] : results[d].status # "NONE"
    BY <2>1, <2>4 DEF Takeable, HasResult, IInv, TypeOK, Result, Statuses, NoResult
  <2>6. \A d \in dag.deps[n] : d \notin Takeable
    BY <2>1, LayerIsIndependent DEF Takeable
  <2> QED
    BY <2>2, <2>3, <2>4, <2>5, <2>6 DEF Blocked
<1>4. /\ [n \in Nodes |-> results[n].status]' =
           [n \in Nodes |-> IF n \in Blocked THEN "BLOCKED" ELSE results[n].status]
      /\ taken' = [n \in Nodes |-> taken[n] + (IF n \in Takeable THEN 1 ELSE 0)]
  BY DEF Take
<1>5. {n \in Nodes : InFlight(n)}' = Ready
  BY <1>1
<1>6. ~Finished
  BY DEF Finished
<1>7. Promise!Begin(Ready, Blocked) <=>
        /\ ~Finished /\ {n \in Nodes : InFlight(n)} = {}
        /\ Ready \cup Blocked # {} /\ Ready \cap Blocked = {}
        /\ \A n \in Ready \cup Blocked :
             /\ taken[n] < 2
             /\ Outcome[n] \in {"NONE", "AMBIGUOUS", "FAILED"}
             /\ \A d \in dag.deps[n] : Outcome[d] # "NONE" /\ d \notin Ready \cup Blocked
             /\ n \in Blocked <=> \E d \in dag.deps[n] : Outcome[d] \in {"FAILED", "BLOCKED"}
        /\ taken' = [n \in Nodes |-> taken[n] +
                        (IF n \in Ready \cup Blocked THEN 1 ELSE 0)]
        /\ {n \in Nodes : InFlight(n)}' = Ready
        /\ [n \in Nodes |-> results[n].status]' =
             [n \in Nodes |-> IF n \in Blocked THEN "BLOCKED" ELSE Outcome[n]]
        /\ (dag.deps)' = dag.deps /\ (~Finished)' = ~Finished
  BY DEF Promise!Begin, Promise!Bad, Outcome
<1>8. \A n \in Nodes : Outcome[n] = results[n].status
  BY DEF Outcome
<1>9. (~Finished)' = ~Finished /\ (dag.deps)' = dag.deps
  BY <1>6
<1>10. \A n \in Takeable :
             /\ taken[n] < 2
             /\ Outcome[n] \in {"NONE", "AMBIGUOUS", "FAILED"}
             /\ \A d \in dag.deps[n] : Outcome[d] # "NONE" /\ d \notin Takeable
             /\ n \in Blocked <=> \E d \in dag.deps[n] : Outcome[d] \in {"FAILED", "BLOCKED"}
  BY <1>1, <1>3, <1>8 DEF Failed
<1>11. [n \in Nodes |-> IF n \in Blocked THEN "BLOCKED" ELSE Outcome[n]] =
       [n \in Nodes |-> IF n \in Blocked THEN "BLOCKED" ELSE results[n].status]
  BY <1>8
<1> QED
  BY <1>1, <1>2, <1>4, <1>5, <1>6, <1>7, <1>9, <1>10, <1>11

(* Turning a finished future into a result concludes its task.             *)
LEMMA CompletionConcludes ==
    ASSUME IInv, NEW n \in Nodes, CompleteFuture(n)
    PROVE  Promise!Conclude(n)
<1>1. /\ ending[n] \in Endings /\ InFlight(n) /\ ~Finished /\ ~Finished'
      /\ UNCHANGED <<dag, taken>>
  BY DEF CompleteFuture, IInv, TypeOK, InFlight, Finished
<1>2. {m \in Nodes : InFlight(m)}' = {m \in Nodes : InFlight(m)} \ {n}
  BY DEF CompleteFuture, IInv, TypeOK, InFlight
<1>3. /\ results'[n].status = StatusOf(ending[n])
      /\ \A m \in Nodes \ {n} : results'[m] = results[m]
  BY DEF CompleteFuture, IInv, TypeOK
<1>4. StatusOf(ending[n]) \in Statuses \ {"BLOCKED"}
  BY <1>1 DEF StatusOf, Endings, Statuses
<1>5. [m \in Nodes |-> results[m].status]' =
        [[m \in Nodes |-> results[m].status] EXCEPT ![n] = StatusOf(ending[n])]
  BY <1>3
<1>6. Promise!Conclude(n) <=>
        /\ ~Finished /\ n \in {m \in Nodes : InFlight(m)}
        /\ {m \in Nodes : InFlight(m)}' = {m \in Nodes : InFlight(m)} \ {n}
        /\ \E s \in Statuses \ {"BLOCKED"} :
             [m \in Nodes |-> results[m].status]' =
               [[m \in Nodes |-> results[m].status] EXCEPT ![n] = s]
        /\ (dag.deps)' = dag.deps /\ taken' = taken /\ (~Finished)' = ~Finished
  BY DEF Promise!Conclude, Statuses, Promise!Statuses
<1>7. n \in {m \in Nodes : InFlight(m)} /\ (dag.deps)' = dag.deps
  BY <1>1
<1>8. (~Finished)' = ~Finished
  BY <1>1
<1> QED
  BY <1>1, <1>2, <1>4, <1>5, <1>6, <1>7, <1>8

LEMMA InitPromise == Init => Promise!Init
<1> SUFFICES ASSUME Init PROVE Promise!Init
  OBVIOUS
<1>1. dag.deps \in [Nodes -> SUBSET Nodes]
  BY DEF Init, DAGShape
<1>2. {n \in Nodes : InFlight(n)} = {}
  BY DEF Init, InFlight
<1>3. [n \in Nodes |-> results[n].status] = [n \in Nodes |-> "NONE"]
  BY DEF Init, NoResult
<1>4. taken = [n \in Nodes |-> 0] /\ ~Finished
  BY DEF Init, Finished
<1> QED
  BY <1>1, <1>2, <1>3, <1>4 DEF Promise!Init

LEMMA StepPromise ==
    IInv /\ [Next]_vars => [Promise!Next]_(Promise!vars)
<1> SUFFICES ASSUME IInv, [Next]_vars
             PROVE  Promise!Next \/ UNCHANGED Promise!vars
  OBVIOUS
<1> USE DEF control, ledger, pool, db, Finished
<1>1. CASE \/ BeginPass \/ EndPass \/ WaitTimesOut
  <2>1. phase' \in {"layer", "pass", "cleanup", "unwind"}
    BY <1>1, Zenon DEF BeginPass, EndPass, WaitTimesOut
  <2> QED
    BY <1>1, <2>1, Invisible DEF BeginPass, EndPass, WaitTimesOut, InFlight
<1>2. CASE NextLayer \/ StopOverBudget
  <2>1. \A n \in Nodes : ~InFlight(n) /\ ~InFlight(n)'
    BY <1>2 DEF NextLayer, StopOverBudget, LayerDone, InFlight, Batch
  <2> QED
    BY <1>2, <2>1, Invisible DEF NextLayer, StopOverBudget, LayerDone
<1>3. CASE SkipLayer
  <2>1. \A n \in Nodes : ~InFlight(n) /\ ~InFlight(n)'
    BY <1>3 DEF SkipLayer, IInv, PoolIsOneLayer, Batch, InFlight
  <2>2. CASE Takeable = {}
    <3>1. /\ taken' = [n \in Nodes |-> taken[n]] /\ Blocked = {}
      BY <1>3, <2>2 DEF SkipLayer, Take, Blocked, IInv, TypeOK
    <3>2. UNCHANGED <<taken, results>>
      BY <1>3, <3>1 DEF SkipLayer, Take, IInv, TypeOK
    <3> QED
      BY <1>3, <2>1, <3>2, Invisible DEF SkipLayer
  <2>3. CASE Takeable # {}
    <3>1. Promise!Begin(Ready, Blocked)
      BY <1>3, <2>1, <2>3, TakeBegins DEF SkipLayer
    <3>2. \E start, block \in SUBSET Nodes : Promise!Begin(start, block)
      BY <3>1, BatchesAreNodes DEF Promise!Begin, Promise!Bad
    <3> QED
      BY <3>2 DEF Promise!Next
  <2> QED
    BY <2>2, <2>3
<1>4. CASE DispatchLayer
  <2>1. Promise!Begin(Ready, Blocked)
    BY <1>4, TakeBegins DEF DispatchLayer, InFlight, Ready
  <2>2. \E start, block \in SUBSET Nodes : Promise!Begin(start, block)
    BY <2>1, BatchesAreNodes DEF Promise!Begin, Promise!Bad
  <2> QED
    BY <2>2 DEF Promise!Next
<1>5. ASSUME NEW n \in Nodes, CompleteFuture(n) PROVE Promise!Next
  BY <1>5, CompletionConcludes DEF Promise!Next
<1>6. CASE Unwind \/ DropMaterialized
  <2>1. \A n \in Nodes : ~InFlight(n)'
    BY <1>6 DEF Unwind, DropMaterialized, IInv, PoolIsOneLayer, Batch, InFlight
  <2>2. /\ ~Finished /\ Finished' /\ UNCHANGED <<dag, taken, results>>
    BY <1>6 DEF Unwind, DropMaterialized
  <2>3. /\ {n \in Nodes : InFlight(n)}' = {}
        /\ [n \in Nodes |-> results[n].status]' = [n \in Nodes |-> results[n].status]
        /\ (dag.deps)' = dag.deps
    BY <2>1, <2>2
  <2>4. Promise!Close
    BY <2>2, <2>3 DEF Promise!Close
  <2> QED
    BY <2>4 DEF Promise!Next
<1>7. ASSUME NEW n \in Nodes, Worker(n) PROVE UNCHANGED Promise!vars
  <2>1. /\ UNCHANGED <<dag, control, ledger>>
        /\ \A m \in Nodes : InFlight(m)' <=> InFlight(m)
    BY <1>7 DEF Worker, StartSolve, FinishSolve, IInv, TypeOK, InFlight
  <2> QED
    BY <2>1, Invisible
<1>8. CASE UNCHANGED vars
  <2>1. \A n \in Nodes : InFlight(n)' <=> InFlight(n)
    BY <1>8 DEF vars, InFlight
  <2> QED
    BY <1>8, <2>1, Invisible DEF vars
<1> QED
  BY <1>1, <1>2, <1>3, <1>4, <1>5, <1>6, <1>7, <1>8 DEF Next, Main, Rest

(* Scheduler.run executes the task graph as TaskRun promises: batches of   *)
(* tasks on concluded dependencies, failed dependencies block, SOLVED and  *)
(* BLOCKED are final, at most one retry, nothing after the end.            *)
THEOREM Refinement == Spec => ImplementsTaskRun
BY InitPromise, StepPromise, InductiveInvariant, PTL
   DEF Spec, ImplementsTaskRun, Promise!Spec
=============================================================================
