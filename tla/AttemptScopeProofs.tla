-------------------------- MODULE AttemptScopeProofs --------------------------
(* Proofs about the scope of attempts, for any tables, tasks and statements.    *)
EXTENDS AttemptScope, FiniteSetTheorems, TLAPS

LEMMA InitTypeOK == Init => TypeOK
BY SettingsAssumption DEF Init, TypeOK

(* What a replan leaves of a task is a task with the same evidence, fewer       *)
(* demands and hints that grew out of the old ones.                             *)
LEMMA ReplanKeepsTask ==
    ASSUME TypeOK, Replan
    PROVE  \E refuted \in SUBSET task.demands, hints \in SUBSET Names :
              /\ task' = [task EXCEPT !.hints = hints, !.demands = @ \ refuted]
              /\ \/ hints = task.hints
                 \/ \E fresh \in SUBSET Tables : hints \in Merged(task.hints, fresh)
<1>1. PICK refuted \in SUBSET task.demands, fresh \in Proposals :
         \E hints \in IF fresh = {} THEN {task.hints} ELSE Merged(task.hints, fresh) :
            task' = [task EXCEPT !.hints = hints, !.demands = @ \ refuted]
  BY DEF Replan
<1>2. PICK hints \in IF fresh = {} THEN {task.hints} ELSE Merged(task.hints, fresh) :
         task' = [task EXCEPT !.hints = hints, !.demands = @ \ refuted]
  BY <1>1
<1>3. fresh \subseteq Tables
  BY DEF Proposals
<1>4. task.hints \subseteq Names
  BY DEF TypeOK, Setting
<1>5. hints \subseteq Names
  BY <1>3, <1>4 DEF Merged, Names
<1> QED
  BY <1>2, <1>3, <1>5

LEMMA NextTypeOK == TypeOK /\ [Next]_vars => TypeOK'
<1> SUFFICES ASSUME TypeOK, [Next]_vars PROVE TypeOK'
  OBVIOUS
<1>1. CASE Attempt
  BY <1>1 DEF Attempt, TypeOK
<1>2. CASE Replan
  <2>1. task' \in Setting
    <3>1. PICK refuted \in SUBSET task.demands, hints \in SUBSET Names :
             task' = [task EXCEPT !.hints = hints, !.demands = @ \ refuted]
      BY <1>2, ReplanKeepsTask
    <3>2. task.demands \ refuted \subseteq Names
      BY DEF TypeOK, Setting
    <3> QED
      BY <3>1, <3>2 DEF TypeOK, Setting
  <2> QED
    BY <1>2, <2>1 DEF Replan, TypeOK
<1>3. CASE Conclude \/ Rest \/ UNCHANGED vars
  BY <1>3 DEF Conclude, Rest, vars, TypeOK
<1> QED
  BY <1>1, <1>2, <1>3 DEF Next

(* Hints within the limit all survive the cut: the hints kept either include    *)
(* them all, or are as many of them as the limit allows.                        *)
LEMMA MergedKeepsHints ==
    ASSUME NEW hints \in SUBSET Names, NEW fresh, NEW m \in Merged(hints, fresh),
           Cardinality(hints) <= HintLimit
    PROVE  hints \subseteq m
<1>1. CASE m = hints \cup fresh
  BY <1>1
<1>2. CASE m # hints \cup fresh /\ m \subseteq hints
  <2>1. IsFiniteSet(hints)
    BY NamesAssumption, FS_Subset
  <2>2. Cardinality(m) = HintLimit
    BY <1>2 DEF Merged
  <2>3. Cardinality(m) \in Nat /\ Cardinality(hints) \in Nat
    BY <1>2, <2>1, FS_Subset, FS_CardinalityType
  <2>4. /\ Cardinality(m) <= Cardinality(hints)
        /\ Cardinality(hints) = Cardinality(m) => hints = m
    BY <1>2, <2>1, FS_Subset
  <2> QED
    BY <2>2, <2>3, <2>4, LimitsAssumption
<1> QED
  BY <1>1, <1>2 DEF Merged

(* More hints and fewer demands accept every statement accepted before, unless  *)
(* it reads a relation that is no longer demanded.                              *)
LEMMA ScopeGrows ==
    ASSUME NEW t \in Setting, NEW u \in Setting,
           t.hints \subseteq u.hints, u.demands \subseteq t.demands,
           u.sources = t.sources, u.sharing = t.sharing,
           u.materialized = t.materialized,
           NEW c \in Tables, NEW s \in Statements, Accepted(t, c, s),
           (s.from \cup s.join) \cap (t.demands \ u.demands) = {}
    PROVE  Accepted(u, c, s)
<1>1. \A d \in (s.from \cup s.join) \cap Allowed(t, c) : d \in Allowed(u, c)
  BY DEF Allowed, JoinAvailable
<1>2. NoDrift(u, c, s)
  BY <1>1 DEF Accepted, Admissible, NoDrift, FromNames, JoinNames
<1>3. JoinsInScope(u, c, s)
  BY <1>1 DEF Accepted, Admissible, JoinsInScope, JoinNames
<1>4. OnlyWrittenContexts(u, s) /\ AnchoredOn(u, c, s)
  BY DEF Accepted, Admissible, OnlyWrittenContexts, AnchoredOn
<1>5. MeetsDemands(u, s)
  BY DEF Accepted, MeetsDemands
<1> QED
  BY <1>2, <1>3, <1>4, <1>5 DEF Accepted, Admissible

(* A replan never takes a hint or an accepted statement away, unless the probe  *)
(* refuted a relation it reads (planner.py:628-664, rlm_engine.py:534-585).     *)
THEOREM ReplansOnlyWiden == Spec => ReplanOnlyWidens
<1>1. TypeOK /\ [Next]_vars => [Cardinality(task.hints) <= HintLimit => Widens(task, task')]_vars
  <2> SUFFICES ASSUME TypeOK, Next, Cardinality(task.hints) <= HintLimit
               PROVE  Widens(task, task')
    OBVIOUS
  <2>1. CASE task' = task
    BY <2>1 DEF Widens
  <2>2. CASE Replan
    <3>1. PICK refuted \in SUBSET task.demands, hints \in SUBSET Names :
             /\ task' = [task EXCEPT !.hints = hints, !.demands = @ \ refuted]
             /\ \/ hints = task.hints
                \/ \E fresh \in SUBSET Tables : hints \in Merged(task.hints, fresh)
      BY <2>2, ReplanKeepsTask
    <3>2. task.hints \subseteq hints
      BY <3>1, MergedKeepsHints DEF TypeOK, Setting
    <3>3. task \in Setting /\ task' \in Setting
      BY <2>2, NextTypeOK DEF TypeOK, Next
    <3>4. /\ task'.hints = hints /\ task'.demands = task.demands \ refuted
          /\ task'.sources = task.sources /\ task'.sharing = task.sharing
          /\ task'.materialized = task.materialized
      BY <3>1 DEF TypeOK, Setting
    <3>5. ASSUME NEW c \in Tables, NEW s \in Statements, Accepted(task, c, s),
                 (s.from \cup s.join) \cap (task.demands \ task'.demands) = {}
          PROVE  Accepted(task', c, s)
      BY <3>2, <3>3, <3>4, <3>5, ScopeGrows
    <3> QED
      BY <3>2, <3>4, <3>5 DEF Widens
  <2> QED
    BY <2>1, <2>2 DEF Next, Attempt, Conclude, Rest, vars
<1> QED
  BY <1>1, InitTypeOK, NextTypeOK, PTL DEF Spec, ReplanOnlyWidens
=============================================================================
