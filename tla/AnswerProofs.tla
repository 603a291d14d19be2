----------------------------- MODULE AnswerProofs -----------------------------
(* Proofs about the pipeline of Answer, for any plans and outcomes.            *)
EXTENDS Answer, TLAPS, FiniteSetTheorems

USE TasksAssumption, PlansAssumption, OutcomesAssumption

(* How far question, evidence and plan belong together at each stage.          *)
InStep ==
    /\ question \in Nat /\ asked \in Nat
    /\ stage \in {"score", "gate", "plan", "review"} => asked = 0
    /\ stage \in {"gate", "plan", "review"} => evidence = question
    /\ stage \in {"review", "run", "merge", "answered"} => planned = question
    /\ stage \in {"run", "merge", "answered"} => evidence = question - asked
    /\ stage = "answered" => solution.question = question /\ solution.asked = asked

LEMMA InitInStep == Init => InStep
BY DEF Init, InStep

LEMMA MergeInStep == InStep /\ Merge => InStep'
<1> SUFFICES ASSUME InStep, Merge PROVE InStep'
  OBVIOUS
<1>1. PICK t : solution' = Present(t)
  BY DEF Merge
<1>2. solution'.question = question /\ solution'.asked = asked
  BY <1>1 DEF Present
<1> QED
  BY <1>2 DEF InStep, Merge

LEMMA NextInStep == InStep /\ [Next]_vars => InStep'
<1> SUFFICES ASSUME InStep, [Next]_vars PROVE InStep'
  OBVIOUS
<1>1. CASE ScoreTables \/ GiveUp \/ PassGate \/ Decompose \/ PassReview
  BY <1>1 DEF InStep, ScoreTables, GiveUp, PassGate, Decompose, PassReview
<1>2. CASE ClarifyTerms
  BY <1>2 DEF InStep, ClarifyTerms
<1>3. CASE ClarifyPlan
  BY <1>3 DEF InStep, ClarifyPlan
<1>4. CASE RunTasks \/ Fail
  BY <1>4 DEF InStep, RunTasks, Fail
<1>5. CASE Merge
  BY <1>5, MergeInStep
<1>6. CASE UNCHANGED vars
  BY <1>6 DEF InStep, vars
<1> QED
  BY <1>1, <1>2, <1>3, <1>4, <1>5, <1>6 DEF Next, Rest

(* The answer and the tasks that were run are those of the question with every *)
(* clarification (pipeline.py:70-239).                                         *)
THEOREM AnswersTheQuestion == Spec => []PlanMatchesQuestion
<1>1. InStep => PlanMatchesQuestion
  BY DEF InStep, PlanMatchesQuestion
<1> QED
  BY <1>1, InitInStep, NextInStep, PTL DEF Spec
-----------------------------------------------------------------------------
(* A strict order has a maximal element in every nonempty finite set; <<x, y>> *)
(* in R says that x is above y.                                                *)
LEMMA MaximalExists ==
    ASSUME NEW S, IsFiniteSet(S), S # {}, NEW R,
           \A x \in S : <<x, x>> \notin R,
           \A x, y, z \in S : <<x, y>> \in R /\ <<y, z>> \in R => <<x, z>> \in R
    PROVE  \E m \in S : \A x \in S : <<x, m>> \notin R
<1> DEFINE Lack == {T \in SUBSET S : T # {} /\ \A m \in T : \E x \in T : <<x, m>> \in R}
<1> SUFFICES ASSUME S \in Lack PROVE FALSE
  OBVIOUS
<1>1. IsWellFoundedOn(StrictSubsetOrdering(S), FiniteSubsetsOf(S))
  BY FS_StrictSubsetOrderingWellFounded
<1>2. Lack \subseteq FiniteSubsetsOf(S)
  BY FS_FiniteSubsetsOfFinite
<1>3. PICK T \in Lack : \A U \in Lack : ~(<<U, T>> \in StrictSubsetOrdering(S))
  <2> HIDE DEF Lack
  <2> QED
    BY <1>1, <1>2, WFMin
<1>4. PICK x \in T : TRUE
  OBVIOUS
<1>5. PICK y \in T : <<y, x>> \in R
  BY <1>4
<1>6. y # x
  BY <1>4, <1>5
<1>7. T \ {x} \notin Lack
  <2>1. T \ {x} \in SUBSET S /\ T \ {x} # T
    BY <1>4
  <2> QED
    BY <1>3, <2>1 DEF StrictSubsetOrdering
<1>8. PICK m \in T \ {x} : \A z \in T \ {x} : <<z, m>> \notin R
  BY <1>5, <1>6, <1>7
<1>9. <<x, m>> \in R
  BY <1>8
<1>10. <<y, m>> \in R
  BY <1>4, <1>5, <1>8, <1>9
<1> QED
  BY <1>5, <1>6, <1>8, <1>10

(* A nonempty finite set of numbers has a least and a greatest element.        *)
LEMMA LeastAndGreatest ==
    ASSUME NEW S \in SUBSET Int, IsFiniteSet(S), S # {}
    PROVE  /\ \E m \in S : \A x \in S : m <= x
           /\ \E m \in S : \A x \in S : x <= m
<1> DEFINE Above == {p \in S \X S : p[1] > p[2]}
           Below == {p \in S \X S : p[1] < p[2]}
<1>1. \A x, y \in S : /\ <<x, y>> \in Above <=> x > y
                      /\ <<x, y>> \in Below <=> x < y
  OBVIOUS
<1> HIDE DEF Above, Below
<1>2. \E m \in S : \A x \in S : <<x, m>> \notin Above
  <2>1. \A x \in S : <<x, x>> \notin Above
    BY <1>1
  <2>2. \A x, y, z \in S : <<x, y>> \in Above /\ <<y, z>> \in Above => <<x, z>> \in Above
    BY <1>1
  <2> QED
    BY <2>1, <2>2, MaximalExists
<1>3. \E m \in S : \A x \in S : <<x, m>> \notin Below
  <2>1. \A x \in S : <<x, x>> \notin Below
    BY <1>1
  <2>2. \A x, y, z \in S : <<x, y>> \in Below /\ <<y, z>> \in Below => <<x, z>> \in Below
    BY <1>1
  <2> QED
    BY <2>1, <2>2, MaximalExists
<1>4. \A x, y \in S : /\ <<x, y>> \notin Above => x <= y
                      /\ <<x, y>> \notin Below => y <= x
  <2> SUFFICES ASSUME NEW x \in S, NEW y \in S
               PROVE  /\ <<x, y>> \notin Above => x <= y
                      /\ <<x, y>> \notin Below => y <= x
    OBVIOUS
  <2>1. x \in Int /\ y \in Int
    OBVIOUS
  <2> QED
    BY <1>1, <2>1
<1> QED
  BY <1>2, <1>3, <1>4

(* The results recorded, and what was presented for them.                      *)
Run ==
    /\ plan \in Plans \cup {NoPlan}
    /\ stage \in {"score", "gate", "plan", "review", "run"} => Recorded = {}
    /\ Recorded \subseteq plan.tasks
    /\ \A t \in Recorded : results[t] \in Outcomes
    /\ stage = "answered" =>
          /\ Recorded # {}
          /\ \E t \in IF Presentable = {} THEN {0} ELSE Presentable : solution = Present(t)

LEMMA InitRun == Init => Run
<1> SUFFICES ASSUME Init PROVE Run
  OBVIOUS
<1>1. Recorded = {}
  BY DEF Init, Recorded
<1> QED
  BY <1>1 DEF Init, Run

(* What is presented depends on the run and the question alone.                *)
LEMMA SameRun ==
    ASSUME UNCHANGED <<question, asked, plan, results>>
    PROVE  /\ Recorded' = Recorded
           /\ Presentable' = Presentable
           /\ \A t : Present(t)' = Present(t)
<1>1. Recorded' = Recorded
  BY DEF Recorded
<1>2. Presentable' = Presentable
  BY DEF Presentable, PrimaryLeaf, FirstBest, Outranks, Class, Leaves, Recorded, WithRows,
         BestSolved
<1>3. \A t : Present(t)' = Present(t)
  BY DEF Present, JoinedTasks, FirstBest, Connected, Leaves, Recorded, WithRows, Adjusted,
         MaxAmbiguity, Penalty, Unresolved, Raised, Odd, Smaller, LeafPenalty, Status
<1> QED
  BY <1>1, <1>2, <1>3

LEMMA NextRun == Run /\ [Next]_vars => Run'
<1> SUFFICES ASSUME Run, [Next]_vars PROVE Run'
  OBVIOUS
<1>1. CASE ScoreTables \/ GiveUp \/ ClarifyTerms \/ PassGate \/ PassReview \/ Fail
  <2>1. UNCHANGED <<plan, results>> /\ stage' # "answered"
    BY <1>1 DEF ScoreTables, GiveUp, ClarifyTerms, PassGate, PassReview, Fail
  <2>2. stage' \in {"score", "gate", "plan", "review", "run"} =>
            stage \in {"score", "gate", "plan", "review", "run"}
    BY <1>1 DEF ScoreTables, GiveUp, ClarifyTerms, PassGate, PassReview, Fail
  <2> QED
    BY <2>1, <2>2 DEF Run, Recorded
<1>2. CASE Decompose \/ ClarifyPlan
  <2>1. /\ UNCHANGED results /\ plan' \in Plans
        /\ stage \in {"plan", "review"} /\ stage' \in {"review", "run"}
    BY <1>2 DEF Decompose, ClarifyPlan
  <2>2. Recorded = {} /\ Recorded' = {}
    BY <2>1 DEF Run, Recorded
  <2> QED
    BY <2>1, <2>2 DEF Run
<1>3. CASE RunTasks
  <2>1. PICK S \in SUBSET plan.tasks : results' \in [S -> Outcomes]
    BY <1>3 DEF RunTasks
  <2>2. Recorded' = S /\ \A t \in Recorded' : results'[t] \in Outcomes
    BY <2>1 DEF Recorded
  <2>3. UNCHANGED plan /\ stage' = "merge"
    BY <1>3 DEF RunTasks
  <2> QED
    BY <2>2, <2>3 DEF Run
<1>4. CASE Merge
  <2>1. /\ UNCHANGED <<question, asked, plan, results>> /\ stage' = "answered"
        /\ Recorded # {}
        /\ \E t \in IF Presentable = {} THEN {0} ELSE Presentable : solution' = Present(t)
    BY <1>4 DEF Merge
  <2> QED
    BY <2>1, SameRun DEF Run
<1>5. CASE UNCHANGED vars
  <2>1. UNCHANGED <<question, asked, plan, results, stage, solution>>
    BY <1>5 DEF vars
  <2> QED
    BY <2>1, SameRun DEF Run
<1> QED
  BY <1>1, <1>2, <1>3, <1>4, <1>5 DEF Next, Rest

LEMMA RunInvariant == Spec => []Run
BY InitRun, NextRun, PTL DEF Spec

LEMMA ResultType ==
    ASSUME Run
    PROVE  /\ IsFiniteSet(Recorded) /\ Recorded \subseteq Tasks /\ Recorded \subseteq Nat \ {0}
           /\ Leaves \subseteq Recorded
           /\ \A t \in Recorded :
                /\ results[t].ending \in Endings \cup {"blocked"}
                /\ results[t].merit \in Nat /\ results[t].trust \in 0..100
                /\ results[t].ambiguity \in 0..100 /\ results[t].odd \in BOOLEAN
                /\ results[t].ending = "tied" => results[t].ambiguity = 100
<1>1. plan.tasks \subseteq Tasks
  BY DEF Run, Plan, NoPlan
<1>2. IsFiniteSet(Recorded)
  BY <1>1, FS_Subset DEF Run
<1>3. \A t \in Recorded : results[t] \in Outcomes /\ results[t] \in Outcome
  BY DEF Run
<1>4. Leaves \subseteq Recorded
  BY DEF Leaves
<1> QED
  BY <1>1, <1>2, <1>3, <1>4 DEF Run, Outcome

(* _pick_primary returns a leaf with rows that no other one outranks, if there *)
(* is a leaf with rows at all.                                                 *)
LEMMA PrimaryIsUnmatched ==
    ASSUME Run, {t \in Leaves : WithRows(t)} # {}
    PROVE  \E t \in Leaves : /\ WithRows(t) /\ PrimaryLeaf = {t}
                             /\ \A u \in Leaves : WithRows(u) => ~Outranks(u, t)
<1> DEFINE usable == {t \in Leaves : WithRows(t)}
           R == {p \in usable \X usable : Outranks(p[1], p[2])}
           best == {t \in usable : \A u \in usable : ~Outranks(u, t)}
           first == CHOOSE t \in best : \A u \in best : t <= u
<1>1. \A t, u \in usable : <<t, u>> \in R <=> Outranks(t, u)
  OBVIOUS
<1>2. \A t \in usable : /\ Class(t) \in {-1, 0, 1}
                        /\ results[t].merit \in Int /\ results[t].trust \in Int
  BY ResultType DEF Class
<1>3. \A t \in usable : ~Outranks(t, t)
  BY <1>2 DEF Outranks
<1>4. \A t, u, v \in usable : Outranks(t, u) /\ Outranks(u, v) => Outranks(t, v)
  <2> HIDE DEF usable
  <2> QED
    BY <1>2 DEF Outranks
<1>5. IsFiniteSet(usable) /\ usable # {} /\ usable \subseteq Int
  BY ResultType, FS_Subset
<1>6. best # {}
  <2> HIDE DEF R, usable
  <2>1. \A t \in usable : <<t, t>> \notin R
    BY <1>1, <1>3
  <2>2. \A t, u, v \in usable : <<t, u>> \in R /\ <<u, v>> \in R => <<t, v>> \in R
    BY <1>1, <1>4
  <2>3. \E m \in usable : \A x \in usable : <<x, m>> \notin R
    BY <1>5, <2>1, <2>2, MaximalExists
  <2> QED
    BY <1>1, <2>3
<1>7. IsFiniteSet(best) /\ best \subseteq Int
  <2> HIDE DEF usable
  <2> QED
    BY <1>5, FS_Subset
<1>8. \E m \in best : \A u \in best : m <= u
  <2> HIDE DEF best
  <2> QED
    BY <1>6, <1>7, LeastAndGreatest
<1>9. first \in best
  <2> HIDE DEF best
  <2> QED
    BY <1>8
<1>10. PrimaryLeaf = {first}
  BY <1>5 DEF PrimaryLeaf, FirstBest
<1> QED
  BY <1>9, <1>10

(* Without join keys one task is presented, a leaf with rows if there is one,  *)
(* a SOLVED one if there is one, and of those the best (aggregator.py:164-227).*)
THEOREM PrimaryIsTrusted == Spec => []PrimaryTrusted
<1>1. Run => PrimaryTrusted
  <2> SUFFICES ASSUME Run, stage = "answered", plan.joins = {} PROVE PrimaryTrusted
    BY DEF PrimaryTrusted
  <2> DEFINE usable == {t \in Leaves : WithRows(t)}
  <2>1. PICK t \in IF Presentable = {} THEN {0} ELSE Presentable : solution = Present(t)
    BY DEF Run
  <2>2. solution.shown = {t} \ {0}
    <3>1. JoinedTasks = {}
      BY DEF JoinedTasks
    <3> QED
      BY <2>1, <3>1 DEF Present
  <2>3. BestSolved \subseteq Recorded /\ \A u \in BestSolved : results[u].ending = "solved"
    BY DEF BestSolved
  <2>4. Cardinality(solution.shown) <= 1
    <3>1. {t} \ {0} = {} \/ {t} \ {0} = {t}
      OBVIOUS
    <3>2. Cardinality({}) = 0 /\ Cardinality({t}) = 1
      BY FS_EmptySet, FS_Singleton
    <3> QED
      BY <2>2, <3>1, <3>2
  <2>5. CASE usable = {}
    <3>1. PrimaryLeaf = {}
      BY <2>5 DEF PrimaryLeaf
    <3>2. t # 0 => t \in BestSolved
      BY <2>1, <3>1 DEF Presentable
    <3>3. \A s \in solution.shown : results[s].ending = "solved" /\ s \in Recorded
      BY <2>2, <2>3, <3>2
    <3>4. \A s \in solution.shown : Status(s) = "SOLVED" /\ s \notin Leaves
      BY <2>5, <3>3 DEF Status, StatusOf, WithRows, HasRows
    <3> QED
      BY <2>4, <2>5, <3>4 DEF PrimaryTrusted
  <2>6. CASE usable # {}
    <3>1. PICK s \in Leaves : /\ WithRows(s) /\ PrimaryLeaf = {s}
                              /\ \A u \in Leaves : WithRows(u) => ~Outranks(u, s)
      BY <2>6, PrimaryIsUnmatched
    <3>2. t = s /\ s # 0
      BY <2>1, <3>1, ResultType DEF Presentable
    <3>3. solution.shown = {s}
      BY <2>2, <3>2
    <3>4. \A u \in Leaves : results[u].ending = "solved" => WithRows(u) /\ Class(u) = 1
      BY DEF WithRows, HasRows, Class
    <3>5. \/ results[s].ending = "tied" /\ Class(s) = 0 /\ Status(s) = "AMBIGUOUS"
          \/ results[s].ending = "solved" /\ Class(s) = 1 /\ Status(s) = "SOLVED"
      BY <3>1 DEF WithRows, HasRows, Class, Status, StatusOf
    <3>6. Status(s) = "AMBIGUOUS" => \A u \in Leaves : results[u].ending # "solved"
      BY <3>1, <3>4, <3>5 DEF Outranks
    <3>7. Status(s) = "SOLVED" => \A u \in Leaves :
              results[u].ending = "solved" => results[u].merit <= results[s].merit
      <4>1. \A u \in Leaves : results[u].merit \in Int
        BY ResultType
      <4> QED
        BY <3>1, <3>4, <3>5, <4>1 DEF Outranks
    <3> QED
      BY <2>4, <3>1, <3>3, <3>6, <3>7 DEF PrimaryTrusted
  <2> QED
    BY <2>5, <2>6
<1> QED
  BY <1>1, RunInvariant, PTL

(* The ambiguity an answer is charged with is the largest of any result.       *)
LEMMA MaxAmbiguityIsOne ==
    ASSUME Run, Recorded # {}
    PROVE  /\ MaxAmbiguity \in 0..100
           /\ \A t \in Recorded : results[t].ambiguity <= MaxAmbiguity
<1> DEFINE S == {results[t].ambiguity : t \in Recorded}
<1>1. S # {} /\ S \subseteq 0..100
  BY ResultType
<1>2. IsFiniteSet(S) /\ S \subseteq Int
  <2>1. 0 \in Int /\ 100 \in Int
    OBVIOUS
  <2>2. IsFiniteSet(0..100)
    BY <2>1, FS_Interval
  <2>3. 0..100 \subseteq Int
    OBVIOUS
  <2> HIDE DEF S
  <2> QED
    BY <1>1, <2>2, <2>3, FS_Subset
<1>3. \E a \in S : \A b \in S : b <= a
  <2> HIDE DEF S
  <2> QED
    BY <1>1, <1>2, LeastAndGreatest
<1>4. \E a \in S : \A t \in Recorded : results[t].ambiguity <= a
  BY <1>3
<1>5. MaxAmbiguity \in S /\ \A t \in Recorded : results[t].ambiguity <= MaxAmbiguity
  <2> HIDE DEF S
  <2> QED
    BY <1>4 DEF MaxAmbiguity, S
<1> QED
  BY <1>1, <1>5

(* A run without a penalty has no task that failed, was blocked or raised.     *)
LEMMA PenaltyOfTrouble ==
    ASSUME Run
    PROVE  /\ Penalty \in 0..40
           /\ Penalty = 0 => Unresolved = {} /\ Raised = {}
<1>1. IsFiniteSet(Unresolved) /\ IsFiniteSet(Raised) /\ IsFiniteSet(Odd)
  BY ResultType, FS_Subset DEF Unresolved, Raised, Odd
<1>2. /\ Cardinality(Unresolved) \in Nat /\ Cardinality(Raised) \in Nat
      /\ Cardinality(Odd) \in Nat
  BY <1>1, FS_CardinalityType
<1>3. /\ Cardinality(Unresolved) = 0 => Unresolved = {}
      /\ Cardinality(Raised) = 0 => Raised = {}
  BY <1>1, FS_EmptySet
<1>4. ASSUME NEW u \in Nat, NEW r \in Nat, NEW o \in Nat
      PROVE  /\ Smaller(40, 45 * u + 15 * r + 5 * o) \in 0..40
             /\ Smaller(40, 45 * u + 15 * r + 5 * o) = 0 => u = 0 /\ r = 0
  BY DEF Smaller
<1> QED
  BY <1>2, <1>3, <1>4 DEF Penalty

(* Full confidence is given to answers of runs in which every task was solved  *)
(* (aggregator.py:131-158, 230-330).                                           *)
THEOREM FullConfidenceMeansSolved == Spec => []FullConfidenceIsEarned
<1>1. Run => FullConfidenceIsEarned
  <2> SUFFICES ASSUME Run, stage = "answered", solution.best > 0,
                      solution.confidence = Full(solution.best), NEW s \in Recorded
               PROVE  results[s].ending = "solved"
    BY DEF FullConfidenceIsEarned
  <2>1. PICK t \in IF Presentable = {} THEN {0} ELSE Presentable : solution = Present(t)
    BY DEF Run
  <2>2. t # 0
    BY <2>1 DEF Present
  <2>3. t \in Recorded
    <3>1. BestSolved \subseteq Recorded
      BY DEF BestSolved
    <3>2. PrimaryLeaf \subseteq Recorded
      <4>1. CASE {u \in Leaves : WithRows(u)} = {}
        BY <4>1 DEF PrimaryLeaf
      <4>2. CASE {u \in Leaves : WithRows(u)} # {}
        BY <4>2, PrimaryIsUnmatched, ResultType
      <4> QED
        BY <4>1, <4>2
    <3> QED
      BY <2>1, <2>2, <3>1, <3>2 DEF Presentable
  <2> DEFINE b == results[t].trust
  <2>4. b \in Nat \ {0} /\ Adjusted(b) = Full(b)
    <3>1. solution.best = b /\ solution.confidence = Adjusted(b)
      BY <2>1, <2>2 DEF Present
    <3>2. b \in Nat
      BY <2>3, ResultType
    <3> QED
      BY <3>1, <3>2
  <2> HIDE DEF b
  <2>5. LeafPenalty \in {0, 10}
    BY DEF LeafPenalty
  <2>6. /\ 200 - MaxAmbiguity \in 0..200
        /\ 100 - Penalty - LeafPenalty \in 0..100
    <3>1. MaxAmbiguity \in 0..100 /\ Penalty \in 0..40
      BY <2>3, MaxAmbiguityIsOne, PenaltyOfTrouble
    <3> QED
      BY <2>5, <3>1
  <2>7. 200 - MaxAmbiguity = 200 /\ 100 - Penalty - LeafPenalty = 100
    <3> DEFINE x == 200 - MaxAmbiguity
               y == 100 - Penalty - LeafPenalty
    <3>1. b * x * y = b * 200 * 100
      BY <2>4 DEF Adjusted, Full
    <3>2. x \in 0..200 /\ y \in 0..100
      BY <2>6
    <3> HIDE DEF x, y
    <3>3. x * y \in Int /\ x * y <= 200 * 100
      BY <3>2
    <3>4. b * (x * y) = b * (200 * 100)
      BY <2>4, <3>1, <3>2
    <3>5. x * y = 200 * 100
      BY <2>4, <3>3, <3>4
    <3>6. x = 200 /\ y = 100
      BY <3>2, <3>5
    <3> QED
      BY <3>6 DEF x, y
  <2>8. MaxAmbiguity = 0 /\ Penalty = 0
    <3>1. MaxAmbiguity \in 0..100 /\ Penalty \in 0..40
      BY <2>3, MaxAmbiguityIsOne, PenaltyOfTrouble
    <3> QED
      BY <2>5, <2>7, <3>1
  <2>9. results[s].ambiguity = 0
    <3>1. results[s].ambiguity \in 0..100 /\ results[s].ambiguity <= MaxAmbiguity
      BY MaxAmbiguityIsOne, ResultType
    <3> QED
      BY <2>8, <3>1
  <2>10. results[s].ending # "tied"
    BY <2>9, ResultType
  <2>11. Status(s) \notin {"FAILED", "BLOCKED"} /\ results[s].ending # "raised"
    BY <2>8, PenaltyOfTrouble DEF Unresolved, Raised
  <2> QED
    BY <2>10, <2>11, ResultType DEF Status, StatusOf, Endings
<1> QED
  BY <1>1, RunInvariant, PTL
=============================================================================
