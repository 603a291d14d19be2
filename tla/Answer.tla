-------------------------------- MODULE Answer --------------------------------
(* run_pipeline (search/pipeline.py) from a question to its answer: scoring    *)
(* the tables, two gates at which the user may be asked, planning, the run of  *)
(* the tasks (Scheduler), and Aggregator.merge, which chooses the rows to      *)
(* present and how much to trust them.                                         *)
(*                                                                             *)
(* A question is the number of clarifications appended to it. Tasks are        *)
(* numbered in the order of dag.nodes. Shares are percentages.                 *)
EXTENDS NodeContract

CONSTANTS
    Tasks,        \* task numbers
    Plans,        \* the plans decompose may return
    Outcomes,     \* the results a task may have
    Modes         \* whether the user may be asked

(* joins: the pairs of tasks a join key relates. weak: _planner_ambiguity.     *)
Plan == [tasks: SUBSET Tasks, deps: [Tasks -> SUBSET Tasks],
         joins: SUBSET SUBSET Tasks, weak: BOOLEAN]

(* merit: the order of the selected candidates' evidence. trust: the larger of *)
(* the result's and the candidate's confidence. ambiguity: ambiguity_score.    *)
(* odd: its rows are not as many as the question's top N says.                 *)
Outcome == [ending: Endings \cup {"blocked"}, merit: Nat, trust: 0..100,
            ambiguity: 0..100, odd: BOOLEAN]

ASSUME TasksAssumption == Tasks \subseteq Nat \ {0} /\ IsFiniteSet(Tasks)
ASSUME PlansAssumption == Plans \subseteq Plan
(* A tied result is as ambiguous as can be (rlm_engine.py:370).                *)
ASSUME OutcomesAssumption ==
    /\ Outcomes \subseteq Outcome
    /\ \A o \in Outcomes : o.ending = "tied" => o.ambiguity = 100
ASSUME ModesAssumption == Modes \subseteq BOOLEAN

NoPlan == [tasks |-> {}, deps |-> [t \in Tasks |-> {}], joins |-> {}, weak |-> FALSE]
NoAnswer == [question |-> 0, shown |-> {}, best |-> 0, confidence |-> 0, asked |-> 0]

VARIABLES
    interactive, \* config.interactive, and a user_callback was given
    stage,       \* where the pipeline is, and how it ended
    question,    \* the question as amended so far
    evidence,    \* the question the evidence was scored for
    vague,       \* _terminal_ambiguity of the evidence
    plan,        \* the plan
    planned,     \* the question the plan was made from
    asked,       \* number of qa_pairs
    results,     \* task -> its outcome, for the tasks that have one
    solution     \* the FinalSolution
vars == <<interactive, stage, question, evidence, vague, plan, planned, asked,
          results, solution>>
-----------------------------------------------------------------------------
(* Aggregator: the leaves and the primary result. *)
Recorded == DOMAIN results
Status(t) == IF results[t].ending = "blocked" THEN "BLOCKED" ELSE StatusOf(results[t].ending)
WithRows(t) == HasRows(results[t].ending)

(* _find_leaves, those that have a result.                                     *)
Leaves == {t \in plan.tasks : \A u \in plan.tasks : t \notin plan.deps[u]} \cap Recorded

(* The first of the best by an order: sorted(reverse=True) is stable.          *)
FirstBest(S, Better(_, _)) ==
    LET best == {t \in S : \A u \in S : ~Better(u, t)}
    IN  CHOOSE t \in best : \A u \in best : t <= u

(* The key of _pick_primary: candidates before ties before everything else.    *)
Class(t) == CASE results[t].ending = "solved" -> 1
              [] results[t].ending = "tied"   -> 0
              [] OTHER                        -> -1
Outranks(t, u) ==
    \/ Class(t) > Class(u)
    \/ Class(t) = 1 /\ Class(u) = 1 /\ results[t].merit > results[u].merit
    \/ Class(t) = 0 /\ Class(u) = 0 /\ results[t].trust > results[u].trust

(* Mutant: the result with the highest confidence.                             *)
MostConfident ==
    LET usable == {t \in Leaves : WithRows(t)}
    IN  IF usable = {} THEN {}
        ELSE {FirstBest(usable, LAMBDA t, u : results[t].trust > results[u].trust)}

(* _pick_primary: the highest-ranked leaf that has rows.                       *)
PrimaryLeaf ==
    LET usable == {t \in Leaves : WithRows(t)}
    IN  IF usable = {} THEN {} ELSE {FirstBest(usable, Outranks)}

(* _pick_solved_any, over the results in the order they were recorded.         *)
BestSolved ==
    LET solved == {t \in Recorded : results[t].ending = "solved"}
    IN  {t \in solved : \A u \in solved : results[u].merit <= results[t].merit}

(* The tasks that may be presented: at most one of them is.                    *)
Presentable == IF PrimaryLeaf # {} THEN PrimaryLeaf ELSE BestSolved

(* _try_join_merge: the rows of all tasks that join keys connect with the      *)
(* first leaf that has rows.                                                   *)
Connected(t) ==
    {u \in Tasks : \A S \in SUBSET Tasks :
        (t \in S /\ \A j \in plan.joins : j \cap S # {} => j \subseteq S) => u \in S}

JoinedTasks ==
    LET usable == {t \in Leaves : WithRows(t)}
        anchor == FirstBest(usable, LAMBDA t, u : FALSE)
    IN  IF plan.joins = {} \/ usable = {} \/ Connected(anchor) = {anchor} THEN {}
        ELSE {t \in Connected(anchor) \cap Recorded : WithRows(t)}
-----------------------------------------------------------------------------
(* Aggregator: the confidence. *)
Smaller(m, n) == IF m < n THEN m ELSE n
Unresolved == {t \in Recorded : Status(t) \in {"FAILED", "BLOCKED"}}
Raised == {t \in Recorded : results[t].ending = "raised"}
Odd == {t \in Recorded : WithRows(t) /\ results[t].odd}

(* Mutant: a task's status alone decides.                                      *)
PenaltyByStatus ==
    Smaller(40, 45 * Cardinality(Unresolved) + 5 * Cardinality(Odd))

(* _check_result_heuristics: a FAILED or BLOCKED task is counted for its       *)
(* status, its empty rows and its error; one that raised for its error only.   *)
Penalty ==
    Smaller(40, 45 * Cardinality(Unresolved) + 15 * Cardinality(Raised)
                    + 5 * Cardinality(Odd))

LeafPenalty == IF \E t \in Leaves : Status(t) = "AMBIGUOUS" THEN 10 ELSE 0

MaxAmbiguity ==
    CHOOSE a \in {results[t].ambiguity : t \in Recorded} :
        \A t \in Recorded : results[t].ambiguity <= a

(* In units of 1 / 2 000 000, before rounding.                                 *)
Full(best) == best * 200 * 100
Adjusted(best) == best * (200 - MaxAmbiguity) * (100 - Penalty - LeafPenalty)

Present(t) ==
    [question |-> question,
     shown |-> IF JoinedTasks # {} THEN JoinedTasks ELSE {t} \ {0},
     best |-> IF t = 0 THEN 0 ELSE results[t].trust,
     confidence |-> Adjusted(IF t = 0 THEN 0 ELSE results[t].trust),
     asked |-> asked]
-----------------------------------------------------------------------------
(* The pipeline. *)
Init ==
    /\ interactive \in Modes
    /\ stage = "score"
    /\ question = 0 /\ evidence = 0 /\ vague = FALSE
    /\ plan = NoPlan /\ planned = 0
    /\ asked = 0
    /\ results = <<>>
    /\ solution = NoAnswer

ScoreTables ==
    /\ stage = "score"
    /\ vague' \in BOOLEAN
    /\ evidence' = question
    /\ stage' = "gate"
    /\ UNCHANGED <<interactive, question, plan, planned, asked, results, solution>>

(* Nobody can be asked: an answer without rows, at a fixed confidence.         *)
GiveUp ==
    /\ stage = "gate" /\ vague /\ ~interactive
    /\ stage' = "declined"
    /\ solution' = [NoAnswer EXCEPT !.confidence = Full(30)]
    /\ UNCHANGED <<interactive, question, evidence, vague, plan, planned, asked, results>>

(* The user is asked, and the amended question scored, but not gated, again.   *)
ClarifyTerms ==
    /\ stage = "gate" /\ vague /\ interactive
    /\ question' = question + 1
    /\ evidence' = question'
    /\ stage' = "plan"
    /\ UNCHANGED <<interactive, vague, plan, planned, asked, results, solution>>

(* The tables are clear, or the model says that the question is.               *)
PassGate ==
    /\ stage = "gate"
    /\ ~vague \/ interactive
    /\ stage' = "plan"
    /\ UNCHANGED <<interactive, question, evidence, vague, plan, planned, asked, results,
                   solution>>

Decompose ==
    /\ stage = "plan"
    /\ plan' \in Plans
    /\ planned' = question
    /\ stage' = "review"
    /\ UNCHANGED <<interactive, question, evidence, vague, asked, results, solution>>

(* Mutant: the plan made before is kept.                                       *)
ClarifyPlanOnly ==
    /\ stage = "review" /\ plan.weak /\ interactive
    /\ question' = question + 1 /\ asked' = asked + 1
    /\ stage' = "run"
    /\ UNCHANGED <<interactive, evidence, vague, plan, planned, results, solution>>

(* The user is asked about a weak plan, and it is made again.                  *)
ClarifyPlan ==
    /\ stage = "review" /\ plan.weak /\ interactive
    /\ question' = question + 1
    /\ asked' = asked + 1
    /\ plan' \in Plans
    /\ planned' = question'
    /\ stage' = "run"
    /\ UNCHANGED <<interactive, evidence, vague, results, solution>>

PassReview ==
    /\ stage = "review"
    /\ stage' = "run"
    /\ UNCHANGED <<interactive, question, evidence, vague, plan, planned, asked, results,
                   solution>>

(* The scheduler returns: a task has a result only if all its dependencies     *)
(* do, and is only blocked by one. A budget or a non-atomic task leaves the    *)
(* others without.                                                             *)
RunTasks ==
    /\ stage = "run"
    /\ \E S \in SUBSET plan.tasks :
         /\ \A t \in S : plan.deps[t] \subseteq S
         /\ results' \in [S -> Outcomes]
         /\ \A t \in S : results'[t].ending = "blocked" => plan.deps[t] # {}
    /\ stage' = "merge"
    /\ UNCHANGED <<interactive, question, evidence, vague, plan, planned, asked, solution>>

Merge ==
    /\ stage = "merge"
    /\ Recorded # {}
    /\ \E t \in IF Presentable = {} THEN {0} ELSE Presentable : solution' = Present(t)
    /\ stage' = "answered"
    /\ UNCHANGED <<interactive, question, evidence, vague, plan, planned, asked, results>>

(* Planning, the run and every call of the model may raise, and merge takes    *)
(* the maximum over no result.                                                 *)
Fail ==
    /\ stage \notin {"declined", "answered", "raised"}
    /\ stage' = "raised"
    /\ UNCHANGED <<interactive, question, evidence, vague, plan, planned, asked, results,
                   solution>>

Ended == stage \in {"declined", "answered", "raised"}
Rest == Ended /\ UNCHANGED vars

Next ==
    \/ ScoreTables \/ GiveUp \/ ClarifyTerms \/ PassGate
    \/ Decompose \/ ClarifyPlan \/ PassReview
    \/ RunTasks \/ Merge \/ Fail \/ Rest

Spec == Init /\ [][Next]_vars
-----------------------------------------------------------------------------
(* Without join keys, one task's rows are presented. Provisional rows of a tie *)
(* only if no leaf is SOLVED with rows, and the rows of an inner task only if  *)
(* no leaf has any; a SOLVED result with less evidence than another leaf's is  *)
(* not preferred for its confidence.                                           *)
PrimaryTrusted ==
    stage = "answered" /\ plan.joins = {} =>
        /\ Cardinality(solution.shown) <= 1
        /\ solution.shown = {} => \A t \in Leaves : ~WithRows(t)
        /\ \A t \in solution.shown :
             /\ Status(t) = "AMBIGUOUS" => \A u \in Leaves : results[u].ending # "solved"
             /\ t \notin Leaves => \A u \in Leaves : ~WithRows(u)
             /\ Status(t) = "SOLVED" /\ t \in Leaves =>
                    \A u \in Leaves :
                        results[u].ending = "solved" => results[u].merit <= results[t].merit

(* An answer as confident as its evidence is one to which nothing recorded is  *)
(* opposed: no task of the plan failed, was blocked, raised or ended in a tie, *)
(* although a task that raised is recorded SOLVED and inner ties are no leaf.  *)
FullConfidenceIsEarned ==
    stage = "answered" /\ solution.best > 0 /\ solution.confidence = Full(solution.best) =>
        \A t \in Recorded : results[t].ending = "solved"

(* The tasks that were run, and the answer, are those of the question with     *)
(* every clarification the user gave; the evidence is that of the question     *)
(* before the plan was questioned.                                             *)
PlanMatchesQuestion ==
    stage = "answered" =>
        /\ solution.question = question /\ planned = question
        /\ evidence = question - solution.asked
=============================================================================
