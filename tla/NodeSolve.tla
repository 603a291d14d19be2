------------------------------ MODULE NodeSolve -----------------------------
(* RLMAgent.solve with the REPL loop of each candidate (_attempt in        *)
(* search/rlm_engine.py): ask the model for SQL, validate it, execute it,  *)
(* check the requirement and the rows, and ask again with what was wrong.  *)
(* CandidateSearch, which this module extends, knows one step per          *)
(* candidate; here each candidate takes up to MaxAttempts model calls.     *)
EXTENDS CandidateSearch

CONSTANT MaxAttempts    \* config.max_attempts_per_node

ASSUME AttemptsAssumption == MaxAttempts \in Nat \ {0}

VARIABLES
    repl,      \* where the loop of the current candidate is
    attempt,   \* the attempt it is at
    feedback,  \* attempt_feedback: what the next prompt says was wrong
    verdict,   \* what the checks said of the last answer
    paths,     \* the reasoning paths of the current candidate
    allPaths,  \* all_paths: their number, and for each candidate evaluated
               \* the verdict on its last one
    cost,      \* total_cost of solve and of the current candidate
    calls      \* model calls that returned, a count kept by the model only

inner == <<repl, attempt, feedback, verdict, paths>>
books == <<allPaths, cost, calls>>
solveVars == <<vars, inner, books>>

-----------------------------------------------------------------------------
(* The first check an answer of the model fails, in the order of the code. *)
(* "prose": no SQL found in it. "empty": it ran and returned no rows.      *)
Verdicts == {"prose", "syntax", "schema", "alias", "execution",
             "constraint", "empty", "good"}

(* Answers after which the loop goes on, unless the attempts are used up.  *)
Retryable == Verdicts \ {"prose", "good"}

(* Mutant: an alias error is not told to the model.                        *)
ExplainedButAlias == Retryable \ {"constraint", "alias"}

(* Those whose message is appended to attempt_feedback. A failed           *)
(* constraint check assigns its message to user_prompt, which the next     *)
(* attempt builds anew.                                                    *)
Explained == Retryable \ {"constraint"}

(* Those after which the data is probed, which may show that the candidate *)
(* cannot hold the rows asked for.                                         *)
Probed == {"schema", "empty"}

LastAttempt == attempt = MaxAttempts

(* What the evaluation reads of the pair (result, ok) of an attempt.       *)
NothingUsable == [ok |-> FALSE, rows |-> FALSE, error |-> TRUE,  passed |-> FALSE]
FailedRun     == [ok |-> TRUE,  rows |-> FALSE, error |-> FALSE, passed |-> FALSE]
GoodRun       == [ok |-> TRUE,  rows |-> TRUE,  error |-> FALSE, passed |-> TRUE]

(* Mutant: neither rows nor the requirement are asked for.                 *)
IsViableIfOk(r) == r.ok /\ ~r.error

(* _build_candidate_evaluation and CandidateEvaluation.viable.             *)
IsViable(r) ==
    LET executionValid == r.ok /\ ~r.error
    IN  r.ok /\ r.rows /\ executionValid /\ r.passed

-----------------------------------------------------------------------------
SolveInit ==
    /\ Init
    /\ repl = "idle" /\ attempt = 1
    /\ feedback = <<>> /\ verdict = "none" /\ paths = <<>>
    /\ allPaths = [n |-> 0, last |-> <<>>]
    /\ cost = [node |-> 0, candidate |-> 0] /\ calls = 0

(* The parts of solve around the candidates.                               *)
Around ==
    /\ repl = "idle"
    /\ \/ RejectInfeasible \/ PassGate \/ Expand
       \/ ConcludeFailed \/ ConcludeTied \/ ConcludeSolved
    /\ UNCHANGED <<inner, books>>

(* Mutant: the policy is not asked.                                        *)
TakeAnyCandidate ==
    /\ phase = "search" /\ repl = "idle"
    /\ Len(tried) < pool
    /\ repl' = "ask"
    /\ UNCHANGED <<vars, attempt, feedback, verdict, paths, books>>

(* The next candidate's loop is begun.                                     *)
TakeCandidate ==
    /\ phase = "search" /\ repl = "idle"
    /\ MayGoOn
    /\ repl' = "ask"
    /\ UNCHANGED <<vars, attempt, feedback, verdict, paths, books>>

(* Mutant: an answer without SQL is not recorded.                          *)
AskUnlessProse ==
    /\ repl = "ask"
    /\ \E v \in Verdicts :
         /\ verdict' = v
         /\ paths' = IF v = "prose" /\ paths # <<>>
                       THEN paths ELSE Append(paths, v)
    /\ repl' = "judge"
    /\ calls' = calls + 1
    /\ cost' = [cost EXCEPT !.candidate = @ + 1]
    /\ UNCHANGED <<vars, attempt, feedback, allPaths>>

(* A model call returns, for one token, and its answer is checked. Every   *)
(* way out of an attempt records its path.                                 *)
Ask ==
    /\ repl = "ask"
    /\ \E v \in Verdicts : verdict' = v /\ paths' = Append(paths, v)
    /\ repl' = "judge"
    /\ calls' = calls + 1
    /\ cost' = [cost EXCEPT !.candidate = @ + 1]
    /\ UNCHANGED <<vars, attempt, feedback, allPaths>>

Retry ==
    /\ repl = "judge" /\ ~LastAttempt
    /\ verdict \in Retryable
    /\ repl' = "ask"
    /\ attempt' = attempt + 1
    /\ feedback' = IF verdict \in Explained THEN Append(feedback, verdict)
                                            ELSE feedback
    /\ UNCHANGED <<vars, verdict, paths, books>>

LeaveLoop ==
    /\ repl' = "idle" /\ attempt' = 1
    /\ feedback' = <<>> /\ verdict' = "none" /\ paths' = <<>>

(* The model fails, or the database where its failure is not caught.       *)
Raise ==
    /\ repl # "idle"
    /\ LeaveLoop
    /\ End("raised", 0)
    /\ UNCHANGED books

(* Conclude(r): _attempt returns r; solve evaluates the candidate.         *)
Conclude(r) ==
    /\ LeaveLoop
    /\ \E e \in IF IsViable(r) THEN Signals ELSE {Unviable} :
           tried' = Append(tried, e)
    /\ allPaths' = [n |-> allPaths.n + Len(paths),
                    last |-> Append(allPaths.last, paths[Len(paths)])]
    /\ cost' = [node |-> cost.node + cost.candidate, candidate |-> 0]
    /\ UNCHANGED <<policy, pool, expansions, phase, answer, calls>>

(* The data proves the candidate wrong: the loop ends early.               *)
SkipCandidate ==
    /\ repl = "judge" /\ ~LastAttempt
    /\ verdict \in Probed
    /\ Conclude(NothingUsable)

(* Mutant: an alias error in the last attempt is left to the loop's end.   *)
GiveUpUnlessAlias ==
    /\ repl = "judge"
    /\ \/ verdict = "prose"
       \/ LastAttempt /\ verdict \in Retryable \ {"execution", "alias"}
    /\ Conclude(NothingUsable)

GiveUp ==
    /\ repl = "judge"
    /\ \/ verdict = "prose"
       \/ LastAttempt /\ verdict \in Retryable \ {"execution"}
    /\ Conclude(NothingUsable)

(* A statement that fails in the last attempt is kept as a result.         *)
KeepFailedRun ==
    /\ repl = "judge" /\ LastAttempt
    /\ verdict = "execution"
    /\ Conclude(FailedRun)

Accept ==
    /\ repl = "judge"
    /\ verdict = "good"
    /\ Conclude(GoodRun)

SolveRest == phase = "done" /\ UNCHANGED solveVars

Advance == \/ Around \/ TakeCandidate \/ Ask \/ Retry
           \/ SkipCandidate \/ GiveUp \/ KeepFailedRun \/ Accept

SolveStep == Advance \/ Raise

SolveNext == SolveStep \/ SolveRest

(* Model calls and statements end: both are bounded by a timeout. No       *)
(* exception is relied on to get out of a loop.                            *)
SolveSpec == SolveInit /\ [][SolveNext]_solveVars /\ WF_solveVars(Advance)

-----------------------------------------------------------------------------
(* Properties.                                                             *)

(* The variables of the loop keep their types.                             *)
SolveTypeOK ==
    /\ TypeOK
    /\ repl \in {"idle", "ask", "judge"}
    /\ attempt \in 1..MaxAttempts
    /\ verdict \in Verdicts \cup {"none"}
    /\ feedback \in Seq(Retryable)
    /\ paths \in Seq(Verdicts)
    /\ allPaths \in [n: Nat, last: Seq(Verdicts)]
    /\ cost \in [node: Nat, candidate: Nat] /\ calls \in Nat

(* solve, with all the retries of its candidates, is a candidate search as *)
(* CandidateSearch describes it: a candidate's loop is one step, and what  *)
(* is proved there of budgets, selection and ties holds here.              *)
ImplementsSearch == Init /\ [][Next]_vars

(* Retells(s, t, V): s tells the members of t that are in V, all of them   *)
(* and in order: at[i] is where the i-th one is in t.                      *)
Retells(s, t, V) ==
    \E at \in [DOMAIN s -> DOMAIN t] :
        /\ \A i, j \in DOMAIN s : i < j => at[i] < at[j]
        /\ \A i \in DOMAIN s : s[i] = t[at[i]]
        /\ {at[i] : i \in DOMAIN s} = {k \in DOMAIN t : t[k] \in V}

(* A candidate enters the ranking exactly when the last answer it got      *)
(* passed every check: a failed statement kept as a result never does.     *)
ViableMeansGood ==
    /\ Len(allPaths.last) = Len(tried)
    /\ \A i \in 1..Len(tried) :
           tried[i] # Unviable <=> allPaths.last[i] = "good"

(* Unless solve raises, every model call that returned is among the        *)
(* reasoning paths and in the cost reported for the node, whichever of the *)
(* loop's exits each candidate took.                                       *)
EveryCallAccounted ==
    phase = "done" /\ answer.ending # "raised" =>
        /\ allPaths.n = calls
        /\ cost.node = calls

(* When the model is asked again, the prompt tells everything that was     *)
(* wrong with this candidate's answers so far, in order, failed constraint *)
(* checks apart.                                                           *)
FeedbackKept ==
    repl = "ask" => Retells(feedback, paths, Verdicts \ {"constraint"})

-----------------------------------------------------------------------------
(* tests/test_rlm_engine.py: constraint failures retry with feedback. Each *)
(* rejection of this candidate's answers is in the prompt of the next      *)
(* attempt.                                                                *)
RetriesAreInformed == repl = "ask" => feedback = paths
=============================================================================
