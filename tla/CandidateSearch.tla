-------------------------- MODULE CandidateSearch ---------------------------
(* RLMAgent.solve (search/rlm_engine.py) under a SearchPolicy              *)
(* (search/search_policy.py): the candidates of a node are attempted in    *)
(* retriever order until the policy stops; the viable ones are ranked      *)
(* lexicographically by their ranking signals; a tie of the best two       *)
(* widens the search budget, and is reported AMBIGUOUS if it remains.      *)
(*                                                                         *)
(* One attempt (RLMAgent._attempt) is abstracted to its evaluation: the    *)
(* five signals, in hundredths, of a viable candidate, or Unviable.        *)
EXTENDS NodeContract, Sequences

CONSTANTS
    MaxPool,        \* bound on the number of candidates of a node
    Policies,       \* the values config.search_policy may have
    BeamWidth,      \* config.beam_width
    CandidateBudget,\* config.candidate_budget
    StopMargin,     \* config.stop_margin, in hundredths
    MaxExpansion,   \* config.max_candidate_expansion
    Signals         \* the ranking signals a viable candidate may have

(* What PathEvaluator finds in a viable candidate. Its validation passed,  *)
(* so the aggregation is right; what is left to structural_match is a      *)
(* missed grain, or rows of a total, which has no grain to miss.           *)
StructuralMatch == {100, 100 - 30, 100 - 10}
GrainMatch == {50, 100}
TimeMatch == {0, 100}

(* _execution_signal: the errors of earlier attempts are not among those   *)
(* it counts, and the attempt that made the candidate viable had none.     *)
ResultQuality == {100}

(* structural, grain, dimension, time match and result quality.            *)
SignalVector ==
    {s \in [1..5 -> 0..100] :
        /\ s[1] \in StructuralMatch
        /\ s[2] \in GrainMatch
        /\ s[1] = 90 => s[2] = 100
        /\ s[4] \in TimeMatch
        /\ s[5] \in ResultQuality}

ASSUME SearchConfigAssumption ==
    /\ MaxPool \in Nat
    /\ Policies \subseteq {"beam", "exhaustive"}
    /\ BeamWidth \in Nat \ {0} /\ CandidateBudget \in Nat \ {0}
    /\ StopMargin \in Nat /\ MaxExpansion \in Nat
    /\ Signals \subseteq SignalVector

VARIABLES
    policy,     \* which policy build_policy made
    pool,       \* len(order): how many candidates the node has
    tried,      \* the evaluations so far, in the order of the candidates
    expansions, \* how often an ambiguous search was widened
    phase,      \* "gate", "search" or "done"
    answer      \* how solve ended, and the candidate selected (0: none)

vars == <<policy, pool, tried, expansions, phase, answer>>

Unviable == <<>>

Viable == {i \in 1..Len(tried) : tried[i] # Unviable}

Several(S) == \E x, y \in S : x # y

-----------------------------------------------------------------------------
(* Ranking (_rank_key, _is_ambiguous).                                     *)

(* Mutant: only the first signal counts.                                   *)
BeatsOnFirst(s, t) == s[1] > t[1]

Beats(s, t) == \E k \in 1..5 : s[k] > t[k] /\ \A j \in 1..(k - 1) : s[j] = t[j]

(* Viable candidates that no viable candidate beats. They have the same    *)
(* signals, so the best two tie exactly when there are two of them.        *)
Top == {i \in Viable : \A j \in Viable : ~Beats(tried[j], tried[i])}

Ambiguous == Several(Top)

-----------------------------------------------------------------------------
(* The policy. Candidates tried so far are its index.                      *)

Posterior(s) == s[1] + s[2] + s[3] + s[4] + s[5]

(* Mutant: an expansion counts double.                                     *)
BudgetDoubled == CandidateBudget + 2 * expansions

(* expand(1) raises a beam's budget; an exhaustive search has none.        *)
Budget == CandidateBudget + expansions

(* The best viable posterior (the mean of the five signals) leads every    *)
(* other one, in units of a fifth of a hundredth.                          *)
Leads(margin) ==
    \E i \in Viable : \A j \in Viable \ {i} :
        Posterior(tried[i]) - Posterior(tried[j]) >= margin

(* Mutant: one viable candidate dominates.                                 *)
BeamMayStopOnOne ==
    /\ Len(tried) >= BeamWidth
    /\ Viable # {}
    /\ Leads(5 * StopMargin)

(* After the beam floor: two viable candidates and a large enough lead.    *)
BeamMayStop ==
    /\ Len(tried) >= BeamWidth
    /\ Several(Viable)
    /\ Leads(5 * StopMargin)

(* On the margin itself the rounding of the floating-point means decides.  *)
BeamMustStop == BeamMayStop /\ Leads(5 * StopMargin + 1)

(* Mutant: the budget binds an exhaustive search too.                      *)
OutOfBudget == Len(tried) >= pool \/ Len(tried) >= Budget

OutOfCandidates ==
    \/ Len(tried) >= pool
    \/ policy = "beam" /\ Len(tried) >= Budget

(* has_next returns True, or False: both are possible on the margin.       *)
MayGoOn == ~OutOfCandidates /\ (policy = "beam" => ~BeamMustStop)
MayStop == OutOfCandidates \/ (policy = "beam" /\ BeamMayStop)

-----------------------------------------------------------------------------
Init ==
    /\ policy \in Policies
    /\ pool \in 0..MaxPool
    /\ tried = <<>>
    /\ expansions = 0
    /\ phase = "gate"
    /\ answer = [ending |-> "none", selected |-> 0]

(* End(e, i): solve ends as e with candidate i selected.                   *)
End(e, i) ==
    /\ phase' = "done"
    /\ answer' = [ending |-> e, selected |-> i]
    /\ UNCHANGED <<policy, pool, tried, expansions>>

(* _requirement_infeasible: a verified fact rules the requirement out.     *)
RejectInfeasible == phase = "gate" /\ End("exhausted", 0)

PassGate ==
    /\ phase = "gate"
    /\ phase' = "search"
    /\ UNCHANGED <<policy, pool, tried, expansions, answer>>

Try ==
    /\ phase = "search"
    /\ MayGoOn
    /\ \E s \in Signals \cup {Unviable} : tried' = Append(tried, s)
    /\ UNCHANGED <<policy, pool, expansions, phase, answer>>

(* An attempt may raise: LLM and probe errors leave solve.                 *)
AttemptRaises == phase = "search" /\ MayGoOn /\ End("raised", 0)

MayExpand == Ambiguous /\ expansions < MaxExpansion /\ Len(tried) < pool

Expand ==
    /\ phase = "search"
    /\ MayStop /\ MayExpand
    /\ expansions' = expansions + 1
    /\ UNCHANGED <<policy, pool, tried, phase, answer>>

Stopped == phase = "search" /\ MayStop /\ ~MayExpand

ConcludeFailed ==
    /\ Stopped
    /\ Viable = {}
    /\ End(IF pool > 1 THEN "exhausted" ELSE "hopeless", 0)

(* Mutant: a tie is reported once the pool is exhausted only.              *)
ConcludeTiedLate ==
    /\ Stopped
    /\ Ambiguous /\ Len(tried) = pool
    /\ End("tied", 0)

ConcludeTied ==
    /\ Stopped
    /\ Ambiguous
    /\ End("tied", 0)

(* Mutant: the first viable candidate wins.                                *)
ConcludeWithFirst ==
    /\ Stopped
    /\ ~Ambiguous
    /\ \E i \in Viable : (\A j \in Viable : i <= j) /\ End("solved", i)

ConcludeSolved ==
    /\ Stopped
    /\ ~Ambiguous
    /\ \E i \in Top : End("solved", i)

Rest == phase = "done" /\ UNCHANGED vars

Step == \/ RejectInfeasible \/ PassGate
        \/ Try \/ AttemptRaises \/ Expand
        \/ ConcludeFailed \/ ConcludeTied \/ ConcludeSolved

Next == Step \/ Rest

(* Every attempt ends: its LLM calls and statements are bounded.           *)
Spec == Init /\ [][Next]_vars /\ WF_vars(Step)

-----------------------------------------------------------------------------
(* Properties.                                                             *)

(* The variables keep their types.                                         *)
TypeOK ==
    /\ policy \in Policies
    /\ pool \in 0..MaxPool
    /\ tried \in Seq(Signals \cup {Unviable})
    /\ expansions \in 0..MaxExpansion
    /\ phase \in {"gate", "search", "done"}
    /\ answer \in [ending: Endings \cup {"none"}, selected: Nat]

Least(a, b) == IF a < b THEN a ELSE b

(* The end was a conclusion of the search, not the gate or an exception.   *)
Concluded == phase = "done" /\ answer.ending # "raised" /\ tried # <<>>

(* No search attempts more candidates than the node has, or, in a beam,    *)
(* than the budget with all its expansions.                                *)
BudgetKept ==
    /\ Len(tried) <= pool
    /\ policy = "beam" => Len(tried) <= CandidateBudget + MaxExpansion

(* A single success is no dominance, and no success no reason to stop: a   *)
(* search that ends with fewer than two viable candidates has used its     *)
(* whole budget or the whole pool.                                         *)
LoneSuccessKeepsSearching ==
    Concluded /\ ~Several(Viable) =>
        Len(tried) = IF policy = "beam" THEN Least(pool, CandidateBudget)
                                        ELSE pool

(* The selected candidate is viable and beats every other viable candidate *)
(* tried, also those that scored a higher posterior.                       *)
SelectedBeatsAll ==
    answer.ending = "solved" =>
        /\ answer.selected \in Viable
        /\ \A j \in Viable \ {answer.selected} :
               Beats(tried[answer.selected], tried[j])

(* An AMBIGUOUS answer means two viable candidates with equal signals that *)
(* no viable candidate tried beats.                                        *)
TiedIsGenuine ==
    answer.ending = "tied" =>
        \E i, j \in Viable : i # j /\ tried[i] = tried[j]
                             /\ \A k \in Viable : ~Beats(tried[k], tried[i])

(* solve ends.                                                             *)
Termination == <>(phase = "done")
=============================================================================
