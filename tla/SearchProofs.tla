----------------------------- MODULE SearchProofs ---------------------------
(* Proofs about CandidateSearch, for every pool, budget, margin and set of *)
(* signals, under either policy, and about NodeSolve, for any number of    *)
(* attempts: the loops of the candidates make up a candidate search.       *)
EXTENDS NodeSolve, TLAPS

USE SearchConfigAssumption

-----------------------------------------------------------------------------
(* The lexicographic order distinguishes any two different vectors: of two *)
(* vectors one beats the other unless they are equal.                      *)
LEMMA BeatsIsTotal ==
    ASSUME NEW s \in SignalVector, NEW t \in SignalVector
    PROVE  Beats(s, t) \/ Beats(t, s) \/ s = t
<1>0. \A k \in 1..5 : s[k] \in Int /\ t[k] \in Int
  BY DEF SignalVector
<1>1. CASE s[1] # t[1]
  <2>1. s[1] > t[1] \/ t[1] > s[1]
    BY <1>0, <1>1
  <2> QED
    BY <2>1 DEF Beats
<1>2. CASE s[1] = t[1] /\ s[2] # t[2]
  <2>1. s[2] > t[2] \/ t[2] > s[2]
    BY <1>0, <1>2
  <2> QED
    BY <2>1, <1>2 DEF Beats
<1>3. CASE s[1] = t[1] /\ s[2] = t[2] /\ s[3] # t[3]
  <2>1. s[3] > t[3] \/ t[3] > s[3]
    BY <1>0, <1>3
  <2> QED
    BY <2>1, <1>3 DEF Beats
<1>4. CASE s[1] = t[1] /\ s[2] = t[2] /\ s[3] = t[3] /\ s[4] # t[4]
  <2>1. s[4] > t[4] \/ t[4] > s[4]
    BY <1>0, <1>4
  <2> QED
    BY <2>1, <1>4 DEF Beats
<1>5. CASE s[1] = t[1] /\ s[2] = t[2] /\ s[3] = t[3] /\ s[4] = t[4] /\ s[5] # t[5]
  <2>1. s[5] > t[5] \/ t[5] > s[5]
    BY <1>0, <1>5
  <2> QED
    BY <2>1, <1>5 DEF Beats
<1>6. CASE \A k \in 1..5 : s[k] = t[k]
  BY <1>6 DEF SignalVector
<1> QED
  BY <1>1, <1>2, <1>3, <1>4, <1>5, <1>6

LEMMA ViableSignals ==
    ASSUME TypeOK, NEW i \in Viable
    PROVE  tried[i] \in SignalVector
BY DEF TypeOK, Viable, Unviable

(* Two candidates at the top have the same signals.                        *)
LEMMA TopIsOneVector ==
    ASSUME TypeOK, NEW i \in Top, NEW j \in Top
    PROVE  tried[i] = tried[j]
<1>1. i \in Viable /\ j \in Viable
  BY DEF Top
<1>2. ~Beats(tried[i], tried[j]) /\ ~Beats(tried[j], tried[i])
  BY <1>1 DEF Top
<1> QED
  BY <1>1, <1>2, ViableSignals, BeatsIsTotal

(* A lone candidate at the top beats every other viable one.               *)
LEMMA LoneTopBeatsAll ==
    ASSUME TypeOK, ~Ambiguous, NEW i \in Top, NEW j \in Viable \ {i}
    PROVE  Beats(tried[i], tried[j])
<1>1. i \in Viable /\ ~Beats(tried[j], tried[i])
  BY DEF Top
<1>2. tried[i] # tried[j]
  <2> SUFFICES ASSUME tried[i] = tried[j] PROVE FALSE
    OBVIOUS
  <2>1. j \in Top
    BY DEF Top
  <2> QED
    BY <2>1 DEF Ambiguous, Several
<1> QED
  BY <1>1, <1>2, ViableSignals, BeatsIsTotal

-----------------------------------------------------------------------------
(* The inductive invariant: expansions are granted on a tie only, so a     *)
(* widened search has several viable candidates for ever; and the answer   *)
(* agrees with the evaluations it was drawn from.                          *)
WidenedByTie == expansions > 0 => Several(Viable)

TriedWithinBudget ==
    /\ Len(tried) <= pool
    /\ policy = "beam" => Len(tried) <= Budget

OpenSearch ==
    /\ phase # "done" => answer.ending = "none"
    /\ phase = "gate" => tried = <<>> /\ expansions = 0

IInv ==
    /\ TypeOK
    /\ WidenedByTie
    /\ TriedWithinBudget
    /\ OpenSearch
    /\ LoneSuccessKeepsSearching
    /\ SelectedBeatsAll
    /\ TiedIsGenuine

LEMMA TypeStep == TypeOK /\ [Next]_vars => TypeOK'
<1> SUFFICES ASSUME TypeOK, [Next]_vars PROVE TypeOK'
  OBVIOUS
<1>1. CASE RejectInfeasible
  BY <1>1 DEF RejectInfeasible, End, TypeOK, Endings
<1>2. CASE PassGate
  BY <1>2 DEF PassGate, TypeOK
<1>3. CASE Try
  BY <1>3 DEF Try, TypeOK
<1>4. CASE AttemptRaises
  BY <1>4 DEF AttemptRaises, End, TypeOK, Endings
<1>5. CASE Expand
  BY <1>5 DEF Expand, MayExpand, TypeOK
<1>6. CASE ConcludeFailed
  BY <1>6 DEF ConcludeFailed, End, TypeOK, Endings
<1>7. CASE ConcludeTied
  BY <1>7 DEF ConcludeTied, End, TypeOK, Endings
<1>8. CASE ConcludeSolved
  <2>1. \A i \in Top : i \in Nat
    BY DEF Top, Viable
  <2> QED
    BY <1>8, <2>1 DEF ConcludeSolved, End, TypeOK, Endings
<1>9. CASE UNCHANGED vars
  BY <1>9 DEF vars, TypeOK
<1> QED
  BY <1>1, <1>2, <1>3, <1>4, <1>5, <1>6, <1>7, <1>8, <1>9
     DEF Next, Step, Rest

LEMMA InitIInv == Init => IInv
<1> SUFFICES ASSUME Init PROVE IInv
  OBVIOUS
<1>1. TypeOK
  BY DEF Init, TypeOK
<1>2. Len(tried) = 0
  BY DEF Init
<1>3. TriedWithinBudget
  BY <1>2 DEF Init, TriedWithinBudget, Budget
<1> QED
  BY <1>1, <1>3 DEF Init, IInv, WidenedByTie, OpenSearch, Concluded,
     LoneSuccessKeepsSearching, SelectedBeatsAll, TiedIsGenuine

(* Ending the search changes nothing but the answer, which must then agree *)
(* with the evaluations.                                                   *)
LEMMA EndStep ==
    ASSUME IInv, TypeOK', NEW e, NEW i, End(e, i), e \in Endings,
           e # "raised" /\ tried # <<>> /\ ~Several(Viable) =>
               Len(tried) = (IF policy = "beam" THEN Least(pool, CandidateBudget)
                                                ELSE pool),
           e = "solved" => /\ i \in Viable
                           /\ \A j \in Viable \ {i} : Beats(tried[i], tried[j]),
           e = "tied" => \E x, y \in Viable :
               x # y /\ tried[x] = tried[y]
               /\ \A k \in Viable : ~Beats(tried[k], tried[x])
    PROVE  IInv'
<1>1. /\ phase' = "done" /\ answer'.ending = e /\ answer'.selected = i
      /\ policy' = policy /\ pool' = pool /\ tried' = tried /\ expansions' = expansions
  BY DEF End
<1>2. Viable' = Viable
  BY <1>1 DEF Viable
<1>3. WidenedByTie' /\ TriedWithinBudget' /\ OpenSearch'
  BY <1>1, <1>2 DEF IInv, WidenedByTie, TriedWithinBudget, OpenSearch, Budget
<1>4. LoneSuccessKeepsSearching'
  BY <1>1, <1>2 DEF LoneSuccessKeepsSearching, Concluded
<1>5. SelectedBeatsAll'
  BY <1>1, <1>2 DEF SelectedBeatsAll
<1>6. TiedIsGenuine'
  BY <1>1, <1>2 DEF TiedIsGenuine
<1> QED
  BY <1>3, <1>4, <1>5, <1>6 DEF IInv

(* A search that stops with at most one viable candidate has run out.      *)
LEMMA StoppedRanOut ==
    ASSUME IInv, Stopped, ~Several(Viable)
    PROVE  Len(tried) = IF policy = "beam" THEN Least(pool, CandidateBudget)
                                           ELSE pool
<1>1. OutOfCandidates
  BY DEF Stopped, MayStop, BeamMayStop
<1>2. expansions = 0
  BY DEF IInv, WidenedByTie, TypeOK
<1>3. Len(tried) \in Nat /\ pool \in Nat
  BY DEF IInv, TypeOK
<1>4. CASE policy = "beam"
  BY <1>1, <1>2, <1>3, <1>4
     DEF OutOfCandidates, IInv, TriedWithinBudget, Budget, Least
<1>5. CASE policy # "beam"
  BY <1>1, <1>3, <1>5 DEF OutOfCandidates, IInv, TriedWithinBudget
<1> QED
  BY <1>4, <1>5

LEMMA StepIInv == IInv /\ [Next]_vars => IInv'
<1> SUFFICES ASSUME IInv, [Next]_vars PROVE IInv'
  OBVIOUS
<1>0. TypeOK /\ TypeOK'
  BY TypeStep DEF IInv
<1>1. CASE RejectInfeasible
  <2>1. tried = <<>> /\ End("exhausted", 0)
    BY <1>1 DEF RejectInfeasible, IInv, OpenSearch
  <2> QED
    BY <1>0, <2>1, EndStep DEF Endings
<1>2. CASE PassGate
  <2>1. /\ UNCHANGED <<policy, pool, tried, expansions, answer>> /\ phase' = "search"
        /\ answer.ending = "none"
    BY <1>2 DEF PassGate, IInv, OpenSearch
  <2>2. Viable' = Viable
    BY <2>1 DEF Viable
  <2> QED
    BY <1>0, <2>1, <2>2 DEF IInv, WidenedByTie, TriedWithinBudget, OpenSearch,
       Budget, LoneSuccessKeepsSearching, Concluded, SelectedBeatsAll,
       TiedIsGenuine
<1>3. CASE Try
  <2>1. PICK s \in Signals \cup {Unviable} : tried' = Append(tried, s)
    BY <1>3 DEF Try
  <2>2. /\ Len(tried') = Len(tried) + 1
        /\ \A i \in 1..Len(tried) : tried'[i] = tried[i]
    BY <1>0, <2>1 DEF TypeOK
  <2>3. Viable \subseteq Viable'
    BY <1>0, <2>2 DEF Viable, TypeOK
  <2>4. /\ UNCHANGED <<policy, pool, expansions, phase, answer>> /\ phase = "search"
        /\ answer.ending = "none"
    BY <1>3 DEF Try, IInv, OpenSearch
  <2>5. WidenedByTie'
    BY <2>3, <2>4 DEF IInv, WidenedByTie, Several
  <2>6. TriedWithinBudget'
    BY <1>0, <1>3, <2>2, <2>4
       DEF Try, MayGoOn, OutOfCandidates, TriedWithinBudget, Budget, TypeOK
  <2> QED
    BY <1>0, <2>4, <2>5, <2>6 DEF IInv, OpenSearch, LoneSuccessKeepsSearching,
       Concluded, SelectedBeatsAll, TiedIsGenuine
<1>4. CASE AttemptRaises
  BY <1>0, <1>4, EndStep DEF AttemptRaises, Endings
<1>5. CASE Expand
  <2>1. /\ UNCHANGED <<policy, pool, tried, phase, answer>> /\ phase = "search"
        /\ answer.ending = "none" /\ expansions' = expansions + 1
        /\ Several(Viable)
    BY <1>5 DEF Expand, MayExpand, IInv, OpenSearch, Ambiguous, Several, Top
  <2>2. Viable' = Viable
    BY <2>1 DEF Viable
  <2>3. TriedWithinBudget'
    BY <1>0, <2>1 DEF IInv, TriedWithinBudget, Budget, TypeOK
  <2> QED
    BY <1>0, <2>1, <2>2, <2>3 DEF IInv, WidenedByTie, OpenSearch,
       LoneSuccessKeepsSearching, Concluded, SelectedBeatsAll, TiedIsGenuine
<1>6. CASE ConcludeFailed
  BY <1>0, <1>6, StoppedRanOut, EndStep DEF ConcludeFailed, Endings
<1>7. CASE ConcludeTied
  <2>1. PICK x, y \in Top : x # y
    BY <1>7 DEF ConcludeTied, Ambiguous, Several
  <2>2. /\ x \in Viable /\ y \in Viable /\ tried[x] = tried[y]
        /\ \A k \in Viable : ~Beats(tried[k], tried[x])
    BY <1>0, TopIsOneVector DEF Top
  <2> QED
    BY <1>0, <1>7, <2>1, <2>2, EndStep DEF ConcludeTied, Endings, Several
<1>8. CASE ConcludeSolved
  <2>1. PICK i \in Top : End("solved", i)
    BY <1>8 DEF ConcludeSolved
  <2>2. i \in Viable /\ \A j \in Viable \ {i} : Beats(tried[i], tried[j])
    BY <1>0, <1>8, LoneTopBeatsAll DEF ConcludeSolved, Top
  <2>3. ~Several(Viable) =>
          Len(tried) = IF policy = "beam" THEN Least(pool, CandidateBudget)
                                          ELSE pool
    BY <1>8, StoppedRanOut DEF ConcludeSolved
  <2> QED
    BY <1>0, <2>1, <2>2, <2>3, EndStep DEF Endings
<1>9. CASE UNCHANGED vars
  <2>1. Viable' = Viable
    BY <1>9 DEF vars, Viable
  <2> QED
    BY <1>0, <1>9, <2>1 DEF vars, IInv, WidenedByTie, TriedWithinBudget,
       OpenSearch, Budget, LoneSuccessKeepsSearching, Concluded,
       SelectedBeatsAll, TiedIsGenuine
<1> QED
  BY <1>1, <1>2, <1>3, <1>4, <1>5, <1>6, <1>7, <1>8, <1>9
     DEF Next, Step, Rest

-----------------------------------------------------------------------------
(* At every step of solve: its types, the number of tried candidates within *)
(* the budget, and the four promises about how the search goes on and ends. *)
THEOREM SearchInvariant == Spec => []IInv
BY InitIInv, StepIInv, PTL DEF Spec

(* The search never attempts more than the budget and its expansions.      *)
THEOREM SearchKeepsBudget == Spec => []BudgetKept
<1>1. IInv => BudgetKept
  BY DEF IInv, TypeOK, TriedWithinBudget, Budget, BudgetKept
<1> QED
  BY <1>1, SearchInvariant, PTL

(* A search that ends with at most one viable candidate used its budget.   *)
THEOREM LoneSuccessSearchesOn == Spec => []LoneSuccessKeepsSearching
<1>1. IInv => LoneSuccessKeepsSearching
  BY DEF IInv
<1> QED
  BY <1>1, SearchInvariant, PTL

(* The selected candidate strictly beats every other viable one.           *)
THEOREM SelectionIsStrict == Spec => []SelectedBeatsAll
<1>1. IInv => SelectedBeatsAll
  BY DEF IInv
<1> QED
  BY <1>1, SearchInvariant, PTL

(* AMBIGUOUS is reported for genuinely indistinguishable candidates only.  *)
THEOREM TiesAreGenuine == Spec => []TiedIsGenuine
<1>1. IInv => TiedIsGenuine
  BY DEF IInv
<1> QED
  BY <1>1, SearchInvariant, PTL

-----------------------------------------------------------------------------
(* NodeSolve.                                                              *)

USE AttemptsAssumption

(* A candidate's loop runs only while the policy allows the next attempt:  *)
(* nothing the loop does, before it concludes, is seen by the policy.      *)
LoopAllowed ==
    /\ repl \in {"idle", "ask", "judge"}
    /\ repl # "idle" => phase = "search" /\ MayGoOn

(* What the policy says depends on the variables of the search only.       *)
LEMMA PolicyUndisturbed ==
    ASSUME UNCHANGED vars
    PROVE  MayGoOn' <=> MayGoOn
BY DEF vars, MayGoOn, OutOfCandidates, BeamMustStop,
       BeamMayStop, Several, Leads, Viable,
       Posterior, Budget, Unviable

LEMMA LoopAllowedInit == SolveInit => LoopAllowed
BY DEF SolveInit, LoopAllowed

LEMMA LoopAllowedStep == LoopAllowed /\ [SolveNext]_solveVars => LoopAllowed'
<1> SUFFICES ASSUME LoopAllowed, [SolveNext]_solveVars
             PROVE  LoopAllowed'
  OBVIOUS
<1> USE DEF LoopAllowed
<1>1. CASE Around
  BY <1>1 DEF Around, inner
<1>2. CASE TakeCandidate
  BY <1>2, PolicyUndisturbed DEF TakeCandidate, vars
<1>3. CASE Ask
  BY <1>3, PolicyUndisturbed DEF Ask, vars
<1>4. CASE Retry
  BY <1>4, PolicyUndisturbed DEF Retry, vars
<1>5. CASE Raise \/ SkipCandidate \/ GiveUp \/ KeepFailedRun \/ Accept
  BY <1>5 DEF Raise, SkipCandidate, GiveUp, KeepFailedRun, Accept,
              Conclude, LeaveLoop
<1>6. CASE UNCHANGED solveVars
  BY <1>6, PolicyUndisturbed DEF solveVars, vars, inner
<1> QED
  BY <1>1, <1>2, <1>3, <1>4, <1>5, <1>6 DEF SolveNext, SolveStep, Advance, SolveRest

(* A conclusion of a candidate's loop is one attempt of the search.        *)
LEMMA ConclusionIsTry ==
    ASSUME LoopAllowed, repl # "idle", NEW r, Conclude(r)
    PROVE  Try
BY DEF LoopAllowed, Conclude, Try, Unviable

LEMMA StepIsSearchStep == LoopAllowed /\ [SolveNext]_solveVars => [Next]_vars
<1> SUFFICES ASSUME LoopAllowed, [SolveNext]_solveVars
             PROVE  [Next]_vars
  OBVIOUS
<1> USE DEF Next, Step
<1>1. CASE Around
  BY <1>1 DEF Around
<1>2. CASE TakeCandidate \/ Ask \/ Retry \/ UNCHANGED solveVars
  BY <1>2 DEF TakeCandidate, Ask, Retry, solveVars, vars
<1>3. CASE Raise
  BY <1>3 DEF Raise, LoopAllowed, AttemptRaises
<1>4. CASE SkipCandidate \/ GiveUp \/ KeepFailedRun \/ Accept
  BY <1>4, ConclusionIsTry DEF SkipCandidate, GiveUp, KeepFailedRun, Accept
<1> QED
  BY <1>1, <1>2, <1>3, <1>4 DEF SolveNext, SolveStep, Advance, SolveRest

(* solve with its retries implements the candidate search: the policy, the *)
(* ranking and the tie see each candidate's loop as a single step.         *)
THEOREM Implementation == SolveSpec => ImplementsSearch
<1>1. SolveInit => Init
  BY DEF SolveInit
<1> QED
  BY <1>1, LoopAllowedInit, LoopAllowedStep, StepIsSearchStep, PTL
     DEF SolveSpec, ImplementsSearch

-----------------------------------------------------------------------------
(* Feedback. A list retold stays retold when the same member is added to   *)
(* both, and when one that need not be told is added to the list.          *)

LEMMA RetellsMore ==
    ASSUME NEW U, NEW V, NEW s \in Seq(U), NEW t \in Seq(U),
           Retells(s, t, V), NEW v \in U \cap V
    PROVE  Retells(Append(s, v), Append(t, v), V)
<1> DEFINE s1 == Append(s, v)
           t1 == Append(t, v)
<1>1. PICK at \in [DOMAIN s -> DOMAIN t] :
          /\ \A i, j \in DOMAIN s : i < j => at[i] < at[j]
          /\ \A i \in DOMAIN s : s[i] = t[at[i]]
          /\ {at[i] : i \in DOMAIN s} = {k \in DOMAIN t : t[k] \in V}
  BY DEF Retells
<1> DEFINE at1 == [i \in DOMAIN s1 |-> IF i \in DOMAIN s THEN at[i] ELSE Len(t) + 1]
<1>2. /\ Len(s) \in Nat /\ Len(t) \in Nat
      /\ DOMAIN s = 1..Len(s) /\ DOMAIN t = 1..Len(t)
      /\ DOMAIN s1 = 1..(Len(s) + 1) /\ DOMAIN t1 = 1..(Len(t) + 1)
      /\ \A i \in DOMAIN s : s1[i] = s[i]
      /\ \A k \in DOMAIN t : t1[k] = t[k]
      /\ s1[Len(s) + 1] = v /\ t1[Len(t) + 1] = v
  OBVIOUS
<1> HIDE DEF s1, t1
<1>3. /\ \A i \in DOMAIN s : at1[i] = at[i] /\ at[i] \in 1..Len(t)
      /\ at1[Len(s) + 1] = Len(t) + 1
      /\ at1 \in [DOMAIN s1 -> DOMAIN t1]
  BY <1>1, <1>2
<1> HIDE DEF at1
<1>4. \A i \in DOMAIN s1 : i \in DOMAIN s \/ i = Len(s) + 1
  BY <1>2
<1>5. \A i, j \in DOMAIN s1 : i < j => at1[i] < at1[j]
  BY <1>1, <1>2, <1>3, <1>4
<1>6. \A i \in DOMAIN s1 : s1[i] = t1[at1[i]]
  BY <1>1, <1>2, <1>3, <1>4
<1>7. \A i \in DOMAIN s1 : at1[i] \in DOMAIN t1 /\ t1[at1[i]] \in V
  <2>1. \A i \in DOMAIN s : at[i] \in DOMAIN t /\ t[at[i]] \in V
    BY <1>1
  <2> QED
    BY <1>2, <1>3, <1>4, <2>1
<1>8. ASSUME NEW k \in DOMAIN t1, t1[k] \in V
      PROVE  \E i \in DOMAIN s1 : at1[i] = k
  <2>1. CASE k = Len(t) + 1
    BY <1>2, <1>3, <2>1
  <2>2. CASE k \in DOMAIN t
    <3>1. k \in {at[i] : i \in DOMAIN s}
      BY <1>1, <1>2, <1>8, <2>2
    <3> QED
      BY <3>1, <1>2, <1>3
  <2> QED
    BY <1>2, <2>1, <2>2
<1>9. {at1[i] : i \in DOMAIN s1} = {k \in DOMAIN t1 : t1[k] \in V}
  BY <1>7, <1>8
<1>10. Retells(s1, t1, V)
  BY <1>3, <1>5, <1>6, <1>9 DEF Retells
<1> QED
  BY <1>10 DEF s1, t1

LEMMA RetellsSame ==
    ASSUME NEW U, NEW V, NEW s \in Seq(U), NEW t \in Seq(U),
           Retells(s, t, V), NEW v \in U \ V
    PROVE  Retells(s, Append(t, v), V)
<1> DEFINE t1 == Append(t, v)
<1>1. PICK at \in [DOMAIN s -> DOMAIN t] :
          /\ \A i, j \in DOMAIN s : i < j => at[i] < at[j]
          /\ \A i \in DOMAIN s : s[i] = t[at[i]]
          /\ {at[i] : i \in DOMAIN s} = {k \in DOMAIN t : t[k] \in V}
  BY DEF Retells
<1>2. /\ Len(t) \in Nat /\ DOMAIN t = 1..Len(t) /\ DOMAIN t1 = 1..(Len(t) + 1)
      /\ \A k \in DOMAIN t : t1[k] = t[k]
      /\ t1[Len(t) + 1] = v
  OBVIOUS
<1> HIDE DEF t1
<1>3. at \in [DOMAIN s -> DOMAIN t1]
  BY <1>1, <1>2
<1>4. \A i \in DOMAIN s : s[i] = t1[at[i]]
  BY <1>1, <1>2
<1>5. {k \in DOMAIN t : t[k] \in V} = {k \in DOMAIN t1 : t1[k] \in V}
  BY <1>2
<1>6. Retells(s, t1, V)
  BY <1>1, <1>3, <1>4, <1>5 DEF Retells
<1> QED
  BY <1>6 DEF t1

LEMMA NothingToRetell == \A V : Retells(<<>>, <<>>, V)
<1> TAKE V
<1> DEFINE at == [i \in {} |-> i]
<1>1. DOMAIN <<>> = {}
  OBVIOUS
<1>2. at \in [{} -> {}]
  OBVIOUS
<1> QED
  BY <1>1, <1>2 DEF Retells

-----------------------------------------------------------------------------
(* The inductive invariant of solve with its loop. Until solve raises,     *)
(* what the candidates before brought and what this one has add up to the  *)
(* calls made; and the feedback retells all answers but the one the loop   *)
(* is judging.                                                             *)
ToTell == Verdicts \ {"constraint"}

Accounted ==
    /\ repl = "idle" => paths = <<>>
    /\ answer.ending # "raised" =>
           /\ allPaths.n + Len(paths) = calls
           /\ cost.node + cost.candidate = calls
           /\ cost.candidate = Len(paths)

Told ==
    /\ repl = "idle" => feedback = <<>>
    /\ repl = "ask" => Retells(feedback, paths, ToTell)
    /\ repl = "judge" =>
           \E told \in Seq(Verdicts) :
               /\ paths = Append(told, verdict)
               /\ Retells(feedback, told, ToTell)

LoopIInv ==
    /\ IInv
    /\ LoopAllowed
    /\ SolveTypeOK
    /\ ViableMeansGood
    /\ Accounted
    /\ Told

LEMMA LoopInit == SolveInit => LoopIInv
<1> SUFFICES ASSUME SolveInit PROVE LoopIInv
  OBVIOUS
<1>1. IInv
  BY InitIInv DEF SolveInit
<1>2. SolveTypeOK
  BY <1>1 DEF SolveInit, SolveTypeOK, IInv
<1>3. ViableMeansGood /\ Accounted /\ Told
  BY DEF SolveInit, Init, ViableMeansGood, Accounted, Told
<1> QED
  BY <1>1, <1>2, <1>3, LoopAllowedInit DEF LoopIInv

(* No vector of signals is the mark of an unviable candidate.              *)
LEMMA SignalsAreViable ==
    ASSUME NEW s \in Signals
    PROVE  s # Unviable
<1>1. DOMAIN s = 1..5
  BY DEF SignalVector
<1>2. DOMAIN Unviable = {}
  BY DEF Unviable
<1> QED
  BY <1>1, <1>2

(* In the loop's books an answer under judgement is the last path.         *)
LEMMA JudgedIsLast ==
    ASSUME LoopIInv, repl = "judge"
    PROVE  /\ paths \in Seq(Verdicts) /\ Len(paths) \in Nat \ {0}
           /\ paths[Len(paths)] = verdict /\ verdict \in Verdicts
<1>1. PICK told \in Seq(Verdicts) : paths = Append(told, verdict)
  BY DEF LoopIInv, Told
<1>2. paths \in Seq(Verdicts)
  BY DEF LoopIInv, SolveTypeOK
<1>3. Len(paths) = Len(told) + 1 /\ Len(told) \in Nat /\ paths[Len(told) + 1] = verdict
  BY <1>1
<1> QED
  BY <1>2, <1>3

(* A conclusion of a candidate keeps the books and the ranking.            *)
LEMMA ConclusionKeepsBooks ==
    ASSUME LoopIInv, IInv', repl = "judge", NEW r, Conclude(r),
           IsViable(r) <=> verdict = "good"
    PROVE  SolveTypeOK' /\ ViableMeansGood' /\ Accounted' /\ Told'
<1>1. /\ paths \in Seq(Verdicts) /\ Len(paths) \in Nat \ {0}
      /\ paths[Len(paths)] = verdict /\ verdict \in Verdicts
  BY JudgedIsLast
<1>2. PICK e \in IF IsViable(r) THEN Signals ELSE {Unviable} :
          tried' = Append(tried, e)
  BY DEF Conclude
<1>3. e # Unviable <=> verdict = "good"
  BY <1>2, SignalsAreViable
<1>4. /\ allPaths'.n = allPaths.n + Len(paths)
      /\ allPaths'.last = Append(allPaths.last, verdict)
      /\ allPaths' \in [n : Nat, last : Seq(Verdicts)]
      /\ cost'.node = cost.node + cost.candidate /\ cost'.candidate = 0
      /\ cost' \in [node : Nat, candidate : Nat]
  BY <1>1 DEF Conclude, LoopIInv, SolveTypeOK
<1>5. /\ repl' = "idle" /\ attempt' = 1 /\ feedback' = <<>>
      /\ verdict' = "none" /\ paths' = <<>>
      /\ UNCHANGED <<answer, calls>>
  BY DEF Conclude, LeaveLoop
<1>6. SolveTypeOK'
  BY <1>4, <1>5 DEF SolveTypeOK, LoopIInv, IInv
<1>7. ViableMeansGood'
  <2>1. /\ tried \in Seq(Signals \cup {Unviable}) /\ allPaths.last \in Seq(Verdicts)
        /\ Len(allPaths.last) = Len(tried)
        /\ \A i \in 1..Len(tried) :
               tried[i] # Unviable <=> allPaths.last[i] = "good"
    BY DEF LoopIInv, SolveTypeOK, TypeOK, ViableMeansGood
  <2>2. /\ Len(tried') = Len(tried) + 1 /\ Len(allPaths'.last) = Len(tried) + 1
        /\ tried'[Len(tried) + 1] = e /\ allPaths'.last[Len(tried) + 1] = verdict
        /\ \A i \in 1..Len(tried) :
               tried'[i] = tried[i] /\ allPaths'.last[i] = allPaths.last[i]
        /\ Len(tried) \in Nat
    BY <1>1, <1>2, <1>4, <2>1
  <2> QED
    BY <1>3, <2>1, <2>2 DEF ViableMeansGood
<1>8. Accounted'
  BY <1>1, <1>4, <1>5 DEF Accounted, LoopIInv, SolveTypeOK
<1>9. Told'
  BY <1>5 DEF Told
<1> QED
  BY <1>6, <1>7, <1>8, <1>9

LEMMA LoopStep == LoopIInv /\ [SolveNext]_solveVars => LoopIInv'
<1> SUFFICES ASSUME LoopIInv, [SolveNext]_solveVars
             PROVE  LoopIInv'
  OBVIOUS
<1>1. LoopAllowed' /\ IInv'
  BY LoopAllowedStep, StepIsSearchStep, StepIInv DEF LoopIInv
<1>2. TypeOK'
  BY <1>1 DEF IInv
<1> SUFFICES SolveTypeOK' /\ ViableMeansGood' /\ Accounted' /\ Told'
  BY <1>1 DEF LoopIInv
<1>3. CASE Around
  <2>1. repl = "idle" /\ UNCHANGED <<inner, books>>
    BY <1>3 DEF Around
  <2>2. UNCHANGED tried
    BY <1>3 DEF Around, RejectInfeasible, PassGate, Expand, ConcludeFailed,
                ConcludeTied, ConcludeSolved, End
  <2>3. answer.ending = "raised" => answer'.ending = "raised"
    BY <1>3 DEF Around, RejectInfeasible, PassGate, Expand, ConcludeFailed,
                ConcludeTied, ConcludeSolved, Stopped, LoopIInv, IInv, OpenSearch
  <2> QED
    BY <1>2, <2>1, <2>2, <2>3
       DEF inner, books, LoopIInv, SolveTypeOK, ViableMeansGood, Accounted, Told
<1>4. CASE TakeCandidate
  <2>1. /\ repl = "idle" /\ repl' = "ask"
        /\ UNCHANGED <<tried, answer, attempt, feedback, verdict, paths, books>>
    BY <1>4 DEF TakeCandidate, vars
  <2>2. Told'
    BY <2>1, NothingToRetell DEF LoopIInv, Told, Accounted
  <2> QED
    BY <1>2, <2>1, <2>2
       DEF books, LoopIInv, SolveTypeOK, ViableMeansGood, Accounted
<1>5. CASE Ask
  <2>1. PICK v \in Verdicts : verdict' = v /\ paths' = Append(paths, v)
    BY <1>5 DEF Ask
  <2>2. /\ repl = "ask" /\ repl' = "judge" /\ calls' = calls + 1
        /\ cost' = [cost EXCEPT !.candidate = @ + 1]
        /\ UNCHANGED <<tried, answer, attempt, feedback, allPaths>>
    BY <1>5 DEF Ask, vars
  <2>3. paths \in Seq(Verdicts) /\ calls \in Nat /\ cost \in [node : Nat, candidate : Nat]
    BY DEF LoopIInv, SolveTypeOK
  <2>4. paths' \in Seq(Verdicts) /\ Len(paths') = Len(paths) + 1 /\ Len(paths) \in Nat
    BY <2>1, <2>3
  <2>5. /\ cost'.node = cost.node /\ cost'.candidate = cost.candidate + 1
        /\ cost' \in [node : Nat, candidate : Nat]
    BY <2>2, <2>3
  <2>6. SolveTypeOK'
    BY <1>2, <2>1, <2>2, <2>3, <2>4, <2>5 DEF LoopIInv, SolveTypeOK
  <2>7. ViableMeansGood'
    BY <2>2 DEF LoopIInv, ViableMeansGood
  <2>8. Accounted'
    <3>1. allPaths.n \in Nat
      BY DEF LoopIInv, SolveTypeOK
    <3>2. answer.ending # "raised" =>
              /\ allPaths.n + Len(paths) = calls
              /\ cost.node + cost.candidate = calls
              /\ cost.candidate = Len(paths)
      BY DEF LoopIInv, Accounted
    <3>3. allPaths'.n = allPaths.n /\ answer' = answer /\ calls' = calls + 1
      BY <2>2
    <3>4. cost.node \in Nat /\ cost.candidate \in Nat
      BY <2>3
    <3>5. (answer.ending # "raised" =>
              /\ allPaths.n + Len(paths) = calls
              /\ cost.node + cost.candidate = calls
              /\ cost.candidate = Len(paths))'
      BY <2>4, <2>5, <3>1, <3>2, <3>3, <3>4
    <3> QED
      BY <2>2, <3>5 DEF Accounted
  <2>9. Told'
    BY <2>1, <2>2, <2>3 DEF LoopIInv, Told
  <2> QED
    BY <2>6, <2>7, <2>8, <2>9
<1>6. CASE Retry
  <2>1. /\ repl = "judge" /\ repl' = "ask" /\ verdict \in Retryable
        /\ attempt # MaxAttempts /\ attempt' = attempt + 1
        /\ feedback' = IF verdict \in Explained THEN Append(feedback, verdict)
                                                ELSE feedback
        /\ UNCHANGED <<tried, answer, verdict, paths, books>>
    BY <1>6 DEF Retry, vars, LastAttempt
  <2>2. feedback \in Seq(Retryable) /\ feedback' \in Seq(Retryable)
    BY <2>1 DEF LoopIInv, SolveTypeOK
  <2>3. PICK told \in Seq(Verdicts) :
            paths = Append(told, verdict) /\ Retells(feedback, told, ToTell)
    BY <2>1 DEF LoopIInv, Told
  <2>4. feedback \in Seq(Verdicts) /\ verdict \in Verdicts
    BY <2>1, <2>2 DEF Retryable
  <2>5. verdict \in Explained <=> verdict \in ToTell
    BY <2>1 DEF Explained, Retryable, ToTell
  <2>6. Retells(feedback', paths, ToTell)
    BY <2>1, <2>3, <2>4, <2>5, RetellsMore, RetellsSame
  <2>7. Told'
    BY <2>1, <2>6 DEF Told
  <2>8. SolveTypeOK'
    BY <1>2, <2>1, <2>2 DEF LoopIInv, SolveTypeOK, books
  <2> QED
    BY <2>1, <2>7, <2>8 DEF LoopIInv, ViableMeansGood, Accounted, books
<1>7. CASE Raise
  <2>1. /\ answer'.ending = "raised" /\ UNCHANGED <<tried, books>>
        /\ repl' = "idle" /\ attempt' = 1 /\ feedback' = <<>>
        /\ verdict' = "none" /\ paths' = <<>>
    BY <1>7 DEF Raise, LeaveLoop, End
  <2> QED
    BY <1>2, <2>1
       DEF books, LoopIInv, SolveTypeOK, ViableMeansGood, Accounted, Told
<1>8. CASE SkipCandidate \/ GiveUp
  BY <1>1, <1>8, ConclusionKeepsBooks
     DEF SkipCandidate, GiveUp, NothingUsable, IsViable, Probed, Retryable
<1>9. CASE KeepFailedRun
  BY <1>1, <1>9, ConclusionKeepsBooks DEF KeepFailedRun, FailedRun, IsViable
<1>10. CASE Accept
  BY <1>1, <1>10, ConclusionKeepsBooks DEF Accept, GoodRun, IsViable
<1>11. CASE UNCHANGED solveVars
  BY <1>2, <1>11 DEF solveVars, vars, inner, books, LoopIInv, SolveTypeOK,
     ViableMeansGood, Accounted, Told
<1> QED
  BY <1>3, <1>4, <1>5, <1>6, <1>7, <1>8, <1>9, <1>10, <1>11
     DEF SolveNext, SolveStep, Advance, SolveRest

(* The same of solve with its retries, with the variables of the loop, the  *)
(* calls counted and what the model has been told.                          *)
THEOREM LoopInvariant == SolveSpec => []LoopIInv
BY LoopInit, LoopStep, PTL DEF SolveSpec

(* The variables of the loop keep their types, for any number of attempts. *)
THEOREM SolveTypeCorrect == SolveSpec => []SolveTypeOK
<1>1. LoopIInv => SolveTypeOK
  BY DEF LoopIInv
<1> QED
  BY <1>1, LoopInvariant, PTL

(* What is promised of a search holds of solve with all its retries: the   *)
(* budget, the perseverance after a lone success, the strict selection and *)
(* the genuine tie.                                                        *)
THEOREM SolveKeepsPromises ==
    SolveSpec => [](/\ BudgetKept /\ LoneSuccessKeepsSearching
                    /\ SelectedBeatsAll /\ TiedIsGenuine)
<1>1. LoopIInv => /\ BudgetKept /\ LoneSuccessKeepsSearching
                  /\ SelectedBeatsAll /\ TiedIsGenuine
  BY DEF LoopIInv, IInv, TypeOK, TriedWithinBudget, Budget, BudgetKept
<1> QED
  BY <1>1, LoopInvariant, PTL

(* A candidate is ranked exactly when its last answer passed every check.  *)
THEOREM RankedMeansGood == SolveSpec => []ViableMeansGood
<1>1. LoopIInv => ViableMeansGood
  BY DEF LoopIInv
<1> QED
  BY <1>1, LoopInvariant, PTL

(* Whichever exit each candidate's loop took, no call is lost from the     *)
(* paths or from the cost, and none is counted twice.                      *)
THEOREM CallsAreAccounted == SolveSpec => []EveryCallAccounted
<1>1. LoopIInv => EveryCallAccounted
  <2> SUFFICES ASSUME LoopIInv, phase = "done", answer.ending # "raised"
               PROVE  allPaths.n = calls /\ cost.node = calls
    BY DEF EveryCallAccounted
  <2>1. paths = <<>>
    BY DEF LoopIInv, LoopAllowed, Accounted
  <2>2. Len(paths) = 0
    BY <2>1
  <2> QED
    BY <2>2 DEF LoopIInv, Accounted, SolveTypeOK
<1> QED
  BY <1>1, LoopInvariant, PTL

(* The model is told everything that was wrong with its answers for this   *)
(* candidate, except failed constraint checks, in the order they came.     *)
THEOREM FeedbackIsKept == SolveSpec => []FeedbackKept
<1>1. LoopIInv => FeedbackKept
  BY DEF LoopIInv, Told, ToTell, FeedbackKept
<1> QED
  BY <1>1, LoopInvariant, PTL
=============================================================================
