-------------------------- MODULE SharedFactsProofs -------------------------
(* Proofs about SharedFacts, for any number of solve calls, tables and     *)
(* filters, and for a database whose queries do not fail.                  *)
EXTENDS SharedFacts, TLAPS

USE FactsAssumption

(* What the threads hold for true is true: the shared facts, what each     *)
(* call has read or found out for its statement, and the grounds of the    *)
(* candidates given up. Two threads that race to record a key bring the    *)
(* same answer, which is why no lock is needed.                            *)
Truth(fact, k) == fact # "unknown" => (fact = "exists" <=> k \in holds)

FactsInv ==
    /\ DOMAIN registry = Keys
    /\ found \in [Nodes -> [Keys -> Facts]]
    /\ primary \in [Nodes -> SUBSET Tables]
    /\ untried \in [Nodes -> SUBSET Tables]
    /\ \A n \in Nodes : \A t, u \in primary[n] : t = u
    /\ \A k \in Keys : registry[k] \in Facts /\ Truth(registry[k], k)
    /\ \A n \in Nodes : \A k \in Keys : Truth(found[n][k], k)
    /\ SkipJustified

LEMMA AnswerIsTrue ==
    ASSUME ~DatabaseErrors, NEW k, NEW a \in Answers(k)
    PROVE  a \in Facts \ {"unknown"} /\ Truth(a, k)
BY DEF Answers, Truth, Facts

LEMMA FactsInvInit == Init => FactsInv
<1> SUFFICES ASSUME Init PROVE FactsInv
  OBVIOUS
<1> QED
  BY DEF Init, FactsInv, NothingFound, Truth, Facts, SkipJustified

(* Steps that leave the facts and the grounds alone.                       *)
LEMMA FactsKept ==
    ASSUME FactsInv, UNCHANGED <<holds, registry, found, skipped>>,
           primary' \in [Nodes -> SUBSET Tables],
           untried' \in [Nodes -> SUBSET Tables],
           \A n \in Nodes : \A t, u \in primary'[n] : t = u
    PROVE  FactsInv'
BY DEF FactsInv, Truth, SkipJustified

LEMMA QueryKeepsTruth ==
    ASSUME ~DatabaseErrors, FactsInv, NEW n \in Nodes, QueryFact(n)
    PROVE  FactsInv'
<1> DEFINE k == Head(work[n])
<1>1. PICK a \in Answers(k) :
          /\ registry' = [registry EXCEPT ![k] = a]
          /\ found' = [found EXCEPT ![n][k] = a]
  BY DEF QueryFact
<1>2. a \in Facts /\ Truth(a, k)
  BY AnswerIsTrue
<1>3. UNCHANGED <<holds, primary, untried, skipped>>
  BY DEF QueryFact, search, verdicts
<1> HIDE DEF k
<1>4. \A h \in Keys : registry'[h] = IF h = k THEN a ELSE registry[h]
  BY <1>1 DEF FactsInv
<1>5. \A m \in Nodes : \A h \in Keys :
          found'[m][h] = IF m = n /\ h = k THEN a ELSE found[m][h]
  BY <1>1 DEF FactsInv
<1>6. found' \in [Nodes -> [Keys -> Facts]]
  BY <1>1, <1>2 DEF FactsInv
<1>7. \A h \in Keys : registry'[h] \in Facts /\ Truth(registry[h], h)'
  BY <1>2, <1>3, <1>4 DEF FactsInv, Truth
<1>8. \A m \in Nodes : \A h \in Keys : Truth(found[m][h], h)'
  BY <1>2, <1>3, <1>5 DEF FactsInv, Truth
<1>9. DOMAIN registry' = Keys /\ SkipJustified'
  BY <1>1, <1>3 DEF FactsInv, SkipJustified
<1> QED
  BY <1>3, <1>6, <1>7, <1>8, <1>9 DEF FactsInv

LEMMA ReadKeepsTruth ==
    ASSUME FactsInv, NEW n \in Nodes, ReadFact(n)
    PROVE  FactsInv'
<1> DEFINE k == Head(work[n])
<1>1. found' = [found EXCEPT ![n][k] = registry[k]]
  BY DEF ReadFact
<1>2. UNCHANGED <<holds, registry, primary, untried, skipped>>
  BY DEF ReadFact, search, verdicts
<1> HIDE DEF k
<1>3. \A m \in Nodes : \A h \in Keys :
          found'[m][h] = IF m = n /\ h = k THEN registry[k] ELSE found[m][h]
  BY <1>1 DEF FactsInv
<1>4. \A m \in Nodes : \A h \in Keys :
          found'[m][h] \in Facts /\ Truth(found[m][h], h)'
  BY <1>2, <1>3 DEF FactsInv, Truth
<1>5. found' \in [Nodes -> [Keys -> Facts]]
  <2> DEFINE read == [found[n] EXCEPT ![k] = registry[k]]
  <2>1. read = [h \in Keys |-> IF h = k THEN registry[k] ELSE found[n][h]]
    BY DEF FactsInv
  <2>2. read \in [Keys -> Facts]
    <3>1. \A h \in Keys : (IF h = k THEN registry[k] ELSE found[n][h]) \in Facts
      BY DEF FactsInv
    <3> HIDE DEF read
    <3> QED
      BY <2>1, <3>1
  <2>3. found' = [found EXCEPT ![n] = read]
    BY <1>1
  <2> HIDE DEF read
  <2> QED
    BY <2>2, <2>3 DEF FactsInv
<1>6. SkipJustified'
  BY <1>2 DEF FactsInv, SkipJustified
<1> QED
  BY <1>2, <1>4, <1>5, <1>6 DEF FactsInv, Truth

(* A candidate is given up on two facts that are both true.                *)
LEMMA SkipIsJustified ==
    ASSUME FactsInv, NEW n \in Nodes, SkipCandidate(n)
    PROVE  SkipJustified'
<1>1. UNCHANGED holds
  BY DEF SkipCandidate
<1> SUFFICES ASSUME NEW s \in skipped'
             PROVE  \E f \in s.filters :
                        /\ Key(s.table, f) \notin holds
                        /\ \E t \in Tables : Key(t, f) \in holds
  BY <1>1 DEF SkipJustified
<1>2. CASE s \in skipped
  BY <1>2 DEF FactsInv, SkipJustified
<1>3. ASSUME NEW t \in primary[n],
             s = [table |-> t, filters |-> {f \in Filters :
                                     found[n][Key(t, f)] # "unknown"}]
      PROVE  \E f \in s.filters :
                 /\ Key(s.table, f) \notin holds
                 /\ \E u \in Tables : Key(u, f) \in holds
  <2>1. PICK f \in Filters :
            /\ \E v \in primary[n] : found[n][Key(v, f)] = "notfound"
            /\ \E v \in Tables : found[n][Key(v, f)] = "exists"
    BY DEF SkipCandidate, Elsewhere
  <2>2. found[n][Key(t, f)] = "notfound" /\ t \in Tables
    BY <2>1 DEF FactsInv
  <2>3. PICK u \in Tables : found[n][Key(u, f)] = "exists"
    BY <2>1
  <2>4. Key(t, f) \in Keys /\ Key(u, f) \in Keys
    BY <2>2 DEF Key, Keys
  <2>5. Key(t, f) \notin holds /\ Key(u, f) \in holds
    BY <2>2, <2>3, <2>4 DEF FactsInv, Truth
  <2> QED
    BY <1>3, <2>2, <2>5
<1> QED
  BY <1>2, <1>3 DEF SkipCandidate

LEMMA FactsInvStep == ~DatabaseErrors /\ FactsInv /\ [Next]_vars => FactsInv'
<1> SUFFICES ASSUME ~DatabaseErrors, FactsInv, [Next]_vars
             PROVE  FactsInv'
  OBVIOUS
<1> USE DEF search, probing, verdicts
<1>1. ASSUME NEW n \in Nodes,
             PassGate(n) \/ RejectAtGate(n) \/ FailStatement(n)
                \/ MissFact(n) \/ Replan(n) \/ Finish(n)
      PROVE  FactsInv'
  <2>1. UNCHANGED <<holds, registry, found, skipped, primary, untried>>
    BY <1>1 DEF PassGate, RejectAtGate, FailStatement, MissFact, Replan, Finish
  <2> QED
    BY <2>1, FactsKept DEF FactsInv
<1>2. ASSUME NEW n \in Nodes, TakeCandidate(n)
      PROVE  FactsInv'
  <2>1. PICK t \in untried[n] :
            /\ primary' = [primary EXCEPT ![n] = {t}]
            /\ untried' = [untried EXCEPT ![n] = @ \ {t}]
    BY <1>2 DEF TakeCandidate
  <2>2. UNCHANGED <<holds, registry, found, skipped>>
    BY <1>2 DEF TakeCandidate
  <2>3. /\ primary' \in [Nodes -> SUBSET Tables]
        /\ untried' \in [Nodes -> SUBSET Tables]
        /\ \A m \in Nodes : \A u, v \in primary'[m] : u = v
    BY <2>1 DEF FactsInv
  <2> QED
    BY <2>2, <2>3, FactsKept
<1>3. ASSUME NEW n \in Nodes, EndSearch(n)
      PROVE  FactsInv'
  <2>1. /\ UNCHANGED <<holds, registry, found, skipped>>
        /\ primary' = [primary EXCEPT ![n] = {}]
        /\ untried' = [untried EXCEPT ![n] = Tables]
    BY <1>3 DEF EndSearch
  <2>2. /\ primary' \in [Nodes -> SUBSET Tables]
        /\ untried' \in [Nodes -> SUBSET Tables]
        /\ \A m \in Nodes : \A u, v \in primary'[m] : u = v
    BY <2>1 DEF FactsInv
  <2> QED
    BY <2>1, <2>2, FactsKept
<1>4. ASSUME NEW n \in Nodes, ReadFact(n)
      PROVE  FactsInv'
  BY <1>4, ReadKeepsTruth
<1>5. ASSUME NEW n \in Nodes, QueryFact(n)
      PROVE  FactsInv'
  BY <1>5, QueryKeepsTruth
<1>6. ASSUME NEW n \in Nodes, SkipCandidate(n) \/ RetryCandidate(n)
      PROVE  FactsInv'
  <2>1. /\ UNCHANGED <<holds, registry, untried>>
        /\ found' = [found EXCEPT ![n] = NothingFound]
        /\ primary' \in {primary, [primary EXCEPT ![n] = {}]}
    BY <1>6 DEF SkipCandidate, RetryCandidate
  <2>2. NothingFound \in [Keys -> Facts]
    BY DEF NothingFound, Facts
  <2>3. \A m \in Nodes : \A k \in Keys :
            found'[m][k] = IF m = n THEN "unknown" ELSE found[m][k]
    BY <2>1 DEF FactsInv, NothingFound
  <2>4. found' \in [Nodes -> [Keys -> Facts]]
    BY <2>1, <2>2 DEF FactsInv
  <2>5. /\ primary' \in [Nodes -> SUBSET Tables]
        /\ \A m \in Nodes : \A u, v \in primary'[m] : u = v
    BY <2>1 DEF FactsInv
  <2>6. SkipJustified'
    <3>1. CASE SkipCandidate(n)
      BY <3>1, SkipIsJustified
    <3>2. CASE RetryCandidate(n)
      BY <3>2 DEF RetryCandidate, FactsInv, SkipJustified
    <3> QED
      BY <1>6, <3>1, <3>2
  <2> QED
    BY <2>1, <2>3, <2>4, <2>5, <2>6 DEF FactsInv, Truth
<1>7. CASE SecondWalk \/ UNCHANGED vars
  BY <1>7, FactsKept DEF SecondWalk, vars, FactsInv
<1>8. \/ \E n \in Nodes : Solve(n) \/ Replan(n) \/ Finish(n)
      \/ SecondWalk \/ UNCHANGED vars
  BY DEF Next, Rest
<1>9. ASSUME NEW n \in Nodes, Solve(n) \/ Replan(n) \/ Finish(n)
      PROVE  FactsInv'
  BY <1>9, <1>1, <1>2, <1>3, <1>4, <1>5, <1>6 DEF Solve
<1> QED
  BY <1>7, <1>8, <1>9

LEMMA FactsInvariant ==
    ASSUME ~DatabaseErrors
    PROVE  Spec => []FactsInv
<1>1. FactsInv /\ [Next]_vars => FactsInv'
  BY FactsInvStep
<1> QED
  BY <1>1, FactsInvInit, PTL DEF Spec

(* Every shared fact is true of the database, although threads look keys   *)
(* up and record them without a lock.                                      *)
THEOREM FactsAreTrue ==
    ASSUME ~DatabaseErrors
    PROVE  Spec => []FactsTrue
<1>1. FactsInv => FactsTrue
  BY DEF FactsInv, FactsTrue, Truth
<1> QED
  BY <1>1, FactsInvariant, PTL

(* Candidates are given up on true facts only.                             *)
THEOREM SkipsAreJustified ==
    ASSUME ~DatabaseErrors
    PROVE  Spec => []SkipJustified
<1>1. FactsInv => SkipJustified
  BY DEF FactsInv
<1> QED
  BY <1>1, FactsInvariant, PTL
-----------------------------------------------------------------------------
(* How a node is rejected. Before its replan it is rejected at most once,  *)
(* for a relation that stays infeasible until replan drops it: what was    *)
(* found to be missing is never found again. A node is released once, and  *)
(* passes the gate a second time without that relation.                    *)
Rejections(n) ==
    /\ rejected[n] \in Seq(Relations) /\ Len(rejected[n]) <= 2
    /\ n \notin replanned =>
          /\ pc[n] # "released" /\ Len(rejected[n]) <= 1
          /\ Len(rejected[n]) = 1 =>
                pc[n] = "asksReplan" /\ rejected[n][1] \in Infeasible(n)
    /\ n \in replanned /\ pc[n] \in {"released", "gate"} =>
          /\ Len(rejected[n]) <= 1
          /\ Len(rejected[n]) = 1 => rejected[n][1] \notin requires[n]
    /\ Len(rejected[n]) = 2 => rejected[n][1] # rejected[n][2]

RejectionInv ==
    /\ requires \in [Nodes -> SUBSET Relations]
    /\ DOMAIN pc = Nodes /\ DOMAIN rejected = Nodes
    /\ \A n \in Nodes : Rejections(n)

LEMMA RejectionInit == Init => RejectionInv
<1> SUFFICES ASSUME Init PROVE RejectionInv
  OBVIOUS
<1> QED
  BY DEF Init, RejectionInv, Rejections

(* An infeasible relation stays so while it is required.                   *)
LEMMA StaysInfeasible ==
    ASSUME ~DatabaseErrors, FactsInv, RejectionInv, [Next]_vars,
           NEW n \in Nodes, requires'[n] = requires[n]
    PROVE  Infeasible(n) \subseteq Infeasible(n)'
<1> SUFFICES ASSUME NEW r \in Infeasible(n) PROVE r \in Infeasible(n)'
  OBVIOUS
<1>1. PICK f \in Filters : registry[Key(r.table, f)] = "notfound" /\ ValueOf[f] \in r.values
  BY DEF Infeasible
<1>2. r \in Relations
  BY DEF Infeasible, RejectionInv
<1>3. Key(r.table, f) \in Keys
  BY <1>2 DEF Key, Keys
<1>4. registry'[Key(r.table, f)] = "notfound"
  <2>1. CASE \E m \in Nodes : QueryFact(m)
    <3>0. PICK m \in Nodes : QueryFact(m)
      BY <2>1
    <3>1. PICK a \in Answers(Head(work[m])) :
              registry' = [registry EXCEPT ![Head(work[m])] = a]
      BY <3>0 DEF QueryFact
    <3>2. a \in Facts \ {"unknown"} /\ Truth(a, Head(work[m]))
      BY AnswerIsTrue
    <3>3. CASE Head(work[m]) = Key(r.table, f)
      BY <1>1, <1>3, <3>1, <3>2, <3>3 DEF FactsInv, Truth, Facts
    <3>4. CASE Head(work[m]) # Key(r.table, f)
      BY <1>1, <1>3, <3>1, <3>4 DEF FactsInv
    <3> QED
      BY <3>3, <3>4
  <2>2. CASE ~\E m \in Nodes : QueryFact(m)
    <3>1. UNCHANGED registry
      BY <2>2 DEF Next, Rest, vars, search, probing, verdicts, Solve, PassGate, RejectAtGate,
             TakeCandidate, EndSearch, FailStatement, ReadFact, MissFact, SkipCandidate,
             RetryCandidate, Replan, Finish, SecondWalk
    <3> QED
      BY <1>1, <3>1
  <2> QED
    BY <2>1, <2>2
<1> QED
  BY <1>1, <1>4 DEF Infeasible

(* A step that adds no rejection to a node and does not move it to the     *)
(* gate or out of a request.                                               *)
LEMMA RejectionsKept ==
    ASSUME ~DatabaseErrors, FactsInv, RejectionInv, [Next]_vars, NEW n \in Nodes,
           requires'[n] = requires[n], rejected'[n] = rejected[n],
           n \in replanned' <=> n \in replanned,
           \/ pc'[n] = pc[n]
           \/ pc[n] # "asksReplan" /\ pc'[n] \notin {"released", "gate"}
    PROVE  Rejections(n)'
<1>1. Infeasible(n) \subseteq Infeasible(n)'
  BY StaysInfeasible
<1> QED
  BY <1>1 DEF RejectionInv, Rejections

LEMMA RejectionStep ==
    ~DatabaseErrors /\ FactsInv /\ RejectionInv /\ [Next]_vars => RejectionInv'
<1> SUFFICES ASSUME ~DatabaseErrors, FactsInv, RejectionInv, [Next]_vars
             PROVE  RejectionInv'
  OBVIOUS
<1> USE DEF search, probing, verdicts
<1>1. ASSUME NEW n \in Nodes,
             \/ PassGate(n) \/ TakeCandidate(n) \/ EndSearch(n) \/ FailStatement(n)
             \/ ReadFact(n) \/ MissFact(n) \/ QueryFact(n)
             \/ SkipCandidate(n) \/ RetryCandidate(n)
      PROVE  RejectionInv'
  <2>1. /\ UNCHANGED <<requires, rejected, replanned>>
        /\ \/ UNCHANGED pc
           \/ /\ pc[n] # "asksReplan"
              /\ \E l \in {"attempt", "ended", "asksReplan", "probe", "query"} : Goto(n, l)
    <3>1. CASE PassGate(n) \/ TakeCandidate(n) \/ EndSearch(n)
      BY <3>1 DEF PassGate, TakeCandidate, EndSearch
    <3>2. CASE FailStatement(n) \/ ReadFact(n) \/ MissFact(n) \/ QueryFact(n)
      BY <3>2 DEF FailStatement, ReadFact, MissFact, QueryFact
    <3>3. CASE SkipCandidate(n) \/ RetryCandidate(n)
      BY <3>3 DEF SkipCandidate, RetryCandidate, ProbesDone
    <3> QED
      BY <1>1, <3>1, <3>2, <3>3
  <2>3. /\ DOMAIN pc' = Nodes
        /\ \A m \in Nodes \ {n} : pc'[m] = pc[m]
        /\ \/ pc'[n] = pc[n]
           \/ pc[n] # "asksReplan" /\ pc'[n] \notin {"released", "gate"}
    BY <2>1 DEF RejectionInv, Goto
  <2>4. \A m \in Nodes : Rejections(m)'
    BY <2>1, <2>3, RejectionsKept
  <2> QED
    BY <2>1, <2>3, <2>4 DEF RejectionInv
<1>2. ASSUME NEW n \in Nodes, RejectAtGate(n)
      PROVE  RejectionInv'
  <2>1. PICK r \in Infeasible(n) : rejected' = [rejected EXCEPT ![n] = Append(@, r)]
    BY <1>2 DEF RejectAtGate
  <2>2. /\ UNCHANGED <<requires, replanned, registry>>
        /\ pc[n] = "gate" /\ pc' = [pc EXCEPT ![n] = "asksReplan"]
    BY <1>2 DEF RejectAtGate, Goto
  <2>3. r \in requires[n] /\ r \in Relations
    BY DEF Infeasible, RejectionInv
  <2>4. Infeasible(n)' = Infeasible(n)
    BY <2>2 DEF Infeasible
  <2>5. rejected'[n] = Append(rejected[n], r) /\ pc'[n] = "asksReplan"
    BY <2>1, <2>2 DEF RejectionInv
  <2>6. /\ rejected[n] \in Seq(Relations) /\ Len(rejected[n]) <= 1
        /\ Len(rejected[n]) = 1 => n \in replanned /\ rejected[n][1] \notin requires[n]
    BY <2>2 DEF RejectionInv, Rejections
  <2>8. /\ rejected'[n] \in Seq(Relations)
        /\ Len(rejected'[n]) = Len(rejected[n]) + 1
        /\ rejected'[n][Len(rejected[n]) + 1] = r
        /\ Len(rejected[n]) = 1 => rejected'[n][1] = rejected[n][1]
    BY <2>3, <2>5, <2>6
  <2>9. Len(rejected[n]) = 0 \/ Len(rejected[n]) = 1
    <3>1. Len(rejected[n]) \in Nat /\ Len(rejected[n]) <= 1
      BY <2>6
    <3>2. \A k \in Nat : k <= 1 => k = 0 \/ k = 1
      OBVIOUS
    <3> QED
      BY <3>1, <3>2
  <2>10. Rejections(n)'
    <3>1. CASE Len(rejected[n]) = 0
      BY <2>2, <2>4, <2>5, <2>8, <3>1 DEF Rejections
    <3>2. CASE Len(rejected[n]) = 1
      BY <2>2, <2>3, <2>5, <2>6, <2>8, <3>2 DEF Rejections
    <3> QED
      BY <2>9, <3>1, <3>2
  <2>7. \A m \in Nodes \ {n} : Rejections(m)'
    <3>1. \A m \in Nodes \ {n} : pc'[m] = pc[m] /\ rejected'[m] = rejected[m]
      BY <2>1, <2>2 DEF RejectionInv
    <3> QED
      BY <2>2, <3>1, RejectionsKept
  <2> QED
    BY <2>1, <2>2, <2>7, <2>10 DEF RejectionInv
<1>3. ASSUME NEW n \in Nodes, Replan(n)
      PROVE  RejectionInv'
  <2>1. /\ pc[n] = "asksReplan" /\ n \notin replanned
        /\ replanned' = replanned \cup {n}
        /\ requires' = [requires EXCEPT ![n] = @ \ Infeasible(n)]
        /\ pc' = [pc EXCEPT ![n] = "released"]
        /\ UNCHANGED rejected
    BY <1>3 DEF Replan, Goto
  <2>2. requires' \in [Nodes -> SUBSET Relations]
    BY <2>1 DEF RejectionInv
  <2>3. Rejections(n)'
    <3>1. requires'[n] = requires[n] \ Infeasible(n)
      BY <2>1 DEF RejectionInv
    <3>2. Infeasible(n) \subseteq Relations
      BY DEF Infeasible, RejectionInv
    <3>3. Len(rejected[n]) = 1 => rejected[n][1] \notin requires'[n]
      BY <2>1, <3>1, <3>2 DEF RejectionInv, Rejections
    <3> QED
      BY <2>1, <3>3 DEF RejectionInv, Rejections
  <2>4. \A m \in Nodes \ {n} : Rejections(m)'
    <3>1. \A m \in Nodes \ {n} : pc'[m] = pc[m] /\ requires'[m] = requires[m]
      BY <2>1 DEF RejectionInv
    <3> QED
      BY <2>1, <3>1, RejectionsKept
  <2> QED
    BY <2>1, <2>2, <2>3, <2>4 DEF RejectionInv
<1>4. ASSUME NEW n \in Nodes, Finish(n)
      PROVE  RejectionInv'
  <2>1. /\ n \in replanned /\ pc' = [pc EXCEPT ![n] = "ended"]
        /\ UNCHANGED <<requires, rejected, replanned>>
    BY <1>4 DEF Finish, Goto
  <2>2. Rejections(n)'
    BY <2>1 DEF RejectionInv, Rejections
  <2>3. \A m \in Nodes \ {n} : Rejections(m)'
    <3>1. \A m \in Nodes \ {n} : pc'[m] = pc[m]
      BY <2>1 DEF RejectionInv
    <3> QED
      BY <2>1, <3>1, RejectionsKept
  <2> QED
    BY <2>1, <2>2, <2>3 DEF RejectionInv
<1>5. CASE SecondWalk
  <2>1. /\ UNCHANGED <<requires, rejected, replanned, registry>>
        /\ pc' = [n \in Nodes |-> IF pc[n] = "released" THEN "gate" ELSE pc[n]]
    BY <1>5 DEF SecondWalk
  <2>2. ASSUME NEW n \in Nodes PROVE Rejections(n)'
    <3>1. CASE pc[n] = "released"
      BY <2>1, <3>1 DEF RejectionInv, Rejections
    <3>2. CASE pc[n] # "released"
      BY <2>1, <3>2, RejectionsKept
    <3> QED
      BY <3>1, <3>2
  <2> QED
    BY <2>1, <2>2 DEF RejectionInv
<1>6. CASE UNCHANGED vars
  <2>1. \A n \in Nodes : Rejections(n)'
    BY <1>6, RejectionsKept DEF vars
  <2> QED
    BY <1>6, <2>1 DEF vars, RejectionInv
<1> QED
  BY <1>1, <1>2, <1>3, <1>4, <1>5, <1>6 DEF Next, Rest, Solve

(* The gate rejects a node a second time for another relation only         *)
(* (rlm_engine.py:240-262, planner.py:628-664).                            *)
THEOREM SecondReasonsAreNew ==
    ASSUME ~DatabaseErrors
    PROVE  Spec => []RejectedForNewReasons
<1>1. RejectionInv => RejectedForNewReasons
  <2> SUFFICES ASSUME RejectionInv, NEW n \in Nodes,
                      NEW i \in 1..Len(rejected[n]), NEW j \in 1..Len(rejected[n]), i # j
               PROVE  rejected[n][i] # rejected[n][j]
    BY DEF RejectedForNewReasons
  <2>1. /\ Len(rejected[n]) \in Nat /\ Len(rejected[n]) <= 2
        /\ Len(rejected[n]) = 2 => rejected[n][1] # rejected[n][2]
    BY DEF RejectionInv, Rejections
  <2>2. Len(rejected[n]) = 2 /\ ((i = 1 /\ j = 2) \/ (i = 2 /\ j = 1))
    <3> DEFINE len == Len(rejected[n])
    <3>1. len \in Nat /\ len <= 2 /\ i \in 1..len /\ j \in 1..len
      BY <2>1
    <3> HIDE DEF len
    <3>2. len = 2 /\ ((i = 1 /\ j = 2) \/ (i = 2 /\ j = 1))
      BY <3>1
    <3> QED
      BY <3>2 DEF len
  <2> QED
    BY <2>1, <2>2
<1>2. FactsInv /\ RejectionInv /\ [Next]_vars => RejectionInv'
  BY RejectionStep
<1> QED
  BY <1>1, <1>2, RejectionInit, FactsInvariant, PTL DEF Spec
=============================================================================
