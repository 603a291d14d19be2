----------------------------- MODULE SharedFacts ----------------------------
(* The probe registry (search/data_probe.py): the facts "value v is, or is *)
(* not, in column c of table t" that the solve calls of a layer find out   *)
(* in their threads and share, and the decisions taken on them: solve      *)
(* rejects a requirement at its start and gives up a candidate in the      *)
(* middle, and Planner.replan drops supporting relations.                  *)
(*                                                                         *)
(* The solve calls are those of one layer. The scheduler's next walk,      *)
(* which repeats the replanned ones, starts when all of them have ended.   *)
(*                                                                         *)
(* A table is known by one name here. The gate, the skip rule and replan   *)
(* compare base names, the part after the last dot (rlm_engine.py:427,     *)
(* 1158, planner.py:686), so a pool with the same base name in two schemas *)
(* is not covered.                                                         *)
EXTENDS Integers, Sequences, FiniteSets

CONSTANTS
    Nodes,         \* the tasks of the layer
    Pool,          \* the candidate tables that are probed, in order
    Filters,       \* predicates column = value of failing statements
    Statements,    \* the sequences of filters one statement may have
    Values,        \* the values in them
    ValueOf,       \* the value of a filter
    Relations,     \* supporting relations a task may require
    MaxProbes,     \* failing statements probed for one candidate: one less
                   \* than config.max_attempts_per_node
    DatabaseErrors \* a probe's query may fail although the column exists

Tables == {Pool[i] : i \in DOMAIN Pool}

(* A supporting relation is a table and the values its purpose mentions.   *)
ASSUME FactsAssumption ==
    /\ Pool \in Seq(Tables) /\ Statements \subseteq Seq(Filters)
    /\ ValueOf \in [Filters -> Values]
    /\ Relations \subseteq [table: Tables, values: SUBSET Values]
    /\ MaxProbes \in Nat
    /\ DatabaseErrors \in BOOLEAN

(* What a probe asks.                                                      *)
Keys == [table: Tables, filter: Filters]

Key(t, f) == [table |-> t, filter |-> f]

(* The keys of a statement: for each filter, for each table.               *)
KeysOf(fs) ==
    LET width == Len(Pool)
    IN  [i \in 1..(Len(fs) * width) |->
            Key(Pool[((i - 1) % width) + 1], fs[((i - 1) \div width) + 1])]

(* What is known of a key.                                                 *)
Facts == {"unknown", "exists", "notfound"}

VARIABLES
    holds,     \* the keys the database has rows for
    registry,  \* key -> the shared fact
    requires,  \* node -> its supporting relations
    pc,        \* node -> where its solve call is
    primary,   \* node -> the candidate under test, if there is one
    untried,   \* node -> the candidates left
    probes,    \* node -> failing statements probed for its candidate
    work,      \* node -> keys its statement still has to probe
    found,     \* node -> key -> the fact read for its statement
    replanned, \* nodes whose replan was granted
    rejected,  \* node -> the relations it was rejected for, in order
    skipped    \* candidates given up on facts, with the statement's filters

search   == <<primary, untried, probes>>
probing  == <<work, found>>
verdicts == <<rejected, skipped>>
vars == <<holds, registry, requires, pc, search, probing, replanned, verdicts>>

NothingFound == [k \in Keys |-> "unknown"]

-----------------------------------------------------------------------------
Init ==
    /\ holds \in SUBSET Keys
    /\ registry = [k \in Keys |-> "unknown"]
    /\ requires \in [Nodes -> SUBSET Relations]
    /\ pc = [n \in Nodes |-> "gate"]
    /\ primary = [n \in Nodes |-> {}]
    /\ untried = [n \in Nodes |-> Tables]
    /\ probes = [n \in Nodes |-> 0]
    /\ work = [n \in Nodes |-> <<>>]
    /\ found = [n \in Nodes |-> NothingFound]
    /\ replanned = {}
    /\ rejected = [n \in Nodes |-> <<>>]
    /\ skipped = {}

Goto(n, l) == pc' = [pc EXCEPT ![n] = l]

(* The relations of a node for which a value of their purpose was not      *)
(* found in the table, whatever the column it was looked for in.           *)
Infeasible(n) ==
    {r \in requires[n] : \E f \in Filters :
         /\ registry[Key(r.table, f)] = "notfound"
         /\ ValueOf[f] \in r.values}

(* _requirement_infeasible at the start of solve.                          *)
PassGate(n) ==
    /\ pc[n] = "gate"
    /\ Infeasible(n) = {}
    /\ Goto(n, "attempt")
    /\ UNCHANGED <<holds, registry, requires, search, probing, replanned,
                   verdicts>>

RejectAtGate(n) ==
    /\ pc[n] = "gate"
    /\ \E r \in Infeasible(n) :
           rejected' = [rejected EXCEPT ![n] = Append(@, r)]
    /\ Goto(n, "asksReplan")
    /\ UNCHANGED <<holds, registry, requires, search, probing, replanned,
                   skipped>>

(* The search takes the next candidate: it has just begun, or the attempt  *)
(* on the last one ended otherwise than by a statement that is probed.     *)
TakeCandidate(n) ==
    /\ pc[n] = "attempt"
    /\ \E t \in untried[n] :
         /\ primary' = [primary EXCEPT ![n] = {t}]
         /\ untried' = [untried EXCEPT ![n] = @ \ {t}]
    /\ probes' = [probes EXCEPT ![n] = 0]
    /\ UNCHANGED <<holds, registry, requires, pc, probing, replanned, verdicts>>

(* It ends, with or without a replan request.                              *)
EndSearch(n) ==
    /\ pc[n] = "attempt"
    /\ \E l \in {"ended", "asksReplan"} : Goto(n, l)
    /\ primary' = [primary EXCEPT ![n] = {}]
    /\ untried' = [untried EXCEPT ![n] = Tables]
    /\ probes' = [probes EXCEPT ![n] = 0]
    /\ UNCHANGED <<holds, registry, requires, probing, replanned, verdicts>>

(* A statement fails its schema check or returns nothing, and each filter  *)
(* in it is to be probed in each table.                                    *)
FailStatement(n) ==
    /\ pc[n] = "attempt" /\ primary[n] # {}
    /\ probes[n] < MaxProbes
    /\ \E fs \in Statements : work' = [work EXCEPT ![n] = KeysOf(fs)]
    /\ probes' = [probes EXCEPT ![n] = @ + 1]
    /\ Goto(n, "probe")
    /\ UNCHANGED <<holds, registry, requires, primary, untried, found,
                   replanned, verdicts>>

(* DataProbe.probe: the next key is looked up without a lock, ...          *)
ReadFact(n) ==
    /\ pc[n] = "probe" /\ work[n] # <<>>
    /\ LET k == Head(work[n])
       IN  /\ registry[k] # "unknown"
           /\ found' = [found EXCEPT ![n][k] = registry[k]]
    /\ work' = [work EXCEPT ![n] = Tail(@)]
    /\ UNCHANGED <<holds, registry, requires, pc, search, replanned, verdicts>>

MissFact(n) ==
    /\ pc[n] = "probe" /\ work[n] # <<>>
    /\ registry[Head(work[n])] = "unknown"
    /\ Goto(n, "query")
    /\ UNCHANGED <<holds, registry, requires, search, probing, replanned,
                   verdicts>>

(* Mutant: the answer is looked for in every column.                       *)
AnswersAnyColumn(k) ==
    IF \E h \in holds : h.table = k.table /\ ValueOf[h.filter] = ValueOf[k.filter]
    THEN {"exists"} ELSE {"notfound"}

(* The facts a query can lead to. A query that fails, for want of the      *)
(* column or for an error of the database, counts as finding nothing.      *)
Answers(k) ==
    (IF k \in holds THEN {"exists"} ELSE {"notfound"})
    \cup (IF DatabaseErrors THEN {"notfound"} ELSE {})

(* ... queried if missing, and the answer put in the registry, whatever    *)
(* another thread has put there meanwhile.                                 *)
QueryFact(n) ==
    /\ pc[n] = "query"
    /\ LET k == Head(work[n])
       IN  \E a \in Answers(k) :
             /\ registry' = [registry EXCEPT ![k] = a]
             /\ found' = [found EXCEPT ![n][k] = a]
    /\ work' = [work EXCEPT ![n] = Tail(@)]
    /\ Goto(n, "probe")
    /\ UNCHANGED <<holds, requires, search, replanned, verdicts>>

(* Mutant: a value missing in the candidate is enough.                     *)
MissingHere(n) ==
    {f \in Filters : \E t \in primary[n] : found[n][Key(t, f)] = "notfound"}

(* _probe_suggests_skip: values the candidate lacks that the same column   *)
(* of another table has.                                                   *)
Elsewhere(n) ==
    {f \in Filters :
        /\ \E t \in primary[n] : found[n][Key(t, f)] = "notfound"
        /\ \E t \in Tables : found[n][Key(t, f)] = "exists"}

ProbesDone(n) == pc[n] = "probe" /\ work[n] = <<>>

SkipCandidate(n) ==
    /\ ProbesDone(n)
    /\ Elsewhere(n) # {}
    /\ skipped' = skipped \cup
         {[table |-> t, filters |-> {f \in Filters :
                                     found[n][Key(t, f)] # "unknown"}] :
              t \in primary[n]}
    /\ primary' = [primary EXCEPT ![n] = {}]
    /\ probes' = [probes EXCEPT ![n] = 0]
    /\ found' = [found EXCEPT ![n] = NothingFound]
    /\ Goto(n, "attempt")
    /\ UNCHANGED <<holds, registry, requires, untried, work, replanned, rejected>>

RetryCandidate(n) ==
    /\ ProbesDone(n)
    /\ Elsewhere(n) = {}
    /\ found' = [found EXCEPT ![n] = NothingFound]
    /\ Goto(n, "attempt")
    /\ UNCHANGED <<holds, registry, requires, search, work, replanned, verdicts>>

Solve(n) ==
    \/ PassGate(n) \/ RejectAtGate(n)
    \/ TakeCandidate(n) \/ EndSearch(n)
    \/ FailStatement(n) \/ ReadFact(n) \/ MissFact(n) \/ QueryFact(n)
    \/ SkipCandidate(n) \/ RetryCandidate(n)

-----------------------------------------------------------------------------
(* The scheduler's thread.                                                 *)

(* Mutant: the relations are kept.                                         *)
ReplanKeepsRelations(n) ==
    /\ pc[n] = "asksReplan" /\ n \notin replanned
    /\ replanned' = replanned \cup {n}
    /\ Goto(n, "released")
    /\ UNCHANGED <<holds, registry, requires, search, probing, verdicts>>

(* Planner.replan drops the infeasible relations, by the facts of now,     *)
(* while other calls of the layer may still find out more.                 *)
Replan(n) ==
    /\ pc[n] = "asksReplan" /\ n \notin replanned
    /\ replanned' = replanned \cup {n}
    /\ requires' = [requires EXCEPT ![n] = @ \ Infeasible(n)]
    /\ Goto(n, "released")
    /\ UNCHANGED <<holds, registry, search, probing, verdicts>>

(* A second request is not granted.                                        *)
Finish(n) ==
    /\ pc[n] = "asksReplan" /\ n \in replanned
    /\ Goto(n, "ended")
    /\ UNCHANGED <<holds, registry, requires, search, probing, replanned,
                   verdicts>>

(* The next walk dispatches the released nodes together.                   *)
SecondWalk ==
    /\ \A n \in Nodes : pc[n] \in {"ended", "released"}
    /\ \E n \in Nodes : pc[n] = "released"
    /\ pc' = [n \in Nodes |-> IF pc[n] = "released" THEN "gate" ELSE pc[n]]
    /\ UNCHANGED <<holds, registry, requires, search, probing, replanned,
                   verdicts>>

Done == \A n \in Nodes : pc[n] = "ended"

Rest == Done /\ UNCHANGED vars

Next ==
    \/ \E n \in Nodes : Solve(n) \/ Replan(n) \/ Finish(n)
    \/ SecondWalk
    \/ Rest

Spec == Init /\ [][Next]_vars

-----------------------------------------------------------------------------
(* Properties.                                                             *)

(* The variables keep their types.                                         *)
TypeOK ==
    /\ holds \subseteq Keys
    /\ registry \in [Keys -> Facts]
    /\ requires \in [Nodes -> SUBSET Relations]
    /\ pc \in [Nodes -> {"gate", "attempt", "probe", "query", "asksReplan",
                         "released", "ended"}]
    /\ primary \in [Nodes -> SUBSET Tables]
    /\ untried \in [Nodes -> SUBSET Tables]
    /\ probes \in [Nodes -> 0..MaxProbes]
    /\ work \in [Nodes -> Seq(Keys)]
    /\ found \in [Nodes -> [Keys -> Facts]]
    /\ replanned \subseteq Nodes
    /\ rejected \in [Nodes -> Seq(Relations)]
    /\ skipped \subseteq [table: Tables, filters: SUBSET Filters]

(* "Probe results are database truths": every shared fact is true of the   *)
(* database, whatever threads race to record it. Claimed for queries that  *)
(* fail for a missing column only.                                         *)
FactsTrue ==
    \A k \in Keys : registry[k] # "unknown" =>
        (registry[k] = "exists" <=> k \in holds)

(* A candidate is given up only if the database really lacks, in it, a     *)
(* value of the failing statement that another candidate really has.       *)
SkipJustified ==
    \A s \in skipped : \E f \in s.filters :
        Key(s.table, f) \notin holds /\ \E t \in Tables : Key(t, f) \in holds

(* The gate rejects a node twice for different relations only: replan has  *)
(* dropped the one of the first rejection, and others are rejected for     *)
(* facts recorded since.                                                   *)
RejectedForNewReasons ==
    \A n \in Nodes : \A i, j \in 1..Len(rejected[n]) :
        i # j => rejected[n][i] # rejected[n][j]
=============================================================================
