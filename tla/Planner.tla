------------------------------- MODULE Planner -------------------------------
(* Planner.decompose: a question is decomposed by the model into a graph of *)
(* tasks, the non-atomic ones are decomposed again, their graphs are merged *)
(* in their place, and lookup tasks are folded into their consumers.        *)
(*                                                                          *)
(* A graph is the dict dag.nodes: a function from the ids of its tasks, with *)
(* the place each was inserted at, because the order decides which edges are *)
(* renamed and which tasks are expanded before the limit is met.            *)
(*                                                                          *)
(* An id is a string that the model chooses and that merging prefixes: the  *)
(* sequence of its parts between dots, so that joining with a dot is \o, and *)
(* "A" with the sub-task "B" meets a task the model named "A.B". Each task   *)
(* also carries its lineage, which the code does not keep: the name it was   *)
(* given and those of the tasks above it.                                    *)
(*                                                                          *)
(* What the tasks ask for is data, except whether one is a mere lookup; the  *)
(* table it looks up is named by its lineage. The join_keys are data of the  *)
(* aggregator, and renamed like depends_on. Of an id listed again in a       *)
(* depends_on only the second occurrence counts.                             *)
EXTENDS Naturals, Sequences, FiniteSets

CONSTANTS
    Segments,       \* strings without a dot
    Names,          \* the ids the model gives to the sub-tasks of one answer
    Answers,        \* Answers[d]: the answers the model may give at depth d
    MaxDepth,       \* config.max_depth
    MaxSubtasks,    \* MAX_SUBTASKS
    MaxTotalNodes   \* MAX_TOTAL_NODES

(* An entry of "subtasks": a task, or something without a usable id.        *)
Unnamed == [name |-> <<>>, deps |-> {}, twice |-> {}, atomic |-> TRUE, looksUp |-> "answer"]
Roles == {"answer", "lookup", "unreachable lookup"}
Item == [name : Names, deps : SUBSET Names, twice : SUBSET Names, atomic : BOOLEAN,
         looksUp : Roles]

ASSUME LimitsAssumption ==
    MaxDepth \in Nat \ {0} /\ MaxSubtasks \in Nat \ {0} /\ MaxTotalNodes \in Nat \ {0}
ASSUME NamesAssumption == "A" \in Segments /\ Names \subseteq Seq(Segments) \ {<<>>}
ASSUME AnswersAssumption ==
    \A d \in 0..(MaxDepth - 1) : Answers[d] \subseteq Seq(Item \cup {Unnamed})

VARIABLES
    phase,      \* where decompose is, and how it ended
    simple,     \* _is_simple_question of the question
    stack,      \* the calls of _recursive_expand, outermost first
    wanted,     \* the tasks of all answers and their inputs (not kept by the code)
    folded      \* the lookup tasks folded so far (not kept by the code)
vars == <<phase, simple, stack, wanted, folded>>

Smaller(m, n) == IF m < n THEN m ELSE n
-----------------------------------------------------------------------------
(* Graphs. *)
Size(d) == Cardinality(DOMAIN d)
Dependencies(d) == UNION {d[id].deps : id \in DOMAIN d}

(* Where the dict ends: the place of its youngest task.                     *)
LastPlace(d) ==
    LET places == {d[id].at : id \in DOMAIN d}
    IN  CHOOSE n \in places : \A m \in places : m <= n

(* _validate: every edge names a node, and no set of nodes waits for itself. *)
Valid(d) ==
    /\ Dependencies(d) \subseteq DOMAIN d
    /\ \A S \in SUBSET DOMAIN d \ {{}} : \E id \in S : d[id].deps \cap S = {}

(* _decompose_level: the first MAX_SUBTASKS entries that have an id; an id  *)
(* that occurs again replaces the task and keeps its place. Without any,    *)
(* one atomic task. They are the sub-tasks of the task with the lineage of. *)
Parse(answer, of) ==
    LET kept == {i \in 1..Smaller(MaxSubtasks, Len(answer)) : answer[i] # Unnamed}
        Sames(name) == {i \in kept : answer[i].name = name}
        First(name) == CHOOSE i \in Sames(name) : \A k \in Sames(name) : i <= k
        Final(name) == answer[CHOOSE i \in Sames(name) : \A k \in Sames(name) : k <= i]
    IN  IF kept = {}
        THEN [id \in {<<"A">>} |->
                 [of |-> Append(of, id), at |-> 1, deps |-> {}, twice |-> {},
                  atomic |-> TRUE, looksUp |-> "answer", joins |-> {}]]
        ELSE [id \in {answer[i].name : i \in kept} |->
                 LET item == Final(id)
                 IN  [of |-> Append(of, id), at |-> First(id), deps |-> item.deps,
                      twice |-> item.twice \cap item.deps, atomic |-> item.atomic,
                      looksUp |-> item.looksUp, joins |-> {}]]

(* _find_sub_leaves: the tasks no task of the sub-graph depends on.         *)
SubLeaves(sub) == DOMAIN sub \ Dependencies(sub)

(* _merge_sub_dag, the renaming: the id map is filled as the nodes are met, *)
(* so an edge to a node further down keeps its old id.                      *)
Renamed(parent, sub) ==
    [new \in {parent \o id : id \in DOMAIN sub} |->
        LET old == CHOOSE id \in DOMAIN sub : new = parent \o id
            New(n) == IF n \in DOMAIN sub /\ sub[n].at <= sub[old].at THEN parent \o n ELSE n
            Again(n) == \/ n \in sub[old].twice
                        \/ \E m \in sub[old].deps \ {n} : New(m) = New(n)
        IN  [sub[old] EXCEPT !.deps = {New(n) : n \in @},
                             !.twice = {New(n) : n \in {m \in sub[old].deps : Again(m)}}]]

(* The parent is deleted and the sub-graph, already renamed, is appended. A *)
(* task whose id is there already is overwritten, in its place.             *)
Replaced(d, parent, new) ==
    LET others == DOMAIN d \ {parent}
    IN  [id \in others \cup DOMAIN new |->
            IF id \notin DOMAIN new THEN d[id]
            ELSE [new[id] EXCEPT !.at = IF id \in others THEN d[id].at ELSE @ + LastPlace(d)]]

(* depends_on.remove takes one occurrence out; leaves are what is put in.   *)
Rewired(task, parent, leaves) ==
    IF parent \in task.deps
    THEN [task EXCEPT !.deps = (IF parent \in task.twice THEN @ ELSE @ \ {parent}) \cup leaves,
                      !.twice = @ \ {parent}]
    ELSE task

(* Mutant: those that waited for the parent wait for the first leaf.         *)
MergeOneLeaf(d, parent, sub) ==
    LET new == Renamed(parent, sub)
        all == Replaced(d, parent, new)
    IN  [id \in DOMAIN all |->
            Rewired(all[id], parent,
                    {l \in SubLeaves(new) : \A m \in SubLeaves(new) : new[l].at <= new[m].at})]

(* _merge_sub_dag: those that waited for the parent wait for the leaves of  *)
(* the sub-graph. What the parent waited for is forgotten.                  *)
Merge(d, parent, sub) ==
    LET new == Renamed(parent, sub)
        all == Replaced(d, parent, new)
    IN  [id \in DOMAIN all |-> Rewired(all[id], parent, SubLeaves(new))]

Consumers(d, id) == {other \in DOMAIN d : id \in d[other].deps}

(* Mutant: a lookup nobody asked for is folded too.                         *)
FoldableAlone(d, id) == d[id].atomic /\ d[id].looksUp = "lookup"

(* _is_supporting_relation_task and the conditions around it.               *)
Foldable(d, id) ==
    /\ d[id].atomic
    /\ Consumers(d, id) # {}
    /\ d[id].looksUp = "lookup"

(* Mutant: the folded task stays.                                           *)
FoldAwayCopies(d, id) ==
    [other \in DOMAIN d |-> IF other \in Consumers(d, id)
                            THEN [d[other] EXCEPT !.joins = @ \cup {d[id].of}] ELSE d[other]]

(* One round of _fold_supporting_relation_tasks. What a lookup has folded   *)
(* into it so far does not go on to its own consumers.                      *)
FoldAway(d, id) ==
    [other \in DOMAIN d \ {id} |->
        IF other \in Consumers(d, id)
        THEN [d[other] EXCEPT !.joins = @ \cup {d[id].of}, !.deps = @ \ {id},
                              !.twice = @ \ {id}]
        ELSE d[other]]
-----------------------------------------------------------------------------
(* Expansion. A frame is a call of _recursive_expand: the task it decomposes *)
(* by its id in the caller's graph, its full id and its lineage, its own     *)
(* graph, the graph as it was when the tasks to decompose were listed, and   *)
(* those of them still to be decomposed.                                     *)
DepthLimit(depth) ==
    IF depth = 0 /\ simple THEN Smaller(MaxDepth, 2) ELSE MaxDepth

AsAtomic(d) == [id \in DOMAIN d |-> [d[id] EXCEPT !.atomic = TRUE]]
NonAtomic(d) == {id \in DOMAIN d : ~d[id].atomic}
AtLimit(d, depth) == depth >= DepthLimit(depth) - 1 \/ Size(d) >= MaxTotalNodes

(* Mutant: the last level leaves its tasks as the model marked them.        *)
FrameAsMarked(task, path, of, d, depth) ==
    [task |-> task, path |-> path, of |-> of, dag |-> d, listed |-> d,
     todo |-> IF AtLimit(d, depth) THEN {} ELSE NonAtomic(d)]

(* The beginning of _recursive_expand: at a limit everything is atomic.     *)
Frame(task, path, of, d, depth) ==
    LET limit == AtLimit(d, depth)
    IN  [task |-> task, path |-> path, of |-> of,
         dag |-> IF limit THEN AsAtomic(d) ELSE d, listed |-> d,
         todo |-> IF limit THEN {} ELSE NonAtomic(d)]

Innermost == stack[Len(stack)]
Plan == stack[1].dag

(* What an answer asked for: the tasks under the full id path.              *)
AskedIn(d, path, of) ==
    {[id |-> path \o id, of |-> d[id].of, at |-> d[id].at,
      inputs |-> {Append(of, n) : n \in d[id].deps}] : id \in DOMAIN d}

(* _decompose_level: ask the model, build the graph, refuse it if invalid.  *)
(* The task has the id task, the full id path and the lineage of.           *)
Decompose(task, path, of) ==
    LET depth == Len(stack)
    IN  \E answer \in Answers[depth] :
            LET d == Parse(answer, of)
            IN  IF Valid(d)
                THEN /\ phase' = "expand"
                     /\ stack' = Append(stack, Frame(task, path, of, d, depth))
                     /\ wanted' = wanted \cup AskedIn(d, path, of)
                     /\ UNCHANGED <<simple, folded>>
                ELSE phase' = "refused" /\ UNCHANGED <<simple, stack, wanted, folded>>

Init ==
    /\ phase = "start"
    /\ simple \in BOOLEAN
    /\ stack = <<>>
    /\ wanted = {}
    /\ folded = {}

DecomposeQuestion == phase = "start" /\ Decompose(<<>>, <<>>, <<>>)

(* The tasks are decomposed in the order of the dict, from the list made at *)
(* the beginning: also one whose entry was overwritten since.               *)
DecomposeTask ==
    /\ phase = "expand"
    /\ \E task \in Innermost.todo :
           /\ \A other \in Innermost.todo :
                  Innermost.listed[task].at <= Innermost.listed[other].at
           /\ Decompose(task, Innermost.path \o task, Innermost.listed[task].of)

(* A nested call returns and its graph replaces the task it was made for;   *)
(* the caller stops at the node limit, whatever it had still to decompose.  *)
MergeSubDag ==
    /\ phase = "expand"
    /\ Len(stack) > 1
    /\ Innermost.todo = {}
    /\ LET k == Len(stack) - 1
           d == Merge(stack[k].dag, Innermost.task, Innermost.dag)
           rest == IF Size(d) >= MaxTotalNodes THEN {} ELSE stack[k].todo \ {Innermost.task}
       IN  stack' = [i \in 1..k |-> IF i = k THEN [stack[k] EXCEPT !.dag = d, !.todo = rest]
                                             ELSE stack[i]]
    /\ UNCHANGED <<phase, simple, wanted, folded>>

ExpansionDone ==
    /\ phase = "expand"
    /\ Len(stack) = 1
    /\ Innermost.todo = {}
    /\ phase' = "fold"
    /\ UNCHANGED <<simple, stack, wanted, folded>>

FoldLookup ==
    /\ phase = "fold"
    /\ \E id \in DOMAIN Plan :
           /\ Foldable(Plan, id)
           /\ \A other \in DOMAIN Plan :
                  Foldable(Plan, other) => Plan[id].at <= Plan[other].at
           /\ stack' = [stack EXCEPT ![1].dag = FoldAway(@, id)]
           /\ folded' = folded \cup {[id |-> id, of |-> Plan[id].of, deps |-> Plan[id].deps,
                                     joins |-> Plan[id].joins]}
    /\ UNCHANGED <<phase, simple, wanted>>

(* The end of the fold: the plan is validated and returned. ValueError      *)
(* leaves decompose, or IndexError when a lookup that waited for itself was *)
(* folded last: a plan without tasks has no root.                           *)
Deliver ==
    /\ phase = "fold"
    /\ \A id \in DOMAIN Plan : ~Foldable(Plan, id)
    /\ phase' = IF DOMAIN Plan # {} /\ Valid(Plan) THEN "delivered" ELSE "broken"
    /\ UNCHANGED <<simple, stack, wanted, folded>>

Ended == phase \in {"delivered", "refused", "broken"}
Rest == Ended /\ UNCHANGED vars

Next ==
    \/ DecomposeQuestion
    \/ DecomposeTask
    \/ MergeSubDag
    \/ ExpansionDone
    \/ FoldLookup
    \/ Deliver
    \/ Rest

(* The planner is sequential code: while it can go on, it does.             *)
Spec == Init /\ [][Next]_vars /\ WF_vars(Next)
-----------------------------------------------------------------------------
(* y is among the tasks that x directly or indirectly depends on.           *)
WaitsFor(d, x, y) ==
    \A S \in SUBSET DOMAIN d :
        (d[x].deps \subseteq S /\ \A z \in S : d[z].deps \subseteq S) => y \in S

Extends(id, prefix) ==
    Len(prefix) <= Len(id) /\ \A i \in 1..Len(prefix) : id[i] = prefix[i]

(* No other task was asked for under the full id of the task with this      *)
(* lineage, or of one it was expanded into: nothing overwrites them.        *)
Alone(of) ==
    \A v, u \in wanted : Extends(v.of, of) /\ u.id = v.id => u.of = v.of

(* The task was expanded.                                                   *)
Expanded(of) == \E v \in wanted : Extends(v.of, of) /\ v.of # of

(* The edges of a task are renamed with it: its graph is never merged, or it *)
(* was listed after its inputs and none of them was expanded.               *)
Orderly(w) ==
    \/ Len(w.of) = 1
    \/ \A v \in wanted : v.of \in w.inputs => v.at < w.at /\ ~Expanded(v.of)

InPlan == {Plan[id] : id \in DOMAIN Plan}

(* A sub-task the model asked for is not lost: a delivered plan has it, or  *)
(* part of what it was expanded into, or has folded it (planner.py:477).    *)
(* Not promised where two tasks of the answers come to the same id: the     *)
(* later one overwrites the other (planner.py:478). The table of a folded   *)
(* lookup is joined by a task of the plan, or was by a lookup folded later, *)
(* unless a missed edge made the lookup wait for itself (planner.py:468).   *)
TasksKept ==
    phase = "delivered" =>
        /\ \A w \in wanted : Alone(w.of) =>
               \E task \in InPlan \cup folded : Extends(task.of, w.of)
        /\ \A lookup \in folded : lookup.id \notin lookup.deps =>
               \E task \in InPlan \cup folded : lookup.of \in task.joins

(* What an answer said a task needs, the task gets: if it is in the plan as *)
(* the model named it, it joins the table of an input that was folded, and  *)
(* waits for everything an input was expanded into (planner.py:468, 481).   *)
(* Not promised to tasks whose ids coincide with others', to a sub-task     *)
(* listed before its inputs or whose inputs were expanded (their edges may  *)
(* be missed, and even find another task of that name in the outer graph),  *)
(* and for what only a folded lookup waited for.                            *)
InputsKept ==
    phase = "delivered" =>
        \A w \in wanted, id \in DOMAIN Plan : \A input \in w.inputs :
            Plan[id].of = w.of /\ Orderly(w) /\ Alone(w.of) /\ Alone(input) =>
                /\ \A lookup \in folded : lookup.of = input => input \in Plan[id].joins
                /\ (\A lookup \in folded : Extends(lookup.of, input) => lookup.deps = {}) =>
                       \A part \in DOMAIN Plan :
                           Extends(Plan[part].of, input) => WaitsFor(Plan, id, part)

(* A task that needs further decomposition, which the scheduler would skip  *)
(* with all its dependents, is only left in a plan that met the node limit, *)
(* counted before the fold (planner.py:436, 455).                           *)
OpenOnlyAtLimit ==
    phase = "delivered" =>
        \/ \A id \in DOMAIN Plan : Plan[id].atomic
        \/ Size(Plan) + Cardinality(folded) >= MaxTotalNodes

(* decompose returns or raises: nested expansion and folding end.           *)
Termination == <>Ended

(* Answers that are valid graphs give a plan: planner.py:29 says "Non-atomic *)
(* sub-tasks will be further decomposed recursively (up to max_depth)".      *)
ValidAnswersPlanned == phase # "broken"
=============================================================================
