------------------------------ MODULE MCPlanner ------------------------------
(* Small instances of Planner for TLC.                                       *)
EXTENDS Planner

Letters == {"A", "B", "C"}
A == <<"A">>
B == <<"B">>
C == <<"C">>
AB == <<"A", "B">>
AllNames == {A, B, C, AB}

Task(name, deps, atomic, looksUp) ==
    [name |-> name, deps |-> deps, twice |-> {}, atomic |-> atomic, looksUp |-> looksUp]

(* What a task of an answer may be: a lookup too may wait for others.        *)
Kinds(name, others) ==
    {Task(name, deps, atomic, "answer") : deps \in SUBSET others, atomic \in BOOLEAN}
    \cup {Task(name, deps, TRUE, "lookup") : deps \in SUBSET others}

(* Two tasks in any order of their edges, three where lookups form a chain   *)
(* or a task waits for two, one whose id is what a sub-task's will be, an id *)
(* given twice, a dependency listed twice, and answers without a task.       *)
TopAnswers ==
    {<<a, b>> : a \in Kinds(A, {B}), b \in Kinds(B, {A})}
    \cup {<<Task(A, {}, a, "answer"), b, Task(C, deps, TRUE, "answer")>> :
              a \in BOOLEAN, b \in Kinds(B, {A}), deps \in SUBSET {A, B}}
    \cup {<<Task(A, {}, FALSE, "answer"), Task(AB, deps, atomic, "answer")>> :
              deps \in SUBSET {A}, atomic \in BOOLEAN}
    \cup {<<Task(AB, {}, FALSE, "answer"), Task(A, deps, FALSE, "answer")>> :
              deps \in SUBSET {AB}}
    \cup {<<Task(A, {}, TRUE, role), Task(B, {}, TRUE, "lookup"), Task(A, {B}, TRUE, role)>> :
              role \in {"answer", "lookup", "unreachable lookup"}}
    \cup {<<Task(A, {}, FALSE, "answer"),
            [Task(B, {A}, TRUE, "answer") EXCEPT !.twice = {A}]>>,
          <<>>, <<Unnamed>>}

(* The same names on every level; the last level marks a task as non-atomic. *)
SubAnswers ==
    {<<a, b>> : a \in Kinds(A, {B}), b \in Kinds(B, {A})}

LastAnswers ==
    {<<Task(A, {}, TRUE, "answer"), Task(B, {}, TRUE, "answer")>>,
     <<Task(A, {B}, TRUE, "answer"), Task(B, {}, TRUE, "answer")>>,
     <<Task(A, {}, FALSE, "answer"), Task(B, {A}, TRUE, "answer")>>}

NestedAnswers ==
    [d \in 0..2 |-> IF d = 0 THEN TopAnswers ELSE IF d = 1 THEN SubAnswers ELSE LastAnswers]

(* Three levels, each answer listing a task after those it depends on.       *)
OrderedAnswers ==
    [d \in 0..2 |-> {<<Task(A, {}, a, "answer"), Task(B, deps, b, "answer")>> :
                         a, b \in BOOLEAN, deps \in SUBSET {A}}]
=============================================================================
