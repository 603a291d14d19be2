------------------------------- MODULE MCAnswer -------------------------------
(* Small instances of Answer for TLC.                                         *)
EXTENDS Answer

ThreeTasks == 1..3

(* Every graph of three tasks, up to renaming, and one of two, with and       *)
(* without a join key between two of them.                                    *)
Shapes == {f \in [ThreeTasks -> SUBSET ThreeTasks] :
               \A t \in ThreeTasks : f[t] \subseteq 1..(t - 1)}
SmallPlans ==
    {[tasks |-> ThreeTasks, deps |-> f, joins |-> j, weak |-> w] :
         f \in Shapes, j \in {{}, {{1, 2}}, {{2, 3}}}, w \in BOOLEAN}
    \cup {[tasks |-> {1, 2}, deps |-> [t \in ThreeTasks |-> {}],
           joins |-> {}, weak |-> TRUE]}

Made(ending, merit, trust, ambiguity, odd) ==
    [ending |-> ending, merit |-> merit, trust |-> trust,
     ambiguity |-> ambiguity, odd |-> odd]

(* Evidence and confidence disagree: the better candidate is trusted less.    *)
SmallOutcomes ==
    {Made("solved", 2, 40, 0, FALSE), Made("solved", 1, 90, 0, FALSE),
     Made("solved", 1, 70, 20, TRUE),
     Made("tied", 0, 60, 100, FALSE), Made("tied", 0, 80, 100, TRUE),
     Made("exhausted", 0, 0, 100, FALSE), Made("raised", 0, 0, 0, FALSE),
     Made("blocked", 0, 0, 0, FALSE)}
=============================================================================
