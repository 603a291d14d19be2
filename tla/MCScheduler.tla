---------------------------- MODULE MCScheduler -----------------------------
(* Small instances of Scheduler for TLC.                                   *)
EXTENDS Scheduler, Sequences

(* Every acyclic graph on three nodes is, up to renaming, one whose edges  *)
(* point from a higher to a lower number.                                  *)
ThreeNodes == 1..3
Shapes == {f \in [ThreeNodes -> SUBSET ThreeNodes] :
               \A n \in ThreeNodes : f[n] \subseteq 1..(n - 1)}

PlainDAGs == {[deps |-> f, atomic |-> ThreeNodes, skewed |-> {}] : f \in Shapes}

(* One node may be left non-atomic, or have a malformed depends_on.        *)
OddDAGs ==
    PlainDAGs
    \cup {[deps |-> f, atomic |-> ThreeNodes \ {n}, skewed |-> {}] :
              f \in Shapes, n \in ThreeNodes}
    \cup UNION {{[deps |-> f, atomic |-> ThreeNodes, skewed |-> {n}] :
                     n \in {m \in ThreeNodes : f[m] # {}}} : f \in Shapes}

(* Four tasks: a diamond, two independent chains, and a chain whose second *)
(* task also feeds the last.                                               *)
FourNodes == 1..4
FourDAGs == {[deps |-> f, atomic |-> FourNodes, skewed |-> {}] :
                 f \in {<<{}, {1}, {1}, {2, 3}>>,
                        <<{}, {}, {1}, {2}>>,
                        <<{}, {1}, {2}, {2, 3}>>}}

(* Three tasks beside a fourth that is never run, and the graphs of four.  *)
AllDAGs ==
    {[d EXCEPT !.deps = Append(@, {})] : d \in OddDAGs} \cup FourDAGs
=============================================================================
