---------------------------- MODULE MCNodeSolve -----------------------------
(* Small instances of NodeSolve for TLC: the lexicographically best signal *)
(* vector has the lower posterior.                                         *)
EXTENDS NodeSolve

MCSignals == {<<100, 50, 0, 0, 100>>, <<70, 100, 100, 100, 100>>}
=============================================================================
