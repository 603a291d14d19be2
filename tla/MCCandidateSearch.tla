------------------------- MODULE MCCandidateSearch --------------------------
(* Small instances of CandidateSearch for TLC, for a task with a grain,     *)
(* four dimensions and a time range.                                       *)
EXTENDS CandidateSearch

(* Best lexicographically with a low posterior, a step below it on the     *)
(* first signal with a high one, and two below that on the second or third *)
(* signal, with a posterior exactly the default margin (75) lower.         *)
MCSignals == {<<100, 50, 0, 0, 100>>, <<70, 100, 100, 100, 100>>,
              <<70, 50, 75, 100, 100>>, <<70, 100, 25, 100, 100>>}
=============================================================================
