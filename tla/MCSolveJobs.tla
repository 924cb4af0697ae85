---------------------------- MODULE MCSolveJobs ----------------------------
(* The model-checking instance of SolveJobs.  Jobs, workers and analyses   *)
(* are interchangeable; the symmetry is used for the safety run only.      *)
EXTENDS SolveJobs, TLC

Symmetry == Permutations(Jobs) \cup Permutations(Workers)
              \cup Permutations(Analyses)
=============================================================================
