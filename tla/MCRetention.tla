------------------------------ MODULE MCRetention ------------------------------
(* Small instances of Retention for TLC. *)
EXTENDS Retention, TLC

\* Nothing distinguishes jobs, artifacts or inputs; used without liveness.
Symmetry == Permutations(Jobs) \cup Permutations(Artifacts) \cup Permutations(Inputs)
===============================================================================
