---- MODULE MCJobLifecycle ----
(* Small instances of JobLifecycle for TLC. *)
EXTENDS JobLifecycle, TLC

\* Jobs, requests and workers are interchangeable: sound for the safety runs.
Symmetry == Permutations(Jobs) \cup Permutations(Workers) \cup Permutations(Requests)
===============================
