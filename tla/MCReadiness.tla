---- MODULE MCReadiness ----
(* Small instances of Readiness for TLC. *)
EXTENDS Readiness, TLC

\* Probes are interchangeable: used by the run without liveness.
Symmetry == Permutations(Probes)
=============================================================================
