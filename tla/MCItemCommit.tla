---- MODULE MCItemCommit ----
(* A small instance of ItemCommit for TLC. *)
EXTENDS ItemCommit, TLC

CONSTANTS k1, j1, j2, i1, i2, i3

\* All items have the same input and policy, so that they share a cache key.
SameKey == [x \in Jobs \X Items |-> k1]

\* One job has two items that run side by side, the other has one.
TwoAndOne == (j1 :> {i1, i2}) @@ (j2 :> {i3})

\* The two items of j1 are interchangeable: no property is a liveness property.
Symmetry == Permutations({i1, i2})
===============================
