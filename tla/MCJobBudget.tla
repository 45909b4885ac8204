------------------------------ MODULE MCJobBudget ------------------------------
(* A small instance of JobBudget for TLC. *)
EXTENDS JobBudget

\* A picture, a sound and a film.  With limits of 6, 4 and 4 two pictures and two
\* sounds fill the budgets, two films and one of each too; others exceed them.
MCShapes == {[bytes |-> 1, pixels |-> 2, ms |-> 0], [bytes |-> 1, pixels |-> 0, ms |-> 2],
             [bytes |-> 2, pixels |-> 1, ms |-> 1]}
===============================================================================
