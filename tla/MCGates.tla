------------------------------ MODULE MCGates ------------------------------
(* Values of the constants of Gates for TLC. *)
EXTENDS Gates

CONSTANTS a, b, g1, g2

\* All gates of one train, or the gate g1 at a neighbour with the same pool.
AloneOrShared == {[g \in Gate |-> a]} \union {[g \in Gate |-> IF g = g1 THEN b ELSE a]}
=============================================================================
