------------------------------ MODULE MCStacked ------------------------------
(* Values of the constants of Stacked for TLC. *)
EXTENDS Stacked

Together == {1, 2, 3}
ChildFirst == {2}
StartsOfThree == {Together, ChildFirst}
=============================================================================
