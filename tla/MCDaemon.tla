------------------------------ MODULE MCDaemon ------------------------------
(* Values of the constants of Daemon for TLC. *)
EXTENDS Daemon

TwoNumbers == 1..2
OneHead  == [n \in TwoNumbers |-> 1]
OnePush  == [n \in TwoNumbers |-> IF n = 1 THEN 2 ELSE 1]
TwoHeads == [n \in TwoNumbers |-> 2]
=============================================================================
