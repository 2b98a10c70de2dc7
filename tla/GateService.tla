---------------------------- MODULE GateService ----------------------------
(***************************************************************************)
(* What the trains of one host are promised of their gates: a gate works   *)
(* in a place of the host that no other gate works in, it is green or red  *)
(* only after it worked, and it is put off for a stop request only when it *)
(* never worked.  Gates implements it.                                     *)
(***************************************************************************)

CONSTANTS Gate, Place, Nowhere   \* the gates asked for, where they may work
VARIABLES phase, place, verdict

Init ==
  /\ phase = [g \in Gate |-> "asked"] /\ verdict = [g \in Gate |-> "none"]
  /\ place = [g \in Gate |-> Nowhere]

Free(s) == \A g \in Gate : phase[g] = "working" => place[g] # s

Begin(g, s) ==
  /\ phase[g] = "asked" /\ Free(s)
  /\ phase' = [phase EXCEPT ![g] = "working"]
  /\ place' = [place EXCEPT ![g] = s]
  /\ UNCHANGED verdict

End(g, answer) ==
  /\ \/ phase[g] = "working" /\ answer \in {"green", "red", "unread"}
     \/ phase[g] = "asked" /\ answer \in {"unread", "postponed"}
  /\ phase' = [phase EXCEPT ![g] = "ended"]
  /\ place' = [place EXCEPT ![g] = Nowhere]
  /\ verdict' = [verdict EXCEPT ![g] = answer]

\* The process that asked dies, and its successor asks again.
AskAgain(lost) ==
  /\ phase' = [g \in Gate |-> IF g \in lost THEN "asked" ELSE phase[g]]
  /\ place' = [g \in Gate |-> IF g \in lost THEN Nowhere ELSE place[g]]
  /\ verdict' = [g \in Gate |-> IF g \in lost THEN "none" ELSE verdict[g]]

Next ==
  \/ \E g \in Gate : \/ \E s \in Place : Begin(g, s)
                     \/ \E answer \in {"green", "red", "unread", "postponed"} : End(g, answer)
  \/ \E lost \in SUBSET Gate : AskAgain(lost)

Spec == Init /\ [][Next]_<<phase, place, verdict>>
=============================================================================
