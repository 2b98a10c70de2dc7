------------------------------ MODULE MCTrain ------------------------------
(***************************************************************************)
(* Instances of Train for TLC: three pull requests, each with a branch of  *)
(* its own or one on all; a disturbance of a budget happens at most once.  *)
(***************************************************************************)
EXTENDS Train

ThreePRs == 1..3

Apart(prs) == [p \in prs |-> {p}]
ThreeApart == {Apart(ThreePRs)}
\* ... or the branch of 3 holds the work of all.
OneOnAll == ThreeApart \union {[Apart(ThreePRs) EXCEPT ![3] = ThreePRs]}

NoClash == {}
\* What arrives from outside and pull request 2 cannot be merged, nor can 1 and 2 together.
BothClash == {{0, 2}, {1, 2}}

Once(events) == [e \in Slip |-> IF e \in events THEN 1 ELSE 0]
Undisturbed == [m \in Modes |-> {Once({})}]
\* What disturbs a run: one of these groups, each of its events at most once.
AnyOnce ==
  LET Groups(m) ==
        CASE m = "plain"   -> {{"fail", "push", "ack"}, {"fail", "outside", "ack"},
                              {"stop", "outside", "push", "ack"}}
          [] m = "decided" -> {{"fail", "stop", "label"}, {"outside", "stop", "label"}, {"fail", "outside"}}
          [] m = "dry"     -> {{"fail", "stop", "outside"}}
  IN [m \in Modes |-> {Once(events) : events \in Groups(m)}]
=============================================================================
