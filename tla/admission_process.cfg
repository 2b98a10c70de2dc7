CONSTANTS
  Pids = {p1, p2, p3}
  Forks = 2
  Births = 1
  Faults = 1
SPECIFICATION FairSpec
INVARIANTS TargetsAreChildren FamilyEnded VerdictUndisturbed
PROPERTIES Ends
CHECK_DEADLOCK FALSE
