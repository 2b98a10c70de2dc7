CONSTANTS
  Sources = {s1, s2}
  RebuiltHead = rebuilt
  Work = {w1}
  Reasons = {io, cancelled}
  Changes = 1
  Slips = 1
  Late = 1
  MostCounted = 4
SPECIFICATION FairSpec
INVARIANTS DelayJustified
PROPERTIES DelayKept ReadAgain
