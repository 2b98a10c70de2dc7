SPECIFICATION FairSpec
CONSTANTS
  Depth = 2
  Starts = {{2}}
  MaxPulls = 4
  Disturbances = {}
  Most = 0
PROPERTY RetargetedOnceMerged
