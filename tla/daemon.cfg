SPECIFICATION FairSpec
CONSTANTS
  Numbers <- TwoNumbers
  Jobs = 2
  Capacities = {0, 1, 3}
  Guards = {TRUE, FALSE}
  MaxRounds = 1
  Heads <- OnePush
  Unordered = {1}
  Touching = {1}
  Disturbances = {"fail", "push", "close", "commit", "reload", "forget", "stop", "crash"}
  Most = 1
INVARIANTS
  Custody
  HoldsJudged
  StoppedTrainStops
PROPERTIES
  SuccessorAccepted
  HoldStands
  ReadAgainWhenDue
  OnlyReadHeadsLand
  StopExits
