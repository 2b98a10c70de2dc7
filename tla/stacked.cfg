SPECIFICATION FairSpec
CONSTANTS
  Depth = 3
  Starts <- StartsOfThree
  MaxPulls = 7
  Disturbances = {"fail", "lost", "push", "close", "unread", "crash"}
  Most = 2
INVARIANTS
  NothingLost
  LandsAfterParent
PROPERTIES
  HeldAsOrphan
  Settles
