SPECIFICATION FairSpec
CONSTANTS
  PR <- ThreePRs
  Stackings <- OneOnAll
  Clash <- BothClash
  Jobs = 1
  FamilySizes = {1, 2}
  MaxRounds = 2
  Modes = {"plain", "decided", "dry"}
  Budget <- AnyOnce
INVARIANTS
  HeldNeverMerged
  NothingUnseenMerged
  PartialLandingMarked
  Accounted
  RedTreeNeverLanded
  DecidedOnOwnGate
  LandsOnLanded
  HeldForItself
  GatesOwned
  LandedAsPlanned
  MismatchStops
PROPERTIES
  Termination
  KeepsGatedBase
