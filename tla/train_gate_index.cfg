SPECIFICATION Spec
CONSTANTS
  PR <- ThreePRs
  Stackings <- ThreeApart
  Clash <- NoClash
  Jobs = 2
  FamilySizes = {2}
  MaxRounds = 1
  Modes = {"plain"}
  Budget <- Undisturbed
INVARIANT RedTreeNeverLanded
