SPECIFICATION Spec
CONSTANTS
  Numbers <- TwoNumbers
  Jobs = 2
  Capacities = {2}
  Guards = {TRUE}
  MaxRounds = 1
  Heads <- OneHead
  Unordered = {1}
  Touching = {}
  Disturbances = {"stop"}
  Most = 1
INVARIANT OwnedUntilDrained
