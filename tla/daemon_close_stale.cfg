SPECIFICATION Spec
CONSTANTS
  Numbers <- TwoNumbers
  Jobs = 1
  Capacities = {1}
  Guards = {TRUE}
  MaxRounds = 1
  Heads <- OnePush
  Unordered = {1}
  Touching = {1}
  Disturbances = {"push", "commit"}
  Most = 2
PROPERTY ClosedIsCarried
