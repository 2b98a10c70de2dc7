SPECIFICATION Spec
CONSTANTS
  Numbers <- TwoNumbers
  Jobs = 1
  Capacities = {1}
  Guards = {TRUE}
  MaxRounds = 2
  Heads <- OnePush
  Unordered = {1}
  Touching = {1}
  Disturbances = {"push"}
  Most = 1
PROPERTY OnlyReadHeadsLand
