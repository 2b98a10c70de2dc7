SPECIFICATION FairSpec
CONSTANTS
  a = a
  b = b
  g1 = g1
  g2 = g2
  Train = {a, b}
  Gate = {g1, g2}
  Owners <- AloneOrShared
  Slot = {s1, s2}
  Setups = 2
  Commands = 1
  Memory = 3
  Reserve = 1
  Others = {0, 1}
  MaxStrays = 1
  Crashes = 1
  Fair = {a}
INVARIANTS
  TypeOK
  Exclusive
  PostponedUntouched
  MemoryKept
PROPERTIES
  ServiceSpec
  Retires
