SPECIFICATION Spec
CONSTANT Numbers = {2, 3, 5, 7, 8}
INVARIANTS
  ScoresExact
  MaximumChosen
