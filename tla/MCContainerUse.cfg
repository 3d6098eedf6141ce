SPECIFICATION Spec
CONSTANTS
  Input = {0, 1}
  MaxIndex = 1
  MaxFrame = 2
  MaxBatch = 2
INVARIANTS
  Inv
  TriggerIsEarliestContradiction
