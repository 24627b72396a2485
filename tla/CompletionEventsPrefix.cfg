CONSTANTS
  Calls = {c1, c2}
  Sizes <- MCSizes
  MaxBurst = 2
  MaxEvents = 2
  MaxBytes = 3
SPECIFICATION Spec
CHECK_DEADLOCK FALSE
INVARIANTS
  FirstRetained
