CONSTANTS
  Capacity = 3
  Elem = {a, b}
  None = none
SPECIFICATION Spec
INVARIANT IterationVisitsAll
