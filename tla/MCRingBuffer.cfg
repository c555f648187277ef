CONSTANTS
  Capacity = 3
  Elem = {a, b}
  None = none
SPECIFICATION Spec
INVARIANTS TypeOK Consistent FrontAndBack
PROPERTY RefinesDeque
