SPECIFICATION Spec
CONSTANTS
  Flows = {returns}
  Binding = {returns}
  Calculations = {c1}
  MaxPolls = 2
  NoCalculation = none
INVARIANTS
  NonsenseIsInvalidResponse
CHECK_DEADLOCK FALSE
