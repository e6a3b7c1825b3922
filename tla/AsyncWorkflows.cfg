SPECIFICATION FairSpec
CONSTANTS
  Flows = {returns, contribution}
  Binding = {returns}
  Calculations = {c1, c2}
  MaxPolls = 2
  NoCalculation = none
INVARIANTS
  ResultsAreOwn
  CountedAsOne
  BudgetIsUsed
PROPERTIES
  FlowsEnd
CHECK_DEADLOCK FALSE
