SPECIFICATION Spec
CONSTANTS
  Requests = {q1, q2}
  Configurations <- SmallConfigurations
  Shapes <- SmallShapes
  MaxChanges = 1
SYMMETRY RequestSymmetry
INVARIANTS
  EffectsAreAuthorised
  RefusalsAreTimely
  AuditTellsTheDecision
  PoolsServeRequests
CHECK_DEADLOCK FALSE
