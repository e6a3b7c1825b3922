SPECIFICATION FairSpec
CONSTANTS
  w1 = w1 w2 = w2 c1 = c1 c2 = c2 t1 = t1 t2 = t2 k1 = k1 k2 = k2
  i1 = i1 i2 = i2 r1 = r1 r2 = r2 b1 = b1 b2 = b2
  Workers = {w1}
  Clients = {c1}
  Tenants = {t1}
  Keys = {k1, k2}
  JobIds = {1, 2}
  Inputs = {i1}
  Revisions = {r1}
  Builds = {b1}
  Catalogue <- SteadyCatalogue
  Evaluable <- SteadyEvaluable
  RowCount <- TwoRows
  Lease <- UnitLease
  Retention = 2
  CleanupLimit = 1
  Skew = 0
  MaxTime = 2
  SubmitUntil = 2
  CrashUntil = 2
  MaxClaims = 6
  NoRevision = NoRevision
  NoJob = NoJob
  NoClaim = NoClaim
  NoRequest = NoRequest
  NoEvaluation = NoEvaluation
PROPERTIES JobsFinish JobsArePurged
