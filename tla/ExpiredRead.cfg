SPECIFICATION ReadSpec
CONSTANTS
  w1 = w1 c1 = c1 t1 = t1 t2 = t2 k1 = k1 i1 = i1 r1 = r1 b1 = b1 b2 = b2 caller = caller
  Workers = {w1}
  Clients = {c1}
  Readers = {caller}
  PageLimit = 2
  Tenants = {t1, t2}
  Keys = {k1}
  JobIds = {1}
  Inputs = {i1}
  Revisions = {r1}
  Builds = {b1, b2}
  Catalogue <- DroppedCatalogue
  Evaluable <- OneEvaluable
  RowCount <- ThreeRows
  Lease <- UnitLease
  Retention = 1
  CleanupLimit = 1
  Skew = 0
  MaxTime = 2
  SubmitUntil = 1
  CrashUntil = 1
  MaxClaims = 2
  NoRevision = NoRevision
  NoJob = NoJob
  NoClaim = NoClaim
  NoRequest = NoRequest
  NoEvaluation = NoEvaluation
PROPERTIES ExpiredExposesNoRows
