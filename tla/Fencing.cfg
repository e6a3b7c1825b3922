SPECIFICATION Spec
CONSTANTS
  w1 = w1 w2 = w2 c1 = c1 c2 = c2 t1 = t1 t2 = t2 k1 = k1 k2 = k2
  i1 = i1 i2 = i2 r1 = r1 r2 = r2 b1 = b1 b2 = b2
  Workers = {w1, w2}
  Clients = {c1}
  Tenants = {t1}
  Keys = {k1}
  JobIds = {1}
  Inputs = {i1}
  Revisions = {r1, r2}
  Builds = {b1, b2}
  Catalogue <- RollingCatalogue
  Evaluable <- RollingEvaluable
  RowCount <- TwoRows
  Lease <- UnitLease
  Retention = 1
  CleanupLimit = 1
  Skew = 1
  MaxTime = 2
  SubmitUntil = 1
  CrashUntil = 1
  MaxClaims = 3
  NoRevision = NoRevision
  NoJob = NoJob
  NoClaim = NoClaim
  NoRequest = NoRequest
  NoEvaluation = NoEvaluation
SYMMETRY WorkerSymmetry
INVARIANTS TypeOK LockedReadsHold OneClaimant EvidenceIsWhole
PROPERTIES LeaseIsRespected RetainedUntilExpiry ImplementsLifecycle
