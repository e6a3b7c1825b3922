SPECIFICATION Spec
CONSTANTS
  Callers = {c1, c2}
  SessionIds = {s1, s2}
  ChangeSets = {buy}
  Keys = {k1, k2}
  ExpectedVersions = {2}
  MaxAttempts = 2
  MaxFaults = 1
  NoSession = noSession
  NoChanges = noChanges
  NoKey = noKey
  NoVersion = noVersion
  NoRequest = noRequest
  NoReply = noReply
  NoResponse = noResponse
SYMMETRY Renamings
INVARIANTS
  ChangesAreAppliedOnce
  AnswersTellOneVersion
  RefusalsCreateNothing
PROPERTIES
  RepeatsAreReplayed
CHECK_DEADLOCK FALSE
