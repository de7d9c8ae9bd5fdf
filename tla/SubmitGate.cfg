SPECIFICATION Spec
CONSTANTS
  s1 = s1
  s2 = s2
  i1 = i1
  i2 = i2
  r1 = r1
  r2 = r2
  v1 = v1
  v2 = v2
  a = a
  aIntent = aIntent
  Submitters = {s1, s2}
  Campaigns = {a, aIntent}
  Paths <- MCPaths
  IntentPath <- MCIntentPath
  ResultPath <- MCResultPath
  FreshIntent <- MCFreshIntent
  FreshResult <- MCFreshResult
  Requests <- MCRequests
  Versions = {v1, v2, broken}
  Valid = {v1, v2}
  None = none
  MaxFaults = 2
  MaxChanges = 1
SYMMETRY Symmetry
CHECK_DEADLOCK FALSE
INVARIANT Inv
INVARIANT AtMostOneUpload
INVARIANT RecordsTellTheTruth
INVARIANT ReturnedVerdictIsDurable
INVARIANT UploadedAsValidated
