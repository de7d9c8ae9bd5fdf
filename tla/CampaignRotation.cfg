SPECIFICATION CampaignSpec
CONSTANTS
  Tasks = {a, b, c, d}
  BatchSize = 3
  Cycles = 2
  None = none
  MaxIterations = 3
  MaxDiagnostics = 1
  MaxResumes = 2
SYMMETRY Symmetry
CHECK_DEADLOCK FALSE
INVARIANT CampaignInv
INVARIANT NoTaskIsForgotten
INVARIANT TrialsAreScoredOnce
