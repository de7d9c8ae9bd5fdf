SPECIFICATION FairSpec
CONSTANTS
  NTasks = 3
  Workers = 2
  MaxFaults = 2
  MaxRestarts = 2
CHECK_DEADLOCK FALSE
INVARIANT Inv
INVARIANT CheckpointNamesWholeTrials
INVARIANT InterruptKeepsEvidence
INVARIANT RecordedStaysRecorded
PROPERTY IterationEnds
