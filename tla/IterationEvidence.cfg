SPECIFICATION Spec
CONSTANTS
  NTasks = 3
  Workers = 2
  MaxFaults = 1
  MaxRestarts = 0
CHECK_DEADLOCK FALSE
INVARIANT EvidenceIsKept
