SPECIFICATION Spec
CONSTANTS
  MAX_BYTES = 3
  MAX_ENTRIES = 2
  MAX_INDEX_BYTES = 3
  Reserve = 2
  Sizes = {2}
  LineSizes = {1, 3}
  MaxCaptures = 3
  MaxRequests = 2
  MaxStdout = 1
CHECK_DEADLOCK FALSE
INVARIANT Inv
INVARIANT NoWorkerIsLeftAlone
INVARIANT OneActionAfterCancellation
INVARIANT RefsNameTheirResults
INVARIANT CompleteMeansUndisturbed
PROPERTY CancellationEndsTheRun
