SPECIFICATION Spec
CONSTANTS
  MaxCount = 3
  MaxLost = 2
  Calls <- MCCalls
  Threshold = 9
  KeepMessages = 5
  KeepTail = 2
  KeepRecent = 1
  MaxChars = 2
  PrunedSize = 1
  ResultSizes = {1, 4}
  WorkSizes = {0, 1}
  Rounds <- MCRounds
  MaxPrompts = 1
  MaxMessages = 9
CHECK_DEADLOCK FALSE
INVARIANT Inv
INVARIANT RequestsAreWellFormed
INVARIANT HistoryIsExact
INVARIANT RoundsAreShownOrAnnounced
INVARIANT RetriesShrink
INVARIANT UsageIsExactOrUnknown
