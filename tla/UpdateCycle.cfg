SPECIFICATION Spec
CONSTANTS
  Updates = {u, v, w}
  Regions = {a, b}
  Committed = committed
  Local = local
  Nothing = nothing
  MaxRestarts = 1
SYMMETRY Symmetry
CHECK_DEADLOCK FALSE
INVARIANT Inv
INVARIANT LastAcceptedIsReversible
INVARIANT LocalWorkIsRecoverable
