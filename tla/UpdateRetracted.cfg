SPECIFICATION Spec
CONSTANTS
  Updates = {u, v}
  Regions = {a, b}
  Committed = committed
  Local = local
  Nothing = nothing
  MaxRestarts = 0
SYMMETRY Symmetry
CHECK_DEADLOCK FALSE
INVARIANT RetractedUpdateIsOut
