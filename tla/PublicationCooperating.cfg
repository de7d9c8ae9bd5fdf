SPECIFICATION Spec
CONSTANTS
  Writers = {w1, w2, w3}
  Inos = {i1, i2, i3}
  Original = original
  Foreign = {}
  Special = {}
  Torn = torn
  Missing = missing
  Anything = anything
  Nobody = nobody
  MaxFaults = 2
INVARIANT Inv
INVARIANT DurablePublication
PROPERTY ImplementsConditionalFile
SYMMETRY Symmetry
CHECK_DEADLOCK FALSE
