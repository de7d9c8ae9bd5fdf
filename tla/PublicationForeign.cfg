SPECIFICATION Spec
CONSTANTS
  Writers = {w1, w2}
  Inos = {i1, i2, i3}
  Original = original
  Foreign = {f1, socket}
  Special = {socket}
  Torn = torn
  Missing = missing
  Anything = anything
  Nobody = nobody
  MaxFaults = 1
SYMMETRY Symmetry
CHECK_DEADLOCK FALSE
INVARIANT ExchangeKeepsBothCopies
INVARIANT EditSupersedesItsBasis
