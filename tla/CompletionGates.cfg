SPECIFICATION Spec
CONSTANTS
  Families <- MCFamilies
  MaxTurns = 3
  MaxCalls = 2
CHECK_DEADLOCK FALSE
INVARIANT Inv
INVARIANT FailuresAreRepaired
INVARIANT ChangesAreChecked
INVARIANT RememberedContractsAreChecked
