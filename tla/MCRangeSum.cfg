CONSTANTS
  NaN = NaN
  ArgLists <- MCArgLists
  Data <- MCData
  IntMax <- MCIntMax
  THRSL_MIN <- MCTHRSL_MIN
  Leftovers <- MCLeftovers
SPECIFICATION Spec
INVARIANTS
  SplitExact
  TotalsAgree
CHECK_DEADLOCK FALSE
