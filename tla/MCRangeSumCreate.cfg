CONSTANTS
  NaN = NaN
  ArgLists <- MCArgLists
  Data <- MCData
  IntMax <- MCIntMax
  THRSL_MIN <- MCTHRSL_MIN
  Leftovers <- MCLeftovers
SPECIFICATION Spec
INVARIANT PrintedIsTheSum
CHECK_DEADLOCK FALSE
