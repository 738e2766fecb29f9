SPECIFICATION Spec
CONSTANTS
  FRAC = 3
  BIAS = 14
  XLEN = 7
  Requests <- MCRequests
INVARIANTS QuickExact ConversionRounded QuotientRounded RootRounded FusedRounded RemainderBounded ResidueExact
PROPERTIES NothingLost
