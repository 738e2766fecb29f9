SPECIFICATION Spec
CONSTANTS
  FRAC = 3
  BIAS = 14
  XLEN = 7
  Requests <- MCLargeNumbers
INVARIANTS LargeSaturates
