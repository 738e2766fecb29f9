SPECIFICATION Spec
CHECK_DEADLOCK FALSE
CONSTANTS
  Type <- MCType
  Strings <- MCStrings
  ChoiceSymbols = {}
  ExprValue <- expr_calc_value
  Leaves <- MCLeaves
  MaxOperands = 3
  Order <- MCOrder
  DepsOf <- MCDepsOf
INVARIANTS
  SimplificationsKeepValue
  NothingShownIsLost
