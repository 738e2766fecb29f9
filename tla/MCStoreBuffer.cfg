CONSTANTS
  DEPTH = 4
  w1 = w1
  w2 = w2
  Words <- MCWords
  Lanes <- MCLanes
  Stores <- MCStores
SPECIFICATION Spec
INVARIANTS
  Consistent
  ForwardsYoungest
PROPERTIES
  ImplementsQueue
