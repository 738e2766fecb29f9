CONSTANTS
  NUM_BLOCKS = 2
  BEATS_PER_BLOCK = 2
  MEM_BLOCKS = 3
  BUFFER_DEPTH = 2
  RESET_PC = 0
  Bits <- MCBits
  WideBits <- MCWide
  Code <- MCCode
  Targets = {3, 8}
  Stores <- MCStores
  QuietFence = TRUE
SPECIFICATION Spec
INVARIANTS
  InstructionsAreWhole
PROPERTIES
  ImplementsStream
  RedirectTaken
  InstructionsArrive
