CONSTANTS
  N = 2
  Regs <- MCRegs
  Program <- MCProgram
  MissKinds = {"jump"}
  BYPASS_DEPTH = 2
  DIV_STEPS = 1
  FENCE_CYCLES = 5
SPECIFICATION Spec
PROPERTIES
  StageReopens
