SPECIFICATION CodeSpec
CONSTANTS
  Half = 512
  Width = 10
  FitHalf = 8
  Opt = TRUE
  StackTop = 100
  Programs <- FarPrograms
  Globals <- MCGlobals
INVARIANTS
  ParamsArrive
CHECK_DEADLOCK FALSE
