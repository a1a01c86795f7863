SPECIFICATION CodeSpec
CONSTANTS
  Half = 512
  Width = 10
  FitHalf = 20
  Opt = TRUE
  StackTop = 180
  Programs <- MCPrograms
  Globals <- MCGlobals
INVARIANTS
  CodeTypeOK
  KeepsPromises
  CallersKept
  ParamsArrive
  MeansIR
PROPERTIES
  Ends
CHECK_DEADLOCK FALSE
