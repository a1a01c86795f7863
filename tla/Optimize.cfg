SPECIFICATION OptimizerSpec
CONSTANTS
  Half = 16
  Width = 5
  FitHalf = 4
  Steps = 40
  Opt = TRUE
  MaxInsts = 6
  Sweeps = 5
  Modules <- AllModules
  Sources0 <- OneDefinition
  Envs <- MCEnvs
  Globals <- MCGlobals
INVARIANTS
  InlineTypeOK
  InlineInitialised
  OneSweep
  SameMeaning
  SameBehaviour
  MagicHeld
  UnsignedRight
  StaysWellFormed
  NothingLeft
CHECK_DEADLOCK FALSE
