SPECIFICATION OptimizerSpec
CONSTANTS
  Half = 16
  Width = 5
  FitHalf = 4
  Steps = 40
  Opt = TRUE
  MaxInsts = 6
  Sweeps = 5
  Modules <- MishandledModules
  Sources0 <- Mishandled
  Envs <- MCEnvs
  Globals <- MCGlobals
INVARIANT KeepsSemantics
CHECK_DEADLOCK FALSE
