SPECIFICATION MCSpec
CONSTANTS
  Half = 4
  Funcs <- AllocateAndRun
  CallerPool <- OneCaller
  CalleePool <- OneCallee
  Gids <- OneGlobal
  Inputs <- Bits
  A0 = 10
INVARIANTS
  TypeOK
  LivenessExact
  NoClobber
  SurvivesCalls
  ParamsApart
  HomesPacked
  RunTypeOK
  Agree
PROPERTIES
  Terminates
  ImplementsIR
CHECK_DEADLOCK FALSE
