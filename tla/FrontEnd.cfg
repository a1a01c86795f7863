SPECIFICATION FrontSpec
CONSTANTS
  Half = 4
  Asts <- AllFunctions
  Stmts <- AllStmts
  Exprs <- AllExprs
  Free <- FreeOf
  Declares <- DeclaresOf
  Exposes <- ExposesOf
  InBlocks <- InBlocksOf
  Leaves <- LeavesOf
  Gids <- OneGlobal
  Inputs <- Bits
  MaxEvents = 5
  Fuel = 6
INVARIANTS
  GenTypeOK
  NoBlockLost
  LowersToIR
  SameEvents
PROPERTIES
  SameEnd
CHECK_DEADLOCK FALSE
