SPECIFICATION EmitSpec
CONSTANTS
  Half = 16
  Width = 5
  FitHalf = 4
  Cases <- MCCases
INVARIANTS
  UnsignedDivides
CHECK_DEADLOCK FALSE
