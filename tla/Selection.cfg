SPECIFICATION EmitSpec
CONSTANTS
  Half = 16
  Width = 5
  FitHalf = 4
  Cases <- MCCases
INVARIANTS
  AlwaysSelects
CHECK_DEADLOCK FALSE
