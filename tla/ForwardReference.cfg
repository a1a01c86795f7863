SPECIFICATION SourceSpec
CONSTANTS
  Half = 4
  Names <- Identifiers
  Numbers <- Numerals
  Sources <- Forward
  Written <- Cut
  Language <- Derived
INVARIANT DeclaredBeforeUse
CHECK_DEADLOCK FALSE
