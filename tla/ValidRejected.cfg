SPECIFICATION SourceSpec
CONSTANTS
  Half = 4
  Names <- Identifiers
  Numbers <- Numerals
  Sources <- ShortCircuited
  Written <- Cut
  Language <- Derived
INVARIANT RejectsOnlyInvalid
CHECK_DEADLOCK FALSE
