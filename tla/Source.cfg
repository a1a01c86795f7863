SPECIFICATION SourceSpec
CONSTANTS
  Half = 4
  Names <- Identifiers
  Numbers <- Numerals
  Sources <- Texts
  Written <- Cut
  Language <- Derived
INVARIANTS
  LexesAsWritten
  AcceptsGrammar
  ReadsLikeC
  BindsLexically
  FoldsToValue
  JudgesRightly
  DataAsDeclared
PROPERTY Answers
CHECK_DEADLOCK FALSE
