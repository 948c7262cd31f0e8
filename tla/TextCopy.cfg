SPECIFICATION TextSpec
CONSTANTS
  Chars <- UnixChars
  Width <- Utf8Width
  CR = "cr"
  LF = "lf"
  MaxDataLength = 2
  MaxFile = 5
INVARIANTS
  CopyIsFile
CHECK_DEADLOCK FALSE
