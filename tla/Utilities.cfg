SPECIFICATION MCSpec
CONSTANTS
  Base = 4
  Message <- MCMessage
  Garbage <- MCGarbage
  Chunks = {1, 7}
  MaxOctets = 124
  Letters = {"a", "b", "/", "NUL"}
  Sep = "/"
  NUL = "NUL"
  MaxWord = 6
  TextChars = {"a", "b"}
  MaxString = 5
  MaxPattern = 2
  MaxSize = 12
  Objects = {v1, v2, v3}
  Types = {T1, T2, T3}
  Values = {1, 2}
  None = None
INVARIANTS
  DigestOfPadded
  StringsRight
  VariantsRight
PROPERTIES
  Terminates
CHECK_DEADLOCK FALSE
