SPECIFICATION LibrarySpec
CONSTANTS
  MAXINTEGER = 15
  TableMax = 7
  INT_MAX = 4
  MAXSIZE = 6
  BITS = 5
  NBM = 3
  Infinity = 128
  LUA_NBITS = 4
  LoopSteps = 8
  Bytes = {65, 128, 143, 144, 191, 193, 194, 224, 240, 244, 255}
  Codes = {0, 65, 127, 128, 2047, 2048, 65535, 65536, 1114111}
  Code <- Code1
  Letters = {"a", "b"}
  Digits = {"1"}
  MAXCCALLS = 5
  LUA_MAXCAPTURES = 2
  Alphabets <- Alphabets1
  Reserved <- Reserved1
  Byte1 = 4
  SZINT = 2
  SZFLOAT = 2
  MAXINTSIZE = 4
  MAXALIGN = 4
  Header <- Header1
  LongSize = 4
  Answered <- Answered1
INVARIANTS PatternsRight AnswersRight
CHECK_DEADLOCK FALSE
