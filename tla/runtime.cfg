SPECIFICATION RuntimeSpec
CONSTANTS
  Parts = {"weak", "upvalues", "strings", "input", "sort"}
  Tables = {"R", "T", "U", "a", "b", "c"}
  Strings = {"s"}
  Registry = "R"
  KeySeq <- Seq1
  Heaps <- Heaps1
  Main = "M"
  Coroutines = {"T"}
  Closures = {"c", "d"}
  Levels = {1, 2}
  UpVals = {1, 2}
  MaxSteps = 4
  MaxCycles = 3
  Texts = {"x", "y", "z"}
  Hash <- Hash1
  Addresses = {"p1", "p2", "p3"}
  MinSize = 1
  MaxSize = 8
  Length = 6
  SIZE_MAX = 15
  Sizes = {0, 1, 2, 3, 4, 5, 6, 7}
  Ranks = {1, 2, 3}
  RANLIMIT = 4
  Imbalance = 2
INVARIANTS NothingLost EntriesAsPromised UpvaluesCounted ValuesKept NoCycleForEver InternedOnce StringsStay FaithfulWithoutLook InOrder SortRight
CHECK_DEADLOCK FALSE
