SPECIFICATION Spec
CONSTANTS
  main = main
  co1 = co1
  co2 = co2
  Thread = {main, co1, co2}
  MainThread = main
  LUAI_MAXCCALLS = 3
  ErrorCCalls = 5
  Uses = {"lua_load", "finalizers"}
  MainFrames = 1
  MaxFrames = 2
SYMMETRY Symmetry
INVARIANTS CountersRight CStackBounded StatusTold
