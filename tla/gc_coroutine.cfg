SPECIFICATION Spec
CONSTANTS
  u1 = u1
  s1 = s1
  main = main
  coro = coro
  Table = {}
  Userdata = {u1}
  String = {s1}
  Closure = {}
  Thread = {main, coro}
  MainThread = main
  GCSWEEPMAX = 2
  StackLimit = 2
  FieldLimit = 1
  RootLimit = 0
PROPERTIES ImplementsHeap
