SPECIFICATION LiveSpec
CONSTANTS
  t1 = t1
  k1 = k1
  main = main
  Table = {t1}
  Userdata = {}
  String = {}
  Closure = {k1}
  Thread = {main}
  MainThread = main
  GCSWEEPMAX = 2
  StackLimit = 2
  FieldLimit = 1
  RootLimit = 0
PROPERTIES GarbageIsFreed LostIsFinalized
