SPECIFICATION Spec
CONSTANTS
  t1 = t1
  t2 = t2
  main = main
  Table = {t1, t2}
  Userdata = {}
  String = {}
  Closure = {}
  Thread = {main}
  MainThread = main
  GCSWEEPMAX = 2
  StackLimit = 2
  FieldLimit = 1
  RootLimit = 1
SYMMETRY Symmetry
INVARIANTS TypeOK IInv NoDangling BlackNotToWhite GrayInList WhiteAfterSweep
PROPERTIES ImplementsHeap EmergencyFreesGarbage
