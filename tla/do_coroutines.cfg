SPECIFICATION Spec
CONSTANTS
  main = main
  co = co
  Thread = {main, co}
  MainThread = main
  LUAI_MAXCCALLS = 5
  ErrorCCalls = 6
  Uses = {"hooks"}
  MainFrames = 1
  MaxFrames = 3
INVARIANTS TypeOK CountersRight LongjmpRight ControlRight HandlerRight HooksOffInside
PROPERTY ImplementsThreads
