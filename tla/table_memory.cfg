SPECIFICATION Spec
CONSTANTS
  x = x
  y = y
  Number = {1, 2, 4}
  Address = {}
  StringHash = {}
  Value = {x}
  Preallocated = {0, 3}
  MAX_INT = 7
PROPERTY ImplementsMap
