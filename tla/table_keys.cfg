SPECIFICATION Spec
CONSTANTS
  x = x
  y = y
  Number = {1, 2, 4, 8}
  Address = {5}
  StringHash = {0}
  Value = {x}
  Preallocated = {0, 3}
  MAX_INT = 7
INVARIANTS TypeOK MainInvariant LengthRight
PROPERTY ImplementsMapInMemory
