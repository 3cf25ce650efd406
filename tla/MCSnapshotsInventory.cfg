SPECIFICATION Spec
CONSTANTS
  first = first
  second = second
  old = old
  new = new
  a = a
  b = b
  c = c
  Imports = {first, second}
  Files = {old, new}
  Vins = {a, b, c}
  Contents <- MCContents
  Previous = old
  Strategy = "MERGE"
  Overlap = FALSE
  NoRow = NoRow
CHECK_DEADLOCK FALSE
INVARIANTS
  VinsUnique
PROPERTIES
  SuccessIsComplete
