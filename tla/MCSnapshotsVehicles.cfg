SPECIFICATION Spec
CONSTANTS
  first = first
  second = second
  old = old
  new = new
  a = a
  b = b
  c = c
  Imports = {first, second}
  Files = {old, new}
  Vins = {a, b, c}
  Contents <- MCContents
  Previous = old
  Strategy = "DEDUP"
  Overlap = TRUE
  NoRow = NoRow
SYMMETRY Symmetry
CHECK_DEADLOCK FALSE
INVARIANTS
  LiveIsWhole
  OverlapLosesNothing
