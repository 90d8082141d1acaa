SPECIFICATION Spec
CONSTANTS
  k = k
  t = t
  g1 = g1
  g2 = g2
  Goroutine = {g1, g2}
  Item = {k, t}
  Tables <- MCTables
  TableOf <- MCTableOf
  Patched = {k}
  Toggled = {}
  Fails = FALSE
  MaxWrites <- Once
SYMMETRY Symmetry
INVARIANT ExternalVisible
CHECK_DEADLOCK FALSE
