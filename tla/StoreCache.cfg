SPECIFICATION FairSpec
CONSTANTS
  k = k
  t = t
  g1 = g1
  g2 = g2
  Goroutine = {g1, g2}
  Item = {k, t}
  Tables <- MCTables
  TableOf <- MCTableOf
  Patched = {k}
  Toggled = {t}
  Fails = TRUE
  MaxWrites <- Twice
INVARIANT StaleExplained
PROPERTY PickedUp
CHECK_DEADLOCK FALSE
