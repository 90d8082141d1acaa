SPECIFICATION Spec
CONSTANTS
  m1 = m1
  m2 = m2
  c1 = c1
  c2 = c2
  p1 = p1
  r1 = r1
  r2 = r2
  Member = {m1, m2}
  Conv = {c1, c2}
  Prefix = {p1}
  Request = {r1, r2}
  PrefixOf <- MCPrefixOf
  Specs <- MCSpecs
  Loads <- MCLoads
  None = None
  Elsewhere = Elsewhere
PROPERTY RebindsToServer
CHECK_DEADLOCK FALSE
