SPECIFICATION FairSpec
CONSTANTS
  a1 = a1
  a2 = a2
  b = b
  v = v
  A = A
  B = B
  V = V
  Target = {a1, a2, b, v}
  Provider = {A, B, V}
  ProviderOf <- MCProviderOf
  DialectOf <- MCDialectOf
  NoTarget = NoTarget
  MaxVisionHops = 2
  MaxGlobalHops = 2
  Setups <- MCSetups
INVARIANTS PictureSafe StaysGranted SiblingsFirst NoSecondChance HealthFair
PROPERTY Answered
CHECK_DEADLOCK FALSE
