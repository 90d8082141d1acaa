SPECIFICATION FairSpec
CONSTANTS
  Items = 36
  Capacity = 16
  Alert = TRUE
INVARIANT UsageSettled
PROPERTIES NoneLeft ContractSpec
CHECK_DEADLOCK FALSE
