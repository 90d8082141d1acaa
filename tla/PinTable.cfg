SPECIFICATION Spec
CONSTANTS
  Key = {k1, k2, k3, k4}
  Model = {a}
  MaxEntries = 3
  Share = 3
  MaxAge = 1
  Gone = Gone
  MaxClock = 3
  MaxRestarts = 1
SYMMETRY Symmetry
INVARIANTS SavedKept RecentSurvives NextFlushSees
CHECK_DEADLOCK FALSE
