SPECIFICATION Spec
CONSTANTS
  LongBits = 6
  IntBits = 5
  USecs = 4
  MaxStates = 2
  Vars <- MCVars
  Literals <- MCLiterals
  Events <- MCEvents
  Programs <- CopyPrograms
  Conditions <- CopyConditions
INVARIANT FreedOnce
CHECK_DEADLOCK FALSE
