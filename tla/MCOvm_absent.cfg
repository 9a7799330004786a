SPECIFICATION Spec
CONSTANTS
  LongBits = 6
  IntBits = 5
  USecs = 4
  MaxStates = 2
  Vars <- MCVars
  Literals <- MCLiterals
  Events <- MCEvents
  Programs <- AbsentPrograms
  Conditions <- AbsentConditions
PROPERTY ConditionNeverCrashes
CHECK_DEADLOCK FALSE
