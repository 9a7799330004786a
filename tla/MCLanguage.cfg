SPECIFICATION LangSpec
CONSTANTS
  LongBits = 6
  IntBits = 5
  USecs = 4
  MaxStates = 2
  Vars <- MCVars
  Literals <- MCLiterals
  Events <- MCEvents
  Programs <- MCPrograms
  Conditions <- MCConditions
  k1 = k1
  k2 = k2
  k3 = k3
  d1 = d1
  d2 = d2
  x = x
  y = y
  init = init
  sa = sa
  ra = ra
  rb = rb
  fa = fa
  fb = fb
  None = None
  NoName = NoName
  Keys <- MCKeys
  Data <- MCData
  TableSize = 2
  MaxElmts = 3
  VarNames <- MCVarNames
  StateNames <- MCStateNames
  RuleNames <- MCRuleNames
  FieldNames <- MCFieldNames
  FuncNames <- MCFuncNames
  Consts <- MCConsts
  MaxNodes = 2
  MaxRuleStates = 2
  SyncLists <- MCSyncLists
  MaxRules = 2
INVARIANTS CodeSound CompiledMeaning ValuesOwned ToArrayFits NamesResolved
PROPERTIES CrashesAsWritten ExecutionEnds IsKeyMap
CHECK_DEADLOCK FALSE
