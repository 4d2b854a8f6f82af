SPECIFICATION LedgerSpec
CONSTANTS
  r1 = r1
  r2 = r2
  c1 = c1
  c2 = c2
  c3 = c3
  k1 = k1
  k2 = k2
  Runs = {r1}
  Calls = {c1}
  RunOf <- TwoRuns
  GrantRun = r1
  Delegated = {c1}
  Unmetered = {}
  Keys = {k1, k2}
  Amounts = {0, 1}
  EffectLimit = 2
  MoneyLimit = 1
  RunBudget = 2
  MaxActions = 3
PROPERTIES AnyAmbiguityFreezes
CHECK_DEADLOCK FALSE
