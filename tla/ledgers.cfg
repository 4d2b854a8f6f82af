SPECIFICATION LedgersSpec
CONSTANTS
  r1 = r1
  c1 = c1
  c2 = c2
  k1 = k1
  k2 = k2
  Runs = {r1}
  Calls = {c1, c2}
  RunOf <- OneRun
  GrantRun = r1
  Delegated = {c1, c2}
  Unmetered = {}
  Keys = {k1, k2}
  Amounts = {0, 1}
  EffectLimit = 3
  MoneyLimit = 1
  RunBudget = 2
  MaxActions = 2
  e1 = e1
  w1 = w1
  w2 = w2
  None = None
  Entries = {e1}
  Workers = {w1, w2}
  PartCount = 2
  LeaseSeconds = 1
  AttemptLimit = 2
  Stalls = FALSE
  MaxTime = 2
  MaxFence = 3
INVARIANTS BudgetsExact EffectedOnce EvidenceSound LedgersAgree SentOnce DeliveredHasReceipts
PROPERTIES AmbiguityFreezes RevokedForGood
SYMMETRY LedgersSymmetry
CHECK_DEADLOCK FALSE
