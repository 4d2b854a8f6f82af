SPECIFICATION FairParts
CONSTANTS
  r1 = r1
  r2 = r2
  a1 = a1
  a2 = a2
  e1 = e1
  o1 = o1
  w1 = w1
  w2 = w2
  None = None
  Requests = {r1}
  Approvals = {a1}
  Effects = {e1}
  Outboxes = {o1}
  Workers = {w1}
  Kinds = {"named_job", "ad_hoc"}
  Holds = {TRUE, FALSE}
  Lifetimes = {3}
  ClaimSeconds = 1
  AckSeconds = 1
  ApprovalSeconds = 1
  Limit = 1
  MaxTime = 2
  MaxFence = 2
  Never = 9
  Operations = {1, 2}
  StepCount = 2
  MaxWrites = 1
  MaxFaults = 2
INVARIANTS NothingLost Restorable
PROPERTIES CancelSettles TerminalNotified LapsedIsSettled ImplementsAtomicUpgrade DecisionsFinal UpgradeSettles
CHECK_DEADLOCK FALSE
