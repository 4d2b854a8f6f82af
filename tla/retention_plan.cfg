SPECIFICATION RetentionSpec
CONSTANTS
  r1 = r1
  r2 = r2
  o1 = o1
  w1 = w1
  None = None
  Requests = {r1, r2}
  Approvals = {}
  Effects = {}
  Outboxes = {o1}
  Workers = {w1}
  Kinds = {"named_job"}
  Holds = {TRUE, FALSE}
  Lifetimes = {3}
  ClaimSeconds = 1
  AckSeconds = 1
  ApprovalSeconds = 1
  Limit = 1
  MaxTime = 2
  MaxFence = 2
  Never = 9
  MinAge = 1
  KeepRequests = 0
  KeepNotifications = 0
INVARIANTS PlanUnreferenced
CHECK_DEADLOCK FALSE
