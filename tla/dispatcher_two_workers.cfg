SPECIFICATION DispatcherSpec
CONSTANTS
  r1 = r1
  r2 = r2
  a1 = a1
  a2 = a2
  e1 = e1
  o1 = o1
  w1 = w1
  w2 = w2
  None = None
  Requests = {r1}
  Approvals = {}
  Effects = {}
  Outboxes = {}
  Workers = {w1, w2}
  Kinds = {"ad_hoc"}
  Holds = {FALSE}
  Lifetimes = {3}
  ClaimSeconds = 1
  AckSeconds = 1
  ApprovalSeconds = 1
  Limit = 1
  MaxTime = 2
  MaxFence = 2
  Never = 9
INVARIANTS CancelledMeansNothingObservable
CHECK_DEADLOCK FALSE
