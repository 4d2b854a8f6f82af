SPECIFICATION FocusedDispatcher
CONSTANTS
  r1 = r1
  r2 = r2
  a1 = a1
  a2 = a2
  e1 = e1
  o1 = o1
  w1 = w1
  w2 = w2
  None = None
  Requests = {r1, r2}
  Approvals = {a1, a2}
  Effects = {e1}
  Outboxes = {o1}
  Workers = {w1, w2}
  Kinds = {"named_job", "ad_hoc"}
  Holds = {TRUE, FALSE}
  Lifetimes = {2}
  ClaimSeconds = 1
  AckSeconds = 1
  ApprovalSeconds = 1
  Limit = 1
  MaxTime = 2
  MaxFence = 2
  Never = 9
  Items = {i1, i2}
  Launchers = {schedule, command}
  ItemLimit = 1
  Lookback = 9
  MaxRuns = 2
  MaxInstant = 4
INVARIANTS NothingSkipped BlockedReachesUser EffectDispatchedOnce CancelledAfterOneClaim ApprovalHasWaiter ReportMatchesOutcome ResultAfterAcknowledgement
PROPERTIES CursorPassesSettled
SYMMETRY IdSymmetry
CHECK_DEADLOCK FALSE
