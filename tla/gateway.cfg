SPECIFICATION MCGatewaySpec
CONSTANTS
  m1 = m1
  m2 = m2
  s1 = s1
  s2 = s2
  r2 = r2
  Messages = {m1, m2}
  Rotations = {m2}
  Pool = {s1, s2}
  Sessions = {s1, s2, r2}
  RotationSession <- MCRotation
  Worker = gateway
  Owners = {gateway, cli}
  NoMessage = nomsg
  MaxTurns = 2
  MaxFence = 3
  MaxClaims = 2
  MaxCrashes = 1
  t1 = t1
  TaskIds = {t1}
  person = person
  job = job
  p1 = p1
  j1 = j1
  j2 = j2
  Agents = {person, job}
  ToolCalls = {p1, j1, j2}
  SessionOf <- MCSessionOf
  Unattended = {job}
  NoTask = notask
  Modes = {"joint"}
  MaxRevision = 6
  MaxEpoch = 2
INVARIANT NoLostUpdate
PROPERTY UncertainUntilArchived
PROPERTY BatonRespected
PROPERTY DeliveredReviewSurvives
INVARIANT OneTurnPerMessage
INVARIANT AcknowledgementKept
INVARIANT SettledAgrees
INVARIANT ArchivedNeverActive
INVARIANT NeverRotatesItself
CHECK_DEADLOCK FALSE
SYMMETRY Symmetry
