SPECIFICATION Spec
CONSTANTS
  u1 = u1
  u2 = u2
  t1 = t1
  t2 = t2
  Nobody = Nobody
  Stage <- mcStage
  Start = "s"
  EndStage = "e"
  kind <- mcKind
  nextOf <- mcNextOf
  branches <- mcBranches
  connector = {}
  service = {}
  showsError = {}
  stopsOnError = {}
  Thread = {t1, t2}
  User = {u1, u2}
  userOf <- mcTwoUsers
  assignee <- mcAssigned
  candidate <- mcCandidate
  MaxCalls = 2
  MaxFaults = 0
INVARIANT
  CancelClosesTasks
CHECK_DEADLOCK FALSE
