SPECIFICATION Spec
CONSTANTS
  Cases = {"own", "fence", "relay", "launch", "session", "login", "carrier", "refresh", "review", "staging", "preflight", "file", "lock", "locks", "run", "runs"}
  Bound <- SafetyBound
  None = None
  Ids = {i1, i2}
  h1 = h1
  l1 = l1
  h2 = h2
  p1 = p1
  p2 = p2
  Claude = Claude
  Starter = Starter
  Prep = Prep
  Old = Old
  c1 = c1
  c2 = c2
  v1 = v1
SYMMETRY Symmetry
CHECK_DEADLOCK FALSE
INVARIANT ChildrenAreAccountedFor
INVARIANT SignalsArriveOnce
INVARIANT SessionIsAgreed
INVARIANT AccountIsCurrent
INVARIANT EvidenceOutlivesReview
INVARIANT RecordIsExact
INVARIANT LocksAreOwned
INVARIANT RunIsKept
PROPERTY SupervisorSteps
