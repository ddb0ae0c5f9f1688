SPECIFICATION FairSpec
CONSTANTS
  Cases = {"fence", "relay", "launch", "refresh", "review", "preflight", "file", "lock", "stage", "cleanup", "keychain", "broker", "hosts", "run", "workspace", "custody", "process", "verifier", "lane", "answer", "legacy"}
  Bound <- EndsBound
  None = None
  Ids = {i1, i2}
  h1 = h1
  l1 = l1
  h2 = h2
  p1 = p1
  p2 = p2
  Claude = Claude
  Starter = Starter
  Prep = Prep
  Old = Old
  c1 = c1
  c2 = c2
  v1 = v1
CHECK_DEADLOCK FALSE
PROPERTY SupervisorEnds
PROPERTY RuntimeEnds
