SPECIFICATION Spec
CONSTANTS
  Cases = {"stage", "cleanup", "keychain", "journal", "retained", "host", "hosts", "broker", "struck", "brokers", "workspace", "scope", "import", "custody", "process", "verifier", "lane", "answer", "legacy", "names", "material"}
  Bound <- SafetyBound
  None = None
  Ids = {i1, i2}
  h1 = h1
  l1 = l1
  h2 = h2
  p1 = p1
  p2 = p2
  Claude = Claude
  Starter = Starter
  Prep = Prep
  Old = Old
  c1 = c1
  c2 = c2
  v1 = v1
CHECK_DEADLOCK FALSE
INVARIANT CredentialSurvives
INVARIANT WorkspaceIsKept
INVARIANT ScopeIsTrue
INVARIANT RemovalIsExact
INVARIANT LaneIsHonest
PROPERTY RuntimeSteps
