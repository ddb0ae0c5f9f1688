SPECIFICATION Spec
CONSTANTS
  Attempts = {a1, a2}
  None = None
  Envelope = 5
  Cap = 8
  MaxTemps = 2
CHECK_DEADLOCK FALSE
SYMMETRY Symmetry
INVARIANT TypeOK
INVARIANT EvidenceWithinCap
INVARIANT OneRetainedWorktree
INVARIANT RewriteKeepsVerdict
INVARIANT StepRelies
PROPERTY RetentionIsMonotone
PROPERTY EvidenceNeedsFinishedRelease
