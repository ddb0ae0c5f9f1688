SPECIFICATION Spec
CONSTANT MaxBoot = 0
CHECK_DEADLOCK FALSE
INVARIANT PrelaunchAbortedMeansNoReviewer
