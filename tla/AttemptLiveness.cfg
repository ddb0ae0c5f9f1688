SPECIFICATION FairSpec
CONSTANT MaxBoot = 1
CHECK_DEADLOCK FALSE
PROPERTY LeaseIsReleased
PROPERTY RunEnds
