SPECIFICATION Spec
CONSTANT MaxBoot = 2
CHECK_DEADLOCK FALSE
INVARIANT TypeOK
INVARIANT NoLostUpdate
INVARIANT SingleWriter
INVARIANT LeaseDiscipline
INVARIANT ExactSettlementIsQuiescent
INVARIANT CheckoutExactMeansGone
INVARIANT EffectsFollowHandoff
INVARIANT VerdictIsEarned
INVARIANT DeliveredIsFinal
INVARIANT ViewIsKnown
PROPERTY ConclusionIsPermanent
PROPERTY KeepsItsPromise
