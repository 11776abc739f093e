SPECIFICATION Spec
CONSTANTS
  Runtime = {rt1, rt2}
  Model = {m1, m2}
  Instance = {1, 2}
  Priority = {1, 2}
  LeaseTtl = 1
  MaxClock = 1
  MaxToken = 2
  MaxServing = 2
  NoTransition = NoTransition
INVARIANTS TypeOK SingleCompletion HoldersAgree NoPhantomServingLease ServingCountExact
PROPERTIES PreemptionRanked DrainedServingProtected ImplementsFencedLease
SYMMETRY Symm
