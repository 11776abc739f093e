SPECIFICATION Spec
CONSTANTS
  Runtime = {rt1}
  Model = {m1, m2}
  Instance = {1, 2}
  Priority = {1, 2}
  LeaseTtl = 1
  MaxClock = 1
  MaxToken = 3
  MaxServing = 2
  NoTransition = NoTransition
PROPERTIES ServingProtected
