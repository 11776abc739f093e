SPECIFICATION FairSpec
CONSTANTS
  small = small
  large = large
  Model = {small, large}
  Staged <- OnePair
  Runtime = {gpu}
  MockRuntime = {}
  Caller = {c1, c2}
  Capacity = 2
  MaxIntents = 3
  NoIntent = NoIntent
INVARIANTS TypeOK ContextInOnePlace CacheBounded NoOrphanEntry LoadedAtMostOnce
PROPERTIES OldestDropped TerminalForGood PendingResolved
