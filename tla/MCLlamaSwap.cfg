SPECIFICATION FairSpec
CONSTANTS
  x = x
  y = y
  mx = mx
  my = my
  short = short
  None = None
  BytesPerMb = 2
  U64Max = 100
  Alias = {x, y}
  ModelOf <- MCModelOf
  Id = {mx, short}
  Vars <- MCVars
  Expression <- MCExpression
  Device <- MCDevice
  Scrape <- MCScrape
  MaxChanges = 2
  MaxBreaks = 1
CHECK_DEADLOCK FALSE
INVARIANTS TypeOK SnapshotCoherent DrainedMeansCurrent MemoryOfWholeDevices ColocationMatchesExpression
PROPERTIES CacheConverges
