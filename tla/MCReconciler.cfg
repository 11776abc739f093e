SPECIFICATION FairSpec
CONSTANTS
  Runtime = {rt1, rt2}
  Handler = {h1}
  Loop = Loop
  MaxVersion = 1
  NoEntry = NoEntry
  Failed = Failed
  Nothing = Nothing
INVARIANTS TypeOK RefreshedBeforeScheduling
PROPERTIES ObservationsKept CacheConverges
