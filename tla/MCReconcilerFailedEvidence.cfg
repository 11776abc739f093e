SPECIFICATION SerialSpec
CONSTANTS
  Runtime = {rt1}
  Handler = {h1}
  Loop = Loop
  MaxVersion = 1
  NoEntry = NoEntry
  Failed = Failed
  Nothing = Nothing
PROPERTIES NoFailedEvidence
