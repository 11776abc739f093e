SPECIFICATION Spec
CONSTANTS
  d1 = d1
  d2 = d2
  d3 = d3
  Handler = {h1, h2}
  Decision = {d1, d2, d3}
  MultiByte <- MCMultiByte
  Subject = {e1, e2}
  None = None
  ReadLimit = 2
  DefaultLimit = 2
  RowCap = 3
  MaxEvents = 3
  MaxCrashes = 2
CHECK_DEADLOCK FALSE
INVARIANTS AcknowledgedReadable
