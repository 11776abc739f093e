SPECIFICATION Spec
CONSTANTS
  mock = mock
  gpu = gpu
  small = small
  large = large
  extra = extra
  None = None
  Model = {small, large, extra}
  Runtime = {mock, gpu}
  Handler = {h1}
  TokenMax = 60000
  MaxIds = 1
  IdOrder <- MCIdOrder
  IdLabel <- MCIdLabel
  Baseline <- MCBaseline
  Overrides <- MCOverrides
  World <- MCWorld
  Request <- MCRequest
  Body <- MCBody
INVARIANTS StagedLoadSparesFallback
