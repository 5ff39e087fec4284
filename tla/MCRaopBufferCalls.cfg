CONSTANTS
  L = 4
  M = 12
  Payload = {p}
  NoData = NoData
SPECIFICATION Spec
INVARIANTS Window DeliversFirst NoBlockLost ResendsOnlyMissing
