CONSTANTS
  p1 = p1
  p2 = p2
  Processes = {p1, p2}
  StartLedger = 2
  Limit = 1
  Lookback = 1
  Lag = 1
  MaxLedger = 4
  MaxEvents = 3
  Nothing = Nothing
SPECIFICATION Spec
INVARIANTS
  IndexerTypeOK
  IndexedOrExpired
  StreamedOnce
  StreamInOrder
SYMMETRY Alike
