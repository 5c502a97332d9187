CONSTANTS
  p1 = p1
  p2 = p2
  Processes = {p1}
  StartLedger = Nothing
  Limit = 1
  Lookback = 1
  Lag = 0
  MaxLedger = 4
  MaxEvents = 3
  Nothing = Nothing
SPECIFICATION LiveSpec
PROPERTY IndexedEventually
