SPECIFICATION MCSpec
CONSTANTS
  Wallets = {}
  Loads = {l1, l2}
  MaxEvents = 1
  Nothing = Nothing
PROPERTY SignalsReachTheChain
CHECK_DEADLOCK FALSE
