SPECIFICATION MCSpec
CONSTANTS
  Wallets = {w1}
  Loads = {l1, l2}
  MaxEvents = 2
  Nothing = Nothing
SYMMETRY Alike
INVARIANTS
  PageTypeOK
  ShowsWhatItKnows
  ShowsOwnMembership
  HistoryOrdered
CHECK_DEADLOCK FALSE
