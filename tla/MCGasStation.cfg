SPECIFICATION Spec
CONSTANTS
  w1 = w1
  w2 = w2
  t1 = t1
  t3 = t3
  Nothing = Nothing
  OperationIds = {o1}
  Transactions = {t1, t3}
  Wallets = {w1, w2}
  Handlers = {h1, h2, h3}
  SourceOf <- MCSourceOf
SYMMETRY Identical
INVARIANTS
  GasTypeOK
  HandedOnce
  OutcomesTrue
PROPERTY
  ImplementsOneHandoff
CHECK_DEADLOCK FALSE
