SPECIFICATION LiveSpec
CONSTANTS
  w1 = w1
  w2 = w2
  t1 = t1
  t3 = t3
  Nothing = Nothing
  OperationIds = {o1}
  Transactions = {t1}
  Wallets = {w1}
  Handlers = {h1, h2}
  SourceOf <- MCSourceOf
PROPERTY
  IdentifiedSettle
CHECK_DEADLOCK FALSE
