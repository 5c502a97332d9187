SPECIFICATION PartsSpec
CONSTANTS
  a1 = a1
  a2 = a2
  Accounts = {a1, a2}
  Holders = {a1, a2}
  RewardsAdmin = a1
  CoreContracts = {core, other}
  None = None
  U32Max = 2
  I128Max = 2
  t1 = t1
  t2 = t2
  Tabs = {t1}
  Wallets = {w1, w2}
  Nothing = Nothing
  Operations = {o1, o2}
  Kept = 1
  Checked = 1
  c1 = c1
  Calls = {c1, c2}
  Browsers = {b1, b2}
  MaxEvents = 3
  GroupOf <- MCGroupOf
  Groups = {1, 2}
  Everything = Everything
  ListLimit = 2
  Readers = {t1, t2}
  AtOnce = 1
  Scenes <- MCScenes
  MaxWrites = 1
  TTL = 1
  MaxClock = 2
  Missing = Missing
INVARIANTS
  RewardTypeOK
  GroupLedgerExact
  SupplyFromClaims
  SupplyHeld
  PartsTypeOK
  ToldTruly
  UnsettledRemembered
  OwnWalletShown
  StreamComplete
  ServedWithinTTL
  OwnWriteShown
PROPERTIES
  RewardsNeverLost
  StoppedForGood
CHECK_DEADLOCK FALSE
