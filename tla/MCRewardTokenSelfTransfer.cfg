SPECIFICATION RewardSpec
CONSTANTS
  a1 = a1
  a2 = a2
  Accounts = {a1, a2}
  Holders = {a1, a2, vault}
  RewardsAdmin = a1
  CoreContracts = {core, other}
  None = None
  U32Max = 2
  I128Max = 2
INVARIANTS
  BalancesMatchSupply
CHECK_DEADLOCK FALSE
