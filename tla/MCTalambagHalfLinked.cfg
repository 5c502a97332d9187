SPECIFICATION Spec
CONSTANTS
  a1 = a1
  a2 = a2
  Funded = {a1, a2}
  Accounts = {a1, a2}
  Holders = {a1, a2, core}
  Core = core
  Rewards = rewards
  Admin = a1
  RewardsAdmin = a1
  Assets = {usd}
  Tokens = {usd}
  RewardsContracts = {rewards, otherRewards}
  CoreContracts = {core, other}
  None = None
  U32Max = 2
  I128Max = 2
  InitialTokens <- MCInitialTokens
INVARIANTS
  UnlinkedDepositsAccepted
CHECK_DEADLOCK FALSE
