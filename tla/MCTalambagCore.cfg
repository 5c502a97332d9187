SPECIFICATION CoreSpec
CONSTANTS
  a1 = a1
  a2 = a2
  Accounts = {a1, a2}
  Holders = {a1, a2, core}
  Core = core
  Admin = a1
  Assets = {usd, fake}
  Tokens = {usd}
  RewardsContracts = {rw}
  None = None
  U32Max = 3
  I128Max = 2
  InitialTokens <- MCInitialTokens
INVARIANTS
  CoreTypeOK
  Solvency
  IdsDense
  MemberCountExact
  RolesAreMembers
PROPERTIES
  RolesPermanent
  ImplementsEscrow
CHECK_DEADLOCK FALSE
