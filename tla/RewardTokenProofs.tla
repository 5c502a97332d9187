-------------------------- MODULE RewardTokenProofs --------------------------
(* Theorems of RewardToken for any holders, widths and linked contracts.   *)
EXTENDS RewardToken, TotalsProofs

(* Accounts sign, so they are holders; there are finitely many of both.    *)
LEMMA FiniteAccounts == IsFiniteSet(Accounts) /\ IsFiniteSet(GroupIds) /\ IsFiniteSet(Holders)
BY LedgerAssumption, FS_Subset, FS_Interval DEF GroupIds

(* The constructor leaves the storage well typed.                          *)
LEMMA RewardTypeInit == RewardInit => RewardTypeOK
BY LedgerAssumption, RewardAssumption DEF RewardInit, RewardTypeOK, I128

(* A first registration keeps the totals within their type.                *)
LEMMA TotalsAfterType ==
  ASSUME NEW totals \in [GroupIds -> I128], NEW g \in GroupIds
  PROVE  TotalsAfterRegister(totals, g) \in [GroupIds -> I128]
BY LedgerAssumption DEF TotalsAfterRegister, I128

(* record_contribution keeps the three amounts within their type.          *)
LEMMA CreditType ==
  ASSUME RewardTypeOK, NEW totals \in [GroupIds -> I128],
         NEW g \in GroupIds, NEW u \in Accounts, NEW n \in Amounts, Credit(totals, g, u, n)
  PROVE  /\ groupTotalContributed' \in [GroupIds -> I128]
         /\ contributedAmount' \in [GroupIds -> [Accounts -> I128]]
         /\ pendingReward' \in [GroupIds -> [Accounts -> I128]]
<1>1. /\ totals[g] + n \in I128
      /\ contributedAmount[g][u] + n \in I128
      /\ pendingReward[g][u] + n \in I128
  BY LedgerAssumption DEF RewardTypeOK, Credit, I128, Amounts
<1> QED
  BY <1>1 DEF RewardTypeOK, Credit

(* Every entry point keeps the storage well typed.                         *)
LEMMA RewardTypeStep == RewardTypeOK /\ [RewardNext]_rewardVars => RewardTypeOK'
<1> SUFFICES ASSUME RewardTypeOK, [RewardNext]_rewardVars
             PROVE  RewardTypeOK'
  OBVIOUS
<1> USE DEF RewardTypeOK, ledgerVars, tokenVars
<1>1. ASSUME NEW a \in Accounts, NEW c \in CoreContracts, SetCoreContract(a, c)
      PROVE  RewardTypeOK'
  BY <1>1 DEF SetCoreContract
<1>2. ASSUME NEW g \in GroupIds, NEW o \in Accounts
      PROVE  /\ DOMAIN OwnersAfterRegister(g, o) \subseteq GroupIds
             /\ OwnersAfterRegister(g, o) \in [DOMAIN OwnersAfterRegister(g, o) -> Accounts]
  BY DEF OwnersAfterRegister
<1>3. ASSUME NEW c \in CoreContracts, NEW g \in GroupIds, NEW o \in Accounts,
             RegisterGroup(c, g, o)
      PROVE  RewardTypeOK'
  BY <1>2, <1>3, TotalsAfterType DEF RegisterGroup
<1>4. ASSUME NEW c \in CoreContracts, NEW g \in GroupIds, NEW u \in Accounts, NEW n \in Amounts,
             RecordContribution(c, g, u, n)
      PROVE  RewardTypeOK'
  BY <1>4, CreditType DEF RecordContribution
<1>5. ASSUME NEW c \in CoreContracts, NEW g \in GroupIds, NEW o \in Accounts,
             NEW u \in Accounts, NEW n \in Amounts, Contribution(c, g, o, u, n)
      PROVE  RewardTypeOK'
  <2>1. TotalsAfterRegister(groupTotalContributed, g) \in [GroupIds -> I128]
        /\ TotalsAfterRegister(groupTotalClaimed, g) \in [GroupIds -> I128]
    BY TotalsAfterType
  <2> QED
    BY <1>2, <1>5, <2>1, CreditType DEF Contribution
<1>6. ASSUME NEW u \in Accounts, NEW g \in GroupIds, ClaimRewards(u, g, TRUE)
      PROVE  RewardTypeOK'
  <2>1. /\ u \in Holders
        /\ balance[u] + pendingReward[g][u] \in I128
        /\ totalSupply + pendingReward[g][u] \in I128
        /\ groupTotalClaimed[g] + pendingReward[g][u] \in I128
        /\ 0 \in I128
    BY <1>6, LedgerAssumption DEF ClaimRewards, I128
  <2> QED
    BY <1>6, <2>1 DEF ClaimRewards
<1>7. ASSUME NEW from \in Accounts, NEW to \in Holders, NEW n \in Amounts, Transfer(from, to, n)
      PROVE  RewardTypeOK'
  <2>1. balance[from] - n \in I128 /\ balance[to] + n \in I128 /\ from \in Holders
    BY <1>7, LedgerAssumption DEF Transfer, I128, Amounts
  <2> QED
    BY <1>7, <2>1 DEF Transfer
<1>8. ASSUME NEW from \in Accounts, NEW n \in Amounts, Burn(from, n)
      PROVE  RewardTypeOK'
  <2>1. balance[from] - n \in I128 /\ totalSupply - n \in I128 /\ from \in Holders
    BY <1>8, LedgerAssumption DEF Burn, I128, Amounts
  <2> QED
    BY <1>8, <2>1 DEF Burn
<1>9. CASE UNCHANGED rewardVars
  BY <1>9 DEF rewardVars
<1> QED
  BY <1>1, <1>3, <1>4, <1>5, <1>6, <1>7, <1>8, <1>9
     DEF RewardNext, LinkStep, CallsOf, Claim, AnyAnswer, HolderStep

(* The rewards storage is always well typed.                               *)
THEOREM RewardTypeCorrect == RewardSpec => []RewardTypeOK
BY RewardTypeInit, RewardTypeStep, PTL DEF RewardSpec
-----------------------------------------------------------------------------
(* The inductive strengthening of GroupLedgerExact: a group that is not    *)
(* registered has empty totals, so registering it zeroes nothing that      *)
(* somebody earned.                                                        *)
UnregisteredEmpty ==
  \A g \in GroupIds : ~is_group_registered(g) =>
    groupTotalContributed[g] = 0 /\ groupTotalClaimed[g] = 0

LedgerInv == GroupLedgerExact /\ UnregisteredEmpty

(* A registration changes no total: an unregistered group has 0 already.   *)
LEMMA RegisterKeepsTotals ==
  ASSUME RewardTypeOK, UnregisteredEmpty, NEW g \in GroupIds
  PROVE  /\ TotalsAfterRegister(groupTotalContributed, g) = groupTotalContributed
         /\ TotalsAfterRegister(groupTotalClaimed, g) = groupTotalClaimed
BY DEF RewardTypeOK, UnregisteredEmpty, TotalsAfterRegister

(* A total moves by as much as the one value that changed.                 *)
LEMMA FamilyMoves ==
  ASSUME NEW D, IsFiniteSet(D), NEW f \in [D -> I128], NEW h \in [D -> I128], NEW k \in D,
         \A x \in D \ {k} : h[x] = f[x]
  PROVE  /\ Total(f) \in Nat /\ Total(h) \in Nat
         /\ Total(h) = Total(f) + (h[k] - f[k])
<1>1. f \in [D -> Nat] /\ h \in [D -> Nat] /\ f[k] \in Nat /\ h[k] \in Nat
  BY LedgerAssumption DEF I128
<1>2. Total(f) \in Nat /\ Total(h) \in Nat /\ Total(h) - h[k] = Total(f) - f[k]
  BY <1>1, TotalExcept, Zenon
<1> QED
  BY <1>1, <1>2

(* record_contribution keeps the ledger of its group exact.                *)
LEMMA CreditLedger ==
  ASSUME RewardTypeOK, GroupLedgerExact, NEW g \in GroupIds, NEW u \in Accounts,
         NEW n \in Amounts, Credit(groupTotalContributed, g, u, n), groupTotalClaimed' = groupTotalClaimed
  PROVE  GroupLedgerExact'
<1> SUFFICES ASSUME NEW x \in GroupIds
             PROVE  /\ Total(contributedAmount'[x]) = groupTotalContributed'[x]
                    /\ Total(pendingReward'[x]) + groupTotalClaimed'[x] = groupTotalContributed'[x]
                    /\ \A a \in Accounts : pendingReward'[x][a] <= contributedAmount'[x][a]
  BY DEF GroupLedgerExact
<1>0. /\ Total(contributedAmount[x]) = groupTotalContributed[x]
      /\ Total(pendingReward[x]) + groupTotalClaimed[x] = groupTotalContributed[x]
      /\ \A a \in Accounts : pendingReward[x][a] <= contributedAmount[x][a]
  BY DEF GroupLedgerExact
<1>1. /\ contributedAmount \in [GroupIds -> [Accounts -> I128]]
      /\ pendingReward \in [GroupIds -> [Accounts -> I128]]
      /\ groupTotalContributed \in [GroupIds -> I128]
      /\ groupTotalClaimed \in [GroupIds -> I128]
      /\ I128 \subseteq Nat /\ n \in Nat
  BY LedgerAssumption DEF RewardTypeOK, I128, Amounts
<1>2. /\ contributedAmount' \in [GroupIds -> [Accounts -> I128]]
      /\ pendingReward' \in [GroupIds -> [Accounts -> I128]]
      /\ groupTotalContributed' \in [GroupIds -> I128]
  BY <1>1, CreditType DEF RewardTypeOK
<1>3. CASE x = g
  <2>1. /\ contributedAmount'[g][u] = contributedAmount[g][u] + n
        /\ pendingReward'[g][u] = pendingReward[g][u] + n
        /\ groupTotalContributed'[g] = groupTotalContributed[g] + n
        /\ \A a \in Accounts \ {u} : /\ contributedAmount'[g][a] = contributedAmount[g][a]
                                     /\ pendingReward'[g][a] = pendingReward[g][a]
    BY <1>1 DEF Credit
  <2>2. contributedAmount[g] \in [Accounts -> I128] /\ contributedAmount'[g] \in [Accounts -> I128]
        /\ pendingReward[g] \in [Accounts -> I128] /\ pendingReward'[g] \in [Accounts -> I128]
    BY <1>1, <1>2
  <2>3. Total(contributedAmount'[g])
          = Total(contributedAmount[g]) + (contributedAmount'[g][u] - contributedAmount[g][u])
    BY <2>1, <2>2, FiniteAccounts, FamilyMoves
  <2>4. /\ Total(pendingReward'[g])
             = Total(pendingReward[g]) + (pendingReward'[g][u] - pendingReward[g][u])
        /\ Total(pendingReward[g]) \in Nat
    BY <2>1, <2>2, FiniteAccounts, FamilyMoves
  <2>5. contributedAmount[g][u] \in Nat /\ pendingReward[g][u] \in Nat
        /\ groupTotalContributed[g] \in Nat /\ groupTotalClaimed[g] \in Nat
    BY <1>1
  <2>6. Total(contributedAmount'[g]) = groupTotalContributed'[g]
    BY <1>0, <1>1, <1>3, <2>1, <2>3, <2>5
  <2>7. Total(pendingReward'[g]) + groupTotalClaimed'[g] = groupTotalContributed'[g]
    BY <1>0, <1>1, <1>3, <2>1, <2>4, <2>5
  <2>8. \A a \in Accounts : pendingReward'[g][a] <= contributedAmount'[g][a]
    BY <1>0, <1>1, <1>3, <2>1, <2>5
  <2> QED
    BY <1>3, <2>6, <2>7, <2>8
<1>4. CASE x # g
  BY <1>0, <1>1, <1>4 DEF Credit
<1> QED
  BY <1>3, <1>4

(* Every entry point keeps the ledger of every group exact.                *)
LEMMA LedgerStep ==
  RewardTypeOK /\ LedgerInv /\ [RewardNext]_rewardVars => LedgerInv'
<1> SUFFICES ASSUME RewardTypeOK, GroupLedgerExact, UnregisteredEmpty, [RewardNext]_rewardVars
             PROVE  GroupLedgerExact' /\ UnregisteredEmpty'
  BY DEF LedgerInv
<1> USE DEF ledgerVars, tokenVars
<1>1. CASE UNCHANGED <<groupOwner, groupTotalContributed, groupTotalClaimed, pendingReward,
                       contributedAmount>>
  BY <1>1 DEF GroupLedgerExact, UnregisteredEmpty, is_group_registered
<1>2. ASSUME NEW c \in CoreContracts, NEW g \in GroupIds, NEW o \in Accounts,
             RegisterGroup(c, g, o)
      PROVE  GroupLedgerExact' /\ UnregisteredEmpty'
  <2>1. groupTotalContributed' = groupTotalContributed /\ groupTotalClaimed' = groupTotalClaimed
        /\ pendingReward' = pendingReward /\ contributedAmount' = contributedAmount
    BY <1>2, RegisterKeepsTotals DEF RegisterGroup
  <2>2. DOMAIN groupOwner \subseteq DOMAIN groupOwner'
    BY <1>2 DEF RegisterGroup, OwnersAfterRegister
  <2> QED
    BY <2>1, <2>2 DEF GroupLedgerExact, UnregisteredEmpty, is_group_registered
<1>3. ASSUME NEW g \in GroupIds, NEW u \in Accounts, NEW n \in Amounts,
             Credit(groupTotalContributed, g, u, n), groupTotalClaimed' = groupTotalClaimed,
             g \in DOMAIN groupOwner', DOMAIN groupOwner \subseteq DOMAIN groupOwner'
      PROVE  GroupLedgerExact' /\ UnregisteredEmpty'
  <2>1. GroupLedgerExact'
    BY <1>3, CreditLedger
  <2>2. \A x \in GroupIds : x # g => groupTotalContributed'[x] = groupTotalContributed[x]
    BY <1>3 DEF Credit, RewardTypeOK
  <2> QED
    BY <1>3, <2>1, <2>2 DEF UnregisteredEmpty, is_group_registered
<1>4. ASSUME NEW c \in CoreContracts, NEW g \in GroupIds, NEW u \in Accounts, NEW n \in Amounts,
             RecordContribution(c, g, u, n)
      PROVE  GroupLedgerExact' /\ UnregisteredEmpty'
  BY <1>3, <1>4 DEF RecordContribution, is_group_registered
<1>5. ASSUME NEW c \in CoreContracts, NEW g \in GroupIds, NEW o \in Accounts,
             NEW u \in Accounts, NEW n \in Amounts, Contribution(c, g, o, u, n)
      PROVE  GroupLedgerExact' /\ UnregisteredEmpty'
  <2>1. Credit(groupTotalContributed, g, u, n) /\ groupTotalClaimed' = groupTotalClaimed
    BY <1>5, RegisterKeepsTotals DEF Contribution
  <2>2. g \in DOMAIN groupOwner' /\ DOMAIN groupOwner \subseteq DOMAIN groupOwner'
    BY <1>5 DEF Contribution, OwnersAfterRegister, is_group_registered
  <2> QED
    BY <1>3, <2>1, <2>2
<1>6. ASSUME NEW u \in Accounts, NEW g \in GroupIds, ClaimRewards(u, g, TRUE)
      PROVE  GroupLedgerExact' /\ UnregisteredEmpty'
  <2>0. /\ RewardTypeOK'
        /\ I128 \subseteq Nat
    <3>1. RewardNext
      BY <1>6 DEF RewardNext, Claim, AnyAnswer
    <3> QED
      BY <3>1, RewardTypeStep, LedgerAssumption DEF I128
  <2>1. /\ pendingReward[g] \in [Accounts -> I128] /\ pendingReward'[g] \in [Accounts -> I128]
        /\ groupTotalClaimed \in [GroupIds -> I128] /\ groupTotalContributed \in [GroupIds -> I128]
        /\ contributedAmount \in [GroupIds -> [Accounts -> I128]]
        /\ pendingReward \in [GroupIds -> [Accounts -> I128]]
    BY <2>0 DEF RewardTypeOK
  <2>2. /\ pendingReward'[g][u] = 0
        /\ \A a \in Accounts \ {u} : pendingReward'[g][a] = pendingReward[g][a]
        /\ groupTotalClaimed'[g] = groupTotalClaimed[g] + pendingReward[g][u]
        /\ \A x \in GroupIds \ {g} : /\ pendingReward'[x] = pendingReward[x]
                                     /\ groupTotalClaimed'[x] = groupTotalClaimed[x]
        /\ groupTotalContributed' = groupTotalContributed
        /\ contributedAmount' = contributedAmount /\ groupOwner' = groupOwner
        /\ g \in DOMAIN groupOwner
    BY <1>6, <2>1 DEF ClaimRewards, is_group_registered
  <2>3. Total(pendingReward[g]) \in Nat
        /\ Total(pendingReward'[g])
             = Total(pendingReward[g]) + (pendingReward'[g][u] - pendingReward[g][u])
    <3> DEFINE f == pendingReward[g]
               h == pendingReward'[g]
    <3>1. /\ f \in [Accounts -> I128] /\ h \in [Accounts -> I128]
          /\ \A a \in Accounts \ {u} : h[a] = f[a]
      BY <2>1, <2>2
    <3> HIDE DEF f, h
    <3>2. Total(f) \in Nat /\ Total(h) = Total(f) + (h[u] - f[u])
      BY <3>1, FiniteAccounts, FamilyMoves, Zenon
    <3> QED
      BY <3>2 DEF f, h
  <2>4. /\ Total(pendingReward'[g]) + groupTotalClaimed'[g] = groupTotalContributed'[g]
        /\ \A a \in Accounts : pendingReward'[g][a] <= contributedAmount'[g][a]
    <3>1. Total(pendingReward[g]) + groupTotalClaimed[g] = groupTotalContributed[g]
          /\ \A a \in Accounts : pendingReward[g][a] <= contributedAmount[g][a]
      BY DEF GroupLedgerExact
    <3>2. groupTotalClaimed[g] \in Nat /\ pendingReward[g][u] \in Nat /\ contributedAmount[g][u] \in Nat
      BY <2>0, <2>1
    <3>3. \A a \in Accounts : pendingReward'[g][a] <= contributedAmount'[g][a]
      BY <2>2, <3>1, <3>2
    <3> QED
      BY <2>2, <2>3, <3>1, <3>2, <3>3
  <2>5. GroupLedgerExact'
    BY <2>2, <2>4 DEF GroupLedgerExact
  <2> QED
    BY <2>2, <2>5 DEF UnregisteredEmpty, is_group_registered
<1>7. ASSUME NEW a \in Accounts, NEW c \in CoreContracts, SetCoreContract(a, c)
      PROVE  GroupLedgerExact' /\ UnregisteredEmpty'
  BY <1>1, <1>7 DEF SetCoreContract
<1>8. ASSUME NEW from \in Accounts, NEW to \in Holders, NEW n \in Amounts, Transfer(from, to, n)
      PROVE  GroupLedgerExact' /\ UnregisteredEmpty'
  BY <1>1, <1>8 DEF Transfer
<1>9. ASSUME NEW from \in Accounts, NEW n \in Amounts, Burn(from, n)
      PROVE  GroupLedgerExact' /\ UnregisteredEmpty'
  BY <1>1, <1>9 DEF Burn
<1>10. CASE UNCHANGED rewardVars
  BY <1>1, <1>10 DEF rewardVars
<1> QED
  BY <1>2, <1>4, <1>5, <1>6, <1>7, <1>8, <1>9, <1>10
     DEF RewardNext, LinkStep, CallsOf, Claim, AnyAnswer, HolderStep

(* The empty ledger is exact.                                              *)
LEMMA LedgerInit == RewardInit => LedgerInv
<1> SUFFICES ASSUME RewardInit
             PROVE  GroupLedgerExact /\ UnregisteredEmpty
  BY DEF LedgerInv
<1>1. ASSUME NEW g \in GroupIds
      PROVE  Total(contributedAmount[g]) = 0 /\ Total(pendingReward[g]) = 0
  <2>1. contributedAmount[g] \in [Accounts -> Nat] /\ pendingReward[g] \in [Accounts -> Nat]
        /\ \A u \in Accounts : contributedAmount[g][u] = 0 /\ pendingReward[g][u] = 0
    BY DEF RewardInit
  <2> QED
    BY <2>1, TotalZero
<1> QED
  BY <1>1 DEF RewardInit, GroupLedgerExact, UnregisteredEmpty

(* For every group, contributions, pending rewards and claims agree.       *)
THEOREM LedgerAlwaysExact == RewardSpec => []GroupLedgerExact
<1>1. LedgerInv => GroupLedgerExact
  BY DEF LedgerInv
<1> QED
  BY <1>1, LedgerInit, LedgerStep, RewardTypeCorrect, PTL DEF RewardSpec
-----------------------------------------------------------------------------
(* No entry point loses a reward.                                          *)
LEMMA NothingLost ==
  RewardTypeOK /\ LedgerInv /\ RewardNext => LosesNoReward
<1> SUFFICES ASSUME RewardTypeOK, UnregisteredEmpty, RewardNext
             PROVE  LosesNoReward
  BY DEF LedgerInv
<1>0. /\ groupTotalContributed \in [GroupIds -> Nat]
      /\ groupTotalClaimed \in [GroupIds -> Nat]
      /\ pendingReward \in [GroupIds -> [Accounts -> Nat]]
      /\ contributedAmount \in [GroupIds -> [Accounts -> Nat]]
      /\ balance \in [Holders -> Nat] /\ Accounts \subseteq Holders
      /\ Amounts \subseteq Nat
  BY LedgerAssumption DEF RewardTypeOK, I128, Amounts
<1> USE DEF ledgerVars, tokenVars
<1>1. CASE UNCHANGED <<groupOwner, groupTotalContributed, groupTotalClaimed, pendingReward,
                       contributedAmount>>
  BY <1>0, <1>1 DEF LosesNoReward, is_group_registered
<1>2. ASSUME NEW c \in CoreContracts, NEW g \in GroupIds, NEW o \in Accounts,
             RegisterGroup(c, g, o)
      PROVE  LosesNoReward
  <2>1. /\ groupTotalContributed' = groupTotalContributed /\ groupTotalClaimed' = groupTotalClaimed
        /\ pendingReward' = pendingReward /\ contributedAmount' = contributedAmount
    BY <1>2, RegisterKeepsTotals DEF RegisterGroup
  <2>2. \A x \in DOMAIN groupOwner : x \in DOMAIN groupOwner' /\ groupOwner'[x] = groupOwner[x]
    BY <1>2 DEF RegisterGroup, OwnersAfterRegister, is_group_registered
  <2> QED
    BY <1>0, <2>1, <2>2 DEF LosesNoReward, is_group_registered
<1>3. ASSUME NEW g \in GroupIds, NEW u \in Accounts, NEW n \in Amounts,
             Credit(groupTotalContributed, g, u, n), groupTotalClaimed' = groupTotalClaimed,
             \A x \in DOMAIN groupOwner : x \in DOMAIN groupOwner' /\ groupOwner'[x] = groupOwner[x]
      PROVE  LosesNoReward
  <2>1. \A x \in GroupIds : groupTotalContributed'[x] >= groupTotalContributed[x]
    BY <1>0, <1>3 DEF Credit
  <2>2. \A x \in GroupIds, a \in Accounts : /\ contributedAmount'[x][a] >= contributedAmount[x][a]
                                            /\ pendingReward'[x][a] >= pendingReward[x][a]
    BY <1>0, <1>3 DEF Credit
  <2>3. \A x \in GroupIds, a \in Accounts : ~(pendingReward'[x][a] < pendingReward[x][a])
    <3>1. pendingReward' \in [GroupIds -> [Accounts -> Nat]]
      BY <1>0, <1>3 DEF Credit
    <3> QED
      BY <1>0, <2>2, <3>1
  <2> QED
    BY <1>0, <1>3, <2>1, <2>2, <2>3 DEF LosesNoReward, is_group_registered
<1>4. ASSUME NEW c \in CoreContracts, NEW g \in GroupIds, NEW u \in Accounts, NEW n \in Amounts,
             RecordContribution(c, g, u, n)
      PROVE  LosesNoReward
  BY <1>3, <1>4 DEF RecordContribution
<1>5. ASSUME NEW c \in CoreContracts, NEW g \in GroupIds, NEW o \in Accounts,
             NEW u \in Accounts, NEW n \in Amounts, Contribution(c, g, o, u, n)
      PROVE  LosesNoReward
  <2>1. Credit(groupTotalContributed, g, u, n) /\ groupTotalClaimed' = groupTotalClaimed
    BY <1>5, RegisterKeepsTotals DEF Contribution
  <2>2. \A x \in DOMAIN groupOwner : x \in DOMAIN groupOwner' /\ groupOwner'[x] = groupOwner[x]
    BY <1>5 DEF Contribution, OwnersAfterRegister, is_group_registered
  <2> QED
    BY <1>3, <2>1, <2>2
<1>6. ASSUME NEW u \in Accounts, NEW g \in GroupIds, ClaimRewards(u, g, TRUE)
      PROVE  LosesNoReward
  <2>1. /\ \A x \in GroupIds : groupTotalClaimed'[x] >= groupTotalClaimed[x]
        /\ \A x \in GroupIds, a \in Accounts :
             IF x = g /\ a = u THEN pendingReward'[x][a] = 0 ELSE pendingReward'[x][a] = pendingReward[x][a]
        /\ balance'[u] = balance[u] + pendingReward[g][u]
        /\ groupTotalContributed' = groupTotalContributed
        /\ contributedAmount' = contributedAmount /\ groupOwner' = groupOwner
    BY <1>0, <1>6 DEF ClaimRewards
  <2> QED
    BY <1>0, <2>1 DEF LosesNoReward, is_group_registered
<1>7. ASSUME NEW a \in Accounts, NEW c \in CoreContracts, SetCoreContract(a, c)
      PROVE  LosesNoReward
  BY <1>1, <1>7 DEF SetCoreContract
<1>8. ASSUME NEW from \in Accounts, NEW to \in Holders, NEW n \in Amounts, Transfer(from, to, n)
      PROVE  LosesNoReward
  BY <1>1, <1>8 DEF Transfer
<1>9. ASSUME NEW from \in Accounts, NEW n \in Amounts, Burn(from, n)
      PROVE  LosesNoReward
  BY <1>1, <1>9 DEF Burn
<1> QED
  BY <1>2, <1>4, <1>5, <1>6, <1>7, <1>8, <1>9
     DEF RewardNext, LinkStep, CallsOf, Claim, AnyAnswer, HolderStep

(* A pending reward disappears only by being paid in full, and no step of  *)
(* any linked contract takes a contribution or a registration back.        *)
THEOREM RewardsAlwaysKept == RewardSpec => RewardsNeverLost
BY LedgerInit, LedgerStep, NothingLost, RewardTypeCorrect, PTL DEF RewardSpec, RewardsNeverLost

-----------------------------------------------------------------------------
SupplyInv == SupplyFromClaims /\ SupplyHeld

(* Every entry point keeps the supply covered by claims and balances.      *)
LEMMA SupplyStep ==
  RewardTypeOK /\ LedgerInv /\ SupplyInv /\ [RewardNext]_rewardVars => SupplyInv'
<1> SUFFICES ASSUME RewardTypeOK, UnregisteredEmpty, SupplyFromClaims, SupplyHeld,
                    [RewardNext]_rewardVars
             PROVE  SupplyFromClaims' /\ SupplyHeld'
  BY DEF LedgerInv, SupplyInv
<1>0. /\ RewardTypeOK'
      /\ groupTotalClaimed \in [GroupIds -> I128] /\ groupTotalClaimed' \in [GroupIds -> I128]
      /\ balance \in [Holders -> I128] /\ balance' \in [Holders -> I128]
      /\ totalSupply \in Nat /\ totalSupply' \in Nat
      /\ Accounts \subseteq Holders /\ I128 \subseteq Nat /\ Amounts \subseteq Nat
      /\ totalSupply <= Total(groupTotalClaimed) /\ totalSupply <= Total(balance)
      /\ IsFiniteSet(GroupIds) /\ IsFiniteSet(Holders)
  <2>1. RewardTypeOK'
    BY RewardTypeStep
  <2> QED
    BY <2>1, FiniteAccounts, LedgerAssumption
       DEF RewardTypeOK, I128, Amounts, SupplyFromClaims, SupplyHeld
<1> USE DEF ledgerVars, tokenVars
<1>1. CASE UNCHANGED <<groupTotalClaimed, tokenVars>>
  BY <1>0, <1>1 DEF SupplyFromClaims, SupplyHeld
<1>2. ASSUME NEW u \in Accounts, NEW g \in GroupIds, ClaimRewards(u, g, TRUE)
      PROVE  SupplyFromClaims' /\ SupplyHeld'
  <2>1. /\ groupTotalClaimed'[g] = groupTotalClaimed[g] + pendingReward[g][u]
        /\ \A x \in GroupIds \ {g} : groupTotalClaimed'[x] = groupTotalClaimed[x]
        /\ balance'[u] = balance[u] + pendingReward[g][u]
        /\ \A x \in Holders \ {u} : balance'[x] = balance[x]
        /\ totalSupply' = totalSupply + pendingReward[g][u]
        /\ pendingReward[g][u] \in Nat
    BY <1>0, <1>2 DEF ClaimRewards, RewardTypeOK
  <2>2. /\ Total(groupTotalClaimed) \in Nat
        /\ Total(groupTotalClaimed')
             = Total(groupTotalClaimed) + (groupTotalClaimed'[g] - groupTotalClaimed[g])
    BY <1>0, <2>1, FamilyMoves
  <2>3. /\ Total(balance) \in Nat
        /\ Total(balance') = Total(balance) + (balance'[u] - balance[u])
    BY <1>0, <2>1, FamilyMoves
  <2>4. groupTotalClaimed[g] \in Nat /\ balance[u] \in Nat
    BY <1>0
  <2> QED
    BY <1>0, <2>1, <2>2, <2>3, <2>4 DEF SupplyFromClaims, SupplyHeld
<1>3. ASSUME NEW from \in Accounts, NEW n \in Amounts, Burn(from, n)
      PROVE  SupplyFromClaims' /\ SupplyHeld'
  <2>1. /\ balance'[from] = balance[from] - n
        /\ \A x \in Holders \ {from} : balance'[x] = balance[x]
        /\ totalSupply' = totalSupply - n /\ groupTotalClaimed' = groupTotalClaimed
        /\ n \in Nat
    BY <1>0, <1>3 DEF Burn
  <2>2. /\ Total(balance) \in Nat
        /\ Total(balance') = Total(balance) + (balance'[from] - balance[from])
    BY <1>0, <2>1, FamilyMoves
  <2>3. balance[from] \in Nat /\ Total(groupTotalClaimed) \in Nat
    <3>1. groupTotalClaimed \in [GroupIds -> Nat]
      BY <1>0
    <3> QED
      BY <1>0, <3>1, UnitsFinite
  <2> QED
    BY <1>0, <2>1, <2>2, <2>3 DEF SupplyFromClaims, SupplyHeld
<1>4. ASSUME NEW from \in Accounts, NEW to \in Holders, NEW n \in Amounts, Transfer(from, to, n)
      PROVE  SupplyFromClaims' /\ SupplyHeld'
  <2> DEFINE debited == [balance EXCEPT ![from] = balance[from] - n]
  <2>1. /\ totalSupply' = totalSupply /\ groupTotalClaimed' = groupTotalClaimed /\ n \in Nat
        /\ debited \in [Holders -> I128]
        /\ debited[from] = balance[from] - n
        /\ \A x \in Holders \ {from} : debited[x] = balance[x]
    BY <1>0, <1>4, LedgerAssumption DEF Transfer, I128, Amounts
  <2>2. /\ balance'[to] = balance[to] + n
        /\ \A x \in Holders \ {to} : balance'[x] = debited[x]
    BY <1>0, <1>4 DEF Transfer
  <2> HIDE DEF debited
  <2>3. /\ Total(balance) \in Nat
        /\ Total(debited) = Total(balance) + (debited[from] - balance[from])
    BY <1>0, <2>1, FamilyMoves
  <2>4. Total(balance') = Total(debited) + (balance'[to] - debited[to])
    BY <1>0, <2>1, <2>2, FamilyMoves
  <2>5. balance[from] \in Nat /\ balance[to] \in Nat /\ debited[to] \in Nat
    BY <1>0, <2>1
  <2>6. Total(balance') \in Nat /\ Total(balance') >= Total(balance)
    <3>1. Total(balance') \in Nat
      BY <1>0, <2>1, <2>2, FamilyMoves
    <3> QED
      BY <1>0, <2>1, <2>2, <2>3, <2>4, <2>5, <3>1
  <2> QED
    BY <1>0, <2>1, <2>3, <2>6 DEF SupplyFromClaims, SupplyHeld
<1>5. ASSUME NEW c \in CoreContracts, NEW g \in GroupIds, NEW o \in Accounts,
             RegisterGroup(c, g, o)
      PROVE  SupplyFromClaims' /\ SupplyHeld'
  BY <1>1, <1>5, RegisterKeepsTotals DEF RegisterGroup
<1>6. ASSUME NEW c \in CoreContracts, NEW g \in GroupIds, NEW u \in Accounts, NEW n \in Amounts,
             RecordContribution(c, g, u, n)
      PROVE  SupplyFromClaims' /\ SupplyHeld'
  BY <1>1, <1>6 DEF RecordContribution
<1>7. ASSUME NEW c \in CoreContracts, NEW g \in GroupIds, NEW o \in Accounts,
             NEW u \in Accounts, NEW n \in Amounts, Contribution(c, g, o, u, n)
      PROVE  SupplyFromClaims' /\ SupplyHeld'
  BY <1>1, <1>7, RegisterKeepsTotals DEF Contribution
<1>8. ASSUME NEW a \in Accounts, NEW c \in CoreContracts, SetCoreContract(a, c)
      PROVE  SupplyFromClaims' /\ SupplyHeld'
  BY <1>1, <1>8 DEF SetCoreContract
<1>9. CASE UNCHANGED rewardVars
  BY <1>1, <1>9 DEF rewardVars
<1> QED
  BY <1>2, <1>3, <1>4, <1>5, <1>6, <1>7, <1>8, <1>9
     DEF RewardNext, LinkStep, CallsOf, Claim, AnyAnswer, HolderStep

(* The empty supply is covered.                                            *)
LEMMA SupplyInit == RewardInit => SupplyInv
<1> SUFFICES ASSUME RewardInit
             PROVE  SupplyInv
  OBVIOUS
<1>1. groupTotalClaimed \in [GroupIds -> Nat] /\ \A g \in GroupIds : groupTotalClaimed[g] = 0
  BY DEF RewardInit
<1>2. balance \in [Holders -> Nat] /\ \A h \in Holders : balance[h] = 0
  BY DEF RewardInit
<1>3. Total(groupTotalClaimed) = 0 /\ Total(balance) = 0
  BY <1>1, <1>2, TotalZero
<1> QED
  BY <1>3 DEF RewardInit, SupplyInv, SupplyFromClaims, SupplyHeld

LEMMA SupplyInvariant == RewardSpec => []SupplyInv
BY SupplyInit, SupplyStep, LedgerInit, LedgerStep, RewardTypeCorrect, PTL
   DEF RewardSpec, SupplyInv

(* Every token in circulation was claimed by somebody (claim_rewards).     *)
THEOREM SupplyAlwaysBacked == RewardSpec => []SupplyFromClaims
BY SupplyInvariant, PTL DEF SupplyInv

(* The supply is held by somebody: balances may exceed it, by transfers to *)
(* oneself, and never fall short of it (transfer, burn).                   *)
THEOREM SupplyAlwaysHeld == RewardSpec => []SupplyHeld
BY SupplyInvariant, PTL DEF SupplyInv
=============================================================================
