---------------------------- MODULE TalambagProofs ---------------------------
(* Theorems of the pair of contracts: what each promises alone it still    *)
(* promises in the pair, and what the two ledgers say of each other.       *)
EXTENDS Talambag, TalambagCoreProofs, RewardTokenProofs

(* A step of the pair is a step of the core contract or none.              *)
LEMMA CoreStep == [Next]_vars => [CoreNext]_coreVars
BY DEF Next, Step, vars, CreateGroupTx, DepositTx, CoreNext, RewardedStep

(* A step of the pair is a step of the rewards contract or none: the two   *)
(* calls a deposit makes are one Contribution.                             *)
LEMMA RewardStep == CoreTypeOK /\ [Next]_vars => [RewardNext]_rewardVars
<1> SUFFICES ASSUME CoreTypeOK, [Next]_vars
             PROVE  [RewardNext]_rewardVars
  OBVIOUS
<1>0. Core \in CoreContracts
  BY TalambagAssumption
<1>1. ASSUME NEW a \in Accounts, NEW asset \in Assets, CreateGroupTx(a, asset)
      PROVE  [RewardNext]_rewardVars
  <2>1. CASE rewardsContract = Rewards
    <3>1. PICK g \in GroupIds : g = nextGroupId
      BY DEF CoreTypeOK, GroupIds
    <3>2. RegisterGroup(Core, g, a)
      BY <1>1, <2>1, <3>1 DEF CreateGroupTx
    <3> QED
      BY <1>0, <3>2 DEF RewardNext, CallsOf
  <2>2. CASE rewardsContract # Rewards
    BY <1>1, <2>2 DEF CreateGroupTx
  <2> QED
    BY <2>1, <2>2
<1>2. ASSUME NEW a \in Accounts, NEW g \in GroupIds, NEW p \in PoolIds, NEW n \in Amounts,
             DepositTx(a, g, p, n)
      PROVE  [RewardNext]_rewardVars
  <2>1. CASE rewardsContract = Rewards
    <3>1. groups[g].owner \in Accounts
      BY <1>2 DEF DepositTx, Deposit, CoreTypeOK, Group
    <3>2. PICK o \in Accounts : o = groups[g].owner
      BY <3>1
    <3>3. Contribution(Core, g, o, a, n)
      BY <1>2, <2>1, <3>2 DEF DepositTx
    <3> QED
      BY <1>0, <3>3 DEF RewardNext, CallsOf
  <2>2. CASE rewardsContract # Rewards
    BY <1>2, <2>2 DEF DepositTx
  <2> QED
    BY <2>1, <2>2
<1>3. ASSUME NEW u \in Accounts, NEW g \in GroupIds, ClaimRewards(u, g, Eligible(g, u))
      PROVE  [RewardNext]_rewardVars
  <2>1. ClaimRewards(u, g, TRUE)
    BY <1>3 DEF ClaimRewards
  <2> QED
    BY <2>1 DEF RewardNext, Claim, AnyAnswer
<1>4. CASE LinkStep \/ HolderStep \/ \E c \in CoreContracts \ {Core} : CallsOf(c)
  BY <1>4 DEF RewardNext
<1>5. CASE UNCHANGED rewardVars
  BY <1>5
<1> QED
  BY <1>1, <1>2, <1>3, <1>4, <1>5 DEF Next, Step, vars, Claim

(* By the shape of Next, for a call between the contracts is one step with *)
(* its caller's, a behaviour of the pair is one of each contract: what is  *)
(* proved of a contract alone can be used here.                            *)
LEMMA PairIsCore == Spec => CoreSpec
<1>1. Init => CoreInit
  BY DEF Init
<1> QED
  BY <1>1, CoreStep, PTL DEF Spec, CoreSpec

(* For the rewards contract the values passed have to be of its types.     *)
LEMMA PairIsRewards == Spec => RewardSpec
<1>1. Init => CoreInit /\ RewardInit
  BY DEF Init
<1> QED
  BY <1>1, CoreStep, RewardStep, TypeInit, TypeStep, PTL DEF Spec, RewardSpec

(* So both contracts are well typed in the pair.                           *)
THEOREM TypeCorrect == Spec => []TypeOK
BY PairIsCore, PairIsRewards, CoreTypeCorrect, RewardTypeCorrect, PTL
   DEF TypeOK

(* The core contract is solvent in the pair, whatever the rewards do.      *)
THEOREM PairSolvent == Spec => []Solvency
BY PairIsCore, AlwaysSolvent, PTL
-----------------------------------------------------------------------------
(* Until another core contract is linked, only this one ever was.          *)
OwnLink == OnlyThisCore => coreContract \in {Core, None}

(* A step that links another core contract is remembered.                  *)
LEMMA OwnLinkStep == OwnLink /\ [Next]_vars => OwnLink'
BY DEF OwnLink, OnlyThisCore, Next, vars, rewardVars

(* So it holds in every reachable state.                                   *)
LEMMA OwnLinkAlways == Spec => []OwnLink
<1>1. Init => OwnLink
  BY DEF Init, RewardInit, OwnLink
<1> QED
  BY <1>1, OwnLinkStep, PTL DEF Spec

(* So nothing calls the rewards contract but this core contract.           *)
LEMMA NoForeignCall ==
  ASSUME OwnLink, OnlyThisCore, NEW c \in CoreContracts \ {Core}, CallsOf(c)
  PROVE  FALSE
BY RewardAssumption
   DEF OwnLink, CallsOf, RegisterGroup, RecordContribution, Contribution, CanRegister

(* The two copies of an owner agree: a registration comes from this core   *)
(* contract, with the owner it stores, and neither copy is ever rewritten. *)
LEMMA OwnersStep ==
  CoreTypeOK /\ IdsDense /\ RewardTypeOK /\ OwnLink /\ RegisteredOwnersAgree /\ [Next]_vars
    => RegisteredOwnersAgree'
<1> SUFFICES ASSUME CoreTypeOK, IdsDense, RewardTypeOK, OwnLink, RegisteredOwnersAgree,
                    [Next]_vars, OnlyThisCore', NEW x \in DOMAIN groupOwner'
             PROVE  x \in DOMAIN groups' /\ groupOwner'[x] = groups'[x].owner
  BY DEF RegisteredOwnersAgree
<1> OnlyThisCore
  BY DEF OnlyThisCore, Next, vars
<1>0. /\ \A g \in DOMAIN groupOwner : g \in DOMAIN groups /\ groupOwner[g] = groups[g].owner
      /\ nextGroupId \notin DOMAIN groups
  BY LedgerAssumption DEF RegisteredOwnersAgree, CoreTypeOK, IdsDense
<1>1. \A g \in DOMAIN groups : g \in DOMAIN groups' /\ groups'[g].owner = groups[g].owner
  <2>1. [CoreNext]_coreVars
    BY CoreStep
  <2>2. CASE CoreNext
    BY <2>2, RolesKept DEF KeepsRoles
  <2>3. CASE UNCHANGED coreVars
    BY <2>3 DEF coreVars
  <2> QED
    BY <2>1, <2>2, <2>3
<1>2. CASE groupOwner' = groupOwner
  BY <1>0, <1>1, <1>2
<1>3. ASSUME NEW a \in Accounts, NEW asset \in Assets, CreateGroupTx(a, asset)
      PROVE  x \in DOMAIN groups' /\ groupOwner'[x] = groups'[x].owner
  <2>1. nextGroupId \in DOMAIN groups' /\ groups'[nextGroupId].owner = a
    BY <1>3 DEF CreateGroupTx, CreateGroup, Put
  <2>2. CASE rewardsContract = Rewards
    BY <1>0, <1>1, <1>3, <2>1, <2>2
       DEF CreateGroupTx, RegisterGroup, OwnersAfterRegister, CanRegister, is_group_registered
  <2>3. CASE rewardsContract # Rewards
    BY <1>2, <1>3, <2>3 DEF CreateGroupTx, rewardVars, ledgerVars
  <2> QED
    BY <2>2, <2>3
<1>4. ASSUME NEW a \in Accounts, NEW g \in GroupIds, NEW p \in PoolIds, NEW n \in Amounts,
             DepositTx(a, g, p, n)
      PROVE  x \in DOMAIN groups' /\ groupOwner'[x] = groups'[x].owner
  <2>1. g \in DOMAIN groups
    BY <1>4 DEF DepositTx, Deposit
  <2>2. CASE rewardsContract = Rewards
    BY <1>0, <1>1, <1>4, <2>1, <2>2
       DEF DepositTx, Contribution, OwnersAfterRegister, CanRegister, is_group_registered
  <2>3. CASE rewardsContract # Rewards
    BY <1>2, <1>4, <2>3 DEF DepositTx, rewardVars, ledgerVars
  <2> QED
    BY <2>2, <2>3
<1>5. CASE LinkStep \/ HolderStep \/ Claim(Eligible)
  BY <1>2, <1>5
     DEF LinkStep, HolderStep, Claim, SetCoreContract, Transfer, Burn, ClaimRewards, ledgerVars
<1>6. CASE UNCHANGED rewardVars
  BY <1>2, <1>6 DEF rewardVars, ledgerVars
<1> QED
  BY <1>3, <1>4, <1>5, <1>6, NoForeignCall DEF Next, Step, vars

(* While no other core contract is ever linked, a deposit is never refused *)
(* for its group's owner, and a group's owner is the same in both.         *)
THEOREM OwnersAlwaysAgree == Spec => []RegisteredOwnersAgree
<1>1. Init => RegisteredOwnersAgree
  BY DEF Init, RewardInit, RegisteredOwnersAgree
<1>2. Spec => []CoreTypeOK /\ []IdsDense /\ []RewardTypeOK
  BY PairIsCore, PairIsRewards, CoreTypeCorrect, IdsAlwaysDense,
     RewardTypeCorrect, PTL
<1> QED
  BY <1>1, <1>2, OwnersStep, OwnLinkAlways, PTL DEF Spec

(* A pending reward of a member stays claimable: the membership, the       *)
(* registration and the link it needs are never taken away.                *)
LEMMA ClaimableStep ==
  (/\ CoreTypeOK /\ IdsDense /\ RewardTypeOK /\ LedgerInv
   /\ OwnLink /\ PendingClaimable /\ [Next]_vars) => PendingClaimable'
<1> SUFFICES ASSUME CoreTypeOK, IdsDense, RewardTypeOK, LedgerInv, OwnLink, PendingClaimable,
                    [Next]_vars, OnlyThisCore', NEW x \in GroupIds, NEW y \in Accounts,
                    pendingReward'[x][y] > 0
             PROVE  /\ x \in DOMAIN groupOwner'
                    /\ coreContract' = Core
                    /\ x \in DOMAIN groups'
                    /\ <<x, y>> \in members'
  BY DEF PendingClaimable, is_member, is_group_registered
<1> OnlyThisCore
  BY DEF OnlyThisCore, Next, vars
<1>0. /\ \A g \in GroupIds, u \in Accounts :
           pendingReward[g][u] > 0 =>
             /\ g \in DOMAIN groupOwner /\ coreContract = Core
             /\ g \in DOMAIN groups /\ <<g, u>> \in members
      /\ pendingReward \in [GroupIds -> [Accounts -> Nat]]
  BY LedgerAssumption
     DEF PendingClaimable, is_member, is_group_registered, RewardTypeOK, I128
<1>1. /\ \A g \in DOMAIN groups : g \in DOMAIN groups'
      /\ members \subseteq members'
  <2>1. [CoreNext]_coreVars
    BY CoreStep
  <2>2. CASE CoreNext
    BY <2>2, RolesKept DEF KeepsRoles
  <2>3. CASE UNCHANGED coreVars
    BY <2>3 DEF coreVars
  <2> QED
    BY <2>1, <2>2, <2>3
<1>2. /\ \A g \in DOMAIN groupOwner : g \in DOMAIN groupOwner'
      /\ coreContract = Core => coreContract' = Core
  <2>1. [RewardNext]_rewardVars
    BY RewardStep
  <2>2. CASE RewardNext
    <3>1. \A g \in DOMAIN groupOwner : g \in DOMAIN groupOwner'
      BY <2>2, NothingLost DEF LosesNoReward, RewardTypeOK, is_group_registered
    <3>2. coreContract' = coreContract \/ coreContract' \in CoreContracts
      BY <2>2 DEF RewardNext, LinkStep, CallsOf, Claim, HolderStep, AnyAnswer,
         SetCoreContract, RegisterGroup, RecordContribution, Contribution, ClaimRewards,
         Transfer, Burn
    <3>3. coreContract' = coreContract \/ coreContract' = Core
      BY <3>2, RewardAssumption DEF OnlyThisCore, Next, vars, rewardVars
    <3> QED
      BY <3>1, <3>3
  <2>3. CASE UNCHANGED rewardVars
    BY <2>3 DEF rewardVars, ledgerVars
  <2> QED
    BY <2>1, <2>2, <2>3
<1>3. CASE pendingReward[x][y] > 0
  BY <1>0, <1>1, <1>2, <1>3
<1>4. CASE ~(pendingReward[x][y] > 0)
  <2>1. CASE pendingReward'[x][y] = pendingReward[x][y]
    BY <1>4, <2>1
  <2>2. ASSUME NEW a \in Accounts, NEW g \in GroupIds, NEW p \in PoolIds, NEW n \in Amounts,
               DepositTx(a, g, p, n)
        PROVE  /\ x \in DOMAIN groupOwner'
               /\ coreContract' = Core
               /\ x \in DOMAIN groups'
               /\ <<x, y>> \in members'
    <3>1. g \in DOMAIN groups /\ <<g, a>> \in members
      BY <2>2 DEF DepositTx, Deposit, is_member
    <3>2. CASE rewardsContract = Rewards
      <4>1. pendingReward' = [pendingReward EXCEPT ![g][a] = @ + n]
        BY <2>2, <3>2 DEF DepositTx, Contribution, Credit
      <4>2. CASE x = g /\ y = a
        BY <1>1, <2>2, <3>1, <3>2, <4>2
           DEF DepositTx, Contribution, CanRegister, OwnersAfterRegister, is_group_registered
      <4>3. CASE ~(x = g /\ y = a)
        BY <1>0, <2>1, <4>1, <4>3
      <4> QED
        BY <4>2, <4>3
    <3>3. CASE rewardsContract # Rewards
      BY <2>1, <2>2, <3>3 DEF DepositTx, rewardVars, ledgerVars
    <3> QED
      BY <3>2, <3>3
  <2>3. ASSUME NEW a \in Accounts, NEW asset \in Assets, CreateGroupTx(a, asset)
        PROVE  pendingReward'[x][y] = pendingReward[x][y]
    BY <2>3 DEF CreateGroupTx, RegisterGroup, rewardVars, ledgerVars
  <2>4. ASSUME NEW u \in Accounts, NEW g \in GroupIds, ClaimRewards(u, g, Eligible(g, u))
        PROVE  pendingReward'[x][y] = pendingReward[x][y]
    <3>1. pendingReward' = [pendingReward EXCEPT ![g][u] = 0]
      BY <2>4 DEF ClaimRewards
    <3> QED
      BY <1>0, <3>1
  <2>5. CASE LinkStep \/ HolderStep \/ UNCHANGED rewardVars
    BY <2>1, <2>5 DEF LinkStep, HolderStep, SetCoreContract, Transfer, Burn, rewardVars, ledgerVars
  <2> QED
    BY <2>1, <2>2, <2>3, <2>4, <2>5, NoForeignCall DEF Next, Step, vars, Claim
<1> QED
  BY <1>3, <1>4

(* What was earned can be claimed, whatever happened since.                *)
THEOREM AlwaysClaimable == Spec => []PendingClaimable
<1>1. Init => PendingClaimable
  BY DEF Init, RewardInit, PendingClaimable
<1>2. Spec => []CoreTypeOK /\ []IdsDense /\ []RewardTypeOK /\ []LedgerInv
  <2>1. RewardSpec => []LedgerInv
    BY LedgerInit, LedgerStep, RewardTypeCorrect, PTL DEF RewardSpec
  <2> QED
    BY <2>1, PairIsCore, PairIsRewards, CoreTypeCorrect, IdsAlwaysDense,
       RewardTypeCorrect, PTL
<1> QED
  BY <1>1, <1>2, ClaimableStep, OwnLinkAlways, PTL DEF Spec
-----------------------------------------------------------------------------
(* What the pools of the group x hold, pool by pool, ...                   *)
FundsOf(x) == [k \in DOMAIN pools |-> IF k[1] = x THEN pools[k].balance ELSE 0]

(* ... is a family of natural numbers, and has a total.                    *)
LEMMA FundsOfType ==
  ASSUME CoreTypeOK, NEW x
  PROVE  /\ IsFiniteSet(DOMAIN pools) /\ FundsOf(x) \in [DOMAIN pools -> Nat]
         /\ GroupFunds(x) = Total(FundsOf(x)) /\ GroupFunds(x) \in Nat
<1>1. IsFiniteSet(DOMAIN pools)
  BY PoolsFinite
<1>2. FundsOf(x) \in [DOMAIN pools -> Nat]
  BY LedgerAssumption DEF CoreTypeOK, FundsOf, Pool, I128
<1>3. GroupFunds(x) = Total(FundsOf(x))
  BY DEF GroupFunds, FundsOf
<1> QED
  BY <1>1, <1>2, <1>3, UnitsFinite

(* One balance of the group g moves by n, and no other: so do the group's  *)
(* funds, and no other group's.                                            *)
LEMMA FundsMove ==
  ASSUME CoreTypeOK, CoreTypeOK', NEW x, NEW g, NEW p, <<g, p>> \in DOMAIN pools,
         DOMAIN pools' = DOMAIN pools,
         \A k \in DOMAIN pools : k # <<g, p>> => pools'[k] = pools[k]
  PROVE  /\ GroupFunds(x) \in Nat /\ GroupFunds(x)' \in Nat
         /\ pools[<<g, p>>].balance \in Nat /\ pools'[<<g, p>>].balance \in Nat
         /\ x # g => GroupFunds(x)' = GroupFunds(x)
         /\ x = g => GroupFunds(x)' - pools'[<<g, p>>].balance
                       = GroupFunds(x) - pools[<<g, p>>].balance
<1> DEFINE k == <<g, p>>
           D == DOMAIN pools
           f == FundsOf(x)
           h == [y \in D |-> IF y[1] = x THEN pools'[y].balance ELSE 0]
<1>1. /\ IsFiniteSet(D) /\ f \in [D -> Nat] /\ GroupFunds(x) = Total(f) /\ GroupFunds(x) \in Nat
  BY FundsOfType
<1>2. /\ h \in [D -> Nat]
      /\ pools[k].balance \in Nat /\ pools'[k].balance \in Nat
  BY LedgerAssumption DEF CoreTypeOK, Pool, I128
<1>3. GroupFunds(x)' = Total(h)
  BY DEF GroupFunds
<1>4. \A y \in D \ {k} : h[y] = f[y]
  BY DEF FundsOf
<1>5. k \in D /\ k[1] = g
  OBVIOUS
<1>6. /\ h[k] = IF g = x THEN pools'[k].balance ELSE 0
      /\ f[k] = IF g = x THEN pools[k].balance ELSE 0
  BY <1>5 DEF FundsOf
<1> HIDE DEF f, h, D, k
<1>7. Total(f) \in Nat /\ Total(h) \in Nat /\ Total(h) - h[k] = Total(f) - f[k]
  BY <1>1, <1>2, <1>4, <1>5, TotalExcept
<1>8. /\ x # g => Total(h) = Total(f)
      /\ x = g => Total(h) - pools'[k].balance = Total(f) - pools[k].balance
  BY <1>6, <1>7
<1> QED
  BY <1>1, <1>2, <1>3, <1>7, <1>8 DEF k

(* No other entry point than deposit raises what a group's pools hold.     *)
LEMMA OnlyDepositsFund ==
  ASSUME CoreTypeOK, CoreTypeOK', IdsDense, NEW x \in GroupIds,
         \/ LocalStep
         \/ \E a \in Accounts, asset \in Assets : CreateGroup(a, asset)
         \/ UNCHANGED coreVars
  PROVE  GroupFunds(x) \in Nat /\ GroupFunds(x)' \in Nat /\ ~(GroupFunds(x)' > GroupFunds(x))
<1>0. GroupFunds(x) \in Nat
  BY FundsOfType
<1>1. CASE pools' = pools
  <2>1. GroupFunds(x)' = GroupFunds(x)
    BY <1>1 DEF GroupFunds
  <2> QED
    BY <1>0, <2>1
<1>2. ASSUME NEW a \in Accounts, NEW g \in GroupIds, CreatePool(a, g)
      PROVE  GroupFunds(x)' = GroupFunds(x)
  <2> DEFINE k == <<g, groups[g].next_pool_id>>
             D == DOMAIN pools
             f == FundsOf(x)
             h == [y \in D \cup {k} |-> IF y[1] = x THEN pools'[y].balance ELSE 0]
  <2>1. k \notin D
    <3>1. g \in DOMAIN groups /\ groups[g].next_pool_id \in 1 .. U32Max
      BY <1>2 DEF CreatePool, CoreTypeOK, Group
    <3>2. {p \in PoolIds : <<g, p>> \in DOMAIN pools} = 1 .. (groups[g].next_pool_id - 1)
      BY <3>1 DEF IdsDense
    <3>3. groups[g].next_pool_id \notin 1 .. (groups[g].next_pool_id - 1)
      BY <3>1, LedgerAssumption
    <3> QED
      BY <3>1, <3>2, <3>3 DEF PoolIds
  <2>2. DOMAIN pools' = D \cup {k} /\ pools'[k].balance = 0
        /\ \A y \in D : pools'[y] = pools[y]
    BY <1>2, <2>1 DEF CreatePool, Put
  <2>3. IsFiniteSet(D) /\ f \in [D -> Nat] /\ GroupFunds(x) = Total(f)
    BY FundsOfType
  <2>4. GroupFunds(x)' = Total(h)
    BY <2>2 DEF GroupFunds
  <2>5. h[k] = 0 /\ \A y \in D : h[y] = f[y]
    BY <2>2 DEF FundsOf
  <2>6. h \in [D \cup {k} -> Nat]
    BY <2>2, LedgerAssumption DEF CoreTypeOK, Pool, I128
  <2> HIDE DEF f, h, D, k
  <2> QED
    BY <2>1, <2>3, <2>4, <2>5, <2>6, TotalExtend
<1>3. ASSUME NEW a \in Accounts, NEW g \in GroupIds, NEW p \in PoolIds, NEW to \in Holders,
             NEW n \in Amounts, Withdraw(a, g, p, to, n)
      PROVE  GroupFunds(x)' \in Nat /\ ~(GroupFunds(x)' > GroupFunds(x))
  <2>1. /\ <<g, p>> \in DOMAIN pools
        /\ pools' = [pools EXCEPT ![<<g, p>>].balance = @ - n]
    BY <1>3 DEF Withdraw
  <2>2. /\ DOMAIN pools' = DOMAIN pools
        /\ \A k \in DOMAIN pools : k # <<g, p>> => pools'[k] = pools[k]
        /\ pools'[<<g, p>>].balance = pools[<<g, p>>].balance - n
    BY <2>1 DEF CoreTypeOK, Pool
  <2>3. n \in Nat
    BY LedgerAssumption DEF Amounts
  <2> QED
    BY <2>1, <2>2, <2>3, FundsMove
<1>4. CASE LocalStep
  BY <1>0, <1>1, <1>2, <1>3, <1>4 DEF LocalStep, SetRewardsContract, AddMember, TokenTransfer
<1>5. CASE \E a \in Accounts, asset \in Assets : CreateGroup(a, asset)
  BY <1>1, <1>5 DEF CreateGroup
<1>6. CASE UNCHANGED coreVars
  BY <1>1, <1>6 DEF coreVars
<1> QED
  BY <1>4, <1>5, <1>6

(* What DepositsEarn asks of a group in a step.                            *)
Earns(x) ==
  /\ rewardsContract = Rewards /\ GroupFunds(x)' > GroupFunds(x) =>
       groupTotalContributed'[x] - groupTotalContributed[x] = GroupFunds(x)' - GroupFunds(x)
  /\ coreContract = Core /\ groupTotalContributed'[x] > groupTotalContributed[x] =>
       \E u \in Accounts :
         /\ contributedAmount'[x][u] - contributedAmount[x][u]
              = tokens[groups[x].asset][u] - tokens'[groups[x].asset][u]
         /\ contributedAmount'[x][u] - contributedAmount[x][u] = GroupFunds(x)' - GroupFunds(x)

(* A deposit: the pool gains what the payer pays and what the rewards      *)
(* contract credits the payer with; registering the group first takes      *)
(* nothing away, for an unregistered group has earned nothing.             *)
LEMMA DepositEarns ==
  ASSUME CoreTypeOK, CoreTypeOK', RewardTypeOK, UnregisteredEmpty, NEW x \in GroupIds,
         NEW a \in Accounts, NEW g \in GroupIds, NEW p \in PoolIds, NEW n \in Amounts,
         DepositTx(a, g, p, n)
  PROVE  Earns(x)
<1>0. n \in Nat /\ a \in Holders /\ Core \in Holders /\ a # Core
  BY LedgerAssumption, CoreAssumption DEF Amounts
<1>1. /\ <<g, p>> \in DOMAIN pools
      /\ pools' = [pools EXCEPT ![<<g, p>>].balance = @ + n]
      /\ TransferAllowed(groups[g].asset, a, Core, n)
      /\ tokens' = Transferred(groups[g].asset, a, Core, n)
  BY DEF DepositTx, Deposit
<1>2. /\ DOMAIN pools' = DOMAIN pools
      /\ \A k \in DOMAIN pools : k # <<g, p>> => pools'[k] = pools[k]
      /\ pools'[<<g, p>>].balance = pools[<<g, p>>].balance + n
  BY <1>1 DEF CoreTypeOK, Pool
<1>3. /\ GroupFunds(x) \in Nat /\ GroupFunds(x)' \in Nat
      /\ x # g => GroupFunds(x)' = GroupFunds(x)
      /\ x = g => GroupFunds(x)' - GroupFunds(x) = n
  BY <1>0, <1>1, <1>2, FundsMove
<1>4. tokens[groups[g].asset][a] - tokens'[groups[g].asset][a] = n
  <2>1. TransferEffect(groups[g].asset, a, Core, n, tokens')
    BY <1>0, <1>1, TransferType
  <2>2. tokens[groups[g].asset][a] \in Nat
    BY <1>0, <1>1, LedgerAssumption DEF TransferAllowed, CoreTypeOK, I128
  <2> QED
    BY <1>0, <2>1, <2>2 DEF TransferEffect
<1>5. /\ groupTotalContributed \in [GroupIds -> Nat]
      /\ contributedAmount \in [GroupIds -> [Accounts -> Nat]]
  BY LedgerAssumption DEF RewardTypeOK, I128
<1>6. CASE rewardsContract # Rewards
  <2>1. groupTotalContributed' = groupTotalContributed
    BY <1>6 DEF DepositTx, rewardVars, ledgerVars
  <2> QED
    BY <1>5, <1>6, <2>1 DEF Earns
<1>7. CASE rewardsContract = Rewards
  <2>1. /\ groupTotalContributed' = [groupTotalContributed EXCEPT ![g] = @ + n]
        /\ contributedAmount' = [contributedAmount EXCEPT ![g][a] = @ + n]
    BY <1>7, RegisterKeepsTotals DEF DepositTx, Contribution, Credit
  <2>2. /\ groupTotalContributed'[x] = groupTotalContributed[x] + IF x = g THEN n ELSE 0
        /\ contributedAmount'[g][a] = contributedAmount[g][a] + n
    BY <1>0, <1>5, <2>1
  <2>3. CASE x # g
    BY <1>3, <1>5, <2>2, <2>3 DEF Earns
  <2>4. CASE x = g
    <3>1. groupTotalContributed'[x] - groupTotalContributed[x] = n
      BY <1>0, <1>5, <2>2, <2>4
    <3>2. contributedAmount'[x][a] - contributedAmount[x][a] = n
      BY <1>0, <1>5, <2>2, <2>4
    <3> QED
      BY <1>3, <1>4, <2>4, <3>1, <3>2 DEF Earns
  <2> QED
    BY <2>3, <2>4
<1> QED
  BY <1>6, <1>7

(* What a deposit adds to a member's contribution the link adds to his     *)
(* earnings in the same step, and no other step adds to either.            *)
LEMMA StepEarns ==
  ASSUME CoreTypeOK, CoreTypeOK', IdsDense, RewardTypeOK, UnregisteredEmpty, [Next]_vars,
         NEW x \in GroupIds
  PROVE  Earns(x)
<1>0. groupTotalContributed[x] \in Nat
  BY LedgerAssumption DEF RewardTypeOK, I128
<1>1. ASSUME GroupFunds(x) \in Nat, GroupFunds(x)' \in Nat, ~(GroupFunds(x)' > GroupFunds(x)),
             coreContract # Core \/ groupTotalContributed'[x] = groupTotalContributed[x]
      PROVE  Earns(x)
  BY <1>0, <1>1 DEF Earns
<1>2. CASE LocalStep /\ UNCHANGED rewardVars
  <2>1. groupTotalContributed' = groupTotalContributed
    BY <1>2 DEF rewardVars, ledgerVars
  <2> QED
    BY <1>1, <1>2, <2>1, OnlyDepositsFund
<1>3. ASSUME NEW a \in Accounts, NEW asset \in Assets, CreateGroupTx(a, asset)
      PROVE  Earns(x)
  <2>1. CreateGroup(a, asset) /\ nextGroupId \in GroupIds
    BY <1>3 DEF CreateGroupTx, CoreTypeOK, GroupIds
  <2>2. groupTotalContributed' = groupTotalContributed
    BY <1>3, <2>1, RegisterKeepsTotals DEF CreateGroupTx, RegisterGroup, rewardVars, ledgerVars
  <2> QED
    BY <1>1, <2>1, <2>2, OnlyDepositsFund
<1>4. ASSUME LinkStep \/ HolderStep \/ Claim(Eligible), UNCHANGED coreVars
      PROVE  Earns(x)
  <2>1. groupTotalContributed' = groupTotalContributed
    BY <1>4 DEF LinkStep, HolderStep, Claim, SetCoreContract, Transfer, Burn, ClaimRewards,
                ledgerVars
  <2> QED
    BY <1>1, <1>4, <2>1, OnlyDepositsFund
<1>5. ASSUME NEW c \in CoreContracts \ {Core}, CallsOf(c), UNCHANGED coreVars
      PROVE  Earns(x)
  <2>1. coreContract # Core
    BY <1>5 DEF CallsOf, RegisterGroup, RecordContribution, Contribution, CanRegister
  <2> QED
    BY <1>1, <1>5, <2>1, OnlyDepositsFund
<1>6. CASE UNCHANGED vars
  <2>1. groupTotalContributed' = groupTotalContributed /\ UNCHANGED coreVars
    BY <1>6 DEF vars, rewardVars, ledgerVars
  <2> QED
    BY <1>1, <2>1, OnlyDepositsFund
<1> QED
  BY <1>2, <1>3, <1>4, <1>5, <1>6, DepositEarns DEF Next, Step

(* What the pools of a group receive is what the group earns, in one step, *)
(* and the account that earns is the one that paid.                        *)
THEOREM DepositsAlwaysEarn == Spec => DepositsEarn
<1> DEFINE A == \A g \in GroupIds : Earns(g)
<1>1. CoreTypeOK /\ CoreTypeOK' /\ IdsDense /\ RewardTypeOK /\ LedgerInv /\ [Next]_vars => [A]_vars
  BY StepEarns DEF LedgerInv
<1>2. Spec => []CoreTypeOK /\ []IdsDense /\ []RewardTypeOK /\ []LedgerInv
  <2>1. RewardSpec => []LedgerInv
    BY LedgerInit, LedgerStep, RewardTypeCorrect, PTL DEF RewardSpec
  <2> QED
    BY <2>1, PairIsCore, PairIsRewards, CoreTypeCorrect, IdsAlwaysDense,
       RewardTypeCorrect, PTL
<1>3. Spec => [][A]_vars
  BY <1>1, <1>2, PTL DEF Spec
<1>4. [][A]_vars => DepositsEarn
  BY PTL DEF DepositsEarn, Earns
<1> QED
  BY <1>3, <1>4, PTL
=============================================================================
