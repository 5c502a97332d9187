----------------------------- MODULE RewardToken ----------------------------
(***************************************************************************)
(* One deployment of the rewards contract (contracts/rewards/src/lib.rs).  *)
(* A step is one successful transaction; refusals and traps are guards.    *)
(* Amount keys read with unwrap_or(0) are total functions with default 0;  *)
(* GroupOwner, whose presence is tested, is a partial function.            *)
(***************************************************************************)
EXTENDS Ledger, Totals

CONSTANTS
  RewardsAdmin,   (* the constructor's argument                          *)
  CoreContracts   (* addresses set_core_contract may be given            *)

ASSUME RewardAssumption ==
  /\ RewardsAdmin \in Accounts
  /\ None \notin CoreContracts

VARIABLES
  coreContract,           (* DataKey::CoreContract                       *)
  groupOwner,             (* DataKey::GroupOwner, present if registered  *)
  groupTotalContributed,  (* DataKey::GroupTotalContributed              *)
  groupTotalClaimed,      (* DataKey::GroupTotalClaimed                  *)
  pendingReward,          (* DataKey::PendingReward, by group and owner  *)
  contributedAmount,      (* DataKey::ContributedAmount, the same        *)
  balance,                (* DataKey::Balance                            *)
  totalSupply             (* DataKey::TotalSupply                        *)

ledgerVars == <<groupOwner, groupTotalContributed, pendingReward, contributedAmount>>
tokenVars  == <<balance, totalSupply>>
rewardVars == <<coreContract, ledgerVars, groupTotalClaimed, tokenVars>>

is_group_registered(g) == g \in DOMAIN groupOwner
-----------------------------------------------------------------------------
RewardInit ==
  /\ coreContract = None
  /\ groupOwner = [g \in {} |-> 0]
  /\ groupTotalContributed = [g \in GroupIds |-> 0]
  /\ groupTotalClaimed = [g \in GroupIds |-> 0]
  /\ pendingReward = [g \in GroupIds |-> [u \in Accounts |-> 0]]
  /\ contributedAmount = [g \in GroupIds |-> [u \in Accounts |-> 0]]
  /\ balance = [h \in Holders |-> 0]
  /\ totalSupply = 0

SetCoreContract(admin, c) ==
  /\ admin = RewardsAdmin
  /\ coreContract' = c
  /\ UNCHANGED <<ledgerVars, groupTotalClaimed, tokenVars>>

(* register_group accepts the linked core contract only; a group that is   *)
(* already registered must come back with the same owner.                  *)
CanRegister(caller, g, owner) ==
  /\ coreContract = caller
  /\ is_group_registered(g) => groupOwner[g] = owner

OwnersAfterRegister(g, owner) ==
  IF is_group_registered(g)
  THEN groupOwner
  ELSE [x \in DOMAIN groupOwner \cup {g} |-> IF x = g THEN owner ELSE groupOwner[x]]

(* Mutant of TotalsAfterRegister: every registration resets the totals.    *)
TotalsAlwaysReset(totals, g) == [totals EXCEPT ![g] = 0]

(* A first registration writes 0 to both totals of the group.              *)
TotalsAfterRegister(totals, g) ==
  IF is_group_registered(g) THEN totals ELSE [totals EXCEPT ![g] = 0]

RegisterGroup(caller, g, owner) ==
  /\ CanRegister(caller, g, owner)
  /\ groupOwner' = OwnersAfterRegister(g, owner)
  /\ groupTotalContributed' = TotalsAfterRegister(groupTotalContributed, g)
  /\ groupTotalClaimed' = TotalsAfterRegister(groupTotalClaimed, g)
  /\ UNCHANGED <<coreContract, pendingReward, contributedAmount, tokenVars>>

(* The body of record_contribution, once its guards hold: three checked    *)
(* additions, then three writes.                                           *)
Credit(totals, g, user, amount) ==
  /\ totals[g] + amount <= I128Max
  /\ contributedAmount[g][user] + amount <= I128Max
  /\ pendingReward[g][user] + amount <= I128Max
  /\ groupTotalContributed' = [totals EXCEPT ![g] = @ + amount]
  /\ contributedAmount' = [contributedAmount EXCEPT ![g][user] = @ + amount]
  /\ pendingReward' = [pendingReward EXCEPT ![g][user] = @ + amount]

RecordContribution(caller, g, user, amount) ==
  /\ coreContract = caller
  /\ is_group_registered(g)
  /\ Credit(groupTotalContributed, g, user, amount)
  /\ UNCHANGED <<coreContract, groupOwner, groupTotalClaimed, tokenVars>>

(* The two calls the core contract makes within a deposit: register_group, *)
(* then record_contribution on what that left (core record_contribution_   *)
(* with_rewards).                                                          *)
Contribution(caller, g, owner, user, amount) ==
  /\ CanRegister(caller, g, owner)
  /\ groupOwner' = OwnersAfterRegister(g, owner)
  /\ groupTotalClaimed' = TotalsAfterRegister(groupTotalClaimed, g)
  /\ Credit(TotalsAfterRegister(groupTotalContributed, g), g, user, amount)
  /\ UNCHANGED <<coreContract, tokenVars>>

(* Mutants of ClaimRewards: the group's claimed total is forgotten; the    *)
(* reward replaces the balance it should be added to.                      *)
ClaimUncounted(user, g, isMember) ==
  LET pending == pendingReward[g][user]
  IN  /\ is_group_registered(g) /\ pending > 0 /\ coreContract # None /\ isMember
      /\ balance[user] + pending <= I128Max
      /\ totalSupply + pending <= I128Max
      /\ pendingReward' = [pendingReward EXCEPT ![g][user] = 0]
      /\ balance' = [balance EXCEPT ![user] = @ + pending]
      /\ totalSupply' = totalSupply + pending
      /\ UNCHANGED <<coreContract, groupOwner, groupTotalContributed,
                     groupTotalClaimed, contributedAmount>>

ClaimOverwrites(user, g, isMember) ==
  LET pending == pendingReward[g][user]
  IN  /\ is_group_registered(g) /\ pending > 0 /\ coreContract # None /\ isMember
      /\ totalSupply + pending <= I128Max
      /\ groupTotalClaimed[g] + pending <= I128Max
      /\ pendingReward' = [pendingReward EXCEPT ![g][user] = 0]
      /\ balance' = [balance EXCEPT ![user] = pending]
      /\ totalSupply' = totalSupply + pending
      /\ groupTotalClaimed' = [groupTotalClaimed EXCEPT ![g] = @ + pending]
      /\ UNCHANGED <<coreContract, groupOwner, groupTotalContributed, contributedAmount>>

(* isMember is the linked core contract's answer to is_member.             *)
ClaimRewards(user, g, isMember) ==
  LET pending == pendingReward[g][user]
  IN  /\ is_group_registered(g)
      /\ pending > 0
      /\ coreContract # None
      /\ isMember
      /\ balance[user] + pending <= I128Max
      /\ totalSupply + pending <= I128Max
      /\ groupTotalClaimed[g] + pending <= I128Max
      /\ pendingReward' = [pendingReward EXCEPT ![g][user] = 0]
      /\ balance' = [balance EXCEPT ![user] = @ + pending]
      /\ totalSupply' = totalSupply + pending
      /\ groupTotalClaimed' = [groupTotalClaimed EXCEPT ![g] = @ + pending]
      /\ UNCHANGED <<coreContract, groupOwner, groupTotalContributed, contributedAmount>>

(* Mutant of Transfer: the InsufficientBalance check is missing.           *)
TransferUnchecked(from, to, amount) ==
  /\ balance[to] + amount <= I128Max
  /\ balance' = [balance EXCEPT ![from] = balance[from] - amount,
                                ![to] = balance[to] + amount]
  /\ UNCHANGED <<coreContract, ledgerVars, groupTotalClaimed, totalSupply>>

(* transfer reads both balances before it writes either: when from = to    *)
(* the second write, the increased balance, is the one that stays.         *)
Transfer(from, to, amount) ==
  LET nextFromBalance == balance[from] - amount
      nextToBalance   == balance[to] + amount
  IN  /\ balance[from] >= amount
      /\ nextToBalance <= I128Max
      /\ balance' = [balance EXCEPT ![from] = nextFromBalance, ![to] = nextToBalance]
      /\ UNCHANGED <<coreContract, ledgerVars, groupTotalClaimed, totalSupply>>

(* Mutant of Burn: the supply is not reduced.                              *)
BurnKeepingSupply(from, amount) ==
  /\ balance[from] >= amount
  /\ balance' = [balance EXCEPT ![from] = @ - amount]
  /\ UNCHANGED <<coreContract, ledgerVars, groupTotalClaimed, totalSupply>>

Burn(from, amount) ==
  /\ balance[from] >= amount
  /\ totalSupply >= amount
  /\ balance' = [balance EXCEPT ![from] = @ - amount]
  /\ totalSupply' = totalSupply - amount
  /\ UNCHANGED <<coreContract, ledgerVars, groupTotalClaimed>>

(* Transactions sent to the rewards contract itself.                       *)
Claim(isMember(_, _)) ==
  \E u \in Accounts, g \in GroupIds : ClaimRewards(u, g, isMember(g, u))

HolderStep ==
  \/ \E from \in Accounts, to \in Holders, n \in Amounts : Transfer(from, to, n)
  \/ \E from \in Accounts, n \in Amounts : Burn(from, n)

LinkStep == \E a \in Accounts, c \in CoreContracts : SetCoreContract(a, c)

(* Calls made by whichever contract is linked as the core contract.        *)
CallsOf(caller) ==
  \E g \in GroupIds, o \in Accounts :
    \/ RegisterGroup(caller, g, o)
    \/ \E u \in Accounts, n \in Amounts :
         \/ RecordContribution(caller, g, u, n)
         \/ Contribution(caller, g, o, u, n)

AnyAnswer(g, u) == TRUE

RewardNext ==
  \/ LinkStep
  \/ \E c \in CoreContracts : CallsOf(c)
  \/ Claim(AnyAnswer)
  \/ HolderStep

RewardSpec == RewardInit /\ [][RewardNext]_rewardVars
-----------------------------------------------------------------------------
(* The contract's storage stays well typed.                                *)
RewardTypeOK ==
  /\ coreContract \in CoreContracts \cup {None}
  /\ DOMAIN groupOwner \subseteq GroupIds
  /\ groupOwner \in [DOMAIN groupOwner -> Accounts]
  /\ groupTotalContributed \in [GroupIds -> I128]
  /\ groupTotalClaimed \in [GroupIds -> I128]
  /\ pendingReward \in [GroupIds -> [Accounts -> I128]]
  /\ contributedAmount \in [GroupIds -> [Accounts -> I128]]
  /\ balance \in [Holders -> I128]
  /\ totalSupply \in I128

(***************************************************************************)
(* The four amounts kept per group agree: what its members contributed     *)
(* sums to the group's total, and every unit contributed is either still   *)
(* pending or already claimed, never both and never neither                *)
(* (record_contribution, claim_rewards, register_group's zeroing).         *)
(***************************************************************************)
GroupLedgerExact ==
  \A g \in GroupIds :
    /\ Total(contributedAmount[g]) = groupTotalContributed[g]
    /\ Total(pendingReward[g]) + groupTotalClaimed[g] = groupTotalContributed[g]
    /\ \A u \in Accounts : pendingReward[g][u] <= contributedAmount[g][u]

(***************************************************************************)
(* Tokens come from claims only: the supply never exceeds what all groups' *)
(* members claimed, and the balances cover the supply (claim_rewards,      *)
(* transfer, burn).                                                        *)
(***************************************************************************)
SupplyFromClaims == totalSupply <= Total(groupTotalClaimed)
SupplyHeld       == totalSupply <= Total(balance)

(***************************************************************************)
(* README.md:409: total_supply is the total amount of TLMBG minted across  *)
(* all groups; README.md:408: balance is the wallet's claimed TLMBG.  So   *)
(* holders together own the supply, no more (transfer).                    *)
(***************************************************************************)
BalancesMatchSupply == Total(balance) = totalSupply

(***************************************************************************)
(* A pending reward leaves only by being paid, in full, in tokens to its   *)
(* owner; registration is permanent and what was contributed or claimed    *)
(* never shrinks, whichever contract is linked and however often.          *)
(***************************************************************************)
LosesNoReward ==
  \A g \in GroupIds :
    /\ groupTotalContributed'[g] >= groupTotalContributed[g]
    /\ groupTotalClaimed'[g] >= groupTotalClaimed[g]
    /\ is_group_registered(g) =>
         g \in DOMAIN groupOwner' /\ groupOwner'[g] = groupOwner[g]
    /\ \A u \in Accounts :
         /\ contributedAmount'[g][u] >= contributedAmount[g][u]
         /\ pendingReward'[g][u] < pendingReward[g][u] =>
              /\ pendingReward'[g][u] = 0
              /\ balance'[u] = balance[u] + pendingReward[g][u]

RewardsNeverLost == [][LosesNoReward]_rewardVars
=============================================================================
