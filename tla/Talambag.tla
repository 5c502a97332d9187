------------------------------ MODULE Talambag ------------------------------
(***************************************************************************)
(* One core deployment and one rewards deployment that may be linked to    *)
(* each other.  The two links are separate administrator transactions, in  *)
(* any order, and may be changed later.  A call from one contract to the   *)
(* other is part of the caller's transaction: that both succeed or neither *)
(* is what the Soroban host promises, and assumed here.                    *)
(* A different deployment linked on either side is an environment: it may  *)
(* answer anything or trap.                                                *)
(***************************************************************************)
EXTENDS TalambagCore, RewardToken

CONSTANT Rewards   (* the address of this rewards deployment *)

ASSUME TalambagAssumption ==
  /\ Rewards \in RewardsContracts
  /\ Core \in CoreContracts

VARIABLE foreign   (* history: another core contract has been linked      *)

vars == <<coreVars, rewardVars, foreign>>

Linked == rewardsContract = Rewards /\ coreContract = Core

Init == CoreInit /\ RewardInit /\ foreign = FALSE

(* create_group ends with register_group_with_rewards.                     *)
CreateGroupTx(owner, asset) ==
  /\ CreateGroup(owner, asset)
  /\ IF rewardsContract = Rewards
     THEN RegisterGroup(Core, nextGroupId, owner)
     ELSE UNCHANGED rewardVars

(* Mutants of DepositTx: the contribution is not recorded; the payer is    *)
(* registered as the owner.                                                *)
DepositTxUnrecorded(from, g, p, amount) ==
  /\ Deposit(from, g, p, amount)
  /\ IF rewardsContract = Rewards
     THEN RegisterGroup(Core, g, groups[g].owner)
     ELSE UNCHANGED rewardVars

DepositTxByPayer(from, g, p, amount) ==
  /\ Deposit(from, g, p, amount)
  /\ IF rewardsContract = Rewards
     THEN Contribution(Core, g, from, from, amount)
     ELSE UNCHANGED rewardVars

(* deposit ends with record_contribution_with_rewards, which registers the *)
(* group before it records.                                                *)
DepositTx(from, g, p, amount) ==
  /\ Deposit(from, g, p, amount)
  /\ IF rewardsContract = Rewards
     THEN Contribution(Core, g, groups[g].owner, from, amount)
     ELSE UNCHANGED rewardVars

(* What claim_rewards learns from the linked core contract; is_member      *)
(* traps for a group this deployment does not know.                        *)
Eligible(g, u) ==
  coreContract = Core => g \in DOMAIN groups /\ is_member(g, u)

Step ==
  \/ LocalStep /\ UNCHANGED rewardVars
  \/ \E a \in Accounts, asset \in Assets : CreateGroupTx(a, asset)
  \/ \E a \in Accounts, g \in GroupIds, p \in PoolIds, n \in Amounts :
       DepositTx(a, g, p, n)
  \/ /\ \/ LinkStep
        \/ \E c \in CoreContracts \ {Core} : CallsOf(c)
        \/ Claim(Eligible)
        \/ HolderStep
     /\ UNCHANGED coreVars

Next ==
  /\ Step
  /\ foreign' = (foreign \/ coreContract' \notin {Core, None})

Spec == Init /\ [][Next]_vars
-----------------------------------------------------------------------------
TypeOK == CoreTypeOK /\ RewardTypeOK

OnlyThisCore == ~foreign

(***************************************************************************)
(* The owner of a group is stored in both contracts.  As long as no other  *)
(* core contract was ever linked, the two copies agree; the registration   *)
(* every deposit repeats is refused otherwise, and the deposit with it     *)
(* (record_contribution_with_rewards, register_group).                     *)
(***************************************************************************)
RegisteredOwnersAgree ==
  OnlyThisCore => \A g \in DOMAIN groupOwner :
                    /\ g \in DOMAIN groups
                    /\ groupOwner[g] = groups[g].owner

(***************************************************************************)
(* A reward that was earned can be claimed: its group is registered, the   *)
(* rewards contract is linked and the core contract will confirm the       *)
(* membership, so NotEligible and the trap of is_member are unreachable    *)
(* (claim_rewards, deposit, add_member).                                   *)
(***************************************************************************)
PendingClaimable ==
  OnlyThisCore => \A g \in GroupIds, u \in Accounts :
                    pendingReward[g][u] > 0 =>
                      /\ is_group_registered(g)
                      /\ coreContract = Core
                      /\ g \in DOMAIN groups
                      /\ is_member(g, u)

(***************************************************************************)
(* While the contracts are linked, what the pools of a group receive is    *)
(* what the group earns, in the same transaction, and the account that     *)
(* earns is the one that paid (deposit, record_contribution).              *)
(***************************************************************************)
GroupFunds(g) ==
  Total([k \in DOMAIN pools |-> IF k[1] = g THEN pools[k].balance ELSE 0])

DepositsEarn ==
  [][\A g \in GroupIds :
       /\ rewardsContract = Rewards /\ GroupFunds(g)' > GroupFunds(g) =>
            groupTotalContributed'[g] - groupTotalContributed[g]
              = GroupFunds(g)' - GroupFunds(g)
       /\ coreContract = Core /\ groupTotalContributed'[g] > groupTotalContributed[g] =>
            \E u \in Accounts :
              /\ contributedAmount'[g][u] - contributedAmount[g][u]
                   = tokens[groups[g].asset][u] - tokens'[groups[g].asset][u]
              /\ contributedAmount'[g][u] - contributedAmount[g][u]
                   = GroupFunds(g)' - GroupFunds(g)]_vars

(***************************************************************************)
(* README.md:843: until both links are set, deposits only affect the core  *)
(* contract.  A deposit the core contract itself would take must then not  *)
(* be refused by the rewards contract.                                     *)
(***************************************************************************)
UnlinkedDepositsAccepted ==
  rewardsContract = Rewards /\ coreContract = None =>
    \A k \in DOMAIN pools : CanRegister(Core, k[1], groups[k[1]].owner)
=============================================================================
