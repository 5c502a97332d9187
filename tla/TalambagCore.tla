---------------------------- MODULE TalambagCore ----------------------------
(***************************************************************************)
(* One deployment of the core contract (contracts/src/lib.rs) and the      *)
(* token contracts of its groups' assets.  A step is one successful        *)
(* transaction: an entry point that returns an error or traps leaves the   *)
(* ledger unchanged, so every refusal of the code is a guard.  Storage     *)
(* keys become partial functions (groups, pools) and a relation (members); *)
(* a second write of a key replaces the first.                             *)
(***************************************************************************)
EXTENDS Ledger, Totals

CONSTANTS
  Core,             (* the address of this contract                     *)
  Admin,            (* the constructor's argument                       *)
  Assets,           (* what create_group accepts as an asset            *)
  Tokens,           (* the assets that are token contracts              *)
  RewardsContracts, (* addresses set_rewards_contract may be given      *)
  InitialTokens     (* token holdings when the contract is deployed     *)

ASSUME CoreAssumption ==
  /\ Core \in Holders \ Accounts
  /\ Admin \in Accounts
  /\ Tokens \subseteq Assets
  /\ None \notin RewardsContracts
  /\ InitialTokens \in [Tokens -> [Holders -> I128]]

VARIABLES
  nextGroupId,      (* DataKey::NextGroupId, 1 while unset              *)
  rewardsContract,  (* DataKey::RewardsContract                         *)
  groups,           (* DataKey::Group                                   *)
  members,          (* DataKey::GroupMember: <<group id, address>>      *)
  pools,            (* DataKey::Pool, by <<group id, pool id>>          *)
  tokens            (* what each holder owns of each token              *)

coreVars == <<nextGroupId, rewardsContract, groups, members, pools, tokens>>

Group == [owner : Accounts, asset : Assets,
          member_count : 1 .. U32Max, next_pool_id : 1 .. U32Max]
Pool  == [organizer : Accounts, balance : I128]

-----------------------------------------------------------------------------
(* Writing a storage key.                                                  *)
Put(store, key, value) ==
  [k \in DOMAIN store \cup {key} |-> IF k = key THEN value ELSE store[k]]

(* checked_increment_u32 succeeds.                                         *)
CanIncrement(n) == n + 1 <= U32Max

is_member(g, a) == <<g, a>> \in members

MembersOf(g) == {a \in Holders : is_member(g, a)}

(* Holdings after the token contract's transfer, which debits the sender   *)
(* before it credits the receiver: a transfer to oneself changes nothing.  *)
Transferred(t, from, to, n) ==
  LET debited == [tokens EXCEPT ![t][from] = @ - n]
  IN  [debited EXCEPT ![t][to] = @ + n]

TransferAllowed(t, from, to, n) ==
  /\ t \in Tokens
  /\ tokens[t][from] >= n
  /\ Transferred(t, from, to, n)[t][to] <= I128Max
-----------------------------------------------------------------------------
CoreInit ==
  /\ nextGroupId = 1
  /\ rewardsContract = None
  /\ groups = [g \in {} |-> 0]
  /\ members = {}
  /\ pools = [p \in {} |-> 0]
  /\ tokens = InitialTokens

SetRewardsContract(admin, r) ==
  /\ admin = Admin
  /\ rewardsContract' = r
  /\ UNCHANGED <<nextGroupId, groups, members, pools, tokens>>

(* Mutant of CreateGroup: the incremented counter is not saved.            *)
CreateGroupUncounted(owner, asset) ==
  /\ CanIncrement(nextGroupId)
  /\ groups' = Put(groups, nextGroupId,
                   [owner |-> owner, asset |-> asset,
                    member_count |-> 1, next_pool_id |-> 1])
  /\ members' = members \cup {<<nextGroupId, owner>>}
  /\ UNCHANGED <<nextGroupId, rewardsContract, pools, tokens>>

CreateGroup(owner, asset) ==
  /\ CanIncrement(nextGroupId)
  /\ groups' = Put(groups, nextGroupId,
                   [owner |-> owner, asset |-> asset,
                    member_count |-> 1, next_pool_id |-> 1])
  /\ members' = members \cup {<<nextGroupId, owner>>}
  /\ nextGroupId' = nextGroupId + 1
  /\ UNCHANGED <<rewardsContract, pools, tokens>>

(* Mutant of AddMember: the AlreadyMember check is missing.                *)
AddMemberAgain(owner, g, member) ==
  /\ g \in DOMAIN groups
  /\ groups[g].owner = owner
  /\ CanIncrement(groups[g].member_count)
  /\ members' = members \cup {<<g, member>>}
  /\ groups' = [groups EXCEPT ![g].member_count = @ + 1]
  /\ UNCHANGED <<nextGroupId, rewardsContract, pools, tokens>>

AddMember(owner, g, member) ==
  /\ g \in DOMAIN groups
  /\ groups[g].owner = owner
  /\ ~is_member(g, member)
  /\ CanIncrement(groups[g].member_count)
  /\ members' = members \cup {<<g, member>>}
  /\ groups' = [groups EXCEPT ![g].member_count = @ + 1]
  /\ UNCHANGED <<nextGroupId, rewardsContract, pools, tokens>>

(* Mutants of CreatePool: anyone may create one; the group is not saved,   *)
(* so the next pool takes the same identifier.                             *)
CreatePoolByAnyone(creator, g) ==
  /\ g \in DOMAIN groups
  /\ CanIncrement(groups[g].next_pool_id)
  /\ pools' = Put(pools, <<g, groups[g].next_pool_id>>,
                  [organizer |-> creator, balance |-> 0])
  /\ groups' = [groups EXCEPT ![g].next_pool_id = @ + 1]
  /\ UNCHANGED <<nextGroupId, rewardsContract, members, tokens>>

CreatePoolUncounted(creator, g) ==
  /\ g \in DOMAIN groups
  /\ is_member(g, creator)
  /\ CanIncrement(groups[g].next_pool_id)
  /\ pools' = Put(pools, <<g, groups[g].next_pool_id>>,
                  [organizer |-> creator, balance |-> 0])
  /\ UNCHANGED <<nextGroupId, rewardsContract, groups, members, tokens>>

CreatePool(creator, g) ==
  /\ g \in DOMAIN groups
  /\ is_member(g, creator)
  /\ CanIncrement(groups[g].next_pool_id)
  /\ pools' = Put(pools, <<g, groups[g].next_pool_id>>,
                  [organizer |-> creator, balance |-> 0])
  /\ groups' = [groups EXCEPT ![g].next_pool_id = @ + 1]
  /\ UNCHANGED <<nextGroupId, rewardsContract, members, tokens>>

(* Mutants of Deposit: the transfer is missing; anyone may deposit.        *)
DepositUnpaid(from, g, p, amount) ==
  /\ g \in DOMAIN groups
  /\ is_member(g, from)
  /\ <<g, p>> \in DOMAIN pools
  /\ pools[<<g, p>>].balance + amount <= I128Max
  /\ pools' = [pools EXCEPT ![<<g, p>>].balance = @ + amount]
  /\ UNCHANGED <<nextGroupId, rewardsContract, groups, members, tokens>>

DepositByAnyone(from, g, p, amount) ==
  /\ g \in DOMAIN groups
  /\ <<g, p>> \in DOMAIN pools
  /\ TransferAllowed(groups[g].asset, from, Core, amount)
  /\ tokens' = Transferred(groups[g].asset, from, Core, amount)
  /\ pools[<<g, p>>].balance + amount <= I128Max
  /\ pools' = [pools EXCEPT ![<<g, p>>].balance = @ + amount]
  /\ UNCHANGED <<nextGroupId, rewardsContract, groups, members>>

Deposit(from, g, p, amount) ==
  /\ g \in DOMAIN groups
  /\ is_member(g, from)
  /\ <<g, p>> \in DOMAIN pools
  /\ TransferAllowed(groups[g].asset, from, Core, amount)
  /\ tokens' = Transferred(groups[g].asset, from, Core, amount)
  /\ pools[<<g, p>>].balance + amount <= I128Max
  /\ pools' = [pools EXCEPT ![<<g, p>>].balance = @ + amount]
  /\ UNCHANGED <<nextGroupId, rewardsContract, groups, members>>

(* Mutants of Withdraw: the pool is not saved; its balance is not checked. *)
WithdrawUndebited(organizer, g, p, to, amount) ==
  /\ g \in DOMAIN groups
  /\ <<g, p>> \in DOMAIN pools
  /\ pools[<<g, p>>].organizer = organizer
  /\ pools[<<g, p>>].balance >= amount
  /\ TransferAllowed(groups[g].asset, Core, to, amount)
  /\ tokens' = Transferred(groups[g].asset, Core, to, amount)
  /\ UNCHANGED <<nextGroupId, rewardsContract, groups, members, pools>>

WithdrawUnchecked(organizer, g, p, to, amount) ==
  /\ g \in DOMAIN groups
  /\ <<g, p>> \in DOMAIN pools
  /\ pools[<<g, p>>].organizer = organizer
  /\ TransferAllowed(groups[g].asset, Core, to, amount)
  /\ tokens' = Transferred(groups[g].asset, Core, to, amount)
  /\ pools' = [pools EXCEPT ![<<g, p>>].balance = @ - amount]
  /\ UNCHANGED <<nextGroupId, rewardsContract, groups, members>>

Withdraw(organizer, g, p, to, amount) ==
  /\ g \in DOMAIN groups
  /\ <<g, p>> \in DOMAIN pools
  /\ pools[<<g, p>>].organizer = organizer
  /\ pools[<<g, p>>].balance >= amount
  /\ TransferAllowed(groups[g].asset, Core, to, amount)
  /\ tokens' = Transferred(groups[g].asset, Core, to, amount)
  /\ pools' = [pools EXCEPT ![<<g, p>>].balance = @ - amount]
  /\ UNCHANGED <<nextGroupId, rewardsContract, groups, members>>

(* Accounts also move their tokens without the contract, to it included.   *)
TokenTransfer(t, from, to, n) ==
  /\ TransferAllowed(t, from, to, n)
  /\ tokens' = Transferred(t, from, to, n)
  /\ UNCHANGED <<nextGroupId, rewardsContract, groups, members, pools>>

(* The entry points that call the rewards contract once it is linked, and  *)
(* the rest.                                                               *)
RewardedStep ==
  \/ \E a \in Accounts, asset \in Assets : CreateGroup(a, asset)
  \/ \E a \in Accounts, g \in GroupIds, p \in PoolIds, n \in Amounts :
       Deposit(a, g, p, n)

LocalStep ==
  \/ \E a \in Accounts, r \in RewardsContracts : SetRewardsContract(a, r)
  \/ \E a \in Accounts, g \in GroupIds, m \in Holders : AddMember(a, g, m)
  \/ \E a \in Accounts, g \in GroupIds : CreatePool(a, g)
  \/ \E a \in Accounts, g \in GroupIds, p \in PoolIds, to \in Holders, n \in Amounts :
       Withdraw(a, g, p, to, n)
  \/ \E t \in Tokens, from \in Accounts, to \in Holders, n \in Amounts :
       TokenTransfer(t, from, to, n)

CoreNext == RewardedStep \/ LocalStep

CoreSpec == CoreInit /\ [][CoreNext]_coreVars
-----------------------------------------------------------------------------
(* The contract's storage and the token ledgers stay well typed.           *)
CoreTypeOK ==
  /\ nextGroupId \in 1 .. U32Max
  /\ rewardsContract \in RewardsContracts \cup {None}
  /\ DOMAIN groups \subseteq GroupIds
  /\ groups \in [DOMAIN groups -> Group]
  /\ members \subseteq (DOMAIN groups) \X Holders
  /\ DOMAIN pools \subseteq (DOMAIN groups) \X PoolIds
  /\ pools \in [DOMAIN pools -> Pool]
  /\ tokens \in [Tokens -> [Holders -> I128]]

(***************************************************************************)
(* The contract owns, of every token, at least the sum of the pools kept   *)
(* in that token.  Pools of many groups share one custody account, so a    *)
(* pool credited without a transfer, or paid out of another pool's money,  *)
(* would only show when the last organizer withdraws (deposit, withdraw).  *)
(***************************************************************************)
PoolFunds(t) ==
  [k \in DOMAIN pools |-> IF groups[k[1]].asset = t THEN pools[k].balance ELSE 0]

PoolsHold(t) == Total(PoolFunds(t))

Solvency == \A t \in Tokens : PoolsHold(t) <= tokens[t][Core]

(***************************************************************************)
(* The frontend lists groups 1 .. group_count - 1 and pools 1 ..           *)
(* next_pool_id - 1 by identifier and has no other index: every identifier *)
(* below the counter is taken and none at or above it.                     *)
(***************************************************************************)
IdsDense ==
  /\ DOMAIN groups = 1 .. (nextGroupId - 1)
  /\ \A g \in DOMAIN groups :
       {p \in PoolIds : <<g, p>> \in DOMAIN pools} = 1 .. (groups[g].next_pool_id - 1)

(***************************************************************************)
(* member_count is kept beside the membership keys, which cannot be        *)
(* enumerated on chain: it must count them exactly (create_group,          *)
(* add_member).                                                            *)
(***************************************************************************)
MemberCountExact ==
  \A g \in DOMAIN groups : groups[g].member_count = Cardinality(MembersOf(g))

(***************************************************************************)
(* Owners are members of their groups and organizers of the groups of      *)
(* their pools, although membership and the two roles are separate keys.   *)
(***************************************************************************)
RolesAreMembers ==
  /\ \A g \in DOMAIN groups : is_member(g, groups[g].owner)
  /\ \A k \in DOMAIN pools : is_member(k[1], pools[k].organizer)

(***************************************************************************)
(* What a group or a pool was created as is never rewritten and no         *)
(* membership is revoked: no operation, and in particular no reuse of an   *)
(* identifier, may change a group's owner or asset or a pool's organizer.  *)
(***************************************************************************)
KeepsRoles ==
  /\ members \subseteq members'
  /\ \A g \in DOMAIN groups :
       /\ g \in DOMAIN groups'
       /\ groups'[g].owner = groups[g].owner
       /\ groups'[g].asset = groups[g].asset
  /\ \A k \in DOMAIN pools :
       /\ k \in DOMAIN pools'
       /\ pools'[k].organizer = pools[k].organizer

RolesPermanent == [][KeepsRoles]_coreVars

(***************************************************************************)
(* Seen from outside, the contract is an escrow: pots are its pools, the   *)
(* reserve is what it owns (deposit, withdraw, create_pool).               *)
(***************************************************************************)
E == INSTANCE Escrow WITH
       PotKeys <- GroupIds \X PoolIds,
       Amounts <- Amounts,
       pots    <- [k \in DOMAIN pools |->
                     [asset |-> groups[k[1]].asset, amount |-> pools[k].balance]],
       reserve <- [t \in Tokens |-> tokens[t][Core]]

ImplementsEscrow == E!EscrowSpec
=============================================================================
