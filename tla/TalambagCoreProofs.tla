------------------------- MODULE TalambagCoreProofs -------------------------
(* Theorems of TalambagCore for any accounts, assets, widths and holdings. *)
EXTENDS TalambagCore, TotalsProofs

(* What an allowed transfer of n units of t makes of the holdings: only    *)
(* the sender's and the receiver's change, and none if they are the same.  *)
TransferEffect(t, from, to, n, after) ==
  /\ after \in [Tokens -> [Holders -> I128]]
  /\ \A s \in Tokens \ {t} : after[s] = tokens[s]
  /\ from = to => after[t] = tokens[t]
  /\ from # to => /\ after[t][from] = tokens[t][from] - n
                  /\ after[t][to] = tokens[t][to] + n
  /\ \A h \in Holders \ {from, to} : after[t][h] = tokens[t][h]

(* The transfer debits before it credits and stays within the width.       *)
LEMMA TransferType ==
  ASSUME CoreTypeOK, NEW t, NEW from \in Holders, NEW to \in Holders, NEW n \in Amounts,
         TransferAllowed(t, from, to, n)
  PROVE  TransferEffect(t, from, to, n, Transferred(t, from, to, n))
<1>1. tokens \in [Tokens -> [Holders -> I128]] /\ t \in Tokens
  BY DEF CoreTypeOK, TransferAllowed
<1>2. n \in Nat /\ tokens[t][from] \in Nat /\ tokens[t][to] \in Nat /\ I128Max \in Nat
  BY <1>1, LedgerAssumption DEF Amounts, I128
<1> DEFINE debited == [tokens EXCEPT ![t][from] = @ - n]
           credited == [debited EXCEPT ![t][to] = @ + n]
<1>3. /\ debited \in [Tokens -> [Holders -> I128]]
      /\ debited[t][from] = tokens[t][from] - n
      /\ \A s \in Tokens \ {t} : debited[s] = tokens[s]
      /\ \A h \in Holders \ {from} : debited[t][h] = tokens[t][h]
  BY <1>1, <1>2 DEF TransferAllowed, I128
<1>4. credited[t][to] = debited[t][to] + n /\ credited[t][to] <= I128Max
  BY <1>1, <1>3 DEF TransferAllowed, Transferred
<1>5. /\ credited \in [Tokens -> [Holders -> I128]]
      /\ \A s \in Tokens \ {t} : credited[s] = debited[s]
      /\ \A h \in Holders \ {to} : credited[t][h] = debited[t][h]
  <2> HIDE DEF debited
  <2>1. debited[t][to] + n \in I128
    BY <1>1, <1>2, <1>3, <1>4 DEF I128
  <2> QED
    BY <1>1, <1>3, <2>1
<1>6. Transferred(t, from, to, n) = credited
  BY DEF Transferred
<1>7. from = to => credited[t] = tokens[t]
  <2> HIDE DEF debited, credited
  <2> SUFFICES ASSUME from = to
               PROVE  credited[t] = tokens[t]
    OBVIOUS
  <2>1. credited[t] \in [Holders -> I128] /\ tokens[t] \in [Holders -> I128]
    BY <1>1, <1>5
  <2>2. \A h \in Holders : credited[t][h] = tokens[t][h]
    BY <1>1, <1>2, <1>3, <1>4, <1>5
  <2> QED
    BY <2>1, <2>2
<1> HIDE DEF debited, credited
<1> QED
  BY <1>1, <1>2, <1>3, <1>4, <1>5, <1>6, <1>7 DEF TransferEffect

-----------------------------------------------------------------------------
(* The constructor leaves the storage well typed.                          *)
LEMMA TypeInit == CoreInit => CoreTypeOK
BY LedgerAssumption, CoreAssumption DEF CoreInit, CoreTypeOK

(* Every entry point keeps the storage well typed.                         *)
LEMMA TypeStep == CoreTypeOK /\ [CoreNext]_coreVars => CoreTypeOK'
<1> SUFFICES ASSUME CoreTypeOK, [CoreNext]_coreVars
             PROVE  CoreTypeOK'
  OBVIOUS
<1> USE DEF CoreTypeOK
<1>1. ASSUME NEW a \in Accounts, NEW r \in RewardsContracts, SetRewardsContract(a, r)
      PROVE  CoreTypeOK'
  BY <1>1 DEF SetRewardsContract
<1>2. ASSUME NEW a \in Accounts, NEW asset \in Assets, CreateGroup(a, asset)
      PROVE  CoreTypeOK'
  <2> DEFINE new == [owner |-> a, asset |-> asset, member_count |-> 1, next_pool_id |-> 1]
  <2>1. new \in Group
    BY LedgerAssumption DEF Group
  <2>2. groups' \in [DOMAIN groups \cup {nextGroupId} -> Group]
        /\ DOMAIN groups' = DOMAIN groups \cup {nextGroupId}
    BY <1>2, <2>1 DEF CreateGroup, Put
  <2>3. nextGroupId \in GroupIds /\ nextGroupId + 1 \in 1 .. U32Max
    BY <1>2, LedgerAssumption DEF CreateGroup, CanIncrement, GroupIds
  <2> QED
    BY <1>2, <2>2, <2>3, LedgerAssumption DEF CreateGroup
<1>3. ASSUME NEW a \in Accounts, NEW g \in GroupIds, NEW m \in Holders, AddMember(a, g, m)
      PROVE  CoreTypeOK'
  <2>1. groups' \in [DOMAIN groups -> Group] /\ DOMAIN groups' = DOMAIN groups
    BY <1>3, LedgerAssumption DEF AddMember, CanIncrement, Group
  <2> QED
    BY <1>3, <2>1 DEF AddMember
<1>4. ASSUME NEW a \in Accounts, NEW g \in GroupIds, CreatePool(a, g)
      PROVE  CoreTypeOK'
  <2> DEFINE key == <<g, groups[g].next_pool_id>>
             new == [organizer |-> a, balance |-> 0]
  <2>1. groups' \in [DOMAIN groups -> Group] /\ DOMAIN groups' = DOMAIN groups
    BY <1>4, LedgerAssumption DEF CreatePool, CanIncrement, Group
  <2>2. new \in Pool /\ key \in (DOMAIN groups) \X PoolIds
    BY <1>4, LedgerAssumption DEF CreatePool, Pool, I128, PoolIds, Group
  <2>3. pools' \in [DOMAIN pools \cup {key} -> Pool]
        /\ DOMAIN pools' = DOMAIN pools \cup {key}
    BY <1>4, <2>2 DEF CreatePool, Put
  <2> QED
    BY <1>4, <2>1, <2>2, <2>3 DEF CreatePool
<1>5. ASSUME NEW a \in Accounts, NEW g \in GroupIds, NEW p \in PoolIds, NEW n \in Amounts,
             Deposit(a, g, p, n)
      PROVE  CoreTypeOK'
  <2>1. tokens' \in [Tokens -> [Holders -> I128]]
    BY <1>5, TransferType, LedgerAssumption, CoreAssumption DEF Deposit, TransferEffect
  <2>2. pools' \in [DOMAIN pools -> Pool] /\ DOMAIN pools' = DOMAIN pools
    <3>1. pools[<<g, p>>] \in Pool
      BY <1>5 DEF Deposit
    <3>2. pools[<<g, p>>].balance + n \in I128
      BY <1>5, <3>1, LedgerAssumption DEF Deposit, Pool, I128, Amounts
    <3> QED
      BY <1>5, <3>1, <3>2 DEF Deposit, Pool
  <2> QED
    BY <1>5, <2>1, <2>2 DEF Deposit
<1>6. ASSUME NEW a \in Accounts, NEW g \in GroupIds, NEW p \in PoolIds, NEW to \in Holders,
             NEW n \in Amounts, Withdraw(a, g, p, to, n)
      PROVE  CoreTypeOK'
  <2>1. tokens' \in [Tokens -> [Holders -> I128]]
    BY <1>6, TransferType, LedgerAssumption, CoreAssumption DEF Withdraw, TransferEffect
  <2>2. pools' \in [DOMAIN pools -> Pool] /\ DOMAIN pools' = DOMAIN pools
    <3>1. pools[<<g, p>>] \in Pool
      BY <1>6 DEF Withdraw
    <3>2. pools[<<g, p>>].balance - n \in I128
      BY <1>6, <3>1, LedgerAssumption DEF Withdraw, Pool, I128, Amounts
    <3> QED
      BY <1>6, <3>1, <3>2 DEF Withdraw, Pool
  <2> QED
    BY <1>6, <2>1, <2>2 DEF Withdraw
<1>7. ASSUME NEW t \in Tokens, NEW from \in Accounts, NEW to \in Holders, NEW n \in Amounts,
             TokenTransfer(t, from, to, n)
      PROVE  CoreTypeOK'
  BY <1>7, TransferType, LedgerAssumption DEF TokenTransfer, TransferEffect
<1>8. CASE UNCHANGED coreVars
  BY <1>8 DEF coreVars
<1> QED
  BY <1>1, <1>2, <1>3, <1>4, <1>5, <1>6, <1>7, <1>8 DEF CoreNext, RewardedStep, LocalStep

(* Storage and token ledgers are always well typed: no operation of the    *)
(* contract, whatever its arguments, leaves a counter or an amount outside *)
(* its width.                                                              *)
THEOREM CoreTypeCorrect == CoreSpec => []CoreTypeOK
BY TypeInit, TypeStep, PTL DEF CoreSpec
-----------------------------------------------------------------------------
(* Group and pool identifiers.                                             *)
LEMMA IdsStep ==
  CoreTypeOK /\ IdsDense /\ [CoreNext]_coreVars => IdsDense'
<1> SUFFICES ASSUME CoreTypeOK, IdsDense, [CoreNext]_coreVars
             PROVE  IdsDense'
  OBVIOUS
<1> DEFINE PoolsOf(g) == {p \in PoolIds : <<g, p>> \in DOMAIN pools}
<1>0. /\ DOMAIN groups = 1 .. (nextGroupId - 1)
      /\ \A g \in DOMAIN groups : PoolsOf(g) = 1 .. (groups[g].next_pool_id - 1)
      /\ nextGroupId \in 1 .. U32Max /\ U32Max \in Nat
      /\ \A g \in DOMAIN groups : groups[g] \in Group
      /\ DOMAIN pools \subseteq (DOMAIN groups) \X PoolIds
  BY LedgerAssumption DEF CoreTypeOK, IdsDense
<1>1. ASSUME NEW a \in Accounts, NEW asset \in Assets, CreateGroup(a, asset)
      PROVE  IdsDense'
  <2>1. DOMAIN groups' = (1 .. (nextGroupId - 1)) \cup {nextGroupId} /\ pools' = pools
    BY <1>0, <1>1 DEF CreateGroup, Put
  <2>2. DOMAIN groups' = 1 .. (nextGroupId' - 1)
    <3>1. nextGroupId' = nextGroupId + 1
      BY <1>1 DEF CreateGroup
    <3>2. (1 .. (nextGroupId - 1)) \cup {nextGroupId} = 1 .. ((nextGroupId + 1) - 1)
      BY <1>0
    <3> QED
      BY <2>1, <3>1, <3>2
  <2>3. groups'[nextGroupId].next_pool_id = 1 /\ PoolsOf(nextGroupId) = {}
    BY <1>0, <1>1 DEF CreateGroup, Put
  <2>4. \A g \in DOMAIN groups : g # nextGroupId /\ groups'[g] = groups[g]
    BY <1>0, <1>1 DEF CreateGroup, Put
  <2> QED
    BY <1>0, <2>1, <2>2, <2>3, <2>4 DEF IdsDense
<1>2. ASSUME NEW a \in Accounts, NEW g \in GroupIds, NEW m \in Holders, AddMember(a, g, m)
      PROVE  IdsDense'
  <2>1. DOMAIN groups' = DOMAIN groups /\ pools' = pools /\ nextGroupId' = nextGroupId
    BY <1>2 DEF AddMember
  <2>2. \A x \in DOMAIN groups : groups'[x].next_pool_id = groups[x].next_pool_id
    BY <1>0, <1>2 DEF AddMember, Group
  <2> QED
    BY <1>0, <2>1, <2>2 DEF IdsDense
<1>3. ASSUME NEW a \in Accounts, NEW g \in GroupIds, CreatePool(a, g)
      PROVE  IdsDense'
  <2> DEFINE n == groups[g].next_pool_id
  <2>1. /\ DOMAIN groups' = DOMAIN groups /\ nextGroupId' = nextGroupId
        /\ DOMAIN pools' = DOMAIN pools \cup {<<g, n>>}
    BY <1>3 DEF CreatePool, Put
  <2>2. g \in DOMAIN groups /\ n \in 1 .. U32Max /\ n + 1 <= U32Max
    BY <1>0, <1>3 DEF CreatePool, CanIncrement, Group
  <2>3. groups'[g].next_pool_id = n + 1
    BY <1>0, <1>3, <2>2 DEF CreatePool, Group
  <2>4. \A x \in DOMAIN groups : x # g => groups'[x] = groups[x]
    BY <1>0, <1>3 DEF CreatePool
  <2>5. {p \in PoolIds : <<g, p>> \in DOMAIN pools'} = PoolsOf(g) \cup {n}
    BY <2>1, <2>2 DEF PoolIds
  <2>6. PoolsOf(g) \cup {n} = 1 .. ((n + 1) - 1)
    BY <1>0, <2>2
  <2>7. \A x \in DOMAIN groups : x # g => {p \in PoolIds : <<x, p>> \in DOMAIN pools'} = PoolsOf(x)
    BY <2>1
  <2> HIDE DEF PoolsOf, n
  <2> QED
    BY <1>0, <2>1, <2>2, <2>3, <2>4, <2>5, <2>6, <2>7 DEF IdsDense
<1>4. CASE UNCHANGED <<nextGroupId, groups, DOMAIN pools>>
  BY <1>0, <1>4 DEF IdsDense
<1>5. ASSUME NEW a \in Accounts, NEW g \in GroupIds, NEW p \in PoolIds, NEW n \in Amounts,
             Deposit(a, g, p, n)
      PROVE  IdsDense'
  BY <1>4, <1>5 DEF Deposit
<1>6. ASSUME NEW a \in Accounts, NEW g \in GroupIds, NEW p \in PoolIds, NEW to \in Holders,
             NEW n \in Amounts, Withdraw(a, g, p, to, n)
      PROVE  IdsDense'
  BY <1>4, <1>6 DEF Withdraw
<1>7. ASSUME NEW a \in Accounts, NEW r \in RewardsContracts, SetRewardsContract(a, r)
      PROVE  IdsDense'
  BY <1>4, <1>7 DEF SetRewardsContract
<1>8. ASSUME NEW t \in Tokens, NEW from \in Accounts, NEW to \in Holders, NEW n \in Amounts,
             TokenTransfer(t, from, to, n)
      PROVE  IdsDense'
  BY <1>4, <1>8 DEF TokenTransfer
<1>9. CASE UNCHANGED coreVars
  BY <1>4, <1>9 DEF coreVars
<1> QED
  BY <1>1, <1>2, <1>3, <1>5, <1>6, <1>7, <1>8, <1>9 DEF CoreNext, RewardedStep, LocalStep

(* Identifiers are handed out without gaps and never twice: enumerating    *)
(* them below the counters finds every group and every pool.               *)
THEOREM IdsAlwaysDense == CoreSpec => []IdsDense
<1>1. CoreInit => IdsDense
  BY DEF CoreInit, IdsDense
<1> QED
  BY <1>1, IdsStep, CoreTypeCorrect, PTL DEF CoreSpec
-----------------------------------------------------------------------------
(* Membership.                                                             *)
LEMMA RolesStep ==
  CoreTypeOK /\ IdsDense /\ RolesAreMembers /\ [CoreNext]_coreVars => RolesAreMembers'
<1> SUFFICES ASSUME CoreTypeOK, IdsDense, RolesAreMembers, [CoreNext]_coreVars
             PROVE  RolesAreMembers'
  OBVIOUS
<1>0. /\ DOMAIN pools \subseteq (DOMAIN groups) \X PoolIds
      /\ nextGroupId \notin DOMAIN groups
      /\ \A g \in DOMAIN groups : groups[g] \in Group
      /\ \A k \in DOMAIN pools : pools[k] \in Pool
      /\ \A g \in DOMAIN groups : <<g, groups[g].owner>> \in members
      /\ \A k \in DOMAIN pools : <<k[1], pools[k].organizer>> \in members
  BY LedgerAssumption DEF CoreTypeOK, IdsDense, RolesAreMembers, is_member
<1>1. ASSUME NEW a \in Accounts, NEW asset \in Assets, CreateGroup(a, asset)
      PROVE  RolesAreMembers'
  BY <1>0, <1>1 DEF CreateGroup, Put, RolesAreMembers, is_member
<1>2. ASSUME NEW a \in Accounts, NEW g \in GroupIds, NEW m \in Holders, AddMember(a, g, m)
      PROVE  RolesAreMembers'
  <2>1. \A x \in DOMAIN groups : groups'[x].owner = groups[x].owner
    BY <1>0, <1>2 DEF AddMember, Group
  <2> QED
    BY <1>0, <1>2, <2>1 DEF AddMember, RolesAreMembers, is_member
<1>3. ASSUME NEW a \in Accounts, NEW g \in GroupIds, CreatePool(a, g)
      PROVE  RolesAreMembers'
  <2>1. \A x \in DOMAIN groups : groups'[x].owner = groups[x].owner
    BY <1>0, <1>3 DEF CreatePool, Group
  <2>2. DOMAIN groups' = DOMAIN groups /\ members' = members /\ <<g, a>> \in members
    BY <1>3 DEF CreatePool, is_member
  <2>3. \A k \in DOMAIN pools' : <<k[1], pools'[k].organizer>> \in members
    BY <1>0, <1>3, <2>2 DEF CreatePool, Put
  <2> QED
    BY <1>0, <2>1, <2>2, <2>3 DEF RolesAreMembers, is_member
<1>4. ASSUME NEW a \in Accounts, NEW g \in GroupIds, NEW p \in PoolIds, NEW n \in Amounts,
             Deposit(a, g, p, n)
      PROVE  RolesAreMembers'
  <2>1. \A k \in DOMAIN pools : pools'[k].organizer = pools[k].organizer
    BY <1>0, <1>4 DEF Deposit, Pool
  <2> QED
    BY <1>0, <1>4, <2>1 DEF Deposit, RolesAreMembers, is_member
<1>5. ASSUME NEW a \in Accounts, NEW g \in GroupIds, NEW p \in PoolIds, NEW to \in Holders,
             NEW n \in Amounts, Withdraw(a, g, p, to, n)
      PROVE  RolesAreMembers'
  <2>1. \A k \in DOMAIN pools : pools'[k].organizer = pools[k].organizer
    BY <1>0, <1>5 DEF Withdraw, Pool
  <2> QED
    BY <1>0, <1>5, <2>1 DEF Withdraw, RolesAreMembers, is_member
<1>6. CASE UNCHANGED <<groups, members, pools>>
  BY <1>0, <1>6 DEF RolesAreMembers, is_member
<1>7. ASSUME NEW a \in Accounts, NEW r \in RewardsContracts, SetRewardsContract(a, r)
      PROVE  RolesAreMembers'
  BY <1>6, <1>7 DEF SetRewardsContract
<1>8. ASSUME NEW t \in Tokens, NEW from \in Accounts, NEW to \in Holders, NEW n \in Amounts,
             TokenTransfer(t, from, to, n)
      PROVE  RolesAreMembers'
  BY <1>6, <1>8 DEF TokenTransfer
<1>9. CASE UNCHANGED coreVars
  BY <1>6, <1>9 DEF coreVars
<1> QED
  BY <1>1, <1>2, <1>3, <1>4, <1>5, <1>7, <1>8, <1>9 DEF CoreNext, RewardedStep, LocalStep

(* Every owner and every organizer is a member of the group at all times.  *)
THEOREM RolesAlwaysMembers == CoreSpec => []RolesAreMembers
<1>1. CoreInit => RolesAreMembers
  BY DEF CoreInit, RolesAreMembers
<1> QED
  BY <1>1, RolesStep, CoreTypeCorrect, IdsAlwaysDense, PTL DEF CoreSpec

(* Every entry point keeps the member counts exact.                        *)
LEMMA CountStep ==
  CoreTypeOK /\ IdsDense /\ MemberCountExact /\ [CoreNext]_coreVars => MemberCountExact'
<1> SUFFICES ASSUME CoreTypeOK, IdsDense, MemberCountExact, [CoreNext]_coreVars
             PROVE  MemberCountExact'
  OBVIOUS
<1>0. /\ nextGroupId \notin DOMAIN groups
      /\ members \subseteq (DOMAIN groups) \X Holders
      /\ \A g \in DOMAIN groups : groups[g] \in Group
      /\ Accounts \subseteq Holders
      /\ \A g \in DOMAIN groups : groups[g].member_count = Cardinality(MembersOf(g))
      /\ \A g : IsFiniteSet(MembersOf(g))
  <2>1. \A g : IsFiniteSet(MembersOf(g))
    BY LedgerAssumption, FS_Subset DEF MembersOf
  <2> QED
    BY <2>1, LedgerAssumption DEF CoreTypeOK, IdsDense, MemberCountExact
<1>1. ASSUME NEW a \in Accounts, NEW asset \in Assets, CreateGroup(a, asset)
      PROVE  MemberCountExact'
  <2> PICK id : id = nextGroupId
    OBVIOUS
  <2>1. MembersOf(id)' = {a}
    BY <1>0, <1>1 DEF CreateGroup, MembersOf, is_member
  <2>2. \A g \in DOMAIN groups : MembersOf(g)' = MembersOf(g)
    BY <1>0, <1>1 DEF CreateGroup, MembersOf, is_member
  <2>3. Cardinality({a}) = 1
    BY FS_Singleton
  <2>4. /\ DOMAIN groups' = DOMAIN groups \cup {id}
        /\ groups'[id].member_count = 1
        /\ \A g \in DOMAIN groups : groups'[g] = groups[g]
    BY <1>0, <1>1 DEF CreateGroup, Put
  <2> QED
    BY <1>0, <2>1, <2>2, <2>3, <2>4 DEF MemberCountExact
<1>2. ASSUME NEW a \in Accounts, NEW g \in GroupIds, NEW m \in Holders, AddMember(a, g, m)
      PROVE  MemberCountExact'
  <2>1. g \in DOMAIN groups /\ m \notin MembersOf(g) /\ MembersOf(g)' = MembersOf(g) \cup {m}
    BY <1>0, <1>2 DEF AddMember, MembersOf, is_member
  <2>2. Cardinality(MembersOf(g)') = Cardinality(MembersOf(g)) + 1
    BY <1>0, <2>1, FS_AddElement
  <2>3. \A x \in DOMAIN groups : x # g => MembersOf(x)' = MembersOf(x)
    BY <1>0, <1>2 DEF AddMember, MembersOf, is_member
  <2>4. /\ DOMAIN groups' = DOMAIN groups
        /\ groups'[g].member_count = groups[g].member_count + 1
        /\ \A x \in DOMAIN groups : x # g => groups'[x] = groups[x]
    BY <1>0, <1>2 DEF AddMember, Group
  <2> QED
    BY <1>0, <2>1, <2>2, <2>3, <2>4 DEF MemberCountExact
<1>3. ASSUME NEW a \in Accounts, NEW g \in GroupIds, CreatePool(a, g)
      PROVE  MemberCountExact'
  <2>1. \A x \in DOMAIN groups : groups'[x].member_count = groups[x].member_count
    BY <1>0, <1>3 DEF CreatePool, Group
  <2>2. DOMAIN groups' = DOMAIN groups /\ \A x : MembersOf(x)' = MembersOf(x)
    BY <1>3 DEF CreatePool, MembersOf, is_member
  <2> QED
    BY <1>0, <2>1, <2>2 DEF MemberCountExact
<1>4. CASE UNCHANGED <<groups, members>>
  <2>1. \A x : MembersOf(x)' = MembersOf(x)
    BY <1>4 DEF MembersOf, is_member
  <2> QED
    BY <1>0, <1>4, <2>1 DEF MemberCountExact
<1>5. ASSUME NEW a \in Accounts, NEW g \in GroupIds, NEW p \in PoolIds, NEW n \in Amounts,
             Deposit(a, g, p, n)
      PROVE  MemberCountExact'
  BY <1>4, <1>5 DEF Deposit
<1>6. ASSUME NEW a \in Accounts, NEW g \in GroupIds, NEW p \in PoolIds, NEW to \in Holders,
             NEW n \in Amounts, Withdraw(a, g, p, to, n)
      PROVE  MemberCountExact'
  BY <1>4, <1>6 DEF Withdraw
<1>7. ASSUME NEW a \in Accounts, NEW r \in RewardsContracts, SetRewardsContract(a, r)
      PROVE  MemberCountExact'
  BY <1>4, <1>7 DEF SetRewardsContract
<1>8. ASSUME NEW t \in Tokens, NEW from \in Accounts, NEW to \in Holders, NEW n \in Amounts,
             TokenTransfer(t, from, to, n)
      PROVE  MemberCountExact'
  BY <1>4, <1>8 DEF TokenTransfer
<1>9. CASE UNCHANGED coreVars
  BY <1>4, <1>9 DEF coreVars
<1> QED
  BY <1>1, <1>2, <1>3, <1>5, <1>6, <1>7, <1>8, <1>9 DEF CoreNext, RewardedStep, LocalStep

(* member_count always is the number of members.                           *)
THEOREM CountAlwaysExact == CoreSpec => []MemberCountExact
<1>1. CoreInit => MemberCountExact
  BY DEF CoreInit, MemberCountExact
<1> QED
  BY <1>1, CountStep, CoreTypeCorrect, IdsAlwaysDense, PTL DEF CoreSpec
-----------------------------------------------------------------------------
(* Custody.                                                                *)
(* There are finitely many pools, so what they hold has a total.           *)
LEMMA PoolsFinite == CoreTypeOK => IsFiniteSet(DOMAIN pools)
<1>1. IsFiniteSet(GroupIds) /\ IsFiniteSet(PoolIds)
  BY LedgerAssumption, FS_Interval DEF GroupIds, PoolIds
<1>2. IsFiniteSet(GroupIds \X PoolIds)
  BY <1>1, FS_Product, Zenon
<1>3. CoreTypeOK => DOMAIN pools \subseteq GroupIds \X PoolIds
  BY DEF CoreTypeOK
<1> QED
  BY <1>2, <1>3, FS_Subset

(* What the pools hold of a token is a family of natural numbers.          *)
LEMMA FundsType ==
  CoreTypeOK => \A t : PoolFunds(t) \in [DOMAIN pools -> Nat]
BY LedgerAssumption DEF CoreTypeOK, PoolFunds, Pool, I128

(* Every entry point keeps the contract solvent.                           *)
LEMMA SolvencyStep ==
  CoreTypeOK /\ IdsDense /\ Solvency /\ [CoreNext]_coreVars => Solvency'
<1> SUFFICES ASSUME CoreTypeOK, IdsDense, Solvency, [CoreNext]_coreVars,
                    NEW t \in Tokens
             PROVE  (PoolsHold(t) <= tokens[t][Core])'
  BY DEF Solvency
<1>0. /\ nextGroupId \notin DOMAIN groups
      /\ DOMAIN pools \subseteq (DOMAIN groups) \X PoolIds
      /\ \A g \in DOMAIN groups : groups[g] \in Group
      /\ \A k \in DOMAIN pools : pools[k] \in Pool
      /\ tokens \in [Tokens -> [Holders -> I128]]
      /\ PoolsHold(t) <= tokens[t][Core]
      /\ tokens[t][Core] \in Nat
      /\ IsFiniteSet(DOMAIN pools)
      /\ PoolFunds(t) \in [DOMAIN pools -> Nat]
      /\ CoreTypeOK'
      /\ PoolFunds(t)' \in [DOMAIN pools' -> Nat]
      /\ Core \in Holders \ Accounts /\ Accounts \subseteq Holders
  <2>1. CoreTypeOK'
    BY TypeStep
  <2>2. PoolFunds(t)' \in [DOMAIN pools' -> Nat]
    BY <2>1, FundsType, LedgerAssumption DEF CoreTypeOK, PoolFunds, Pool, I128
  <2>3. tokens \in [Tokens -> [Holders -> I128]] /\ tokens[t][Core] \in Nat
    BY LedgerAssumption, CoreAssumption DEF CoreTypeOK, I128
  <2>4. IsFiniteSet(DOMAIN pools) /\ PoolFunds(t) \in [DOMAIN pools -> Nat]
    BY PoolsFinite, FundsType
  <2>5. nextGroupId \notin DOMAIN groups
    BY LedgerAssumption DEF CoreTypeOK, IdsDense
  <2> QED
    BY <2>1, <2>2, <2>3, <2>4, <2>5, LedgerAssumption, CoreAssumption DEF CoreTypeOK, Solvency
<1>1. PoolsHold(t) \in Nat
  BY <1>0, UnitsFinite DEF PoolsHold
<1>2. ASSUME PoolFunds(t)' = PoolFunds(t), tokens'[t][Core] >= tokens[t][Core], tokens'[t][Core] \in Nat
      PROVE  (PoolsHold(t) <= tokens[t][Core])'
  <2>1. PoolsHold(t)' = PoolsHold(t)
    BY <1>2 DEF PoolsHold
  <2> QED
    BY <1>0, <1>1, <1>2, <2>1
<1>3. ASSUME NEW a \in Accounts, NEW asset \in Assets, CreateGroup(a, asset)
      PROVE  (PoolsHold(t) <= tokens[t][Core])'
  <2>1. \A k \in DOMAIN pools : groups'[k[1]] = groups[k[1]]
    BY <1>0, <1>3 DEF CreateGroup, Put
  <2>2. PoolFunds(t)' = PoolFunds(t)
    BY <1>3, <2>1 DEF PoolFunds, CreateGroup
  <2> QED
    BY <1>0, <1>2, <1>3, <2>2 DEF CreateGroup
<1>4. ASSUME NEW a \in Accounts, NEW g \in GroupIds, NEW m \in Holders, AddMember(a, g, m)
      PROVE  (PoolsHold(t) <= tokens[t][Core])'
  <2>1. \A k \in DOMAIN pools : groups'[k[1]].asset = groups[k[1]].asset
    BY <1>0, <1>4 DEF AddMember, Group
  <2>2. PoolFunds(t)' = PoolFunds(t)
    BY <1>4, <2>1 DEF PoolFunds, AddMember
  <2> QED
    BY <1>0, <1>2, <1>4, <2>2 DEF AddMember
<1>5. ASSUME NEW a \in Accounts, NEW g \in GroupIds, CreatePool(a, g)
      PROVE  (PoolsHold(t) <= tokens[t][Core])'
  <2> DEFINE key == <<g, groups[g].next_pool_id>>
  <2>1. key \notin DOMAIN pools
    BY <1>0, <1>5 DEF CreatePool, IdsDense, PoolIds, Group
  <2>2. \A x \in DOMAIN groups : groups'[x].asset = groups[x].asset
    BY <1>0, <1>5 DEF CreatePool, Group
  <2>3. DOMAIN pools' = DOMAIN pools \cup {key} /\ pools'[key].balance = 0
        /\ \A k \in DOMAIN pools : pools'[k] = pools[k]
    BY <1>5, <2>1 DEF CreatePool, Put
  <2>4. PoolFunds(t)'[key] = 0 /\ \A k \in DOMAIN pools : PoolFunds(t)'[k] = PoolFunds(t)[k]
    BY <1>0, <2>2, <2>3 DEF PoolFunds
  <2>5. Total(PoolFunds(t)') = Total(PoolFunds(t))
    <3> HIDE DEF key
    <3> DEFINE D == DOMAIN pools
               f == PoolFunds(t)
               h == PoolFunds(t)'
    <3>1. IsFiniteSet(D) /\ f \in [D -> Nat] /\ key \notin D
      BY <1>0, <2>1
    <3>2. h \in [D \cup {key} -> Nat]
      BY <1>0, <2>3
    <3>3. h[key] = 0 /\ \A k \in D : h[k] = f[k]
      BY <2>4
    <3> HIDE DEF D, f, h
    <3>4. Total(h) = Total(f)
      BY <3>1, <3>2, <3>3, TotalExtend
    <3> QED
      BY <3>4 DEF f, h
  <2>6. tokens' = tokens
    BY <1>5 DEF CreatePool
  <2> QED
    BY <1>0, <2>5, <2>6 DEF PoolsHold
<1>6. ASSUME NEW key \in DOMAIN pools, NEW n \in Int,
             pools' = [pools EXCEPT ![key].balance = @ + n], groups' = groups,
             tokens'[t][Core] \in Nat,
             IF groups[key[1]].asset = t THEN tokens'[t][Core] >= tokens[t][Core] + n
                                         ELSE tokens'[t][Core] >= tokens[t][Core]
      PROVE  (PoolsHold(t) <= tokens[t][Core])'
  <2>1. DOMAIN pools' = DOMAIN pools
        /\ \A k \in DOMAIN pools \ {key} : pools'[k] = pools[k]
        /\ pools'[key].balance = pools[key].balance + n
    BY <1>0, <1>6 DEF Pool
  <2>2. PoolFunds(t)' \in [DOMAIN pools -> Nat]
        /\ \A k \in DOMAIN pools \ {key} : PoolFunds(t)'[k] = PoolFunds(t)[k]
    BY <1>0, <1>6, <2>1 DEF PoolFunds
  <2>3. /\ Total(PoolFunds(t)) \in Nat /\ Total(PoolFunds(t)') \in Nat
        /\ Total(PoolFunds(t)') - PoolFunds(t)'[key] = Total(PoolFunds(t)) - PoolFunds(t)[key]
    <3> DEFINE D == DOMAIN pools
               f == PoolFunds(t)
               h == PoolFunds(t)'
    <3>1. IsFiniteSet(D) /\ f \in [D -> Nat] /\ h \in [D -> Nat] /\ key \in D
      BY <1>0, <2>2
    <3>2. \A x \in D \ {key} : h[x] = f[x]
      BY <2>2
    <3> HIDE DEF D, f, h
    <3>3. Total(f) \in Nat /\ Total(h) \in Nat /\ Total(h) - h[key] = Total(f) - f[key]
      BY <3>1, <3>2, TotalExcept, Zenon
    <3> QED
      BY <3>3 DEF f, h
  <2>4. PoolFunds(t)'[key] = IF groups[key[1]].asset = t THEN PoolFunds(t)[key] + n
                                                         ELSE PoolFunds(t)[key]
    BY <1>6, <2>1 DEF PoolFunds
  <2>5. PoolFunds(t)[key] \in Nat /\ PoolFunds(t)'[key] \in Nat
    BY <1>0, <2>2
  <2> QED
    BY <1>0, <1>6, <2>3, <2>4, <2>5 DEF PoolsHold
<1>7. ASSUME NEW a \in Accounts, NEW g \in GroupIds, NEW p \in PoolIds, NEW n \in Amounts,
             Deposit(a, g, p, n)
      PROVE  (PoolsHold(t) <= tokens[t][Core])'
  <2>1. /\ <<g, p>> \in DOMAIN pools /\ groups' = groups
        /\ pools' = [pools EXCEPT ![<<g, p>>].balance = @ + n]
        /\ tokens' = Transferred(groups[g].asset, a, Core, n)
        /\ TransferAllowed(groups[g].asset, a, Core, n)
    BY <1>7 DEF Deposit
  <2>2. /\ tokens' \in [Tokens -> [Holders -> I128]]
        /\ IF groups[g].asset = t THEN tokens'[t][Core] = tokens[t][Core] + n
                                  ELSE tokens'[t] = tokens[t]
    <3> DEFINE s == groups[g].asset
    <3>1. a \in Holders /\ Core \in Holders /\ a # Core
      BY <1>0
    <3>2. TransferAllowed(s, a, Core, n) /\ tokens' = Transferred(s, a, Core, n)
      BY <2>1
    <3> HIDE DEF s
    <3>3. TransferEffect(s, a, Core, n, tokens')
      BY <3>1, <3>2, TransferType
    <3> QED
      BY <3>1, <3>3 DEF s, TransferEffect
  <2>3. tokens'[t][Core] \in Nat /\ n \in Int
    BY <1>0, <2>2, LedgerAssumption DEF I128, Amounts
  <2>4. IF groups[<<g, p>>[1]].asset = t THEN tokens'[t][Core] >= tokens[t][Core] + n
                                         ELSE tokens'[t][Core] >= tokens[t][Core]
    BY <1>0, <2>2, <2>3
  <2> QED
    BY <1>6, <2>1, <2>3, <2>4, Zenon
<1>8. ASSUME NEW a \in Accounts, NEW g \in GroupIds, NEW p \in PoolIds, NEW to \in Holders,
             NEW n \in Amounts, Withdraw(a, g, p, to, n)
      PROVE  (PoolsHold(t) <= tokens[t][Core])'
  <2>1. /\ <<g, p>> \in DOMAIN pools /\ groups' = groups
        /\ pools' = [pools EXCEPT ![<<g, p>>].balance = @ - n]
        /\ tokens' = Transferred(groups[g].asset, Core, to, n)
        /\ TransferAllowed(groups[g].asset, Core, to, n)
    BY <1>8 DEF Withdraw
  <2>2. /\ tokens' \in [Tokens -> [Holders -> I128]]
        /\ IF groups[g].asset = t
           THEN tokens'[t][Core] = tokens[t][Core] - n \/ tokens'[t][Core] = tokens[t][Core]
           ELSE tokens'[t] = tokens[t]
    <3> DEFINE s == groups[g].asset
    <3>1. Core \in Holders
      BY <1>0
    <3>2. TransferAllowed(s, Core, to, n) /\ tokens' = Transferred(s, Core, to, n)
      BY <2>1
    <3> HIDE DEF s
    <3>3. TransferEffect(s, Core, to, n, tokens')
      BY <3>1, <3>2, TransferType
    <3> QED
      BY <3>3 DEF s, TransferEffect
  <2>3. tokens'[t][Core] \in Nat /\ n \in Nat /\ -n \in Int
    BY <1>0, <2>2, LedgerAssumption DEF I128, Amounts
  <2>4. pools' = [pools EXCEPT ![<<g, p>>].balance = @ + (-n)]
    BY <1>0, <2>1, <2>3 DEF Pool, I128
  <2>5. IF groups[<<g, p>>[1]].asset = t THEN tokens'[t][Core] >= tokens[t][Core] + (-n)
                                         ELSE tokens'[t][Core] >= tokens[t][Core]
    BY <1>0, <2>2, <2>3
  <2> QED
    BY <1>6, <2>1, <2>3, <2>4, <2>5, Zenon
<1>9. ASSUME NEW s \in Tokens, NEW from \in Accounts, NEW to \in Holders, NEW n \in Amounts,
             TokenTransfer(s, from, to, n)
      PROVE  (PoolsHold(t) <= tokens[t][Core])'
  <2>1. /\ tokens' = Transferred(s, from, to, n) /\ TransferAllowed(s, from, to, n)
        /\ groups' = groups /\ pools' = pools
    BY <1>9 DEF TokenTransfer
  <2>2. /\ tokens' \in [Tokens -> [Holders -> I128]]
        /\ tokens'[t][Core] = tokens[t][Core] + n \/ tokens'[t][Core] = tokens[t][Core]
    BY <1>0, <2>1, TransferType DEF TransferEffect
  <2>3. tokens'[t][Core] \in Nat /\ n \in Nat
    BY <1>0, <2>2, LedgerAssumption DEF I128, Amounts
  <2>4. PoolFunds(t)' = PoolFunds(t)
    BY <2>1 DEF PoolFunds
  <2> QED
    BY <1>0, <1>2, <2>2, <2>3, <2>4
<1>10. CASE UNCHANGED <<groups, pools, tokens>>
  <2>1. PoolFunds(t)' = PoolFunds(t)
    BY <1>10 DEF PoolFunds
  <2> QED
    BY <1>0, <1>2, <1>10, <2>1
<1>11. ASSUME NEW a \in Accounts, NEW r \in RewardsContracts, SetRewardsContract(a, r)
       PROVE  (PoolsHold(t) <= tokens[t][Core])'
  BY <1>10, <1>11 DEF SetRewardsContract
<1>12. CASE UNCHANGED coreVars
  BY <1>10, <1>12 DEF coreVars
<1> QED
  BY <1>3, <1>4, <1>5, <1>7, <1>8, <1>9, <1>11, <1>12 DEF CoreNext, RewardedStep, LocalStep

(* The contract always owns enough of every token to pay all its pools out,*)
(* however many groups share the token and whatever else is sent to it.    *)
THEOREM AlwaysSolvent == CoreSpec => []Solvency
<1>1. CoreInit => Solvency
  <2> SUFFICES ASSUME CoreInit, NEW t \in Tokens
               PROVE  PoolsHold(t) <= tokens[t][Core]
    BY DEF Solvency
  <2>1. DOMAIN pools = {} /\ PoolFunds(t) \in [{} -> Nat]
    BY DEF CoreInit, PoolFunds
  <2>2. PoolsHold(t) = 0
    BY <2>1, TotalZero DEF PoolsHold
  <2> QED
    BY <2>2, LedgerAssumption, CoreAssumption DEF CoreInit, I128
<1> QED
  BY <1>1, SolvencyStep, CoreTypeCorrect, IdsAlwaysDense, PTL DEF CoreSpec
-----------------------------------------------------------------------------
(* What each operation does to the records another one relies on.          *)
LEMMA RolesKept ==
  CoreTypeOK /\ IdsDense /\ CoreNext => KeepsRoles
<1> SUFFICES ASSUME CoreTypeOK, IdsDense, CoreNext
             PROVE  KeepsRoles
  OBVIOUS
<1>0. /\ nextGroupId \notin DOMAIN groups
      /\ DOMAIN pools \subseteq (DOMAIN groups) \X PoolIds
      /\ \A g \in DOMAIN groups : groups[g] \in Group
      /\ \A k \in DOMAIN pools : pools[k] \in Pool
  BY LedgerAssumption DEF CoreTypeOK, IdsDense
<1>1. ASSUME NEW a \in Accounts, NEW asset \in Assets, CreateGroup(a, asset)
      PROVE  KeepsRoles
  BY <1>0, <1>1 DEF CreateGroup, Put, KeepsRoles
<1>2. ASSUME NEW a \in Accounts, NEW g \in GroupIds, NEW m \in Holders, AddMember(a, g, m)
      PROVE  KeepsRoles
  <2>1. \A x \in DOMAIN groups : groups'[x].owner = groups[x].owner
                                 /\ groups'[x].asset = groups[x].asset
    BY <1>0, <1>2 DEF AddMember, Group
  <2> QED
    BY <1>2, <2>1 DEF AddMember, KeepsRoles
<1>3. ASSUME NEW a \in Accounts, NEW g \in GroupIds, CreatePool(a, g)
      PROVE  KeepsRoles
  <2>1. \A x \in DOMAIN groups : groups'[x].owner = groups[x].owner
                                 /\ groups'[x].asset = groups[x].asset
    BY <1>0, <1>3 DEF CreatePool, Group
  <2>2. <<g, groups[g].next_pool_id>> \notin DOMAIN pools
    BY <1>0, <1>3 DEF CreatePool, IdsDense, PoolIds, Group
  <2>3. \A k \in DOMAIN pools : k \in DOMAIN pools' /\ pools'[k] = pools[k]
    BY <1>3, <2>2 DEF CreatePool, Put
  <2> QED
    BY <1>3, <2>1, <2>3 DEF CreatePool, KeepsRoles
<1>4. ASSUME NEW a \in Accounts, NEW g \in GroupIds, NEW p \in PoolIds, NEW n \in Amounts,
             Deposit(a, g, p, n)
      PROVE  KeepsRoles
  <2>1. \A k \in DOMAIN pools : pools'[k].organizer = pools[k].organizer
    BY <1>0, <1>4 DEF Deposit, Pool
  <2> QED
    BY <1>4, <2>1 DEF Deposit, KeepsRoles
<1>5. ASSUME NEW a \in Accounts, NEW g \in GroupIds, NEW p \in PoolIds, NEW to \in Holders,
             NEW n \in Amounts, Withdraw(a, g, p, to, n)
      PROVE  KeepsRoles
  <2>1. \A k \in DOMAIN pools : pools'[k].organizer = pools[k].organizer
    BY <1>0, <1>5 DEF Withdraw, Pool
  <2> QED
    BY <1>5, <2>1 DEF Withdraw, KeepsRoles
<1>6. ASSUME NEW a \in Accounts, NEW r \in RewardsContracts, SetRewardsContract(a, r)
      PROVE  KeepsRoles
  BY <1>6 DEF SetRewardsContract, KeepsRoles
<1>7. ASSUME NEW t \in Tokens, NEW from \in Accounts, NEW to \in Holders, NEW n \in Amounts,
             TokenTransfer(t, from, to, n)
      PROVE  KeepsRoles
  BY <1>7 DEF TokenTransfer, KeepsRoles
<1> QED
  BY <1>1, <1>2, <1>3, <1>4, <1>5, <1>6, <1>7 DEF CoreNext, RewardedStep, LocalStep

(* No sequence of operations rewrites an owner, an asset or an organizer,  *)
(* or revokes a membership.                                                *)
THEOREM RolesNeverChange == CoreSpec => RolesPermanent
BY RolesKept, CoreTypeCorrect, IdsAlwaysDense, PTL DEF CoreSpec, RolesPermanent

-----------------------------------------------------------------------------
(* The escrow a state of the contract stands for.                          *)
Pots == [k \in DOMAIN pools |->
           [asset |-> groups[k[1]].asset, amount |-> pools[k].balance]]

Reserve == [t \in Tokens |-> tokens[t][Core]]

(* Every operation is an operation of the escrow or leaves it as it is.    *)
LEMMA EscrowStep ==
  CoreTypeOK /\ IdsDense /\ [CoreNext]_coreVars => [E!EscrowNext]_(E!escrowVars)
<1> SUFFICES ASSUME CoreTypeOK, IdsDense, [CoreNext]_coreVars
             PROVE  [E!EscrowNext]_(E!escrowVars)
  OBVIOUS
<1>0. /\ nextGroupId \notin DOMAIN groups
      /\ DOMAIN pools \subseteq (DOMAIN groups) \X PoolIds
      /\ DOMAIN groups \subseteq GroupIds
      /\ \A g \in DOMAIN groups : groups[g] \in Group
      /\ \A k \in DOMAIN pools : pools[k] \in Pool
      /\ tokens \in [Tokens -> [Holders -> I128]]
      /\ Core \in Holders \ Accounts /\ Accounts \subseteq Holders
      /\ I128 \subseteq Nat /\ Amounts \subseteq Nat
  BY LedgerAssumption, CoreAssumption DEF CoreTypeOK, IdsDense, I128, Amounts
<1>1. ASSUME Pots' = Pots, Reserve' = Reserve
      PROVE  UNCHANGED E!escrowVars
  BY <1>1 DEF Pots, Reserve, E!escrowVars
<1>2. ASSUME NEW a \in Accounts, NEW asset \in Assets, CreateGroup(a, asset)
      PROVE  UNCHANGED E!escrowVars
  <2>1. \A k \in DOMAIN pools : groups'[k[1]] = groups[k[1]]
    BY <1>0, <1>2 DEF CreateGroup, Put
  <2> QED
    BY <1>1, <1>2, <2>1 DEF CreateGroup, Pots, Reserve
<1>3. ASSUME NEW a \in Accounts, NEW g \in GroupIds, NEW m \in Holders, AddMember(a, g, m)
      PROVE  UNCHANGED E!escrowVars
  <2>1. \A k \in DOMAIN pools : groups'[k[1]].asset = groups[k[1]].asset
    BY <1>0, <1>3 DEF AddMember, Group
  <2> QED
    BY <1>1, <1>3, <2>1 DEF AddMember, Pots, Reserve
<1>4. ASSUME NEW a \in Accounts, NEW g \in GroupIds, CreatePool(a, g)
      PROVE  E!EscrowNext
  <2> DEFINE key == <<g, groups[g].next_pool_id>>
             asset == groups[g].asset
  <2>1. key \notin DOMAIN pools /\ key \in GroupIds \X PoolIds /\ asset \in Assets
    BY <1>0, <1>4, LedgerAssumption DEF CreatePool, IdsDense, PoolIds, Group
  <2>2. \A x \in DOMAIN groups : groups'[x].asset = groups[x].asset
    BY <1>0, <1>4 DEF CreatePool, Group
  <2>3. /\ DOMAIN pools' = DOMAIN pools \cup {key}
        /\ pools'[key].balance = 0
        /\ \A k \in DOMAIN pools : pools'[k] = pools[k]
        /\ g \in DOMAIN groups
    BY <1>4, <2>1 DEF CreatePool, Put
  <2>4. Pots' = [x \in DOMAIN Pots \cup {key} |->
                   IF x = key THEN [asset |-> asset, amount |-> 0] ELSE Pots[x]]
    <3>1. DOMAIN Pots = DOMAIN pools
      BY DEF Pots
    <3>2. groups'[key[1]].asset = asset
      BY <2>2, <2>3
    <3>3. \A k \in DOMAIN pools : groups'[k[1]].asset = groups[k[1]].asset
      BY <1>0, <2>2
    <3> HIDE DEF key, asset
    <3> QED
      BY <2>1, <2>3, <3>1, <3>2, <3>3 DEF Pots
  <2>5. Reserve' = Reserve
    BY <1>4 DEF CreatePool, Reserve
  <2>6. PICK k \in GroupIds \X PoolIds, x \in Assets : k = key /\ x = asset
    BY <2>1
  <2>7. E!Open(k, x)
    BY <2>1, <2>4, <2>5, <2>6 DEF E!Open, Pots, Reserve
  <2> QED
    BY <2>7 DEF E!EscrowNext
<1>5. ASSUME NEW a \in Accounts, NEW g \in GroupIds, NEW p \in PoolIds, NEW n \in Amounts,
             Deposit(a, g, p, n)
      PROVE  E!EscrowNext
  <2> DEFINE key == <<g, p>>
             asset == groups[g].asset
  <2>1. /\ key \in DOMAIN pools /\ asset \in Tokens /\ Pots[key].asset = asset
        /\ groups' = groups
    BY <1>5 DEF Deposit, TransferAllowed, Pots
  <2>2. Pots' = [Pots EXCEPT ![key].amount = @ + n]
    BY <1>0, <1>5, <2>1 DEF Deposit, Pots, Pool
  <2>3. TransferEffect(asset, a, Core, n, tokens')
    BY <1>0, <1>5, TransferType DEF Deposit
  <2>4. Reserve' = [Reserve EXCEPT ![asset] = @ + n]
    BY <1>0, <2>1, <2>3 DEF TransferEffect, Reserve
  <2>5. E!PayIn(key, n)
    BY <2>1, <2>2, <2>4 DEF E!PayIn, Pots, Reserve
  <2> QED
    BY <2>1, <2>5 DEF E!EscrowNext, Pots
<1>6. ASSUME NEW a \in Accounts, NEW g \in GroupIds, NEW p \in PoolIds, NEW to \in Holders,
             NEW n \in Amounts, Withdraw(a, g, p, to, n)
      PROVE  E!EscrowNext
  <2> DEFINE key == <<g, p>>
             asset == groups[g].asset
  <2>1. /\ key \in DOMAIN pools /\ asset \in Tokens /\ Pots[key].asset = asset
        /\ groups' = groups /\ n <= Pots[key].amount
    BY <1>0, <1>6 DEF Withdraw, TransferAllowed, Pots, Pool
  <2>2. Pots' = [Pots EXCEPT ![key].amount = @ - n]
    BY <1>0, <1>6, <2>1 DEF Withdraw, Pots, Pool
  <2>3. TransferEffect(asset, Core, to, n, tokens')
    BY <1>0, <1>6, TransferType DEF Withdraw
  <2>4. CASE to # Core
    <3>1. Reserve' = [Reserve EXCEPT ![asset] = @ - n]
      BY <1>0, <2>1, <2>3, <2>4 DEF TransferEffect, Reserve
    <3>2. E!PayOut(key, n)
      BY <2>1, <2>2, <3>1 DEF E!PayOut, Pots, Reserve
    <3> QED
      BY <2>1, <3>2 DEF E!EscrowNext, Pots
  <2>5. CASE to = Core
    <3>1. Reserve' = Reserve
      BY <1>0, <2>1, <2>3, <2>5 DEF TransferEffect, Reserve
    <3>2. E!Strand(key, n)
      BY <2>1, <2>2, <3>1 DEF E!Strand, Pots, Reserve
    <3> QED
      BY <2>1, <3>2 DEF E!EscrowNext, Pots
  <2> QED
    BY <2>4, <2>5
<1>7. ASSUME NEW t \in Tokens, NEW from \in Accounts, NEW to \in Holders, NEW n \in Amounts,
             TokenTransfer(t, from, to, n)
      PROVE  [E!EscrowNext]_(E!escrowVars)
  <2>1. TransferEffect(t, from, to, n, tokens') /\ groups' = groups /\ pools' = pools
    BY <1>0, <1>7, TransferType DEF TokenTransfer
  <2>2. Pots' = Pots
    BY <2>1 DEF Pots
  <2>3. CASE to = Core
    <3>1. Reserve' = [Reserve EXCEPT ![t] = @ + n]
      BY <1>0, <2>1, <2>3 DEF TransferEffect, Reserve
    <3>2. E!Donate(t, n)
      BY <2>2, <3>1 DEF E!Donate, Pots, Reserve
    <3> QED
      BY <3>2 DEF E!EscrowNext
  <2>4. CASE to # Core
    <3>1. Reserve' = Reserve
      BY <1>0, <2>1, <2>4 DEF TransferEffect, Reserve
    <3> QED
      BY <1>1, <2>2, <3>1
  <2> QED
    BY <2>3, <2>4
<1>8. ASSUME NEW a \in Accounts, NEW r \in RewardsContracts, SetRewardsContract(a, r)
      PROVE  UNCHANGED E!escrowVars
  BY <1>1, <1>8 DEF SetRewardsContract, Pots, Reserve
<1>9. CASE UNCHANGED coreVars
  BY <1>1, <1>9 DEF coreVars, Pots, Reserve
<1> QED
  BY <1>2, <1>3, <1>4, <1>5, <1>6, <1>7, <1>8, <1>9 DEF CoreNext, RewardedStep, LocalStep

(* The contract implements the escrow: pools are its pots and what the     *)
(* contract owns is its reserve.                                           *)
THEOREM CoreImplementsEscrow == CoreSpec => ImplementsEscrow
<1>1. CoreInit => E!EscrowInit
  BY LedgerAssumption, CoreAssumption DEF CoreInit, E!EscrowInit, I128
<1> QED
  BY <1>1, EscrowStep, CoreTypeCorrect, IdsAlwaysDense, PTL
     DEF CoreSpec, ImplementsEscrow, E!EscrowSpec
=============================================================================
