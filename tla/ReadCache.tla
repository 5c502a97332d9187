------------------------------ MODULE ReadCache -----------------------------
(***************************************************************************)
(* The read cache (lib/cache.ts) under what all pages load through it: the *)
(* dashboard (app/page.tsx), a group's page (app/groups/[groupId]/         *)
(* page.tsx) and the rewards of a pool's page, by the readers of           *)
(* lib/talambag-client.ts and lib/rewards-client.ts.  Each tab has a copy  *)
(* in memory and writes all of it to the one local storage; transactions   *)
(* and events of the stream invalidate keys.                               *)
(*                                                                         *)
(* Data: one group with one pool, and the user's own wallet.  A value is   *)
(* how often the chain has changed it.  A tab runs one load at a time;     *)
(* PoolPage has loads of one page overlap.                                 *)
(***************************************************************************)
EXTENDS Naturals, FiniteSets

CONSTANTS
  Readers,    (* tabs                                                     *)
  AtOnce,     (* bound: tabs with a load under way at the same time       *)
  Scenes,     (* bound: which tabs, loads and transactions occur together *)
  MaxWrites,  (* bound: changes of one value on the chain                 *)
  TTL,        (* DEFAULT_TTL_MS                                           *)
  MaxClock,   (* bound: the time                                          *)
  Missing     (* undefined                                                *)

VARIABLES
  scene,      (* the one of Scenes that is looked at                      *)
  clock,      (* Date.now()                                               *)
  values,     (* the values on the chain                                  *)
  stores,     (* store, by tab; Missing before hydrateStore has run        *)
  persisted,  (* talambag:read-cache:v1                                   *)
  reads,      (* the reads of a tab's load                                *)
  sending,    (* a tab's transaction                                      *)
  wrote       (* history: what a tab's own transactions have brought about *)

cacheVars == <<scene, clock, values, stores, persisted, reads, sending, wrote>>

(* The reads of a load, each with the reads it waits for.                  *)
(* loadGroups: listGroups beside readGroupCount.                           *)
DashboardReads == [listed |-> {}, group_count |-> {}, group |-> {"listed"}]

(* getContractSnapshot, then listPools.                                    *)
ContractReads == [group |-> {}, membership |-> {"group"}, pool |-> {"membership"}]

(* getRewardSnapshot; the metadata never changes.  The registration of the *)
(* group is read beside the balance and not cached (Unregistered).         *)
RewardReads ==
  [supply |-> {}, balance |-> {"supply"}, pending |-> {"balance"}, contributed |-> {"balance"}]

Plan == [dashboard |-> DashboardReads, contract |-> ContractReads, rewards |-> RewardReads]

(* listGroups reads the count too.                                         *)
KeyOf(read) == IF read = "listed" THEN "group_count" ELSE read

Keys == {KeyOf(read) : read \in UNION {DOMAIN Plan[visit] : visit \in DOMAIN Plan}}

RewardKeys == {"supply", "balance", "pending", "contributed"}

(* What a transaction changes on the chain; add_member and deposit are     *)
(* taken to be about the user's own wallet.                                *)
Changes ==
  [create_group |-> {"group_count"},       add_member |-> {"group", "membership"},
   create_pool  |-> {"group"},             deposit |-> {"pool", "pending", "contributed"},
   withdraw     |-> {"pool"},              claim_rewards |-> {"supply", "balance", "pending"}]

(* Mutant of Invalidates: the deposit form leaves the rewards alone.       *)
InvalidatesOnlyPool(write) ==
  CASE write = "create_group"                  -> {"group_count"}
    [] write \in {"add_member", "create_pool"} -> {"group"}
    [] write \in {"deposit", "withdraw"}       -> {"pool"}
    [] write = "claim_rewards"                 -> RewardKeys

(* What the tab that made it invalidates once it is confirmed.             *)
Invalidates(write) ==
  CASE write = "create_group"                  -> {"group_count"}
    [] write \in {"add_member", "create_pool"} -> {"group"}
    [] write = "deposit"                       -> {"pool"} \cup RewardKeys
    [] write = "withdraw"                      -> {"pool"}
    [] write = "claim_rewards"                 -> RewardKeys

(* What a page invalidates when its stream tells it of an event.           *)
OnDashboard(write) ==
  IF write \in {"create_group", "add_member", "create_pool"} THEN {"group_count", "group"} ELSE {}

OnGroupPage(write) ==
  CASE write = "add_member"              -> {"group", "membership"}
    [] write = "create_pool"             -> {"group"}
    [] write \in {"deposit", "withdraw"} -> {"pool"}
    [] OTHER                             -> {}

(* own: the event's actor is the connected wallet.                         *)
OnPoolPage(write, own) ==
  CASE write = "deposit"  -> {"pool"} \cup IF own THEN RewardKeys ELSE {}
    [] write = "withdraw" -> {"pool"}
    [] OTHER              -> {}

InvalidatedByEvent(visit, write, own) ==
  CASE visit = "dashboard" -> OnDashboard(write)
    [] visit = "contract"  -> OnGroupPage(write)
    [] visit = "rewards"   -> OnPoolPage(write, own)

(* StoredCacheEntry, and a whole store.                                    *)
Entry   == [value : 0 .. MaxWrites, expiresAt : Nat, readAt : 0 .. MaxClock]
Entries == [Keys -> Entry \cup {Missing}]

ASSUME CacheAssumption ==
  /\ TTL \in Nat /\ MaxWrites \in Nat /\ MaxClock \in Nat
  /\ Missing \notin Entries
  /\ \A s \in Scenes : /\ s.readers \subseteq Readers
                       /\ s.visits \subseteq DOMAIN Plan
                       /\ s.writes \subseteq DOMAIN Changes
-----------------------------------------------------------------------------
NoEntries == [key \in Keys |-> Missing]
NoLoad    == [visit |-> Missing, read |-> <<>>]
Unread    == [at |-> "unread", value |-> 0]
Done      == [at |-> "done", value |-> 0]
Failed    == [at |-> "failed", value |-> 0]
NoWrites  == [key \in Keys |-> 0]

CacheInit ==
  /\ scene \in Scenes
  /\ clock = 0 /\ values = NoWrites
  /\ stores = [t \in Readers |-> Missing] /\ persisted = NoEntries
  /\ reads = [t \in Readers |-> NoLoad]
  /\ sending = [t \in Readers |-> Missing]
  /\ wrote = [t \in Readers |-> NoWrites]

(* Mutant of Hydrated: what a tab takes over lives for another TTL.        *)
HydratedAnew(t) ==
  IF stores[t] # Missing THEN stores[t]
  ELSE [key \in Keys |->
          IF persisted[key] = Missing THEN Missing
          ELSE [persisted[key] EXCEPT !.expiresAt = clock + TTL]]

(* hydrateStore: the first access takes over what has not expired.         *)
Hydrated(t) ==
  IF stores[t] # Missing THEN stores[t]
  ELSE [key \in Keys |->
          IF persisted[key] = Missing THEN Missing
          ELSE IF persisted[key].expiresAt <= clock THEN Missing
          ELSE persisted[key]]

(* persistStore: the whole copy of this tab replaces what was stored.      *)
Persist(t, store) ==
  /\ stores' = [stores EXCEPT ![t] = store]
  /\ persisted' = [key \in Keys |->
       IF store[key] = Missing THEN Missing
       ELSE IF store[key].expiresAt > clock THEN store[key] ELSE Missing]

Dropping(store, keys) == [key \in Keys |-> IF key \in keys THEN Missing ELSE store[key]]

(* setCached.  readAt is history: when a read has brought the value.       *)
Holding(store, key, value) ==
  [store EXCEPT ![key] = [value |-> value, expiresAt |-> clock + TTL, readAt |-> clock]]

Expired(entry) == clock > entry.expiresAt

CanStart(load, read) ==
  /\ load.read[read] = Unread
  /\ \A before \in Plan[load.visit][read] : load.read[before] = Done

UnderWay(load) == {read \in DOMAIN load.read : load.read[read].at = "asked"}

(* A load ends when none of its reads is under way and none can begin.     *)
ReadIs(t, read, state) ==
  LET load == [reads[t] EXCEPT !.read[read] = state]
      over == UnderWay(load) = {} /\ \A r \in DOMAIN load.read : ~CanStart(load, r)
  IN  reads' = [reads EXCEPT ![t] = IF over THEN [load EXCEPT !.read = <<>>] ELSE load]
-----------------------------------------------------------------------------
LoadStarts(t, visit) ==
  /\ reads[t].read = <<>>
  /\ Cardinality({x \in Readers : reads[x].read # <<>>}) < AtOnce
  /\ reads' = [reads EXCEPT ![t] =
       [visit |-> visit, read |-> [read \in DOMAIN Plan[visit] |-> Unread]]]
  /\ UNCHANGED <<scene, clock, values, stores, persisted, sending, wrote>>

(* getCached, and on a miss simulateRead: the chain is asked and gives its *)
(* answer in this step, for nothing but this read would put the key into   *)
(* the cache before the answer is here.  Assumption: the RPC node asked is *)
(* up to date; OwnWriteShown needs that it is not behind the one that      *)
(* confirmed the tab's own transaction, which nothing in the code ensures. *)
ReadStarts(t, read) ==
  LET key   == KeyOf(read)
      store == Hydrated(t)
      entry == store[key]
  IN  /\ read \in DOMAIN reads[t].read
      /\ CanStart(reads[t], read)
      /\ \/ /\ entry # Missing
            /\ ~Expired(entry)
            /\ stores' = [stores EXCEPT ![t] = store]
            /\ ReadIs(t, read, Done)
            /\ UNCHANGED persisted
         \/ /\ entry # Missing
            /\ Expired(entry)
            /\ Persist(t, Dropping(store, {key}))
            /\ ReadIs(t, read, [at |-> "asked", value |-> values[key]])
         \/ /\ entry = Missing
            /\ stores' = [stores EXCEPT ![t] = store]
            /\ ReadIs(t, read, [at |-> "asked", value |-> values[key]])
            /\ UNCHANGED persisted
      /\ UNCHANGED <<scene, clock, values, sending, wrote>>

ReadAnswered(t, read) ==
  /\ read \in DOMAIN reads[t].read
  /\ reads[t].read[read].at = "asked"
  /\ Persist(t, Holding(Hydrated(t), KeyOf(read), reads[t].read[read].value))
  /\ ReadIs(t, read, Done)
  /\ UNCHANGED <<scene, clock, values, sending, wrote>>

(* What waits for it never begins; the others go on.                       *)
ReadFails(t, read) ==
  /\ read \in DOMAIN reads[t].read
  /\ reads[t].read[read].at = "asked"
  /\ ReadIs(t, read, Failed)
  /\ UNCHANGED <<scene, clock, values, stores, persisted, sending, wrote>>

(* readGroupRegistration, asked when the balance is, says no or fails: the *)
(* rewards of the group are not read.                                      *)
Unregistered(t) ==
  LET load == [reads[t] EXCEPT !.read["pending"] = Failed, !.read["contributed"] = Failed]
  IN  /\ reads[t].visit = "rewards" /\ reads[t].read # <<>>
      /\ reads[t].read["balance"] # Unread
      /\ reads[t].read["pending"] = Unread /\ reads[t].read["contributed"] = Unread
      /\ reads' = [reads EXCEPT ![t] = IF UnderWay(load) = {} THEN [load EXCEPT !.read = <<>>]
                                       ELSE load]
      /\ UNCHANGED <<scene, clock, values, stores, persisted, sending, wrote>>
-----------------------------------------------------------------------------
Changed(write) ==
  /\ \A key \in Changes[write] : values[key] < MaxWrites
  /\ values' = [key \in Keys |-> values[key] + IF key \in Changes[write] THEN 1 ELSE 0]

(* Another user's, or this user's from elsewhere.                          *)
OthersWrite(write) ==
  /\ Changed(write)
  /\ UNCHANGED <<scene, clock, stores, persisted, reads, sending, wrote>>

(* A tab's own transaction is applied.  While it was only on its way       *)
(* nothing here depended on it.                                            *)
WriteApplied(t, write) ==
  /\ sending[t] = Missing
  /\ Changed(write)
  /\ sending' = [sending EXCEPT ![t] = write]
  /\ UNCHANGED <<scene, clock, stores, persisted, reads, wrote>>

(* signAndSubmit returns.  What was asked before may still answer with the *)
(* old value: then wrote promises nothing.                                 *)
WriteConfirmed(t) ==
  LET keys == Invalidates(sending[t])
      late == {KeyOf(read) : read \in UnderWay(reads[t])}
  IN  /\ sending[t] # Missing
      /\ Persist(t, Dropping(Hydrated(t), keys))
      /\ sending' = [sending EXCEPT ![t] = Missing]
      /\ wrote' = [wrote EXCEPT ![t] = [key \in Keys |->
           IF key \in late THEN 0
           ELSE IF key \in Changes[sending[t]] \ {"membership"} THEN values[key]
           ELSE wrote[t][key]]]
      /\ UNCHANGED <<scene, clock, values, reads>>

(* signAndSubmit throws although it was applied: nothing is invalidated.   *)
WriteUnconfirmed(t) ==
  /\ sending[t] # Missing
  /\ sending' = [sending EXCEPT ![t] = Missing]
  /\ UNCHANGED <<scene, clock, values, stores, persisted, reads, wrote>>

EventArrives(t, write, own) ==
  LET keys == InvalidatedByEvent(reads[t].visit, write, own)
  IN  /\ reads[t].visit # Missing /\ keys # {}
      /\ \A key \in Changes[write] : values[key] > 0
      /\ Persist(t, Dropping(Hydrated(t), keys))
      /\ UNCHANGED <<scene, clock, values, reads, sending, wrote>>

(* The tab is closed or reloaded; a transaction it has sent goes on.       *)
TabReloads(t) ==
  /\ stores' = [stores EXCEPT ![t] = Missing]
  /\ reads' = [reads EXCEPT ![t] = NoLoad]
  /\ sending' = [sending EXCEPT ![t] = Missing]
  /\ wrote' = [wrote EXCEPT ![t] = NoWrites]
  /\ UNCHANGED <<scene, clock, values, persisted>>

TimePasses ==
  /\ clock < MaxClock
  /\ clock' = clock + 1
  /\ UNCHANGED <<scene, values, stores, persisted, reads, sending, wrote>>

CacheNext ==
  \/ \E t \in scene.readers :
       \/ \E visit \in scene.visits : LoadStarts(t, visit)
       \/ \E read \in DOMAIN reads[t].read :
            ReadStarts(t, read) \/ ReadAnswered(t, read) \/ ReadFails(t, read)
       \/ \E write \in scene.writes :
            \/ t \in scene.writers /\ WriteApplied(t, write)
            \/ \E own \in BOOLEAN : EventArrives(t, write, own)
       \/ Unregistered(t)
       \/ WriteConfirmed(t) \/ WriteUnconfirmed(t)
       \/ TabReloads(t)
  \/ \E write \in scene.writes : OthersWrite(write)
  \/ TimePasses

CacheSpec == CacheInit /\ [][CacheNext]_cacheVars
-----------------------------------------------------------------------------
CacheTypeOK ==
  /\ scene \in Scenes /\ clock \in 0 .. MaxClock
  /\ values \in [Keys -> 0 .. MaxWrites]
  /\ stores \in [Readers -> Entries \cup {Missing}]
  /\ persisted \in Entries
  /\ sending \in [Readers -> DOMAIN Changes \cup {Missing}]
  /\ wrote \in [Readers -> [Keys -> 0 .. MaxWrites]]

(***************************************************************************)
(* No copy is served longer than TTL after the read that brought it, no    *)
(* matter how often it went through local storage and the memory of        *)
(* another tab that had not seen its invalidation (hydrateStore,           *)
(* persistStore, getCached).                                               *)
(***************************************************************************)
ServedWithinTTL ==
  \A t \in Readers, key \in Keys :
    LET entry == Hydrated(t)[key]
    IN  (entry # Missing => Expired(entry) \/ clock <= entry.readAt + TTL)

(***************************************************************************)
(* Once its own transaction is confirmed, a tab has no older value of what *)
(* the transaction changed, in its cache or on its way into it, unless a   *)
(* read of it was under way then; a reload may bring back what another tab *)
(* has persisted, and add_member leaves the membership to the stream       *)
(* (invalidateCached beside every signAndSubmit, the deposit form).        *)
(***************************************************************************)
OwnWriteShown ==
  \A t \in Readers, key \in Keys :
    /\ stores[t] # Missing =>
         (stores[t][key] # Missing => stores[t][key].value >= wrote[t][key])
    /\ \A read \in UnderWay(reads[t]) :
         KeyOf(read) = key => reads[t].read[read].value >= wrote[t][key]
=============================================================================
