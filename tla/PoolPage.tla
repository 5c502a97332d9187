------------------------------ MODULE PoolPage ------------------------------
(***************************************************************************)
(* The pool page of the browser (app/groups/[groupId]/pools/[poolId]/      *)
(* page.tsx) with the read cache it loads through (lib/cache.ts), its      *)
(* subscription to the indexer's stream (lib/realtime-events.ts), and the  *)
(* transactions its user submits.  The pool on chain, the indexer's table  *)
(* and the RPC are the environment.  JavaScript runs a step from one await *)
(* or callback to the next.                                                *)
(*                                                                         *)
(* Data: the pool is the number of deposits and withdrawals made so far,   *)
(* an event is its position among them.  Of the membership and of the      *)
(* rewards only the wallet they were read for matters.                     *)
(***************************************************************************)
EXTENDS Naturals, Sequences

CONSTANTS
  Wallets,    (* wallets the user may connect                             *)
  Loads,      (* loads that can run at the same time                      *)
  MaxEvents,  (* bound: deposits and withdrawals on the pool              *)
  Nothing     (* null                                                     *)

ASSUME PageAssumption ==
  /\ MaxEvents \in Nat
  /\ Nothing \notin Wallets \cup Nat

VARIABLES
  chain,      (* the pool on chain                                        *)
  indexed,    (* events in the indexer's table                            *)
  emitting,   (* the server has committed an event and not emitted it yet *)
  stream,     (* whether the server has registered this EventSource       *)
  inbox,      (* events sent to this browser and not handled yet          *)
  cache,      (* pool:<group>:<pool> of the read cache                    *)
  wallet,     (* wallet.address                                           *)
  loads,      (* calls of loadPool under way                              *)
  refresh,    (* refreshTimerRef, with the wallet loadPool closes over    *)
  submitting, (* the transaction the user submitted                       *)
  shown,      (* the state the page renders                               *)
  known,      (* history: the pool when the page was last told of a change *)
  overtaken,  (* history: it was told while a load was under way          *)
  strayed,    (* history: the wallet changed while something was under way *)
  failed      (* history: the latest load to end failed                   *)

environment == <<chain, indexed, emitting>>
history     == <<known, overtaken, strayed, failed>>
vars == <<chain, indexed, emitting, stream, inbox, cache, wallet, loads, refresh, submitting,
          shown, known, overtaken, strayed, failed>>

Visitor  == Wallets \cup {Nothing}
Versions == 0 .. MaxEvents
Pool     == Versions \cup {Nothing}

(* A load reads group, membership and pool one after the other, and the    *)
(* event history and the rewards at the same time.  detached: Promise.all  *)
(* has rejected, and the reads of the contract go on without it.           *)
Load == [at : {"idle", "group", "asked", "answered", "ready", "failed"},
         wallet : Visitor, pool : Pool, events : Pool, detached : BOOLEAN]
Idle == [at |-> "idle", wallet |-> Nothing, pool |-> Nothing, events |-> Nothing,
         detached |-> FALSE]

Transaction == [kind : {"none", "sent", "applied", "claim"}, wallet : Visitor]
NoTransaction == [kind |-> "none", wallet |-> Nothing]

Quiet == \A l \in Loads : loads[l] = Idle

(* Mutant of Newest: a row too many. *)
NewestPadded(n) == [i \in 1 .. n + 1 |-> n + 1 - i]

(* The table's answer, newest first. *)
Newest(n) == [i \in 1 .. n |-> n + 1 - i]
-----------------------------------------------------------------------------
Started(w) == [Idle EXCEPT !.at = "group", !.wallet = w]

StartLoad(w) ==
  \E l \in Loads : loads[l] = Idle /\ loads' = [loads EXCEPT ![l] = Started(w)]

(* The cache may hold what an earlier visit has read (hydrateStore). *)
Init ==
  /\ chain = 0 /\ indexed = 0 /\ emitting = FALSE
  /\ stream = FALSE /\ inbox = <<>>
  /\ cache \in {0, Nothing}
  /\ wallet = Nothing
  /\ \E first \in Loads :
       loads = [l \in Loads |-> IF l = first THEN Started(Nothing) ELSE Idle]
  /\ refresh = {} /\ submitting = NoTransaction
  /\ shown = [pool |-> Nothing, member |-> Nothing, events |-> <<>>]
  /\ known = 0 /\ overtaken = FALSE /\ strayed = FALSE /\ failed = FALSE

(* The page is told of a change, by an event or by its own transaction: a  *)
(* read made because of it returns the pool as it is now, or newer.        *)
Learns ==
  /\ known' = chain
  /\ overtaken' = ~Quiet
  /\ UNCHANGED <<strayed, failed>>
-----------------------------------------------------------------------------
(* Other users move the pool's money. *)
PoolChanges ==
  /\ chain < MaxEvents
  /\ chain' = chain + 1
  /\ UNCHANGED <<indexed, emitting, stream, inbox, cache, wallet, loads, refresh, submitting,
                 shown, history>>

(* The indexer commits an event, and in a later step emits it to the       *)
(* EventSources registered by then.  A crash in between, or a commit whose *)
(* answer is lost, loses the emission, and so does another process's       *)
(* commit: this server has no part in it.                                  *)
Indexed ==
  /\ indexed < chain /\ ~emitting
  /\ indexed' = indexed + 1
  /\ emitting' = TRUE
  /\ UNCHANGED <<chain, stream, inbox, cache, wallet, loads, refresh, submitting, shown, history>>

Emitted ==
  /\ emitting
  /\ emitting' = FALSE
  /\ \/ stream /\ inbox' = Append(inbox, indexed)
     \/ UNCHANGED inbox
  /\ UNCHANGED <<chain, indexed, stream, cache, wallet, loads, refresh, submitting, shown, history>>

(* connect: of the subscription, of the reconnection timer or of           *)
(* handleOnline.  The server registers the connection and replays nothing. *)
Connect ==
  /\ ~stream
  /\ stream' = TRUE
  /\ UNCHANGED <<environment, inbox, cache, wallet, loads, refresh, submitting, shown, history>>

(* onerror or handleOffline closes the source; what was received and not   *)
(* handled is dropped.                                                     *)
Disconnect ==
  /\ stream
  /\ stream' = FALSE /\ inbox' = <<>>
  /\ UNCHANGED <<environment, cache, wallet, loads, refresh, submitting, shown, history>>
-----------------------------------------------------------------------------
(* Mutant of AppendUnique: a new event is added at the end.                *)
AppendLast(current, e) ==
  IF \E i \in DOMAIN current : current[i] = e THEN current ELSE Append(current, e)

(* appendUniquePoolEvent *)
AppendUnique(current, e) ==
  IF \E i \in DOMAIN current : current[i] = e THEN current ELSE <<e>> \o current

(* Mutant of HandleEvent: the pool's cache entry is left alone.            *)
HandleEventCached ==
  /\ inbox # <<>>
  /\ inbox' = Tail(inbox)
  /\ refresh' = {wallet}
  /\ shown' = [shown EXCEPT !.events = AppendUnique(@, Head(inbox))]
  /\ Learns
  /\ UNCHANGED <<environment, stream, cache, wallet, loads, submitting>>

(* The subscription's callback: invalidate, show, (re)start the timer.     *)
HandleEvent ==
  /\ inbox # <<>>
  /\ inbox' = Tail(inbox)
  /\ cache' = Nothing
  /\ refresh' = {wallet}
  /\ shown' = [shown EXCEPT !.events = AppendUnique(@, Head(inbox))]
  /\ Learns
  /\ UNCHANGED <<environment, stream, wallet, loads, submitting>>

(* scheduleRealtimeRefresh, 250 ms after the latest event.                 *)
RefreshFires ==
  /\ \E w \in refresh : StartLoad(w)
  /\ refresh' = {}
  /\ UNCHANGED <<environment, stream, inbox, cache, wallet, submitting, shown, history>>

(* Mutant of SwitchWallet: loadPool does not depend on the wallet.         *)
SwitchUnloaded(w) ==
  /\ w # wallet
  /\ wallet' = w
  /\ strayed' = (~Quiet \/ refresh # {} \/ submitting # NoTransaction)
  /\ UNCHANGED <<environment, stream, inbox, cache, loads, refresh, submitting, shown,
                 known, overtaken, failed>>

(* The effects that depend on wallet.address run again: a load starts, and *)
(* the subscription is closed and made anew.  The timer goes on.           *)
SwitchWallet(w) ==
  /\ w # wallet
  /\ wallet' = w
  /\ StartLoad(w)
  /\ stream' = FALSE
  /\ inbox' = <<>>
  /\ strayed' = (~Quiet \/ refresh # {} \/ submitting # NoTransaction)
  /\ UNCHANGED <<environment, cache, refresh, submitting, shown, known, overtaken, failed>>
-----------------------------------------------------------------------------
(* A load continues; a detached one is over when its reads are.            *)
Continue(l, load) ==
  loads' = [loads EXCEPT ![l] =
    IF load.detached /\ load.at \in {"ready", "failed"} THEN Idle ELSE load]

(* readPool after the group and the membership: from the cache, or asked.  *)
ReadPool(l) ==
  /\ loads[l].at = "group"
  /\ Continue(l, [loads[l] EXCEPT !.at = IF cache = Nothing THEN "asked" ELSE "ready",
                                  !.pool = cache])
  /\ UNCHANGED <<environment, stream, inbox, cache, wallet, refresh, submitting, shown, history>>

(* simulateRead runs at the RPC.  Assumption: the RPC is up to date.       *)
PoolAnswered(l) ==
  /\ loads[l].at = "asked"
  /\ Continue(l, [loads[l] EXCEPT !.at = "answered", !.pool = chain])
  /\ UNCHANGED <<environment, stream, inbox, cache, wallet, refresh, submitting, shown, history>>

(* The answer arrives: setCached.                                          *)
PoolCached(l) ==
  /\ loads[l].at = "answered"
  /\ cache' = loads[l].pool
  /\ Continue(l, [loads[l] EXCEPT !.at = "ready"])
  /\ UNCHANGED <<environment, stream, inbox, wallet, refresh, submitting, shown, history>>

(* A read of the contract fails; getContractSnapshot returns the error.    *)
SnapshotFails(l) ==
  /\ loads[l].at \in {"group", "asked", "answered"}
  /\ Continue(l, [loads[l] EXCEPT !.at = "failed", !.pool = Nothing])
  /\ UNCHANGED <<environment, stream, inbox, cache, wallet, refresh, submitting, shown, history>>

EventsAwaited(l) ==
  loads[l].at # "idle" /\ loads[l].events = Nothing /\ ~loads[l].detached

(* fetchContractEvents: the table's answer, or no events if the indexer    *)
(* cannot be reached.                                                      *)
EventsRead(l) ==
  /\ EventsAwaited(l)
  /\ \E n \in {indexed, 0} : Continue(l, [loads[l] EXCEPT !.events = n])
  /\ UNCHANGED <<environment, stream, inbox, cache, wallet, refresh, submitting, shown, history>>

(* fetchContractEvents throws on an HTTP error: the whole load fails.  So  *)
(* it does when getRewardSnapshot throws.                                  *)
EventsThrow(l) ==
  /\ EventsAwaited(l)
  /\ Continue(l, [loads[l] EXCEPT !.detached = TRUE])
  /\ failed' = TRUE
  /\ UNCHANGED <<environment, stream, inbox, cache, wallet, refresh, submitting, shown,
                 known, overtaken, strayed>>

(* Promise.all resolves: everything the load read replaces what is shown,  *)
(* but for a pool that could not be read.  The rewards it also waits for   *)
(* only delay this step.                                                   *)
LoadEnds(l) ==
  /\ loads[l].at \in {"ready", "failed"} /\ loads[l].events # Nothing
  /\ shown' = [pool   |-> IF loads[l].at = "ready" THEN loads[l].pool ELSE shown.pool,
               member |-> loads[l].wallet,
               events |-> Newest(loads[l].events)]
  /\ failed' = (loads[l].at = "failed")
  /\ loads' = [loads EXCEPT ![l] = Idle]
  /\ UNCHANGED <<environment, stream, inbox, cache, wallet, refresh, submitting,
                 known, overtaken, strayed>>

(* A cache entry expires 30 s after it was stored. *)
CacheExpires ==
  /\ cache # Nothing
  /\ cache' = Nothing
  /\ UNCHANGED <<environment, stream, inbox, wallet, loads, refresh, submitting, shown, history>>
-----------------------------------------------------------------------------
(* The user deposits, withdraws or claims rewards; the page offers it once *)
(* the pool is shown and a wallet connected.  Bound: one at a time.        *)
Submit(kind) ==
  /\ submitting = NoTransaction
  /\ wallet # Nothing /\ shown.pool # Nothing
  /\ submitting' = [kind |-> kind, wallet |-> wallet]
  /\ UNCHANGED <<environment, stream, inbox, cache, wallet, loads, refresh, shown, history>>

Applied ==
  /\ submitting.kind = "sent"
  /\ chain < MaxEvents
  /\ chain' = chain + 1
  /\ submitting' = [submitting EXCEPT !.kind = "applied"]
  /\ UNCHANGED <<indexed, emitting, stream, inbox, cache, wallet, loads, refresh, shown, history>>

(* depositToPool and withdrawFromPool invalidate the pool's entry; then    *)
(* the page loads, as loadPool was when the user submitted.                *)
Confirmed ==
  /\ submitting.kind = "applied"
  /\ cache' = Nothing
  /\ StartLoad(submitting.wallet)
  /\ submitting' = NoTransaction
  /\ Learns
  /\ UNCHANGED <<environment, stream, inbox, wallet, refresh, shown>>

Claimed ==
  /\ submitting.kind = "claim"
  /\ StartLoad(submitting.wallet)
  /\ submitting' = NoTransaction
  /\ UNCHANGED <<environment, stream, inbox, cache, wallet, refresh, shown, history>>

(* Rejected, denied, failed, or pending for longer than the page waits.    *)
NotConfirmed ==
  /\ submitting # NoTransaction
  /\ submitting' = NoTransaction
  /\ UNCHANGED <<environment, stream, inbox, cache, wallet, loads, refresh, shown, history>>
-----------------------------------------------------------------------------
LoadStep(l) ==
  \/ ReadPool(l) \/ PoolAnswered(l) \/ PoolCached(l) \/ SnapshotFails(l)
  \/ EventsRead(l) \/ EventsThrow(l) \/ LoadEnds(l)

Next ==
  \/ PoolChanges \/ Indexed \/ Emitted
  \/ Connect \/ Disconnect
  \/ HandleEvent \/ RefreshFires \/ CacheExpires
  \/ \E w \in Visitor : SwitchWallet(w)
  \/ \E l \in Loads : LoadStep(l)
  \/ \E kind \in {"sent", "claim"} : Submit(kind)
  \/ Applied \/ Confirmed \/ Claimed \/ NotConfirmed

Spec == Init /\ [][Next]_vars
-----------------------------------------------------------------------------
(* The page, its cache and its reads stay well typed.                      *)
PageTypeOK ==
  /\ chain \in Versions /\ indexed \in 0 .. chain
  /\ stream \in BOOLEAN /\ emitting \in BOOLEAN /\ (emitting => indexed > 0)
  /\ inbox \in Seq(1 .. MaxEvents)
  /\ cache \in Pool
  /\ wallet \in Visitor
  /\ loads \in [Loads -> Load]
  /\ \E w \in Visitor : refresh \subseteq {w}
  /\ submitting \in Transaction
  /\ shown \in [pool : Pool, member : Visitor, events : Seq(1 .. MaxEvents)]
  /\ known \in Versions
  /\ {overtaken, strayed, failed} \subseteq BOOLEAN

(* Nothing is under way: no load, no timer, no transaction.                *)
AtRest == Quiet /\ refresh = {} /\ submitting = NoTransaction

UpToDate == shown.pool # Nothing /\ shown.pool >= known

(***************************************************************************)
(* An event is a cache invalidation signal (README.md:46).  If no load was *)
(* under way when the page was told of a change, then once it is at rest   *)
(* again it shows the pool as it was then or newer, whatever cached reads, *)
(* other loads, wallet changes and lost connections came in between,       *)
(* unless the latest load failed.                                          *)
(***************************************************************************)
ShowsWhatItKnows == AtRest /\ ~overtaken /\ ~failed => UpToDate

(***************************************************************************)
(* The membership shown is the connected wallet's, if nothing was under    *)
(* way when the wallet changed (loadPool, its effects).                    *)
(***************************************************************************)
ShowsOwnMembership == AtRest /\ ~strayed /\ ~failed => shown.member = wallet

(***************************************************************************)
(* The history lists each event once, newest first, although it is merged  *)
(* from the stream and from answers of the table that may be older or      *)
(* newer than what is already listed (appendUniquePoolEvent, loadPool).    *)
(***************************************************************************)
HistoryOrdered ==
  \A i, j \in DOMAIN shown.events : i < j => shown.events[i] > shown.events[j]

(***************************************************************************)
(* README.md:46: events are "cache invalidation signals, prompting an      *)
(* immediate fallback to querying the on-chain single source of truth":    *)
(* so a read that a load is given from the cache instead is at least as    *)
(* new as the latest signal.                                               *)
(***************************************************************************)
SignalsReachTheChain ==
  [][\A l \in Loads :
       loads[l].at = "group" /\ loads'[l].at = "ready" => loads'[l].pool >= known]_vars
=============================================================================
