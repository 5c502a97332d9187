--------------------------- MODULE PoolPageProofs ---------------------------
(* Theorems about PoolPage, for any number of loads, events and wallets.   *)
EXTENDS PoolPage, SequenceTheorems, TLAPS

(* What a load has read is consistent with how far it has come.            *)
LoadsShaped ==
  \A l \in Loads :
    /\ loads[l].at = "idle" => loads[l] = Idle
    /\ loads[l].at \in {"answered", "ready"} => loads[l].pool # Nothing

AtLeastKnown(pool) == pool = Nothing \/ pool >= known

(* Without an overtaken load, nothing that a page could show is older than *)
(* what it was told of.                                                    *)
NothingStale ==
  /\ known <= chain
  /\ ~overtaken => AtLeastKnown(cache) /\ \A l \in Loads : AtLeastKnown(loads[l].pool)

(* Something is under way whose result the page will show.                 *)
Pending == refresh # {} \/ \E l \in Loads : loads[l].at # "idle" /\ ~loads[l].detached

ComesUpToDate == ~overtaken /\ ~failed => Pending \/ UpToDate

(* Without a wallet that changed under a load, everything is under way for *)
(* the connected wallet.                                                   *)
OneWallet ==
  ~strayed =>
    /\ \A l \in Loads : loads[l].at # "idle" => loads[l].wallet = wallet
    /\ refresh \subseteq {wallet}
    /\ submitting.kind # "none" => submitting.wallet = wallet
    /\ ~failed => Pending \/ shown.member = wallet

(* Every event awaiting the page is newer than all it lists, or listed.    *)
InboxMerges ==
  \A i \in DOMAIN inbox :
    /\ inbox[i] <= indexed /\ (emitting => inbox[i] # indexed)
    /\ \A j \in DOMAIN inbox : i < j => inbox[i] < inbox[j]
    /\ \A j \in DOMAIN shown.events :
         inbox[i] < shown.events[j] => \E k \in DOMAIN shown.events : shown.events[k] = inbox[i]

HistoryIndexed ==
  /\ \A j \in DOMAIN shown.events : shown.events[j] <= indexed
  /\ \A l \in Loads : loads[l].events = Nothing \/ loads[l].events <= indexed

PageInv ==
  /\ PageTypeOK /\ LoadsShaped /\ NothingStale /\ ComesUpToDate /\ OneWallet
  /\ InboxMerges /\ HistoryIndexed /\ HistoryOrdered
-----------------------------------------------------------------------------
(* How the two helpers that change loads do so. *)
LEMMA StartedLoad ==
  ASSUME loads \in [Loads -> Load], NEW w \in Visitor, StartLoad(w)
  PROVE  /\ loads' \in [Loads -> Load]
         /\ \E l \in Loads : /\ loads[l] = Idle /\ loads'[l] = Started(w)
                             /\ \A k \in Loads \ {l} : loads'[k] = loads[k]
<1>1. Started(w) \in Load
  BY DEF Started, Idle, Load, Visitor, Pool
<1> QED  BY <1>1 DEF StartLoad

LEMMA Continued ==
  ASSUME loads \in [Loads -> Load], NEW l \in Loads, NEW load \in Load, Continue(l, load)
  PROVE  /\ loads' \in [Loads -> Load]
         /\ loads'[l] = load \/ (load.detached /\ loads'[l] = Idle)
         /\ load.at \notin {"ready", "failed"} => loads'[l] = load
         /\ \A k \in Loads \ {l} : loads'[k] = loads[k]
<1>1. Idle \in Load
  BY DEF Idle, Load, Visitor, Pool
<1> QED  BY <1>1 DEF Continue

(* What each step of a load makes of it: the load it continues with. *)
LEMMA Steps ==
  ASSUME PageTypeOK, NEW l \in Loads
  PROVE  /\ [loads[l] EXCEPT !.at = IF cache = Nothing THEN "asked" ELSE "ready",
                             !.pool = cache] \in Load
         /\ [loads[l] EXCEPT !.at = "answered", !.pool = chain] \in Load
         /\ [loads[l] EXCEPT !.at = "ready"] \in Load
         /\ [loads[l] EXCEPT !.at = "failed", !.pool = Nothing] \in Load
         /\ \A n \in {indexed, 0} : [loads[l] EXCEPT !.events = n] \in Load
         /\ [loads[l] EXCEPT !.detached = TRUE] \in Load
<1>1. loads[l] \in Load /\ cache \in Pool /\ chain \in Pool /\ Nothing \in Pool
  BY DEF PageTypeOK, Pool
<1>2. indexed \in Pool /\ 0 \in Pool
  BY PageAssumption DEF PageTypeOK, Pool, Versions
<1> QED  BY <1>1, <1>2 DEF Load

(* The table's answer holds events only, each once and newest first. *)
LEMMA NewestFirst ==
  ASSUME NEW n \in Versions
  PROVE  /\ Newest(n) \in Seq(1 .. MaxEvents)
         /\ \A i \in DOMAIN Newest(n) : Newest(n)[i] \in 1 .. n
         /\ \A i, j \in DOMAIN Newest(n) : i < j => Newest(n)[i] > Newest(n)[j]
         /\ \A e \in 1 .. n : \E i \in DOMAIN Newest(n) : Newest(n)[i] = e
<1>1. Newest(n) \in [1 .. n -> 1 .. MaxEvents]
  BY PageAssumption DEF Newest, Versions
<1>2. Newest(n) \in Seq(1 .. MaxEvents)
  BY <1>1, PageAssumption, SeqDef DEF Versions
<1>3. ASSUME NEW e \in 1 .. n
      PROVE  \E i \in DOMAIN Newest(n) : Newest(n)[i] = e
  <2>1. n + 1 - e \in 1 .. n /\ n + 1 - (n + 1 - e) = e
    BY PageAssumption DEF Versions
  <2> QED  BY <2>1 DEF Newest
<1> QED  BY <1>2, <1>3, PageAssumption DEF Newest, Versions

(* An event is added in front of the list, or is listed already. *)
LEMMA Added ==
  ASSUME NEW current \in Seq(1 .. MaxEvents), NEW e \in 1 .. MaxEvents
  PROVE  \/ /\ AppendUnique(current, e) = current
            /\ \E k \in DOMAIN current : current[k] = e
         \/ /\ AppendUnique(current, e) \in Seq(1 .. MaxEvents)
            /\ DOMAIN AppendUnique(current, e) = 1 .. Len(current) + 1
            /\ AppendUnique(current, e)[1] = e
            /\ \A i \in DOMAIN current : AppendUnique(current, e)[i + 1] = current[i]
            /\ \A i \in DOMAIN current : current[i] # e
<1>1. CASE \E i \in DOMAIN current : current[i] = e
  BY <1>1 DEF AppendUnique
<1>2. CASE \A i \in DOMAIN current : current[i] # e
  <2>1. AppendUnique(current, e) = <<e>> \o current
    BY <1>2 DEF AppendUnique
  <2>2. <<e>> \in Seq(1 .. MaxEvents) /\ Len(<<e>>) = 1 /\ <<e>>[1] = e
    OBVIOUS
  <2>3. /\ <<e>> \o current \in Seq(1 .. MaxEvents)
        /\ Len(<<e>> \o current) = Len(current) + 1
        /\ (<<e>> \o current)[1] = e
        /\ \A i \in 1 .. Len(current) : (<<e>> \o current)[i + 1] = current[i]
    BY <2>2
  <2> QED  BY <1>2, <2>1, <2>3
<1> QED  BY <1>1, <1>2
-----------------------------------------------------------------------------
(* Every step keeps the types. *)
LEMMA TypeStep == PageTypeOK /\ [Next]_vars => PageTypeOK'
<1> SUFFICES ASSUME PageTypeOK, [Next]_vars PROVE PageTypeOK'
  OBVIOUS
<1> USE PageAssumption
<1> /\ loads \in [Loads -> Load] /\ cache \in Pool /\ wallet \in Visitor
    /\ chain \in Versions /\ indexed \in 0 .. chain /\ inbox \in Seq(1 .. MaxEvents)
    /\ submitting \in Transaction
    /\ shown \in [pool : Pool, member : Visitor, events : Seq(1 .. MaxEvents)]
    /\ \E w \in Visitor : refresh \subseteq {w}
    /\ Nothing \in Visitor /\ Nothing \in Pool /\ NoTransaction \in Transaction
    /\ <<>> \in Seq(1 .. MaxEvents)
  BY DEF PageTypeOK, Visitor, Pool, NoTransaction, Transaction
<1>1. CASE PoolChanges
  BY <1>1 DEF PoolChanges, PageTypeOK, Versions, history
<1>2. CASE Indexed
  BY <1>2 DEF Indexed, PageTypeOK, Versions, history
<1>16. CASE Emitted
  <2>1. inbox' = Append(inbox, indexed) \/ inbox' = inbox
    BY <1>16 DEF Emitted
  <2>2. indexed \in 1 .. MaxEvents
    BY <1>16 DEF Emitted, PageTypeOK, Versions
  <2>4. Append(inbox, indexed) \in Seq(1 .. MaxEvents)
    BY <2>2, AppendProperties
  <2>3. inbox' \in Seq(1 .. MaxEvents)
    BY <2>1, <2>4
  <2> QED  BY <1>16, <2>3 DEF Emitted, PageTypeOK, history
<1>3. CASE Connect
  BY <1>3 DEF Connect, PageTypeOK, history, environment
<1>4. CASE Disconnect
  BY <1>4 DEF Disconnect, PageTypeOK, history, environment
<1>5. CASE HandleEvent
  <2>1. Head(inbox) \in 1 .. MaxEvents /\ Tail(inbox) \in Seq(1 .. MaxEvents)
    BY <1>5 DEF HandleEvent
  <2>2. AppendUnique(shown.events, Head(inbox)) \in Seq(1 .. MaxEvents)
    BY <2>1, Added
  <2>3. shown' \in [pool : Pool, member : Visitor, events : Seq(1 .. MaxEvents)]
    BY <1>5, <2>2 DEF HandleEvent
  <2> QED
    BY <1>5, <2>1, <2>3 DEF HandleEvent, Learns, PageTypeOK, environment
<1>6. CASE RefreshFires
  <2>1. loads' \in [Loads -> Load]
    BY <1>6, StartedLoad DEF RefreshFires, PageTypeOK
  <2> QED  BY <1>6, <2>1 DEF RefreshFires, PageTypeOK, environment, history
<1>7. CASE CacheExpires
  BY <1>7 DEF CacheExpires, PageTypeOK, environment, history
<1>8. ASSUME NEW w \in Visitor, SwitchWallet(w) PROVE PageTypeOK'
  <2>1. loads' \in [Loads -> Load]
    BY <1>8, StartedLoad DEF SwitchWallet
  <2> QED  BY <1>8, <2>1 DEF SwitchWallet, PageTypeOK, environment
<1>9. ASSUME NEW l \in Loads, LoadStep(l) PROVE PageTypeOK'
  <2>1. CASE ReadPool(l)
    <3>1. loads' \in [Loads -> Load]
      BY <2>1, Steps, Continued DEF ReadPool
    <3> QED  BY <2>1, <3>1 DEF ReadPool, PageTypeOK, environment, history
  <2>2. CASE PoolAnswered(l)
    <3>1. loads' \in [Loads -> Load]
      BY <2>2, Steps, Continued DEF PoolAnswered
    <3> QED  BY <2>2, <3>1 DEF PoolAnswered, PageTypeOK, environment, history
  <2>3. CASE PoolCached(l)
    <3>1. loads' \in [Loads -> Load]
      BY <2>3, Steps, Continued DEF PoolCached
    <3>2. cache' \in Pool
      BY <2>3 DEF PoolCached, Load
    <3> QED  BY <2>3, <3>1, <3>2 DEF PoolCached, PageTypeOK, environment, history
  <2>4. CASE SnapshotFails(l)
    <3>1. loads' \in [Loads -> Load]
      BY <2>4, Steps, Continued DEF SnapshotFails
    <3> QED  BY <2>4, <3>1 DEF SnapshotFails, PageTypeOK, environment, history
  <2>5. CASE EventsRead(l)
    <3>1. loads' \in [Loads -> Load]
      BY <2>5, Steps, Continued DEF EventsRead
    <3> QED  BY <2>5, <3>1 DEF EventsRead, PageTypeOK, environment, history
  <2>6. CASE EventsThrow(l)
    <3>1. loads' \in [Loads -> Load]
      BY <2>6, Steps, Continued DEF EventsThrow
    <3> QED  BY <2>6, <3>1 DEF EventsThrow, PageTypeOK, environment
  <2>7. CASE LoadEnds(l)
    <3>1. loads[l].pool \in Pool /\ loads[l].wallet \in Visitor /\ loads[l].events \in Versions
      BY <2>7 DEF LoadEnds, Load, Pool
    <3>2. Newest(loads[l].events) \in Seq(1 .. MaxEvents)
      BY <3>1, NewestFirst
    <3>3. shown' \in [pool : Pool, member : Visitor, events : Seq(1 .. MaxEvents)]
      BY <2>7, <3>1, <3>2 DEF LoadEnds
    <3>4. loads' \in [Loads -> Load]
      BY <2>7 DEF LoadEnds, Idle, Load
    <3> QED  BY <2>7, <3>3, <3>4 DEF LoadEnds, PageTypeOK, environment
  <2> QED  BY <1>9, <2>1, <2>2, <2>3, <2>4, <2>5, <2>6, <2>7 DEF LoadStep
<1>10. ASSUME NEW kind \in {"sent", "claim"}, Submit(kind) PROVE PageTypeOK'
  <2>1. submitting' \in Transaction
    BY <1>10 DEF Submit, Transaction
  <2> QED  BY <1>10, <2>1 DEF Submit, PageTypeOK, environment, history
<1>11. CASE Applied
  <2>1. submitting' \in Transaction
    BY <1>11 DEF Applied, Transaction
  <2> QED  BY <1>11, <2>1 DEF Applied, PageTypeOK, Versions, history
<1>12. CASE Confirmed
  <2>1. loads' \in [Loads -> Load]
    BY <1>12, StartedLoad DEF Confirmed, Transaction
  <2> QED  BY <1>12, <2>1 DEF Confirmed, Learns, PageTypeOK, environment
<1>13. CASE Claimed
  <2>1. loads' \in [Loads -> Load]
    BY <1>13, StartedLoad DEF Claimed, Transaction
  <2> QED  BY <1>13, <2>1 DEF Claimed, PageTypeOK, environment, history
<1>14. CASE NotConfirmed
  BY <1>14 DEF NotConfirmed, PageTypeOK, environment, history
<1>15. CASE UNCHANGED vars
  BY <1>15 DEF vars, PageTypeOK
<1> QED
  BY <1>1, <1>2, <1>3, <1>4, <1>5, <1>6, <1>7, <1>8, <1>9, <1>10, <1>11, <1>12, <1>13,
     <1>14, <1>15, <1>16 DEF Next
-----------------------------------------------------------------------------
(* Every step of a load but its last: what it continues with, and what of  *)
(* the rest of the page it may change.                                     *)
Continues(l, load) ==
  /\ Continue(l, load)
  /\ loads[l].at # "idle" /\ load.at # "idle"
  /\ load.at \in {"answered", "ready"} => load.pool # Nothing
  /\ load.pool \in {Nothing, cache, chain, loads[l].pool}
  /\ load.wallet = loads[l].wallet
  /\ load.events \in {loads[l].events, indexed, 0}
  /\ load.detached = loads[l].detached \/ failed'

LEMMA StepContinues ==
  ASSUME PageTypeOK, LoadsShaped, NEW l \in Loads, LoadStep(l), ~LoadEnds(l)
  PROVE  /\ \E load \in Load : Continues(l, load)
         /\ cache' \in {cache, loads[l].pool}
         /\ (failed' = failed \/ failed')
         /\ UNCHANGED <<environment, stream, inbox, wallet, refresh, submitting, shown,
                        known, overtaken, strayed>>
<1> USE DEF environment, history
<1> loads[l] \in Load /\ chain \in Nat /\ (loads[l].at = "idle" => loads[l] = Idle)
  BY PageAssumption DEF PageTypeOK, LoadsShaped, Versions
<1>1. CASE ReadPool(l)
  <2> DEFINE load == [loads[l] EXCEPT !.at = IF cache = Nothing THEN "asked" ELSE "ready",
                                      !.pool = cache]
  <2>1. load \in Load
    BY Steps
  <2>2. Continues(l, load)
    BY <1>1 DEF ReadPool, Continues, Load
  <2> QED  BY <1>1, <2>1, <2>2 DEF ReadPool
<1>2. CASE PoolAnswered(l)
  <2> DEFINE load == [loads[l] EXCEPT !.at = "answered", !.pool = chain]
  <2>1. load \in Load
    BY Steps
  <2>2. Continues(l, load)
    BY <1>2, PageAssumption DEF PoolAnswered, Continues, Load
  <2> QED  BY <1>2, <2>1, <2>2 DEF PoolAnswered
<1>3. CASE PoolCached(l)
  <2> DEFINE load == [loads[l] EXCEPT !.at = "ready"]
  <2>1. load \in Load
    BY Steps
  <2>2. Continues(l, load)
    BY <1>3 DEF PoolCached, Continues, Load, LoadsShaped
  <2> QED  BY <1>3, <2>1, <2>2 DEF PoolCached
<1>4. CASE SnapshotFails(l)
  <2> DEFINE load == [loads[l] EXCEPT !.at = "failed", !.pool = Nothing]
  <2>1. load \in Load
    BY Steps
  <2>2. Continues(l, load)
    BY <1>4 DEF SnapshotFails, Continues, Load
  <2> QED  BY <1>4, <2>1, <2>2 DEF SnapshotFails
<1>5. CASE EventsRead(l)
  <2> PICK n \in {indexed, 0} : Continue(l, [loads[l] EXCEPT !.events = n])
    BY <1>5 DEF EventsRead
  <2> DEFINE load == [loads[l] EXCEPT !.events = n]
  <2>1. load \in Load
    BY Steps
  <2>2. Continues(l, load)
    BY <1>5 DEF EventsRead, EventsAwaited, Continues, Load, LoadsShaped
  <2> QED  BY <1>5, <2>1, <2>2 DEF EventsRead
<1>6. CASE EventsThrow(l)
  <2> DEFINE load == [loads[l] EXCEPT !.detached = TRUE]
  <2>1. load \in Load
    BY Steps
  <2>2. Continues(l, load)
    BY <1>6 DEF EventsThrow, EventsAwaited, Continues, Load, LoadsShaped
  <2> QED  BY <1>6, <2>1, <2>2 DEF EventsThrow
<1> QED  BY <1>1, <1>2, <1>3, <1>4, <1>5, <1>6 DEF LoadStep

(* A step of a load keeps the shape of all loads. *)
LEMMA ShapeContinued ==
  ASSUME loads \in [Loads -> Load], LoadsShaped,
         NEW l \in Loads, NEW load \in Load, Continues(l, load)
  PROVE  LoadsShaped'
<1>1. Idle.at = "idle"
  BY DEF Idle
<1> QED  BY <1>1, Continued DEF LoadsShaped, Continues

(* So does a load that starts. *)
LEMMA ShapeStarted ==
  ASSUME loads \in [Loads -> Load], LoadsShaped, NEW w \in Visitor, StartLoad(w)
  PROVE  LoadsShaped'
<1>1. Started(w).at = "group"
  BY DEF Started, Idle
<1> QED  BY <1>1, StartedLoad DEF LoadsShaped

(* Every step keeps the shape of the loads. *)
LEMMA ShapeStep == PageTypeOK /\ LoadsShaped /\ [Next]_vars => LoadsShaped'
<1> SUFFICES ASSUME PageTypeOK, LoadsShaped, [Next]_vars PROVE LoadsShaped'
  OBVIOUS
<1> loads \in [Loads -> Load] /\ submitting.wallet \in Visitor
  BY DEF PageTypeOK, Transaction
<1>1. CASE UNCHANGED loads
  BY <1>1 DEF LoadsShaped
<1>2. ASSUME NEW l \in Loads, LoadStep(l) PROVE LoadsShaped'
  <2>1. CASE LoadEnds(l)
    BY <2>1 DEF LoadEnds, LoadsShaped, Idle
  <2>2. CASE ~LoadEnds(l)
    BY <1>2, <2>2, StepContinues, ShapeContinued
  <2> QED  BY <2>1, <2>2
<1>3. CASE RefreshFires
  BY <1>3, ShapeStarted DEF RefreshFires, PageTypeOK
<1>4. ASSUME NEW w \in Visitor, SwitchWallet(w) PROVE LoadsShaped'
  BY <1>4, ShapeStarted DEF SwitchWallet
<1>5. CASE Confirmed
  BY <1>5, ShapeStarted DEF Confirmed
<1>6. CASE Claimed
  BY <1>6, ShapeStarted DEF Claimed
<1> QED
  BY <1>1, <1>2, <1>3, <1>4, <1>5, <1>6
  DEF Next, vars, PoolChanges, Indexed, Emitted, Connect, Disconnect, HandleEvent, CacheExpires,
      Submit, Applied, NotConfirmed
-----------------------------------------------------------------------------
(* A load that continues is still under way. *)
LEMMA StillPending ==
  ASSUME loads \in [Loads -> Load], Pending, refresh' = refresh,
         NEW l \in Loads, NEW load \in Load, Continues(l, load)
  PROVE  Pending' \/ failed'
BY Continued DEF Pending, Continues

(* A load that starts is under way. *)
LEMMA StartPending ==
  ASSUME loads \in [Loads -> Load], NEW w \in Visitor, StartLoad(w)
  PROVE  Pending'
<1>1. Started(w).at = "group" /\ Started(w).detached = FALSE
  BY DEF Started, Idle
<1> QED  BY <1>1, StartedLoad DEF Pending

(* A load that continues with nothing stale leaves nothing stale. *)
LEMMA FreshContinued ==
  ASSUME loads \in [Loads -> Load], known <= chain, known' = known,
         AtLeastKnown(cache), \A k \in Loads : AtLeastKnown(loads[k].pool),
         NEW l \in Loads, NEW load \in Load, Continues(l, load)
  PROVE  \A k \in Loads : AtLeastKnown(loads[k].pool)'
<1>1. Idle.pool = Nothing /\ AtLeastKnown(load.pool)
  BY DEF Idle, Continues, AtLeastKnown
<1> QED  BY <1>1, Continued DEF AtLeastKnown, Continues

(* A load that starts has read nothing yet. *)
LEMMA FreshStarted ==
  ASSUME loads \in [Loads -> Load], NEW w \in Visitor, StartLoad(w),
         \A k \in Loads : loads[k] = Idle \/ loads[k].pool = Nothing
                            \/ loads[k].pool >= known'
  PROVE  \A k \in Loads : AtLeastKnown(loads[k].pool)'
<1>1. Started(w).pool = Nothing /\ Idle.pool = Nothing
  BY DEF Started, Idle
<1> QED  BY <1>1, StartedLoad DEF AtLeastKnown

(* Nothing becomes stale: what is read is the pool of the chain, and what  *)
(* was read before the page was told of a change is dropped, unless a load *)
(* was under way.                                                          *)
LEMMA FreshStep ==
  PageTypeOK /\ LoadsShaped /\ NothingStale /\ [Next]_vars => NothingStale'
<1> SUFFICES ASSUME PageTypeOK, LoadsShaped, NothingStale, [Next]_vars
             PROVE  NothingStale'
  OBVIOUS
<1> USE PageAssumption
<1> /\ loads \in [Loads -> Load] /\ chain \in Nat /\ known \in Nat
    /\ overtaken \in BOOLEAN /\ submitting.wallet \in Visitor /\ known <= chain
  BY DEF PageTypeOK, Transaction, NothingStale, Versions
<1> DEFINE Same == UNCHANGED <<cache, loads, known, overtaken>> /\ chain' \in {chain, chain + 1}
<1>1. CASE Same
  BY <1>1 DEF NothingStale, AtLeastKnown
<1>2. CASE CacheExpires
  BY <1>2 DEF CacheExpires, environment, history, NothingStale, AtLeastKnown
<1>3. CASE HandleEvent
  <2>1. known' = chain /\ chain' = chain /\ cache' = Nothing /\ loads' = loads /\ overtaken' = ~Quiet
    BY <1>3 DEF HandleEvent, Learns, environment
  <2>2. Quiet => \A l \in Loads : AtLeastKnown(loads[l].pool)'
    BY <2>1 DEF Quiet, Idle, AtLeastKnown
  <2>3. ~overtaken' => \A l \in Loads : AtLeastKnown(loads[l].pool)'
    BY <2>1, <2>2, Zenon
  <2> QED  BY <2>1, <2>3 DEF NothingStale, AtLeastKnown
<1>4. CASE Confirmed
  <2>1. known' = chain /\ chain' = chain /\ cache' = Nothing /\ overtaken' = ~Quiet
    BY <1>4 DEF Confirmed, Learns, environment
  <2>2. Quiet => \A l \in Loads : AtLeastKnown(loads[l].pool)'
    BY <1>4, FreshStarted DEF Quiet, Confirmed
  <2>3. ~overtaken' => \A l \in Loads : AtLeastKnown(loads[l].pool)'
    BY <2>1, <2>2, Zenon
  <2> QED  BY <2>1, <2>3 DEF NothingStale, AtLeastKnown
<1>5. ASSUME UNCHANGED <<chain, cache, known, overtaken>>, NEW w \in Visitor, StartLoad(w)
      PROVE  NothingStale'
  <2>1. ~overtaken => \A l \in Loads : AtLeastKnown(loads[l].pool)'
    BY <1>5, FreshStarted DEF NothingStale, AtLeastKnown
  <2> QED  BY <1>5, <2>1 DEF NothingStale, AtLeastKnown
<1>6. CASE RefreshFires
  BY <1>5, <1>6 DEF RefreshFires, environment, history, PageTypeOK
<1>7. ASSUME NEW w \in Visitor, SwitchWallet(w) PROVE NothingStale'
  BY <1>5, <1>7 DEF SwitchWallet, environment
<1>8. CASE Claimed
  BY <1>5, <1>8 DEF Claimed, environment, history
<1>9. ASSUME NEW l \in Loads, LoadStep(l) PROVE NothingStale'
  <2>1. CASE LoadEnds(l)
    BY <2>1 DEF LoadEnds, environment, NothingStale, AtLeastKnown, Idle
  <2>2. CASE ~LoadEnds(l)
    <3>1. /\ UNCHANGED <<chain, known, overtaken>> /\ cache' \in {cache, loads[l].pool}
          /\ \E load \in Load : Continues(l, load)
      BY <1>9, <2>2, StepContinues DEF environment
    <3>2. ~overtaken => \A k \in Loads : AtLeastKnown(loads[k].pool)'
      BY <3>1, FreshContinued DEF NothingStale
    <3>3. ~overtaken => AtLeastKnown(cache)'
      BY <3>1 DEF NothingStale, AtLeastKnown
    <3> QED  BY <3>1, <3>2, <3>3 DEF NothingStale
  <2> QED  BY <2>1, <2>2
<1>10. CASE PoolChanges \/ Indexed \/ Emitted \/ Connect \/ Disconnect \/ Applied \/ NotConfirmed
             \/ (\E kind \in {"sent", "claim"} : Submit(kind)) \/ UNCHANGED vars
  <2>1. Same
    BY <1>10 DEF PoolChanges, Indexed, Emitted, Connect, Disconnect, Applied, NotConfirmed, Submit,
                 vars, environment, history
  <2> QED  BY <1>1, <2>1
<1> QED
  BY <1>2, <1>3, <1>4, <1>6, <1>7, <1>8, <1>9, <1>10 DEF Next

(* What the page was told of is shown, or something is under way that will *)
(* show it.                                                                *)
LEMMA ComesStep ==
  PageTypeOK /\ LoadsShaped /\ NothingStale /\ ComesUpToDate /\ [Next]_vars => ComesUpToDate'
<1> SUFFICES ASSUME PageTypeOK, LoadsShaped, NothingStale, ComesUpToDate, [Next]_vars
             PROVE  ComesUpToDate'
  OBVIOUS
<1> /\ loads \in [Loads -> Load] /\ overtaken \in BOOLEAN /\ failed \in BOOLEAN
    /\ submitting.wallet \in Visitor
  BY DEF PageTypeOK, Transaction
<1> DEFINE Same == UNCHANGED <<loads, refresh, shown, known, overtaken, failed>>
<1>1. CASE Same
  BY <1>1 DEF ComesUpToDate, Pending, UpToDate
<1>2. CASE HandleEvent
  BY <1>2 DEF HandleEvent, ComesUpToDate, Pending
<1>3. CASE RefreshFires
  BY <1>3, StartPending DEF RefreshFires, ComesUpToDate, PageTypeOK
<1>4. ASSUME NEW w \in Visitor, SwitchWallet(w) PROVE ComesUpToDate'
  BY <1>4, StartPending DEF SwitchWallet, ComesUpToDate
<1>5. CASE Confirmed
  BY <1>5, StartPending DEF Confirmed, ComesUpToDate
<1>6. CASE Claimed
  BY <1>6, StartPending DEF Claimed, ComesUpToDate
<1>7. ASSUME NEW l \in Loads, LoadStep(l) PROVE ComesUpToDate'
  <2>1. CASE LoadEnds(l)
    <3>1. CASE loads[l].at = "failed"
      BY <2>1, <3>1 DEF LoadEnds, ComesUpToDate
    <3>2. CASE loads[l].at = "ready"
      <4>1. shown'.pool = loads[l].pool /\ loads[l].pool # Nothing /\ known' = known
              /\ overtaken' = overtaken
        BY <2>1, <3>2 DEF LoadEnds, LoadsShaped
      <4> QED  BY <4>1 DEF ComesUpToDate, UpToDate, NothingStale, AtLeastKnown
    <3> QED  BY <2>1, <3>1, <3>2 DEF LoadEnds
  <2>2. CASE ~LoadEnds(l)
    <3>1. /\ UNCHANGED <<refresh, shown, known, overtaken>> /\ (failed' = failed \/ failed')
          /\ \E load \in Load : Continues(l, load)
      BY <1>7, <2>2, StepContinues
    <3>2. Pending => Pending' \/ failed'
      BY <3>1, StillPending
    <3> QED  BY <3>1, <3>2 DEF ComesUpToDate, UpToDate
  <2> QED  BY <2>1, <2>2
<1>8. CASE PoolChanges \/ Indexed \/ Emitted \/ Connect \/ Disconnect \/ CacheExpires \/ Applied
             \/ NotConfirmed \/ (\E kind \in {"sent", "claim"} : Submit(kind))
             \/ UNCHANGED vars
  <2>1. Same
    BY <1>8 DEF PoolChanges, Indexed, Emitted, Connect, Disconnect, CacheExpires, Applied,
                NotConfirmed, Submit, vars, environment, history
  <2> QED  BY <1>1, <2>1
<1> QED
  BY <1>2, <1>3, <1>4, <1>5, <1>6, <1>7, <1>8 DEF Next

(* A load for the connected wallet starts among loads for it. *)
LEMMA StartOwn ==
  ASSUME loads \in [Loads -> Load], NEW w \in Visitor, StartLoad(w),
         \A l \in Loads : loads[l].at # "idle" => loads[l].wallet = w
  PROVE  \A l \in Loads : loads'[l].at # "idle" => loads'[l].wallet = w
<1>1. Started(w).wallet = w
  BY DEF Started, Idle
<1> QED  BY <1>1, StartedLoad

(* What is under way is for the connected wallet, as long as the wallet    *)
(* changes only while nothing is.                                          *)
LEMMA OneWalletStep ==
  PageTypeOK /\ LoadsShaped /\ OneWallet /\ [Next]_vars => OneWallet'
<1> SUFFICES ASSUME PageTypeOK, LoadsShaped, OneWallet, [Next]_vars PROVE OneWallet'
  OBVIOUS
<1> /\ loads \in [Loads -> Load] /\ failed \in BOOLEAN /\ strayed \in BOOLEAN
    /\ wallet \in Visitor /\ submitting \in Transaction /\ NoTransaction.kind = "none"
  BY DEF PageTypeOK, NoTransaction
<1> DEFINE Same == UNCHANGED <<loads, refresh, wallet, shown, strayed, failed>>
<1>1. ASSUME Same, \/ submitting'.kind = "none" \/ submitting'.wallet = wallet
                   \/ /\ submitting'.kind # "none" => submitting.kind # "none"
                      /\ submitting'.wallet = submitting.wallet
      PROVE  OneWallet'
  BY <1>1 DEF OneWallet, Pending
<1>2. CASE HandleEvent
  BY <1>2 DEF HandleEvent, Learns, OneWallet, Pending
<1>3. ASSUME StartLoad(wallet), UNCHANGED <<wallet, shown, strayed>>,
             refresh' = refresh \/ refresh' = {},
             submitting' = submitting \/ submitting' = NoTransaction
      PROVE  OneWallet'
  <2>1. Pending'
    BY <1>3, StartPending
  <2>2. ~strayed => \A l \in Loads : loads'[l].at # "idle" => loads'[l].wallet = wallet
    BY <1>3, StartOwn DEF OneWallet
  <2> QED  BY <1>3, <2>1, <2>2 DEF OneWallet
<1>4. CASE RefreshFires
  <2>1. PICK w \in refresh : StartLoad(w)
    BY <1>4 DEF RefreshFires
  <2>2. CASE strayed
    BY <1>4, <2>2 DEF RefreshFires, history, OneWallet
  <2>3. CASE ~strayed
    <3>1. w = wallet
      BY <2>3 DEF OneWallet
    <3> QED  BY <1>3, <1>4, <2>1, <3>1 DEF RefreshFires, history
  <2> QED  BY <2>2, <2>3
<1>5. CASE Confirmed \/ Claimed
  <2>1. StartLoad(submitting.wallet) /\ submitting.kind # "none"
        /\ UNCHANGED <<wallet, shown, strayed, refresh>> /\ submitting' = NoTransaction
    BY <1>5 DEF Confirmed, Claimed, Learns, history
  <2>2. CASE strayed
    BY <2>1, <2>2 DEF OneWallet
  <2>3. CASE ~strayed
    <3>1. submitting.wallet = wallet
      BY <2>1, <2>3 DEF OneWallet
    <3> QED  BY <1>3, <2>1, <3>1
  <2> QED  BY <2>2, <2>3
<1>6. ASSUME NEW w \in Visitor, SwitchWallet(w) PROVE OneWallet'
  <2>1. CASE ~Quiet \/ refresh # {} \/ submitting # NoTransaction
    <3>1. strayed'
      BY <1>6, <2>1 DEF SwitchWallet
    <3> QED  BY <3>1 DEF OneWallet
  <2>2. CASE Quiet /\ refresh = {} /\ submitting = NoTransaction
    <3>1. Pending'
      BY <1>6, StartPending DEF SwitchWallet
    <3>2. \A l \in Loads : loads'[l].at # "idle" => loads'[l].wallet = w
      <4>1. \A l \in Loads : loads[l].at = "idle"
        BY <2>2 DEF Quiet, Idle
      <4> QED  BY <1>6, <4>1, StartOwn DEF SwitchWallet
    <3> QED  BY <1>6, <2>2, <3>1, <3>2 DEF SwitchWallet, OneWallet
  <2> QED  BY <2>1, <2>2
<1>7. ASSUME NEW l \in Loads, LoadStep(l) PROVE OneWallet'
  <2>1. CASE LoadEnds(l)
    <3>1. /\ loads[l].at # "idle" /\ shown'.member = loads[l].wallet
          /\ loads' = [loads EXCEPT ![l] = Idle]
          /\ UNCHANGED <<wallet, refresh, submitting, strayed>>
      BY <2>1 DEF LoadEnds
    <3> QED  BY <3>1 DEF OneWallet, Idle
  <2>2. CASE ~LoadEnds(l)
    <3>1. UNCHANGED <<wallet, refresh, submitting, shown, strayed>>
          /\ (failed' = failed \/ failed')
      BY <1>7, <2>2, StepContinues
    <3>2. PICK load \in Load : Continues(l, load)
      BY <1>7, <2>2, StepContinues
    <3>3. Pending => Pending' \/ failed'
      BY <3>1, <3>2, StillPending
    <3>4. ~strayed => \A k \in Loads : loads'[k].at # "idle" => loads'[k].wallet = wallet
      BY <3>2, Continued DEF OneWallet, Continues, Idle
    <3> QED  BY <3>1, <3>3, <3>4 DEF OneWallet
  <2> QED  BY <2>1, <2>2
<1>8. ASSUME NEW kind \in {"sent", "claim"}, Submit(kind) PROVE OneWallet'
  BY <1>1, <1>8 DEF Submit, environment, history
<1>9. CASE Applied
  BY <1>1, <1>9 DEF Applied, history, Transaction
<1>10. CASE NotConfirmed
  BY <1>1, <1>10 DEF NotConfirmed, environment, history
<1>11. CASE PoolChanges \/ Indexed \/ Emitted \/ CacheExpires \/ UNCHANGED vars
  BY <1>1, <1>11 DEF PoolChanges, Indexed, Emitted, CacheExpires, vars, environment, history
<1>12. CASE Connect \/ Disconnect
  BY <1>1, <1>12 DEF Connect, Disconnect, environment, history
<1> QED
  BY <1>2, <1>4, <1>5, <1>6, <1>7, <1>8, <1>9, <1>10, <1>11, <1>12 DEF Next
-----------------------------------------------------------------------------
(* The positions and the entries of a sequence. *)
LEMMA Entries ==
  ASSUME NEW S, NEW s \in Seq(S)
  PROVE  /\ Len(s) \in Nat /\ DOMAIN s = 1 .. Len(s)
         /\ \A i \in DOMAIN s : i \in Nat /\ i >= 1 /\ s[i] \in S
BY LenProperties, ElementOfSeq

(* Handling an event keeps the list in order and the rest of the inbox     *)
(* mergeable into it.                                                      *)
LEMMA Merges ==
  ASSUME PageTypeOK, InboxMerges, HistoryIndexed, HistoryOrdered, HandleEvent
  PROVE  InboxMerges' /\ HistoryOrdered' /\ \A j \in DOMAIN shown'.events : shown'.events[j] <= indexed
<1> DEFINE e == Head(inbox)  old == shown.events  new == AppendUnique(old, e)
<1>1. /\ inbox \in Seq(1 .. MaxEvents) /\ inbox # <<>> /\ inbox' = Tail(inbox)
      /\ indexed' = indexed /\ shown'.events = new /\ old \in Seq(1 .. MaxEvents)
      /\ indexed \in Nat /\ emitting' = emitting
  BY PageAssumption DEF PageTypeOK, HandleEvent, environment, Versions
<1>2. /\ e \in 1 .. MaxEvents /\ e = inbox[1] /\ 1 \in DOMAIN inbox
      /\ \A i \in DOMAIN Tail(inbox) : i + 1 \in DOMAIN inbox /\ Tail(inbox)[i] = inbox[i + 1] /\ i \in Nat
  <2>1. Len(inbox) \in Nat \ {0} /\ DOMAIN inbox = 1 .. Len(inbox)
    BY <1>1, Entries, EmptySeq
  <2>2. DOMAIN Tail(inbox) = 1 .. Len(inbox) - 1
    BY <1>1, <2>1, HeadTailProperties, Entries
  <2>3. e = inbox[1] /\ e \in 1 .. MaxEvents
    <3>1. e = inbox[1]
      BY <1>1
    <3>2. 1 \in 1 .. Len(inbox)
      BY <2>1
    <3>3. inbox[1] \in 1 .. MaxEvents
      BY <1>1, <3>2, ElementOfSeq
    <3> QED  BY <3>1, <3>3
  <2>4. ASSUME NEW i \in DOMAIN Tail(inbox) PROVE Tail(inbox)[i] = inbox[i + 1]
    BY <1>1, <2>1, <2>2, HeadTailProperties
  <2> HIDE DEF e
  <2> QED  BY <2>1, <2>2, <2>3, <2>4
<1>3. /\ e <= indexed
      /\ \A i \in DOMAIN Tail(inbox) : /\ Tail(inbox)[i] > e /\ Tail(inbox)[i] <= indexed
                                       /\ Tail(inbox)[i] \in Nat
                                       /\ (emitting => Tail(inbox)[i] # indexed)
      /\ \A i, j \in DOMAIN Tail(inbox) : i < j => Tail(inbox)[i] < Tail(inbox)[j]
  <2>1. \A i \in DOMAIN inbox : inbox[i] \in 1 .. MaxEvents
    BY <1>1, Entries
  <2> QED  BY <1>2, <2>1, PageAssumption DEF InboxMerges
<1>4. \A j \in DOMAIN old : e < old[j] => \E k \in DOMAIN old : old[k] = e
  BY <1>2 DEF InboxMerges
<1>5. \A i \in DOMAIN Tail(inbox), j \in DOMAIN old :
        Tail(inbox)[i] < old[j] => \E k \in DOMAIN old : old[k] = Tail(inbox)[i]
  BY <1>2 DEF InboxMerges
<1>6. \A j \in DOMAIN old : old[j] \in 1 .. MaxEvents /\ old[j] <= indexed /\ j \in Nat /\ j >= 1
  BY <1>1, Entries DEF HistoryIndexed
<1> HIDE DEF e, old
<1>7. CASE new = old
  BY <1>1, <1>3, <1>5, <1>6, <1>7 DEF InboxMerges, HistoryOrdered, old
<1>8. CASE /\ new \in Seq(1 .. MaxEvents) /\ DOMAIN new = 1 .. Len(old) + 1
           /\ new[1] = e
           /\ \A i \in DOMAIN old : new[i + 1] = old[i]
           /\ \A i \in DOMAIN old : old[i] # e
  <2>1. \A j \in DOMAIN old : old[j] < e
    BY <1>2, <1>4, <1>6, <1>8, PageAssumption
  <2>2. \A j \in DOMAIN new : j = 1 \/ (j - 1 \in DOMAIN old /\ new[j] = old[j - 1])
    <3>1. DOMAIN old = 1 .. Len(old) /\ Len(old) \in Nat
      BY <1>1
    <3>2. SUFFICES ASSUME NEW j \in DOMAIN new, j # 1
                   PROVE  j - 1 \in DOMAIN old /\ new[j] = old[j - 1]
      OBVIOUS
    <3>3. j - 1 \in DOMAIN old /\ (j - 1) + 1 = j
      BY <1>8, <3>1, <3>2
    <3>4. new[(j - 1) + 1] = old[j - 1]
      BY <1>8, <3>3
    <3> QED  BY <3>3, <3>4
  <2>3. \A i, j \in DOMAIN new : i < j => new[i] > new[j]
    <3>1. SUFFICES ASSUME NEW i \in DOMAIN new, NEW j \in DOMAIN new, i < j
                   PROVE  new[i] > new[j]
      OBVIOUS
    <3>2. i \in Nat /\ j \in Nat /\ i >= 1 /\ j # 1
      BY <1>1, <1>8, <3>1
    <3>3. j - 1 \in DOMAIN old /\ new[j] = old[j - 1]
      BY <2>2, <3>2
    <3>4. CASE i = 1
      BY <1>8, <2>1, <3>3, <3>4, <1>2, <1>6, PageAssumption
    <3>5. CASE i # 1
      <4>1. i - 1 \in DOMAIN old /\ new[i] = old[i - 1] /\ i - 1 < j - 1
        BY <2>2, <3>1, <3>2, <3>5
      <4> QED  BY <3>3, <4>1 DEF HistoryOrdered, old
    <3> QED  BY <3>4, <3>5
  <2>4. \A j \in DOMAIN new : new[j] <= e /\ new[j] <= indexed
    <3>1. e \in Nat /\ indexed \in Nat /\ e <= indexed
      BY <1>1, <1>2, <1>3
    <3>2. ASSUME NEW j \in DOMAIN new, j - 1 \in DOMAIN old, new[j] = old[j - 1]
          PROVE  new[j] <= e /\ new[j] <= indexed
      BY <1>6, <2>1, <3>1, <3>2
    <3>3. new[1] <= e /\ new[1] <= indexed
      BY <1>8, <3>1
    <3> QED  BY <2>2, <3>2, <3>3
  <2>5. \A i \in DOMAIN Tail(inbox), j \in DOMAIN new : ~(Tail(inbox)[i] < new[j])
    <3>1. SUFFICES ASSUME NEW i \in DOMAIN Tail(inbox), NEW j \in DOMAIN new
                   PROVE  ~(Tail(inbox)[i] < new[j])
      OBVIOUS
    <3>2. new[j] \in Nat /\ new[j] <= e /\ Tail(inbox)[i] > e /\ Tail(inbox)[i] \in Nat /\ e \in Nat
      BY <1>2, <1>3, <1>8, <2>4, PageAssumption
    <3> QED  BY <3>2
  <2> QED  BY <1>1, <1>3, <2>3, <2>4, <2>5 DEF InboxMerges, HistoryOrdered
<1>9. \/ new = old
      \/ /\ new \in Seq(1 .. MaxEvents) /\ DOMAIN new = 1 .. Len(old) + 1
         /\ new[1] = e
         /\ \A i \in DOMAIN old : new[i + 1] = old[i]
         /\ \A i \in DOMAIN old : old[i] # e
  BY <1>1, <1>2, Added DEF old
<1> QED  BY <1>7, <1>8, <1>9

(* What a load has read of the table is in the table. *)
LoadsIndexed == \A l \in Loads : loads[l].events = Nothing \/ loads[l].events <= indexed

(* A load that starts or continues keeps it so. *)
LEMMA IndexedStarted ==
  ASSUME loads \in [Loads -> Load], LoadsIndexed, indexed' = indexed,
         NEW w \in Visitor, StartLoad(w)
  PROVE  LoadsIndexed'
<1>1. Started(w).events = Nothing
  BY DEF Started, Idle
<1> QED  BY <1>1, StartedLoad DEF LoadsIndexed

LEMMA IndexedContinued ==
  ASSUME loads \in [Loads -> Load], LoadsIndexed, indexed' = indexed, indexed \in Nat,
         NEW l \in Loads, NEW load \in Load, Continues(l, load)
  PROVE  LoadsIndexed'
<1>1. Idle.events = Nothing /\ (load.events = Nothing \/ load.events <= indexed)
  BY DEF Idle, Continues, LoadsIndexed
<1> QED  BY <1>1, Continued DEF LoadsIndexed, Continues

Merged == InboxMerges /\ HistoryIndexed /\ HistoryOrdered

(* Every step keeps the history in order and the inbox mergeable. *)
LEMMA MergedStep ==
  PageTypeOK /\ LoadsShaped /\ Merged /\ [Next]_vars => Merged'
<1> SUFFICES ASSUME PageTypeOK, LoadsShaped, Merged, [Next]_vars PROVE Merged'
  OBVIOUS
<1> USE PageAssumption
<1> /\ loads \in [Loads -> Load] /\ indexed \in Nat /\ LoadsIndexed
    /\ submitting.wallet \in Visitor /\ inbox \in Seq(1 .. MaxEvents)
  BY DEF PageTypeOK, Transaction, Merged, HistoryIndexed, LoadsIndexed, Versions
<1>1. ASSUME LoadsIndexed', UNCHANGED <<shown, indexed, emitting>>, inbox' = inbox \/ inbox' = <<>>
      PROVE  Merged'
  BY <1>1 DEF Merged, LoadsIndexed, InboxMerges, HistoryIndexed, HistoryOrdered
<1>e. ASSUME Indexed \/ Emitted
      PROVE  /\ \A j \in DOMAIN shown.events : /\ shown.events[j] <= indexed
                                               /\ shown.events[j] \in 1 .. MaxEvents
             /\ \A i \in DOMAIN inbox : inbox[i] \in 1 .. MaxEvents /\ i \in Nat
             /\ UNCHANGED <<shown, loads>>
  BY <1>e, Entries DEF Merged, HistoryIndexed, PageTypeOK, Indexed, Emitted
<1>2. CASE Indexed
  <2>1. /\ indexed' = indexed + 1 /\ inbox' = inbox
        /\ \A l \in Loads : loads[l].events = Nothing \/ loads[l].events <= indexed + 1
    BY <1>2 DEF Indexed, LoadsIndexed, Load, Pool, Versions
  <2>2. HistoryIndexed' /\ HistoryOrdered'
    BY <1>2, <1>e, <2>1 DEF HistoryIndexed, HistoryOrdered, Merged
  <2>3. InboxMerges'
    BY <1>2, <1>e, <2>1 DEF InboxMerges, Merged
  <2> QED  BY <2>2, <2>3 DEF Merged
<1>7. CASE Emitted
  <2>1. /\ emitting /\ ~emitting' /\ indexed' = indexed /\ indexed \in 1 .. MaxEvents
        /\ inbox' = Append(inbox, indexed) \/ inbox' = inbox
    BY <1>7 DEF Emitted, PageTypeOK, Versions
  <2>2. HistoryIndexed' /\ HistoryOrdered'
    BY <1>7, <1>e, <2>1 DEF HistoryIndexed, HistoryOrdered, Merged
  <2>3. InboxMerges'
    <3>1. CASE inbox' = inbox
      BY <1>7, <1>e, <2>1, <3>1 DEF InboxMerges, Merged
    <3>2. CASE inbox' = Append(inbox, indexed)
      <4>1. /\ Len(inbox) \in Nat /\ DOMAIN inbox = 1 .. Len(inbox)
            /\ DOMAIN inbox' = 1 .. Len(inbox) + 1
        BY <2>1, <3>2, Entries, AppendProperties
      <4>2. \A i \in DOMAIN inbox' : \/ i \in DOMAIN inbox /\ inbox'[i] = inbox[i]
                                     \/ i = Len(inbox) + 1 /\ inbox'[i] = indexed
        BY <2>1, <3>2, <4>1, AppendProperties
      <4>3. SUFFICES ASSUME NEW i \in DOMAIN inbox'
                     PROVE  /\ inbox'[i] <= indexed
                            /\ \A j \in DOMAIN inbox' : i < j => inbox'[i] < inbox'[j]
                            /\ \A j \in DOMAIN shown.events :
                                 inbox'[i] < shown.events[j] =>
                                   \E k \in DOMAIN shown.events : shown.events[k] = inbox'[i]
        BY <1>7, <1>e, <2>1 DEF InboxMerges
      <4>4. CASE i \in DOMAIN inbox /\ inbox'[i] = inbox[i]
        <5>1. inbox[i] <= indexed /\ inbox[i] < indexed
          BY <1>7, <1>e, <2>1, <4>4 DEF Merged, InboxMerges
        <5>2. ASSUME NEW j \in DOMAIN inbox', i < j PROVE inbox'[i] < inbox'[j]
          BY <4>2, <4>4, <5>1, <5>2 DEF Merged, InboxMerges
        <5> QED  BY <4>4, <5>1, <5>2 DEF Merged, InboxMerges
      <4>5. CASE i = Len(inbox) + 1 /\ inbox'[i] = indexed
        BY <1>7, <1>e, <2>1, <4>1, <4>5
      <4> QED  BY <4>2, <4>4, <4>5
    <3> QED  BY <2>1, <3>1, <3>2
  <2> QED  BY <2>2, <2>3 DEF Merged
<1>3. CASE HandleEvent
  <2>1. UNCHANGED <<indexed, loads>>
    BY <1>3 DEF HandleEvent, environment
  <2> QED  BY <1>3, <2>1, Merges DEF Merged, HistoryIndexed
<1>4. ASSUME NEW l \in Loads, LoadStep(l) PROVE Merged'
  <2>1. CASE LoadEnds(l)
    <3> DEFINE n == loads[l].events
    <3>1. /\ n \in Versions /\ n <= indexed /\ shown'.events = Newest(n)
          /\ UNCHANGED <<indexed, emitting, inbox>> /\ loads' = [loads EXCEPT ![l] = Idle]
      BY <2>1 DEF LoadEnds, environment, LoadsIndexed, Load, Pool
    <3>2. /\ \A i \in DOMAIN Newest(n) : Newest(n)[i] \in 1 .. n
          /\ \A i, j \in DOMAIN Newest(n) : i < j => Newest(n)[i] > Newest(n)[j]
          /\ \A e \in 1 .. n : \E i \in DOMAIN Newest(n) : Newest(n)[i] = e
      BY <3>1, NewestFirst
    <3>3. \A i \in DOMAIN inbox : inbox[i] \in Nat /\ inbox[i] >= 1
      BY Entries
    <3> HIDE DEF n
    <3>4. HistoryOrdered' /\ InboxMerges'
      <4>1. \A i \in DOMAIN inbox, j \in DOMAIN Newest(n) :
              inbox[i] < Newest(n)[j] => inbox[i] \in 1 .. n
        BY <3>1, <3>2, <3>3 DEF Versions
      <4> QED  BY <3>1, <3>2, <4>1 DEF HistoryOrdered, InboxMerges, Merged
    <3>5. HistoryIndexed'
      <4>1. \A j \in DOMAIN Newest(n) : Newest(n)[j] <= indexed
        BY <3>1, <3>2 DEF Versions
      <4> QED  BY <3>1, <4>1 DEF HistoryIndexed, LoadsIndexed, Idle
    <3> QED  BY <3>4, <3>5 DEF Merged
  <2>2. CASE ~LoadEnds(l)
    <3>1. UNCHANGED <<indexed, emitting, inbox, shown>> /\ \E load \in Load : Continues(l, load)
      BY <1>4, <2>2, StepContinues DEF environment
    <3>2. LoadsIndexed'
      BY <3>1, IndexedContinued
    <3> QED  BY <1>1, <3>1, <3>2
  <2> QED  BY <2>1, <2>2
<1>5. CASE RefreshFires \/ Confirmed \/ Claimed \/ \E w \in Visitor : SwitchWallet(w)
  <2>1. /\ \E w \in Visitor : StartLoad(w)
        /\ UNCHANGED <<indexed, emitting, shown>> /\ (inbox' = inbox \/ inbox' = <<>>)
    BY <1>5 DEF RefreshFires, Confirmed, Claimed, SwitchWallet, environment, PageTypeOK
  <2>2. LoadsIndexed'
    BY <2>1, IndexedStarted
  <2> QED  BY <1>1, <2>1, <2>2
<1>6. CASE PoolChanges \/ Connect \/ Disconnect \/ CacheExpires \/ Applied \/ NotConfirmed
             \/ (\E kind \in {"sent", "claim"} : Submit(kind)) \/ UNCHANGED vars
  <2>1. UNCHANGED <<loads, indexed, emitting, shown>> /\ (inbox' = inbox \/ inbox' = <<>>)
    BY <1>6 DEF PoolChanges, Connect, Disconnect, CacheExpires, Applied, NotConfirmed,
                Submit, vars, environment
  <2> QED  BY <1>1, <2>1 DEF LoadsIndexed
<1> QED  BY <1>2, <1>3, <1>4, <1>5, <1>6, <1>7 DEF Next
-----------------------------------------------------------------------------
(* The page starts with one load under way and nothing to merge. *)
LEMMA PageStarts == Init => PageInv
<1> SUFFICES ASSUME Init PROVE PageInv
  OBVIOUS
<1> USE PageAssumption
<1>1. PICK first \in Loads :
        loads = [l \in Loads |-> IF l = first THEN Started(Nothing) ELSE Idle]
  BY DEF Init
<1>2. Started(Nothing) \in Load /\ Idle \in Load
  BY DEF Started, Idle, Load, Visitor, Pool
<1>3. PageTypeOK
  <2>1. loads \in [Loads -> Load]
    BY <1>1, <1>2
  <2>2. shown \in [pool : Pool, member : Visitor, events : Seq(1 .. MaxEvents)]
    BY EmptySeq DEF Init, Pool, Visitor
  <2>3. inbox \in Seq(1 .. MaxEvents) /\ submitting \in Transaction
    BY EmptySeq DEF Init, NoTransaction, Transaction, Visitor
  <2>4. 0 \in Versions /\ 0 \in 0 .. 0 /\ cache \in Pool /\ Nothing \in Visitor
    BY DEF Init, Versions, Pool, Visitor
  <2>5. \E w \in Visitor : refresh \subseteq {w}
    BY <2>4 DEF Init
  <2> QED  BY <2>1, <2>2, <2>3, <2>4, <2>5 DEF Init, PageTypeOK
<1>4. \A l \in Loads : loads[l] = Started(Nothing) \/ loads[l] = Idle
  BY <1>1
<1>5. /\ Started(Nothing).at = "group" /\ Started(Nothing).wallet = Nothing
      /\ Started(Nothing).pool = Nothing /\ Started(Nothing).events = Nothing
      /\ Started(Nothing).detached = FALSE
      /\ Idle.at = "idle" /\ Idle.pool = Nothing /\ Idle.events = Nothing
  BY DEF Started, Idle
<1>6. LoadsShaped
  BY <1>4, <1>5 DEF LoadsShaped
<1>7. NothingStale
  BY <1>4, <1>5 DEF Init, NothingStale, AtLeastKnown
<1>8. Pending
  BY <1>1, <1>5 DEF Pending
<1>9. OneWallet
  BY <1>4, <1>5, <1>8 DEF Init, OneWallet, NoTransaction
<1>10. InboxMerges /\ HistoryIndexed /\ HistoryOrdered
  BY <1>4, <1>5 DEF Init, InboxMerges, HistoryIndexed, HistoryOrdered
<1> QED  BY <1>3, <1>6, <1>7, <1>8, <1>9, <1>10 DEF PageInv, ComesUpToDate

(* Everything above, always. *)
LEMMA PageAlways == Spec => []PageInv
<1>1. PageInv /\ [Next]_vars => PageInv'
  BY TypeStep, ShapeStep, FreshStep, ComesStep, OneWalletStep, MergedStep DEF PageInv, Merged
<1> QED  BY <1>1, PageStarts, PTL DEF Spec

(***************************************************************************)
(* Type correctness, and never more than one refresh timer (scheduleReal-  *)
(* timeRefresh).                                                           *)
(***************************************************************************)
THEOREM PageTypeCorrect == Spec => []PageTypeOK
<1>1. PageInv => PageTypeOK
  BY DEF PageInv
<1> QED  BY <1>1, PageAlways, PTL

(***************************************************************************)
(* At rest, the page shows the pool as it was when it was last told of a   *)
(* change, or newer, if no load was under way then: invalidation first,    *)
(* refresh afterwards is enough, however loads, cached reads and wallet    *)
(* changes interleave.                                                     *)
(***************************************************************************)
THEOREM AlwaysShowsWhatItKnows == Spec => []ShowsWhatItKnows
<1>1. PageInv => ShowsWhatItKnows
  BY DEF PageInv, ComesUpToDate, ShowsWhatItKnows, AtRest, Pending, Quiet, Idle
<1> QED  BY <1>1, PageAlways, PTL

(***************************************************************************)
(* At rest, the membership shown is the connected wallet's, if the wallet  *)
(* changed only while nothing was under way (loadPool).                    *)
(***************************************************************************)
THEOREM AlwaysShowsOwnMembership == Spec => []ShowsOwnMembership
<1>1. PageInv => ShowsOwnMembership
  BY DEF PageInv, OneWallet, ShowsOwnMembership, AtRest, Pending, Quiet, Idle
<1> QED  BY <1>1, PageAlways, PTL

(***************************************************************************)
(* The history lists every event once and newest first, however the stream *)
(* and answers of the table are merged (appendUniquePoolEvent, loadPool).  *)
(***************************************************************************)
THEOREM HistoryAlwaysOrdered == Spec => []HistoryOrdered
<1>1. PageInv => HistoryOrdered
  BY DEF PageInv
<1> QED  BY <1>1, PageAlways, PTL
=============================================================================
