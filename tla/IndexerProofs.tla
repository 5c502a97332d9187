---------------------------- MODULE IndexerProofs ----------------------------
(* What module Indexer promises, for any number of processes and events,   *)
(* any page size and any start ledger.                                     *)
EXTENDS Indexer, TLAPS

(***************************************************************************)
(* The inductive invariant.  A cursor, wherever it is held, has only       *)
(* settled events behind it and none before its ledger ahead; so has every *)
(* stored event.  A start ledger is the configured one or has expired.  A  *)
(* page about to be stored fills the gap up to its cursor and up to each   *)
(* of its events, and brings nothing older than what its process emitted.  *)
(***************************************************************************)
ChainOK ==
  /\ \A e \in Events : chain[e] <= latest
  /\ \A e, f \in Events : e <= f => chain[e] <= chain[f]

Given == StartLedger # Nothing

Placed(c) ==
  /\ c.after <= Len(chain) /\ c.ledger <= latest
  /\ \A e \in Events : e > c.after => chain[e] >= c.ledger

Reached(n) == Given => \A e \in Events : e <= n => Settled(e)
CursorOK(c) == Placed(c) /\ Reached(c.after)

StartOK(s) == s \in Nat /\ (Given => s <= oldest \/ s = StartLedger)

PageOK(r, sent) ==
  /\ Placed(r.next)
  /\ Given => /\ \A e \in Events : e <= r.next.after => Settled(e) \/ e \in r.page
              /\ \A x \in r.page, e \in Events : e < x => Settled(e) \/ e \in r.page
              /\ \A e \in r.page, x \in sent :
                   e < x /\ chain[e] >= StartLedger => e \in stored \cup undecodable

PollOK(r, sent) ==
  /\ r.cursor # Nothing => CursorOK(r.cursor)
  /\ r.at = "start" => ~Given
  /\ r.at = "fetch" /\ r.cursor = Nothing => StartOK(r.start)
  /\ r.at = "clear" => r.start \in Nat /\ r.start <= oldest
  /\ r.at \in {"store", "emit"} => r.next \in Cursor /\ r.page \subseteq Events
  /\ r.at = "store" => PageOK(r, sent)
  /\ r.at = "emit" => CursorOK(r.next) /\ r.fresh \subseteq stored

TableOK ==
  /\ storedCursor # Nothing => CursorOK(storedCursor)
  /\ \A x \in stored : Reached(x)
  /\ \A p \in Processes : emitted[p] \subseteq stored

IndexerInv ==
  /\ IndexerTypeOK
  /\ ChainOK
  /\ TableOK
  /\ \A p \in Processes : PollOK(process[p], emitted[p])
  /\ StreamedOnce
  /\ StreamInOrder
-----------------------------------------------------------------------------
(* What no step takes back: the chain grows at its end, the retention      *)
(* window moves forward and rows stay in the table.                        *)
Grows ==
  /\ Len(chain) <= Len(chain') /\ Events \subseteq Events'
  /\ \A e \in Events : chain'[e] = chain[e]
  /\ \A e \in Events' \ Events : e > Len(chain) /\ chain'[e] > latest
  /\ latest <= latest' /\ oldest <= oldest' /\ begun <= begun'
  /\ stored \subseteq stored' /\ undecodable \subseteq undecodable'

(* An event that is settled stays settled. *)
LEMMA SettledStays ==
  ASSUME IndexerTypeOK, IndexerTypeOK', Grows, NEW e \in Events, Settled(e)
  PROVE  Settled(e)'
  BY IndexerAssumption DEF IndexerTypeOK, Grows, Settled, Events

(* What lies behind a position stays settled while the world grows. *)
LEMMA ReachedStays ==
  ASSUME IndexerTypeOK, IndexerTypeOK', Grows,
         NEW n \in Nat, n <= Len(chain), Reached(n)
  PROVE  Reached(n)'
<1> SUFFICES ASSUME Given, NEW e \in Events', e <= n
             PROVE  Settled(e)'
  BY DEF Reached, Given
<1>1. e \in Events
  BY DEF IndexerTypeOK, Grows, Events
<1> QED
  BY <1>1, SettledStays DEF Reached

(* A cursor keeps its place on the chain. *)
LEMMA PlacedStays ==
  ASSUME IndexerTypeOK, IndexerTypeOK', Grows, NEW c \in Cursor, Placed(c)
  PROVE  Placed(c)'
<1>1. c.after <= Len(chain') /\ c.ledger <= latest'
  BY DEF IndexerTypeOK, Grows, Placed, Cursor
<1>2. ASSUME NEW e \in Events', e > c.after PROVE chain'[e] >= c.ledger
  <2>1. chain'[e] \in Nat
    BY DEF IndexerTypeOK, Events
  <2>2. CASE e \in Events
    BY <1>2, <2>2 DEF Grows, Placed
  <2>3. CASE e \notin Events
    BY <2>1, <2>3 DEF Grows, Placed, IndexerTypeOK, Cursor
  <2> QED
    BY <2>2, <2>3
<1> QED
  BY <1>1, <1>2 DEF Placed

(* A settled cursor stays settled when the chain grows or the table does.  *)
LEMMA CursorStays ==
  ASSUME IndexerTypeOK, IndexerTypeOK', Grows, NEW c \in Cursor, CursorOK(c)
  PROVE  CursorOK(c)'
<1>1. c.after \in Nat /\ c.after <= Len(chain)
  BY DEF CursorOK, Placed, Cursor
<1> QED
  BY <1>1, PlacedStays, ReachedStays DEF CursorOK

(* A poll that does not move stays in order. *)
LEMMA PollStays ==
  ASSUME IndexerTypeOK, IndexerTypeOK', Grows,
         NEW r \in Poll, NEW sent \in SUBSET Events, PollOK(r, sent)
  PROVE  PollOK(r, sent)'
<1>1. r.cursor # Nothing => CursorOK(r.cursor)'
  BY CursorStays DEF PollOK, Poll
<1>2. r.at = "fetch" /\ r.cursor = Nothing => StartOK(r.start)'
  BY IndexerAssumption DEF PollOK, StartOK, Given, Grows, IndexerTypeOK
<1>3. r.at = "clear" => r.start \in Nat /\ r.start <= oldest'
  BY DEF PollOK, Grows, IndexerTypeOK
<1>4. r.page \subseteq Events => r.page \subseteq Events'
  BY DEF Grows
<1>5. ASSUME r.at = "store" PROVE PageOK(r, sent)'
  <2>1. r.next \in Cursor /\ r.page \subseteq Events /\ PageOK(r, sent)
    BY <1>5 DEF PollOK
  <2>2. Placed(r.next)'
    BY <2>1, PlacedStays DEF PageOK
  <2>3. ASSUME Given, NEW e \in Events', e <= r.next.after
        PROVE  Settled(e)' \/ e \in r.page
    <3>1. e \in Events
      BY <2>1, <2>3 DEF PageOK, Placed, Grows, Events, IndexerTypeOK, Cursor
    <3> QED
      BY <2>1, <2>3, <3>1, SettledStays DEF PageOK
  <2>4. ASSUME Given, NEW x \in r.page, NEW e \in Events', e < x
        PROVE  Settled(e)' \/ e \in r.page
    <3>1. e \in Events
      BY <2>1, <2>4 DEF Grows, Events, IndexerTypeOK
    <3> QED
      BY <2>1, <2>4, <3>1, SettledStays DEF PageOK
  <2>5. ASSUME Given, NEW e \in r.page, NEW x \in sent, e < x, chain'[e] >= StartLedger
        PROVE  e \in stored' \cup undecodable'
    BY <2>1, <2>5 DEF PageOK, Grows
  <2> QED
    BY <2>2, <2>3, <2>4, <2>5 DEF PageOK, Given
<1>6. r.at = "emit" => CursorOK(r.next)' /\ r.fresh \subseteq stored'
  BY CursorStays DEF PollOK, Grows
<1> QED
  BY <1>1, <1>2, <1>3, <1>4, <1>5, <1>6 DEF PollOK, Given
-----------------------------------------------------------------------------
(* A step of a poll that leaves the tables and the stream alone.           *)
Request(r) == r.at = "fetch" => (r.cursor = Nothing <=> r.start # Nothing)

(* A poll that advances keeps its own invariant and leaves others alone.   *)
LEMMA PollMoves ==
  ASSUME IndexerInv, NEW p \in Processes, NEW r \in Poll, Goto(p, r),
         UNCHANGED <<rpc, stored, storedCursor, emitted>>, begun' \in Nat,
         r.at # "emit", Request(r), PollOK(r, emitted[p])
  PROVE  IndexerInv'
<1>1. /\ process'[p] = r
      /\ \A q \in Processes : q # p => process'[q] = process[q]
      /\ process' \in [Processes -> Poll]
  BY DEF IndexerInv, IndexerTypeOK, Goto
<1>2. IndexerTypeOK'
  BY <1>1 DEF IndexerInv, IndexerTypeOK, Request, rpc, Events
<1>3. ChainOK' /\ TableOK'
  BY DEF IndexerInv, ChainOK, TableOK, CursorOK, Placed, Reached, Settled, Events, rpc, Given
<1>4. ASSUME NEW q \in Processes PROVE PollOK(process[q], emitted[q])'
  <2>1. PollOK(process'[q], emitted[q])
    BY <1>1 DEF IndexerInv
  <2> QED
    BY <2>1 DEF PollOK, CursorOK, Placed, Reached, Settled, StartOK, PageOK, Events, rpc, Given
<1>5. StreamedOnce' /\ StreamInOrder'
  BY <1>1 DEF IndexerInv, StreamedOnce, StreamInOrder, rpc
<1> QED
  BY <1>2, <1>3, <1>4, <1>5 DEF IndexerInv

(* PollStarts: the cursor a poll takes from the table is settled.          *)
LEMMA StartsKept ==
  ASSUME IndexerInv, NEW p \in Processes, PollStarts(p)
  PROVE  IndexerInv'
<1>1. CASE storedCursor = Nothing /\ StartLedger = Nothing
  <2> DEFINE r == [Idle EXCEPT !.at = "start"]
  <2>1. r \in Poll /\ Goto(p, r) /\ r.at = "start" /\ r.cursor = Nothing
    BY <1>1 DEF PollStarts, Poll, Points, Idle
  <2>2. PollOK(r, emitted[p]) /\ Request(r)
    BY <1>1, <2>1 DEF PollOK, Request, Given
  <2> QED
    BY <2>1, <2>2, PollMoves DEF PollStarts, IndexerInv, IndexerTypeOK
<1>2. CASE ~(storedCursor = Nothing /\ StartLedger = Nothing)
  <2> DEFINE start == IF storedCursor = Nothing THEN StartLedger ELSE Nothing
             r == Fetching(storedCursor, start)
  <2>1. /\ r \in Poll /\ Goto(p, r)
        /\ r.at = "fetch" /\ r.cursor = storedCursor /\ r.start = start
    BY <1>2, IndexerAssumption
    DEF PollStarts, Poll, Points, Idle, Fetching, IndexerInv, IndexerTypeOK
  <2>2. Request(r)
    BY <1>2, <2>1 DEF Request
  <2>3. PollOK(r, emitted[p])
    BY <1>2, <2>1, IndexerAssumption DEF PollOK, StartOK, IndexerInv, TableOK, Given
  <2> QED
    BY <2>1, <2>2, <2>3, PollMoves DEF PollStarts, IndexerInv, IndexerTypeOK
<1> QED
  BY <1>1, <1>2

(* LatestLedger: only used when no start ledger is configured.             *)
LEMMA LatestLedgerKept ==
  ASSUME IndexerInv, NEW p \in Processes, LatestLedger(p)
  PROVE  IndexerInv'
<1>1. PICK head \in Heads :
        LET first == IF head > Lookback THEN head - Lookback ELSE 1
        IN  /\ Goto(p, Fetching(Nothing, first))
            /\ begun' = IF first > begun THEN first ELSE begun
  BY DEF LatestLedger
<1> DEFINE start == IF head > Lookback THEN head - Lookback ELSE 1
           r == Fetching(Nothing, start)
<1>2. start \in Nat /\ begun' \in Nat
  BY <1>1, IndexerAssumption DEF Heads, IndexerInv, IndexerTypeOK
<1>3. r \in Poll /\ r.at = "fetch" /\ r.cursor = Nothing /\ r.start = start
  BY <1>2 DEF Poll, Points, Idle, Fetching
<1>4. ~Given
  BY DEF LatestLedger, IndexerInv, PollOK
<1>5. PollOK(r, emitted[p]) /\ Request(r)
  BY <1>2, <1>3, <1>4, IndexerAssumption DEF PollOK, StartOK, Request
<1> QED
  BY <1>1, <1>2, <1>3, <1>5, PollMoves DEF LatestLedger

(* Interrupted: a poll that ends leaves the table as it is.                *)
LEMMA InterruptedKept ==
  ASSUME IndexerInv, NEW p \in Processes, Interrupted(p)
  PROVE  IndexerInv'
<1>1. Idle \in Poll /\ Idle.at = "idle" /\ Idle.cursor = Nothing
  BY DEF Idle, Poll, Points
<1>2. PollOK(Idle, emitted[p]) /\ Request(Idle)
  BY <1>1 DEF PollOK, Request
<1> QED
  BY <1>1, <1>2, PollMoves DEF Interrupted, IndexerInv, IndexerTypeOK

(* RangeRefused: what lies before the earliest ledger has expired.         *)
LEMMA RangeRefusedKept ==
  ASSUME IndexerInv, NEW p \in Processes, RangeRefused(p)
  PROVE  IndexerInv'
<1>1. process[p] \in Poll /\ oldest \in Nat
  BY DEF IndexerInv, IndexerTypeOK
<1>2. CASE process[p].cursor # Nothing
  <2> DEFINE r == [process[p] EXCEPT !.at = "clear", !.start = oldest]
  <2>1. /\ r \in Poll /\ Goto(p, r)
        /\ r.at = "clear" /\ r.cursor = process[p].cursor /\ r.start = oldest
    BY <1>1, <1>2 DEF RangeRefused, Poll, Points
  <2>2. PollOK(r, emitted[p]) /\ Request(r)
    BY <1>1, <2>1 DEF PollOK, Request, IndexerInv, IndexerTypeOK
  <2> QED
    BY <2>1, <2>2, PollMoves DEF RangeRefused, IndexerInv, IndexerTypeOK
<1>3. CASE process[p].cursor = Nothing /\ oldest <= process[p].start
  <2>1. Idle \in Poll /\ Idle.at = "idle" /\ Idle.cursor = Nothing
    BY DEF Idle, Poll, Points
  <2>2. PollOK(Idle, emitted[p]) /\ Request(Idle)
    BY <2>1 DEF PollOK, Request
  <2> QED
    BY <1>3, <2>1, <2>2, PollMoves DEF RangeRefused, IndexerInv, IndexerTypeOK
<1>4. CASE process[p].cursor = Nothing /\ ~(oldest <= process[p].start)
  <2> DEFINE r == Fetching(Nothing, oldest)
  <2>1. /\ r \in Poll /\ Goto(p, r)
        /\ r.at = "fetch" /\ r.cursor = Nothing /\ r.start = oldest
    BY <1>1, <1>4 DEF RangeRefused, Poll, Points, Fetching, Idle
  <2>2. PollOK(r, emitted[p]) /\ Request(r)
    BY <1>1, <2>1, IndexerAssumption DEF PollOK, StartOK, Request
  <2> QED
    BY <2>1, <2>2, PollMoves DEF RangeRefused, IndexerInv, IndexerTypeOK
<1> QED
  BY <1>2, <1>3, <1>4
-----------------------------------------------------------------------------
(* What lies before a requested position is settled already.               *)
LEMMA BehindIsSettled ==
  ASSUME IndexerInv, Given, NEW p \in Processes, process[p].at = "fetch",
         NEW head \in Heads, InRange(p, head),
         NEW e \in Events, chain[e] <= head, e \notin Ahead(p, head)
  PROVE  Settled(e)
<1>1. process[p] \in Poll /\ PollOK(process[p], emitted[p]) /\ chain[e] \in Nat /\ e \in Nat
  BY DEF IndexerInv, IndexerTypeOK, Events
<1>2. CASE process[p].cursor # Nothing
  <2>1. process[p].cursor \in Cursor /\ CursorOK(process[p].cursor)
    BY <1>1, <1>2 DEF PollOK, Poll
  <2>2. e <= process[p].cursor.after
    BY <1>1, <1>2, <2>1 DEF Ahead, Cursor
  <2> QED
    BY <2>1, <2>2 DEF CursorOK, Reached
<1>3. CASE process[p].cursor = Nothing
  <2>1. StartOK(process[p].start)
    BY <1>1, <1>3 DEF PollOK
  <2>2. chain[e] < process[p].start
    BY <1>1, <1>3, <2>1 DEF Ahead, StartOK
  <2> QED
    BY <1>1, <2>1, <2>2, IndexerAssumption DEF StartOK, Settled, Given, IndexerInv, IndexerTypeOK
<1> QED
  BY <1>2, <1>3

(* A request only brings events that the RPC still has.                    *)
LEMMA AheadIsRetained ==
  ASSUME IndexerInv, NEW p \in Processes, process[p].at = "fetch",
         NEW head \in Heads, InRange(p, head), NEW e \in Ahead(p, head)
  PROVE  e \in Events /\ chain[e] >= oldest /\ chain[e] <= head
<1>1. /\ process[p] \in Poll /\ PollOK(process[p], emitted[p]) /\ e \in Events
      /\ chain[e] \in Nat /\ e \in Nat /\ oldest \in Nat
  BY DEF IndexerInv, IndexerTypeOK, Events, Ahead
<1>2. CASE process[p].cursor # Nothing
  <2>1. process[p].cursor \in Cursor /\ Placed(process[p].cursor)
    BY <1>1, <1>2 DEF PollOK, Poll, CursorOK
  <2> QED
    BY <1>1, <1>2, <2>1 DEF Ahead, InRange, Placed, Cursor
<1>3. CASE process[p].cursor = Nothing
  <2>1. StartOK(process[p].start)
    BY <1>1, <1>3 DEF PollOK
  <2> QED
    BY <1>1, <1>3, <2>1 DEF Ahead, InRange, StartOK
<1> QED
  BY <1>2, <1>3

(* A page answers a request without a hole, up to the cursor it returns.   *)
LEMMA PageFillsTheGap ==
  ASSUME IndexerInv, NEW p \in Processes, process[p].at = "fetch",
         NEW head \in Heads, InRange(p, head),
         NEW page \in Pages(Ahead(p, head)), NEW next \in Cursor,
         next \in LastOf(page)
           \cup (IF Cardinality(page) < Limit THEN RangeEnd(head) ELSE {}),
         NEW r, r.page = page, r.next = next
  PROVE  PageOK(r, emitted[p])
<1> USE DEF Heads
<1>1. /\ latest \in Nat /\ oldest \in Nat /\ \A e \in Events : chain[e] \in Nat /\ e \in Nat
      /\ Len(chain) \in Nat /\ Events = 1..Len(chain) /\ ChainOK
  BY DEF IndexerInv, IndexerTypeOK, Events
<1>2. page \subseteq Ahead(p, head) /\ page \subseteq Events
  BY DEF Pages, Ahead
<1>3. ASSUME Given, NEW x \in page, NEW e \in Events, e <= x
      PROVE  Settled(e) \/ e \in page
  <2>1. chain[e] <= head
    BY <1>1, <1>2, <1>3, AheadIsRetained DEF ChainOK
  <2> QED
    BY <1>3, <2>1, BehindIsSettled DEF Pages
<1>4. Placed(next) /\ (Given => \A e \in Events : e <= next.after => Settled(e) \/ e \in page)
  <2>1. CASE next \in LastOf(page)
    <3>1. next.after \in page /\ next.ledger = chain[next.after]
      BY <2>1 DEF LastOf
    <3>2. Placed(next)
      BY <1>1, <1>2, <3>1 DEF Placed, ChainOK
    <3> QED
      BY <1>3, <3>1, <3>2
  <2>2. CASE next \notin LastOf(page)
    <3>1. Cardinality(page) < Limit /\ next \in RangeEnd(head)
      BY <2>2
    <3>2. page = Ahead(p, head)
      BY <3>1, IndexerAssumption DEF Pages
    <3>3. /\ next.ledger = head /\ next.after \in 0..Len(chain)
          /\ \A e \in Events : e <= next.after <=> chain[e] <= head
      BY <3>1 DEF RangeEnd
    <3>4. Placed(next)
      BY <1>1, <3>3 DEF Placed
    <3> QED
      BY <3>2, <3>3, <3>4, BehindIsSettled
  <2> QED
    BY <2>1, <2>2
<1>5. ASSUME Given, NEW e \in page, NEW x \in emitted[p], e < x, chain[e] >= StartLedger
      PROVE  e \in stored \cup undecodable
  <2>1. x \in stored /\ Reached(x) /\ x \in Nat
    BY <1>1 DEF IndexerInv, TableOK, IndexerTypeOK
  <2>2. Settled(e)
    BY <1>1, <1>2, <1>5, <2>1 DEF Reached
  <2>3. chain[e] >= oldest
    BY <1>2, AheadIsRetained
  <2> QED
    BY <1>1, <1>2, <1>5, <2>2, <2>3, IndexerAssumption DEF Settled, Given
<1> QED
  BY <1>1, <1>2, <1>3, <1>4, <1>5 DEF PageOK

(* Fetch: the page fills the gap up to its cursor.                         *)
LEMMA FetchKept ==
  ASSUME IndexerInv, NEW p \in Processes, Fetch(p)
  PROVE  IndexerInv'
<1> DEFINE Answer(page, next) ==
             IF page \ undecodable = {} /\ next = process[p].cursor
             THEN Goto(p, Idle)
             ELSE Goto(p, [process[p] EXCEPT !.at = "store", !.page = page, !.next = next])
<1>1. PICK head \in Heads :
        /\ InRange(p, head)
        /\ \E page \in Pages(Ahead(p, head)) :
             \E next \in NextCursors(p, page, head) : Answer(page, next)
  BY DEF Fetch
<1>2. PICK page \in Pages(Ahead(p, head)) :
        \E next \in NextCursors(p, page, head) : Answer(page, next)
  BY <1>1
<1>3. PICK next \in NextCursors(p, page, head) : Answer(page, next)
  BY <1>2
<1>4. CASE page \ undecodable = {} /\ next = process[p].cursor
  <2>1. Idle \in Poll /\ Idle.at = "idle" /\ Idle.cursor = Nothing
    BY DEF Idle, Poll, Points
  <2>2. PollOK(Idle, emitted[p]) /\ Request(Idle)
    BY <2>1 DEF PollOK, Request
  <2> QED
    BY <1>3, <1>4, <2>1, <2>2, PollMoves DEF Fetch, IndexerInv, IndexerTypeOK
<1>5. CASE ~(page \ undecodable = {} /\ next = process[p].cursor)
  <2> DEFINE r == [process[p] EXCEPT !.at = "store", !.page = page, !.next = next]
  <2>1. /\ process[p] \in Poll /\ chain \in Seq(Nat) /\ Events = 1..Len(chain)
        /\ page \subseteq Events /\ PollOK(process[p], emitted[p])
    BY DEF IndexerInv, IndexerTypeOK, Pages, Ahead, Events
  <2>2. next \in LastOf(page) \cup (IF Cardinality(page) < Limit THEN RangeEnd(head) ELSE {})
    BY <1>5 DEF NextCursors
  <2>3. next \in Cursor
    <3>1. ASSUME next \in LastOf(page) PROVE next \in Cursor
      BY <2>1, <3>1 DEF LastOf, Cursor
    <3>2. ASSUME next \in RangeEnd(head) PROVE next \in Cursor
      BY <2>1, <3>2 DEF RangeEnd, Cursor, Heads, IndexerInv, IndexerTypeOK
    <3> QED
      BY <2>2, <3>1, <3>2
  <2>4. /\ r \in Poll /\ Goto(p, r) /\ r.at = "store"
        /\ r.cursor = process[p].cursor /\ r.page = page /\ r.next = next
    <3>1. Goto(p, r)
      BY <1>3, <1>5
    <3>2. page \in SUBSET Nat
      BY <2>1
    <3> QED
      BY <2>1, <2>3, <3>1, <3>2 DEF Poll, Points
  <2>5. PageOK(r, emitted[p])
    BY <1>1, <2>2, <2>3, <2>4, PageFillsTheGap DEF Fetch
  <2>6. PollOK(r, emitted[p]) /\ Request(r)
    BY <2>1, <2>3, <2>4, <2>5 DEF PollOK, Request
  <2> QED
    BY <2>4, <2>6, PollMoves DEF Fetch, IndexerInv, IndexerTypeOK
<1> QED
  BY <1>4, <1>5
-----------------------------------------------------------------------------
(* Clear: without a stored cursor there is nothing to account for.         *)
LEMMA ClearKept ==
  ASSUME IndexerInv, NEW p \in Processes, Clear(p)
  PROVE  IndexerInv'
<1> DEFINE r == Fetching(Nothing, process[p].start)
<1>1. /\ process[p].at = "clear" /\ process'[p] = r
      /\ \A q \in Processes : q # p => process'[q] = process[q]
      /\ storedCursor' = Nothing /\ UNCHANGED <<rpc, stored, emitted, begun>>
  BY DEF Clear, Goto, IndexerInv, IndexerTypeOK
<1>2. process[p].start \in Nat /\ process[p].start <= oldest
  BY <1>1 DEF IndexerInv, PollOK
<1>3. r \in Poll /\ r.at = "fetch" /\ r.cursor = Nothing /\ r.start = process[p].start
  BY <1>2 DEF Poll, Points, Idle, Fetching
<1>4. PollOK(r, emitted[p])
  BY <1>2, <1>3 DEF PollOK, StartOK
<1>5. IndexerTypeOK'
  <2>1. process' \in [Processes -> Poll]
    BY <1>3 DEF Clear, Goto, IndexerInv, IndexerTypeOK
  <2> QED
    BY <1>1, <1>2, <1>3, <2>1, IndexerAssumption DEF IndexerInv, IndexerTypeOK, rpc, Events
<1>6. ChainOK' /\ TableOK'
  BY <1>1 DEF IndexerInv, ChainOK, TableOK, Reached, Settled, Events, rpc, Given
<1>7. ASSUME NEW q \in Processes PROVE PollOK(process[q], emitted[q])'
  <2>1. PollOK(process'[q], emitted[q])
    BY <1>1, <1>4 DEF IndexerInv
  <2> QED
    BY <1>1, <2>1
    DEF PollOK, CursorOK, Placed, Reached, Settled, StartOK, PageOK, Events, rpc, Given
<1>8. StreamedOnce' /\ StreamInOrder'
  BY <1>1, <1>3 DEF IndexerInv, StreamedOnce, StreamInOrder, rpc
<1> QED
  BY <1>5, <1>6, <1>7, <1>8 DEF IndexerInv

(* A committed page settles everything up to its cursor.                   *)
LEMMA StoreKept ==
  ASSUME IndexerInv, NEW p \in Processes, Store(p)
  PROVE  IndexerInv'
<1> DEFINE decoded == process[p].page \ undecodable
           r == [process[p] EXCEPT !.at = "emit", !.fresh = decoded \ stored]
<1>1. /\ process[p].at = "store" /\ process'[p] = r
      /\ \A q \in Processes : q # p => process'[q] = process[q]
      /\ stored' = stored \cup decoded /\ storedCursor' = process[p].next
      /\ UNCHANGED <<rpc, emitted, begun>>
  BY DEF Store, Goto, IndexerInv, IndexerTypeOK
<1>2. /\ process[p] \in Poll /\ process[p].next \in Cursor /\ process[p].page \subseteq Events
      /\ PageOK(process[p], emitted[p]) /\ PollOK(process[p], emitted[p])
  BY <1>1 DEF IndexerInv, IndexerTypeOK, PollOK
<1>3. chain \in Seq(Nat) /\ Events = 1..Len(chain) /\ Events' = Events
  BY <1>1 DEF IndexerInv, IndexerTypeOK, Events, rpc
<1>4. /\ r \in Poll /\ r.at = "emit" /\ r.cursor = process[p].cursor
      /\ r.next = process[p].next /\ r.page = process[p].page /\ r.fresh = decoded \ stored
  <2>1. decoded \ stored \in SUBSET Nat
    BY <1>2, <1>3
  <2> QED
    BY <1>2, <2>1 DEF Poll, Points
<1>5. IndexerTypeOK'
  <2>1. process' \in [Processes -> Poll]
    BY <1>4 DEF Store, Goto, IndexerInv, IndexerTypeOK
  <2> QED
    BY <1>1, <1>2, <1>3, <1>4, <2>1 DEF IndexerInv, IndexerTypeOK, rpc
<1>6. Grows
  BY <1>1, <1>3 DEF Grows, IndexerInv, IndexerTypeOK, rpc
<1>7. IndexerTypeOK
  BY DEF IndexerInv
<1>c. PICK c \in Cursor : c = process[p].next
  BY <1>2
<1>8. CursorOK(c)'
  <2>1. Placed(c)'
    BY <1>c, <1>2, <1>5, <1>6, <1>7, PlacedStays DEF PageOK
  <2>2. ASSUME Given, NEW e \in Events, e <= c.after
        PROVE  Settled(e)'
    <3>1. CASE Settled(e)
      BY <1>5, <1>6, <1>7, <3>1, SettledStays
    <3>2. CASE e \in process[p].page
      BY <1>1, <3>2 DEF Settled, rpc
    <3> QED
      BY <1>c, <1>2, <2>2, <3>1, <3>2 DEF PageOK
  <2> QED
    BY <2>1, <2>2, <1>3 DEF CursorOK, Reached, Given
<1>9. ChainOK'
  BY <1>1, <1>3 DEF IndexerInv, ChainOK, rpc
<1>10. ASSUME NEW x \in stored' PROVE Reached(x)'
  <2>1. CASE x \in stored
    <3>1. Reached(x) /\ x \in Nat /\ x <= Len(chain)
      BY <1>3, <1>7, <2>1 DEF IndexerInv, TableOK, IndexerTypeOK
    <3> QED
      BY <1>5, <1>6, <1>7, <3>1, ReachedStays
  <2>2. CASE x \in decoded
    <3>1. ASSUME Given, NEW e \in Events, e <= x PROVE Settled(e)'
      <4>1. Settled(e) \/ e \in process[p].page
        BY <1>2, <1>3, <2>2, <3>1 DEF PageOK
      <4>2. CASE Settled(e)
        BY <1>5, <1>6, <1>7, <4>2, SettledStays
      <4>3. CASE e \in process[p].page
        BY <1>1, <4>3 DEF Settled, rpc
      <4> QED
        BY <4>1, <4>2, <4>3
    <3> QED
      BY <1>3, <3>1 DEF Reached, Given
  <2> QED
    BY <1>1, <2>1, <2>2
<1>11. TableOK'
  <2>1. storedCursor' = c
    BY <1>c, <1>1
  <2> QED
    BY <1>1, <1>8, <1>10, <2>1 DEF IndexerInv, TableOK
<1>12. ASSUME NEW q \in Processes PROVE PollOK(process[q], emitted[q])'
  <2>1. CASE q = p
    <3>1. PICK v \in Poll : v = r
      BY <1>4
    <3>2. v.cursor # Nothing => CursorOK(v.cursor)'
      <4>1. v.cursor # Nothing => v.cursor \in Cursor /\ CursorOK(v.cursor)
        BY <1>2, <1>4, <3>1 DEF PollOK, Poll
      <4> QED
        BY <1>5, <1>6, <1>7, <4>1, CursorStays
    <3>3. v.at = "emit" /\ v.next = c /\ v.page \subseteq Events' /\ v.fresh \subseteq stored'
      BY <1>c, <1>1, <1>2, <1>3, <1>4, <3>1
    <3>4. process'[q] = v
      BY <1>1, <2>1, <3>1
    <3> QED
      BY <1>c, <1>8, <3>2, <3>3, <3>4 DEF PollOK
  <2>2. CASE q # p
    <3>1. process[q] \in Poll /\ emitted[q] \in SUBSET Events /\ PollOK(process[q], emitted[q])
      BY <1>7 DEF IndexerInv, IndexerTypeOK
    <3>2. process'[q] = process[q] /\ emitted'[q] = emitted[q]
      BY <1>1, <2>2
    <3>3. PollOK(process[q], emitted[q])'
      BY <1>5, <1>6, <1>7, <3>1, <3>2, PollStays
    <3> QED
      BY <3>3
  <2> QED
    BY <2>1, <2>2
<1>13. StreamedOnce'
  <2>1. \A q \in Processes : emitted[q] \subseteq stored
    BY DEF IndexerInv, TableOK
  <2>2. \A q \in Processes : process[q].at = "emit" => process[q].fresh \subseteq stored
    BY DEF IndexerInv, PollOK
  <2> QED
    <3> SUFFICES ASSUME NEW a \in Processes, NEW b \in Processes, process'[a].at = "emit"
                 PROVE  /\ process'[a].fresh \cap emitted[b] = {}
                        /\ a # b /\ process'[b].at = "emit"
                             => process'[a].fresh \cap process'[b].fresh = {}
      BY <1>1 DEF StreamedOnce
    <3>1. CASE a = p
      BY <1>1, <1>4, <2>1, <2>2, <3>1
    <3>2. CASE a # p /\ b = p
      BY <1>1, <1>4, <2>1, <2>2, <3>2 DEF IndexerInv, StreamedOnce
    <3>3. CASE a # p /\ b # p
      BY <1>1, <3>3 DEF IndexerInv, StreamedOnce
    <3> QED
      BY <3>1, <3>2, <3>3
<1>14. StreamInOrder'
  <2>1. ASSUME Given, NEW e \in decoded \ stored, NEW x \in emitted[p], chain[e] >= StartLedger
        PROVE  x < e
    <3>1. x \in stored /\ x \in Events /\ e \in Events
      BY <1>2, <1>7 DEF IndexerInv, TableOK, IndexerTypeOK
    <3>2. ~(e < x)
      BY <1>2, <2>1 DEF PageOK
    <3> QED
      BY <1>3, <3>1, <3>2
  <2> QED
    BY <1>1, <1>4, <2>1 DEF IndexerInv, StreamInOrder, Given, rpc
<1> QED
  BY <1>5, <1>9, <1>11, <1>12, <1>13, <1>14 DEF IndexerInv

(* Emit: what was new in the table is emitted once, after what came before.*)
LEMMA EmitKept ==
  ASSUME IndexerInv, NEW p \in Processes, Emit(p)
  PROVE  IndexerInv'
<1> DEFINE more == process[p].next # process[p].cursor /\ Cardinality(process[p].page) >= Limit
           r == IF more THEN Fetching(process[p].next, Nothing) ELSE Idle
<1>1. /\ process[p].at = "emit" /\ process'[p] = r
      /\ \A q \in Processes : q # p => process'[q] = process[q]
      /\ emitted' = [emitted EXCEPT ![p] = @ \cup process[p].fresh]
      /\ UNCHANGED <<rpc, stored, storedCursor, begun>>
  BY DEF Emit, Goto, IndexerInv, IndexerTypeOK
<1>2. /\ process[p] \in Poll /\ process[p].next \in Cursor
      /\ CursorOK(process[p].next) /\ process[p].fresh \subseteq stored
  BY <1>1 DEF IndexerInv, IndexerTypeOK, PollOK
<1>3. /\ r \in Poll /\ r.at \in {"fetch", "idle"}
      /\ r.at = "fetch" => r.cursor = process[p].next /\ r.start = Nothing
      /\ r.at = "idle" => r.cursor = Nothing
  BY <1>2 DEF Poll, Points, Idle, Fetching
<1>4. PollOK(r, emitted[p])
  BY <1>2, <1>3, IndexerAssumption DEF PollOK
<1>5. /\ emitted' \in [Processes -> SUBSET Events]
      /\ \A q \in Processes : emitted'[q] \subseteq stored
      /\ \A q \in Processes : q # p => emitted'[q] = emitted[q]
      /\ emitted'[p] = emitted[p] \cup process[p].fresh
  BY <1>1, <1>2 DEF IndexerInv, IndexerTypeOK, TableOK
<1>6. IndexerTypeOK'
  <2>1. process' \in [Processes -> Poll]
    BY <1>3 DEF Emit, Goto, IndexerInv, IndexerTypeOK
  <2>2. r.at = "fetch" => (r.cursor = Nothing <=> r.start # Nothing)
    BY <1>2, <1>3, IndexerAssumption
  <2> QED
    BY <1>1, <1>5, <2>1, <2>2 DEF IndexerInv, IndexerTypeOK, rpc, Events
<1>7. ChainOK' /\ TableOK'
  BY <1>1, <1>5
  DEF IndexerInv, ChainOK, TableOK, CursorOK, Placed, Reached, Settled, Events, rpc, Given
<1>8. ASSUME NEW q \in Processes PROVE PollOK(process[q], emitted[q])'
  <2>1. CASE q = p
    <3>1. process'[q] = r
      BY <1>1, <2>1
    <3>2. PollOK(process'[q], emitted[q]) /\ process'[q].at \in {"fetch", "idle"}
      BY <1>3, <1>4, <2>1, <3>1
    <3> QED
      BY <1>1, <3>2
      DEF PollOK, CursorOK, Placed, Reached, Settled, StartOK, Events, rpc, Given
  <2>2. CASE q # p
    <3>1. PollOK(process'[q], emitted'[q])
      BY <1>1, <1>5, <2>2 DEF IndexerInv
    <3> QED
      BY <1>1, <3>1
      DEF PollOK, CursorOK, Placed, Reached, Settled, StartOK, PageOK, Events, rpc, Given
  <2> QED
    BY <2>1, <2>2
<1>9. StreamedOnce' /\ StreamInOrder'
  BY <1>1, <1>3, <1>5 DEF IndexerInv, StreamedOnce, StreamInOrder, rpc
<1> QED
  BY <1>6, <1>7, <1>8, <1>9 DEF IndexerInv

(* The world moves: nothing that was established is lost. *)
LEMMA WorldMoves ==
  ASSUME IndexerInv, Grows, IndexerTypeOK', ChainOK',
         UNCHANGED <<stored, storedCursor, process, emitted>>
  PROVE  IndexerInv'
<1>1. IndexerTypeOK
  BY DEF IndexerInv
<1>2. ASSUME storedCursor # Nothing PROVE CursorOK(storedCursor)'
  <2>1. PICK c \in Cursor : c = storedCursor
    BY <1>1, <1>2 DEF IndexerTypeOK
  <2>2. CursorOK(c)'
    BY <1>1, <1>2, <2>1, CursorStays DEF IndexerInv, TableOK
  <2> QED
    BY <2>1, <2>2 DEF CursorOK, Placed, Reached
<1>3. ASSUME NEW x \in stored PROVE Reached(x)'
  <2>1. Reached(x) /\ x \in Nat /\ x <= Len(chain)
    BY <1>1 DEF IndexerInv, TableOK, IndexerTypeOK, Events
  <2> QED
    BY <1>1, <2>1, ReachedStays
<1>4. TableOK'
  BY <1>2, <1>3 DEF IndexerInv, TableOK
<1>5. ASSUME NEW q \in Processes PROVE PollOK(process[q], emitted[q])'
  <2>1. process[q] \in Poll /\ emitted[q] \in SUBSET Events /\ PollOK(process[q], emitted[q])
    BY <1>1 DEF IndexerInv, IndexerTypeOK
  <2>2. process'[q] = process[q] /\ emitted'[q] = emitted[q]
    OBVIOUS
  <2> QED
    BY <1>1, <2>1, <2>2, PollStays
<1>6. StreamedOnce'
  BY DEF IndexerInv, StreamedOnce
<1>7. StreamInOrder'
  <2>1. ASSUME NEW q \in Processes, process[q].at = "emit" PROVE process[q].fresh \subseteq Events
    BY <1>1, <2>1 DEF IndexerInv, PollOK, IndexerTypeOK
  <2> QED
    BY <2>1 DEF IndexerInv, StreamInOrder, Grows
<1> QED
  BY <1>4, <1>5, <1>6, <1>7 DEF IndexerInv

(* LedgerCloses: new events lie after every cursor.                        *)
LEMMA LedgerClosesKept ==
  ASSUME IndexerInv, LedgerCloses
  PROVE  IndexerInv'
<1>1. PICK n \in 0..2 :
        /\ chain' = chain \o [i \in 1..n |-> latest + 1]
        /\ \E skipped \in SUBSET (Len(chain) + 1 .. Len(chain) + n) :
             undecodable' = undecodable \cup skipped
  BY DEF LedgerCloses
<1> DEFINE new == [i \in 1..n |-> latest + 1]
<1>2. /\ latest \in Nat /\ oldest \in 1..latest /\ latest' = latest + 1 /\ oldest' = oldest
      /\ chain \in Seq(Nat) /\ Events = 1..Len(chain) /\ Len(chain) \in Nat /\ ChainOK
      /\ UNCHANGED <<stored, storedCursor, process, emitted, begun>> /\ begun \in Nat
  BY DEF IndexerInv, IndexerTypeOK, Events, LedgerCloses
<1>3. new \in Seq(Nat) /\ Len(new) = n /\ \A i \in 1..n : new[i] = latest + 1
  BY <1>2
<1>4. /\ chain' \in Seq(Nat) /\ Len(chain') = Len(chain) + n /\ Events' = 1..(Len(chain) + n)
      /\ \A e \in Events : chain'[e] = chain[e]
      /\ \A e \in Events' \ Events : chain'[e] = latest + 1 /\ e > Len(chain)
  BY <1>1, <1>2, <1>3 DEF Events
<1>5. Grows
  <2>1. n \in Nat /\ \A e \in Events' \ Events : chain'[e] > latest /\ e > Len(chain)
    BY <1>2, <1>4
  <2>2. Len(chain) <= Len(chain') /\ Events \subseteq Events'
    BY <1>2, <1>4, <2>1
  <2>3. latest <= latest' /\ oldest <= oldest' /\ begun <= begun' /\ stored \subseteq stored'
    BY <1>2
  <2>4. undecodable \subseteq undecodable'
    BY <1>1
  <2> QED
    BY <1>4, <2>1, <2>2, <2>3, <2>4 DEF Grows
<1>6. IndexerTypeOK'
  <2>1. Events \subseteq Events' /\ undecodable' \subseteq Events' /\ stored' \subseteq Events'
    BY <1>1, <1>2, <1>4 DEF IndexerInv, IndexerTypeOK
  <2>2. emitted' \in [Processes -> SUBSET Events']
    BY <1>2, <2>1 DEF IndexerInv, IndexerTypeOK
  <2> QED
    BY <1>2, <1>4, <2>1, <2>2 DEF IndexerInv, IndexerTypeOK
<1>7. ChainOK'
  <2>1. \A e \in Events : chain[e] \in Nat /\ chain[e] <= latest
    BY <1>2 DEF ChainOK
  <2>2. ASSUME NEW e \in Events' PROVE chain'[e] <= latest + 1
    <3>1. CASE e \in Events
      <4>1. chain'[e] = chain[e] /\ chain[e] \in Nat /\ chain[e] <= latest
        BY <1>4, <2>1, <3>1
      <4> QED
        BY <1>2, <4>1
    <3>2. CASE e \notin Events
      <4>1. chain'[e] = latest + 1
        BY <1>4, <3>2
      <4> QED
        BY <1>2, <4>1
    <3> QED
      BY <3>1, <3>2
  <2>3. ASSUME NEW e \in Events', NEW f \in Events', e <= f PROVE chain'[e] <= chain'[f]
    <3>1. CASE f \in Events
      <4>1. e \in Events
        BY <1>2, <1>4, <2>3, <3>1
      <4> QED
        BY <1>2, <1>4, <2>3, <3>1, <4>1 DEF ChainOK
    <3>2. CASE f \notin Events
      BY <1>4, <2>2, <3>2
    <3> QED
      BY <3>1, <3>2
  <2> QED
    BY <1>2, <2>2, <2>3 DEF ChainOK
<1> QED
  BY <1>2, <1>5, <1>6, <1>7, WorldMoves

(* LedgerExpires: the RPC's range only moves forward.                      *)
LEMMA LedgerExpiresKept ==
  ASSUME IndexerInv, LedgerExpires
  PROVE  IndexerInv'
<1>1. Grows
  BY DEF LedgerExpires, Grows, IndexerInv, IndexerTypeOK, Events
<1>2. IndexerTypeOK' /\ ChainOK'
  BY DEF LedgerExpires, IndexerInv, IndexerTypeOK, ChainOK, Events
<1> QED
  BY <1>1, <1>2, WorldMoves DEF LedgerExpires
-----------------------------------------------------------------------------
(* The strengthened invariant holds initially.                             *)
LEMMA IndexerInit ==
  ASSUME Init PROVE IndexerInv
<1>1. chain \in Seq(Nat) /\ Events = {}
  BY DEF Init, Events
<1>2. Idle \in Poll /\ Idle.at = "idle" /\ Idle.cursor = Nothing
  BY DEF Idle, Poll, Points
<1>3. IndexerTypeOK
  BY <1>1, <1>2 DEF Init, IndexerTypeOK
<1>4. ChainOK /\ TableOK
  BY <1>1 DEF Init, ChainOK, TableOK
<1>5. \A p \in Processes : PollOK(process[p], emitted[p])
  BY <1>2 DEF Init, PollOK
<1>6. StreamedOnce /\ StreamInOrder
  BY <1>2 DEF Init, StreamedOnce, StreamInOrder
<1> QED
  BY <1>3, <1>4, <1>5, <1>6 DEF IndexerInv

(* ... and every step keeps it.                                            *)
LEMMA IndexerStep ==
  ASSUME IndexerInv, [Next]_vars PROVE IndexerInv'
<1>1. CASE LedgerCloses \/ LedgerExpires
  BY <1>1, LedgerClosesKept, LedgerExpiresKept
<1>2. ASSUME NEW p \in Processes, Advance(p) \/ Interrupted(p) PROVE IndexerInv'
  BY <1>2, StartsKept, LatestLedgerKept, FetchKept, RangeRefusedKept, ClearKept, StoreKept,
     EmitKept, InterruptedKept DEF Advance
<1>3. CASE UNCHANGED vars
  <2>1. UNCHANGED <<rpc, stored, storedCursor, process, emitted, begun>>
    BY <1>3 DEF vars, rpc
  <2>2. Grows /\ IndexerTypeOK' /\ ChainOK'
    BY <2>1 DEF Grows, IndexerInv, IndexerTypeOK, ChainOK, Events, rpc
  <2> QED
    BY <2>1, <2>2, WorldMoves
<1> QED
  BY <1>1, <1>2, <1>3 DEF Next

(* The invariant holds in every state of the indexer. *)
THEOREM IndexerInvariant == Spec => []IndexerInv
  BY IndexerInit, IndexerStep, PTL DEF Spec

(* Types, and a request that always says where to read from (getEvents).   *)
THEOREM IndexerTypeCorrect == Spec => []IndexerTypeOK
<1>1. IndexerInv => IndexerTypeOK
  BY DEF IndexerInv
<1> QED
  BY <1>1, IndexerInvariant, PTL

(* No event is lost between the chain and the table: whatever fails, the   *)
(* stored cursor never passes an event that could still be indexed, and a  *)
(* stored event has no hole before it (poll, storeEventBatch).             *)
THEOREM NoEventMissed == Spec => []IndexedOrExpired
<1>1. IndexerInv => IndexedOrExpired
  <2> SUFFICES ASSUME IndexerInv, Given, NEW e \in Events, ~Settled(e)
               PROVE  /\ storedCursor # Nothing => storedCursor.after < e
                      /\ \A x \in stored : x < e
    BY DEF IndexedOrExpired, Given
  <2>1. e \in Nat /\ stored \subseteq Nat
    BY DEF IndexerInv, IndexerTypeOK, Events
  <2>2. ASSUME storedCursor # Nothing PROVE storedCursor.after < e
    <3>1. storedCursor \in Cursor /\ Reached(storedCursor.after)
      BY <2>2 DEF IndexerInv, TableOK, CursorOK, IndexerTypeOK
    <3> QED
      BY <2>1, <3>1 DEF Reached, Cursor
  <2>3. ASSUME NEW x \in stored PROVE x < e
    <3>1. Reached(x) /\ x \in Nat
      BY <2>1 DEF IndexerInv, TableOK
    <3> QED
      BY <2>1, <3>1 DEF Reached
  <2> QED
    BY <2>2, <2>3
<1> QED
  BY <1>1, IndexerInvariant, PTL

(* No event is emitted twice, by one process or by two (skipDuplicates).   *)
THEOREM AlwaysStreamedOnce == Spec => []StreamedOnce
<1>1. IndexerInv => StreamedOnce
  BY DEF IndexerInv
<1> QED
  BY <1>1, IndexerInvariant, PTL

(* Subscribers of one process see the chain's order, rescans included.     *)
THEOREM AlwaysInOrder == Spec => []StreamInOrder
<1>1. IndexerInv => StreamInOrder
  BY DEF IndexerInv
<1> QED
  BY <1>1, IndexerInvariant, PTL
=============================================================================
