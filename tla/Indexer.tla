------------------------------- MODULE Indexer -------------------------------
(***************************************************************************)
(* The event indexer (indexer/src/indexer.ts) between the Stellar RPC and  *)
(* its Postgres database (db.ts).  A process polls: it reads the stored    *)
(* cursor, asks the RPC for page after page, stores each page with its     *)
(* cursor in one transaction and then emits the inserted events to the     *)
(* stream of server.ts.  A step is what happens between two awaits.  Every *)
(* await may fail and every process may crash and be restarted, and while  *)
(* a deployment replaces the service two processes share the database.     *)
(***************************************************************************)
EXTENDS Naturals, Sequences, FiniteSets

CONSTANTS
  Processes,    (* indexer processes on the same database                  *)
  StartLedger,  (* INDEXER_START_LEDGER, or Nothing                        *)
  Limit,        (* INDEXER_BATCH_LIMIT                                     *)
  Lookback,     (* 20: where to start without INDEXER_START_LEDGER         *)
  Lag,          (* how far the RPC node that answers may be behind         *)
  MaxLedger,    (* bound on the ledgers that close                         *)
  MaxEvents,    (* bound on the tracked contracts' events                  *)
  Nothing       (* null                                                    *)

Cursor == [after : Nat, ledger : Nat]

ASSUME IndexerAssumption ==
  /\ Limit \in Nat \ {0} /\ Lookback \in Nat /\ Lag \in Nat
  /\ MaxLedger \in Nat /\ MaxEvents \in Nat
  /\ StartLedger \in Nat \cup {Nothing}
  /\ Nothing \notin Nat /\ Nothing \notin Cursor

VARIABLES
  chain,        (* the ledger of each event, in the order of the chain     *)
  undecodable,  (* events that normalizePageEvents skips                   *)
  latest,       (* newest ledger                                           *)
  oldest,       (* oldest ledger the RPC retains                           *)
  stored,       (* rows of the events table                                *)
  storedCursor, (* row of the state table, or Nothing                      *)
  process,      (* the poll under way in each process                      *)
  emitted,      (* events each process has emitted, ever                   *)
  begun         (* history: newest ledger a fallback has started from      *)

rpc  == <<chain, undecodable, latest, oldest>>
vars == <<chain, undecodable, latest, oldest, stored, storedCursor, process, emitted, begun>>

Events == DOMAIN chain
Points == {"idle", "start", "fetch", "store", "emit", "clear"}
Poll   == [at : Points, cursor : Cursor \cup {Nothing}, start : Nat \cup {Nothing},
           page : SUBSET Nat, next : Cursor \cup {Nothing}, fresh : SUBSET Nat]

(* isPolling is false: the locals of a poll end with it. *)
Idle == [at |-> "idle", cursor |-> Nothing, start |-> Nothing,
         page |-> {}, next |-> Nothing, fresh |-> {}]
Fetching(cursor, start) ==
  [Idle EXCEPT !.at = "fetch", !.cursor = cursor, !.start = start]

Goto(p, poll) == process' = [process EXCEPT ![p] = poll]
-----------------------------------------------------------------------------
Init ==
  /\ chain = <<>> /\ undecodable = {} /\ latest = 1 /\ oldest = 1
  /\ stored = {} /\ storedCursor = Nothing
  /\ process = [p \in Processes |-> Idle]
  /\ emitted = [p \in Processes |-> {}] /\ begun = 0

(* The chain and the RPC's retention window move on. *)
LedgerCloses ==
  /\ latest < MaxLedger
  /\ latest' = latest + 1
  /\ \E n \in 0..2 :
       /\ Len(chain) + n <= MaxEvents
       /\ chain' = chain \o [i \in 1..n |-> latest + 1]
       /\ \E skipped \in SUBSET (Len(chain) + 1 .. Len(chain) + n) :
            undecodable' = undecodable \cup skipped
  /\ UNCHANGED <<oldest, stored, storedCursor, process, emitted, begun>>

LedgerExpires ==
  /\ oldest < latest
  /\ oldest' = oldest + 1
  /\ UNCHANGED <<chain, undecodable, latest, stored, storedCursor, process, emitted, begun>>

(* The newest ledger of the RPC node that happens to answer. *)
Heads == {head \in oldest..latest : latest <= head + Lag}
-----------------------------------------------------------------------------
PollStarts(p) ==
  /\ process[p].at = "idle"
  /\ IF storedCursor = Nothing /\ StartLedger = Nothing
     THEN Goto(p, [Idle EXCEPT !.at = "start"])
     ELSE Goto(p, Fetching(storedCursor,
                           IF storedCursor = Nothing THEN StartLedger ELSE Nothing))
  /\ UNCHANGED <<rpc, stored, storedCursor, emitted, begun>>

(* getInitialStartLedger *)
LatestLedger(p) ==
  /\ process[p].at = "start"
  /\ \E head \in Heads :
       LET first == IF head > Lookback THEN head - Lookback ELSE 1
       IN  /\ Goto(p, Fetching(Nothing, first))
           /\ begun' = IF first > begun THEN first ELSE begun
  /\ UNCHANGED <<rpc, stored, storedCursor, emitted>>

(* getEvents: from the cursor if there is one, else from the start ledger. *)
InRange(p, head) ==
  IF process[p].cursor # Nothing
  THEN process[p].cursor.ledger \in oldest..head
  ELSE process[p].start \in oldest..head

Ahead(p, head) ==
  {e \in Events : /\ chain[e] <= head
                  /\ IF process[p].cursor # Nothing
                     THEN e > process[p].cursor.after
                     ELSE chain[e] >= process[p].start}

(* The first Limit of them. *)
Pages(events) ==
  {page \in SUBSET events :
     /\ \A a \in page, b \in events : b <= a => b \in page
     /\ Cardinality(page) <= Limit
     /\ page # events => Cardinality(page) = Limit}

(* The answer's cursor: the last event's, the end of the scanned range, or *)
(* none for an empty page, which leaves the cursor as it was.              *)
LastOf(page) ==
  {[after |-> e, ledger |-> chain[e]] : e \in {e \in page : \A x \in page : x <= e}}
RangeEnd(head) ==
  {[after |-> n, ledger |-> head] :
     n \in {n \in 0..Len(chain) : \A e \in Events : e <= n <=> chain[e] <= head}}

(* Mutant of NextCursors: the end of the range, also after a full page.    *)
NextCursorsLatest(p, page, head) ==
  RangeEnd(head) \cup (IF page = {} THEN {process[p].cursor} ELSE {})

NextCursors(p, page, head) ==
  LastOf(page) \cup (IF Cardinality(page) < Limit THEN RangeEnd(head) ELSE {})
               \cup (IF page = {} THEN {process[p].cursor} ELSE {})

Fetch(p) ==
  /\ process[p].at = "fetch"
  /\ \E head \in Heads :
       /\ InRange(p, head)
       /\ \E page \in Pages(Ahead(p, head)) : \E next \in NextCursors(p, page, head) :
            IF page \ undecodable = {} /\ next = process[p].cursor
            THEN Goto(p, Idle)
            ELSE Goto(p, [process[p] EXCEPT !.at = "store", !.page = page, !.next = next])
  /\ UNCHANGED <<rpc, stored, storedCursor, emitted, begun>>

(* Mutant of RangeRefused: a stale cursor resumes at the newest ledger.    *)
RangeRefusedSkips(p) ==
  /\ process[p].at = "fetch"
  /\ \E head \in Heads : ~InRange(p, head)
  /\ IF process[p].cursor # Nothing
     THEN Goto(p, [process[p] EXCEPT !.at = "clear", !.start = latest])
     ELSE Goto(p, Idle)
  /\ UNCHANGED <<rpc, stored, storedCursor, emitted, begun>>

(* Mutant of RangeRefused: a stale cursor only ends the poll.              *)
RangeRefusedGivesUp(p) ==
  /\ process[p].at = "fetch"
  /\ \E head \in Heads : ~InRange(p, head)
  /\ Goto(p, Idle)
  /\ UNCHANGED <<rpc, stored, storedCursor, emitted, begun>>

(* The node refuses a position outside its range and names its range. *)
RangeRefused(p) ==
  /\ process[p].at = "fetch"
  /\ \E head \in Heads : ~InRange(p, head)
  /\ IF process[p].cursor # Nothing
     THEN Goto(p, [process[p] EXCEPT !.at = "clear", !.start = oldest])
     ELSE IF oldest <= process[p].start
     THEN Goto(p, Idle)
     ELSE Goto(p, Fetching(Nothing, oldest))
  /\ UNCHANGED <<rpc, stored, storedCursor, emitted, begun>>

Clear(p) ==
  /\ process[p].at = "clear"
  /\ storedCursor' = Nothing
  /\ Goto(p, Fetching(Nothing, process[p].start))
  /\ UNCHANGED <<rpc, stored, emitted, begun>>

(* Mutant of Store: rows that were there already are returned as well.     *)
StoreReturnsAll(p) ==
  /\ process[p].at = "store"
  /\ stored' = stored \cup (process[p].page \ undecodable)
  /\ storedCursor' = process[p].next
  /\ Goto(p, [process[p] EXCEPT !.at = "emit", !.fresh = process[p].page \ undecodable])
  /\ UNCHANGED <<rpc, emitted, begun>>

(* storeEventBatch commits the events and the cursor together; it returns  *)
(* the events that were not in the table yet.                              *)
Store(p) ==
  LET decoded == process[p].page \ undecodable
  IN  /\ process[p].at = "store"
      /\ stored' = stored \cup decoded
      /\ storedCursor' = process[p].next
      /\ Goto(p, [process[p] EXCEPT !.at = "emit", !.fresh = decoded \ stored])
      /\ UNCHANGED <<rpc, emitted, begun>>

(* Mutant of Emit: the start ledger is kept along with the new cursor.     *)
EmitKeepsStart(p) ==
  /\ process[p].at = "emit"
  /\ emitted' = [emitted EXCEPT ![p] = @ \cup process[p].fresh]
  /\ IF process[p].next # process[p].cursor /\ Cardinality(process[p].page) >= Limit
     THEN Goto(p, Fetching(process[p].next, process[p].start))
     ELSE Goto(p, Idle)
  /\ UNCHANGED <<rpc, stored, storedCursor, begun>>

(* The listeners run in the same step; then the next page, or the end. *)
Emit(p) ==
  /\ process[p].at = "emit"
  /\ emitted' = [emitted EXCEPT ![p] = @ \cup process[p].fresh]
  /\ IF process[p].next # process[p].cursor /\ Cardinality(process[p].page) >= Limit
     THEN Goto(p, Fetching(process[p].next, Nothing))
     ELSE Goto(p, Idle)
  /\ UNCHANGED <<rpc, stored, storedCursor, begun>>

(* An await is rejected and the poll ends, or the process crashes and is   *)
(* restarted: either way the locals are lost.  After Store the transaction *)
(* has committed although the caller saw it fail.                          *)
Interrupted(p) ==
  /\ process[p].at # "idle"
  /\ Goto(p, Idle)
  /\ UNCHANGED <<rpc, stored, storedCursor, emitted, begun>>

Advance(p) ==
  PollStarts(p) \/ LatestLedger(p) \/ Fetch(p) \/ RangeRefused(p)
  \/ Clear(p) \/ Store(p) \/ Emit(p)

Next ==
  \/ LedgerCloses \/ LedgerExpires
  \/ \E p \in Processes : Advance(p) \/ Interrupted(p)

Spec == Init /\ [][Next]_vars

(***************************************************************************)
(* The timer polls again and again and every await settles.  A call that   *)
(* is repeated for ever succeeds some time: the RPC answers a request or   *)
(* refuses its range, and a transaction commits.  The node that answers    *)
(* must be up to date (Lag = 0): one that stays behind answers for ever    *)
(* without the newest events, and an event that never ends up in its range *)
(* is not read.                                                            *)
(***************************************************************************)
Fairness ==
  \A p \in Processes :
    /\ WF_vars(Advance(p)) /\ SF_vars(LatestLedger(p)) /\ SF_vars(Fetch(p))
    /\ SF_vars(RangeRefused(p)) /\ SF_vars(Clear(p)) /\ SF_vars(Store(p))

LiveSpec == Spec /\ Fairness
-----------------------------------------------------------------------------
(* Types, and a request always says where to read from, in one way only.   *)
IndexerTypeOK ==
  /\ chain \in Seq(Nat) /\ undecodable \subseteq Events /\ stored \subseteq Events
  /\ latest \in Nat /\ oldest \in 1..latest
  /\ storedCursor \in Cursor \cup {Nothing}
  /\ process \in [Processes -> Poll]
  /\ emitted \in [Processes -> SUBSET Events] /\ begun \in Nat
  /\ \A p \in Processes :
       process[p].at = "fetch" => (process[p].cursor = Nothing <=> process[p].start # Nothing)

(* What became of an event: indexed, skipped, too old, or not asked for.   *)
Settled(e) ==
  \/ e \in stored \cup undecodable
  \/ chain[e] < oldest
  \/ chain[e] < (IF StartLedger # Nothing THEN StartLedger ELSE begun)

(***************************************************************************)
(* No event is missed: with a configured start ledger, every event before  *)
(* the stored cursor, or before a stored event, has been indexed unless it *)
(* cannot be decoded, has left the RPC's range or precedes the start.  The *)
(* cursor moves with the events whatever fails in between (poll,           *)
(* storeEventBatch, clearStoredCursor).                                    *)
(***************************************************************************)
IndexedOrExpired ==
  StartLedger # Nothing =>
    \A e \in Events :
      \/ Settled(e)
      \/ /\ storedCursor # Nothing => storedCursor.after < e
         /\ \A x \in stored : x < e

(***************************************************************************)
(* An event is emitted at most once, by one process, even when a cleared   *)
(* cursor makes a process read its page again (skipDuplicates, db.ts:176). *)
(***************************************************************************)
StreamedOnce ==
  \A p, q \in Processes :
    process[p].at = "emit" =>
      /\ process[p].fresh \cap emitted[q] = {}
      /\ p # q /\ process[q].at = "emit" => process[p].fresh \cap process[q].fresh = {}

(***************************************************************************)
(* The subscribers of a process see the events from the start ledger on in *)
(* the order of the chain: an event that is new to the table is never      *)
(* older than one already emitted, whichever pages were read again.        *)
(***************************************************************************)
StreamInOrder ==
  \A p \in Processes :
    process[p].at = "emit" =>
      \A e \in process[p].fresh, x \in emitted[p] :
        StartLedger # Nothing /\ chain[e] >= StartLedger => x < e

(***************************************************************************)
(* Every event of the chain gets indexed, or expires first: a stale cursor *)
(* is dropped and a full page is followed by the next.  Without a          *)
(* configured start ledger an event older than a ledger the fallback has   *)
(* started from is excepted: it may never be asked for (getInitialStart-   *)
(* Ledger; ResumesFromEarliest is what goes wrong with it).                *)
(***************************************************************************)
IndexedEventually ==
  \A e \in 1..MaxEvents : e \in Events ~> (e \in Events /\ Settled(e))

(***************************************************************************)
(* indexer.ts:307: "Stored RPC cursor is outside the RPC retention range;  *)
(* resuming from the earliest available ledger."  So no event that the RPC *)
(* still has is left out between two stored ones.                          *)
(***************************************************************************)
ResumesFromEarliest ==
  \A x, y \in stored : \A e \in (x + 1) .. (y - 1) :
    e \in stored \cup undecodable \/ chain[e] < oldest
=============================================================================
