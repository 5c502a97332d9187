---------------------------- MODULE EventService ----------------------------
(***************************************************************************)
(* The process of the indexer as its browsers see it (indexer/src/         *)
(* server.ts): polls started by TalambagIndexer.start and a timer, events  *)
(* committed to the table and then emitted to the open streams, listings   *)
(* of the table, and the shutdown.  A step is what happens between two     *)
(* awaits; Indexer models what happens inside a poll, here it commits the  *)
(* next events of the chain page by page.                                  *)
(***************************************************************************)
EXTENDS Naturals, Sequences, FiniteSets

CONSTANTS
  Browsers,     (* clients of GET /events/stream and GET /events          *)
  MaxEvents,    (* bound: events of the chain                             *)
  GroupOf,      (* the group of each event                                *)
  Groups,       (* values of the groupId filter                           *)
  Everything,   (* no filter                                              *)
  ListLimit     (* events a listing returns at most                       *)

ASSUME ServiceAssumption ==
  /\ MaxEvents \in Nat /\ GroupOf \in [1 .. MaxEvents -> Groups]
  /\ Everything \notin Groups /\ ListLimit \in Nat \ {0}

VARIABLES
  phase,     (* serving, shutting down, or closed and disconnected         *)
  started,   (* the first poll of start() has ended                        *)
  timer,     (* setInterval's timer is set                                 *)
  polling,   (* isPolling                                                  *)
  table,     (* events committed, in the order of the chain                *)
  fresh,     (* events committed by the running poll and not emitted yet   *)
  streams,   (* streamClients, with what each browser has got              *)
  unsent,    (* history: events committed by a poll that was not told so   *)
  stoppedInTime  (* history: stop() came after start() had ended           *)

serviceVars == <<phase, started, timer, polling, table, fresh, streams, unsent, stoppedInTime>>

Filters == Groups \cup {Everything}

(* listed: what the browser's listing returned, once it asked for one      *)
(* after its stream was ready.                                             *)
NoStream == [open |-> FALSE, filter |-> Everything, received |-> <<>>,
             asked |-> FALSE, listed |-> {}]

(* matchesFilters, and the where clause of listEvents: event types and     *)
(* pools filter as groups do.                                              *)
Matches(e, filter) == filter = Everything \/ GroupOf[e] = filter

(* Mutant of Newest: the oldest first.                                     *)
OldestFirst(filter) ==
  LET matching == {e \in 1 .. table : Matches(e, filter)}
  IN  {e \in matching : Cardinality({x \in matching : x < e}) < ListLimit}

(* listEvents: newest first, take limit.                                   *)
Newest(filter) ==
  LET matching == {e \in 1 .. table : Matches(e, filter)}
  IN  {e \in matching : Cardinality({x \in matching : x > e}) < ListLimit}
-----------------------------------------------------------------------------
(* main() has connected the store and listens; start() polls at once.      *)
Started ==
  /\ phase' = "serving" /\ started' = FALSE /\ timer' = FALSE /\ polling' = TRUE
  /\ fresh' = {} /\ streams' = [b \in Browsers |-> NoStream]
  /\ stoppedInTime' = FALSE /\ unsent' = {}

ServiceInit ==
  /\ phase = "serving" /\ started = FALSE /\ timer = FALSE /\ polling = TRUE
  /\ table = 0 /\ fresh = {} /\ streams = [b \in Browsers |-> NoStream]
  /\ stoppedInTime = FALSE /\ unsent = {}

(* The process dies, or has ended, and is started again.                   *)
Restart == Started /\ UNCHANGED table

(* setInterval; a poll that finds isPolling set returns at once.           *)
Tick ==
  /\ timer /\ ~polling
  /\ polling' = TRUE
  /\ UNCHANGED <<phase, started, timer, table, fresh, streams, unsent, stoppedInTime>>

(* storeEventBatch commits a page.  Only this process commits here: what   *)
(* another one commits while a deployment lets them overlap (Indexer) is   *)
(* for this process in the table and, like unsent, never emitted.          *)
Commit ==
  /\ polling /\ fresh = {}
  /\ \E last \in table + 1 .. MaxEvents :
       table' = last /\ fresh' = table + 1 .. last
  /\ UNCHANGED <<phase, started, timer, polling, streams, unsent, stoppedInTime>>

InOrder(events, filter) ==
  LET matching == {e \in events : Matches(e, filter)}
  IN  [i \in 1 .. Cardinality(matching) |->
         CHOOSE e \in matching : Cardinality({x \in matching : x < e}) = i - 1]

Send(events) ==
  streams' = [b \in Browsers |->
    IF streams[b].open
    THEN [streams[b] EXCEPT !.received = @ \o InOrder(events, streams[b].filter)]
    ELSE streams[b]]

(* Every listener is called for every inserted event, without an await.    *)
Emit ==
  /\ fresh # {}
  /\ fresh' = {}
  /\ Send(fresh)
  /\ UNCHANGED <<phase, started, timer, polling, table, unsent, stoppedInTime>>

(* A poll's finally; after the first one start() sets the timer, whatever  *)
(* stop() has done in the meantime.                                        *)
PollIsOver == polling' = FALSE /\ started' = TRUE /\ timer' = (timer \/ ~started)

(* The commit takes place and the connection breaks before its answer: the *)
(* poll fails, and no later one inserts these events (skipDuplicates).     *)
CommitUnanswered ==
  /\ polling /\ fresh = {}
  /\ \E last \in table + 1 .. MaxEvents :
       table' = last /\ unsent' = unsent \cup (table + 1 .. last)
  /\ PollIsOver
  /\ UNCHANGED <<phase, fresh, streams, stoppedInTime>>

PollEnds ==
  /\ polling /\ fresh = {}
  /\ PollIsOver
  /\ UNCHANGED <<phase, table, fresh, streams, unsent, stoppedInTime>>
-----------------------------------------------------------------------------
(* A connection kept alive can still ask while the server is closing.      *)
Open(b) ==
  /\ phase # "closed" /\ ~streams[b].open
  /\ \E filter \in Filters :
       streams' = [streams EXCEPT ![b] = [NoStream EXCEPT !.open = TRUE, !.filter = filter]]
  /\ UNCHANGED <<phase, started, timer, polling, table, fresh, unsent, stoppedInTime>>

List(b) ==
  /\ streams[b].open /\ ~streams[b].asked
  /\ streams' = [streams EXCEPT ![b].asked = TRUE, ![b].listed = Newest(streams[b].filter)]
  /\ UNCHANGED <<phase, started, timer, polling, table, fresh, unsent, stoppedInTime>>

(* request.on("close"): the browser leaves or the connection breaks.       *)
Leave(b) ==
  /\ streams[b].open
  /\ streams' = [streams EXCEPT ![b] = NoStream]
  /\ UNCHANGED <<phase, started, timer, polling, table, fresh, unsent, stoppedInTime>>
-----------------------------------------------------------------------------
(* Mutant of Shutdown: the streams are closed, the indexer is not stopped. *)
ShutdownPolling ==
  /\ phase = "serving"
  /\ phase' = "stopping" /\ stoppedInTime' = started
  /\ streams' = [b \in Browsers |-> NoStream]
  /\ UNCHANGED <<started, timer, polling, table, fresh, unsent>>

(* shutdown: isShuttingDown, stop(), closeAllStreamClients.  A poll under  *)
(* way goes on.                                                            *)
Shutdown ==
  /\ phase = "serving"
  /\ phase' = "stopping" /\ stoppedInTime' = started
  /\ timer' = FALSE
  /\ streams' = [b \in Browsers |-> NoStream]
  /\ UNCHANGED <<started, polling, table, fresh, unsent>>

(* server.close calls back when no connection is left; then disconnect.    *)
Closed ==
  /\ phase = "stopping"
  /\ \A b \in Browsers : ~streams[b].open
  /\ phase' = "closed"
  /\ UNCHANGED <<started, timer, polling, table, fresh, streams, unsent, stoppedInTime>>

ServiceNext ==
  \/ Restart \/ Tick \/ Commit \/ CommitUnanswered \/ Emit \/ PollEnds
  \/ \E b \in Browsers : Open(b) \/ List(b) \/ Leave(b)
  \/ Shutdown \/ Closed

ServiceSpec == ServiceInit /\ [][ServiceNext]_serviceVars
-----------------------------------------------------------------------------
ServiceTypeOK ==
  /\ phase \in {"serving", "stopping", "closed"}
  /\ started \in BOOLEAN /\ timer \in BOOLEAN /\ polling \in BOOLEAN
  /\ stoppedInTime \in BOOLEAN
  /\ table \in 0 .. MaxEvents /\ fresh \subseteq 1 .. table /\ unsent \subseteq 1 .. table
  /\ streams \in [Browsers ->
       [open : BOOLEAN, filter : Filters, received : Seq(1 .. MaxEvents),
        asked : BOOLEAN, listed : SUBSET (1 .. MaxEvents)]]

(***************************************************************************)
(* A browser that lists the events after its stream is ready misses none:  *)
(* every committed event it asked for is in the listing, or on the stream, *)
(* or about to be sent, unless the listing was full of newer ones, the     *)
(* poll was never told that it had committed it, or another process has    *)
(* committed it; and the stream sends each event once, in the order of the *)
(* chain, and only what was asked for (events committed, then emitted;     *)
(* /events/stream, /events).                                               *)
(***************************************************************************)
StreamComplete ==
  \A b \in Browsers :
    LET s == streams[b]
    IN  s.open =>
          /\ \A i, j \in DOMAIN s.received : i < j => s.received[i] < s.received[j]
          /\ \A i \in DOMAIN s.received : Matches(s.received[i], s.filter)
          /\ s.asked =>
               \A e \in 1 .. table :
                 Matches(e, s.filter) =>
                   \/ e \in s.listed \cup fresh \cup unsent
                   \/ \E i \in DOMAIN s.received : s.received[i] = e
                   \/ Cardinality({x \in s.listed : x > e}) = ListLimit

(***************************************************************************)
(* After a shutdown no further poll begins, unless the signal came while   *)
(* start() was still at its first poll (stop, start's setInterval).        *)
(***************************************************************************)
StoppedForGood ==
  [][phase # "serving" /\ phase' # "serving" /\ stoppedInTime /\ ~polling => ~polling']_serviceVars
=============================================================================
