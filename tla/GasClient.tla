------------------------------ MODULE GasClient -----------------------------
(***************************************************************************)
(* The browser's side of a sponsored transaction (lib/gas-client.ts,       *)
(* components/gas-recovery-notice.tsx) and the Next.js routes it calls     *)
(* (app/api/gas).  Operation ids are kept in local storage before anything *)
(* is sent; the session is one cookie for all tabs.  An await is where a   *)
(* step ends.  Each call of the routes has a timeout, an answer may be     *)
(* lost, and a request may reach the service after the client gave up on   *)
(* it.                                                                     *)
(*                                                                         *)
(* The service is seen from outside: the first request it takes decides    *)
(* the operation's course, which is what GasStation shows of it.           *)
(* "failed" stands for failed, cancelled and denied, "pending" for every   *)
(* status that is not terminal.                                            *)
(***************************************************************************)
EXTENDS Browser, Functions

CONSTANTS
  Operations,  (* UUIDs drawn by crypto.randomUUID, never twice           *)
  Kept,        (* ids kept per wallet: 20 in the code                     *)
  Checked      (* ids one recovery check asks for: 5 in the code          *)

ASSUME GasClientAssumption ==
  /\ Kept \in Nat \ {0} /\ Checked \in Nat \ {0}
  /\ Nothing \notin {"succeeded", "failed", "pending"}

VARIABLES
  gasIds,       (* the stored ids, by wallet, oldest first                *)
  gasCookie,    (* the wallet of the session cookie                       *)
  submissions,  (* calls of submitGasOperation                            *)
  requests,     (* the POST /api/gas of an operation, on its way          *)
  outcomes,     (* what became of the operation at the service            *)
  checks,       (* checkPendingOperations under way, by tab               *)
  learned,      (* history: operations whose end this browser was told    *)
  displaced     (* history: ids dropped because more than Kept were stored *)

gasVars == <<gasIds, gasCookie, submissions, requests, outcomes, checks, learned, displaced>>

Terminal == {"succeeded", "failed"}
Waiting  == {"authorizing", "sending", "posted", "status", "confirming"}

Unasked == [wallet |-> Nothing, queue |-> <<>>]

GasClientInit ==
  /\ gasIds = [w \in Wallets |-> <<>>]
  /\ gasCookie = Nothing
  /\ submissions = [id \in Operations |->
       [at |-> "new", wallet |-> Nothing, told |-> Nothing]]
  /\ requests = [id \in Operations |-> "none"]
  /\ outcomes = [id \in Operations |-> "absent"]
  /\ checks = [t \in Tabs |-> Unasked]
  /\ learned = {} /\ displaced = {}

Least(m, n) == IF m < n THEN m ELSE n

Has(ids, id) == \E i \in DOMAIN ids : ids[i] = id

(* filter((entry) => entry !== id): the stored ids are distinct.           *)
Without(w, id) ==
  LET ids == gasIds[w]
      p   == CHOOSE i \in DOMAIN ids : ids[i] = id
  IN  IF Has(ids, id)
      THEN [i \in 1 .. Len(ids) - 1 |-> ids[IF i < p THEN i ELSE i + 1]]
      ELSE ids

(* Mutant of Remember: nothing is dropped.                                 *)
RememberAll(w, id) ==
  /\ gasIds' = [gasIds EXCEPT ![w] = Append(Without(w, id), id)]
  /\ UNCHANGED displaced

(* rememberGasOperation moves the id to the end; slice(-20) drops the      *)
(* oldest.                                                                 *)
Remember(w, id) ==
  LET ids  == Append(Without(w, id), id)
      drop == IF Len(ids) > Kept THEN Len(ids) - Kept ELSE 0
  IN  /\ gasIds' = [gasIds EXCEPT ![w] = SubSeq(ids, drop + 1, Len(ids))]
      /\ displaced' = displaced \cup {ids[i] : i \in 1 .. drop}

Forget(w, id) ==
  /\ gasIds' = [gasIds EXCEPT ![w] = Without(w, id)]
  /\ UNCHANGED displaced

(* What getGasOperationStatus and submitGasOperation do with a result.     *)
Observe(w, id, status) ==
  IF status \in Terminal
  THEN Forget(w, id) /\ learned' = learned \cup {id}
  ELSE Remember(w, id) /\ UNCHANGED learned

(* The service's row was read some time ago: it may still say pending.     *)
Statuses(id) == {"pending"} \cup ({outcomes[id]} \cap Terminal)

(* GET /api/gas answers with a status only within a session of the wallet  *)
(* and once the service has the operation: 401 and 404 otherwise.  An      *)
(* error is always possible instead, so the cookie may be looked at when   *)
(* the answer comes.                                                       *)
StatusFor(id, wallet) ==
  IF gasCookie = wallet /\ outcomes[id] # "absent" THEN Statuses(id) ELSE {}
-----------------------------------------------------------------------------
At(id, point) == submissions' = [submissions EXCEPT ![id].at = point]

Tell(id, what) ==
  submissions' = [submissions EXCEPT ![id].at = "told", ![id].told = what]

(* submitSignedGasTransaction tells the user at once how it ended, but for *)
(* a success: then it first asks the RPC for what the contract returned.   *)
TellEnd(id, status) ==
  IF status = "succeeded" THEN At(id, "confirming") ELSE Tell(id, status)

(* The id is stored before anything is sent.                               *)
Submit(id, w) ==
  /\ submissions[id].at = "new"
  /\ submissions' = [submissions EXCEPT ![id].at = "authorizing", ![id].wallet = w]
  /\ Remember(w, id)
  /\ UNCHANGED <<gasCookie, requests, outcomes, checks, learned>>

(* /api/gas/auth has had the transaction verified: the cookie now names    *)
(* its source, for every tab.                                              *)
Authorized(id) ==
  /\ submissions[id].at = "authorizing"
  /\ gasCookie' = submissions[id].wallet
  /\ At(id, "sending")
  /\ UNCHANGED <<gasIds, requests, outcomes, checks, learned, displaced>>

(* Refused, failed or timed out; the cookie may have been set even so.     *)
Unauthorized(id) ==
  LET w == submissions[id].wallet
  IN  /\ submissions[id].at = "authorizing"
      /\ gasCookie' \in {gasCookie, w}
      /\ Forget(w, id)
      /\ Tell(id, "failed")
      /\ UNCHANGED <<requests, outcomes, checks, learned>>

(* fetch attaches the cookie as it is by now: without one the route        *)
(* answers 401, with that of another wallet the service answers 403.       *)
Post(id) ==
  /\ submissions[id].at = "sending"
  /\ At(id, "posted")
  /\ requests' = [requests EXCEPT ![id] =
       IF gasCookie = submissions[id].wallet THEN "travelling" ELSE "refused"]
  /\ UNCHANGED <<gasIds, gasCookie, outcomes, checks, learned, displaced>>

(* Mutant of PostUnresolved: a lost answer is told as a failure.           *)
PostLostAsFailed(id) ==
  /\ submissions[id].at = "posted"
  /\ Tell(id, "failed")
  /\ UNCHANGED <<gasIds, gasCookie, requests, outcomes, checks, learned, displaced>>

(* No answer in time, an answer of 500 or above, or one that is invalid:   *)
(* the id stays stored.                                                    *)
PostUnresolved(id) ==
  /\ submissions[id].at = "posted"
  /\ Tell(id, "pending")
  /\ UNCHANGED <<gasIds, gasCookie, requests, outcomes, checks, learned, displaced>>

(* An answer of 400 to 499.                                                *)
PostRefused(id) ==
  /\ submissions[id].at = "posted"
  /\ requests[id] = "refused"
  /\ Forget(submissions[id].wallet, id)
  /\ Tell(id, "failed")
  /\ UNCHANGED <<gasCookie, requests, outcomes, checks, learned>>

PostAnswered(id) ==
  /\ submissions[id].at = "posted"
  /\ requests[id] = "served"
  /\ \E status \in Statuses(id) :
       /\ Observe(submissions[id].wallet, id, status)
       /\ IF status \in Terminal
          THEN TellEnd(id, status)
          ELSE At(id, "status")
  /\ UNCHANGED <<gasCookie, requests, outcomes, checks>>

StatusAnswered(id) ==
  LET s == submissions[id]
  IN  /\ s.at = "status"
      /\ \E status \in StatusFor(id, s.wallet) :
           Observe(s.wallet, id, status) /\ TellEnd(id, status)
      /\ UNCHANGED <<gasCookie, requests, outcomes, checks>>

(* Its failure is swallowed: the user is told what the POST answered.      *)
StatusUnanswered(id) ==
  /\ submissions[id].at = "status"
  /\ Tell(id, "pending")
  /\ UNCHANGED <<gasIds, gasCookie, requests, outcomes, checks, learned, displaced>>

(* pollTransaction has answered, or thrown, which is swallowed.  The call  *)
(* has no timeout: it may also never end.                                  *)
Confirmed(id) ==
  /\ submissions[id].at = "confirming"
  /\ Tell(id, "succeeded")
  /\ UNCHANGED <<gasIds, gasCookie, requests, outcomes, checks, learned, displaced>>

(* The tab is closed or reloaded; a request it sent travels on.            *)
Abandon(id) ==
  /\ submissions[id].at \in Waiting
  /\ At(id, "gone")
  /\ UNCHANGED <<gasIds, gasCookie, requests, outcomes, checks, learned, displaced>>
-----------------------------------------------------------------------------
(* The user presses "Check status".  The list and the wallet are those of  *)
(* this moment for the whole check.                                        *)
CheckStarts(t, w) ==
  /\ checks[t] = Unasked /\ gasIds[w] # <<>>
  /\ checks' = [checks EXCEPT ![t] =
       [wallet |-> w, queue |-> SubSeq(gasIds[w], 1, Least(Checked, Len(gasIds[w])))]]
  /\ UNCHANGED <<gasIds, gasCookie, submissions, requests, outcomes, learned, displaced>>

NextCheck(t) ==
  LET c == checks[t]
  IN  checks' = [checks EXCEPT ![t] =
        IF Len(c.queue) = 1 THEN Unasked
        ELSE [wallet |-> c.wallet, queue |-> Tail(c.queue)]]

CheckAnswered(t) ==
  LET c == checks[t]
  IN  /\ c # Unasked
      /\ \E status \in StatusFor(Head(c.queue), c.wallet) :
           Observe(c.wallet, Head(c.queue), status)
      /\ NextCheck(t)
      /\ UNCHANGED <<gasCookie, submissions, requests, outcomes>>

(* Mutant of CheckUnanswered: an operation nobody knows is given up.       *)
CheckForgets(t) ==
  /\ checks[t] # Unasked
  /\ Forget(checks[t].wallet, Head(checks[t].queue))
  /\ NextCheck(t)
  /\ UNCHANGED <<gasCookie, submissions, requests, outcomes, learned>>

(* An error or a timeout leaves the id for another check.                  *)
CheckUnanswered(t) ==
  /\ checks[t] # Unasked
  /\ NextCheck(t)
  /\ UNCHANGED <<gasIds, gasCookie, submissions, requests, outcomes, learned, displaced>>
-----------------------------------------------------------------------------
(* The service and the relayer.  Taken: the operation's row exists.        *)
Taken(id) ==
  /\ requests[id] = "travelling"
  /\ requests' = [requests EXCEPT ![id] = "served"]
  /\ outcomes' = [outcomes EXCEPT ![id] = "underway"]
  /\ UNCHANGED <<gasIds, gasCookie, submissions, checks, learned, displaced>>

(* 400, 401 or 403: always before the operation's row is created.          *)
Refused(id) ==
  /\ requests[id] = "travelling"
  /\ requests' = [requests EXCEPT ![id] = "refused"]
  /\ UNCHANGED <<gasIds, gasCookie, submissions, outcomes, checks, learned, displaced>>

Ends(id) ==
  /\ outcomes[id] = "underway"
  /\ \E end \in Terminal : outcomes' = [outcomes EXCEPT ![id] = end]
  /\ UNCHANGED <<gasIds, gasCookie, submissions, requests, checks, learned, displaced>>

SessionExpires ==
  /\ gasCookie' = Nothing
  /\ UNCHANGED <<gasIds, submissions, requests, outcomes, checks, learned, displaced>>

GasClientNext ==
  \/ \E id \in Operations :
       \/ \E w \in Wallets : Submit(id, w)
       \/ Authorized(id) \/ Unauthorized(id) \/ Post(id)
       \/ PostUnresolved(id) \/ PostRefused(id) \/ PostAnswered(id)
       \/ StatusAnswered(id) \/ StatusUnanswered(id)
       \/ Confirmed(id) \/ Abandon(id)
       \/ Taken(id) \/ Refused(id) \/ Ends(id)
  \/ \E t \in Tabs :
       \/ \E w \in Wallets : CheckStarts(t, w)
       \/ CheckAnswered(t) \/ CheckUnanswered(t)
  \/ SessionExpires

GasClientSpec == GasClientInit /\ [][GasClientNext]_gasVars
-----------------------------------------------------------------------------
GasClientTypeOK ==
  /\ gasIds \in [Wallets -> Seq(Operations)]
  /\ \A w \in Wallets : Len(gasIds[w]) <= Kept /\ IsInjective(gasIds[w])
  /\ gasCookie \in Wallets \cup {Nothing}
  /\ submissions \in [Operations ->
       [at : Waiting \cup {"new", "told", "gone"}, wallet : Wallets \cup {Nothing},
        told : Terminal \cup {"pending", Nothing}]]
  /\ requests \in [Operations -> {"none", "travelling", "refused", "served"}]
  /\ outcomes \in [Operations -> {"absent", "underway"} \cup Terminal]
  /\ checks \in [Tabs -> [wallet : Wallets \cup {Nothing}, queue : Seq(Operations)]]
  /\ learned \subseteq Operations /\ displaced \subseteq Operations

(***************************************************************************)
(* What the user is told at the end of a submission stays true.  In        *)
(* particular, after "failed" the transaction neither runs nor can reach   *)
(* the service any more, so that doing it again does not do it twice       *)
(* (submitGasOperation's three catch blocks, the status codes of the       *)
(* routes).                                                                *)
(***************************************************************************)
ToldTruly ==
  \A id \in Operations :
    /\ submissions[id].told = "succeeded" => outcomes[id] = "succeeded"
    /\ submissions[id].told = "failed" =>
         outcomes[id] \in {"absent", "failed"} /\ requests[id] # "travelling"

(***************************************************************************)
(* An operation that may have reached the service is listed for recovery   *)
(* until this browser has been answered how it ended, whatever tabs were   *)
(* closed and answers lost; the one exception is an id that Kept newer     *)
(* ones have displaced (rememberGasOperation, forgetGasOperation).  The    *)
(* answer is the client's, not yet the user's: a tab closed while it asks  *)
(* the RPC for the return value says nothing more of a success.            *)
(***************************************************************************)
UnsettledRemembered ==
  \A id \in Operations :
    (requests[id] = "travelling" \/ outcomes[id] # "absent") =>
      \/ id \in learned \cup displaced
      \/ Has(gasIds[submissions[id].wallet], id)
=============================================================================
