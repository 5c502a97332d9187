----------------------------- MODULE GasStation -----------------------------
(***************************************************************************)
(* The gas station of the indexer (indexer/src/gas/service.ts) on its      *)
(* Postgres table (gas/store.ts) and the Velo relayer.  Several requests   *)
(* run at once in one Node.js process: a request is a handler that runs    *)
(* from one await to the next, so a step is what happens between two       *)
(* awaits.  The process may crash at any moment; the table and the         *)
(* relayer survive.  The relayer is external: it accepts a hand-off late   *)
(* or never, and its answers may be lost.                                  *)
(***************************************************************************)
EXTENDS Naturals, FiniteSets

CONSTANTS
  OperationIds,   (* the UUIDs chosen by browsers                        *)
  Transactions,   (* signed transactions that pass verification          *)
  Wallets,        (* authenticated wallets                               *)
  Handlers,       (* requests that can be under way at the same time     *)
  SourceOf,       (* the wallet that signed a transaction                *)
  Nothing         (* null                                                *)

ASSUME GasAssumption ==
  /\ SourceOf \in [Transactions -> Wallets]
  /\ Nothing \notin Transactions

VARIABLES
  operations,     (* the table, by operation id                          *)
  handlers,       (* the requests under way                              *)
  handoffs,       (* numbered calls of velo.sponsorAndSubmit, ever       *)
  relay           (* what the relayer did with the operation's hand-off  *)

vars == <<operations, handlers, handoffs, relay>>

Outcomes     == {"succeeded", "failed", "cancelled"}
RelayStatus  == {"claimed", "submitted"} \cup Outcomes
StoredStatus == RelayStatus \cup {"submission_unknown", "unresolved", "denied"}

Operation == [tx : Transactions, identified : BOOLEAN, status : StoredStatus]

(* identified: requestId is not null.  Fees, expiry, outer hash, error     *)
(* code and the reconciliation flag are written along and never read.      *)
Claimed(tx) == [tx |-> tx, identified |-> FALSE, status |-> "claimed"]

Points == {"idle", "find", "create", "refind", "sponsor", "awaiting", "save",
           "saveUnknown", "observe", "saveObserved", "unresolve", "deny",
           "look", "query", "saveStatus", "saveWait", "replied"}

Request == [at : Points, op : OperationIds \cup {Nothing},
            wallet : Wallets \cup {Nothing}, tx : Transactions \cup {Nothing},
            observe : BOOLEAN, stored : StoredStatus \cup {Nothing},
            answer : StoredStatus \cup {"pending", "absent", "refused", Nothing}]

Blank == [at |-> "idle", op |-> Nothing, wallet |-> Nothing, tx |-> Nothing,
          observe |-> FALSE, stored |-> Nothing, answer |-> Nothing]

Working(h) == handlers[h].at \notin {"idle", "replied"}

(* toPublicResult *)
Public(status) == IF status \in {"claimed", "unresolved"} THEN "pending" ELSE status
-----------------------------------------------------------------------------
Init ==
  /\ operations = [id \in {} |-> 0]
  /\ handlers = [h \in Handlers |-> Blank]
  /\ handoffs = [id \in OperationIds |-> {}]
  /\ relay = [id \in OperationIds |-> "absent"]

Goto(h, point) == handlers' = [handlers EXCEPT ![h].at = point]

(* A request ends with an answer, or with an error that carries no status. *)
Reply(h, status) ==
  handlers' = [handlers EXCEPT ![h] =
    [Blank EXCEPT !.at = "replied", !.op = handlers[h].op, !.wallet = handlers[h].wallet,
                  !.answer = Public(status)]]
Throw(h) == handlers' = [handlers EXCEPT ![h] = Blank]

Put(id, operation) ==
  operations' = [x \in DOMAIN operations \cup {id} |->
                   IF x = id THEN operation ELSE operations[x]]

(* Mutant of Patched: the public status is stored after an error.          *)
PatchedPublic(h) ==
  [operations[handlers[h].op] EXCEPT !.status = "pending"]

(* patchFromResult, and the partial patches of the error paths.            *)
Patched(h) ==
  LET old == operations[handlers[h].op]
  IN  CASE handlers[h].at \in {"save", "saveObserved", "saveStatus"} ->
             [old EXCEPT !.identified = TRUE, !.status = handlers[h].answer]
        [] handlers[h].at = "saveUnknown" ->
             [old EXCEPT !.identified = TRUE, !.status = "submission_unknown"]
        [] handlers[h].at = "saveWait" ->
             [old EXCEPT !.status = "submission_unknown"]
        [] handlers[h].at = "unresolve" -> [old EXCEPT !.status = "unresolved"]
        [] handlers[h].at = "deny"      -> [old EXCEPT !.status = "denied"]
-----------------------------------------------------------------------------
(* A request arrives.  authorize has passed: the signed transaction is     *)
(* valid and its source is the authenticated wallet.                       *)
SubmitRequest(h, id, tx) ==
  /\ handlers[h].at = "idle"
  /\ handlers' = [handlers EXCEPT ![h] =
       [Blank EXCEPT !.at = "find", !.op = id, !.tx = tx, !.wallet = SourceOf[tx]]]
  /\ UNCHANGED <<operations, handoffs, relay>>

StatusRequest(h, id, wallet, observe) ==
  /\ handlers[h].at = "idle"
  /\ handlers' = [handlers EXCEPT ![h] =
       [Blank EXCEPT !.at = "look", !.op = id, !.wallet = wallet, !.observe = observe]]
  /\ UNCHANGED <<operations, handoffs, relay>>

(* The client has read the answer. *)
Done(h) ==
  /\ handlers[h].at = "replied"
  /\ Throw(h)
  /\ UNCHANGED <<operations, handoffs, relay>>

(* Mutant of RecoverExisting: without an identity the hand-off is retried. *)
RecoverResubmits(h, operation) ==
  IF operation.tx # handlers[h].tx THEN Throw(h)
  ELSE IF operation.identified THEN Goto(h, "look")
  ELSE Goto(h, "sponsor")

(* recoverExisting: the signed transaction is not handed over again.       *)
RecoverExisting(h, operation) ==
  IF operation.tx # handlers[h].tx THEN Throw(h)
  ELSE IF operation.identified THEN Goto(h, "look")
  ELSE Reply(h, operation.status)

Find(h) ==
  /\ handlers[h].at = "find"
  /\ IF handlers[h].op \in DOMAIN operations
     THEN RecoverExisting(h, operations[handlers[h].op])
     ELSE Goto(h, "create")
  /\ UNCHANGED <<operations, handoffs, relay>>

(* Mutant of Create: an upsert, which every claimant passes.               *)
CreateUpserts(h) ==
  /\ handlers[h].at = "create"
  /\ Put(handlers[h].op, Claimed(handlers[h].tx)) /\ Goto(h, "sponsor")
  /\ UNCHANGED <<handoffs, relay>>

(* The primary key arbitrates between concurrent claims.                   *)
Create(h) ==
  /\ handlers[h].at = "create"
  /\ IF handlers[h].op \in DOMAIN operations
     THEN Goto(h, "refind") /\ UNCHANGED operations
     ELSE Put(handlers[h].op, Claimed(handlers[h].tx)) /\ Goto(h, "sponsor")
  /\ UNCHANGED <<handoffs, relay>>

FindAgain(h) ==
  /\ handlers[h].at = "refind"
  /\ IF handlers[h].op \in DOMAIN operations
     THEN RecoverExisting(h, operations[handlers[h].op])
     ELSE Throw(h)
  /\ UNCHANGED <<operations, handoffs, relay>>

(* No relayer client can be made: the key is not configured.               *)
NoClient(h) ==
  /\ handlers[h].at = "sponsor"
  /\ Goto(h, "unresolve")
  /\ UNCHANGED <<operations, handoffs, relay>>

HandOff(h) ==
  /\ handlers[h].at = "sponsor"
  /\ handoffs' = [handoffs EXCEPT ![handlers[h].op] =
       @ \cup {<<Cardinality(@) + 1, handlers[h].tx>>}]
  /\ Goto(h, "awaiting")
  /\ UNCHANGED <<operations, relay>>

(* Mutant of Sponsored: every error without an identity is a denial.       *)
SponsoredPessimist(h) ==
  /\ handlers[h].at = "awaiting"
  /\ \/ /\ relay[handlers[h].op] \in RelayStatus
        /\ handlers' = [handlers EXCEPT ![h].at = "save",
                                        ![h].answer = relay[handlers[h].op]]
     \/ relay[handlers[h].op] \in RelayStatus /\ Goto(h, "saveUnknown")
     \/ Goto(h, "deny")
  /\ UNCHANGED <<operations, handoffs, relay>>

(* The call returns a result, or throws: VeloGasSubmissionUnknownError     *)
(* carries the request's identity, a policy denial its code, and any other *)
(* error, the timeout included, says nothing of what the relayer did.      *)
Sponsored(h) ==
  /\ handlers[h].at = "awaiting"
  /\ \/ /\ relay[handlers[h].op] \in RelayStatus
        /\ handlers' = [handlers EXCEPT ![h].at = "save",
                                        ![h].answer = relay[handlers[h].op]]
     \/ /\ relay[handlers[h].op] \in RelayStatus
        /\ Goto(h, "saveUnknown")
     \/ /\ relay[handlers[h].op] = "refused"
        /\ Goto(h, "deny")
     \/ Goto(h, "unresolve")
  /\ UNCHANGED <<operations, handoffs, relay>>

(* velo.getStatus after an unknown submission; its errors are swallowed.   *)
Observe(h) ==
  /\ handlers[h].at = "observe"
  /\ \/ handlers' = [handlers EXCEPT ![h].at = "saveObserved",
                                     ![h].answer = relay[handlers[h].op]]
     \/ Reply(h, handlers[h].stored)
  /\ UNCHANGED <<operations, handoffs, relay>>

(* Mutant of Look: an unknown submission is answered without observation.  *)
LookOnlySubmitted(h) ==
  /\ handlers[h].at = "look"
  /\ LET id == handlers[h].op
     IN  IF id \notin DOMAIN operations \/ SourceOf[operations[id].tx] # handlers[h].wallet
         THEN Throw(h)
         ELSE IF operations[id].status # "submitted" THEN Reply(h, operations[id].status)
         ELSE handlers' = [handlers EXCEPT ![h].at = "query",
                                           ![h].stored = operations[id].status]
  /\ UNCHANGED <<operations, handoffs, relay>>

(* getStatus: only the operation's own wallet learns of it.                *)
Look(h) ==
  /\ handlers[h].at = "look"
  /\ LET id == handlers[h].op
     IN  IF id \notin DOMAIN operations \/ SourceOf[operations[id].tx] # handlers[h].wallet
         THEN Throw(h)
         ELSE IF ~operations[id].identified THEN Reply(h, operations[id].status)
         ELSE handlers' = [handlers EXCEPT ![h].at = "query",
                                           ![h].stored = operations[id].status]
  /\ UNCHANGED <<operations, handoffs, relay>>

(* velo.getStatus answers; or velo.waitForResult gives up waiting; or the  *)
(* observation fails, which establishes nothing.                           *)
Observed(h) ==
  /\ handlers[h].at = "query"
  /\ handlers' = [handlers EXCEPT ![h].at = "saveStatus",
                                  ![h].answer = relay[handlers[h].op]]
  /\ UNCHANGED <<operations, handoffs, relay>>

Unobserved(h) ==
  /\ handlers[h].at = "query"
  /\ \/ handlers[h].observe /\ Goto(h, "saveWait")
     \/ Reply(h, handlers[h].stored)
  /\ UNCHANGED <<operations, handoffs, relay>>

(* store.update commits.  After an unknown submission the handler goes on  *)
(* to observe; everywhere else it answers with the updated record.         *)
Saved(h) ==
  LET id == handlers[h].op
  IN  /\ handlers[h].at \in {"save", "saveUnknown", "saveObserved", "unresolve",
                             "deny", "saveStatus", "saveWait"}
      /\ Put(id, Patched(h))
      /\ IF handlers[h].at = "saveUnknown"
         THEN handlers' = [handlers EXCEPT ![h].at = "observe",
                                           ![h].stored = "submission_unknown"]
         ELSE Reply(h, Patched(h).status)
      /\ UNCHANGED <<handoffs, relay>>

(* A call of the store is rejected, before or after its write committed.   *)
(* The update after a successful sponsorAndSubmit is inside the try: its   *)
(* rejection is taken for a failed submission.  The updates after an       *)
(* observation are swallowed; every other rejection ends the request.      *)
StoreFails(h) ==
  /\ \/ handlers[h].at \in {"find", "refind", "look"} /\ UNCHANGED operations
     \/ /\ handlers[h].at = "create"
        /\ \/ UNCHANGED operations
           \/ /\ handlers[h].op \notin DOMAIN operations
              /\ Put(handlers[h].op, Claimed(handlers[h].tx))
     \/ /\ handlers[h].at \in {"save", "saveUnknown", "saveObserved", "unresolve",
                               "deny", "saveStatus", "saveWait"}
        /\ UNCHANGED operations \/ Put(handlers[h].op, Patched(h))
  /\ CASE handlers[h].at = "save" -> Goto(h, "unresolve")
       [] handlers[h].at \in {"saveObserved", "saveStatus"} -> Reply(h, handlers[h].stored)
       [] OTHER -> Throw(h)
  /\ UNCHANGED <<handoffs, relay>>

(* Every request is lost; nothing is resumed at the next start.            *)
Crash ==
  /\ \E h \in Handlers : Working(h)
  /\ handlers' = [h \in Handlers |-> Blank]
  /\ UNCHANGED <<operations, handoffs, relay>>

(* The relayer: idempotent by operation id, its outcomes final.            *)
RelayReceives(id) ==
  /\ handoffs[id] # {}
  /\ relay[id] = "absent"
  /\ \E status \in {"claimed", "refused"} : relay' = [relay EXCEPT ![id] = status]
  /\ UNCHANGED <<operations, handlers, handoffs>>

RelayAdvances(id) ==
  /\ \/ /\ relay[id] = "claimed"
        /\ \E status \in {"submitted", "cancelled"} : relay' = [relay EXCEPT ![id] = status]
     \/ /\ relay[id] = "submitted"
        /\ \E status \in {"succeeded", "failed"} : relay' = [relay EXCEPT ![id] = status]
  /\ UNCHANGED <<operations, handlers, handoffs>>
-----------------------------------------------------------------------------
Arrival(h, id) ==
  \/ \E tx \in Transactions : SubmitRequest(h, id, tx)
  \/ \E w \in Wallets, observe \in BOOLEAN : StatusRequest(h, id, w, observe)

Progress(h) ==
  \/ Find(h) \/ Create(h) \/ FindAgain(h) \/ NoClient(h) \/ HandOff(h)
  \/ Sponsored(h) \/ Observe(h) \/ Look(h) \/ Observed(h) \/ Unobserved(h)
  \/ Saved(h) \/ StoreFails(h) \/ Done(h)

Next ==
  \/ \E h \in Handlers : Progress(h) \/ \E id \in OperationIds : Arrival(h, id)
  \/ \E id \in OperationIds : RelayReceives(id) \/ RelayAdvances(id)
  \/ Crash

Spec == Init /\ [][Next]_vars

(***************************************************************************)
(* Every await of a request settles one way or the other (the calls carry  *)
(* timeouts), clients read their answers, and the relayer settles what it  *)
(* accepted.  Calls that can fail for ever prove nothing, so a call tried  *)
(* again and again succeeds some time: strong fairness.  Nothing makes an  *)
(* owner ask: the recovery notice does so only when its button is pressed. *)
(***************************************************************************)
Asks(id) ==
  /\ id \in DOMAIN operations
  /\ \E h \in Handlers, observe \in BOOLEAN :
       StatusRequest(h, id, SourceOf[operations[id].tx], observe)

Identifies(h) == Look(h) /\ handlers'[h].at = "query"
SavesAnswer(h) == handlers[h].at = "saveStatus" /\ Saved(h)

Fairness ==
  /\ \A h \in Handlers : /\ WF_vars(Progress(h)) /\ SF_vars(Identifies(h))
                         /\ SF_vars(Observed(h)) /\ SF_vars(SavesAnswer(h))
  /\ \A id \in OperationIds : WF_vars(RelayAdvances(id))

LiveSpec == Spec /\ Fairness
-----------------------------------------------------------------------------
(* The table, the requests under way and the relayer stay well typed.      *)
GasTypeOK ==
  /\ DOMAIN operations \subseteq OperationIds
  /\ operations \in [DOMAIN operations -> Operation]
  /\ handlers \in [Handlers -> Request]
  /\ handoffs \in [OperationIds -> SUBSET (Nat \X Transactions)]
  /\ relay \in [OperationIds -> RelayStatus \cup {"absent", "refused"}]

(***************************************************************************)
(* A signed transaction reaches the relayer at most once, and only the one *)
(* the operation was claimed for: whatever requests run at the same time   *)
(* with the same operation id, whatever they lose in a crash, and whatever *)
(* the relayer answers (sponsorAndSubmit, recoverExisting).                *)
(***************************************************************************)
HandedOnce ==
  \A id \in OperationIds :
    handoffs[id] # {} => /\ id \in DOMAIN operations
                         /\ handoffs[id] = {<<1, operations[id].tx>>}

(* The same, as an implementation of what the service promises.            *)
H == INSTANCE OneHandoff WITH
       Nobody <- Nothing,
       claim  <- [id \in OperationIds |->
                    IF id \in DOMAIN operations THEN operations[id].tx ELSE Nothing],
       given  <- handoffs

ImplementsOneHandoff == H!HandoffSpec

(***************************************************************************)
(* The final statuses the service stores or answers are those of the       *)
(* relayer, and it answers the operation's own wallet only.  Errors of the *)
(* store, timeouts and late answers are all written to the same record,    *)
(* and none of them may pass for an outcome (README.md:715).               *)
(***************************************************************************)
IsTrue(status, id) ==
  /\ status \in Outcomes => relay[id] = status
  /\ status = "denied" => relay[id] = "refused"

OutcomesTrue ==
  /\ \A id \in DOMAIN operations : IsTrue(operations[id].status, id)
  /\ \A h \in Handlers :
       handlers[h].at = "replied" =>
         /\ IsTrue(handlers[h].answer, handlers[h].op)
         /\ SourceOf[operations[handlers[h].op].tx] = handlers[h].wallet

(***************************************************************************)
(* An operation whose relayer identity is stored settles, provided that    *)
(* its owner asks for it again and again: its outcome gets to the table    *)
(* although late answers may overwrite it in between.  Nobody else looks:  *)
(* without the owner's questions it may stay unsettled for ever            *)
(* (getOperation, gas-recovery-notice.tsx).                                *)
(***************************************************************************)
IdentifiedSettle ==
  \A id \in OperationIds :
    []<><<Asks(id)>>_vars =>
      (id \in DOMAIN operations /\ operations[id].identified)
        ~> (id \in DOMAIN operations /\ operations[id].status \in Outcomes)
=============================================================================
