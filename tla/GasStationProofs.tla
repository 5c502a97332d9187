-------------------------- MODULE GasStationProofs --------------------------
(* What module GasStation promises, for any number of operations,          *)
(* transactions, wallets and concurrent requests.                          *)
EXTENDS GasStation, FiniteSetTheorems, TLAPS

(***************************************************************************)
(* The inductive invariant.  Bound: the points of a request that works on  *)
(* an existing record of its own wallet.  Held: the relayer has accepted   *)
(* the operation.  A request about to hand over is the record's creator:   *)
(* there is one at most, and nothing was handed over before it.            *)
(***************************************************************************)
Submitting == {"find", "create", "refind", "sponsor"}
Bound == Points \ {"idle", "find", "create", "refind", "look"}
Held  == {"save", "saveUnknown", "observe", "saveObserved", "query", "saveStatus"}

Answers(r) ==
  /\ r.at \in {"save", "saveObserved", "saveStatus"} =>
       r.answer \in RelayStatus /\ IsTrue(r.answer, r.op)
  /\ r.at \in {"query", "saveStatus", "saveWait", "observe", "saveObserved"} =>
       r.stored \in StoredStatus /\ IsTrue(r.stored, r.op)
  /\ r.at = "replied" => IsTrue(r.answer, r.op)

RequestOK(r) ==
  /\ r.at # "idle" => r.op \in OperationIds /\ r.wallet \in Wallets
  /\ r.at \in Submitting => r.tx \in Transactions /\ r.wallet = SourceOf[r.tx]
  /\ r.at \in Bound =>
       r.op \in DOMAIN operations /\ SourceOf[operations[r.op].tx] = r.wallet
  /\ r.at \in Held => relay[r.op] \in RelayStatus
  /\ r.at = "deny" => relay[r.op] = "refused"
  /\ r.at = "sponsor" => operations[r.op].tx = r.tx /\ handoffs[r.op] = {}
  /\ Answers(r)

OneCreator ==
  \A h, k \in Handlers :
    handlers[h].at = "sponsor" /\ handlers[k].at = "sponsor"
      /\ handlers[h].op = handlers[k].op => h = k

RecordOK(id) ==
  /\ IsTrue(operations[id].status, id)
  /\ operations[id].identified => relay[id] \in RelayStatus

GasInv ==
  /\ GasTypeOK
  /\ HandedOnce
  /\ OneCreator
  /\ \A id \in DOMAIN operations : RecordOK(id)
  /\ \A h \in Handlers : RequestOK(handlers[h])
-----------------------------------------------------------------------------
(* What never goes back: a record's transaction, the relayer's acceptance, *)
(* its refusals and its outcomes.                                          *)
Advances ==
  /\ \A id \in DOMAIN operations :
       id \in DOMAIN operations' /\ operations'[id].tx = operations[id].tx
  /\ \A id \in OperationIds :
       /\ relay[id] \in RelayStatus => relay'[id] \in RelayStatus
       /\ relay[id] \in Outcomes \cup {"refused"} => relay'[id] = relay[id]

(* A request that does not move stays in order while the world advances.   *)
LEMMA OthersKept ==
  ASSUME NEW r \in Request, GasTypeOK, RequestOK(r), Advances,
         r.at = "sponsor" => handoffs'[r.op] = handoffs[r.op]
  PROVE  RequestOK(r)'
<1>1. r.at # "idle" => r.op \in OperationIds
  BY DEF RequestOK
<1>2. ASSUME NEW s, r.at # "idle", IsTrue(s, r.op)
      PROVE  IsTrue(s, r.op)'
  BY <1>1, <1>2 DEF IsTrue, Advances
<1>3. Answers(r)'
  BY <1>2 DEF RequestOK, Answers
<1>4. r.at \in Bound => r.op \in DOMAIN operations
  BY DEF RequestOK
<1>5. r.at = "sponsor" => r.at \in Bound
  BY DEF Bound, Points
<1>6. r.at \in Held => r.at # "idle"
  BY DEF Held
<1> QED
  BY <1>1, <1>3, <1>4, <1>5, <1>6 DEF RequestOK, Advances

(* A request that moves on its own, without entering the creator's point,  *)
(* keeps the invariant if it arrives in order.                             *)
LEMMA PrivateStep ==
  ASSUME GasInv, NEW h \in Handlers, NEW r \in Request,
         handlers' = [handlers EXCEPT ![h] = r],
         UNCHANGED <<operations, handoffs, relay>>,
         r.at # "sponsor", RequestOK(r)
  PROVE  GasInv'
<1>1. GasTypeOK'
  BY DEF GasInv, GasTypeOK
<1>2. HandedOnce' /\ \A id \in DOMAIN operations' : RecordOK(id)'
  BY DEF GasInv, HandedOnce, RecordOK, IsTrue
<1>3. \A k \in Handlers : handlers'[k] = IF k = h THEN r ELSE handlers[k]
  BY DEF GasInv, GasTypeOK
<1>4. OneCreator'
  BY <1>3 DEF GasInv, OneCreator
<1>5. ASSUME NEW s, RequestOK(s) PROVE RequestOK(s)'
  BY <1>5 DEF RequestOK, Answers, IsTrue
<1>6. \A k \in Handlers : RequestOK(handlers[k])'
  BY <1>3, <1>5 DEF GasInv, RequestOK, Answers, IsTrue
<1> QED
  BY <1>1, <1>2, <1>4, <1>6 DEF GasInv

(* The three ways a request moves: to another point, to an answer, to an   *)
(* error.                                                                  *)
LEMMA BlankOK == Blank \in Request /\ Blank.at = "idle" /\ RequestOK(Blank)
BY DEF Blank, Request, Points, RequestOK, Answers, Submitting, Bound, Held

LEMMA GotoStep ==
  ASSUME GasInv, NEW h \in Handlers, NEW p \in Points \ {"sponsor"}, Goto(h, p),
         UNCHANGED <<operations, handoffs, relay>>,
         RequestOK([handlers[h] EXCEPT !.at = p])
  PROVE  GasInv'
<1> DEFINE r == [handlers[h] EXCEPT !.at = p]
<1>1. handlers[h] \in Request
  BY DEF GasInv, GasTypeOK
<1>2. r \in Request /\ r.at # "sponsor"
  BY <1>1 DEF Request
<1>3. handlers' = [handlers EXCEPT ![h] = r]
  BY DEF Goto
<1> HIDE DEF r
<1> QED
  BY <1>2, <1>3, PrivateStep DEF r

(* The record an answer leaves behind, which is in order if it is true and *)
(* goes to the operation's own wallet.                                     *)
Answered(h, status) ==
  [Blank EXCEPT !.at = "replied", !.op = handlers[h].op, !.wallet = handlers[h].wallet,
                !.answer = Public(status)]

LEMMA AnsweredOK ==
  ASSUME NEW h \in Handlers, NEW status \in StoredStatus,
         handlers[h].op \in OperationIds, handlers[h].wallet \in Wallets,
         handlers[h].op \in DOMAIN operations,
         SourceOf[operations[handlers[h].op].tx] = handlers[h].wallet,
         IsTrue(status, handlers[h].op)
  PROVE  Answered(h, status) \in Request /\ Answered(h, status).at = "replied"
           /\ RequestOK(Answered(h, status))
<1> DEFINE r == Answered(h, status)
<1>1. /\ r.at = "replied" /\ r.op = handlers[h].op /\ r.wallet = handlers[h].wallet
      /\ r.answer = Public(status)
  BY DEF Answered, Blank
<1>2. Public(status) \in StoredStatus \cup {"pending"}
  BY DEF Public
<1>3. r \in Request
  BY <1>2 DEF Answered, Blank, Request, Points
<1>4. IsTrue(Public(status), handlers[h].op)
  BY DEF Public, IsTrue, Outcomes
<1> HIDE DEF r
<1>5. RequestOK(r)
  BY <1>1, <1>4 DEF RequestOK, Answers, Submitting, Bound, Held, Points
<1> QED
  BY <1>1, <1>3, <1>5 DEF r

LEMMA ReplyStep ==
  ASSUME GasInv, NEW h \in Handlers, NEW status \in StoredStatus, Reply(h, status),
         UNCHANGED <<operations, handoffs, relay>>,
         handlers[h].op \in OperationIds, handlers[h].wallet \in Wallets,
         handlers[h].op \in DOMAIN operations,
         SourceOf[operations[handlers[h].op].tx] = handlers[h].wallet,
         IsTrue(status, handlers[h].op)
  PROVE  GasInv'
<1>1. handlers' = [handlers EXCEPT ![h] = Answered(h, status)]
  BY DEF Reply, Answered
<1> QED
  BY <1>1, AnsweredOK, PrivateStep

LEMMA ThrowStep ==
  ASSUME GasInv, NEW h \in Handlers, Throw(h), UNCHANGED <<operations, handoffs, relay>>
  PROVE  GasInv'
BY BlankOK, PrivateStep DEF Throw
-----------------------------------------------------------------------------
(* What a request knows at each point, unfolded from the invariant.        *)
LEMMA Knows ==
  ASSUME GasInv, NEW h \in Handlers, handlers[h].at # "idle"
  PROVE  /\ handlers[h] \in Request
         /\ RequestOK(handlers[h])
         /\ handlers[h].op \in OperationIds
         /\ handlers[h].wallet \in Wallets
BY DEF GasInv, GasTypeOK, RequestOK

(* Requests arrive, and clients read answers.                              *)
LEMMA ArrivalKeeps ==
  ASSUME GasInv, NEW h \in Handlers, NEW id \in OperationIds, Arrival(h, id)
  PROVE  GasInv'
<1>1. ASSUME NEW tx \in Transactions, SubmitRequest(h, id, tx) PROVE GasInv'
  <2> DEFINE r == [Blank EXCEPT !.at = "find", !.op = id, !.tx = tx, !.wallet = SourceOf[tx]]
  <2>1. SourceOf[tx] \in Wallets
    BY GasAssumption
  <2>2. r \in Request
    BY <2>1 DEF Blank, Request, Points
  <2>3. r.at = "find" /\ r.op = id /\ r.tx = tx /\ r.wallet = SourceOf[tx]
    BY DEF Blank
  <2>4. handlers' = [handlers EXCEPT ![h] = r] /\ UNCHANGED <<operations, handoffs, relay>>
    BY <1>1 DEF SubmitRequest
  <2> HIDE DEF r
  <2>5. RequestOK(r)
    BY <2>1, <2>3 DEF RequestOK, Answers, Submitting, Bound, Held, Points
  <2> QED
    BY <2>2, <2>3, <2>4, <2>5, PrivateStep
<1>2. ASSUME NEW w \in Wallets, NEW observe \in BOOLEAN, StatusRequest(h, id, w, observe)
      PROVE  GasInv'
  <2> DEFINE r == [Blank EXCEPT !.at = "look", !.op = id, !.wallet = w, !.observe = observe]
  <2>1. r \in Request
    BY DEF Blank, Request, Points
  <2>2. r.at = "look" /\ r.op = id /\ r.wallet = w
    BY DEF Blank
  <2>3. handlers' = [handlers EXCEPT ![h] = r] /\ UNCHANGED <<operations, handoffs, relay>>
    BY <1>2 DEF StatusRequest
  <2> HIDE DEF r
  <2>4. RequestOK(r)
    BY <2>2 DEF RequestOK, Answers, Submitting, Bound, Held, Points
  <2> QED
    BY <2>1, <2>2, <2>3, <2>4, PrivateStep
<1> QED
  BY <1>1, <1>2 DEF Arrival

(* recoverExisting never leads back to a hand-off.                         *)
LEMMA RecoverKeeps ==
  ASSUME GasInv, NEW h \in Handlers, handlers[h].at \in {"find", "refind"},
         handlers[h].op \in DOMAIN operations,
         RecoverExisting(h, operations[handlers[h].op]),
         UNCHANGED <<operations, handoffs, relay>>
  PROVE  GasInv'
<1> DEFINE id == handlers[h].op
<1>1. /\ handlers[h] \in Request /\ id \in OperationIds /\ handlers[h].wallet \in Wallets
      /\ handlers[h].wallet = SourceOf[handlers[h].tx]
  BY Knows DEF RequestOK, Submitting
<1>2. operations[id] \in Operation /\ IsTrue(operations[id].status, id)
  BY DEF GasInv, GasTypeOK, RecordOK
<1>3. CASE Throw(h)
  BY <1>3, ThrowStep
<1>4. CASE operations[id].tx = handlers[h].tx /\ Goto(h, "look")
  <2>1. RequestOK([handlers[h] EXCEPT !.at = "look"])
    BY <1>1 DEF RequestOK, Answers, Submitting, Bound, Held, Points, Request
  <2> QED
    BY <1>4, <2>1, GotoStep DEF Points
<1>5. CASE operations[id].tx = handlers[h].tx /\ Reply(h, operations[id].status)
  BY <1>1, <1>2, <1>5, ReplyStep DEF Operation
<1> QED
  BY <1>3, <1>4, <1>5 DEF RecoverExisting

(* The points that read the table or wait for the relayer and write        *)
(* nothing but the request itself.                                         *)
LEMMA ReadingKeeps ==
  ASSUME GasInv, NEW h \in Handlers,
         \/ Find(h) \/ FindAgain(h) \/ NoClient(h) \/ Sponsored(h) \/ Observe(h)
         \/ Look(h) \/ Observed(h) \/ Unobserved(h) \/ Done(h)
  PROVE  GasInv'
<1> DEFINE id == handlers[h].op
<1>0. UNCHANGED <<operations, handoffs, relay>>
  BY DEF Find, FindAgain, NoClient, Sponsored, Observe, Look, Observed, Unobserved, Done
<1>1. handlers[h].at # "idle"
  BY DEF Find, FindAgain, NoClient, Sponsored, Observe, Look, Observed, Unobserved, Done
<1>2. /\ handlers[h] \in Request /\ RequestOK(handlers[h])
      /\ id \in OperationIds /\ handlers[h].wallet \in Wallets
  BY <1>1, Knows
<1>3. relay[id] \in RelayStatus => IsTrue(relay[id], id)
  BY DEF IsTrue, RelayStatus, Outcomes
<1>4. ASSUME NEW p \in Points \ {"sponsor"}, Goto(h, p),
             RequestOK([handlers[h] EXCEPT !.at = p])
      PROVE  GasInv'
  BY <1>0, <1>4, GotoStep
<1>5. ASSUME NEW p \in {"save", "saveObserved", "saveStatus"}, relay[id] \in RelayStatus,
             handlers[h].at \in Bound,
             p # "save" => handlers[h].stored \in StoredStatus /\ IsTrue(handlers[h].stored, id),
             handlers' = [handlers EXCEPT ![h].at = p, ![h].answer = relay[id]]
      PROVE  GasInv'
  <2> DEFINE r == [handlers[h] EXCEPT !.at = p, !.answer = relay[id]]
  <2>1. /\ r.at = p /\ r.op = id /\ r.wallet = handlers[h].wallet
        /\ r.stored = handlers[h].stored /\ r.answer = relay[id]
    BY <1>2 DEF Request
  <2>2. r \in Request /\ r.at # "sponsor"
    BY <1>2, <1>5 DEF Request, Points, StoredStatus
  <2>3. handlers' = [handlers EXCEPT ![h] = r]
    BY <1>5
  <2>4. id \in DOMAIN operations /\ SourceOf[operations[id].tx] = handlers[h].wallet
    BY <1>2, <1>5 DEF RequestOK
  <2> HIDE DEF r
  <2>5. RequestOK(r)
    BY <1>2, <1>3, <1>5, <2>1, <2>4 DEF RequestOK, Answers, Submitting, Bound, Held, Points
  <2> QED
    BY <1>0, <2>2, <2>3, <2>5, PrivateStep
<1>6. CASE Find(h) \/ FindAgain(h)
  <2>1. CASE id \in DOMAIN operations
    BY <1>0, <1>6, <2>1, RecoverKeeps DEF Find, FindAgain
  <2>2. CASE id \notin DOMAIN operations /\ Goto(h, "create")
    <3>1. RequestOK([handlers[h] EXCEPT !.at = "create"])
      BY <1>2, <1>6 DEF Find, FindAgain, RequestOK, Answers, Submitting, Bound, Held,
                        Points, Request
    <3> QED
      BY <1>4, <2>2, <3>1 DEF Points
  <2>3. CASE Throw(h)
    BY <1>0, <2>3, ThrowStep
  <2> QED
    BY <1>6, <2>1, <2>2, <2>3 DEF Find, FindAgain
<1>7. CASE NoClient(h)
  <2>1. RequestOK([handlers[h] EXCEPT !.at = "unresolve"])
    BY <1>2, <1>7 DEF NoClient, RequestOK, Answers, Submitting, Bound, Held, Points, Request
  <2> QED
    BY <1>4, <1>7, <2>1 DEF NoClient, Points
<1>8. CASE Sponsored(h)
  <2>1. handlers[h].at \in Bound
    BY <1>8 DEF Sponsored, Bound, Points
  <2>2. CASE /\ relay[id] \in RelayStatus
             /\ handlers' = [handlers EXCEPT ![h].at = "save", ![h].answer = relay[id]]
    BY <1>5, <2>1, <2>2
  <2>3. CASE relay[id] \in RelayStatus /\ Goto(h, "saveUnknown")
    <3>1. RequestOK([handlers[h] EXCEPT !.at = "saveUnknown"])
      BY <1>2, <2>1, <2>3 DEF RequestOK, Answers, Submitting, Bound, Held, Points, Request
    <3> QED
      BY <1>4, <2>3, <3>1 DEF Points
  <2>4. CASE relay[id] = "refused" /\ Goto(h, "deny")
    <3>1. RequestOK([handlers[h] EXCEPT !.at = "deny"])
      BY <1>2, <2>1, <2>4 DEF RequestOK, Answers, Submitting, Bound, Held, Points, Request
    <3> QED
      BY <1>4, <2>4, <3>1 DEF Points
  <2>5. CASE Goto(h, "unresolve")
    <3>1. RequestOK([handlers[h] EXCEPT !.at = "unresolve"])
      BY <1>2, <2>1, <2>5 DEF RequestOK, Answers, Submitting, Bound, Held, Points, Request
    <3> QED
      BY <1>4, <2>5, <3>1 DEF Points
  <2> QED
    BY <1>8, <2>2, <2>3, <2>4, <2>5 DEF Sponsored
<1>9. ASSUME handlers[h].at \in {"observe", "query"}
      PROVE  /\ relay[id] \in RelayStatus /\ handlers[h].at \in Bound
             /\ handlers[h].stored \in StoredStatus /\ IsTrue(handlers[h].stored, id)
             /\ id \in DOMAIN operations /\ SourceOf[operations[id].tx] = handlers[h].wallet
  BY <1>2, <1>9 DEF RequestOK, Answers, Held, Bound, Points
<1>10. CASE Observe(h)
  <2>1. CASE handlers' = [handlers EXCEPT ![h].at = "saveObserved", ![h].answer = relay[id]]
    BY <1>5, <1>9, <1>10, <2>1 DEF Observe
  <2>2. CASE Reply(h, handlers[h].stored)
    BY <1>0, <1>2, <1>9, <1>10, <2>2, ReplyStep DEF Observe
  <2> QED
    BY <1>10, <2>1, <2>2 DEF Observe
<1>11. CASE Look(h)
  <2>1. CASE Throw(h)
    BY <1>0, <2>1, ThrowStep
  <2> SUFFICES ASSUME id \in DOMAIN operations,
                      SourceOf[operations[id].tx] = handlers[h].wallet, ~Throw(h)
               PROVE  GasInv'
    BY <1>11, <2>1 DEF Look
  <2>2. operations[id] \in Operation /\ RecordOK(id)
    BY DEF GasInv, GasTypeOK
  <2>3. CASE ~operations[id].identified
    BY <1>0, <1>2, <1>11, <2>2, <2>3, ReplyStep DEF Look, Operation, RecordOK
  <2>4. CASE operations[id].identified
    <3> DEFINE r == [handlers[h] EXCEPT !.at = "query", !.stored = operations[id].status]
    <3>1. /\ r.at = "query" /\ r.op = id /\ r.wallet = handlers[h].wallet
          /\ r.stored = operations[id].status
      BY <1>2 DEF Request
    <3>2. r \in Request
      BY <1>2, <2>2 DEF Request, Points, Operation
    <3>3. handlers' = [handlers EXCEPT ![h] = r]
      BY <1>11, <2>4 DEF Look
    <3>4. /\ relay[id] \in RelayStatus
          /\ operations[id].status \in StoredStatus /\ IsTrue(operations[id].status, id)
      BY <2>2, <2>4 DEF RecordOK, Operation
    <3> HIDE DEF r
    <3>5. RequestOK(r)
      BY <1>2, <3>1, <3>4 DEF RequestOK, Answers, Submitting, Bound, Held, Points
    <3> QED
      BY <1>0, <3>1, <3>2, <3>3, <3>5, PrivateStep
  <2> QED
    BY <2>3, <2>4
<1>12. CASE Observed(h)
  BY <1>5, <1>9, <1>12 DEF Observed
<1>13. CASE Unobserved(h)
  <2>1. CASE Goto(h, "saveWait")
    <3>1. RequestOK([handlers[h] EXCEPT !.at = "saveWait"])
      BY <1>2, <1>9, <1>13 DEF Unobserved, RequestOK, Answers, Submitting, Bound, Held,
                               Points, Request
    <3> QED
      BY <1>4, <2>1, <3>1 DEF Points
  <2>2. CASE Reply(h, handlers[h].stored)
    BY <1>0, <1>2, <1>9, <1>13, <2>2, ReplyStep DEF Unobserved
  <2> QED
    BY <1>13, <2>1, <2>2 DEF Unobserved
<1>14. CASE Done(h)
  BY <1>0, <1>14, ThrowStep DEF Done
<1> QED
  BY <1>6, <1>7, <1>8, <1>10, <1>11, <1>12, <1>13, <1>14
-----------------------------------------------------------------------------
Writes == {"save", "saveUnknown", "saveObserved", "unresolve", "deny", "saveStatus", "saveWait"}

(* An update of an existing record keeps what the record is claimed for.   *)
LEMMA UpdateStep ==
  ASSUME GasInv, NEW h \in Handlers, NEW r \in Request, r.at # "sponsor", RequestOK(r),
         handlers' = [handlers EXCEPT ![h] = r],
         NEW id \in DOMAIN operations, NEW o \in Operation, Put(id, o),
         o.tx = operations[id].tx, IsTrue(o.status, id),
         o.identified => relay[id] \in RelayStatus,
         UNCHANGED <<handoffs, relay>>
  PROVE  GasInv'
<1>1. /\ DOMAIN operations' = DOMAIN operations
      /\ \A x \in DOMAIN operations : operations'[x] = IF x = id THEN o ELSE operations[x]
  BY DEF Put
<1>2. Advances
  BY <1>1 DEF Advances
<1>3. GasTypeOK'
  <2>1. operations' \in [DOMAIN operations' -> Operation]
    BY DEF Put, GasInv, GasTypeOK
  <2> QED
    BY <1>1, <2>1 DEF GasInv, GasTypeOK
<1>4. HandedOnce'
  BY <1>1 DEF GasInv, HandedOnce
<1>5. \A x \in DOMAIN operations' : RecordOK(x)'
  BY <1>1 DEF GasInv, RecordOK, IsTrue
<1>6. \A k \in Handlers : handlers'[k] = IF k = h THEN r ELSE handlers[k]
  BY DEF GasInv, GasTypeOK
<1>7. OneCreator'
  BY <1>6 DEF GasInv, OneCreator
<1>8. \A k \in Handlers : handlers[k] \in Request /\ RequestOK(handlers[k])
  BY DEF GasInv, GasTypeOK
<1>9. \A s \in Request : RequestOK(s) => RequestOK(s)'
  BY <1>2, OthersKept DEF GasInv
<1>10. ASSUME NEW k \in Handlers PROVE RequestOK(handlers[k])'
  <2>1. CASE k = h
    <3>1. RequestOK(r)'
      BY <1>9
    <3> QED
      BY <1>6, <2>1, <3>1 DEF RequestOK, Answers, IsTrue
  <2>2. CASE k # h
    <3> DEFINE s == handlers[k]
    <3>1. PICK t : t = s
      OBVIOUS
    <3>2. RequestOK(t)'
      BY <1>8, <1>9, <3>1
    <3> QED
      BY <1>6, <2>2, <3>1, <3>2 DEF RequestOK, Answers, IsTrue
  <2> QED
    BY <2>1, <2>2
<1> QED
  BY <1>3, <1>4, <1>5, <1>7, <1>10 DEF GasInv

(* What a request is about to write is a true record of the same           *)
(* transaction.                                                            *)
LEMMA PatchedOK ==
  ASSUME GasInv, NEW h \in Handlers, handlers[h].at \in Writes
  PROVE  LET id == handlers[h].op
         IN  /\ id \in DOMAIN operations
             /\ SourceOf[operations[id].tx] = handlers[h].wallet
             /\ Patched(h) \in Operation
             /\ Patched(h).tx = operations[id].tx
             /\ IsTrue(Patched(h).status, id)
             /\ Patched(h).identified => relay[id] \in RelayStatus
             /\ Patched(h).status \in StoredStatus
<1> DEFINE id == handlers[h].op
           o  == operations[id]
<1>1. handlers[h].at \in Bound
  BY DEF Writes, Bound, Points
<1>2. RequestOK(handlers[h])
  BY DEF GasInv
<1>3. id \in DOMAIN operations /\ SourceOf[operations[id].tx] = handlers[h].wallet
  BY <1>1, <1>2 DEF RequestOK
<1>4. /\ o \in Operation /\ RecordOK(id)
      /\ o = [tx |-> o.tx, identified |-> o.identified, status |-> o.status]
  BY <1>3 DEF GasInv, GasTypeOK, Operation
<1>5. CASE handlers[h].at \in {"save", "saveObserved", "saveStatus"}
  <2>1. handlers[h].answer \in RelayStatus /\ IsTrue(handlers[h].answer, id)
        /\ relay[id] \in RelayStatus
    BY <1>2, <1>5 DEF RequestOK, Answers, Held
  <2>2. Patched(h) = [o EXCEPT !.identified = TRUE, !.status = handlers[h].answer]
    BY <1>5 DEF Patched
  <2> QED
    BY <1>3, <1>4, <2>1, <2>2 DEF Operation, StoredStatus
<1>6. CASE handlers[h].at = "saveUnknown"
  <2>1. relay[id] \in RelayStatus
    BY <1>2, <1>6 DEF RequestOK, Held
  <2>2. Patched(h) = [o EXCEPT !.identified = TRUE, !.status = "submission_unknown"]
    BY <1>6 DEF Patched
  <2> QED
    BY <1>3, <1>4, <2>1, <2>2 DEF Operation, StoredStatus, IsTrue, Outcomes
<1>7. CASE handlers[h].at \in {"saveWait", "unresolve"}
  <2>1. PICK s \in {"submission_unknown", "unresolved"} : Patched(h) = [o EXCEPT !.status = s]
    BY <1>7 DEF Patched
  <2> QED
    BY <1>3, <1>4, <2>1 DEF Operation, StoredStatus, IsTrue, Outcomes, RecordOK
<1>8. CASE handlers[h].at = "deny"
  <2>1. relay[id] = "refused"
    BY <1>2, <1>8 DEF RequestOK
  <2>2. Patched(h) = [o EXCEPT !.status = "denied"]
    BY <1>8 DEF Patched
  <2> QED
    BY <1>3, <1>4, <2>1, <2>2 DEF Operation, StoredStatus, IsTrue, Outcomes, RecordOK
<1> QED
  BY <1>5, <1>6, <1>7, <1>8 DEF Writes

(* A request that could create the record did: nothing was handed over     *)
(* before, and nobody else is about to hand over.                          *)
LEMMA ClaimStep ==
  ASSUME GasInv, NEW h \in Handlers, handlers[h].at = "create",
         handlers[h].op \notin DOMAIN operations,
         Put(handlers[h].op, Claimed(handlers[h].tx)),
         Goto(h, "sponsor") \/ Throw(h), UNCHANGED <<handoffs, relay>>
  PROVE  GasInv'
<1>1. PICK id \in OperationIds : id = handlers[h].op
  BY Knows
<1>2. /\ handlers[h] \in Request /\ RequestOK(handlers[h])
      /\ handlers[h].tx \in Transactions /\ handlers[h].wallet = SourceOf[handlers[h].tx]
      /\ handlers[h].wallet \in Wallets
  BY Knows DEF RequestOK, Submitting
<1>3. PICK r \in Request :
        /\ handlers' = [handlers EXCEPT ![h] = r]
        /\ \/ r = Blank
           \/ /\ r.at = "sponsor" /\ r.op = id /\ r.tx = handlers[h].tx
              /\ r.wallet = handlers[h].wallet
  <2>1. CASE Goto(h, "sponsor")
    <3>1. [handlers[h] EXCEPT !.at = "sponsor"] \in Request
      BY <1>2 DEF Request, Points
    <3>2. handlers' = [handlers EXCEPT ![h] = [handlers[h] EXCEPT !.at = "sponsor"]]
      BY <2>1 DEF Goto
    <3>3. /\ [handlers[h] EXCEPT !.at = "sponsor"].at = "sponsor"
          /\ [handlers[h] EXCEPT !.at = "sponsor"].op = id
          /\ [handlers[h] EXCEPT !.at = "sponsor"].tx = handlers[h].tx
          /\ [handlers[h] EXCEPT !.at = "sponsor"].wallet = handlers[h].wallet
      BY <1>1, <1>2 DEF Request
    <3> QED
      BY <3>1, <3>2, <3>3
  <2>2. CASE Throw(h)
    BY <2>2, BlankOK DEF Throw
  <2> QED
    BY <2>1, <2>2
<1>4. PICK tx \in Transactions : tx = handlers[h].tx
  BY <1>2
<1>5. /\ DOMAIN operations' = DOMAIN operations \cup {id}
      /\ \A x \in DOMAIN operations : operations'[x] = operations[x]
      /\ operations'[id] = Claimed(tx)
  BY <1>1, <1>4 DEF Put
<1>6. Advances
  BY <1>1, <1>5 DEF Advances
<1>7. handoffs[id] = {}
  BY <1>1 DEF GasInv, HandedOnce
<1>8. Claimed(tx) \in Operation /\ Claimed(tx).tx = tx /\ ~Claimed(tx).identified
        /\ Claimed(tx).status = "claimed"
  BY DEF Claimed, Operation, StoredStatus, RelayStatus
<1>9. GasTypeOK'
  <2>1. operations' = [x \in DOMAIN operations' |-> IF x = id THEN Claimed(tx) ELSE operations[x]]
    BY <1>1, <1>4, <1>5 DEF Put
  <2>2. operations' \in [DOMAIN operations' -> Operation]
    BY <1>5, <1>8, <2>1 DEF GasInv, GasTypeOK
  <2> QED
    BY <1>3, <1>5, <2>2 DEF GasInv, GasTypeOK
<1>10. HandedOnce'
  BY <1>1, <1>5 DEF GasInv, HandedOnce
<1>11. \A x \in DOMAIN operations' : RecordOK(x)'
  BY <1>1, <1>5, <1>8 DEF GasInv, RecordOK, IsTrue, Outcomes
<1>12. \A k \in Handlers : handlers'[k] = IF k = h THEN r ELSE handlers[k]
  BY <1>3 DEF GasInv, GasTypeOK
<1>13. \A k \in Handlers : handlers[k].at = "sponsor" => handlers[k].op \in DOMAIN operations
  BY DEF GasInv, RequestOK, Bound, Points
<1>14. OneCreator'
  BY <1>1, <1>3, <1>12, <1>13, BlankOK DEF GasInv, OneCreator
<1>15. RequestOK(r)'
  <2>1. CASE r = Blank
    BY <2>1 DEF Blank, Points, RequestOK, Answers, Submitting, Bound, Held
  <2>2. CASE r # Blank
    BY <1>2, <1>3, <1>4, <1>5, <1>7, <1>8, <2>2
       DEF RequestOK, Answers, Submitting, Bound, Held, Points
  <2> QED
    BY <2>1, <2>2
<1>16. ASSUME NEW k \in Handlers PROVE RequestOK(handlers[k])'
  <2>1. CASE k = h
    BY <1>12, <1>15, <2>1 DEF RequestOK, Answers, IsTrue
  <2>2. CASE k # h
    <3>1. PICK t \in Request : t = handlers[k]
      BY DEF GasInv, GasTypeOK
    <3>2. RequestOK(t)'
      BY <1>6, <3>1, OthersKept DEF GasInv
    <3> QED
      BY <1>12, <2>2, <3>1, <3>2 DEF RequestOK, Answers, IsTrue
  <2> QED
    BY <2>1, <2>2
<1> QED
  BY <1>9, <1>10, <1>11, <1>14, <1>16 DEF GasInv

(* The hand-off itself: the creator leaves its point, so nobody is left to *)
(* hand over the same operation.                                           *)
LEMMA HandOffStep ==
  ASSUME GasInv, NEW h \in Handlers, HandOff(h)
  PROVE  GasInv'
<1>1. PICK id \in OperationIds : id = handlers[h].op
  BY Knows DEF HandOff
<1>2. PICK tx \in Transactions : tx = handlers[h].tx
  BY Knows DEF HandOff, RequestOK, Submitting
<1>3. /\ handlers[h] \in Request /\ RequestOK(handlers[h])
      /\ id \in DOMAIN operations /\ SourceOf[operations[id].tx] = handlers[h].wallet
      /\ operations[id].tx = tx /\ handoffs[id] = {}
  BY <1>1, <1>2, Knows DEF HandOff, RequestOK, Bound, Points
<1>4. handoffs' = [handoffs EXCEPT ![id] = {<<1, tx>>}]
  <2>1. handoffs' = [handoffs EXCEPT ![id] = handoffs[id] \cup {<<Cardinality(handoffs[id]) + 1, tx>>}]
    BY <1>1, <1>2 DEF HandOff
  <2>2. Cardinality(handoffs[id]) + 1 = 1
    BY <1>3, FS_EmptySet
  <2> QED
    BY <1>3, <2>1, <2>2
<1>5. UNCHANGED <<operations, relay>>
  BY DEF HandOff
<1> DEFINE r == [handlers[h] EXCEPT !.at = "awaiting"]
<1>6. r \in Request /\ r.at = "awaiting" /\ r.op = id /\ r.wallet = handlers[h].wallet
  BY <1>1, <1>3 DEF Request, Points
<1>7. handlers' = [handlers EXCEPT ![h] = r]
  BY DEF HandOff, Goto
<1> HIDE DEF r
<1>8. \A k \in Handlers : handlers'[k] = IF k = h THEN r ELSE handlers[k]
  BY <1>7 DEF GasInv, GasTypeOK
<1>9. GasTypeOK'
  BY <1>4, <1>5, <1>6, <1>7 DEF GasInv, GasTypeOK
<1>10. HandedOnce'
  BY <1>3, <1>4, <1>5 DEF GasInv, HandedOnce, GasTypeOK
<1>11. OneCreator'
  BY <1>6, <1>8 DEF GasInv, OneCreator
<1>12. \A x \in DOMAIN operations' : RecordOK(x)'
  BY <1>5 DEF GasInv, RecordOK, IsTrue
<1>13. ASSUME NEW k \in Handlers PROVE RequestOK(handlers[k])'
  <2>1. CASE k = h
    BY <1>1, <1>3, <1>5, <1>6, <1>8, <2>1, Knows
       DEF HandOff, RequestOK, Answers, Submitting, Bound, Held, Points
  <2>2. CASE k # h
    <3>1. handlers[k].at = "sponsor" => handlers[k].op # id
      BY <1>1, <2>2 DEF HandOff, GasInv, OneCreator
    <3>2. RequestOK(handlers[k])
      BY DEF GasInv
    <3> QED
      BY <1>4, <1>5, <1>8, <2>2, <3>1, <3>2
         DEF RequestOK, Answers, IsTrue, GasInv, GasTypeOK
  <2> QED
    BY <2>1, <2>2
<1> QED
  BY <1>9, <1>10, <1>11, <1>12, <1>13 DEF GasInv

(* Writing to an existing record, and failing to.                          *)
LEMMA WritingKeeps ==
  ASSUME GasInv, NEW h \in Handlers, Create(h) \/ Saved(h) \/ StoreFails(h)
  PROVE  GasInv'
<1> DEFINE id == handlers[h].op
<1>1. handlers[h].at # "idle" /\ UNCHANGED <<handoffs, relay>>
  BY DEF Create, Saved, StoreFails
<1>2. /\ handlers[h] \in Request /\ RequestOK(handlers[h])
      /\ id \in OperationIds /\ handlers[h].wallet \in Wallets
  BY <1>1, Knows
<1>3. CASE Create(h)
  <2>1. CASE id \in DOMAIN operations
    <3>1. RequestOK([handlers[h] EXCEPT !.at = "refind"])
      BY <1>2, <1>3 DEF Create, RequestOK, Answers, Submitting, Bound, Held, Points, Request
    <3> QED
      BY <1>1, <1>3, <2>1, <3>1, GotoStep DEF Create, Points
  <2>2. CASE id \notin DOMAIN operations
    BY <1>1, <1>3, <2>2, ClaimStep DEF Create
  <2> QED
    BY <2>1, <2>2
<1>4. ASSUME handlers[h].at \in Writes, NEW r \in Request, r.at # "sponsor", RequestOK(r),
             handlers' = [handlers EXCEPT ![h] = r],
             UNCHANGED operations \/ Put(id, Patched(h))
      PROVE  GasInv'
  BY <1>1, <1>4, PatchedOK, PrivateStep, UpdateStep
<1>5. CASE Saved(h)
  <2>1. handlers[h].at \in Writes
    BY <1>5 DEF Saved, Writes
  <2>2. CASE handlers[h].at = "saveUnknown"
    <3> DEFINE r == [handlers[h] EXCEPT !.at = "observe", !.stored = "submission_unknown"]
    <3>1. r \in Request /\ r.at = "observe" /\ r.op = id /\ r.wallet = handlers[h].wallet
            /\ r.stored = "submission_unknown"
      BY <1>2 DEF Request, Points, StoredStatus
    <3>2. handlers' = [handlers EXCEPT ![h] = r]
      BY <1>5, <2>2 DEF Saved
    <3> HIDE DEF r
    <3>3. RequestOK(r)
      BY <1>2, <2>2, <3>1 DEF RequestOK, Answers, Submitting, Bound, Held, Points,
                              StoredStatus, IsTrue, Outcomes
    <3> QED
      BY <1>4, <1>5, <2>1, <3>1, <3>2, <3>3 DEF Saved
  <2>3. CASE handlers[h].at # "saveUnknown"
    <3>1. handlers' = [handlers EXCEPT ![h] = Answered(h, Patched(h).status)]
      BY <1>5, <2>3 DEF Saved, Reply, Answered
    <3> QED
      BY <1>2, <1>4, <1>5, <2>1, <3>1, PatchedOK, AnsweredOK DEF Saved
  <2> QED
    BY <2>2, <2>3
<1>6. CASE StoreFails(h)
  <2>1. CASE handlers[h].at \in {"find", "refind", "look"}
    <3>1. Throw(h) /\ UNCHANGED operations
      BY <1>6, <2>1 DEF StoreFails
    <3> QED
      BY <1>1, <3>1, ThrowStep
  <2>2. CASE handlers[h].at = "create"
    <3>1. Throw(h)
      BY <1>6, <2>2 DEF StoreFails
    <3>2. CASE UNCHANGED operations
      BY <1>1, <3>1, <3>2, ThrowStep
    <3>3. CASE id \notin DOMAIN operations /\ Put(id, Claimed(handlers[h].tx))
      BY <1>1, <2>2, <3>1, <3>3, ClaimStep
    <3> QED
      BY <1>6, <2>2, <3>2, <3>3 DEF StoreFails
  <2>3. CASE handlers[h].at \in Writes
    <3>1. UNCHANGED operations \/ Put(id, Patched(h))
      BY <1>6, <2>3 DEF StoreFails, Writes
    <3>2. CASE handlers[h].at = "save"
      <4> DEFINE r == [handlers[h] EXCEPT !.at = "unresolve"]
      <4>1. r \in Request /\ r.at = "unresolve" /\ r.op = id /\ r.wallet = handlers[h].wallet
        BY <1>2 DEF Request, Points
      <4>2. handlers' = [handlers EXCEPT ![h] = r]
        BY <1>6, <3>2 DEF StoreFails, Goto
      <4> HIDE DEF r
      <4>3. RequestOK(r)
        BY <1>2, <3>2, <4>1 DEF RequestOK, Answers, Submitting, Bound, Held, Points
      <4> QED
        BY <1>4, <2>3, <3>1, <4>1, <4>2, <4>3
    <3>3. CASE handlers[h].at \in {"saveObserved", "saveStatus"}
      <4>1. handlers' = [handlers EXCEPT ![h] = Answered(h, handlers[h].stored)]
        BY <1>6, <3>3 DEF StoreFails, Reply, Answered
      <4>2. handlers[h].stored \in StoredStatus /\ IsTrue(handlers[h].stored, id)
        BY <1>2, <3>3 DEF RequestOK, Answers
      <4> QED
        BY <1>2, <1>4, <2>3, <3>1, <4>1, <4>2, PatchedOK, AnsweredOK
    <3>4. CASE handlers[h].at \notin {"save", "saveObserved", "saveStatus"}
      <4>1. handlers' = [handlers EXCEPT ![h] = Blank]
        BY <1>6, <2>3, <3>4 DEF StoreFails, Throw, Writes
      <4> QED
        BY <1>4, <2>3, <3>1, <4>1, BlankOK
    <3> QED
      BY <3>2, <3>3, <3>4
  <2> QED
    BY <1>6, <2>1, <2>2, <2>3 DEF StoreFails, Writes
<1> QED
  BY <1>3, <1>5, <1>6

(* A crash forgets requests and nothing else.                              *)
LEMMA CrashKeeps ==
  ASSUME GasInv, Crash
  PROVE  GasInv'
<1>1. \A k \in Handlers : handlers'[k] = Blank
  BY DEF Crash
<1>2. GasTypeOK'
  BY BlankOK DEF Crash, GasInv, GasTypeOK
<1>3. HandedOnce' /\ \A id \in DOMAIN operations' : RecordOK(id)'
  BY DEF Crash, GasInv, HandedOnce, RecordOK, IsTrue
<1>4. OneCreator'
  BY <1>1, BlankOK DEF OneCreator
<1>5. \A k \in Handlers : RequestOK(handlers[k])'
  BY <1>1 DEF Blank, Points, RequestOK, Answers, Submitting, Bound, Held
<1> QED
  BY <1>2, <1>3, <1>4, <1>5 DEF GasInv

(* The relayer moves from absent to a refusal or an acceptance and from    *)
(* there to an outcome, never back.                                        *)
LEMMA RelayKeeps ==
  ASSUME GasInv, NEW id \in OperationIds, RelayReceives(id) \/ RelayAdvances(id)
  PROVE  GasInv'
<1>1. UNCHANGED <<operations, handlers, handoffs>>
  BY DEF RelayReceives, RelayAdvances
<1>2. PICK status \in RelayStatus \cup {"refused"} :
        /\ relay' = [relay EXCEPT ![id] = status]
        /\ relay[id] \notin Outcomes \cup {"refused"}
        /\ relay[id] \in RelayStatus => status \in RelayStatus
  BY DEF RelayReceives, RelayAdvances, RelayStatus, Outcomes
<1>3. Advances
  BY <1>1, <1>2 DEF Advances, GasInv, GasTypeOK
<1>4. GasTypeOK'
  BY <1>1, <1>2 DEF GasInv, GasTypeOK
<1>5. HandedOnce' /\ OneCreator'
  BY <1>1 DEF GasInv, HandedOnce, OneCreator
<1>6. ASSUME NEW x \in DOMAIN operations' PROVE RecordOK(x)'
  <2>1. x \in OperationIds /\ RecordOK(x)
    BY <1>1 DEF GasInv, GasTypeOK
  <2> QED
    BY <1>1, <1>3, <2>1 DEF RecordOK, IsTrue, Advances
<1>7. ASSUME NEW k \in Handlers PROVE RequestOK(handlers[k])'
  <2>1. PICK t \in Request : t = handlers[k]
    BY DEF GasInv, GasTypeOK
  <2>2. RequestOK(t)'
    BY <1>1, <1>3, <2>1, OthersKept DEF GasInv
  <2> QED
    BY <1>1, <2>1, <2>2 DEF RequestOK, Answers, IsTrue
<1> QED
  BY <1>4, <1>5, <1>6, <1>7 DEF GasInv

(* The empty table satisfies the invariant. *)
LEMMA GasInvInit == Init => GasInv
BY BlankOK DEF Init, GasInv, GasTypeOK, HandedOnce, OneCreator

(* Every step keeps the invariant.                                         *)
LEMMA GasInvStep == GasInv /\ [Next]_vars => GasInv'
<1> SUFFICES ASSUME GasInv, [Next]_vars PROVE GasInv'
  OBVIOUS
<1>1. ASSUME NEW h \in Handlers, Progress(h) PROVE GasInv'
  <2>1. CASE HandOff(h)
    BY <2>1, HandOffStep
  <2>2. CASE Create(h) \/ Saved(h) \/ StoreFails(h)
    BY <2>2, WritingKeeps
  <2>3. CASE \/ Find(h) \/ FindAgain(h) \/ NoClient(h) \/ Sponsored(h) \/ Observe(h)
             \/ Look(h) \/ Observed(h) \/ Unobserved(h) \/ Done(h)
    BY <2>3, ReadingKeeps
  <2> QED
    BY <1>1, <2>1, <2>2, <2>3 DEF Progress
<1>2. CASE UNCHANGED vars
  BY <1>2 DEF vars, GasInv, GasTypeOK, HandedOnce, OneCreator, RecordOK, RequestOK,
              Answers, IsTrue
<1> QED
  BY <1>1, <1>2, ArrivalKeeps, RelayKeeps, CrashKeeps DEF Next
-----------------------------------------------------------------------------
(* The invariant holds throughout.                                         *)
LEMMA GasInvAlways == Spec => []GasInv
BY GasInvInit, GasInvStep, PTL DEF Spec

(* The table, the requests and the relayer are always well typed.          *)
THEOREM GasTypeCorrect == Spec => []GasTypeOK
<1>1. GasInv => GasTypeOK
  BY DEF GasInv
<1> QED
  BY <1>1, GasInvAlways, PTL

(* A signed transaction is handed to the relayer at most once, and only    *)
(* the one its operation was claimed for.                                  *)
THEOREM AlwaysHandedOnce == Spec => []HandedOnce
<1>1. GasInv => HandedOnce
  BY DEF GasInv
<1> QED
  BY <1>1, GasInvAlways, PTL

(* No error, timeout or late answer is stored or told as an outcome, and   *)
(* an answer goes to the wallet that signed the operation's transaction.   *)
THEOREM OutcomesAlwaysTrue == Spec => []OutcomesTrue
<1>1. GasInv => OutcomesTrue
  <2> SUFFICES ASSUME GasInv PROVE OutcomesTrue
    OBVIOUS
  <2>1. \A id \in DOMAIN operations : IsTrue(operations[id].status, id)
    BY DEF GasInv, RecordOK
  <2>2. ASSUME NEW h \in Handlers, handlers[h].at = "replied"
        PROVE  /\ IsTrue(handlers[h].answer, handlers[h].op)
               /\ SourceOf[operations[handlers[h].op].tx] = handlers[h].wallet
    BY <2>2 DEF GasInv, RequestOK, Answers, Bound, Points
  <2> QED
    BY <2>1, <2>2 DEF OutcomesTrue
<1> QED
  BY <1>1, GasInvAlways, PTL

(* A step that does not hand over leaves what was handed over alone.       *)
LEMMA OnlyHandOff ==
  ASSUME GasInv, [Next]_vars, \A h \in Handlers : ~HandOff(h)
  PROVE  UNCHANGED handoffs
BY DEF Next, vars, Progress, Arrival, SubmitRequest, StatusRequest, Find, Create, FindAgain,
       NoClient, Sponsored, Observe, Look, Observed, Unobserved, Saved, StoreFails, Done,
       RelayReceives, RelayAdvances, Crash

(* A step claims one operation that was free, or rewrites records without  *)
(* touching what they are claimed for, or leaves the table alone.          *)
LEMMA TableSteps ==
  ASSUME GasInv, [Next]_vars
  PROVE  \/ \E id \in OperationIds, tx \in Transactions :
              id \notin DOMAIN operations /\ Put(id, Claimed(tx)) /\ UNCHANGED handoffs
         \/ /\ DOMAIN operations' = DOMAIN operations
            /\ \A id \in DOMAIN operations : operations'[id].tx = operations[id].tx
<1>1. ASSUME NEW h \in Handlers, handlers[h].at = "create",
             handlers[h].op \notin DOMAIN operations,
             Put(handlers[h].op, Claimed(handlers[h].tx)), UNCHANGED handoffs
      PROVE  \E id \in OperationIds, tx \in Transactions :
               id \notin DOMAIN operations /\ Put(id, Claimed(tx)) /\ UNCHANGED handoffs
  <2>1. handlers[h].op \in OperationIds /\ handlers[h].tx \in Transactions
    BY <1>1, Knows DEF RequestOK, Submitting
  <2> QED
    BY <1>1, <2>1
<1>2. ASSUME NEW h \in Handlers, handlers[h].at \in Writes, Put(handlers[h].op, Patched(h))
      PROVE  /\ DOMAIN operations' = DOMAIN operations
             /\ \A id \in DOMAIN operations : operations'[id].tx = operations[id].tx
  BY <1>2, PatchedOK DEF Put
<1>3. CASE \E h \in Handlers : Create(h)
  BY <1>1, <1>3 DEF Create
<1>4. CASE \E h \in Handlers : Saved(h)
  BY <1>2, <1>4 DEF Saved, Writes
<1>5. CASE \E h \in Handlers : StoreFails(h)
  BY <1>1, <1>2, <1>5 DEF StoreFails, Writes
<1>6. CASE UNCHANGED operations
  BY <1>6
<1> QED
  BY <1>3, <1>4, <1>5, <1>6
     DEF Next, vars, Progress, Arrival, SubmitRequest, StatusRequest, Find, FindAgain,
         NoClient, HandOff, Sponsored, Observe, Look, Observed, Unobserved, Done,
         RelayReceives, RelayAdvances, Crash

(* The service implements its promise: one claim per operation, for ever,  *)
(* and one hand-off per claim.                                             *)
THEOREM ServiceImplementsOneHandoff == Spec => ImplementsOneHandoff
<1> DEFINE claim == [id \in OperationIds |->
                       IF id \in DOMAIN operations THEN operations[id].tx ELSE Nothing]
<1>1. Init => H!HandoffInit
  BY DEF Init, H!HandoffInit
<1>2. GasInv /\ [Next]_vars => [H!HandoffNext]_(H!handoffVars)
  <2> SUFFICES ASSUME GasInv, [Next]_vars PROVE [H!HandoffNext]_(H!handoffVars)
    OBVIOUS
  <2>1. ASSUME NEW id \in OperationIds, NEW tx \in Transactions,
               id \notin DOMAIN operations, Put(id, Claimed(tx)), UNCHANGED handoffs
        PROVE  H!Claim(id, tx)
    <3>1. claim[id] = Nothing
      BY <2>1
    <3>2. /\ DOMAIN operations' = DOMAIN operations \cup {id}
          /\ \A x \in DOMAIN operations' :
               operations'[x] = IF x = id THEN Claimed(tx) ELSE operations[x]
          /\ Claimed(tx).tx = tx
      BY <2>1 DEF Put, Claimed
    <3>3. claim' = [claim EXCEPT ![id] = tx]
      BY <2>1, <3>2
    <3> QED
      BY <2>1, <3>1, <3>3 DEF H!Claim
  <2>2. ASSUME NEW h \in Handlers, HandOff(h) PROVE \E id \in OperationIds : H!Give(id)
    <3>1. PICK id \in OperationIds : id = handlers[h].op
      BY <2>2, Knows DEF HandOff
    <3>2. PICK tx \in Transactions : tx = handlers[h].tx
      BY <2>2, Knows DEF HandOff, RequestOK, Submitting
    <3>3. id \in DOMAIN operations /\ operations[id].tx = tx /\ handoffs[id] = {}
      BY <2>2, <3>1, <3>2, Knows DEF HandOff, RequestOK, Bound, Points
    <3>4. handoffs' = [handoffs EXCEPT ![id] = handoffs[id] \cup {<<Cardinality(handoffs[id]) + 1, tx>>}]
      BY <2>2, <3>1, <3>2 DEF HandOff
    <3>5. Cardinality(handoffs[id]) + 1 = 1
      BY <3>3, FS_EmptySet
    <3>6. handoffs' = [handoffs EXCEPT ![id] = {<<1, claim[id]>>}]
      BY <3>3, <3>4, <3>5
    <3>7. claim[id] # Nothing /\ claim' = claim
      BY <2>2, <3>3, GasAssumption DEF HandOff
    <3> QED
      BY <3>3, <3>6, <3>7 DEF H!Give
  <2>3. CASE \E h \in Handlers : HandOff(h)
    BY <2>2, <2>3 DEF H!HandoffNext
  <2>4. CASE \A h \in Handlers : ~HandOff(h)
    <3>1. UNCHANGED handoffs
      BY <2>4, OnlyHandOff
    <3>2. CASE /\ DOMAIN operations' = DOMAIN operations
               /\ \A id \in DOMAIN operations : operations'[id].tx = operations[id].tx
      BY <3>1, <3>2 DEF H!handoffVars
    <3> QED
      BY <2>1, <3>1, <3>2, TableSteps DEF H!HandoffNext
  <2> QED
    BY <2>3, <2>4
<1> QED
  BY <1>1, <1>2, GasInvAlways, PTL DEF Spec, ImplementsOneHandoff, H!HandoffSpec
-----------------------------------------------------------------------------
(***************************************************************************)
(* What GasClient assumes of the service, of its row and of the relayer    *)
(* behind it: OperationOutcomes, with the row for what was taken and the   *)
(* relayer for how it ended.                                               *)
(***************************************************************************)
EndOf(id) ==
  IF relay[id] = "succeeded" THEN "succeeded"
  ELSE IF relay[id] \in {"failed", "cancelled", "refused"} THEN "failed"
  ELSE "underway"

O == INSTANCE OperationOutcomes WITH
       Ids     <- OperationIds,
       outcome <- [id \in OperationIds |->
                     IF id \in DOMAIN operations THEN EndOf(id) ELSE "absent"]

(* How the browser reads an answer (isTerminal).                           *)
Read(answer) ==
  IF answer = "succeeded" THEN "succeeded"
  ELSE IF answer \in {"failed", "cancelled", "denied"} THEN "failed"
  ELSE "pending"

AnswersSayable ==
  \A h \in Handlers :
    handlers[h].at = "replied" => Read(handlers[h].answer) \in O!Sayable(handlers[h].op)

(* The relayer knows of nothing it was not handed.                         *)
RelayTold == \A id \in OperationIds : relay[id] # "absent" => handoffs[id] # {}

(* Only the relayer's own steps change what it did, and they change one    *)
(* operation and nothing else.                                             *)
LEMMA RelaySteps ==
  ASSUME [Next]_vars
  PROVE  \/ UNCHANGED relay
         \/ \E id \in OperationIds : RelayReceives(id) \/ RelayAdvances(id)
BY DEF Next, vars, Progress, Arrival, SubmitRequest, StatusRequest, Find, Create, FindAgain,
       NoClient, HandOff, Sponsored, Observe, Look, Observed, Unobserved, Saved, StoreFails,
       Done, Crash

LEMMA RelayToldStep == GasInv /\ RelayTold /\ [Next]_vars => RelayTold'
<1> SUFFICES ASSUME GasInv, RelayTold, [Next]_vars PROVE RelayTold'
  OBVIOUS
<1>1. \A id \in OperationIds : handoffs[id] # {} => handoffs'[id] # {}
  <2>1. CASE \E h \in Handlers : HandOff(h)
    BY <2>1 DEF HandOff, GasInv, GasTypeOK
  <2>2. CASE \A h \in Handlers : ~HandOff(h)
    BY <2>2, OnlyHandOff
  <2> QED
    BY <2>1, <2>2
<1>2. CASE UNCHANGED relay
  BY <1>1, <1>2 DEF RelayTold
<1>3. ASSUME NEW id \in OperationIds, RelayReceives(id) \/ RelayAdvances(id)
      PROVE  RelayTold'
  <2>1. UNCHANGED handoffs /\ relay \in [OperationIds -> RelayStatus \cup {"absent", "refused"}]
    BY <1>3 DEF RelayReceives, RelayAdvances, GasInv, GasTypeOK
  <2>2. handoffs[id] # {}
    BY <1>3 DEF RelayReceives, RelayAdvances, RelayTold
  <2>3. \A x \in OperationIds : x # id => relay'[x] = relay[x]
    BY <1>3, <2>1 DEF RelayReceives, RelayAdvances
  <2> QED
    BY <2>1, <2>2, <2>3 DEF RelayTold
<1> QED
  BY <1>2, <1>3, RelaySteps

(* The service meets what the browser's model assumes of it: an operation  *)
(* is under way from the moment its row exists, ends as the relayer ended  *)
(* it and for good, and no answer says anything else at any time.          *)
THEOREM ServiceMeetsItsClients == Spec => O!OutcomesSpec /\ []AnswersSayable
<1> DEFINE outcome == [id \in OperationIds |->
                         IF id \in DOMAIN operations THEN EndOf(id) ELSE "absent"]
<1>1. Init => RelayTold /\ O!OutcomesInit
  BY DEF Init, RelayTold, O!OutcomesInit
<1>2. GasInv /\ RelayTold /\ [Next]_vars => [O!OutcomesNext]_outcome
  <2> SUFFICES ASSUME GasInv, RelayTold, [Next]_vars PROVE [O!OutcomesNext]_outcome
    OBVIOUS
  <2>1. CASE UNCHANGED relay
    <3>1. \A id \in OperationIds : EndOf(id)' = EndOf(id)
      BY <2>1 DEF EndOf
    <3>2. ASSUME NEW id \in OperationIds, NEW tx \in Transactions,
                 id \notin DOMAIN operations, Put(id, Claimed(tx))
          PROVE  O!Take(id)
      <4>1. DOMAIN operations' = DOMAIN operations \cup {id}
        BY <3>2 DEF Put
      <4>2. EndOf(id) = "underway"
        BY <3>2 DEF EndOf, RelayTold, GasInv, HandedOnce
      <4>3. outcome[id] = "absent" /\ outcome' = [outcome EXCEPT ![id] = "underway"]
        BY <3>1, <3>2, <4>1, <4>2
      <4> QED
        BY <4>3 DEF O!Take
    <3>3. CASE DOMAIN operations' = DOMAIN operations
      <4>1. outcome' = outcome
        BY <3>1, <3>3
      <4> QED
        BY <4>1
    <3> QED
      BY <3>2, <3>3, TableSteps DEF O!OutcomesNext
  <2>2. ASSUME NEW id \in OperationIds, RelayReceives(id) \/ RelayAdvances(id)
        PROVE  [O!OutcomesNext]_outcome
    <3>1. /\ UNCHANGED <<operations, handoffs>>
          /\ relay \in [OperationIds -> RelayStatus \cup {"absent", "refused"}]
      BY <2>2 DEF RelayReceives, RelayAdvances, GasInv, GasTypeOK
    <3>2. \A x \in OperationIds \ {id} : EndOf(x)' = EndOf(x)
      BY <2>2, <3>1 DEF RelayReceives, RelayAdvances, EndOf
    <3>3. handoffs[id] # {} /\ id \in DOMAIN operations
      BY <2>2 DEF RelayReceives, RelayAdvances, RelayTold, GasInv, HandedOnce
    <3>4. EndOf(id) = "underway"
      BY <2>2 DEF RelayReceives, RelayAdvances, EndOf
    <3>5. EndOf(id)' \in {"underway"} \cup {"succeeded", "failed"}
      BY DEF EndOf
    <3>6. outcome[id] = "underway" /\ outcome' = [outcome EXCEPT ![id] = EndOf(id)']
      BY <3>1, <3>2, <3>3, <3>4
    <3>7. CASE EndOf(id)' = "underway"
      <4>1. outcome' = outcome
        BY <3>6, <3>7
      <4> QED
        BY <4>1
    <3>8. CASE EndOf(id)' \in {"succeeded", "failed"}
      <4>1. O!End(id)
        BY <3>6, <3>8 DEF O!End, O!Ends
      <4> QED
        BY <4>1 DEF O!OutcomesNext
    <3> QED
      BY <3>5, <3>7, <3>8
  <2> QED
    BY <2>1, <2>2, RelaySteps
<1>3. GasInv => AnswersSayable
  <2> SUFFICES ASSUME GasInv, NEW h \in Handlers, handlers[h].at = "replied"
               PROVE  Read(handlers[h].answer) \in O!Sayable(handlers[h].op)
    BY DEF AnswersSayable
  <2> DEFINE id == handlers[h].op
  <2>1. id \in OperationIds /\ id \in DOMAIN operations /\ IsTrue(handlers[h].answer, id)
    BY Knows DEF RequestOK, Answers, Bound, Points
  <2>2. outcome[id] = EndOf(id) /\ outcome[id] # "absent"
    BY <2>1 DEF EndOf
  <2>3. Read(handlers[h].answer) \in {"pending", outcome[id]}
    BY <2>1, <2>2 DEF Read, EndOf, IsTrue, Outcomes
  <2>4. Read(handlers[h].answer) \in {"pending", "succeeded", "failed"}
    BY DEF Read
  <2> QED
    BY <2>2, <2>3, <2>4 DEF O!Sayable, O!Ends
<1> QED
  BY <1>1, <1>2, <1>3, RelayToldStep, GasInvAlways, GasInvInit, PTL DEF Spec, O!OutcomesSpec
=============================================================================
