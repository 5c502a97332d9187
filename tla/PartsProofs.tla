---------------------------- MODULE PartsProofs ----------------------------
(* Theorems about the parts that MCParts runs side by side because they    *)
(* share no state: what the browser keeps of its sponsored submissions, of *)
(* its wallet and of the contracts it has read, and the event service.     *)
EXTENDS MCParts, SequenceTheorems, FiniteSetTheorems, TLAPS

(***************************************************************************)
(* GasClient, for any number of operations, wallets and tabs and any       *)
(* number of ids kept and checked.                                         *)
(***************************************************************************)
(* The parts of the inductive invariant: the stored ids, ...              *)
StoreOK ==
  /\ gasIds \in [Wallets -> Seq(Operations)]
  /\ \A w \in Wallets : Len(gasIds[w]) <= Kept /\ IsInjective(gasIds[w])
  /\ learned \subseteq Operations /\ displaced \subseteq Operations

(* ... the checks, each for one wallet and with something to ask, ...      *)
ChecksOK ==
  /\ checks \in [Tabs -> [wallet : Wallets \cup {Nothing}, queue : Seq(Operations)]]
  /\ \A t \in Tabs :
       checks[t] # Unasked => checks[t].wallet \in Wallets /\ checks[t].queue # <<>>

(* ... and the course of each operation: nothing is at the service before  *)
(* it was sent and taken, and the user is told one thing, at the end.      *)
Submitted == [at : Waiting \cup {"new", "told", "gone"}, wallet : Wallets \cup {Nothing},
              told : Terminal \cup {"pending", Nothing}]

CourseOK ==
  /\ gasCookie \in Wallets \cup {Nothing}
  /\ submissions \in [Operations -> Submitted]
  /\ requests \in [Operations -> {"none", "travelling", "refused", "served"}]
  /\ outcomes \in [Operations -> {"absent", "underway"} \cup Terminal]

InTurn ==
  \A id \in Operations :
    /\ submissions[id].at # "new" => submissions[id].wallet \in Wallets
    /\ submissions[id].at \in {"new", "authorizing", "sending"} => requests[id] = "none"
    /\ requests[id] # "served" => outcomes[id] = "absent"
    /\ submissions[id].told # Nothing => submissions[id].at = "told"
    /\ submissions[id].at = "confirming" => outcomes[id] = "succeeded"

(* From before it is sent, an operation that can get to the service is     *)
(* known to this browser.                                                  *)
CanReach(id) ==
  \/ submissions[id].at \in {"authorizing", "sending"}
  \/ requests[id] = "travelling" \/ outcomes[id] # "absent"

Known(w, id) == id \in learned \cup displaced \/ Has(gasIds[w], id)

SentKnown == \A id \in Operations : CanReach(id) => Known(submissions[id].wallet, id)

GasClientInv == StoreOK /\ ChecksOK /\ CourseOK /\ InTurn /\ ToldTruly /\ SentKnown
-----------------------------------------------------------------------------
(* Without(w, id) is the list w's ids with id taken out of it.             *)
LEMMA WithoutOne ==
  ASSUME NEW w, NEW id \in Operations,
         gasIds[w] \in Seq(Operations), IsInjective(gasIds[w])
  PROVE  /\ Without(w, id) \in Seq(Operations)
         /\ IsInjective(Without(w, id))
         /\ Len(Without(w, id)) <= Len(gasIds[w])
         /\ ~Has(Without(w, id), id)
         /\ \A x : x # id /\ Has(gasIds[w], x) => Has(Without(w, id), x)
<1> DEFINE ids == gasIds[w]
           n   == Len(ids)
           p   == CHOOSE i \in DOMAIN ids : ids[i] = id
           at(i) == IF i < p THEN i ELSE i + 1
           rest == [i \in 1 .. n - 1 |-> ids[at(i)]]
<1>1. n \in Nat /\ DOMAIN ids = 1 .. n /\ \A i \in 1 .. n : ids[i] \in Operations
  OBVIOUS
<1>2. CASE ~Has(ids, id)
  <2>1. Without(w, id) = ids
    BY <1>2 DEF Without
  <2> QED  BY <2>1, <1>1, <1>2 DEF Has
<1>3. CASE Has(ids, id)
  <2>1. Without(w, id) = rest
    BY <1>3 DEF Without
  <2>2. p \in 1 .. n /\ ids[p] = id
    BY <1>1, <1>3 DEF Has
  <2> HIDE DEF p, n
  <2>3. n - 1 \in Nat /\ \A i \in 1 .. n - 1 : at(i) \in 1 .. n /\ at(i) # p
    <3>1. n \in Nat /\ p \in 1 .. n
      BY <1>1, <2>2
    <3> SUFFICES ASSUME NEW i \in 1 .. n - 1
                 PROVE  at(i) \in 1 .. n /\ at(i) # p
      BY <3>1
    <3>2. CASE i < p
      BY <3>1, <3>2
    <3>3. CASE ~(i < p)
      BY <3>1, <3>3
    <3> QED  BY <3>2, <3>3
  <2>4. rest \in Seq(Operations) /\ Len(rest) = n - 1 /\ DOMAIN rest = 1 .. n - 1
    <3>1. \A i \in 1 .. n - 1 : ids[at(i)] \in Operations
      BY <2>3, <1>1
    <3>2. rest \in [1 .. n - 1 -> Operations]
      BY <3>1
    <3> HIDE DEF rest
    <3> QED  BY <3>2, <2>3
  <2>5. IsInjective(rest)
    <3> SUFFICES ASSUME NEW a \in 1 .. n - 1, NEW b \in 1 .. n - 1, rest[a] = rest[b]
                 PROVE  a = b
      BY <2>4 DEF IsInjective
    <3>1. ids[at(a)] = ids[at(b)]
      OBVIOUS
    <3>2. at(a) = at(b)
      BY <3>1, <2>3, <1>1 DEF IsInjective
    <3>3. n \in Nat /\ p \in 1 .. n
      BY <1>1, <2>2
    <3> QED  BY <3>2, <3>3
  <2>6. ~Has(rest, id)
    <3> SUFFICES ASSUME NEW a \in 1 .. n - 1, rest[a] = id
                 PROVE  FALSE
      BY <2>4 DEF Has
    <3>1. ids[at(a)] = ids[p]
      BY <2>2
    <3> QED  BY <3>1, <2>2, <2>3, <1>1 DEF IsInjective
  <2>7. ASSUME NEW x, x # id, Has(ids, x)
        PROVE  Has(rest, x)
    <3>1. PICK j \in 1 .. n : ids[j] = x
      BY <2>7, <1>1 DEF Has
    <3>2. j # p
      BY <3>1, <2>2, <2>7
    <3>3. CASE j < p
      <4>1. j \in 1 .. n - 1 /\ at(j) = j
        BY <3>3, <2>2, <1>1
      <4>2. rest[j] = x
        BY <4>1, <3>1
      <4> QED  BY <4>1, <4>2, <2>4 DEF Has
    <3>4. CASE j > p
      <4>1. j - 1 \in 1 .. n - 1 /\ at(j - 1) = j
        BY <3>4, <2>2, <1>1
      <4>2. rest[j - 1] = x
        BY <4>1, <3>1
      <4> QED  BY <4>1, <4>2, <2>4 DEF Has
    <3> QED  BY <3>2, <3>3, <3>4, <2>2, <1>1
  <2>8. Len(rest) <= n
    <3> HIDE DEF rest
    <3> QED  BY <2>4, <1>1
  <2> QED  BY <2>1, <2>4, <2>5, <2>6, <2>7, <2>8 DEF n
<1> QED  BY <1>2, <1>3

(* What a step that stores or drops an id leaves behind.                   *)
Keeps(id) ==
  /\ gasIds' \in [Wallets -> Seq(Operations)]
  /\ \A w \in Wallets : Len(gasIds'[w]) <= Kept /\ IsInjective(gasIds'[w])
  /\ displaced' \subseteq Operations /\ displaced \subseteq displaced'
  /\ \A w \in Wallets, x \in Operations \ {id} :
       Has(gasIds[w], x) => Has(gasIds'[w], x) \/ x \in displaced'

LEMMA Remembering ==
  ASSUME StoreOK, NEW w \in Wallets, NEW id \in Operations, Remember(w, id)
  PROVE  /\ Keeps(id)
         /\ Has(gasIds'[w], id) \/ id \in displaced'
         /\ \A v \in Wallets : Has(gasIds[v], id) => Has(gasIds'[v], id) \/ id \in displaced'
<1> DEFINE ids  == Append(Without(w, id), id)
           m    == Len(ids)
           drop == IF m > Kept THEN m - Kept ELSE 0
           last == SubSeq(ids, drop + 1, m)
<1>1. /\ gasIds \in [Wallets -> Seq(Operations)] /\ displaced \subseteq Operations
      /\ \A v \in Wallets : Len(gasIds[v]) <= Kept /\ IsInjective(gasIds[v])
      /\ Kept \in Nat \ {0}
  BY GasClientAssumption DEF StoreOK
<1>2. gasIds[w] \in Seq(Operations) /\ IsInjective(gasIds[w])
  BY <1>1
<1>3. /\ Without(w, id) \in Seq(Operations) /\ IsInjective(Without(w, id))
      /\ ~Has(Without(w, id), id)
      /\ \A x : x # id /\ Has(gasIds[w], x) => Has(Without(w, id), x)
  BY <1>2, WithoutOne
<1>4. /\ gasIds' = [gasIds EXCEPT ![w] = last]
      /\ displaced' = displaced \cup {ids[i] : i \in 1 .. drop}
  BY DEF Remember
<1> DEFINE k == Len(Without(w, id))
<1>5. /\ ids \in Seq(Operations) /\ k \in Nat /\ m = k + 1 /\ DOMAIN ids = 1 .. m
      /\ ids[m] = id /\ \A i \in 1 .. k : ids[i] = Without(w, id)[i]
      /\ DOMAIN Without(w, id) = 1 .. k
  BY <1>3
<1>6. IsInjective(ids)
  BY <1>3, <1>5 DEF IsInjective, Has
<1> HIDE DEF ids, k
<1>7. drop \in Nat /\ drop < m /\ m - drop <= Kept
  BY <1>1, <1>5
<1>8. /\ last \in Seq(Operations) /\ Len(last) = m - drop /\ DOMAIN last = 1 .. m - drop
      /\ \A i \in 1 .. m - drop : last[i] = ids[i + drop]
  BY <1>5, <1>7
<1> HIDE DEF drop, last, m
<1>9. IsInjective(last)
  <2> SUFFICES ASSUME NEW a \in 1 .. m - drop, NEW b \in 1 .. m - drop, last[a] = last[b]
               PROVE  a = b
    BY <1>8 DEF IsInjective
  <2>1. a + drop \in 1 .. m /\ b + drop \in 1 .. m
    BY <1>5, <1>7
  <2>2. ids[a + drop] = ids[b + drop]
    BY <1>8
  <2>3. a + drop = b + drop
    BY <2>1, <2>2, <1>5, <1>6 DEF IsInjective
  <2> QED  BY <2>3, <1>5, <1>7
<1>10. \A x : Has(ids, x) => Has(last, x) \/ x \in displaced'
  <2> SUFFICES ASSUME NEW i \in 1 .. m
               PROVE  Has(last, ids[i]) \/ ids[i] \in displaced'
    BY <1>5 DEF Has
  <2>1. CASE i \in 1 .. drop
    BY <2>1, <1>4
  <2>2. CASE i > drop
    <3>1. i - drop \in 1 .. m - drop /\ last[i - drop] = ids[i]
      BY <2>2, <1>5, <1>7, <1>8
    <3> QED  BY <3>1, <1>8 DEF Has
  <2> QED  BY <2>1, <2>2, <1>7, <1>5
<1>11. \A x : x # id /\ Has(gasIds[w], x) => Has(ids, x)
  <2> SUFFICES ASSUME NEW x, Has(Without(w, id), x)
               PROVE  Has(ids, x)
    BY <1>3
  <2>1. PICK i \in 1 .. k : Without(w, id)[i] = x
    BY <1>5 DEF Has
  <2> QED  BY <2>1, <1>5 DEF Has
<1>12. Has(ids, id)
  BY <1>5 DEF Has
<1>13. \A v \in Wallets : gasIds'[v] = IF v = w THEN last ELSE gasIds[v]
  BY <1>1, <1>4
<1>14. displaced' \subseteq Operations /\ displaced \subseteq displaced'
  BY <1>1, <1>4, <1>5, <1>7
<1>15. gasIds' \in [Wallets -> Seq(Operations)]
  BY <1>1, <1>4, <1>8
<1>16. \A v \in Wallets : Len(gasIds'[v]) <= Kept /\ IsInjective(gasIds'[v])
  BY <1>1, <1>7, <1>8, <1>9, <1>13
<1>17. \A v \in Wallets, x \in Operations :
         Has(gasIds[v], x) => Has(gasIds'[v], x) \/ x \in displaced'
  BY <1>10, <1>11, <1>12, <1>13
<1> QED  BY <1>10, <1>12, <1>13, <1>14, <1>15, <1>16, <1>17 DEF Keeps

LEMMA Forgetting ==
  ASSUME StoreOK, NEW w \in Wallets, NEW id \in Operations, Forget(w, id)
  PROVE  Keeps(id)
<1>1. /\ gasIds \in [Wallets -> Seq(Operations)] /\ displaced \subseteq Operations
      /\ \A v \in Wallets : Len(gasIds[v]) <= Kept /\ IsInjective(gasIds[v])
      /\ Kept \in Nat \ {0}
  BY GasClientAssumption DEF StoreOK
<1>2. gasIds[w] \in Seq(Operations) /\ IsInjective(gasIds[w])
  BY <1>1
<1>3. /\ Without(w, id) \in Seq(Operations) /\ IsInjective(Without(w, id))
      /\ Len(Without(w, id)) <= Len(gasIds[w])
      /\ \A x : x # id /\ Has(gasIds[w], x) => Has(Without(w, id), x)
  BY <1>2, WithoutOne
<1>4. gasIds' = [gasIds EXCEPT ![w] = Without(w, id)] /\ displaced' = displaced
  BY DEF Forget
<1>5. \A v \in Wallets : gasIds'[v] = IF v = w THEN Without(w, id) ELSE gasIds[v]
  BY <1>1, <1>4
<1>6. Len(gasIds[w]) \in Nat /\ Len(Without(w, id)) \in Nat
  BY <1>2, <1>3
<1>7. \A v \in Wallets : Len(gasIds'[v]) <= Kept /\ IsInjective(gasIds'[v])
  BY <1>1, <1>3, <1>5, <1>6
<1>8. gasIds' \in [Wallets -> Seq(Operations)]
  BY <1>1, <1>3, <1>4
<1> QED  BY <1>1, <1>3, <1>4, <1>5, <1>7, <1>8 DEF Keeps

(* What an action that touches the stored ids loses of an operation:       *)
(* nothing.                                                                *)
StaysKnown(id) == \A w \in Wallets : Known(w, id) => Known(w, id)'

(* A result that is observed loses no operation.                           *)
LEMMA Observing ==
  ASSUME StoreOK, NEW w \in Wallets, NEW id \in Operations, NEW status,
         Observe(w, id, status)
  PROVE  StoreOK' /\ \A x \in Operations : StaysKnown(x)
<1>1. Keeps(id)
  BY Remembering, Forgetting DEF Observe
<1>2. learned' \subseteq Operations /\ learned \subseteq learned'
  BY DEF Observe, StoreOK
<1>3. StoreOK'
  BY <1>1, <1>2 DEF StoreOK, Keeps
<1>4. ASSUME NEW x \in Operations, x # id
      PROVE  StaysKnown(x)
  BY <1>1, <1>2, <1>4 DEF StaysKnown, Known, Keeps
<1>5. StaysKnown(id)
  <2>1. CASE status \in Terminal
    BY <2>1 DEF Observe, StaysKnown, Known
  <2>2. CASE status \notin Terminal
    <3>1. /\ displaced \subseteq displaced' /\ learned' = learned
          /\ \A v \in Wallets :
               Has(gasIds[v], id) => Has(gasIds'[v], id) \/ id \in displaced'
      BY <1>1, <2>2, Remembering DEF Observe, Keeps
    <3> QED  BY <3>1 DEF StaysKnown, Known
  <2> QED  BY <2>1, <2>2
<1> QED  BY <1>3, <1>4, <1>5

(* Storing and dropping an id keep the others.                             *)
LEMMA StoringAnother ==
  ASSUME StoreOK, NEW w \in Wallets, NEW id \in Operations,
         Remember(w, id) \/ Forget(w, id), learned' = learned
  PROVE  /\ StoreOK'
         /\ \A x \in Operations \ {id} : StaysKnown(x)
         /\ Remember(w, id) => Known(w, id)'
<1>1. Keeps(id)
  BY Remembering, Forgetting
<1>2. Remember(w, id) => Has(gasIds'[w], id) \/ id \in displaced'
  BY Remembering
<1> QED  BY <1>1, <1>2 DEF StoreOK, Keeps, StaysKnown, Known

LEMMA NothingStored ==
  ASSUME StoreOK, UNCHANGED <<gasIds, learned, displaced>>
  PROVE  StoreOK' /\ \A x \in Operations : StaysKnown(x)
BY DEF StoreOK, StaysKnown, Known, Has
-----------------------------------------------------------------------------
LEMMA GasClientInitInv == GasClientInit => GasClientInv
<1> SUFFICES ASSUME GasClientInit PROVE GasClientInv
  OBVIOUS
<1>1. StoreOK
  BY GasClientAssumption DEF GasClientInit, StoreOK, IsInjective
<1>2. ChecksOK
  BY DEF GasClientInit, ChecksOK, Unasked
<1>3. CourseOK /\ InTurn
  BY DEF GasClientInit, CourseOK, InTurn, Submitted
<1>4. ToldTruly
  BY GasClientAssumption DEF GasClientInit, ToldTruly
<1>5. SentKnown
  BY DEF GasClientInit, SentKnown, CanReach
<1> QED  BY <1>1, <1>2, <1>3, <1>4, <1>5 DEF GasClientInv

(* Only the steps of a submission and of its request change its course.    *)
CourseStep(id) ==
  \/ \E w \in Wallets : Submit(id, w)
  \/ Authorized(id) \/ Unauthorized(id) \/ Post(id) \/ PostUnresolved(id) \/ PostRefused(id)
  \/ PostAnswered(id) \/ StatusAnswered(id) \/ StatusUnanswered(id) \/ Confirmed(id)
  \/ Abandon(id) \/ Taken(id) \/ Refused(id) \/ Ends(id)

OtherStep(t) ==
  \/ \E w \in Wallets : CheckStarts(t, w)
  \/ CheckAnswered(t) \/ CheckUnanswered(t)

LEMMA GasClientCases ==
  ASSUME [GasClientNext]_gasVars
  PROVE  \/ \E id \in Operations : CourseStep(id)
         \/ \E t \in Tabs : OtherStep(t)
         \/ SessionExpires
         \/ UNCHANGED gasVars
BY DEF GasClientNext, CourseStep, OtherStep

(* What moving on, and telling the user, do to the submissions.            *)
LEMMA AtMoves ==
  ASSUME CourseOK, NEW id \in Operations,
         NEW point \in Waiting \cup {"new", "told", "gone"}, At(id, point)
  PROVE  /\ submissions' \in [Operations -> Submitted]
         /\ \A x \in Operations \ {id} : submissions'[x] = submissions[x]
         /\ submissions'[id].at = point
         /\ submissions'[id].wallet = submissions[id].wallet
         /\ submissions'[id].told = submissions[id].told
<1> DEFINE moved == [submissions[id] EXCEPT !.at = point]
<1>1. submissions[id] \in Submitted
  BY DEF CourseOK
<1>2. moved \in Submitted
  BY <1>1 DEF Submitted
<1>3. /\ moved.at = point /\ moved.wallet = submissions[id].wallet
      /\ moved.told = submissions[id].told
  BY <1>1 DEF Submitted
<1>4. submissions' = [submissions EXCEPT ![id] = moved]
  BY DEF At
<1> HIDE DEF moved
<1> QED  BY <1>2, <1>3, <1>4 DEF CourseOK

LEMMA TellMoves ==
  ASSUME CourseOK, NEW id \in Operations, NEW what \in Terminal \cup {"pending"},
         Tell(id, what)
  PROVE  /\ submissions' \in [Operations -> Submitted]
         /\ \A x \in Operations \ {id} : submissions'[x] = submissions[x]
         /\ submissions'[id].at = "told" /\ submissions'[id].told = what
         /\ submissions'[id].wallet = submissions[id].wallet
<1> DEFINE moved == [submissions[id] EXCEPT !.at = "told", !.told = what]
<1>1. submissions[id] \in Submitted
  BY DEF CourseOK
<1>2. moved \in Submitted
  BY <1>1 DEF Submitted
<1>3. /\ moved.at = "told" /\ moved.told = what
      /\ moved.wallet = submissions[id].wallet
  BY <1>1 DEF Submitted
<1>4. submissions' = [submissions EXCEPT ![id] = moved]
  BY DEF Tell
<1> HIDE DEF moved
<1> QED  BY <1>2, <1>3, <1>4 DEF CourseOK

(* What a step does to the course of one operation, that of the others     *)
(* being what it was.                                                      *)
CourseInTurn(id) ==
  /\ submissions[id].at # "new" => submissions[id].wallet \in Wallets
  /\ submissions[id].at \in {"new", "authorizing", "sending"} => requests[id] = "none"
  /\ requests[id] # "served" => outcomes[id] = "absent"
  /\ submissions[id].told # Nothing => submissions[id].at = "told"
  /\ submissions[id].at = "confirming" => outcomes[id] = "succeeded"

CourseTold(id) ==
  /\ submissions[id].told = "succeeded" => outcomes[id] = "succeeded"
  /\ submissions[id].told = "failed" =>
       outcomes[id] \in {"absent", "failed"} /\ requests[id] # "travelling"

CourseTypes ==
  /\ gasCookie \in Wallets \cup {Nothing}
  /\ requests \in [Operations -> {"none", "travelling", "refused", "served"}]
  /\ outcomes \in [Operations -> {"absent", "underway"} \cup Terminal]

LEMMA OneCourse ==
  ASSUME InTurn, ToldTruly, NEW id \in Operations,
         submissions' \in [Operations -> Submitted], CourseTypes',
         \A x \in Operations \ {id} :
           /\ submissions'[x] = submissions[x]
           /\ requests'[x] = requests[x] /\ outcomes'[x] = outcomes[x],
         CourseInTurn(id)', CourseTold(id)'
  PROVE  CourseOK' /\ InTurn' /\ ToldTruly'
<1>1. CourseOK'
  BY DEF CourseOK, CourseTypes
<1>2. ASSUME NEW x \in Operations
      PROVE  CourseInTurn(x)' /\ CourseTold(x)'
  <2>1. CASE x = id
    BY <2>1
  <2>2. CASE x # id
    <3>1. CourseInTurn(x) /\ CourseTold(x)
      BY DEF InTurn, ToldTruly, CourseInTurn, CourseTold
    <3>2. submissions'[x] = submissions[x] /\ requests'[x] = requests[x] /\ outcomes'[x] = outcomes[x]
      BY <2>2
    <3> QED  BY <3>1, <3>2 DEF CourseInTurn, CourseTold
  <2> QED  BY <2>1, <2>2
<1>3. InTurn'
  BY <1>2 DEF InTurn, CourseInTurn
<1>4. ToldTruly'
  BY <1>2 DEF ToldTruly, CourseTold
<1> QED  BY <1>1, <1>3, <1>4

(* How an operation ended is told, or confirmed first, once the service    *)
(* says so.                                                                *)
LEMMA Ended ==
  ASSUME CourseOK, InTurn, ToldTruly, NEW id \in Operations,
         NEW status \in Terminal \cup {"pending"}, TellEnd(id, status),
         status \in {outcomes[id], "pending"},
         submissions[id].at \in {"posted", "status"},
         UNCHANGED <<gasCookie, requests, outcomes>>, CourseTypes'
  PROVE  CourseOK' /\ InTurn' /\ ToldTruly'
<1>a. CourseInTurn(id) /\ CourseTold(id)
  BY DEF InTurn, ToldTruly, CourseInTurn, CourseTold
<1> USE DEF CourseInTurn, CourseTold, Waiting, Terminal
<1>1. CASE status = "succeeded"
  <2>1. At(id, "confirming") /\ outcomes[id] = "succeeded"
    BY <1>1 DEF TellEnd
  <2>2. /\ submissions' \in [Operations -> Submitted]
        /\ \A x \in Operations \ {id} : submissions'[x] = submissions[x]
    BY <2>1, AtMoves
  <2>3. CourseInTurn(id)' /\ CourseTold(id)'
    BY <1>a, <2>1, AtMoves, GasClientAssumption
  <2> QED  BY <2>2, <2>3, OneCourse
<1>2. CASE status # "succeeded"
  <2>1. Tell(id, status)
    BY <1>2 DEF TellEnd
  <2>2. /\ submissions' \in [Operations -> Submitted]
        /\ \A x \in Operations \ {id} : submissions'[x] = submissions[x]
    BY <2>1, TellMoves
  <2>3. outcomes[id] = "failed" => requests[id] # "travelling"
    BY <1>a
  <2>4. CourseInTurn(id)' /\ CourseTold(id)'
    BY <1>a, <1>2, <2>1, <2>3, TellMoves, GasClientAssumption
  <2> QED  BY <2>2, <2>4, OneCourse
<1> QED  BY <1>1, <1>2

(* The course of an operation keeps its order and its types, and what is   *)
(* told is true when it is told and stays true.                            *)
LEMMA CourseKept ==
  ASSUME CourseOK, InTurn, ToldTruly, NEW id \in Operations, CourseStep(id)
  PROVE  CourseOK' /\ InTurn' /\ ToldTruly'
<1> DEFINE s == submissions[id]
<1>a. CourseTypes /\ CourseInTurn(id) /\ CourseTold(id)
  BY DEF CourseOK, InTurn, ToldTruly, CourseTypes, CourseInTurn, CourseTold
<1> USE DEF CourseInTurn, CourseTold, Waiting, Terminal
<1>1. CASE \E w \in Wallets : Submit(id, w)
  <2>1. PICK w \in Wallets : Submit(id, w)
    BY <1>1
  <2> DEFINE moved == [s EXCEPT !.at = "authorizing", !.wallet = w]
  <2>2. /\ s.at = "new" /\ UNCHANGED <<gasCookie, requests, outcomes>>
        /\ submissions' = [submissions EXCEPT ![id] = moved]
    BY <2>1 DEF Submit
  <2>3. s \in Submitted
    BY DEF CourseOK
  <2>4. moved \in Submitted
    BY <2>3 DEF Submitted
  <2>5. moved.at = "authorizing" /\ moved.wallet = w /\ moved.told = s.told
    BY <2>3 DEF Submitted
  <2> HIDE DEF moved
  <2>6. /\ submissions' \in [Operations -> Submitted]
        /\ \A x \in Operations \ {id} : submissions'[x] = submissions[x]
        /\ submissions'[id] = moved
    BY <2>2, <2>4 DEF CourseOK
  <2>7. CourseTypes'
    BY <1>a, <2>2 DEF CourseTypes
  <2>8. CourseInTurn(id)' /\ CourseTold(id)'
    BY <1>a, <2>2, <2>5, <2>6
  <2> QED  BY <2>2, <2>6, <2>7, <2>8, OneCourse
<1>2. CASE Authorized(id)
  <2>1. /\ s.at = "authorizing" /\ At(id, "sending")
        /\ gasCookie' = s.wallet /\ UNCHANGED <<requests, outcomes>>
    BY <1>2 DEF Authorized
  <2>2. CourseTypes'
    BY <1>a, <2>1 DEF CourseTypes
  <2>3. /\ submissions' \in [Operations -> Submitted]
        /\ \A x \in Operations \ {id} : submissions'[x] = submissions[x]
    BY <2>1, AtMoves
  <2>4. CourseInTurn(id)' /\ CourseTold(id)'
    BY <1>a, <2>1, AtMoves, GasClientAssumption
  <2> QED  BY <2>1, <2>2, <2>3, <2>4, OneCourse
<1>3. CASE Unauthorized(id)
  <2>1. /\ s.at = "authorizing" /\ Tell(id, "failed")
        /\ gasCookie' \in {gasCookie, s.wallet} /\ UNCHANGED <<requests, outcomes>>
    BY <1>3 DEF Unauthorized
  <2>2. CourseTypes'
    BY <1>a, <2>1 DEF CourseTypes
  <2>3. /\ submissions' \in [Operations -> Submitted]
        /\ \A x \in Operations \ {id} : submissions'[x] = submissions[x]
    BY <2>1, TellMoves
  <2>4. CourseInTurn(id)' /\ CourseTold(id)'
    BY <1>a, <2>1, TellMoves, GasClientAssumption
  <2> QED  BY <2>1, <2>2, <2>3, <2>4, OneCourse
<1>4. CASE Post(id)
  <2>1. /\ s.at = "sending" /\ At(id, "posted")
        /\ UNCHANGED <<gasCookie, outcomes>>
    BY <1>4 DEF Post
  <2>2. PICK r \in {"travelling", "refused"} : requests' = [requests EXCEPT ![id] = r]
    BY <1>4 DEF Post
  <2>3. CourseTypes' /\ \A x \in Operations \ {id} : requests'[x] = requests[x]
    BY <1>a, <2>1, <2>2 DEF CourseTypes
  <2>4. requests'[id] = r
    BY <1>a, <2>2 DEF CourseTypes
  <2>5. /\ submissions' \in [Operations -> Submitted]
        /\ \A x \in Operations \ {id} : submissions'[x] = submissions[x]
    BY <2>1, AtMoves
  <2>6. CourseInTurn(id)' /\ CourseTold(id)'
    BY <1>a, <2>1, <2>4, AtMoves, GasClientAssumption
  <2> QED  BY <2>1, <2>3, <2>5, <2>6, OneCourse
<1>5. CASE PostUnresolved(id)
  <2>1. /\ s.at = "posted" /\ Tell(id, "pending")
        /\ UNCHANGED <<gasCookie, requests, outcomes>>
    BY <1>5 DEF PostUnresolved
  <2>2. CourseTypes'
    BY <1>a, <2>1 DEF CourseTypes
  <2>3. /\ submissions' \in [Operations -> Submitted]
        /\ \A x \in Operations \ {id} : submissions'[x] = submissions[x]
    BY <2>1, TellMoves
  <2>4. CourseInTurn(id)' /\ CourseTold(id)'
    BY <1>a, <2>1, TellMoves, GasClientAssumption
  <2> QED  BY <2>1, <2>2, <2>3, <2>4, OneCourse
<1>6. CASE PostRefused(id)
  <2>1. /\ s.at = "posted" /\ requests[id] = "refused" /\ Tell(id, "failed")
        /\ UNCHANGED <<gasCookie, requests, outcomes>>
    BY <1>6 DEF PostRefused
  <2>2. CourseTypes'
    BY <1>a, <2>1 DEF CourseTypes
  <2>3. /\ submissions' \in [Operations -> Submitted]
        /\ \A x \in Operations \ {id} : submissions'[x] = submissions[x]
    BY <2>1, TellMoves
  <2>4. CourseInTurn(id)' /\ CourseTold(id)'
    BY <1>a, <2>1, TellMoves, GasClientAssumption
  <2> QED  BY <2>1, <2>2, <2>3, <2>4, OneCourse
<1>7. CASE PostAnswered(id)
  <2>1. s.at = "posted" /\ UNCHANGED <<gasCookie, requests, outcomes>>
    BY <1>7 DEF PostAnswered
  <2>2. PICK status \in Statuses(id) :
          IF status \in Terminal THEN TellEnd(id, status) ELSE At(id, "status")
    BY <1>7 DEF PostAnswered
  <2>3. CourseTypes'
    BY <1>a, <2>1 DEF CourseTypes
  <2>4. CASE status \in Terminal
    BY <1>a, <2>1, <2>2, <2>3, <2>4, Ended DEF Statuses
  <2>5. CASE status \notin Terminal
    <3>1. At(id, "status")
      BY <2>2, <2>5
    <3>2. /\ submissions' \in [Operations -> Submitted]
          /\ \A x \in Operations \ {id} : submissions'[x] = submissions[x]
      BY <3>1, AtMoves
    <3>3. CourseInTurn(id)' /\ CourseTold(id)'
      BY <1>a, <2>1, <3>1, AtMoves, GasClientAssumption
    <3> QED  BY <2>1, <2>3, <3>2, <3>3, OneCourse
  <2> QED  BY <2>4, <2>5
<1>8. CASE StatusAnswered(id)
  <2>1. s.at = "status" /\ UNCHANGED <<gasCookie, requests, outcomes>>
    BY <1>8 DEF StatusAnswered
  <2>2. PICK status \in Terminal \cup {"pending"} :
          TellEnd(id, status) /\ status \in {outcomes[id], "pending"}
    BY <1>8 DEF StatusAnswered, StatusFor, Statuses
  <2>3. CourseTypes'
    BY <1>a, <2>1 DEF CourseTypes
  <2> QED  BY <1>a, <2>1, <2>2, <2>3, Ended
<1>9. CASE StatusUnanswered(id)
  <2>1. /\ s.at = "status" /\ Tell(id, "pending")
        /\ UNCHANGED <<gasCookie, requests, outcomes>>
    BY <1>9 DEF StatusUnanswered
  <2>2. CourseTypes'
    BY <1>a, <2>1 DEF CourseTypes
  <2>3. /\ submissions' \in [Operations -> Submitted]
        /\ \A x \in Operations \ {id} : submissions'[x] = submissions[x]
    BY <2>1, TellMoves
  <2>4. CourseInTurn(id)' /\ CourseTold(id)'
    BY <1>a, <2>1, TellMoves, GasClientAssumption
  <2> QED  BY <2>1, <2>2, <2>3, <2>4, OneCourse
<1>14. CASE Confirmed(id)
  <2>1. /\ s.at = "confirming" /\ Tell(id, "succeeded")
        /\ UNCHANGED <<gasCookie, requests, outcomes>>
    BY <1>14 DEF Confirmed
  <2>2. CourseTypes'
    BY <1>a, <2>1 DEF CourseTypes
  <2>3. /\ submissions' \in [Operations -> Submitted]
        /\ \A x \in Operations \ {id} : submissions'[x] = submissions[x]
    BY <2>1, TellMoves
  <2>4. CourseInTurn(id)' /\ CourseTold(id)'
    BY <1>a, <2>1, TellMoves, GasClientAssumption
  <2> QED  BY <2>1, <2>2, <2>3, <2>4, OneCourse
<1>10. CASE Abandon(id)
  <2>1. /\ s.at \in Waiting /\ At(id, "gone")
        /\ UNCHANGED <<gasCookie, requests, outcomes>>
    BY <1>10 DEF Abandon
  <2>2. CourseTypes'
    BY <1>a, <2>1 DEF CourseTypes
  <2>3. /\ submissions' \in [Operations -> Submitted]
        /\ \A x \in Operations \ {id} : submissions'[x] = submissions[x]
    BY <2>1, AtMoves
  <2>4. CourseInTurn(id)' /\ CourseTold(id)'
    BY <1>a, <2>1, AtMoves, GasClientAssumption
  <2> QED  BY <2>1, <2>2, <2>3, <2>4, OneCourse
<1>11. CASE Taken(id)
  <2>1. /\ requests[id] = "travelling" /\ UNCHANGED <<gasCookie, submissions>>
        /\ requests' = [requests EXCEPT ![id] = "served"]
        /\ outcomes' = [outcomes EXCEPT ![id] = "underway"]
    BY <1>11 DEF Taken
  <2>2. /\ CourseTypes' /\ requests'[id] = "served" /\ outcomes'[id] = "underway"
        /\ \A x \in Operations \ {id} : requests'[x] = requests[x] /\ outcomes'[x] = outcomes[x]
    BY <1>a, <2>1 DEF CourseTypes
  <2>3. CourseInTurn(id)' /\ CourseTold(id)'
    BY <1>a, <2>1, <2>2
  <2>4. submissions' \in [Operations -> Submitted]
    BY <2>1 DEF CourseOK
  <2> QED  BY <2>1, <2>2, <2>3, <2>4, OneCourse
<1>12. CASE Refused(id)
  <2>1. /\ requests[id] = "travelling" /\ UNCHANGED <<gasCookie, submissions, outcomes>>
        /\ requests' = [requests EXCEPT ![id] = "refused"]
    BY <1>12 DEF Refused
  <2>2. /\ CourseTypes' /\ requests'[id] = "refused"
        /\ \A x \in Operations \ {id} : requests'[x] = requests[x]
    BY <1>a, <2>1 DEF CourseTypes
  <2>3. CourseInTurn(id)' /\ CourseTold(id)'
    BY <1>a, <2>1, <2>2
  <2>4. submissions' \in [Operations -> Submitted]
    BY <2>1 DEF CourseOK
  <2> QED  BY <2>1, <2>2, <2>3, <2>4, OneCourse
<1>13. CASE Ends(id)
  <2>1. outcomes[id] = "underway" /\ UNCHANGED <<gasCookie, submissions, requests>>
    BY <1>13 DEF Ends
  <2>2. PICK end \in Terminal : outcomes' = [outcomes EXCEPT ![id] = end]
    BY <1>13 DEF Ends
  <2>3. /\ CourseTypes' /\ \A x \in Operations \ {id} : outcomes'[x] = outcomes[x]
    BY <1>a, <2>1, <2>2 DEF CourseTypes
  <2>4. CourseInTurn(id)' /\ CourseTold(id)'
    BY <1>a, <2>1
  <2>5. submissions' \in [Operations -> Submitted]
    BY <2>1 DEF CourseOK
  <2> QED  BY <2>1, <2>3, <2>4, <2>5, OneCourse
<1> QED  BY <1>1, <1>2, <1>3, <1>4, <1>5, <1>6, <1>7, <1>8, <1>9, <1>10, <1>11, <1>12, <1>13,
            <1>14 DEF CourseStep

(* The checks keep asking about what was stored when they started.         *)
LEMMA ChecksKept ==
  ASSUME StoreOK, ChecksOK, NEW t \in Tabs, OtherStep(t)
  PROVE  ChecksOK'
<1>1. CASE \E w \in Wallets : CheckStarts(t, w)
  <2>1. PICK w \in Wallets : CheckStarts(t, w)
    BY <1>1
  <2> DEFINE n == Least(Checked, Len(gasIds[w]))
             queue == SubSeq(gasIds[w], 1, n)
  <2>2. gasIds[w] \in Seq(Operations) /\ gasIds[w] # <<>>
    BY <2>1 DEF StoreOK, CheckStarts
  <2>3. n \in Nat /\ n >= 1 /\ n <= Len(gasIds[w])
    BY <2>2, GasClientAssumption DEF Least
  <2> HIDE DEF n
  <2>4. queue \in Seq(Operations) /\ Len(queue) = n
    BY <2>2, <2>3
  <2>5. queue # <<>>
    BY <2>3, <2>4
  <2>6. checks' = [checks EXCEPT ![t] = [wallet |-> w, queue |-> queue]]
    BY <2>1 DEF CheckStarts, n
  <2> HIDE DEF queue
  <2> QED  BY <2>4, <2>5, <2>6 DEF ChecksOK
<1>2. CASE CheckAnswered(t) \/ CheckUnanswered(t)
  <2>1. checks[t] # Unasked /\ NextCheck(t)
    BY <1>2 DEF CheckAnswered, CheckUnanswered
  <2>2. /\ checks[t].queue \in Seq(Operations) /\ checks[t].queue # <<>>
        /\ checks[t] \in [wallet : Wallets \cup {Nothing}, queue : Seq(Operations)]
        /\ checks[t].wallet \in Wallets
    BY <2>1 DEF ChecksOK
  <2>3. CASE Len(checks[t].queue) = 1
    <3>1. checks' = [checks EXCEPT ![t] = Unasked]
      BY <2>1, <2>3 DEF NextCheck, ChecksOK
    <3>2. Unasked \in [wallet : Wallets \cup {Nothing}, queue : Seq(Operations)]
      BY DEF Unasked
    <3> HIDE DEF Unasked
    <3> QED  BY <3>1, <3>2 DEF ChecksOK
  <2>4. CASE Len(checks[t].queue) # 1
    <3> DEFINE queue == checks[t].queue
               next  == [wallet |-> checks[t].wallet, queue |-> Tail(queue)]
    <3>1. checks' = [checks EXCEPT ![t] = next]
      BY <2>1, <2>4 DEF NextCheck
    <3>2. Tail(queue) \in Seq(Operations) /\ Len(Tail(queue)) = Len(queue) - 1
      BY <2>2
    <3>3. Len(queue) \in Nat /\ Len(queue) # 0
      BY <2>2, EmptySeq
    <3>4. Tail(queue) # <<>>
      <4> DEFINE rest == Tail(queue)
      <4>1. Len(rest) # 0
        BY <2>4, <3>2, <3>3
      <4> HIDE DEF rest
      <4>2. rest # <<>>
        BY <4>1
      <4> QED  BY <4>2 DEF rest
    <3>5. next \in [wallet : Wallets \cup {Nothing}, queue : Seq(Operations)]
      BY <2>2, <3>2
    <3>6. next.wallet \in Wallets /\ next.queue # <<>>
      BY <2>2, <3>4
    <3> HIDE DEF next
    <3> QED  BY <3>1, <3>5, <3>6 DEF ChecksOK
  <2> QED  BY <2>3, <2>4
<1> QED  BY <1>1, <1>2 DEF OtherStep

(* An operation that could reach the service before the step, and that the *)
(* step does not forget.                                                   *)
Same(x) == /\ CanReach(x) /\ StaysKnown(x)
           /\ submissions'[x].wallet = submissions[x].wallet

(* What can reach the service stays known if the step forgets only what    *)
(* cannot.                                                                 *)
LEMMA StillSentKnown ==
  ASSUME InTurn, SentKnown,
         \A x \in Operations :
           CanReach(x)' => Known(submissions[x].wallet, x)' \/ Same(x)
  PROVE  SentKnown'
<1> SUFFICES ASSUME NEW x \in Operations, CanReach(x)'
             PROVE  Known(submissions[x].wallet, x)'
  BY DEF SentKnown
<1>1. CASE Same(x)
  <2>1. submissions[x].wallet \in Wallets
    BY <1>1 DEF Same, CanReach, InTurn
  <2>2. Known(submissions[x].wallet, x)
    BY <1>1 DEF Same, SentKnown
  <2> QED  BY <1>1, <2>1, <2>2 DEF Same, StaysKnown, Known
<1> QED  BY <1>1

LEMMA SentKnownKept ==
  ASSUME StoreOK, CourseOK, InTurn, SentKnown, NEW id \in Operations, CourseStep(id)
  PROVE  StoreOK' /\ SentKnown'
<1> DEFINE wallet == submissions[id].wallet
<1>1. CASE \E w \in Wallets : Submit(id, w)
  <2>1. PICK w \in Wallets : Submit(id, w)
    BY <1>1
  <2>2. /\ StoreOK' /\ Known(w, id)'
        /\ \A x \in Operations \ {id} : StaysKnown(x)
    BY <2>1, StoringAnother DEF Submit
  <2>3. \A x \in Operations \ {id} : submissions'[x] = submissions[x]
    BY <2>1 DEF Submit, CourseOK
  <2>4. submissions'[id].wallet = w
    BY <2>1 DEF Submit, CourseOK, Submitted
  <2>5. \A x \in Operations \ {id} : CanReach(x)' => Same(x)
    BY <2>1, <2>2, <2>3 DEF Submit, CanReach, Same
  <2>6. Known(submissions[id].wallet, id)'
    BY <2>2, <2>4 DEF Known
  <2>7. \A x \in Operations :
          CanReach(x)' => Known(submissions[x].wallet, x)' \/ Same(x)
    <3> SUFFICES ASSUME NEW x \in Operations, CanReach(x)'
                 PROVE  Known(submissions[x].wallet, x)' \/ Same(x)
      OBVIOUS
    <3>1. CASE x = id
      BY <2>6, <3>1
    <3>2. CASE x # id
      BY <2>5, <3>2
    <3> QED  BY <3>1, <3>2
  <2> QED  BY <2>2, <2>7, StillSentKnown
<1>2. CASE Unauthorized(id) \/ PostRefused(id)
  <2>1. wallet \in Wallets /\ Forget(wallet, id) /\ learned' = learned
    BY <1>2 DEF Unauthorized, PostRefused, InTurn
  <2>2. StoreOK' /\ \A x \in Operations \ {id} : StaysKnown(x)
    BY <2>1, StoringAnother
  <2>3. /\ Tell(id, "failed") /\ requests' = requests /\ outcomes' = outcomes
        /\ requests[id] \in {"none", "refused"}
    BY <1>2 DEF Unauthorized, PostRefused, InTurn
  <2>4. ~CanReach(id)'
    BY <2>3 DEF Tell, CanReach, CourseOK, InTurn, Submitted
  <2>5. \A x \in Operations \ {id} : submissions'[x] = submissions[x]
    BY <2>3 DEF Tell, CourseOK
  <2>6. \A x \in Operations \ {id} : CanReach(x)' => Same(x)
    BY <2>2, <2>3, <2>5 DEF CanReach, Same
  <2>7. \A x \in Operations : CanReach(x)' => Same(x)
    <3> SUFFICES ASSUME NEW x \in Operations, CanReach(x)'
                 PROVE  Same(x)
      OBVIOUS
    <3>1. x # id
      BY <2>4
    <3> QED  BY <2>6, <3>1
  <2> QED  BY <2>2, <2>7, StillSentKnown
<1>3. CASE PostAnswered(id) \/ StatusAnswered(id)
  <2>1. wallet \in Wallets
    BY <1>3 DEF PostAnswered, StatusAnswered, InTurn
  <2>2. PICK status : Observe(wallet, id, status)
    BY <1>3 DEF PostAnswered, StatusAnswered
  <2>3. StoreOK' /\ \A x \in Operations : StaysKnown(x)
    BY <2>1, <2>2, Observing
  <2>4. /\ requests' = requests /\ outcomes' = outcomes
        /\ submissions[id].at \in {"posted", "status"}
    BY <1>3 DEF PostAnswered, StatusAnswered
  <2>5. PICK status2 : Tell(id, status2) \/ At(id, "status") \/ At(id, "confirming")
    BY <1>3 DEF PostAnswered, StatusAnswered, TellEnd
  <2>6. \A x \in Operations :
          /\ submissions'[x].wallet = submissions[x].wallet
          /\ submissions'[x].at = submissions[x].at
             \/ submissions'[x].at \in {"told", "status", "confirming"}
    BY <2>5 DEF Tell, At, CourseOK, Submitted
  <2>7. \A x \in Operations : CanReach(x)' => Same(x)
    BY <2>3, <2>4, <2>6 DEF CanReach, Same
  <2> QED  BY <2>3, <2>7, StillSentKnown
<1>4. CASE \/ Authorized(id) \/ Post(id) \/ PostUnresolved(id) \/ StatusUnanswered(id)
           \/ Confirmed(id) \/ Abandon(id) \/ Taken(id) \/ Refused(id) \/ Ends(id)
  <2>1. StoreOK' /\ \A x \in Operations : StaysKnown(x)
    BY <1>4, NothingStored DEF Authorized, Post, PostUnresolved, StatusUnanswered,
         Confirmed, Abandon, Taken, Refused, Ends
  <2>2. \A x \in Operations :
          CanReach(x)' => CanReach(x) /\ submissions'[x].wallet = submissions[x].wallet
    <3> USE DEF CourseOK, InTurn, Submitted, CanReach
    <3>1. CASE Authorized(id)
      BY <3>1 DEF Authorized, At
    <3>2. CASE Post(id)
      BY <3>2 DEF Post, At
    <3>3. CASE PostUnresolved(id)
      BY <3>3 DEF PostUnresolved, Tell
    <3>4. CASE StatusUnanswered(id)
      BY <3>4 DEF StatusUnanswered, Tell
    <3>5. CASE Abandon(id)
      BY <3>5 DEF Abandon, At
    <3>6. CASE Taken(id)
      BY <3>6 DEF Taken
    <3>7. CASE Refused(id)
      BY <3>7 DEF Refused
    <3>8. CASE Ends(id)
      BY <3>8 DEF Ends
    <3>9. CASE Confirmed(id)
      BY <3>9 DEF Confirmed, Tell
    <3> QED  BY <1>4, <3>1, <3>2, <3>3, <3>4, <3>5, <3>6, <3>7, <3>8, <3>9
  <2> QED  BY <2>1, <2>2, StillSentKnown DEF Same
<1> QED  BY <1>1, <1>2, <1>3, <1>4 DEF CourseStep

LEMMA ChecksKeepKnown ==
  ASSUME StoreOK, ChecksOK, InTurn, SentKnown, NEW t \in Tabs, OtherStep(t)
  PROVE  StoreOK' /\ SentKnown'
<1>1. StoreOK' /\ \A x \in Operations : StaysKnown(x)
  <2>1. CASE (\E w \in Wallets : CheckStarts(t, w)) \/ CheckUnanswered(t)
    BY <2>1, NothingStored DEF CheckStarts, CheckUnanswered
  <2>2. CASE CheckAnswered(t)
    <3>1. /\ checks[t].wallet \in Wallets
          /\ checks[t].queue \in Seq(Operations) /\ checks[t].queue # <<>>
      BY <2>2 DEF CheckAnswered, ChecksOK
    <3>2. Head(checks[t].queue) \in Operations
      BY <3>1
    <3>3. PICK status : Observe(checks[t].wallet, Head(checks[t].queue), status)
      BY <2>2 DEF CheckAnswered
    <3> QED  BY <3>1, <3>2, <3>3, Observing
  <2> QED  BY <2>1, <2>2 DEF OtherStep
<1>2. UNCHANGED <<submissions, requests, outcomes>>
  BY DEF OtherStep, CheckStarts, CheckAnswered, CheckUnanswered
<1>3. \A x \in Operations : CanReach(x)' =>
        CanReach(x) /\ submissions'[x].wallet = submissions[x].wallet
  BY <1>2 DEF CanReach
<1> QED  BY <1>1, <1>3, StillSentKnown DEF Same
-----------------------------------------------------------------------------
LEMMA GasClientStep == GasClientInv /\ [GasClientNext]_gasVars => GasClientInv'
<1> SUFFICES ASSUME GasClientInv, [GasClientNext]_gasVars
             PROVE  GasClientInv'
  OBVIOUS
<1> USE DEF GasClientInv
<1>1. ASSUME NEW id \in Operations, CourseStep(id)
      PROVE  GasClientInv'
  <2>1. checks' = checks
    BY <1>1 DEF CourseStep, Submit, Authorized, Unauthorized, Post, PostUnresolved,
         PostRefused, PostAnswered, StatusAnswered, StatusUnanswered, Confirmed,
         Abandon, Taken, Refused, Ends
  <2>2. ChecksOK'
    BY <2>1 DEF ChecksOK
  <2> QED  BY <1>1, <2>2, CourseKept, SentKnownKept
<1>2. ASSUME NEW t \in Tabs, OtherStep(t)
      PROVE  GasClientInv'
  <2>1. UNCHANGED <<gasCookie, submissions, requests, outcomes>>
    BY <1>2 DEF OtherStep, CheckStarts, CheckAnswered, CheckUnanswered
  <2>2. CourseOK' /\ InTurn' /\ ToldTruly'
    BY <2>1 DEF CourseOK, InTurn, ToldTruly
  <2> QED  BY <1>2, <2>2, ChecksKept, ChecksKeepKnown
<1>3. CASE SessionExpires \/ UNCHANGED gasVars
  <2>1. /\ UNCHANGED <<gasIds, submissions, requests, outcomes, checks, learned, displaced>>
        /\ gasCookie' \in {gasCookie, Nothing}
    BY <1>3 DEF SessionExpires, gasVars
  <2>2. CourseOK' /\ InTurn' /\ ToldTruly' /\ ChecksOK'
    BY <2>1 DEF CourseOK, InTurn, ToldTruly, ChecksOK
  <2>3. StoreOK' /\ SentKnown'
    BY <2>1 DEF StoreOK, SentKnown, CanReach, Known, Has
  <2> QED  BY <2>2, <2>3
<1> QED  BY <1>1, <1>2, <1>3, GasClientCases

LEMMA GasClientAlwaysInv == GasClientSpec => []GasClientInv
BY GasClientInitInv, GasClientStep, PTL DEF GasClientSpec

(***************************************************************************)
(* The stored ids, the session and the course of every operation have      *)
(* their types; no more than Kept ids are stored and none twice            *)
(* (rememberGasOperation).                                                 *)
(***************************************************************************)
THEOREM GasClientTypeCorrect == GasClientSpec => []GasClientTypeOK
<1>1. GasClientInv => GasClientTypeOK
  BY DEF GasClientInv, GasClientTypeOK, StoreOK, ChecksOK, CourseOK, Submitted
<1> QED  BY <1>1, GasClientAlwaysInv, PTL

(***************************************************************************)
(* What submitGasOperation told the user stays true, whatever is lost,     *)
(* late or done by other tabs.                                             *)
(***************************************************************************)
THEOREM AlwaysToldTruly == GasClientSpec => []ToldTruly
<1>1. GasClientInv => ToldTruly
  BY DEF GasClientInv
<1> QED  BY <1>1, GasClientAlwaysInv, PTL

(***************************************************************************)
(* What may have reached the service is listed for recovery until its end  *)
(* is known (rememberGasOperation, forgetGasOperation).                    *)
(***************************************************************************)
THEOREM UnsettledAlwaysRemembered == GasClientSpec => []UnsettledRemembered
<1>1. GasClientInv => UnsettledRemembered
  BY DEF GasClientInv, SentKnown, CanReach, Known, UnsettledRemembered
<1> QED  BY <1>1, GasClientAlwaysInv, PTL
-----------------------------------------------------------------------------
(* What the client counts on from the service behind it, which GasStation  *)
(* is shown to do.                                                         *)
Counted == INSTANCE OperationOutcomes WITH Ids <- Operations, outcome <- outcomes

(* A session of the wallet may get any answer that may be said, ...        *)
LEMMA AnswersCounted ==
  ASSUME NEW id \in Operations, NEW w \in Wallets
  PROVE  StatusFor(id, w) = IF gasCookie = w THEN Counted!Sayable(id) ELSE {}
BY DEF StatusFor, Statuses, Terminal, Counted!Sayable, Counted!Ends

(* ... and operations are taken and end as OperationOutcomes says.         *)
LEMMA ClientCountsOnOutcomes == GasClientSpec => Counted!OutcomesSpec
<1>1. GasClientInit => Counted!OutcomesInit
  BY DEF GasClientInit, Counted!OutcomesInit
<1>2. GasClientInv /\ [GasClientNext]_gasVars => [Counted!OutcomesNext]_outcomes
  <2> SUFFICES ASSUME GasClientInv, [GasClientNext]_gasVars
               PROVE  [Counted!OutcomesNext]_outcomes
    OBVIOUS
  <2>1. ASSUME NEW id \in Operations, Taken(id) PROVE Counted!Take(id)
    BY <2>1 DEF Taken, Counted!Take, GasClientInv, CourseOK, InTurn
  <2>2. ASSUME NEW id \in Operations, Ends(id) PROVE Counted!End(id)
    BY <2>2 DEF Ends, Terminal, Counted!End, Counted!Ends
  <2>3. CASE UNCHANGED outcomes
    BY <2>3
  <2> QED
    BY <2>1, <2>2, <2>3
       DEF GasClientNext, gasVars, Submit, Authorized, Unauthorized, Post,
           PostUnresolved, PostRefused, PostAnswered, StatusAnswered, StatusUnanswered,
           Confirmed, Abandon, Refused, CheckStarts, CheckAnswered, CheckUnanswered, SessionExpires,
           Counted!OutcomesNext
<1> QED
  BY <1>1, <1>2, GasClientAlwaysInv, PTL DEF GasClientSpec, Counted!OutcomesSpec

(***************************************************************************)
(* WalletKit, for any number of calls of the page under way at once.       *)
(***************************************************************************)
Call == [kind : {"none", "mount", "sync", "connect", "disconnect"},
         at : {"end", "init", "modal", "address", "network", "leaving"}, address : Account]

Snapshots == [status : {"disconnected", "connecting", "connected"},
              address : Account, cached : BOOLEAN]

(* A call that shows an address has it from the kit; nothing is asked of a *)
(* kit that is not there, and until it is the page is being set up.        *)
CallsOK ==
  /\ \A c \in Calls : /\ calls[c].at = "network" => calls[c].address \in given
                      /\ calls[c].at = "modal" => calls[c].kind = "connect"
                      /\ kit # "ready" => calls[c].at \in {"end", "init"}
  /\ kit = "loading" => \E c \in Calls : calls[c] = Mounting

(* Once the user has disconnected no call has an address or can get one.   *)
LeftOK ==
  left => /\ kit = "broken" \/ (kit = "ready" /\ account = Nothing)
          /\ \A c \in Calls : calls[c].at # "network"

WalletInv == WalletTypeOK /\ CallsOK /\ LeftOK /\ OwnWalletShown
-----------------------------------------------------------------------------
LEMMA WalletShapes ==
  /\ NoCall \in Call /\ Syncing \in Call /\ Mounting \in Call
  /\ NoCall.at = "end" /\ NoCall.kind = "none"
  /\ Syncing.at = "address" /\ Syncing.kind = "sync"
  /\ Mounting.at = "init" /\ Mounting.kind = "mount" /\ Mounting # NoCall
  /\ NotConnected \in Snapshots /\ NotConnected.address = Nothing
  /\ NotConnected.status = "disconnected" /\ NotConnected.cached = FALSE
  /\ \A w \in Wallets : /\ Connected(w) \in Snapshots /\ Connected(w).address = w
                        /\ Connected(w).cached = FALSE /\ Connected(w).status = "connected"
  /\ Unsaved \in [address : Account, old : BOOLEAN] /\ Unsaved.address = Nothing
BY DEF Call, NoCall, Syncing, Mounting, Account, NotConnected, Connected, Snapshots, Unsaved

(* One call moves, and the others stay where they are, ...                 *)
LEMMA CallMoves ==
  ASSUME calls \in [Calls -> Call], NEW c \in Calls, NEW call \in Call
  PROVE  /\ With(c, call) \in [Calls -> Call] /\ With(c, call)[c] = call
         /\ \A x \in Calls : x # c => With(c, call)[x] = calls[x]
BY DEF With

(* ... and an event of the kit may start a sync in a free place.           *)
LEMMA SyncStarts ==
  ASSUME NEW others \in [Calls -> Call], WithSync(others)
  PROVE  /\ calls' \in [Calls -> Call]
         /\ \A x \in Calls : calls'[x] = others[x] \/ (others[x] = NoCall /\ calls'[x] = Syncing)
BY WalletShapes DEF WithSync

(* A step that only moves a call on, without an address and without ending *)
(* it, keeps the invariant.                                                *)
LEMMA WalletGoesOn ==
  ASSUME WalletInv, NEW c \in Calls, NEW at \in {"modal", "address", "leaving"},
         at = "modal" => calls[c].kind = "connect",
         calls[c].kind # "none", calls[c] # Mounting, kit = "ready",
         \/ calls' = With(c, [calls[c] EXCEPT !.at = at])
         \/ WithSync(With(c, [calls[c] EXCEPT !.at = at])),
         account' \in Account, left' = (left /\ account' = Nothing) \/ left' = FALSE,
         \/ UNCHANGED shown
         \/ shown' = NotConnected,
         saved' \in [address : Account, old : BOOLEAN],
         UNCHANGED <<kit, subscribed, given>>
  PROVE  WalletInv'
<1> DEFINE call == [calls[c] EXCEPT !.at = at]
<1>1. /\ calls \in [Calls -> Call] /\ shown \in Snapshots
      /\ call \in Call /\ call.at = at /\ call.kind = calls[c].kind
  BY DEF WalletInv, WalletTypeOK, Call, Snapshots
<1> HIDE DEF call
<1>8. /\ With(c, call) \in [Calls -> Call] /\ With(c, call)[c] = call /\ call # NoCall
      /\ \A x \in Calls : x # c => With(c, call)[x] = calls[x]
  BY <1>1, CallMoves, WalletShapes
<1>9. calls' = With(c, call) \/ WithSync(With(c, call))
  BY DEF call
<1>2. /\ calls' \in [Calls -> Call]
      /\ \A x \in Calls : \/ calls'[x] = calls[x]
                          \/ x = c /\ calls'[x].at = at /\ calls'[x].kind = calls[x].kind
                          \/ calls[x] = NoCall /\ calls'[x] = Syncing
  <2>1. CASE calls' = With(c, call)
    BY <1>1, <1>8, <2>1
  <2>2. CASE WithSync(With(c, call))
    <3>1. /\ calls' \in [Calls -> Call]
          /\ \A x \in Calls : \/ calls'[x] = With(c, call)[x]
                              \/ With(c, call)[x] = NoCall /\ calls'[x] = Syncing
      BY <1>8, <2>2, SyncStarts
    <3> QED  BY <1>1, <1>8, <3>1
  <2> QED  BY <1>9, <2>1, <2>2
<1>3. CallsOK'
  BY <1>2, WalletShapes DEF WalletInv, CallsOK
<1>4. LeftOK'
  <2>1. left' => left /\ account' = Nothing
    OBVIOUS
  <2>2. \A x \in Calls : calls[x].at # "network" => calls'[x].at # "network"
    BY <1>2, WalletShapes
  <2> QED  BY <2>1, <2>2 DEF WalletInv, LeftOK
<1>5. \A x \in Calls : calls[x].kind \in {"mount", "sync"} => calls'[x].kind \in {"mount", "sync"}
  BY <1>2, WalletShapes
<1>6. OwnWalletShown'
  BY <1>5, WalletShapes DEF WalletInv, OwnWalletShown
<1>7. WalletTypeOK'
  BY <1>1, <1>2, WalletShapes DEF WalletInv, WalletTypeOK, Snapshots, Call
<1> QED  BY <1>3, <1>4, <1>6, <1>7 DEF WalletInv

(* A step that ends a call by showing no wallet, or the one the call got   *)
(* from the kit, keeps it.                                                 *)
LEMMA WalletCallEnds ==
  ASSUME WalletInv, NEW c \in Calls, calls[c] # Mounting, calls' = With(c, NoCall),
         NEW address \in Account, address = Nothing \/ (address \in given /\ ~left'),
         shown' = IF address = Nothing THEN NotConnected ELSE Connected(address),
         saved' \in [address : Account, old : BOOLEAN],
         left' \in BOOLEAN,
         left' => \/ left
                  \/ /\ kit = "broken" \/ (kit = "ready" /\ account = Nothing)
                     /\ \A x \in Calls : calls[x].at # "network",
         UNCHANGED <<kit, account, subscribed, given>>
  PROVE  WalletInv'
<1>1. calls \in [Calls -> Call] /\ given \subseteq Wallets
  BY DEF WalletInv, WalletTypeOK, Call
<1>2. /\ calls' \in [Calls -> Call]
      /\ \A x \in Calls : calls'[x] = calls[x] \/ (x = c /\ calls'[x] = NoCall)
  BY <1>1, CallMoves, WalletShapes
<1>3. CallsOK'
  BY <1>2, WalletShapes DEF WalletInv, CallsOK
<1>4. LeftOK'
  BY <1>2, WalletShapes DEF WalletInv, LeftOK
<1>5. shown' \in Snapshots /\ ~shown'.cached /\ (shown'.address = address)
      /\ (shown'.status = "connected" => address \in given)
  BY <1>1, WalletShapes
<1>6. left' => address = Nothing
  OBVIOUS
<1>7. OwnWalletShown'
  BY <1>5, <1>6 DEF OwnWalletShown
<1>8. WalletTypeOK'
  BY <1>2, <1>5 DEF WalletInv, WalletTypeOK, Snapshots, Call
<1> QED  BY <1>3, <1>4, <1>7, <1>8 DEF WalletInv

(* A page is set up without an address of the kit, with a copy at most.    *)
LEMMA WalletSetUp ==
  ASSUME NEW first \in Calls, calls' = [c \in Calls |-> IF c = first THEN Mounting ELSE NoCall],
         kit' = "loading", subscribed' = FALSE, given' = {}, left' = FALSE,
         account' \in Account, saved' \in [address : Account, old : BOOLEAN],
         shown' \in Snapshots, shown'.status = "connected" => shown'.cached
  PROVE  WalletInv'
<1>1. calls' \in [Calls -> Call] /\ CallsOK'
  BY WalletShapes DEF CallsOK
<1>2. WalletTypeOK' /\ LeftOK' /\ OwnWalletShown'
  BY <1>1 DEF WalletTypeOK, LeftOK, OwnWalletShown, Snapshots, Call
<1> QED  BY <1>1, <1>2 DEF WalletInv

LEMMA WalletInitInv == WalletInit => WalletInv
<1> SUFFICES ASSUME WalletInit PROVE WalletInv
  OBVIOUS
<1>1. PICK first \in Calls : calls = [c \in Calls |-> IF c = first THEN Mounting ELSE NoCall]
  BY DEF WalletInit
<1>2. calls \in [Calls -> Call] /\ CallsOK
  BY <1>1, WalletShapes DEF CallsOK, WalletInit
<1>3. WalletTypeOK /\ LeftOK /\ OwnWalletShown
  BY <1>2, WalletShapes
     DEF WalletInit, WalletTypeOK, LeftOK, OwnWalletShown, Snapshots, Call, Account
<1> QED  BY <1>2, <1>3 DEF WalletInv

(* Every step of the wallet keeps the invariant.                           *)
LEMMA WalletStep == WalletInv /\ [WalletNext]_walletVars => WalletInv'
<1> SUFFICES ASSUME WalletInv, [WalletNext]_walletVars PROVE WalletInv'
  OBVIOUS
<1>a. /\ calls \in [Calls -> Call] /\ shown \in Snapshots /\ account \in Account
      /\ saved \in [address : Account, old : BOOLEAN] /\ left \in BOOLEAN
      /\ kit \in {"loading", "ready", "broken"} /\ Nothing \in Account
      /\ Wallets \subseteq Account
  BY DEF WalletInv, WalletTypeOK, Call, Snapshots, Account
<1>b. \A c \in Calls : calls[c].at \notin {"end", "init"} => kit = "ready" /\ calls[c] # Mounting
  BY WalletShapes DEF WalletInv, CallsOK
<1>1. CASE KitLoads
  <2>1. CallsOK' /\ LeftOK' /\ WalletTypeOK'
    BY <1>1 DEF KitLoads, WalletInv, CallsOK, LeftOK, WalletTypeOK
  <2>2. kit' = "ready" => \E c \in Calls : calls'[c].kind \in {"mount", "sync"}
    BY <1>1, WalletShapes DEF KitLoads, WalletInv, CallsOK
  <2>3. OwnWalletShown'
    BY <1>1, <2>2 DEF KitLoads, WalletInv, OwnWalletShown
  <2> QED  BY <2>1, <2>3 DEF WalletInv
<1>2. CASE KitUpdates
  <2>1. /\ calls' \in [Calls -> Call]
        /\ \A x \in Calls : calls'[x] = calls[x] \/ (calls[x] = NoCall /\ calls'[x] = Syncing)
    BY <1>2, <1>a, SyncStarts DEF KitUpdates
  <2>2. CallsOK' /\ LeftOK'
    <3>1. \A x \in Calls : calls'[x].at \in {"network", "modal"} => calls'[x] = calls[x]
      BY <2>1, WalletShapes
    <3>2. CallsOK'
      BY <1>2, <3>1 DEF KitUpdates, WalletInv, CallsOK
    <3>3. left' => left /\ account' = Nothing /\ kit = "ready"
      BY <1>2 DEF KitUpdates
    <3>4. LeftOK'
      BY <1>2, <3>1, <3>3 DEF KitUpdates, WalletInv, LeftOK
    <3> QED  BY <3>2, <3>4
  <2>3. \A x \in Calls : calls[x].kind \in {"mount", "sync"} => calls'[x].kind \in {"mount", "sync"}
    BY <2>1, WalletShapes
  <2>4. OwnWalletShown'
    BY <1>2, <2>3 DEF KitUpdates, WalletInv, OwnWalletShown
  <2>5. WalletTypeOK'
    BY <1>2, <2>1 DEF KitUpdates, WalletInv, WalletTypeOK, Call
  <2> QED  BY <2>2, <2>4, <2>5 DEF WalletInv
<1>3. CASE KitDisconnects
  <2>1. /\ kit = "ready" /\ account' = Nothing /\ UNCHANGED <<kit, subscribed, calls, given, left>>
        /\ saved' = saved \/ saved' = Unsaved
        /\ shown' = shown \/ shown' = NotConnected
    BY <1>3 DEF KitDisconnects, Cleared
  <2>2. CallsOK' /\ LeftOK' /\ OwnWalletShown'
    BY <2>1, WalletShapes DEF WalletInv, CallsOK, LeftOK, OwnWalletShown
  <2>3. WalletTypeOK'
    BY <1>a, <2>1, WalletShapes DEF WalletInv, WalletTypeOK, Snapshots
  <2> QED  BY <2>2, <2>3 DEF WalletInv
<1>4. CASE Ages \/ OtherTab \/ UNCHANGED walletVars
  <2>1. /\ UNCHANGED <<kit, account, subscribed, calls, shown, given, left>>
        /\ saved' \in [address : Account, old : BOOLEAN]
    <3>1. CASE Ages
      <4>1. [saved EXCEPT !.old = TRUE] \in [address : Account, old : BOOLEAN]
        BY <1>a
      <4> QED  BY <3>1, <4>1 DEF Ages
    <3>2. CASE OtherTab
      <4>1. \A w \in Wallets : [address |-> w, old |-> FALSE] \in [address : Account, old : BOOLEAN]
        BY <1>a
      <4>2. UNCHANGED <<kit, account, subscribed, calls, shown, given, left>>
        BY <3>2 DEF OtherTab
      <4>3. saved' = Unsaved \/ \E w \in Wallets : saved' = [address |-> w, old |-> FALSE]
        BY <3>2 DEF OtherTab
      <4>4. saved' \in [address : Account, old : BOOLEAN]
        BY <4>1, <4>3, WalletShapes
      <4> QED  BY <4>2, <4>4
    <3>3. CASE UNCHANGED walletVars
      BY <3>3, <1>a DEF walletVars
    <3> QED  BY <1>4, <3>1, <3>2, <3>3
  <2> QED  BY <2>1 DEF WalletInv, WalletTypeOK, CallsOK, LeftOK, OwnWalletShown
<1>5. CASE Reload
  <2>1. saved' \in [address : Account, old : BOOLEAN]
    BY <1>5, <1>a, WalletShapes DEF Reload, Mounted
  <2>2. shown' \in Snapshots /\ (shown'.status = "connected" => shown'.cached)
    <3>1. CASE saved'.address = Nothing
      BY <1>5, <3>1, WalletShapes DEF Reload, Mounted
    <3>2. CASE saved'.address # Nothing
      <4>1. shown' = [Connected(saved'.address) EXCEPT !.cached = TRUE]
        BY <1>5, <3>2, WalletShapes DEF Reload, Mounted
      <4>2. Connected(saved'.address) \in Snapshots
        BY <2>1, <3>2, WalletShapes DEF Account
      <4> QED  BY <4>1, <4>2 DEF Snapshots
    <3> QED  BY <3>1, <3>2
  <2> QED  BY <1>5, <1>a, <2>1, <2>2, WalletSetUp DEF Reload, Mounted
<1>6. ASSUME NEW c \in Calls, MountEnds(c) PROVE WalletInv'
  <2>1. /\ kit # "loading" /\ subscribed' \in BOOLEAN
        /\ UNCHANGED <<kit, account, shown, saved, given, left>>
        /\ calls' \in [Calls -> Call]
        /\ \A x \in Calls : \/ calls'[x] = calls[x]
                            \/ x = c /\ calls'[x] = IF kit = "ready" THEN Syncing ELSE NoCall
    BY <1>6, <1>a, CallMoves, WalletShapes DEF MountEnds
  <2>2. CallsOK' /\ LeftOK'
    BY <2>1, WalletShapes DEF WalletInv, CallsOK, LeftOK
  <2>3. kit = "ready" =>
          \A x \in Calls : calls[x].kind \in {"mount", "sync"} => calls'[x].kind \in {"mount", "sync"}
    BY <2>1, WalletShapes
  <2>4. OwnWalletShown'
    BY <2>1, <2>3 DEF WalletInv, OwnWalletShown
  <2>5. WalletTypeOK'
    BY <2>1 DEF WalletInv, WalletTypeOK, Call
  <2> QED  BY <2>2, <2>4, <2>5 DEF WalletInv
<1>7. ASSUME NEW c \in Calls, NEW call \in Call, call.at = "init", calls[c] = NoCall,
             calls' = With(c, call), UNCHANGED <<kit, account, subscribed, saved, given, left>>,
             \/ UNCHANGED shown
             \/ shown' = [shown EXCEPT !.status = "connecting"]
       PROVE  WalletInv'
  <2>1. /\ calls' \in [Calls -> Call]
        /\ \A x \in Calls : calls'[x] = calls[x] \/ (x = c /\ calls'[x] = call)
    BY <1>7, <1>a, CallMoves
  <2>2. CallsOK' /\ LeftOK'
    BY <1>7, <2>1, WalletShapes DEF WalletInv, CallsOK, LeftOK
  <2>3. \A x \in Calls : calls[x].kind \in {"mount", "sync"} => calls'[x].kind \in {"mount", "sync"}
    BY <1>7, <2>1, WalletShapes
  <2>4. /\ shown' \in Snapshots /\ shown'.address = shown.address /\ shown'.cached = shown.cached
        /\ shown'.status = "connected" => shown.status = "connected"
    BY <1>7, <1>a DEF Snapshots
  <2>5. OwnWalletShown'
    BY <1>7, <2>3, <2>4 DEF WalletInv, OwnWalletShown
  <2>6. WalletTypeOK'
    BY <1>7, <2>1, <2>4 DEF WalletInv, WalletTypeOK, Call, Snapshots
  <2> QED  BY <2>2, <2>5, <2>6 DEF WalletInv
<1>8. ASSUME NEW c \in Calls, Connect(c) \/ Disconnect(c) PROVE WalletInv'
  <2>1. PICK kind \in {"connect", "disconnect"} :
          calls' = With(c, [NoCall EXCEPT !.kind = kind, !.at = "init"])
    BY <1>8 DEF Connect, Disconnect
  <2> DEFINE call == [NoCall EXCEPT !.kind = kind, !.at = "init"]
  <2>2. call \in Call /\ call.at = "init"
    BY DEF NoCall, Call, Account
  <2> HIDE DEF call
  <2>3. calls' = With(c, call)
    BY <2>1 DEF call
  <2> QED  BY <1>7, <1>8, <2>2, <2>3 DEF Connect, Disconnect
<1>9. ASSUME NEW c \in Calls, ModalOpens(c) PROVE WalletInv'
  <2>1. /\ calls[c].kind = "connect" /\ kit = "ready"
        /\ calls' = With(c, [calls[c] EXCEPT !.at = "modal"])
        /\ UNCHANGED <<kit, account, subscribed, shown, saved, given, left>>
    BY <1>9 DEF ModalOpens
  <2>2. calls[c].kind # "none" /\ calls[c] # Mounting
    BY <2>1, WalletShapes
  <2>3. left' = (left /\ account' = Nothing) \/ left' = FALSE
    BY <1>a, <2>1 DEF WalletInv, LeftOK
  <2> QED  BY <1>a, <2>1, <2>2, <2>3, WalletGoesOn
<1>10. ASSUME NEW c \in Calls, ModalCloses(c) PROVE WalletInv'
  <2>1. /\ calls[c].at = "modal" /\ account' \in Wallets /\ left' = FALSE
        /\ WithSync(With(c, [calls[c] EXCEPT !.at = "address"]))
        /\ UNCHANGED <<kit, subscribed, shown, saved, given>>
    BY <1>10 DEF ModalCloses
  <2>2. calls[c].kind = "connect" /\ calls[c] # Mounting /\ kit = "ready"
    BY <1>b, <2>1, WalletShapes DEF WalletInv, CallsOK
  <2>3. account' \in Account
    BY <1>a, <2>1
  <2> QED  BY <1>a, <2>1, <2>2, <2>3, WalletGoesOn
<1>11. ASSUME NEW c \in Calls, ConnectCancelled(c) PROVE WalletInv'
  BY <1>11, <1>a, <1>b, WalletCallEnds DEF ConnectCancelled
<1>12. ASSUME NEW c \in Calls, ConnectFails(c) PROVE WalletInv'
  BY <1>12, <1>a, <1>b, WalletCallEnds, WalletShapes DEF ConnectFails
<1>13. ASSUME NEW c \in Calls, NoAddress(c) PROVE WalletInv'
  <2>1. saved' \in [address : Account, old : BOOLEAN]
    BY <1>13, WalletShapes DEF NoAddress, Publish
  <2> QED  BY <1>13, <1>a, <1>b, <2>1, WalletCallEnds DEF NoAddress, Publish
<1>14. ASSUME NEW c \in Calls, ReadAddress(c) PROVE WalletInv'
  <2> DEFINE call == [calls[c] EXCEPT !.at = "network", !.address = account]
  <2>1. /\ kit = "ready" /\ account \in Wallets /\ given' = given \cup {account} /\ ~left
        /\ UNCHANGED <<kit, account, subscribed, shown, saved, left>>
    BY <1>14, <1>a, <1>b DEF ReadAddress, Account, WalletInv, LeftOK
  <2>2. call \in Call /\ call.address = account /\ call.kind = calls[c].kind /\ call.at = "network"
    BY <1>a DEF Call
  <2> HIDE DEF call
  <2>3. /\ calls' \in [Calls -> Call]
        /\ \A x \in Calls : calls'[x] = calls[x] \/ (x = c /\ calls'[x] = call)
    BY <1>14, <1>a, <2>2, CallMoves DEF ReadAddress, call
  <2>4. CallsOK' /\ LeftOK'
    BY <2>1, <2>2, <2>3 DEF WalletInv, CallsOK, LeftOK
  <2>5. \A x \in Calls : calls'[x].kind = calls[x].kind
    BY <2>2, <2>3
  <2>6. OwnWalletShown'
    BY <2>1, <2>5 DEF WalletInv, OwnWalletShown
  <2>7. WalletTypeOK'
    BY <2>1, <2>3 DEF WalletInv, WalletTypeOK, Call
  <2> QED  BY <2>4, <2>6, <2>7 DEF WalletInv
<1>15. ASSUME NEW c \in Calls, SnapshotRead(c) PROVE WalletInv'
  <2>1. calls[c].address \in given /\ ~left /\ given \subseteq Wallets
    BY <1>15 DEF SnapshotRead, WalletInv, CallsOK, LeftOK, WalletTypeOK
  <2>2. calls[c].address \in Account
    BY <1>a, <2>1
  <2>3. saved' \in [address : Account, old : BOOLEAN]
    BY <1>15, <2>2, WalletShapes DEF SnapshotRead, Publish
  <2> QED  BY <1>15, <1>a, <1>b, <2>1, <2>2, <2>3, WalletCallEnds DEF SnapshotRead, Publish
<1>16. ASSUME NEW c \in Calls, KitLeaves(c) PROVE WalletInv'
  <2>1. /\ saved' \in [address : Account, old : BOOLEAN]
        /\ shown' = shown \/ shown' = NotConnected
    BY <1>16, <1>a, WalletShapes DEF KitLeaves, Cleared
  <2>2. calls[c].kind # "none" /\ calls[c] # Mounting /\ kit = "ready"
        /\ account' = Nothing /\ left' = left /\ UNCHANGED <<kit, subscribed, given>>
        /\ WithSync(With(c, [calls[c] EXCEPT !.at = "leaving"]))
    BY <1>16, WalletShapes DEF KitLeaves
  <2>3. left' = (left /\ account' = Nothing)
    BY <2>2, <1>a
  <2> QED  BY <1>a, <2>1, <2>2, <2>3, WalletGoesOn
<1>17. ASSUME NEW c \in Calls, DisconnectEnds(c) PROVE WalletInv'
  <2>1. /\ saved' \in [address : Account, old : BOOLEAN]
        /\ shown' = NotConnected /\ calls' = With(c, NoCall)
        /\ UNCHANGED <<kit, account, subscribed, given>> /\ calls[c] # Mounting
    BY <1>17, <1>a, WalletShapes DEF DisconnectEnds, Left
  <2>2. /\ left' \in BOOLEAN
        /\ left' => /\ kit = "broken" \/ (kit = "ready" /\ account = Nothing)
                    /\ \A x \in Calls : calls[x].at # "network"
    BY <1>17, <1>a, <1>b DEF DisconnectEnds
  <2> QED  BY <1>a, <2>1, <2>2, WalletCallEnds
<1> QED
  BY <1>1, <1>2, <1>3, <1>4, <1>5, <1>6, <1>8, <1>9, <1>10, <1>11, <1>12, <1>13, <1>14, <1>15,
     <1>16, <1>17 DEF WalletNext

(* The wallet's state stays well typed, whatever calls overlap.            *)
THEOREM WalletTypeCorrect == WalletSpec => []WalletTypeOK
<1>1. WalletInv => WalletTypeOK
  BY DEF WalletInv
<1> QED BY <1>1, WalletInitInv, WalletStep, PTL DEF WalletSpec

(***************************************************************************)
(* Whatever calls overlap and whatever other tabs save, the page acts only *)
(* for a wallet its kit has named, shows a copy no longer than until the   *)
(* kit has answered, and after a disconnect shows no wallet that no call   *)
(* had the address of by then, until the kit names one again               *)
(* (useWalletKit, isCached).                                               *)
(***************************************************************************)
THEOREM OnlyOwnWalletShown == WalletSpec => []OwnWalletShown
<1>1. WalletInv => OwnWalletShown
  BY DEF WalletInv
<1> QED BY <1>1, WalletInitInv, WalletStep, PTL DEF WalletSpec
(***************************************************************************)
(* EventService, for any number of browsers, groups and events and any limit*)
(* of a listing.                                                           *)
(***************************************************************************)
(* The number of elements before an element, in a finite set with a strict *)
(* order on it, numbers the set's elements from 0 on.                      *)
LEMMA Ranked ==
  ASSUME NEW S, IsFiniteSet(S), NEW before \in [S -> SUBSET S],
         \A x \in S : x \notin before[x],
         \A x, y \in S : x # y => x \in before[y] \/ y \in before[x],
         \A x, y \in S : x \in before[y] => before[x] \subseteq before[y]
  PROVE  [x \in S |-> Cardinality(before[x])] \in Bijection(S, 0 .. Cardinality(S) - 1)
<1> DEFINE n       == Cardinality(S)
           upto(x) == before[x] \cup {x}
           size(x) == Cardinality(before[x])
           next(x) == Cardinality(upto(x))
           rank    == [x \in S |-> size(x)]
<1>1. n \in Nat
  BY FS_CardinalityType
<1>2. ASSUME NEW x \in S
      PROVE  IsFiniteSet(before[x]) /\ size(x) \in Nat /\ next(x) = size(x) + 1
  <2>1. IsFiniteSet(before[x])
    BY FS_Subset
  <2>2. x \notin before[x]
    OBVIOUS
  <2> QED BY <2>1, <2>2, FS_AddElement, FS_CardinalityType
<1>3. ASSUME NEW x \in S
      PROVE  next(x) <= n
  <2>1. upto(x) \in SUBSET S
    OBVIOUS
  <2> HIDE DEF upto
  <2> QED BY <2>1, FS_Subset
<1>4. ASSUME NEW x \in S, NEW y \in S, x \in before[y]
      PROVE  next(x) <= size(y)
  <2>1. upto(x) \in SUBSET before[y]
    BY <1>4
  <2>2. IsFiniteSet(before[y])
    BY <1>2
  <2> HIDE DEF upto
  <2> QED BY <2>1, <2>2, FS_Subset
<1> HIDE DEF n, next, size
<1>5. \A x \in S : size(x) \in 0 .. n - 1
  BY <1>1, <1>2, <1>3
<1>6. rank \in [S -> 0 .. n - 1]
  BY <1>5
<1>7. ASSUME NEW x \in S, NEW y \in S, x \in before[y]
      PROVE  size(x) < size(y)
  BY <1>2, <1>4, <1>7
<1>8. ASSUME NEW x \in S, NEW y \in S, rank[x] = rank[y]
      PROVE  x = y
  <2>1. size(x) = size(y) /\ size(x) \in Nat
    BY <1>2, <1>8
  <2>2. ~(size(x) < size(y)) /\ ~(size(y) < size(x))
    BY <2>1
  <2> QED BY <1>7, <2>2
<1>9. rank \in Injection(S, 0 .. n - 1)
  BY <1>6, <1>8 DEF Injection, IsInjective
<1>10. IsFiniteSet(0 .. n - 1) /\ Cardinality(0 .. n - 1) = n
  BY <1>1, FS_Interval
<1>11. rank \in Surjection(S, 0 .. n - 1)
  BY <1>9, <1>10, FS_Injection DEF n
<1> QED
  BY <1>9, <1>11 DEF Bijection, n, size

(* The numbers of a finite set, counted from below ...                     *)
Below(S, e) == {x \in S : x < e}
Above(S, e) == {x \in S : x > e}

LEMMA RankedBelow ==
  ASSUME NEW S \in SUBSET Nat, IsFiniteSet(S)
  PROVE  [e \in S |-> Cardinality(Below(S, e))] \in Bijection(S, 0 .. Cardinality(S) - 1)
<1> DEFINE before == [e \in S |-> Below(S, e)]
<1>1. before \in [S -> SUBSET S]
  BY DEF Below
<1>2. \A x, y \in S : x \in before[y] <=> x < y
  BY DEF Below
<1>a. \A x \in S : x \notin before[x]
  BY <1>2
<1>b. \A x, y \in S : x # y => x \in before[y] \/ y \in before[x]
  BY <1>2
<1>c. ASSUME NEW x \in S, NEW y \in S, x \in before[y]
      PROVE  before[x] \subseteq before[y]
  <2> SUFFICES ASSUME NEW z \in before[x] PROVE z \in before[y]
    OBVIOUS
  <2>1. z \in S
    BY <1>1
  <2>2. x \in Nat /\ y \in Nat /\ z \in Nat
    BY <2>1
  <2>3. z \in before[x] /\ x \in before[y]
    BY <1>c
  <2> HIDE DEF before
  <2> QED BY <1>2, <2>1, <2>2, <2>3
<1>3. [x \in S |-> Cardinality(before[x])] = [e \in S |-> Cardinality(Below(S, e))]
  OBVIOUS
<1> HIDE DEF before
<1> QED BY <1>1, <1>a, <1>b, <1>c, <1>3, Ranked

(* ... and from above.                                                     *)
LEMMA RankedAbove ==
  ASSUME NEW S \in SUBSET Nat, IsFiniteSet(S)
  PROVE  [e \in S |-> Cardinality(Above(S, e))] \in Bijection(S, 0 .. Cardinality(S) - 1)
<1> DEFINE before == [e \in S |-> Above(S, e)]
<1>1. before \in [S -> SUBSET S]
  BY DEF Above
<1>2. \A x, y \in S : x \in before[y] <=> x > y
  BY DEF Above
<1>a. \A x \in S : x \notin before[x]
  BY <1>2
<1>b. \A x, y \in S : x # y => x \in before[y] \/ y \in before[x]
  BY <1>2
<1>c. ASSUME NEW x \in S, NEW y \in S, x \in before[y]
      PROVE  before[x] \subseteq before[y]
  <2> SUFFICES ASSUME NEW z \in before[x] PROVE z \in before[y]
    OBVIOUS
  <2>1. z \in S
    BY <1>1
  <2>2. x \in Nat /\ y \in Nat /\ z \in Nat
    BY <2>1
  <2>3. z \in before[x] /\ x \in before[y]
    BY <1>c
  <2> HIDE DEF before
  <2> QED BY <1>2, <2>1, <2>2, <2>3
<1>3. [x \in S |-> Cardinality(before[x])] = [e \in S |-> Cardinality(Above(S, e))]
  OBVIOUS
<1> HIDE DEF before
<1> QED BY <1>1, <1>a, <1>b, <1>c, <1>3, Ranked

(* InOrder lists the matching events, each once, in ascending order.       *)
LEMMA InOrderLists ==
  ASSUME NEW events \in SUBSET Nat, IsFiniteSet(events), NEW filter
  PROVE  LET s == InOrder(events, filter)
             M == {e \in events : Matches(e, filter)}
         IN  /\ s \in Seq(M)
             /\ \A i, j \in DOMAIN s : i < j => s[i] < s[j]
             /\ \A e \in M : \E i \in DOMAIN s : s[i] = e
<1> DEFINE s == InOrder(events, filter)
           M == {e \in events : Matches(e, filter)}
           n == Cardinality(M)
           rank == [e \in M |-> Cardinality(Below(M, e))]
<1>1. M \in SUBSET Nat /\ IsFiniteSet(M) /\ n \in Nat
  BY FS_Subset, FS_CardinalityType
<1>2. rank \in Bijection(M, 0 .. n - 1)
  BY <1>1, RankedBelow
<1>3. s = [i \in 1 .. n |-> CHOOSE e \in M : Cardinality(Below(M, e)) = i - 1]
  BY DEF InOrder, Below
<1>4. ASSUME NEW i \in 1 .. n
      PROVE  s[i] \in M /\ rank[s[i]] = i - 1
  <2>1. i - 1 \in 0 .. n - 1
    BY <1>1
  <2>2. PICK e \in M : rank[e] = i - 1
    BY <1>2, <2>1 DEF Bijection, Surjection
  <2>3. Cardinality(Below(M, e)) = i - 1
    BY <2>2
  <2>4. s[i] = CHOOSE x \in M : Cardinality(Below(M, x)) = i - 1
    BY <1>3
  <2>5. s[i] \in M /\ Cardinality(Below(M, s[i])) = i - 1
    BY <2>3, <2>4, Zenon
  <2> QED BY <2>5
<1>5. ASSUME NEW x \in M, NEW y \in M, x <= y
      PROVE  rank[x] <= rank[y]
  <2>1. Below(M, x) \subseteq Below(M, y)
    BY <1>1, <1>5 DEF Below
  <2>2. IsFiniteSet(Below(M, y))
    BY <1>1, FS_Subset DEF Below
  <2> QED BY <2>1, <2>2, FS_Subset
<1> HIDE DEF s, M, rank
<1>6. s \in Seq(M) /\ DOMAIN s = 1 .. n
  <2>1. \A i \in 1 .. n : s[i] \in M
    BY <1>4
  <2>2. DOMAIN s = 1 .. n
    BY <1>3
  <2>3. s \in [1 .. n -> M]
    BY <1>3, <2>1
  <2> QED BY <1>1, <2>2, <2>3
<1>7. ASSUME NEW i \in DOMAIN s, NEW j \in DOMAIN s, i < j
      PROVE  s[i] < s[j]
  <2>1. i \in 1 .. n /\ j \in 1 .. n /\ s[i] \in Nat /\ s[j] \in Nat
    BY <1>1, <1>4, <1>6
  <2>2. rank[s[i]] = i - 1 /\ rank[s[j]] = j - 1 /\ s[i] \in M /\ s[j] \in M
    BY <1>4, <2>1
  <2> QED BY <1>5, <1>7, <2>1, <2>2
<1>8. ASSUME NEW e \in M
      PROVE  \E i \in DOMAIN s : s[i] = e
  <2>1. rank[e] \in 0 .. n - 1
    BY <1>2 DEF Bijection, Injection
  <2>2. rank[e] + 1 \in 1 .. n /\ (rank[e] + 1) - 1 = rank[e]
    BY <1>1, <2>1
  <2>3. s[rank[e] + 1] \in M /\ rank[s[rank[e] + 1]] = rank[e]
    BY <1>4, <2>2
  <2>4. s[rank[e] + 1] = e
    BY <1>2, <2>3 DEF Bijection, Injection, IsInjective
  <2> QED BY <1>6, <2>2, <2>4
<1> QED BY <1>6, <1>7, <1>8 DEF s, M

(* A listing that leaves a matching event out is full of newer ones.       *)
LEMMA ListingFull ==
  ASSUME NEW filter, table \in Nat, ListLimit \in Nat \ {0},
         NEW e \in 1 .. table, Matches(e, filter), e \notin Newest(filter)
  PROVE  Cardinality({x \in Newest(filter) : x > e}) = ListLimit
<1> DEFINE M == {x \in 1 .. table : Matches(x, filter)}
           N == Newest(filter)
           n == Cardinality(M)
           rank == [x \in M |-> Cardinality(Above(M, x))]
<1>1. M \in SUBSET Nat /\ IsFiniteSet(M) /\ n \in Nat
  <2>1. M \in SUBSET (1 .. table) /\ IsFiniteSet(1 .. table) /\ 1 .. table \subseteq Nat
    BY FS_Interval
  <2> HIDE DEF M
  <2>2. IsFiniteSet(M)
    BY <2>1, FS_Subset
  <2> QED BY <2>1, <2>2, FS_CardinalityType
<1>2. rank \in Bijection(M, 0 .. n - 1)
  BY <1>1, RankedAbove
<1>3. N = {x \in M : rank[x] < ListLimit}
  BY DEF Newest, Above
<1>4. e \in M
  OBVIOUS
<1> HIDE DEF M, N
<1>5. rank \in [M -> 0 .. n - 1] /\ ListLimit <= rank[e]
  BY <1>2, <1>3, <1>4 DEF Bijection, Injection, N
<1>6. ASSUME NEW x \in N
      PROVE  x > e
  <2>1. x \in M /\ rank[x] < ListLimit
    BY <1>3
  <2>2. CASE x <= e
    <3>1. Above(M, e) \subseteq Above(M, x)
      <4> SUFFICES ASSUME NEW y \in M, y > e PROVE y > x
        BY DEF Above
      <4>1. y \in Nat /\ e \in Nat /\ x \in Nat
        BY <1>1, <1>4, <2>1
      <4> QED BY <4>1, <2>2
    <3>2. IsFiniteSet(Above(M, x))
      BY <1>1, FS_Subset DEF Above
    <3>3. rank[e] <= rank[x]
      BY <1>4, <2>1, <3>1, <3>2, FS_Subset
    <3> QED BY <1>4, <1>5, <2>1, <3>3
  <2> QED BY <1>1, <1>4, <2>1, <2>2
<1>7. {x \in N : x > e} = N
  BY <1>6
<1> DEFINE place == [x \in N |-> rank[x]]
<1>8. place \in [N -> 0 .. ListLimit - 1]
  BY <1>3, <1>5
<1>9. \A x, y \in N : place[x] = place[y] => x = y
  BY <1>2, <1>3 DEF Bijection, Injection, IsInjective
<1>10. ASSUME NEW k \in 0 .. ListLimit - 1
       PROVE  \E x \in N : place[x] = k
  <2>1. k \in 0 .. n - 1 /\ k < ListLimit
    BY <1>1, <1>4, <1>5
  <2>2. PICK x \in M : rank[x] = k
    BY <1>2, <2>1 DEF Bijection, Surjection
  <2>3. x \in N
    BY <1>3, <2>1, <2>2
  <2> QED BY <2>2, <2>3
<1>11. place \in Bijection(N, 0 .. ListLimit - 1)
  BY <1>8, <1>9, <1>10 DEF Bijection, Injection, Surjection, IsInjective
<1>12. IsFiniteSet(N)
  BY <1>1, <1>3, FS_Subset
<1>13. Cardinality(0 .. ListLimit - 1) = Cardinality(N)
  BY <1>11, <1>12, FS_Bijection DEF ExistsBijection
<1>14. Cardinality(0 .. ListLimit - 1) = ListLimit
  BY FS_Interval
<1> QED BY <1>7, <1>13, <1>14 DEF N
-----------------------------------------------------------------------------
(* What is waiting to be sent is the end of the table, ...                 *)
FreshLast == \A e \in fresh : e .. table \subseteq fresh

(* ... what was sent is not, and after a stop in time no timer is left.    *)
SentBefore ==
  \A b \in Browsers : \A i \in DOMAIN streams[b].received :
    streams[b].received[i] \in (1 .. table) \ fresh

NoTimerLeft == phase # "serving" /\ stoppedInTime => started /\ ~timer

ServiceInv == ServiceTypeOK /\ FreshLast /\ SentBefore /\ StreamComplete /\ NoTimerLeft

(* One stream as StreamComplete asks of it: in order, what was asked for,  *)
(* and none missed.                                                        *)
Stream == [open : BOOLEAN, filter : Filters, received : Seq(1 .. MaxEvents),
           asked : BOOLEAN, listed : SUBSET (1 .. MaxEvents)]

Sorted(s)   == \A i, j \in DOMAIN s.received : i < j => s.received[i] < s.received[j]
Filtered(s) == \A i \in DOMAIN s.received : Matches(s.received[i], s.filter)

Accounted(s, e, elsewhere) ==
  \/ e \in s.listed \cup elsewhere
  \/ \E i \in DOMAIN s.received : s.received[i] = e
  \/ Cardinality({x \in s.listed : x > e}) = ListLimit

Complete(s, last, elsewhere) ==
  s.asked => \A e \in 1 .. last : Matches(e, s.filter) => Accounted(s, e, elsewhere)

StreamOK(s, last, waiting, lost) ==
  /\ s \in Stream
  /\ \A i \in DOMAIN s.received : s.received[i] \in (1 .. last) \ waiting
  /\ s.open => Sorted(s) /\ Filtered(s) /\ Complete(s, last, waiting \cup lost)

(* The rest of the invariant.                                              *)
ProcessOK ==
  /\ phase \in {"serving", "stopping", "closed"}
  /\ started \in BOOLEAN /\ timer \in BOOLEAN /\ polling \in BOOLEAN
  /\ stoppedInTime \in BOOLEAN
  /\ table \in 0 .. MaxEvents /\ fresh \subseteq 1 .. table /\ unsent \subseteq 1 .. table
  /\ FreshLast /\ NoTimerLeft

StreamsOK ==
  /\ streams \in [Browsers -> Stream]
  /\ \A b \in Browsers : StreamOK(streams[b], table, fresh, unsent)

(* The invariant, process and streams apart.                               *)
LEMMA ServiceParts == ServiceInv <=> ProcessOK /\ StreamsOK
<1>1. ServiceTypeOK /\ FreshLast /\ NoTimerLeft <=> ProcessOK /\ streams \in [Browsers -> Stream]
  BY DEF ServiceTypeOK, ProcessOK, Stream
<1>2. ASSUME NEW b \in Browsers
      PROVE  LET s == streams[b] IN
             (s.open => Sorted(s) /\ Filtered(s) /\ Complete(s, table, fresh \cup unsent)) <=>
             (s.open =>
              /\ \A i, j \in DOMAIN s.received : i < j => s.received[i] < s.received[j]
              /\ \A i \in DOMAIN s.received : Matches(s.received[i], s.filter)
              /\ s.asked =>
                   \A e \in 1 .. table :
                     Matches(e, s.filter) =>
                       \/ e \in s.listed \cup fresh \cup unsent
                       \/ \E i \in DOMAIN s.received : s.received[i] = e
                       \/ Cardinality({x \in s.listed : x > e}) = ListLimit)
  <2>1. \A e : e \in streams[b].listed \cup fresh \cup unsent <=>
               e \in streams[b].listed \cup (fresh \cup unsent)
    OBVIOUS
  <2> QED BY <2>1, Zenon DEF Sorted, Filtered, Complete, Accounted
<1>3. StreamComplete <=>
      \A b \in Browsers : streams[b].open =>
         Sorted(streams[b]) /\ Filtered(streams[b])
         /\ Complete(streams[b], table, fresh \cup unsent)
  BY <1>2, Zenon DEF StreamComplete
<1>4. StreamsOK <=> streams \in [Browsers -> Stream] /\ SentBefore /\ StreamComplete
  <2>1. streams \in [Browsers -> Stream] => \A b \in Browsers : streams[b] \in Stream
    OBVIOUS
  <2> QED BY <1>3, <2>1, Zenon DEF StreamsOK, StreamOK, SentBefore
<1> QED BY <1>1, <1>4, Zenon DEF ServiceInv

(* No stream, a stream just opened, and one that has got a listing.        *)
LEMMA NoStreamOK ==
  ASSUME NEW last, NEW waiting, NEW lost
  PROVE  NoStream \in Stream /\ StreamOK(NoStream, last, waiting, lost)
<1>1. NoStream \in Stream /\ DOMAIN NoStream.received = {} /\ ~NoStream.open
  BY DEF NoStream, Stream, Filters
<1> QED BY <1>1 DEF StreamOK

LEMMA OpenedOK ==
  ASSUME NEW last, NEW waiting, NEW lost, NEW filter \in Filters
  PROVE  LET s == [NoStream EXCEPT !.open = TRUE, !.filter = filter]
         IN  s \in Stream /\ StreamOK(s, last, waiting, lost)
<1> DEFINE s == [NoStream EXCEPT !.open = TRUE, !.filter = filter]
<1>1. NoStream \in Stream /\ DOMAIN NoStream.received = {} /\ ~NoStream.asked
  BY DEF NoStream, Stream, Filters
<1>2. s \in Stream /\ DOMAIN s.received = {} /\ ~s.asked
  BY <1>1 DEF Stream
<1> HIDE DEF s
<1>3. Sorted(s) /\ Filtered(s) /\ Complete(s, last, waiting \cup lost)
  BY <1>2 DEF Sorted, Filtered, Complete
<1>4. StreamOK(s, last, waiting, lost)
  BY <1>2, <1>3 DEF StreamOK
<1> QED BY <1>2, <1>4 DEF s

LEMMA ListedOK ==
  ASSUME table \in 0 .. MaxEvents, NEW s \in Stream, s.open,
         StreamOK(s, table, fresh, unsent),
         NEW t, t = [s EXCEPT !.asked = TRUE, !.listed = Newest(s.filter)]
  PROVE  t \in Stream /\ StreamOK(t, table, fresh, unsent)
<1>1. Newest(s.filter) \in SUBSET (1 .. MaxEvents)
  BY ServiceAssumption DEF Newest
<1>2. t \in Stream
  BY <1>1 DEF Stream
<1>3. /\ t.received = s.received /\ t.filter = s.filter /\ t.open = s.open
      /\ t.listed = Newest(s.filter)
  BY DEF Stream
<1>4. Sorted(t) /\ Filtered(t) /\ \A i \in DOMAIN t.received : t.received[i] \in (1 .. table) \ fresh
  BY <1>3 DEF StreamOK, Sorted, Filtered
<1>5. ASSUME NEW e \in 1 .. table, Matches(e, t.filter)
      PROVE  Accounted(t, e, fresh \cup unsent)
  <2>1. CASE e \in t.listed
    BY <2>1 DEF Accounted
  <2>2. CASE e \notin t.listed
    <3>1. table \in Nat /\ ListLimit \in Nat \ {0}
      BY ServiceAssumption
    <3>2. Cardinality({x \in Newest(s.filter) : x > e}) = ListLimit
      BY <1>3, <1>5, <2>2, <3>1, ListingFull
    <3> QED BY <1>3, <3>2 DEF Accounted
  <2> QED BY <2>1, <2>2
<1>6. Complete(t, table, fresh \cup unsent)
  BY <1>5 DEF Complete
<1> QED BY <1>2, <1>4, <1>6 DEF StreamOK

(* New events are waiting, or were committed unheard: a stream that has    *)
(* the earlier ones is still complete.                                     *)
LEMMA StreamKept ==
  ASSUME NEW s, NEW last \in Nat, NEW waiting, NEW lost,
         NEW later \in Nat, NEW waiting2, NEW lost2,
         StreamOK(s, last, waiting, lost), last <= later,
         waiting2 \cap (1 .. last) \subseteq waiting,
         waiting \cup lost \subseteq waiting2 \cup lost2,
         last + 1 .. later \subseteq waiting2 \cup lost2
  PROVE  StreamOK(s, later, waiting2, lost2)
<1>1. \A i \in DOMAIN s.received : s.received[i] \in (1 .. later) \ waiting2
  BY DEF StreamOK
<1>2. ASSUME s.open
      PROVE  Complete(s, later, waiting2 \cup lost2)
  <2> SUFFICES ASSUME s.asked, NEW e \in 1 .. later, Matches(e, s.filter)
               PROVE  Accounted(s, e, waiting2 \cup lost2)
    BY DEF Complete
  <2>1. CASE e \in 1 .. last
    <3>1. Accounted(s, e, waiting \cup lost)
      BY <1>2, <2>1 DEF StreamOK, Complete
    <3> QED BY <3>1 DEF Accounted
  <2>2. CASE e \notin 1 .. last
    <3>1. e \in waiting2 \cup lost2
      BY <2>2
    <3> QED BY <3>1 DEF Accounted
  <2> QED BY <2>1, <2>2
<1> QED BY <1>1, <1>2 DEF StreamOK

(* What was waiting is sent: it goes behind what was sent before.          *)
LEMMA StreamSent ==
  ASSUME NEW s \in Stream, NEW last \in 0 .. MaxEvents, NEW waiting, NEW lost,
         StreamOK(s, last, waiting, lost), s.open,
         waiting \subseteq 1 .. last, \A e \in waiting : e .. last \subseteq waiting,
         NEW t, t = [s EXCEPT !.received = @ \o InOrder(waiting, s.filter)]
  PROVE  t \in Stream /\ StreamOK(t, last, {}, lost)
<1> DEFINE r == s.received
           q == InOrder(waiting, s.filter)
           M == {e \in waiting : Matches(e, s.filter)}
           m == Len(r)
           n == Len(q)
<1>0. last \in Nat /\ 1 .. last \subseteq 1 .. MaxEvents /\ 1 .. last \subseteq Nat
  BY ServiceAssumption
<1>1. waiting \in SUBSET Nat /\ IsFiniteSet(waiting)
  BY <1>0, FS_Interval, FS_Subset
<1>2. /\ q \in Seq(M)
      /\ \A i, j \in DOMAIN q : i < j => q[i] < q[j]
      /\ \A e \in M : \E i \in DOMAIN q : q[i] = e
  BY <1>1, InOrderLists
<1>3. M \subseteq waiting /\ M \subseteq 1 .. MaxEvents
  BY <1>0
<1>4. r \in Seq(1 .. MaxEvents)
  BY DEF Stream
<1>5. /\ Sorted(s) /\ Filtered(s) /\ Complete(s, last, waiting \cup lost)
      /\ \A i \in DOMAIN r : r[i] \in (1 .. last) \ waiting
  BY DEF StreamOK
<1>6. /\ t.received = r \o q /\ t.filter = s.filter /\ t.open = s.open
      /\ t.asked = s.asked /\ t.listed = s.listed
  BY DEF Stream
<1>m. \A e \in M : e \in waiting /\ Matches(e, s.filter)
  OBVIOUS
<1>n. \A e \in waiting : Matches(e, s.filter) => e \in M
  OBVIOUS
<1> HIDE DEF q, M
<1>7. q \in Seq(1 .. MaxEvents)
  <2>1. q \in Seq(M)
    BY <1>2
  <2> QED BY <1>3, <2>1, SeqMonotonic
<1>8. /\ m \in Nat /\ n \in Nat /\ DOMAIN r = 1 .. m /\ DOMAIN q = 1 .. n
      /\ r \o q \in Seq(1 .. MaxEvents) /\ DOMAIN (r \o q) = 1 .. m + n
      /\ \A i \in 1 .. m : (r \o q)[i] = r[i]
      /\ \A i \in m + 1 .. m + n : (r \o q)[i] = q[i - m]
      /\ \A i \in 1 .. n : (r \o q)[i + m] = q[i]
  BY <1>4, <1>7
<1>9. t \in Stream
  <2>1. t = [s EXCEPT !.received = r \o q]
    BY DEF q
  <2> QED BY <1>8, <2>1 DEF Stream
<1>t. /\ DOMAIN t.received = 1 .. m + n
      /\ \A i \in 1 .. m : i \in 1 .. m + n /\ t.received[i] = r[i]
      /\ \A i \in m + 1 .. m + n : t.received[i] = q[i - m]
      /\ \A i \in 1 .. n : i + m \in 1 .. m + n /\ t.received[i + m] = q[i]
  <2> DEFINE u == r \o q
  <2>1. /\ m \in Nat /\ n \in Nat /\ DOMAIN u = 1 .. m + n
        /\ \A i \in 1 .. m : u[i] = r[i]
        /\ \A i \in m + 1 .. m + n : u[i] = q[i - m]
        /\ \A i \in 1 .. n : u[i + m] = q[i]
    BY <1>8
  <2>2. t.received = u
    BY <1>6
  <2> HIDE DEF u, m, n, r
  <2>3. /\ \A i \in 1 .. m : i \in 1 .. m + n
        /\ \A i \in 1 .. n : i + m \in 1 .. m + n
    BY <2>1
  <2> QED BY <2>1, <2>2, <2>3
<1>q. \A i \in 1 .. n : q[i] \in M
  BY <1>2, <1>8
<1>10. ASSUME NEW i \in 1 .. m + n
       PROVE  \/ i \in 1 .. m /\ t.received[i] = r[i] /\ r[i] \in (1 .. last) \ waiting
              \/ /\ i - m \in 1 .. n /\ i \notin 1 .. m
                 /\ t.received[i] = q[i - m] /\ q[i - m] \in M
  <2>1. m \in Nat /\ n \in Nat /\ \A j \in 1 .. m : r[j] \in (1 .. last) \ waiting
    BY <1>5, <1>8
  <2> HIDE DEF m, n, r
  <2>2. i \in 1 .. m \/ (i - m \in 1 .. n /\ i \notin 1 .. m /\ i \in m + 1 .. m + n)
    BY <2>1
  <2> QED BY <1>q, <1>t, <2>1, <2>2
<1>11. ASSUME NEW i \in DOMAIN t.received, NEW j \in DOMAIN t.received, i < j
       PROVE  t.received[i] < t.received[j]
  <2>1. i \in 1 .. m + n /\ j \in 1 .. m + n
    BY <1>t
  <2>2. CASE i \in 1 .. m /\ j \in 1 .. m
    BY <1>5, <1>8, <1>t, <1>11, <2>2 DEF Sorted
  <2>3. CASE i \notin 1 .. m /\ j \notin 1 .. m
    <3>1. i - m \in 1 .. n /\ j - m \in 1 .. n /\ i - m < j - m
      BY <1>8, <1>10, <1>11, <2>1, <2>3
    <3>2. q[i - m] < q[j - m]
      BY <1>2, <1>8, <3>1
    <3> QED BY <1>10, <2>1, <2>3, <3>2
  <2>4. CASE i \in 1 .. m /\ j \notin 1 .. m
    <3> DEFINE x == r[i]
               y == q[j - m]
    <3>1. /\ t.received[i] = x /\ x \in (1 .. last) \ waiting
          /\ t.received[j] = y /\ y \in waiting
      BY <1>10, <1>m, <2>1, <2>4
    <3> HIDE DEF x, y
    <3>2. x \in y .. last => x \in waiting
      BY <3>1
    <3>3. x \in Nat /\ y \in Nat /\ x <= last
      BY <1>0, <1>1, <3>1
    <3> QED BY <1>0, <3>1, <3>2, <3>3
  <2>5. CASE i \notin 1 .. m /\ j \in 1 .. m
    BY <1>8, <1>11, <2>1, <2>5
  <2> QED BY <2>2, <2>3, <2>4, <2>5
<1>12. ASSUME NEW i \in DOMAIN t.received
       PROVE  Matches(t.received[i], t.filter) /\ t.received[i] \in (1 .. last) \ {}
  <2>1. i \in 1 .. m + n
    BY <1>t
  <2>2. CASE i \in 1 .. m
    BY <1>5, <1>6, <1>8, <1>10, <2>1, <2>2 DEF Filtered
  <2>3. CASE i \notin 1 .. m
    <3>1. t.received[i] = q[i - m] /\ q[i - m] \in M
      BY <1>10, <2>1, <2>3
    <3>2. t.received[i] \in waiting /\ Matches(t.received[i], s.filter)
      BY <1>m, <3>1
    <3> QED BY <1>6, <3>2
  <2> QED BY <2>2, <2>3
<1>13. ASSUME t.asked, NEW e \in 1 .. last, Matches(e, t.filter)
       PROVE  Accounted(t, e, {} \cup lost)
  <2>1. Accounted(s, e, waiting \cup lost)
    BY <1>5, <1>6, <1>13 DEF Complete
  <2>2. CASE e \in s.listed \cup lost \/ Cardinality({x \in s.listed : x > e}) = ListLimit
    BY <1>6, <2>2 DEF Accounted
  <2>3. CASE e \in waiting
    <3>1. PICK i \in 1 .. n : q[i] = e
      BY <1>2, <1>6, <1>8, <1>13, <1>n, <2>3
    <3>2. i + m \in DOMAIN t.received /\ t.received[i + m] = e
      BY <1>t, <3>1
    <3> QED BY <3>2 DEF Accounted
  <2>4. ASSUME NEW i \in DOMAIN s.received, s.received[i] = e
        PROVE  Accounted(t, e, {} \cup lost)
    <3>1. i \in DOMAIN t.received /\ t.received[i] = e
      BY <1>8, <1>t, <2>4
    <3> QED BY <3>1 DEF Accounted
  <2> QED BY <2>1, <2>2, <2>3, <2>4 DEF Accounted
<1>14. Complete(t, last, {} \cup lost)
  BY <1>13 DEF Complete
<1>15. Sorted(t) /\ Filtered(t)
  BY <1>11, <1>12 DEF Sorted, Filtered
<1> QED BY <1>9, <1>12, <1>14, <1>15 DEF StreamOK

(* A stream that is closed gets nothing.                                   *)
LEMMA StreamClosed ==
  ASSUME NEW s, NEW last, NEW waiting, NEW lost, StreamOK(s, last, waiting, lost), ~s.open
  PROVE  StreamOK(s, last, {}, lost)
BY DEF StreamOK
-----------------------------------------------------------------------------
LEMMA ServiceInitInv == ServiceInit => ServiceInv
<1> SUFFICES ASSUME ServiceInit PROVE ProcessOK /\ StreamsOK
  BY ServiceParts
<1>1. ProcessOK
  <2>1. table \in 0 .. MaxEvents /\ fresh \subseteq 1 .. table /\ unsent \subseteq 1 .. table
    BY ServiceAssumption DEF ServiceInit
  <2>2. FreshLast /\ NoTimerLeft
    BY DEF ServiceInit, FreshLast, NoTimerLeft
  <2> QED BY <2>1, <2>2 DEF ServiceInit, ProcessOK
<1>2. StreamsOK
  BY NoStreamOK DEF ServiceInit, StreamsOK
<1> QED BY <1>1, <1>2

(* One browser's stream changes, to one that is as it should be.           *)
LEMMA OneStream ==
  ASSUME StreamsOK, NEW b \in Browsers, NEW s, s \in Stream, StreamOK(s, table, fresh, unsent),
         streams' = [streams EXCEPT ![b] = s], UNCHANGED <<table, fresh, unsent>>
  PROVE  StreamsOK'
<1>1. streams' \in [Browsers -> Stream]
  BY DEF StreamsOK
<1>2. ASSUME NEW x \in Browsers
      PROVE  StreamOK(streams'[x], table', fresh', unsent')
  <2>1. streams'[x] = s \/ streams'[x] = streams[x]
    BY DEF StreamsOK
  <2>2. StreamOK(streams[x], table, fresh, unsent)
    BY DEF StreamsOK
  <2> QED BY <2>1, <2>2
<1> QED BY <1>1, <1>2 DEF StreamsOK

(* Every stream is taken away.                                             *)
LEMMA NoStreams ==
  ASSUME streams' = [b \in Browsers |-> NoStream]
  PROVE  StreamsOK'
BY NoStreamOK DEF StreamsOK

(* A commit: the streams stay, the new events wait or are lost.            *)
LEMMA AllKept ==
  ASSUME ProcessOK, StreamsOK, fresh = {}, NEW last \in table + 1 .. MaxEvents,
         table' = last, UNCHANGED streams,
         \/ fresh' = table + 1 .. last /\ unsent' = unsent
         \/ fresh' = {} /\ unsent' = unsent \cup (table + 1 .. last)
  PROVE  StreamsOK'
<1>1. table \in Nat /\ last \in Nat /\ table <= last
  BY ServiceAssumption DEF ProcessOK
<1>2. fresh' \cap (1 .. table) \subseteq fresh
  BY <1>1
<1>3. fresh \cup unsent \subseteq fresh' \cup unsent'
  OBVIOUS
<1>4. table + 1 .. last \subseteq fresh' \cup unsent'
  OBVIOUS
<1>5. ASSUME NEW b \in Browsers
      PROVE  StreamOK(streams[b], last, fresh', unsent')
  <2>1. StreamOK(streams[b], table, fresh, unsent)
    BY DEF StreamsOK
  <2> QED BY <1>1, <1>2, <1>3, <1>4, <2>1, StreamKept
<1> QED BY <1>5 DEF StreamsOK

LEMMA AllSent ==
  ASSUME ProcessOK, StreamsOK, Emit
  PROVE  StreamsOK'
<1>1. /\ table \in 0 .. MaxEvents /\ fresh \subseteq 1 .. table
      /\ \A e \in fresh : e .. table \subseteq fresh
  BY DEF ProcessOK, FreshLast
<1>2. /\ fresh' = {} /\ table' = table /\ unsent' = unsent
      /\ streams' = [b \in Browsers |->
           IF streams[b].open
           THEN [streams[b] EXCEPT !.received = @ \o InOrder(fresh, streams[b].filter)]
           ELSE streams[b]]
  BY DEF Emit, Send
<1>3. ASSUME NEW b \in Browsers
      PROVE  streams'[b] \in Stream /\ StreamOK(streams'[b], table, {}, unsent)
  <2>1. streams[b] \in Stream /\ StreamOK(streams[b], table, fresh, unsent)
    BY DEF StreamsOK
  <2>2. CASE streams[b].open
    <3>1. streams'[b] = [streams[b] EXCEPT !.received = @ \o InOrder(fresh, streams[b].filter)]
      BY <1>2, <2>2
    <3> QED BY <1>1, <2>1, <2>2, <3>1, StreamSent
  <2>3. CASE ~streams[b].open
    BY <1>2, <2>1, <2>3, StreamClosed
  <2> QED BY <2>2, <2>3
<1>4. streams' \in [Browsers -> Stream]
  BY <1>2, <1>3
<1> QED BY <1>2, <1>3, <1>4 DEF StreamsOK

(* Every step of the service keeps the invariant.                          *)
LEMMA ServiceStep == ServiceInv /\ [ServiceNext]_serviceVars => ServiceInv'
<1> SUFFICES ASSUME ProcessOK, StreamsOK, [ServiceNext]_serviceVars
             PROVE  ProcessOK' /\ StreamsOK'
  <2>1. ServiceInv' <=> ProcessOK' /\ StreamsOK'
    BY ServiceParts, PTL
  <2> QED BY <2>1, ServiceParts
<1> USE ServiceAssumption
<1>1. CASE Restart
  <2>1. ProcessOK'
    BY <1>1 DEF Restart, Started, ProcessOK, FreshLast, NoTimerLeft
  <2> QED BY <1>1, <2>1, NoStreams DEF Restart, Started
<1>2. CASE Tick
  <2>1. ProcessOK'
    BY <1>2 DEF Tick, ProcessOK, FreshLast, NoTimerLeft
  <2> QED BY <1>2, <2>1 DEF Tick, StreamsOK
<1>3. CASE Commit
  <2>1. PICK last \in table + 1 .. MaxEvents : table' = last /\ fresh' = table + 1 .. last
    BY <1>3 DEF Commit
  <2>2. ProcessOK'
    BY <1>3, <2>1 DEF Commit, ProcessOK, FreshLast, NoTimerLeft
  <2>3. StreamsOK'
    BY <1>3, <2>1, AllKept DEF Commit
  <2> QED BY <2>2, <2>3
<1>4. CASE CommitUnanswered
  <2>1. PICK last \in table + 1 .. MaxEvents :
          table' = last /\ unsent' = unsent \cup (table + 1 .. last)
    BY <1>4 DEF CommitUnanswered
  <2>2. ProcessOK'
    <3>1. fresh = {} /\ fresh' = {} /\ table \in Nat /\ last \in Nat /\ table < last
      BY <1>4, <2>1 DEF CommitUnanswered, ProcessOK
    <3>2. unsent \subseteq 1 .. table
      BY DEF ProcessOK
    <3>3. table' \in 0 .. MaxEvents /\ fresh' \subseteq 1 .. table' /\ unsent' \subseteq 1 .. table'
      BY <2>1, <3>1, <3>2
    <3>4. FreshLast'
      BY <3>1 DEF FreshLast
    <3>5. /\ phase' = phase /\ polling' = FALSE /\ started' = TRUE
          /\ stoppedInTime' = stoppedInTime /\ timer' = (timer \/ ~started)
      BY <1>4 DEF CommitUnanswered, PollIsOver
    <3>6. NoTimerLeft'
      BY <3>5 DEF ProcessOK, NoTimerLeft
    <3> QED BY <3>3, <3>4, <3>5, <3>6 DEF ProcessOK
  <2>3. StreamsOK'
    BY <1>4, <2>1, AllKept DEF CommitUnanswered
  <2> QED BY <2>2, <2>3
<1>5. CASE Emit
  <2>1. ProcessOK'
    BY <1>5 DEF Emit, ProcessOK, FreshLast, NoTimerLeft
  <2> QED BY <1>5, <2>1, AllSent
<1>6. CASE PollEnds
  <2>1. ProcessOK'
    BY <1>6 DEF PollEnds, PollIsOver, ProcessOK, FreshLast, NoTimerLeft
  <2> QED BY <1>6, <2>1 DEF PollEnds, StreamsOK
<1>7. ASSUME NEW b \in Browsers, Open(b) PROVE ProcessOK' /\ StreamsOK'
  <2>1. ProcessOK'
    BY <1>7 DEF Open, ProcessOK, FreshLast, NoTimerLeft
  <2>2. PICK filter \in Filters :
          streams' = [streams EXCEPT ![b] = [NoStream EXCEPT !.open = TRUE, !.filter = filter]]
    BY <1>7 DEF Open
  <2>3. UNCHANGED <<table, fresh, unsent>>
    BY <1>7 DEF Open
  <2> DEFINE s == [NoStream EXCEPT !.open = TRUE, !.filter = filter]
  <2>4. s \in Stream /\ StreamOK(s, table, fresh, unsent)
    BY OpenedOK
  <2>5. streams' = [streams EXCEPT ![b] = s]
    BY <2>2
  <2> HIDE DEF s
  <2> QED BY <2>1, <2>3, <2>4, <2>5, OneStream
<1>8. ASSUME NEW b \in Browsers, List(b) PROVE ProcessOK' /\ StreamsOK'
  <2>1. ProcessOK'
    BY <1>8 DEF List, ProcessOK, FreshLast, NoTimerLeft
  <2> DEFINE s == streams[b]
             t == [s EXCEPT !.asked = TRUE, !.listed = Newest(s.filter)]
  <2>2. UNCHANGED <<table, fresh, unsent>> /\ s.open
    BY <1>8 DEF List
  <2>3. streams' = [streams EXCEPT ![b] = t]
    BY <1>8 DEF List, StreamsOK
  <2>4. s \in Stream /\ StreamOK(s, table, fresh, unsent) /\ table \in 0 .. MaxEvents
    BY DEF StreamsOK, ProcessOK
  <2>5. t \in Stream /\ StreamOK(t, table, fresh, unsent)
    BY <2>2, <2>4, ListedOK
  <2> HIDE DEF s, t
  <2> QED BY <2>1, <2>2, <2>3, <2>5, OneStream
<1>9. ASSUME NEW b \in Browsers, Leave(b) PROVE ProcessOK' /\ StreamsOK'
  <2>1. ProcessOK'
    BY <1>9 DEF Leave, ProcessOK, FreshLast, NoTimerLeft
  <2> QED BY <1>9, <2>1, NoStreamOK, OneStream DEF Leave
<1>10. CASE Shutdown
  <2>1. ProcessOK'
    BY <1>10 DEF Shutdown, ProcessOK, FreshLast, NoTimerLeft
  <2> QED BY <1>10, <2>1, NoStreams DEF Shutdown
<1>11. CASE Closed
  <2>1. ProcessOK'
    BY <1>11 DEF Closed, ProcessOK, FreshLast, NoTimerLeft
  <2> QED BY <1>11, <2>1 DEF Closed, StreamsOK
<1>12. CASE UNCHANGED serviceVars
  BY <1>12 DEF serviceVars, ProcessOK, StreamsOK, FreshLast, NoTimerLeft
<1> QED
  BY <1>1, <1>2, <1>3, <1>4, <1>5, <1>6, <1>7, <1>8, <1>9, <1>10, <1>11, <1>12 DEF ServiceNext

(* The service's state stays well typed.                                   *)
THEOREM ServiceTypeCorrect == ServiceSpec => []ServiceTypeOK
<1>1. ServiceInv => ServiceTypeOK
  BY DEF ServiceInv
<1> QED BY <1>1, ServiceInitInv, ServiceStep, PTL DEF ServiceSpec

(* A browser that lists after its stream is ready misses no event, ...     *)
THEOREM StreamAlwaysComplete == ServiceSpec => []StreamComplete
<1>1. ServiceInv => StreamComplete
  BY DEF ServiceInv
<1> QED BY <1>1, ServiceInitInv, ServiceStep, PTL DEF ServiceSpec

(* ... and after a shutdown in time no further poll begins.                *)
THEOREM ServiceStopsForGood == ServiceSpec => StoppedForGood
<1> DEFINE Stopped == phase # "serving" /\ phase' # "serving" /\ stoppedInTime /\ ~polling
                      => ~polling'
<1>1. ServiceInv /\ [ServiceNext]_serviceVars => Stopped
  <2> SUFFICES ASSUME ServiceInv, [ServiceNext]_serviceVars, phase # "serving",
                      phase' # "serving", stoppedInTime, ~polling
               PROVE  ~polling'
    OBVIOUS
  <2>1. ~timer
    BY DEF ServiceInv, NoTimerLeft
  <2> QED BY <2>1 DEF ServiceNext, serviceVars, Restart, Started, Tick, Commit, CommitUnanswered,
             Emit, PollEnds, PollIsOver, Open, List, Leave, Shutdown, Closed
<1>2. ServiceInv /\ [ServiceNext]_serviceVars => [Stopped]_serviceVars
  BY <1>1
<1> QED BY <1>2, ServiceInitInv, ServiceStep, PTL DEF ServiceSpec, StoppedForGood
(***************************************************************************)
(* ReadCache, for any plan of reads and changes, any number of tabs and any*)
(* time to live of a copy.                                                 *)
(***************************************************************************)
(* A read of a load, and what a tab's load is.                             *)
ReadNames == UNION {DOMAIN Plan[visit] : visit \in DOMAIN Plan}
ReadState == [at : {"unread", "asked", "done", "failed"}, value : 0 .. MaxWrites]
TabLoad   == [visit : DOMAIN Plan \cup {Missing},
              read : UNION {[D -> ReadState] : D \in SUBSET ReadNames}]

(* A copy none of whose entries outlives its read by more than TTL.        *)
CopyOK(store) ==
  /\ store \in Entries
  /\ \A key \in Keys :
       store[key] # Missing => store[key].expiresAt <= store[key].readAt + TTL

(* No entry is older than the floor given for its key.                     *)
AtLeast(store, floor) ==
  \A key \in Keys : store[key] # Missing => store[key].value >= floor[key]

CopiesOK ==
  /\ CopyOK(persisted)
  /\ \A t \in Readers : stores[t] # Missing => CopyOK(stores[t]) /\ AtLeast(stores[t], wrote[t])

(* A tab that has not looked into its cache yet was promised nothing, and  *)
(* nobody more than the chain has.                                         *)
WroteOK ==
  \A t \in Readers :
    /\ stores[t] = Missing => wrote[t] = NoWrites
    /\ \A key \in Keys : wrote[t][key] <= values[key]

ReadsOK ==
  /\ reads \in [Readers -> TabLoad]
  /\ \A t \in Readers : \A read \in UnderWay(reads[t]) :
       reads[t].read[read].value >= wrote[t][KeyOf(read)]

CacheInv == CacheTypeOK /\ CopiesOK /\ WroteOK /\ ReadsOK
-----------------------------------------------------------------------------
(* What the operations on a copy keep of it.                               *)
LEMMA HydratedOK ==
  ASSUME CacheInv, NEW t \in Readers
  PROVE  CopyOK(Hydrated(t)) /\ AtLeast(Hydrated(t), wrote[t])
<1>1. CASE stores[t] # Missing
  BY <1>1 DEF Hydrated, CacheInv, CopiesOK
<1>2. CASE stores[t] = Missing
  <2> DEFINE store == Hydrated(t)
  <2>1. /\ store \in Entries
        /\ \A key \in Keys : store[key] # Missing => store[key] = persisted[key]
    <3>1. store = [key \in Keys |->
            IF persisted[key] = Missing THEN Missing
            ELSE IF persisted[key].expiresAt <= clock THEN Missing ELSE persisted[key]]
      BY <1>2 DEF Hydrated
    <3>2. \A key \in Keys : persisted[key] \in Entry \cup {Missing}
      BY DEF CacheInv, CacheTypeOK, Entries
    <3> HIDE DEF store
    <3> QED BY <3>1, <3>2 DEF Entries
  <2>2. CopyOK(persisted)
    BY DEF CacheInv, CopiesOK
  <2>3. CopyOK(store)
    BY <2>1, <2>2 DEF CopyOK
  <2>4. wrote[t] = NoWrites
    BY <1>2 DEF CacheInv, WroteOK
  <2>5. AtLeast(store, NoWrites)
    <3> SUFFICES ASSUME NEW key \in Keys, store[key] # Missing PROVE store[key].value >= 0
      BY DEF AtLeast, NoWrites
    <3>1. store[key] \in Entry
      BY <2>1 DEF Entries
    <3> QED BY <3>1, CacheAssumption DEF Entry
  <2> QED BY <2>3, <2>4, <2>5
<1> QED BY <1>1, <1>2

LEMMA DroppingOK ==
  ASSUME NEW store, NEW keys, NEW floor, CopyOK(store), AtLeast(store, floor)
  PROVE  /\ CopyOK(Dropping(store, keys)) /\ AtLeast(Dropping(store, keys), floor)
         /\ \A key \in Keys : key \in keys => Dropping(store, keys)[key] = Missing
<1>1. /\ Dropping(store, keys) \in Entries
      /\ \A key \in Keys : Dropping(store, keys)[key] # Missing =>
                             Dropping(store, keys)[key] = store[key]
      /\ \A key \in Keys : key \in keys => Dropping(store, keys)[key] = Missing
  BY DEF CopyOK, Entries, Dropping
<1> QED BY <1>1 DEF CopyOK, AtLeast

LEMMA HoldingOK ==
  ASSUME NEW store, NEW key, NEW value, NEW floor, CopyOK(store), AtLeast(store, floor),
         clock \in 0 .. MaxClock,
         key \in Keys => value \in 0 .. MaxWrites /\ value >= floor[key]
  PROVE  CopyOK(Holding(store, key, value)) /\ AtLeast(Holding(store, key, value), floor)
<1> DEFINE e == [value |-> value, expiresAt |-> clock + TTL, readAt |-> clock]
           next == Holding(store, key, value)
<1>1. key \in Keys => e \in Entry
  BY CacheAssumption DEF Entry
<1>2. e.expiresAt <= e.readAt + TTL /\ e.value = value
  BY CacheAssumption
<1>3. next = [store EXCEPT ![key] = e]
  BY DEF Holding
<1> HIDE DEF e
<1>4. /\ next \in Entries
      /\ \A k \in Keys : next[k] = IF k = key THEN e ELSE store[k]
  BY <1>1, <1>3 DEF CopyOK, Entries
<1> HIDE DEF next
<1>5. CopyOK(next)
  BY <1>2, <1>4 DEF CopyOK
<1>6. AtLeast(next, floor)
  BY <1>2, <1>4 DEF AtLeast
<1> QED BY <1>5, <1>6 DEF next

LEMMA PersistOK ==
  ASSUME CacheInv, NEW t \in Readers, NEW store, CopyOK(store), Persist(t, store)
  PROVE  /\ stores' \in [Readers -> Entries \cup {Missing}]
         /\ persisted' \in Entries /\ CopyOK(persisted')
         /\ stores'[t] = store /\ store # Missing
         /\ \A x \in Readers : x # t => stores'[x] = stores[x]
<1>1. store \in Entries /\ store # Missing
  BY CacheAssumption DEF CopyOK
<1>2. persisted' = [key \in Keys |->
        IF store[key] = Missing THEN Missing
        ELSE IF store[key].expiresAt > clock THEN store[key] ELSE Missing]
  BY DEF Persist
<1>3. /\ persisted' \in Entries
      /\ \A key \in Keys : persisted'[key] # Missing => persisted'[key] = store[key]
  BY <1>1, <1>2 DEF Entries
<1>4. CopyOK(persisted')
  BY <1>3 DEF CopyOK
<1> QED BY <1>1, <1>3, <1>4 DEF Persist, CacheInv, CacheTypeOK

(* Every read of a load is of a key of the cache.                          *)
LEMMA ReadsKey ==
  ASSUME ReadsOK, NEW t \in Readers, NEW read \in DOMAIN reads[t].read
  PROVE  KeyOf(read) \in Keys /\ reads[t].read[read] \in ReadState
<1>1. reads[t] \in TabLoad
  BY DEF ReadsOK
<1>2. PICK D \in SUBSET ReadNames : reads[t].read \in [D -> ReadState]
  BY <1>1 DEF TabLoad
<1>3. read \in ReadNames
  BY <1>2
<1> QED BY <1>2, <1>3 DEF ReadNames, Keys

(* A change of one read: the reads under way after it were before, or it   *)
(* is the read that has just been asked.                                   *)
LEMMA ReadIsOK ==
  ASSUME ReadsOK, NEW t \in Readers, NEW read \in DOMAIN reads[t].read,
         NEW state \in ReadState, ReadIs(t, read, state)
  PROVE  /\ reads' \in [Readers -> TabLoad]
         /\ \A x \in Readers : x # t => reads'[x] = reads[x]
         /\ \A r \in UnderWay(reads'[t]) :
              \/ r \in UnderWay(reads[t]) /\ reads'[t].read[r] = reads[t].read[r]
              \/ r = read /\ reads'[t].read[r] = state /\ state.at = "asked"
<1> DEFINE load == [reads[t] EXCEPT !.read[read] = state]
           ended == [load EXCEPT !.read = <<>>]
           f == [reads[t].read EXCEPT ![read] = state]
<1>1. reads[t] \in TabLoad /\ reads \in [Readers -> TabLoad]
  BY DEF ReadsOK
<1>2. PICK D \in SUBSET ReadNames : reads[t].read \in [D -> ReadState]
  BY <1>1 DEF TabLoad
<1>3. f \in [D -> ReadState] /\ \A r \in D : f[r] = IF r = read THEN state ELSE reads[t].read[r]
  BY <1>2
<1>4. load = [reads[t] EXCEPT !.read = f]
  BY <1>1 DEF TabLoad
<1>5. <<>> \in [{} -> ReadState]
  OBVIOUS
<1> HIDE DEF f
<1>6. load \in TabLoad /\ load.read = f
  BY <1>1, <1>3, <1>4 DEF TabLoad
<1> HIDE DEF load
<1>7. ended \in TabLoad /\ ended.read = <<>> /\ UnderWay(ended) = {}
  <2>1. ended \in TabLoad /\ ended.read = <<>>
    BY <1>5, <1>6 DEF TabLoad
  <2> HIDE DEF ended
  <2> QED BY <2>1 DEF UnderWay
<1>8. reads' = [reads EXCEPT ![t] = ended] \/ reads' = [reads EXCEPT ![t] = load]
  BY DEF ReadIs, load
<1> HIDE DEF ended
<1>9. /\ reads' \in [Readers -> TabLoad]
      /\ \A x \in Readers : x # t => reads'[x] = reads[x]
      /\ reads'[t] = ended \/ reads'[t] = load
  BY <1>1, <1>6, <1>7, <1>8
<1>10. ASSUME NEW r \in UnderWay(load)
       PROVE  \/ r \in UnderWay(reads[t]) /\ load.read[r] = reads[t].read[r]
              \/ r = read /\ load.read[r] = state /\ state.at = "asked"
  <2>1. r \in D /\ f[r].at = "asked"
    BY <1>3, <1>6 DEF UnderWay
  <2> QED BY <1>2, <1>3, <1>6, <2>1 DEF UnderWay
<1> QED BY <1>7, <1>9, <1>10

(* The pages invalidate whatever their transaction has changed, but for    *)
(* add_member's membership.                                                *)
LEMMA ChangesInvalidated ==
  ASSUME NEW write \in DOMAIN Changes
  PROVE  Changes[write] \ {"membership"} \subseteq Invalidates(write)
BY DEF Changes, Invalidates, RewardKeys
-----------------------------------------------------------------------------
LEMMA CacheInitInv == CacheInit => CacheInv
<1> SUFFICES ASSUME CacheInit PROVE CacheInv
  OBVIOUS
<1> USE CacheAssumption
<1>1. NoEntries \in Entries /\ \A key \in Keys : NoEntries[key] = Missing
  BY DEF NoEntries, Entries
<1>2. NoWrites \in [Keys -> 0 .. MaxWrites] /\ \A key \in Keys : NoWrites[key] = 0
  BY DEF NoWrites
<1>3. NoLoad \in TabLoad /\ UnderWay(NoLoad) = {}
  <2>1. <<>> \in [{} -> ReadState]
    OBVIOUS
  <2>2. NoLoad.read = <<>> /\ NoLoad \in TabLoad
    BY <2>1 DEF NoLoad, TabLoad
  <2> QED BY <2>2 DEF UnderWay
<1>4. CacheTypeOK
  BY <1>1, <1>2 DEF CacheInit, CacheTypeOK
<1>5. CopiesOK
  BY <1>1 DEF CacheInit, CopiesOK, CopyOK
<1>6. WroteOK
  BY <1>2 DEF CacheInit, WroteOK
<1>7. ReadsOK
  BY <1>3 DEF CacheInit, ReadsOK
<1> QED BY <1>4, <1>5, <1>6, <1>7 DEF CacheInv

(* A tab's copy becomes another one that is as it should be.               *)
LEMMA Persisted ==
  ASSUME CacheInv, NEW t \in Readers, NEW store, CopyOK(store), Persist(t, store),
         AtLeast(store, wrote'[t]), \A x \in Readers : x # t => wrote'[x] = wrote[x]
  PROVE  CopiesOK'
<1>1. ASSUME NEW x \in Readers, stores'[x] # Missing
      PROVE  CopyOK(stores'[x]) /\ AtLeast(stores'[x], wrote'[x])
  BY <1>1, PersistOK DEF CacheInv, CopiesOK
<1>2. CopyOK(persisted')
  BY PersistOK
<1> QED BY <1>1, <1>2 DEF CopiesOK

(* Only one of the tab's reads moves, and one that has been asked for gets *)
(* nothing older than what the tab itself has brought about.               *)
LEMMA OneRead ==
  ASSUME CacheInv, NEW t \in Readers, NEW read \in DOMAIN reads[t].read,
         NEW state \in ReadState, ReadIs(t, read, state), UNCHANGED wrote,
         state.at = "asked" => state.value >= wrote[t][KeyOf(read)]
  PROVE  ReadsOK'
<1>1. ReadsOK
  BY DEF CacheInv
<1>2. ASSUME NEW x \in Readers, NEW r \in UnderWay(reads'[x])
      PROVE  reads'[x].read[r].value >= wrote'[x][KeyOf(r)]
  <2>1. CASE x # t
    <3>1. reads'[x] = reads[x]
      BY <1>1, <2>1, ReadIsOK
    <3> QED BY <1>1, <1>2, <3>1 DEF ReadsOK
  <2>2. CASE x = t
    <3>1. \/ r \in UnderWay(reads[t]) /\ reads'[t].read[r] = reads[t].read[r]
          \/ r = read /\ reads'[t].read[r] = state /\ state.at = "asked"
      BY <1>1, <1>2, <2>2, ReadIsOK
    <3> QED BY <1>1, <1>2, <2>2, <3>1 DEF ReadsOK
  <2> QED BY <2>1, <2>2
<1>3. reads' \in [Readers -> TabLoad]
  BY <1>1, ReadIsOK
<1> QED BY <1>2, <1>3 DEF ReadsOK
-----------------------------------------------------------------------------
LEMMA LoadStartsKeeps ==
  ASSUME CacheInv, NEW t \in Readers, NEW visit \in scene.visits, LoadStarts(t, visit)
  PROVE  CacheInv'
<1> DEFINE f    == [read \in DOMAIN Plan[visit] |-> Unread]
           load == [visit |-> visit, read |-> f]
<1>1. visit \in DOMAIN Plan
  BY CacheAssumption DEF CacheInv, CacheTypeOK
<1>2. Unread \in ReadState /\ Unread.at # "asked"
  BY CacheAssumption DEF Unread, ReadState
<1>3. f \in [DOMAIN Plan[visit] -> ReadState] /\ DOMAIN Plan[visit] \in SUBSET ReadNames
  BY <1>1, <1>2 DEF ReadNames
<1>4. load.read = f /\ load \in TabLoad
  BY <1>1, <1>3 DEF TabLoad
<1>5. UnderWay(load) = {}
  BY <1>2, <1>4 DEF UnderWay
<1>6. reads' = [reads EXCEPT ![t] = load]
  BY DEF LoadStarts
<1> HIDE DEF load
<1>7. ReadsOK'
  BY <1>4, <1>5, <1>6 DEF CacheInv, ReadsOK, LoadStarts
<1> QED BY <1>7 DEF CacheInv, CacheTypeOK, CopiesOK, WroteOK, LoadStarts

(* A tab whose copy is hydrated or replaced stays promised what it was.    *)
LEMMA WroteKept ==
  ASSUME CacheInv, NEW t \in Readers, UNCHANGED <<wrote, values>>, stores'[t] # Missing,
         \A x \in Readers : x # t => stores'[x] = stores[x]
  PROVE  WroteOK'
BY DEF CacheInv, WroteOK

LEMMA ReadStartsKeeps ==
  ASSUME CacheInv, NEW t \in Readers, NEW read \in DOMAIN reads[t].read, ReadStarts(t, read)
  PROVE  CacheInv'
<1> DEFINE key   == KeyOf(read)
           store == Hydrated(t)
           asked == [at |-> "asked", value |-> values[key]]
<1>1. CopyOK(store) /\ AtLeast(store, wrote[t]) /\ store \in Entries /\ store # Missing
  BY HydratedOK, CacheAssumption DEF CopyOK
<1>2. UNCHANGED <<scene, clock, values, sending, wrote>>
  BY DEF ReadStarts
<1>3. Done \in ReadState /\ Done.at = "done"
  BY CacheAssumption DEF Done, ReadState
<1>4. /\ CanStart(reads[t], read)
      /\ \/ stores' = [stores EXCEPT ![t] = store] /\ UNCHANGED persisted
         \/ Persist(t, Dropping(store, {key}))
      /\ ReadIs(t, read, Done) \/ ReadIs(t, read, asked)
  BY DEF ReadStarts
<1> HIDE DEF store
<1>5. /\ CopiesOK' /\ persisted' \in Entries
      /\ stores' \in [Readers -> Entries \cup {Missing}] /\ stores'[t] # Missing
      /\ \A x \in Readers : x # t => stores'[x] = stores[x]
  <2>1. CASE stores' = [stores EXCEPT ![t] = store] /\ UNCHANGED persisted
    BY <1>1, <1>2, <2>1 DEF CacheInv, CacheTypeOK, CopiesOK
  <2>2. CASE Persist(t, Dropping(store, {key}))
    <3> DEFINE next == Dropping(store, {key})
    <3>1. CopyOK(next) /\ AtLeast(next, wrote'[t])
      BY <1>1, <1>2, DroppingOK
    <3> HIDE DEF next
    <3> QED BY <1>2, <2>2, <3>1, PersistOK, Persisted DEF next
  <2> QED BY <1>4, <2>1, <2>2
<1>6. asked \in ReadState /\ asked.value = values[key] /\ values[key] >= wrote[t][key]
  <2>1. key \in Keys
    BY ReadsKey DEF CacheInv
  <2>2. /\ values[key] \in 0 .. MaxWrites /\ wrote[t][key] \in 0 .. MaxWrites
        /\ wrote[t][key] <= values[key]
    BY <2>1 DEF CacheInv, CacheTypeOK, WroteOK
  <2> QED BY <2>2, CacheAssumption DEF ReadState
<1>7. ReadsOK'
  <2>1. CASE ReadIs(t, read, Done)
    BY <1>2, <1>3, <2>1, OneRead
  <2>2. CASE ReadIs(t, read, asked)
    <3> HIDE DEF asked
    <3> QED BY <1>2, <1>6, <2>2, OneRead
  <2> QED BY <1>4, <2>1, <2>2
<1> QED
  BY <1>2, <1>5, <1>7, WroteKept DEF CacheInv, CacheTypeOK

LEMMA ReadAnsweredKeeps ==
  ASSUME CacheInv, NEW t \in Readers, NEW read \in DOMAIN reads[t].read, ReadAnswered(t, read)
  PROVE  CacheInv'
<1> DEFINE key   == KeyOf(read)
           value == reads[t].read[read].value
           store == Holding(Hydrated(t), key, value)
<1>1. CopyOK(Hydrated(t)) /\ AtLeast(Hydrated(t), wrote[t])
  BY HydratedOK
<1>2. value \in 0 .. MaxWrites /\ value >= wrote[t][key] /\ clock \in 0 .. MaxClock
  <2>1. reads[t].read[read] \in ReadState
    BY ReadsKey DEF CacheInv
  <2>2. read \in UnderWay(reads[t])
    BY DEF ReadAnswered, UnderWay
  <2> QED BY <2>1, <2>2 DEF ReadState, CacheInv, ReadsOK, CacheTypeOK
<1>3. CopyOK(store) /\ AtLeast(store, wrote[t])
  BY <1>1, <1>2, HoldingOK
<1>4. UNCHANGED <<scene, clock, values, sending, wrote>> /\ Persist(t, store)
      /\ ReadIs(t, read, Done)
  BY DEF ReadAnswered
<1> HIDE DEF store
<1>5. Done \in ReadState /\ Done.at = "done"
  BY CacheAssumption DEF Done, ReadState
<1>6. CopiesOK'
  BY <1>3, <1>4, Persisted
<1>7. ReadsOK'
  BY <1>4, <1>5, OneRead
<1>8. /\ stores' \in [Readers -> Entries \cup {Missing}] /\ persisted' \in Entries
      /\ stores'[t] # Missing /\ \A x \in Readers : x # t => stores'[x] = stores[x]
  BY <1>3, <1>4, PersistOK
<1> QED BY <1>4, <1>6, <1>7, <1>8, WroteKept DEF CacheInv, CacheTypeOK

LEMMA ReadFailsKeeps ==
  ASSUME CacheInv, NEW t \in Readers, NEW read \in DOMAIN reads[t].read, ReadFails(t, read)
  PROVE  CacheInv'
<1>1. Failed \in ReadState /\ Failed.at = "failed"
  BY CacheAssumption DEF ReadState, Failed
<1>2. ReadIs(t, read, Failed)
      /\ UNCHANGED <<scene, clock, values, stores, persisted, sending, wrote>>
  BY DEF ReadFails
<1>3. ReadsOK'
  BY <1>1, <1>2, OneRead
<1> QED BY <1>2, <1>3 DEF CacheInv, CacheTypeOK, CopiesOK, WroteOK

LEMMA UnregisteredKeeps ==
  ASSUME CacheInv, NEW t \in Readers, Unregistered(t)
  PROVE  CacheInv'
<1> DEFINE load  == [reads[t] EXCEPT !.read["pending"] = Failed, !.read["contributed"] = Failed]
           ended == [load EXCEPT !.read = <<>>]
           f == [reads[t].read EXCEPT !["pending"] = Failed, !["contributed"] = Failed]
<1>1. reads[t] \in TabLoad /\ reads \in [Readers -> TabLoad]
  BY DEF CacheInv, ReadsOK
<1>2. PICK D \in SUBSET ReadNames : reads[t].read \in [D -> ReadState]
  BY <1>1 DEF TabLoad
<1>3. Failed \in ReadState /\ Failed.at # "asked"
  BY CacheAssumption DEF ReadState, Failed
<1>4. f \in [D -> ReadState]
      /\ \A r \in D : f[r] = IF r \in {"pending", "contributed"} THEN Failed
                             ELSE reads[t].read[r]
  BY <1>2, <1>3
<1>5. load = [reads[t] EXCEPT !.read = f]
  BY <1>1 DEF TabLoad
<1>6. <<>> \in [{} -> ReadState]
  OBVIOUS
<1> HIDE DEF f, load
<1>7. load \in TabLoad /\ load.read = f
  BY <1>1, <1>4, <1>5 DEF TabLoad
<1>8. ended \in TabLoad /\ ended.read = <<>> /\ UnderWay(ended) = {}
  <2>1. ended \in TabLoad /\ ended.read = <<>>
    BY <1>6, <1>7 DEF TabLoad
  <2> HIDE DEF ended
  <2> QED BY <2>1 DEF UnderWay
<1>9. /\ UNCHANGED <<scene, clock, values, stores, persisted, sending, wrote>>
      /\ reads' = [reads EXCEPT ![t] = ended] \/ reads' = [reads EXCEPT ![t] = load]
  BY DEF Unregistered, load
<1> HIDE DEF ended
<1>10. /\ reads' \in [Readers -> TabLoad]
       /\ \A x \in Readers : x # t => reads'[x] = reads[x]
       /\ reads'[t] = ended \/ reads'[t] = load
  BY <1>1, <1>7, <1>8, <1>9
<1>11. ASSUME NEW r \in UnderWay(load)
       PROVE  r \in UnderWay(reads[t]) /\ load.read[r] = reads[t].read[r]
  <2>1. r \in D /\ f[r].at = "asked"
    BY <1>4, <1>7 DEF UnderWay
  <2> QED BY <1>2, <1>3, <1>4, <1>7, <2>1 DEF UnderWay
<1>12. ASSUME NEW x \in Readers, NEW r \in UnderWay(reads'[x])
       PROVE  reads'[x].read[r].value >= wrote'[x][KeyOf(r)]
  <2>1. r \in UnderWay(reads[x]) /\ reads'[x].read[r] = reads[x].read[r]
    BY <1>8, <1>10, <1>11, <1>12
  <2> QED BY <1>9, <2>1 DEF CacheInv, ReadsOK
<1>13. ReadsOK'
  BY <1>10, <1>12 DEF ReadsOK
<1> QED BY <1>9, <1>13 DEF CacheInv, CacheTypeOK, CopiesOK, WroteOK
-----------------------------------------------------------------------------
(* The chain only goes on.                                                 *)
LEMMA ChangedKeeps ==
  ASSUME CacheInv, NEW write, Changed(write)
  PROVE  /\ values' \in [Keys -> 0 .. MaxWrites]
         /\ \A key \in Keys : values[key] <= values'[key]
<1>1. values \in [Keys -> 0 .. MaxWrites]
  BY DEF CacheInv, CacheTypeOK
<1>2. ASSUME NEW key \in Keys
      PROVE  /\ values[key] + (IF key \in Changes[write] THEN 1 ELSE 0) \in 0 .. MaxWrites
             /\ values[key] <= values[key] + IF key \in Changes[write] THEN 1 ELSE 0
  <2>1. values[key] \in 0 .. MaxWrites /\ (key \in Changes[write] => values[key] < MaxWrites)
    BY <1>1 DEF Changed
  <2> QED BY <2>1, CacheAssumption
<1> QED BY <1>2 DEF Changed

(* A write of somebody, by a tab or elsewhere.                             *)
LEMMA WriteKeeps ==
  ASSUME CacheInv, NEW write, Changed(write),
         sending' \in [Readers -> DOMAIN Changes \cup {Missing}],
         UNCHANGED <<scene, clock, stores, persisted, reads, wrote>>
  PROVE  CacheInv'
<1>1. /\ values' \in [Keys -> 0 .. MaxWrites]
      /\ \A key \in Keys : values[key] <= values'[key]
  BY ChangedKeeps
<1>2. WroteOK'
  <2> SUFFICES ASSUME NEW t \in Readers, NEW key \in Keys
               PROVE  wrote[t][key] <= values'[key]
    BY DEF CacheInv, WroteOK
  <2>1. wrote[t][key] \in Nat /\ values[key] \in Nat /\ values'[key] \in Nat
    BY <1>1, CacheAssumption DEF CacheInv, CacheTypeOK
  <2>2. wrote[t][key] <= values[key] /\ values[key] <= values'[key]
    BY <1>1 DEF CacheInv, WroteOK
  <2> QED BY <2>1, <2>2
<1> QED BY <1>1, <1>2 DEF CacheInv, CacheTypeOK, CopiesOK, ReadsOK

LEMMA WriteConfirmedKeeps ==
  ASSUME CacheInv, NEW t \in Readers, WriteConfirmed(t)
  PROVE  CacheInv'
<1> DEFINE write == sending[t]
           keys  == Invalidates(write)
           late  == {KeyOf(read) : read \in UnderWay(reads[t])}
           store == Dropping(Hydrated(t), keys)
           promise(key) == IF key \in late THEN 0
                           ELSE IF key \in Changes[write] \ {"membership"} THEN values[key]
                           ELSE wrote[t][key]
<1>1. write \in DOMAIN Changes
  BY DEF WriteConfirmed, CacheInv, CacheTypeOK
<1>2. Changes[write] \ {"membership"} \subseteq keys
  BY <1>1, ChangesInvalidated
<1>3. /\ CopyOK(store) /\ AtLeast(store, wrote[t])
      /\ \A key \in Keys : key \in keys => store[key] = Missing
  BY HydratedOK, DroppingOK
<1>4. /\ UNCHANGED <<scene, clock, values, reads>> /\ Persist(t, store)
      /\ sending' = [sending EXCEPT ![t] = Missing]
      /\ wrote' = [wrote EXCEPT ![t] = [key \in Keys |-> promise(key)]]
  BY DEF WriteConfirmed
<1> HIDE DEF store, keys, late
<1>5. \A key \in Keys : /\ values[key] \in 0 .. MaxWrites /\ wrote[t][key] \in 0 .. MaxWrites
                        /\ wrote[t][key] <= values[key]
  BY DEF CacheInv, CacheTypeOK, WroteOK
<1>6. ASSUME NEW key \in Keys
      PROVE  promise(key) \in 0 .. MaxWrites /\ promise(key) <= values[key]
  BY <1>5, CacheAssumption
<1>7. /\ wrote' \in [Readers -> [Keys -> 0 .. MaxWrites]]
      /\ \A key \in Keys : wrote'[t][key] = promise(key)
      /\ \A x \in Readers : x # t => wrote'[x] = wrote[x]
  BY <1>4, <1>6 DEF CacheInv, CacheTypeOK
<1>8. ASSUME NEW key \in Keys, store[key] # Missing
      PROVE  store[key].value >= wrote'[t][key]
  <2>1. promise(key) = 0 \/ promise(key) = wrote[t][key]
    BY <1>2, <1>3, <1>8
  <2>2. store[key].value \in Nat
    BY <1>3, <1>8, CacheAssumption DEF CopyOK, Entries, Entry
  <2>3. store[key].value >= wrote[t][key]
    BY <1>3, <1>8 DEF AtLeast
  <2> HIDE DEF promise
  <2> QED BY <1>7, <2>1, <2>2, <2>3
<1>9. AtLeast(store, wrote'[t])
  BY <1>8 DEF AtLeast
<1>10. CopiesOK'
  BY <1>3, <1>4, <1>7, <1>9, Persisted
<1>11. /\ stores' \in [Readers -> Entries \cup {Missing}] /\ persisted' \in Entries
       /\ stores'[t] # Missing /\ \A x \in Readers : x # t => stores'[x] = stores[x]
  BY <1>3, <1>4, PersistOK
<1>12. WroteOK'
  <2> SUFFICES ASSUME NEW x \in Readers
               PROVE  /\ stores'[x] = Missing => wrote'[x] = NoWrites
                      /\ \A key \in Keys : wrote'[x][key] <= values'[key]
    BY DEF WroteOK
  <2>1. CASE x = t
    BY <1>4, <1>6, <1>7, <1>11, <2>1
  <2>2. CASE x # t
    BY <1>4, <1>7, <1>11, <2>2 DEF CacheInv, WroteOK
  <2> QED BY <2>1, <2>2
<1>13. ReadsOK'
  <2> SUFFICES ASSUME NEW x \in Readers, NEW read \in UnderWay(reads[x])
               PROVE  reads[x].read[read].value >= wrote'[x][KeyOf(read)]
    BY <1>4 DEF CacheInv, ReadsOK
  <2>1. CASE x # t
    BY <1>7, <2>1 DEF CacheInv, ReadsOK
  <2>2. CASE x = t
    <3>1. KeyOf(read) \in late
      BY <2>2 DEF late
    <3>2. KeyOf(read) \in Keys /\ reads[x].read[read] \in ReadState
      BY ReadsKey DEF CacheInv, UnderWay
    <3>3. wrote'[x][KeyOf(read)] = 0
      BY <1>7, <2>2, <3>1, <3>2
    <3> QED BY <3>2, <3>3, CacheAssumption DEF ReadState
  <2> QED BY <2>1, <2>2
<1>14. sending' \in [Readers -> DOMAIN Changes \cup {Missing}]
  BY <1>4 DEF CacheInv, CacheTypeOK
<1> QED
  BY <1>4, <1>7, <1>10, <1>11, <1>12, <1>13, <1>14 DEF CacheInv, CacheTypeOK

LEMMA EventArrivesKeeps ==
  ASSUME CacheInv, NEW t \in Readers, NEW write, NEW own, EventArrives(t, write, own)
  PROVE  CacheInv'
<1> DEFINE store == Dropping(Hydrated(t), InvalidatedByEvent(reads[t].visit, write, own))
<1>1. CopyOK(store) /\ AtLeast(store, wrote[t])
  BY HydratedOK, DroppingOK
<1>2. UNCHANGED <<scene, clock, values, reads, sending, wrote>> /\ Persist(t, store)
  BY DEF EventArrives
<1> HIDE DEF store
<1>3. CopiesOK'
  BY <1>1, <1>2, Persisted
<1>4. /\ stores' \in [Readers -> Entries \cup {Missing}] /\ persisted' \in Entries
      /\ stores'[t] # Missing /\ \A x \in Readers : x # t => stores'[x] = stores[x]
  BY <1>1, <1>2, PersistOK
<1> QED BY <1>2, <1>3, <1>4, WroteKept DEF CacheInv, CacheTypeOK, ReadsOK

LEMMA TabReloadsKeeps ==
  ASSUME CacheInv, NEW t \in Readers, TabReloads(t)
  PROVE  CacheInv'
<1>1. NoWrites \in [Keys -> 0 .. MaxWrites] /\ \A key \in Keys : NoWrites[key] = 0
  BY CacheAssumption DEF NoWrites
<1>2. NoLoad \in TabLoad /\ UnderWay(NoLoad) = {}
  <2>1. <<>> \in [{} -> ReadState]
    OBVIOUS
  <2>2. NoLoad.read = <<>> /\ NoLoad \in TabLoad
    BY <2>1 DEF NoLoad, TabLoad
  <2> QED BY <2>2 DEF UnderWay
<1>3. CacheTypeOK'
  BY <1>1 DEF CacheInv, CacheTypeOK, TabReloads
<1>4. CopiesOK'
  BY DEF CacheInv, CacheTypeOK, CopiesOK, TabReloads
<1>5. WroteOK'
  <2> SUFFICES ASSUME NEW x \in Readers
               PROVE  /\ stores'[x] = Missing => wrote'[x] = NoWrites
                      /\ \A key \in Keys : wrote'[x][key] <= values'[key]
    BY DEF WroteOK
  <2>1. \A key \in Keys : values[key] \in Nat
    BY CacheAssumption DEF CacheInv, CacheTypeOK
  <2> QED BY <1>1, <2>1 DEF CacheInv, CacheTypeOK, WroteOK, TabReloads
<1>6. ReadsOK'
  BY <1>2 DEF CacheInv, CacheTypeOK, ReadsOK, TabReloads
<1> QED BY <1>3, <1>4, <1>5, <1>6 DEF CacheInv

(* Every step of the cache keeps the invariant.                            *)
LEMMA CacheStep == CacheInv /\ [CacheNext]_cacheVars => CacheInv'
<1> SUFFICES ASSUME CacheInv, [CacheNext]_cacheVars PROVE CacheInv'
  OBVIOUS
<1>1. scene.readers \subseteq Readers /\ scene.writes \subseteq DOMAIN Changes
  BY CacheAssumption DEF CacheInv, CacheTypeOK
<1>2. ASSUME NEW t \in Readers, NEW write \in DOMAIN Changes, WriteApplied(t, write)
      PROVE  CacheInv'
  <2>1. sending' \in [Readers -> DOMAIN Changes \cup {Missing}]
    BY <1>2 DEF WriteApplied, CacheInv, CacheTypeOK
  <2> QED BY <1>2, <2>1, WriteKeeps DEF WriteApplied
<1>3. ASSUME NEW write \in DOMAIN Changes, OthersWrite(write)
      PROVE  CacheInv'
  <2>1. sending' \in [Readers -> DOMAIN Changes \cup {Missing}]
    BY <1>3 DEF OthersWrite, CacheInv, CacheTypeOK
  <2> QED BY <1>3, <2>1, WriteKeeps DEF OthersWrite
<1>4. ASSUME NEW t \in Readers, WriteUnconfirmed(t) PROVE CacheInv'
  <2>1. sending' \in [Readers -> DOMAIN Changes \cup {Missing}]
    BY <1>4 DEF WriteUnconfirmed, CacheInv, CacheTypeOK
  <2> QED
    BY <1>4, <2>1 DEF WriteUnconfirmed, CacheInv, CacheTypeOK, CopiesOK, WroteOK, ReadsOK
<1>5. CASE TimePasses
  <2>1. clock' \in 0 .. MaxClock
    BY <1>5, CacheAssumption DEF TimePasses, CacheInv, CacheTypeOK
  <2> QED BY <1>5, <2>1 DEF TimePasses, CacheInv, CacheTypeOK, CopiesOK, WroteOK, ReadsOK
<1>6. CASE UNCHANGED cacheVars
  BY <1>6 DEF cacheVars, CacheInv, CacheTypeOK, CopiesOK, WroteOK, ReadsOK
<1>7. ASSUME NEW t \in Readers,
             \/ \E visit \in scene.visits : LoadStarts(t, visit)
             \/ \E read \in DOMAIN reads[t].read :
                  ReadStarts(t, read) \/ ReadAnswered(t, read) \/ ReadFails(t, read)
             \/ \E write \in scene.writes :
                  WriteApplied(t, write) \/ \E own \in BOOLEAN : EventArrives(t, write, own)
             \/ Unregistered(t)
             \/ WriteConfirmed(t) \/ WriteUnconfirmed(t) \/ TabReloads(t)
      PROVE  CacheInv'
  BY <1>1, <1>2, <1>4, <1>7, LoadStartsKeeps, ReadStartsKeeps, ReadAnsweredKeeps, ReadFailsKeeps,
     UnregisteredKeeps, WriteConfirmedKeeps, EventArrivesKeeps, TabReloadsKeeps
<1> QED
  BY <1>1, <1>3, <1>5, <1>6, <1>7 DEF CacheNext

(* The cache's state stays well typed.                                     *)
THEOREM CacheTypeCorrect == CacheSpec => []CacheTypeOK
<1>1. CacheInv => CacheTypeOK
  BY DEF CacheInv
<1> QED BY <1>1, CacheInitInv, CacheStep, PTL DEF CacheSpec

(* No copy is served longer than TTL after the read that brought it, ...   *)
THEOREM AlwaysServedWithinTTL == CacheSpec => []ServedWithinTTL
<1>1. CacheInv => ServedWithinTTL
  <2> SUFFICES ASSUME CacheInv, NEW t \in Readers, NEW key \in Keys,
                      Hydrated(t)[key] # Missing
               PROVE  \/ Expired(Hydrated(t)[key])
                      \/ clock <= Hydrated(t)[key].readAt + TTL
    BY DEF ServedWithinTTL
  <2> DEFINE e == Hydrated(t)[key]
  <2>1. CopyOK(Hydrated(t))
    BY HydratedOK
  <2>2. e \in Entry /\ e.expiresAt <= e.readAt + TTL
    BY <2>1 DEF CopyOK, Entries
  <2>3. clock \in Nat /\ e.expiresAt \in Nat /\ e.readAt \in Nat /\ TTL \in Nat
    BY <2>2, CacheAssumption DEF Entry, CacheInv, CacheTypeOK
  <2> HIDE DEF e
  <2>4. Expired(e) \/ clock <= e.readAt + TTL
    BY <2>2, <2>3 DEF Expired
  <2> QED BY <2>4 DEF e
<1> QED BY <1>1, CacheInitInv, CacheStep, PTL DEF CacheSpec

(* ... and a tab keeps nothing older than its own confirmed writes.        *)
THEOREM OwnWriteAlwaysShown == CacheSpec => []OwnWriteShown
<1>1. CacheInv => OwnWriteShown
  BY DEF CacheInv, CopiesOK, AtLeast, ReadsOK, OwnWriteShown
<1> QED BY <1>1, CacheInitInv, CacheStep, PTL DEF CacheSpec
(***************************************************************************)
(* MCParts, the five parts side by side.                                   *)
(***************************************************************************)
(* Each part behaves side by side with the others as it does alone: it     *)
(* begins as its own specification says, takes its own steps and no other  *)
(* part's step changes it.                                                 *)
THEOREM PartsStayApart ==
  PartsSpec => RewardSpec /\ GasClientSpec /\ WalletSpec /\ ServiceSpec /\ CacheSpec
<1>1. PartsInit => RewardInit /\ GasClientInit /\ WalletInit /\ ServiceInit /\ CacheInit
  BY DEF PartsInit
<1>2. ASSUME [PartsNext]_partsVars
      PROVE  /\ [RewardNext]_rewardVars /\ [GasClientNext]_gasVars
             /\ [WalletNext]_walletVars /\ [ServiceNext]_serviceVars /\ [CacheNext]_cacheVars
  BY <1>2, Zenon DEF PartsNext, partsVars
<1> QED
  BY <1>1, <1>2, PTL
     DEF PartsSpec, RewardSpec, GasClientSpec, WalletSpec, ServiceSpec, CacheSpec

(* The browser's and the service's state stays well typed, whichever part  *)
(* moves.                                                                  *)
THEOREM PartsTypeCorrect == PartsSpec => []PartsTypeOK
<1>1. GasClientTypeOK /\ WalletTypeOK /\ ServiceTypeOK /\ CacheTypeOK => PartsTypeOK
  BY DEF PartsTypeOK
<1> QED
  BY <1>1, PartsStayApart, GasClientTypeCorrect, WalletTypeCorrect, ServiceTypeCorrect,
     CacheTypeCorrect, PTL
=============================================================================
