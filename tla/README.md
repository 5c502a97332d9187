# Talambag: models, checks and proofs

Talambag is a group savings application on Stellar. This directory holds TLA+
models of its contracts, its indexer, its gas station and the browser's share in
all of them (pages, cache, wallet, sponsored transactions); TLC configurations
that check small instances of them; and proofs, checked by TLAPS, of the
properties that matter most for all instances. `PROJECT.json` is the index:
components, runs, the source lines each definition stands for, hazards, findings
and theorems.

Paths below are relative to `src/`.

## 1. The system

    browser (Next.js) ── reads, transactions ──────────▶ Stellar RPC ── ledger
      │  ▲                                                  ▲   ▲   core contract
      │  └── event history and stream ── indexer ── polls ──┘   │     ⇅ calls
      │                                  │  └─ Postgres         │   rewards contract
      └── signed transactions ── gas station ── Velo relayer ───┘

| component | source | state it keeps | operations |
|---|---|---|---|
| Core contract | `contracts/src/lib.rs` | group counter, groups, memberships, pools, link to rewards | constructor, `set_rewards_contract`, `create_group`, `add_member`, `create_pool`, `deposit`, `withdraw`, reads |
| Rewards contract | `contracts/rewards/src/lib.rs` | link to core, group owners, per-group and per-user totals, balances, supply | `set_core_contract`, `register_group`, `record_contribution`, `claim_rewards`, `transfer`, `burn`, reads |
| Indexer poller | `indexer/src/indexer.ts` | the poll under way, a timer | `poll`, `start`, `stop` |
| Event store | `indexer/src/db.ts` | event rows, one cursor row | `storeEventBatch`, `clearStoredCursor`, `listEvents` |
| Server and stream | `indexer/src/server.ts` | open event streams | event listing, stream, gas routes |
| Gas station | `indexer/src/gas/service.ts`, `store.ts` | operation records | `submit`, `getStatus` |
| Read cache | `frontend/src/lib/cache.ts` | entries with an expiry, a persisted copy | get, set, invalidate |
| Realtime client | `frontend/src/lib/realtime-events.ts` | event source, retry timer | subscribe, history, invalidation |
| Pool, group, dashboard pages | `frontend/src/app` | what is rendered | load, refresh, submit |
| Contract clients | `frontend/src/lib/talambag-client.ts`, `rewards-client.ts` | none of their own | cached reads, transactions |
| Gas client, recovery notice, API routes | `frontend/src/lib/gas-client.ts` and others | pending operation ids in `localStorage` | submit, ask, forget |
| Wallet connection | `frontend/src/lib/wallet-kit.ts`, `contexts/wallet-context.tsx` | connected address | connect, disconnect, restore |

Interactions. A deposit is one transaction that moves a token, credits a pool
and, if the rewards contract is linked, registers the group there and records
the contribution; a claim asks the core contract whether the claimant is a
member. The indexer reads the events of both contracts from the RPC, page after
page, commits a page with its cursor in one database transaction and then emits
the new events to the streams of its own process. The browser takes an event as
a signal to invalidate cached reads and load again. Sponsored transactions are
signed in the browser and go through the gas station to the relayer, which
submits them.

What is hard here:

- *Contracts*: every call is atomic, so the difficulty is not in interleaving
  but in long sequences of legal calls over redundant state (member counts,
  identifiers, owners stored twice, four amounts that must agree), in the two
  links that may be set and changed in any order, and in the limits of the
  integer widths.
- *Gas station*: several requests on one operation id, each a chain of awaits on
  a database and a relayer that may answer late, never, or with an error that
  says nothing; and crashes between any two of them.
- *Indexer*: cursor and data must move together; cursors go stale; the RPC's
  nodes disagree about the newest ledger; a deployment lets two processes share
  the database.
- *Browser*: overlapping loads, a cache that is filled by answers to old
  questions, a stream that replays nothing, a wallet that changes meanwhile; and
  several tabs on one local storage and one session cookie.

Correctness of the parts, in words: the core contract never owes more than it
owns; no reward is lost or paid twice; a signed transaction is handed over at
most once and no status claims an outcome that did not happen; no event is
skipped, emitted twice or emitted out of order; a page at rest shows what it has
been told of, for the wallet that is connected; a tab sees its own transactions;
what the user is told of a sponsored transaction stays true, and one whose end
is unknown can be asked about again.

## 2. The modules

| module | models | kind |
|---|---|---|
| `Ledger` | addresses and number widths of the Soroban ledger | shared constants |
| `Totals`, `TotalsProofs` | the total of a finite family of numbers, and its laws | library |
| `TalambagCore` | core contract and the token contracts it calls | component |
| `Escrow` | what the core contract promises: pots and a reserve | abstract |
| `RewardToken` | rewards contract | component |
| `Talambag` | the two contracts, linked or not | composition |
| `GasStation` | gas station service, its table, the relayer | component |
| `OneHandoff` | what the gas station promises | abstract |
| `OperationOutcomes` | what the gas station and its clients agree on | abstract |
| `Indexer` | poller, event store, RPC | component |
| `PoolPage` | pool page, read cache entry, stream, transactions | component |
| `Browser` | tabs, wallets and null | shared constants |
| `GasClient` | gas client, recovery notice, API routes | component |
| `WalletKit` | wallet hook, wallet kit, saved copy | component |
| `EventService` | process of the indexer: start, timer, streams, listings, shutdown | component |
| `ReadCache` | read cache in several tabs, under the loads of all pages | component |
| `MC*` | instances for TLC | runs |
| `PartsProofs` | theorems about `GasClient`, `WalletKit`, `EventService`, `ReadCache` and `MCParts` | proofs |
| other `*Proofs` | theorems about the module of that name | proofs |

Operators such as `DepositUnpaid` or `CreateUpserts`, introduced as "Mutant of",
are plausible mistakes in the operator that follows them. Nothing uses them:
they document which mistake each property would catch, and `PROJECT.json` pairs
each with a property and a run.

### Contracts: `TalambagCore`, `RewardToken`, `Talambag`

A step is one successful transaction. An entry point that returns an error or
traps leaves the ledger as it was, so every check of the code is a guard, in the
code's order, and only the states between transactions are visible. Storage
keys are variables: a key whose presence is tested is a partial function
(`groups`, `pools`, `groupOwner`) or a relation (`members`), a key read with
`unwrap_or(0)` a total function. `u32` and `i128` keep their limits as `U32Max`
and `I128Max`, with every checked addition a guard. Authorization
(`require_auth`) is who may be the first argument: a member of `Accounts`.

`Talambag` composes both. Where the core contract calls the rewards contract,
the action is the conjunction of the two (`CreateGroupTx`, `DepositTx`), so that
a refusal of either is a refusal of the whole. That is how the Soroban host runs
a transaction; the model assumes it and shows nothing about it. A contract of
another deployment linked on either side may answer anything. `foreign` is a
history variable: it remembers that another core contract was once linked,
because what that contract reported stays in the rewards contract.

`Escrow` knows no groups or roles. It has one step worth knowing about:
`Strand`. `withdraw` accepts the contract's own address as recipient, which
reduces the pool and leaves the money in the contract where no pool can reach
it. The code allows it, the abstract module names it, and `Solvency` is an
inequality because of it.

### Gas station: `GasStation`

A request is a *handler*; its program point `at` names the await it is at, and
each action runs from one await to the next. The unique key of the table decides
between two `create` calls. `Sponsored` covers everything `sponsorAndSubmit` may
do: a result, an error that carries the identity of the request, a policy
denial, or an error that says nothing. `StoreFails` is a rejected database call
that may have committed all the same; `Crash` loses every handler. The relayer
is external: it receives a hand-off at any later time or never, and is
idempotent by operation id. `patchFromResult` writes many columns; the model
keeps the two that later steps read, the status and whether the relayer's
identity is known.

### Indexer: `Indexer`

A process is at one of the awaits of `poll`: asking for the newest ledger,
fetching, storing, emitting, clearing the cursor. The chain is the sequence of
the ledgers of its events, so a page boundary may fall inside a ledger. The RPC
is external: any node up to `Lag` ledgers behind may answer, its retention
window moves, an answer's cursor is that of its last event or of the end of the
scanned range, and a request outside the range is refused. A database
transaction commits or not, and its caller may be told a failure either way
(`Interrupted` after `Store`). Records that `normalizePageEvents` cannot decode
are skipped (`undecodable`). `begun` is a history variable: the newest ledger
from which a poll without a configured start and without a cursor has begun.

### Page: `PoolPage`

Up to two overlapping loads each read group, membership and pool through the
cache, and at the same time the event history. The pool is a version number
(how often its money has moved), an event is its position among those moves,
and of the membership only the wallet it was read for is kept. The action names
are the code's callbacks: `HandleEvent` (the subscription), `RefreshFires` (the
250 ms timer, which closes over the wallet it was made for), `SwitchWallet` (the
effects that depend on the address), `Confirmed` (a submitted transaction).
`EventsThrow` rejects the load's `Promise.all` while its contract reads go on
and may still fill the cache. Four history variables (`known`, `overtaken`,
`strayed`, `failed`) say what the page had been told and whether something was
under way at that time; no action reads them. On the indexer's side a commit
(`Indexed`) and the emission (`Emitted`) are two steps, and an emission may be
lost, by a crash or because another process committed.

Simplifications, all named in the module: the RPC answers with the current pool;
one transaction of the user at a time; unmounting, forms and invalid identifiers
are left out; reads of rewards only delay the end of a load.

### Sponsored transactions in the browser: `GasClient`

`submissions[id].at` is the await at which a call of `submitGasOperation` is:
`authorizing` (the POST to `/api/gas/auth`), `sending` (before the POST to
`/api/gas`), `posted`, `status`, `confirming` (the relayer has reported success
and `submitSignedGasTransaction` polls the RPC for the contract's return value,
whose failure is swallowed; only then is the user told). Reading and writing
`localStorage` without an await in between is one step; `gasIds` is what all
tabs see, and so is the session, which is one cookie (`gasCookie`). Each fetch
ends by an answer, an error or its timeout, and a request goes on travelling
after its client has given up (`PostUnresolved`, then `Taken`) or after its tab
was closed
(`Abandon`). `Remember` moves an id to the end and drops the oldest above
`Kept`; `Observe` is what both callers do with a status. A recovery check
(`CheckStarts`) takes the first `Checked` ids and asks for one after the other.

The service is seen from outside: the first request it takes decides the course
of the operation (`outcomes`), and its row may be read when it is not yet up to
date. That is what `GasStation` shows of an operation (`HandedOnce`,
`OutcomesTrue`). `learned` and `displaced` are history variables.

### Wallet: `WalletKit`

The calls of the hook (mounting, syncs, connecting, disconnecting) are under way
at the same time, and `calls[c].at` is the await of each. The kit is external: it
loads or never does, its account changes at any time, and it tells the hook of
that only once the hook has subscribed. The snapshot's network and balance are
read but never change what is shown connected, so only the address is kept, and
`isCached`, which marks what came from local storage. That entry is one for all
tabs: `OtherTab` saves another wallet or none at any time, and no tab listens for
it. `given` and `left` are history variables: the addresses the kit has given
this page, and that the user has disconnected while no call had an address and
that the kit has given none since.

### Process of the indexer: `EventService`

`Indexer` models the inside of a poll; here a poll only commits the next events
and emits them, while browsers open streams with a filter, list the table
(`Newest`) and leave, and the process starts, shuts down and is started again.
Two steps lie between an event's commit and its emission, which is where the
listing and the stream meet. `CommitUnanswered` is the commit whose answer is
lost: its events are in the table and never on a stream (`unsent`). Only this
process commits. What a second one commits while a deployment lets the two
overlap, which `Indexer` models, is in the table too and never on this process's
streams: a further exception of `StreamComplete`, like `unsent`. `Shutdown`
clears the timer and closes the streams; a first poll under way sets the timer
afterwards (`PollIsOver`), which `stoppedInTime` remembers.

### Read cache: `ReadCache`

Every tab has its copy (`stores`), which it takes over from local storage at its
first access and writes back as a whole. The loads of the dashboard, of a group's
page and of the rewards are data: `Plan` gives the reads of each and which reads
each waits for; `Changes`, `Invalidates` and `InvalidatedByEvent` say what a
transaction changes on the chain, what the tab that made it invalidates and what
each page invalidates when its stream tells it of the event. A value is how often
it has changed. One load runs per tab; `PoolPage` has the overlapping ones. The
chain answers in the step in which it is asked, which loses nothing: an answer
given later is newer, and the properties ask for values that are new enough. It
answers with the present value. That is an assumption: an RPC node may lag, as in
`Indexer`, and one that is behind the node which confirmed the tab's own
transaction would break `OwnWriteShown`; nothing in the code prevents it.
`Unregistered` is the group that is not registered with the rewards contract,
whose rewards are not read; `own` is whether an event is the connected wallet's,
for only then does the pool's page invalidate the rewards.

## 3. What TLC checks

State counts are those of a full exploration. Every run stays below three
minutes on two cores.

| run | instance | distinct states | what it shows |
|---|---|---|---|
| `core` | 2 signers, 1 token, 1 bogus asset, 2 groups of 2 pools, amounts 1–2 | 231,638 | `Solvency`, `IdsDense`, `MemberCountExact`, `RolesAreMembers`, `RolesPermanent`, refinement of `Escrow` |
| `parts` | one of the five parts below at a time | 355,177 | see below |
| `pair` | both contracts, another deployment of each, 1 group, amounts of 1 | 124,424 | `RegisteredOwnersAgree`, `PendingClaimable`, `DepositsEarn` |
| `gas` | 3 concurrent requests, 2 wallets, 2 transactions, 1 operation id | 1,249,401 | `HandedOnce`, `OutcomesTrue`, refinement of `OneHandoff` |
| `gas_live` | 2 requests, 1 wallet, fairness | 36,108 | `IdentifiedSettle` |
| `indexer` | 2 processes, pages of 1, nodes up to 1 behind, 4 ledgers, 3 events | 3,466,978 | `IndexedOrExpired`, `StreamedOnce`, `StreamInOrder` |
| `indexer_live` | 1 process, no start ledger, looking back 1 of 4 ledgers, fairness | 52,086 | `IndexedEventually` |
| `page` | 3 scenes: 2 loads, 1 event and a wallet; 2 loads and 2 events; 1 load with 2 events, wallet and claims | about 3.6 million | `ShowsWhatItKnows`, `ShowsOwnMembership`, `HistoryOrdered` |
| `rewards_self_transfer`, `pair_half_linked`, `indexer_clear`, `page_stale` | as above, each aimed at one statement | – | the findings of section 6 |

The run `parts` (module `MCParts`) checks five modules that share no variable
with each other. `part` chooses one in the initial state; it takes steps and the
others keep an initial state, so that each reaches exactly what it reaches
alone. A property of one part holds of the others' initial states in its
behaviours and is put to the test in its own.

| part | instance | states, about | what it shows |
|---|---|---|---|
| `RewardToken` | 2 signers, 2 groups, 2 possible core contracts, amounts 1–2 | 33,000 | `GroupLedgerExact`, `SupplyFromClaims`, `SupplyHeld`, `RewardsNeverLost` |
| `GasClient` | 2 operations, 2 wallets, 1 tab with a check under way, 1 id kept | 93,000 | `ToldTruly`, `UnsettledRemembered` |
| `WalletKit` | 2 calls at once, 2 wallets | 11,000 | `OwnWalletShown` |
| `EventService` | 2 browsers, 3 events of 2 groups, listings of at most 2 | 40,000 | `StreamComplete`, `StoppedForGood` |
| `ReadCache` | 3 scenes (`MCScenes`) of 1 or 2 tabs, each value changes once | 178,000 | `ServedWithinTTL`, `OwnWriteShown` |

Why the bounds are enough for the interesting cases:

- **Contracts.** `U32Max = 3` gives identifiers 1 and 2 and a counter that stops
  at its limit, so two groups, two pools in one group, the pools of different
  groups in the same token, and the failure to create all occur; a member count
  of 3 is the limit too. Holdings sum to more than `I128Max`, so a transfer can
  overflow its receiver. In `pair`, `I128Max = 1` puts the cumulative totals at
  their limit after one deposit: a deposit refused by the rewards contract for
  overflow must leave the core contract as it was.
- **Gas.** Three requests are one more than the race between two claims needs:
  while two race, the third asks for a status or retries. The second wallet
  signed another transaction and uses the same operation id. Operations share
  nothing, so one operation id is where requests meet.
- **Indexer.** Pages of one event and ledgers of up to two put a page boundary
  inside a ledger and make full pages the rule; four ledgers with a start at 2
  let a stored cursor expire, be cleared and be rebuilt while the second process
  still stores with the old one.
- **Page.** Two overlapping loads, two events, a wallet that comes and goes and
  claims are too many states together, so `MCPoolPage` takes them in three scenes
  (`MCScenes`): two loads that overlap in every way, with cached and old answers,
  the wallet changing and one own transaction, at one event; two loads whose reads
  may also fail and two events, which is what an order in the history needs,
  without a wallet; and one load with two events, wallet, failures and claims. The
  theorems hold for all of it at once.
- **Indexer's liveness.** Looking back one ledger of four, a start without cursor
  begins later than the oldest ledger the RPC has: events before it exist and are
  excepted by `begun`, and what `indexer_clear` shows can happen in this run.
- **Gas client.** Two operations and one id kept make the second displace the
  first, of the same wallet, and let another wallet's authorization replace the
  cookie between the first's authorization and its POST. Two submissions and a
  check are then three callers of the storage; they may belong to one tab or
  to three, for nothing but the storage and the cookie is common to them. With
  one id kept and one checked the run does not exercise the order of the list nor
  which ids a check takes first (three operations and two kept are beyond five
  minutes); the theorem covers lists of any length.
- **Wallet.** Two calls overlap in every pair; there is never both a connect and
  a disconnect, and a further sync reads the same kit. Two wallets tell the
  page's own from the one another tab has saved.
- **Event service.** With three events of two groups a page of two can be
  committed, a listing be full, and a filter leave something out.
- **Read cache.** The scenes are the reward reads with the transactions that
  change them, a group's page with its own, and two tabs on the dashboard, one of
  which writes while the other persists its older copy. A time to live of 1 with
  times 0 to 2 has an entry fresh, just expired and overdue. A value that has
  changed once is old or new, which is all the properties tell apart.

`CHECK_DEADLOCK FALSE` is set where the modelled system may really stop: the
contracts when counters and amounts are exhausted, and the gas station and the
page when the bounds on operations and events are used up and nothing is asked
of them; `parts` for the same reasons. The indexer never stops and is checked
for deadlock.

### Fairness

- *Gas station* (`LiveSpec`). Every await settles, because the calls carry
  timeouts, and clients read their answers: weak fairness of `Progress`. A call
  that fails again and again proves nothing, so a step that is tried for ever
  succeeds some time: strong fairness of finding the record, of the relayer's
  answer and of saving it. The relayer settles what it accepted. Nothing makes an
  owner ask: the recovery notice asks when its button is pressed, and for the
  first five ids only (`frontend/src/components/gas-recovery-notice.tsx:35-52`).
  `IdentifiedSettle` is therefore about an operation whose owner keeps asking,
  a premise of the property and no fairness of the system. Nothing is assumed
  about crashes, which may go on for ever as long as they leave a request
  enough time now and then.
- *Indexer* (`LiveSpec`). The timer polls again; an RPC request or a commit that
  is repeated for ever succeeds some time. `Lag = 0` is needed: a node that
  stays behind for ever answers for ever without the newest events.

Everything else has safety and action properties only. For the page nothing else
is true: after a reconnection nothing reloads it. For a sponsored submission
neither: its three fetches have timeouts, but the `pollTransaction` that follows
a success has none (`frontend/src/lib/talambag-client.ts:151`).

## 4. What is proved

Every theorem holds for all values of the constants that satisfy the named
assumptions (`LedgerAssumption`, `CoreAssumption`, `RewardAssumption`,
`TalambagAssumption`, `GasAssumption`, `IndexerAssumption`, `PageAssumption`,
`BrowserAssumption`, `GasClientAssumption`, `ServiceAssumption`,
`CacheAssumption`): finitely many addresses, positive limits, constants of the
right kind, null distinct from everything else, and for the cache scenes that
only name tabs, pages and transactions there are. TLC evaluates each assumption
in its runs.

- **Totals.** The total of a family is the number of its units, a cardinality, so
  no recursion and no induction is needed: changing one entry, extending the
  domain and bounding one entry by the total follow from the library's facts
  about finite sets (`TotalsProofs`).
- **Core** (`TalambagCoreProofs`). `CoreTypeOK` is inductive. `IdsDense` is what
  makes the rest work: an identifier below the counter is taken and the next one
  is free, so a creation never overwrites, hence `RolesPermanent`; membership
  only grows, hence `RolesAreMembers`; an added member is new, hence
  `MemberCountExact`. `Solvency` moves pool and holding by the same amount with
  `TotalExcept`. `CoreImplementsEscrow` maps each action to an escrow step or a
  stutter.
- **Rewards** (`RewardTokenProofs`). `GroupLedgerExact` alone is not inductive: a
  first registration writes 0 to the group's totals, which is harmless only
  because nothing can have been recorded for an unregistered group. `LedgerInv`
  adds `UnregisteredEmpty`, which `SupplyFromClaims` needs for the same reason;
  it is proved together with `SupplyHeld`, with the holders' balances added up by
  `Totals`: a transfer to oneself can only raise that sum, which is why it is a
  lower bound (`SupplyAlwaysHeld`) and not an equality.
  `RewardsNeverLost` is an action property from the type invariant and
  `LedgerInv`.
- **Pair** (`TalambagProofs`). Each step of the pair is a step of either
  specification or a stutter of it by the shape of `Next`; the lemmas `PairIsCore`
  and `PairIsRewards` say so, to use here what is proved of each contract alone,
  and claim nothing about the code. `RegisteredOwnersAgree` and
  `PendingClaimable` hold as long as no other core contract was linked; the
  invariant `OwnLink` says that then the link is to this one or unset, and
  `NoForeignCall` that nobody else's calls are accepted.
- **Gas station** (`GasStationProofs`). `GasInv` adds to `HandedOnce`:
  `OneCreator` (at most one handler of an operation is between the claim and the
  hand-off), `RecordOK` (what the table may say given what the relayer did) and
  `RequestOK` (what each handler at each point knows; one about to hand over
  knows that nothing was). The relayer only moves forward (`Advances`), so what
  a handler was told remains true of final states however late it writes.
- **Indexer** (`IndexerProofs`). `IndexerInv` says of the chain that its ledgers
  ascend (`ChainOK`), of the table and its cursor that everything up to them is
  settled (`TableOK`), and of each poll that its page closes the gap between the
  position it asked from and its next cursor (`PollOK`). Settled events stay
  settled (`Grows`). The subtle case is the other process's clearing of the
  cursor: what is new to the table then is still in front of everything stored.
- **Page** (`PoolPageProofs`). `PageInv` has one part per property. For
  `ShowsWhatItKnows`: while nothing was overtaken, no load and no cache entry
  holds a pool older than `known` (`NothingStale`), and either something is
  under way that will bring it or the page has it (`ComesUpToDate`). For
  `ShowsOwnMembership`: everything under way belongs to the connected wallet
  (`OneWallet`). For `HistoryOrdered`: what is waiting in the inbox ascends and
  each event in it is either shown already or newer than everything shown
  (`InboxMerges`, `HistoryIndexed`).

- **Gas client** (`PartsProofs`). `GasClientInv` adds three facts to
  `ToldTruly` and to what is stored. `InTurn`: a request and its course go
  together with the point of its submission; the service can know only an
  operation that was posted, and one that was refused is absent and stays so.
  Hence a 4xx may be told as a failure. `ChecksOK`: a check under way has a
  wallet and something to ask. `SentKnown`: from before it is sent, an operation
  that can reach or has reached the service is known, that is stored, displaced
  or learned. Each step that forgets an id does so before the POST, after a
  refusal, or while it learns the end; and forgetting or remembering one id
  leaves the others known.
- **Gas station and gas client** (`OperationOutcomes`). `GasClient` models the
  service by what it shows: an operation is absent, under way, or ended for good,
  and an answer says that it is pending or how it ended. `ServiceMeetsItsClients`
  proves that of `GasStation`, whose outcome of an operation is read off its row
  and the relayer: under way from the moment the row exists, ended as the relayer
  ended or refused it, and every answer, read as `isTerminal` reads it, is one
  that may be said at that moment. `RelayTold` (the relayer knows of nothing it
  was not handed) is what a new row needs to start under way. On the client's
  side `ClientCountsOnOutcomes` and `AnswersCounted` show that the same abstract
  module is what `GasClient` has in its place, no answer left out.
- **Wallet** (`PartsProofs`). `WalletInv` adds two facts to `OwnWalletShown`.
  `CallsOK`: a call that is about to show an address has it from the kit, and as
  long as the kit is loading the page is being set up, so that a copy shown then
  will be replaced. `LeftOK`: after a disconnect that counts as one (`left`) the
  kit gives no address and no call has one, so that whatever late event starts a
  further sync, it ends by showing no wallet.
- **Event service** (`PartsProofs`). `ServiceInv` says of the events committed
  and not yet emitted that they are the newest ones (`FreshLast`), of those a
  stream has received that they were committed and are not among them
  (`SentBefore`), so that an emission extends each stream in order and repeats
  nothing; and of the timer that a stop in time has cleared it (`NoTimerLeft`).
  One stream is followed through each step by itself: sorted, filtered, and with
  a listing that together with it accounts for every event (`StreamOK`). A
  listing is the newest `ListLimit` of a finite set: that its elements can be
  numbered in order, and that one left out has exactly `ListLimit` above it,
  follows from `Ranked`, which counts what lies before each element and needs no
  recursion and no induction.
- **Read cache** (`PartsProofs`). `CacheInv` says of every copy, in memory or in
  local storage, that no entry outlives its read by more than `TTL` (`CopyOK`);
  of a tab that it holds and is reading nothing older than what it was promised
  by its own transactions (`AtLeast`, `ReadsOK`); and that a promise is never
  ahead of the chain and that a tab which has not looked at its copy since it was
  loaded was promised nothing (`WroteOK`), which is why what another tab persisted
  may be taken over then. `ChangesInvalidated` is the lemma about the code's
  tables: what a transaction changes it invalidates, but for the membership that
  `add_member` leaves to the stream.
- **The parts side by side** (`PartsProofs`). `PartsStayApart`: the composition
  that the run `parts` checks is each part's own specification at once, so that
  each theorem about a part holds there; `PartsTypeCorrect` follows.

`DepositsAlwaysEarn` (`TalambagProofs`) compares two contracts: the sum of one
group's pools (`FundsOf`, a family over all pools that is 0 outside the group)
with that group's ledger. `FundsMove` and `OnlyDepositsFund` show that only a
deposit raises it, by its amount (`TotalExcept`), a new pool adding an entry of 0
(`TotalExtend`). A deposit that registers its group first resets totals that
`UnregisteredEmpty` says were 0.

Every invariant and every action property of the passing runs is a theorem. Only
model-checked are the two liveness properties (`IdentifiedSettle`,
`IndexedEventually`): temporal properties under fairness are out of the prover's
reach.

## 5. Runs that find nothing, and why that means something

Each property is paired in `PROJECT.json` with a mistake in the code's own terms
that breaks it: a counter that is not saved, a duplicate check left out, a
deposit credited without its transfer, totals reset by every registration, an
unconditional upsert in place of the unique key, a retry of a hand-off whose
answer was lost, a stale cursor that resumes at the newest ledger, rows returned
that were there before, an event that leaves the cache alone, a load that does
not depend on the wallet, a lost answer told as a failure, an id given up when
nobody knows it, a disconnect that waits for the kit's event to hide the wallet,
an event added to the wrong end of the history, a shutdown that does
not stop the poller, a listing that begins with the oldest events, a restored
entry that lives for another TTL, a deposit that leaves the rewards cached. None
of the passing runs' properties is immune to its mistake.

## 6. Findings

| run | what the documentation says | what the code does |
|---|---|---|
| `rewards_self_transfer` | `README.md:408-409`: `total_supply` is all that was minted, `balance` what a wallet claimed | `transfer` to oneself reads both balances before it writes either (`contracts/rewards/src/lib.rs:256`): the account keeps the increased one, and holders together own more than was minted |
| `pair_half_linked` | `README.md:843`: until both links are set, deposits only affect the core contract | with only `set_rewards_contract` called, every deposit traps in `register_group` (`contracts/src/lib.rs:376`) |
| `indexer_clear` | `indexer/src/indexer.ts:307`: a stale cursor resumes "from the earliest available ledger" | the cursor is deleted before anything is read again; if that poll fails, the next one starts 20 ledgers before the newest (`indexer.ts:130`) and leaves a hole. With `INDEXER_START_LEDGER` set there is no hole: the run `indexer` and `NoEventMissed` cover that case |
| `page_stale` | `README.md:46`: an event prompts "an immediate fallback to querying the on-chain single source of truth" | a read that was under way when the event arrived stores its old answer after the invalidation (`frontend/src/lib/talambag-client.ts:537`), and the refresh is given that instead of asking the chain, as every load is until the entry expires after 30 s (`SignalsReachTheChain`). `ShowsWhatItKnows` is what does hold: the page is right if no load was under way when it was told |

Consequences of the code seen while modelling, with no statement in the
repository that they contradict:

- `withdraw` to the core contract's own address strands the money (`Strand`).
- A claimed gas record without the relayer's identity is never observed again
  (`indexer/src/gas/service.ts:228`): its status stays `pending`.
  `IdentifiedSettle` is about identified operations for this reason.
- A late status answer may overwrite a newer stored one
  (`indexer/src/gas/service.ts:247`); the next status request repairs it, which
  is what `gas_live` shows.
- Cumulative totals never shrink: depositing and withdrawing the same money in
  a cycle reaches the `i128` limit, after which the group's deposits trap.
- A rewards contract that has served another core contract refuses the deposits
  of groups whose identifiers it has registered with other owners; the pair's
  invariants are stated for `OnlyThisCore`.
- A crash after the commit and before the emission loses the emission for good;
  the event is in the table and in later histories.

- `stop()` during the poll that `start()` awaits finds no timer to clear;
  `start()` then sets one, and the poller goes on after the shutdown
  (`indexer/src/indexer.ts:225`). `StoppedForGood` excepts it (`stoppedInTime`).
- A stream opened over a connection kept alive after the shutdown closed the
  others is never ended, and `server.close` waits for it
  (`indexer/src/server.ts:313`).
- An operation whose request was lost before the service answers 404 for ever
  and stays in the list; a check asks about the first five only, so that five
  such ids keep later ones from being asked about
  (`frontend/src/components/gas-recovery-notice.tsx:40`). For this reason no
  property says that each id is asked about in the end.
- Above twenty ids the oldest is dropped, settled or not
  (`frontend/src/lib/gas-client.ts:62`); `displaced` in `UnsettledRemembered`.
- A failed import of the wallet kit is kept (`walletKitRuntimePromise`,
  `frontend/src/lib/wallet-kit.ts:96`): connecting fails until the page is
  reloaded.
- A cancelled connection shows no wallet and leaves the saved copy, if there was
  one, which a reload then shows.
- A sync that has its address before a disconnect and reads the network until
  after it shows the wallet again and saves it
  (`frontend/src/hooks/use-wallet-kit.ts:56`); `left` in `OwnWalletShown`.
- The wallet a reload shows first is the one any tab saved last, and a tab goes on
  showing a wallet that another tab has disconnected
  (`frontend/src/lib/pwa/wallet-persistence.ts:75-106`).
- Two overlapping loads of the pool's page may end in the wrong order and show the
  older pool (`overtaken` in `ShowsWhatItKnows`), and the refresh timer may bring
  back the membership of the wallet before (`strayed` in `ShowsOwnMembership`),
  until the next load.
- A tab persists its whole copy of the cache, entries another tab has
  invalidated included, and a reload takes them over until they expire
  (`frontend/src/lib/cache.ts:78`). `OwnWriteShown` is about a tab that was not
  reloaded since.
- `add_member` invalidates the group and not the membership it changes; that is
  left to the event stream.

## 7. What is not modelled

- `indexer/src/gas/transaction.ts` and the schemas: pure checks without state or
  order. `SubmitRequest` starts after they passed.
- Storage lifetimes and the size limit of the one instance entry that holds all
  groups and pools: properties of the host.
- Assets with clawback or authorization flags, which could reduce what the core
  contract owns behind its back. `Solvency` is about tokens that move by
  `transfer` only.
- Keep-alives, CORS headers and the health route, deployment scripts, the
  service worker, rendering and input checks: no state that any of the
  properties is about.
- The proxy of the explorer's contract events, the signature of the session
  cookie, and signing in the wallet: a call to an outside party whose answer is
  taken as given.
- Overlapping loads of the group page and the dashboard. Their state is that of
  the pool page with other names; what differs, the reads and what invalidates
  them, is in `ReadCache`.
- A local storage that refuses writes (private mode, quota). The code goes on
  without a copy, and so sends operations whose ids are not stored:
  `UnsettledRemembered` and the sharing in `WalletKit` and `ReadCache` are about
  browsers whose storage accepts what is written.
- The pool's page without the indexer's URL
  (`frontend/src/lib/realtime-events.ts:223-240`): its history then comes from the
  explorer through a route of the frontend, and there is no stream.
- The status "unsupported" of a kit that was initialised and then stops working,
  and the limit of 100 persisted cache entries, which is far above what the
  modelled pages read.

## 8. Plan

Built so far, in this order, each with its checks before its proofs: `Ledger`,
`TalambagCore` with `Escrow`; `Totals`; `RewardToken`; `Talambag`; `GasStation`
with `OneHandoff`; `Indexer`; `PoolPage`; then `GasClient` with its proofs,
`WalletKit`, `EventService` and `ReadCache`. The order followed the money first,
then the two services whose mistakes cannot be undone, then the browser.

Next:

1. `EventService` against `Indexer`, and `PoolPage` against `EventService`, in the
   way `OperationOutcomes` stands between the gas station and its clients.
2. `WalletKit` composed with the page's `SwitchWallet`, and the group page and the
   dashboard as further instances of the page's overlapping loads.

## 9. Running

    tlc -config MCTalambagCore.cfg MCTalambagCore     # any MC module with its cfg
    tlapm TalambagCoreProofs.tla                      # any Proofs module
