# Genesis Reserve: the money paths in TLA+

A formal model of the parts of Genesis Reserve that move or account for money:
TLA+ modules translated from the TypeScript sources, TLC configurations that
check them on small instances, and proofs, checked by TLAPS, that hold for every
instance. Paths below are relative to `src/`; `api/` stands for `apps/api/src/`,
`web/` for `apps/web/src/`, `migrations/` for `apps/api/db/migrations/`.

Contents: 1 the system, 2 what is hard in it, 3 modules and their
correspondence to the code, 4 the runs, 5 fairness, 6 the proofs, 7 where code and
documentation disagree, 8 limits of the models, 9 what is not modelled, 10 the plan.

## 1. The system

Two programs and one PostgreSQL database.

* The **API gateway** (`apps/api`, Express 4) serves partners and users: quotes,
  orders, ledger reads, webhooks, reconciliation, crons. It talks to the vault
  contract on Arbitrum, to Zero Hash (off-ramp), Onfido and Chainalysis.
* The **web application** (`apps/web`, Next.js) has server routes of its own
  ("BFF"): proxies to the gateway, the CCTP on-ramp, the card service, Circle's webhook.
  It is deployed serverless (`vercel.json`): several processes, each with its own memory.

A remittance order goes through four of the parts below: the *idempotency gate*
lets it in, *createOrder* reserves on chain and posts to the *ledger*, pays out over
*Zero Hash* and inserts the order row, which the *Zero Hash webhook* later moves on.

| Component | State it keeps | Operations | Correct when | Status |
|---|---|---|---|---|
| Ledger (`api/ledger/ledger.service.ts`) | `ledger_entries`, `account_balance_snapshots`, hash chain per debit account | `postEntry`; reads | snapshots are the net of the entries; a posting is all or nothing; the chain is a list over committed history; postings do not block each other for good | modelled (writes) |
| Idempotency gate (`enforceIdempotency`, `api/server.ts`) | `api_idempotency_keys`: hash, status, lock, stored answer | SELECT, INSERT or take-over UPDATE, handler, `finish` hook | one payload per key; one execution; duplicates get the same answer; no key stuck without a holder | modelled |
| Treasury orders (`api/treasury/treasury.service.ts`) | quotes and answers in process memory, `fund_reservations`, `remittance_orders`, vault reservations | `buildQuote`, `reserveFunds`, `createOrder`, `finalizeOrder`, `updateTreasuryMode` | no payout without a mined and booked reservation; an order row is backed; an answered order stands; finalization books what it settled | partly |
| Remittance orchestrator and Zero Hash adapter (`api/treasury/remittance.service.ts`, `providers/zerohash.adapter.ts`) | provider transfers, the order's provider columns | `executePayout`, submit with timeout recovery | one transfer per client id; a timeout never loses or doubles one | partly |
| Zero Hash webhook (`api/webhooks/zerohash.webhook.ts`) | `provider_webhook_events`, order status | dedupe record, transition, domain event | 200 only for processed events; no processed event skips the order; a status is overwritten only by a delivery that was overtaken; handlers do not starve each other | modelled |
| CCTP on-ramp, server (`web/app/api/cctp/transfer/route.ts`, `web/services/cctp-*.ts`) | `cctp_transfers` | POST, PATCH, the relay pipeline in memory | statuses follow the enum; one relay per burn; minted means minted; pending transfers are worked on; a deposit is recorded once | modelled |
| CCTP client (`web/hooks/useCCTPTransfer.ts` behind `web/components/DepositFlow.tsx`) | phase and poll of one browser page | burn, poll, try again, leave, close | the screen reports on the transfer it shows, in order, and does not wait for good | modelled |
| Compliance (`api/treasury/compliance.service.ts`, Onfido and Chainalysis webhooks) | `users.status`, `identity_cases`, `compliance_screenings` | two webhooks, screening of a transfer, account activation | a block holds whatever identity checks write later; nobody unverified moves money; an acknowledged verdict is on record | partly |
| Reconciliation (`api/reconciliation/`) and the deposit bridge (`_bindContractEvents`, `api/treasury/treasury.service.ts`) | DEPOSIT entries, reports | event listener, hourly `reconcile` | a report says what was so; lasting drift is alerted | partly |
| Yield and harvest (`api/cron/harvest.cron.ts`, `api/treasury/yield.service.ts`) | overlap flag, failure counter | check, harvest | every epoch is harvested; a key that cannot be parsed pages | partly |
| Card service, Circle and processor webhooks (`web/app/api/gr/_lib/card-service.ts`, `webhooks/`) | answers of `withIdempotency` in the memory of each process, funding and payout rows | add money, push to card, webhooks | one charge per key; an accepted funding has a row; no status ahead of the money | money paths modelled |
| Wallet identity, recipients | primary wallet, default recipient | register, set default | one primary, one default | not modelled, see 9 |
| Event bus, admin, proxies, activation, market data, UI, scripts | none that is shared or lasting | | | not modelled, see 9 |

## 2. What is hard

Every `await` is a point where another request runs; nothing in the code takes an
explicit lock. The hazards, each with its line and its properties, are listed in
`PROJECT.json`; they fall into these families:

* **check, await, act**: the ledger's previous hash (`ledger.service.ts:130`), the
  gate's row (`server.ts:336`, `:350`), the card service's map (`card-service.ts:338`),
  the reservation cache (`treasury.service.ts:280`), the PATCH of a transfer
  (`route.ts:197`), the webhook's status comparison (`zerohash.webhook.ts:210`);
* **several systems, no transaction**: vault, ledger, Zero Hash and order table in
  `createOrder`; a payout precedes the order row;
* **memory as a store**: quotes, reservation answers, relay pipelines, the card
  service's idempotency map and the cron's failure counter are gone at a restart;
* **events nobody repeats**: a deposit mined while the gateway is down is never booked,
  and reconciliation is what is left to find it;
* **two writers, several readers**: identity and sanction verdicts are written by two
  webhooks and read row by row by the gates of a transfer;
* **providers that retry and time out**: repeated and overlapping webhook deliveries,
  POST /transfers that is answered late, receipts that do not come in time, locks
  that run out under a slow handler;
* **row locks and the connection pool**: opposite postings deadlock in PostgreSQL;
  `withTransaction` keeps one client and waits for another;
* **work that outlives its screen**: awaits and timers of an earlier CCTP transfer go on
  under the next one.

## 3. Modules

One action is one step no other process can see half of: usually one SQL statement
or one external call with the code up to the next `await`. Operators named `Bug...`
are not part of any specification: each is a plausible mistake in the definition that
follows it, and `PROJECT.json` names the property that tells the two apart.

### AtomicLedger and Ledger

`postEntry` as its PostgreSQL transaction at READ COMMITTED. `Begin`,
`InsertEntry` (the chain-link SELECT and the INSERT), `DebitSnapshot` and
`CreditSnapshot` (the upserts, which take row locks in that order), `Commit` (also
with its reply lost), `Rollback` (any error), `DeadlockAbort`, `ConnectTimeout`,
`RejectAmount`. `entries`, `balance` are the committed tables, `rowLock` the locks,
`call` each call's locals. A hash is the id of the entry it digests;
`created_at` is `NOW()`, the time of BEGIN, hence a clock that ticks at BEGIN.

`AtomicLedger` is the abstract specification: a call either posts, entry and both
balances in one step, or has no effect. `PostingsAtomic` is that the code implements it;
the mapping reads the committed tables and the answer each caller has.

### IdempotentOperation and IdempotencyGate

One key, whose row is independent of all others by the primary key. `Lookup...` are
the outcomes of the SELECT (absent, other payload, replay, in progress, reusable),
`Insert` / `InsertConflict` the INSERT against the primary key, `Update` the
unconditional take-over, `Handle` the route, `Finish` the hook that stores the
outcome; `GateError`, `HookLost`, `Crash`, `LockRunsOut` are what goes wrong.

`IdempotentOperation` is what the requests of a key may rely on, without rows and locks:
they are one operation. It is executed a second time only if an execution failed or was
silent for the time of a lock; who does not execute gets the answer of one who did, or
`conflict` or `inProgress` for the reason they name. `IsOneOperation` is that the gate
implements it, with its handlers entered for `executed`, its answers for the answers,
and the history of expired locks for `silent`.

### RemittanceSaga and RemittanceOrder

`createOrder` with all it awaits. Per call: quote and cache (`RejectQuote`,
`ReuseRefusal`, `ReuseReservation`, `Screen`), `reserveFunds`
(`ScreenRefuses` to `BookReservation`, `BookingFails`), the payout (`PostTransfer`,
`TransferAnswered`, `TransferTimesOut`, `TransferFound`, ...), the order
(`UpdateOrder` of the orchestrator, `InsertOrder`, `InsertRejected`). The environment
mines or reverts, lets quotes and reservations expire, delivers a POST after its
caller gave up, and restarts the process. It relies on two of the other modules: calls
of one key carry one payload (`IdempotencyGate!OnePayload`, proved), and a posting is
one step (`Ledger!PostingsAtomic`, proved).

`RemittanceSaga` is the abstract specification: four sets (what is reserved and booked,
what is paid, the order rows, what was confirmed) and five steps over them: `Reserve`;
`Pay`, only of a key with a reservation; `Record`, only of a paid key with a reservation
of the same key, one per quote; `Repoint`, a row that is given another paid transfer of
its quote; nothing else, and nothing is taken back. `FollowsSaga` is that the calls,
their timeouts, their shared cache and the restarts implement it.

### ZeroHashWebhook

The handler of one delivery: `Record`, `Conflict`, `Duplicate`, `Again`
(`insertEventRecord`), `Connect` (the client of `withTransaction`), `ReadNone`,
`ReadSkip`, `ReadAdvance`, `UpdateOrder` (`applyOrderTransition`, whose statements
run through `query()` on clients of their own and so commit one by one),
`MarkProcessed`, `Publish`, `Commit`, `Note` (events without an order), and the
failures `Abort`, `TimesOut`, `DedupeFails` (outside the `try`: an unhandled rejection
ends the process), `Crash`. `Redeliver` and `LinkOrder` are the environment.
`LinkOrder` is the UPDATE that a later order call of the quote makes
(`remittance.service.ts:353-369`): `createOrder`'s own INSERT does not write
`provider_transfer_id`, so that UPDATE is what links the order to a transfer. It has no
condition and may happen any number of times: each call of the quote, whatever its key,
sets the order back to IN_TRANSIT or to SETTLED, a final status included, and points it
to its own transfer. `overtaken` is history: the deliveries between their SELECT and
their UPDATE when somebody else, a delivery or an order call, writes the row.

### CctpLifecycle and CctpTransfer

`CctpLifecycle` is the abstract specification: what a transfer promises to a reader of
its status. It has two actions, `Advance` along the enum of migration 011 and
`Receive` on Arbitrum, and allows `minted` only for a received message. `CctpTransfer`
is the code: POST (`PostExisting`, `PostLookup`, `Create`, `Register`,
`RegisterConflict`), the pipeline (`Extract`, `Attest`, `QueueRelay`, `SubmitRelay`,
`RecordMint`, `FailBeforeRelay`, `FailRelay`), PATCH (`PatchUnknown`,
`PatchAgain`, `PatchInvalid`, `PatchMinted`, `RecordVaultDeposit`),
`DatabaseError`, `Crash`, and the chain with foreign relayers. The mapping
(`StatusSeen`, `BurnOf`) reads the status column, and `none` where there is no row.

### CctpClient

The other end of the same API. `Transfer`, `Approve`, `Broadcast`, `Confirm`,
`Answered`, `AnsweredNoId` and `Throw` are the awaits of `burn()`; `Tick`, `TimeOut`,
`Get`, `GetFails`, `StillWorking`, `Settled` those of the poll; `TryAgain`, `LeaveForm`
and `ClosePage` are the user. A call and its poll belong to the mount of the form that
began them (`visit`): `SetPhase` has no effect on another one. The server is not
`CctpTransfer` but the specification `CctpTransfer` implements: the module instantiates
`CctpLifecycle` and lets it take any step (`Serve`, `Receive`), so what is shown of the
client holds over any server that keeps the lifecycle.

### CardMoney

One idempotency key of the card service and all requests that carry it, each served by
one of the `Instances` of the web application (`at`). The map `withIdempotency` looks in
hangs on `globalThis` (`card-service.ts:176-181`), so each instance has its own
(`cache`), is restarted alone (`Restart`) and forgets alone (`forgot`); tables and
processors are shared. `Replay`, `Enter`, `Remember`, `Throw` are `withIdempotency`;
`ReadCard`, `Charge`, `Buy`, `Record`, `Log` the awaits of `createAddMoney`; `ReadCard`,
`Transfer`, `PayOut`, `Record`, `Log` those of `createPushToCardPayout`, in its three
configurations (`op`); `ChargeThrows`, `BuyFails`, `PayoutFails`, `RecordConflict`,
`QueryFails` what fails, with and without its effect. Stripe and Circle keep one charge,
one payment per key handed to them (`intent`, `payment`); they notify any status gone
through at any time, again and again (`CircleNotifies`, `ProcessorNotifies`).

### Compliance

One account. `FindCase`, `CheckUnknown`, `RecordVerdict`, `Activate` are the Onfido
handler, `RecordAlert`, `AnswerAlert` the Chainalysis one (HIGH and CRITICAL alerts);
`Enter`, `Gate`, `GateError`, `Decide`, `Reserve` a screening inside `reserveFunds`, each
gate with a query of its own; `VerifyRecord`, `ActivateVault` are `activateAccount`. A
rejected statement of a handler is an unhandled rejection and ends the process: it is
part of `Crash`, which makes what was under way due again.

### Harvest

`runHarvestCheck` (`Start`, `End`, `InitThrows`) around `triggerHarvestCheck`
(`InitDone`, `NoOperator` to `Record`, `Fail`), for each `setup` that `_init` can find: a
good one; no wallet, because an RPC URL, the router's address or the key is missing; a
key that cannot be parsed, the one case in which `_init` throws; an address that is
wrong, at which the first call inside the `try` fails. Around it are the router's
epochs and breaker, restarts, and transactions whose receipt nobody waits for any more
(`strays`).

### Reconciliation

The vault's total, the DEPOSIT entries that the gateway's event listener posts (`Book`,
or `BookFails`, an unhandled rejection; a deposit mined while the gateway is down is
`lost`), and the runs of `reconcile`: `ReadChain` or `ReadChainFails`, then `Report` over
the ledger's sums. A run remembers what was so when it read the vault, for the properties.

`MC...` modules give the constants of a run; `...Proofs` modules hold the theorems.

## 4. The runs

| Run | Instance | What it shows | States |
|---|---|---|---|
| `ledger_concurrent` | 3 postings, 3 accounts, pool 2 | snapshots are the net of the entries; an entry follows the last one on its account, and no two follow the same one, unless their postings overlapped; implements `AtomicLedger`; a posting ends, through lock waits, deadlocks, rollbacks, lost replies | 173,834 |
| `ledger_fork` | 3 postings, pool 2 | violation: two concurrent debits of an account fork its chain | |
| `idempotency_gate` | 4 requests, 2 payloads | implements `IdempotentOperation`; one payload per key; genuine replays; no key PROCESSING without a holder | 30,413 |
| `cctp_transfer` | 2 POSTs, 2 PATCHes, 2 burns | implements `CctpLifecycle`; one relay per burn; minted means minted by this server; pending transfers have a pipeline; pipelines end | 343,752 |
| `cctp_client` | 2 calls of `burn()`, 2 polls each, 1 departure from the form | minted is said of the transfer shown and is so; the phases keep their order; polls end | 381,390 |
| `remittance_order` | 3 calls, 2 of one key, all of one quote | implements `RemittanceSaga`; a payout has its reservation and entry; an order answered 201 stands; calls end | 363,044 |
| `zerohash_webhook` | 3 deliveries, 2 events, 2 transfers, pool 3 | 200 only for processed events; processed only after being held against the order; published only if processed; a final status, or an order of another transfer, is written over only by a delivery that was overtaken; deliveries end though they wait for each other's clients | 70,334 |
| `zerohash_roll_back` | 2 deliveries, 2 events, pool 3 | violation: SETTLED is overwritten with IN_TRANSIT | |
| `card_money` | 2 requests of one key, 2 instances | one charge and one purchase; an accepted funding has its row; a handler after an answer only elsewhere or where the answer was lost; statuses do not run ahead of the money | 182,052 |
| `compliance` | 2 checks, 1 alert, 1 reservation, 1 activation | a block holds; only verified accounts move money; acknowledged verdicts are on record, and all get there | 856,544 |
| `harvest` | threshold 3, 3 stray transactions | every epoch is harvested; a key that cannot be parsed pages; the flag and the transaction agree with where the check stands | 424 |
| `reconciliation` | 2 deposits, 1 withdrawal, 1 yield, 2 runs | reports are faithful; lasting drift is alerted again and again | 67,484 |

Why these sizes are enough to be interesting, and no smaller ones are:

* **Ledger.** The postings are `MCPostings`: two opposite ones (both row locks, in
  opposite order: the deadlock), one to a third account on the same debit side, and one
  with the zero amount that is rejected. Each call takes any of them. Two open
  transactions and one waiting for a client need three calls and a pool of two. 
* **Gate.** A first holder, a duplicate that takes over when its lock has run out, a
  third that replays, and a fourth with the other payload. Requests and payloads are
  interchangeable (symmetry); nothing liveness-like is checked there.
* **Order.** Two calls of one key show what the cache does; the third, with its own
  key on the same quote, meets their order row. `TravelRuled = {q1}` leaves it open
  whether the payload has the travel-rule data. `QuoteRows = {q1}` supposes a row in
  `remittance_quotes` (only `scripts/seed.ts:206` writes one): without it no
  order exists and everything about orders would hold vacuously (see 7).
* **Webhook.** Events: one IN_TRANSIT, and one that concerns no order; SETTLED comes from
  the order calls of the quote, and in `zerohash_roll_back` from deliveries too. A slot can
  deliver again after it ended, so three slots give any number of deliveries, three at
  once. With a pool of three, three deliveries can hold a client each and none have a
  second one, the case `DeliveryEnds` is about, and two can overlap between SELECT and
  UPDATE, the case `StaleOnlyIfOvertaken` is about. Two transfers, so that an order call
  can point the order away from the one a delivery read it under. The default
  `DB_POOL_MAX` is 20 (`api/config/db.ts`); the proofs are for any pool.
* **CCTP.** Two POSTs of one burn, or of two; two PATCHes that race; one vault
  transaction, as no property compares two.
* **CCTP client.** A second transfer begins while the first is still awaited or polled,
  on the same form or on the next one; two attempts of the 60 reach the time-out before
  and after an answer.
* **Card money.** A duplicate in flight with the first request, or after its answer, its
  failure or a restart, on the same instance or on another. Requests are interchangeable,
  and so are instances (symmetry; no liveness there).
* **Compliance.** Two checks, so that an identity verdict comes before and after the
  alert; each is delivered any number of times, and an alert may age by a month.
* **Harvest.** The booleans and the counter are the whole state; more stray
  transactions compete with one another and with the check's own.
* **Reconciliation.** A deposit is 2, a yield 1, the thresholds 1 and 3: a yield alone is
  within tolerance, a deposit is an ALERT, both or two deposits a SUSPENDED. Two deposits
  let one be booked between the reads of a run and one be lost; a withdrawal can empty
  the vault.

Bounds in the modules: a call of `postEntry`, of the gate or of the order route is made
once (a retry is another call); `retries` of a
transfer goes to 1 because no code relays a second time; the client leaves the form
`MaxVisits` times; `MaxStrays` transactions are abandoned; there are `MaxWithdrawals` and
`MaxYields`. Nothing else is bounded.

Each property of a passing run is broken by a mutant (`PROJECT.json`): a small change
of a definition as a bug in that code would make it, for which TLC finds a violation.

## 5. Fairness

* Ledger: `WF(Step(t))`, `WF(DeadlockAbort(t))`. Statements are answered or rejected;
  PostgreSQL breaks wait cycles (`deadlock_timeout`). No fairness for errors.
* Order: per call, `WF(CreateOrder(c) \/ VaultAnswers(c))`. Each await has a timeout,
  but `tx.wait(1)`: the chain ends it by including the transaction. Failures, restarts,
  the late arrival of a POST are never forced.
* Webhook: `WF(Handle(d))`, with the pool's timeout (`connectionTimeoutMillis`) as
  part of it. Redelivery, crashes and errors are free.
* CCTP: `WF(Relay(p))` for the pipeline alone: the attestation poll
  (120 s) and the receipt wait end in an answer or an exception. Users, miners, other relayers
  and crashes are free.
* CCTP client: `WF(Poll(b))`. A timer fires, a GET ends with an answer or an error; the
  wallet, the chains, the server and the user owe nothing, so a transfer may well wait
  in its wallet for good.
* Compliance: `WF(FindCase)`, `SF(RecordVerdict)`, `WF(RecordAlert)`. Providers repeat a
  delivery until it is answered; `SF`, because a crash puts a found case back to due, and
  a statement that is tried over and over succeeds once.
* Harvest: the schedule ticks and a check goes on (`WF`); `SF` on each call of the node
  that a check makes again and again, because checks fail in between; `WF` on mining.
* Reconciliation: `WF(Reconcile(r))`; `SF(ReadChain(r))` and `SF` of a report by a run
  that has read the vault: single runs may fail for ever in between, not all of them.
* Gate, card money: no liveness property. A PROCESSING row whose holder was lost stays until
  somebody retries, which nothing makes them do.

## 6. The proofs

TLAPS checks all of these for every value of the constants that satisfies the named
assumptions; where a theorem has a hypothesis of its own, the table names it. In each
module an inductive `Inv` is proved initial and preserved by every action (one lemma per
action or group of actions that change the same state), and the theorems follow from it.

| Module | Theorem | Says |
|---|---|---|
| `LedgerProofs` | `AtomicPostings` | `Ledger!Spec` implements `AtomicLedger!Spec` |
| | `SnapshotsAreDerived`, `BooksAlwaysBalance` | every balance is the net of the account's entries; over a finite set of accounts the balances sum to zero |
| | `QuietChain`, `ForksAreOverlaps` | an entry follows the last one on its account, and two follow the same one, only as far as postings overlapped |
| | `SomeoneCanGoOn` | while a posting is unfinished one can go on, or is in a wait cycle that PostgreSQL breaks |
| | `TypeCorrect`, `ChainLinksCommitted` | types; no link to an entry that was not committed |
| | `SerialChain` | `PoolSize = 1` implies `NoFork`, for any number of postings |
| `IdempotencyGateProofs` | `ImplementsOperation` | `IdempotencyGate!Spec` implements `IdempotentOperation!Spec` |
| | `TypeCorrect`, `OnePayloadPerKey`, `EnteredAtMostOnce`, `ReplaysGenuine`, `ProcessingHeld` | the gate's promises; `EnteredOnce`: one execution as long as no lock runs out and no handler fails |
| `RemittanceOrderProofs` | `ImplementsSaga` | `RemittanceOrder!Spec` implements `RemittanceSaga!Spec` |
| | `TypeCorrect`, `PayoutsReserved`, `OrdersBacked`, `AnsweredOrdersStand` | the saga's promises; `OrderBacked`: an order row has a booked reservation and a transfer of its own quote |
| | `CallsEnd` | every call of the route ends, with an answer or with its process |
| `ZeroHashWebhookProofs` | `TypeCorrect`, `AcksProcessed`, `ProcessedAreDecided`, `PublishedAreProcessed` | the webhook's promises, whatever the pool |
| | `OvertakenOnly` | only an overtaken delivery writes over a final status or moves an order of another transfer, whatever order calls do |
| | `DeliveriesEnd` | every delivery ends, in a pool of any size |
| `CctpTransferProofs` | `TypeCorrect`, `MintsAreRelayed`, `RelayedOnce`, `PendingIsWorkedOn` | the on-ramp's promises |
| | `ImplementsLifecycle` | `CctpTransfer!Spec` implements `CctpLifecycle!Spec` |
| | `PipelinesEnd` | every pipeline ends |
| `CctpClientProofs` | `TypeCorrect`, `MintedIsShown`, `PhasesInOrder` | what the form says is so, and said in order (an action property), over any server that keeps `CctpLifecycle` |
| | `PollsEnd` | a poll ends whatever the server does, for any maximum of attempts up to the 60 of the code |
| `CardMoneyProofs` | `TypeCorrect`, `OneCharge`, `AcceptedAreRecorded`, `AnswersEndIt`, `StatusesGenuine` | the card money paths' promises, for any number of instances |
| `BackOfficeProofs` | `TypeCorrect`, `BlocksHold`, `OnlyVerifiedMove`, `AnswersRecorded` | the compliance verdicts' promises |
| | `VerdictsHold` | every identity verdict and every alert gets to the tables |
| | `ReconciliationTypeCorrect`, `ReportsAreFaithful` | undisturbed reports are right, for any deposits, overlapping runs, amounts and thresholds |
| | `LastingDriftIsReported` | drift that lasts is alerted again and again once no money moves |
| | `HarvestTypeCorrect`, `OnlyABadKeyPages` | the overlap flag is set exactly while a check is under way; unless the key cannot be parsed no failure is counted and nobody is paged |
| | `EpochsHarvested` | every ended epoch is harvested once the breaker stays off |
| | `BrokenPages` | a job whose key cannot be parsed pages, with the code's threshold of 3 |

Every property of a passing run is stated by one of these theorems, but for
`PostingEnds`. `TypeOK` of most modules holds by `TypeCorrect` and is not repeated in the
runs; `HarvestTypeOK` and `ReconciliationTypeOK` relate two pieces of state, and the runs
check them as well. (`Harvest` and `Reconciliation` name their specifications apart, so
that `BackOfficeProofs` extends both beside `Compliance`.)

Why the invariants need strengthening, and what the arguments are:

* **Ledger.** `LinksCommitted` speaks of entries, but the hash is read three awaits before
  the entry appears. `PrevInv` says the hash an open transaction holds is already
  committed; entries are never removed, so it stays so. `LatestInv`: the entry the
  SELECT orders for exists. For `SerialChain`: with one client no other
  transaction is open (`Cardinality` of the open ones is below one when a client is
  free), so the hash read is still the latest at COMMIT. For `QuietChain` the
  argument is about time: `created_at` is the time of BEGIN, `committedAt` (a history
  variable) that of COMMIT, and a posting that began after another one's COMMIT reads
  that one's entry or a later one.
* **Ledger as one step** (`AtomicPostings`). Only `Commit` changes what the abstract
  ledger shows, and what it adds to the balances is the transaction's own posting, which
  no step changes (`CommitPosts`); every other end of a call is a refusal that leaves no
  trace, a deadlock's victim included. A COMMIT whose reply is lost is a `Post`
  answered `failed`.
* **Sums** (`SnapshotsAreDerived`, `BooksAlwaysBalance`). A sum over a finite set is a
  fold, and a fold's value for every set needs induction, which the provers cannot
  instantiate from the library. `Sum` is characterized instead by its unfolding
  (`SumUnfold`), and facts about it are proved from a set that is minimal among
  the counterexamples: strict inclusion is well-founded on finite sets
  (`FS_StrictSubsetOrderingWellFounded` with `WFMin`), so there is one, and its
  unfolding contradicts its minimality. `AmountsAdd` then says what one more
  entry does to a sum, and a posting adds to one side what it takes from the other.
* **No deadlock** (`SomeoneCanGoOn`). If nobody can step, every unfinished posting waits
  for a lock or a client. A full pool has an open transaction, so somebody waits for a
  lock; who holds a lock has at least written its debit snapshot, so a holder that
  cannot step waits for its credit row, and so does whoever holds that one. Such a chain
  cannot end, hence the cycle. It closes with `DeadlockAbort`, the step that
  `PostingEnds` is fair about. `CanStep` is the guard of `Step` written out, because
  `ENABLED` is beyond the provers.
* **Gate.** A request acts on a SELECT made earlier. `StageInv`: a request about to take
  the row over has the row's payload, which never changes once inserted.
  `StoredInv`: a COMPLETED row holds the answer a handler of this payload computed.
  `EnteredInv`: until a lock runs out or a handler fails no request is about to take
  the row over at all. For `ImplementsOperation`, `RowInv` adds that a row exists only
  once a handler was entered, which is what a conflict or a wait is told for: INSERT and
  entry are one step, because no `await` is between them.
* **Order.** A payout is justified by the reservation its call works with; that may come
  from the cache; the cache was filled by a call of the same key after its
  posting. `ReservationsGenuine` is that chain. Restarts only empty the cache. For
  `ImplementsSaga` each action is one saga step or a stutter under it: `BookReservation`
  is `Reserve`, the arrival of a POST at Zero Hash is `Pay`, `UpdateOrder` is `Repoint` when it
  meets a row, and the INSERT is `Record`, which the primary key lets happen once.
* **Webhook.** No transaction ties UPDATE and record together, so the order of the
  statements has to carry it: `StageInv` says what a delivery at each await knows
  already to be committed. For `OvertakenOnly`: a delivery at its UPDATE that nobody
  has overtaken still finds the order as its SELECT did, because whoever writes
  the row puts every other delivery at its UPDATE into `overtaken`.
* **CCTP.** A restart leaves only the table, so `PostInv` ties the row of a POST to where its
  pipeline stands, and `RegisteredInv` holds the unique index. For the refinement
  each action is shown to be `Advance`, `Receive` or a stutter; a second vault deposit
  over a first one is a stutter.
* **Compliance.** A gate's answer is read once and used awaits later. `BlockInv` says that
  a screening begun under a block has no passed sanctions gate in hand, at no stage;
  `KycInv` that a passed identity gate rests on a check that still counts, which needs
  `VerdictInv`: a case takes its check's own verdict and no other, so redelivery cannot
  take one back.
* **Cards.** `ReqOK` says what a handler has in hand and why it is still so: a charge
  once captured stays captured (`KeyInv`), a row stays, and an answer is remembered by
  the instance that gave it until that one is in `forgot`. A row exists only for a
  request past its payout calls, so no payout begun anew can take back what a row says.
* **CCTP client.** Calls and polls of earlier transfers go on for ever. `CallOK` says that of
  those which can still set the phase, on the mount on the screen there is one
  at most, that it is the transfer shown, and which phase its await belongs to: the
  three facts need one another.
* **Reconciliation.** Vault and ledger are read an await apart. `RunInv`: what a run read
  of the vault stays comparable with the ledger's total for as long as no posting has
  landed since, because only a posting moves that total.
* **Harvest.** `_init` is awaited outside the `try` of `triggerHarvestCheck`, everything else
  inside, so once it has returned no rejection gets past to the counter, and without a wallet
  nothing is tried at all. That is `OnlyABadKeyPages`, the other side of
  `PagedWhenBroken` (see 7).

### How liveness is proved

The provers know nothing of `ENABLED`, so `WF` and `SF` cannot be used as they stand.
Each liveness theorem reads `Spec /\ Enabling => P`, where `Enabling` says of the actions
that `Spec` is fair about that a guard, written out, implies that the action is enabled:
`[](guard => ENABLED <<A>>_vars)` (`Enabling`, `CheckEnabling`, `AlertEnabling`, `RunEnabling`,
`HarvestEnabling`, `FailuresEnabling`). That is read off each action, which is its guard
and assignments that change the state; it is the one thing these proofs take over
from the model unproved, and nothing is assumed fair that `Spec` is not fair about. From
both follows fairness with the guard in the place of `ENABLED` (`[]<>~g \/ []<><<A>>_vars` for
weak fairness, `<>[]~g \/ []<><<A>>_vars` for strong; `Served`, `CheckServed` and so on, by the
`...Serves...` lemmas), and with it the proofs work.

* **A rank** (`CallsEnd`, `DeliveriesEnd`, `PipelinesEnd`, `PollsEnd`). `StepsLeft` counts the
  awaits between a stage and the end. A step of its own takes a call down, no step of
  anyone else takes it up, and an unfinished call has a step that fairness grants. The
  rank is below a known number, so the temporal steps (`StepsDown`) are chained one by
  one. For a poll that number depends on `MaxPolls`; from "one step fewer" follows "two
  fewer", "four fewer" and so on (`Doubles`), to more than 60 attempts need. For an order
  call `VaultAwaited` is needed besides: who waits for a receipt has sent its transaction.
* **Two-step handlers** (`VerdictsHold`). A crash takes a found case back to due, so strong
  fairness of the second step is what carries it; `VerdictInv` gives that an unrecorded
  case has a delivery that is due or has found it.
* **By contradiction** (`EpochsHarvested`). Suppose an epoch stays over and the breaker off.
  A transaction that is mined would harvest it, so none is pending for ever
  (`NothingPending`), so no check sends one, so none gets as far as the send, and so on
  back to the tick of the schedule, which never stops (`WaitingEnds`).
* **`BrokenPages`.** A count up to an arbitrary threshold would be an induction over
  temporal formulas; the theorem is for the code's `MAX_CONSECUTIVE_FAILURES = 3`, which
  is also the run's.
* **`LastingDriftIsReported`** has one hypothesis more than the run's property, `MoneyRests`:
  deposits, withdrawals, yields and postings stop. In a bounded instance they do, in every
  behaviour. In general they need not, and then a posting can fall between the two reads
  of every run and make each of them find totals that agree: for endless traffic
  lasting drift need not be reported, and the theorem says when it is. A
  run's answer is up to date from its first read in the rest on (`UpToDate`), and one run
  is enough.

Assumptions on constants are named in the modules (`...Assumption`): that null values
are not members of the sets they stand beside, that a posting's accounts differ, that
pools are positive and sets of slots finite. TLC evaluates them in every run.
`BooksAlwaysBalance` needs a finite set of accounts besides, as a sum does; `PollsEnd`
and `BrokenPages` have the code's numbers as hypotheses.

Only model-checked: `PostingEnds`. Postings wait for each other's row locks, and a lock
that is free again may be taken by another posting first; that this happens finitely often
is an induction over the set of postings, applied to a temporal formula, which no installed
prover can do. `SomeoneCanGoOn` is the half that could be proved.

## 7. Where code and documentation disagree

Two runs show it, and `PROJECT.json` quotes the lines: concurrent debits fork the chain
that the ledger's header promises (`ledger_fork`), and a delivery that another one,
or an order call, overtakes can take a SETTLED order back (`zerohash_roll_back`).

Noticed while reading, without a run of its own:

* *Gate and orders.* Duplicates of one idempotency key that take a row over together can
  get different outcomes (`server.ts:350`; `LAUNCH_MVP_SCOPE.md:343`). One key can hold
  several reservations (`treasury.service.ts:276`, `:280`). `createOrder` inserts an order
  whose `quote_id` refers to `remittance_quotes`, which only `scripts/seed.ts:206` fills:
  the payout has left by then.
* *Finalization* (`treasury.service.ts:534-588`). The order row has the database's column
  names and the code reads others, so the postings fail after the on-chain call and
  SETTLED is not reached; the end-to-end test expects it.
* *Webhook.* An order call of the quote sets a final order back without looking at its
  status (`remittance.service.ts:353`), so "forward-only" is not kept by the webhook's
  comparison alone. The comment at `zerohash.webhook.ts:320` promises 200 on a processing error,
  the code answers 500; the header has "any status" move to COMPLIANCE_HOLD, line 210
  skips it for final orders; `server.ts:446` parses every body before `rawBodyCapture`
  (`:1162`) could keep it, so with `ZEROHASH_WEBHOOK_SECRET` set every delivery is answered
  401. The module is about deliveries with verification switched off, as the code has it
  when the secret is unset.
* *CCTP.* Two PATCHes can replace a recorded vault deposit (`route.ts:167`, `:197`). A comment
  there says "DB unavailable - run relay in-memory", but the pipeline returns at once
  without a transfer id and the page waits. "Try Again" burns a second time.
  `depositToVault` of the hook has no caller.
* *Cards.* The idempotency map is one per process, and the web application runs in
  several: a retry that reaches another instance runs the handler again, with nothing
  restarted and no day passed, and a push-to-card payout is transferred again (an
  add-money charge is not, `ChargedOnce`).
  `apps/web/docs/STRIPE_CARD_PAYOUT_HANDOFF.md:103` lists "Add database-backed
  idempotency storage" as work to do. The metadata of a PaymentIntent lacks the funding
  id, so its events never update a row; a Circle notification that comes before the row
  is dropped; a late `payout.updated` takes a paid payout back to `pending_network`; the
  comment at `circle-adapter.ts:65` proposes a key made from the funding id, which would
  break `ChargedOnce`. `LinkedCardDepositForm` makes its key from the time and takes
  'failed' for success; a retry on `CashOutPage` withdraws again.
* *Compliance.* Onfido's verdict overwrites SUSPENDED (harmless, as `BlockHolds` shows: no gate
  reads that column); "Failed to activate on-chain - will retry" is followed by
  nothing; the velocity query never finds a row; `screenDeposit` has no caller; the INSERT of
  `submitTravelRule` names a conflict target that has no index.
* *Harvest.* "3 consecutive failures -> page on-call" (`harvest.cron.ts:15`) holds of a
  key that cannot be parsed and of nothing else. Failures below the cron are swallowed
  as skipped checks; so are all calls to a router at a wrong address; and without an RPC
  URL, a router address or a key `_init` makes no wallet, and every check is skipped for
  ever (`yield.service.ts:90`, `:223`; `OnlyABadKeyPages`). `tx.wait(1)` has no timeout;
  a mined harvest whose event is not published is reported as not harvested.
* *Reconciliation and ledger.* A vault that reads zero, or cannot be read, is MATCHED; yield is
  not counted and no WITHDRAWAL is ever posted; "suspension" is an audit row nobody reads;
  `fund_reservations` is never filled, so the checks on stuck reservations are inert; an alert
  goes to Slack before PagerDuty and not at all without Slack's webhook;
  `LedgerService.reconcile` posts an ADJUSTMENT on each run; DEPOSIT credits
  `<wallet>:available`, RESERVE debits `<accountId>:available`; deposits mined while the
  gateway is down are never booked.

## 8. Limits of the models

* Amounts, fees, rates, hashes, addresses, message bytes and the wording of answers are
  abstracted; two payloads, quotes or hashes are equal or they are not. SHA-256 is taken
  to be injective.
* Each module follows what can interfere and no more: one key of the gate, one order of
  the webhook (orders share only the pool), one key of the card service over several
  instances, one account of
  compliance, all postings of the ledger.
* `RemittanceOrder` has the Zero Hash provider only. The MoneyGram and Circle providers
  are stubs that call no one; the Zero Hash withdrawal step needs inputs `createOrder`
  never passes.
* `Reconciliation` takes the ledger to hold deposits alone, which is what the running
  program posts to the accounts it sums; a vault that was emptied reads like one that
  cannot be read, because the code does not tell them apart. `CardMoney` has a configured
  Stripe; an unconfigured Circle is a card Circle does not know.
* PostgreSQL is modelled as documented: READ COMMITTED, row locks held to COMMIT,
  statement atomicity, unique and foreign keys, deadlock detection. Arbitrum: a
  transaction is mined once or not at all, a CCTP message is received once. Zero Hash:
  one transfer per client id; Stripe and Circle: one charge, one payment per key;
  deliveries repeat. Definitions of such behaviour are marked `external` in the map.
* The vault, router and smart-account contracts are not in the repository; their
  states are taken from how the gateway uses them. In two places the gateway uses what
  the committed ABI (`api/contracts/GenesisVault.json`) does not have, and the modules
  allow more than it can do: `GatewayRestart` of `Reconciliation` always binds the
  deposit listener, while without a `DepositProcessed` event the constructor's catch
  (`treasury.service.ts:182-192`) skips it and no deposit is booked; `ActivateVault` of
  `Compliance` may succeed, while without `activateAccount` line 215 is a TypeError. The
  invariants hold of the code with either ABI, but with the committed one the part of
  `OnlyVerified` about activations has no case, and every deposit is one of the
  `lost` ones of `Reconciliation`.
* `Compliance` has the gateway's own activation; the activation routes of the web
  application, which rely on other checks, are outside `OnlyVerified` (see 9).
* The pipeline of a CCTP transfer is started and not awaited by its route
  (`route.ts:219`). On a serverless instance it may be frozen once the response is sent,
  and go on at a later request or never. `CctpTransfer` has never (`Crash`) and later
  (any step may be late), but `PipelineEnds` supposes that an instance that is
  not ended keeps running: a pipeline frozen for good counts as crashed.

## 9. Not modelled

* **`finalizeOrder`, `updateTreasuryMode`, `expireStuckReservations`,
  `LedgerService.reconcile`**: the first cannot succeed as written (see 7), the second is
  one on-chain call, the third works on an empty table, the fourth is called on demand
  by an administrator. A faithful module of the first would show the failure and
  nothing beyond it; it is planned for when the row is read by its own names.
* **Wallet identity**: `registerWallets` is one transaction that begins with an upsert of
  the user's row, whose lock makes the calls of one user take turns. What is left are a
  first login from two tabs, which a unique index refuses, and primary wallets, of which
  no index allows only one.
* **Recipients**: the default is unset, then set, in two statements.
* **Card issuing, controls, disputes, conversion quotes**: single calls and single rows.
* **Event bus and processor**: publishing is fire-and-forget, the consumer logs. Whether
  an event was published is in `ZeroHashWebhook` (`published`).
* **Admin and support**: views and single-row inserts.
* **Proxies, scheduled sends, batches, activation routes of the web application, market
  data**: pass-through calls, in-memory mocks, sequences of calls to contracts that
  are not here.
* **User interface, scripts, decks**: most of the repository's lines are components that
  draw pages. The two that drive a money path, the CCTP form and its hook, are
  `CctpClient`.

## 10. Plan

Done, in this order: `Ledger` (everything books through it), `IdempotencyGate` (every
call passes it), `CctpLifecycle` with `CctpTransfer` (the first refinement),
`RemittanceOrder` (which composes gate and ledger through their proved properties),
`ZeroHashWebhook`, `CctpClient` (composed with the lifecycle that the server implements),
`CardMoney`, `Compliance`, `Harvest`, `Reconciliation`, all with their proofs; then the
abstract specifications `AtomicLedger`, `IdempotentOperation` and `RemittanceSaga` with
the proofs that the code implements them.

Next:

1. **Proofs**: an abstract specification of one card charge per key, as `CardMoney`'s
   counterpart to `IdempotentOperation`.
2. **`OrderLifecycle`**, an abstract specification of the order's status, with a
   composition of `RemittanceOrder`'s writers and the webhook as its implementation:
   the event that arrives before the order is linked; the writer that skips the comparison.
3. **`Finalization`** over the ledger's postings: nothing reserved is left after
   settlement, a retry does not settle twice, an order is SETTLED exactly when its
   postings exist.
4. **`PrimaryWallet`**, and the default recipient beside it.
