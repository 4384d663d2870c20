# Verification of the wager service

TLA+ modules for a Go service that keeps players' wallets and applies wager operations
(BET, WIN, LOSS, REFUND, ROLLBACK) that providers send over HTTP and SQS. Several instances
of the service share one PostgreSQL database. TLC checks small instances; TLAPS proves the
most important facts for every value of the constants.

Paths below are relative to `src/internal/` unless they name a document or `cmd/`.

## 1. Inventory

| Component | State it keeps | Operations | Modelled |
| --- | --- | --- | --- |
| `ProcessWagerUseCase` (`application/usecase/process_wager.go`) | none of its own; one database transaction per request | `Execute` | `ProcessWager` |
| `RetryPendingReferencesUseCase` (`retry_pending_ref.go`) | the batch it read, in memory | `ExecuteBatch`, `processSinglePending` | `RetryPendingReferences` |
| `OpenWalletUseCase` (`open_wallet.go`) | none | `Execute` | `OpenWallet` |
| `ReconcileWalletUseCase` (`reconcile_wallet.go`) | none | `Execute` (two reads) | `LedgerReaders` |
| Domain types (`domain/transaction`, `wallet`, `ledger`, `money`, `errs`) | fields of one object | constructors, transitions, arithmetic | `WagerDomain`, without the parsing of amounts |
| Schema and repositories (`infra/db`) | wallets, wager_transactions, wallet_ledger_entries, inbox_messages, outbox_events; row locks | queries, inserts, updates, `WithTx` | `WagerStore`; the outbox in `OutboxPublisher`, ledger queries in `LedgerReaders` |
| Pending reference worker (`worker/pendingref`) | a ticker and a stop channel | `Start`, `Stop` | its loop, in `Wagering`; a batch may end anywhere |
| Outbox publisher (`worker/outbox`) | running flag, stop channel; rows of outbox_events | `ProcessBatch`, `Start`, `Stop` | `OutboxPublisher` |
| SQS consumer (`worker/sqs`) | running flag, stop channel; messages in flight | `pollLoop`, `handleMessage`, delete, release visibility, `Stop` | `SqsConsumer` |
| Server lifecycle (`cmd/server/main.go`) | which workers run | start, stop with a deadline | stop and replacement of the consumer, in `SqsConsumer` |
| HTTP handlers (`http/handler`) | none | translation; `GetLedger` pages a ledger | `GetLedger` and `Reconcile` in `LedgerReaders` |
| JWKS cache (`infra/auth`), SQS health cache (`http/handler/health.go`) | a cached value, its age, a lock | `Ready`, `getKey`: read, refresh | `RemoteCaches` |
| Middleware, configuration, metrics, `cmd/loadtest` | none that matters | | no |

Interaction. Handlers, retriers and openings meet only in the database: through committed
rows, the row lock that `SELECT ... FOR UPDATE` takes on a wallet, and the unique indexes.
They append rows to `outbox_events`, which the publishers of all instances send to a second
queue. The SQS consumer calls the same use case as the HTTP handler, and the inbox table
tells redelivered messages apart. Reconciliation and the pages of a ledger read what the use
cases commit, without locks.

### What is hard, and what makes each part correct

- Two transactions change one balance by writing absolute values computed from a row read
  several statements earlier (`wallet_repo.go:76-95` compares no version). Only the row lock
  saves them. Correct: the row read is still the committed one; the ledger is a chain that
  ends at the stored balance; versions count movements.
- Idempotency rests on two lookups before the lock, two unique indexes at the insert and a
  recovery in a second transaction. Correct: one request of those that share a key or an
  external id is decided, all other answers repeat it or are errors, and no answer names the
  transaction of another payload.
- A message is recorded in the inbox inside the operation's transaction, and a process may
  die between any two statements. Correct: no message is recorded without its operation.
- Reversals may come before what they reverse, which may itself be waiting, be refused or
  never come. Every instance runs a retrier, and retriers work from copies that may be old.
  Correct: each waiting reversal ends processed or rejected and never changes again; it moves
  money once and announces that once, also when two retriers apply copies of its row; it is
  processed only after the operation it names, and returns what that moved.
- Locks are awaited with other locks or index entries held. Correct: every request ends.
- A publisher sends inside a transaction that may still roll back. Correct: an event is
  delivered at least once, never after it was recorded, twice only after an interruption,
  and by one publisher at a time.
- A consumer holds several messages under one visibility timeout, deletes after a commit
  whose answer may be lost, and may be stopped or die at any point. Correct: no message is
  deleted before its request is settled, groups keep their order, every message leaves.
- HTTP goroutines share what an instance remembers of SQS and of the identity provider, and
  hold a lock while they call them. Correct: an answer is no older than the time to live,
  one goroutine calls for all, and a failed call leaves no lock behind.
- Readers see each statement's own moment, and entries are ordered by clocks that disagree.
  Correct: a reconciliation compares a balance with the ledger of the same moment; a listing
  misses nothing that was there and repeats nothing.

`PROJECT.json` lists each hazard at its line with the properties that cover it. Some of what
is correct above the code does not do: section 6.

## 2. Modules

| Module | Content |
| --- | --- |
| `WagerDomain` | stateless rules: kinds, `DirectionFor`, `OperationError` and `Moved` (Wallet.Debit, DebitForRollback, Credit), `NewExternalError`, the `Mark...` transitions |
| `WagerStore` | the tables as `wallets`, `txns`, `ledger`, `outbox`, `inbox`, and `walletLock`; queries and statements |
| `OpenWallet` | one action |
| `ProcessWager` | one action per statement of `Execute` that reads or writes shared state |
| `RetryPendingReferences` | batch query and one action per statement or outcome of an item |
| `Wagering` | EXTENDS the three use cases: `Init`, `Next`, fairness, `TypeOK` |
| `WageringProperties` | the properties, and the instance of `WalletAccounts` that Wagering implements |
| `WalletAccounts` | abstract: balances and movements, without requests, locks or failures |
| `LedgerReaders` | EXTENDS `WalletAccounts` as its writers: reconciliation and paging |
| `OutboxPublisher` | publishers over the outbox table and the events queue |
| `EventDelivery` | abstract: what a transactional outbox promises |
| `SqsConsumer` | consumers over the queue of requests |
| `RemoteCaches` | the cached check of SQS and the cached signing keys, with their locks |
| `MCWagering`, `MCOutboxPublisher`, `MCSqsConsumer`, `MCLedgerReaders`, `MCRemoteCaches` | instances for TLC |
| `WageringTypeProofs`, `WageringLedgerProofs`, `WageringAccountProofs`, `WageringRowProofs`, `OutboxPublisherProofs`, `SqsConsumerProofs`, `LedgerReadersProofs`, `RemoteCachesProofs` | theorems |

How they compose. `Wagering` joins the use cases over one store. It implements
`WalletAccounts` (balances are those of the wallet rows, movements the ledger entries,
accepted transactions the length of `txns`), and `LedgerReaders` reads from `WalletAccounts`
instead of from the use cases: what a reader may see follows from the movements alone, and
the refinement makes the result one about the service. `SqsConsumer` calls `Execute` as one
step, its commit: `ProcessWager` has its statements, and the properties that make one step
of it (`OneOriginalAnswer`, `AnswersMatchRequest`, `InboxHasTransaction`) are those of the
run `service`. `OutboxPublisher` takes the rows that use cases commit as given.

### How state and actions correspond to the code

**Use cases.** A transaction under READ COMMITTED reads, at each statement, the rows
committed by then. Each read is therefore a step of its own: `Receive` (begin and inbox
insert), `FindByKey`, `FindByExternal`, `LockWallet`, `ReadReference`. After them come only
writes, made while the wallet's lock is held and invisible until the commit; the writes and
the commit are one step (`PersistPending`, `PersistRejected`, `PersistLoss`,
`PersistProcessed`). A unique violation at the insert is `LoseInsertRace`, and the second
transaction that follows is `RecoverDuplicate`. `AbortHandler` is a rollback or a dead
process, possible before any step. The inbox insert waits for an uncommitted row of the same
message (`InboxRowInFlight`), and the lock waits for its holder (`CanLock`).

A retrier's `FetchBatch` copies rows, `ReadTarget` takes one copy and reads its reference,
`LockItemWallet` waits for the wallet, and the outcome commits: `RejectExhausted`,
`PostponeRetry`, `KeepWaiting`, `RejectItem`, `ApplyItem`, or `AbandonItem`, a rollback.
Outcomes overwrite the row with the copy's fields, as `Update` does. `AbortItem` rolls one
item back and `CrashRetrier` drops the batch.

Abstractions: an external id stands for the pair (provider, id); a row's id is its position
in `txns`; the payload hash is the operation itself (SHA-256 does not collide); `gameId`,
correlation ids and timestamps are left out; `retry_after` too, so any set of at most
`BatchLimit` pending rows may be due. The `Mark...` functions fail on a terminal row: no
caller applies them to one, since a new row is PENDING and a batch holds PENDING_REFERENCE
copies. `reply` and `originals` are history variables: the last answer of each handler and
every answer that was not a replay.

**Publisher.** A batch is one transaction. `Fetch` locks due rows nobody has locked;
`SendAndMark`, `RecordFailure` and `SkipExhausted` are the three ways of handling one, in
the order of the query; their updates stay in `marked` and `failed` until `CommitBatch`. A
failing `MarkPublished` ends the batch (`SendAndFailToMark`). A failing `RecordFailure` does
not (`FailToRecord`), as its error is ignored: the loop goes on and sends rows whose marks
then fail. `AbortBatch` is a rollback, a lost connection or a crash. A send may fail after
the queue accepted the row, and the queue may drop or accept a repetition (the deduplication
window). Time is relative: `dueIn` counts ticks down to the row's due time.

**Consumer.** `Poll` and `ReceiveMessages` are apart, as a long poll may outlive `Stop`.
`DropPoison` is every exit of `handleMessage` before `Execute`. `ExecuteFails` may have
committed. `Settle` deletes or releases with the handle of the reception, which works only
while it is the last one, or whose call fails; both are only logged. `Replace` ends a
process, crashed or stopped, and starts another. The queue is external: order within a
group, the visibility timeout (`Expire`), receive counts and redrive.

**Readers.** `ReadWallet` and `ReadLedger` are the two statements of the reconciliation. A
page is one query, so one step; the cursor is the id of its last entry, which stands for
its place since entries never change. `Post` gives a new entry any unused id and any clock.

**Caches.** A goroutine asks (`Ask`), looks under the read lock (`ReadCheck`, `ReadKey`,
one step each, possible while no writer holds the lock), waits for the write lock and looks
again (`LockCheck`, `LockKeys`), and calls with the lock held; the call's end stores the
result, answers and releases (`ListQueues`, `StoreKeys`, `FetchFails`). `ListQueues` may
fail although SQS is reachable: the call runs under the context of one probe, which may be
cancelled, and the error is kept for all. A key id stands for one key. `upAge`, `troubleAge`
and `servedAge` are history variables: how long ago SQS could be reached, a check could
fail, a key was listed.

## 3. Runs

| Run | Instance | Question |
| --- | --- | --- |
| `service` | 2 handlers, 2 retriers, a wallet, 7 requests around one bet, its refund and a win | idempotency: `OneOriginalAnswer`, `AnswersMatchRequest`, `ReplaysRepeatProcessed`, `InboxHasTransaction`; money: `LockedReadsAreCurrent`, `LedgerChain`, `VersionCountsMovements`, `AnnouncedVersionsIncrease`, `OneMovementPerTransaction`, `ImplementsWalletAccounts`; rows and events: `DirectReversalsMatch`, `ReversalsFollowReferences`, `RowsKeepIdentity`, `EventsMatchOutcomes`; `TypeOK` |
| `progress` | 1 handler, 1 retrier, a bet as a message or a loss, refund, rollback, rollback of the rollback; fairness | `EveryReversibleSettles`, `EveryRequestEnds`, `ReversalsFollowReferences` |
| `publishing` | 2 publishers, 2 rows, 2 attempts; fairness | `OneSender`, `RepetitionNeedsInterruption`, `ImplementsEventDelivery`, `EveryRowSettles`, `TypeOK` |
| `consuming` | 2 consumers, 3 queues of 2 messages, 2 receptions; fairness | `DeletedIsSettled`, `GroupOrder`, `EveryMessageLeaves`, `TypeOK` |
| `reading` | 1 auditor, 1 lister, 2 wallets, 3 transactions, 2 instants | `PagesGoBack`, `ListingIsComplete`, `TypeOK` |
| `caches` | 2 goroutines, 1 RSA key and 1 other, times to live of 1 tick; fairness | `ReadinessIsRecent`, `KeysFollowProvider`, `ChecksAreSpaced`, `EveryRequestIsAnswered`, `TypeOK` |
| `stuck` | loss and its rollback; fairness | violates `EveryPendingSettles` |
| `refunds` | a bet, its refund and a smaller one | violates `RefundsWithinBet` |
| `two_workers` | a bet and its refund, 2 retriers | violates `TerminalIsForever` |
| `reused_message` | two payloads under one message id and key | violates `AnswersMatchRequest` |
| `unannounced` | a bet and its refund | violates `EveryMovementIsAnnounced` |
| `false_divergence` | 1 auditor, 2 wallets | violates `ReportsAgree` |

The runs of `MCWagering` open a wallet with 2 cents. Deadlock is checked in every run but
`publishing`: a request may always arrive, a consumer may always be replaced, a client may
always ask again; publishers stop when every row is published or given up.

What the runs say together. `AnswersMatchRequest` holds in `service`, where a message id
identifies a message, and fails in `reused_message`, where it does not. In `service` two
retriers hold copies of one row and the slower one overwrites what the faster one decided, as
`two_workers` shows: `TerminalIsForever` fails there. The properties of `service` say what
holds all the same. A row that was decided on arrival is not touched (`RowsKeepIdentity`);
money moves once and is announced as a success once (`OneMovementPerTransaction`,
`EventsMatchOutcomes`), although the row may say REJECTED afterwards; a reversal comes after
the success of what it names, although that row, too, may be overwritten later
(`ReversalsFollowReferences`). `EventsMatchOutcomes` counts changes of the balance exactly only
on arrival and asks for at most one otherwise, so it says nothing for or against the missing
event that `unannounced` shows. `EveryReversibleSettles` holds for the reversals of kinds that
can be reversed, in one instance (`progress`); without that restriction `EveryPendingSettles`
fails for a rollback of a LOSS or of a ROLLBACK (`stuck`).

Bounds.

- `MCWagering`: `Requests` bounds the run, as each row needs a fresh key and external id.
  `MaxRetries = 2` lets a row be postponed once and then be given up: `MarkPendingReference`
  already counts the first.
- `service`: the requests are those around one bet that interfere: the bet as a message that
  may be delivered again, a second operation under its external id of another amount or
  player, an OPENING, a win, a refund that may come first and a refund of another amount.
  Two handlers race for an insert, two retriers hold one row, a handler and a retrier compete
  for the wallet; a third actor adds no new pair. `BatchLimit = 1` is one row for each
  retrier, enough for two copies of it. `MaxCents = 3` is the largest amount of the money
  type: with 2 cents in the wallet a win of 2 overflows unless the bet was paid first, and so
  does the refund after the win, on arrival and in a retrier. Handlers and retriers are
  symmetric, as no property mentions who they are.
- `progress`: a chain of three reversals of which each may be missing or come before what it
  reverses, one handler, which ends a request before it takes the next, and one retrier with
  both due rows in one batch. It is one instance of the service, and what it shows is said of
  one: with two, `EveryReversibleSettles` fails (section 6). No symmetry, as it is a liveness
  run.
- `publishing`: two rows fill a batch (`BatchSize = 2`), so one failing row shares a batch
  with a row that is sent; `MaxAttempts = 2` separates a retry from giving up; `MaxDelay = 2`
  reaches the cap of the backoff; beyond `MaxAge = 1` tick overdue, waiting longer does not
  change the order of two rows that can differ by no more.
- `consuming`: `MaxReceives = 2` has a first delivery, a redelivery and the dead-letter
  queue; one consumer may be shut down, both may crash. The three queues have one group of
  two messages that share a key, or two groups with messages no transaction accepts.
- `reading`: `MaxAccepted = 3` transactions give up to three entries: a page, the next, and
  an entry posted between them; two instants give ties and a clock that goes back; page
  sizes 1 and 2 change between pages; balances are 0 or 1, as only the sum of what moved
  matters to a report. Wallets are symmetric.
- `caches`: one goroutine calls while the other waits or comes later; with times to live of
  one tick an entry is new, of age one, or too old. The key is listed or not, and an id
  whose key is not RSA is never found.

## 4. Fairness

`Wagering`'s `FairSpec` assumes:

- strong fairness of each handler's and each retrier's next statement: a goroutine whose
  transaction is open goes on, and PostgreSQL serves the waiters of a row lock in turn,
  which makes a lock that is free again and again be granted;
- strong fairness of `FetchBatch` for each row: the worker's ticker fires for ever
  (`worker/pendingref/worker.go:37-52`), a due row is taken before younger ones, and the
  rows that are due fit in a batch of 20;
- from some point on no transaction fails and no process dies. Before it they may.

`OutboxPublisher`: weak fairness of each publisher's steps (its ticker fires for ever) and
of time; transactions stop failing at some point, while sends may fail for ever. A
transaction that PostgreSQL has aborted does end.

`SqsConsumer`: weak fairness of the loop, of visibility timeouts and redrive; a restarted
consumer gets to poll again and again, and a message that the queue offers again and again
is received (strong fairness, a property of SQS). Executes and calls may fail for ever and
processes may die for ever: `EveryMessageLeaves` holds because receptions are counted.

`RemoteCaches`: a `sync.RWMutex` lets every waiting goroutine in after finitely many others
(strong fairness of the steps that take a lock), and a call ends, by its timeout of 2 s or
5 s at the latest (weak fairness of its end). Calls may fail for ever.

No fairness is assumed of clients: requests, openings and pages may never come.

## 5. What is proved

For every value of the constants that meets the named assumptions of the modules: any number
of wallets, requests, handlers, retriers, publishers, rows, consumers, queues, listings and
probes.

- `TypeInvariant`, `TypeCorrect` (`WageringTypeProofs`). `TypeOK` is not inductive: that a
  decision yields a well-typed row needs to know that the handler has a request and a
  wallet. `TypeInv` adds `HandlerControl` and `RetrierControl`, what each control state says
  about the locals. A balance stays a natural number because a debit is applied only when
  `OperationError` found the balance large enough.
- `LockedReadsCurrent` (`WageringLedgerProofs`). What a process read under the lock of a
  wallet is still the committed row. The argument is a discipline: a step of process p
  changes `walletLock` only where it is p's or free, and a wallet's row only where p holds
  the lock or the wallet did not exist (`Disciplined`). Such a step disturbs no other
  process's claim, and each process establishes its own when it locks. The claim is
  inductive together with `TypeInv`.
- `LedgerChains`. Every step leaves a wallet and its ledger alone or makes a movement
  (`Moves`): it appends one entry that adds up, from the balance the wallet has to the new
  one. That the entry starts at the balance the wallet has is where `LockedReadsCurrent` is
  used: the use case computes it from its own copy. A movement keeps the chain.
- `ServiceImplementsAccounts` (`WageringAccountProofs`): `Spec => ImplementsWalletAccounts`.
  Every action maps to a step of `WalletAccounts` or to a stutter. The step needs that the
  new balance is in range (`BalancesFit`), that a retrier's copy is of a row that exists
  (`CopiesOfRows`) and that entries are of rows that exist (`EntriesOfRows`): together
  `AccountInv`. That a transaction moves once is the ledger's unique index for an item, and
  a fresh id for a new row. The same step gives `MovedOnceAtMost`: a transaction has one
  entry at most, of its amount and in its wallet, however many retriers work from copies of
  the same row. It is what the unique index guarantees although `two_workers` shows that the
  status of the row can be overwritten.
- `WageringRowProofs`. A row that was processed on arrival was never read by a retrier, as
  retriers only hold copies of rows that had to wait (`CopiesWaited`), so nothing writes it
  again and a replay reads what the original answer said (`ReplayInvariant`). From it
  `OneIsDecided`, `ReplaysRepeat`, `ReversalsMatchOnArrival` and the action property
  `RowsAreKept`: a retrier writes the whole row back from its copy, which may be old, but it
  never changes the key or the operation, and never a row that was decided on arrival.
  `VersionsCount`: only movements raise the version, and the entry of an opening, which does
  not count, is made by `OpenWallet` alone.
- `AnnouncedVersionsGrow`. By itself the property is not inductive. `AnnouncementInv` adds
  that an announced version is never above the version the wallet has and that every event
  is of a row and a wallet that are there. A step that announces a version raises the
  wallet's version to it in the same commit (the copy is current, `LockedReadsCurrent`), so
  the new announcement is above all earlier ones. Nothing about the number of handlers or
  retriers is assumed.
- Under `MessagesIdentifyRequests` (a message id always carries the same key and operation;
  the code does not check it): `InboxIsDecided` and `AnswersMatch`.
- `ReferencesComeFirst`. Retriers read a reference long before they use it, and another one may
  have overwritten it since, so that it is processed cannot be kept. That it was announced as
  processed can: the outbox only grows. `ReferenceInv` says so of every reference that a
  handler or a retrier holds as processed (`Trusted`), and of every processed row
  (`ProcessedAnnounced`). A step that writes a processed reversal had such a copy of what it
  names (`Follows`), and appends its own announcement behind that of the reference.
- `OneMovement` and `OutcomesAnnouncedOnce` relate three tables, for any number of retriers. A
  step either leaves rows, ledgers and events alone, or it writes one row together with the
  entry and the events of its outcome (`Arrivals`, `RetrierRewrites`). A retrier may write over
  any outcome, but what it moves it moves only if there is no entry of that row yet.
  `MovementInv` therefore says of an entry that its row is processed, and then tells the
  movement, or had to wait; and of a processed row other than a loss that it has an entry.
  With it a second PROCESSED is impossible, and with it its second announcement; a REJECTED
  written over a PROCESSED changes neither the entry nor the count of successes.
- Under `MessagesIdentifyRequests` (a message id always carries the same key and operation;
  the code does not check it): `InboxIsDecided` and `AnswersMatch`. It is a hypothesis of
  these two theorems and not an ASSUME: `reused_message` runs without it. No theorem assumes
  anything of how many instances there are.
- `OutboxPublisherProofs`. `PublisherInvariant`: what a publisher holds is locked by it and
  not published; an accepted row is published, marked by a batch that may still commit, or
  uncertain. `OneSenderAtATime` and `RepetitionsAreExplained` follow, and
  `PublisherImplementsDelivery`, since a row is accepted before it is marked.
- `SqsConsumerProofs`. `ConsumerInvariant`: an outcome other than a failure means the request
  is settled, which no later step undoes; a held message is behind the messages of its group
  that the consumer holds, that were attempted or that are dead. From it `NoRequestIsLost`
  and `GroupsStayInOrder`.
- `LedgerReadersProofs`. `PagesInvariant`: the cursor is below all listed entries, and what
  existed is listed or below the cursor. It rests on `Before` being a total order of places
  with distinct ids, and on entries never being removed. From it `PagesAlwaysGoBack` and
  `ListingsAreComplete`.
- `MoneyInvariant`, `ReadersTypes`, `DivergencesAreMovements` (`LedgerReadersProofs`). The sum
  of a ledger is a recursive function, and the prover has no induction over its length. The
  proof does not need it: that partial sums of a list exist and that two of them agree is
  itself part of the invariant. The empty list has the sum 0, and appending one movement
  extends the partial sums by one value; every list a reader looks at, the whole ledger and
  its tail since the first statement, grows only so. `MoneyInv` says that each balance is the
  sum of its ledger, and that what an auditor has read differs from it by that tail: what a
  report calls a divergence is what was committed between its statements, and nothing else.
- `RemoteCachesProofs`. `CachesInvariant` (with the types, `CachesTypes`): what a cache
  within its time to live remembers was true no longer ago than the cache's own age, as both
  ages grow with the same ticks and only the holder of the write lock resets the second,
  with a fact of that moment. From it `ReadinessStaysRecent`, `KeysAlwaysFollowProvider` and
  `ChecksStaySpaced`.

From which assumptions. Amounts have an upper end `MaxCents`; batch sizes, attempts and times
to live are natural numbers; the sets of processes, rows and messages are arbitrary (they may
be infinite), handlers and retriers are different processes, and `None` and `Nobody` are none
of the values they stand beside. `LedgerReaders` names a bound, `MaxAccepted`, which is any
number. No theorem assumes fairness.

Every safety and action property of a passing run is stated by a theorem; `MovedOnce` and
`DifferencesAreMovements` are stated by theorems only. Model-checked only: the liveness
properties `EveryReversibleSettles`, `EveryRequestEnds`, `EveryRowSettles`,
`EveryMessageLeaves` and `EveryRequestIsAnswered`, as the prover has no rule for fairness or
ENABLED, and the counterexamples of the violation runs.

## 6. Where the code departs from its documents

With a run:

- The refunds of one bet may return more than it took (`refunds`), as neither of two documented
  checks is made. Two refunds of one bet are both paid: ARCHITECTURE.md:191 promises one
  reversal of each kind per reference and the code `REFERENCE_ALREADY_REVERSED`, which is
  declared and never used. And a reversal that waited is applied without the checks of
  `validateReference`: another amount, round or wallet passes (ARCHITECTURE.md:181,
  DESAFIO.md:180). The run needs both, a refund of the whole and one of another amount that
  waited.
- With two instances a retrier overwrites a row another has settled (`two_workers`;
  DESAFIO.md:143). The ledger's unique index prevents a second movement.
- The retrier moves a balance and emits no `WalletBalanceChanged`, which DESAFIO.md:375 asks
  for at every change of a balance (`unannounced`).
- A reconciliation reads balance and ledger at two moments and may report a wallet as
  inconsistent that is not (`false_divergence`; DESAFIO.md:308 asks for a consistent view,
  which the comment at `reconcile_wallet.go:48` claims).
- A redelivery is answered by its key alone (`reused_message`; DESAFIO.md:350 asks to
  compare the hash).
- A waiting rollback of a LOSS or of a ROLLBACK is never settled (`stuck`;
  ARCHITECTURE.md:182).

Met while modelling, without a run of their own:

- The replay of a rejected operation reports the operation's amount as the balance: the row
  has no result balance, and `BuildReplayOutput` falls back to the amount as
  `process_wager.go:532` does. DESAFIO.md:287 asks for the balance of the original.
- With two instances a waiting refund that was paid may never be settled. One retrier reads
  that the bet is not there yet, the bet comes, the other retrier pays the refund, and the first
  writes PENDING_REFERENCE over PROCESSED (`retry_pending_ref.go:124`). From then on every
  batch tries to pay again, the ledger's unique index refuses and the item rolls back, with the
  retry count as it was; a rollback of that refund waits with it. TLC finds the lasso with the
  constants of `progress` changed to two retriers, `MaxRetries = 3`, `MaxCents = 4` and
  `WaitingRefund`. With `MaxRetries = 2` the row is given up instead, and with less room in the
  wallet it is rejected for its amount.
- A probe whose request is cancelled during `ListQueues` stores its own context's error, and
  for 15 s every other probe reports SQS as unavailable (`handler/health.go:78-84`).
- ARCHITECTURE.md:242 says that at shutdown the visibility of an unfinished message is
  released. No code does; the model leaves such messages hidden until their timeout.
- DESAFIO.md:353 asks for backoff and for permanent errors to reach the dead-letter queue.
  Permanent errors are deleted (ARCHITECTURE.md:204 says so), and a released message is
  visible at once. An unsupported rollback reaches the dead-letter queue after five
  deliveries without delay.

## 7. Not modelled

- The parsing and formatting of amounts, the JSON of requests and events, token validation,
  configuration, logging, tracing, metrics, middleware and the load test: no state.
- The order of due rows and `retry_after` of waiting reversals, and with it the 64-bit
  arithmetic of their backoff and starvation by 20 rows that never change.
- Waits inside a database transaction other than for a wallet. That an inbox insert waits for
  an uncommitted row of the same message is a `Receive` that is not enabled, and a wait for
  an entry of a unique index is part of the step that commits. A circle of such waits is no
  state of the model: `EveryRequestEnds` catches locks that are kept or never granted.
- A commit of half of a transaction's writes: the writes after the wallet's lock and the
  commit are one step, as PostgreSQL makes them.
- `SqsConsumer` fixes for each payload whether its transaction is refused; that a wallet is
  opened between two deliveries is left out.
- `Transaction.MarkFailed` and `InboxRepository.MarkProcessed`, which have no caller.
- Pool exhaustion and statement timeouts are covered by `AbortHandler`, `AbortItem`,
  `AbortBatch` and `ExecuteFails`.

## 8. What could follow

A model of the pending queue with its order and limit, and a refinement of `SqsConsumer`'s
Execute by `ProcessWager`.
