------------------------- MODULE WageringProperties -------------------------
(***************************************************************************)
(* What the wager service promises, over the state of Wagering.            *)
(***************************************************************************)
EXTENDS Wagering, Functions

Row(i) == txns[i]

IsReversal(i) == RequiresReference(Row(i).op.kind)

Processed(i) == Row(i).status = "PROCESSED"

\* The kind of the row a reversal resolved, None for the other operations.
ReferencedKind(i) == IF Row(i).reference = 0 THEN None ELSE Row(Row(i).reference).op.kind

EntriesOf(w, i) == {k \in DOMAIN ledger[w] : ledger[w][k].txn = i}

EventsOf(i, type) == {n \in DOMAIN outbox : outbox[n].txn = i /\ outbox[n].type = type}

-----------------------------------------------------------------------------
(* Money *)

EntryAdds(e) ==
    e.after = IF e.direction = "DEBIT" THEN e.before - e.amount ELSE e.before + e.amount

MovementOf(e) ==
    [txn |-> e.txn, cents |-> IF e.direction = "DEBIT" THEN -e.amount ELSE e.amount]

BalanceOf(w) == IF wallets[w] = None THEN 0 ELSE wallets[w].balance

\* What a use case read of a wallet is still the committed row when it decides and writes,
\* several statements later: only the holder of the wallet's lock can have changed it.
\* (wallet_repo.go:57-65, process_wager.go:193-376, retry_pending_ref.go:131-246)
LockedReadsAreCurrent ==
    /\ \A h \in Handlers : pc[h] \in {"read_reference", "decide"} =>
          /\ walletLock[req[h].op.wallet] = h
          /\ wallets[req[h].op.wallet] = wal[h]
    /\ \A r \in Retriers : rpc[r] = "wallet_locked" =>
          /\ walletLock[item[r].row.op.wallet] = r
          /\ wallets[item[r].row.op.wallet] = rwal[r]

\* The ledger of a wallet starts at zero, every entry adds up and starts where the one
\* before ended, and the stored balance is where the last one ended.  Two transactions
\* that both read a balance before either wrote it would break the chain.
\* (process_wager.go:194-376, retry_pending_ref.go:131-246, open_wallet.go:63-97)
LedgerChain ==
    \A w \in Wallets :
        LET l == ledger[w]
        IN /\ \A k \in DOMAIN l :
                 /\ EntryAdds(l[k])
                 /\ l[k].before = IF k = 1 THEN 0 ELSE l[k - 1].after
           /\ BalanceOf(w) = IF l = <<>> THEN 0 ELSE l[Len(l)].after

\* A wallet's version is one more than the movements made after it was opened, so that
\* no two balances share a version and none is skipped. (wallet.go:68-117)
VersionCountsMovements ==
    \A w \in Wallets : wallets[w] # None =>
        wallets[w].version =
            1 + Cardinality({k \in DOMAIN ledger[w] : Row(ledger[w][k].txn).op.kind # "OPENING"})

\* A transaction moves money once, in its own wallet and by its own amount, also when two
\* retriers apply copies of one row.  One that is processed has moved it in the direction
\* its row and the resolved reference tell, to the balance it reports; one that was refused
\* on arrival never has.
\* (process_wager.go:346-376, retry_pending_ref.go:225-246, 000001_initial_schema.up.sql:126-127)
OneMovementPerTransaction ==
    /\ \A w \in Wallets : \A k \in DOMAIN ledger[w] :
          LET i == ledger[w][k].txn
          IN /\ i \in TxnIds
             /\ EntriesOf(w, i) = {k}
             /\ w = Row(i).op.wallet /\ ledger[w][k].amount = Row(i).op.amount
             /\ Processed(i) \/ Row(i).retryCount > 0
             /\ Processed(i) =>
                   /\ ledger[w][k].after = Row(i).result
                   /\ ledger[w][k].direction = DirectionFor(Row(i).op.kind, ReferencedKind(i))
    /\ \A i \in TxnIds :
          Processed(i) /\ Row(i).op.kind # "LOSS" => HasLedgerEntry(Row(i).op.wallet, i)

Balances == [w \in Wallets |-> IF wallets[w] = None THEN None ELSE wallets[w].balance]

Movements == [w \in Wallets |-> [k \in DOMAIN ledger[w] |-> MovementOf(ledger[w][k])]]

Accounts ==
    INSTANCE WalletAccounts WITH balance <- Balances, movements <- Movements,
                                 accepted <- Len(txns)

\* Seen from its wallets and ledgers, the service is WalletAccounts: money moves in single
\* steps, from the balance there is, with the ledger entry that explains it, at most once
\* for a transaction and never below zero or past the money type, whatever handlers and
\* retriers interleave, repeat and abandon.
\* (process_wager.go:193-376, retry_pending_ref.go:131-246, open_wallet.go:63-97)
ImplementsWalletAccounts == Accounts!Spec

-----------------------------------------------------------------------------
(* Reversals *)

\* A reversal is processed only after the operation it names was announced as processed, in
\* that order in the outbox, and points to that operation's row: whatever became of the
\* reference since, it had succeeded. (process_wager.go:222-287, retry_pending_ref.go:111-170)
ReversalsFollowReferences ==
    /\ \A i \in TxnIds : IsReversal(i) /\ Processed(i) =>
          /\ Row(i).reference \in TxnIds
          /\ Row(Row(i).reference).op.ext = Row(i).op.ref
    /\ \A n \in DOMAIN outbox :
          outbox[n].type = "WagerTransactionProcessed" /\ IsReversal(outbox[n].txn) =>
              \E m \in 1..(n - 1) :
                 /\ outbox[m].type = "WagerTransactionProcessed"
                 /\ Row(outbox[m].txn).op.ext = Row(outbox[n].txn).op.ref

ReversalMatches(i) ==
    LET op == Row(i).op
        reversed == Row(Row(i).reference).op
    IN /\ reversed.wallet = op.wallet /\ reversed.player = op.player
       /\ reversed.amount = op.amount /\ reversed.round = op.round
       /\ op.kind = "REFUND" => reversed.kind = "BET"

\* A reversal processed on arrival returns exactly what its reference moved, in the same
\* wallet and round. (process_wager.go:468-493)
DirectReversalsMatch ==
    \A i \in TxnIds :
        IsReversal(i) /\ Processed(i) /\ Row(i).retryCount = 0 => ReversalMatches(i)

\* The refunds processed for the bet b, on arrival or by a retrier.
RefundsOf(b) ==
    {i \in TxnIds : Processed(i) /\ Row(i).op.kind = "REFUND" /\ Row(i).reference = b}

\* A refund returns the whole of its bet (ARCHITECTURE.md:186) and a bet takes one
\* (ARCHITECTURE.md:191): together, its refunds never return more than it took.
RefundsWithinBet ==
    \A b \in TxnIds : Row(b).op.kind = "BET" =>
        SumFunctionOnSet([i \in TxnIds |-> Row(i).op.amount], RefundsOf(b)) <= Row(b).op.amount

-----------------------------------------------------------------------------
(* Rows *)

\* A terminal transaction never changes again (DESAFIO.md:143), whatever a retrier read before
\* it became terminal. (transaction.go:47-49, 222-248; transaction_repo.go:110-152)
TerminalIsForever ==
    [][\A i \in TxnIds : IsTerminal(Row(i).status) => txns'[i] = txns[i]]_txns

\* No step deletes a row or changes what its request asked, a row decided on arrival never
\* changes again, and one that waited never looks as if it had not, though a retrier writes
\* whole rows from the copies it read. (transaction_repo.go:110-152, retry_pending_ref.go:72-268)
RowsKeepIdentity ==
    [][\A i \in TxnIds :
          /\ i \in TxnIds'
          /\ txns'[i].key = txns[i].key /\ txns'[i].op = txns[i].op
          /\ txns[i].retryCount = 0 => txns'[i] = txns[i]
          /\ txns[i].retryCount > 0 => txns'[i].retryCount > 0]_txns

-----------------------------------------------------------------------------
(* Idempotency *)

\* Of all the requests that share an idempotency key or an external id, one is decided;
\* every other answer is a replay or an error. (process_wager.go:163-191, 433-465)
OneOriginalAnswer ==
    \A a, b \in originals :
        a.req.key = b.req.key \/ a.req.op.ext = b.req.op.ext => a = b

\* An answer that names a transaction names the one of that key and of exactly that
\* payload, on every path that replays. (process_wager.go:152-191, 448-457)
AnswersMatchRequest ==
    \A h \in Handlers : reply[h] # None /\ reply[h].txn # 0 =>
        LET row == Row(reply[h].txn)
        IN row.key = reply[h].req.key /\ row.op = reply[h].req.op

\* What a replay answers is what the original answered, when that was final.
Repeats(answer, original) ==
    /\ answer.status = original.status
    /\ answer.balance = original.balance
    /\ answer.failure = original.failure

\* A replay of an operation that was processed on arrival repeats its status and the
\* balance it had then, however much the wallet moved since. (process_wager.go:531-543)
ReplaysRepeatProcessed ==
    \A h \in Handlers, a \in originals :
        reply[h] # None /\ reply[h].txn = a.txn /\ a.status = "PROCESSED"
            => Repeats(reply[h], a)

\* A message is in the inbox only when its operation was decided in the same commit:
\* a redelivery always finds the row. (process_wager.go:146-161)
InboxHasTransaction ==
    \A q \in Requests : q.msg \in inbox =>
        \E i \in TxnIds : Row(i).key = q.key /\ Row(i).op = q.op

-----------------------------------------------------------------------------
(* Events *)

Announcements(i, type) == Cardinality(EventsOf(i, type))

MovedMoney(i) == HasLedgerEntry(Row(i).op.wallet, i)

\* A success is announced once, when the money moves or the loss is recorded, also when two
\* retriers work on the row; a wait is announced once; no row is refused silently, and one
\* refused on arrival is refused once.  The change of the balance is never announced twice,
\* nor left out on arrival.
\* (process_wager.go:239-255, 377-422, 495-529; retry_pending_ref.go:86-102, 147-162, 248-263)
EventsMatchOutcomes ==
    \A i \in TxnIds :
        /\ Announcements(i, "WagerTransactionProcessed") =
              IF MovedMoney(i) \/ Processed(i) THEN 1 ELSE 0
        /\ Announcements(i, "WagerTransactionPendingReference") =
              IF Row(i).retryCount > 0 THEN 1 ELSE 0
        /\ Row(i).status = "REJECTED" => Announcements(i, "WagerTransactionRejected") > 0
        /\ Announcements(i, "WalletBalanceChanged") <= 1
        /\ Row(i).retryCount = 0 =>
              /\ Announcements(i, "WagerTransactionRejected") =
                    IF Row(i).status = "REJECTED" THEN 1 ELSE 0
              /\ Announcements(i, "WalletBalanceChanged") = IF MovedMoney(i) THEN 1 ELSE 0

\* Every effective change of a balance is announced by a WalletBalanceChanged
\* (DESAFIO.md:375), the movement of a reversal that had to wait included.
EveryMovementIsAnnounced ==
    \A i \in TxnIds : MovedMoney(i) => Announcements(i, "WalletBalanceChanged") = 1

\* The versions that WalletBalanceChanged announces for a wallet only grow: a consumer
\* may keep the highest. (process_wager.go:377-398, open_wallet.go:127-155)
AnnouncedVersionsIncrease ==
    \A m, n \in DOMAIN outbox :
        /\ m < n
        /\ outbox[m].type = "WalletBalanceChanged" /\ outbox[n].type = "WalletBalanceChanged"
        /\ Row(outbox[m].txn).op.wallet = Row(outbox[n].txn).op.wallet
        => outbox[m].version < outbox[n].version

-----------------------------------------------------------------------------
(* Liveness *)

Waits(k) == \E i \in GetByIdempotencyKey(k) : Row(i).status = "PENDING_REFERENCE"

Settled(k) == \E i \in GetByIdempotencyKey(k) : IsTerminal(Row(i).status)

\* A reversal that waits for its reference is processed or rejected in the end, whatever it
\* reverses (ARCHITECTURE.md:182).
EveryPendingSettles == \A k \in ReversalKeys : Waits(k) ~> Settled(k)

\* The keys of the reversals of operations of a kind that can be reversed.
ReversibleKeys ==
    {q.key : q \in {r \in Requests :
        /\ RequiresReference(r.op.kind)
        /\ \A p \in Requests :
              p.op.ext = r.op.ref => DirectionFor(r.op.kind, p.op.kind) # "NONE"}}

\* A reversal of a kind of operation that can be reversed is processed or rejected in the end,
\* whether the operation comes, is itself waiting, is refused or never comes.  This is said of
\* one instance: a second retrier may write a paid refund back as pending, which the ledger's
\* unique index then keeps from being paid again for ever.
\* (retry_pending_ref.go:72-268; ARCHITECTURE.md:181-182)
EveryReversibleSettles == \A k \in ReversibleKeys : Waits(k) ~> Settled(k)

\* Every request ends, with an answer or a rollback: handlers and retriers never wait for
\* each other's wallet locks and inbox rows forever. (process_wager.go:144-466, uow.go:23-44)
EveryRequestEnds == \A h \in Handlers : pc[h] # "idle" ~> pc[h] = "idle"

=============================================================================
