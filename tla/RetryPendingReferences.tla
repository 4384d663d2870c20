----------------------- MODULE RetryPendingReferences -----------------------
(***************************************************************************)
(* RetryPendingReferencesUseCase, run by the pending-reference worker of   *)
(* each instance of the service.  A retrier reads a batch of pending rows  *)
(* in one transaction and handles every row in a transaction of its own,   *)
(* always from the copy it read in the batch.                              *)
(*                                                                         *)
(* retry_after is abstracted: any set of pending rows may be the ones due, *)
(* in any order.                                                           *)
(***************************************************************************)
EXTENDS WagerStore, FiniteSets

CONSTANTS
    Retriers,     \* the workers' goroutines
    MaxRetries,   \* retry_count at which a row is given up
    BatchLimit    \* LIMIT of the batch query

ASSUME RetriersAssumption ==
    /\ Retriers \subseteq Processes
    /\ MaxRetries \in Nat \ {0}
    /\ BatchLimit \in Nat \ {0}

VARIABLES
    rpc,          \* the next statement of a retrier
    batch,        \* the copies it still has to handle
    item,         \* the copy it is handling, None between two items
    target,       \* the reference it read for item, or None
    rwal          \* the wallet row it read under the lock

retrierVars == <<rpc, batch, item, target, rwal>>

Copies == [id : Nat, row : Rows]

\* A nil copy is no copy.
ASSUME CopiesAssumption == None \notin Copies

RetrierInit ==
    /\ rpc = [r \in Retriers |-> "idle"]
    /\ batch = [r \in Retriers |-> {}]
    /\ item = [r \in Retriers |-> None]
    /\ target = [r \in Retriers |-> None]
    /\ rwal = [r \in Retriers |-> None]

RetrierTypeOK ==
    /\ rpc \in [Retriers -> {"idle", "reference_read", "wallet_locked"}]
    /\ batch \in [Retriers -> SUBSET Copies]
    /\ item \in [Retriers -> Copies \cup {None}]
    /\ target \in [Retriers -> Copies \cup {None}]
    /\ rwal \in [Retriers -> WalletRows \cup {None}]

Copy(i) == [id |-> i, row |-> txns[i]]

\* Mutant of NextItem: the transaction is left open and keeps its lock.
NextItemKeepsLock(r) ==
    /\ rpc' = [rpc EXCEPT ![r] = "idle"]
    /\ item' = [item EXCEPT ![r] = None]
    /\ target' = [target EXCEPT ![r] = None]
    /\ rwal' = [rwal EXCEPT ![r] = None]
    /\ UNCHANGED walletLock

\* The item's transaction ended; the retrier turns to the rest of the batch.
NextItem(r) ==
    /\ rpc' = [rpc EXCEPT ![r] = "idle"]
    /\ item' = [item EXCEPT ![r] = None]
    /\ target' = [target EXCEPT ![r] = None]
    /\ rwal' = [rwal EXCEPT ![r] = None]
    /\ Unlock(r)

\* UPDATE wager_transactions SET ... WHERE id, whatever the row holds by now.
UpdateTxn(copy, row) == txns' = [txns EXCEPT ![copy.id] = row]

-----------------------------------------------------------------------------
(* Statements of a retrier *)

FetchBatch(r) ==
    /\ rpc[r] = "idle" /\ batch[r] = {}
    /\ \E due \in SUBSET GetPendingReferences :
          /\ due # {} /\ Cardinality(due) <= BatchLimit
          /\ batch' = [batch EXCEPT ![r] = {Copy(i) : i \in due}]
    /\ UNCHANGED <<storeVars, rpc, item, target, rwal>>

\* Mutant of RejectExhausted: the rejection is not announced.
RejectExhaustedSilently(r) ==
    /\ rpc[r] = "idle"
    /\ \E c \in batch[r] :
          /\ c.row.retryCount >= MaxRetries
          /\ UpdateTxn(c, MarkRejected(c.row, "REFERENCE_NOT_FOUND"))
          /\ batch' = [batch EXCEPT ![r] = @ \ {c}]
    /\ UNCHANGED <<wallets, ledger, outbox, inbox, walletLock, rpc, item, target, rwal>>

\* A row that was retried MaxRetries times is rejected without another look.
RejectExhausted(r) ==
    /\ rpc[r] = "idle"
    /\ \E c \in batch[r] :
          /\ c.row.retryCount >= MaxRetries
          /\ UpdateTxn(c, MarkRejected(c.row, "REFERENCE_NOT_FOUND"))
          /\ outbox' = Append(outbox, Event("WagerTransactionRejected", c.id))
          /\ batch' = [batch EXCEPT ![r] = @ \ {c}]
    /\ UNCHANGED <<wallets, ledger, inbox, walletLock, rpc, item, target, rwal>>

ReadTarget(r) ==
    /\ rpc[r] = "idle"
    /\ \E c \in batch[r] :
          LET found == GetByProviderAndExternalID(c.row.op.ref)
          IN /\ c.row.retryCount < MaxRetries
             /\ \/ \E i \in found : target' = [target EXCEPT ![r] = Copy(i)]
                \/ found = {} /\ target' = target
             /\ item' = [item EXCEPT ![r] = c]
             /\ batch' = [batch EXCEPT ![r] = @ \ {c}]
    /\ rpc' = [rpc EXCEPT ![r] = "reference_read"]
    /\ UNCHANGED <<storeVars, rwal>>

\* Mutant of PostponeRetry: the retry is not counted.
PostponeRetryUncounted(r) ==
    /\ rpc[r] = "reference_read"
    /\ target[r] = None
    /\ UpdateTxn(item[r], item[r].row)
    /\ NextItem(r)
    /\ UNCHANGED <<wallets, ledger, outbox, inbox, batch>>

PostponeRetry(r) ==
    /\ rpc[r] = "reference_read"
    /\ target[r] = None
    /\ UpdateTxn(item[r], IncrementRetry(item[r].row))
    /\ NextItem(r)
    /\ UNCHANGED <<wallets, ledger, outbox, inbox, batch>>

\* Mutant of LockItemWallet: the wallet is read without taking its lock.
LockItemWalletUnlocked(r) ==
    LET w == item[r].row.op.wallet
    IN /\ rpc[r] = "reference_read"
       /\ target[r] # None
       /\ wallets[w] # None
       /\ rwal' = [rwal EXCEPT ![r] = wallets[w]]
       /\ rpc' = [rpc EXCEPT ![r] = "wallet_locked"]
       /\ UNCHANGED <<storeVars, batch, item, target>>

LockItemWallet(r) ==
    LET w == item[r].row.op.wallet
    IN /\ rpc[r] = "reference_read"
       /\ target[r] # None
       /\ CanLock(w)
       /\ Lock(w, r)
       /\ rwal' = [rwal EXCEPT ![r] = wallets[w]]
       /\ rpc' = [rpc EXCEPT ![r] = "wallet_locked"]
       /\ UNCHANGED <<wallets, txns, ledger, outbox, inbox, batch, item, target>>

-----------------------------------------------------------------------------
(* The decision under the wallet's lock *)

\* Mutant of TargetProcessed: a reference that is itself pending will do.
TargetProcessedOrPending(r) == target[r].row.status \in {"PROCESSED", "PENDING_REFERENCE"}

TargetProcessed(r) == target[r].row.status = "PROCESSED"

ItemDirection(r) == DirectionFor(item[r].row.op.kind, target[r].row.op.kind)

ItemError(r) == OperationError(rwal[r], item[r].row.op, ItemDirection(r))

\* The reference is itself pending: nothing is written, retry_after included.
KeepWaiting(r) ==
    /\ rpc[r] = "wallet_locked"
    /\ ~TargetProcessed(r) /\ ~IsTerminal(target[r].row.status)
    /\ NextItem(r)
    /\ UNCHANGED <<wallets, txns, ledger, outbox, inbox, batch>>

\* The reference was rejected, or the wallet refuses the movement.
RejectItem(r) ==
    LET processed == TargetProcessed(r)
        row == IF processed THEN ResolveReference(item[r].row, target[r].id) ELSE item[r].row
        code == IF processed THEN ItemError(r) ELSE "REFERENCE_NOT_PROCESSABLE"
    IN /\ rpc[r] = "wallet_locked"
       /\ \/ ~processed /\ IsTerminal(target[r].row.status)
          \/ processed /\ ItemDirection(r) # "NONE" /\ ItemError(r) # None
       /\ UpdateTxn(item[r], MarkRejected(row, code))
       /\ outbox' = Append(outbox, Event("WagerTransactionRejected", item[r].id))
       /\ NextItem(r)
       /\ UNCHANGED <<wallets, ledger, inbox, batch>>

\* Mutant of ApplyItem: the row keeps the balance read before the movement.
ApplyItemOldBalance(r) ==
    LET c == item[r]
        w == c.row.op.wallet
        moved == Moved(rwal[r], c.row.op, ItemDirection(r))
    IN /\ rpc[r] = "wallet_locked"
       /\ TargetProcessed(r) /\ ItemDirection(r) # "NONE" /\ ItemError(r) = None
       /\ ~HasLedgerEntry(w, c.id)
       /\ UpdateWallet(w, moved)
       /\ UpdateTxn(c, MarkProcessed(ResolveReference(c.row, target[r].id), rwal[r].balance))
       /\ CreateLedgerEntry(w, NewLedgerEntry(c.id, rwal[r], c.row.op, ItemDirection(r)))
       /\ outbox' = Append(outbox, Event("WagerTransactionProcessed", c.id))
       /\ NextItem(r)
       /\ UNCHANGED <<inbox, batch>>

ApplyItem(r) ==
    LET c == item[r]
        w == c.row.op.wallet
        moved == Moved(rwal[r], c.row.op, ItemDirection(r))
    IN /\ rpc[r] = "wallet_locked"
       /\ TargetProcessed(r) /\ ItemDirection(r) # "NONE" /\ ItemError(r) = None
       /\ ~HasLedgerEntry(w, c.id)
       /\ UpdateWallet(w, moved)
       /\ UpdateTxn(c, MarkProcessed(ResolveReference(c.row, target[r].id), moved.balance))
       /\ CreateLedgerEntry(w, NewLedgerEntry(c.id, rwal[r], c.row.op, ItemDirection(r)))
       /\ outbox' = Append(outbox, Event("WagerTransactionProcessed", c.id))
       /\ NextItem(r)
       /\ UNCHANGED <<inbox, batch>>

\* DirectionFor fails, or the unique index refuses a second ledger entry: rolled back.
AbandonItem(r) ==
    /\ rpc[r] = "wallet_locked"
    /\ TargetProcessed(r)
    /\ \/ ItemDirection(r) = "NONE"
       \/ ItemError(r) = None /\ HasLedgerEntry(item[r].row.op.wallet, item[r].id)
    /\ NextItem(r)
    /\ UNCHANGED <<wallets, txns, ledger, outbox, inbox, batch>>

\* A statement fails: the item's transaction rolls back and the batch goes on.
AbortItem(r) ==
    /\ \/ rpc[r] # "idle" /\ batch' = batch
       \/ rpc[r] = "idle" /\ \E c \in batch[r] : batch' = [batch EXCEPT ![r] = @ \ {c}]
    /\ NextItem(r)
    /\ UNCHANGED <<wallets, txns, ledger, outbox, inbox>>

\* The process dies: what the batch still held is only picked up by a later batch.
CrashRetrier(r) ==
    /\ batch[r] # {} \/ rpc[r] # "idle"
    /\ batch' = [batch EXCEPT ![r] = {}]
    /\ NextItem(r)
    /\ UNCHANGED <<wallets, txns, ledger, outbox, inbox>>

HandleItem(r) ==
    \/ RejectExhausted(r)
    \/ ReadTarget(r)
    \/ PostponeRetry(r)
    \/ LockItemWallet(r)
    \/ KeepWaiting(r)
    \/ RejectItem(r)
    \/ ApplyItem(r)
    \/ AbandonItem(r)

RetrierStep(r) == FetchBatch(r) \/ HandleItem(r)

=============================================================================
