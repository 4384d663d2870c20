----------------------------- MODULE WagerStore -----------------------------
(***************************************************************************)
(* The PostgreSQL tables that the use cases share and the row lock of a    *)
(* wallet.  Every use case runs in one READ COMMITTED transaction: each of *)
(* its statements reads the rows committed by then, and its own writes     *)
(* appear when it commits.  A use case writes last, while it holds the     *)
(* locks it needs, so its writes and its commit are one step here, and a   *)
(* rollback is a step that changes no table.                               *)
(*                                                                         *)
(* A row's id is its position in txns.                                     *)
(***************************************************************************)
EXTENDS WagerDomain

CONSTANTS
    Processes,    \* the goroutines that run use cases
    Nobody,       \* the holder of a free lock
    Messages      \* SQS message ids

ASSUME NobodyAssumption == Nobody \notin Processes

VARIABLES
    wallets,      \* wallet id -> committed row, or None
    txns,         \* committed rows of wager_transactions
    ledger,       \* wallet id -> its committed ledger entries
    outbox,       \* committed outbox events, in commit order
    inbox,        \* ids of the SQS messages of committed transactions
    walletLock    \* wallet id -> the process whose transaction holds FOR UPDATE

storeVars == <<wallets, txns, ledger, outbox, inbox, walletLock>>

EventTypes == {"WagerTransactionProcessed", "WagerTransactionRejected",
               "WagerTransactionPendingReference", "WalletBalanceChanged"}

\* version is the wallet's version in WalletBalanceChanged, 0 in the other events.
Events == [type : EventTypes, txn : Nat, version : Nat]

StoreInit ==
    /\ wallets = [w \in Wallets |-> None]
    /\ txns = <<>>
    /\ ledger = [w \in Wallets |-> <<>>]
    /\ outbox = <<>>
    /\ inbox = {}
    /\ walletLock = [w \in Wallets |-> Nobody]

StoreTypeOK ==
    /\ wallets \in [Wallets -> WalletRows \cup {None}]
    /\ txns \in Seq(Rows)
    /\ ledger \in [Wallets -> Seq(LedgerEntries)]
    /\ outbox \in Seq(Events)
    /\ inbox \subseteq Messages
    /\ walletLock \in [Wallets -> Processes \cup {Nobody}]

-----------------------------------------------------------------------------
(* Queries *)

TxnIds == DOMAIN txns

GetByIdempotencyKey(key) == {i \in TxnIds : txns[i].key = key}

GetByProviderAndExternalID(ext) == {i \in TxnIds : txns[i].op.ext = ext}

\* Mutant of GetPendingReferences: refused rows are read as well.
GetPendingReferencesRefused ==
    {i \in TxnIds : txns[i].status \in {"PENDING_REFERENCE", "REJECTED"}}

GetPendingReferences == {i \in TxnIds : txns[i].status = "PENDING_REFERENCE"}

\* Mutant of Duplicate: no unique index on the external id.
DuplicateKeyOnly(key, ext) == GetByIdempotencyKey(key) # {}

\* The unique indexes of wager_transactions; NULL keys and external ids never collide.
Duplicate(key, ext) ==
    GetByIdempotencyKey(key) # {} \/ GetByProviderAndExternalID(ext) # {}

\* The unique index (wallet, transaction) of the ledger.
HasLedgerEntry(w, id) == \E k \in DOMAIN ledger[w] : ledger[w][k].txn = id

\* Mutant of CanLock: the wallet is read without FOR UPDATE.
CanLockHeld(w) == wallets[w] # None

\* The lock is granted only when the row exists and nobody holds it.
CanLock(w) == wallets[w] # None /\ walletLock[w] = Nobody

-----------------------------------------------------------------------------
(* Statements *)

Lock(w, p) == walletLock' = [walletLock EXCEPT ![w] = p]

\* A commit or a rollback releases every lock of the transaction.
Unlock(p) ==
    walletLock' = [w \in Wallets |-> IF walletLock[w] = p THEN Nobody ELSE walletLock[w]]

Event(type, id) == [type |-> type, txn |-> id, version |-> 0]

BalanceChanged(id, version) ==
    [type |-> "WalletBalanceChanged", txn |-> id, version |-> version]

UpdateWallet(w, row) == wallets' = [wallets EXCEPT ![w] = row]

CreateLedgerEntry(w, entry) == ledger' = [ledger EXCEPT ![w] = Append(@, entry)]

=============================================================================
