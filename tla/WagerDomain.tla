---------------------------- MODULE WagerDomain ----------------------------
(***************************************************************************)
(* The domain rules of the wager service, without state: kinds, statuses,  *)
(* the direction of a movement, the checks on a request, the arithmetic of *)
(* a wallet and the transitions of a transaction row.                      *)
(*                                                                         *)
(* An operation is the business payload of a request.  Its SHA-256 over    *)
(* the canonical fields is represented by the operation itself: two hashes *)
(* are equal exactly when the operations are.  An external id stands for   *)
(* the pair (providerId, externalTransactionId).                           *)
(***************************************************************************)
EXTENDS Integers, Sequences

CONSTANTS
    Wallets,      \* wallet ids
    Players,      \* player ids
    Currencies,   \* ISO codes
    Keys,         \* idempotency keys
    ExternalIds,  \* (provider, external transaction id) pairs
    Rounds,       \* round ids
    MaxCents,     \* largest amount in cents the money type holds (int64)
    None          \* a nil pointer, or an SQL NULL

ASSUME MaxCentsAssumption == MaxCents \in Nat \ {0}

Kinds == {"OPENING", "BET", "WIN", "LOSS", "REFUND", "ROLLBACK"}

RequiresReference(kind) == kind \in {"REFUND", "ROLLBACK"}

Statuses == {"PENDING", "PENDING_REFERENCE", "PROCESSED", "REJECTED", "FAILED"}

IsTerminal(status) == status \in {"PROCESSED", "REJECTED", "FAILED"}

Codes == {"INVALID_INPUT", "INVALID_MONEY", "INVALID_AMOUNT", "CURRENCY_MISMATCH",
          "INSUFFICIENT_FUNDS", "ROLLBACK_INSUFFICIENT_FUNDS", "OPENING_FORBIDDEN",
          "REFERENCE_NOT_FOUND", "REFERENCE_NOT_PROCESSABLE", "PAYLOAD_CONFLICT",
          "DUPLICATE_OPERATION", "WALLET_NOT_FOUND", "UNSUPPORTED_ROLLBACK"}

\* What a provider or an opening asks for.  An opening has no provider fields.
Operations ==
    [ext : ExternalIds \cup {None}, wallet : Wallets, player : Players,
     round : Rounds \cup {None}, kind : Kinds, amount : Int,
     currency : Currencies, ref : ExternalIds \cup {None}]

WalletRows == [player : Players, currency : Currencies, balance : Nat, version : Nat]

\* A row of wager_transactions; reference is the id of the resolved row, 0 for NULL.
Rows ==
    [key : Keys \cup {None}, op : Operations, status : Statuses, retryCount : Nat,
     result : Nat \cup {None}, failure : Codes \cup {None}, reference : Nat]

Directions == {"DEBIT", "CREDIT"}

LedgerEntries ==
    [txn : Nat, direction : Directions, amount : Nat, before : Nat, after : Nat]

\* NULL is neither a code, nor a row, nor a number.
ASSUME NoneAssumption == None \notin Codes /\ None \notin WalletRows /\ None \notin Int

\* ... nor a key: a request without one is refused before it reaches the use case.
ASSUME KeysAssumption == None \notin Keys

-----------------------------------------------------------------------------
(* Movements *)

\* "NONE" stands for the error of an unsupported kind, and for LOSS, which moves nothing.
DirectionFor(kind, referencedKind) ==
    IF \/ kind = "BET"
       \/ kind = "ROLLBACK" /\ referencedKind \in {"WIN", "REFUND"}
    THEN "DEBIT"
    ELSE IF \/ kind \in {"WIN", "REFUND", "OPENING"}
            \/ kind = "ROLLBACK" /\ referencedKind = "BET"
         THEN "CREDIT"
         ELSE "NONE"

\* Mutant of OperationError: a debit does not look at the balance.
OperationErrorOverdraws(w, op, direction) ==
    IF op.currency # w.currency THEN "CURRENCY_MISMATCH"
    ELSE IF op.amount <= 0 THEN "INVALID_AMOUNT"
    ELSE IF direction = "CREDIT" /\ w.balance > MaxCents - op.amount THEN "INSUFFICIENT_FUNDS"
    ELSE None

\* Mutant of OperationError: a credit does not look at the largest amount.
OperationErrorOverflows(w, op, direction) ==
    IF op.currency # w.currency THEN "CURRENCY_MISMATCH"
    ELSE IF op.amount <= 0 THEN "INVALID_AMOUNT"
    ELSE IF direction = "DEBIT" /\ w.balance < op.amount
         THEN IF op.kind = "BET" THEN "INSUFFICIENT_FUNDS" ELSE "ROLLBACK_INSUFFICIENT_FUNDS"
    ELSE None

\* The failure code of Wallet.Credit, Debit and DebitForRollback, None when they succeed.
\* Money.Add's overflow is no domain error; the use cases report it as INSUFFICIENT_FUNDS.
OperationError(w, op, direction) ==
    IF op.currency # w.currency THEN "CURRENCY_MISMATCH"
    ELSE IF op.amount <= 0 THEN "INVALID_AMOUNT"
    ELSE IF direction = "CREDIT" /\ w.balance > MaxCents - op.amount THEN "INSUFFICIENT_FUNDS"
    ELSE IF direction = "DEBIT" /\ w.balance < op.amount
         THEN IF op.kind = "BET" THEN "INSUFFICIENT_FUNDS" ELSE "ROLLBACK_INSUFFICIENT_FUNDS"
    ELSE None

BalanceAfter(w, op, direction) ==
    IF direction = "DEBIT" THEN w.balance - op.amount ELSE w.balance + op.amount

\* Mutant of Moved: only a debit counts as a new version.
MovedKeepsVersion(w, op, direction) ==
    [w EXCEPT !.balance = BalanceAfter(w, op, direction),
              !.version = IF direction = "DEBIT" THEN @ + 1 ELSE @]

\* The wallet after a successful Credit, Debit or DebitForRollback.
Moved(w, op, direction) ==
    [w EXCEPT !.balance = BalanceAfter(w, op, direction), !.version = @ + 1]

NewLedgerEntry(id, w, op, direction) ==
    [txn |-> id, direction |-> direction, amount |-> op.amount,
     before |-> w.balance, after |-> BalanceAfter(w, op, direction)]

-----------------------------------------------------------------------------
(* Requests and transaction rows *)

\* The amount is zero for a LOSS and positive for every other kind.
ValidateExternalMoney(op) ==
    IF op.kind = "LOSS" /\ op.amount # 0 THEN "INVALID_MONEY"
    ELSE IF op.kind # "LOSS" /\ op.amount <= 0 THEN "INVALID_AMOUNT"
    ELSE None

\* The checks of NewExternal that depend on more than the presence of a field.
NewExternalError(op) ==
    IF ValidateExternalMoney(op) # None THEN ValidateExternalMoney(op)
    ELSE IF RequiresReference(op.kind) /\ op.ref = None THEN "INVALID_INPUT"
    ELSE None

NewTransaction(key, op) ==
    [key |-> key, op |-> op, status |-> "PENDING", retryCount |-> 0,
     result |-> None, failure |-> None, reference |-> 0]

MarkProcessed(row, balance) == [row EXCEPT !.status = "PROCESSED", !.result = balance]

MarkRejected(row, code) == [row EXCEPT !.status = "REJECTED", !.failure = code]

MarkPendingReference(row) ==
    [row EXCEPT !.status = "PENDING_REFERENCE", !.retryCount = @ + 1]

IncrementRetry(row) == [row EXCEPT !.retryCount = @ + 1]

ResolveReference(row, id) == [row EXCEPT !.reference = id]

=============================================================================
