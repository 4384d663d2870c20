---------------------------- MODULE ProcessWager ----------------------------
(***************************************************************************)
(* ProcessWagerUseCase: handlers (HTTP requests and SQS messages) that     *)
(* accept a wager operation.  A handler's transaction is a sequence of     *)
(* statements; pc names the next one.                                      *)
(***************************************************************************)
EXTENDS WagerStore

CONSTANTS
    Handlers,     \* goroutines serving requests
    Requests      \* the requests clients may send

\* An SQS message, unlike an HTTP request, has a message id (msg # None).
ASSUME RequestsAssumption ==
    /\ Handlers \subseteq Processes
    /\ Requests \subseteq [msg : Messages \cup {None}, key : Keys, op : Operations]
    /\ \A q \in Requests : q.op.ext # None

VARIABLES
    pc,           \* the next statement of a handler
    req,          \* the request it serves, None when idle
    wal,          \* the wallet row it read under the lock
    ref,          \* the referenced row it read, with its id, or None
    reply,        \* what its last request was answered
    originals     \* every answer that is not a replay (history variable)

handlerVars == <<pc, req, wal, ref, reply, originals>>

HandlerStates == {"idle", "redelivered", "find_key", "find_external", "lock_wallet",
                  "read_reference", "decide", "recover"}

\* What Execute returns: a row's outcome, or txn = 0 and an error code in failure.
Replies ==
    [req : Requests, txn : Nat, status : Statuses \cup {"ERROR"},
     balance : Int \cup {None}, failure : Codes \cup {None}, replay : BOOLEAN]

HandlerInit ==
    /\ pc = [h \in Handlers |-> "idle"]
    /\ req = [h \in Handlers |-> None]
    /\ wal = [h \in Handlers |-> None]
    /\ ref = [h \in Handlers |-> None]
    /\ reply = [h \in Handlers |-> None]
    /\ originals = {}

HandlerTypeOK ==
    /\ pc \in [Handlers -> HandlerStates]
    /\ req \in [Handlers -> Requests \cup {None}]
    /\ wal \in [Handlers -> WalletRows \cup {None}]
    /\ ref \in [Handlers -> [id : Nat, row : Rows] \cup {None}]
    /\ reply \in [Handlers -> Replies \cup {None}]
    /\ originals \subseteq Replies

-----------------------------------------------------------------------------
(* Answers and the end of a transaction *)

Answer(q, id, row, balance, replay) ==
    [req |-> q, txn |-> id, status |-> row.status, balance |-> balance,
     failure |-> row.failure, replay |-> replay]

ErrorAnswer(q, code) ==
    [req |-> q, txn |-> 0, status |-> "ERROR", balance |-> None,
     failure |-> code, replay |-> FALSE]

\* Mutant of BuildReplayOutput: the balance of the wallet now, not of the original.
BuildReplayOutputNow(q, id) ==
    Answer(q, id, txns[id], wallets[txns[id].op.wallet].balance, TRUE)

\* A row without a result balance replays its own amount as the balance.
BuildReplayOutput(q, id) ==
    LET row == txns[id]
    IN Answer(q, id, row, IF row.result # None THEN row.result ELSE row.op.amount, TRUE)

\* The handler goes to state s and forgets what its transaction read.
EndTransaction(h, s) ==
    /\ pc' = [pc EXCEPT ![h] = s]
    /\ wal' = [wal EXCEPT ![h] = None]
    /\ ref' = [ref EXCEPT ![h] = None]
    /\ Unlock(h)

Finish(h, answer) ==
    /\ EndTransaction(h, "idle")
    /\ req' = [req EXCEPT ![h] = None]
    /\ reply' = [reply EXCEPT ![h] = answer]

\* Committing also commits the inbox row the transaction inserted.
CommitInbox(h) ==
    inbox' = IF req[h].msg = None THEN inbox ELSE inbox \cup {req[h].msg}

Fail(h, code) ==
    /\ Finish(h, ErrorAnswer(req[h], code))
    /\ UNCHANGED <<wallets, txns, ledger, outbox, inbox, originals>>

Replay(h, id) ==
    /\ Finish(h, BuildReplayOutput(req[h], id))
    /\ CommitInbox(h)
    /\ UNCHANGED <<wallets, txns, ledger, outbox, originals>>

GoTo(h, s) ==
    /\ pc' = [pc EXCEPT ![h] = s]
    /\ UNCHANGED <<storeVars, req, wal, ref, reply, originals>>

-----------------------------------------------------------------------------
(* Statements of a handler *)

\* An uncommitted inbox row of the same message makes the insert wait.
InboxRowInFlight(msg) ==
    \E g \in Handlers : pc[g] \notin {"idle", "recover"} /\ req[g].msg = msg

\* Mutant of Receive: the inbox row is committed on its own.
ReceiveAutocommits(h, q) ==
    /\ pc[h] = "idle"
    /\ q.op.kind # "OPENING"
    /\ pc' = [pc EXCEPT ![h] = IF q.msg \in inbox THEN "redelivered" ELSE "find_key"]
    /\ req' = [req EXCEPT ![h] = q]
    /\ reply' = [reply EXCEPT ![h] = None]
    /\ inbox' = inbox \cup ({q.msg} \cap Messages)
    /\ UNCHANGED <<wallets, txns, ledger, outbox, walletLock, wal, ref, originals>>

\* Begin the transaction and, for SQS, insert the inbox row if it is absent.
Receive(h, q) ==
    /\ pc[h] = "idle"
    /\ q.op.kind # "OPENING"
    /\ q.msg \in Messages \ inbox => ~InboxRowInFlight(q.msg)
    /\ pc' = [pc EXCEPT ![h] = IF q.msg \in inbox THEN "redelivered" ELSE "find_key"]
    /\ req' = [req EXCEPT ![h] = q]
    /\ reply' = [reply EXCEPT ![h] = None]
    /\ UNCHANGED <<storeVars, wal, ref, originals>>

RefuseOpening(h, q) ==
    /\ pc[h] = "idle"
    /\ q.op.kind = "OPENING"
    /\ reply' = [reply EXCEPT ![h] = ErrorAnswer(q, "OPENING_FORBIDDEN")]
    /\ UNCHANGED <<storeVars, pc, req, wal, ref, originals>>

\* A redelivered message is answered from its row without comparing hashes.
ReplayRedelivered(h) ==
    /\ pc[h] = "redelivered"
    /\ \/ \E i \in GetByIdempotencyKey(req[h].key) : Replay(h, i)
       \/ GetByIdempotencyKey(req[h].key) = {} /\ GoTo(h, "find_key")

\* Mutant of FindByKey: the payload of the row found is not compared.
FindByKeyAnyPayload(h) ==
    /\ pc[h] = "find_key"
    /\ \/ \E i \in GetByIdempotencyKey(req[h].key) : Replay(h, i)
       \/ GetByIdempotencyKey(req[h].key) = {} /\ GoTo(h, "find_external")

FindByKey(h) ==
    /\ pc[h] = "find_key"
    /\ \/ \E i \in GetByIdempotencyKey(req[h].key) :
              IF txns[i].op = req[h].op THEN Replay(h, i) ELSE Fail(h, "PAYLOAD_CONFLICT")
       \/ GetByIdempotencyKey(req[h].key) = {} /\ GoTo(h, "find_external")

\* The row may carry the same key when it was committed after FindByKey looked.
FindByExternal(h) ==
    /\ pc[h] = "find_external"
    /\ \/ \E i \in GetByProviderAndExternalID(req[h].op.ext) :
              IF txns[i].key = req[h].key /\ txns[i].op = req[h].op
              THEN Replay(h, i)
              ELSE Fail(h, "PAYLOAD_CONFLICT")
       \/ GetByProviderAndExternalID(req[h].op.ext) = {} /\ GoTo(h, "lock_wallet")

\* The checks between the lock and the decision.
IntakeError(w, op) ==
    IF w.player # op.player THEN "INVALID_INPUT"
    ELSE IF w.currency # op.currency THEN "CURRENCY_MISMATCH"
    ELSE NewExternalError(op)

\* SELECT ... FOR UPDATE waits for the holder; a failing check rolls back, releasing it.
LockWallet(h) ==
    LET op == req[h].op
    IN /\ pc[h] = "lock_wallet"
       /\ \/ wallets[op.wallet] = None /\ Fail(h, "WALLET_NOT_FOUND")
          \/ /\ CanLock(op.wallet)
             /\ IntakeError(wallets[op.wallet], op) # None
             /\ Fail(h, IntakeError(wallets[op.wallet], op))
          \/ /\ CanLock(op.wallet)
             /\ IntakeError(wallets[op.wallet], op) = None
             /\ Lock(op.wallet, h)
             /\ wal' = [wal EXCEPT ![h] = wallets[op.wallet]]
             /\ pc' = [pc EXCEPT ![h] =
                          IF RequiresReference(op.kind) THEN "read_reference" ELSE "decide"]
             /\ UNCHANGED <<wallets, txns, ledger, outbox, inbox, req, ref, reply, originals>>

ReadReference(h) ==
    LET found == GetByProviderAndExternalID(req[h].op.ref)
    IN /\ pc[h] = "read_reference"
       /\ \/ \E i \in found : ref' = [ref EXCEPT ![h] = [id |-> i, row |-> txns[i]]]
          \/ found = {} /\ ref' = ref
       /\ pc' = [pc EXCEPT ![h] = "decide"]
       /\ UNCHANGED <<storeVars, req, wal, reply, originals>>

-----------------------------------------------------------------------------
(* The decision, on what was read *)

\* Mutant of ReferenceError: the amounts are not compared.
ReferenceErrorAnyAmount(op, row) ==
    IF row.status # "PROCESSED" THEN "REFERENCE_NOT_PROCESSABLE"
    ELSE IF row.op.player # op.player \/ row.op.wallet # op.wallet THEN "INVALID_INPUT"
    ELSE IF row.op.currency # op.currency THEN "CURRENCY_MISMATCH"
    ELSE IF row.op.round # op.round THEN "INVALID_INPUT"
    ELSE IF op.kind = "REFUND" /\ row.op.kind # "BET" THEN "INVALID_INPUT"
    ELSE None

ReferenceError(op, row) ==
    IF row.status # "PROCESSED" THEN "REFERENCE_NOT_PROCESSABLE"
    ELSE IF row.op.player # op.player \/ row.op.wallet # op.wallet THEN "INVALID_INPUT"
    ELSE IF row.op.currency # op.currency THEN "CURRENCY_MISMATCH"
    ELSE IF row.op.round # op.round \/ row.op.amount # op.amount THEN "INVALID_INPUT"
    ELSE IF op.kind = "REFUND" /\ row.op.kind # "BET" THEN "INVALID_INPUT"
    ELSE None

\* Mutant of MustWait: a refund goes ahead without its bet.
MustWaitRollback(h) == req[h].op.kind = "ROLLBACK" /\ ref[h] = None

MustWait(h) == RequiresReference(req[h].op.kind) /\ ref[h] = None

ReferenceRefused(h) == ref[h] # None /\ ReferenceError(req[h].op, ref[h].row) # None

Direction(h) ==
    DirectionFor(req[h].op.kind, IF ref[h] = None THEN None ELSE ref[h].row.op.kind)

Unsupported(h) == req[h].op.kind = "ROLLBACK" /\ Direction(h) = "NONE"

Rejection(h) ==
    IF ReferenceRefused(h) THEN ReferenceError(req[h].op, ref[h].row)
    ELSE IF req[h].op.kind = "LOSS" THEN None
    ELSE OperationError(wal[h], req[h].op, Direction(h))

Resolved(h, row) == IF ref[h] = None THEN row ELSE ResolveReference(row, ref[h].id)

\* INSERT the new row with its events, commit and answer.
CommitNew(h, row, balance, events) ==
    LET answer == Answer(req[h], Len(txns) + 1, row, balance, FALSE)
    IN /\ ~Duplicate(req[h].key, req[h].op.ext)
       /\ txns' = Append(txns, row)
       /\ outbox' = outbox \o events
       /\ originals' = originals \cup {answer}
       /\ CommitInbox(h)
       /\ Finish(h, answer)

PersistPending(h) ==
    /\ pc[h] = "decide"
    /\ MustWait(h)
    /\ CommitNew(h, MarkPendingReference(NewTransaction(req[h].key, req[h].op)),
                 wal[h].balance,
                 <<Event("WagerTransactionPendingReference", Len(txns) + 1)>>)
    /\ UNCHANGED <<wallets, ledger>>

\* A reversal refused by validateReference does not keep the id it resolved.
PersistRejected(h) ==
    LET row == NewTransaction(req[h].key, req[h].op)
    IN /\ pc[h] = "decide"
       /\ ~MustWait(h)
       /\ ReferenceRefused(h) \/ ~Unsupported(h)
       /\ Rejection(h) # None
       /\ CommitNew(h, MarkRejected(IF ReferenceRefused(h) THEN row ELSE Resolved(h, row),
                                    Rejection(h)),
                    wal[h].balance,
                    <<Event("WagerTransactionRejected", Len(txns) + 1)>>)
       /\ UNCHANGED <<wallets, ledger>>

PersistLoss(h) ==
    /\ pc[h] = "decide"
    /\ req[h].op.kind = "LOSS"
    /\ CommitNew(h, MarkProcessed(NewTransaction(req[h].key, req[h].op), wal[h].balance),
                 wal[h].balance,
                 <<Event("WagerTransactionProcessed", Len(txns) + 1)>>)
    /\ UNCHANGED <<wallets, ledger>>

\* Mutant of PersistProcessed: the event announces the version before the movement.
PersistProcessedOldVersion(h) ==
    LET op == req[h].op
        id == Len(txns) + 1
        moved == Moved(wal[h], op, Direction(h))
    IN /\ pc[h] = "decide"
       /\ ~MustWait(h) /\ ~Unsupported(h) /\ op.kind # "LOSS"
       /\ Rejection(h) = None
       /\ CommitNew(h, MarkProcessed(Resolved(h, NewTransaction(req[h].key, op)), moved.balance),
                    moved.balance,
                    <<BalanceChanged(id, wal[h].version), Event("WagerTransactionProcessed", id)>>)
       /\ UpdateWallet(op.wallet, moved)
       /\ CreateLedgerEntry(op.wallet, NewLedgerEntry(id, wal[h], op, Direction(h)))

PersistProcessed(h) ==
    LET op == req[h].op
        id == Len(txns) + 1
        moved == Moved(wal[h], op, Direction(h))
    IN /\ pc[h] = "decide"
       /\ ~MustWait(h) /\ ~Unsupported(h) /\ op.kind # "LOSS"
       /\ Rejection(h) = None
       /\ CommitNew(h, MarkProcessed(Resolved(h, NewTransaction(req[h].key, op)), moved.balance),
                    moved.balance,
                    <<BalanceChanged(id, moved.version), Event("WagerTransactionProcessed", id)>>)
       /\ UpdateWallet(op.wallet, moved)
       /\ CreateLedgerEntry(op.wallet, NewLedgerEntry(id, wal[h], op, Direction(h)))

\* DirectionFor returns an error for a ROLLBACK of a LOSS or of a ROLLBACK.
FailUnsupported(h) ==
    /\ pc[h] = "decide"
    /\ ~MustWait(h) /\ ~ReferenceRefused(h) /\ Unsupported(h)
    /\ Fail(h, "UNSUPPORTED_ROLLBACK")

\* SQLSTATE 23505: a concurrent handler committed the key or the external id first.
LoseInsertRace(h) ==
    /\ pc[h] = "decide"
    /\ MustWait(h) \/ ReferenceRefused(h) \/ ~Unsupported(h)
    /\ Duplicate(req[h].key, req[h].op.ext)
    /\ EndTransaction(h, "recover")
    /\ UNCHANGED <<wallets, txns, ledger, outbox, inbox, req, reply, originals>>

\* A new transaction reads the winner; it writes nothing, the inbox row included.
\* On a conflict the caller gets the original error, DUPLICATE_OPERATION.
RecoverDuplicate(h) ==
    LET byKey == GetByIdempotencyKey(req[h].key)
        found == IF byKey # {} THEN byKey ELSE GetByProviderAndExternalID(req[h].op.ext)
    IN /\ pc[h] = "recover"
       /\ \E i \in found :
              IF txns[i].key = req[h].key /\ txns[i].op = req[h].op
              THEN Finish(h, BuildReplayOutput(req[h], i))
              ELSE Finish(h, ErrorAnswer(req[h], "DUPLICATE_OPERATION"))
       /\ UNCHANGED <<wallets, txns, ledger, outbox, inbox, originals>>

\* The process dies, the context expires or a statement fails: the transaction rolls back.
AbortHandler(h) ==
    /\ pc[h] # "idle"
    /\ EndTransaction(h, "idle")
    /\ req' = [req EXCEPT ![h] = None]
    /\ UNCHANGED <<wallets, txns, ledger, outbox, inbox, reply, originals>>

HandlerStep(h) ==
    \/ ReplayRedelivered(h)
    \/ FindByKey(h)
    \/ FindByExternal(h)
    \/ LockWallet(h)
    \/ ReadReference(h)
    \/ PersistPending(h)
    \/ PersistRejected(h)
    \/ PersistLoss(h)
    \/ PersistProcessed(h)
    \/ FailUnsupported(h)
    \/ LoseInsertRace(h)
    \/ RecoverDuplicate(h)

=============================================================================
