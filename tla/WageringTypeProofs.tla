------------------------- MODULE WageringTypeProofs -------------------------
(***************************************************************************)
(* Type correctness of Wagering, for every value of its constants.         *)
(***************************************************************************)
EXTENDS Wagering, SequenceTheorems, TLAPS

-----------------------------------------------------------------------------
(* The domain's operators *)

\* A movement that no check refuses leaves a balance that is not negative.
LEMMA MovementType ==
    ASSUME NEW w \in WalletRows, NEW op \in Operations, NEW d \in Directions,
           NEW id \in Nat, OperationError(w, op, d) = None
    PROVE  /\ BalanceAfter(w, op, d) \in Nat
           /\ Moved(w, op, d) \in WalletRows
           /\ Moved(w, op, d).balance = BalanceAfter(w, op, d)
           /\ Moved(w, op, d).version \in Nat
           /\ NewLedgerEntry(id, w, op, d) \in LedgerEntries
<1>1. /\ w.balance \in Nat /\ w.version \in Nat
      /\ op.amount \in Int
  BY DEF WalletRows, Operations
<1>2. /\ op.amount > 0
      /\ d = "DEBIT" => w.balance >= op.amount
  BY <1>1, NoneAssumption DEF OperationError, Codes
<1>3. BalanceAfter(w, op, d) \in Nat
  BY <1>1, <1>2 DEF BalanceAfter
<1>4. /\ Moved(w, op, d) \in WalletRows
      /\ Moved(w, op, d).balance = BalanceAfter(w, op, d)
      /\ Moved(w, op, d).version \in Nat
  <2>1. PICK b \in Nat : b = BalanceAfter(w, op, d)
    BY <1>3
  <2>2. PICK v \in Nat : v = w.version + 1
    BY <1>1
  <2>3. Moved(w, op, d) = [w EXCEPT !.balance = b, !.version = v]
    BY <2>1, <2>2 DEF Moved
  <2>4. /\ [w EXCEPT !.balance = b, !.version = v] \in WalletRows
        /\ [w EXCEPT !.balance = b, !.version = v].balance = b
        /\ [w EXCEPT !.balance = b, !.version = v].version = v
    BY DEF WalletRows
  <2>. QED
    BY <2>1, <2>2, <2>3, <2>4
<1>5. NewLedgerEntry(id, w, op, d) \in LedgerEntries
  BY <1>1, <1>2, <1>3 DEF NewLedgerEntry, LedgerEntries
<1>. QED
  BY <1>3, <1>4, <1>5

LEMMA OperationErrorType ==
    ASSUME NEW w, NEW op, NEW d
    PROVE  OperationError(w, op, d) \in Codes \cup {None}
BY DEF OperationError, Codes

LEMMA RowType ==
    ASSUME NEW row \in Rows
    PROVE  /\ \A balance \in Nat : MarkProcessed(row, balance) \in Rows
           /\ \A code \in Codes : MarkRejected(row, code) \in Rows
           /\ MarkPendingReference(row) \in Rows
           /\ IncrementRetry(row) \in Rows
           /\ \A id \in Nat : ResolveReference(row, id) \in Rows
<1>1. \A balance \in Nat : MarkProcessed(row, balance) \in Rows
  BY DEF Rows, Statuses, MarkProcessed
<1>2. \A code \in Codes : MarkRejected(row, code) \in Rows
  BY DEF Rows, Statuses, MarkRejected
<1>3. MarkPendingReference(row) \in Rows
  <2>1. row.retryCount + 1 \in Nat
    BY DEF Rows
  <2>. QED
    BY <2>1 DEF Rows, Statuses, MarkPendingReference
<1>4. IncrementRetry(row) \in Rows
  BY DEF Rows, IncrementRetry
<1>5. \A id \in Nat : ResolveReference(row, id) \in Rows
  BY DEF Rows, ResolveReference
<1>. QED
  BY <1>1, <1>2, <1>3, <1>4, <1>5

LEMMA NewTransactionType ==
    ASSUME NEW key \in Keys \cup {None}, NEW op \in Operations
    PROVE  NewTransaction(key, op) \in Rows
BY DEF NewTransaction, Rows, Statuses

LEMMA UpdateType ==
    ASSUME NEW S, NEW s \in Seq(S), NEW i, NEW e \in S
    PROVE  [s EXCEPT ![i] = e] \in Seq(S)
<1>1. CASE i \in 1 .. Len(s)
  BY <1>1, ExceptSeq
<1>2. CASE i \notin 1 .. Len(s)
  BY <1>2, LenProperties
<1>. QED
  BY <1>1, <1>2

-----------------------------------------------------------------------------
(* Answers and events *)

LEMMA RequestType ==
    ASSUME NEW q \in Requests
    PROVE  /\ q.msg \in Messages \cup {None}
           /\ q.key \in Keys
           /\ q.op \in Operations
           /\ q.op.wallet \in Wallets
           /\ q.op.amount \in Int
           /\ q.op.kind \in Kinds
BY RequestsAssumption DEF Operations

LEMMA AnswerType ==
    ASSUME NEW q \in Requests, NEW id \in Nat, NEW row \in Rows,
           NEW balance \in Int \cup {None}, NEW replay \in BOOLEAN
    PROVE  Answer(q, id, row, balance, replay) \in Replies
BY DEF Answer, Replies, Rows

LEMMA ErrorAnswerType ==
    ASSUME NEW q \in Requests, NEW code \in Codes
    PROVE  ErrorAnswer(q, code) \in Replies
BY DEF ErrorAnswer, Replies

LEMMA ReplayOutputType ==
    ASSUME StoreTypeOK, NEW q \in Requests, NEW id \in TxnIds
    PROVE  BuildReplayOutput(q, id) \in Replies
<1>1. id \in Nat /\ txns[id] \in Rows
  BY ElementOfSeq, LenProperties DEF TxnIds, StoreTypeOK
<1>2. /\ txns[id].result \in Nat \cup {None}
      /\ txns[id].op.amount \in Int
  BY <1>1 DEF Rows, Operations
<1>3. (IF txns[id].result # None THEN txns[id].result ELSE txns[id].op.amount) \in Int \cup {None}
  BY <1>2
<1>. QED
  BY <1>1, <1>3, AnswerType DEF BuildReplayOutput

LEMMA ReferenceErrorType ==
    ASSUME NEW op, NEW row
    PROVE  ReferenceError(op, row) \in Codes \cup {None}
BY DEF ReferenceError, Codes

LEMMA IntakeErrorType ==
    ASSUME NEW w, NEW op
    PROVE  IntakeError(w, op) \in Codes \cup {None}
BY DEF IntakeError, NewExternalError, ValidateExternalMoney, Codes

LEMMA EventType ==
    ASSUME NEW type \in EventTypes, NEW id \in Nat, NEW version \in Nat
    PROVE  Event(type, id) \in Events /\ BalanceChanged(id, version) \in Events
BY DEF Event, BalanceChanged, Events, EventTypes

-----------------------------------------------------------------------------
(* What a statement may rely on besides the types: a handler in a transaction has a      *)
(* request, and the rows that the earlier statements read are there.                     *)

HandlerControl ==
    \A h \in Handlers :
        /\ pc[h] # "idle" => req[h] \in Requests
        /\ pc[h] \in {"read_reference", "decide"} => wal[h] \in WalletRows

RetrierControl ==
    \A r \in Retriers :
        /\ rpc[r] # "idle" => item[r] \in Copies
        /\ rpc[r] = "wallet_locked" => target[r] \in Copies /\ rwal[r] \in WalletRows

TypeInv == TypeOK /\ HandlerControl /\ RetrierControl

-----------------------------------------------------------------------------
(* The ends of a handler's transaction *)

LEMMA EndTransactionType ==
    ASSUME StoreTypeOK, HandlerTypeOK, NEW h \in Handlers, NEW s \in HandlerStates,
           EndTransaction(h, s)
    PROVE  /\ pc' \in [Handlers -> HandlerStates]
           /\ wal' \in [Handlers -> WalletRows \cup {None}]
           /\ ref' \in [Handlers -> [id : Nat, row : Rows] \cup {None}]
           /\ walletLock' \in [Wallets -> Processes \cup {Nobody}]
<1>1. pc' \in [Handlers -> HandlerStates]
  BY DEF EndTransaction, HandlerTypeOK
<1>2. wal' \in [Handlers -> WalletRows \cup {None}]
  BY DEF EndTransaction, HandlerTypeOK
<1>3. ref' \in [Handlers -> [id : Nat, row : Rows] \cup {None}]
  BY DEF EndTransaction, HandlerTypeOK
<1>4. walletLock' \in [Wallets -> Processes \cup {Nobody}]
  BY DEF EndTransaction, Unlock, StoreTypeOK
<1>. QED
  BY <1>1, <1>2, <1>3, <1>4

\* What Finish leaves to prove is what its caller does to the tables and to originals.
LEMMA FinishType ==
    ASSUME StoreTypeOK, HandlerTypeOK, HandlerControl, NEW h \in Handlers,
           NEW answer \in Replies, Finish(h, answer)
    PROVE  /\ walletLock' \in [Wallets -> Processes \cup {Nobody}]
           /\ originals' \subseteq Replies => HandlerTypeOK'
           /\ HandlerControl'
<1>1. /\ pc' \in [Handlers -> HandlerStates]
      /\ wal' \in [Handlers -> WalletRows \cup {None}]
      /\ ref' \in [Handlers -> [id : Nat, row : Rows] \cup {None}]
      /\ walletLock' \in [Wallets -> Processes \cup {Nobody}]
  BY EndTransactionType DEF Finish, HandlerStates
<1>2. req' \in [Handlers -> Requests \cup {None}]
  BY DEF Finish, HandlerTypeOK
<1>3. reply' \in [Handlers -> Replies \cup {None}]
  BY DEF Finish, HandlerTypeOK
<1>4. originals' \subseteq Replies => HandlerTypeOK'
  BY <1>1, <1>2, <1>3 DEF HandlerTypeOK
<1>5. HandlerControl'
  BY DEF HandlerControl, HandlerTypeOK, Finish, EndTransaction
<1>. QED
  BY <1>1, <1>4, <1>5

LEMMA CommitInboxType ==
    ASSUME StoreTypeOK, NEW h \in Handlers, req[h] \in Requests, CommitInbox(h)
    PROVE  inbox' \subseteq Messages
BY RequestType DEF StoreTypeOK, CommitInbox

LEMMA FailType ==
    ASSUME StoreTypeOK, HandlerTypeOK, HandlerControl, NEW h \in Handlers,
           req[h] \in Requests, NEW code \in Codes, Fail(h, code)
    PROVE  StoreTypeOK' /\ HandlerTypeOK' /\ HandlerControl'
<1>1. ErrorAnswer(req[h], code) \in Replies
  BY ErrorAnswerType
<1>2. /\ walletLock' \in [Wallets -> Processes \cup {Nobody}]
      /\ HandlerTypeOK' /\ HandlerControl'
  BY <1>1, FinishType DEF Fail, HandlerTypeOK
<1>. QED
  BY <1>2 DEF Fail, StoreTypeOK

LEMMA ReplayType ==
    ASSUME StoreTypeOK, HandlerTypeOK, HandlerControl, NEW h \in Handlers,
           req[h] \in Requests, NEW id \in TxnIds, Replay(h, id)
    PROVE  StoreTypeOK' /\ HandlerTypeOK' /\ HandlerControl'
<1>1. BuildReplayOutput(req[h], id) \in Replies
  BY ReplayOutputType
<1>2. /\ walletLock' \in [Wallets -> Processes \cup {Nobody}]
      /\ HandlerTypeOK' /\ HandlerControl'
  BY <1>1, FinishType DEF Replay, HandlerTypeOK
<1>3. inbox' \subseteq Messages
  BY CommitInboxType DEF Replay
<1>. QED
  BY <1>2, <1>3 DEF Replay, StoreTypeOK

LEMMA CommitNewType ==
    ASSUME StoreTypeOK, HandlerTypeOK, HandlerControl, NEW h \in Handlers,
           req[h] \in Requests, NEW row \in Rows, NEW balance \in Nat,
           NEW events \in Seq(Events), CommitNew(h, row, balance, events)
    PROVE  /\ txns' \in Seq(Rows)
           /\ outbox' \in Seq(Events)
           /\ inbox' \subseteq Messages
           /\ walletLock' \in [Wallets -> Processes \cup {Nobody}]
           /\ HandlerTypeOK' /\ HandlerControl'
<1>1. Len(txns) + 1 \in Nat
  BY LenProperties DEF StoreTypeOK
<1>2. PICK answer \in Replies : answer = Answer(req[h], Len(txns) + 1, row, balance, FALSE)
  <2>1. balance \in Int \cup {None} /\ FALSE \in BOOLEAN
    OBVIOUS
  <2>2. Answer(req[h], Len(txns) + 1, row, balance, FALSE) \in Replies
    BY <1>1, <2>1, AnswerType
  <2>. QED
    BY <2>2
<1>3. originals' \subseteq Replies
  BY <1>2 DEF CommitNew, HandlerTypeOK
<1>4. /\ walletLock' \in [Wallets -> Processes \cup {Nobody}]
      /\ HandlerTypeOK' /\ HandlerControl'
  BY <1>2, <1>3, FinishType DEF CommitNew
<1>5. txns' \in Seq(Rows)
  BY AppendProperties DEF CommitNew, StoreTypeOK
<1>6. outbox' \in Seq(Events)
  BY ConcatProperties DEF CommitNew, StoreTypeOK
<1>7. inbox' \subseteq Messages
  BY CommitInboxType DEF CommitNew
<1>. QED
  BY <1>3, <1>4, <1>5, <1>6, <1>7

-----------------------------------------------------------------------------
(* The steps of a handler *)

LEMMA RowIdType ==
    ASSUME StoreTypeOK, NEW id \in TxnIds
    PROVE  id \in Nat /\ txns[id] \in Rows
BY ElementOfSeq, LenProperties DEF TxnIds, StoreTypeOK

LEMMA GoToType ==
    ASSUME StoreTypeOK, HandlerTypeOK, HandlerControl, NEW h \in Handlers,
           NEW s \in {"find_key", "find_external", "lock_wallet"},
           req[h] \in Requests, GoTo(h, s)
    PROVE  StoreTypeOK' /\ HandlerTypeOK' /\ HandlerControl'
<1>1. StoreTypeOK'
  BY DEF GoTo, storeVars, StoreTypeOK
<1>2. HandlerTypeOK'
  BY DEF GoTo, HandlerTypeOK, HandlerStates
<1>3. HandlerControl'
  BY DEF GoTo, HandlerTypeOK, HandlerControl
<1>. QED
  BY <1>1, <1>2, <1>3

LEMMA ReceiveType ==
    ASSUME StoreTypeOK, HandlerTypeOK, HandlerControl, NEW h \in Handlers,
           NEW q \in Requests, Receive(h, q) \/ RefuseOpening(h, q)
    PROVE  StoreTypeOK' /\ HandlerTypeOK' /\ HandlerControl'
<1>1. CASE Receive(h, q)
  <2>1. StoreTypeOK'
    BY <1>1 DEF Receive, storeVars, StoreTypeOK
  <2>2. HandlerTypeOK'
    BY <1>1 DEF Receive, HandlerTypeOK, HandlerStates
  <2>3. HandlerControl'
    BY <1>1 DEF Receive, HandlerTypeOK, HandlerControl
  <2>. QED
    BY <2>1, <2>2, <2>3
<1>2. CASE RefuseOpening(h, q)
  <2>1. StoreTypeOK'
    BY <1>2 DEF RefuseOpening, storeVars, StoreTypeOK
  <2>2. ErrorAnswer(q, "OPENING_FORBIDDEN") \in Replies
    BY ErrorAnswerType DEF Codes
  <2>3. HandlerTypeOK'
    BY <1>2, <2>2 DEF RefuseOpening, HandlerTypeOK
  <2>4. HandlerControl'
    BY <1>2 DEF RefuseOpening, HandlerControl
  <2>. QED
    BY <2>1, <2>3, <2>4
<1>. QED
  BY <1>1, <1>2

LEMMA LookupType ==
    ASSUME StoreTypeOK, HandlerTypeOK, HandlerControl, NEW h \in Handlers,
           ReplayRedelivered(h) \/ FindByKey(h) \/ FindByExternal(h)
    PROVE  StoreTypeOK' /\ HandlerTypeOK' /\ HandlerControl'
<1>1. req[h] \in Requests
  BY DEF HandlerControl, ReplayRedelivered, FindByKey, FindByExternal
<1>2. "PAYLOAD_CONFLICT" \in Codes
  BY DEF Codes
<1>3. CASE ReplayRedelivered(h)
  <2>1. CASE \E i \in GetByIdempotencyKey(req[h].key) : Replay(h, i)
    BY <1>1, <2>1, ReplayType DEF GetByIdempotencyKey
  <2>2. CASE GoTo(h, "find_key")
    BY <1>1, <2>2, GoToType
  <2>. QED
    BY <1>3, <2>1, <2>2 DEF ReplayRedelivered
<1>4. CASE FindByKey(h)
  <2>1. CASE \E i \in GetByIdempotencyKey(req[h].key) : Replay(h, i)
    BY <1>1, <2>1, ReplayType DEF GetByIdempotencyKey
  <2>2. CASE Fail(h, "PAYLOAD_CONFLICT")
    BY <1>1, <1>2, <2>2, FailType
  <2>3. CASE GoTo(h, "find_external")
    BY <1>1, <2>3, GoToType
  <2>. QED
    BY <1>4, <2>1, <2>2, <2>3 DEF FindByKey
<1>5. CASE FindByExternal(h)
  <2>1. CASE \E i \in GetByProviderAndExternalID(req[h].op.ext) : Replay(h, i)
    BY <1>1, <2>1, ReplayType DEF GetByProviderAndExternalID
  <2>2. CASE Fail(h, "PAYLOAD_CONFLICT")
    BY <1>1, <1>2, <2>2, FailType
  <2>3. CASE GoTo(h, "lock_wallet")
    BY <1>1, <2>3, GoToType
  <2>. QED
    BY <1>5, <2>1, <2>2, <2>3 DEF FindByExternal
<1>. QED
  BY <1>3, <1>4, <1>5

LEMMA LockWalletType ==
    ASSUME StoreTypeOK, HandlerTypeOK, HandlerControl, NEW h \in Handlers, LockWallet(h)
    PROVE  StoreTypeOK' /\ HandlerTypeOK' /\ HandlerControl'
<1>1. req[h] \in Requests
  BY DEF HandlerControl, LockWallet
<1> DEFINE op == req[h].op
<1>2. op.wallet \in Wallets
  BY <1>1, RequestType
<1>3. CASE Fail(h, "WALLET_NOT_FOUND")
  BY <1>1, <1>3, FailType DEF Codes
<1>4. CASE /\ IntakeError(wallets[op.wallet], op) # None
           /\ Fail(h, IntakeError(wallets[op.wallet], op))
  <2>1. IntakeError(wallets[op.wallet], op) \in Codes
    BY <1>4, IntakeErrorType
  <2>. QED
    BY <1>1, <1>4, <2>1, FailType
<1>5. CASE /\ CanLock(op.wallet)
           /\ Lock(op.wallet, h)
           /\ wal' = [wal EXCEPT ![h] = wallets[op.wallet]]
           /\ pc' = [pc EXCEPT ![h] =
                        IF RequiresReference(op.kind) THEN "read_reference" ELSE "decide"]
           /\ UNCHANGED <<wallets, txns, ledger, outbox, inbox, req, ref, reply, originals>>
  <2>1. wallets[op.wallet] \in WalletRows
    BY <1>2, <1>5 DEF CanLock, StoreTypeOK
  <2>2. h \in Processes
    BY RequestsAssumption
  <2>3. walletLock' \in [Wallets -> Processes \cup {Nobody}]
    BY <1>5, <2>2 DEF Lock, StoreTypeOK
  <2>4. StoreTypeOK'
    BY <1>5, <2>3 DEF StoreTypeOK
  <2>5. HandlerTypeOK'
    BY <1>5, <2>1 DEF HandlerTypeOK, HandlerStates
  <2>6. HandlerControl'
    BY <1>1, <1>5, <2>1 DEF HandlerTypeOK, HandlerControl
  <2>. QED
    BY <2>4, <2>5, <2>6
<1>. QED
  BY <1>3, <1>4, <1>5 DEF LockWallet

LEMMA ReadReferenceType ==
    ASSUME StoreTypeOK, HandlerTypeOK, HandlerControl, NEW h \in Handlers, ReadReference(h)
    PROVE  StoreTypeOK' /\ HandlerTypeOK' /\ HandlerControl'
<1>1. StoreTypeOK'
  BY DEF ReadReference, storeVars, StoreTypeOK
<1>2. ref' \in [Handlers -> [id : Nat, row : Rows] \cup {None}]
  <2>1. CASE ref' = ref
    BY <2>1 DEF HandlerTypeOK
  <2>2. ASSUME NEW i \in TxnIds, ref' = [ref EXCEPT ![h] = [id |-> i, row |-> txns[i]]]
        PROVE  ref' \in [Handlers -> [id : Nat, row : Rows] \cup {None}]
    <3>1. [id |-> i, row |-> txns[i]] \in [id : Nat, row : Rows]
      BY RowIdType
    <3>. QED
      BY <2>2, <3>1 DEF HandlerTypeOK
  <2>. QED
    BY <2>1, <2>2 DEF ReadReference, GetByProviderAndExternalID
<1>3. HandlerTypeOK'
  BY <1>2 DEF ReadReference, HandlerTypeOK, HandlerStates
<1>4. HandlerControl'
  BY DEF ReadReference, HandlerTypeOK, HandlerControl
<1>. QED
  BY <1>1, <1>3, <1>4

-----------------------------------------------------------------------------
(* The decision of a handler *)

LEMMA DecideFacts ==
    ASSUME StoreTypeOK, HandlerTypeOK, HandlerControl, NEW h \in Handlers, pc[h] = "decide"
    PROVE  /\ req[h] \in Requests
           /\ wal[h] \in WalletRows
           /\ wal[h].balance \in Nat
           /\ NewTransaction(req[h].key, req[h].op) \in Rows
           /\ \A row \in Rows : Resolved(h, row) \in Rows
           /\ Len(txns) + 1 \in Nat
<1>1. req[h] \in Requests /\ wal[h] \in WalletRows
  BY DEF HandlerControl
<1>2. NewTransaction(req[h].key, req[h].op) \in Rows
  BY <1>1, RequestType, NewTransactionType
<1>3. ASSUME NEW row \in Rows
      PROVE  Resolved(h, row) \in Rows
  <2>1. ref[h] # None => ref[h].id \in Nat
    BY DEF HandlerTypeOK
  <2>. QED
    BY <2>1, RowType DEF Resolved
<1>. QED
  BY <1>1, <1>2, <1>3, LenProperties DEF WalletRows, StoreTypeOK

LEMMA OneEvent ==
    ASSUME StoreTypeOK, NEW type \in EventTypes
    PROVE  <<Event(type, Len(txns) + 1)>> \in Seq(Events)
<1>1. Len(txns) + 1 \in Nat
  BY LenProperties DEF StoreTypeOK
<1>2. Event(type, Len(txns) + 1) \in Events
  BY <1>1, EventType
<1>. QED
  BY <1>2

LEMMA TwoEvents ==
    ASSUME NEW e \in Events, NEW f \in Events
    PROVE  <<e, f>> \in Seq(Events)
OBVIOUS

LEMMA PersistPendingType ==
    ASSUME StoreTypeOK, HandlerTypeOK, HandlerControl, NEW h \in Handlers, PersistPending(h)
    PROVE  StoreTypeOK' /\ HandlerTypeOK' /\ HandlerControl'
<1>1. pc[h] = "decide"
  BY DEF PersistPending
<1>2. PICK row \in Rows : row = MarkPendingReference(NewTransaction(req[h].key, req[h].op))
  BY <1>1, DecideFacts, RowType
<1>3. <<Event("WagerTransactionPendingReference", Len(txns) + 1)>> \in Seq(Events)
  BY OneEvent DEF EventTypes
<1>4. /\ txns' \in Seq(Rows)
      /\ outbox' \in Seq(Events)
      /\ inbox' \subseteq Messages
      /\ walletLock' \in [Wallets -> Processes \cup {Nobody}]
      /\ HandlerTypeOK' /\ HandlerControl'
  BY <1>1, <1>2, <1>3, DecideFacts, CommitNewType DEF PersistPending
<1>. QED
  BY <1>4 DEF PersistPending, StoreTypeOK

LEMMA PersistRejectedType ==
    ASSUME StoreTypeOK, HandlerTypeOK, HandlerControl, NEW h \in Handlers, PersistRejected(h)
    PROVE  StoreTypeOK' /\ HandlerTypeOK' /\ HandlerControl'
<1>1. pc[h] = "decide"
  BY DEF PersistRejected
<1>2. Rejection(h) \in Codes
  BY ReferenceErrorType, OperationErrorType DEF PersistRejected, Rejection
<1> DEFINE new == NewTransaction(req[h].key, req[h].op)
<1>3. (IF ReferenceRefused(h) THEN new ELSE Resolved(h, new)) \in Rows
  BY <1>1, DecideFacts
<1>4. PICK row \in Rows :
         row = MarkRejected(IF ReferenceRefused(h) THEN new ELSE Resolved(h, new), Rejection(h))
  BY <1>2, <1>3, RowType
<1>5. <<Event("WagerTransactionRejected", Len(txns) + 1)>> \in Seq(Events)
  BY OneEvent DEF EventTypes
<1>6. /\ txns' \in Seq(Rows)
      /\ outbox' \in Seq(Events)
      /\ inbox' \subseteq Messages
      /\ walletLock' \in [Wallets -> Processes \cup {Nobody}]
      /\ HandlerTypeOK' /\ HandlerControl'
  BY <1>1, <1>4, <1>5, DecideFacts, CommitNewType DEF PersistRejected
<1>. QED
  BY <1>6 DEF PersistRejected, StoreTypeOK

LEMMA PersistLossType ==
    ASSUME StoreTypeOK, HandlerTypeOK, HandlerControl, NEW h \in Handlers, PersistLoss(h)
    PROVE  StoreTypeOK' /\ HandlerTypeOK' /\ HandlerControl'
<1>1. pc[h] = "decide"
  BY DEF PersistLoss
<1>2. PICK row \in Rows :
         row = MarkProcessed(NewTransaction(req[h].key, req[h].op), wal[h].balance)
  BY <1>1, DecideFacts, RowType
<1>3. <<Event("WagerTransactionProcessed", Len(txns) + 1)>> \in Seq(Events)
  BY OneEvent DEF EventTypes
<1>4. /\ txns' \in Seq(Rows)
      /\ outbox' \in Seq(Events)
      /\ inbox' \subseteq Messages
      /\ walletLock' \in [Wallets -> Processes \cup {Nobody}]
      /\ HandlerTypeOK' /\ HandlerControl'
  BY <1>1, <1>2, <1>3, DecideFacts, CommitNewType DEF PersistLoss
<1>. QED
  BY <1>4 DEF PersistLoss, StoreTypeOK

\* The movement of a processed operation is one that the wallet does not refuse.
LEMMA ProcessedMovement ==
    ASSUME StoreTypeOK, HandlerTypeOK, HandlerControl, NEW h \in Handlers, PersistProcessed(h)
    PROVE  /\ req[h].op.wallet \in Wallets
           /\ OperationError(wal[h], req[h].op, Direction(h)) = None
           /\ Direction(h) \in Directions
           /\ BalanceAfter(wal[h], req[h].op, Direction(h)) \in Nat
           /\ Moved(wal[h], req[h].op, Direction(h)) \in WalletRows
           /\ Moved(wal[h], req[h].op, Direction(h)).balance
                = BalanceAfter(wal[h], req[h].op, Direction(h))
           /\ Moved(wal[h], req[h].op, Direction(h)).version \in Nat
           /\ NewLedgerEntry(Len(txns) + 1, wal[h], req[h].op, Direction(h)) \in LedgerEntries
<1>1. pc[h] = "decide" /\ req[h].op.kind # "LOSS" /\ ~Unsupported(h) /\ Rejection(h) = None
  BY DEF PersistProcessed
<1>2. req[h] \in Requests /\ wal[h] \in WalletRows /\ Len(txns) + 1 \in Nat
  BY <1>1, DecideFacts
<1>3. req[h].op \in Operations /\ req[h].op.wallet \in Wallets /\ req[h].op.kind \in Kinds
  BY <1>2, RequestType
<1>4. Direction(h) \in Directions
  BY <1>1, <1>3 DEF Direction, DirectionFor, Directions, Unsupported, Kinds
<1>5. OperationError(wal[h], req[h].op, Direction(h)) = None
  BY <1>1 DEF Rejection, ReferenceRefused
<1>. QED
  BY <1>2, <1>3, <1>4, <1>5, MovementType

LEMMA PersistProcessedType ==
    ASSUME StoreTypeOK, HandlerTypeOK, HandlerControl, NEW h \in Handlers, PersistProcessed(h)
    PROVE  StoreTypeOK' /\ HandlerTypeOK' /\ HandlerControl'
<1>1. pc[h] = "decide"
  BY DEF PersistProcessed
<1> DEFINE op == req[h].op
           id == Len(txns) + 1
<1>2. PICK moved \in WalletRows :
         /\ moved = Moved(wal[h], op, Direction(h))
         /\ moved.balance \in Nat /\ moved.version \in Nat
  BY ProcessedMovement
<1>3. PICK row \in Rows :
         row = MarkProcessed(Resolved(h, NewTransaction(req[h].key, op)), moved.balance)
  BY <1>1, <1>2, DecideFacts, RowType
<1>4. PICK events \in Seq(Events) :
         events = <<BalanceChanged(id, moved.version), Event("WagerTransactionProcessed", id)>>
  <2>1. id \in Nat /\ "WagerTransactionProcessed" \in EventTypes
    BY <1>1, DecideFacts DEF EventTypes
  <2>2. /\ BalanceChanged(id, moved.version) \in Events
        /\ Event("WagerTransactionProcessed", id) \in Events
    BY <1>2, <2>1, EventType
  <2>. QED
    BY <2>2, TwoEvents
<1>5. CommitNew(h, row, moved.balance, events)
  BY <1>2, <1>3, <1>4 DEF PersistProcessed
<1>6. /\ txns' \in Seq(Rows)
      /\ outbox' \in Seq(Events)
      /\ inbox' \subseteq Messages
      /\ walletLock' \in [Wallets -> Processes \cup {Nobody}]
      /\ HandlerTypeOK' /\ HandlerControl'
  BY <1>1, <1>2, <1>5, DecideFacts, CommitNewType
<1>7. wallets' \in [Wallets -> WalletRows \cup {None}]
  BY <1>2 DEF PersistProcessed, UpdateWallet, StoreTypeOK
<1>8. ledger' \in [Wallets -> Seq(LedgerEntries)]
  <2>1. PICK entry \in LedgerEntries : entry = NewLedgerEntry(id, wal[h], op, Direction(h))
    BY ProcessedMovement
  <2>2. ledger' = [ledger EXCEPT ![op.wallet] = Append(ledger[op.wallet], entry)]
    BY <2>1 DEF PersistProcessed, CreateLedgerEntry
  <2>3. Append(ledger[op.wallet], entry) \in Seq(LedgerEntries)
    BY ProcessedMovement, AppendProperties DEF StoreTypeOK
  <2>. QED
    BY <2>2, <2>3 DEF StoreTypeOK
<1>. QED
  BY <1>6, <1>7, <1>8 DEF StoreTypeOK

LEMMA FailUnsupportedType ==
    ASSUME StoreTypeOK, HandlerTypeOK, HandlerControl, NEW h \in Handlers, FailUnsupported(h)
    PROVE  StoreTypeOK' /\ HandlerTypeOK' /\ HandlerControl'
<1>1. req[h] \in Requests
  BY DecideFacts DEF FailUnsupported
<1>. QED
  BY <1>1, FailType DEF FailUnsupported, Codes

LEMMA LoseInsertRaceType ==
    ASSUME StoreTypeOK, HandlerTypeOK, HandlerControl, NEW h \in Handlers, LoseInsertRace(h)
    PROVE  StoreTypeOK' /\ HandlerTypeOK' /\ HandlerControl'
<1>1. /\ pc' \in [Handlers -> HandlerStates]
      /\ wal' \in [Handlers -> WalletRows \cup {None}]
      /\ ref' \in [Handlers -> [id : Nat, row : Rows] \cup {None}]
      /\ walletLock' \in [Wallets -> Processes \cup {Nobody}]
  BY EndTransactionType DEF LoseInsertRace, HandlerStates
<1>2. StoreTypeOK' /\ HandlerTypeOK'
  BY <1>1 DEF LoseInsertRace, StoreTypeOK, HandlerTypeOK
<1>3. HandlerControl'
  BY DEF LoseInsertRace, EndTransaction, HandlerTypeOK, HandlerControl
<1>. QED
  BY <1>2, <1>3

LEMMA RecoverDuplicateType ==
    ASSUME StoreTypeOK, HandlerTypeOK, HandlerControl, NEW h \in Handlers, RecoverDuplicate(h)
    PROVE  StoreTypeOK' /\ HandlerTypeOK' /\ HandlerControl'
<1>1. req[h] \in Requests
  BY DEF HandlerControl, RecoverDuplicate
<1>2. PICK answer \in Replies : Finish(h, answer)
  <2>1. ErrorAnswer(req[h], "DUPLICATE_OPERATION") \in Replies
    BY <1>1, ErrorAnswerType DEF Codes
  <2>2. \A i \in TxnIds : BuildReplayOutput(req[h], i) \in Replies
    BY <1>1, ReplayOutputType
  <2>. QED
    BY <2>1, <2>2 DEF RecoverDuplicate, GetByIdempotencyKey, GetByProviderAndExternalID
<1>3. /\ walletLock' \in [Wallets -> Processes \cup {Nobody}]
      /\ HandlerTypeOK' /\ HandlerControl'
  BY <1>2, FinishType DEF RecoverDuplicate, HandlerTypeOK
<1>. QED
  BY <1>3 DEF RecoverDuplicate, StoreTypeOK

LEMMA AbortHandlerType ==
    ASSUME StoreTypeOK, HandlerTypeOK, HandlerControl, NEW h \in Handlers, AbortHandler(h)
    PROVE  StoreTypeOK' /\ HandlerTypeOK' /\ HandlerControl'
<1>1. /\ pc' \in [Handlers -> HandlerStates]
      /\ wal' \in [Handlers -> WalletRows \cup {None}]
      /\ ref' \in [Handlers -> [id : Nat, row : Rows] \cup {None}]
      /\ walletLock' \in [Wallets -> Processes \cup {Nobody}]
  BY EndTransactionType DEF AbortHandler, HandlerStates
<1>2. StoreTypeOK' /\ HandlerTypeOK'
  BY <1>1 DEF AbortHandler, StoreTypeOK, HandlerTypeOK
<1>3. HandlerControl'
  BY DEF AbortHandler, EndTransaction, HandlerTypeOK, HandlerControl
<1>. QED
  BY <1>2, <1>3

-----------------------------------------------------------------------------
(* The steps of a retrier and of an opening *)

LEMMA NextItemType ==
    ASSUME StoreTypeOK, RetrierTypeOK, RetrierControl, NEW r \in Retriers, NextItem(r),
           batch' \in [Retriers -> SUBSET Copies]
    PROVE  RetrierTypeOK' /\ RetrierControl' /\ walletLock' \in [Wallets -> Processes \cup {Nobody}]
<1>1. RetrierTypeOK'
  <2>1. rpc' \in [Retriers -> {"idle", "reference_read", "wallet_locked"}]
    BY DEF NextItem, RetrierTypeOK
  <2>2. item' \in [Retriers -> Copies \cup {None}]
    BY DEF NextItem, RetrierTypeOK
  <2>3. target' \in [Retriers -> Copies \cup {None}]
    BY DEF NextItem, RetrierTypeOK
  <2>4. rwal' \in [Retriers -> WalletRows \cup {None}]
    BY DEF NextItem, RetrierTypeOK
  <2>. QED
    BY <2>1, <2>2, <2>3, <2>4 DEF RetrierTypeOK
<1>2. RetrierControl'
  BY DEF NextItem, RetrierTypeOK, RetrierControl
<1>3. walletLock' \in [Wallets -> Processes \cup {Nobody}]
  BY DEF NextItem, Unlock, StoreTypeOK
<1>. QED
  BY <1>1, <1>2, <1>3

LEMMA CopyType ==
    ASSUME StoreTypeOK, NEW id \in TxnIds
    PROVE  Copy(id) \in Copies
BY RowIdType DEF Copy, Copies

\* Overwriting a row with another keeps the table well typed.
LEMMA UpdateTxnType ==
    ASSUME StoreTypeOK, NEW c \in Copies, NEW row \in Rows, UpdateTxn(c, row)
    PROVE  txns' \in Seq(Rows)
<1>1. txns \in Seq(Rows)
  BY DEF StoreTypeOK
<1>2. [txns EXCEPT ![c.id] = row] \in Seq(Rows)
  BY <1>1, UpdateType
<1>. QED
  BY <1>2 DEF UpdateTxn

LEMMA AnnounceType ==
    ASSUME StoreTypeOK, NEW c \in Copies, NEW type \in EventTypes,
           outbox' = Append(outbox, Event(type, c.id))
    PROVE  outbox' \in Seq(Events)
<1>1. Event(type, c.id) \in Events
  BY EventType DEF Copies
<1>. QED
  BY <1>1, AppendProperties DEF StoreTypeOK

LEMMA FetchBatchType ==
    ASSUME StoreTypeOK, RetrierTypeOK, RetrierControl, NEW r \in Retriers, FetchBatch(r)
    PROVE  StoreTypeOK' /\ RetrierTypeOK' /\ RetrierControl'
<1>1. StoreTypeOK'
  BY DEF FetchBatch, storeVars, StoreTypeOK
<1>2. batch' \in [Retriers -> SUBSET Copies]
  <2>1. PICK due \in SUBSET TxnIds : batch' = [batch EXCEPT ![r] = {Copy(i) : i \in due}]
    BY DEF FetchBatch, GetPendingReferences
  <2>2. {Copy(i) : i \in due} \subseteq Copies
    BY CopyType
  <2>. QED
    BY <2>1, <2>2 DEF RetrierTypeOK
<1>3. RetrierTypeOK' /\ RetrierControl'
  BY <1>2 DEF FetchBatch, RetrierTypeOK, RetrierControl
<1>. QED
  BY <1>1, <1>3

LEMMA RejectExhaustedType ==
    ASSUME StoreTypeOK, RetrierTypeOK, RetrierControl, NEW r \in Retriers, RejectExhausted(r)
    PROVE  StoreTypeOK' /\ RetrierTypeOK' /\ RetrierControl'
<1>1. PICK c \in batch[r] :
         /\ UpdateTxn(c, MarkRejected(c.row, "REFERENCE_NOT_FOUND"))
         /\ outbox' = Append(outbox, Event("WagerTransactionRejected", c.id))
         /\ batch' = [batch EXCEPT ![r] = @ \ {c}]
  BY DEF RejectExhausted
<1>2. c \in Copies /\ batch' \in [Retriers -> SUBSET Copies]
  BY <1>1 DEF RetrierTypeOK
<1>3. MarkRejected(c.row, "REFERENCE_NOT_FOUND") \in Rows
  BY <1>2, RowType DEF Copies, Codes
<1>4. txns' \in Seq(Rows) /\ outbox' \in Seq(Events)
  BY <1>1, <1>2, <1>3, UpdateTxnType, AnnounceType DEF EventTypes
<1>5. StoreTypeOK'
  BY <1>4 DEF RejectExhausted, StoreTypeOK
<1>6. RetrierTypeOK' /\ RetrierControl'
  BY <1>2 DEF RejectExhausted, RetrierTypeOK, RetrierControl
<1>. QED
  BY <1>5, <1>6

LEMMA ReadTargetType ==
    ASSUME StoreTypeOK, RetrierTypeOK, RetrierControl, NEW r \in Retriers, ReadTarget(r)
    PROVE  StoreTypeOK' /\ RetrierTypeOK' /\ RetrierControl'
<1>1. StoreTypeOK'
  BY DEF ReadTarget, storeVars, StoreTypeOK
<1>2. PICK c \in batch[r] :
         /\ \/ \E i \in TxnIds : target' = [target EXCEPT ![r] = Copy(i)]
            \/ target' = target
         /\ item' = [item EXCEPT ![r] = c]
         /\ batch' = [batch EXCEPT ![r] = @ \ {c}]
  BY DEF ReadTarget, GetByProviderAndExternalID
<1>3. c \in Copies /\ batch' \in [Retriers -> SUBSET Copies]
  BY <1>2 DEF RetrierTypeOK
<1>4. target' \in [Retriers -> Copies \cup {None}]
  <2>1. ASSUME NEW i \in TxnIds, target' = [target EXCEPT ![r] = Copy(i)]
        PROVE  target' \in [Retriers -> Copies \cup {None}]
    BY <2>1, CopyType DEF RetrierTypeOK
  <2>. QED
    BY <1>2, <2>1 DEF RetrierTypeOK
<1>5. item' \in [Retriers -> Copies \cup {None}] /\ item'[r] \in Copies
  BY <1>2, <1>3 DEF RetrierTypeOK
<1>6. RetrierTypeOK'
  BY <1>3, <1>4, <1>5 DEF ReadTarget, RetrierTypeOK
<1>7. RetrierControl'
  BY <1>2, <1>5 DEF ReadTarget, RetrierTypeOK, RetrierControl
<1>. QED
  BY <1>1, <1>6, <1>7

LEMMA LockItemWalletType ==
    ASSUME StoreTypeOK, RetrierTypeOK, RetrierControl, NEW r \in Retriers, LockItemWallet(r)
    PROVE  StoreTypeOK' /\ RetrierTypeOK' /\ RetrierControl'
<1> DEFINE w == item[r].row.op.wallet
<1>1. item[r] \in Copies /\ target[r] \in Copies /\ w \in Wallets
  BY DEF LockItemWallet, RetrierControl, RetrierTypeOK, Copies, Rows, Operations
<1>2. wallets[w] \in WalletRows
  BY <1>1 DEF LockItemWallet, CanLock, StoreTypeOK
<1>3. r \in Processes
  BY RetriersAssumption
<1>4. walletLock' \in [Wallets -> Processes \cup {Nobody}]
  BY <1>1, <1>3 DEF LockItemWallet, Lock, StoreTypeOK
<1>5. StoreTypeOK'
  BY <1>4 DEF LockItemWallet, StoreTypeOK
<1>6. RetrierTypeOK'
  BY <1>2 DEF LockItemWallet, RetrierTypeOK
<1>7. RetrierControl'
  BY <1>1, <1>2 DEF LockItemWallet, RetrierTypeOK, RetrierControl
<1>. QED
  BY <1>5, <1>6, <1>7

\* The steps that end an item and leave the tables alone.
LEMMA RollbackItemType ==
    ASSUME StoreTypeOK, RetrierTypeOK, RetrierControl, NEW r \in Retriers,
           KeepWaiting(r) \/ AbandonItem(r) \/ AbortItem(r) \/ CrashRetrier(r)
    PROVE  StoreTypeOK' /\ RetrierTypeOK' /\ RetrierControl'
<1>1. batch' \in [Retriers -> SUBSET Copies]
  BY DEF KeepWaiting, AbandonItem, AbortItem, CrashRetrier, RetrierTypeOK
<1>2. NextItem(r) /\ UNCHANGED <<wallets, txns, ledger, outbox, inbox>>
  BY DEF KeepWaiting, AbandonItem, AbortItem, CrashRetrier
<1>3. RetrierTypeOK' /\ RetrierControl' /\ walletLock' \in [Wallets -> Processes \cup {Nobody}]
  BY <1>1, <1>2, NextItemType
<1>. QED
  BY <1>2, <1>3 DEF StoreTypeOK

LEMMA PostponeRetryType ==
    ASSUME StoreTypeOK, RetrierTypeOK, RetrierControl, NEW r \in Retriers, PostponeRetry(r)
    PROVE  StoreTypeOK' /\ RetrierTypeOK' /\ RetrierControl'
<1>1. item[r] \in Copies /\ IncrementRetry(item[r].row) \in Rows
  BY RowType DEF PostponeRetry, RetrierControl, Copies
<1>2. txns' \in Seq(Rows)
  BY <1>1, UpdateTxnType DEF PostponeRetry
<1>3. RetrierTypeOK' /\ RetrierControl' /\ walletLock' \in [Wallets -> Processes \cup {Nobody}]
  BY NextItemType DEF PostponeRetry, RetrierTypeOK
<1>. QED
  BY <1>2, <1>3 DEF PostponeRetry, StoreTypeOK

LEMMA RejectItemType ==
    ASSUME StoreTypeOK, RetrierTypeOK, RetrierControl, NEW r \in Retriers, RejectItem(r)
    PROVE  StoreTypeOK' /\ RetrierTypeOK' /\ RetrierControl'
<1>1. item[r] \in Copies /\ target[r] \in Copies
  BY DEF RejectItem, RetrierControl
<1> DEFINE row == IF TargetProcessed(r)
                  THEN ResolveReference(item[r].row, target[r].id) ELSE item[r].row
           code == IF TargetProcessed(r) THEN ItemError(r) ELSE "REFERENCE_NOT_PROCESSABLE"
<1>2. row \in Rows
  <2>1. item[r].row \in Rows /\ target[r].id \in Nat
    BY <1>1 DEF Copies
  <2>. QED
    BY <2>1, RowType
<1>3. code \in Codes
  BY OperationErrorType DEF RejectItem, ItemError, Codes
<1>4. PICK new \in Rows : new = MarkRejected(row, code)
  BY <1>2, <1>3, RowType
<1>5. /\ UpdateTxn(item[r], new)
      /\ outbox' = Append(outbox, Event("WagerTransactionRejected", item[r].id))
  BY <1>4 DEF RejectItem
<1>6. txns' \in Seq(Rows) /\ outbox' \in Seq(Events)
  BY <1>1, <1>5, UpdateTxnType, AnnounceType DEF EventTypes
<1>7. RetrierTypeOK' /\ RetrierControl' /\ walletLock' \in [Wallets -> Processes \cup {Nobody}]
  BY NextItemType DEF RejectItem, RetrierTypeOK
<1>. QED
  BY <1>6, <1>7 DEF RejectItem, StoreTypeOK

\* The movement of a settled reversal is one that the wallet does not refuse.
LEMMA AppliedMovement ==
    ASSUME StoreTypeOK, RetrierTypeOK, RetrierControl, NEW r \in Retriers, ApplyItem(r)
    PROVE  LET w == item[r].row.op.wallet
               op == item[r].row.op
               d == ItemDirection(r)
           IN /\ item[r] \in Copies /\ target[r] \in Copies
              /\ w \in Wallets
              /\ OperationError(rwal[r], op, d) = None
              /\ d \in Directions
              /\ BalanceAfter(rwal[r], op, d) \in Nat
              /\ Moved(rwal[r], op, d) \in WalletRows
              /\ Moved(rwal[r], op, d).balance = BalanceAfter(rwal[r], op, d)
              /\ NewLedgerEntry(item[r].id, rwal[r], op, d) \in LedgerEntries
<1>1. item[r] \in Copies /\ target[r] \in Copies /\ rwal[r] \in WalletRows
  BY DEF ApplyItem, RetrierControl
<1>2. /\ item[r].id \in Nat
      /\ item[r].row.op \in Operations
      /\ item[r].row.op.wallet \in Wallets
  BY <1>1 DEF Copies, Rows, Operations
<1>3. ItemDirection(r) \in Directions
  BY DEF ApplyItem, ItemDirection, DirectionFor, Directions
<1>4. OperationError(rwal[r], item[r].row.op, ItemDirection(r)) = None
  BY DEF ApplyItem, ItemError
<1>. QED
  BY <1>1, <1>2, <1>3, <1>4, MovementType

LEMMA ApplyItemType ==
    ASSUME StoreTypeOK, RetrierTypeOK, RetrierControl, NEW r \in Retriers, ApplyItem(r)
    PROVE  StoreTypeOK' /\ RetrierTypeOK' /\ RetrierControl'
<1> DEFINE c == item[r]
           w == c.row.op.wallet
<1>1. c \in Copies /\ target[r] \in Copies /\ w \in Wallets
  BY AppliedMovement
<1>2. PICK moved \in WalletRows : moved = Moved(rwal[r], c.row.op, ItemDirection(r))
  BY AppliedMovement
<1>3. PICK row \in Rows :
         row = MarkProcessed(ResolveReference(c.row, target[r].id), moved.balance)
  <2>1. c.row \in Rows /\ target[r].id \in Nat /\ moved.balance \in Nat
    BY <1>1, <1>2 DEF Copies, WalletRows
  <2>2. ResolveReference(c.row, target[r].id) \in Rows
    BY <2>1, RowType
  <2>. QED
    BY <2>1, <2>2, RowType
<1>4. txns' \in Seq(Rows) /\ outbox' \in Seq(Events)
  <2>1. /\ UpdateTxn(c, row)
        /\ outbox' = Append(outbox, Event("WagerTransactionProcessed", c.id))
    BY <1>2, <1>3 DEF ApplyItem
  <2>. QED
    BY <1>1, <2>1, UpdateTxnType, AnnounceType DEF EventTypes
<1>5. wallets' \in [Wallets -> WalletRows \cup {None}]
  BY <1>2 DEF ApplyItem, UpdateWallet, StoreTypeOK
<1>6. ledger' \in [Wallets -> Seq(LedgerEntries)]
  <2>1. PICK entry \in LedgerEntries :
           entry = NewLedgerEntry(c.id, rwal[r], c.row.op, ItemDirection(r))
    BY AppliedMovement
  <2>2. ledger' = [ledger EXCEPT ![w] = Append(ledger[w], entry)]
    BY <2>1 DEF ApplyItem, CreateLedgerEntry
  <2>3. Append(ledger[w], entry) \in Seq(LedgerEntries)
    BY <1>1, AppendProperties DEF StoreTypeOK
  <2>. QED
    BY <2>2, <2>3 DEF StoreTypeOK
<1>7. RetrierTypeOK' /\ RetrierControl' /\ walletLock' \in [Wallets -> Processes \cup {Nobody}]
  BY NextItemType DEF ApplyItem, RetrierTypeOK
<1>. QED
  BY <1>4, <1>5, <1>6, <1>7 DEF ApplyItem, StoreTypeOK

LEMMA OpenWalletType ==
    ASSUME StoreTypeOK, NEW o \in Openings, OpenWallet(o)
    PROVE  StoreTypeOK'
<1>1. /\ o.wallet \in Wallets /\ o.player \in Players
      /\ o.currency \in Currencies /\ o.balance \in Nat
  BY OpeningsAssumption
<1>2. NewWallet(o) \in WalletRows
  BY <1>1 DEF NewWallet, WalletRows
<1>3. wallets' \in [Wallets -> WalletRows \cup {None}]
  BY <1>2 DEF OpenWallet, UpdateWallet, StoreTypeOK
<1>4. CASE UNCHANGED <<txns, ledger, outbox>>
  BY <1>3, <1>4 DEF OpenWallet, StoreTypeOK
<1>5. CASE CreditOpening(o)
  <2>1. Len(txns) + 1 \in Nat
    BY LenProperties DEF StoreTypeOK
  <2>2. txns' \in Seq(Rows)
    <3>1. OpeningOperation(o) \in Operations
      BY <1>1 DEF OpeningOperation, Operations, Kinds
    <3>2. PICK row \in Rows :
             row = MarkProcessed(NewTransaction(None, OpeningOperation(o)), o.balance)
      BY <1>1, <3>1, NewTransactionType, RowType
    <3>. QED
      BY <1>5, <3>2, AppendProperties DEF CreditOpening, StoreTypeOK
  <2>3. ledger' \in [Wallets -> Seq(LedgerEntries)]
    <3>1. PICK entry \in LedgerEntries :
             entry = [txn |-> Len(txns) + 1, direction |-> "CREDIT", amount |-> o.balance,
                      before |-> 0, after |-> o.balance]
      BY <1>1, <2>1 DEF LedgerEntries, Directions
    <3>2. ledger' = [ledger EXCEPT ![o.wallet] = Append(ledger[o.wallet], entry)]
      BY <1>5, <3>1 DEF CreditOpening, CreateLedgerEntry
    <3>3. Append(ledger[o.wallet], entry) \in Seq(LedgerEntries)
      BY <1>1, AppendProperties DEF StoreTypeOK
    <3>. QED
      BY <3>2, <3>3 DEF StoreTypeOK
  <2>4. outbox' \in Seq(Events)
    <3>1. /\ Event("WagerTransactionProcessed", Len(txns) + 1) \in Events
          /\ BalanceChanged(Len(txns) + 1, 1) \in Events
      BY <2>1, EventType DEF EventTypes
    <3>2. PICK events \in Seq(Events) :
             events = <<Event("WagerTransactionProcessed", Len(txns) + 1),
                        BalanceChanged(Len(txns) + 1, 1)>>
      BY <3>1, TwoEvents
    <3>. QED
      BY <1>5, <3>2, ConcatProperties DEF CreditOpening, StoreTypeOK
  <2>. QED
    BY <1>3, <2>2, <2>3, <2>4 DEF OpenWallet, StoreTypeOK
<1>. QED
  BY <1>4, <1>5 DEF OpenWallet

-----------------------------------------------------------------------------
(* The specification *)

LEMMA HandlingType ==
    ASSUME TypeInv, NEW h \in Handlers, Handling(h) \/ (AbortHandler(h) /\ UNCHANGED retrierVars)
    PROVE  TypeInv'
<1>1. /\ StoreTypeOK /\ HandlerTypeOK /\ RetrierTypeOK
      /\ HandlerControl /\ RetrierControl
  BY DEF TypeInv, TypeOK
<1>2. StoreTypeOK' /\ HandlerTypeOK' /\ HandlerControl'
  <2>1. CASE \E q \in Requests : Receive(h, q) \/ RefuseOpening(h, q)
    BY <1>1, <2>1, ReceiveType
  <2>2. CASE HandlerStep(h)
    BY <1>1, <2>2, LookupType, LockWalletType, ReadReferenceType, PersistPendingType,
       PersistRejectedType, PersistLossType, PersistProcessedType, FailUnsupportedType,
       LoseInsertRaceType, RecoverDuplicateType
       DEF HandlerStep
  <2>3. CASE AbortHandler(h)
    BY <1>1, <2>3, AbortHandlerType
  <2>. QED
    BY <2>1, <2>2, <2>3 DEF Handling
<1>3. RetrierTypeOK' /\ RetrierControl'
  BY <1>1 DEF Handling, retrierVars, RetrierTypeOK, RetrierControl
<1>. QED
  BY <1>2, <1>3 DEF TypeInv, TypeOK

LEMMA RetryingType ==
    ASSUME TypeInv, NEW r \in Retriers,
           RetrierStep(r) \/ AbortItem(r) \/ CrashRetrier(r), UNCHANGED handlerVars
    PROVE  TypeInv'
<1>1. /\ StoreTypeOK /\ HandlerTypeOK /\ RetrierTypeOK
      /\ HandlerControl /\ RetrierControl
  BY DEF TypeInv, TypeOK
<1>2. StoreTypeOK' /\ RetrierTypeOK' /\ RetrierControl'
  BY <1>1, FetchBatchType, RejectExhaustedType, ReadTargetType, PostponeRetryType,
     LockItemWalletType, RejectItemType, ApplyItemType, RollbackItemType
     DEF RetrierStep, HandleItem
<1>3. HandlerTypeOK' /\ HandlerControl'
  BY <1>1 DEF handlerVars, HandlerTypeOK, HandlerControl
<1>. QED
  BY <1>2, <1>3 DEF TypeInv, TypeOK

LEMMA OpeningType ==
    ASSUME TypeInv, NEW o \in Openings, Opening(o)
    PROVE  TypeInv'
<1>1. /\ StoreTypeOK /\ HandlerTypeOK /\ RetrierTypeOK
      /\ HandlerControl /\ RetrierControl
  BY DEF TypeInv, TypeOK
<1>2. StoreTypeOK'
  BY <1>1, OpenWalletType DEF Opening
<1>3. HandlerTypeOK' /\ HandlerControl'
  BY <1>1 DEF Opening, handlerVars, HandlerTypeOK, HandlerControl
<1>4. RetrierTypeOK' /\ RetrierControl'
  BY <1>1 DEF Opening, retrierVars, RetrierTypeOK, RetrierControl
<1>. QED
  BY <1>2, <1>3, <1>4 DEF TypeInv, TypeOK

LEMMA StutterType ==
    ASSUME TypeInv, UNCHANGED vars
    PROVE  TypeInv'
BY DEF TypeInv, TypeOK, vars, storeVars, handlerVars, retrierVars, StoreTypeOK,
       HandlerTypeOK, RetrierTypeOK, HandlerControl, RetrierControl

LEMMA InitType == Init => TypeInv
<1> SUFFICES ASSUME Init PROVE TypeInv
  OBVIOUS
<1>1. StoreTypeOK
  BY EmptySeq DEF Init, StoreInit, StoreTypeOK
<1>2. HandlerTypeOK /\ HandlerControl
  BY DEF Init, HandlerInit, HandlerTypeOK, HandlerControl, HandlerStates
<1>3. RetrierTypeOK /\ RetrierControl
  BY DEF Init, RetrierInit, RetrierTypeOK, RetrierControl
<1>. QED
  BY <1>1, <1>2, <1>3 DEF TypeInv, TypeOK

LEMMA NextType == TypeInv /\ [Next]_vars => TypeInv'
<1> SUFFICES ASSUME TypeInv, [Next]_vars PROVE TypeInv'
  OBVIOUS
<1>1. CASE Working
  BY <1>1, OpeningType, HandlingType, RetryingType DEF Working, Retrying
<1>2. CASE Failing
  BY <1>2, HandlingType, RetryingType DEF Failing
<1>3. CASE UNCHANGED vars
  BY <1>3, StutterType
<1>. QED
  BY <1>1, <1>2, <1>3 DEF Next

\* A handler that is serving a request has one, and every statement finds the rows that
\* the statements before it read.
THEOREM TypeInvariant == Spec => []TypeInv
BY InitType, NextType, PTL DEF Spec

\* Every table, every local variable of a use case and every answer keeps its type: in
\* particular no balance becomes negative, whatever the requests and their order.
\* (wallet.go:68-135, and the CHECKs of 000001_initial_schema.up.sql)
THEOREM TypeCorrect == Spec => []TypeOK
<1>1. TypeInv => TypeOK
  BY DEF TypeInv
<1>. QED
  BY <1>1, TypeInvariant, PTL

=============================================================================
