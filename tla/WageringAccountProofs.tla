----------------------- MODULE WageringAccountProofs -----------------------
(***************************************************************************)
(* The service implements WalletAccounts, for every value of the           *)
(* constants.  Besides the types and the locks, a step needs to know that  *)
(* the balances fit the money type, which rows the ledger's entries belong *)
(* to, and that the copies a retrier works from are copies of those rows:  *)
(* only then does the unique index of a wallet's ledger keep a transaction *)
(* from moving money twice.                                                *)
(***************************************************************************)
EXTENDS WageringLedgerProofs

BalancesFit == \A w \in Wallets : wallets[w] # None => wallets[w].balance <= MaxCents

\* c is a copy of a row that is there, maybe an old one: its operation has not changed.
CopyOfRow(c) == c.id \in TxnIds /\ txns[c.id].op = c.row.op

CopiesOfRows ==
    \A r \in Retriers :
        /\ \A c \in batch[r] : CopyOfRow(c)
        /\ rpc[r] # "idle" => CopyOfRow(item[r])

\* An entry belongs to a row, and is in the wallet of that row.
EntriesOfRows ==
    \A w \in Wallets : \A k \in DOMAIN ledger[w] :
        ledger[w][k].txn \in TxnIds /\ txns[ledger[w][k].txn].op.wallet = w

AccountInv == BalancesFit /\ CopiesOfRows /\ EntriesOfRows

-----------------------------------------------------------------------------
(* Rows are added one by one and keep their operation *)

RowsKeepOperations ==
    /\ TxnIds \subseteq TxnIds'
    /\ \A i \in TxnIds : txns'[i].op = txns[i].op

OneRowMore(row) == txns' = Append(txns, row)

LEMMA AppendKeeps ==
    ASSUME StoreTypeOK, NEW row, OneRowMore(row)
    PROVE  /\ RowsKeepOperations
           /\ TxnIds' = 1 .. Len(txns) + 1 /\ Len(txns') = Len(txns) + 1
           /\ txns'[Len(txns) + 1] = row
<1>1. /\ txns \in Seq(Rows \cup {row})
      /\ row \in Rows \cup {row}
      /\ Len(txns) \in Nat /\ DOMAIN txns = 1 .. Len(txns)
  BY LenProperties DEF StoreTypeOK
<1>2. /\ txns' \in Seq(Rows \cup {row})
      /\ Len(txns') = Len(txns) + 1
      /\ \A i \in 1 .. Len(txns) : txns'[i] = txns[i]
      /\ txns'[Len(txns) + 1] = row
  BY <1>1, AppendProperties DEF OneRowMore
<1>3. DOMAIN txns' = 1 .. Len(txns) + 1
  BY <1>2, LenProperties
<1>. QED
  BY <1>1, <1>2, <1>3 DEF RowsKeepOperations, TxnIds

LEMMA UpdateKeeps ==
    ASSUME StoreTypeOK, NEW c, CopyOfRow(c), NEW row \in Rows, row.op = c.row.op, UpdateTxn(c, row)
    PROVE  RowsKeepOperations /\ Len(txns') = Len(txns) /\ TxnIds' = TxnIds
<1>1. txns \in Seq(Rows) /\ c.id \in DOMAIN txns
  BY DEF StoreTypeOK, CopyOfRow, TxnIds
<1>2. /\ txns' = [txns EXCEPT ![c.id] = row]
      /\ DOMAIN txns' = DOMAIN txns
      /\ \A i \in DOMAIN txns : txns'[i] = IF i = c.id THEN row ELSE txns[i]
  BY <1>1 DEF UpdateTxn
<1>3. txns' \in Seq(Rows)
  BY <1>1, <1>2, UpdateType
<1>4. Len(txns') = Len(txns)
  BY <1>1, <1>2, <1>3, LenProperties
<1>. QED
  BY <1>2, <1>4 DEF RowsKeepOperations, TxnIds, CopyOfRow

LEMMA NothingChanged ==
    ASSUME UNCHANGED txns
    PROVE  RowsKeepOperations /\ Len(txns') = Len(txns) /\ TxnIds' = TxnIds
BY DEF RowsKeepOperations, TxnIds

\* The transitions of a row leave its operation alone.
LEMMA TransitionsKeep ==
    ASSUME NEW row \in Rows, NEW code, NEW cents, NEW id
    PROVE  /\ MarkRejected(row, code).op = row.op
           /\ MarkProcessed(row, cents).op = row.op
           /\ IncrementRetry(row).op = row.op
           /\ ResolveReference(row, id).op = row.op
BY DEF Rows, MarkRejected, MarkProcessed, IncrementRetry, ResolveReference

LEMMA HandlerKeepsRows ==
    ASSUME TypeInv, NEW h \in Handlers, Handling(h) \/ AbortHandler(h)
    PROVE  \/ UNCHANGED txns
           \/ \E row : OneRowMore(row)
<1>1. CASE \E q \in Requests : Receive(h, q) \/ RefuseOpening(h, q)
  BY <1>1 DEF Receive, RefuseOpening, storeVars
<1>2. CASE ReplayRedelivered(h) \/ FindByKey(h) \/ FindByExternal(h)
  BY <1>2 DEF ReplayRedelivered, FindByKey, FindByExternal, Replay, Fail, GoTo, storeVars
<1>3. CASE LockWallet(h) \/ ReadReference(h)
  BY <1>3 DEF LockWallet, ReadReference, Fail, storeVars
<1>4. CASE PersistPending(h) \/ PersistRejected(h) \/ PersistLoss(h) \/ PersistProcessed(h)
  BY <1>4 DEF PersistPending, PersistRejected, PersistLoss, PersistProcessed, CommitNew, OneRowMore
<1>5. CASE FailUnsupported(h) \/ LoseInsertRace(h) \/ RecoverDuplicate(h) \/ AbortHandler(h)
  BY <1>5 DEF FailUnsupported, LoseInsertRace, RecoverDuplicate, AbortHandler, Fail
<1>. QED
  BY <1>1, <1>2, <1>3, <1>4, <1>5 DEF Handling, HandlerStep

LEMMA RetrierKeepsRows ==
    ASSUME TypeInv, CopiesOfRows, NEW r \in Retriers,
           RetrierStep(r) \/ AbortItem(r) \/ CrashRetrier(r)
    PROVE  RowsKeepOperations /\ Len(txns') = Len(txns) /\ TxnIds' = TxnIds
<1>1. StoreTypeOK /\ RetrierTypeOK /\ RetrierControl
  BY DEF TypeInv, TypeOK
<1>2. ASSUME NEW c, c \in Copies, CopyOfRow(c), NEW row \in Rows, row.op = c.row.op,
             UpdateTxn(c, row)
      PROVE  RowsKeepOperations /\ Len(txns') = Len(txns) /\ TxnIds' = TxnIds
  BY <1>1, <1>2, UpdateKeeps
<1>3. \A c \in Copies : c.row \in Rows
  BY DEF Copies
<1>4. rpc[r] # "idle" => item[r] \in Copies /\ CopyOfRow(item[r])
  BY <1>1 DEF RetrierControl, CopiesOfRows
<1>5. CASE RejectExhausted(r)
  <2>1. PICK c \in batch[r] : UpdateTxn(c, MarkRejected(c.row, "REFERENCE_NOT_FOUND"))
    BY <1>5 DEF RejectExhausted
  <2>2. c \in Copies /\ CopyOfRow(c)
    BY <1>1 DEF RetrierTypeOK, CopiesOfRows
  <2>3. /\ MarkRejected(c.row, "REFERENCE_NOT_FOUND") \in Rows
        /\ MarkRejected(c.row, "REFERENCE_NOT_FOUND").op = c.row.op
    BY <1>3, <2>2, RowType, TransitionsKeep DEF Codes
  <2>. QED
    BY <1>2, <2>1, <2>2, <2>3
<1>6. CASE PostponeRetry(r)
  <2>1. rpc[r] # "idle" /\ UpdateTxn(item[r], IncrementRetry(item[r].row))
    BY <1>6 DEF PostponeRetry
  <2>2. IncrementRetry(item[r].row) \in Rows /\ IncrementRetry(item[r].row).op = item[r].row.op
    BY <1>3, <1>4, <2>1, RowType, TransitionsKeep
  <2>. QED
    BY <1>2, <1>4, <2>1, <2>2
<1>7. CASE RejectItem(r)
  <2>1. target[r] \in Copies /\ rwal[r] \in WalletRows /\ rpc[r] # "idle"
    BY <1>1, <1>7 DEF RejectItem, RetrierControl
  <2> DEFINE row == IF TargetProcessed(r) THEN ResolveReference(item[r].row, target[r].id)
                    ELSE item[r].row
             code == IF TargetProcessed(r) THEN ItemError(r) ELSE "REFERENCE_NOT_PROCESSABLE"
  <2>2. UpdateTxn(item[r], MarkRejected(row, code))
    BY <1>7 DEF RejectItem
  <2>3. row \in Rows /\ row.op = item[r].row.op
    BY <1>3, <1>4, <2>1, RowType, TransitionsKeep DEF Copies
  <2>4. code \in Codes
    <3>1. CASE TargetProcessed(r)
      <4>1. ItemError(r) # None
        BY <1>7, <3>1 DEF RejectItem, TargetProcessed, IsTerminal
      <4>. QED
        BY <3>1, <4>1, OperationErrorType DEF ItemError
    <3>2. CASE ~TargetProcessed(r)
      BY <3>2 DEF Codes
    <3>. QED
      BY <3>1, <3>2
  <2> HIDE DEF row, code
  <2>5. MarkRejected(row, code) \in Rows /\ MarkRejected(row, code).op = row.op
    BY <2>3, <2>4, RowType, TransitionsKeep
  <2>. QED
    BY <1>2, <1>4, <2>1, <2>2, <2>3, <2>5
<1>8. CASE ApplyItem(r)
  <2>1. item[r] \in Copies /\ target[r] \in Copies /\ CopyOfRow(item[r])
    BY <1>1, <1>4, <1>8, AppliedMovement DEF ApplyItem
  <2>2. PICK moved \in WalletRows : moved = Moved(rwal[r], item[r].row.op, ItemDirection(r))
    BY <1>1, <1>8, AppliedMovement
  <2> DEFINE resolved == ResolveReference(item[r].row, target[r].id)
  <2>3. UpdateTxn(item[r], MarkProcessed(resolved, moved.balance))
    BY <1>8, <2>2 DEF ApplyItem
  <2>4. resolved \in Rows /\ resolved.op = item[r].row.op /\ moved.balance \in Nat
    BY <1>3, <2>1, RowType, TransitionsKeep DEF Copies, WalletRows
  <2> HIDE DEF resolved
  <2>5. /\ MarkProcessed(resolved, moved.balance) \in Rows
        /\ MarkProcessed(resolved, moved.balance).op = resolved.op
    BY <2>4, RowType, TransitionsKeep
  <2>. QED
    BY <1>2, <2>1, <2>3, <2>4, <2>5
<1>9. CASE FetchBatch(r) \/ ReadTarget(r) \/ LockItemWallet(r)
  BY <1>9, NothingChanged DEF FetchBatch, ReadTarget, LockItemWallet, storeVars
<1>10. CASE KeepWaiting(r) \/ AbandonItem(r) \/ AbortItem(r) \/ CrashRetrier(r)
  BY <1>10, NothingChanged DEF KeepWaiting, AbandonItem, AbortItem, CrashRetrier
<1>. QED
  BY <1>5, <1>6, <1>7, <1>8, <1>9, <1>10 DEF RetrierStep, HandleItem

-----------------------------------------------------------------------------
(* A retrier's copies stay copies of their rows *)

CopiesOf(r) ==
    /\ \A c \in batch[r] : CopyOfRow(c)
    /\ rpc[r] # "idle" => CopyOfRow(item[r])

LEMMA CopiesByRetrier == CopiesOfRows <=> \A r \in Retriers : CopiesOf(r)
BY DEF CopiesOfRows, CopiesOf

LEMMA CopyStays ==
    ASSUME NEW c, CopyOfRow(c), RowsKeepOperations
    PROVE  CopyOfRow(c)'
BY DEF CopyOfRow, RowsKeepOperations

LEMMA OtherCopiesStay ==
    ASSUME NEW r \in Retriers, CopiesOf(r), RowsKeepOperations,
           batch'[r] = batch[r], rpc'[r] = rpc[r], item'[r] = item[r]
    PROVE  CopiesOf(r)'
BY CopyStays DEF CopiesOf

\* The next item is one of the batch, and a batch only shrinks while it is handled.
LEMMA OwnCopiesStay ==
    ASSUME TypeInv, NEW r \in Retriers, CopiesOf(r),
           RetrierStep(r) \/ AbortItem(r) \/ CrashRetrier(r), RowsKeepOperations
    PROVE  CopiesOf(r)'
<1>1. RetrierTypeOK /\ StoreTypeOK
  BY DEF TypeInv, TypeOK
<1>2. \A c \in batch[r] : CopyOfRow(c)'
  BY CopyStays DEF CopiesOf
<1>3. CASE FetchBatch(r)
  <2>1. PICK due \in SUBSET TxnIds : batch'[r] = {Copy(i) : i \in due}
    BY <1>1, <1>3 DEF FetchBatch, GetPendingReferences, RetrierTypeOK
  <2>2. txns' = txns /\ rpc'[r] = "idle"
    BY <1>3 DEF FetchBatch, storeVars
  <2>3. ASSUME NEW c \in batch'[r] PROVE CopyOfRow(c)'
    <3>1. PICK i \in TxnIds : c = [id |-> i, row |-> txns[i]]
      BY <2>1 DEF Copy
    <3>. QED
      BY <2>2, <3>1 DEF CopyOfRow, TxnIds
  <2>. QED
    BY <2>2, <2>3 DEF CopiesOf
<1>4. CASE ReadTarget(r)
  <2>1. PICK c \in batch[r] : item'[r] = c /\ batch'[r] = batch[r] \ {c}
    BY <1>1, <1>4 DEF ReadTarget, RetrierTypeOK
  <2>. QED
    BY <1>2, <2>1 DEF CopiesOf
<1>5. CASE LockItemWallet(r)
  <2>1. batch'[r] = batch[r] /\ item'[r] = item[r] /\ rpc[r] # "idle"
    BY <1>5 DEF LockItemWallet
  <2>. QED
    BY <2>1, CopyStays DEF CopiesOf
<1>6. CASE RejectExhausted(r)
  <2>1. batch'[r] \subseteq batch[r] /\ rpc'[r] = "idle"
    BY <1>1, <1>6 DEF RejectExhausted, RetrierTypeOK
  <2>. QED
    BY <1>2, <2>1 DEF CopiesOf
<1>7. CASE \/ PostponeRetry(r) \/ KeepWaiting(r) \/ RejectItem(r) \/ ApplyItem(r)
           \/ AbandonItem(r) \/ AbortItem(r) \/ CrashRetrier(r)
  <2>1. NextItem(r)
    BY <1>7 DEF PostponeRetry, KeepWaiting, RejectItem, ApplyItem, AbandonItem, AbortItem,
                CrashRetrier
  <2>2. batch'[r] \subseteq batch[r]
    BY <1>1, <1>7 DEF PostponeRetry, KeepWaiting, RejectItem, ApplyItem, AbandonItem, AbortItem,
                      CrashRetrier, RetrierTypeOK
  <2>3. rpc'[r] = "idle"
    BY <1>1, <2>1 DEF NextItem, RetrierTypeOK
  <2>. QED
    BY <1>2, <2>2, <2>3 DEF CopiesOf
<1>. QED
  BY <1>3, <1>4, <1>5, <1>6, <1>7 DEF RetrierStep, HandleItem

LEMMA OtherRetriersWait ==
    ASSUME TypeInv, NEW r \in Retriers, RetrierStep(r) \/ AbortItem(r) \/ CrashRetrier(r),
           NEW s \in Retriers \ {r}
    PROVE  batch'[s] = batch[s] /\ rpc'[s] = rpc[s] /\ item'[s] = item[s]
<1>1. RetrierTypeOK
  BY DEF TypeInv, TypeOK
<1>2. CASE FetchBatch(r) \/ RejectExhausted(r) \/ ReadTarget(r) \/ LockItemWallet(r)
  BY <1>1, <1>2 DEF FetchBatch, RejectExhausted, ReadTarget, LockItemWallet, RetrierTypeOK
<1>3. CASE PostponeRetry(r) \/ KeepWaiting(r) \/ RejectItem(r) \/ ApplyItem(r) \/ AbandonItem(r)
  BY <1>1, <1>3 DEF PostponeRetry, KeepWaiting, RejectItem, ApplyItem, AbandonItem, NextItem,
                    RetrierTypeOK
<1>4. CASE AbortItem(r) \/ CrashRetrier(r)
  BY <1>1, <1>4 DEF AbortItem, CrashRetrier, NextItem, RetrierTypeOK
<1>. QED
  BY <1>2, <1>3, <1>4 DEF RetrierStep, HandleItem

-----------------------------------------------------------------------------
(* Movements *)

\* w becomes row by the entry e of a transaction that had no entry.
AccountMove(w, row, e) ==
    /\ Moves(w, row, e)
    /\ row.balance <= MaxCents
    /\ e.amount > 0
    /\ \A v \in Wallets : ~HasLedgerEntry(v, e.txn)
    /\ e.txn \in TxnIds' /\ txns'[e.txn].op.wallet = w /\ txns'[e.txn].op.amount = e.amount
    /\ \/ e.txn \in TxnIds /\ Len(txns') = Len(txns)
       \/ e.txn = Len(txns) + 1 /\ Len(txns') = Len(txns) + 1

LEMMA MovementFits ==
    ASSUME NEW w \in WalletRows, NEW op \in Operations, NEW d \in Directions,
           OperationError(w, op, d) = None, w.balance <= MaxCents
    PROVE  op.amount > 0 /\ BalanceAfter(w, op, d) <= MaxCents
<1>1. w.balance \in Nat /\ op.amount \in Int /\ MaxCents \in Nat
  BY MaxCentsAssumption DEF WalletRows, Operations
<1>2. /\ op.amount > 0
      /\ d = "CREDIT" => w.balance <= MaxCents - op.amount
  BY <1>1, NoneAssumption DEF OperationError, Codes
<1>. QED
  BY <1>1, <1>2 DEF BalanceAfter, Directions

\* The number of a new row has no entry.
LEMMA NewRowHasNoEntry ==
    ASSUME StoreTypeOK, EntriesOfRows, NEW w \in Wallets
    PROVE  ~HasLedgerEntry(w, Len(txns) + 1)
<1>1. Len(txns) \in Nat /\ TxnIds = 1 .. Len(txns)
  BY LenProperties DEF StoreTypeOK, TxnIds
<1>. QED
  BY <1>1 DEF EntriesOfRows, HasLedgerEntry

LEMMA ProcessedAccount ==
    ASSUME TypeInv, LockedReadsAreCurrent, AccountInv, NEW h \in Handlers, PersistProcessed(h)
    PROVE  \E w \in Wallets, row \in WalletRows, e \in LedgerEntries :
               wallets[w] # None /\ AccountMove(w, row, e)
<1> DEFINE op == req[h].op
           w == op.wallet
           d == Direction(h)
           row == Moved(wal[h], op, d)
           e == NewLedgerEntry(Len(txns) + 1, wal[h], op, d)
<1>1. /\ StoreTypeOK /\ HandlerTypeOK /\ HandlerControl
      /\ BalancesFit /\ EntriesOfRows
  BY DEF TypeInv, TypeOK, AccountInv
<1>2. /\ w \in Wallets /\ row \in WalletRows /\ e \in LedgerEntries
      /\ row.balance = BalanceAfter(wal[h], op, d)
      /\ d \in Directions /\ OperationError(wal[h], op, d) = None
  BY <1>1, ProcessedMovement
<1>3. /\ wallets[w] = wal[h] /\ wal[h] \in WalletRows
      /\ req[h] \in Requests /\ op \in Operations /\ req[h].key \in Keys
  BY <1>1, RequestType DEF PersistProcessed, LockedReadsAreCurrent, HandlerControl
<1>4. wallets[w] # None /\ wal[h].balance <= MaxCents
  BY <1>1, <1>2, <1>3, NoneAssumption DEF BalancesFit
<1>5. op.amount > 0 /\ row.balance <= MaxCents
  BY <1>2, <1>3, <1>4, MovementFits
<1>6. Moves(w, row, e)
  <2>1. BalanceOf(w) = wal[h].balance
    BY <1>3, <1>4 DEF BalanceOf
  <2>. QED
    BY <1>2, <2>1, EntryOfMovement DEF Moves, PersistProcessed
<1>7. e.txn = Len(txns) + 1 /\ e.amount = op.amount
  BY DEF NewLedgerEntry
<1>8. PICK t \in Rows : OneRowMore(t) /\ t.op = op
  <2> DEFINE resolved == Resolved(h, NewTransaction(req[h].key, op))
             t == MarkProcessed(resolved, row.balance)
  <2>1. resolved \in Rows /\ resolved.op = op
    <3>1. /\ NewTransaction(req[h].key, op) \in Rows
          /\ NewTransaction(req[h].key, op).op = op
      BY <1>3, NewTransactionType DEF NewTransaction
    <3>2. ref[h] # None => ref[h].id \in Nat
      BY <1>1 DEF HandlerTypeOK
    <3>. QED
      BY <3>1, <3>2, RowType, TransitionsKeep DEF Resolved
  <2>2. row.balance \in Nat
    BY <1>2 DEF WalletRows
  <2>3. OneRowMore(t)
    BY DEF PersistProcessed, CommitNew, OneRowMore
  <2> HIDE DEF resolved
  <2>4. t \in Rows /\ t.op = op
    BY <2>1, <2>2, RowType, TransitionsKeep
  <2>. QED
    BY <2>3, <2>4
<1>9. /\ e.txn \in TxnIds' /\ txns'[e.txn].op.wallet = w /\ txns'[e.txn].op.amount = e.amount
      /\ Len(txns') = Len(txns) + 1
  <2>1. Len(txns) + 1 \in 1 .. Len(txns) + 1
    BY <1>1, LenProperties DEF StoreTypeOK
  <2>. QED
    BY <1>1, <1>7, <1>8, <2>1, AppendKeeps
<1>10. \A v \in Wallets : ~HasLedgerEntry(v, e.txn)
  BY <1>1, <1>7, NewRowHasNoEntry
<1>. QED
  BY <1>2, <1>4, <1>5, <1>6, <1>7, <1>9, <1>10 DEF AccountMove

\* The unique index speaks of one wallet; an entry of another would be of another row.
LEMMA AppliedAccount ==
    ASSUME TypeInv, LockedReadsAreCurrent, AccountInv, NEW r \in Retriers, ApplyItem(r)
    PROVE  \E w \in Wallets, row \in WalletRows, e \in LedgerEntries :
               wallets[w] # None /\ AccountMove(w, row, e)
<1> DEFINE op == item[r].row.op
           w == op.wallet
           d == ItemDirection(r)
           row == Moved(rwal[r], op, d)
           e == NewLedgerEntry(item[r].id, rwal[r], op, d)
<1>1. /\ StoreTypeOK /\ RetrierTypeOK /\ RetrierControl
      /\ BalancesFit /\ EntriesOfRows /\ CopiesOfRows
  BY DEF TypeInv, TypeOK, AccountInv
<1>2. /\ w \in Wallets /\ row \in WalletRows /\ e \in LedgerEntries
      /\ row.balance = BalanceAfter(rwal[r], op, d)
      /\ d \in Directions /\ OperationError(rwal[r], op, d) = None
      /\ item[r] \in Copies
  BY <1>1, AppliedMovement
<1>3. /\ wallets[w] = rwal[r] /\ rwal[r] \in WalletRows
      /\ op \in Operations
      /\ CopyOfRow(item[r])
  BY <1>1, <1>2 DEF ApplyItem, LockedReadsAreCurrent, RetrierControl, CopiesOfRows, Copies, Rows
<1>4. wallets[w] # None /\ rwal[r].balance <= MaxCents
  BY <1>1, <1>2, <1>3, NoneAssumption DEF BalancesFit
<1>5. op.amount > 0 /\ row.balance <= MaxCents
  BY <1>2, <1>3, <1>4, MovementFits
<1>6. Moves(w, row, e)
  <2>1. BalanceOf(w) = rwal[r].balance
    BY <1>3, <1>4 DEF BalanceOf
  <2>. QED
    BY <1>2, <2>1, EntryOfMovement DEF Moves, ApplyItem
<1>7. e.txn = item[r].id /\ e.amount = op.amount
  BY DEF NewLedgerEntry
<1>8. /\ e.txn \in TxnIds /\ txns[e.txn].op.wallet = w
      /\ e.txn \in TxnIds' /\ txns'[e.txn].op.wallet = w /\ txns'[e.txn].op.amount = e.amount
      /\ Len(txns') = Len(txns)
  <2>1. RowsKeepOperations /\ Len(txns') = Len(txns)
    BY <1>1, RetrierKeepsRows DEF RetrierStep, HandleItem
  <2>. QED
    BY <1>3, <1>7, <2>1 DEF CopyOfRow, RowsKeepOperations
<1>9. \A v \in Wallets : ~HasLedgerEntry(v, e.txn)
  <2>1. ~HasLedgerEntry(w, e.txn)
    BY <1>7 DEF ApplyItem
  <2>2. ASSUME NEW v \in Wallets, HasLedgerEntry(v, e.txn) PROVE v = w
    BY <1>1, <1>8, <2>2 DEF HasLedgerEntry, EntriesOfRows
  <2>. QED
    BY <2>1, <2>2
<1>10. e.amount > 0
  BY <1>5, <1>7
<1> HIDE DEF w, d, row, e
<1>11. AccountMove(w, row, e)
  BY <1>5, <1>6, <1>8, <1>9, <1>10 DEF AccountMove
<1>. QED
  BY <1>2, <1>4, <1>11

LEMMA OpeningAccount ==
    ASSUME TypeInv, AccountInv, NEW o \in Openings, OpenWallet(o), o.balance > 0
    PROVE  \E w \in Wallets, row \in WalletRows, e \in LedgerEntries :
               /\ AccountMove(w, row, e) /\ wallets[w] = None
               /\ Len(txns') = Len(txns) + 1 /\ e.txn = Len(txns) + 1
<1>1. /\ o.wallet \in Wallets /\ o.player \in Players
      /\ o.currency \in Currencies /\ o.balance \in Nat /\ o.balance <= MaxCents
      /\ wallets[o.wallet] = None /\ CreditOpening(o)
      /\ StoreTypeOK /\ EntriesOfRows
  BY OpeningsAssumption, MaxCentsAssumption DEF OpenWallet, TypeInv, TypeOK, AccountInv
<1>2. NewWallet(o) \in WalletRows /\ NewWallet(o).balance = o.balance
  BY <1>1 DEF NewWallet, WalletRows
<1>3. Len(txns) + 1 \in Nat
  BY <1>1, LenProperties DEF StoreTypeOK
<1>4. PICK e \in LedgerEntries :
         e = [txn |-> Len(txns) + 1, direction |-> "CREDIT", amount |-> o.balance,
              before |-> 0, after |-> o.balance]
  BY <1>1, <1>3 DEF LedgerEntries, Directions
<1>5. Moves(o.wallet, NewWallet(o), e)
  BY <1>1, <1>2, <1>4 DEF Moves, OpenWallet, CreditOpening, EntryAdds, BalanceOf
<1>6. PICK t \in Rows : OneRowMore(t) /\ t.op.wallet = o.wallet /\ t.op.amount = o.balance
  <2> DEFINE n == NewTransaction(None, OpeningOperation(o))
  <2>1. n \in Rows /\ n.op.wallet = o.wallet /\ n.op.amount = o.balance
    <3>1. /\ OpeningOperation(o) \in Operations /\ OpeningOperation(o).wallet = o.wallet
          /\ OpeningOperation(o).amount = o.balance
      BY <1>1 DEF OpeningOperation, Operations, Kinds
    <3>. QED
      BY <3>1, NewTransactionType DEF NewTransaction
  <2>2. OneRowMore(MarkProcessed(n, o.balance))
    BY <1>1 DEF CreditOpening, OneRowMore
  <2> HIDE DEF n
  <2>3. /\ MarkProcessed(n, o.balance) \in Rows
        /\ MarkProcessed(n, o.balance).op.wallet = o.wallet
        /\ MarkProcessed(n, o.balance).op.amount = o.balance
    BY <1>1, <2>1, RowType, TransitionsKeep
  <2>. QED
    BY <2>2, <2>3
<1>7. /\ e.txn \in TxnIds' /\ txns'[e.txn].op.wallet = o.wallet
      /\ txns'[e.txn].op.amount = e.amount
      /\ Len(txns') = Len(txns) + 1
  <2>1. Len(txns) + 1 \in 1 .. Len(txns) + 1
    BY <1>1, LenProperties DEF StoreTypeOK
  <2>. QED
    BY <1>1, <1>4, <1>6, <2>1, AppendKeeps
<1>8. \A v \in Wallets : ~HasLedgerEntry(v, e.txn)
  BY <1>1, <1>4, NewRowHasNoEntry
<1>. QED
  BY <1>1, <1>2, <1>4, <1>5, <1>7, <1>8 DEF AccountMove

-----------------------------------------------------------------------------
(* The invariant *)

LEMMA RowsOnlyGrow ==
    ASSUME TypeInv, AccountInv, [Next]_vars
    PROVE  RowsKeepOperations
<1>1. StoreTypeOK /\ CopiesOfRows
  BY DEF TypeInv, TypeOK, AccountInv
<1>2. ASSUME NEW h \in Handlers, Handling(h) \/ AbortHandler(h)
      PROVE  RowsKeepOperations
  BY <1>1, <1>2, HandlerKeepsRows, NothingChanged, AppendKeeps
<1>3. ASSUME NEW r \in Retriers, RetrierStep(r) \/ AbortItem(r) \/ CrashRetrier(r)
      PROVE  RowsKeepOperations
  BY <1>1, <1>3, RetrierKeepsRows
<1>4. ASSUME NEW o \in Openings, Opening(o)
      PROVE  RowsKeepOperations
  <2>1. UNCHANGED txns \/ \E row : OneRowMore(row)
    BY <1>4 DEF Opening, OpenWallet, CreditOpening, OneRowMore
  <2>. QED
    BY <1>1, <2>1, NothingChanged, AppendKeeps
<1>5. CASE UNCHANGED vars
  BY <1>5, NothingChanged DEF vars, storeVars
<1>. QED
  BY <1>2, <1>3, <1>4, <1>5 DEF Next, Working, Failing, Retrying

LEMMA CopiesKept ==
    ASSUME TypeInv, AccountInv, [Next]_vars
    PROVE  CopiesOfRows'
<1>1. RowsKeepOperations
  BY RowsOnlyGrow
<1>2. \A r \in Retriers : CopiesOf(r)
  BY CopiesByRetrier DEF AccountInv
<1>3. ASSUME UNCHANGED retrierVars PROVE \A s \in Retriers : CopiesOf(s)'
  BY <1>1, <1>2, <1>3, OtherCopiesStay DEF retrierVars
<1>4. ASSUME NEW r \in Retriers, RetrierStep(r) \/ AbortItem(r) \/ CrashRetrier(r)
      PROVE  \A s \in Retriers : CopiesOf(s)'
  <2>1. CopiesOf(r)'
    BY <1>1, <1>2, <1>4, OwnCopiesStay
  <2>2. \A s \in Retriers \ {r} : CopiesOf(s)'
    BY <1>1, <1>2, <1>4, OtherCopiesStay, OtherRetriersWait
  <2>. QED
    BY <2>1, <2>2
<1>5. \A s \in Retriers : CopiesOf(s)'
  BY <1>3, <1>4 DEF Next, Working, Failing, Opening, Handling, Retrying, vars
<1>. QED
  BY <1>5, CopiesByRetrier DEF CopiesOfRows, CopiesOf

\* A movement leaves balances that fit and an entry of a row.
LEMMA AccountMoveKeeps ==
    ASSUME StoreTypeOK, BalancesFit, EntriesOfRows, RowsKeepOperations, NEW w \in Wallets,
           NEW row \in WalletRows, NEW e \in LedgerEntries, AccountMove(w, row, e)
    PROVE  BalancesFit' /\ EntriesOfRows'
<1>1. /\ wallets' = [wallets EXCEPT ![w] = row]
      /\ ledger' = [ledger EXCEPT ![w] = Append(ledger[w], e)]
  BY DEF AccountMove, Moves, UpdateWallet, CreateLedgerEntry
<1>2. BalancesFit'
  BY <1>1 DEF BalancesFit, AccountMove, StoreTypeOK
<1>3. ASSUME NEW v \in Wallets, NEW k \in DOMAIN ledger'[v]
      PROVE  ledger'[v][k].txn \in TxnIds' /\ txns'[ledger'[v][k].txn].op.wallet = v
  <2>1. ASSUME NEW x \in TxnIds, txns[x].op.wallet = v
        PROVE  x \in TxnIds' /\ txns'[x].op.wallet = v
    BY <2>1 DEF RowsKeepOperations
  <2>2. CASE v # w
    <3>1. ledger'[v] = ledger[v]
      BY <1>1, <2>2 DEF StoreTypeOK
    <3>. QED
      BY <1>3, <2>1, <3>1 DEF EntriesOfRows
  <2>3. CASE v = w
    <3>1. /\ ledger'[v] = Append(ledger[v], e)
          /\ ledger[v] \in Seq(LedgerEntries)
      BY <1>1, <2>3 DEF StoreTypeOK
    <3>2. /\ Len(ledger[v]) \in Nat
          /\ DOMAIN ledger[v] = 1 .. Len(ledger[v])
          /\ DOMAIN ledger'[v] = 1 .. Len(ledger[v]) + 1
          /\ \A i \in 1 .. Len(ledger[v]) : ledger'[v][i] = ledger[v][i]
          /\ ledger'[v][Len(ledger[v]) + 1] = e
      BY <3>1, AppendProperties, LenProperties
    <3>3. CASE k \in DOMAIN ledger[v]
      BY <2>1, <3>2, <3>3 DEF EntriesOfRows
    <3>4. CASE k = Len(ledger[v]) + 1
      BY <2>3, <3>2, <3>4 DEF AccountMove
    <3>. QED
      BY <1>3, <3>2, <3>3, <3>4
  <2>. QED
    BY <2>2, <2>3
<1>. QED
  BY <1>2, <1>3 DEF EntriesOfRows

\* The four ways a step touches the money: an account move of an open wallet, an opening
\* with money, an opening without, or none.
LEMMA MoneySteps ==
    ASSUME TypeInv, LockedReadsAreCurrent, AccountInv, [Next]_vars
    PROVE  \/ \E w \in Wallets, row \in WalletRows, e \in LedgerEntries :
                 /\ AccountMove(w, row, e)
                 /\ wallets[w] = None => e.txn = Len(txns) + 1 /\ Len(txns') = Len(txns) + 1
           \/ \E w \in Wallets, row \in WalletRows :
                 /\ wallets[w] = None /\ UpdateWallet(w, row) /\ row.balance = 0
                 /\ UNCHANGED <<txns, ledger>>
           \/ /\ UNCHANGED <<wallets, ledger>>
              /\ Len(txns') = Len(txns) \/ Len(txns') = Len(txns) + 1
<1>1. StoreTypeOK /\ CopiesOfRows
  BY DEF TypeInv, TypeOK, AccountInv
<1>2. CASE \E h \in Handlers : PersistProcessed(h)
  BY <1>2, ProcessedAccount
<1>3. CASE \E r \in Retriers : ApplyItem(r)
  BY <1>3, AppliedAccount
<1>4. ASSUME NEW o \in Openings, OpenWallet(o)
      PROVE  \/ \E w \in Wallets, row \in WalletRows, e \in LedgerEntries :
                   /\ AccountMove(w, row, e)
                   /\ wallets[w] = None =>
                         e.txn = Len(txns) + 1 /\ Len(txns') = Len(txns) + 1
             \/ \E w \in Wallets, row \in WalletRows :
                   /\ wallets[w] = None /\ UpdateWallet(w, row) /\ row.balance = 0
                   /\ UNCHANGED <<txns, ledger>>
  <2>1. CASE o.balance > 0
    BY <1>4, <2>1, OpeningAccount
  <2>2. CASE ~(o.balance > 0)
    <3>1. /\ o.wallet \in Wallets /\ o.player \in Players /\ o.currency \in Currencies
          /\ o.balance = 0 /\ NewWallet(o).balance = 0
      BY <2>2, OpeningsAssumption, MaxCentsAssumption DEF NewWallet
    <3>2. NewWallet(o) \in WalletRows
      BY <3>1 DEF NewWallet, WalletRows
    <3>. QED
      BY <1>4, <2>2, <3>1, <3>2 DEF OpenWallet
  <2>. QED
    BY <2>1, <2>2
<1>5. ASSUME UNCHANGED txns \/ (\E row : OneRowMore(row)), UNCHANGED <<wallets, ledger>>
      PROVE  Len(txns') = Len(txns) \/ Len(txns') = Len(txns) + 1
  BY <1>1, <1>5, AppendKeeps
<1>6. ASSUME NEW h \in Handlers, Handling(h) \/ AbortHandler(h), ~PersistProcessed(h)
      PROVE  /\ UNCHANGED <<wallets, ledger>>
             /\ Len(txns') = Len(txns) \/ Len(txns') = Len(txns) + 1
  BY <1>5, <1>6, MoneyMovesOnlyHere, HandlerKeepsRows
<1>7. ASSUME NEW r \in Retriers, RetrierStep(r) \/ AbortItem(r) \/ CrashRetrier(r),
             ~ApplyItem(r)
      PROVE  UNCHANGED <<wallets, ledger>> /\ Len(txns') = Len(txns)
  BY <1>1, <1>7, MoneyMovesOnlyHere, RetrierKeepsRows
<1>8. CASE UNCHANGED vars
  BY <1>8 DEF vars, storeVars
<1>. QED
  BY <1>2, <1>3, <1>4, <1>6, <1>7, <1>8 DEF Next, Working, Failing, Opening, Retrying

LEMMA AccountInvKept ==
    ASSUME TypeInv, LockedReadsAreCurrent, AccountInv, [Next]_vars
    PROVE  AccountInv'
<1>1. StoreTypeOK /\ BalancesFit /\ EntriesOfRows /\ RowsKeepOperations
  BY RowsOnlyGrow DEF TypeInv, TypeOK, AccountInv
<1>2. ASSUME NEW w \in Wallets, NEW row \in WalletRows, NEW e \in LedgerEntries,
             AccountMove(w, row, e)
      PROVE  BalancesFit' /\ EntriesOfRows'
  BY <1>1, <1>2, AccountMoveKeeps
<1>3. ASSUME UNCHANGED ledger PROVE EntriesOfRows'
  BY <1>1, <1>3 DEF EntriesOfRows, RowsKeepOperations
<1>4. ASSUME NEW w \in Wallets, NEW row \in WalletRows, UpdateWallet(w, row), row.balance = 0
      PROVE  BalancesFit'
  BY <1>1, <1>4, MaxCentsAssumption DEF BalancesFit, UpdateWallet, StoreTypeOK
<1>5. ASSUME UNCHANGED wallets PROVE BalancesFit'
  BY <1>1, <1>5 DEF BalancesFit
<1>6. BalancesFit' /\ EntriesOfRows'
  BY <1>2, <1>3, <1>4, <1>5, MoneySteps
<1>. QED
  BY <1>6, CopiesKept DEF AccountInv

\* No balance leaves the money type, a retrier works from copies of its rows, and every
\* ledger entry belongs to a transaction of that wallet.
\* (money.go:90-113, process_wager.go:315-376, retry_pending_ref.go:66-246)
THEOREM AccountInvariant == Spec => []AccountInv
<1>1. Init => AccountInv
  <2>1. ASSUME Init PROVE BalancesFit /\ CopiesOfRows
    BY <2>1 DEF Init, StoreInit, RetrierInit, BalancesFit, CopiesOfRows
  <2>2. ASSUME Init PROVE EntriesOfRows
    <3>1. \A w \in Wallets : ledger[w] \in Seq(LedgerEntries) /\ Len(ledger[w]) = 0
      BY <2>2, EmptySeq DEF Init, StoreInit
    <3>2. \A w \in Wallets : DOMAIN ledger[w] = 1 .. 0
      BY <3>1, LenProperties
    <3>. QED
      BY <3>2 DEF EntriesOfRows
  <2>. QED
    BY <2>1, <2>2 DEF AccountInv
<1>2. TypeInv /\ LockedReadsAreCurrent /\ AccountInv /\ [Next]_vars => AccountInv'
  BY AccountInvKept
<1>. QED
  BY <1>1, <1>2, TypeInvariant, LockedReadsCurrent, PTL DEF Spec

-----------------------------------------------------------------------------
(* A transaction moves money once at most *)

\* An entry is of its row's wallet and amount, and no other entry, of any wallet, is of that
\* row.
EntryOnly(w, k) ==
    /\ ledger[w][k].txn \in TxnIds
    /\ txns[ledger[w][k].txn].op.wallet = w
    /\ txns[ledger[w][k].txn].op.amount = ledger[w][k].amount
    /\ \A v \in Wallets : \A j \in DOMAIN ledger[v] :
          ledger[v][j].txn = ledger[w][k].txn => v = w /\ j = k

MovedOnce == \A w \in Wallets : \A k \in DOMAIN ledger[w] : EntryOnly(w, k)

\* A movement extends one ledger by the entry of a transaction that had none.
LEMMA MovedOnceKept ==
    ASSUME StoreTypeOK, RowsKeepOperations, MovedOnce, NEW w \in Wallets, NEW row \in WalletRows,
           NEW e \in LedgerEntries, AccountMove(w, row, e)
    PROVE  MovedOnce'
<1> DEFINE n == Len(ledger[w])
<1>1. /\ DOMAIN ledger[w] = 1 .. n /\ n \in Nat /\ ledger[w] \in Seq(LedgerEntries)
      /\ ledger'[w] = Append(ledger[w], e)
      /\ \A v \in Wallets \ {w} : ledger'[v] = ledger[v]
  BY LenProperties DEF StoreTypeOK, AccountMove, Moves, CreateLedgerEntry
<1>2. /\ DOMAIN ledger'[w] = 1 .. n + 1
      /\ \A k \in 1 .. n : ledger'[w][k] = ledger[w][k]
      /\ ledger'[w][n + 1] = e
  BY <1>1, AppendProperties, LenProperties
<1> HIDE DEF n
<1>3. ASSUME NEW v \in Wallets, NEW k \in DOMAIN ledger'[v]
      PROVE  \/ k \in DOMAIN ledger[v] /\ ledger'[v][k] = ledger[v][k]
             \/ v = w /\ k = n + 1 /\ ledger'[v][k] = e
  BY <1>1, <1>2, <1>3
<1>4. ASSUME NEW v \in Wallets, NEW k \in DOMAIN ledger[v]
      PROVE  /\ ledger[v][k].txn # e.txn
             /\ ledger[v][k].txn \in TxnIds'
             /\ txns'[ledger[v][k].txn].op.wallet = v
             /\ txns'[ledger[v][k].txn].op.amount = ledger[v][k].amount
  BY DEF AccountMove, HasLedgerEntry, MovedOnce, EntryOnly, RowsKeepOperations
<1>5. /\ e.txn \in TxnIds' /\ txns'[e.txn].op.wallet = w /\ txns'[e.txn].op.amount = e.amount
  BY DEF AccountMove
<1>6. ASSUME NEW v \in Wallets, NEW k \in DOMAIN ledger'[v]
      PROVE  /\ ledger'[v][k].txn \in TxnIds'
             /\ txns'[ledger'[v][k].txn].op.wallet = v
             /\ txns'[ledger'[v][k].txn].op.amount = ledger'[v][k].amount
  BY <1>3, <1>4, <1>5, <1>6
<1>7. ASSUME NEW v \in Wallets, NEW k \in DOMAIN ledger'[v],
             NEW u \in Wallets, NEW j \in DOMAIN ledger'[u],
             ledger'[u][j].txn = ledger'[v][k].txn
      PROVE  u = v /\ j = k
  <2>1. CASE k \in DOMAIN ledger[v] /\ ledger'[v][k] = ledger[v][k]
    <3>1. j \in DOMAIN ledger[u] /\ ledger'[u][j] = ledger[u][j]
      BY <1>3, <1>4, <1>7, <2>1
    <3>. QED
      BY <1>7, <2>1, <3>1 DEF MovedOnce, EntryOnly
  <2>2. CASE v = w /\ k = n + 1 /\ ledger'[v][k] = e
    BY <1>3, <1>4, <1>7, <2>2
  <2>. QED
    BY <1>3, <2>1, <2>2
<1>. QED
  BY <1>6, <1>7 DEF MovedOnce, EntryOnly

\* However many retriers hold copies of the same row, a transaction has one ledger entry at
\* most, of its amount, in its wallet and in no other.
\* (process_wager.go:346-376, retry_pending_ref.go:225-246)
THEOREM MovedOnceAtMost == Spec => []MovedOnce
<1>1. Init => MovedOnce
  BY DEF Init, StoreInit, MovedOnce
<1>2. TypeInv /\ LockedReadsAreCurrent /\ AccountInv /\ MovedOnce /\ [Next]_vars => MovedOnce'
  <2> SUFFICES ASSUME TypeInv, LockedReadsAreCurrent, AccountInv, MovedOnce, [Next]_vars
               PROVE  MovedOnce'
    OBVIOUS
  <2>1. StoreTypeOK /\ RowsKeepOperations
    BY RowsOnlyGrow DEF TypeInv, TypeOK
  <2>2. CASE UNCHANGED ledger
    BY <2>1, <2>2 DEF MovedOnce, EntryOnly, RowsKeepOperations
  <2>. QED
    BY <2>1, <2>2, MoneySteps, MovedOnceKept
<1>. QED
  BY <1>1, <1>2, TypeInvariant, LockedReadsCurrent, AccountInvariant, PTL DEF Spec

-----------------------------------------------------------------------------
(* The steps of the service are steps of the accounts *)

MovementRecords == [txn : Nat, cents : Int]

LEMMA MovementsAreSequences ==
    ASSUME StoreTypeOK, NEW w \in Wallets
    PROVE  /\ Movements[w] \in Seq(MovementRecords)
           /\ Len(Movements[w]) = Len(ledger[w]) /\ DOMAIN Movements[w] = DOMAIN ledger[w]
<1>1. /\ ledger[w] \in Seq(LedgerEntries)
      /\ Len(ledger[w]) \in Nat /\ DOMAIN ledger[w] = 1 .. Len(ledger[w])
      /\ \A k \in DOMAIN ledger[w] : ledger[w][k] \in LedgerEntries
  BY LenProperties, ElementOfSeq DEF StoreTypeOK
<1>2. \A e \in LedgerEntries : MovementOf(e) \in MovementRecords
  BY DEF MovementOf, LedgerEntries, MovementRecords
<1>3. Movements[w] = [k \in 1 .. Len(ledger[w]) |-> MovementOf(ledger[w][k])]
  BY <1>1 DEF Movements
<1>4. Movements[w] \in [1 .. Len(ledger[w]) -> MovementRecords]
  BY <1>1, <1>2, <1>3
<1>5. Movements[w] \in Seq(MovementRecords)
  BY <1>1, <1>4, SeqDef
<1>. QED
  BY <1>1, <1>4, <1>5, LenProperties

\* An account move appends its movement, and the transaction had not moved before.
LEMMA MoveOfMovements ==
    ASSUME StoreTypeOK, NEW w \in Wallets, NEW row \in WalletRows, NEW e \in LedgerEntries,
           AccountMove(w, row, e)
    PROVE  Accounts!MoveTo(w, e.txn, row.balance, row.balance - BalanceOf(w))
<1>1. /\ wallets' = [wallets EXCEPT ![w] = row]
      /\ ledger' = [ledger EXCEPT ![w] = Append(ledger[w], e)]
  BY DEF AccountMove, Moves, UpdateWallet, CreateLedgerEntry
<1>2. MovementOf(e) = Accounts!Movement(e.txn, row.balance - BalanceOf(w))
  <2>1. /\ EntryAdds(e) /\ e.before = BalanceOf(w) /\ e.after = row.balance
        /\ e.amount \in Nat /\ e.before \in Nat /\ e.after \in Nat
    BY DEF AccountMove, Moves, LedgerEntries
  <2>. QED
    BY <2>1 DEF MovementOf, EntryAdds, Accounts!Movement
<1>3. ~Accounts!HasMoved(e.txn)
  <2>1. ASSUME NEW v \in Wallets, NEW k \in DOMAIN Movements[v], Movements[v][k].txn = e.txn
        PROVE  FALSE
    <3>1. k \in DOMAIN ledger[v] /\ Movements[v][k] = MovementOf(ledger[v][k])
      BY <2>1, MovementsAreSequences DEF Movements
    <3>2. HasLedgerEntry(v, e.txn)
      BY <2>1, <3>1 DEF HasLedgerEntry, MovementOf
    <3>. QED
      BY <3>2 DEF AccountMove
  <2>. QED
    BY <2>1 DEF Accounts!HasMoved
<1>4. Balances' = [Balances EXCEPT ![w] = row.balance]
  <2>1. row # None
    BY NoneAssumption
  <2>2. \A v \in Wallets : wallets'[v] = IF v = w THEN row ELSE wallets[v]
    BY <1>1 DEF StoreTypeOK
  <2>. QED
    BY <2>1, <2>2 DEF Balances
<1>5. Movements' = [Movements EXCEPT ![w] = Append(Movements[w], MovementOf(e))]
  <2> DEFINE n == Len(ledger[w])
             m == Append(Movements[w], MovementOf(e))
  <2>1. \A v \in Wallets : ledger'[v] = IF v = w THEN Append(ledger[w], e) ELSE ledger[v]
    BY <1>1 DEF StoreTypeOK
  <2>2. /\ MovementOf(e) \in MovementRecords
        /\ Movements[w] \in Seq(MovementRecords) /\ Len(Movements[w]) = n
        /\ ledger[w] \in Seq(LedgerEntries) /\ n \in Nat /\ DOMAIN ledger[w] = 1 .. n
    <3>1. MovementOf(e) \in MovementRecords
      BY DEF MovementOf, MovementRecords, LedgerEntries
    <3>2. ledger[w] \in Seq(LedgerEntries) /\ n \in Nat /\ DOMAIN ledger[w] = 1 .. n
      BY LenProperties DEF StoreTypeOK
    <3>. QED
      BY <3>1, <3>2, MovementsAreSequences
  <2>3. /\ m \in Seq(MovementRecords) /\ Len(m) = n + 1
        /\ \A k \in 1 .. n : m[k] = Movements[w][k]
        /\ m[n + 1] = MovementOf(e)
    BY <2>2, AppendProperties
  <2>4. m \in [1 .. n + 1 -> MovementRecords]
    BY <2>3, LenProperties
  <2>5. /\ Append(ledger[w], e) \in Seq(LedgerEntries)
        /\ DOMAIN Append(ledger[w], e) = 1 .. n + 1
        /\ \A k \in 1 .. n : Append(ledger[w], e)[k] = ledger[w][k]
        /\ Append(ledger[w], e)[n + 1] = e
    BY <2>2, AppendProperties, LenProperties
  <2>6. \A k \in 1 .. n : Movements[w][k] = MovementOf(ledger[w][k])
    BY <2>2 DEF Movements
  <2>7. \A k \in 1 .. n + 1 : m[k] = MovementOf(Append(ledger[w], e)[k])
    <3>1. \A k \in 1 .. n : m[k] = MovementOf(Append(ledger[w], e)[k])
      BY <2>3, <2>5, <2>6
    <3>2. m[n + 1] = MovementOf(Append(ledger[w], e)[n + 1])
      BY <2>3, <2>5
    <3>. QED
      BY <2>2, <3>1, <3>2
  <2> HIDE DEF m
  <2>8. [k \in DOMAIN Append(ledger[w], e) |-> MovementOf(Append(ledger[w], e)[k])] = m
    BY <2>4, <2>5, <2>7
  <2>9. Movements' = [v \in Wallets |-> [k \in DOMAIN ledger'[v] |-> MovementOf(ledger'[v][k])]]
    BY DEF Movements, MovementOf
  <2>10. \A v \in Wallets : Movements'[v] = IF v = w THEN m ELSE Movements[v]
    BY <2>1, <2>8, <2>9 DEF Movements
  <2>11. Movements' = [Movements EXCEPT ![w] = m]
    BY <2>9, <2>10 DEF Movements
  <2>. QED
    BY <2>11 DEF m
<1>. QED
  BY <1>2, <1>3, <1>4, <1>5 DEF Accounts!MoveTo

LEMMA StepImplementsAccounts ==
    ASSUME TypeInv, LockedReadsAreCurrent, AccountInv, [Next]_vars
    PROVE  [Accounts!Next]_Accounts!accountVars
<1>1. StoreTypeOK /\ Len(txns) \in Nat /\ TxnIds = 1 .. Len(txns)
  BY LenProperties DEF TypeInv, TypeOK, StoreTypeOK, TxnIds
<1>2. ASSUME NEW w \in Wallets, NEW row \in WalletRows, NEW e \in LedgerEntries,
             AccountMove(w, row, e),
             wallets[w] = None => e.txn = Len(txns) + 1 /\ Len(txns') = Len(txns) + 1
      PROVE  Accounts!Next
  <2>1. Accounts!MoveTo(w, e.txn, row.balance, row.balance - BalanceOf(w))
    BY <1>1, <1>2, MoveOfMovements
  <2>2. /\ e.txn \in 1 .. Len(txns) + 1
        /\ Len(txns') = IF e.txn > Len(txns) THEN e.txn ELSE Len(txns)
    BY <1>1, <1>2 DEF AccountMove
  <2>3. /\ row.balance \in 0 .. MaxCents
        /\ e.amount \in Nat /\ e.amount > 0 /\ e.before \in Nat /\ e.after \in Nat
        /\ EntryAdds(e) /\ e.before = BalanceOf(w) /\ e.after = row.balance
    BY <1>2, MaxCentsAssumption DEF AccountMove, Moves, WalletRows, LedgerEntries
  <2>4. row.balance # BalanceOf(w)
    BY <2>3 DEF EntryAdds
  <2>5. CASE wallets[w] = None
    <3>1. Balances[w] = None /\ BalanceOf(w) = 0 /\ e.txn = Len(txns')
      BY <1>2, <2>5 DEF Balances, BalanceOf
    <3>2. row.balance > 0 /\ row.balance - BalanceOf(w) = row.balance
      BY <2>3, <2>4, <3>1
    <3>3. Accounts!OpenWith(w, row.balance)
      BY <1>2, <2>1, <2>5, <3>1, <3>2 DEF Accounts!OpenWith
    <3>4. Balances' = [Balances EXCEPT ![w] = row.balance]
      BY <2>1 DEF Accounts!MoveTo
    <3>. QED
      BY <2>3, <3>3, <3>4 DEF Accounts!Next
  <2>6. CASE wallets[w] # None
    <3>1. Balances[w] = BalanceOf(w) /\ Balances[w] # None
      BY <2>3, <2>6, NoneAssumption DEF Balances, BalanceOf
    <3>2. Accounts!Move(w, e.txn, row.balance)
      BY <2>1, <2>2, <2>4, <3>1 DEF Accounts!Move
    <3>3. Balances' = [Balances EXCEPT ![w] = row.balance]
      BY <2>1 DEF Accounts!MoveTo
    <3>. QED
      BY <2>2, <2>3, <3>2, <3>3 DEF Accounts!Next
  <2>. QED
    BY <2>5, <2>6
<1>3. ASSUME NEW w \in Wallets, NEW row \in WalletRows, wallets[w] = None,
             UpdateWallet(w, row), row.balance = 0, UNCHANGED <<txns, ledger>>
      PROVE  Accounts!Next
  <2>1. row # None
    BY NoneAssumption
  <2>2. \A v \in Wallets : wallets'[v] = IF v = w THEN row ELSE wallets[v]
    BY <1>1, <1>3 DEF UpdateWallet, StoreTypeOK
  <2>3. Balances[w] = None /\ Balances' = [Balances EXCEPT ![w] = 0]
    BY <1>3, <2>1, <2>2 DEF Balances
  <2>4. Movements' = Movements
    BY <1>3 DEF Movements, MovementOf
  <2>5. 0 \in 0 .. MaxCents
    BY MaxCentsAssumption
  <2>. QED
    BY <1>3, <2>3, <2>4, <2>5 DEF Accounts!OpenEmpty, Accounts!Next
<1>4. ASSUME UNCHANGED <<wallets, ledger>>,
             Len(txns') = Len(txns) \/ Len(txns') = Len(txns) + 1
      PROVE  Accounts!Accept \/ UNCHANGED Accounts!accountVars
  <2>1. Balances' = Balances /\ Movements' = Movements
    BY <1>4 DEF Balances, Movements, MovementOf
  <2>. QED
    BY <1>4, <2>1 DEF Accounts!Accept, Accounts!accountVars
<1>. QED
  BY <1>2, <1>3, <1>4, MoneySteps DEF Accounts!Next

\* The wager service, seen from its wallets and its ledgers, implements WalletAccounts.
\* (process_wager.go:193-376, retry_pending_ref.go:131-246, open_wallet.go:63-97)
THEOREM ServiceImplementsAccounts == Spec => ImplementsWalletAccounts
<1>1. Init => Accounts!Init
  <2>1. ASSUME Init PROVE Len(txns) = 0
    BY <2>1 DEF Init, StoreInit
  <2>2. ASSUME Init PROVE Balances = [w \in Wallets |-> None]
    BY <2>2 DEF Init, StoreInit, Balances
  <2>3. ASSUME Init PROVE Movements = [w \in Wallets |-> <<>>]
    <3>1. \A w \in Wallets : ledger[w] = <<>>
      BY <2>3 DEF Init, StoreInit
    <3>2. StoreTypeOK
      BY <2>3, InitType DEF TypeInv, TypeOK
    <3>3. \A w \in Wallets : Movements[w] \in Seq(MovementRecords) /\ Len(Movements[w]) = 0
      BY <3>1, <3>2, MovementsAreSequences
    <3>4. \A w \in Wallets : Movements[w] = <<>>
      BY <3>3, EmptySeq
    <3>. QED
      BY <3>4 DEF Movements
  <2>. QED
    BY <2>1, <2>2, <2>3 DEF Accounts!Init
<1>2. TypeInv /\ LockedReadsAreCurrent /\ AccountInv /\ [Next]_vars
        => [Accounts!Next]_Accounts!accountVars
  BY StepImplementsAccounts
<1>. QED
  BY <1>1, <1>2, TypeInvariant, LockedReadsCurrent, AccountInvariant, PTL
     DEF Spec, ImplementsWalletAccounts, Accounts!Spec

=============================================================================
