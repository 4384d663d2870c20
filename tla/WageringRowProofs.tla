-------------------------- MODULE WageringRowProofs --------------------------
(***************************************************************************)
(* What becomes of the rows, for every value of the constants and however  *)
(* many retriers write back copies that may be old.  One answer decides a  *)
(* key or an external id, and a replay repeats it: a row decided on        *)
(* arrival was never read by a retrier, since the retriers only hold       *)
(* copies of rows that had to wait, so nothing changes it any more.  What  *)
(* a step writes to the rows, the ledgers and the outbox belongs together: *)
(* the versions announced for a wallet grow, a reversal is announced after *)
(* the operation it names, and the movement and the events of a            *)
(* transaction are those that its row tells, also when a slower retrier    *)
(* overwrites what a faster one decided.                                   *)
(***************************************************************************)
(***************************************************************************)
EXTENDS WageringAccountProofs, FiniteSetTheorems

\* The row had to wait for its reference when it arrived.
Waited(row) == row.retryCount >= 1

\* The copies a retrier has in hand.
Holds(r, c) == c \in batch[r] \/ (rpc[r] # "idle" /\ c = item[r])

PendingRowsWaited ==
    \A i \in TxnIds : txns[i].status = "PENDING_REFERENCE" => Waited(txns[i])

CopiesWaited ==
    \A r \in Retriers, c \in Copies : Holds(r, c) =>
        txns[c.id].key = c.row.key /\ Waited(c.row) /\ Waited(txns[c.id])

\* The reference a handler read is a row, whose operation has not changed.
RefsOfRows ==
    \A h \in Handlers : ref[h] # None =>
        ref[h].id \in TxnIds /\ txns[ref[h].id].op = ref[h].row.op

\* The row of an original answer; a processed one is still as the answer told.
Decided(a) ==
    LET row == txns[a.txn]
    IN /\ a.txn \in TxnIds
       /\ row.key = a.req.key /\ row.op = a.req.op
       /\ a.status = "PROCESSED" =>
             /\ ~Waited(row) /\ row.status = "PROCESSED"
             /\ a.balance \in Nat /\ row.result = a.balance
             /\ row.failure = a.failure

OriginalsDecided == \A a \in originals : Decided(a)

RepliesOfRows ==
    \A h \in Handlers : reply[h] # None => reply[h].txn \in TxnIds \cup {0}

ReversedOnArrival(i) ==
    IsReversal(i) /\ Processed(i) /\ ~Waited(Row(i))
        => Row(i).reference \in TxnIds /\ ReversalMatches(i)

DirectReversals == \A i \in TxnIds : ReversedOnArrival(i)

ReplayInv ==
    /\ PendingRowsWaited /\ CopiesWaited /\ RefsOfRows
    /\ OriginalsDecided /\ OneOriginalAnswer
    /\ RepliesOfRows /\ ReplaysRepeatProcessed
    /\ DirectReversals

-----------------------------------------------------------------------------
(* What a step does to the rows *)

\* A retrier writes the row of a copy it holds and does not undo the wait.
Rewrites(r) ==
    \E c, row :
        /\ c \in Copies /\ Holds(r, c) /\ UpdateTxn(c, row)
        /\ row.key = c.row.key /\ row.retryCount \in {c.row.retryCount, c.row.retryCount + 1}

LEMMA RetrierUpdates ==
    ASSUME TypeInv, NEW r \in Retriers, RetrierStep(r) \/ AbortItem(r) \/ CrashRetrier(r)
    PROVE  UNCHANGED txns \/ Rewrites(r)
<1>1. RetrierTypeOK /\ RetrierControl
  BY DEF TypeInv, TypeOK
<1>2. \A c \in batch[r] : c \in Copies
  BY <1>1 DEF RetrierTypeOK
<1>3. rpc[r] # "idle" => item[r] \in Copies
  BY <1>1 DEF RetrierControl
<1>4. ASSUME NEW row \in Rows, NEW code, NEW cents, NEW id
      PROVE  /\ MarkRejected(row, code).key = row.key
             /\ MarkRejected(row, code).retryCount = row.retryCount
             /\ MarkProcessed(row, cents).key = row.key
             /\ MarkProcessed(row, cents).retryCount = row.retryCount
             /\ IncrementRetry(row).key = row.key
             /\ IncrementRetry(row).retryCount = row.retryCount + 1
             /\ ResolveReference(row, id).key = row.key
             /\ ResolveReference(row, id).retryCount = row.retryCount
             /\ row.retryCount \in Nat
  BY DEF Rows, MarkRejected, MarkProcessed, IncrementRetry, ResolveReference
<1>5. \A c \in Copies : c.row \in Rows /\ c.id \in Nat
  BY DEF Copies
<1>6. CASE RejectExhausted(r)
  <2>1. PICK c \in batch[r] : UpdateTxn(c, MarkRejected(c.row, "REFERENCE_NOT_FOUND"))
    BY <1>6 DEF RejectExhausted
  <2>2. PICK row : row = MarkRejected(c.row, "REFERENCE_NOT_FOUND")
    OBVIOUS
  <2>3. c \in Copies /\ c.row \in Rows /\ Holds(r, c)
    BY <1>2, <1>5 DEF Holds
  <2>4. row.key = c.row.key /\ row.retryCount = c.row.retryCount /\ c.row.retryCount \in Nat
    BY <1>4, <2>2, <2>3
  <2>. QED
    BY <2>1, <2>2, <2>3, <2>4 DEF Rewrites
<1>7. CASE PostponeRetry(r)
  <2>1. rpc[r] # "idle" /\ UpdateTxn(item[r], IncrementRetry(item[r].row))
    BY <1>7 DEF PostponeRetry
  <2>. QED
    BY <1>3, <1>4, <1>5, <2>1 DEF Holds, Rewrites
<1>8. CASE RejectItem(r)
  <2>1. /\ rpc[r] # "idle"
        /\ target[r] \in Copies
    BY <1>1, <1>8 DEF RejectItem, RetrierControl
  <2>2. PICK row, code :
          /\ row = item[r].row \/ row = ResolveReference(item[r].row, target[r].id)
          /\ UpdateTxn(item[r], MarkRejected(row, code))
    BY <1>8 DEF RejectItem
  <2>3. row \in Rows /\ row.key = item[r].row.key /\ row.retryCount = item[r].row.retryCount
    <3>1. item[r].row \in Rows /\ target[r].id \in Nat
      BY <1>3, <1>5, <2>1
    <3>2. CASE row = item[r].row
      BY <3>1, <3>2
    <3>3. CASE row = ResolveReference(item[r].row, target[r].id)
      BY <1>4, <3>1, <3>3, RowType
    <3>. QED
      BY <2>2, <3>2, <3>3
  <2>4. PICK new : new = MarkRejected(row, code)
    OBVIOUS
  <2>5. new.key = row.key /\ new.retryCount = row.retryCount /\ row.retryCount \in Nat
    BY <1>4, <2>3, <2>4
  <2>. QED
    BY <1>3, <2>1, <2>2, <2>3, <2>4, <2>5 DEF Holds, Rewrites
<1>9. CASE ApplyItem(r)
  <2>1. rpc[r] # "idle" /\ target[r] \in Copies
    BY <1>1, <1>9 DEF ApplyItem, RetrierControl
  <2>2. PICK cents :
          UpdateTxn(item[r], MarkProcessed(ResolveReference(item[r].row, target[r].id), cents))
    BY <1>9 DEF ApplyItem
  <2> DEFINE row == ResolveReference(item[r].row, target[r].id)
  <2>3. row \in Rows /\ row.key = item[r].row.key /\ row.retryCount = item[r].row.retryCount
    BY <1>3, <1>4, <1>5, <2>1, RowType
  <2> HIDE DEF row
  <2>4. UpdateTxn(item[r], MarkProcessed(row, cents))
    BY <2>2 DEF row
  <2>. QED
    BY <1>3, <1>4, <1>5, <2>1, <2>3, <2>4 DEF Holds, Rewrites
<1>10. CASE FetchBatch(r) \/ ReadTarget(r) \/ LockItemWallet(r)
  BY <1>10 DEF FetchBatch, ReadTarget, LockItemWallet, storeVars
<1>11. CASE KeepWaiting(r) \/ AbandonItem(r) \/ AbortItem(r) \/ CrashRetrier(r)
  BY <1>11 DEF KeepWaiting, AbandonItem, AbortItem, CrashRetrier
<1>. QED
  BY <1>6, <1>7, <1>8, <1>9, <1>10, <1>11 DEF RetrierStep, HandleItem

\* What the outcome of a new row depends on: it waits, or it was decided on what was read.
NewRow(h, row, balance) ==
    /\ row.key = req[h].key /\ row.op = req[h].op
    /\ row.status = "PENDING_REFERENCE" => Waited(row)
    /\ Waited(row) => RequiresReference(row.op.kind)
    /\ row.status = "PROCESSED" =>
          /\ ~Waited(row) /\ row.result = balance
          /\ RequiresReference(row.op.kind) =>
                /\ ref[h] # None /\ row.reference = ref[h].id
                /\ ReferenceError(row.op, ref[h].row) = None

Decides(h) ==
    \E row, balance, events :
        /\ row \in Rows /\ balance \in Nat
        /\ NewRow(h, row, balance) /\ CommitNew(h, row, balance, events)

LEMMA NewTransactionFields ==
    ASSUME NEW key, NEW op, NEW cents, NEW code, NEW id,
           NEW new, new = NewTransaction(key, op)
    PROVE  /\ new.key = key /\ new.op = op /\ new.status = "PENDING" /\ new.retryCount = 0
           /\ MarkPendingReference(new).key = key /\ MarkPendingReference(new).op = op
           /\ MarkPendingReference(new).retryCount = 1
           /\ MarkPendingReference(new).status = "PENDING_REFERENCE"
           /\ MarkRejected(new, code).key = key /\ MarkRejected(new, code).op = op
           /\ MarkRejected(new, code).status = "REJECTED"
           /\ MarkRejected(new, code).retryCount = 0
           /\ MarkRejected(ResolveReference(new, id), code).retryCount = 0
           /\ MarkRejected(ResolveReference(new, id), code).key = key
           /\ MarkRejected(ResolveReference(new, id), code).op = op
           /\ MarkRejected(ResolveReference(new, id), code).status = "REJECTED"
           /\ MarkProcessed(new, cents).key = key /\ MarkProcessed(new, cents).op = op
           /\ MarkProcessed(new, cents).retryCount = 0
           /\ MarkProcessed(new, cents).result = cents
           /\ MarkProcessed(ResolveReference(new, id), cents).key = key
           /\ MarkProcessed(ResolveReference(new, id), cents).op = op
           /\ MarkProcessed(ResolveReference(new, id), cents).retryCount = 0
           /\ MarkProcessed(ResolveReference(new, id), cents).result = cents
           /\ MarkProcessed(ResolveReference(new, id), cents).reference = id
BY DEF NewTransaction, MarkPendingReference, MarkRejected, MarkProcessed, ResolveReference

\* Every row a handler inserts is a NewRow.
LEMMA PersistDecides ==
    ASSUME TypeInv, NEW h \in Handlers,
           \/ PersistPending(h) \/ PersistRejected(h) \/ PersistLoss(h) \/ PersistProcessed(h)
    PROVE  Decides(h)
<1>1. StoreTypeOK /\ HandlerTypeOK /\ HandlerControl /\ pc[h] = "decide"
  BY DEF TypeInv, TypeOK, PersistPending, PersistRejected, PersistLoss, PersistProcessed
<1>2. PICK new \in Rows : new = NewTransaction(req[h].key, req[h].op)
  BY <1>1, DecideFacts
<1>3. /\ req[h].op.kind \in Kinds /\ wal[h].balance \in Nat
      /\ Resolved(h, new) \in Rows
  BY <1>1, <1>2, DecideFacts, RequestType
<1>4. CASE PersistPending(h)
  <2>1. PICK row \in Rows : row = MarkPendingReference(new)
    BY <1>2, RowType
  <2>2. \E events : CommitNew(h, row, wal[h].balance, events)
    BY <1>2, <1>4, <2>1 DEF PersistPending
  <2>3. NewRow(h, row, wal[h].balance)
    BY <1>2, <1>4, <2>1, NewTransactionFields DEF NewRow, Waited, PersistPending, MustWait
  <2>. QED
    BY <1>3, <2>2, <2>3 DEF Decides
<1>5. CASE PersistRejected(h)
  <2>1. Rejection(h) \in Codes
    BY <1>5, ReferenceErrorType, OperationErrorType DEF PersistRejected, Rejection
  <2>2. PICK t \in Rows : t = IF ReferenceRefused(h) THEN new ELSE Resolved(h, new)
    BY <1>3
  <2>3. PICK row \in Rows : row = MarkRejected(t, Rejection(h))
    BY <2>1, <2>2, RowType
  <2>4. \E events : CommitNew(h, row, wal[h].balance, events)
    BY <1>2, <1>5, <2>2, <2>3 DEF PersistRejected
  <2>5. t = new \/ t = ResolveReference(new, ref[h].id)
    BY <2>2 DEF Resolved
  <2>6. /\ row.key = req[h].key /\ row.op = req[h].op
        /\ row.status = "REJECTED" /\ row.retryCount = 0
    BY <1>2, <2>3, <2>5, NewTransactionFields
  <2>. QED
    BY <1>3, <2>4, <2>6 DEF Decides, NewRow, Waited
<1>6. CASE PersistLoss(h)
  <2>1. PICK row \in Rows : row = MarkProcessed(new, wal[h].balance)
    BY <1>2, <1>3, RowType
  <2>2. \E events : CommitNew(h, row, wal[h].balance, events)
    BY <1>2, <1>6, <2>1 DEF PersistLoss
  <2>3. /\ row.key = req[h].key /\ row.op = req[h].op
        /\ row.retryCount = 0 /\ row.result = wal[h].balance
        /\ row.status = "PROCESSED"
    BY <1>2, <2>1, NewTransactionFields DEF MarkProcessed, Rows
  <2>4. ~RequiresReference(req[h].op.kind)
    BY <1>6 DEF PersistLoss, RequiresReference
  <2>. QED
    BY <1>3, <2>2, <2>3, <2>4 DEF Decides, NewRow, Waited
<1>7. CASE PersistProcessed(h)
  <2>1. PICK moved \in WalletRows :
          moved = Moved(wal[h], req[h].op, Direction(h)) /\ moved.balance \in Nat
    BY <1>1, <1>7, ProcessedMovement DEF WalletRows
  <2>2. PICK row \in Rows : row = MarkProcessed(Resolved(h, new), moved.balance)
    BY <1>3, <2>1, RowType
  <2>3. \E events : CommitNew(h, row, moved.balance, events)
    BY <1>2, <1>7, <2>1, <2>2 DEF PersistProcessed
  <2>4. Resolved(h, new) = new \/ Resolved(h, new) = ResolveReference(new, ref[h].id)
    BY DEF Resolved
  <2>5. /\ row.key = req[h].key /\ row.op = req[h].op
        /\ row.retryCount = 0 /\ row.result = moved.balance
        /\ row.status = "PROCESSED"
    BY <1>2, <2>2, <2>4, NewTransactionFields DEF MarkProcessed, Rows
  <2>6. ASSUME RequiresReference(req[h].op.kind)
        PROVE  /\ ref[h] # None /\ row.reference = ref[h].id
               /\ ReferenceError(req[h].op, ref[h].row) = None
    <3>1. ref[h] # None
      BY <1>7, <2>6 DEF PersistProcessed, MustWait
    <3>2. Rejection(h) = None
      BY <1>7 DEF PersistProcessed
    <3>3. ReferenceError(req[h].op, ref[h].row) = None
      BY <3>1, <3>2 DEF Rejection, ReferenceRefused
    <3>4. row.reference = ref[h].id
      BY <1>2, <2>2, <3>1, NewTransactionFields DEF Resolved
    <3>. QED
      BY <3>1, <3>3, <3>4
  <2>. QED
    BY <2>1, <2>3, <2>5, <2>6 DEF Decides, NewRow, Waited
<1>. QED
  BY <1>4, <1>5, <1>6, <1>7

\* The request is answered from row i, of its key and its payload.  Only the answer to a
\* redelivered message does not compare the payload.
AnswersFrom(h, i) ==
    /\ i \in TxnIds /\ req[h] \in Requests
    /\ txns[i].key = req[h].key
    /\ txns[i].op = req[h].op \/ pc[h] = "redelivered"
    /\ reply' = [reply EXCEPT ![h] = BuildReplayOutput(req[h], i)]
    /\ CommitInbox(h) \/ inbox' = inbox
    /\ UNCHANGED <<txns, originals>>

\* The request gets no answer, or an error.
AnswersNoRow(h) ==
    /\ \/ reply' = reply
       \/ reply' = [reply EXCEPT ![h] = None]
       \/ \E q, code : reply' = [reply EXCEPT ![h] = ErrorAnswer(q, code)]
    /\ UNCHANGED <<txns, originals, inbox>>

LEMMA HandlerOutcome ==
    ASSUME TypeInv, NEW h \in Handlers, Handling(h) \/ AbortHandler(h)
    PROVE  \/ req[h] \in Requests /\ Decides(h)
           \/ \E i : AnswersFrom(h, i)
           \/ AnswersNoRow(h)
<1>1. StoreTypeOK /\ HandlerTypeOK /\ HandlerControl
  BY DEF TypeInv, TypeOK
<1>2. ASSUME NEW code, Fail(h, code) PROVE AnswersNoRow(h)
  BY <1>2 DEF Fail, Finish, AnswersNoRow
<1>3. ASSUME NEW s, GoTo(h, s) PROVE AnswersNoRow(h)
  BY <1>3 DEF GoTo, AnswersNoRow, storeVars
<1>4. ASSUME NEW i \in TxnIds, Replay(h, i), pc[h] # "idle", txns[i].key = req[h].key,
             txns[i].op = req[h].op \/ pc[h] = "redelivered"
      PROVE  AnswersFrom(h, i)
  BY <1>1, <1>4 DEF Replay, Finish, AnswersFrom, HandlerControl
<1>5. CASE \E q \in Requests : Receive(h, q) \/ RefuseOpening(h, q)
  BY <1>5 DEF Receive, RefuseOpening, AnswersNoRow, storeVars
<1>6. CASE ReplayRedelivered(h)
  BY <1>3, <1>4, <1>6 DEF ReplayRedelivered, GetByIdempotencyKey
<1>7. CASE FindByKey(h)
  BY <1>2, <1>3, <1>4, <1>7 DEF FindByKey, GetByIdempotencyKey
<1>8. CASE FindByExternal(h)
  BY <1>2, <1>3, <1>4, <1>8 DEF FindByExternal, GetByProviderAndExternalID
<1>9. CASE LockWallet(h)
  BY <1>2, <1>9 DEF LockWallet, AnswersNoRow
<1>10. CASE ReadReference(h)
  BY <1>10 DEF ReadReference, AnswersNoRow, storeVars
<1>11. CASE PersistPending(h) \/ PersistRejected(h) \/ PersistLoss(h) \/ PersistProcessed(h)
  <2>1. req[h] \in Requests
    BY <1>1, <1>11 DEF HandlerControl, PersistPending, PersistRejected, PersistLoss,
                       PersistProcessed
  <2>. QED
    BY <1>11, <2>1, PersistDecides
<1>12. CASE FailUnsupported(h) \/ LoseInsertRace(h) \/ AbortHandler(h)
  BY <1>2, <1>12 DEF FailUnsupported, LoseInsertRace, AbortHandler, AnswersNoRow
<1>13. CASE RecoverDuplicate(h)
  <2>1. PICK i \in TxnIds :
          IF txns[i].key = req[h].key /\ txns[i].op = req[h].op
          THEN Finish(h, BuildReplayOutput(req[h], i))
          ELSE Finish(h, ErrorAnswer(req[h], "DUPLICATE_OPERATION"))
    BY <1>13 DEF RecoverDuplicate, GetByIdempotencyKey, GetByProviderAndExternalID
  <2>2. req[h] \in Requests /\ UNCHANGED <<txns, originals, inbox>>
    BY <1>1, <1>13 DEF RecoverDuplicate, HandlerControl
  <2>3. CASE txns[i].key = req[h].key /\ txns[i].op = req[h].op
    BY <2>1, <2>2, <2>3 DEF Finish, AnswersFrom
  <2>4. CASE ~(txns[i].key = req[h].key /\ txns[i].op = req[h].op)
    BY <2>1, <2>2, <2>4 DEF Finish, AnswersNoRow
  <2>. QED
    BY <2>3, <2>4
<1>. QED
  BY <1>5, <1>6, <1>7, <1>8, <1>9, <1>10, <1>11, <1>12, <1>13 DEF Handling, HandlerStep

\* An opening inserts a row that is processed and reverses nothing.
Opens ==
    \E row : OneRowMore(row) /\ row.status = "PROCESSED" /\ ~RequiresReference(row.op.kind)

LEMMA RowSteps ==
    ASSUME TypeInv, [Next]_vars
    PROVE  \/ \E h \in Handlers : req[h] \in Requests /\ Decides(h)
           \/ \E h \in Handlers, i \in TxnIds : AnswersFrom(h, i)
           \/ \E h \in Handlers : AnswersNoRow(h)
           \/ /\ UNCHANGED <<reply, originals, inbox>>
              /\ UNCHANGED txns \/ Opens \/ \E r \in Retriers : Rewrites(r)
<1>1. CASE \E h \in Handlers : Handling(h) \/ AbortHandler(h)
  BY <1>1, HandlerOutcome DEF AnswersFrom
<1>2. ASSUME NEW r \in Retriers, RetrierStep(r) \/ AbortItem(r) \/ CrashRetrier(r),
             UNCHANGED handlerVars
      PROVE  /\ UNCHANGED <<reply, originals, inbox>>
             /\ UNCHANGED txns \/ Rewrites(r)
  <2>1. inbox' = inbox
    BY <1>2 DEF RetrierStep, HandleItem, FetchBatch, RejectExhausted, ReadTarget, PostponeRetry,
                LockItemWallet, KeepWaiting, RejectItem, ApplyItem, AbandonItem, AbortItem,
                CrashRetrier, storeVars
  <2>. QED
    BY <1>2, <2>1, RetrierUpdates DEF handlerVars
<1>3. ASSUME NEW o \in Openings, Opening(o)
      PROVE  UNCHANGED <<reply, originals, inbox>> /\ (UNCHANGED txns \/ Opens)
  <2>1. UNCHANGED <<reply, originals, inbox>>
    BY <1>3 DEF Opening, OpenWallet, handlerVars
  <2> DEFINE row == MarkProcessed(NewTransaction(None, OpeningOperation(o)), o.balance)
  <2>2. UNCHANGED txns \/ OneRowMore(row)
    BY <1>3 DEF Opening, OpenWallet, CreditOpening, OneRowMore
  <2>3. row.status = "PROCESSED" /\ ~RequiresReference(row.op.kind)
    BY DEF MarkProcessed, NewTransaction, OpeningOperation, RequiresReference
  <2>. QED
    BY <2>1, <2>2, <2>3 DEF Opens
<1>4. CASE UNCHANGED vars
  BY <1>4 DEF vars, storeVars, handlerVars
<1>. QED
  BY <1>1, <1>2, <1>3, <1>4 DEF Next, Working, Failing, Retrying

\* A row keeps its key; one that did not wait does not change at all.
RowsStay ==
    \A i \in TxnIds :
        /\ txns'[i].key = txns[i].key
        /\ IF Waited(txns[i]) THEN Waited(txns'[i]) ELSE txns'[i] = txns[i]

LEMMA AppendStays ==
    ASSUME StoreTypeOK, NEW row, OneRowMore(row)
    PROVE  RowsStay /\ (\A i \in TxnIds : txns'[i] = txns[i])
<1>1. txns \in Seq(Rows \cup {row}) /\ row \in Rows \cup {row}
  BY DEF StoreTypeOK
<1>2. \A i \in 1 .. Len(txns) : txns'[i] = txns[i]
  BY <1>1, AppendProperties DEF OneRowMore
<1>3. TxnIds = 1 .. Len(txns)
  BY LenProperties DEF StoreTypeOK, TxnIds
<1>. QED
  BY <1>2, <1>3 DEF RowsStay

\* A written row had to wait, as it has since it was copied.
LEMMA RewriteStays ==
    ASSUME StoreTypeOK, CopiesOfRows, CopiesWaited, NEW r \in Retriers, Rewrites(r)
    PROVE  /\ RowsStay /\ TxnIds' = TxnIds
           /\ \A i \in TxnIds : txns'[i] = txns[i] \/ Waited(txns'[i])
<1>1. PICK c, row :
         /\ c \in Copies /\ Holds(r, c) /\ UpdateTxn(c, row)
         /\ row.key = c.row.key /\ row.retryCount \in {c.row.retryCount, c.row.retryCount + 1}
  BY DEF Rewrites
<1>2. /\ c.id \in TxnIds
      /\ txns[c.id].key = c.row.key /\ Waited(c.row) /\ Waited(txns[c.id])
  BY <1>1 DEF Holds, CopiesOfRows, CopiesWaited, CopyOfRow
<1>3. \A i \in TxnIds : txns'[i] = IF i = c.id THEN row ELSE txns[i]
  BY <1>1 DEF UpdateTxn, TxnIds, StoreTypeOK
<1>4. Waited(row)
  <2>1. c.row.retryCount \in Nat
    BY <1>1 DEF Copies, Rows
  <2>2. c.row.retryCount >= 1
    BY <1>2 DEF Waited
  <2>. QED
    BY <1>1, <2>1, <2>2 DEF Waited
<1>5. TxnIds' = TxnIds
  BY <1>1 DEF UpdateTxn, TxnIds, StoreTypeOK
<1>. QED
  BY <1>1, <1>2, <1>3, <1>4, <1>5 DEF RowsStay

LEMMA RowsDoStay ==
    ASSUME TypeInv, CopiesOfRows, CopiesWaited, [Next]_vars
    PROVE  RowsStay
<1>1. StoreTypeOK
  BY DEF TypeInv, TypeOK
<1>2. ASSUME UNCHANGED txns PROVE RowsStay
  BY <1>2 DEF RowsStay
<1>3. \A h \in Handlers : Decides(h) => \E row : OneRowMore(row)
  BY DEF Decides, CommitNew, OneRowMore
<1>. QED
  BY <1>1, <1>2, <1>3, RowSteps, AppendStays, RewriteStays DEF AnswersFrom, AnswersNoRow, Opens

-----------------------------------------------------------------------------
(* What the retriers hold had to wait *)

LEMMA PendingRowsKept ==
    ASSUME TypeInv, CopiesOfRows, PendingRowsWaited, CopiesWaited, [Next]_vars
    PROVE  PendingRowsWaited'
<1>1. StoreTypeOK
  BY DEF TypeInv, TypeOK
<1>2. ASSUME UNCHANGED txns PROVE PendingRowsWaited'
  BY <1>2 DEF PendingRowsWaited, TxnIds
<1>3. ASSUME NEW row, OneRowMore(row), row.status = "PENDING_REFERENCE" => Waited(row)
      PROVE  PendingRowsWaited'
  <2>1. /\ TxnIds' = 1 .. Len(txns) + 1 /\ TxnIds = 1 .. Len(txns)
        /\ Len(txns) \in Nat
        /\ txns'[Len(txns) + 1] = row
    BY <1>1, <1>3, AppendKeeps, LenProperties DEF StoreTypeOK, TxnIds
  <2>2. \A i \in TxnIds : txns'[i] = txns[i]
    BY <1>1, <1>3, AppendStays
  <2>3. \A i \in TxnIds' : i \in TxnIds \/ i = Len(txns) + 1
    BY <2>1
  <2>. QED
    BY <1>3, <2>1, <2>2, <2>3 DEF PendingRowsWaited
<1>4. ASSUME NEW r \in Retriers, Rewrites(r) PROVE PendingRowsWaited'
  BY <1>1, <1>4, RewriteStays DEF PendingRowsWaited
<1>5. ASSUME NEW h \in Handlers, Decides(h)
      PROVE  \E row : OneRowMore(row) /\ (row.status = "PENDING_REFERENCE" => Waited(row))
  BY <1>5 DEF Decides, NewRow, CommitNew, OneRowMore
<1>6. ASSUME Opens
      PROVE  \E row : OneRowMore(row) /\ (row.status = "PENDING_REFERENCE" => Waited(row))
  BY <1>6 DEF Opens
<1>. QED
  BY <1>2, <1>3, <1>4, <1>5, <1>6, RowSteps DEF AnswersFrom, AnswersNoRow

\* A copy comes from a batch of pending rows, and is held or dropped after.
LEMMA HeldBefore ==
    ASSUME TypeInv, NEW r \in Retriers, [Next]_vars, NEW c, Holds(r, c)'
    PROVE  \/ Holds(r, c)
           \/ /\ UNCHANGED txns
              /\ \E i \in TxnIds : txns[i].status = "PENDING_REFERENCE" /\ c = Copy(i)
<1>1. RetrierTypeOK /\ RetrierControl
  BY DEF TypeInv, TypeOK
<1>2. ASSUME batch'[r] = batch[r], rpc'[r] = rpc[r], item'[r] = item[r]
      PROVE  Holds(r, c)
  BY <1>2 DEF Holds
<1>3. CASE UNCHANGED retrierVars
  BY <1>2, <1>3 DEF retrierVars
<1>4. CASE FetchBatch(r)
  <2>1. PICK due \in SUBSET GetPendingReferences :
           batch' = [batch EXCEPT ![r] = {Copy(i) : i \in due}]
    BY <1>4 DEF FetchBatch
  <2>2. UNCHANGED txns /\ rpc'[r] = rpc[r] /\ rpc[r] = "idle"
    BY <1>4 DEF FetchBatch, storeVars
  <2>3. batch'[r] = {Copy(i) : i \in due}
    BY <1>1, <2>1 DEF RetrierTypeOK
  <2>4. PICK i \in due : c = Copy(i)
    BY <2>2, <2>3 DEF Holds
  <2>. QED
    BY <2>2, <2>4 DEF GetPendingReferences
<1>5. CASE ReadTarget(r)
  <2>1. PICK d \in batch[r] : item'[r] = d /\ batch'[r] = batch[r] \ {d}
    BY <1>1, <1>5 DEF ReadTarget, RetrierTypeOK
  <2>. QED
    BY <2>1 DEF Holds
<1>6. CASE LockItemWallet(r)
  <2>1. batch'[r] = batch[r] /\ item'[r] = item[r] /\ rpc[r] # "idle"
    BY <1>6 DEF LockItemWallet
  <2>. QED
    BY <2>1 DEF Holds
<1>7. CASE RejectExhausted(r)
  <2>1. batch'[r] \subseteq batch[r] /\ rpc'[r] = "idle"
    BY <1>1, <1>7 DEF RejectExhausted, RetrierTypeOK
  <2>. QED
    BY <2>1 DEF Holds
<1>8. CASE \/ PostponeRetry(r) \/ KeepWaiting(r) \/ RejectItem(r) \/ ApplyItem(r)
           \/ AbandonItem(r) \/ AbortItem(r) \/ CrashRetrier(r)
  <2>1. NextItem(r)
    BY <1>8 DEF PostponeRetry, KeepWaiting, RejectItem, ApplyItem, AbandonItem, AbortItem,
                CrashRetrier
  <2>2. batch'[r] \subseteq batch[r]
    BY <1>1, <1>8 DEF PostponeRetry, KeepWaiting, RejectItem, ApplyItem, AbandonItem, AbortItem,
                      CrashRetrier, RetrierTypeOK
  <2>3. rpc'[r] = "idle"
    BY <1>1, <2>1 DEF NextItem, RetrierTypeOK
  <2>. QED
    BY <2>2, <2>3 DEF Holds
<1>9. ASSUME NEW s \in Retriers \ {r}, RetrierStep(s) \/ AbortItem(s) \/ CrashRetrier(s)
      PROVE  Holds(r, c)
  <2>1. s \in Retriers /\ r \in Retriers \ {s}
    OBVIOUS
  <2>2. batch'[r] = batch[r] /\ rpc'[r] = rpc[r] /\ item'[r] = item[r]
    BY <1>9, <2>1, OtherRetriersWait
  <2>. QED
    BY <1>2, <2>2
<1>10. CASE UNCHANGED vars
  BY <1>3, <1>10 DEF vars
<1>11. ASSUME NEW s \in Retriers, RetrierStep(s) \/ AbortItem(s) \/ CrashRetrier(s), s = r
       PROVE  \/ FetchBatch(r) \/ ReadTarget(r) \/ LockItemWallet(r) \/ RejectExhausted(r)
              \/ PostponeRetry(r) \/ KeepWaiting(r) \/ RejectItem(r) \/ ApplyItem(r)
              \/ AbandonItem(r) \/ AbortItem(r) \/ CrashRetrier(r)
  BY <1>11 DEF RetrierStep, HandleItem
<1>12. CASE \E s \in Retriers : RetrierStep(s) \/ AbortItem(s) \/ CrashRetrier(s)
  BY <1>4, <1>5, <1>6, <1>7, <1>8, <1>9, <1>11, <1>12
<1>. QED
  BY <1>3, <1>10, <1>12 DEF Next, Working, Failing, Opening, Handling, Retrying

LEMMA CopiesWaitedKept ==
    ASSUME TypeInv, CopiesOfRows, PendingRowsWaited, CopiesWaited, [Next]_vars
    PROVE  CopiesWaited'
<1>1. RowsStay /\ StoreTypeOK
  BY RowsDoStay DEF TypeInv, TypeOK
<1>2. ASSUME NEW r \in Retriers, NEW c \in Copies, Holds(r, c)'
      PROVE  txns'[c.id].key = c.row.key /\ Waited(c.row) /\ Waited(txns'[c.id])
  <2>1. CASE Holds(r, c)
    <3>1. c.id \in TxnIds
      BY <2>1 DEF Holds, CopiesOfRows, CopyOfRow
    <3>2. txns[c.id].key = c.row.key /\ Waited(c.row) /\ Waited(txns[c.id])
      BY <2>1 DEF CopiesWaited
    <3>. QED
      BY <1>1, <3>1, <3>2 DEF RowsStay
  <2>2. CASE /\ UNCHANGED txns
             /\ \E i \in TxnIds : txns[i].status = "PENDING_REFERENCE" /\ c = Copy(i)
    BY <2>2 DEF PendingRowsWaited, Copy
  <2>. QED
    BY <1>2, <2>1, <2>2, HeldBefore
<1>3. \A r \in Retriers, c \in Copies : Holds(r, c)' =>
          txns'[c.id].key = c.row.key /\ Waited(c.row) /\ Waited(txns'[c.id])
  BY <1>2
<1>. QED
  BY <1>3 DEF CopiesWaited, Holds, Waited

\* The reference a handler holds is the one it had, or a row it just read.
LEMMA RefsRead ==
    ASSUME TypeInv, [Next]_vars, NEW h \in Handlers, ref'[h] # None
    PROVE  \/ ref'[h] = ref[h]
           \/ UNCHANGED txns /\ \E i \in TxnIds : ref'[h] = [id |-> i, row |-> txns[i]]
<1>1. HandlerTypeOK
  BY DEF TypeInv, TypeOK
<1>2. CASE UNCHANGED ref
  BY <1>2
<1>3. ASSUME NEW g \in Handlers, NEW s, EndTransaction(g, s) PROVE ref'[h] = ref[h]
  BY <1>1, <1>3 DEF EndTransaction, HandlerTypeOK
<1>4. ASSUME NEW g \in Handlers,
             \/ \E s : EndTransaction(g, s)
             \/ \E answer : Finish(g, answer)
             \/ \E code : Fail(g, code)
             \/ \E i : Replay(g, i)
             \/ \E row, balance, events : CommitNew(g, row, balance, events)
      PROVE  ref'[h] = ref[h]
  BY <1>3, <1>4 DEF Fail, Replay, CommitNew, Finish
<1>5. ASSUME NEW g \in Handlers, Handling(g) \/ AbortHandler(g)
      PROVE  \/ ref'[h] = ref[h]
             \/ UNCHANGED txns /\ \E i \in TxnIds : ref'[h] = [id |-> i, row |-> txns[i]]
  <2>1. CASE \E q \in Requests : Receive(g, q) \/ RefuseOpening(g, q)
    BY <2>1 DEF Receive, RefuseOpening
  <2>2. CASE ReplayRedelivered(g) \/ FindByKey(g) \/ FindByExternal(g)
    BY <1>4, <2>2 DEF ReplayRedelivered, FindByKey, FindByExternal, GoTo
  <2>3. CASE LockWallet(g)
    BY <1>4, <2>3 DEF LockWallet
  <2>4. CASE ReadReference(g)
    <3>1. UNCHANGED txns
      BY <2>4 DEF ReadReference, storeVars
    <3>2. ref' = ref \/ \E i \in TxnIds : ref' = [ref EXCEPT ![g] = [id |-> i, row |-> txns[i]]]
      BY <2>4 DEF ReadReference, GetByProviderAndExternalID
    <3>. QED
      BY <1>1, <3>1, <3>2 DEF HandlerTypeOK
  <2>5. CASE PersistPending(g) \/ PersistRejected(g) \/ PersistLoss(g) \/ PersistProcessed(g)
    <3>1. \E row, balance, events : CommitNew(g, row, balance, events)
      BY <2>5 DEF PersistPending, PersistRejected, PersistLoss, PersistProcessed
    <3>. QED
      BY <1>4, <3>1
  <2>6. CASE FailUnsupported(g) \/ LoseInsertRace(g) \/ RecoverDuplicate(g) \/ AbortHandler(g)
    BY <1>4, <2>6 DEF FailUnsupported, LoseInsertRace, RecoverDuplicate, AbortHandler
  <2>. QED
    BY <1>5, <2>1, <2>2, <2>3, <2>4, <2>5, <2>6 DEF Handling, HandlerStep
<1>6. CASE UNCHANGED handlerVars
  BY <1>2, <1>6 DEF handlerVars
<1>7. CASE UNCHANGED vars
  BY <1>6, <1>7 DEF vars
<1>. QED
  BY <1>5, <1>6, <1>7 DEF Next, Working, Failing, Opening, Retrying

LEMMA RefsKept ==
    ASSUME TypeInv, AccountInv, RefsOfRows, [Next]_vars
    PROVE  RefsOfRows'
<1>1. RowsKeepOperations
  BY RowsOnlyGrow
<1>2. ASSUME NEW h \in Handlers, ref'[h] # None
      PROVE  ref'[h].id \in TxnIds' /\ txns'[ref'[h].id].op = ref'[h].row.op
  <2>1. CASE ref'[h] = ref[h]
    BY <1>1, <1>2, <2>1 DEF RefsOfRows, RowsKeepOperations
  <2>2. CASE UNCHANGED txns /\ \E i \in TxnIds : ref'[h] = [id |-> i, row |-> txns[i]]
    BY <2>2 DEF TxnIds
  <2>. QED
    BY <1>2, <2>1, <2>2, RefsRead
<1>. QED
  BY <1>2 DEF RefsOfRows

-----------------------------------------------------------------------------
(* Answers *)

LEMMA OriginalsStay ==
    ASSUME RowsStay, RowsKeepOperations, NEW a, Decided(a)
    PROVE  Decided(a)'
BY DEF Decided, RowsStay, RowsKeepOperations, Waited

\* The answer to a new row is of that row, and shares its key and its external id with none.
LEMMA NewAnswer ==
    ASSUME TypeInv, OriginalsDecided, NEW h \in Handlers, req[h] \in Requests, Decides(h)
    PROVE  \E a :
             /\ originals' = originals \cup {a} /\ reply' = [reply EXCEPT ![h] = a]
             /\ a.txn = Len(txns) + 1 /\ a.txn \notin TxnIds /\ a.txn # 0
             /\ a.req = req[h] /\ Decided(a)'
             /\ \A b \in originals : b.req.key # a.req.key /\ b.req.op.ext # a.req.op.ext
<1>1. PICK row, balance, events :
         /\ row \in Rows /\ balance \in Nat
         /\ NewRow(h, row, balance) /\ CommitNew(h, row, balance, events)
  BY DEF Decides
<1>2. PICK a : a = Answer(req[h], Len(txns) + 1, row, balance, FALSE)
  OBVIOUS
<1>3. /\ a.txn = Len(txns) + 1 /\ a.req = req[h] /\ a.status = row.status
      /\ a.balance = balance /\ a.failure = row.failure
      /\ originals' = originals \cup {a} /\ reply' = [reply EXCEPT ![h] = a]
  BY <1>1, <1>2 DEF CommitNew, Finish, Answer
<1>4. StoreTypeOK /\ OneRowMore(row)
  BY <1>1 DEF TypeInv, TypeOK, CommitNew, OneRowMore
<1>5. /\ TxnIds = 1 .. Len(txns) /\ Len(txns) \in Nat
      /\ TxnIds' = 1 .. Len(txns) + 1 /\ txns'[Len(txns) + 1] = row
  BY <1>4, AppendKeeps, LenProperties DEF StoreTypeOK, TxnIds
<1>6. Decided(a)'
  <2>1. a.txn \in TxnIds' /\ txns'[a.txn] = row
    BY <1>3, <1>5
  <2>. QED
    BY <1>1, <1>3, <2>1 DEF Decided, NewRow, Waited
<1>7. ASSUME NEW b \in originals
      PROVE  b.req.key # a.req.key /\ b.req.op.ext # a.req.op.ext
  <2>1. b.txn \in TxnIds /\ txns[b.txn].key = b.req.key /\ txns[b.txn].op = b.req.op
    BY DEF OriginalsDecided, Decided
  <2>2. ~Duplicate(req[h].key, req[h].op.ext)
    BY <1>1 DEF CommitNew
  <2>. QED
    BY <1>3, <2>1, <2>2 DEF Duplicate, GetByIdempotencyKey, GetByProviderAndExternalID
<1>8. a.txn \notin TxnIds /\ a.txn # 0
  BY <1>3, <1>5
<1>. QED
  BY <1>3, <1>6, <1>7, <1>8

LEMMA OriginalsKept ==
    ASSUME TypeInv, AccountInv, CopiesWaited, OriginalsDecided, OneOriginalAnswer, [Next]_vars
    PROVE  OriginalsDecided' /\ OneOriginalAnswer'
<1>1. RowsStay /\ RowsKeepOperations
  BY RowsDoStay, RowsOnlyGrow DEF AccountInv
<1>2. \A a \in originals : Decided(a)'
  BY <1>1, OriginalsStay DEF OriginalsDecided
<1>3. CASE UNCHANGED originals
  BY <1>2, <1>3 DEF OriginalsDecided, OneOriginalAnswer
<1>4. ASSUME NEW h \in Handlers, req[h] \in Requests, Decides(h)
      PROVE  OriginalsDecided' /\ OneOriginalAnswer'
  <2>1. PICK a :
          /\ originals' = originals \cup {a} /\ Decided(a)'
          /\ \A b \in originals : b.req.key # a.req.key /\ b.req.op.ext # a.req.op.ext
    BY <1>4, NewAnswer
  <2>. QED
    BY <1>2, <2>1 DEF OriginalsDecided, OneOriginalAnswer
<1>. QED
  BY <1>3, <1>4, RowSteps DEF AnswersFrom, AnswersNoRow

\* After a step a handler has the reply it had, none, an error, the answer of a row or the
\* answer to the new row.
LEMMA RepliesKept ==
    ASSUME TypeInv, AccountInv, OriginalsDecided, RepliesOfRows, ReplaysRepeatProcessed,
           [Next]_vars
    PROVE  RepliesOfRows' /\ ReplaysRepeatProcessed'
<1>1. /\ HandlerTypeOK /\ TxnIds \subseteq TxnIds' /\ 0 \notin TxnIds
      /\ TxnIds = 1 .. Len(txns)
  BY RowsOnlyGrow, LenProperties DEF TypeInv, TypeOK, StoreTypeOK, RowsKeepOperations, TxnIds
<1>2. \A a \in originals : a.txn \in TxnIds /\ Decided(a)
  BY DEF OriginalsDecided, Decided
<1> DEFINE Fine(x) ==
             x # None => /\ x.txn \in TxnIds' \cup {0}
                         /\ \A a \in originals' :
                               x.txn = a.txn /\ a.status = "PROCESSED" => Repeats(x, a)
<1>3. SUFFICES ASSUME NEW g \in Handlers PROVE Fine(reply'[g])
  BY DEF RepliesOfRows, ReplaysRepeatProcessed, Repeats
<1>4. CASE UNCHANGED originals
  <2>1. Fine(reply[g])
    BY <1>1, <1>4 DEF RepliesOfRows, ReplaysRepeatProcessed
  <2>2. CASE UNCHANGED reply
    BY <2>1, <2>2
  <2>3. CASE \E h \in Handlers : AnswersNoRow(h)
    <3>1. PICK h \in Handlers : AnswersNoRow(h)
      BY <2>3
    <3>2. \A q, code : Fine(ErrorAnswer(q, code))
      BY <1>1, <1>2, <1>4 DEF ErrorAnswer
    <3>3. Fine(None)
      OBVIOUS
    <3> HIDE DEF Fine
    <3>. QED
      BY <1>1, <2>1, <3>1, <3>2, <3>3 DEF AnswersNoRow, HandlerTypeOK
  <2>4. CASE \E h \in Handlers, i \in TxnIds : AnswersFrom(h, i)
    <3>1. PICK h \in Handlers, i \in TxnIds : AnswersFrom(h, i)
      BY <2>4
    <3>2. BuildReplayOutput(req[h], i).txn = i
      BY DEF BuildReplayOutput, Answer
    <3>3. ASSUME NEW a \in originals, a.txn = i, a.status = "PROCESSED"
          PROVE  Repeats(BuildReplayOutput(req[h], i), a)
      <4>1. /\ txns[i].status = "PROCESSED" /\ txns[i].failure = a.failure
            /\ txns[i].result = a.balance /\ a.balance # None
        BY <1>2, <3>3, NoneAssumption DEF Decided
      <4>. QED
        BY <3>3, <4>1 DEF BuildReplayOutput, Answer, Repeats
    <3>4. Fine(BuildReplayOutput(req[h], i))
      BY <1>1, <1>4, <3>2, <3>3
    <3>5. reply'[g] = IF g = h THEN BuildReplayOutput(req[h], i) ELSE reply[g]
      BY <1>1, <3>1 DEF AnswersFrom, HandlerTypeOK
    <3> HIDE DEF Fine
    <3>. QED
      BY <2>1, <3>4, <3>5
  <2>5. ASSUME NEW h \in Handlers, req[h] \in Requests, Decides(h) PROVE UNCHANGED reply
    <3>1. PICK a : originals' = originals \cup {a} /\ a.txn \notin TxnIds
      BY <2>5, NewAnswer
    <3>. QED
      BY <1>2, <1>4, <3>1
  <2> HIDE DEF Fine
  <2>. QED
    BY <2>2, <2>3, <2>4, <2>5, RowSteps
<1>5. ASSUME NEW h \in Handlers, req[h] \in Requests, Decides(h) PROVE Fine(reply'[g])
  <2>1. PICK a :
          /\ originals' = originals \cup {a} /\ reply' = [reply EXCEPT ![h] = a]
          /\ a.txn \notin TxnIds /\ a.txn # 0 /\ Decided(a)'
    BY <1>5, NewAnswer
  <2>2. CASE g = h
    <3>1. reply'[g] = a
      BY <1>1, <2>1, <2>2 DEF HandlerTypeOK
    <3>2. a.txn \in TxnIds'
      BY <2>1 DEF Decided
    <3>. QED
      BY <1>2, <2>1, <3>1, <3>2 DEF Repeats
  <2>3. CASE g # h
    <3>1. reply'[g] = reply[g]
      BY <1>1, <2>1, <2>3 DEF HandlerTypeOK
    <3>. QED
      BY <1>1, <2>1, <3>1 DEF RepliesOfRows, ReplaysRepeatProcessed
  <2>. QED
    BY <2>2, <2>3
<1> HIDE DEF Fine
<1>. QED
  BY <1>4, <1>5, RowSteps DEF AnswersFrom, AnswersNoRow

-----------------------------------------------------------------------------
(* Reversals processed on arrival *)

\* Nothing that a reversal was compared with changes.
LEMMA ReversalStays ==
    ASSUME RowsStay, RowsKeepOperations, NEW i \in TxnIds, ReversedOnArrival(i)
    PROVE  ReversedOnArrival(i)'
<1>1. CASE Waited(txns[i])
  BY <1>1 DEF RowsStay, ReversedOnArrival, Row, Waited
<1>2. CASE ~Waited(txns[i])
  BY <1>2 DEF RowsStay, RowsKeepOperations, ReversedOnArrival, ReversalMatches, Row, Waited,
              IsReversal, Processed
<1>. QED
  BY <1>1, <1>2

LEMMA NewReversal ==
    ASSUME TypeInv, RefsOfRows, NEW h \in Handlers, Decides(h), RowsKeepOperations,
           NEW n, n = Len(txns) + 1
    PROVE  ReversedOnArrival(n)'
<1>1. PICK row, balance, events :
         /\ row \in Rows /\ balance \in Nat
         /\ NewRow(h, row, balance) /\ CommitNew(h, row, balance, events)
  BY DEF Decides
<1>2. StoreTypeOK /\ OneRowMore(row)
  BY <1>1 DEF TypeInv, TypeOK, CommitNew, OneRowMore
<1>3. txns'[n] = row
  BY <1>2, AppendKeeps
<1>. SUFFICES ASSUME RequiresReference(row.op.kind), row.status = "PROCESSED"
              PROVE  Row(n)'.reference \in TxnIds' /\ ReversalMatches(n)'
  BY <1>3 DEF ReversedOnArrival, IsReversal, Processed, Row
<1>4. /\ ref[h] # None /\ row.reference = ref[h].id
      /\ ReferenceError(row.op, ref[h].row) = None
  BY <1>1 DEF NewRow
<1>5. /\ row.reference \in TxnIds /\ row.reference \in TxnIds'
      /\ txns'[row.reference].op = ref[h].row.op
  BY <1>4 DEF RefsOfRows, RowsKeepOperations
<1>6. /\ ref[h].row.op.wallet = row.op.wallet /\ ref[h].row.op.player = row.op.player
      /\ ref[h].row.op.amount = row.op.amount /\ ref[h].row.op.round = row.op.round
      /\ row.op.kind = "REFUND" => ref[h].row.op.kind = "BET"
  BY <1>4, NoneAssumption DEF ReferenceError, Codes
<1>. QED
  BY <1>3, <1>5, <1>6 DEF Row, ReversalMatches

LEMMA ReversalsKept ==
    ASSUME TypeInv, AccountInv, CopiesWaited, RefsOfRows, DirectReversals, [Next]_vars
    PROVE  DirectReversals'
<1>1. /\ StoreTypeOK /\ RowsStay /\ RowsKeepOperations /\ CopiesOfRows
      /\ TxnIds = 1 .. Len(txns) /\ Len(txns) \in Nat
  BY RowsDoStay, RowsOnlyGrow, LenProperties DEF TypeInv, TypeOK, AccountInv, StoreTypeOK, TxnIds
<1>2. \A i \in TxnIds : ReversedOnArrival(i)'
  BY <1>1, ReversalStays DEF DirectReversals
<1>3. ASSUME TxnIds' = TxnIds PROVE DirectReversals'
  BY <1>2, <1>3 DEF DirectReversals
<1>4. ASSUME NEW row, OneRowMore(row), NEW n, n = Len(txns) + 1, ReversedOnArrival(n)'
      PROVE  DirectReversals'
  <2>1. \A i \in TxnIds' : i \in TxnIds \/ i = n
    BY <1>1, <1>4, AppendKeeps
  <2>. QED
    BY <1>2, <1>4, <2>1 DEF DirectReversals
<1>5. ASSUME NEW h \in Handlers, Decides(h) PROVE DirectReversals'
  <2>1. PICK n : n = Len(txns) + 1
    OBVIOUS
  <2>2. PICK row : OneRowMore(row)
    BY <1>5 DEF Decides, CommitNew, OneRowMore
  <2>3. ReversedOnArrival(n)'
    BY <1>1, <1>5, <2>1, NewReversal
  <2>. QED
    BY <1>4, <2>1, <2>2, <2>3
<1>6. ASSUME Opens PROVE DirectReversals'
  <2>1. PICK row : OneRowMore(row) /\ ~RequiresReference(row.op.kind)
    BY <1>6 DEF Opens
  <2>2. PICK n : n = Len(txns) + 1
    OBVIOUS
  <2>3. txns'[n] = row
    BY <1>1, <2>1, <2>2, AppendKeeps
  <2>4. ReversedOnArrival(n)'
    BY <2>1, <2>3 DEF ReversedOnArrival, IsReversal, Row
  <2>. QED
    BY <1>4, <2>1, <2>2, <2>4
<1>7. ASSUME NEW r \in Retriers, Rewrites(r) PROVE DirectReversals'
  BY <1>1, <1>3, <1>7, RewriteStays
<1>8. ASSUME UNCHANGED txns PROVE DirectReversals'
  BY <1>3, <1>8 DEF TxnIds
<1>. QED
  BY <1>5, <1>6, <1>7, <1>8, RowSteps DEF AnswersFrom, AnswersNoRow

-----------------------------------------------------------------------------
(* The theorems *)

LEMMA InitReplay == Init => ReplayInv
<1> SUFFICES ASSUME Init PROVE ReplayInv
  OBVIOUS
<1>1. TxnIds = {}
  BY DEF Init, StoreInit, TxnIds
<1>2. /\ \A h \in Handlers : ref[h] = None /\ reply[h] = None
      /\ originals = {}
      /\ \A r \in Retriers : batch[r] = {} /\ rpc[r] = "idle"
  BY DEF Init, HandlerInit, RetrierInit
<1>. QED
  BY <1>1, <1>2 DEF ReplayInv, PendingRowsWaited, CopiesWaited, RefsOfRows, OriginalsDecided,
     OneOriginalAnswer, RepliesOfRows, ReplaysRepeatProcessed, DirectReversals, Holds

LEMMA ReplayInvKept ==
    ASSUME TypeInv, AccountInv, ReplayInv, [Next]_vars
    PROVE  ReplayInv'
<1>1. /\ PendingRowsWaited' /\ CopiesWaited' /\ RefsOfRows'
      /\ OriginalsDecided' /\ OneOriginalAnswer'
  BY PendingRowsKept, CopiesWaitedKept, RefsKept, OriginalsKept DEF ReplayInv, AccountInv
<1>2. RepliesOfRows' /\ ReplaysRepeatProcessed'
  BY RepliesKept DEF ReplayInv
<1>3. DirectReversals'
  BY ReversalsKept DEF ReplayInv
<1>. QED
  BY <1>1, <1>2, <1>3 DEF ReplayInv

\* What a retrier holds had to wait when it arrived, and a row that was processed on arrival
\* is and stays what its answer said, whatever handlers and retriers interleave.
\* (process_wager.go:163-191, 433-465; retry_pending_ref.go:50-268)
THEOREM ReplayInvariant == Spec => []ReplayInv
<1>1. TypeInv /\ AccountInv /\ ReplayInv /\ [Next]_vars => ReplayInv'
  BY ReplayInvKept
<1>. QED
  BY <1>1, InitReplay, TypeInvariant, AccountInvariant, PTL DEF Spec

\* Of all the requests that share an idempotency key or an external id, one is decided.
\* (process_wager.go:163-191, 433-465)
THEOREM OneIsDecided == Spec => []OneOriginalAnswer
<1>1. ReplayInv => OneOriginalAnswer
  BY DEF ReplayInv
<1>. QED
  BY <1>1, ReplayInvariant, PTL

\* A replay of an operation processed on arrival repeats the original answer.
\* (process_wager.go:531-543)
THEOREM ReplaysRepeat == Spec => []ReplaysRepeatProcessed
<1>1. ReplayInv => ReplaysRepeatProcessed
  BY DEF ReplayInv
<1>. QED
  BY <1>1, ReplayInvariant, PTL

\* A reversal processed on arrival returns exactly what its reference moved.
\* (process_wager.go:468-493)
THEOREM ReversalsMatchOnArrival == Spec => []DirectReversalsMatch
<1>1. TypeInv /\ ReplayInv => DirectReversalsMatch
  <2>1. ASSUME TypeInv, NEW i \in TxnIds, Row(i).retryCount = 0 PROVE ~Waited(Row(i))
    BY <2>1 DEF Waited
  <2>. QED
    BY <2>1 DEF ReplayInv, DirectReversals, ReversedOnArrival, DirectReversalsMatch
<1>. QED
  BY <1>1, ReplayInvariant, TypeInvariant, PTL

-----------------------------------------------------------------------------
(* However many retriers: what no step does to a row *)

\* The retriers write whole rows back from copies that may be old, and still change only
\* rows that had to wait, neither their key nor their operation, and never their wait.
\* (transaction_repo.go:110-152, retry_pending_ref.go:72-268)
THEOREM RowsAreKept == Spec => RowsKeepIdentity
<1>1. TypeInv /\ TypeInv' /\ AccountInv /\ ReplayInv /\ [Next]_vars
        => [\A i \in TxnIds :
               /\ i \in TxnIds'
               /\ txns'[i].key = txns[i].key /\ txns'[i].op = txns[i].op
               /\ txns[i].retryCount = 0 => txns'[i] = txns[i]
               /\ txns[i].retryCount > 0 => txns'[i].retryCount > 0]_txns
  <2> SUFFICES ASSUME TypeInv, TypeInv', AccountInv, ReplayInv, [Next]_vars, NEW i \in TxnIds
               PROVE  /\ i \in TxnIds'
                      /\ txns'[i].key = txns[i].key /\ txns'[i].op = txns[i].op
                      /\ txns[i].retryCount = 0 => txns'[i] = txns[i]
                      /\ txns[i].retryCount > 0 => txns'[i].retryCount > 0
    OBVIOUS
  <2>1. RowsStay /\ RowsKeepOperations
    BY RowsDoStay, RowsOnlyGrow DEF AccountInv, ReplayInv
  <2>2. i \in TxnIds' /\ txns[i].retryCount \in Nat /\ txns'[i].retryCount \in Nat
    <3>1. txns \in Seq(Rows) /\ txns' \in Seq(Rows) /\ i \in TxnIds'
      BY <2>1 DEF TypeInv, TypeOK, StoreTypeOK, RowsKeepOperations
    <3>2. txns[i] \in Rows /\ txns'[i] \in Rows
      BY <3>1, ElementOfSeq, LenProperties DEF TxnIds
    <3>. QED
      BY <3>1, <3>2 DEF Rows
  <2>. QED
    BY <2>1, <2>2 DEF RowsStay, RowsKeepOperations, Waited
<1>. QED
  BY <1>1, ReplayInvariant, TypeInvariant, AccountInvariant, PTL DEF Spec, RowsKeepIdentity

-----------------------------------------------------------------------------
(* Redelivered messages: what holds when a message id always carries the same operation *)

MessagesIdentifyRequests ==
    \A p, q \in Requests : p.msg = q.msg /\ p.msg # None => p.key = q.key /\ p.op = q.op

UniqueKeys ==
    \A i, j \in TxnIds : txns[i].key = txns[j].key /\ txns[i].key \in Keys => i = j

RedeliveredInInbox ==
    \A h \in Handlers : pc[h] = "redelivered" => req[h] \in Requests /\ req[h].msg \in inbox

MessageInv ==
    UniqueKeys /\ RedeliveredInInbox /\ InboxHasTransaction /\ AnswersMatchRequest

LEMMA UniqueKeysKept ==
    ASSUME TypeInv, CopiesOfRows, CopiesWaited, UniqueKeys, [Next]_vars
    PROVE  UniqueKeys'
<1>1. StoreTypeOK /\ TxnIds = 1 .. Len(txns)
  BY LenProperties DEF TypeInv, TypeOK, StoreTypeOK, TxnIds
<1>2. ASSUME RowsStay, TxnIds' = TxnIds PROVE UniqueKeys'
  BY <1>2 DEF RowsStay, UniqueKeys
<1>3. ASSUME NEW row, OneRowMore(row), row.key \in Keys => GetByIdempotencyKey(row.key) = {}
      PROVE  UniqueKeys'
  <2>1. \A i \in TxnIds : txns'[i] = txns[i]
    BY <1>1, <1>3, AppendStays
  <2>2. \A i \in TxnIds' : i \in TxnIds \/ (i = Len(txns) + 1 /\ txns'[i] = row)
    BY <1>1, <1>3, AppendKeeps, LenProperties DEF StoreTypeOK
  <2>. QED
    BY <1>3, <2>1, <2>2 DEF UniqueKeys, GetByIdempotencyKey
<1>4. ASSUME NEW h \in Handlers, Decides(h) PROVE UniqueKeys'
  <2>1. PICK row : /\ OneRowMore(row) /\ row.key = req[h].key
                   /\ GetByIdempotencyKey(req[h].key) = {}
    BY <1>4 DEF Decides, NewRow, CommitNew, OneRowMore, Duplicate
  <2>. QED
    BY <1>3, <2>1
<1>5. ASSUME NEW o \in Openings, Opening(o) PROVE UniqueKeys'
  <2> DEFINE row == MarkProcessed(NewTransaction(None, OpeningOperation(o)), o.balance)
  <2>1. UNCHANGED txns \/ OneRowMore(row)
    BY <1>5 DEF Opening, OpenWallet, CreditOpening, OneRowMore
  <2>2. row.key = None
    BY DEF MarkProcessed, NewTransaction
  <2> HIDE DEF row
  <2>3. row.key \notin Keys
    BY <2>2, KeysAssumption DEF KeysAssumption
  <2>4. CASE UNCHANGED txns
    BY <2>4 DEF UniqueKeys, TxnIds
  <2>. QED
    BY <1>3, <2>1, <2>3, <2>4
<1>6. ASSUME UNCHANGED txns PROVE UniqueKeys'
  BY <1>6 DEF UniqueKeys, TxnIds
<1>7. ASSUME NEW h \in Handlers, Handling(h) \/ AbortHandler(h) PROVE UniqueKeys'
  BY <1>4, <1>6, <1>7, HandlerOutcome DEF AnswersFrom, AnswersNoRow
<1>8. ASSUME NEW r \in Retriers, RetrierStep(r) \/ AbortItem(r) \/ CrashRetrier(r)
      PROVE  UniqueKeys'
  BY <1>1, <1>2, <1>6, <1>8, RetrierUpdates, RewriteStays
<1>. QED
  BY <1>5, <1>6, <1>7, <1>8 DEF Next, Working, Failing, Retrying, vars, storeVars

LEMMA InboxGrows ==
    ASSUME TypeInv, [Next]_vars
    PROVE  inbox \subseteq inbox'
BY RowSteps DEF AnswersFrom, AnswersNoRow, Decides, CommitNew, CommitInbox

LEMMA RedeliveredKept ==
    ASSUME TypeInv, RedeliveredInInbox, [Next]_vars
    PROVE  RedeliveredInInbox'
<1>1. HandlerTypeOK /\ inbox \subseteq inbox'
  BY InboxGrows DEF TypeInv, TypeOK
<1> SUFFICES ASSUME NEW h \in Handlers, pc'[h] = "redelivered"
             PROVE  req'[h] \in Requests /\ req'[h].msg \in inbox'
  BY DEF RedeliveredInInbox
<1>2. CASE pc'[h] = pc[h] /\ req'[h] = req[h]
  BY <1>1, <1>2 DEF RedeliveredInInbox
<1>3. CASE \E q \in Requests : Receive(h, q)
  BY <1>1, <1>3 DEF Receive, HandlerTypeOK, storeVars
<1>4. ASSUME NEW g \in Handlers, Handling(g) \/ AbortHandler(g)
      PROVE  \/ pc'[h] = pc[h] /\ req'[h] = req[h]
             \/ \E q \in Requests : Receive(h, q)
  <2>1. ASSUME NEW s, s # "redelivered", EndTransaction(g, s)
        PROVE  h # g /\ pc'[h] = pc[h]
    BY <1>1, <2>1 DEF EndTransaction, HandlerTypeOK
  <2>2. ASSUME NEW answer, Finish(g, answer)
        PROVE  pc'[h] = pc[h] /\ req'[h] = req[h]
    BY <1>1, <2>1, <2>2 DEF Finish, HandlerTypeOK
  <2>3. ASSUME NEW s, s # "redelivered", GoTo(g, s)
        PROVE  pc'[h] = pc[h] /\ req'[h] = req[h]
    BY <1>1, <2>3 DEF GoTo, HandlerTypeOK
  <2>4. ASSUME \/ \E code : Fail(g, code)
               \/ \E i : Replay(g, i)
               \/ \E row, balance, events : CommitNew(g, row, balance, events)
        PROVE  pc'[h] = pc[h] /\ req'[h] = req[h]
    BY <2>2, <2>4 DEF Fail, Replay, CommitNew
  <2>5. CASE \E q \in Requests : Receive(g, q) \/ RefuseOpening(g, q)
    BY <1>1, <2>5 DEF Receive, RefuseOpening, HandlerTypeOK
  <2>6. CASE ReplayRedelivered(g) \/ FindByKey(g) \/ FindByExternal(g)
    BY <2>3, <2>4, <2>6 DEF ReplayRedelivered, FindByKey, FindByExternal
  <2>7. CASE LockWallet(g) \/ ReadReference(g)
    BY <1>1, <2>4, <2>7 DEF LockWallet, ReadReference, HandlerTypeOK
  <2>8. CASE PersistPending(g) \/ PersistRejected(g) \/ PersistLoss(g) \/ PersistProcessed(g)
    <3>1. \E row, balance, events : CommitNew(g, row, balance, events)
      BY <2>8 DEF PersistPending, PersistRejected, PersistLoss, PersistProcessed
    <3>. QED
      BY <2>4, <3>1
  <2>9. CASE FailUnsupported(g) \/ RecoverDuplicate(g)
    BY <2>2, <2>4, <2>9 DEF FailUnsupported, RecoverDuplicate
  <2>10. CASE LoseInsertRace(g) \/ AbortHandler(g)
    BY <1>1, <2>1, <2>10 DEF LoseInsertRace, AbortHandler, HandlerTypeOK
  <2>. QED
    BY <1>4, <2>5, <2>6, <2>7, <2>8, <2>9, <2>10 DEF Handling, HandlerStep
<1>. QED
  BY <1>2, <1>3, <1>4 DEF Next, Working, Failing, Opening, Retrying, vars, handlerVars

\* The row that a handler answers from carries the request, redelivered or not.
LEMMA AnsweredRow ==
    ASSUME UniqueKeys, RedeliveredInInbox, InboxHasTransaction,
           NEW h \in Handlers, NEW i \in TxnIds, AnswersFrom(h, i)
    PROVE  req[h] \in Requests /\ txns[i].key = req[h].key /\ txns[i].op = req[h].op
<1>1. /\ req[h] \in Requests /\ txns[i].key = req[h].key
      /\ txns[i].op = req[h].op \/ pc[h] = "redelivered"
  BY DEF AnswersFrom
<1>2. CASE pc[h] = "redelivered"
  <2>1. PICK j \in TxnIds : txns[j].key = req[h].key /\ txns[j].op = req[h].op
    BY <1>1, <1>2 DEF RedeliveredInInbox, InboxHasTransaction, Row
  <2>2. i = j
    BY <1>1, <2>1, RequestType DEF UniqueKeys
  <2>. QED
    BY <1>1, <2>1, <2>2
<1>. QED
  BY <1>1, <1>2

\* The row of a new decision carries the request.
LEMMA DecidedRow ==
    ASSUME TypeInv, NEW h \in Handlers, Decides(h)
    PROVE  /\ CommitInbox(h)
           /\ \E a :
                 /\ reply' = [reply EXCEPT ![h] = a] /\ a.req = req[h]
                 /\ a.txn \in TxnIds'
                 /\ txns'[a.txn].key = req[h].key /\ txns'[a.txn].op = req[h].op
<1>1. PICK row, balance, events :
         /\ row \in Rows /\ balance \in Nat
         /\ NewRow(h, row, balance) /\ CommitNew(h, row, balance, events)
  BY DEF Decides
<1>2. StoreTypeOK /\ OneRowMore(row)
  BY <1>1 DEF TypeInv, TypeOK, CommitNew, OneRowMore
<1>3. PICK a : a = Answer(req[h], Len(txns) + 1, row, balance, FALSE)
  OBVIOUS
<1>4. /\ a.txn = Len(txns) + 1 /\ a.req = req[h]
      /\ reply' = [reply EXCEPT ![h] = a] /\ CommitInbox(h)
  BY <1>1, <1>3 DEF Answer, CommitNew, Finish
<1>5. a.txn \in TxnIds' /\ txns'[a.txn] = row
  BY <1>2, <1>4, AppendKeeps, LenProperties DEF StoreTypeOK
<1>. QED
  BY <1>1, <1>4, <1>5 DEF NewRow

LEMMA InboxKept ==
    ASSUME MessagesIdentifyRequests, TypeInv, AccountInv, CopiesWaited,
           UniqueKeys, RedeliveredInInbox, InboxHasTransaction, [Next]_vars
    PROVE  InboxHasTransaction'
<1> DEFINE Carried(q) == \E i \in TxnIds' : txns'[i].key = q.key /\ txns'[i].op = q.op
<1>1. RowsStay /\ RowsKeepOperations
  BY RowsDoStay, RowsOnlyGrow DEF AccountInv
<1>2. ASSUME NEW q, NEW i \in TxnIds, txns[i].key = q.key, txns[i].op = q.op PROVE Carried(q)
  BY <1>1, <1>2 DEF RowsStay, RowsKeepOperations
<1>3. SUFFICES ASSUME NEW q \in Requests, q.msg \in inbox' PROVE Carried(q)
  BY DEF InboxHasTransaction, Row
<1>4. CASE q.msg \in inbox
  BY <1>2, <1>4 DEF InboxHasTransaction, Row
<1>5. ASSUME NEW h \in Handlers, req[h] \in Requests, CommitInbox(h), Carried(req[h])
      PROVE  Carried(q)
  <2>1. q.msg \in inbox \/ (q.msg = req[h].msg /\ q.msg # None)
    BY <1>3, <1>5 DEF CommitInbox
  <2>2. CASE q.msg = req[h].msg /\ q.msg # None
    BY <1>5, <2>2 DEF MessagesIdentifyRequests
  <2>. QED
    BY <1>4, <2>1, <2>2
<1>6. ASSUME NEW h \in Handlers, req[h] \in Requests, Decides(h) PROVE Carried(q)
  BY <1>5, <1>6, DecidedRow
<1>7. ASSUME NEW h \in Handlers, NEW i \in TxnIds, AnswersFrom(h, i) PROVE Carried(q)
  <2>1. req[h] \in Requests /\ Carried(req[h])
    BY <1>2, <1>7, AnsweredRow
  <2> HIDE DEF Carried
  <2>2. CommitInbox(h) \/ inbox' = inbox
    BY <1>7 DEF AnswersFrom
  <2>. QED
    BY <1>3, <1>4, <1>5, <2>1, <2>2
<1> HIDE DEF Carried
<1>. QED
  BY <1>3, <1>4, <1>6, <1>7, RowSteps DEF AnswersNoRow

LEMMA AnswersKept ==
    ASSUME TypeInv, AccountInv, CopiesWaited, RepliesOfRows,
           UniqueKeys, RedeliveredInInbox, InboxHasTransaction, AnswersMatchRequest, [Next]_vars
    PROVE  AnswersMatchRequest'
<1> DEFINE Matches(x) ==
             x # None /\ x.txn # 0 => txns'[x.txn].key = x.req.key /\ txns'[x.txn].op = x.req.op
<1>1. RowsStay /\ RowsKeepOperations /\ HandlerTypeOK
  BY RowsDoStay, RowsOnlyGrow DEF AccountInv, TypeInv, TypeOK
<1>2. SUFFICES ASSUME NEW g \in Handlers PROVE Matches(reply'[g])
  BY DEF AnswersMatchRequest, Row
<1>3. Matches(reply[g])
  BY <1>1 DEF AnswersMatchRequest, RepliesOfRows, RowsStay, RowsKeepOperations, Row
<1>4. ASSUME NEW h \in Handlers, NEW a, reply' = [reply EXCEPT ![h] = a], Matches(a)
      PROVE  Matches(reply'[g])
  <2>1. reply'[g] = IF g = h THEN a ELSE reply[g]
    BY <1>1, <1>4 DEF HandlerTypeOK
  <2> HIDE DEF Matches
  <2>. QED
    BY <1>3, <1>4, <2>1
<1>5. ASSUME NEW h \in Handlers, AnswersNoRow(h) PROVE Matches(reply'[g])
  <2>1. Matches(None) /\ \A q, code : Matches(ErrorAnswer(q, code))
    BY DEF ErrorAnswer
  <2> HIDE DEF Matches
  <2>. QED
    BY <1>3, <1>4, <1>5, <2>1 DEF AnswersNoRow
<1>6. ASSUME NEW h \in Handlers, NEW i \in TxnIds, AnswersFrom(h, i) PROVE Matches(reply'[g])
  <2>1. txns'[i].key = req[h].key /\ txns'[i].op = req[h].op
    BY <1>6, AnsweredRow DEF AnswersFrom
  <2>2. BuildReplayOutput(req[h], i).txn = i /\ BuildReplayOutput(req[h], i).req = req[h]
    BY DEF BuildReplayOutput, Answer
  <2>3. Matches(BuildReplayOutput(req[h], i))
    BY <2>1, <2>2
  <2> HIDE DEF Matches
  <2>. QED
    BY <1>4, <1>6, <2>3 DEF AnswersFrom
<1>7. ASSUME NEW h \in Handlers, Decides(h) PROVE Matches(reply'[g])
  BY <1>4, <1>7, DecidedRow
<1>8. ASSUME UNCHANGED reply PROVE Matches(reply'[g])
  BY <1>3, <1>8
<1> HIDE DEF Matches
<1>. QED
  BY <1>5, <1>6, <1>7, <1>8, RowSteps

LEMMA InitMessages == Init => MessageInv
<1> SUFFICES ASSUME Init PROVE MessageInv
  OBVIOUS
<1>1. TxnIds = {} /\ inbox = {}
  BY DEF Init, StoreInit, TxnIds
<1>2. \A h \in Handlers : pc[h] = "idle" /\ reply[h] = None
  BY DEF Init, HandlerInit
<1>. QED
  BY <1>1, <1>2 DEF MessageInv, UniqueKeys, RedeliveredInInbox, InboxHasTransaction,
     AnswersMatchRequest

\* When a message id always carries the same operation, a message is in the inbox only if
\* its operation was decided, and a redelivery is answered from that row.
\* (process_wager.go:146-161)
THEOREM MessageInvariant == ASSUME MessagesIdentifyRequests PROVE Spec => []MessageInv
<1>1. TypeInv /\ AccountInv /\ ReplayInv /\ MessageInv /\ [Next]_vars => MessageInv'
  BY UniqueKeysKept, RedeliveredKept, InboxKept, AnswersKept DEF MessageInv, AccountInv, ReplayInv
<1>. QED
  BY <1>1, InitMessages, TypeInvariant, AccountInvariant, ReplayInvariant, PTL DEF Spec

\* The inbox and the rows are written by one commit: a redelivery always finds its row.
\* (process_wager.go:146-161)
THEOREM InboxIsDecided ==
    ASSUME MessagesIdentifyRequests PROVE Spec => []InboxHasTransaction
<1>1. MessageInv => InboxHasTransaction
  BY DEF MessageInv
<1>. QED
  BY <1>1, MessageInvariant, PTL

\* An answer that names a transaction names one of the request's key and payload, although
\* the answer to a redelivered message compares no payload. (process_wager.go:152-191, 448-457)
THEOREM AnswersMatch ==
    ASSUME MessagesIdentifyRequests PROVE Spec => []AnswersMatchRequest
<1>1. MessageInv => AnswersMatchRequest
  BY DEF MessageInv
<1>. QED
  BY <1>1, MessageInvariant, PTL

-----------------------------------------------------------------------------
(* A handler changes nothing of another *)

LEMMA OtherHandlersWait ==
    ASSUME TypeInv, NEW g \in Handlers, Handling(g) \/ AbortHandler(g), NEW h \in Handlers \ {g}
    PROVE  pc'[h] = pc[h] /\ req'[h] = req[h] /\ ref'[h] = ref[h]
<1>1. HandlerTypeOK
  BY DEF TypeInv, TypeOK
<1>2. ASSUME NEW s, EndTransaction(g, s) PROVE pc'[h] = pc[h] /\ ref'[h] = ref[h]
  BY <1>1, <1>2 DEF EndTransaction, HandlerTypeOK
<1>3. ASSUME \/ \E answer : Finish(g, answer)
             \/ \E code : Fail(g, code)
             \/ \E i : Replay(g, i)
             \/ \E row, balance, events : CommitNew(g, row, balance, events)
      PROVE  pc'[h] = pc[h] /\ req'[h] = req[h] /\ ref'[h] = ref[h]
  BY <1>1, <1>2, <1>3 DEF Fail, Replay, CommitNew, Finish, HandlerTypeOK
<1>4. ASSUME NEW s, GoTo(g, s) PROVE pc'[h] = pc[h] /\ req'[h] = req[h] /\ ref'[h] = ref[h]
  BY <1>1, <1>4 DEF GoTo, HandlerTypeOK
<1>5. CASE \E q \in Requests : Receive(g, q) \/ RefuseOpening(g, q)
  BY <1>1, <1>5 DEF Receive, RefuseOpening, HandlerTypeOK
<1>6. CASE ReplayRedelivered(g) \/ FindByKey(g) \/ FindByExternal(g)
  BY <1>3, <1>4, <1>6 DEF ReplayRedelivered, FindByKey, FindByExternal
<1>7. CASE LockWallet(g)
  BY <1>1, <1>3, <1>7 DEF LockWallet, HandlerTypeOK
<1>8. CASE ReadReference(g)
  <2>1. ref' = ref \/ \E x : ref' = [ref EXCEPT ![g] = x]
    BY <1>8 DEF ReadReference
  <2>2. req' = req /\ pc' = [pc EXCEPT ![g] = "decide"]
    BY <1>8 DEF ReadReference
  <2>. QED
    BY <1>1, <2>1, <2>2 DEF HandlerTypeOK
<1>9. CASE PersistPending(g) \/ PersistRejected(g) \/ PersistLoss(g) \/ PersistProcessed(g)
  <2>1. \E row, balance, events : CommitNew(g, row, balance, events)
    BY <1>9 DEF PersistPending, PersistRejected, PersistLoss, PersistProcessed
  <2>. QED
    BY <1>3, <2>1
<1>10. CASE FailUnsupported(g) \/ RecoverDuplicate(g)
  BY <1>3, <1>10 DEF FailUnsupported, RecoverDuplicate
<1>11. CASE LoseInsertRace(g) \/ AbortHandler(g)
  BY <1>1, <1>2, <1>11 DEF LoseInsertRace, AbortHandler, HandlerTypeOK
<1>. QED
  BY <1>5, <1>6, <1>7, <1>8, <1>9, <1>10, <1>11 DEF Handling, HandlerStep

-----------------------------------------------------------------------------
(* Versions: only openings do not count, and only OpenWallet makes them *)

HandlersServeWagers ==
    \A h \in Handlers : pc[h] # "idle" => req[h].op.kind # "OPENING"

OnlyReversalsWait ==
    \A i \in TxnIds : Waited(txns[i]) => RequiresReference(txns[i].op.kind)

\* The entries of a wallet's movements after its opening.
WagerEntries(w) == {k \in DOMAIN ledger[w] : Row(ledger[w][k].txn).op.kind # "OPENING"}

VersionOfWallet(w) ==
    IF wallets[w] = None THEN ledger[w] = <<>>
    ELSE wallets[w].version = 1 + Cardinality(WagerEntries(w))

VersionInv ==
    HandlersServeWagers /\ OnlyReversalsWait /\ \A w \in Wallets : VersionOfWallet(w)

LEMMA ServedKept ==
    ASSUME TypeInv, HandlersServeWagers, [Next]_vars
    PROVE  HandlersServeWagers'
<1>1. HandlerTypeOK
  BY DEF TypeInv, TypeOK
<1> SUFFICES ASSUME NEW h \in Handlers, pc'[h] # "idle"
             PROVE  req'[h].op.kind # "OPENING"
  BY DEF HandlersServeWagers
<1>2. CASE pc[h] # "idle" /\ req'[h] = req[h]
  BY <1>2 DEF HandlersServeWagers
<1>3. CASE Handling(h) \/ AbortHandler(h)
  <2>1. CASE \E q \in Requests : Receive(h, q)
    BY <1>1, <2>1 DEF Receive, HandlerTypeOK
  <2>2. CASE \E q \in Requests : RefuseOpening(h, q)
    BY <2>2 DEF RefuseOpening
  <2>3. ASSUME \/ \E answer : Finish(h, answer)
               \/ \E code : Fail(h, code)
               \/ \E i : Replay(h, i)
               \/ \E row, balance, events : CommitNew(h, row, balance, events)
               \/ EndTransaction(h, "idle")
        PROVE  FALSE
    BY <1>1, <2>3 DEF Fail, Replay, CommitNew, Finish, EndTransaction, HandlerTypeOK
  <2>4. CASE ReplayRedelivered(h) \/ FindByKey(h) \/ FindByExternal(h)
    BY <1>2, <2>3, <2>4 DEF ReplayRedelivered, FindByKey, FindByExternal, GoTo
  <2>5. CASE LockWallet(h) \/ ReadReference(h)
    BY <1>2, <2>3, <2>5 DEF LockWallet, ReadReference
  <2>6. CASE PersistPending(h) \/ PersistRejected(h) \/ PersistLoss(h) \/ PersistProcessed(h)
    <3>1. \E row, balance, events : CommitNew(h, row, balance, events)
      BY <2>6 DEF PersistPending, PersistRejected, PersistLoss, PersistProcessed
    <3>. QED
      BY <2>3, <3>1
  <2>7. CASE FailUnsupported(h) \/ LoseInsertRace(h) \/ RecoverDuplicate(h) \/ AbortHandler(h)
    BY <1>2, <2>3, <2>7 DEF FailUnsupported, LoseInsertRace, RecoverDuplicate, AbortHandler
  <2>. QED
    BY <1>3, <2>1, <2>2, <2>4, <2>5, <2>6, <2>7 DEF Handling, HandlerStep
<1>4. ASSUME NEW g \in Handlers \ {h}, Handling(g) \/ AbortHandler(g)
      PROVE  pc'[h] = pc[h] /\ req'[h] = req[h]
  <2>1. g \in Handlers /\ h \in Handlers \ {g}
    OBVIOUS
  <2>. QED
    BY <1>4, <2>1, OtherHandlersWait
<1>5. CASE \E g \in Handlers : Handling(g) \/ AbortHandler(g)
  BY <1>2, <1>3, <1>4, <1>5
<1>6. CASE UNCHANGED handlerVars \/ UNCHANGED vars
  BY <1>2, <1>6 DEF handlerVars, vars
<1>. QED
  BY <1>5, <1>6 DEF Next, Working, Failing, Opening, Retrying

LEMMA OnlyPersistInserts ==
    ASSUME NEW h \in Handlers, Handling(h) \/ AbortHandler(h)
    PROVE  \/ UNCHANGED txns
           \/ PersistPending(h) \/ PersistRejected(h) \/ PersistLoss(h) \/ PersistProcessed(h)
<1>1. CASE \E q \in Requests : Receive(h, q) \/ RefuseOpening(h, q)
  BY <1>1 DEF Receive, RefuseOpening, storeVars
<1>2. CASE ReplayRedelivered(h) \/ FindByKey(h) \/ FindByExternal(h)
  BY <1>2 DEF ReplayRedelivered, FindByKey, FindByExternal, Replay, Fail, GoTo, storeVars
<1>3. CASE LockWallet(h) \/ ReadReference(h)
  BY <1>3 DEF LockWallet, ReadReference, Fail, storeVars
<1>4. CASE FailUnsupported(h) \/ LoseInsertRace(h) \/ RecoverDuplicate(h) \/ AbortHandler(h)
  BY <1>4 DEF FailUnsupported, LoseInsertRace, RecoverDuplicate, AbortHandler, Fail
<1>. QED
  BY <1>1, <1>2, <1>3, <1>4 DEF Handling, HandlerStep

\* A row waits because its request is a reversal, and keeps its operation.
LEMMA OnlyReversalsKept ==
    ASSUME TypeInv, AccountInv, CopiesWaited, OnlyReversalsWait, [Next]_vars
    PROVE  OnlyReversalsWait'
<1>1. /\ StoreTypeOK /\ RowsStay /\ RowsKeepOperations /\ CopiesOfRows
      /\ TxnIds = 1 .. Len(txns)
  BY RowsDoStay, RowsOnlyGrow, LenProperties DEF TypeInv, TypeOK, AccountInv, StoreTypeOK, TxnIds
<1>2. \A i \in TxnIds : Waited(txns'[i]) => RequiresReference(txns'[i].op.kind)
  BY <1>1 DEF RowsStay, RowsKeepOperations, OnlyReversalsWait
<1>3. ASSUME TxnIds' = TxnIds PROVE OnlyReversalsWait'
  BY <1>2, <1>3 DEF OnlyReversalsWait, Waited
<1>4. ASSUME NEW row, OneRowMore(row), Waited(row) => RequiresReference(row.op.kind)
      PROVE  OnlyReversalsWait'
  <2>1. \A i \in TxnIds' : i \in TxnIds \/ txns'[i] = row
    BY <1>1, <1>4, AppendKeeps
  <2>. QED
    BY <1>2, <1>4, <2>1 DEF OnlyReversalsWait, Waited
<1>5. ASSUME NEW h \in Handlers, Handling(h) \/ AbortHandler(h) PROVE OnlyReversalsWait'
  <2>1. CASE Decides(h)
    <3>1. PICK row : OneRowMore(row) /\ (Waited(row) => RequiresReference(row.op.kind))
      BY <2>1 DEF Decides, NewRow, CommitNew, OneRowMore
    <3>. QED
      BY <1>4, <3>1
  <2>2. CASE UNCHANGED txns
    BY <1>3, <2>2 DEF TxnIds
  <2>. QED
    BY <1>5, <2>1, <2>2, HandlerOutcome DEF AnswersFrom, AnswersNoRow
<1>6. ASSUME NEW o \in Openings, Opening(o) PROVE OnlyReversalsWait'
  <2> DEFINE t == MarkProcessed(NewTransaction(None, OpeningOperation(o)), o.balance)
  <2>1. UNCHANGED txns \/ OneRowMore(t)
    BY <1>6 DEF Opening, OpenWallet, CreditOpening, OneRowMore
  <2>2. t.retryCount = 0
    BY DEF MarkProcessed, NewTransaction
  <2> HIDE DEF t
  <2>3. CASE UNCHANGED txns
    BY <1>3, <2>3 DEF TxnIds
  <2>. QED
    BY <1>4, <2>1, <2>2, <2>3 DEF Waited
<1>7. ASSUME NEW r \in Retriers, RetrierStep(r) \/ AbortItem(r) \/ CrashRetrier(r)
      PROVE  OnlyReversalsWait'
  BY <1>1, <1>3, <1>7, RetrierKeepsRows
<1>8. CASE UNCHANGED vars
  BY <1>3, <1>8 DEF vars, storeVars, TxnIds
<1>. QED
  BY <1>5, <1>6, <1>7, <1>8 DEF Next, Working, Failing, Retrying

\* One movement more of a wallet counts as one version more.
LEMMA VersionMoves ==
    ASSUME StoreTypeOK, EntriesOfRows, RowsKeepOperations,
           NEW w \in Wallets, NEW row \in WalletRows, NEW e \in LedgerEntries,
           wallets[w] # None, row.version = wallets[w].version + 1,
           UpdateWallet(w, row), CreateLedgerEntry(w, e),
           txns'[e.txn].op.kind # "OPENING", VersionOfWallet(w)
    PROVE  VersionOfWallet(w)'
<1> DEFINE n == Len(ledger[w])
<1>1. /\ ledger[w] \in Seq(LedgerEntries) /\ n \in Nat /\ DOMAIN ledger[w] = 1 .. n
  BY LenProperties DEF StoreTypeOK
<1>2. /\ wallets'[w] = row /\ row # None
      /\ ledger'[w] = Append(ledger[w], e)
  BY NoneAssumption DEF UpdateWallet, CreateLedgerEntry, StoreTypeOK
<1>3. /\ DOMAIN ledger'[w] = 1 .. n + 1
      /\ \A k \in 1 .. n : ledger'[w][k] = ledger[w][k]
      /\ ledger'[w][n + 1] = e
  BY <1>1, <1>2, AppendProperties, LenProperties
<1>4. \A k \in 1 .. n : txns'[ledger[w][k].txn].op = txns[ledger[w][k].txn].op
  BY <1>1 DEF EntriesOfRows, RowsKeepOperations
<1> HIDE DEF n
<1>5. WagerEntries(w)' = WagerEntries(w) \cup {n + 1}
  <2>1. WagerEntries(w) = {k \in 1 .. n : txns[ledger[w][k].txn].op.kind # "OPENING"}
    BY <1>1 DEF WagerEntries, Row
  <2>2. WagerEntries(w)' = {k \in 1 .. n + 1 : txns'[ledger'[w][k].txn].op.kind # "OPENING"}
    BY <1>3 DEF WagerEntries, Row
  <2>3. \A k : k \in 1 .. n + 1 <=> k \in 1 .. n \/ k = n + 1
    BY <1>1
  <2>. QED
    BY <1>3, <1>4, <2>1, <2>2, <2>3
<1>6. IsFiniteSet(WagerEntries(w)) /\ n + 1 \notin WagerEntries(w)
  <2>1. WagerEntries(w) \subseteq 1 .. n /\ IsFiniteSet(1 .. n)
    BY <1>1, FS_Interval DEF WagerEntries
  <2>. QED
    BY <1>1, <2>1, FS_Subset
<1>7. Cardinality(WagerEntries(w)') = Cardinality(WagerEntries(w)) + 1
  BY <1>5, <1>6, FS_AddElement
<1>8. Cardinality(WagerEntries(w)) \in Nat /\ wallets[w].version = 1 + Cardinality(WagerEntries(w))
  BY <1>6, FS_CardinalityType DEF VersionOfWallet
<1>9. wallets'[w].version = 1 + Cardinality(WagerEntries(w)')
  BY <1>2, <1>7, <1>8
<1>. QED
  BY <1>2, <1>9 DEF VersionOfWallet, WagerEntries, Row

LEMMA OtherVersionsStay ==
    ASSUME StoreTypeOK, EntriesOfRows, RowsKeepOperations, NEW v \in Wallets,
           wallets'[v] = wallets[v], ledger'[v] = ledger[v], VersionOfWallet(v)
    PROVE  VersionOfWallet(v)'
<1>1. \A k \in DOMAIN ledger[v] : txns'[ledger[v][k].txn].op = txns[ledger[v][k].txn].op
  BY DEF EntriesOfRows, RowsKeepOperations
<1>2. WagerEntries(v)' = {k \in DOMAIN ledger'[v] : txns'[ledger'[v][k].txn].op.kind # "OPENING"}
  BY DEF WagerEntries, Row
<1>3. WagerEntries(v)' = WagerEntries(v)
  BY <1>1, <1>2 DEF WagerEntries, Row
<1>4. IF wallets'[v] = None THEN ledger'[v] = <<>>
      ELSE wallets'[v].version = 1 + Cardinality(WagerEntries(v)')
  BY <1>3 DEF VersionOfWallet
<1>. QED
  BY <1>4 DEF VersionOfWallet, WagerEntries, Row

\* A movement of one wallet leaves the others as they are.
LEMMA VersionsMove ==
    ASSUME StoreTypeOK, EntriesOfRows, RowsKeepOperations, \A v \in Wallets : VersionOfWallet(v),
           NEW w \in Wallets, NEW row \in WalletRows, NEW e \in LedgerEntries,
           wallets[w] # None, row.version = wallets[w].version + 1,
           UpdateWallet(w, row), CreateLedgerEntry(w, e),
           txns'[e.txn].op.kind # "OPENING"
    PROVE  \A v \in Wallets : VersionOfWallet(v)'
<1>1. VersionOfWallet(w)'
  BY VersionMoves
<1>2. ASSUME NEW v \in Wallets, v # w PROVE VersionOfWallet(v)'
  <2>1. wallets'[v] = wallets[v] /\ ledger'[v] = ledger[v]
    BY <1>2 DEF UpdateWallet, CreateLedgerEntry, StoreTypeOK
  <2>. QED
    BY <2>1, OtherVersionsStay
<1>. QED
  BY <1>1, <1>2

LEMMA MovedVersion ==
    ASSUME NEW w \in WalletRows, NEW op, NEW d
    PROVE  Moved(w, op, d).version = w.version + 1
BY DEF Moved, WalletRows

LEMMA ProcessedVersion ==
    ASSUME TypeInv, LockedReadsAreCurrent, AccountInv, VersionInv, RowsKeepOperations,
           NEW h \in Handlers, PersistProcessed(h)
    PROVE  \A v \in Wallets : VersionOfWallet(v)'
<1>1. /\ StoreTypeOK /\ HandlerTypeOK /\ HandlerControl /\ EntriesOfRows
      /\ pc[h] = "decide"
  BY DEF TypeInv, TypeOK, AccountInv, PersistProcessed
<1>2. PICK w \in Wallets : w = req[h].op.wallet
  BY <1>1, ProcessedMovement
<1>3. wallets[w] = wal[h] /\ wal[h] \in WalletRows
  BY <1>1, <1>2 DEF LockedReadsAreCurrent, HandlerControl
<1>4. PICK row \in WalletRows : row = Moved(wal[h], req[h].op, Direction(h))
  BY <1>1, ProcessedMovement
<1>5. PICK e \in LedgerEntries : e = NewLedgerEntry(Len(txns) + 1, wal[h], req[h].op, Direction(h))
  BY <1>1, ProcessedMovement
<1>6. UpdateWallet(w, row) /\ CreateLedgerEntry(w, e)
  BY <1>2, <1>4, <1>5 DEF PersistProcessed
<1>7. txns'[e.txn].op.kind # "OPENING"
  <2>1. req[h].op.kind # "OPENING"
    BY <1>1 DEF VersionInv, HandlersServeWagers
  <2>2. PICK t : OneRowMore(t) /\ t.op = req[h].op
    BY PersistDecides DEF Decides, NewRow, CommitNew, OneRowMore
  <2>3. e.txn = Len(txns) + 1
    BY <1>5 DEF NewLedgerEntry
  <2>. QED
    BY <1>1, <2>1, <2>2, <2>3, AppendKeeps
<1>8. wallets[w] # None /\ row.version = wallets[w].version + 1
  BY <1>3, <1>4, MovedVersion, NoneAssumption
<1>. QED
  BY <1>1, <1>6, <1>7, <1>8, VersionsMove DEF VersionInv

LEMMA AppliedVersion ==
    ASSUME TypeInv, LockedReadsAreCurrent, AccountInv, CopiesWaited, VersionInv,
           RowsKeepOperations, NEW r \in Retriers, ApplyItem(r)
    PROVE  \A v \in Wallets : VersionOfWallet(v)'
<1>1. /\ StoreTypeOK /\ RetrierTypeOK /\ RetrierControl /\ EntriesOfRows
      /\ rpc[r] = "wallet_locked" /\ CopyOfRow(item[r])
  BY DEF TypeInv, TypeOK, AccountInv, CopiesOfRows, ApplyItem
<1> DEFINE op == item[r].row.op
<1>2. PICK w \in Wallets : w = op.wallet
  BY <1>1, AppliedMovement
<1>3. /\ wallets[w] = rwal[r] /\ rwal[r] \in WalletRows
      /\ item[r] \in Copies /\ Holds(r, item[r])
  BY <1>1, <1>2 DEF LockedReadsAreCurrent, RetrierControl, Holds
<1>4. PICK row \in WalletRows : row = Moved(rwal[r], op, ItemDirection(r))
  BY <1>1, AppliedMovement
<1>5. PICK e \in LedgerEntries : e = NewLedgerEntry(item[r].id, rwal[r], op, ItemDirection(r))
  BY <1>1, AppliedMovement
<1>6. UpdateWallet(w, row) /\ CreateLedgerEntry(w, e)
  BY <1>2, <1>4, <1>5 DEF ApplyItem
<1>7. txns'[e.txn].op.kind # "OPENING"
  <2>1. e.txn = item[r].id
    BY <1>5 DEF NewLedgerEntry
  <2>2. Waited(txns[item[r].id]) /\ item[r].id \in TxnIds
    BY <1>1, <1>3 DEF CopiesWaited, CopyOfRow
  <2>. QED
    BY <2>1, <2>2 DEF VersionInv, OnlyReversalsWait, RowsKeepOperations, RequiresReference
<1>8. wallets[w] # None /\ row.version = wallets[w].version + 1
  BY <1>3, <1>4, MovedVersion, NoneAssumption
<1>. QED
  BY <1>1, <1>6, <1>7, <1>8, VersionsMove DEF VersionInv

LEMMA OpenedVersion ==
    ASSUME TypeInv, AccountInv, VersionInv, RowsKeepOperations,
           NEW o \in Openings, OpenWallet(o)
    PROVE  \A v \in Wallets : VersionOfWallet(v)'
<1>1. /\ StoreTypeOK /\ EntriesOfRows /\ o.wallet \in Wallets
      /\ o.balance \in Nat
      /\ wallets[o.wallet] = None
      /\ wallets' = [wallets EXCEPT ![o.wallet] = NewWallet(o)]
  BY OpeningsAssumption, MaxCentsAssumption
     DEF TypeInv, TypeOK, AccountInv, OpenWallet, UpdateWallet
<1>2. PICK w \in Wallets : w = o.wallet
  BY <1>1
<1>3. /\ ledger[w] = <<>> /\ wallets'[w] = NewWallet(o)
      /\ NewWallet(o).version = 1 /\ NewWallet(o) # None
  <2>1. NewWallet(o) \in WalletRows
    BY <1>1, OpeningsAssumption DEF NewWallet, WalletRows
  <2>. QED
    BY <1>1, <1>2, <2>1, NoneAssumption DEF VersionInv, VersionOfWallet, NewWallet, StoreTypeOK
<1>4. WagerEntries(w)' = {}
  <2>1. CASE ~(o.balance > 0)
    <3>1. ledger'[w] = <<>>
      BY <1>3, <2>1 DEF OpenWallet
    <3>2. DOMAIN ledger'[w] = {}
      BY <3>1
    <3>. QED
      BY <3>2 DEF WagerEntries
  <2>2. CASE o.balance > 0
    <3>1. PICK e : /\ ledger' = [ledger EXCEPT ![w] = Append(ledger[w], e)]
                   /\ e.txn = Len(txns) + 1
      BY <1>2, <2>2 DEF OpenWallet, CreditOpening, CreateLedgerEntry
    <3>2. ledger'[w] = Append(<<>>, e)
      BY <1>1, <1>3, <3>1 DEF StoreTypeOK
    <3>3. DOMAIN ledger'[w] = {1} /\ ledger'[w][1] = e
      BY <3>2
    <3>4. txns'[Len(txns) + 1].op.kind = "OPENING"
      <4> DEFINE t == MarkProcessed(NewTransaction(None, OpeningOperation(o)), o.balance)
      <4>1. OneRowMore(t)
        BY <2>2 DEF OpenWallet, CreditOpening, OneRowMore
      <4>2. t.op.kind = "OPENING"
        BY DEF MarkProcessed, NewTransaction, OpeningOperation
      <4> HIDE DEF t
      <4>. QED
        BY <1>1, <4>1, <4>2, AppendKeeps
    <3>. QED
      BY <3>1, <3>3, <3>4 DEF WagerEntries, Row
  <2>. QED
    BY <2>1, <2>2
<1>5. VersionOfWallet(w)'
  <2>1. wallets'[w].version = 1 + Cardinality(WagerEntries(w)')
    BY <1>3, <1>4, FS_EmptySet
  <2>. QED
    BY <1>3, <2>1 DEF VersionOfWallet, WagerEntries, Row
<1>6. ASSUME NEW v \in Wallets, v # w PROVE VersionOfWallet(v)'
  <2>1. wallets'[v] = wallets[v]
    BY <1>1, <1>2, <1>6 DEF StoreTypeOK
  <2>2. ledger'[v] = ledger[v]
    BY <1>1, <1>2, <1>6 DEF OpenWallet, CreditOpening, CreateLedgerEntry, StoreTypeOK
  <2>. QED
    BY <1>1, <2>1, <2>2, OtherVersionsStay DEF VersionInv
<1>. QED
  BY <1>5, <1>6

LEMMA VersionInvKept ==
    ASSUME TypeInv, LockedReadsAreCurrent, AccountInv, CopiesWaited, VersionInv, [Next]_vars
    PROVE  VersionInv'
<1>1. HandlersServeWagers' /\ OnlyReversalsWait' /\ RowsKeepOperations
  BY ServedKept, OnlyReversalsKept, RowsOnlyGrow DEF VersionInv
<1>2. ASSUME UNCHANGED <<wallets, ledger>> PROVE \A v \in Wallets : VersionOfWallet(v)'
  BY <1>1, <1>2, OtherVersionsStay DEF VersionInv, TypeInv, TypeOK, AccountInv
<1>3. ASSUME NEW h \in Handlers, Handling(h) \/ AbortHandler(h)
      PROVE  \A v \in Wallets : VersionOfWallet(v)'
  BY <1>1, <1>2, <1>3, ProcessedVersion, MoneyMovesOnlyHere
<1>4. ASSUME NEW r \in Retriers, RetrierStep(r) \/ AbortItem(r) \/ CrashRetrier(r)
      PROVE  \A v \in Wallets : VersionOfWallet(v)'
  BY <1>1, <1>2, <1>4, AppliedVersion, MoneyMovesOnlyHere
<1>5. ASSUME NEW o \in Openings, Opening(o) PROVE \A v \in Wallets : VersionOfWallet(v)'
  BY <1>1, <1>5, OpenedVersion DEF Opening
<1>6. ASSUME UNCHANGED vars PROVE \A v \in Wallets : VersionOfWallet(v)'
  BY <1>2, <1>6 DEF vars, storeVars
<1>7. \A v \in Wallets : VersionOfWallet(v)'
  BY <1>3, <1>4, <1>5, <1>6 DEF Next, Working, Failing, Retrying
<1>. QED
  BY <1>1, <1>7 DEF VersionInv

\* The version of a wallet counts its movements, of which the opening is none; the handlers
\* serve no openings and only reversals wait. (wallet.go:68-117, process_wager.go:222-255)
THEOREM VersionInvariant == Spec => []VersionInv
<1>1. Init => VersionInv
  <2>1. ASSUME Init PROVE HandlersServeWagers /\ OnlyReversalsWait
    BY <2>1 DEF Init, HandlerInit, StoreInit, HandlersServeWagers, OnlyReversalsWait, TxnIds
  <2>2. ASSUME Init, NEW w \in Wallets PROVE VersionOfWallet(w)
    BY <2>2 DEF Init, StoreInit, VersionOfWallet
  <2>. QED
    BY <2>1, <2>2 DEF VersionInv
<1>2. TypeInv /\ LockedReadsAreCurrent /\ AccountInv /\ ReplayInv /\ VersionInv /\ [Next]_vars
        => VersionInv'
  BY VersionInvKept DEF ReplayInv
<1>. QED
  BY <1>1, <1>2, TypeInvariant, LockedReadsCurrent, AccountInvariant, ReplayInvariant, PTL
     DEF Spec

\* No two balances of a wallet share a version and none is skipped, whatever handlers and
\* retriers interleave. (wallet.go:68-117)
THEOREM VersionsCount == Spec => []VersionCountsMovements
<1>1. VersionInv => VersionCountsMovements
  BY DEF VersionInv, VersionOfWallet, WagerEntries, VersionCountsMovements
<1>. QED
  BY <1>1, VersionInvariant, PTL

-----------------------------------------------------------------------------
(* What a step announces and moves *)

\* Row id is new and processed or not without moving money; one event says which.
ArrivesUnmoved(id, row) ==
    /\ id = Len(txns) + 1 /\ OneRowMore(row) /\ UNCHANGED <<wallets, ledger>>
    /\ \/ /\ row.status = "PENDING_REFERENCE" /\ row.retryCount = 1
          /\ outbox' = outbox \o <<Event("WagerTransactionPendingReference", id)>>
       \/ /\ row.status = "REJECTED" /\ row.retryCount = 0
          /\ outbox' = outbox \o <<Event("WagerTransactionRejected", id)>>
       \/ /\ row.status = "PROCESSED" /\ row.retryCount = 0 /\ row.op.kind = "LOSS"
          /\ outbox' = outbox \o <<Event("WagerTransactionProcessed", id)>>

\* Row id is processed by the entry e of its wallet, which becomes account.
SettledBy(id, row, account, e) ==
    /\ UpdateWallet(row.op.wallet, account) /\ CreateLedgerEntry(row.op.wallet, e)
    /\ row.status = "PROCESSED" /\ row.op.kind # "LOSS"
    /\ e.txn = id /\ e.amount = row.op.amount /\ e.after = row.result
    /\ e.direction = DirectionFor(row.op.kind, IF row.reference = 0 THEN None
                                               ELSE txns'[row.reference].op.kind)
    /\ \A v \in Wallets : ~HasLedgerEntry(v, id)

ArrivesMoved(id, row, account, e) ==
    /\ id = Len(txns) + 1 /\ OneRowMore(row) /\ SettledBy(id, row, account, e)
    /\ row.retryCount = 0
    /\ \/ outbox' = outbox \o <<BalanceChanged(id, account.version),
                                Event("WagerTransactionProcessed", id)>>
       \/ outbox' = outbox \o <<Event("WagerTransactionProcessed", id),
                                BalanceChanged(id, account.version)>>
    /\ wallets[row.op.wallet] # None =>
          account.version = wallets[row.op.wallet].version + 1

\* The fields that the lemmas above do not tell of a new row.
LEMMA NewRowCounts ==
    ASSUME NEW new \in Rows, NEW id \in Nat, NEW code, NEW cents
    PROVE  /\ MarkRejected(new, code).retryCount = new.retryCount
           /\ MarkRejected(new, code).status = "REJECTED"
           /\ MarkProcessed(new, cents).retryCount = new.retryCount
           /\ MarkProcessed(new, cents).status = "PROCESSED"
           /\ MarkProcessed(new, cents).reference = new.reference
           /\ MarkProcessed(new, cents).result = cents
           /\ ResolveReference(new, id).retryCount = new.retryCount
           /\ ResolveReference(new, id).reference = id
           /\ ResolveReference(new, id) \in Rows
BY DEF Rows, MarkRejected, MarkProcessed, ResolveReference

LEMMA UnmovedArrivals ==
    ASSUME TypeInv, NEW h \in Handlers, PersistPending(h) \/ PersistRejected(h) \/ PersistLoss(h)
    PROVE  \E row \in Rows : ArrivesUnmoved(Len(txns) + 1, row)
<1>1. StoreTypeOK /\ HandlerTypeOK /\ HandlerControl /\ pc[h] = "decide"
  BY DEF TypeInv, TypeOK, PersistPending, PersistRejected, PersistLoss
<1>2. PICK new \in Rows : new = NewTransaction(req[h].key, req[h].op)
  BY <1>1, DecideFacts
<1>3. /\ new.retryCount = 0 /\ new.op = req[h].op /\ wal[h].balance \in Nat
      /\ Resolved(h, new) \in Rows
  BY <1>1, <1>2, DecideFacts, NewTransactionFields
<1>4. CASE PersistPending(h)
  <2>1. PICK row \in Rows : row = MarkPendingReference(new)
    BY <1>2, RowType
  <2>2. row.status = "PENDING_REFERENCE" /\ row.retryCount = 1
    BY <1>2, <2>1, NewTransactionFields
  <2>3. OneRowMore(row)
    BY <1>2, <1>4, <2>1 DEF PersistPending, CommitNew, OneRowMore
  <2>. QED
    BY <1>4, <2>2, <2>3 DEF PersistPending, CommitNew, ArrivesUnmoved
<1>5. CASE PersistRejected(h)
  <2>1. Rejection(h) \in Codes
    BY <1>5, ReferenceErrorType, OperationErrorType DEF PersistRejected, Rejection
  <2>2. PICK t \in Rows : t = IF ReferenceRefused(h) THEN new ELSE Resolved(h, new)
    BY <1>3
  <2>3. PICK row \in Rows : row = MarkRejected(t, Rejection(h))
    BY <2>1, <2>2, RowType
  <2>4. t.retryCount = 0
    <3>1. ref[h] # None => ref[h].id \in Nat
      BY <1>1 DEF HandlerTypeOK
    <3>. QED
      BY <1>3, <2>2, <3>1, NewRowCounts DEF Resolved
  <2>5. row.status = "REJECTED" /\ row.retryCount = 0
    BY <1>1, <2>3, <2>4, NewRowCounts
  <2>6. OneRowMore(row)
    BY <1>2, <1>5, <2>2, <2>3 DEF PersistRejected, CommitNew, OneRowMore
  <2>. QED
    BY <1>5, <2>5, <2>6 DEF PersistRejected, CommitNew, ArrivesUnmoved
<1>6. CASE PersistLoss(h)
  <2>1. PICK row \in Rows : row = MarkProcessed(new, wal[h].balance)
    BY <1>3, RowType
  <2>2. row.status = "PROCESSED" /\ row.retryCount = 0 /\ row.op.kind = "LOSS"
    BY <1>2, <1>3, <1>6, <2>1, NewRowCounts, TransitionsKeep DEF PersistLoss
  <2>3. OneRowMore(row)
    BY <1>2, <1>6, <2>1 DEF PersistLoss, CommitNew, OneRowMore
  <2>. QED
    BY <1>6, <2>2, <2>3 DEF PersistLoss, CommitNew, ArrivesUnmoved
<1>. QED
  BY <1>4, <1>5, <1>6

LEMMA ProcessedArrives ==
    ASSUME TypeInv, LockedReadsAreCurrent, AccountInv, RefsOfRows,
           NEW h \in Handlers, PersistProcessed(h)
    PROVE  \E row \in Rows, account \in WalletRows, e \in LedgerEntries :
               ArrivesMoved(Len(txns) + 1, row, account, e)
<1> DEFINE op == req[h].op
           id == Len(txns) + 1
<1>1. /\ StoreTypeOK /\ HandlerTypeOK /\ HandlerControl /\ EntriesOfRows
      /\ pc[h] = "decide" /\ op.kind # "LOSS"
  BY DEF TypeInv, TypeOK, AccountInv, PersistProcessed
<1>2. PICK w \in Wallets : w = op.wallet
  BY <1>1, ProcessedMovement
<1>3. wallets[w] = wal[h] /\ wal[h] \in WalletRows
  BY <1>1, <1>2 DEF LockedReadsAreCurrent, HandlerControl
<1>4. PICK account \in WalletRows : account = Moved(wal[h], op, Direction(h))
  BY <1>1, ProcessedMovement
<1>5. PICK e \in LedgerEntries : e = NewLedgerEntry(id, wal[h], op, Direction(h))
  BY <1>1, ProcessedMovement
<1>6. /\ account.balance \in Nat /\ account.version = wal[h].version + 1
      /\ account.balance = BalanceAfter(wal[h], op, Direction(h))
  BY <1>1, <1>3, <1>4, ProcessedMovement, MovedVersion DEF WalletRows
<1>7. PICK new \in Rows : new = NewTransaction(req[h].key, op)
  BY <1>1, DecideFacts
<1>8. /\ new.retryCount = 0 /\ new.reference = 0 /\ new.op = op
      /\ Resolved(h, new) \in Rows
  BY <1>1, <1>7, DecideFacts, NewTransactionFields DEF NewTransaction
<1>9. PICK row \in Rows : row = MarkProcessed(Resolved(h, new), account.balance)
  BY <1>6, <1>8, RowType
<1>10. ref[h] # None => ref[h].id \in TxnIds /\ ref[h].id \in Nat /\ ref[h].id # 0
  <2>1. TxnIds = 1 .. Len(txns) /\ Len(txns) \in Nat
    BY <1>1, LenProperties DEF StoreTypeOK, TxnIds
  <2>. QED
    BY <2>1 DEF RefsOfRows
<1>11. /\ row.status = "PROCESSED" /\ row.retryCount = 0 /\ row.op = op
       /\ row.result = account.balance
       /\ row.reference = IF ref[h] = None THEN 0 ELSE ref[h].id
  <2>1. CASE ref[h] = None
    BY <1>8, <1>9, <2>1, NewRowCounts, TransitionsKeep DEF Resolved
  <2>2. CASE ref[h] # None
    <3>1. Resolved(h, new) = ResolveReference(new, ref[h].id) /\ ref[h].id \in Nat
      BY <1>10, <2>2 DEF Resolved
    <3>2. PICK t \in Rows : t = ResolveReference(new, ref[h].id)
      BY <1>8, <3>1
    <3>3. t.op = op /\ t.retryCount = 0 /\ t.reference = ref[h].id
      BY <1>8, <3>1, <3>2, NewRowCounts, TransitionsKeep
    <3>. QED
      BY <1>9, <2>2, <3>1, <3>2, <3>3, NewRowCounts, TransitionsKeep
  <2>. QED
    BY <2>1, <2>2
<1>12. OneRowMore(row)
  BY <1>4, <1>7, <1>9 DEF PersistProcessed, CommitNew, OneRowMore
<1>13. e.direction = DirectionFor(row.op.kind, IF row.reference = 0 THEN None
                                               ELSE txns'[row.reference].op.kind)
  <2>1. e.direction = Direction(h)
    BY <1>5 DEF NewLedgerEntry
  <2>2. RowsKeepOperations
    BY <1>1, <1>12, AppendKeeps
  <2>3. ref[h] # None => txns'[ref[h].id].op.kind = ref[h].row.op.kind
    BY <2>2 DEF RefsOfRows, RowsKeepOperations
  <2>. QED
    BY <1>10, <1>11, <2>1, <2>3 DEF Direction
<1>14. e.txn = id /\ e.amount = op.amount /\ e.after = account.balance
  BY <1>5, <1>6 DEF NewLedgerEntry
<1>15. \A v \in Wallets : ~HasLedgerEntry(v, id)
  BY <1>1, NewRowHasNoEntry
<1>16. UpdateWallet(w, account) /\ CreateLedgerEntry(w, e)
  BY <1>2, <1>4, <1>5 DEF PersistProcessed
<1>17. SettledBy(id, row, account, e)
  BY <1>1, <1>2, <1>11, <1>13, <1>14, <1>15, <1>16 DEF SettledBy
<1>18. outbox' = outbox \o <<BalanceChanged(id, account.version),
                             Event("WagerTransactionProcessed", id)>>
  BY <1>4 DEF PersistProcessed, CommitNew
<1>19. ArrivesMoved(id, row, account, e)
  BY <1>2, <1>3, <1>6, <1>11, <1>12, <1>17, <1>18 DEF ArrivesMoved
<1>. QED
  BY <1>19

LEMMA OpeningArrives ==
    ASSUME TypeInv, AccountInv, NEW o \in Openings, OpenWallet(o), o.balance > 0
    PROVE  \E row \in Rows, account \in WalletRows, e \in LedgerEntries :
               ArrivesMoved(Len(txns) + 1, row, account, e)
<1> DEFINE id == Len(txns) + 1
           op == OpeningOperation(o)
<1>1. /\ o.wallet \in Wallets /\ o.player \in Players
      /\ o.currency \in Currencies /\ o.balance \in Nat
      /\ wallets[o.wallet] = None /\ CreditOpening(o)
      /\ StoreTypeOK /\ EntriesOfRows
  BY OpeningsAssumption, MaxCentsAssumption DEF OpenWallet, TypeInv, TypeOK, AccountInv
<1>2. PICK account \in WalletRows : account = NewWallet(o)
  BY <1>1 DEF NewWallet, WalletRows
<1>3. id \in Nat
  BY <1>1, LenProperties DEF StoreTypeOK
<1>4. PICK e \in LedgerEntries :
         e = [txn |-> id, direction |-> "CREDIT", amount |-> o.balance,
              before |-> 0, after |-> o.balance]
  BY <1>1, <1>3 DEF LedgerEntries, Directions
<1>5. /\ op \in Operations /\ op.wallet = o.wallet /\ op.kind = "OPENING"
      /\ op.amount = o.balance
  BY <1>1 DEF OpeningOperation, Operations, Kinds
<1>6. PICK new \in Rows : new = NewTransaction(None, op)
  BY <1>5, NewTransactionType
<1>7. new.retryCount = 0 /\ new.reference = 0 /\ new.op = op
  BY <1>6 DEF NewTransaction
<1>8. PICK row \in Rows : row = MarkProcessed(new, o.balance)
  BY <1>1, RowType
<1>9. /\ row.status = "PROCESSED" /\ row.retryCount = 0 /\ row.op = op
      /\ row.result = o.balance /\ row.reference = 0
  BY <1>7, <1>8, NewRowCounts, TransitionsKeep
<1>10. OneRowMore(row)
  BY <1>1, <1>6, <1>8 DEF CreditOpening, OneRowMore
<1>11. UpdateWallet(o.wallet, account) /\ CreateLedgerEntry(o.wallet, e)
  BY <1>1, <1>2, <1>4 DEF OpenWallet, CreditOpening
<1>12. e.direction = DirectionFor(row.op.kind, IF row.reference = 0 THEN None
                                               ELSE txns'[row.reference].op.kind)
  BY <1>4, <1>5, <1>9 DEF DirectionFor
<1>13. e.txn = id /\ e.amount = o.balance /\ e.after = o.balance /\ account.version = 1
  BY <1>2, <1>4 DEF NewWallet
<1>14. \A v \in Wallets : ~HasLedgerEntry(v, id)
  BY <1>1, NewRowHasNoEntry
<1> HIDE DEF op
<1>15. SettledBy(id, row, account, e)
  BY <1>5, <1>9, <1>11, <1>12, <1>13, <1>14 DEF SettledBy
<1>16. outbox' = outbox \o <<Event("WagerTransactionProcessed", id),
                             BalanceChanged(id, account.version)>>
  BY <1>1, <1>13 DEF CreditOpening
<1>17. ArrivesMoved(id, row, account, e)
  BY <1>1, <1>5, <1>9, <1>10, <1>15, <1>16 DEF ArrivesMoved
<1>. QED
  BY <1>17

LEMMA OnlyPersistWrites ==
    ASSUME NEW h \in Handlers, Handling(h) \/ AbortHandler(h)
    PROVE  \/ UNCHANGED <<wallets, txns, ledger, outbox>>
           \/ PersistPending(h) \/ PersistRejected(h) \/ PersistLoss(h) \/ PersistProcessed(h)
<1>1. CASE \E q \in Requests : Receive(h, q) \/ RefuseOpening(h, q)
  BY <1>1 DEF Receive, RefuseOpening, storeVars
<1>2. CASE ReplayRedelivered(h) \/ FindByKey(h) \/ FindByExternal(h)
  BY <1>2 DEF ReplayRedelivered, FindByKey, FindByExternal, Replay, Fail, GoTo, storeVars
<1>3. CASE LockWallet(h) \/ ReadReference(h)
  BY <1>3 DEF LockWallet, ReadReference, Fail, storeVars
<1>4. CASE FailUnsupported(h) \/ LoseInsertRace(h) \/ RecoverDuplicate(h) \/ AbortHandler(h)
  BY <1>4 DEF FailUnsupported, LoseInsertRace, RecoverDuplicate, AbortHandler, Fail
<1>. QED
  BY <1>1, <1>2, <1>3, <1>4 DEF Handling, HandlerStep

\* A handler or an opening adds a row with all that belongs to it, or writes nothing but,
\* maybe, an empty wallet.
LEMMA Arrivals ==
    ASSUME TypeInv, LockedReadsAreCurrent, AccountInv, RefsOfRows,
           \/ \E h \in Handlers : Handling(h) \/ AbortHandler(h)
           \/ \E o \in Openings : Opening(o)
    PROVE  \/ \E row \in Rows : ArrivesUnmoved(Len(txns) + 1, row)
           \/ \E row \in Rows, account \in WalletRows, e \in LedgerEntries :
                 ArrivesMoved(Len(txns) + 1, row, account, e)
           \/ /\ UNCHANGED <<txns, ledger, outbox>>
              /\ \A w \in Wallets : wallets[w] # None => wallets'[w] = wallets[w]
<1>1. ASSUME NEW h \in Handlers, Handling(h) \/ AbortHandler(h),
             ~(UNCHANGED <<wallets, txns, ledger, outbox>>)
      PROVE  \/ \E row \in Rows : ArrivesUnmoved(Len(txns) + 1, row)
             \/ \E row \in Rows, account \in WalletRows, e \in LedgerEntries :
                   ArrivesMoved(Len(txns) + 1, row, account, e)
  BY <1>1, OnlyPersistWrites, UnmovedArrivals, ProcessedArrives
<1>2. ASSUME NEW o \in Openings, OpenWallet(o), ~(o.balance > 0)
      PROVE  /\ UNCHANGED <<txns, ledger, outbox>>
             /\ \A w \in Wallets : wallets[w] # None => wallets'[w] = wallets[w]
  BY <1>2 DEF OpenWallet, UpdateWallet, TypeInv, TypeOK, StoreTypeOK
<1>3. ASSUME NEW o \in Openings, Opening(o), o.balance > 0
      PROVE  \E row \in Rows, account \in WalletRows, e \in LedgerEntries :
                 ArrivesMoved(Len(txns) + 1, row, account, e)
  BY <1>3, OpeningArrives DEF Opening
<1>. QED
  BY <1>1, <1>2, <1>3 DEF Opening

\* A retrier announces outcomes of rows that are there, and no change of a balance.
LEMMA RetrierAnnounces ==
    ASSUME TypeInv, AccountInv, NEW r \in Retriers,
           RetrierStep(r) \/ AbortItem(r) \/ CrashRetrier(r)
    PROVE  \/ UNCHANGED outbox
           \/ \E id \in TxnIds, type \in {"WagerTransactionProcessed", "WagerTransactionRejected"} :
                 outbox' = Append(outbox, Event(type, id))
<1>1. CASE RejectExhausted(r)
  <2>1. PICK c \in batch[r] : outbox' = Append(outbox, Event("WagerTransactionRejected", c.id))
    BY <1>1 DEF RejectExhausted
  <2>2. c.id \in TxnIds
    BY DEF AccountInv, CopiesOfRows, CopyOfRow
  <2>. QED
    BY <2>1, <2>2
<1>2. CASE RejectItem(r) \/ ApplyItem(r)
  <2>1. item[r].id \in TxnIds
    BY <1>2 DEF RejectItem, ApplyItem, AccountInv, CopiesOfRows, CopyOfRow
  <2>. QED
    BY <1>2, <2>1 DEF RejectItem, ApplyItem
<1>3. CASE FetchBatch(r) \/ ReadTarget(r) \/ LockItemWallet(r) \/ PostponeRetry(r)
  BY <1>3 DEF FetchBatch, ReadTarget, LockItemWallet, PostponeRetry, storeVars
<1>4. CASE KeepWaiting(r) \/ AbandonItem(r) \/ AbortItem(r) \/ CrashRetrier(r)
  BY <1>4 DEF KeepWaiting, AbandonItem, AbortItem, CrashRetrier
<1>. QED
  BY <1>1, <1>2, <1>3, <1>4 DEF RetrierStep, HandleItem

\* An open wallet stays open and its version never decreases.
VersionsGrow ==
    \A w \in Wallets : wallets[w] # None =>
        wallets'[w] # None /\ wallets[w].version <= wallets'[w].version

LEMMA WalletsAdvance ==
    ASSUME StoreTypeOK, NEW w \in Wallets, NEW account \in WalletRows, UpdateWallet(w, account),
           wallets[w] # None => account.version = wallets[w].version + 1
    PROVE  VersionsGrow
<1>1. wallets' = [wallets EXCEPT ![w] = account] /\ account # None
  BY NoneAssumption DEF UpdateWallet
<1>2. \A v \in Wallets : wallets[v] # None => wallets[v].version \in Nat
  BY DEF StoreTypeOK, WalletRows
<1>. QED
  BY <1>1, <1>2 DEF VersionsGrow, StoreTypeOK

LEMMA VersionsDoGrow ==
    ASSUME TypeInv, LockedReadsAreCurrent, AccountInv, RefsOfRows, [Next]_vars
    PROVE  VersionsGrow
<1>1. StoreTypeOK /\ RetrierTypeOK /\ RetrierControl
  BY DEF TypeInv, TypeOK
<1>2. ASSUME \A w \in Wallets : wallets[w] # None => wallets'[w] = wallets[w]
      PROVE  VersionsGrow
  BY <1>1, <1>2 DEF VersionsGrow, StoreTypeOK, WalletRows
<1>3. ASSUME NEW id, NEW row \in Rows, NEW account \in WalletRows, NEW e,
             ArrivesMoved(id, row, account, e)
      PROVE  VersionsGrow
  <2>1. row.op.wallet \in Wallets
    BY DEF Rows, Operations
  <2>. QED
    BY <1>1, <1>3, <2>1, WalletsAdvance DEF ArrivesMoved, SettledBy
<1>4. ASSUME NEW r \in Retriers, ApplyItem(r) PROVE VersionsGrow
  <2>1. PICK w \in Wallets : w = item[r].row.op.wallet
    BY <1>1, <1>4, AppliedMovement
  <2>2. wallets[w] = rwal[r] /\ rwal[r] \in WalletRows
    BY <1>1, <1>4, <2>1 DEF LockedReadsAreCurrent, RetrierControl, ApplyItem
  <2>3. PICK account \in WalletRows : account = Moved(rwal[r], item[r].row.op, ItemDirection(r))
    BY <1>1, <1>4, AppliedMovement
  <2>4. UpdateWallet(w, account) /\ account.version = wallets[w].version + 1
    BY <1>4, <2>1, <2>2, <2>3, MovedVersion DEF ApplyItem
  <2>. QED
    BY <1>1, <2>4, WalletsAdvance
<1>5. ASSUME \/ \E h \in Handlers : Handling(h) \/ AbortHandler(h)
             \/ \E o \in Openings : Opening(o)
      PROVE  VersionsGrow
  BY <1>2, <1>3, <1>5, Arrivals DEF ArrivesUnmoved
<1>6. ASSUME NEW r \in Retriers, RetrierStep(r) \/ AbortItem(r) \/ CrashRetrier(r)
      PROVE  VersionsGrow
  BY <1>2, <1>4, <1>6, MoneyMovesOnlyHere
<1>7. CASE UNCHANGED vars
  BY <1>2, <1>7 DEF vars, storeVars
<1>. QED
  BY <1>5, <1>6, <1>7 DEF Next, Working, Failing, Retrying

-----------------------------------------------------------------------------
(* Announced versions *)

IsChange(e) == e.type = "WalletBalanceChanged"

WalletOf(rows, e) == rows[e.txn].op.wallet

\* An event is of a row, and a change is announced of a wallet that has that version or a
\* later one.
Announced(n) ==
    /\ outbox[n].txn \in TxnIds
    /\ IsChange(outbox[n]) =>
          /\ wallets[WalletOf(txns, outbox[n])] # None
          /\ outbox[n].version <= wallets[WalletOf(txns, outbox[n])].version

AnnouncementInv == (\A n \in DOMAIN outbox : Announced(n)) /\ AnnouncedVersionsIncrease

LEMMA OneEventMore ==
    ASSUME StoreTypeOK, NEW e \in Events, outbox' = Append(outbox, e) \/ outbox' = outbox \o <<e>>
    PROVE  /\ DOMAIN outbox = 1 .. Len(outbox) /\ Len(outbox) \in Nat
           /\ DOMAIN outbox' = 1 .. Len(outbox) + 1
           /\ \A k \in 1 .. Len(outbox) : outbox'[k] = outbox[k]
           /\ outbox'[Len(outbox) + 1] = e
<1>1. /\ outbox \in Seq(Events) /\ DOMAIN outbox = 1 .. Len(outbox) /\ Len(outbox) \in Nat
  BY LenProperties DEF StoreTypeOK
<1>2. CASE outbox' = Append(outbox, e)
  BY <1>1, <1>2, AppendProperties, LenProperties
<1>3. CASE outbox' = outbox \o <<e>>
  <2>1. <<e>> \in Seq(Events) /\ Len(<<e>>) = 1 /\ <<e>>[1] = e
    OBVIOUS
  <2>2. PICK one \in Seq(Events) : one = <<e>>
    BY <2>1
  <2>3. Len(one) = 1 /\ one[1] = e /\ outbox' = outbox \o one
    BY <1>3, <2>1, <2>2
  <2>. QED
    BY <1>1, <2>2, <2>3, ConcatProperties, LenProperties
<1>. QED
  BY <1>2, <1>3

LEMMA TwoEventsMore ==
    ASSUME StoreTypeOK, NEW e \in Events, NEW f \in Events, outbox' = outbox \o <<e, f>>
    PROVE  /\ DOMAIN outbox = 1 .. Len(outbox) /\ Len(outbox) \in Nat
           /\ DOMAIN outbox' = 1 .. Len(outbox) + 2
           /\ \A k \in 1 .. Len(outbox) : outbox'[k] = outbox[k]
           /\ outbox'[Len(outbox) + 1] = e /\ outbox'[Len(outbox) + 2] = f
<1>1. /\ outbox \in Seq(Events) /\ DOMAIN outbox = 1 .. Len(outbox) /\ Len(outbox) \in Nat
  BY LenProperties DEF StoreTypeOK
<1>2. <<e, f>> \in Seq(Events) /\ Len(<<e, f>>) = 2 /\ <<e, f>>[1] = e /\ <<e, f>>[2] = f
  OBVIOUS
<1>3. PICK two \in Seq(Events) : two = <<e, f>>
  BY <1>2
<1>4. Len(two) = 2 /\ two[1] = e /\ two[2] = f /\ outbox' = outbox \o two
  BY <1>2, <1>3
<1>5. /\ Len(outbox') = Len(outbox) + 2 /\ outbox' \in Seq(Events)
      /\ \A k \in 1 .. Len(outbox) : outbox'[k] = outbox[k]
      /\ \A k \in 1 .. 2 : outbox'[Len(outbox) + k] = two[k]
  BY <1>1, <1>4, ConcatProperties
<1>. QED
  BY <1>1, <1>4, <1>5, LenProperties

\* The outbox grows from n to p events, at most one of which announces a new version.
LEMMA AnnouncementsGrow ==
    ASSUME StoreTypeOK, AnnouncementInv, RowsKeepOperations, VersionsGrow,
           StoreTypeOK', NEW n \in Nat, NEW p \in Nat, n <= p,
           DOMAIN outbox = 1 .. n, DOMAIN outbox' = 1 .. p,
           \A k \in 1 .. n : outbox'[k] = outbox[k],
           \A k \in n + 1 .. p : outbox'[k].txn \in TxnIds',
           \A j, k \in n + 1 .. p : IsChange(outbox'[j]) /\ IsChange(outbox'[k]) => j = k,
           \A k \in n + 1 .. p : IsChange(outbox'[k]) =>
               LET w == WalletOf(txns', outbox'[k])
               IN /\ w \in Wallets /\ wallets'[w] # None
                  /\ outbox'[k].version = wallets'[w].version
                  /\ wallets[w] # None => wallets[w].version < wallets'[w].version
    PROVE  AnnouncementInv'
<1>1. ASSUME NEW k \in 1 .. n
      PROVE  /\ outbox[k].txn \in TxnIds /\ outbox[k].txn \in TxnIds'
             /\ outbox'[k] = outbox[k] /\ IsChange(outbox'[k]) = IsChange(outbox[k])
             /\ WalletOf(txns', outbox'[k]) = WalletOf(txns, outbox[k])
             /\ WalletOf(txns, outbox[k]) \in Wallets
             /\ outbox[k].version \in Nat
  <2>1. outbox[k].txn \in TxnIds /\ outbox[k] \in Events
    <3>1. k \in DOMAIN outbox /\ outbox \in Seq(Events) /\ DOMAIN outbox = 1 .. Len(outbox)
      BY <1>1, LenProperties DEF StoreTypeOK
    <3>. QED
      BY <3>1, ElementOfSeq DEF AnnouncementInv, Announced
  <2>2. txns[outbox[k].txn] \in Rows
    BY <2>1, ElementOfSeq DEF StoreTypeOK, TxnIds
  <2>. QED
    BY <1>1, <2>1, <2>2 DEF RowsKeepOperations, WalletOf, Rows, Operations,
                            Events
<1>2. ASSUME NEW w \in Wallets, wallets[w] # None
      PROVE  /\ wallets[w].version \in Nat /\ wallets'[w] # None
             /\ wallets[w].version <= wallets'[w].version
  BY <1>2 DEF StoreTypeOK, WalletRows, VersionsGrow
<1>3. ASSUME NEW k \in 1 .. n, IsChange(outbox[k])
      PROVE  /\ wallets[WalletOf(txns, outbox[k])] # None
             /\ outbox[k].version <= wallets[WalletOf(txns, outbox[k])].version
  BY <1>3 DEF AnnouncementInv, Announced
<1>4. \A k \in 1 .. p : k \in 1 .. n \/ k \in n + 1 .. p
  OBVIOUS
<1>5. \A w \in Wallets : wallets'[w] # None => wallets'[w].version \in Nat
  BY DEF StoreTypeOK, WalletRows
<1>6. ASSUME NEW k \in 1 .. p PROVE Announced(k)'
  <2>1. CASE k \in 1 .. n
    <3>1. outbox'[k].txn \in TxnIds' /\ (IsChange(outbox'[k]) => IsChange(outbox[k]))
      BY <1>1, <2>1
    <3>2. ASSUME IsChange(outbox[k])
          PROVE  /\ wallets'[WalletOf(txns', outbox'[k])] # None
                 /\ outbox'[k].version <= wallets'[WalletOf(txns', outbox'[k])].version
      BY <1>1, <1>2, <1>3, <1>5, <2>1, <3>2
    <3>. QED
      BY <3>1, <3>2 DEF Announced
  <2>2. CASE k \in n + 1 .. p
    BY <1>5, <2>2 DEF Announced
  <2>. QED
    BY <1>4, <2>1, <2>2
<1>7. ASSUME NEW j \in 1 .. p, NEW k \in 1 .. p, j < k, IsChange(outbox'[j]), IsChange(outbox'[k]),
             WalletOf(txns', outbox'[j]) = WalletOf(txns', outbox'[k])
      PROVE  outbox'[j].version < outbox'[k].version
  <2>1. CASE k \in 1 .. n
    <3>1. j \in 1 .. n
      BY <1>7, <2>1
    <3>. QED
      BY <1>1, <1>7, <2>1, <3>1 DEF AnnouncementInv, AnnouncedVersionsIncrease, IsChange,
                                    WalletOf, Row
  <2>2. CASE k \in n + 1 .. p /\ j \in 1 .. n
    <3>1. /\ wallets[WalletOf(txns, outbox[j])] # None
          /\ outbox[j].version <= wallets[WalletOf(txns, outbox[j])].version
          /\ WalletOf(txns, outbox[j]) = WalletOf(txns', outbox'[k])
          /\ WalletOf(txns, outbox[j]) \in Wallets
          /\ outbox'[j] = outbox[j] /\ outbox[j].version \in Nat
      BY <1>1, <1>3, <1>7, <2>2
    <3>2. /\ outbox'[k].version = wallets'[WalletOf(txns, outbox[j])].version
          /\ wallets[WalletOf(txns, outbox[j])].version
                < wallets'[WalletOf(txns, outbox[j])].version
      BY <1>7, <2>2, <3>1
    <3>. QED
      BY <1>2, <1>5, <1>7, <3>1, <3>2
  <2>3. CASE k \in n + 1 .. p /\ j \in n + 1 .. p
    BY <1>7, <2>3
  <2>. QED
    BY <1>4, <2>1, <2>2, <2>3
<1>. QED
  BY <1>6, <1>7 DEF AnnouncementInv, AnnouncedVersionsIncrease, IsChange, WalletOf, Row

LEMMA AnnouncementInvKept ==
    ASSUME TypeInv, TypeInv', LockedReadsAreCurrent, AccountInv, RefsOfRows, AnnouncementInv,
           [Next]_vars
    PROVE  AnnouncementInv'
<1>1. StoreTypeOK /\ StoreTypeOK' /\ RowsKeepOperations /\ VersionsGrow
  BY RowsOnlyGrow, VersionsDoGrow DEF TypeInv, TypeOK
<1>2. ASSUME UNCHANGED outbox PROVE AnnouncementInv'
  <2>1. DOMAIN outbox = 1 .. Len(outbox) /\ Len(outbox) \in Nat
    BY <1>1, LenProperties DEF StoreTypeOK
  <2>2. \A k : k \notin Len(outbox) + 1 .. Len(outbox)
    BY <2>1
  <2>. QED
    BY <1>1, <1>2, <2>1, <2>2, AnnouncementsGrow
<1>3. ASSUME NEW e \in Events, outbox' = Append(outbox, e) \/ outbox' = outbox \o <<e>>,
             e.txn \in TxnIds', e.type # "WalletBalanceChanged"
      PROVE  AnnouncementInv'
  <2> DEFINE n == Len(outbox)
  <2>1. /\ DOMAIN outbox = 1 .. n /\ n \in Nat
        /\ DOMAIN outbox' = 1 .. n + 1
        /\ \A k \in 1 .. n : outbox'[k] = outbox[k]
        /\ outbox'[n + 1] = e
    BY <1>1, <1>3, OneEventMore
  <2> HIDE DEF n
  <2>2. /\ \A k \in n + 1 .. n + 1 : k = n + 1
        /\ n + 1 \in Nat /\ n <= n + 1
    BY <2>1
  <2>3. ~IsChange(outbox'[n + 1])
    BY <1>3, <2>1 DEF IsChange
  <2>. QED
    BY <1>1, <1>3, <2>1, <2>2, <2>3, AnnouncementsGrow
<1>4. ASSUME NEW id, NEW row \in Rows, ArrivesUnmoved(id, row) PROVE AnnouncementInv'
  <2>1. id \in TxnIds' /\ id \in Nat
    <3>1. Len(txns) \in Nat
      BY <1>1, LenProperties DEF StoreTypeOK
    <3>2. TxnIds' = 1 .. Len(txns) + 1 /\ id = Len(txns) + 1
      BY <1>1, <1>4, AppendKeeps DEF ArrivesUnmoved
    <3>. QED
      BY <3>1, <3>2
  <2>2. PICK type \in EventTypes \ {"WalletBalanceChanged"} :
           outbox' = outbox \o <<Event(type, id)>>
    BY <1>4 DEF ArrivesUnmoved, EventTypes
  <2>3. PICK e \in Events : e = Event(type, id)
    BY <2>1, <2>2, EventType
  <2>4. e.txn = id /\ e.type = type
    BY <2>3 DEF Event
  <2>. QED
    BY <1>3, <2>1, <2>2, <2>3, <2>4
<1>5. ASSUME NEW id, NEW row \in Rows, NEW account \in WalletRows, NEW e,
             ArrivesMoved(id, row, account, e)
      PROVE  AnnouncementInv'
  <2> DEFINE n == Len(outbox)
             w == row.op.wallet
  <2>1. id \in TxnIds' /\ id \in Nat /\ txns'[id] = row
    <3>1. Len(txns) \in Nat
      BY <1>1, LenProperties DEF StoreTypeOK
    <3>2. TxnIds' = 1 .. Len(txns) + 1 /\ id = Len(txns) + 1 /\ txns'[Len(txns) + 1] = row
      BY <1>1, <1>5, AppendKeeps DEF ArrivesMoved
    <3>. QED
      BY <3>1, <3>2
  <2>2. PICK c \in Events : c = BalanceChanged(id, account.version)
    <3>1. account.version \in Nat /\ "WagerTransactionProcessed" \in EventTypes
      BY DEF WalletRows, EventTypes
    <3>. QED
      BY <2>1, <3>1, EventType
  <2>3. PICK d \in Events : d = Event("WagerTransactionProcessed", id)
    BY <2>1, EventType DEF EventTypes
  <2>4. /\ c.txn = id /\ c.type = "WalletBalanceChanged" /\ c.version = account.version
        /\ d.txn = id /\ d.type # "WalletBalanceChanged"
    BY <2>2, <2>3 DEF BalanceChanged, Event
  <2>5. /\ w \in Wallets /\ wallets'[w] = account /\ account # None
        /\ wallets[w] # None => wallets[w].version < wallets'[w].version
    <3>1. w \in Wallets /\ account # None /\ wallets' = [wallets EXCEPT ![w] = account]
      BY <1>5, NoneAssumption DEF ArrivesMoved, SettledBy, UpdateWallet, Rows, Operations
    <3>2. wallets[w] # None => /\ wallets[w].version \in Nat
                               /\ account.version = wallets[w].version + 1
      BY <1>1, <1>5, <3>1 DEF ArrivesMoved, StoreTypeOK, WalletRows
    <3>. QED
      BY <1>1, <3>1, <3>2 DEF StoreTypeOK
  <2>6. PICK m \in {1, 2} :
          /\ DOMAIN outbox = 1 .. n /\ n \in Nat
          /\ DOMAIN outbox' = 1 .. n + 2
          /\ \A k \in 1 .. n : outbox'[k] = outbox[k]
          /\ outbox'[n + m] = c /\ outbox'[n + (3 - m)] = d
    <3>1. CASE outbox' = outbox \o <<c, d>>
      <4>. WITNESS 1 \in {1, 2}
      <4>. QED
        BY <1>1, <3>1, TwoEventsMore
    <3>2. CASE outbox' = outbox \o <<d, c>>
      <4>. WITNESS 2 \in {1, 2}
      <4>. QED
        BY <1>1, <3>2, TwoEventsMore
    <3>. QED
      BY <1>5, <2>2, <2>3, <3>1, <3>2 DEF ArrivesMoved
  <2> HIDE DEF n, w
  <2>7. /\ \A k \in n + 1 .. n + 2 : k = n + m \/ k = n + (3 - m)
        /\ n + 2 \in Nat /\ n <= n + 2
    BY <2>6
  <2>8. /\ IsChange(outbox'[n + m]) /\ ~IsChange(outbox'[n + (3 - m)])
        /\ WalletOf(txns', outbox'[n + m]) = w
        /\ outbox'[n + m].version = wallets'[w].version
        /\ outbox'[n + m].txn \in TxnIds' /\ outbox'[n + (3 - m)].txn \in TxnIds'
    BY <2>1, <2>4, <2>5, <2>6 DEF IsChange, WalletOf, w
  <2>9. ASSUME NEW k \in n + 1 .. n + 2
        PROVE  /\ outbox'[k].txn \in TxnIds'
               /\ IsChange(outbox'[k]) => k = n + m
    BY <2>7, <2>8
  <2>10. ASSUME NEW k \in n + 1 .. n + 2, IsChange(outbox'[k])
         PROVE  LET v == WalletOf(txns', outbox'[k])
                IN /\ v \in Wallets /\ wallets'[v] # None
                   /\ outbox'[k].version = wallets'[v].version
                   /\ wallets[v] # None => wallets[v].version < wallets'[v].version
    <3>1. k = n + m
      BY <2>9, <2>10
    <3>. QED
      BY <2>5, <2>8, <3>1
  <2>. QED
    BY <1>1, <2>6, <2>7, <2>9, <2>10, AnnouncementsGrow
<1>6. ASSUME \/ \E h \in Handlers : Handling(h) \/ AbortHandler(h)
             \/ \E o \in Openings : Opening(o)
      PROVE  AnnouncementInv'
  BY <1>2, <1>4, <1>5, <1>6, Arrivals
<1>7. ASSUME NEW r \in Retriers, RetrierStep(r) \/ AbortItem(r) \/ CrashRetrier(r)
      PROVE  AnnouncementInv'
  <2>1. ASSUME NEW id \in TxnIds,
               NEW type \in {"WagerTransactionProcessed", "WagerTransactionRejected"},
               outbox' = Append(outbox, Event(type, id))
        PROVE  AnnouncementInv'
    <3>1. id \in Nat /\ id \in TxnIds'
      BY <1>1, LenProperties DEF StoreTypeOK, TxnIds, RowsKeepOperations
    <3>2. PICK e \in Events : e = Event(type, id)
      BY <3>1, EventType DEF EventTypes
    <3>3. e.txn = id /\ e.type # "WalletBalanceChanged"
      BY <3>2 DEF Event
    <3>. QED
      BY <1>3, <2>1, <3>1, <3>2, <3>3
  <2>. QED
    BY <1>2, <1>7, <2>1, RetrierAnnounces
<1>8. CASE UNCHANGED vars
  BY <1>2, <1>8 DEF vars, storeVars
<1>. QED
  BY <1>6, <1>7, <1>8 DEF Next, Working, Failing, Retrying

\* Every event is of a committed row and no wallet is announced in a version that it does
\* not have yet.
THEOREM AnnouncementInvariant == Spec => []AnnouncementInv
<1>1. Init => AnnouncementInv
  <2> SUFFICES ASSUME Init PROVE AnnouncementInv
    OBVIOUS
  <2>1. outbox = <<>>
    BY DEF Init, StoreInit
  <2>2. DOMAIN outbox = {}
    BY <2>1
  <2>. QED
    BY <2>2 DEF AnnouncementInv, AnnouncedVersionsIncrease
<1>2. /\ TypeInv /\ TypeInv' /\ LockedReadsAreCurrent /\ AccountInv /\ ReplayInv
      /\ AnnouncementInv /\ [Next]_vars
      => AnnouncementInv'
  BY AnnouncementInvKept DEF ReplayInv
<1>. QED
  BY <1>1, <1>2, TypeInvariant, LockedReadsCurrent, AccountInvariant, ReplayInvariant, PTL DEF Spec

\* The versions announced for a wallet only grow, in the order of the commits, whatever
\* handlers, openings and retriers interleave. (process_wager.go:377-398, open_wallet.go:127-155)
THEOREM AnnouncedVersionsGrow == Spec => []AnnouncedVersionsIncrease
<1>1. AnnouncementInv => AnnouncedVersionsIncrease
  BY DEF AnnouncementInv
<1>. QED
  BY <1>1, AnnouncementInvariant, PTL

-----------------------------------------------------------------------------
(* What a reversal refers to had succeeded *)

AnnouncedAs(m, ext) ==
    outbox[m].type = "WagerTransactionProcessed" /\ txns[outbox[m].txn].op.ext = ext

\* The operation ext was announced as processed.
SuccessOf(ext) == \E m \in DOMAIN outbox : AnnouncedAs(m, ext)

\* c is a copy of a row that is there, and whose success was announced if the copy tells it.
Trusted(c) == CopyOfRow(c) /\ (c.row.status = "PROCESSED" => SuccessOf(c.row.op.ext))

\* A handler that holds a reference is about to decide and found it for its request.
TrustedRefs ==
    \A h \in Handlers : ref[h] # None =>
        pc[h] = "decide" /\ Trusted(ref[h]) /\ ref[h].row.op.ext = req[h].op.ref

TrustedTargets ==
    \A r \in Retriers : target[r] # None =>
        /\ rpc[r] # "idle" /\ Trusted(target[r])
        /\ target[r].row.op.ext = item[r].row.op.ref

PendingCopies ==
    \A r \in Retriers, c \in Copies : Holds(r, c) => c.row.status = "PENDING_REFERENCE"

ProcessedAnnounced == \A i \in TxnIds : Processed(i) => SuccessOf(txns[i].op.ext)

Referenced(i) ==
    IsReversal(i) /\ Processed(i) =>
        /\ Row(i).reference \in TxnIds
        /\ Row(Row(i).reference).op.ext = Row(i).op.ref

Followed(n) ==
    outbox[n].type = "WagerTransactionProcessed" /\ IsReversal(outbox[n].txn) =>
        \E m \in 1..(n - 1) : AnnouncedAs(m, Row(outbox[n].txn).op.ref)

ReferenceInv ==
    /\ TrustedRefs /\ TrustedTargets /\ PendingCopies /\ ProcessedAnnounced
    /\ \A i \in TxnIds : Referenced(i)
    /\ \A n \in DOMAIN outbox : Followed(n)

\* A processed reversal follows a copy of the operation it names, which had succeeded.
Follows(row) ==
    \E c : /\ Trusted(c) /\ c.row.status = "PROCESSED"
           /\ row.reference = c.id /\ c.row.op.ext = row.op.ref

-----------------------------------------------------------------------------
(* What a retrier writes *)

\* The row id, that had to wait, becomes row, whatever became of it since it was copied.
Rewritten(id, row) ==
    /\ Waited(txns[id]) /\ txns' = [txns EXCEPT ![id] = row]
    /\ row.op = txns[id].op /\ row.retryCount \in Nat /\ Waited(row)

RewrittenUnmoved(id, row) ==
    /\ Rewritten(id, row) /\ UNCHANGED <<wallets, ledger>>
    /\ \/ row.status = "PENDING_REFERENCE" /\ UNCHANGED outbox
       \/ /\ row.status = "REJECTED"
          /\ outbox' = Append(outbox, Event("WagerTransactionRejected", id))

RewrittenMoved(id, row, account, e) ==
    /\ Rewritten(id, row) /\ SettledBy(id, row, account, e) /\ Follows(row)
    /\ outbox' = Append(outbox, Event("WagerTransactionProcessed", id))

\* The fields that the lemmas above do not tell of a rewritten row.
LEMMA RewrittenFields ==
    ASSUME NEW old \in Rows, NEW id \in Nat, NEW code
    PROVE  /\ MarkRejected(old, code).retryCount = old.retryCount
           /\ MarkRejected(old, code).status = "REJECTED"
           /\ ResolveReference(old, id).retryCount = old.retryCount
           /\ ResolveReference(old, id) \in Rows
BY DEF Rows, MarkRejected, ResolveReference

LEMMA UnmovedRewrites ==
    ASSUME TypeInv, AccountInv, CopiesWaited, PendingCopies, NEW r \in Retriers,
           RejectExhausted(r) \/ PostponeRetry(r) \/ RejectItem(r)
    PROVE  \E id \in TxnIds : \E row : RewrittenUnmoved(id, row)
<1>1. RetrierTypeOK /\ RetrierControl
  BY DEF TypeInv, TypeOK
<1>2. ASSUME NEW c \in Copies, Holds(r, c)
      PROVE  /\ c.id \in TxnIds /\ c.row.op = txns[c.id].op /\ c.row \in Rows
             /\ c.row.status = "PENDING_REFERENCE" /\ c.row.retryCount \in Nat
             /\ Waited(c.row) /\ Waited(txns[c.id])
  BY <1>2 DEF AccountInv, CopiesOfRows, CopyOfRow, CopiesWaited, PendingCopies, Holds, Copies,
              Rows
<1>3. ASSUME NEW c \in Copies, Holds(r, c), NEW row, UpdateTxn(c, row),
             row.op = c.row.op, row.retryCount \in {c.row.retryCount, c.row.retryCount + 1}
      PROVE  Rewritten(c.id, row)
  BY <1>2, <1>3 DEF Rewritten, UpdateTxn, Waited
<1>4. CASE RejectExhausted(r)
  <2>1. PICK c \in batch[r] :
          /\ UpdateTxn(c, MarkRejected(c.row, "REFERENCE_NOT_FOUND"))
          /\ outbox' = Append(outbox, Event("WagerTransactionRejected", c.id))
    BY <1>4 DEF RejectExhausted
  <2>2. c \in Copies /\ Holds(r, c)
    BY <1>1 DEF RetrierTypeOK, Holds
  <2>3. PICK row : row = MarkRejected(c.row, "REFERENCE_NOT_FOUND")
    OBVIOUS
  <2>4. row.op = c.row.op /\ row.retryCount = c.row.retryCount /\ row.status = "REJECTED"
    BY <1>2, <2>2, <2>3, TransitionsKeep, RewrittenFields
  <2>5. RewrittenUnmoved(c.id, row)
    BY <1>3, <1>4, <2>1, <2>2, <2>3, <2>4 DEF RewrittenUnmoved, RejectExhausted
  <2>. QED
    BY <1>2, <2>2, <2>5
<1>5. ASSUME rpc[r] # "idle" PROVE item[r] \in Copies /\ Holds(r, item[r])
  BY <1>1, <1>5 DEF RetrierControl, Holds
<1>6. CASE PostponeRetry(r)
  <2>1. PICK c \in Copies : c = item[r] /\ Holds(r, c)
    BY <1>5, <1>6 DEF PostponeRetry
  <2>2. PICK row : row = IncrementRetry(c.row)
    OBVIOUS
  <2>3. /\ row.op = c.row.op /\ row.retryCount = c.row.retryCount + 1
        /\ row.status = "PENDING_REFERENCE"
    BY <1>2, <2>1, <2>2 DEF IncrementRetry, Rows
  <2>4. RewrittenUnmoved(c.id, row)
    BY <1>3, <1>6, <2>1, <2>2, <2>3 DEF RewrittenUnmoved, PostponeRetry
  <2>. QED
    BY <1>2, <2>1, <2>4
<1>7. CASE RejectItem(r)
  <2>1. target[r].id \in Nat
    BY <1>1, <1>7 DEF RejectItem, RetrierControl, Copies
  <2>2. PICK c \in Copies : c = item[r] /\ Holds(r, c)
    BY <1>5, <1>7 DEF RejectItem
  <2>3. PICK t, code :
          /\ t = c.row \/ t = ResolveReference(c.row, target[r].id)
          /\ UpdateTxn(c, MarkRejected(t, code))
    BY <1>7, <2>2 DEF RejectItem
  <2>4. t \in Rows /\ t.op = c.row.op /\ t.retryCount = c.row.retryCount
    <3>1. CASE t = c.row
      BY <1>2, <2>2, <3>1
    <3>2. CASE t = ResolveReference(c.row, target[r].id)
      BY <1>2, <2>1, <2>2, <3>2 DEF ResolveReference, Rows
    <3>. QED
      BY <2>3, <3>1, <3>2
  <2>5. PICK row : row = MarkRejected(t, code)
    OBVIOUS
  <2>6. row.op = c.row.op /\ row.retryCount = c.row.retryCount /\ row.status = "REJECTED"
    BY <2>4, <2>5, TransitionsKeep, RewrittenFields
  <2>7. RewrittenUnmoved(c.id, row)
    BY <1>3, <1>7, <2>2, <2>3, <2>5, <2>6 DEF RewrittenUnmoved, RejectItem
  <2>. QED
    BY <1>2, <2>2, <2>7
<1>. QED
  BY <1>4, <1>6, <1>7

LEMMA MovedRewrites ==
    ASSUME TypeInv, AccountInv, CopiesWaited, TrustedTargets, RowsKeepOperations,
           NEW r \in Retriers, ApplyItem(r)
    PROVE  \E id \in TxnIds, account \in WalletRows, e \in LedgerEntries : \E row :
               RewrittenMoved(id, row, account, e)
<1>1. /\ StoreTypeOK /\ RetrierTypeOK /\ RetrierControl /\ EntriesOfRows
      /\ rpc[r] = "wallet_locked"
  BY DEF TypeInv, TypeOK, AccountInv, ApplyItem
<1>2. PICK c \in Copies : c = item[r]
  BY <1>1, AppliedMovement
<1>3. /\ c.id \in TxnIds /\ c.row.op = txns[c.id].op /\ c.row \in Rows
      /\ c.row.retryCount \in Nat /\ Waited(c.row) /\ Waited(txns[c.id])
      /\ c.row.op.wallet \in Wallets
  <2>1. CopyOfRow(c)
    BY <1>1, <1>2 DEF AccountInv, CopiesOfRows
  <2>2. Waited(c.row) /\ Waited(txns[c.id])
    BY <1>1, <1>2 DEF CopiesWaited, Holds
  <2>. QED
    BY <2>1, <2>2 DEF CopyOfRow, Copies, Rows, Operations
<1>4. PICK account \in WalletRows : account = Moved(rwal[r], c.row.op, ItemDirection(r))
  BY <1>1, <1>2, AppliedMovement
<1>5. PICK e \in LedgerEntries : e = NewLedgerEntry(c.id, rwal[r], c.row.op, ItemDirection(r))
  BY <1>1, <1>2, AppliedMovement
<1>6. /\ account.balance \in Nat
      /\ account.balance = BalanceAfter(rwal[r], c.row.op, ItemDirection(r))
  BY <1>1, <1>2, <1>4, AppliedMovement DEF WalletRows
<1>7. /\ target[r] \in Copies /\ target[r].id \in TxnIds' /\ target[r].id # 0
      /\ target[r].id \in Nat
      /\ txns'[target[r].id].op.kind = target[r].row.op.kind
  <2>1. target[r] \in Copies /\ target[r] # None
    BY <1>1, CopiesAssumption DEF RetrierControl
  <2>2. CopyOfRow(target[r])
    BY <2>1 DEF TrustedTargets, Trusted
  <2>3. TxnIds = 1 .. Len(txns)
    BY <1>1, LenProperties DEF StoreTypeOK, TxnIds
  <2>. QED
    BY <2>1, <2>2, <2>3 DEF CopyOfRow, RowsKeepOperations, Copies
<1>8. PICK resolved \in Rows : resolved = ResolveReference(c.row, target[r].id)
  BY <1>3, <1>7, RewrittenFields
<1>9. /\ resolved.op = c.row.op /\ resolved.retryCount = c.row.retryCount
      /\ resolved.reference = target[r].id
  BY <1>3, <1>7, <1>8 DEF ResolveReference, Rows
<1>10. PICK row : row = MarkProcessed(resolved, account.balance)
  OBVIOUS
<1>11. /\ row.op = c.row.op /\ row.retryCount = c.row.retryCount
       /\ row.reference = target[r].id /\ row.status = "PROCESSED"
       /\ row.result = account.balance
  BY <1>9, <1>10, <1>7, NewRowCounts, TransitionsKeep
<1>12. Rewritten(c.id, row)
  <2>1. UpdateTxn(c, row)
    BY <1>2, <1>4, <1>8, <1>10 DEF ApplyItem
  <2>. QED
    BY <1>3, <1>11, <2>1 DEF Rewritten, UpdateTxn, Waited
<1>13. row.op.kind # "LOSS"
  BY <1>2, <1>11 DEF ApplyItem, ItemDirection, DirectionFor
<1>14. e.txn = c.id /\ e.amount = row.op.amount /\ e.after = row.result
  BY <1>5, <1>6, <1>11 DEF NewLedgerEntry
<1>15. e.direction = DirectionFor(row.op.kind, IF row.reference = 0 THEN None
                                               ELSE txns'[row.reference].op.kind)
  BY <1>2, <1>5, <1>7, <1>11 DEF NewLedgerEntry, ItemDirection
<1>16. \A v \in Wallets : ~HasLedgerEntry(v, c.id)
  <2>1. ~HasLedgerEntry(c.row.op.wallet, c.id)
    BY <1>2 DEF ApplyItem
  <2>2. ASSUME NEW v \in Wallets, HasLedgerEntry(v, c.id) PROVE v = c.row.op.wallet
    BY <1>1, <1>3, <2>2 DEF HasLedgerEntry, EntriesOfRows
  <2>. QED
    BY <2>1, <2>2
<1>17. UpdateWallet(row.op.wallet, account) /\ CreateLedgerEntry(row.op.wallet, e)
  BY <1>2, <1>4, <1>5, <1>11 DEF ApplyItem
<1>18. SettledBy(c.id, row, account, e)
  BY <1>11, <1>13, <1>14, <1>15, <1>16, <1>17 DEF SettledBy
<1>19. Follows(row)
  <2>1. PICK d \in Copies : d = target[r] /\ d # None
    BY <1>7, CopiesAssumption
  <2>2. Trusted(d) /\ d.row.op.ext = c.row.op.ref
    BY <1>2, <2>1 DEF TrustedTargets
  <2>3. d.row.status = "PROCESSED"
    BY <2>1 DEF ApplyItem, TargetProcessed
  <2>. QED
    BY <1>11, <2>1, <2>2, <2>3 DEF Follows
<1>20. RewrittenMoved(c.id, row, account, e)
  BY <1>2, <1>12, <1>18, <1>19 DEF RewrittenMoved, ApplyItem
<1>. QED
  BY <1>3, <1>20

LEMMA RetrierRewrites ==
    ASSUME TypeInv, AccountInv, CopiesWaited, PendingCopies, TrustedTargets,
           RowsKeepOperations, NEW r \in Retriers, RetrierStep(r) \/ AbortItem(r) \/ CrashRetrier(r)
    PROVE  \/ \E id \in TxnIds : \E row : RewrittenUnmoved(id, row)
           \/ \E id \in TxnIds, account \in WalletRows, e \in LedgerEntries : \E row :
                 RewrittenMoved(id, row, account, e)
           \/ UNCHANGED <<wallets, txns, ledger, outbox>>
<1>1. CASE RejectExhausted(r) \/ PostponeRetry(r) \/ RejectItem(r)
  BY <1>1, UnmovedRewrites
<1>2. CASE ApplyItem(r)
  BY <1>2, MovedRewrites
<1>3. CASE FetchBatch(r) \/ ReadTarget(r) \/ LockItemWallet(r)
  BY <1>3 DEF FetchBatch, ReadTarget, LockItemWallet, storeVars
<1>4. CASE KeepWaiting(r) \/ AbandonItem(r) \/ AbortItem(r) \/ CrashRetrier(r)
  BY <1>4 DEF KeepWaiting, AbandonItem, AbortItem, CrashRetrier
<1>. QED
  BY <1>1, <1>2, <1>3, <1>4 DEF RetrierStep, HandleItem
-----------------------------------------------------------------------------
(* A step records at most one row, and announces its success with it *)

\* The outbox grows from n to p events, all of row id and a success only if it is one.
Reports(id, row, n, p) ==
    /\ n <= p /\ DOMAIN outbox = 1 .. n /\ DOMAIN outbox' = 1 .. p
    /\ \A k \in 1 .. n : outbox'[k] = outbox[k]
    /\ \A k \in n + 1 .. p :
          /\ outbox'[k].txn = id
          /\ outbox'[k].type = "WagerTransactionProcessed" => row.status = "PROCESSED"
    /\ row.status = "PROCESSED" =>
          \E k \in n + 1 .. p : outbox'[k].type = "WagerTransactionProcessed"

Writes(id, row) ==
    /\ id \in TxnIds' /\ id \in Nat /\ txns'[id] = row
    /\ \A i \in TxnIds' \ {id} : i \in TxnIds /\ txns'[i] = txns[i]

Records(id, row) ==
    /\ Writes(id, row)
    /\ RequiresReference(row.op.kind) /\ row.status = "PROCESSED" => Follows(row)
    /\ \E n, p \in Nat : Reports(id, row, n, p)

LEMMA ArrivalWrites ==
    ASSUME StoreTypeOK, NEW id, id = Len(txns) + 1, NEW row, OneRowMore(row)
    PROVE  Writes(id, row)
<1>1. TxnIds = 1 .. Len(txns) /\ Len(txns) \in Nat
  BY LenProperties DEF StoreTypeOK, TxnIds
<1>2. TxnIds' = 1 .. Len(txns) + 1 /\ txns'[id] = row
  BY AppendKeeps
<1>3. \A i \in TxnIds : txns'[i] = txns[i]
  BY AppendStays
<1>. QED
  BY <1>1, <1>2, <1>3 DEF Writes

LEMMA RewriteWrites ==
    ASSUME StoreTypeOK, NEW id \in TxnIds, NEW row, Rewritten(id, row)
    PROVE  Writes(id, row)
<1>1. TxnIds = 1 .. Len(txns) /\ Len(txns) \in Nat
  BY LenProperties DEF StoreTypeOK, TxnIds
<1>. QED
  BY <1>1 DEF Rewritten, Writes, TxnIds

LEMMA OneReports ==
    ASSUME StoreTypeOK, NEW id \in Nat, NEW type \in EventTypes, NEW row,
           \/ outbox' = Append(outbox, Event(type, id))
           \/ outbox' = outbox \o <<Event(type, id)>>,
           type = "WagerTransactionProcessed" <=> row.status = "PROCESSED"
    PROVE  \E n, p \in Nat : Reports(id, row, n, p)
<1>1. PICK e \in Events : e = Event(type, id)
  BY EventType
<1>2. e.txn = id /\ e.type = type
  BY <1>1 DEF Event
<1>3. PICK n \in Nat :
        /\ DOMAIN outbox = 1 .. n /\ DOMAIN outbox' = 1 .. n + 1
        /\ \A k \in 1 .. n : outbox'[k] = outbox[k]
        /\ outbox'[n + 1] = e
  BY <1>1, OneEventMore
<1>4. n + 1 \in Nat /\ n <= n + 1 /\ \A k \in n + 1 .. n + 1 : k = n + 1
  OBVIOUS
<1>5. Reports(id, row, n, n + 1)
  BY <1>2, <1>3, <1>4 DEF Reports
<1>. QED
  BY <1>4, <1>5

LEMMA TwoReport ==
    ASSUME StoreTypeOK, NEW id \in Nat, NEW version \in Nat, NEW row, row.status = "PROCESSED",
           \/ outbox' = outbox \o <<BalanceChanged(id, version),
                                    Event("WagerTransactionProcessed", id)>>
           \/ outbox' = outbox \o <<Event("WagerTransactionProcessed", id),
                                    BalanceChanged(id, version)>>
    PROVE  \E n, p \in Nat : Reports(id, row, n, p)
<1>1. PICK c \in Events : c = BalanceChanged(id, version)
  BY EventType DEF EventTypes
<1>2. PICK d \in Events : d = Event("WagerTransactionProcessed", id)
  BY EventType DEF EventTypes
<1>3. c.txn = id /\ d.txn = id /\ d.type = "WagerTransactionProcessed"
  BY <1>1, <1>2 DEF BalanceChanged, Event
<1>4. PICK x \in Events, y \in Events :
        outbox' = outbox \o <<x, y>> /\ ((x = c /\ y = d) \/ (x = d /\ y = c))
  BY <1>1, <1>2
<1>5. PICK n \in Nat :
        /\ DOMAIN outbox = 1 .. n /\ DOMAIN outbox' = 1 .. n + 2
        /\ \A k \in 1 .. n : outbox'[k] = outbox[k]
        /\ outbox'[n + 1] = x /\ outbox'[n + 2] = y
  BY <1>4, TwoEventsMore
<1>6. /\ n + 2 \in Nat /\ n <= n + 2 /\ n + 1 \in n + 1 .. n + 2 /\ n + 2 \in n + 1 .. n + 2
      /\ \A k \in n + 1 .. n + 2 : k = n + 1 \/ k = n + 2
  OBVIOUS
<1>7. Reports(id, row, n, n + 2)
  BY <1>3, <1>4, <1>5, <1>6 DEF Reports
<1>. QED
  BY <1>6, <1>7

\* What a handler decides about a reversal follows the reference it read.
LEMMA ArrivalFollows ==
    ASSUME TypeInv, TrustedRefs, NEW h \in Handlers, Decides(h), NEW row, OneRowMore(row),
           RequiresReference(row.op.kind), row.status = "PROCESSED"
    PROVE  Follows(row)
<1>1. PICK new, balance, events : NewRow(h, new, balance) /\ CommitNew(h, new, balance, events)
  BY DEF Decides
<1>2. new = row
  <2>1. StoreTypeOK /\ OneRowMore(new)
    BY <1>1 DEF CommitNew, OneRowMore, TypeInv, TypeOK
  <2>2. txns'[Len(txns) + 1] = new /\ txns'[Len(txns) + 1] = row
    BY <2>1, AppendKeeps
  <2>. QED
    BY <2>2
<1>3. /\ ref[h] # None /\ row.reference = ref[h].id /\ row.op = req[h].op
      /\ ReferenceError(row.op, ref[h].row) = None
  BY <1>1, <1>2 DEF NewRow
<1>4. ref[h].row.status = "PROCESSED"
  BY <1>3, NoneAssumption DEF ReferenceError, Codes
<1>5. Trusted(ref[h]) /\ ref[h].row.op.ext = row.op.ref
  BY <1>3 DEF TrustedRefs
<1>. QED
  BY <1>3, <1>4, <1>5 DEF Follows

LEMMA StepRecords ==
    ASSUME TypeInv, LockedReadsAreCurrent, AccountInv, RefsOfRows, CopiesWaited,
           PendingCopies, TrustedRefs, TrustedTargets, RowsKeepOperations, [Next]_vars
    PROVE  UNCHANGED <<txns, outbox>> \/ \E id, row : Records(id, row)
<1>1. StoreTypeOK
  BY DEF TypeInv, TypeOK
<1>2. ASSUME NEW row \in Rows, ArrivesUnmoved(Len(txns) + 1, row) PROVE \E id : Records(id, row)
  <2>1. PICK id : id = Len(txns) + 1
    OBVIOUS
  <2>2. Writes(id, row)
    BY <1>1, <1>2, <2>1, ArrivalWrites DEF ArrivesUnmoved
  <2>3. PICK type \in EventTypes :
          /\ outbox' = outbox \o <<Event(type, id)>>
          /\ type = "WagerTransactionProcessed" <=> row.status = "PROCESSED"
    BY <1>2, <2>1 DEF ArrivesUnmoved, EventTypes
  <2>4. \E n, p \in Nat : Reports(id, row, n, p)
    BY <1>1, <2>2, <2>3, OneReports DEF Writes
  <2>5. ~(RequiresReference(row.op.kind) /\ row.status = "PROCESSED")
    BY <1>2 DEF ArrivesUnmoved, RequiresReference
  <2>. QED
    BY <2>2, <2>4, <2>5 DEF Records
<1>3. ASSUME NEW row \in Rows, NEW account \in WalletRows, NEW e,
             ArrivesMoved(Len(txns) + 1, row, account, e),
             RequiresReference(row.op.kind) => Follows(row)
      PROVE  \E id : Records(id, row)
  <2>1. PICK id : id = Len(txns) + 1
    OBVIOUS
  <2>2. Writes(id, row) /\ row.status = "PROCESSED"
    BY <1>1, <1>3, <2>1, ArrivalWrites DEF ArrivesMoved, SettledBy
  <2>3. \E n, p \in Nat : Reports(id, row, n, p)
    <3>1. account.version \in Nat /\ id \in Nat
      BY <2>2 DEF WalletRows, Writes
    <3>. QED
      BY <1>1, <1>3, <2>1, <2>2, <3>1, TwoReport DEF ArrivesMoved
  <2>. QED
    BY <1>3, <2>2, <2>3 DEF Records
<1>4. ASSUME NEW id \in TxnIds, NEW row, RewrittenUnmoved(id, row) PROVE Records(id, row)
  <2>1. Writes(id, row) /\ id \in Nat /\ row.status # "PROCESSED"
    BY <1>1, <1>4, RewriteWrites DEF RewrittenUnmoved, Writes
  <2>2. \E n, p \in Nat : Reports(id, row, n, p)
    <3>1. CASE UNCHANGED outbox
      <4>1. PICK n \in Nat : DOMAIN outbox = 1 .. n
        BY <1>1, LenProperties DEF StoreTypeOK
      <4>2. \A k : k \notin n + 1 .. n
        BY <4>1
      <4>3. Reports(id, row, n, n)
        BY <2>1, <3>1, <4>1, <4>2 DEF Reports
      <4>. QED
        BY <4>3
    <3>2. CASE outbox' = Append(outbox, Event("WagerTransactionRejected", id))
      BY <1>1, <2>1, <3>2, OneReports DEF EventTypes
    <3>. QED
      BY <1>4, <3>1, <3>2 DEF RewrittenUnmoved
  <2>. QED
    BY <2>1, <2>2 DEF Records
<1>5. ASSUME NEW id \in TxnIds, NEW row, NEW account, NEW e, RewrittenMoved(id, row, account, e)
      PROVE  Records(id, row)
  <2>1. Writes(id, row) /\ id \in Nat /\ row.status = "PROCESSED" /\ Follows(row)
    BY <1>1, <1>5, RewriteWrites DEF RewrittenMoved, SettledBy, Writes
  <2>2. \E n, p \in Nat : Reports(id, row, n, p)
    BY <1>1, <1>5, <2>1, OneReports DEF RewrittenMoved, EventTypes
  <2>. QED
    BY <2>1, <2>2 DEF Records
<1>6. ASSUME NEW h \in Handlers, Handling(h) \/ AbortHandler(h), NEW row, OneRowMore(row),
             RequiresReference(row.op.kind), row.status = "PROCESSED"
      PROVE  Follows(row)
  <2>1. CASE Decides(h)
    BY <1>6, <2>1, ArrivalFollows
  <2>2. CASE UNCHANGED txns
    BY <1>1, <1>6, <2>2, ArrivalWrites, LenProperties DEF Writes, StoreTypeOK, TxnIds
  <2>. QED
    BY <1>6, <2>1, <2>2, HandlerOutcome DEF AnswersFrom, AnswersNoRow
<1>7. ASSUME NEW o \in Openings, Opening(o), NEW row, OneRowMore(row)
      PROVE  ~RequiresReference(row.op.kind)
  <2> DEFINE t == MarkProcessed(NewTransaction(None, OpeningOperation(o)), o.balance)
  <2>1. UNCHANGED txns \/ OneRowMore(t)
    BY <1>7 DEF Opening, OpenWallet, CreditOpening, OneRowMore
  <2>2. ~RequiresReference(t.op.kind)
    BY DEF MarkProcessed, NewTransaction, OpeningOperation, RequiresReference
  <2> HIDE DEF t
  <2>3. CASE UNCHANGED txns
    BY <1>1, <1>7, <2>3, ArrivalWrites, LenProperties DEF Writes, StoreTypeOK, TxnIds
  <2>4. CASE OneRowMore(t)
    BY <1>1, <1>7, <2>2, <2>4, AppendKeeps
  <2>. QED
    BY <2>1, <2>3, <2>4
<1>8. ASSUME \/ \E h \in Handlers : Handling(h) \/ AbortHandler(h)
             \/ \E o \in Openings : Opening(o)
      PROVE  UNCHANGED <<txns, outbox>> \/ \E id, row : Records(id, row)
  <2>1. ASSUME NEW row \in Rows, NEW account \in WalletRows, NEW e \in LedgerEntries,
               ArrivesMoved(Len(txns) + 1, row, account, e)
        PROVE  \E id : Records(id, row)
    <3>1. OneRowMore(row) /\ row.status = "PROCESSED"
      BY <2>1 DEF ArrivesMoved, SettledBy
    <3>2. RequiresReference(row.op.kind) => Follows(row)
      BY <1>6, <1>7, <1>8, <3>1
    <3>. QED
      BY <1>3, <2>1, <3>2
  <2>. QED
    BY <1>2, <1>8, <2>1, Arrivals
<1>9. ASSUME NEW r \in Retriers, RetrierStep(r) \/ AbortItem(r) \/ CrashRetrier(r)
      PROVE  UNCHANGED <<txns, outbox>> \/ \E id, row : Records(id, row)
  BY <1>4, <1>5, <1>9, RetrierRewrites
<1>10. CASE UNCHANGED vars
  BY <1>10 DEF vars, storeVars
<1>. QED
  BY <1>8, <1>9, <1>10 DEF Next, Working, Failing, Retrying

-----------------------------------------------------------------------------
(* References are followed, however many retriers there are *)

OutboxGrows ==
    /\ DOMAIN outbox \subseteq DOMAIN outbox'
    /\ \A k \in DOMAIN outbox : outbox'[k] = outbox[k]

LEMMA OutboxDoesGrow ==
    ASSUME UNCHANGED <<txns, outbox>> \/ \E id, row : Records(id, row)
    PROVE  OutboxGrows
<1>1. ASSUME NEW id, NEW row, NEW n \in Nat, NEW p \in Nat, Reports(id, row, n, p)
      PROVE  OutboxGrows
  BY <1>1 DEF Reports, OutboxGrows
<1>. QED
  BY <1>1 DEF Records, OutboxGrows

\* What was announced as processed stays announced, though its row may be overwritten.
LEMMA SuccessStays ==
    ASSUME RowsKeepOperations, AnnouncementInv, OutboxGrows, NEW ext, SuccessOf(ext)
    PROVE  SuccessOf(ext)'
<1>1. PICK m \in DOMAIN outbox : AnnouncedAs(m, ext)
  BY DEF SuccessOf
<1>2. outbox[m].txn \in TxnIds /\ outbox'[m] = outbox[m] /\ m \in DOMAIN outbox'
  BY DEF AnnouncementInv, Announced, OutboxGrows
<1>3. AnnouncedAs(m, ext)'
  BY <1>1, <1>2 DEF AnnouncedAs, RowsKeepOperations
<1>. QED
  BY <1>2, <1>3 DEF SuccessOf

LEMMA TrustStays ==
    ASSUME RowsKeepOperations, AnnouncementInv, OutboxGrows, NEW c, Trusted(c)
    PROVE  Trusted(c)'
<1>1. CopyOfRow(c)'
  BY CopyStays DEF Trusted
<1>2. c.row.status = "PROCESSED" => SuccessOf(c.row.op.ext)'
  BY SuccessStays DEF Trusted
<1>. QED
  BY <1>1, <1>2 DEF Trusted

\* A copy that is read now can be trusted.
LEMMA NewCopyTrusted ==
    ASSUME RowsKeepOperations, AnnouncementInv, OutboxGrows, ProcessedAnnounced, UNCHANGED txns,
           NEW i \in TxnIds, NEW c, c = [id |-> i, row |-> txns[i]]
    PROVE  Trusted(c)'
<1>1. Trusted(c)
  BY DEF Trusted, CopyOfRow, ProcessedAnnounced, Processed, Row
<1>. QED
  BY <1>1, TrustStays

\* A handler reads its reference once, when it is about to decide.
LEMMA RefsNamed ==
    ASSUME TypeInv, [Next]_vars, NEW h \in Handlers, ref[h] # None => pc[h] = "decide",
           ref'[h] # None
    PROVE  /\ pc'[h] = "decide" /\ req'[h] = req[h]
           /\ \/ ref'[h] = ref[h]
              \/ /\ UNCHANGED txns
                 /\ \E i \in TxnIds : /\ ref'[h] = [id |-> i, row |-> txns[i]]
                                      /\ txns[i].op.ext = req[h].op.ref
<1>1. HandlerTypeOK
  BY DEF TypeInv, TypeOK
<1>2. CASE pc'[h] = pc[h] /\ req'[h] = req[h] /\ ref'[h] = ref[h]
  BY <1>2
<1>3. ASSUME NEW s, EndTransaction(h, s) PROVE FALSE
  BY <1>1, <1>3 DEF EndTransaction, HandlerTypeOK
<1>4. ASSUME \/ \E answer : Finish(h, answer)
             \/ \E code : Fail(h, code)
             \/ \E i : Replay(h, i)
             \/ \E row, balance, events : CommitNew(h, row, balance, events)
      PROVE  FALSE
  BY <1>3, <1>4 DEF Fail, Replay, CommitNew, Finish
<1>5. CASE ReadReference(h)
  <2>1. pc'[h] = "decide" /\ req' = req /\ UNCHANGED txns /\ ref[h] = None
    BY <1>1, <1>5 DEF ReadReference, HandlerTypeOK, storeVars
  <2>2. \E i \in GetByProviderAndExternalID(req[h].op.ref) :
            ref' = [ref EXCEPT ![h] = [id |-> i, row |-> txns[i]]]
    BY <1>5, <2>1 DEF ReadReference
  <2>. QED
    BY <1>1, <2>1, <2>2 DEF GetByProviderAndExternalID, HandlerTypeOK
<1>6. CASE Handling(h) \/ AbortHandler(h)
  <2>1. CASE \E q \in Requests : Receive(h, q) \/ RefuseOpening(h, q)
    BY <1>2, <2>1 DEF Receive, RefuseOpening
  <2>2. CASE ReplayRedelivered(h) \/ FindByKey(h) \/ FindByExternal(h)
    BY <1>4, <2>2 DEF ReplayRedelivered, FindByKey, FindByExternal, GoTo
  <2>3. CASE LockWallet(h)
    BY <1>4, <2>3 DEF LockWallet
  <2>4. CASE PersistPending(h) \/ PersistRejected(h) \/ PersistLoss(h) \/ PersistProcessed(h)
    <3>1. \E row, balance, events : CommitNew(h, row, balance, events)
      BY <2>4 DEF PersistPending, PersistRejected, PersistLoss, PersistProcessed
    <3>. QED
      BY <1>4, <3>1
  <2>5. CASE FailUnsupported(h) \/ LoseInsertRace(h) \/ RecoverDuplicate(h) \/ AbortHandler(h)
    BY <1>3, <1>4, <2>5 DEF FailUnsupported, LoseInsertRace, RecoverDuplicate, AbortHandler
  <2>. QED
    BY <1>5, <1>6, <2>1, <2>2, <2>3, <2>4, <2>5 DEF Handling, HandlerStep
<1>7. ASSUME NEW g \in Handlers \ {h}, Handling(g) \/ AbortHandler(g)
      PROVE  pc'[h] = pc[h] /\ req'[h] = req[h] /\ ref'[h] = ref[h]
  BY <1>7, OtherHandlersWait
<1>8. CASE UNCHANGED handlerVars \/ UNCHANGED vars
  BY <1>2, <1>8 DEF handlerVars, vars
<1>9. CASE \E g \in Handlers : Handling(g) \/ AbortHandler(g)
  BY <1>2, <1>6, <1>7, <1>9
<1>. QED
  BY <1>8, <1>9 DEF Next, Working, Failing, Opening, Retrying

LEMMA TrustedRefsKept ==
    ASSUME TypeInv, RowsKeepOperations, AnnouncementInv, OutboxGrows, ProcessedAnnounced,
           TrustedRefs, [Next]_vars
    PROVE  TrustedRefs'
<1>1. ASSUME NEW h \in Handlers, ref'[h] # None
      PROVE  /\ pc'[h] = "decide" /\ ref'[h].row.op.ext = req'[h].op.ref
             /\ \E c : c = ref'[h] /\ Trusted(c)'
  <2>1. /\ pc'[h] = "decide" /\ req'[h] = req[h]
        /\ \/ ref'[h] = ref[h]
           \/ /\ UNCHANGED txns
              /\ \E i \in TxnIds : /\ ref'[h] = [id |-> i, row |-> txns[i]]
                                   /\ txns[i].op.ext = req[h].op.ref
    BY <1>1, RefsNamed DEF TrustedRefs
  <2>2. CASE ref'[h] = ref[h]
    <3>1. PICK c : c = ref[h]
      OBVIOUS
    <3>2. Trusted(c) /\ c.row.op.ext = req[h].op.ref
      BY <1>1, <2>2, <3>1 DEF TrustedRefs
    <3>. QED
      BY <2>1, <2>2, <3>1, <3>2, TrustStays
  <2>3. ASSUME UNCHANGED txns, NEW i \in TxnIds, ref'[h] = [id |-> i, row |-> txns[i]],
               txns[i].op.ext = req[h].op.ref
        PROVE  ref'[h].row.op.ext = req[h].op.ref /\ \E c : c = ref'[h] /\ Trusted(c)'
    <3>1. PICK c : c = [id |-> i, row |-> txns[i]]
      OBVIOUS
    <3>2. Trusted(c)'
      BY <2>3, <3>1, NewCopyTrusted
    <3>. QED
      BY <2>3, <3>1, <3>2
  <2>. QED
    BY <2>1, <2>2, <2>3
<1>. QED
  BY <1>1 DEF TrustedRefs, Trusted, CopyOfRow, SuccessOf, AnnouncedAs
\* A retrier reads the target of an item with the item.
LEMMA TargetsNamed ==
    ASSUME TypeInv, [Next]_vars, NEW r \in Retriers, target[r] # None => rpc[r] # "idle",
           target'[r] # None
    PROVE  /\ rpc'[r] # "idle"
           /\ \/ target'[r] = target[r] /\ item'[r] = item[r]
              \/ /\ UNCHANGED txns
                 /\ \E i \in TxnIds : /\ target'[r] = [id |-> i, row |-> txns[i]]
                                      /\ txns[i].op.ext = item'[r].row.op.ref
<1>1. RetrierTypeOK
  BY DEF TypeInv, TypeOK
<1>2. CASE UNCHANGED retrierVars \/ UNCHANGED vars
  BY <1>2 DEF retrierVars, vars
<1>3. CASE FetchBatch(r) \/ RejectExhausted(r)
  BY <1>3 DEF FetchBatch, RejectExhausted
<1>4. CASE ReadTarget(r)
  <2>1. /\ rpc'[r] = "reference_read" /\ UNCHANGED txns /\ target[r] = None
    BY <1>1, <1>4 DEF ReadTarget, RetrierTypeOK, storeVars
  <2>2. PICK c \in batch[r] :
          /\ \/ \E i \in GetByProviderAndExternalID(c.row.op.ref) :
                    target' = [target EXCEPT ![r] = Copy(i)]
             \/ target' = target
          /\ item' = [item EXCEPT ![r] = c]
    BY <1>4 DEF ReadTarget
  <2>3. item'[r] = c
    BY <1>1, <2>2 DEF RetrierTypeOK
  <2>4. \E i \in GetByProviderAndExternalID(c.row.op.ref) : target'[r] = Copy(i)
    BY <1>1, <2>1, <2>2 DEF RetrierTypeOK
  <2>. QED
    BY <2>1, <2>3, <2>4 DEF GetByProviderAndExternalID, Copy
<1>5. CASE LockItemWallet(r)
  BY <1>1, <1>5 DEF LockItemWallet, RetrierTypeOK
<1>6. CASE \/ PostponeRetry(r) \/ KeepWaiting(r) \/ RejectItem(r) \/ ApplyItem(r)
           \/ AbandonItem(r) \/ AbortItem(r) \/ CrashRetrier(r)
  <2>1. NextItem(r)
    BY <1>6 DEF PostponeRetry, KeepWaiting, RejectItem, ApplyItem, AbandonItem, AbortItem,
                CrashRetrier
  <2>. QED
    BY <1>1, <2>1 DEF NextItem, RetrierTypeOK
<1>7. ASSUME NEW s \in Retriers \ {r}, RetrierStep(s) \/ AbortItem(s) \/ CrashRetrier(s)
      PROVE  rpc'[r] = rpc[r] /\ item'[r] = item[r] /\ target'[r] = target[r]
  <2>1. rpc'[r] = rpc[r] /\ item'[r] = item[r]
    <3>1. s \in Retriers /\ r \in Retriers \ {s}
      OBVIOUS
    <3>. QED
      BY <1>7, <3>1, OtherRetriersWait
  <2>2. target' = target \/ \E x : target' = [target EXCEPT ![s] = x]
    BY <1>7 DEF RetrierStep, HandleItem, FetchBatch, RejectExhausted, ReadTarget, PostponeRetry,
                LockItemWallet, KeepWaiting, RejectItem, ApplyItem, AbandonItem, AbortItem,
                CrashRetrier, NextItem
  <2>. QED
    BY <1>1, <1>7, <2>1, <2>2 DEF RetrierTypeOK
<1>8. CASE \E s \in Retriers : RetrierStep(s) \/ AbortItem(s) \/ CrashRetrier(s)
  <2>1. PICK s \in Retriers : RetrierStep(s) \/ AbortItem(s) \/ CrashRetrier(s)
    BY <1>8
  <2>2. CASE s = r
    BY <1>3, <1>4, <1>5, <1>6, <2>1, <2>2 DEF RetrierStep, HandleItem
  <2>3. CASE s # r
    BY <1>7, <2>1, <2>3
  <2>. QED
    BY <2>2, <2>3
<1>. QED
  BY <1>2, <1>8 DEF Next, Working, Failing, Opening, Handling, Retrying

LEMMA TrustedTargetsKept ==
    ASSUME TypeInv, RowsKeepOperations, AnnouncementInv, OutboxGrows, ProcessedAnnounced,
           TrustedTargets, [Next]_vars
    PROVE  TrustedTargets'
<1>1. ASSUME NEW r \in Retriers, target'[r] # None
      PROVE  /\ rpc'[r] # "idle" /\ target'[r].row.op.ext = item'[r].row.op.ref
             /\ \E c : c = target'[r] /\ Trusted(c)'
  <2>1. /\ rpc'[r] # "idle"
        /\ \/ target'[r] = target[r] /\ item'[r] = item[r]
           \/ /\ UNCHANGED txns
              /\ \E i \in TxnIds : /\ target'[r] = [id |-> i, row |-> txns[i]]
                                   /\ txns[i].op.ext = item'[r].row.op.ref
    BY <1>1, TargetsNamed DEF TrustedTargets
  <2>2. CASE target'[r] = target[r] /\ item'[r] = item[r]
    <3>1. PICK c : c = target[r]
      OBVIOUS
    <3>2. Trusted(c) /\ c.row.op.ext = item[r].row.op.ref
      BY <1>1, <2>2, <3>1 DEF TrustedTargets
    <3>. QED
      BY <2>1, <2>2, <3>1, <3>2, TrustStays
  <2>3. ASSUME UNCHANGED txns, NEW i \in TxnIds, target'[r] = [id |-> i, row |-> txns[i]],
               txns[i].op.ext = item'[r].row.op.ref
        PROVE  /\ target'[r].row.op.ext = item'[r].row.op.ref
               /\ \E c : c = target'[r] /\ Trusted(c)'
    <3>1. PICK c : c = [id |-> i, row |-> txns[i]]
      OBVIOUS
    <3>2. Trusted(c)'
      BY <2>3, <3>1, NewCopyTrusted
    <3>. QED
      BY <2>3, <3>1, <3>2
  <2>. QED
    BY <2>1, <2>2, <2>3
<1>. QED
  BY <1>1 DEF TrustedTargets, Trusted, CopyOfRow, SuccessOf, AnnouncedAs

LEMMA PendingCopiesKept ==
    ASSUME TypeInv, PendingCopies, [Next]_vars
    PROVE  PendingCopies'
<1>1. ASSUME NEW r \in Retriers, NEW c \in Copies, Holds(r, c)'
      PROVE  c.row.status = "PENDING_REFERENCE"
  BY <1>1, HeldBefore DEF PendingCopies, Copy
<1>. QED
  BY <1>1 DEF PendingCopies, Holds

\* A row that did not change points to what it pointed to.
LEMMA ReferencedStays ==
    ASSUME RowsKeepOperations, NEW i \in TxnIds, txns'[i] = txns[i], Referenced(i)
    PROVE  Referenced(i)'
BY DEF RowsKeepOperations, Referenced, IsReversal, Processed, Row

\* A row that follows its reference points to it.
LEMMA FollowerReferenced ==
    ASSUME RowsKeepOperations, NEW id, NEW row, txns'[id] = row,
           RequiresReference(row.op.kind) /\ row.status = "PROCESSED" => Follows(row)
    PROVE  Referenced(id)'
<1>1. ASSUME Follows(row)
      PROVE  /\ row.reference \in TxnIds'
             /\ txns'[row.reference].op.ext = row.op.ref
  BY <1>1 DEF Follows, Trusted, CopyOfRow, RowsKeepOperations
<1>. QED
  BY <1>1 DEF Referenced, IsReversal, Processed, Row

LEMMA FollowedStays ==
    ASSUME StoreTypeOK, RowsKeepOperations, AnnouncementInv, OutboxGrows,
           NEW n \in DOMAIN outbox, Followed(n)
    PROVE  Followed(n)'
<1>1. /\ n \in 1 .. Len(outbox) /\ DOMAIN outbox = 1 .. Len(outbox) /\ Len(outbox) \in Nat
      /\ outbox'[n] = outbox[n] /\ outbox[n].txn \in TxnIds
      /\ txns'[outbox[n].txn].op = txns[outbox[n].txn].op
  BY LenProperties DEF StoreTypeOK, AnnouncementInv, Announced, OutboxGrows, RowsKeepOperations
<1>2. ASSUME NEW ext, NEW m \in 1 .. (n - 1), AnnouncedAs(m, ext) PROVE AnnouncedAs(m, ext)'
  <2>1. m \in DOMAIN outbox
    BY <1>1
  <2>. QED
    BY <1>2, <2>1 DEF AnnouncedAs, AnnouncementInv, Announced, OutboxGrows, RowsKeepOperations
<1>. QED
  BY <1>1, <1>2 DEF Followed, IsReversal, Row

\* A new success of a reversal comes after that of its reference.
LEMMA NewFollowed ==
    ASSUME RowsKeepOperations, AnnouncementInv, OutboxGrows, NEW id, NEW row, txns'[id] = row,
           RequiresReference(row.op.kind) /\ row.status = "PROCESSED" => Follows(row),
           NEW n \in Nat, NEW p \in Nat, Reports(id, row, n, p), NEW k \in n + 1 .. p
    PROVE  Followed(k)'
<1> SUFFICES ASSUME outbox'[k].type = "WagerTransactionProcessed",
                    RequiresReference(txns'[outbox'[k].txn].op.kind)
             PROVE  \E m \in 1 .. (k - 1) :
                       /\ outbox'[m].type = "WagerTransactionProcessed"
                       /\ txns'[outbox'[m].txn].op.ext = txns'[outbox'[k].txn].op.ref
  BY DEF Followed, AnnouncedAs, IsReversal, Row
<1>1. outbox'[k].txn = id /\ row.status = "PROCESSED"
  BY DEF Reports
<1>2. Follows(row)
  BY <1>1
<1>3. SuccessOf(row.op.ref)
  BY <1>2 DEF Follows, Trusted
<1>4. PICK m \in DOMAIN outbox : AnnouncedAs(m, row.op.ref)
  BY <1>3 DEF SuccessOf
<1>5. outbox[m].txn \in TxnIds /\ outbox'[m] = outbox[m]
  BY DEF AnnouncementInv, Announced, OutboxGrows
<1>6. /\ outbox'[m].type = "WagerTransactionProcessed"
      /\ txns'[outbox'[m].txn].op.ext = row.op.ref
  BY <1>4, <1>5 DEF AnnouncedAs, RowsKeepOperations
<1>7. m \in 1 .. (k - 1)
  BY DEF Reports
<1>. QED
  BY <1>1, <1>6, <1>7

LEMMA RecordedKept ==
    ASSUME StoreTypeOK, RowsKeepOperations, AnnouncementInv, OutboxGrows, ReferenceInv,
           UNCHANGED <<txns, outbox>> \/ \E id, row : Records(id, row)
    PROVE  /\ ProcessedAnnounced'
           /\ \A i \in TxnIds' : Referenced(i)'
           /\ \A n \in DOMAIN outbox' : Followed(n)'
<1>1. /\ \A i \in TxnIds : Referenced(i)
      /\ \A n \in DOMAIN outbox : Followed(n)
      /\ ProcessedAnnounced
  BY DEF ReferenceInv
<1>2. CASE UNCHANGED <<txns, outbox>>
  <2>1. ProcessedAnnounced'
    BY <1>1, <1>2 DEF ProcessedAnnounced, Processed, Row, SuccessOf, AnnouncedAs, TxnIds
  <2>2. \A i \in TxnIds' : Referenced(i)'
    BY <1>1, <1>2, ReferencedStays DEF TxnIds
  <2>. QED
    BY <1>1, <1>2, <2>1, <2>2, FollowedStays
<1>3. ASSUME NEW id, NEW row, Records(id, row)
      PROVE  /\ ProcessedAnnounced'
             /\ \A i \in TxnIds' : Referenced(i)'
             /\ \A n \in DOMAIN outbox' : Followed(n)'
  <2>1. /\ id \in TxnIds' /\ txns'[id] = row
        /\ \A i \in TxnIds' \ {id} : i \in TxnIds /\ txns'[i] = txns[i]
        /\ RequiresReference(row.op.kind) /\ row.status = "PROCESSED" => Follows(row)
    BY <1>3 DEF Records, Writes
  <2>2. PICK n \in Nat, p \in Nat : Reports(id, row, n, p)
    BY <1>3 DEF Records
  <2>3. ASSUME NEW i \in TxnIds', Processed(i)' PROVE SuccessOf(txns[i].op.ext)'
    <3>1. CASE i = id
      <4>1. row.status = "PROCESSED"
        BY <2>1, <2>3, <3>1 DEF Processed, Row
      <4>2. PICK k \in n + 1 .. p : outbox'[k].type = "WagerTransactionProcessed"
        BY <2>2, <4>1 DEF Reports
      <4>3. outbox'[k].txn = id /\ k \in DOMAIN outbox'
        BY <2>2 DEF Reports
      <4>. QED
        BY <3>1, <4>2, <4>3 DEF SuccessOf, AnnouncedAs
    <3>2. CASE i # id
      <4>1. i \in TxnIds /\ txns'[i] = txns[i]
        BY <2>1, <3>2
      <4>2. SuccessOf(txns[i].op.ext)
        BY <1>1, <2>3, <4>1 DEF ProcessedAnnounced, Processed, Row
      <4>3. PICK ext : ext = txns[i].op.ext
        OBVIOUS
      <4>4. SuccessOf(ext)'
        BY <4>2, <4>3, SuccessStays
      <4>. QED
        BY <4>1, <4>3, <4>4 DEF SuccessOf, AnnouncedAs
    <3>. QED
      BY <3>1, <3>2
  <2>4. ProcessedAnnounced'
    BY <2>3 DEF ProcessedAnnounced
  <2>5. \A i \in TxnIds' : Referenced(i)'
    <3>1. Referenced(id)'
      BY <2>1, FollowerReferenced
    <3>2. ASSUME NEW i \in TxnIds', i # id PROVE Referenced(i)'
      BY <1>1, <2>1, <3>2, ReferencedStays
    <3>. QED
      BY <3>1, <3>2
  <2>6. ASSUME NEW k \in DOMAIN outbox' PROVE Followed(k)'
    <3>1. k \in DOMAIN outbox \/ k \in n + 1 .. p
      BY <2>2 DEF Reports
    <3>2. CASE k \in DOMAIN outbox
      BY <1>1, <3>2, FollowedStays
    <3>3. CASE k \in n + 1 .. p
      BY <2>1, <2>2, <3>3, NewFollowed
    <3>. QED
      BY <3>1, <3>2, <3>3
  <2>. QED
    BY <2>4, <2>5, <2>6
<1>. QED
  BY <1>2, <1>3

LEMMA ReferenceInvKept ==
    ASSUME TypeInv, LockedReadsAreCurrent, AccountInv, RefsOfRows, CopiesWaited,
           AnnouncementInv, ReferenceInv, [Next]_vars
    PROVE  ReferenceInv'
<1>1. StoreTypeOK /\ RowsKeepOperations
  BY RowsOnlyGrow DEF TypeInv, TypeOK
<1>2. /\ TrustedRefs /\ TrustedTargets /\ PendingCopies /\ ProcessedAnnounced
  BY DEF ReferenceInv
<1>3. UNCHANGED <<txns, outbox>> \/ \E id, row : Records(id, row)
  BY <1>1, <1>2, StepRecords
<1>4. OutboxGrows
  BY <1>3, OutboxDoesGrow
<1>5. TrustedRefs' /\ TrustedTargets' /\ PendingCopies'
  BY <1>1, <1>2, <1>4, TrustedRefsKept, TrustedTargetsKept, PendingCopiesKept
<1>6. /\ ProcessedAnnounced'
      /\ \A i \in TxnIds' : Referenced(i)'
      /\ \A n \in DOMAIN outbox' : Followed(n)'
  BY <1>1, <1>3, <1>4, RecordedKept
<1>. QED
  BY <1>5, <1>6 DEF ReferenceInv

\* What handlers, retriers and rows refer to is a row that was announced as processed if it
\* was read so, whatever a slower retrier wrote over it since.
\* (process_wager.go:222-287, retry_pending_ref.go:111-170)
THEOREM ReferenceInvariant == Spec => []ReferenceInv
<1>1. Init => ReferenceInv
  <2> SUFFICES ASSUME Init PROVE ReferenceInv
    OBVIOUS
  <2>1. TxnIds = {} /\ DOMAIN outbox = {}
    BY DEF Init, StoreInit, TxnIds
  <2>2. \A r \in Retriers, c \in Copies : ~Holds(r, c)
    BY DEF Init, RetrierInit, Holds
  <2>. QED
    BY <2>1, <2>2 DEF Init, HandlerInit, RetrierInit, ReferenceInv, TrustedRefs,
       TrustedTargets, PendingCopies, ProcessedAnnounced
<1>2. /\ TypeInv /\ LockedReadsAreCurrent /\ AccountInv /\ ReplayInv /\ AnnouncementInv
      /\ ReferenceInv /\ [Next]_vars
      => ReferenceInv'
  BY ReferenceInvKept DEF ReplayInv
<1>. QED
  BY <1>1, <1>2, TypeInvariant, LockedReadsCurrent, AccountInvariant, ReplayInvariant,
     AnnouncementInvariant, PTL DEF Spec

\* A reversal is processed only after the operation it names was announced as processed, and
\* points to its row, whatever handlers and retriers interleave.
\* (process_wager.go:222-287, retry_pending_ref.go:111-170)
THEOREM ReferencesComeFirst == Spec => []ReversalsFollowReferences
<1>1. ReferenceInv => ReversalsFollowReferences
  BY DEF ReferenceInv, Referenced, Followed, AnnouncedAs, ReversalsFollowReferences, Row
<1>. QED
  BY <1>1, ReferenceInvariant, PTL

-----------------------------------------------------------------------------
(* One movement for each transaction *)

EntriesIn(log, i) == {k \in DOMAIN log : log[k].txn = i}

\* An entry of row i belongs to a row that is processed or had to wait, and if the row is
\* processed it is the movement that the row tells.
EntriesExplained(log, i, row, referenced) ==
    \A k \in EntriesIn(log, i) :
        /\ row.status = "PROCESSED" \/ Waited(row)
        /\ row.status = "PROCESSED" =>
              /\ log[k].after = row.result
              /\ log[k].direction = DirectionFor(row.op.kind, referenced)

Explained(i) ==
    /\ \A w \in Wallets : EntriesExplained(ledger[w], i, txns[i], ReferencedKind(i))
    /\ txns[i].status = "PROCESSED" /\ txns[i].op.kind # "LOSS" =>
          EntriesIn(ledger[txns[i].op.wallet], i) # {}

MovementInv == \A i \in TxnIds : Explained(i)

\* The entries of row i are as they were.
EntriesStay(i) ==
    \A w \in Wallets :
        /\ EntriesIn(ledger'[w], i) = EntriesIn(ledger[w], i)
        /\ \A k \in EntriesIn(ledger[w], i) : ledger'[w][k] = ledger[w][k]

LEMMA LedgerOfSettled ==
    ASSUME StoreTypeOK, NEW v \in Wallets, NEW e \in LedgerEntries, CreateLedgerEntry(v, e)
    PROVE  /\ \A w \in Wallets \ {v} : ledger'[w] = ledger[w]
           /\ \A i : i # e.txn => EntriesStay(i)
           /\ (\A w \in Wallets : ~HasLedgerEntry(w, e.txn)) =>
                 /\ \A w \in Wallets \ {v} : EntriesIn(ledger'[w], e.txn) = {}
                 /\ \E k \in DOMAIN ledger'[v] :
                       EntriesIn(ledger'[v], e.txn) = {k} /\ ledger'[v][k] = e
<1> DEFINE n == Len(ledger[v])
<1>1. /\ ledger[v] \in Seq(LedgerEntries) /\ n \in Nat /\ DOMAIN ledger[v] = 1 .. n
  BY LenProperties DEF StoreTypeOK
<1>2. /\ ledger'[v] = Append(ledger[v], e)
      /\ \A w \in Wallets \ {v} : ledger'[w] = ledger[w]
  BY DEF CreateLedgerEntry, StoreTypeOK
<1>3. /\ DOMAIN ledger'[v] = 1 .. n + 1
      /\ \A k \in 1 .. n : ledger'[v][k] = ledger[v][k]
      /\ ledger'[v][n + 1] = e
  BY <1>1, <1>2, AppendProperties, LenProperties
<1> HIDE DEF n
<1>4. ASSUME NEW i, i # e.txn PROVE EntriesStay(i)
  <2>1. EntriesIn(ledger'[v], i) = EntriesIn(ledger[v], i)
    BY <1>1, <1>3, <1>4 DEF EntriesIn
  <2>2. \A k \in EntriesIn(ledger[v], i) : ledger'[v][k] = ledger[v][k]
    BY <1>1, <1>3 DEF EntriesIn
  <2>. QED
    BY <1>2, <2>1, <2>2 DEF EntriesStay
<1>5. ASSUME \A w \in Wallets : ~HasLedgerEntry(w, e.txn)
      PROVE  /\ \A w \in Wallets \ {v} : EntriesIn(ledger'[w], e.txn) = {}
             /\ \E k \in DOMAIN ledger'[v] :
                   EntriesIn(ledger'[v], e.txn) = {k} /\ ledger'[v][k] = e
  <2>1. \A w \in Wallets : EntriesIn(ledger[w], e.txn) = {}
    BY <1>5 DEF HasLedgerEntry, EntriesIn
  <2>2. EntriesIn(ledger'[v], e.txn) = {n + 1}
    BY <1>1, <1>3, <2>1 DEF EntriesIn
  <2>3. n + 1 \in DOMAIN ledger'[v]
    BY <1>1, <1>3
  <2>4. \E k \in DOMAIN ledger'[v] : EntriesIn(ledger'[v], e.txn) = {k} /\ ledger'[v][k] = e
    BY <1>3, <2>2, <2>3
  <2>5. \A w \in Wallets \ {v} : EntriesIn(ledger'[w], e.txn) = {}
    BY <1>2, <2>1
  <2>. QED
    BY <2>4, <2>5
<1>. QED
  BY <1>2, <1>4, <1>5

\* A row that did not change is explained by the entries it had: what it points to keeps its
\* kind, and only the direction of a reversal depends on it.
LEMMA ExplainedStays ==
    ASSUME StoreTypeOK, RowsKeepOperations, NEW i \in TxnIds, Referenced(i), txns'[i] = txns[i],
           EntriesStay(i), Explained(i)
    PROVE  Explained(i)'
<1>1. 0 \notin TxnIds /\ txns[i].op.wallet \in Wallets
  <2>1. txns[i] \in Rows
    BY ElementOfSeq, LenProperties DEF StoreTypeOK, TxnIds
  <2>. QED
    BY <2>1, LenProperties DEF StoreTypeOK, TxnIds, Rows, Operations
<1>2. txns[i].status = "PROCESSED" /\ RequiresReference(txns[i].op.kind)
        => ReferencedKind(i)' = ReferencedKind(i)
  BY <1>1 DEF Referenced, IsReversal, Processed, Row, ReferencedKind, RowsKeepOperations
<1>3. txns[i].status = "PROCESSED" =>
        DirectionFor(txns[i].op.kind, ReferencedKind(i)')
            = DirectionFor(txns[i].op.kind, ReferencedKind(i))
  BY <1>2 DEF RequiresReference, DirectionFor
<1>4. ASSUME NEW w \in Wallets
      PROVE  EntriesExplained(ledger'[w], i, txns'[i], ReferencedKind(i)')
  <2>1. /\ EntriesIn(ledger'[w], i) = EntriesIn(ledger[w], i)
        /\ \A k \in EntriesIn(ledger[w], i) : ledger'[w][k] = ledger[w][k]
        /\ EntriesExplained(ledger[w], i, txns[i], ReferencedKind(i))
    BY DEF EntriesStay, Explained
  <2>. QED
    BY <1>3, <2>1 DEF EntriesExplained
<1>5. txns'[i].status = "PROCESSED" /\ txns'[i].op.kind # "LOSS" =>
        EntriesIn(ledger'[txns'[i].op.wallet], i) # {}
  BY <1>1 DEF EntriesStay, Explained
<1>. QED
  BY <1>4, <1>5 DEF Explained

LEMMA SettledExplained ==
    ASSUME StoreTypeOK, NEW id, NEW row, row.op.wallet \in Wallets, NEW account,
           NEW e \in LedgerEntries, SettledBy(id, row, account, e), txns'[id] = row
    PROVE  Explained(id)' /\ (\A i : i # id => EntriesStay(i))
<1>1. PICK v \in Wallets : v = row.op.wallet
  OBVIOUS
<1>2. CreateLedgerEntry(v, e) /\ e.txn = id
  BY <1>1 DEF SettledBy
<1>3. /\ \A w \in Wallets \ {v} : EntriesIn(ledger'[w], id) = {}
      /\ \E k \in DOMAIN ledger'[v] : EntriesIn(ledger'[v], id) = {k} /\ ledger'[v][k] = e
      /\ \A i : i # id => EntriesStay(i)
  BY <1>2, LedgerOfSettled DEF SettledBy
<1>4. /\ row.status = "PROCESSED" /\ e.after = row.result
      /\ e.direction = DirectionFor(row.op.kind, ReferencedKind(id)')
  BY DEF SettledBy, ReferencedKind, Row
<1>5. /\ EntriesIn(ledger'[v], id) # {}
      /\ EntriesExplained(ledger'[v], id, row, ReferencedKind(id)')
  BY <1>3, <1>4 DEF EntriesExplained
<1>6. \A w \in Wallets \ {v} : EntriesExplained(ledger'[w], id, row, ReferencedKind(id)')
  BY <1>3 DEF EntriesExplained
<1>. QED
  BY <1>1, <1>3, <1>5, <1>6 DEF Explained

\* A row that is not processed, or lost its bet, explains its entries if it had to wait or has
\* none.
LEMMA UnmovedExplained ==
    ASSUME NEW id, UNCHANGED ledger,
           Waited(txns'[id]) \/ \A w \in Wallets : EntriesIn(ledger[w], id) = {},
           \/ txns'[id].status # "PROCESSED"
           \/ /\ txns'[id].op.kind = "LOSS"
              /\ \A w \in Wallets : EntriesIn(ledger[w], id) = {}
    PROVE  Explained(id)'
BY DEF Explained, EntriesExplained, Waited

LEMMA MovementsStay ==
    ASSUME UNCHANGED ledger
    PROVE  \A i : EntriesStay(i)
BY DEF EntriesStay

\* A step that writes at most the row id and explains it explains every row.
LEMMA AllExplained ==
    ASSUME StoreTypeOK, RowsKeepOperations, \A i \in TxnIds : Referenced(i) /\ Explained(i),
           NEW id, \A i \in TxnIds' \ {id} : i \in TxnIds /\ txns'[i] = txns[i] /\ EntriesStay(i),
           id \in TxnIds' => Explained(id)'
    PROVE  \A i \in TxnIds' : Explained(i)'
<1>1. ASSUME NEW i \in TxnIds', i # id PROVE Explained(i)'
  BY <1>1, ExplainedStays
<1>. QED
  BY <1>1

LEMMA MovementsKept ==
    ASSUME TypeInv, TypeInv', LockedReadsAreCurrent, AccountInv, RefsOfRows, CopiesWaited,
           ReferenceInv, MovementInv, [Next]_vars
    PROVE  MovementInv'
<1>1. /\ StoreTypeOK /\ RowsKeepOperations /\ EntriesOfRows
      /\ TrustedTargets /\ PendingCopies
      /\ TxnIds = 1 .. Len(txns) /\ Len(txns) \in Nat
  BY RowsOnlyGrow, LenProperties
     DEF TypeInv, TypeOK, AccountInv, ReferenceInv, StoreTypeOK, TxnIds
<1>2. \A i \in TxnIds : Referenced(i) /\ Explained(i)
  BY DEF ReferenceInv, MovementInv
<1>3. SUFFICES \A i \in TxnIds' : Explained(i)'
  BY DEF MovementInv
<1>4. CASE UNCHANGED <<txns, ledger>>
  <2>1. PICK id : id = 0 /\ id \notin TxnIds'
    BY <1>1, <1>4 DEF TxnIds
  <2>2. \A i \in TxnIds' \ {id} : i \in TxnIds /\ txns'[i] = txns[i] /\ EntriesStay(i)
    BY <1>4, MovementsStay DEF TxnIds
  <2>. QED
    BY <1>1, <1>2, <2>1, <2>2, AllExplained
<1>5. ASSUME NEW id, NEW row, Writes(id, row),
             \A i : i # id => EntriesStay(i), Explained(id)'
      PROVE  \A i \in TxnIds' : Explained(i)'
  <2>1. \A i \in TxnIds' \ {id} : i \in TxnIds /\ txns'[i] = txns[i] /\ EntriesStay(i)
    BY <1>5 DEF Writes
  <2>. QED
    BY <1>1, <1>2, <1>5, <2>1, AllExplained
<1>6. ASSUME NEW row \in Rows, ArrivesUnmoved(Len(txns) + 1, row)
      PROVE  \A i \in TxnIds' : Explained(i)'
  <2>1. PICK id : id = Len(txns) + 1
    OBVIOUS
  <2>2. Writes(id, row) /\ UNCHANGED ledger
    BY <1>1, <1>6, <2>1, ArrivalWrites DEF ArrivesUnmoved
  <2>3. \A w \in Wallets : EntriesIn(ledger[w], id) = {}
    BY <1>1, <2>1, NewRowHasNoEntry DEF HasLedgerEntry, EntriesIn
  <2>4. Explained(id)'
    BY <1>6, <2>2, <2>3, UnmovedExplained DEF ArrivesUnmoved, Writes
  <2>. QED
    BY <1>5, <2>2, <2>4, MovementsStay
<1>7. ASSUME NEW row \in Rows, NEW account \in WalletRows, NEW e \in LedgerEntries,
             ArrivesMoved(Len(txns) + 1, row, account, e)
      PROVE  \A i \in TxnIds' : Explained(i)'
  <2>1. PICK id : id = Len(txns) + 1
    OBVIOUS
  <2>2. /\ Writes(id, row) /\ SettledBy(id, row, account, e)
        /\ txns'[id] = row /\ row.op.wallet \in Wallets
    BY <1>1, <1>7, <2>1, ArrivalWrites DEF ArrivesMoved, Rows, Operations, Writes
  <2>3. Explained(id)' /\ (\A i : i # id => EntriesStay(i))
    BY <1>1, <2>2, SettledExplained
  <2>. QED
    BY <1>5, <2>2, <2>3
<1>8. ASSUME NEW id \in TxnIds, NEW row, Rewritten(id, row)
      PROVE  Writes(id, row) /\ txns'[id] = row /\ row.op.wallet \in Wallets /\ Waited(row)
  <2>1. txns[id] \in Rows
    BY <1>1, ElementOfSeq DEF StoreTypeOK, TxnIds
  <2>. QED
    BY <1>1, <1>8, <2>1, RewriteWrites DEF Rewritten, Writes, Rows, Operations
<1>9. ASSUME NEW id \in TxnIds, NEW row, RewrittenUnmoved(id, row)
      PROVE  \A i \in TxnIds' : Explained(i)'
  <2>1. Rewritten(id, row) /\ UNCHANGED ledger /\ row.status # "PROCESSED"
    BY <1>9 DEF RewrittenUnmoved
  <2>2. Explained(id)'
    BY <1>8, <2>1, UnmovedExplained
  <2>. QED
    BY <1>5, <1>8, <2>1, <2>2, MovementsStay
<1>10. ASSUME NEW id \in TxnIds, NEW row, NEW account \in WalletRows, NEW e \in LedgerEntries,
              RewrittenMoved(id, row, account, e)
       PROVE  \A i \in TxnIds' : Explained(i)'
  <2>1. Rewritten(id, row) /\ SettledBy(id, row, account, e)
    BY <1>10 DEF RewrittenMoved
  <2>2. Explained(id)' /\ (\A i : i # id => EntriesStay(i))
    BY <1>1, <1>8, <2>1, SettledExplained
  <2>. QED
    BY <1>5, <1>8, <2>1, <2>2
<1>11. ASSUME \/ \E h \in Handlers : Handling(h) \/ AbortHandler(h)
              \/ \E o \in Openings : Opening(o)
       PROVE  \A i \in TxnIds' : Explained(i)'
  BY <1>4, <1>6, <1>7, <1>11, Arrivals
<1>12. ASSUME NEW r \in Retriers, RetrierStep(r) \/ AbortItem(r) \/ CrashRetrier(r)
       PROVE  \A i \in TxnIds' : Explained(i)'
  BY <1>1, <1>4, <1>9, <1>10, <1>12, RetrierRewrites
<1>13. CASE UNCHANGED vars
  BY <1>4, <1>13 DEF vars, storeVars
<1>. QED
  BY <1>11, <1>12, <1>13 DEF Next, Working, Failing, Retrying

\* Each entry of a ledger belongs to a transaction that is processed or had to wait, and is the
\* movement that a processed one reports; a processed one that is not a loss has its entry.
\* (process_wager.go:346-376, retry_pending_ref.go:225-246)
THEOREM MovementsExplained == Spec => []MovementInv
<1>1. Init => MovementInv
  BY DEF Init, StoreInit, TxnIds, MovementInv
<1>2. /\ TypeInv /\ TypeInv' /\ LockedReadsAreCurrent /\ AccountInv /\ ReplayInv
      /\ ReferenceInv /\ MovementInv /\ [Next]_vars
      => MovementInv'
  BY MovementsKept DEF ReplayInv
<1>. QED
  BY <1>1, <1>2, TypeInvariant, LockedReadsCurrent, AccountInvariant, ReplayInvariant,
     ReferenceInvariant, PTL DEF Spec

LEMMA EntriesAgree ==
    ASSUME TypeInv, MovedOnce, MovementInv
    PROVE  OneMovementPerTransaction
<1>1. ASSUME NEW w \in Wallets, NEW k \in DOMAIN ledger[w]
      PROVE  LET i == ledger[w][k].txn
             IN /\ i \in TxnIds /\ EntriesOf(w, i) = {k}
                /\ w = Row(i).op.wallet /\ ledger[w][k].amount = Row(i).op.amount
                /\ Processed(i) \/ Row(i).retryCount > 0
                /\ Processed(i) =>
                      /\ ledger[w][k].after = Row(i).result
                      /\ ledger[w][k].direction =
                             DirectionFor(Row(i).op.kind, ReferencedKind(i))
  <2>1. EntryOnly(w, k)
    BY DEF MovedOnce
  <2>2. PICK i \in TxnIds : i = ledger[w][k].txn
    BY <2>1 DEF EntryOnly
  <2>3. EntriesOf(w, i) = {k} /\ w = Row(i).op.wallet /\ ledger[w][k].amount = Row(i).op.amount
    BY <2>1, <2>2 DEF EntryOnly, EntriesOf, Row
  <2>4. EntriesExplained(ledger[w], i, txns[i], ReferencedKind(i)) /\ k \in EntriesIn(ledger[w], i)
    BY <2>2 DEF MovementInv, Explained, EntriesIn
  <2>5. txns[i].retryCount \in Nat
    <3>1. txns[i] \in Rows
      BY ElementOfSeq, LenProperties DEF TypeInv, TypeOK, StoreTypeOK, TxnIds
    <3>. QED
      BY <3>1 DEF Rows
  <2>6. /\ Processed(i) \/ Row(i).retryCount > 0
        /\ Processed(i) =>
              /\ ledger[w][k].after = Row(i).result
              /\ ledger[w][k].direction = DirectionFor(Row(i).op.kind, ReferencedKind(i))
    BY <2>4, <2>5 DEF EntriesExplained, Waited, Processed, Row
  <2>. QED
    BY <2>2, <2>3, <2>6
<1>2. ASSUME NEW i \in TxnIds, Processed(i), Row(i).op.kind # "LOSS"
      PROVE  HasLedgerEntry(Row(i).op.wallet, i)
  BY <1>2 DEF MovementInv, Explained, EntriesIn, HasLedgerEntry, Processed, Row
<1>. QED
  BY <1>1, <1>2 DEF OneMovementPerTransaction

\* A transaction moves money once, in its wallet and by its amount; a processed one in the
\* direction and to the balance that its row tells, and one refused on arrival never, however
\* many retriers apply copies of its row.
\* (process_wager.go:346-376, retry_pending_ref.go:225-246)
THEOREM OneMovement == Spec => []OneMovementPerTransaction
<1>1. TypeInv /\ MovedOnce /\ MovementInv => OneMovementPerTransaction
  BY EntriesAgree
<1>. QED
  BY <1>1, TypeInvariant, MovedOnceAtMost, MovementsExplained, PTL

-----------------------------------------------------------------------------
(* Every outcome is announced *)

EventCount(log, i, type) == Cardinality({n \in DOMAIN log : log[n].txn = i /\ log[n].type = type})

\* The events of row i in the outbox are those of its status, its wait and its movement.
OutcomeShown(log, i, row, moved) ==
    /\ EventCount(log, i, "WagerTransactionProcessed") =
          IF moved \/ row.status = "PROCESSED" THEN 1 ELSE 0
    /\ EventCount(log, i, "WagerTransactionPendingReference") =
          IF row.retryCount > 0 THEN 1 ELSE 0
    /\ row.status = "REJECTED" => EventCount(log, i, "WagerTransactionRejected") > 0
    /\ EventCount(log, i, "WalletBalanceChanged") <= 1
    /\ row.retryCount = 0 =>
          /\ EventCount(log, i, "WagerTransactionRejected") =
                IF row.status = "REJECTED" THEN 1 ELSE 0
          /\ EventCount(log, i, "WalletBalanceChanged") = IF moved THEN 1 ELSE 0

Shown(i) == OutcomeShown(outbox, i, txns[i], MovedMoney(i))

LEMMA OutcomesShown ==
    EventsMatchOutcomes <=> \A i \in TxnIds : Shown(i)
BY DEF EventsMatchOutcomes, Announcements, Shown, OutcomeShown, EventCount, EventsOf, Processed, Row

\* A log that grows by one event counts it for its transaction and type.
LEMMA CountOneMore ==
    ASSUME NEW n \in Nat, NEW log, NEW longer, NEW i, NEW type,
           DOMAIN log = 1 .. n, DOMAIN longer = 1 .. n + 1, \A k \in 1 .. n : longer[k] = log[k]
    PROVE  /\ EventCount(log, i, type) \in Nat
           /\ EventCount(longer, i, type) =
                  EventCount(log, i, type)
                      + IF longer[n + 1].txn = i /\ longer[n + 1].type = type THEN 1 ELSE 0
<1> DEFINE of(l) == {k \in DOMAIN l : l[k].txn = i /\ l[k].type = type}
<1>1. IsFiniteSet(of(log)) /\ n + 1 \notin of(log)
  <2>1. IsFiniteSet(1 .. n) /\ of(log) \in SUBSET (1 .. n)
    BY FS_Interval
  <2>. QED
    BY <2>1, FS_Subset
<1>2. of(longer) = IF longer[n + 1].txn = i /\ longer[n + 1].type = type
                   THEN of(log) \cup {n + 1} ELSE of(log)
  OBVIOUS
<1>3. Cardinality(of(log)) \in Nat
  BY <1>1, FS_CardinalityType
<1>4. Cardinality(of(log) \cup {n + 1}) = Cardinality(of(log)) + 1
  BY <1>1, FS_AddElement
<1> HIDE DEF of
<1>5. Cardinality(of(longer)) = Cardinality(of(log))
        + IF longer[n + 1].txn = i /\ longer[n + 1].type = type THEN 1 ELSE 0
  BY <1>2, <1>3, <1>4
<1>. QED
  BY <1>3, <1>5 DEF EventCount, of

LEMMA NoEventYet ==
    ASSUME StoreTypeOK, AnnouncementInv, NEW type
    PROVE  EventCount(outbox, Len(txns) + 1, type) = 0
<1>1. Len(txns) + 1 \notin TxnIds
  BY LenProperties DEF StoreTypeOK, TxnIds
<1>2. {n \in DOMAIN outbox : outbox[n].txn = Len(txns) + 1 /\ outbox[n].type = type} = {}
  BY <1>1 DEF AnnouncementInv, Announced
<1>. QED
  BY <1>2, FS_EmptySet DEF EventCount

\* The events of the other rows are as many as they were.
CountsStay(id) ==
    \A i, type : i # id => EventCount(outbox', i, type) = EventCount(outbox, i, type)

\* The step announces an event of that type for row id, and no other event.
AnnouncesOne(id, type) ==
    /\ CountsStay(id)
    /\ \A t : /\ EventCount(outbox, id, t) \in Nat
              /\ EventCount(outbox', id, t) =
                     EventCount(outbox, id, t) + IF t = type THEN 1 ELSE 0

LEMMA OneIsAnnounced ==
    ASSUME StoreTypeOK, NEW id \in Nat, NEW type \in EventTypes,
           \/ outbox' = Append(outbox, Event(type, id))
           \/ outbox' = outbox \o <<Event(type, id)>>
    PROVE  AnnouncesOne(id, type)
<1>1. PICK e \in Events : e = Event(type, id)
  BY EventType
<1>2. e.txn = id /\ e.type = type
  BY <1>1 DEF Event
<1>3. /\ DOMAIN outbox = 1 .. Len(outbox) /\ Len(outbox) \in Nat
      /\ DOMAIN outbox' = 1 .. Len(outbox) + 1
      /\ \A k \in 1 .. Len(outbox) : outbox'[k] = outbox[k]
      /\ outbox'[Len(outbox) + 1] = e
  BY <1>1, OneEventMore
<1>4. ASSUME NEW i, NEW t
      PROVE  /\ EventCount(outbox, i, t) \in Nat
             /\ EventCount(outbox', i, t) =
                    EventCount(outbox, i, t) + IF e.txn = i /\ e.type = t THEN 1 ELSE 0
  BY <1>3, CountOneMore
<1>. QED
  BY <1>2, <1>4 DEF AnnouncesOne, CountsStay

\* The step announces the movement of row id, on arrival: its outcome and the balance.
AnnouncesMovement(id) ==
    /\ CountsStay(id)
    /\ EventCount(outbox', id, "WagerTransactionProcessed") = 1
    /\ EventCount(outbox', id, "WalletBalanceChanged") = 1
    /\ EventCount(outbox', id, "WagerTransactionRejected") = 0
    /\ EventCount(outbox', id, "WagerTransactionPendingReference") = 0

LEMMA MovementIsAnnounced ==
    ASSUME StoreTypeOK, AnnouncementInv, NEW id, id = Len(txns) + 1, NEW version \in Nat,
           \/ outbox' = outbox \o <<BalanceChanged(id, version),
                                    Event("WagerTransactionProcessed", id)>>
           \/ outbox' = outbox \o <<Event("WagerTransactionProcessed", id),
                                    BalanceChanged(id, version)>>
    PROVE  AnnouncesMovement(id)
<1>1. id \in Nat /\ outbox \in Seq(Events)
  BY LenProperties DEF StoreTypeOK
<1>2. PICK c \in Events : c = BalanceChanged(id, version)
  BY <1>1, EventType DEF EventTypes
<1>3. PICK d \in Events : d = Event("WagerTransactionProcessed", id)
  BY <1>1, EventType DEF EventTypes
<1>4. /\ c.txn = id /\ c.type = "WalletBalanceChanged"
      /\ d.txn = id /\ d.type = "WagerTransactionProcessed"
  BY <1>2, <1>3 DEF BalanceChanged, Event
<1>5. \A t : EventCount(outbox, id, t) = 0
  BY NoEventYet
<1>6. PICK x \in Events, y \in Events :
        outbox' = outbox \o <<x, y>> /\ ((x = c /\ y = d) \/ (x = d /\ y = c))
  BY <1>2, <1>3
<1>7. PICK n \in Nat :
        /\ DOMAIN outbox = 1 .. n /\ DOMAIN outbox' = 1 .. n + 2
        /\ \A k \in 1 .. n : outbox'[k] = outbox[k]
        /\ outbox'[n + 1] = x /\ outbox'[n + 2] = y
  BY <1>6, TwoEventsMore
<1>8. PICK log :
        /\ DOMAIN log = 1 .. n + 1 /\ log[n + 1] = x
        /\ \A k \in 1 .. n : log[k] = outbox[k]
        /\ \A k \in 1 .. n + 1 : outbox'[k] = log[k]
  <2>1. PICK log : log = [k \in 1 .. n + 1 |-> outbox'[k]]
    OBVIOUS
  <2>. QED
    BY <1>7, <2>1
<1>9. ASSUME NEW i, NEW t
      PROVE  /\ EventCount(outbox, i, t) \in Nat
             /\ EventCount(log, i, t) =
                    EventCount(outbox, i, t) + IF x.txn = i /\ x.type = t THEN 1 ELSE 0
             /\ EventCount(outbox', i, t) =
                    EventCount(log, i, t) + IF y.txn = i /\ y.type = t THEN 1 ELSE 0
  <2>1. /\ EventCount(outbox, i, t) \in Nat
        /\ EventCount(log, i, t) =
               EventCount(outbox, i, t) + IF x.txn = i /\ x.type = t THEN 1 ELSE 0
    BY <1>7, <1>8, CountOneMore
  <2>2. PICK m \in Nat :
           /\ m = n + 1 /\ DOMAIN outbox' = 1 .. m + 1 /\ outbox'[m + 1] = y
           /\ DOMAIN log = 1 .. m /\ \A k \in 1 .. m : outbox'[k] = log[k]
    BY <1>7, <1>8
  <2>3. EventCount(outbox', i, t) =
            EventCount(log, i, t) + IF y.txn = i /\ y.type = t THEN 1 ELSE 0
    BY <2>2, CountOneMore
  <2>. QED
    BY <2>1, <2>3
<1>10. x.txn = id /\ y.txn = id
  BY <1>4, <1>6
<1>11. CountsStay(id)
  BY <1>9, <1>10 DEF CountsStay
<1>12. ASSUME NEW t
       PROVE  EventCount(outbox', id, t) = IF t = c.type \/ t = d.type THEN 1 ELSE 0
  <2>1. /\ EventCount(outbox, id, t) = 0
        /\ EventCount(log, id, t) = IF x.type = t THEN 1 ELSE 0
        /\ EventCount(outbox', id, t) =
               EventCount(log, id, t) + IF y.type = t THEN 1 ELSE 0
    BY <1>5, <1>9, <1>10
  <2>2. c.type # d.type
    BY <1>4
  <2>. QED
    BY <1>6, <2>1, <2>2
<1>. QED
  BY <1>4, <1>11, <1>12 DEF AnnouncesMovement

\* Whether a row whose entries are as they were moved money is what it was.
LEMMA MovedStays ==
    ASSUME NEW i, txns[i].op.wallet \in Wallets, txns'[i].op = txns[i].op, EntriesStay(i)
    PROVE  MovedMoney(i)' <=> MovedMoney(i)
<1>1. HasLedgerEntry(txns[i].op.wallet, i)' <=> EntriesIn(ledger'[txns[i].op.wallet], i) # {}
  BY DEF HasLedgerEntry, EntriesIn
<1>2. HasLedgerEntry(txns[i].op.wallet, i) <=> EntriesIn(ledger[txns[i].op.wallet], i) # {}
  BY DEF HasLedgerEntry, EntriesIn
<1>3. EntriesIn(ledger'[txns[i].op.wallet], i) = EntriesIn(ledger[txns[i].op.wallet], i)
  BY DEF EntriesStay
<1>. QED
  BY <1>1, <1>2, <1>3 DEF MovedMoney, Row, HasLedgerEntry

\* A step that writes at most the row id, announces and moves at most it, and gets that right
\* leaves every outcome announced as it should be.
LEMMA AllShown ==
    ASSUME StoreTypeOK, \A i \in TxnIds : Shown(i), NEW id, NEW row, Writes(id, row),
           \A i : i # id => EntriesStay(i), CountsStay(id), Shown(id)'
    PROVE  \A i \in TxnIds' : Shown(i)'
<1>1. ASSUME NEW i \in TxnIds', i # id PROVE Shown(i)'
  <2>1. i \in TxnIds /\ txns'[i] = txns[i]
    BY <1>1 DEF Writes
  <2>2. txns[i].op.wallet \in Wallets
    <3>1. txns[i] \in Rows
      BY <2>1, ElementOfSeq, LenProperties DEF StoreTypeOK, TxnIds
    <3>. QED
      BY <3>1 DEF Rows, Operations
  <2>3. MovedMoney(i)' <=> MovedMoney(i)
    BY <1>1, <2>1, <2>2, MovedStays
  <2>4. \A type : EventCount(outbox', i, type) = EventCount(outbox, i, type)
    BY <1>1 DEF CountsStay
  <2>5. Shown(i)
    BY <2>1
  <2>. QED
    BY <2>1, <2>3, <2>4, <2>5 DEF Shown, OutcomeShown
<1>. QED
  BY <1>1

LEMMA OutcomesKept ==
    ASSUME TypeInv, LockedReadsAreCurrent, AccountInv, RefsOfRows, CopiesWaited,
           OnlyReversalsWait, ReferenceInv, MovementInv, AnnouncementInv, EventsMatchOutcomes,
           [Next]_vars
    PROVE  EventsMatchOutcomes'
<1>1. /\ StoreTypeOK /\ RowsKeepOperations /\ EntriesOfRows /\ TrustedTargets /\ PendingCopies
      /\ TxnIds = 1 .. Len(txns) /\ Len(txns) \in Nat
  BY RowsOnlyGrow, LenProperties
     DEF TypeInv, TypeOK, AccountInv, ReferenceInv, StoreTypeOK, TxnIds
<1>2. \A i \in TxnIds : Shown(i)
  BY OutcomesShown
<1>3. SUFFICES \A i \in TxnIds' : Shown(i)'
  BY DEF EventsMatchOutcomes, Announcements, Shown, OutcomeShown, EventCount, EventsOf, Processed,
         Row
<1>4. CASE UNCHANGED <<txns, ledger, outbox>>
  BY <1>2, <1>4 DEF TxnIds, Shown, MovedMoney, HasLedgerEntry, Row
<1>5. ASSUME NEW row \in Rows, ArrivesUnmoved(Len(txns) + 1, row)
      PROVE  \A i \in TxnIds' : Shown(i)'
  <2>1. PICK id \in Nat : id = Len(txns) + 1
    BY <1>1
  <2>2. Writes(id, row) /\ UNCHANGED ledger /\ txns'[id] = row
    BY <1>1, <1>5, <2>1, ArrivalWrites DEF ArrivesUnmoved, Writes
  <2>3. PICK type \in {"WagerTransactionPendingReference", "WagerTransactionRejected",
                       "WagerTransactionProcessed"} :
          /\ outbox' = outbox \o <<Event(type, id)>>
          /\ \/ /\ type = "WagerTransactionPendingReference"
                /\ row.status = "PENDING_REFERENCE" /\ row.retryCount = 1
             \/ /\ type = "WagerTransactionRejected"
                /\ row.status = "REJECTED" /\ row.retryCount = 0
             \/ /\ type = "WagerTransactionProcessed" /\ row.status = "PROCESSED"
                /\ row.retryCount = 0 /\ row.op.kind = "LOSS"
    BY <1>5, <2>1 DEF ArrivesUnmoved
  <2>4. AnnouncesOne(id, type)
    BY <1>1, <2>3, OneIsAnnounced DEF EventTypes
  <2>5. \A t : EventCount(outbox', id, t) = IF t = type THEN 1 ELSE 0
    BY <1>1, <2>1, <2>4, NoEventYet DEF AnnouncesOne
  <2>6. ~MovedMoney(id)'
    <3>1. row.op.wallet \in Wallets
      BY DEF Rows, Operations
    <3>2. ~HasLedgerEntry(row.op.wallet, id)
      BY <1>1, <2>1, <3>1, NewRowHasNoEntry
    <3>. QED
      BY <2>2, <3>2 DEF MovedMoney, HasLedgerEntry, Row
  <2>7. Shown(id)'
    BY <2>2, <2>3, <2>5, <2>6 DEF Shown, OutcomeShown
  <2>. QED
    BY <1>1, <1>2, <2>2, <2>4, <2>7, MovementsStay, AllShown DEF AnnouncesOne
<1>6. ASSUME NEW id \in Nat, NEW row, NEW account, NEW e \in LedgerEntries,
             SettledBy(id, row, account, e), row.op.wallet \in Wallets, txns'[id] = row
      PROVE  MovedMoney(id)' /\ (\A i : i # id => EntriesStay(i))
  <2>1. Explained(id)' /\ (\A i : i # id => EntriesStay(i))
    BY <1>1, <1>6, SettledExplained
  <2>. QED
    BY <1>6, <2>1 DEF Explained, EntriesIn, MovedMoney, HasLedgerEntry, Row, SettledBy
<1>7. ASSUME NEW row \in Rows, NEW account \in WalletRows, NEW e \in LedgerEntries,
             ArrivesMoved(Len(txns) + 1, row, account, e)
      PROVE  \A i \in TxnIds' : Shown(i)'
  <2>1. PICK id \in Nat : id = Len(txns) + 1
    BY <1>1
  <2>2. Writes(id, row) /\ txns'[id] = row /\ SettledBy(id, row, account, e)
    BY <1>1, <1>7, <2>1, ArrivalWrites DEF ArrivesMoved, Writes
  <2>3. AnnouncesMovement(id)
    <3>1. account.version \in Nat
      BY DEF WalletRows
    <3>. QED
      BY <1>1, <1>7, <2>1, <3>1, MovementIsAnnounced DEF ArrivesMoved
  <2>4. row.status = "PROCESSED" /\ row.retryCount = 0
    BY <1>7 DEF ArrivesMoved, SettledBy
  <2>5. MovedMoney(id)' /\ (\A i : i # id => EntriesStay(i))
    BY <1>6, <2>2 DEF Rows, Operations
  <2>6. Shown(id)'
    BY <2>2, <2>3, <2>4, <2>5 DEF Shown, OutcomeShown, AnnouncesMovement
  <2>. QED
    BY <1>1, <1>2, <2>2, <2>3, <2>5, <2>6, AllShown DEF AnnouncesMovement
<1>8. ASSUME NEW id \in TxnIds, NEW row, Rewritten(id, row)
      PROVE  /\ id \in Nat /\ Writes(id, row) /\ txns'[id] = row /\ row.op = txns[id].op
             /\ txns[id].op.wallet \in Wallets
             /\ row.retryCount > 0 /\ Shown(id) /\ txns[id].retryCount > 0
             /\ txns[id].status = "PROCESSED" => MovedMoney(id)
  <2>1. txns[id] \in Rows
    BY <1>1, ElementOfSeq DEF StoreTypeOK, TxnIds
  <2>2. row.retryCount > 0 /\ txns[id].retryCount > 0
    BY <1>8, <2>1 DEF Rewritten, Waited, Rows
  <2>3. txns[id].op.kind # "LOSS"
    BY <1>8 DEF Rewritten, OnlyReversalsWait, RequiresReference
  <2>4. txns[id].status = "PROCESSED" => MovedMoney(id)
    BY <2>3 DEF MovementInv, Explained, EntriesIn, MovedMoney, HasLedgerEntry, Row
  <2>5. Writes(id, row) /\ txns'[id] = row /\ row.op = txns[id].op
    BY <1>1, <1>8, RewriteWrites DEF Rewritten, Writes
  <2>. QED
    BY <1>1, <1>2, <2>1, <2>2, <2>4, <2>5 DEF Rows, Operations
<1>9. ASSUME NEW id \in TxnIds, NEW row, RewrittenUnmoved(id, row)
      PROVE  \A i \in TxnIds' : Shown(i)'
  <2>1. Rewritten(id, row) /\ UNCHANGED ledger
    BY <1>9 DEF RewrittenUnmoved
  <2>2. MovedMoney(id)' <=> MovedMoney(id)
    BY <1>8, <2>1, MovementsStay, MovedStays
  <2>3. CASE row.status = "PENDING_REFERENCE" /\ UNCHANGED outbox
    <3>1. CountsStay(id)
      BY <2>3 DEF CountsStay
    <3>2. Shown(id)'
      BY <1>8, <2>1, <2>2, <2>3 DEF Shown, OutcomeShown
    <3>. QED
      BY <1>1, <1>2, <1>8, <2>1, <3>1, <3>2, MovementsStay, AllShown
  <2>4. CASE /\ row.status = "REJECTED"
             /\ outbox' = Append(outbox, Event("WagerTransactionRejected", id))
    <3>1. AnnouncesOne(id, "WagerTransactionRejected")
      BY <1>1, <1>8, <2>1, <2>4, OneIsAnnounced DEF EventTypes
    <3>2. EventCount(outbox', id, "WagerTransactionRejected") > 0
      BY <3>1 DEF AnnouncesOne
    <3>3. \A t \in EventTypes \ {"WagerTransactionRejected"} :
             EventCount(outbox', id, t) = EventCount(outbox, id, t)
      BY <3>1 DEF AnnouncesOne
    <3>4. Shown(id)'
      BY <1>8, <2>1, <2>2, <2>4, <3>2, <3>3 DEF Shown, OutcomeShown, EventTypes
    <3>. QED
      BY <1>1, <1>2, <1>8, <2>1, <3>1, <3>4, MovementsStay, AllShown DEF AnnouncesOne
  <2>. QED
    BY <1>9, <2>3, <2>4 DEF RewrittenUnmoved
<1>10. ASSUME NEW id \in TxnIds, NEW row, NEW account \in WalletRows, NEW e \in LedgerEntries,
              RewrittenMoved(id, row, account, e)
       PROVE  \A i \in TxnIds' : Shown(i)'
  <2>1. /\ Rewritten(id, row) /\ SettledBy(id, row, account, e) /\ row.status = "PROCESSED"
        /\ outbox' = Append(outbox, Event("WagerTransactionProcessed", id))
    BY <1>10 DEF RewrittenMoved, SettledBy
  <2>2. ~MovedMoney(id)
    BY <1>8, <2>1 DEF SettledBy, MovedMoney, Row
  <2>3. MovedMoney(id)' /\ (\A i : i # id => EntriesStay(i))
    BY <1>6, <1>8, <2>1
  <2>4. AnnouncesOne(id, "WagerTransactionProcessed")
    BY <1>1, <1>8, <2>1, OneIsAnnounced DEF EventTypes
  <2>5. EventCount(outbox, id, "WagerTransactionProcessed") = 0
    BY <1>8, <2>1, <2>2 DEF Shown, OutcomeShown
  <2>6. EventCount(outbox', id, "WagerTransactionProcessed") = 1
    BY <2>4, <2>5 DEF AnnouncesOne
  <2>7. \A t \in EventTypes \ {"WagerTransactionProcessed"} :
           EventCount(outbox', id, t) = EventCount(outbox, id, t)
    BY <2>4 DEF AnnouncesOne
  <2>8. Shown(id)'
    BY <1>8, <2>1, <2>3, <2>6, <2>7 DEF Shown, OutcomeShown, EventTypes
  <2>. QED
    BY <1>1, <1>2, <1>8, <2>1, <2>3, <2>4, <2>8, AllShown DEF AnnouncesOne
<1>11. ASSUME \/ \E h \in Handlers : Handling(h) \/ AbortHandler(h)
              \/ \E o \in Openings : Opening(o)
       PROVE  \A i \in TxnIds' : Shown(i)'
  BY <1>4, <1>5, <1>7, <1>11, Arrivals
<1>12. ASSUME NEW r \in Retriers, RetrierStep(r) \/ AbortItem(r) \/ CrashRetrier(r)
       PROVE  \A i \in TxnIds' : Shown(i)'
  BY <1>1, <1>4, <1>9, <1>10, <1>12, RetrierRewrites
<1>13. CASE UNCHANGED vars
  BY <1>4, <1>13 DEF vars, storeVars
<1>. QED
  BY <1>11, <1>12, <1>13 DEF Next, Working, Failing, Retrying

\* A success is announced once, a wait once and no refusal silently, however many retriers
\* work on a row; on arrival a refusal is announced once and a change of the balance exactly
\* when money moved.
\* (process_wager.go:239-255, 377-422, 495-529; retry_pending_ref.go:86-102, 147-162, 248-263)
THEOREM OutcomesAnnouncedOnce == Spec => []EventsMatchOutcomes
<1>1. Init => EventsMatchOutcomes
  <2> SUFFICES ASSUME Init PROVE EventsMatchOutcomes
    OBVIOUS
  <2>1. TxnIds = {}
    BY DEF Init, StoreInit, TxnIds
  <2>. QED
    BY <2>1 DEF EventsMatchOutcomes
<1>2. /\ TypeInv /\ LockedReadsAreCurrent /\ AccountInv /\ ReplayInv /\ VersionInv
      /\ ReferenceInv /\ MovementInv /\ AnnouncementInv /\ EventsMatchOutcomes /\ [Next]_vars
      => EventsMatchOutcomes'
  BY OutcomesKept DEF ReplayInv, VersionInv
<1>. QED
  BY <1>1, <1>2, TypeInvariant, LockedReadsCurrent, AccountInvariant, ReplayInvariant,
     VersionInvariant, ReferenceInvariant, MovementsExplained, AnnouncementInvariant, PTL
     DEF Spec

=============================================================================
