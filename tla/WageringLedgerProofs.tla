------------------------ MODULE WageringLedgerProofs ------------------------
(***************************************************************************)
(* The wallets and their ledgers agree, for every value of the constants:  *)
(* any number of handlers and retriers, any requests and any amounts.      *)
(*                                                                         *)
(* First, a wallet's lock protects what its holder read; then, every step  *)
(* that moves money moves it from the balance the wallet has.              *)
(***************************************************************************)
EXTENDS WageringTypeProofs, WageringProperties

-----------------------------------------------------------------------------
(* Locking discipline *)

HandlerReadsCurrent(h) ==
    pc[h] \in {"read_reference", "decide"} =>
        /\ walletLock[req[h].op.wallet] = h
        /\ wallets[req[h].op.wallet] = wal[h]

RetrierReadsCurrent(r) ==
    rpc[r] = "wallet_locked" =>
        /\ walletLock[item[r].row.op.wallet] = r
        /\ wallets[item[r].row.op.wallet] = rwal[r]

LEMMA ReadsCurrentParts ==
    /\ LockedReadsAreCurrent <=> /\ \A h \in Handlers : HandlerReadsCurrent(h)
                                 /\ \A r \in Retriers : RetrierReadsCurrent(r)
    /\ LockedReadsAreCurrent' <=> /\ \A h \in Handlers : HandlerReadsCurrent(h)'
                                  /\ \A r \in Retriers : RetrierReadsCurrent(r)'
BY DEF LockedReadsAreCurrent, HandlerReadsCurrent, RetrierReadsCurrent

\* A step of p touches no lock of another process, and changes no wallet that another
\* process may hold: its own, or one that did not exist.
Disciplined(p) ==
    \A w \in Wallets :
        /\ walletLock'[w] # walletLock[w] => walletLock[w] \in {p, Nobody}
        /\ wallets'[w] # wallets[w] => walletLock[w] = p \/ wallets[w] = None

LEMMA OtherHandlerKeeps ==
    ASSUME TypeInv, NEW p, NEW h \in Handlers, h # p, HandlerReadsCurrent(h), Disciplined(p),
           pc'[h] = pc[h], req'[h] = req[h], wal'[h] = wal[h]
    PROVE  HandlerReadsCurrent(h)'
<1> SUFFICES ASSUME pc[h] \in {"read_reference", "decide"}
             PROVE  /\ walletLock'[req[h].op.wallet] = h
                    /\ wallets'[req[h].op.wallet] = wal[h]
  BY DEF HandlerReadsCurrent
<1>1. req[h] \in Requests /\ wal[h] \in WalletRows
  BY DEF TypeInv, HandlerControl
<1>2. req[h].op.wallet \in Wallets
  BY <1>1, RequestType
<1>3. h \in Processes /\ h # Nobody
  BY RequestsAssumption, NobodyAssumption
<1>4. /\ walletLock[req[h].op.wallet] = h
      /\ wallets[req[h].op.wallet] = wal[h]
  BY DEF HandlerReadsCurrent
<1>. QED
  BY <1>1, <1>2, <1>3, <1>4, NoneAssumption DEF Disciplined

LEMMA OtherRetrierKeeps ==
    ASSUME TypeInv, NEW p, NEW r \in Retriers, r # p, RetrierReadsCurrent(r), Disciplined(p),
           rpc'[r] = rpc[r], item'[r] = item[r], rwal'[r] = rwal[r]
    PROVE  RetrierReadsCurrent(r)'
<1> SUFFICES ASSUME rpc[r] = "wallet_locked"
             PROVE  /\ walletLock'[item[r].row.op.wallet] = r
                    /\ wallets'[item[r].row.op.wallet] = rwal[r]
  BY DEF RetrierReadsCurrent
<1>1. item[r] \in Copies /\ rwal[r] \in WalletRows
  BY DEF TypeInv, RetrierControl
<1>2. item[r].row.op.wallet \in Wallets
  BY <1>1 DEF Copies, Rows, Operations
<1>3. r \in Processes /\ r # Nobody
  BY RetriersAssumption, NobodyAssumption
<1>4. /\ walletLock[item[r].row.op.wallet] = r
      /\ wallets[item[r].row.op.wallet] = rwal[r]
  BY DEF RetrierReadsCurrent
<1>. QED
  BY <1>1, <1>2, <1>3, <1>4, NoneAssumption DEF Disciplined

\* What a step of handler h leaves alone in the other handlers.
HandlerFrame(h) ==
    \A g \in Handlers \ {h} : pc'[g] = pc[g] /\ req'[g] = req[g] /\ wal'[g] = wal[g]

RetrierFrame(r) ==
    \A s \in Retriers \ {r} : rpc'[s] = rpc[s] /\ item'[s] = item[s] /\ rwal'[s] = rwal[s]

LEMMA UnlockDiscipline ==
    ASSUME TypeInv, NEW p, Unlock(p)
    PROVE  \A w \in Wallets : walletLock'[w] # walletLock[w] => walletLock[w] \in {p, Nobody}
BY DEF Unlock

\* Every way in which a handler's transaction ends.
LEMMA EndTransactionReads ==
    ASSUME TypeInv, NEW h \in Handlers, NEW s \in {"idle", "recover"}, EndTransaction(h, s),
           req' = req \/ req' = [req EXCEPT ![h] = None],
           wallets' = wallets \/ \E row : /\ walletLock[req[h].op.wallet] = h
                                          /\ UpdateWallet(req[h].op.wallet, row)
    PROVE  Disciplined(h) /\ HandlerFrame(h) /\ HandlerReadsCurrent(h)'
<1>1. StoreTypeOK /\ HandlerTypeOK
  BY DEF TypeInv, TypeOK
<1>2. Disciplined(h)
  <2>1. \A w \in Wallets : wallets'[w] # wallets[w] => walletLock[w] = h
    BY <1>1 DEF UpdateWallet, StoreTypeOK
  <2>. QED
    BY <2>1, UnlockDiscipline DEF EndTransaction, Disciplined
<1>3. HandlerFrame(h)
  BY <1>1 DEF EndTransaction, HandlerTypeOK, HandlerFrame
<1>4. pc'[h] = s
  BY <1>1 DEF EndTransaction, HandlerTypeOK
<1>. QED
  BY <1>2, <1>3, <1>4 DEF HandlerReadsCurrent

\* The steps that neither lock, nor write a wallet, nor end a transaction.
LEMMA QuietHandlerReads ==
    ASSUME TypeInv, NEW h \in Handlers, HandlerReadsCurrent(h), UNCHANGED <<wallets, walletLock>>,
           \/ \E s \in {"find_key", "find_external", "lock_wallet"} : GoTo(h, s)
           \/ \E q \in Requests : Receive(h, q) \/ RefuseOpening(h, q)
           \/ ReadReference(h)
    PROVE  Disciplined(h) /\ HandlerFrame(h) /\ HandlerReadsCurrent(h)'
<1>1. HandlerTypeOK
  BY DEF TypeInv, TypeOK
<1>2. Disciplined(h)
  BY DEF Disciplined
<1>3. HandlerFrame(h)
  BY <1>1 DEF HandlerTypeOK, HandlerFrame, GoTo, Receive, RefuseOpening, ReadReference
<1>4. HandlerReadsCurrent(h)'
  <2>1. CASE \E s \in {"find_key", "find_external", "lock_wallet"} : GoTo(h, s)
    BY <1>1, <2>1 DEF HandlerTypeOK, HandlerReadsCurrent, GoTo
  <2>2. CASE \E q \in Requests : Receive(h, q)
    BY <1>1, <2>2 DEF HandlerTypeOK, HandlerReadsCurrent, Receive
  <2>3. CASE \E q \in Requests : RefuseOpening(h, q)
    BY <1>1, <2>3 DEF HandlerTypeOK, HandlerReadsCurrent, RefuseOpening
  <2>4. CASE ReadReference(h)
    BY <1>1, <2>4 DEF HandlerTypeOK, HandlerReadsCurrent, ReadReference
  <2>. QED
    BY <2>1, <2>2, <2>3, <2>4
<1>. QED
  BY <1>2, <1>3, <1>4

LEMMA FinishReads ==
    ASSUME TypeInv, NEW h \in Handlers, NEW answer, Finish(h, answer), UNCHANGED wallets
    PROVE  Disciplined(h) /\ HandlerFrame(h) /\ HandlerReadsCurrent(h)'
BY EndTransactionReads DEF Finish

LEMMA LookupReads ==
    ASSUME TypeInv, NEW h \in Handlers, HandlerReadsCurrent(h),
           ReplayRedelivered(h) \/ FindByKey(h) \/ FindByExternal(h)
    PROVE  Disciplined(h) /\ HandlerFrame(h) /\ HandlerReadsCurrent(h)'
<1>1. \/ \E i : Replay(h, i)
      \/ Fail(h, "PAYLOAD_CONFLICT")
      \/ \E s \in {"find_key", "find_external", "lock_wallet"} : GoTo(h, s)
  BY DEF ReplayRedelivered, FindByKey, FindByExternal
<1>2. CASE \E i : Replay(h, i)
  BY <1>2, FinishReads DEF Replay
<1>3. CASE Fail(h, "PAYLOAD_CONFLICT")
  BY <1>3, FinishReads DEF Fail
<1>4. CASE \E s \in {"find_key", "find_external", "lock_wallet"} : GoTo(h, s)
  BY <1>4, QuietHandlerReads DEF GoTo, storeVars
<1>. QED
  BY <1>1, <1>2, <1>3, <1>4

LEMMA LockWalletReads ==
    ASSUME TypeInv, NEW h \in Handlers, LockWallet(h)
    PROVE  Disciplined(h) /\ HandlerFrame(h) /\ HandlerReadsCurrent(h)'
<1> DEFINE w == req[h].op.wallet
<1>1. /\ StoreTypeOK /\ HandlerTypeOK
      /\ w \in Wallets
  <2>1. req[h] \in Requests
    BY DEF LockWallet, TypeInv, HandlerControl
  <2>. QED
    BY <2>1, RequestType DEF TypeInv, TypeOK
<1>2. CASE \E code : Fail(h, code)
  BY <1>2, FinishReads DEF Fail
<1>3. CASE /\ CanLock(w)
           /\ Lock(w, h)
           /\ wal' = [wal EXCEPT ![h] = wallets[w]]
           /\ pc' = [pc EXCEPT ![h] =
                        IF RequiresReference(req[h].op.kind) THEN "read_reference" ELSE "decide"]
           /\ UNCHANGED <<wallets, req>>
  <2>1. Disciplined(h)
    BY <1>1, <1>3 DEF Disciplined, CanLock, Lock, StoreTypeOK
  <2>2. HandlerFrame(h)
    BY <1>1, <1>3 DEF HandlerFrame, HandlerTypeOK
  <2>3. HandlerReadsCurrent(h)'
    BY <1>1, <1>3 DEF HandlerReadsCurrent, HandlerTypeOK, StoreTypeOK, Lock
  <2>. QED
    BY <2>1, <2>2, <2>3
<1>. QED
  BY <1>2, <1>3 DEF LockWallet

LEMMA DecisionReads ==
    ASSUME TypeInv, NEW h \in Handlers, HandlerReadsCurrent(h),
           \/ PersistPending(h) \/ PersistRejected(h) \/ PersistLoss(h) \/ PersistProcessed(h)
           \/ FailUnsupported(h) \/ LoseInsertRace(h) \/ RecoverDuplicate(h) \/ AbortHandler(h)
    PROVE  Disciplined(h) /\ HandlerFrame(h) /\ HandlerReadsCurrent(h)'
<1>1. CASE PersistProcessed(h)
  <2>1. /\ EndTransaction(h, "idle")
        /\ req' = [req EXCEPT ![h] = None]
    BY <1>1 DEF PersistProcessed, CommitNew, Finish
  <2>2. /\ walletLock[req[h].op.wallet] = h
        /\ \E row : UpdateWallet(req[h].op.wallet, row)
    BY <1>1 DEF PersistProcessed, HandlerReadsCurrent
  <2>. QED
    BY <2>1, <2>2, EndTransactionReads
<1>2. CASE PersistPending(h) \/ PersistRejected(h) \/ PersistLoss(h)
  <2>1. UNCHANGED wallets /\ \E answer : Finish(h, answer)
    BY <1>2 DEF PersistPending, PersistRejected, PersistLoss, CommitNew
  <2>. QED
    BY <2>1, FinishReads
<1>3. CASE FailUnsupported(h)
  BY <1>3, FinishReads DEF FailUnsupported, Fail
<1>4. CASE LoseInsertRace(h)
  BY <1>4, EndTransactionReads DEF LoseInsertRace
<1>5. CASE RecoverDuplicate(h)
  <2>1. UNCHANGED wallets /\ \E answer : Finish(h, answer)
    BY <1>5 DEF RecoverDuplicate
  <2>. QED
    BY <2>1, FinishReads
<1>6. CASE AbortHandler(h)
  BY <1>6, EndTransactionReads DEF AbortHandler
<1>. QED
  BY <1>1, <1>2, <1>3, <1>4, <1>5, <1>6

LEMMA HandlerReads ==
    ASSUME TypeInv, NEW h \in Handlers, HandlerReadsCurrent(h), Handling(h) \/ AbortHandler(h)
    PROVE  Disciplined(h) /\ HandlerFrame(h) /\ HandlerReadsCurrent(h)'
<1>1. CASE ReadReference(h) \/ \E q \in Requests : Receive(h, q) \/ RefuseOpening(h, q)
  BY <1>1, QuietHandlerReads DEF ReadReference, Receive, RefuseOpening, storeVars
<1>2. CASE ReplayRedelivered(h) \/ FindByKey(h) \/ FindByExternal(h)
  BY <1>2, LookupReads
<1>3. CASE LockWallet(h)
  BY <1>3, LockWalletReads
<1>. QED
  BY <1>1, <1>2, <1>3, DecisionReads DEF Handling, HandlerStep

-----------------------------------------------------------------------------
(* The same of a retrier *)

LEMMA NextItemReads ==
    ASSUME TypeInv, NEW r \in Retriers, NextItem(r),
           wallets' = wallets \/ \E row : /\ walletLock[item[r].row.op.wallet] = r
                                          /\ UpdateWallet(item[r].row.op.wallet, row)
    PROVE  Disciplined(r) /\ RetrierFrame(r) /\ RetrierReadsCurrent(r)'
<1>1. StoreTypeOK /\ RetrierTypeOK
  BY DEF TypeInv, TypeOK
<1>2. Disciplined(r)
  <2>1. \A w \in Wallets : wallets'[w] # wallets[w] => walletLock[w] = r
    BY <1>1 DEF UpdateWallet, StoreTypeOK
  <2>. QED
    BY <2>1, UnlockDiscipline DEF NextItem, Disciplined
<1>3. RetrierFrame(r)
  BY <1>1 DEF NextItem, RetrierTypeOK, RetrierFrame
<1>4. rpc'[r] = "idle"
  BY <1>1 DEF NextItem, RetrierTypeOK
<1>. QED
  BY <1>2, <1>3, <1>4 DEF RetrierReadsCurrent

LEMMA LockItemWalletReads ==
    ASSUME TypeInv, NEW r \in Retriers, LockItemWallet(r)
    PROVE  Disciplined(r) /\ RetrierFrame(r) /\ RetrierReadsCurrent(r)'
<1> DEFINE w == item[r].row.op.wallet
<1>1. /\ StoreTypeOK /\ RetrierTypeOK
      /\ w \in Wallets
  <2>1. item[r] \in Copies
    BY DEF LockItemWallet, TypeInv, RetrierControl
  <2>. QED
    BY <2>1 DEF TypeInv, TypeOK, Copies, Rows, Operations
<1>2. Disciplined(r)
  BY <1>1 DEF Disciplined, LockItemWallet, CanLock, Lock, StoreTypeOK
<1>3. RetrierFrame(r)
  BY <1>1 DEF RetrierFrame, LockItemWallet, RetrierTypeOK
<1>4. RetrierReadsCurrent(r)'
  BY <1>1 DEF RetrierReadsCurrent, LockItemWallet, Lock, RetrierTypeOK, StoreTypeOK
<1>. QED
  BY <1>2, <1>3, <1>4

LEMMA RetrierReads ==
    ASSUME TypeInv, NEW r \in Retriers, RetrierReadsCurrent(r),
           RetrierStep(r) \/ AbortItem(r) \/ CrashRetrier(r)
    PROVE  Disciplined(r) /\ RetrierFrame(r) /\ RetrierReadsCurrent(r)'
<1>1. RetrierTypeOK
  BY DEF TypeInv, TypeOK
<1>2. CASE FetchBatch(r) \/ RejectExhausted(r) \/ ReadTarget(r)
  <2>1. UNCHANGED <<wallets, walletLock>> /\ rpc[r] = "idle"
    BY <1>2 DEF FetchBatch, RejectExhausted, ReadTarget, storeVars
  <2>2. Disciplined(r)
    BY <2>1 DEF Disciplined
  <2>3. RetrierFrame(r)
    BY <1>1, <1>2 DEF FetchBatch, RejectExhausted, ReadTarget, RetrierTypeOK, RetrierFrame
  <2>4. rpc'[r] # "wallet_locked"
    BY <1>1, <1>2 DEF FetchBatch, RejectExhausted, ReadTarget, RetrierTypeOK
  <2>. QED
    BY <2>2, <2>3, <2>4 DEF RetrierReadsCurrent
<1>3. CASE LockItemWallet(r)
  BY <1>3, LockItemWalletReads
<1>4. CASE ApplyItem(r)
  <2>1. /\ walletLock[item[r].row.op.wallet] = r
        /\ \E row : UpdateWallet(item[r].row.op.wallet, row)
        /\ NextItem(r)
    BY <1>4 DEF ApplyItem, RetrierReadsCurrent
  <2>. QED
    BY <2>1, NextItemReads
<1>5. CASE \/ PostponeRetry(r) \/ KeepWaiting(r) \/ RejectItem(r) \/ AbandonItem(r)
           \/ AbortItem(r) \/ CrashRetrier(r)
  <2>1. NextItem(r) /\ wallets' = wallets
    BY <1>5 DEF PostponeRetry, KeepWaiting, RejectItem, AbandonItem, AbortItem, CrashRetrier
  <2>. QED
    BY <2>1, NextItemReads
<1>. QED
  BY <1>2, <1>3, <1>4, <1>5 DEF RetrierStep, HandleItem

-----------------------------------------------------------------------------
(* The lock protects what its holder read *)

LEMMA OpeningReads ==
    ASSUME TypeInv, NEW o \in Openings, Opening(o)
    PROVE  Disciplined(Nobody)
<1>1. StoreTypeOK
  BY DEF TypeInv, TypeOK
<1>. QED
  BY <1>1 DEF Opening, OpenWallet, UpdateWallet, Disciplined, StoreTypeOK

LEMMA ReadsStayCurrent ==
    ASSUME TypeInv, LockedReadsAreCurrent, [Next]_vars
    PROVE  LockedReadsAreCurrent'
<1>1. /\ \A h \in Handlers : HandlerReadsCurrent(h) /\ h \in Processes /\ h # Nobody
      /\ \A r \in Retriers : RetrierReadsCurrent(r) /\ r \in Processes /\ r # Nobody
  BY ReadsCurrentParts, RequestsAssumption, RetriersAssumption, NobodyAssumption
<1>2. SUFFICES /\ \A h \in Handlers : HandlerReadsCurrent(h)'
               /\ \A r \in Retriers : RetrierReadsCurrent(r)'
  BY ReadsCurrentParts
<1>3. ASSUME NEW o \in Openings, Opening(o)
      PROVE  /\ \A h \in Handlers : HandlerReadsCurrent(h)'
             /\ \A r \in Retriers : RetrierReadsCurrent(r)'
  <2>1. Disciplined(Nobody) /\ UNCHANGED <<handlerVars, retrierVars>>
    BY <1>3, OpeningReads DEF Opening
  <2>. QED
    BY <1>1, <2>1, OtherHandlerKeeps, OtherRetrierKeeps DEF handlerVars, retrierVars
<1>4. ASSUME NEW h \in Handlers, Handling(h) \/ AbortHandler(h), UNCHANGED retrierVars
      PROVE  /\ \A g \in Handlers : HandlerReadsCurrent(g)'
             /\ \A r \in Retriers : RetrierReadsCurrent(r)'
  <2>1. Disciplined(h) /\ HandlerFrame(h) /\ HandlerReadsCurrent(h)'
    BY <1>1, <1>4, HandlerReads
  <2>2. \A g \in Handlers \ {h} : HandlerReadsCurrent(g)'
    BY <1>1, <2>1, OtherHandlerKeeps DEF HandlerFrame
  <2>3. \A r \in Retriers : RetrierReadsCurrent(r)'
    BY <1>1, <1>4, <2>1, OtherRetrierKeeps, ProcessesAssumption DEF retrierVars
  <2>. QED
    BY <2>1, <2>2, <2>3
<1>5. ASSUME NEW r \in Retriers, RetrierStep(r) \/ AbortItem(r) \/ CrashRetrier(r),
             UNCHANGED handlerVars
      PROVE  /\ \A h \in Handlers : HandlerReadsCurrent(h)'
             /\ \A s \in Retriers : RetrierReadsCurrent(s)'
  <2>1. Disciplined(r) /\ RetrierFrame(r) /\ RetrierReadsCurrent(r)'
    BY <1>1, <1>5, RetrierReads
  <2>2. \A s \in Retriers \ {r} : RetrierReadsCurrent(s)'
    BY <1>1, <2>1, OtherRetrierKeeps DEF RetrierFrame
  <2>3. \A h \in Handlers : HandlerReadsCurrent(h)'
    BY <1>1, <1>5, <2>1, OtherHandlerKeeps, ProcessesAssumption DEF handlerVars
  <2>. QED
    BY <2>1, <2>2, <2>3
<1>6. CASE UNCHANGED vars
  BY <1>1, <1>6 DEF vars, storeVars, handlerVars, retrierVars, HandlerReadsCurrent,
     RetrierReadsCurrent
<1>7. CASE Working
  BY <1>3, <1>4, <1>5, <1>7 DEF Working, Handling, Retrying
<1>8. CASE Failing
  BY <1>4, <1>5, <1>8 DEF Failing
<1>. QED
  BY <1>6, <1>7, <1>8 DEF Next

\* What a use case read of a wallet under its lock is the committed row until it ends,
\* however many handlers and retriers run. (process_wager.go:193-376,
\* retry_pending_ref.go:131-246)
THEOREM LockedReadsCurrent == Spec => []LockedReadsAreCurrent
<1>1. Init => LockedReadsAreCurrent
  BY DEF Init, HandlerInit, RetrierInit, LockedReadsAreCurrent
<1>2. TypeInv /\ LockedReadsAreCurrent /\ [Next]_vars => LockedReadsAreCurrent'
  BY ReadsStayCurrent
<1>. QED
  BY <1>1, <1>2, TypeInvariant, PTL DEF Spec

-----------------------------------------------------------------------------
(* Money *)

ChainOf(w) ==
    LET l == ledger[w]
    IN /\ \A k \in DOMAIN l :
             /\ EntryAdds(l[k])
             /\ l[k].before = IF k = 1 THEN 0 ELSE l[k - 1].after
       /\ BalanceOf(w) = IF l = <<>> THEN 0 ELSE l[Len(l)].after

\* One movement: the wallet w becomes row, by the entry e of its ledger.
Moves(w, row, e) ==
    /\ UpdateWallet(w, row)
    /\ CreateLedgerEntry(w, e)
    /\ EntryAdds(e)
    /\ e.before = BalanceOf(w)
    /\ e.after = row.balance

\* A movement from the balance that the wallet has extends the chain.
LEMMA MovesKeepsChain ==
    ASSUME StoreTypeOK, LedgerChain, NEW v \in Wallets, NEW row \in WalletRows,
           NEW e \in LedgerEntries, Moves(v, row, e)
    PROVE  LedgerChain'
<1> SUFFICES ASSUME NEW w \in Wallets PROVE ChainOf(w)'
  BY DEF LedgerChain, ChainOf
<1>1. ChainOf(w)
  BY DEF LedgerChain, ChainOf
<1>2. CASE w # v
  <2>1. ledger'[w] = ledger[w] /\ wallets'[w] = wallets[w]
    BY <1>2 DEF Moves, UpdateWallet, CreateLedgerEntry, StoreTypeOK
  <2>. QED
    BY <1>1, <2>1 DEF ChainOf, BalanceOf, EntryAdds
<1>3. CASE w = v
  <2> DEFINE l == ledger[w]
             n == Len(l)
             m == Append(l, e)
  <2>1. ledger'[w] = m /\ wallets'[w] = row
    BY <1>3 DEF Moves, UpdateWallet, CreateLedgerEntry, StoreTypeOK
  <2>2. l \in Seq(LedgerEntries) /\ n \in Nat /\ DOMAIN l = 1 .. n
    BY LenProperties DEF StoreTypeOK
  <2>3. /\ m \in Seq(LedgerEntries) /\ m # <<>>
        /\ Len(m) = n + 1 /\ DOMAIN m = 1 .. n + 1
        /\ \A k \in 1 .. n : m[k] = l[k]
        /\ m[n + 1] = e
    BY <2>2, AppendProperties, LenProperties
  <2>4. BalanceOf(w)' = m[n + 1].after
    BY <1>3, <2>1, <2>3, NoneAssumption DEF BalanceOf, Moves
  <2>5. n = 0 <=> l = <<>>
    BY <2>2, EmptySeq
  <2>6. ASSUME NEW k \in 1 .. n + 1
        PROVE  EntryAdds(m[k]) /\ m[k].before = IF k = 1 THEN 0 ELSE m[k - 1].after
    <3>1. CASE k \in 1 .. n
      <4>1. m[k] = l[k] /\ (k # 1 => m[k - 1] = l[k - 1])
        BY <2>2, <2>3, <3>1
      <4>. QED
        BY <1>1, <2>2, <3>1, <4>1 DEF ChainOf
    <3>2. CASE k = n + 1
      <4>1. EntryAdds(m[k]) /\ m[k].before = BalanceOf(w)
        BY <1>3, <2>3, <3>2 DEF Moves
      <4>2. BalanceOf(w) = IF n = 0 THEN 0 ELSE m[n].after
        BY <1>1, <2>2, <2>3, <2>5 DEF ChainOf
      <4>. QED
        BY <2>2, <3>2, <4>1, <4>2
    <3>. QED
      BY <2>2, <3>1, <3>2
  <2> HIDE DEF m
  <2>7. \A k \in DOMAIN m :
           /\ EntryAdds(m[k])
           /\ m[k].before = IF k = 1 THEN 0 ELSE m[k - 1].after
    BY <2>3, <2>6
  <2>. QED
    BY <2>1, <2>3, <2>4, <2>7 DEF ChainOf, EntryAdds
<1>. QED
  BY <1>2, <1>3

LEMMA EntryOfMovement ==
    ASSUME NEW w, NEW op, NEW d, NEW id
    PROVE  /\ EntryAdds(NewLedgerEntry(id, w, op, d))
           /\ NewLedgerEntry(id, w, op, d).before = w.balance
           /\ NewLedgerEntry(id, w, op, d).after = BalanceAfter(w, op, d)
BY DEF EntryAdds, NewLedgerEntry, BalanceAfter

LEMMA ProcessedMoves ==
    ASSUME TypeInv, LockedReadsAreCurrent, NEW h \in Handlers, PersistProcessed(h)
    PROVE  \E w \in Wallets, row \in WalletRows, e \in LedgerEntries : Moves(w, row, e)
<1> DEFINE w == req[h].op.wallet
           d == Direction(h)
           row == Moved(wal[h], req[h].op, d)
           e == NewLedgerEntry(Len(txns) + 1, wal[h], req[h].op, d)
<1>1. /\ w \in Wallets /\ row \in WalletRows /\ e \in LedgerEntries
      /\ row.balance = BalanceAfter(wal[h], req[h].op, d)
  BY ProcessedMovement DEF TypeInv, TypeOK
<1>2. BalanceOf(w) = wal[h].balance
  <2>1. pc[h] = "decide"
    BY DEF PersistProcessed
  <2>2. wallets[w] = wal[h] /\ wal[h] \in WalletRows
    BY <2>1 DEF LockedReadsAreCurrent, TypeInv, HandlerControl
  <2>. QED
    BY <2>2, NoneAssumption DEF BalanceOf
<1>3. Moves(w, row, e)
  BY <1>1, <1>2, EntryOfMovement DEF Moves, PersistProcessed
<1>. QED
  BY <1>1, <1>3

LEMMA AppliedMoves ==
    ASSUME TypeInv, LockedReadsAreCurrent, NEW r \in Retriers, ApplyItem(r)
    PROVE  \E w \in Wallets, row \in WalletRows, e \in LedgerEntries : Moves(w, row, e)
<1> DEFINE op == item[r].row.op
           w == op.wallet
           d == ItemDirection(r)
           row == Moved(rwal[r], op, d)
           e == NewLedgerEntry(item[r].id, rwal[r], op, d)
<1>1. /\ w \in Wallets /\ row \in WalletRows /\ e \in LedgerEntries
      /\ row.balance = BalanceAfter(rwal[r], op, d)
  BY AppliedMovement DEF TypeInv, TypeOK
<1>2. BalanceOf(w) = rwal[r].balance
  <2>1. rpc[r] = "wallet_locked"
    BY DEF ApplyItem
  <2>2. wallets[w] = rwal[r] /\ rwal[r] \in WalletRows
    BY <2>1 DEF LockedReadsAreCurrent, TypeInv, RetrierControl
  <2>. QED
    BY <2>2, NoneAssumption DEF BalanceOf
<1>3. Moves(w, row, e)
  BY <1>1, <1>2, EntryOfMovement DEF Moves, ApplyItem
<1>. QED
  BY <1>1, <1>3

\* A wallet that opens with money moves from nothing; one that opens empty moves nothing.
LEMMA OpeningKeepsChain ==
    ASSUME StoreTypeOK, LedgerChain, NEW o \in Openings, OpenWallet(o)
    PROVE  LedgerChain'
<1>1. /\ o.wallet \in Wallets /\ o.player \in Players
      /\ o.currency \in Currencies /\ o.balance \in Nat
      /\ wallets[o.wallet] = None
  BY OpeningsAssumption DEF OpenWallet
<1>2. NewWallet(o) \in WalletRows /\ NewWallet(o).balance = o.balance
  BY <1>1 DEF NewWallet, WalletRows
<1>3. CASE CreditOpening(o)
  <2>1. Len(txns) + 1 \in Nat
    BY LenProperties DEF StoreTypeOK
  <2>2. PICK e \in LedgerEntries :
           e = [txn |-> Len(txns) + 1, direction |-> "CREDIT", amount |-> o.balance,
                before |-> 0, after |-> o.balance]
    BY <1>1, <2>1 DEF LedgerEntries, Directions
  <2>3. Moves(o.wallet, NewWallet(o), e)
    BY <1>1, <1>2, <1>3, <2>2 DEF Moves, OpenWallet, CreditOpening, EntryAdds, BalanceOf
  <2>. QED
    BY <1>1, <1>2, <2>3, MovesKeepsChain
<1>4. CASE o.balance = 0 /\ ledger' = ledger
  <2>1. \A w \in Wallets : BalanceOf(w)' = BalanceOf(w)
    BY <1>1, <1>2, <1>4, NoneAssumption
       DEF OpenWallet, UpdateWallet, BalanceOf, StoreTypeOK
  <2>. QED
    BY <1>4, <2>1 DEF LedgerChain, EntryAdds
<1>. QED
  BY <1>1, <1>3, <1>4 DEF OpenWallet

\* Every other step of a handler or a retrier leaves the wallets and the ledger alone.
LEMMA MoneyMovesOnlyHere ==
    /\ \A h \in Handlers : (Handling(h) \/ AbortHandler(h)) =>
          PersistProcessed(h) \/ UNCHANGED <<wallets, ledger>>
    /\ \A r \in Retriers : (RetrierStep(r) \/ AbortItem(r) \/ CrashRetrier(r)) =>
          ApplyItem(r) \/ UNCHANGED <<wallets, ledger>>
<1>1. ASSUME NEW h \in Handlers, Handling(h) \/ AbortHandler(h)
      PROVE  PersistProcessed(h) \/ UNCHANGED <<wallets, ledger>>
  <2>1. CASE \E q \in Requests : Receive(h, q) \/ RefuseOpening(h, q)
    BY <2>1 DEF Receive, RefuseOpening, storeVars
  <2>2. CASE ReplayRedelivered(h) \/ FindByKey(h) \/ FindByExternal(h)
    BY <2>2 DEF ReplayRedelivered, FindByKey, FindByExternal, Replay, Fail, GoTo, storeVars
  <2>3. CASE LockWallet(h) \/ ReadReference(h)
    BY <2>3 DEF LockWallet, ReadReference, Fail, storeVars
  <2>4. CASE PersistPending(h) \/ PersistRejected(h) \/ PersistLoss(h)
    BY <2>4 DEF PersistPending, PersistRejected, PersistLoss
  <2>5. CASE FailUnsupported(h) \/ LoseInsertRace(h) \/ RecoverDuplicate(h) \/ AbortHandler(h)
    BY <2>5 DEF FailUnsupported, LoseInsertRace, RecoverDuplicate, AbortHandler, Fail
  <2>. QED
    BY <1>1, <2>1, <2>2, <2>3, <2>4, <2>5 DEF Handling, HandlerStep
<1>2. ASSUME NEW r \in Retriers, RetrierStep(r) \/ AbortItem(r) \/ CrashRetrier(r)
      PROVE  ApplyItem(r) \/ UNCHANGED <<wallets, ledger>>
  <2>1. CASE FetchBatch(r) \/ RejectExhausted(r) \/ ReadTarget(r)
    BY <2>1 DEF FetchBatch, RejectExhausted, ReadTarget, storeVars
  <2>2. CASE PostponeRetry(r) \/ LockItemWallet(r) \/ KeepWaiting(r) \/ RejectItem(r)
    BY <2>2 DEF PostponeRetry, LockItemWallet, KeepWaiting, RejectItem
  <2>3. CASE AbandonItem(r) \/ AbortItem(r) \/ CrashRetrier(r)
    BY <2>3 DEF AbandonItem, AbortItem, CrashRetrier
  <2>. QED
    BY <1>2, <2>1, <2>2, <2>3 DEF RetrierStep, HandleItem
<1>. QED
  BY <1>1, <1>2

LEMMA ChainIsKept ==
    ASSUME TypeInv, LockedReadsAreCurrent, LedgerChain, [Next]_vars
    PROVE  LedgerChain'
<1>1. StoreTypeOK
  BY DEF TypeInv, TypeOK
<1>2. \/ \E o \in Openings : OpenWallet(o)
      \/ \E h \in Handlers : PersistProcessed(h)
      \/ \E r \in Retriers : ApplyItem(r)
      \/ UNCHANGED <<wallets, ledger>>
  BY MoneyMovesOnlyHere
     DEF Next, Working, Failing, Opening, Handling, Retrying, vars, storeVars
<1>3. CASE \E o \in Openings : OpenWallet(o)
  BY <1>1, <1>3, OpeningKeepsChain
<1>4. CASE \E h \in Handlers : PersistProcessed(h)
  BY <1>1, <1>4, ProcessedMoves, MovesKeepsChain
<1>5. CASE \E r \in Retriers : ApplyItem(r)
  BY <1>1, <1>5, AppliedMoves, MovesKeepsChain
<1>6. CASE UNCHANGED <<wallets, ledger>>
  BY <1>6 DEF LedgerChain, BalanceOf, EntryAdds
<1>. QED
  BY <1>2, <1>3, <1>4, <1>5, <1>6

\* Every wallet's ledger adds up from zero to the balance that the wallet stores, with no
\* gap, whatever the handlers and the retriers interleave and however often they fail.
\* (process_wager.go:289-376, retry_pending_ref.go:172-246, open_wallet.go:63-97)
THEOREM LedgerChains == Spec => []LedgerChain
<1>1. ASSUME Init PROVE LedgerChain
  <2>1. \A w \in Wallets : ledger[w] = <<>> /\ wallets[w] = None
    BY <1>1 DEF Init, StoreInit
  <2>2. \A w \in Wallets : DOMAIN ledger[w] = {}
    <3>1. \A w \in Wallets : ledger[w] \in Seq(LedgerEntries) /\ Len(ledger[w]) = 0
      BY <2>1, EmptySeq
    <3>2. \A w \in Wallets : DOMAIN ledger[w] = 1 .. 0
      BY <3>1, LenProperties
    <3>3. 1 .. 0 = {}
      OBVIOUS
    <3>. QED
      BY <3>2, <3>3, Zenon
  <2>. QED
    BY <2>1, <2>2 DEF LedgerChain, BalanceOf
<1>2. TypeInv /\ LockedReadsAreCurrent /\ LedgerChain /\ [Next]_vars => LedgerChain'
  BY ChainIsKept
<1>. QED
  BY <1>1, <1>2, TypeInvariant, LockedReadsCurrent, PTL DEF Spec

=============================================================================
