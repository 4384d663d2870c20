----------------------- MODULE OutboxPublisherProofs -----------------------
(***************************************************************************)
(* For any rows, publishers, batch sizes and limits: the types, one sender *)
(* per row, no repetition without an interruption, and the refinement of   *)
(* EventDelivery.  The inductive invariant says what a transaction holds:  *)
(* the rows of a batch are locked by its publisher and unpublished, and a  *)
(* row that is marked was accepted.                                        *)
(***************************************************************************)
EXTENDS OutboxPublisher, TLAPS

Held(p) == todo[p] \cup marked[p] \cup failed[p]

\* What a batch holds is locked by its publisher, unpublished, and handled once.
BatchInv ==
    \A p \in Publishers :
        /\ \A e \in Held(p) : e \in stored \ published /\ lockedBy[e] = p
        /\ todo[p] \cap (marked[p] \cup failed[p]) = {}
        /\ marked[p] \cap failed[p] = {}
        /\ \A e \in failed[p] : attempts[e] < MaxAttempts
        /\ ~publishing[p] => Held(p) = {} /\ ~broken[p]

\* A row is accepted before its mark, and a row that was accepted is published, marked by
\* a batch that may still commit, or uncertain.
SentInv ==
    /\ published \subseteq stored \cap accepted
    /\ \A p \in Publishers : marked[p] \subseteq accepted
    /\ \A e \in accepted :
          e \in published \/ e \in uncertain \/ \E p \in Publishers : e \in marked[p]
    /\ repeated \subseteq uncertain

IInv == TypeOK /\ BatchInv /\ SentInv

-----------------------------------------------------------------------------
(* The initial state *)

LEMMA InitIInv == Init => IInv
<1> USE PublishersAssumption
<1>1. Init => TypeOK
  BY DEF Init, TypeOK
<1>2. Init => BatchInv /\ SentInv
  BY DEF Init, BatchInv, SentInv, Held
<1> QED BY <1>1, <1>2 DEF IInv

-----------------------------------------------------------------------------
(* The steps of a publisher *)

\* A publisher holds a row alone: what one batch does to a row concerns no other batch.
LEMMA HeldAlone ==
  ASSUME BatchInv, NEW p \in Publishers, NEW q \in Publishers, p # q,
         NEW e \in Held(p)
  PROVE  e \notin Held(q)
BY DEF BatchInv

LEMMA DelayType == ASSUME NEW n \in Nat PROVE Delay(n) \in 1 .. MaxDelay
BY PublishersAssumption DEF Delay

LEMMA TypeStep == IInv /\ [Next]_vars => TypeOK'
<1> SUFFICES ASSUME IInv, [Next]_vars PROVE TypeOK'
  OBVIOUS
<1> USE PublishersAssumption
<1>1. ASSUME NEW e \in Rows, Create(e) PROVE TypeOK'
  BY <1>1 DEF IInv, TypeOK, Create, batchVars, queueVars
<1>2. CASE Tick
  BY <1>2 DEF IInv, TypeOK, Tick, batchVars, queueVars
<1>3. ASSUME NEW p \in Publishers, Fetch(p) PROVE TypeOK'
  BY <1>3 DEF IInv, TypeOK, Fetch, tableVars, queueVars, Fetchable
<1>4. ASSUME NEW p \in Publishers, CommitBatch(p) PROVE TypeOK'
  <2>1. \A e \in failed[p] : attempts[e] + 1 \in 0 .. MaxAttempts
    BY DEF IInv, TypeOK, BatchInv
  <2>2. \A e \in Rows : Delay(attempts[e]) \in -MaxAge .. MaxDelay
    BY DelayType DEF IInv, TypeOK
  <2>3. attempts' \in [Rows -> 0 .. MaxAttempts] /\ dueIn' \in [Rows -> -MaxAge .. MaxDelay]
    BY <1>4, <2>1, <2>2 DEF IInv, TypeOK, CommitBatch
  <2> QED BY <1>4, <2>3 DEF IInv, TypeOK, CommitBatch, EndBatch, queueVars
<1>5. ASSUME NEW p \in Publishers, AbortBatch(p) PROVE TypeOK'
  BY <1>5 DEF IInv, TypeOK, AbortBatch, EndBatch, tableVars
<1>6. ASSUME NEW p \in Publishers, NEW e \in Rows, HandleRow(p, e) PROVE TypeOK'
  BY <1>6 DEF IInv, TypeOK, HandleRow, SkipExhausted, SendAndMark, RecordFailure, Handled,
              Accept, SendFails, tableVars, queueVars
<1>7. ASSUME NEW p \in Publishers, NEW e \in Rows, SendAndFailToMark(p, e) PROVE TypeOK'
  BY <1>7 DEF IInv, TypeOK, SendAndFailToMark, EndBatch, Accept, tableVars
<1>8. ASSUME NEW p \in Publishers, NEW e \in Rows, FailToRecord(p, e) PROVE TypeOK'
  BY <1>8 DEF IInv, TypeOK, FailToRecord, Handled, Accept, SendFails, tableVars, queueVars
<1>9. CASE UNCHANGED vars
  BY <1>9 DEF IInv, TypeOK, vars, tableVars, batchVars, queueVars
<1> QED
  BY <1>1, <1>2, <1>3, <1>4, <1>5, <1>6, <1>7, <1>8, <1>9
     DEF Next, Working, Failing, PublisherStep

\* What an action leaves unchanged of a batch it is not about.
LEMMA BatchStep == IInv /\ [Next]_vars => BatchInv'
<1> SUFFICES ASSUME IInv, [Next]_vars PROVE BatchInv'
  OBVIOUS
<1> USE PublishersAssumption DEF IInv, BatchInv, Held
<1>1. ASSUME NEW e \in Rows, Create(e) PROVE BatchInv'
  BY <1>1 DEF Create, batchVars
<1>2. CASE Tick
  BY <1>2 DEF Tick, batchVars
<1>3. ASSUME NEW p \in Publishers, Fetch(p) PROVE BatchInv'
  <2>1. PICK batch \in SUBSET Fetchable :
            /\ todo' = [todo EXCEPT ![p] = batch]
            /\ lockedBy' = [e \in Rows |-> IF e \in batch THEN p ELSE lockedBy[e]]
    BY <1>3 DEF Fetch
  <2>2. \A e \in batch : e \in stored \ published /\ e \in Rows /\ lockedBy[e] = Nobody
    BY <2>1 DEF Fetchable, TypeOK
  <2>3. \A q \in Publishers : \A e \in Held(q) : e \notin batch /\ e \in Rows
    BY <2>2 DEF TypeOK
  <2> QED BY <1>3, <2>1, <2>2, <2>3 DEF Fetch, tableVars, TypeOK
<1>4. ASSUME NEW p \in Publishers, CommitBatch(p) PROVE BatchInv'
  <2>1. \A q \in Publishers : q # p => \A e \in Held(q) :
            e \notin marked[p] /\ e \notin failed[p] /\ e \in Rows /\ lockedBy[e] # p
    BY DEF TypeOK
  <2>2. ASSUME NEW q \in Publishers, q # p
        PROVE  todo'[q] = todo[q] /\ marked'[q] = marked[q] /\ failed'[q] = failed[q]
               /\ publishing'[q] = publishing[q] /\ broken'[q] = broken[q]
    BY <1>4, <2>2 DEF CommitBatch, EndBatch, TypeOK
  <2>3. todo'[p] = {} /\ marked'[p] = {} /\ failed'[p] = {} /\ broken'[p] = FALSE
    BY <1>4 DEF CommitBatch, EndBatch, TypeOK
  <2>4. ASSUME NEW q \in Publishers, q # p, NEW e \in Held(q)
        PROVE  e \in stored' \ published' /\ lockedBy'[e] = q /\ attempts'[e] = attempts[e]
    BY <1>4, <2>1, <2>4 DEF CommitBatch, EndBatch, TypeOK
  <2> QED BY <2>2, <2>3, <2>4
<1>5. ASSUME NEW p \in Publishers, EndBatch(p), UNCHANGED tableVars PROVE BatchInv'
  <2>1. ASSUME NEW q \in Publishers, q # p
        PROVE  todo'[q] = todo[q] /\ marked'[q] = marked[q] /\ failed'[q] = failed[q]
               /\ publishing'[q] = publishing[q] /\ broken'[q] = broken[q]
    BY <1>5, <2>1 DEF EndBatch, TypeOK
  <2>2. todo'[p] = {} /\ marked'[p] = {} /\ failed'[p] = {} /\ broken'[p] = FALSE
    BY <1>5 DEF EndBatch, TypeOK
  <2>3. ASSUME NEW q \in Publishers, q # p, NEW e \in Held(q)
        PROVE  lockedBy'[e] = q
    BY <1>5, <2>3 DEF EndBatch, TypeOK
  <2> QED BY <1>5, <2>1, <2>2, <2>3 DEF tableVars
<1>6. ASSUME NEW p \in Publishers, NEW e \in Rows, HandleRow(p, e) PROVE BatchInv'
  <2>1. e \in todo[p] /\ publishing[p]
    BY <1>6 DEF HandleRow, SkipExhausted, SendAndMark, RecordFailure, First
  <2>2. CASE SkipExhausted(p, e)
    BY <2>1, <2>2 DEF SkipExhausted, Handled, TypeOK, tableVars
  <2>3. CASE SendAndMark(p, e)
    BY <2>1, <2>3 DEF SendAndMark, Handled, TypeOK, tableVars
  <2>4. CASE RecordFailure(p, e)
    BY <2>1, <2>4 DEF RecordFailure, Handled, Exhausted, TypeOK, tableVars
  <2> QED BY <1>6, <2>2, <2>3, <2>4 DEF HandleRow
<1>7. ASSUME NEW p \in Publishers, NEW e \in Rows, FailToRecord(p, e) PROVE BatchInv'
  <2>1. e \in todo[p] /\ publishing[p]
    BY <1>7 DEF FailToRecord, First
  <2> QED BY <1>7, <2>1 DEF FailToRecord, Handled, TypeOK, tableVars
<1>8. CASE UNCHANGED vars
  BY <1>8 DEF vars, tableVars, batchVars
<1> QED
  BY <1>1, <1>2, <1>3, <1>4, <1>5, <1>6, <1>7, <1>8
     DEF Next, Working, Failing, PublisherStep, AbortBatch, SendAndFailToMark

-----------------------------------------------------------------------------
(* What the queue accepted *)

\* The row that a batch sends again was sent by a batch that did not commit.
LEMMA ResentIsUncertain ==
  ASSUME IInv, NEW p \in Publishers, NEW e \in todo[p], e \in accepted
  PROVE  e \in uncertain
BY DEF IInv, SentInv, BatchInv, Held

LEMMA SentStep == IInv /\ [Next]_vars => SentInv'
<1> SUFFICES ASSUME IInv, [Next]_vars PROVE SentInv'
  OBVIOUS
<1> USE PublishersAssumption DEF SentInv
<1>a. SentInv /\ TypeOK
  BY DEF IInv
<1>1. ASSUME NEW e \in Rows, Create(e) PROVE SentInv'
  BY <1>a, <1>1 DEF Create, batchVars, queueVars
<1>2. CASE Tick
  BY <1>a, <1>2 DEF Tick, batchVars, queueVars
<1>3. ASSUME NEW p \in Publishers, Fetch(p) PROVE SentInv'
  BY <1>a, <1>3 DEF Fetch, tableVars, queueVars
<1>4. ASSUME NEW p \in Publishers, CommitBatch(p) PROVE SentInv'
  <2>1. marked[p] \subseteq stored
    BY DEF IInv, BatchInv, Held
  <2> QED BY <1>a, <1>4, <2>1 DEF CommitBatch, EndBatch, queueVars, TypeOK
<1>5. ASSUME NEW p \in Publishers, AbortBatch(p) PROVE SentInv'
  BY <1>a, <1>5 DEF AbortBatch, EndBatch, tableVars, TypeOK
<1>6. ASSUME NEW p \in Publishers, NEW e \in Rows, First(p, e), e \in accepted
      PROVE  e \in uncertain
  BY <1>6, ResentIsUncertain DEF First
<1>7. ASSUME NEW p \in Publishers, NEW e \in Rows, SkipExhausted(p, e) PROVE SentInv'
  BY <1>a, <1>7 DEF SkipExhausted, tableVars, queueVars
<1>8. ASSUME NEW p \in Publishers, NEW e \in Rows, SendAndMark(p, e) PROVE SentInv'
  BY <1>a, <1>6, <1>8 DEF SendAndMark, Accept, tableVars, TypeOK
<1>9. ASSUME NEW p \in Publishers, NEW e \in Rows, RecordFailure(p, e) PROVE SentInv'
  BY <1>a, <1>6, <1>9 DEF RecordFailure, SendFails, Accept, tableVars, queueVars
<1>10. ASSUME NEW p \in Publishers, NEW e \in Rows, FailToRecord(p, e) PROVE SentInv'
  BY <1>a, <1>6, <1>10 DEF FailToRecord, SendFails, Accept, tableVars, queueVars
<1>11. ASSUME NEW p \in Publishers, NEW e \in Rows, SendAndFailToMark(p, e) PROVE SentInv'
  BY <1>a, <1>6, <1>11 DEF SendAndFailToMark, EndBatch, Accept, tableVars, TypeOK
<1>12. CASE UNCHANGED vars
  BY <1>a, <1>12 DEF vars, tableVars, batchVars, queueVars
<1> QED
  BY <1>1, <1>2, <1>3, <1>4, <1>5, <1>7, <1>8, <1>9, <1>10, <1>11, <1>12
     DEF Next, Working, Failing, PublisherStep, HandleRow

\* The inductive invariant: types, what a transaction holds, and what was sent.
THEOREM PublisherInvariant == Spec => []IInv
<1>1. IInv /\ [Next]_vars => IInv'
  BY TypeStep, BatchStep, SentStep DEF IInv
<1> QED BY <1>1, InitIInv, PTL DEF Spec

-----------------------------------------------------------------------------
(* The promises *)

\* Type correctness, with attempts within MaxAttempts and delays within the cap
\* (worker.go:137-176).
THEOREM PublisherTypes == Spec => []TypeOK
<1>1. IInv => TypeOK
  BY DEF IInv
<1> QED BY <1>1, PublisherInvariant, PTL

\* Two publishers never handle one row at the same time (outbox_repo.go:57-67).
THEOREM OneSenderAtATime == Spec => []OneSender
<1>1. IInv => OneSender
  BY HeldAlone DEF IInv, OneSender, Held
<1> QED BY <1>1, PublisherInvariant, PTL

\* Only an interruption makes a publisher send an accepted row again (worker.go:126-206).
THEOREM RepetitionsAreExplained == Spec => []RepetitionNeedsInterruption
<1>1. IInv => RepetitionNeedsInterruption
  BY DEF IInv, SentInv, RepetitionNeedsInterruption
<1> QED BY <1>1, PublisherInvariant, PTL

-----------------------------------------------------------------------------
(* The refinement *)

\* Each step of the publishers submits, delivers or acknowledges, or is a stutter.
LEMMA PublisherStepImplements ==
  IInv /\ [Next]_vars => [EventDelivery!Next]_EventDelivery!deliveryVars
<1> SUFFICES ASSUME IInv, [Next]_vars
             PROVE  [EventDelivery!Next]_EventDelivery!deliveryVars
  OBVIOUS
<1> DEFINE Stutter == UNCHANGED EventDelivery!deliveryVars
<1> USE DEF EventDelivery!deliveryVars
<1>1. ASSUME NEW e \in Rows, Create(e) PROVE EventDelivery!Submit(e)
  BY <1>1 DEF Create, queueVars, EventDelivery!Submit, IInv, SentInv, BatchInv, TypeOK
<1>2. CASE Tick
  <2> Stutter BY <1>2 DEF Tick, queueVars
  <2> QED OBVIOUS
<1>3. ASSUME NEW p \in Publishers, Fetch(p) PROVE Stutter
  BY <1>3 DEF Fetch, tableVars, queueVars
<1>4. ASSUME NEW p \in Publishers, CommitBatch(p) PROVE EventDelivery!Acknowledge(marked[p])
  BY <1>4 DEF CommitBatch, queueVars, EventDelivery!Acknowledge, IInv, SentInv, BatchInv, Held
<1>5. ASSUME NEW p \in Publishers, AbortBatch(p) PROVE Stutter
  BY <1>5 DEF AbortBatch, tableVars
<1>6. ASSUME NEW p \in Publishers, NEW e \in Rows, First(p, e), UNCHANGED tableVars,
             Accept(e) \/ UNCHANGED queueVars
      PROVE  EventDelivery!Deliver(e) \/ Stutter
  BY <1>6 DEF First, Accept, tableVars, queueVars, EventDelivery!Deliver, IInv, BatchInv, Held
<1>7. ASSUME NEW p \in Publishers, NEW e \in Rows,
             HandleRow(p, e) \/ SendAndFailToMark(p, e) \/ FailToRecord(p, e)
      PROVE  EventDelivery!Deliver(e) \/ Stutter
  <2>1. First(p, e) /\ UNCHANGED tableVars /\ (Accept(e) \/ UNCHANGED queueVars)
    BY <1>7 DEF HandleRow, SkipExhausted, SendAndMark, RecordFailure, SendAndFailToMark,
                FailToRecord, SendFails
  <2> QED BY <1>6, <2>1
<1>8. CASE UNCHANGED vars
  BY <1>8 DEF vars, tableVars, queueVars
<1>9. \A p \in Publishers : marked[p] \in SUBSET Rows
  BY DEF IInv, TypeOK
<1> QED
  BY <1>1, <1>2, <1>3, <1>4, <1>5, <1>7, <1>8, <1>9
     DEF Next, Working, Failing, PublisherStep, EventDelivery!Next

\* The publishers implement at-least-once delivery that stops with the acknowledgement
\* (worker.go:125-206).
THEOREM PublisherImplementsDelivery == Spec => ImplementsEventDelivery
<1>1. Init => EventDelivery!Init
  BY DEF Init, EventDelivery!Init
<1>2. IInv /\ [Next]_vars => [EventDelivery!Next]_EventDelivery!deliveryVars
  BY PublisherStepImplements
<1> QED
  BY <1>1, <1>2, PublisherInvariant, PTL DEF Spec, ImplementsEventDelivery, EventDelivery!Spec

=============================================================================
