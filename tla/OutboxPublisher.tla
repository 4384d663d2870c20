-------------------------- MODULE OutboxPublisher --------------------------
(***************************************************************************)
(* The outbox workers of the service's instances.  A worker's batch is one *)
(* transaction: it locks due rows that nobody else has locked, sends each  *)
(* to the events queue (SQS FIFO, outside the transaction) and commits     *)
(* what became of them.  A batch that does not commit leaves its rows as   *)
(* they were, the sent ones included.                                      *)
(*                                                                         *)
(* Time is the number of ticks until a row is due: dueIn, 0 or less when   *)
(* it is due, counted down to -MaxAge.  Rows of one age are in any order.  *)
(***************************************************************************)
EXTENDS Integers, FiniteSets

CONSTANTS
    Rows,          \* the outbox rows use cases may commit
    Publishers,    \* the goroutines that run ProcessBatch
    Nobody,        \* the holder of a row that is not locked
    BatchSize,     \* LIMIT of the fetch
    MaxAttempts,   \* attempts at which a row is skipped
    MaxDelay,      \* cap of the backoff, in ticks
    MaxAge         \* age from which waiting longer makes no difference

ASSUME PublishersAssumption ==
    /\ Nobody \notin Publishers
    /\ BatchSize \in Nat \ {0} /\ MaxAttempts \in Nat \ {0}
    /\ MaxDelay \in Nat \ {0} /\ MaxAge \in Nat

VARIABLES
    stored,        \* committed rows
    published,     \* rows whose published_at is set
    attempts,      \* row -> its committed attempts
    dueIn,         \* row -> ticks until next_attempt_at
    lockedBy,      \* row -> the publisher whose transaction locked it
    publishing,    \* publisher -> whether it is in a batch
    todo,          \* publisher -> rows of the batch it has still to handle
    marked,        \* publisher -> rows it marked as published, uncommitted
    failed,        \* publisher -> rows it recorded a failure of, uncommitted
    broken,        \* publisher -> whether a statement of its transaction failed
    accepted,      \* rows the events queue accepted
    repeated,      \* rows the events queue accepted more than once
    uncertain      \* rows sent without a commit that records it (history variable)

tableVars == <<stored, published, attempts, dueIn>>
batchVars == <<lockedBy, publishing, todo, marked, failed, broken>>
queueVars == <<accepted, repeated, uncertain>>
vars == <<tableVars, batchVars, queueVars>>

Init ==
    /\ stored = {} /\ published = {}
    /\ attempts = [e \in Rows |-> 0]
    /\ dueIn = [e \in Rows |-> 0]
    /\ lockedBy = [e \in Rows |-> Nobody]
    /\ publishing = [p \in Publishers |-> FALSE]
    /\ todo = [p \in Publishers |-> {}]
    /\ marked = [p \in Publishers |-> {}]
    /\ failed = [p \in Publishers |-> {}]
    /\ broken = [p \in Publishers |-> FALSE]
    /\ accepted = {} /\ repeated = {} /\ uncertain = {}

TypeOK ==
    /\ stored \subseteq Rows /\ published \subseteq Rows
    /\ attempts \in [Rows -> 0 .. MaxAttempts]
    /\ dueIn \in [Rows -> -MaxAge .. MaxDelay]
    /\ lockedBy \in [Rows -> Publishers \cup {Nobody}]
    /\ publishing \in [Publishers -> BOOLEAN]
    /\ todo \in [Publishers -> SUBSET Rows]
    /\ marked \in [Publishers -> SUBSET Rows]
    /\ failed \in [Publishers -> SUBSET Rows]
    /\ broken \in [Publishers -> BOOLEAN]
    /\ accepted \subseteq Rows /\ repeated \subseteq Rows /\ uncertain \subseteq Rows

-----------------------------------------------------------------------------
(* The table *)

\* A use case commits a new row, due at once.
Create(e) ==
    /\ e \notin stored
    /\ stored' = stored \cup {e}
    /\ dueIn' = [dueIn EXCEPT ![e] = 0]
    /\ UNCHANGED <<published, attempts, batchVars, queueVars>>

Tick ==
    /\ \E e \in stored \ published : dueIn[e] > -MaxAge
    /\ dueIn' = [e \in Rows |-> IF e \in stored \ published /\ dueIn[e] > -MaxAge
                                THEN dueIn[e] - 1 ELSE dueIn[e]]
    /\ UNCHANGED <<stored, published, attempts, batchVars, queueVars>>

\* Mutant of Fetchable: rows that another publisher has locked are read as well.
FetchableLocked == {e \in stored \ published : dueIn[e] <= 0}

\* WHERE published_at IS NULL AND next_attempt_at <= NOW() ... SKIP LOCKED
Fetchable == {e \in stored \ published : dueIn[e] <= 0 /\ lockedBy[e] = Nobody}

\* ORDER BY next_attempt_at LIMIT BatchSize
FetchPendingForPublish(batch) ==
    /\ batch \subseteq Fetchable
    /\ \/ Cardinality(batch) = BatchSize
       \/ batch = Fetchable /\ Cardinality(batch) < BatchSize
    /\ \A e \in batch, d \in Fetchable \ batch : dueIn[e] <= dueIn[d]

\* Doubled with every attempt, up to the cap.
Delay(n) == IF 2 ^ n \in 1 .. MaxDelay THEN 2 ^ n ELSE MaxDelay

\* Mutant of Exhausted: one attempt more.
ExhaustedLate(e) == attempts[e] > MaxAttempts

Exhausted(e) == attempts[e] >= MaxAttempts

\* The transaction ends: its locks are released and what it did not commit is gone.
EndBatch(p) ==
    /\ lockedBy' = [e \in Rows |-> IF lockedBy[e] = p THEN Nobody ELSE lockedBy[e]]
    /\ publishing' = [publishing EXCEPT ![p] = FALSE]
    /\ todo' = [todo EXCEPT ![p] = {}]
    /\ marked' = [marked EXCEPT ![p] = {}]
    /\ failed' = [failed EXCEPT ![p] = {}]
    /\ broken' = [broken EXCEPT ![p] = FALSE]

\* The queue drops a repetition within its deduplication window and accepts a later one.
Accept(e) ==
    /\ accepted' = accepted \cup {e}
    /\ \/ UNCHANGED repeated
       \/ e \in accepted /\ repeated' = repeated \cup {e}

-----------------------------------------------------------------------------
(* ProcessBatch *)

Fetch(p) ==
    /\ ~publishing[p]
    /\ \E batch \in SUBSET Fetchable :
          /\ batch # {}
          /\ FetchPendingForPublish(batch)
          /\ todo' = [todo EXCEPT ![p] = batch]
          /\ lockedBy' = [e \in Rows |-> IF e \in batch THEN p ELSE lockedBy[e]]
    /\ publishing' = [publishing EXCEPT ![p] = TRUE]
    /\ UNCHANGED <<tableVars, marked, failed, broken, queueVars>>

\* The rows of a batch are handled in the order of the query.
First(p, e) == e \in todo[p] /\ \A d \in todo[p] : dueIn[e] <= dueIn[d]

Handled(p, e) == todo' = [todo EXCEPT ![p] = @ \ {e}]

SkipExhausted(p, e) ==
    /\ First(p, e) /\ Exhausted(e)
    /\ Handled(p, e)
    /\ UNCHANGED <<tableVars, lockedBy, publishing, marked, failed, broken, queueVars>>

\* Mutant of SendAndMark: the row is marked before it is sent.
SendAndMarkUnsent(p, e) ==
    /\ First(p, e) /\ ~Exhausted(e) /\ ~broken[p]
    /\ marked' = [marked EXCEPT ![p] = @ \cup {e}]
    /\ Handled(p, e)
    /\ UNCHANGED <<tableVars, lockedBy, publishing, failed, broken, queueVars>>

SendAndMark(p, e) ==
    /\ First(p, e) /\ ~Exhausted(e) /\ ~broken[p]
    /\ Accept(e)
    /\ marked' = [marked EXCEPT ![p] = @ \cup {e}]
    /\ Handled(p, e)
    /\ UNCHANGED <<tableVars, lockedBy, publishing, failed, broken, uncertain>>

\* The row is accepted and MarkPublished fails: the whole batch rolls back.
SendAndFailToMark(p, e) ==
    /\ First(p, e) /\ ~Exhausted(e)
    /\ Accept(e)
    /\ uncertain' = uncertain \cup marked[p] \cup {e}
    /\ EndBatch(p)
    /\ UNCHANGED tableVars

\* The send returns an error, after the queue accepted the row or before.
SendFails(e) ==
    \/ UNCHANGED queueVars
    \/ Accept(e) /\ uncertain' = uncertain \cup {e}

\* Mutant of RecordFailure: the attempt is not counted.
RecordFailureUncounted(p, e) ==
    /\ First(p, e) /\ ~Exhausted(e) /\ ~broken[p]
    /\ SendFails(e)
    /\ Handled(p, e)
    /\ UNCHANGED <<tableVars, lockedBy, publishing, marked, failed, broken>>

RecordFailure(p, e) ==
    /\ First(p, e) /\ ~Exhausted(e) /\ ~broken[p]
    /\ SendFails(e)
    /\ failed' = [failed EXCEPT ![p] = @ \cup {e}]
    /\ Handled(p, e)
    /\ UNCHANGED <<tableVars, lockedBy, publishing, marked, broken>>

\* The error of RecordFailure is ignored; PostgreSQL fails every statement from here on.
FailToRecord(p, e) ==
    /\ First(p, e) /\ ~Exhausted(e)
    /\ SendFails(e)
    /\ broken' = [broken EXCEPT ![p] = TRUE]
    /\ Handled(p, e)
    /\ UNCHANGED <<tableVars, lockedBy, publishing, marked, failed>>

\* Mutant of CommitBatch: a failure in the batch loses the marks of its other rows.
CommitBatchNoMarks(p) ==
    /\ publishing[p] /\ todo[p] = {} /\ ~broken[p]
    /\ published' = IF failed[p] = {} THEN published \cup marked[p] ELSE published
    /\ attempts' = [e \in Rows |-> IF e \in failed[p] THEN attempts[e] + 1 ELSE attempts[e]]
    /\ dueIn' = [e \in Rows |-> IF e \in failed[p] THEN Delay(attempts[e]) ELSE dueIn[e]]
    /\ EndBatch(p)
    /\ UNCHANGED <<stored, queueVars>>

\* The backoff of a failed row follows from the attempts the batch read.
CommitBatch(p) ==
    /\ publishing[p] /\ todo[p] = {} /\ ~broken[p]
    /\ published' = published \cup marked[p]
    /\ attempts' = [e \in Rows |-> IF e \in failed[p] THEN attempts[e] + 1 ELSE attempts[e]]
    /\ dueIn' = [e \in Rows |-> IF e \in failed[p] THEN Delay(attempts[e]) ELSE dueIn[e]]
    /\ EndBatch(p)
    /\ UNCHANGED <<stored, queueVars>>

\* The commit of a broken transaction is a rollback; a connection is lost; a process dies.
AbortBatch(p) ==
    /\ publishing[p]
    /\ uncertain' = uncertain \cup marked[p]
    /\ EndBatch(p)
    /\ UNCHANGED <<tableVars, accepted, repeated>>

HandleRow(p, e) == SkipExhausted(p, e) \/ SendAndMark(p, e) \/ RecordFailure(p, e)

PublisherStep(p) == Fetch(p) \/ CommitBatch(p) \/ \E e \in Rows : HandleRow(p, e)

Working == Tick \/ (\E e \in Rows : Create(e)) \/ \E p \in Publishers : PublisherStep(p)

Failing ==
    \E p \in Publishers :
        AbortBatch(p) \/ \E e \in Rows : SendAndFailToMark(p, e) \/ FailToRecord(p, e)

Next == Working \/ Failing

Spec == Init /\ [][Next]_vars

\* The workers' tickers keep firing and time passes; transactions stop failing at some
\* point, sends may go on failing.
FairSpec ==
    /\ Spec
    /\ WF_vars(Tick)
    /\ \A p \in Publishers : WF_vars(PublisherStep(p)) /\ WF_vars(broken[p] /\ AbortBatch(p))
    /\ <>[][Working \/ \E p \in Publishers : broken[p] /\ AbortBatch(p)]_vars

-----------------------------------------------------------------------------
(* Properties *)

\* No row is in the batches of two publishers, which would send it twice at once
\* (outbox_repo.go:57-67, ARCHITECTURE.md:217).
OneSender ==
    \A p, q \in Publishers :
        p # q => (todo[p] \cup marked[p] \cup failed[p])
                     \cap (todo[q] \cup marked[q] \cup failed[q]) = {}

\* The queue accepts a row twice only if a batch that sent it was interrupted before its
\* commit or the first answer was an error: undisturbed publishers send once
\* (worker.go:126-206).
RepetitionNeedsInterruption == repeated \subseteq uncertain

EventDelivery ==
    INSTANCE EventDelivery WITH pending <- stored \ published, delivered <- accepted,
                                acknowledged <- published

\* Whatever the publishers do and whenever they die, events are delivered at least once
\* and never after they were recorded as published (worker.go:125-206).
ImplementsEventDelivery == EventDelivery!Spec

\* Every committed row is published, or given up after MaxAttempts failures, unless rows
\* that were given up fill the batches: they stay first in the order of the query
\* (worker.go:137-146, outbox_repo.go:57-67).
EveryRowSettles ==
    \A e \in Rows :
        e \in stored ~> \/ e \in published \/ Exhausted(e)
                        \/ Cardinality({d \in Rows : Exhausted(d)}) >= BatchSize

=============================================================================
