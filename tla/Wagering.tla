------------------------------ MODULE Wagering ------------------------------
(***************************************************************************)
(* The wager service over one database: wallets are opened, handlers       *)
(* accept operations and retriers settle the reversals that came before    *)
(* the operation they reverse.                                             *)
(***************************************************************************)
EXTENDS OpenWallet, ProcessWager, RetryPendingReferences

ASSUME ProcessesAssumption == Handlers \cap Retriers = {}

vars == <<storeVars, handlerVars, retrierVars>>

Init == StoreInit /\ HandlerInit /\ RetrierInit

Opening(o) == OpenWallet(o) /\ UNCHANGED <<handlerVars, retrierVars>>

Handling(h) ==
    /\ (\E q \in Requests : Receive(h, q) \/ RefuseOpening(h, q)) \/ HandlerStep(h)
    /\ UNCHANGED retrierVars

Retrying(r) == RetrierStep(r) /\ UNCHANGED handlerVars

Working ==
    \/ \E o \in Openings : Opening(o)
    \/ \E h \in Handlers : Handling(h)
    \/ \E r \in Retriers : Retrying(r)

\* A transaction rolls back or a process dies.
Failing ==
    \/ \E h \in Handlers : AbortHandler(h) /\ UNCHANGED retrierVars
    \/ \E r \in Retriers : (AbortItem(r) \/ CrashRetrier(r)) /\ UNCHANGED handlerVars

Next == Working \/ Failing

Spec == Init /\ [][Next]_vars

TypeOK == StoreTypeOK /\ HandlerTypeOK /\ RetrierTypeOK

-----------------------------------------------------------------------------
(* Fairness *)

\* Executing goroutines go on, and PostgreSQL serves the waiters of a row lock in turn:
\* hence strong fairness of a step that waits for a lock.
Progress ==
    /\ \A h \in Handlers : SF_vars(HandlerStep(h) /\ UNCHANGED retrierVars)
    /\ \A r \in Retriers : SF_vars(HandleItem(r) /\ UNCHANGED handlerVars)

\* The keys of the requests that may have to wait.
ReversalKeys == {q.key : q \in {r \in Requests : RequiresReference(r.op.kind)}}

\* The worker's ticker keeps firing and a due row is in some batch: the rows that are due
\* fit the batch's limit.
EveryRowIsFetched ==
    \A r \in Retriers, k \in ReversalKeys :
        SF_vars(FetchBatch(r) /\ (\E c \in batch'[r] : c.row.key = k) /\ UNCHANGED handlerVars)

\* Transactions stop failing from some point on.
FairSpec == Spec /\ Progress /\ EveryRowIsFetched /\ <>[][Working]_vars

=============================================================================
