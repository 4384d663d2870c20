--------------------------- MODULE EventDelivery ---------------------------
(***************************************************************************)
(* What the transactional outbox promises, without publishers, batches or  *)
(* locks: an event that a use case committed stays pending until a queue   *)
(* that accepted it is known to have done so.  It may be delivered several *)
(* times while it is pending and never afterwards.                         *)
(***************************************************************************)
CONSTANT Rows         \* the outbox rows use cases may commit

VARIABLES
    pending,          \* committed and not yet acknowledged
    delivered,        \* accepted by the queue at least once
    acknowledged      \* recorded as published

deliveryVars == <<pending, delivered, acknowledged>>

Init == pending = {} /\ delivered = {} /\ acknowledged = {}

Submit(e) ==
    /\ e \notin pending \cup acknowledged
    /\ pending' = pending \cup {e}
    /\ UNCHANGED <<delivered, acknowledged>>

Deliver(e) ==
    /\ e \in pending
    /\ delivered' = delivered \cup {e}
    /\ UNCHANGED <<pending, acknowledged>>

Acknowledge(batch) ==
    /\ batch \subseteq pending \cap delivered
    /\ pending' = pending \ batch
    /\ acknowledged' = acknowledged \cup batch
    /\ UNCHANGED delivered

Next ==
    \/ \E e \in Rows : Submit(e) \/ Deliver(e)
    \/ \E batch \in SUBSET Rows : Acknowledge(batch)

Spec == Init /\ [][Next]_deliveryVars

=============================================================================
