----------------------------- MODULE SqsConsumer -----------------------------
(***************************************************************************)
(* The SQS consumers of the service's instances, one poll loop each, on    *)
(* the FIFO queue of wager requests.  A consumer receives a batch, passes  *)
(* its messages one by one to ProcessWager's Execute and deletes a message *)
(* or makes it visible again, by what Execute returned.                    *)
(*                                                                         *)
(* Execute is one step here, its commit; its statements are ProcessWager's *)
(* module.  The queue is external: it hides a received message for the     *)
(* visibility timeout, counts its receptions and moves it to the           *)
(* dead-letter queue when they are used up.  A message is its position.    *)
(***************************************************************************)
EXTENDS Integers, Sequences, FiniteSets

CONSTANTS
    Consumers,    \* the instances
    Stoppable,    \* those that are shut down at some time; all may crash
    Nobody,       \* the receiver of a message never received
    None,         \* the key of a message that is no wager request; no payload
    Groups,       \* message groups: wallets
    Keys,         \* idempotency keys, each with its external id
    Payloads,     \* what a request asks for
    Refused,      \* payloads that get a terminal error: an opening, no such wallet, ...
    Unsupported,  \* payloads that get any other error: a rollback of a loss, ...
    Queues,       \* the queues there may be
    MaxMessages,  \* messages of one reception
    MaxReceives   \* maxReceiveCount of the redrive policy

Envelopes == [group : Groups, key : Keys \cup {None}, payload : Payloads]

ASSUME ConsumerAssumption ==
    /\ Nobody \notin Consumers /\ Stoppable \subseteq Consumers
    /\ None \notin Keys /\ None \notin Payloads
    /\ Queues \subseteq Seq(Envelopes)
    /\ MaxMessages \in Nat \ {0} /\ MaxReceives \in Nat \ {0}

VARIABLES
    queue,        \* the messages that were sent, in order
    place,        \* message -> where it is
    receives,     \* message -> how often it was received
    receipt,      \* message -> the consumer that received it last
    recorded,     \* key -> the payload of its committed transaction, or None
    loop,         \* consumer -> the next step of its poll loop
    held,         \* consumer -> the messages of its batch it has still to settle
    current,      \* consumer -> the message it executes, 0 for none
    outcome,      \* consumer -> what Execute returned
    service,      \* consumer -> whether its instance shuts down
    attempted     \* messages that some consumer turned to (history variable)

queueVars == <<queue, place, receives, receipt>>
loopVars == <<loop, held, current, outcome>>
vars == <<queueVars, recorded, loopVars, service, attempted>>

Sent == DOMAIN queue

Init ==
    /\ queue \in Queues
    /\ place = [n \in Sent |-> "visible"]
    /\ receives = [n \in Sent |-> 0]
    /\ receipt = [n \in Sent |-> Nobody]
    /\ recorded = [k \in Keys |-> None]
    /\ loop = [c \in Consumers |-> "ready"]
    /\ held = [c \in Consumers |-> {}]
    /\ current = [c \in Consumers |-> 0]
    /\ outcome = [c \in Consumers |-> "none"]
    /\ service = [c \in Consumers |-> "up"]
    /\ attempted = {}

TypeOK ==
    /\ queue \in Queues
    /\ place \in [Sent -> {"visible", "hidden", "deleted", "dead"}]
    /\ receives \in [Sent -> 0 .. MaxReceives]
    /\ receipt \in [Sent -> Consumers \cup {Nobody}]
    /\ recorded \in [Keys -> Payloads \cup {None}]
    /\ loop \in [Consumers -> {"ready", "polling", "handling", "executing", "exited"}]
    /\ held \in [Consumers -> SUBSET Sent]
    /\ current \in [Consumers -> Sent \cup {0}]
    /\ outcome \in [Consumers -> {"none", "answered", "refused", "failed"}]
    /\ service \in [Consumers -> {"up", "stopping"}]
    /\ attempted \subseteq Sent

-----------------------------------------------------------------------------
(* The queue *)

Gone(n) == place[n] \in {"deleted", "dead"}

EarlierInGroup(n) == {m \in Sent : m < n /\ queue[m].group = queue[n].group}

\* Mutant of Deliverable: the queue has no redrive policy.
DeliverableForever(batch) ==
    /\ batch # {} /\ Cardinality(batch) <= MaxMessages
    /\ \A n \in batch :
          /\ place[n] = "visible"
          /\ \A m \in EarlierInGroup(n) : Gone(m) \/ m \in batch

\* FIFO: a message is received with or after the ones before it in its group.
Deliverable(batch) ==
    /\ batch # {} /\ Cardinality(batch) <= MaxMessages
    /\ \A n \in batch :
          /\ place[n] = "visible" /\ receives[n] < MaxReceives
          /\ \A m \in EarlierInGroup(n) : Gone(m) \/ m \in batch

\* The visibility timeout of a message ends.
Expire(n) ==
    /\ place[n] = "hidden"
    /\ place' = [place EXCEPT ![n] = "visible"]
    /\ UNCHANGED <<queue, receives, receipt, recorded, loopVars, service, attempted>>

Redrive(n) ==
    /\ place[n] = "visible" /\ receives[n] = MaxReceives
    /\ place' = [place EXCEPT ![n] = "dead"]
    /\ UNCHANGED <<queue, receives, receipt, recorded, loopVars, service, attempted>>

\* A call fails, which is only logged, or uses a handle; only the last reception's works.
WithHandle(c, n, to) ==
    \/ UNCHANGED place
    \/ ~Gone(n) /\ receipt[n] = c /\ place' = [place EXCEPT ![n] = to]

deleteMessage(c, n) == WithHandle(c, n, "deleted")

releaseVisibility(c, n) == WithHandle(c, n, "visible")

-----------------------------------------------------------------------------
(* pollLoop *)

Poll(c) ==
    /\ loop[c] = "ready" /\ service[c] = "up"
    /\ loop' = [loop EXCEPT ![c] = "polling"]
    /\ UNCHANGED <<queueVars, recorded, held, current, outcome, service, attempted>>

LeaveLoop(c) ==
    /\ loop[c] = "ready" /\ service[c] # "up"
    /\ loop' = [loop EXCEPT ![c] = "exited"]
    /\ UNCHANGED <<queueVars, recorded, held, current, outcome, service, attempted>>

\* The long poll ends without messages or, while stopping too, with an error.
ReceiveNothing(c) ==
    /\ loop[c] = "polling"
    /\ loop' = [loop EXCEPT ![c] = "ready"]
    /\ UNCHANGED <<queueVars, recorded, held, current, outcome, service, attempted>>

\* A long poll that began before Stop may still bring messages, which are handled.
ReceiveMessages(c, batch) ==
    /\ loop[c] = "polling"
    /\ Deliverable(batch)
    /\ loop' = [loop EXCEPT ![c] = "handling"]
    /\ held' = [held EXCEPT ![c] = batch]
    /\ place' = [n \in Sent |-> IF n \in batch THEN "hidden" ELSE place[n]]
    /\ receives' = [n \in Sent |-> IF n \in batch THEN receives[n] + 1 ELSE receives[n]]
    /\ receipt' = [n \in Sent |-> IF n \in batch THEN c ELSE receipt[n]]
    /\ UNCHANGED <<queue, recorded, current, outcome, service, attempted>>

-----------------------------------------------------------------------------
(* handleMessage *)

\* Mutant of TurnTo: the messages of a batch are handled in any order.
TurnToAny(c, n) ==
    /\ loop[c] = "handling"
    /\ n \in held[c]
    /\ attempted' = attempted \cup {n}

\* The messages of a group are in order in the batch.
TurnTo(c, n) ==
    /\ loop[c] = "handling"
    /\ n \in held[c] /\ EarlierInGroup(n) \cap held[c] = {}
    /\ attempted' = attempted \cup {n}

\* Mutant of Done: a failure ends the loop.
DoneUnlessFailed(c, n) ==
    /\ held' = [held EXCEPT ![c] = @ \ {n}]
    /\ loop' = [loop EXCEPT ![c] = IF outcome[c] = "failed" THEN "exited"
                                   ELSE IF held[c] = {n} THEN "ready" ELSE "handling"]
    /\ current' = [current EXCEPT ![c] = 0]
    /\ outcome' = [outcome EXCEPT ![c] = "none"]

\* The loop goes on with the batch, whatever became of the message.
Done(c, n) ==
    /\ held' = [held EXCEPT ![c] = @ \ {n}]
    /\ loop' = [loop EXCEPT ![c] = IF held[c] = {n} THEN "ready" ELSE "handling"]
    /\ current' = [current EXCEPT ![c] = 0]
    /\ outcome' = [outcome EXCEPT ![c] = "none"]

DropPoison(c, n) ==
    /\ TurnTo(c, n)
    /\ queue[n].key = None
    /\ deleteMessage(c, n)
    /\ Done(c, n)
    /\ UNCHANGED <<queue, receives, receipt, recorded, service>>

Execute(c, n) ==
    /\ TurnTo(c, n)
    /\ queue[n].key # None
    /\ loop' = [loop EXCEPT ![c] = "executing"]
    /\ current' = [current EXCEPT ![c] = n]
    /\ UNCHANGED <<queueVars, recorded, held, outcome, service>>

InExecute(c) == loop[c] = "executing" /\ outcome[c] = "none"

Request(c) == queue[current[c]]

Conflicts(q) == recorded[q.key] \notin {None, q.payload}

MayCommit(q) == q.payload \notin Refused \cup Unsupported /\ ~Conflicts(q)

Record(q) == recorded' = [recorded EXCEPT ![q.key] = q.payload]

Return(c, result) ==
    /\ outcome' = [outcome EXCEPT ![c] = result]
    /\ UNCHANGED <<queueVars, loop, held, current, service, attempted>>

\* A decision is committed, or was by an earlier delivery and is replayed.
ExecuteCommits(c) ==
    /\ InExecute(c)
    /\ MayCommit(Request(c))
    /\ Record(Request(c))
    /\ Return(c, "answered")

\* PAYLOAD_CONFLICT, OPENING_FORBIDDEN, WALLET_NOT_FOUND, INVALID_INPUT
ExecuteRefuses(c) ==
    /\ InExecute(c)
    /\ Request(c).payload \in Refused \/ Conflicts(Request(c))
    /\ Return(c, "refused")
    /\ UNCHANGED recorded

\* Any other error: the transaction rolled back, the pool is closed by the shutdown, or the
\* answer of the commit was lost.
ExecuteFails(c) ==
    /\ InExecute(c)
    /\ UNCHANGED recorded \/ (MayCommit(Request(c)) /\ Record(Request(c)))
    /\ Return(c, "failed")

\* Mutant of Settle: what Execute returned is not looked at.
SettleUnseen(c) ==
    /\ loop[c] = "executing" /\ outcome[c] # "none"
    /\ deleteMessage(c, current[c])
    /\ Done(c, current[c])
    /\ UNCHANGED <<queue, receives, receipt, recorded, service, attempted>>

Settle(c) ==
    /\ loop[c] = "executing" /\ outcome[c] # "none"
    /\ IF outcome[c] = "failed" THEN releaseVisibility(c, current[c])
                                ELSE deleteMessage(c, current[c])
    /\ Done(c, current[c])
    /\ UNCHANGED <<queue, receives, receipt, recorded, service, attempted>>

-----------------------------------------------------------------------------
(* The life of an instance *)

\* OnStop: it waits for the loop's end, at most until its deadline.
Stop(c) ==
    /\ c \in Stoppable /\ service[c] = "up"
    /\ service' = [service EXCEPT ![c] = "stopping"]
    /\ UNCHANGED <<queueVars, recorded, loopVars, attempted>>

\* The process ends, in a crash or after a shutdown, and another takes its place.  It
\* leaves its messages hidden.
Replace(c) ==
    /\ loop' = [loop EXCEPT ![c] = "ready"]
    /\ held' = [held EXCEPT ![c] = {}]
    /\ current' = [current EXCEPT ![c] = 0]
    /\ outcome' = [outcome EXCEPT ![c] = "none"]
    /\ service' = [service EXCEPT ![c] = "up"]
    /\ UNCHANGED <<queueVars, recorded, attempted>>

LoopStep(c) ==
    \/ Poll(c) \/ LeaveLoop(c)
    \/ \E n \in Sent : DropPoison(c, n) \/ Execute(c, n)
    \/ ExecuteCommits(c) \/ ExecuteRefuses(c) \/ ExecuteFails(c)
    \/ Settle(c)

Next ==
    \/ \E n \in Sent : Expire(n) \/ Redrive(n)
    \/ \E c \in Consumers :
          \/ LoopStep(c) \/ ReceiveNothing(c) \/ Stop(c) \/ Replace(c)
          \/ \E batch \in SUBSET Sent : ReceiveMessages(c, batch)

Spec == Init /\ [][Next]_vars

\* Consumers go on and get to poll between restarts, shutdowns end, visibility timeouts end,
\* and some poll brings a message that the queue goes on offering.
FairSpec ==
    /\ Spec
    /\ \A c \in Consumers : WF_vars(LoopStep(c))
    /\ \A c \in Stoppable : SF_vars(Poll(c)) /\ WF_vars(service[c] = "stopping" /\ Replace(c))
    /\ \A n \in UNION {DOMAIN q : q \in Queues} :
          /\ WF_vars(n \in Sent /\ (Expire(n) \/ Redrive(n)))
          /\ SF_vars(\E c \in Consumers, batch \in SUBSET Sent :
                         n \in batch /\ ReceiveMessages(c, batch))

-----------------------------------------------------------------------------
(* Properties *)

\* A request leaves the queue only when its key is committed or its payload can never be:
\* no failure, crash or redelivery around the commit loses one
\* (consumer.go:245-306, ARCHITECTURE.md:202).
DeletedIsSettled ==
    \A n \in Sent : place[n] = "deleted" /\ queue[n].key # None =>
        recorded[queue[n].key] # None \/ queue[n].payload \in Refused

\* Consumers turn to the messages of a group in the order they were sent, except for those
\* the queue gave up, however batches are cut, expire and are abandoned
\* (consumer.go:141-177).
GroupOrder ==
    \A n \in attempted : \A m \in EarlierInGroup(n) : m \in attempted \/ place[m] = "dead"

\* Every message is deleted or given up, however often it fails and instances end
\* (consumer.go:263-291, 01-create-queues.sh:12-20).
EveryMessageLeaves ==
    \A n \in UNION {DOMAIN q : q \in Queues} : n \in Sent ~> n \in Sent /\ Gone(n)

=============================================================================
