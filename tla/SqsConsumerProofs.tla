------------------------- MODULE SqsConsumerProofs -------------------------
(***************************************************************************)
(* For any queues, consumers and limits: the types, that no request is     *)
(* deleted before it is settled, and the order of a group.  The inductive  *)
(* invariant follows a message through a consumer: what Execute returned   *)
(* is still true when the message is deleted, for a key stays recorded,    *)
(* and a batch never holds a message without those before it in its group. *)
(***************************************************************************)
EXTENDS SqsConsumer, TLAPS

\* A consumer executes a request of its batch, or nothing.
LoopInv ==
    \A c \in Consumers :
        IF loop[c] = "executing"
        THEN current[c] \in held[c] \cap attempted /\ queue[current[c]].key # None
        ELSE current[c] = 0 /\ outcome[c] = "none"

Settled(q) == recorded[q.key] # None \/ q.payload \in Refused

\* An answer or a refusal settles the request.
OutcomeInv ==
    \A c \in Consumers :
        loop[c] = "executing" /\ outcome[c] \in {"answered", "refused"} => Settled(Request(c))

Behind(n, c) ==
    \A m \in EarlierInGroup(n) : m \in held[c] \/ m \in attempted \/ place[m] = "dead"

\* A message comes with those of its group that nobody turned to, and stays behind them.
BatchInv == \A c \in Consumers : \A n \in held[c] : Behind(n, c)

DeletedInv == \A n \in Sent : place[n] = "deleted" => n \in attempted

IInv == TypeOK /\ LoopInv /\ OutcomeInv /\ BatchInv /\ DeletedInv
             /\ DeletedIsSettled /\ GroupOrder

-----------------------------------------------------------------------------
(* The initial state, and the types of a message *)

LEMMA InitIInv == Init => IInv
<1> SUFFICES ASSUME Init PROVE IInv
  OBVIOUS
<1> USE ConsumerAssumption
<1>1. TypeOK
  BY DEF Init, TypeOK
<1>2. LoopInv /\ OutcomeInv /\ BatchInv /\ DeletedInv /\ DeletedIsSettled /\ GroupOrder
  BY DEF Init, LoopInv, OutcomeInv, BatchInv, DeletedInv, DeletedIsSettled, GroupOrder
<1> QED BY <1>1, <1>2 DEF IInv

LEMMA SentTypes ==
  ASSUME TypeOK
  PROVE  /\ Sent \subseteq Nat \ {0}
         /\ \A n \in Sent : queue[n] \in Envelopes
         /\ \A n \in Sent : queue[n].key # None => queue[n].key \in Keys
         /\ \A n \in Sent : queue[n].payload \in Payloads
<1>1. queue \in Seq(Envelopes)
  BY ConsumerAssumption DEF TypeOK
<1>2. Sent \subseteq Nat \ {0} /\ \A n \in Sent : queue[n] \in Envelopes
  BY <1>1 DEF Sent
<1> QED BY <1>2 DEF Envelopes

\* What one step of a call may do to a message.
LEMMA HandleStep ==
  ASSUME TypeOK, NEW c \in Consumers, NEW n \in Sent, NEW to \in {"deleted", "visible"},
         WithHandle(c, n, to)
  PROVE  /\ place' \in [Sent -> {"visible", "hidden", "deleted", "dead"}]
         /\ \A m \in Sent : m # n => place'[m] = place[m]
         /\ place'[n] \in {place[n], to}
         /\ \A m \in Sent : place[m] = "dead" => place'[m] = "dead"
BY DEF TypeOK, WithHandle, Gone

-----------------------------------------------------------------------------
(* Types *)

LEMMA TypeStep == IInv /\ [Next]_vars => TypeOK'
<1> SUFFICES ASSUME IInv, [Next]_vars PROVE TypeOK'
  OBVIOUS
<1> USE ConsumerAssumption
<1>t. TypeOK
  BY DEF IInv
<1>1. ASSUME NEW n \in Sent, Expire(n) \/ Redrive(n) PROVE TypeOK'
  BY <1>1, <1>t DEF TypeOK, Expire, Redrive, Sent, loopVars
<1>2. ASSUME NEW c \in Consumers, Poll(c) \/ LeaveLoop(c) \/ ReceiveNothing(c) PROVE TypeOK'
  BY <1>2, <1>t DEF TypeOK, Poll, LeaveLoop, ReceiveNothing, Sent, queueVars
<1>3. ASSUME NEW c \in Consumers, NEW batch \in SUBSET Sent, ReceiveMessages(c, batch)
      PROVE TypeOK'
  <2>1. \A n \in Sent : receives'[n] \in 0 .. MaxReceives
    BY <1>3, <1>t DEF TypeOK, ReceiveMessages, Deliverable
  <2>2. receives' \in [Sent -> 0 .. MaxReceives]
    BY <1>3, <2>1 DEF ReceiveMessages
  <2> QED BY <1>3, <1>t, <2>2 DEF TypeOK, ReceiveMessages, Sent
<1>4. ASSUME NEW c \in Consumers, NEW n \in Sent, DropPoison(c, n) PROVE TypeOK'
  <2>1. place' \in [Sent -> {"visible", "hidden", "deleted", "dead"}]
    BY <1>4, <1>t, HandleStep DEF DropPoison, deleteMessage
  <2> QED BY <1>4, <1>t, <2>1 DEF TypeOK, DropPoison, TurnTo, Done, Sent
<1>5. ASSUME NEW c \in Consumers, NEW n \in Sent, Execute(c, n) PROVE TypeOK'
  BY <1>5, <1>t DEF TypeOK, Execute, TurnTo, Sent, queueVars
<1>6. ASSUME NEW c \in Consumers, InExecute(c) PROVE Request(c).payload \in Payloads
  <2>1. current[c] \in Sent
    BY <1>6, <1>t DEF IInv, LoopInv, InExecute, TypeOK
  <2> QED BY <1>t, <2>1, SentTypes DEF Request
<1>7. ASSUME NEW c \in Consumers, ExecuteCommits(c) \/ ExecuteFails(c) \/ ExecuteRefuses(c)
      PROVE TypeOK'
  <2>1. recorded' \in [Keys -> Payloads \cup {None}]
    BY <1>6, <1>7, <1>t
       DEF TypeOK, ExecuteCommits, ExecuteFails, ExecuteRefuses, Record, Return, queueVars
  <2> QED BY <1>7, <1>t, <2>1
          DEF TypeOK, ExecuteCommits, ExecuteFails, ExecuteRefuses, Return, queueVars, Sent
<1>8. ASSUME NEW c \in Consumers, Settle(c) PROVE TypeOK'
  <2>1. current[c] \in Sent
    BY <1>8, <1>t DEF IInv, LoopInv, Settle, TypeOK
  <2>2. place' \in [Sent -> {"visible", "hidden", "deleted", "dead"}]
    BY <1>8, <1>t, <2>1, HandleStep DEF Settle, deleteMessage, releaseVisibility
  <2> QED BY <1>8, <1>t, <2>2 DEF TypeOK, Settle, Done, Sent
<1>9. ASSUME NEW c \in Consumers, Stop(c) \/ Replace(c) PROVE TypeOK'
  <2>1. CASE Stop(c)
    BY <2>1, <1>t DEF TypeOK, Stop, Sent, queueVars, loopVars
  <2>2. CASE Replace(c)
    BY <2>2, <1>t DEF TypeOK, Replace, Sent, queueVars
  <2> QED BY <1>9, <2>1, <2>2
<1>10. CASE UNCHANGED vars
  BY <1>10, <1>t DEF TypeOK, vars, queueVars, loopVars, Sent
<1> QED
  BY <1>1, <1>2, <1>3, <1>4, <1>5, <1>7, <1>8, <1>9, <1>10 DEF Next, LoopStep

-----------------------------------------------------------------------------
(* The loop of a consumer *)

LEMMA LoopStepInv == IInv /\ [Next]_vars => LoopInv'
<1> SUFFICES ASSUME IInv, [Next]_vars PROVE LoopInv'
  OBVIOUS
<1>t. TypeOK /\ LoopInv
  BY DEF IInv
<1>1. ASSUME NEW n \in Sent, Expire(n) \/ Redrive(n) PROVE LoopInv'
  BY <1>1, <1>t DEF LoopInv, Expire, Redrive, loopVars
<1>2. ASSUME NEW c \in Consumers, Poll(c) \/ LeaveLoop(c) \/ ReceiveNothing(c) PROVE LoopInv'
  BY <1>2, <1>t DEF LoopInv, TypeOK, Poll, LeaveLoop, ReceiveNothing, queueVars
<1>3. ASSUME NEW c \in Consumers, NEW batch \in SUBSET Sent, ReceiveMessages(c, batch)
      PROVE LoopInv'
  BY <1>3, <1>t DEF LoopInv, TypeOK, ReceiveMessages
<1>4. ASSUME NEW c \in Consumers, NEW n \in Sent, DropPoison(c, n) PROVE LoopInv'
  BY <1>4, <1>t DEF LoopInv, TypeOK, DropPoison, TurnTo, Done
<1>5. ASSUME NEW c \in Consumers, NEW n \in Sent, Execute(c, n) PROVE LoopInv'
  BY <1>5, <1>t DEF LoopInv, TypeOK, Execute, TurnTo, queueVars
<1>6. ASSUME NEW c \in Consumers, ExecuteCommits(c) \/ ExecuteFails(c) \/ ExecuteRefuses(c)
      PROVE LoopInv'
  BY <1>6, <1>t
     DEF LoopInv, TypeOK, ExecuteCommits, ExecuteFails, ExecuteRefuses, InExecute, Return, queueVars
<1>7. ASSUME NEW c \in Consumers, Settle(c) PROVE LoopInv'
  BY <1>7, <1>t DEF LoopInv, TypeOK, Settle, Done
<1>8. ASSUME NEW c \in Consumers, Stop(c) \/ Replace(c) PROVE LoopInv'
  BY <1>8, <1>t DEF LoopInv, TypeOK, Stop, Replace, queueVars, loopVars
<1>9. CASE UNCHANGED vars
  BY <1>9, <1>t DEF LoopInv, vars, queueVars, loopVars
<1> QED BY <1>1, <1>2, <1>3, <1>4, <1>5, <1>6, <1>7, <1>8, <1>9 DEF Next, LoopStep

\* Only Execute writes the table, and it overwrites a key with the same payload only.
LEMMA RecordedForGood ==
  ASSUME IInv, [Next]_vars, NEW k \in Keys, recorded[k] # None
  PROVE  recorded'[k] # None
<1>t. TypeOK /\ LoopInv
  BY DEF IInv
<1>1. ASSUME NEW c \in Consumers, InExecute(c), MayCommit(Request(c)), Record(Request(c))
      PROVE recorded'[k] # None
  <2>1. current[c] \in Sent
    BY <1>1, <1>t DEF LoopInv, InExecute, TypeOK
  <2>2. Request(c).payload # None
    BY <1>t, <2>1, SentTypes, ConsumerAssumption DEF Request
  <2> QED BY <1>1, <1>t, <2>2 DEF Record, TypeOK
<1>2. CASE UNCHANGED recorded
  BY <1>2
<1> QED
  BY <1>1, <1>2
     DEF Next, LoopStep, Expire, Redrive, Poll, LeaveLoop, ReceiveNothing, ReceiveMessages,
         DropPoison, Execute, ExecuteCommits, ExecuteRefuses, ExecuteFails, Settle, Stop,
         Replace, vars

\* What was settled stays so; the queue itself never changes.
LEMMA SettledForGood ==
  ASSUME IInv, [Next]_vars
  PROVE  /\ queue' = queue
         /\ \A n \in Sent : queue[n].key # None /\ Settled(queue[n]) => Settled(queue[n])'
<1>1. queue' = queue
  BY DEF Next, LoopStep, Expire, Redrive, Poll, LeaveLoop, ReceiveNothing, ReceiveMessages,
         DropPoison, Execute, ExecuteCommits, ExecuteRefuses, ExecuteFails, Return, Settle,
         Stop, Replace, vars, queueVars
<1>2. \A n \in Sent : queue[n].key # None => queue[n].key \in Keys
  BY SentTypes DEF IInv
<1> QED BY <1>1, <1>2, RecordedForGood DEF Settled

-----------------------------------------------------------------------------
(* Deleted messages are settled *)

LEMMA OutcomeStep == IInv /\ [Next]_vars => OutcomeInv'
<1> SUFFICES ASSUME IInv, [Next]_vars,
                    NEW c \in Consumers, loop'[c] = "executing",
                    outcome'[c] \in {"answered", "refused"}
             PROVE  Settled(Request(c))'
  BY DEF OutcomeInv
<1>t. TypeOK /\ LoopInv /\ OutcomeInv
  BY DEF IInv
<1>q. queue' = queue
  BY SettledForGood
<1>1. CASE /\ loop[c] = "executing" /\ outcome[c] \in {"answered", "refused"}
           /\ current'[c] = current[c]
  <2>1. Settled(Request(c)) /\ current[c] \in Sent /\ queue[current[c]].key # None
    BY <1>1, <1>t DEF LoopInv, OutcomeInv, TypeOK
  <2>2. PICK n \in Sent : n = current[c]
    BY <2>1
  <2>3. Settled(queue[n])'
    BY <2>1, <2>2, SettledForGood DEF Request
  <2> QED BY <1>1, <1>q, <2>2, <2>3 DEF Request
<1>2. CASE ExecuteCommits(c) \/ ExecuteRefuses(c)
  <2>1. current[c] \in Sent /\ current'[c] = current[c] /\ InExecute(c)
        /\ queue[current[c]].key # None
    BY <1>2, <1>t DEF LoopInv, InExecute, TypeOK, ExecuteCommits, ExecuteRefuses, Return
  <2>2. Request(c).key \in Keys /\ Request(c).payload # None /\ Request(c)' = Request(c)
    BY <1>t, <1>q, <2>1, SentTypes, ConsumerAssumption DEF Request
  <2>3. CASE ExecuteCommits(c)
    <3>1. recorded'[Request(c).key] = Request(c).payload
      BY <1>t, <2>2, <2>3 DEF ExecuteCommits, Record, TypeOK
    <3>2. recorded'[Request(c)'.key] # None
      BY <2>2, <3>1
    <3> QED BY <3>2 DEF Settled
  <2>4. CASE ExecuteRefuses(c)
    <3>1. Settled(Request(c)) /\ recorded' = recorded
      BY <2>4 DEF ExecuteRefuses, Conflicts, Settled
    <3> QED BY <2>2, <3>1 DEF Settled
  <2> QED BY <1>2, <2>3, <2>4
<1>3. \/ ExecuteCommits(c) \/ ExecuteRefuses(c)
      \/ /\ loop[c] = "executing" /\ outcome[c] \in {"answered", "refused"}
         /\ current'[c] = current[c]
  <2>1. ASSUME NEW d \in Consumers, LoopStep(d) \/ ReceiveNothing(d) \/ Stop(d) \/ Replace(d)
               \/ \E batch \in SUBSET Sent : ReceiveMessages(d, batch)
        PROVE  \/ ExecuteCommits(c) \/ ExecuteRefuses(c)
               \/ /\ loop[c] = "executing" /\ outcome[c] \in {"answered", "refused"}
                  /\ current'[c] = current[c]
    <3> SUFFICES ASSUME ~ExecuteCommits(c), ~ExecuteRefuses(c)
                 PROVE  /\ loop[c] = "executing" /\ outcome[c] \in {"answered", "refused"}
                        /\ current'[c] = current[c]
      OBVIOUS
    <3> USE <1>t DEF LoopInv, TypeOK
    <3>1. CASE d # c
      BY <2>1, <3>1
         DEF LoopStep, Poll, LeaveLoop, ReceiveNothing, ReceiveMessages, DropPoison, Execute,
             ExecuteCommits, ExecuteRefuses, ExecuteFails, Return, Settle, Done, Stop, Replace,
             loopVars
    <3>2. CASE d = c /\ (Stop(c) \/ ExecuteFails(c) \/ ReceiveNothing(c) \/ Replace(c))
      BY <3>2 DEF Stop, ExecuteFails, ReceiveNothing, Replace, Return, loopVars
    <3>3. CASE d = c /\ (Poll(c) \/ LeaveLoop(c) \/ Settle(c))
      BY <3>3 DEF Poll, LeaveLoop, Settle, Done
    <3>4. ASSUME d = c, NEW n \in Sent, DropPoison(c, n) \/ Execute(c, n) PROVE FALSE
      BY <3>4 DEF DropPoison, Execute, TurnTo, Done
    <3>5. ASSUME d = c, NEW batch \in SUBSET Sent, ReceiveMessages(c, batch) PROVE FALSE
      BY <3>5 DEF ReceiveMessages
    <3> QED BY <2>1, <3>1, <3>2, <3>3, <3>4, <3>5 DEF LoopStep
  <2> QED
    BY <2>1 DEF Next, Expire, Redrive, vars, loopVars
<1> QED BY <1>1, <1>2, <1>3

\* Only a consumer that turned to a message deletes it, and only once it is settled.
LEMMA DeletedStep == IInv /\ [Next]_vars => DeletedIsSettled' /\ DeletedInv'
<1> SUFFICES ASSUME IInv, [Next]_vars,
                    NEW n \in Sent, place'[n] = "deleted"
             PROVE  /\ n \in attempted'
                    /\ queue[n].key # None => Settled(queue[n])'
  BY SettledForGood DEF DeletedIsSettled, DeletedInv, Settled, Sent
<1>t. TypeOK /\ LoopInv /\ OutcomeInv /\ DeletedInv /\ DeletedIsSettled
  BY DEF IInv
<1>1. attempted \subseteq attempted'
  BY DEF Next, LoopStep, Expire, Redrive, Poll, LeaveLoop, ReceiveNothing, ReceiveMessages,
         DropPoison, Execute, TurnTo, ExecuteCommits, ExecuteRefuses, ExecuteFails, Return,
         Settle, Stop, Replace, vars
<1>2. CASE place[n] = "deleted"
  <2>1. n \in attempted /\ (queue[n].key # None => Settled(queue[n]))
    BY <1>2, <1>t DEF DeletedInv, DeletedIsSettled, Settled
  <2> QED BY <1>1, <2>1, SettledForGood
<1>3. ASSUME place[n] # "deleted", NEW c \in Consumers, NEW m \in Sent, DropPoison(c, m)
      PROVE  n \in attempted' /\ queue[n].key = None
  BY <1>3, <1>t, HandleStep DEF DropPoison, deleteMessage, TurnTo
<1>4. ASSUME place[n] # "deleted", NEW c \in Consumers, Settle(c)
      PROVE  n \in attempted /\ (queue[n].key # None => Settled(queue[n]))
  <2>1. current[c] \in Sent \cap attempted /\ loop[c] = "executing"
    BY <1>4, <1>t DEF Settle, LoopInv, TypeOK
  <2>2. n = current[c] /\ outcome[c] # "failed"
    BY <1>4, <1>t, <2>1, HandleStep DEF Settle, deleteMessage, releaseVisibility
  <2>3. outcome[c] \in {"answered", "refused"}
    BY <1>4, <1>t, <2>2 DEF Settle, TypeOK
  <2> QED BY <1>t, <2>1, <2>2, <2>3 DEF OutcomeInv, Request
<1>5. \/ place[n] = "deleted"
      \/ \E c \in Consumers : Settle(c) \/ \E m \in Sent : DropPoison(c, m)
  BY <1>t DEF TypeOK, Next, LoopStep, Expire, Redrive, Poll, LeaveLoop, ReceiveNothing,
         ReceiveMessages, Execute, ExecuteCommits, ExecuteRefuses, ExecuteFails, Return, Stop,
         Replace, vars, queueVars
<1> QED BY <1>1, <1>2, <1>3, <1>4, <1>5, SettledForGood

-----------------------------------------------------------------------------
(* The order of a group *)

\* What was attempted, and what the queue gave up, stays so.
LEMMA AttemptedForGood ==
  ASSUME IInv, [Next]_vars
  PROVE  /\ attempted \subseteq attempted'
         /\ \A n \in Sent : place[n] = "dead" => place'[n] = "dead"
<1>t. TypeOK /\ LoopInv
  BY DEF IInv
<1>1. attempted \subseteq attempted'
  BY DEF Next, LoopStep, Expire, Redrive, Poll, LeaveLoop, ReceiveNothing, ReceiveMessages,
         DropPoison, Execute, TurnTo, ExecuteCommits, ExecuteRefuses, ExecuteFails, Return,
         Settle, Stop, Replace, vars
<1>2. ASSUME NEW n \in Sent, place[n] = "dead" PROVE place'[n] = "dead"
  <2>1. ASSUME NEW c \in Consumers, NEW m \in Sent, DropPoison(c, m) PROVE place'[n] = "dead"
    BY <1>2, <1>t, <2>1, HandleStep DEF DropPoison, deleteMessage
  <2>2. ASSUME NEW c \in Consumers, Settle(c) PROVE place'[n] = "dead"
    <3>1. current[c] \in Sent
      BY <1>t, <2>2 DEF Settle, LoopInv, TypeOK
    <3> QED BY <1>2, <1>t, <2>2, <3>1, HandleStep DEF Settle, deleteMessage, releaseVisibility
  <2>3. ASSUME NEW c \in Consumers, NEW batch \in SUBSET Sent, ReceiveMessages(c, batch)
        PROVE  place'[n] = "dead"
    BY <1>2, <2>3 DEF ReceiveMessages, Deliverable
  <2> QED
    BY <1>2, <1>t, <2>1, <2>2, <2>3
       DEF TypeOK, Next, LoopStep, Expire, Redrive, Poll, LeaveLoop, ReceiveNothing,
           Execute, ExecuteCommits, ExecuteRefuses, ExecuteFails, Return, Stop,
           Replace, vars, queueVars
<1> QED BY <1>1, <1>2

LEMMA BatchStep == IInv /\ [Next]_vars => BatchInv'
<1> SUFFICES ASSUME IInv, [Next]_vars,
                    NEW c \in Consumers, NEW n \in held'[c], NEW m \in EarlierInGroup(n)'
             PROVE  m \in held'[c] \/ m \in attempted' \/ place'[m] = "dead"
  BY DEF BatchInv, Behind
<1>t. TypeOK /\ LoopInv /\ BatchInv /\ DeletedInv
  BY DEF IInv
<1>q. m \in EarlierInGroup(n) /\ m \in Sent
  BY SettledForGood DEF EarlierInGroup, Sent
<1>1. CASE n \in held[c]
  <2>1. m \in held[c] \/ m \in attempted \/ place[m] = "dead"
    BY <1>1, <1>t, <1>q DEF BatchInv, Behind
  <2>2. m \in held[c] => m \in held'[c] \/ m \in attempted' \/ place'[m] = "dead"
    <3> SUFFICES ASSUME m \in held[c]
                 PROVE  m \in held'[c] \/ m \in attempted' \/ place'[m] = "dead"
      OBVIOUS
    <3>1. ASSUME NEW d \in Consumers, NEW k \in Sent, DropPoison(d, k)
          PROVE  m \in held'[c] \/ m \in attempted'
      BY <3>1, <1>t DEF DropPoison, TurnTo, Done, TypeOK
    <3>2. ASSUME NEW d \in Consumers, Settle(d) PROVE m \in held'[c] \/ m \in attempted'
      BY <3>2, <1>t DEF Settle, Done, TypeOK, LoopInv
    <3>3. ASSUME NEW d \in Consumers, Replace(d) PROVE d # c
      BY <3>3, <1>t DEF Replace, TypeOK
    <3>4. ASSUME NEW d \in Consumers, Replace(d) PROVE m \in held'[c]
      BY <3>3, <3>4, <1>t DEF Replace, TypeOK
    <3>5. ASSUME NEW d \in Consumers, NEW batch \in SUBSET Sent, ReceiveMessages(d, batch)
          PROVE  m \in held'[c] \/ m \in attempted' \/ place'[m] = "dead"
      <4>1. CASE d # c
        BY <3>5, <4>1, <1>t DEF ReceiveMessages, TypeOK
      <4>2. CASE d = c
        <5>1. held'[c] = batch /\ n \in batch /\ (Gone(m) \/ m \in batch)
          BY <3>5, <4>2, <1>t, <1>q DEF ReceiveMessages, Deliverable, TypeOK
        <5>2. place[m] = "deleted" => m \in attempted
          BY <1>q, <1>t DEF DeletedInv
        <5> QED BY <5>1, <5>2, <1>q, AttemptedForGood DEF Gone
      <4> QED BY <4>1, <4>2
    <3> QED
      BY <3>1, <3>2, <3>4, <3>5
         DEF Next, LoopStep, Expire, Redrive, Poll, LeaveLoop, ReceiveNothing, Execute,
             ExecuteCommits, ExecuteRefuses, ExecuteFails, Return, Stop, vars, loopVars
  <2> QED BY <2>1, <2>2, <1>q, AttemptedForGood
<1>2. CASE n \notin held[c]
  <2>1. PICK batch \in SUBSET Sent : ReceiveMessages(c, batch) /\ n \in batch
    BY <1>2, <1>t
       DEF TypeOK, Next, LoopStep, Expire, Redrive, Poll, LeaveLoop, ReceiveNothing, DropPoison,
           Execute, ReceiveMessages, ExecuteCommits, ExecuteRefuses, ExecuteFails, Return, Settle,
           Done, Stop, Replace, vars, loopVars
  <2>2. held'[c] = batch /\ (Gone(m) \/ m \in batch)
    BY <1>q, <1>t, <2>1 DEF ReceiveMessages, Deliverable, TypeOK
  <2>3. place[m] = "deleted" => m \in attempted
    BY <1>q, <1>t DEF DeletedInv
  <2> QED BY <1>q, <2>2, <2>3, AttemptedForGood DEF Gone
<1> QED BY <1>1, <1>2

LEMMA OrderStep == IInv /\ [Next]_vars => GroupOrder'
<1> SUFFICES ASSUME IInv, [Next]_vars, NEW n \in attempted', NEW m \in EarlierInGroup(n)'
             PROVE  m \in attempted' \/ place'[m] = "dead"
  BY DEF GroupOrder
<1>t. TypeOK /\ BatchInv /\ GroupOrder
  BY DEF IInv
<1>q. m \in EarlierInGroup(n) /\ m \in Sent
  BY SettledForGood DEF EarlierInGroup, Sent
<1>1. CASE n \in attempted
  BY <1>1, <1>q, <1>t, AttemptedForGood DEF GroupOrder
<1>2. ASSUME NEW c \in Consumers, TurnTo(c, n)
      PROVE  m \in attempted \/ place[m] = "dead"
  BY <1>2, <1>q, <1>t DEF TurnTo, BatchInv, Behind
<1>3. n \in attempted \/ \E c \in Consumers : TurnTo(c, n)
  BY DEF Next, LoopStep, Expire, Redrive, Poll, LeaveLoop, ReceiveNothing, ReceiveMessages,
         DropPoison, Execute, TurnTo, ExecuteCommits, ExecuteRefuses, ExecuteFails, Return,
         Settle, Stop, Replace, vars
<1> QED BY <1>1, <1>2, <1>3, <1>q, AttemptedForGood

-----------------------------------------------------------------------------
(* Theorems *)

THEOREM ConsumerInvariant == Spec => []IInv
<1>1. IInv /\ [Next]_vars => IInv'
  BY TypeStep, LoopStepInv, OutcomeStep, DeletedStep, BatchStep, OrderStep DEF IInv
<1> QED BY InitIInv, <1>1, PTL DEF Spec

\* The variables keep their types (consumer.go:74-334).
THEOREM ConsumerTypes == Spec => []TypeOK
BY ConsumerInvariant, PTL DEF IInv

\* A request leaves the queue only when its key is committed or its payload can never be
\* (consumer.go:245-306).
THEOREM NoRequestIsLost == Spec => []DeletedIsSettled
BY ConsumerInvariant, PTL DEF IInv

\* Consumers turn to the messages of a group in order (consumer.go:141-177).
THEOREM GroupsStayInOrder == Spec => []GroupOrder
BY ConsumerInvariant, PTL DEF IInv

=============================================================================
