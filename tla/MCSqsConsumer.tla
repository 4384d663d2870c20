--------------------------- MODULE MCSqsConsumer ---------------------------
(***************************************************************************)
(* A small instance of SqsConsumer.                                        *)
(***************************************************************************)
EXTENDS SqsConsumer

CONSTANTS c1, c2, w1, w2

Message(group, key, payload) == [group |-> group, key |-> key, payload |-> payload]

Bet == Message(w1, "k1", "bet")
Conflict == Message(w1, "k1", "other bet")
Opening == Message(w1, "k2", "opening")
RollbackLoss == Message(w1, "k2", "rollback loss")
Poison == Message(w2, None, "bet")

\* A bet and another with its key in one group; messages nobody accepts, in two groups.
SomeQueues == {<<Bet, Conflict>>, <<Poison, Opening>>, <<Poison, RollbackLoss>>}

=============================================================================
