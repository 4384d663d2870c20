----------------------------- MODULE MCWagering -----------------------------
(***************************************************************************)
(* Small instances of Wagering: the requests that each run draws from.     *)
(***************************************************************************)
EXTENDS WageringProperties, TLC

\* Handlers are interchangeable, and so are retriers.
ProcessSymmetry == Permutations(Handlers) \cup Permutations(Retriers)

CONSTANTS w1, w2, p1, p2, brl, usd, r1, r2, h1, h2, t1, t2

Op(ext, wallet, round, kind, amount, reference) ==
    [ext |-> ext, wallet |-> wallet, player |-> p1, round |-> round, kind |-> kind,
     amount |-> amount, currency |-> brl, ref |-> reference]

Http(key, op) == [msg |-> None, key |-> key, op |-> op]

Sqs(msg, key, op) == [msg |-> msg, key |-> key, op |-> op]

OneWallet == {[wallet |-> w1, player |-> p1, currency |-> brl, balance |-> 2]}

Bet == Op("e1", w1, r1, "BET", 2, None)
Win == Op("e2", w1, r1, "WIN", 2, None)
Loss == Op("e3", w1, r1, "LOSS", 0, None)
Refund == Op("e4", w1, r1, "REFUND", 2, "e1")
Rollback == Op("e5", w1, r1, "ROLLBACK", 2, "e4")
RollbackRollback == Op("e6", w1, r1, "ROLLBACK", 2, "e5")
RollbackLoss == Op("e7", w1, r1, "ROLLBACK", 2, "e3")

\* A bet as a message that is delivered again and, under another key, one the wallet cannot
\* pay, a bet of another player and an opening; a win, which moves money beside the bet's
\* refund and overflows the wallet when it is not lower; the refund and one of another amount.
ServiceRequests ==
    {Sqs("m1", "k1", Bet), Http("k2", [Bet EXCEPT !.amount = 3]), Http("k2", Win),
     Http("k2", [Bet EXCEPT !.player = p2]), Http("k2", [Bet EXCEPT !.kind = "OPENING"]),
     Http("k3", Refund), Http("k3", [Refund EXCEPT !.amount = 1])}

\* A bet or a loss, a refund of it, the rollback of the refund and the rollback of that
\* rollback, which is unsupported: each may be missing or come before what it reverses.
ChainOfReversals ==
    {Sqs("m1", "k1", Bet), Http("k1", [Loss EXCEPT !.ext = "e1"]),
     Http("k2", Refund), Http("k3", Rollback), Http("k4", RollbackRollback)}

\* A rollback of a loss that comes first.
RollbackOfLoss == {Http("k1", Loss), Http("k2", RollbackLoss)}

\* A bet and its refund.
WaitingRefund == {Http("k1", Bet), Http("k2", Refund)}

\* A bet, a refund of it and one of another amount.
TwoRefunds ==
    {Http("k1", Bet), Http("k2", Refund), Http("k3", [Refund EXCEPT !.ext = "e5", !.amount = 1])}

\* Two messages with one messageId and idempotency key and different payloads.
ReusedMessageId == {Sqs("m1", "k1", Bet), Sqs("m1", "k1", [Bet EXCEPT !.amount = 1])}

=============================================================================
