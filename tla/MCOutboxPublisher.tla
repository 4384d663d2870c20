------------------------- MODULE MCOutboxPublisher -------------------------
(***************************************************************************)
(* A small instance of OutboxPublisher.                                    *)
(***************************************************************************)
EXTENDS OutboxPublisher

CONSTANTS e1, e2, e3, p1, p2

=============================================================================
