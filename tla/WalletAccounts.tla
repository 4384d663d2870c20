--------------------------- MODULE WalletAccounts ---------------------------
(***************************************************************************)
(* What the service promises of its wallets, without requests, locks,      *)
(* rows that are read and written later, retries or failures: a wallet is  *)
(* opened once; afterwards its balance changes only in one piece with the  *)
(* movement that says why, from the balance the wallet has, within the     *)
(* range of the money type; and a transaction moves money once at most.    *)
(*                                                                         *)
(* Transactions are numbered as they are accepted and may move money then  *)
(* or later.                                                               *)
(***************************************************************************)
EXTENDS Integers, Sequences

CONSTANTS
    Wallets,       \* wallet ids
    MaxCents,      \* largest amount in cents the money type holds
    None           \* the balance of a wallet that is not open

VARIABLES
    balance,       \* wallet -> its balance in cents, or None
    movements,     \* wallet -> its movements, the oldest first
    accepted       \* how many transactions were accepted

accountVars == <<balance, movements, accepted>>

Movement(id, cents) == [txn |-> id, cents |-> cents]

Init ==
    /\ balance = [w \in Wallets |-> None]
    /\ movements = [w \in Wallets |-> <<>>]
    /\ accepted = 0

HasMoved(id) == \E w \in Wallets : \E k \in DOMAIN movements[w] : movements[w][k].txn = id

MoveTo(w, id, after, cents) ==
    /\ balance' = [balance EXCEPT ![w] = after]
    /\ ~HasMoved(id)
    /\ movements' = [movements EXCEPT ![w] = Append(@, Movement(id, cents))]

\* A transaction is accepted and moves nothing for now.
Accept ==
    /\ accepted' = accepted + 1
    /\ UNCHANGED <<balance, movements>>

OpenEmpty(w) ==
    /\ balance[w] = None
    /\ balance' = [balance EXCEPT ![w] = 0]
    /\ UNCHANGED <<movements, accepted>>

\* A wallet opens with money by a transaction of its own.
OpenWith(w, cents) ==
    /\ balance[w] = None
    /\ cents > 0
    /\ accepted' = accepted + 1
    /\ MoveTo(w, accepted', cents, cents)

\* A transaction, accepted with it or before, brings the wallet to another balance.
Move(w, id, after) ==
    /\ balance[w] # None /\ after # balance[w]
    /\ accepted' = IF id > accepted THEN id ELSE accepted
    /\ MoveTo(w, id, after, after - balance[w])

\* A transaction is accepted, or one wallet gets another balance.
Next ==
    \/ Accept
    \/ \E w \in Wallets, after \in 0 .. MaxCents :
          /\ balance' = [balance EXCEPT ![w] = after]
          /\ \/ OpenEmpty(w)
             \/ OpenWith(w, after)
             \/ \E id \in 1 .. accepted + 1 : Move(w, id, after)

Spec == Init /\ [][Next]_accountVars

=============================================================================
