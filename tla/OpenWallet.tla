----------------------------- MODULE OpenWallet -----------------------------
(***************************************************************************)
(* OpenWalletUseCase.  The whole transaction only inserts, so it is one    *)
(* step; a violation of unique (player, currency) rolls it back and leaves *)
(* nothing, which is a stuttering step.                                    *)
(***************************************************************************)
EXTENDS WagerStore

CONSTANT Openings   \* the opening requests: wallet id drawn, player, currency, balance

ASSUME OpeningsAssumption ==
    Openings \subseteq
        [wallet : Wallets, player : Players, currency : Currencies, balance : 0 .. MaxCents]

OpeningOperation(o) ==
    [ext |-> None, wallet |-> o.wallet, player |-> o.player, round |-> None,
     kind |-> "OPENING", amount |-> o.balance, currency |-> o.currency, ref |-> None]

NewWallet(o) ==
    [player |-> o.player, currency |-> o.currency, balance |-> o.balance, version |-> 1]

\* A wallet opened with money gets an OPENING transaction and its first ledger entry.
CreditOpening(o) ==
    LET op == OpeningOperation(o)
        id == Len(txns) + 1
    IN /\ txns' = Append(txns, MarkProcessed(NewTransaction(None, op), o.balance))
       /\ CreateLedgerEntry(o.wallet,
              [txn |-> id, direction |-> "CREDIT", amount |-> o.balance,
               before |-> 0, after |-> o.balance])
       /\ outbox' = outbox \o <<Event("WagerTransactionProcessed", id), BalanceChanged(id, 1)>>

\* The id is a fresh UUID and the unique index admits one wallet per player and currency.
OpenWallet(o) ==
    /\ wallets[o.wallet] = None
    /\ \A w \in Wallets : wallets[w] # None =>
           <<wallets[w].player, wallets[w].currency>> # <<o.player, o.currency>>
    /\ UpdateWallet(o.wallet, NewWallet(o))
    /\ IF o.balance > 0 THEN CreditOpening(o) ELSE UNCHANGED <<txns, ledger, outbox>>
    /\ UNCHANGED <<inbox, walletLock>>

=============================================================================
