-------------------------- MODULE MCLedgerReaders --------------------------
(* An instance of LedgerReaders for TLC: symmetric wallets. *)
EXTENDS LedgerReaders, TLC

TwoTimes == {1, 2}

ThreeIds == {1, 2, 3}

OneOrTwo == {1, 2}

Symmetry == Permutations(Wallets)

=============================================================================
