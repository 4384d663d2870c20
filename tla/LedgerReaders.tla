--------------------------- MODULE LedgerReaders ---------------------------
(***************************************************************************)
(* What the service reads of its wallets while they move: the              *)
(* reconciliation of a stored balance with the ledger, and the pages of a  *)
(* ledger that a client asks for one after the other.                      *)
(*                                                                         *)
(* The writers are WalletAccounts, which the use cases implement.  A       *)
(* reader's transaction is READ COMMITTED: each of its statements sees     *)
(* what is committed by then.                                              *)
(***************************************************************************)
EXTENDS WalletAccounts, FiniteSets

CONSTANTS
    Auditors,      \* goroutines that run ReconcileWalletUseCase
    Listers,       \* clients that page through a ledger
    Limits,        \* the page sizes they ask for
    Times,         \* instants of created_at
    EntryIds,      \* ids of ledger entries; they compare like numbers
    MaxAccepted    \* bound: transactions accepted in a run

ASSUME ReadersAssumption ==
    /\ Times \subseteq Int /\ EntryIds \subseteq Int
    /\ Limits \subseteq Nat \ {0}
    /\ MaxAccepted \in Nat /\ MaxCents \in Nat

VARIABLES
    places,        \* wallet -> created_at and id of each of its movements
    audit,         \* what an auditor read of a wallet, or None
    report,        \* the last report of an auditor, or None
    listing        \* how far a lister got, or None

readerVars == <<audit, report, listing>>

vars == <<accountVars, places, readerVars>>

Places == [created : Times, id : EntryIds]

ASSUME NoneAssumption == None \notin Places /\ None \notin 0 .. MaxCents

\* seen is the number of entries there were when the balance was read (history).
Audits == [wallet : Wallets, stored : 0 .. MaxCents, seen : Nat]

Reports ==
    [stored : 0 .. MaxCents, calculated : 0 .. MaxCents, checked : Nat, wallet : Wallets,
     seen : Nat]

\* page is the last page, cursor the one that came with it; earlier are the entries of the
\* pages before, and existed those of the wallet when the first page was read (history).
Listings ==
    [wallet : Wallets, cursor : Places \cup {None}, page : SUBSET Places,
     earlier : SUBSET Places, existed : SUBSET Places]

ReadersInit ==
    /\ Init
    /\ places = [w \in Wallets |-> <<>>]
    /\ audit = [a \in Auditors |-> None]
    /\ report = [a \in Auditors |-> None]
    /\ listing = [l \in Listers |-> None]

Entries(w) == {places[w][k] : k \in DOMAIN places[w]}

-----------------------------------------------------------------------------
(* Writers *)

\* An entry's id is a random UUID and its created_at the clock of the instance that writes
\* it: neither says in which order the entries of a wallet were committed.
Post ==
    /\ accepted < MaxAccepted /\ Next
    /\ \E p \in Places :
          /\ \A w \in Wallets : \A q \in Entries(w) : q.id # p.id
          /\ places' = [w \in Wallets |->
                IF movements'[w] = movements[w] THEN places[w] ELSE Append(places[w], p)]
    /\ UNCHANGED readerVars

-----------------------------------------------------------------------------
(* Reconciliation *)

\* What a list of movements adds up to, credits counting up and debits down.
SumOf(list) ==
    LET sum[k \in 0 .. Len(list)] == IF k = 0 THEN 0 ELSE sum[k - 1] + list[k].cents
    IN sum[Len(list)]

\* Mutant of CalculateBalance: debits are added.
CalculateBalanceUnsigned(w) ==
    SumOf([k \in DOMAIN movements[w] |->
              [movements[w][k] EXCEPT !.cents = IF @ < 0 THEN -@ ELSE @]])

\* SUM of the credits minus the debits.
CalculateBalance(w) == SumOf(movements[w])

\* The first statement reads the stored balance, without a lock.
ReadWallet(a, w) ==
    /\ audit[a] = None
    /\ balance[w] # None
    /\ audit' = [audit EXCEPT ![a] =
                    [wallet |-> w, stored |-> balance[w], seen |-> Len(movements[w])]]
    /\ report' = [report EXCEPT ![a] = None]
    /\ UNCHANGED <<accountVars, places, listing>>

\* The second one adds up the ledger, of a later moment.
ReadLedger(a) ==
    /\ audit[a] # None
    /\ report' = [report EXCEPT ![a] =
                     [wallet |-> audit[a].wallet, stored |-> audit[a].stored,
                      calculated |-> CalculateBalance(audit[a].wallet),
                      checked |-> Len(movements[audit[a].wallet]), seen |-> audit[a].seen]]
    /\ audit' = [audit EXCEPT ![a] = None]
    /\ UNCHANGED <<accountVars, places, listing>>

\* The request is cancelled or the second statement fails.
AbortAudit(a) ==
    /\ audit[a] # None
    /\ audit' = [audit EXCEPT ![a] = None]
    /\ UNCHANGED <<accountVars, places, report, listing>>

-----------------------------------------------------------------------------
(* Pages of the ledger *)

\* (p.created_at, p.id) < (q.created_at, q.id)
Before(p, q) == p.created < q.created \/ (p.created = q.created /\ p.id < q.id)

\* Mutant of BelowCursor: only created_at is compared.
BelowCursorByTime(w, cursor) ==
    {p \in Entries(w) : cursor = None \/ p.created < cursor.created}

\* Mutant of BelowCursor: the entry the cursor names is included.
BelowCursorInclusive(w, cursor) ==
    {p \in Entries(w) : cursor = None \/ ~Before(cursor, p)}

\* WHERE wallet_id AND (created_at, id) < cursor.  An entry never changes and is never
\* deleted, so a cursor stands for the place of the entry it names.
BelowCursor(w, cursor) == {p \in Entries(w) : cursor = None \/ Before(p, cursor)}

\* ORDER BY created_at DESC, id DESC LIMIT limit: the highest entries, all if they are few.
GetByWalletID(page, w, cursor, limit) ==
    LET below == BelowCursor(w, cursor)
    IN /\ page \subseteq below
       /\ \A p \in page, q \in below \ page : Before(q, p)
       /\ Cardinality(page) \in 0 .. limit
       /\ Cardinality(page) < limit => page = below

\* A full page comes with a cursor, the id of its last entry.
NextCursor(page, limit, cursor) ==
    IF Cardinality(page) = limit
    THEN cursor \in page /\ \A p \in page \ {cursor} : Before(cursor, p)
    ELSE cursor = None

Answer(l, w, from, earlier, existed) ==
    /\ \E limit \in Limits, page \in SUBSET Entries(w), next \in Entries(w) \cup {None} :
          /\ GetByWalletID(page, w, from, limit)
          /\ NextCursor(page, limit, next)
          /\ listing' = [listing EXCEPT ![l] =
                [wallet |-> w, cursor |-> next, page |-> page, earlier |-> earlier,
                 existed |-> existed]]
    /\ UNCHANGED <<accountVars, places, audit, report>>

FirstPage(l, w) == Answer(l, w, None, {}, Entries(w))

\* The client repeats its request with the cursor it got, and any page size.
FollowCursor(l) ==
    /\ listing[l] # None
    /\ listing[l].cursor # None
    /\ LET got == listing[l]
       IN Answer(l, got.wallet, got.cursor, got.earlier \cup got.page, got.existed)

-----------------------------------------------------------------------------
ReadersNext ==
    \/ Post
    \/ \E a \in Auditors : (\E w \in Wallets : ReadWallet(a, w)) \/ ReadLedger(a) \/ AbortAudit(a)
    \/ \E l \in Listers : (\E w \in Wallets : FirstPage(l, w)) \/ FollowCursor(l)

ReadersSpec == ReadersInit /\ [][ReadersNext]_vars

-----------------------------------------------------------------------------
(* Properties *)

\* Reports and listings are of their types: no calculated balance is below zero or past the
\* money type, whenever the ledger is read.  (reconcile_wallet.go:44-89)
TypeOK ==
    /\ places \in [Wallets -> Seq(Places)]
    /\ audit \in [Auditors -> Audits \cup {None}]
    /\ report \in [Auditors -> Reports \cup {None}]
    /\ listing \in [Listers -> Listings \cup {None}]

\* The stored and the calculated balance of a report come from one consistent view of the
\* data (DESAFIO.md:308): the ledger explains every balance, so they are equal.
ReportsAgree ==
    \A a \in Auditors : report[a] # None => report[a].stored = report[a].calculated

\* Each page is older than all the pages before it: no entry comes twice, whatever is
\* posted between two pages.  (ledger_repo.go:48-121, handler/wallet.go:159-224)
PagesGoBack ==
    \A l \in Listers : listing[l] # None =>
        \A p \in listing[l].page, q \in listing[l].earlier : Before(p, q)

\* A client that follows the cursors to the end has every entry that was there when it
\* began, with any page sizes and ties of created_at, while entries are posted between the
\* pages, also with an older clock.  (ledger_repo.go:48-121, handler/wallet.go:159-224)
ListingIsComplete ==
    \A l \in Listers : listing[l] # None /\ listing[l].cursor = None =>
        listing[l].existed \subseteq listing[l].earlier \cup listing[l].page

=============================================================================
