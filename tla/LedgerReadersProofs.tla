------------------------ MODULE LedgerReadersProofs ------------------------
(***************************************************************************)
(* The pages of a ledger, for any wallets, clients, page sizes, clocks and *)
(* ids, while any number of entries are posted between two pages; and the  *)
(* reconciliation, for any wallets and auditors, while movements are made  *)
(* between its two statements.  A sum over a list has no induction here:   *)
(* that it exists and is unique is carried along the behaviour, as every   *)
(* list grows from the empty one by one element at a time.                 *)
(***************************************************************************)
EXTENDS LedgerReaders, SequenceTheorems, TLAPS

\* Every page and the ones before it lie above the cursor, and every entry that was there
\* at the beginning was answered or lies below it.
Progressing(g) ==
    /\ g.existed \subseteq Entries(g.wallet)
    /\ \A p \in g.page, q \in g.earlier : Before(p, q)
    /\ g.cursor # None =>
          /\ g.cursor \in g.page
          /\ \A p \in g.page \ {g.cursor} : Before(g.cursor, p)
    /\ \A p \in g.existed :
          \/ p \in g.earlier \cup g.page
          \/ g.cursor # None /\ Before(p, g.cursor)

PagesInv ==
    /\ places \in [Wallets -> Seq(Places)]
    /\ listing \in [Listers -> Listings \cup {None}]
    /\ \A l \in Listers : listing[l] # None => listing[l] \in Listings /\ Progressing(listing[l])

LEMMA BeforeIsTransitive ==
    ASSUME NEW p \in Places, NEW q \in Places, NEW r \in Places, Before(p, q), Before(q, r)
    PROVE  Before(p, r)
<1>1. /\ p.created \in Int /\ q.created \in Int /\ r.created \in Int
      /\ p.id \in Int /\ q.id \in Int /\ r.id \in Int
  BY ReadersAssumption DEF Places
<1>. QED
  BY <1>1 DEF Before

LEMMA EntriesType ==
    ASSUME places \in [Wallets -> Seq(Places)], NEW w \in Wallets
    PROVE  Entries(w) \subseteq Places
BY ElementOfSeq, LenProperties DEF Entries

\* Entries are only added.
LEMMA PostAddsEntries ==
    ASSUME places \in [Wallets -> Seq(Places)], Post
    PROVE  /\ places' \in [Wallets -> Seq(Places)]
           /\ \A w \in Wallets : Entries(w) \subseteq Entries(w)'
<1>1. PICK p \in Places :
         places' = [w \in Wallets |->
                       IF movements'[w] = movements[w] THEN places[w] ELSE Append(places[w], p)]
  BY DEF Post
<1>2. ASSUME NEW w \in Wallets
      PROVE  places'[w] \in Seq(Places) /\ Entries(w) \subseteq Entries(w)'
  <2>1. /\ places[w] \in Seq(Places) /\ Len(places[w]) \in Nat
        /\ DOMAIN places[w] = 1 .. Len(places[w])
    BY LenProperties
  <2>2. CASE places'[w] = places[w]
    BY <2>1, <2>2 DEF Entries
  <2>3. CASE places'[w] = Append(places[w], p)
    <3>1. /\ places'[w] \in Seq(Places)
          /\ DOMAIN places'[w] = 1 .. Len(places[w]) + 1
          /\ \A k \in 1 .. Len(places[w]) : places'[w][k] = places[w][k]
      BY <2>1, <2>3, AppendProperties, LenProperties
    <3>. QED
      BY <2>1, <3>1 DEF Entries
  <2>. QED
    BY <1>1, <2>2, <2>3
<1>3. places' \in [Wallets -> Seq(Places)]
  BY <1>1, <1>2
<1>. QED
  BY <1>2, <1>3

\* An answer to a client that had everything down to the cursor from.
LEMMA AnswerProgresses ==
    ASSUME PagesInv, NEW l \in Listers, NEW w \in Wallets, NEW from \in Places \cup {None},
           NEW earlier \in SUBSET Places, NEW existed \in SUBSET Entries(w),
           Answer(l, w, from, earlier, existed),
           from = None => earlier = {},
           from # None => from \in earlier /\ \A q \in earlier \ {from} : Before(from, q),
           \A p \in existed : p \in earlier \/ from = None \/ Before(p, from)
    PROVE  PagesInv'
<1>1. PICK limit \in Limits, page \in SUBSET Entries(w), next \in Entries(w) \cup {None} :
         /\ GetByWalletID(page, w, from, limit)
         /\ NextCursor(page, limit, next)
         /\ listing' = [listing EXCEPT ![l] =
               [wallet |-> w, cursor |-> next, page |-> page, earlier |-> earlier,
                existed |-> existed]]
  BY DEF Answer
<1> DEFINE g == [wallet |-> w, cursor |-> next, page |-> page, earlier |-> earlier,
                 existed |-> existed]
           below == BelowCursor(w, from)
<1>2. Entries(w) \subseteq Places /\ limit \in Nat \ {0} /\ UNCHANGED places
  BY EntriesType, ReadersAssumption DEF PagesInv, Answer
<1>3. g \in Listings
  BY <1>1, <1>2 DEF Listings
<1>4. \A p \in page, q \in earlier : Before(p, q)
  <2>1. ASSUME NEW p \in page, NEW q \in earlier PROVE Before(p, q)
    <3>1. from # None /\ from \in Places
      OBVIOUS
    <3>2. p \in Places /\ q \in Places
      BY <1>2
    <3>3. page \subseteq below
      BY <1>1 DEF GetByWalletID
    <3>4. Before(p, from)
      BY <3>1, <3>3 DEF BelowCursor
    <3>5. q = from \/ Before(from, q)
      BY <3>1
    <3>. QED
      BY <3>1, <3>2, <3>4, <3>5, BeforeIsTransitive
  <2>. QED
    BY <2>1
<1>5. next # None => next \in page /\ \A p \in page \ {next} : Before(next, p)
  BY <1>1 DEF NextCursor
<1>6. ASSUME NEW p \in existed
      PROVE  p \in earlier \cup page \/ (next # None /\ Before(p, next))
  <2>1. CASE p \in below /\ p \notin page
    <3>1. Cardinality(page) \in 0 .. limit /\ ~(Cardinality(page) < limit)
      BY <1>1, <2>1 DEF GetByWalletID
    <3>2. Cardinality(page) = limit
      BY <1>2, <3>1
    <3>3. next \in page /\ next # None
      BY <1>1, <1>2, <3>2, NoneAssumption DEF NextCursor
    <3>. QED
      BY <1>1, <2>1, <3>3 DEF GetByWalletID
  <2>. QED
    BY <2>1 DEF BelowCursor
<1>7. Entries(w)' = Entries(w)
  BY <1>2 DEF Entries
<1>8. Progressing(g)'
  BY <1>4, <1>5, <1>6, <1>7 DEF Progressing, Before
<1>9. ASSUME NEW k \in Listers, k # l, listing[k] # None
      PROVE  Progressing(listing[k])'
  BY <1>1, <1>2, <1>9 DEF PagesInv, Progressing, Entries, Before
<1> HIDE DEF g
<1>10. listing' = [listing EXCEPT ![l] = g]
  BY <1>1 DEF g
<1>. QED
  BY <1>2, <1>3, <1>8, <1>9, <1>10 DEF PagesInv

LEMMA FirstPageProgresses ==
    ASSUME PagesInv, NEW l \in Listers, NEW w \in Wallets, FirstPage(l, w)
    PROVE  PagesInv'
BY AnswerProgresses DEF FirstPage

LEMMA FollowCursorProgresses ==
    ASSUME PagesInv, NEW l \in Listers, FollowCursor(l)
    PROVE  PagesInv'
<1> DEFINE got == listing[l]
<1>1. /\ got \in Listings /\ Progressing(got) /\ got.cursor # None
      /\ Answer(l, got.wallet, got.cursor, got.earlier \cup got.page, got.existed)
  BY DEF PagesInv, FollowCursor
<1> HIDE DEF got
<1>2. /\ got.wallet \in Wallets /\ got.cursor \in Places
      /\ got.earlier \cup got.page \in SUBSET Places
      /\ got.existed \in SUBSET Entries(got.wallet)
      /\ got.page \subseteq Places /\ got.earlier \subseteq Places
  BY <1>1 DEF Listings, Progressing
<1>3. got.cursor \in got.page
  BY <1>1 DEF Progressing
<1>4. ASSUME NEW q \in (got.earlier \cup got.page) \ {got.cursor}
      PROVE  Before(got.cursor, q)
  BY <1>1, <1>3, <1>4 DEF Progressing
<1>5. \A p \in got.existed : p \in got.earlier \cup got.page \/ Before(p, got.cursor)
  BY <1>1 DEF Progressing
<1>. QED
  BY <1>1, <1>2, <1>3, <1>4, <1>5, AnswerProgresses

LEMMA ReadersKeepPages == PagesInv /\ [ReadersNext]_vars => PagesInv'
<1> SUFFICES ASSUME PagesInv, [ReadersNext]_vars PROVE PagesInv'
  OBVIOUS
<1>1. ASSUME UNCHANGED listing, places' \in [Wallets -> Seq(Places)],
             \A w \in Wallets : Entries(w) \subseteq Entries(w)'
      PROVE  PagesInv'
  <2>1. ASSUME NEW l \in Listers, listing[l] # None
        PROVE  listing'[l] \in Listings /\ Progressing(listing[l])'
    <3>1. listing[l].wallet \in Wallets /\ Progressing(listing[l])
      BY <2>1 DEF PagesInv, Listings
    <3>. QED
      BY <1>1, <2>1, <3>1 DEF PagesInv, Progressing, Before
  <2>. QED
    BY <1>1, <2>1 DEF PagesInv
<1>2. CASE Post
  BY <1>1, <1>2, PostAddsEntries DEF Post, readerVars, PagesInv
<1>3. ASSUME UNCHANGED <<places, listing>> PROVE PagesInv'
  BY <1>1, <1>3 DEF PagesInv, Entries
<1>4. ASSUME NEW a \in Auditors,
             (\E w \in Wallets : ReadWallet(a, w)) \/ ReadLedger(a) \/ AbortAudit(a)
      PROVE  PagesInv'
  BY <1>3, <1>4 DEF ReadWallet, ReadLedger, AbortAudit
<1>5. ASSUME NEW l \in Listers, (\E w \in Wallets : FirstPage(l, w)) \/ FollowCursor(l)
      PROVE  PagesInv'
  BY <1>5, FirstPageProgresses, FollowCursorProgresses
<1>6. CASE UNCHANGED vars
  BY <1>3, <1>6 DEF vars, readerVars
<1>. QED
  BY <1>2, <1>4, <1>5, <1>6 DEF ReadersNext

\* The inductive invariant of the listings.
THEOREM PagesInvariant == ReadersSpec => []PagesInv
<1>1. ReadersInit => PagesInv
  <2>1. <<>> \in Seq(Places)
    BY EmptySeq
  <2>. QED
    BY <2>1 DEF ReadersInit, PagesInv
<1>. QED
  BY <1>1, ReadersKeepPages, PTL DEF ReadersSpec

\* No entry comes twice on the pages of a listing (ledger_repo.go:48-121).
THEOREM PagesAlwaysGoBack == ReadersSpec => []PagesGoBack
<1>1. PagesInv => PagesGoBack
  BY DEF PagesInv, Progressing, PagesGoBack
<1>. QED
  BY <1>1, PagesInvariant, PTL

\* No entry that was there at the beginning is missing at the end (ledger_repo.go:48-121).
THEOREM ListingsAreComplete == ReadersSpec => []ListingIsComplete
<1>1. PagesInv => ListingIsComplete
  BY DEF PagesInv, Progressing, ListingIsComplete
<1>. QED
  BY <1>1, PagesInvariant, PTL

-----------------------------------------------------------------------------
(* Sums.  What a recursive function yields for every list would take an induction on the     *)
(* list; along a behaviour the list is built entry by entry, and each step only needs that   *)
(* one entry more changes the sum by its cents.                                              *)

\* s holds the partial sums of the list.
PartialSums(s, list) ==
    s = [k \in 0 .. Len(list) |-> IF k = 0 THEN 0 ELSE s[k - 1] + list[k].cents]

AddsUpTo(list, x) ==
    /\ \E s : PartialSums(s, list)
    /\ \A s : PartialSums(s, list) => s[Len(list)] = x

MovementRecords == [txn : Nat, cents : Int]

LEMMA SameSum ==
    ASSUME NEW list, NEW other, NEW x, NEW y, AddsUpTo(list, x), other = list, y = x
    PROVE  AddsUpTo(other, y)
OBVIOUS

LEMMA SumIsUnique ==
    ASSUME NEW list, NEW x, AddsUpTo(list, x)
    PROVE  SumOf(list) = x
<1> DEFINE total == CHOOSE s : PartialSums(s, list)
<1>1. PartialSums(total, list)
  BY DEF AddsUpTo
<1>2. total[Len(list)] = x
  BY <1>1 DEF AddsUpTo
<1>3. SumOf(list) = total[Len(list)]
  BY DEF SumOf, PartialSums
<1>. QED
  BY <1>2, <1>3

LEMMA EmptySum == AddsUpTo(<<>>, 0)
<1>1. Len(<<>>) = 0
  OBVIOUS
<1>2. PartialSums([k \in 0 .. 0 |-> 0], <<>>)
  BY <1>1 DEF PartialSums
<1>3. ASSUME NEW s, PartialSums(s, <<>>) PROVE s[0] = 0
  BY <1>1, <1>3 DEF PartialSums
<1>. QED
  BY <1>1, <1>2, <1>3 DEF AddsUpTo

LEMMA AppendedSum ==
    ASSUME NEW list \in Seq(MovementRecords), NEW m \in MovementRecords, NEW x \in Int,
           AddsUpTo(list, x)
    PROVE  AddsUpTo(Append(list, m), x + m.cents)
<1> DEFINE longer == Append(list, m)
           n == Len(list)
<1>1. /\ n \in Nat /\ Len(longer) = n + 1
      /\ longer[n + 1] = m
      /\ \A k \in 1 .. n : longer[k] = list[k]
  BY LenProperties, AppendProperties
<1> HIDE DEF longer, n
<1>2. \E s : PartialSums(s, longer)
  <2>1. PICK s : PartialSums(s, list)
    BY DEF AddsUpTo
  <2>2. /\ \A k \in 0 .. n : s[k] = IF k = 0 THEN 0 ELSE s[k - 1] + list[k].cents
        /\ s = [k \in 0 .. n |-> s[k]]
    BY <2>1 DEF PartialSums, n
  <2> DEFINE t == [k \in 0 .. n + 1 |-> IF k = n + 1 THEN s[n] + m.cents ELSE s[k]]
  <2>3. ASSUME NEW k \in 0 .. n + 1
        PROVE  t[k] = IF k = 0 THEN 0 ELSE t[k - 1] + longer[k].cents
    <3>1. CASE k = n + 1
      BY <1>1, <3>1
    <3>2. CASE k # n + 1
      <4>1. k \in 0 .. n /\ (k # 0 => k - 1 \in 0 .. n + 1 /\ k - 1 # n + 1 /\ k \in 1 .. n)
        BY <1>1, <3>2
      <4>. QED
        BY <1>1, <2>2, <3>2, <4>1
    <3>. QED
      BY <3>1, <3>2
  <2>4. t = [k \in 0 .. n + 1 |-> t[k]]
    OBVIOUS
  <2> HIDE DEF t
  <2>5. PartialSums(t, longer)
    BY <1>1, <2>3, <2>4 DEF PartialSums
  <2>. QED
    BY <2>5
<1>3. ASSUME NEW t, PartialSums(t, longer) PROVE t[n + 1] = x + m.cents
  <2> DEFINE s == [k \in 0 .. n |-> t[k]]
  <2>1. \A k \in 0 .. n + 1 : t[k] = IF k = 0 THEN 0 ELSE t[k - 1] + longer[k].cents
    BY <1>1, <1>3 DEF PartialSums
  <2>2. ASSUME NEW k \in 0 .. n
        PROVE  s[k] = IF k = 0 THEN 0 ELSE s[k - 1] + list[k].cents
    <3>1. k \in 0 .. n + 1 /\ (k # 0 => k - 1 \in 0 .. n /\ k \in 1 .. n)
      BY <1>1
    <3>. QED
      BY <1>1, <2>1, <3>1
  <2>3. s = [k \in 0 .. n |-> s[k]] /\ s[n] = t[n]
    BY <1>1
  <2> HIDE DEF s
  <2>4. PartialSums(s, list)
    BY <2>2, <2>3 DEF PartialSums, n
  <2>5. t[n] = x
    BY <2>3, <2>4 DEF AddsUpTo, n
  <2>6. PICK k \in 0 .. n + 1 : k = n + 1 /\ k # 0 /\ k - 1 = n
    BY <1>1
  <2>7. t[k] = t[k - 1] + longer[k].cents
    BY <2>1, <2>6
  <2>. QED
    BY <1>1, <2>5, <2>6, <2>7
<1>. QED
  BY <1>1, <1>2, <1>3 DEF AddsUpTo, longer

-----------------------------------------------------------------------------
(* Balances and reports *)

Money(w) == IF balance[w] = None THEN 0 ELSE balance[w]

AccountsAddUp ==
    /\ balance \in [Wallets -> 0 .. MaxCents \cup {None}]
    /\ movements \in [Wallets -> Seq(MovementRecords)]
    /\ accepted \in Nat
    /\ \A w \in Wallets : AddsUpTo(movements[w], Money(w))

\* What was committed since the auditor read the balance brings it to what it is now.
AuditAddsUp(d) ==
    /\ balance[d.wallet] # None /\ d.seen <= Len(movements[d.wallet])
    /\ AddsUpTo(SubSeq(movements[d.wallet], d.seen + 1, Len(movements[d.wallet])),
                balance[d.wallet] - d.stored)

\* What was committed between the two statements makes the difference.
ReportAddsUp(r) ==
    /\ r.seen <= r.checked /\ r.checked <= Len(movements[r.wallet])
    /\ AddsUpTo(SubSeq(movements[r.wallet], r.seen + 1, r.checked), r.calculated - r.stored)

MoneyInv ==
    /\ AccountsAddUp
    /\ audit \in [Auditors -> Audits \cup {None}]
    /\ report \in [Auditors -> Reports \cup {None}]
    /\ \A a \in Auditors :
          /\ audit[a] # None => AuditAddsUp(audit[a])
          /\ report[a] # None => ReportAddsUp(report[a])

\* A wallet stays as it is, opens with nothing, or gets one movement, which is the
\* difference of its balances.
Stays(w) ==
    /\ movements'[w] = movements[w]
    /\ balance'[w] = balance[w] \/ (balance[w] = None /\ balance'[w] = 0)

Gets(w, m) ==
    /\ movements'[w] = Append(movements[w], m)
    /\ balance'[w] \in 0 .. MaxCents /\ balance'[w] = Money(w) + m.cents

LEMMA WritersStep ==
    ASSUME AccountsAddUp, Next
    PROVE  /\ balance' \in [Wallets -> 0 .. MaxCents \cup {None}]
           /\ accepted' \in Nat
           /\ movements' = [w \in Wallets |-> movements'[w]]
           /\ \A w \in Wallets : Stays(w) \/ \E m \in MovementRecords : Gets(w, m)
<1>1. MaxCents \in Nat /\ accepted \in Nat /\ None \notin 0 .. MaxCents
  BY ReadersAssumption, NoneAssumption DEF AccountsAddUp
<1>2. CASE Accept
  BY <1>1, <1>2 DEF Accept, AccountsAddUp, Stays
<1>3. ASSUME NEW w \in Wallets, OpenEmpty(w)
      PROVE  /\ balance' \in [Wallets -> 0 .. MaxCents \cup {None}]
             /\ accepted' \in Nat
             /\ movements' = [v \in Wallets |-> movements'[v]]
             /\ \A v \in Wallets : Stays(v)
  BY <1>1, <1>3 DEF OpenEmpty, AccountsAddUp, Stays
<1>4. ASSUME NEW w \in Wallets, NEW id \in Nat, NEW after \in 0 .. MaxCents, NEW cents \in Int,
             MoveTo(w, id, after, cents), after = Money(w) + cents
      PROVE  /\ balance' \in [Wallets -> 0 .. MaxCents \cup {None}]
             /\ movements' = [v \in Wallets |-> movements'[v]]
             /\ \A v \in Wallets : Stays(v) \/ \E m \in MovementRecords : Gets(v, m)
  <2>1. PICK m \in MovementRecords : m = Movement(id, cents)
    BY DEF MovementRecords, Movement
  <2>2. m.cents = cents
    BY <2>1 DEF Movement
  <2>3. Gets(w, m)
    BY <1>4, <2>1, <2>2 DEF MoveTo, Gets, AccountsAddUp
  <2>4. \A v \in Wallets : v # w => Stays(v)
    BY <1>4 DEF MoveTo, Stays, AccountsAddUp
  <2>5. /\ balance' \in [Wallets -> 0 .. MaxCents \cup {None}]
        /\ movements' = [v \in Wallets |-> movements'[v]]
    BY <1>4 DEF MoveTo, AccountsAddUp
  <2>. QED
    BY <2>3, <2>4, <2>5
<1>5. ASSUME NEW w \in Wallets, NEW cents \in 0 .. MaxCents, OpenWith(w, cents)
      PROVE  /\ accepted' \in Nat /\ cents \in Int /\ cents = Money(w) + cents
             /\ MoveTo(w, accepted', cents, cents)
  BY <1>1, <1>5 DEF OpenWith, Money
<1>6. ASSUME NEW w \in Wallets, NEW cents \in 0 .. MaxCents, NEW id \in 1 .. accepted + 1,
             Move(w, id, cents)
      PROVE  /\ accepted' \in Nat /\ id \in Nat
             /\ cents - balance[w] \in Int /\ cents = Money(w) + (cents - balance[w])
             /\ MoveTo(w, id, cents, cents - balance[w])
  <2>1. balance[w] \in 0 .. MaxCents
    BY <1>6 DEF Move, AccountsAddUp
  <2>. QED
    BY <1>1, <1>6, <2>1 DEF Move, Money
<1>. QED
  BY <1>2, <1>3, <1>4, <1>5, <1>6 DEF Next

LEMMA WalletStep ==
    ASSUME AccountsAddUp, NEW w \in Wallets, Stays(w) \/ \E m \in MovementRecords : Gets(w, m)
    PROVE  movements'[w] \in Seq(MovementRecords) /\ AddsUpTo(movements'[w], Money(w)')
<1>1. movements[w] \in Seq(MovementRecords) /\ AddsUpTo(movements[w], Money(w))
  BY DEF AccountsAddUp
<1>2. Money(w) \in Int
  BY ReadersAssumption DEF AccountsAddUp, Money
<1>3. CASE Stays(w)
  <2>1. Money(w)' = Money(w)
    BY <1>3 DEF Stays, Money
  <2>. QED
    BY <1>1, <1>3, <2>1 DEF Stays
<1>4. ASSUME NEW m \in MovementRecords, Gets(w, m)
      PROVE  movements'[w] \in Seq(MovementRecords) /\ AddsUpTo(movements'[w], Money(w)')
  <2>1. Money(w)' = Money(w) + m.cents
    BY <1>4, NoneAssumption DEF Gets, Money
  <2>2. movements'[w] \in Seq(MovementRecords)
    BY <1>1, <1>4, AppendProperties DEF Gets
  <2>. QED
    BY <1>1, <1>2, <1>4, <2>1, <2>2, AppendedSum DEF Gets
<1>. QED
  BY <1>3, <1>4

\* The part of a list after its first i elements grows with it.
LEMMA TailGrows ==
    ASSUME NEW list \in Seq(MovementRecords), NEW m \in MovementRecords, NEW i \in 0 .. Len(list)
    PROVE  /\ SubSeq(list, i + 1, Len(list)) \in Seq(MovementRecords)
           /\ SubSeq(Append(list, m), i + 1, Len(list) + 1)
                 = Append(SubSeq(list, i + 1, Len(list)), m)
<1> DEFINE n == Len(list)
           longer == Append(list, m)
           old == SubSeq(list, i + 1, n)
           new == SubSeq(longer, i + 1, n + 1)
<1>1. /\ n \in Nat /\ i \in Nat /\ longer \in Seq(MovementRecords) /\ Len(longer) = n + 1
      /\ \A k \in 1 .. n : longer[k] = list[k]
      /\ longer[n + 1] = m
  BY LenProperties, AppendProperties
<1>2. /\ old \in Seq(MovementRecords) /\ Len(old) = n - i
      /\ \A k \in 1 .. n - i : old[k] = list[i + k]
  <2>1. /\ \A k \in i + 1 .. n : list[k] \in MovementRecords
        /\ i + 1 \in Int /\ n \in Int
    BY <1>1, ElementOfSeq
  <2>2. /\ old \in Seq(MovementRecords)
        /\ Len(old) = IF i + 1 <= n THEN n - (i + 1) + 1 ELSE 0
        /\ \A k \in 1 .. n - (i + 1) + 1 : old[k] = list[i + 1 + k - 1]
    BY <2>1, SubSeqProperties
  <2>. QED
    BY <1>1, <2>2
<1>3. /\ new \in Seq(MovementRecords) /\ Len(new) = n + 1 - i
      /\ \A k \in 1 .. n + 1 - i : new[k] = longer[i + k]
  <2>1. /\ \A k \in i + 1 .. n + 1 : longer[k] \in MovementRecords
        /\ i + 1 \in Int /\ n + 1 \in Int
    BY <1>1, ElementOfSeq
  <2>2. /\ new \in Seq(MovementRecords)
        /\ Len(new) = IF i + 1 <= n + 1 THEN n + 1 - (i + 1) + 1 ELSE 0
        /\ \A k \in 1 .. n + 1 - (i + 1) + 1 : new[k] = longer[i + 1 + k - 1]
    BY <2>1, SubSeqProperties
  <2>. QED
    BY <1>1, <2>2
<1>4. /\ Append(old, m) \in Seq(MovementRecords) /\ Len(Append(old, m)) = n - i + 1
      /\ \A k \in 1 .. n - i : Append(old, m)[k] = old[k]
      /\ Append(old, m)[n - i + 1] = m
  BY <1>2, AppendProperties
<1> HIDE DEF old, new, longer, n
<1>5. ASSUME NEW k \in 1 .. n + 1 - i PROVE new[k] = Append(old, m)[k]
  <2>1. CASE k \in 1 .. n - i
    <3>1. i + k \in 1 .. n
      BY <1>1, <2>1 DEF n
    <3>. QED
      BY <1>1, <1>2, <1>3, <1>4, <2>1, <3>1
  <2>2. CASE k = n - i + 1
    <3>1. i + k = n + 1
      BY <1>1, <2>2
    <3>. QED
      BY <1>1, <1>3, <1>4, <2>2, <3>1
  <2>3. k \in 1 .. n - i \/ k = n - i + 1
    BY <1>1
  <2>. QED
    BY <2>1, <2>2, <2>3
<1>6. Len(new) = Len(Append(old, m)) /\ Len(new) = n + 1 - i
  BY <1>1, <1>3, <1>4
<1>7. new = Append(old, m)
  BY <1>3, <1>4, <1>5, <1>6, SeqEqual
<1>. QED
  BY <1>2, <1>7 DEF old, new, longer, n

\* Nothing was committed yet after the last element.
LEMMA EmptyTail ==
    ASSUME NEW list \in Seq(MovementRecords)
    PROVE  AddsUpTo(SubSeq(list, Len(list) + 1, Len(list)), 0)
<1>1. Len(list) \in Nat
  BY LenProperties
<1>2. SubSeq(list, Len(list) + 1, Len(list)) = <<>>
  BY <1>1, SubSeqEmpty
<1>. QED
  BY <1>2, EmptySum

\* What a report was made of stays in its place.
LEMMA PrefixStays ==
    ASSUME NEW list \in Seq(MovementRecords), NEW m \in MovementRecords,
           NEW i \in Nat, NEW j \in 0 .. Len(list)
    PROVE  SubSeq(Append(list, m), i + 1, j) = SubSeq(list, i + 1, j)
<1>1. /\ Len(list) \in Nat /\ Len(Append(list, m)) = Len(list) + 1
      /\ \A k \in 1 .. Len(list) : Append(list, m)[k] = list[k]
  BY LenProperties, AppendProperties
<1> DEFINE old == SubSeq(list, i + 1, j)
           new == SubSeq(Append(list, m), i + 1, j)
<1>2. old = [k \in 1 .. j - (i + 1) + 1 |-> list[i + 1 + k - 1]]
  BY <1>1
<1>3. new = [k \in 1 .. j - (i + 1) + 1 |-> Append(list, m)[i + 1 + k - 1]]
  BY <1>1
<1>4. ASSUME NEW k \in 1 .. j - (i + 1) + 1
      PROVE  Append(list, m)[i + 1 + k - 1] = list[i + 1 + k - 1]
  <2>1. i + 1 + k - 1 \in 1 .. Len(list)
    BY <1>1
  <2>. QED
    BY <1>1, <2>1
<1>. QED
  BY <1>2, <1>3, <1>4

LEMMA AuditSurvivesStep ==
    ASSUME AccountsAddUp, NEW d \in Audits, AuditAddsUp(d),
           Stays(d.wallet) \/ \E m \in MovementRecords : Gets(d.wallet, m)
    PROVE  AuditAddsUp(d)'
<1> DEFINE w == d.wallet
           list == movements[w]
<1>1. /\ w \in Wallets /\ d.seen \in Nat /\ d.stored \in 0 .. MaxCents
      /\ list \in Seq(MovementRecords) /\ Len(list) \in Nat
      /\ balance[w] \in 0 .. MaxCents /\ balance[w] # None
      /\ MaxCents \in Nat /\ d.seen \in 0 .. Len(list)
  BY ReadersAssumption, LenProperties DEF Audits, AccountsAddUp, AuditAddsUp
<1>2. CASE Stays(w)
  BY <1>1, <1>2 DEF Stays, AuditAddsUp
<1>3. ASSUME NEW m \in MovementRecords, Gets(w, m) PROVE AuditAddsUp(d)'
  <2> DEFINE old == SubSeq(list, d.seen + 1, Len(list))
  <2>1. /\ movements'[w] = Append(list, m) /\ balance'[w] \in 0 .. MaxCents
        /\ balance'[w] = balance[w] + m.cents /\ m.cents \in Int
    BY <1>1, <1>3 DEF Gets, Money, MovementRecords
  <2>2. Len(Append(list, m)) = Len(list) + 1
    BY <1>1, AppendProperties
  <2>3. /\ old \in Seq(MovementRecords)
        /\ SubSeq(Append(list, m), d.seen + 1, Len(list) + 1) = Append(old, m)
    BY <1>1, TailGrows
  <2>4. AddsUpTo(old, balance[w] - d.stored) /\ balance[w] - d.stored \in Int
    BY <1>1 DEF AuditAddsUp
  <2>5. AddsUpTo(Append(old, m), (balance[w] - d.stored) + m.cents)
    BY <2>3, <2>4, AppendedSum
  <2>6. (balance[w] - d.stored) + m.cents = balance'[w] - d.stored
    BY <1>1, <2>1
  <2>7. balance'[w] # None /\ d.seen <= Len(list) + 1
    BY <1>1, <2>1, NoneAssumption
  <2>8. SubSeq(movements'[w], d.seen + 1, Len(movements'[w])) = Append(old, m)
    BY <2>1, <2>2, <2>3
  <2> HIDE DEF w, list, old
  <2>9. AddsUpTo(SubSeq(movements'[w], d.seen + 1, Len(movements'[w])), balance'[w] - d.stored)
    BY <2>5, <2>6, <2>8, SameSum
  <2>. QED
    BY <2>1, <2>2, <2>7, <2>9 DEF AuditAddsUp, w
<1>. QED
  BY <1>2, <1>3

LEMMA ReportSurvivesStep ==
    ASSUME AccountsAddUp, NEW r \in Reports, ReportAddsUp(r),
           Stays(r.wallet) \/ \E m \in MovementRecords : Gets(r.wallet, m)
    PROVE  ReportAddsUp(r)'
<1> DEFINE w == r.wallet
           list == movements[w]
<1>1. /\ w \in Wallets /\ r.seen \in Nat /\ r.checked \in Nat
      /\ list \in Seq(MovementRecords) /\ Len(list) \in Nat
      /\ r.checked \in 0 .. Len(list)
  BY LenProperties DEF Reports, AccountsAddUp, ReportAddsUp
<1>2. CASE Stays(w)
  BY <1>1, <1>2 DEF Stays, ReportAddsUp, AddsUpTo, PartialSums
<1>3. ASSUME NEW m \in MovementRecords, Gets(w, m) PROVE ReportAddsUp(r)'
  <2>1. movements'[w] = Append(list, m)
    BY <1>3 DEF Gets
  <2>2. Len(Append(list, m)) = Len(list) + 1
    BY <1>1, AppendProperties
  <2>3. SubSeq(Append(list, m), r.seen + 1, r.checked) = SubSeq(list, r.seen + 1, r.checked)
    BY <1>1, PrefixStays
  <2>4. r.seen <= r.checked /\ r.checked <= Len(list) + 1
    BY <1>1 DEF ReportAddsUp
  <2>5. SubSeq(movements'[w], r.seen + 1, r.checked) = SubSeq(list, r.seen + 1, r.checked)
    BY <2>1, <2>3
  <2>6. AddsUpTo(SubSeq(list, r.seen + 1, r.checked), r.calculated - r.stored)
    BY DEF ReportAddsUp
  <2> HIDE DEF w, list
  <2>7. AddsUpTo(SubSeq(movements'[w], r.seen + 1, r.checked), r.calculated - r.stored)
    BY <2>5, <2>6, SameSum
  <2>. QED
    BY <2>1, <2>2, <2>4, <2>7 DEF ReportAddsUp, w
<1>. QED
  BY <1>2, <1>3

LEMMA PostKeepsMoney ==
    ASSUME MoneyInv, Post
    PROVE  MoneyInv'
<1>1. Next /\ UNCHANGED <<audit, report>> /\ AccountsAddUp
  BY DEF Post, readerVars, MoneyInv
<1>2. /\ balance' \in [Wallets -> 0 .. MaxCents \cup {None}]
      /\ accepted' \in Nat
      /\ movements' = [w \in Wallets |-> movements'[w]]
      /\ \A w \in Wallets : Stays(w) \/ \E m \in MovementRecords : Gets(w, m)
  BY <1>1, WritersStep
<1>3. ASSUME NEW w \in Wallets
      PROVE  movements'[w] \in Seq(MovementRecords) /\ AddsUpTo(movements[w], Money(w))'
  <2>1. movements'[w] \in Seq(MovementRecords) /\ AddsUpTo(movements'[w], Money(w)')
    BY <1>1, <1>2, WalletStep
  <2>. QED
    BY <2>1 DEF AddsUpTo, PartialSums
<1>4. AccountsAddUp'
  <2>1. movements' \in [Wallets -> Seq(MovementRecords)]
    BY <1>2, <1>3
  <2>. QED
    BY <1>2, <1>3, <2>1 DEF AccountsAddUp
<1>5. ASSUME NEW a \in Auditors, audit[a] # None
      PROVE  AuditAddsUp(audit[a])'
  <2>1. audit[a] \in Audits /\ AuditAddsUp(audit[a]) /\ audit[a].wallet \in Wallets
    BY <1>5 DEF MoneyInv, Audits
  <2>2. ASSUME NEW d, d = audit[a] PROVE AuditAddsUp(d)'
    BY <1>1, <1>2, <2>1, <2>2, AuditSurvivesStep
  <2>. QED
    BY <1>1, <2>2 DEF AuditAddsUp, AddsUpTo, PartialSums
<1>6. ASSUME NEW a \in Auditors, report[a] # None
      PROVE  ReportAddsUp(report[a])'
  <2>1. report[a] \in Reports /\ ReportAddsUp(report[a]) /\ report[a].wallet \in Wallets
    BY <1>6 DEF MoneyInv, Reports
  <2>2. ASSUME NEW r, r = report[a] PROVE ReportAddsUp(r)'
    BY <1>1, <1>2, <2>1, <2>2, ReportSurvivesStep
  <2>. QED
    BY <1>1, <2>2 DEF ReportAddsUp, AddsUpTo, PartialSums
<1>. QED
  BY <1>1, <1>4, <1>5, <1>6 DEF MoneyInv

LEMMA ReadWalletKeepsMoney ==
    ASSUME MoneyInv, NEW a \in Auditors, NEW w \in Wallets, ReadWallet(a, w)
    PROVE  MoneyInv'
<1> DEFINE list == movements[w]
<1>1. /\ report' = [report EXCEPT ![a] = None]
      /\ UNCHANGED accountVars
  BY DEF ReadWallet
<1>2. /\ list \in Seq(MovementRecords) /\ Len(list) \in Nat
      /\ balance[w] # None /\ balance[w] \in 0 .. MaxCents /\ MaxCents \in Nat
  BY ReadersAssumption, LenProperties DEF MoneyInv, AccountsAddUp, ReadWallet
<1>3. PICK d \in Audits : d = [wallet |-> w, stored |-> balance[w], seen |-> Len(list)]
  BY <1>2 DEF Audits
<1>4. AuditAddsUp(d)'
  <2>1. balance[w] - d.stored = 0 /\ d.wallet = w /\ d.seen = Len(list)
    BY <1>2, <1>3
  <2>2. AddsUpTo(SubSeq(list, Len(list) + 1, Len(list)), 0)
    BY <1>2, EmptyTail
  <2>3. AddsUpTo(SubSeq(list, d.seen + 1, Len(list)), balance[w] - d.stored)
    BY <2>1, <2>2, SameSum
  <2>. QED
    BY <1>1, <1>2, <2>1, <2>3 DEF AuditAddsUp, accountVars
<1>5. AccountsAddUp'
  BY <1>1 DEF accountVars, MoneyInv, AccountsAddUp, Money
<1>6. ASSUME NEW b \in Auditors, audit'[b] # None
      PROVE  AuditAddsUp(audit[b])'
  <2>1. CASE b = a
    <3>1. audit'[b] = d
      BY <1>3, <2>1 DEF MoneyInv, ReadWallet
    <3>. QED
      BY <1>4, <3>1 DEF AuditAddsUp
  <2>2. CASE b # a
    BY <1>1, <1>6, <2>2 DEF MoneyInv, AuditAddsUp, accountVars, ReadWallet
  <2>. QED
    BY <2>1, <2>2
<1>7. ASSUME NEW b \in Auditors, report'[b] # None
      PROVE  ReportAddsUp(report[b])'
  BY <1>1, <1>7 DEF MoneyInv, ReportAddsUp, accountVars
<1>. QED
  <2>1. audit' \in [Auditors -> Audits \cup {None}]
    BY <1>3 DEF MoneyInv, ReadWallet
  <2>2. report' \in [Auditors -> Reports \cup {None}]
    BY <1>1 DEF MoneyInv
  <2>. QED
    BY <1>5, <1>6, <1>7, <2>1, <2>2 DEF MoneyInv

LEMMA ReadLedgerKeepsMoney ==
    ASSUME MoneyInv, NEW a \in Auditors, ReadLedger(a)
    PROVE  MoneyInv'
<1> DEFINE d == audit[a]
           w == d.wallet
           list == movements[w]
<1>1. /\ audit' = [audit EXCEPT ![a] = None]
      /\ UNCHANGED accountVars
  BY DEF ReadLedger
<1>2. d \in Audits /\ AuditAddsUp(d)
  BY DEF ReadLedger, MoneyInv
<1>3. /\ w \in Wallets /\ d.stored \in 0 .. MaxCents /\ d.seen \in Nat
      /\ list \in Seq(MovementRecords) /\ Len(list) \in Nat
      /\ balance[w] # None /\ balance[w] \in 0 .. MaxCents
  BY <1>2, LenProperties DEF Audits, AuditAddsUp, MoneyInv, AccountsAddUp
<1>4. CalculateBalance(w) = balance[w]
  <2>1. AddsUpTo(list, Money(w)) /\ Money(w) = balance[w]
    BY <1>3 DEF MoneyInv, AccountsAddUp, Money
  <2>. QED
    BY <2>1, SumIsUnique DEF CalculateBalance
<1>5. PICK r \in Reports :
         r = [stored |-> d.stored, calculated |-> balance[w], checked |-> Len(list),
              wallet |-> w, seen |-> d.seen]
  BY <1>3 DEF Reports
<1>6. report' = [report EXCEPT ![a] = r]
  BY <1>4, <1>5 DEF ReadLedger
<1>7. ReportAddsUp(r)'
  <2>1. /\ d.seen <= Len(list)
        /\ AddsUpTo(SubSeq(list, d.seen + 1, Len(list)), balance[w] - d.stored)
    BY <1>2 DEF AuditAddsUp
  <2>2. movements'[r.wallet] = list /\ r.seen = d.seen /\ r.checked = Len(list)
    BY <1>1, <1>5 DEF accountVars
  <2>3. r.calculated - r.stored = balance[w] - d.stored
    BY <1>5
  <2> HIDE DEF list, w, d
  <2>4. AddsUpTo(SubSeq(list, r.seen + 1, r.checked), r.calculated - r.stored)
    BY <2>1, <2>2, <2>3
  <2>. QED
    BY <1>3, <2>1, <2>2, <2>4 DEF ReportAddsUp
<1>8. AccountsAddUp'
  BY <1>1 DEF accountVars, MoneyInv, AccountsAddUp, Money
<1>9. ASSUME NEW b \in Auditors, audit'[b] # None
      PROVE  AuditAddsUp(audit[b])'
  BY <1>1, <1>9 DEF MoneyInv, AuditAddsUp, accountVars
<1>10. ASSUME NEW b \in Auditors, report'[b] # None
       PROVE  ReportAddsUp(report[b])'
  <2>1. CASE b = a
    <3>1. report'[b] = r
      BY <1>6, <2>1 DEF MoneyInv
    <3>. QED
      BY <1>7, <3>1 DEF ReportAddsUp
  <2>2. CASE b # a
    BY <1>1, <1>6, <1>10, <2>2 DEF MoneyInv, ReportAddsUp, accountVars
  <2>. QED
    BY <2>1, <2>2
<1>. QED
  BY <1>1, <1>6, <1>8, <1>9, <1>10 DEF MoneyInv

LEMMA ReadersKeepMoney == MoneyInv /\ [ReadersNext]_vars => MoneyInv'
<1> SUFFICES ASSUME MoneyInv, [ReadersNext]_vars PROVE MoneyInv'
  OBVIOUS
<1>1. ASSUME UNCHANGED <<accountVars, audit, report>> PROVE MoneyInv'
  BY <1>1 DEF accountVars, MoneyInv, AccountsAddUp, Money, AuditAddsUp, ReportAddsUp
<1>2. CASE Post
  BY <1>2, PostKeepsMoney
<1>3. ASSUME NEW a \in Auditors, NEW w \in Wallets, ReadWallet(a, w) PROVE MoneyInv'
  BY <1>3, ReadWalletKeepsMoney
<1>4. ASSUME NEW a \in Auditors, ReadLedger(a) PROVE MoneyInv'
  BY <1>4, ReadLedgerKeepsMoney
<1>5. ASSUME NEW a \in Auditors, AbortAudit(a) PROVE MoneyInv'
  BY <1>5 DEF AbortAudit, accountVars, MoneyInv, AccountsAddUp, Money, AuditAddsUp, ReportAddsUp
<1>6. ASSUME NEW l \in Listers, (\E w \in Wallets : FirstPage(l, w)) \/ FollowCursor(l)
      PROVE  MoneyInv'
  BY <1>1, <1>6 DEF FirstPage, FollowCursor, Answer
<1>7. CASE UNCHANGED vars
  BY <1>1, <1>7 DEF vars, readerVars
<1>. QED
  BY <1>2, <1>3, <1>4, <1>5, <1>6, <1>7 DEF ReadersNext

\* The inductive invariant of the reconciliation: every balance is the sum of its ledger,
\* and what an auditor has read so far differs from it by the entries committed since.
THEOREM MoneyInvariant == ReadersSpec => []MoneyInv
<1>1. ReadersInit => MoneyInv
  <2> SUFFICES ASSUME ReadersInit PROVE MoneyInv
    OBVIOUS
  <2>1. <<>> \in Seq(MovementRecords)
    BY EmptySeq
  <2>2. \A w \in Wallets : movements[w] = <<>> /\ Money(w) = 0
    BY DEF ReadersInit, Init, Money
  <2>3. AccountsAddUp
    BY <2>1, <2>2, EmptySum DEF ReadersInit, Init, AccountsAddUp
  <2>. QED
    BY <2>3 DEF ReadersInit, MoneyInv
<1>. QED
  BY <1>1, ReadersKeepMoney, PTL DEF ReadersSpec

\* What a reconciliation reports is in range, whatever moves while it reads
\* (reconcile_wallet.go:44-89).
THEOREM ReadersTypes == ReadersSpec => []TypeOK
<1>1. PagesInv /\ MoneyInv => TypeOK
  BY DEF PagesInv, MoneyInv, TypeOK
<1>. QED
  BY <1>1, PagesInvariant, MoneyInvariant, PTL

\* A report's two sums differ by what the entries committed between its two statements add
\* up to: a wallet that did not move meanwhile is never reported as divergent.
DifferencesAreMovements ==
    \A a \in Auditors : report[a] # None =>
        LET r == report[a]
        IN r.calculated - r.stored = SumOf(SubSeq(movements[r.wallet], r.seen + 1, r.checked))

\* A difference that a reconciliation reports is what was committed between its two
\* statements (reconcile_wallet.go:44-89): the two reads of different moments are the only
\* way to one.
THEOREM DivergencesAreMovements == ReadersSpec => []DifferencesAreMovements
<1>1. MoneyInv => DifferencesAreMovements
  BY SumIsUnique DEF MoneyInv, ReportAddsUp, DifferencesAreMovements
<1>. QED
  BY <1>1, MoneyInvariant, PTL

=============================================================================
