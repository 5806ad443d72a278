------------------------------ MODULE OrderBook ------------------------------
(***************************************************************************)
(* One side of an order book, kept from a stream of snapshots and deltas,  *)
(* in the three ways this repository has:                                  *)
(*                                                                         *)
(*   library  OrderBook::apply_update of src/src/types/orderbook.rs: levels *)
(*            are changed in place or inserted where they belong           *)
(*   probit   apply_deltas of probit_ws.rs (p2b_ws.rs, delta_ws.rs, ...):  *)
(*            changed in place or appended, then sorted                    *)
(*   exmo     apply_order_book_update of exmo_ws.rs (xt_ws.rs the same):   *)
(*            removed and appended, then sorted                            *)
(*                                                                         *)
(* All are fed the same messages.  A delta's level with amount 0 removes   *)
(* the price.  The stream keeps the order, but deltas can be lost, and can *)
(* come before the first snapshot; no adapter numbers them.                *)
(***************************************************************************)
EXTENDS Integers, Sequences, FiniteSets, SequencesExt

CONSTANTS
    MaxPrice,    \* prices are 1..MaxPrice
    MaxAmount,   \* amounts are 0..MaxAmount
    MaxBatch,    \* bound on the levels of a delta
    None

ASSUME BookAssumption ==
    /\ MaxPrice \in Nat /\ MaxAmount \in Nat /\ MaxBatch \in Nat
    /\ None \notin Seq([price : Nat, amount : Nat])

Prices  == 1..MaxPrice
Amounts == 0..MaxAmount
Levels  == [price : Prices, amount : Amounts]

VARIABLES
    side,       \* which side it is, fixed
    depth,      \* the exchange's book: the amount at each price
    library,    \* OrderBook.bids or .asks, kept with apply_update
    probit,     \* the side in probit's orderbook_cache, or None
    exmo,       \* the side in exmo's order_books, or None
    \* history
    phase       \* "before" the first snapshot, "following", or a delta was "lost" since

vars == <<side, depth, library, probit, exmo, phase>>

\* Bids are kept in descending order, asks in ascending.
Better(p, q) == IF side = "bid" THEN p > q ELSE p < q

\* The values s has on K, as a sequence in an order of K: each comes behind as many
\* as the order puts before it.
Arranged(s, K, Before(_, _)) ==
    [i \in 1..Cardinality(K) |->
        s[CHOOSE j \in K : Cardinality({k \in K : Before(k, j)}) = i - 1]]

\* sort_by() on the price, which is stable.
Sorted(s) ==
    LET Before(i, j) == \/ Better(s[i].price, s[j].price)
                        \/ s[i].price = s[j].price /\ i < j
    IN  Arranged(s, DOMAIN s, Before)

\* The places of price p in s, and the first of them.
PlacesOf(s, p) == {i \in DOMAIN s : s[i].price = p}
Position(s, p) == CHOOSE i \in PlacesOf(s, p) : \A j \in PlacesOf(s, p) : i <= j

\* retain() on the price.
Without(s, p) ==
    Arranged(s, DOMAIN s \ PlacesOf(s, p), <)

\* The levels of a delta are applied one after the other.
Applied(Level(_, _), s, delta) ==
    LET book[i \in 0..Len(delta)] == IF i = 0 THEN s ELSE Level(book[i - 1], delta[i])
    IN  book[Len(delta)]

-----------------------------------------------------------------------------
(* The three ways to apply a delta                                         *)

\* Faulty variant: a new level goes to the end.
InsertedLast(s, e) == Append(s, e)

\* add_bid() and add_ask(): a binary search for the place, the side being sorted.
Inserted(s, e) ==
    LET place == CHOOSE i \in 1..Len(s) + 1 :
                     \A j \in 1..Len(s) : j < i <=> Better(s[j].price, e.price)
    IN  InsertAt(s, place, e)

\* Faulty variant: a level is added whether its price is there or not.
LibraryLevelAdded(s, e) == IF e.amount = 0 THEN Without(s, e.price) ELSE Inserted(s, e)

LibraryLevel(s, e) ==
    IF e.amount = 0 THEN Without(s, e.price)
    ELSE IF PlacesOf(s, e.price) # {} THEN ReplaceAt(s, Position(s, e.price), e)
    ELSE Inserted(s, e)

LibraryDelta(s, delta) == Applied(LibraryLevel, s, delta)

\* Faulty variant: a level that was there keeps its amount.
ProbitLevelKeeps(s, e) ==
    IF e.amount = 0 THEN Without(s, e.price)
    ELSE IF PlacesOf(s, e.price) # {} THEN s ELSE Append(s, e)

ProbitLevel(s, e) ==
    IF PlacesOf(s, e.price) # {}
    THEN LET i == Position(s, e.price)
         IN  IF e.amount = 0 THEN RemoveAt(s, i) ELSE ReplaceAt(s, i, e)
    ELSE IF e.amount = 0 THEN s ELSE Append(s, e)

\* The delta was sorted when it was parsed.
ProbitDelta(s, delta) == Sorted(Applied(ProbitLevel, s, Sorted(delta)))

ExmoLevel(s, e) ==
    IF e.amount > 0 THEN Append(Without(s, e.price), e) ELSE Without(s, e.price)

\* A side the delta leaves out is left alone, and not sorted.
ExmoDelta(s, delta) == Sorted(Applied(ExmoLevel, s, delta))

-----------------------------------------------------------------------------
(* Messages                                                                *)

Init ==
    /\ side \in {"bid", "ask"}
    /\ depth = [p \in Prices |-> 0]
    /\ library = <<>>
    /\ probit = None
    /\ exmo = None
    /\ phase = "before"

\* The exchange's book, best price first or last.
Content ==
    LET level   == [p \in Prices |-> [price |-> p, amount |-> depth[p]]]
        offered == {p \in Prices : depth[p] > 0}
    IN  {Arranged(level, offered, Better),
         Arranged(level, offered, LAMBDA p, q : Better(q, p))}

\* A caller of the library starts a new book; exmo does not sort.
Snapshot ==
    \E content \in Content :
        /\ library' = LibraryDelta(<<>>, content)
        /\ probit' = Sorted(content)
        /\ exmo' = content
        /\ phase' = "following"
        /\ UNCHANGED <<side, depth>>

\* What a delta says last of a price counts.
Changed(d, delta) ==
    [p \in Prices |->
        LET said == PlacesOf(delta, p)
        IN  IF said = {} THEN d[p]
            ELSE delta[CHOOSE i \in said : \A j \in said : j <= i].amount]

\* Without a book the delta becomes the book, levels of amount 0 with it.
ProbitAfter(delta) == IF probit = None THEN Sorted(delta) ELSE ProbitDelta(probit, delta)

\* Faulty variant: without a book the delta becomes the book.
ExmoAfterAny(delta) == IF exmo = None THEN ExmoDelta(<<>>, delta) ELSE ExmoDelta(exmo, delta)

\* Without a book the delta is dropped.
ExmoAfter(delta) == IF exmo = None THEN None ELSE ExmoDelta(exmo, delta)

Delta(delta) ==
    /\ depth' = Changed(depth, delta)
    /\ library' = LibraryDelta(library, delta)
    /\ probit' = ProbitAfter(delta)
    /\ exmo' = ExmoAfter(delta)
    /\ UNCHANGED <<side, phase>>

Lose(delta) ==
    /\ depth' = Changed(depth, delta)
    /\ phase' = IF phase = "before" THEN "before" ELSE "lost"
    /\ UNCHANGED <<side, library, probit, exmo>>

Deltas == UNION {[1..n -> Levels] : n \in 0..MaxBatch}

Next ==
    \/ Snapshot
    \/ \E delta \in Deltas : Delta(delta) \/ Lose(delta)

Spec == Init /\ [][Next]_vars

-----------------------------------------------------------------------------
(* Properties                                                              *)

\* No price twice, and no level without an amount.
Sound(s) ==
    /\ \A i, j \in 1..Len(s) : i # j => s[i].price # s[j].price
    /\ \A i \in 1..Len(s) : s[i].amount > 0

\* Best price first: the documented order of OrderBook.bids and .asks.
InOrder(s) == \A i, j \in 1..Len(s) : i < j => ~Better(s[j].price, s[i].price)

Has(s, p, a) == \E i \in 1..Len(s) : s[i].price = p /\ s[i].amount = a

\* s has exactly the levels of the exchange's book.
Shows(s) == \A p \in Prices, a \in Amounts \ {0} : Has(s, p, a) <=> depth[p] = a

\* Whatever deltas were lost: no side has a price twice or a level without an amount,
\* probit's not once there was a snapshot, and the library's and probit's are in order.
TypeOK ==
    /\ side \in {"bid", "ask"}
    /\ depth \in [Prices -> Amounts]
    /\ library \in Seq(Levels) /\ Sound(library) /\ InOrder(library)
    /\ probit # None => probit \in Seq(Levels) /\ InOrder(probit)
    /\ exmo # None => exmo \in Seq(Levels) /\ Sound(exmo)
    /\ phase \in {"before", "following", "lost"}
    /\ phase # "before" => Sound(probit)

\* From a snapshot on, a book kept with apply_update shows the exchange's book after
\* every delta.
LibraryFollows == phase = "following" => Shows(library)

\* So does probit's, which sorts the levels of the delta first: a price that comes
\* twice ends at its last amount.
ProbitFollows == phase = "following" => Shows(probit)

\* exmo has no book, rather than part of one, before there was a snapshot; from then
\* on it shows the exchange's.
ExmoFollows ==
    /\ phase = "before" => exmo = None
    /\ phase = "following" => Shows(exmo)
=============================================================================
