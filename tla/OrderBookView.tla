---------------------------- MODULE OrderBookView ----------------------------
(***************************************************************************)
(* What a client sees of OrderBook: get_snapshot, and the abstract         *)
(* exchange that the book implements as long as no price is amended.       *)
(***************************************************************************)
EXTENDS OrderBook, Sequences

\* The order in which the map of a side is iterated: best price first.
Better(s, x, y) == IF s = "buy" THEN x > y ELSE x < y

\* The i-th price is the one that i - 1 others are better than.
SortedPrices(b, s) ==
  LET prices == DOMAIN b.levels[s]
  IN  [i \in 1 .. Cardinality(prices) |->
         CHOOSE x \in prices : Cardinality({y \in prices : Better(s, y, x)}) = i - 1]

PriceLevel(b, s, x) == [price |-> x, total_quantity |-> b.levels[s][x].total]

\* Wrong variant: the other end of the map, the last depth Limits of a side.
LastLevels(b, s, depth) ==
  LET prices == SortedPrices(b, s)
      shown  == Min({depth, Len(prices)})
  IN  [i \in 1 .. shown |-> PriceLevel(b, s, prices[Len(prices) - shown + i])]

\* The first depth Limits of a side.
Levels(b, s, depth) ==
  LET prices == SortedPrices(b, s)
  IN  [i \in 1 .. Min({depth, Len(prices)}) |-> PriceLevel(b, s, prices[i])]

\* get_snapshot, which print_book formats.
Snapshot(b, depth) == [bids |-> Levels(b, "buy", depth), asks |-> Levels(b, "sell", depth)]

-----------------------------------------------------------------------------
(* The order a client knows under an id is the object the lookup names.    *)

ClientOrders ==
  [id \in DOMAIN book.lookup |->
     LET o == book.heap[book.lookup[id]]
     IN  [side |-> o.side, price |-> o.price, quantity |-> o.quantity,
          age |-> book.lookup[id]]]

ClientDepth ==
  [s \in Side |-> [x \in DOMAIN book.levels[s] |-> book.levels[s][x].total]]

\* Object numbers serve as ages.
Exch == INSTANCE Exchange WITH orders <- ClientOrders, depth <- ClientDepth,
                               phase <- pc, Ages <- 1 .. MaxOrders

\* Without price amends the book is an exchange: every call and every
\* iteration of the matching loop is a step, or a stutter, of Exchange, so
\* lists, running totals and lookup never disagree with what clients own.
ImplementsExchange == Exch!Spec

\* The prices at which clients have orders open on a side.
OpenPrices(s) ==
  {ClientOrders[id].price : id \in {i \in DOMAIN ClientOrders : ClientOrders[i].side = s}}

\* As many open prices as asked for and there, best first, each with what is
\* published for it; every open price that is not shown is worse than these.
ShowsBest(s, depth, levels) ==
  LET shown == {levels[i].price : i \in 1 .. Len(levels)}
  IN  /\ Len(levels) = Min({depth, Cardinality(OpenPrices(s))})
      /\ shown \subseteq OpenPrices(s)
      /\ \A i \in 1 .. Len(levels) :
           levels[i].total_quantity = Exch!Published(ClientOrders)[s][levels[i].price]
      /\ \A i, j \in 1 .. Len(levels) :
           i < j => Better(s, levels[i].price, levels[j].price)
      /\ \A x \in OpenPrices(s) \ shown, y \in shown : Better(s, y, x)

\* A snapshot of any depth shows the best prices of each side first, not one
\* more nor less than asked for and there, and none that a price left out is
\* better than, each with the quantity that the clients have open there
\* (mod 2^64); between calls it is not crossed.
SnapshotExact ==
  pc # "destroyed" =>
    \A depth \in 0 .. MaxPrice + 1 :
      LET snap == Snapshot(book, depth)
      IN  /\ ShowsBest("buy", depth, snap.bids)
          /\ ShowsBest("sell", depth, snap.asks)
          /\ (pc = "idle" /\ snap.bids # <<>> /\ snap.asks # <<>>)
                => snap.bids[1].price < snap.asks[1].price
=============================================================================
