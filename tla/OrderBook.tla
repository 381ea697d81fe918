------------------------------ MODULE OrderBook ------------------------------
(***************************************************************************)
(* The limit order book of orderbooks/order_book.{h,cpp}: add, cancel and  *)
(* amend requests, the matching loop, and the destructor.                  *)
(*                                                                         *)
(* A book is a record of the three structures the class keeps:             *)
(*   heap    the Order objects that are allocated (new / delete)           *)
(*   levels  bids_ and asks_: for each side, price |-> Limit               *)
(*   lookup  order_lookup_: order id |-> Order*                            *)
(* Order objects are numbered in the order they are allocated, and a       *)
(* number stands for the Order*.  An object is pushed on one list, right   *)
(* after it is allocated, so a Limit's std::list is the set of its         *)
(* objects read in numeric order: push_back adds the largest number,       *)
(* front is the smallest, remove_if and pop_front are set differences.     *)
(*                                                                         *)
(* Each member function is an operator from books to books, composed as    *)
(* the code composes its calls.  match_orders is a loop: one step of the   *)
(* specification per iteration, during which no request is accepted (the   *)
(* class is used by one thread).                                           *)
(*                                                                         *)
(* The operators in sections marked "Wrong variants" are used by nothing:  *)
(* each is a mistake the definition after it could have, and some property *)
(* fails when it is put in that definition's place.                        *)
(***************************************************************************)
EXTENDS Integers, FiniteSets, FiniteSetsExt, Functions

CONSTANTS
  Ids,          \* order ids a client may use
  MaxPrice,     \* prices are ranks 1..MaxPrice: only their order matters
  Quantities,   \* quantities a client may ask for
  Wrap,         \* 2^64 in the code: totals are unsigned and wrap around
  Ticks,        \* how far the clock may advance between two readings
  PriceAmends,  \* whether clients ever amend the price of an order
  MaxOrders     \* bound on the number of Order objects ever allocated

ASSUME MaxPriceAssumption   == MaxPrice \in Nat
ASSUME WrapAssumption       == Wrap \in Nat \ {0}
ASSUME QuantitiesAssumption == Quantities \subseteq 0 .. Wrap - 1
ASSUME TicksAssumption      == Ticks \subseteq Nat
ASSUME MaxOrdersAssumption  == MaxOrders \in Nat
ASSUME PriceAmendsAssumption == PriceAmends \in BOOLEAN

VARIABLES
  book,    \* the record [heap, levels, lookup]
  pc,      \* "idle": between calls; "matching": in match_orders; "destroyed"
  next,    \* number of the next Order object
  clock    \* last value read from the clock

vars == <<book, pc, next, clock>>

Side   == {"buy", "sell"}
Prices == 1 .. MaxPrice
Order  == [id : Ids, side : Side, price : Prices, quantity : 0 .. Wrap - 1,
           timestamp : Nat]
Limit  == [orders : SUBSET Nat, total : 0 .. Wrap - 1]

-----------------------------------------------------------------------------
(* Maps, and the books they make up.                                       *)

Put(f, x, v) == [y \in DOMAIN f \cup {x} |-> IF y = x THEN v ELSE f[y]]
Erase(f, x)  == Restrict(f, DOMAIN f \ {x})

EmptyBook == [heap   |-> [p \in {} |-> 0],
              levels |-> [s \in Side |-> [x \in {} |-> 0]],
              lookup |-> [i \in {} |-> 0]]

\* std::map::operator[]: a missing price is inserted with an empty Limit.
LimitAt(b, s, x) ==
  IF x \in DOMAIN b.levels[s] THEN b.levels[s][x] ELSE [orders |-> {}, total |-> 0]

\* Wrong variant: the Limit is never erased.
KeepAlways(level, x, limit) == Put(level, x, limit)

\* The Limit at a price, erased from the map once its list is empty.
KeepUnlessEmpty(level, x, limit) ==
  IF limit.orders = {} THEN Erase(level, x) ELSE Put(level, x, limit)

-----------------------------------------------------------------------------
(* The member functions.                                                   *)

\* add_order up to its call of match_orders.
AddIn(b, p, o) ==
  IF o.id \in DOMAIN b.lookup THEN b
  ELSE LET limit == LimitAt(b, o.side, o.price)
       IN  [heap   |-> Put(b.heap, p, o),
            lookup |-> Put(b.lookup, o.id, p),
            levels |-> [b.levels EXCEPT ![o.side] =
                          Put(@, o.price,
                              [orders |-> limit.orders \cup {p},
                               total  |-> (limit.total + o.quantity) % Wrap])]]

\* The remove_if of cancel_order.
RemoveIf(b, limit, id) == {r \in limit.orders : b.heap[r].id # id}

\* Wrong variant: the object is not deleted.
KeepObject(b, p) == b.heap

\* The delete of cancel_order.
Delete(b, p) == Erase(b.heap, p)

\* cancel_order.  remove_if drops every entry of that list with this id; only
\* the object the lookup names is deleted.
CancelIn(b, id) ==
  IF id \notin DOMAIN b.lookup THEN b
  ELSE LET p     == b.lookup[id]
           o     == b.heap[p]
           level == b.levels[o.side]
           limit == level[o.price]
           rest  == [orders |-> RemoveIf(b, limit, id),
                     total  |-> (limit.total - o.quantity) % Wrap]
       IN  [heap   |-> Delete(b, p),
            lookup |-> Erase(b.lookup, id),
            levels |-> [b.levels EXCEPT ![o.side] =
                          IF o.price \in DOMAIN level
                          THEN KeepUnlessEmpty(@, o.price, rest) ELSE @]]

\* Wrong variant: the new quantity is not added to the total.
ResizeOrderOnly(b, id, quantity) == [b EXCEPT !.heap[b.lookup[id]].quantity = quantity]

\* amend_order when only the quantity changes: the order keeps its place.
ResizeIn(b, id, quantity) ==
  LET p     == b.lookup[id]
      o     == b.heap[p]
      level == b.levels[o.side]
  IN  IF o.price \notin DOMAIN level THEN b
      ELSE [b EXCEPT !.heap[p].quantity = quantity,
                     !.levels[o.side][o.price].total = (@ - o.quantity + quantity) % Wrap]

\* Wrong variant: the order is changed where it stands.
RepriceInPlace(b, p, id, price, quantity, now) ==
  [b EXCEPT !.heap[b.lookup[id]].price = price, !.heap[b.lookup[id]].quantity = quantity]

\* amend_order when the price changes.  The lookup entry is erased before
\* cancel_order is called, so cancel_order finds nothing to cancel.
RepriceIn(b, p, id, price, quantity, now) ==
  LET amended == [b.heap[b.lookup[id]] EXCEPT !.price = price,
                                              !.quantity = quantity,
                                              !.timestamp = now]
      erased  == [b EXCEPT !.lookup = Erase(b.lookup, id)]
  IN  AddIn(CancelIn(erased, id), p, amended)

-----------------------------------------------------------------------------
(* One iteration of match_orders.                                          *)

BestBid(b) == Max(DOMAIN b.levels["buy"])
BestAsk(b) == Min(DOMAIN b.levels["sell"])

\* Wrong variants: equal prices do not trade; any two prices trade.
CrossedStrictly(b) ==
  /\ DOMAIN b.levels["buy"] # {}
  /\ DOMAIN b.levels["sell"] # {}
  /\ BestBid(b) > BestAsk(b)
BothSides(b) == DOMAIN b.levels["buy"] # {} /\ DOMAIN b.levels["sell"] # {}

\* The loop goes on while the best bid reaches the best ask.
Crossed(b) ==
  /\ DOMAIN b.levels["buy"] # {}
  /\ DOMAIN b.levels["sell"] # {}
  /\ BestBid(b) >= BestAsk(b)

\* Wrong variant: the newest order of the list.
BackOrder(limit) == Max(limit.orders)

FrontOrder(limit) == Min(limit.orders)
BidOrder(b)  == FrontOrder(b.levels["buy"][BestBid(b)])
AskOrder(b)  == FrontOrder(b.levels["sell"][BestAsk(b)])

\* Wrong variant: the bid's quantity, however small the ask is.
BidQuantity(b) == b.heap[BidOrder(b)].quantity

TradeQuantity(b) == Min({b.heap[BidOrder(b)].quantity, b.heap[AskOrder(b)].quantity})

\* Wrong variant: the ask always sets the price.
AskPrice(b) == b.heap[AskOrder(b)].price

\* The older order sets the price; on a tie it is the ask's.
TradePrice(b) ==
  LET bid == b.heap[BidOrder(b)]
      ask == b.heap[AskOrder(b)]
  IN  IF bid.timestamp < ask.timestamp THEN bid.price ELSE ask.price

\* Wrong variant: only the strictly smaller order is filled, and two equal
\* ones are left with nothing to trade.
FilledSmaller(b) ==
  {p \in {BidOrder(b), AskOrder(b)} :
     \A r \in {BidOrder(b), AskOrder(b)} \ {p} : b.heap[p].quantity < b.heap[r].quantity}

\* The orders a trade fills completely.
Filled(b) == {p \in {BidOrder(b), AskOrder(b)} : b.heap[p].quantity = TradeQuantity(b)}

\* Wrong variants: a partial fill also loses its entry; no entry is erased.
TradedIds(b) == {b.heap[BidOrder(b)].id, b.heap[AskOrder(b)].id}
NoIds(b)     == {}

\* The ids whose lookup entries a trade erases.
FilledIds(b) == {b.heap[p].id : p \in Filled(b)}

\* The Limit an order stands in, after the trade.
Traded(b, limit) == [orders |-> limit.orders \ Filled(b),
                     total  |-> (limit.total - TradeQuantity(b)) % Wrap]

\* Filled orders leave their lists and are deleted, and the lookup entries
\* with their ids are erased, whatever object these name.
TradeIn(b) ==
  LET q == TradeQuantity(b)
  IN  [heap   |-> [p \in DOMAIN b.heap \ Filled(b) |->
                     IF p \in {BidOrder(b), AskOrder(b)}
                     THEN [b.heap[p] EXCEPT !.quantity = @ - q] ELSE b.heap[p]],
       lookup |-> Restrict(b.lookup, DOMAIN b.lookup \ FilledIds(b)),
       levels |-> [b.levels EXCEPT
                     !["buy"]  = KeepUnlessEmpty(@, BestBid(b), Traded(b, @[BestBid(b)])),
                     !["sell"] = KeepUnlessEmpty(@, BestAsk(b), Traded(b, @[BestAsk(b)]))]]

-----------------------------------------------------------------------------
(* The client's requests, the loop, and the destructor.                    *)

Init ==
  /\ book  = EmptyBook
  /\ pc    = "idle"
  /\ next  = 1
  /\ clock = 0

Add(id, s, x, q) ==
  /\ pc = "idle"
  /\ next <= MaxOrders
  /\ \/ /\ id \in DOMAIN book.lookup            \* refused: the id exists
        /\ UNCHANGED vars
     \/ /\ id \notin DOMAIN book.lookup
        /\ \E t \in Ticks : clock' = clock + t
        /\ book' = AddIn(book, next, [id |-> id, side |-> s, price |-> x,
                                      quantity |-> q, timestamp |-> clock'])
        /\ next' = next + 1
        /\ pc' = "matching"

Cancel(id) ==
  /\ pc = "idle"
  /\ book' = CancelIn(book, id)
  /\ UNCHANGED <<pc, next, clock>>

AmendPrice(id, x, q) ==
  /\ PriceAmends
  /\ next <= MaxOrders
  /\ x # book.heap[book.lookup[id]].price
  /\ \E t \in Ticks : clock' = clock + t
  /\ book' = RepriceIn(book, next, id, x, q, clock')
  /\ next' = next + 1
  /\ pc' = "matching"

AmendQuantity(id, q) ==
  /\ q # book.heap[book.lookup[id]].quantity
  /\ book' = ResizeIn(book, id, q)
  /\ UNCHANGED <<pc, next, clock>>

Amend(id, x, q) ==
  /\ pc = "idle"
  /\ \/ id \notin DOMAIN book.lookup /\ UNCHANGED vars
     \/ id \in DOMAIN book.lookup /\ AmendPrice(id, x, q)
     \/ /\ id \in DOMAIN book.lookup
        /\ x = book.heap[book.lookup[id]].price
        /\ AmendQuantity(id, q)

MatchOrders ==
  /\ pc = "matching"
  /\ \/ Crossed(book) /\ book' = TradeIn(book) /\ pc' = pc
     \/ ~Crossed(book) /\ book' = book /\ pc' = "idle"
  /\ UNCHANGED <<next, clock>>

\* ~OrderBook deletes the objects the lookup names; the maps go with it.
Destroy ==
  /\ pc = "idle"
  /\ pc' = "destroyed"
  /\ book' = [EmptyBook EXCEPT
                 !.heap = Restrict(book.heap, DOMAIN book.heap \ Range(book.lookup))]
  /\ UNCHANGED <<next, clock>>

Next ==
  \/ \E id \in Ids, s \in Side, x \in Prices, q \in Quantities : Add(id, s, x, q)
  \/ \E id \in Ids : Cancel(id)
  \/ \E id \in Ids, x \in Prices, q \in Quantities : Amend(id, x, q)
  \/ MatchOrders
  \/ Destroy

Spec == Init /\ [][Next]_vars

-----------------------------------------------------------------------------
(* Properties.                                                             *)

\* The orders that stand on some list.
OnSide(b, s) == UNION {b.levels[s][x].orders : x \in DOMAIN b.levels[s]}
Resting(b)   == OnSide(b, "buy") \cup OnSide(b, "sell")

\* Every structure has the shape its declaration gives it.
TypeOK ==
  /\ DOMAIN book.heap \subseteq 1 .. next - 1
  /\ \A p \in DOMAIN book.heap : book.heap[p] \in Order
  /\ DOMAIN book.levels = Side
  /\ \A s \in Side : /\ DOMAIN book.levels[s] \subseteq Prices
                     /\ \A x \in DOMAIN book.levels[s] : book.levels[s][x] \in Limit
  /\ DOMAIN book.lookup \subseteq Ids
  /\ pc \in {"idle", "matching", "destroyed"}
  /\ next \in 1 .. MaxOrders + 1
  /\ clock \in Nat

\* No use after free: every Order* on a list or in the lookup points at an
\* object that is still allocated, whatever sequence of calls led here; the
\* code dereferences them in remove_if, in the matching loop and in amend.
NoDanglingPointer ==
  /\ \A s \in Side : \A x \in DOMAIN book.levels[s] :
       book.levels[s][x].orders \subseteq DOMAIN book.heap
  /\ \A id \in DOMAIN book.lookup : book.lookup[id] \in DOMAIN book.heap

\* No Limit stays in a map with an empty list: match_orders takes the front
\* of the best Limit without asking whether there is one.
NoEmptyLimit ==
  \A s \in Side : \A x \in DOMAIN book.levels[s] : book.levels[s][x].orders # {}

\* The lookup finds the order it is asked for, on the list of its own side
\* and price: the branches of cancel and amend for a missing Limit are dead.
LookupSound ==
  \A id \in DOMAIN book.lookup :
    LET p == book.lookup[id]
        o == book.heap[p]
    IN  /\ o.id = id
        /\ o.price \in DOMAIN book.levels[o.side]
        /\ p \in book.levels[o.side][o.price].orders

\* Between calls the book is not crossed: everything that can trade has.
Uncrossed ==
  pc = "idle" =>
    \A p \in OnSide(book, "buy"), r \in OnSide(book, "sell") :
      book.heap[p].price < book.heap[r].price

\* Every order on a list is the one the lookup has under its id, so that a
\* client can cancel or amend whatever of his rests: no two orders share an id.
LookupCoversBook ==
  \A p \in Resting(book) : /\ book.heap[p].id \in DOMAIN book.lookup
                           /\ book.lookup[book.heap[p].id] = p

\* No two orders on the book carry the same id: add_order refuses an id that
\* "already exists".
UniqueIds ==
  \A p, r \in Resting(book) : book.heap[p].id = book.heap[r].id => p = r

\* The destructor frees every Order the book ever allocated.
NoLeak == pc = "destroyed" => DOMAIN book.heap = {}

Trading == pc = "matching" /\ book' # book

\* A trade is between the two orders that are first in price-time order: no
\* other order of the book has a better price, or the same price and an
\* earlier timestamp (when the clock advances between two orders).
PriceTimePriority ==
  [][Trading =>
       LET changed == {p \in DOMAIN book.heap :
                         p \notin DOMAIN book'.heap \/ book'.heap[p] # book.heap[p]}
           Ahead(o, r) == \/ o.side = "buy"  /\ r.price > o.price
                          \/ o.side = "sell" /\ r.price < o.price
                          \/ r.price = o.price /\ r.timestamp < o.timestamp
       IN  \A p \in changed, r \in Resting(book) :
             book.heap[p].side = book.heap[r].side => ~Ahead(book.heap[p], book.heap[r])]_vars

\* A trade is made at the price of the order that was already resting, never
\* at that of the order just added (when the clock advances between orders).
TradeAtRestingPrice ==
  [][Trading =>
       LET incoming == next - 1
       IN  /\ incoming \in {BidOrder(book), AskOrder(book)}
           /\ \A p \in {BidOrder(book), AskOrder(book)} \ {incoming} :
                TradePrice(book) = book.heap[p].price]_vars

\* Nobody trades at a price worse than his own limit, ties of the clock and
\* orders left over by amends included: a Limit holds orders of its price only.
TradeWithinLimits ==
  [][Trading => /\ TradePrice(book) <= book.heap[BidOrder(book)].price
                /\ TradePrice(book) >= book.heap[AskOrder(book)].price]_vars

\* The matching loop ends, and every request returns to its caller: an
\* iteration takes at least one order off the book and puts none on it, orders
\* of zero and orders left over by amends included.
MatchingEnds ==
  [][Trading => /\ Resting(book') \subseteq Resting(book)
                /\ Resting(book') # Resting(book)]_vars
=============================================================================
