------------------------------ MODULE Exchange -------------------------------
(***************************************************************************)
(* What a limit order book promises its clients, with no lists, pointers   *)
(* or running totals: a set of open orders, each known by its id, that     *)
(* trade in price-time priority, and a published depth that is always the  *)
(* sum of what is open.  OrderBookView shows which part of this promise    *)
(* orderbooks/order_book.cpp keeps.                                        *)
(***************************************************************************)
EXTENDS Integers, FiniteSetsExt, Functions

CONSTANTS Ids, MaxPrice, Quantities, Wrap,
          Ages   \* the set of ages, ordered like numbers

VARIABLES
  orders,  \* id |-> [side, price, quantity, age]: the open orders
  depth,   \* side |-> (price |-> quantity): what a snapshot shows
  phase    \* "idle", "matching" or "destroyed"

vars == <<orders, depth, phase>>

Side   == {"buy", "sell"}
Prices == 1 .. MaxPrice

\* The ids open on a side, at a price.
At(os, s, x) == {id \in DOMAIN os : os[id].side = s /\ os[id].price = x}

Published(os) ==
  [s \in Side |-> [x \in {os[id].price : id \in {i \in DOMAIN os : os[i].side = s}} |->
                     MapThenSumSet(LAMBDA id : os[id].quantity, At(os, s, x)) % Wrap]]

\* o has priority over r, both on the same side: a better price, or the same
\* price and longer on the book.
Outranks(o, r) ==
  \/ o.side = "buy" /\ o.price > r.price
  \/ o.side = "sell" /\ o.price < r.price
  \/ o.price = r.price /\ o.age < r.age

First(s) == {id \in DOMAIN orders :
               /\ orders[id].side = s
               /\ \A r \in DOMAIN orders :
                    orders[r].side = s => ~Outranks(orders[r], orders[id])}

Crossing(b, a) == orders[b].price >= orders[a].price

-----------------------------------------------------------------------------
Init ==
  /\ orders = [id \in {} |-> 0]
  /\ depth = Published(orders)
  /\ phase = "idle"

\* A new order is behind every order already open.
Youngest(age) == \A id \in DOMAIN orders : orders[id].age < age

Submit(id, s, x, q, age) ==
  /\ phase = "idle"
  /\ id \notin DOMAIN orders
  /\ Youngest(age)
  /\ orders' = [i \in DOMAIN orders \cup {id} |->
                  IF i = id THEN [side |-> s, price |-> x, quantity |-> q, age |-> age]
                  ELSE orders[i]]
  /\ phase' = "matching"

Cancel(id) ==
  /\ phase = "idle"
  /\ id \in DOMAIN orders
  /\ orders' = Restrict(orders, DOMAIN orders \ {id})
  /\ phase' = phase

Resize(id, q) ==
  /\ phase = "idle"
  /\ id \in DOMAIN orders
  /\ orders' = [orders EXCEPT ![id].quantity = q]
  /\ phase' = phase

\* An order whose price is amended moves: it is open at the new price only,
\* and behind the orders that were already there.
Reprice(id, x, q, age) ==
  /\ phase = "idle"
  /\ id \in DOMAIN orders
  /\ x # orders[id].price
  /\ Youngest(age)
  /\ orders' = [orders EXCEPT ![id].price = x, ![id].quantity = q, ![id].age = age]
  /\ phase' = "matching"

\* The best bid and the best ask trade; whichever is filled is closed.
Trade ==
  /\ phase = "matching"
  /\ \E b \in First("buy"), a \in First("sell") :
       LET q       == Min({orders[b].quantity, orders[a].quantity})
           traded  == [orders EXCEPT ![b].quantity = @ - q, ![a].quantity = @ - q]
           settled == {id \in {b, a} : traded[id].quantity = 0}
       IN  /\ Crossing(b, a)
           /\ orders' = Restrict(traded, DOMAIN orders \ settled)
  /\ phase' = phase

Settle ==
  /\ phase = "matching"
  /\ \A b \in First("buy"), a \in First("sell") : ~Crossing(b, a)
  /\ phase' = "idle"
  /\ orders' = orders

Close ==
  /\ phase = "idle"
  /\ phase' = "destroyed"
  /\ orders' = [id \in {} |-> 0]

Next ==
  /\ \/ \E id \in Ids, s \in Side, x \in Prices, q \in Quantities, age \in Ages :
          Submit(id, s, x, q, age)
     \/ \E id \in Ids : Cancel(id)
     \/ \E id \in Ids, q \in Quantities : Resize(id, q)
     \/ \E id \in Ids, x \in Prices, q \in Quantities, age \in Ages : Reprice(id, x, q, age)
     \/ Trade
     \/ Settle
     \/ Close
  /\ depth' = Published(orders')

Spec == Init /\ [][Next]_vars
=============================================================================
