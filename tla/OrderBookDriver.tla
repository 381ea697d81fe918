--------------------------- MODULE OrderBookDriver ---------------------------
(***************************************************************************)
(* orderbooks/main.cpp: a fixed script of calls on two books.  main's book *)
(* is given the add, cancel and amend tests; test_matching has a book of   *)
(* its own, which is destroyed when the function returns, before main's.   *)
(* Both read one clock.  The variables of OrderBook are those of main's    *)
(* book; M is the matching_book.                                           *)
(***************************************************************************)
EXTENDS OrderBook, Sequences

VARIABLES
  step,             \* how many calls of the script were made
  mbook, mpc, mnext \* matching_book, mpc = "none" before it is constructed

M == INSTANCE OrderBook WITH book <- mbook, pc <- mpc, next <- mnext

driverVars == <<book, pc, next, clock, step, mbook, mpc, mnext>>

\* The prices of the script in their order, 100.00 first: a price is its rank.
PriceList == <<10000, 10050, 10075, 10100, 10150, 10200, 10250, 10300, 10400, 10500>>
Rank(x)   == CHOOSE r \in 1 .. Len(PriceList) : PriceList[r] = x

\* What the model asks of the constants.
DriverAssumption ==
  /\ MaxPrice = Len(PriceList) /\ MaxOrders >= 10 /\ PriceAmends

AddCall(id, s, x, q)   == [call |-> "add", id |-> id, side |-> s, price |-> Rank(x), quantity |-> q]
CancelCall(id)         == [call |-> "cancel", id |-> id]
AmendCall(id, x, q)    == [call |-> "amend", id |-> id, price |-> Rank(x), quantity |-> q]

AddTests ==
  << AddCall(1, "buy", 10050, 10),  AddCall(2, "buy", 10050, 15),  AddCall(3, "buy", 10100, 5),
     AddCall(4, "sell", 10200, 20), AddCall(5, "sell", 10250, 10), AddCall(6, "sell", 10200, 5) >>
CancelTests == << CancelCall(2), CancelCall(6), CancelCall(99) >>
AmendTests ==
  << AmendCall(1, 10050, 12), AmendCall(3, 10075, 7), AmendCall(4, 10150, 25),
     AmendCall(99, 10000, 100) >>
MatchTests ==
  << AddCall(101, "buy", 10000, 10),  AddCall(102, "sell", 10000, 10),
     AddCall(201, "buy", 10100, 20),  AddCall(202, "sell", 10100, 15),
     AddCall(301, "sell", 10200, 10), AddCall(302, "buy", 10300, 5),
     AddCall(401, "sell", 10400, 10), AddCall(402, "sell", 10500, 10),
     AddCall(403, "buy", 10500, 25) >>

MainScript == AddTests \o CancelTests \o AmendTests

-----------------------------------------------------------------------------
DriverInit == Init /\ step = 0 /\ mbook = EmptyBook /\ mpc = "none" /\ mnext = 1

\* The next call of the script on main's book; a call has returned when its
\* book is idle.
CallMain ==
  /\ step < Len(MainScript)
  /\ LET c == MainScript[step + 1]
     IN  \/ c.call = "add" /\ Add(c.id, c.side, c.price, c.quantity)
         \/ c.call = "cancel" /\ Cancel(c.id)
         \/ c.call = "amend" /\ Amend(c.id, c.price, c.quantity)
  /\ step' = step + 1
  /\ UNCHANGED <<mbook, mpc, mnext>>

EnterTestMatching ==
  /\ pc = "idle" /\ step = Len(MainScript) /\ mpc = "none"
  /\ mpc' = "idle"
  /\ UNCHANGED <<book, pc, next, clock, step, mbook, mnext>>

CallMatching ==
  LET k == step - Len(MainScript)
  IN  /\ k \in 0 .. Len(MatchTests) - 1
      /\ LET c == MatchTests[k + 1] IN M!Add(c.id, c.side, c.price, c.quantity)
      /\ step' = step + 1
      /\ UNCHANGED <<book, pc, next>>

LeaveTestMatching ==
  /\ step = Len(MainScript) + Len(MatchTests)
  /\ M!Destroy
  /\ UNCHANGED <<book, pc, next, step>>

LeaveMain ==
  /\ mpc = "destroyed"
  /\ Destroy
  /\ UNCHANGED <<step, mbook, mpc, mnext>>

DriverNext ==
  \/ CallMain
  \/ MatchOrders /\ UNCHANGED <<step, mbook, mpc, mnext>>
  \/ EnterTestMatching
  \/ CallMatching
  \/ M!MatchOrders /\ UNCHANGED <<book, pc, next, step>>
  \/ LeaveTestMatching
  \/ LeaveMain

DriverSpec == DriverInit /\ [][DriverNext]_driverVars

-----------------------------------------------------------------------------
(* Properties.                                                             *)

\* What rests on a book, and what its lookup leads to.
OrderOf(b, p) == [id |-> b.heap[p].id, side |-> b.heap[p].side,
                  price |-> b.heap[p].price, quantity |-> b.heap[p].quantity]
Rests(b) == {OrderOf(b, p) : p \in Resting(b)}
Known(b) == {OrderOf(b, b.lookup[id]) : id \in DOMAIN b.lookup}

Expected(id, s, x, q) == [id |-> id, side |-> s, price |-> Rank(x), quantity |-> q]

\* The scenarios of test_matching end as their titles say, on whatever ticks
\* the clock was read: a full fill leaves nothing, a partial fill the rest of
\* the larger order, the order across the spread is filled by what rests
\* there, and the last one takes three levels in turn and is filled.
ScenariosAsLabelled ==
  LET Rest201 == Expected(201, "buy", 10100, 5)
      After   == << {}, {Rest201}, {Rest201, Expected(301, "sell", 10200, 5)}, {Rest201} >>
      Calls   == << 2, 4, 6, 9 >>
  IN  \A i \in 1 .. 4 :
        mpc = "idle" /\ step = Len(MainScript) + Calls[i] => Rests(mbook) = After[i]

\* What the add, cancel and amend tests leave, on the lists that print_book
\* shows and in the lookup.  Up to the first amend the two agree: the orders
\* added and not cancelled.  The lookup then follows the amends, but the lists
\* do not: a new price ("Amend price", main.cpp:39, "Amend a sell order", :43)
\* adds an order and takes none away, so orders 3 and 4 still rest under their
\* first price and quantity as well, where no call can reach them.  The calls
\* for the order 99 that does not exist change nothing.
AmendsLeaveBoth ==
  LET Buy1   == Expected(1, "buy", 10050, 10)    NewBuy1  == Expected(1, "buy", 10050, 12)
      Buy3   == Expected(3, "buy", 10100, 5)     NewBuy3  == Expected(3, "buy", 10075, 7)
      Sell4  == Expected(4, "sell", 10200, 20)   NewSell4 == Expected(4, "sell", 10150, 25)
      Sell5  == Expected(5, "sell", 10250, 10)
      Cancelled == Len(AddTests \o CancelTests)
      Leaves(known, unreachable) ==
        /\ Known(book) = known
        /\ Rests(book) = known \cup unreachable
        /\ Cardinality(Resting(book)) = Cardinality(known) + Cardinality(unreachable)
  IN  pc = "idle" =>
        /\ step = Cancelled => Leaves({Buy1, Buy3, Sell4, Sell5}, {})
        /\ step = Cancelled + 1 => Leaves({NewBuy1, Buy3, Sell4, Sell5}, {})
        /\ step = Cancelled + 2 => Leaves({NewBuy1, NewBuy3, Sell4, Sell5}, {Buy3})
        /\ step >= Cancelled + 3 => Leaves({NewBuy1, NewBuy3, NewSell4, Sell5}, {Buy3, Sell4})
=============================================================================
