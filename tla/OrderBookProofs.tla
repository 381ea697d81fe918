--------------------------- MODULE OrderBookProofs ---------------------------
(***************************************************************************)
(* Proofs about OrderBook, for every value of its constants, price amends  *)
(* included.  The first part is about the book: pointers, lists, entries,  *)
(* limits, and the end of the matching loop.  The second is about orders   *)
(* over time: priority, the price of a trade, and, without price amends,   *)
(* that clients reach all that rests and the destructor frees it.  The     *)
(* third is about what clients see: without price amends the book is the   *)
(* exchange of Exchange, and snapshots show what clients own.              *)
(***************************************************************************)
EXTENDS OrderBookView, NaturalFacts, FiniteSetTheorems, TLAPS

-----------------------------------------------------------------------------
(* The least and the largest element of a set of prices or objects.        *)

\* The first element of an ordered std::map, or of a list, exists.
LEMMA MinOfNat ==
  ASSUME NEW S \in SUBSET Nat, S # {}
  PROVE  Min(S) \in S /\ \A y \in S : Min(S) <= y
<1> DEFINE R == OpToRel(<, Nat)
<1>1. PICK x \in S : \A y \in S : <<y, x>> \notin R
  <2>1. IsWellFoundedOn(R, Nat)
    BY NatLessThanWellFounded
  <2> HIDE DEF R
  <2> QED
    BY <2>1, WFMin
<1>2. \A y \in S : x <= y
  <2> SUFFICES ASSUME NEW y \in S PROVE x <= y
    OBVIOUS
  <2>1. <<y, x>> \in Nat \X Nat /\ <<y, x>>[1] = y /\ <<y, x>>[2] = x
    OBVIOUS
  <2>2. ~ (y < x)
    BY <1>1, <2>1 DEF OpToRel
  <2> QED
    BY <2>2
<1> QED
  BY <1>1, <1>2 DEF Min

LEMMA MaxOfPrices ==
  ASSUME NEW S \in SUBSET Prices, S # {}
  PROVE  Max(S) \in S /\ \A y \in S : Max(S) >= y
<1> DEFINE T == {MaxPrice - x : x \in S}
<1>1. T \in SUBSET Nat /\ T # {}
  <2>1. \A x \in S : x \in Int /\ MaxPrice - x \in Nat
    BY MaxPriceAssumption DEF Prices
  <2>2. PICK x \in S : TRUE
    OBVIOUS
  <2>3. MaxPrice - x \in T
    OBVIOUS
  <2> QED
    BY <2>1, <2>3
<1>2. Min(T) \in T /\ \A y \in T : Min(T) <= y
  <2> HIDE DEF T
  <2> QED
    BY <1>1, MinOfNat
<1>3. PICK x \in S : Min(T) = MaxPrice - x
  BY <1>2
<1>4. \A y \in S : x >= y
  <2> SUFFICES ASSUME NEW y \in S PROVE x >= y
    OBVIOUS
  <2>1. MaxPrice - y \in T
    OBVIOUS
  <2>2. MaxPrice - x <= MaxPrice - y
    BY <1>2, <1>3, <2>1
  <2> QED
    BY <2>2, MaxPriceAssumption DEF Prices
<1> QED
  BY <1>4 DEF Max
-----------------------------------------------------------------------------
(* The inductive invariant: what every operation needs to know of a book   *)
(* b whose next object will be number n.                                   *)

HeapOK(b, n) ==
  /\ DOMAIN b.heap \subseteq 1 .. n - 1
  /\ \A p \in DOMAIN b.heap : b.heap[p] \in Order

LevelsOK(b) ==
  /\ DOMAIN b.levels = Side
  /\ \A s \in Side : DOMAIN b.levels[s] \subseteq Prices
  /\ \A s \in Side : \A x \in DOMAIN b.levels[s] :
       /\ b.levels[s][x] \in Limit
       /\ b.levels[s][x].orders # {}

\* The objects on a list are allocated, and of the list's own side and price.
PlacedOK(b) ==
  \A s \in Side : \A x \in DOMAIN b.levels[s] : \A p \in b.levels[s][x].orders :
    /\ p \in DOMAIN b.heap
    /\ b.heap[p].side = s
    /\ b.heap[p].price = x

\* The lookup names an allocated object with that id, on its own list.
EntryOK(b, id) ==
  LET p == b.lookup[id]
      o == b.heap[p]
  IN  /\ p \in DOMAIN b.heap
      /\ o.id = id
      /\ o.price \in DOMAIN b.levels[o.side]
      /\ p \in b.levels[o.side][o.price].orders

LookupOK(b) ==
  /\ DOMAIN b.lookup \subseteq Ids
  /\ \A id \in DOMAIN b.lookup : EntryOK(b, id)

BookOK(b, n) ==
  /\ b = [heap |-> b.heap, levels |-> b.levels, lookup |-> b.lookup]
  /\ HeapOK(b, n)
  /\ LevelsOK(b)
  /\ PlacedOK(b)
  /\ LookupOK(b)

IInv ==
  /\ BookOK(book, next)
  /\ pc \in {"idle", "matching", "destroyed"}
  /\ next \in 1 .. MaxOrders + 1
  /\ clock \in Nat

USE DEF Side
-----------------------------------------------------------------------------
(* Each operation of the class preserves it.                               *)

LEMMA EmptyBookOK == BookOK(EmptyBook, 1)
BY DEF EmptyBook, BookOK, HeapOK, LevelsOK, PlacedOK, LookupOK

\* Every total that is computed is one that fits.
LEMMA WrapRange == ASSUME NEW q \in Int PROVE q % Wrap \in 0 .. Wrap - 1
BY WrapAssumption

LEMMA WrapDifference ==
  ASSUME NEW t \in 0 .. Wrap - 1, NEW q \in Int
  PROVE  (t - q) % Wrap \in 0 .. Wrap - 1
BY WrapAssumption

LEMMA WrapChange ==
  ASSUME NEW t \in 0 .. Wrap - 1, NEW q \in Int, NEW r \in 0 .. Wrap - 1
  PROVE  (t - q + r) % Wrap \in 0 .. Wrap - 1
BY WrapAssumption

\* add_order puts a new object on the list of its side and price and in the
\* lookup, and leaves every other list and entry as it was.
LEMMA AddInOK ==
  ASSUME NEW b, NEW n \in Nat \ {0}, BookOK(b, n),
         NEW o \in Order, o.id \notin DOMAIN b.lookup
  PROVE  BookOK(AddIn(b, n, o), n + 1)
<1> DEFINE limit == LimitAt(b, o.side, o.price)
           added == [orders |-> limit.orders \cup {n},
                     total  |-> (limit.total + o.quantity) % Wrap]
           c     == AddIn(b, n, o)
<1>1. o.side \in Side /\ o.price \in Prices /\ o.id \in Ids /\ o.quantity \in Nat
  BY WrapAssumption DEF Order
<1>2. /\ c.heap   = Put(b.heap, n, o)
      /\ c.lookup = Put(b.lookup, o.id, n)
      /\ c.levels = [b.levels EXCEPT ![o.side] = Put(@, o.price, added)]
      /\ c = [heap |-> c.heap, levels |-> c.levels, lookup |-> c.lookup]
  BY DEF AddIn
<1> HIDE DEF c
<1>3. n \notin DOMAIN b.heap
  BY DEF BookOK, HeapOK
<1>4. limit \in [orders : SUBSET Nat, total : 0 .. Wrap - 1]
  BY <1>1, WrapAssumption DEF LimitAt, BookOK, LevelsOK, Limit
<1>5. added \in Limit /\ added.orders = limit.orders \cup {n}
  <2>1. limit.total + o.quantity \in Int
    BY <1>1, <1>4, WrapAssumption
  <2> HIDE DEF limit
  <2> QED
    BY <1>4, <2>1, WrapRange DEF Limit
<1>6. \A p \in limit.orders : /\ p \in DOMAIN b.heap
                              /\ b.heap[p].side = o.side
                              /\ b.heap[p].price = o.price
  BY <1>1 DEF LimitAt, BookOK, PlacedOK
<1>7. /\ DOMAIN c.heap = DOMAIN b.heap \cup {n}
      /\ c.heap[n] = o
      /\ \A p \in DOMAIN b.heap : c.heap[p] = b.heap[p]
  BY <1>2, <1>3 DEF Put
<1>8. /\ DOMAIN c.lookup = DOMAIN b.lookup \cup {o.id}
      /\ c.lookup[o.id] = n
      /\ \A id \in DOMAIN b.lookup : c.lookup[id] = b.lookup[id]
  BY <1>2 DEF Put
<1> HIDE DEF added
<1>9. /\ DOMAIN c.levels = Side
      /\ \A s \in Side : s # o.side => c.levels[s] = b.levels[s]
      /\ DOMAIN c.levels[o.side] = DOMAIN b.levels[o.side] \cup {o.price}
      /\ c.levels[o.side][o.price] = added
      /\ \A x \in DOMAIN b.levels[o.side] :
           x # o.price => c.levels[o.side][x] = b.levels[o.side][x]
  BY <1>1, <1>2 DEF Put, BookOK, LevelsOK
<1>10. HeapOK(c, n + 1)
  BY <1>7 DEF HeapOK, BookOK
<1>11. LevelsOK(c)
  BY <1>1, <1>5, <1>9 DEF LevelsOK, BookOK
<1>12. PlacedOK(c)
  <2> SUFFICES ASSUME NEW s \in Side, NEW x \in DOMAIN c.levels[s],
                      NEW p \in c.levels[s][x].orders
               PROVE  p \in DOMAIN c.heap /\ c.heap[p].side = s /\ c.heap[p].price = x
    BY DEF PlacedOK
  <2>1. CASE s = o.side /\ x = o.price
    BY <2>1, <1>5, <1>6, <1>7, <1>9
  <2>2. CASE ~ (s = o.side /\ x = o.price)
    <3>1. x \in DOMAIN b.levels[s] /\ c.levels[s][x] = b.levels[s][x]
      BY <2>2, <1>9
    <3> QED
      BY <3>1, <1>7 DEF BookOK, PlacedOK
  <2> QED
    BY <2>1, <2>2
<1>13. LookupOK(c)
  <2>1. \A id \in DOMAIN b.lookup : EntryOK(c, id)
    <3> SUFFICES ASSUME NEW id \in DOMAIN b.lookup PROVE EntryOK(c, id)
      OBVIOUS
    <3> DEFINE p == b.lookup[id]
               r == b.heap[p]
    <3>1. /\ p \in DOMAIN b.heap /\ r.id = id /\ r \in Order
          /\ r.price \in DOMAIN b.levels[r.side]
          /\ p \in b.levels[r.side][r.price].orders
      BY DEF BookOK, LookupOK, EntryOK, HeapOK
    <3>2. c.lookup[id] = p /\ c.heap[p] = r /\ p \in DOMAIN c.heap
      BY <3>1, <1>7, <1>8
    <3> HIDE DEF p, r
    <3>3. r.side \in Side
      BY <3>1 DEF Order
    <3>4. r.price \in DOMAIN c.levels[r.side] /\ p \in c.levels[r.side][r.price].orders
      <4>1. CASE r.side = o.side /\ r.price = o.price
        BY <4>1, <3>1, <3>3, <1>5, <1>9 DEF LimitAt
      <4>2. CASE ~ (r.side = o.side /\ r.price = o.price)
        BY <4>2, <3>1, <3>3, <1>9
      <4> QED
        BY <4>1, <4>2
    <3> QED
      BY <3>1, <3>2, <3>4 DEF EntryOK
  <2>2. EntryOK(c, o.id)
    BY <1>1, <1>5, <1>7, <1>8, <1>9 DEF EntryOK
  <2> QED
    BY <1>1, <1>8, <2>1, <2>2 DEF LookupOK, BookOK
<1> QED
  BY <1>2, <1>10, <1>11, <1>12, <1>13 DEF BookOK, c

\* An entry holds in a book c if it did in b, and c has the same object under
\* it, on the same list.
LEMMA EntryKept ==
  ASSUME NEW b, NEW n, NEW c, BookOK(b, n), NEW id \in DOMAIN b.lookup,
         c.lookup[id] = b.lookup[id],
         b.lookup[id] \in DOMAIN c.heap,
         c.heap[b.lookup[id]].id = id,
         c.heap[b.lookup[id]].side = b.heap[b.lookup[id]].side,
         c.heap[b.lookup[id]].price = b.heap[b.lookup[id]].price,
         \A s \in Side : \A x \in DOMAIN b.levels[s] :
           b.lookup[id] \in b.levels[s][x].orders =>
             /\ x \in DOMAIN c.levels[s]
             /\ b.lookup[id] \in c.levels[s][x].orders
  PROVE  EntryOK(c, id)
<1> DEFINE p == b.lookup[id]
           o == b.heap[p]
<1>1. /\ o \in Order
      /\ o.price \in DOMAIN b.levels[o.side]
      /\ p \in b.levels[o.side][o.price].orders
  BY DEF BookOK, LookupOK, EntryOK, HeapOK
<1>2. o.side \in Side
  BY <1>1 DEF Order
<1>3. /\ o.price \in DOMAIN c.levels[o.side]
      /\ p \in c.levels[o.side][o.price].orders
  BY <1>1, <1>2, Zenon
<1> QED
  BY <1>3, Zenon DEF EntryOK

\* What a lookup entry leads to.
LEMMA EntryLeads ==
  ASSUME NEW b, NEW n, BookOK(b, n), NEW id \in DOMAIN b.lookup
  PROVE  LET p == b.lookup[id]
             o == b.heap[p]
         IN  /\ p \in DOMAIN b.heap /\ o.id = id /\ o \in Order
             /\ o.side \in Side /\ o.price \in Prices /\ o.quantity \in Int
             /\ o.price \in DOMAIN b.levels[o.side]
             /\ p \in b.levels[o.side][o.price].orders
<1> DEFINE p == b.lookup[id]
           o == b.heap[p]
<1>1. EntryOK(b, id) /\ HeapOK(b, n)
  BY DEF BookOK, LookupOK
<1>2. /\ p \in DOMAIN b.heap /\ o.id = id
      /\ o.price \in DOMAIN b.levels[o.side]
      /\ p \in b.levels[o.side][o.price].orders
  BY <1>1, Zenon DEF EntryOK
<1>3. o \in Order
  BY <1>1, <1>2, Zenon DEF HeapOK
<1> HIDE DEF p, o
<1>4. o.side \in Side /\ o.price \in Prices /\ o.quantity \in Int
  BY <1>3, WrapAssumption DEF Order
<1> QED
  BY <1>2, <1>3, <1>4, Zenon DEF p, o

\* A book is as sound without some of its entries.
LEMMA ErasedOK ==
  ASSUME NEW b, NEW n, BookOK(b, n), NEW e,
         e = [heap |-> e.heap, levels |-> e.levels, lookup |-> e.lookup],
         e.heap = b.heap, e.levels = b.levels,
         DOMAIN e.lookup \subseteq DOMAIN b.lookup,
         \A i \in DOMAIN e.lookup : e.lookup[i] = b.lookup[i]
  PROVE  BookOK(e, n)
<1>1. HeapOK(e, n)
  BY Zenon DEF BookOK, HeapOK
<1>2. LevelsOK(e)
  BY Zenon DEF BookOK, LevelsOK
<1>3. PlacedOK(e)
  BY DEF BookOK, PlacedOK
<1>4. LookupOK(e)
  <2>1. ASSUME NEW i \in DOMAIN e.lookup PROVE EntryOK(e, i)
    <3>1. EntryOK(b, i) /\ e.lookup[i] = b.lookup[i]
      BY <2>1, Zenon DEF BookOK, LookupOK
    <3> QED
      BY <3>1, Zenon DEF EntryOK
  <2>2. DOMAIN e.lookup \subseteq Ids
    BY Zenon DEF BookOK, LookupOK
  <2> QED
    BY <2>1, <2>2, Zenon DEF LookupOK
<1> QED
  BY <1>1, <1>2, <1>3, <1>4, Zenon DEF BookOK

\* cancel_order deletes the object after taking it off the one list it is on,
\* and erases the list if nothing is left on it.
LEMMA CancelInOK ==
  ASSUME NEW b, NEW n \in Nat \ {0}, BookOK(b, n), NEW id
  PROVE  BookOK(CancelIn(b, id), n)
<1>1. CASE id \notin DOMAIN b.lookup
  BY <1>1 DEF CancelIn
<1>2. CASE id \in DOMAIN b.lookup
  <2> DEFINE p     == b.lookup[id]
             o     == b.heap[p]
             limit == b.levels[o.side][o.price]
             rest  == [orders |-> RemoveIf(b, limit, id),
                       total  |-> (limit.total - o.quantity) % Wrap]
             c     == CancelIn(b, id)
  <2>1. /\ p \in DOMAIN b.heap /\ o.id = id /\ o \in Order
        /\ o.price \in DOMAIN b.levels[o.side] /\ p \in limit.orders
        /\ o = b.heap[p] /\ limit = b.levels[o.side][o.price]
    BY <1>2, EntryLeads, Zenon
  <2>2. o.side \in Side /\ o.price \in Prices /\ o.quantity \in Int
    BY <1>2, EntryLeads, Zenon
  <2>3. limit \in Limit
    BY <2>1, <2>2 DEF BookOK, LevelsOK
  <2> HIDE DEF p, o, limit
  <2>4. rest \in Limit /\ rest.orders = {r \in limit.orders : b.heap[r].id # id}
    <3>1. limit.orders \in SUBSET Nat /\ limit.total \in 0 .. Wrap - 1
      BY <2>3 DEF Limit
    <3>2. (limit.total - o.quantity) % Wrap \in 0 .. Wrap - 1
      <4>1. limit.total \in 0 .. Wrap - 1 /\ o.quantity \in Int
        BY <2>2, <3>1
      <4> QED
        BY <4>1, WrapDifference, Zenon
    <3> QED
      BY <3>1, <3>2 DEF Limit, RemoveIf
  <2>5. /\ c.heap   = Erase(b.heap, p)
        /\ c.lookup = Erase(b.lookup, id)
        /\ c.levels = [b.levels EXCEPT ![o.side] = KeepUnlessEmpty(@, o.price, rest)]
        /\ c = [heap |-> c.heap, levels |-> c.levels, lookup |-> c.lookup]
    BY <1>2, <2>1, Zenon DEF CancelIn, Delete, p, o, limit
  <2> HIDE DEF c, rest
  <2>6. /\ DOMAIN c.heap = DOMAIN b.heap \ {p}
        /\ \A r \in DOMAIN b.heap \ {p} : c.heap[r] = b.heap[r]
    BY <2>5 DEF Erase, Restrict
  <2>7. /\ DOMAIN c.lookup = DOMAIN b.lookup \ {id}
        /\ \A i \in DOMAIN b.lookup \ {id} : c.lookup[i] = b.lookup[i]
    BY <2>5 DEF Erase, Restrict
  <2>8. /\ DOMAIN c.levels = Side
        /\ \A s \in Side : s # o.side => c.levels[s] = b.levels[s]
        /\ c.levels[o.side] = KeepUnlessEmpty(b.levels[o.side], o.price, rest)
    BY <2>2, <2>5 DEF BookOK, LevelsOK
  <2> DEFINE old == b.levels[o.side]
             new == c.levels[o.side]
  <2>9. /\ DOMAIN c.levels[o.side] \subseteq DOMAIN b.levels[o.side]
        /\ \A x \in DOMAIN b.levels[o.side] : x # o.price =>
             x \in DOMAIN c.levels[o.side] /\ c.levels[o.side][x] = b.levels[o.side][x]
        /\ o.price \in DOMAIN c.levels[o.side] =>
             rest.orders # {} /\ c.levels[o.side][o.price] = rest
        /\ rest.orders # {} => o.price \in DOMAIN c.levels[o.side]
    <3>1. o.price \in DOMAIN old /\ new = KeepUnlessEmpty(old, o.price, rest)
      BY <2>1, <2>8
    <3> HIDE DEF old, new
    <3>2. /\ DOMAIN new \subseteq DOMAIN old
          /\ \A x \in DOMAIN old : x # o.price => x \in DOMAIN new /\ new[x] = old[x]
          /\ o.price \in DOMAIN new => rest.orders # {} /\ new[o.price] = rest
          /\ rest.orders # {} => o.price \in DOMAIN new
      BY <3>1 DEF KeepUnlessEmpty, Put, Erase, Restrict
    <3> QED
      BY <3>2 DEF old, new
  <2> HIDE DEF old, new
  <2>10. HeapOK(c, n)
    BY <2>6 DEF HeapOK, BookOK
  <2>11. LevelsOK(c)
    BY <2>2, <2>4, <2>8, <2>9 DEF LevelsOK, BookOK
  <2>12. PlacedOK(c)
    <3> SUFFICES ASSUME NEW s \in Side, NEW x \in DOMAIN c.levels[s],
                        NEW r \in c.levels[s][x].orders
                 PROVE  r \in DOMAIN c.heap /\ c.heap[r].side = s /\ c.heap[r].price = x
      BY DEF PlacedOK
    <3>1. x \in DOMAIN b.levels[s]
      BY <2>8, <2>9
    <3>2. r \in b.levels[s][x].orders /\ r # p
      <4>1. CASE s = o.side /\ x = o.price
        BY <4>1, <2>1, <2>4, <2>9
      <4>2. CASE ~ (s = o.side /\ x = o.price)
        <5>1. c.levels[s][x] = b.levels[s][x]
          BY <4>2, <3>1, <2>8, <2>9
        <5>2. b.heap[r].side = s /\ b.heap[r].price = x
          BY <3>1, <5>1 DEF BookOK, PlacedOK
        <5>3. r # p
          BY <4>2, <5>2, <2>1
        <5> QED
          BY <5>1, <5>3
      <4> QED
        BY <4>1, <4>2
    <3> QED
      BY <3>1, <3>2, <2>6 DEF BookOK, PlacedOK
  <2>13. LookupOK(c)
    <3> SUFFICES ASSUME NEW i \in DOMAIN b.lookup, i # id
                 PROVE  EntryOK(c, i)
      BY <2>7 DEF LookupOK, BookOK
    <3> DEFINE r == b.lookup[i]
    <3>1. r \in DOMAIN b.heap /\ b.heap[r].id = i /\ r # p
      BY <2>1 DEF BookOK, LookupOK, EntryOK
    <3> HIDE DEF r
    <3>2. \A s \in Side : \A x \in DOMAIN b.levels[s] :
            r \in b.levels[s][x].orders =>
              x \in DOMAIN c.levels[s] /\ r \in c.levels[s][x].orders
      <4> SUFFICES ASSUME NEW s \in Side, NEW x \in DOMAIN b.levels[s],
                          r \in b.levels[s][x].orders
                   PROVE  x \in DOMAIN c.levels[s] /\ r \in c.levels[s][x].orders
        OBVIOUS
      <4>1. CASE s = o.side /\ x = o.price
        <5>1. r \in limit.orders /\ b.heap[r].id # id
          BY <4>1, <3>1, <2>1
        <5>2. r \in rest.orders
          BY <5>1, <2>4
        <5>3. x \in DOMAIN c.levels[o.side] /\ c.levels[o.side][x] = rest
          BY <4>1, <5>2, <2>9
        <5> QED
          BY <4>1, <5>2, <5>3
      <4>2. CASE ~ (s = o.side /\ x = o.price)
        BY <4>2, <2>8, <2>9
      <4> QED
        BY <4>1, <4>2
    <3>3. /\ c.lookup[i] = b.lookup[i]
          /\ b.lookup[i] \in DOMAIN c.heap
          /\ c.heap[b.lookup[i]] = b.heap[b.lookup[i]]
      BY <3>1, <2>6, <2>7 DEF r
    <3> QED
      BY <3>1, <3>2, <3>3, EntryKept DEF r
  <2> QED
    BY <2>5, <2>10, <2>11, <2>12, <2>13 DEF BookOK, c
<1> QED
  BY <1>1, <1>2

\* A change of quantity touches the order and the total of its list only.
LEMMA ResizeInOK ==
  ASSUME NEW b, NEW n \in Nat \ {0}, BookOK(b, n),
         NEW id \in DOMAIN b.lookup, NEW q \in 0 .. Wrap - 1
  PROVE  BookOK(ResizeIn(b, id, q), n)
<1> DEFINE p     == b.lookup[id]
           o     == b.heap[p]
           limit == b.levels[o.side][o.price]
           total == (limit.total - o.quantity + q) % Wrap
           c     == ResizeIn(b, id, q)
<1>1. /\ p \in DOMAIN b.heap /\ o.id = id /\ o \in Order
      /\ o.price \in DOMAIN b.levels[o.side] /\ p \in limit.orders
      /\ o = b.heap[p] /\ limit = b.levels[o.side][o.price]
  BY EntryLeads, Zenon
<1>2. o.side \in Side /\ o.quantity \in Int
  BY EntryLeads, Zenon
<1>3. limit \in Limit
  BY <1>1, <1>2, Zenon DEF BookOK, LevelsOK
<1> HIDE DEF p, o, limit
<1>4. total \in 0 .. Wrap - 1
  <2>1. limit.total \in 0 .. Wrap - 1
    BY <1>3 DEF Limit
  <2>2. o.quantity \in Int
    BY <1>2
  <2> QED
    BY <2>1, <2>2, WrapChange, Zenon
<1>5. /\ c.heap   = [b.heap EXCEPT ![p].quantity = q]
      /\ c.lookup = b.lookup
      /\ c.levels = [b.levels EXCEPT ![o.side][o.price].total = total]
      /\ c = [heap |-> c.heap, levels |-> c.levels, lookup |-> c.lookup]
  BY <1>1, Zenon DEF ResizeIn, BookOK, p, o, limit
<1> HIDE DEF c, total
<1>6. /\ DOMAIN c.heap = DOMAIN b.heap
      /\ \A r \in DOMAIN b.heap : /\ c.heap[r] \in Order
                                   /\ c.heap[r].id = b.heap[r].id
                                   /\ c.heap[r].side = b.heap[r].side
                                   /\ c.heap[r].price = b.heap[r].price
  <2>1. DOMAIN c.heap = DOMAIN b.heap /\ \A r \in DOMAIN b.heap : b.heap[r] \in Order
    BY <1>1, <1>5 DEF BookOK, HeapOK
  <2>2. \A r \in DOMAIN b.heap \ {p} : c.heap[r] = b.heap[r]
    BY <1>5, Zenon
  <2>3. c.heap[p] = [o EXCEPT !.quantity = q]
    BY <1>1, <1>5, Zenon
  <2>4. ASSUME NEW r \in Order
        PROVE  LET resized == [r EXCEPT !.quantity = q]
               IN  /\ resized \in Order      /\ resized.id = r.id
                   /\ resized.side = r.side  /\ resized.price = r.price
    BY DEF Order
  <2>5. /\ c.heap[p] \in Order      /\ c.heap[p].id = o.id
        /\ c.heap[p].side = o.side  /\ c.heap[p].price = o.price
    BY <1>1, <2>3, <2>4
  <2> QED
    BY <1>1, <2>1, <2>2, <2>5
<1>7. /\ DOMAIN c.levels = Side
      /\ \A s \in Side : DOMAIN c.levels[s] = DOMAIN b.levels[s]
      /\ \A s \in Side : \A x \in DOMAIN b.levels[s] :
           /\ c.levels[s][x] \in Limit
           /\ c.levels[s][x].orders = b.levels[s][x].orders
  <2>1. DOMAIN c.levels = Side /\ \A s \in Side : DOMAIN c.levels[s] = DOMAIN b.levels[s]
    BY <1>1, <1>2, <1>5 DEF BookOK, LevelsOK
  <2>2. ASSUME NEW s \in Side, NEW x \in DOMAIN b.levels[s]
        PROVE  c.levels[s][x] \in Limit /\ c.levels[s][x].orders = b.levels[s][x].orders
    <3>1. b.levels[s][x] \in Limit
      BY DEF BookOK, LevelsOK
    <3>2. CASE s = o.side /\ x = o.price
      <4>1. c.levels[s] = [b.levels[s] EXCEPT ![x].total = total]
        BY <3>2, <1>2, <1>5 DEF BookOK, LevelsOK
      <4>2. c.levels[s][x] = [b.levels[s][x] EXCEPT !.total = total]
        BY <4>1
      <4> QED
        BY <4>2, <3>1, <1>4 DEF Limit
    <3>3. CASE ~ (s = o.side /\ x = o.price)
      <4>1. CASE s = o.side
        <5>1. c.levels[s] = [b.levels[s] EXCEPT ![o.price].total = total]
          BY <4>1, <1>2, <1>5 DEF BookOK, LevelsOK
        <5> QED
          BY <5>1, <4>1, <3>1, <3>3
      <4>2. CASE s # o.side
        BY <4>2, <3>1, <1>5 DEF BookOK, LevelsOK
      <4> QED
        BY <4>1, <4>2
    <3> QED
      BY <3>2, <3>3
  <2> QED
    BY <2>1, <2>2
<1>8. HeapOK(c, n)
  BY <1>6 DEF HeapOK, BookOK
<1>9. LevelsOK(c)
  BY <1>7 DEF LevelsOK, BookOK
<1>10. PlacedOK(c)
  BY <1>6, <1>7 DEF PlacedOK, BookOK
<1>11. LookupOK(c)
  <2>1. ASSUME NEW i \in DOMAIN b.lookup PROVE EntryOK(c, i)
    <3>1. b.lookup[i] \in DOMAIN b.heap /\ b.heap[b.lookup[i]].id = i
      BY DEF BookOK, LookupOK, EntryOK
    <3>2. /\ c.lookup[i] = b.lookup[i]
          /\ b.lookup[i] \in DOMAIN c.heap
          /\ c.heap[b.lookup[i]].id = i
          /\ c.heap[b.lookup[i]].side = b.heap[b.lookup[i]].side
          /\ c.heap[b.lookup[i]].price = b.heap[b.lookup[i]].price
      BY <3>1, <1>5, <1>6
    <3>3. \A s \in Side : \A x \in DOMAIN b.levels[s] :
            b.lookup[i] \in b.levels[s][x].orders =>
              x \in DOMAIN c.levels[s] /\ b.lookup[i] \in c.levels[s][x].orders
      BY <1>7
    <3> QED
      BY <3>2, <3>3, EntryKept
  <2> QED
    BY <2>1, <1>5 DEF LookupOK, BookOK
<1> QED
  BY <1>5, <1>8, <1>9, <1>10, <1>11 DEF BookOK, c

\* A change of price: the erased entry makes cancel_order a no-op, so the old
\* object stays where it is, with no entry, and the amended copy is added.
LEMMA RepriceInOK ==
  ASSUME NEW b, NEW n \in Nat \ {0}, BookOK(b, n),
         NEW id \in DOMAIN b.lookup, NEW x \in Prices, NEW q \in 0 .. Wrap - 1,
         NEW now \in Nat
  PROVE  BookOK(RepriceIn(b, n, id, x, q, now), n + 1)
<1> DEFINE old     == b.heap[b.lookup[id]]
           amended == [old EXCEPT !.price = x, !.quantity = q, !.timestamp = now]
           erased  == [b EXCEPT !.lookup = Erase(b.lookup, id)]
<1>1. old \in Order /\ old.id = id
  BY DEF BookOK, LookupOK, EntryOK, HeapOK
<1>2. amended \in Order /\ amended.id = id
  BY <1>1 DEF Order
<1>3. /\ erased.heap = b.heap /\ erased.levels = b.levels
      /\ DOMAIN erased.lookup = DOMAIN b.lookup \ {id}
      /\ \A i \in DOMAIN b.lookup \ {id} : erased.lookup[i] = b.lookup[i]
      /\ erased = [heap |-> erased.heap, levels |-> erased.levels, lookup |-> erased.lookup]
  BY DEF BookOK, Erase, Restrict
<1>4. RepriceIn(b, n, id, x, q, now) = AddIn(CancelIn(erased, id), n, amended)
  BY DEF RepriceIn
<1> HIDE DEF erased, amended
<1>5. BookOK(erased, n)
  <2>1. /\ DOMAIN erased.lookup \subseteq DOMAIN b.lookup
        /\ \A i \in DOMAIN erased.lookup : erased.lookup[i] = b.lookup[i]
    BY <1>3
  <2> QED
    BY <1>3, <2>1, ErasedOK, Zenon
<1>6. CancelIn(erased, id) = erased
  BY <1>3 DEF CancelIn
<1>7. amended.id \notin DOMAIN erased.lookup
  BY <1>2, <1>3
<1> QED
  BY <1>2, <1>4, <1>5, <1>6, <1>7, AddInOK

-----------------------------------------------------------------------------
(* The trade.                                                              *)

\* The two orders match_orders takes: allocated, different, each on the best
\* list of its side.
LEMMA TradingPair ==
  ASSUME NEW b, NEW n \in Nat \ {0}, BookOK(b, n), Crossed(b)
  PROVE  /\ BestBid(b) \in DOMAIN b.levels["buy"]
         /\ \A x \in DOMAIN b.levels["buy"] : BestBid(b) >= x
         /\ BestAsk(b) \in DOMAIN b.levels["sell"]
         /\ \A x \in DOMAIN b.levels["sell"] : BestAsk(b) <= x
         /\ BidOrder(b) \in b.levels["buy"][BestBid(b)].orders
         /\ AskOrder(b) \in b.levels["sell"][BestAsk(b)].orders
         /\ \A r \in b.levels["buy"][BestBid(b)].orders : BidOrder(b) <= r
         /\ \A r \in b.levels["sell"][BestAsk(b)].orders : AskOrder(b) <= r
<1>1. /\ DOMAIN b.levels["buy"] \in SUBSET Prices /\ DOMAIN b.levels["buy"] # {}
      /\ DOMAIN b.levels["sell"] \in SUBSET Nat /\ DOMAIN b.levels["sell"] # {}
  BY DEF Crossed, BookOK, LevelsOK, Prices
<1>2. /\ BestBid(b) \in DOMAIN b.levels["buy"]
      /\ \A x \in DOMAIN b.levels["buy"] : BestBid(b) >= x
  BY <1>1, MaxOfPrices DEF BestBid
<1>3. /\ BestAsk(b) \in DOMAIN b.levels["sell"]
      /\ \A x \in DOMAIN b.levels["sell"] : BestAsk(b) <= x
  BY <1>1, MinOfNat DEF BestAsk
<1>4. ASSUME NEW s \in Side, NEW x \in DOMAIN b.levels[s]
      PROVE  /\ FrontOrder(b.levels[s][x]) \in b.levels[s][x].orders
             /\ \A r \in b.levels[s][x].orders : FrontOrder(b.levels[s][x]) <= r
  <2>1. b.levels[s][x].orders \in SUBSET Nat /\ b.levels[s][x].orders # {}
    BY DEF BookOK, LevelsOK, Limit
  <2> QED
    BY <2>1, MinOfNat DEF FrontOrder
<1> QED
  BY <1>2, <1>3, <1>4 DEF BidOrder, AskOrder

\* A side after a trade: the lists lose the orders in f, and the prices that
\* this leaves without orders are erased.
Without(level, old, f) ==
  /\ DOMAIN level \subseteq DOMAIN old
  /\ \A y \in DOMAIN level : /\ level[y] \in Limit
                             /\ level[y].orders # {}
                             /\ level[y].orders = old[y].orders \ f
  /\ \A y \in DOMAIN old \ DOMAIN level : old[y].orders \subseteq f

LEMMA TradeInSide ==
  ASSUME NEW b, NEW n, BookOK(b, n), NEW s \in Side,
         NEW x \in DOMAIN b.levels[s], NEW f, NEW limit \in Limit,
         limit.orders = b.levels[s][x].orders \ f,
         \A r \in f : b.heap[r].side = s => b.heap[r].price = x
  PROVE  Without(KeepUnlessEmpty(b.levels[s], x, limit), b.levels[s], f)
<1> DEFINE level == KeepUnlessEmpty(b.levels[s], x, limit)
<1>1. /\ DOMAIN level \subseteq DOMAIN b.levels[s]
      /\ \A y \in DOMAIN b.levels[s] : y # x =>
           y \in DOMAIN level /\ level[y] = b.levels[s][y]
      /\ x \in DOMAIN level => limit.orders # {} /\ level[x] = limit
      /\ limit.orders # {} => x \in DOMAIN level
  BY DEF KeepUnlessEmpty, Put, Erase, Restrict
<1>2. ASSUME NEW y \in DOMAIN b.levels[s], y # x
      PROVE  /\ b.levels[s][y] \in Limit /\ b.levels[s][y].orders # {}
             /\ b.levels[s][y].orders = b.levels[s][y].orders \ f
  <2>1. \A r \in b.levels[s][y].orders : r \notin f
    BY <1>2 DEF BookOK, PlacedOK
  <2> QED
    BY <2>1 DEF BookOK, LevelsOK
<1> HIDE DEF level
<1> QED
  BY <1>1, <1>2 DEF level, Without

\* One iteration of match_orders: filled orders go from list, lookup and heap
\* together, and the other of the two is reduced where it stands.  At least one
\* of them is filled, and the lists lose the filled ones and no other.
LEMMA TradeInOK ==
  ASSUME NEW b, NEW n \in Nat \ {0}, BookOK(b, n), Crossed(b)
  PROVE  /\ BookOK(TradeIn(b), n)
         /\ Filled(b) # {}
         /\ \A s \in Side : Without(TradeIn(b).levels[s], b.levels[s], Filled(b))
<1> DEFINE bid == BidOrder(b)
           ask == AskOrder(b)
           q   == TradeQuantity(b)
           c   == TradeIn(b)
<1>1. /\ bid \in DOMAIN b.heap /\ b.heap[bid] \in Order
      /\ b.heap[bid].side = "buy" /\ b.heap[bid].price = BestBid(b)
      /\ ask \in DOMAIN b.heap /\ b.heap[ask] \in Order
      /\ b.heap[ask].side = "sell" /\ b.heap[ask].price = BestAsk(b)
      /\ BestBid(b) \in DOMAIN b.levels["buy"]
      /\ BestAsk(b) \in DOMAIN b.levels["sell"]
  BY TradingPair DEF BookOK, PlacedOK, HeapOK
<1>2. /\ q \in Nat
      /\ q \in {b.heap[bid].quantity, b.heap[ask].quantity}
      /\ b.heap[bid].quantity \in 0 .. Wrap - 1 /\ q <= b.heap[bid].quantity
      /\ b.heap[ask].quantity \in 0 .. Wrap - 1 /\ q <= b.heap[ask].quantity
  <2>1. /\ b.heap[bid].quantity \in 0 .. Wrap - 1
        /\ b.heap[ask].quantity \in 0 .. Wrap - 1
    BY <1>1 DEF Order
  <2> DEFINE S == {b.heap[bid].quantity, b.heap[ask].quantity}
  <2>2. S \in SUBSET Nat /\ S # {}
    BY <2>1, WrapAssumption
  <2>3. Min(S) \in S /\ \A y \in S : Min(S) <= y
    <3> HIDE DEF S
    <3> QED
      BY <2>2, MinOfNat
  <2> QED
    BY <2>1, <2>2, <2>3 DEF TradeQuantity
<1>3. /\ Filled(b) \subseteq {bid, ask}
      /\ Filled(b) # {}
      /\ \A p \in DOMAIN b.heap \ Filled(b) : p \in {bid, ask} => b.heap[p].quantity # q
  BY <1>2 DEF Filled
<1>4. /\ c.heap = [p \in DOMAIN b.heap \ Filled(b) |->
                     IF p \in {bid, ask} THEN [b.heap[p] EXCEPT !.quantity = @ - q]
                     ELSE b.heap[p]]
      /\ c.lookup = Restrict(b.lookup, DOMAIN b.lookup \ FilledIds(b))
      /\ DOMAIN c.levels = Side
      /\ c.levels["buy"] = KeepUnlessEmpty(b.levels["buy"], BestBid(b),
                                           Traded(b, b.levels["buy"][BestBid(b)]))
      /\ c.levels["sell"] = KeepUnlessEmpty(b.levels["sell"], BestAsk(b),
                                            Traded(b, b.levels["sell"][BestAsk(b)]))
      /\ c = [heap |-> c.heap, levels |-> c.levels, lookup |-> c.lookup]
  BY DEF TradeIn, BookOK, LevelsOK
<1> HIDE DEF c, q, bid, ask
<1>5. \A s \in Side : \A x \in DOMAIN b.levels[s] :
        /\ Traded(b, b.levels[s][x]) \in Limit
        /\ Traded(b, b.levels[s][x]).orders = b.levels[s][x].orders \ Filled(b)
  <2> SUFFICES ASSUME NEW s \in Side, NEW x \in DOMAIN b.levels[s]
               PROVE  /\ Traded(b, b.levels[s][x]) \in Limit
                      /\ Traded(b, b.levels[s][x]).orders = b.levels[s][x].orders \ Filled(b)
    OBVIOUS
  <2>1. b.levels[s][x] \in Limit
    BY DEF BookOK, LevelsOK
  <2>2. b.levels[s][x].total - TradeQuantity(b) \in Int
    BY <2>1, <1>2, WrapAssumption DEF Limit, q
  <2> QED
    BY <2>1, <2>2, WrapRange DEF Traded, Limit
<1>6. \A s \in Side : Without(c.levels[s], b.levels[s], Filled(b))
  <2>1. Without(c.levels["buy"], b.levels["buy"], Filled(b))
    <3> DEFINE limit == Traded(b, b.levels["buy"][BestBid(b)])
    <3>1. \A r \in Filled(b) : b.heap[r].side = "buy" => b.heap[r].price = BestBid(b)
      BY <1>1, <1>3
    <3>2. limit \in Limit /\ limit.orders = b.levels["buy"][BestBid(b)].orders \ Filled(b)
      BY <1>1, <1>5
    <3> HIDE DEF limit
    <3>3. Without(KeepUnlessEmpty(b.levels["buy"], BestBid(b), limit), b.levels["buy"], Filled(b))
      BY <1>1, <3>1, <3>2, TradeInSide
    <3> QED
      BY <1>4, <3>3 DEF limit
  <2>2. Without(c.levels["sell"], b.levels["sell"], Filled(b))
    <3> DEFINE limit == Traded(b, b.levels["sell"][BestAsk(b)])
    <3>1. \A r \in Filled(b) : b.heap[r].side = "sell" => b.heap[r].price = BestAsk(b)
      BY <1>1, <1>3
    <3>2. limit \in Limit /\ limit.orders = b.levels["sell"][BestAsk(b)].orders \ Filled(b)
      BY <1>1, <1>5
    <3> HIDE DEF limit
    <3>3. Without(KeepUnlessEmpty(b.levels["sell"], BestAsk(b), limit), b.levels["sell"], Filled(b))
      BY <1>1, <3>1, <3>2, TradeInSide
    <3> QED
      BY <1>4, <3>3 DEF limit
  <2> QED
    BY <2>1, <2>2
<1>7. /\ DOMAIN c.heap = DOMAIN b.heap \ Filled(b)
      /\ \A p \in DOMAIN c.heap : /\ c.heap[p] \in Order
                                   /\ c.heap[p].id = b.heap[p].id
                                   /\ c.heap[p].side = b.heap[p].side
                                   /\ c.heap[p].price = b.heap[p].price
  <2>1. DOMAIN c.heap = DOMAIN b.heap \ Filled(b)
    BY <1>4
  <2>2. ASSUME NEW p \in DOMAIN c.heap, p \notin {bid, ask}
        PROVE  c.heap[p] = b.heap[p] /\ b.heap[p] \in Order
    BY <2>1, <2>2, <1>4 DEF BookOK, HeapOK
  <2>3. ASSUME NEW p \in DOMAIN c.heap, p \in {bid, ask}
        PROVE  /\ c.heap[p] \in Order
               /\ c.heap[p].id = b.heap[p].id
               /\ c.heap[p].side = b.heap[p].side
               /\ c.heap[p].price = b.heap[p].price
    <3>1. c.heap[p] = [b.heap[p] EXCEPT !.quantity = @ - q]
      BY <2>1, <2>3, <1>4
    <3>2. b.heap[p] \in Order /\ b.heap[p].quantity - q \in 0 .. Wrap - 1
      BY <2>3, <1>1, <1>2, WrapAssumption
    <3> QED
      BY <3>1, <3>2 DEF Order
  <2> QED
    BY <2>1, <2>2, <2>3
<1>8. /\ DOMAIN c.lookup = DOMAIN b.lookup \ FilledIds(b)
      /\ \A id \in DOMAIN c.lookup : c.lookup[id] = b.lookup[id]
  BY <1>4 DEF Restrict
<1>9. HeapOK(c, n)
  BY <1>7 DEF HeapOK, BookOK
<1>10. LevelsOK(c)
  BY <1>4, <1>6 DEF LevelsOK, BookOK, Without
<1>11. PlacedOK(c)
  BY <1>6, <1>7 DEF PlacedOK, BookOK, Without
<1>12. LookupOK(c)
  <2>1. ASSUME NEW id \in DOMAIN c.lookup PROVE EntryOK(c, id)
    <3>1. id \in DOMAIN b.lookup /\ id \notin FilledIds(b) /\ c.lookup[id] = b.lookup[id]
      BY <1>8
    <3>2. b.lookup[id] \in DOMAIN b.heap /\ b.heap[b.lookup[id]].id = id
      BY <3>1 DEF BookOK, LookupOK, EntryOK
    <3>3. b.lookup[id] \notin Filled(b)
      BY <3>1, <3>2 DEF FilledIds
    <3>4. /\ b.lookup[id] \in DOMAIN c.heap
          /\ c.heap[b.lookup[id]].id = id
          /\ c.heap[b.lookup[id]].side = b.heap[b.lookup[id]].side
          /\ c.heap[b.lookup[id]].price = b.heap[b.lookup[id]].price
      BY <3>2, <3>3, <1>7
    <3>5. \A s \in Side : \A x \in DOMAIN b.levels[s] :
            b.lookup[id] \in b.levels[s][x].orders =>
              x \in DOMAIN c.levels[s] /\ b.lookup[id] \in c.levels[s][x].orders
      BY <3>3, <1>6 DEF Without
    <3> QED
      BY <3>1, <3>4, <3>5, EntryKept
  <2> QED
    BY <2>1, <1>8 DEF LookupOK, BookOK
<1> QED
  BY <1>3, <1>4, <1>6, <1>9, <1>10, <1>11, <1>12 DEF BookOK, c

-----------------------------------------------------------------------------
(* The specification.                                                      *)

LEMMA InitOK == Init => IInv
BY EmptyBookOK, MaxOrdersAssumption DEF Init, IInv

\* Every call, every iteration of the loop and the destructor preserve IInv.
LEMMA StepOK == IInv /\ [Next]_vars => IInv'
<1> SUFFICES ASSUME IInv, [Next]_vars PROVE IInv'
  OBVIOUS
<1>1. /\ BookOK(book, next) /\ next \in Nat \ {0} /\ next \in 1 .. MaxOrders + 1
      /\ pc \in {"idle", "matching", "destroyed"} /\ clock \in Nat
  BY MaxOrdersAssumption DEF IInv
<1>2. \A t \in Ticks : clock + t \in Nat
  BY <1>1, TicksAssumption
<1>3. ASSUME NEW id \in Ids, NEW s \in Side, NEW x \in Prices, NEW q \in Quantities,
             Add(id, s, x, q)
      PROVE  IInv'
  <2>1. CASE id \in DOMAIN book.lookup
    <3>1. UNCHANGED vars
      BY <1>3, <2>1 DEF Add
    <3> QED
      BY <3>1, <1>1 DEF vars, IInv
  <2>2. CASE id \notin DOMAIN book.lookup
    <3> DEFINE o == [id |-> id, side |-> s, price |-> x, quantity |-> q, timestamp |-> clock']
    <3>1. /\ next <= MaxOrders /\ next' = next + 1 /\ pc' = "matching"
          /\ \E t \in Ticks : clock' = clock + t
          /\ book' = AddIn(book, next, o)
      BY <1>3, <2>2 DEF Add
    <3>2. clock' \in Nat
      BY <3>1, <1>2
    <3>3. o \in Order /\ o.id = id
      BY <3>2, QuantitiesAssumption DEF Order
    <3>4. BookOK(AddIn(book, next, o), next + 1)
      <4> HIDE DEF o
      <4> QED
        BY <3>3, <2>2, <1>1, AddInOK
    <3>5. next' \in 1 .. MaxOrders + 1
      BY <3>1, <1>1, MaxOrdersAssumption
    <3> QED
      BY <3>1, <3>2, <3>4, <3>5 DEF IInv
  <2> QED
    BY <2>1, <2>2
<1>4. ASSUME NEW id \in Ids, Cancel(id)
      PROVE  IInv'
  <2>1. BookOK(CancelIn(book, id), next)
    BY <1>1, CancelInOK
  <2> QED
    BY <2>1, <1>1, <1>4 DEF Cancel, IInv
<1>5. ASSUME NEW id \in Ids, NEW x \in Prices, NEW q \in Quantities, Amend(id, x, q)
      PROVE  IInv'
  <2>1. CASE id \notin DOMAIN book.lookup
    <3>1. UNCHANGED vars
      BY <1>5, <2>1 DEF Amend
    <3> QED
      BY <3>1, <1>1 DEF vars, IInv
  <2>2. CASE id \in DOMAIN book.lookup /\ AmendPrice(id, x, q)
    <3>1. /\ next <= MaxOrders /\ next' = next + 1 /\ pc' = "matching"
          /\ \E t \in Ticks : clock' = clock + t
          /\ book' = RepriceIn(book, next, id, x, q, clock')
      BY <2>2 DEF AmendPrice
    <3>2. clock' \in Nat
      BY <3>1, <1>2
    <3>3. BookOK(RepriceIn(book, next, id, x, q, clock'), next + 1)
      BY <2>2, <3>2, <1>1, QuantitiesAssumption, RepriceInOK
    <3>4. next' \in 1 .. MaxOrders + 1
      BY <3>1, <1>1, MaxOrdersAssumption
    <3> QED
      BY <3>1, <3>2, <3>3, <3>4 DEF IInv
  <2>3. CASE id \in DOMAIN book.lookup /\ AmendQuantity(id, q)
    <3>1. BookOK(ResizeIn(book, id, q), next)
      BY <2>3, <1>1, QuantitiesAssumption, ResizeInOK
    <3> QED
      BY <2>3, <3>1, <1>1 DEF AmendQuantity, IInv
  <2> QED
    BY <1>5, <2>1, <2>2, <2>3 DEF Amend
<1>6. ASSUME MatchOrders
      PROVE  IInv'
  <2>1. CASE Crossed(book)
    BY <2>1, <1>1, <1>6, TradeInOK DEF MatchOrders, IInv
  <2>2. CASE ~Crossed(book)
    BY <2>2, <1>1, <1>6 DEF MatchOrders, IInv
  <2> QED
    BY <2>1, <2>2
<1>7. ASSUME Destroy
      PROVE  IInv'
  <2>1. /\ book'.heap = Restrict(book.heap, DOMAIN book.heap \ Range(book.lookup))
        /\ book'.levels = EmptyBook.levels /\ book'.lookup = EmptyBook.lookup
        /\ book' = [heap |-> book'.heap, levels |-> book'.levels, lookup |-> book'.lookup]
        /\ pc' = "destroyed" /\ UNCHANGED <<next, clock>>
    BY <1>7 DEF Destroy, EmptyBook
  <2>2. HeapOK(book, next)' /\ LevelsOK(book)' /\ PlacedOK(book)' /\ LookupOK(book)'
    BY <2>1, <1>1 DEF BookOK, HeapOK, LevelsOK, PlacedOK, LookupOK, EmptyBook, Restrict
  <2> QED
    BY <2>1, <2>2, <1>1 DEF IInv, BookOK
<1>8. CASE UNCHANGED vars
  BY <1>8, <1>1 DEF vars, IInv
<1> QED
  BY <1>3, <1>4, <1>5, <1>6, <1>7, <1>8 DEF Next

THEOREM Invariance == Spec => []IInv
BY InitOK, StepOK, PTL DEF Spec

\* Every structure of the book keeps the shape its declaration gives it.
THEOREM TypeCorrect == Spec => []TypeOK
<1>1. IInv => TypeOK
  BY DEF IInv, BookOK, HeapOK, LevelsOK, LookupOK, TypeOK
<1> QED
  BY <1>1, Invariance, PTL

\* The lists and the lookup never hold a pointer to a deleted Order, after any
\* sequence of adds, cancels, amends and trades.
THEOREM MemorySafe == Spec => []NoDanglingPointer
<1>1. IInv => NoDanglingPointer
  BY DEF IInv, BookOK, PlacedOK, LookupOK, EntryOK, NoDanglingPointer
<1> QED
  BY <1>1, Invariance, PTL

\* match_orders never takes the front of an empty list.
THEOREM FrontExists == Spec => []NoEmptyLimit
<1>1. IInv => NoEmptyLimit
  BY DEF IInv, BookOK, LevelsOK, NoEmptyLimit
<1> QED
  BY <1>1, Invariance, PTL

\* What the lookup names is the order of that id, on its own list.
THEOREM LookupCorrect == Spec => []LookupSound
<1>1. IInv => LookupSound
  BY DEF IInv, BookOK, LookupOK, EntryOK, LookupSound
<1> QED
  BY <1>1, Invariance, PTL

\* No trade is outside the limits of its two orders, orders left behind by
\* amends and equal timestamps included.
THEOREM PricesWithinLimits == Spec => TradeWithinLimits
<1> DEFINE Within == Trading => /\ TradePrice(book) <= book.heap[BidOrder(book)].price
                                /\ TradePrice(book) >= book.heap[AskOrder(book)].price
<1>1. IInv /\ [Next]_vars => [Within]_vars
  <2> SUFFICES ASSUME IInv, Next, Trading PROVE Within
    OBVIOUS
  <2>1. Crossed(book)
    BY DEF Next, Trading, Add, Cancel, Amend, MatchOrders, Destroy
  <2>2. BookOK(book, next) /\ next \in Nat \ {0}
    BY MaxOrdersAssumption DEF IInv
  <2>3. /\ book.heap[BidOrder(book)].price = BestBid(book)
        /\ book.heap[AskOrder(book)].price = BestAsk(book)
        /\ BestBid(book) \in Prices /\ BestAsk(book) \in Prices
    BY <2>1, <2>2, TradingPair DEF BookOK, PlacedOK, LevelsOK
  <2> QED
    BY <2>1, <2>3 DEF Crossed, TradePrice, Prices
<1> QED
  BY <1>1, Invariance, PTL DEF Spec, TradeWithinLimits

\* Every trade takes an order off the book and puts none on it.
LEMMA TradeShrinks ==
  ASSUME NEW b, NEW n \in Nat \ {0}, BookOK(b, n), Crossed(b)
  PROVE  Resting(TradeIn(b)) \subseteq Resting(b) /\ Resting(TradeIn(b)) # Resting(b)
<1> DEFINE c == TradeIn(b)
<1>1. Filled(b) # {} /\ \A s \in Side : Without(c.levels[s], b.levels[s], Filled(b))
  BY TradeInOK
<1>2. Filled(b) \subseteq Resting(b)
  BY TradingPair DEF Filled, Resting, OnSide
<1> HIDE DEF c
<1>3. \A s \in Side : OnSide(c, s) \subseteq OnSide(b, s) \ Filled(b)
  BY <1>1 DEF OnSide, Without
<1>4. Resting(c) \subseteq Resting(b) \ Filled(b)
  BY <1>3 DEF Resting
<1> QED
  BY <1>1, <1>2, <1>4 DEF c

\* The matching loop ends: there are as many iterations as orders, at most.
THEOREM LoopEnds == Spec => MatchingEnds
<1> DEFINE Shrinks == Trading => /\ Resting(book') \subseteq Resting(book)
                                 /\ Resting(book') # Resting(book)
<1>1. IInv /\ [Next]_vars => [Shrinks]_vars
  <2> SUFFICES ASSUME IInv, Next, Trading PROVE Shrinks
    OBVIOUS
  <2>1. Crossed(book) /\ book' = TradeIn(book)
    BY DEF Next, Trading, Add, Cancel, Amend, MatchOrders, Destroy
  <2>2. BookOK(book, next) /\ next \in Nat \ {0}
    BY MaxOrdersAssumption DEF IInv
  <2> QED
    BY <2>1, <2>2, TradeShrinks
<1> QED
  BY <1>1, Invariance, PTL DEF Spec, MatchingEnds

-----------------------------------------------------------------------------
(* Between calls the book is not crossed.                                  *)

\* No bid is at or above an ask.
Apart(b) ==
  \A x \in DOMAIN b.levels["buy"], y \in DOMAIN b.levels["sell"] : x < y

\* When the loop stops the best prices, hence all prices, are apart.
LEMMA NotCrossedApart ==
  ASSUME NEW b, NEW n, BookOK(b, n), ~Crossed(b)
  PROVE  Apart(b)
<1> SUFFICES ASSUME NEW x \in DOMAIN b.levels["buy"], NEW y \in DOMAIN b.levels["sell"]
             PROVE  x < y
  BY DEF Apart
<1>1. /\ DOMAIN b.levels["buy"] \in SUBSET Prices /\ DOMAIN b.levels["buy"] # {}
      /\ DOMAIN b.levels["sell"] \in SUBSET Nat /\ DOMAIN b.levels["sell"] # {}
  BY DEF BookOK, LevelsOK, Prices
<1>2. BestBid(b) >= x /\ BestBid(b) \in Nat /\ x \in Nat
  BY <1>1, MaxOfPrices DEF BestBid, Prices
<1>3. BestAsk(b) <= y /\ BestAsk(b) \in Nat /\ y \in Nat
  BY <1>1, MinOfNat DEF BestAsk
<1>4. BestBid(b) < BestAsk(b)
  BY <1>1, <1>2, <1>3 DEF Crossed
<1> QED
  BY <1>2, <1>3, <1>4

\* Cancelling and resizing add no price to either side.
LEMMA CancelInPrices ==
  ASSUME NEW b, NEW n, BookOK(b, n), NEW id, NEW s \in Side
  PROVE  DOMAIN CancelIn(b, id).levels[s] \subseteq DOMAIN b.levels[s]
<1>1. CASE id \notin DOMAIN b.lookup
  BY <1>1 DEF CancelIn
<1>2. CASE id \in DOMAIN b.lookup
  <2> DEFINE o    == b.heap[b.lookup[id]]
             rest == [orders |-> RemoveIf(b, b.levels[o.side][o.price], id),
                      total  |-> (b.levels[o.side][o.price].total - o.quantity) % Wrap]
  <2>1. o.price \in DOMAIN b.levels[o.side]
    BY <1>2 DEF BookOK, LookupOK, EntryOK
  <2>2. CancelIn(b, id).levels =
          [b.levels EXCEPT ![o.side] = KeepUnlessEmpty(@, o.price, rest)]
    BY <1>2, <2>1, Zenon DEF CancelIn
  <2> HIDE DEF o, rest
  <2>3. DOMAIN KeepUnlessEmpty(b.levels[o.side], o.price, rest)
          \subseteq DOMAIN b.levels[o.side]
    BY <2>1 DEF KeepUnlessEmpty, Put, Erase, Restrict
  <2> QED
    BY <2>2, <2>3 DEF BookOK, LevelsOK
<1> QED
  BY <1>1, <1>2

LEMMA ResizeInPrices ==
  ASSUME NEW b, NEW n, BookOK(b, n), NEW id, NEW q, NEW s \in Side
  PROVE  DOMAIN ResizeIn(b, id, q).levels[s] = DOMAIN b.levels[s]
<1> DEFINE o     == b.heap[b.lookup[id]]
           total == (b.levels[o.side][o.price].total - o.quantity + q) % Wrap
<1>1. CASE o.price \notin DOMAIN b.levels[o.side]
  BY <1>1 DEF ResizeIn
<1>2. CASE o.price \in DOMAIN b.levels[o.side]
  <2>1. ResizeIn(b, id, q).levels = [b.levels EXCEPT ![o.side][o.price].total = total]
    BY <1>2 DEF ResizeIn, BookOK
  <2> HIDE DEF o, total
  <2> QED
    BY <2>1 DEF BookOK, LevelsOK
<1> QED
  BY <1>1, <1>2

\* After every call, and whatever it was, no bid on the book is at or above
\* any ask.
THEOREM NeverCrossed == Spec => []Uncrossed
<1> DEFINE U == pc = "idle" => Apart(book)
<1>1. Init => U
  BY DEF Init, EmptyBook, Apart
<1>2. IInv /\ U /\ [Next]_vars => U'
  <2> SUFFICES ASSUME IInv, U, [Next]_vars, pc' = "idle" PROVE Apart(book)'
    OBVIOUS
  <2>1. BookOK(book, next)
    BY DEF IInv
  <2>2. ASSUME NEW id \in Ids, Cancel(id)
        PROVE  Apart(book)'
    BY <2>1, <2>2, CancelInPrices DEF Cancel, Apart
  <2>3. ASSUME NEW id \in Ids, NEW x \in Prices, NEW q \in Quantities, Amend(id, x, q)
        PROVE  Apart(book)'
    <3>1. CASE AmendQuantity(id, q)
      BY <3>1, <2>1, <2>3, ResizeInPrices DEF Amend, AmendQuantity, Apart
    <3>2. CASE UNCHANGED vars
      BY <3>2 DEF vars, Apart
    <3>3. CASE AmendPrice(id, x, q)
      BY <3>3 DEF AmendPrice
    <3> QED
      BY <2>3, <3>1, <3>2, <3>3 DEF Amend
  <2>4. ASSUME MatchOrders
        PROVE  Apart(book)'
    BY <2>1, <2>4, NotCrossedApart DEF MatchOrders, Apart
  <2>5. CASE UNCHANGED vars
    BY <2>5 DEF vars, Apart
  <2>6. ASSUME NEW id \in Ids, NEW s \in Side, NEW x \in Prices, NEW q \in Quantities,
               Add(id, s, x, q)
        PROVE  Apart(book)'
    BY <2>6, <2>5 DEF Add
  <2> QED
    BY <2>2, <2>3, <2>4, <2>5, <2>6 DEF Next, Destroy
<1>3. IInv /\ U => Uncrossed
  BY DEF IInv, BookOK, PlacedOK, OnSide, Apart, Uncrossed
<1> QED
  BY <1>1, <1>2, <1>3, Invariance, PTL DEF Spec
-----------------------------------------------------------------------------
(* Orders over time.  What follows rests on what an operation does not do: *)
(* change the id, side, price or timestamp of an object.                   *)

Same(o, r) == /\ o.id = r.id /\ o.side = r.side
              /\ o.price = r.price /\ o.timestamp = r.timestamp

\* From b to c objects and list entries may go, and quantities may change.
Kept(b, c) ==
  /\ DOMAIN c.heap \subseteq DOMAIN b.heap
  /\ \A p \in DOMAIN c.heap : Same(c.heap[p], b.heap[p])
  /\ \A s \in Side : OnSide(c, s) \subseteq OnSide(b, s)

\* From b to c the object n is added.
Grown(b, c, n, o) ==
  /\ DOMAIN c.heap = DOMAIN b.heap \cup {n}
  /\ c.heap[n] = o
  /\ \A p \in DOMAIN b.heap : c.heap[p] = b.heap[p]
  /\ \A s \in Side : OnSide(c, s) \subseteq OnSide(b, s) \cup {n}

LEMMA AddGrows ==
  ASSUME NEW b, NEW n \in Nat \ {0}, BookOK(b, n), NEW o \in Order,
         o.id \notin DOMAIN b.lookup
  PROVE  Grown(b, AddIn(b, n, o), n, o)
<1> DEFINE limit == LimitAt(b, o.side, o.price)
           added == [orders |-> limit.orders \cup {n},
                     total  |-> (limit.total + o.quantity) % Wrap]
           c     == AddIn(b, n, o)
<1>1. /\ c.heap   = Put(b.heap, n, o)
      /\ c.levels = [b.levels EXCEPT ![o.side] = Put(@, o.price, added)]
  BY DEF AddIn
<1>2. n \notin DOMAIN b.heap /\ DOMAIN b.levels = Side /\ o.side \in Side
  BY DEF BookOK, HeapOK, LevelsOK, Order
<1>3. added.orders = limit.orders \cup {n}
  OBVIOUS
<1> HIDE DEF c, added
<1>4. /\ DOMAIN c.heap = DOMAIN b.heap \cup {n} /\ c.heap[n] = o
      /\ \A p \in DOMAIN b.heap : c.heap[p] = b.heap[p]
  BY <1>1, <1>2 DEF Put
<1>5. ASSUME NEW s \in Side, NEW x \in DOMAIN c.levels[s], NEW p \in c.levels[s][x].orders
      PROVE  p = n \/ p \in OnSide(b, s)
  <2>1. CASE s = o.side /\ x = o.price
    <3>1. c.levels[s][x] = added
      BY <2>1, <1>1, <1>2 DEF Put
    <3>2. p = n \/ p \in limit.orders
      BY <3>1, <1>3
    <3> QED
      BY <2>1, <3>2 DEF LimitAt, OnSide
  <2>2. CASE ~ (s = o.side /\ x = o.price)
    <3>1. x \in DOMAIN b.levels[s] /\ c.levels[s][x] = b.levels[s][x]
      BY <2>2, <1>1, <1>2 DEF Put
    <3> QED
      BY <3>1 DEF OnSide
  <2> QED
    BY <2>1, <2>2
<1>6. \A s \in Side : OnSide(c, s) \subseteq OnSide(b, s) \cup {n}
  BY <1>5 DEF OnSide
<1> QED
  BY <1>4, <1>6 DEF Grown, c

\* An amend of the price adds an object with the id and the side of the old
\* one; the old one stays.
LEMMA RepriceGrows ==
  ASSUME NEW b, NEW n \in Nat \ {0}, BookOK(b, n), NEW id \in DOMAIN b.lookup,
         NEW x \in Prices, NEW q \in 0 .. Wrap - 1, NEW now \in Nat
  PROVE  \E o \in Order : o.timestamp = now /\ Grown(b, RepriceIn(b, n, id, x, q, now), n, o)
<1> DEFINE old     == b.heap[b.lookup[id]]
           amended == [old EXCEPT !.price = x, !.quantity = q, !.timestamp = now]
           erased  == [b EXCEPT !.lookup = Erase(b.lookup, id)]
<1>1. old \in Order /\ old.id = id
  BY DEF BookOK, LookupOK, EntryOK, HeapOK
<1>2. amended \in Order /\ amended.id = id /\ amended.timestamp = now
  BY <1>1 DEF Order
<1>3. /\ erased.heap = b.heap /\ erased.levels = b.levels
      /\ DOMAIN erased.lookup = DOMAIN b.lookup \ {id}
      /\ \A i \in DOMAIN b.lookup \ {id} : erased.lookup[i] = b.lookup[i]
      /\ erased = [heap |-> erased.heap, levels |-> erased.levels, lookup |-> erased.lookup]
  BY DEF BookOK, Erase, Restrict
<1>4. RepriceIn(b, n, id, x, q, now) = AddIn(CancelIn(erased, id), n, amended)
  BY DEF RepriceIn
<1> HIDE DEF erased, amended
<1>5. BookOK(erased, n)
  <2>1. /\ DOMAIN erased.lookup \subseteq DOMAIN b.lookup
        /\ \A i \in DOMAIN erased.lookup : erased.lookup[i] = b.lookup[i]
    BY <1>3
  <2> QED
    BY <1>3, <2>1, ErasedOK, Zenon
<1>6. CancelIn(erased, id) = erased
  BY <1>3 DEF CancelIn
<1>7. Grown(erased, AddIn(erased, n, amended), n, amended)
  BY <1>2, <1>3, <1>5, AddGrows
<1>8. Grown(b, RepriceIn(b, n, id, x, q, now), n, amended)
  BY <1>3, <1>4, <1>6, <1>7 DEF Grown, OnSide
<1> QED
  BY <1>2, <1>8

\* Lists that are erased or lose entries hold nothing new.
LEMMA KeepUnlessEmptyShrinks ==
  ASSUME NEW level, NEW x \in DOMAIN level, NEW limit, limit.orders \subseteq level[x].orders
  PROVE  \A y \in DOMAIN KeepUnlessEmpty(level, x, limit) :
           y \in DOMAIN level /\ KeepUnlessEmpty(level, x, limit)[y].orders \subseteq level[y].orders
BY DEF KeepUnlessEmpty, Put, Erase, Restrict

LEMMA CancelKeeps ==
  ASSUME NEW b, NEW n, BookOK(b, n), NEW id
  PROVE  Kept(b, CancelIn(b, id))
<1>1. CASE id \notin DOMAIN b.lookup
  BY <1>1 DEF CancelIn, Kept, Same
<1>2. CASE id \in DOMAIN b.lookup
  <2> DEFINE p     == b.lookup[id]
             o     == b.heap[p]
             limit == b.levels[o.side][o.price]
             rest  == [orders |-> RemoveIf(b, limit, id),
                       total  |-> (limit.total - o.quantity) % Wrap]
             c     == CancelIn(b, id)
  <2>1. o.price \in DOMAIN b.levels[o.side]
    BY <1>2, EntryLeads, Zenon
  <2>2. c.heap = Erase(b.heap, p)
        /\ c.levels = [b.levels EXCEPT ![o.side] = KeepUnlessEmpty(@, o.price, rest)]
    BY <1>2, <2>1, Zenon DEF CancelIn, Delete
  <2>3. rest.orders \subseteq b.levels[o.side][o.price].orders
    BY DEF RemoveIf
  <2> HIDE DEF c, rest, o, p
  <2>4. DOMAIN c.heap \subseteq DOMAIN b.heap
        /\ \A r \in DOMAIN c.heap : c.heap[r] = b.heap[r]
    BY <2>2 DEF Erase, Restrict
  <2>5. ASSUME NEW s \in Side, NEW y \in DOMAIN c.levels[s]
        PROVE  y \in DOMAIN b.levels[s] /\ c.levels[s][y].orders \subseteq b.levels[s][y].orders
    <3>1. DOMAIN b.levels = Side
      BY DEF BookOK, LevelsOK
    <3>2. CASE s = o.side
      <4>1. c.levels[s] = KeepUnlessEmpty(b.levels[s], o.price, rest)
        BY <2>2, <3>1, <3>2
      <4> QED
        <5>1. /\ o.price \in DOMAIN b.levels[s]
              /\ rest.orders \subseteq b.levels[s][o.price].orders
          BY <2>1, <2>3, <3>2
        <5> QED
          BY <4>1, <5>1, KeepUnlessEmptyShrinks
    <3>3. CASE s # o.side
      <4>1. c.levels[s] = b.levels[s]
        BY <2>2, <3>1, <3>3
      <4> QED
        BY <4>1
    <3> QED
      BY <3>2, <3>3
  <2>6. \A s \in Side : OnSide(c, s) \subseteq OnSide(b, s)
    BY <2>5 DEF OnSide
  <2> QED
    BY <2>4, <2>6 DEF Kept, Same, c
<1> QED
  BY <1>1, <1>2

LEMMA ResizeKeeps ==
  ASSUME NEW b, NEW n, BookOK(b, n), NEW id \in DOMAIN b.lookup, NEW q
  PROVE  Kept(b, ResizeIn(b, id, q)) /\ DOMAIN ResizeIn(b, id, q).heap = DOMAIN b.heap
<1> DEFINE p     == b.lookup[id]
           o     == b.heap[p]
           total == (b.levels[o.side][o.price].total - o.quantity + q) % Wrap
           c     == ResizeIn(b, id, q)
<1>1. /\ o.price \in DOMAIN b.levels[o.side] /\ p \in DOMAIN b.heap
      /\ o \in Order /\ o.side \in Side
  BY DEF BookOK, LookupOK, EntryOK, HeapOK, Order
<1>2. /\ c.heap = [b.heap EXCEPT ![p].quantity = q]
      /\ c.levels = [b.levels EXCEPT ![o.side][o.price].total = total]
  BY <1>1 DEF ResizeIn, BookOK
<1> HIDE DEF c, total
<1>3. DOMAIN c.heap = DOMAIN b.heap /\ \A r \in DOMAIN b.heap : Same(c.heap[r], b.heap[r])
  <2>1. ASSUME NEW r \in Order PROVE Same([r EXCEPT !.quantity = q], r)
    BY DEF Same, Order
  <2> HIDE DEF o, p
  <2>2. DOMAIN c.heap = DOMAIN b.heap /\ c.heap[p] = [b.heap[p] EXCEPT !.quantity = q]
    BY <1>1, <1>2
  <2>3. Same(c.heap[p], b.heap[p])
    BY <1>1, <2>1, <2>2 DEF o
  <2>4. \A r \in DOMAIN b.heap \ {p} : c.heap[r] = b.heap[r]
    BY <1>2
  <2> QED
    BY <2>2, <2>3, <2>4 DEF Same
<1> HIDE DEF o, p
<1>4. \A s \in Side : DOMAIN c.levels[s] = DOMAIN b.levels[s]
  BY <1>2 DEF BookOK, LevelsOK
<1>5. \A s \in Side : \A y \in DOMAIN b.levels[s] : c.levels[s][y].orders = b.levels[s][y].orders
  <2> SUFFICES ASSUME NEW s \in Side, NEW y \in DOMAIN b.levels[s]
               PROVE  c.levels[s][y].orders = b.levels[s][y].orders
    OBVIOUS
  <2>1. b.levels[s][y] \in Limit
    BY DEF BookOK, LevelsOK
  <2> QED
    BY <1>1, <1>2, <2>1 DEF BookOK, LevelsOK, Limit
<1>6. \A s \in Side : OnSide(c, s) = OnSide(b, s)
  BY <1>4, <1>5 DEF OnSide
<1> QED
  BY <1>3, <1>6 DEF Kept, c

LEMMA TradeKeeps ==
  ASSUME NEW b, NEW n \in Nat \ {0}, BookOK(b, n), Crossed(b)
  PROVE  Kept(b, TradeIn(b)) /\ DOMAIN TradeIn(b).heap = DOMAIN b.heap \ Filled(b)
<1> DEFINE c == TradeIn(b)
           q == TradeQuantity(b)
<1>1. c.heap = [p \in DOMAIN b.heap \ Filled(b) |->
                  IF p \in {BidOrder(b), AskOrder(b)}
                  THEN [b.heap[p] EXCEPT !.quantity = @ - q] ELSE b.heap[p]]
  BY DEF TradeIn
<1>2. \A s \in Side : Without(c.levels[s], b.levels[s], Filled(b))
  BY TradeInOK
<1> HIDE DEF c, q
<1>3. DOMAIN c.heap = DOMAIN b.heap \ Filled(b)
  BY <1>1
<1>4. ASSUME NEW p \in DOMAIN c.heap PROVE Same(c.heap[p], b.heap[p])
  <2>1. b.heap[p] \in Order
    BY <1>3 DEF BookOK, HeapOK
  <2> QED
    BY <1>1, <2>1 DEF Same, Order
<1>5. \A s \in Side : OnSide(c, s) \subseteq OnSide(b, s)
  BY <1>2 DEF OnSide, Without
<1> QED
  BY <1>3, <1>4, <1>5 DEF Kept, c

-----------------------------------------------------------------------------
(* Objects are allocated in the order of their timestamps.                 *)

\* now is not before any timestamp, a younger object has no older timestamp,
\* and a newer one if the clock advances between any two readings.
Timed(b, now) ==
  /\ \A p \in DOMAIN b.heap : b.heap[p].timestamp <= now
  /\ \A p, r \in DOMAIN b.heap : p < r =>
       /\ b.heap[p].timestamp <= b.heap[r].timestamp
       /\ 0 \notin Ticks => b.heap[p].timestamp < b.heap[r].timestamp

LEMMA KeptTimed ==
  ASSUME NEW b, NEW c, NEW now, Kept(b, c), Timed(b, now)
  PROVE  Timed(c, now)
BY DEF Kept, Same, Timed

LEMMA GrownTimed ==
  ASSUME NEW b, NEW c, NEW n \in Nat, HeapOK(b, n), NEW now \in Nat, NEW t \in Ticks,
         NEW o, o.timestamp = now + t, Grown(b, c, n, o), Timed(b, now)
  PROVE  Timed(c, now + t)
<1>1. t \in Nat /\ (0 \notin Ticks => t > 0)
  BY TicksAssumption
<1>2. \A p \in DOMAIN b.heap : /\ p \in Nat /\ p < n
                               /\ b.heap[p].timestamp \in Nat
                               /\ b.heap[p].timestamp <= now
  BY DEF HeapOK, Order, Timed
<1>3. /\ DOMAIN c.heap = DOMAIN b.heap \cup {n} /\ c.heap[n].timestamp = now + t
      /\ \A p \in DOMAIN b.heap : c.heap[p] = b.heap[p]
  BY DEF Grown
<1>4. \A p \in DOMAIN c.heap : c.heap[p].timestamp <= now + t
  BY <1>1, <1>2, <1>3
<1>5. ASSUME NEW p \in DOMAIN c.heap, NEW r \in DOMAIN c.heap, p < r
      PROVE  /\ c.heap[p].timestamp <= c.heap[r].timestamp
             /\ 0 \notin Ticks => c.heap[p].timestamp < c.heap[r].timestamp
  <2>1. CASE r = n
    <3>1. p \in DOMAIN b.heap
      BY <1>3, <1>5, <2>1
    <3> QED
      BY <1>1, <1>2, <1>3, <2>1, <3>1
  <2>2. CASE r \in DOMAIN b.heap
    <3>1. p \in DOMAIN b.heap
      BY <1>2, <1>3, <1>5, <2>2
    <3> QED
      BY <1>3, <1>5, <2>2, <3>1 DEF Timed
  <2> QED
    BY <1>3, <2>1, <2>2
<1> QED
  BY <1>4, <1>5 DEF Timed

-----------------------------------------------------------------------------
(* A step is one of these, for the heap and the lists.                     *)

\* A request that adds an object and starts the loop.
Begins ==
  /\ pc = "idle" /\ pc' = "matching" /\ next' = next + 1
  /\ \E t \in Ticks : clock' = clock + t
  /\ \E o \in Order : o.timestamp = clock' /\ Grown(book, book', next, o)

\* A request that adds none, or an iteration of the loop.
Goes ==
  /\ pc' = pc /\ UNCHANGED <<next, clock>>
  /\ pc = "matching" => Crossed(book) /\ book' = TradeIn(book)
  /\ Kept(book, book')

\* The end of the loop, or of the book.
Stops ==
  /\ UNCHANGED <<next, clock>>
  /\ \/ pc = "matching" /\ pc' = "idle" /\ ~Crossed(book) /\ UNCHANGED book
     \/ Destroy

LEMMA StepKinds ==
  ASSUME IInv, [Next]_vars
  PROVE  Begins \/ Goes \/ Stops \/ UNCHANGED vars
<1>1. BookOK(book, next) /\ next \in Nat \ {0} /\ clock \in Nat
  BY MaxOrdersAssumption DEF IInv
<1>2. \A t \in Ticks : clock + t \in Nat
  BY <1>1, TicksAssumption
<1>3. ASSUME NEW id \in Ids, NEW s \in Side, NEW x \in Prices, NEW q \in Quantities,
             Add(id, s, x, q)
      PROVE  Begins \/ UNCHANGED vars
  <2>1. CASE id \notin DOMAIN book.lookup
    <3> DEFINE o == [id |-> id, side |-> s, price |-> x, quantity |-> q, timestamp |-> clock']
    <3>1. /\ pc = "idle" /\ next' = next + 1 /\ pc' = "matching"
          /\ \E t \in Ticks : clock' = clock + t
          /\ book' = AddIn(book, next, o)
      BY <1>3, <2>1 DEF Add
    <3>2. o \in Order /\ o.id = id /\ o.timestamp = clock'
      BY <3>1, <1>2, QuantitiesAssumption DEF Order
    <3> HIDE DEF o
    <3>3. Grown(book, book', next, o)
      BY <1>1, <2>1, <3>1, <3>2, AddGrows
    <3> QED
      BY <3>1, <3>2, <3>3 DEF Begins
  <2> QED
    BY <1>3, <2>1 DEF Add
<1>4. ASSUME NEW id \in Ids, Cancel(id)
      PROVE  Goes
  BY <1>1, <1>4, CancelKeeps DEF Cancel, Goes
<1>5. ASSUME NEW id \in Ids, NEW x \in Prices, NEW q \in Quantities, Amend(id, x, q)
      PROVE  Begins \/ Goes \/ UNCHANGED vars
  <2>1. CASE id \in DOMAIN book.lookup /\ AmendPrice(id, x, q)
    <3>1. /\ pc = "idle" /\ next' = next + 1 /\ pc' = "matching"
          /\ \E t \in Ticks : clock' = clock + t
          /\ book' = RepriceIn(book, next, id, x, q, clock')
      BY <1>5, <2>1 DEF Amend, AmendPrice
    <3>2. clock' \in Nat /\ q \in 0 .. Wrap - 1
      BY <3>1, <1>2, QuantitiesAssumption
    <3>3. \E o \in Order : o.timestamp = clock' /\ Grown(book, book', next, o)
      BY <1>1, <2>1, <3>1, <3>2, RepriceGrows
    <3> QED
      BY <3>1, <3>3 DEF Begins
  <2>2. CASE id \in DOMAIN book.lookup /\ AmendQuantity(id, q)
    BY <1>1, <1>5, <2>2, ResizeKeeps DEF Amend, AmendQuantity, Goes
  <2> QED
    BY <1>5, <2>1, <2>2 DEF Amend
<1>6. ASSUME MatchOrders
      PROVE  Goes \/ Stops
  BY <1>1, <1>6, TradeKeeps DEF MatchOrders, Goes, Stops
<1>7. ASSUME Destroy
      PROVE  Stops
  BY <1>7 DEF Destroy, Stops
<1> QED
  BY <1>3, <1>4, <1>5, <1>6, <1>7 DEF Next

\* The clock and the objects on the book never disagree.
LEMMA TimeOrdered == Spec => []Timed(book, clock)
<1>1. Init => Timed(book, clock)
  BY DEF Init, EmptyBook, Timed
<1>2. IInv /\ Timed(book, clock) /\ [Next]_vars => Timed(book, clock)'
  <2> SUFFICES ASSUME IInv, Timed(book, clock), [Next]_vars
               PROVE  Timed(book', clock')
    OBVIOUS
  <2>1. CASE Begins
    <3>1. /\ HeapOK(book, next) /\ next \in Nat /\ clock \in Nat
      BY MaxOrdersAssumption DEF IInv, BookOK
    <3>2. PICK t \in Ticks : clock' = clock + t
      BY <2>1 DEF Begins
    <3>3. PICK o \in Order : o.timestamp = clock + t /\ Grown(book, book', next, o)
      BY <2>1, <3>2 DEF Begins
    <3> QED
      BY <3>1, <3>2, <3>3, GrownTimed
  <2>2. CASE Goes
    BY <2>2, KeptTimed DEF Goes
  <2>3. CASE Stops
    <3>1. CASE UNCHANGED book /\ UNCHANGED clock
      BY <3>1
    <3>2. CASE Destroy
      <4>1. /\ book'.heap = Restrict(book.heap, DOMAIN book.heap \ Range(book.lookup))
            /\ clock' = clock
        BY <3>2 DEF Destroy, EmptyBook
      <4>2. /\ DOMAIN book'.heap \subseteq DOMAIN book.heap
            /\ \A p \in DOMAIN book'.heap : book'.heap[p] = book.heap[p]
        BY <4>1 DEF Restrict
      <4> QED
        BY <4>1, <4>2 DEF Timed
    <3> QED
      BY <2>3, <3>1, <3>2 DEF Stops
  <2>4. CASE UNCHANGED vars
    BY <2>4 DEF vars
  <2> QED
    BY <2>1, <2>2, <2>3, <2>4, StepKinds
<1> QED
  BY <1>1, <1>2, Invariance, PTL DEF Spec

\* The facts of a trade: it changes the first bid and the first ask only.
LEMMA TradeStep ==
  ASSUME IInv, Next, Trading
  PROVE  /\ BookOK(book, next) /\ next \in Nat \ {0} /\ Crossed(book)
         /\ BidOrder(book) \in OnSide(book, "buy") \cap DOMAIN book.heap
         /\ AskOrder(book) \in OnSide(book, "sell") \cap DOMAIN book.heap
         /\ book.heap[BidOrder(book)].side = "buy"
         /\ book.heap[AskOrder(book)].side = "sell"
         /\ book.heap[BidOrder(book)].price = BestBid(book) /\ BestBid(book) \in Prices
         /\ book.heap[AskOrder(book)].price = BestAsk(book) /\ BestAsk(book) \in Prices
         /\ \A p \in DOMAIN book.heap :
              p \notin DOMAIN book'.heap \/ book'.heap[p] # book.heap[p] =>
                p \in {BidOrder(book), AskOrder(book)}
<1>1. Crossed(book) /\ book' = TradeIn(book)
  BY DEF Next, Trading, Add, Cancel, Amend, MatchOrders, Destroy
<1>2. BookOK(book, next) /\ next \in Nat \ {0}
  BY MaxOrdersAssumption DEF IInv
<1>3. \A p \in DOMAIN book.heap \ {BidOrder(book), AskOrder(book)} :
        p \in DOMAIN book'.heap /\ book'.heap[p] = book.heap[p]
  BY <1>1 DEF TradeIn, Filled
<1>4. \A s \in Side : \A x \in DOMAIN book.levels[s] : \A p \in book.levels[s][x].orders :
        /\ p \in OnSide(book, s) \cap DOMAIN book.heap
        /\ book.heap[p].side = s /\ book.heap[p].price = x /\ x \in Prices
  BY <1>2 DEF BookOK, PlacedOK, LevelsOK, OnSide
<1>5. /\ BestBid(book) \in DOMAIN book.levels["buy"]
      /\ BidOrder(book) \in book.levels["buy"][BestBid(book)].orders
      /\ BestAsk(book) \in DOMAIN book.levels["sell"]
      /\ AskOrder(book) \in book.levels["sell"][BestAsk(book)].orders
  BY <1>1, <1>2, TradingPair
<1>6. "buy" \in Side /\ "sell" \in Side
  BY DEF Side
<1> QED
  BY <1>1, <1>2, <1>3, <1>4, <1>5, <1>6, Zenon

\* Of all orders on its side, the one that trades has the best price, and of
\* those at that price the oldest timestamp: after any adds, cancels, amends
\* (orders these leave behind included) and trades.
THEOREM Priority == Spec => PriceTimePriority
<1> DEFINE Ahead(o, r) == \/ o.side = "buy"  /\ r.price > o.price
                          \/ o.side = "sell" /\ r.price < o.price
                          \/ r.price = o.price /\ r.timestamp < o.timestamp
           Changed == {p \in DOMAIN book.heap :
                         p \notin DOMAIN book'.heap \/ book'.heap[p] # book.heap[p]}
           First == Trading => \A p \in Changed, r \in Resting(book) :
                      book.heap[p].side = book.heap[r].side =>
                        ~Ahead(book.heap[p], book.heap[r])
<1>1. IInv /\ Timed(book, clock) /\ [Next]_vars => [First]_vars
  <2> SUFFICES ASSUME IInv, Timed(book, clock), Next, Trading,
                      NEW p \in Changed, NEW r \in Resting(book),
                      book.heap[p].side = book.heap[r].side
               PROVE  ~Ahead(book.heap[p], book.heap[r])
    OBVIOUS
  <2> DEFINE s == book.heap[p].side
  <2>1. BookOK(book, next) /\ next \in Nat \ {0} /\ Crossed(book)
    BY TradeStep
  <2>2. p \in {BidOrder(book), AskOrder(book)} /\ p \in DOMAIN book.heap
    BY TradeStep
  <2>3. PICK side \in Side : r \in OnSide(book, side)
    BY DEF Resting
  <2>4. PICK x \in DOMAIN book.levels[side] : r \in book.levels[side][x].orders
    BY <2>3 DEF OnSide
  <2>5. /\ r \in DOMAIN book.heap /\ book.heap[r].side = side /\ book.heap[r].price = x
        /\ x \in Prices
    BY <2>1, <2>4 DEF BookOK, PlacedOK, LevelsOK
  <2>6. /\ p \in Nat /\ r \in Nat
        /\ book.heap[p].timestamp \in Nat /\ book.heap[r].timestamp \in Nat
    BY <2>1, <2>2, <2>5 DEF BookOK, HeapOK, Order
  <2>7. p <= r => book.heap[p].timestamp <= book.heap[r].timestamp
    <3>1. CASE p = r
      BY <3>1, <2>6
    <3>2. CASE p < r
      BY <3>2, <2>2, <2>5 DEF Timed
    <3> QED
      BY <3>1, <3>2, <2>6
  <2>8. CASE p = BidOrder(book)
    <3>1. s = "buy" /\ book.heap[p].price = BestBid(book) /\ BestBid(book) \in Prices
      BY <2>8, TradeStep
    <3>2. side = "buy" /\ x <= BestBid(book)
      BY <2>1, <2>4, <2>5, <3>1, TradingPair DEF Prices
    <3>3. x = BestBid(book) => p <= r
      BY <2>1, <2>4, <2>8, <3>2, TradingPair
    <3> QED
      BY <2>5, <2>6, <2>7, <3>1, <3>2, <3>3 DEF Prices
  <2>9. CASE p = AskOrder(book)
    <3>1. s = "sell" /\ book.heap[p].price = BestAsk(book) /\ BestAsk(book) \in Prices
      BY <2>9, TradeStep
    <3>2. side = "sell" /\ x >= BestAsk(book)
      BY <2>1, <2>4, <2>5, <3>1, TradingPair DEF Prices
    <3>3. x = BestAsk(book) => p <= r
      BY <2>1, <2>4, <2>9, <3>2, TradingPair
    <3> QED
      BY <2>5, <2>6, <2>7, <3>1, <3>2, <3>3 DEF Prices
  <2> QED
    BY <2>2, <2>8, <2>9
<1> QED
  BY <1>1, Invariance, TimeOrdered, PTL DEF Spec, PriceTimePriority

-----------------------------------------------------------------------------
(* While the loop runs, whatever crosses crosses with the newest object.   *)

ApartBut(b, n) ==
  \A p \in OnSide(b, "buy"), r \in OnSide(b, "sell") :
    p = n \/ r = n \/ b.heap[p].price < b.heap[r].price

Incoming == pc = "matching" => ApartBut(book, next - 1)

LEMMA OnlyIncomingCrosses == Spec => []Incoming
<1>1. Init => Incoming
  BY DEF Init, Incoming
<1>2. IInv /\ IInv' /\ Uncrossed /\ Incoming /\ [Next]_vars => Incoming'
  <2> SUFFICES ASSUME IInv, IInv', Uncrossed, Incoming, [Next]_vars, pc' = "matching",
                      NEW p \in OnSide(book', "buy"), NEW r \in OnSide(book', "sell"),
                      p # next' - 1, r # next' - 1
               PROVE  book'.heap[p].price < book'.heap[r].price
    BY DEF Incoming, ApartBut
  <2>1. p \in DOMAIN book'.heap /\ r \in DOMAIN book'.heap
    BY DEF IInv, BookOK, PlacedOK, OnSide
  <2>2. \A s \in Side : OnSide(book, s) \subseteq DOMAIN book.heap
    BY DEF IInv, BookOK, PlacedOK, OnSide
  <2>3. CASE Begins
    <3>1. next' - 1 = next
      BY <2>3, MaxOrdersAssumption DEF Begins, IInv
    <3>2. p \in OnSide(book, "buy") /\ r \in OnSide(book, "sell")
      BY <2>3, <3>1 DEF Begins, Grown
    <3>3. book'.heap[p] = book.heap[p] /\ book'.heap[r] = book.heap[r]
      BY <2>2, <2>3, <3>2 DEF Begins, Grown
    <3> QED
      BY <2>3, <3>2, <3>3 DEF Begins, Uncrossed
  <2>4. CASE Goes
    <3>1. p \in OnSide(book, "buy") /\ r \in OnSide(book, "sell")
      BY <2>4 DEF Goes, Kept
    <3>2. Same(book'.heap[p], book.heap[p]) /\ Same(book'.heap[r], book.heap[r])
      BY <2>1, <2>4 DEF Goes, Kept
    <3> QED
      BY <2>4, <3>1, <3>2 DEF Goes, Same, Incoming, ApartBut
  <2>5. CASE UNCHANGED vars
    BY <2>5 DEF vars, Incoming, ApartBut
  <2> QED
    BY <2>3, <2>4, <2>5, StepKinds DEF Stops, Destroy
<1> QED
  BY <1>1, <1>2, Invariance, NeverCrossed, PTL DEF Spec

\* Whoever was on the book first sets the price, provided that the clock
\* advances between two readings.
THEOREM RestingOrderSetsPrice == 0 \notin Ticks => (Spec => TradeAtRestingPrice)
<1> SUFFICES ASSUME 0 \notin Ticks PROVE Spec => TradeAtRestingPrice
  OBVIOUS
<1> DEFINE incoming == next - 1
           AtResting == Trading =>
             LET newest == next - 1
             IN  /\ newest \in {BidOrder(book), AskOrder(book)}
                 /\ \A p \in {BidOrder(book), AskOrder(book)} \ {newest} :
                      TradePrice(book) = book.heap[p].price
<1>1. IInv /\ Timed(book, clock) /\ Incoming /\ [Next]_vars => [AtResting]_vars
  <2> SUFFICES ASSUME IInv, Timed(book, clock), Incoming, Next, Trading
               PROVE  /\ incoming \in {BidOrder(book), AskOrder(book)}
                      /\ \A p \in {BidOrder(book), AskOrder(book)} \ {incoming} :
                           TradePrice(book) = book.heap[p].price
    OBVIOUS
  <2> DEFINE bid == BidOrder(book)
             ask == AskOrder(book)
  <2>1. /\ bid \in OnSide(book, "buy") /\ bid \in DOMAIN book.heap
        /\ ask \in OnSide(book, "sell") /\ ask \in DOMAIN book.heap
        /\ book.heap[bid].side = "buy" /\ book.heap[ask].side = "sell"
        /\ ~(book.heap[bid].price < book.heap[ask].price)
    BY TradeStep DEF Crossed, Prices
  <2>2. /\ bid \in Nat /\ ask \in Nat /\ bid <= incoming /\ ask <= incoming
        /\ bid # ask /\ incoming \in Nat
        /\ book.heap[bid].timestamp \in Nat /\ book.heap[ask].timestamp \in Nat
    BY <2>1, TradeStep DEF BookOK, HeapOK, Order
  <2>3. incoming \in {bid, ask}
    BY <2>1 DEF Incoming, ApartBut, Trading
  <2>4. CASE incoming = bid
    <3>1. book.heap[ask].timestamp < book.heap[bid].timestamp
      BY <2>1, <2>2, <2>4 DEF Timed
    <3> QED
      BY <2>2, <2>4, <3>1 DEF TradePrice
  <2>5. CASE incoming = ask
    <3>1. book.heap[bid].timestamp < book.heap[ask].timestamp
      BY <2>1, <2>2, <2>5 DEF Timed
    <3> QED
      BY <2>2, <2>5, <3>1 DEF TradePrice
  <2> QED
    BY <2>3, <2>4, <2>5
<1> QED
  BY <1>1, Invariance, TimeOrdered, OnlyIncomingCrosses, PTL DEF Spec, TradeAtRestingPrice

-----------------------------------------------------------------------------
(* Without price amends the lookup names every object there is.            *)

Covered(b) ==
  \A p \in DOMAIN b.heap :
    b.heap[p].id \in DOMAIN b.lookup /\ b.lookup[b.heap[p].id] = p

LEMMA AddCovers ==
  ASSUME NEW b, NEW n \in Nat \ {0}, BookOK(b, n), NEW o \in Order,
         o.id \notin DOMAIN b.lookup, Covered(b)
  PROVE  Covered(AddIn(b, n, o))
<1> DEFINE c == AddIn(b, n, o)
<1>1. Grown(b, c, n, o) /\ c.lookup = Put(b.lookup, o.id, n)
  BY AddGrows DEF AddIn
<1> HIDE DEF c
<1>2. \A p \in DOMAIN b.heap : b.heap[p].id # o.id
  BY DEF Covered
<1>3. n \notin DOMAIN b.heap
  BY DEF BookOK, HeapOK
<1>4. /\ DOMAIN c.lookup = DOMAIN b.lookup \cup {o.id} /\ c.lookup[o.id] = n
      /\ \A i \in DOMAIN b.lookup : i # o.id => c.lookup[i] = b.lookup[i]
  BY <1>1 DEF Put
<1>5. Covered(c)
  BY <1>1, <1>2, <1>3, <1>4 DEF Covered, Grown
<1> QED
  BY <1>5 DEF c

LEMMA CancelCovers ==
  ASSUME NEW b, NEW n, BookOK(b, n), NEW id, Covered(b)
  PROVE  Covered(CancelIn(b, id))
<1>1. CASE id \notin DOMAIN b.lookup
  BY <1>1 DEF CancelIn
<1>2. CASE id \in DOMAIN b.lookup
  <2> DEFINE c == CancelIn(b, id)
  <2>1. c.heap = Erase(b.heap, b.lookup[id]) /\ c.lookup = Erase(b.lookup, id)
    BY <1>2, Zenon DEF CancelIn, Delete
  <2> HIDE DEF c
  <2>2. Covered(c)
    BY <1>2, <2>1 DEF Covered, Erase, Restrict
  <2> QED
    BY <2>2 DEF c
<1> QED
  BY <1>1, <1>2

LEMMA ResizeCovers ==
  ASSUME NEW b, NEW n, BookOK(b, n), NEW id \in DOMAIN b.lookup, NEW q, Covered(b)
  PROVE  Covered(ResizeIn(b, id, q))
<1> DEFINE c == ResizeIn(b, id, q)
<1>1. Kept(b, c) /\ DOMAIN c.heap = DOMAIN b.heap
  BY ResizeKeeps
<1>2. c.lookup = b.lookup
  BY DEF ResizeIn, BookOK
<1> HIDE DEF c
<1>3. Covered(c)
  BY <1>1, <1>2 DEF Covered, Kept, Same
<1> QED
  BY <1>3 DEF c

LEMMA TradeCovers ==
  ASSUME NEW b, NEW n \in Nat \ {0}, BookOK(b, n), Crossed(b), Covered(b)
  PROVE  Covered(TradeIn(b))
<1> DEFINE c == TradeIn(b)
<1>1. Kept(b, c) /\ DOMAIN c.heap = DOMAIN b.heap \ Filled(b)
  BY TradeKeeps
<1>2. c.lookup = Restrict(b.lookup, DOMAIN b.lookup \ FilledIds(b))
  BY DEF TradeIn
<1>3. Filled(b) \subseteq DOMAIN b.heap
  BY TradingPair DEF Filled, BookOK, PlacedOK
<1> HIDE DEF c
<1>4. ASSUME NEW p \in DOMAIN c.heap
      PROVE  c.heap[p].id \in DOMAIN c.lookup /\ c.lookup[c.heap[p].id] = p
  <2>1. c.heap[p].id = b.heap[p].id /\ p \in DOMAIN b.heap /\ p \notin Filled(b)
    BY <1>1 DEF Kept, Same
  <2>2. b.heap[p].id \in DOMAIN b.lookup /\ b.lookup[b.heap[p].id] = p
    BY <2>1 DEF Covered
  <2>3. \A f \in Filled(b) : b.heap[f].id # b.heap[p].id
    BY <1>3, <2>1, <2>2 DEF Covered
  <2>4. b.heap[p].id \notin FilledIds(b)
    BY <2>3 DEF FilledIds
  <2> QED
    BY <1>2, <2>1, <2>2, <2>4 DEF Restrict
<1> QED
  BY <1>4 DEF Covered, c

LEMMA StepCovers ==
  ASSUME ~PriceAmends, IInv, Covered(book), NoLeak, [Next]_vars
  PROVE  Covered(book') /\ NoLeak'
<1>1. BookOK(book, next) /\ next \in Nat \ {0} /\ clock \in Nat
  BY MaxOrdersAssumption DEF IInv
<1>2. ASSUME NEW id \in Ids, NEW s \in Side, NEW x \in Prices, NEW q \in Quantities,
             Add(id, s, x, q)
      PROVE  Covered(book') /\ pc' # "destroyed"
  <2>1. CASE id \in DOMAIN book.lookup
    BY <1>2, <2>1 DEF Add, vars
  <2>2. CASE id \notin DOMAIN book.lookup
    <3>1. /\ pc' = "matching" /\ \E t \in Ticks : clock' = clock + t
          /\ book' = AddIn(book, next, [id |-> id, side |-> s, price |-> x,
                                        quantity |-> q, timestamp |-> clock'])
      BY <1>2, <2>2 DEF Add
    <3>2. clock' \in Nat /\ q \in 0 .. Wrap - 1
      BY <1>1, <3>1, TicksAssumption, QuantitiesAssumption
    <3>3. [id |-> id, side |-> s, price |-> x, quantity |-> q, timestamp |-> clock'] \in Order
      BY <3>2 DEF Order
    <3> QED
      BY <1>1, <2>2, <3>1, <3>3, AddCovers
  <2> QED
    BY <2>1, <2>2
<1>3. ASSUME NEW id \in Ids, Cancel(id)
      PROVE  Covered(book') /\ pc' # "destroyed"
  BY <1>1, <1>3, CancelCovers DEF Cancel
<1>4. ASSUME NEW id \in Ids, NEW x \in Prices, NEW q \in Quantities, Amend(id, x, q)
      PROVE  Covered(book') /\ pc' # "destroyed"
  BY <1>1, <1>4, ResizeCovers DEF Amend, AmendPrice, AmendQuantity, vars
<1>5. ASSUME MatchOrders
      PROVE  Covered(book') /\ pc' # "destroyed"
  BY <1>1, <1>5, TradeCovers DEF MatchOrders
<1>6. ASSUME Destroy
      PROVE  DOMAIN book'.heap = {}
  <2>1. book'.heap = Restrict(book.heap, DOMAIN book.heap \ Range(book.lookup))
    BY <1>6 DEF Destroy, EmptyBook
  <2>2. DOMAIN book.heap \subseteq Range(book.lookup)
    BY DEF Covered, Range
  <2> QED
    BY <2>1, <2>2 DEF Restrict
<1>7. CASE UNCHANGED vars
  BY <1>7 DEF vars, NoLeak
<1> QED
  BY <1>2, <1>3, <1>4, <1>5, <1>6, <1>7 DEF Next, NoLeak, Covered

LEMMA AllCovered == ~PriceAmends => (Spec => [](Covered(book) /\ NoLeak))
<1> SUFFICES ASSUME ~PriceAmends PROVE Spec => [](Covered(book) /\ NoLeak)
  OBVIOUS
<1>1. Init => Covered(book) /\ NoLeak
  BY DEF Init, EmptyBook, Covered, NoLeak
<1>2. IInv /\ Covered(book) /\ NoLeak /\ [Next]_vars => (Covered(book) /\ NoLeak)'
  BY StepCovers
<1> QED
  BY <1>1, <1>2, Invariance, PTL DEF Spec

\* A client can cancel or amend whatever of his rests, and no two resting
\* orders share an id, provided amend_order is never given another price.
THEOREM LookupComplete == ~PriceAmends => (Spec => []LookupCoversBook)
<1> SUFFICES ASSUME ~PriceAmends PROVE Spec => []LookupCoversBook
  OBVIOUS
<1>1. IInv /\ Covered(book) => LookupCoversBook
  BY DEF IInv, BookOK, PlacedOK, Covered, LookupCoversBook, Resting, OnSide
<1> QED
  BY <1>1, Invariance, AllCovered, PTL

\* ~OrderBook frees every Order, under the same condition: those that trade or
\* are cancelled were deleted then, and the lookup names all the others.
THEOREM DestructorComplete == ~PriceAmends => (Spec => []NoLeak)
<1> SUFFICES ASSUME ~PriceAmends PROVE Spec => []NoLeak
  OBVIOUS
<1> QED
  BY AllCovered, PTL

-----------------------------------------------------------------------------
(* Sums of quantities.  Exchange publishes, for a side and a price, the sum *)
(* over a set of ids, folded in the order in which CHOOSE takes them.       *)

\* The sum of the quantities of the orders S of os, as Published computes it.
Total(os, S) == Exch!MapThenSumSet(LAMBDA id : os[id].quantity, S)

Taken(s) == CHOOSE x \in s : TRUE

\* sum has a value for every set of D, computed as the fold computes it.
Folds(os, D, sum) ==
  sum = [s \in D |-> IF s = {} THEN 0 ELSE os[Taken(s)].quantity + sum[s \ {Taken(s)}]]

\* The library's fold is this function, at the whole set.
LEMMA TotalFold ==
  ASSUME NEW os, NEW S
  PROVE  Total(os, S) = (CHOOSE sum : Folds(os, SUBSET S, sum))[S]
BY Zenon DEF Total, Exch!MapThenSumSet, Exch!MapThenFoldSet, Folds, Taken

\* CHOOSE finds such a function: there is one for the sets of at most n ids,
\* for every n.
LEMMA FoldExists ==
  ASSUME NEW os, NEW S, IsFiniteSet(S)
  PROVE  \E sum : Folds(os, SUBSET S, sum)
<1> DEFINE Small(n) == {t \in SUBSET S : Cardinality(t) <= n}
           Bounds   == {n \in Nat : \E sum : Folds(os, Small(n), sum)}
<1>1. \A t \in SUBSET S : /\ IsFiniteSet(t) /\ Cardinality(t) \in Nat
                          /\ Cardinality(t) <= Cardinality(S)
                          /\ Cardinality(t) = 0 <=> t = {}
  BY FS_Subset, FS_CardinalityType, FS_EmptySet
<1>2. 0 \in Bounds
  <2> DEFINE zero == [s \in Small(0) |-> 0]
  <2>1. \A s \in Small(0) : s = {}
    BY <1>1
  <2>2. Folds(os, Small(0), zero)
    BY <2>1 DEF Folds
  <2> QED
    BY <2>2
<1>3. ASSUME NEW n \in Nat, n \in Bounds
      PROVE  n + 1 \in Bounds
  <2>1. PICK f : Folds(os, Small(n), f)
    BY <1>3
  <2> DEFINE g == [s \in Small(n + 1) |->
                     IF s = {} THEN 0 ELSE os[Taken(s)].quantity + f[s \ {Taken(s)}]]
  <2>2. Small(n) \subseteq Small(n + 1)
    BY <1>1
  <2>3. ASSUME NEW s \in Small(n)
        PROVE  g[s] = f[s]
    <3>1. f[s] = IF s = {} THEN 0 ELSE os[Taken(s)].quantity + f[s \ {Taken(s)}]
      BY <2>1, Zenon DEF Folds
    <3> QED
      BY <2>2, <3>1
  <2>4. ASSUME NEW s \in Small(n + 1), s # {}
        PROVE  s \ {Taken(s)} \in Small(n)
    <3>1. Taken(s) \in s
      BY <2>4 DEF Taken
    <3>2. Cardinality(s \ {Taken(s)}) = Cardinality(s) - 1
      BY <1>1, <3>1, FS_RemoveElement
    <3> QED
      BY <1>1, <3>2
  <2>5. g = [s \in Small(n + 1) |->
               IF s = {} THEN 0 ELSE os[Taken(s)].quantity + g[s \ {Taken(s)}]]
    <3> HIDE DEF Small
    <3>1. ASSUME NEW s \in Small(n + 1)
          PROVE  g[s] = IF s = {} THEN 0 ELSE os[Taken(s)].quantity + g[s \ {Taken(s)}]
      BY <2>3, <2>4
    <3> QED
      BY <3>1
  <2>6. Folds(os, Small(n + 1), g)
    BY <2>5, Zenon DEF Folds
  <2>7. n + 1 \in Nat
    OBVIOUS
  <2> HIDE DEF Small, g
  <2> QED
    BY <2>6, <2>7
<1>4. Nat \subseteq Bounds
  <2> HIDE DEF Bounds
  <2> QED
    BY <1>2, <1>3, SetInduction
<1>5. Small(Cardinality(S)) = SUBSET S
  BY <1>1
<1> QED
  BY <1>1, <1>4, <1>5

\* Two such functions agree wherever both have a value.
LEMMA FoldUnique ==
  ASSUME NEW os, NEW S, IsFiniteSet(S), NEW f, NEW g,
         Folds(os, SUBSET S, f), NEW T, IsFiniteSet(T), Folds(os, SUBSET T, g),
         NEW U, U \subseteq S, U \subseteq T
  PROVE  f[U] = g[U]
<1> DEFINE Equal == {n \in Nat : \A s \in SUBSET (S \cap T) : Cardinality(s) = n => f[s] = g[s]}
<1>1. \A t \in SUBSET (S \cap T) : /\ IsFiniteSet(t) /\ Cardinality(t) \in Nat
                                   /\ Cardinality(t) = 0 <=> t = {}
  BY FS_Subset, FS_CardinalityType, FS_EmptySet
<1>2. ASSUME NEW s \in SUBSET (S \cap T)
      PROVE  /\ f[s] = IF s = {} THEN 0 ELSE os[Taken(s)].quantity + f[s \ {Taken(s)}]
             /\ g[s] = IF s = {} THEN 0 ELSE os[Taken(s)].quantity + g[s \ {Taken(s)}]
  <2>1. s \in SUBSET S /\ s \in SUBSET T
    OBVIOUS
  <2> QED
    BY <2>1, Zenon DEF Folds
<1>3. 0 \in Equal
  BY <1>1, <1>2
<1>4. ASSUME NEW n \in Nat, n \in Equal
      PROVE  n + 1 \in Equal
  <2> SUFFICES ASSUME NEW s \in SUBSET (S \cap T), Cardinality(s) = n + 1
               PROVE  f[s] = g[s]
    OBVIOUS
  <2>1. s # {} /\ Taken(s) \in s
    BY <1>1 DEF Taken
  <2>2. Cardinality(s \ {Taken(s)}) = n
    <3>1. IsFiniteSet(s)
      BY <1>1
    <3>2. Cardinality(s \ {Taken(s)}) = Cardinality(s) - 1
      BY <2>1, <3>1, FS_RemoveElement
    <3>3. Cardinality(s) = n + 1
      OBVIOUS
    <3> HIDE DEF Equal
    <3> QED
      BY <3>2, <3>3
  <2>3. f[s \ {Taken(s)}] = g[s \ {Taken(s)}]
    BY <1>4, <2>2
  <2> QED
    BY <1>2, <2>1, <2>3
<1>5. Nat \subseteq Equal
  <2> HIDE DEF Equal
  <2> QED
    BY <1>3, <1>4, SetInduction
<1> QED
  BY <1>1, <1>5

\* The sum takes out one order, the one CHOOSE takes.
LEMMA TotalTaken ==
  ASSUME NEW os, NEW S, IsFiniteSet(S)
  PROVE  /\ Total(os, {}) = 0
         /\ S # {} => Total(os, S) = os[Taken(S)].quantity + Total(os, S \ {Taken(S)})
<1> DEFINE Sum(U) == CHOOSE sum : Folds(os, SUBSET U, sum)
           R      == S \ {Taken(S)}
<1>1. \A U : IsFiniteSet(U) => Folds(os, SUBSET U, Sum(U))
  BY FoldExists, Zenon
<1>2. IsFiniteSet({}) /\ IsFiniteSet(R)
  BY FS_EmptySet, FS_RemoveElement
<1>3. \A U : Total(os, U) = Sum(U)[U]
  BY TotalFold
<1> HIDE DEF Sum
<1>4. Sum({})[{}] = 0
  BY <1>1, <1>2 DEF Folds
<1>5. S # {} => Sum(S)[S] = os[Taken(S)].quantity + Sum(S)[R]
  <2>1. Folds(os, SUBSET S, Sum(S)) /\ S \in SUBSET S
    BY <1>1
  <2> QED
    BY <2>1, Zenon DEF Folds
<1>6. Sum(S)[R] = Sum(R)[R]
  <2>1. Folds(os, SUBSET S, Sum(S)) /\ Folds(os, SUBSET R, Sum(R)) /\ R \subseteq S
    BY <1>1, <1>2
  <2> HIDE DEF R
  <2> QED
    BY <1>2, <2>1, FoldUnique
<1> QED
  BY <1>3, <1>4, <1>5, <1>6

Numbered(os, S) == IsFiniteSet(S) /\ \A id \in S : os[id].quantity \in Nat

\* The sum is a number.
LEMMA TotalNat ==
  ASSUME NEW os, NEW S, Numbered(os, S)
  PROVE  Total(os, S) \in Nat
<1> DEFINE Sizes == {n \in Nat : \A T \in SUBSET S : Cardinality(T) = n => Total(os, T) \in Nat}
<1>1. \A T \in SUBSET S : /\ IsFiniteSet(T) /\ Cardinality(T) \in Nat
                          /\ Cardinality(T) = 0 <=> T = {}
  BY FS_Subset, FS_CardinalityType, FS_EmptySet DEF Numbered
<1>2. 0 \in Sizes
  BY <1>1, TotalTaken
<1>3. ASSUME NEW n \in Nat, n \in Sizes
      PROVE  n + 1 \in Sizes
  <2> SUFFICES ASSUME NEW T \in SUBSET S, Cardinality(T) = n + 1
               PROVE  Total(os, T) \in Nat
    OBVIOUS
  <2>1. T # {} /\ Taken(T) \in T /\ IsFiniteSet(T)
    BY <1>1 DEF Taken
  <2>2. Cardinality(T \ {Taken(T)}) = n
    BY <2>1, FS_RemoveElement
  <2>3. Total(os, T \ {Taken(T)}) \in Nat /\ os[Taken(T)].quantity \in Nat
    BY <1>3, <2>1, <2>2 DEF Numbered
  <2>4. Total(os, T) = os[Taken(T)].quantity + Total(os, T \ {Taken(T)})
    BY <2>1, TotalTaken
  <2> QED
    BY <2>3, <2>4
<1>4. Nat \subseteq Sizes
  <2> HIDE DEF Sizes
  <2> QED
    BY <1>2, <1>3, SetInduction
<1> QED
  BY <1>1, <1>4

\* The sum takes out any order that one likes.
LEMMA TotalMinus ==
  ASSUME NEW os, NEW S, Numbered(os, S), NEW r \in S
  PROVE  Total(os, S) = os[r].quantity + Total(os, S \ {r})
<1> DEFINE Good(T) == \A id \in T : Total(os, T) = os[id].quantity + Total(os, T \ {id})
           Sizes   == {n \in Nat : \A T \in SUBSET S : Cardinality(T) = n => Good(T)}
<1>1. \A T \in SUBSET S : /\ IsFiniteSet(T) /\ Cardinality(T) \in Nat
                          /\ Cardinality(T) = 0 <=> T = {}
                          /\ Total(os, T) \in Nat
  <2>1. \A T \in SUBSET S : Numbered(os, T)
    BY FS_Subset DEF Numbered
  <2> QED
    BY <2>1, TotalNat, FS_CardinalityType, FS_EmptySet DEF Numbered
<1>2. 0 \in Sizes
  BY <1>1
<1>3. ASSUME NEW n \in Nat, n \in Sizes
      PROVE  n + 1 \in Sizes
  <2> SUFFICES ASSUME NEW T \in SUBSET S, Cardinality(T) = n + 1, NEW id \in T
               PROVE  Total(os, T) = os[id].quantity + Total(os, T \ {id})
    OBVIOUS
  <2> DEFINE y == Taken(T)
  <2>1. T # {} /\ y \in T /\ IsFiniteSet(T)
    BY <1>1 DEF Taken
  <2>2. \A i \in T : Cardinality(T \ {i}) = n
    BY <2>1, FS_RemoveElement
  <2>3. \A i \in T : Good(T \ {i}) /\ os[i].quantity \in Nat
    BY <1>3, <2>2 DEF Numbered
  <2>4. Total(os, T) = os[y].quantity + Total(os, T \ {y})
    BY <2>1, TotalTaken
  <2> HIDE DEF y
  <2>5. CASE id = y
    BY <2>4, <2>5
  <2>6. CASE id # y
    <3> DEFINE U == (T \ {y}) \ {id}
    <3>1. Total(os, T \ {y}) = os[id].quantity + Total(os, U)
      BY <2>1, <2>3, <2>6
    <3>2. Total(os, T \ {id}) = os[y].quantity + Total(os, (T \ {id}) \ {y})
      BY <2>1, <2>3, <2>6
    <3>3. (T \ {id}) \ {y} = U
      OBVIOUS
    <3>4. Total(os, U) \in Nat
      BY <1>1
    <3>5. os[id].quantity \in Nat /\ os[y].quantity \in Nat
      BY <2>1, <2>3
    <3> HIDE DEF U
    <3>6. Total(os, T \ {id}) = os[y].quantity + Total(os, U)
      BY <3>2, <3>3, Zenon
    <3> QED
      BY <2>4, <3>1, <3>4, <3>5, <3>6
  <2> QED
    BY <2>5, <2>6
<1>4. Nat \subseteq Sizes
  <2> HIDE DEF Sizes
  <2> QED
    BY <1>2, <1>3, SetInduction
<1>5. Good(S)
  BY <1>1, <1>4
<1> QED
  BY <1>5

\* Only the quantities of the orders in the sum count.
LEMMA TotalSame ==
  ASSUME NEW os, NEW other, NEW S, Numbered(os, S),
         \A id \in S : other[id].quantity = os[id].quantity
  PROVE  Total(other, S) = Total(os, S)
<1> DEFINE Sizes == {n \in Nat : \A T \in SUBSET S : Cardinality(T) = n => Total(other, T) = Total(os, T)}
<1>1. \A T \in SUBSET S : /\ IsFiniteSet(T) /\ Cardinality(T) \in Nat
                          /\ Cardinality(T) = 0 <=> T = {}
  BY FS_Subset, FS_CardinalityType, FS_EmptySet DEF Numbered
<1>2. 0 \in Sizes
  BY <1>1, TotalTaken
<1>3. ASSUME NEW n \in Nat, n \in Sizes
      PROVE  n + 1 \in Sizes
  <2>1. ASSUME NEW T \in SUBSET S, Cardinality(T) = n + 1
        PROVE  Total(other, T) = Total(os, T)
    <3>1. T # {} /\ Taken(T) \in T /\ IsFiniteSet(T)
      BY <1>1, <2>1 DEF Taken
    <3>2. Cardinality(T \ {Taken(T)}) = n
      <4>1. Cardinality(T \ {Taken(T)}) = Cardinality(T) - 1
        BY <3>1, FS_RemoveElement
      <4> HIDE DEF Sizes
      <4> QED
        BY <2>1, <4>1
    <3>3. Total(other, T \ {Taken(T)}) = Total(os, T \ {Taken(T)})
      BY <1>3, <3>1, <3>2
    <3>4. /\ Total(os, T) = os[Taken(T)].quantity + Total(os, T \ {Taken(T)})
          /\ Total(other, T) = other[Taken(T)].quantity + Total(other, T \ {Taken(T)})
      BY <3>1, TotalTaken
    <3>5. other[Taken(T)].quantity = os[Taken(T)].quantity
      BY <3>1
    <3> QED
      BY <3>3, <3>4, <3>5, Zenon
  <2>2. n + 1 \in Nat
    OBVIOUS
  <2> QED
    BY <2>1, <2>2, Zenon
<1>4. Nat \subseteq Sizes
  <2> HIDE DEF Sizes
  <2> QED
    BY <1>2, <1>3, SetInduction
<1> QED
  BY <1>1, <1>4

\* When one order of a sum changes, comes or goes, the remainder of the sum
\* changes by as much, as the running total of a Limit does.
LEMMA TotalMoves ==
  ASSUME NEW os, NEW oc, NEW A, NEW C, Numbered(os, A), Numbered(oc, C),
         NEW i, A \ {i} = C \ {i},
         \A j \in A \ {i} : oc[j].quantity = os[j].quantity
  PROVE  ((Total(os, A) % Wrap) + ((IF i \in C THEN oc[i].quantity ELSE 0)
                                   - (IF i \in A THEN os[i].quantity ELSE 0))) % Wrap
           = Total(oc, C) % Wrap
<1> DEFINE rest == A \ {i}
           old  == IF i \in A THEN os[i].quantity ELSE 0
           new  == IF i \in C THEN oc[i].quantity ELSE 0
           a    == Total(os, A)
           r    == Total(os, rest)
<1>1. Numbered(os, rest) /\ Numbered(oc, C \ {i})
  BY FS_Subset DEF Numbered
<1>2. r \in Nat /\ Total(oc, rest) = r
  BY <1>1, TotalNat, TotalSame
<1>3. old \in Nat /\ new \in Nat
  BY DEF Numbered
<1>4. a = old + r
  <2>1. CASE i \in A
    BY <2>1, TotalMinus
  <2>2. CASE i \notin A
    <3>1. A = rest
      BY <2>2
    <3>2. a = r
      BY <3>1, Zenon
    <3>3. old = 0
      BY <2>2
    <3> HIDE DEF a, r, old
    <3> QED
      BY <3>2, <3>3, <1>2
  <2> QED
    BY <2>1, <2>2
<1>5. Total(oc, C) = new + r
  <2>1. CASE i \in C
    <3>1. Total(oc, C) = oc[i].quantity + Total(oc, C \ {i})
      BY <2>1, TotalMinus
    <3> QED
      BY <2>1, <3>1, <1>2
  <2>2. CASE i \notin C
    <3>1. C = rest
      BY <2>2
    <3> QED
      BY <2>2, <3>1, <1>2
  <2> QED
    BY <2>1, <2>2
<1> HIDE DEF rest, old, new, a, r
<1>6. ((a % Wrap) + (new - old)) % Wrap = (a + (new - old)) % Wrap
  <2>1. a \in Int /\ new - old \in Int
    BY <1>2, <1>3, <1>4
  <2> QED
    BY <2>1, ModAdd, WrapAssumption
<1>7. a + (new - old) = new + r
  BY <1>2, <1>3, <1>4
<1> QED
  BY <1>5, <1>6, <1>7 DEF a, new, old

-----------------------------------------------------------------------------
(* What the clients of a book own.                                         *)

Clients(b) ==
  [id \in DOMAIN b.lookup |->
     LET o == b.heap[b.lookup[id]]
     IN  [side |-> o.side, price |-> o.price, quantity |-> o.quantity,
          age |-> b.lookup[id]]]

\* A list holds the orders of its side and price, each under one id.
Mirrors(os, b, n) ==
  /\ IsFiniteSet(DOMAIN os)
  /\ \A id \in DOMAIN os :
       /\ os[id] = [side |-> os[id].side, price |-> os[id].price,
                    quantity |-> os[id].quantity, age |-> os[id].age]
       /\ os[id].side \in Side
       /\ os[id].price \in DOMAIN b.levels[os[id].side]
       /\ os[id].quantity \in 0 .. Wrap - 1
       /\ os[id].age \in 1 .. n - 1
       /\ os[id].age \in b.levels[os[id].side][os[id].price].orders
  /\ \A s \in Side : \A x \in DOMAIN b.levels[s] : \A p \in b.levels[s][x].orders :
       \E id \in DOMAIN os : os[id].side = s /\ os[id].price = x /\ os[id].age = p
  /\ \A i, j \in DOMAIN os : os[i].age = os[j].age => i = j

\* When the lookup names every object, clients own what the lists hold.
LEMMA ClientsMirror ==
  ASSUME NEW b, NEW n \in Nat \ {0}, BookOK(b, n), Covered(b)
  PROVE  Mirrors(Clients(b), b, n)
<1> DEFINE os == Clients(b)
<1>1. ASSUME NEW id \in DOMAIN b.lookup
      PROVE  EntryOK(b, id) /\ b.lookup[id] \in 1 .. n - 1 /\ b.heap[b.lookup[id]] \in Order
  BY DEF BookOK, LookupOK, HeapOK, EntryOK
<1>2. /\ DOMAIN os = DOMAIN b.lookup
      /\ \A id \in DOMAIN os :
           /\ os[id] = [side |-> b.heap[b.lookup[id]].side, price |-> b.heap[b.lookup[id]].price,
                        quantity |-> b.heap[b.lookup[id]].quantity, age |-> b.lookup[id]]
           /\ os[id].side = b.heap[b.lookup[id]].side
           /\ os[id].price = b.heap[b.lookup[id]].price
           /\ os[id].quantity = b.heap[b.lookup[id]].quantity
           /\ os[id].age = b.lookup[id]
  BY DEF Clients
<1> HIDE DEF os
<1>3. \A i, j \in DOMAIN os : os[i].age = os[j].age => i = j
  <2> SUFFICES ASSUME NEW i \in DOMAIN os, NEW j \in DOMAIN os, os[i].age = os[j].age
               PROVE  i = j
    OBVIOUS
  <2>1. b.lookup[i] = b.lookup[j] /\ i \in DOMAIN b.lookup /\ j \in DOMAIN b.lookup
    BY <1>2
  <2>2. b.heap[b.lookup[i]].id = i /\ b.heap[b.lookup[j]].id = j
    BY <1>1, <2>1, Zenon DEF EntryOK
  <2> QED
    BY <2>1, <2>2, Zenon
<1>4. IsFiniteSet(DOMAIN os)
  <2> DEFINE f == [id \in DOMAIN os |-> os[id].age]
  <2>1. f \in Injection(DOMAIN os, 1 .. n - 1)
    <3>1. f \in [DOMAIN os -> 1 .. n - 1]
      BY <1>1, <1>2
    <3>2. \A i, j \in DOMAIN os : f[i] = f[j] => i = j
      BY <1>3
    <3> HIDE DEF f
    <3> QED
      BY <3>1, <3>2 DEF Injection, IsInjective
  <2>2. IsFiniteSet(1 .. n - 1)
    BY FS_Interval
  <2> QED
    BY <2>1, <2>2, FS_Injection
<1>5. ASSUME NEW id \in DOMAIN os
      PROVE  /\ os[id] = [side |-> os[id].side, price |-> os[id].price,
                          quantity |-> os[id].quantity, age |-> os[id].age]
             /\ os[id].side \in Side
             /\ os[id].price \in DOMAIN b.levels[os[id].side]
             /\ os[id].quantity \in 0 .. Wrap - 1
             /\ os[id].age \in 1 .. n - 1
             /\ os[id].age \in b.levels[os[id].side][os[id].price].orders
  <2>1. /\ os[id].side = b.heap[b.lookup[id]].side
        /\ os[id].price = b.heap[b.lookup[id]].price
        /\ os[id].quantity = b.heap[b.lookup[id]].quantity
        /\ os[id].age = b.lookup[id]
        /\ EntryOK(b, id) /\ b.lookup[id] \in 1 .. n - 1 /\ b.heap[b.lookup[id]] \in Order
    BY <1>1, <1>2
  <2>2. /\ os[id].side \in Side /\ os[id].quantity \in 0 .. Wrap - 1
        /\ os[id].age \in 1 .. n - 1
    BY <2>1 DEF Order
  <2>3. os[id].price \in DOMAIN b.levels[os[id].side]
        /\ os[id].age \in b.levels[os[id].side][os[id].price].orders
    BY <2>1, Zenon DEF EntryOK
  <2>4. os[id] = [side |-> os[id].side, price |-> os[id].price,
                  quantity |-> os[id].quantity, age |-> os[id].age]
    BY <1>2, Zenon
  <2> QED
    BY <2>2, <2>3, <2>4
<1>6. ASSUME NEW s \in Side, NEW x \in DOMAIN b.levels[s], NEW p \in b.levels[s][x].orders
      PROVE  \E id \in DOMAIN os : os[id].side = s /\ os[id].price = x /\ os[id].age = p
  <2>1. p \in DOMAIN b.heap /\ b.heap[p].side = s /\ b.heap[p].price = x
    BY DEF BookOK, PlacedOK
  <2>2. b.heap[p].id \in DOMAIN os /\ b.lookup[b.heap[p].id] = p
    BY <1>2, <2>1 DEF Covered
  <2> QED
    BY <1>2, <2>1, <2>2
<1>7. Mirrors(os, b, n)
  BY <1>3, <1>4, <1>5, <1>6 DEF Mirrors
<1> QED
  BY <1>7 DEF os

\* The running total of every Limit is the sum of its clients' quantities.
Tallied(os, b) ==
  \A s \in Side : \A x \in DOMAIN b.levels[s] :
    b.levels[s][x].total = Total(os, Exch!At(os, s, x)) % Wrap

\* The ids at a price, and that their quantities can be summed.
LEMMA AtNumbered ==
  ASSUME NEW os, NEW b, NEW n, Mirrors(os, b, n), NEW s, NEW x
  PROVE  /\ Numbered(os, Exch!At(os, s, x))
         /\ Exch!At(os, s, x) = {id \in DOMAIN os : os[id].side = s /\ os[id].price = x}
<1>1. Exch!At(os, s, x) = {id \in DOMAIN os : os[id].side = s /\ os[id].price = x}
  BY DEF Exch!At
<1>2. Exch!At(os, s, x) \in SUBSET DOMAIN os
  BY <1>1
<1>3. \A id \in DOMAIN os : os[id].quantity \in Nat
  BY WrapAssumption DEF Mirrors
<1> QED
  BY <1>1, <1>2, <1>3, FS_Subset DEF Numbered, Mirrors

\* A side's map has the prices at which orders are open there.
LEMMA PricesOpen ==
  ASSUME NEW os, NEW b, NEW n, Mirrors(os, b, n), LevelsOK(b), NEW s \in Side
  PROVE  {os[id].price : id \in {i \in DOMAIN os : os[i].side = s}} = DOMAIN b.levels[s]
<1>1. ASSUME NEW x \in DOMAIN b.levels[s]
      PROVE  \E id \in DOMAIN os : os[id].side = s /\ os[id].price = x
  <2>1. PICK p : p \in b.levels[s][x].orders
    BY DEF LevelsOK
  <2> QED
    BY <2>1 DEF Mirrors
<1>2. \A id \in DOMAIN os : os[id].side = s => os[id].price \in DOMAIN b.levels[s]
  BY DEF Mirrors
<1> QED
  BY <1>1, <1>2

\* The depth of such a book is the one an exchange publishes.
LEMMA DepthPublished ==
  ASSUME NEW os, NEW b, NEW n, Mirrors(os, b, n), Tallied(os, b), LevelsOK(b)
  PROVE  [s \in Side |-> [x \in DOMAIN b.levels[s] |-> b.levels[s][x].total]]
           = Exch!Published(os)
<1>1. ASSUME NEW s \in Side
      PROVE  DOMAIN b.levels[s] = {os[id].price : id \in {i \in DOMAIN os : os[i].side = s}}
  BY PricesOpen
<1>2. ASSUME NEW s \in Side
      PROVE  [x \in DOMAIN b.levels[s] |-> b.levels[s][x].total]
               = [x \in {os[id].price : id \in {i \in DOMAIN os : os[i].side = s}} |->
                    Total(os, Exch!At(os, s, x)) % Wrap]
  BY <1>1 DEF Tallied
<1>3. Exch!Published(os) =
        [s \in Exch!Side |-> [x \in {os[id].price : id \in {i \in DOMAIN os : os[i].side = s}} |->
                               Total(os, Exch!At(os, s, x)) % Wrap]]
  BY Zenon DEF Exch!Published, Total
<1>4. Exch!Side = Side
  BY DEF Exch!Side
<1> QED
  BY <1>2, <1>3, <1>4

\* What order i adds to the sum over A.
Share(os, A, i) == IF i \in A THEN os[i].quantity ELSE 0

TotalBefore(b, s, x) == IF x \in DOMAIN b.levels[s] THEN b.levels[s][x].total ELSE 0

\* Between two books one order w[s] of each side changes, comes or goes.
OneMoves(os, oc, b, c, w) ==
  \A s \in Side : \A x \in DOMAIN c.levels[s] :
    LET A == Exch!At(os, s, x)
        C == Exch!At(oc, s, x)
    IN  /\ A \ {w[s]} = C \ {w[s]}
        /\ \A j \in A \ {w[s]} : oc[j].quantity = os[j].quantity
        /\ c.levels[s][x].total =
             (TotalBefore(b, s, x) + (Share(oc, C, w[s]) - Share(os, A, w[s]))) % Wrap

\* Totals stay right when each changes by what its one order changes.
LEMMA StillTallied ==
  ASSUME NEW os, NEW oc, NEW b, NEW c, NEW n, NEW m, NEW w,
         Mirrors(os, b, n), Mirrors(oc, c, m), Tallied(os, b),
         OneMoves(os, oc, b, c, w)
  PROVE  Tallied(oc, c)
<1> SUFFICES ASSUME NEW s \in Side, NEW x \in DOMAIN c.levels[s]
             PROVE  c.levels[s][x].total = Total(oc, Exch!At(oc, s, x)) % Wrap
  BY DEF Tallied
<1> DEFINE A == Exch!At(os, s, x)
           C == Exch!At(oc, s, x)
<1>1. Numbered(os, A) /\ Numbered(oc, C)
  BY AtNumbered
<1>2. /\ A \ {w[s]} = C \ {w[s]}
      /\ \A j \in A \ {w[s]} : oc[j].quantity = os[j].quantity
      /\ c.levels[s][x].total =
           (TotalBefore(b, s, x) + (Share(oc, C, w[s]) - Share(os, A, w[s]))) % Wrap
  BY DEF OneMoves
<1>3. TotalBefore(b, s, x) = Total(os, A) % Wrap
  <2>1. CASE x \in DOMAIN b.levels[s]
    BY <2>1 DEF TotalBefore, Tallied
  <2>2. CASE x \notin DOMAIN b.levels[s]
    <3>1. A = {}
      BY <2>2, AtNumbered DEF Mirrors
    <3>2. Total(os, A) = 0
      BY <3>1, TotalTaken, FS_EmptySet
    <3>3. 0 % Wrap = 0
      BY WrapAssumption
    <3> QED
      BY <2>2, <3>2, <3>3 DEF TotalBefore
  <2> QED
    BY <2>1, <2>2
<1> HIDE DEF A, C
<1>4. ((Total(os, A) % Wrap) + (Share(oc, C, w[s]) - Share(os, A, w[s]))) % Wrap
        = Total(oc, C) % Wrap
  <2> DEFINE i == w[s]
  <2> HIDE DEF i
  <2>1. A \ {i} = C \ {i} /\ \A j \in A \ {i} : oc[j].quantity = os[j].quantity
    BY <1>2 DEF i
  <2>2. ((Total(os, A) % Wrap) + ((IF i \in C THEN oc[i].quantity ELSE 0)
                                  - (IF i \in A THEN os[i].quantity ELSE 0))) % Wrap
          = Total(oc, C) % Wrap
    BY <1>1, <2>1, TotalMoves
  <2> QED
    BY <2>2, Zenon DEF Share, i
<1> QED
  BY <1>2, <1>3, <1>4, Zenon DEF C

-----------------------------------------------------------------------------
(* Each operation does to the clients' orders what the exchange does.      *)

\* add_order submits an order, behind all others.
LEMMA AddMirrored ==
  ASSUME NEW b, NEW n \in Nat \ {0}, BookOK(b, n), Covered(b),
         NEW o \in Order, o.id \notin DOMAIN b.lookup, Tallied(Clients(b), b)
  PROVE  /\ Clients(AddIn(b, n, o)) =
              [i \in DOMAIN Clients(b) \cup {o.id} |->
                 IF i = o.id THEN [side |-> o.side, price |-> o.price,
                                   quantity |-> o.quantity, age |-> n]
                 ELSE Clients(b)[i]]
         /\ Tallied(Clients(AddIn(b, n, o)), AddIn(b, n, o))
<1> DEFINE os    == Clients(b)
           c     == AddIn(b, n, o)
           oc    == Clients(c)
           limit == LimitAt(b, o.side, o.price)
           added == [orders |-> limit.orders \cup {n},
                     total  |-> (limit.total + o.quantity) % Wrap]
           w     == [s \in Side |-> o.id]
<1>1. /\ c.heap   = Put(b.heap, n, o)
      /\ c.lookup = Put(b.lookup, o.id, n)
      /\ c.levels = [b.levels EXCEPT ![o.side] = Put(@, o.price, added)]
  BY DEF AddIn
<1>2. Mirrors(os, b, n) /\ Mirrors(oc, c, n + 1)
  BY ClientsMirror, AddInOK, AddCovers
<1>3. DOMAIN os = DOMAIN b.lookup /\ DOMAIN oc = DOMAIN c.lookup
  BY DEF Clients
<1>4. /\ DOMAIN c.lookup = DOMAIN b.lookup \cup {o.id} /\ c.lookup[o.id] = n
      /\ \A i \in DOMAIN b.lookup : c.lookup[i] = b.lookup[i]
  BY <1>1 DEF Put
<1>5. /\ n \notin DOMAIN b.heap /\ c.heap[n] = o
      /\ \A p \in DOMAIN b.heap : c.heap[p] = b.heap[p]
  BY <1>1 DEF Put, BookOK, HeapOK
<1>6. \A i \in DOMAIN b.lookup : oc[i] = os[i]
  <2>1. \A i \in DOMAIN b.lookup : b.lookup[i] \in DOMAIN b.heap
    BY DEF BookOK, LookupOK, EntryOK
  <2> HIDE DEF c
  <2> QED
    BY <2>1, <1>4, <1>5 DEF Clients
<1>7. oc[o.id] = [side |-> o.side, price |-> o.price, quantity |-> o.quantity, age |-> n]
  <2> HIDE DEF c
  <2> QED
    BY <1>4, <1>5 DEF Clients
<1>8. o.side \in Side /\ o.quantity \in 0 .. Wrap - 1 /\ DOMAIN b.levels = Side
  BY DEF Order, BookOK, LevelsOK
<1>9. \A s \in Side : \A x \in DOMAIN c.levels[s] :
        IF s = o.side /\ x = o.price
        THEN c.levels[s][x].total = (TotalBefore(b, s, x) + o.quantity) % Wrap
        ELSE x \in DOMAIN b.levels[s] /\ c.levels[s][x] = b.levels[s][x]
  <2>1. added.total = (TotalBefore(b, o.side, o.price) + o.quantity) % Wrap
    BY DEF LimitAt, TotalBefore
  <2> HIDE DEF added, c
  <2> QED
    BY <1>1, <1>8, <2>1 DEF Put
<1>10. \A s \in Side : \A x \in DOMAIN b.levels[s] : b.levels[s][x].total \in 0 .. Wrap - 1
  BY DEF BookOK, LevelsOK, Limit
<1> HIDE DEF os, c, oc, limit, added
<1>11. OneMoves(os, oc, b, c, w)
  <2> SUFFICES ASSUME NEW s \in Side, NEW x \in DOMAIN c.levels[s]
               PROVE  LET A == Exch!At(os, s, x)
                          C == Exch!At(oc, s, x)
                      IN  /\ A \ {w[s]} = C \ {w[s]}
                          /\ \A j \in A \ {w[s]} : oc[j].quantity = os[j].quantity
                          /\ c.levels[s][x].total =
                               (TotalBefore(b, s, x) + (Share(oc, C, w[s]) - Share(os, A, w[s]))) % Wrap
    BY DEF OneMoves
  <2> DEFINE A == Exch!At(os, s, x)
             C == Exch!At(oc, s, x)
  <2>1. /\ A = {id \in DOMAIN os : os[id].side = s /\ os[id].price = x}
        /\ C = {id \in DOMAIN oc : oc[id].side = s /\ oc[id].price = x}
    BY <1>2, AtNumbered
  <2>2. w[s] = o.id /\ o.id \notin A
    BY <2>1, <1>3
  <2> HIDE DEF A, C, w
  <2>3. A \ {w[s]} = C \ {w[s]} /\ \A j \in A \ {w[s]} : oc[j].quantity = os[j].quantity
    BY <2>1, <2>2, <1>3, <1>4, <1>6
  <2>4. Share(os, A, w[s]) = 0
    BY <2>2 DEF Share
  <2>5. CASE s = o.side /\ x = o.price
    <3>1. o.id \in C /\ oc[o.id].quantity = o.quantity
      BY <2>1, <2>5, <1>3, <1>4, <1>7
    <3>2. Share(oc, C, w[s]) = o.quantity /\ o.quantity - 0 = o.quantity
      BY <2>2, <3>1, <1>8, WrapAssumption DEF Share
    <3> QED
      BY <2>3, <2>4, <2>5, <3>2, <1>9 DEF A, C
  <2>6. CASE ~ (s = o.side /\ x = o.price)
    <3>1. o.id \notin C
      BY <2>1, <2>6, <1>7
    <3>2. Share(oc, C, w[s]) = 0
      BY <2>2, <3>1 DEF Share
    <3>3. /\ TotalBefore(b, s, x) = b.levels[s][x].total
          /\ c.levels[s][x].total = b.levels[s][x].total
          /\ b.levels[s][x].total \in 0 .. Wrap - 1
      BY <2>6, <1>9, <1>10 DEF TotalBefore
    <3>4. \A t \in 0 .. Wrap - 1 : (t + (0 - 0)) % Wrap = t
      BY WrapAssumption
    <3> QED
      BY <2>3, <2>4, <3>2, <3>3, <3>4 DEF A, C
  <2> QED
    BY <2>5, <2>6
<1>12. Tallied(oc, c)
  BY <1>2, <1>11, StillTallied DEF os
<1>13. oc = [i \in DOMAIN os \cup {o.id} |->
               IF i = o.id THEN [side |-> o.side, price |-> o.price,
                                 quantity |-> o.quantity, age |-> n]
               ELSE os[i]]
  <2>1. oc = [i \in DOMAIN oc |-> oc[i]]
    BY DEF oc, Clients
  <2> QED
    BY <2>1, <1>3, <1>4, <1>6, <1>7
<1> QED
  BY <1>12, <1>13 DEF os, oc, c

\* cancel_order cancels, and takes the order's quantity off its total.
LEMMA CancelMirrored ==
  ASSUME NEW b, NEW n \in Nat \ {0}, BookOK(b, n), Covered(b),
         NEW id \in DOMAIN b.lookup, Tallied(Clients(b), b)
  PROVE  /\ Clients(CancelIn(b, id)) = [i \in DOMAIN Clients(b) \ {id} |-> Clients(b)[i]]
         /\ Tallied(Clients(CancelIn(b, id)), CancelIn(b, id))
<1> DEFINE os   == Clients(b)
           c    == CancelIn(b, id)
           oc   == Clients(c)
           p    == b.lookup[id]
           o    == b.heap[p]
           rest == [orders |-> RemoveIf(b, b.levels[o.side][o.price], id),
                    total  |-> (b.levels[o.side][o.price].total - o.quantity) % Wrap]
           w    == [s \in Side |-> id]
<1>1. /\ p \in DOMAIN b.heap /\ o.id = id /\ o \in Order
      /\ o.price \in DOMAIN b.levels[o.side]
  BY DEF BookOK, LookupOK, EntryOK, HeapOK
<1>2. /\ c.heap   = Erase(b.heap, p)
      /\ c.lookup = Erase(b.lookup, id)
      /\ c.levels = [b.levels EXCEPT ![o.side] = KeepUnlessEmpty(@, o.price, rest)]
  BY <1>1, Zenon DEF CancelIn, Delete
<1>3. Mirrors(os, b, n) /\ Mirrors(oc, c, n)
  BY ClientsMirror, CancelInOK, CancelCovers
<1>4. /\ DOMAIN os = DOMAIN b.lookup /\ DOMAIN oc = DOMAIN c.lookup
      /\ os[id].side = o.side /\ os[id].price = o.price /\ os[id].quantity = o.quantity
  BY DEF Clients
<1>5. /\ DOMAIN c.lookup = DOMAIN b.lookup \ {id}
      /\ \A i \in DOMAIN c.lookup : c.lookup[i] = b.lookup[i]
  BY <1>2 DEF Erase, Restrict
<1>6. \A i \in DOMAIN c.lookup : oc[i] = os[i]
  <2>1. \A i \in DOMAIN c.lookup : b.lookup[i] \in DOMAIN b.heap /\ b.lookup[i] # p
    <3> SUFFICES ASSUME NEW i \in DOMAIN c.lookup
                 PROVE  b.lookup[i] \in DOMAIN b.heap /\ b.lookup[i] # p
      OBVIOUS
    <3>1. i \in DOMAIN b.lookup /\ i # id
      BY <1>5
    <3>2. b.lookup[i] \in DOMAIN b.heap /\ b.heap[b.lookup[i]].id = i
      BY <3>1 DEF BookOK, LookupOK, EntryOK
    <3> QED
      BY <1>1, <3>1, <3>2, Zenon
  <2>2. \A r \in DOMAIN b.heap : r # p => c.heap[r] = b.heap[r]
    BY <1>2 DEF Erase, Restrict
  <2> HIDE DEF c, p
  <2> QED
    BY <2>1, <2>2, <1>5 DEF Clients
<1>7. o.side \in Side /\ o.quantity \in 0 .. Wrap - 1 /\ DOMAIN b.levels = Side
  BY <1>1 DEF Order, BookOK, LevelsOK
<1>8. \A s \in Side : \A x \in DOMAIN c.levels[s] :
        /\ x \in DOMAIN b.levels[s]
        /\ b.levels[s][x].total \in 0 .. Wrap - 1
        /\ IF s = o.side /\ x = o.price
           THEN c.levels[s][x].total = (b.levels[s][x].total - o.quantity) % Wrap
           ELSE c.levels[s][x] = b.levels[s][x]
  <2> DEFINE kept == KeepUnlessEmpty(b.levels[o.side], o.price, rest)
  <2>1. \A x \in DOMAIN kept : /\ x \in DOMAIN b.levels[o.side]
                               /\ x = o.price => kept[x] = rest
                               /\ x # o.price => kept[x] = b.levels[o.side][x]
    <3> HIDE DEF rest, o
    <3> QED
      BY <1>1 DEF KeepUnlessEmpty, Put, Erase, Restrict
  <2>2. rest.total = (b.levels[o.side][o.price].total - o.quantity) % Wrap
    OBVIOUS
  <2>3. \A s \in Side : \A x \in DOMAIN b.levels[s] : b.levels[s][x].total \in 0 .. Wrap - 1
    BY DEF BookOK, LevelsOK, Limit
  <2>4. /\ c.levels[o.side] = kept
        /\ \A s \in Side : s # o.side => c.levels[s] = b.levels[s]
    BY <1>2, <1>7
  <2> HIDE DEF kept, rest, c, o
  <2> QED
    BY <2>1, <2>2, <2>3, <2>4, <1>7
<1> HIDE DEF os, c, oc, p, o, rest
<1>9. OneMoves(os, oc, b, c, w)
  <2> SUFFICES ASSUME NEW s \in Side, NEW x \in DOMAIN c.levels[s]
               PROVE  LET A == Exch!At(os, s, x)
                          C == Exch!At(oc, s, x)
                      IN  /\ A \ {w[s]} = C \ {w[s]}
                          /\ \A j \in A \ {w[s]} : oc[j].quantity = os[j].quantity
                          /\ c.levels[s][x].total =
                               (TotalBefore(b, s, x) + (Share(oc, C, w[s]) - Share(os, A, w[s]))) % Wrap
    BY DEF OneMoves
  <2> DEFINE A == Exch!At(os, s, x)
             C == Exch!At(oc, s, x)
  <2>1. /\ A = {i \in DOMAIN os : os[i].side = s /\ os[i].price = x}
        /\ C = {i \in DOMAIN oc : oc[i].side = s /\ oc[i].price = x}
    BY <1>3, AtNumbered
  <2>2. w[s] = id /\ id \notin C
    BY <2>1, <1>4, <1>5
  <2> HIDE DEF A, C, w
  <2>3. A \ {w[s]} = C \ {w[s]} /\ \A j \in A \ {w[s]} : oc[j].quantity = os[j].quantity
    BY <2>1, <2>2, <1>4, <1>5, <1>6
  <2>4. Share(oc, C, w[s]) = 0 /\ TotalBefore(b, s, x) = b.levels[s][x].total
    BY <2>2, <1>8 DEF Share, TotalBefore
  <2>5. CASE s = o.side /\ x = o.price
    <3>1. id \in A
      BY <2>1, <2>5, <1>4
    <3>2. Share(os, A, w[s]) = o.quantity
      BY <2>2, <3>1, <1>4 DEF Share
    <3>3. \A t \in 0 .. Wrap - 1 : t - o.quantity = t + (0 - o.quantity)
      BY <1>7, WrapAssumption
    <3>4. c.levels[s][x].total = (b.levels[s][x].total + (0 - o.quantity)) % Wrap
      BY <2>5, <3>3, <1>8
    <3> QED
      BY <2>3, <2>4, <3>2, <3>4 DEF A, C
  <2>6. CASE ~ (s = o.side /\ x = o.price)
    <3>1. id \notin A
      BY <2>1, <2>6, <1>4
    <3>2. Share(os, A, w[s]) = 0
      BY <2>2, <3>1 DEF Share
    <3>3. /\ c.levels[s][x].total = b.levels[s][x].total
          /\ b.levels[s][x].total \in 0 .. Wrap - 1
      BY <2>6, <1>8
    <3>4. \A t \in 0 .. Wrap - 1 : (t + (0 - 0)) % Wrap = t
      BY WrapAssumption
    <3> QED
      BY <2>3, <2>4, <3>2, <3>3, <3>4 DEF A, C
  <2> QED
    BY <2>5, <2>6
<1>10. Tallied(oc, c)
  BY <1>3, <1>9, StillTallied DEF os
<1>11. oc = [i \in DOMAIN os \ {id} |-> os[i]]
  <2>1. oc = [i \in DOMAIN oc |-> oc[i]]
    BY DEF oc, Clients
  <2> QED
    BY <2>1, <1>4, <1>5, <1>6
<1> QED
  BY <1>10, <1>11 DEF os, oc, c

\* amend_order with the old price resizes, and changes the total by as much.
LEMMA ResizeMirrored ==
  ASSUME NEW b, NEW n \in Nat \ {0}, BookOK(b, n), Covered(b),
         NEW id \in DOMAIN b.lookup, NEW q \in 0 .. Wrap - 1, Tallied(Clients(b), b)
  PROVE  /\ Clients(ResizeIn(b, id, q)) = [Clients(b) EXCEPT ![id].quantity = q]
         /\ Tallied(Clients(ResizeIn(b, id, q)), ResizeIn(b, id, q))
<1> DEFINE os    == Clients(b)
           c     == ResizeIn(b, id, q)
           oc    == Clients(c)
           p     == b.lookup[id]
           o     == b.heap[p]
           total == (b.levels[o.side][o.price].total - o.quantity + q) % Wrap
           w     == [s \in Side |-> id]
<1>1. /\ p \in DOMAIN b.heap /\ o.id = id /\ o \in Order
      /\ o.price \in DOMAIN b.levels[o.side]
  BY DEF BookOK, LookupOK, EntryOK, HeapOK
<1>2. /\ c.heap   = [b.heap EXCEPT ![p].quantity = q]
      /\ c.lookup = b.lookup
      /\ c.levels = [b.levels EXCEPT ![o.side][o.price].total = total]
  BY <1>1 DEF ResizeIn, BookOK
<1>3. Mirrors(os, b, n) /\ Mirrors(oc, c, n)
  BY ClientsMirror, ResizeInOK, ResizeCovers
<1>4. /\ DOMAIN os = DOMAIN b.lookup /\ DOMAIN oc = DOMAIN c.lookup
      /\ os[id] = [side |-> o.side, price |-> o.price, quantity |-> o.quantity, age |-> p]
  BY DEF Clients
<1>5. \A i \in DOMAIN b.lookup : i # id => oc[i] = os[i]
  <2>1. ASSUME NEW i \in DOMAIN b.lookup, i # id
        PROVE  b.lookup[i] \in DOMAIN b.heap /\ b.lookup[i] # p
    <3>1. b.lookup[i] \in DOMAIN b.heap /\ b.heap[b.lookup[i]].id = i
      BY DEF BookOK, LookupOK, EntryOK
    <3> QED
      BY <1>1, <2>1, <3>1, Zenon
  <2>2. \A r \in DOMAIN b.heap : r # p => c.heap[r] = b.heap[r]
    BY <1>2
  <2> HIDE DEF c, p
  <2> QED
    BY <2>1, <2>2, <1>2 DEF Clients
<1>6. oc[id] = [side |-> o.side, price |-> o.price, quantity |-> q, age |-> p]
  <2>1. c.heap[p] = [o EXCEPT !.quantity = q]
    BY <1>1, <1>2
  <2>2. c.heap[p].side = o.side /\ c.heap[p].price = o.price /\ c.heap[p].quantity = q
    BY <1>1, <2>1 DEF Order
  <2>3. c.lookup[id] = p /\ id \in DOMAIN c.lookup
    BY <1>2
  <2> HIDE DEF c, p, o
  <2> QED
    BY <2>2, <2>3 DEF Clients
<1>7. o.side \in Side /\ o.quantity \in 0 .. Wrap - 1 /\ DOMAIN b.levels = Side
  BY <1>1 DEF Order, BookOK, LevelsOK
<1>8. \A s \in Side : \A x \in DOMAIN c.levels[s] :
        /\ x \in DOMAIN b.levels[s]
        /\ b.levels[s][x].total \in 0 .. Wrap - 1
        /\ IF s = o.side /\ x = o.price
           THEN c.levels[s][x].total = (b.levels[s][x].total - o.quantity + q) % Wrap
           ELSE c.levels[s][x] = b.levels[s][x]
  <2>1. \A s \in Side : \A x \in DOMAIN b.levels[s] : b.levels[s][x] \in Limit
    BY DEF BookOK, LevelsOK
  <2>2. total = (b.levels[o.side][o.price].total - o.quantity + q) % Wrap
    OBVIOUS
  <2> HIDE DEF c, o, total
  <2>3. \A l \in Limit : [l EXCEPT !.total = total].total = total /\ l.total \in 0 .. Wrap - 1
    BY DEF Limit
  <2>4. /\ c.levels[o.side] = [b.levels[o.side] EXCEPT ![o.price].total = total]
        /\ \A s \in Side : s # o.side => c.levels[s] = b.levels[s]
    BY <1>2, <1>7
  <2>5. /\ DOMAIN c.levels[o.side] = DOMAIN b.levels[o.side]
        /\ c.levels[o.side][o.price].total = total
        /\ \A x \in DOMAIN b.levels[o.side] : x # o.price => c.levels[o.side][x] = b.levels[o.side][x]
    <3> DEFINE l == b.levels[o.side]
    <3>1. o.price \in DOMAIN l /\ l[o.price] \in Limit
      BY <1>1, <1>7, <2>1
    <3>2. [l[o.price] EXCEPT !.total = total].total = total
      BY <2>3, <3>1
    <3>3. c.levels[o.side] = [l EXCEPT ![o.price].total = total]
      BY <2>4
    <3> HIDE DEF l
    <3>4. /\ DOMAIN c.levels[o.side] = DOMAIN l
          /\ c.levels[o.side][o.price] = [l[o.price] EXCEPT !.total = total]
          /\ \A x \in DOMAIN l : x # o.price => c.levels[o.side][x] = l[x]
      BY <3>1, <3>3
    <3> QED
      BY <3>2, <3>4 DEF l
  <2> QED
    BY <2>1, <2>2, <2>3, <2>4, <2>5, <1>7
<1> HIDE DEF os, c, oc, p, o, total
<1>9. OneMoves(os, oc, b, c, w)
  <2> SUFFICES ASSUME NEW s \in Side, NEW x \in DOMAIN c.levels[s]
               PROVE  LET A == Exch!At(os, s, x)
                          C == Exch!At(oc, s, x)
                      IN  /\ A \ {w[s]} = C \ {w[s]}
                          /\ \A j \in A \ {w[s]} : oc[j].quantity = os[j].quantity
                          /\ c.levels[s][x].total =
                               (TotalBefore(b, s, x) + (Share(oc, C, w[s]) - Share(os, A, w[s]))) % Wrap
    BY DEF OneMoves
  <2> DEFINE A == Exch!At(os, s, x)
             C == Exch!At(oc, s, x)
  <2>1. /\ A = {i \in DOMAIN os : os[i].side = s /\ os[i].price = x}
        /\ C = {i \in DOMAIN oc : oc[i].side = s /\ oc[i].price = x}
    BY <1>3, AtNumbered
  <2>2. w[s] = id
    OBVIOUS
  <2> HIDE DEF A, C, w
  <2>3. A \ {w[s]} = C \ {w[s]} /\ \A j \in A \ {w[s]} : oc[j].quantity = os[j].quantity
    BY <2>1, <2>2, <1>2, <1>4, <1>5
  <2>4. TotalBefore(b, s, x) = b.levels[s][x].total
    BY <1>8 DEF TotalBefore
  <2>5. CASE s = o.side /\ x = o.price
    <3>1. id \in A /\ id \in C
      BY <2>1, <2>5, <1>2, <1>4, <1>6
    <3>2. Share(os, A, w[s]) = o.quantity /\ Share(oc, C, w[s]) = q
      BY <2>2, <3>1, <1>4, <1>6 DEF Share
    <3>3. \A t \in 0 .. Wrap - 1 : t - o.quantity + q = t + (q - o.quantity)
      BY <1>7, WrapAssumption
    <3>4. c.levels[s][x].total = (b.levels[s][x].total + (q - o.quantity)) % Wrap
      BY <2>5, <3>3, <1>8
    <3> QED
      BY <2>3, <2>4, <3>2, <3>4 DEF A, C
  <2>6. CASE ~ (s = o.side /\ x = o.price)
    <3>1. id \notin A /\ id \notin C
      BY <2>1, <2>6, <1>4, <1>6
    <3>2. Share(os, A, w[s]) = 0 /\ Share(oc, C, w[s]) = 0
      BY <2>2, <3>1 DEF Share
    <3>3. /\ c.levels[s][x].total = b.levels[s][x].total
          /\ b.levels[s][x].total \in 0 .. Wrap - 1
      BY <2>6, <1>8
    <3>4. \A t \in 0 .. Wrap - 1 : (t + (0 - 0)) % Wrap = t
      BY WrapAssumption
    <3> QED
      BY <2>3, <2>4, <3>2, <3>3, <3>4 DEF A, C
  <2> QED
    BY <2>5, <2>6
<1>10. Tallied(oc, c)
  BY <1>3, <1>9, StillTallied DEF os
<1>11. oc = [os EXCEPT ![id].quantity = q]
  <2>1. oc = [i \in DOMAIN os |-> oc[i]] /\ os = [i \in DOMAIN os |-> os[i]]
    BY <1>2, <1>4 DEF oc, os, Clients
  <2>2. oc[id] = [os[id] EXCEPT !.quantity = q]
    BY <1>4, <1>6
  <2> QED
    BY <2>1, <2>2, <1>4, <1>5
<1> QED
  BY <1>10, <1>11 DEF os, oc, c

\* The ids of the two orders that trade, and the price each stands at.
Traders(b) == [s \in Side |-> IF s = "buy" THEN b.heap[BidOrder(b)].id ELSE b.heap[AskOrder(b)].id]
Best(b)    == [s \in Side |-> IF s = "buy" THEN BestBid(b) ELSE BestAsk(b)]

\* The two orders are the clients' first ones of their sides.
LEMMA TradersFirst ==
  ASSUME NEW b, NEW n \in Nat \ {0}, BookOK(b, n), Covered(b), Crossed(b), NEW s \in Side
  PROVE  LET os == Clients(b)
             i  == Traders(b)[s]
         IN  /\ i \in DOMAIN os
             /\ os[i].side = s
             /\ os[i].price = Best(b)[s]
             /\ os[i].age = (IF s = "buy" THEN BidOrder(b) ELSE AskOrder(b))
             /\ os[i].quantity = b.heap[os[i].age].quantity
             /\ os[i].quantity \in 0 .. Wrap - 1
             /\ TradeQuantity(b) \in Nat
             /\ TradeQuantity(b) <= os[i].quantity
             /\ \A r \in DOMAIN os : os[r].side = s => ~Exch!Outranks(os[r], os[i])
<1> DEFINE os == Clients(b)
           i  == Traders(b)[s]
           p  == IF s = "buy" THEN BidOrder(b) ELSE AskOrder(b)
           y  == Best(b)[s]
<1>1. /\ y \in DOMAIN b.levels[s] /\ p \in b.levels[s][y].orders
      /\ \A x \in DOMAIN b.levels[s] : IF s = "buy" THEN y >= x ELSE y <= x
      /\ \A r \in b.levels[s][y].orders : p <= r
  BY TradingPair DEF Best
<1>2. p \in DOMAIN b.heap /\ b.heap[p].side = s /\ b.heap[p].price = y /\ b.heap[p] \in Order
  BY <1>1 DEF BookOK, PlacedOK, HeapOK
<1>3. i = b.heap[p].id
  BY DEF Traders
<1>4. i \in DOMAIN b.lookup /\ b.lookup[i] = p
  BY <1>2, <1>3 DEF Covered
<1> HIDE DEF p, y, i
<1>5. /\ i \in DOMAIN os /\ os[i].side = s /\ os[i].price = y /\ os[i].age = p
      /\ os[i].quantity = b.heap[p].quantity
  BY <1>2, <1>4 DEF Clients
<1>6. os[i].quantity \in 0 .. Wrap - 1
  BY <1>2, <1>5 DEF Order
<1>7. TradeQuantity(b) \in Nat /\ TradeQuantity(b) <= b.heap[p].quantity
  <2> DEFINE S == {b.heap[BidOrder(b)].quantity, b.heap[AskOrder(b)].quantity}
  <2>1. /\ BidOrder(b) \in DOMAIN b.heap /\ b.heap[BidOrder(b)] \in Order
        /\ AskOrder(b) \in DOMAIN b.heap /\ b.heap[AskOrder(b)] \in Order
    BY TradingPair DEF BookOK, PlacedOK, HeapOK
  <2>2. S \in SUBSET Nat /\ S # {} /\ b.heap[p].quantity \in S
    BY <2>1, WrapAssumption DEF Order, p
  <2>3. TradeQuantity(b) = Min(S)
    BY DEF TradeQuantity
  <2> HIDE DEF S
  <2>4. Min(S) \in S /\ \A z \in S : Min(S) <= z
    BY <2>2, MinOfNat
  <2> QED
    BY <2>2, <2>3, <2>4
<1>8. ASSUME NEW r \in DOMAIN os, os[r].side = s
      PROVE  ~Exch!Outranks(os[r], os[i])
  <2>1. Mirrors(os, b, n)
    BY ClientsMirror
  <2>2. /\ os[r].price \in DOMAIN b.levels[s] /\ os[r].age \in b.levels[s][os[r].price].orders
        /\ os[r].age \in 1 .. n - 1 /\ os[i].age \in 1 .. n - 1
    BY <1>5, <1>8, <2>1 DEF Mirrors
  <2>3. DOMAIN b.levels[s] \subseteq Nat
    BY DEF BookOK, LevelsOK, Prices
  <2>4. IF s = "buy" THEN y >= os[r].price ELSE y <= os[r].price
    BY <1>1, <2>2 DEF p, y
  <2>5. os[r].price = y => p <= os[r].age
    BY <1>1, <2>2 DEF p, y
  <2>6. os[r].price \in Nat /\ y \in Nat /\ os[r].age \in Nat /\ p \in Nat
    BY <1>1, <1>5, <2>2, <2>3
  <2> HIDE DEF os
  <2> QED
    BY <1>5, <1>8, <2>4, <2>5, <2>6 DEF Exch!Outranks
<1> QED
  BY <1>5, <1>6, <1>7, <1>8 DEF os, i, y, p

\* An iteration of the loop takes the traded quantity off both orders and both
\* totals, and the orders this fills are gone.
LEMMA TradeMirrored ==
  ASSUME NEW b, NEW n \in Nat \ {0}, BookOK(b, n), Covered(b), Crossed(b),
         Tallied(Clients(b), b)
  PROVE  LET os == Clients(b)
             w  == Traders(b)
             q  == TradeQuantity(b)
         IN  /\ Clients(TradeIn(b)) =
                  [i \in DOMAIN os \ {j \in {w["buy"], w["sell"]} : os[j].quantity = q} |->
                     IF i \in {w["buy"], w["sell"]} THEN [os[i] EXCEPT !.quantity = @ - q]
                     ELSE os[i]]
             /\ Tallied(Clients(TradeIn(b)), TradeIn(b))
<1> DEFINE os    == Clients(b)
           c     == TradeIn(b)
           oc    == Clients(c)
           w     == Traders(b)
           q     == TradeQuantity(b)
           best  == Best(b)
           both  == {w["buy"], w["sell"]}
           gone  == {j \in both : os[j].quantity = q}
           pair  == {BidOrder(b), AskOrder(b)}
<1>1. /\ c.heap = [p \in DOMAIN b.heap \ Filled(b) |->
                     IF p \in pair THEN [b.heap[p] EXCEPT !.quantity = @ - q] ELSE b.heap[p]]
      /\ c.lookup = Restrict(b.lookup, DOMAIN b.lookup \ FilledIds(b))
      /\ c.levels["buy"] = KeepUnlessEmpty(b.levels["buy"], best["buy"],
                                           Traded(b, b.levels["buy"][best["buy"]]))
      /\ c.levels["sell"] = KeepUnlessEmpty(b.levels["sell"], best["sell"],
                                            Traded(b, b.levels["sell"][best["sell"]]))
  BY DEF TradeIn, Best, BookOK, LevelsOK
<1>2. Mirrors(os, b, n) /\ Mirrors(oc, c, n)
  BY ClientsMirror, TradeInOK, TradeCovers
<1>3. \A s \in Side :
        /\ w[s] \in DOMAIN os /\ os[w[s]].side = s /\ os[w[s]].price = best[s]
        /\ os[w[s]].quantity \in 0 .. Wrap - 1
        /\ q \in Nat /\ q <= os[w[s]].quantity
  BY TradersFirst
<1>4. /\ os[w["buy"]].age = BidOrder(b) /\ os[w["sell"]].age = AskOrder(b)
      /\ os[w["buy"]].quantity = b.heap[BidOrder(b)].quantity
      /\ os[w["sell"]].quantity = b.heap[AskOrder(b)].quantity
  <2>1. /\ os[w["buy"]].age = BidOrder(b)
        /\ os[w["buy"]].quantity = b.heap[os[w["buy"]].age].quantity
    BY TradersFirst
  <2>2. /\ os[w["sell"]].age = AskOrder(b)
        /\ os[w["sell"]].quantity = b.heap[os[w["sell"]].age].quantity
    BY TradersFirst
  <2> QED
    BY <2>1, <2>2
<1>5. w["buy"] = b.heap[BidOrder(b)].id /\ w["sell"] = b.heap[AskOrder(b)].id
  BY DEF Traders
<1>6. FilledIds(b) = gone
  <2> HIDE DEF os, w, q
  <2>1. Filled(b) = {p \in pair : b.heap[p].quantity = q}
    BY DEF Filled, q
  <2> QED
    BY <1>4, <1>5, <2>1 DEF FilledIds
<1>7. /\ DOMAIN os = DOMAIN b.lookup /\ DOMAIN oc = DOMAIN c.lookup
      /\ oc = [i \in DOMAIN oc |-> oc[i]]
      /\ \A i \in DOMAIN os :
           os[i] = [side |-> b.heap[b.lookup[i]].side, price |-> b.heap[b.lookup[i]].price,
                    quantity |-> b.heap[b.lookup[i]].quantity, age |-> b.lookup[i]]
      /\ \A i \in DOMAIN oc :
           oc[i] = [side |-> c.heap[c.lookup[i]].side, price |-> c.heap[c.lookup[i]].price,
                    quantity |-> c.heap[c.lookup[i]].quantity, age |-> c.lookup[i]]
  BY DEF Clients
<1>8. /\ DOMAIN oc = DOMAIN os \ gone
      /\ \A i \in DOMAIN oc : c.lookup[i] = b.lookup[i] /\ i \in DOMAIN os /\ i \notin gone
  BY <1>1, <1>6, <1>7 DEF Restrict
<1>9. \A i \in DOMAIN os : /\ b.lookup[i] \in DOMAIN b.heap
                           /\ b.heap[b.lookup[i]].id = i
                           /\ b.heap[b.lookup[i]] \in Order
                           /\ os[i].age = b.lookup[i]
  <2>1. ASSUME NEW i \in DOMAIN os
        PROVE  /\ b.lookup[i] \in DOMAIN b.heap
               /\ b.heap[b.lookup[i]].id = i /\ b.heap[b.lookup[i]] \in Order
    BY <1>7, EntryLeads, Zenon
  <2> HIDE DEF os
  <2>2. ASSUME NEW i \in DOMAIN os PROVE os[i].age = b.lookup[i]
    <3> DEFINE o == b.heap[b.lookup[i]]
    <3>1. os[i] = [side |-> o.side, price |-> o.price, quantity |-> o.quantity,
                   age |-> b.lookup[i]]
      BY <1>7, Zenon
    <3> HIDE DEF o
    <3> QED
      BY <3>1
  <2> QED
    BY <2>1, <2>2, Zenon
<1>10. \A s \in Side : Traded(b, b.levels[s][best[s]]).total = (b.levels[s][best[s]].total - q) % Wrap
  BY DEF Traded
<1>11. \A s \in Side : \A x \in DOMAIN b.levels[s] : b.levels[s][x].total \in 0 .. Wrap - 1
  BY DEF BookOK, LevelsOK, Limit
<1>12. \A s \in Side : best[s] \in DOMAIN b.levels[s]
  BY TradingPair DEF Best
<1> HIDE DEF os, c, oc, w, q, best
<1>13. ASSUME NEW i \in DOMAIN oc
       PROVE  oc[i] = IF i \in both THEN [os[i] EXCEPT !.quantity = @ - q] ELSE os[i]
  <2> DEFINE p == b.lookup[i]
  <2>1. /\ i \in DOMAIN os /\ c.lookup[i] = p /\ p \in DOMAIN b.heap /\ b.heap[p].id = i
        /\ b.heap[p] \in Order
        /\ os[i] = [side |-> b.heap[p].side, price |-> b.heap[p].price,
                    quantity |-> b.heap[p].quantity, age |-> p]
        /\ oc[i] = [side |-> c.heap[p].side, price |-> c.heap[p].price,
                    quantity |-> c.heap[p].quantity, age |-> p]
    BY <1>7, <1>8, <1>9
  <2>2. p \in pair <=> i \in both
    <3>1. b.lookup[w["buy"]] = BidOrder(b) /\ b.lookup[w["sell"]] = AskOrder(b)
      BY <1>3, <1>4, <1>9
    <3> QED
      BY <1>5, <2>1, <3>1
  <2>3. p \notin Filled(b)
    <3>1. i \notin FilledIds(b)
      BY <1>6, <1>8
    <3> QED
      BY <2>1, <3>1 DEF FilledIds
  <2>4. c.heap[p] = IF p \in pair THEN [b.heap[p] EXCEPT !.quantity = @ - q] ELSE b.heap[p]
    BY <1>1, <2>1, <2>3
  <2> HIDE DEF p, both, pair
  <2>5. CASE i \in both
    <3>1. c.heap[p] = [b.heap[p] EXCEPT !.quantity = @ - q]
      BY <2>2, <2>4, <2>5
    <3>2. /\ c.heap[p].side = b.heap[p].side /\ c.heap[p].price = b.heap[p].price
          /\ c.heap[p].quantity = b.heap[p].quantity - q
      BY <2>1, <3>1 DEF Order
    <3> QED
      BY <2>1, <2>5, <3>2
  <2>6. CASE i \notin both
    BY <2>1, <2>2, <2>4, <2>6
  <2> QED
    BY <2>5, <2>6
<1>14. ASSUME NEW s \in Side, NEW x \in DOMAIN c.levels[s]
       PROVE  /\ x \in DOMAIN b.levels[s]
              /\ IF x = best[s] THEN c.levels[s][x].total = (b.levels[s][x].total - q) % Wrap
                 ELSE c.levels[s][x] = b.levels[s][x]
  <2>1. c.levels[s] = KeepUnlessEmpty(b.levels[s], best[s], Traded(b, b.levels[s][best[s]]))
    BY <1>1
  <2> DEFINE limit == Traded(b, b.levels[s][best[s]])
  <2>2. limit.total = (b.levels[s][best[s]].total - q) % Wrap
    BY <1>10
  <2> HIDE DEF limit
  <2>3. \A z \in DOMAIN KeepUnlessEmpty(b.levels[s], best[s], limit) :
          /\ z \in DOMAIN b.levels[s]
          /\ KeepUnlessEmpty(b.levels[s], best[s], limit)[z] =
               IF z = best[s] THEN limit ELSE b.levels[s][z]
    BY <1>12 DEF KeepUnlessEmpty, Put, Erase, Restrict
  <2>4. x \in DOMAIN b.levels[s] /\ c.levels[s][x] = IF x = best[s] THEN limit ELSE b.levels[s][x]
    BY <2>1, <2>3 DEF limit
  <2> QED
    BY <2>2, <2>4
<1>15. OneMoves(os, oc, b, c, w)
  <2> SUFFICES ASSUME NEW s \in Side, NEW x \in DOMAIN c.levels[s]
               PROVE  LET A == Exch!At(os, s, x)
                          C == Exch!At(oc, s, x)
                      IN  /\ A \ {w[s]} = C \ {w[s]}
                          /\ \A j \in A \ {w[s]} : oc[j].quantity = os[j].quantity
                          /\ c.levels[s][x].total =
                               (TotalBefore(b, s, x) + (Share(oc, C, w[s]) - Share(os, A, w[s]))) % Wrap
    BY DEF OneMoves
  <2> DEFINE A == Exch!At(os, s, x)
             C == Exch!At(oc, s, x)
             i == w[s]
  <2>1. /\ A = {j \in DOMAIN os : os[j].side = s /\ os[j].price = x}
        /\ C = {j \in DOMAIN oc : oc[j].side = s /\ oc[j].price = x}
    BY <1>2, AtNumbered
  <2>2. /\ i \in DOMAIN os /\ os[i].side = s /\ os[i].price = best[s]
        /\ os[i].quantity \in 0 .. Wrap - 1 /\ q \in Nat /\ q <= os[i].quantity
    BY <1>3
  <2>3. \A j \in both : os[j].side = s => j = i
    BY <1>3
  <2>4. \A j \in DOMAIN os : os[j].side = s /\ j # i => j \notin both /\ j \in DOMAIN oc /\ oc[j] = os[j]
    BY <1>8, <1>13, <2>3
  <2>5. i \in both
    OBVIOUS
  <2>6. \A j \in DOMAIN os : /\ [os[j] EXCEPT !.quantity = @ - q].side = os[j].side
                             /\ [os[j] EXCEPT !.quantity = @ - q].price = os[j].price
                             /\ [os[j] EXCEPT !.quantity = @ - q].quantity = os[j].quantity - q
    BY <1>7
  <2>7. \A j \in DOMAIN oc : j \in DOMAIN os /\ oc[j].side = os[j].side /\ oc[j].price = os[j].price
    BY <1>8, <1>13, <2>6
  <2> HIDE DEF A, C, i, both, gone
  <2>8. A \ {i} = C \ {i} /\ \A j \in A \ {i} : oc[j].quantity = os[j].quantity
    BY <2>1, <2>4, <2>7
  <2>9. TotalBefore(b, s, x) = b.levels[s][x].total /\ b.levels[s][x].total \in 0 .. Wrap - 1
    BY <1>11, <1>14 DEF TotalBefore
  <2>10. CASE x = best[s]
    <3>1. i \in A
      BY <2>1, <2>2, <2>10
    <3>2. Share(os, A, i) = os[i].quantity
      BY <3>1 DEF Share
    <3>3. Share(oc, C, i) = os[i].quantity - q
      <4>1. CASE i \in DOMAIN oc
        <5>1. i \in C /\ oc[i].quantity = os[i].quantity - q
          BY <4>1, <2>1, <2>2, <2>5, <2>6, <2>7, <2>10, <1>13
        <5> QED
          BY <5>1 DEF Share
      <4>2. CASE i \notin DOMAIN oc
        <5>1. os[i].quantity = q
          BY <4>2, <1>8, <2>2 DEF gone
        <5>2. i \notin C
          BY <4>2, <2>1
        <5> QED
          BY <5>1, <5>2, <2>2 DEF Share
      <4> QED
        BY <4>1, <4>2
    <3>4. \A t \in 0 .. Wrap - 1 : t - q = t + ((os[i].quantity - q) - os[i].quantity)
      BY <2>2, WrapAssumption
    <3>5. c.levels[s][x].total = (b.levels[s][x].total - q) % Wrap
      BY <2>10, <1>14
    <3>6. c.levels[s][x].total =
            (b.levels[s][x].total + ((os[i].quantity - q) - os[i].quantity)) % Wrap
      BY <2>9, <3>4, <3>5
    <3> QED
      BY <2>8, <2>9, <3>2, <3>3, <3>6 DEF A, C, i
  <2>11. CASE x # best[s]
    <3>1. i \notin A /\ i \notin C
      BY <2>1, <2>2, <2>7, <2>11
    <3>2. Share(os, A, i) = 0 /\ Share(oc, C, i) = 0
      BY <3>1 DEF Share
    <3>3. c.levels[s][x].total = b.levels[s][x].total
      BY <2>11, <1>14
    <3>4. \A t \in 0 .. Wrap - 1 : (t + (0 - 0)) % Wrap = t
      BY WrapAssumption
    <3> QED
      BY <2>8, <2>9, <3>2, <3>3, <3>4 DEF A, C, i
  <2> QED
    BY <2>10, <2>11
<1>16. Tallied(oc, c)
  BY <1>2, <1>15, StillTallied DEF os
<1>17. oc = [i \in DOMAIN os \ gone |->
               IF i \in both THEN [os[i] EXCEPT !.quantity = @ - q] ELSE os[i]]
  BY <1>7, <1>8, <1>13, Zenon
<1> QED
  BY <1>16, <1>17 DEF os, oc, c, w, q

-----------------------------------------------------------------------------
(* The book implements the exchange.                                       *)

\* The invariant of the refinement: beside IInv, no object is out of clients'
\* reach, and totals are sums.
ViewOK == Covered(book) /\ NoLeak /\ Tallied(Clients(book), book)

\* What a book of which all this holds shows is what the exchange publishes.
LEMMA ViewDepth ==
  ASSUME NEW b, NEW n \in Nat \ {0}, BookOK(b, n), Covered(b), Tallied(Clients(b), b)
  PROVE  [s \in Side |-> [x \in DOMAIN b.levels[s] |-> b.levels[s][x].total]]
           = Exch!Published(Clients(b))
<1>1. Mirrors(Clients(b), b, n) /\ LevelsOK(b)
  BY ClientsMirror DEF BookOK
<1> QED
  BY <1>1, DepthPublished

\* An empty book is an empty exchange.
LEMMA InitView == Init => ViewOK /\ Exch!Init
<1> SUFFICES ASSUME Init PROVE ViewOK /\ Exch!Init
  OBVIOUS
<1>1. Covered(book) /\ NoLeak /\ BookOK(book, 1)
  BY EmptyBookOK DEF Init, EmptyBook, Covered, NoLeak
<1>2. Clients(book) = [id \in {} |-> 0] /\ Tallied(Clients(book), book)
  BY DEF Init, EmptyBook, Clients, Tallied
<1>3. ClientOrders = Clients(book)
  BY DEF ClientOrders, Clients
<1>4. ClientDepth = Exch!Published(Clients(book))
  <2>1. 1 \in Nat \ {0}
    OBVIOUS
  <2> QED
    BY <1>1, <1>2, <2>1, ViewDepth, Zenon DEF ClientDepth
<1> QED
  BY <1>1, <1>2, <1>3, <1>4, Zenon DEF ViewOK, Exch!Init, Init

\* An iteration of the loop trades as the exchange does.
LEMMA TradeSimulates ==
  ASSUME IInv, ViewOK, MatchOrders, Crossed(book)
  PROVE  Exch!Trade /\ Tallied(Clients(book'), book')
<1> DEFINE os == ClientOrders
           w  == Traders(book)
           b  == w["buy"]
           a  == w["sell"]
           q  == Exch!Min({os[b].quantity, os[a].quantity})
           traded  == [os EXCEPT ![b].quantity = @ - q, ![a].quantity = @ - q]
           settled == {id \in {b, a} : traded[id].quantity = 0}
<1>1. BookOK(book, next) /\ next \in Nat \ {0} /\ Covered(book) /\ Tallied(Clients(book), book)
  BY MaxOrdersAssumption DEF IInv, ViewOK
<1>2. pc = "matching" /\ pc' = pc /\ book' = TradeIn(book)
  BY DEF MatchOrders
<1>3. os = Clients(book) /\ ClientOrders' = Clients(book')
  BY DEF ClientOrders, Clients
<1>4. /\ Clients(book') =
           [i \in DOMAIN os \ {j \in {b, a} : os[j].quantity = TradeQuantity(book)} |->
              IF i \in {b, a} THEN [os[i] EXCEPT !.quantity = @ - TradeQuantity(book)] ELSE os[i]]
      /\ Tallied(Clients(book'), book')
  <2>1. LET cs == Clients(book)
        IN  /\ Clients(TradeIn(book)) =
                 [i \in DOMAIN cs \ {j \in {w["buy"], w["sell"]} :
                                       cs[j].quantity = TradeQuantity(book)} |->
                    IF i \in {w["buy"], w["sell"]}
                    THEN [cs[i] EXCEPT !.quantity = @ - TradeQuantity(book)] ELSE cs[i]]
            /\ Tallied(Clients(TradeIn(book)), TradeIn(book))
    BY <1>1, TradeMirrored, Zenon
  <2> HIDE DEF os, w
  <2> QED
    BY <1>2, <1>3, <2>1, Zenon
<1>5. \A s \in Side :
        /\ w[s] \in DOMAIN os /\ os[w[s]].side = s /\ os[w[s]].price = Best(book)[s]
        /\ os[w[s]].age = (IF s = "buy" THEN BidOrder(book) ELSE AskOrder(book))
        /\ os[w[s]].quantity = book.heap[os[w[s]].age].quantity
        /\ os[w[s]].quantity \in 0 .. Wrap - 1
        /\ TradeQuantity(book) \in Nat
        /\ \A r \in DOMAIN os : os[r].side = s => ~Exch!Outranks(os[r], os[w[s]])
  <2> HIDE DEF os
  <2> QED
    BY <1>1, <1>3, TradersFirst
<1>6. b # a /\ b \in DOMAIN os /\ a \in DOMAIN os
  <2> HIDE DEF os, w
  <2> QED
    BY <1>5
<1>7. q = TradeQuantity(book)
  <2> HIDE DEF os, w
  <2>1. /\ os[b].quantity = book.heap[BidOrder(book)].quantity
        /\ os[a].quantity = book.heap[AskOrder(book)].quantity
    BY <1>5
  <2>2. \A S : Min(S) = Exch!Min(S)
    BY DEF Min, Exch!Min
  <2> HIDE DEF b, a
  <2> QED
    BY <2>1, <2>2, Zenon DEF TradeQuantity
<1>8. b \in Exch!First("buy") /\ a \in Exch!First("sell")
  <2> HIDE DEF w
  <2> QED
    BY <1>5 DEF Exch!First
<1>9. Exch!Crossing(b, a)
  <2>1. BestBid(book) >= BestAsk(book)
    BY DEF Crossed
  <2> HIDE DEF w
  <2> QED
    BY <2>1, <1>5 DEF Exch!Crossing, Best
<1>10. Mirrors(os, book, next) /\ os = [i \in DOMAIN os |-> os[i]]
  BY <1>1, <1>3, ClientsMirror DEF ClientOrders
<1> HIDE DEF os, w, q
<1>11. ASSUME NEW i \in DOMAIN os
       PROVE  /\ [os[i] EXCEPT !.quantity = @ - q].quantity = os[i].quantity - q
              /\ traded[i] = IF i \in {b, a} THEN [os[i] EXCEPT !.quantity = @ - q] ELSE os[i]
  <2>1. os[i] = [side |-> os[i].side, price |-> os[i].price,
                 quantity |-> os[i].quantity, age |-> os[i].age]
    BY <1>10 DEF Mirrors
  <2>2. [os[i] EXCEPT !.quantity = @ - q].quantity = os[i].quantity - q
    BY <2>1
  <2>3. traded[i] = IF i \in {b, a} THEN [os[i] EXCEPT !.quantity = @ - q] ELSE os[i]
    BY <1>6, <1>10
  <2> QED
    BY <2>2, <2>3
<1>12. settled = {j \in {b, a} : os[j].quantity = TradeQuantity(book)}
  <2>1. \A j \in {b, a} : traded[j].quantity = os[j].quantity - q
    BY <1>6, <1>11
  <2>2. \A j \in {b, a} : os[j].quantity \in Int /\ q \in Int
    BY <1>5, <1>7, WrapAssumption
  <2>3. \A j \in {b, a} : os[j].quantity - q = 0 <=> os[j].quantity = q
    BY <2>2
  <2> HIDE DEF traded
  <2> QED
    BY <1>7, <2>1, <2>3
<1>13. Clients(book') = Exch!Restrict(traded, DOMAIN os \ settled)
  <2>1. \A i \in DOMAIN os \ settled :
          traded[i] = IF i \in {b, a} THEN [os[i] EXCEPT !.quantity = @ - TradeQuantity(book)]
                      ELSE os[i]
    BY <1>7, <1>11
  <2> HIDE DEF traded, settled
  <2>2. Clients(book') =
          [i \in DOMAIN os \ settled |->
             IF i \in {b, a} THEN [os[i] EXCEPT !.quantity = @ - TradeQuantity(book)] ELSE os[i]]
    BY <1>4, <1>12, Zenon
  <2> QED
    BY <2>1, <2>2 DEF Exch!Restrict
<1>14. Exch!Trade
  <2> USE DEF os, q
  <2> HIDE DEF b, a
  <2>1. Exch!Crossing(b, a) /\ ClientOrders' = Exch!Restrict(traded, DOMAIN os \ settled)
    BY <1>3, <1>9, <1>13
  <2> QED
    BY <1>2, <1>8, <2>1, Zenon DEF Exch!Trade
<1> QED
  BY <1>4, <1>14

\* Every call, every iteration of the loop and the destructor is a step of the
\* exchange or leaves what clients see as it was.
LEMMA StepSimulates ==
  ASSUME ~PriceAmends, IInv, ViewOK, [Next]_vars
  PROVE  ViewOK' /\ [Exch!Next]_(Exch!vars)
<1>1. BookOK(book, next) /\ next \in Nat \ {0} /\ Covered(book) /\ NoLeak /\ Tallied(Clients(book), book)
  BY MaxOrdersAssumption DEF IInv, ViewOK
<1>2. BookOK(book', next') /\ next' \in Nat \ {0} /\ Covered(book') /\ NoLeak'
  BY StepOK, StepCovers, MaxOrdersAssumption DEF IInv, ViewOK
<1>3. /\ ClientOrders = Clients(book) /\ ClientOrders' = Clients(book')
      /\ DOMAIN ClientOrders = DOMAIN book.lookup
  BY DEF ClientOrders, Clients
<1>4. Exch!Prices = Prices /\ Exch!Side = Side
  BY DEF Exch!Prices, Prices, Exch!Side
<1> DEFINE Moves == \/ \E id \in Ids, s \in Exch!Side, x \in Exch!Prices, q \in Quantities, age \in 1 .. MaxOrders :
                         Exch!Submit(id, s, x, q, age)
                    \/ \E id \in Ids : Exch!Cancel(id)
                    \/ \E id \in Ids, q \in Quantities : Exch!Resize(id, q)
                    \/ Exch!Trade
                    \/ Exch!Settle
                    \/ Exch!Close
<1>5. ASSUME NEW id \in Ids, NEW s \in Side, NEW x \in Prices, NEW q \in Quantities,
             Add(id, s, x, q)
      PROVE  (Moves /\ Tallied(Clients(book'), book')) \/ UNCHANGED vars
  <2>1. CASE id \in DOMAIN book.lookup
    BY <1>5, <2>1 DEF Add
  <2>2. CASE id \notin DOMAIN book.lookup
    <3> DEFINE o == [id |-> id, side |-> s, price |-> x, quantity |-> q, timestamp |-> clock']
    <3>1. /\ pc = "idle" /\ pc' = "matching" /\ next <= MaxOrders
          /\ \E t \in Ticks : clock' = clock + t
          /\ book' = AddIn(book, next, o)
      BY <1>5, <2>2 DEF Add
    <3>2. clock' \in Nat /\ q \in 0 .. Wrap - 1
      BY <3>1, TicksAssumption, QuantitiesAssumption DEF IInv
    <3>3. o \in Order
      BY <3>2 DEF Order
    <3>4. /\ o.id = id /\ o.side = s /\ o.price = x /\ o.quantity = q
      OBVIOUS
    <3> HIDE DEF o
    <3>5. /\ Clients(book') = [i \in DOMAIN Clients(book) \cup {o.id} |->
                                 IF i = o.id THEN [side |-> o.side, price |-> o.price,
                                                   quantity |-> o.quantity, age |-> next]
                                 ELSE Clients(book)[i]]
          /\ Tallied(Clients(book'), book')
      <4>1. o.id \notin DOMAIN book.lookup
        BY <2>2, <3>4
      <4>2. /\ Clients(AddIn(book, next, o)) =
                  [i \in DOMAIN Clients(book) \cup {o.id} |->
                     IF i = o.id THEN [side |-> o.side, price |-> o.price,
                                       quantity |-> o.quantity, age |-> next]
                     ELSE Clients(book)[i]]
            /\ Tallied(Clients(AddIn(book, next, o)), AddIn(book, next, o))
        BY <1>1, <3>3, <4>1, AddMirrored
      <4> QED
        BY <3>1, <4>2, Zenon
    <3>6. next \in 1 .. MaxOrders
      BY <1>1, <3>1, MaxOrdersAssumption
    <3>7. Exch!Youngest(next)
      <4>1. Mirrors(Clients(book), book, next)
        BY <1>1, ClientsMirror
      <4>2. \A i \in DOMAIN ClientOrders : ClientOrders[i].age \in 1 .. next - 1
        BY <1>3, <4>1, Zenon DEF Mirrors
      <4> QED
        BY <1>1, <4>2 DEF Exch!Youngest
    <3>8. ClientOrders' = [i \in DOMAIN ClientOrders \cup {id} |->
                             IF i = id THEN [side |-> s, price |-> x, quantity |-> q, age |-> next]
                             ELSE ClientOrders[i]]
      BY <1>3, <3>4, <3>5, Zenon
    <3>9. Exch!Submit(id, s, x, q, next)
      BY <1>3, <2>2, <3>1, <3>7, <3>8 DEF Exch!Submit
    <3> QED
      BY <1>4, <3>5, <3>6, <3>9
  <2> QED
    BY <2>1, <2>2
<1>6. ASSUME NEW id \in Ids, Cancel(id)
      PROVE  (Moves /\ Tallied(Clients(book'), book')) \/ UNCHANGED vars
  <2>1. /\ pc = "idle" /\ pc' = pc /\ book' = CancelIn(book, id)
        /\ next' = next /\ clock' = clock
    BY <1>6 DEF Cancel
  <2>2. CASE id \notin DOMAIN book.lookup
    BY <2>1, <2>2 DEF CancelIn, vars
  <2>3. CASE id \in DOMAIN book.lookup
    <3>1. /\ Clients(book') = [i \in DOMAIN Clients(book) \ {id} |-> Clients(book)[i]]
          /\ Tallied(Clients(book'), book')
      BY <1>1, <2>1, <2>3, CancelMirrored
    <3>2. ClientOrders' = [i \in DOMAIN ClientOrders \ {id} |-> ClientOrders[i]]
      BY <1>3, <3>1, Zenon
    <3>3. Exch!Cancel(id)
      BY <1>3, <2>1, <2>3, <3>2 DEF Exch!Cancel, Exch!Restrict
    <3> QED
      BY <3>1, <3>3
  <2> QED
    BY <2>2, <2>3
<1>7. ASSUME NEW id \in Ids, NEW x \in Prices, NEW q \in Quantities, Amend(id, x, q)
      PROVE  (Moves /\ Tallied(Clients(book'), book')) \/ UNCHANGED vars
  <2>1. \/ UNCHANGED vars
        \/ /\ pc = "idle" /\ pc' = pc /\ id \in DOMAIN book.lookup
           /\ book' = ResizeIn(book, id, q)
    BY <1>7 DEF Amend, AmendPrice, AmendQuantity
  <2>2. CASE /\ pc = "idle" /\ pc' = pc /\ id \in DOMAIN book.lookup
             /\ book' = ResizeIn(book, id, q)
    <3>1. q \in 0 .. Wrap - 1
      BY QuantitiesAssumption
    <3>2. /\ Clients(book') = [Clients(book) EXCEPT ![id].quantity = q]
          /\ Tallied(Clients(book'), book')
      BY <1>1, <2>2, <3>1, ResizeMirrored
    <3>3. ClientOrders' = [ClientOrders EXCEPT ![id].quantity = q]
      BY <1>3, <3>2, Zenon
    <3>4. Exch!Resize(id, q)
      BY <1>3, <2>2, <3>3 DEF Exch!Resize
    <3> QED
      BY <3>2, <3>4
  <2> QED
    BY <2>1, <2>2
<1>8. ASSUME MatchOrders
      PROVE  Moves /\ Tallied(Clients(book'), book')
  <2>1. CASE Crossed(book)
    BY <1>8, <2>1, TradeSimulates
  <2>2. CASE ~Crossed(book)
    <3>1. pc = "matching" /\ pc' = "idle" /\ book' = book
      BY <1>8, <2>2 DEF MatchOrders
    <3>2. Apart(book)
      BY <1>1, <2>2, NotCrossedApart
    <3>3. Mirrors(ClientOrders, book, next)
      BY <1>1, <1>3, ClientsMirror
    <3>4. ASSUME NEW b \in Exch!First("buy"), NEW a \in Exch!First("sell")
          PROVE  ~Exch!Crossing(b, a)
      <4>1. /\ ClientOrders[b].price \in DOMAIN book.levels["buy"]
            /\ ClientOrders[a].price \in DOMAIN book.levels["sell"]
        BY <3>3 DEF Exch!First, Mirrors
      <4>2. ClientOrders[b].price < ClientOrders[a].price
        BY <3>2, <4>1 DEF Apart
      <4>3. ClientOrders[b].price \in Nat /\ ClientOrders[a].price \in Nat
        BY <1>1, <4>1 DEF BookOK, LevelsOK, Prices
      <4> QED
        BY <4>2, <4>3 DEF Exch!Crossing
    <3>5. Exch!Settle
      BY <1>3, <3>1, <3>4 DEF Exch!Settle
    <3> QED
      BY <1>1, <3>1, <3>5
  <2> QED
    BY <2>1, <2>2
<1>9. ASSUME Destroy
      PROVE  Moves /\ Tallied(Clients(book'), book')
  <2>1. /\ pc = "idle" /\ pc' = "destroyed"
        /\ book'.lookup = [i \in {} |-> 0]
        /\ book'.levels = [s \in Side |-> [x \in {} |-> 0]]
    BY <1>9 DEF Destroy, EmptyBook
  <2>2. Clients(book') = [id \in {} |-> 0] /\ Tallied(Clients(book'), book')
    BY <2>1 DEF Clients, Tallied
  <2>3. Exch!Close
    BY <1>3, <2>1, <2>2, Zenon DEF Exch!Close
  <2> QED
    BY <2>2, <2>3
<1>10. CASE UNCHANGED vars
  <2>1. book' = book /\ pc' = pc
    BY <1>10 DEF vars
  <2>2. ClientOrders' = ClientOrders /\ ClientDepth' = ClientDepth
    BY <2>1 DEF ClientOrders, ClientDepth
  <2>3. Tallied(Clients(book'), book')
    BY <1>1, <2>1
  <2> QED
    BY <1>2, <2>1, <2>2, <2>3 DEF ViewOK, Exch!vars
<1>11. CASE Moves /\ Tallied(Clients(book'), book')
  <2>1. ClientDepth' = Exch!Published(Clients(book'))
    <3>1. ClientDepth' = [s \in Side |-> [x \in DOMAIN book'.levels[s] |-> book'.levels[s][x].total]]
      BY DEF ClientDepth
    <3> QED
      BY <1>2, <1>11, <3>1, ViewDepth, Zenon
  <2>2. ClientDepth' = Exch!Published(ClientOrders')
    BY <1>3, <2>1, Zenon
  <2>3. Exch!Next
    BY <1>11, <2>2, Zenon DEF Exch!Next
  <2> QED
    BY <1>2, <1>11, <2>3 DEF ViewOK
<1> HIDE DEF Moves
<1> QED
  BY <1>5, <1>6, <1>7, <1>8, <1>9, <1>10, <1>11 DEF Next

\* As long as no price is amended, the book is the exchange it should be: each
\* call and each iteration of the loop does to the clients' orders and to the
\* published depth what the exchange does, or nothing.
THEOREM BookIsExchange == ~PriceAmends => (Spec => ImplementsExchange)
<1> SUFFICES ASSUME ~PriceAmends PROVE Spec => ImplementsExchange
  OBVIOUS
<1>1. Init => ViewOK /\ Exch!Init
  BY InitView
<1>2. IInv /\ ViewOK /\ [Next]_vars => ViewOK' /\ [Exch!Next]_(Exch!vars)
  BY StepSimulates
<1> QED
  BY <1>1, <1>2, Invariance, PTL DEF Spec, ImplementsExchange, Exch!Spec

-----------------------------------------------------------------------------
(* Snapshots.                                                              *)

\* How many prices of P are better than x.
Ahead(s, P, x) == {y \in P : Better(s, y, x)}

\* Counting better prices tells prices apart, and every count is some price's.
LEMMA Ranked ==
  ASSUME NEW s \in Side, NEW P \in SUBSET Int, IsFiniteSet(P)
  PROVE  /\ \A x, y \in P : Cardinality(Ahead(s, P, x)) < Cardinality(Ahead(s, P, y))
                              => Better(s, x, y)
         /\ \A x, y \in P : Cardinality(Ahead(s, P, x)) = Cardinality(Ahead(s, P, y))
                              => x = y
         /\ \A x \in P : Cardinality(Ahead(s, P, x)) \in 0 .. Cardinality(P) - 1
         /\ Cardinality(P) \in Nat
         /\ \A i \in 1 .. Cardinality(P) : \E x \in P : Cardinality(Ahead(s, P, x)) = i - 1
<1> DEFINE n == Cardinality(P)
           rank == [x \in P |-> Cardinality(Ahead(s, P, x))]
<1>1. \A x \in P : /\ Ahead(s, P, x) \in SUBSET P
                   /\ IsFiniteSet(Ahead(s, P, x))
                   /\ Cardinality(Ahead(s, P, x)) \in Nat
  <2>1. \A x \in P : Ahead(s, P, x) \in SUBSET P
    BY DEF Ahead
  <2> QED
    BY <2>1, FS_Subset, FS_CardinalityType
<1>2. n \in Nat
  BY FS_CardinalityType
<1>3. ASSUME NEW x \in P, NEW y \in P, Better(s, x, y)
      PROVE  Cardinality(Ahead(s, P, x)) < Cardinality(Ahead(s, P, y))
  <2>1. Ahead(s, P, x) \in SUBSET Ahead(s, P, y)
    <3>1. \A z \in P : z \in Int /\ x \in Int /\ y \in Int
      OBVIOUS
    <3>2. \A z \in P : Better(s, z, x) => Better(s, z, y)
      BY <1>3, <3>1 DEF Better
    <3> QED
      BY <3>2 DEF Ahead
  <2>2. x \in Ahead(s, P, y) /\ x \notin Ahead(s, P, x)
    BY <1>3 DEF Ahead, Better
  <2>3. /\ Cardinality(Ahead(s, P, x)) <= Cardinality(Ahead(s, P, y))
        /\ Cardinality(Ahead(s, P, y)) = Cardinality(Ahead(s, P, x))
             => Ahead(s, P, y) = Ahead(s, P, x)
    BY <1>1, <2>1, FS_Subset
  <2>4. Cardinality(Ahead(s, P, y)) # Cardinality(Ahead(s, P, x))
    BY <2>2, <2>3
  <2> QED
    BY <1>1, <2>3, <2>4
<1>4. \A x, y \in P : x = y \/ Better(s, x, y) \/ Better(s, y, x)
  BY DEF Better
<1>5. \A x \in P : Cardinality(Ahead(s, P, x)) < n
  <2> SUFFICES ASSUME NEW x \in P PROVE Cardinality(Ahead(s, P, x)) < n
    OBVIOUS
  <2>1. x \notin Ahead(s, P, x)
    BY DEF Ahead, Better
  <2>2. /\ Cardinality(Ahead(s, P, x)) <= n
        /\ n = Cardinality(Ahead(s, P, x)) => P = Ahead(s, P, x)
    BY <1>1, FS_Subset
  <2> QED
    BY <1>1, <1>2, <2>1, <2>2
<1>6. rank \in Injection(P, 0 .. n - 1)
  <2>1. rank \in [P -> 0 .. n - 1]
    BY <1>1, <1>2, <1>5
  <2>2. ASSUME NEW x \in P, NEW y \in P, rank[x] = rank[y]
        PROVE  x = y
    <3>1. rank[x] = Cardinality(Ahead(s, P, x)) /\ rank[y] = Cardinality(Ahead(s, P, y))
      OBVIOUS
    <3> QED
      BY <1>1, <1>3, <1>4, <2>2, <3>1
  <2> HIDE DEF rank
  <2> QED
    BY <2>1, <2>2 DEF Injection, IsInjective
<1>7. IsFiniteSet(0 .. n - 1) /\ Cardinality(0 .. n - 1) = n
  <2>1. 0 \in Int /\ n - 1 \in Int /\ (n - 1) - 0 + 1 = n /\ (0 > n - 1 => n = 0)
    BY <1>2
  <2> QED
    BY <2>1, FS_Interval
<1>8. rank \in Surjection(P, 0 .. n - 1)
  <2> HIDE DEF rank
  <2> QED
    BY <1>6, <1>7, FS_Injection
<1>9. ASSUME NEW i \in 1 .. n
      PROVE  \E x \in P : Cardinality(Ahead(s, P, x)) = i - 1
  <2>1. i - 1 \in 0 .. n - 1
    BY <1>2
  <2>2. PICK x \in P : rank[x] = i - 1
    <3> HIDE DEF rank
    <3> QED
      BY <1>8, <2>1 DEF Surjection
  <2> QED
    BY <2>2
<1>10. ASSUME NEW x \in P, NEW y \in P,
              Cardinality(Ahead(s, P, x)) < Cardinality(Ahead(s, P, y))
       PROVE  Better(s, x, y)
  <2>1. ~ (Cardinality(Ahead(s, P, y)) < Cardinality(Ahead(s, P, x)))
        /\ Cardinality(Ahead(s, P, y)) # Cardinality(Ahead(s, P, x))
    BY <1>1, <1>10
  <2> QED
    BY <1>3, <1>4, <2>1
<1>11. ASSUME NEW x \in P, NEW y \in P,
              Cardinality(Ahead(s, P, x)) = Cardinality(Ahead(s, P, y))
       PROVE  x = y
  BY <1>1, <1>3, <1>4, <1>11
<1>12. \A x \in P : Cardinality(Ahead(s, P, x)) \in 0 .. n - 1
  BY <1>1, <1>2, <1>5
<1> QED
  BY <1>2, <1>9, <1>10, <1>11, <1>12

\* The prices of a side in the order of the map, all of them.
LEMMA SortedPricesSorted ==
  ASSUME NEW b, NEW n, BookOK(b, n), NEW s \in Side
  PROVE  LET prices == SortedPrices(b, s)
             P      == DOMAIN b.levels[s]
         IN  /\ Cardinality(P) \in Nat
             /\ prices \in [1 .. Cardinality(P) -> P]
             /\ Len(prices) = Cardinality(P)
             /\ \A i, j \in 1 .. Cardinality(P) : i < j => Better(s, prices[i], prices[j])
             /\ \A x \in P : \E i \in 1 .. Cardinality(P) : prices[i] = x
<1> DEFINE prices == SortedPrices(b, s)
           P      == DOMAIN b.levels[s]
           m      == Cardinality(P)
<1>1. P \in SUBSET Int /\ IsFiniteSet(P)
  <2>1. IsFiniteSet(Prices)
    BY FS_Interval, MaxPriceAssumption DEF Prices
  <2>2. P \in SUBSET Prices
    BY DEF BookOK, LevelsOK
  <2>3. Prices \subseteq Int
    BY DEF Prices
  <2> HIDE DEF P
  <2> QED
    BY <2>1, <2>2, <2>3, FS_Subset
<1>2. /\ \A x, y \in P : Cardinality(Ahead(s, P, x)) < Cardinality(Ahead(s, P, y))
                           => Better(s, x, y)
      /\ \A x, y \in P : Cardinality(Ahead(s, P, x)) = Cardinality(Ahead(s, P, y)) => x = y
      /\ \A x \in P : Cardinality(Ahead(s, P, x)) \in 0 .. m - 1
      /\ m \in Nat
      /\ \A i \in 1 .. m : \E x \in P : Cardinality(Ahead(s, P, x)) = i - 1
  <2> HIDE DEF P
  <2> QED
    BY <1>1, Ranked
<1>3. prices = [i \in 1 .. m |-> CHOOSE x \in P : Cardinality(Ahead(s, P, x)) = i - 1]
  BY Zenon DEF SortedPrices, Ahead
<1> HIDE DEF prices, P, m
<1>4. \A i \in 1 .. m : prices[i] \in P /\ Cardinality(Ahead(s, P, prices[i])) = i - 1
  BY <1>2, <1>3
<1>5. prices \in [1 .. m -> P] /\ prices \in Seq(P) /\ Len(prices) = m
  <2>1. prices \in [1 .. m -> P]
    BY <1>3, <1>4
  <2> QED
    BY <1>2, <2>1
<1>6. ASSUME NEW i \in 1 .. m, NEW j \in 1 .. m, i < j
      PROVE  Better(s, prices[i], prices[j])
  <2>1. /\ prices[i] \in P /\ prices[j] \in P
        /\ Cardinality(Ahead(s, P, prices[i])) < Cardinality(Ahead(s, P, prices[j]))
    BY <1>4, <1>6
  <2> QED
    BY <1>2, <2>1
<1>7. ASSUME NEW x \in P
      PROVE  \E i \in 1 .. m : prices[i] = x
  <2> DEFINE i == Cardinality(Ahead(s, P, x)) + 1
  <2>1. i \in 1 .. m /\ Cardinality(Ahead(s, P, x)) = i - 1
    BY <1>2
  <2>2. prices[i] \in P /\ Cardinality(Ahead(s, P, prices[i])) = i - 1
    BY <1>4, <2>1
  <2> QED
    BY <1>2, <2>1, <2>2
<1> QED
  BY <1>2, <1>5, <1>6, <1>7 DEF prices, P, m

\* A side of a snapshot: its first prices, best first, with their totals, and
\* no price that is left out is better.
LEMMA LevelsShow ==
  ASSUME NEW b, NEW n, BookOK(b, n), NEW s \in Side, NEW depth \in Nat
  PROVE  LET levels == Levels(b, s, depth)
             P      == DOMAIN b.levels[s]
         IN  /\ Len(levels) = Min({depth, Cardinality(P)})
             /\ \A i \in 1 .. Len(levels) :
                  /\ levels[i].price \in P
                  /\ levels[i].total_quantity = b.levels[s][levels[i].price].total
             /\ \A i, j \in 1 .. Len(levels) :
                  i < j => Better(s, levels[i].price, levels[j].price)
             /\ levels # <<>> => 1 \in 1 .. Len(levels)
             /\ \A x \in P : \/ \E i \in 1 .. Len(levels) : levels[i].price = x
                             \/ \A i \in 1 .. Len(levels) : Better(s, levels[i].price, x)
<1> DEFINE levels == Levels(b, s, depth)
           prices == SortedPrices(b, s)
           P      == DOMAIN b.levels[s]
           m      == Cardinality(P)
           k      == Min({depth, m})
<1>1. /\ m \in Nat /\ prices \in [1 .. m -> P] /\ Len(prices) = m
      /\ \A i, j \in 1 .. m : i < j => Better(s, prices[i], prices[j])
      /\ \A x \in P : \E i \in 1 .. m : prices[i] = x
  BY SortedPricesSorted
<1>2. k \in Nat /\ k <= m
  <2> HIDE DEF m
  <2>1. {depth, m} \in SUBSET Nat /\ {depth, m} # {}
    BY <1>1
  <2> DEFINE S == {depth, m}
  <2>2. Min(S) \in S /\ \A y \in S : Min(S) <= y
    <3> HIDE DEF S
    <3> QED
      BY <2>1, MinOfNat DEF S
  <2> QED
    BY <2>1, <2>2
<1>3. levels = [i \in 1 .. k |-> PriceLevel(b, s, prices[i])]
  <2>1. levels = [i \in 1 .. Min({depth, Len(prices)}) |-> PriceLevel(b, s, prices[i])]
    BY DEF Levels
  <2> HIDE DEF levels, prices, P
  <2> QED
    BY <1>1, <2>1, Zenon
<1> HIDE DEF levels, prices, P, m, k
<1>4. Len(levels) = k
  BY <1>2, <1>3
<1>5. \A i \in 1 .. k : /\ i \in 1 .. m
                        /\ levels[i].price = prices[i]
                        /\ levels[i].total_quantity = b.levels[s][prices[i]].total
  BY <1>1, <1>2, <1>3 DEF PriceLevel
<1>6. \A i \in 1 .. k : prices[i] \in P
  BY <1>1, <1>5
<1>7. \A i, j \in 1 .. k : i < j => Better(s, levels[i].price, levels[j].price)
  BY <1>1, <1>5
<1>8. levels # <<>> => 1 \in 1 .. k
  <2>1. CASE k = 0
    <3>1. 1 .. k = {}
      BY <2>1
    <3>2. levels \in [1 .. 0 -> {}] /\ Len(levels) = 0
      BY <1>3, <1>4, <2>1, <3>1
    <3>3. levels \in Seq({})
      BY <3>2
    <3> QED
      BY <3>2, <3>3
  <2>2. CASE k # 0
    BY <1>2, <2>2
  <2> QED
    BY <2>1, <2>2
<1>9. ASSUME NEW x \in P
      PROVE  \/ \E i \in 1 .. k : levels[i].price = x
             \/ \A i \in 1 .. k : Better(s, levels[i].price, x)
  <2>1. PICK j \in 1 .. m : prices[j] = x
    BY <1>1
  <2>2. CASE j <= k
    BY <1>1, <1>2, <1>5, <2>1, <2>2
  <2>3. CASE k < j
    <3>1. \A i \in 1 .. k : i \in 1 .. m /\ i < j
      BY <1>1, <1>2, <2>3
    <3> QED
      BY <1>1, <1>5, <2>1, <3>1
  <2> QED
    BY <1>1, <1>2, <2>2, <2>3
<1> QED
  BY <1>4, <1>5, <1>6, <1>7, <1>8, <1>9, Zenon DEF levels, P, m, k

\* Snapshots show clients what they own, as long as no price is amended.
THEOREM SnapshotsExact == ~PriceAmends => (Spec => []SnapshotExact)
<1> SUFFICES ASSUME ~PriceAmends PROVE Spec => []SnapshotExact
  OBVIOUS
<1>1. Init => ViewOK
  BY InitView
<1>2. IInv /\ ViewOK /\ [Next]_vars => ViewOK'
  BY StepSimulates
<1>3. IInv /\ ViewOK /\ Uncrossed => SnapshotExact
  <2> SUFFICES ASSUME IInv, ViewOK, Uncrossed, NEW depth \in 0 .. MaxPrice + 1
               PROVE  LET snap == Snapshot(book, depth)
                      IN  /\ ShowsBest("buy", depth, snap.bids)
                          /\ ShowsBest("sell", depth, snap.asks)
                          /\ (pc = "idle" /\ snap.bids # <<>> /\ snap.asks # <<>>)
                                => snap.bids[1].price < snap.asks[1].price
    BY DEF SnapshotExact
  <2> DEFINE snap == Snapshot(book, depth)
  <2>1. BookOK(book, next) /\ next \in Nat \ {0} /\ depth \in Nat
    BY MaxOrdersAssumption, MaxPriceAssumption DEF IInv
  <2>2. snap.bids = Levels(book, "buy", depth) /\ snap.asks = Levels(book, "sell", depth)
    BY DEF Snapshot
  <2>3. ClientOrders = Clients(book)
    BY DEF ClientOrders, Clients
  <2>4. Mirrors(ClientOrders, book, next)
    BY <2>1, <2>3, ClientsMirror, Zenon DEF ViewOK
  <2>5. [s \in Side |-> [x \in DOMAIN book.levels[s] |-> book.levels[s][x].total]]
          = Exch!Published(ClientOrders)
    BY <2>1, <2>3, ViewDepth, Zenon DEF ViewOK
  <2>6. ASSUME NEW s \in Side
        PROVE  OpenPrices(s) = DOMAIN book.levels[s]
    <3>1. LevelsOK(book)
      BY <2>1 DEF BookOK
    <3> QED
      BY <2>4, <3>1, PricesOpen DEF OpenPrices
  <2>7. ASSUME NEW s \in Side
        PROVE  ShowsBest(s, depth, Levels(book, s, depth))
    <3> DEFINE levels == Levels(book, s, depth)
               shown  == {levels[i].price : i \in 1 .. Len(levels)}
    <3>1. /\ Len(levels) = Min({depth, Cardinality(DOMAIN book.levels[s])})
          /\ \A i \in 1 .. Len(levels) :
               /\ levels[i].price \in DOMAIN book.levels[s]
               /\ levels[i].total_quantity = book.levels[s][levels[i].price].total
          /\ \A i, j \in 1 .. Len(levels) :
               i < j => Better(s, levels[i].price, levels[j].price)
          /\ levels # <<>> => 1 \in 1 .. Len(levels)
          /\ \A x \in DOMAIN book.levels[s] :
               \/ \E i \in 1 .. Len(levels) : levels[i].price = x
               \/ \A i \in 1 .. Len(levels) : Better(s, levels[i].price, x)
      BY <2>1, LevelsShow
    <3>2. \A x \in DOMAIN book.levels[s] :
            Exch!Published(ClientOrders)[s][x] = book.levels[s][x].total
      <4> DEFINE published == Exch!Published(ClientOrders)
      <4> HIDE DEF published
      <4>1. published = [z \in Side |-> [x \in DOMAIN book.levels[z] |-> book.levels[z][x].total]]
        BY <2>5 DEF published
      <4>2. \A x \in DOMAIN book.levels[s] : published[s][x] = book.levels[s][x].total
        BY <4>1
      <4> QED
        BY <4>2 DEF published
    <3> HIDE DEF levels
    <3>3. \A i \in 1 .. Len(levels) :
            levels[i].total_quantity = Exch!Published(ClientOrders)[s][levels[i].price]
      BY <3>1, <3>2
    <3>4. shown \subseteq OpenPrices(s)
      BY <2>6, <3>1
    <3>5. \A x \in OpenPrices(s) \ shown, y \in shown : Better(s, y, x)
      BY <2>6, <3>1
    <3> QED
      BY <2>6, <3>1, <3>3, <3>4, <3>5, Zenon DEF levels, ShowsBest
  <2>8. ASSUME pc = "idle", snap.bids # <<>>, snap.asks # <<>>
         PROVE  snap.bids[1].price < snap.asks[1].price
    <3> HIDE DEF snap
    <3>1. \A s \in Side : Levels(book, s, depth) # <<>> =>
            Levels(book, s, depth)[1].price \in DOMAIN book.levels[s]
      <4> SUFFICES ASSUME NEW s \in Side, Levels(book, s, depth) # <<>>
                   PROVE  Levels(book, s, depth)[1].price \in DOMAIN book.levels[s]
        OBVIOUS
      <4>1. 1 \in 1 .. Len(Levels(book, s, depth))
        BY <2>1, LevelsShow
      <4> QED
        BY <2>1, <4>1, LevelsShow
    <3>2. /\ snap.bids[1].price \in DOMAIN book.levels["buy"]
          /\ snap.asks[1].price \in DOMAIN book.levels["sell"]
      BY <2>2, <2>8, <3>1
    <3>3. ASSUME NEW x \in DOMAIN book.levels["buy"], NEW y \in DOMAIN book.levels["sell"]
          PROVE  x < y
      <4>1. PICK p : p \in book.levels["buy"][x].orders
        BY <2>1 DEF BookOK, LevelsOK
      <4>2. PICK r : r \in book.levels["sell"][y].orders
        BY <2>1 DEF BookOK, LevelsOK
      <4>3. book.heap[p].price = x /\ book.heap[r].price = y
        BY <2>1, <4>1, <4>2 DEF BookOK, PlacedOK
      <4>4. p \in OnSide(book, "buy") /\ r \in OnSide(book, "sell")
        BY <4>1, <4>2 DEF OnSide
      <4> QED
        BY <2>8, <4>3, <4>4 DEF Uncrossed
    <3> QED
      BY <3>2, <3>3
  <2> QED
    BY <2>2, <2>7, <2>8, Zenon
<1> QED
  BY <1>1, <1>2, <1>3, Invariance, NeverCrossed, PTL DEF Spec
=============================================================================
