# Verification of the repository's programs

TLA+ specifications of this repository's own programs (an order book, lock-free
queues, a shared-memory ring, a lock-free list, an echo server, a market data
feed and a few smaller ones), TLC configurations that model-check them on small
instances, and TLAPS proofs of what matters most.

    tlc -workers 2 -config OrderBook.cfg MCOrderBook     # any run of section 3
    tlapm OrderBookProofs.tla                            # the proofs

## 1. Inventory

The repository is a set of independent programs. Each part below lists its
state, its operations, who calls whom, what is hard, and what makes it correct.

**Order book** (`orderbooks/order_book.{h,cpp}`). State: `bids_` and `asks_`
(price to `Limit`: a list of `Order*` and a running `total_quantity`),
`order_lookup_` (id to `Order*`), and the heap of `Order`s. Operations:
`add_order` (which ends in `match_orders`), `cancel_order`, `amend_order` (in
place for a quantity; erase, `cancel_order`, `add_order` for a price),
`get_snapshot`/`print_book`, the destructor. One thread. Hard: three structures
that refer to one another by raw pointers and must change together in every
branch; totals kept incrementally in unsigned arithmetic; the order of the
calls inside `amend_order`; zero quantities; equal timestamps. Correct when no
pointer dangles, no list is empty, lookup and lists agree, totals are sums,
trades respect price-time priority and both limits, the book is never left
crossed, and the loop ends.

**Order book driver** (`orderbooks/main.cpp`). A fixed script of calls on two
books that share one clock, under titles that say what should happen. Correct
when the matching scenarios end as their titles announce. The titles "Amend
price" it does not fulfil: the old orders stay on the book and are printed.

**SPSC queues** (`SPSC_QUEUES/`). `Fifo3` (`spsc_q3.cpp`): a ring of raw storage
and two atomic cursors that only grow; `push` in one thread, `pop` in another,
`size`/`empty`/`full` in either. Hard: the memory orders, decisions on old
values of the other cursor, wrap-around, object lifetimes, throwing copies, the
cursors' missing initializers. Correct when it is free of data races, constructs
and destroys each object once, and is a bounded first-in first-out queue.
`Fifo2` (`spsc_q2.cpp`) has sequentially consistent cursors, without
initializers too, and decides on `size()`, which loads each of them twice, the
first time for an assertion that a wrap-around breaks. `Fifo1` (`spsc_q1.cpp`)
has plain cursors and says "Non-threadsafe".

**Shared-memory ring** (`SHM_MMAP/`). `SHM.h`: a ring with indices kept modulo
`CAPACITY` and one element left free, in a shared object that two processes
map. `Producer` creates and sizes it (its push is commented out), `Consumer`
opens it and pops a million values; `benchmark_consumer.cpp` measures that.
Hard: two processes, start-up order, a kill between any two steps, restart on a
ring that is never unlinked and whose constructor is never run. Correct when
values arrive once and in order over any restarts, and `run()` returns.

**Lock-free list** (`lockFreeWaitFree/linkedListInsertion.cpp`). `head` and the
nodes' `next`; `insert` is a compare-and-swap loop run by several threads,
`print` walks the list. Correct when no insert is lost, the list has no cycle,
a failed exchange means that somebody else got on, and a walk sees the list as
it was when it began.

**TCP echo server** (`boost_TCP/main.cpp`). `Server` accepts for ever, `Session`
alternates an asynchronous read and a write of one buffer and lives as long as
a handler holds a shared pointer to it. Hard: pieces of any size, clients that
do not read or leave at any time, accepts that fail. Correct when the bytes come
back once and in order, nobody stalls anybody else, and sessions end.

**Market data feed** (`L1/mocks/`). A server sends 20-byte records on a stream
to the one client it accepts; the Java reader reads 20 bytes fully; the C++
reader reads `sizeof(MarketData)`, which is 24, and ignores the result. Correct
when a reader's k-th frame is the k-th record, and everybody ends.

**Arena allocators** (`L5/memory_allocator.cpp`, of which `memory_with_new.cpp`
and `padding.cpp` hold copies; `L4/memory_allocator.cpp`). A buffer and an
offset. Correct when the blocks lie in the buffer, share no byte and waste none.

**UniquePtr** (`L8/unqiePtr.cpp`). One owned pointer; construction, move,
`release`, `reset`, destruction. Hard: owners inside owned objects, sequences
of moves. Correct when every object has one owner and is deleted once.

**File descriptors exercise** (`file_descriptors/main.cpp`). Writers put words
into a file from its start on, readers poll it, each at an offset of its own.
Correct when readers print whole words, whoever is restarted.

**The rest**: the compile-time arithmetic of `L9`, the single-file lessons of
`L1`-`L10` and `CMake_Learning`, generated `build` trees; see section 10.

The programs do not call each other. Inside them, components interact by calls
(driver to book), shared memory (queue threads, ring processes, list threads),
a byte stream (server and readers, clients and sessions) and a file. The
hazards this code is exposed to, each at its line, are in `PROJECT.json`.

## 2. Modules and plan

| step | modules | what |
|---|---|---|
| done | `OrderBook`, `OrderBookView`, `Exchange`, `MCOrderBook`, `OrderBookDriver` | the order book, its snapshot, the exchange it implements, the test script that drives it |
| done | `Fifo3`, `BoundedFifo` | the lock-free queue under the C++ memory model |
| done | `Fifo2`, `Fifo1` | the two simpler queues; `Fifo2` implements `Fifo1`, that `BoundedFifo` |
| done | `ShmRing` | the ring and its two processes, kills and restarts; implements `BoundedFifo` |
| done | `LockFreeList`, `PrependList`, `MCLockFreeList` | concurrent inserts and a concurrent walk; implements an atomic prepend |
| done | `EchoServer`, `MarketFeed` | the two programs on TCP |
| done | `Arena`, `UniquePtr`, `FileTail`, `MCPrograms` | the smaller programs |
| done | `NaturalFacts` | remainders of a division, and induction over a set of numbers: lemmas that several proofs need |
| done | `OrderBookProofs` | the inductive invariant of the book; priority, limits, the price of a trade, and what holds without price amends |
| done | `Fifo3Proofs`, `ShmRingProofs` | both rings, for every capacity: no data race, sizes, refinement of `BoundedFifo` |
| done | `LockFreeListProofs` | any number of threads: snapshot, lock-freedom, refinement of `PrependList` |
| done | `EchoServerProofs` | any number of clients, any sizes: order and completeness of the echo |
| done | `MarketFeedProofs` | any number of records, any cut of the stream: whole frames |
| done | `ProgramsProofs` | the programs of `MCPrograms`: `Arena`, `Fifo2` with `Fifo1`, `FileTail`, `UniquePtr` |
| done | `OrderBookProofs`, third part | `OrderBookView`: refinement of `Exchange`, and snapshots |

One abstract queue, `BoundedFifo`, is what four implementations are shown to
refine, each with the mapping its own code calls for: `Fifo3` by the values of
completed calls, `ShmRing` with `Capacity - 1` for the element left free,
`Fifo1` directly, and `Fifo2` by way of `Fifo1`.

`MCPrograms` is the instance of the programs that need little room: a
behaviour of it picks one program (`program`) and runs that one alone, so each
of its properties is about the behaviours of one module. `Arena` is extended,
the others are instantiated.

## 3. Runs

| run | module | instance | shows |
|---|---|---|---|
| `orderbook` | `MCOrderBook` | 3 ids, 3 prices, quantities 1-3, `Wrap` 4, 5 objects, no price amends | lookup and lists name the same orders, nothing leaks, trades are at the resting price, snapshots show the best prices and exact quantities modulo 2^64, refinement of `Exchange` |
| `orderbook_amends` | `MCOrderBook` | 3 ids, 2 prices, quantities 0-2, 4 objects, a clock that may stand still, price amends | pointers, lists and entries stay sound, priority and limits are respected, the book is not left crossed, the loop ends |
| `orderbook_ghost` | `MCOrderBook` | 2 ids, 3 objects, price amends | **violated** `UniqueIds`: one id, two resting orders |
| `fifo3` | `Fifo3` | 3 slots, cursors modulo 6, 8 pushes, copies may throw | no race, each object constructed and destroyed once, bounds of `size`, refinement of `BoundedFifo`, everything pushed is popped |
| `fifo3_uninitialized` | `Fifo3` | cursors of any initial value | **violated** `LifetimesRespected`: pop on a new queue reads an object never pushed |
| `shm_ring` | `ShmRing` | arr of 3, 5 pushes, 2 kills, runs of 2 messages | no race, `size` sound, refinement of `BoundedFifo` over restarts, `run()` returns |
| `shm_no_push` | `ShmRing` | the push commented out, as in the source | **violated** `RunEnds` |
| `lock_free_list` | `MCLockFreeList` | 3 threads, 2 inserts each, print at any time | refinement of `PrependList`, lock-freedom, print shows a snapshot |
| `echo_server` | `EchoServer` | 2 clients (one reads, one need not), 4 bytes each, `data_` and socket buffers of 2 | every byte once and in order, complete ends, nobody stalls others, sessions end |
| `market_feed` | `MarketFeed` | 2 readers (one is never accepted), 5 records, any cut of the stream, a kill | the k-th frame is the k-th record, everybody ends |
| `market_feed_cpp` | `MarketFeed` | the C++ reader, a buffer of 6 units | **violated** `FullReadsWhole`: two reads that each fill the buffer, and the second begins inside the second record |
| `programs` | `MCPrograms` | arena of 10 bytes and 6 request sizes; 3 pointers and 3 list nodes; 2 writers and 2 readers, words of 3, reads of 2, 2 kills; `Fifo2` with 2 slots, cursors modulo 4, 6 pushes, assertions on or off; the whole script | blocks tile the buffer, one owner, whole words, `Fifo2` safe in two threads, equal to `Fifo1` in one, and not ended by its assertion before a wrap-around, the script's matching scenarios end as titled and its price amends leave the old orders |

No run looks for deadlock: every one of these systems may stop (a destructor
has run, the bound on pushes or bytes is used up, a process is not restarted).
Symmetry is used for ids and threads, and only in runs without liveness.

## 4. The order book

### `OrderBook`

`book` is a record of `heap`, `levels` (both maps) and `lookup`; `pc` says
whether a call is inside `match_orders`; `next` numbers the `Order` objects and
`clock` is the last time read. Objects are numbered as they are allocated and
an object is pushed on a list right after its allocation, so a list is the set
of its objects in numeric order and `front` is the minimum.

| code | definition |
|---|---|
| `add_order` | `Add`, with `AddIn` for what precedes `match_orders` |
| `cancel_order` | `Cancel`, `CancelIn` (`RemoveIf`, `Delete`, `KeepUnlessEmpty`) |
| `amend_order` | `Amend`: `AmendPrice`/`RepriceIn` = `AddIn` after `CancelIn` after erasing the entry, as in lines 93-95; `AmendQuantity`/`ResizeIn` |
| `match_orders` | `MatchOrders`, one step per iteration: `Crossed`, `TradeIn` |
| `get_snapshot`, `print_book` | `Snapshot`, `Levels` (module `OrderBookView`) |
| `~OrderBook` | `Destroy` |
| `main`, `test_matching` | `OrderBookDriver`: `CallMain`, `EnterTestMatching`, `CallMatching`, `LeaveTestMatching`, `LeaveMain` |

Prices are ranks, for the code only compares them; quantities and totals are
numbers modulo `Wrap` (2^64 in the code). Requests are made when no other is
running: the class has no lock and its tests have one thread. Timestamps are
taken from a clock that may stand still (`Ticks`) but not go back.
`MaxOrders` bounds the number of objects ever allocated.

Bounds: three ids and four or five objects give two orders on one list with a
third that trades against both, partial fills, reuse of an id after a fill or a
cancel, and an order amended twice back to its old price. `Wrap` of 4 makes
totals wrap.

### `Exchange` and `OrderBookView`

`Exchange` is what a client is promised: a set of open orders known by their
ids, price-time priority, a published depth that is the sum of what is open,
and amends that move an order. `OrderBookView` maps the book to it (the order a
client knows is the object the lookup names) and states the refinement. It
holds as long as no price is amended; with price amends it does not, see the
finding below. The run `orderbook` therefore has `PriceAmends = FALSE`, and
`orderbook_amends` checks what survives even so.

`OrderBookDriver` extends `OrderBook` for main's book and instantiates it once
more for `test_matching`'s; the clock is common. Its calls are literal, so the
script and its expectations are data. `ScenariosAsLabelled` is about the book of
`test_matching`, which amends nothing. `AmendsLeaveBoth` is about main's: it
counts what rests on the lists after each amend, as `print_book` shows it, beside
what the lookup knows. After the two price amends (main.cpp:39-45) orders 3 and 4
rest under their old prices as well, out of the lookup's reach: what the finding
below says of the class, in the program that demonstrates it.

`SnapshotExact` says of every depth that the prices shown are open ones, that
every open price left out is worse than each of them (`ShowsBest`), that the
quantities are the sums, and that the sides do not cross.

### Findings

`amend_order` erases the lookup entry and then asks `cancel_order` to cancel by
id: nothing is cancelled (the tests print its error), the old order stays on its
level and goes on trading, and the amended copy is added beside it
(`orderbook_ghost`). If it is filled it takes the lookup entry of the amended
order with it, and it is out of reach of the destructor: with
`PriceAmends = TRUE` the run `orderbook` finds `NoLeak` violated after one add,
one amend and the destructor.

### Proofs (`OrderBookProofs`)

Proved for every set of ids and quantities, every number of prices, every
`Wrap`, with price amends, from the named assumptions of `OrderBook`:
`TypeCorrect`, `MemorySafe`, `FrontExists`, `LookupCorrect`,
`PricesWithinLimits`, `NeverCrossed`, `LoopEnds`, `Priority`. Five more need a
premise that the theorem states: `RestingOrderSetsPrice` that the clock advances
between two readings; `LookupComplete`, `DestructorComplete`, `BookIsExchange`
(the refinement of `Exchange`) and `SnapshotsExact` that clients do not amend
prices. Without its premise each is false, and TLC shows it.

The properties are not inductive alone. The invariant `IInv` adds `PlacedOK`:
whatever stands on a list is allocated and of the list's own side and price.
Without it nothing says that an order which a cancel or a fill deletes is not on
a second list. There is one lemma per operation of the class (`AddInOK`,
`CancelInOK`, `ResizeInOK`, `RepriceInOK`, `TradeInOK`), each saying that it
keeps `BookOK`; `StepOK` combines them over `Next`. `MinOfNat` and
`MaxOfPrices` justify `front` and `begin`. `NeverCrossed` adds `Apart` between
calls: it is established when the loop exits (`NotCrossedApart`), and kept
because cancels and changes of quantity add no price. `LoopEnds` rests on
`TradeShrinks`: of the two orders that trade, the smaller one is filled, and no
list gets an order; the orders on the book are a finite set, so the loop ends.

`Priority`, `RestingOrderSetsPrice`, `LookupComplete` and `DestructorComplete`
rest on what an operation does not do. A step adds one object (`Begins`), adds
none and keeps the id, side, price and timestamp of all that stay (`Goes`), or
ends the loop or the book (`Stops`). So objects are allocated in the order of
their timestamps (`TimeOrdered`): the front of a list, its smallest object, is
its oldest order, which is `Priority`. While the loop runs, only the object that
the last request added can cross anything (`OnlyIncomingCrosses`); it is the
newer of any two that trade, so the other one, which rested, sets the price.
Without price amends the lookup names every object (`Covered`): nothing that
rests is out of a client's reach, and the destructor, which deletes what the
lookup names, leaves nothing.

`BookIsExchange` and `SnapshotsExact` add one thing to that, `ViewOK`: every
running total is the sum, modulo `Wrap`, of the quantities that clients have
open on that side at that price (`Tallied`). `OrderBook` never adds up anything;
it adds and subtracts, and a subtraction may wrap around. Each operation takes
one order per side from the sum at its price or adds one, or changes its
quantity, and `TotalMoves` says what that does to the sum; `TotalSame` that the
sums at other prices stay. The sum of `Exchange` is a fold of the library, for
which the prover has no rules: `FoldExists` shows, by induction on the number
of orders, that there is a function that adds them up, `FoldUnique` that
there is one only, so that the fold is it. `StepSimulates` then
goes through the operations: an add is an add, a cancel a cancel, a resize an
amend, an iteration a trade between the two orders that the exchange would
choose (`TradersFirst`), and all else stutters. For snapshots, the i-th price is
defined as the one that i - 1 others are better than; `Ranked` shows that there
is exactly one for each i, so the prices come out sorted, and one that a smaller
depth leaves out is worse than all that are shown.

With this every property that the runs check of the book is a theorem; the
driver's script (`OrderBookDriver`) is model-checked only.

## 5. The queues

### `Fifo3` and `BoundedFifo`

The push thread and the pop thread are interleaved at every access to a cursor
or a slot. Each cursor has one writer, so its stores are totally ordered and
numbered (`pushes`, `pops`). A load of the other thread's cursor may return any
store from the last one that thread saw to the newest: coherence, and no more,
whatever the memory order. A load that acquires what a store released also
learns that everything before that store happened (`popSync`, `pushSync`).
`DataRaceFree` compares, for each access to a slot about to be made, what the
other thread has touched with what is known to have happened. The four memory
orders are definitions, so weakening one is a mutant.

| code | definition |
|---|---|
| `push` | `PushBegin` (both loads, full), `PushConstruct` or `PushThrow`, `PushPublish` |
| `pop` | `PopBegin` (both loads, empty), `PopTake` or `PopThrow`, `PopDestroy`, `PopPublish` |
| `size`, `empty`, `full` | `PushSize`, `PopSize`: a relaxed load that advances what the thread has seen and synchronizes nothing |
| `~Fifo3` | `Destroy`, after both threads are joined |

`BoundedFifo` is the abstract queue; `sent` and `received` are the arguments and
results of completed calls, and a call that returns false is a stutter. (A pop
may return false although something was pushed: the store need not be visible
yet.)

`Capacity` divides `Modulus`: 2^64 is not a multiple of every capacity, but a
cursor that does not wrap around behaves as one that counts modulo a larger
multiple of it. `MaxPushes` bounds the completed pushes: eight through three
slots with cursors modulo 6 use every slot at least twice, wrap both cursors,
and let each thread act on values a whole round old.

Fairness (`FairSpec`, for `Delivered`): a thread does not stop inside `pop`, the
consumer keeps polling, a poll eventually reads the newest store (the
standard's requirement that atomic stores become visible in a reasonable amount
of time), and a copy that may throw does not throw every time (strong fairness
of `PopTake`). Nothing is assumed of the push thread.

Findings. Before C++20 the default-initialized atomics are indeterminate; no
build file fixes the standard for this program (`fifo3_uninitialized`). One more
that has no run: the assertion of `size` (line 38) is false between the
wrap-around of `pushCursor_` and that of `popCursor_`, although the queue is
sound; `SizeBounds` states it for the time before the first wrap-around only,
and `SizeAssertion` as an invariant of `Fifo3.cfg` shows the counterexample.

Proved in `Fifo3Proofs`, for every capacity, width of the cursors that it
divides, set of values and number of pushes, from cursors that start at zero
(`ZeroInitialized`, the premise of each theorem; `fifo3_uninitialized` shows
that it is needed): `TypeCorrect`, `NoDataRace`, `Lifetimes`,
`DestructorCorrect`, `SizesCorrect`, and `Fifo`, the refinement of
`BoundedFifo`. The invariant adds to the type invariant what the properties
leave out: `Known`, what a decision is worth once it is made (a thread that has
found room or an element, in however old a cursor, has the room or the element,
and what made it so has happened before); `RingOK`, what each of the `Capacity`
consecutive positions from `pops` on holds, counted over the whole history
(`Held`); `InOrder`, that what was popped is what was pushed. `CursorSlot` and
`CursorDistance` remove the wrap-around: as the capacity divides the modulus, a
cursor modulo `Modulus` modulo `Capacity` is the position modulo `Capacity`.
`DestructorCorrect` needs that the destructor's loop covers the live positions
and no other (`RemainingSlots`, `LiveSlots`).

`Answers` is about the calls that refuse, of which a refinement of safety says
nothing. A thread decides with the value of the other's cursor that its load
returned, which may be an old one: `push` returns false exactly when its pushes
but the pops it has *seen* are `Capacity`. So a full fifo is always refused, and
one that is not full only if the load was of an old cursor; `pop` likewise.

### `Fifo2` and `Fifo1`

`Fifo2` interleaves its two threads at the loads of the other thread's cursor,
the accesses to slots and the increments: its cursors are sequentially
consistent, and a thread's own is stored by nobody else. `PushAssert` and
`PushCheck` are the two loads that `size()` makes of the other cursor, one for
the assertion and one for the result, with steps of the other thread between
them. Both defects of `Fifo3` are here, too: the cursors have no initializer
(lines 79 and 82; `ZeroInitialized`), and the assertion `popCursor <= pushCursor`
(line 33) is false once `pushCursor_` has wrapped around and `popCursor_` has
not. Here every `push` and `pop` makes it. `assertion` is "off" in a build with
`NDEBUG`; while it is "on", a call begins only where it holds (`Asserted`), and
otherwise the program ends (`Abort`). `ThreadSafe` says that this does not
happen before the first wrap-around; after it, only a build with `NDEBUG`
goes on.

`Fifo1` is the same class used by one thread: `Push`, `Pop` and `Destroy` are
single steps. Its `size()` has the same assertion (`Asserts`); `Fifo2` is related
to `Fifo1` without it (`Asserts <- FALSE`), for the second thread may finish a
call whose assertion it has passed when the first would already fail. A build of
`Fifo2` that aborts is a behaviour of `Fifo1` that stops there.

The refinement mapping `Committed` shows `Fifo1` the slots as the cursors
describe them: an object that `push` has constructed and not yet published is
not there, one that `pop` has destroyed and not yet published is there still.
The run `programs` checks both links of the chain, `Fifo2` to `Fifo1` and on to
`BoundedFifo`. `Fifo1` itself is checked through that mapping, over all
behaviours of `Fifo2`. Two slots, cursors modulo 4 and six pushes wrap both
cursors and fill the ring, and let the assertion fail where it is on. The run
has `ZeroInitialized = TRUE`; that the queue is worth nothing without it is what
`fifo3_uninitialized` shows of the same declarations.

Proved in `ProgramsProofs`, for every capacity and width of the cursors, with
and without assertions, from cursors that start at zero (`ZeroInitialized`, the
premise of each theorem): `SafeInTwoThreads` (`ThreadSafe`) and
`TwoThreadsAsOne` (both links of the chain). The invariant `QueueInv` is that of
`Fifo3` without the views: `Known` says that the other thread can only add to
the room, or the elements, that a `size()` found; `Unwrapped`, that an assertion
which has failed did so after as many pushes as the cursors have values.
`InStep` gives what it rests on: until then the cursors are the numbers of
completed calls, and compare as these do; `AbortOK` is the step that ends the
program. For the refinement, only the increment of a cursor and the destructor
are visible: `InsideStutters` shows that `Committed` does not change in any
other step, `PushRefines`, `PopRefines` and `DestroyRefines` that these are
steps of `Fifo1`. `StepBounded` goes on from there to `BoundedFifo`.
`AnswersInTwoThreads`: as the cursors of this queue are sequentially consistent,
a call refuses if and only if the queue is full (empty) at that load.

A third thread that calls `size()` breaks the assertion of `Fifo2` and of
`Fifo3`: it loads `pushCursor_`, both threads advance, it loads a larger
`popCursor_`. The comments on the cursors give them to the push and the pop
thread, so no such caller is modelled.

## 6. The shared-memory ring

Memory is modelled as in `Fifo3`; `Full`, `Empty` and `Size` compare indices
kept modulo `CAPACITY`.

| code | definition |
|---|---|
| `Producer::Producer` | `ProducerOpen` (`shm_open` creates an object without a size), `ProducerMap` (`ftruncate`, `mmap`); `ProducerNoOpen`: a failed `shm_open` is printed and the constructor goes on with descriptor -1 |
| `Producer::run`, `SHM::push` | `PushBegin`, `PushWrite`, `PushPublish`; off when `PushEnabled` is FALSE, as in the source |
| `Consumer::Consumer` | `ConsumerOpen`: `shm_open` fails without an object, and may fail with one; that is printed and its descriptor mapped |
| `SHM::pop` in `Consumer::run` | `PopBegin`, `PopRead`, `PopPublish`, or `ConsumerFault` when there is nothing to load from; `ProducerFault` is the same of the producer's first push |
| `Consumer::run` returns | `RunReturns`: main ends, the benchmark calls it again |
| a signal | `ProducerKilled`, `ConsumerKilled`, at any step |

A process that starts finds the indices the last one left (`FoundIn`): the
constructor of `SHM` is never called. `ImplementsBoundedFifo` is therefore about
the ring over all restarts: a kill before the store of an index undoes the call,
a kill after it completes it, and nothing is lost, repeated or reordered. An
early consumer faults (that is the code's behaviour, not a violation of a stated
promise) and leaves the ring as it was.

Fairness: whoever runs the example starts the producer again after a kill or a
fault, and its `shm_open` does not fail every time (strong fairness of
`ProducerOpen`); the loops of live processes go on, one that faults included;
the newest store becomes visible. The consumer need not be started. Bounds: five
pushes go round the three elements almost twice, and two kills allow one of each
process or two of either.

Proved in `ShmRingProofs`, for every `CAPACITY` above one with
`2 * CAPACITY <= Wrap`, and any number of pushes, kills and restarts:
`NoDataRace`, `SizesCorrect`, and `Fifo`, the refinement of `BoundedFifo`. The
invariant is that of `Fifo3` with one element left free. It contains no
assumption about the state a process starts in: a kill keeps `Known` and
`RingOK` because they speak of the stored indices alone once no call is under
way, and that is why a successor can rely on them. `FullWhenFull` and
`SizeDistance` are the arithmetic of indices modulo `CAPACITY`. `Answers` says
of FULL and EMPTY what it says of `Fifo3`, with `Capacity - 1` elements for a
full ring, and also for a process that starts on what killed ones have left.

Finding: with its push commented out, the only producer in the repository sends
nothing, so `Consumer::run`, and the benchmark that is to "measure full run()",
never returns (`shm_no_push`).

## 7. The list and the programs on TCP

### `LockFreeList` and `PrependList`

`Allocate`, `Load` (of `head`, with the store to the new node's `next`, which
nobody else can see) and `Exchange` are the steps of `insert`; `PrintBegin`,
`PrintNode` and `PrintEnd` those of `print`, which the model also runs while
others insert. `head` is sequentially consistent. `PrependList` is the promise:
whole nodes appear at the front, each thread's in order. The mapping is the list
that `head` begins. `LockFree` counts: a thread's failed exchanges never exceed
the inserts others have completed, which makes the bound on retries in
`Exchange` one that is never reached. Three threads of two inserts give an
exchange that fails twice in a row, and every order of six nodes.

Proved in `LockFreeListProofs`, for every finite set of threads and number of
inserts: `Snapshot` (`PrintsSnapshot`), `SomeoneProgresses` (`LockFree`),
`Prepends` (`ImplementsPrependList`), and `BoundNotReached`: the bound on failed
exchanges never disables one that fails, so the results are about the loop
without it. The invariant says that the nodes from `head` on are a `Chain` (a
sequence without repetition that ends in `Null`) of nodes that were inserted
(`ListOK`), that what is printed and what is left to print make up the list as
it was when the walk began (`PrintOK`), and that a thread about to fail knows of
an insert that it has not yet counted (`ThreadsOK`). `FromChain` is the bridge to
the recursive function of the model: where there is a chain, `From` is that
chain. `ChainPrepend` and `ChainTail` are what an insert and a step of a walk do
to one. `EveryNode` is what `main` relies on: once every thread has made its
inserts, the list from `head` on is a bijection from the places to the nodes
(`Complete`), and at any time each thread's nodes are in it from its latest to
its earliest (`NewestFirst`).

### `EchoServer`

One `io_context` thread runs one handler at a time, so a completion and its
handler are one step (`ReadDone`, `ReadFails`, `WriteSome`, `WriteFails`,
`Accept`, `AcceptFails`); `Handled` gives the operations that are pending after
it, and with none the Session is destroyed. `AfterRead`, `AfterWrite`,
`AfterError` and `Rearm` are what each handler starts. Asio and TCP are
external: a read completes with at least one byte or an error, `async_write`
after everything or with an error, a direction of a connection holds
`SockBuf` bytes. Clients send, receive, shut down their side or leave at any
time (`Connect`, `Send`, `Receive`, `Leave`).

Fairness: the `io_context` runs every handler that is ready (weak fairness of
`Serve`), descriptors are not short for ever (of `Accept`), and `Polite` clients
keep reading. The other client never has to do anything. Bounds: four bytes
through buffers of two force short reads, partial writes and a full socket.

Proved in `EchoServerProofs`, for every set of clients, every size of `data_`
and of the sockets' buffers, and every number of bytes: `InOrder`
(`EchoesInOrder`) and `EndsAfterEcho` (`EndsComplete`). The invariant is about
one session at a time (`Session`): what a client has sent and not got back is in
`outbox`, then in the part of `data` not yet written, then in `inbox`, in this
order and without a gap (`Sizes`, `Ordered`), and exactly one operation is
pending as long as the session exists (`Pending`), so a read never overwrites
what is still to be written. `NobodyWaitsForNothing` proves what `Echoed` and
`SessionsEnd` rest on besides fairness; section 9 says how.

### `MarketFeed`

The stream is in units of four bytes, so a record is five and the C++ structure,
padded to 24 bytes, six. `SendSome` sends any piece of a record, `Read` takes
any piece; `Complete` and `OnEnd` are the difference between `readFully` and a
single `read` whose result is ignored. The server accepts once (`Accept`), ends
with its first client (`SendFails`), or is interrupted (`Kill`). `PlacesAgree`
relates both ends: what the reader has of a record, what is on its way and what
`sendall` has left are the records it still waits for.

Fairness: each program runs on; the server need not be started. Bounds: five
records through a connection that holds two records and a unit, for every cut.

Proved in `MarketFeedProofs`, for every set of readers, number of records and
capacity of the connection, with the reader that asks for whole records
(`WholeRecords`, the premise; the other reader is the finding below):
`PlacesCorrect` (`PlacesAgree`) and `FramesCorrect` (`FramesWhole`). `Unit(k)` is
the k-th unit of all the server would ever send. The invariant says that the
reader's buffer, the connection and the rest of `sendall` are consecutive pieces
of that stream (`From`, `Consecutive`) whose lengths add up to whole records, and
that only the accepted client reads (`Begun`). `EveryStepCounts` proves what
`EverybodyEnds` rests on besides fairness; section 9 says how.

Finding: the C++ reader asks for 24 bytes of a 20-byte record and does not look
at how many came. A read that comes short would spoil its frame with any size;
`FullReadsWhole` sets those aside and asks only for what `read` gives when the
stream never runs dry, that as long as every read fills the structure the k-th
frame is the k-th record. `market_feed_cpp` finds it violated without a kill: the
server sends, a read takes 24 bytes, the server sends on, and the second read of
24 bytes begins four bytes into the second record.

## 8. The smaller programs

`Arena`: `GetMemory` grants a block at the offset or changes nothing. Its bound
is checked in 64-bit arithmetic (`Wrap`); the assumption is that no request is
so large that offset and request wrap around. `ProgramsProofs` proves `Tiles`
for every size of the buffer and every set of requests: `TypeCorrect` (blocks are in
the buffer and below the offset) is inductive and gives what `NeverTwice` (a
block starts where all earlier ones have ended) and `NothingLost` (a granted
request covers what the offset advances by) need. `NoWrap` is where the
assumption on requests is used.

`UniquePtr`: variables of the program (`Locals`) and one pointer inside every
object, as in a list; `New` and `DeleteLoose` are the program's own `new` and
`delete`, the other actions are the member functions. A delete destroys what the
object's own pointer owns, and so on (`Reach`). The program hands over only what
it owns and builds no cycle. One move is left out of the run by
`MovesUp = FALSE`: `head = std::move(head->next)`. Assignment deletes the old
object before it reads `other.ptr`, which then lies in the deleted object; with
`MovesUp = TRUE` the run violates `OneOwner`. Nothing in the repository makes
that move. Three variables and three objects give a list of three moved between
owners in every way.

`ProgramsProofs` proves `OwnedOnce` (`OneOwner`) for all sets of variables and
objects, from `~MovesUp`. The invariant `PtrInv`: a pointer that exists leads to
an object that exists and is not loose (`Leads`), no two lead to the same one
(`Unique`), each object that is not loose has an owner (`Owned`), and no set of
objects own one another (`NoCycle`). `ReachOwned` says that of what a delete
destroys all but the first object is owned from inside, so nothing that stays
owned it (`DeleteSound`). `NoCycle` is what keeps a `reset` from destroying the
pointer it is called on, and why no object is left when no variable is; that
the calls themselves build no cycle is `NoNewCycle`.

`FileTail`: `Open`, `Write`, `Read`, `Kill` of several writers and readers, each
with its own offset; a write over what is there keeps the rest, and the words of
all writers agree, so readers see whole words. `Shown` is the loop that prints
the bytes a read returned (lines 21-22). A reader passes `O_CREAT` without
a mode: `Created` lets the file it creates be unusable for later opens. Two
words of three letters read two letters at a time end reads inside a word.

`PrintsWholeWords` is proved in `ProgramsProofs` for every length of a word and
of a read, and any number of writers, readers and restarts. The invariant
`FilesInv`: every writer is at the start of a word, the file is whole words
(`InWords`), and what a reader has printed is what lies before its offset, so
that it skips nothing (the last conjunct of `PrintsWords`).
`OverwriteInWords` is the lemma about a write over what is there: it leaves
words, for all writers start at multiples of the word's length and write the
same letters.

## 9. The proofs

A theorem holds for every value of the constants that satisfies the module's
`ASSUME`s; TLC evaluates these in every run. Each proof has the same plan: an
inductive invariant (`IInv`; `ViewOK` besides for the refinement of the book;
`QueueInv`, `FilesInv`, `PtrInv`, `FeedInv`) as a conjunction of named parts,
one lemma that the initial states satisfy it, one lemma for each
operation, `StepOK` to combine them over `Next`, `Invariance`, and then the
properties as consequences; a refinement is a lemma that says what each step
maps to (`StepRefines`). Every invariant was checked by TLC on the instance of
the component's run before it was proved.

`NaturalFacts` holds what the rings and the file share: remainders of a division
(`ModUnique`, `ModSame`, `ModDistance`, `ModAdd`, `ModNested`, `ModCovers`), and
`SetInduction`, induction over the natural numbers for a *set* of numbers. The
library's induction rules take an operator as a parameter, which the provers
cannot instantiate; a set they can, and the rule follows from the least element
of what is left out. `FromChain` uses it for the recursive function in
`From`, `FoldExists` and `FoldUnique` for the sums of the exchange.

Three theorems are the part of liveness that needs no rule for fairness. That
something eventually happens follows, under weak fairness, from three facts:
while it has not happened some step that brings it nearer can be taken, no step
brings it further away, and it is only finitely far. `NobodyWaitsForNothing`
proves these of the echo server: a client that has not got back all it sent, and
a session whose client has gone, always have a step open to them
(`NobodyStalled`), and the bytes of a client, in its socket, the session, its
other socket, received, only move forward, up to `3 * sent[c]` moves.
`EveryStepCounts` proves them of the market data feed, and more: *every* step
raises one of a few bounded numbers and lowers none, so no execution is
infinite. `NobodyStalled` and `NobodyStuck` say that the guards hold, written
out, in the place of ENABLED. For the queues it is `Answers`: a call that
refuses is right to, so that a thread that tries again succeeds once the other
has moved and its loads return what was stored. The last step, from there to
`Delivered`, `RunEnds`, `Echoed`, `SessionsEnd` and `EverybodyEnds`, stays
with TLC.

The three assumptions that carry most weight, and why the code justifies them:
`Capacity` divides `Modulus` in the queues (see section 5: a cursor that never
wraps around satisfies it for some modulus, one of 64 bits does for capacities
that are powers of two); `2 * Capacity <= Wrap` in the ring (indices of 32 bits,
2^22 elements); requests to the arena do not wrap around (section 8).

What stays with TLC: liveness itself, for the prover has no rules for fairness
and ENABLED; and `ScriptOutcome`, which is about one fixed script of calls that
TLC runs in full. What a refinement theorem states is safety: `Exchange`,
`BoundedFifo` and `PrependList` have no fairness of their own.

## 10. Not modelled, and the limits of the rest

- What a record of the market data feed means: the server packs in native byte
  order and the Java reader parses in network order, so on a little-endian
  machine its numbers are not the ones sent. `MarketFeed` is about framing.
- `MarketFeed.cpp` has no `connect` ("Assume already connected"): the model's
  C++ reader has a connected socket.
- A TCP send right after the peer's close may still succeed; `SendFails` leaves
  out that one more send, which nobody receives.
- Short writes to the file in `file_descriptors`, allocation failure, false
  sharing and padding, accessors that change nothing, wording of the output.
- `L4/memory_allocator.cpp`: straight-line code on a buffer, with no bound check.
- `L9`: template recursion that the compiler evaluates on constants; there is no
  state and no input.
- `L1/mocks/kartik.cpp`, `L2`, `L3`, `L4/linkedlist.cpp`, `L6`, `L9/branches.cpp`,
  `CMake_Learning`: exercises of one language feature without state worth a
  model. `L5/padding.cpp`, `L6/movesemantics.cpp` and `L10/a.cpp` do not compile.
- Generated `build` trees.

## 11. Reading the modules

Definitions marked "wrong variant" are used by nothing. Each is a mistake the
definition after it could have, and `PROJECT.json` names the property that
fails when it takes that definition's place: the evidence that the property
can fail.
