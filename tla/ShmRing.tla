------------------------------- MODULE ShmRing -------------------------------
(***************************************************************************)
(* The ring of SHM_MMAP/SHM.h in a shared memory object, and the producer  *)
(* and consumer processes of SHM_MMAP that map it: one of each at a time,  *)
(* started, killed and started again in any order.  The object outlives    *)
(* them, for nothing unlinks it.                                           *)
(*                                                                         *)
(* Memory is modelled as in Fifo3: pushes and pops number the stores to    *)
(* pushPtr and popPtr, a load of the other process's index returns any     *)
(* store from the last one seen (popSeen, pushSeen), and acquiring what    *)
(* was released makes the stores before it known (popSync, pushSync).  A   *)
(* process knows what the killed one before it did.                        *)
(***************************************************************************)
EXTENDS Integers, Sequences

CONSTANTS
  Values,        \* what is pushed
  Junk,          \* an element of arr that was never written
  Capacity,      \* CAPACITY: arr has one more element than the ring holds
  Wrap,          \* number of values of uint32_t
  Messages,      \* pops after which Consumer::run returns
  PushEnabled,   \* whether Producer::run pushes: its call is commented out
  MaxPushes,     \* bound on the number of successful pushes
  MaxKills       \* bound on the number of processes killed

ASSUME ShmAssumption ==
  /\ Junk \notin Values
  /\ Capacity \in Nat /\ Capacity > 1
  /\ Wrap \in Nat /\ 2 * Capacity <= Wrap     \* push + CAPACITY fits
  /\ Messages \in Nat \ {0} /\ MaxPushes \in Nat /\ MaxKills \in Nat
  /\ PushEnabled \in BOOLEAN

VARIABLES
  object,                          \* the shared memory object
  arr, pushes, pops,               \* its contents
  pushPc, pushItem, popSeen, popSync,
  popPc, popItem, pushSeen, pushSync,
  mapped,                          \* whether the consumer's mmap succeeded
  count,                           \* cnt in Consumer::run
  kills,
  sent, received                   \* what was published and popped, by all processes

ring     == <<arr, pushes, pops, sent, received>>
producer == <<pushPc, pushItem, popSeen, popSync>>
consumer == <<popPc, popItem, pushSeen, pushSync, mapped, count>>
vars     == <<object, ring, producer, consumer, kills>>

Index(k) == k % Capacity

\* Wrong variant: no element is left free.
NeverFull(push, pop) == FALSE

Full(push, pop) == (push + 1) % Capacity = pop

\* Wrong variants: the consumer does not ask; a single element is not seen.
NeverEmpty(push, pop)  == FALSE
EmptyButOne(push, pop) == push \in {pop, (pop + 1) % Capacity}

Empty(push, pop) == pop = push

\* Wrong variant: the difference of unsigned numbers, reduced.
SizeUnsigned(push, pop) == ((push - pop) % Wrap) % Capacity

Size(push, pop) == ((push + Capacity - pop) % Wrap) % Capacity

\* Wrong variant, for each of the four.
Relaxed == "relaxed"

PushLoadOfPop  == "acquire"
PushStoreOrder == "release"
PopLoadOfPush  == "acquire"
PopStoreOrder  == "release"

Synchronizes(store, load) == store = "release" /\ load = "acquire"

\* Wrong variant: a process that starts initializes the ring.
ConstructedAnew(k) == 0

\* What a process that starts finds in pushPtr: SHM's constructor is not run.
FoundIn(k) == k

Init ==
  /\ object = "absent"
  /\ arr = [i \in 0 .. Capacity - 1 |-> Junk]   \* zeroes, once there is an object
  /\ pushes = 0 /\ pops = 0 /\ sent = <<>> /\ received = <<>>
  /\ pushPc = "off" /\ pushItem = Junk /\ popSeen = 0 /\ popSync = 0
  /\ popPc = "off" /\ popItem = Junk /\ pushSeen = 0 /\ pushSync = 0
  /\ mapped = FALSE /\ count = 0 /\ kills = 0

-----------------------------------------------------------------------------
(* The producer.                                                           *)

\* shm_open creates the object if it is absent, without any size.
ProducerOpen ==
  /\ pushPc = "off"
  /\ object' = IF object = "absent" THEN "empty" ELSE object
  /\ pushPc' = "opened"
  /\ UNCHANGED <<ring, pushItem, popSeen, popSync, consumer, kills>>

\* shm_open fails: the constructor says so and goes on with descriptor -1, on
\* which ftruncate and mmap fail as well.
ProducerNoOpen ==
  /\ pushPc = "off"
  /\ pushPc' = "unmapped"
  /\ UNCHANGED <<object, ring, pushItem, popSeen, popSync, consumer, kills>>

\* ftruncate gives it its size and keeps what is in it; mmap.
ProducerMap ==
  /\ pushPc = "opened"
  /\ object' = "sized"
  /\ pushPc' = "run"
  /\ pushes' = FoundIn(pushes)
  /\ UNCHANGED <<arr, pops, sent, received, pushItem, popSeen, popSync, consumer, kills>>

\* The first load of push goes through MAP_FAILED: a signal ends the process.
ProducerFault ==
  /\ PushEnabled
  /\ pushPc = "unmapped"
  /\ pushPc' = "off"
  /\ UNCHANGED <<object, ring, pushItem, popSeen, popSync, consumer, kills>>

\* push returns false if the ring is full, and run() goes on to the next value.
PushBegin(v, k) ==
  /\ PushEnabled
  /\ pushPc = "run"
  /\ pushes < MaxPushes
  /\ k \in popSeen .. pops
  /\ popSeen' = k
  /\ popSync' = IF Synchronizes(PopStoreOrder, PushLoadOfPop) THEN k ELSE popSync
  /\ \/ Full(Index(pushes), Index(k)) /\ UNCHANGED <<pushPc, pushItem>>
     \/ ~Full(Index(pushes), Index(k)) /\ pushPc' = "write" /\ pushItem' = v
  /\ UNCHANGED <<object, ring, consumer, kills>>

PushWrite ==
  /\ pushPc = "write"
  /\ arr' = [arr EXCEPT ![Index(pushes)] = pushItem]
  /\ pushPc' = "publish"
  /\ UNCHANGED <<object, pushes, pops, sent, received, pushItem, popSeen, popSync,
                 consumer, kills>>

PushPublish ==
  /\ pushPc = "publish"
  /\ pushes' = pushes + 1
  /\ sent' = Append(sent, pushItem)
  /\ pushPc' = "run" /\ pushItem' = Junk
  /\ UNCHANGED <<object, arr, pops, received, popSeen, popSync, consumer, kills>>

\* Producer::run never returns: a signal ends it, wherever it is.
ProducerKilled ==
  /\ pushPc # "off" /\ kills < MaxKills
  /\ pushPc' = "off" /\ pushItem' = Junk
  /\ kills' = kills + 1
  /\ UNCHANGED <<object, ring, popSeen, popSync, consumer>>

-----------------------------------------------------------------------------
(* The consumer.                                                           *)

\* If shm_open fails, for want of an object or for any other reason, the
\* constructor says so and maps descriptor -1.
ConsumerOpen ==
  /\ popPc \in {"off", "faulted"}
  /\ mapped' \in {FALSE, object # "absent"}
  /\ count' = 0
  /\ popPc' = "run"
  /\ UNCHANGED <<object, ring, producer, popItem, pushSeen, pushSync, kills>>

\* The first load of pop goes through MAP_FAILED, or beyond the end of an
\* object without a size: a signal ends the process.
ConsumerFault ==
  /\ popPc = "run" /\ count < Messages
  /\ ~mapped \/ object # "sized"
  /\ popPc' = "faulted"
  /\ UNCHANGED <<object, ring, producer, popItem, pushSeen, pushSync, mapped, count, kills>>

PopBegin(k) ==
  /\ popPc = "run" /\ count < Messages
  /\ mapped /\ object = "sized"
  /\ k \in pushSeen .. pushes
  /\ pushSeen' = k
  /\ pushSync' = IF Synchronizes(PushStoreOrder, PopLoadOfPush) THEN k ELSE pushSync
  /\ \/ Empty(Index(k), Index(pops)) /\ UNCHANGED popPc
     \/ ~Empty(Index(k), Index(pops)) /\ popPc' = "read"
  /\ UNCHANGED <<object, ring, producer, popItem, mapped, count, kills>>

PopRead ==
  /\ popPc = "read"
  /\ popItem' = arr[Index(pops)]
  /\ popPc' = "publish"
  /\ UNCHANGED <<object, ring, producer, pushSeen, pushSync, mapped, count, kills>>

PopPublish ==
  /\ popPc = "publish"
  /\ pops' = pops + 1
  /\ received' = Append(received, popItem)
  /\ count' = count + 1
  /\ popPc' = "run" /\ popItem' = Junk
  /\ UNCHANGED <<object, arr, pushes, sent, producer, pushSeen, pushSync, mapped, kills>>

\* run() returns: main ends, the benchmark calls it again.
RunReturns ==
  /\ popPc = "run" /\ count = Messages
  /\ popPc' \in {"off", "run"}
  /\ count' = 0
  /\ UNCHANGED <<object, ring, producer, popItem, pushSeen, pushSync, mapped, kills>>

ConsumerKilled ==
  /\ popPc \in {"run", "read", "publish"} /\ kills < MaxKills
  /\ popPc' = "off" /\ popItem' = Junk
  /\ kills' = kills + 1
  /\ UNCHANGED <<object, ring, producer, pushSeen, pushSync, mapped, count>>

Next ==
  \/ ProducerOpen \/ ProducerNoOpen \/ ProducerMap \/ ProducerFault
  \/ \E v \in Values, k \in popSeen .. pops : PushBegin(v, k)
  \/ PushWrite \/ PushPublish \/ ProducerKilled
  \/ ConsumerOpen \/ ConsumerFault \/ RunReturns
  \/ \E k \in pushSeen .. pushes : PopBegin(k)
  \/ PopRead \/ PopPublish \/ ConsumerKilled

Spec == Init /\ [][Next]_vars

\* Whoever runs the example starts the producer, again when it was killed or
\* ended by a fault, and shm_open does not fail every time; the loops of both
\* processes go on, and stores become visible.
FairSpec ==
  /\ Spec
  /\ SF_vars(ProducerOpen) /\ WF_vars(ProducerMap) /\ WF_vars(ProducerFault)
  /\ WF_vars(\E v \in Values : PushBegin(v, pops))
  /\ WF_vars(PushWrite) /\ WF_vars(PushPublish)
  /\ WF_vars(PopBegin(pushes)) /\ WF_vars(PopRead) /\ WF_vars(PopPublish)

-----------------------------------------------------------------------------
(* Properties.                                                             *)

TypeOK ==
  /\ object \in {"absent", "empty", "sized"}
  /\ arr \in [0 .. Capacity - 1 -> Values \cup {Junk}]
  /\ pushes \in 0 .. MaxPushes /\ pops \in 0 .. pushes
  /\ popSeen \in 0 .. pops /\ popSync \in 0 .. popSeen
  /\ pushSeen \in pops .. pushes /\ pushSync \in 0 .. pushSeen
  /\ pushPc \in {"off", "unmapped", "opened", "run", "write", "publish"}
  /\ popPc \in {"off", "run", "read", "publish", "faulted"}
  /\ pushItem \in IF pushPc \in {"write", "publish"} THEN Values ELSE {Junk}
  /\ popItem \in IF popPc = "publish" THEN Values ELSE {Junk}
  /\ mapped \in BOOLEAN
  /\ count \in 0 .. Messages /\ kills \in 0 .. MaxKills
  /\ sent \in Seq(Values) /\ received \in Seq(Values)

\* The elements a process has accessed and the other need not know of.
WrittenUnknown ==
  LET written == pushes + (IF pushPc = "publish" THEN 1 ELSE 0)
  IN  {Index(k) : k \in pushSync .. written - 1}
ReadUnknown ==
  LET read == pops + (IF popPc = "publish" THEN 1 ELSE 0)
  IN  {Index(k) : k \in popSync .. read - 1}

\* No element is written while it may still be read, nor read before its write
\* is known to have happened, also by a process that starts in the middle.
DataRaceFree ==
  /\ pushPc = "write" => Index(pushes) \notin ReadUnknown
  /\ popPc = "read" => Index(pops) \notin WrittenUnknown

\* The indices keep the order and distance that their types and the one free
\* element give them, and so size() called by either process is in bounds: the
\* producer's never says that there is more room than there is, the consumer's
\* never that there is more to read.
SizeSound ==
  /\ TypeOK
  /\ \A k \in popSeen .. pops : Size(Index(pushes), Index(k)) \in pushes - pops .. Capacity - 1
  /\ \A k \in pushSeen .. pushes : Size(Index(k), Index(pops)) \in 0 .. pushes - pops

Abstract == INSTANCE BoundedFifo WITH Capacity <- Capacity - 1

\* Over any number of restarts of either process, at any step, what is popped
\* is what was published: in order, nothing lost and nothing twice, and at
\* most Capacity - 1 elements are held.
ImplementsBoundedFifo == Abstract!Spec

\* A run() that starts on the ring of a live producer returns, unless it is
\* killed: what "measure full run()" (benchmark_consumer.cpp:11) waits for.
RunEnds ==
  popPc = "run" /\ mapped /\ count = 0 /\ pops + Messages <= MaxPushes
    ~> (count = Messages \/ popPc \in {"off", "faulted"})
=============================================================================
