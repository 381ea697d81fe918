-------------------------------- MODULE Fifo3 --------------------------------
(***************************************************************************)
(* Fifo3 of SPSC_QUEUES/spsc_q3.cpp, the lock-free circular FIFO for one   *)
(* push thread and one pop thread, under the C++ memory model.             *)
(*                                                                         *)
(* Each cursor is stored by one thread only, so its modification order is  *)
(* known: the k-th store to pushCursor_ has the value PushCursor(k), and   *)
(* pushes is the number of stores so far; likewise popCursor_ and pops.    *)
(* A thread loads its own cursor up to date.  A load of the other thread's *)
(* cursor may return any store in modification order from the last one it  *)
(* saw (popSeen, pushSeen: coherence) to the newest.  A load that acquires *)
(* a released store learns that everything before that store happened:     *)
(* popSync is the number of pops that happen before what the push thread   *)
(* does next, pushSync the number of pushes that happen before what the    *)
(* pop thread does next.                                                   *)
(*                                                                         *)
(* The slots of ring_ are plain memory: a step for each access, and two    *)
(* accesses to a slot that neither thread knows to be ordered are a race.  *)
(***************************************************************************)
EXTENDS Integers, Sequences

CONSTANTS
  Values,           \* objects of type T that are pushed
  Raw,              \* a slot that holds no live object
  Capacity,         \* capacity_
  Modulus,          \* number of values of size_type: cursors wrap around
  ZeroInitialized,  \* whether default initialization of an atomic is to zero:
                    \* TRUE from C++20 on, an indeterminate value before
  MayThrow,         \* whether copying a T may throw
  MaxPushes         \* bound on the number of completed pushes

ASSUME RawAssumption      == Raw \notin Values
ASSUME CapacityAssumption == Capacity \in Nat \ {0}
\* cursor % capacity_ runs through the ring in order across a wrap-around.
ASSUME ModulusAssumption  == /\ Modulus \in Nat
                             /\ Capacity < Modulus
                             /\ Modulus % Capacity = 0
ASSUME FlagsAssumption    == ZeroInitialized \in BOOLEAN /\ MayThrow \in BOOLEAN
ASSUME MaxPushesAssumption == MaxPushes \in Nat

VARIABLES
  first,      \* [push, pop]: the initial values of pushCursor_ and popCursor_
  slots,      \* ring_
  pushes, pops,
  popSeen, popSync,      \* what the push thread knows
  pushSeen, pushSync,    \* what the pop thread knows
  pushPc, pushItem,      \* where push is, and its argument
  popPc, popItem,        \* where pop is, and what it has read
  sent, received         \* arguments and results of the completed calls

pushVars == <<pushes, popSeen, popSync, pushPc, pushItem, sent>>
popVars  == <<pops, pushSeen, pushSync, popPc, popItem, received>>
vars     == <<first, slots, pushVars, popVars>>

PushCursor(k) == (first.push + k) % Modulus
PopCursor(k)  == (first.pop + k) % Modulus

-----------------------------------------------------------------------------
(* The private helpers, and the memory orders of the four accesses that    *)
(* connect the threads.  "Wrong variants" are used by nothing: each is a   *)
(* mistake the definition after it could have.                             *)

\* Wrong variants: one element too many; never.
FullLate(pushCursor, popCursor)  == (pushCursor - popCursor) % Modulus > Capacity
NeverFull(pushCursor, popCursor) == FALSE

Full(pushCursor, popCursor) == (pushCursor - popCursor) % Modulus = Capacity

\* Wrong variants: never; a single element is not seen.
NeverEmpty(pushCursor, popCursor)  == FALSE
EmptyButOne(pushCursor, popCursor) == (pushCursor - popCursor) % Modulus <= 1

Empty(pushCursor, popCursor) == pushCursor = popCursor

\* Wrong variant: the ring is one slot short.
ElementShort(cursor) == cursor % (IF Capacity = 1 THEN 1 ELSE Capacity - 1)

Element(cursor) == cursor % Capacity

\* Wrong variant, for each of the four.
Relaxed == "relaxed"

PushLoadOfPop  == "acquire"   \* push reads popCursor_
PushStoreOrder == "release"   \* push stores pushCursor_
PopLoadOfPush  == "acquire"   \* pop reads pushCursor_
PopStoreOrder  == "release"   \* pop stores popCursor_

Synchronizes(store, load) == store = "release" /\ load = "acquire"

-----------------------------------------------------------------------------
Init ==
  /\ first \in [push : 0 .. Modulus - 1, pop : 0 .. Modulus - 1]
  /\ ZeroInitialized => first = [push |-> 0, pop |-> 0]
  /\ slots = [i \in 0 .. Capacity - 1 |-> Raw]
  /\ pushes = 0 /\ popSeen = 0 /\ popSync = 0
  /\ pops = 0 /\ pushSeen = 0 /\ pushSync = 0
  /\ pushPc = "idle" /\ pushItem = Raw /\ sent = <<>>
  /\ popPc = "idle" /\ popItem = Raw /\ received = <<>>

\* push loads its own cursor, then popCursor_, and returns false if full.
PushBegin(v) ==
  /\ pushPc = "idle"
  /\ pushes < MaxPushes
  /\ \E k \in popSeen .. pops :
       /\ popSeen' = k
       /\ popSync' = IF Synchronizes(PopStoreOrder, PushLoadOfPop) THEN k ELSE popSync
       /\ \/ Full(PushCursor(pushes), PopCursor(k)) /\ UNCHANGED <<pushPc, pushItem>>
          \/ ~Full(PushCursor(pushes), PopCursor(k)) /\ pushPc' = "construct" /\ pushItem' = v
  /\ UNCHANGED <<first, slots, pushes, sent, popVars>>

PushConstruct ==
  /\ pushPc = "construct"
  /\ slots' = [slots EXCEPT ![Element(PushCursor(pushes))] = pushItem]
  /\ pushPc' = "publish"
  /\ UNCHANGED <<first, pushes, popSeen, popSync, pushItem, sent, popVars>>

\* The copy constructor throws: there is no new object, and nothing is stored.
PushThrow ==
  /\ MayThrow
  /\ pushPc = "construct"
  /\ pushPc' = "idle"
  /\ pushItem' = Raw
  /\ UNCHANGED <<first, slots, pushes, popSeen, popSync, sent, popVars>>

PushPublish ==
  /\ pushPc = "publish"
  /\ pushes' = pushes + 1
  /\ sent' = Append(sent, pushItem)
  /\ pushPc' = "idle"
  /\ pushItem' = Raw
  /\ UNCHANGED <<first, slots, popSeen, popSync, popVars>>

\* size, empty or full called by the push thread: its load is relaxed.
PushSize ==
  /\ pushPc = "idle"
  /\ popSeen' \in popSeen .. pops
  /\ UNCHANGED <<first, slots, pushes, popSync, pushPc, pushItem, sent, popVars>>

\* pop loads pushCursor_, then its own cursor, and returns false if empty.
PopBegin(k) ==
  /\ popPc = "idle"
  /\ k \in pushSeen .. pushes
  /\ pushSeen' = k
  /\ pushSync' = IF Synchronizes(PushStoreOrder, PopLoadOfPush) THEN k ELSE pushSync
  /\ \/ Empty(PushCursor(k), PopCursor(pops)) /\ UNCHANGED popPc
     \/ ~Empty(PushCursor(k), PopCursor(pops)) /\ popPc' = "take"
  /\ UNCHANGED <<first, slots, pops, popItem, received, pushVars>>

PopTake ==
  /\ popPc = "take"
  /\ popItem' = slots[Element(PopCursor(pops))]
  /\ popPc' = "destroy"
  /\ UNCHANGED <<first, slots, pops, pushSeen, pushSync, received, pushVars>>

\* The copy assignment throws: the object stays, and nothing is stored.
PopThrow ==
  /\ MayThrow
  /\ popPc = "take"
  /\ popPc' = "idle"
  /\ UNCHANGED <<first, slots, pops, pushSeen, pushSync, popItem, received, pushVars>>

PopDestroy ==
  /\ popPc = "destroy"
  /\ slots' = [slots EXCEPT ![Element(PopCursor(pops))] = Raw]
  /\ popPc' = "publish"
  /\ UNCHANGED <<first, pops, pushSeen, pushSync, popItem, received, pushVars>>

PopPublish ==
  /\ popPc = "publish"
  /\ pops' = pops + 1
  /\ received' = Append(received, popItem)
  /\ popPc' = "idle"
  /\ popItem' = Raw
  /\ UNCHANGED <<first, slots, pushSeen, pushSync, pushVars>>

\* size, empty or full called by the pop thread.
PopSize ==
  /\ popPc = "idle"
  /\ pushSeen' \in pushSeen .. pushes
  /\ UNCHANGED <<first, slots, pops, pushSync, popPc, popItem, received, pushVars>>

\* Wrong variant: the destructor only frees the memory.
NoCursors == {}

\* The cursor values the loop of the destructor goes through.
RemainingCursors ==
  LET size == (PushCursor(pushes) - PopCursor(pops)) % Modulus
  IN  {(PopCursor(pops) + i) % Modulus : i \in 0 .. size - 1}

\* The destructor runs after both threads have been joined.
Destroy ==
  /\ pushPc = "idle" /\ popPc = "idle"
  /\ pushPc' = "destroyed" /\ popPc' = "destroyed"
  /\ slots' = [i \in DOMAIN slots |->
                 IF \E c \in RemainingCursors : Element(c) = i THEN Raw ELSE slots[i]]
  /\ UNCHANGED <<first, pushes, popSeen, popSync, pushItem, sent>>
  /\ UNCHANGED <<pops, pushSeen, pushSync, popItem, received>>

PushStep == (\E v \in Values : PushBegin(v)) \/ PushConstruct \/ PushThrow \/ PushPublish
PopStep  == PopTake \/ PopThrow \/ PopDestroy \/ PopPublish

Next ==
  \/ PushStep \/ PushSize
  \/ PopStep \/ PopSize \/ \E k \in pushSeen .. pushes : PopBegin(k)
  \/ Destroy

Spec == Init /\ [][Next]_vars

\* The consumer polls until the queue is destroyed, threads do not stop inside
\* a call, a copy that is tried again and again does not throw for ever, and a
\* store to a cursor becomes visible to a polling thread.
FairSpec ==
  /\ Spec
  /\ SF_vars(PopTake) /\ WF_vars(PopDestroy) /\ WF_vars(PopPublish)
  /\ WF_vars(PopBegin(pushes))

-----------------------------------------------------------------------------
(* Properties.                                                             *)

\* The slots that a thread has written or read, and the other thread need not
\* know of: those of the pushes from pushSync on, and of the pops from popSync.
PushedUnknown ==
  LET touched == pushes + (IF pushPc = "publish" THEN 1 ELSE 0)
  IN  {Element(PushCursor(k)) : k \in pushSync .. touched - 1}
PoppedUnknown ==
  LET touched == pops + (IF popPc \in {"destroy", "publish"} THEN 1 ELSE 0)
  IN  {Element(PopCursor(k)) : k \in popSync .. touched - 1}

TypeOK ==
  /\ first \in [push : 0 .. Modulus - 1, pop : 0 .. Modulus - 1]
  /\ slots \in [0 .. Capacity - 1 -> Values \cup {Raw}]
  /\ pushes \in 0 .. MaxPushes /\ pops \in 0 .. pushes
  /\ popSeen \in 0 .. pops /\ popSync \in 0 .. popSeen
  /\ pushSeen \in pops .. pushes /\ pushSync \in 0 .. pushSeen
  /\ pushPc \in {"idle", "construct", "publish", "destroyed"}
  /\ popPc \in {"idle", "take", "destroy", "publish", "destroyed"}
  /\ pushItem \in IF pushPc \in {"construct", "publish"} THEN Values ELSE {Raw}
  /\ popItem \in IF popPc \in {"destroy", "publish"} THEN Values ELSE {Raw}
  /\ sent \in Seq(Values) /\ Len(sent) = pushes
  /\ received \in Seq(Values) /\ Len(received) = pops

\* "Threadsafe": whenever a thread is about to access a slot, it happens after
\* every access to that slot by the other thread (spsc_q3.cpp:60,73,74).
DataRaceFree ==
  /\ pushPc = "construct" => Element(PushCursor(pushes)) \notin PoppedUnknown
  /\ popPc \in {"take", "destroy"} => Element(PopCursor(pops)) \notin PushedUnknown

\* push never constructs over a live object, and pop never reads or destroys
\* what is not one, whatever old cursor values the two have acted on.
LifetimesRespected ==
  /\ pushPc = "construct" => slots[Element(PushCursor(pushes))] = Raw
  /\ popPc \in {"take", "destroy"} => slots[Element(PopCursor(pops))] # Raw

\* Whenever the destructor may run, its loop destroys exactly the live objects.
DestructorExact ==
  /\ pushPc = "idle" /\ popPc = "idle" =>
       {Element(c) : c \in RemainingCursors} = {i \in DOMAIN slots : slots[i] # Raw}
  /\ pushPc = "destroyed" => \A i \in DOMAIN slots : slots[i] = Raw

\* The assertion of size() (spsc_q3.cpp:38), called by either thread.
SizeAssertion ==
  /\ pushPc = "idle" => \A k \in popSeen .. pops : PopCursor(k) <= PushCursor(pushes)
  /\ popPc = "idle" => \A k \in pushSeen .. pushes : PopCursor(pops) <= PushCursor(k)

\* What size() returns is never more than the capacity; the push thread never
\* sees fewer elements than there are, nor the pop thread more.  Its assertion
\* holds for both as long as no cursor has wrapped around.
SizeBounds ==
  LET Size(k, j) == (PushCursor(k) - PopCursor(j)) % Modulus
  IN  /\ pushPc = "idle" => \A j \in popSeen .. pops :
                              Size(pushes, j) \in pushes - pops .. Capacity
      /\ popPc = "idle" => \A k \in pushSeen .. pushes :
                              Size(k, pops) \in 0 .. pushes - pops
      /\ pushes < Modulus => SizeAssertion

Abstract == INSTANCE BoundedFifo

\* First in, first out: each value is popped once and in the order pushed, at
\* most Capacity are held, and calls that return false, throw or ask for the
\* size change nothing.
ImplementsBoundedFifo == Abstract!Spec

\* Everything pushed is popped, unless the queue is destroyed: no element is
\* left where a polling pop thread never sees it.
Delivered ==
  \A k \in 1 .. MaxPushes : pushes >= k ~> (pops >= k \/ popPc = "destroyed")
=============================================================================
