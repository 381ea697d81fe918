-------------------------------- MODULE Fifo2 --------------------------------
(***************************************************************************)
(* Fifo2 of SPSC_QUEUES/spsc_q2.cpp, the circular FIFO with atomic cursors *)
(* of the default memory order.  These are sequentially consistent, so the *)
(* threads are interleaved step by step: a step is a load of the other     *)
(* thread's cursor, an access to a slot, or the increment of a cursor.     *)
(* (A thread's own cursor is stored by nobody else, and may be loaded at   *)
(* any time.)  full() and empty() call size(), which loads each cursor     *)
(* once for its assertion and once more for its result.  An assertion that *)
(* fails ends the program, whatever the other thread is doing.             *)
(***************************************************************************)
EXTENDS Integers, Sequences

CONSTANTS
  Values,      \* objects of type T that are pushed
  Raw,         \* a slot that holds no live object
  Capacity,    \* capacity_
  Modulus,     \* number of values of size_type: cursors wrap around
  ZeroInitialized,  \* whether default initialization of an atomic is to zero:
                    \* TRUE from C++20 on, an indeterminate value before
  MayThrow,    \* whether copying a T may throw
  MaxPushes    \* bound on the number of successful pushes

\* What the model asks of the constants.
Fifo2Assumption ==
  /\ Raw \notin Values
  /\ Capacity \in Nat \ {0}
  \* cursor % capacity_ runs through the ring in order across a wrap-around.
  /\ Modulus \in Nat /\ Capacity < Modulus /\ Modulus % Capacity = 0
  /\ ZeroInitialized \in BOOLEAN /\ MayThrow \in BOOLEAN
  /\ MaxPushes \in Nat

VARIABLES
  assertion,              \* "off" with NDEBUG, else "on" until it has "failed"
  slots,                  \* ring_
  pushCursor, popCursor,
  pushPc, pushItem,       \* where push is, and its argument
  popPc, popItem,         \* where pop is, and what it has read
  sent, received          \* arguments and results of the successful calls

pushVars == <<pushCursor, pushPc, pushItem, sent>>
popVars  == <<popCursor, popPc, popItem, received>>
vars     == <<assertion, slots, pushVars, popVars>>

Size(push, pop) == (push - pop) % Modulus

\* Wrong variant: the ring takes one element too many.
FullLate(push, pop)  == Size(push, pop) > Capacity

Full(push, pop) == Size(push, pop) = Capacity

Empty(push, pop) == Size(push, pop) = 0

Element(cursor) == cursor % Capacity

Advance(cursor) == (cursor + 1) % Modulus

-----------------------------------------------------------------------------
\* The cursors have no initializer.
Init ==
  /\ assertion \in {"off", "on"}
  /\ pushCursor \in 0 .. Modulus - 1 /\ popCursor \in 0 .. Modulus - 1
  /\ ZeroInitialized => pushCursor = 0 /\ popCursor = 0
  /\ slots = [i \in 0 .. Capacity - 1 |-> Raw]
  /\ pushPc = "idle" /\ pushItem = Raw /\ sent = <<>>
  /\ popPc = "idle" /\ popItem = Raw /\ received = <<>>

\* What the assertion says of the cursors, compared as numbers.
Asserted == assertion = "on" => popCursor <= pushCursor

\* The assertion of push, or of pop and the destructor, fails.
Abort ==
  /\ ~Asserted
  /\ (pushPc = "idle" /\ Len(sent) < MaxPushes) \/ popPc = "idle"
  /\ assertion' = "failed"
  /\ UNCHANGED <<slots, pushVars, popVars>>

\* The load of popCursor_ for the assertion.
PushAssert(v) ==
  /\ pushPc = "idle" /\ Asserted
  /\ Len(sent) < MaxPushes
  /\ pushPc' = "check" /\ pushItem' = v
  /\ UNCHANGED <<assertion, slots, pushCursor, sent, popVars>>

\* The load for the result: the call returns false, or goes on.
PushCheck ==
  /\ pushPc = "check"
  /\ \/ Full(pushCursor, popCursor) /\ pushPc' = "idle" /\ pushItem' = Raw
     \/ ~Full(pushCursor, popCursor) /\ pushPc' = "construct" /\ UNCHANGED pushItem
  /\ UNCHANGED <<assertion, slots, pushCursor, sent, popVars>>

PushConstruct ==
  /\ pushPc = "construct"
  /\ slots' = [slots EXCEPT ![Element(pushCursor)] = pushItem]
  /\ pushPc' = "publish"
  /\ UNCHANGED <<assertion, pushCursor, pushItem, sent, popVars>>

\* The copy constructor throws: there is no new object.
PushThrow ==
  /\ MayThrow
  /\ pushPc = "construct"
  /\ pushPc' = "idle" /\ pushItem' = Raw
  /\ UNCHANGED <<assertion, slots, pushCursor, sent, popVars>>

PushPublish ==
  /\ pushPc = "publish"
  /\ pushCursor' = Advance(pushCursor)
  /\ sent' = Append(sent, pushItem)
  /\ pushPc' = "idle" /\ pushItem' = Raw
  /\ UNCHANGED <<assertion, slots, popVars>>

\* The load of pushCursor_ for the assertion.
PopAssert ==
  /\ popPc = "idle" /\ Asserted
  /\ popPc' = "check"
  /\ UNCHANGED <<assertion, slots, popCursor, popItem, received, pushVars>>

PopCheck ==
  /\ popPc = "check"
  /\ \/ Empty(pushCursor, popCursor) /\ popPc' = "idle"
     \/ ~Empty(pushCursor, popCursor) /\ popPc' = "take"
  /\ UNCHANGED <<assertion, slots, popCursor, popItem, received, pushVars>>

PopTake ==
  /\ popPc = "take"
  /\ popItem' = slots[Element(popCursor)]
  /\ popPc' = "destroy"
  /\ UNCHANGED <<assertion, slots, popCursor, received, pushVars>>

\* The copy assignment throws: the object stays.
PopThrow ==
  /\ MayThrow
  /\ popPc = "take"
  /\ popPc' = "idle"
  /\ UNCHANGED <<assertion, slots, popCursor, popItem, received, pushVars>>

PopDestroy ==
  /\ popPc = "destroy"
  /\ slots' = [slots EXCEPT ![Element(popCursor)] = Raw]
  /\ popPc' = "publish"
  /\ UNCHANGED <<assertion, popCursor, popItem, received, pushVars>>

PopPublish ==
  /\ popPc = "publish"
  /\ popCursor' = Advance(popCursor)
  /\ received' = Append(received, popItem)
  /\ popPc' = "idle" /\ popItem' = Raw
  /\ UNCHANGED <<assertion, slots, pushVars>>

\* Wrong variant: the destructor only frees the memory.
NoSlots(push, pop) == {}

\* The slots the loop of the destructor goes through.
Remaining(push, pop) == {Element((pop + i) % Modulus) : i \in 0 .. Size(push, pop) - 1}

\* The destructor runs when the threads are joined.
Destroy ==
  /\ pushPc = "idle" /\ popPc = "idle" /\ Asserted
  /\ pushPc' = "destroyed" /\ popPc' = "destroyed"
  /\ slots' = [i \in DOMAIN slots |->
                 IF i \in Remaining(pushCursor, popCursor) THEN Raw ELSE slots[i]]
  /\ popCursor' = pushCursor
  /\ UNCHANGED <<assertion, pushCursor, pushItem, sent, popItem, received>>

PushStep == PushCheck \/ PushConstruct \/ PushThrow \/ PushPublish
PopStep  == PopCheck \/ PopTake \/ PopThrow \/ PopDestroy \/ PopPublish

Next ==
  /\ assertion # "failed"
  /\ \/ PushStep \/ \E v \in Values : PushAssert(v)
     \/ PopStep \/ PopAssert
     \/ Destroy
     \/ Abort

Spec == Init /\ [][Next]_vars

-----------------------------------------------------------------------------
(* Properties.                                                             *)

TypeOK ==
  /\ assertion \in {"off", "on", "failed"}
  /\ slots \in [0 .. Capacity - 1 -> Values \cup {Raw}]
  /\ pushCursor \in 0 .. Modulus - 1 /\ popCursor \in 0 .. Modulus - 1
  /\ pushPc \in {"idle", "check", "construct", "publish", "destroyed"}
  /\ popPc \in {"idle", "check", "take", "destroy", "publish", "destroyed"}
  /\ pushItem \in IF pushPc \in {"check", "construct", "publish"} THEN Values ELSE {Raw}
  /\ popItem \in IF popPc \in {"destroy", "publish"} THEN Values ELSE {Raw}
  /\ sent \in Seq(Values) /\ received \in Seq(Values)

\* "Threadsafe": the two threads are never about to access the same slot.
NoConflict ==
  pushPc = "construct" /\ popPc \in {"take", "destroy"} =>
    Element(pushCursor) # Element(popCursor)

\* size() called by the push or the pop thread is exact at the time of its load
\* of the other cursor, also once a cursor has wrapped around; the assertion
\* (spsc_q2.cpp:33) holds for both until then, and stops no program before.
OwnersSizeExact ==
  pushPc # "destroyed" =>
    /\ Size(pushCursor, popCursor) = Len(sent) - Len(received)
    /\ Len(sent) < Modulus => popCursor <= pushCursor /\ assertion # "failed"

\* With these two every value a thread holds is what its step expects: no pop
\* reads a slot without an object.
ThreadSafe == TypeOK /\ NoConflict /\ OwnersSizeExact

\* What the cursors say is in the ring: an object a push has not published is
\* not there yet, one a pop has not published is there still.
Committed ==
  [i \in DOMAIN slots |->
     IF pushPc = "publish" /\ i = Element(pushCursor) THEN Raw
     ELSE IF popPc = "publish" /\ i = Element(popCursor) THEN popItem
     ELSE slots[i]]

\* Fifo1 with NDEBUG: the assertion is left out, and Fifo2 stops where its own
\* one fails.
Sequential == INSTANCE Fifo1 WITH slots <- Committed, alive <- pushPc # "destroyed",
                                  Asserts <- FALSE

\* Two threads in Fifo2 behave as one thread in Fifo1: every call takes effect
\* at the increment of its cursor, and copies that throw and calls that return
\* false have no effect.  The destructor finds what Fifo1's would.
ImplementsFifo1 == Sequential!Spec
=============================================================================
