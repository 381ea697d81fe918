-------------------------------- MODULE Fifo1 --------------------------------
(***************************************************************************)
(* Fifo1 of SPSC_QUEUES/spsc_q1.cpp, the circular FIFO with plain cursors, *)
(* used the way its comment allows: by one thread.  Its calls are steps.   *)
(***************************************************************************)
EXTENDS Integers, Sequences

CONSTANTS
  Values,     \* objects of type T that are pushed
  Raw,        \* a slot that holds no live object
  Capacity,   \* capacity_
  Modulus,    \* number of values of size_type: cursors wrap around
              \* (a multiple of Capacity, so that they run through the ring)
  Asserts,    \* TRUE in a build with assertions, FALSE with NDEBUG
  MaxPushes   \* bound on the number of successful pushes

VARIABLES
  slots,                   \* ring_
  pushCursor, popCursor,
  alive,                   \* FALSE once the destructor has run
  sent, received           \* arguments and results of the successful calls

vars == <<slots, pushCursor, popCursor, alive, sent, received>>

Size(push, pop) == (push - pop) % Modulus

Full(push, pop) == Size(push, pop) = Capacity

Empty(push, pop) == Size(push, pop) = 0

\* The assertion in size(), with which push, pop and the destructor begin: it
\* compares the cursors as numbers.  Where it fails, the program ends.
Asserted == Asserts => popCursor <= pushCursor

Element(cursor) == cursor % Capacity

Advance(cursor) == (cursor + 1) % Modulus

\* The slots the loop of the destructor goes through.
Remaining(push, pop) == {Element((pop + i) % Modulus) : i \in 0 .. Size(push, pop) - 1}

Init ==
  /\ slots = [i \in 0 .. Capacity - 1 |-> Raw]
  /\ pushCursor = 0 /\ popCursor = 0
  /\ alive = TRUE
  /\ sent = <<>> /\ received = <<>>

\* push returns false on a full ring; a copy constructor that throws leaves
\* the ring as it was, too.
Push(v) ==
  /\ alive /\ Asserted
  /\ Len(sent) < MaxPushes
  /\ ~Full(pushCursor, popCursor)
  /\ slots' = [slots EXCEPT ![Element(pushCursor)] = v]
  /\ pushCursor' = Advance(pushCursor)
  /\ sent' = Append(sent, v)
  /\ UNCHANGED <<popCursor, alive, received>>

\* pop returns false on an empty ring; a copy assignment that throws does so
\* before the object is destroyed.
Pop ==
  /\ alive /\ Asserted
  /\ ~Empty(pushCursor, popCursor)
  /\ received' = Append(received, slots[Element(popCursor)])
  /\ slots' = [slots EXCEPT ![Element(popCursor)] = Raw]
  /\ popCursor' = Advance(popCursor)
  /\ UNCHANGED <<pushCursor, alive, sent>>

Destroy ==
  /\ alive /\ Asserted
  /\ alive' = FALSE
  /\ slots' = [i \in DOMAIN slots |->
                 IF i \in Remaining(pushCursor, popCursor) THEN Raw ELSE slots[i]]
  /\ popCursor' = pushCursor
  /\ UNCHANGED <<pushCursor, sent, received>>

Next == Pop \/ Destroy \/ \E v \in Values : Push(v)

Spec == Init /\ [][Next]_vars

-----------------------------------------------------------------------------
(* Properties.                                                             *)

Abstract == INSTANCE BoundedFifo

\* First in, first out, and at most Capacity values are held.
ImplementsBoundedFifo == Abstract!Spec
=============================================================================
