--------------------------- MODULE ProgramsProofs ---------------------------
(***************************************************************************)
(* Proofs about the programs that share the module MCPrograms, each by     *)
(* itself and for every value of its constants (ProgramsAssumption and     *)
(* ArenaAssumption): Arena, Fifo2 with Fifo1, FileTail, and UniquePtr.     *)
(***************************************************************************)
EXTENDS MCPrograms, SequenceTheorems, FiniteSetTheorems, NaturalFacts

-----------------------------------------------------------------------------
(* Arena.                                                                  *)

\* The two facts that every step needs: below the bound nothing wraps.
LEMMA NoWrap ==
  ASSUME NEW n \in Requests, offset \in 0 .. SIZE
  PROVE  (offset + n) % Wrap = offset + n
<1>1. /\ SIZE \in Nat /\ Wrap \in Nat /\ n \in Nat /\ n + SIZE < Wrap
  BY ArenaAssumption
<1>2. offset + n \in 0 .. Wrap - 1
  BY <1>1
<1>. QED  BY <1>1, <1>2, SMT

\* A request that is granted extends the blocks at the offset; one that is
\* refused changes nothing.
LEMMA GetMemoryStep ==
  ASSUME NEW n \in Requests, offset \in 0 .. SIZE, GetMemory(n)
  PROVE  \/ /\ offset' = offset + n /\ offset + n <= SIZE
            /\ blocks' = blocks \cup {[from |-> offset, to |-> offset + n]}
         \/ UNCHANGED vars
<1>1. (offset + n) % Wrap = offset + n
  BY NoWrap
<1>. QED  BY <1>1 DEF GetMemory, Fits, Advance, vars

\* Every block stays in the buffer and below the offset.
THEOREM TypeCorrect == Spec => []TypeOK
<1>1. Init => TypeOK
  BY ArenaAssumption DEF Init, TypeOK
<1>2. TypeOK /\ [Next]_vars => TypeOK'
  <2>. SUFFICES ASSUME TypeOK, [Next]_vars PROVE TypeOK'
    OBVIOUS
  <2>1. ASSUME NEW n \in Requests, GetMemory(n) PROVE TypeOK'
    <3>. /\ SIZE \in Nat /\ n \in Nat /\ offset \in 0 .. SIZE
      BY ArenaAssumption DEF TypeOK
    <3>1. CASE /\ offset' = offset + n /\ offset + n <= SIZE
               /\ blocks' = blocks \cup {[from |-> offset, to |-> offset + n]}
      <4>1. [from |-> offset, to |-> offset + n] \in Block
        BY <3>1 DEF Block
      <4>2. offset' \in 0 .. SIZE
        BY <3>1
      <4>3. ASSUME NEW b \in blocks' PROVE b.from <= b.to /\ b.to <= offset'
        <5>1. CASE b \in blocks
          BY <5>1, <3>1 DEF TypeOK, Block
        <5>2. CASE b = [from |-> offset, to |-> offset + n]
          BY <5>2, <3>1
        <5>. QED  BY <5>1, <5>2, <3>1
      <4>. QED  BY <4>1, <4>2, <4>3, <3>1 DEF TypeOK
    <3>2. CASE UNCHANGED vars
      BY <3>2 DEF TypeOK, vars
    <3>. QED  BY <2>1, <3>1, <3>2, GetMemoryStep
  <2>2. CASE UNCHANGED vars
    BY <2>2 DEF TypeOK, vars
  <2>. QED  BY <2>1, <2>2 DEF Next
<1>. QED  BY <1>1, <1>2, PTL DEF Spec

\* No byte of the buffer is handed out twice: a block starts where all the
\* earlier ones have ended.
THEOREM NeverTwice == Spec => []Disjoint
<1>1. Init => Disjoint
  BY DEF Init, Disjoint
<1>2. TypeOK /\ Disjoint /\ [Next]_vars => Disjoint'
  <2>. SUFFICES ASSUME TypeOK, Disjoint, [Next]_vars PROVE Disjoint'
    OBVIOUS
  <2>1. ASSUME NEW n \in Requests, GetMemory(n) PROVE Disjoint'
    <3>. /\ SIZE \in Nat /\ n \in Nat /\ offset \in 0 .. SIZE
      BY ArenaAssumption DEF TypeOK
    <3>. DEFINE new == [from |-> offset, to |-> offset + n]
    <3>1. CASE blocks' = blocks \cup {new}
      <4>1. ASSUME NEW b \in blocks PROVE b.to <= new.from
        BY DEF TypeOK
      <4>. QED  BY <3>1, <4>1 DEF Disjoint
    <3>2. CASE UNCHANGED vars
      BY <3>2 DEF Disjoint, vars
    <3>. QED  BY <2>1, <3>1, <3>2, GetMemoryStep
  <2>2. CASE UNCHANGED vars
    BY <2>2 DEF Disjoint, vars
  <2>. QED  BY <2>1, <2>2 DEF Next
<1>. QED  BY <1>1, <1>2, TypeCorrect, PTL DEF Spec

\* No byte below the offset is lost: a granted request covers exactly the
\* bytes by which the offset advances.
THEOREM NothingLost == Spec => []NoGap
<1>1. Init => NoGap
  BY DEF Init, NoGap
<1>2. TypeOK /\ NoGap /\ [Next]_vars => NoGap'
  <2>. SUFFICES ASSUME TypeOK, NoGap, [Next]_vars PROVE NoGap'
    OBVIOUS
  <2>1. ASSUME NEW n \in Requests, GetMemory(n) PROVE NoGap'
    <3>. /\ SIZE \in Nat /\ n \in Nat /\ offset \in 0 .. SIZE
      BY ArenaAssumption DEF TypeOK
    <3>. DEFINE new == [from |-> offset, to |-> offset + n]
    <3>1. CASE offset' = offset + n /\ blocks' = blocks \cup {new}
      <4>. SUFFICES ASSUME NEW x \in 0 .. offset' - 1
                    PROVE  \E b \in blocks' : b.from <= x /\ x < b.to
        BY DEF NoGap
      <4>1. CASE x < offset
        BY <3>1, <4>1 DEF NoGap
      <4>2. CASE x >= offset
        <5>1. new.from <= x /\ x < new.to
          BY <3>1, <4>2
        <5>. QED  BY <3>1, <5>1
      <4>. QED  BY <3>1, <4>1, <4>2
    <3>2. CASE UNCHANGED vars
      BY <3>2 DEF NoGap, vars
    <3>. QED  BY <2>1, <3>1, <3>2, GetMemoryStep
  <2>2. CASE UNCHANGED vars
    BY <2>2 DEF NoGap, vars
  <2>. QED  BY <2>1, <2>2 DEF Next
<1>. QED  BY <1>1, <1>2, TypeCorrect, PTL DEF Spec

\* After any sequence of requests the blocks tile the buffer up to the offset.
THEOREM Tiles == Spec => []Tiled
<1>1. TypeOK /\ Disjoint /\ NoGap => Tiled
  BY DEF Tiled
<1>. QED  BY <1>1, TypeCorrect, NeverTwice, NothingLost, PTL

-----------------------------------------------------------------------------
(* Fifo2: cursors and slots.                                               *)

\* The slot of the k-th push and of the k-th pop.
Slot(k) == k % Capacity

LEMMA QueueSizes ==
  /\ Capacity \in Nat \ {0} /\ Modulus \in Nat \ {0} /\ Capacity < Modulus
  /\ Modulus % Capacity = 0
BY ProgramsAssumption DEF Queue!Fifo2Assumption

\* Fewer than Capacity consecutive pushes or pops go to different slots.
LEMMA SlotSame ==
  ASSUME NEW k \in Int, NEW j \in Int, Slot(k) = Slot(j), k - j < Capacity, j - k < Capacity
  PROVE  k = j
BY QueueSizes, ModSame DEF Slot

LEMMA SlotNext ==
  ASSUME NEW k \in Int
  PROVE  Slot(k + Capacity) = Slot(k) /\ Slot(k) \in 0 .. Capacity - 1
BY QueueSizes, ModNext, ModRange DEF Slot

\* The cursors run through the slots in order, also when they wrap around.
LEMMA CursorSlot ==
  ASSUME NEW k \in Nat
  PROVE  Queue!Element(k % Modulus) = Slot(k)
<1>1. k \in Int
  OBVIOUS
<1> QED
  BY <1>1, QueueSizes, ModNested, Zenon DEF Queue!Element, Slot

LEMMA CursorAdvance ==
  ASSUME NEW k \in Nat
  PROVE  Queue!Advance(k % Modulus) = (k + 1) % Modulus
<1>1. k \in Int /\ 1 \in Int
  OBVIOUS
<1> QED
  BY <1>1, QueueSizes, ModAdd, Zenon DEF Queue!Advance

\* The difference of two cursors is what it would be without wrapping around.
LEMMA CursorDistance ==
  ASSUME NEW k \in Nat, NEW j \in Nat, k - j \in 0 .. Capacity
  PROVE  Queue!Size(k % Modulus, j % Modulus) = k - j
<1>1. ((k % Modulus) - (j % Modulus)) % Modulus = (k - j) % Modulus
  <2>1. k \in Int /\ j \in Int
    OBVIOUS
  <2> QED
    BY <2>1, QueueSizes, ModDistance, Zenon
<1>2. k - j \in 0 .. Modulus - 1
  BY QueueSizes
<1>3. (k - j) % Modulus = k - j
  BY <1>2, QueueSizes, ModSmall
<1> QED
  BY <1>1, <1>3 DEF Queue!Size

-----------------------------------------------------------------------------
(* Fifo2: the inductive invariant.                                         *)

pushes == Len(sent)
pops   == Len(received)

Cursors ==
  /\ pushCursor = pushes % Modulus
  /\ pushPc # "destroyed" => popCursor = pops % Modulus

\* What the decisions of push and pop are worth once they are made: the other
\* thread can only add to the room, or to the elements, that they found.
Known ==
  /\ pops <= pushes /\ pushes - pops <= Capacity
  /\ pushPc \in {"check", "construct", "publish"} => pushes < MaxPushes
  /\ pushPc \in {"construct", "publish"} => pushes - pops < Capacity
  /\ popPc \in {"take", "destroy", "publish"} => pops < pushes

Ended == pushPc = "destroyed" <=> popPc = "destroyed"

\* What the slot of the k-th element holds, counted over the whole history.
Held(k) ==
  IF k < pushes THEN (IF k = pops /\ popPc = "publish" THEN Raw ELSE sent[k + 1])
                ELSE (IF k = pushes /\ pushPc = "publish" THEN pushItem ELSE Raw)

RingOK ==
  pushPc # "destroyed" => \A k \in pops .. pops + Capacity - 1 : slots[Slot(k)] = Held(k)

InOrder == popPc \in {"destroy", "publish"} => popItem = sent[pops + 1]

\* No assertion fails before a cursor has wrapped around.
Unwrapped == assertion = "failed" => pushes >= Modulus

QueueInv == Queue!TypeOK /\ Cursors /\ Known /\ Ended /\ RingOK /\ InOrder /\ Unwrapped

LEMMA QueueInitOK == ZeroInitialized /\ Queue!Init => QueueInv
<1> SUFFICES ASSUME ZeroInitialized, Queue!Init PROVE QueueInv
  OBVIOUS
<1> USE QueueSizes
<1>1. /\ sent = <<>> /\ received = <<>> /\ pushes = 0 /\ pops = 0
      /\ sent \in Seq(Values) /\ received \in Seq(Values)
  BY EmptySeq DEF Queue!Init, pushes, pops
<1>2. Queue!TypeOK /\ Ended
  BY <1>1 DEF Queue!Init, Queue!TypeOK, Ended
<1>3. Cursors /\ Known /\ InOrder /\ Unwrapped
  BY <1>1 DEF Queue!Init, Cursors, Known, InOrder, Unwrapped
<1>4. RingOK
  BY <1>1, SlotNext DEF Queue!Init, RingOK, Held
<1> QED
  BY <1>2, <1>3, <1>4 DEF QueueInv

\* The numbers that the invariant relates, and the slots that the threads use.
LEMMA QueueNumbers ==
  ASSUME QueueInv
  PROVE  /\ Capacity \in Nat \ {0} /\ Modulus \in Nat \ {0}
         /\ pushes \in Nat /\ pops \in Nat /\ pops <= pushes /\ pushes - pops <= Capacity
         /\ Queue!Element(pushCursor) = Slot(pushes) /\ Slot(pushes) \in 0 .. Capacity - 1
         /\ pushPc # "destroyed" =>
              /\ Queue!Element(popCursor) = Slot(pops)
              /\ Queue!Size(pushCursor, popCursor) = pushes - pops
         /\ Slot(pops) \in 0 .. Capacity - 1
<1>1. Queue!TypeOK /\ Cursors /\ Known
  BY DEF QueueInv
<1>2. pushes \in Nat /\ pops \in Nat
  BY <1>1, LenProperties DEF Queue!TypeOK, pushes, pops
<1>3. pushes - pops \in 0 .. Capacity
  BY <1>1, <1>2, QueueSizes DEF Known
<1>4. Queue!Element(pushCursor) = Slot(pushes)
  BY <1>1, <1>2, CursorSlot DEF Cursors
<1>5. ASSUME pushPc # "destroyed"
      PROVE  /\ Queue!Element(popCursor) = Slot(pops)
             /\ Queue!Size(pushCursor, popCursor) = pushes - pops
  BY <1>1, <1>2, <1>3, <1>5, CursorSlot, CursorDistance DEF Cursors
<1>6. Slot(pushes) \in 0 .. Capacity - 1 /\ Slot(pops) \in 0 .. Capacity - 1
  <2>1. pushes \in Int /\ pops \in Int
    BY <1>2
  <2> QED
    BY <1>1, <2>1, SlotNext
<1> QED
  BY <1>1, <1>2, <1>3, <1>4, <1>5, <1>6, QueueSizes DEF Known

\* The threads are never at the same slot unless it is empty for one and full
\* for the other.
LEMMA Distinct ==
  ASSUME QueueInv, pops < pushes, pushes - pops < Capacity
  PROVE  Slot(pushes) # Slot(pops)
BY QueueNumbers, SlotSame

\* The assertion of size(), as long as no cursor has wrapped around.
LEMMA InStep ==
  ASSUME QueueInv, pushPc # "destroyed", pushes < Modulus
  PROVE  popCursor <= pushCursor
<1> USE QueueNumbers
<1>1. pushes \in 0 .. Modulus - 1 /\ pops \in 0 .. Modulus - 1
  OBVIOUS
<1>2. pushes % Modulus = pushes /\ pops % Modulus = pops
  BY <1>1, ModSmall
<1> QED
  BY <1>2 DEF QueueInv, Cursors

\* What a pop that goes on finds.
LEMMA PopFinds ==
  ASSUME QueueInv, popPc \in {"take", "destroy"}
  PROVE  /\ pops < pushes /\ pushPc # "destroyed"
         /\ slots[Slot(pops)] = sent[pops + 1] /\ sent[pops + 1] \in Values
<1> USE QueueNumbers
<1>1. pops < pushes /\ pushPc # "destroyed" /\ Queue!TypeOK /\ RingOK
  BY DEF QueueInv, Known, Ended
<1>2. slots[Slot(pops)] = Held(pops) /\ Held(pops) = sent[pops + 1]
  BY <1>1 DEF RingOK, Held
<1>3. pops + 1 \in 1 .. Len(sent) /\ sent \in Seq(Values)
  BY <1>1 DEF Queue!TypeOK, pushes
<1> QED
  BY <1>1, <1>2, <1>3, ElementOfSeq

\* The steps of push.
LEMMA PushStepOK ==
  ASSUME QueueInv, Queue!PushStep \/ \E v \in Values : Queue!PushAssert(v)
  PROVE  QueueInv'
<1> USE QueueNumbers
<1>1. Queue!TypeOK /\ Cursors /\ Known /\ Ended /\ RingOK /\ InOrder /\ Unwrapped
  BY DEF QueueInv
<1>2. ASSUME NEW v \in Values, Queue!PushAssert(v)
      PROVE  QueueInv'
  BY <1>1, <1>2
     DEF Queue!PushAssert, Queue!popVars, QueueInv, Queue!TypeOK, Cursors, Known, Ended,
         RingOK, Held, InOrder, Unwrapped, pushes, pops
<1>3. CASE Queue!PushCheck
  <2>1. /\ pushPc = "check"
        /\ UNCHANGED <<assertion, slots, pushCursor, sent, popCursor, popPc, popItem, received>>
        /\ \/ pushPc' = "idle" /\ pushItem' = Raw
           \/ pushes - pops < Capacity /\ pushPc' = "construct" /\ pushItem' = pushItem
    BY <1>1, <1>3 DEF Queue!PushCheck, Queue!popVars, Queue!Full
  <2>2. Queue!TypeOK' /\ Cursors' /\ Known' /\ Ended' /\ RingOK' /\ InOrder' /\ Unwrapped'
    BY <1>1, <2>1
       DEF Queue!TypeOK, Cursors, Known, Ended, RingOK, Held, InOrder, Unwrapped, pushes, pops
  <2> QED
    BY <1>1, <2>2 DEF QueueInv
<1>4. CASE Queue!PushConstruct
  <2>1. /\ pushPc = "construct" /\ pushPc' = "publish"
        /\ slots' = [slots EXCEPT ![Slot(pushes)] = pushItem]
        /\ UNCHANGED <<assertion, pushCursor, pushItem, sent, popCursor, popPc, popItem, received>>
        /\ pushes' = pushes /\ pops' = pops
    BY <1>4 DEF Queue!PushConstruct, Queue!popVars, pushes, pops
  <2>2. Queue!TypeOK' /\ Cursors' /\ Known' /\ Ended' /\ InOrder' /\ Unwrapped'
    BY <1>1, <2>1 DEF Queue!TypeOK, Cursors, Known, Ended, InOrder, Unwrapped
  <2>3. RingOK'
    <3> SUFFICES ASSUME NEW k \in pops .. pops + Capacity - 1
                 PROVE  slots'[Slot(k)] = Held(k)'
      BY <2>1 DEF RingOK
    <3>1. slots[Slot(k)] = Held(k) /\ Slot(k) \in 0 .. Capacity - 1
      BY <1>1, <2>1, SlotNext DEF RingOK
    <3>2. k # pushes => Slot(k) # Slot(pushes)
      <4>1. pushes \in pops .. pops + Capacity - 1
        BY <1>1, <2>1 DEF Known
      <4> QED
        BY <4>1, SlotSame
    <3> QED
      BY <1>1, <2>1, <3>1, <3>2 DEF Held, Queue!TypeOK
  <2> QED
    BY <1>1, <2>2, <2>3 DEF QueueInv
<1>5. CASE Queue!PushThrow
  BY <1>1, <1>5
     DEF Queue!PushThrow, Queue!popVars, QueueInv, Queue!TypeOK, Cursors, Known, Ended,
         RingOK, Held, InOrder, Unwrapped, pushes, pops
<1>6. CASE Queue!PushPublish
  <2>1. /\ pushPc = "publish" /\ pushPc' = "idle" /\ pushCursor' = Queue!Advance(pushCursor)
        /\ sent' = Append(sent, pushItem) /\ pushItem' = Raw
        /\ UNCHANGED <<assertion, slots, popCursor, popPc, popItem, received>> /\ pops' = pops
    BY <1>6 DEF Queue!PushPublish, Queue!popVars, pops
  <2>2. pushItem \in Values /\ sent \in Seq(Values)
    BY <1>1, <2>1 DEF Queue!TypeOK
  <2>3. /\ sent' \in Seq(Values) /\ pushes' = pushes + 1
        /\ \A i \in 1 .. pushes : sent'[i] = sent[i]
        /\ sent'[pushes + 1] = pushItem
    BY <2>1, <2>2, AppendProperties DEF pushes
  <2>4. pushes < MaxPushes /\ pushes - pops < Capacity
    BY <1>1, <2>1 DEF Known
  <2>5. pushCursor' = (pushes + 1) % Modulus
    BY <1>1, <2>1, CursorAdvance DEF Cursors
  <2>6. Cursors' /\ Ended' /\ Unwrapped'
    BY <1>1, <2>1, <2>3, <2>5 DEF Cursors, Ended, Unwrapped
  <2>7. Queue!TypeOK'
    <3>1. pushCursor' \in 0 .. Modulus - 1
      <4>1. pushes + 1 \in Int
        OBVIOUS
      <4> QED
        BY <2>5, <4>1, ModRange
    <3> QED
      BY <1>1, <2>1, <2>3, <3>1 DEF Queue!TypeOK
  <2>8. Known'
    BY <1>1, <2>1, <2>3, <2>4 DEF Known
  <2>9. InOrder'
    <3>1. ASSUME popPc \in {"destroy", "publish"}
          PROVE  popItem = sent'[pops + 1]
      <4>1. pops + 1 \in 1 .. pushes
        BY <1>1, <3>1 DEF Known
      <4> QED
        BY <1>1, <2>3, <3>1, <4>1 DEF InOrder
    <3> QED
      BY <2>1, <3>1 DEF InOrder
  <2>10. /\ pushes' = pushes + 1 /\ pops' = pops
         /\ popPc' = popPc /\ pushPc' = "idle" /\ pushPc = "publish"
    BY <2>1, <2>3
  <2>11. RingOK'
    <3> SUFFICES ASSUME NEW k \in pops .. pops + Capacity - 1
                 PROVE  slots[Slot(k)] = Held(k)'
      BY <2>1 DEF RingOK
    <3>1. slots[Slot(k)] = Held(k)
      BY <1>1, <2>1 DEF RingOK
    <3>2. CASE k < pushes
      <4>1. k + 1 \in 1 .. pushes
        BY <3>2
      <4> QED
        BY <2>3, <2>10, <3>1, <3>2, <4>1 DEF Held
    <3>3. CASE k = pushes
      <4>1. slots[Slot(k)] = pushItem /\ (popPc = "publish" => k # pops)
        BY <1>1, <2>1, <3>1, <3>3 DEF Held, Known
      <4> QED
        BY <2>3, <2>10, <3>3, <4>1 DEF Held
    <3>4. CASE k > pushes
      BY <2>10, <3>1, <3>4 DEF Held
    <3> QED
      BY <3>2, <3>3, <3>4
  <2> QED
    BY <1>1, <2>6, <2>7, <2>8, <2>9, <2>11 DEF QueueInv
<1> QED
  BY <1>2, <1>3, <1>4, <1>5, <1>6 DEF Queue!PushStep

\* The steps of pop.
LEMMA PopStepOK ==
  ASSUME QueueInv, Queue!PopStep \/ Queue!PopAssert
  PROVE  QueueInv'
<1> USE QueueNumbers
<1>1. Queue!TypeOK /\ Cursors /\ Known /\ Ended /\ RingOK /\ InOrder /\ Unwrapped
  BY DEF QueueInv
<1>2. CASE Queue!PopAssert
  BY <1>1, <1>2
     DEF Queue!PopAssert, Queue!pushVars, QueueInv, Queue!TypeOK, Cursors, Known, Ended,
         RingOK, Held, InOrder, Unwrapped, pushes, pops
<1>3. CASE Queue!PopCheck
  <2>1. /\ popPc = "check"
        /\ UNCHANGED <<assertion, slots, popCursor, popItem, received, pushCursor, pushPc, pushItem,
                       sent>>
        /\ \/ popPc' = "idle"
           \/ pops # pushes /\ popPc' = "take"
    <3>1. pushPc # "destroyed"
      BY <1>1, <1>3 DEF Queue!PopCheck, Ended
    <3>2. Queue!Empty(pushCursor, popCursor) <=> pushes - pops = 0
      BY <3>1 DEF Queue!Empty
    <3> QED
      BY <1>3, <3>2 DEF Queue!PopCheck, Queue!pushVars
  <2>2. Queue!TypeOK' /\ Cursors' /\ Known' /\ Ended' /\ RingOK' /\ InOrder' /\ Unwrapped'
    BY <1>1, <2>1
       DEF Queue!TypeOK, Cursors, Known, Ended, RingOK, Held, InOrder, Unwrapped, pushes, pops
  <2> QED
    BY <1>1, <2>2 DEF QueueInv
<1>4. CASE Queue!PopTake
  <2>1. /\ popPc = "take" /\ popPc' = "destroy" /\ popItem' = sent[pops + 1]
        /\ UNCHANGED <<assertion, slots, popCursor, received, pushCursor, pushPc, pushItem, sent>>
        /\ sent[pops + 1] \in Values /\ pushes' = pushes /\ pops' = pops
    BY <1>4, PopFinds DEF Queue!PopTake, Queue!pushVars, pushes, pops
  <2>2. Queue!TypeOK' /\ Cursors' /\ Known' /\ Ended' /\ RingOK' /\ InOrder' /\ Unwrapped'
    BY <1>1, <2>1 DEF Queue!TypeOK, Cursors, Known, Ended, RingOK, Held, InOrder, Unwrapped
  <2> QED
    BY <1>1, <2>2 DEF QueueInv
<1>5. CASE Queue!PopThrow
  BY <1>1, <1>5
     DEF Queue!PopThrow, Queue!pushVars, QueueInv, Queue!TypeOK, Cursors, Known, Ended,
         RingOK, Held, InOrder, Unwrapped, pushes, pops
<1>6. CASE Queue!PopDestroy
  <2>1. /\ popPc = "destroy" /\ popPc' = "publish" /\ pops < pushes /\ pushPc # "destroyed"
        /\ slots' = [slots EXCEPT ![Slot(pops)] = Raw]
        /\ UNCHANGED <<assertion, popCursor, popItem, received, pushCursor, pushPc, pushItem, sent>>
        /\ pushes' = pushes /\ pops' = pops
    BY <1>6, PopFinds DEF Queue!PopDestroy, Queue!pushVars, pushes, pops
  <2>2. Queue!TypeOK' /\ Cursors' /\ Known' /\ Ended' /\ InOrder' /\ Unwrapped'
    BY <1>1, <2>1 DEF Queue!TypeOK, Cursors, Known, Ended, InOrder, Unwrapped
  <2>3. RingOK'
    <3> SUFFICES ASSUME NEW k \in pops .. pops + Capacity - 1
                 PROVE  slots'[Slot(k)] = Held(k)'
      BY <2>1 DEF RingOK
    <3>1. slots[Slot(k)] = Held(k) /\ Slot(k) \in 0 .. Capacity - 1
      BY <1>1, <2>1, SlotNext DEF RingOK
    <3>2. k # pops => Slot(k) # Slot(pops)
      BY SlotSame
    <3> QED
      BY <1>1, <2>1, <3>1, <3>2 DEF Held, Queue!TypeOK
  <2> QED
    BY <1>1, <2>2, <2>3 DEF QueueInv
<1>7. CASE Queue!PopPublish
  <2>1. /\ popPc = "publish" /\ popPc' = "idle" /\ popCursor' = Queue!Advance(popCursor)
        /\ received' = Append(received, popItem) /\ popItem' = Raw
        /\ UNCHANGED <<assertion, slots, pushCursor, pushPc, pushItem, sent>> /\ pushes' = pushes
    BY <1>7 DEF Queue!PopPublish, Queue!pushVars, pushes
  <2>2. pops < pushes /\ pushPc # "destroyed"
    BY <1>1, <2>1 DEF Known, Ended
  <2>3. received' \in Seq(Values) /\ pops' = pops + 1
    <3>1. popItem \in Values /\ received \in Seq(Values)
      BY <1>1, <2>1 DEF Queue!TypeOK
    <3> QED
      BY <2>1, <3>1, AppendProperties DEF pops
  <2>4. popCursor' = (pops + 1) % Modulus
    BY <1>1, <2>1, <2>2, CursorAdvance DEF Cursors
  <2>5. Cursors' /\ Ended' /\ InOrder' /\ Unwrapped'
    BY <1>1, <2>1, <2>2, <2>3, <2>4 DEF Cursors, Ended, InOrder, Unwrapped
  <2>6. Queue!TypeOK'
    <3>1. popCursor' \in 0 .. Modulus - 1
      <4>1. pops + 1 \in Int
        OBVIOUS
      <4> QED
        BY <2>4, <4>1, ModRange
    <3> QED
      BY <1>1, <2>1, <2>3, <3>1 DEF Queue!TypeOK
  <2>7. Known'
    BY <1>1, <2>1, <2>2, <2>3 DEF Known
  <2>8. RingOK'
    <3> SUFFICES ASSUME NEW k \in pops + 1 .. pops + Capacity
                 PROVE  slots[Slot(k)] = Held(k)'
      <4>1. pops' .. pops' + Capacity - 1 = pops + 1 .. pops + Capacity
        BY <2>3
      <4> QED
        BY <2>1, <4>1 DEF RingOK
    <3>1. CASE k = pops + Capacity
      <4>1. slots[Slot(pops)] = Raw
        BY <1>1, <2>1, <2>2 DEF RingOK, Held
      <4>2. Slot(k) = Slot(pops)
        BY <3>1, SlotNext
      <4>3. pushes <= k /\ (pushPc = "publish" => pushes < k)
        BY <1>1, <3>1 DEF Known
      <4> QED
        BY <2>1, <4>1, <4>2, <4>3 DEF Held
    <3>2. CASE k # pops + Capacity
      <4>1. slots[Slot(k)] = Held(k)
        BY <1>1, <2>2, <3>2 DEF RingOK
      <4> QED
        BY <2>1, <2>3, <4>1 DEF Held
    <3> QED
      BY <3>1, <3>2
  <2> QED
    BY <1>1, <2>5, <2>6, <2>7, <2>8 DEF QueueInv
<1> QED
  BY <1>2, <1>3, <1>4, <1>5, <1>6, <1>7 DEF Queue!PopStep

LEMMA QueueDestroyOK ==
  ASSUME QueueInv, Queue!Destroy
  PROVE  QueueInv'
<1>1. Queue!TypeOK /\ Cursors /\ Known /\ Ended /\ Unwrapped
  BY DEF QueueInv
<1>2. /\ pushPc = "idle" /\ popPc = "idle"
      /\ pushPc' = "destroyed" /\ popPc' = "destroyed" /\ popCursor' = pushCursor
      /\ UNCHANGED <<assertion, pushCursor, pushItem, sent, popItem, received>>
      /\ pushes' = pushes /\ pops' = pops
  BY DEF Queue!Destroy, pushes, pops
<1>3. slots' \in [0 .. Capacity - 1 -> Values \cup {Raw}]
  BY <1>1 DEF Queue!Destroy, Queue!TypeOK
<1>4. Queue!TypeOK'
  BY <1>1, <1>2, <1>3 DEF Queue!TypeOK
<1>5. Cursors' /\ Known' /\ Ended' /\ RingOK' /\ InOrder' /\ Unwrapped'
  BY <1>1, <1>2 DEF Cursors, Known, Ended, RingOK, InOrder, Unwrapped
<1> QED
  BY <1>1, <1>4, <1>5 DEF QueueInv

\* A failed assertion leaves everything as it is; it takes a cursor that has
\* wrapped around.
LEMMA AbortOK ==
  ASSUME QueueInv, Queue!Abort
  PROVE  QueueInv'
<1>1. ~(popCursor <= pushCursor) /\ assertion' = "failed" /\ pushPc # "destroyed"
  BY DEF Queue!Abort, Queue!Asserted, QueueInv, Ended
<1>2. UNCHANGED <<slots, pushCursor, pushPc, pushItem, sent, popCursor, popPc, popItem, received>>
  BY DEF Queue!Abort, Queue!pushVars, Queue!popVars
<1>3. pushes >= Modulus
  BY <1>1, InStep, QueueNumbers
<1>4. /\ Queue!TypeOK' /\ Cursors' /\ Known' /\ Ended' /\ RingOK' /\ InOrder' /\ Unwrapped'
  BY <1>1, <1>2, <1>3
     DEF QueueInv, Queue!TypeOK, Cursors, Known, Ended, RingOK, Held, InOrder, Unwrapped,
         pushes, pops
<1> QED
  BY <1>4 DEF QueueInv

LEMMA QueueStepOK == QueueInv /\ [Queue!Next]_Queue!vars => QueueInv'
<1>1. QueueInv /\ UNCHANGED Queue!vars => QueueInv'
  BY DEF Queue!vars, Queue!pushVars, Queue!popVars, QueueInv, Queue!TypeOK, Cursors, Known,
         Ended, RingOK, Held, InOrder, Unwrapped, pushes, pops
<1> QED
  BY <1>1, PushStepOK, PopStepOK, QueueDestroyOK, AbortOK DEF Queue!Next

\* QueueInv holds in every reachable state.
THEOREM QueueInvariance == ZeroInitialized => (Queue!Spec => []QueueInv)
<1> SUFFICES ASSUME ZeroInitialized PROVE Queue!Spec => []QueueInv
  OBVIOUS
<1>1. Queue!Init => QueueInv
  BY QueueInitOK
<1> QED
  BY <1>1, QueueStepOK, PTL DEF Queue!Spec

-----------------------------------------------------------------------------
(* Fifo2: what follows from it.                                            *)

\* push and pop are never about to use the same slot, although each has loaded
\* the other's cursor some time ago, and size() is exact for its two callers.
THEOREM SafeInTwoThreads == ZeroInitialized => (Queue!Spec => []ThreadSafe)
<1> SUFFICES ASSUME ZeroInitialized PROVE Queue!Spec => []ThreadSafe
  OBVIOUS
<1>1. QueueInv => ThreadSafe
  <2> SUFFICES ASSUME QueueInv PROVE ThreadSafe
    OBVIOUS
  <2> USE QueueNumbers
  <2>1. Queue!TypeOK /\ Cursors /\ Known /\ Ended
    BY DEF QueueInv
  <2>2. Queue!NoConflict
    BY <2>1, Distinct DEF Queue!NoConflict, Known
  <2>3. ASSUME pushPc # "destroyed", pushes < Modulus
        PROVE  popCursor <= pushCursor /\ assertion # "failed"
    BY <2>3, InStep DEF QueueInv, Unwrapped
  <2>4. Queue!OwnersSizeExact
    BY <2>3 DEF Queue!OwnersSizeExact, pushes, pops
  <2> QED
    BY <2>1, <2>2, <2>4 DEF ThreadSafe, Queue!ThreadSafe
<1> QED
  BY <1>1, QueueInvariance, PTL

\* At the load that decides it, push returns false if and only if the ring
\* holds Capacity elements, pop if and only if it holds none: where Fifo1 would.
RefusesExactly ==
  /\ Queue!PushCheck => (pushPc' = "idle" <=> pushes - pops = Capacity)
  /\ Queue!PopCheck => (popPc' = "idle" <=> pushes = pops)

\* "`false` if fifo is full" and "`false` if fifo is empty" (spsc_q2.cpp:49,60)
\* hold at one moment of the call, across wrap-arounds, whatever the other
\* thread does before and after it.
THEOREM AnswersInTwoThreads == ZeroInitialized => (Queue!Spec => [][RefusesExactly]_(Queue!vars))
<1> SUFFICES ASSUME ZeroInitialized PROVE Queue!Spec => [][RefusesExactly]_(Queue!vars)
  OBVIOUS
<1>1. QueueInv => RefusesExactly
  <2> SUFFICES ASSUME QueueInv PROVE RefusesExactly
    OBVIOUS
  <2> USE QueueNumbers
  <2>1. ASSUME Queue!PushCheck
        PROVE  pushPc' = "idle" <=> pushes - pops = Capacity
    BY <2>1 DEF Queue!PushCheck, Queue!Full
  <2>2. ASSUME Queue!PopCheck
        PROVE  popPc' = "idle" <=> pushes = pops
    <3>1. popPc = "check" /\ pushPc # "destroyed"
      BY <2>2 DEF Queue!PopCheck, QueueInv, Ended
    <3> QED
      BY <2>2, <3>1 DEF Queue!PopCheck, Queue!Empty
  <2> QED
    BY <2>1, <2>2 DEF RefusesExactly
<1>2. QueueInv /\ [Queue!Next]_(Queue!vars) => [RefusesExactly]_(Queue!vars)
  BY <1>1
<1> QED
  BY <1>2, QueueInvariance, PTL DEF Queue!Spec

-----------------------------------------------------------------------------
(* Fifo2: the refinement of Fifo1.                                         *)

\* What a sequential observer sees in each slot.
LEMMA CommittedSlots ==
  ASSUME QueueInv
  PROVE  /\ DOMAIN Queue!Committed = 0 .. Capacity - 1 /\ DOMAIN slots = 0 .. Capacity - 1
         /\ \A i \in 0 .. Capacity - 1 :
              Queue!Committed[i] = IF pushPc = "publish" /\ i = Slot(pushes) THEN Raw
                             ELSE IF popPc = "publish" /\ i = Slot(pops) THEN popItem
                             ELSE slots[i]
<1>1. DOMAIN slots = 0 .. Capacity - 1
  BY DEF QueueInv, Queue!TypeOK
<1>2. popPc = "publish" => pushPc # "destroyed"
  BY DEF QueueInv, Ended
<1> QED
  BY <1>1, <1>2, QueueNumbers DEF Queue!Committed

\* With an object constructed and not published there is room for it, with one
\* destroyed and not published there is one less to pop.
LEMMA Apart ==
  ASSUME QueueInv, pushPc \in {"construct", "publish"}, popPc \in {"take", "destroy", "publish"}
  PROVE  Slot(pushes) # Slot(pops)
BY Distinct DEF QueueInv, Known

\* The steps inside the calls are invisible.
LEMMA InsideStutters ==
  ASSUME QueueInv, [Queue!Next]_Queue!vars, ~Queue!PushPublish, ~Queue!PopPublish, ~Queue!Destroy
  PROVE  UNCHANGED <<Queue!Committed, pushCursor, popCursor, pushPc # "destroyed", sent, received>>
<1> USE QueueNumbers
<1>1. /\ UNCHANGED <<pushCursor, popCursor, sent, received>>
      /\ pushPc = "destroyed" <=> pushPc' = "destroyed"
  BY DEF Queue!Next, Queue!vars, Queue!PushStep, Queue!PopStep, Queue!PushAssert,
         Queue!PushCheck, Queue!PushConstruct, Queue!PushThrow, Queue!PopAssert,
         Queue!PopCheck, Queue!PopTake, Queue!PopThrow, Queue!PopDestroy, Queue!Abort,
         Queue!pushVars, Queue!popVars
<1>2. /\ Queue!TypeOK /\ Known /\ RingOK /\ InOrder /\ Ended
      /\ DOMAIN slots = 0 .. Capacity - 1
  BY CommittedSlots DEF QueueInv
<1>3. CASE Queue!PushConstruct
  <2>1. /\ pushPc = "construct" /\ pushPc' = "publish"
        /\ slots' = [slots EXCEPT ![Slot(pushes)] = pushItem]
        /\ UNCHANGED <<popPc, popItem>>
    BY <1>3 DEF Queue!PushConstruct, Queue!popVars
  <2>2. slots[Slot(pushes)] = Raw
    <3>1. pushes \in pops .. pops + Capacity - 1
      BY <1>2, <2>1 DEF Known
    <3> QED
      BY <1>2, <2>1, <3>1 DEF RingOK, Held
  <2>3. Queue!Committed' = Queue!Committed
    BY <1>1, <1>2, <2>1, <2>2, Apart DEF Queue!Committed, Ended
  <2> QED
    BY <1>1, <2>3
<1>4. CASE Queue!PopDestroy
  <2>1. /\ popPc = "destroy" /\ popPc' = "publish" /\ pushPc # "destroyed"
        /\ slots' = [slots EXCEPT ![Slot(pops)] = Raw]
        /\ UNCHANGED <<pushPc, popItem>>
    BY <1>4, PopFinds DEF Queue!PopDestroy, Queue!pushVars
  <2>2. slots[Slot(pops)] = popItem
    BY <1>2, <2>1, PopFinds DEF InOrder
  <2>3. Queue!Committed' = Queue!Committed
    BY <1>1, <1>2, <2>1, <2>2, Apart DEF Queue!Committed
  <2> QED
    BY <1>1, <2>3
<1>5. CASE ~Queue!PushConstruct /\ ~Queue!PopDestroy
  <2>1. /\ slots' = slots
        /\ pushPc = "publish" <=> pushPc' = "publish"
        /\ popPc = "publish" <=> popPc' = "publish"
        /\ popPc = "publish" => popItem' = popItem
    BY <1>5
       DEF Queue!Next, Queue!vars, Queue!PushStep, Queue!PopStep, Queue!PushAssert,
           Queue!PushCheck, Queue!PushThrow, Queue!PushPublish, Queue!PopAssert,
           Queue!PopCheck, Queue!PopTake, Queue!PopThrow, Queue!PopPublish, Queue!Abort,
           Queue!pushVars, Queue!popVars
  <2>2. Queue!Committed' = Queue!Committed
    BY <1>1, <2>1 DEF Queue!Committed
  <2> QED
    BY <1>1, <2>2
<1> QED
  BY <1>3, <1>4, <1>5

\* The increment of its cursor is where push takes effect.
LEMMA PushRefines ==
  ASSUME QueueInv, Queue!PushPublish
  PROVE  Queue!Sequential!Push(pushItem) /\ pushItem \in Values
<1> USE QueueNumbers
<1>1. /\ Queue!TypeOK /\ Known /\ RingOK /\ Ended
  BY DEF QueueInv
<1>2. /\ pushPc = "publish" /\ pushPc' = "idle" /\ pushCursor' = Queue!Advance(pushCursor)
      /\ sent' = Append(sent, pushItem)
      /\ UNCHANGED <<slots, popCursor, popPc, popItem, received>>
  BY DEF Queue!PushPublish, Queue!popVars
<1>3. /\ pushItem \in Values /\ Len(sent) < MaxPushes /\ pushes - pops < Capacity
      /\ ~Queue!Full(pushCursor, popCursor)
  BY <1>1, <1>2 DEF Queue!TypeOK, Known, Queue!Full, pushes
<1>4. slots[Slot(pushes)] = pushItem
  <2>1. pushes \in pops .. pops + Capacity - 1
    BY <1>1, <1>3 DEF Known
  <2> QED
    BY <1>1, <1>2, <2>1 DEF RingOK, Held
<1>5. Queue!Committed' = [Queue!Committed EXCEPT ![Queue!Element(pushCursor)] = pushItem]
  <2>1. popPc = "publish" => Slot(pushes) # Slot(pops)
    BY <1>2, Apart
  <2> QED
    BY <1>1, <1>2, <1>4, <2>1, CommittedSlots DEF Queue!Committed
<1> QED
  BY <1>2, <1>3, <1>5
     DEF Queue!Sequential!Push, Queue!Sequential!Asserted, Queue!Sequential!Full,
         Queue!Sequential!Size,
         Queue!Sequential!Element, Queue!Sequential!Advance, Queue!Full, Queue!Size,
         Queue!Element, Queue!Advance

\* And where pop does.
LEMMA PopRefines ==
  ASSUME QueueInv, Queue!PopPublish
  PROVE  Queue!Sequential!Pop
<1> USE QueueNumbers
<1>1. /\ Queue!TypeOK /\ Known /\ RingOK /\ Ended
  BY DEF QueueInv
<1>2. /\ popPc = "publish" /\ popPc' = "idle" /\ popCursor' = Queue!Advance(popCursor)
      /\ received' = Append(received, popItem)
      /\ UNCHANGED <<slots, pushCursor, pushPc, sent>>
  BY DEF Queue!PopPublish, Queue!pushVars
<1>3. pops < pushes /\ pushPc # "destroyed"
  BY <1>1, <1>2 DEF Known, Ended
<1>4. ~Queue!Empty(pushCursor, popCursor)
  BY <1>3 DEF Queue!Empty
<1>5. slots[Slot(pops)] = Raw
  BY <1>1, <1>2, <1>3 DEF RingOK, Held
<1>6. pushPc = "publish" => Slot(pushes) # Slot(pops)
  BY <1>2, Apart
<1>7. Queue!Committed[Queue!Element(popCursor)] = popItem
  BY <1>2, <1>3, <1>6, CommittedSlots
<1>8. Queue!Committed' = [Queue!Committed EXCEPT ![Queue!Element(popCursor)] = Raw]
  BY <1>1, <1>2, <1>3, <1>5, <1>6, CommittedSlots DEF Queue!Committed
<1> QED
  BY <1>2, <1>3, <1>4, <1>7, <1>8
     DEF Queue!Sequential!Pop, Queue!Sequential!Asserted, Queue!Sequential!Empty,
         Queue!Sequential!Size,
         Queue!Sequential!Element, Queue!Sequential!Advance, Queue!Empty, Queue!Size, Queue!Element, Queue!Advance

\* The destructor runs between calls, when nothing is half done.
LEMMA DestroyRefines ==
  ASSUME QueueInv, Queue!Destroy
  PROVE  Queue!Sequential!Destroy
<1>1. /\ pushPc = "idle" /\ popPc = "idle" /\ pushPc' = "destroyed" /\ popPc' = "destroyed"
      /\ slots' = [i \in DOMAIN slots |->
                     IF i \in Queue!Remaining(pushCursor, popCursor) THEN Raw ELSE slots[i]]
      /\ popCursor' = pushCursor /\ UNCHANGED <<pushCursor, sent, received>>
  BY DEF Queue!Destroy
<1>2. Queue!Committed = [i \in DOMAIN slots |-> slots[i]]
      /\ Queue!Committed' = [i \in DOMAIN slots' |-> slots'[i]]
  BY <1>1 DEF Queue!Committed
<1>3. Queue!Remaining(pushCursor, popCursor) = Queue!Sequential!Remaining(pushCursor, popCursor)
  BY DEF Queue!Remaining, Queue!Sequential!Remaining, Queue!Element,
         Queue!Sequential!Element, Queue!Size, Queue!Sequential!Size
<1> QED
  BY <1>1, <1>2, <1>3 DEF Queue!Sequential!Destroy, Queue!Sequential!Asserted

LEMMA QueueStepRefines ==
  QueueInv /\ [Queue!Next]_Queue!vars => [Queue!Sequential!Next]_Queue!Sequential!vars
<1> SUFFICES ASSUME QueueInv, [Queue!Next]_Queue!vars
             PROVE  [Queue!Sequential!Next]_Queue!Sequential!vars
  OBVIOUS
<1>1. CASE Queue!PushPublish
  BY <1>1, PushRefines DEF Queue!Sequential!Next
<1>2. CASE Queue!PopPublish
  BY <1>2, PopRefines DEF Queue!Sequential!Next
<1>3. CASE Queue!Destroy
  BY <1>3, DestroyRefines DEF Queue!Sequential!Next
<1>4. CASE ~Queue!PushPublish /\ ~Queue!PopPublish /\ ~Queue!Destroy
  BY <1>4, InsideStutters DEF Queue!Sequential!vars
<1> QED
  BY <1>1, <1>2, <1>3, <1>4

LEMMA Sequentially == ZeroInitialized => (Queue!Spec => Queue!Sequential!Spec)
<1> SUFFICES ASSUME ZeroInitialized PROVE Queue!Spec => Queue!Sequential!Spec
  OBVIOUS
<1>1. Queue!Init => Queue!Sequential!Init
  <2> SUFFICES ASSUME Queue!Init PROVE Queue!Sequential!Init
    OBVIOUS
  <2>1. Queue!Committed = [i \in 0 .. Capacity - 1 |-> Raw]
    BY DEF Queue!Init, Queue!Committed
  <2> QED
    BY <2>1 DEF Queue!Init, Queue!Sequential!Init
<1> QED
  BY <1>1, QueueInvariance, QueueStepRefines, PTL DEF Queue!Spec, Queue!Sequential!Spec

-----------------------------------------------------------------------------
(* Fifo2: the bounded queue that Fifo1 implements.                         *)

LEMMA StepBounded ==
  QueueInv /\ [Queue!Next]_Queue!vars => [Queue!Sequential!Abstract!Next]_<<sent, received>>
<1> SUFFICES ASSUME QueueInv, [Queue!Next]_Queue!vars
             PROVE  [Queue!Sequential!Abstract!Next]_<<sent, received>>
  OBVIOUS
<1>1. Queue!TypeOK /\ Known /\ InOrder
  BY DEF QueueInv
<1>2. CASE Queue!PushPublish
  <2>1. pushItem \in Values /\ Len(sent) - Len(received) < Capacity
    BY <1>1, <1>2 DEF Queue!PushPublish, Queue!TypeOK, Known, pushes, pops
  <2>2. sent' = Append(sent, pushItem) /\ received' = received
    BY <1>2 DEF Queue!PushPublish, Queue!popVars
  <2> QED
    BY <2>1, <2>2 DEF Queue!Sequential!Abstract!Push, Queue!Sequential!Abstract!Next
<1>3. CASE Queue!PopPublish
  <2>1. Len(received) < Len(sent) /\ popItem = sent[Len(received) + 1]
    BY <1>1, <1>3 DEF Queue!PopPublish, Known, InOrder, pushes, pops
  <2>2. received' = Append(received, popItem) /\ sent' = sent
    BY <1>3 DEF Queue!PopPublish, Queue!pushVars
  <2> QED
    BY <2>1, <2>2 DEF Queue!Sequential!Abstract!Pop, Queue!Sequential!Abstract!Next
<1>4. CASE ~Queue!PushPublish /\ ~Queue!PopPublish
  BY <1>4
     DEF Queue!Next, Queue!vars, Queue!PushStep, Queue!PopStep, Queue!PushAssert,
         Queue!PushCheck, Queue!PushConstruct, Queue!PushThrow, Queue!PopAssert,
         Queue!PopCheck, Queue!PopTake, Queue!PopThrow, Queue!PopDestroy, Queue!Destroy,
         Queue!Abort, Queue!pushVars, Queue!popVars
<1> QED
  BY <1>2, <1>3, <1>4

LEMMA Bounded == ZeroInitialized => (Queue!Spec => Queue!Sequential!Abstract!Spec)
<1> SUFFICES ASSUME ZeroInitialized PROVE Queue!Spec => Queue!Sequential!Abstract!Spec
  OBVIOUS
<1>1. Queue!Init => Queue!Sequential!Abstract!Init
  BY DEF Queue!Init, Queue!Sequential!Abstract!Init
<1> QED
  BY <1>1, QueueInvariance, StepBounded, PTL DEF Queue!Spec, Queue!Sequential!Abstract!Spec

\* Two threads in Fifo2 see what one thread sees in Fifo1, the destructor's
\* work included, and that is a bounded queue.
THEOREM TwoThreadsAsOne == ZeroInitialized => (Queue!Spec => ImplementsFifo1)
BY Sequentially, Bounded
   DEF ImplementsFifo1, Queue!ImplementsFifo1, Queue!Sequential!ImplementsBoundedFifo

-----------------------------------------------------------------------------
(* FileTail: words.                                                        *)

Letters == 1 .. WordLen

\* The letter at the i-th place of a text of whole words.
Letter(i) == 1 + ((i - 1) % WordLen)

\* s is such a text, or begins one.
InWords(s) == s \in Seq(Letters) /\ \A i \in 1 .. Len(s) : s[i] = Letter(i)

LEMMA FilesConstants ==
  /\ WordLen \in Nat \ {0} /\ ReadLen \in Nat \ {0} /\ MaxWords \in Nat /\ MaxKills \in Nat
  /\ Writers \cap Readers = {} /\ Writers \subseteq Files!Processes
  /\ Readers \subseteq Files!Processes
BY ProgramsAssumption DEF Files!TailAssumption, Files!Processes

LEMMA WordInWords == InWords(Files!Word) /\ Len(Files!Word) = WordLen
<1>1. Files!Word \in [1 .. WordLen -> Letters] /\ WordLen \in Nat \ {0}
  BY FilesConstants DEF Files!Word, Letters
<1>2. Files!Word \in Seq(Letters) /\ Len(Files!Word) = WordLen
  BY <1>1
<1>3. ASSUME NEW i \in 1 .. WordLen
      PROVE  i = Letter(i)
  <2>1. i - 1 \in 0 .. WordLen - 1
    BY <1>1
  <2> QED
    BY <1>1, <2>1, ModSmall DEF Letter
<1>4. \A i \in 1 .. WordLen : Files!Word[i] = i
  BY DEF Files!Word
<1> QED
  BY <1>2, <1>3, <1>4 DEF InWords

\* A place moved by whole words has the same letter.
LEMMA LetterShift ==
  ASSUME NEW k \in Nat, k % WordLen = 0, NEW i \in Nat \ {0}
  PROVE  Letter(k + i) = Letter(i)
<1>1. WordLen \in Nat \ {0} /\ k \in Int /\ i - 1 \in Int
  BY FilesConstants
<1>2. ((k % WordLen) + (i - 1)) % WordLen = (k + (i - 1)) % WordLen
  BY <1>1, ModAdd, Zenon
<1>3. k + (i - 1) = (k + i) - 1 /\ (k % WordLen) + (i - 1) = i - 1
  BY <1>1
<1> QED
  BY <1>2, <1>3 DEF Letter

\* A word written over a text, at its end or at a whole word before it, makes a
\* text that is no shorter.
LEMMA OverwriteInWords ==
  ASSUME InWords(file), NEW k \in 0 .. Len(file), k % WordLen = 0
  PROVE  LET g == Files!Overwritten(k, Files!Word)
         IN  InWords(g) /\ Len(g) >= Len(file) /\ Len(g) >= k + WordLen
<1> DEFINE w == Files!Word
           a == SubSeq(file, 1, k)
           c == SubSeq(file, k + WordLen + 1, Len(file))
           g == Files!Overwritten(k, w)
<1>1. WordLen \in Nat \ {0} /\ file \in Seq(Letters) /\ Len(file) \in Nat /\ k \in Nat
  BY FilesConstants, LenProperties DEF InWords
<1>2. w \in Seq(Letters) /\ Len(w) = WordLen /\ \A i \in 1 .. WordLen : w[i] = Letter(i)
  BY WordInWords DEF InWords
<1>3. g = a \o w \o c
  BY <1>2 DEF Files!Overwritten
<1>4. a \in Seq(Letters) /\ Len(a) = k /\ \A i \in 1 .. k : a[i] = Letter(i)
  <2>1. \A i \in 1 .. k : file[i] \in Letters /\ file[i] = Letter(i)
    BY <1>1, ElementOfSeq DEF InWords
  <2>2. 1 \in Int /\ k \in Int
    BY <1>1
  <2>3. /\ a \in Seq(Letters) /\ Len(a) = IF 1 <= k THEN k - 1 + 1 ELSE 0
        /\ \A i \in 1 .. k - 1 + 1 : a[i] = file[1 + i - 1]
    BY <2>1, <2>2, SubSeqProperties
  <2> QED
    BY <1>1, <2>1, <2>3
<1> DEFINE rest == IF k + WordLen + 1 <= Len(file) THEN Len(file) - (k + WordLen) ELSE 0
<1>5. /\ c \in Seq(Letters) /\ Len(c) = rest
      /\ \A i \in 1 .. rest : c[i] = Letter(k + WordLen + i)
  <2>1. \A i \in k + WordLen + 1 .. Len(file) : file[i] \in Letters /\ file[i] = Letter(i)
    BY <1>1, ElementOfSeq DEF InWords
  <2>2. k + WordLen + 1 \in Int /\ Len(file) \in Int
    BY <1>1
  <2>3. /\ c \in Seq(Letters)
        /\ Len(c) = IF k + WordLen + 1 <= Len(file) THEN Len(file) - (k + WordLen + 1) + 1 ELSE 0
        /\ \A i \in 1 .. Len(file) - (k + WordLen + 1) + 1 : c[i] = file[k + WordLen + 1 + i - 1]
    BY <2>1, <2>2, SubSeqProperties
  <2>4. Len(c) = rest
    BY <1>1, <2>3
  <2>5. ASSUME NEW i \in 1 .. rest
        PROVE  c[i] = Letter(k + WordLen + i)
    <3>1. i \in 1 .. Len(file) - (k + WordLen + 1) + 1 /\ k + WordLen + 1 + i - 1 = k + WordLen + i
      BY <1>1
    <3>2. k + WordLen + i \in k + WordLen + 1 .. Len(file)
      BY <1>1
    <3> QED
      BY <2>1, <2>3, <3>1, <3>2
  <2> QED
    BY <2>3, <2>4, <2>5
<1>6. rest \in Nat /\ k + WordLen + rest >= Len(file)
  <2>1. Len(file) \in Nat /\ k \in Nat /\ WordLen \in Nat
    BY <1>1
  <2>2. CASE k + WordLen + 1 <= Len(file)
    BY <2>1, <2>2
  <2>3. CASE ~(k + WordLen + 1 <= Len(file))
    BY <2>1, <2>3
  <2> QED
    BY <2>2, <2>3
<1> HIDE DEF w, a, c, g, rest
<1>7. /\ a \o w \in Seq(Letters) /\ Len(a \o w) = k + WordLen
      /\ \A i \in 1 .. k + WordLen : (a \o w)[i] = IF i <= k THEN a[i] ELSE w[i - k]
  <2>1. a \in Seq(Letters) /\ w \in Seq(Letters) /\ Len(a) = k /\ Len(w) = WordLen
    BY <1>2, <1>4
  <2>2. /\ a \o w \in Seq(Letters) /\ Len(a \o w) = Len(a) + Len(w)
        /\ \A i \in 1 .. Len(a) + Len(w) :
             (a \o w)[i] = IF i <= Len(a) THEN a[i] ELSE w[i - Len(a)]
    BY <2>1, ConcatProperties, Zenon
  <2> QED
    BY <2>1, <2>2, Zenon
<1>8. /\ g \in Seq(Letters) /\ Len(g) = k + WordLen + rest
      /\ \A i \in 1 .. k + WordLen + rest :
           g[i] = IF i <= k + WordLen THEN (a \o w)[i] ELSE c[i - (k + WordLen)]
  <2> DEFINE d == a \o w
  <2> HIDE DEF d
  <2>1. d \in Seq(Letters) /\ c \in Seq(Letters) /\ Len(d) = k + WordLen /\ Len(c) = rest
    BY <1>5, <1>7 DEF d
  <2>2. /\ d \o c \in Seq(Letters) /\ Len(d \o c) = Len(d) + Len(c)
        /\ \A i \in 1 .. Len(d) + Len(c) :
             (d \o c)[i] = IF i <= Len(d) THEN d[i] ELSE c[i - Len(d)]
    BY <2>1, ConcatProperties, Zenon
  <2>3. g = d \o c
    BY <1>3 DEF d
  <2> QED
    BY <2>1, <2>2, <2>3, Zenon DEF d
<1>9. ASSUME NEW i \in 1 .. k + WordLen + rest
      PROVE  g[i] = Letter(i)
  <2>1. CASE i <= k
    <3>1. i \in 1 .. k /\ i \in 1 .. k + WordLen /\ i <= k + WordLen
      BY <1>1, <1>6, <2>1
    <3>2. (a \o w)[i] = a[i]
      BY <1>7, <2>1, <3>1
    <3>3. g[i] = (a \o w)[i]
      BY <1>8, <3>1
    <3> QED
      BY <1>4, <3>1, <3>2, <3>3
  <2>2. CASE k < i /\ i <= k + WordLen
    <3>1. i - k \in 1 .. WordLen /\ i - k \in Nat \ {0} /\ k + (i - k) = i
      BY <1>1, <1>6, <2>2
    <3>2. g[i] = w[i - k]
      <4>1. i \in 1 .. k + WordLen /\ ~(i <= k)
        BY <1>1, <1>6, <2>2
      <4>2. (a \o w)[i] = w[i - k]
        BY <1>7, <4>1
      <4> QED
        BY <1>8, <2>2, <4>2
    <3>3. Letter(k + (i - k)) = Letter(i - k)
      BY <1>1, <3>1, LetterShift
    <3> QED
      BY <1>2, <3>1, <3>2, <3>3
  <2>3. CASE k + WordLen < i
    <3>1. i - (k + WordLen) \in 1 .. rest /\ k + WordLen + (i - (k + WordLen)) = i
      BY <1>1, <1>6, <2>3
    <3>2. g[i] = c[i - (k + WordLen)]
      <4>1. ~(i <= k + WordLen)
        BY <1>1, <1>6, <2>3
      <4> QED
        BY <1>8, <4>1
    <3> QED
      BY <1>5, <3>1, <3>2
  <2> QED
    BY <1>1, <1>6, <2>1, <2>2, <2>3
<1> QED
  BY <1>1, <1>6, <1>8, <1>9 DEF InWords, g, w

\* What a read returns continues the text that has been read before it.
LEMMA ReadInWords ==
  ASSUME InWords(file), NEW t, InWords(t), Len(t) < Len(file),
         NEW n \in 1 .. Len(file) - Len(t)
  PROVE  LET u == t \o SubSeq(file, Len(t) + 1, Len(t) + n)
         IN  InWords(u) /\ Len(u) = Len(t) + n
<1> DEFINE k == Len(t)
           c == SubSeq(file, k + 1, k + n)
           u == t \o c
<1>1. /\ file \in Seq(Letters) /\ Len(file) \in Nat /\ t \in Seq(Letters) /\ k \in Nat
      /\ n \in Nat /\ k + n <= Len(file)
  BY LenProperties DEF InWords
<1>2. c \in Seq(Letters) /\ Len(c) = n /\ \A i \in 1 .. n : c[i] = Letter(k + i)
  <2>1. \A i \in k + 1 .. k + n : file[i] \in Letters /\ file[i] = Letter(i)
    <3> SUFFICES ASSUME NEW i \in k + 1 .. k + n
                 PROVE  file[i] \in Letters /\ file[i] = Letter(i)
      OBVIOUS
    <3>1. i \in 1 .. Len(file)
      BY <1>1
    <3> QED
      BY <1>1, <3>1, ElementOfSeq DEF InWords
  <2>2. k + 1 \in Int /\ k + n \in Int
    BY <1>1
  <2>3. /\ c \in Seq(Letters) /\ Len(c) = IF k + 1 <= k + n THEN k + n - (k + 1) + 1 ELSE 0
        /\ \A i \in 1 .. k + n - (k + 1) + 1 : c[i] = file[k + 1 + i - 1]
    BY <2>1, <2>2, SubSeqProperties
  <2>4. k + 1 <= k + n /\ k + n - (k + 1) + 1 = n
    BY <1>1
  <2>5. \A i \in 1 .. n : k + 1 + i - 1 = k + i /\ k + i \in k + 1 .. k + n
    BY <1>1
  <2> QED
    BY <2>1, <2>3, <2>4, <2>5
<1> HIDE DEF c
<1>3. /\ u \in Seq(Letters) /\ Len(u) = k + n
      /\ \A i \in 1 .. k + n : u[i] = IF i <= k THEN t[i] ELSE c[i - k]
  BY <1>1, <1>2, ConcatProperties
<1> HIDE DEF u
<1>4. ASSUME NEW i \in 1 .. k + n
      PROVE  u[i] = Letter(i)
  <2>1. CASE i <= k
    <3>1. i \in 1 .. k
      BY <1>1, <2>1
    <3> QED
      BY <1>3, <2>1, <3>1 DEF InWords
  <2>2. CASE k < i
    <3>1. i - k \in 1 .. n /\ k + (i - k) = i /\ ~(i <= k)
      BY <1>1, <2>2
    <3> QED
      BY <1>2, <1>3, <3>1
  <2> QED
    BY <1>1, <2>1, <2>2
<1> QED
  BY <1>3, <1>4 DEF InWords, u, c

-----------------------------------------------------------------------------
(* FileTail: the inductive invariant.                                      *)

\* The offset of every writer is at a word, and what a reader with a descriptor
\* has printed is what lies before its offset.
FilesInv ==
  /\ Files!TypeOK
  /\ at \in [Files!Processes -> Nat] /\ DOMAIN printed = Readers
  /\ InWords(file)
  /\ \A w \in Writers : at[w] % WordLen = 0
  /\ \A r \in Readers :
       /\ InWords(printed[r])
       /\ Len(printed[r]) = IF state[r] = "open" THEN at[r] ELSE 0

LEMMA EmptyInWords == InWords(<<>>) /\ Len(<<>>) = 0
BY EmptySeq DEF InWords

LEMMA FilesInitOK == Files!Init => FilesInv
<1> SUFFICES ASSUME Files!Init PROVE FilesInv
  OBVIOUS
<1>1. file = <<>> /\ at = [p \in Files!Processes |-> 0] /\ printed = [r \in Readers |-> <<>>]
      /\ state = [p \in Files!Processes |-> "off"] /\ mode = "absent" /\ kills = 0
  BY DEF Files!Init
<1>2. 0 % WordLen = 0
  BY FilesConstants, ModSmall
<1>3. Files!TypeOK
  BY <1>1, FilesConstants, EmptyInWords DEF Files!TypeOK, InWords, Letters
<1> QED
  BY <1>1, <1>2, <1>3, FilesConstants, EmptyInWords DEF FilesInv

LEMMA OpenOK ==
  ASSUME FilesInv, NEW p \in Files!Processes, Files!Open(p)
  PROVE  FilesInv'
<1>1. /\ state[p] = "off" /\ mode' \in {"usable", "denied"}
      /\ state' \in {[state EXCEPT ![p] = "open"], [state EXCEPT ![p] = "bad"]}
      /\ at' = [at EXCEPT ![p] = 0] /\ UNCHANGED <<file, printed, kills>>
  BY DEF Files!Open, Files!Created
<1>2. file \in Seq(Letters) /\ Len(file) \in Nat /\ 0 % WordLen = 0
  BY FilesConstants, LenProperties, ModSmall DEF FilesInv, InWords
<1>3. Files!TypeOK'
  BY <1>1, <1>2 DEF FilesInv, Files!TypeOK
<1>4. \A w \in Writers : at'[w] % WordLen = 0
  BY <1>1, <1>2 DEF FilesInv
<1>5. \A r \in Readers : Len(printed[r]) = IF state'[r] = "open" THEN at'[r] ELSE 0
  BY <1>1, FilesConstants DEF FilesInv, Files!TypeOK
<1> QED
  BY <1>1, <1>3, <1>4, <1>5 DEF FilesInv, InWords

LEMMA KillOK ==
  ASSUME FilesInv, NEW p \in Files!Processes, Files!Kill(p)
  PROVE  FilesInv'
<1>1. /\ kills < MaxKills /\ kills' = kills + 1
      /\ state' = [state EXCEPT ![p] = "off"]
      /\ printed' = [r \in Readers |-> IF r = p THEN <<>> ELSE printed[r]]
      /\ UNCHANGED <<file, mode, at>>
  BY DEF Files!Kill
<1>2. Files!TypeOK'
  BY <1>1, FilesConstants DEF FilesInv, Files!TypeOK
<1>3. ASSUME NEW r \in Readers
      PROVE  /\ InWords(printed'[r])
             /\ Len(printed'[r]) = IF state'[r] = "open" THEN at[r] ELSE 0
  BY <1>1, EmptyInWords, FilesConstants DEF FilesInv, Files!TypeOK
<1> QED
  BY <1>1, <1>2, <1>3 DEF FilesInv, InWords

LEMMA WriteOK ==
  ASSUME FilesInv, NEW w \in Writers, Files!Write(w)
  PROVE  FilesInv'
<1>1. /\ file' = Files!Overwritten(at[w], Files!Word) /\ at' = [at EXCEPT ![w] = @ + WordLen]
      /\ UNCHANGED <<mode, state, printed, kills>>
  BY DEF Files!Write
<1>2. /\ WordLen \in Nat \ {0} /\ w \in Files!Processes /\ w \notin Readers
      /\ Writers \subseteq Files!Processes /\ Readers \subseteq Files!Processes
  BY FilesConstants
<1>3. /\ InWords(file) /\ Len(file) \in Nat /\ at \in [Files!Processes -> Nat]
      /\ at[w] % WordLen = 0 /\ \A p \in Files!Processes : at[p] <= Len(file)
  BY LenProperties DEF FilesInv, InWords, Files!TypeOK
<1>4. InWords(file') /\ Len(file') >= Len(file) /\ Len(file') >= at[w] + WordLen
  <2>1. at[w] \in 0 .. Len(file)
    BY <1>2, <1>3
  <2> QED
    BY <1>1, <1>3, <2>1, OverwriteInWords
<1>5. Len(file') \in Nat
  BY <1>4, LenProperties DEF InWords
<1>6. at' \in [Files!Processes -> Nat] /\ \A p \in Files!Processes : at'[p] <= Len(file')
  BY <1>1, <1>2, <1>3, <1>4, <1>5
<1>7. (at[w] + WordLen) % WordLen = 0
  <2>1. at[w] \in Int
    BY <1>2, <1>3
  <2> QED
    BY <1>2, <1>3, <2>1, ModNext
<1>8. \A v \in Writers : at'[v] % WordLen = 0
  BY <1>1, <1>2, <1>7 DEF FilesInv
<1>9. Files!TypeOK'
  BY <1>1, <1>4, <1>6 DEF FilesInv, Files!TypeOK, InWords, Letters
<1>10. \A r \in Readers : at'[r] = at[r]
  BY <1>1, <1>2, <1>3
<1> QED
  BY <1>1, <1>4, <1>6, <1>8, <1>9, <1>10 DEF FilesInv, InWords

LEMMA MinOfTwo ==
  ASSUME NEW a \in Nat, NEW b \in Nat
  PROVE  Files!Min({a, b}) \in {a, b} /\ Files!Min({a, b}) <= a /\ Files!Min({a, b}) <= b
<1>1. \E x \in {a, b} : \A y \in {a, b} : x <= y
  OBVIOUS
<1> QED
  BY <1>1 DEF Files!Min

LEMMA ReadOK ==
  ASSUME FilesInv, NEW r \in Readers, Files!Read(r)
  PROVE  FilesInv'
<1>1. PICK n : /\ n = Files!Min({ReadLen, Len(file) - at[r]})
               /\ printed' = [printed EXCEPT ![r] = @ \o SubSeq(file, at[r] + 1, at[r] + n)]
               /\ at' = [at EXCEPT ![r] = @ + n]
  BY DEF Files!Read, Files!Shown
<1>2. /\ state[r] = "open" /\ at[r] < Len(file) /\ UNCHANGED <<file, mode, state, kills>>
  BY DEF Files!Read
<1>3. /\ ReadLen \in Nat \ {0} /\ r \in Files!Processes /\ r \notin Writers
      /\ Writers \subseteq Files!Processes /\ Readers \subseteq Files!Processes
  BY FilesConstants
<1>4. /\ InWords(file) /\ Len(file) \in Nat /\ at \in [Files!Processes -> Nat]
      /\ InWords(printed[r]) /\ Len(printed[r]) = at[r] /\ DOMAIN printed = Readers
      /\ \A p \in Files!Processes : at[p] <= Len(file)
  BY <1>2, LenProperties DEF FilesInv, InWords, Files!TypeOK
<1>5. n \in 1 .. Len(file) - at[r]
  <2>1. Len(file) - at[r] \in Nat \ {0} /\ ReadLen \in Nat \ {0}
    BY <1>2, <1>3, <1>4
  <2> QED
    BY <1>1, <2>1, MinOfTwo
<1>6. InWords(printed'[r]) /\ Len(printed'[r]) = at[r] + n
  <2>1. printed'[r] = printed[r] \o SubSeq(file, at[r] + 1, at[r] + n)
    BY <1>1, <1>4
  <2> QED
    BY <1>2, <1>4, <1>5, <2>1, ReadInWords
<1>7. at' \in [Files!Processes -> Nat] /\ \A p \in Files!Processes : at'[p] <= Len(file)
  <2>1. at[r] + n \in Nat /\ at[r] + n <= Len(file)
    <3>1. at[r] \in Nat
      BY <1>3, <1>4
    <3> QED
      BY <1>4, <1>5, <3>1
  <2>2. at' = [at EXCEPT ![r] = at[r] + n]
    BY <1>1
  <2> QED
    BY <1>3, <1>4, <2>1, <2>2
<1>8. \A w \in Writers : at'[w] = at[w]
  BY <1>1, <1>3, <1>4
<1>9. ASSUME NEW q \in Readers
      PROVE  /\ InWords(printed'[q])
             /\ Len(printed'[q]) = IF state[q] = "open" THEN at'[q] ELSE 0
  <2>1. CASE q = r
    BY <1>1, <1>2, <1>3, <1>4, <1>6, <2>1
  <2>2. CASE q # r
    <3>1. printed'[q] = printed[q] /\ at'[q] = at[q]
      BY <1>1, <1>3, <1>4, <2>2
    <3> QED
      BY <3>1 DEF FilesInv
  <2> QED
    BY <2>1, <2>2
<1>10. Files!TypeOK'
  BY <1>2, <1>7 DEF FilesInv, Files!TypeOK
<1>11. DOMAIN printed' = Readers
  BY <1>1, <1>4
<1> QED
  BY <1>2, <1>7, <1>8, <1>9, <1>10, <1>11 DEF FilesInv, InWords

LEMMA FilesStepOK == FilesInv /\ [Files!Next]_Files!vars => FilesInv'
<1>1. FilesInv /\ UNCHANGED Files!vars => FilesInv'
  BY DEF Files!vars, FilesInv, Files!TypeOK, InWords
<1> QED
  BY <1>1, OpenOK, KillOK, WriteOK, ReadOK DEF Files!Next

\* Readers print whole words, one after the other, whatever offsets writers and
\* readers start from, and whoever is killed and started again.
THEOREM PrintsWholeWords == Files!Spec => []PrintsWords
<1>1. FilesInv => PrintsWords
  BY DEF FilesInv, InWords, Letter, PrintsWords, Files!PrintsWords
<1> QED
  BY <1>1, FilesInitOK, FilesStepOK, PTL DEF Files!Spec

-----------------------------------------------------------------------------
(* UniquePtr: what a delete destroys.                                      *)

LEMMA PtrConstants ==
  /\ Locals \cap Objects = {} /\ Null \notin Locals \cup Objects
  /\ Ptr!Cells = Locals \cup Objects
BY ProgramsAssumption DEF Ptr!PtrAssumption, Ptr!Cells

\* Whatever holds p, and with an object what the object owns, holds Reach(p).
LEMMA ReachLeast ==
  ASSUME NEW p, NEW S \in SUBSET Objects, p # Null => p \in S,
         \A x \in S : ptr[x] # Null => ptr[x] \in S
  PROVE  Ptr!Reach(p) \subseteq S
BY PtrConstants DEF Ptr!Reach

\* Reach(p) holds p and what its objects own.
LEMMA ReachClosed ==
  ASSUME ptr \in [Ptr!Cells -> Objects \cup {Null}], NEW p \in Objects \cup {Null}
  PROVE  /\ Ptr!Reach(p) \subseteq Objects
         /\ p # Null => p \in Ptr!Reach(p)
         /\ \A x \in Ptr!Reach(p) : ptr[x] # Null => ptr[x] \in Ptr!Reach(p)
<1>1. Ptr!Reach(p) \subseteq Objects
  BY DEF Ptr!Reach
<1>2. p # Null => p \in Ptr!Reach(p)
  BY DEF Ptr!Reach
<1>3. ASSUME NEW x \in Ptr!Reach(p), ptr[x] # Null
      PROVE  ptr[x] \in Ptr!Reach(p)
  <2>1. x \in Objects /\ x \in Ptr!Cells /\ ptr[x] \in Objects
    BY <1>1, <1>3, PtrConstants
  <2>2. ASSUME NEW S \in SUBSET Objects, p # Null => p \in S,
               \A y \in S \cap Ptr!Cells : ptr[y] # Null => ptr[y] \in S
        PROVE  ptr[x] \in S
    <3>1. x \in S
      BY <2>2 DEF Ptr!Reach
    <3> QED
      BY <1>3, <2>1, <2>2, <3>1
  <2> QED
    BY <2>1, <2>2 DEF Ptr!Reach
<1> QED
  BY <1>1, <1>2, <1>3

\* It holds nothing else: all but p is owned from inside.
LEMMA ReachOwned ==
  ASSUME ptr \in [Ptr!Cells -> Objects \cup {Null}], NEW p \in Objects \cup {Null},
         NEW o \in Ptr!Reach(p), o # p
  PROVE  \E x \in Ptr!Reach(p) : ptr[x] = o
<1> DEFINE S == Ptr!Reach(p) \ {o}
<1> SUFFICES ASSUME \A x \in Ptr!Reach(p) : ptr[x] # o PROVE FALSE
  OBVIOUS
<1>1. S \in SUBSET Objects
  BY ReachClosed
<1>2. p # Null => p \in S
  BY ReachClosed
<1>3. \A x \in S : ptr[x] # Null => ptr[x] \in S
  BY ReachClosed
<1> HIDE DEF S
<1>4. Ptr!Reach(p) \subseteq S
  BY <1>1, <1>2, <1>3, ReachLeast, Zenon
<1> QED
  BY <1>4 DEF S

-----------------------------------------------------------------------------
(* UniquePtr: the inductive invariant.                                     *)

\* A pointer that exists leads to an object that exists and that nobody else
\* has to delete.
Leads == \A x \in scope \cup live : ptr[x] # Null => ptr[x] \in live \ loose

Unique == \A x, y \in scope \cup live : ptr[x] = ptr[y] /\ ptr[x] # Null => x = y

Owned == \A o \in live \ loose : \E x \in scope \cup live : ptr[x] = o

\* No objects own one another: without a cycle no delete runs into itself, and
\* none keep themselves alive.
NoCycle == \A S \in SUBSET live : S # {} => \E o \in S : \A x \in S : ptr[x] # o

PtrInv == Ptr!TypeOK /\ ~fault /\ Leads /\ Unique /\ Owned /\ NoCycle

LEMMA PtrTypes ==
  ASSUME PtrInv
  PROVE  /\ scope \subseteq Locals /\ live \subseteq Objects /\ loose \subseteq live
         /\ ptr \in [Ptr!Cells -> Objects \cup {Null}]
         /\ scope \cup live \subseteq Ptr!Cells /\ Ptr!Usable = scope \cup live
         /\ Ptr!Reach(Null) = {}
<1>1. /\ scope \subseteq Locals /\ live \subseteq Objects /\ loose \subseteq live
      /\ ptr \in [Ptr!Cells -> Objects \cup {Null}]
  BY DEF PtrInv, Ptr!TypeOK
<1>2. scope \cup live \subseteq Ptr!Cells /\ Ptr!Usable = scope \cup live
  BY <1>1, PtrConstants DEF Ptr!Usable
<1>3. Ptr!Reach(Null) = {}
  <2> DEFINE S == {}
  <2>1. S \in SUBSET Objects /\ \A x \in S : ptr[x] # Null => ptr[x] \in S
    OBVIOUS
  <2>2. Ptr!Reach(Null) \subseteq S
    BY <2>1, ReachLeast, Zenon
  <2> QED
    BY <2>2
<1> QED
  BY <1>1, <1>2, <1>3

\* A delete of what a pointer that exists owns, or of a loose object: the
\* objects destroyed exist, only p is owned from outside or loose.
LEMMA DeleteSound ==
  ASSUME PtrInv, NEW p \in live \cup {Null}
  PROVE  /\ Ptr!Reach(p) \subseteq live
         /\ \A x \in scope \cup live :
              ptr[x] \in Ptr!Reach(p) => x \in Ptr!Reach(p) \/ ptr[x] = p
         /\ \A o \in loose : o \in Ptr!Reach(p) => o = p
<1> USE PtrTypes
<1>1. Ptr!Reach(p) \subseteq live
  BY ReachLeast DEF PtrInv, Leads
<1>2. ASSUME NEW o \in Ptr!Reach(p), o # p
      PROVE  \E y \in Ptr!Reach(p) : ptr[y] = o
  BY <1>2, ReachOwned
<1>3. \A o \in Ptr!Reach(p) : o # Null
  BY PtrConstants, ReachClosed
<1>4. ASSUME NEW x \in scope \cup live, ptr[x] \in Ptr!Reach(p), ptr[x] # p
      PROVE  x \in Ptr!Reach(p)
  <2>1. PICK y \in Ptr!Reach(p) : ptr[y] = ptr[x]
    BY <1>2, <1>4
  <2> QED
    BY <1>1, <1>3, <1>4, <2>1 DEF PtrInv, Unique
<1>5. ASSUME NEW o \in loose, o \in Ptr!Reach(p), o # p
      PROVE  FALSE
  <2>1. PICK y \in Ptr!Reach(p) : ptr[y] = o
    BY <1>2, <1>5
  <2> QED
    BY <1>1, <1>3, <1>5, <2>1 DEF PtrInv, Leads
<1> QED
  BY <1>1, <1>4, <1>5

\* What an object owns does not reach it.
LEMMA NotInItself ==
  ASSUME PtrInv, NEW c \in scope \cup live
  PROVE  c \notin Ptr!Reach(ptr[c])
<1> USE PtrTypes
<1> SUFFICES ASSUME c \in Ptr!Reach(ptr[c]) PROVE FALSE
  OBVIOUS
<1> DEFINE S == Ptr!Reach(ptr[c])
<1>1. ptr[c] \in live \cup {Null} /\ ptr[c] \in Objects \cup {Null}
  BY DEF PtrInv, Leads
<1>2. S \subseteq live /\ S # {}
  BY <1>1, DeleteSound
<1>3. \A o \in S : \E x \in S : ptr[x] = o
  BY <1>1, ReachOwned
<1> HIDE DEF S
<1> QED
  BY <1>2, <1>3 DEF PtrInv, NoCycle

\* Handing p, which nothing that stays owns, to the cell c, from which nothing
\* that p owns leads back, makes no cycle.
LEMMA NoNewCycle ==
  ASSUME PtrInv, NEW c, NEW p \in live \cup {Null}, c \notin Ptr!Reach(p),
         NEW gone \in SUBSET live, NEW new,
         \A x \in live \ gone : x # c /\ new[x] # Null => new[x] = ptr[x] /\ new[x] # p,
         c \in live \ gone => new[c] = p
  PROVE  \A S \in SUBSET (live \ gone) : S # {} => \E o \in S : \A x \in S : new[x] # o
<1> USE PtrTypes
<1> SUFFICES ASSUME NEW S \in SUBSET (live \ gone), S # {},
                    \A o \in S : \E x \in S : new[x] = o
             PROVE  FALSE
  OBVIOUS
<1> DEFINE R == Ptr!Reach(p)
           T == S \ R
<1>1. /\ \A x \in R : ptr[x] # Null => ptr[x] \in R
      /\ p # Null => p \in R
  BY ReachClosed
<1>2. \A o \in S : o # Null
  BY PtrConstants
<1> HIDE DEF R
<1>3. ASSUME NEW o \in T
      PROVE  \E x \in T : ptr[x] = o
  <2>1. PICK x \in S : new[x] = o
    OBVIOUS
  <2>2. x # c
    BY <1>1, <1>2, <2>1
  <2>3. ptr[x] = o
    BY <1>2, <2>1, <2>2
  <2> QED
    BY <1>1, <1>2, <2>1, <2>3
<1>4. CASE c \in S
  <2>1. T \in SUBSET live /\ T # {}
    BY <1>4 DEF R
  <2> HIDE DEF T
  <2> QED
    BY <1>3, <2>1 DEF PtrInv, NoCycle
<1>5. CASE c \notin S
  <2>1. \A o \in S : \E x \in S : ptr[x] = o
    BY <1>2, <1>5
  <2>2. S \in SUBSET live
    OBVIOUS
  <2>3. \E o \in S : \A x \in S : ptr[x] # o
    BY <2>2 DEF PtrInv, NoCycle
  <2> QED
    BY <2>1, <2>3
<1> QED
  BY <1>4, <1>5

-----------------------------------------------------------------------------
(* UniquePtr: every step keeps it.                                         *)

LEMMA PtrInitOK == Ptr!Init => PtrInv
<1> SUFFICES ASSUME Ptr!Init PROVE PtrInv
  OBVIOUS
<1>1. Ptr!TypeOK /\ ~fault /\ Leads /\ Unique /\ Owned
  BY DEF Ptr!Init, Ptr!TypeOK, Leads, Unique, Owned
<1>2. NoCycle
  BY DEF Ptr!Init, NoCycle
<1> QED
  BY <1>1, <1>2 DEF PtrInv

LEMMA NewOK ==
  ASSUME PtrInv, NEW o \in Objects, Ptr!New(o)
  PROVE  PtrInv'
<1> USE PtrTypes, PtrConstants
<1>1. /\ o \notin live /\ live' = live \cup {o} /\ loose' = loose \cup {o}
      /\ ptr' = [ptr EXCEPT ![o] = Null] /\ UNCHANGED <<scope, fault>>
  BY DEF Ptr!New
<1>2. Ptr!TypeOK' /\ ~fault'
  BY <1>1 DEF Ptr!TypeOK, PtrInv
<1>3. \A x \in scope' \cup live' : IF x = o THEN ptr'[x] = Null ELSE x \in scope \cup live /\ ptr'[x] = ptr[x]
  BY <1>1
<1>4. Leads' /\ Unique'
  BY <1>1, <1>3 DEF PtrInv, Leads, Unique
<1>5. Owned'
  <2> SUFFICES ASSUME NEW q \in live' \ loose' PROVE \E x \in scope' \cup live' : ptr'[x] = q
    BY DEF Owned
  <2>1. q \in live \ loose
    BY <1>1
  <2>2. PICK x \in scope \cup live : ptr[x] = q
    BY <2>1 DEF PtrInv, Owned
  <2> QED
    BY <1>1, <1>3, <2>2
<1>6. NoCycle'
  <2> SUFFICES ASSUME NEW S \in SUBSET live', S # {}, \A q \in S : \E x \in S : ptr'[x] = q
               PROVE  FALSE
    BY DEF NoCycle
  <2>1. o \notin S
    BY <1>1, <1>3 DEF PtrInv, Leads
  <2>2. S \in SUBSET live /\ \A q \in S : \E x \in S : ptr[x] = q
    BY <1>1, <1>3, <2>1
  <2>3. NoCycle
    BY DEF PtrInv
  <2> QED
    BY <2>2, <2>3, Zenon DEF NoCycle
<1> QED
  BY <1>2, <1>4, <1>5, <1>6 DEF PtrInv

LEMMA DeleteLooseOK ==
  ASSUME PtrInv, NEW o \in Objects, Ptr!DeleteLoose(o)
  PROVE  PtrInv'
<1> USE PtrTypes, PtrConstants
<1> DEFINE R == Ptr!Reach(o)
<1>1. /\ o \in loose /\ loose' = loose \ {o} /\ live' = live \ R
      /\ fault' = (fault \/ ~(R \subseteq live)) /\ UNCHANGED <<scope, ptr>>
  BY DEF Ptr!DeleteLoose, Ptr!Delete
<1>2. /\ R \subseteq live /\ o \in R
      /\ \A x \in scope \cup live : ptr[x] \in R => x \in R \/ ptr[x] = o
      /\ \A q \in loose : q \in R => q = o
      /\ \A x \in R : ptr[x] # Null => ptr[x] \in R
  BY <1>1, DeleteSound, ReachClosed
<1> HIDE DEF R
<1>3. Ptr!TypeOK' /\ ~fault'
  BY <1>1, <1>2 DEF Ptr!TypeOK, PtrInv
<1>4. \A x \in scope \cup live : ptr[x] # o
  BY <1>1 DEF PtrInv, Leads
<1>5. Leads' /\ Unique'
  BY <1>1, <1>2, <1>4 DEF PtrInv, Leads, Unique
<1>6. Owned'
  BY <1>1, <1>2 DEF PtrInv, Owned
<1>7. NoCycle'
  BY <1>1 DEF PtrInv, NoCycle
<1> QED
  BY <1>3, <1>5, <1>6, <1>7 DEF PtrInv

LEMMA DestructOK ==
  ASSUME PtrInv, NEW c \in Locals, Ptr!Destruct(c)
  PROVE  PtrInv'
<1> USE PtrTypes, PtrConstants
<1> DEFINE R == Ptr!Reach(ptr[c])
<1>1. /\ c \in scope /\ scope' = scope \ {c} /\ live' = live \ R
      /\ fault' = (fault \/ ~(R \subseteq live)) /\ UNCHANGED <<loose, ptr>>
  BY DEF Ptr!Destruct, Ptr!Delete
<1>2. ptr[c] \in live \cup {Null} /\ ptr[c] \notin loose
  BY <1>1 DEF PtrInv, Leads, Ptr!TypeOK
<1>3. /\ R \subseteq live /\ (ptr[c] # Null => ptr[c] \in R)
      /\ \A x \in scope \cup live : ptr[x] \in R => x \in R \/ ptr[x] = ptr[c]
      /\ \A q \in loose : q \notin R
      /\ \A x \in R : ptr[x] # Null => ptr[x] \in R
  BY <1>1, <1>2, DeleteSound, ReachClosed
<1> HIDE DEF R
<1>4. Ptr!TypeOK' /\ ~fault'
  BY <1>1, <1>3 DEF Ptr!TypeOK, PtrInv
<1>5. Unique'
  BY <1>1 DEF PtrInv, Unique
<1>6. Leads'
  <2> SUFFICES ASSUME NEW x \in scope' \cup live', ptr[x] # Null
               PROVE  ptr[x] \in live' \ loose'
    BY <1>1 DEF Leads
  <2>1. x \in scope \cup live /\ x # c /\ x \notin R
    BY <1>1, <1>3
  <2>2. ptr[x] \in live \ loose /\ ptr[x] # ptr[c]
    BY <1>1, <2>1 DEF PtrInv, Leads, Unique
  <2> QED
    BY <1>1, <1>3, <2>1, <2>2
<1>7. Owned'
  <2> SUFFICES ASSUME NEW q \in live' \ loose' PROVE \E x \in scope' \cup live' : ptr[x] = q
    BY <1>1 DEF Owned
  <2>1. q \in live \ loose /\ q \notin R /\ q # Null
    BY <1>1
  <2>2. PICK x \in scope \cup live : ptr[x] = q
    BY <2>1 DEF PtrInv, Owned
  <2> QED
    BY <1>1, <1>3, <2>1, <2>2
<1>8. NoCycle'
  BY <1>1 DEF PtrInv, NoCycle
<1> QED
  BY <1>4, <1>5, <1>6, <1>7, <1>8 DEF PtrInv

LEMMA ReleaseOK ==
  ASSUME PtrInv, NEW c \in Ptr!Cells, Ptr!Release(c)
  PROVE  PtrInv'
<1> USE PtrTypes, PtrConstants
<1>1. /\ c \in scope \cup live /\ ptr' = [ptr EXCEPT ![c] = Null]
      /\ loose' = loose \cup ({ptr[c]} \ {Null}) /\ UNCHANGED <<scope, live, fault>>
  BY DEF Ptr!Release
<1>2. \A x \in scope \cup live : ptr'[x] = IF x = c THEN Null ELSE ptr[x]
  BY <1>1
<1>3. Ptr!TypeOK' /\ ~fault'
  BY <1>1 DEF Ptr!TypeOK, PtrInv, Leads
<1>4. Leads' /\ Unique'
  BY <1>1, <1>2 DEF PtrInv, Leads, Unique
<1>5. Owned'
  BY <1>1, <1>2 DEF PtrInv, Owned
<1>6. NoCycle'
  BY <1>1, <1>2 DEF PtrInv, NoCycle
<1> QED
  BY <1>3, <1>4, <1>5, <1>6 DEF PtrInv

LEMMA ConstructOK ==
  ASSUME PtrInv, NEW c \in Ptr!Cells, NEW p \in Objects \cup {Null}, Ptr!Construct(c, p)
  PROVE  PtrInv'
<1> USE PtrTypes, PtrConstants
<1>1. /\ c \in Locals /\ c \notin scope /\ p \in loose \cup {Null}
      /\ scope' = scope \cup {c} /\ ptr' = [ptr EXCEPT ![c] = p]
      /\ loose' = loose \ {p} /\ UNCHANGED <<live, fault>>
  BY DEF Ptr!Construct, Ptr!MayOwn
<1>2. \A x \in scope' \cup live' :
        IF x = c THEN ptr'[x] = p ELSE x \in scope \cup live /\ ptr'[x] = ptr[x]
  BY <1>1
<1>3. Ptr!TypeOK' /\ ~fault'
  BY <1>1 DEF Ptr!TypeOK, PtrInv
<1>4. Leads' /\ Unique'
  BY <1>1, <1>2 DEF PtrInv, Leads, Unique
<1>5. Owned'
  <2> SUFFICES ASSUME NEW q \in live' \ loose' PROVE \E x \in scope' \cup live' : ptr'[x] = q
    BY DEF Owned
  <2>1. CASE q = p
    BY <1>1, <1>2, <2>1
  <2>2. CASE q # p
    <3>1. PICK x \in scope \cup live : ptr[x] = q
      BY <1>1, <2>2 DEF PtrInv, Owned
    <3> QED
      BY <1>1, <1>2, <3>1
  <2> QED
    BY <2>1, <2>2
<1>6. NoCycle'
  BY <1>1, <1>2 DEF PtrInv, NoCycle
<1> QED
  BY <1>3, <1>4, <1>5, <1>6 DEF PtrInv

LEMMA MoveConstructOK ==
  ASSUME PtrInv, NEW c \in Ptr!Cells, NEW d \in Ptr!Cells, Ptr!MoveConstruct(c, d)
  PROVE  PtrInv'
<1> USE PtrTypes, PtrConstants
<1>1. /\ c \in Locals /\ c \notin scope /\ d \in scope \cup live /\ c # d
      /\ scope' = scope \cup {c} /\ ptr' = [ptr EXCEPT ![c] = ptr[d], ![d] = Null]
      /\ UNCHANGED <<live, loose, fault>>
  BY DEF Ptr!MoveConstruct, Ptr!MovedFrom
<1>2. \A x \in scope' \cup live' :
        \/ x = c /\ ptr'[x] = ptr[d]
        \/ x = d /\ ptr'[x] = Null
        \/ x # c /\ x # d /\ x \in scope \cup live /\ ptr'[x] = ptr[x]
  BY <1>1
<1>3. Ptr!TypeOK' /\ ~fault'
  BY <1>1 DEF Ptr!TypeOK, PtrInv
<1>4. Leads' /\ Unique'
  BY <1>1, <1>2 DEF PtrInv, Leads, Unique
<1>5. Owned'
  <2> SUFFICES ASSUME NEW q \in live' \ loose' PROVE \E x \in scope' \cup live' : ptr'[x] = q
    BY DEF Owned
  <2>1. PICK x \in scope \cup live : ptr[x] = q
    BY <1>1 DEF PtrInv, Owned
  <2>2. CASE x = d
    BY <1>1, <2>1, <2>2
  <2>3. CASE x # d
    BY <1>1, <2>1, <2>3
  <2> QED
    BY <2>2, <2>3
<1>6. NoCycle'
  BY <1>1, <1>2 DEF PtrInv, NoCycle
<1> QED
  BY <1>3, <1>4, <1>5, <1>6 DEF PtrInv

\* c takes over p, from the program or from another cell, after the delete of
\* what it owned: the part that reset and the move assignment share.
LEMMA TakeOver ==
  ASSUME PtrInv, NEW c \in scope \cup live, NEW p \in live \cup {Null},
         c \notin Ptr!Reach(p), p = Null \/ p \notin Ptr!Reach(ptr[c]),
         NEW former,
         \A x \in scope \cup live : x # c /\ ptr[x] = p /\ p # Null => x \in former,
         live' = live \ Ptr!Reach(ptr[c]), loose' = loose \ {p}, scope' = scope,
         ptr' \in [Ptr!Cells -> Objects \cup {Null}], ptr'[c] = p,
         \A x \in scope \cup live : x # c => ptr'[x] = IF x \in former THEN Null ELSE ptr[x],
         \A x \in former : x \in scope \cup live => ptr[x] = p,
         fault' \in BOOLEAN, ~fault'
  PROVE  PtrInv'
<1> USE PtrTypes, PtrConstants
<1> DEFINE R == Ptr!Reach(ptr[c])
<1>1. ptr[c] \in live \cup {Null} /\ ptr[c] \notin loose /\ c \notin R
  BY NotInItself DEF PtrInv, Leads, Ptr!TypeOK
<1>2. /\ R \subseteq live /\ (ptr[c] # Null => ptr[c] \in R)
      /\ \A x \in scope \cup live : ptr[x] \in R => x \in R \/ ptr[x] = ptr[c]
      /\ \A q \in loose : q \notin R
      /\ \A x \in R : ptr[x] # Null => ptr[x] \in R
  BY <1>1, DeleteSound, ReachClosed
<1>3. live' = live \ R /\ (p = Null \/ p \notin R)
  OBVIOUS
<1> HIDE DEF R
<1>4. c \in scope' \cup live' /\ scope' \cup live' \subseteq scope \cup live
  BY <1>1, <1>3
<1>5. Ptr!TypeOK' /\ ~fault'
  BY <1>2, <1>3 DEF Ptr!TypeOK, PtrInv
<1>6. Leads'
  <2> SUFFICES ASSUME NEW x \in scope' \cup live', ptr'[x] # Null
               PROVE  ptr'[x] \in live' \ loose'
    BY DEF Leads
  <2>1. CASE x = c
    BY <1>3, <2>1
  <2>2. CASE x # c
    <3>1. x \in scope \cup live /\ ptr'[x] = ptr[x] /\ x \notin R /\ x \notin former
      BY <1>2, <1>3, <1>4, <2>2
    <3>2. ptr[x] \in live \ loose /\ ptr[x] # ptr[c]
      BY <2>2, <3>1 DEF PtrInv, Leads, Unique
    <3> QED
      BY <1>2, <1>3, <3>1, <3>2
  <2> QED
    BY <2>1, <2>2
<1>7. Unique'
  <2> SUFFICES ASSUME NEW x \in scope' \cup live', NEW y \in scope' \cup live',
                      ptr'[x] = ptr'[y], ptr'[x] # Null, x # y
               PROVE  FALSE
    BY DEF Unique
  <2>1. x # c /\ y # c
    BY <1>4
  <2> QED
    BY <1>4, <2>1 DEF PtrInv, Unique
<1>8. Owned'
  <2> SUFFICES ASSUME NEW q \in live' \ loose' PROVE \E x \in scope' \cup live' : ptr'[x] = q
    BY DEF Owned
  <2>1. CASE q = p
    BY <1>4, <2>1
  <2>2. CASE q # p
    <3>1. q \in live \ loose /\ q \notin R /\ q # Null
      BY <1>3, <2>2
    <3>2. PICK x \in scope \cup live : ptr[x] = q
      BY <3>1 DEF PtrInv, Owned
    <3>3. x # c /\ x \notin R /\ x \notin former
      BY <1>2, <2>2, <3>1, <3>2
    <3>4. x \in scope' \cup live' /\ ptr'[x] = q
      BY <1>3, <3>2, <3>3
    <3> QED
      BY <3>4
  <2> QED
    BY <2>1, <2>2
<1>9. NoCycle'
  <2>1. R \in SUBSET live
    BY <1>2
  <2>2. \A x \in live \ R : x # c /\ ptr'[x] # Null => ptr'[x] = ptr[x] /\ ptr'[x] # p
    OBVIOUS
  <2>3. \A S \in SUBSET (live \ R) : S # {} => \E o \in S : \A x \in S : ptr'[x] # o
    BY <2>1, <2>2, NoNewCycle
  <2> QED
    BY <1>3, <2>3 DEF NoCycle
<1> QED
  BY <1>5, <1>6, <1>7, <1>8, <1>9 DEF PtrInv

LEMMA ResetOK ==
  ASSUME PtrInv, NEW c \in Ptr!Cells, NEW p \in Objects \cup {Null}, Ptr!Reset(c, p)
  PROVE  PtrInv'
<1> USE PtrTypes, PtrConstants
<1>1. /\ c \in scope \cup live /\ p \in loose \cup {Null} /\ c \notin Ptr!Reach(p)
      /\ live' = live \ Ptr!Reach(ptr[c])
      /\ fault' = (fault \/ ~(Ptr!Reach(ptr[c]) \subseteq live))
      /\ ptr' = [ptr EXCEPT ![c] = p] /\ loose' = loose \ {p} /\ scope' = scope
  BY DEF Ptr!Reset, Ptr!MayOwn, Ptr!Delete
<1>2. ptr[c] \in live \cup {Null} /\ ptr[c] \notin loose
  BY <1>1 DEF PtrInv, Leads, Ptr!TypeOK
<1>3. /\ Ptr!Reach(ptr[c]) \subseteq live
      /\ \A q \in loose : q \notin Ptr!Reach(ptr[c])
  BY <1>2, DeleteSound
<1> DEFINE former == {}
<1>4. \A x \in scope \cup live : x # c /\ ptr[x] = p /\ p # Null => x \in former
  BY <1>1 DEF PtrInv, Leads
<1>5. /\ \A x \in scope \cup live : x # c => ptr'[x] = IF x \in former THEN Null ELSE ptr[x]
      /\ \A x \in former : x \in scope \cup live => ptr[x] = p
      /\ ptr' \in [Ptr!Cells -> Objects \cup {Null}] /\ ptr'[c] = p
  BY <1>1
<1>6. fault' \in BOOLEAN /\ ~fault'
  BY <1>1, <1>3 DEF PtrInv
<1> HIDE DEF former
<1> QED
  BY <1>1, <1>3, <1>4, <1>5, <1>6, TakeOver

LEMMA MoveAssignOK ==
  ASSUME PtrInv, ~MovesUp, NEW c \in Ptr!Cells, NEW d \in Ptr!Cells, Ptr!MoveAssign(c, d)
  PROVE  PtrInv'
<1> USE PtrTypes, PtrConstants
<1>1. CASE c = d
  <2>1. UNCHANGED <<scope, live, ptr, loose, fault>>
    BY <1>1 DEF Ptr!MoveAssign
  <2> QED
    BY <2>1 DEF PtrInv, Ptr!TypeOK, Leads, Unique, Owned, NoCycle
<1>2. CASE c # d
  <2> DEFINE p == ptr[d]
  <2>1. /\ c \in scope \cup live /\ d \in scope \cup live
        /\ c \notin Ptr!Reach(p) /\ d \notin Ptr!Reach(ptr[c])
        /\ live' = live \ Ptr!Reach(ptr[c])
        /\ fault' = (fault \/ d \in Ptr!Reach(ptr[c]) \/ ~(Ptr!Reach(ptr[c]) \subseteq live))
        /\ ptr' = [ptr EXCEPT ![c] = p, ![d] = Null] /\ UNCHANGED <<scope, loose>>
    BY <1>2 DEF Ptr!MoveAssign, Ptr!Loaded, Ptr!MovedFrom
  <2>2. /\ ptr[c] \in live \cup {Null} /\ ptr[c] \notin loose
        /\ p \in live \cup {Null} /\ p \notin loose
    BY <2>1 DEF PtrInv, Leads, Ptr!TypeOK
  <2>3. /\ Ptr!Reach(ptr[c]) \subseteq live
        /\ p \in Ptr!Reach(ptr[c]) => p = ptr[c]
    BY <2>1, <2>2, DeleteSound
  <2>4. p = Null \/ p \notin Ptr!Reach(ptr[c])
    BY <1>2, <2>1, <2>3 DEF PtrInv, Unique
  <2> DEFINE former == {d}
  <2>5. \A x \in scope \cup live : x # c /\ ptr[x] = p /\ p # Null => x \in former
    BY <2>1 DEF PtrInv, Unique
  <2>6. /\ \A x \in scope \cup live : x # c => ptr'[x] = IF x \in former THEN Null ELSE ptr[x]
        /\ \A x \in former : x \in scope \cup live => ptr[x] = p
        /\ ptr' \in [Ptr!Cells -> Objects \cup {Null}] /\ ptr'[c] = p
    BY <1>2, <2>1
  <2>7. fault' \in BOOLEAN /\ ~fault' /\ loose' = loose \ {p} /\ scope' = scope
    BY <2>1, <2>2, <2>3 DEF PtrInv
  <2> HIDE DEF former, p
  <2> QED
    <3>1. /\ c \in scope \cup live /\ p \in live \cup {Null}
          /\ c \notin Ptr!Reach(p) /\ live' = live \ Ptr!Reach(ptr[c])
      BY <2>1, <2>2
    <3> HIDE PtrTypes, PtrConstants
    <3> QED
      BY <2>4, <2>5, <2>6, <2>7, <3>1, TakeOver
<1> QED
  BY <1>1, <1>2

LEMMA PtrStepOK == ~MovesUp /\ PtrInv /\ [Ptr!Next]_Ptr!vars => PtrInv'
<1> SUFFICES ASSUME ~MovesUp, PtrInv, [Ptr!Next]_Ptr!vars PROVE PtrInv'
  OBVIOUS
<1>1. CASE UNCHANGED Ptr!vars
  BY <1>1 DEF Ptr!vars, PtrInv, Ptr!TypeOK, Leads, Unique, Owned, NoCycle
<1>2. CASE Ptr!Next
  BY <1>2, NewOK, DeleteLooseOK, ConstructOK, DestructOK, MoveConstructOK, MoveAssignOK,
     ReleaseOK, ResetOK DEF Ptr!Next
<1> QED
  BY <1>1, <1>2

\* UniquePtr: an object that exists has exactly one owner, a UniquePtr or the
\* program, nothing is used or deleted after its end, and no object is left
\* when the last variable is gone, for any sets of variables and objects, in
\* programs that do not assign from inside the object that they replace.
THEOREM OwnedOnce == ~MovesUp => (Ptr!Spec => []OneOwner)
<1> SUFFICES ASSUME ~MovesUp PROVE Ptr!Spec => []OneOwner
  OBVIOUS
<1>1. PtrInv => OneOwner
  <2> SUFFICES ASSUME PtrInv PROVE Ptr!OneOwner
    BY DEF OneOwner
  <2> USE PtrTypes, PtrConstants
  <2>1. \A x \in Ptr!Usable : ptr[x] # Null => ptr[x] \in live
    BY DEF PtrInv, Leads
  <2>2. ASSUME NEW o \in live
        PROVE  Cardinality({x \in Ptr!Usable : ptr[x] = o}) = (IF o \in loose THEN 0 ELSE 1)
    <3>1. o # Null
      OBVIOUS
    <3>2. CASE o \in loose
      <4>1. {x \in Ptr!Usable : ptr[x] = o} = {}
        BY <3>1, <3>2 DEF PtrInv, Leads
      <4> QED
        BY <3>2, <4>1, FS_EmptySet
    <3>3. CASE o \notin loose
      <4>1. PICK x \in scope \cup live : ptr[x] = o
        BY <3>3 DEF PtrInv, Owned
      <4>2. {y \in Ptr!Usable : ptr[y] = o} = {x}
        BY <3>1, <4>1 DEF PtrInv, Unique
      <4> QED
        BY <3>3, <4>2, FS_Singleton
    <3> QED
      BY <3>2, <3>3
  <2>3. Ptr!TypeOK /\ ~fault
    BY DEF PtrInv
  <2>4. ASSUME NEW S
        PROVE  Ptr!Cardinality(S) = Cardinality(S)
    BY DEF Ptr!Cardinality, Cardinality, Ptr!IsFiniteSet, IsFiniteSet
  <2>5. ASSUME scope = {}, loose = {}, live # {}
        PROVE  FALSE
    <3>1. PICK o \in live : \A x \in live : ptr[x] # o
      BY <2>5 DEF PtrInv, NoCycle
    <3> QED
      BY <2>5, <3>1 DEF PtrInv, Owned
  <2> QED
    BY <2>1, <2>2, <2>3, <2>4, <2>5, Zenon DEF Ptr!OneOwner
<1>2. Ptr!Init => PtrInv
  BY PtrInitOK
<1>3. PtrInv /\ [Ptr!Next]_Ptr!vars => PtrInv'
  BY PtrStepOK
<1> QED
  BY <1>1, <1>2, <1>3, PTL DEF Ptr!Spec
=============================================================================
