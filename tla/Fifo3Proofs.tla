----------------------------- MODULE Fifo3Proofs -----------------------------
(***************************************************************************)
(* Proofs about Fifo3 with zero-initialized cursors (what C++20 gives),    *)
(* for every capacity, width of the cursors, set of values and bound, with *)
(* or without copies that throw.                                           *)
(***************************************************************************)
EXTENDS Fifo3, SequenceTheorems, NaturalFacts

-----------------------------------------------------------------------------
(* Cursors and slots.                                                      *)

\* The slot of the k-th push and of the k-th pop.
Slot(k) == k % Capacity

Zeroed == first = [push |-> 0, pop |-> 0]

LEMMA Positive == Capacity \in Nat \ {0} /\ Modulus \in Nat \ {0}
BY CapacityAssumption, ModulusAssumption

LEMMA SlotRange ==
  ASSUME NEW k \in Int
  PROVE  Slot(k) \in 0 .. Capacity - 1
BY Positive, ModRange DEF Slot

\* Capacity consecutive pushes or pops go to different slots.
LEMMA SlotSame ==
  ASSUME NEW k \in Int, NEW j \in Int, Slot(k) = Slot(j),
         k - j < Capacity, j - k < Capacity
  PROVE  k = j
BY Positive, ModSame DEF Slot

\* They come back to the first slot after that.
LEMMA SlotNext ==
  ASSUME NEW k \in Int
  PROVE  Slot(k + Capacity) = Slot(k)
BY Positive, ModNext DEF Slot

\* They leave no slot out.
LEMMA SlotCovers ==
  ASSUME NEW n \in Int, NEW i \in 0 .. Capacity - 1
  PROVE  \E k \in n .. n + Capacity - 1 : Slot(k) = i
BY Positive, ModCovers DEF Slot

\* The cursors run through the slots in order, also when they wrap around.
LEMMA CursorSlot ==
  ASSUME Zeroed, NEW k \in Nat
  PROVE  /\ PushCursor(k) = k % Modulus /\ PopCursor(k) = k % Modulus
         /\ Element(PushCursor(k)) = Slot(k) /\ Element(PopCursor(k)) = Slot(k)
<1>1. PushCursor(k) = k % Modulus /\ PopCursor(k) = k % Modulus
  BY Positive DEF Zeroed, PushCursor, PopCursor
<1>2. (k % Modulus) % Capacity = k % Capacity
  <2>1. k \in Int /\ Modulus % Capacity = 0
    BY ModulusAssumption
  <2> QED
    BY <2>1, Positive, ModNested, Zenon
<1> QED
  BY <1>1, <1>2 DEF Element, Slot

\* The difference of two cursors is what it would be without wrapping around.
LEMMA CursorDistance ==
  ASSUME Zeroed, NEW k \in Nat, NEW j \in Nat, k - j \in 0 .. Capacity
  PROVE  (PushCursor(k) - PopCursor(j)) % Modulus = k - j
<1>1. ((k % Modulus) - (j % Modulus)) % Modulus = (k - j) % Modulus
  <2>1. k \in Int /\ j \in Int
    OBVIOUS
  <2> QED
    BY <2>1, Positive, ModDistance, Zenon
<1>2. k - j \in 0 .. Modulus - 1
  BY Positive, ModulusAssumption
<1>3. (k - j) % Modulus = k - j
  BY <1>2, Positive, ModSmall
<1>4. PushCursor(k) = k % Modulus /\ PopCursor(j) = j % Modulus
  BY CursorSlot
<1> QED
  BY <1>1, <1>3, <1>4

LEMMA FullEmpty ==
  ASSUME Zeroed, NEW k \in Nat, NEW j \in Nat, k - j \in 0 .. Capacity
  PROVE  /\ Full(PushCursor(k), PopCursor(j)) <=> k - j = Capacity
         /\ Empty(PushCursor(k), PopCursor(j)) <=> k = j
<1>1. Full(PushCursor(k), PopCursor(j)) <=> k - j = Capacity
  BY CursorDistance DEF Full
<1>2. PushCursor(k) = PopCursor(j) <=> k = j
  <2>1. PushCursor(k) = k % Modulus /\ PopCursor(j) = j % Modulus
    BY CursorSlot
  <2>2. k - j < Modulus /\ j - k < Modulus
    BY Positive, ModulusAssumption
  <2>3. k % Modulus = j % Modulus => k = j
    <3>1. k \in Int /\ j \in Int
      OBVIOUS
    <3> QED
      BY <2>2, <3>1, Positive, ModSame, Zenon
  <2> QED
    BY <2>1, <2>3
<1> QED
  BY <1>1, <1>2 DEF Empty

-----------------------------------------------------------------------------
(* The inductive invariant.                                                *)

\* What the decisions of push and pop are worth: as they have seen an old
\* cursor of the other thread, there is at least the room, or the element,
\* that they found, and what made it so has happened before.
Known ==
  /\ pushes - popSeen <= Capacity
  /\ pushPc \in {"construct", "publish"} =>
       pushes - popSync < Capacity /\ pushes < MaxPushes
  /\ popPc \in {"take", "destroy", "publish"} => pops < pushSync

Ended == pushPc = "destroyed" <=> popPc = "destroyed"

\* What the slot of the k-th element holds, counted over the whole history.
Held(k) ==
  IF k < pushes THEN (IF k = pops /\ popPc = "publish" THEN Raw ELSE sent[k + 1])
                ELSE (IF k = pushes /\ pushPc = "publish" THEN pushItem ELSE Raw)

RingOK ==
  IF pushPc = "destroyed" THEN \A i \in 0 .. Capacity - 1 : slots[i] = Raw
  ELSE \A k \in pops .. pops + Capacity - 1 : slots[Slot(k)] = Held(k)

InOrder ==
  /\ \A i \in 1 .. pops : received[i] = sent[i]
  /\ popPc \in {"destroy", "publish"} => popItem = sent[pops + 1]

IInv == Zeroed /\ TypeOK /\ Known /\ Ended /\ RingOK /\ InOrder

LEMMA InitOK == ZeroInitialized /\ Init => IInv
<1> SUFFICES ASSUME ZeroInitialized, Init PROVE IInv
  OBVIOUS
<1>1. Zeroed
  BY DEF Init, Zeroed
<1>2. TypeOK
  BY EmptySeq, MaxPushesAssumption DEF Init, TypeOK
<1>3. Known /\ Ended /\ InOrder
  BY CapacityAssumption DEF Init, Known, Ended, InOrder
<1>4. RingOK
  <2>1. \A k \in 0 .. Capacity - 1 : Slot(k) \in 0 .. Capacity - 1
    BY SlotRange, CapacityAssumption
  <2> QED
    BY <2>1, CapacityAssumption DEF Init, RingOK, Held
<1> QED
  BY <1>1, <1>2, <1>3, <1>4 DEF IInv

\* The numbers that the invariant relates.
LEMMA Numbers ==
  ASSUME IInv
  PROVE  /\ pushes \in Nat /\ pops \in Nat /\ popSeen \in Nat /\ popSync \in Nat
         /\ pushSeen \in Nat /\ pushSync \in Nat
         /\ popSync <= popSeen /\ popSeen <= pops /\ pops <= pushSeen
         /\ pushSeen <= pushes /\ pushSync <= pushSeen
         /\ pushes - popSeen <= Capacity /\ Capacity \in Nat \ {0}
BY Positive, MaxPushesAssumption DEF IInv, TypeOK, Known

\* The steps of push.
LEMMA PushStepOK ==
  ASSUME IInv, PushStep \/ PushSize
  PROVE  IInv'
<1> USE Numbers
<1>1. Zeroed /\ TypeOK /\ Known /\ Ended /\ RingOK /\ InOrder
  BY DEF IInv
<1>2. Zeroed'
  BY <1>1 DEF Zeroed, PushStep, PushBegin, PushConstruct, PushThrow, PushPublish, PushSize
<1>3. ASSUME NEW v \in Values, PushBegin(v)
      PROVE  IInv'
  <2>1. PICK k \in popSeen .. pops :
          /\ popSeen' = k /\ popSync' = k
          /\ \/ Full(PushCursor(pushes), PopCursor(k)) /\ UNCHANGED <<pushPc, pushItem>>
             \/ ~Full(PushCursor(pushes), PopCursor(k)) /\ pushPc' = "construct" /\ pushItem' = v
    BY <1>3 DEF PushBegin, Synchronizes, PopStoreOrder, PushLoadOfPop
  <2>2. Full(PushCursor(pushes), PopCursor(k)) <=> pushes - k = Capacity
    <3>1. k \in Nat /\ pushes - k \in 0 .. Capacity
      OBVIOUS
    <3> QED
      BY <1>1, <3>1, FullEmpty
  <2>3. /\ pushPc = "idle" /\ pushes < MaxPushes
        /\ UNCHANGED <<first, slots, pushes, sent, popVars>>
    BY <1>3 DEF PushBegin
  <2>4. TypeOK'
    BY <1>1, <2>1, <2>3 DEF TypeOK, popVars
  <2>5. Known'
    BY <1>1, <2>1, <2>2, <2>3 DEF Known, popVars
  <2>6. Ended' /\ RingOK' /\ InOrder'
    BY <1>1, <2>1, <2>3 DEF Ended, RingOK, Held, InOrder, popVars
  <2> QED
    BY <1>2, <2>4, <2>5, <2>6 DEF IInv
<1>4. ASSUME PushConstruct
      PROVE  IInv'
  <2>1. Element(PushCursor(pushes)) = Slot(pushes) /\ Slot(pushes) \in 0 .. Capacity - 1
    BY <1>1, CursorSlot, SlotRange
  <2>2. /\ pushPc = "construct" /\ pushPc' = "publish"
        /\ slots' = [slots EXCEPT ![Slot(pushes)] = pushItem]
        /\ UNCHANGED <<first, pushes, popSeen, popSync, pushItem, sent, popVars>>
    BY <1>4, <2>1 DEF PushConstruct
  <2>3. TypeOK'
    BY <1>1, <2>1, <2>2 DEF TypeOK, popVars
  <2>4. Known' /\ Ended' /\ InOrder'
    BY <1>1, <2>2 DEF Known, Ended, InOrder, popVars
  <2>5. RingOK'
    <3> SUFFICES ASSUME NEW k \in pops .. pops + Capacity - 1
                 PROVE  slots'[Slot(k)] = Held(k)'
      BY <2>2 DEF RingOK, popVars
    <3>1. slots[Slot(k)] = Held(k) /\ Slot(k) \in 0 .. Capacity - 1
      BY <1>1, <2>2, SlotRange DEF RingOK
    <3>2. CASE k = pushes
      BY <1>1, <2>1, <2>2, <3>1, <3>2 DEF Held, popVars, TypeOK
    <3>3. CASE k # pushes
      <4>1. pushes \in pops .. pops + Capacity - 1
        BY <1>1, <2>2 DEF Known
      <4>2. Slot(k) # Slot(pushes)
        BY <3>3, <4>1, SlotSame
      <4> QED
        BY <1>1, <2>2, <3>1, <3>3, <4>2 DEF Held, popVars, TypeOK
    <3> QED
      BY <3>2, <3>3
  <2> QED
    BY <1>2, <2>3, <2>4, <2>5 DEF IInv
<1>5. ASSUME PushThrow
      PROVE  IInv'
  <2>1. TypeOK' /\ Known' /\ Ended' /\ InOrder' /\ RingOK'
    BY <1>1, <1>5 DEF PushThrow, TypeOK, Known, Ended, InOrder, RingOK, Held, popVars
  <2> QED
    BY <1>2, <2>1 DEF IInv
<1>6. ASSUME PushPublish
      PROVE  IInv'
  <2>1. /\ pushPc = "publish" /\ pushPc' = "idle" /\ pushes' = pushes + 1
        /\ sent' = Append(sent, pushItem) /\ pushItem' = Raw
        /\ UNCHANGED <<first, slots, popSeen, popSync, popVars>>
    BY <1>6 DEF PushPublish
  <2>2. pushItem \in Values /\ sent \in Seq(Values) /\ Len(sent) = pushes
    BY <1>1, <2>1 DEF TypeOK
  <2>3. /\ sent' \in Seq(Values) /\ Len(sent') = pushes + 1
        /\ \A i \in 1 .. pushes : sent'[i] = sent[i]
        /\ sent'[pushes + 1] = pushItem
    BY <2>1, <2>2, AppendProperties
  <2>4. pushes < MaxPushes /\ pushes - popSync < Capacity
    BY <1>1, <2>1 DEF Known
  <2>5. TypeOK'
    BY <1>1, <2>1, <2>3, <2>4, MaxPushesAssumption DEF TypeOK, popVars
  <2>6. Known' /\ Ended'
    BY <1>1, <2>1, <2>4 DEF Known, Ended, popVars
  <2>7. InOrder'
    BY <1>1, <2>1, <2>3 DEF InOrder, popVars, Known
  <2>8. RingOK'
    <3> SUFFICES ASSUME NEW k \in pops .. pops + Capacity - 1
                 PROVE  slots[Slot(k)] = Held(k)'
      BY <1>1, <2>1 DEF RingOK, popVars, Ended
    <3>1. slots[Slot(k)] = Held(k)
      BY <1>1, <2>1 DEF RingOK
    <3> QED
      BY <1>1, <2>1, <2>3, <3>1 DEF Held, popVars, Known
  <2> QED
    BY <1>2, <2>5, <2>6, <2>7, <2>8 DEF IInv
<1>7. ASSUME PushSize
      PROVE  IInv'
  <2>1. TypeOK' /\ Known' /\ Ended' /\ InOrder' /\ RingOK'
    BY <1>1, <1>7 DEF PushSize, TypeOK, Known, Ended, InOrder, RingOK, Held, popVars
  <2> QED
    BY <1>2, <2>1 DEF IInv
<1> QED
  BY <1>3, <1>4, <1>5, <1>6, <1>7 DEF PushStep

\* The steps of pop.
LEMMA PopStepOK ==
  ASSUME IInv, PopStep \/ PopSize \/ \E k \in pushSeen .. pushes : PopBegin(k)
  PROVE  IInv'
<1> USE Numbers
<1>1. Zeroed /\ TypeOK /\ Known /\ Ended /\ RingOK /\ InOrder
  BY DEF IInv
<1>2. Zeroed'
  BY <1>1 DEF Zeroed, PopStep, PopBegin, PopTake, PopThrow, PopDestroy, PopPublish, PopSize
<1>3. ASSUME NEW k \in pushSeen .. pushes, PopBegin(k)
      PROVE  IInv'
  <2>1. /\ popPc = "idle" /\ pushSeen' = k /\ pushSync' = k
        /\ UNCHANGED <<first, slots, pops, popItem, received, pushVars>>
        /\ \/ Empty(PushCursor(k), PopCursor(pops)) /\ UNCHANGED popPc
           \/ ~Empty(PushCursor(k), PopCursor(pops)) /\ popPc' = "take"
    BY <1>3 DEF PopBegin, Synchronizes, PushStoreOrder, PopLoadOfPush
  <2>2. Empty(PushCursor(k), PopCursor(pops)) <=> k = pops
    <3>1. k \in Nat /\ k - pops \in 0 .. Capacity
      OBVIOUS
    <3> QED
      BY <1>1, <3>1, FullEmpty
  <2>3. TypeOK'
    BY <1>1, <2>1 DEF TypeOK, pushVars
  <2>4. Known'
    BY <1>1, <2>1, <2>2 DEF Known, pushVars
  <2>5. Ended' /\ RingOK' /\ InOrder'
    BY <1>1, <2>1 DEF Ended, RingOK, Held, InOrder, pushVars
  <2> QED
    BY <1>2, <2>3, <2>4, <2>5 DEF IInv
<1>4. ASSUME popPc \in {"take", "destroy"}
      PROVE  /\ Element(PopCursor(pops)) = Slot(pops) /\ Slot(pops) \in 0 .. Capacity - 1
             /\ pops < pushes /\ slots[Slot(pops)] = sent[pops + 1]
             /\ sent[pops + 1] \in Values
  <2>1. Element(PopCursor(pops)) = Slot(pops) /\ Slot(pops) \in 0 .. Capacity - 1
    BY <1>1, CursorSlot, SlotRange
  <2>2. pops < pushes /\ pushPc # "destroyed"
    BY <1>1, <1>4 DEF Known, Ended
  <2>3. slots[Slot(pops)] = Held(pops) /\ Held(pops) = sent[pops + 1]
    BY <1>1, <1>4, <2>2 DEF RingOK, Held
  <2>4. sent \in Seq(Values) /\ Len(sent) = pushes /\ pops + 1 \in 1 .. pushes
    BY <1>1, <2>2 DEF TypeOK
  <2>5. sent[pops + 1] \in Values
    BY <2>4, ElementOfSeq
  <2> QED
    BY <2>1, <2>2, <2>3, <2>5
<1>5. ASSUME PopTake
      PROVE  IInv'
  <2>1. /\ popPc = "take" /\ popPc' = "destroy" /\ popItem' = sent[pops + 1]
        /\ UNCHANGED <<first, slots, pops, pushSeen, pushSync, received, pushVars>>
        /\ sent[pops + 1] \in Values
    BY <1>4, <1>5 DEF PopTake
  <2>2. TypeOK' /\ Known' /\ Ended' /\ InOrder' /\ RingOK'
    BY <1>1, <2>1 DEF TypeOK, Known, Ended, InOrder, RingOK, Held, pushVars
  <2> QED
    BY <1>2, <2>2 DEF IInv
<1>6. ASSUME PopThrow
      PROVE  IInv'
  <2>1. TypeOK' /\ Known' /\ Ended' /\ InOrder' /\ RingOK'
    BY <1>1, <1>6 DEF PopThrow, TypeOK, Known, Ended, InOrder, RingOK, Held, pushVars
  <2> QED
    BY <1>2, <2>1 DEF IInv
<1>7. ASSUME PopDestroy
      PROVE  IInv'
  <2>1. /\ popPc = "destroy" /\ popPc' = "publish"
        /\ slots' = [slots EXCEPT ![Slot(pops)] = Raw]
        /\ UNCHANGED <<first, pops, pushSeen, pushSync, popItem, received, pushVars>>
        /\ pops < pushes /\ Slot(pops) \in 0 .. Capacity - 1
    BY <1>4, <1>7 DEF PopDestroy
  <2>2. TypeOK' /\ Known' /\ Ended' /\ InOrder'
    BY <1>1, <2>1 DEF TypeOK, Known, Ended, InOrder, pushVars
  <2>3. RingOK'
    <3> SUFFICES ASSUME NEW k \in pops .. pops + Capacity - 1
                 PROVE  slots'[Slot(k)] = Held(k)'
      BY <1>1, <2>1 DEF RingOK, pushVars, Ended
    <3>1. slots[Slot(k)] = Held(k) /\ Slot(k) \in 0 .. Capacity - 1
      BY <1>1, <2>1, SlotRange DEF RingOK, Ended
    <3>2. k # pops => Slot(k) # Slot(pops)
      BY SlotSame
    <3> QED
      BY <1>1, <2>1, <3>1, <3>2 DEF Held, pushVars, TypeOK
  <2> QED
    BY <1>2, <2>2, <2>3 DEF IInv
<1>8. ASSUME PopPublish
      PROVE  IInv'
  <2>1. /\ popPc = "publish" /\ popPc' = "idle" /\ pops' = pops + 1
        /\ received' = Append(received, popItem) /\ popItem' = Raw
        /\ UNCHANGED <<first, slots, pushSeen, pushSync, pushVars>>
    BY <1>8 DEF PopPublish
  <2>2. popItem \in Values /\ received \in Seq(Values) /\ Len(received) = pops
    BY <1>1, <2>1 DEF TypeOK
  <2>3. /\ received' \in Seq(Values) /\ Len(received') = pops + 1
        /\ \A i \in 1 .. pops : received'[i] = received[i]
        /\ received'[pops + 1] = popItem
    BY <2>1, <2>2, AppendProperties
  <2>4. pops < pushSync
    BY <1>1, <2>1 DEF Known
  <2>5. TypeOK'
    BY <1>1, <2>1, <2>3, <2>4 DEF TypeOK, pushVars
  <2>6. Known' /\ Ended'
    BY <1>1, <2>1 DEF Known, Ended, pushVars
  <2>7. InOrder'
    BY <1>1, <2>1, <2>3 DEF InOrder, pushVars
  <2>8. RingOK'
    <3> SUFFICES ASSUME NEW k \in pops + 1 .. pops + Capacity
                 PROVE  slots[Slot(k)] = Held(k)'
      BY <1>1, <2>1 DEF RingOK, pushVars, Ended
    <3>1. CASE k = pops + Capacity
      <4>1. slots[Slot(pops)] = Raw
        <5>1. slots[Slot(pops)] = Held(pops)
          <6>1. pushPc # "destroyed" /\ pops \in pops .. pops + Capacity - 1
            BY <1>1, <2>1 DEF Ended
          <6> QED
            BY <1>1, <6>1 DEF RingOK
        <5> QED
          BY <2>1, <2>4, <5>1 DEF Held
      <4>2. Slot(k) = Slot(pops)
        BY <3>1, SlotNext
      <4>3. pushes <= k /\ (pushPc = "publish" => pushes < k)
        BY <1>1, <3>1 DEF Known
      <4> QED
        BY <2>1, <4>1, <4>2, <4>3 DEF Held, pushVars
    <3>2. CASE k # pops + Capacity
      <4>1. slots[Slot(k)] = Held(k)
        <5>1. k \in pops .. pops + Capacity - 1
          BY <3>2
        <5>2. pushPc # "destroyed"
          BY <1>1, <2>1 DEF Ended
        <5> QED
          BY <1>1, <5>1, <5>2 DEF RingOK
      <4> QED
        BY <2>1, <4>1 DEF Held, pushVars
    <3> QED
      BY <3>1, <3>2
  <2> QED
    BY <1>2, <2>5, <2>6, <2>7, <2>8 DEF IInv
<1>9. ASSUME PopSize
      PROVE  IInv'
  <2>1. TypeOK' /\ Known' /\ Ended' /\ InOrder' /\ RingOK'
    BY <1>1, <1>9 DEF PopSize, TypeOK, Known, Ended, InOrder, RingOK, Held, pushVars
  <2> QED
    BY <1>2, <2>1 DEF IInv
<1> QED
  BY <1>3, <1>5, <1>6, <1>7, <1>8, <1>9 DEF PopStep

-----------------------------------------------------------------------------
(* The destructor.                                                         *)

\* Its loop goes through the slots of what was pushed and not popped.
LEMMA RemainingSlots ==
  ASSUME IInv
  PROVE  {Element(c) : c \in RemainingCursors} = {Slot(k) : k \in pops .. pushes - 1}
<1> USE Numbers
<1>1. Zeroed
  BY DEF IInv
<1>2. (PushCursor(pushes) - PopCursor(pops)) % Modulus = pushes - pops
  <2>1. pushes - pops \in 0 .. Capacity
    OBVIOUS
  <2> QED
    BY <1>1, <2>1, CursorDistance
<1>3. RemainingCursors = {(PopCursor(pops) + i) % Modulus : i \in 0 .. pushes - pops - 1}
  BY <1>2 DEF RemainingCursors
<1>4. ASSUME NEW i \in 0 .. pushes - pops - 1
      PROVE  Element((PopCursor(pops) + i) % Modulus) = Slot(pops + i)
  <2>1. PopCursor(pops) = pops % Modulus /\ pops \in Int /\ i \in Int /\ pops + i \in Nat
    BY <1>1, CursorSlot
  <2>2. ((pops % Modulus) + i) % Modulus = (pops + i) % Modulus
    BY <2>1, Positive, ModAdd, Zenon
  <2>3. PopCursor(pops + i) = (pops + i) % Modulus /\ Element(PopCursor(pops + i)) = Slot(pops + i)
    BY <1>1, <2>1, CursorSlot
  <2> QED
    BY <2>1, <2>2, <2>3
<1>5. ASSUME NEW c \in RemainingCursors
      PROVE  Element(c) \in {Slot(k) : k \in pops .. pushes - 1}
  <2>1. PICK i \in 0 .. pushes - pops - 1 : c = (PopCursor(pops) + i) % Modulus
    BY <1>3
  <2>2. pops + i \in pops .. pushes - 1
    OBVIOUS
  <2> QED
    BY <1>4, <2>1, <2>2
<1>6. ASSUME NEW k \in pops .. pushes - 1
      PROVE  Slot(k) \in {Element(c) : c \in RemainingCursors}
  <2>1. k - pops \in 0 .. pushes - pops - 1 /\ pops + (k - pops) = k
    OBVIOUS
  <2>2. (PopCursor(pops) + (k - pops)) % Modulus \in RemainingCursors
    BY <1>3, <2>1
  <2>3. Element((PopCursor(pops) + (k - pops)) % Modulus) = Slot(pops + (k - pops))
    BY <1>4, <2>1
  <2> QED
    BY <2>1, <2>2, <2>3
<1> QED
  BY <1>5, <1>6

\* Between calls these are the slots that hold an object.
LEMMA LiveSlots ==
  ASSUME IInv, pushPc = "idle", popPc = "idle"
  PROVE  {i \in DOMAIN slots : slots[i] # Raw} = {Slot(k) : k \in pops .. pushes - 1}
<1> USE Numbers
<1>1. TypeOK /\ RingOK /\ DOMAIN slots = 0 .. Capacity - 1
  BY DEF IInv, TypeOK
<1>2. \A k \in pops .. pops + Capacity - 1 :
        slots[Slot(k)] = IF k < pushes THEN sent[k + 1] ELSE Raw
  BY <1>1 DEF RingOK, Held
<1>3. \A k \in pops .. pushes - 1 : sent[k + 1] \in Values
  BY <1>1, ElementOfSeq DEF TypeOK
<1>4. ASSUME NEW i \in 0 .. Capacity - 1, slots[i] # Raw
      PROVE  i \in {Slot(k) : k \in pops .. pushes - 1}
  <2>1. PICK k \in pops .. pops + Capacity - 1 : Slot(k) = i
    BY SlotCovers
  <2>2. k < pushes
    BY <1>2, <1>4, <2>1
  <2> QED
    BY <2>1, <2>2
<1>5. ASSUME NEW k \in pops .. pushes - 1
      PROVE  Slot(k) \in 0 .. Capacity - 1 /\ slots[Slot(k)] # Raw
  <2>1. slots[Slot(k)] = sent[k + 1]
    BY <1>2
  <2> QED
    BY <1>3, <2>1, SlotRange, RawAssumption
<1> QED
  BY <1>1, <1>4, <1>5

LEMMA DestroyOK ==
  ASSUME IInv, Destroy
  PROVE  IInv'
<1>1. Zeroed /\ TypeOK /\ Known /\ Ended /\ RingOK /\ InOrder
  BY DEF IInv
<1>2. /\ pushPc = "idle" /\ popPc = "idle"
      /\ pushPc' = "destroyed" /\ popPc' = "destroyed"
      /\ UNCHANGED <<first, pushes, popSeen, popSync, pushItem, sent>>
      /\ UNCHANGED <<pops, pushSeen, pushSync, popItem, received>>
  BY DEF Destroy
<1>3. \A i \in 0 .. Capacity - 1 : slots'[i] = Raw
  <2>1. ASSUME NEW i \in 0 .. Capacity - 1
        PROVE  slots'[i] = IF i \in {Element(c) : c \in RemainingCursors} THEN Raw ELSE slots[i]
    BY <1>1 DEF Destroy, TypeOK
  <2>2. {Element(c) : c \in RemainingCursors} = {i \in 0 .. Capacity - 1 : slots[i] # Raw}
    BY <1>1, <1>2, RemainingSlots, LiveSlots DEF TypeOK
  <2> QED
    BY <2>1, <2>2
<1>4. slots' \in [0 .. Capacity - 1 -> Values \cup {Raw}]
  BY <1>1, <1>3 DEF Destroy, TypeOK
<1>5. TypeOK'
  BY <1>1, <1>2, <1>4 DEF TypeOK
<1>6. Zeroed' /\ Known' /\ Ended' /\ InOrder' /\ RingOK'
  BY <1>1, <1>2, <1>3 DEF Zeroed, Known, Ended, InOrder, RingOK
<1> QED
  BY <1>5, <1>6 DEF IInv

LEMMA StepOK == IInv /\ [Next]_vars => IInv'
<1>1. IInv /\ UNCHANGED vars => IInv'
  BY DEF vars, pushVars, popVars, IInv, Zeroed, TypeOK, Known, Ended, RingOK, Held, InOrder
<1> QED
  BY <1>1, PushStepOK, PopStepOK, DestroyOK DEF Next

\* With cursors that start at zero, IInv holds in every reachable state.
THEOREM Invariance == ZeroInitialized => (Spec => []IInv)
<1> SUFFICES ASSUME ZeroInitialized PROVE Spec => []IInv
  OBVIOUS
<1>1. Init => IInv
  BY InitOK
<1> QED
  BY <1>1, StepOK, PTL DEF Spec

-----------------------------------------------------------------------------
(* What follows from it.                                                   *)

\* Everything keeps its type; neither thread's idea of the other's cursor is
\* ever ahead of it.
THEOREM TypeCorrect == ZeroInitialized => (Spec => []TypeOK)
<1> SUFFICES ASSUME ZeroInitialized PROVE Spec => []TypeOK
  OBVIOUS
<1>1. IInv => TypeOK
  BY DEF IInv
<1> QED
  BY <1>1, Invariance, PTL

\* No two accesses to a slot race: the four memory orders, and the cursors,
\* which never let the threads come closer than they may, are enough.
THEOREM NoDataRace == ZeroInitialized => (Spec => []DataRaceFree)
<1> SUFFICES ASSUME ZeroInitialized PROVE Spec => []DataRaceFree
  OBVIOUS
<1>1. IInv => DataRaceFree
  <2> SUFFICES ASSUME IInv PROVE DataRaceFree
    OBVIOUS
  <2> USE Numbers
  <2>1. Zeroed /\ Known /\ TypeOK
    BY DEF IInv
  <2>2. ASSUME pushPc = "construct"
        PROVE  Element(PushCursor(pushes)) \notin PoppedUnknown
    <3> SUFFICES ASSUME NEW k \in popSync .. pops + (IF popPc \in {"destroy", "publish"} THEN 1 ELSE 0) - 1,
                        Element(PushCursor(pushes)) = Element(PopCursor(k))
                 PROVE  FALSE
      BY DEF PoppedUnknown
    <3>1. k \in Nat /\ k < pushes /\ pushes - k < Capacity
      BY <2>1, <2>2 DEF Known
    <3>2. Slot(pushes) = Slot(k)
      BY <2>1, <3>1, CursorSlot
    <3> QED
      BY <3>1, <3>2, SlotSame
  <2>3. ASSUME popPc \in {"take", "destroy"}
        PROVE  Element(PopCursor(pops)) \notin PushedUnknown
    <3> SUFFICES ASSUME NEW k \in pushSync .. pushes + (IF pushPc = "publish" THEN 1 ELSE 0) - 1,
                        Element(PopCursor(pops)) = Element(PushCursor(k))
                 PROVE  FALSE
      BY DEF PushedUnknown
    <3>1. k \in Nat /\ pops < k /\ k - pops < Capacity
      BY <2>1, <2>3 DEF Known
    <3>2. Slot(pops) = Slot(k)
      BY <2>1, <3>1, CursorSlot
    <3> QED
      BY <3>1, <3>2, SlotSame
  <2> QED
    BY <2>2, <2>3 DEF DataRaceFree
<1> QED
  BY <1>1, Invariance, PTL

\* push constructs where there is no object, pop reads and destroys where there
\* is one.
THEOREM Lifetimes == ZeroInitialized => (Spec => []LifetimesRespected)
<1> SUFFICES ASSUME ZeroInitialized PROVE Spec => []LifetimesRespected
  OBVIOUS
<1>1. IInv => LifetimesRespected
  <2> SUFFICES ASSUME IInv PROVE LifetimesRespected
    OBVIOUS
  <2> USE Numbers
  <2>1. Zeroed /\ Known /\ TypeOK /\ RingOK /\ Ended
    BY DEF IInv
  <2>2. Element(PushCursor(pushes)) = Slot(pushes) /\ Element(PopCursor(pops)) = Slot(pops)
    BY <2>1, CursorSlot
  <2>3. ASSUME pushPc = "construct"
        PROVE  slots[Slot(pushes)] = Raw
    <3>1. pushes \in pops .. pops + Capacity - 1
      BY <2>1, <2>3 DEF Known
    <3> QED
      BY <2>1, <2>3, <3>1 DEF RingOK, Held
  <2>4. ASSUME popPc \in {"take", "destroy"}
        PROVE  slots[Slot(pops)] # Raw
    <3>1. pops < pushes /\ pushPc # "destroyed" /\ pops \in pops .. pops + Capacity - 1
      BY <2>1, <2>4 DEF Known, Ended
    <3>2. slots[Slot(pops)] = sent[pops + 1]
      BY <2>1, <2>4, <3>1 DEF RingOK, Held
    <3>3. sent[pops + 1] \in Values
      BY <2>1, <3>1, ElementOfSeq DEF TypeOK
    <3> QED
      BY <3>2, <3>3, RawAssumption
  <2> QED
    BY <2>2, <2>3, <2>4 DEF LifetimesRespected
<1> QED
  BY <1>1, Invariance, PTL

\* The destructor destroys each object that is left, and nothing else.
THEOREM DestructorCorrect == ZeroInitialized => (Spec => []DestructorExact)
<1> SUFFICES ASSUME ZeroInitialized PROVE Spec => []DestructorExact
  OBVIOUS
<1>1. IInv => DestructorExact
  <2> SUFFICES ASSUME IInv PROVE DestructorExact
    OBVIOUS
  <2>1. pushPc = "idle" /\ popPc = "idle" =>
          {Element(c) : c \in RemainingCursors} = {i \in DOMAIN slots : slots[i] # Raw}
    BY RemainingSlots, LiveSlots
  <2>2. pushPc = "destroyed" => \A i \in DOMAIN slots : slots[i] = Raw
    BY DEF IInv, TypeOK, RingOK
  <2> QED
    BY <2>1, <2>2 DEF DestructorExact
<1> QED
  BY <1>1, Invariance, PTL

\* size() never exceeds the capacity and errs on the safe side, for both its
\* callers, also when cursors have wrapped around.
THEOREM SizesCorrect == ZeroInitialized => (Spec => []SizeBounds)
<1> SUFFICES ASSUME ZeroInitialized PROVE Spec => []SizeBounds
  OBVIOUS
<1>1. IInv => SizeBounds
  <2> SUFFICES ASSUME IInv PROVE SizeBounds
    OBVIOUS
  <2> USE Numbers
  <2>1. Zeroed
    BY DEF IInv
  <2>2. ASSUME NEW j \in popSeen .. pops
        PROVE  (PushCursor(pushes) - PopCursor(j)) % Modulus \in pushes - pops .. Capacity
    <3>1. j \in Nat /\ pushes - j \in 0 .. Capacity
      OBVIOUS
    <3>2. (PushCursor(pushes) - PopCursor(j)) % Modulus = pushes - j
      BY <2>1, <3>1, CursorDistance
    <3> QED
      BY <3>2
  <2>3. ASSUME NEW k \in pushSeen .. pushes
        PROVE  (PushCursor(k) - PopCursor(pops)) % Modulus \in 0 .. pushes - pops
    <3>1. k \in Nat /\ k - pops \in 0 .. Capacity
      OBVIOUS
    <3>2. (PushCursor(k) - PopCursor(pops)) % Modulus = k - pops
      BY <2>1, <3>1, CursorDistance
    <3> QED
      BY <3>2
  <2>4. ASSUME pushes < Modulus
        PROVE  SizeAssertion
    <3>1. \A k \in 0 .. pushes : PushCursor(k) = k /\ PopCursor(k) = k
      <4> SUFFICES ASSUME NEW k \in 0 .. pushes PROVE PushCursor(k) = k /\ PopCursor(k) = k
        OBVIOUS
      <4>1. k \in Nat /\ k \in 0 .. Modulus - 1
        BY <2>4, Positive
      <4>2. k % Modulus = k
        BY <4>1, Positive, ModSmall, Zenon
      <4> QED
        BY <2>1, <4>1, <4>2, CursorSlot
    <3> QED
      BY <3>1 DEF SizeAssertion
  <2> QED
    BY <2>2, <2>3, <2>4 DEF SizeBounds
<1> QED
  BY <1>1, Invariance, PTL

-----------------------------------------------------------------------------
(* The refinement.                                                         *)

\* A step of push takes effect on the abstract queue when it publishes, a step
\* of pop likewise; all the others are stutters.
LEMMA StepRefines == IInv /\ [Next]_vars => [Abstract!Next]_<<sent, received>>
<1> SUFFICES ASSUME IInv, [Next]_vars
             PROVE  [Abstract!Next]_<<sent, received>>
  OBVIOUS
<1> USE Numbers
<1>1. TypeOK /\ Known /\ InOrder
  BY DEF IInv
<1>2. Len(sent) = pushes /\ Len(received) = pops
  BY <1>1 DEF TypeOK
<1>3. CASE PushPublish
  <2>1. pushItem \in Values /\ pushes - pops < Capacity
    BY <1>1, <1>3 DEF PushPublish, TypeOK, Known
  <2>2. sent' = Append(sent, pushItem) /\ received' = received
    BY <1>3 DEF PushPublish, popVars
  <2>3. Abstract!Push(pushItem)
    BY <1>2, <2>1, <2>2 DEF Abstract!Push
  <2> QED
    BY <2>1, <2>3 DEF Abstract!Next
<1>4. CASE PopPublish
  <2>1. pops < pushes /\ popItem = sent[pops + 1]
    BY <1>1, <1>4 DEF PopPublish, Known, InOrder
  <2>2. received' = Append(received, popItem) /\ sent' = sent
    BY <1>4 DEF PopPublish, pushVars
  <2>3. Abstract!Pop
    BY <1>2, <2>1, <2>2 DEF Abstract!Pop
  <2> QED
    BY <2>3 DEF Abstract!Next
<1>5. CASE ~PushPublish /\ ~PopPublish
  BY <1>5 DEF Next, vars, pushVars, popVars, PushStep, PushBegin, PushConstruct, PushThrow,
              PushSize, PopStep, PopBegin, PopTake, PopThrow, PopDestroy, PopSize, Destroy
<1> QED
  BY <1>3, <1>4, <1>5

\* First in, first out, whatever old values the threads act on: Fifo3 is a
\* bounded queue for one pushing and one popping thread.
THEOREM Fifo == ZeroInitialized => (Spec => ImplementsBoundedFifo)
<1> SUFFICES ASSUME ZeroInitialized PROVE Spec => Abstract!Spec
  BY DEF ImplementsBoundedFifo
<1>1. Init => Abstract!Init
  BY DEF Init, Abstract!Init
<1> QED
  BY <1>1, Invariance, StepRefines, PTL DEF Spec, Abstract!Spec

-----------------------------------------------------------------------------
(* What the answers of push and pop are worth.                             *)

\* push returns false exactly if all of its pushes but the pops it has seen
\* would fill the fifo: always when it is full, and only then when what it has
\* seen is up to date.
RefusesWhenFull ==
  \A v \in Values : PushBegin(v) =>
    /\ pushPc' = "idle" <=> pushes - popSeen' = Capacity
    /\ pushes - pops = Capacity => pushPc' = "idle"
    /\ pushPc' = "idle" /\ popSeen' = pops => pushes - pops = Capacity

\* pop returns false exactly if it has popped every push it has seen: always
\* when the fifo is empty, and only then when what it has seen is up to date.
RefusesWhenEmpty ==
  \A k \in pushSeen .. pushes : PopBegin(k) =>
    /\ popPc' = "idle" <=> pops = pushSeen'
    /\ pops = pushes => popPc' = "idle"
    /\ popPc' = "idle" /\ pushSeen' = pushes => pops = pushes

LEMMA StepAnswers == IInv => RefusesWhenFull /\ RefusesWhenEmpty
<1> SUFFICES ASSUME IInv PROVE RefusesWhenFull /\ RefusesWhenEmpty
  OBVIOUS
<1> USE Numbers
<1>1. Zeroed /\ TypeOK /\ Known
  BY DEF IInv
<1>2. ASSUME NEW v \in Values, PushBegin(v)
      PROVE  /\ pushPc' = "idle" <=> pushes - popSeen' = Capacity
             /\ popSeen' \in popSeen .. pops
  <2>1. PICK k \in popSeen .. pops :
          /\ popSeen' = k
          /\ \/ Full(PushCursor(pushes), PopCursor(k)) /\ UNCHANGED <<pushPc, pushItem>>
             \/ ~Full(PushCursor(pushes), PopCursor(k)) /\ pushPc' = "construct"
    BY <1>2 DEF PushBegin
  <2>2. k \in Nat /\ pushes - k \in 0 .. Capacity
    BY <1>1, Positive DEF TypeOK, Known
  <2>3. Full(PushCursor(pushes), PopCursor(k)) <=> pushes - k = Capacity
    BY <1>1, <2>2, FullEmpty
  <2>4. pushPc = "idle"
    BY <1>2 DEF PushBegin
  <2> QED
    BY <2>1, <2>3, <2>4
<1>3. RefusesWhenFull
  <2> SUFFICES ASSUME NEW v \in Values, PushBegin(v)
               PROVE  /\ pushPc' = "idle" <=> pushes - popSeen' = Capacity
                      /\ pushes - pops = Capacity => pushPc' = "idle"
                      /\ pushPc' = "idle" /\ popSeen' = pops => pushes - pops = Capacity
    BY DEF RefusesWhenFull
  <2>1. /\ pushPc' = "idle" <=> pushes - popSeen' = Capacity
        /\ popSeen' \in popSeen .. pops
    BY <1>2
  <2>2. pushes - popSeen <= Capacity
    BY <1>1 DEF Known
  <2> QED
    BY <2>1, <2>2, Positive
<1>4. ASSUME NEW k \in pushSeen .. pushes, PopBegin(k)
      PROVE  /\ popPc' = "idle" <=> pops = k
             /\ pushSeen' = k
  <2>1. k \in Nat /\ k - pops \in 0 .. Capacity
    BY <1>1, Positive DEF TypeOK, Known
  <2>2. Empty(PushCursor(k), PopCursor(pops)) <=> k = pops
    BY <1>1, <2>1, FullEmpty
  <2> QED
    BY <1>4, <2>2 DEF PopBegin
<1>5. RefusesWhenEmpty
  BY <1>1, <1>4, Positive DEF RefusesWhenEmpty, TypeOK
<1> QED
  BY <1>3, <1>5

\* "`false` if fifo is full" and "`false` if fifo is empty" (spsc_q3.cpp:53,66)
\* for cursors that wrap around and loads that return old values: neither call
\* gives up for any other reason, and neither goes on when it must not.
THEOREM Answers == ZeroInitialized => (Spec => [][RefusesWhenFull /\ RefusesWhenEmpty]_vars)
<1>1. IInv /\ [Next]_vars => [RefusesWhenFull /\ RefusesWhenEmpty]_vars
  BY StepAnswers
<1> QED
  BY <1>1, Invariance, PTL DEF Spec
=============================================================================
