---------------------------- MODULE ShmRingProofs ----------------------------
(***************************************************************************)
(* Proofs about ShmRing, for every capacity, width of the indices, set of  *)
(* values, and number of pushes, kills and restarts.                       *)
(***************************************************************************)
EXTENDS ShmRing, SequenceTheorems, NaturalFacts

-----------------------------------------------------------------------------
(* Indices.                                                                *)

LEMMA Positive == /\ Capacity \in Nat \ {0} /\ Capacity > 1 /\ Wrap \in Nat \ {0}
                  /\ 2 * Capacity <= Wrap /\ Messages \in Nat \ {0}
                  /\ MaxPushes \in Nat /\ MaxKills \in Nat
BY ShmAssumption

LEMMA IndexRange ==
  ASSUME NEW k \in Int
  PROVE  Index(k) \in 0 .. Capacity - 1
BY Positive, ModRange DEF Index

\* Elements less than Capacity apart have different indices.
LEMMA IndexSame ==
  ASSUME NEW k \in Int, NEW j \in Int, Index(k) = Index(j),
         k - j < Capacity, j - k < Capacity
  PROVE  k = j
BY Positive, ModSame DEF Index

\* A ring with one element left is full.
LEMMA FullWhenFull ==
  ASSUME NEW k \in Int, NEW j \in Int, k + 1 = j + Capacity
  PROVE  Full(Index(k), Index(j))
<1>1. 1 \in Int /\ j \in Int
  OBVIOUS
<1>2. ((k % Capacity) + 1) % Capacity = (k + 1) % Capacity
  BY <1>1, Positive, ModAdd, Zenon
<1>3. (j + Capacity) % Capacity = j % Capacity
  BY <1>1, Positive, ModNext, Zenon
<1> QED
  BY <1>2, <1>3 DEF Full, Index

\* size() is the distance, whatever the width of the indices: push + CAPACITY
\* does not wrap around.
LEMMA SizeDistance ==
  ASSUME NEW k \in Int, NEW j \in Int, k - j \in 0 .. Capacity - 1
  PROVE  Size(Index(k), Index(j)) = k - j
<1> DEFINE d == Index(k) - Index(j)
<1>1. Index(k) \in 0 .. Capacity - 1 /\ Index(j) \in 0 .. Capacity - 1
  BY IndexRange
<1>2. d \in Int /\ Index(k) + Capacity - Index(j) = d + Capacity
  BY <1>1, Positive
<1>3. d + Capacity \in 0 .. Wrap - 1
  BY <1>1, Positive
<1>4. d % Capacity = (k - j) % Capacity
  BY Positive, ModDistance, Zenon DEF Index
<1>5. (k - j) % Capacity = k - j
  BY Positive, ModSmall
<1> HIDE DEF d
<1>6. (d + Capacity) % Wrap = d + Capacity
  BY <1>3, Positive, ModSmall, Zenon
<1>7. (d + Capacity) % Capacity = d % Capacity
  BY <1>2, Positive, ModNext, Zenon
<1>8. Size(Index(k), Index(j)) = ((d + Capacity) % Wrap) % Capacity
  BY <1>2 DEF Size
<1> QED
  BY <1>4, <1>5, <1>6, <1>7, <1>8

-----------------------------------------------------------------------------
(* The inductive invariant.                                                *)

\* What the decisions of push and pop are worth, as in Fifo3.  They outlive
\* the process that made them: what a killed one knew its successor knows.
Known ==
  /\ pushes - popSeen <= Capacity - 1
  /\ pushPc \in {"write", "publish"} =>
       pushes - popSync < Capacity - 1 /\ pushes < MaxPushes
  /\ popPc \in {"read", "publish"} => pops < pushSync /\ count < Messages

\* The ring holds what was published and not popped, and what a push has
\* written and not published; other elements may hold anything.
RingOK ==
  /\ \A k \in pops .. pushes - 1 : arr[Index(k)] = sent[k + 1]
  /\ pushPc = "publish" => arr[Index(pushes)] = pushItem

InOrder ==
  /\ Len(sent) = pushes /\ Len(received) = pops
  /\ popPc = "publish" => popItem = sent[pops + 1]

IInv == TypeOK /\ Known /\ RingOK /\ InOrder

LEMMA Numbers ==
  ASSUME IInv
  PROVE  /\ pushes \in Nat /\ pops \in Nat /\ popSeen \in Nat /\ popSync \in Nat
         /\ pushSeen \in Nat /\ pushSync \in Nat /\ count \in Nat /\ kills \in Nat
         /\ popSync <= popSeen /\ popSeen <= pops /\ pops <= pushSeen
         /\ pushSeen <= pushes /\ pushSync <= pushSeen
         /\ pushes - popSeen <= Capacity - 1 /\ Capacity \in Nat \ {0}
BY Positive DEF IInv, TypeOK, Known

LEMMA InitOK == Init => IInv
<1> SUFFICES ASSUME Init PROVE IInv
  OBVIOUS
<1> USE Positive
<1>1. /\ sent = <<>> /\ received = <<>>
      /\ sent \in Seq(Values) /\ received \in Seq(Values) /\ Len(sent) = 0 /\ Len(received) = 0
  BY EmptySeq DEF Init
<1>2. TypeOK
  BY <1>1 DEF Init, TypeOK
<1>3. Known /\ RingOK
  BY DEF Init, Known, RingOK
<1>4. InOrder
  BY <1>1 DEF Init, InOrder
<1> QED
  BY <1>2, <1>3, <1>4 DEF IInv

\* The steps of the producer.
LEMMA ProducerOK ==
  ASSUME IInv,
         \/ ProducerOpen \/ ProducerNoOpen \/ ProducerMap \/ ProducerFault \/ ProducerKilled
         \/ \E v \in Values, k \in popSeen .. pops : PushBegin(v, k)
         \/ PushWrite \/ PushPublish
  PROVE  IInv'
<1> USE Numbers
<1>1. TypeOK /\ Known /\ RingOK /\ InOrder
  BY DEF IInv
<1>2. CASE ProducerOpen
  BY <1>1, <1>2 DEF ProducerOpen, IInv, TypeOK, Known, RingOK, InOrder, ring, consumer
<1>8. CASE ProducerNoOpen \/ ProducerFault
  BY <1>1, <1>8
     DEF ProducerNoOpen, ProducerFault, IInv, TypeOK, Known, RingOK, InOrder, ring, consumer
<1>3. CASE ProducerMap
  BY <1>1, <1>3 DEF ProducerMap, FoundIn, IInv, TypeOK, Known, RingOK, InOrder, consumer
<1>4. CASE ProducerKilled
  BY <1>1, <1>4, Positive DEF ProducerKilled, IInv, TypeOK, Known, RingOK, InOrder, ring, consumer
<1>5. ASSUME NEW v \in Values, NEW k \in popSeen .. pops, PushBegin(v, k)
      PROVE  IInv'
  <2>1. /\ pushPc = "run" /\ pushes < MaxPushes /\ popSeen' = k /\ popSync' = k
        /\ UNCHANGED <<object, ring, consumer, kills>>
        /\ \/ UNCHANGED <<pushPc, pushItem>>
           \/ ~Full(Index(pushes), Index(k)) /\ pushPc' = "write" /\ pushItem' = v
    BY <1>5 DEF PushBegin, Synchronizes, PopStoreOrder, PushLoadOfPop
  <2>2. ~Full(Index(pushes), Index(k)) => pushes + 1 # k + Capacity
    BY FullWhenFull
  <2>3. TypeOK'
    BY <1>1, <2>1 DEF TypeOK, ring, consumer
  <2>4. Known'
    BY <1>1, <2>1, <2>2 DEF Known, ring, consumer
  <2>5. RingOK' /\ InOrder'
    BY <1>1, <2>1 DEF RingOK, InOrder, ring, consumer
  <2> QED
    BY <2>3, <2>4, <2>5 DEF IInv
<1>6. CASE PushWrite
  <2>1. /\ pushPc = "write" /\ pushPc' = "publish"
        /\ arr' = [arr EXCEPT ![Index(pushes)] = pushItem]
        /\ UNCHANGED <<object, pushes, pops, sent, received, pushItem, popSeen, popSync,
                       consumer, kills>>
    BY <1>6 DEF PushWrite
  <2>2. Index(pushes) \in 0 .. Capacity - 1
    BY IndexRange
  <2>3. TypeOK' /\ Known' /\ InOrder'
    BY <1>1, <2>1, <2>2 DEF TypeOK, Known, InOrder, consumer
  <2>4. ASSUME NEW k \in pops .. pushes - 1
        PROVE  arr'[Index(k)] = sent[k + 1]
    <3>1. Index(k) \in 0 .. Capacity - 1 /\ Index(k) # Index(pushes)
      <4>1. k \in Int /\ k < pushes /\ pushes - k < Capacity
        OBVIOUS
      <4>2. Index(k) = Index(pushes) => k = pushes
        BY <4>1, IndexSame
      <4> QED
        BY <4>1, <4>2, IndexRange
    <3> QED
      BY <1>1, <2>1, <2>2, <3>1 DEF RingOK, TypeOK
  <2>5. arr'[Index(pushes)] = pushItem
    BY <1>1, <2>1, <2>2 DEF TypeOK
  <2> QED
    BY <2>1, <2>3, <2>4, <2>5 DEF IInv, RingOK
<1>7. CASE PushPublish
  <2>1. /\ pushPc = "publish" /\ pushPc' = "run" /\ pushes' = pushes + 1
        /\ sent' = Append(sent, pushItem) /\ pushItem' = Junk
        /\ UNCHANGED <<object, arr, pops, received, popSeen, popSync, consumer, kills>>
    BY <1>7 DEF PushPublish
  <2>2. pushItem \in Values /\ sent \in Seq(Values) /\ Len(sent) = pushes
    BY <1>1, <2>1 DEF TypeOK, InOrder
  <2>3. /\ sent' \in Seq(Values) /\ Len(sent') = pushes + 1
        /\ \A i \in 1 .. pushes : sent'[i] = sent[i]
        /\ sent'[pushes + 1] = pushItem
    BY <2>1, <2>2, AppendProperties
  <2>4. pushes < MaxPushes /\ pushes - popSync < Capacity - 1
    BY <1>1, <2>1 DEF Known
  <2>5. TypeOK'
    BY <1>1, <2>1, <2>3, <2>4, Positive DEF TypeOK, consumer
  <2>6. Known'
    BY <1>1, <2>1, <2>4 DEF Known, consumer
  <2>7. InOrder'
    BY <1>1, <2>1, <2>3 DEF InOrder, consumer, Known
  <2>8. RingOK'
    <3> SUFFICES ASSUME NEW k \in pops .. pushes
                 PROVE  arr[Index(k)] = sent'[k + 1]
      <4>1. pops' .. pushes' - 1 = pops .. pushes
        BY <2>1
      <4> QED
        BY <2>1, <4>1 DEF RingOK, Index
    <3>1. CASE k = pushes
      BY <1>1, <2>1, <2>3, <3>1 DEF RingOK
    <3>2. CASE k < pushes
      <4>1. k \in pops .. pushes - 1 /\ k + 1 \in 1 .. pushes
        BY <3>2
      <4> QED
        BY <1>1, <2>3, <4>1 DEF RingOK
    <3> QED
      BY <3>1, <3>2
  <2> QED
    BY <2>5, <2>6, <2>7, <2>8 DEF IInv
<1> QED
  BY <1>2, <1>3, <1>4, <1>5, <1>6, <1>7, <1>8

\* The steps of the consumer.
LEMMA ConsumerOK ==
  ASSUME IInv,
         \/ ConsumerOpen \/ ConsumerFault \/ RunReturns \/ ConsumerKilled
         \/ \E k \in pushSeen .. pushes : PopBegin(k)
         \/ PopRead \/ PopPublish
  PROVE  IInv'
<1> USE Numbers
<1>1. TypeOK /\ Known /\ RingOK /\ InOrder
  BY DEF IInv
<1>2. CASE ConsumerOpen
  <2>1. mapped' \in BOOLEAN
    BY <1>2, Zenon DEF ConsumerOpen
  <2>2. /\ popPc \in {"off", "faulted"} /\ count' = 0 /\ popPc' = "run"
        /\ UNCHANGED <<object, ring, producer, popItem, pushSeen, pushSync, kills>>
    BY <1>2 DEF ConsumerOpen
  <2> QED
    BY <1>1, <2>1, <2>2, Positive DEF IInv, TypeOK, Known, RingOK, InOrder, ring, producer
<1>3. CASE ConsumerFault
  BY <1>1, <1>3 DEF ConsumerFault, IInv, TypeOK, Known, RingOK, InOrder, ring, producer
<1>4. CASE RunReturns
  BY <1>1, <1>4, Positive DEF RunReturns, IInv, TypeOK, Known, RingOK, InOrder, ring, producer
<1>5. CASE ConsumerKilled
  BY <1>1, <1>5, Positive DEF ConsumerKilled, IInv, TypeOK, Known, RingOK, InOrder, ring, producer
<1>6. ASSUME NEW k \in pushSeen .. pushes, PopBegin(k)
      PROVE  IInv'
  <2>1. /\ popPc = "run" /\ count < Messages /\ pushSeen' = k /\ pushSync' = k
        /\ UNCHANGED <<object, ring, producer, popItem, mapped, count, kills>>
        /\ \/ UNCHANGED popPc
           \/ k # pops /\ popPc' = "read"
    BY <1>6 DEF PopBegin, Empty, Synchronizes, PushStoreOrder, PopLoadOfPush
  <2>2. TypeOK' /\ Known' /\ RingOK' /\ InOrder'
    BY <1>1, <2>1 DEF TypeOK, Known, RingOK, InOrder, ring, producer
  <2> QED
    BY <2>2 DEF IInv
<1>7. CASE PopRead
  <2>1. pops < pushes
    BY <1>1, <1>7 DEF PopRead, Known
  <2>2. arr[Index(pops)] = sent[pops + 1] /\ sent[pops + 1] \in Values
    BY <1>1, <2>1, ElementOfSeq DEF RingOK, TypeOK, InOrder
  <2>3. /\ popPc = "read" /\ popPc' = "publish" /\ popItem' = sent[pops + 1]
        /\ UNCHANGED <<object, ring, producer, pushSeen, pushSync, mapped, count, kills>>
    BY <1>7, <2>2 DEF PopRead
  <2>4. TypeOK' /\ Known' /\ RingOK' /\ InOrder'
    BY <1>1, <2>2, <2>3 DEF TypeOK, Known, RingOK, InOrder, ring, producer
  <2> QED
    BY <2>4 DEF IInv
<1>8. CASE PopPublish
  <2>1. /\ popPc = "publish" /\ popPc' = "run" /\ pops' = pops + 1 /\ count' = count + 1
        /\ received' = Append(received, popItem) /\ popItem' = Junk
        /\ UNCHANGED <<object, arr, pushes, sent, producer, pushSeen, pushSync, mapped, kills>>
    BY <1>8 DEF PopPublish
  <2>2. popItem \in Values /\ received \in Seq(Values) /\ Len(received) = pops
    BY <1>1, <2>1 DEF TypeOK, InOrder
  <2>3. received' \in Seq(Values) /\ Len(received') = pops + 1
    BY <2>1, <2>2, AppendProperties
  <2>4. pops < pushSync /\ count < Messages
    BY <1>1, <2>1 DEF Known
  <2>5. TypeOK'
    BY <1>1, <2>1, <2>3, <2>4, Positive DEF TypeOK, producer
  <2>6. Known' /\ RingOK' /\ InOrder'
    BY <1>1, <2>1, <2>3 DEF Known, RingOK, InOrder, producer
  <2> QED
    BY <2>5, <2>6 DEF IInv
<1> QED
  BY <1>2, <1>3, <1>4, <1>5, <1>6, <1>7, <1>8

LEMMA StepOK == IInv /\ [Next]_vars => IInv'
<1>1. IInv /\ UNCHANGED vars => IInv'
  BY DEF vars, ring, producer, consumer, IInv, TypeOK, Known, RingOK, InOrder
<1> QED
  BY <1>1, ProducerOK, ConsumerOK DEF Next

\* IInv holds in every reachable state.
THEOREM Invariance == Spec => []IInv
BY InitOK, StepOK, PTL DEF Spec

-----------------------------------------------------------------------------
(* What follows from it.                                                   *)

\* The two processes never access an element at the same time, nor one before
\* it knows of the other's access, a process started after a kill included.
THEOREM NoDataRace == Spec => []DataRaceFree
<1>1. IInv => DataRaceFree
  <2> SUFFICES ASSUME IInv PROVE DataRaceFree
    OBVIOUS
  <2> USE Numbers
  <2>1. Known
    BY DEF IInv
  <2>2. ASSUME pushPc = "write",
               NEW k \in popSync .. pops + (IF popPc = "publish" THEN 1 ELSE 0) - 1
        PROVE  Index(pushes) # Index(k)
    <3>1. k \in Int /\ k < pushes /\ pushes - k < Capacity
      BY <2>1, <2>2 DEF Known
    <3> QED
      BY <3>1, IndexSame
  <2>3. ASSUME popPc = "read",
               NEW k \in pushSync .. pushes + (IF pushPc = "publish" THEN 1 ELSE 0) - 1
        PROVE  Index(pops) # Index(k)
    <3>1. k \in Int /\ pops < k /\ k - pops < Capacity
      BY <2>1, <2>3 DEF Known
    <3> QED
      BY <3>1, IndexSame
  <2> QED
    BY <2>2, <2>3 DEF DataRaceFree, ReadUnknown, WrittenUnknown
<1> QED
  BY <1>1, Invariance, PTL

\* Indices keep their order and distance, and size() never errs on the wrong
\* side, for either of its callers.
THEOREM SizesCorrect == Spec => []SizeSound
<1>1. IInv => SizeSound
  <2> SUFFICES ASSUME IInv PROVE SizeSound
    OBVIOUS
  <2> USE Numbers
  <2>1. ASSUME NEW k \in popSeen .. pops
        PROVE  Size(Index(pushes), Index(k)) \in pushes - pops .. Capacity - 1
    <3>1. Size(Index(pushes), Index(k)) = pushes - k
      BY SizeDistance
    <3> QED
      BY <3>1
  <2>2. ASSUME NEW k \in pushSeen .. pushes
        PROVE  Size(Index(k), Index(pops)) \in 0 .. pushes - pops
    <3>1. Size(Index(k), Index(pops)) = k - pops
      BY SizeDistance
    <3> QED
      BY <3>1
  <2> QED
    BY <2>1, <2>2 DEF SizeSound, IInv
<1> QED
  BY <1>1, Invariance, PTL

LEMMA StepRefines == IInv /\ [Next]_vars => [Abstract!Next]_<<sent, received>>
<1> SUFFICES ASSUME IInv, [Next]_vars
             PROVE  [Abstract!Next]_<<sent, received>>
  OBVIOUS
<1> USE Numbers
<1>1. TypeOK /\ Known /\ InOrder
  BY DEF IInv
<1>2. CASE PushPublish
  <2>1. pushItem \in Values /\ pushes - pops < Capacity - 1
    BY <1>1, <1>2 DEF PushPublish, TypeOK, Known
  <2>2. sent' = Append(sent, pushItem) /\ received' = received
    BY <1>2 DEF PushPublish
  <2>3. Abstract!Push(pushItem)
    BY <1>1, <2>1, <2>2 DEF Abstract!Push, InOrder
  <2> QED
    BY <2>1, <2>3 DEF Abstract!Next
<1>3. CASE PopPublish
  <2>1. pops < pushes /\ popItem = sent[pops + 1]
    BY <1>1, <1>3 DEF PopPublish, Known, InOrder
  <2>2. received' = Append(received, popItem) /\ sent' = sent
    BY <1>3 DEF PopPublish
  <2>3. Abstract!Pop
    BY <1>1, <2>1, <2>2 DEF Abstract!Pop, InOrder
  <2> QED
    BY <2>3 DEF Abstract!Next
<1>4. CASE ~PushPublish /\ ~PopPublish
  BY <1>4 DEF Next, vars, ring, ProducerOpen, ProducerNoOpen, ProducerMap, ProducerFault,
              PushBegin, PushWrite, ProducerKilled, ConsumerOpen, ConsumerFault, PopBegin, PopRead, RunReturns, ConsumerKilled
<1> QED
  BY <1>2, <1>3, <1>4

\* Over any number of kills and restarts, at any step, the ring is a queue:
\* nothing is lost, nothing comes twice, and the order is kept.
THEOREM Fifo == Spec => ImplementsBoundedFifo
<1>1. Init => Abstract!Init
  BY DEF Init, Abstract!Init
<1>2. Spec => Abstract!Spec
  BY <1>1, Invariance, StepRefines, PTL DEF Spec, Abstract!Spec
<1> QED
  BY <1>2 DEF ImplementsBoundedFifo

-----------------------------------------------------------------------------
(* What the answers of push and pop are worth.                             *)

\* With at most Capacity - 1 elements the test of push is that there are
\* exactly so many, that of pop that there are none.
LEMMA FullEmpty ==
  ASSUME NEW k \in Int, NEW j \in Int, k - j \in 0 .. Capacity - 1
  PROVE  /\ Full(Index(k), Index(j)) <=> k - j = Capacity - 1
         /\ Empty(Index(k), Index(j)) <=> k = j
<1> USE Positive
<1>1. ASSUME Full(Index(k), Index(j))
      PROVE  k - j = Capacity - 1
  <2>1. ((k % Capacity) + 1) % Capacity = (k + 1) % Capacity
    <3>1. 1 \in Int
      OBVIOUS
    <3> QED
      BY <3>1, Positive, ModAdd, Zenon
  <2>2. Index(k + 1) = Index(j)
    BY <1>1, <2>1 DEF Full, Index
  <2>3. CASE k + 1 - j < Capacity
    <3>1. k + 1 \in Int /\ (k + 1) - j < Capacity /\ j - (k + 1) < Capacity
      BY <2>3
    <3>2. k + 1 = j
      BY <2>2, <3>1, IndexSame
    <3> QED
      BY <3>2
  <2> QED
    BY <2>3
<1>2. k - j = Capacity - 1 => Full(Index(k), Index(j))
  BY FullWhenFull
<1>3. Index(k) = Index(j) => k = j
  BY IndexSame
<1> QED
  BY <1>1, <1>2, <1>3 DEF Empty

\* push returns false exactly if all that was pushed but what its process has
\* seen popped would fill the ring, and only when it is full if that is up to
\* date; what killed processes have pushed counts.
RefusesWhenFull ==
  \A v \in Values, k \in popSeen .. pops : PushBegin(v, k) =>
    /\ pushPc' = "run" <=> pushes - popSeen' = Capacity - 1
    /\ pushes - pops = Capacity - 1 => pushPc' = "run"
    /\ pushPc' = "run" /\ popSeen' = pops => pushes - pops = Capacity - 1

\* pop returns false exactly if all that its process has seen is popped.
RefusesWhenEmpty ==
  \A k \in pushSeen .. pushes : PopBegin(k) =>
    /\ popPc' = "run" <=> pops = pushSeen'
    /\ pops = pushes => popPc' = "run"
    /\ popPc' = "run" /\ pushSeen' = pushes => pops = pushes

LEMMA StepAnswers == IInv => RefusesWhenFull /\ RefusesWhenEmpty
<1> SUFFICES ASSUME IInv PROVE RefusesWhenFull /\ RefusesWhenEmpty
  OBVIOUS
<1> USE Numbers
<1>1. ASSUME NEW v \in Values, NEW k \in popSeen .. pops, PushBegin(v, k)
      PROVE  /\ pushPc' = "run" <=> pushes - popSeen' = Capacity - 1
             /\ pushes - pops = Capacity - 1 => pushPc' = "run"
             /\ pushPc' = "run" /\ popSeen' = pops => pushes - pops = Capacity - 1
  <2>1. k \in Int /\ pushes - k \in 0 .. Capacity - 1
    OBVIOUS
  <2>2. Full(Index(pushes), Index(k)) <=> pushes - k = Capacity - 1
    BY <2>1, FullEmpty
  <2>3. popSeen' = k /\ (pushPc' = "run" <=> Full(Index(pushes), Index(k)))
    BY <1>1 DEF PushBegin
  <2> QED
    BY <2>1, <2>2, <2>3
<1>2. ASSUME NEW k \in pushSeen .. pushes, PopBegin(k)
      PROVE  /\ popPc' = "run" <=> pops = pushSeen'
             /\ pops = pushes => popPc' = "run"
             /\ popPc' = "run" /\ pushSeen' = pushes => pops = pushes
  <2>1. k \in Int /\ k - pops \in 0 .. Capacity - 1
    OBVIOUS
  <2>2. Empty(Index(k), Index(pops)) <=> k = pops
    BY <2>1, FullEmpty
  <2>3. pushSeen' = k /\ (popPc' = "run" <=> Empty(Index(k), Index(pops)))
    BY <1>2 DEF PopBegin
  <2> QED
    BY <2>1, <2>2, <2>3
<1> QED
  BY <1>1, <1>2 DEF RefusesWhenFull, RefusesWhenEmpty

\* "FULL" and "EMPTY" (SHM.h:17,30) mean it, whatever old indices are read,
\* and for a process that starts on what killed ones have left.
THEOREM Answers == Spec => [][RefusesWhenFull /\ RefusesWhenEmpty]_vars
<1>1. IInv /\ [Next]_vars => [RefusesWhenFull /\ RefusesWhenEmpty]_vars
  BY StepAnswers
<1> QED
  BY <1>1, Invariance, PTL DEF Spec
=============================================================================
