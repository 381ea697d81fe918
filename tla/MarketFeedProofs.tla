--------------------------- MODULE MarketFeedProofs ---------------------------
(***************************************************************************)
(* Proofs about MarketFeed with the reader that asks for whole records,    *)
(* MarketFeed.java, for every set of readers, number of records and        *)
(* capacity of the connection.  (For the other one the properties are      *)
(* false, see the run market_feed_cpp.)                                    *)
(***************************************************************************)
EXTENDS MarketFeed, SequenceTheorems, NaturalFacts

\* readFully on a buffer of the size of a record.
WholeRecords == ReadsFully /\ BufUnits = 5

Units == 0 .. Base - 1

-----------------------------------------------------------------------------
(* The stream: what the server would send to a client that never leaves.   *)

\* The k-th unit of it, from 0.
Unit(k) == Pack(1 + (k \div 5))[1 + (k % 5)]

LEMMA Constants ==
  /\ Base \in Nat \ {0} /\ 1 < Base /\ Pipe \in Nat /\ Records \in Nat \ {0}
  /\ Nobody \notin Readers
BY FeedAssumption

LEMMA PackUnits ==
  ASSUME NEW i \in Nat
  PROVE  Pack(i) \in Seq(Units) /\ Len(Pack(i)) = 5
<1>1. \A v \in Int : v % Base \in Units
  BY Constants, ModRange DEF Units
<1>2. i \in Int /\ i \div Base \in Int /\ i % 2 \in Int /\ (i % 2) \div Base \in Int
  BY Constants
<1>3. /\ Low(Timestamp(i)) \in Units /\ High(Timestamp(i)) \in Units
      /\ Low(Price(i)) \in Units /\ High(Price(i)) \in Units
  BY <1>1, <1>2 DEF Low, High, Timestamp, Price
<1>4. Volume \in Units
  BY Constants DEF Volume, Units
<1> QED
  BY <1>3, <1>4 DEF Pack

\* Where a unit is: five of them are a record.
LEMMA Place ==
  ASSUME NEW m \in Nat, NEW k \in Nat
  PROVE  (5 * m + k) \div 5 = m + (k \div 5) /\ (5 * m + k) % 5 = k % 5
OBVIOUS

LEMMA RecordUnits ==
  ASSUME NEW m \in Nat, NEW i \in 1 .. 5
  PROVE  Unit(5 * m + i - 1) = Pack(m + 1)[i]
<1>1. i - 1 \in Nat /\ (i - 1) \div 5 = 0 /\ (i - 1) % 5 = i - 1
  OBVIOUS
<1>2. (5 * m + (i - 1)) \div 5 = m /\ (5 * m + (i - 1)) % 5 = i - 1
  BY <1>1, Place
<1>3. 5 * m + i - 1 = 5 * m + (i - 1) /\ 1 + m = m + 1 /\ 1 + (i - 1) = i
  OBVIOUS
<1> QED
  BY <1>2, <1>3 DEF Unit

-----------------------------------------------------------------------------
(* Pieces of the stream.                                                   *)

\* s is the part of the stream that begins at the unit k.
From(s, k) == s \in Seq(Units) /\ \A i \in 1 .. Len(s) : s[i] = Unit(k + i - 1)

LEMMA EmptyFrom == \A k : From(<<>>, k)
BY EmptySeq DEF From

LEMMA PackFrom ==
  ASSUME NEW m \in Nat
  PROVE  From(Pack(m + 1), 5 * m)
<1>1. Pack(m + 1) \in Seq(Units) /\ Len(Pack(m + 1)) = 5
  BY PackUnits
<1> QED
  BY <1>1, RecordUnits DEF From

\* What is left of a part without its first n units.
LEMMA RestFrom ==
  ASSUME NEW s, NEW k \in Nat, From(s, k), NEW n \in 0 .. Len(s)
  PROVE  /\ From(SubSeq(s, n + 1, Len(s)), k + n)
         /\ Len(SubSeq(s, n + 1, Len(s))) = Len(s) - n
<1> DEFINE a == n + 1
           b == Len(s)
           rest == SubSeq(s, a, b)
<1>1. s \in Seq(Units) /\ b \in Nat /\ n \in Nat
  BY LenProperties DEF From
<1>2. a \in Int /\ b \in Int /\ \A i \in a .. b : s[i] \in Units
  BY <1>1, ElementOfSeq
<1>3. b - a + 1 = b - n /\ (a <= b <=> n # b) /\ \A i \in 1 .. b - n : a + i - 1 = n + i
  BY <1>1
<1> HIDE DEF a, b
<1>4. /\ rest \in Seq(Units) /\ Len(rest) = IF a <= b THEN b - a + 1 ELSE 0
      /\ \A i \in 1 .. b - a + 1 : rest[i] = s[a + i - 1]
  BY <1>2, SubSeqProperties
<1>5. Len(rest) = b - n
  BY <1>1, <1>3, <1>4
<1>6. \A i \in 1 .. b - n : rest[i] = Unit(k + n + i - 1)
  <2> SUFFICES ASSUME NEW i \in 1 .. b - n PROVE rest[i] = Unit(k + n + i - 1)
    OBVIOUS
  <2>1. rest[i] = s[n + i] /\ n + i \in 1 .. b /\ k + (n + i) - 1 = k + n + i - 1
    BY <1>1, <1>3, <1>4
  <2> QED
    BY <2>1 DEF From, b
<1> HIDE DEF rest
<1>7. From(rest, k + n) /\ Len(rest) = b - n
  BY <1>4, <1>5, <1>6 DEF From
<1> QED
  BY <1>7 DEF rest, a, b

\* The first n units of a part.
LEMMA FirstFrom ==
  ASSUME NEW s, NEW k \in Nat, From(s, k), NEW n \in 0 .. Len(s)
  PROVE  From(SubSeq(s, 1, n), k) /\ Len(SubSeq(s, 1, n)) = n
<1> DEFINE first == SubSeq(s, 1, n)
<1>1. s \in Seq(Units) /\ Len(s) \in Nat /\ n \in Nat
  BY LenProperties DEF From
<1>2. \A i \in 1 .. n : s[i] \in Units
  BY <1>1, ElementOfSeq
<1>3. /\ first \in Seq(Units) /\ Len(first) = IF 1 <= n THEN n - 1 + 1 ELSE 0
      /\ \A i \in 1 .. n - 1 + 1 : first[i] = s[1 + i - 1]
  BY <1>1, <1>2, SubSeqProperties
<1> HIDE DEF first
<1>4. Len(first) = n /\ \A i \in 1 .. n : first[i] = s[i]
  BY <1>1, <1>3
<1>5. From(first, k) /\ Len(first) = n
  BY <1>1, <1>3, <1>4 DEF From
<1> QED
  BY <1>5 DEF first

\* Two parts of which the second begins where the first one ends.
LEMMA JoinFrom ==
  ASSUME NEW s, NEW t, NEW k \in Nat, From(s, k), From(t, k + Len(s))
  PROVE  From(s \o t, k) /\ Len(s \o t) = Len(s) + Len(t)
<1>1. s \in Seq(Units) /\ t \in Seq(Units) /\ Len(s) \in Nat /\ Len(t) \in Nat
  BY LenProperties DEF From
<1>2. /\ s \o t \in Seq(Units) /\ Len(s \o t) = Len(s) + Len(t)
      /\ \A i \in 1 .. Len(s) + Len(t) :
           (s \o t)[i] = IF i <= Len(s) THEN s[i] ELSE t[i - Len(s)]
  BY <1>1, ConcatProperties
<1> DEFINE joined == s \o t
<1> HIDE DEF joined
<1>3. ASSUME NEW i \in 1 .. Len(s) + Len(t)
      PROVE  joined[i] = Unit(k + i - 1)
  <2>1. CASE i <= Len(s)
    BY <1>1, <1>2, <2>1 DEF From, joined
  <2>2. CASE ~(i <= Len(s))
    <3>1. i - Len(s) \in 1 .. Len(t) /\ k + Len(s) + (i - Len(s)) - 1 = k + i - 1
      BY <1>1, <2>2
    <3>2. joined[i] = t[i - Len(s)]
      BY <1>2, <2>2 DEF joined
    <3> QED
      BY <3>1, <3>2 DEF From
  <2> QED
    BY <2>1, <2>2
<1>4. From(joined, k)
  BY <1>2, <1>3 DEF From, joined
<1> QED
  BY <1>2, <1>4 DEF joined

-----------------------------------------------------------------------------
(* The inductive invariant.                                                *)

\* Before a client is accepted nothing is sent, and only that client reads.
Begun ==
  /\ server \in {"down", "listening"} => served = Nobody
  /\ server = "serving" => served \in Readers
  /\ served = Nobody => stream = <<>>
  /\ \A r \in Readers : served = r => state[r] # "new"
  /\ \A r \in Readers : served # r => pos[r] = 0 /\ count[r] = 0

Wanted == \A r \in Readers : state[r] \in {"new", "connected"} => count[r] < Records

\* While the client is there, what its buffer, the connection and sendall hold
\* are consecutive parts of the stream, and no more than was packed.
Consecutive(r) ==
  /\ pos[r] + Len(stream) + Len(left) = 5 * (made - count[r])
  /\ \A u \in 1 .. pos[r] : buffer[r][u] = Unit(5 * count[r] + u - 1)
  /\ From(stream, 5 * count[r] + pos[r])
  /\ From(left, 5 * count[r] + pos[r] + Len(stream))

Places == \A r \in Readers : served = r /\ state[r] = "connected" => Consecutive(r)

FeedInv == TypeOK /\ Begun /\ Wanted /\ Places

LEMMA InitOK == WholeRecords /\ Init => FeedInv
<1> SUFFICES ASSUME WholeRecords, Init PROVE FeedInv
  OBVIOUS
<1> USE Constants DEF Init
<1>1. TypeOK
  BY DEF TypeOK, WholeRecords
<1>2. Begun /\ Wanted /\ Places
  BY DEF Begun, Wanted, Places
<1> QED
  BY <1>1, <1>2 DEF FeedInv

\* What a state that satisfies the invariant is like for the reader r.
LEMMA Reader ==
  ASSUME FeedInv, WholeRecords, NEW r \in Readers
  PROVE  /\ pos[r] \in 0 .. 4 /\ count[r] \in Nat /\ made \in Nat /\ BufUnits = 5
         /\ 5 * count[r] + pos[r] \in Nat
         /\ buffer[r] \in [1 .. 5 -> Units]
         /\ served = r /\ state[r] = "connected" =>
              /\ Consecutive(r) /\ Len(stream) \in Nat /\ Len(left) \in Nat
              /\ count[r] < Records
<1>1. /\ pos[r] \in 0 .. 4 /\ count[r] \in Nat /\ made \in Nat /\ BufUnits = 5
      /\ 5 * count[r] + pos[r] \in Nat
      /\ buffer[r] \in [1 .. 5 -> Units]
  <2>1. /\ BufUnits = 5 /\ buffer \in [Readers -> [1 .. BufUnits -> Units]]
        /\ pos \in [Readers -> 0 .. BufUnits - 1] /\ count \in [Readers -> 0 .. Records]
        /\ made \in Nat
    BY DEF FeedInv, TypeOK, WholeRecords, Units
  <2>2. 0 .. BufUnits - 1 = 0 .. 4 /\ 1 .. BufUnits = 1 .. 5
    BY <2>1
  <2>3. /\ pos[r] \in 0 .. 4 /\ count[r] \in 0 .. Records
        /\ buffer[r] \in [1 .. 5 -> Units]
    BY <2>1, <2>2
  <2> QED
    BY <2>1, <2>3, Constants
<1>2. ASSUME served = r, state[r] = "connected"
      PROVE  /\ Consecutive(r) /\ Len(stream) \in Nat /\ Len(left) \in Nat
             /\ count[r] < Records
  <2>1. Consecutive(r) /\ count[r] < Records
    BY <1>2 DEF FeedInv, Places, Wanted
  <2> QED
    BY <2>1, LenProperties DEF Consecutive, From
<1> QED
  BY <1>1, <1>2

-----------------------------------------------------------------------------
(* Every step keeps it.                                                    *)

LEMMA AcceptOK ==
  ASSUME FeedInv, WholeRecords, NEW r \in Readers, Accept(r)
  PROVE  FeedInv'
<1>1. /\ server = "listening" /\ state[r] = "connected" /\ served = Nobody
      /\ server' = "serving" /\ served' = r /\ made' = 1 /\ left' = Pack(1)
      /\ UNCHANGED <<stream, state, buffer, pos, count>>
  BY DEF Accept, FeedInv, Begun
<1>2. r # Nobody /\ pos[r] = 0 /\ count[r] = 0 /\ stream = <<>>
  BY <1>1, Constants DEF FeedInv, Begun
<1>3. TypeOK'
  <2>1. Len(left') <= 5 /\ Len(stream') <= Pipe
    <3>1. Len(Pack(1)) = 5
      BY PackUnits
    <3>2. Len(left') = 5
      BY <1>1, <3>1, Zenon
    <3>3. Len(stream) <= Pipe
      BY DEF FeedInv, TypeOK
    <3>4. Len(stream') <= Pipe
      BY <1>1, <3>3, Zenon
    <3> QED
      BY <3>2, <3>4
  <2>2. TypeOK
    BY DEF FeedInv
  <2> QED
    BY <1>1, <2>1, <2>2, Zenon DEF TypeOK
<1>4. Begun' /\ Wanted'
  BY <1>1, <1>2, Constants DEF FeedInv, Begun, Wanted
<1>5. Consecutive(r)'
  <2>1. From(Pack(0 + 1), 5 * 0) /\ Len(Pack(0 + 1)) = 5
    BY PackFrom, PackUnits
  <2>2. From(Pack(1), 0) /\ Len(Pack(1)) = 5 /\ From(<<>>, 0) /\ Len(<<>>) = 0
    BY <2>1, EmptyFrom
  <2> QED
    BY <1>1, <1>2, <2>2 DEF Consecutive
<1>6. Places'
  BY <1>1, <1>5 DEF Places
<1> QED
  BY <1>3, <1>4, <1>6 DEF FeedInv

LEMMA SendSomeOK ==
  ASSUME FeedInv, WholeRecords, SendSome
  PROVE  FeedInv'
<1> DEFINE r == served
           a == Len(stream)
           b == Len(left)
           k == 5 * count[r] + pos[r]
<1>1. /\ server = "serving" /\ state[r] = "connected" /\ r \in Readers
      /\ UNCHANGED <<server, served, state, buffer, pos, count>>
  BY DEF SendSome, FeedInv, Begun
<1>2. PICK n \in 1 .. b :
        /\ a + n <= Pipe
        /\ stream' = stream \o SubSeq(left, 1, n)
        /\ \/ n < b /\ left' = SubSeq(left, n + 1, b) /\ made' = made
           \/ n = b /\ left' = Pack(made + 1) /\ made' = made + 1
  BY DEF SendSome
<1>3. /\ a \in Nat /\ b \in Nat /\ b <= 5
      /\ From(stream, k) /\ From(left, k + a) /\ pos[r] + a + b = 5 * (made - count[r])
  BY <1>1, Reader DEF Consecutive, FeedInv, TypeOK
<1>4. pos[r] \in 0 .. 4 /\ count[r] \in Nat /\ made \in Nat /\ k \in Nat
  BY <1>1, Reader
<1>5. k + a \in Nat /\ n \in 0 .. b /\ n \in Nat
  BY <1>3, <1>4
<1>6. From(SubSeq(left, 1, n), k + a) /\ Len(SubSeq(left, 1, n)) = n
  BY <1>3, <1>5, FirstFrom
<1>7. From(stream', k) /\ Len(stream') = a + n
  BY <1>2, <1>3, <1>4, <1>6, JoinFrom
<1>8. /\ From(left', k + a + n) /\ Len(left') \in Nat /\ Len(left') <= 5 /\ made' \in Nat
      /\ pos[r] + (a + n) + Len(left') = 5 * (made' - count[r])
  <2>1. CASE n < b /\ left' = SubSeq(left, n + 1, b) /\ made' = made
    <3>1. From(left', k + a + n) /\ Len(left') = b - n
      BY <1>3, <1>5, <2>1, RestFrom
    <3>2. /\ b - n \in Nat /\ b - n <= 5
          /\ pos[r] + (a + n) + (b - n) = 5 * (made - count[r])
      <4> HIDE DEF a, b
      <4> QED
        BY <1>3, <1>4, <1>5
    <3> QED
      BY <1>4, <2>1, <3>1, <3>2
  <2>2. CASE n = b /\ left' = Pack(made + 1) /\ made' = made + 1
    <3>1. From(Pack(made + 1), 5 * made) /\ Len(Pack(made + 1)) = 5
      BY <1>4, PackFrom, PackUnits
    <3>2. /\ 5 * made = k + a + n /\ made + 1 \in Nat
          /\ pos[r] + (a + n) + 5 = 5 * (made + 1 - count[r])
      <4> HIDE DEF a, b
      <4>1. n = b
        BY <2>2
      <4> QED
        BY <1>3, <1>4, <1>5, <4>1
    <3>3. Len(left') = 5 /\ From(left', k + a + n)
      BY <2>2, <3>1, <3>2, Zenon
    <3>4. Len(left') \in Nat /\ Len(left') <= 5
      BY <3>3
    <3>5. made' \in Nat
      BY <2>2, <3>2, Zenon
    <3>6. pos[r] + (a + n) + Len(left') = 5 * (made' - count[r])
      <4> HIDE DEF a, b
      <4>1. made' = made + 1
        BY <2>2
      <4>2. pos[r] + (a + n) + 5 = 5 * (made' - count[r])
        BY <1>3, <1>4, <1>5, <3>2, <4>1
      <4> QED
        BY <3>3, <4>2
    <3> QED
      BY <3>3, <3>4, <3>5, <3>6
  <2> QED
    BY <1>2, <2>1, <2>2
<1>9. TypeOK'
  BY <1>1, <1>2, <1>7, <1>8 DEF FeedInv, TypeOK
<1>10. Begun' /\ Wanted'
  BY <1>1, Constants DEF FeedInv, Begun, Wanted
<1>11. Consecutive(r)'
  <2>1. k + a + n = k + (a + n)
    <3> HIDE DEF a, k
    <3> QED
      BY <1>3, <1>4, <1>5
  <2>2. /\ pos[r] + Len(stream') + Len(left') = 5 * (made' - count[r])
        /\ From(stream', k) /\ From(left', k + Len(stream'))
    BY <1>7, <1>8, <2>1
  <2>3. \A u \in 1 .. pos[r] : buffer[r][u] = Unit(5 * count[r] + u - 1)
    BY <1>1, Reader DEF Consecutive
  <2> QED
    BY <1>1, <2>2, <2>3 DEF Consecutive
<1>12. Places'
  BY <1>1, <1>11 DEF Places
<1> QED
  BY <1>9, <1>10, <1>12 DEF FeedInv

\* A unit's place in the stream, counted from the buffer or from the record.
LEMMA SamePlace ==
  ASSUME NEW c \in Nat, NEW p \in Nat, NEW u \in Nat
  PROVE  5 * c + p + (u - p) - 1 = 5 * c + u - 1
OBVIOUS

\* What a read puts into the buffer is the next part of the stream.
LEMMA ReadBuffer ==
  ASSUME FeedInv, WholeRecords, NEW r \in Readers, served = r, state[r] = "connected",
         NEW n \in 1 .. Room(r), n <= Len(stream)
  PROVE  /\ Put(r, n) \in [1 .. 5 -> Units]
         /\ \A u \in 1 .. pos[r] + n : Put(r, n)[u] = Unit(5 * count[r] + u - 1)
<1>1. /\ pos[r] \in 0 .. 4 /\ count[r] \in Nat /\ BufUnits = 5
      /\ buffer[r] \in [1 .. 5 -> Units]
      /\ \A u \in 1 .. pos[r] : buffer[r][u] = Unit(5 * count[r] + u - 1)
  BY Reader DEF Consecutive
<1>2. n \in Nat /\ pos[r] + n <= 5
  BY <1>1 DEF Room
<1>3. /\ stream \in Seq(Units) /\ Len(stream) \in Nat
      /\ \A i \in 1 .. Len(stream) : stream[i] = Unit(5 * count[r] + pos[r] + i - 1)
  BY Reader DEF Consecutive, From
<1>4. ASSUME NEW u \in 1 .. 5
      PROVE  /\ Put(r, n)[u] \in Units
             /\ u <= pos[r] + n => Put(r, n)[u] = Unit(5 * count[r] + u - 1)
  <2>1. Put(r, n)[u] = IF u \in pos[r] + 1 .. pos[r] + n THEN stream[u - pos[r]] ELSE buffer[r][u]
    BY <1>1 DEF Put
  <2>2. CASE u \in pos[r] + 1 .. pos[r] + n
    <3>1. u - pos[r] \in 1 .. n /\ u - pos[r] \in 1 .. Len(stream)
      <4>1. pos[r] \in Nat /\ n \in Nat /\ Len(stream) \in Nat /\ n <= Len(stream)
        BY <1>1, <1>2, <1>3
      <4> QED
        BY <2>2, <4>1
    <3>2. 5 * count[r] + pos[r] + (u - pos[r]) - 1 = 5 * count[r] + u - 1
      <4>1. count[r] \in Nat /\ pos[r] \in Nat /\ u \in Nat
        BY <1>1
      <4> QED
        BY <4>1, SamePlace
    <3>3. stream[u - pos[r]] \in Units
      BY <1>3, <3>1, ElementOfSeq
    <3> QED
      BY <1>3, <2>1, <2>2, <3>1, <3>2, <3>3
  <2>3. CASE u \notin pos[r] + 1 .. pos[r] + n
    <3>1. u <= pos[r] + n => u \in 1 .. pos[r]
      BY <1>1, <1>2, <2>3
    <3> QED
      BY <1>1, <2>1, <2>3, <3>1
  <2> QED
    BY <2>2, <2>3
<1>5. Put(r, n) \in [1 .. 5 -> Units]
  BY <1>1, <1>4 DEF Put
<1>6. ASSUME NEW u \in 1 .. pos[r] + n
      PROVE  u \in 1 .. 5 /\ u <= pos[r] + n
  BY <1>1, <1>2
<1> QED
  BY <1>4, <1>5, <1>6

LEMMA ReadOK ==
  ASSUME FeedInv, WholeRecords, NEW r \in Readers, Read(r)
  PROVE  /\ FeedInv'
         /\ count'[r] # count[r] =>
              /\ count'[r] = count[r] + 1
              /\ \A u \in 1 .. 5 : buffer'[r][u] = Unit(5 * count[r] + u - 1)
         /\ \A q \in Readers : q # r => count'[q] = count[q]
         /\ buffer' \in [Readers -> [1 .. 5 -> Units]]
<1> DEFINE a == Len(stream)
           b == Len(left)
           k == 5 * count[r] + pos[r]
<1>1. /\ state[r] = "connected" /\ served = r
      /\ UNCHANGED <<server, served, made, left>>
  BY DEF Read
<1>2. PICK n \in 1 .. Room(r) :
        /\ n <= a
        /\ buffer' = [buffer EXCEPT ![r] = Put(r, n)]
        /\ stream' = SubSeq(stream, n + 1, a)
        /\ \/ Complete(pos[r] + n) /\ Parsed(r)
           \/ /\ ~Complete(pos[r] + n)
              /\ pos' = [pos EXCEPT ![r] = @ + n]
              /\ UNCHANGED <<count, state>>
  BY DEF Read
<1>3. /\ pos[r] \in 0 .. 4 /\ count[r] \in Nat /\ made \in Nat /\ BufUnits = 5
      /\ k \in Nat /\ count[r] < Records
  BY <1>1, Reader
<1>4. /\ a \in Nat /\ b \in Nat /\ pos[r] + a + b = 5 * (made - count[r])
      /\ From(stream, k) /\ From(left, k + a)
  BY <1>1, Reader DEF Consecutive
<1>5. n \in Nat /\ n \in 0 .. a /\ pos[r] + n <= 5
  <2>1. n \in Nat /\ pos[r] + n <= 5
    BY <1>3 DEF Room
  <2> QED
    BY <1>2, <1>4, <2>1
<1>6. /\ Put(r, n) \in [1 .. 5 -> Units]
      /\ \A u \in 1 .. pos[r] + n : Put(r, n)[u] = Unit(5 * count[r] + u - 1)
  BY <1>1, <1>2, ReadBuffer
<1>7. /\ buffer \in [Readers -> [1 .. 5 -> Units]] /\ pos \in [Readers -> 0 .. 4]
      /\ count \in [Readers -> 0 .. Records]
      /\ state \in [Readers -> {"new", "connected", "done", "failed"}]
  <2>1. TypeOK
    BY DEF FeedInv
  <2>2. 1 .. BufUnits = 1 .. 5 /\ 0 .. BufUnits - 1 = 0 .. 4
    BY <1>3
  <2>3. buffer \in [Readers -> [1 .. BufUnits -> 0 .. Base - 1]] /\ pos \in [Readers -> 0 .. BufUnits - 1]
    BY <2>1 DEF TypeOK
  <2>4. buffer \in [Readers -> [1 .. 5 -> Units]] /\ pos \in [Readers -> 0 .. 4]
    BY <2>2, <2>3, Zenon DEF Units
  <2> QED
    BY <2>1, <2>4 DEF TypeOK
<1>8. buffer' \in [Readers -> [1 .. 5 -> Units]] /\ buffer'[r] = Put(r, n)
  BY <1>2, <1>6, <1>7
<1>9. \/ /\ pos[r] + n = 5
         /\ pos' = [pos EXCEPT ![r] = 0] /\ count' = [count EXCEPT ![r] = @ + 1]
         /\ state' = [state EXCEPT ![r] = IF count'[r] = Records THEN "done" ELSE @]
      \/ /\ pos[r] + n < 5
         /\ pos' = [pos EXCEPT ![r] = @ + n] /\ UNCHANGED <<count, state>>
  BY <1>2, <1>3, <1>5 DEF Complete, Parsed, WholeRecords
<1> HIDE DEF a, b
<1>10. /\ pos' \in [Readers -> 0 .. 4] /\ count' \in [Readers -> 0 .. Records]
       /\ state' \in [Readers -> {"new", "connected", "done", "failed"}]
       /\ \A q \in Readers : q # r =>
            pos'[q] = pos[q] /\ count'[q] = count[q] /\ state'[q] = state[q]
       /\ state'[r] # "new" /\ (state'[r] = "connected" => count'[r] < Records)
  <2>1. CASE pos[r] + n = 5
    <3>1. /\ pos' = [pos EXCEPT ![r] = 0] /\ count' = [count EXCEPT ![r] = @ + 1]
          /\ state' = [state EXCEPT ![r] = IF count'[r] = Records THEN "done" ELSE @]
          /\ count[r] + 1 \in 0 .. Records
      BY <1>3, <1>9, <2>1, Constants
    <3>2. count'[r] = count[r] + 1
      BY <1>7, <3>1
    <3> QED
      BY <1>1, <1>3, <1>7, <3>1, <3>2, Constants
  <2>2. CASE pos[r] + n < 5
    <3>1. pos' = [pos EXCEPT ![r] = @ + n] /\ UNCHANGED <<count, state>> /\ pos[r] + n \in 0 .. 4
      BY <1>3, <1>5, <1>9, <2>2
    <3> QED
      BY <1>1, <1>3, <1>7, <3>1
  <2> QED
    BY <1>9, <2>1, <2>2
<1>11. 5 * count'[r] + pos'[r] = k + n
  <2>1. CASE pos[r] + n = 5
    <3>1. pos'[r] = 0 /\ count'[r] = count[r] + 1
      BY <1>7, <1>9, <2>1
    <3> QED
      BY <1>3, <1>5, <2>1, <3>1
  <2>2. CASE pos[r] + n < 5
    <3>1. pos'[r] = pos[r] + n /\ count'[r] = count[r]
      BY <1>7, <1>9, <2>2
    <3> QED
      BY <1>3, <1>5, <3>1
  <2> QED
    BY <1>9, <2>1, <2>2
<1>12. From(stream', k + n) /\ Len(stream') = a - n
  BY <1>2, <1>3, <1>4, <1>5, RestFrom DEF a
<1>13. TypeOK'
  <2>1. Len(stream') <= Pipe
    <3>1. a <= Pipe /\ Pipe \in Nat
      BY Constants DEF FeedInv, TypeOK, a
    <3>2. a - n <= Pipe
      BY <1>4, <1>5, <3>1
    <3> QED
      BY <1>12, <3>2
  <2>2. 0 .. BufUnits - 1 = 0 .. 4 /\ 1 .. BufUnits = 1 .. 5 /\ TypeOK
    BY <1>3 DEF FeedInv
  <2> QED
    BY <1>1, <1>8, <1>10, <2>1, <2>2 DEF TypeOK, Units
<1>14. Begun' /\ Wanted'
  BY <1>1, <1>10, Constants DEF FeedInv, Begun, Wanted
<1>15. Consecutive(r)'
  <2>1. \A u \in 1 .. pos'[r] : buffer'[r][u] = Unit(5 * count'[r] + u - 1)
    BY <1>3, <1>5, <1>6, <1>7, <1>8, <1>9
  <2>2. pos'[r] \in Nat /\ count'[r] \in Nat
    BY <1>10
  <2>3. /\ pos'[r] + (a - n) + b = 5 * (made - count'[r])
        /\ k + a = k + n + (a - n)
    BY <1>3, <1>4, <1>5, <1>11, <2>2
  <2>4. pos'[r] + Len(stream') + Len(left) = 5 * (made - count'[r])
    BY <1>12, <2>3 DEF b
  <2>5. From(stream', 5 * count'[r] + pos'[r])
    BY <1>11, <1>12
  <2>6. From(left, 5 * count'[r] + pos'[r] + Len(stream'))
    BY <1>4, <1>11, <1>12, <2>3
  <2> QED
    BY <1>1, <2>1, <2>4, <2>5, <2>6 DEF Consecutive
<1>16. Places'
  BY <1>1, <1>15 DEF Places
<1>17. count'[r] # count[r] =>
         /\ count'[r] = count[r] + 1
         /\ \A u \in 1 .. 5 : buffer'[r][u] = Unit(5 * count[r] + u - 1)
  BY <1>3, <1>6, <1>7, <1>8, <1>9
<1> QED
  BY <1>8, <1>10, <1>13, <1>14, <1>16, <1>17 DEF FeedInv

LEMMA OthersOK ==
  ASSUME FeedInv, WholeRecords,
         Listen \/ SendFails \/ Kill \/ (\E r \in Readers : Connect(r) \/ ReadEnds(r))
  PROVE  FeedInv' /\ UNCHANGED <<buffer, count>>
<1>1. CASE Listen \/ SendFails \/ Kill
  <2>1. /\ UNCHANGED <<served, made, left, stream, state, buffer, pos, count>>
        /\ server' \in {"listening", "ended"} /\ (server' = "listening" => server = "down")
    BY <1>1 DEF Listen, SendFails, Kill, AfterDisconnect
  <2>2. TypeOK' /\ Begun' /\ Wanted' /\ Places'
    BY <2>1 DEF FeedInv, TypeOK, Begun, Wanted, Places, Consecutive
  <2> QED
    BY <2>1, <2>2 DEF FeedInv
<1>2. ASSUME NEW r \in Readers, Connect(r) \/ ReadEnds(r)
      PROVE  FeedInv' /\ UNCHANGED <<buffer, count>>
  <2>1. /\ UNCHANGED <<server, served, made, left, stream, buffer, pos, count>>
        /\ \/ state[r] = "new" /\ state' \in {[state EXCEPT ![r] = v] : v \in {"connected", "failed"}}
           \/ state' = [state EXCEPT ![r] = "failed"]
    BY <1>2 DEF Connect, ReadEnds, OnEnd, WholeRecords
  <2>2. TypeOK' /\ Begun' /\ Wanted'
    BY <2>1 DEF FeedInv, TypeOK, Begun, Wanted
  <2>3. \A q \in Readers : served = q /\ state'[q] = "connected" => state[q] = "connected"
    BY <2>1 DEF FeedInv, TypeOK, Begun
  <2>4. Places'
    BY <2>1, <2>3 DEF FeedInv, Places, Consecutive
  <2> QED
    BY <2>1, <2>2, <2>4 DEF FeedInv
<1> QED
  BY <1>1, <1>2

LEMMA StepOK == WholeRecords /\ FeedInv /\ [Next]_vars => FeedInv'
<1> SUFFICES ASSUME WholeRecords, FeedInv, [Next]_vars PROVE FeedInv'
  OBVIOUS
<1>1. CASE Next
  <2>1. CASE SendSome \/ \E r \in Readers : Accept(r)
    BY <2>1, SendSomeOK, AcceptOK
  <2>2. CASE \E r \in Readers : Read(r)
    BY <2>2, ReadOK
  <2>3. CASE Listen \/ SendFails \/ Kill \/ \E r \in Readers : Connect(r) \/ ReadEnds(r)
    BY <2>3, OthersOK
  <2> QED
    BY <1>1, <2>1, <2>2, <2>3 DEF Next, Serving, Step
<1>2. CASE UNCHANGED vars
  BY <1>2 DEF vars, FeedInv, TypeOK, Begun, Wanted, Places, Consecutive
<1> QED
  BY <1>1, <1>2

\* FeedInv holds in every reachable state of the program with the Java reader.
THEOREM Invariance == WholeRecords => (Spec => []FeedInv)
<1> SUFFICES ASSUME WholeRecords PROVE Spec => []FeedInv
  OBVIOUS
<1>1. Init => FeedInv
  BY InitOK
<1>2. FeedInv /\ [Next]_vars => FeedInv'
  BY StepOK
<1> QED
  BY <1>1, <1>2, PTL DEF Spec

-----------------------------------------------------------------------------
(* What follows from it.                                                   *)

\* Server and reader agree on their places in the stream: what the reader has
\* of a record, what is on its way and what sendall has left are exactly the
\* records from the one that readFully waits for to the last one packed.
THEOREM PlacesCorrect == WholeRecords => (Spec => []PlacesAgree)
<1> SUFFICES ASSUME WholeRecords PROVE Spec => []PlacesAgree
  OBVIOUS
<1>1. FeedInv => PlacesAgree
  <2> SUFFICES ASSUME FeedInv,
                      NEW r \in Readers, served = r, state[r] = "connected"
               PROVE  LET pending == SubSeq(buffer[r], 1, pos[r]) \o stream \o left
                      IN  /\ Len(pending) = 5 * (made - count[r])
                          /\ \A k \in 0 .. Len(pending) - 1 :
                               pending[k + 1] = Pack(count[r] + 1 + (k \div 5))[1 + (k % 5)]
    BY DEF PlacesAgree, FeedInv
  <2> DEFINE c == 5 * count[r]
             read == SubSeq(buffer[r], 1, pos[r])
             pending == read \o stream \o left
  <2>1. /\ pos[r] \in 0 .. 4 /\ count[r] \in Nat /\ c \in Nat /\ c + pos[r] \in Nat
        /\ buffer[r] \in [1 .. 5 -> Units] /\ Consecutive(r)
        /\ Len(stream) \in Nat /\ Len(left) \in Nat
    BY Reader
  <2>2. From(read, c) /\ Len(read) = pos[r]
    <3> DEFINE n == pos[r]
               s == buffer[r]
    <3>1. n \in Nat /\ \A i \in 1 .. n : s[i] \in Units
      <4>1. n \in 0 .. 4 /\ s \in [1 .. 5 -> Units]
        BY <2>1
      <4> HIDE DEF n, s
      <4> QED
        BY <4>1
    <3>2. /\ SubSeq(s, 1, n) \in Seq(Units)
          /\ Len(SubSeq(s, 1, n)) = IF 1 <= n THEN n - 1 + 1 ELSE 0
          /\ \A i \in 1 .. n - 1 + 1 : SubSeq(s, 1, n)[i] = s[1 + i - 1]
      BY <3>1, SubSeqProperties
    <3>3. read \in Seq(Units) /\ Len(read) = n /\ \A i \in 1 .. n : read[i] = s[i]
      BY <3>1, <3>2
    <3> QED
      BY <2>1, <3>3 DEF From, Consecutive
  <2>3. From(read \o stream, c) /\ Len(read \o stream) = pos[r] + Len(stream)
    BY <2>1, <2>2, JoinFrom DEF Consecutive
  <2>4. From(left, c + Len(read \o stream))
    <3> DEFINE a == Len(stream)
    <3>1. From(left, c + pos[r] + a) /\ a \in Nat /\ pos[r] \in Nat
      BY <2>1 DEF Consecutive
    <3> HIDE DEF a, c
    <3>2. c + pos[r] + a = c + (pos[r] + a)
      BY <2>1, <3>1
    <3> QED
      BY <2>3, <3>1, <3>2 DEF a
  <2>5. From(pending, c) /\ Len(pending) = Len(read \o stream) + Len(left)
    BY <2>1, <2>3, <2>4, JoinFrom
  <2> HIDE DEF pending
  <2>6. Len(pending) = 5 * (made - count[r])
    BY <2>1, <2>3, <2>5 DEF Consecutive
  <2>7. ASSUME NEW k \in 0 .. Len(pending) - 1
        PROVE  pending[k + 1] = Pack(count[r] + 1 + (k \div 5))[1 + (k % 5)]
    <3>1. Len(pending) \in Nat /\ pending \in Seq(Units)
      BY <2>5, LenProperties DEF From
    <3>2. k \in Nat /\ k + 1 \in 1 .. Len(pending)
      BY <3>1
    <3>3. pending[k + 1] = Unit(c + (k + 1) - 1)
      BY <2>5, <3>2 DEF From
    <3>4. (c + k) \div 5 = count[r] + (k \div 5) /\ (c + k) % 5 = k % 5
      BY <2>1, <3>2, Place
    <3>5. /\ c + (k + 1) - 1 = c + k
          /\ 1 + (count[r] + (k \div 5)) = count[r] + 1 + (k \div 5)
      BY <2>1, <3>2
    <3> QED
      BY <3>3, <3>4, <3>5 DEF Unit
  <2> QED
    BY <2>6, <2>7 DEF pending
<1> QED
  BY <1>1, Invariance, PTL

\* The k-th frame that the Java reader parses is the k-th record, whole, in
\* whatever pieces TCP delivers the stream and however the server ends.
THEOREM FramesCorrect == WholeRecords => (Spec => FramesWhole)
<1> SUFFICES ASSUME WholeRecords PROVE Spec => FramesWhole
  OBVIOUS
<1>1. FeedInv /\ [Next]_vars =>
        [\A r \in Readers : count'[r] # count[r] =>
           SubSeq(buffer'[r], 1, 5) = Pack(count'[r])]_vars
  <2> SUFFICES ASSUME FeedInv, [Next]_vars, NEW r \in Readers, count'[r] # count[r]
               PROVE  SubSeq(buffer'[r], 1, 5) = Pack(count'[r])
    OBVIOUS
  <2>1. Read(r)
    <3>1. \A q \in Readers : Read(q) => q = r
      BY ReadOK
    <3>2. count' # count
      OBVIOUS
    <3>3. ~ (Listen \/ SendFails \/ Kill \/ \E q \in Readers : Connect(q) \/ ReadEnds(q))
      BY <3>2, OthersOK
    <3>4. ~ SendSome /\ \A q \in Readers : ~ Accept(q)
      BY <3>2 DEF SendSome, Accept
    <3> QED
      BY <3>1, <3>2, <3>3, <3>4 DEF Next, Serving, Step, vars
  <2>2. /\ count'[r] = count[r] + 1 /\ count[r] \in Nat
        /\ \A u \in 1 .. 5 : buffer'[r][u] = Unit(5 * count[r] + u - 1)
        /\ buffer'[r] \in [1 .. 5 -> Units]
    BY <2>1, ReadOK, Reader
  <2>3. \A u \in 1 .. 5 : buffer'[r][u] = Pack(count'[r])[u]
    BY <2>2, RecordUnits
  <2> DEFINE frame == SubSeq(buffer'[r], 1, 5)
  <2>4. /\ frame \in Seq(Units) /\ Len(frame) = 5
        /\ \A u \in 1 .. 5 : frame[u] = buffer'[r][u]
    <3> DEFINE s == buffer'[r]
               n == 5
    <3>1. n \in Int /\ 1 \in Int /\ \A u \in 1 .. n : s[u] \in Units
      BY <2>2
    <3> HIDE DEF n
    <3>2. /\ SubSeq(s, 1, n) \in Seq(Units)
          /\ Len(SubSeq(s, 1, n)) = IF 1 <= n THEN n - 1 + 1 ELSE 0
          /\ \A u \in 1 .. n - 1 + 1 : SubSeq(s, 1, n)[u] = s[1 + u - 1]
      BY <3>1, SubSeqProperties
    <3> QED
      BY <3>2 DEF n
  <2>5. Pack(count'[r]) \in Seq(Units) /\ Len(Pack(count'[r])) = 5
    BY <2>2, PackUnits
  <2> HIDE DEF frame
  <2>6. frame = Pack(count'[r])
    BY <2>3, <2>4, <2>5, SeqEqual
  <2> QED
    BY <2>6 DEF frame
<1> QED
  BY <1>1, Invariance, PTL DEF Spec, FramesWhole

-----------------------------------------------------------------------------
(* Progress: what EverybodyEnds rests on besides fairness.                 *)

\* The units that sendall has handed over, and those that a reader has read.
Sent     == 5 * made - Len(left)
Taken(r) == 5 * count[r] + pos[r]

\* How far the server and a reader are in their lives.
ServerStage ==
  CASE server = "down" -> 0 [] server = "listening" -> 1 [] server = "serving" -> 2 [] OTHER -> 3
ReaderStage(r) == CASE state[r] = "new" -> 0 [] state[r] = "connected" -> 1 [] OTHER -> 2

\* Every step brings somebody on, and nobody ever goes back.
StepsForward ==
  /\ ServerStage' >= ServerStage /\ Sent' >= Sent
  /\ \A r \in Readers : ReaderStage(r)' >= ReaderStage(r) /\ Taken(r)' >= Taken(r)
  /\ \/ ServerStage' > ServerStage \/ Sent' > Sent
     \/ \E r \in Readers : ReaderStage(r)' > ReaderStage(r) \/ Taken(r)' > Taken(r)

\* Besides FeedInv: sendall always has something to send, nobody is connected
\* to a server that was not started, and the server is ahead of its client by
\* no more than the connection holds.
Going ==
  /\ server = "serving" => Len(left) > 0
  /\ \A r \in Readers : state[r] = "connected" => server # "down"
Ahead ==
  /\ served = Nobody => Sent = 0
  /\ \A r \in Readers : served = r => Sent <= Taken(r) + Pipe

LEMMA Numbers ==
  ASSUME FeedInv, WholeRecords
  PROVE  /\ made \in Nat /\ Sent \in Int
         /\ \A r \in Readers : /\ pos[r] \in 0 .. 4 /\ count[r] \in 0 .. Records
                               /\ Taken(r) \in 0 .. 5 * Records + 4
<1>1. made \in Nat /\ \A r \in Readers : pos[r] \in 0 .. 4 /\ count[r] \in 0 .. Records
  BY Reader DEF FeedInv, TypeOK
<1>2. \A r \in Readers : Taken(r) \in 0 .. 5 * Records + 4
  BY <1>1, Constants DEF Taken
<1> QED
  BY <1>1, <1>2 DEF Sent

LEMMA SendMoves ==
  ASSUME FeedInv, WholeRecords, Ahead, SendSome
  PROVE  /\ Sent' > Sent /\ Len(left') > 0 /\ Ahead'
         /\ UNCHANGED <<server, served, state, count, pos>>
<1>1. /\ served \in Readers /\ state[served] = "connected" /\ served # Nobody
      /\ UNCHANGED <<server, served, state, buffer, pos, count>>
  BY Constants DEF SendSome, FeedInv, Begun
<1> DEFINE a == Len(stream)
           b == Len(left)
           c == count[served]
           p == pos[served]
<1>2. PICK n \in 1 .. b :
        \/ n < b /\ left' = SubSeq(left, n + 1, b) /\ made' = made
        \/ n = b /\ left' = Pack(made + 1) /\ made' = made + 1
  BY DEF SendSome
<1>3. /\ b \in Nat /\ made \in Nat /\ c \in Nat /\ p \in Nat /\ n \in 0 .. b /\ n >= 1
      /\ From(left, 5 * c + p + a) /\ 5 * c + p + a \in Nat
  <2>1. /\ b \in Nat /\ a \in Nat /\ made \in Nat /\ c \in Nat /\ p \in Nat /\ 5 * c + p \in Nat
        /\ Consecutive(served)
    BY <1>1, Reader
  <2>2. From(left, 5 * c + p + a)
    BY <2>1 DEF Consecutive
  <2> HIDE DEF a, b, c, p
  <2>3. n \in 0 .. b /\ n >= 1 /\ 5 * c + p + a \in Nat
    BY <2>1
  <2> QED
    BY <2>1, <2>2, <2>3
<1>4. Sent' > Sent /\ Len(left') > 0
  <2>1. CASE n < b /\ left' = SubSeq(left, n + 1, b) /\ made' = made
    <3>1. Len(left') = b - n
      BY <1>3, <2>1, RestFrom
    <3> HIDE DEF b, a
    <3>2. 5 * made' - (b - n) > 5 * made - b /\ b - n > 0
      BY <1>3, <2>1
    <3> QED
      BY <3>1, <3>2 DEF Sent, b
  <2>2. CASE n = b /\ left' = Pack(made + 1) /\ made' = made + 1
    <3>1. Len(left') = 5
      BY <1>3, <2>2, PackUnits
    <3> HIDE DEF b, a
    <3>2. 5 * (made + 1) - 5 > 5 * made - b
      BY <1>3, <2>2
    <3>3. Sent' = 5 * (made + 1) - 5 /\ Sent = 5 * made - b
      BY <2>2, <3>1, Zenon DEF Sent, b
    <3>4. Sent' > Sent
      BY <3>2, <3>3, Zenon
    <3> QED
      BY <3>1, <3>4
  <2> QED
    BY <1>2, <2>1, <2>2
<1>5. Ahead'
  <2>1. FeedInv'
    BY SendSomeOK
  <2>2. /\ p + Len(stream') + Len(left') = 5 * (made' - c)
        /\ Len(stream') \in Nat /\ Len(left') \in Nat /\ Len(stream') <= Pipe /\ made' \in Nat
    <3>1. Consecutive(served)'
      BY <1>1, <2>1 DEF FeedInv, Places
    <3>2. stream' \in Seq(Units) /\ left' \in Seq(Units)
      BY <3>1 DEF Consecutive, From
    <3>3. Len(stream') \in Nat /\ Len(left') \in Nat
      BY <3>2, LenProperties
    <3>4. Len(stream') <= Pipe /\ made' \in Nat
      BY <2>1 DEF FeedInv, TypeOK
    <3>5. p + Len(stream') + Len(left') = 5 * (made' - c)
      BY <1>1, <3>1 DEF Consecutive
    <3> QED
      BY <3>3, <3>4, <3>5
  <2>3. Sent' <= Taken(served)' + Pipe
    <3>1. \A x, y, l, m, k \in Nat :
            y <= Pipe /\ x + y + l = 5 * (m - k) => 5 * m - l <= 5 * k + x + Pipe
      BY Constants
    <3>2. 5 * made' - Len(left') <= 5 * c + p + Pipe
      BY <1>3, <2>2, <3>1
    <3> QED
      BY <1>1, <3>2 DEF Sent, Taken
  <2> QED
    BY <1>1, <2>3 DEF Ahead
<1> QED
  BY <1>1, <1>4, <1>5

LEMMA ReadMoves ==
  ASSUME FeedInv, WholeRecords, Ahead, NEW r \in Readers, Read(r)
  PROVE  /\ Taken(r)' > Taken(r) /\ \A q \in Readers : q # r => Taken(q)' = Taken(q)
         /\ Ahead' /\ Sent' = Sent
         /\ state[r] = "connected" /\ state'[r] \in {"connected", "done"}
         /\ \A q \in Readers : q # r => state'[q] = state[q]
         /\ UNCHANGED <<server, served, made, left>>
<1>1. /\ state[r] = "connected" /\ served = r
      /\ UNCHANGED <<server, served, made, left>>
  BY DEF Read
<1>2. PICK n \in 1 .. Room(r) :
        \/ Complete(pos[r] + n) /\ Parsed(r)
        \/ /\ ~Complete(pos[r] + n)
           /\ pos' = [pos EXCEPT ![r] = @ + n]
           /\ UNCHANGED <<count, state>>
  BY DEF Read
<1>3. /\ pos[r] \in 0 .. 4 /\ count[r] \in Nat /\ BufUnits = 5 /\ n \in Nat /\ n >= 1
      /\ Complete(pos[r] + n) <=> pos[r] + n = 5
  BY Reader DEF Room, Complete, WholeRecords
<1>4. DOMAIN pos = Readers /\ DOMAIN count = Readers /\ DOMAIN state = Readers
  BY DEF FeedInv, TypeOK
<1>5. /\ Taken(r)' > Taken(r) /\ \A q \in Readers : q # r => Taken(q)' = Taken(q)
      /\ state'[r] \in {"connected", "done"} /\ \A q \in Readers : q # r => state'[q] = state[q]
  <2>1. CASE Complete(pos[r] + n) /\ Parsed(r)
    <3>1. /\ pos'[r] = 0 /\ count'[r] = count[r] + 1
          /\ \A q \in Readers : q # r => pos'[q] = pos[q] /\ count'[q] = count[q]
          /\ state'[r] \in {"connected", "done"} /\ \A q \in Readers : q # r => state'[q] = state[q]
      BY <1>1, <1>4, <2>1 DEF Parsed
    <3> QED
      BY <1>3, <3>1 DEF Taken
  <2>2. CASE pos' = [pos EXCEPT ![r] = @ + n] /\ UNCHANGED <<count, state>>
    BY <1>1, <1>3, <1>4, <2>2 DEF Taken
  <2> QED
    BY <1>2, <2>1, <2>2
<1>6. Sent' = Sent
  BY <1>1 DEF Sent
<1>7. FeedInv' /\ Taken(r) \in Int /\ Taken(r)' \in Int /\ Sent \in Int /\ Pipe \in Int
  <2>1. FeedInv'
    BY ReadOK
  <2>2. pos'[r] \in Int /\ count'[r] \in Int
    BY <1>3, <2>1, Constants DEF FeedInv, TypeOK
  <2>3. Taken(r)' \in Int
    BY <2>2 DEF Taken
  <2> QED
    BY <2>1, <2>3, Numbers, Constants
<1>8. Ahead'
  BY <1>1, <1>5, <1>6, <1>7, Constants DEF Ahead
<1> QED
  BY <1>1, <1>5, <1>6, <1>8

\* The steps of one life: of the server, and of a reader.
LEMMA StageMoves ==
  ASSUME FeedInv, WholeRecords, Going, Ahead,
         Listen \/ SendFails \/ Kill \/ (\E r \in Readers : Connect(r) \/ ReadEnds(r) \/ Accept(r))
  PROVE  StepsForward /\ Going' /\ Ahead'
<1> USE Numbers
<1>1. /\ \A r \in Readers : Taken(r) \in Int
      /\ \A r \in Readers : ReaderStage(r) \in 0 .. 2 /\ ReaderStage(r)' \in 0 .. 2
      /\ ServerStage \in 0 .. 3 /\ ServerStage' \in 0 .. 3 /\ Sent \in Int /\ Pipe \in Nat
      /\ DOMAIN state = Readers
  BY Constants DEF ReaderStage, ServerStage, FeedInv, TypeOK
<1>2. CASE Listen \/ SendFails \/ Kill
  <2>1. UNCHANGED <<served, made, left, stream, state, buffer, pos, count>>
    BY <1>2 DEF Listen, SendFails, Kill
  <2>2. /\ Sent' = Sent
        /\ \A r \in Readers : Taken(r)' = Taken(r) /\ ReaderStage(r)' = ReaderStage(r)
    BY <2>1 DEF Sent, Taken, ReaderStage
  <2>3. ServerStage' > ServerStage
    BY <1>2 DEF Listen, SendFails, Kill, AfterDisconnect, ServerStage
  <2>4. StepsForward
    BY <1>1, <2>2, <2>3 DEF StepsForward
  <2>5. server' \in {"listening", "ended"}
    BY <1>2 DEF Listen, SendFails, Kill, AfterDisconnect
  <2>6. Going'
    BY <2>1, <2>5 DEF Going
  <2>7. Ahead'
    BY <2>1, <2>2 DEF Ahead
  <2> QED
    BY <2>4, <2>6, <2>7
<1>3. ASSUME NEW r \in Readers, Connect(r) \/ ReadEnds(r)
      PROVE  StepsForward /\ Going' /\ Ahead'
  <2>1. /\ UNCHANGED <<server, served, made, left, stream, buffer, pos, count>>
        /\ \/ /\ state[r] = "new"
              /\ \/ server \in {"listening", "serving"} /\ state'[r] = "connected"
                 \/ state'[r] = "failed"
           \/ state[r] = "connected" /\ state'[r] = "failed"
        /\ \A q \in Readers : q # r => state'[q] = state[q]
    BY <1>1, <1>3 DEF Connect, ReadEnds, OnEnd, WholeRecords
  <2>2. /\ Sent' = Sent /\ ServerStage' = ServerStage
        /\ \A q \in Readers : Taken(q)' = Taken(q)
        /\ \A q \in Readers : q # r => ReaderStage(q)' = ReaderStage(q)
    BY <2>1 DEF Sent, Taken, ReaderStage, ServerStage
  <2>3. ReaderStage(r)' > ReaderStage(r)
    BY <2>1 DEF ReaderStage
  <2>4. \A q \in Readers : ReaderStage(q)' >= ReaderStage(q)
    BY <1>1, <2>2, <2>3
  <2>5. StepsForward
    BY <1>1, <2>2, <2>3, <2>4 DEF StepsForward
  <2>6. Going'
    BY <2>1 DEF Going
  <2>7. Ahead'
    BY <2>1, <2>2 DEF Ahead
  <2> QED
    BY <2>5, <2>6, <2>7
<1>4. ASSUME NEW r \in Readers, Accept(r)
      PROVE  StepsForward /\ Going' /\ Ahead'
  <2>1. /\ server = "listening" /\ server' = "serving" /\ served = Nobody /\ served' = r
        /\ made' = 1 /\ left' = Pack(1) /\ UNCHANGED <<stream, state, buffer, pos, count>>
        /\ r # Nobody
    BY <1>4, Constants DEF Accept, FeedInv, Begun
  <2>2. Len(left') = 5
    <3>1. Len(Pack(1)) = 5
      BY PackUnits
    <3> QED
      BY <2>1, <3>1, Zenon
  <2>3. Sent' = 0 /\ Sent = 0
    BY <2>1, <2>2 DEF Sent, Ahead
  <2>4. /\ \A q \in Readers : Taken(q)' = Taken(q) /\ ReaderStage(q)' = ReaderStage(q)
        /\ ServerStage' > ServerStage
    BY <2>1 DEF Taken, ReaderStage, ServerStage
  <2>5. StepsForward
    BY <1>1, <2>3, <2>4 DEF StepsForward
  <2>6. Going'
    <3>1. Len(left') > 0
      BY <2>2
    <3>2. server' # "down"
      BY <2>1
    <3> QED
      BY <3>1, <3>2, Zenon DEF Going
  <2>7. Ahead'
    <3>1. Sent' <= Taken(r)' + Pipe
      <4>1. Taken(r) \in Nat
        OBVIOUS
      <4> QED
        BY <1>1, <2>3, <2>4, <4>1
    <3> QED
      BY <2>1, <3>1 DEF Ahead
  <2> QED
    BY <2>5, <2>6, <2>7
<1> QED
  BY <1>2, <1>3, <1>4

LEMMA NextMoves ==
  ASSUME FeedInv, WholeRecords, Going, Ahead, Next
  PROVE  StepsForward /\ Going' /\ Ahead'
<1> USE Numbers
<1>1. /\ \A r \in Readers : Taken(r) \in Int /\ ReaderStage(r) \in 0 .. 2
      /\ ServerStage \in 0 .. 3 /\ Sent \in Int
  BY DEF ReaderStage, ServerStage
<1>2. CASE SendSome
  <2>1. Sent' > Sent /\ Len(left') > 0 /\ Ahead' /\ UNCHANGED <<server, state, count, pos>>
    BY <1>2, SendMoves
  <2>2. /\ ServerStage' = ServerStage
        /\ \A r \in Readers : Taken(r)' = Taken(r) /\ ReaderStage(r)' = ReaderStage(r)
    BY <2>1 DEF Taken, ReaderStage, ServerStage
  <2>3. Sent' \in Int
    <3>1. FeedInv'
      BY <1>2, SendSomeOK
    <3>2. made' \in Nat /\ Len(left') \in Int
      <4>1. made' \in Nat /\ served' \in Readers /\ state'[served'] = "connected"
        BY <1>2, <3>1 DEF SendSome, FeedInv, TypeOK, Begun
      <4>2. left' \in Seq(Units)
        BY <3>1, <4>1 DEF FeedInv, Places, Consecutive, From
      <4> QED
        BY <4>1, <4>2, LenProperties
    <3> QED
      BY <3>2 DEF Sent
  <2>4. StepsForward
    BY <1>1, <2>1, <2>2, <2>3 DEF StepsForward
  <2>5. Going'
    BY <2>1 DEF Going
  <2> QED
    BY <2>1, <2>4, <2>5
<1>3. ASSUME NEW r \in Readers, Read(r)
      PROVE  StepsForward /\ Going' /\ Ahead'
  <2>1. /\ Taken(r)' > Taken(r) /\ \A q \in Readers : q # r => Taken(q)' = Taken(q)
        /\ Ahead' /\ Sent' = Sent
        /\ state[r] = "connected" /\ state'[r] \in {"connected", "done"}
        /\ \A q \in Readers : q # r => state'[q] = state[q]
        /\ UNCHANGED <<server, served, made, left>>
    BY <1>3, ReadMoves
  <2>2. ServerStage' = ServerStage /\ \A q \in Readers : ReaderStage(q)' >= ReaderStage(q)
    BY <1>1, <2>1 DEF ReaderStage, ServerStage
  <2>3. Taken(r)' \in Int
    <3>1. FeedInv'
      BY <1>3, ReadOK
    <3>2. pos'[r] \in Int /\ count'[r] \in Int
      BY <3>1, Constants DEF FeedInv, TypeOK, WholeRecords
    <3> QED
      BY <3>2 DEF Taken
  <2>4. StepsForward
    <3>1. \A q \in Readers : Taken(q)' >= Taken(q)
      BY <1>1, <2>1, <2>3
    <3> QED
      BY <1>1, <2>1, <2>2, <3>1 DEF StepsForward
  <2>5. Going'
    BY <2>1 DEF Going
  <2> QED
    BY <2>1, <2>4, <2>5
<1>4. CASE Listen \/ SendFails \/ Kill
           \/ \E r \in Readers : Connect(r) \/ ReadEnds(r) \/ Accept(r)
  BY <1>4, StageMoves
<1> QED
  BY <1>2, <1>3, <1>4 DEF Next, Serving, Step

\* Neither the server nor its client ever has more to do than this.
MovesBounded ==
  /\ Sent <= 5 * Records + 4 + Pipe
  /\ \A r \in Readers : Taken(r) <= 5 * Records + 4

\* As long as a reader is connected, somebody can go on: the server can accept,
\* send, or see that its client is gone, the client can read, or the server has
\* ended, and every reader finds out.
NobodyStuck ==
  \A r \in Readers : state[r] = "connected" =>
    \/ server \in {"listening", "ended"}
    \/ /\ server = "serving" /\ served \in Readers
       /\ \/ state[served] # "connected" \/ stream # <<>>
          \/ left # <<>> /\ Len(stream) < Pipe

LEMMA Unstuck ==
  ASSUME FeedInv, WholeRecords, Going, Ahead
  PROVE  NobodyStuck /\ MovesBounded
<1>1. Len(<<>>) = 0 /\ Pipe \in Nat \ {0}
  BY EmptySeq, FeedAssumption
<1>2. NobodyStuck
  <2>1. server \in {"down", "listening", "serving", "ended"}
        /\ (server = "serving" => served \in Readers)
    BY DEF FeedInv, TypeOK, Begun
  <2>2. server = "serving" => left # <<>>
    BY <1>1 DEF Going
  <2>3. stream = <<>> => Len(stream) < Pipe
    BY <1>1
  <2> QED
    BY <2>1, <2>2, <2>3 DEF NobodyStuck, Going
<1>3. Sent <= 5 * Records + 4 + Pipe
  <2>1. /\ Sent \in Int /\ \A r \in Readers : Taken(r) \in 0 .. 5 * Records + 4
        /\ Records \in Nat /\ Pipe \in Nat
    BY Numbers, Constants
  <2>2. served \in Readers \cup {Nobody}
    BY DEF FeedInv, TypeOK
  <2> QED
    BY <2>1, <2>2 DEF Ahead
<1> QED
  BY <1>2, <1>3, Numbers, Constants DEF MovesBounded

\* The program comes to an end: every step is one of a bounded number, and no
\* reader is left connected with nobody able to take one.  Fairness is all that
\* "everybody ends" needs besides.
THEOREM EveryStepCounts ==
  WholeRecords => (Spec => [](NobodyStuck /\ MovesBounded) /\ [][StepsForward]_vars)
<1> SUFFICES ASSUME WholeRecords
             PROVE  Spec => [](NobodyStuck /\ MovesBounded) /\ [][StepsForward]_vars
  OBVIOUS
<1>1. Init => Going /\ Ahead
  <2> SUFFICES ASSUME Init PROVE Going /\ Ahead
    OBVIOUS
  <2>1. Len(left) = 0 /\ made = 0 /\ served = Nobody
    BY EmptySeq DEF Init
  <2> QED
    <3>1. Going
      BY DEF Init, Going
    <3>2. Sent = 0 /\ \A r \in Readers : served # r
      BY <2>1, Constants DEF Sent
    <3> QED
      BY <3>1, <3>2 DEF Ahead
<1>2. FeedInv /\ Going /\ Ahead /\ [Next]_vars => Going' /\ Ahead' /\ [StepsForward]_vars
  <2>1. ASSUME Going, Ahead, UNCHANGED vars PROVE Going' /\ Ahead'
    BY <2>1 DEF vars, Going, Ahead, Sent, Taken
  <2> QED
    BY <2>1, NextMoves
<1>3. FeedInv /\ Going /\ Ahead => NobodyStuck /\ MovesBounded
  BY Unstuck
<1> QED
  BY <1>1, <1>2, <1>3, Invariance, PTL DEF Spec
=============================================================================
