-------------------------- MODULE LockFreeListProofs --------------------------
(***************************************************************************)
(* Proofs about LockFreeList, for every finite set of threads and number   *)
(* of inserts.                                                             *)
(***************************************************************************)
EXTENDS LockFreeList, SequenceTheorems, FunctionTheorems, FiniteSetTheorems, NaturalFacts

-----------------------------------------------------------------------------
(* Linked lists.                                                           *)

LEMMA NodesFinite ==
  IsFiniteSet(Nodes) /\ Cardinality(Nodes) \in Nat /\ Inserts \in Nat /\ Null \notin Nodes
<1>1. IsFiniteSet(1 .. Inserts)
  BY ListAssumption, FS_Interval
<1>2. IsFiniteSet(Nodes)
  BY <1>1, ListAssumption, FS_Product DEF Nodes
<1> QED
  BY <1>2, ListAssumption, FS_CardinalityType

\* s lists the nodes from p on, linked by nx, and has an end.
Chain(nx, s, p) ==
  /\ s \in Seq(Nodes)
  /\ p = IF Len(s) = 0 THEN Null ELSE s[1]
  /\ \A i \in 1 .. Len(s) :
       s[i] \in DOMAIN nx /\ nx[s[i]] = IF i = Len(s) THEN Null ELSE s[i + 1]
  /\ \A i, j \in 1 .. Len(s) : s[i] = s[j] => i = j

Elements(s) == {s[i] : i \in 1 .. Len(s)}

\* From, for any links.
FromIn(nx, p) ==
  LET Walk[k \in 0 .. Cardinality(Nodes)] ==
        IF k = 0 THEN p
        ELSE IF Walk[k - 1] = Null THEN Null ELSE nx[Walk[k - 1]]
  IN  [k \in 1 .. Cardinality({j \in DOMAIN Walk : Walk[j] # Null}) |-> Walk[k - 1]]

LEMMA FromIsFromIn == \A p : From(p) = FromIn(next, p)
BY DEF From, FromIn

\* A chain visits no node twice, so it is not longer than there are nodes.
LEMMA ChainLength ==
  ASSUME NEW nx, NEW s, NEW p, Chain(nx, s, p)
  PROVE  Len(s) \in 0 .. Cardinality(Nodes)
<1>1. Len(s) \in Nat /\ s \in [1 .. Len(s) -> Nodes]
  BY LenProperties DEF Chain
<1>2. s \in Injection(1 .. Len(s), Nodes)
  BY <1>1, Fun_IsInj DEF Chain
<1>3. Cardinality(1 .. Len(s)) <= Cardinality(Nodes)
  BY <1>2, NodesFinite, FS_Injection
<1>4. Cardinality(1 .. Len(s)) = Len(s)
  BY <1>1, FS_Interval
<1> QED
  BY <1>1, <1>3, <1>4, NodesFinite

\* What the recursive function in From computes, where there is a chain: the
\* function below solves its equation, and no other does.
LEMMA FromChain ==
  ASSUME NEW nx, NEW s, NEW p, Chain(nx, s, p)
  PROVE  FromIn(nx, p) = s
<1> DEFINE N == Cardinality(Nodes)
           Step(f, k) == IF k = 0 THEN p ELSE IF f[k - 1] = Null THEN Null ELSE nx[f[k - 1]]
           Walk == CHOOSE f : f = [k \in 0 .. N |-> Step(f, k)]
           Found == [k \in 0 .. N |-> IF k < Len(s) THEN s[k + 1] ELSE Null]
<1>1. /\ N \in Nat /\ Len(s) \in 0 .. N /\ Len(s) \in Nat
      /\ s \in [1 .. Len(s) -> Nodes] /\ Null \notin Nodes
  BY ChainLength, NodesFinite, LenProperties DEF Chain
<1>2. FromIn(nx, p) = [k \in 1 .. Cardinality({j \in DOMAIN Walk : Walk[j] # Null}) |-> Walk[k - 1]]
  BY DEF FromIn
<1> HIDE DEF N
<1>3. /\ DOMAIN Found = 0 .. N
      /\ \A k \in 0 .. N : Found[k] = IF k < Len(s) THEN s[k + 1] ELSE Null
  OBVIOUS
<1>4. \A k \in 0 .. N : Found[k] = Step(Found, k)
  <2> SUFFICES ASSUME NEW k \in 0 .. N PROVE Found[k] = Step(Found, k)
    OBVIOUS
  <2> HIDE DEF Found
  <2>1. CASE k = 0
    <3>1. p = IF Len(s) = 0 THEN Null ELSE s[1]
      BY DEF Chain
    <3> QED
      BY <1>1, <1>3, <2>1, <3>1
  <2>2. CASE k # 0
    <3>1. k \in Nat /\ k - 1 \in 0 .. N /\ (k - 1) + 1 = k
      BY <1>1, <2>2
    <3>2. CASE k - 1 < Len(s)
      <4>1. k \in 1 .. Len(s) /\ Found[k - 1] = s[k] /\ s[k] # Null
        BY <1>1, <1>3, <2>2, <3>1, <3>2
      <4>2. nx[s[k]] = IF k = Len(s) THEN Null ELSE s[k + 1]
        BY <4>1 DEF Chain
      <4> QED
        BY <1>1, <1>3, <2>2, <4>1, <4>2
    <3>3. CASE ~ (k - 1 < Len(s))
      BY <1>1, <1>3, <2>2, <3>1, <3>3
    <3> QED
      BY <3>2, <3>3
  <2> QED
    BY <2>1, <2>2
<1>5. Found = [k \in 0 .. N |-> Step(Found, k)]
  BY <1>4
<1> HIDE DEF Found
<1>6. Walk = [k \in 0 .. N |-> Step(Walk, k)]
  BY <1>5
<1> HIDE DEF Walk
<1>7. DOMAIN Walk = 0 .. N /\ \A k \in 0 .. N : Walk[k] = Step(Walk, k)
  BY <1>6
<1>8. \A k \in 0 .. N : Walk[k] = Found[k]
  <2> DEFINE S == {k \in Nat : k \in 0 .. N => Walk[k] = Found[k]}
  <2>1. 0 \in S
    <3>1. 0 \in 0 .. N
      BY <1>1
    <3>2. Walk[0] = Step(Walk, 0) /\ Found[0] = Step(Found, 0)
      BY <1>4, <1>7, <3>1
    <3> QED
      BY <3>2
  <2>2. ASSUME NEW k \in Nat, k \in S
        PROVE  k + 1 \in S
    <3> SUFFICES ASSUME k + 1 \in 0 .. N PROVE Walk[k + 1] = Found[k + 1]
      OBVIOUS
    <3>1. k \in 0 .. N /\ (k + 1) - 1 = k /\ k + 1 # 0
      BY <1>1
    <3>2. Walk[k] = Found[k]
      BY <2>2, <3>1
    <3>3. Walk[k + 1] = Step(Walk, k + 1) /\ Found[k + 1] = Step(Found, k + 1)
      BY <1>4, <1>7
    <3> QED
      BY <3>1, <3>2, <3>3
  <2> HIDE DEF S
  <2>3. Nat \subseteq S
    BY <2>1, <2>2, SetInduction
  <2> SUFFICES ASSUME NEW k \in 0 .. N PROVE Walk[k] = Found[k]
    OBVIOUS
  <2>4. k \in Nat
    BY <1>1
  <2> QED
    BY <2>3, <2>4 DEF S
<1> HIDE DEF Step
<1>9. {j \in DOMAIN Walk : Walk[j] # Null} = 0 .. Len(s) - 1
  <2>1. \A j \in 0 .. N : Walk[j] # Null <=> j < Len(s)
    BY <1>1, <1>3, <1>8
  <2> QED
    BY <1>1, <1>7, <2>1
<1>10. Cardinality(0 .. Len(s) - 1) = Len(s)
  <2>1. Len(s) - 1 \in Int /\ 0 \in Int
    BY <1>1
  <2>2. Cardinality(0 .. Len(s) - 1) = IF 0 > Len(s) - 1 THEN 0 ELSE (Len(s) - 1) - 0 + 1
    BY <2>1, FS_Interval, Zenon
  <2> QED
    BY <1>1, <2>2
<1>11. FromIn(nx, p) = [k \in 1 .. Len(s) |-> Walk[k - 1]]
  BY <1>2, <1>9, <1>10
<1>12. \A k \in 1 .. Len(s) : Walk[k - 1] = s[k]
  BY <1>1, <1>3, <1>8
<1> QED
  BY <1>1, <1>11, <1>12

\* A chain stays as it is as long as its nodes do.
LEMMA ChainKept ==
  ASSUME NEW nx, NEW ny, NEW s, NEW p, Chain(nx, s, p),
         \A n \in Elements(s) : n \in DOMAIN ny /\ ny[n] = nx[n]
  PROVE  Chain(ny, s, p) /\ FromIn(ny, p) = s
<1>1. Chain(ny, s, p)
  BY DEF Chain, Elements
<1> QED
  BY <1>1, FromChain

LEMMA ChainPrepend ==
  ASSUME NEW nx, NEW s, NEW p, Chain(nx, s, p),
         NEW n \in Nodes, n \in DOMAIN nx, nx[n] = p, n \notin Elements(s)
  PROVE  /\ Chain(nx, <<n>> \o s, n)
         /\ Elements(<<n>> \o s) = Elements(s) \cup {n}
<1> DEFINE t == <<n>> \o s
<1>1. s \in Seq(Nodes) /\ <<n>> \in Seq(Nodes) /\ Len(<<n>>) = 1 /\ <<n>>[1] = n
  BY DEF Chain
<1>2. Len(s) \in Nat
  BY <1>1, LenProperties
<1>3. /\ t \in Seq(Nodes) /\ Len(t) = 1 + Len(s)
      /\ \A i \in 1 .. 1 + Len(s) : t[i] = IF i <= 1 THEN <<n>>[i] ELSE s[i - 1]
  BY <1>1, ConcatProperties
<1> HIDE DEF t
<1>4. t[1] = n /\ \A i \in 1 .. Len(s) : t[i + 1] = s[i]
  BY <1>1, <1>2, <1>3
<1>5. \A i \in 1 .. Len(t) : i = 1 \/ (i - 1 \in 1 .. Len(s) /\ t[i] = s[i - 1])
  BY <1>2, <1>3
<1>6. Elements(t) = Elements(s) \cup {n}
  <2>1. 1 \in 1 .. Len(t) /\ \A i \in 1 .. Len(s) : i + 1 \in 1 .. Len(t)
    BY <1>2, <1>3
  <2>2. \A i \in 1 .. Len(t) : t[i] \in Elements(s) \cup {n}
    BY <1>4, <1>5 DEF Elements
  <2>3. \A i \in 1 .. Len(s) : s[i] \in Elements(t)
    BY <1>4, <2>1 DEF Elements
  <2>4. n \in Elements(t)
    BY <1>4, <2>1 DEF Elements
  <2> QED
    BY <2>2, <2>3, <2>4 DEF Elements
<1>7. ASSUME NEW i \in 1 .. Len(t)
      PROVE  t[i] \in DOMAIN nx /\ nx[t[i]] = IF i = Len(t) THEN Null ELSE t[i + 1]
  <2>1. CASE i = 1
    BY <1>2, <1>3, <1>4, <2>1 DEF Chain
  <2>2. CASE i # 1
    <3>1. i - 1 \in 1 .. Len(s) /\ t[i] = s[i - 1] /\ (i - 1) + 1 = i
      BY <1>2, <1>3, <1>5, <2>2
    <3>2. /\ s[i - 1] \in DOMAIN nx
          /\ nx[s[i - 1]] = IF i - 1 = Len(s) THEN Null ELSE s[i]
      BY <3>1 DEF Chain
    <3>3. i # Len(t) => i \in 1 .. Len(s) /\ t[i + 1] = s[i]
      BY <1>2, <1>3, <1>4, <3>1
    <3> QED
      BY <1>2, <1>3, <3>1, <3>2, <3>3
  <2> QED
    BY <2>1, <2>2
<1>8. ASSUME NEW i \in 1 .. Len(t), NEW j \in 1 .. Len(t), t[i] = t[j]
      PROVE  i = j
  <2>1. \A k \in 1 .. Len(s) : s[k] # n
    BY DEF Elements
  <2>2. CASE i = 1 \/ j = 1
    BY <1>2, <1>3, <1>4, <1>5, <1>8, <2>1, <2>2
  <2>3. CASE i # 1 /\ j # 1
    <3>1. /\ i - 1 \in 1 .. Len(s) /\ j - 1 \in 1 .. Len(s)
          /\ s[i - 1] = s[j - 1]
      BY <1>5, <1>8, <2>3
    <3>2. i - 1 = j - 1
      BY <3>1 DEF Chain
    <3> QED
      BY <1>2, <1>3, <3>2
  <2> QED
    BY <2>2, <2>3
<1>9. Chain(nx, t, n)
  BY <1>2, <1>3, <1>4, <1>7, <1>8 DEF Chain
<1> QED
  BY <1>6, <1>9 DEF t

LEMMA ChainTail ==
  ASSUME NEW nx, NEW s, NEW p, Chain(nx, s, p), p # Null
  PROVE  /\ s # <<>> /\ s[1] = p /\ p \in Elements(s)
         /\ Chain(nx, Tail(s), nx[p])
         /\ Elements(Tail(s)) \subseteq Elements(s)
<1>1. s \in Seq(Nodes) /\ Len(s) \in Nat /\ Len(s) # 0 /\ s[1] = p
  BY LenProperties DEF Chain
<1>2. s # <<>>
  BY <1>1
<1>3. /\ Tail(s) \in Seq(Nodes) /\ Len(Tail(s)) = Len(s) - 1
      /\ \A i \in 1 .. Len(s) - 1 : Tail(s)[i] = s[i + 1]
  BY <1>1, <1>2, HeadTailProperties
<1>4. nx[p] = IF Len(Tail(s)) = 0 THEN Null ELSE Tail(s)[1]
  <2>1. 1 \in 1 .. Len(s)
    BY <1>1
  <2>2. nx[s[1]] = IF 1 = Len(s) THEN Null ELSE s[1 + 1]
    BY <2>1 DEF Chain
  <2>3. Len(s) # 1 => Tail(s)[1] = s[1 + 1]
    BY <1>1, <1>3
  <2> QED
    BY <1>1, <1>3, <2>2, <2>3
<1>5. ASSUME NEW i \in 1 .. Len(Tail(s))
      PROVE  /\ Tail(s)[i] \in DOMAIN nx
             /\ nx[Tail(s)[i]] = IF i = Len(Tail(s)) THEN Null ELSE Tail(s)[i + 1]
  <2>1. i \in 1 .. Len(s) - 1 /\ i + 1 \in 1 .. Len(s) /\ Tail(s)[i] = s[i + 1]
    BY <1>1, <1>3
  <2>2. /\ s[i + 1] \in DOMAIN nx
        /\ nx[s[i + 1]] = IF i + 1 = Len(s) THEN Null ELSE s[(i + 1) + 1]
    BY <2>1 DEF Chain
  <2>3. i # Len(s) - 1 => Tail(s)[i + 1] = s[(i + 1) + 1]
    <3>1. i # Len(s) - 1 => i + 1 \in 1 .. Len(s) - 1
      BY <1>1, <2>1
    <3> QED
      BY <1>3, <3>1
  <2> QED
    BY <1>1, <1>3, <2>1, <2>2, <2>3
<1>6. ASSUME NEW i \in 1 .. Len(Tail(s)), NEW j \in 1 .. Len(Tail(s)), Tail(s)[i] = Tail(s)[j]
      PROVE  i = j
  <2>1. /\ i + 1 \in 1 .. Len(s) /\ j + 1 \in 1 .. Len(s)
        /\ s[i + 1] = s[j + 1]
    BY <1>1, <1>3, <1>6
  <2>2. i + 1 = j + 1
    BY <2>1 DEF Chain
  <2> QED
    BY <1>1, <1>3, <2>2
<1>7. Chain(nx, Tail(s), nx[p])
  BY <1>3, <1>4, <1>5, <1>6 DEF Chain
<1>8. Elements(Tail(s)) \subseteq Elements(s)
  BY <1>1, <1>3 DEF Elements
<1>9. p \in Elements(s)
  <2>1. 1 \in 1 .. Len(s)
    BY <1>1
  <2> QED
    BY <1>1, <2>1 DEF Elements
<1> QED
  BY <1>1, <1>2, <1>7, <1>8, <1>9

LEMMA EmptyChain ==
  ASSUME NEW nx
  PROVE  Chain(nx, <<>>, Null) /\ FromIn(nx, Null) = <<>>
<1>1. Chain(nx, <<>>, Null)
  BY EmptySeq DEF Chain
<1> QED
  BY <1>1, FromChain

LEMMA ChainStart ==
  ASSUME NEW nx, NEW s, NEW p, Chain(nx, s, p)
  PROVE  p \in Elements(s) \cup {Null} /\ p \in Nodes \cup {Null}
<1>1. s \in Seq(Nodes) /\ Len(s) \in Nat
  BY LenProperties DEF Chain
<1>2. CASE Len(s) = 0
  BY <1>2 DEF Chain
<1>3. CASE Len(s) # 0
  <2>1. 1 \in 1 .. Len(s) /\ p = s[1]
    BY <1>1, <1>3 DEF Chain
  <2> QED
    BY <1>1, <2>1, ElementOfSeq DEF Elements
<1> QED
  BY <1>2, <1>3

-----------------------------------------------------------------------------
(* The inductive invariant.                                                *)

Inserted == {p \in Nodes : p[2] <= done[p[1]]}

Others(t) == {p \in Nodes : p[1] # t /\ p[2] <= done[p[1]]}

\* From head on there are the nodes whose insert is done, each once.
ListOK == Chain(next, From(head), head) /\ Elements(From(head)) = Inserted

\* print is inside that list, also after more nodes were put before it.
PrintOK ==
  /\ Chain(next, From(curr), curr) /\ Elements(From(curr)) \subseteq Inserted
  /\ printed \in Seq(Nodes)
  /\ printing => printed \o From(curr) = goal

\* A thread's new node is linked to what the thread loaded; if head is no
\* longer that, another thread's insert has been done.
ThreadsOK ==
  \A t \in Threads :
    /\ pc[t] # "idle" => done[t] < Inserts
    /\ pc[t] = "exchange" => next[New(t)] = oldHead[t]
    /\ failures[t] <= Cardinality(Others(t))
    /\ pc[t] = "exchange" /\ head # oldHead[t] => failures[t] < Cardinality(Others(t))

IInv == TypeOK /\ ListOK /\ PrintOK /\ ThreadsOK

LEMMA FromPrimed ==
  From(head)' = FromIn(next', head') /\ From(curr)' = FromIn(next', curr')
BY DEF From, FromIn

LEMMA NewNodes ==
  ASSUME IInv, NEW t \in Threads
  PROVE  /\ done[t] \in Nat /\ New(t) = <<t, done[t] + 1>> /\ New(t) \notin Inserted
         /\ done[t] < Inserts => New(t) \in Nodes
         /\ pc[t] # "idle" => New(t) \in Nodes /\ New(t) \in DOMAIN next
         /\ \A u \in Threads : u # t => New(u) # New(t)
<1>1. done[t] \in 0 .. Inserts /\ Inserts \in Nat
  BY NodesFinite DEF IInv, TypeOK
<1>2. New(t) = <<t, done[t] + 1>>
  BY DEF New
<1>3. New(t) \notin Inserted
  BY <1>1, <1>2 DEF Inserted
<1>4. done[t] < Inserts => New(t) \in Nodes
  BY <1>1, <1>2 DEF Nodes
<1>5. pc[t] # "idle" => done[t] < Inserts
  BY DEF IInv, ThreadsOK
<1>6. pc[t] # "idle" => New(t) \in DOMAIN next
  BY DEF IInv, TypeOK
<1>7. \A u \in Threads : u # t => New(u) # New(t)
  BY DEF New
<1> QED
  BY <1>1, <1>2, <1>3, <1>4, <1>5, <1>6, <1>7

LEMMA OthersFinite ==
  ASSUME NEW t \in Threads
  PROVE  /\ IsFiniteSet(Others(t)) /\ Cardinality(Others(t)) \in Nat
         /\ Cardinality(Others(t)) <= Cardinality(Nodes)
<1>1. Others(t) \in SUBSET Nodes
  BY DEF Others
<1> QED
  BY <1>1, NodesFinite, FS_Subset, FS_CardinalityType

\* As long as the nodes in the list keep their links, so do both lists.
LEMMA ListsKept ==
  ASSUME IInv, \A n \in Inserted : n \in DOMAIN next' /\ next'[n] = next[n]
  PROVE  /\ Chain(next', From(head), head) /\ FromIn(next', head) = From(head)
         /\ Chain(next', From(curr), curr) /\ FromIn(next', curr) = From(curr)
<1>1. Chain(next, From(head), head) /\ Elements(From(head)) \subseteq Inserted
  BY DEF IInv, ListOK
<1>2. Chain(next, From(curr), curr) /\ Elements(From(curr)) \subseteq Inserted
  BY DEF IInv, PrintOK
<1> QED
  BY <1>1, <1>2, ChainKept

LEMMA InitOK == Init => IInv
<1> SUFFICES ASSUME Init PROVE IInv
  OBVIOUS
<1>1. done = [t \in Threads |-> 0] /\ failures = [t \in Threads |-> 0] /\ Inserts \in Nat
  BY NodesFinite DEF Init
<1>2. Inserted = {}
  BY <1>1 DEF Inserted, Nodes
<1>3. From(Null) = <<>> /\ Chain(next, <<>>, Null)
  BY EmptyChain, FromIsFromIn
<1>4. Elements(<<>>) = {}
  BY EmptySeq DEF Elements
<1>5. TypeOK
  <2>1. DOMAIN next = {} /\ {New(t) : t \in {u \in Threads : pc[u] # "idle"}} = {}
    BY DEF Init
  <2>2. DOMAIN next = {p \in Nodes : p[2] <= done[p[1]]} \cup {New(t) : t \in {u \in Threads : pc[u] # "idle"}}
    BY <1>2, <2>1 DEF Inserted
  <2>3. 0 \in 0 .. Cardinality(Nodes) /\ 0 \in 0 .. Inserts
    BY <1>1, NodesFinite
  <2>4. /\ done \in [Threads -> 0 .. Inserts]
        /\ failures \in [Threads -> 0 .. Cardinality(Nodes)]
    BY <1>1, <2>3
  <2>5. /\ head \in Nodes \cup {Null} /\ curr \in Nodes \cup {Null} /\ printing \in BOOLEAN
        /\ pc \in [Threads -> {"idle", "load", "exchange"}]
        /\ oldHead \in [Threads -> Nodes \cup {Null}]
    BY DEF Init
  <2> QED
    BY <2>1, <2>2, <2>4, <2>5 DEF TypeOK
<1>6. ListOK
  BY <1>2, <1>3, <1>4 DEF Init, ListOK
<1>7. PrintOK
  BY <1>2, <1>3, <1>4, EmptySeq DEF Init, PrintOK
<1>8. ThreadsOK
  BY <1>1, OthersFinite DEF Init, ThreadsOK
<1> QED
  BY <1>5, <1>6, <1>7, <1>8 DEF IInv

LEMMA AllocateOK ==
  ASSUME IInv, NEW t \in Threads, Allocate(t)
  PROVE  IInv' /\ From(head)' = From(head)
<1>1. TypeOK /\ ListOK /\ PrintOK /\ ThreadsOK
  BY DEF IInv
<1>2. /\ pc[t] = "idle" /\ done[t] < Inserts
      /\ next' = [p \in DOMAIN next \cup {New(t)} |-> IF p = New(t) THEN Null ELSE next[p]]
      /\ pc' = [pc EXCEPT ![t] = "load"]
      /\ UNCHANGED <<head, done, oldHead, failures, printing, curr, printed, goal>>
  BY DEF Allocate, printer
<1>3. Inserted' = Inserted /\ (\A u \in Threads : Others(u)' = Others(u) /\ New(u)' = New(u))
  BY <1>2 DEF Inserted, Others, New
<1>4. New(t) \notin Inserted /\ New(t) \in Nodes /\ \A u \in Threads : u # t => New(u) # New(t)
  BY <1>2, NewNodes
<1>5. \A n \in Inserted : n \in DOMAIN next' /\ next'[n] = next[n]
  BY <1>1, <1>2, <1>4 DEF TypeOK, Inserted
<1>6. From(head)' = From(head) /\ From(curr)' = From(curr)
  BY <1>2, <1>5, ListsKept, FromPrimed
<1>7. TypeOK'
  <2>1. DOMAIN next' = DOMAIN next \cup {New(t)}
    BY <1>2
  <2>2. \A p \in DOMAIN next' : next'[p] \in DOMAIN next' \cup {Null}
    BY <1>1, <1>2 DEF TypeOK
  <2>3. \A u \in Threads : pc'[u] = IF u = t THEN "load" ELSE pc[u]
    BY <1>1, <1>2 DEF TypeOK
  <2>4. {New(u)' : u \in {u \in Threads : pc'[u] # "idle"}}
          = {New(u) : u \in {u \in Threads : pc[u] # "idle"}} \cup {New(t)}
    BY <1>2, <1>3, <2>3
  <2>5. DOMAIN next' = Inserted' \cup {New(u)' : u \in {u \in Threads : pc'[u] # "idle"}}
    BY <1>1, <1>3, <2>1, <2>4 DEF TypeOK, Inserted
  <2>6. pc' \in [Threads -> {"idle", "load", "exchange"}]
    BY <1>1, <1>2 DEF TypeOK
  <2> QED
    BY <1>1, <1>2, <2>2, <2>5, <2>6 DEF TypeOK, Inserted
<1>8. ListOK' /\ PrintOK'
  BY <1>1, <1>2, <1>3, <1>5, <1>6, ListsKept DEF ListOK, PrintOK
<1>9. ThreadsOK'
  <2> SUFFICES ASSUME NEW u \in Threads
               PROVE  /\ pc'[u] # "idle" => done[u] < Inserts
                      /\ pc'[u] = "exchange" => next'[New(u)] = oldHead[u]
                      /\ failures[u] <= Cardinality(Others(u))
                      /\ pc'[u] = "exchange" /\ head # oldHead[u] =>
                           failures[u] < Cardinality(Others(u))
    BY <1>2, <1>3 DEF ThreadsOK
  <2>1. CASE u = t
    BY <1>1, <1>2, <2>1 DEF ThreadsOK, TypeOK
  <2>2. CASE u # t
    <3>1. pc'[u] = pc[u]
      BY <1>1, <1>2, <2>2 DEF TypeOK
    <3>2. pc[u] = "exchange" => next'[New(u)] = next[New(u)]
      BY <1>2, <1>4, <2>2, NewNodes
    <3> QED
      BY <1>1, <3>1, <3>2 DEF ThreadsOK
  <2> QED
    BY <2>1, <2>2
<1> QED
  BY <1>6, <1>7, <1>8, <1>9 DEF IInv

LEMMA LoadOK ==
  ASSUME IInv, NEW t \in Threads, Load(t)
  PROVE  IInv' /\ From(head)' = From(head)
<1>1. TypeOK /\ ListOK /\ PrintOK /\ ThreadsOK
  BY DEF IInv
<1>2. /\ pc[t] = "load"
      /\ oldHead' = [oldHead EXCEPT ![t] = head]
      /\ next' = [next EXCEPT ![New(t)] = head]
      /\ pc' = [pc EXCEPT ![t] = "exchange"]
      /\ UNCHANGED <<head, done, failures, printing, curr, printed, goal>>
  BY DEF Load, LinkTo, printer
<1>3. Inserted' = Inserted /\ (\A u \in Threads : Others(u)' = Others(u) /\ New(u)' = New(u))
  BY <1>2 DEF Inserted, Others, New
<1>4. /\ New(t) \notin Inserted /\ New(t) \in DOMAIN next
      /\ \A u \in Threads : u # t => New(u) # New(t)
  BY <1>2, NewNodes
<1>5. /\ DOMAIN next' = DOMAIN next /\ next'[New(t)] = head
      /\ \A n \in DOMAIN next : n # New(t) => next'[n] = next[n]
  BY <1>2, <1>4
<1>6. \A n \in Inserted : n \in DOMAIN next' /\ next'[n] = next[n]
  BY <1>1, <1>4, <1>5 DEF TypeOK, Inserted
<1>7. From(head)' = From(head) /\ From(curr)' = From(curr)
  BY <1>2, <1>6, ListsKept, FromPrimed
<1>8. TypeOK'
  <2>1. head \in DOMAIN next \cup {Null} /\ head \in Nodes \cup {Null}
    BY <1>1, ChainStart DEF ListOK, TypeOK, Inserted
  <2>2. \A p \in DOMAIN next' : next'[p] \in DOMAIN next' \cup {Null}
    BY <1>1, <1>5, <2>1 DEF TypeOK
  <2>3. \A u \in Threads : pc'[u] = IF u = t THEN "exchange" ELSE pc[u]
    BY <1>1, <1>2 DEF TypeOK
  <2>4. {u \in Threads : pc'[u] # "idle"} = {u \in Threads : pc[u] # "idle"}
    BY <1>2, <2>3
  <2>5. {New(u)' : u \in {u \in Threads : pc'[u] # "idle"}}
          = {New(u) : u \in {u \in Threads : pc[u] # "idle"}}
    BY <1>3, <2>4
  <2>6. DOMAIN next' = Inserted' \cup {New(u)' : u \in {u \in Threads : pc'[u] # "idle"}}
    BY <1>1, <1>3, <1>5, <2>5 DEF TypeOK, Inserted
  <2>7. /\ pc' \in [Threads -> {"idle", "load", "exchange"}]
        /\ oldHead' \in [Threads -> Nodes \cup {Null}]
    BY <1>1, <1>2, <2>1 DEF TypeOK
  <2> QED
    BY <1>1, <1>2, <2>2, <2>6, <2>7 DEF TypeOK, Inserted
<1>9. ListOK' /\ PrintOK'
  BY <1>1, <1>2, <1>3, <1>6, <1>7, ListsKept DEF ListOK, PrintOK
<1>10. ThreadsOK'
  <2> SUFFICES ASSUME NEW u \in Threads
               PROVE  /\ pc'[u] # "idle" => done[u] < Inserts
                      /\ pc'[u] = "exchange" => next'[New(u)] = oldHead'[u]
                      /\ failures[u] <= Cardinality(Others(u))
                      /\ pc'[u] = "exchange" /\ head # oldHead'[u] =>
                           failures[u] < Cardinality(Others(u))
    BY <1>2, <1>3 DEF ThreadsOK
  <2>1. CASE u = t
    BY <1>1, <1>2, <1>5, <2>1 DEF ThreadsOK, TypeOK
  <2>2. CASE u # t
    <3>1. pc'[u] = pc[u] /\ oldHead'[u] = oldHead[u]
      BY <1>1, <1>2, <2>2 DEF TypeOK
    <3>2. pc[u] = "exchange" => next'[New(u)] = next[New(u)]
      BY <1>4, <1>5, <2>2, NewNodes
    <3> QED
      BY <1>1, <3>1, <3>2 DEF ThreadsOK
  <2> QED
    BY <2>1, <2>2
<1> QED
  BY <1>7, <1>8, <1>9, <1>10 DEF IInv

\* An exchange that fails has been preceded by another thread's insert.
LEMMA FailOK ==
  ASSUME IInv, NEW t \in Threads, Exchange(t), ~Matches(t)
  PROVE  IInv' /\ From(head)' = From(head)
<1>1. TypeOK /\ ListOK /\ PrintOK /\ ThreadsOK
  BY DEF IInv
<1>2. /\ pc[t] = "exchange" /\ head # oldHead[t]
      /\ failures[t] < Cardinality(Nodes)
      /\ failures' = [failures EXCEPT ![t] = @ + 1]
      /\ pc' = [pc EXCEPT ![t] = "load"]
      /\ UNCHANGED <<head, done, next, oldHead, printing, curr, printed, goal>>
  BY DEF Exchange, Matches, printer
<1>3. Inserted' = Inserted /\ (\A u \in Threads : Others(u)' = Others(u) /\ New(u)' = New(u))
  BY <1>2 DEF Inserted, Others, New
<1>4. From(head)' = From(head) /\ From(curr)' = From(curr)
  BY <1>2, FromPrimed, FromIsFromIn
<1>5. failures[t] \in Nat /\ Cardinality(Others(t)) \in Nat /\ Cardinality(Nodes) \in Nat
  BY <1>1, OthersFinite, NodesFinite DEF TypeOK
<1>6. TypeOK'
  <2>1. \A u \in Threads : pc'[u] = IF u = t THEN "load" ELSE pc[u]
    BY <1>1, <1>2 DEF TypeOK
  <2>2. {u \in Threads : pc'[u] # "idle"} = {u \in Threads : pc[u] # "idle"}
    BY <1>2, <2>1
  <2>3. {New(u)' : u \in {u \in Threads : pc'[u] # "idle"}}
          = {New(u) : u \in {u \in Threads : pc[u] # "idle"}}
    BY <1>3, <2>2
  <2>4. DOMAIN next' = Inserted' \cup {New(u)' : u \in {u \in Threads : pc'[u] # "idle"}}
    BY <1>1, <1>2, <1>3, <2>3 DEF TypeOK, Inserted
  <2>5. failures' \in [Threads -> 0 .. Cardinality(Nodes)]
    BY <1>1, <1>2, <1>5 DEF TypeOK
  <2>6. pc' \in [Threads -> {"idle", "load", "exchange"}]
    BY <1>1, <1>2 DEF TypeOK
  <2> QED
    BY <1>1, <1>2, <2>4, <2>5, <2>6 DEF TypeOK, Inserted
<1>7. ListOK' /\ PrintOK'
  BY <1>1, <1>2, <1>3, <1>4 DEF ListOK, PrintOK
<1>8. ThreadsOK'
  <2> SUFFICES ASSUME NEW u \in Threads
               PROVE  /\ pc'[u] # "idle" => done[u] < Inserts
                      /\ pc'[u] = "exchange" => next[New(u)] = oldHead[u]
                      /\ failures'[u] <= Cardinality(Others(u))
                      /\ pc'[u] = "exchange" /\ head # oldHead[u] =>
                           failures'[u] < Cardinality(Others(u))
    BY <1>2, <1>3 DEF ThreadsOK
  <2>1. CASE u = t
    <3>1. pc'[u] = "load" /\ failures'[u] = failures[t] + 1
      BY <1>1, <1>2, <2>1 DEF TypeOK
    <3>2. done[u] < Inserts /\ failures[t] < Cardinality(Others(t))
      BY <1>1, <1>2, <2>1 DEF ThreadsOK
    <3> QED
      BY <1>5, <2>1, <3>1, <3>2
  <2>2. CASE u # t
    <3>1. pc'[u] = pc[u] /\ failures'[u] = failures[u]
      BY <1>1, <1>2, <2>2 DEF TypeOK
    <3> QED
      BY <1>1, <3>1 DEF ThreadsOK
  <2> QED
    BY <2>1, <2>2
<1> QED
  BY <1>4, <1>6, <1>7, <1>8 DEF IInv

LEMMA InsertOK ==
  ASSUME IInv, NEW t \in Threads, Exchange(t), Matches(t)
  PROVE  /\ IInv' /\ From(head)' = <<New(t)>> \o From(head)
         /\ New(t) \in Nodes
<1>1. TypeOK /\ ListOK /\ PrintOK /\ ThreadsOK
  BY DEF IInv
<1>2. /\ pc[t] = "exchange" /\ head = oldHead[t]
      /\ head' = New(t)
      /\ done' = [done EXCEPT ![t] = @ + 1]
      /\ pc' = [pc EXCEPT ![t] = "idle"]
      /\ UNCHANGED <<failures, next, oldHead, printing, curr, printed, goal>>
  BY DEF Exchange, Matches, printer
<1>3. /\ done[t] \in Nat /\ done[t] < Inserts /\ Inserts \in Nat /\ New(t) = <<t, done[t] + 1>>
      /\ New(t) \in Nodes /\ New(t) \in DOMAIN next /\ New(t) \notin Inserted
  BY <1>1, <1>2, NewNodes, NodesFinite DEF ThreadsOK
<1>4. \A u \in Threads : done'[u] = IF u = t THEN done[t] + 1 ELSE done[u]
  BY <1>1, <1>2 DEF TypeOK
<1>5. Inserted' = Inserted \cup {New(t)}
  <2> SUFFICES ASSUME NEW p \in Nodes
               PROVE  p[2] <= done'[p[1]] <=> p[2] <= done[p[1]] \/ p = New(t)
    BY <1>3 DEF Inserted
  <2>1. p[1] \in Threads /\ p[2] \in 1 .. Inserts /\ p = <<p[1], p[2]>>
    BY DEF Nodes
  <2>2. done[p[1]] \in Nat
    BY <1>1, <2>1, <1>3 DEF TypeOK
  <2>3. CASE p[1] = t
    BY <1>3, <1>4, <2>1, <2>2, <2>3
  <2>4. CASE p[1] # t
    BY <1>3, <1>4, <2>1, <2>2, <2>4
  <2> QED
    BY <2>3, <2>4
<1>6. Others(t)' = Others(t)
  <2> SUFFICES ASSUME NEW p \in Nodes
               PROVE  p[1] # t => (p[2] <= done'[p[1]] <=> p[2] <= done[p[1]])
    BY DEF Others
  <2>1. p[1] \in Threads
    BY DEF Nodes
  <2> QED
    BY <1>4, <2>1
<1>7. ASSUME NEW u \in Threads, u # t
      PROVE  Cardinality(Others(u)') = Cardinality(Others(u)) + 1 /\ New(u)' = New(u)
  <2>1. Others(u) = {p \in Inserted : p[1] # u} /\ Others(u)' = {p \in Inserted' : p[1] # u}
    BY DEF Others, Inserted
  <2>2. Others(u)' = Others(u) \cup {New(t)} /\ New(t) \notin Others(u)
    BY <1>3, <1>5, <1>7, <2>1
  <2>3. Cardinality(Others(u)') = Cardinality(Others(u)) + 1
    BY <2>2, OthersFinite, FS_AddElement
  <2> QED
    BY <1>4, <1>7, <2>3 DEF New
<1>8. next[New(t)] = head
  BY <1>1, <1>2 DEF ThreadsOK
<1>9. /\ Chain(next, <<New(t)>> \o From(head), New(t))
      /\ Elements(<<New(t)>> \o From(head)) = Inserted \cup {New(t)}
  BY <1>1, <1>3, <1>8, ChainPrepend DEF ListOK
<1>10. From(head)' = <<New(t)>> \o From(head) /\ From(curr)' = From(curr)
  BY <1>2, <1>9, FromChain, FromPrimed, FromIsFromIn
<1>11. TypeOK'
  <2>1. \A u \in Threads : pc'[u] = IF u = t THEN "idle" ELSE pc[u]
    BY <1>1, <1>2 DEF TypeOK
  <2>2. {u \in Threads : pc[u] # "idle"} = {u \in Threads : pc'[u] # "idle"} \cup {t}
    BY <1>2, <2>1
  <2>3. {New(u) : u \in {u \in Threads : pc[u] # "idle"}}
          = {New(u)' : u \in {u \in Threads : pc'[u] # "idle"}} \cup {New(t)}
    <3>1. \A u \in Threads : pc'[u] # "idle" => New(u)' = New(u)
      BY <1>7, <2>1
    <3> QED
      BY <2>2, <3>1
  <2>4. DOMAIN next' = Inserted' \cup {New(u)' : u \in {u \in Threads : pc'[u] # "idle"}}
    BY <1>1, <1>2, <1>5, <2>3 DEF TypeOK, Inserted
  <2>5. done' \in [Threads -> 0 .. Inserts]
    BY <1>1, <1>2, <1>3 DEF TypeOK
  <2>6. pc' \in [Threads -> {"idle", "load", "exchange"}]
    BY <1>1, <1>2 DEF TypeOK
  <2> QED
    BY <1>1, <1>2, <1>3, <2>4, <2>5, <2>6 DEF TypeOK, Inserted
<1>12. ListOK'
  BY <1>2, <1>5, <1>9, <1>10 DEF ListOK
<1>13. PrintOK'
  BY <1>1, <1>2, <1>5, <1>10 DEF PrintOK
<1>14. ThreadsOK'
  <2> SUFFICES ASSUME NEW u \in Threads
               PROVE  /\ pc'[u] # "idle" => done'[u] < Inserts
                      /\ pc'[u] = "exchange" => next[New(u)'] = oldHead[u]
                      /\ failures[u] <= Cardinality(Others(u)')
                      /\ pc'[u] = "exchange" /\ head' # oldHead[u] =>
                           failures[u] < Cardinality(Others(u)')
    BY <1>2 DEF ThreadsOK
  <2>1. failures[u] \in Nat /\ Cardinality(Others(u)) \in Nat /\ failures[u] <= Cardinality(Others(u))
    BY <1>1, OthersFinite, NodesFinite DEF TypeOK, ThreadsOK
  <2>2. CASE u = t
    <3>1. pc'[u] = "idle"
      BY <1>1, <1>2, <2>2 DEF TypeOK
    <3> QED
      BY <1>6, <2>1, <2>2, <3>1
  <2>3. CASE u # t
    <3>1. pc'[u] = pc[u] /\ done'[u] = done[u]
      BY <1>1, <1>2, <2>3 DEF TypeOK
    <3>2. Cardinality(Others(u)') = Cardinality(Others(u)) + 1 /\ New(u)' = New(u)
      BY <1>7, <2>3
    <3> QED
      BY <1>1, <2>1, <3>1, <3>2 DEF ThreadsOK
  <2> QED
    BY <2>2, <2>3
<1> QED
  BY <1>3, <1>10, <1>11, <1>12, <1>13, <1>14 DEF IInv

LEMMA PrintStepOK ==
  ASSUME IInv, PrintBegin \/ PrintNode \/ PrintEnd
  PROVE  IInv' /\ From(head)' = From(head)
<1>1. TypeOK /\ ListOK /\ PrintOK /\ ThreadsOK
  BY DEF IInv
<1>2. UNCHANGED <<head, next, done, pc, oldHead, failures>>
  BY DEF PrintBegin, PrintNode, PrintEnd
<1>3. Inserted' = Inserted /\ (\A u \in Threads : Others(u)' = Others(u) /\ New(u)' = New(u))
  BY <1>2 DEF Inserted, Others, New
<1>4. From(head)' = From(head) /\ From(curr)' = FromIn(next, curr')
  BY <1>2, FromPrimed, FromIsFromIn
<1>5. ListOK' /\ ThreadsOK'
  BY <1>1, <1>2, <1>3, <1>4 DEF ListOK, ThreadsOK
<1>6. ASSUME curr' \in Nodes \cup {Null}, printing' \in BOOLEAN, PrintOK'
      PROVE  IInv'
  <2>1. TypeOK'
    BY <1>1, <1>2, <1>6 DEF TypeOK, New
  <2> QED
    BY <1>5, <1>6, <2>1 DEF IInv
<1>7. CASE PrintBegin
  <2>1. printing' = TRUE /\ curr' = head /\ printed' = <<>> /\ goal' = From(head)
    BY <1>7 DEF PrintBegin
  <2>2. From(curr)' = From(head) /\ Chain(next, From(head), head) /\ head \in Nodes \cup {Null}
    BY <1>1, <1>4, <2>1, FromIsFromIn DEF ListOK, TypeOK
  <2>3. <<>> \o From(head) = From(head) /\ <<>> \in Seq(Nodes)
    BY <2>2, ConcatEmptySeq, EmptySeq DEF Chain
  <2>4. PrintOK'
    BY <1>1, <1>2, <1>3, <2>1, <2>2, <2>3 DEF PrintOK, ListOK
  <2> QED
    BY <1>4, <1>6, <2>1, <2>2, <2>4
<1>8. CASE PrintNode
  <2> DEFINE s == From(curr)
  <2>1. /\ printing /\ curr # Null /\ printed' = Append(printed, curr) /\ curr' = next[curr]
        /\ UNCHANGED <<printing, goal>>
    BY <1>8 DEF PrintNode
  <2>2. Chain(next, s, curr) /\ Elements(s) \subseteq Inserted /\ printed \o s = goal
    BY <1>1, <2>1 DEF PrintOK
  <2>3. /\ s # <<>> /\ s[1] = curr
        /\ Chain(next, Tail(s), curr') /\ Elements(Tail(s)) \subseteq Inserted
    BY <2>1, <2>2, ChainTail
  <2>4. From(curr)' = Tail(s)
    BY <1>4, <2>3, FromChain
  <2>5. s \in Seq(Nodes) /\ printed \in Seq(Nodes) /\ curr \in Nodes
    BY <1>1, <2>1, <2>2 DEF Chain, PrintOK, TypeOK
  <2> HIDE DEF s
  <2>6. Append(printed, curr) \o Tail(s) = printed \o s /\ Append(printed, curr) \in Seq(Nodes)
    <3>1. Append(printed, curr) = printed \o <<curr>> /\ Append(printed, curr) \in Seq(Nodes)
      BY <2>5, AppendIsConcat, AppendProperties
    <3>2. <<curr>> \in Seq(Nodes) /\ Tail(s) \in Seq(Nodes)
      BY <2>3, <2>5, HeadTailProperties
    <3>3. (printed \o <<curr>>) \o Tail(s) = printed \o (<<curr>> \o Tail(s))
      BY <2>5, <3>2, ConcatAssociative
    <3>4. s = <<curr>> \o Tail(s)
      <4>1. Len(s) \in Nat /\ Len(s) # 0
        BY <2>3, <2>5, EmptySeq, LenProperties
      <4>2. 1 \in 1 .. Len(s) /\ Len(s) \in 1 .. Len(s)
        BY <4>1
      <4>3. SubSeq(s, 1, Len(s)) = <<s[1]>> \o SubSeq(s, 1 + 1, Len(s))
        BY <2>5, <4>2, SubSeqRecursiveFirst
      <4>4. SubSeq(s, 1, Len(s)) = s /\ Tail(s) = SubSeq(s, 2, Len(s))
        BY <2>3, <2>5, SubSeqFull, TailIsSubSeq
      <4> QED
        BY <2>3, <4>3, <4>4
    <3> QED
      BY <3>1, <3>3, <3>4
  <2>7. PrintOK'
    BY <1>2, <1>3, <2>1, <2>2, <2>3, <2>4, <2>6 DEF PrintOK
  <2>8. curr' \in Nodes \cup {Null} /\ printing' \in BOOLEAN
    BY <1>1, <2>1, <2>3, ChainStart DEF TypeOK
  <2> QED
    BY <1>4, <1>6, <2>7, <2>8
<1>9. CASE PrintEnd
  <2>1. printing' = FALSE /\ UNCHANGED <<curr, printed, goal>>
    BY <1>9 DEF PrintEnd
  <2>2. From(curr)' = From(curr)
    BY <1>4, <2>1, FromIsFromIn
  <2>3. PrintOK'
    BY <1>1, <1>2, <1>3, <2>1, <2>2 DEF PrintOK
  <2> QED
    BY <1>1, <1>4, <1>6, <2>1, <2>3 DEF TypeOK
<1> QED
  BY <1>4, <1>7, <1>8, <1>9

LEMMA UnchangedOK ==
  ASSUME IInv, UNCHANGED vars
  PROVE  IInv' /\ From(head)' = From(head)
<1>1. UNCHANGED <<head, next, done, pc, oldHead, failures, printing, curr, printed, goal>>
  BY DEF vars, printer
<1>2. From(head)' = From(head) /\ From(curr)' = From(curr)
  BY <1>1, FromPrimed, FromIsFromIn
<1>3. Inserted' = Inserted /\ (\A u \in Threads : Others(u)' = Others(u) /\ New(u)' = New(u))
  BY <1>1 DEF Inserted, Others, New
<1>4. TypeOK'
  BY <1>1 DEF IInv, TypeOK, New
<1>5. ListOK' /\ PrintOK' /\ ThreadsOK'
  BY <1>1, <1>2, <1>3 DEF IInv, ListOK, PrintOK, ThreadsOK
<1> QED
  BY <1>2, <1>4, <1>5 DEF IInv

LEMMA StepOK == IInv /\ [Next]_vars => IInv'
<1> SUFFICES ASSUME IInv, [Next]_vars PROVE IInv'
  OBVIOUS
<1>1. ASSUME NEW t \in Threads, Exchange(t) PROVE IInv'
  BY <1>1, FailOK, InsertOK
<1> QED
  BY <1>1, AllocateOK, LoadOK, PrintStepOK, UnchangedOK DEF Next

\* IInv holds in every reachable state.
THEOREM Invariance == Spec => []IInv
BY InitOK, StepOK, PTL DEF Spec

-----------------------------------------------------------------------------
(* What follows from it.                                                   *)

\* print, running among any number of inserts, prints the list that head began
\* when it was loaded.
THEOREM Snapshot == Spec => []PrintsSnapshot
<1>1. IInv => PrintsSnapshot
  BY DEF IInv, PrintOK, PrintsSnapshot
<1> QED
  BY <1>1, Invariance, PTL

\* However many threads contend, a thread fails only as often as the others
\* succeed.
THEOREM SomeoneProgresses == Spec => []LockFree
<1>1. IInv => LockFree
  BY DEF IInv, ThreadsOK, Others, LockFree
<1> QED
  BY <1>1, Invariance, PTL

\* The bound on failures in Exchange never holds a thread back.
THEOREM BoundNotReached ==
  Spec => [](\A t \in Threads :
               pc[t] = "exchange" /\ ~Matches(t) => failures[t] < Cardinality(Nodes))
<1>1. IInv => \A t \in Threads :
                pc[t] = "exchange" /\ ~Matches(t) => failures[t] < Cardinality(Nodes)
  <2> SUFFICES ASSUME IInv, NEW t \in Threads, pc[t] = "exchange", ~Matches(t)
               PROVE  failures[t] < Cardinality(Nodes)
    OBVIOUS
  <2>1. failures[t] < Cardinality(Others(t)) /\ failures[t] \in Nat
    BY NodesFinite DEF IInv, TypeOK, ThreadsOK, Matches
  <2> QED
    BY <2>1, OthersFinite, NodesFinite
<1> QED
  BY <1>1, Invariance, PTL

-----------------------------------------------------------------------------
(* The refinement.                                                         *)

LEMMA InitRefines == Init => Abstract!Init
BY EmptyChain, FromIsFromIn DEF Init, Abstract!Init

\* An exchange that succeeds is the abstract insert; every other step leaves
\* the list as it is.
LEMMA StepRefines == IInv /\ [Next]_vars => [Abstract!Next]_(From(head))
<1> SUFFICES ASSUME IInv, [Next]_vars
             PROVE  Abstract!Next \/ From(head)' = From(head)
  OBVIOUS
<1>1. ASSUME NEW t \in Threads, Exchange(t), Matches(t)
      PROVE  Abstract!Next
  <2> DEFINE s == From(head)
             n == done[t] + 1
  <2>1. s \in Seq(Nodes) /\ Elements(s) = Inserted /\ Len(s) \in Nat
    BY LenProperties DEF IInv, ListOK, Chain
  <2>2. /\ From(head)' = <<New(t)>> \o s /\ New(t) = <<t, n>>
        /\ New(t) \in Nodes /\ done[t] \in Nat /\ n \in 1 .. Inserts
    BY <1>1, InsertOK, NewNodes DEF Nodes
  <2> HIDE DEF s
  <2>3. {s[j][2] : j \in {i \in 1 .. Len(s) : s[i][1] = t}} = 1 .. n - 1
    <3>1. ASSUME NEW j \in 1 .. Len(s), s[j][1] = t
          PROVE  s[j][2] \in 1 .. n - 1
      <4>1. s[j] \in Inserted
        BY <2>1 DEF Elements
      <4> QED
        BY <2>2, <3>1, <4>1 DEF Inserted, Nodes
    <3>2. ASSUME NEW k \in 1 .. n - 1
          PROVE  \E j \in 1 .. Len(s) : s[j][1] = t /\ s[j][2] = k
      <4>1. <<t, k>> \in Nodes
        BY <2>2, NodesFinite DEF Nodes
      <4>2. <<t, k>> \in Inserted
        BY <2>2, <4>1 DEF Inserted
      <4> QED
        BY <2>1, <4>2 DEF Elements
    <3> QED
      BY <3>1, <3>2
  <2>4. Abstract!Insert(t, n)
    BY <2>2, <2>3 DEF Abstract!Insert, Abstract!Inserted, s
  <2> QED
    BY <2>2, <2>4 DEF Abstract!Next
<1>2. ASSUME NEW t \in Threads, Exchange(t), ~Matches(t)
      PROVE  From(head)' = From(head)
  BY <1>2, FailOK
<1> QED
  BY <1>1, <1>2, AllocateOK, LoadOK, PrintStepOK, UnchangedOK DEF Next

\* insert is atomic, for any number of threads: no node is lost, duplicated or
\* reordered, though the list is changed by bare exchanges of head.
THEOREM Prepends == Spec => ImplementsPrependList
<1>1. Spec => Abstract!Spec
  BY InitRefines, Invariance, StepRefines, PTL DEF Spec, Abstract!Spec
<1> QED
  BY <1>1 DEF ImplementsPrependList

-----------------------------------------------------------------------------
(* What main prints.                                                       *)

\* Of two nodes of a thread, the one it inserted later comes first.
NewestFirst(s) ==
  \A i, j \in 1 .. Len(s) : i < j /\ s[i][1] = s[j][1] => s[j][2] < s[i][2]

\* The list after the joins in main, however the threads contended.
Complete ==
  (\A t \in Threads : done[t] = Inserts) =>
    From(head) \in Bijection(1 .. Cardinality(Nodes), Nodes)

LEMMA InitNewest == Init => NewestFirst(From(head))
<1> SUFFICES ASSUME Init PROVE NewestFirst(From(head))
  OBVIOUS
<1>1. From(head) = <<>>
  BY EmptyChain, FromIsFromIn DEF Init
<1>2. 1 .. Len(<<>>) = {}
  BY EmptySeq
<1> QED
  BY <1>1, <1>2 DEF NewestFirst

\* The node put in front is the thread's latest.
LEMMA StepNewest == IInv /\ NewestFirst(From(head)) /\ [Next]_vars => NewestFirst(From(head)')
<1> SUFFICES ASSUME IInv, NewestFirst(From(head)), [Next]_vars
             PROVE  NewestFirst(From(head)')
  OBVIOUS
<1>1. ASSUME NEW t \in Threads, Exchange(t), Matches(t)
      PROVE  NewestFirst(From(head)')
  <2> DEFINE s == From(head)
             r == <<New(t)>> \o s
  <2>1. /\ s \in Seq(Nodes) /\ Elements(s) = Inserted /\ Len(s) \in Nat
        /\ NewestFirst(s)
    BY LenProperties DEF IInv, ListOK, Chain
  <2>2. /\ From(head)' = r /\ New(t) = <<t, done[t] + 1>>
        /\ New(t) \in Nodes /\ done[t] \in Nat
    BY <1>1, InsertOK, NewNodes
  <2> HIDE DEF s
  <2>3. <<New(t)>> \in Seq(Nodes) /\ Len(<<New(t)>>) = 1 /\ <<New(t)>>[1] = New(t)
    BY <2>2
  <2>4. /\ Len(r) = 1 + Len(s)
        /\ \A i \in 1 .. 1 + Len(s) : r[i] = IF i <= 1 THEN <<New(t)>>[i] ELSE s[i - 1]
    BY <2>1, <2>3, ConcatProperties
  <2> HIDE DEF r
  <2>5. ASSUME NEW i \in 1 .. Len(r), NEW j \in 1 .. Len(r), i < j, r[i][1] = r[j][1]
        PROVE  r[j][2] < r[i][2]
    <3>1. j - 1 \in 1 .. Len(s) /\ r[j] = s[j - 1]
      BY <2>1, <2>4, <2>5
    <3>2. CASE i = 1
      <4>1. r[i] = New(t)
        BY <2>1, <2>3, <2>4, <3>2
      <4>2. s[j - 1] \in Inserted /\ s[j - 1][1] = t
        BY <2>1, <2>2, <2>5, <3>1, <4>1 DEF Elements
      <4>3. s[j - 1][2] <= done[t] /\ s[j - 1][2] \in Nat
        BY <4>2, NodesFinite DEF Inserted, Nodes
      <4> QED
        BY <2>2, <3>1, <4>1, <4>3
    <3>3. CASE i # 1
      <4>1. i - 1 \in 1 .. Len(s) /\ r[i] = s[i - 1] /\ i - 1 < j - 1
        BY <2>1, <2>4, <2>5, <3>3
      <4> QED
        BY <2>1, <2>5, <3>1, <4>1 DEF NewestFirst
    <3> QED
      BY <3>2, <3>3
  <2> QED
    BY <2>2, <2>5 DEF NewestFirst
<1>2. ASSUME NEW t \in Threads, Exchange(t), ~Matches(t)
      PROVE  From(head)' = From(head)
  BY <1>2, FailOK
<1>3. From(head)' = From(head) => NewestFirst(From(head)')
  OBVIOUS
<1> QED
  BY <1>1, <1>2, <1>3, AllocateOK, LoadOK, PrintStepOK, UnchangedOK DEF Next

LEMMA AllInserted == IInv => Complete
<1> SUFFICES ASSUME IInv, \A t \in Threads : done[t] = Inserts
             PROVE  From(head) \in Bijection(1 .. Cardinality(Nodes), Nodes)
  BY DEF Complete
<1> DEFINE s == From(head)
<1>1. Chain(next, s, head) /\ Elements(s) = Inserted
  BY DEF IInv, ListOK
<1> HIDE DEF s
<1>2. /\ s \in Seq(Nodes) /\ Len(s) \in Nat /\ s \in [1 .. Len(s) -> Nodes]
      /\ \A i, j \in 1 .. Len(s) : s[i] = s[j] => i = j
  BY <1>1, LenProperties DEF Chain
<1>3. Inserted = Nodes
  <2>1. \A p \in Nodes : p[1] \in Threads /\ p[2] <= Inserts
    BY NodesFinite DEF Nodes
  <2> QED
    BY <2>1 DEF Inserted
<1>4. \A p \in Nodes : \E i \in 1 .. Len(s) : s[i] = p
  BY <1>1, <1>3 DEF Elements
<1>5. s \in Bijection(1 .. Len(s), Nodes)
  <2>1. s \in Injection(1 .. Len(s), Nodes)
    BY <1>2, Fun_IsInj
  <2>2. s \in Surjection(1 .. Len(s), Nodes)
    BY <1>2, <1>4, Fun_IsSurj
  <2> QED
    BY <2>1, <2>2 DEF Bijection
<1>6. Cardinality(Nodes) = Len(s)
  <2>1. IsFiniteSet(1 .. Len(s)) /\ Cardinality(1 .. Len(s)) = Len(s)
    BY <1>2, FS_Interval
  <2> QED
    BY <1>5, <2>1, FS_Bijection DEF ExistsBijection
<1> QED
  BY <1>5, <1>6 DEF s

\* After the joins the list has every node, each once; and each thread's values
\* are, from the head on, in the order opposite to that of its calls, whatever
\* the other threads did.
THEOREM EveryNode == Spec => [](Complete /\ NewestFirst(From(head)))
<1>1. Spec => [](IInv /\ NewestFirst(From(head)))
  <2>1. NewestFirst(From(head))' <=> NewestFirst(From(head)')
    BY DEF NewestFirst
  <2> QED
    BY <2>1, InitOK, InitNewest, StepOK, StepNewest, PTL DEF Spec
<1> QED
  BY <1>1, AllInserted, PTL
=============================================================================
