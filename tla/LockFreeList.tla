---------------------------- MODULE LockFreeList ----------------------------
(***************************************************************************)
(* lockFreeWaitFree/linkedListInsertion.cpp: LockFreeList::insert, called  *)
(* by several threads, and print.  head is sequentially consistent, so the *)
(* threads are interleaved at their accesses to it; a node belongs to the  *)
(* thread that allocated it until head points to it.                       *)
(***************************************************************************)
EXTENDS Naturals, Sequences, FiniteSets

CONSTANTS
  Threads,
  Inserts,   \* calls of insert that a thread makes (5 in main)
  Null       \* nullptr

Nodes == Threads \X (1 .. Inserts)

ASSUME ListAssumption ==
  IsFiniteSet(Threads) /\ Inserts \in Nat /\ Null \notin Nodes

VARIABLES
  head,
  next,       \* Node::next of the nodes allocated so far
  done,       \* inserts completed by each thread
  pc,         \* where a thread is in insert
  oldHead,    \* what it loaded
  failures,   \* exchanges that failed, per thread
  printing,   \* whether print is running
  curr,       \* where it is
  printed,    \* the nodes whose values it has printed
  goal        \* the list when it loaded head (history)

printer == <<printing, curr, printed, goal>>
vars    == <<head, next, done, pc, oldHead, failures, printer>>

\* Wrong variant: the thread uses its first node again.
NewReused(t) == <<t, 1>>

\* The node a thread is inserting.
New(t) == <<t, done[t] + 1>>

\* The nodes from p on, following next as far as there are nodes.
From(p) ==
  LET Walk[k \in 0 .. Cardinality(Nodes)] ==
        IF k = 0 THEN p
        ELSE IF Walk[k - 1] = Null THEN Null ELSE next[Walk[k - 1]]
  IN  [k \in 1 .. Cardinality({j \in DOMAIN Walk : Walk[j] # Null}) |-> Walk[k - 1]]

Init ==
  /\ head = Null
  /\ next = [p \in {} |-> Null]
  /\ done = [t \in Threads |-> 0]
  /\ pc = [t \in Threads |-> "idle"]
  /\ oldHead = [t \in Threads |-> Null]
  /\ failures = [t \in Threads |-> 0]
  /\ printing = FALSE /\ curr = Null /\ printed = <<>> /\ goal = <<>>

Allocate(t) ==
  /\ pc[t] = "idle" /\ done[t] < Inserts
  /\ next' = [p \in DOMAIN next \cup {New(t)} |-> IF p = New(t) THEN Null ELSE next[p]]
  /\ pc' = [pc EXCEPT ![t] = "load"]
  /\ UNCHANGED <<head, done, oldHead, failures, printer>>

\* What the new node is linked to.
LinkTo(t) == head

\* oldHead = head.load(), and the store to next, which no one else can see.
Load(t) ==
  /\ pc[t] = "load"
  /\ oldHead' = [oldHead EXCEPT ![t] = head]
  /\ next' = [next EXCEPT ![New(t)] = LinkTo(t)]
  /\ pc' = [pc EXCEPT ![t] = "exchange"]
  /\ UNCHANGED <<head, done, failures, printer>>

\* Wrong variants: head is stored without a comparison; nothing ever matches
\* but an empty list.
Blind(t)     == TRUE
OnlyEmpty(t) == head = Null

\* The comparison of compare_exchange_strong.
Matches(t) == head = oldHead[t]

Exchange(t) ==
  /\ pc[t] = "exchange"
  /\ \/ /\ Matches(t)
        /\ head' = New(t)
        /\ done' = [done EXCEPT ![t] = @ + 1]
        /\ pc' = [pc EXCEPT ![t] = "idle"]
        /\ UNCHANGED failures
     \/ /\ ~Matches(t)
        /\ failures[t] < Cardinality(Nodes)   \* bound, not reached
        /\ failures' = [failures EXCEPT ![t] = @ + 1]
        /\ pc' = [pc EXCEPT ![t] = "load"]
        /\ UNCHANGED <<head, done>>
  /\ UNCHANGED <<next, oldHead, printer>>

PrintBegin ==
  /\ ~printing
  /\ printing' = TRUE
  /\ curr' = head
  /\ printed' = <<>>
  /\ goal' = From(head)
  /\ UNCHANGED <<head, next, done, pc, oldHead, failures>>

PrintNode ==
  /\ printing /\ curr # Null
  /\ printed' = Append(printed, curr)
  /\ curr' = next[curr]
  /\ UNCHANGED <<head, next, done, pc, oldHead, failures, printing, goal>>

PrintEnd ==
  /\ printing /\ curr = Null
  /\ printing' = FALSE
  /\ UNCHANGED <<head, next, done, pc, oldHead, failures, curr, printed, goal>>

Next ==
  \/ \E t \in Threads : Allocate(t) \/ Load(t) \/ Exchange(t)
  \/ PrintBegin \/ PrintNode \/ PrintEnd

Spec == Init /\ [][Next]_vars

-----------------------------------------------------------------------------
(* Properties.                                                             *)

TypeOK ==
  /\ head \in Nodes \cup {Null}
  /\ DOMAIN next = {p \in Nodes : p[2] <= done[p[1]]} \cup {New(t) : t \in {u \in Threads : pc[u] # "idle"}}
  /\ \A p \in DOMAIN next : next[p] \in DOMAIN next \cup {Null}
  /\ done \in [Threads -> 0 .. Inserts]
  /\ pc \in [Threads -> {"idle", "load", "exchange"}]
  /\ oldHead \in [Threads -> Nodes \cup {Null}]
  /\ failures \in [Threads -> 0 .. Cardinality(Nodes)]
  /\ printing \in BOOLEAN /\ curr \in Nodes \cup {Null}

Abstract == INSTANCE PrependList WITH list <- From(head)

\* Every insert takes effect at once, at its exchange: no node is lost, none is
\* there twice, nodes once in the list stay in order, and there is no cycle.
ImplementsPrependList == Abstract!Spec

\* print, called while others insert, prints exactly the list that head began
\* when it was loaded, and never a node twice: no node is changed, or allocated
\* again, once it can be reached.
PrintsSnapshot ==
  /\ TypeOK
  /\ printing => printed \o From(curr) = goal

\* Lock-free: an exchange fails only if another thread's has succeeded since
\* the load, so a thread never fails more often than the others succeed.
LockFree ==
  \A t \in Threads :
    failures[t] <= Cardinality({p \in Nodes : p[1] # t /\ p[2] <= done[p[1]]})
=============================================================================
