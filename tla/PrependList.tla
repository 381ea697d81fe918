---------------------------- MODULE PrependList ----------------------------
(***************************************************************************)
(* What LockFreeList promises: a list to which threads prepend, one node   *)
(* at a time, each thread its own nodes in order.                          *)
(***************************************************************************)
EXTENDS Naturals, Sequences

CONSTANTS Threads, Inserts

VARIABLE list   \* the nodes from the head on: <<thread, number of its insert>>

Inserted(t) == {i \in 1 .. Len(list) : list[i][1] = t}

Init == list = <<>>

Insert(t, i) ==
  /\ {list[j][2] : j \in Inserted(t)} = 1 .. i - 1
  /\ list' = <<<<t, i>>>> \o list

Next == \E t \in Threads, i \in 1 .. Inserts : Insert(t, i)

Spec == Init /\ [][Next]_list
=============================================================================
