-------------------------------- MODULE Arena --------------------------------
(***************************************************************************)
(* L5/memory_allocator.cpp: MemoryPool hands out a buffer from its start to*)
(* its end and takes nothing back.  A block is what getMemory returned, as *)
(* the record of its first byte and the byte after its last.               *)
(***************************************************************************)
EXTENDS Integers

CONSTANTS
  SIZE,     \* 2^30
  Wrap,     \* 2^64: offset and bytesNeeded are unsigned
  Requests  \* what the program asks for, in bytes

\* offset + bytesNeeded cannot wrap around: nobody asks for nearly 2^64 bytes.
ASSUME ArenaAssumption ==
  /\ SIZE \in Nat /\ Wrap \in Nat
  /\ Requests \subseteq Nat
  /\ \A n \in Requests : n + SIZE < Wrap

VARIABLES offset, blocks

vars == <<offset, blocks>>

Block == [from : 0 .. SIZE, to : 0 .. SIZE]

Init == offset = 0 /\ blocks = {}

\* Wrong variant: the size of the request is left out.
StartFits(n) == offset <= SIZE

Fits(n) == (offset + n) % Wrap <= SIZE

\* Wrong variants: one byte short; rounded up to an even address.
AdvanceShort(n) == IF n = 0 THEN offset ELSE offset + n - 1
AdvanceEven(n)  == offset + n + (n % 2)

Advance(n) == (offset + n) % Wrap

\* nullptr when it does not fit, and nothing changes.
GetMemory(n) ==
  IF Fits(n)
  THEN /\ blocks' = blocks \cup {[from |-> offset, to |-> offset + n]}
       /\ offset' = Advance(n)
  ELSE UNCHANGED vars

Next == \E n \in Requests : GetMemory(n)

Spec == Init /\ [][Next]_vars

-----------------------------------------------------------------------------
(* Properties.                                                             *)

\* Every block lies in the buffer, below the offset.
TypeOK ==
  /\ offset \in 0 .. SIZE
  /\ blocks \subseteq Block
  /\ \A b \in blocks : b.from <= b.to /\ b.to <= offset

\* No byte is handed out twice, whatever was asked for and refused before.
Disjoint == \A b, c \in blocks : b = c \/ b.to <= c.from \/ c.to <= b.from

\* No byte is lost between blocks either: all below the offset is in one.
NoGap == \A x \in 0 .. offset - 1 : \E b \in blocks : b.from <= x /\ x < b.to

\* Whatever was asked for, granted and refused: the blocks cover the buffer up
\* to the offset, and no byte belongs to two of them or lies outside.
Tiled == TypeOK /\ Disjoint /\ NoGap
=============================================================================
