------------------------------- MODULE FileTail -------------------------------
(***************************************************************************)
(* file_descriptors/main.cpp: writers put the same word into a file, each  *)
(* from the file's start on, and readers print what they find past their   *)
(* own offset, for ever.  The file is external: open creates it, a         *)
(* descriptor has an offset of its own, a write at an offset replaces what *)
(* is there or extends the file.  Any process may be killed and started    *)
(* again.  The i-th letter of the word is the number i.                    *)
(***************************************************************************)
EXTENDS Naturals, Sequences, FiniteSetsExt

CONSTANTS
  Writers, Readers,
  WordLen,   \* 5, the letters of "hello"
  ReadLen,   \* 1024, the most that one read returns
  MaxWords,  \* bound on the words that one writer writes
  MaxKills   \* bound on the kills

\* What the model asks of the constants.
TailAssumption ==
  /\ Writers \cap Readers = {}
  /\ WordLen \in Nat \ {0} /\ ReadLen \in Nat \ {0}
  /\ MaxWords \in Nat /\ MaxKills \in Nat

Processes == Writers \cup Readers

VARIABLES
  file,     \* its bytes
  mode,     \* "absent", "usable" or "denied"
  state,    \* of each process: "off", "open", or "bad" when open returned -1
  offset,   \* of its descriptor
  printed,  \* what a reader has printed since it was started
  kills

vars == <<file, mode, state, offset, printed, kills>>

Init ==
  /\ file = <<>> /\ mode = "absent"
  /\ state = [p \in Processes |-> "off"]
  /\ offset = [p \in Processes |-> 0]
  /\ printed = [p \in Readers |-> <<>>]
  /\ kills = 0

\* A writer creates the file with mode 0777; a reader passes no mode with
\* O_CREAT, and the file it creates gets whatever permissions the missing
\* argument holds.  Its own descriptor is good all the same.
Created(p) == IF p \in Writers THEN {"usable"} ELSE {"usable", "denied"}

Open(p) ==
  /\ state[p] = "off"
  /\ \/ mode = "absent" /\ mode' \in Created(p) /\ state' = [state EXCEPT ![p] = "open"]
     \/ mode = "usable" /\ mode' = mode /\ state' = [state EXCEPT ![p] = "open"]
     \/ mode = "denied" /\ mode' = mode /\ state' = [state EXCEPT ![p] = "bad"]
  /\ offset' = [offset EXCEPT ![p] = 0]
  /\ UNCHANGED <<file, printed, kills>>

Word == [i \in 1 .. WordLen |-> i]

\* The file after a write at an offset, which is never past its end.
Overwritten(at, bytes) ==
  SubSeq(file, 1, at) \o bytes \o SubSeq(file, at + Len(bytes) + 1, Len(file))

Write(w) ==
  /\ state[w] = "open" /\ offset[w] < MaxWords * WordLen
  /\ file' = Overwritten(offset[w], Word)
  /\ offset' = [offset EXCEPT ![w] = @ + WordLen]
  /\ UNCHANGED <<mode, state, printed, kills>>

\* Wrong variant: the loop keeps the last byte back, as for a terminating zero.
ShownButLast(r, bytes) == SubSeq(file, offset[r] + 1, offset[r] + bytes - 1)

\* What the loop over the buffer prints: each of the bytes that read put there.
Shown(r, bytes) == SubSeq(file, offset[r] + 1, offset[r] + bytes)

\* bytes <= 0 at the end of the file, and with no descriptor: the loop goes on.
Read(r) ==
  /\ state[r] = "open" /\ offset[r] < Len(file)
  /\ LET n == Min({ReadLen, Len(file) - offset[r]})
     IN  /\ printed' = [printed EXCEPT ![r] = @ \o Shown(r, n)]
         /\ offset' = [offset EXCEPT ![r] = @ + n]
  /\ UNCHANGED <<file, mode, state, kills>>

Kill(p) ==
  /\ state[p] # "off" /\ kills < MaxKills
  /\ state' = [state EXCEPT ![p] = "off"]
  /\ printed' = [r \in Readers |-> IF r = p THEN <<>> ELSE printed[r]]
  /\ kills' = kills + 1
  /\ UNCHANGED <<file, mode, offset>>

Next ==
  \/ \E p \in Processes : Open(p) \/ Kill(p)
  \/ \E w \in Writers : Write(w)
  \/ \E r \in Readers : Read(r)

Spec == Init /\ [][Next]_vars

-----------------------------------------------------------------------------
(* Properties.                                                             *)

TypeOK ==
  /\ file \in Seq(1 .. WordLen) /\ mode \in {"absent", "usable", "denied"}
  /\ state \in [Processes -> {"off", "open", "bad"}]
  /\ \A p \in Processes : offset[p] <= Len(file)
  /\ kills \in 0 .. MaxKills

\* Whoever starts, is killed and starts again over what is there, a reader
\* prints the words one after the other, with no letter lost or repeated, and
\* the file never gets shorter than what somebody has read or written of it.
PrintsWords ==
  /\ TypeOK
  /\ \A r \in Readers :
       /\ \A i \in 1 .. Len(printed[r]) : printed[r][i] = 1 + ((i - 1) % WordLen)
       /\ state[r] = "open" => Len(printed[r]) = offset[r]
=============================================================================
