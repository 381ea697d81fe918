----------------------------- MODULE MarketFeed -----------------------------
(***************************************************************************)
(* L1/mocks: dummy_market_server.py packs one record after another onto a  *)
(* TCP stream, for the one client it accepts; MarketFeed.java and          *)
(* MarketFeed.cpp read a fixed number of records.  (How they interpret the *)
(* bytes of a record is not modelled.)                                     *)
(*                                                                         *)
(* The stream is modelled in units of four bytes: a record is a timestamp  *)
(* and a price of two units each, low unit first (struct.pack in native    *)
(* order on a little-endian machine), and a volume of one.  TCP is external*)
(* and modelled from its use: it keeps the order and nothing else, a send  *)
(* and a read move any positive number of units.                           *)
(***************************************************************************)
EXTENDS Integers, Sequences, FiniteSets

CONSTANTS
  Readers, Nobody,
  ReadsFully,  \* TRUE for MarketFeed.java, FALSE for MarketFeed.cpp
  BufUnits,    \* size of the reader's buffer: 5 in Java, 6 in C++
  Records,     \* how many records a reader wants (1000000)
  Pipe,        \* units that the connection holds
  Base         \* the values of a unit (2^32)

ASSUME FeedAssumption ==
  /\ Nobody \notin Readers
  /\ ReadsFully \in BOOLEAN
  /\ BufUnits \in Nat /\ BufUnits >= 5
  /\ Records \in Nat \ {0} /\ Pipe \in Nat \ {0} /\ Base \in Nat \ {0, 1}

VARIABLES
  server,   \* "down", "listening", "serving" or "ended"
  served,   \* the reader whose connection was accepted
  made,     \* how many records were packed
  left,     \* the units of the last one that sendall still has to send
  stream,   \* what is on its way
  state,    \* of each reader: "new", "connected", "done" or "failed"
  buffer,
  pos,      \* units of the buffer that readFully has filled
  count     \* records parsed

vars == <<server, served, made, left, stream, state, buffer, pos, count>>

-----------------------------------------------------------------------------
(* The record.                                                             *)

Low(v)  == v % Base
High(v) == (v \div Base) % Base

\* The i-th record: the clock goes on, the price oscillates.
Timestamp(i) == i
Price(i)     == i % 2
Volume       == 1

Pack(i) == <<Low(Timestamp(i)), High(Timestamp(i)), Low(Price(i)), High(Price(i)), Volume>>

-----------------------------------------------------------------------------
(* The server.                                                             *)

Init ==
  /\ server = "down" /\ served = Nobody
  /\ made = 0 /\ left = <<>> /\ stream = <<>>
  /\ state = [r \in Readers |-> "new"]
  /\ buffer = [r \in Readers |-> [u \in 1 .. BufUnits |-> 0]]
  /\ pos = [r \in Readers |-> 0] /\ count = [r \in Readers |-> 0]

Listen ==
  /\ server = "down"
  /\ server' = "listening"
  /\ UNCHANGED <<served, made, left, stream, state, buffer, pos, count>>

\* The first client; those that connect after it stay in the backlog.
Accept(r) ==
  /\ server = "listening" /\ state[r] = "connected"
  /\ server' = "serving" /\ served' = r
  /\ made' = 1 /\ left' = Pack(1)
  /\ UNCHANGED <<stream, state, buffer, pos, count>>

\* sendall sends the rest of a record, in as many pieces as it takes.
SendSome ==
  /\ server = "serving" /\ state[served] = "connected"
  /\ \E n \in 1 .. Len(left) :
       /\ Len(stream) + n <= Pipe
       /\ stream' = stream \o SubSeq(left, 1, n)
       /\ \/ n < Len(left) /\ left' = SubSeq(left, n + 1, Len(left)) /\ made' = made
          \/ n = Len(left) /\ left' = Pack(made + 1) /\ made' = made + 1
  /\ UNCHANGED <<server, served, state, buffer, pos, count>>

\* Wrong variant: the server goes on after the exception.
KeepsServing == "serving"

\* What the server is after ConnectionResetError or BrokenPipeError.
AfterDisconnect == "ended"

SendFails ==
  /\ server = "serving" /\ state[served] # "connected"
  /\ server' = AfterDisconnect
  /\ UNCHANGED <<served, made, left, stream, state, buffer, pos, count>>

\* The process is interrupted; its sockets are closed.
Kill ==
  /\ server \in {"listening", "serving"}
  /\ server' = "ended"
  /\ UNCHANGED <<served, made, left, stream, state, buffer, pos, count>>

-----------------------------------------------------------------------------
(* The readers.                                                            *)

\* The connection is refused unless the server listens.
Connect(r) ==
  /\ state[r] = "new"
  /\ state' = [state EXCEPT
       ![r] = IF server \in {"listening", "serving"} THEN "connected" ELSE "failed"]
  /\ UNCHANGED <<server, served, made, left, stream, buffer, pos, count>>

\* One record was parsed: the loop goes on or ends, and the socket is closed.
Parsed(r) ==
  /\ pos' = [pos EXCEPT ![r] = 0]
  /\ count' = [count EXCEPT ![r] = @ + 1]
  /\ state' = [state EXCEPT ![r] = IF count'[r] = Records THEN "done" ELSE @]

Put(r, n) ==
  [u \in 1 .. BufUnits |->
     IF u \in pos[r] + 1 .. pos[r] + n THEN stream[u - pos[r]] ELSE buffer[r][u]]

\* Wrong variant: every read of readFully asks for the whole buffer.
WholeBuffer(r) == BufUnits

\* How much a read asks for.
Room(r) == BufUnits - pos[r]

\* Wrong variant: readFully takes a read for a record.
Always(filled) == TRUE

\* Whether what was read so far is handed to parse.
Complete(filled) == ReadsFully => filled = BufUnits

Read(r) ==
  /\ state[r] = "connected" /\ served = r
  /\ \E n \in 1 .. Room(r) :
       /\ n <= Len(stream)
       /\ buffer' = [buffer EXCEPT ![r] = Put(r, n)]
       /\ stream' = SubSeq(stream, n + 1, Len(stream))
       /\ \/ Complete(pos[r] + n) /\ Parsed(r)
          \/ /\ ~Complete(pos[r] + n)
             /\ pos' = [pos EXCEPT ![r] = @ + n]
             /\ UNCHANGED <<count, state>>
  /\ UNCHANGED <<server, served, made, left>>

\* Wrong variant: a short record at the end of the stream is parsed as well.
ParsesRest(r) == Parsed(r) /\ UNCHANGED buffer

\* EOFException or a reset connection end the Java program; the C++ program
\* does not look at what read returns and parses the buffer as it is.
OnEnd(r) ==
  IF ReadsFully THEN state' = [state EXCEPT ![r] = "failed"] /\ UNCHANGED <<buffer, pos, count>>
                ELSE Parsed(r) /\ UNCHANGED buffer

ReadEnds(r) ==
  /\ state[r] = "connected" /\ server = "ended"
  /\ served = r => stream = <<>>
  /\ OnEnd(r)
  /\ UNCHANGED <<server, served, made, left, stream>>

Step(r) == Connect(r) \/ Read(r) \/ ReadEnds(r)

Serving == SendSome \/ SendFails \/ \E r \in Readers : Accept(r)

Next == Listen \/ Serving \/ Kill \/ \E r \in Readers : Step(r)

Spec == Init /\ [][Next]_vars

\* Every program runs on; the server need not be started, or interrupted.
FairSpec == Spec /\ WF_vars(Serving) /\ \A r \in Readers : WF_vars(Step(r))

-----------------------------------------------------------------------------
(* Properties.                                                             *)

TypeOK ==
  /\ server \in {"down", "listening", "serving", "ended"}
  /\ served \in Readers \cup {Nobody}
  /\ made \in Nat /\ Len(left) <= 5
  /\ Len(stream) <= Pipe
  /\ state \in [Readers -> {"new", "connected", "done", "failed"}]
  /\ buffer \in [Readers -> [1 .. BufUnits -> 0 .. Base - 1]]
  /\ pos \in [Readers -> 0 .. BufUnits - 1]
  /\ count \in [Readers -> 0 .. Records]

\* The k-th frame that a reader parses is the k-th record, whole: however the
\* stream is cut into reads, and however the server ends.
FramesWhole ==
  [][\A r \in Readers : count'[r] # count[r] =>
       SubSeq(buffer'[r], 1, 5) = Pack(count'[r])]_vars

\* How many units have been read off the stream.
Consumed == 5 * made - Len(left) - Len(stream)

\* A read that fills the buffer of MarketFeed.cpp is one record ("8+8+4 = 20
\* bytes", dummy_market_server.py:14): as long as every read has filled it,
\* the k-th frame is the k-th record.
FullReadsWhole ==
  [][\A r \in Readers :
       /\ served = r /\ count'[r] # count[r]
       /\ Consumed' = BufUnits * count'[r]
       => SubSeq(buffer'[r], 1, 5) = Pack(count'[r])]_vars

\* The sender's and the reader's place in the stream agree: what the reader has
\* of the next record, what is on its way and what sendall has left are the
\* records from the one the reader waits for to the last one packed.
PlacesAgree ==
  /\ TypeOK
  /\ \A r \in Readers : served = r /\ state[r] = "connected" =>
       LET pending == SubSeq(buffer[r], 1, pos[r]) \o stream \o left
       IN  /\ Len(pending) = 5 * (made - count[r])
           /\ \A k \in 0 .. Len(pending) - 1 :
                pending[k + 1] = Pack(count[r] + 1 + (k \div 5))[1 + (k % 5)]

\* Nobody waits for ever: a reader that is connected ends, the one that is
\* served as well as one that was never accepted, and then so does the server.
EverybodyEnds ==
  /\ \A r \in Readers : state[r] = "connected" ~> state[r] \in {"done", "failed"}
  /\ server = "serving" ~> server = "ended"
=============================================================================
