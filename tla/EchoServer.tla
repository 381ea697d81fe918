----------------------------- MODULE EchoServer -----------------------------
(***************************************************************************)
(* boost_TCP/main.cpp: Server accepts for ever; a Session reads what there *)
(* is, writes it back, and reads again.  io.run() runs the handlers one at *)
(* a time, in one thread, so a completion and its handler are one step.    *)
(* A handler holds a shared pointer to its Session: when no operation is   *)
(* pending the Session and its socket are destroyed.                       *)
(*                                                                         *)
(* Asio and TCP are modelled from their use: async_read_some completes     *)
(* with at least one byte or an error, async_write after everything is     *)
(* written or with an error, and each direction of a connection is a queue *)
(* of bounded length.  The i-th byte a client sends is the number i.       *)
(***************************************************************************)
EXTENDS Naturals, Sequences

CONSTANTS
  Clients,
  Polite,     \* the clients that keep reading
  BufSize,    \* bytes in data_ (1024)
  SockBuf,    \* bytes that a direction of a connection holds
  MaxBytes    \* bound on the bytes that a client sends

ASSUME EchoAssumption ==
  /\ Polite \subseteq Clients
  /\ BufSize \in Nat \ {0} /\ SockBuf \in Nat \ {0} /\ MaxBytes \in Nat

VARIABLES
  accepting,   \* whether an async_accept is pending
  conn,        \* the connection of each client
  side,        \* the client's end of it
  inbox, outbox,
  ops,         \* the pending operations of the client's Session
  data, wrote, \* the bytes of data_ being written, and how many are
  sent, got    \* how many bytes the client has sent and received

vars == <<accepting, conn, side, inbox, outbox, ops, data, wrote, sent, got>>

Least(m, n) == IF m < n THEN m ELSE n

Init ==
  /\ accepting = TRUE
  /\ conn = [c \in Clients |-> "none"]
  /\ side = [c \in Clients |-> "open"]
  /\ inbox = [c \in Clients |-> <<>>] /\ outbox = [c \in Clients |-> <<>>]
  /\ ops = [c \in Clients |-> {}]
  /\ data = [c \in Clients |-> <<>>] /\ wrote = [c \in Clients |-> 0]
  /\ sent = [c \in Clients |-> 0] /\ got = [c \in Clients |-> 0]

-----------------------------------------------------------------------------
(* The clients.                                                            *)

Connect(c) ==
  /\ conn[c] = "none"
  /\ conn' = [conn EXCEPT ![c] = "backlog"]
  /\ UNCHANGED <<accepting, side, inbox, outbox, ops, data, wrote, sent, got>>

Send(c) ==
  /\ conn[c] \in {"backlog", "open"} /\ side[c] = "open"
  /\ Len(inbox[c]) < SockBuf /\ sent[c] < MaxBytes
  /\ sent' = [sent EXCEPT ![c] = @ + 1]
  /\ inbox' = [inbox EXCEPT ![c] = Append(@, sent[c] + 1)]
  /\ UNCHANGED <<accepting, conn, side, outbox, ops, data, wrote, got>>

Receive(c) ==
  /\ side[c] # "gone" /\ outbox[c] # <<>>
  /\ outbox' = [outbox EXCEPT ![c] = Tail(@)]
  /\ got' = [got EXCEPT ![c] = @ + 1]
  /\ UNCHANGED <<accepting, conn, side, inbox, ops, data, wrote, sent>>

\* A client ends its sending direction, or closes or resets the connection.
Leave(c, how) ==
  /\ conn[c] \in {"backlog", "open"}
  /\ \/ how = "shut" /\ side[c] = "open"
     \/ how = "gone" /\ side[c] # "gone"
  /\ side' = [side EXCEPT ![c] = how]
  /\ UNCHANGED <<accepting, conn, inbox, outbox, ops, data, wrote, sent, got>>

-----------------------------------------------------------------------------
(* The server.                                                             *)

\* Wrong variant: accept() is called again in the branch without an error.
RearmIfAccepted(ok) == ok

\* Whether the handler calls accept() again.
Rearm(ok) == TRUE

Accept(c) ==
  /\ accepting
  /\ conn[c] = "backlog"
  /\ conn' = [conn EXCEPT ![c] = "open"]
  /\ ops' = [ops EXCEPT ![c] = {"read"}]
  /\ accepting' = Rearm(TRUE)
  /\ UNCHANGED <<side, inbox, outbox, data, wrote, sent, got>>

\* For want of a descriptor, say: the connection stays in the backlog.
AcceptFails ==
  /\ accepting
  /\ \E c \in Clients : conn[c] = "backlog"
  /\ accepting' = Rearm(FALSE)
  /\ UNCHANGED <<conn, side, inbox, outbox, ops, data, wrote, sent, got>>

\* Wrong variant: the next read does not wait for the write.
WriteAndRead == {"write", "read"}

\* Wrong variant: the session ends after a write.
NoMore == {}

\* What the handlers of a read and of a write start.
AfterRead  == {"write"}
AfterWrite == {"read"}

\* Wrong variant: read() is called again whatever the error.
RetryRead == {"read"}

AfterError == {}

\* An operation of a Session has ended and its handler has started others; if
\* none is pending, the last shared pointer is gone.
Handled(c, op, started) ==
  LET pending == (ops[c] \ {op}) \cup started
  IN  /\ ops' = [ops EXCEPT ![c] = pending]
      /\ conn' = [conn EXCEPT ![c] = IF pending = {} THEN "closed" ELSE @]

ReadDone(c) ==
  /\ "read" \in ops[c]
  /\ \E n \in 1 .. Least(BufSize, Len(inbox[c])) :
       /\ data' = [data EXCEPT ![c] = SubSeq(inbox[c], 1, n)]
       /\ inbox' = [inbox EXCEPT ![c] = SubSeq(@, n + 1, Len(@))]
  /\ wrote' = [wrote EXCEPT ![c] = 0]
  /\ Handled(c, "read", AfterRead)
  /\ UNCHANGED <<accepting, side, outbox, sent, got>>

\* End of file once everything was read; an error when the client is gone.
ReadFails(c) ==
  /\ "read" \in ops[c]
  /\ \/ side[c] = "gone"
     \/ side[c] = "shut" /\ inbox[c] = <<>>
  /\ Handled(c, "read", AfterError)
  /\ UNCHANGED <<accepting, side, inbox, outbox, data, wrote, sent, got>>

\* async_write moves what there is room for; its handler runs after the last.
WriteSome(c) ==
  /\ "write" \in ops[c]
  /\ \E n \in 1 .. Least(SockBuf - Len(outbox[c]), Len(data[c]) - wrote[c]) :
       /\ outbox' = [outbox EXCEPT ![c] = @ \o SubSeq(data[c], wrote[c] + 1, wrote[c] + n)]
       /\ wrote' = [wrote EXCEPT ![c] = @ + n]
       /\ \/ wrote[c] + n < Len(data[c]) /\ UNCHANGED <<ops, conn>>
          \/ wrote[c] + n = Len(data[c]) /\ Handled(c, "write", AfterWrite)
  /\ UNCHANGED <<accepting, side, inbox, data, sent, got>>

WriteFails(c) ==
  /\ "write" \in ops[c]
  /\ side[c] = "gone"
  /\ Handled(c, "write", AfterError)
  /\ UNCHANGED <<accepting, side, inbox, outbox, data, wrote, sent, got>>

Serve(c) == ReadDone(c) \/ ReadFails(c) \/ WriteSome(c) \/ WriteFails(c)

Next ==
  \/ \E c \in Clients : \/ Connect(c) \/ Send(c) \/ Receive(c)
                        \/ \E how \in {"shut", "gone"} : Leave(c, how)
                        \/ Accept(c) \/ Serve(c)
  \/ AcceptFails

Spec == Init /\ [][Next]_vars

\* The io_context runs every handler that is ready, and descriptors are not
\* short for ever.  Only polite clients need read.
FairSpec ==
  /\ Spec
  /\ \A c \in Clients : WF_vars(Accept(c)) /\ WF_vars(Serve(c))
  /\ \A c \in Polite : WF_vars(Receive(c))

-----------------------------------------------------------------------------
(* Properties.                                                             *)

TypeOK ==
  /\ accepting \in BOOLEAN
  /\ conn \in [Clients -> {"none", "backlog", "open", "closed"}]
  /\ side \in [Clients -> {"open", "shut", "gone"}]
  /\ \A c \in Clients :
       /\ inbox[c] \in Seq(1 .. sent[c]) /\ Len(inbox[c]) <= SockBuf
       /\ outbox[c] \in Seq(1 .. sent[c]) /\ Len(outbox[c]) <= SockBuf
       /\ data[c] \in Seq(1 .. sent[c]) /\ Len(data[c]) <= BufSize
       /\ wrote[c] \in 0 .. Len(data[c])
       /\ ops[c] \in {{}, {"read"}, {"write"}}
       /\ sent[c] \in 0 .. MaxBytes /\ got[c] \in 0 .. sent[c]

\* What a client will receive next is what it has sent and not received yet, in
\* order and without a gap: first what is on its way back, then what is left
\* of data_, then what was not read.  data_ is never overwritten too early: a
\* Session never has two operations pending.
EchoesInOrder ==
  /\ TypeOK
  /\ \A c \in Clients : conn[c] # "closed" =>
       outbox[c] \o SubSeq(data[c], wrote[c] + 1, Len(data[c])) \o inbox[c]
         = [i \in 1 .. sent[c] - got[c] |-> got[c] + i]

\* A session ends only when its client is gone, or has said that it will send
\* no more and everything it sent was echoed.
EndsComplete ==
  [][\A c \in Clients : conn[c] = "open" /\ conn'[c] = "closed" =>
       \/ side[c] = "gone"
       \/ side[c] = "shut" /\ got[c] + Len(outbox[c]) = sent[c]]_vars

\* A polite client gets back all it sent, whatever the others do: one that does
\* not read stalls nobody but itself, an accept that fails is not the last.
Echoed ==
  \A c \in Polite : \A k \in 1 .. MaxBytes :
    sent[c] >= k ~> (got[c] >= k \/ side[c] = "gone")

\* Nothing is kept of a client that has left.
SessionsEnd ==
  \A c \in Clients : conn[c] # "none" /\ side[c] = "gone" ~> conn[c] = "closed"
=============================================================================
