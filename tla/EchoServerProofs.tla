--------------------------- MODULE EchoServerProofs ---------------------------
(***************************************************************************)
(* Proofs about EchoServer, for every set of clients, every size of the    *)
(* session's buffer and of the sockets', and every number of bytes.        *)
(***************************************************************************)
EXTENDS EchoServer, Integers, SequenceTheorems, TLAPS

-----------------------------------------------------------------------------
(* One session: a client's connection cn, the bytes on their way in and    *)
(* out, the operations os pending, the wr bytes written of data da, and    *)
(* the numbers of bytes the client has sent, se, and got, go.              *)

\* What is not back is somewhere, once.
Sizes(in, out, da, wr, se, go) ==
  /\ se \in Nat /\ go \in Nat /\ wr \in Nat
  /\ Len(in) \in Nat /\ Len(out) \in Nat /\ Len(da) \in Nat
  /\ Len(in) <= SockBuf /\ Len(out) <= SockBuf /\ Len(da) <= BufSize
  /\ wr <= Len(da) /\ se <= MaxBytes
  /\ Len(out) + (Len(da) - wr) + Len(in) = se - go

Typed(in, out, da, se) ==
  in \in Seq(1 .. se) /\ out \in Seq(1 .. se) /\ da \in Seq(1 .. se)

\* One operation is pending as long as there is a session; only during a write
\* is there anything left in data.
Pending(cn, os, da, wr) ==
  /\ os \in {{}, {"read"}, {"write"}} /\ (os = {} <=> cn # "open")
  /\ os = {"write"} => wr < Len(da)
  /\ os # {"write"} /\ cn # "closed" => wr = Len(da)

\* The bytes on their way out come first, then what is left of data, then the
\* bytes on their way in.
Ordered(in, out, da, wr, go) ==
  /\ \A i \in 1 .. Len(out) : out[i] = go + i
  /\ \A i \in 1 .. Len(da) - wr : da[wr + i] = go + Len(out) + i
  /\ \A i \in 1 .. Len(in) : in[i] = go + Len(out) + (Len(da) - wr) + i

Session(cn, in, out, os, da, wr, se, go) ==
  /\ Sizes(in, out, da, wr, se, go) /\ Typed(in, out, da, se)
  /\ Pending(cn, os, da, wr) /\ Ordered(in, out, da, wr, go)

LEMMA Constants ==
  MaxBytes \in Nat /\ BufSize \in Nat \ {0} /\ SockBuf \in Nat \ {0}
BY EchoAssumption

\* The n elements of a sequence after the m-th.
LEMMA Part ==
  ASSUME NEW S, NEW s \in Seq(S), NEW m \in Nat, NEW n \in Nat, m + n <= Len(s)
  PROVE  /\ SubSeq(s, m + 1, m + n) \in Seq(S) /\ Len(SubSeq(s, m + 1, m + n)) = n
         /\ \A i \in 1 .. n : SubSeq(s, m + 1, m + n)[i] = s[m + i]
<1> DEFINE k == m + 1
           l == m + n
           part == SubSeq(s, k, l)
<1>1. k \in Int /\ l \in Int /\ \A i \in k .. l : s[i] \in S
  BY ElementOfSeq, LenProperties
<1>2. l - k + 1 = n /\ (k <= l <=> n # 0) /\ \A i \in 1 .. n : k + i - 1 = m + i
  OBVIOUS
<1> HIDE DEF k, l
<1>3. /\ part \in Seq(S)
      /\ Len(part) = IF k <= l THEN l - k + 1 ELSE 0
      /\ \A i \in 1 .. l - k + 1 : part[i] = s[k + i - 1]
  BY <1>1, SubSeqProperties
<1> HIDE DEF part
<1>4. part \in Seq(S) /\ Len(part) = n /\ \A i \in 1 .. n : part[i] = s[m + i]
  BY <1>2, <1>3
<1> QED
  BY <1>4 DEF part, k, l

LEMMA SendSession ==
  ASSUME NEW cn, NEW in, NEW out, NEW os, NEW da, NEW wr, NEW se, NEW go,
         Session(cn, in, out, os, da, wr, se, go), Len(in) < SockBuf, se < MaxBytes
  PROVE  Session(cn, Append(in, se + 1), out, os, da, wr, se + 1, go)
<1>1. /\ Sizes(in, out, da, wr, se, go) /\ Typed(in, out, da, se)
      /\ Pending(cn, os, da, wr) /\ Ordered(in, out, da, wr, go)
  BY DEF Session
<1>2. in \in Seq(1 .. se + 1) /\ out \in Seq(1 .. se + 1) /\ da \in Seq(1 .. se + 1)
  <2>1. 1 .. se \subseteq 1 .. se + 1
    BY <1>1 DEF Sizes
  <2> QED
    BY <1>1, <2>1, SeqMonotonic DEF Typed
<1> DEFINE new == Append(in, se + 1)
<1>3. /\ new \in Seq(1 .. se + 1) /\ Len(new) = Len(in) + 1
      /\ \A i \in 1 .. Len(in) : new[i] = in[i]
      /\ new[Len(in) + 1] = se + 1
  <2>1. se + 1 \in 1 .. se + 1
    BY <1>1 DEF Sizes
  <2> QED
    BY <1>2, <2>1, AppendProperties
<1> HIDE DEF new
<1>4. Sizes(new, out, da, wr, se + 1, go)
  BY <1>1, <1>3, Constants DEF Sizes
<1>5. Ordered(new, out, da, wr, go)
  <2>1. ASSUME NEW i \in 1 .. Len(new)
        PROVE  new[i] = go + Len(out) + (Len(da) - wr) + i
    <3>1. CASE i = Len(in) + 1
      BY <1>1, <1>3, <3>1 DEF Sizes
    <3>2. CASE i # Len(in) + 1
      <4>1. i \in 1 .. Len(in)
        BY <1>1, <1>3, <3>2 DEF Sizes
      <4> QED
        BY <1>1, <1>3, <4>1 DEF Ordered
    <3> QED
      BY <3>1, <3>2
  <2> QED
    BY <1>1, <2>1 DEF Ordered
<1> QED
  BY <1>1, <1>2, <1>3, <1>4, <1>5 DEF Session, Typed, new

LEMMA ReceiveSession ==
  ASSUME NEW cn, NEW in, NEW out, NEW os, NEW da, NEW wr, NEW se, NEW go,
         Session(cn, in, out, os, da, wr, se, go), out # <<>>
  PROVE  Session(cn, in, Tail(out), os, da, wr, se, go + 1)
<1>1. /\ Sizes(in, out, da, wr, se, go) /\ Typed(in, out, da, se)
      /\ Pending(cn, os, da, wr) /\ Ordered(in, out, da, wr, go)
  BY DEF Session
<1>2. Len(out) > 0
  BY <1>1, EmptySeq DEF Typed
<1> DEFINE rest == Tail(out)
<1>3. /\ rest \in Seq(1 .. se) /\ Len(rest) = Len(out) - 1
      /\ \A i \in 1 .. Len(rest) : rest[i] = out[i + 1]
  BY <1>1, HeadTailProperties DEF Typed
<1> HIDE DEF rest
<1>4. Sizes(in, rest, da, wr, se, go + 1)
  BY <1>1, <1>2, <1>3, Constants DEF Sizes
<1>5. Ordered(in, rest, da, wr, go + 1)
  <2>1. ASSUME NEW i \in 1 .. Len(rest)
        PROVE  rest[i] = (go + 1) + i
    <3>1. i + 1 \in 1 .. Len(out)
      BY <1>1, <1>3 DEF Sizes
    <3>2. out[i + 1] = go + (i + 1)
      BY <1>1, <3>1 DEF Ordered
    <3> QED
      BY <1>1, <1>3, <3>2 DEF Sizes
  <2>2. \A i \in Int : (go + 1) + Len(rest) + i = go + Len(out) + i
    BY <1>1, <1>3 DEF Sizes
  <2>3. \A i \in Int : (go + 1) + Len(rest) + (Len(da) - wr) + i = go + Len(out) + (Len(da) - wr) + i
    BY <1>1, <1>3 DEF Sizes
  <2> QED
    BY <1>1, <2>1, <2>2, <2>3 DEF Ordered
<1> QED
  BY <1>1, <1>3, <1>4, <1>5 DEF Session, Typed, rest

LEMMA ReadSession ==
  ASSUME NEW cn, NEW in, NEW out, NEW os, NEW da, NEW wr, NEW se, NEW go,
         Session(cn, in, out, os, da, wr, se, go), os = {"read"},
         NEW n \in 1 .. Len(in), n <= BufSize
  PROVE  Session(cn, SubSeq(in, n + 1, Len(in)), out, {"write"}, SubSeq(in, 1, n), 0, se, go)
<1>1. /\ Sizes(in, out, da, wr, se, go) /\ Typed(in, out, da, se)
      /\ Pending(cn, os, da, wr) /\ Ordered(in, out, da, wr, go)
  BY DEF Session
<1>2. in \in Seq(1 .. se) /\ wr = Len(da) /\ cn = "open" /\ {"read"} # {"write"} /\ {"write"} # {}
  BY <1>1 DEF Typed, Pending
<1> DEFINE rest == SubSeq(in, n + 1, Len(in))
           first == SubSeq(in, 1, n)
<1>3. /\ first \in Seq(1 .. se) /\ Len(first) = n
      /\ \A i \in 1 .. n : first[i] = in[i]
  <2>1. 0 \in Nat /\ n \in Nat /\ 0 + n <= Len(in) /\ 0 + 1 = 1 /\ 0 + n = n
    BY <1>1 DEF Sizes
  <2>2. /\ SubSeq(in, 0 + 1, 0 + n) \in Seq(1 .. se) /\ Len(SubSeq(in, 0 + 1, 0 + n)) = n
        /\ \A i \in 1 .. n : SubSeq(in, 0 + 1, 0 + n)[i] = in[0 + i]
    BY <1>2, <2>1, Part, ZenonT(40)
  <2> QED
    BY <2>1, <2>2
<1>4. /\ rest \in Seq(1 .. se) /\ Len(rest) = Len(in) - n
      /\ \A i \in 1 .. Len(in) - n : rest[i] = in[n + i]
  <2> DEFINE m == Len(in) - n
  <2>1. n \in Nat /\ m \in Nat /\ n + m <= Len(in) /\ n + m = Len(in)
    BY <1>1 DEF Sizes
  <2> HIDE DEF m
  <2>2. /\ SubSeq(in, n + 1, n + m) \in Seq(1 .. se) /\ Len(SubSeq(in, n + 1, n + m)) = m
        /\ \A i \in 1 .. m : SubSeq(in, n + 1, n + m)[i] = in[n + i]
    BY <1>2, <2>1, Part, ZenonT(40)
  <2> QED
    BY <2>1, <2>2 DEF m
<1> HIDE DEF first, rest
<1>5. Sizes(rest, out, first, 0, se, go)
  <2>1. /\ Len(first) \in Nat /\ Len(rest) \in Nat /\ Len(rest) <= SockBuf
        /\ Len(out) + (Len(da) - wr) + Len(in) = se - go
    BY <1>1, <1>3, <1>4, Constants DEF Sizes
  <2>2. Len(out) + (Len(first) - 0) + Len(rest) = se - go
    <3>1. Len(out) \in Nat /\ Len(in) \in Nat /\ Len(da) \in Nat /\ n \in Nat
      BY <1>1 DEF Sizes
    <3>2. Len(da) - wr = 0 /\ Len(first) - 0 = n /\ Len(rest) = Len(in) - n
      BY <1>2, <1>3, <1>4, <3>1
    <3>3. Len(out) + n + (Len(in) - n) = Len(out) + 0 + Len(in)
      BY <3>1
    <3> QED
      BY <2>1, <3>2, <3>3
  <2>3. Len(first) <= BufSize /\ 0 \in Nat /\ 0 <= Len(first)
    BY <1>3, <2>1
  <2> QED
    BY <1>1, <2>1, <2>2, <2>3 DEF Sizes
<1>6. Ordered(rest, out, first, 0, go)
  <2>1. ASSUME NEW i \in 1 .. Len(first) - 0
        PROVE  first[0 + i] = go + Len(out) + i
    <3>1. i \in 1 .. n /\ i \in 1 .. Len(in) /\ 0 + i = i
      BY <1>1, <1>3 DEF Sizes
    <3>2. in[i] = go + Len(out) + (Len(da) - wr) + i
      BY <1>1, <3>1 DEF Ordered
    <3>3. go + Len(out) + (Len(da) - wr) + i = go + Len(out) + i
      BY <1>1, <1>2, <3>1 DEF Sizes
    <3> QED
      BY <1>3, <3>1, <3>2, <3>3
  <2>2. ASSUME NEW i \in 1 .. Len(rest)
        PROVE  rest[i] = go + Len(out) + (Len(first) - 0) + i
    <3>1. n + i \in 1 .. Len(in) /\ i \in 1 .. Len(in) - n
      BY <1>1, <1>4 DEF Sizes
    <3>2. in[n + i] = go + Len(out) + (Len(da) - wr) + (n + i)
      BY <1>1, <3>1 DEF Ordered
    <3>3. go + Len(out) + (Len(da) - wr) + (n + i) = go + Len(out) + (Len(first) - 0) + i
      BY <1>1, <1>2, <1>3, <3>1 DEF Sizes
    <3> QED
      BY <1>4, <3>1, <3>2, <3>3
  <2> QED
    BY <1>1, <2>1, <2>2 DEF Ordered
<1>7. Pending(cn, {"write"}, first, 0)
  BY <1>2, <1>3 DEF Pending
<1> QED
  BY <1>1, <1>3, <1>4, <1>5, <1>6, <1>7 DEF Session, Typed, first, rest

LEMMA WriteSession ==
  ASSUME NEW cn, NEW in, NEW out, NEW os, NEW da, NEW wr, NEW se, NEW go,
         Session(cn, in, out, os, da, wr, se, go), os = {"write"},
         NEW n \in 1 .. Len(da) - wr, n <= SockBuf - Len(out)
  PROVE  Session(cn, in, out \o SubSeq(da, wr + 1, wr + n),
                 IF wr + n < Len(da) THEN {"write"} ELSE {"read"}, da, wr + n, se, go)
<1>1. /\ Sizes(in, out, da, wr, se, go) /\ Typed(in, out, da, se)
      /\ Pending(cn, os, da, wr) /\ Ordered(in, out, da, wr, go)
  BY DEF Session
<1>2. out \in Seq(1 .. se) /\ da \in Seq(1 .. se) /\ cn = "open" /\ {"write"} # {}
  BY <1>1 DEF Typed, Pending
<1> DEFINE part == SubSeq(da, wr + 1, wr + n)
           more == out \o part
<1>3. /\ part \in Seq(1 .. se) /\ Len(part) = n
      /\ \A i \in 1 .. n : part[i] = da[wr + i]
  <2>1. n \in Nat /\ wr \in Nat /\ wr + n <= Len(da)
    BY <1>1 DEF Sizes
  <2> QED
    BY <1>2, <2>1, Part, Zenon
<1> HIDE DEF part
<1>4. /\ more \in Seq(1 .. se) /\ Len(more) = Len(out) + Len(part)
      /\ \A i \in 1 .. Len(out) + Len(part) :
           more[i] = IF i <= Len(out) THEN out[i] ELSE part[i - Len(out)]
  BY <1>2, <1>3, ConcatProperties
<1> HIDE DEF more
<1>5. Len(more) = Len(out) + n /\ n \in Nat
  BY <1>3, <1>4
<1>6. Sizes(in, more, da, wr + n, se, go)
  BY <1>1, <1>5, Constants DEF Sizes
<1>7. Ordered(in, more, da, wr + n, go)
  <2>1. ASSUME NEW i \in 1 .. Len(more)
        PROVE  more[i] = go + i
    <3>1. CASE i <= Len(out)
      <4>1. i \in 1 .. Len(out) /\ more[i] = out[i]
        BY <1>1, <1>3, <1>4, <3>1 DEF Sizes
      <4> QED
        BY <1>1, <4>1 DEF Ordered
    <3>2. CASE i > Len(out)
      <4> DEFINE j == i - Len(out)
      <4>1. Len(out) \in Nat /\ Len(da) \in Nat /\ wr \in Nat /\ go \in Nat
        BY <1>1 DEF Sizes
      <4>2. j \in 1 .. n /\ j \in 1 .. Len(da) - wr /\ go + Len(out) + j = go + i
        BY <1>5, <3>2, <4>1
      <4>3. more[i] = part[j]
        BY <1>3, <1>4, <3>2, <4>1
      <4> HIDE DEF j
      <4>4. da[wr + j] = go + Len(out) + j
        BY <1>1, <4>2 DEF Ordered
      <4> QED
        BY <1>3, <4>2, <4>3, <4>4
    <3> QED
      BY <1>1, <1>5, <3>1, <3>2 DEF Sizes
  <2>2. ASSUME NEW i \in 1 .. Len(da) - (wr + n)
        PROVE  da[(wr + n) + i] = go + Len(more) + i
    <3>1. n + i \in 1 .. Len(da) - wr /\ (wr + n) + i = wr + (n + i)
      BY <1>1, <1>5 DEF Sizes
    <3>2. da[wr + (n + i)] = go + Len(out) + (n + i)
      BY <1>1, <3>1 DEF Ordered
    <3>3. go + Len(out) + (n + i) = go + Len(more) + i
      BY <1>1, <1>5 DEF Sizes
    <3> QED
      BY <3>1, <3>2, <3>3
  <2>3. \A i \in Int : go + Len(more) + (Len(da) - (wr + n)) + i = go + Len(out) + (Len(da) - wr) + i
    BY <1>1, <1>5 DEF Sizes
  <2> QED
    BY <1>1, <2>1, <2>2, <2>3 DEF Ordered
<1>8. Pending(cn, IF wr + n < Len(da) THEN {"write"} ELSE {"read"}, da, wr + n)
  <2>1. wr + n <= Len(da) /\ wr + n \in Nat /\ Len(da) \in Nat
    BY <1>1 DEF Sizes
  <2>2. CASE wr + n < Len(da)
    BY <1>2, <2>2 DEF Pending
  <2>3. CASE ~ (wr + n < Len(da))
    <3>1. wr + n = Len(da) /\ {"read"} # {"write"} /\ {"read"} # {}
      BY <2>1, <2>3
    <3> QED
      BY <1>2, <2>3, <3>1 DEF Pending
  <2> QED
    BY <2>2, <2>3
<1> QED
  BY <1>1, <1>4, <1>6, <1>7, <1>8 DEF Session, Typed, more, part

-----------------------------------------------------------------------------
(* The inductive invariant.                                                *)

SessionOK(c) ==
  Session(conn[c], inbox[c], outbox[c], ops[c], data[c], wrote[c], sent[c], got[c])

\* One value for each client.
Shape ==
  /\ conn \in [Clients -> {"none", "backlog", "open", "closed"}]
  /\ side \in [Clients -> {"open", "shut", "gone"}]
  /\ DOMAIN inbox = Clients /\ DOMAIN outbox = Clients /\ DOMAIN ops = Clients
  /\ DOMAIN data = Clients /\ DOMAIN wrote = Clients
  /\ DOMAIN sent = Clients /\ DOMAIN got = Clients

IInv == accepting \in BOOLEAN /\ Shape /\ \A c \in Clients : SessionOK(c)

\* What a step leaves alone of a client.
Same(c) ==
  /\ conn'[c] = conn[c] /\ inbox'[c] = inbox[c] /\ outbox'[c] = outbox[c]
  /\ ops'[c] = ops[c] /\ data'[c] = data[c] /\ wrote'[c] = wrote[c]
  /\ sent'[c] = sent[c] /\ got'[c] = got[c]

\* A step concerns one client's session.
LEMMA OneSession ==
  ASSUME IInv, NEW c \in Clients, accepting' \in BOOLEAN, Shape',
         \A d \in Clients : d # c => Same(d), SessionOK(c)'
  PROVE  IInv'
<1>1. ASSUME NEW d \in Clients, d # c PROVE SessionOK(d)'
  <2>1. SessionOK(d) /\ Same(d)
    BY <1>1 DEF IInv
  <2> QED
    BY <2>1 DEF SessionOK, Same
<1> QED
  BY <1>1 DEF IInv

LEMMA InitOK == Init => IInv
<1> SUFFICES ASSUME Init PROVE IInv
  OBVIOUS
<1>1. ASSUME NEW c \in Clients PROVE SessionOK(c)
  <2>1. Session("none", <<>>, <<>>, {}, <<>>, 0, 0, 0)
    <3>1. <<>> \in Seq(1 .. 0) /\ Len(<<>>) = 0
      BY EmptySeq
    <3> QED
      BY <3>1, Constants DEF Session, Sizes, Typed, Pending, Ordered
  <2> QED
    BY <2>1 DEF Init, SessionOK
<1> QED
  BY <1>1 DEF Init, IInv, Shape

\* The steps of the clients and of accept.
LEMMA ClientOK ==
  ASSUME IInv, NEW c \in Clients,
         \/ Connect(c) \/ Send(c) \/ Receive(c) \/ Accept(c)
         \/ \E how \in {"shut", "gone"} : Leave(c, how)
  PROVE  IInv'
<1>1. accepting \in BOOLEAN /\ Shape /\ SessionOK(c)
  BY DEF IInv
<1>2. CASE Connect(c)
  <2>1. /\ conn[c] = "none" /\ conn' = [conn EXCEPT ![c] = "backlog"]
        /\ UNCHANGED <<accepting, side, inbox, outbox, ops, data, wrote, sent, got>>
    BY <1>2 DEF Connect
  <2>2. Shape' /\ conn'[c] = "backlog" /\ \A d \in Clients : d # c => Same(d)
    BY <1>1, <2>1 DEF Shape, Same
  <2>3. SessionOK(c)'
    BY <1>1, <2>1, <2>2 DEF SessionOK, Session, Pending
  <2> QED
    BY <1>1, <2>1, <2>2, <2>3, OneSession
<1>3. CASE Send(c)
  <2>1. /\ Len(inbox[c]) < SockBuf /\ sent[c] < MaxBytes
        /\ sent' = [sent EXCEPT ![c] = @ + 1]
        /\ inbox' = [inbox EXCEPT ![c] = Append(@, sent[c] + 1)]
        /\ UNCHANGED <<accepting, conn, side, outbox, ops, data, wrote, got>>
    BY <1>3 DEF Send
  <2>2. /\ Shape' /\ \A d \in Clients : d # c => Same(d)
        /\ sent'[c] = sent[c] + 1 /\ inbox'[c] = Append(inbox[c], sent[c] + 1)
    BY <1>1, <2>1 DEF Shape, Same
  <2>3. SessionOK(c)'
    BY <1>1, <2>1, <2>2, SendSession DEF SessionOK
  <2> QED
    BY <1>1, <2>1, <2>2, <2>3, OneSession
<1>4. CASE Receive(c)
  <2>1. /\ outbox[c] # <<>>
        /\ outbox' = [outbox EXCEPT ![c] = Tail(@)]
        /\ got' = [got EXCEPT ![c] = @ + 1]
        /\ UNCHANGED <<accepting, conn, side, inbox, ops, data, wrote, sent>>
    BY <1>4 DEF Receive
  <2>2. /\ Shape' /\ \A d \in Clients : d # c => Same(d)
        /\ got'[c] = got[c] + 1 /\ outbox'[c] = Tail(outbox[c])
    BY <1>1, <2>1 DEF Shape, Same
  <2>3. SessionOK(c)'
    BY <1>1, <2>1, <2>2, ReceiveSession DEF SessionOK
  <2> QED
    BY <1>1, <2>1, <2>2, <2>3, OneSession
<1>5. CASE Accept(c)
  <2>1. /\ conn[c] = "backlog" /\ conn' = [conn EXCEPT ![c] = "open"]
        /\ ops' = [ops EXCEPT ![c] = {"read"}] /\ accepting' = TRUE
        /\ UNCHANGED <<side, inbox, outbox, data, wrote, sent, got>>
    BY <1>5 DEF Accept, Rearm
  <2>2. /\ Shape' /\ \A d \in Clients : d # c => Same(d)
        /\ conn'[c] = "open" /\ ops'[c] = {"read"}
    BY <1>1, <2>1 DEF Shape, Same
  <2>3. SessionOK(c)'
    <3>1. Pending("open", {"read"}, data[c], wrote[c])
      <4>1. {"read"} # {"write"} /\ {"read"} # {}
        OBVIOUS
      <4>2. wrote[c] = Len(data[c])
        BY <1>1, <2>1 DEF SessionOK, Session, Pending
      <4> QED
        BY <4>1, <4>2 DEF Pending
    <3> QED
      BY <1>1, <2>1, <2>2, <3>1 DEF SessionOK, Session
  <2> QED
    BY <2>1, <2>2, <2>3, OneSession
<1>6. ASSUME NEW how \in {"shut", "gone"}, Leave(c, how)
      PROVE  IInv'
  <2>1. /\ side' = [side EXCEPT ![c] = how]
        /\ UNCHANGED <<accepting, conn, inbox, outbox, ops, data, wrote, sent, got>>
    BY <1>6 DEF Leave
  <2>2. Shape'
    BY <1>1, <2>1 DEF Shape
  <2>3. \A d \in Clients : SessionOK(d)'
    BY <2>1 DEF IInv, SessionOK
  <2> QED
    BY <1>1, <2>1, <2>2, <2>3 DEF IInv
<1> QED
  BY <1>2, <1>3, <1>4, <1>5, <1>6

\* A handler that starts nothing more ends the session.
LEMMA SessionEnds ==
  ASSUME IInv, NEW c \in Clients, NEW op, ops[c] = {op}, Handled(c, op, AfterError),
         UNCHANGED <<accepting, side, inbox, outbox, data, wrote, sent, got>>
  PROVE  IInv'
<1>1. accepting \in BOOLEAN /\ Shape /\ SessionOK(c)
  BY DEF IInv
<1>2. ops' = [ops EXCEPT ![c] = {}] /\ conn' = [conn EXCEPT ![c] = "closed"]
  BY <1>1 DEF Handled, AfterError, Shape
<1>3. /\ Shape' /\ \A d \in Clients : d # c => Same(d)
      /\ conn'[c] = "closed" /\ ops'[c] = {}
  BY <1>1, <1>2 DEF Shape, Same
<1>4. SessionOK(c)'
  <2>1. Pending("closed", {}, data[c], wrote[c])
    BY DEF Pending
  <2> QED
    BY <1>1, <1>3, <2>1 DEF SessionOK, Session
<1> QED
  BY <1>1, <1>3, <1>4, OneSession

\* A Session has one operation pending, so the handler that runs is the only
\* one.
LEMMA OneOperation ==
  ASSUME IInv, NEW c \in Clients, NEW op \in ops[c]
  PROVE  ops[c] = {op} /\ op \in {"read", "write"} /\ conn[c] = "open"
BY DEF IInv, SessionOK, Session, Pending

LEMMA ServeOK ==
  ASSUME IInv, NEW c \in Clients, Serve(c)
  PROVE  IInv'
<1>1. accepting \in BOOLEAN /\ Shape /\ SessionOK(c)
  BY DEF IInv
<1>2. CASE ReadDone(c)
  <2>1. ops[c] = {"read"}
    BY <1>2, OneOperation DEF ReadDone
  <2>2. PICK n \in 1 .. Least(BufSize, Len(inbox[c])) :
          /\ data' = [data EXCEPT ![c] = SubSeq(inbox[c], 1, n)]
          /\ inbox' = [inbox EXCEPT ![c] = SubSeq(@, n + 1, Len(@))]
    BY <1>2 DEF ReadDone
  <2>3. n \in 1 .. Len(inbox[c]) /\ n <= BufSize
    <3>1. Len(inbox[c]) \in Nat
      BY <1>1 DEF SessionOK, Session, Sizes
    <3> QED
      BY <3>1, Constants DEF Least
  <2>4. /\ wrote' = [wrote EXCEPT ![c] = 0]
        /\ ops' = [ops EXCEPT ![c] = {"write"}] /\ conn' = conn
        /\ UNCHANGED <<accepting, side, outbox, sent, got>>
    BY <1>1, <1>2, <2>1 DEF ReadDone, Handled, AfterRead, Shape
  <2>5. /\ Shape' /\ \A d \in Clients : d # c => Same(d)
        /\ inbox'[c] = SubSeq(inbox[c], n + 1, Len(inbox[c]))
        /\ data'[c] = SubSeq(inbox[c], 1, n) /\ wrote'[c] = 0 /\ ops'[c] = {"write"}
    BY <1>1, <2>2, <2>4 DEF Shape, Same
  <2>6. SessionOK(c)'
    <3>1. Session(conn[c], SubSeq(inbox[c], n + 1, Len(inbox[c])), outbox[c], {"write"},
                  SubSeq(inbox[c], 1, n), 0, sent[c], got[c])
      BY <1>1, <2>1, <2>3, ReadSession DEF SessionOK
    <3> QED
      BY <2>4, <2>5, <3>1 DEF SessionOK
  <2> QED
    BY <1>1, <2>4, <2>5, <2>6, OneSession
<1>3. CASE ReadFails(c)
  BY <1>3, OneOperation, SessionEnds DEF ReadFails
<1>4. CASE WriteSome(c)
  <2>1. ops[c] = {"write"} /\ conn[c] = "open"
    BY <1>4, OneOperation DEF WriteSome
  <2>2. PICK n \in 1 .. Least(SockBuf - Len(outbox[c]), Len(data[c]) - wrote[c]) :
          /\ outbox' = [outbox EXCEPT ![c] = @ \o SubSeq(data[c], wrote[c] + 1, wrote[c] + n)]
          /\ wrote' = [wrote EXCEPT ![c] = @ + n]
          /\ \/ wrote[c] + n < Len(data[c]) /\ UNCHANGED <<ops, conn>>
             \/ wrote[c] + n = Len(data[c]) /\ Handled(c, "write", AfterWrite)
    BY <1>4 DEF WriteSome
  <2>3. n \in 1 .. Len(data[c]) - wrote[c] /\ n <= SockBuf - Len(outbox[c])
    <3>1. Len(data[c]) \in Nat /\ wrote[c] \in Nat /\ Len(outbox[c]) \in Nat
      BY <1>1 DEF SessionOK, Session, Sizes
    <3> QED
      BY <3>1, Constants DEF Least
  <2>4. /\ UNCHANGED <<accepting, conn, side, inbox, data, sent, got>>
        /\ DOMAIN ops' = Clients /\ \A d \in Clients : d # c => ops'[d] = ops[d]
        /\ ops'[c] = IF wrote[c] + n < Len(data[c]) THEN {"write"} ELSE {"read"}
    <3>1. UNCHANGED <<accepting, side, inbox, data, sent, got>>
      BY <1>4 DEF WriteSome
    <3>2. CASE wrote[c] + n < Len(data[c]) /\ UNCHANGED <<ops, conn>>
      BY <1>1, <2>1, <3>1, <3>2 DEF Shape
    <3>3. CASE wrote[c] + n = Len(data[c]) /\ Handled(c, "write", AfterWrite)
      <4>1. ~ (wrote[c] + n < Len(data[c]))
        <5>1. Len(data[c]) \in Nat
          BY <1>1 DEF SessionOK, Session, Sizes
        <5> QED
          BY <3>3, <5>1
      <4> QED
        BY <1>1, <2>1, <3>1, <3>3, <4>1 DEF Handled, AfterWrite, Shape
    <3> QED
      BY <2>2, <3>2, <3>3
  <2>5. /\ Shape' /\ \A d \in Clients : d # c => Same(d)
        /\ outbox'[c] = outbox[c] \o SubSeq(data[c], wrote[c] + 1, wrote[c] + n)
        /\ wrote'[c] = wrote[c] + n
    BY <1>1, <2>2, <2>4 DEF Shape, Same
  <2>6. SessionOK(c)'
    <3>1. Session(conn[c], inbox[c],
                  outbox[c] \o SubSeq(data[c], wrote[c] + 1, wrote[c] + n),
                  IF wrote[c] + n < Len(data[c]) THEN {"write"} ELSE {"read"},
                  data[c], wrote[c] + n, sent[c], got[c])
      BY <1>1, <2>1, <2>3, WriteSession DEF SessionOK
    <3> QED
      BY <2>4, <2>5, <3>1 DEF SessionOK
  <2> QED
    BY <1>1, <2>4, <2>5, <2>6, OneSession
<1>5. CASE WriteFails(c)
  BY <1>5, OneOperation, SessionEnds DEF WriteFails
<1> QED
  BY <1>2, <1>3, <1>4, <1>5 DEF Serve

LEMMA StepOK == IInv /\ [Next]_vars => IInv'
<1>1. IInv /\ AcceptFails => IInv'
  BY DEF AcceptFails, Rearm, IInv, Shape, SessionOK
<1>2. IInv /\ UNCHANGED vars => IInv'
  BY DEF vars, IInv, Shape, SessionOK
<1> QED
  BY <1>1, <1>2, ClientOK, ServeOK DEF Next

\* IInv holds in every reachable state.
THEOREM Invariance == Spec => []IInv
BY InitOK, StepOK, PTL DEF Spec

-----------------------------------------------------------------------------
(* What follows from it.                                                   *)

\* A client gets back what it sent, in order and without a gap, however its
\* bytes are cut into reads and writes.
THEOREM InOrder == Spec => []EchoesInOrder
<1>1. IInv => TypeOK
  <2> SUFFICES ASSUME IInv, NEW c \in Clients
               PROVE  /\ inbox[c] \in Seq(1 .. sent[c]) /\ Len(inbox[c]) <= SockBuf
                      /\ outbox[c] \in Seq(1 .. sent[c]) /\ Len(outbox[c]) <= SockBuf
                      /\ data[c] \in Seq(1 .. sent[c]) /\ Len(data[c]) <= BufSize
                      /\ wrote[c] \in 0 .. Len(data[c])
                      /\ ops[c] \in {{}, {"read"}, {"write"}}
                      /\ sent[c] \in 0 .. MaxBytes /\ got[c] \in 0 .. sent[c]
    BY DEF IInv, Shape, TypeOK
  <2>1. SessionOK(c)
    BY DEF IInv
  <2>2. Typed(inbox[c], outbox[c], data[c], sent[c]) /\ ops[c] \in {{}, {"read"}, {"write"}}
    BY <2>1 DEF SessionOK, Session, Pending
  <2>3. Sizes(inbox[c], outbox[c], data[c], wrote[c], sent[c], got[c])
    BY <2>1 DEF SessionOK, Session
  <2>4. sent[c] \in 0 .. MaxBytes /\ got[c] \in 0 .. sent[c] /\ wrote[c] \in 0 .. Len(data[c])
    <3>1. /\ sent[c] \in Nat /\ got[c] \in Nat /\ wrote[c] \in Nat
          /\ sent[c] <= MaxBytes /\ wrote[c] <= Len(data[c])
      BY <2>3 DEF Sizes
    <3>2. /\ Len(outbox[c]) + (Len(data[c]) - wrote[c]) + Len(inbox[c]) = sent[c] - got[c]
          /\ Len(outbox[c]) \in Nat /\ Len(data[c]) \in Nat /\ Len(inbox[c]) \in Nat
      BY <2>3 DEF Sizes
    <3>3. got[c] <= sent[c]
      BY <3>1, <3>2
    <3> QED
      BY <3>1, <3>2, <3>3, Constants
  <2> QED
    BY <2>2, <2>3, <2>4 DEF Typed, Sizes
<1>2. ASSUME IInv, NEW c \in Clients
      PROVE  outbox[c] \o SubSeq(data[c], wrote[c] + 1, Len(data[c])) \o inbox[c]
               = [i \in 1 .. sent[c] - got[c] |-> got[c] + i]
  <2> DEFINE in == inbox[c]
             out == outbox[c]
             da == data[c]
             wr == wrote[c]
             se == sent[c]
             go == got[c]
             rest == SubSeq(da, wr + 1, Len(da))
  <2>1. Sizes(in, out, da, wr, se, go) /\ Typed(in, out, da, se) /\ Ordered(in, out, da, wr, go)
    BY <1>2 DEF IInv, SessionOK, Session
  <2> HIDE DEF in, out, da, wr, se, go
  <2>2. /\ rest \in Seq(1 .. se) /\ Len(rest) = Len(da) - wr
        /\ \A i \in 1 .. Len(da) - wr : rest[i] = da[wr + i]
    <3> DEFINE n == Len(da) - wr
    <3>1. wr \in Nat /\ n \in Nat /\ wr + n = Len(da) /\ wr + n <= Len(da) /\ da \in Seq(1 .. se)
      BY <2>1 DEF Sizes, Typed
    <3> HIDE DEF n
    <3>2. /\ SubSeq(da, wr + 1, wr + n) \in Seq(1 .. se) /\ Len(SubSeq(da, wr + 1, wr + n)) = n
          /\ \A i \in 1 .. n : SubSeq(da, wr + 1, wr + n)[i] = da[wr + i]
      BY <3>1, Part, Zenon
    <3> QED
      BY <3>1, <3>2 DEF n
  <2> HIDE DEF rest
  <2> DEFINE mid == out \o rest
             all == mid \o in
  <2>3. /\ mid \in Seq(1 .. se) /\ Len(mid) = Len(out) + Len(rest)
        /\ \A i \in 1 .. Len(out) + Len(rest) :
             mid[i] = IF i <= Len(out) THEN out[i] ELSE rest[i - Len(out)]
    BY <2>1, <2>2, ConcatProperties DEF Typed
  <2> HIDE DEF mid
  <2>4. /\ all \in Seq(1 .. se) /\ Len(all) = Len(mid) + Len(in)
        /\ \A i \in 1 .. Len(mid) + Len(in) :
             all[i] = IF i <= Len(mid) THEN mid[i] ELSE in[i - Len(mid)]
    BY <2>1, <2>3, ConcatProperties DEF Typed
  <2> HIDE DEF all
  <2>5. /\ Len(mid) = Len(out) + (Len(da) - wr) /\ Len(all) = se - go
        /\ Len(out) \in Nat /\ Len(da) - wr \in Nat /\ Len(in) \in Nat /\ go \in Nat /\ se \in Nat
    BY <2>1, <2>2, <2>3, <2>4 DEF Sizes
  <2>6. ASSUME NEW i \in 1 .. Len(mid) PROVE mid[i] = go + i
    <3>1. CASE i <= Len(out)
      <4>1. i \in 1 .. Len(out) /\ mid[i] = out[i]
        BY <2>2, <2>3, <2>5, <3>1
      <4> QED
        BY <2>1, <4>1 DEF Ordered
    <3>2. CASE i > Len(out)
      <4>1. /\ i - Len(out) \in 1 .. Len(da) - wr /\ mid[i] = rest[i - Len(out)]
            /\ go + Len(out) + (i - Len(out)) = go + i
        <5>1. /\ i - Len(out) \in 1 .. Len(da) - wr
              /\ go + Len(out) + (i - Len(out)) = go + i
          BY <2>5, <3>2
        <5>2. i \in 1 .. Len(out) + Len(rest) /\ ~(i <= Len(out))
          BY <2>2, <2>5, <3>2
        <5> QED
          BY <2>3, <5>1, <5>2
      <4>2. da[wr + (i - Len(out))] = go + Len(out) + (i - Len(out))
        BY <2>1, <4>1 DEF Ordered
      <4> QED
        BY <2>2, <4>1, <4>2
    <3> QED
      BY <2>5, <3>1, <3>2
  <2>7. ASSUME NEW i \in 1 .. Len(all) PROVE all[i] = go + i
    <3>1. CASE i <= Len(mid)
      <4>1. i \in 1 .. Len(mid) /\ all[i] = mid[i]
        BY <2>4, <2>5, <3>1
      <4> QED
        BY <2>6, <4>1
    <3>2. CASE i > Len(mid)
      <4>1. i - Len(mid) \in 1 .. Len(in) /\ all[i] = in[i - Len(mid)]
        <5>1. Len(mid) \in Nat /\ i \in 1 .. Len(mid) + Len(in)
          BY <2>4, <2>5
        <5>2. i - Len(mid) \in 1 .. Len(in)
          BY <2>5, <3>2, <5>1
        <5>3. ~ (i <= Len(mid))
          BY <3>2, <5>1
        <5>4. all[i] = IF i <= Len(mid) THEN mid[i] ELSE in[i - Len(mid)]
          BY <2>4, <5>1
        <5> QED
          BY <5>2, <5>3, <5>4
      <4>2. in[i - Len(mid)] = go + Len(out) + (Len(da) - wr) + (i - Len(mid))
        BY <2>1, <4>1 DEF Ordered
      <4>3. go + Len(out) + (Len(da) - wr) + (i - Len(mid)) = go + i
        BY <2>5
      <4> QED
        BY <4>1, <4>2, <4>3
    <3> QED
      BY <2>5, <3>1, <3>2
  <2>8. all \in [1 .. Len(all) -> 1 .. se]
    BY <2>4, LenProperties
  <2>9. all = [i \in 1 .. se - go |-> go + i]
    BY <2>5, <2>7, <2>8
  <2> QED
    BY <2>9 DEF all, mid, rest, in, out, da, wr, se, go
<1>3. IInv => EchoesInOrder
  BY <1>1, <1>2 DEF EchoesInOrder
<1> QED
  BY <1>3, Invariance, PTL

\* A session ends in the handler of a read or a write that has failed.
LEMMA EndsStep ==
  ASSUME IInv, [Next]_vars, NEW c \in Clients, conn[c] = "open", conn'[c] = "closed"
  PROVE  /\ \/ side[c] = "gone"
            \/ side[c] = "shut" /\ got[c] + Len(outbox[c]) = sent[c]
         /\ UNCHANGED <<side, outbox, sent, got>>
<1>1. Shape /\ SessionOK(c)
  BY DEF IInv
<1>2. ASSUME NEW d \in Clients, d # c, Serve(d) PROVE FALSE
  BY <1>1, <1>2
     DEF Serve, ReadDone, ReadFails, WriteSome, WriteFails, Handled, Shape
<1>3. Serve(c)
  BY <1>1, <1>2
     DEF Next, vars, Connect, Send, Receive, Leave, Accept, AcceptFails, Shape
<1>4. ~ ReadDone(c) /\ ~ WriteSome(c)
  <2>1. ASSUME NEW op, Handled(c, op, {"read"}) \/ Handled(c, op, {"write"}) PROVE FALSE
    BY <1>1, <2>1 DEF Handled, Shape
  <2> QED
    BY <2>1 DEF ReadDone, WriteSome, AfterRead, AfterWrite
<1>5. CASE ReadFails(c) /\ side[c] = "shut" /\ inbox[c] = <<>>
  <2>1. ops[c] = {"read"}
    BY <1>5, OneOperation DEF ReadFails
  <2>2. wrote[c] = Len(data[c])
    BY <1>1, <2>1 DEF SessionOK, Session, Pending
  <2>3. Len(inbox[c]) = 0
    BY <1>5, EmptySeq
  <2>4. Sizes(inbox[c], outbox[c], data[c], wrote[c], sent[c], got[c])
    BY <1>1 DEF SessionOK, Session
  <2> QED
    BY <1>5, <2>2, <2>3, <2>4 DEF Sizes, ReadFails
<1> QED
  BY <1>3, <1>4, <1>5 DEF Serve, ReadFails, WriteFails

\* A session is not cut off: it ends when its client is gone, or when all that
\* the client sent before it shut its end was echoed.
THEOREM EndsAfterEcho == Spec => EndsComplete
<1>1. IInv /\ [Next]_vars =>
        [\A c \in Clients : conn[c] = "open" /\ conn'[c] = "closed" =>
           \/ side[c] = "gone"
           \/ side[c] = "shut" /\ got[c] + Len(outbox[c]) = sent[c]]_vars
  BY EndsStep
<1> QED
  BY <1>1, Invariance, PTL DEF Spec, EndsComplete

-----------------------------------------------------------------------------
(* Progress: what Echoed and SessionsEnd rest on besides fairness.         *)

\* What a step does to one client.
LEMMA OneClient ==
  ASSUME IInv, [Next]_vars, NEW c \in Clients
  PROVE  \/ Same(c) /\ side'[c] = side[c]
         \/ Connect(c) \/ Send(c) \/ Receive(c) \/ Accept(c) \/ Serve(c)
         \/ \E how \in {"shut", "gone"} : Leave(c, how)
<1>1. Shape
  BY DEF IInv
<1>2. ASSUME NEW d \in Clients, d # c,
             \/ Connect(d) \/ Send(d) \/ Receive(d) \/ Accept(d)
             \/ \E how \in {"shut", "gone"} : Leave(d, how)
      PROVE  Same(c) /\ side'[c] = side[c]
  BY <1>1, <1>2 DEF Connect, Send, Receive, Accept, Leave, Shape, Same
<1>3. ASSUME NEW d \in Clients, d # c, Serve(d)
      PROVE  Same(c) /\ side'[c] = side[c]
  BY <1>1, <1>3
     DEF Serve, ReadDone, ReadFails, WriteSome, WriteFails, Handled, Shape, Same
<1>4. CASE AcceptFails \/ UNCHANGED vars
  BY <1>4 DEF AcceptFails, vars, Same
<1> QED
  BY <1>2, <1>3, <1>4 DEF Next

\* How far se bytes sent are of which in are not read by the server, out are
\* on their way back, and go are received.
Moved(se, in, out, go) == (se - in) + (go + out) + go

LEMMA MovedMore ==
  ASSUME NEW se \in Nat, NEW in \in Nat, NEW out \in Nat, NEW go \in Nat
  PROVE  /\ Moved(se, in, out, go) \in Int
         /\ \A n \in Nat : n < in => Moved(se, n, out, go) > Moved(se, in, out, go)
         /\ \A n \in Nat : n > out => Moved(se, in, n, go) > Moved(se, in, out, go)
         /\ Moved(se, in, out - 1, go + 1) > Moved(se, in, out, go)
         /\ Moved(se + 1, in + 1, out, go) >= Moved(se, in, out, go)
         /\ out + in + go <= se => Moved(se, in, out, go) \in 0 .. 3 * se
BY DEF Moved

Progress(c) == Moved(sent[c], Len(inbox[c]), Len(outbox[c]), got[c])

\* The bytes of a client only move forward, and its reads, its session's
\* reads and its session's writes each move some.
StepsForward ==
  \A c \in Clients :
    /\ Progress(c)' >= Progress(c)
    /\ ReadDone(c) \/ WriteSome(c) \/ Receive(c) => Progress(c)' > Progress(c)

LEMMA Lengths ==
  ASSUME IInv, NEW c \in Clients
  PROVE  /\ Send(c) => /\ sent'[c] = sent[c] + 1 /\ Len(inbox'[c]) = Len(inbox[c]) + 1
                       /\ UNCHANGED <<outbox, got>>
         /\ Receive(c) => /\ got'[c] = got[c] + 1 /\ Len(outbox'[c]) = Len(outbox[c]) - 1
                          /\ UNCHANGED <<inbox, sent>>
         /\ ReadDone(c) => Len(inbox'[c]) < Len(inbox[c]) /\ UNCHANGED <<outbox, sent, got>>
         /\ WriteSome(c) => Len(outbox'[c]) > Len(outbox[c]) /\ UNCHANGED <<inbox, sent, got>>
<1>1. Shape /\ SessionOK(c)
  BY DEF IInv
<1>2. /\ Sizes(inbox[c], outbox[c], data[c], wrote[c], sent[c], got[c])
      /\ Typed(inbox[c], outbox[c], data[c], sent[c])
  BY <1>1 DEF SessionOK, Session
<1>3. ASSUME Send(c)
      PROVE  /\ sent'[c] = sent[c] + 1 /\ Len(inbox'[c]) = Len(inbox[c]) + 1
             /\ UNCHANGED <<outbox, got>>
  <2>1. /\ sent'[c] = sent[c] + 1 /\ inbox'[c] = Append(inbox[c], sent[c] + 1)
        /\ UNCHANGED <<outbox, got>>
    BY <1>1, <1>3 DEF Send, Shape
  <2>2. inbox[c] \in Seq(Nat) /\ sent[c] + 1 \in Nat
    <3>1. 1 .. sent[c] \subseteq Nat
      BY <1>2 DEF Sizes
    <3> QED
      BY <1>2, <3>1, SeqMonotonic DEF Typed, Sizes
  <2> QED
    BY <2>1, <2>2, AppendProperties
<1>4. ASSUME Receive(c)
      PROVE  /\ got'[c] = got[c] + 1 /\ Len(outbox'[c]) = Len(outbox[c]) - 1
             /\ UNCHANGED <<inbox, sent>>
  <2>1. /\ got'[c] = got[c] + 1 /\ outbox'[c] = Tail(outbox[c]) /\ outbox[c] # <<>>
        /\ UNCHANGED <<inbox, sent>>
    BY <1>1, <1>4 DEF Receive, Shape
  <2> QED
    BY <1>2, <2>1, HeadTailProperties DEF Typed
<1>5. ASSUME ReadDone(c)
      PROVE  Len(inbox'[c]) < Len(inbox[c]) /\ UNCHANGED <<outbox, sent, got>>
  <2>1. PICK n \in 1 .. Least(BufSize, Len(inbox[c])) :
          inbox' = [inbox EXCEPT ![c] = SubSeq(@, n + 1, Len(@))]
    BY <1>5 DEF ReadDone
  <2> DEFINE l == Len(inbox[c])
             m == l - n
  <2>2. n \in Nat /\ n > 0 /\ m \in Nat /\ n + m = l
    <3>1. l \in Nat
      BY <1>2 DEF Sizes
    <3> QED
      BY <3>1, Constants DEF Least
  <2>3. inbox'[c] = SubSeq(inbox[c], n + 1, n + m)
    BY <1>1, <2>1, <2>2 DEF Shape
  <2> HIDE DEF m
  <2>4. Len(SubSeq(inbox[c], n + 1, n + m)) = m
    <3>1. n + m <= Len(inbox[c]) /\ inbox[c] \in Seq(1 .. sent[c])
      BY <1>2, <2>2 DEF Typed
    <3> QED
      BY <2>2, <3>1, Part, Zenon
  <2> QED
    <3>1. UNCHANGED <<outbox, sent, got>>
      BY <1>5 DEF ReadDone
    <3>2. Len(inbox'[c]) = m
      BY <2>3, <2>4, Zenon
    <3>3. l \in Nat /\ m < l
      <4>1. l \in Nat
        BY <1>2 DEF Sizes
      <4> QED
        BY <2>2, <4>1
    <3> QED
      BY <3>1, <3>2, <3>3
<1>6. ASSUME WriteSome(c)
      PROVE  Len(outbox'[c]) > Len(outbox[c]) /\ UNCHANGED <<inbox, sent, got>>
  <2>1. PICK n \in 1 .. Least(SockBuf - Len(outbox[c]), Len(data[c]) - wrote[c]) :
          wrote' = [wrote EXCEPT ![c] = @ + n]
    BY <1>6 DEF WriteSome
  <2>2. n >= 1 /\ n \in Nat /\ wrote'[c] = wrote[c] + n
    BY <1>1, <2>1 DEF Shape
  <2>3. UNCHANGED <<inbox, data, sent, got>>
    BY <1>6 DEF WriteSome
  <2>4. Sizes(inbox[c], outbox'[c], data[c], wrote[c] + n, sent[c], got[c])
    <3>1. SessionOK(c)'
      BY <1>6, ServeOK DEF Serve, IInv
    <3> QED
      BY <2>2, <2>3, <3>1 DEF SessionOK, Session
  <2>5. /\ Len(outbox[c]) + (Len(data[c]) - wrote[c]) + Len(inbox[c]) = sent[c] - got[c]
        /\ Len(outbox'[c]) + (Len(data[c]) - (wrote[c] + n)) + Len(inbox[c]) = sent[c] - got[c]
    BY <1>2, <2>4 DEF Sizes
  <2>6. /\ Len(outbox[c]) \in Nat /\ Len(outbox'[c]) \in Nat /\ Len(data[c]) \in Nat
        /\ wrote[c] \in Nat /\ Len(inbox[c]) \in Nat /\ sent[c] \in Nat /\ got[c] \in Nat
    BY <1>2, <2>4 DEF Sizes
  <2>7. \A o, p, d, w, i, m \in Nat, x \in Int :
          m >= 1 /\ o + (d - w) + i = x /\ p + (d - (w + m)) + i = x => p > o
    OBVIOUS
  <2>8. Len(outbox'[c]) > Len(outbox[c])
    <3>1. sent[c] - got[c] \in Int
      BY <2>6
    <3> QED
      BY <2>2, <2>5, <2>6, <2>7, <3>1, Zenon
  <2> QED
    BY <2>3, <2>8
<1> QED
  BY <1>3, <1>4, <1>5, <1>6

LEMMA StepForward ==
  ASSUME IInv, [Next]_vars, NEW c \in Clients
  PROVE  /\ Progress(c)' >= Progress(c)
         /\ ReadDone(c) \/ WriteSome(c) \/ Receive(c) => Progress(c)' > Progress(c)
<1>1. Shape /\ SessionOK(c) /\ SessionOK(c)'
  BY StepOK DEF IInv
<1>2. /\ sent[c] \in Nat /\ got[c] \in Nat /\ Len(inbox[c]) \in Nat /\ Len(outbox[c]) \in Nat
      /\ sent'[c] \in Nat /\ got'[c] \in Nat
      /\ Len(inbox'[c]) \in Nat /\ Len(outbox'[c]) \in Nat
  BY <1>1 DEF SessionOK, Session, Sizes
<1>3. Progress(c)' = Moved(sent'[c], Len(inbox'[c]), Len(outbox'[c]), got'[c])
  BY Zenon DEF Progress, Moved
<1>4. Progress(c) \in Int /\ Progress(c)' \in Int
  BY <1>2, <1>3, MovedMore DEF Progress
<1>5. CASE ReadDone(c) \/ WriteSome(c) \/ Receive(c)
  <2>1. ASSUME ReadDone(c) PROVE Progress(c)' > Progress(c)
    <3>1. /\ Len(inbox'[c]) < Len(inbox[c])
          /\ outbox' = outbox /\ sent' = sent /\ got' = got
      BY <2>1, Lengths, Zenon
    <3>2. Moved(sent[c], Len(inbox'[c]), Len(outbox[c]), got[c])
            > Moved(sent[c], Len(inbox[c]), Len(outbox[c]), got[c])
      BY <1>2, <3>1, MovedMore
    <3> QED
      BY <1>3, <3>1, <3>2, Zenon DEF Progress
  <2>2. ASSUME WriteSome(c) PROVE Progress(c)' > Progress(c)
    <3>1. /\ Len(outbox'[c]) > Len(outbox[c])
          /\ inbox' = inbox /\ sent' = sent /\ got' = got
      BY <2>2, Lengths, Zenon
    <3>2. Moved(sent[c], Len(inbox[c]), Len(outbox'[c]), got[c])
            > Moved(sent[c], Len(inbox[c]), Len(outbox[c]), got[c])
      BY <1>2, <3>1, MovedMore
    <3> QED
      BY <1>3, <3>1, <3>2, Zenon DEF Progress
  <2>3. ASSUME Receive(c) PROVE Progress(c)' > Progress(c)
    <3>1. /\ got'[c] = got[c] + 1 /\ Len(outbox'[c]) = Len(outbox[c]) - 1
          /\ inbox' = inbox /\ sent' = sent
      BY <2>3, Lengths, Zenon
    <3>2. Moved(sent[c], Len(inbox[c]), Len(outbox[c]) - 1, got[c] + 1)
            > Moved(sent[c], Len(inbox[c]), Len(outbox[c]), got[c])
      BY <1>2, <3>1, MovedMore
    <3> QED
      BY <1>3, <3>1, <3>2, Zenon DEF Progress
  <2>4. Progress(c)' > Progress(c)
    BY <1>5, <2>1, <2>2, <2>3
  <2> QED
    BY <1>4, <2>4
<1>6. CASE Send(c)
  <2>1. /\ sent'[c] = sent[c] + 1 /\ Len(inbox'[c]) = Len(inbox[c]) + 1
        /\ outbox' = outbox /\ got' = got
    BY <1>6, Lengths, Zenon
  <2>2. ~ ReadDone(c) /\ ~ WriteSome(c) /\ ~ Receive(c)
    <3>1. sent'[c] # sent[c]
      BY <1>2, <2>1
    <3> QED
      BY <3>1 DEF ReadDone, WriteSome, Receive
  <2>3. Moved(sent[c] + 1, Len(inbox[c]) + 1, Len(outbox[c]), got[c])
          >= Moved(sent[c], Len(inbox[c]), Len(outbox[c]), got[c])
    BY <1>2, MovedMore
  <2>4. Progress(c)' >= Progress(c)
    BY <1>3, <2>1, <2>3, Zenon DEF Progress
  <2> QED
    BY <1>4, <2>2, <2>4
<1>7. CASE ~ (ReadDone(c) \/ WriteSome(c) \/ Receive(c)) /\ ~ Send(c)
  <2>1. /\ inbox'[c] = inbox[c] /\ outbox'[c] = outbox[c]
        /\ sent'[c] = sent[c] /\ got'[c] = got[c]
    BY <1>7, OneClient DEF Same, Connect, Accept, Leave, Serve, ReadFails, WriteFails
  <2>2. Progress(c)' = Progress(c)
    BY <2>1, Zenon DEF Progress
  <2> QED
    BY <1>4, <1>7, <2>2
<1> QED
  BY <1>5, <1>6, <1>7

\* Besides IInv: the server always listens, and a session that has ended has
\* left nothing behind for a client that still reads.
Kept ==
  /\ accepting = TRUE
  /\ \A c \in Clients :
       /\ conn[c] = "none" => sent[c] = 0
       /\ conn[c] = "closed" => side[c] = "gone" \/ got[c] + Len(outbox[c]) = sent[c]

LEMMA KeptOK == IInv /\ Kept /\ [Next]_vars => Kept'
<1> SUFFICES ASSUME IInv, Kept, [Next]_vars PROVE Kept'
  OBVIOUS
<1>1. accepting' = TRUE
  BY DEF Kept, Next, vars, Connect, Send, Receive, Leave, Accept, AcceptFails, Rearm, Serve,
         ReadDone, ReadFails, WriteSome, WriteFails
<1> SUFFICES ASSUME NEW c \in Clients
             PROVE  /\ conn'[c] = "none" => sent'[c] = 0
                    /\ conn'[c] = "closed" =>
                         side'[c] = "gone" \/ got'[c] + Len(outbox'[c]) = sent'[c]
  BY <1>1 DEF Kept
<1>2. Shape /\ SessionOK(c)
  BY DEF IInv
<1>3. /\ sent[c] \in Nat /\ got[c] \in Nat /\ Len(outbox[c]) \in Nat
      /\ conn[c] = "open" <=> ops[c] # {}
  BY <1>2 DEF SessionOK, Session, Sizes, Pending
<1>4. CASE Same(c) /\ side'[c] = side[c]
  BY <1>4 DEF Kept, Same
<1>5. CASE Connect(c)
  BY <1>2, <1>5 DEF Connect, Shape
<1>6. CASE Send(c)
  BY <1>2, <1>6 DEF Send, Shape
<1>7. CASE Receive(c)
  <2>1. /\ got'[c] = got[c] + 1 /\ Len(outbox'[c]) = Len(outbox[c]) - 1
        /\ UNCHANGED <<inbox, sent>>
    BY <1>7, Lengths, Zenon
  <2>2. conn' = conn /\ side' = side
    BY <1>7 DEF Receive
  <2> QED
    BY <1>3, <2>1, <2>2 DEF Kept
<1>8. CASE Accept(c)
  BY <1>2, <1>8 DEF Accept, Shape
<1>9. CASE \E how \in {"shut", "gone"} : Leave(c, how)
  BY <1>2, <1>9 DEF Kept, Leave, Shape
<1>10. CASE Serve(c)
  <2>1. conn[c] = "open" /\ conn'[c] \in {"open", "closed"}
    BY <1>2, <1>3, <1>10
       DEF Serve, ReadDone, ReadFails, WriteSome, WriteFails, Handled, Shape
  <2> QED
    BY <2>1, EndsStep
<1> QED
  BY <1>4, <1>5, <1>6, <1>7, <1>8, <1>9, <1>10, OneClient

\* As long as a client that still reads has not got back all it has sent, it
\* has bytes to receive, or the server can go on with it: its connection can be
\* accepted, its session can read some or write some.  The session of a client
\* that is gone has an operation that fails.
NobodyStalled ==
  \A c \in Clients :
    /\ got[c] < sent[c] /\ side[c] # "gone" =>
         \/ accepting /\ conn[c] = "backlog"
         \/ outbox[c] # <<>>
         \/ "read" \in ops[c] /\ inbox[c] # <<>>
         \/ "write" \in ops[c] /\ wrote[c] < Len(data[c]) /\ Len(outbox[c]) < SockBuf
    /\ side[c] = "gone" =>
         \/ conn[c] \in {"none", "closed"} \/ ops[c] # {}
         \/ accepting /\ conn[c] = "backlog"

LEMMA Unstalled == IInv /\ Kept => NobodyStalled
<1> SUFFICES ASSUME IInv, Kept, NEW c \in Clients
             PROVE  /\ got[c] < sent[c] /\ side[c] # "gone" =>
                         \/ accepting /\ conn[c] = "backlog"
                         \/ outbox[c] # <<>>
                         \/ "read" \in ops[c] /\ inbox[c] # <<>>
                         \/ /\ "write" \in ops[c] /\ wrote[c] < Len(data[c])
                            /\ Len(outbox[c]) < SockBuf
                    /\ side[c] = "gone" =>
                         \/ conn[c] \in {"none", "closed"} \/ ops[c] # {}
                         \/ accepting /\ conn[c] = "backlog"
  BY DEF NobodyStalled
<1>1. Shape /\ SessionOK(c)
  BY DEF IInv
<1>2. /\ Sizes(inbox[c], outbox[c], data[c], wrote[c], sent[c], got[c])
      /\ Pending(conn[c], ops[c], data[c], wrote[c])
  BY <1>1 DEF SessionOK, Session
<1>3. (inbox[c] = <<>> => Len(inbox[c]) = 0) /\ (outbox[c] = <<>> => Len(outbox[c]) = 0)
  BY EmptySeq
<1>4. conn[c] \in {"none", "backlog", "open", "closed"} /\ accepting
  BY <1>1 DEF Shape, Kept
<1>5. conn[c] = "open" => ops[c] \in {{"read"}, {"write"}}
  BY <1>2 DEF Pending
<1>6. side[c] = "gone" =>
        \/ conn[c] \in {"none", "closed"} \/ ops[c] # {}
        \/ accepting /\ conn[c] = "backlog"
  BY <1>4, <1>5
<1>7. ASSUME got[c] < sent[c], side[c] # "gone", conn[c] # "backlog", outbox[c] = <<>>
      PROVE  \/ "read" \in ops[c] /\ inbox[c] # <<>>
             \/ "write" \in ops[c] /\ wrote[c] < Len(data[c]) /\ Len(outbox[c]) < SockBuf
  <2>1. sent[c] \in Nat /\ got[c] \in Nat /\ Len(outbox[c]) = 0
    BY <1>2, <1>3, <1>7 DEF Sizes
  <2>2. conn[c] = "open"
    BY <1>4, <1>7, <2>1 DEF Kept
  <2>3. CASE ops[c] = {"write"}
    BY <1>2, <2>1, <2>3, Constants DEF Pending
  <2>4. CASE ops[c] = {"read"}
    <3>1. wrote[c] = Len(data[c])
      BY <1>2, <2>2, <2>4 DEF Pending
    <3>2. Len(inbox[c]) # 0
      BY <1>2, <1>7, <2>1, <3>1 DEF Sizes
    <3> QED
      BY <1>3, <2>4, <3>2
  <2> QED
    BY <1>5, <2>2, <2>3, <2>4
<1> QED
  BY <1>4, <1>6, <1>7

\* The bytes of a client move three times each, at most.
MovesBounded == \A c \in Clients : Progress(c) \in 0 .. 3 * sent[c]

LEMMA Bounded == IInv => MovesBounded
<1> SUFFICES ASSUME IInv, NEW c \in Clients PROVE Progress(c) \in 0 .. 3 * sent[c]
  BY DEF MovesBounded
<1>1. Sizes(inbox[c], outbox[c], data[c], wrote[c], sent[c], got[c])
  BY DEF IInv, SessionOK, Session
<1>2. /\ Len(outbox[c]) \in Nat /\ Len(data[c]) \in Nat /\ Len(inbox[c]) \in Nat
      /\ sent[c] \in Nat /\ got[c] \in Nat /\ wrote[c] \in Nat /\ wrote[c] <= Len(data[c])
      /\ Len(outbox[c]) + (Len(data[c]) - wrote[c]) + Len(inbox[c]) = sent[c] - got[c]
  BY <1>1 DEF Sizes
<1>3. \A o, d, w, i, s, g \in Nat :
        w <= d /\ o + (d - w) + i = s - g => o + i + g <= s
  OBVIOUS
<1>4. Len(outbox[c]) + Len(inbox[c]) + got[c] <= sent[c]
  BY <1>2, <1>3, Zenon
<1> QED
  BY <1>2, <1>4, MovedMore, Zenon DEF Progress

\* No client is ever left waiting for nothing, and what is done for it brings
\* it on, in at most 3 * sent[c] steps: fairness is all that a client that reads
\* needs to get back every byte, whatever the others do.
THEOREM NobodyWaitsForNothing ==
  Spec => [](NobodyStalled /\ MovesBounded) /\ [][StepsForward]_vars
<1>1. Init => Kept
  BY DEF Init, Kept
<1>2. Spec => [](NobodyStalled /\ MovesBounded)
  BY <1>1, KeptOK, Unstalled, Bounded, Invariance, PTL DEF Spec
<1>3. IInv /\ [Next]_vars => [StepsForward]_vars
  BY StepForward DEF StepsForward
<1> QED
  BY <1>2, <1>3, Invariance, PTL DEF Spec
=============================================================================
