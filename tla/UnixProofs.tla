----------------------------- MODULE UnixProofs -----------------------------
(***************************************************************************)
(* What holds of the AF_UNIX sockets for any number of processes, sockets  *)
(* and names, and any sizes of rings and queues.                           *)
(***************************************************************************)
EXTENDS UnixSock, TLAPS

\* n payload bytes are n cells
LEMMA BytesTyped ==
  ASSUME NEW n \in Nat
  PROVE  Bytes(n) \in Seq(Cell) /\ Len(Bytes(n)) = n
  <1>1. Byte \in Cell
    BY UnixAssumption DEF UnixAssumption, Byte, Cell
  <1>2. Bytes(n) \in [1..n -> Cell]
    BY <1>1, Zenon DEF Bytes
  <1>. QED
    BY <1>2

\* What UnixAssumption says, in the form in which it is used
LEMMA ConstantsTyped ==
  /\ {RingSz, MaxLen, Backlog, ScmMax, ScmQLen, MaxRefs} \subseteq Nat \ {0}
  /\ Types \subseteq {"stream", "framed"}
  /\ Nil \notin Procs \cup Socks \cup Names \cup Files
  BY UnixAssumption, Zenon DEF UnixAssumption

\* The elements of a sequence
LEMMA SeqElement ==
  ASSUME NEW S, NEW q \in Seq(S), NEW i \in 1..Len(q)
  PROVE  q[i] \in S
  OBVIOUS

-----------------------------------------------------------------------------
(* The steps of the system, by what they do to the sockets.                *)

\* The connection that y stands for is that of x: only its data may differ
Same(y, x) == /\ y.state = x.state /\ y.type = x.type /\ y.peer = x.peer /\ y.pend = x.pend
              /\ y.backlog = x.backlog /\ y.name = x.name

\* Only the data of socket t changes
Touches(t) == /\ t \in Live
              /\ sock' = [sock EXCEPT ![t] = sock'[t]]
              /\ sock'[t] \in Sock /\ Same(sock'[t], sock[t])
              /\ UNCHANGED <<open, bound>>

\* What a process in call c waits for has not come
Waits(c) ==
  /\ c \in Restarts /\ c.s \in open
  /\ c.op \in {"recv", "recvmsg"} /\ sock[c.s].type = "stream" => Used(c.s) = 0 /\ sock[c.s].peer # Nil
  /\ c.op = "recvframed" => sock[c.s].msgs = 0
  /\ c.op = "accept" => sock[c.s].pend = <<>>

FailStep == /\ \E p \in Procs \ parked : Returns(p)
            /\ UNCHANGED <<sock, open, bound, parked>>
BlockStep == \E p \in Procs \ parked : \E c \in Restarts : Waits(c) /\ Blocks(p, c)

\* Data, or a record, goes into the ring of t
Gets(t, n) == /\ sock'[t].ring = sock[t].ring \o Bytes(n) /\ Used(t) + n <= RingSz
              /\ sock'[t].msgs = sock[t].msgs
              /\ sock[t].type = "framed" => "send" \in Calls
GetsRecord(t, n, s) == /\ sock'[t].ring = sock[t].ring \o <<Header(n, s)>> \o Bytes(n)
                       /\ Used(t) + n + 1 <= RingSz
                       /\ sock'[t].msgs = sock[t].msgs + 1
WriteStep == /\ \E p \in Procs : Returns(p)
             /\ parked' = {}
             /\ \E t \in Socks, n \in 1..MaxLen :
                  Touches(t) /\ (Gets(t, n) \/ \E s \in Socks : GetsRecord(t, n, s))

\* Something is taken out of the ring of s
ReadStep == /\ \E p \in Procs \ parked : Returns(p)
            /\ UNCHANGED parked
            /\ \E s \in open, n \in Nat :
                 /\ Touches(s) /\ Used(s) > 0
                 /\ sock'[s].ring = SubSeq(sock[s].ring, n + 1, Used(s))
                 /\ sock[s].type = "stream" => sock'[s].msgs = sock[s].msgs
                 /\ sock[s].type = "framed" =>
                      /\ sock[s].msgs > 0 /\ sock'[s].msgs = sock[s].msgs - 1
                      /\ sock[s].ring[1].len >= 0 => n = sock[s].ring[1].len + 1

\* Memory that is free is blank; peers are mutual; a queue is that of a
\* descriptor and its children are distinct sockets without one, and all of
\* those are queued; a name is bound to a descriptor
Blank == \A s \in Socks : sock[s].state = "free" => sock[s] = Free
Mutual == \A s \in Socks : sock[s].peer # Nil =>
            sock[s].state = "connected" /\ sock[sock[s].peer].peer = s
PendOpen == \A s \in Socks \ open : sock[s].pend = <<>>
PendShort == \A s \in Socks : Len(sock[s].pend) <= Backlog
PendLive == \A s \in Socks : \A i \in 1..Len(sock[s].pend) : sock[s].pend[i] \in Live \ open
PendOnce == \A s, t \in Socks : \A i \in 1..Len(sock[s].pend), j \in 1..Len(sock[t].pend) :
              sock[s].pend[i] = sock[t].pend[j] => s = t /\ i = j
PendAll == \A k \in Live \ open : \E s \in Socks : \E i \in 1..Len(sock[s].pend) : sock[s].pend[i] = k
Queues == PendOpen /\ PendShort /\ PendLive /\ PendOnce /\ PendAll
Names1 == \A n \in Names : bound[n] # Nil => bound[n] \in open
Struct == /\ sock \in [Socks -> Sock] /\ open \subseteq Live /\ bound \in [Names -> Socks \cup {Nil}]
          /\ Blank /\ Mutual /\ Queues /\ Names1
Callers == /\ call \in [Procs -> {Idle} \cup Restarts] /\ parked \subseteq Procs
           /\ \A p \in parked : Waits(call[p])
UnixInv == TypeOK /\ Struct /\ Callers

\* A socket that unix_socket_create() makes is one, also when it is connected at once
LEMMA NewTyped ==
  ASSUME NEW type \in {"stream", "framed"}
  PROVE  /\ New(type) \in Sock /\ Free \in Sock
         /\ New(type).state = "idle" /\ New(type).type = type /\ New(type).peer = Nil
         /\ New(type).ring = <<>> /\ New(type).msgs = 0 /\ New(type).scm = <<>>
         /\ New(type).pend = <<>> /\ New(type).backlog = 0 /\ New(type).name = Nil
  <1>0. Backlog \in Nat
    BY ConstantsTyped, Zenon
  <1>1. Free \in Sock
    BY <1>0 DEF Free, Sock
  <1>2. New(type) \in Sock
    BY <1>1, Zenon DEF New, Sock
  <1>. QED
    BY <1>1, <1>2, Zenon DEF New, Free

\* What a socket is made of
LEMMA SockTyped ==
  ASSUME TypeOK, NEW s \in Socks
  PROVE  /\ sock[s] \in Sock
         /\ sock[s].ring \in Seq(Cell) /\ sock[s].msgs \in Nat /\ sock[s].pend \in Seq(Socks)
         /\ sock[s].scm \in Seq([off : Int, fs : FileSeqs]) /\ sock[s].peer \in Socks \cup {Nil}
         /\ sock[s].type \in {"stream", "framed"} /\ sock[s].backlog \in 0..Backlog
         /\ sock[s].state \in {"free", "idle", "listening", "connected"}
         /\ Used(s) \in Nat
  <1>1. sock[s] \in Sock
    BY Zenon DEF TypeOK
  <1>. QED
    BY <1>1 DEF Sock, Used

\* A peer exists and has its own socket as peer
LEMMA PeerLive ==
  ASSUME TypeOK, Mutual, NEW s \in Socks, sock[s].peer # Nil
  PROVE  sock[s].peer \in Live
  <1>1. sock[s].peer \in Socks
    BY SockTyped, Zenon
  <1>2. sock[sock[s].peer].peer = s
    BY Zenon DEF Mutual
  <1>3. s # Nil
    BY ConstantsTyped, Zenon
  <1>4. sock[sock[s].peer].state = "connected"
    BY <1>1, <1>2, <1>3, Zenon DEF Mutual
  <1>. QED
    BY <1>1, <1>4, Zenon DEF Live

\* One socket is replaced by one with the same connection
LEMMA TouchOne ==
  ASSUME TypeOK, NEW t \in Live, NEW y \in Sock, Same(y, sock[t]),
         sock' = [sock EXCEPT ![t] = y], UNCHANGED <<open, bound>>
  PROVE  Touches(t) /\ sock'[t] = y
  <1>1. t \in Socks
    BY Zenon DEF Live
  <1>2. sock'[t] = y
    BY <1>1, Zenon DEF TypeOK
  <1>. QED
    BY <1>2, Zenon DEF Touches

\* A call that fails only returns
LEMMA FailsIs ==
  ASSUME NEW p \in Procs \ parked, Fails(p)
  PROVE  FailStep
  BY Zenon DEF FailStep, Fails, NoWake

\* A call that blocks is one that may be made again
LEMMA BlocksIs ==
  ASSUME NEW p \in Procs, NEW c, Makes(p, c), Waits(c), Blocks(p, c)
  PROVE  BlockStep
  BY Zenon DEF BlockStep, Makes, Waits

\* The calls that write and those that read
WriteCall(p) == \E s \in Socks, n \in 1..MaxLen :
                  \/ Send(p, s, n)
                  \/ \E m \in Names : Sendto(p, s, m, n)
                  \/ \E fs \in FileSeqs : Sendmsg(p, s, n, fs)
ReadCall(p) == \E s \in Socks : \/ \E n \in 1..MaxLen : \/ Recv(p, s, n)
                                                        \/ \E room \in {0, ScmMax} : Recvmsg(p, s, n, room)
                                \/ RecvFramed(p, s)

\* A call that writes fails, blocks or puts data into one ring
LEMMA WriteCalls ==
  \A p \in Procs : UnixInv /\ WriteCall(p) => FailStep \/ BlockStep \/ WriteStep
  \* A field that keeps its value may as well be updated
  <1>Record.
    ASSUME UnixInv, NEW t \in Socks, NEW r, NEW m
    PROVE  [sock EXCEPT ![t].ring = r, ![t].msgs = m] =
             [sock EXCEPT ![t] = [sock[t] EXCEPT !.ring = r, !.msgs = m, !.scm = sock[t].scm]]
    <2>1. sock[t] \in Sock
      BY <1>Record, SockTyped, Zenon DEF UnixInv
    <2>2. [sock[t] EXCEPT !.ring = r, !.msgs = m] = [sock[t] EXCEPT !.ring = r, !.msgs = m, !.scm = sock[t].scm]
      BY <2>1, Zenon DEF Sock
    <2>. QED
      BY <2>2, Zenon
  <1>Stream.
    ASSUME UnixInv, NEW t \in Socks, NEW r, NEW q
    PROVE  [sock EXCEPT ![t].ring = r, ![t].scm = q] =
             [sock EXCEPT ![t] = [sock[t] EXCEPT !.ring = r, !.msgs = sock[t].msgs, !.scm = q]]
    <2>1. sock[t] \in Sock
      BY <1>Stream, SockTyped, Zenon DEF UnixInv
    <2>2. [sock[t] EXCEPT !.ring = r, !.scm = q] = [sock[t] EXCEPT !.ring = r, !.msgs = sock[t].msgs, !.scm = q]
      BY <2>1, Zenon DEF Sock
    <2>. QED
      BY <2>2, Zenon
  <1>SentIs.
    ASSUME UnixInv, NEW t \in Socks, NEW n, sock' = Sent(t, n)
    PROVE  sock' = [sock EXCEPT ![t].ring = @ \o Bytes(n), ![t].scm = sock[t].scm]
    <2>1. sock[t] \in Sock
      BY <1>SentIs, SockTyped, Zenon DEF UnixInv
    <2> DEFINE r == sock[t].ring \o Bytes(n)
    <2>2. sock' = [sock EXCEPT ![t].ring = r]
      BY <1>SentIs, Zenon DEF Sent
    <2>3. [sock EXCEPT ![t].ring = @ \o Bytes(n), ![t].scm = sock[t].scm] =
            [sock EXCEPT ![t].ring = r, ![t].scm = sock[t].scm]
      BY Zenon
    <2> HIDE DEF r
    <2>4. [sock[t] EXCEPT !.ring = r] = [sock[t] EXCEPT !.ring = r, !.scm = sock[t].scm]
      BY <2>1, Zenon DEF Sock
    <2>. QED
      BY <2>2, <2>3, <2>4, Zenon
  \* Bytes for t
  <1>BytesFor.
    ASSUME UnixInv, NEW p \in Procs, NEW t \in Live, NEW n \in 1..MaxLen, Space(t) >= n,
           NEW q \in Seq([off : Int, fs : FileSeqs]),
           sock' = [sock EXCEPT ![t].ring = @ \o Bytes(n), ![t].scm = q],
           sock[t].type = "framed" => "send" \in Calls,
           Returns(p), Wakes, UNCHANGED <<open, bound>>
    PROVE  WriteStep
    <2> USE <1>BytesFor
    <2>1. t \in Socks /\ n \in Nat
      BY ConstantsTyped DEF Live
    <2>2. sock[t].ring \in Seq(Cell) /\ sock[t].msgs \in Nat /\ sock[t] \in Sock
      BY <2>1, SockTyped, Zenon DEF UnixInv
    <2>3. Bytes(n) \in Seq(Cell) /\ Len(Bytes(n)) = n
      BY <2>1, BytesTyped, Zenon
    <2> DEFINE r == sock[t].ring \o Bytes(n)
    <2>4. r \in Seq(Cell)
      BY <2>2, <2>3
    <2>5. sock' = [sock EXCEPT ![t].ring = r, ![t].scm = q]
      BY Zenon
    <2> HIDE DEF r
    <2> DEFINE y == [sock[t] EXCEPT !.ring = r, !.msgs = sock[t].msgs, !.scm = q]
    <2>6. sock' = [sock EXCEPT ![t] = y]
      BY <2>1, <2>5, <1>Stream, ZenonT(40)
    <2>65. y = [sock[t] EXCEPT !.ring = r, !.msgs = sock[t].msgs, !.scm = q]
      BY Zenon
    <2> HIDE DEF y
    <2>7. y \in Sock /\ Same(y, sock[t]) /\ y.ring = r /\ y.msgs = sock[t].msgs
      BY <2>2, <2>4, <2>65, Zenon DEF Sock, Same
    <2>71. Touches(t) /\ sock'[t] = y
      BY <2>6, <2>7, TouchOne, Zenon DEF UnixInv
    <2>8. Used(t) + n <= RingSz
      BY <2>1, <2>2, ConstantsTyped, SMTT(30) DEF Space, Used
    <2>9. Gets(t, n)
      BY <2>7, <2>71, <2>8, Zenon DEF Gets, r
    <2>. QED
      BY <2>1, <2>71, <2>9, Zenon DEF WriteStep, Wakes
  \* A record for t
  <1>RecordFor.
    ASSUME UnixInv, NEW p \in Procs, NEW t \in Live, NEW s \in Socks, NEW n \in 1..MaxLen, Space(t) >= n + 1,
           sock' = [sock EXCEPT ![t].ring = @ \o <<Header(n, s)>> \o Bytes(n), ![t].msgs = @ + 1],
           Returns(p), Wakes, UNCHANGED <<open, bound>>
    PROVE  WriteStep
    <2> USE <1>RecordFor
    <2>1. t \in Socks /\ n \in Nat
      BY ConstantsTyped DEF Live
    <2>2. sock[t].ring \in Seq(Cell) /\ sock[t].msgs \in Nat /\ sock[t].scm \in Seq([off : Int, fs : FileSeqs])
          /\ sock[t] \in Sock
      BY <2>1, SockTyped, Zenon DEF UnixInv
    <2>3. Bytes(n) \in Seq(Cell) /\ Len(Bytes(n)) = n
      BY <2>1, BytesTyped, Zenon
    <2>4. Header(n, s) \in Cell
      BY <2>1, ConstantsTyped DEF Header, Cell
    <2> DEFINE r == sock[t].ring \o <<Header(n, s)>> \o Bytes(n)
               m == sock[t].msgs + 1
    <2>5. r \in Seq(Cell) /\ m \in Nat
      BY <2>2, <2>3, <2>4
    <2>6. sock' = [sock EXCEPT ![t].ring = r, ![t].msgs = m]
      BY Zenon
    <2> HIDE DEF r, m
    <2> DEFINE y == [sock[t] EXCEPT !.ring = r, !.msgs = m, !.scm = sock[t].scm]
    <2>7. sock' = [sock EXCEPT ![t] = y]
      BY <2>1, <2>6, <1>Record, ZenonT(40)
    <2>75. y = [sock[t] EXCEPT !.ring = r, !.msgs = m, !.scm = sock[t].scm]
      BY Zenon
    <2> HIDE DEF y
    <2>8. y \in Sock /\ Same(y, sock[t]) /\ y.ring = r /\ y.msgs = m
      BY <2>2, <2>5, <2>75, Zenon DEF Sock, Same
    <2>81. Touches(t) /\ sock'[t] = y
      BY <2>7, <2>8, TouchOne, Zenon DEF UnixInv
    <2>9. Used(t) + n + 1 <= RingSz
      BY <2>1, <2>2, ConstantsTyped, SMTT(30) DEF Space, Used
    <2>10. GetsRecord(t, n, s)
      BY <2>8, <2>81, <2>9, Zenon DEF GetsRecord, r, m
    <2>. QED
      BY <2>1, <2>81, <2>10, Zenon DEF WriteStep, Wakes
  <1>FramedIs.
    ASSUME UnixInv, NEW p \in Procs, NEW s \in Socks, NEW t \in Live, NEW n \in 1..MaxLen, NEW c,
           Makes(p, c), Waits(c), Framed(p, c, s, t, n)
    PROVE  FailStep \/ BlockStep \/ WriteStep
    <2> USE <1>FramedIs
    <2>1. CASE Fails(p)
      BY <2>1, FailsIs, Zenon DEF Makes
    <2>2. CASE Blocks(p, c)
      BY <2>2, BlocksIs, Zenon
    <2>3. CASE /\ Space(t) >= n + 1
               /\ sock' = [sock EXCEPT ![t].ring = @ \o <<Header(n, s)>> \o Bytes(n), ![t].msgs = @ + 1]
               /\ Returns(p) /\ Wakes /\ UNCHANGED <<open, bound>>
      BY <2>3, <1>RecordFor, Zenon
    <2>. QED
      BY <2>1, <2>2, <2>3, Zenon DEF Framed
  <1>SendIs.
    ASSUME UnixInv, NEW p \in Procs, NEW s \in Socks, NEW n \in 1..MaxLen, Send(p, s, n)
    PROVE  FailStep \/ BlockStep \/ WriteStep
    <2> USE <1>SendIs
    <2> DEFINE t == sock[s].peer
               c == [op |-> "send", s |-> s, len |-> n]
    <2>1. CASE Fails(p)
      BY <2>1, FailsIs, Zenon DEF Send, Makes
    <2>2. CASE s \in open /\ Blocks(p, c)
      <3>1. c \in Restarts /\ c.s = s /\ c.op = "send"
        BY Zenon DEF Restarts
      <3>2. Waits(c)
        BY <2>2, <3>1, Zenon DEF Waits
      <3>. QED
        BY <2>2, <3>2, BlocksIs, Zenon DEF Send
    <2>3. CASE /\ s \in open /\ t # Nil
               /\ Space(t) >= n /\ sock' = Sent(t, n)
               /\ Returns(p) /\ Wakes /\ UNCHANGED <<open, bound>>
      <3>1. t \in Live /\ t \in Socks
        BY <2>3, PeerLive, Zenon DEF UnixInv, Struct, Live
      <3>2. sock[t].scm \in Seq([off : Int, fs : FileSeqs]) /\ sock[t] \in Sock
        BY <3>1, SockTyped, Zenon DEF UnixInv
      <3>3. sock' = [sock EXCEPT ![t].ring = @ \o Bytes(n), ![t].scm = sock[t].scm]
        BY <2>3, <3>1, <1>SentIs, Zenon
      <3>4. "send" \in Calls
        BY Zenon DEF Send, Makes
      <3>. QED
        BY <2>3, <3>1, <3>2, <3>3, <3>4, <1>BytesFor, Zenon
    <2>. QED
      BY <2>1, <2>2, <2>3, Zenon DEF Send
  <1>SendtoIs.
    ASSUME UnixInv, NEW p \in Procs, NEW s \in Socks, NEW m \in Names, NEW n \in 1..MaxLen, Sendto(p, s, m, n)
    PROVE  FailStep \/ BlockStep \/ WriteStep
    <2> USE <1>SendtoIs
    <2> DEFINE t == IF sock[s].peer # Nil THEN sock[s].peer ELSE bound[m]
               c == [op |-> "sendto", s |-> s, n |-> m, len |-> n]
    <2>1. CASE Fails(p)
      BY <2>1, FailsIs, Zenon DEF Sendto, Makes
    <2>2. CASE s \in open /\ t # Nil /\ Framed(p, c, s, t, n)
      <3>1. t \in Live
        <4>1. CASE sock[s].peer # Nil
          BY <4>1, PeerLive, Zenon DEF UnixInv, Struct
        <4>2. CASE sock[s].peer = Nil
          BY <2>2, <4>2, Zenon DEF UnixInv, Struct, Names1, TypeOK
        <4>. QED
          BY <4>1, <4>2, Zenon
      <3>2. c \in Restarts /\ c.s = s /\ c.op = "sendto"
        BY Zenon DEF Restarts
      <3>3. Waits(c) /\ Makes(p, c)
        BY <2>2, <3>2, Zenon DEF Waits, Sendto
      <3> HIDE DEF c, t
      <3>. QED
        BY <2>2, <3>1, <3>3, <1>FramedIs, Zenon
    <2>. QED
      BY <2>1, <2>2, Zenon DEF Sendto
  <1>SendmsgIs.
    ASSUME UnixInv, NEW p \in Procs, NEW s \in Socks, NEW n \in 1..MaxLen, NEW fs \in FileSeqs,
           Sendmsg(p, s, n, fs)
    PROVE  FailStep \/ BlockStep \/ WriteStep
    <2> USE <1>SendmsgIs
    <2> DEFINE t == sock[s].peer
               c == [op |-> "sendmsg", s |-> s, len |-> n, fs |-> fs]
               rec == [off |-> Boundary(t, n), fs |-> fs]
    <2>1. CASE Fails(p)
      BY <2>1, FailsIs, Zenon DEF Sendmsg, Makes
    <2>2. CASE ~ Fails(p)
      <3>1. s \in open /\ t # Nil
        BY <2>2, Zenon DEF Sendmsg
      <3>2. t \in Live /\ t \in Socks
        BY <3>1, PeerLive, Zenon DEF UnixInv, Struct, Live
      <3>3. sock[t].scm \in Seq([off : Int, fs : FileSeqs]) /\ sock[t] \in Sock /\ Used(t) \in Nat
            /\ sock[t].type \in {"stream", "framed"}
        BY <3>2, SockTyped, Zenon DEF UnixInv
      <3>4. c \in Restarts /\ c.s = s /\ c.op = "sendmsg"
        BY Zenon DEF Restarts
      <3>5. Waits(c) /\ Makes(p, c)
        BY <3>1, <3>4, Zenon DEF Waits, Sendmsg
      <3>6. CASE sock[t].type = "framed"
        <4>1. CASE Framed(p, c, s, t, n)
          <5> HIDE DEF c, t
          <5>. QED
            BY <3>2, <3>5, <4>1, <1>FramedIs, Zenon
        <4>2. CASE /\ Space(t) >= n + 1
                   /\ sock' = [sock EXCEPT ![t].ring = @ \o <<Header(n, s)>> \o Bytes(n), ![t].msgs = @ + 1]
                   /\ Returns(p) /\ Wakes /\ UNCHANGED <<open, bound>>
          BY <3>2, <4>2, <1>RecordFor, Zenon
        <4>. QED
          BY <2>2, <3>1, <3>6, <4>1, <4>2, Zenon DEF Sendmsg
      <3>7. CASE sock[t].type = "stream"
        <4>1. CASE Blocks(p, c)
          BY <3>5, <4>1, BlocksIs, Zenon
        <4>2. CASE /\ Space(t) >= n /\ Returns(p) /\ Wakes /\ UNCHANGED <<open, bound>>
                   /\ sock' = [sock EXCEPT ![t].ring = @ \o Bytes(n), ![t].scm = Append(@, rec)]
          <5> DEFINE q == Append(sock[t].scm, rec)
          <5>1. Boundary(t, n) \in Int
            BY <3>3, ConstantsTyped DEF Boundary
          <5>2. q \in Seq([off : Int, fs : FileSeqs])
            BY <3>3, <5>1
          <5>3. sock' = [sock EXCEPT ![t].ring = @ \o Bytes(n), ![t].scm = q]
            BY <4>2, Zenon
          <5> HIDE DEF q
          <5>. QED
            BY <3>2, <3>7, <4>2, <5>2, <5>3, <1>BytesFor, Zenon
        <4>3. CASE /\ Space(t) >= n /\ Returns(p) /\ Wakes /\ UNCHANGED <<open, bound>>
                   /\ sock' = Sent(t, n)
          <5>1. sock' = [sock EXCEPT ![t].ring = @ \o Bytes(n), ![t].scm = sock[t].scm]
            BY <3>2, <4>3, <1>SentIs, Zenon
          <5>. QED
            BY <3>2, <3>3, <3>7, <4>3, <5>1, <1>BytesFor, Zenon
        <4>. QED
          BY <2>2, <3>1, <3>7, <4>1, <4>2, <4>3, Zenon DEF Sendmsg
      <3>. QED
        BY <3>3, <3>6, <3>7, Zenon
    <2>. QED
      BY <2>1, <2>2, Zenon
  <1>. QED
    BY <1>SendIs, <1>SendtoIs, <1>SendmsgIs, Zenon DEF WriteCall

\* A call that reads fails, blocks or takes data out of one ring
LEMMA ReadCalls ==
  \A p \in Procs : UnixInv /\ ReadCall(p) => FailStep \/ BlockStep \/ ReadStep
  <1>ConsumedTyped.
    ASSUME NEW x \in Sock, NEW n \in Nat
    PROVE  /\ Consumed(x, n) \in Sock /\ Same(Consumed(x, n), x)
           /\ Consumed(x, n).ring = SubSeq(x.ring, n + 1, Len(x.ring))
           /\ Consumed(x, n).msgs = x.msgs
    <2> USE <1>ConsumedTyped
    <2>1. /\ x.ring \in Seq(Cell) /\ x.scm \in Seq([off : Int, fs : FileSeqs]) /\ x.msgs \in Nat
          /\ x = [state |-> x.state, type |-> x.type, peer |-> x.peer, ring |-> x.ring, msgs |-> x.msgs,
                  scm |-> x.scm, pend |-> x.pend, backlog |-> x.backlog, name |-> x.name]
      BY Zenon DEF Sock
    <2> DEFINE q == [i \in DOMAIN x.scm |-> [x.scm[i] EXCEPT !.off = @ - n]]
               r == SubSeq(x.ring, n + 1, Len(x.ring))
    <2>2. q \in Seq([off : Int, fs : FileSeqs])
      <3>1. ASSUME NEW i \in 1..Len(x.scm)
            PROVE  [x.scm[i] EXCEPT !.off = @ - n] \in [off : Int, fs : FileSeqs]
        <4>1. x.scm[i] \in [off : Int, fs : FileSeqs]
          BY <2>1, SeqElement, Zenon
        <4>. QED
          BY <4>1
      <3>2. DOMAIN x.scm = 1..Len(x.scm) /\ Len(x.scm) \in Nat
        BY <2>1
      <3>3. q \in [1..Len(x.scm) -> [off : Int, fs : FileSeqs]]
        BY <3>1, <3>2, Zenon
      <3>. QED
        BY <3>2, <3>3
    <2>3. r \in Seq(Cell)
      BY <2>1
    <2>4. Consumed(x, n) = [x EXCEPT !.ring = r, !.scm = q]
      BY Zenon DEF Consumed
    <2> HIDE DEF q, r
    <2>5. [x EXCEPT !.ring = r, !.scm = q] \in Sock
      BY <2>2, <2>3, Zenon DEF Sock
    <2>6. Same([x EXCEPT !.ring = r, !.scm = q], x) /\ [x EXCEPT !.ring = r, !.scm = q].ring = r
          /\ [x EXCEPT !.ring = r, !.scm = q].msgs = x.msgs
      BY Zenon DEF Sock, Same
    <2>. QED
      BY <2>4, <2>5, <2>6, Zenon DEF r
  <1>RestTyped.
    ASSUME NEW S, NEW q \in Seq(S), NEW d \in 0..Len(q)
    PROVE  Rest(q, d) \in Seq(S)
    BY <1>RestTyped DEF Rest
  \* Cells are taken out of a stream, and the first records of files with them
  <1>StreamRead.
    ASSUME UnixInv, NEW p \in Procs \ parked, NEW s \in open, NEW n \in Nat, NEW x,
           NEW d \in 0..Len(x.scm), x = Consumed(sock[s], n),
           sock[s].type = "stream", Used(s) > 0,
           sock' = [sock EXCEPT ![s] = [x EXCEPT !.scm = Rest(@, d)]],
           Returns(p), NoWake, UNCHANGED <<open, bound>>
    PROVE  ReadStep
    <2> USE <1>StreamRead
    <2>1. s \in Live /\ s \in Socks
      BY Zenon DEF UnixInv, TypeOK, Live
    <2>2. sock[s] \in Sock
      BY <2>1, SockTyped, Zenon DEF UnixInv
    <2>3. x \in Sock /\ Same(x, sock[s]) /\ x.ring = SubSeq(sock[s].ring, n + 1, Used(s)) /\ x.msgs = sock[s].msgs
      BY <2>2, <1>ConsumedTyped, Zenon DEF Used
    <2>4. x.scm \in Seq([off : Int, fs : FileSeqs])
      BY <2>3, Zenon DEF Sock
    <2> DEFINE q == Rest(x.scm, d)
    <2>5. q \in Seq([off : Int, fs : FileSeqs])
      BY <2>4, <1>RestTyped, Zenon
    <2> DEFINE y == [x EXCEPT !.scm = q]
    <2>6. sock' = [sock EXCEPT ![s] = y]
      BY Zenon
    <2> HIDE DEF q
    <2>7. y \in Sock /\ Same(y, sock[s]) /\ y.ring = x.ring /\ y.msgs = x.msgs
      BY <2>3, <2>5, Zenon DEF Sock, Same
    <2> HIDE DEF y
    <2>8. Touches(s) /\ sock'[s] = y
      BY <2>1, <2>6, <2>7, TouchOne, Zenon DEF UnixInv
    <2>. QED
      BY <2>3, <2>7, <2>8, SMTT(30) DEF ReadStep, NoWake
  <1>RecvIs.
    ASSUME UnixInv, NEW p \in Procs, NEW s \in Socks, NEW n \in 1..MaxLen, Recv(p, s, n)
    PROVE  FailStep \/ BlockStep \/ ReadStep
    <2> USE <1>RecvIs
    <2> DEFINE c == [op |-> "recv", s |-> s, len |-> n]
               k == IF Used(s) < n THEN Used(s) ELSE n
               x == Consumed(sock[s], k)
    <2>1. CASE Fails(p)
      BY <2>1, FailsIs, Zenon DEF Recv, Makes
    <2>2. CASE s \in open /\ Blocks(p, c) /\ (sock[s].type = "framed" \/ (Used(s) = 0 /\ sock[s].peer # Nil))
      <3>1. c \in Restarts /\ c.s = s /\ c.op = "recv"
        BY Zenon DEF Restarts
      <3>2. Waits(c) /\ Makes(p, c)
        BY <2>2, <3>1, Zenon DEF Waits, Recv
      <3>. QED
        BY <2>2, <3>2, BlocksIs, Zenon
    <2>3. CASE /\ s \in open /\ sock[s].type = "stream" /\ Used(s) > 0
               /\ \E d \in 0..Len(x.scm) : sock' = [sock EXCEPT ![s] = [x EXCEPT !.scm = Rest(@, d)]]
               /\ Returns(p) /\ NoWake /\ UNCHANGED <<open, bound>>
      <3>1. k \in Nat
        BY SockTyped, ConstantsTyped DEF UnixInv
      <3> HIDE DEF k, x
      <3>3. x = Consumed(sock[s], k)
        BY Zenon DEF x
      <3>4. p \notin parked
        BY Zenon DEF Recv, Makes
      <3>. QED
        BY <2>3, <3>1, <3>3, <3>4, <1>StreamRead, Zenon
    <2>. QED
      BY <2>1, <2>2, <2>3 DEF Recv
  <1>RecvmsgIs.
    ASSUME UnixInv, NEW p \in Procs, NEW s \in Socks, NEW n \in 1..MaxLen, NEW room, Recvmsg(p, s, n, room)
    PROVE  FailStep \/ BlockStep \/ ReadStep
    <2> USE <1>RecvmsgIs
    <2> DEFINE c == [op |-> "recvmsg", s |-> s, len |-> n]
               k == IF Used(s) < n THEN Used(s) ELSE n
               x == Consumed(sock[s], k)
    <2>1. CASE Fails(p)
      BY <2>1, FailsIs, Zenon DEF Recvmsg, Makes
    <2>2. CASE s \in open /\ Blocks(p, c) /\ Used(s) = 0 /\ sock[s].peer # Nil
      <3>1. c \in Restarts /\ c.s = s /\ c.op = "recvmsg"
        BY Zenon DEF Restarts
      <3>2. Waits(c) /\ Makes(p, c)
        BY <2>2, <3>1, Zenon DEF Waits, Recvmsg
      <3>. QED
        BY <2>2, <3>2, BlocksIs, Zenon
    <2>3. CASE /\ s \in open /\ sock[s].type = "stream" /\ Used(s) > 0
               /\ \E d \in 0..Len(x.scm) : sock' = [sock EXCEPT ![s] = [x EXCEPT !.scm = Rest(@, d)]]
               /\ Returns(p) /\ NoWake /\ UNCHANGED <<open, bound>>
      <3>1. k \in Nat
        BY SockTyped, ConstantsTyped DEF UnixInv
      <3> HIDE DEF k, x
      <3>3. x = Consumed(sock[s], k)
        BY Zenon DEF x
      <3>4. p \notin parked
        BY Zenon DEF Recvmsg, Makes
      <3>. QED
        BY <2>3, <3>1, <3>3, <3>4, <1>StreamRead, Zenon
    <2>. QED
      BY <2>1, <2>2, <2>3, Zenon DEF Recvmsg
  <1>RecvFramedIs.
    ASSUME UnixInv, NEW p \in Procs, NEW s \in Socks, RecvFramed(p, s)
    PROVE  FailStep \/ BlockStep \/ ReadStep
    <2> USE <1>RecvFramedIs
    <2> DEFINE c == [op |-> "recvframed", s |-> s]
               h == sock[s].ring[1]
    <2>1. CASE Fails(p)
      BY <2>1, FailsIs, Zenon DEF RecvFramed, Makes
    <2>2. CASE s \in open /\ Blocks(p, c) /\ sock[s].msgs = 0
      <3>1. c \in Restarts /\ c.s = s /\ c.op = "recvframed"
        BY DEF Restarts
      <3>2. Waits(c) /\ Makes(p, c)
        BY <2>2, <3>1, Zenon DEF Waits, RecvFramed
      <3>. QED
        BY <2>2, <3>2, BlocksIs, Zenon
    <2>3. ASSUME NEW n \in IF h.len >= 0 THEN {h.len} ELSE 0..(Used(s) - 1),
                 s \in open, sock[s].type = "framed", Used(s) > 0, sock[s].msgs > 0,
                 sock' = [sock EXCEPT ![s] = [Consumed(sock[s], n + 1) EXCEPT !.msgs = @ - 1]],
                 Returns(p), NoWake, UNCHANGED <<open, bound>>
          PROVE  ReadStep
      <3>1. s \in Live
        BY <2>3, Zenon DEF UnixInv, TypeOK, Live
      <3>2. sock[s] \in Sock /\ sock[s].ring \in Seq(Cell) /\ sock[s].msgs \in Nat
        BY SockTyped, Zenon DEF UnixInv
      <3>3. h \in Cell
        BY <2>3, <3>2 DEF Used
      <3>a. h.len \in Int /\ Used(s) \in Nat
        BY <3>3, ConstantsTyped, SockTyped, SMTT(30) DEF Cell, UnixInv
      <3> HIDE DEF h
      <3>4. n \in Nat /\ (h.len >= 0 => n = h.len)
        BY <2>3, <3>a DEF h
      <3> DEFINE x == Consumed(sock[s], n + 1)
      <3>5. x \in Sock /\ Same(x, sock[s]) /\ x.msgs = sock[s].msgs
            /\ x.ring = SubSeq(sock[s].ring, n + 2, Used(s))
        <4>1. n + 1 \in Nat /\ (n + 1) + 1 = n + 2
          BY <3>4
        <4>. QED
          BY <3>2, <4>1, <1>ConsumedTyped, ZenonT(40) DEF Used
      <3> DEFINE y == [x EXCEPT !.msgs = @ - 1]
      <3>6. sock' = [sock EXCEPT ![s] = y]
        BY <2>3, Zenon
      <3> HIDE DEF x
      <3>b. x.msgs - 1 \in Nat /\ x.msgs - 1 = sock[s].msgs - 1
        BY <2>3, <3>2, <3>5
      <3>7. y \in Sock /\ Same(y, sock[s]) /\ y.ring = x.ring /\ y.msgs = sock[s].msgs - 1
        BY <3>5, <3>b, Zenon DEF Sock, Same
      <3> HIDE DEF y
      <3>8. Touches(s) /\ sock'[s] = y
        BY <2>3, <3>1, <3>6, <3>7, TouchOne, Zenon DEF UnixInv
      <3>c. p \notin parked
        BY Zenon DEF RecvFramed, Makes
      <3>9. n + 1 \in Nat /\ n + 2 = (n + 1) + 1
        BY <3>4
      <3>. QED
        BY <2>3, <3>4, <3>5, <3>7, <3>8, <3>9, <3>c, Zenon DEF ReadStep, NoWake, h
    <2>. QED
      BY <2>1, <2>2, <2>3, Zenon DEF RecvFramed
  <1>. QED
    BY <1>RecvIs, <1>RecvmsgIs, <1>RecvFramedIs, Zenon DEF ReadCall

-----------------------------------------------------------------------------
(* Steps that leave the connections alone.                                 *)

\* The queues are kept by a step that does not change which sockets wait
LEMMA QueuesSame ==
  ASSUME Queues, \A s \in Socks : sock'[s].pend = sock[s].pend,
         Live' \ open' = Live \ open, open \subseteq open'
  PROVE  Queues'
  <1>1. PendOpen' /\ PendShort'
    BY DEF Queues, PendOpen, PendShort
  <1>2. PendLive'
    BY Zenon DEF Queues, PendLive
  <1>3. PendOnce'
    <2> SUFFICES ASSUME NEW s \in Socks, NEW t \in Socks, NEW i \in 1..Len(sock'[s].pend),
                        NEW j \in 1..Len(sock'[t].pend), sock'[s].pend[i] = sock'[t].pend[j]
                 PROVE  s = t /\ i = j
      BY Zenon DEF PendOnce
    <2>1. sock'[s].pend = sock[s].pend /\ sock'[t].pend = sock[t].pend
      BY Zenon
    <2>. QED
      BY <2>1 DEF Queues, PendOnce
  <1>4. PendAll'
    BY DEF Queues, PendAll
  <1>. QED
    BY <1>1, <1>2, <1>3, <1>4, Zenon DEF Queues

\* Where no socket, name or descriptor changes, their structure stays
LEMMA SameKeeps ==
  ASSUME UnixInv, sock' \in [Socks -> Sock], \A s \in Socks : Same(sock'[s], sock[s]),
         \A s \in Socks : sock[s].state = "free" => sock'[s] = sock[s],
         UNCHANGED <<open, bound>>
  PROVE  Struct'
  <1>1. Live' = Live
    BY Zenon DEF Live, Same
  <1>2. /\ \A s \in Socks : sock'[s].peer = sock[s].peer /\ sock'[s].pend = sock[s].pend
        /\ \A s \in Socks : sock'[s].state = sock[s].state
    BY Zenon DEF Same
  <1>3. Blank'
    BY <1>2 DEF UnixInv, Struct, Blank
  <1>4. Mutual'
    <2> SUFFICES ASSUME NEW s \in Socks, sock'[s].peer # Nil
                 PROVE  sock'[s].state = "connected" /\ sock'[sock'[s].peer].peer = s
      BY Zenon DEF Mutual
    <2>1. sock[s].peer \in Socks
      BY <1>2, SockTyped DEF UnixInv
    <2>. QED
      BY <1>2, <2>1 DEF UnixInv, Struct, Mutual
  <1>5. Queues'
    BY <1>1, <1>2, QueuesSame, Zenon DEF UnixInv, Struct
  <1>6. Names1'
    BY Zenon DEF UnixInv, Struct, Names1
  <1>. QED
    BY <1>1, <1>3, <1>4, <1>5, <1>6, Zenon DEF UnixInv, Struct

\* Where data goes into or out of one socket, the connections stay
LEMMA TouchKeeps ==
  ASSUME UnixInv, NEW t \in Socks, Touches(t)
  PROVE  /\ Struct' /\ Live' = Live
         /\ \A s \in Socks \ {t} : sock'[s] = sock[s]
         /\ \A s \in Socks : Same(sock'[s], sock[s])
  <1>1. sock \in [Socks -> Sock] /\ sock'[t] \in Sock /\ sock[t].state # "free"
    BY Zenon DEF UnixInv, Struct, Touches, Live
  <1>2. sock' \in [Socks -> Sock] /\ \A s \in Socks \ {t} : sock'[s] = sock[s]
    BY <1>1, Zenon DEF Touches
  <1>3. \A s \in Socks : Same(sock'[s], sock[s])
    BY <1>2 DEF Touches, Same
  <1>4. UNCHANGED <<open, bound>>
    BY Zenon DEF Touches
  <1>5. \A s \in Socks : sock[s].state = "free" => sock'[s] = sock[s]
    BY <1>1, <1>2, Zenon
  <1>6. Struct'
    BY <1>2, <1>3, <1>4, <1>5, SameKeeps, Zenon
  <1>7. Live' = Live
    BY <1>3, Zenon DEF Same, Live
  <1>. QED
    BY <1>2, <1>3, <1>6, <1>7, Zenon

\* The type invariant is part of the structure
LEMMA TypeIs == ASSUME Struct, Callers PROVE UnixInv
  BY Zenon DEF UnixInv, Struct, Callers, TypeOK

\* The same in the next state
LEMMA TypeIsNext == ASSUME Struct', Callers' PROVE UnixInv'
  BY Zenon DEF UnixInv, Struct, Callers, TypeOK

\* What a parked process waits for is kept by a step that does not change its
\* socket
LEMMA StillWaits ==
  ASSUME NEW c, Waits(c), c.s \in open', sock'[c.s] = sock[c.s]
  PROVE  Waits(c)'
  BY Zenon DEF Waits, Used

\* A process that is not parked, or that the step wakes, gives up its call
LEMMA ReturnKeeps ==
  ASSUME UnixInv, NEW p \in Procs, p \notin parked', Returns(p), parked' \subseteq parked,
         \A q \in parked', c \in Restarts : call[q] = c => Waits(c)'
  PROVE  Callers'
  <1>1. call \in [Procs -> {Idle} \cup Restarts] /\ parked \subseteq Procs
    BY Zenon DEF UnixInv, Callers
  <1>2. call' \in [Procs -> {Idle} \cup Restarts] /\ \A q \in Procs \ {p} : call'[q] = call[q]
    BY <1>1, Zenon DEF Returns
  <1>3. ASSUME NEW q \in parked' PROVE Waits(call[q])'
    <2>1. Waits(call[q])
      BY <1>3, Zenon DEF UnixInv, Callers
    <2>2. call[q] \in Restarts
      BY <2>1, Zenon DEF Waits
    <2>3. PICK c \in Restarts : c = call[q]
      BY <2>2, Zenon
    <2>4. Waits(c)' /\ call'[q] = c
      BY <1>1, <1>2, <1>3, <2>3, Zenon
    <2>. QED
      BY <2>4, Zenon DEF Waits
  <1>. QED
    BY <1>1, <1>2, <1>3 DEF Callers

\* What a call does to data, or in failing or blocking, keeps the invariant
LEMMA DataKeeps ==
  UnixInv /\ (FailStep \/ BlockStep \/ WriteStep \/ ReadStep) => UnixInv'
  <1>FailKeeps.
    ASSUME UnixInv, FailStep
    PROVE  UnixInv'
    <2> USE <1>FailKeeps
    <2>1. PICK p \in Procs \ parked : Returns(p)
      BY Zenon DEF FailStep
    <2>2. UNCHANGED <<sock, open, bound, parked>>
      BY Zenon DEF FailStep
    <2>3. Struct'
      <3>1. \A s \in Socks : Same(sock'[s], sock[s])
        BY <2>2, Zenon DEF Same
      <3>. QED
        BY <2>2, <3>1, SameKeeps, Zenon DEF UnixInv, Struct
    <2>4. ASSUME NEW q \in parked', NEW c \in Restarts, call[q] = c PROVE Waits(c)'
      BY <2>2, <2>4, StillWaits DEF UnixInv, Callers, Waits
    <2>5. Callers'
      BY <2>1, <2>2, <2>4, ReturnKeeps, Zenon
    <2>. QED
      BY <2>3, <2>5, TypeIsNext, Zenon
  <1>BlockKeeps.
    ASSUME UnixInv, BlockStep
    PROVE  UnixInv'
    <2> USE <1>BlockKeeps
    <2>1. PICK p \in Procs \ parked, c \in Restarts : Waits(c) /\ Blocks(p, c)
      BY Zenon DEF BlockStep
    <2>2. UNCHANGED <<sock, open, bound>>
      BY <2>1, Zenon DEF Blocks
    <2>3. Struct'
      <3>1. \A s \in Socks : Same(sock'[s], sock[s])
        BY <2>2, Zenon DEF Same
      <3>. QED
        BY <2>2, <3>1, SameKeeps, Zenon DEF UnixInv, Struct
    <2>4. call' \in [Procs -> {Idle} \cup Restarts] /\ parked' = parked \cup {p}
          /\ call'[p] = c /\ \A q \in Procs \ {p} : call'[q] = call[q]
      BY <2>1 DEF UnixInv, Callers, Blocks
    <2>5. ASSUME NEW q \in parked' PROVE Waits(call[q])'
      <3>1. Waits(call'[q])
        BY <2>1, <2>4, <2>5, Zenon DEF UnixInv, Callers
      <3>. QED
        BY <2>2, <3>1, Zenon DEF Waits, Used
    <2>6. Callers'
      BY <2>4, <2>5, Zenon DEF UnixInv, Callers
    <2>. QED
      BY <2>3, <2>6, TypeIsNext, Zenon
  <1>WriteKeeps.
    ASSUME UnixInv, WriteStep
    PROVE  UnixInv'
    <2> USE <1>WriteKeeps
    <2>1. PICK p \in Procs : Returns(p)
      BY Zenon DEF WriteStep
    <2>2. PICK t \in Socks : Touches(t)
      BY DEF WriteStep
    <2>3. Struct'
      BY <2>2, TouchKeeps, Zenon
    <2>4. Callers'
      BY <2>1, ReturnKeeps, Zenon DEF WriteStep
    <2>. QED
      BY <2>3, <2>4, TypeIsNext, Zenon
  \* A read leaves the others alone, and who waits for data in the same ring
  \* does not wait while there is some
  <1>ReadKeeps.
    ASSUME UnixInv, ReadStep
    PROVE  UnixInv'
    <2> USE <1>ReadKeeps
    <2>1. PICK p \in Procs \ parked : Returns(p)
      BY Zenon DEF ReadStep
    <2>2. PICK s \in open : /\ Touches(s) /\ Used(s) > 0
                            /\ sock[s].type = "stream" => sock'[s].msgs = sock[s].msgs
                            /\ sock[s].type = "framed" => sock[s].msgs > 0
      BY DEF ReadStep
    <2>a. s \in Socks /\ sock[s].type \in {"stream", "framed"} /\ UNCHANGED <<open, parked>>
      BY <2>2, SockTyped DEF UnixInv, Struct, Live, ReadStep, Touches
    <2>3. Struct' /\ \A t \in Socks \ {s} : sock'[t] = sock[t]
      BY <2>2, <2>a, TouchKeeps, Zenon
    <2>4. ASSUME NEW q \in parked', NEW c \in Restarts, call[q] = c PROVE Waits(c)'
      <3>1. Waits(c) /\ c.s \in open /\ c.s \in Socks
        BY <2>a, <2>4 DEF UnixInv, Callers, Waits, TypeOK, Live
      <3>2. CASE c.s # s
        BY <2>a, <2>3, <3>1, <3>2, StillWaits, Zenon
      <3>3. CASE c.s = s
        BY <2>2, <2>a, <3>1, <3>3 DEF Waits, Used, Touches, Same
      <3>. QED
        BY <3>2, <3>3, Zenon
    <2>5. Callers'
      BY <2>1, <2>4, <2>a, ReturnKeeps, Zenon
    <2>. QED
      BY <2>3, <2>5, TypeIsNext, Zenon
  <1>. QED
    BY <1>FailKeeps, <1>BlockKeeps, <1>WriteKeeps, <1>ReadKeeps

-----------------------------------------------------------------------------
(* Steps that make, hand over and end connections.                         *)

\* Rings are emptied, or keep their length and the lengths in their headers
Calm(y, x) ==
  \/ y.ring = <<>> /\ y.msgs = 0
  \/ /\ y.type = x.type /\ y.msgs = x.msgs /\ Len(y.ring) = Len(x.ring)
     /\ \A i \in 1..Len(x.ring) : y.ring[i].len = x.ring[i].len
Quiet == \A s \in Socks : Calm(sock'[s], sock[s])

\* A process that is in no call waits for nothing
LEMMA Unparked ==
  ASSUME UnixInv, UNCHANGED <<call, parked>>, open \subseteq open',
         \A s \in open : sock'[s].type = sock[s].type /\ sock'[s].peer = sock[s].peer
                         /\ sock'[s].ring = sock[s].ring /\ sock'[s].msgs = sock[s].msgs
                         /\ sock'[s].pend = sock[s].pend
  PROVE  Callers'
  BY DEF UnixInv, Callers, Waits, Used

\* socket(): a new block is nobody's peer and in no queue
LEMMA SocketKeeps ==
  ASSUME UnixInv, NEW p \in Procs, NEW s \in Socks, NEW type \in Types, Socket(p, s, type)
  PROVE  UnixInv' /\ Quiet
  <1> DEFINE x == New(type)
  <1>1. /\ x \in Sock /\ x.state = "idle" /\ x.peer = Nil /\ x.pend = <<>>
        /\ x.ring = <<>> /\ x.msgs = 0
    BY NewTyped, ConstantsTyped
  <1>2. sock' = [sock EXCEPT ![s] = x] /\ s \notin Live /\ open' = open \cup {s}
        /\ UNCHANGED <<bound, call, parked>>
    BY Zenon DEF Socket
  <1> HIDE DEF x
  <1>3. sock \in [Socks -> Sock] /\ open \subseteq Live /\ s \notin open
    BY <1>2, Zenon DEF UnixInv, Struct
  <1>4. sock' \in [Socks -> Sock] /\ sock'[s] = x /\ \A t \in Socks \ {s} : sock'[t] = sock[t]
    BY <1>1, <1>2, <1>3, Zenon
  <1>5. Live' = Live \cup {s} /\ Live' \ open' = Live \ open
    BY <1>1, <1>2, <1>4 DEF Live
  <1>6. sock[s] = Free /\ sock[s].peer = Nil /\ sock[s].pend = <<>>
    <2>1. sock[s] = Free
      BY <1>2, Zenon DEF UnixInv, Struct, Blank, Live
    <2>. QED
      BY <2>1 DEF Free
  <1>7. \A t \in Socks : sock'[t].peer = sock[t].peer /\ sock'[t].pend = sock[t].pend
    BY <1>1, <1>4, <1>6, Zenon
  <1>8. Blank'
    BY <1>1, <1>4 DEF UnixInv, Struct, Blank
  <1>9. Mutual'
    <2> SUFFICES ASSUME NEW t \in Socks, sock'[t].peer # Nil
                 PROVE  sock'[t].state = "connected" /\ sock'[sock'[t].peer].peer = t
      BY Zenon DEF Mutual
    <2>1. t # s /\ sock[t].peer \in Socks /\ sock'[t] = sock[t]
      BY <1>1, <1>4, <1>7, SockTyped DEF UnixInv
    <2>. QED
      BY <1>7, <2>1 DEF UnixInv, Struct, Mutual
  <1>10. Queues'
    BY <1>2, <1>5, <1>7, QueuesSame, Zenon DEF UnixInv, Struct
  <1>11. Names1' /\ bound' \in [Names -> Socks \cup {Nil}] /\ open' \subseteq Live'
    BY <1>2, <1>3, <1>5, Zenon DEF UnixInv, Struct, Names1
  <1>12. Struct'
    BY <1>4, <1>8, <1>9, <1>10, <1>11 DEF Struct
  <1>13. Callers'
    <2>1. \A t \in open : t \in Socks \ {s}
      BY <1>3, Zenon DEF Live
    <2>. QED
      BY <1>2, <1>4, <2>1, Unparked, Zenon
  <1>14. Quiet
    <2>1. \A t \in Socks \ {s} : Calm(sock'[t], sock[t])
      BY <1>4, Zenon DEF Calm
    <2>2. Calm(sock'[s], sock[s])
      BY <1>1, <1>4 DEF Calm
    <2>. QED
      BY <2>1, <2>2, Zenon DEF Quiet
  <1>. QED
    BY <1>12, <1>13, <1>14, TypeIsNext, Zenon

\* socketpair(): two new blocks, mutual peers
LEMMA SocketpairKeeps ==
  ASSUME UnixInv, NEW p \in Procs, NEW s \in Socks, NEW t \in Socks, NEW type \in Types,
         Socketpair(p, s, t, type)
  PROVE  UnixInv' /\ Quiet
  <1> DEFINE x == [New(type) EXCEPT !.state = "connected", !.peer = t]
             y == [New(type) EXCEPT !.state = "connected", !.peer = s]
  <1>0. New(type) \in Sock /\ New(type).pend = <<>> /\ New(type).ring = <<>> /\ New(type).msgs = 0
    BY NewTyped, ConstantsTyped
  <1>1. /\ x \in Sock /\ x.state = "connected" /\ x.peer = t /\ x.pend = <<>>
        /\ x.ring = <<>> /\ x.msgs = 0
    BY <1>0, Zenon DEF Sock
  <1>a. /\ y \in Sock /\ y.state = "connected" /\ y.peer = s /\ y.pend = <<>>
        /\ y.ring = <<>> /\ y.msgs = 0
    BY <1>0, Zenon DEF Sock
  <1>2. sock' = [sock EXCEPT ![s] = x, ![t] = y] /\ s # t /\ s \notin Live /\ t \notin Live
        /\ open' = open \cup {s, t} /\ UNCHANGED <<bound, call, parked>>
    BY Zenon DEF Socketpair
  <1> HIDE DEF x, y
  <1>3. sock \in [Socks -> Sock] /\ open \subseteq Live /\ s \notin open /\ t \notin open
    BY <1>2, Zenon DEF UnixInv, Struct
  <1>4. sock' \in [Socks -> Sock] /\ sock'[s] = x /\ sock'[t] = y
        /\ \A u \in Socks \ {s, t} : sock'[u] = sock[u]
    BY <1>1, <1>a, <1>2, <1>3
  <1>5. Live' = Live \cup {s, t} /\ Live' \ open' = Live \ open
    BY <1>1, <1>a, <1>2, <1>4 DEF Live
  <1>6. /\ sock[s].peer = Nil /\ sock[s].pend = <<>> /\ sock[t].peer = Nil /\ sock[t].pend = <<>>
    <2>1. sock[s] = Free /\ sock[t] = Free
      BY <1>2, Zenon DEF UnixInv, Struct, Blank, Live
    <2>. QED
      BY <2>1 DEF Free
  <1>7. \A u \in Socks : sock'[u].pend = sock[u].pend
    BY <1>1, <1>a, <1>4, <1>6
  <1>8. Blank'
    BY <1>1, <1>a, <1>4 DEF UnixInv, Struct, Blank
  <1>9. Mutual'
    <2> SUFFICES ASSUME NEW u \in Socks, sock'[u].peer # Nil
                 PROVE  sock'[u].state = "connected" /\ sock'[sock'[u].peer].peer = u
      BY Zenon DEF Mutual
    <2>1. CASE u \in {s, t}
      BY <1>1, <1>a, <1>4, <2>1
    <2>2. CASE u \notin {s, t}
      <3>1. sock'[u] = sock[u] /\ sock[u].peer \in Socks /\ u # Nil
        BY <1>4, <2>2, SockTyped, ConstantsTyped DEF UnixInv
      <3>2. sock[u].state = "connected" /\ sock[sock[u].peer].peer = u
        BY <3>1, Zenon DEF UnixInv, Struct, Mutual
      <3>3. sock[u].peer \notin {s, t}
        BY <1>6, <3>1, <3>2, Zenon
      <3>. QED
        BY <1>4, <3>1, <3>2, <3>3, Zenon
    <2>. QED
      BY <2>1, <2>2, Zenon
  <1>10. Queues'
    BY <1>2, <1>5, <1>7, QueuesSame, Zenon DEF UnixInv, Struct
  <1>11. Names1' /\ bound' \in [Names -> Socks \cup {Nil}] /\ open' \subseteq Live'
    BY <1>2, <1>3, <1>5 DEF UnixInv, Struct, Names1
  <1>12. Struct'
    BY <1>4, <1>8, <1>9, <1>10, <1>11, Zenon DEF Struct
  <1>13. Callers'
    <2>1. \A u \in open : u \in Socks \ {s, t}
      BY <1>3, Zenon DEF Live
    <2>. QED
      BY <1>2, <1>4, <2>1, Unparked
  <1>14. Quiet
    <2>1. \A u \in Socks \ {s, t} : Calm(sock'[u], sock[u])
      BY <1>4 DEF Calm
    <2>2. Calm(sock'[s], sock[s]) /\ Calm(sock'[t], sock[t])
      BY <1>1, <1>a, <1>4 DEF Calm
    <2>. QED
      BY <2>1, <2>2, Zenon DEF Quiet
  <1>. QED
    BY <1>12, <1>13, <1>14, TypeIsNext, Zenon

\* unlink(): a name less
LEMMA UnlinkKeeps ==
  ASSUME UnixInv, NEW p \in Procs, NEW n \in Names, Unlink(p, n)
  PROVE  UnixInv' /\ Quiet
  <1>1. bound' = [bound EXCEPT ![n] = Nil] /\ UNCHANGED <<sock, open, call, parked>>
    BY Zenon DEF Unlink
  <1>2. Names1' /\ bound' \in [Names -> Socks \cup {Nil}]
    BY <1>1, Zenon DEF UnixInv, Struct, Names1
  <1>3. Blank' /\ Mutual' /\ sock' \in [Socks -> Sock] /\ open' \subseteq Live'
    BY <1>1 DEF UnixInv, Struct, Blank, Mutual, Live
  <1>4. Queues'
    BY <1>1, QueuesSame, Zenon DEF UnixInv, Struct, Live
  <1>5. Callers'
    BY <1>1, Unparked, Zenon
  <1>6. Quiet
    BY <1>1, Zenon DEF Quiet, Calm
  <1>. QED
    BY <1>2, <1>3, <1>4, <1>5, <1>6, TypeIsNext, Zenon DEF Struct

\* bind and listen
LEMMA NamingKeeps ==
  \A p \in Procs, s \in Socks :
    UnixInv /\ ((\E n \in Names : Bind(p, s, n)) \/ (\E b \in 0..(Backlog + 1) : Listen(p, s, b)))
      => UnixInv' /\ Quiet
  \* A descriptor without a connection gets a name or becomes a listener
  <1>RenamedKeeps.
    ASSUME UnixInv, NEW s \in open, NEW y \in Sock, sock' = [sock EXCEPT ![s] = y],
           y.type = sock[s].type, y.peer = sock[s].peer, y.ring = sock[s].ring, y.msgs = sock[s].msgs,
           y.pend = sock[s].pend, y.state # "free", sock[s].peer # Nil => y.state = sock[s].state,
           bound' \in [Names -> Socks \cup {Nil}], Names1', UNCHANGED <<open, call, parked>>
    PROVE  UnixInv' /\ Quiet
    <2> USE <1>RenamedKeeps
    <2>1. sock \in [Socks -> Sock] /\ s \in Live /\ s \in Socks
      BY Zenon DEF UnixInv, Struct, Live
    <2>2. sock' \in [Socks -> Sock] /\ sock'[s] = y /\ \A t \in Socks \ {s} : sock'[t] = sock[t]
      BY <2>1, Zenon
    <2>3. /\ \A t \in Socks : sock'[t].peer = sock[t].peer /\ sock'[t].pend = sock[t].pend
          /\ \A t \in Socks : sock'[t].type = sock[t].type /\ sock'[t].ring = sock[t].ring
                              /\ sock'[t].msgs = sock[t].msgs
      BY <2>2
    <2>4. Live' = Live
      BY <2>1, <2>2 DEF Live
    <2>5. Blank'
      BY <2>2, Zenon DEF UnixInv, Struct, Blank
    <2>6. Mutual'
      <3> SUFFICES ASSUME NEW u \in Socks, sock'[u].peer # Nil
                   PROVE  sock'[u].state = "connected" /\ sock'[sock'[u].peer].peer = u
        BY Zenon DEF Mutual
      <3>1. sock[u].peer \in Socks
        BY <2>3, SockTyped DEF UnixInv
      <3>. QED
        BY <2>2, <2>3, <3>1 DEF UnixInv, Struct, Mutual
    <2>7. Queues'
      BY <2>3, <2>4, QueuesSame DEF UnixInv, Struct
    <2>8. Callers'
      <3>1. open \subseteq Socks
        BY Zenon DEF UnixInv, Struct, Live
      <3>. QED
        BY <2>3, <3>1, Unparked
    <2>9. Quiet
      BY <2>3 DEF Quiet, Calm
    <2>. QED
      BY <2>2, <2>4, <2>5, <2>6, <2>7, <2>8, <2>9, TypeIsNext, Zenon DEF UnixInv, Struct
  <1>BindKeeps.
    ASSUME UnixInv, NEW p \in Procs, NEW s \in Socks, NEW n \in Names, Bind(p, s, n)
    PROVE  UnixInv' /\ Quiet
    <2> USE <1>BindKeeps
    <2> DEFINE y == [sock[s] EXCEPT !.name = n]
    <2>1. s \in open /\ sock' = [sock EXCEPT ![s] = y] /\ bound' = [bound EXCEPT ![n] = s]
          /\ UNCHANGED <<open, call, parked>>
      BY Zenon DEF Bind
    <2>2. sock[s] \in Sock /\ s \in Live
      BY <2>1, Zenon DEF UnixInv, Struct
    <2>3. y \in Sock /\ y.ring = sock[s].ring /\ y.msgs = sock[s].msgs
          /\ y.type = sock[s].type /\ y.peer = sock[s].peer /\ y.pend = sock[s].pend /\ y.state = sock[s].state
      BY <2>2, Zenon DEF Sock
    <2> HIDE DEF y
    <2>4. bound' \in [Names -> Socks \cup {Nil}] /\ Names1'
      BY <2>1, Zenon DEF UnixInv, Struct, Names1
    <2>5. y.state # "free"
      BY <2>2, <2>3, Zenon DEF Live
    <2>. QED
      BY <2>1, <2>3, <2>4, <2>5, <1>RenamedKeeps, Zenon
  <1>ListenKeeps.
    ASSUME UnixInv, NEW p \in Procs, NEW s \in Socks, NEW b \in 0..(Backlog + 1), Listen(p, s, b)
    PROVE  UnixInv' /\ Quiet
    <2> USE <1>ListenKeeps
    <2> DEFINE g == IF b < 1 THEN 1 ELSE IF b > Backlog THEN Backlog ELSE b
               y == [sock[s] EXCEPT !.state = "listening", !.backlog = g]
    <2>1. s \in open /\ sock[s].state = "idle" /\ sock' = [sock EXCEPT ![s] = y]
          /\ UNCHANGED <<open, bound, call, parked>>
      <3>1. sock \in [Socks -> Sock] /\ sock[s] \in Sock
        BY Zenon DEF UnixInv, Struct
      <3>. QED
        BY <3>1, Zenon DEF Listen, Sock
    <2>2. sock[s] \in Sock
      BY <2>1, Zenon DEF UnixInv, Struct
    <2>a. g \in 0..Backlog
      BY ConstantsTyped
    <2> HIDE DEF g
    <2>3. y \in Sock /\ y.ring = sock[s].ring /\ y.msgs = sock[s].msgs /\ y.state = "listening"
          /\ y.type = sock[s].type /\ y.peer = sock[s].peer /\ y.pend = sock[s].pend
      BY <2>2, <2>a, Zenon DEF Sock
    <2> HIDE DEF y
    <2>4. bound' \in [Names -> Socks \cup {Nil}] /\ Names1'
      BY <2>1, Zenon DEF UnixInv, Struct, Names1
    <2>5. sock[s].peer = Nil
      BY <2>1, Zenon DEF UnixInv, Struct, Mutual
    <2>. QED
      BY <2>1, <2>3, <2>4, <2>5, <1>RenamedKeeps, Zenon
  <1>. QED
    BY <1>BindKeeps, <1>ListenKeeps, Zenon

\* Appending to a queue that has room
LEMMA AppendIs ==
  \A q \in Seq(Socks), k \in Socks, b \in 0..Backlog : Len(q) < b =>
    /\ Len(q) + 1 \in 1..Backlog /\ Len(Append(q, k)) = Len(q) + 1 /\ Append(q, k)[Len(q) + 1] = k
    /\ \A i \in 1..(Len(q) + 1) : i # Len(q) + 1 => i \in 1..Len(q) /\ Append(q, k)[i] = q[i]
    /\ \A i \in 1..Len(q) : i \in 1..(Len(q) + 1) /\ Append(q, k)[i] = q[i]
  <1>1. Backlog \in Nat
    BY ConstantsTyped, Zenon
  <1>. QED
    BY <1>1

\* connect
LEMMA ConnectStep ==
  \A p \in Procs, s \in Socks, n \in Names :
    UnixInv /\ Connect(p, s, n) => FailStep \/ BlockStep \/ (UnixInv' /\ Quiet)
  \* The sockets after a connection of s to listener l, with k for the other end
  <1>ConnectedIs.
    ASSUME UnixInv, NEW s \in open, NEW k \in Socks \ Live, NEW l \in open, sock' = Connected(s, k, l)
    PROVE  /\ sock' \in [Socks -> Sock] /\ k # s /\ k # l
           /\ sock'[k].state = "connected" /\ sock'[k].peer = s /\ sock'[k].pend = <<>>
           /\ sock'[k].ring = <<>> /\ sock'[k].msgs = 0
           /\ sock'[s].state = "connected" /\ sock'[s].peer = k
           /\ \A x \in Socks \ {k, s} : sock'[x].state = sock[x].state /\ sock'[x].peer = sock[x].peer
           /\ sock'[l].pend = Append(sock[l].pend, k)
           /\ \A x \in Socks \ {k, l} : sock'[x].pend = sock[x].pend
           /\ \A x \in Socks \ {k} : sock'[x].ring = sock[x].ring /\ sock'[x].msgs = sock[x].msgs
                                     /\ sock'[x].type = sock[x].type
           /\ \A x \in Socks \ {k, s, l} : sock'[x] = sock[x]
    <2> USE <1>ConnectedIs
    <2>1. sock \in [Socks -> Sock] /\ s \in Socks /\ l \in Socks /\ k \in Socks /\ k # s /\ k # l
      BY Zenon DEF UnixInv, Struct, Live
    <2>2. sock[l] \in Sock /\ sock[s] \in Sock /\ sock[l].type \in {"stream", "framed"}
          /\ sock[l].name \in Names \cup {Nil}
      BY <2>1, Zenon DEF Sock
    <2> DEFINE c == [New(sock[l].type) EXCEPT !.state = "connected", !.peer = s, !.name = sock[l].name]
    <2>3. /\ c \in Sock /\ c.state = "connected" /\ c.peer = s /\ c.pend = <<>>
          /\ c.ring = <<>> /\ c.msgs = 0
      <3>1. LET z == New(sock[l].type) IN z \in Sock /\ z.pend = <<>> /\ z.ring = <<>> /\ z.msgs = 0
        BY <2>2, NewTyped
      <3>. QED
        BY <2>1, <2>2, <3>1, Zenon DEF Sock
    <2> DEFINE y == [sock[s] EXCEPT !.peer = k, !.state = "connected"]
    <2>4. /\ y \in Sock /\ y.state = "connected" /\ y.peer = k /\ y.pend = sock[s].pend
          /\ y.ring = sock[s].ring /\ y.msgs = sock[s].msgs /\ y.type = sock[s].type
      BY <2>1, <2>2, Zenon DEF Sock
    <2> DEFINE f == [sock EXCEPT ![k] = c, ![s].peer = k, ![s].state = "connected"]
    <2>5. sock' = [f EXCEPT ![l].pend = Append(@, k)]
      BY Zenon DEF Connected
    <2>6. f = [sock EXCEPT ![k] = c, ![s] = y]
      BY <2>1, <2>2, Zenon DEF Sock
    <2> HIDE DEF c, y, f
    <2>7. f \in [Socks -> Sock] /\ f[k] = c /\ f[s] = y /\ \A x \in Socks \ {k, s} : f[x] = sock[x]
      BY <2>1, <2>3, <2>4, <2>6
    <2> DEFINE q == Append(f[l].pend, k)
               z == [f[l] EXCEPT !.pend = q]
    <2>8. sock' = [f EXCEPT ![l] = z]
      BY <2>1, <2>5, Zenon
    <2>9. f[l] \in Sock /\ f[l].pend = sock[l].pend /\ sock[l].pend \in Seq(Socks)
      BY <2>1, <2>2, <2>4, <2>7, Zenon DEF Sock
    <2>10. q \in Seq(Socks) /\ q = Append(sock[l].pend, k)
      BY <2>1, <2>9
    <2> HIDE DEF q
    <2>11. /\ z \in Sock /\ z.pend = q /\ z.state = f[l].state /\ z.peer = f[l].peer /\ z.ring = f[l].ring
           /\ z.msgs = f[l].msgs /\ z.type = f[l].type
      BY <2>9, <2>10, Zenon DEF Sock
    <2> HIDE DEF z
    <2>12. sock' \in [Socks -> Sock] /\ sock'[l] = z /\ \A x \in Socks \ {l} : sock'[x] = f[x]
      BY <2>1, <2>7, <2>8, <2>11
    <2>13. sock'[k] = c
      BY <2>1, <2>7, <2>12
    <2>14. sock'[s].state = "connected" /\ sock'[s].peer = k
      BY <2>1, <2>4, <2>7, <2>11, <2>12
    <2>15. \A x \in Socks \ {k, s} : sock'[x].state = sock[x].state /\ sock'[x].peer = sock[x].peer
      BY <2>1, <2>7, <2>11, <2>12
    <2>16. \A x \in Socks \ {k, l} : sock'[x].pend = sock[x].pend
      BY <2>1, <2>4, <2>7, <2>12
    <2>17. \A x \in Socks \ {k} : sock'[x].ring = sock[x].ring /\ sock'[x].msgs = sock[x].msgs
                                     /\ sock'[x].type = sock[x].type
      BY <2>1, <2>4, <2>7, <2>11, <2>12
    <2>. QED
      BY <2>1, <2>3, <2>7, <2>10, <2>11, <2>12, <2>13, <2>14, <2>15, <2>16, <2>17
  <1>ConnectKeeps.
    ASSUME UnixInv, NEW p \in Procs, NEW s \in open, NEW k \in Socks \ Live, NEW l \in open,
           sock[s].peer = Nil, Len(sock[l].pend) < sock[l].backlog, sock' = Connected(s, k, l),
           Returns(p), Wakes, UNCHANGED <<open, bound>>
    PROVE  UnixInv' /\ Quiet
    <2> USE <1>ConnectKeeps
    <2>1. s \in Socks /\ l \in Socks /\ k \in Socks /\ open \subseteq Live /\ k \notin open
      BY Zenon DEF UnixInv, Struct, Live
    <2>2. sock[k] = Free /\ sock[k].peer = Nil /\ sock[k].pend = <<>>
      <3>1. sock[k] = Free
        BY Zenon DEF UnixInv, Struct, Blank, Live
      <3>. QED
        BY <3>1 DEF Free
    <2>3. sock[l].pend \in Seq(Socks) /\ sock[l].backlog \in 0..Backlog
      BY <2>1, SockTyped, Zenon DEF UnixInv
    <2>4. Live' = Live \cup {k}
      BY <2>1, <1>ConnectedIs DEF Live
    <2> DEFINE m == Len(sock[l].pend) + 1
    <2>5. /\ m \in 1..Backlog /\ Len(sock'[l].pend) = m /\ sock'[l].pend[m] = k
          /\ \A i \in 1..m : i # m => i \in 1..Len(sock[l].pend) /\ sock'[l].pend[i] = sock[l].pend[i]
          /\ \A i \in 1..Len(sock[l].pend) : i \in 1..m /\ sock'[l].pend[i] = sock[l].pend[i]
      <3>1. sock'[l].pend = Append(sock[l].pend, k)
        BY <1>ConnectedIs
      <3>2. Len(sock[l].pend) < sock[l].backlog
        BY Zenon
      <3> HIDE DEF m
      <3>3. m = Len(sock[l].pend) + 1
        BY Zenon DEF m
      <3> DEFINE q == sock[l].pend
      <3>4. /\ Len(q) + 1 \in 1..Backlog /\ Len(Append(q, k)) = Len(q) + 1 /\ Append(q, k)[Len(q) + 1] = k
            /\ \A i \in 1..(Len(q) + 1) : i # Len(q) + 1 => i \in 1..Len(q) /\ Append(q, k)[i] = q[i]
            /\ \A i \in 1..Len(q) : i \in 1..(Len(q) + 1) /\ Append(q, k)[i] = q[i]
        BY <2>1, <2>3, <3>2, AppendIs, Zenon
      <3>. QED
        BY <3>1, <3>3, <3>4, Zenon
    <2>6. \A x \in Socks \ {l} : sock'[x].pend = sock[x].pend
      BY <2>1, <2>2, <1>ConnectedIs
    <2> HIDE DEF m
    <2>7. Blank'
      <3> SUFFICES ASSUME NEW x \in Socks, sock'[x].state = "free" PROVE sock'[x] = Free
        BY Zenon DEF Blank
      <3>1. x # k /\ x # s /\ sock[x].state = "free"
        BY <2>1, <1>ConnectedIs
      <3>2. x # l
        BY <2>1, <3>1 DEF Live
      <3>. QED
        BY <3>1, <3>2, <1>ConnectedIs DEF UnixInv, Struct, Blank
    <2>8. Mutual'
      <3> SUFFICES ASSUME NEW u \in Socks, sock'[u].peer # Nil
                   PROVE  sock'[u].state = "connected" /\ sock'[sock'[u].peer].peer = u
        BY Zenon DEF Mutual
      <3>1. CASE u \in {s, k}
        BY <2>1, <3>1, <1>ConnectedIs
      <3>2. CASE u \notin {s, k}
        <4>1. sock'[u].peer = sock[u].peer /\ sock'[u].state = sock[u].state
              /\ sock[u].peer \in Socks /\ u # Nil
          BY <3>2, SockTyped, <1>ConnectedIs, ConstantsTyped DEF UnixInv
        <4>2. sock[u].state = "connected" /\ sock[sock[u].peer].peer = u
          BY <4>1, Zenon DEF UnixInv, Struct, Mutual
        <4>3. sock[u].peer \notin {s, k}
          BY <2>2, <4>1, <4>2, Zenon
        <4>. QED
          BY <4>1, <4>2, <4>3, <1>ConnectedIs
      <3>. QED
        BY <3>1, <3>2, Zenon
    <2>9. PendOpen' /\ PendShort'
      <3>1. PendOpen'
        BY <2>1, <2>6 DEF UnixInv, Struct, Queues, PendOpen
      <3>2. m <= Backlog
        BY <2>5, ConstantsTyped
      <3>3. PendShort'
        BY <2>1, <2>5, <2>6, <3>2 DEF UnixInv, Struct, Queues, PendShort
      <3>. QED
        BY <3>1, <3>3, Zenon
    <2>10. ASSUME NEW x \in Socks, NEW i \in 1..Len(sock'[x].pend)
           PROVE  \/ x = l /\ i = m /\ sock'[x].pend[i] = k
                  \/ i \in 1..Len(sock[x].pend) /\ sock'[x].pend[i] = sock[x].pend[i]
                     /\ sock[x].pend[i] \in Live \ open
      <3>1. CASE x = l /\ i = m
        BY <2>5, <3>1, Zenon
      <3>2. CASE x # l \/ i # m
        <4>1. i \in 1..Len(sock[x].pend) /\ sock'[x].pend[i] = sock[x].pend[i]
          BY <2>5, <2>6, <2>10, <3>2
        <4>. QED
          BY <4>1, Zenon DEF UnixInv, Struct, Queues, PendLive
      <3>. QED
        BY <3>1, <3>2, Zenon
    <2>11. PendLive'
      BY <2>1, <2>4, <2>10, SMTT(30) DEF PendLive
    <2>12. PendOnce'
      <3> SUFFICES ASSUME NEW x \in Socks, NEW t \in Socks, NEW i \in 1..Len(sock'[x].pend),
                          NEW j \in 1..Len(sock'[t].pend), sock'[x].pend[i] = sock'[t].pend[j]
                   PROVE  x = t /\ i = j
        BY Zenon DEF PendOnce
      <3>1. /\ \/ x = l /\ i = m /\ sock'[x].pend[i] = k
               \/ i \in 1..Len(sock[x].pend) /\ sock'[x].pend[i] = sock[x].pend[i]
                  /\ sock[x].pend[i] \in Live \ open
            /\ \/ t = l /\ j = m /\ sock'[t].pend[j] = k
               \/ j \in 1..Len(sock[t].pend) /\ sock'[t].pend[j] = sock[t].pend[j]
                  /\ sock[t].pend[j] \in Live \ open
        BY <2>10
      <3>. QED
        BY <3>1 DEF UnixInv, Struct, Queues, PendOnce
    <2>13. PendAll'
      <3> SUFFICES ASSUME NEW x \in Live' \ open'
                   PROVE  \E t \in Socks : \E i \in 1..Len(sock'[t].pend) : sock'[t].pend[i] = x
        BY Zenon DEF PendAll
      <3>1. CASE x = k
        BY <2>1, <2>5, <3>1
      <3>2. CASE x # k
        <4>0. PICK t \in Socks : \E i \in 1..Len(sock[t].pend) : sock[t].pend[i] = x
          BY <2>4, <3>2, Zenon DEF UnixInv, Struct, Queues, PendAll
        <4>1. PICK i \in 1..Len(sock[t].pend) : sock[t].pend[i] = x
          BY <4>0, Zenon
        <4>2. i \in 1..Len(sock'[t].pend) /\ sock'[t].pend[i] = x
          BY <2>5, <2>6, <4>1
        <4>. QED
          BY <4>2, Zenon
      <3>. QED
        BY <3>1, <3>2, Zenon
    <2>14. Struct'
      BY <2>1, <2>4, <2>7, <2>8, <2>9, <2>11, <2>12, <2>13, <1>ConnectedIs DEF UnixInv, Struct, Queues, Names1
    <2>15. Callers'
      BY ReturnKeeps, Zenon DEF Wakes
    <2>16. Quiet
      <3>1. \A x \in Socks \ {k} : Calm(sock'[x], sock[x])
        BY <1>ConnectedIs DEF Calm
      <3>2. Calm(sock'[k], sock[k])
        BY <1>ConnectedIs DEF Calm
      <3>. QED
        BY <3>1, <3>2, Zenon DEF Quiet
    <2>. QED
      BY <2>14, <2>15, <2>16, TypeIsNext, Zenon
  <1>ConnectStep.
    ASSUME UnixInv, NEW p \in Procs, NEW s \in Socks, NEW n \in Names, Connect(p, s, n)
    PROVE  FailStep \/ BlockStep \/ (UnixInv' /\ Quiet)
    <2> USE <1>ConnectStep
    <2> DEFINE c == [op |-> "connect", s |-> s, n |-> n]
               l == bound[n]
    <2>1. CASE Fails(p)
      BY <2>1, FailsIs, Zenon DEF Connect, Makes
    <2>2. CASE s \in open /\ Blocks(p, c)
      <3>1. c \in Restarts /\ c.s = s /\ c.op = "connect"
        BY Zenon DEF Restarts
      <3>2. Waits(c)
        BY <2>2, <3>1, Zenon DEF Waits
      <3>. QED
        BY <2>2, <3>2, BlocksIs, Zenon DEF Connect
    <2>3. CASE /\ s \in open /\ sock[s].state # "connected" /\ l # Nil
               /\ Len(sock[l].pend) < sock[l].backlog
               /\ \E k \in Socks \ Live : sock' = Connected(s, k, l)
               /\ Returns(p) /\ Wakes /\ UNCHANGED <<open, bound>>
      <3>1. l \in open
        BY <2>3, Zenon DEF UnixInv, Struct, Names1
      <3>2. sock[s].peer = Nil
        BY <2>3, Zenon DEF UnixInv, Struct, Mutual
      <3>3. PICK k \in Socks \ Live : sock' = Connected(s, k, l)
        BY <2>3, Zenon
      <3> HIDE DEF l
      <3>. QED
        BY <2>3, <3>1, <3>2, <3>3, <1>ConnectKeeps, Zenon
    <2>. QED
      BY <2>1, <2>2, <2>3, Zenon DEF Connect
  <1>. QED
    BY <1>ConnectStep, Zenon

\* accept
LEMMA AcceptStep ==
  \A p \in Procs, s \in Socks :
    UnixInv /\ Accept(p, s) => FailStep \/ BlockStep \/ (UnixInv' /\ Quiet)
  <1>AcceptKeeps.
    ASSUME UnixInv, NEW p \in Procs \ parked, NEW s \in open, sock[s].pend # <<>>,
           open' = open \cup {Head(sock[s].pend)}, sock' = Accepted(s),
           Returns(p), NoWake, UNCHANGED bound
    PROVE  UnixInv' /\ Quiet
    <2> USE <1>AcceptKeeps
    <2> DEFINE h == sock[s].pend[1]
               q == Tail(sock[s].pend)
               y == [sock[s] EXCEPT !.pend = q]
    <2>1. sock \in [Socks -> Sock] /\ s \in Socks /\ sock[s] \in Sock /\ open \subseteq Live
      BY Zenon DEF UnixInv, Struct, Live
    <2>2. sock[s].pend \in Seq(Socks)
      BY <2>1, SockTyped, Zenon DEF UnixInv
    <2>3. /\ q \in Seq(Socks) /\ 1 \in 1..Len(sock[s].pend) /\ Len(q) = Len(sock[s].pend) - 1
          /\ \A i \in 1..Len(q) : i + 1 \in 1..Len(sock[s].pend) /\ q[i] = sock[s].pend[i + 1]
          /\ Len(sock[s].pend) \in Nat
      BY <2>2
    <2>4. open' = open \cup {h} /\ sock' = [sock EXCEPT ![s] = y]
      BY <2>2, <2>1 DEF Accepted
    <2> HIDE DEF q
    <2>5. y \in Sock /\ y.pend = q /\ y.state = sock[s].state /\ y.peer = sock[s].peer
          /\ y.ring = sock[s].ring /\ y.msgs = sock[s].msgs /\ y.type = sock[s].type
      BY <2>1, <2>3, Zenon DEF Sock
    <2> HIDE DEF y
    <2>6. sock' \in [Socks -> Sock] /\ sock'[s] = y /\ \A t \in Socks \ {s} : sock'[t] = sock[t]
      BY <2>1, <2>4, <2>5
    <2>7. /\ \A t \in Socks : sock'[t].peer = sock[t].peer /\ sock'[t].state = sock[t].state
          /\ \A t \in Socks : sock'[t].ring = sock[t].ring /\ sock'[t].msgs = sock[t].msgs
                              /\ sock'[t].type = sock[t].type
      BY <2>5, <2>6
    <2>8. h \in Live /\ h \notin open /\ h \in Socks
      BY <2>1, <2>3 DEF UnixInv, Struct, Queues, PendLive, Live
    <2> HIDE DEF h
    <2>9. Live' = Live /\ open' \subseteq Live'
      BY <2>1, <2>4, <2>7, <2>8 DEF Live
    <2>10. Blank'
      <3>1. sock[s].state # "free"
        BY <2>1, Zenon DEF Live
      <3>. QED
        BY <2>5, <2>6, <3>1 DEF UnixInv, Struct, Blank
    <2>11. Mutual'
      <3> SUFFICES ASSUME NEW u \in Socks, sock'[u].peer # Nil
                   PROVE  sock'[u].state = "connected" /\ sock'[sock'[u].peer].peer = u
        BY Zenon DEF Mutual
      <3>1. sock[u].peer \in Socks
        BY <2>7, SockTyped DEF UnixInv
      <3>. QED
        BY <2>7, <3>1 DEF UnixInv, Struct, Mutual
    \* A place in a queue was a place in it before, one further on in that of s
    <2>12. ASSUME NEW x \in Socks, NEW i \in 1..Len(sock'[x].pend)
           PROVE  \/ x = s /\ i + 1 \in 1..Len(sock[x].pend) /\ sock'[x].pend[i] = sock[x].pend[i + 1]
                  \/ x # s /\ i \in 1..Len(sock[x].pend) /\ sock'[x].pend[i] = sock[x].pend[i]
      BY <2>3, <2>5, <2>6, <2>12, SMTT(30)
    <2>13. PendOpen' /\ PendShort'
      <3>1. ASSUME NEW x \in Socks PROVE Len(sock'[x].pend) <= Len(sock[x].pend) /\ Len(sock[x].pend) \in Nat
        <4>1. Len(sock[x].pend) \in Nat
          BY SockTyped DEF UnixInv
        <4>2. CASE x = s
          BY <2>3, <2>5, <2>6, <4>1, <4>2
        <4>3. CASE x # s
          BY <2>6, <4>1, <4>3
        <4>. QED
          BY <4>1, <4>2, <4>3, Zenon
      <3>2. ASSUME NEW x \in Socks PROVE Len(sock'[x].pend) <= Backlog
        <4>1. Len(sock[x].pend) <= Backlog /\ Len(sock'[x].pend) \in Nat /\ Backlog \in Nat
          BY <2>3, <2>5, <2>6, SockTyped, ConstantsTyped, SMTT(30) DEF UnixInv, Struct, Queues, PendShort
        <4>. QED
          BY <3>1, <4>1
      <3>. QED
        BY <2>4, <2>6, <3>2 DEF UnixInv, Struct, Queues, PendOpen, PendShort
    <2>14. PendLive'
      <3> SUFFICES ASSUME NEW x \in Socks, NEW i \in 1..Len(sock'[x].pend)
                   PROVE  sock'[x].pend[i] \in Live' \ open'
        BY Zenon DEF PendLive
      <3>1. CASE x = s
        <4>1. i + 1 \in 1..Len(sock[s].pend) /\ sock'[x].pend[i] = sock[s].pend[i + 1] /\ i + 1 # 1
          BY <2>3, <2>12, <3>1
        <4>2. sock[s].pend[i + 1] # h
          BY <2>1, <2>3, <4>1 DEF UnixInv, Struct, Queues, PendOnce, h
        <4>. QED
          BY <2>1, <2>4, <2>9, <4>1, <4>2 DEF UnixInv, Struct, Queues, PendLive
      <3>2. CASE x # s
        <4>1. i \in 1..Len(sock[x].pend) /\ sock'[x].pend[i] = sock[x].pend[i]
          BY <2>12, <3>2
        <4>2. sock[x].pend[i] # h
          BY <2>1, <2>3, <3>2, <4>1 DEF UnixInv, Struct, Queues, PendOnce, h
        <4>. QED
          BY <2>4, <2>9, <4>1, <4>2, Zenon DEF UnixInv, Struct, Queues, PendLive
      <3>. QED
        BY <3>1, <3>2, Zenon
    <2>15. PendOnce'
      <3> SUFFICES ASSUME NEW x \in Socks, NEW t \in Socks, NEW i \in 1..Len(sock'[x].pend),
                          NEW j \in 1..Len(sock'[t].pend), sock'[x].pend[i] = sock'[t].pend[j]
                   PROVE  x = t /\ i = j
        BY Zenon DEF PendOnce
      <3>1. /\ \/ x = s /\ i + 1 \in 1..Len(sock[x].pend) /\ sock'[x].pend[i] = sock[x].pend[i + 1]
               \/ x # s /\ i \in 1..Len(sock[x].pend) /\ sock'[x].pend[i] = sock[x].pend[i]
            /\ \/ t = s /\ j + 1 \in 1..Len(sock[t].pend) /\ sock'[t].pend[j] = sock[t].pend[j + 1]
               \/ t # s /\ j \in 1..Len(sock[t].pend) /\ sock'[t].pend[j] = sock[t].pend[j]
        BY <2>12
      <3>2. x = t
        BY <3>1 DEF UnixInv, Struct, Queues, PendOnce
      <3>3. i = j \/ i + 1 = j + 1
        BY <3>1, <3>2 DEF UnixInv, Struct, Queues, PendOnce
      <3>4. i \in Int /\ j \in Int
        OBVIOUS
      <3>. QED
        BY <3>2, <3>3, <3>4
    <2>16. PendAll'
      <3> SUFFICES ASSUME NEW x \in Live' \ open'
                   PROVE  \E t \in Socks : \E i \in 1..Len(sock'[t].pend) : sock'[t].pend[i] = x
        BY Zenon DEF PendAll
      <3>1. x \in Live \ open /\ x # h
        BY <2>4, <2>9, Zenon
      <3>2. PICK t \in Socks : \E i \in 1..Len(sock[t].pend) : sock[t].pend[i] = x
        BY <3>1, Zenon DEF UnixInv, Struct, Queues, PendAll
      <3>3. PICK i \in 1..Len(sock[t].pend) : sock[t].pend[i] = x
        BY <3>2, Zenon
      <3>4. CASE t # s
        BY <2>6, <3>3, <3>4
      <3>5. CASE t = s
        <4>1. i # 1
          BY <3>1, <3>3, <3>5, Zenon DEF h
        <4>2. i - 1 \in 1..Len(q) /\ q[i - 1] = x
          <5>1. i - 1 \in 1..Len(q) /\ (i - 1) + 1 = i
            BY <2>3, <3>3, <3>5, <4>1
          <5>. QED
            BY <2>3, <3>3, <3>5, <5>1
        <4>. QED
          BY <2>1, <2>5, <2>6, <4>2
      <3>. QED
        BY <3>4, <3>5, Zenon
    <2>17. Names1' /\ bound' \in [Names -> Socks \cup {Nil}]
      BY <2>4, Zenon DEF UnixInv, Struct, Names1
    <2>18. Struct'
      BY <2>6, <2>9, <2>10, <2>11, <2>13, <2>14, <2>15, <2>16, <2>17, Zenon DEF Struct, Queues
    <2>19. ASSUME NEW r \in parked', NEW c \in Restarts, call[r] = c PROVE Waits(c)'
      <3>1. Waits(c) /\ c.s \in open /\ c.s \in Socks
        BY <2>1, <2>19, Zenon DEF UnixInv, Callers, Waits, Live, NoWake
      <3>2. CASE c.s # s
        BY <2>4, <2>6, <3>1, <3>2, StillWaits, Zenon
      <3>3. CASE c.s = s
        BY <2>4, <2>7, <3>1, <3>3 DEF Waits, Used
      <3>. QED
        BY <3>2, <3>3, Zenon
    <2>20. Callers'
      BY <2>19, ReturnKeeps, Zenon DEF NoWake
    <2>21. Quiet
      BY <2>7 DEF Quiet, Calm
    <2>. QED
      BY <2>18, <2>20, <2>21, TypeIsNext, Zenon
  <1>AcceptStep.
    ASSUME UnixInv, NEW p \in Procs, NEW s \in Socks, Accept(p, s)
    PROVE  FailStep \/ BlockStep \/ (UnixInv' /\ Quiet)
    <2> USE <1>AcceptStep
    <2> DEFINE c == [op |-> "accept", s |-> s]
    <2>1. CASE Fails(p)
      BY <2>1, FailsIs, Zenon DEF Accept, Makes
    <2>2. CASE s \in open /\ sock[s].pend = <<>> /\ Blocks(p, c)
      <3>1. c \in Restarts /\ c.s = s /\ c.op = "accept"
        BY Zenon DEF Restarts
      <3>2. Waits(c)
        BY <2>2, <3>1, Zenon DEF Waits
      <3>. QED
        BY <2>2, <3>2, BlocksIs DEF Accept
    <2>3. CASE /\ s \in open /\ sock[s].pend # <<>>
               /\ open' = open \cup {Head(sock[s].pend)} /\ sock' = Accepted(s)
               /\ Returns(p) /\ NoWake /\ UNCHANGED bound
      <3>1. p \in Procs \ parked
        BY Zenon DEF Accept, Makes
      <3>. QED
        BY <2>3, <3>1, <1>AcceptKeeps
    <2>. QED
      BY <2>1, <2>2, <2>3, Zenon DEF Accept
  <1>. QED
    BY <1>AcceptStep

\* close
LEMMA CloseKeeps ==
  \A p \in Procs, s \in Socks : UnixInv /\ Close(p, s) => UnixInv' /\ Quiet
  <1>ScrubbedTyped.
    ASSUME NEW x \in Sock, NEW s
    PROVE  LET y == Scrubbed([x EXCEPT !.peer = Nil], s) IN
           /\ y \in Sock /\ y.peer = Nil /\ y.state = x.state /\ y.pend = x.pend /\ Calm(y, x)
    <2> USE <1>ScrubbedTyped
    <2> DEFINE z == [x EXCEPT !.peer = Nil]
    <2>1. /\ z \in Sock /\ z.peer = Nil /\ z.state = x.state /\ z.pend = x.pend /\ z.ring = x.ring
          /\ z.msgs = x.msgs /\ z.type = x.type
      BY Zenon DEF Sock
    <2> DEFINE y == Scrubbed(z, s)
               r == [i \in DOMAIN z.ring |->
                       IF z.ring[i].src = s THEN [z.ring[i] EXCEPT !.src = Nil] ELSE z.ring[i]]
    <2>2. y = [z EXCEPT !.ring = r]
      BY Zenon DEF Scrubbed
    <2> HIDE DEF z
    <2>3. z.ring \in Seq(Cell) /\ DOMAIN z.ring = 1..Len(z.ring) /\ Len(z.ring) \in Nat
      BY <2>1 DEF Sock
    <2>4. ASSUME NEW i \in 1..Len(z.ring)
          PROVE  r[i] \in Cell /\ r[i].len = z.ring[i].len
      <3>1. z.ring[i] \in Cell
        BY <2>3, SeqElement
      <3>2. [z.ring[i] EXCEPT !.src = Nil] \in Cell /\ [z.ring[i] EXCEPT !.src = Nil].len = z.ring[i].len
        BY <3>1, Zenon DEF Cell
      <3>. QED
        BY <2>3, <3>1, <3>2, Zenon
    <2>5. r \in [1..Len(z.ring) -> Cell]
      BY <2>3, <2>4, Zenon
    <2>6. r \in Seq(Cell) /\ Len(r) = Len(z.ring)
      BY <2>3, <2>5
    <2>7. \A i \in 1..Len(z.ring) : r[i].len = z.ring[i].len
      BY <2>4, Zenon
    <2> HIDE DEF r, y
    <2>8. y \in Sock /\ y.peer = z.peer /\ y.state = z.state /\ y.pend = z.pend /\ y.ring = r
          /\ y.msgs = z.msgs /\ y.type = z.type
      BY <2>1, <2>2, <2>6, Zenon DEF Sock
    <2>9. Calm(y, x)
      BY <2>1, <2>6, <2>7, <2>8 DEF Calm
    <2>. QED
      BY <2>1, <2>8, <2>9, Zenon DEF y, z
  <1>CloseKeeps.
    ASSUME UnixInv, NEW p \in Procs, NEW s \in Socks, Close(p, s)
    PROVE  UnixInv' /\ Quiet
    <2> USE <1>CloseKeeps
    <2> DEFINE D == {s} \cup Range(sock[s].pend)
    <2>1. /\ s \in open /\ parked' = {} /\ open' = open \ {s} /\ UNCHANGED call
          /\ sock' = [t \in Socks |-> IF t = s \/ t \in Range(sock[s].pend) THEN Free ELSE Closed(t, s)]
          /\ bound' = [n \in Names |-> IF bound[n] = s THEN Nil ELSE bound[n]]
      BY Zenon DEF Close, Wakes
    <2>2. sock \in [Socks -> Sock] /\ open \subseteq Live /\ sock[s].pend \in Seq(Socks) /\ s # Nil
      BY SockTyped, ConstantsTyped DEF UnixInv, Struct
    <2>3. /\ \A i \in 1..Len(sock[s].pend) : sock[s].pend[i] \in D
          /\ \A k \in D : k = s \/ \E i \in 1..Len(sock[s].pend) : k = sock[s].pend[i]
      BY <2>2 DEF Range
    <2>4. D \subseteq Live /\ D \cap open = {s} /\ Nil \notin D
      <3>1. \A k \in D : k = s \/ k \in Live \ open
        BY <2>3 DEF UnixInv, Struct, Queues, PendLive
      <3>. QED
        BY <2>1, <2>2, <3>1, ConstantsTyped DEF Live
    <2>5. \A t \in Socks : sock'[t] = IF t \in D THEN Free ELSE Closed(t, s)
      BY <2>1, Zenon
    <2>a. s \in D
      BY Zenon
    <2>b. \A k : k \in D <=> k = s \/ k \in Range(sock[s].pend)
      BY Zenon
    <2> HIDE DEF D
    <2>6. ASSUME NEW t \in Socks \ D
          PROVE  /\ sock'[t] \in Sock /\ sock'[t].state = sock[t].state /\ sock'[t].pend = sock[t].pend
                 /\ sock'[t].peer = IF sock[t].peer \in D THEN Nil ELSE sock[t].peer
                 /\ Calm(sock'[t], sock[t])
                 /\ sock[t].peer = Nil => sock'[t] = sock[t]
      <3>0. sock[t] \in Sock /\ sock'[t] = Closed(t, s)
        BY <2>2, <2>5, Zenon
      <3>1. CASE sock[t].peer = s
        <4>1. sock'[t] = Scrubbed([sock[t] EXCEPT !.peer = Nil], s)
          BY <3>0, <3>1, Zenon DEF Closed
        <4>. QED
          BY <2>2, <2>a, <3>0, <3>1, <4>1, <1>ScrubbedTyped
      <3>2. CASE sock[t].peer # s /\ sock[t].peer \in Range(sock[s].pend)
        <4>1. sock'[t] = [sock[t] EXCEPT !.peer = Nil] /\ sock[t].peer \in D
          BY <2>b, <3>0, <3>2, Zenon DEF Closed
        <4>. QED
          BY <2>4, <3>0, <4>1, Zenon DEF Sock, Calm
      <3>3. CASE sock[t].peer # s /\ sock[t].peer \notin Range(sock[s].pend)
        <4>1. sock'[t] = sock[t] /\ sock[t].peer \notin D
          BY <2>b, <3>0, <3>3 DEF Closed
        <4>. QED
          BY <3>0, <4>1, Zenon DEF Calm
      <3>. QED
        BY <3>1, <3>2, <3>3, Zenon
    <2>7. /\ Free \in Sock /\ Free.state = "free" /\ Free.peer = Nil /\ Free.pend = <<>>
          /\ Free.ring = <<>> /\ Free.msgs = 0
      BY NewTyped, Zenon DEF Free
    <2>8. \A t \in D : sock'[t] = Free
      BY <2>4, <2>5, Zenon DEF Live
    <2>9. sock' \in [Socks -> Sock]
      BY <2>1, <2>5, <2>6, <2>7
    <2>10. Live' = Live \ D
      BY <2>6, <2>7, <2>8 DEF Live
    <2>11. open' \subseteq Live'
      BY <2>1, <2>2, <2>4, <2>10, Zenon
    <2>12. Blank'
      <3> SUFFICES ASSUME NEW t \in Socks, sock'[t].state = "free" PROVE sock'[t] = Free
        BY Zenon DEF Blank
      <3>1. CASE t \in D
        BY <2>8, <3>1, Zenon
      <3>2. CASE t \notin D
        <4>1. sock[t] = Free
          BY <2>6, <3>2 DEF UnixInv, Struct, Blank
        <4>. QED
          BY <2>6, <2>7, <3>2, <4>1, Zenon
      <3>. QED
        BY <3>1, <3>2, Zenon
    <2>13. Mutual'
      <3> SUFFICES ASSUME NEW u \in Socks, sock'[u].peer # Nil
                   PROVE  sock'[u].state = "connected" /\ sock'[sock'[u].peer].peer = u
        BY Zenon DEF Mutual
      <3>1. u \notin D
        BY <2>7, <2>8, Zenon
      <3>2. sock'[u].peer = sock[u].peer /\ sock[u].peer \notin D /\ sock[u].peer # Nil
            /\ sock'[u].state = sock[u].state
        BY <2>6, <3>1
      <3>3. sock[u].peer \in Socks
        BY <3>2, SockTyped, Zenon DEF UnixInv
      <3>4. sock[u].state = "connected" /\ sock[sock[u].peer].peer = u
        BY <3>2, Zenon DEF UnixInv, Struct, Mutual
      <3>. QED
        BY <2>6, <3>1, <3>2, <3>3, <3>4
    \* The queues of the others are as they were
    <2>14. ASSUME NEW x \in Socks, NEW i \in 1..Len(sock'[x].pend)
           PROVE  x \notin D /\ sock'[x].pend = sock[x].pend
      BY <2>6, <2>7, <2>8, <2>14
    <2>15. PendOpen' /\ PendShort'
      <3>1. ASSUME NEW x \in Socks PROVE sock'[x].pend = sock[x].pend \/ sock'[x].pend = <<>>
        BY <2>6, <2>7, <2>8, Zenon
      <3>2. Backlog \in Nat /\ Len(<<>>) = 0
        BY ConstantsTyped, Zenon
      <3>3. PendShort'
        BY <3>1, <3>2 DEF UnixInv, Struct, Queues, PendShort
      <3>4. sock'[s].pend = <<>>
        BY <2>7, <2>8, <2>a
      <3>5. PendOpen'
        BY <2>1, <3>1, <3>4 DEF UnixInv, Struct, Queues, PendOpen
      <3>. QED
        BY <3>3, <3>5, Zenon
    <2>16. PendLive'
      <3> SUFFICES ASSUME NEW x \in Socks, NEW i \in 1..Len(sock'[x].pend)
                   PROVE  sock'[x].pend[i] \in Live' \ open'
        BY Zenon DEF PendLive
      <3>1. x \notin D /\ sock'[x].pend = sock[x].pend /\ x # s
        BY <2>14, <2>a, Zenon
      <3>2. sock[x].pend[i] \in Live \ open
        BY <3>1, Zenon DEF UnixInv, Struct, Queues, PendLive
      <3>3. sock[x].pend[i] \notin D
        <4>1. PendOnce
          BY Zenon DEF UnixInv, Struct, Queues
        <4>2. i \in 1..Len(sock[x].pend)
          BY <3>1, Zenon
        <4>3. \A j \in 1..Len(sock[s].pend) : sock[x].pend[i] # sock[s].pend[j]
          BY <3>1, <4>1, <4>2, Zenon DEF PendOnce
        <4>4. sock[x].pend[i] # s
          BY <2>1, <3>2, Zenon
        <4>. QED
          BY <2>3, <4>3, <4>4, Zenon
      <3>. QED
        BY <2>1, <2>10, <3>1, <3>2, <3>3, Zenon
    <2>17. PendOnce'
      <3> SUFFICES ASSUME NEW x \in Socks, NEW t \in Socks, NEW i \in 1..Len(sock'[x].pend),
                          NEW j \in 1..Len(sock'[t].pend), sock'[x].pend[i] = sock'[t].pend[j]
                   PROVE  x = t /\ i = j
        BY Zenon DEF PendOnce
      <3>1. sock'[x].pend = sock[x].pend /\ sock'[t].pend = sock[t].pend
        BY <2>14, Zenon
      <3>2. i \in 1..Len(sock[x].pend) /\ j \in 1..Len(sock[t].pend) /\ sock[x].pend[i] = sock[t].pend[j]
        BY <3>1, Zenon
      <3>3. PendOnce
        BY Zenon DEF UnixInv, Struct, Queues
      <3>. QED
        <4>1. \A m \in 1..Len(sock[x].pend), n \in 1..Len(sock[t].pend) :
                 sock[x].pend[m] = sock[t].pend[n] => x = t /\ m = n
          BY <3>3, Zenon DEF PendOnce
        <4>. QED
          BY <3>2, <4>1, Zenon
    <2>18. PendAll'
      <3> SUFFICES ASSUME NEW x \in Live' \ open'
                   PROVE  \E t \in Socks : \E i \in 1..Len(sock'[t].pend) : sock'[t].pend[i] = x
        BY Zenon DEF PendAll
      <3>1. x \in Live \ open /\ x \notin D
        BY <2>1, <2>10, <2>a, Zenon
      <3>2. PICK t \in Socks : \E i \in 1..Len(sock[t].pend) : sock[t].pend[i] = x
        BY <3>1, Zenon DEF UnixInv, Struct, Queues, PendAll
      <3>3. PICK i \in 1..Len(sock[t].pend) : sock[t].pend[i] = x
        BY <3>2, Zenon
      <3>4. t # s
        BY <2>3, <3>1, <3>3, Zenon
      <3>5. t \in open
        BY <3>3 DEF UnixInv, Struct, Queues, PendOpen
      <3>6. t \notin D
        BY <2>4, <3>4, <3>5, Zenon
      <3>7. sock'[t].pend = sock[t].pend
        BY <2>6, <3>6, Zenon
      <3>. QED
        BY <3>3, <3>7, Zenon
    <2>19. Names1' /\ bound' \in [Names -> Socks \cup {Nil}]
      BY <2>1, Zenon DEF UnixInv, Struct, Names1
    <2>20. Struct'
      BY <2>9, <2>11, <2>12, <2>13, <2>15, <2>16, <2>17, <2>18, <2>19, Zenon DEF Struct, Queues
    <2>21. Callers'
      BY <2>1, Zenon DEF UnixInv, Callers
    <2>22. Quiet
      <3>1. \A t \in D : Calm(sock'[t], sock[t])
        BY <2>7, <2>8, Zenon DEF Calm
      <3>. QED
        BY <2>6, <3>1, Zenon DEF Quiet
    <2>. QED
      BY <2>20, <2>21, <2>22, TypeIsNext
  <1>. QED
    BY <1>CloseKeeps, Zenon

-----------------------------------------------------------------------------
(* Every step.                                                             *)

\* Every step is of one of five kinds
LEMMA StepKinds ==
  ASSUME UnixInv, [Next]_vars
  PROVE  FailStep \/ BlockStep \/ WriteStep \/ ReadStep \/ (UnixInv' /\ Quiet)
  <1>1. CASE UNCHANGED vars
    <2>1. UNCHANGED <<sock, open, bound, call, parked>>
      BY <1>1, Zenon DEF vars
    <2>2. Struct'
      <3>1. \A s \in Socks : Same(sock'[s], sock[s])
        BY <2>1, Zenon DEF Same
      <3>. QED
        BY <2>1, <3>1, SameKeeps, Zenon DEF UnixInv, Struct
    <2>3. Callers'
      BY <2>1, Unparked, Zenon
    <2>4. Quiet
      BY <2>1, Zenon DEF Quiet, Calm
    <2>. QED
      BY <2>2, <2>3, <2>4, TypeIsNext, Zenon
  <1>2. ASSUME NEW p \in Procs, Blocking(p)
        PROVE  FailStep \/ BlockStep \/ WriteStep \/ ReadStep \/ (UnixInv' /\ Quiet)
    <2>1. WriteCall(p) \/ ReadCall(p) \/ \E s \in Socks : Accept(p, s) \/ \E n \in Names : Connect(p, s, n)
      BY <1>2 DEF Blocking, WriteCall, ReadCall
    <2>. QED
      BY <2>1, WriteCalls, ReadCalls, ConnectStep, AcceptStep, Zenon
  <1>3. ASSUME NEW p \in Procs, NEW s \in Socks, NEW type \in Types, Socket(p, s, type)
        PROVE  UnixInv' /\ Quiet
    BY <1>3, SocketKeeps, Zenon
  <1>4. ASSUME NEW p \in Procs, NEW s \in Socks, NEW t \in Socks, NEW type \in Types,
               Socketpair(p, s, t, type)
        PROVE  UnixInv' /\ Quiet
    BY <1>4, SocketpairKeeps, Zenon
  <1>5. ASSUME NEW p \in Procs, NEW s \in Socks, NEW n \in Names, Bind(p, s, n)
        PROVE  UnixInv' /\ Quiet
    BY <1>5, NamingKeeps, Zenon
  <1>6. ASSUME NEW p \in Procs, NEW s \in Socks, NEW b \in 0..(Backlog + 1), Listen(p, s, b)
        PROVE  UnixInv' /\ Quiet
    BY <1>6, NamingKeeps, Zenon
  <1>7. ASSUME NEW p \in Procs, NEW s \in Socks, Close(p, s)
        PROVE  UnixInv' /\ Quiet
    BY <1>7, CloseKeeps, Zenon
  <1>8. ASSUME NEW p \in Procs, NEW n \in Names, Unlink(p, n)
        PROVE  UnixInv' /\ Quiet
    BY <1>8, UnlinkKeeps, Zenon
  <1>. QED
    BY <1>1, <1>2, <1>3, <1>4, <1>5, <1>6, <1>7, <1>8 DEF Next

\* Every step preserves the invariant
LEMMA UnixKept ==
  ASSUME UnixInv, [Next]_vars
  PROVE  UnixInv'
  BY StepKinds, DataKeeps, Zenon

\* The invariant holds at boot
LEMMA UnixStart == ASSUME Init PROVE UnixInv
  <1>1. /\ Free \in Sock /\ Free.state = "free" /\ Free.peer = Nil /\ Free.pend = <<>>
    BY NewTyped, Zenon DEF Free
  <1>2. /\ sock \in [Socks -> Sock] /\ open = {} /\ bound \in [Names -> Socks \cup {Nil}]
        /\ call \in [Procs -> {Idle} \cup Restarts] /\ parked = {}
        /\ \A s \in Socks : sock[s] = Free
        /\ \A n \in Names : bound[n] = Nil
    BY <1>1, Zenon DEF Init
  <1>3. Live = {}
    BY <1>1, <1>2, Zenon DEF Live
  <1>4. Blank /\ Mutual /\ Names1
    BY <1>1, <1>2, Zenon DEF Blank, Mutual, Names1
  <1>5. Queues
    <2>1. \A s \in Socks : sock[s].pend = <<>> /\ Len(sock[s].pend) = 0
      BY <1>1, <1>2
    <2>2. Backlog \in Nat
      BY ConstantsTyped, Zenon
    <2>3. PendShort /\ PendOpen /\ PendAll
      BY <1>2, <1>3, <2>1, <2>2 DEF PendShort, PendOpen, PendAll
    <2>4. PendLive /\ PendOnce
      BY <2>1 DEF PendLive, PendOnce
    <2>. QED
      BY <2>3, <2>4, Zenon DEF Queues
  <1>. QED
    BY <1>2, <1>3, <1>4, <1>5, TypeIs, Zenon DEF Struct, Callers

\* The sockets, their peers, queues and names, and the calls that wait for them stay
\* consistent: the inductive invariant that the theorems below rest on.
THEOREM UnixSafe == Spec => []UnixInv
  <1>1. Init => UnixInv
    BY UnixStart, Zenon
  <1>2. UnixInv /\ [Next]_vars => UnixInv'
    BY UnixKept, Zenon
  <1>. QED
    BY <1>1, <1>2, PTL DEF Spec

\* The invariant implies the properties
LEMMA Strays ==
  ASSUME UnixInv
  PROVE  NoDanglingSocket /\ NoOrphanChild /\ ParkedHasNothing
  <1>1. NoDanglingSocket
    <2>1. ASSUME NEW s \in Live, sock[s].peer # Nil
          PROVE  sock[s].peer \in Live /\ sock[sock[s].peer].peer = s
      BY <2>1, PeerLive, Zenon DEF UnixInv, Struct, Mutual, Live
    <2>2. ASSUME NEW s \in Live, NEW i \in DOMAIN sock[s].pend
          PROVE  sock[s].pend[i] \in Live \ open
      <3>1. s \in Socks /\ i \in 1..Len(sock[s].pend)
        BY <2>2, SockTyped DEF Live, UnixInv
      <3>. QED
        BY <3>1, Zenon DEF UnixInv, Struct, Queues, PendLive
    <2>. QED
      BY <2>1, <2>2, Zenon DEF NoDanglingSocket, UnixInv, Struct, Names1
  <1>2. NoOrphanChild
    <2> SUFFICES ASSUME NEW k \in Live \ open
                 PROVE  \E s \in Live, i \in 1..Backlog :
                          {x \in Live \X (1..Backlog) : x[2] \in DOMAIN sock[x[1]].pend
                                                        /\ sock[x[1]].pend[x[2]] = k} = {<<s, i>>}
      BY Zenon DEF NoOrphanChild
    <2>1. PICK s \in Socks : \E i \in 1..Len(sock[s].pend) : sock[s].pend[i] = k
      BY Zenon DEF UnixInv, Struct, Queues, PendAll
    <2>2. PICK i \in 1..Len(sock[s].pend) : sock[s].pend[i] = k
      BY <2>1
    <2>3. s \in Live
      BY <2>2 DEF UnixInv, Struct, Queues, PendOpen
    <2>4. i \in 1..Backlog
      <3>1. Len(sock[s].pend) <= Backlog /\ Len(sock[s].pend) \in Nat /\ Backlog \in Nat
        BY SockTyped, ConstantsTyped DEF UnixInv, Struct, Queues, PendShort
      <3>. QED
        BY <3>1
    <2>5. \A t \in Live : DOMAIN sock[t].pend = 1..Len(sock[t].pend)
      BY SockTyped DEF UnixInv, Live
    <2>6. ASSUME NEW x \in Live \X (1..Backlog), x[2] \in DOMAIN sock[x[1]].pend,
                 sock[x[1]].pend[x[2]] = k
          PROVE  x = <<s, i>>
      <3>1. x[1] \in Socks /\ x[2] \in 1..Len(sock[x[1]].pend) /\ x = <<x[1], x[2]>>
        BY <2>5, <2>6 DEF Live
      <3>2. x[1] = s /\ x[2] = i
        BY <2>2, <2>6, <3>1 DEF UnixInv, Struct, Queues, PendOnce
      <3>. QED
        BY <3>1, <3>2, Zenon
    <2>7. {x \in Live \X (1..Backlog) : x[2] \in DOMAIN sock[x[1]].pend /\ sock[x[1]].pend[x[2]] = k}
            = {<<s, i>>}
      BY <2>2, <2>3, <2>4, <2>5, <2>6
    <2>. QED
      BY <2>3, <2>4, <2>7, Zenon
  <1>3. ParkedHasNothing
    BY Zenon DEF UnixInv, Callers, Waits, ParkedHasNothing
  <1>. QED
    BY <1>1, <1>2, <1>3, Zenon

-----------------------------------------------------------------------------
(* What the rings hold.                                                    *)

\* No step overfills a ring: ring_space() was asked first
LEMMA RingsKept ==
  ASSUME UnixInv, RingWithinBounds, [Next]_vars
  PROVE  RingWithinBounds'
  <1> SUFFICES ASSUME NEW s \in Socks PROVE Len(sock'[s].ring) <= RingSz
    BY Zenon DEF RingWithinBounds, Used
  <1>1. sock[s].ring \in Seq(Cell) /\ Len(sock[s].ring) \in Nat /\ Len(sock[s].ring) <= RingSz /\ RingSz \in Nat
    BY SockTyped, ConstantsTyped DEF UnixInv, RingWithinBounds, Used
  <1>2. CASE FailStep \/ BlockStep
    BY <1>1, <1>2, Zenon DEF FailStep, BlockStep, Blocks
  <1>3. CASE WriteStep
    <2>1. PICK t \in Socks, n \in 1..MaxLen : Touches(t) /\ (Gets(t, n) \/ \E u \in Socks : GetsRecord(t, n, u))
      BY <1>3 DEF WriteStep
    <2>2. n \in Nat /\ Bytes(n) \in Seq(Cell) /\ Len(Bytes(n)) = n
      BY BytesTyped, ConstantsTyped
    <2>3. CASE s # t
      BY <1>1, <2>1, <2>3, TouchKeeps
    <2>4. CASE s = t /\ Gets(t, n)
      BY <1>1, <2>2, <2>4 DEF Gets, Used
    <2>5. ASSUME s = t, NEW u \in Socks, GetsRecord(t, n, u) PROVE Len(sock'[s].ring) <= RingSz
      <3>1. Header(n, u) \in Cell
        BY ConstantsTyped DEF Header, Cell
      <3> DEFINE g == sock[s].ring \o <<Header(n, u)>>
      <3>2. g \in Seq(Cell) /\ Len(g) = Len(sock[s].ring) + 1
        BY <1>1, <3>1
      <3>3. sock'[s].ring = g \o Bytes(n) /\ Len(sock[s].ring) + n + 1 <= RingSz
        BY <2>5, Zenon DEF GetsRecord, Used
      <3> HIDE DEF g
      <3>4. Len(g \o Bytes(n)) = Len(g) + n
        BY <2>2, <3>2, SMTT(30)
      <3>. QED
        BY <1>1, <2>2, <3>2, <3>3, <3>4
    <2>. QED
      BY <2>1, <2>3, <2>4, <2>5, Zenon
  <1>4. CASE ReadStep
    <2>1. PICK t \in open, n \in Nat : Touches(t) /\ sock'[t].ring = SubSeq(sock[t].ring, n + 1, Used(t))
      BY <1>4 DEF ReadStep
    <2>2. t \in Socks
      BY Zenon DEF UnixInv, TypeOK, Live
    <2>3. CASE s # t
      BY <1>1, <2>1, <2>2, <2>3, TouchKeeps, Zenon
    <2>4. CASE s = t
      <3>1. Len(SubSeq(sock[s].ring, n + 1, Len(sock[s].ring))) <= Len(sock[s].ring)
        BY <1>1
      <3>. QED
        BY <1>1, <2>1, <2>4, <3>1, SMTT(30) DEF Used
    <2>. QED
      BY <2>3, <2>4, Zenon
  <1>5. CASE UnixInv' /\ Quiet
    <2>1. Calm(sock'[s], sock[s])
      BY <1>5, Zenon DEF Quiet
    <2>2. Len(<<>>) = 0
      BY Zenon
    <2>. QED
      BY <1>1, <2>1, <2>2 DEF Calm
  <1>. QED
    BY <1>2, <1>3, <1>4, <1>5, StepKinds

\* Rings are empty at boot
LEMMA RingsStart == ASSUME Init PROVE RingWithinBounds
  <1>1. \A s \in Socks : sock[s] = Free
    BY Zenon DEF Init
  <1>2. Free.ring = <<>> /\ Free.type = "stream" /\ Len(<<>>) = 0 /\ RingSz \in Nat
    BY ConstantsTyped, Zenon DEF Free
  <1>. QED
    BY <1>1, <1>2 DEF RingWithinBounds, Used

-----------------------------------------------------------------------------
(* The theorems.                                                           *)

\* Whatever processes do with their sockets, and whichever end of a connection
\* goes first, no socket, queue or name leads to memory that close() has
\* freed, and a connection that nobody has accepted yet is in exactly one
\* listener's queue.
THEOREM NoSocketLost == Spec => []NoStraySocket
  <1>1. UnixInv => NoStraySocket
    BY Strays, Zenon DEF NoStraySocket
  <1>. QED
    BY <1>1, UnixSafe, PTL

\* unix_wake() is called wherever it has to be: a process parked in accept or
\* in a read has nothing to take.
THEOREM NoWakeMissed == Spec => []ParkedHasNothing
  <1>1. UnixInv => ParkedHasNothing
    BY Strays, Zenon
  <1>. QED
    BY <1>1, UnixSafe, PTL

\* ring_space() is looked at before every write: no ring holds more than its
\* size, headers included.
THEOREM RingsBounded == Spec => []RingWithinBounds
  <1>1. Init => UnixInv /\ RingWithinBounds
    BY UnixStart, RingsStart, Zenon
  <1>2. UnixInv /\ RingWithinBounds /\ [Next]_vars => UnixInv' /\ RingWithinBounds'
    BY UnixKept, RingsKept, Zenon
  <1>. QED
    BY <1>1, <1>2, PTL DEF Spec
=============================================================================
