--------------------------- MODULE TcpSendProofs ---------------------------
(***************************************************************************)
(* Theorems about what Tcp sends, for every window, segment size, stream   *)
(* length and number of retries and for sequence numbers that wrap         *)
(* anywhere.  They rest on TxInv: the chunk in the one-segment slot lies   *)
(* between snd_una and snd_nxt, every segment and every acknowledgement    *)
(* under way ends where a chunk ends, so an acknowledgement that           *)
(* tcp_receive() accepts covers the whole chunk.                           *)
(***************************************************************************)
EXTENDS TcpProofs

\* Where a chunk ends, or before the chunk under way begins
Boundary(g) == g <= s.txAt \/ g = asked

\* This side has sent its FIN
Ended == "FIN" \in s.txFlags

\* The chunk under way lies between snd_una and snd_nxt; when there is none, the peer
\* has everything
SockTx ==
  /\ s.txAt <= asked
  /\ s.iss = M => s.state = "CLOSED" /\ s.txFlags = {}
  /\ s.iss # M => s.iss = ISS
  /\ s.state = "SYN_SENT" => s.txFlags = {} /\ s.nxt = Add(ISS, 1)
  /\ s.txFlags = {} => asked = 0 /\ s.txLen = 0
  /\ call.op \in SendCalls => s.txFlags = {"ACK"}
  /\ s.state = "ESTABLISHED" => ~ Ended
  /\ ~ Ended /\ s.txLen # 0 => s.txAt + s.txLen = asked
  /\ ~ Ended /\ s.txLen = 0 => asked <= Len(peer.got)
  /\ ~ Ended /\ (s.txFlags # {} \/ s.state \notin {"CLOSED", "SYN_SENT"}) =>
       /\ s.nxt = Add(ISS, 1 + asked)
       /\ s.txLen = 0 => s.una = Add(ISS, 1 + asked)
       /\ s.txLen # 0 => s.una = Add(ISS, 1 + s.txAt)

\* A chunk is under way only while tcp_send() waits for it
Slot == s.state = "ESTABLISHED" /\ s.txLen # 0 => call.op \in SendCalls

PeerTx ==
  /\ Prefix(peer.got) /\ Len(peer.got) <= asked
  /\ peer.state = "LISTEN" => peer.got = <<>> /\ ~ peer.fin
  /\ peer.state # "LISTEN" /\ ~ peer.fin => peer.rcv = Add(ISS, 1 + Len(peer.got))
  /\ ~ Ended => ~ peer.fin /\ Boundary(Len(peer.got))
  /\ done <= Len(peer.got)

\* What this side sent
FromUs(m) ==
  /\ "SYN" \in m.flags => m.seq = ISS /\ m.len = 0
  /\ m.len > 0 => /\ m.seq = Add(ISS, 1 + m.d) /\ m.d + m.len <= asked
                  /\ "FIN" \notin m.flags
  /\ ~ Ended => "FIN" \notin m.flags /\ (m.len > 0 => Boundary(m.d + m.len))

OutTx == \A m \in toPeer : FromUs(m)

\* What an acknowledgement of the peer covers
Covers(m) ==
  "ACK" \in m.flags /\ ~ Ended =>
    \E g \in 0..Len(peer.got) : m.ack = Add(ISS, 1 + g) /\ Boundary(g)

InTx == \A m \in toUs : Covers(m)

TxInv == SockTx /\ Slot /\ PeerTx /\ OutTx /\ InTx

\* A step that leaves what is being sent alone: at most it sends that again
LEMMA KeepTx ==
  ASSUME Typed, TxInv, UNCHANGED <<asked, peer>>, toUs' \subseteq toUs,
         s'.una = s.una /\ s'.nxt = s.nxt /\ s'.iss = s.iss,
         s'.txLen = s.txLen /\ s'.txAt = s.txAt /\ s'.txFlags = s.txFlags,
         s'.state \in {s.state, "CLOSED"},
         call'.op \in SendCalls => call.op \in SendCalls,
         done' = done \/ (call.op = "send" /\ s.txLen = 0 /\ done' = asked),
         \A m \in toPeer' : m \in toPeer \/ Resent(m) \/ (m.flags = {"ACK"} /\ m.len = 0)
  PROVE  SockTx' /\ PeerTx' /\ OutTx' /\ InTx'
<1>1. Ended' = Ended BY DEF Ended
<1>2. \A g : Boundary(g)' = Boundary(g) BY DEF Boundary
<1>3. SockTx' BY <1>1 DEF TxInv, SockTx
<1>4. done' <= Len(peer.got)
  <2>1. CASE done' = done BY <2>1 DEF TxInv, PeerTx
  <2>2. CASE call.op = "send" /\ s.txLen = 0 /\ done' = asked
    <3>1. s.txFlags = {"ACK"} BY <2>2 DEF TxInv, SockTx, SendCalls
    <3>2. ~ Ended BY <3>1 DEF Ended
    <3> QED BY <2>2, <3>2 DEF TxInv, SockTx
  <2> QED BY <2>1, <2>2
<1>5. PeerTx' BY <1>1, <1>2, <1>4 DEF TxInv, PeerTx
<1>6. ASSUME NEW m \in toPeer' PROVE FromUs(m)
  <2>0. /\ s.txFlags \in {{}, {"ACK"}, {"ACK", "FIN"}} /\ s.txLen \in Nat /\ s.txAt \in Nat
        /\ asked \in Nat
    BY Zenon DEF Typed, Socket
  <2>1. CASE m \in toPeer BY <2>1 DEF TxInv, OutTx
  <2>2. CASE m.flags = {"ACK"} /\ m.len = 0 BY <2>2 DEF FromUs
  <2>3. CASE call.op = "again connect" /\ m = Seg(s, s.iss, {"SYN"}, 0, 0)
    <3>1. s.iss = ISS BY <2>3, Zenon DEF Typed, TxInv, SockTx
    <3>2. m.flags = {"SYN"} /\ m.seq = ISS /\ m.len = 0 BY <2>3, <3>1, Zenon DEF Seg
    <3> QED BY <3>2 DEF FromUs
  <2>4. CASE call.op = "again send" /\ m = Seg(s, s.una, s.txFlags, s.txAt, s.txLen)
    <3>1. s.txFlags = {"ACK"} BY <2>4, Zenon DEF TxInv, SockTx, SendCalls
    <3>2. ~ Ended BY <3>1 DEF Ended
    <3>3. m.flags = {"ACK"} /\ m.seq = s.una /\ m.d = s.txAt /\ m.len = s.txLen
      BY <2>4, <3>1, Zenon DEF Seg
    <3>4. s.txLen # 0 => s.txAt + s.txLen = asked /\ s.una = Add(ISS, 1 + s.txAt)
      BY <3>1, <3>2 DEF TxInv, SockTx
    <3>5. CASE s.txLen = 0 BY <3>3, <3>5 DEF FromUs
    <3>6. CASE s.txLen # 0
      <4>1. /\ m.seq = Add(ISS, 1 + m.d) /\ m.d + m.len = asked
        BY <3>3, <3>4, <3>6
      <4>2. m.d + m.len <= asked BY <2>0, <4>1
      <4>3. Boundary(m.d + m.len) BY <4>1 DEF Boundary
      <4> QED BY <3>3, <4>1, <4>2, <4>3 DEF FromUs
    <3> QED BY <3>5, <3>6
  <2>5. CASE call.op = "close" /\ m = Seg(s, s.una, s.txFlags, 0, 0)
    <3>1. m.flags = s.txFlags /\ m.len = 0 BY <2>5 DEF Seg
    <3> QED BY <2>0, <3>1 DEF FromUs, Ended
  <2>6. CASE s.state = "TIME_WAIT" /\ m = AckSeg(s)
    <3>1. m.flags = {"ACK"} /\ m.len = 0 BY <2>6 DEF AckSeg, Seg
    <3> QED BY <3>1 DEF FromUs
  <2> QED BY <2>1, <2>2, <2>3, <2>4, <2>5, <2>6, Zenon DEF Resent
<1>7. \A m : FromUs(m)' = FromUs(m) BY <1>1, <1>2 DEF FromUs
<1>8. OutTx' BY <1>6, <1>7 DEF OutTx
<1>9. \A m : Covers(m)' = Covers(m) BY <1>1, <1>2 DEF Covers
<1>10. InTx' BY <1>9 DEF TxInv, InTx
<1> QED BY <1>3, <1>5, <1>8, <1>10

\* A step that leaves the streams alone.
LEMMA QuietTx ==
  ASSUME Typed, TxInv, Quiet
  PROVE  SockTx' /\ PeerTx' /\ OutTx' /\ InTx'
<1>1. Kept(s') /\ UNCHANGED <<asked, peer>> /\ toUs' \subseteq toUs BY DEF Quiet
<1> QED BY <1>1, KeepTx DEF Quiet, Kept

\* tcp_connect(): the SYN.
LEMMA ConnectTx ==
  ASSUME Typed, TxInv, Connect
  PROVE  SockTx' /\ PeerTx' /\ OutTx' /\ InTx'
<1>1. /\ UNCHANGED <<asked, done, peer, toUs>>
      /\ s.iss = M /\ call'.op = "arm connect"
      /\ s'.iss = ISS /\ s'.nxt = Add(ISS, 1) /\ s'.state = "SYN_SENT"
      /\ s'.txLen = s.txLen /\ s'.txAt = s.txAt /\ s'.txFlags = s.txFlags
      /\ toPeer' \subseteq toPeer \cup {Seg(s', ISS, {"SYN"}, 0, 0)}
  BY ConnectIs, Zenon
<1>2. s.txFlags = {} /\ asked = 0 /\ s.txLen = 0 BY <1>1, Zenon DEF TxInv, SockTx
<1>3. Ended' = Ended /\ ~ Ended BY <1>1, <1>2, Zenon DEF Ended
<1>4. \A g : Boundary(g)' = Boundary(g) BY <1>1, Zenon DEF Boundary
<1>5. ISS # M BY Sizes
<1>6. SockTx' BY <1>1, <1>2, <1>3, <1>5, Zenon DEF TxInv, SockTx, SendCalls
<1>7. PeerTx' BY <1>1, <1>3, <1>4, Zenon DEF TxInv, PeerTx
<1>8. \A m : FromUs(m)' = FromUs(m) BY <1>1, <1>3, <1>4, Zenon DEF FromUs
<1>9. FromUs(Seg(s', ISS, {"SYN"}, 0, 0)) BY DEF FromUs, Seg
<1>10. OutTx' BY <1>1, <1>8, <1>9, Zenon DEF TxInv, OutTx
<1>11. \A m : Covers(m)' = Covers(m) BY <1>1, <1>3, <1>4, Zenon DEF Covers
<1>12. InTx' BY <1>1, <1>11, Zenon DEF TxInv, InTx
<1> QED BY <1>6, <1>7, <1>10, <1>12

\* tcp_close(): after the FIN only what the peer has matters.
LEMMA CloseTx ==
  ASSUME Typed, TxInv, Close
  PROVE  SockTx' /\ PeerTx' /\ OutTx' /\ InTx'
<1>1. CASE Quiet BY <1>1, QuietTx
<1>2. CASE ~ Quiet
  <2>1. /\ UNCHANGED <<asked, done, peer, toUs>>
        /\ s.state \in {"CLOSE_WAIT", "ESTABLISHED"} /\ s'.iss = s.iss
        /\ s'.state \in {"LAST_ACK", "FIN_WAIT1"} /\ s'.txFlags = {"ACK", "FIN"}
        /\ s'.txAt = s.txAt /\ call'.op = "arm close"
        /\ toPeer' \subseteq toPeer \cup {Seg(s', s.nxt, {"ACK", "FIN"}, 0, 0)}
    BY <1>2, CloseIs, Zenon
  <2>2. Ended' BY <2>1, Zenon DEF Ended
  <2>3. SockTx' BY <2>1, <2>2, Zenon DEF TxInv, SockTx, SendCalls
  <2>4. PeerTx' BY <2>1, <2>2, Zenon DEF TxInv, PeerTx
  <2>5. \A m : FromUs(m) => FromUs(m)' BY <2>1, <2>2, Zenon DEF FromUs
  <2>6. ASSUME NEW m, m.flags = {"ACK", "FIN"}, m.len = 0 PROVE FromUs(m)'
    BY <2>2, <2>6 DEF FromUs
  <2>a. ASSUME NEW m \in toPeer', m \notin toPeer PROVE FromUs(m)'
    <3>1. m = Seg(s', s.nxt, {"ACK", "FIN"}, 0, 0) BY <2>1, <2>a, Zenon
    <3>2. m.flags = {"ACK", "FIN"} /\ m.len = 0 BY <3>1 DEF Seg
    <3> QED BY <2>6, <3>2
  <2>7. OutTx' BY <2>5, <2>a DEF TxInv, OutTx
  <2>8. InTx' BY <2>2 DEF InTx, Covers
  <2> QED BY <2>3, <2>4, <2>7, <2>8
<1> QED BY <1>1, <1>2

\* tcp_recv() sends a bare acknowledgement.
LEMMA RecvTx ==
  ASSUME Typed, TxInv, NEW max \in 1..Ring, Recv(max)
  PROVE  SockTx' /\ PeerTx' /\ OutTx' /\ InTx'
<1>1. /\ UNCHANGED <<call, asked, done, peer, toUs>> /\ s \in Socket
      /\ toPeer' \subseteq toPeer \cup {AckSeg(s')}
      /\ Typed'
  BY RecvIs, Zenon DEF Typed
<1>2. /\ s'.una = s.una /\ s'.nxt = s.nxt /\ s'.iss = s.iss
      /\ s'.txLen = s.txLen /\ s'.txAt = s.txAt /\ s'.txFlags = s.txFlags
      /\ s'.state = s.state
  BY <1>1 DEF Recv, Socket
<1>3. AckSeg(s').flags = {"ACK"} /\ AckSeg(s').len = 0 BY DEF AckSeg, Seg
<1> QED BY <1>1, <1>2, <1>3, KeepTx

\* tcp_receive() completes the handshake
LEMMA EstTx ==
  ASSUME Typed, TxInv, NEW m \in toUs, s.state = "SYN_SENT", m.ack = Add(s.iss, 1),
         s' = [Pushed([s EXCEPT !.una = m.ack, !.state = "ESTABLISHED",
                                !.armed = FALSE, !.retries = 0], m.d, m.len)
               EXCEPT !.rcv = Add(m.seq, 1 + m.len)],
         toPeer' \subseteq toPeer \cup {AckSeg(s')}, toUs' \subseteq toUs,
         UNCHANGED <<call, asked, done, got, peer>>
  PROVE  SockTx' /\ PeerTx' /\ OutTx' /\ InTx'
<1>1. m \in InSegs BY Zenon DEF Typed
<1>2. /\ s'.state = "ESTABLISHED" /\ s'.una = m.ack /\ s'.nxt = s.nxt /\ s'.iss = s.iss
      /\ s'.txLen = s.txLen /\ s'.txAt = s.txAt /\ s'.txFlags = s.txFlags
  BY <1>1, EstIs, ZenonT(40)
<1>3. s.iss = ISS /\ s.nxt = Add(ISS, 1) /\ s.txFlags = {} /\ asked = 0 /\ s.txLen = 0
  BY DEF TxInv, SockTx
<1>4. Ended' = Ended /\ ~ Ended BY <1>2, <1>3 DEF Ended
<1>5. \A g : Boundary(g)' = Boundary(g) BY <1>2 DEF Boundary
<1>6. SockTx'
  <2>1. 1 + 0 = 1 OBVIOUS
  <2> QED BY <1>2, <1>3, <1>4, <2>1 DEF TxInv, SockTx
<1>7. PeerTx' BY <1>4, <1>5 DEF TxInv, PeerTx
<1>8. \A n : FromUs(n)' = FromUs(n) BY <1>4, <1>5 DEF FromUs
<1>9. FromUs(AckSeg(s')) BY DEF FromUs, AckSeg, Seg
<1>10. OutTx' BY <1>8, <1>9 DEF TxInv, OutTx
<1>11. \A n : Covers(n)' = Covers(n) BY <1>4, <1>5 DEF Covers
<1>12. InTx' BY <1>11 DEF TxInv, InTx
<1> QED BY <1>6, <1>7, <1>10, <1>12

\* An acknowledgement that tcp_receive() accepts covers everything that was sent
LEMMA AcksAll ==
  ASSUME Typed, TxInv, NEW m \in toUs, Acks(s, m), ~ Ended,
         s.state \notin {"CLOSED", "SYN_SENT"}
  PROVE  m.ack = Add(ISS, 1 + asked) /\ asked <= Len(peer.got)
<1>1. asked \in Nat /\ asked <= NOut /\ s.txAt \in Nat /\ Len(peer.got) \in Nat
  BY Lengths, Zenon DEF Typed, Socket
<1>2. /\ s.txLen = 0 => s.una = Add(ISS, 1 + asked)
      /\ s.txLen # 0 => s.una = Add(ISS, 1 + s.txAt)
      /\ s.txAt <= asked /\ Len(peer.got) <= asked
  BY DEF TxInv, SockTx, PeerTx
<1>3. PICK g \in 0..Len(peer.got) : m.ack = Add(ISS, 1 + g) /\ Boundary(g)
  BY DEF TxInv, InTx, Covers, Acks
<1>4. g \in Nat /\ 2 * g < M - 2 /\ 2 * asked < M - 2 /\ 2 * s.txAt < M - 2
  <2>1. ASSUME NEW i \in Nat, i <= asked PROVE 2 * i < M - 2 BY <1>1, <2>1, Sizes
  <2>2. g \in Nat /\ g <= asked BY <1>1, <1>2, <1>3
  <2>3. asked <= asked BY <1>1
  <2> QED BY <1>1, <1>2, <2>1, <2>2, <2>3
<1>5. CASE s.txLen = 0
  <2>1. Diff(Add(ISS, 1 + g), Add(ISS, 1 + asked)) = g - asked BY <1>1, <1>4, Sizes, DiffIs
  <2>2. Diff(m.ack, s.una) = g - asked BY <1>2, <1>3, <1>5, <2>1
  <2>3. g - asked > 0 BY <2>2 DEF Acks
  <2> QED BY <1>1, <1>2, <1>3, <2>3
<1>6. CASE s.txLen # 0
  <2>1. Diff(Add(ISS, 1 + g), Add(ISS, 1 + s.txAt)) = g - s.txAt BY <1>1, <1>4, Sizes, DiffIs, ZenonT(40)
  <2>2. Diff(m.ack, s.una) = g - s.txAt BY <1>2, <1>3, <1>6, <2>1
  <2>3. g - s.txAt > 0 BY <2>2 DEF Acks
  <2>4. ~ (g <= s.txAt) BY <1>1, <1>4, <2>3
  <2>5. g = asked BY <1>3, <2>4 DEF Boundary
  <2> QED BY <1>3, <2>5
<1> QED BY <1>5, <1>6

\* tcp_receive() with a connection: an acknowledgement empties the slot
LEMMA DataTx ==
  ASSUME Typed, TxInv, NEW m \in toUs,
         s.state \in {"ESTABLISHED", "FIN_WAIT1", "FIN_WAIT2", "CLOSING"},
         s' = Advanced(WithFin(m)),
         toPeer' \subseteq toPeer \cup {AckSeg(Took(m)), AckSeg(WithFin(m))},
         toUs' \subseteq toUs, UNCHANGED <<call, asked, done, got, peer>>
  PROVE  SockTx' /\ PeerTx' /\ OutTx' /\ InTx'
<1>1. m \in InSegs BY Zenon DEF Typed
<1>2. /\ s'.iss = s.iss /\ s'.nxt = s.nxt /\ s'.txAt = s.txAt /\ s'.txFlags = s.txFlags
      /\ s.state # "ESTABLISHED" => s'.state # "ESTABLISHED"
      /\ s'.state \notin {"CLOSED", "SYN_SENT"}
  BY <1>1, TookIs, Zenon
<1>3. /\ Acks(s, m) => s'.una = m.ack /\ s'.txLen = 0
      /\ ~ Acks(s, m) => s'.una = s.una /\ s'.txLen = s.txLen
  BY <1>1, TookIs, Zenon
<1>4. Ended' = Ended BY <1>2 DEF Ended
<1>5. \A g : Boundary(g)' = Boundary(g) BY <1>2 DEF Boundary
<1>6. SockTx'
  <2>1. CASE Acks(s, m)
    <3>1. ~ Ended => m.ack = Add(ISS, 1 + asked) /\ asked <= Len(peer.got) BY <2>1, AcksAll
    <3> QED BY <1>2, <1>3, <1>4, <2>1, <3>1 DEF TxInv, SockTx
  <2>2. CASE ~ Acks(s, m) BY <1>2, <1>3, <1>4, <2>2 DEF TxInv, SockTx
  <2> QED BY <2>1, <2>2
<1>7. PeerTx' BY <1>4, <1>5 DEF TxInv, PeerTx
<1>8. \A n : FromUs(n)' = FromUs(n) BY <1>4, <1>5 DEF FromUs
<1>9. FromUs(AckSeg(Took(m))) /\ FromUs(AckSeg(WithFin(m)))
  <2>1. ASSUME NEW t PROVE FromUs(AckSeg(t))
    <3>1. AckSeg(t).len = 0 /\ AckSeg(t).flags = {"ACK"} BY DEF AckSeg, Seg
    <3> QED BY <3>1 DEF FromUs
  <2> QED BY <2>1, Zenon
<1>10. OutTx' BY <1>8, <1>9 DEF TxInv, OutTx
<1>11. \A n : Covers(n)' = Covers(n) BY <1>4, <1>5 DEF Covers
<1>12. InTx' BY <1>11 DEF TxInv, InTx
<1> QED BY <1>6, <1>7, <1>10, <1>12

\* tcp_receive().
LEMMA ReceiveTx ==
  ASSUME Typed, TxInv, NEW m \in toUs, Receive(m)
  PROVE  SockTx' /\ PeerTx' /\ OutTx' /\ InTx'
<1>1. /\ toUs' \subseteq toUs /\ UNCHANGED <<call, asked, done, got, peer>>
      /\ \/ s' = s /\ toPeer' \subseteq toPeer
         \/ s.state = "TIME_WAIT" /\ s' = s /\ toPeer' \subseteq toPeer \cup {AckSeg(s)}
         \/ s' = [s EXCEPT !.state = "CLOSED"] /\ toPeer' \subseteq toPeer
         \/ /\ s.state = "SYN_SENT" /\ {"SYN", "ACK"} \subseteq m.flags
            /\ m.ack = Add(s.iss, 1)
            /\ s' = [Pushed([s EXCEPT !.una = m.ack, !.state = "ESTABLISHED",
                                      !.armed = FALSE, !.retries = 0], m.d, m.len)
                     EXCEPT !.rcv = Add(m.seq, 1 + m.len)]
            /\ toPeer' \subseteq toPeer \cup {AckSeg(s')}
         \/ /\ s.state \in {"ESTABLISHED", "FIN_WAIT1", "FIN_WAIT2", "CLOSING"}
            /\ s' = Advanced(WithFin(m))
            /\ toPeer' \subseteq toPeer \cup {AckSeg(Took(m)), AckSeg(WithFin(m))}
  BY ReceiveIs, Zenon
<1>2. s \in Socket BY Zenon DEF Typed
<1>3. CASE s' = s /\ toPeer' \subseteq toPeer BY <1>1, <1>3, KeepTx
<1>4. CASE s.state = "TIME_WAIT" /\ s' = s /\ toPeer' \subseteq toPeer \cup {AckSeg(s)}
  <2>1. \A n \in toPeer' : n \in toPeer \/ Resent(n) BY <1>4, Zenon DEF Resent
  <2> QED BY <1>1, <1>4, <2>1, KeepTx
<1>5. CASE s' = [s EXCEPT !.state = "CLOSED"] /\ toPeer' \subseteq toPeer
  <2>1. /\ s'.una = s.una /\ s'.nxt = s.nxt /\ s'.iss = s.iss /\ s'.state = "CLOSED"
        /\ s'.txLen = s.txLen /\ s'.txAt = s.txAt /\ s'.txFlags = s.txFlags
    BY <1>2, <1>5 DEF Socket
  <2> QED BY <1>1, <1>5, <2>1, KeepTx
<1> QED BY <1>1, <1>3, <1>4, <1>5, EstTx, DataTx, Zenon

\* tcp_send() gives the next chunk to the empty slot
LEMMA ChunkTx ==
  ASSUME Typed, TxInv, NEW left \in Nat, left > 0, asked + left <= NOut, Chunk(left),
         UNCHANGED <<got, peer, toUs>>, done' \in Nat, done' <= asked,
         done' <= Len(peer.got), s.txLen = 0, ~ Ended,
         s.txFlags # {} \/ s.state = "ESTABLISHED"
  PROVE  SockTx' /\ PeerTx' /\ OutTx' /\ InTx'
<1>1. /\ call'.op = "arm send"
      /\ s'.una = s.una /\ s'.iss = s.iss /\ s'.state = s.state
      /\ s'.txAt = asked /\ s'.txFlags = {"ACK"}
      /\ \E len \in 1..left :
           /\ s'.nxt = Add(s.nxt, len) /\ s'.txLen = len /\ asked' = asked + len
           /\ toPeer' \subseteq toPeer \cup {Seg(s', s.una, {"ACK"}, asked, len)}
  BY ChunkIs, Zenon
<1>2. PICK len \in 1..left :
        /\ s'.nxt = Add(s.nxt, len) /\ s'.txLen = len /\ asked' = asked + len
        /\ toPeer' \subseteq toPeer \cup {Seg(s', s.una, {"ACK"}, asked, len)}
  BY <1>1, Zenon
<1>3. asked \in Nat /\ Len(peer.got) \in Nat BY Lengths, Zenon DEF Typed
<1>4. len \in Nat /\ len # 0 /\ asked + len <= NOut /\ asked <= asked + len
  <2>1. ASSUME NEW a \in Nat, NEW i \in 1..left, a + left <= NOut
        PROVE i \in Nat /\ i # 0 /\ a + i <= NOut /\ a <= a + i
    BY <2>1, Sizes
  <2> QED BY <1>3, <2>1, Zenon
<1>5. s.nxt = Add(ISS, 1 + asked) /\ s.una = Add(ISS, 1 + asked) BY DEF TxInv, SockTx
<1>6. s'.nxt = Add(ISS, 1 + (asked + len))
  <2>1. /\ 1 + asked \in Nat /\ (1 + asked) + len < M /\ (1 + asked) + len = 1 + (asked + len)
    BY <1>3, <1>4, Sizes
  <2>2. Add(Add(ISS, 1 + asked), len) = Add(ISS, (1 + asked) + len)
    BY <1>4, <2>1, AddAdd, Sizes
  <2> QED BY <1>2, <1>5, <2>1, <2>2
<1>7. ~ Ended' BY <1>1, Zenon DEF Ended
<1>8. SockTx'
  <2>1. s'.iss # M /\ s'.state # "SYN_SENT" BY <1>1, Zenon DEF TxInv, SockTx
  <2>2. s'.iss # M => s'.iss = ISS BY <1>1, Zenon DEF TxInv, SockTx
  <2>3. s'.txAt <= asked' /\ s'.txAt + s'.txLen = asked' /\ s'.txLen # 0
    BY <1>1, <1>2, <1>4, Zenon
  <2>4. s'.nxt = Add(ISS, 1 + asked') /\ s'.una = Add(ISS, 1 + s'.txAt)
    BY <1>1, <1>2, <1>5, <1>6, Zenon
  <2> QED BY <1>1, <1>7, <2>1, <2>2, <2>3, <2>4, Zenon DEF SockTx
<1>9. \A g \in Nat : g <= asked => Boundary(g)' BY <1>1, Zenon DEF Boundary
<1>10. PeerTx'
  <2>1. Len(peer.got) <= asked BY DEF TxInv, PeerTx
  <2>2. Len(peer.got) <= asked' BY <1>2, <1>3, <1>4, <2>1
  <2>3. Boundary(Len(peer.got))' BY <1>3, <1>9, <2>1
  <2> QED BY <1>7, <2>2, <2>3 DEF TxInv, PeerTx
<1>11. ASSUME NEW m \in toPeer PROVE FromUs(m)'
  <2>1. FromUs(m) /\ m.d \in Nat /\ m.len \in Nat BY Zenon DEF TxInv, OutTx, Typed, OutSegs
  <2>2. m.len > 0 => m.d + m.len <= asked /\ m.seq = Add(ISS, 1 + m.d) BY <2>1 DEF FromUs
  <2>3. m.len > 0 => m.d + m.len <= asked' BY <1>2, <1>3, <1>4, <2>1, <2>2
  <2>4. m.len > 0 => Boundary(m.d + m.len)' BY <1>9, <2>1, <2>2
  <2> QED BY <1>7, <2>1, <2>2, <2>3, <2>4 DEF FromUs
<1>12. ASSUME NEW m, m = Seg(s', s.una, {"ACK"}, asked, len) PROVE FromUs(m)'
  <2>1. m.flags = {"ACK"} /\ m.seq = s.una /\ m.d = asked /\ m.len = len BY <1>12 DEF Seg
  <2>2. m.d + m.len = asked' BY <1>2, <2>1
  <2>3. m.d + m.len <= asked' BY <1>2, <1>3, <1>4, <2>2
  <2>4. Boundary(m.d + m.len)' BY <2>2 DEF Boundary
  <2> QED BY <1>5, <2>1, <2>3, <2>4 DEF FromUs
<1>13. OutTx'
  <2>1. ASSUME NEW m \in toPeer' PROVE FromUs(m)'
    <3>1. CASE m \in toPeer BY <1>11, <3>1
    <3>2. CASE m = Seg(s', s.una, {"ACK"}, asked, len) BY <1>12, <3>2
    <3> QED BY <1>2, <3>1, <3>2
  <2> QED BY <2>1 DEF OutTx
<1>14. InTx'
  <2>1. ASSUME NEW m \in toUs, "ACK" \in m.flags
        PROVE \E g \in 0..Len(peer.got) : m.ack = Add(ISS, 1 + g) /\ Boundary(g)'
    <3>1. PICK g \in 0..Len(peer.got) : m.ack = Add(ISS, 1 + g) /\ Boundary(g)
      BY <2>1 DEF TxInv, InTx, Covers
    <3>2. Len(peer.got) <= asked BY DEF TxInv, PeerTx
    <3>3. g \in Nat /\ g <= asked BY <1>3, <3>1, <3>2
    <3> QED BY <1>9, <3>1, <3>3
  <2> QED BY <2>1 DEF InTx, Covers
<1> QED BY <1>8, <1>10, <1>13, <1>14

\* The peer moves: what is sent stays, and it has no less than before
LEMMA PeerStepTx ==
  ASSUME Typed, TxInv, UNCHANGED <<s, call, asked, done>>, toPeer' \subseteq toPeer, PeerTx',
         Len(peer'.got) \in Nat, Len(peer.got) <= Len(peer'.got),
         \A m \in toUs' \ toUs : "ACK" \in m.flags => m.ack = peer'.rcv,
         peer'.state # "LISTEN"
  PROVE  SockTx' /\ OutTx' /\ InTx'
<1>1. Ended' = Ended /\ asked \in Nat /\ Len(peer.got) \in Nat BY Lengths, Zenon DEF Ended, Typed
<1>2. \A g : Boundary(g)' = Boundary(g) BY DEF Boundary
<1>3. SockTx'
  <2>1. asked <= Len(peer.got) => asked <= Len(peer'.got) BY <1>1
  <2> QED BY <1>1, <2>1 DEF TxInv, SockTx
<1>4. OutTx' BY <1>1, <1>2 DEF TxInv, OutTx, FromUs
<1>5. ASSUME NEW m \in toUs', "ACK" \in m.flags, ~ Ended
      PROVE \E g \in 0..Len(peer'.got) : m.ack = Add(ISS, 1 + g) /\ Boundary(g)
  <2>1. CASE m \in toUs
    <3>1. PICK g \in 0..Len(peer.got) : m.ack = Add(ISS, 1 + g) /\ Boundary(g)
      BY <1>5, <2>1 DEF TxInv, InTx, Covers
    <3>2. g \in 0..Len(peer'.got) BY <1>1
    <3> QED BY <3>1, <3>2
  <2>2. CASE m \notin toUs
    <3>1. m.ack = peer'.rcv BY <1>5, <2>2
    <3>2. peer'.rcv = Add(ISS, 1 + Len(peer'.got)) /\ Boundary(Len(peer'.got))
      BY <1>1, <1>2, <1>5 DEF PeerTx
    <3>3. Len(peer'.got) \in 0..Len(peer'.got) OBVIOUS
    <3> QED BY <3>1, <3>2, <3>3
  <2> QED BY <2>1, <2>2
<1>6. InTx' BY <1>1, <1>2, <1>5 DEF InTx, Covers
<1> QED BY <1>3, <1>4, <1>6

\* The peer learns where the stream starts.
LEMMA PeerSynTx ==
  ASSUME Typed, TxInv, NEW m \in toPeer, PeerSyn(m)
  PROVE  SockTx' /\ PeerTx' /\ OutTx' /\ InTx'
<1>1. /\ UNCHANGED <<s, call, asked, done, got>> /\ toPeer' \subseteq toPeer /\ Typed'
      /\ "SYN" \in m.flags /\ peer'.got = peer.got /\ peer'.fin = peer.fin
      /\ peer.state = "LISTEN" => peer'.state = "SYN" /\ peer'.rcv = Add(m.seq, 1)
      /\ peer.state # "LISTEN" => peer' = peer
  BY PeerSynIs
<1>2. PICK f \in {{"RST"}, {"SYN", "ACK"}}, len \in 0..1 :
        toUs' \subseteq toUs \cup {InSeg(IRS, f, 0, len, peer'.rcv)}
  BY PeerSynIs
<1>3. Ended' = Ended BY <1>1 DEF Ended
<1>4. \A g : Boundary(g)' = Boundary(g) BY <1>1 DEF Boundary
<1>5. m.seq = ISS BY <1>1 DEF TxInv, OutTx, FromUs
<1>6. peer'.state # "LISTEN" BY <1>1
<1>7. PeerTx'
  <2>1. CASE peer.state = "LISTEN"
    <3>1. Len(peer.got) = 0 /\ 1 + 0 = 1 BY <2>1 DEF TxInv, PeerTx
    <3>2. peer'.rcv = Add(ISS, 1 + Len(peer'.got)) BY <1>1, <1>5, <2>1, <3>1
    <3> QED BY <1>1, <1>3, <1>4, <1>6, <3>2 DEF TxInv, PeerTx
  <2>2. CASE peer.state # "LISTEN" BY <1>1, <1>3, <1>4, <2>2 DEF TxInv, PeerTx
  <2> QED BY <2>1, <2>2
<1>8. \A n \in toUs' \ toUs : "ACK" \in n.flags => n.ack = peer'.rcv
  BY <1>2 DEF InSeg
<1>9. Len(peer'.got) \in Nat /\ Len(peer.got) <= Len(peer'.got) BY <1>1, Lengths
<1> QED BY <1>1, <1>6, <1>7, <1>8, <1>9, PeerStepTx

\* What the peer takes continues what it has
LEMMA PeerTakes ==
  ASSUME Typed, TxInv, NEW m \in toPeer, PeerRecv(m), ~ Partial
  PROVE  /\ Prefix(peer'.got) /\ Len(peer'.got) <= asked
         /\ Len(peer'.got) \in Nat /\ Len(peer.got) <= Len(peer'.got)
         /\ ~ Ended => Boundary(Len(peer'.got))
         /\ ~ peer'.fin => ~ peer.fin /\ peer'.rcv = Add(ISS, 1 + Len(peer'.got))
<1> DEFINE off == Diff(peer.rcv, m.seq)
<1>1. PICK n \in 0..m.len :
        /\ peer'.got = peer.got \o [i \in 1..n |-> m.d + off + i]
        /\ Len(peer'.got) = Len(peer.got) + n
        /\ n > 0 => ~ peer.fin /\ off \in 0..m.len
        /\ ~ Partial /\ ~ peer.fin /\ off \in 0..m.len => n = m.len - off
        /\ \/ peer'.fin = peer.fin /\ peer'.rcv = Add(peer.rcv, n)
           \/ "FIN" \in m.flags /\ peer'.fin
  BY PeerRecvIs, Zenon
<1>2. /\ m.d \in Nat /\ m.len \in Nat /\ asked \in Nat /\ asked <= NOut
      /\ peer.got \in Seq(Int) /\ Len(peer.got) \in Nat
  BY Lengths, Zenon DEF Typed, OutSegs
<1>3. n \in Nat /\ Len(peer.got) + n \in Nat /\ Len(peer.got) <= Len(peer.got) + n
  BY <1>2
<1>4. /\ Prefix(peer.got) /\ Len(peer.got) <= asked /\ (~ Ended => Boundary(Len(peer.got)))
      /\ (~ peer.fin => peer.rcv = Add(ISS, 1 + Len(peer.got)))
  BY DEF TxInv, PeerTx, PeerRecv
<1>5. n > 0 => /\ m.d + off = Len(peer.got) /\ Len(peer.got) + n = m.d + m.len
               /\ m.d + m.len <= asked /\ (~ Ended => Boundary(m.d + m.len))
  <2>1. SUFFICES ASSUME n > 0
                 PROVE  /\ m.d + off = Len(peer.got) /\ Len(peer.got) + n = m.d + m.len
                        /\ m.d + m.len <= asked /\ (~ Ended => Boundary(m.d + m.len))
    OBVIOUS
  <2>2. m.len > 0 BY <1>1, <1>2, <2>1
  <2>3. /\ m.seq = Add(ISS, 1 + m.d) /\ m.d + m.len <= asked
        /\ ~ Ended => Boundary(m.d + m.len)
    BY <2>2 DEF TxInv, OutTx, FromUs
  <2>4. peer.rcv = Add(ISS, 1 + Len(peer.got)) BY <1>1, <1>4, <2>1
  <2>5. 2 * Len(peer.got) < M - 2 /\ 2 * m.d < M - 2
    <3>1. ASSUME NEW i \in Nat, i <= asked PROVE 2 * i < M - 2 BY <1>2, <3>1, Sizes
    <3>2. m.d <= asked BY <1>2, <2>3
    <3> QED BY <1>2, <1>4, <3>1, <3>2
  <2>6. Diff(Add(ISS, 1 + Len(peer.got)), Add(ISS, 1 + m.d)) = Len(peer.got) - m.d
    BY <1>2, <2>5, Sizes, DiffIs, ZenonT(40)
  <2>7. off = Len(peer.got) - m.d BY <2>3, <2>4, <2>6
  <2>8. n = m.len - off BY <1>1, <2>1
  <2> HIDE DEF off
  <2>9. m.d + off = Len(peer.got) /\ Len(peer.got) + n = m.d + m.len
    <3>1. \A a, b, c \in Nat : b + (a - b) = a /\ a + (c - (a - b)) = b + c OBVIOUS
    <3> QED BY <1>2, <2>7, <2>8, <3>1, ZenonT(40)
  <2> QED BY <2>3, <2>9
<1> HIDE DEF off
<1>6. CASE n = 0
  <2>1. Len(peer'.got) = Len(peer.got) BY <1>1, <1>2, <1>6
  <2>2. peer'.got = peer.got
    <3> DEFINE z == [i \in 1..n |-> m.d + off + i]
    <3>1. z = <<>> BY <1>6
    <3>2. peer'.got = peer.got \o z BY <1>1
    <3> HIDE DEF z
    <3> QED BY <1>2, <3>1, <3>2
  <2>3. ~ peer'.fin => ~ peer.fin /\ peer'.rcv = Add(peer.rcv, 0) BY <1>1, <1>6
  <2>4. ~ peer.fin => Add(peer.rcv, 0) = peer.rcv
    <3>1. ASSUME ~ peer.fin PROVE Add(peer.rcv, 0) = peer.rcv
      <4>1. 1 + Len(peer.got) \in Nat /\ 0 \in Nat /\ (1 + Len(peer.got)) + 0 < M
            /\ (1 + Len(peer.got)) + 0 = 1 + Len(peer.got)
        BY <1>2, <1>4, Sizes
      <4>2. Add(Add(ISS, 1 + Len(peer.got)), 0) = Add(ISS, (1 + Len(peer.got)) + 0)
        BY <4>1, AddAdd, Sizes
      <4> QED BY <1>4, <3>1, <4>1, <4>2
    <3> QED BY <3>1
  <2> QED BY <1>2, <1>3, <1>4, <2>1, <2>2, <2>3, <2>4
<1>7. CASE n > 0
  <2>1. Prefix(peer'.got)
    <3>1. peer'.got = peer.got \o [i \in 1..n |-> Len(peer.got) + i]
      <4>1. m.d + off = Len(peer.got) BY <1>5, <1>7
      <4> QED BY <1>1, <4>1, Zenon
    <3>2. Prefix(peer.got \o [i \in 1..n |-> Len(peer.got) + i])
      BY <1>2, <1>3, <1>4, PrefixGrows
    <3> QED BY <3>1, <3>2, Zenon
  <2>2. Len(peer'.got) = m.d + m.len /\ m.d + m.len <= asked
        /\ (~ Ended => Boundary(m.d + m.len))
    BY <1>1, <1>5, <1>7
  <2>3. ASSUME ~ peer'.fin PROVE ~ peer.fin /\ peer'.rcv = Add(ISS, 1 + Len(peer'.got))
    <3>1. ~ peer.fin /\ peer'.rcv = Add(peer.rcv, n) BY <1>1, <2>3
    <3>2. /\ 1 + Len(peer.got) \in Nat /\ (1 + Len(peer.got)) + n < M
          /\ (1 + Len(peer.got)) + n = 1 + (Len(peer.got) + n)
      BY <1>2, <1>3, <1>5, <1>7, Sizes
    <3>3. Add(Add(ISS, 1 + Len(peer.got)), n) = Add(ISS, (1 + Len(peer.got)) + n)
      BY <1>3, <3>2, AddAdd, Sizes
    <3> QED BY <1>1, <1>4, <3>1, <3>2, <3>3
  <2> QED BY <1>1, <1>3, <2>1, <2>2, <2>3
<1> QED BY <1>3, <1>6, <1>7

\* The peer takes a segment, or what of it is new.
LEMMA PeerRecvTx ==
  ASSUME Typed, TxInv, NEW m \in toPeer, PeerRecv(m), ~ Partial
  PROVE  SockTx' /\ PeerTx' /\ OutTx' /\ InTx'
<1>1. /\ UNCHANGED <<s, call, asked, done, got>> /\ toPeer' \subseteq toPeer
      /\ peer'.state = "EST" /\ peer.state # "LISTEN"
      /\ toUs' \subseteq toUs \cup {InSeg(Add(IRS, 1 + peer'.una), {"ACK"}, 0, 0, peer'.rcv)}
  BY PeerRecvIs, Zenon
<1>2. /\ Prefix(peer'.got) /\ Len(peer'.got) <= asked
      /\ Len(peer'.got) \in Nat /\ Len(peer.got) <= Len(peer'.got)
      /\ ~ Ended => Boundary(Len(peer'.got))
      /\ ~ peer'.fin => ~ peer.fin /\ peer'.rcv = Add(ISS, 1 + Len(peer'.got))
  BY PeerTakes
<1>3. Ended' = Ended BY <1>1 DEF Ended
<1>4. \A g : Boundary(g)' = Boundary(g) BY <1>1 DEF Boundary
<1>5. ~ Ended => ~ peer'.fin
  <2>1. ~ Ended => "FIN" \notin m.flags /\ ~ peer.fin BY DEF TxInv, OutTx, FromUs, PeerTx
  <2>2. peer'.fin = peer.fin \/ "FIN" \in m.flags BY PeerRecvIs, Zenon
  <2> QED BY <2>1, <2>2
<1>6. done <= Len(peer'.got)
  <2>1. done \in Nat /\ Len(peer.got) \in Nat BY Lengths, Zenon DEF Typed
  <2>2. done <= Len(peer.got) BY DEF TxInv, PeerTx
  <2> QED BY <1>2, <2>1, <2>2
<1>7. PeerTx' BY <1>1, <1>2, <1>3, <1>4, <1>5, <1>6 DEF PeerTx
<1>8. \A n \in toUs' \ toUs : "ACK" \in n.flags => n.ack = peer'.rcv BY <1>1 DEF InSeg
<1> QED BY <1>1, <1>2, <1>7, <1>8, PeerStepTx

\* The peer acknowledges with its data.
LEMMA PeerSendTx ==
  ASSUME Typed, TxInv, NEW at \in 0..NIn, NEW len \in 0..MSS, NEW fin \in BOOLEAN,
         PeerSend(at, len, fin)
  PROVE  SockTx' /\ PeerTx' /\ OutTx' /\ InTx'
<1>1. /\ UNCHANGED <<s, call, asked, done, got, peer, toPeer>> /\ peer.state = "EST"
  BY PeerSendIs
<1>2. PICK f \in {{"ACK"}, {"ACK", "FIN"}} :
        toUs' \subseteq toUs \cup {InSeg(Add(IRS, 1 + at), f, at, len, peer.rcv)}
  BY PeerSendIs
<1>3. Ended' = Ended BY <1>1 DEF Ended
<1>4. \A g : Boundary(g)' = Boundary(g) BY <1>1 DEF Boundary
<1>5. PeerTx' BY <1>1, <1>3, <1>4 DEF TxInv, PeerTx
<1>6. \A n \in toUs' \ toUs : "ACK" \in n.flags => n.ack = peer'.rcv BY <1>1, <1>2 DEF InSeg
<1>7. Len(peer'.got) \in Nat /\ Len(peer.got) <= Len(peer'.got) BY <1>1, Lengths
<1> QED BY <1>1, <1>5, <1>6, <1>7, PeerStepTx

\* tcp_send() starts.
LEMMA SendStartTx ==
  ASSUME Typed, TxInv, NEW len \in 1..NOut, SendStart(len)
  PROVE  SockTx' /\ PeerTx' /\ OutTx' /\ InTx'
<1>1. /\ s.state = "ESTABLISHED" /\ asked + len <= NOut /\ Chunk(len) /\ call = Idle
      /\ UNCHANGED <<done, got, peer, toUs>>
  BY DEF SendStart
<1>2. done \in Nat /\ done <= asked BY Zenon DEF Typed
<1>3. len \in Nat /\ len > 0 BY Sizes
<1>4. done' \in Nat /\ done' <= asked BY <1>1, <1>2
<1>5. s.txLen = 0 BY <1>1 DEF TxInv, Slot, Idle, SendCalls
<1>6. ~ Ended /\ done <= Len(peer.got) BY <1>1 DEF TxInv, SockTx, PeerTx
<1>7. done' <= Len(peer.got) BY <1>1, <1>6
<1> QED BY <1>1, <1>3, <1>4, <1>5, <1>6, <1>7, ChunkTx

\* tcp_send() goes on: the chunk acknowledged is one the peer has.
LEMMA SendOnTx ==
  ASSUME Typed, TxInv, SendOn
  PROVE  SockTx' /\ PeerTx' /\ OutTx' /\ InTx'
<1>1. CASE SendDone
  <2>1. /\ UNCHANGED <<asked, peer, toUs, s, toPeer>> /\ call.op = "send" /\ s.txLen = 0
        /\ done' = asked /\ call'.op \notin SendCalls
    BY <1>1 DEF SendDone, Idle, SendCalls
  <2> QED BY <2>1, KeepTx
<1>2. CASE SendMore
  <2>1. asked \in Nat BY Zenon DEF Typed
  <2>2. done' \in Nat /\ done' <= asked BY <1>2, <2>1 DEF SendMore
  <2>3. s.txFlags = {"ACK"} /\ s.txLen = 0 BY <1>2 DEF SendMore, TxInv, SockTx, SendCalls
  <2>4. ~ Ended BY <2>3 DEF Ended
  <2>5. asked <= Len(peer.got) BY <2>3, <2>4 DEF TxInv, SockTx
  <2>6. done' <= Len(peer.got) /\ s.txFlags # {} BY <1>2, <2>3, <2>5 DEF SendMore
  <2> QED BY <1>2, <2>2, <2>3, <2>4, <2>6, ChunkTx DEF SendMore
<1> QED BY <1>1, <1>2, SendOnIs

\* Outside tcp_send() the slot of a connection is empty.
LEMMA SlotStep == Typed /\ TxInv /\ [Next]_vars => Slot'
<1> SUFFICES ASSUME Typed, TxInv, [Next]_vars PROVE Slot' OBVIOUS
<1>0. s \in Socket /\ Slot BY Zenon DEF Typed, TxInv
<1>a. ASSUME UNCHANGED call, s'.state = s.state \/ s'.state # "ESTABLISHED",
             s'.txLen = s.txLen \/ s'.txLen = 0
      PROVE  Slot'
  BY <1>0, <1>a DEF Slot
<1>b. ASSUME s'.state # "ESTABLISHED" PROVE Slot' BY <1>b DEF Slot
<1>c. ASSUME call'.op \in SendCalls PROVE Slot' BY <1>c DEF Slot
<1>d. ASSUME call.op \notin SendCalls, s'.state = s.state, s'.txLen = s.txLen PROVE Slot'
  BY <1>0, <1>d DEF Slot
<1>1. CASE \E m \in toUs : Receive(m)
  <2>1. PICK m \in toUs : Receive(m) BY <1>1
  <2>2. m \in InSegs BY Zenon DEF Typed
  <2>3. /\ UNCHANGED call
        /\ \/ s' = s
           \/ s' = [s EXCEPT !.state = "CLOSED"]
           \/ /\ s.state = "SYN_SENT"
              /\ s' = [Pushed([s EXCEPT !.una = m.ack, !.state = "ESTABLISHED",
                                        !.armed = FALSE, !.retries = 0], m.d, m.len)
                       EXCEPT !.rcv = Add(m.seq, 1 + m.len)]
           \/ s' = Advanced(WithFin(m))
    BY <2>1, ReceiveIs, Zenon
  <2>4. CASE s' = s BY <1>a, <2>3, <2>4
  <2>5. CASE s' = [s EXCEPT !.state = "CLOSED"]
    <3>1. s'.state = "CLOSED" BY <1>0, <2>5 DEF Socket
    <3> QED BY <1>b, <3>1
  <2>6. CASE /\ s.state = "SYN_SENT"
             /\ s' = [Pushed([s EXCEPT !.una = m.ack, !.state = "ESTABLISHED",
                                       !.armed = FALSE, !.retries = 0], m.d, m.len)
                      EXCEPT !.rcv = Add(m.seq, 1 + m.len)]
    <3>1. s'.txLen = s.txLen BY <2>2, <2>6, EstIs, Zenon
    <3>2. s.txLen = 0 BY <2>6 DEF TxInv, SockTx
    <3> QED BY <3>1, <3>2 DEF Slot
  <2>7. CASE s' = Advanced(WithFin(m))
    <3>1. /\ s.state # "ESTABLISHED" => s'.state # "ESTABLISHED"
          /\ (Acks(s, m) => s'.txLen = 0) /\ (~ Acks(s, m) => s'.txLen = s.txLen)
      BY <2>2, <2>7, TookIs, Zenon
    <3> QED BY <1>0, <2>3, <3>1 DEF Slot
  <2> QED BY <2>3, <2>4, <2>5, <2>6, <2>7
<1>2. CASE Arm
  <2>1. s'.state = s.state /\ s'.txLen = s.txLen BY <1>0, <1>2, Zenon DEF Arm, Socket
  <2>2. CASE call.op = "arm send"
    <3>1. call'.op = "send" BY <1>2, <2>2, Zenon DEF Arm, Typed
    <3> QED BY <1>c, <3>1 DEF SendCalls
  <2>3. CASE call.op # "arm send"
    <3>1. call.op \notin SendCalls BY <1>2, <2>3, Zenon DEF Arm, SendCalls
    <3> QED BY <1>d, <2>1, <3>1
  <2> QED BY <2>2, <2>3, Zenon
<1>3. CASE ConnectExpire \/ ConnectAgain \/ ConnectReturn \/ CloseRetry \/ CloseReturn
  <2>1. call.op \notin SendCalls
    BY <1>3, Zenon DEF ConnectExpire, ConnectAgain, ConnectReturn, CloseRetry, CloseReturn, SendCalls
  <2>2. (s'.state = s.state /\ s'.txLen = s.txLen) \/ s'.state = "CLOSED"
    BY <1>0, <1>3, ZenonT(40)
    DEF ConnectExpire, ConnectAgain, ConnectReturn, CloseRetry, CloseReturn, Socket
  <2> QED BY <1>b, <1>d, <2>1, <2>2
<1>4. CASE SendLost \/ SocketClose \/ Connect \/ Close
  <2>1. s'.state # "ESTABLISHED"
    <3>1. CASE SendLost BY <3>1 DEF SendLost
    <3>2. CASE SocketClose BY <1>0, <3>2 DEF SocketClose, Socket
    <3>3. CASE Connect BY <3>3, ConnectIs, Zenon
    <3>4. CASE Close
      <4> DEFINE fin == [s EXCEPT !.nxt = Add(@, 1), !.txFlags = {"ACK", "FIN"}, !.retries = 0]
                 last == [fin EXCEPT !.state = "LAST_ACK"]
                 wait == [fin EXCEPT !.state = "FIN_WAIT1", !.txLen = 1, !.finQueued = TRUE]
                 gone == [s EXCEPT !.state = "CLOSED", !.used = FALSE]
      <4>1. s' = last \/ s' = wait \/ s' = gone BY <3>4, Zenon DEF Close
      <4>2. last.state = "LAST_ACK" /\ wait.state = "FIN_WAIT1" /\ gone.state = "CLOSED"
        BY <1>0 DEF Socket
      <4> HIDE DEF last, wait, gone
      <4> QED BY <4>1, <4>2
    <3> QED BY <1>4, <3>1, <3>2, <3>3, <3>4
  <2> QED BY <1>b, <2>1
<1>5. CASE PollExpire
  <2>1. CASE s.retries >= Retries
    <3>1. s'.state = "CLOSED" BY <1>0, <1>5, <2>1, Zenon DEF PollExpire, Socket
    <3> QED BY <1>b, <3>1
  <2>2. CASE ~ (s.retries >= Retries)
    <3>1. call'.op = "again send" BY <1>5, <2>2, Zenon DEF PollExpire, Typed
    <3> QED BY <1>c, <3>1, Zenon DEF SendCalls
  <2> QED BY <2>1, <2>2
<1>6. CASE PollAgain
  <2>1. call'.op = "send" BY <1>6, Zenon DEF PollAgain, Typed
  <2> QED BY <1>c, <2>1 DEF SendCalls
<1>7. CASE \E max \in 1..Ring : Recv(max)
  <2>1. UNCHANGED call /\ s'.state = s.state /\ s'.txLen = s.txLen
    BY <1>0, <1>7 DEF Recv, Socket
  <2> QED BY <1>a, <2>1
<1>8. CASE \E len \in 1..NOut : SendStart(len)
  <2>1. PICK len \in 1..NOut : Chunk(len) BY <1>8 DEF SendStart
  <2>2. call'.op = "arm send" BY <2>1, Zenon DEF Chunk
  <2> QED BY <1>c, <2>2, Zenon DEF SendCalls
<1>9. CASE SendOn
  <2>1. CASE SendDone BY <2>1 DEF SendDone, Slot
  <2>2. CASE SendMore
    <3>1. call'.op = "arm send" BY <2>2, Zenon DEF SendMore, Chunk
    <3> QED BY <1>c, <3>1, Zenon DEF SendCalls
  <2> QED BY <1>9, <2>1, <2>2, SendOnIs
<1>10. CASE \E m \in toPeer : PeerSyn(m) \/ PeerRecv(m) BY <1>a, <1>10, Zenon DEF PeerSyn, PeerRecv
<1>11. CASE \E at \in 0..NIn, len \in 0..MSS, fin \in BOOLEAN : PeerSend(at, len, fin)
  BY <1>a, <1>11 DEF PeerSend
<1>12. CASE UNCHANGED vars BY <1>a, <1>12 DEF vars
<1> QED BY <1>1, <1>2, <1>3, <1>4, <1>5, <1>6, <1>7, <1>8, <1>9, <1>10, <1>11, <1>12 DEF Next

\* The initial state.
LEMMA InitTx == Init => TxInv
<1> SUFFICES ASSUME Init PROVE TxInv OBVIOUS
<1>1. /\ s.iss = M /\ s.state = "CLOSED" /\ s.txFlags = {} /\ s.txLen = 0 /\ s.txAt = 0
      /\ asked = 0 /\ done = 0 /\ call.op = "none" /\ peer.got = <<>> /\ ~ peer.fin
      /\ peer.state = "LISTEN" /\ toPeer = {} /\ toUs = {}
  BY DEF Init, Idle
<1>2. Len(<<>>) = 0 /\ 0 <= 0 OBVIOUS
<1>3. Prefix(<<>>) BY DEF Prefix
<1>4. SockTx BY <1>1, <1>2 DEF SockTx, SendCalls
<1>5. PeerTx BY <1>1, <1>2, <1>3 DEF PeerTx, Boundary
<1>6. Slot /\ OutTx /\ InTx BY <1>1 DEF Slot, OutTx, InTx
<1> QED BY <1>4, <1>5, <1>6 DEF TxInv

\* Every step keeps the sending invariant.
LEMMA TxStep == ~ Partial /\ Typed /\ TxInv /\ [Next]_vars => TxInv'
<1> SUFFICES ASSUME ~ Partial, Typed, TxInv, [Next]_vars
             PROVE  SockTx' /\ PeerTx' /\ OutTx' /\ InTx'
  BY SlotStep DEF TxInv
<1>1. CASE \E m \in toUs : Receive(m) BY <1>1, ReceiveTx
<1>2. CASE Arm \/ ConnectExpire \/ ConnectAgain \/ ConnectReturn
  BY <1>2, ArmIs, ConnectExpireIs, ConnectAgainIs, ConnectReturnIs, QuietTx
<1>3. CASE SendLost \/ PollExpire \/ PollAgain \/ CloseRetry \/ CloseReturn \/ SocketClose
  BY <1>3, SendLostIs, PollExpireIs, PollAgainIs, CloseRetryIs, CloseReturnIs, SocketCloseIs,
     QuietTx
<1>4. CASE Connect BY <1>4, ConnectTx
<1>5. CASE Close BY <1>5, CloseTx
<1>6. CASE \E max \in 1..Ring : Recv(max) BY <1>6, RecvTx
<1>7. CASE \E len \in 1..NOut : SendStart(len) BY <1>7, SendStartTx
<1>8. CASE SendOn BY <1>8, SendOnTx
<1>9. CASE \E m \in toPeer : PeerSyn(m) \/ PeerRecv(m) BY <1>9, PeerSynTx, PeerRecvTx
<1>10. CASE \E at \in 0..NIn, len \in 0..MSS, fin \in BOOLEAN : PeerSend(at, len, fin)
  BY <1>10, PeerSendTx
<1>11. CASE UNCHANGED vars
  BY <1>11 DEF vars, TxInv, SockTx, PeerTx, OutTx, InTx, Ended, Boundary, FromUs, Covers
<1> QED BY <1>1, <1>2, <1>3, <1>4, <1>5, <1>6, <1>7, <1>8, <1>9, <1>10, <1>11 DEF Next

\* The sending invariant holds always.
LEMMA TxAlways == ~ Partial => (Spec => []TxInv)
<1> SUFFICES ASSUME ~ Partial PROVE Spec => []TxInv OBVIOUS
<1>1. Init => Typed /\ TxInv BY InitTyped, InitTx
<1>2. (Typed /\ TxInv) /\ [Next]_vars => (Typed /\ TxInv)' BY TypedStep, TxStep
<1> QED BY <1>1, <1>2, PTL DEF Spec

\* A peer that takes a segment whole receives what was given to tcp_send() from its
\* beginning, without a gap, a repetition or a swap, though every chunk may be lost,
\* repeated, overtaken or sent again after its acknowledgement.
THEOREM PeerInOrder == ~ Partial => (Spec => []PeerStream)
<1> SUFFICES ASSUME ~ Partial PROVE Spec => []PeerStream OBVIOUS
<1>1. TxInv => PeerStream BY DEF TxInv, PeerTx, PeerStream
<1> QED BY <1>1, TxAlways, PTL

\* tcp_send() reports success only for bytes that such a peer has received: no old
\* acknowledgement frees the slot of a later chunk.
THEOREM SuccessIsDelivery == ~ Partial => (Spec => []SendDelivered)
<1> SUFFICES ASSUME ~ Partial PROVE Spec => []SendDelivered OBVIOUS
<1>1. TxInv => SendDelivered BY DEF TxInv, PeerTx, SendDelivered
<1> QED BY <1>1, TxAlways, PTL

\* What tcp_send() makes of such a network: a peer that takes a segment whole has the
\* bytes in order, and all those that tcp_send() reported as sent.
THEOREM SentRight == ~ Partial => (Spec => []StreamSent)
<1> SUFFICES ASSUME ~ Partial PROVE Spec => []StreamSent OBVIOUS
<1> QED BY PeerInOrder, SuccessIsDelivery, PTL DEF StreamSent
=============================================================================
