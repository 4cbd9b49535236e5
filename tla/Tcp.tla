-------------------------------- MODULE Tcp --------------------------------
(***************************************************************************)
(* One TCP connection of net/tcp.c, opened by this side, over a network    *)
(* that loses, duplicates and reorders segments, to a peer that follows    *)
(* the standard (external: modelled by what a correct TCP may do).         *)
(*                                                                         *)
(* Sequence numbers are taken modulo M, as the code takes them modulo      *)
(* 2^32.  A byte is known by its place in its stream.  tcp_receive() runs  *)
(* from the card's interrupt or from netif_poll(), between any two steps   *)
(* of the blocking calls; a blocking call is a step that starts it and the *)
(* steps of its waiting loop.  Time is left out: an armed timer may fire.  *)
(***************************************************************************)
EXTENDS Integers, Sequences, FiniteSets, FiniteSetsExt

CONSTANTS M,          \* modulus of sequence numbers (2^32)
          ISS, IRS,   \* initial sequence numbers of this side and of the peer
          MSS,        \* TCP_MSS
          Ring,       \* TCP_RX_BUFSZ - 1
          Retries,    \* TCP_RETRIES
          NOut, NIn,  \* bytes this side and the peer send at most
          NetCap,     \* segments under way in each direction
          Probes,     \* TRUE: the peer probes a closed window with a byte
          Partial     \* TRUE: the peer may accept a segment's first part only

ASSUME TcpAssumption ==
  /\ M \in Nat /\ NOut \in Nat /\ NIn \in Nat
  /\ ISS \in 0..(M - 1) /\ IRS \in 0..(M - 1)
  /\ MSS \in Nat \ {0} /\ Ring \in Nat \ {0} /\ Retries \in Nat
  /\ 2 * NOut + 4 < M /\ 2 * NIn + 4 < M

VARIABLES s,        \* the socket
          call,     \* [op, left]: the blocking call in progress
          asked,    \* bytes given to tcp_send() so far
          done,     \* bytes for which tcp_send() reported success
          got,      \* bytes that tcp_recv() returned
          peer,     \* [state, rcv, got, fin, una, edge]
          toPeer, toUs

vars == <<s, call, asked, done, got, peer, toPeer, toUs>>

States == {"CLOSED", "SYN_SENT", "ESTABLISHED", "FIN_WAIT1", "FIN_WAIT2",
           "TIME_WAIT", "CLOSE_WAIT", "LAST_ACK", "CLOSING"}

Add(a, n) == (a + n) % M

\* (int32_t)(a - b), for the comparisons of sequence numbers
Diff(a, b) == LET d == (a - b) % M IN IF 2 * d < M THEN d ELSE d - M

\* A network that holds R's segments too, or some of them
Put(net, R) == {n \in {net \cup Q : Q \in SUBSET R} : Cardinality(n) <= NetCap}

\* Delivery takes a segment away, or leaves a duplicate
Left(net, m) == {net, net \ {m}}

Idle == [op |-> "none", left |-> 0]
----------------------------------------------------------------------------
(* This side.                                                              *)

\* tcp_transmit_seg(): acknowledges rcv_nxt and offers the free part of the ring
Seg(t, seq, flags, d, len) ==
  [seq |-> seq, flags |-> flags, d |-> d, len |-> len, ack |-> t.rcv, win |-> Ring - Len(t.rx)]

AckSeg(t) == Seg(t, t.nxt, {"ACK"}, 0, 0)

\* tcp_rx_push(): what does not fit is dropped
Pushed(t, d, len) ==
  [t EXCEPT !.rx = @ \o [i \in 1..Min({len, Ring - Len(@)}) |-> d + i]]

\* Mutant: any acknowledgement retires the segment, old ones too
AckedAny(t, m) ==
  IF "ACK" \in m.flags
  THEN [t EXCEPT !.una = m.ack, !.txLen = 0, !.armed = FALSE, !.finQueued = FALSE, !.retries = 0]
  ELSE t

\* tcp_receive(): the acknowledgement
Acked(t, m) ==
  IF "ACK" \in m.flags /\ Diff(m.ack, t.una) > 0 /\ Diff(t.nxt, m.ack) >= 0
  THEN [t EXCEPT !.una = m.ack, !.txLen = 0, !.armed = FALSE, !.finQueued = FALSE, !.retries = 0]
  ELSE t

\* tcp_receive(): data in order
Taken(t, m) ==
  IF m.len > 0 /\ m.seq = t.rcv THEN [Pushed(t, m.d, m.len) EXCEPT !.rcv = Add(@, m.len)] ELSE t

\* Mutant: rcv_nxt follows every FIN, also one that is sent again
FinnedBack(t, m) ==
  IF "FIN" \notin m.flags THEN t
  ELSE [t EXCEPT !.rcv = Add(m.seq, 1), !.fin = TRUE,
                 !.state = CASE @ = "ESTABLISHED" -> "CLOSE_WAIT"
                             [] @ = "FIN_WAIT1" -> "CLOSING"
                             [] @ = "FIN_WAIT2" -> "TIME_WAIT"
                             [] OTHER -> @]

\* tcp_receive(): FIN.  The comparison is one of plain unsigned numbers.
Finned(t, m) ==
  IF "FIN" \notin m.flags THEN t
  ELSE [t EXCEPT !.rcv = Max({@, Add(m.seq, m.len + 1)}), !.fin = TRUE,
                 !.state = CASE @ = "ESTABLISHED" -> "CLOSE_WAIT"
                             [] @ = "FIN_WAIT1" -> "CLOSING"
                             [] @ = "FIN_WAIT2" -> "TIME_WAIT"
                             [] OTHER -> @]

\* tcp_receive(): the transitions that wait for the FIN's acknowledgement
Advanced(t) ==
  LET u == IF t.state = "FIN_WAIT1" /\ t.txLen = 0 /\ ~ t.finQueued
           THEN [t EXCEPT !.state = "FIN_WAIT2"] ELSE t
  IN IF u.state = "CLOSING" /\ u.txLen = 0 THEN [u EXCEPT !.state = "TIME_WAIT"] ELSE u

\* tcp_receive(): the socket after segment m, and what is sent in answer
Processed(m) ==
  LET est == [Pushed([s EXCEPT !.una = m.ack, !.state = "ESTABLISHED", !.armed = FALSE,
                               !.retries = 0], m.d, m.len)
              EXCEPT !.rcv = Add(m.seq, 1 + m.len)]
      a == Taken(Acked(s, m), m)
      f == Finned(a, m)
      acks == (IF m.len > 0 THEN {AckSeg(a)} ELSE {}) \cup (IF "FIN" \in m.flags THEN {AckSeg(f)} ELSE {})
  IN IF "RST" \in m.flags THEN <<[s EXCEPT !.state = "CLOSED"], {}>> ELSE
     CASE s.state = "SYN_SENT" /\ {"SYN", "ACK"} \subseteq m.flags /\ m.ack = Add(s.iss, 1) -> <<est, {AckSeg(est)}>>
       [] s.state \in {"ESTABLISHED", "FIN_WAIT1", "FIN_WAIT2", "CLOSING"} -> <<Advanced(f), acks>>
       [] s.state = "LAST_ACK" /\ "ACK" \in m.flags /\ m.ack = s.nxt -> <<[s EXCEPT !.state = "CLOSED"], {}>>
       [] s.state = "TIME_WAIT" /\ "FIN" \in m.flags -> <<s, {AckSeg(s)}>>
       [] OTHER -> <<s, {}>>

\* tcp_receive(): closed sockets get nothing
Receive(m) ==
  /\ m \in toUs
  /\ toUs' \in Left(toUs, m)
  /\ IF s.used /\ s.state # "CLOSED"
     THEN s' = Processed(m)[1] /\ toPeer' \in Put(toPeer, Processed(m)[2])
     ELSE UNCHANGED <<s, toPeer>>
  /\ UNCHANGED <<call, asked, done, got, peer>>

\* The timer is armed after the segment is out; the answer may come before that
Arm ==
  /\ call.op \in {"arm connect", "arm send", "arm close"}
  /\ s' = [s EXCEPT !.armed = TRUE]
  /\ call' = [call EXCEPT !.op = CASE @ = "arm connect" -> "connect"
                                    [] @ = "arm send" -> "send" [] OTHER -> "close"]
  /\ UNCHANGED <<asked, done, got, peer, toPeer, toUs>>

\* tcp_connect() up to its waiting loop (a socket is connected once)
Connect ==
  /\ call = Idle /\ s.used /\ s.state = "CLOSED" /\ s.iss = M
  /\ s' = [s EXCEPT !.iss = ISS, !.una = ISS, !.nxt = Add(ISS, 1), !.state = "SYN_SENT"]
  /\ toPeer' \in Put(toPeer, {Seg(s', ISS, {"SYN"}, 0, 0)})
  /\ call' = [op |-> "arm connect", left |-> 0]
  /\ UNCHANGED <<asked, done, got, peer, toUs>>

\* tcp_connect(): time to send the SYN again, or to give up
ConnectExpire ==
  /\ call.op = "connect" /\ s.state = "SYN_SENT" /\ s.armed
  /\ IF s.retries >= Retries
     THEN s' = [s EXCEPT !.state = "CLOSED"] /\ UNCHANGED call
     ELSE call' = [call EXCEPT !.op = "again connect"] /\ UNCHANGED s
  /\ UNCHANGED <<asked, done, got, peer, toPeer, toUs>>

\* tcp_connect(): the SYN again, though the handshake may be complete by now
ConnectAgain ==
  /\ call.op = "again connect"
  /\ s' = [s EXCEPT !.retries = @ + 1, !.armed = TRUE]
  /\ toPeer' \in Put(toPeer, {Seg(s, s.iss, {"SYN"}, 0, 0)})
  /\ call' = [call EXCEPT !.op = "connect"]
  /\ UNCHANGED <<asked, done, got, peer, toUs>>

\* tcp_connect() returns; the 10 s timeout leaves the socket as it is
ConnectReturn ==
  /\ call.op = "connect"
  /\ call' = Idle
  /\ s' = IF s.state = "SYN_SENT" THEN s ELSE [s EXCEPT !.armed = FALSE, !.retries = 0]
  /\ UNCHANGED <<asked, done, got, peer, toPeer, toUs>>

\* tcp_send(): the next chunk, with snd_nxt advanced before it is sent.  It goes
\* out at snd_una.
Chunk(left) ==
  LET len == Min({left, MSS})
      t == [s EXCEPT !.nxt = Add(@, len), !.txLen = len, !.txAt = asked, !.txFlags = {"ACK"},
                     !.finQueued = FALSE, !.retries = 0]
  IN /\ s' = t
     /\ asked' = asked + len
     /\ toPeer' \in Put(toPeer, {Seg(t, t.una, t.txFlags, asked, len)})
     /\ call' = [op |-> "arm send", left |-> left - len]

SendStart(len) ==
  /\ call = Idle /\ s.used /\ s.state = "ESTABLISHED"
  /\ len > 0 /\ asked + len <= NOut
  /\ Chunk(len)
  /\ UNCHANGED <<done, got, peer, toUs>>

\* tcp_send(): the slot is free, so the chunk counts as sent
SendOn ==
  /\ call.op = "send" /\ s.txLen = 0
  /\ done' = asked
  /\ IF call.left > 0 THEN Chunk(call.left) ELSE call' = Idle /\ UNCHANGED <<s, asked, toPeer>>
  /\ UNCHANGED <<got, peer, toUs>>

\* tcp_send(): the connection is lost
SendLost ==
  /\ call.op = "send" /\ s.txLen # 0 /\ s.state # "ESTABLISHED"
  /\ call' = Idle
  /\ UNCHANGED <<s, asked, done, got, peer, toPeer, toUs>>

\* tcp_poll(): time to send the segment again, or to give up
PollExpire ==
  /\ call.op = "send" /\ s.state = "ESTABLISHED" /\ s.txLen # 0 /\ s.armed
  /\ IF s.retries >= Retries
     THEN s' = [s EXCEPT !.state = "CLOSED", !.armed = FALSE] /\ UNCHANGED call
     ELSE call' = [call EXCEPT !.op = "again send"] /\ UNCHANGED s
  /\ UNCHANGED <<asked, done, got, peer, toPeer, toUs>>

\* tcp_poll(): what is left of the segment, which may be acknowledged by now
PollAgain ==
  /\ call.op = "again send"
  /\ s' = [s EXCEPT !.retries = @ + 1, !.armed = TRUE]
  /\ toPeer' \in Put(toPeer, {Seg(s, s.una, s.txFlags, s.txAt, s.txLen)})
  /\ call' = [call EXCEPT !.op = "send"]
  /\ UNCHANGED <<asked, done, got, peer, toUs>>

\* tcp_recv(): drains the ring and sends a window update
Recv(max) ==
  LET n == Min({max, Len(s.rx)})
  IN /\ call = Idle /\ s.used /\ s.rx # <<>>
     /\ got' = got \o SubSeq(s.rx, 1, n)
     /\ s' = [s EXCEPT !.rx = SubSeq(@, n + 1, Len(@))]
     /\ toPeer' \in Put(toPeer, {AckSeg(s')})
     /\ UNCHANGED <<call, asked, done, peer, toUs>>

\* tcp_close(): sends FIN and waits, or ends at once
Close ==
  LET fin == [s EXCEPT !.nxt = Add(@, 1), !.txFlags = {"ACK", "FIN"}, !.retries = 0]
      t == IF s.state = "CLOSE_WAIT" THEN [fin EXCEPT !.state = "LAST_ACK"]
           ELSE [fin EXCEPT !.state = "FIN_WAIT1", !.txLen = 1, !.finQueued = TRUE]
  IN /\ call = Idle /\ s.used
     /\ IF s.state \in {"CLOSE_WAIT", "ESTABLISHED"}
        THEN /\ s' = t
             /\ toPeer' \in Put(toPeer, {Seg(t, s.nxt, t.txFlags, 0, 0)})
             /\ call' = [op |-> "arm close", left |-> 0]
        ELSE s' = [s EXCEPT !.state = "CLOSED", !.used = FALSE] /\ UNCHANGED <<toPeer, call>>
     /\ UNCHANGED <<asked, done, got, peer, toUs>>

\* tcp_close(): FIN again, at snd_una
CloseRetry ==
  /\ call.op = "close" /\ s.armed /\ s.retries < Retries
  /\ s.state = "LAST_ACK" \/ (s.state \notin {"CLOSED", "TIME_WAIT"} /\ s.txLen # 0)
  /\ s' = [s EXCEPT !.retries = @ + 1]
  /\ toPeer' \in Put(toPeer, {Seg(s, s.una, s.txFlags, 0, 0)})
  /\ UNCHANGED <<call, asked, done, got, peer, toUs>>

\* tcp_close() returns: closed, or the retries or the time are used up
CloseReturn ==
  /\ call.op = "close"
  /\ call' = Idle
  /\ s' = [s EXCEPT !.state = "CLOSED", !.used = FALSE]
  /\ UNCHANGED <<asked, done, got, peer, toPeer, toUs>>

\* tcp_socket_close(): at once and without a word to the peer
SocketClose ==
  /\ call = Idle /\ s.used
  /\ s' = [s EXCEPT !.state = "CLOSED", !.used = FALSE]
  /\ UNCHANGED <<call, asked, done, got, peer, toPeer, toUs>>
----------------------------------------------------------------------------
(* The peer.  Its stream is bytes 1 .. NIn, then FIN; una counts what was  *)
(* acknowledged of it and edge how far the offered window reaches.         *)

PeerSeg(seq, flags, d, len) ==
  [seq |-> seq, flags |-> flags, d |-> d, len |-> len, ack |-> peer.rcv]

\* SYN from this side, and the answer to it
PeerSyn(m) ==
  /\ m \in toPeer /\ "SYN" \in m.flags
  /\ toPeer' \in Left(toPeer, m)
  /\ peer' = IF peer.state = "LISTEN"
             THEN [peer EXCEPT !.state = "SYN", !.rcv = Add(m.seq, 1), !.edge = m.win]
             ELSE peer
  /\ IF peer.state = "EST"
     THEN toUs' \in Put(toUs, {PeerSeg(IRS, {"RST"}, 0, 0)})
     ELSE \E len \in 0..Min({1, NIn}) :
            toUs' \in Put(toUs, {[PeerSeg(IRS, {"SYN", "ACK"}, 0, len) EXCEPT !.ack = peer'.rcv]})
  /\ UNCHANGED <<s, call, asked, done, got>>

\* Any other segment: acknowledgement, window, data in order up to the FIN, FIN
PeerRecv(m) ==
  LET k == Diff(m.ack, Add(IRS, 1))
      isAck == "ACK" \in m.flags /\ k \in 0..(NIn + 1)
      off == Diff(peer.rcv, m.seq)
      fresh == IF off \in 0..m.len /\ ~ peer.fin THEN m.len - off ELSE 0
  IN /\ m \in toPeer /\ "SYN" \notin m.flags
     /\ peer.state # "LISTEN"
     /\ toPeer' \in Left(toPeer, m)
     /\ \E n \in (IF Partial THEN Min({1, fresh})..fresh ELSE {fresh}) :
          LET fin == "FIN" \in m.flags /\ n = fresh /\ off \in 0..m.len /\ ~ peer.fin
          IN peer' = [peer EXCEPT
               !.state = "EST",
               !.una = IF isAck THEN Max({@, k}) ELSE @,
               !.edge = IF isAck THEN Max({@, k + m.win}) ELSE @,
               !.got = @ \o [i \in 1..n |-> m.d + off + i],
               !.rcv = Add(@, n + (IF fin THEN 1 ELSE 0)),
               !.fin = @ \/ fin]
     /\ toUs' \in (IF m.len > 0 \/ "FIN" \in m.flags
                   THEN Put(toUs, {[PeerSeg(Add(IRS, 1 + peer'.una), {"ACK"}, 0, 0) EXCEPT !.ack = peer'.rcv]})
                   ELSE {toUs})
     /\ UNCHANGED <<s, call, asked, done, got>>

\* Data from byte at + 1 on, first sent or sent again, inside the window
PeerSend(at, len, fin) ==
  /\ peer.state = "EST" /\ at >= peer.una
  /\ at + len <= NIn
  /\ at + len <= peer.edge \/ (Probes /\ peer.edge = peer.una /\ at = peer.una /\ len = 1)
  /\ fin => at + len = NIn
  /\ len > 0 \/ fin
  /\ toUs' \in Put(toUs, {PeerSeg(Add(IRS, 1 + at), {"ACK"} \cup (IF fin THEN {"FIN"} ELSE {}), at, len)})
  /\ UNCHANGED <<s, call, asked, done, got, peer, toPeer>>
----------------------------------------------------------------------------
Init ==
  /\ s = [used |-> TRUE, state |-> "CLOSED", iss |-> M, una |-> 0, nxt |-> 0, rcv |-> 0, rx |-> <<>>,
          fin |-> FALSE, txLen |-> 0, txAt |-> 0, txFlags |-> {}, finQueued |-> FALSE,
          armed |-> FALSE, retries |-> 0]
  /\ call = Idle
  /\ asked = 0 /\ done = 0 /\ got = <<>>
  /\ peer = [state |-> "LISTEN", rcv |-> 0, got |-> <<>>, fin |-> FALSE, una |-> 0, edge |-> 0]
  /\ toPeer = {} /\ toUs = {}

Next ==
  \/ \E m \in toUs : Receive(m)
  \/ Arm
  \/ Connect \/ ConnectExpire \/ ConnectAgain \/ ConnectReturn
  \/ \E len \in 1..NOut : SendStart(len)
  \/ SendOn \/ SendLost \/ PollExpire \/ PollAgain
  \/ \E max \in 1..Ring : Recv(max)
  \/ Close \/ CloseRetry \/ CloseReturn \/ SocketClose
  \/ \E m \in toPeer : PeerSyn(m) \/ PeerRecv(m)
  \/ \E at \in 0..NIn, len \in 0..MSS, fin \in BOOLEAN : PeerSend(at, len, fin)

Spec == Init /\ [][Next]_vars
----------------------------------------------------------------------------
(* Properties                                                              *)

TypeOK ==
  /\ s.state \in States /\ s.used \in BOOLEAN
  /\ {s.una, s.nxt, s.rcv} \subseteq 0..(M - 1)
  /\ Len(s.rx) <= Ring /\ s.retries \in 0..Retries
  /\ done <= asked /\ asked <= NOut

Prefix(q) == \A i \in 1..Len(q) : q[i] = i

\* The bytes that tcp_recv() returned and those still in the ring are the
\* beginning of the peer's stream: none lost, doubled or swapped.
RxStream == Prefix(got \o s.rx)

\* The peer receives the bytes given to tcp_send() in that order.
PeerStream == Prefix(peer.got)

\* tcp_send() reports success only for bytes that the peer has received.
SendDelivered == done <= Len(peer.got)

\* After the peer's FIN the next acknowledgement covers it: rcv_nxt never falls
\* back behind it, whatever is sent again.
FinCounted == s.fin => s.rcv = Add(IRS, NIn + 2)

\* After the peer's FIN nothing on the way is news: data that is sent again ends before
\* rcv_nxt, and a FIN that is sent again ends at it.
FinLast ==
  s.fin => \A m \in toUs : /\ m.len > 0 => Diff(Add(m.seq, m.len), s.rcv) < 0
                          /\ "FIN" \in m.flags => Add(m.seq, m.len + 1) = s.rcv

\* What this side has received is right: the stream, in the order of the peer, and its end
\* (tcp_receive, tcp_rx_push, tcp_recv).
StreamReceived == TypeOK /\ RxStream /\ FinLast

\* What this side has sent is right: the peer has the bytes given to tcp_send() in that
\* order, and at least those that tcp_send() reported as sent (tcp_send, tcp_receive).
StreamSent == PeerStream /\ SendDelivered

\* The end of the stream that tcp_recv() reports is the end of what the peer sent.
EofComplete == s.fin /\ s.rx = <<>> => Len(got) = NIn
============================================================================
