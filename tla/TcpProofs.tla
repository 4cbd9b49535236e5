----------------------------- MODULE TcpProofs -----------------------------
(***************************************************************************)
(* Theorems about Tcp, for every window, segment size, stream length and   *)
(* number of retries and for sequence numbers that wrap anywhere.          *)
(*                                                                         *)
(* The receiving half rests on RxInv: rcv_nxt is the number after the last *)
(* byte in order, or after the FIN; every acknowledgement under way grants *)
(* no more than the ring can hold beyond what was read; so everything the  *)
(* peer sends fits when it is the next in order, and tcp_rx_push(), which  *)
(* drops what does not fit while rcv_nxt moves on, drops nothing.          *)
(***************************************************************************)
EXTENDS Tcp, TLAPS

SeqNo == 0..(M - 1)

Bytes == Seq(Int)

OutSegs == [seq : SeqNo, flags : SUBSET {"SYN", "ACK", "FIN"}, d : Nat, len : Nat,
            ack : SeqNo, win : Nat]
InSegs == [seq : SeqNo, flags : SUBSET {"SYN", "ACK", "FIN", "RST"}, d : Nat, len : Nat,
           ack : SeqNo]

Socket == [used : BOOLEAN, state : States, iss : 0..M, una : SeqNo, nxt : SeqNo,
           rcv : SeqNo, rx : Bytes, fin : BOOLEAN, txLen : Nat, txAt : Nat,
           txFlags : {{}, {"ACK"}, {"ACK", "FIN"}}, finQueued : BOOLEAN, armed : BOOLEAN,
           retries : 0..Retries]

Peer == [state : {"LISTEN", "SYN", "EST"}, rcv : SeqNo, got : Bytes, fin : BOOLEAN,
         una : Nat, edge : Nat]

Calls == {"none", "arm connect", "connect", "again connect", "arm send", "send",
          "again send", "arm close", "close"}

SendCalls == {"arm send", "send", "again send"}

Typed ==
  /\ s \in Socket /\ Len(s.rx) <= Ring
  /\ call \in [op : Calls, left : Nat]
  /\ call.op \in {"again connect", "again send"} => s.retries < Retries
  /\ call.op \in {"arm connect", "connect", "again connect"} => s.iss # M
  /\ asked \in Nat /\ done \in Nat /\ got \in Bytes
  /\ done <= asked /\ asked <= NOut
  /\ call.op \in SendCalls => asked + call.left <= NOut
  /\ peer \in Peer
  /\ toPeer \subseteq OutSegs /\ toUs \subseteq InSegs

----------------------------------------------------------------------------
(* Arithmetic of sequence numbers.                                         *)

\* Reduction modulo M of a number below 2 M.
LEMMA Wrap ==
  ASSUME NEW x \in Nat, x < 2 * M
  PROVE  (x < M => x % M = x) /\ (x >= M => x % M = x - M)
<1>1. M \in Nat /\ M > 0 BY TcpAssumption
<1>2. CASE x < M
  <2>1. x = M * 0 + x BY <1>1
  <2> QED BY <1>1, <1>2
<1>3. CASE ~ (x < M)
  <2>1. x - M \in 0..(M - 1) BY <1>1, <1>3
  <2> QED BY <1>1, <1>3, <2>1
<1> QED BY <1>2, <1>3

\* An addition wraps once or not at all.
LEMMA AddIs ==
  ASSUME NEW a \in 0..(M - 1), NEW n \in 0..(M - 1)
  PROVE  /\ (a + n < M => Add(a, n) = a + n) /\ (a + n >= M => Add(a, n) = a + n - M)
         /\ Add(a, n) \in 0..(M - 1)
<1>1. M \in Nat /\ M > 0 BY TcpAssumption
<1>2. a + n \in Nat /\ a + n < 2 * M BY <1>1
<1> DEFINE x == a + n
<1>3. x \in Nat /\ x < 2 * M BY <1>2
<1>4. Add(a, n) = x % M BY DEF Add
<1> HIDE DEF x
<1>5. (x < M => x % M = x) /\ (x >= M => x % M = x - M) BY <1>3, Wrap
<1>6. (x < M => Add(a, n) = x) /\ (x >= M => Add(a, n) = x - M) BY <1>4, <1>5
<1> QED BY <1>1, <1>2, <1>6 DEF x

\* Two additions in a row are one.
LEMMA AddAdd ==
  ASSUME NEW a \in 0..(M - 1), NEW i \in Nat, NEW j \in Nat, i + j < M
  PROVE  Add(Add(a, i), j) = Add(a, i + j)
<1>1. M \in Nat /\ i \in 0..(M - 1) /\ j \in 0..(M - 1) /\ i + j \in 0..(M - 1) BY TcpAssumption
<1>2. Add(a, i) \in 0..(M - 1) /\ (a + i < M => Add(a, i) = a + i) /\ (a + i >= M => Add(a, i) = a + i - M)
  BY <1>1, AddIs
<1> DEFINE w == Add(a, i)
<1> HIDE DEF w
<1>w. w \in 0..(M - 1) BY <1>2 DEF w
<1>3. (w + j < M => Add(w, j) = w + j) /\ (w + j >= M => Add(w, j) = w + j - M)
  BY <1>1, <1>w, AddIs
<1>4. (a + (i + j) < M => Add(a, i + j) = a + (i + j)) /\ (a + (i + j) >= M => Add(a, i + j) = a + (i + j) - M)
  BY <1>1, AddIs
<1> QED BY <1>1, <1>2, <1>3, <1>4 DEF w

\* Distances below M are told apart.
LEMMA AddInj ==
  ASSUME NEW a \in 0..(M - 1), NEW i \in 0..(M - 1), NEW j \in 0..(M - 1)
  PROVE  Add(a, i) = Add(a, j) => i = j
<1>1. M \in Nat BY TcpAssumption
<1>2. (a + i < M => Add(a, i) = a + i) /\ (a + i >= M => Add(a, i) = a + i - M) BY <1>1, AddIs
<1>3. (a + j < M => Add(a, j) = a + j) /\ (a + j >= M => Add(a, j) = a + j - M) BY <1>1, AddIs
<1> QED BY <1>1, <1>2, <1>3

\* The difference modulo M of two numbers below M.
LEMMA DiffMod ==
  ASSUME NEW a \in 0..(M - 1), NEW b \in 0..(M - 1)
  PROVE  (a >= b => (a - b) % M = a - b) /\ (a < b => (a - b) % M = a - b + M)
<1>1. M \in Nat /\ M > 0 BY TcpAssumption
<1>2. CASE a >= b
  <2>1. a - b \in 0..(M - 1) BY <1>1, <1>2
  <2> QED BY <1>1, <1>2, <2>1
<1>3. CASE ~ (a >= b)
  <2>1. a - b + M \in 0..(M - 1) BY <1>1, <1>3
  <2>2. a - b = M * (-1) + (a - b + M) BY <1>1
  <2> QED BY <1>1, <1>3, <2>1, <2>2
<1> QED BY <1>2, <1>3

\* The signed comparison of sequence numbers is exact within half of their range.
LEMMA DiffIs ==
  ASSUME NEW a \in 0..(M - 1), NEW i \in Nat, NEW j \in Nat, 2 * i < M - 2, 2 * j < M - 2
  PROVE  Diff(Add(a, 1 + i), Add(a, 1 + j)) = i - j
<1>1. M \in Nat /\ 1 + i \in 0..(M - 1) /\ 1 + j \in 0..(M - 1) BY TcpAssumption
<1> DEFINE x == Add(a, 1 + i)  y == Add(a, 1 + j)  e == (x - y) % M
<1>2. x \in 0..(M - 1) /\ (a + (1 + i) < M => x = a + (1 + i)) /\ (a + (1 + i) >= M => x = a + (1 + i) - M)
  BY <1>1, AddIs
<1>3. y \in 0..(M - 1) /\ (a + (1 + j) < M => y = a + (1 + j)) /\ (a + (1 + j) >= M => y = a + (1 + j) - M)
  BY <1>1, AddIs
<1>4. (x >= y => e = x - y) /\ (x < y => e = x - y + M) BY <1>2, <1>3, DiffMod
<1>e. Diff(x, y) = IF 2 * e < M THEN e ELSE e - M BY Zenon DEF Diff
<1> HIDE DEF x, y, e
<1>f. e \in Int BY <1>1, <1>2, <1>3, <1>4
<1>5. (2 * e < M => Diff(x, y) = e) /\ (2 * e >= M => Diff(x, y) = e - M) BY <1>1, <1>e, <1>f
<1>6. Diff(x, y) = i - j BY <1>1, <1>2, <1>3, <1>4, <1>5
<1> QED BY <1>6 DEF x, y

----------------------------------------------------------------------------
(* The helpers.                                                            *)

\* The smaller of two numbers.
LEMMA MinIs ==
  ASSUME NEW a \in Int, NEW b \in Int
  PROVE  Min({a, b}) \in {a, b} /\ Min({a, b}) <= a /\ Min({a, b}) <= b
<1>1. \E x \in {a, b} : \A y \in {a, b} : x =< y
  <2>1. CASE a <= b BY <2>1
  <2>2. CASE b <= a BY <2>2
  <2> QED BY <2>1, <2>2
<1> QED BY <1>1 DEF Min

\* The larger of two numbers.
LEMMA MaxIs ==
  ASSUME NEW a \in Int, NEW b \in Int
  PROVE  Max({a, b}) \in {a, b} /\ Max({a, b}) >= a /\ Max({a, b}) >= b
<1>1. \E x \in {a, b} : \A y \in {a, b} : x >= y
  <2>1. CASE a >= b BY <2>1
  <2>2. CASE b >= a BY <2>2
  <2> QED BY <2>1, <2>2
<1> QED BY <1>1 DEF Max

\* What is sent adds to the network only what was sent.
LEMMA PutSub ==
  ASSUME NEW net, NEW R, NEW n \in Put(net, R)
  PROVE  n \subseteq net \cup R
BY DEF Put

\* Delivery adds nothing to the network.
LEMMA LeftSub ==
  ASSUME NEW net, NEW m, NEW n \in Left(net, m)
  PROVE  n \subseteq net
BY DEF Left

\* A sequence and a run of numbers after it.
LEMMA RunOn ==
  ASSUME NEW q \in Seq(Int), NEW n \in Nat, NEW d \in Int
  PROVE  /\ q \o [i \in 1..n |-> d + i] \in Seq(Int)
         /\ Len(q \o [i \in 1..n |-> d + i]) = Len(q) + n
<1>1. [i \in 1..n |-> d + i] \in Seq(Int) /\ Len([i \in 1..n |-> d + i]) = n OBVIOUS
<1> QED BY <1>1

\* The elements of a concatenation.
LEMMA CatIs ==
  ASSUME NEW p \in Seq(Int), NEW q \in Seq(Int)
  PROVE  /\ p \o q \in Seq(Int) /\ Len(p \o q) = Len(p) + Len(q)
         /\ \A i \in 1..(Len(p) + Len(q)) :
              (p \o q)[i] = IF i <= Len(p) THEN p[i] ELSE q[i - Len(p)]
OBVIOUS

\* A prefix of the stream and its next bytes.
LEMMA PrefixGrows ==
  ASSUME NEW q \in Seq(Int), NEW n \in Nat, Prefix(q)
  PROVE  Prefix(q \o [i \in 1..n |-> Len(q) + i])
<1> DEFINE f == [i \in 1..n |-> Len(q) + i]  r == q \o f
<1>1. f \in Seq(Int) /\ Len(f) = n OBVIOUS
<1>2. \A i \in 1..n : f[i] = Len(q) + i OBVIOUS
<1> HIDE DEF f
<1>3. Len(r) = Len(q) + n BY <1>1
<1>4. ASSUME NEW i \in 1..Len(r) PROVE r[i] = i
  <2>1. CASE i <= Len(q) BY <2>1, <1>1 DEF Prefix
  <2>2. CASE i > Len(q) BY <2>2, <1>1, <1>2, <1>3
  <2> QED BY <2>1, <2>2
<1> QED BY <1>4 DEF Prefix, f

\* The same where the end of the prefix lies in the ring.
LEMMA PrefixTail ==
  ASSUME NEW p \in Seq(Int), NEW q \in Seq(Int), NEW n \in Nat, NEW d \in Nat,
         d = Len(p) + Len(q)
  PROVE  Prefix(p \o q) => Prefix(p \o (q \o [i \in 1..n |-> d + i]))
<1>0. SUFFICES ASSUME Prefix(p \o q) PROVE Prefix(p \o (q \o [i \in 1..n |-> d + i])) OBVIOUS
<1> DEFINE f == [i \in 1..n |-> d + i]
<1>1. f \in Seq(Int) /\ Len(f) = n OBVIOUS
<1>2. \A i \in 1..n : f[i] = d + i OBVIOUS
<1> HIDE DEF f
<1> DEFINE r == p \o (q \o f)
<1>3. q \o f \in Seq(Int) /\ Len(q \o f) = Len(q) + n BY <1>1, CatIs, Zenon
<1>4. Len(r) = Len(p) + Len(q \o f) BY <1>3, CatIs, Zenon
<1>6. Len(r) = d + n BY <1>3, <1>4
<1>7. ASSUME NEW i \in 1..Len(r) PROVE r[i] = i
  <2>1. CASE i <= Len(p)
    <3>1. r[i] = p[i] /\ (p \o q)[i] = p[i] BY <2>1, <1>3
    <3>2. i \in 1..Len(p \o q) BY <2>1
    <3> QED BY <1>0, <3>1, <3>2 DEF Prefix
  <2>2. CASE i > Len(p) /\ i <= d
    <3>1. r[i] = (q \o f)[i - Len(p)] BY <2>2, <1>3, <1>6
    <3>2. (q \o f)[i - Len(p)] = q[i - Len(p)] BY <2>2, <1>1
    <3>3. (p \o q)[i] = q[i - Len(p)] BY <2>2
    <3>4. i \in 1..Len(p \o q) BY <2>2
    <3> QED BY <1>0, <3>1, <3>2, <3>3, <3>4, SMTT(30) DEF Prefix
  <2>3. CASE i > d
    <3>1. r[i] = (q \o f)[i - Len(p)] BY <2>3, <1>3, <1>6, SMTT(60)
    <3>2. (q \o f)[i - Len(p)] = f[i - d] BY <2>3, <1>1, <1>6, SMTT(30)
    <3> QED BY <3>1, <3>2, <1>2, <2>3, <1>6
  <2> QED BY <2>1, <2>2, <2>3
<1> QED BY <1>7 DEF Prefix, f

\* Bytes move from the ring to the reader.
LEMMA PrefixMoves ==
  ASSUME NEW p \in Seq(Int), NEW q \in Seq(Int), NEW n \in 0..Len(q)
  PROVE  /\ p \o SubSeq(q, 1, n) \in Seq(Int) /\ SubSeq(q, n + 1, Len(q)) \in Seq(Int)
         /\ Len(p \o SubSeq(q, 1, n)) = Len(p) + n
         /\ Len(SubSeq(q, n + 1, Len(q))) = Len(q) - n
         /\ Prefix(p \o q) => Prefix((p \o SubSeq(q, 1, n)) \o SubSeq(q, n + 1, Len(q)))
<1> DEFINE x == SubSeq(q, 1, n)  y == SubSeq(q, n + 1, Len(q))  r == (p \o x) \o y
<1>1. x \in Seq(Int) /\ Len(x) = n /\ \A i \in 1..n : x[i] = q[i] OBVIOUS
<1>2. y \in Seq(Int) /\ Len(y) = Len(q) - n /\ \A i \in 1..(Len(q) - n) : y[i] = q[n + i]
  OBVIOUS
<1> HIDE DEF x, y
<1>3. p \o x \in Seq(Int) /\ Len(p \o x) = Len(p) + n BY <1>1, CatIs, Zenon
<1>8. Len(r) = Len(p \o x) + Len(y) BY <1>2, <1>3, CatIs, Zenon
<1> HIDE DEF r
<1>4. Len(r) = Len(p) + Len(q) BY <1>2, <1>3, <1>8
<1>5. ASSUME NEW i \in 1..Len(r) PROVE r[i] = (p \o q)[i]
  <2>1. CASE i <= Len(p) BY <2>1, <1>1, <1>2, <1>3 DEF r
  <2>2. CASE i > Len(p) /\ i <= Len(p) + n
    <3>1. r[i] = (p \o x)[i] BY <2>2, <1>2, <1>3, SMTT(30) DEF r
    <3>2. (p \o x)[i] = x[i - Len(p)] BY <2>2, <1>1
    <3>3. (p \o q)[i] = q[i - Len(p)] BY <2>2
    <3> QED BY <3>1, <3>2, <3>3, <1>1, <2>2, SMTT(30)
  <2>3. CASE i > Len(p) + n
    <3>1. r[i] = y[i - (Len(p) + n)] BY <2>3, <1>2, <1>3, <1>4, SMTT(60) DEF r
    <3>2. i \in 1..(Len(p) + Len(q)) /\ ~ (i <= Len(p)) BY <2>3, <1>4
    <3>3. (p \o q)[i] = q[i - Len(p)] BY <3>2, CatIs
    <3> DEFINE j == i - (Len(p) + n)
    <3>4. j \in 1..(Len(q) - n) /\ i - Len(p) = n + j BY <2>3, <1>4
    <3>5. r[i] = y[j] BY <3>1
    <3> HIDE DEF j
    <3>6. y[j] = q[n + j] BY <3>4, <1>2, Zenon
    <3>7. q[i - Len(p)] = q[n + j] BY <3>4
    <3> QED BY <3>3, <3>5, <3>6, <3>7
  <2> QED BY <2>1, <2>2, <2>3, <1>4
<1>6. Len(p \o q) = Len(p) + Len(q) BY CatIs, Zenon
<1>7. Prefix(p \o q) => Prefix(r) BY <1>4, <1>5, <1>6, Zenon DEF Prefix
<1> QED BY <1>1, <1>2, <1>3, <1>7 DEF x, y, r

----------------------------------------------------------------------------
(* What the parts of tcp_receive() do to a socket.                         *)

\* Equal but for the receiving side, the state and the timers
SameTx(u, t) ==
  /\ u.una = t.una /\ u.nxt = t.nxt /\ u.iss = t.iss /\ u.used = t.used
  /\ u.txLen = t.txLen /\ u.txAt = t.txAt /\ u.txFlags = t.txFlags

Acks(t, m) == "ACK" \in m.flags /\ Diff(m.ack, t.una) > 0 /\ Diff(t.nxt, m.ack) >= 0

\* tcp_rx_push(): the ring grows by what fits.
LEMMA PushedIs ==
  ASSUME NEW t \in Socket, Len(t.rx) <= Ring, NEW d \in Nat, NEW len \in Nat
  PROVE  /\ Pushed(t, d, len) \in Socket /\ SameTx(Pushed(t, d, len), t)
         /\ Pushed(t, d, len).rcv = t.rcv /\ Pushed(t, d, len).fin = t.fin
         /\ Pushed(t, d, len).state = t.state /\ Pushed(t, d, len).retries = t.retries
         /\ \E n \in 0..len :
              /\ Pushed(t, d, len).rx = t.rx \o [i \in 1..n |-> d + i]
              /\ Len(Pushed(t, d, len).rx) = Len(t.rx) + n /\ Len(t.rx) + n <= Ring
              /\ len <= Ring - Len(t.rx) => n = len
<1> DEFINE n == Min({len, Ring - Len(t.rx)})  q == t.rx \o [i \in 1..n |-> d + i]
<1>0. Ring \in Nat BY TcpAssumption
<1>1. t.rx \in Bytes /\ t.rx \in Seq(Int) /\ Len(t.rx) \in Nat BY DEF Socket, Bytes
<1> DEFINE room == Ring - Len(t.rx)
<1>a. room \in Nat /\ room = Ring - Len(t.rx) BY <1>0, <1>1
<1>b. n = Min({len, room}) OBVIOUS
<1> HIDE DEF n, room
<1>c. n \in {len, room} /\ n <= len /\ n <= room
  <2>1. len \in Int /\ room \in Int BY <1>a
  <2> QED BY <1>b, <2>1, MinIs, Zenon
<1>2. n \in 0..len /\ Len(t.rx) + n <= Ring /\ (len <= Ring - Len(t.rx) => n = len)
  BY <1>0, <1>1, <1>a, <1>c
<1>3. q \in Bytes /\ Len(q) = Len(t.rx) + n BY <1>1, <1>2, RunOn DEF Bytes
<1>4. Pushed(t, d, len) = [t EXCEPT !.rx = q] BY DEF Pushed, n
<1> HIDE DEF q
<1>5. /\ Pushed(t, d, len) \in Socket /\ Pushed(t, d, len).rx = q
      /\ SameTx(Pushed(t, d, len), t)
      /\ Pushed(t, d, len).rcv = t.rcv /\ Pushed(t, d, len).fin = t.fin
      /\ Pushed(t, d, len).state = t.state /\ Pushed(t, d, len).retries = t.retries
  <2>1. [t EXCEPT !.rx = q] \in Socket BY <1>3, SMTT(30) DEF Socket
  <2>2. [t EXCEPT !.rx = q].rx = q BY DEF Socket
  <2>3. SameTx([t EXCEPT !.rx = q], t) BY DEF Socket, SameTx
  <2>4. [t EXCEPT !.rx = q].rcv = t.rcv BY DEF Socket
  <2> QED BY <1>4, <2>1, <2>2, <2>3, <2>4, SMTT(30) DEF Socket
<1>6. /\ Pushed(t, d, len).rx = t.rx \o [i \in 1..n |-> d + i]
      /\ Len(Pushed(t, d, len).rx) = Len(t.rx) + n
  BY <1>3, <1>5, Zenon DEF q
<1> QED BY <1>2, <1>5, <1>6, Zenon

\* The acknowledgement.
LEMMA AckedIs ==
  ASSUME NEW t \in Socket, NEW m \in InSegs
  PROVE  /\ Acked(t, m) \in Socket
         /\ Acked(t, m).rx = t.rx /\ Acked(t, m).rcv = t.rcv /\ Acked(t, m).fin = t.fin
         /\ Acked(t, m).state = t.state /\ Acked(t, m).retries <= t.retries
         /\ Acked(t, m).nxt = t.nxt /\ Acked(t, m).iss = t.iss /\ Acked(t, m).used = t.used
         /\ Acked(t, m).txAt = t.txAt /\ Acked(t, m).txFlags = t.txFlags
         /\ Acks(t, m) => Acked(t, m).una = m.ack /\ Acked(t, m).txLen = 0
         /\ ~ Acks(t, m) => Acked(t, m) = t
<1>0. Retries \in Nat BY TcpAssumption
<1>1. CASE Acks(t, m)
  <2>1. Acked(t, m) = [t EXCEPT !.una = m.ack, !.txLen = 0, !.armed = FALSE,
                                !.finQueued = FALSE, !.retries = 0]
    BY <1>1 DEF Acked, Acks
  <2>2. m.ack \in SeqNo /\ 0 \in Nat /\ 0 \in 0..Retries BY <1>0 DEF InSegs
  <2>3. Acked(t, m) \in Socket BY <2>1, <2>2, ZenonT(40) DEF Socket
  <2>4. /\ Acked(t, m).rx = t.rx /\ Acked(t, m).rcv = t.rcv /\ Acked(t, m).fin = t.fin
        /\ Acked(t, m).state = t.state /\ Acked(t, m).retries = 0
        /\ Acked(t, m).nxt = t.nxt /\ Acked(t, m).iss = t.iss /\ Acked(t, m).used = t.used
        /\ Acked(t, m).txAt = t.txAt /\ Acked(t, m).txFlags = t.txFlags
        /\ Acked(t, m).una = m.ack /\ Acked(t, m).txLen = 0
    BY <2>1 DEF Socket
  <2>5. t.retries \in 0..Retries BY DEF Socket
  <2> QED BY <1>0, <1>1, <2>3, <2>4, <2>5
<1>2. CASE ~ Acks(t, m)
  <2>1. Acked(t, m) = t BY <1>2 DEF Acked, Acks
  <2> QED BY <1>0, <1>2, <2>1 DEF Socket
<1> QED BY <1>1, <1>2

\* Data in order.
LEMMA TakenIs ==
  ASSUME NEW t \in Socket, Len(t.rx) <= Ring, NEW m \in InSegs
  PROVE  /\ Taken(t, m) \in Socket /\ SameTx(Taken(t, m), t)
         /\ Taken(t, m).fin = t.fin
         /\ Taken(t, m).state = t.state /\ Taken(t, m).retries = t.retries
         /\ m.len > 0 /\ m.seq = t.rcv =>
              /\ Taken(t, m).rx = Pushed(t, m.d, m.len).rx
              /\ Taken(t, m).rcv = Add(t.rcv, m.len)
         /\ ~ (m.len > 0 /\ m.seq = t.rcv) => Taken(t, m) = t
<1>0. M \in Nat /\ M > 0 BY TcpAssumption
<1>1. CASE m.len > 0 /\ m.seq = t.rcv
  <2> DEFINE u == Pushed(t, m.d, m.len)
  <2>0. m.d \in Nat /\ m.len \in Nat BY DEF InSegs
  <2>1. /\ u \in Socket /\ SameTx(u, t) /\ u.rcv = t.rcv /\ u.fin = t.fin
        /\ u.state = t.state /\ u.retries = t.retries
    BY <2>0, PushedIs, ZenonT(40)
  <2>2. Taken(t, m) = [u EXCEPT !.rcv = Add(u.rcv, m.len)] BY <1>1 DEF Taken
  <2> HIDE DEF u
  <2>3. t.rcv \in Nat BY <1>0 DEF Socket, SeqNo
  <2>4. Add(t.rcv, m.len) \in SeqNo BY <1>0, <2>0, <2>3 DEF Add, SeqNo
  <2>5. /\ Taken(t, m) \in Socket /\ SameTx(Taken(t, m), t)
        /\ Taken(t, m).fin = t.fin
        /\ Taken(t, m).state = t.state /\ Taken(t, m).retries = t.retries
        /\ Taken(t, m).rx = u.rx
        /\ Taken(t, m).rcv = Add(t.rcv, m.len)
    BY <2>1, <2>2, <2>4 DEF Socket, SameTx
  <2> QED BY <1>1, <2>5 DEF u
<1>2. CASE ~ (m.len > 0 /\ m.seq = t.rcv)
  <2>1. Taken(t, m) = t BY <1>2 DEF Taken
  <2> QED BY <1>2, <2>1 DEF SameTx
<1> QED BY <1>1, <1>2

\* The FIN.
LEMMA FinnedIs ==
  ASSUME NEW t \in Socket, NEW m \in InSegs
  PROVE  /\ Finned(t, m) \in Socket /\ SameTx(Finned(t, m), t)
         /\ Finned(t, m).rx = t.rx /\ Finned(t, m).retries = t.retries
         /\ "FIN" \in m.flags =>
              /\ Finned(t, m).rcv \in {t.rcv, Add(m.seq, m.len + 1)} /\ Finned(t, m).fin
              /\ Finned(t, m).rcv >= Add(m.seq, m.len + 1) /\ Finned(t, m).rcv >= t.rcv
              /\ Finned(t, m).state # "ESTABLISHED"
              /\ t.state \notin {"CLOSED", "SYN_SENT"} =>
                   Finned(t, m).state \notin {"CLOSED", "SYN_SENT"}
         /\ "FIN" \notin m.flags => Finned(t, m) = t
<1>0. M \in Nat /\ M > 0 BY TcpAssumption
<1>1. CASE "FIN" \in m.flags
  <2> DEFINE r == Max({t.rcv, Add(m.seq, m.len + 1)})
             w == CASE t.state = "ESTABLISHED" -> "CLOSE_WAIT"
                    [] t.state = "FIN_WAIT1" -> "CLOSING"
                    [] t.state = "FIN_WAIT2" -> "TIME_WAIT"
                    [] OTHER -> t.state
  <2>0. m.seq \in Nat /\ m.len \in Nat /\ t.rcv \in SeqNo /\ t.rcv \in Int
    BY <1>0 DEF InSegs, Socket, SeqNo
  <2>1. Add(m.seq, m.len + 1) \in SeqNo /\ Add(m.seq, m.len + 1) \in Int
    BY <1>0, <2>0 DEF Add, SeqNo
  <2>2. /\ r \in {t.rcv, Add(m.seq, m.len + 1)} /\ r \in SeqNo
        /\ r >= t.rcv /\ r >= Add(m.seq, m.len + 1)
    BY <2>0, <2>1, MaxIs, Zenon
  <2>3. t.state \in States BY DEF Socket
  <2>4. /\ w \in States /\ w # "ESTABLISHED"
        /\ t.state \notin {"CLOSED", "SYN_SENT"} => w \notin {"CLOSED", "SYN_SENT"}
    BY <2>3 DEF States
  <2>5. Finned(t, m) = [t EXCEPT !.rcv = r, !.fin = TRUE, !.state = w]
    BY <1>1 DEF Finned
  <2> HIDE DEF r, w
  <2>6. /\ Finned(t, m) \in Socket /\ SameTx(Finned(t, m), t)
        /\ Finned(t, m).rx = t.rx /\ Finned(t, m).retries = t.retries
        /\ Finned(t, m).rcv = r /\ Finned(t, m).fin = TRUE /\ Finned(t, m).state = w
    BY <2>2, <2>4, <2>5, ZenonT(40) DEF Socket, SameTx
  <2> QED BY <1>1, <2>2, <2>4, <2>6
<1>2. CASE "FIN" \notin m.flags
  <2>1. Finned(t, m) = t BY <1>2 DEF Finned
  <2> QED BY <1>2, <2>1 DEF SameTx
<1> QED BY <1>1, <1>2

\* The states after the FIN's acknowledgement.
LEMMA AdvancedIs ==
  ASSUME NEW t \in Socket
  PROVE  /\ Advanced(t) \in Socket /\ SameTx(Advanced(t), t)
         /\ Advanced(t).rx = t.rx /\ Advanced(t).retries = t.retries
         /\ Advanced(t).rcv = t.rcv /\ Advanced(t).fin = t.fin
         /\ Advanced(t).state = t.state
              \/ Advanced(t).state \in {"FIN_WAIT2", "TIME_WAIT"}
<1>1. CASE t.state = "FIN_WAIT1" /\ t.txLen = 0 /\ ~ t.finQueued
  <2> DEFINE u == [t EXCEPT !.state = "FIN_WAIT2"]
  <2>1. u.state = "FIN_WAIT2" BY DEF Socket
  <2>2. Advanced(t) = u BY <1>1, <2>1 DEF Advanced
  <2> QED BY <2>2 DEF Socket, States, SameTx
<1>2. CASE t.state = "CLOSING" /\ t.txLen = 0
  <2>1. Advanced(t) = [t EXCEPT !.state = "TIME_WAIT"] BY <1>2 DEF Advanced
  <2> QED BY <2>1 DEF Socket, States, SameTx
<1>3. CASE ~ (t.state = "FIN_WAIT1" /\ t.txLen = 0 /\ ~ t.finQueued)
           /\ ~ (t.state = "CLOSING" /\ t.txLen = 0)
  <2>1. Advanced(t) = t BY <1>3 DEF Advanced
  <2> QED BY <2>1 DEF SameTx
<1> QED BY <1>1, <1>2, <1>3

----------------------------------------------------------------------------
(* Types.                                                                  *)

\* The segments this side makes.
LEMMA SegTyped ==
  ASSUME NEW t \in Socket, Len(t.rx) <= Ring, NEW seq \in SeqNo,
         NEW flags \in SUBSET {"SYN", "ACK", "FIN"}, NEW d \in Nat, NEW len \in Nat
  PROVE  /\ Seg(t, seq, flags, d, len) \in OutSegs
         /\ AckSeg(t) \in OutSegs
<1>1. t.rx \in Seq(Int) /\ t.rcv \in SeqNo /\ t.nxt \in SeqNo BY DEF Socket, Bytes
<1>2. Ring - Len(t.rx) \in Nat BY <1>1, TcpAssumption
<1> QED BY <1>1, <1>2 DEF Seg, AckSeg, OutSegs

\* tcp_receive() of the SYN and ACK: the handshake is complete.
LEMMA EstIs ==
  ASSUME Typed, NEW m \in InSegs,
         NEW t, t = [Pushed([s EXCEPT !.una = m.ack, !.state = "ESTABLISHED", !.armed = FALSE,
                                      !.retries = 0], m.d, m.len)
                     EXCEPT !.rcv = Add(m.seq, 1 + m.len)]
  PROVE  /\ t \in Socket /\ t.rcv = Add(m.seq, 1 + m.len) /\ t.fin = s.fin
         /\ t.state = "ESTABLISHED" /\ t.retries = 0
         /\ t.una = m.ack /\ t.nxt = s.nxt /\ t.iss = s.iss /\ t.used = s.used
         /\ t.txLen = s.txLen /\ t.txAt = s.txAt /\ t.txFlags = s.txFlags
         /\ \E n \in 0..m.len :
              /\ t.rx = s.rx \o [i \in 1..n |-> m.d + i]
              /\ Len(t.rx) = Len(s.rx) + n /\ Len(s.rx) + n <= Ring
              /\ m.len <= Ring - Len(s.rx) => n = m.len
<1> DEFINE u == [s EXCEPT !.una = m.ack, !.state = "ESTABLISHED", !.armed = FALSE,
                          !.retries = 0]
           v == Pushed(u, m.d, m.len)
<1>0. M \in Nat /\ M > 0 /\ Retries \in Nat /\ Ring \in Nat BY TcpAssumption
<1>1. s \in Socket /\ Len(s.rx) <= Ring BY Zenon DEF Typed
<1>2. /\ m.ack \in SeqNo /\ m.d \in Nat /\ m.len \in Nat /\ m.seq \in Nat
      /\ 0 \in 0..Retries /\ "ESTABLISHED" \in States
  BY <1>0 DEF InSegs, SeqNo, States
<1>3. u \in Socket BY <1>1, <1>2, Zenon DEF Socket
<1>4. /\ u.rx = s.rx /\ u.fin = s.fin /\ u.state = "ESTABLISHED" /\ u.retries = 0
      /\ u.una = m.ack /\ u.nxt = s.nxt /\ u.iss = s.iss /\ u.used = s.used
      /\ u.txLen = s.txLen /\ u.txAt = s.txAt /\ u.txFlags = s.txFlags
  BY <1>1 DEF Socket
<1> HIDE DEF u
<1>5. /\ v \in Socket /\ SameTx(v, u) /\ v.fin = u.fin
      /\ v.state = u.state /\ v.retries = u.retries
      /\ \E n \in 0..m.len :
           /\ v.rx = u.rx \o [i \in 1..n |-> m.d + i]
           /\ Len(v.rx) = Len(u.rx) + n /\ Len(u.rx) + n <= Ring
           /\ m.len <= Ring - Len(u.rx) => n = m.len
  <2>1. Len(u.rx) <= Ring BY <1>1, <1>4
  <2> QED BY <1>2, <1>3, <2>1, PushedIs, ZenonT(40)
<1>6. Add(m.seq, 1 + m.len) \in SeqNo BY <1>0, <1>2 DEF Add, SeqNo
<1>7. t = [v EXCEPT !.rcv = Add(m.seq, 1 + m.len)] BY Zenon DEF u
<1> HIDE DEF v
<1>8. /\ t \in Socket /\ t.rcv = Add(m.seq, 1 + m.len) /\ t.rx = v.rx
      /\ SameTx(t, v) /\ t.fin = v.fin /\ t.state = v.state /\ t.retries = v.retries
  BY <1>5, <1>6, <1>7, ZenonT(40) DEF Socket, SameTx
<1>9. \E n \in 0..m.len :
        /\ t.rx = s.rx \o [i \in 1..n |-> m.d + i]
        /\ Len(t.rx) = Len(s.rx) + n /\ Len(s.rx) + n <= Ring
        /\ m.len <= Ring - Len(s.rx) => n = m.len
  BY <1>4, <1>5, <1>8, Zenon
<1> QED BY <1>4, <1>5, <1>8, <1>9, Zenon DEF SameTx

\* The socket after the acknowledgement and the data of a segment, after its FIN too,
\* and at the end
Took(m) == Taken(Acked(s, m), m)
WithFin(m) == Finned(Took(m), m)

\* tcp_receive(): nothing happens, TIME_WAIT answers, the socket closes, the handshake
\* completes, or the connection goes on.
LEMMA ReceiveIs ==
  ASSUME NEW m \in toUs, Receive(m)
  PROVE  /\ toUs' \subseteq toUs /\ UNCHANGED <<call, asked, done, got, peer>>
         /\ \/ s' = s /\ toPeer' \subseteq toPeer
            \/ s.state = "TIME_WAIT" /\ s' = s /\ toPeer' \subseteq toPeer \cup {AckSeg(s)}
            \/ s' = [s EXCEPT !.state = "CLOSED"] /\ toPeer' \subseteq toPeer
            \/ /\ s.state = "SYN_SENT" /\ {"SYN", "ACK"} \subseteq m.flags
               /\ m.ack = Add(s.iss, 1)
               /\ s' = [Pushed([s EXCEPT !.una = m.ack, !.state = "ESTABLISHED",
                                         !.armed = FALSE, !.retries = 0], m.d, m.len)
                        EXCEPT !.rcv = Add(m.seq, 1 + m.len)]
               /\ toPeer' \subseteq toPeer \cup {AckSeg(s')}
            \/ /\ s.state \in {"ESTABLISHED", "FIN_WAIT1", "FIN_WAIT2", "CLOSING"}
               /\ s' = Advanced(WithFin(m))
               /\ toPeer' \subseteq toPeer \cup {AckSeg(Took(m)), AckSeg(WithFin(m))}
<1>1. toUs' \subseteq toUs /\ UNCHANGED <<call, asked, done, got, peer>>
  BY LeftSub DEF Receive
<1>2. CASE ~ (s.used /\ s.state # "CLOSED") BY <1>1, <1>2 DEF Receive
<1>3. CASE s.used /\ s.state # "CLOSED"
  <2>0. s' = Processed(m)[1] /\ toPeer' \subseteq toPeer \cup Processed(m)[2]
    BY <1>3, PutSub DEF Receive
  <2>1. CASE "RST" \in m.flags
    <3>1. Processed(m) = <<[s EXCEPT !.state = "CLOSED"], {}>> BY <2>1 DEF Processed
    <3>2. s' = [s EXCEPT !.state = "CLOSED"] /\ toPeer' \subseteq toPeer BY <2>0, <3>1
    <3> QED BY <1>1, <3>2
  <2>2. CASE /\ "RST" \notin m.flags /\ s.state = "SYN_SENT"
             /\ {"SYN", "ACK"} \subseteq m.flags /\ m.ack = Add(s.iss, 1)
    BY <1>1, <2>0, <2>2 DEF Processed
  <2>3. CASE /\ "RST" \notin m.flags
             /\ s.state \in {"ESTABLISHED", "FIN_WAIT1", "FIN_WAIT2", "CLOSING"}
    <3> DEFINE acks == (IF m.len > 0 THEN {AckSeg(Took(m))} ELSE {})
                         \cup (IF "FIN" \in m.flags THEN {AckSeg(WithFin(m))} ELSE {})
    <3>1. Processed(m) = <<Advanced(WithFin(m)), acks>>
      BY <2>3 DEF Processed, Took, WithFin
    <3>2. acks \subseteq {AckSeg(Took(m)), AckSeg(WithFin(m))} OBVIOUS
    <3>3. s' = Advanced(WithFin(m)) /\ toPeer' \subseteq toPeer \cup acks BY <2>0, <3>1
    <3> HIDE DEF acks
    <3>4. toPeer' \subseteq toPeer \cup {AckSeg(Took(m)), AckSeg(WithFin(m))} BY <3>2, <3>3
    <3> QED BY <1>1, <2>3, <3>3, <3>4
  <2>4. CASE /\ "RST" \notin m.flags
             /\ s.state = "LAST_ACK"
    BY <1>1, <2>0, <2>4 DEF Processed
  <2>5. CASE /\ "RST" \notin m.flags
             /\ s.state = "TIME_WAIT"
    BY <1>1, <2>0, <2>5 DEF Processed
  <2>6. CASE /\ "RST" \notin m.flags
             /\ s.state \notin {"ESTABLISHED", "FIN_WAIT1", "FIN_WAIT2", "CLOSING",
                                "LAST_ACK", "TIME_WAIT"}
             /\ ~ (/\ s.state = "SYN_SENT"
                   /\ {"SYN", "ACK"} \subseteq m.flags /\ m.ack = Add(s.iss, 1))
    BY <1>1, <2>0, <2>6 DEF Processed
  <2> QED BY <2>1, <2>2, <2>3, <2>4, <2>5, <2>6
<1> QED BY <1>2, <1>3

\* tcp_receive() of a connection, part by part.
LEMMA TookIs ==
  ASSUME Typed, NEW m \in InSegs
  PROVE  /\ Took(m) \in Socket /\ WithFin(m) \in Socket /\ Advanced(WithFin(m)) \in Socket
         /\ Len(Took(m).rx) <= Ring
         /\ Took(m).rx = s.rx \/ (m.len > 0 /\ m.seq = s.rcv)
         /\ WithFin(m).rx = Took(m).rx /\ Advanced(WithFin(m)).rx = Took(m).rx
         /\ Took(m).fin = s.fin /\ Advanced(WithFin(m)).retries <= s.retries
         /\ Advanced(WithFin(m)).rcv = WithFin(m).rcv
         /\ Advanced(WithFin(m)).fin = WithFin(m).fin
         /\ ~ (m.len > 0 /\ m.seq = s.rcv) => Took(m).rcv = s.rcv
         /\ m.len > 0 /\ m.seq = s.rcv =>
              /\ Took(m).rcv = Add(s.rcv, m.len)
              /\ \E n \in 0..m.len :
                   /\ Took(m).rx = s.rx \o [i \in 1..n |-> m.d + i]
                   /\ Len(Took(m).rx) = Len(s.rx) + n
                   /\ m.len <= Ring - Len(s.rx) => n = m.len
         /\ Advanced(WithFin(m)).iss = s.iss /\ Advanced(WithFin(m)).nxt = s.nxt
         /\ Advanced(WithFin(m)).txAt = s.txAt /\ Advanced(WithFin(m)).txFlags = s.txFlags
         /\ IF Acks(s, m)
            THEN Advanced(WithFin(m)).una = m.ack /\ Advanced(WithFin(m)).txLen = 0
            ELSE Advanced(WithFin(m)).una = s.una /\ Advanced(WithFin(m)).txLen = s.txLen
         /\ "FIN" \in m.flags =>
              /\ WithFin(m).rcv \in {Took(m).rcv, Add(m.seq, m.len + 1)} /\ WithFin(m).fin
              /\ WithFin(m).rcv >= Add(m.seq, m.len + 1) /\ WithFin(m).rcv >= Took(m).rcv
         /\ "FIN" \notin m.flags => WithFin(m).rcv = Took(m).rcv /\ WithFin(m).fin = s.fin
         /\ s.state # "ESTABLISHED" => Advanced(WithFin(m)).state # "ESTABLISHED"
         /\ s.state \notin {"CLOSED", "SYN_SENT"} =>
              Advanced(WithFin(m)).state \notin {"CLOSED", "SYN_SENT"}
<1> DEFINE b == Acked(s, m)  t == Took(m)  f == WithFin(m)  g == Advanced(f)
<1>1. s \in Socket /\ Len(s.rx) <= Ring /\ m.d \in Nat /\ m.len \in Nat
  BY Zenon DEF Typed, InSegs
<1>2. /\ b \in Socket
      /\ b.rx = s.rx /\ b.rcv = s.rcv /\ b.fin = s.fin
      /\ b.state = s.state /\ b.retries <= s.retries
      /\ b.nxt = s.nxt /\ b.iss = s.iss /\ b.used = s.used
      /\ b.txAt = s.txAt /\ b.txFlags = s.txFlags
      /\ Acks(s, m) => b.una = m.ack /\ b.txLen = 0
      /\ ~ Acks(s, m) => b = s
  BY <1>1, AckedIs, ZenonT(30)
<1>3. Len(b.rx) <= Ring BY <1>1, <1>2
<1> HIDE DEF b
<1>4. t = Taken(b, m) BY DEF Took, b
<1>5. /\ t \in Socket /\ SameTx(t, b) /\ t.fin = b.fin
      /\ t.state = b.state /\ t.retries = b.retries
      /\ m.len > 0 /\ m.seq = b.rcv =>
           t.rx = Pushed(b, m.d, m.len).rx /\ t.rcv = Add(b.rcv, m.len)
      /\ ~ (m.len > 0 /\ m.seq = b.rcv) => t = b
  <2> DEFINE x == Taken(b, m)
  <2>1. /\ x \in Socket /\ SameTx(x, b) /\ x.fin = b.fin
        /\ x.state = b.state /\ x.retries = b.retries
        /\ m.len > 0 /\ m.seq = b.rcv =>
             x.rx = Pushed(b, m.d, m.len).rx /\ x.rcv = Add(b.rcv, m.len)
        /\ ~ (m.len > 0 /\ m.seq = b.rcv) => x = b
    BY <1>2, <1>3, TakenIs
  <2> QED BY <1>4, <2>1
<1>6. \E n \in 0..m.len :
         /\ Pushed(b, m.d, m.len).rx = b.rx \o [i \in 1..n |-> m.d + i]
         /\ Len(Pushed(b, m.d, m.len).rx) = Len(b.rx) + n /\ Len(b.rx) + n <= Ring
         /\ m.len <= Ring - Len(b.rx) => n = m.len
  BY <1>1, <1>2, <1>3, PushedIs, ZenonT(30)
<1>7. f = Finned(t, m) BY DEF WithFin
<1> HIDE DEF t, f
<1>8. /\ f \in Socket /\ SameTx(f, t) /\ f.rx = t.rx /\ f.retries = t.retries
      /\ "FIN" \in m.flags =>
           /\ f.rcv \in {t.rcv, Add(m.seq, m.len + 1)} /\ f.fin
           /\ f.rcv >= Add(m.seq, m.len + 1) /\ f.rcv >= t.rcv
           /\ f.state # "ESTABLISHED"
           /\ t.state \notin {"CLOSED", "SYN_SENT"} => f.state \notin {"CLOSED", "SYN_SENT"}
      /\ "FIN" \notin m.flags => f = t
  BY <1>5, <1>7, FinnedIs, ZenonT(30)
<1>9. /\ g \in Socket /\ SameTx(g, f) /\ g.rx = f.rx /\ g.retries = f.retries
      /\ g.rcv = f.rcv /\ g.fin = f.fin
      /\ g.state = f.state \/ g.state \in {"FIN_WAIT2", "TIME_WAIT"}
  BY <1>8, AdvancedIs, ZenonT(30)
<1> HIDE DEF g
<1>10. m.len > 0 /\ m.seq = s.rcv =>
         /\ t.rcv = Add(s.rcv, m.len)
         /\ \E n \in 0..m.len :
              /\ t.rx = s.rx \o [i \in 1..n |-> m.d + i]
              /\ Len(t.rx) = Len(s.rx) + n
              /\ m.len <= Ring - Len(s.rx) => n = m.len
  BY <1>2, <1>5, <1>6, ZenonT(30)
<1>11. Len(t.rx) <= Ring
  <2>1. CASE m.len > 0 /\ m.seq = b.rcv BY <2>1, <1>5, <1>6, Zenon
  <2>2. CASE ~ (m.len > 0 /\ m.seq = b.rcv) BY <2>2, <1>3, <1>5, Zenon
  <2> QED BY <2>1, <2>2
<1>12. t.rx = s.rx \/ (m.len > 0 /\ m.seq = s.rcv) BY <1>2, <1>5
<1>13. ~ (m.len > 0 /\ m.seq = s.rcv) => t.rcv = s.rcv BY <1>2, <1>5
<1>14. /\ g.iss = s.iss /\ g.nxt = s.nxt /\ g.txAt = s.txAt /\ g.txFlags = s.txFlags
       /\ IF Acks(s, m) THEN g.una = m.ack /\ g.txLen = 0
                        ELSE g.una = s.una /\ g.txLen = s.txLen
  BY <1>2, <1>5, <1>8, <1>9 DEF SameTx
<1>15. /\ s.state # "ESTABLISHED" => g.state # "ESTABLISHED"
       /\ s.state \notin {"CLOSED", "SYN_SENT"} => g.state \notin {"CLOSED", "SYN_SENT"}
  <2>1. t.state = s.state BY <1>2, <1>5
  <2>2. /\ s.state # "ESTABLISHED" => f.state # "ESTABLISHED"
        /\ s.state \notin {"CLOSED", "SYN_SENT"} => f.state \notin {"CLOSED", "SYN_SENT"}
    BY <1>8, <2>1
  <2> QED BY <1>9, <2>2
<1>16. t.fin = s.fin /\ g.retries <= s.retries
  <2>1. g.retries = b.retries BY <1>5, <1>8, <1>9
  <2> QED BY <1>2, <1>5, <2>1
<1>17. g = Advanced(WithFin(m)) /\ f = WithFin(m) /\ t = Took(m) BY DEF g, f, t
<1> QED BY <1>5, <1>8, <1>9, <1>10, <1>11, <1>12, <1>13, <1>14, <1>15, <1>16, <1>17, ZenonT(40)

\* The initial state.
LEMMA InitTyped == Init => Typed
<1> SUFFICES ASSUME Init PROVE Typed OBVIOUS
<1>1. M \in Nat /\ M > 0 /\ Retries \in Nat /\ Ring \in Nat /\ NOut \in Nat BY TcpAssumption
<1>2. <<>> \in Bytes /\ Len(<<>>) = 0 BY DEF Bytes
<1>3. 0 \in SeqNo /\ M \in 0..M /\ 0 \in 0..Retries /\ "CLOSED" \in States
  BY <1>1 DEF SeqNo, States
<1>4. s \in Socket BY <1>2, <1>3 DEF Init, Socket
<1>5. s.rx = <<>> BY DEF Init
<1>6. peer \in Peer BY <1>2, <1>3 DEF Init, Peer
<1> QED BY <1>1, <1>2, <1>4, <1>5, <1>6 DEF Init, Typed, Idle, Calls, SendCalls

\* A step that only adds a segment of this side
LEMMA Sent ==
  ASSUME Typed, NEW R, R \subseteq OutSegs, toPeer' \in Put(toPeer, R)
  PROVE  toPeer' \subseteq OutSegs /\ toPeer' \subseteq toPeer \cup R
BY PutSub, Zenon DEF Typed

\* tcp_receive() keeps the types.
LEMMA ReceiveTyped ==
  ASSUME Typed, NEW m \in toUs, Receive(m)
  PROVE  Typed'
<1>1. m \in InSegs BY Zenon DEF Typed
<1>2. /\ toUs' \subseteq toUs /\ UNCHANGED <<call, asked, done, got, peer>> BY ReceiveIs, Zenon
<1>3. s \in Socket /\ Len(s.rx) <= Ring /\ toPeer \subseteq OutSegs BY Zenon DEF Typed
<1>r. Retries \in Nat /\ M \in Nat /\ s.retries \in 0..Retries BY <1>3, TcpAssumption DEF Socket
<1> SUFFICES /\ s' \in Socket /\ Len(s'.rx) <= Ring /\ s'.iss = s.iss
             /\ s'.retries <= s.retries /\ toPeer' \subseteq OutSegs
  <2>1. s'.retries \in Nat BY <1>r DEF Socket
  <2>2. call'.op \in {"again connect", "again send"} => s'.retries < Retries
    <3>1. call.op \in {"again connect", "again send"} => s.retries < Retries
      BY Zenon DEF Typed
    <3>2. s.retries < Retries => s'.retries < Retries BY <1>r, <2>1
    <3> QED BY <1>2, <3>1, <3>2, Zenon
  <2>3. /\ call' \in [op : Calls, left : Nat]
        /\ asked' \in Nat /\ done' \in Nat /\ got' \in Bytes
        /\ done' <= asked' /\ asked' <= NOut
        /\ call'.op \in SendCalls => asked' + call'.left <= NOut
        /\ peer' \in Peer
    BY <1>2, Zenon DEF Typed
  <2>4. call'.op \in {"arm connect", "connect", "again connect"} => s'.iss # M
    BY <1>2, Zenon DEF Typed
  <2>5. toUs' \subseteq InSegs BY <1>2, Zenon DEF Typed
  <2> QED BY <2>2, <2>3, <2>4, <2>5, Zenon DEF Typed
<1>4. CASE s' = s /\ toPeer' \subseteq toPeer BY <1>3, <1>4, <1>r
<1>5. CASE s' = s /\ toPeer' \subseteq toPeer \cup {AckSeg(s)}
  <2>1. AckSeg(s) \in OutSegs
    <3>1. 0 \in SeqNo /\ {} \in SUBSET {"SYN", "ACK", "FIN"} BY TcpAssumption DEF SeqNo
    <3> QED BY <1>3, <3>1, SegTyped, Zenon
  <2> QED BY <1>3, <1>5, <1>r, <2>1
<1>6. CASE s' = [s EXCEPT !.state = "CLOSED"] /\ toPeer' \subseteq toPeer
  BY <1>3, <1>6, <1>r DEF Socket, States
<1>7. CASE /\ s' = [Pushed([s EXCEPT !.una = m.ack, !.state = "ESTABLISHED", !.armed = FALSE,
                                     !.retries = 0], m.d, m.len)
                    EXCEPT !.rcv = Add(m.seq, 1 + m.len)]
           /\ toPeer' \subseteq toPeer \cup {AckSeg(s')}
  <2>1. /\ s' \in Socket /\ s'.iss = s.iss /\ s'.retries = 0
        /\ \E n \in 0..m.len : Len(s'.rx) = Len(s.rx) + n /\ Len(s.rx) + n <= Ring
    BY <1>1, <1>7, EstIs, ZenonT(40)
  <2>2. Len(s'.rx) <= Ring BY <2>1, Zenon
  <2>3. AckSeg(s') \in OutSegs
    <3>1. 0 \in SeqNo /\ {} \in SUBSET {"SYN", "ACK", "FIN"} BY TcpAssumption DEF SeqNo
    <3> QED BY <2>1, <2>2, <3>1, SegTyped, Zenon
  <2> QED BY <1>3, <1>7, <1>r, <2>1, <2>2, <2>3
<1>8. CASE /\ s' = Advanced(WithFin(m))
           /\ toPeer' \subseteq toPeer \cup {AckSeg(Took(m)), AckSeg(WithFin(m))}
  <2> DEFINE t == Took(m)  f == WithFin(m)
  <2>1. /\ t \in Socket /\ f \in Socket /\ s' \in Socket
        /\ Len(t.rx) <= Ring /\ f.rx = t.rx /\ s'.rx = t.rx
        /\ s'.retries <= s.retries /\ s'.iss = s.iss
    BY <1>1, <1>8, TookIs, ZenonT(30)
  <2>2. AckSeg(t) \in OutSegs /\ AckSeg(f) \in OutSegs
    <3>1. 0 \in SeqNo /\ {} \in SUBSET {"SYN", "ACK", "FIN"} BY TcpAssumption DEF SeqNo
    <3>2. Len(f.rx) <= Ring BY <2>1
    <3> HIDE DEF t, f
    <3> QED BY <2>1, <3>1, <3>2, SegTyped, Zenon
  <2> QED BY <1>3, <1>8, <2>1, <2>2
<1> QED BY <1>4, <1>5, <1>6, <1>7, <1>8, ReceiveIs, Zenon

----------------------------------------------------------------------------
(* The steps that leave both streams alone: they change the state to       *)
(* CLOSED or not at all, the timers and the call, and may send again.      *)

Resent(m) ==
  \/ call.op = "again connect" /\ m = Seg(s, s.iss, {"SYN"}, 0, 0)
  \/ call.op = "again send" /\ m = Seg(s, s.una, s.txFlags, s.txAt, s.txLen)
  \/ call.op = "close" /\ m = Seg(s, s.una, s.txFlags, 0, 0)
  \/ s.state = "TIME_WAIT" /\ m = AckSeg(s)

Kept(t) ==
  /\ t.una = s.una /\ t.nxt = s.nxt /\ t.iss = s.iss
  /\ t.txLen = s.txLen /\ t.txAt = s.txAt /\ t.txFlags = s.txFlags
  /\ t.rx = s.rx /\ t.rcv = s.rcv /\ t.fin = s.fin
  /\ t.state \in {s.state, "CLOSED"}

Quiet ==
  /\ Kept(s')
  /\ call'.op \in SendCalls => call.op \in SendCalls
  /\ UNCHANGED <<asked, got, peer>> /\ toUs' \subseteq toUs
  /\ done' = done \/ (call.op = "send" /\ s.txLen = 0 /\ done' = asked)
  /\ \A m \in toPeer' : m \in toPeer \/ Resent(m)

\* What is sent again is a segment.
LEMMA ResentTyped ==
  ASSUME Typed, NEW m, Resent(m)
  PROVE  m \in OutSegs
<1>1. /\ s \in Socket /\ Len(s.rx) <= Ring /\ s.una \in SeqNo /\ s.nxt \in SeqNo
      /\ s.txFlags \in SUBSET {"SYN", "ACK", "FIN"} /\ s.txAt \in Nat /\ s.txLen \in Nat
  BY Zenon DEF Typed, Socket
<1>2. {"SYN"} \in SUBSET {"SYN", "ACK", "FIN"} /\ 0 \in Nat OBVIOUS
<1>3. call.op = "again connect" => s.iss \in SeqNo
  <2>1. s.iss \in 0..M BY Zenon DEF Typed, Socket
  <2>2. call.op = "again connect" => s.iss # M BY Zenon DEF Typed
  <2>3. M \in Nat BY TcpAssumption
  <2>4. s.iss # M => s.iss \in SeqNo BY <2>1, <2>3 DEF SeqNo
  <2> QED BY <2>2, <2>4, Zenon
<1> QED BY <1>1, <1>2, <1>3, SegTyped, ZenonT(40) DEF Resent

\* Assembles Typed' for a step that leaves asked, got, peer and toUs alone
LEMMA TypedAgain ==
  ASSUME Typed, Quiet
  PROVE  /\ s' \in Socket /\ call' \in [op : Calls, left : Nat]
         /\ call'.op \in {"again connect", "again send"} => s'.retries < Retries
         /\ call'.op \in {"arm connect", "connect", "again connect"} => s.iss # M
         /\ call'.op \in SendCalls => call'.left = call.left
         => Typed'
<1>0. SUFFICES ASSUME s' \in Socket, call' \in [op : Calls, left : Nat],
                      call'.op \in {"again connect", "again send"} => s'.retries < Retries,
                      call'.op \in {"arm connect", "connect", "again connect"} => s.iss # M,
                      call'.op \in SendCalls => call'.left = call.left
               PROVE  Typed'
  BY Zenon
<1>1. Len(s'.rx) <= Ring /\ s'.iss = s.iss BY Zenon DEF Typed, Quiet, Kept
<1>2. asked' \in Nat /\ got' \in Bytes /\ asked' <= NOut /\ peer' \in Peer BY Zenon DEF Typed, Quiet
<1>3. call'.op \in SendCalls => asked' + call'.left <= NOut
  BY <1>0, Zenon DEF Typed, Quiet
<1>4. done' \in Nat /\ done' <= asked'
  <2>1. asked \in Nat /\ done \in Nat /\ done <= asked /\ asked' = asked BY Zenon DEF Typed, Quiet
  <2>2. done' = done \/ done' = asked BY DEF Quiet
  <2>3. asked <= asked BY <2>1
  <2> QED BY <2>1, <2>2, <2>3, Zenon
<1>5. toPeer' \subseteq OutSegs BY ResentTyped, Zenon DEF Typed, Quiet
<1>6. toUs' \subseteq InSegs BY Zenon DEF Typed, Quiet
<1> QED BY <1>0, <1>1, <1>2, <1>3, <1>4, <1>5, <1>6, Zenon DEF Typed

\* The count of retries stays within its bound.
LEMMA Retry ==
  ASSUME Typed
  PROVE  /\ Retries \in Nat /\ s.retries \in 0..Retries /\ 0 \in 0..Retries
         /\ s.retries < Retries => s.retries + 1 \in 0..Retries
<1>1. Retries \in Nat BY TcpAssumption
<1>2. s.retries \in 0..Retries BY Zenon DEF Typed, Socket
<1> QED BY <1>1, <1>2

\* The timer is armed.
LEMMA ArmIs == Typed /\ Arm => Quiet /\ Typed'
<1> SUFFICES ASSUME Typed, Arm PROVE Quiet /\ Typed' OBVIOUS
<1>1. s \in Socket /\ call \in [op : Calls, left : Nat] BY Zenon DEF Typed
<1>2. s' \in Socket BY <1>1, Zenon DEF Arm, Socket
<1>3. Kept(s') BY <1>1, Zenon DEF Arm, Socket, Kept
<1>4. /\ call' \in [op : Calls, left : Nat] /\ call'.left = call.left
      /\ call.op = "arm connect" => call'.op = "connect"
      /\ call.op = "arm send" => call'.op = "send"
      /\ call.op = "arm close" => call'.op = "close"
  BY <1>1, Zenon DEF Arm, Calls
<1>5. call.op \in {"arm connect", "arm send", "arm close"} BY Zenon DEF Arm
<1>6. Quiet BY <1>3, <1>4, <1>5, Zenon DEF Arm, Quiet, SendCalls
<1>7. call'.op = "connect" => s.iss # M BY <1>4, <1>5, Zenon DEF Typed
<1> QED BY <1>2, <1>4, <1>5, <1>6, <1>7, TypedAgain, Zenon DEF SendCalls

\* tcp_connect(): the SYN's timer.
LEMMA ConnectExpireIs == Typed /\ ConnectExpire => Quiet /\ Typed'
<1> SUFFICES ASSUME Typed, ConnectExpire PROVE Quiet /\ Typed' OBVIOUS
<1>1. s \in Socket /\ call \in [op : Calls, left : Nat] /\ call.op = "connect" /\ s.iss # M
  BY Zenon DEF Typed, ConnectExpire
<1>2. Retries \in Nat /\ s.retries \in 0..Retries BY Retry
<1>3. CASE s.retries >= Retries
  <2>1. s' = [s EXCEPT !.state = "CLOSED"] /\ call' = call BY <1>3, Zenon DEF ConnectExpire
  <2>2. s' \in Socket /\ Kept(s') BY <1>1, <2>1 DEF Socket, Kept, States
  <2>3. Quiet BY <1>1, <2>1, <2>2, Zenon DEF ConnectExpire, Quiet
  <2> QED BY <1>1, <2>1, <2>2, <2>3, TypedAgain, Zenon DEF SendCalls
<1>4. CASE ~ (s.retries >= Retries)
  <2>1. s' = s /\ call' = [call EXCEPT !.op = "again connect"] BY <1>4, Zenon DEF ConnectExpire
  <2>2. call' \in [op : Calls, left : Nat] /\ call'.op = "again connect"
    BY <1>1, <2>1, Zenon DEF Calls
  <2>3. Quiet BY <1>1, <2>1, <2>2, Zenon DEF ConnectExpire, Quiet, Kept, SendCalls
  <2>4. s.retries < Retries BY <1>2, <1>4
  <2>5. s'.retries < Retries BY <2>1, <2>4, Zenon
  <2> QED BY <1>1, <2>1, <2>2, <2>3, <2>5, TypedAgain, Zenon DEF SendCalls
<1> QED BY <1>3, <1>4

\* tcp_connect(): the SYN again.
LEMMA ConnectAgainIs == Typed /\ ConnectAgain => Quiet /\ Typed'
<1> SUFFICES ASSUME Typed, ConnectAgain PROVE Quiet /\ Typed' OBVIOUS
<1>1. /\ s \in Socket /\ call \in [op : Calls, left : Nat] /\ call.op = "again connect"
      /\ s.iss # M /\ s.retries < Retries
  BY Zenon DEF Typed, ConnectAgain
<1>2. s.retries + 1 \in 0..Retries BY <1>1, Retry, Zenon
<1>3. s' \in Socket BY <1>1, <1>2, Zenon DEF ConnectAgain, Socket
<1>4. Kept(s') BY <1>1, Zenon DEF ConnectAgain, Socket, Kept
<1>5. call' \in [op : Calls, left : Nat] /\ call'.op = "connect"
  BY <1>1, Zenon DEF ConnectAgain, Calls
<1>6. toPeer' \subseteq toPeer \cup {Seg(s, s.iss, {"SYN"}, 0, 0)} BY PutSub, Zenon DEF ConnectAgain
<1>7. \A m \in toPeer' : m \in toPeer \/ Resent(m) BY <1>1, <1>6, Zenon DEF Resent
<1>8. Quiet BY <1>4, <1>5, <1>7, Zenon DEF ConnectAgain, Quiet, SendCalls
<1> QED BY <1>1, <1>3, <1>5, <1>8, TypedAgain, Zenon DEF SendCalls

\* tcp_connect() returns.
LEMMA ConnectReturnIs == Typed /\ ConnectReturn => Quiet /\ Typed'
<1> SUFFICES ASSUME Typed, ConnectReturn PROVE Quiet /\ Typed' OBVIOUS
<1>1. s \in Socket /\ 0 \in 0..Retries BY Retry, Zenon DEF Typed
<1>2. s' \in Socket /\ Kept(s')
  <2>1. CASE s' = s BY <1>1, <2>1 DEF Kept
  <2>2. CASE s' = [s EXCEPT !.armed = FALSE, !.retries = 0]
    <3>1. s' \in Socket BY <1>1, <2>2, Zenon DEF Socket
    <3>2. Kept(s') BY <1>1, <2>2 DEF Kept, Socket
    <3> QED BY <3>1, <3>2
  <2> QED BY <2>1, <2>2 DEF ConnectReturn
<1>3. call' \in [op : Calls, left : Nat] /\ call'.op = "none"
  BY DEF ConnectReturn, Idle, Calls
<1>4. Quiet BY <1>2, <1>3 DEF ConnectReturn, Quiet, SendCalls
<1> QED BY <1>2, <1>3, <1>4, TypedAgain DEF SendCalls

\* tcp_send() finds the connection lost.
LEMMA SendLostIs == Typed /\ SendLost => Quiet /\ Typed'
<1> SUFFICES ASSUME Typed, SendLost PROVE Quiet /\ Typed' OBVIOUS
<1>1. s \in Socket /\ s' = s BY DEF Typed, SendLost
<1>2. call' \in [op : Calls, left : Nat] /\ call'.op = "none" BY DEF SendLost, Idle, Calls
<1>3. Quiet BY <1>1, <1>2 DEF SendLost, Quiet, Kept, SendCalls
<1> QED BY <1>1, <1>2, <1>3, TypedAgain DEF SendCalls

\* tcp_poll(): the chunk's timer.
LEMMA PollExpireIs == Typed /\ PollExpire => Quiet /\ Typed'
<1> SUFFICES ASSUME Typed, PollExpire PROVE Quiet /\ Typed' OBVIOUS
<1>1. s \in Socket /\ call \in [op : Calls, left : Nat] /\ call.op = "send"
  BY Zenon DEF Typed, PollExpire
<1>2. Retries \in Nat /\ s.retries \in 0..Retries BY Retry
<1>3. CASE s.retries >= Retries
  <2>1. s' = [s EXCEPT !.state = "CLOSED", !.armed = FALSE] /\ call' = call
    BY <1>3, Zenon DEF PollExpire
  <2>2. "CLOSED" \in States BY DEF States
  <2>3. s' \in Socket BY <1>1, <2>1, <2>2, Zenon DEF Socket
  <2>4. Kept(s') BY <1>1, <2>1 DEF Socket, Kept
  <2>5. Quiet BY <1>1, <2>1, <2>4, Zenon DEF PollExpire, Quiet
  <2> QED BY <1>1, <2>1, <2>3, <2>5, TypedAgain, Zenon
<1>4. CASE ~ (s.retries >= Retries)
  <2>1. s' = s /\ call' = [call EXCEPT !.op = "again send"] BY <1>4, Zenon DEF PollExpire
  <2>2. call' \in [op : Calls, left : Nat] /\ call'.op = "again send" /\ call'.left = call.left
    BY <1>1, <2>1, Zenon DEF Calls
  <2>3. Quiet BY <1>1, <2>1, <2>2, Zenon DEF PollExpire, Quiet, Kept, SendCalls
  <2>4. s.retries < Retries BY <1>2, <1>4
  <2>5. s'.retries < Retries BY <2>1, <2>4, Zenon
  <2> QED BY <1>1, <2>1, <2>2, <2>3, <2>5, TypedAgain, Zenon
<1> QED BY <1>3, <1>4

\* tcp_poll(): the chunk again.
LEMMA PollAgainIs == Typed /\ PollAgain => Quiet /\ Typed'
<1> SUFFICES ASSUME Typed, PollAgain PROVE Quiet /\ Typed' OBVIOUS
<1>1. /\ s \in Socket /\ call \in [op : Calls, left : Nat] /\ call.op = "again send"
      /\ s.retries < Retries
  BY Zenon DEF Typed, PollAgain
<1>2. s.retries + 1 \in 0..Retries BY <1>1, Retry, Zenon
<1>3. s' \in Socket BY <1>1, <1>2, Zenon DEF PollAgain, Socket
<1>4. Kept(s') BY <1>1, Zenon DEF PollAgain, Socket, Kept
<1>5. call' \in [op : Calls, left : Nat] /\ call'.op = "send" /\ call'.left = call.left
  BY <1>1, Zenon DEF PollAgain, Calls
<1>6. toPeer' \subseteq toPeer \cup {Seg(s, s.una, s.txFlags, s.txAt, s.txLen)}
  BY PutSub, Zenon DEF PollAgain
<1>7. \A m \in toPeer' : m \in toPeer \/ Resent(m) BY <1>1, <1>6, Zenon DEF Resent
<1>8. Quiet BY <1>1, <1>4, <1>5, <1>7, Zenon DEF PollAgain, Quiet, SendCalls
<1> QED BY <1>1, <1>3, <1>5, <1>8, TypedAgain, Zenon

\* tcp_close(): the FIN again.
LEMMA CloseRetryIs == Typed /\ CloseRetry => Quiet /\ Typed'
<1> SUFFICES ASSUME Typed, CloseRetry PROVE Quiet /\ Typed' OBVIOUS
<1>1. /\ s \in Socket /\ call \in [op : Calls, left : Nat] /\ call.op = "close"
      /\ s.retries < Retries /\ call' = call
  BY DEF Typed, CloseRetry
<1>2. s.retries + 1 \in 0..Retries BY <1>1, Retry
<1>3. s' \in Socket BY <1>1, <1>2, Zenon DEF CloseRetry, Socket
<1>4. Kept(s') BY <1>1 DEF CloseRetry, Socket, Kept
<1>6. toPeer' \subseteq toPeer \cup {Seg(s, s.una, s.txFlags, 0, 0)} BY PutSub DEF CloseRetry
<1>7. \A m \in toPeer' : m \in toPeer \/ Resent(m) BY <1>1, <1>6 DEF Resent
<1>8. Quiet BY <1>1, <1>4, <1>7 DEF CloseRetry, Quiet
<1> QED BY <1>1, <1>3, <1>8, TypedAgain, Zenon DEF SendCalls

\* The socket is given back.
LEMMA EndsIs ==
  ASSUME Typed, s' = [s EXCEPT !.state = "CLOSED", !.used = FALSE],
         (call' = call /\ call = Idle) \/ call' = Idle,
         UNCHANGED <<asked, done, got, peer, toPeer, toUs>>
  PROVE  Quiet /\ Typed'
<1>1. s \in Socket /\ "CLOSED" \in States BY Zenon DEF Typed, States
<1>2. s' \in Socket BY <1>1, Zenon DEF Socket
<1>3. Kept(s') BY <1>1 DEF Kept, Socket
<1>4. call' \in [op : Calls, left : Nat] /\ call'.op = "none"
  <2>1. call' = Idle OBVIOUS
  <2> QED BY <2>1 DEF Idle, Calls
<1>5. Quiet BY <1>3, <1>4 DEF Quiet, SendCalls
<1> QED BY <1>2, <1>4, <1>5, TypedAgain DEF SendCalls

\* tcp_close() returns.
LEMMA CloseReturnIs == Typed /\ CloseReturn => Quiet /\ Typed'
BY EndsIs DEF CloseReturn

\* tcp_socket_close().
LEMMA SocketCloseIs == Typed /\ SocketClose => Quiet /\ Typed'
BY EndsIs DEF SocketClose

----------------------------------------------------------------------------
(* The other steps of this side.                                           *)

\* The receiving side is left alone
KeptRx == s'.rx = s.rx /\ s'.rcv = s.rcv /\ s'.fin = s.fin

\* tcp_connect() starts.
LEMMA ConnectIs ==
  ASSUME Typed, Connect
  PROVE  /\ Typed' /\ KeptRx /\ UNCHANGED <<asked, done, got, peer, toUs>>
         /\ s.iss = M /\ s.state = "CLOSED" /\ call.op = "none" /\ call'.op = "arm connect"
         /\ s'.iss = ISS /\ s'.una = ISS /\ s'.nxt = Add(ISS, 1) /\ s'.state = "SYN_SENT"
         /\ s'.txLen = s.txLen /\ s'.txAt = s.txAt /\ s'.txFlags = s.txFlags
         /\ toPeer' \subseteq toPeer \cup {Seg(s', ISS, {"SYN"}, 0, 0)}
<1>0. M \in Nat /\ M > 0 /\ ISS \in SeqNo /\ ISS \in 0..M /\ ISS # M
  BY TcpAssumption DEF SeqNo
<1>1. s \in Socket /\ Len(s.rx) <= Ring BY Zenon DEF Typed
<1>2. Add(ISS, 1) \in SeqNo /\ "SYN_SENT" \in States BY <1>0 DEF Add, SeqNo, States
<1>3. s' = [s EXCEPT !.iss = ISS, !.una = ISS, !.nxt = Add(ISS, 1), !.state = "SYN_SENT"]
  BY Zenon DEF Connect
<1>4. s' \in Socket BY <1>0, <1>1, <1>2, <1>3, Zenon DEF Socket
<1>5. /\ s'.iss = ISS /\ s'.una = ISS /\ s'.nxt = Add(ISS, 1) /\ s'.state = "SYN_SENT"
      /\ s'.txLen = s.txLen /\ s'.txAt = s.txAt /\ s'.txFlags = s.txFlags /\ KeptRx
  BY <1>1, <1>3 DEF Socket, KeptRx
<1>6. /\ s.iss = M /\ s.state = "CLOSED" /\ call.op = "none"
      /\ UNCHANGED <<asked, done, got, peer, toUs>>
  BY Zenon DEF Connect, Idle
<1>7. call' \in [op : Calls, left : Nat] /\ call'.op = "arm connect" BY Zenon DEF Connect, Calls
<1>8. toPeer' \subseteq toPeer \cup {Seg(s', ISS, {"SYN"}, 0, 0)} BY PutSub, ZenonT(40) DEF Connect
<1>9. Seg(s', ISS, {"SYN"}, 0, 0) \in OutSegs
  <2>1. Len(s'.rx) <= Ring BY <1>1, <1>5 DEF KeptRx
  <2>2. {"SYN"} \in SUBSET {"SYN", "ACK", "FIN"} /\ 0 \in Nat OBVIOUS
  <2> QED BY <1>0, <1>4, <2>1, <2>2, SegTyped
<1>10. toPeer' \subseteq OutSegs BY <1>8, <1>9, Zenon DEF Typed
<1>11. Typed'
  <2>1. Len(s'.rx) <= Ring BY <1>1, <1>5 DEF KeptRx
  <2>2. s'.iss # M BY <1>0, <1>5
  <2>3. call'.op \notin SendCalls /\ call'.op \notin {"again connect", "again send"}
    BY <1>7, Zenon DEF SendCalls
  <2> QED BY <1>4, <1>6, <1>7, <1>10, <2>1, <2>2, <2>3, Zenon DEF Typed
<1> QED BY <1>5, <1>6, <1>7, <1>8, <1>11, Zenon

\* tcp_send() sends a chunk.
LEMMA ChunkIs ==
  ASSUME Typed, NEW left \in Nat, left > 0, asked + left <= NOut, Chunk(left),
         UNCHANGED <<got, peer, toUs>>, done' \in Nat, done' <= asked
  PROVE  /\ Typed' /\ KeptRx /\ call'.op = "arm send"
         /\ s'.una = s.una /\ s'.iss = s.iss /\ s'.state = s.state
         /\ s'.txAt = asked /\ s'.txFlags = {"ACK"}
         /\ \E len \in 1..left :
              /\ s'.nxt = Add(s.nxt, len) /\ s'.txLen = len /\ asked' = asked + len
              /\ toPeer' \subseteq toPeer \cup {Seg(s', s.una, {"ACK"}, asked, len)}
<1> DEFINE len == Min({left, MSS})
<1>0. M \in Nat /\ M > 0 /\ MSS \in Nat /\ MSS > 0 /\ NOut \in Nat BY TcpAssumption
<1>a. asked \in Nat BY Zenon DEF Typed
<1>b. 0 \in 0..Retries BY Retry
<1>1. s \in Socket /\ Len(s.rx) <= Ring /\ s.nxt \in SeqNo /\ s.una \in SeqNo
  BY Zenon DEF Typed, Socket
<1>2. len \in 1..left
  <2>1. left \in Int /\ MSS \in Int BY <1>0
  <2>2. len \in {left, MSS} /\ len <= left BY <2>1, MinIs, Zenon
  <2> HIDE DEF len
  <2> QED BY <1>0, <2>2
<1>3. /\ s' = [s EXCEPT !.nxt = Add(s.nxt, len), !.txLen = len, !.txAt = asked,
                        !.txFlags = {"ACK"}, !.finQueued = FALSE, !.retries = 0]
      /\ asked' = asked + len
      /\ toPeer' \in Put(toPeer, {Seg(s', s'.una, s'.txFlags, asked, len)})
      /\ call' = [op |-> "arm send", left |-> left - len]
  BY Zenon DEF Chunk
<1> HIDE DEF len
<1>4. Add(s.nxt, len) \in SeqNo BY <1>0, <1>1, <1>2, SMTT(30) DEF Add, SeqNo
<1>5. len \in Nat /\ {"ACK"} \in {{}, {"ACK"}, {"ACK", "FIN"}} BY <1>2
<1>6. s' \in Socket BY <1>a, <1>b, <1>1, <1>3, <1>4, <1>5, ZenonT(40) DEF Socket
<1>7. /\ s'.una = s.una /\ s'.iss = s.iss /\ s'.state = s.state
      /\ s'.nxt = Add(s.nxt, len) /\ s'.txLen = len /\ s'.txAt = asked /\ s'.txFlags = {"ACK"}
      /\ KeptRx
  BY <1>1, <1>3, Zenon DEF Socket, KeptRx
<1>8. toPeer' \subseteq toPeer \cup {Seg(s', s.una, {"ACK"}, asked, len)}
  <2>1. toPeer' \subseteq toPeer \cup {Seg(s', s'.una, s'.txFlags, asked, len)}
    <3> DEFINE R == {Seg(s', s'.una, s'.txFlags, asked, len)}
    <3>1. toPeer' \in Put(toPeer, R) BY <1>3, Zenon
    <3> HIDE DEF R
    <3>2. toPeer' \subseteq toPeer \cup R BY <3>1, PutSub
    <3> QED BY <3>2 DEF R
  <2> QED BY <1>7, <2>1, Zenon
<1>9. Len(s'.rx) <= Ring BY <1>1, <1>7 DEF KeptRx
<1>10. toPeer' \subseteq OutSegs
  <2>1. {"ACK"} \in SUBSET {"SYN", "ACK", "FIN"} OBVIOUS
  <2>2. Seg(s', s.una, {"ACK"}, asked, len) \in OutSegs
    BY <1>a, <1>1, <1>5, <1>6, <1>9, <2>1, SegTyped
  <2> QED BY <1>8, <2>2, Zenon DEF Typed
<1>11. /\ call' \in [op : Calls, left : Nat] /\ call'.op = "arm send"
       /\ call'.left = left - len
  <2>1. left - len \in Nat BY <1>2
  <2>2. call' = [op |-> "arm send", left |-> left - len] BY <1>3, Zenon
  <2> QED BY <2>1, <2>2, Zenon DEF Calls
<1>12. asked' \in Nat /\ done' <= asked' /\ asked' <= NOut /\ asked' + call'.left <= NOut
  <2>1. asked' = asked + len /\ call'.left = left - len BY <1>3, <1>11, Zenon
  <2> QED BY <1>0, <1>a, <1>2, <2>1
<1>13. got' \in Bytes /\ peer' \in Peer /\ toUs' \subseteq InSegs BY Zenon DEF Typed
<1>14. Typed'
  BY <1>6, <1>9, <1>10, <1>11, <1>12, <1>13, Zenon DEF Typed
<1> QED BY <1>2, <1>3, <1>7, <1>8, <1>11, <1>14, Zenon

\* tcp_recv() drains the ring.
LEMMA RecvIs ==
  ASSUME Typed, NEW max \in 1..Ring, Recv(max)
  PROVE  /\ Typed' /\ Kept([s' EXCEPT !.rx = s.rx])
         /\ UNCHANGED <<call, asked, done, peer, toUs>>
         /\ toPeer' \subseteq toPeer \cup {AckSeg(s')} /\ Len(s.rx) > 0
         /\ \E n \in 0..Len(s.rx) : /\ got' = got \o SubSeq(s.rx, 1, n)
                                    /\ s'.rx = SubSeq(s.rx, n + 1, Len(s.rx))
<1> DEFINE n == Min({max, Len(s.rx)})  q == SubSeq(s.rx, n + 1, Len(s.rx))
<1>0. Ring \in Nat /\ M \in Nat /\ M > 0 BY TcpAssumption
<1>1. s \in Socket /\ Len(s.rx) <= Ring /\ s.rx \in Seq(Int) /\ got \in Seq(Int)
  BY Zenon DEF Typed, Socket, Bytes
<1>2. n \in 0..Len(s.rx)
  <2>1. Len(s.rx) \in Nat /\ max \in Nat BY <1>0, <1>1
  <2>2. max \in Int /\ Len(s.rx) \in Int BY <2>1
  <2>3. n \in {max, Len(s.rx)} /\ n <= Len(s.rx) BY <2>2, MinIs, Zenon
  <2> HIDE DEF n
  <2> QED BY <2>1, <2>3
<1>3. /\ got' = got \o SubSeq(s.rx, 1, n) /\ s' = [s EXCEPT !.rx = q]
      /\ toPeer' \in Put(toPeer, {AckSeg(s')}) /\ s.rx # <<>>
      /\ UNCHANGED <<call, asked, done, peer, toUs>>
  BY DEF Recv
<1>4. Len(s.rx) > 0 BY <1>1, <1>3
<1> HIDE DEF n
<1>5. q \in Seq(Int) /\ Len(q) <= Len(s.rx) /\ SubSeq(s.rx, 1, n) \in Seq(Int) BY <1>1, <1>2, SMTT(30)
<1>6. q \in Bytes /\ got' \in Bytes BY <1>1, <1>3, <1>5, SMTT(30) DEF Bytes
<1>7. s'.rx = q BY <1>1, <1>3, Zenon DEF Socket
<1>8. s' \in Socket BY <1>1, <1>3, <1>6, Zenon DEF Socket
<1> HIDE DEF q
<1>9. Kept([s' EXCEPT !.rx = s.rx]) BY <1>1, <1>3, <1>8 DEF Socket, Kept
<1>10. s'.retries = s.retries /\ s'.iss = s.iss BY <1>1, <1>3 DEF Socket
<1>11. Len(s'.rx) <= Ring BY <1>0, <1>1, <1>5, <1>7
<1>12. toPeer' \subseteq toPeer \cup {AckSeg(s')} BY <1>3, PutSub, Zenon
<1>13. toPeer' \subseteq OutSegs
  <2>1. 0 \in SeqNo /\ {} \in SUBSET {"SYN", "ACK", "FIN"} BY <1>0 DEF SeqNo
  <2>2. AckSeg(s') \in OutSegs BY <1>8, <1>11, <2>1, SegTyped, Zenon
  <2> QED BY <1>12, <2>2, Zenon DEF Typed
<1>14. Typed' BY <1>3, <1>6, <1>8, <1>10, <1>11, <1>13, Zenon DEF Typed
<1> QED BY <1>2, <1>3, <1>4, <1>7, <1>9, <1>12, <1>14, Zenon DEF q

\* tcp_close() sends its FIN, or ends at once.
LEMMA CloseIs ==
  ASSUME Typed, Close
  PROVE  \/ Typed' /\ Quiet
         \/ /\ Typed' /\ KeptRx /\ UNCHANGED <<asked, done, got, peer, toUs>>
            /\ s.state \in {"CLOSE_WAIT", "ESTABLISHED"} /\ s'.iss = s.iss
            /\ s'.state \in {"LAST_ACK", "FIN_WAIT1"} /\ s'.txFlags = {"ACK", "FIN"}
            /\ s'.txAt = s.txAt /\ call'.op = "arm close"
            /\ toPeer' \subseteq toPeer \cup {Seg(s', s.nxt, {"ACK", "FIN"}, 0, 0)}
<1>0. M \in Nat /\ M > 0 /\ 0 \in 0..Retries BY TcpAssumption, Retry
<1>1. s \in Socket /\ Len(s.rx) <= Ring /\ s.nxt \in SeqNo BY Zenon DEF Typed, Socket
<1>2. CASE s.state \notin {"CLOSE_WAIT", "ESTABLISHED"}
  <2>1. /\ s' = [s EXCEPT !.state = "CLOSED", !.used = FALSE] /\ call' = call /\ call = Idle
        /\ UNCHANGED <<asked, done, got, peer, toPeer, toUs>>
    BY <1>2 DEF Close
  <2> QED BY <2>1, EndsIs
<1>3. CASE s.state \in {"CLOSE_WAIT", "ESTABLISHED"}
  <2> DEFINE fin == [s EXCEPT !.nxt = Add(s.nxt, 1), !.txFlags = {"ACK", "FIN"}, !.retries = 0]
  <2>1. /\ Add(s.nxt, 1) \in SeqNo /\ {"ACK", "FIN"} \in {{}, {"ACK"}, {"ACK", "FIN"}}
        /\ "LAST_ACK" \in States /\ "FIN_WAIT1" \in States /\ 1 \in Nat
    BY <1>0, <1>1 DEF Add, SeqNo, States
  <2>2. fin \in Socket BY <1>0, <1>1, <2>1, Zenon DEF Socket
  <2>3. /\ fin.iss = s.iss /\ fin.txAt = s.txAt /\ fin.txFlags = {"ACK", "FIN"}
        /\ fin.rx = s.rx /\ fin.rcv = s.rcv /\ fin.fin = s.fin
    BY <1>1 DEF Socket
  <2>4. /\ s' = [fin EXCEPT !.state = "LAST_ACK"]
           \/ s' = [fin EXCEPT !.state = "FIN_WAIT1", !.txLen = 1, !.finQueued = TRUE]
        /\ toPeer' \in Put(toPeer, {Seg(s', s.nxt, s'.txFlags, 0, 0)})
        /\ call' = [op |-> "arm close", left |-> 0]
        /\ UNCHANGED <<asked, done, got, peer, toUs>>
    BY <1>3, Zenon DEF Close
  <2> HIDE DEF fin
  <2>5. s' \in Socket
    <3>1. CASE s' = [fin EXCEPT !.state = "LAST_ACK"] BY <2>1, <2>2, <3>1, Zenon DEF Socket
    <3>2. CASE s' = [fin EXCEPT !.state = "FIN_WAIT1", !.txLen = 1, !.finQueued = TRUE]
      BY <2>1, <2>2, <3>2, Zenon DEF Socket
    <3> QED BY <2>4, <3>1, <3>2, Zenon
  <2>6. /\ KeptRx /\ s'.iss = s.iss /\ s'.txAt = s.txAt /\ s'.txFlags = {"ACK", "FIN"}
        /\ s'.state \in {"LAST_ACK", "FIN_WAIT1"}
    <3>1. CASE s' = [fin EXCEPT !.state = "LAST_ACK"] BY <2>2, <2>3, <3>1 DEF Socket, KeptRx
    <3>2. CASE s' = [fin EXCEPT !.state = "FIN_WAIT1", !.txLen = 1, !.finQueued = TRUE]
      BY <2>2, <2>3, <3>2 DEF Socket, KeptRx
    <3> QED BY <2>4, <3>1, <3>2, Zenon
  <2>7. toPeer' \subseteq toPeer \cup {Seg(s', s.nxt, {"ACK", "FIN"}, 0, 0)}
    BY <2>4, <2>6, PutSub, ZenonT(40)
  <2>8. Len(s'.rx) <= Ring BY <1>1, <2>6 DEF KeptRx
  <2>9. toPeer' \subseteq OutSegs
    <3>1. {"ACK", "FIN"} \in SUBSET {"SYN", "ACK", "FIN"} /\ 0 \in Nat OBVIOUS
    <3>2. Seg(s', s.nxt, {"ACK", "FIN"}, 0, 0) \in OutSegs
      BY <1>1, <2>5, <2>8, <3>1, SegTyped
    <3> QED BY <2>7, <3>2, Zenon DEF Typed
  <2>10. call' \in [op : Calls, left : Nat] /\ call'.op = "arm close" BY <2>4, Zenon DEF Calls
  <2>11. /\ call'.op \notin SendCalls /\ call'.op \notin {"again connect", "again send"}
         /\ call'.op \notin {"arm connect", "connect", "again connect"}
    BY <2>10, Zenon DEF SendCalls
  <2>12. Typed' BY <2>4, <2>5, <2>8, <2>9, <2>10, <2>11, Zenon DEF Typed
  <2> QED BY <1>3, <2>4, <2>6, <2>7, <2>10, <2>12, Zenon
<1> QED BY <1>2, <1>3, Zenon

----------------------------------------------------------------------------
(* The peer's steps.                                                       *)

InSeg(seq, flags, d, len, ack) ==
  [seq |-> seq, flags |-> flags, d |-> d, len |-> len, ack |-> ack]

\* Differences are integers.
LEMMA DiffInt ==
  ASSUME NEW a \in SeqNo, NEW b \in SeqNo
  PROVE  Diff(a, b) \in Int
<1> DEFINE e == (a - b) % M
<1>1. M \in Nat /\ M > 0 BY TcpAssumption
<1>2. a - b \in Int BY <1>1 DEF SeqNo
<1>3. e \in Int BY <1>1, <1>2
<1>4. Diff(a, b) = IF 2 * e < M THEN e ELSE e - M BY Zenon DEF Diff
<1> HIDE DEF e
<1>5. e - M \in Int BY <1>1, <1>3
<1> QED BY <1>3, <1>4, <1>5, Zenon

\* The segments the peer makes.
LEMMA InSegTyped ==
  ASSUME NEW seq \in SeqNo, NEW flags \in SUBSET {"SYN", "ACK", "FIN", "RST"},
         NEW d \in Nat, NEW len \in Nat, NEW ack \in SeqNo
  PROVE  InSeg(seq, flags, d, len, ack) \in InSegs
BY DEF InSeg, InSegs

\* Sums are sequence numbers.
LEMMA AddTyped == \A a \in SeqNo, n \in Nat : Add(a, n) \in SeqNo
<1>1. M \in Nat /\ M > 0 BY TcpAssumption
<1> QED BY <1>1 DEF Add, SeqNo

\* Assembles Typed' for a step of the peer
LEMMA PeerTyped ==
  ASSUME Typed, UNCHANGED <<s, call, asked, done, got>>
  PROVE  peer' \in Peer /\ toPeer' \subseteq toPeer /\ toUs' \subseteq InSegs => Typed'
<1>1. toPeer' \subseteq toPeer => toPeer' \subseteq OutSegs BY Zenon DEF Typed
<1> QED BY <1>1, Zenon DEF Typed

\* The peer answers a SYN.
LEMMA PeerSynIs ==
  ASSUME Typed, NEW m \in toPeer, PeerSyn(m)
  PROVE  /\ Typed' /\ UNCHANGED <<s, call, asked, done, got>> /\ toPeer' \subseteq toPeer
         /\ "SYN" \in m.flags /\ peer'.got = peer.got /\ peer'.fin = peer.fin
         /\ peer.state = "LISTEN" => /\ peer'.state = "SYN" /\ peer'.rcv = Add(m.seq, 1)
                                     /\ peer'.edge = m.win /\ peer'.una = peer.una
         /\ peer.state # "LISTEN" => peer' = peer
         /\ \E f \in {{"RST"}, {"SYN", "ACK"}}, len \in 0..1 :
              /\ len <= NIn /\ (f = {"RST"} => len = 0)
              /\ toUs' \subseteq toUs \cup {InSeg(IRS, f, 0, len, peer'.rcv)}
<1>0. M \in Nat /\ M > 0 /\ IRS \in SeqNo /\ NIn \in Nat BY TcpAssumption DEF SeqNo
<1>1. /\ m \in OutSegs /\ peer \in Peer /\ toUs \subseteq InSegs
      /\ m.seq \in SeqNo /\ m.win \in Nat
  BY Zenon DEF Typed, OutSegs
<1>2. "SYN" \in m.flags /\ UNCHANGED <<s, call, asked, done, got>> BY DEF PeerSyn
<1>3. toPeer' \subseteq toPeer BY LeftSub DEF PeerSyn
<1>4. Add(m.seq, 1) \in SeqNo BY <1>1, AddTyped
<1>5. /\ peer' \in Peer /\ peer'.got = peer.got /\ peer'.fin = peer.fin
      /\ peer.state = "LISTEN" => /\ peer'.state = "SYN" /\ peer'.rcv = Add(m.seq, 1)
                                  /\ peer'.edge = m.win /\ peer'.una = peer.una
      /\ peer.state # "LISTEN" => peer' = peer
  <2>1. CASE peer.state = "LISTEN"
    <3>1. peer' = [peer EXCEPT !.state = "SYN", !.rcv = Add(m.seq, 1), !.edge = m.win]
      BY <2>1 DEF PeerSyn
    <3> QED BY <1>1, <1>4, <2>1, <3>1, Zenon DEF Peer
  <2>2. CASE peer.state # "LISTEN"
    <3>1. peer' = peer BY <2>2 DEF PeerSyn
    <3> QED BY <1>1, <2>2, <3>1
  <2> QED BY <2>1, <2>2
<1>6. peer'.rcv \in SeqNo BY <1>5 DEF Peer
<1>7. \E f \in {{"RST"}, {"SYN", "ACK"}}, len \in 0..1 :
        /\ len <= NIn /\ (f = {"RST"} => len = 0)
        /\ toUs' \subseteq toUs \cup {InSeg(IRS, f, 0, len, peer'.rcv)}
  <2>1. CASE peer.state = "EST"
    <3>1. peer' = peer BY <1>5, <2>1
    <3>2. toUs' \in Put(toUs, {PeerSeg(IRS, {"RST"}, 0, 0)}) BY <2>1 DEF PeerSyn
    <3>3. PeerSeg(IRS, {"RST"}, 0, 0) = InSeg(IRS, {"RST"}, 0, 0, peer'.rcv)
      BY <3>1 DEF PeerSeg, InSeg
    <3>4. toUs' \subseteq toUs \cup {InSeg(IRS, {"RST"}, 0, 0, peer'.rcv)} BY <3>2, <3>3, PutSub
    <3>5. 0 \in 0..1 /\ 0 <= NIn BY <1>0
    <3> QED BY <3>4, <3>5
  <2>2. CASE peer.state # "EST"
    <3>1. PICK len \in 0..Min({1, NIn}) :
            toUs' \in Put(toUs, {[PeerSeg(IRS, {"SYN", "ACK"}, 0, len) EXCEPT !.ack = peer'.rcv]})
      BY <2>2, Zenon DEF PeerSyn
    <3>2. len \in 0..1 /\ len <= NIn
      <4>1. 1 \in Int /\ NIn \in Int BY <1>0
      <4>2. Min({1, NIn}) \in {1, NIn} /\ Min({1, NIn}) <= 1 /\ Min({1, NIn}) <= NIn
        BY <4>1, MinIs, Zenon
      <4> QED BY <1>0, <4>2
    <3>3. [PeerSeg(IRS, {"SYN", "ACK"}, 0, len) EXCEPT !.ack = peer'.rcv]
            = InSeg(IRS, {"SYN", "ACK"}, 0, len, peer'.rcv)
      BY DEF PeerSeg, InSeg
    <3>4. toUs' \subseteq toUs \cup {InSeg(IRS, {"SYN", "ACK"}, 0, len, peer'.rcv)}
      BY <3>1, <3>3, PutSub
    <3> QED BY <3>2, <3>4
  <2> QED BY <2>1, <2>2
<1>8. toUs' \subseteq InSegs
  <2>1. PICK f \in {{"RST"}, {"SYN", "ACK"}}, len \in 0..1 :
               toUs' \subseteq toUs \cup {InSeg(IRS, f, 0, len, peer'.rcv)}
    BY <1>7
  <2>2. f \in SUBSET {"SYN", "ACK", "FIN", "RST"} /\ 0 \in Nat /\ len \in Nat OBVIOUS
  <2>3. InSeg(IRS, f, 0, len, peer'.rcv) \in InSegs BY <1>0, <1>6, <2>2, InSegTyped
  <2> QED BY <1>1, <2>1, <2>3
<1>9. Typed' BY <1>2, <1>3, <1>5, <1>8, PeerTyped
<1> QED BY <1>2, <1>3, <1>5, <1>7, <1>9

\* The peer sends data or its FIN.
LEMMA PeerSendIs ==
  ASSUME Typed, NEW at \in 0..NIn, NEW len \in 0..MSS, NEW fin \in BOOLEAN,
         PeerSend(at, len, fin)
  PROVE  /\ Typed' /\ UNCHANGED <<s, call, asked, done, got, peer, toPeer>>
         /\ peer.state = "EST" /\ at >= peer.una /\ at + len <= NIn
         /\ ~ Probes => at + len <= peer.edge
         /\ \E f \in {{"ACK"}, {"ACK", "FIN"}} :
              /\ f = {"ACK", "FIN"} => at + len = NIn
              /\ toUs' \subseteq toUs \cup {InSeg(Add(IRS, 1 + at), f, at, len, peer.rcv)}
<1>0. IRS \in SeqNo /\ NIn \in Nat /\ MSS \in Nat /\ M \in Nat BY TcpAssumption DEF SeqNo
<1>1. peer \in Peer /\ toUs \subseteq InSegs /\ peer.rcv \in SeqNo BY Zenon DEF Typed, Peer
<1>2. /\ UNCHANGED <<s, call, asked, done, got, peer, toPeer>>
      /\ peer.state = "EST" /\ at >= peer.una /\ at + len <= NIn
      /\ ~ Probes => at + len <= peer.edge
  BY DEF PeerSend
<1> DEFINE f == {"ACK"} \cup (IF fin THEN {"FIN"} ELSE {})
<1>3. f \in {{"ACK"}, {"ACK", "FIN"}} /\ (f = {"ACK", "FIN"} => fin) OBVIOUS
<1>4. toUs' \in Put(toUs, {PeerSeg(Add(IRS, 1 + at), f, at, len)}) BY DEF PeerSend
<1>5. fin => at + len = NIn BY DEF PeerSend
<1> HIDE DEF f
<1>6. PeerSeg(Add(IRS, 1 + at), f, at, len) = InSeg(Add(IRS, 1 + at), f, at, len, peer.rcv)
  BY DEF PeerSeg, InSeg
<1>7. toUs' \subseteq toUs \cup {InSeg(Add(IRS, 1 + at), f, at, len, peer.rcv)}
  BY <1>4, <1>6, PutSub
<1>8. 1 + at \in Nat /\ at \in Nat /\ len \in Nat BY <1>0
<1>9. Add(IRS, 1 + at) \in SeqNo BY <1>0, <1>8, AddTyped
<1>10. f \in SUBSET {"SYN", "ACK", "FIN", "RST"} BY <1>3
<1>11. InSeg(Add(IRS, 1 + at), f, at, len, peer.rcv) \in InSegs
  BY <1>1, <1>8, <1>9, <1>10, InSegTyped
<1>12. Typed'
  <2>1. toUs' \subseteq InSegs BY <1>1, <1>7, <1>11
  <2> QED BY <1>1, <1>2, <2>1, PeerTyped
<1> QED BY <1>2, <1>3, <1>5, <1>7, <1>12

\* The peer takes a segment: acknowledgement, window, data in order, FIN.
LEMMA PeerRecvIs ==
  ASSUME Typed, NEW m \in toPeer, PeerRecv(m)
  PROVE  /\ Typed' /\ UNCHANGED <<s, call, asked, done, got>> /\ toPeer' \subseteq toPeer
         /\ "SYN" \notin m.flags /\ peer.state # "LISTEN" /\ peer'.state = "EST"
         /\ \/ peer'.una = peer.una /\ peer'.edge = peer.edge
            \/ /\ "ACK" \in m.flags /\ Diff(m.ack, Add(IRS, 1)) \in 0..(NIn + 1)
               /\ peer'.una = Max({peer.una, Diff(m.ack, Add(IRS, 1))})
               /\ peer'.edge = Max({peer.edge, Diff(m.ack, Add(IRS, 1)) + m.win})
         /\ \E n \in 0..m.len :
              /\ peer'.got = peer.got \o [i \in 1..n |-> m.d + Diff(peer.rcv, m.seq) + i]
              /\ Len(peer'.got) = Len(peer.got) + n
              /\ n > 0 => ~ peer.fin /\ Diff(peer.rcv, m.seq) \in 0..m.len
              /\ ~ Partial /\ ~ peer.fin /\ Diff(peer.rcv, m.seq) \in 0..m.len =>
                   n = m.len - Diff(peer.rcv, m.seq)
              /\ \/ peer'.fin = peer.fin /\ peer'.rcv = Add(peer.rcv, n)
                 \/ "FIN" \in m.flags /\ peer'.fin
         /\ toUs' \subseteq toUs \cup
              {InSeg(Add(IRS, 1 + peer'.una), {"ACK"}, 0, 0, peer'.rcv)}
<1>0. M \in Nat /\ M > 0 /\ IRS \in SeqNo /\ NIn \in Nat BY TcpAssumption DEF SeqNo
<1>1. /\ m \in OutSegs /\ peer \in Peer /\ toUs \subseteq InSegs
      /\ m.seq \in SeqNo /\ m.win \in Nat /\ m.ack \in SeqNo /\ m.len \in Nat /\ m.d \in Nat
      /\ peer.rcv \in SeqNo /\ peer.una \in Nat /\ peer.edge \in Nat
      /\ peer.got \in Seq(Int)
  BY Zenon DEF Typed, OutSegs, Peer, Bytes
<1> DEFINE k == Diff(m.ack, Add(IRS, 1))
           isAck == "ACK" \in m.flags /\ k \in 0..(NIn + 1)
           off == Diff(peer.rcv, m.seq)
           fresh == IF off \in 0..m.len /\ ~ peer.fin THEN m.len - off ELSE 0
<1>2. Add(IRS, 1) \in SeqNo BY <1>0, AddTyped
<1>3. k \in Int /\ off \in Int BY <1>1, <1>2, DiffInt, Zenon
<1>4. /\ "SYN" \notin m.flags /\ UNCHANGED <<s, call, asked, done, got>>
      /\ peer.state # "LISTEN"
  BY DEF PeerRecv
<1>5. toPeer' \subseteq toPeer BY LeftSub DEF PeerRecv
<1>6. PICK n \in (IF Partial THEN Min({1, fresh})..fresh ELSE {fresh}) :
        LET fin == "FIN" \in m.flags /\ n = fresh /\ off \in 0..m.len /\ ~ peer.fin
        IN peer' = [peer EXCEPT
             !.state = "EST",
             !.una = IF isAck THEN Max({@, k}) ELSE @,
             !.edge = IF isAck THEN Max({@, k + m.win}) ELSE @,
             !.got = @ \o [i \in 1..n |-> m.d + off + i],
             !.rcv = Add(@, n + (IF fin THEN 1 ELSE 0)),
             !.fin = @ \/ fin]
  BY Zenon DEF PeerRecv
<1>7. toUs' \in (IF m.len > 0 \/ "FIN" \in m.flags
                 THEN Put(toUs, {[PeerSeg(Add(IRS, 1 + peer'.una), {"ACK"}, 0, 0)
                                  EXCEPT !.ack = peer'.rcv]})
                 ELSE {toUs})
  BY DEF PeerRecv
<1> DEFINE una == IF isAck THEN Max({peer.una, k}) ELSE peer.una
           edge == IF isAck THEN Max({peer.edge, k + m.win}) ELSE peer.edge
           q == peer.got \o [i \in 1..n |-> m.d + off + i]
           fin == "FIN" \in m.flags /\ n = fresh /\ off \in 0..m.len /\ ~ peer.fin
           rcv == Add(peer.rcv, n + (IF fin THEN 1 ELSE 0))
<1>8. peer' = [peer EXCEPT !.state = "EST", !.una = una, !.edge = edge, !.got = q,
                           !.rcv = rcv, !.fin = peer.fin \/ fin]
  BY <1>6
<1>9. fresh \in 0..m.len /\ (fresh > 0 => ~ peer.fin /\ off \in 0..m.len) BY <1>1, <1>3, SMTT(30)
<1>10. off \in 0..m.len /\ ~ peer.fin => fresh = m.len - off OBVIOUS
<1>11. isAck => "ACK" \in m.flags /\ k \in 0..(NIn + 1) OBVIOUS
<1>12. n \in 0..fresh /\ (~ Partial => n = fresh)
  <2>1. CASE Partial
    <3>1. 1 \in Int /\ fresh \in Int BY <1>9
    <3>2. Min({1, fresh}) \in {1, fresh} BY <3>1, MinIs, Zenon
    <3>3. n \in Min({1, fresh})..fresh BY <1>6, <2>1
    <3> HIDE DEF fresh
    <3> QED BY <1>9, <2>1, <3>2, <3>3
  <2>2. CASE ~ Partial
    <3>1. n = fresh BY <1>6, <2>2
    <3> HIDE DEF fresh
    <3> QED BY <1>9, <3>1
  <2> QED BY <2>1, <2>2
<1> HIDE DEF fresh, k, off
<1>13. n \in Nat /\ n \in 0..m.len /\ (n > 0 => ~ peer.fin /\ off \in 0..m.len)
  BY <1>1, <1>9, <1>12
<1>14. una \in Nat /\ edge \in Nat
  <2>1. CASE isAck
    <3>1. peer.una \in Int /\ k \in Int /\ peer.edge \in Int /\ k + m.win \in Int
          /\ k + m.win \in Nat /\ k \in Nat
      BY <1>0, <1>1, <1>3, <2>1, SMTT(30)
    <3>2. una \in {peer.una, k} /\ edge \in {peer.edge, k + m.win}
      BY <2>1, <3>1, MaxIs, Zenon
    <3> QED BY <1>1, <3>1, <3>2, SMTT(30)
  <2>2. CASE ~ isAck BY <1>1, <2>2
  <2> QED BY <2>1, <2>2
<1>15. q \in Bytes /\ Len(q) = Len(peer.got) + n
  <2>1. m.d + off \in Int BY <1>1, <1>3
  <2> QED BY <1>1, <1>13, <2>1, RunOn, Zenon DEF Bytes
<1>16. rcv \in SeqNo
  <2>1. n + (IF fin THEN 1 ELSE 0) \in Nat
    <3>1. n + 1 \in Nat /\ n + 0 \in Nat BY <1>13
    <3> QED BY <3>1, Zenon
  <2> QED BY <1>1, <2>1, AddTyped
<1>17. ~ fin => rcv = Add(peer.rcv, n)
  <2>1. n + 0 = n BY <1>13
  <2> QED BY <2>1, Zenon
<1>18. (fin => "FIN" \in m.flags) /\ (peer.fin \/ fin) \in BOOLEAN BY <1>1 DEF Peer
<1>19. \/ una = peer.una /\ edge = peer.edge
       \/ /\ "ACK" \in m.flags /\ k \in 0..(NIn + 1)
          /\ una = Max({peer.una, k}) /\ edge = Max({peer.edge, k + m.win})
  BY Zenon
<1> HIDE DEF una, edge, q, rcv, fin, isAck
<1>20. peer' \in Peer BY <1>1, <1>8, <1>14, <1>15, <1>16, <1>18, Zenon DEF Peer
<1>21. /\ peer'.state = "EST" /\ peer'.una = una /\ peer'.edge = edge /\ peer'.got = q
       /\ peer'.rcv = rcv
  BY <1>1, <1>8 DEF Peer
<1>22. (fin => peer'.fin) /\ (~ fin => peer'.fin = peer.fin)
  <2>1. peer'.fin = (peer.fin \/ fin) BY <1>1, <1>8, Zenon DEF Peer
  <2>2. peer.fin \in BOOLEAN BY <1>1 DEF Peer
  <2> QED BY <2>1, <2>2, Zenon
<1>23. \/ peer'.fin = peer.fin /\ peer'.rcv = Add(peer.rcv, n)
       \/ "FIN" \in m.flags /\ peer'.fin
  BY <1>17, <1>18, <1>21, <1>22, Zenon
<1>24. toUs' \subseteq toUs \cup {InSeg(Add(IRS, 1 + peer'.una), {"ACK"}, 0, 0, peer'.rcv)}
  <2> DEFINE a == [PeerSeg(Add(IRS, 1 + peer'.una), {"ACK"}, 0, 0) EXCEPT !.ack = peer'.rcv]
  <2>1. a = InSeg(Add(IRS, 1 + peer'.una), {"ACK"}, 0, 0, peer'.rcv) BY DEF PeerSeg, InSeg
  <2>2. toUs' \in Put(toUs, {a}) \/ toUs' = toUs BY <1>7
  <2> HIDE DEF a
  <2> QED BY <2>1, <2>2, PutSub
<1>25. toUs' \subseteq InSegs
  <2>1. 1 + peer'.una \in Nat /\ peer'.rcv \in SeqNo BY <1>20 DEF Peer
  <2>2. Add(IRS, 1 + peer'.una) \in SeqNo BY <1>0, <2>1, AddTyped
  <2>3. {"ACK"} \in SUBSET {"SYN", "ACK", "FIN", "RST"} /\ 0 \in Nat OBVIOUS
  <2>4. InSeg(Add(IRS, 1 + peer'.una), {"ACK"}, 0, 0, peer'.rcv) \in InSegs
    BY <2>1, <2>2, <2>3, InSegTyped
  <2> QED BY <1>1, <1>24, <2>4
<1>26. Typed' BY <1>4, <1>5, <1>20, <1>25, PeerTyped
<1>27. ~ Partial /\ ~ peer.fin /\ off \in 0..m.len => n = m.len - off BY <1>10, <1>12
<1>28. \E j \in 0..m.len :
         /\ peer'.got = peer.got \o [i \in 1..j |-> m.d + off + i]
         /\ Len(peer'.got) = Len(peer.got) + j
         /\ j > 0 => ~ peer.fin /\ off \in 0..m.len
         /\ ~ Partial /\ ~ peer.fin /\ off \in 0..m.len => j = m.len - off
         /\ \/ peer'.fin = peer.fin /\ peer'.rcv = Add(peer.rcv, j)
            \/ "FIN" \in m.flags /\ peer'.fin
  <2>1. peer'.got = peer.got \o [i \in 1..n |-> m.d + off + i] BY <1>21, Zenon DEF q
  <2>2. Len(peer'.got) = Len(peer.got) + n BY <1>15, <1>21, Zenon
  <2> QED BY <1>13, <1>23, <1>27, <2>1, <2>2, Zenon
<1>29. \/ peer'.una = peer.una /\ peer'.edge = peer.edge
       \/ /\ "ACK" \in m.flags /\ k \in 0..(NIn + 1)
          /\ peer'.una = Max({peer.una, k}) /\ peer'.edge = Max({peer.edge, k + m.win})
  BY <1>19, <1>21, Zenon
<1> QED BY <1>4, <1>5, <1>21, <1>24, <1>26, <1>28, <1>29, ZenonT(30) DEF k, off

----------------------------------------------------------------------------
(* The stream that arrives.                                                *)

\* rcv_nxt of a socket, h bytes from which were read: after the last byte in order,
\* or after the FIN
RcvAt(t, h) ==
  t.rcv = Add(IRS, 1 + (h + Len(t.rx))) \/ t.rcv = Add(IRS, NIn + 2)

\* What an acknowledgement of this side grants, when h bytes were read
Grants(m, h) ==
  \E k \in 0..(NIn + 1) : m.ack = Add(IRS, 1 + k) /\ (k <= NIn => k + m.win <= h + Ring)

SockRx ==
  /\ Len(got) + Len(s.rx) <= NIn
  /\ Prefix(got \o s.rx)
  /\ s.state = "SYN_SENT" \/ s.iss = M => Len(got) + Len(s.rx) = 0 /\ ~ s.fin
  /\ s.iss = M => s.state = "CLOSED"
  /\ Len(s.rx) > 0 \/ s.txFlags # {} \/ s.state \notin {"CLOSED", "SYN_SENT"} =>
       RcvAt(s, Len(got))
  /\ call.op \in SendCalls => s.txFlags # {}

OutRx == \A m \in toPeer : m.win <= Ring /\ ("ACK" \in m.flags => Grants(m, Len(got)))

PeerRx == peer.una <= NIn => peer.edge <= Len(got) + Ring

\* What the peer sent
FromPeer(m, h) ==
  IF "SYN" \in m.flags
  THEN m.seq = IRS /\ m.d = 0 /\ m.len <= 1 /\ m.len <= NIn /\ "FIN" \notin m.flags
  ELSE /\ m.len > 0 => /\ m.seq = Add(IRS, 1 + m.d) /\ m.d + m.len <= NIn
                       /\ m.d + m.len <= h + Ring
       /\ "FIN" \in m.flags => m.seq = Add(IRS, 1 + m.d) /\ m.d + m.len = NIn

InRx == \A m \in toUs : FromPeer(m, Len(got))

RxInv == SockRx /\ OutRx /\ PeerRx /\ InRx

\* What the assumption says of the constants.
LEMMA Sizes ==
  /\ M \in Nat /\ M > 0 /\ NIn \in Nat /\ NOut \in Nat /\ Ring \in Nat /\ Ring > 0
  /\ 2 * NIn + 4 < M /\ 2 * NOut + 4 < M /\ IRS \in 0..(M - 1) /\ ISS \in 0..(M - 1)
BY TcpAssumption

\* The sequences of the state are sequences.
LEMMA Lengths ==
  ASSUME Typed
  PROVE  /\ got \in Seq(Int) /\ s.rx \in Seq(Int) /\ Len(got) \in Nat /\ Len(s.rx) \in Nat
         /\ peer.got \in Seq(Int) /\ Len(peer.got) \in Nat
<1>1. got \in Bytes /\ s.rx \in Bytes /\ peer.got \in Bytes BY Zenon DEF Typed, Socket, Peer
<1>2. \A q \in Bytes : q \in Seq(Int) /\ Len(q) \in Nat BY DEF Bytes
<1> QED BY <1>1, <1>2, Zenon

\* A segment of a socket grants what rcv_nxt and the ring say
LEMMA SegGrants ==
  ASSUME NEW t \in Socket, NEW h \in Nat, h + Len(t.rx) <= NIn, RcvAt(t, h),
         NEW seq, NEW flags, NEW d, NEW len
  PROVE  Grants(Seg(t, seq, flags, d, len), h) /\ Grants(AckSeg(t), h)
<1>1. t.rx \in Seq(Int) /\ Len(t.rx) \in Nat BY DEF Socket, Bytes
<1>2. ASSUME NEW m, m.ack = t.rcv, m.win = Ring - Len(t.rx) PROVE Grants(m, h)
  <2>1. CASE t.rcv = Add(IRS, 1 + (h + Len(t.rx)))
    <3> DEFINE k == h + Len(t.rx)
    <3>1. k \in 0..(NIn + 1) /\ k + m.win <= h + Ring BY <1>1, <1>2, Sizes
    <3>2. m.ack = Add(IRS, 1 + k) BY <1>2, <2>1
    <3> HIDE DEF k
    <3> QED BY <3>1, <3>2 DEF Grants
  <2>2. CASE t.rcv = Add(IRS, NIn + 2)
    <3>1. NIn + 1 \in 0..(NIn + 1) /\ ~ (NIn + 1 <= NIn) /\ 1 + (NIn + 1) = NIn + 2 BY Sizes
    <3>2. m.ack = Add(IRS, 1 + (NIn + 1)) BY <1>2, <2>2, <3>1
    <3> QED BY <3>1, <3>2 DEF Grants
  <2> QED BY <2>1, <2>2 DEF RcvAt
<1> QED BY <1>2 DEF Seg, AckSeg

\* No window is larger than the ring.
LEMMA SegWin ==
  ASSUME NEW t \in Socket, NEW seq, NEW flags, NEW d, NEW len
  PROVE  /\ Seg(t, seq, flags, d, len).win <= Ring /\ AckSeg(t).win <= Ring
         /\ Seg(t, seq, flags, d, len).flags = flags /\ AckSeg(t).flags = {"ACK"}
         /\ Seg(t, seq, flags, d, len).seq = seq /\ AckSeg(t).len = 0
         /\ Seg(t, seq, flags, d, len).d = d /\ Seg(t, seq, flags, d, len).len = len
<1>1. t.rx \in Seq(Int) /\ Len(t.rx) \in Nat BY DEF Socket, Bytes
<1>2. Ring - Len(t.rx) <= Ring BY <1>1, Sizes
<1> QED BY <1>2 DEF Seg, AckSeg

\* A step that leaves the streams alone.
LEMMA QuietRx ==
  ASSUME Typed, RxInv, Quiet
  PROVE  RxInv'
<1>1. /\ s'.rx = s.rx /\ s'.rcv = s.rcv /\ s'.fin = s.fin /\ s'.iss = s.iss
      /\ s'.txFlags = s.txFlags /\ s'.state \in {s.state, "CLOSED"} /\ got' = got
      /\ peer' = peer /\ toUs' \subseteq toUs
      /\ call'.op \in SendCalls => call.op \in SendCalls
  BY DEF Quiet, Kept
<1>2. SockRx'
  <2>1. RcvAt(s, Len(got)) => RcvAt(s', Len(got)) BY <1>1, Zenon DEF RcvAt
  <2> QED BY <1>1, <2>1 DEF RxInv, SockRx
<1>3. ASSUME NEW m \in toPeer' PROVE m.win <= Ring /\ ("ACK" \in m.flags => Grants(m, Len(got)))
  <2>1. CASE m \in toPeer BY <2>1 DEF RxInv, OutRx
  <2>2. CASE Resent(m)
    <3>1. s \in Socket /\ Len(got) \in Nat BY Lengths, Zenon DEF Typed
    <3>2. Len(got) + Len(s.rx) <= NIn BY DEF RxInv, SockRx
    <3>a. \A seq, flags, d, len : /\ Seg(s, seq, flags, d, len).win <= Ring
                                 /\ Seg(s, seq, flags, d, len).flags = flags
      BY <3>1, SegWin
    <3>b. AckSeg(s).win <= Ring BY <3>1, SegWin
    <3>3. m.win <= Ring /\ (m.flags = {"SYN"} \/ m.flags = s.txFlags \/ s.state = "TIME_WAIT")
      <4>1. CASE m = Seg(s, s.iss, {"SYN"}, 0, 0) BY <3>a, <4>1
      <4>2. CASE m = Seg(s, s.una, s.txFlags, s.txAt, s.txLen) BY <3>a, <4>2
      <4>3. CASE m = Seg(s, s.una, s.txFlags, 0, 0) BY <3>a, <4>3
      <4>4. CASE s.state = "TIME_WAIT" /\ m = AckSeg(s) BY <3>b, <4>4
      <4> QED BY <2>2, <4>1, <4>2, <4>3, <4>4, Zenon DEF Resent
    <3>4. "ACK" \in m.flags => s.txFlags # {} \/ s.state = "TIME_WAIT" BY <3>3
    <3>5. "ACK" \in m.flags => RcvAt(s, Len(got)) BY <3>4 DEF RxInv, SockRx
    <3>6. RcvAt(s, Len(got)) => Grants(m, Len(got))
      BY <2>2, <3>1, <3>2, SegGrants, Zenon DEF Resent
    <3> QED BY <3>3, <3>5, <3>6
  <2> QED BY <2>1, <2>2 DEF Quiet
<1>4. OutRx' BY <1>1, <1>3 DEF OutRx
<1>5. PeerRx' /\ InRx' BY <1>1 DEF RxInv, PeerRx, InRx
<1> QED BY <1>2, <1>4, <1>5 DEF RxInv

\* Steps that send a segment of the new socket and leave the receiving side alone
LEMMA SendRx ==
  ASSUME Typed, Typed', RxInv, NEW m, SockRx', s'.rx = s.rx, got' = got, peer' = peer,
         toUs' = toUs, toPeer' \subseteq toPeer \cup {m}, m.win <= Ring,
         "ACK" \in m.flags => Grants(m, Len(got))
  PROVE  RxInv'
<1>1. OutRx' BY DEF OutRx, RxInv
<1>2. PeerRx' /\ InRx' BY DEF RxInv, PeerRx, InRx
<1> QED BY <1>1, <1>2 DEF RxInv

\* tcp_connect(): the SYN grants the ring and acknowledges nothing.
LEMMA ConnectRx ==
  ASSUME Typed, RxInv, Connect
  PROVE  RxInv'
<1>1. /\ Typed' /\ KeptRx /\ UNCHANGED <<asked, done, got, peer, toUs>>
      /\ s.iss = M /\ s.state = "CLOSED" /\ call'.op = "arm connect"
      /\ s'.iss = ISS /\ s'.state = "SYN_SENT" /\ s'.txFlags = s.txFlags
      /\ toPeer' \subseteq toPeer \cup {Seg(s', ISS, {"SYN"}, 0, 0)}
  BY ConnectIs, Zenon
<1>2. s' \in Socket /\ s \in Socket BY <1>1, Zenon DEF Typed
<1>3. ISS # M BY Sizes
<1>4. SockRx'
  <2>1. RcvAt(s, Len(got)) => RcvAt(s', Len(got)) BY <1>1, Zenon DEF RcvAt, KeptRx
  <2> QED BY <1>1, <1>3, <2>1, Zenon DEF RxInv, SockRx, KeptRx, SendCalls
<1>5. /\ Seg(s', ISS, {"SYN"}, 0, 0).win <= Ring
      /\ "ACK" \notin Seg(s', ISS, {"SYN"}, 0, 0).flags
  BY <1>2, SegWin
<1> QED BY <1>1, <1>4, <1>5, SendRx, Zenon DEF KeptRx

\* tcp_send(): a chunk carries the acknowledgement and the window of the moment.
LEMMA ChunkRx ==
  ASSUME Typed, RxInv, NEW left \in Nat, left > 0, asked + left <= NOut, Chunk(left),
         UNCHANGED <<got, peer, toUs>>, done' \in Nat, done' <= asked,
         s.txFlags # {} \/ s.state = "ESTABLISHED"
  PROVE  RxInv'
<1>1. /\ Typed' /\ KeptRx /\ s'.iss = s.iss /\ s'.state = s.state /\ s'.txFlags = {"ACK"}
      /\ \E len \in 1..left :
           toPeer' \subseteq toPeer \cup {Seg(s', s.una, {"ACK"}, asked, len)}
  BY ChunkIs, Zenon
<1>2. PICK len \in 1..left : toPeer' \subseteq toPeer \cup {Seg(s', s.una, {"ACK"}, asked, len)}
  BY <1>1
<1>3. s' \in Socket /\ Len(got) \in Nat BY <1>1, Lengths, Zenon DEF Typed
<1>4. RcvAt(s, Len(got)) BY DEF RxInv, SockRx
<1>5. RcvAt(s', Len(got)) BY <1>1, <1>4, Zenon DEF RcvAt, KeptRx
<1>6. SockRx' BY <1>1, <1>5 DEF RxInv, SockRx, KeptRx
<1>7. Len(got) + Len(s'.rx) <= NIn BY <1>1 DEF RxInv, SockRx, KeptRx
<1>8. /\ Seg(s', s.una, {"ACK"}, asked, len).win <= Ring
      /\ Grants(Seg(s', s.una, {"ACK"}, asked, len), Len(got))
  BY <1>3, <1>5, <1>7, SegWin, SegGrants
<1>9. s'.rx = s.rx BY <1>1 DEF KeptRx
<1> QED BY <1>1, <1>2, <1>6, <1>8, <1>9, SendRx

\* tcp_close(): so does the FIN.
LEMMA CloseRx ==
  ASSUME Typed, RxInv, Close
  PROVE  RxInv'
<1>1. CASE Typed' /\ Quiet BY <1>1, QuietRx
<1>2. CASE /\ Typed' /\ KeptRx /\ UNCHANGED <<asked, done, got, peer, toUs>>
           /\ s.state \in {"CLOSE_WAIT", "ESTABLISHED"} /\ s'.iss = s.iss
           /\ s'.state \in {"LAST_ACK", "FIN_WAIT1"} /\ s'.txFlags = {"ACK", "FIN"}
           /\ call'.op = "arm close"
           /\ toPeer' \subseteq toPeer \cup {Seg(s', s.nxt, {"ACK", "FIN"}, 0, 0)}
  <2>1. s' \in Socket /\ Len(got) \in Nat BY <1>2, Lengths, Zenon DEF Typed
  <2>2. RcvAt(s, Len(got)) BY <1>2, Zenon DEF RxInv, SockRx
  <2>3. RcvAt(s', Len(got)) BY <1>2, <2>2, Zenon DEF RcvAt, KeptRx
  <2>4. SockRx' BY <1>2, <2>3, Zenon DEF RxInv, SockRx, KeptRx, SendCalls
  <2>5. Len(got) + Len(s'.rx) <= NIn BY <1>2, Zenon DEF RxInv, SockRx, KeptRx
  <2>6. /\ Seg(s', s.nxt, {"ACK", "FIN"}, 0, 0).win <= Ring
        /\ Grants(Seg(s', s.nxt, {"ACK", "FIN"}, 0, 0), Len(got))
    BY <2>1, <2>3, <2>5, SegWin, SegGrants
  <2>7. s'.rx = s.rx BY <1>2, Zenon DEF KeptRx
  <2> QED BY <1>2, <2>4, <2>6, <2>7, SendRx, Zenon
<1> QED BY <1>1, <1>2, CloseIs, Zenon

\* More room is granted when bytes are read
LEMMA GrantsMore ==
  ASSUME NEW m \in OutSegs, NEW h \in Nat, NEW j \in Nat, h <= j, Grants(m, h)
  PROVE  Grants(m, j)
<1>1. PICK k \in 0..(NIn + 1) : m.ack = Add(IRS, 1 + k) /\ (k <= NIn => k + m.win <= h + Ring)
  BY DEF Grants
<1>2. m.win \in Nat /\ k \in Nat BY Sizes DEF OutSegs
<1>3. k <= NIn => k + m.win <= j + Ring BY <1>1, <1>2, Sizes
<1> QED BY <1>1, <1>3 DEF Grants

\* Reading does not put what the peer sent outside the window.
LEMMA FromPeerMore ==
  ASSUME NEW m \in InSegs, NEW h \in Nat, NEW j \in Nat, h <= j, FromPeer(m, h)
  PROVE  FromPeer(m, j)
<1>1. m.d \in Nat /\ m.len \in Nat BY DEF InSegs
<1> QED BY <1>1, Sizes DEF FromPeer

\* tcp_recv(): bytes move from the ring to the reader and the window opens.
LEMMA RecvRx ==
  ASSUME Typed, RxInv, NEW max \in 1..Ring, Recv(max)
  PROVE  RxInv'
<1>1. /\ Typed' /\ Kept([s' EXCEPT !.rx = s.rx])
      /\ UNCHANGED <<call, asked, done, peer, toUs>>
      /\ toPeer' \subseteq toPeer \cup {AckSeg(s')} /\ Len(s.rx) > 0
  BY RecvIs, Zenon
<1>2. PICK n \in 0..Len(s.rx) : /\ got' = got \o SubSeq(s.rx, 1, n)
                                /\ s'.rx = SubSeq(s.rx, n + 1, Len(s.rx))
  BY RecvIs, Zenon
<1>3. /\ got \in Seq(Int) /\ s.rx \in Seq(Int) /\ Len(got) \in Nat /\ Len(s.rx) \in Nat
      /\ s' \in Socket
  BY <1>1, Lengths, Zenon DEF Typed
<1>4. /\ s'.rcv = s.rcv /\ s'.fin = s.fin /\ s'.iss = s.iss /\ s'.txFlags = s.txFlags
      /\ s'.state \in {s.state, "CLOSED"}
  BY <1>1, <1>3 DEF Kept, Socket
<1>5. Prefix(got \o s.rx) /\ Len(got) + Len(s.rx) <= NIn /\ RcvAt(s, Len(got))
  BY <1>1 DEF RxInv, SockRx
<1>6. /\ Len(got') = Len(got) + n /\ Len(s'.rx) = Len(s.rx) - n
      /\ Prefix(got' \o s'.rx)
  <2>1. /\ Len(got \o SubSeq(s.rx, 1, n)) = Len(got) + n
        /\ Len(SubSeq(s.rx, n + 1, Len(s.rx))) = Len(s.rx) - n
        /\ Prefix((got \o SubSeq(s.rx, 1, n)) \o SubSeq(s.rx, n + 1, Len(s.rx)))
    BY <1>3, <1>5, PrefixMoves
  <2> DEFINE A == got \o SubSeq(s.rx, 1, n)
             B == SubSeq(s.rx, n + 1, Len(s.rx))
  <2>2. got' = A /\ s'.rx = B BY <1>2, Zenon
  <2>3. Len(A) = Len(got) + n /\ Len(B) = Len(s.rx) - n /\ Prefix(A \o B) BY <2>1, Zenon
  <2> HIDE DEF A, B
  <2>4. Len(got') = Len(got) + n /\ Len(s'.rx) = Len(s.rx) - n BY <2>2, <2>3
  <2>5. Prefix(got' \o s'.rx) BY <2>2, <2>3
  <2> QED BY <2>4, <2>5
<1>7. Len(got') + Len(s'.rx) = Len(got) + Len(s.rx)
  <2>0. ASSUME NEW a \in Nat, NEW b \in Nat, NEW i \in 0..b PROVE (a + i) + (b - i) = a + b
    OBVIOUS
  <2>1. (Len(got) + n) + (Len(s.rx) - n) = Len(got) + Len(s.rx) BY <1>2, <1>3, <2>0, Zenon
  <2> QED BY <1>6, <2>1, Zenon
<1>8. RcvAt(s', Len(got')) BY <1>4, <1>5, <1>7, Zenon DEF RcvAt
<1>9. SockRx'
  <2>1. ~ (s.state = "SYN_SENT" \/ s.iss = M) BY <1>1, <1>3 DEF RxInv, SockRx
  <2>2. ~ (s'.state = "SYN_SENT" \/ s'.iss = M) BY <1>4, <2>1
  <2>3. Len(got') + Len(s'.rx) <= NIn BY <1>5, <1>7
  <2>4. call'.op \in SendCalls => s'.txFlags # {} BY <1>1, <1>4 DEF RxInv, SockRx
  <2> QED BY <1>6, <1>8, <2>2, <2>3, <2>4, Zenon DEF SockRx
<1>10. Len(got') \in Nat /\ Len(got) <= Len(got') BY <1>3, <1>6
<1>11. OutRx'
  <2>1. ASSUME NEW m \in toPeer'
        PROVE m.win <= Ring /\ ("ACK" \in m.flags => Grants(m, Len(got')))
    <3>1. CASE m \in toPeer
      <4>1. m.win <= Ring /\ ("ACK" \in m.flags => Grants(m, Len(got))) BY <3>1 DEF RxInv, OutRx
      <4>2. m \in OutSegs BY <3>1, Zenon DEF Typed
      <4> QED BY <1>3, <1>10, <4>1, <4>2, GrantsMore
    <3>2. CASE m = AckSeg(s')
      <4>1. Len(got') + Len(s'.rx) <= NIn BY <1>5, <1>7
      <4>2. Grants(AckSeg(s'), Len(got')) BY <1>3, <1>8, <1>10, <4>1, SegGrants, Zenon
      <4>3. AckSeg(s').win <= Ring BY <1>3, SegWin
      <4> QED BY <3>2, <4>2, <4>3
    <3> QED BY <1>1, <3>1, <3>2
  <2> QED BY <2>1 DEF OutRx
<1>12. PeerRx'
  <2>1. peer.edge \in Nat BY Zenon DEF Typed, Peer
  <2>2. peer.una <= NIn => peer.edge <= Len(got) + Ring BY DEF RxInv, PeerRx
  <2>3. peer.una <= NIn => peer.edge <= Len(got') + Ring BY <1>3, <1>10, <2>1, <2>2, Sizes
  <2> QED BY <1>1, <2>3 DEF PeerRx
<1>13. InRx'
  <2>1. ASSUME NEW m \in toUs PROVE FromPeer(m, Len(got'))
    BY <1>3, <1>10, FromPeerMore, Zenon DEF RxInv, InRx, Typed
  <2> QED BY <1>1, <2>1 DEF InRx
<1> QED BY <1>9, <1>11, <1>12, <1>13 DEF RxInv

\* Data in order: what is taken continues the stream
LEMMA TookRx ==
  ASSUME Typed, RxInv, NEW m \in toUs,
         s.state \in {"ESTABLISHED", "FIN_WAIT1", "FIN_WAIT2", "CLOSING"}
  PROVE  /\ Len(got) + Len(Took(m).rx) <= NIn /\ Prefix(got \o Took(m).rx)
         /\ RcvAt(Took(m), Len(got))
         /\ s.rcv = Add(IRS, NIn + 2) => Took(m).rcv = Add(IRS, NIn + 2)
<1> DEFINE R == Len(got) + Len(s.rx)
<1>1. m \in InSegs /\ m.d \in Nat /\ m.len \in Nat BY Zenon DEF Typed, InSegs
<1>2. /\ got \in Seq(Int) /\ s.rx \in Seq(Int) /\ Len(got) \in Nat /\ Len(s.rx) \in Nat
  BY Lengths
<1>3. FromPeer(m, Len(got)) BY DEF RxInv, InRx
<1>4. R <= NIn /\ R \in Nat /\ Prefix(got \o s.rx) /\ RcvAt(s, Len(got))
  BY <1>2 DEF RxInv, SockRx
<1>5. CASE ~ (m.len > 0 /\ m.seq = s.rcv)
  <2>1. Took(m).rx = s.rx /\ Took(m).rcv = s.rcv BY <1>1, <1>5, TookIs, Zenon
  <2> QED BY <1>4, <2>1, Zenon DEF RcvAt
<1>6. CASE m.len > 0 /\ m.seq = s.rcv
  <2>1. "SYN" \notin m.flags
    <3>1. SUFFICES ASSUME "SYN" \in m.flags PROVE FALSE OBVIOUS
    <3>2. s.rcv = IRS BY <1>3, <1>6, <3>1 DEF FromPeer
    <3>3. Add(IRS, 0) = IRS
      <4>1. 0 \in 0..(M - 1) /\ IRS + 0 < M /\ IRS + 0 = IRS BY Sizes
      <4> QED BY <4>1, AddIs, Sizes
    <3>4. 0 \in 0..(M - 1) /\ 1 + R \in 0..(M - 1) /\ NIn + 2 \in 0..(M - 1)
          /\ 0 # 1 + R /\ 0 # NIn + 2
      BY <1>4, Sizes
    <3>5. Add(IRS, 0) # Add(IRS, 1 + R) /\ Add(IRS, 0) # Add(IRS, NIn + 2)
      BY <3>4, AddInj, Sizes
    <3> QED BY <1>4, <3>2, <3>3, <3>5 DEF RcvAt
  <2>2. /\ m.seq = Add(IRS, 1 + m.d) /\ m.d + m.len <= NIn /\ m.d + m.len <= Len(got) + Ring
    BY <1>3, <1>6, <2>1 DEF FromPeer
  <2>3. 1 + m.d \in 0..(M - 1) /\ 1 + R \in 0..(M - 1) /\ NIn + 2 \in 0..(M - 1)
        /\ 1 + m.d # NIn + 2
    BY <1>1, <1>4, <1>6, <2>2, Sizes, SMTT(30)
  <2>4. s.rcv # Add(IRS, NIn + 2) BY <1>6, <2>2, <2>3, AddInj, Sizes
  <2>5. s.rcv = Add(IRS, 1 + R) BY <1>4, <2>4 DEF RcvAt
  <2>6. m.d = R
    <3> HIDE DEF R
    <3>1. Add(IRS, 1 + m.d) = Add(IRS, 1 + R) BY <1>6, <2>2, <2>5, Zenon
    <3>2. 1 + m.d = 1 + R BY <2>3, <3>1, AddInj, Sizes
    <3> QED BY <1>1, <1>4, <3>2
  <2>7. m.len <= Ring - Len(s.rx) BY <1>1, <1>2, <2>2, <2>6, Sizes, SMTT(30)
  <2>8. PICK n \in 0..m.len :
          /\ Took(m).rx = s.rx \o [i \in 1..n |-> m.d + i]
          /\ Len(Took(m).rx) = Len(s.rx) + n
          /\ m.len <= Ring - Len(s.rx) => n = m.len
    BY <1>1, <1>6, TookIs, Zenon
  <2>9. n = m.len BY <2>7, <2>8
  <2>10. Took(m).rcv = Add(s.rcv, m.len) BY <1>1, <1>6, TookIs, Zenon
  <2>11. Len(got) + Len(Took(m).rx) = R + m.len BY <1>1, <1>2, <2>8, <2>9
  <2>12. Took(m).rcv = Add(IRS, 1 + (Len(got) + Len(Took(m).rx)))
    <3> HIDE DEF R
    <3>1. 1 + R \in Nat /\ (1 + R) + m.len < M /\ (1 + R) + m.len = 1 + (R + m.len)
      BY <1>1, <1>4, <2>2, <2>6, Sizes, SMTT(30)
    <3>2. Add(Add(IRS, 1 + R), m.len) = Add(IRS, (1 + R) + m.len)
      BY <1>1, <3>1, AddAdd, Sizes
    <3> QED BY <2>5, <2>10, <2>11, <3>1, <3>2
  <2>13. Prefix(got \o Took(m).rx)
    <3>1. n \in Nat /\ m.d = Len(got) + Len(s.rx) BY <1>1, <2>6
    <3>2. Prefix(got \o (s.rx \o [i \in 1..n |-> m.d + i])) BY <1>1, <1>2, <1>4, <3>1, PrefixTail, ZenonT(40)
    <3> QED BY <2>8, <3>2, Zenon
  <2>14. Len(got) + Len(Took(m).rx) <= NIn BY <1>1, <2>2, <2>6, <2>11
  <2> QED BY <2>4, <2>12, <2>13, <2>14 DEF RcvAt
<1> QED BY <1>5, <1>6

\* A segment answers: only the socket and the network to the peer change
LEMMA AnswerRx ==
  ASSUME Typed, RxInv, SockRx', UNCHANGED <<got, peer>>, toUs' \subseteq toUs,
         \A m \in toPeer' \ toPeer : m.win <= Ring /\ Grants(m, Len(got))
  PROVE  RxInv'
<1>1. OutRx'
  <2>1. ASSUME NEW m \in toPeer'
        PROVE m.win <= Ring /\ ("ACK" \in m.flags => Grants(m, Len(got)))
    <3>1. CASE m \in toPeer BY <3>1 DEF RxInv, OutRx
    <3>2. CASE m \notin toPeer BY <3>2
    <3> QED BY <3>1, <3>2
  <2> QED BY <2>1 DEF OutRx
<1>2. PeerRx' BY DEF RxInv, PeerRx
<1>3. InRx' BY DEF RxInv, InRx
<1> QED BY <1>1, <1>2, <1>3 DEF RxInv

\* tcp_receive(): the handshake, with the first byte perhaps.
LEMMA EstRx ==
  ASSUME Typed, RxInv, NEW m \in toUs, Typed', s.state = "SYN_SENT",
         {"SYN", "ACK"} \subseteq m.flags,
         s' = [Pushed([s EXCEPT !.una = m.ack, !.state = "ESTABLISHED",
                                !.armed = FALSE, !.retries = 0], m.d, m.len)
               EXCEPT !.rcv = Add(m.seq, 1 + m.len)],
         toPeer' \subseteq toPeer \cup {AckSeg(s')}, toUs' \subseteq toUs,
         UNCHANGED <<call, asked, done, got, peer>>
  PROVE  RxInv'
<1>1. m \in InSegs /\ m.d \in Nat /\ m.len \in Nat BY Zenon DEF Typed, InSegs
<1>2. /\ got \in Seq(Int) /\ s.rx \in Seq(Int) /\ Len(got) \in Nat /\ Len(s.rx) \in Nat
  BY Lengths
<1>3. FromPeer(m, Len(got)) BY DEF RxInv, InRx
<1>4. m.seq = IRS /\ m.d = 0 /\ m.len <= 1 /\ m.len <= NIn BY <1>3 DEF FromPeer
<1>5. Len(got) + Len(s.rx) = 0 /\ ~ s.fin /\ s.iss # M /\ Prefix(got \o s.rx)
      /\ (call.op \in SendCalls => s.txFlags # {})
  BY DEF RxInv, SockRx
<1>6. Len(got) = 0 /\ Len(s.rx) = 0 BY <1>2, <1>5
<1>7. /\ s' \in Socket /\ s'.rcv = Add(m.seq, 1 + m.len) /\ s'.fin = s.fin
      /\ s'.state = "ESTABLISHED" /\ s'.iss = s.iss /\ s'.txFlags = s.txFlags
      /\ \E n \in 0..m.len :
           /\ s'.rx = s.rx \o [i \in 1..n |-> m.d + i]
           /\ Len(s'.rx) = Len(s.rx) + n /\ Len(s.rx) + n <= Ring
           /\ m.len <= Ring - Len(s.rx) => n = m.len
  BY <1>1, EstIs, ZenonT(40)
<1>8. PICK n \in 0..m.len :
        /\ s'.rx = s.rx \o [i \in 1..n |-> m.d + i]
        /\ Len(s'.rx) = Len(s.rx) + n
        /\ m.len <= Ring - Len(s.rx) => n = m.len
  BY <1>7, Zenon
<1>9. n = m.len /\ n \in Nat /\ m.d = Len(got) + Len(s.rx)
  BY <1>1, <1>2, <1>4, <1>6, <1>8, Sizes, SMTT(60)
<1>10. Prefix(got \o s'.rx)
  <2>1. Prefix(got \o (s.rx \o [i \in 1..n |-> m.d + i]))
    BY <1>2, <1>5, <1>9, PrefixTail, SMTT(30)
  <2> QED BY <1>8, <2>1, Zenon
<1>11. Len(got) + Len(s'.rx) = m.len BY <1>1, <1>2, <1>6, <1>8, <1>9
<1>12. RcvAt(s', Len(got)) BY <1>4, <1>7, <1>11 DEF RcvAt
<1>13. SockRx'
  <2>1. Len(got') + Len(s'.rx) <= NIn BY <1>4, <1>11
  <2> QED BY <1>5, <1>7, <1>10, <1>12, <2>1 DEF SockRx
<1>14. Grants(AckSeg(s'), Len(got))
  <2>1. Len(got) + Len(s'.rx) <= NIn BY <1>4, <1>11
  <2> QED BY <1>2, <1>7, <1>12, <2>1, SegGrants, Zenon
<1>15. AckSeg(s').win <= Ring BY <1>7, SegWin, Zenon
<1> QED BY <1>13, <1>14, <1>15, AnswerRx

\* tcp_receive() of a connection.
LEMMA DataRx ==
  ASSUME Typed, RxInv, NEW m \in toUs, Typed',
         s.state \in {"ESTABLISHED", "FIN_WAIT1", "FIN_WAIT2", "CLOSING"},
         s' = Advanced(WithFin(m)),
         toPeer' \subseteq toPeer \cup {AckSeg(Took(m)), AckSeg(WithFin(m))},
         toUs' \subseteq toUs, UNCHANGED <<call, asked, done, got, peer>>
  PROVE  RxInv'
<1>1. m \in InSegs /\ m.d \in Nat /\ m.len \in Nat /\ m.seq \in SeqNo
  BY Zenon DEF Typed, InSegs
<1>2. Len(got) \in Nat BY Lengths
<1>3. /\ Len(got) + Len(Took(m).rx) <= NIn /\ Prefix(got \o Took(m).rx)
      /\ RcvAt(Took(m), Len(got))
  BY TookRx
<1>4. /\ Took(m) \in Socket /\ WithFin(m) \in Socket
      /\ WithFin(m).rx = Took(m).rx /\ s'.rx = Took(m).rx
      /\ s'.rcv = WithFin(m).rcv /\ s'.iss = s.iss /\ s'.txFlags = s.txFlags
      /\ s'.state \notin {"CLOSED", "SYN_SENT"}
  BY <1>1, TookIs, Zenon
<1>5. RcvAt(WithFin(m), Len(got))
  <2>1. CASE "FIN" \notin m.flags
    <3>1. WithFin(m).rcv = Took(m).rcv BY <1>1, <2>1, TookIs, Zenon
    <3> QED BY <1>3, <1>4, <3>1, Zenon DEF RcvAt
  <2>2. CASE "FIN" \in m.flags
    <3>1. WithFin(m).rcv \in {Took(m).rcv, Add(m.seq, m.len + 1)} BY <1>1, <2>2, TookIs, Zenon
    <3>2. m.seq = Add(IRS, 1 + m.d) /\ m.d + m.len = NIn BY <2>2 DEF RxInv, InRx, FromPeer
    <3>3. /\ 1 + m.d \in Nat /\ m.len + 1 \in Nat /\ (1 + m.d) + (m.len + 1) < M
          /\ (1 + m.d) + (m.len + 1) = NIn + 2
      BY <1>1, <3>2, Sizes
    <3>4. Add(Add(IRS, 1 + m.d), m.len + 1) = Add(IRS, NIn + 2)
      <4>1. Add(Add(IRS, 1 + m.d), m.len + 1) = Add(IRS, (1 + m.d) + (m.len + 1))
        BY <3>3, AddAdd, Sizes
      <4> QED BY <3>3, <4>1
    <3>5. CASE WithFin(m).rcv = Took(m).rcv BY <1>3, <1>4, <3>5, Zenon DEF RcvAt
    <3>6. CASE WithFin(m).rcv = Add(m.seq, m.len + 1) BY <3>2, <3>4, <3>6 DEF RcvAt
    <3> QED BY <3>1, <3>5, <3>6
  <2> QED BY <2>1, <2>2
<1>6. RcvAt(s', Len(got)) BY <1>4, <1>5, Zenon DEF RcvAt
<1>7. s.iss # M /\ (call.op \in SendCalls => s.txFlags # {}) BY DEF RxInv, SockRx
<1>8. SockRx' BY <1>3, <1>4, <1>6, <1>7, Zenon DEF SockRx
<1>9. Grants(AckSeg(Took(m)), Len(got)) /\ Grants(AckSeg(WithFin(m)), Len(got))
  <2>1. Len(got) + Len(WithFin(m).rx) <= NIn BY <1>3, <1>4, Zenon
  <2> QED BY <1>2, <1>3, <1>4, <1>5, <2>1, SegGrants, Zenon
<1>10. AckSeg(Took(m)).win <= Ring /\ AckSeg(WithFin(m)).win <= Ring BY <1>4, SegWin, Zenon
<1> QED BY <1>8, <1>9, <1>10, AnswerRx

\* tcp_receive().
LEMMA ReceiveRx ==
  ASSUME Typed, RxInv, NEW m \in toUs, Receive(m)
  PROVE  RxInv'
<1>1. Typed' BY ReceiveTyped
<1>2. /\ toUs' \subseteq toUs /\ UNCHANGED <<call, asked, done, got, peer>>
      /\ \/ s' = s /\ toPeer' \subseteq toPeer
         \/ s.state = "TIME_WAIT" /\ s' = s /\ toPeer' \subseteq toPeer \cup {AckSeg(s)}
         \/ s' = [s EXCEPT !.state = "CLOSED"] /\ toPeer' \subseteq toPeer
         \/ /\ s.state = "SYN_SENT" /\ {"SYN", "ACK"} \subseteq m.flags
            /\ m.ack = Add(s.iss, 1)
            /\ s' = [Pushed([s EXCEPT !.una = m.ack, !.state = "ESTABLISHED",
                                      !.armed = FALSE, !.retries = 0], m.d, m.len)
                     EXCEPT !.rcv = Add(m.seq, 1 + m.len)]
            /\ toPeer' \subseteq toPeer \cup {AckSeg(s')}
         \/ /\ s.state \in {"ESTABLISHED", "FIN_WAIT1", "FIN_WAIT2", "CLOSING"}
            /\ s' = Advanced(WithFin(m))
            /\ toPeer' \subseteq toPeer \cup {AckSeg(Took(m)), AckSeg(WithFin(m))}
  BY ReceiveIs, Zenon
<1>3. s \in Socket /\ Len(got) \in Nat BY Lengths, Zenon DEF Typed
<1>4. CASE s' = s /\ toPeer' \subseteq toPeer
  <2>1. SockRx' BY <1>2, <1>4 DEF RxInv, SockRx
  <2> QED BY <1>2, <1>4, <2>1, AnswerRx
<1>5. CASE s.state = "TIME_WAIT" /\ s' = s /\ toPeer' \subseteq toPeer \cup {AckSeg(s)}
  <2>1. SockRx' BY <1>2, <1>5 DEF RxInv, SockRx
  <2>2. RcvAt(s, Len(got)) /\ Len(got) + Len(s.rx) <= NIn BY <1>5 DEF RxInv, SockRx
  <2>3. Grants(AckSeg(s), Len(got)) BY <1>3, <2>2, SegGrants
  <2>4. AckSeg(s).win <= Ring BY <1>3, SegWin
  <2> QED BY <1>2, <1>5, <2>1, <2>3, <2>4, AnswerRx
<1>6. CASE s' = [s EXCEPT !.state = "CLOSED"] /\ toPeer' \subseteq toPeer
  <2>1. /\ s'.rx = s.rx /\ s'.rcv = s.rcv /\ s'.fin = s.fin /\ s'.iss = s.iss
        /\ s'.txFlags = s.txFlags /\ s'.state = "CLOSED"
    BY <1>3, <1>6 DEF Socket
  <2>2. RcvAt(s, Len(got)) => RcvAt(s', Len(got)) BY <2>1, Zenon DEF RcvAt
  <2>3. SockRx' BY <1>2, <2>1, <2>2 DEF RxInv, SockRx
  <2> QED BY <1>2, <1>6, <2>3, AnswerRx
<1> QED BY <1>1, <1>2, <1>4, <1>5, <1>6, EstRx, DataRx, Zenon

\* The peer moves: this side is as it was
LEMMA PeerStepRx ==
  ASSUME Typed, RxInv, UNCHANGED <<s, call, asked, done, got>>, toPeer' \subseteq toPeer,
         PeerRx', NEW m, toUs' \subseteq toUs \cup {m}, FromPeer(m, Len(got))
  PROVE  RxInv'
<1>1. SockRx' BY DEF RxInv, SockRx
<1>2. OutRx' BY DEF RxInv, OutRx
<1>3. InRx' BY DEF RxInv, InRx
<1> QED BY <1>1, <1>2, <1>3 DEF RxInv

\* The peer learns the window of the SYN.
LEMMA PeerSynRx ==
  ASSUME Typed, RxInv, NEW m \in toPeer, PeerSyn(m)
  PROVE  RxInv'
<1>1. /\ UNCHANGED <<s, call, asked, done, got>> /\ toPeer' \subseteq toPeer
      /\ peer.state = "LISTEN" => peer'.edge = m.win /\ peer'.una = peer.una
      /\ peer.state # "LISTEN" => peer' = peer
  BY PeerSynIs
<1>2. PICK f \in {{"RST"}, {"SYN", "ACK"}}, len \in 0..1 :
        /\ len <= NIn /\ (f = {"RST"} => len = 0)
        /\ toUs' \subseteq toUs \cup {InSeg(IRS, f, 0, len, peer'.rcv)}
  BY PeerSynIs
<1>3. PeerRx'
  <2>1. CASE peer.state = "LISTEN"
    <3>1. m.win <= Ring /\ m.win \in Nat BY Zenon DEF RxInv, OutRx, Typed, OutSegs
    <3>2. m.win <= Len(got) + Ring BY <3>1, Lengths, Sizes
    <3> QED BY <1>1, <2>1, <3>2 DEF PeerRx
  <2>2. CASE peer.state # "LISTEN" BY <1>1, <2>2 DEF RxInv, PeerRx
  <2> QED BY <2>1, <2>2
<1>4. FromPeer(InSeg(IRS, f, 0, len, peer'.rcv), Len(got))
  <2>1. CASE f = {"RST"}
    <3>1. "SYN" \notin f /\ "FIN" \notin f /\ ~ (len > 0) BY <1>2, <2>1
    <3> QED BY <3>1 DEF FromPeer, InSeg
  <2>2. CASE f = {"SYN", "ACK"} BY <1>2, <2>2 DEF FromPeer, InSeg
  <2> QED BY <2>1, <2>2
<1> QED BY <1>1, <1>2, <1>3, <1>4, PeerStepRx

\* What the peer counts as acknowledged is what was acknowledged
LEMMA CountedIs ==
  ASSUME NEW m, NEW h, Grants(m, h)
  PROVE  Diff(m.ack, Add(IRS, 1)) <= NIn => Diff(m.ack, Add(IRS, 1)) + m.win <= h + Ring
<1>1. PICK k \in 0..(NIn + 1) : m.ack = Add(IRS, 1 + k) /\ (k <= NIn => k + m.win <= h + Ring)
  BY DEF Grants
<1>2. k \in Nat /\ 0 \in Nat /\ 2 * k < M - 2 /\ 2 * 0 < M - 2 /\ 1 + 0 = 1 /\ k - 0 = k
  BY Sizes
<1>3. Diff(Add(IRS, 1 + k), Add(IRS, 1 + 0)) = k - 0 BY <1>2, Sizes, DiffIs
<1>4. Diff(m.ack, Add(IRS, 1)) = k BY <1>1, <1>2, <1>3
<1> QED BY <1>1, <1>4

\* The peer learns the window of an acknowledgement, a late one among them.
LEMMA PeerRecvRx ==
  ASSUME Typed, RxInv, NEW m \in toPeer, PeerRecv(m)
  PROVE  RxInv'
<1> DEFINE k == Diff(m.ack, Add(IRS, 1))
<1>1. /\ UNCHANGED <<s, call, asked, done, got>> /\ toPeer' \subseteq toPeer
      /\ toUs' \subseteq toUs \cup {InSeg(Add(IRS, 1 + peer'.una), {"ACK"}, 0, 0, peer'.rcv)}
  BY PeerRecvIs, Zenon
<1>2. \/ peer'.una = peer.una /\ peer'.edge = peer.edge
      \/ /\ "ACK" \in m.flags /\ k \in 0..(NIn + 1)
         /\ peer'.una = Max({peer.una, k}) /\ peer'.edge = Max({peer.edge, k + m.win})
  BY PeerRecvIs, Zenon
<1>3. PeerRx'
  <2>1. CASE peer'.una = peer.una /\ peer'.edge = peer.edge BY <1>1, <2>1 DEF RxInv, PeerRx
  <2>2. CASE /\ "ACK" \in m.flags /\ k \in 0..(NIn + 1)
             /\ peer'.una = Max({peer.una, k}) /\ peer'.edge = Max({peer.edge, k + m.win})
    <3>1. Grants(m, Len(got)) BY <2>2 DEF RxInv, OutRx
    <3>2. k <= NIn => k + m.win <= Len(got) + Ring BY <3>1, CountedIs
    <3> HIDE DEF k
    <3>3. peer.una \in Nat /\ peer.edge \in Nat /\ m.win \in Nat BY Zenon DEF Typed, Peer, OutSegs
    <3>4. peer.una \in Int /\ k \in Int /\ peer.edge \in Int /\ k + m.win \in Int
      BY <2>2, <3>3, Sizes
    <3>5. peer'.una >= peer.una /\ peer'.una >= k /\ peer'.una \in {peer.una, k}
      BY <2>2, <3>4, MaxIs, ZenonT(40)
    <3>6. peer'.edge \in {peer.edge, k + m.win} BY <2>2, <3>4, MaxIs, Zenon
    <3>7. peer.una <= NIn => peer.edge <= Len(got) + Ring BY DEF RxInv, PeerRx
    <3>8. ASSUME peer'.una <= NIn PROVE peer'.edge <= Len(got) + Ring
      BY <3>2, <3>3, <3>4, <3>5, <3>6, <3>7, <3>8, Sizes, SMTT(30)
    <3> QED BY <1>1, <3>8 DEF PeerRx
  <2> QED BY <1>2, <2>1, <2>2
<1>4. FromPeer(InSeg(Add(IRS, 1 + peer'.una), {"ACK"}, 0, 0, peer'.rcv), Len(got))
  BY DEF FromPeer, InSeg
<1> QED BY <1>1, <1>3, <1>4, PeerStepRx

\* The peer sends inside the window.
LEMMA PeerSendRx ==
  ASSUME Typed, RxInv, NEW at \in 0..NIn, NEW len \in 0..MSS, NEW fin \in BOOLEAN,
         PeerSend(at, len, fin), ~ Probes
  PROVE  RxInv'
<1>1. /\ UNCHANGED <<s, call, asked, done, got, peer, toPeer>>
      /\ at >= peer.una /\ at + len <= NIn /\ at + len <= peer.edge
  BY PeerSendIs
<1>2. PICK f \in {{"ACK"}, {"ACK", "FIN"}} :
        /\ f = {"ACK", "FIN"} => at + len = NIn
        /\ toUs' \subseteq toUs \cup {InSeg(Add(IRS, 1 + at), f, at, len, peer.rcv)}
  BY PeerSendIs
<1>3. PeerRx' BY <1>1 DEF RxInv, PeerRx
<1>4. FromPeer(InSeg(Add(IRS, 1 + at), f, at, len, peer.rcv), Len(got))
  <2>1. peer.una \in Nat /\ peer.edge \in Nat /\ MSS \in Nat BY TcpAssumption, Zenon DEF Typed, Peer
  <2>2. peer.una <= NIn BY <1>1, <2>1, Sizes
  <2>3. peer.edge <= Len(got) + Ring BY <2>2 DEF RxInv, PeerRx
  <2>4. at + len <= Len(got) + Ring BY <1>1, <2>1, <2>3, Lengths, Sizes
  <2>5. "SYN" \notin f /\ ("FIN" \in f => f = {"ACK", "FIN"}) BY <1>2
  <2> QED BY <1>1, <1>2, <2>4, <2>5 DEF FromPeer, InSeg
<1> QED BY <1>1, <1>2, <1>3, <1>4, PeerStepRx

\* tcp_send() starts.
LEMMA SendStartRx ==
  ASSUME Typed, RxInv, NEW len \in 1..NOut, SendStart(len)
  PROVE  RxInv'
<1>1. /\ s.state = "ESTABLISHED" /\ asked + len <= NOut /\ Chunk(len)
      /\ UNCHANGED <<done, got, peer, toUs>>
  BY DEF SendStart
<1>2. done \in Nat /\ done <= asked BY Zenon DEF Typed
<1>3. len \in Nat /\ len > 0 BY Sizes
<1>4. done' \in Nat /\ done' <= asked BY <1>1, <1>2
<1> QED BY <1>1, <1>3, <1>4, ChunkRx

\* The last chunk is acknowledged: tcp_send() returns
SendDone == /\ call.op = "send" /\ s.txLen = 0 /\ done' = asked
            /\ call' = Idle /\ UNCHANGED <<s, asked, toPeer, got, peer, toUs>>

\* A chunk is acknowledged and another follows
SendMore == /\ call.op = "send" /\ s.txLen = 0 /\ done' = asked /\ call.left > 0
            /\ call.left \in Nat /\ asked + call.left <= NOut
            /\ Chunk(call.left) /\ UNCHANGED <<got, peer, toUs>>

\* tcp_send() after an acknowledgement.
LEMMA SendOnIs ==
  ASSUME Typed, SendOn
  PROVE  SendDone \/ SendMore
<1>1. call.op \in SendCalls /\ call.left \in Nat BY DEF Typed, SendOn, SendCalls
<1>2. asked + call.left <= NOut BY <1>1, Zenon DEF Typed
<1> QED BY <1>1, <1>2 DEF SendOn, SendDone, SendMore

\* tcp_send() returns.
LEMMA SendDoneTyped ==
  ASSUME Typed, SendDone
  PROVE  Typed'
<1>1. Idle \in [op : Calls, left : Nat] /\ Idle.op = "none" BY DEF Idle, Calls
<1>2. asked \in Nat BY Zenon DEF Typed
<1>3. asked <= asked BY <1>2
<1> QED BY <1>1, <1>2, <1>3 DEF Typed, SendDone, SendCalls

\* tcp_send() goes on.
LEMMA SendOnRx ==
  ASSUME Typed, RxInv, SendOn
  PROVE  RxInv'
<1>1. CASE SendDone
  <2>1. SockRx' BY <1>1 DEF SendDone, RxInv, SockRx, Idle, SendCalls
  <2>2. OutRx' /\ PeerRx' /\ InRx' BY <1>1 DEF SendDone, RxInv, OutRx, PeerRx, InRx
  <2> QED BY <2>1, <2>2 DEF RxInv
<1>2. CASE SendMore
  <2>1. asked \in Nat BY Zenon DEF Typed
  <2>2. done' \in Nat /\ done' <= asked BY <1>2, <2>1 DEF SendMore
  <2>3. s.txFlags # {} BY <1>2 DEF SendMore, RxInv, SockRx, SendCalls
  <2> QED BY <1>2, <2>2, <2>3, ChunkRx DEF SendMore
<1> QED BY <1>1, <1>2, SendOnIs

\* The initial state.
LEMMA InitRx == Init => RxInv
<1> SUFFICES ASSUME Init PROVE RxInv OBVIOUS
<1>1. s.rx = <<>> /\ got = <<>> /\ s.iss = M /\ s.state = "CLOSED" /\ ~ s.fin
      /\ s.txFlags = {} /\ call.op = "none" /\ peer.edge = 0 /\ peer.una = 0
      /\ toPeer = {} /\ toUs = {}
  BY DEF Init, Idle
<1>2. <<>> \o <<>> = <<>> /\ Len(<<>>) = 0 /\ 0 + 0 = 0 /\ 0 <= NIn /\ 0 <= 0 + Ring /\ ~ (0 > 0)
  BY Sizes
<1>3. Prefix(<<>>) BY DEF Prefix
<1>4. SockRx BY <1>1, <1>2, <1>3 DEF SockRx, SendCalls
<1>5. OutRx /\ InRx BY <1>1 DEF OutRx, InRx
<1>6. PeerRx BY <1>1, <1>2 DEF PeerRx
<1> QED BY <1>4, <1>5, <1>6 DEF RxInv

\* Every step keeps the types.
LEMMA TypedStep == Typed /\ [Next]_vars => Typed'
<1> SUFFICES ASSUME Typed, [Next]_vars PROVE Typed' OBVIOUS
<1>1. CASE \E m \in toUs : Receive(m) BY <1>1, ReceiveTyped
<1>2. CASE Arm \/ ConnectExpire \/ ConnectAgain \/ ConnectReturn
  BY <1>2, ArmIs, ConnectExpireIs, ConnectAgainIs, ConnectReturnIs
<1>3. CASE SendLost \/ PollExpire \/ PollAgain \/ CloseRetry \/ CloseReturn \/ SocketClose
  BY <1>3, SendLostIs, PollExpireIs, PollAgainIs, CloseRetryIs, CloseReturnIs, SocketCloseIs
<1>4. CASE Connect BY <1>4, ConnectIs, Zenon
<1>5. CASE Close BY <1>5, CloseIs, Zenon
<1>6. CASE \E max \in 1..Ring : Recv(max) BY <1>6, RecvIs
<1>7. CASE \E len \in 1..NOut : SendStart(len)
  <2>1. PICK len \in 1..NOut : SendStart(len) BY <1>7
  <2>2. asked + len <= NOut /\ Chunk(len) /\ UNCHANGED <<done, got, peer, toUs>>
    BY <2>1 DEF SendStart
  <2>3. done \in Nat /\ done <= asked BY Zenon DEF Typed
  <2>4. len \in Nat /\ len > 0 BY Sizes
  <2>5. done' \in Nat /\ done' <= asked BY <2>2, <2>3
  <2> QED BY <2>2, <2>4, <2>5, ChunkIs, Zenon
<1>8. CASE SendOn
  <2>1. CASE SendDone BY <2>1, SendDoneTyped
  <2>2. CASE SendMore
    <3>1. asked \in Nat BY Zenon DEF Typed
    <3>2. done' \in Nat /\ done' <= asked BY <2>2, <3>1 DEF SendMore
    <3> QED BY <2>2, <3>2, ChunkIs, Zenon DEF SendMore
  <2> QED BY <1>8, <2>1, <2>2, SendOnIs
<1>9. CASE \E m \in toPeer : PeerSyn(m) \/ PeerRecv(m) BY <1>9, PeerSynIs, PeerRecvIs, Zenon
<1>10. CASE \E at \in 0..NIn, len \in 0..MSS, fin \in BOOLEAN : PeerSend(at, len, fin)
  BY <1>10, PeerSendIs
<1>11. CASE UNCHANGED vars BY <1>11, Zenon DEF vars, Typed
<1> QED BY <1>1, <1>2, <1>3, <1>4, <1>5, <1>6, <1>7, <1>8, <1>9, <1>10, <1>11 DEF Next

\* Every step keeps the receiving invariant.
LEMMA RxStep == ~ Probes /\ Typed /\ RxInv /\ [Next]_vars => RxInv'
<1> SUFFICES ASSUME ~ Probes, Typed, RxInv, [Next]_vars PROVE RxInv' OBVIOUS
<1>1. CASE \E m \in toUs : Receive(m) BY <1>1, ReceiveRx
<1>2. CASE Arm \/ ConnectExpire \/ ConnectAgain \/ ConnectReturn
  BY <1>2, ArmIs, ConnectExpireIs, ConnectAgainIs, ConnectReturnIs, QuietRx
<1>3. CASE SendLost \/ PollExpire \/ PollAgain \/ CloseRetry \/ CloseReturn \/ SocketClose
  BY <1>3, SendLostIs, PollExpireIs, PollAgainIs, CloseRetryIs, CloseReturnIs, SocketCloseIs,
     QuietRx
<1>4. CASE Connect BY <1>4, ConnectRx
<1>5. CASE Close BY <1>5, CloseRx
<1>6. CASE \E max \in 1..Ring : Recv(max) BY <1>6, RecvRx
<1>7. CASE \E len \in 1..NOut : SendStart(len) BY <1>7, SendStartRx
<1>8. CASE SendOn BY <1>8, SendOnRx
<1>9. CASE \E m \in toPeer : PeerSyn(m) \/ PeerRecv(m) BY <1>9, PeerSynRx, PeerRecvRx
<1>10. CASE \E at \in 0..NIn, len \in 0..MSS, fin \in BOOLEAN : PeerSend(at, len, fin)
  BY <1>10, PeerSendRx
<1>11. CASE UNCHANGED vars
  BY <1>11 DEF vars, RxInv, SockRx, OutRx, PeerRx, InRx
<1> QED BY <1>1, <1>2, <1>3, <1>4, <1>5, <1>6, <1>7, <1>8, <1>9, <1>10, <1>11 DEF Next

\* Whatever the network does, the socket keeps its shape: its sequence numbers stay in
\* their range, the ring within its size and the retries within TCP_RETRIES.
THEOREM SocketTyped == Spec => []TypeOK
<1>1. Typed => TypeOK
  <2> SUFFICES ASSUME Typed PROVE TypeOK OBVIOUS
  <2>1. /\ s.state \in States /\ s.used \in BOOLEAN /\ s.retries \in 0..Retries
        /\ {s.una, s.nxt, s.rcv} \subseteq 0..(M - 1)
    BY Zenon DEF Typed, Socket, SeqNo
  <2> QED BY <2>1, Zenon DEF Typed, TypeOK
<1> QED BY <1>1, InitTyped, TypedStep, PTL DEF Spec

\* The receiving invariant holds always.
LEMMA RxAlways == ~ Probes => (Spec => [](Typed /\ RxInv))
<1> SUFFICES ASSUME ~ Probes PROVE Spec => [](Typed /\ RxInv) OBVIOUS
<1>1. Init => Typed /\ RxInv BY InitTyped, InitRx
<1>2. (Typed /\ RxInv) /\ [Next]_vars => (Typed /\ RxInv)' BY TypedStep, RxStep
<1> QED BY <1>1, <1>2, PTL DEF Spec

\* From a peer that stays inside the window it was offered, tcp_receive() and tcp_recv()
\* deliver the peer's stream from its beginning, without a gap, a repetition or a swap,
\* over a network that loses, repeats and reorders segments.
THEOREM StreamInOrder == ~ Probes => (Spec => []RxStream)
<1> SUFFICES ASSUME ~ Probes PROVE Spec => []RxStream OBVIOUS
<1>1. Typed /\ RxInv => RxStream BY DEF RxInv, SockRx, RxStream
<1> QED BY <1>1, RxAlways, PTL

----------------------------------------------------------------------------
(* The peer's FIN.                                                         *)

\* The peer's sequence numbers, FIN included, do not pass 2^32
NoWrapIn == IRS + NIn + 2 < M

\* After the FIN of a segment rcv_nxt is behind it.
LEMMA FinTook ==
  ASSUME NoWrapIn, Typed, RxInv, FinCounted, NEW m \in toUs,
         s.state \in {"ESTABLISHED", "FIN_WAIT1", "FIN_WAIT2", "CLOSING"}
  PROVE  WithFin(m).fin => WithFin(m).rcv = Add(IRS, NIn + 2)
<1>1. m \in InSegs /\ m.d \in Nat /\ m.len \in Nat BY Zenon DEF Typed, InSegs
<1>2. CASE "FIN" \notin m.flags
  <2>1. WithFin(m).rcv = Took(m).rcv /\ WithFin(m).fin = s.fin BY <1>1, <1>2, TookIs, Zenon
  <2>2. s.rcv = Add(IRS, NIn + 2) => Took(m).rcv = Add(IRS, NIn + 2) BY TookRx
  <2> QED BY <2>1, <2>2, Zenon DEF FinCounted
<1>3. CASE "FIN" \in m.flags
  <2>1. WithFin(m).rcv \in {Took(m).rcv, Add(m.seq, m.len + 1)}
        /\ WithFin(m).rcv >= Add(m.seq, m.len + 1)
    BY <1>1, <1>3, TookIs, Zenon
  <2>2. m.seq = Add(IRS, 1 + m.d) /\ m.d + m.len = NIn BY <1>3 DEF RxInv, InRx, FromPeer
  <2>3. Add(m.seq, m.len + 1) = Add(IRS, NIn + 2)
    <3>1. /\ 1 + m.d \in Nat /\ m.len + 1 \in Nat /\ (1 + m.d) + (m.len + 1) < M
          /\ (1 + m.d) + (m.len + 1) = NIn + 2
      BY <1>1, <2>2, Sizes
    <3>2. Add(Add(IRS, 1 + m.d), m.len + 1) = Add(IRS, (1 + m.d) + (m.len + 1))
      BY <3>1, AddAdd, Sizes
    <3> QED BY <2>2, <3>1, <3>2
  <2>4. RcvAt(Took(m), Len(got)) /\ Len(got) + Len(Took(m).rx) <= NIn BY TookRx
  <2>5. Took(m).rcv = Add(IRS, NIn + 2) \/ Took(m).rcv < Add(IRS, NIn + 2)
    <3> DEFINE R == Len(got) + Len(Took(m).rx)
    <3>1. R \in Nat
      <4>1. Took(m) \in Socket BY <1>1, TookIs, Zenon
      <4>2. Len(Took(m).rx) \in Nat BY <4>1 DEF Socket, Bytes
      <4> QED BY <4>2, Lengths
    <3>2. CASE Took(m).rcv = Add(IRS, 1 + R)
      <4>1. R <= NIn BY <2>4
      <4> HIDE DEF R
      <4>2. /\ 1 + R \in 0..(M - 1) /\ NIn + 2 \in 0..(M - 1) /\ IRS + (1 + R) < M
            /\ IRS + (NIn + 2) < M /\ IRS + (1 + R) < IRS + (NIn + 2)
        BY <3>1, <4>1, Sizes DEF NoWrapIn
      <4>3. Add(IRS, 1 + R) = IRS + (1 + R) /\ Add(IRS, NIn + 2) = IRS + (NIn + 2)
        BY <4>2, Sizes, AddIs
      <4> QED BY <3>2, <4>2, <4>3
    <3> QED BY <2>4, <3>2 DEF RcvAt
  <2>6. Add(IRS, NIn + 2) \in Int /\ Took(m).rcv \in Int
    <3>1. Took(m) \in Socket BY <1>1, TookIs, Zenon
    <3>2. IRS \in SeqNo /\ NIn + 2 \in Nat BY Sizes DEF SeqNo
    <3>3. Add(IRS, NIn + 2) \in SeqNo BY <3>2, AddTyped
    <3> QED BY <3>1, <3>3, Sizes DEF Socket, SeqNo
  <2> QED BY <2>1, <2>3, <2>5, <2>6
<1> QED BY <1>2, <1>3

\* Every step keeps rcv_nxt there.
LEMMA FinStep == NoWrapIn /\ Typed /\ RxInv /\ FinCounted /\ [Next]_vars => FinCounted'
<1> SUFFICES ASSUME NoWrapIn, Typed, RxInv, FinCounted, [Next]_vars PROVE FinCounted' OBVIOUS
<1>0. s \in Socket BY Zenon DEF Typed
<1>a. ASSUME s'.fin = s.fin, s'.rcv = s.rcv PROVE FinCounted' BY <1>a, Zenon DEF FinCounted
<1>b. ASSUME Quiet PROVE FinCounted' BY <1>a, <1>b DEF Quiet, Kept
<1>c. ASSUME KeptRx PROVE FinCounted' BY <1>a, <1>c DEF KeptRx
<1>1. CASE \E m \in toUs : Receive(m)
  <2>1. PICK m \in toUs : Receive(m) BY <1>1
  <2>2. m \in InSegs BY Zenon DEF Typed
  <2>3. \/ s' = s
        \/ s' = [s EXCEPT !.state = "CLOSED"]
        \/ /\ s.state = "SYN_SENT"
           /\ s' = [Pushed([s EXCEPT !.una = m.ack, !.state = "ESTABLISHED",
                                     !.armed = FALSE, !.retries = 0], m.d, m.len)
                    EXCEPT !.rcv = Add(m.seq, 1 + m.len)]
        \/ /\ s.state \in {"ESTABLISHED", "FIN_WAIT1", "FIN_WAIT2", "CLOSING"}
           /\ s' = Advanced(WithFin(m))
    BY <2>1, ReceiveIs, Zenon
  <2>4. CASE s' = s BY <1>a, <2>4
  <2>5. CASE s' = [s EXCEPT !.state = "CLOSED"]
    <3>1. s'.fin = s.fin /\ s'.rcv = s.rcv BY <1>0, <2>5 DEF Socket
    <3> QED BY <1>a, <3>1
  <2>6. CASE /\ s.state = "SYN_SENT"
             /\ s' = [Pushed([s EXCEPT !.una = m.ack, !.state = "ESTABLISHED",
                                       !.armed = FALSE, !.retries = 0], m.d, m.len)
                      EXCEPT !.rcv = Add(m.seq, 1 + m.len)]
    <3>1. s'.fin = s.fin BY <2>2, <2>6, EstIs, Zenon
    <3>2. ~ s.fin BY <2>6 DEF RxInv, SockRx
    <3> QED BY <3>1, <3>2, Zenon DEF FinCounted
  <2>7. CASE /\ s.state \in {"ESTABLISHED", "FIN_WAIT1", "FIN_WAIT2", "CLOSING"}
             /\ s' = Advanced(WithFin(m))
    <3>1. s'.fin = WithFin(m).fin /\ s'.rcv = WithFin(m).rcv BY <2>2, <2>7, TookIs, Zenon
    <3>2. WithFin(m).fin => WithFin(m).rcv = Add(IRS, NIn + 2) BY <2>7, FinTook
    <3> QED BY <3>1, <3>2, Zenon DEF FinCounted
  <2> QED BY <2>3, <2>4, <2>5, <2>6, <2>7
<1>2. CASE Arm \/ ConnectExpire \/ ConnectAgain \/ ConnectReturn
  BY <1>2, <1>b, ArmIs, ConnectExpireIs, ConnectAgainIs, ConnectReturnIs
<1>3. CASE SendLost \/ PollExpire \/ PollAgain \/ CloseRetry \/ CloseReturn \/ SocketClose
  BY <1>3, <1>b, SendLostIs, PollExpireIs, PollAgainIs, CloseRetryIs, CloseReturnIs,
     SocketCloseIs
<1>4. CASE Connect BY <1>4, <1>c, ConnectIs, Zenon
<1>5. CASE Close BY <1>5, <1>b, <1>c, CloseIs, Zenon
<1>6. CASE \E max \in 1..Ring : Recv(max)
  <2>1. PICK max \in 1..Ring : Recv(max) BY <1>6
  <2>2. s'.fin = s.fin /\ s'.rcv = s.rcv BY <1>0, <2>1 DEF Recv, Socket
  <2> QED BY <1>a, <2>2
<1>7. CASE \E len \in 1..NOut : SendStart(len)
  <2>1. PICK len \in 1..NOut : SendStart(len) BY <1>7
  <2>2. s'.fin = s.fin /\ s'.rcv = s.rcv BY <1>0, <2>1, Zenon DEF SendStart, Chunk, Socket
  <2> QED BY <1>a, <2>2
<1>8. CASE SendOn
  <2>1. s'.fin = s.fin /\ s'.rcv = s.rcv BY <1>0, <1>8, ZenonT(40) DEF SendOn, Chunk, Socket
  <2> QED BY <1>a, <2>1
<1>9. CASE \E m \in toPeer : PeerSyn(m) \/ PeerRecv(m) BY <1>9, <1>a, Zenon DEF PeerSyn, PeerRecv
<1>10. CASE \E at \in 0..NIn, len \in 0..MSS, fin \in BOOLEAN : PeerSend(at, len, fin)
  BY <1>10, <1>a DEF PeerSend
<1>11. CASE UNCHANGED vars BY <1>a, <1>11 DEF vars
<1> QED BY <1>1, <1>2, <1>3, <1>4, <1>5, <1>6, <1>7, <1>8, <1>9, <1>10, <1>11 DEF Next

\* Once tcp_receive() has seen the peer's FIN, rcv_nxt is the number after it and stays
\* there, whatever the peer sends again: as long as the peer's sequence numbers do not
\* wrap, for tcp_receive() compares that one as plain unsigned numbers.
THEOREM FinStays == ~ Probes /\ NoWrapIn => (Spec => []FinCounted)
<1> SUFFICES ASSUME ~ Probes, NoWrapIn PROVE Spec => []FinCounted OBVIOUS
<1>1. Init => FinCounted BY DEF Init, FinCounted
<1>2. Typed /\ RxInv /\ FinCounted /\ [Next]_vars => FinCounted' BY FinStep
<1> QED BY <1>1, <1>2, RxAlways, PTL DEF Spec

\* Then what the peer sends again lies behind rcv_nxt.
LEMMA FinBehind == ASSUME Typed, RxInv, FinCounted PROVE FinLast
<1> SUFFICES ASSUME s.fin, NEW m \in toUs
             PROVE  /\ m.len > 0 => Diff(Add(m.seq, m.len), s.rcv) < 0
                    /\ "FIN" \in m.flags => Add(m.seq, m.len + 1) = s.rcv
  BY Zenon DEF FinLast
<1>1. m.d \in Nat /\ m.len \in Nat BY Zenon DEF Typed, InSegs
<1>2. s.rcv = Add(IRS, 1 + (NIn + 1))
  <2>1. NIn + 2 = 1 + (NIn + 1) BY Sizes
  <2> QED BY <2>1 DEF FinCounted
<1>3. FromPeer(m, Len(got)) BY DEF RxInv, InRx
<1>4. ASSUME NEW k \in 0..NIn, Add(m.seq, m.len) = Add(IRS, 1 + k)
      PROVE  Diff(Add(m.seq, m.len), s.rcv) < 0
  <2>1. 2 * k < M - 2 /\ 2 * (NIn + 1) < M - 2 /\ k \in Nat /\ NIn + 1 \in Nat BY Sizes
  <2>2. Diff(Add(IRS, 1 + k), Add(IRS, 1 + (NIn + 1))) = k - (NIn + 1) BY <2>1, DiffIs, Sizes
  <2>3. k - (NIn + 1) < 0 BY Sizes
  <2> QED BY <1>2, <1>4, <2>2, <2>3
<1>5. CASE "SYN" \in m.flags
  <2>1. m.seq = IRS /\ m.len <= 1 /\ "FIN" \notin m.flags BY <1>3, <1>5 DEF FromPeer
  <2>2. m.len > 0 => m.len = 1 + 0 /\ 0 \in 0..NIn BY <1>1, <2>1, Sizes
  <2> QED BY <1>4, <2>1, <2>2
<1>6. CASE "SYN" \notin m.flags
  <2>1. ASSUME m.seq = Add(IRS, 1 + m.d), m.d + m.len <= NIn, NEW n \in {0, 1}
        PROVE  Add(m.seq, m.len + n) = Add(IRS, 1 + (m.d + m.len + n))
    <3>1. /\ 1 + m.d \in Nat /\ m.len + n \in Nat /\ (1 + m.d) + (m.len + n) < M
          /\ (1 + m.d) + (m.len + n) = 1 + (m.d + m.len + n)
      BY <1>1, <2>1, Sizes
    <3>2. Add(Add(IRS, 1 + m.d), m.len + n) = Add(IRS, (1 + m.d) + (m.len + n))
      BY <3>1, AddAdd, Sizes
    <3> QED BY <2>1, <3>1, <3>2
  <2>2. m.len > 0 => Diff(Add(m.seq, m.len), s.rcv) < 0
    <3> SUFFICES ASSUME m.len > 0 PROVE Diff(Add(m.seq, m.len), s.rcv) < 0 OBVIOUS
    <3>1. m.seq = Add(IRS, 1 + m.d) /\ m.d + m.len <= NIn BY <1>3, <1>6 DEF FromPeer
    <3>2. Add(m.seq, m.len + 0) = Add(IRS, 1 + (m.d + m.len + 0)) BY <2>1, <3>1
    <3>3. m.len + 0 = m.len /\ m.d + m.len + 0 \in 0..NIn BY <1>1, <3>1, Sizes
    <3> QED BY <1>4, <3>2, <3>3
  <2>3. "FIN" \in m.flags => Add(m.seq, m.len + 1) = s.rcv
    <3> SUFFICES ASSUME "FIN" \in m.flags PROVE Add(m.seq, m.len + 1) = s.rcv OBVIOUS
    <3>1. m.seq = Add(IRS, 1 + m.d) /\ m.d + m.len = NIn BY <1>3, <1>6 DEF FromPeer
    <3>2. m.d + m.len <= NIn /\ m.d + m.len + 1 = NIn + 1 BY <1>1, <3>1, Sizes
    <3> QED BY <1>2, <2>1, <3>1, <3>2
  <2> QED BY <2>2, <2>3
<1> QED BY <1>5, <1>6

\* What tcp_receive() and tcp_recv() make of a network that loses, repeats and reorders
\* segments: the peer's stream from its beginning, and an end behind which nothing the peer
\* sends again counts.
THEOREM ReceivedRight == ~ Probes /\ NoWrapIn => (Spec => []StreamReceived)
<1> SUFFICES ASSUME ~ Probes, NoWrapIn PROVE Spec => []StreamReceived OBVIOUS
<1>1. Typed /\ RxInv /\ FinCounted => FinLast BY FinBehind
<1> QED BY <1>1, SocketTyped, StreamInOrder, FinStays, RxAlways, PTL DEF StreamReceived
=============================================================================
