----------------------------- MODULE NetProofs -----------------------------
(***************************************************************************)
(* Theorems about the smaller parts of the network: the rings of the       *)
(* network card (E1000), the download of a file (Tftp) and the tables of   *)
(* sockets (Sockets), for every value of their constants.                  *)
(***************************************************************************)
EXTENDS E1000, Tftp, Sockets, TLAPS

-----------------------------------------------------------------------------
(* E1000: rings of any size and any number of frames.                       *)

Rings == NTx \in Nat \ {0} /\ NRx \in Nat \ {0} /\ Sends \in Nat /\ Arrivals \in Nat

\* The distance from descriptor a to descriptor i of a ring of n.
Gap(a, i, n) == IF i >= a THEN i - a ELSE i - a + n

\* The descriptor after x, in the form without a remainder.
After(x, n) == IF x = n - 1 THEN 0 ELSE x + 1

OnWire(f) == \E i \in 1 .. Len(wire) : wire[i] = f
HandedUp(f) == \E i \in 1 .. Len(up) : up[i] = f

\* TX: c descriptors from TDH on are with the controller, up to TDT; c is 0 or the whole
\* ring when the two are equal.
TxWindow(c) ==
    /\ tail = IF nic + c >= NTx THEN nic + c - NTx ELSE nic + c
    /\ \A i \in Tx : ~dd[i] <=> Gap(nic, i, NTx) < c

\* The frames of the window are in order behind those that left, and the send that waits
\* waits for its own.
TxInv ==
    /\ \E c \in 0 .. NTx : TxWindow(c)
    /\ wire \in Seq(Nat) /\ frame \in 0 .. Sends
    /\ \A i \in 1 .. Len(wire) : wire[i] <= frame
    /\ \A i \in Tx : ~dd[i] => buf[i] <= frame
    /\ \A i \in 1 .. Len(wire), j \in Tx : ~dd[j] => wire[i] < buf[j]
    /\ \A i, j \in Tx : ~dd[i] /\ ~dd[j] /\ Gap(nic, i, NTx) < Gap(nic, j, NTx) => buf[i] < buf[j]
    /\ pc = "wait" => OnWire(frame) \/ (~dd[idx] /\ buf[idx] = frame)

\* RX: the descriptors from rx_head up to RDH are filled, and RDT is one behind rx_head.
\* Every frame that arrived was lost, was handed up or is in a filled descriptor.
RxInv ==
    /\ rtail = IF head = 0 THEN NRx - 1 ELSE head - 1
    /\ \A i \in Rx : rdd[i] <=> Gap(head, i, NRx) < Gap(head, rnic, NRx)
    /\ up \in Seq(Nat) /\ arrived \in 0 .. Arrivals /\ lost \subseteq 1 .. arrived
    /\ \A i \in 1 .. Len(up) : up[i] \in 1 .. arrived
    /\ \A i \in Rx : rdd[i] => rbuf[i] \in 1 .. arrived
    /\ \A f \in 1 .. arrived : f \notin lost <=> HandedUp(f) \/ \E i \in Rx : rdd[i] /\ rbuf[i] = f
    /\ \A i \in 1 .. Len(up), j \in Rx : rdd[j] => up[i] < rbuf[j]
    /\ \A i, j \in Rx : rdd[i] /\ rdd[j] /\ Gap(head, i, NRx) < Gap(head, j, NRx) => rbuf[i] < rbuf[j]
    /\ \A i, j \in 1 .. Len(up) : i < j => up[i] < up[j]

\* The inductive invariant.
RingInv == TypeOK /\ TxInv /\ WireExact /\ OkIsSent /\ RxInv

LEMMA Around ==
    ASSUME NEW n \in Nat \ {0}, NEW x \in 0 .. n - 1
    PROVE  (x + 1) % n = After(x, n) /\ After(x, n) \in 0 .. n - 1
BY SMTT(30) DEF After

\* Distances on a ring.
LEMMA Distance ==
    ASSUME NEW n \in Nat \ {0}, NEW a \in 0 .. n - 1, NEW i \in 0 .. n - 1
    PROVE  /\ Gap(a, i, n) \in 0 .. n - 1 /\ (Gap(a, i, n) = 0 <=> i = a)
           /\ \A j \in 0 .. n - 1 : Gap(a, i, n) = Gap(a, j, n) => i = j
           /\ i # a => Gap(After(a, n), i, n) = Gap(a, i, n) - 1
           /\ Gap(After(a, n), a, n) = n - 1
           /\ Gap(a, i, n) < n - 1 => Gap(a, After(i, n), n) = Gap(a, i, n) + 1
BY DEF Gap, After

LEMMA RingInit == ASSUME Rings, Init PROVE RingInv
<1>1. TypeOK /\ WireExact /\ OkIsSent
  BY DEF Rings, Init, TypeOK, WireExact, OkIsSent, Tx, Rx
<1>2. TxInv
  <2>1. TxWindow(0)
    BY DEF Rings, Init, TxWindow, Gap, Tx
  <2> QED BY <2>1 DEF Rings, Init, TxInv, Tx
<1>3. RxInv
  BY DEF Rings, Init, RxInv, Gap, Rx, HandedUp
<1> QED BY <1>1, <1>2, <1>3, Zenon DEF RingInv

\* The two halves do not meet.
LEMMA TxAlone ==
    ASSUME RingInv, UNCHANGED rxvars, TxInv', WireExact', OkIsSent', pc' \in {"idle", "wait"},
           dd' \in [Tx -> BOOLEAN], buf' \in [Tx -> 0 .. Sends], {tail', nic', idx'} \subseteq Tx
    PROVE  RingInv'
<1>1. RxInv'
  BY Zenon DEF RingInv, rxvars, RxInv, HandedUp, Rx
<1>2. TypeOK'
  BY Zenon DEF RingInv, rxvars, TypeOK, Rx, Tx
<1> QED BY <1>1, <1>2, Zenon DEF RingInv

LEMMA RxAlone ==
    ASSUME RingInv, UNCHANGED txvars, RxInv', poll' \in BOOLEAN,
           rdd' \in [Rx -> BOOLEAN], rbuf' \in [Rx -> 0 .. Arrivals], {head', rtail', rnic'} \subseteq Rx
    PROVE  RingInv'
<1>1. TxInv' /\ WireExact' /\ OkIsSent'
  BY Zenon DEF RingInv, txvars, TxInv, TxWindow, WireExact, OkIsSent, OnWire, Tx
<1>2. TypeOK'
  BY Zenon DEF RingInv, txvars, TypeOK, Rx, Tx
<1> QED BY <1>1, <1>2, Zenon DEF RingInv

\* e1000_send fills the descriptor at TDT.
LEMMA SendKeeps == ASSUME Rings, RingInv, Send PROVE RingInv'
<1>1. /\ tail \in Tx /\ nic \in Tx /\ NTx \in Nat \ {0} /\ dd \in [Tx -> BOOLEAN] /\ buf \in [Tx -> 0 .. Sends]
      /\ frame \in 0 .. Sends - 1 /\ Sends \in Nat
  BY DEF Rings, RingInv, TypeOK, TxInv, Send
<1>2. PICK c \in 0 .. NTx : TxWindow(c)
  BY Zenon DEF RingInv, TxInv
<1>3. c \in 0 .. NTx - 1 /\ Gap(nic, tail, NTx) = c
  <2>1. dd[tail]
    BY Zenon DEF Send, Free
  <2> QED BY <2>1, <1>1, <1>2 DEF TxWindow, Gap, Tx
<1>4. tail' = After(tail, NTx) /\ tail' \in Tx
  <2>1. tail' = (tail + 1) % NTx
    BY Zenon DEF Send, NextTx
  <2> QED BY <1>1, <2>1, Around, Zenon DEF Tx
<1>5. \A i \in Tx : (~dd'[i] <=> i = tail \/ ~dd[i]) /\ buf'[i] = IF i = tail THEN frame + 1 ELSE buf[i]
  BY <1>1, Zenon DEF Send
<1>6. frame' = frame + 1 /\ UNCHANGED <<nic, wire, ok>> /\ idx' = tail /\ pc' = "wait" /\ filled' = filled \cup {frame + 1}
  BY Zenon DEF Send
<1>7. TxWindow(c + 1)'
  <2>1. tail' = IF nic + (c + 1) >= NTx THEN nic + (c + 1) - NTx ELSE nic + (c + 1)
    BY <1>1, <1>2, <1>3, <1>4 DEF TxWindow, Tx, After, Gap
  <2>2. \A i \in Tx : Gap(nic, i, NTx) = c <=> i = tail
    BY <1>1, <1>3 DEF Tx, Gap
  <2>3. \A i \in Tx : Gap(nic, i, NTx) \in Int
    BY <1>1, Distance DEF Tx
  <2>4. \A i \in Tx : ~dd'[i] <=> Gap(nic, i, NTx) < c + 1
    BY <1>2, <1>3, <1>5, <2>2, <2>3 DEF TxWindow
  <2> QED BY <1>6, <2>1, <2>4, Zenon DEF TxWindow, Tx
<1>8. \A i \in Tx : ~dd[i] => i # tail /\ buf[i] <= frame /\ Gap(nic, i, NTx) < c
  <2>1. dd[tail]
    BY Zenon DEF Send, Free
  <2> QED BY <2>1, <1>2, Zenon DEF TxWindow, RingInv, TxInv
<1>9. TxInv'
  <2>1. \E b \in 0 .. NTx : TxWindow(b)'
    BY <1>1, <1>3, <1>7
  <2>2. \A i \in 1 .. Len(wire) : wire[i] \in Nat /\ wire[i] <= frame
    BY DEF RingInv, TxInv
  <2>3. \A i \in 1 .. Len(wire') : wire'[i] <= frame'
    BY <1>1, <1>6, <2>2
  <2>4. \A i \in Tx : ~dd'[i] => buf'[i] <= frame'
    BY <1>1, <1>5, <1>6, <1>8
  <2>5. \A i \in 1 .. Len(wire), j \in Tx : ~dd'[j] => wire[i] < buf'[j]
    <3> SUFFICES ASSUME NEW i \in 1 .. Len(wire), NEW j \in Tx, ~dd'[j] PROVE wire[i] < buf'[j]
      BY Zenon
    <3>1. CASE j = tail
      BY <1>1, <1>5, <2>2, <3>1
    <3>2. CASE j # tail
      BY <1>5, <3>2, Zenon DEF RingInv, TxInv
    <3> QED BY <3>1, <3>2, Zenon
  <2>6. \A i, j \in Tx : ~dd'[i] /\ ~dd'[j] /\ Gap(nic, i, NTx) < Gap(nic, j, NTx) => buf'[i] < buf'[j]
    <3> SUFFICES ASSUME NEW i \in Tx, NEW j \in Tx, ~dd'[i], ~dd'[j], Gap(nic, i, NTx) < Gap(nic, j, NTx)
                 PROVE  buf'[i] < buf'[j]
      BY Zenon
    <3>1. i # tail
      <4> SUFFICES ASSUME i = tail PROVE FALSE
        BY Zenon
      <4>1. Gap(nic, j, NTx) \in Int /\ Gap(nic, j, NTx) > c
        BY <1>1, <1>3, Distance DEF Tx
      <4>2. Gap(nic, j, NTx) <= c
        BY <1>3, <1>5, <1>8, <4>1
      <4> QED BY <4>1, <4>2, <1>3
    <3>2. CASE j = tail
      BY <1>1, <1>5, <1>8, <3>1, <3>2
    <3>3. CASE j # tail
      BY <1>5, <3>1, <3>3, Zenon DEF RingInv, TxInv
    <3> QED BY <3>2, <3>3, Zenon
  <2>7. ~dd'[idx'] /\ buf'[idx'] = frame'
    BY <1>1, <1>5, <1>6, Zenon
  <2> QED BY <1>1, <1>6, <2>1, <2>3, <2>4, <2>5, <2>6, <2>7 DEF RingInv, TxInv, Tx
<1>10. WireExact'
  <2>1. \A i \in Tx : ~dd[i] => ~dd'[i] /\ buf'[i] = buf[i]
    BY <1>5, <1>8, Zenon
  <2>2. \E i \in Tx : ~dd'[i] /\ buf'[i] = frame + 1
    BY <1>1, <1>5, Zenon
  <2> QED BY <1>6, <2>1, <2>2 DEF RingInv, WireExact, Tx
<1>11. OkIsSent'
  BY <1>6, Zenon DEF RingInv, OkIsSent
<1>12. /\ dd' \in [Tx -> BOOLEAN] /\ buf' \in [Tx -> 0 .. Sends] /\ {tail', nic', idx'} \subseteq Tx /\ UNCHANGED rxvars
  <2>1. frame + 1 \in 0 .. Sends
    BY <1>1
  <2> QED BY <1>1, <1>4, <1>6, <2>1, Zenon DEF Send
<1> QED BY <1>6, <1>9, <1>10, <1>11, <1>12, TxAlone, Zenon

\* The other steps of e1000_send move no descriptor.
LEMMA CallKeeps == ASSUME Rings, RingInv, Busy \/ Sent \/ TxTimeout PROVE RingInv'
<1>1. /\ UNCHANGED <<dd, buf, tail, nic, idx, wire, filled, rxvars>>
      /\ frame \in 0 .. Sends /\ frame' \in frame .. Sends
      /\ pc' = "idle" /\ pc' \in {"idle", "wait"}
  BY DEF Busy, Sent, TxTimeout, RingInv, TxInv, Rings
<1>2. OkIsSent'
  <2>1. CASE Sent
    <3>1. OnWire(frame)
      BY <2>1, Zenon DEF Sent, Done, RingInv, TxInv
    <3> QED BY <2>1, <3>1, Zenon DEF Sent, RingInv, OkIsSent, OnWire
  <2>2. CASE Busy \/ TxTimeout
    BY <2>2, Zenon DEF Busy, TxTimeout, RingInv, OkIsSent
  <2> QED BY <2>1, <2>2, Zenon
<1>3. WireExact'
  BY <1>1, Zenon DEF RingInv, WireExact, Tx
<1>4. TxInv'
  <2>1. \E c \in 0 .. NTx : TxWindow(c)'
    BY <1>1, Zenon DEF RingInv, TxInv, TxWindow, Tx
  <2>2. (\A i \in 1 .. Len(wire) : wire[i] <= frame') /\ (\A i \in Tx : ~dd[i] => buf[i] <= frame')
    <3>1. \A i \in 1 .. Len(wire) : wire[i] \in Nat /\ wire[i] <= frame
      BY DEF RingInv, TxInv
    <3>2. \A i \in Tx : ~dd[i] => buf[i] \in Int /\ buf[i] <= frame
      BY DEF RingInv, TxInv, TypeOK
    <3> QED BY <1>1, <3>1, <3>2
  <2>3. frame' \in 0 .. Sends
    BY <1>1
  <2> QED BY <1>1, <2>1, <2>2, <2>3, Zenon DEF RingInv, TxInv, Tx
<1> QED BY <1>1, <1>2, <1>3, <1>4, TxAlone, Zenon DEF RingInv, TypeOK

\* The controller sends the frame at TDH and gives the descriptor back.
LEMMA NicSendKeeps == ASSUME Rings, RingInv, NicSend PROVE RingInv'
<1>1. /\ tail \in Tx /\ nic \in Tx /\ NTx \in Nat \ {0} /\ dd \in [Tx -> BOOLEAN] /\ buf \in [Tx -> 0 .. Sends]
      /\ wire \in Seq(Nat) /\ frame \in 0 .. Sends
  BY Zenon DEF Rings, RingInv, TypeOK, TxInv
<1>2. PICK c \in 0 .. NTx : TxWindow(c)
  BY Zenon DEF RingInv, TxInv
<1>3. c \in 1 .. NTx - 1 /\ ~dd[nic] /\ buf[nic] \in Nat
  <2>1. c \in 1 .. NTx - 1
    BY <1>1, <1>2 DEF NicSend, TxWindow, Tx
  <2>2. Gap(nic, nic, NTx) = 0
    BY <1>1 DEF Gap, Tx
  <2> QED BY <2>1, <2>2, <1>1, <1>2 DEF TxWindow
<1>4. nic' = After(nic, NTx) /\ nic' \in Tx
  <2>1. nic' = (nic + 1) % NTx
    BY Zenon DEF NicSend
  <2> QED BY <1>1, <2>1, Around DEF Tx
<1>5. \A i \in Tx : ~dd'[i] <=> i # nic /\ ~dd[i]
  BY <1>1, Zenon DEF NicSend
<1>6. UNCHANGED <<buf, tail, pc, idx, frame, filled, ok, rxvars>> /\ wire' = Append(wire, buf[nic])
  BY Zenon DEF NicSend
<1>7. \A i \in Tx : /\ Gap(nic, i, NTx) \in 0 .. NTx - 1
                    /\ i # nic => Gap(nic, i, NTx) > 0 /\ Gap(nic', i, NTx) = Gap(nic, i, NTx) - 1
                    /\ Gap(nic', nic, NTx) = NTx - 1
  BY <1>1, <1>4 DEF Tx, Gap, After
<1>8. /\ wire' \in Seq(Nat) /\ Len(wire') = Len(wire) + 1 /\ Len(wire) \in Nat
      /\ \A i \in 1 .. Len(wire) : wire'[i] = wire[i] /\ wire[i] \in Nat
      /\ wire'[Len(wire) + 1] = buf[nic]
  BY <1>1, <1>3, <1>6
<1>9. TxWindow(c - 1)'
  <2>1. tail' = IF nic' + (c - 1) >= NTx THEN nic' + (c - 1) - NTx ELSE nic' + (c - 1)
    BY <1>1, <1>2, <1>3, <1>4, <1>6, SMTT(30) DEF TxWindow, Tx, After
  <2>2. \A i \in Tx : ~dd'[i] <=> Gap(nic', i, NTx) < c - 1
    <3> SUFFICES ASSUME NEW i \in Tx PROVE ~dd'[i] <=> Gap(nic', i, NTx) < c - 1
      BY Zenon
    <3>1. CASE i = nic
      <4>1. Gap(nic', i, NTx) = NTx - 1
        BY <3>1, <1>1, <1>7, Zenon
      <4>2. ~(NTx - 1 < c - 1)
        BY <1>1, <1>3
      <4> QED BY <3>1, <4>1, <4>2, <1>5, Zenon
    <3>2. CASE i # nic
      <4>1. Gap(nic', i, NTx) < c - 1 <=> Gap(nic, i, NTx) < c
        BY <3>2, <1>3, <1>7
      <4> QED BY <3>2, <4>1, <1>2, <1>5, Zenon DEF TxWindow
    <3> QED BY <3>1, <3>2, Zenon
  <2> QED BY <2>1, <2>2, Zenon DEF TxWindow, Tx
<1>10. \A j \in Tx : ~dd'[j] => ~dd[j] /\ buf[nic] < buf[j]
  <2>1. Gap(nic, nic, NTx) = 0
    BY <1>1 DEF Gap, Tx
  <2>2. \A j \in Tx : ~dd[j] /\ Gap(nic, nic, NTx) < Gap(nic, j, NTx) => buf[nic] < buf[j]
    BY <1>1, <1>3, Zenon DEF RingInv, TxInv
  <2> QED BY <2>1, <2>2, <1>5, <1>7, Zenon
<1>11. \A i \in 1 .. Len(wire') : i \in 1 .. Len(wire) \/ i = Len(wire) + 1
  BY <1>8
<1>12. \A i \in 1 .. Len(wire) : wire[i] <= frame /\ wire[i] < buf[nic]
  BY <1>1, <1>3, Zenon DEF RingInv, TxInv
<1>15. TxInv'
  <2>1. \E b \in 0 .. NTx : TxWindow(b)'
    BY <1>1, <1>3, <1>9
  <2>2. \A i \in 1 .. Len(wire') : wire'[i] <= frame'
    BY <1>1, <1>3, <1>6, <1>8, <1>11, <1>12, Zenon DEF RingInv, TxInv
  <2>3. \A i \in Tx : ~dd'[i] => buf'[i] <= frame'
    BY <1>6, <1>10, Zenon DEF RingInv, TxInv
  <2>4. \A i \in 1 .. Len(wire'), j \in Tx : ~dd'[j] => wire'[i] < buf'[j]
    BY <1>6, <1>8, <1>10, <1>11 DEF RingInv, TxInv
  <2>5. \A i, j \in Tx : ~dd'[i] /\ ~dd'[j] /\ Gap(nic', i, NTx) < Gap(nic', j, NTx) => buf'[i] < buf'[j]
    <3> SUFFICES ASSUME NEW i \in Tx, NEW j \in Tx, ~dd'[i], ~dd'[j], Gap(nic', i, NTx) < Gap(nic', j, NTx)
                 PROVE  buf[i] < buf[j]
      BY <1>6, Zenon
    <3>1. Gap(nic, i, NTx) < Gap(nic, j, NTx)
      BY <1>5, <1>7
    <3> QED BY <1>5, <3>1, Zenon DEF RingInv, TxInv
  <2>6. pc' = "wait" => OnWire(frame)' \/ (~dd'[idx] /\ buf[idx] = frame)
    <3> SUFFICES ASSUME pc = "wait" PROVE OnWire(frame)' \/ (~dd'[idx] /\ buf[idx] = frame)
      BY <1>6, Zenon
    <3>1. CASE OnWire(frame)
      <4>1. PICK i \in 1 .. Len(wire) : wire[i] = frame
        BY <3>1, Zenon DEF OnWire
      <4>2. i \in 1 .. Len(wire') /\ wire'[i] = frame'
        BY <4>1, <1>6, <1>8
      <4> QED BY <4>2, Zenon DEF OnWire
    <3>2. CASE ~dd[idx] /\ buf[idx] = frame /\ idx = nic
      <4>1. Len(wire) + 1 \in 1 .. Len(wire') /\ wire'[Len(wire) + 1] = frame'
        BY <3>2, <1>6, <1>8
      <4> QED BY <4>1, Zenon DEF OnWire
    <3>3. CASE ~dd[idx] /\ buf[idx] = frame /\ idx # nic
      BY <3>3, <1>5, Zenon DEF RingInv, TypeOK
    <3> QED BY <3>1, <3>2, <3>3, Zenon DEF RingInv, TxInv
  <2>7. pc' = "wait" => OnWire(frame)' \/ (~dd'[idx'] /\ buf'[idx'] = frame')
    BY <2>6, <1>6, Zenon
  <2>8. wire' \in Seq(Nat) /\ frame' \in 0 .. Sends
    BY <1>1, <1>6, <1>8, Zenon
  <2> QED BY <2>1, <2>2, <2>3, <2>4, <2>5, <2>7, <2>8, Zenon DEF TxInv, Tx, OnWire
<1>16. WireExact'
  <2>1. \A i, j \in 1 .. Len(wire') : i < j => wire'[i] < wire'[j]
    <3>1. \A i, j \in 1 .. Len(wire) : i < j => wire[i] < wire[j]
      BY Zenon DEF RingInv, WireExact
    <3> SUFFICES ASSUME NEW i \in 1 .. Len(wire'), NEW j \in 1 .. Len(wire'), i < j
                 PROVE  wire'[i] < wire'[j]
      BY Zenon
    <3>2. i \in 1 .. Len(wire) /\ wire'[i] = wire[i]
      <4>1. Len(wire) \in Nat /\ Len(wire') = Len(wire) + 1
        BY <1>8, Zenon
      <4>2. i \in 1 .. Len(wire)
        BY <4>1
      <4> QED BY <4>2, <1>8, Zenon
    <3>3. CASE j \in 1 .. Len(wire)
      <4>1. wire'[j] = wire[j]
        BY <3>3, <1>8, Zenon
      <4> QED BY <3>1, <3>2, <3>3, <4>1, Zenon
    <3>4. CASE j = Len(wire) + 1
      <4>1. wire'[j] = buf[nic]
        BY <3>4, <1>8, Zenon
      <4> QED BY <3>2, <4>1, <1>12, Zenon
    <3> QED BY <3>3, <3>4, <1>11, Zenon
  <2>2. \A f \in filled : (\E i \in 1 .. Len(wire') : wire'[i] = f) \/ \E i \in Tx : ~dd'[i] /\ buf'[i] = f
    <3> SUFFICES ASSUME NEW f \in filled
                 PROVE  (\E i \in 1 .. Len(wire') : wire'[i] = f) \/ \E i \in Tx : ~dd'[i] /\ buf'[i] = f
      BY Zenon
    <3>1. CASE \E i \in 1 .. Len(wire) : wire[i] = f
      <4>1. PICK i \in 1 .. Len(wire) : wire[i] = f
        BY <3>1, Zenon
      <4>2. i \in 1 .. Len(wire') /\ wire'[i] = f
        BY <4>1, <1>8
      <4> QED BY <4>2, Zenon
    <3>2. ASSUME NEW i \in Tx, ~dd[i], buf[i] = f
          PROVE  (\E k \in 1 .. Len(wire') : wire'[k] = f) \/ \E k \in Tx : ~dd'[k] /\ buf'[k] = f
      <4>1. CASE i = nic
        <5>1. Len(wire) + 1 \in 1 .. Len(wire') /\ wire'[Len(wire) + 1] = f
          BY <3>2, <4>1, <1>8
        <5> QED BY <5>1, Zenon
      <4>2. CASE i # nic
        BY <3>2, <4>2, <1>5, <1>6, Zenon
      <4> QED BY <4>1, <4>2, Zenon
    <3> QED BY <3>1, <3>2, Zenon DEF RingInv, WireExact
  <2> QED BY <2>1, <2>2, <1>6, Zenon DEF WireExact, Tx
<1>17. OkIsSent'
  BY <1>6, <1>8 DEF RingInv, OkIsSent
<1>18. dd' \in [Tx -> BOOLEAN] /\ buf' \in [Tx -> 0 .. Sends] /\ {tail', nic', idx'} \subseteq Tx /\ pc' \in {"idle", "wait"}
  BY <1>1, <1>4, <1>6, Zenon DEF NicSend, RingInv, TypeOK
<1> QED BY <1>6, <1>15, <1>16, <1>17, <1>18, TxAlone, Zenon

\* e1000_rx_poll: the frame at rx_head goes up, and RDT moves on with rx_head.
LEMMA TakeKeeps == ASSUME Rings, RingInv, Take PROVE RingInv'
<1>1. /\ head \in Rx /\ rtail \in Rx /\ rnic \in Rx /\ NRx \in Nat \ {0}
      /\ rdd \in [Rx -> BOOLEAN] /\ rbuf \in [Rx -> 0 .. Arrivals]
      /\ up \in Seq(Nat) /\ arrived \in 0 .. Arrivals /\ rdd[head]
  BY Zenon DEF Rings, RingInv, TypeOK, RxInv, Take
<1>2. head' = After(head, NRx) /\ head' \in Rx
  <2>1. head' = (head + 1) % NRx
    BY Zenon DEF Take
  <2> QED BY <1>1, <2>1, Around DEF Rx
<1>3. rtail' = After(rtail, NRx) /\ rtail' \in Rx
  <2>1. rtail' = (rtail + 1) % NRx
    BY Zenon DEF Take, NextRtail
  <2> QED BY <1>1, <2>1, Around DEF Rx
<1>4. rtail' = IF head' = 0 THEN NRx - 1 ELSE head' - 1
  <2>1. rtail = IF head = 0 THEN NRx - 1 ELSE head - 1
    BY Zenon DEF RingInv, RxInv
  <2> QED BY <1>1, <1>2, <1>3, <2>1 DEF After, Rx
<1>5. \A i \in Rx : rdd'[i] <=> i # head /\ rdd[i]
  BY <1>1, Zenon DEF Take
<1>6. UNCHANGED <<txvars, rbuf, rnic, poll, arrived, lost>> /\ up' = Append(up, rbuf[head])
  BY Zenon DEF Take
<1>7. \A i \in Rx : /\ Gap(head, i, NRx) \in 0 .. NRx - 1
                    /\ i # head => Gap(head, i, NRx) > 0 /\ Gap(head', i, NRx) = Gap(head, i, NRx) - 1
                    /\ Gap(head', head, NRx) = NRx - 1
                    /\ Gap(head, head, NRx) = 0
  BY <1>1, <1>2 DEF Rx, Gap, After
<1>8. \A i \in Rx : rdd[i] <=> Gap(head, i, NRx) < Gap(head, rnic, NRx)
  BY Zenon DEF RingInv, RxInv
<1>9. rnic # head
  BY <1>1, <1>7, <1>8
<1>10. \A i \in Rx : rdd'[i] <=> Gap(head', i, NRx) < Gap(head', rnic', NRx)
  <2> SUFFICES ASSUME NEW i \in Rx PROVE rdd'[i] <=> Gap(head', i, NRx) < Gap(head', rnic, NRx)
    BY <1>6, Zenon
  <2>1. Gap(head', rnic, NRx) = Gap(head, rnic, NRx) - 1 /\ Gap(head, rnic, NRx) \in 1 .. NRx - 1
    BY <1>1, <1>7, <1>9, SMTT(30)
  <2>2. CASE i = head
    <3>1. Gap(head', i, NRx) = NRx - 1
      BY <2>2, <1>1, <1>7, Zenon
    <3>2. ~(NRx - 1 < Gap(head, rnic, NRx) - 1)
      BY <1>1, <2>1
    <3> QED BY <2>1, <2>2, <3>1, <3>2, <1>5, Zenon
  <2>3. CASE i # head
    <3>1. Gap(head', i, NRx) < Gap(head', rnic, NRx) <=> Gap(head, i, NRx) < Gap(head, rnic, NRx)
      BY <2>1, <2>3, <1>7
    <3> QED BY <2>3, <3>1, <1>5, <1>8, Zenon
  <2> QED BY <2>2, <2>3, Zenon
<1>11. rbuf[head] \in 1 .. arrived /\ rbuf[head] \in Nat
  BY <1>1 DEF RingInv, RxInv
<1>12. /\ up' \in Seq(Nat) /\ Len(up') = Len(up) + 1 /\ Len(up) \in Nat
       /\ \A i \in 1 .. Len(up) : up'[i] = up[i] /\ up[i] \in Nat
       /\ up'[Len(up) + 1] = rbuf[head]
  BY <1>1, <1>6, <1>11, SMTT(30)
<1>13. \A i \in 1 .. Len(up') : i \in 1 .. Len(up) \/ i = Len(up) + 1
  BY <1>12
<1>14. \A i \in 1 .. Len(up) : up[i] \in 1 .. arrived /\ up[i] < rbuf[head]
  BY <1>1, Zenon DEF RingInv, RxInv
<1>15. \A j \in Rx : rdd'[j] => rbuf[head] < rbuf[j] /\ rbuf[j] \in 1 .. arrived
  <2>1. \A j \in Rx : rdd[j] /\ Gap(head, head, NRx) < Gap(head, j, NRx) => rbuf[head] < rbuf[j]
    BY <1>1, Zenon DEF RingInv, RxInv
  <2>2. \A j \in Rx : rdd[j] => rbuf[j] \in 1 .. arrived
    BY Zenon DEF RingInv, RxInv
  <2> QED BY <2>1, <2>2, <1>5, <1>7, Zenon
<1>16. \A f : HandedUp(f)' <=> HandedUp(f) \/ f = rbuf[head]
  <2> SUFFICES ASSUME NEW f PROVE (\E i \in 1 .. Len(up') : up'[i] = f) <=> (\E i \in 1 .. Len(up) : up[i] = f) \/ f = rbuf[head]
    BY Zenon DEF HandedUp
  <2>1. 1 .. Len(up) \subseteq 1 .. Len(up') /\ Len(up) + 1 \in 1 .. Len(up')
    BY <1>12
  <2> QED BY <2>1, <1>12, <1>13, Zenon
<1>17. \A f \in 1 .. arrived : f \notin lost <=> HandedUp(f)' \/ \E i \in Rx : rdd'[i] /\ rbuf[i] = f
  <2>1. \A f \in 1 .. arrived : f \notin lost <=> HandedUp(f) \/ \E i \in Rx : rdd[i] /\ rbuf[i] = f
    BY Zenon DEF RingInv, RxInv
  <2> QED BY <2>1, <1>1, <1>5, <1>16, Zenon
<1>18. \A i \in 1 .. Len(up'), j \in Rx : rdd'[j] => up'[i] < rbuf'[j]
  <2>1. \A i \in 1 .. Len(up), j \in Rx : rdd[j] => up[i] < rbuf[j]
    BY Zenon DEF RingInv, RxInv
  <2> QED BY <2>1, <1>5, <1>6, <1>12, <1>13, <1>15, ZenonT(40)
<1>19. \A i, j \in Rx : rdd'[i] /\ rdd'[j] /\ Gap(head', i, NRx) < Gap(head', j, NRx) => rbuf'[i] < rbuf'[j]
  <2> SUFFICES ASSUME NEW i \in Rx, NEW j \in Rx, rdd'[i], rdd'[j], Gap(head', i, NRx) < Gap(head', j, NRx)
               PROVE  rbuf[i] < rbuf[j]
    BY <1>6, Zenon
  <2>1. i # head /\ j # head /\ rdd[i] /\ rdd[j]
    BY <1>5, Zenon
  <2>2. /\ Gap(head, i, NRx) \in 0 .. NRx - 1 /\ Gap(head', i, NRx) = Gap(head, i, NRx) - 1
        /\ Gap(head, j, NRx) \in 0 .. NRx - 1 /\ Gap(head', j, NRx) = Gap(head, j, NRx) - 1
    BY <2>1, <1>7, Zenon
  <2>3. Gap(head, i, NRx) < Gap(head, j, NRx)
    BY <1>1, <2>2
  <2>4. \A a, b \in Rx : rdd[a] /\ rdd[b] /\ Gap(head, a, NRx) < Gap(head, b, NRx) => rbuf[a] < rbuf[b]
    BY Zenon DEF RingInv, RxInv
  <2> QED BY <2>1, <2>3, <2>4, Zenon
<1>20. \A i, j \in 1 .. Len(up') : i < j => up'[i] < up'[j]
  <2>1. \A i, j \in 1 .. Len(up) : i < j => up[i] < up[j]
    BY Zenon DEF RingInv, RxInv
  <2> SUFFICES ASSUME NEW i \in 1 .. Len(up'), NEW j \in 1 .. Len(up'), i < j PROVE up'[i] < up'[j]
    BY Zenon
  <2>2. i \in 1 .. Len(up)
    BY <1>12, <1>13
  <2>3. CASE j \in 1 .. Len(up)
    BY <2>1, <2>2, <2>3, <1>12, Zenon
  <2>4. CASE j = Len(up) + 1
    BY <2>2, <2>4, <1>12, <1>14, Zenon
  <2> QED BY <2>3, <2>4, <1>13, Zenon
<1>21. \A i \in 1 .. Len(up') : up'[i] \in 1 .. arrived'
  BY <1>6, <1>11, <1>12, <1>13, <1>14, Zenon
<1>22. lost' \subseteq 1 .. arrived' /\ arrived' \in 0 .. Arrivals
  BY <1>6, Zenon DEF RingInv, RxInv
<1>23. RxInv'
  <2>1. \A f \in 1 .. arrived' : f \notin lost' <=> HandedUp(f)' \/ \E i \in Rx : rdd'[i] /\ rbuf'[i] = f
    BY <1>6, <1>17, Zenon
  <2>2. \A i \in Rx : rdd'[i] => rbuf'[i] \in 1 .. arrived'
    BY <1>6, <1>15, Zenon
  <2> QED BY <1>4, <1>10, <1>12, <1>18, <1>19, <1>20, <1>21, <1>22, <2>1, <2>2, Zenon DEF RxInv, Rx, HandedUp
<1>24. /\ rdd' \in [Rx -> BOOLEAN] /\ rbuf' \in [Rx -> 0 .. Arrivals] /\ {head', rtail', rnic'} \subseteq Rx
       /\ poll' \in BOOLEAN
  <2>1. rdd' \in [Rx -> BOOLEAN]
    BY <1>1, Zenon DEF Take
  <2>2. poll \in BOOLEAN
    BY Zenon DEF RingInv, TypeOK
  <2> QED BY <1>1, <1>2, <1>3, <1>6, <2>1, <2>2, Zenon
<1> QED BY <1>6, <1>23, <1>24, RxAlone, Zenon

\* The controller stores a frame, or finds no room.
LEMMA NicReceiveKeeps == ASSUME Rings, RingInv, NicReceive PROVE RingInv'
<1>1. /\ head \in Rx /\ rtail \in Rx /\ rnic \in Rx /\ NRx \in Nat \ {0}
      /\ rdd \in [Rx -> BOOLEAN] /\ rbuf \in [Rx -> 0 .. Arrivals]
      /\ arrived \in 0 .. Arrivals - 1 /\ Arrivals \in Nat /\ lost \subseteq 1 .. arrived /\ up \in Seq(Nat)
  BY SMTT(30) DEF Rings, RingInv, TypeOK, RxInv, NicReceive
<1>2. arrived' = arrived + 1 /\ UNCHANGED <<txvars, head, rtail, poll, up>>
  BY Zenon DEF NicReceive
<1>3. /\ \A i \in 1 .. Len(up) : up[i] \in 1 .. arrived
      /\ \A i \in Rx : rdd[i] => rbuf[i] \in 1 .. arrived
      /\ \A f \in 1 .. arrived : f \notin lost <=> HandedUp(f) \/ \E i \in Rx : rdd[i] /\ rbuf[i] = f
  BY Zenon DEF RingInv, RxInv
<1>4. ~HandedUp(arrived + 1) /\ ~\E i \in Rx : rdd[i] /\ rbuf[i] = arrived + 1
  BY <1>1, <1>3 DEF HandedUp
<1>5. CASE /\ rnic # rtail /\ rbuf' = [rbuf EXCEPT ![rnic] = arrived'] /\ rdd' = [rdd EXCEPT ![rnic] = TRUE]
           /\ rnic' = (rnic + 1) % NRx /\ UNCHANGED lost
  <2>1. rnic' = After(rnic, NRx) /\ rnic' \in Rx
    <3>1. rnic' = (rnic + 1) % NRx
      BY <1>5, Zenon
    <3>2. rnic \in 0 .. NRx - 1 /\ NRx \in Nat \ {0}
      BY <1>1, Zenon DEF Rx
    <3> QED BY <3>1, <3>2, Around, Zenon DEF Rx
  <2>2. \A i \in Rx : (rdd'[i] <=> i = rnic \/ rdd[i]) /\ rbuf'[i] = IF i = rnic THEN arrived + 1 ELSE rbuf[i]
    BY <1>1, <1>2, <1>5, Zenon
  <2>3. \A i \in Rx : rdd[i] <=> Gap(head, i, NRx) < Gap(head, rnic, NRx)
    BY Zenon DEF RingInv, RxInv
  <2>4. ~rdd[rnic]
    BY <1>1, <2>3 DEF Gap, Rx
  <2>5. Gap(head, rnic', NRx) = Gap(head, rnic, NRx) + 1
    <3>1. rtail = IF head = 0 THEN NRx - 1 ELSE head - 1
      BY Zenon DEF RingInv, RxInv
    <3>2. rnic # rtail
      BY <1>5, Zenon
    <3> QED BY <1>1, <2>1, <3>1, <3>2 DEF Gap, After, Rx
  <2>6. \A i \in Rx : Gap(head, i, NRx) \in Int /\ (Gap(head, i, NRx) = Gap(head, rnic, NRx) <=> i = rnic)
    BY <1>1 DEF Gap, Rx
  <2>7. \A i \in Rx : rdd'[i] <=> Gap(head', i, NRx) < Gap(head', rnic', NRx)
    <3>1. \A i \in Rx : Gap(head, i, NRx) < Gap(head, rnic, NRx) + 1
                        <=> Gap(head, i, NRx) < Gap(head, rnic, NRx) \/ Gap(head, i, NRx) = Gap(head, rnic, NRx)
      BY <1>1, <2>6, SMTT(30)
    <3> QED BY <1>2, <2>2, <2>3, <2>5, <2>6, <3>1
  <2>8. \A i \in Rx : rdd'[i] => rbuf'[i] \in 1 .. arrived'
    BY <1>1, <1>2, <1>3, <2>2, SMTT(30)
  <2>9. \A f \in 1 .. arrived' : f \notin lost' <=> HandedUp(f)' \/ \E i \in Rx : rdd'[i] /\ rbuf'[i] = f
    <3> SUFFICES ASSUME NEW f \in 1 .. arrived'
                 PROVE  f \notin lost <=> HandedUp(f) \/ \E i \in Rx : rdd'[i] /\ rbuf'[i] = f
      BY <1>2, <1>5 DEF HandedUp
    <3>1. CASE f = arrived + 1
      <4>1. f \notin lost
        BY <1>1, <3>1
      <4> QED BY <4>1, <3>1, <1>1, <2>2, Zenon
    <3>2. CASE f # arrived + 1
      <4>1. f \in 1 .. arrived
        BY <1>1, <1>2, <3>2
      <4>2. (\E i \in Rx : rdd'[i] /\ rbuf'[i] = f) <=> \E i \in Rx : rdd[i] /\ rbuf[i] = f
        BY <3>2, <2>2, <2>4, Zenon
      <4> QED BY <4>1, <4>2, <1>3, Zenon
    <3> QED BY <3>1, <3>2, Zenon
  <2>10. \A i \in 1 .. Len(up), j \in Rx : rdd'[j] => up[i] < rbuf'[j]
    <3>1. \A i \in 1 .. Len(up), j \in Rx : rdd[j] => up[i] < rbuf[j]
      BY Zenon DEF RingInv, RxInv
    <3> SUFFICES ASSUME NEW i \in 1 .. Len(up), NEW j \in Rx, rdd'[j] PROVE up[i] < rbuf'[j]
      BY Zenon
    <3>2. CASE j = rnic
      <4>1. up[i] \in 1 .. arrived
        BY <1>3, Zenon
      <4> QED BY <3>2, <4>1, <1>1, <2>2, SMTT(30)
    <3>3. CASE j # rnic
      BY <3>1, <3>3, <2>2, Zenon
    <3> QED BY <3>2, <3>3, Zenon
  <2>11. \A i, j \in Rx : rdd'[i] /\ rdd'[j] /\ Gap(head, i, NRx) < Gap(head, j, NRx) => rbuf'[i] < rbuf'[j]
    <3> SUFFICES ASSUME NEW i \in Rx, NEW j \in Rx, rdd'[i], rdd'[j], Gap(head, i, NRx) < Gap(head, j, NRx)
                 PROVE  rbuf'[i] < rbuf'[j]
      BY Zenon
    <3>1. i # rnic
      <4> SUFFICES ASSUME i = rnic PROVE FALSE
        BY Zenon
      <4>1. j # rnic /\ rdd[j]
        BY <1>1, <2>2, <2>6
      <4>2. Gap(head, j, NRx) < Gap(head, rnic, NRx)
        BY <4>1, <2>3, Zenon
      <4> QED BY <4>2, <1>1, <2>6
    <3>2. rdd[i] /\ rbuf'[i] = rbuf[i] /\ rbuf[i] \in 1 .. arrived
      BY <3>1, <2>2, <1>3, Zenon
    <3>3. CASE j = rnic
      BY <1>1, <3>2, <3>3, <2>2
    <3>4. CASE j # rnic
      BY <3>2, <3>4, <2>2 DEF RingInv, RxInv
    <3> QED BY <3>3, <3>4, Zenon
  <2>12. RxInv'
    <3>1. lost' \subseteq 1 .. arrived' /\ arrived' \in 0 .. Arrivals /\ \A i \in 1 .. Len(up) : up[i] \in 1 .. arrived'
      BY <1>1, <1>2, <1>3, <1>5, SMTT(30)
    <3> QED BY <1>1, <1>2, <2>7, <2>8, <2>9, <2>10, <2>11, <3>1, Zenon DEF RingInv, RxInv, Rx, HandedUp
  <2>13. /\ rdd' \in [Rx -> BOOLEAN] /\ rbuf' \in [Rx -> 0 .. Arrivals] /\ {head', rtail', rnic'} \subseteq Rx
         /\ poll' \in BOOLEAN
    <3>1. arrived' \in 0 .. Arrivals
      BY <1>1, <1>2
    <3> QED BY <1>1, <1>2, <1>5, <2>1, <3>1, Zenon DEF RingInv, TypeOK
  <2> QED BY <1>2, <2>12, <2>13, RxAlone, Zenon
<1>6. CASE rnic = rtail /\ lost' = lost \cup {arrived'} /\ UNCHANGED <<rbuf, rdd, rnic>>
  <2>1. \A f \in 1 .. arrived' : f \notin lost' <=> HandedUp(f)' \/ \E i \in Rx : rdd'[i] /\ rbuf'[i] = f
    <3> SUFFICES ASSUME NEW f \in 1 .. arrived'
                 PROVE  f \notin lost' <=> HandedUp(f) \/ \E i \in Rx : rdd[i] /\ rbuf[i] = f
      BY <1>2, <1>6 DEF HandedUp
    <3>1. CASE f = arrived + 1
      BY <3>1, <1>2, <1>4, <1>6, Zenon
    <3>2. CASE f # arrived + 1
      <4>1. f \in 1 .. arrived /\ (f \notin lost' <=> f \notin lost)
        BY <1>1, <1>2, <1>6, <3>2
      <4> QED BY <4>1, <1>3, Zenon
    <3> QED BY <3>1, <3>2, Zenon
  <2>2. /\ lost' \subseteq 1 .. arrived' /\ arrived' \in 0 .. Arrivals
        /\ \A i \in 1 .. Len(up) : up[i] \in 1 .. arrived'
        /\ \A i \in Rx : rdd[i] => rbuf[i] \in 1 .. arrived'
    BY <1>1, <1>2, <1>3, <1>6, SMTT(30)
  <2>3. RxInv'
    BY <1>1, <1>2, <1>6, <2>1, <2>2, Zenon DEF RingInv, RxInv, Rx, HandedUp
  <2>4. poll' \in BOOLEAN
    BY <1>2, Zenon DEF RingInv, TypeOK
  <2>5. rdd' \in [Rx -> BOOLEAN] /\ rbuf' \in [Rx -> 0 .. Arrivals] /\ {head', rtail', rnic'} \subseteq Rx
    BY <1>1, <1>2, <1>6, Zenon
  <2> QED BY <1>2, <2>3, <2>4, <2>5, RxAlone, Zenon
<1> QED BY <1>5, <1>6, Zenon DEF NicReceive

LEMMA PollKeeps == ASSUME RingInv, Poll \/ PollEnd PROVE RingInv'
<1>1. UNCHANGED <<txvars, rdd, rbuf, head, rtail, rnic, arrived, lost, up>> /\ poll' \in BOOLEAN
  BY Zenon DEF Poll, PollEnd
<1>2. RxInv'
  BY <1>1 DEF RingInv, RxInv, HandedUp, Rx
<1> QED BY <1>1, <1>2, RxAlone, Zenon DEF RingInv, TypeOK

LEMMA RingAlways == Rings => (Spec => []RingInv)
<1> SUFFICES ASSUME Rings PROVE Spec => []RingInv
  OBVIOUS
<1>1. Init => RingInv
  BY RingInit, Zenon
<1>2. RingInv /\ [Next]_vars => RingInv'
  <2> SUFFICES ASSUME RingInv, [Next]_vars PROVE RingInv'
    BY Zenon
  <2>1. CASE UNCHANGED vars
    <3>1. UNCHANGED txvars /\ UNCHANGED rxvars
      BY <2>1, Zenon DEF vars, txvars, rxvars
    <3>2. RxInv'
      BY <3>1 DEF rxvars, RingInv, RxInv, HandedUp, Rx
    <3> QED BY <3>1, <3>2, RxAlone DEF RingInv, TypeOK, rxvars
  <2> QED BY <2>1, SendKeeps, CallKeeps, NicSendKeeps, PollKeeps, TakeKeeps, NicReceiveKeeps, Zenon DEF Next
<1> QED BY <1>1, <1>2, PTL DEF Spec

\* No frame that e1000_send filled in is overwritten before it left: it leaves once and
\* in order, for a ring of any size, also after sends that gave up waiting.
THEOREM FramesLeave == Rings => (Spec => []WireExact)
<1> SUFFICES ASSUME Rings PROVE Spec => []WireExact
  BY Zenon
<1>1. RingInv => WireExact
  BY Zenon DEF RingInv
<1> QED BY <1>1, RingAlways, PTL

\* A send that returns 0 has put its frame on the wire.
THEOREM SuccessIsSent == Rings => (Spec => []OkIsSent)
<1> SUFFICES ASSUME Rings PROVE Spec => []OkIsSent
  BY Zenon
<1>1. RingInv => OkIsSent
  BY Zenon DEF RingInv
<1> QED BY <1>1, RingAlways, PTL

\* Every frame that found room is handed up once and in order: the controller, stopped
\* at RDT, never writes into a descriptor that e1000_rx_poll has still to drain.
THEOREM FramesHandedUp == Rings => (Spec => []UpExact)
<1> SUFFICES ASSUME Rings PROVE Spec => []UpExact
  BY Zenon
<1>1. RingInv => UpExact
  <2> SUFFICES ASSUME RingInv PROVE UpExact
    BY Zenon
  <2>1. /\ head \in Rx /\ rnic \in Rx /\ arrived \in Nat /\ NRx \in Nat \ {0}
        /\ \A i \in 1 .. Len(up) : up[i] \in 1 .. arrived
        /\ \A i \in Rx : rdd[i] => rbuf[i] \in 1 .. arrived
        /\ \A f \in 1 .. arrived : f \notin lost <=> HandedUp(f) \/ \E i \in Rx : rdd[i] /\ rbuf[i] = f
        /\ \A i \in 1 .. Len(up), j \in Rx : rdd[j] => up[i] < rbuf[j]
    BY DEF RingInv, RxInv, TypeOK, Rings
  <2>0. \A i, j \in 1 .. Len(up) : i < j => up[i] < up[j]
    BY Zenon DEF RingInv, RxInv
  <2> SUFFICES \E k \in 0 .. arrived : {up[i] : i \in 1 .. Len(up)} = (1 .. k) \ lost
    BY <2>0, Zenon DEF UpExact
  <2>2. CASE ~\E i \in Rx : rdd[i]
    <3>1. {up[i] : i \in 1 .. Len(up)} = (1 .. arrived) \ lost
      BY <2>1, <2>2 DEF HandedUp
    <3>2. arrived \in 0 .. arrived
      BY <2>1
    <3> QED BY <3>1, <3>2, Zenon
  <2>3. CASE \E i \in Rx : rdd[i]
    <3>1. rdd[head]
      <4>1. \A i \in Rx : rdd[i] <=> Gap(head, i, NRx) < Gap(head, rnic, NRx)
        BY Zenon DEF RingInv, RxInv
      <4>2. Gap(head, head, NRx) = 0 /\ \A i \in Rx : Gap(head, i, NRx) \in Nat
        BY <2>1 DEF Gap, Rx
      <4> QED BY <2>1, <2>3, <4>1, <4>2
    <3> DEFINE k == rbuf[head] - 1
    <3>2. rbuf[head] \in 1 .. arrived /\ k \in 0 .. arrived
      BY <2>1, <3>1
    <3>3. \A j \in Rx : rdd[j] => rbuf[head] <= rbuf[j]
      <4>1. \A j \in Rx : j # head => Gap(head, head, NRx) < Gap(head, j, NRx)
        BY <2>1 DEF Gap, Rx
      <4>2. \A j \in Rx : rdd[j] /\ Gap(head, head, NRx) < Gap(head, j, NRx) => rbuf[head] < rbuf[j]
        BY <2>1, <3>1, Zenon DEF RingInv, RxInv
      <4> QED BY <2>1, <3>1, <4>1, <4>2
    <3>4. ASSUME NEW f \in 1 .. arrived PROVE HandedUp(f) <=> f \in (1 .. k) \ lost
      <4>1. HandedUp(f) => f \notin lost /\ f < rbuf[head]
        BY <2>1, <3>1, <3>4 DEF HandedUp
      <4>2. f < rbuf[head] /\ f \notin lost => HandedUp(f)
        BY <2>1, <3>2, <3>3, <3>4
      <4>3. f < rbuf[head] <=> f \in 1 .. k
        BY <2>1, <3>2, <3>4
      <4> QED BY <4>1, <4>2, <4>3, Zenon
    <3> HIDE DEF k
    <3>5. 1 .. k \subseteq 1 .. arrived
      BY <2>1, <3>2
    <3>6. {up[i] : i \in 1 .. Len(up)} = (1 .. k) \ lost
      BY <2>1, <3>4, <3>5 DEF HandedUp
    <3> QED BY <3>2, <3>6, Zenon
  <2> QED BY <2>2, <2>3, Zenon
<1> QED BY <1>1, RingAlways, PTL

-----------------------------------------------------------------------------
(* Tftp: FileExact holds for a file of any length below M blocks, any       *)
(* number of transfers, retries and strays, and any network.                *)

\* A file whose block numbers do not wrap around.
NoWrap == NBlocks \in Nat \ {0} /\ M \in Nat /\ NBlocks < M /\ Tids \in Nat

\* A datagram as the server or the other host makes it: a block carries its position.
Wellformed(m) ==
    m.op = "DATA" => m.from \in T /\ m.pos \in 1 .. NBlocks /\ m.b = m.pos

\* The inductive invariant: what the client has is the beginning of one transfer, and
\* the number it expects is the next one's; nothing under way says otherwise.
DownInv ==
    /\ tpc \in {"rrq", "wait", "got", "done"}
    /\ tid \in 0 .. Tids /\ (tid = 0 => Len(blocks) = 0)
    /\ blocks \in Seq([from : T, pos : 1 .. NBlocks])
    /\ \A i \in 1 .. Len(blocks) : blocks[i] = [from |-> tid, pos |-> i]
    /\ tpc # "done" => rc = -1 /\ expected = Len(blocks) + 1 /\ expected <= NBlocks
    /\ rc = 0 => Len(blocks) = NBlocks
    /\ \A m \in toClient \cup trx \cup pkt : Wellformed(m)
    /\ cur \in [T -> 0 .. NBlocks + 1]

LEMMA Numbers == ASSUME NoWrap, NEW k \in 1 .. NBlocks PROVE k % M = k
BY DEF NoWrap

\* What the server and the other host send is well-formed.
LEMMA MadeWell ==
    ASSUME NoWrap
    PROVE  /\ \A t \in T, k \in 1 .. NBlocks : Wellformed(Data(t, k))
           /\ \A t \in T : Wellformed(Error(t))
           /\ Wellformed(Stray)
BY Numbers DEF Wellformed, Data, Error, Stray

LEMMA DownInit == ASSUME NoWrap, TftpInit PROVE DownInv
BY DEF TftpInit, DownInv, NoWrap, T

\* A block the client has read, and the blocks it has, seen from its transfer.
LEMMA PacketIs ==
    ASSUME NoWrap, DownInv, NEW p \in pkt, p.op = "DATA"
    PROVE  /\ p.from \in T /\ p.from \in 0 .. Tids /\ p.pos \in 1 .. NBlocks /\ p.b = p.pos
           /\ Len(blocks) \in Nat
           /\ OfTid(p) => \A i \in 1 .. Len(blocks) : blocks[i] = [from |-> p.from, pos |-> i]
<1>1. Wellformed(p)
  BY Zenon DEF DownInv
<1>2. p.from \in T /\ p.pos \in 1 .. NBlocks /\ p.b = p.pos
  BY <1>1, Zenon DEF Wellformed
<1>3. p.from \in 0 .. Tids
  BY <1>2 DEF T, NoWrap
<1>4. /\ blocks \in Seq([from : T, pos : 1 .. NBlocks])
      /\ tid = 0 => Len(blocks) = 0
      /\ \A i \in 1 .. Len(blocks) : blocks[i] = [from |-> tid, pos |-> i]
  BY Zenon DEF DownInv
<1>5. Len(blocks) \in Nat
  BY <1>4
<1>6. CASE tid = 0
  <2>1. 1 .. Len(blocks) = {}
    BY <1>4, <1>6
  <2> QED BY <1>2, <1>3, <1>5, <2>1, Zenon
<1>7. CASE tid # 0
  BY <1>2, <1>3, <1>4, <1>5, <1>7, Zenon DEF OfTid
<1> QED BY <1>6, <1>7, Zenon

\* Steps that leave the blocks alone.
LEMMA KeepsBlocks ==
    ASSUME DownInv, tpc' \in {"rrq", "wait", "got", "done"}, UNCHANGED <<blocks, expected, tid, cur>>,
           tpc = "done" => tpc' = "done", rc' = rc \/ (rc' = -1 /\ tpc' = "done"),
           \A m \in toClient' \cup trx' \cup pkt' : Wellformed(m)
    PROVE  DownInv'
<1>1. blocks' = blocks /\ expected' = expected /\ tid' = tid /\ cur' = cur
  BY Zenon
<1>2. \A m \in toClient' \cup trx' \cup pkt' : Wellformed(m)'
  BY Zenon DEF Wellformed, T
<1>3. /\ tid \in 0 .. Tids /\ (tid = 0 => Len(blocks) = 0)
      /\ blocks \in Seq([from : T, pos : 1 .. NBlocks])
      /\ \A i \in 1 .. Len(blocks) : blocks[i] = [from |-> tid, pos |-> i]
      /\ tpc # "done" => rc = -1 /\ expected = Len(blocks) + 1 /\ expected <= NBlocks
      /\ rc = 0 => Len(blocks) = NBlocks
      /\ cur \in [T -> 0 .. NBlocks + 1]
  BY Zenon DEF DownInv
<1>4. rc' = 0 => rc = 0
  OBVIOUS
<1>5. tpc' # "done" => rc' = -1 /\ expected = Len(blocks) + 1 /\ expected <= NBlocks
  BY <1>3
<1> QED BY <1>1, <1>2, <1>3, <1>4, <1>5, Zenon DEF DownInv, T

\* A datagram of the transfer that is not the next block.
LEMMA KeepsTransfer ==
    ASSUME NoWrap, DownInv, tpc = "got", NEW p \in pkt, p.op = "DATA", OfTid(p), ~IsNext(p),
           tid' = p.from, tpc' = "wait", pkt' = {}, UNCHANGED <<rc, expected, blocks, cur, toClient, trx>>
    PROVE  DownInv'
<1>1. /\ p.from \in 0 .. Tids /\ p.from # 0
      /\ \A i \in 1 .. Len(blocks) : blocks[i] = [from |-> p.from, pos |-> i]
  <2>1. 0 \notin T
    BY DEF T, NoWrap
  <2> QED BY <2>1, PacketIs, Zenon
<1>2. \A m \in toClient' \cup trx' \cup pkt' : Wellformed(m)
  BY Zenon DEF DownInv
<1> QED BY <1>1, <1>2, Zenon DEF DownInv, Wellformed, T

\* The next block: appended, or refused.
LEMMA TakesBlock ==
    ASSUME NoWrap, DownInv, tpc = "got", NEW p \in pkt, NextBlock(p), pkt' = {}, UNCHANGED <<cur, toClient, trx>>
    PROVE  DownInv'
<1> DEFINE e == [from |-> p.from, pos |-> p.pos]
<1>1. p.from \in T /\ p.from \in 0 .. Tids /\ p.pos \in 1 .. NBlocks /\ p.b = p.pos
  BY PacketIs, Zenon DEF NextBlock
<1>2. p.pos = Len(blocks) + 1 /\ expected = p.pos /\ rc = -1
  BY <1>1, Zenon DEF NextBlock, IsNext, DownInv
<1>4. \A i \in 1 .. Len(blocks) : blocks[i] = [from |-> p.from, pos |-> i]
  BY PacketIs, Zenon DEF NextBlock
<1>5. /\ Append(blocks, e) \in Seq([from : T, pos : 1 .. NBlocks]) /\ Len(Append(blocks, e)) = Len(blocks) + 1
      /\ \A i \in 1 .. Len(blocks) + 1 : Append(blocks, e)[i] = [from |-> p.from, pos |-> i]
  <2>1. e \in [from : T, pos : 1 .. NBlocks] /\ blocks \in Seq([from : T, pos : 1 .. NBlocks]) /\ Len(blocks) \in Nat
    <3>1. e \in [from : T, pos : 1 .. NBlocks]
      BY <1>1, Zenon
    <3> QED BY <3>1, PacketIs, Zenon DEF DownInv, NextBlock
  <2>2. Append(blocks, e) \in Seq([from : T, pos : 1 .. NBlocks]) /\ Len(Append(blocks, e)) = Len(blocks) + 1
    BY <2>1
  <2>3. ASSUME NEW i \in 1 .. Len(blocks) + 1 PROVE Append(blocks, e)[i] = [from |-> p.from, pos |-> i]
    <3>1. Append(blocks, e)[i] = IF i = Len(blocks) + 1 THEN e ELSE blocks[i]
      BY <2>1
    <3>2. CASE i = Len(blocks) + 1
      BY <3>1, <3>2, <1>2, Zenon
    <3>3. CASE i # Len(blocks) + 1
      <4>1. i \in 1 .. Len(blocks)
        BY <2>1, <3>3
      <4> QED BY <3>1, <3>3, <4>1, <1>4, Zenon
    <3> QED BY <3>2, <3>3, Zenon
  <2> QED BY <2>2, <2>3, Zenon
<1> HIDE DEF e
<1>6. tid' = p.from /\ tid' \in 0 .. Tids /\ tid' # 0
  BY <1>1 DEF NextBlock, T
<1>7. \A m \in toClient' \cup trx' \cup pkt' : Wellformed(m)
  BY DEF DownInv
<1>8. cur' \in [T -> 0 .. NBlocks + 1]
  BY Zenon DEF DownInv
<1>9. /\ blocks' \in Seq([from : T, pos : 1 .. NBlocks])
      /\ \A i \in 1 .. Len(blocks') : blocks'[i] = [from |-> tid', pos |-> i]
  <2>1. blocks' = blocks \/ blocks' = Append(blocks, e)
    BY Zenon DEF NextBlock, e
  <2>2. CASE blocks' = blocks
    <3>1. blocks \in Seq([from : T, pos : 1 .. NBlocks])
      BY Zenon DEF DownInv
    <3> QED BY <2>2, <3>1, <1>4, <1>6, Zenon
  <2>3. CASE blocks' = Append(blocks, e)
    BY <2>3, <1>5, <1>6, Zenon
  <2> QED BY <2>1, <2>2, <2>3, Zenon
<1>10. /\ tpc' \in {"rrq", "wait", "got", "done"}
       /\ tpc' # "done" => rc' = -1 /\ expected' = Len(blocks') + 1 /\ expected' <= NBlocks
       /\ rc' = 0 => Len(blocks') = NBlocks
  <2>1. CASE /\ blocks' = Append(blocks, e) /\ expected' = (expected + 1) % M
             /\ IF p.pos = NBlocks THEN Out(0) ELSE tpc' = "wait" /\ UNCHANGED rc
    <3>1. CASE p.pos = NBlocks
      BY <2>1, <3>1, <1>2, <1>5, Zenon DEF Out
    <3>2. CASE p.pos # NBlocks
      <4>1. expected + 1 \in 1 .. NBlocks
        BY <3>2, <1>1, <1>2 DEF NoWrap
      <4>2. expected' = expected + 1
        BY <4>1, <2>1, Numbers, Zenon
      <4>3. /\ expected' = Len(blocks') + 1 /\ tpc' = "wait" /\ rc' = -1
        BY <4>2, <2>1, <3>2, <1>2, <1>5, Zenon
      <4>4. expected' <= NBlocks
        BY <4>1, <4>2
      <4>5. tpc' \in {"rrq", "wait", "got", "done"} /\ rc' # 0
        BY <4>3
      <4> QED BY <4>3, <4>4, <4>5, Zenon
    <3> QED BY <3>1, <3>2, Zenon
  <2>2. CASE Out(-1)
    BY <2>2 DEF Out
  <2> QED BY <2>1, <2>2, Zenon DEF NextBlock, e
<1> QED BY <1>6, <1>7, <1>8, <1>9, <1>10, Zenon DEF DownInv, Wellformed

LEMMA ClientKeeps == ASSUME NoWrap, DownInv, Client PROVE DownInv'
<1>1. CASE SendRrq \/ GiveUp \/ TftpRecv \/ Timeout
  <2>1. /\ UNCHANGED <<blocks, expected, tid, cur, toClient>> /\ tpc # "done"
        /\ tpc' \in {"rrq", "wait", "got", "done"} /\ (rc' = rc \/ (rc' = -1 /\ tpc' = "done"))
        /\ trx' \cup pkt' \subseteq trx \cup pkt
    BY <1>1, Zenon DEF SendRrq, GiveUp, TftpRecv, Timeout, Out, sock
  <2>2. \A m \in toClient' \cup trx' \cup pkt' : Wellformed(m)
    BY <2>1, Zenon DEF DownInv
  <2> QED BY <2>1, <2>2, KeepsBlocks, Zenon
<1>2. CASE Process
  <2>1. PICK p \in pkt : Skip(p) \/ ServerError(p) \/ OldBlock(p) \/ FutureBlock(p) \/ NextBlock(p)
    BY <1>2, ZenonT(30) DEF Process
  <2>2. tpc = "got" /\ pkt' = {} /\ UNCHANGED <<cur, toClient, trx>>
    BY <1>2, Zenon DEF Process, sock
  <2>3. CASE Skip(p) \/ ServerError(p)
    <3>1. /\ UNCHANGED <<blocks, expected, tid>> /\ tpc' \in {"rrq", "wait", "got", "done"}
          /\ rc' = rc \/ (rc' = -1 /\ tpc' = "done")
      BY <2>3, Zenon DEF Skip, ServerError, Out
    <3>2. \A m \in toClient' \cup trx' \cup pkt' : Wellformed(m)
      BY <2>2, Zenon DEF DownInv
    <3> QED BY <2>2, <3>1, <3>2, KeepsBlocks, Zenon
  <2>4. CASE OldBlock(p) \/ FutureBlock(p)
    <3>1. /\ p.op = "DATA" /\ OfTid(p) /\ tid' = p.from /\ tpc' = "wait" /\ UNCHANGED <<rc, expected, blocks>>
      BY <2>4, Zenon DEF OldBlock, FutureBlock
    <3>2. ~IsNext(p)
      <4>1. p.b \in Int /\ expected \in Int
        <5>1. expected = Len(blocks) + 1 /\ Len(blocks) \in Nat /\ p.b = p.pos /\ p.pos \in 1 .. NBlocks
          BY <2>2, <3>1, PacketIs, Zenon DEF DownInv
        <5> QED BY <5>1 DEF NoWrap
      <4> QED BY <2>4, <4>1 DEF OldBlock, FutureBlock, IsNext
    <3> QED BY <2>2, <3>1, <3>2, KeepsTransfer, Zenon
  <2>5. CASE NextBlock(p)
    BY <2>2, <2>5, TakesBlock, Zenon
  <2> QED BY <2>1, <2>3, <2>4, <2>5, Zenon
<1> QED BY <1>1, <1>2, Zenon DEF Client

LEMMA NetworkKeeps == ASSUME NoWrap, DownInv, NEW m \in toClient, Deliver(m) PROVE DownInv'
<1>1. /\ UNCHANGED <<tpc, rc, blocks, expected, tid, cur>>
      /\ toClient' \cup trx' \cup pkt' \subseteq toClient \cup trx \cup pkt
  BY Zenon DEF Deliver, client, sock
<1>2. \A n \in toClient' \cup trx' \cup pkt' : Wellformed(n)
  BY <1>1, Zenon DEF DownInv
<1> QED BY <1>1, <1>2, KeepsBlocks, Zenon DEF DownInv

\* A step of the server: it sends a well-formed datagram d or none.
LEMMA ServerSends ==
    ASSUME DownInv, NEW d, Wellformed(d), UNCHANGED <<client, trx>>, cur' \in [T -> 0 .. NBlocks + 1],
           toClient' \in {toClient} \cup UnderWay(toClient, d)
    PROVE  DownInv'
<1>1. toClient' \subseteq toClient \cup {d}
  BY Zenon DEF UnderWay
<1>2. \A n \in toClient' \cup trx' \cup pkt' : Wellformed(n)
  BY <1>1, Zenon DEF DownInv, client
<1> QED BY <1>2, Zenon DEF DownInv, client, Wellformed, T

LEMMA ServerKeeps == ASSUME NoWrap, DownInv, Server PROVE DownInv'
<1>1. CASE ServerRrq
  <2>1. PICK t \in T : cur' = [cur EXCEPT ![t] = 1] /\ toClient' \in UnderWay(toClient, Data(t, 1)) \cup UnderWay(toClient, Error(t))
    BY <1>1, ZenonT(30) DEF ServerRrq
  <2>2. cur' \in [T -> 0 .. NBlocks + 1] /\ UNCHANGED <<client, trx>> /\ 1 \in 1 .. NBlocks
    <3>1. cur \in [T -> 0 .. NBlocks + 1] /\ UNCHANGED <<client, trx>>
      BY <1>1, Zenon DEF ServerRrq, DownInv, sock
    <3>2. 1 \in 1 .. NBlocks /\ 1 \in 0 .. NBlocks + 1
      BY DEF NoWrap
    <3> QED BY <2>1, <3>1, <3>2, Zenon
  <2> QED BY <2>1, <2>2, MadeWell, ServerSends, Zenon
<1>2. ASSUME NEW m \in toServer, ServerAck(m) PROVE DownInv'
  <2>1. CASE UNCHANGED <<cur, toClient>>
    <3>1. cur' \in [T -> 0 .. NBlocks + 1] /\ UNCHANGED <<client, trx>>
      BY <1>2, <2>1, Zenon DEF ServerAck, sock, DownInv
    <3> QED BY <2>1, <3>1, MadeWell, ServerSends
  <2>2. CASE /\ m.to \in T /\ cur[m.to] \in 1 .. NBlocks /\ cur' = [cur EXCEPT ![m.to] = @ + 1]
             /\ IF cur[m.to] < NBlocks THEN toClient' \in UnderWay(toClient, Data(m.to, cur[m.to] + 1)) ELSE UNCHANGED toClient
    <3>1. cur' \in [T -> 0 .. NBlocks + 1]
      <4>1. cur \in [T -> 0 .. NBlocks + 1]
        BY Zenon DEF DownInv
      <4>2. cur[m.to] + 1 \in 0 .. NBlocks + 1
        BY <2>2 DEF NoWrap
      <4> QED BY <2>2, <4>1, <4>2, Zenon
    <3>2. UNCHANGED <<client, trx>>
      BY <1>2, Zenon DEF ServerAck, sock
    <3>3. CASE cur[m.to] < NBlocks
      <4>1. cur[m.to] + 1 \in 1 .. NBlocks
        BY <2>2, <3>3 DEF NoWrap
      <4> QED BY <2>2, <3>1, <3>2, <3>3, <4>1, MadeWell, ServerSends, Zenon
    <3>4. CASE ~(cur[m.to] < NBlocks)
      BY <2>2, <3>1, <3>2, <3>4, MadeWell, ServerSends, Zenon
    <3> QED BY <3>3, <3>4, Zenon
  <2> QED BY <1>2, <2>1, <2>2, Zenon DEF ServerAck
<1>3. ASSUME NEW t \in T, ServerResend(t) PROVE DownInv'
  <2>1. cur[t] \in 1 .. NBlocks /\ toClient' \in UnderWay(toClient, Data(t, cur[t])) /\ UNCHANGED <<client, trx, cur>>
    BY <1>3, Zenon DEF ServerResend, sock
  <2>2. cur' \in [T -> 0 .. NBlocks + 1]
    BY <2>1, Zenon DEF DownInv
  <2> QED BY <2>1, <2>2, MadeWell, ServerSends
<1>4. CASE SendStray
  <2>1. toClient' \in UnderWay(toClient, Stray) /\ UNCHANGED <<client, trx, cur>>
    BY <1>4, Zenon DEF SendStray, sock
  <2>2. cur' \in [T -> 0 .. NBlocks + 1]
    BY <2>1, Zenon DEF DownInv
  <2> QED BY <2>1, <2>2, MadeWell, ServerSends, Zenon
<1> QED BY <1>1, <1>2, <1>3, <1>4, Zenon DEF Server

\* A download that succeeds hands over the whole file, from one transfer, for every
\* file of fewer than M blocks, whatever the network loses, repeats, reorders or
\* delays (tftp_download's out_buf).
THEOREM DownloadExact == NoWrap => (TftpSpec => []FileExact)
<1> SUFFICES ASSUME NoWrap PROVE TftpSpec => []FileExact
  BY Zenon
<1>1. TftpInit => DownInv
  BY DownInit, Zenon
<1>2. DownInv /\ [TftpNext]_tftpVars => DownInv'
  <2> SUFFICES ASSUME DownInv, [TftpNext]_tftpVars PROVE DownInv'
    BY Zenon
  <2>1. CASE UNCHANGED tftpVars
    BY <2>1, Zenon DEF DownInv, tftpVars, Wellformed, T
  <2> QED BY <2>1, ClientKeeps, NetworkKeeps, ServerKeeps, Zenon DEF TftpNext, Over
<1>3. DownInv => FileExact
  <2> SUFFICES ASSUME DownInv, rc = 0 PROVE \E t \in T : blocks = [k \in 1 .. NBlocks |-> [from |-> t, pos |-> k]]
    BY Zenon DEF FileExact
  <2>1. Len(blocks) = NBlocks /\ blocks \in Seq([from : T, pos : 1 .. NBlocks])
    BY Zenon DEF DownInv
  <2>2. tid \in T
    <3>1. tid \in 0 .. Tids /\ tid # 0
      <4>1. NBlocks # 0
        BY Zenon DEF NoWrap
      <4> QED BY <2>1, <4>1, Zenon DEF DownInv
    <3> QED BY <3>1 DEF T, NoWrap
  <2>3. blocks = [k \in 1 .. NBlocks |-> [from |-> tid, pos |-> k]]
    <3>1. DOMAIN blocks = 1 .. NBlocks /\ blocks = [k \in DOMAIN blocks |-> blocks[k]]
      BY <2>1
    <3> QED BY <3>1, <2>1, Zenon DEF DownInv
  <2> QED BY <2>2, <2>3, Zenon
<1> QED BY <1>1, <1>2, <1>3, PTL DEF TftpSpec

-----------------------------------------------------------------------------
(* Sockets: UDP, for any number of sockets and hosts and any ports.        *)

\* No two open sockets are bound to the same port.
PortsApart ==
    \A i, j \in UdpSock : Matches(i, local[j]) /\ Matches(j, local[j]) /\ local[j] # 0 => i = j

\* The port an open socket sent from is still its own.
SentFromOwn == \A i \in UdpSock : used[i] /\ sent[i] # 0 => bound[i] /\ local[i] = sent[i]

\* An open socket that is not bound has no port yet, and has not sent.
Unnamed == \A i \in UdpSock : used[i] /\ ~bound[i] => local[i] = 0 /\ sent[i] = 0

\* The inductive invariant.
UdpInv == UdpTypeOK /\ PortsApart /\ SentFromOwn /\ Unnamed /\ OwnDatagrams

\* What udp_ephemeral_port returns is an ephemeral port no open socket is bound to.
LEMMA EphemeralFree ==
    ASSUME NEW p \in EphemeralPort PROVE p \in Eph /\ \A i \in UdpSock : ~Matches(i, p)
BY Zenon DEF EphemeralPort

\* udp_receive finds the socket that alone is bound to a port.
LEMMA DemuxFinds ==
    ASSUME NEW i \in UdpSock, NEW p, Matches(i, p), \A j \in UdpSock : Matches(j, p) => j = i
    PROVE  Demux(p) = i
<1> DEFINE S == {j \in UdpSock : Matches(j, p)}
<1>1. S = {i}
  BY Zenon
<1>2. (CHOOSE k \in {i} : \A j \in {i} : k <= j) = i
  BY PortsAssumption DEF UdpSock, PortsAssumption
<1> QED BY <1>1, <1>2 DEF Demux


LEMMA UdpStart == ASSUME UdpInit PROVE UdpInv
BY PortsAssumption DEF PortsAssumption, UdpInit, UdpInv, UdpTypeOK, PortsApart, SentFromOwn, Unnamed, OwnDatagrams, Matches, Eph, UdpSock

\* A socket i takes the free port p: bind(2), or the first datagram.
LEMMA Named ==
    ASSUME UdpInv, NEW i \in UdpSock, used[i], ~bound[i], NEW p \in Eph \cup Fixed,
           \A j \in UdpSock : ~Matches(j, p),
           local' = [local EXCEPT ![i] = p], bound' = [bound EXCEPT ![i] = TRUE],
           sent' \in {sent, [sent EXCEPT ![i] = p]}, next' \in Eph, UNCHANGED <<used, remote, rx, heard>>
    PROVE  UdpInv'
<1>1. /\ used \in [UdpSock -> BOOLEAN] /\ bound \in [UdpSock -> BOOLEAN]
      /\ local \in [UdpSock -> {0} \cup Eph \cup Fixed] /\ sent \in [UdpSock -> {0} \cup Eph \cup Fixed]
  BY Zenon DEF UdpInv, UdpTypeOK
<1>2. UdpTypeOK'
  BY <1>1 DEF UdpInv, UdpTypeOK, Eph, UdpSock
<1>3. \A j \in UdpSock : /\ local'[j] = IF j = i THEN p ELSE local[j]
                         /\ bound'[j] <=> j = i \/ bound[j]
                         /\ used'[j] <=> used[j]
  BY <1>1
<1>4. \A j \in UdpSock : j # i => sent'[j] = sent[j]
  BY <1>1
<1>5. sent[i] = 0 /\ sent'[i] \in {0, p}
  BY <1>1 DEF UdpInv, Unnamed
<1>6. PortsApart'
  <2> SUFFICES ASSUME NEW a \in UdpSock, NEW b \in UdpSock, used[a], used[b], bound'[a], bound'[b],
                      local'[a] = local'[b], local'[b] # 0
               PROVE  a = b
    BY <1>3 DEF PortsApart, Matches, UdpSock
  <2>1. CASE a # i /\ b # i
    BY <2>1, <1>3 DEF UdpInv, PortsApart, Matches
  <2>2. CASE a = i /\ b # i
    BY <2>2, <1>3 DEF Matches
  <2>3. CASE b = i /\ a # i
    BY <2>3, <1>3 DEF Matches
  <2> QED BY <2>1, <2>2, <2>3, Zenon
<1>7. SentFromOwn'
  BY <1>3, <1>4, <1>5 DEF UdpInv, SentFromOwn, UdpSock
<1>8. Unnamed'
  BY <1>3, <1>4 DEF UdpInv, Unnamed, UdpSock
<1>9. OwnDatagrams'
  BY Zenon DEF UdpInv, OwnDatagrams, UdpSock
<1> QED BY <1>2, <1>6, <1>7, <1>8, <1>9, Zenon DEF UdpInv

\* Steps that leave the ports alone.
LEMMA PortsKept ==
    ASSUME UdpInv, UdpTypeOK', OwnDatagrams', UNCHANGED <<used, bound, local, sent>>
    PROVE  UdpInv'
BY DEF UdpInv, PortsApart, SentFromOwn, Unnamed, Matches, UdpSock

LEMMA TransmitKeeps ==
    ASSUME UdpInv, NEW i \in UdpSock, used[i], Transmit(i), UNCHANGED <<used, remote, rx, heard>>
    PROVE  UdpInv'
<1>1. CASE bound[i] /\ sent' = [sent EXCEPT ![i] = local[i]] /\ UNCHANGED <<bound, local, next>>
  <2>1. UdpTypeOK'
    BY <1>1 DEF UdpInv, UdpTypeOK, Eph, UdpSock
  <2>2. \A j \in UdpSock : sent'[j] = IF j = i THEN local[i] ELSE sent[j]
    BY <1>1, Zenon DEF UdpInv, UdpTypeOK
  <2>3. SentFromOwn' /\ Unnamed'
    BY <1>1, <2>2 DEF UdpInv, SentFromOwn, Unnamed, UdpSock
  <2>4. PortsApart' /\ OwnDatagrams'
    BY <1>1 DEF UdpInv, PortsApart, OwnDatagrams, Matches, UdpSock
  <2> QED BY <2>1, <2>3, <2>4, Zenon DEF UdpInv
<1>2. ASSUME ~bound[i], bound' = [bound EXCEPT ![i] = TRUE], NEW p \in EphemeralPort, next' = NextEph(p),
             local' = [local EXCEPT ![i] = p], sent' = [sent EXCEPT ![i] = p]
      PROVE  UdpInv'
  <2>1. p \in Eph /\ \A j \in UdpSock : ~Matches(j, p)
    BY <1>2, EphemeralFree, Zenon
  <2>2. next' \in Eph
    BY PortsAssumption, <1>2, <2>1 DEF NextEph, Eph, PortsAssumption
  <2>3. p \in Eph \cup Fixed /\ sent' \in {sent, [sent EXCEPT ![i] = p]}
    BY <1>2, <2>1, Zenon
  <2> QED BY <1>2, <2>1, <2>2, <2>3, Named, ZenonT(30)
<1> QED BY <1>1, <1>2, Zenon DEF Transmit

LEMMA CreateKeeps == ASSUME UdpInv, NEW i \in UdpSock, UdpCreate(i) PROVE UdpInv'
<1>1. UdpTypeOK'
  BY PortsAssumption DEF UdpCreate, Emptied, UdpInv, UdpTypeOK, Eph, UdpSock, PortsAssumption
<1>2. \A j \in UdpSock : /\ used'[j] <=> j = i \/ used[j]
                         /\ bound'[j] <=> j # i /\ bound[j]
                         /\ local'[j] = IF j = i THEN 0 ELSE local[j]
                         /\ sent'[j] = IF j = i THEN 0 ELSE sent[j]
                         /\ rx'[j] = IF j = i THEN 0 ELSE rx[j]
                         /\ j # i => (heard'[j] <=> heard[j])
  BY DEF UdpCreate, Emptied, UdpInv, UdpTypeOK
<1>3. PortsApart'
  BY <1>2 DEF UdpInv, PortsApart, Matches, UdpSock
<1>4. SentFromOwn' /\ Unnamed' /\ OwnDatagrams'
  BY <1>2 DEF UdpInv, SentFromOwn, Unnamed, OwnDatagrams, UdpSock
<1> QED BY <1>1, <1>3, <1>4, Zenon DEF UdpInv

LEMMA CloseKeeps == ASSUME UdpInv, NEW i \in UdpSock, UdpClose(i) PROVE UdpInv'
<1>1. UdpTypeOK'
  BY Zenon DEF UdpClose, UdpInv, UdpTypeOK, Eph, UdpSock
<1>2. (\A j \in UdpSock : used'[j] <=> j # i /\ used[j]) /\ UNCHANGED <<bound, local, rx, heard, sent>>
  BY Zenon DEF UdpClose, UdpInv, UdpTypeOK
<1>3. PortsApart'
  BY <1>2 DEF UdpInv, PortsApart, Matches, UdpSock
<1>4. SentFromOwn' /\ Unnamed' /\ OwnDatagrams'
  BY <1>2, Zenon DEF UdpInv, SentFromOwn, Unnamed, OwnDatagrams, UdpSock
<1> QED BY <1>1, <1>3, <1>4, Zenon DEF UdpInv

LEMMA BindAnyKeeps == ASSUME UdpInv, NEW i \in UdpSock, UdpBindAny(i) PROVE UdpInv'
<1>1. UdpTypeOK'
  BY Zenon DEF UdpBindAny, UdpInv, UdpTypeOK, Eph, UdpSock
<1>2. /\ \A j \in UdpSock : bound'[j] <=> j = i \/ bound[j]
      /\ UNCHANGED <<used, local, rx, heard, sent>> /\ local[i] = 0 /\ sent[i] = 0
  BY Zenon DEF UdpBindAny, UdpInv, UdpTypeOK, Unnamed
<1>3. PortsApart'
  BY <1>2 DEF UdpInv, PortsApart, Matches, UdpSock
<1>4. SentFromOwn' /\ Unnamed' /\ OwnDatagrams'
  BY <1>2, Zenon DEF UdpInv, SentFromOwn, Unnamed, OwnDatagrams, UdpSock
<1> QED BY <1>1, <1>3, <1>4 DEF UdpInv

\* Receiving, reading and connect(2) leave the ports alone; what is received was sent to
\* the owner.
LEMMA BufferKeeps ==
    ASSUME UdpInv,
           \/ \E i \in UdpSock : UdpRecv(i)
           \/ \E i \in UdpSock, h \in Host : UdpConnect(i, h)
           \/ \E h \in Host, p \in Eph \cup Fixed : UdpReceive(h, p)
    PROVE  UdpInv'
<1>0. /\ rx \in [UdpSock -> 0 .. Hosts] /\ remote \in [UdpSock -> 0 .. Hosts] /\ heard \in [UdpSock -> BOOLEAN]
      /\ Host \subseteq 0 .. Hosts
  BY PortsAssumption DEF UdpInv, UdpTypeOK, Host, PortsAssumption
<1>1. ASSUME NEW i \in UdpSock, UdpRecv(i) PROVE UdpInv'
  <2>1. rx' = [rx EXCEPT ![i] = 0] /\ UNCHANGED <<used, bound, local, remote, next, heard, sent>>
    BY <1>1, Zenon DEF UdpRecv
  <2>2. rx' \in [UdpSock -> 0 .. Hosts] /\ \A j \in UdpSock : rx'[j] = IF j = i THEN 0 ELSE rx[j]
    BY PortsAssumption, <1>0, <2>1 DEF PortsAssumption
  <2>3. UdpTypeOK' /\ OwnDatagrams'
    BY <2>1, <2>2 DEF UdpInv, UdpTypeOK, OwnDatagrams, Eph, UdpSock
  <2> QED BY <2>1, <2>3, PortsKept
<1>2. ASSUME NEW i \in UdpSock, NEW h \in Host, UdpConnect(i, h) PROVE UdpInv'
  <2>1. remote' = [remote EXCEPT ![i] = h] /\ UNCHANGED <<used, bound, local, rx, next, heard, sent>>
    BY <1>2, Zenon DEF UdpConnect
  <2>2. remote' \in [UdpSock -> 0 .. Hosts]
    BY <1>0, <2>1, Zenon
  <2>3. UdpTypeOK' /\ OwnDatagrams'
    BY <2>1, <2>2, Zenon DEF UdpInv, UdpTypeOK, OwnDatagrams, Eph, UdpSock
  <2> QED BY <2>1, <2>3, PortsKept, Zenon
<1>3. ASSUME NEW h \in Host, NEW p \in Eph \cup Fixed, UdpReceive(h, p) PROVE UdpInv'
  <2>1. PICK i : /\ remote' = [remote EXCEPT ![i] = h] /\ rx' = [rx EXCEPT ![i] = h]
                 /\ heard' = [heard EXCEPT ![i] = TRUE] /\ UNCHANGED <<used, bound, local, next, sent>>
    BY <1>3, Zenon DEF UdpReceive
  <2>2. /\ remote' \in [UdpSock -> 0 .. Hosts] /\ rx' \in [UdpSock -> 0 .. Hosts] /\ heard' \in [UdpSock -> BOOLEAN]
        /\ \A j \in UdpSock : IF j = i THEN heard'[j] ELSE rx'[j] = rx[j] /\ (heard'[j] <=> heard[j])
    <3>0. ASSUME NEW A, NEW f \in [UdpSock -> A], NEW v \in A PROVE [f EXCEPT ![i] = v] \in [UdpSock -> A]
      BY <3>0, Zenon
    <3>1. remote' \in [UdpSock -> 0 .. Hosts] /\ rx' \in [UdpSock -> 0 .. Hosts] /\ heard' \in [UdpSock -> BOOLEAN]
      <4>1. h \in 0 .. Hosts /\ TRUE \in BOOLEAN
        BY <1>0, Zenon
      <4> QED BY <1>0, <2>1, <3>0, <4>1, Zenon
    <3>2. \A j \in UdpSock : IF j = i THEN heard'[j] ELSE rx'[j] = rx[j] /\ (heard'[j] <=> heard[j])
      BY <1>0, <2>1, ZenonT(30)
    <3> QED BY <3>1, <3>2, Zenon
  <2>3. UdpTypeOK' /\ OwnDatagrams'
    BY <2>1, <2>2, Zenon DEF UdpInv, UdpTypeOK, OwnDatagrams, Eph, UdpSock
  <2> QED BY <2>1, <2>3, PortsKept, Zenon
<1> QED BY <1>1, <1>2, <1>3

LEMMA UdpStep == ASSUME UdpInv, [UdpNext]_udpVars PROVE UdpInv'
<1>1. ASSUME NEW i \in UdpSock, UdpCreate(i) \/ UdpClose(i) \/ UdpBindAny(i) \/ UdpRecv(i) PROVE UdpInv'
  BY <1>1, CreateKeeps, CloseKeeps, BindAnyKeeps, BufferKeeps, Zenon
<1>2. ASSUME NEW i \in UdpSock, UdpSend(i) \/ UdpSendTo(i) PROVE UdpInv'
  BY <1>2, TransmitKeeps, Zenon DEF UdpSend, UdpSendTo
<1>3. ASSUME NEW i \in UdpSock, NEW p \in Fixed, Unused(p), UdpBind(i, p) PROVE UdpInv'
  <2>1. /\ used[i] /\ ~bound[i] /\ local' = [local EXCEPT ![i] = p] /\ bound' = [bound EXCEPT ![i] = TRUE]
        /\ sent' = sent /\ next' = next /\ UNCHANGED <<used, remote, rx, heard>>
    BY <1>3, Zenon DEF UdpBind
  <2>2. next' \in Eph /\ \A j \in UdpSock : ~Matches(j, p)
    BY <1>3, <2>1, Zenon DEF UdpInv, UdpTypeOK, Unused
  <2>3. p \in Eph \cup Fixed /\ sent' \in {sent, [sent EXCEPT ![i] = p]}
    BY <2>1, Zenon
  <2> QED BY <2>1, <2>2, <2>3, Named, ZenonT(30)
<1>4. ASSUME \/ \E i \in UdpSock, h \in Host : UdpConnect(i, h)
             \/ \E h \in Host, p \in Eph \cup Fixed : UdpReceive(h, p)
      PROVE  UdpInv'
  BY <1>4, BufferKeeps, Zenon
<1>5. CASE UNCHANGED udpVars
  BY <1>5, Zenon DEF udpVars, UdpInv, UdpTypeOK, PortsApart, SentFromOwn, Unnamed, OwnDatagrams, Matches, Eph, UdpSock
<1> QED BY <1>1, <1>2, <1>3, <1>4, <1>5, ZenonT(30) DEF UdpNext

-----------------------------------------------------------------------------
(* Sockets: TCP, and both tables together.                                  *)

\* The inductive invariant of the TCP table.
TcpInv == tused \subseteq TcpSock /\ DOMAIN tport = TcpSock /\ PortsUnique

\* A socket gets a port that no other one in use has, or gives up its slot.
LEMMA TcpStep == ASSUME TcpInv, [TcpNext]_tcpVars PROVE TcpInv'
<1>1. CASE UNCHANGED tcpVars
  BY <1>1 DEF TcpInv, PortsUnique, tcpVars
<1>2. ASSUME NEW i \in TcpSock, TcpCreate(i) PROVE TcpInv'
  BY <1>2 DEF TcpInv, PortsUnique, TcpCreate
<1>3. ASSUME NEW i \in TcpSock, TcpClose(i) PROVE TcpInv'
  BY <1>3 DEF TcpInv, PortsUnique, TcpClose
<1>4. ASSUME NEW i \in TcpSock, NEW p, i \in tused, ~TakenBy(i, p), tport' = [tport EXCEPT ![i] = p], tused' = tused
      PROVE  TcpInv'
  BY <1>4 DEF TcpInv, PortsUnique, TakenBy
<1>5. ASSUME NEW i \in TcpSock, NEW p \in 1 .. Top, TcpBind(i, p) PROVE TcpInv'
  BY <1>4, <1>5, Zenon DEF TcpBind
<1>6. ASSUME NEW i \in TcpSock, NEW k \in 0 .. (Top - First + 1), TcpConnectPort(i, k) PROVE TcpInv'
  <2>1. CASE ~TakenBy(i, Attempt(k)) /\ tport' = [tport EXCEPT ![i] = Attempt(k)]
    BY <1>4, <1>6, <2>1, Zenon DEF TcpConnectPort
  <2>2. CASE UNCHANGED tport
    BY <1>6, <2>2 DEF TcpConnectPort, TcpInv, PortsUnique
  <2> QED BY <1>6, <2>1, <2>2, Zenon DEF TcpConnectPort
<1> QED BY <1>1, <1>2, <1>3, <1>5, <1>6, Zenon DEF TcpNext

\* Both tables keep their invariant: a step is one of UDP or of TCP.
LEMMA SocketsAlways == SocketsSpec => [](UdpInv /\ TcpInv)
<1>1. SocketsInit => UdpInv /\ TcpInv
  BY UdpStart, Zenon DEF SocketsInit, TcpInit, TcpInv, PortsUnique
<1>2. UdpInv /\ TcpInv /\ [SocketsNext]_socketVars => (UdpInv /\ TcpInv)'
  BY UdpStep, TcpStep, Zenon DEF SocketsNext, socketVars
<1> QED BY <1>1, <1>2, PTL DEF SocketsSpec

\* A reply reaches the socket that asked, however ports and slots are recycled: two
\* open sockets never share a port (udp_ephemeral_port skips the ports in use).
THEOREM RepliesReach == SocketsSpec => []ReplyReaches
<1>1. UdpInv => ReplyReaches
  <2> SUFFICES ASSUME UdpInv, NEW i \in UdpSock, used[i], sent[i] # 0 PROVE Demux(sent[i]) = i
    BY Zenon DEF ReplyReaches
  <2>1. Matches(i, sent[i]) /\ local[i] = sent[i]
    BY Zenon DEF UdpInv, SentFromOwn, Matches
  <2>2. \A j \in UdpSock : Matches(j, sent[i]) => j = i
    BY <2>1, Zenon DEF UdpInv, PortsApart
  <2> QED BY <2>1, <2>2, DemuxFinds, Zenon
<1> QED BY <1>1, SocketsAlways, PTL

\* What an open socket holds was sent to its current owner: udp_socket_create empties
\* the buffer of the slot it reuses.
THEOREM OwnersDatagrams == SocketsSpec => []OwnDatagrams
<1>1. UdpInv => OwnDatagrams
  BY Zenon DEF UdpInv
<1> QED BY <1>1, SocketsAlways, PTL

\* What arrives for a port reaches the program that has the port now, for UDP and for
\* TCP (tcp_bind and tcp_connect take no port that another socket in use has), for any
\* number of sockets and any ports.
THEOREM PortsAreSound == SocketsSpec => []PortsSound
<1>1. TcpInv => PortsUnique
  BY Zenon DEF TcpInv
<1> QED BY <1>1, RepliesReach, OwnersDatagrams, SocketsAlways, PTL DEF PortsSound
=============================================================================
