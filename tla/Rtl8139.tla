------------------------------- MODULE Rtl8139 -------------------------------
(***************************************************************************)
(* The receive ring and the transmit buffers of net/realtek/rtl8139.c.     *)
(*                                                                         *)
(* Reception: the controller writes each frame byte-wise into a circular   *)
(* buffer, behind a 4-byte header, aligned to 4; the driver finds the next *)
(* frame at CAPR + 16, follows its length and writes CAPR.  A cell of the  *)
(* ring is <<frame, k>>, byte k of what the controller wrote for a frame;  *)
(* bytes 0 .. 3 are the header.                                            *)
(*                                                                         *)
(* Transmission: TX_DESC_COUNT buffers used in turn; a buffer that was     *)
(* used before is awaited for a bounded time.                              *)
(***************************************************************************)
EXTENDS Integers, Sequences

CONSTANTS R,         \* RX_BUF_SIZE
          Lens,      \* frame lengths, with the 4 bytes of CRC
          Pad,       \* the offset between CAPR and the read pointer (16)
          W,         \* CAPR is modulo W (2^16)
          Arrivals,  \* frames that arrive (bound)
          MaxPacket, \* NET_MAX_PACKET: the longest frame without its CRC
          Budget,    \* frames one poll takes (32)
          NTx,       \* TX_DESC_COUNT
          Sends      \* calls of rtl8139_send (bound)

VARIABLES
    ring, cbr,       \* the ring's bytes; the controller's write offset
    capr,            \* the register
    len, ok,         \* length and status of each frame written to the ring
    arrived,         \* frames that arrived
    taken,           \* frames the driver went past
    n,               \* frames taken by the poll under way, Budget when none
    up,              \* what was handed to netif_receive
    tsd,             \* TX status of each buffer, see NicFetch
    pending, cur,    \* tx_pending_mask, tx_current
    frame            \* calls of send

rxvars == <<ring, cbr, capr, len, ok, arrived, taken, n, up>>
txvars == <<tsd, pending, cur, frame>>
vars   == <<ring, cbr, capr, len, ok, arrived, taken, n, up, tsd, pending,
            cur, frame>>

Cells == 0 .. R - 1
Tx    == 0 .. NTx - 1
Junk  == <<0, 0>>

Init ==
    /\ ring = [c \in Cells |-> Junk] /\ cbr = 0 /\ capr = (0 - Pad) % W
    /\ len = <<>> /\ ok = <<>> /\ arrived = 0 /\ taken = 0
    /\ n = Budget /\ up = <<>>
    /\ tsd = [i \in Tx |-> "idle"]
    /\ pending = {} /\ cur = 0 /\ frame = 0

\* x & ~3 of x + 3
Round4(k) == ((k + 3) \div 4) * 4

\* the offset the driver reads at
Offset == ((capr + Pad) % W) % R

-----------------------------------------------------------------------------
(* The controller (external). *)

Space == 1 + ((Offset - cbr + R - 1) % R)       \* an empty ring has R bytes

NicReceive(l, good) ==
    /\ arrived < Arrivals
    /\ arrived' = arrived + 1
    /\ UNCHANGED <<capr, taken, n, up, txvars>>
    /\ LET size == ((l + 4 + 3) \div 4) * 4
       IN  \/ /\ size < Space
              /\ ring' = [c \in Cells |->
                            LET k == (c - cbr) % R
                            IN  IF k < size THEN <<Len(len) + 1, k>> ELSE ring[c]]
              /\ cbr' = (cbr + size) % R
              /\ len' = Append(len, l)
              /\ ok' = Append(ok, good)
           \/ size >= Space /\ UNCHANGED <<ring, cbr, len, ok>>

\* The status of a buffer: "idle" and "fifo" have bit 13 set, "dma" and
\* "sent" have TOK clear and set.  Writing the length clears the bit; the
\* controller sets it when it has fetched the buffer (TxHostOwns, as the
\* other driver for this controller names it) and then TOK.
NicFetch(i) ==
    /\ tsd[i] = "dma"
    /\ tsd' = [tsd EXCEPT ![i] = "fifo"]
    /\ UNCHANGED <<rxvars, pending, cur, frame>>

NicSent(i) ==
    /\ tsd[i] = "fifo"
    /\ tsd' = [tsd EXCEPT ![i] = "sent"]
    /\ UNCHANGED <<rxvars, pending, cur, frame>>

-----------------------------------------------------------------------------
(* rtl8139_rx_poll: from the interrupt or from netif_poll.  Interrupts are  *)
(* off, but the controller goes on writing between two frames.              *)

Poll ==
    /\ n = Budget
    /\ n' = 0
    /\ UNCHANGED <<ring, cbr, capr, len, ok, arrived, taken, up, txvars>>

\* mutant: a frame is handed up where it lies, also across the end
Straight(o, l) == TRUE

InOnePiece(o, l) == R - o >= l + 4

\* the bytes of the frame: in place, or reassembled across the end
Bytes(o, l) ==
    [k \in 1 .. l - 4 |->
        IF InOnePiece(o, l)
        THEN IF o + 3 + k \in Cells THEN ring[o + 3 + k] ELSE Junk
        ELSE ring[(o + 3 + k) % R]]

Header(o) == [k \in 0 .. 3 |-> ring[(o + k) % R]]

\* the frames whose header is at o: none if these bytes are no header
HeaderOf(o) ==
    {f \in 1 .. Len(len) : Header(o) = [k \in 0 .. 3 |-> <<f, k>>]}

MoveTo(o) == capr' = ((Round4(o) % R) - Pad) % W

Deliverable(f) == ok[f] /\ len[f] > 4 /\ len[f] - 4 <= MaxPacket

\* one round of the loop
Take ==
    /\ n < Budget /\ Offset # cbr
    /\ n' = n + 1
    /\ taken' = taken + 1
    /\ IF HeaderOf(Offset) = {}
       THEN /\ MoveTo(Offset + 4)
            /\ UNCHANGED up
       ELSE \E f \in HeaderOf(Offset) :
               /\ up' = IF Deliverable(f) THEN Append(up, Bytes(Offset, len[f]))
                                          ELSE up
               /\ MoveTo(Offset + len[f] + 4)
    /\ UNCHANGED <<ring, cbr, len, ok, arrived, txvars>>

PollEnd ==
    /\ n < Budget /\ Offset = cbr
    /\ n' = Budget
    /\ UNCHANGED <<ring, cbr, capr, len, ok, arrived, taken, up, txvars>>

-----------------------------------------------------------------------------
(* rtl8139_send.  A buffer that was used before is awaited while TOK is     *)
(* clear and bit 13 is set, for a bounded time; then it is filled.          *)

Awaited == cur \in pending /\ tsd[cur] = "fifo"

Fill ==
    /\ frame < Sends
    /\ frame' = frame + 1
    /\ tsd' = [tsd EXCEPT ![cur] = "dma"]
    /\ pending' = pending \cup {cur}
    /\ cur' = (cur + 1) % NTx
    /\ UNCHANGED rxvars

Send == ~Awaited /\ Fill

\* "tx wait timeout on desc": it goes on all the same
SendLate == Awaited /\ Fill

Next ==
    \/ Poll \/ Take \/ PollEnd \/ Send \/ SendLate
    \/ \E l \in Lens, good \in BOOLEAN : NicReceive(l, good)
    \/ \E i \in Tx : NicFetch(i) \/ NicSent(i)

Spec == Init /\ [][Next]_vars

-----------------------------------------------------------------------------
(* Properties. *)

\* The types of the state.
TypeOK ==
    /\ cbr \in Cells /\ cbr % 4 = 0 /\ capr \in 0 .. W - 1
    /\ n \in 0 .. Budget /\ cur \in Tx /\ pending \subseteq Tx
    /\ tsd \in [Tx -> {"idle", "dma", "fifo", "sent"}]
    /\ taken \in 0 .. Arrivals

\* Every good frame the controller wrote is handed up whole, once and in
\* order, also one that lies across the end of the ring, and without its CRC
\* (rtl8139_rx_poll).
UpExact ==
    LET Want == SelectSeq([i \in 1 .. Len(len) |-> i], Deliverable)
    IN  \A i \in 1 .. Len(up) :
            /\ i <= Len(Want)
            /\ up[i] = [k \in 1 .. len[Want[i]] - 4 |-> <<Want[i], k + 3>>]

\* The read offset is always at the header of the oldest frame the driver has
\* not gone past, or at the write offset: driver and controller never lose
\* step ("would desync CAPR from the hardware write pointer").
InStep ==
    IF taken = Len(len) THEN Offset = cbr
    ELSE ring[Offset] = <<taken + 1, 0>>

=============================================================================
