------------------------------- MODULE Rtl8111 -------------------------------
(***************************************************************************)
(* The descriptor rings of net/realtek/rtl8111.c.  A descriptor carries an *)
(* Own bit: set, it belongs to the controller, clear, to the driver.  The  *)
(* driver and the controller each keep an index of their own into the ring *)
(* and never tell the other: the rings work as long as the two indices     *)
(* stay in step.                                                           *)
(*                                                                         *)
(* rtl8111_send runs with interrupts off and waits, for a bounded time,    *)
(* until the descriptor is free and again until the frame has left; the    *)
(* controller runs beside it.  rtl8111_rx_poll drains the receive ring     *)
(* with interrupts off.  Frames are numbered in the order of submission    *)
(* and of arrival.                                                         *)
(***************************************************************************)
EXTENDS Naturals, Sequences

CONSTANTS NTx, NRx,      \* NUM_TX, NUM_RX
          Sends,         \* calls of rtl8111_send (bound)
          Arrivals,      \* frames that arrive (bound)
          Budget         \* frames one poll takes (32 in the code)

VARIABLES
    own, buf,        \* TX descriptors: Own bit; frame in the buffer (0 none)
    cur, nic,        \* tx_cur; the controller's own index
    pc,              \* rtl8111_send: "idle", "free" or "sent" (the two waits)
    frame,           \* the frame being sent: number of the call
    wire,            \* frames that left
    filled,          \* frames put into a descriptor
    ok,              \* calls that returned 0
    rown, rbuf,      \* RX descriptors
    rcur, rnic,      \* rx_cur; the controller's own index
    n,               \* frames taken by the poll under way, Budget when none
    arrived, lost,   \* frames that arrived; those that found no descriptor
    up               \* frames handed to netif_receive

txvars == <<own, buf, cur, nic, pc, frame, wire, filled, ok>>
rxvars == <<rown, rbuf, rcur, rnic, n, arrived, lost, up>>
vars   == <<own, buf, cur, nic, pc, frame, wire, filled, ok, rown, rbuf,
            rcur, rnic, n, arrived, lost, up>>

Tx == 0 .. NTx - 1
Rx == 0 .. NRx - 1

Init ==
    /\ own = [i \in Tx |-> FALSE] /\ buf = [i \in Tx |-> 0]
    /\ cur = 0 /\ nic = 0 /\ pc = "idle" /\ frame = 0 /\ wire = <<>>
    /\ filled = {} /\ ok = {}
    /\ rown = [i \in Rx |-> TRUE] /\ rbuf = [i \in Rx |-> 0]
    /\ rcur = 0 /\ rnic = 0 /\ n = Budget /\ arrived = 0 /\ lost = {}
    /\ up = <<>>

-----------------------------------------------------------------------------
(* rtl8111_send *)

\* interrupts are off in a send and in a poll: neither starts in the other
\* (a send out of netif_receive is the send between two frames of a poll)
Send ==
    /\ pc = "idle" /\ frame < Sends
    /\ frame' = frame + 1 /\ pc' = "free"
    /\ UNCHANGED <<own, buf, cur, nic, wire, filled, ok, rxvars>>

MayFill(i) == ~own[i]

\* the descriptor is free: copy the frame, set Own, ring the doorbell
Fill ==
    /\ pc = "free" /\ MayFill(cur)
    /\ buf' = [buf EXCEPT ![cur] = frame]
    /\ own' = [own EXCEPT ![cur] = TRUE]
    /\ pc' = "sent"
    /\ filled' = filled \cup {frame}
    /\ UNCHANGED <<cur, nic, frame, wire, ok, rxvars>>

\* "tx desc stuck"
Stuck ==
    /\ pc = "free" /\ own[cur]
    /\ pc' = "idle"
    /\ UNCHANGED <<own, buf, cur, nic, frame, wire, filled, ok, rxvars>>

Completed == ~own[cur]

\* the controller cleared Own
Sent ==
    /\ pc = "sent" /\ Completed
    /\ cur' = (cur + 1) % NTx /\ ok' = ok \cup {frame}
    /\ pc' = "idle"
    /\ UNCHANGED <<own, buf, nic, frame, wire, filled, rxvars>>

\* "tx timeout": the descriptor stays with the controller, and tx_cur where
\* it is
TxTimeout ==
    /\ pc = "sent" /\ own[cur]
    /\ pc' = "idle"
    /\ UNCHANGED <<own, buf, cur, nic, frame, wire, filled, ok, rxvars>>

-----------------------------------------------------------------------------
(* rtl8111_rx_poll: from the interrupt or from netif_poll.                  *)

Poll ==
    /\ n = Budget /\ pc = "idle"
    /\ n' = 0
    /\ UNCHANGED <<txvars, rown, rbuf, rcur, rnic, arrived, lost, up>>

Filled == ~rown[rcur]

\* mutant: the index does not move on
SameRx == rcur

NextRx == (rcur + 1) % NRx

Take ==
    /\ n < Budget /\ pc = "idle" /\ Filled
    /\ up' = Append(up, rbuf[rcur])
    /\ rown' = [rown EXCEPT ![rcur] = TRUE]
    /\ rcur' = NextRx /\ n' = n + 1
    /\ UNCHANGED <<txvars, rbuf, rnic, arrived, lost>>

PollEnd ==
    /\ n < Budget /\ pc = "idle" /\ rown[rcur]
    /\ n' = Budget
    /\ UNCHANGED <<txvars, rown, rbuf, rcur, rnic, arrived, lost, up>>

-----------------------------------------------------------------------------
(* The controller (external): it looks only at the descriptor its own       *)
(* index names.                                                             *)

NicSend ==
    /\ own[nic]
    /\ wire' = Append(wire, buf[nic])
    /\ own' = [own EXCEPT ![nic] = FALSE]
    /\ nic' = (nic + 1) % NTx
    /\ UNCHANGED <<buf, cur, pc, frame, filled, ok, rxvars>>

NicReceive ==
    /\ arrived < Arrivals
    /\ arrived' = arrived + 1
    /\ UNCHANGED <<txvars, rcur, n, up>>
    /\ \/ /\ rown[rnic]
          /\ rbuf' = [rbuf EXCEPT ![rnic] = arrived']
          /\ rown' = [rown EXCEPT ![rnic] = FALSE]
          /\ rnic' = (rnic + 1) % NRx /\ UNCHANGED lost
       \/ /\ ~rown[rnic]                                   \* ring full
          /\ lost' = lost \cup {arrived'} /\ UNCHANGED <<rbuf, rown, rnic>>

Next == \/ Send \/ Fill \/ Stuck \/ Sent \/ TxTimeout \/ NicSend
        \/ Poll \/ Take \/ PollEnd \/ NicReceive

Spec == Init /\ [][Next]_vars

-----------------------------------------------------------------------------
(* Properties. *)

\* The types of the state.
TypeOK ==
    /\ own \in [Tx -> BOOLEAN] /\ buf \in [Tx -> 0 .. Sends]
    /\ cur \in Tx /\ nic \in Tx /\ pc \in {"idle", "free", "sent"}
    /\ frame \in 0 .. Sends /\ ok \subseteq 1 .. Sends
    /\ rown \in [Rx -> BOOLEAN] /\ rbuf \in [Rx -> 0 .. Arrivals]
    /\ rcur \in Rx /\ rnic \in Rx /\ n \in 0 .. Budget

\* A frame that was given to the controller leaves once and in order, or is
\* still in its descriptor: none is overwritten in its buffer, also after
\* waits that timed out (rtl8111_send: "never overwrite a descriptor the
\* controller may still be DMA-reading").
WireExact ==
    /\ \A i, j \in 1 .. Len(wire) : i < j => wire[i] < wire[j]
    /\ \A f \in filled : \/ \E i \in 1 .. Len(wire) : wire[i] = f
                         \/ \E i \in Tx : own[i] /\ buf[i] = f

\* A send that returns 0 has put its frame on the wire ("NIC clears Own once
\* the frame left the wire").
OkIsSent == \A f \in ok : \E i \in 1 .. Len(wire) : wire[i] = f

\* Every frame that found a descriptor is handed up once, in order of arrival,
\* however polls, the interrupt and the arrivals interleave (rtl8111_rx_poll).
UpExact ==
    LET kept == SelectSeq([i \in 1 .. arrived |-> i], LAMBDA f : f \notin lost)
    IN  \E k \in 0 .. Len(kept) : up = SubSeq(kept, 1, k)

\* A frame in the ring is not left there: the polls reach it, also when more
\* frames wait than one poll takes.
Drained == \A i \in Rx : (~rown[i]) ~> rown[i]

=============================================================================
