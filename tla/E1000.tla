-------------------------------- MODULE E1000 --------------------------------
(***************************************************************************)
(* The descriptor rings of net/intel/e1000.c.  Here the driver tells the   *)
(* controller how far it may go: it writes the index behind the last       *)
(* descriptor it filled (TDT), and the index before the first one it has   *)
(* not yet drained (RDT).  The controller works from its own index up to   *)
(* that one, and takes equal indices for an empty ring.  It sets the DD    *)
(* bit of a descriptor it is done with.                                    *)
(*                                                                         *)
(* e1000_send and e1000_rx_poll run with interrupts off, beside the        *)
(* controller.  Frames are numbered in the order of submission and of      *)
(* arrival.                                                                *)
(***************************************************************************)
EXTENDS Integers, Sequences

CONSTANTS NTx, NRx,      \* NUM_TX, NUM_RX
          Sends,         \* calls of e1000_send (bound)
          Arrivals       \* frames that arrive (bound)

VARIABLES
    dd, buf,         \* TX descriptors: DD bit; frame in the buffer (0 none)
    tail, nic,       \* tx_tail, which is also TDT; TDH
    pc, idx,         \* e1000_send: "idle" or "wait"; the descriptor awaited
    frame,           \* the frame being sent: number of the call
    wire, filled, ok,    \* frames that left, were put in a descriptor, got 0
    rdd, rbuf,       \* RX descriptors
    head, rtail,     \* rx_head; rx_tail, which is also RDT
    rnic,            \* RDH
    poll,            \* e1000_rx_poll is draining
    arrived, lost, up    \* frames that arrived, found no room, were handed up

txvars == <<dd, buf, tail, nic, pc, idx, frame, wire, filled, ok>>
rxvars == <<rdd, rbuf, head, rtail, rnic, poll, arrived, lost, up>>
vars   == <<dd, buf, tail, nic, pc, idx, frame, wire, filled, ok, rdd, rbuf,
            head, rtail, rnic, poll, arrived, lost, up>>

Tx == 0 .. NTx - 1
Rx == 0 .. NRx - 1

Init ==
    /\ dd = [i \in Tx |-> TRUE] /\ buf = [i \in Tx |-> 0]
    /\ tail = 0 /\ nic = 0 /\ pc = "idle" /\ idx = 0 /\ frame = 0
    /\ wire = <<>> /\ filled = {} /\ ok = {}
    /\ rdd = [i \in Rx |-> FALSE] /\ rbuf = [i \in Rx |-> 0]
    /\ head = 0 /\ rtail = NRx - 1 /\ rnic = 0 /\ poll = FALSE
    /\ arrived = 0 /\ lost = {} /\ up = <<>>

-----------------------------------------------------------------------------
(* e1000_send *)

Free(i) == dd[i]

NextTx(i) == (i + 1) % NTx

Send ==
    /\ pc = "idle" /\ frame < Sends /\ Free(tail)
    /\ frame' = frame + 1
    /\ buf' = [buf EXCEPT ![tail] = frame']
    /\ dd' = [dd EXCEPT ![tail] = FALSE]
    /\ filled' = filled \cup {frame'}
    /\ idx' = tail /\ tail' = NextTx(tail) /\ pc' = "wait"
    /\ UNCHANGED <<nic, wire, ok, rxvars>>

\* "tx desc busy"
Busy ==
    /\ pc = "idle" /\ frame < Sends /\ ~dd[tail]
    /\ frame' = frame + 1
    /\ UNCHANGED <<dd, buf, tail, nic, pc, idx, wire, filled, ok, rxvars>>

Done == dd[idx]

Sent ==
    /\ pc = "wait" /\ Done
    /\ pc' = "idle" /\ ok' = ok \cup {frame}
    /\ UNCHANGED <<dd, buf, tail, nic, idx, frame, wire, filled, rxvars>>

\* "tx dd timeout"
TxTimeout ==
    /\ pc = "wait" /\ ~dd[idx]
    /\ pc' = "idle"
    /\ UNCHANGED <<dd, buf, tail, nic, idx, frame, wire, filled, ok, rxvars>>

-----------------------------------------------------------------------------
(* e1000_rx_poll, from the interrupt or from netif_poll *)

Poll ==
    /\ ~poll /\ pc = "idle"
    /\ poll' = TRUE
    /\ UNCHANGED <<txvars, rdd, rbuf, head, rtail, rnic, arrived, lost, up>>

NextRtail == (rtail + 1) % NRx

Take ==
    /\ poll /\ pc = "idle" /\ rdd[head]
    /\ up' = Append(up, rbuf[head])
    /\ rdd' = [rdd EXCEPT ![head] = FALSE]
    /\ head' = (head + 1) % NRx /\ rtail' = NextRtail
    /\ UNCHANGED <<txvars, rbuf, rnic, poll, arrived, lost>>

PollEnd ==
    /\ poll /\ pc = "idle" /\ ~rdd[head]
    /\ poll' = FALSE
    /\ UNCHANGED <<txvars, rdd, rbuf, head, rtail, rnic, arrived, lost, up>>

-----------------------------------------------------------------------------
(* The controller (external): it fills any descriptor up to RDT, whatever   *)
(* its DD bit says.                                                         *)

NicSend ==
    /\ nic # tail
    /\ wire' = Append(wire, buf[nic])
    /\ dd' = [dd EXCEPT ![nic] = TRUE]
    /\ nic' = (nic + 1) % NTx
    /\ UNCHANGED <<buf, tail, pc, idx, frame, filled, ok, rxvars>>

NicReceive ==
    /\ arrived < Arrivals
    /\ arrived' = arrived + 1
    /\ UNCHANGED <<txvars, head, rtail, poll, up>>
    /\ \/ /\ rnic # rtail
          /\ rbuf' = [rbuf EXCEPT ![rnic] = arrived']
          /\ rdd' = [rdd EXCEPT ![rnic] = TRUE]
          /\ rnic' = (rnic + 1) % NRx /\ UNCHANGED lost
       \/ /\ rnic = rtail
          /\ lost' = lost \cup {arrived'} /\ UNCHANGED <<rbuf, rdd, rnic>>

Next == \/ Send \/ Busy \/ Sent \/ TxTimeout \/ NicSend
        \/ Poll \/ Take \/ PollEnd \/ NicReceive

Spec == Init /\ [][Next]_vars

-----------------------------------------------------------------------------
(* Properties. *)

\* The types of the state.
TypeOK ==
    /\ dd \in [Tx -> BOOLEAN] /\ buf \in [Tx -> 0 .. Sends]
    /\ tail \in Tx /\ nic \in Tx /\ idx \in Tx /\ pc \in {"idle", "wait"}
    /\ rdd \in [Rx -> BOOLEAN] /\ rbuf \in [Rx -> 0 .. Arrivals]
    /\ head \in Rx /\ rtail \in Rx /\ rnic \in Rx /\ poll \in BOOLEAN

\* A frame that was given to the controller leaves once and in order, or is
\* still in its descriptor: none is overwritten, also after waits that timed
\* out (e1000_send refuses a descriptor whose DD bit is clear).
WireExact ==
    /\ \A i, j \in 1 .. Len(wire) : i < j => wire[i] < wire[j]
    /\ \A f \in filled : \/ \E i \in 1 .. Len(wire) : wire[i] = f
                         \/ \E i \in Tx : ~dd[i] /\ buf[i] = f

\* A send that returns 0 has put its frame on the wire ("TDH only proves the
\* NIC fetched the descriptor, not that the frame left the wire").
OkIsSent == \A f \in ok : \E i \in 1 .. Len(wire) : wire[i] = f

\* Every frame that found room is handed up once, in order of arrival: the
\* controller never reaches a descriptor that is still to be drained
\* (e1000_rx_poll keeps RDT one behind rx_head).
UpExact ==
    /\ \A i, j \in 1 .. Len(up) : i < j => up[i] < up[j]
    /\ \E k \in 0 .. arrived : {up[i] : i \in 1 .. Len(up)} = (1 .. k) \ lost
=============================================================================
