-------------------------------- MODULE Tftp --------------------------------
(***************************************************************************)
(* The TFTP client of net/tftp.c: tftp_download over a network that loses, *)
(* duplicates and reorders datagrams, with the UDP socket it uses.         *)
(*                                                                         *)
(* A server answers every read request from a port of its own, the         *)
(* transfer ID (TID): transfer t sends the blocks of the file from TID t.  *)
(* Another host may also send a datagram to the client's port.  The socket *)
(* holds ONE received datagram and remembers where the last one came from  *)
(* (tremote); an interrupt may deliver the next one as soon as              *)
(* udp_recvfrom has emptied the buffer, so receiving a datagram and        *)
(* acting on it are two steps here.                                        *)
(*                                                                         *)
(* A block is identified by its transfer and its position, so blocks shows *)
(* which blocks of which transfer the caller is given.                     *)
(***************************************************************************)
EXTENDS Integers, Sequences, FiniteSets

CONSTANTS
    NBlocks,     \* blocks of the file; the last one is short
    M,           \* block numbers are modulo M (65536 in the code)
    Attempts,    \* TFTP_ATTEMPTS
    Tids,        \* transfers the server can start (1 .. n)
    Resends,     \* times the server repeats a block in all (bound)
    Cap,         \* datagrams under way in each direction (bound)
    Dup,         \* the network may deliver a datagram twice
    Strays       \* datagrams of the other host (bound)

VARIABLES
    tpc,         \* "rrq", "wait", "got" (a datagram was read) or "done"
    rc,          \* 0 success, -1
    attempt, timeouts, expected,
    tid,         \* tid_port: 0 until tids_seen
    blocks,      \* the blocks appended so far
    trx,         \* the socket's receive buffer: at most one datagram
    tremote,     \* sock->remote_ip/remote_port: the last datagram's source
    pkt,         \* the datagram tftp_download works on (set of at most one)
    toClient, toServer,    \* datagrams under way
    cur,         \* server: position of the block transfer t is sending, 0 none
    resends, strays

client == <<tpc, rc, attempt, timeouts, expected, tid, blocks, pkt>>
sock   == <<trx, tremote>>
tftpVars == <<tpc, rc, attempt, timeouts, expected, tid, blocks, pkt, trx, tremote,
              toClient, toServer, cur, resends, strays>>

T     == 1 .. Tids
Other == Tids + 1            \* the other host
Port69 == 0                  \* the server's well-known port

\* udp_sendto of the client: the datagram is lost, or under way.  Only what
\* goes to the server has an effect.
UnderWay(net, m) == {net} \cup {n \in {net \cup {m}} : Cardinality(n) <= Cap}

Rrq      == [op |-> "RRQ", to |-> Port69, b |-> 0]
Ack(b)   == [op |-> "ACK", to |-> tremote, b |-> b % M]
Data(t, k) == [op |-> "DATA", from |-> t, b |-> k % M, pos |-> k]
Error(t)   == [op |-> "ERROR", from |-> t, b |-> 0, pos |-> 0]
Stray      == [op |-> "STRAY", from |-> Other, b |-> 0, pos |-> 0]

\* the socket starts with remote_ip = server_ip; -1 stands for "no datagram
\* received yet", whose port is whatever the previous owner left
TftpInit ==
    /\ tpc = "rrq" /\ rc = -1 /\ attempt = 0 /\ timeouts = 0
    /\ expected = 1 % M /\ tid = 0 /\ blocks = <<>> /\ pkt = {}
    /\ trx = {} /\ tremote = -1
    /\ toClient = {} /\ toServer = {}
    /\ cur = [t \in T |-> 0]
    /\ resends = 0 /\ strays = 0

-----------------------------------------------------------------------------
(* The client. *)

\* leaving the outer loop, by its condition or by goto out
Out(r) == tpc' = "done" /\ rc' = r

\* tftp_send_rrq goes to sock->remote_ip, port 69
SendRrq ==
    /\ tpc = "rrq" /\ attempt < Attempts
    /\ attempt' = attempt + 1
    /\ UNCHANGED <<rc, expected, tid, blocks, pkt, sock, toClient, cur, resends,
                   strays>>
    /\ \/ /\ tpc' = "wait" /\ timeouts' = 0
          /\ IF tremote = Other THEN UNCHANGED toServer
                               ELSE toServer' \in UnderWay(toServer, Rrq)
       \/ tpc' = "rrq" /\ UNCHANGED <<timeouts, toServer>>    \* send failed

GiveUp ==
    /\ tpc = "rrq" /\ attempt = Attempts
    /\ Out(-1)
    /\ UNCHANGED <<attempt, timeouts, expected, tid, blocks, pkt, sock, toClient,
                   toServer, cur, resends, strays>>

\* udp_recvfrom empties the receive buffer
TftpRecv ==
    /\ tpc = "wait" /\ trx # {}
    /\ pkt' = trx /\ trx' = {} /\ tpc' = "got" /\ timeouts' = 0
    /\ UNCHANGED <<rc, attempt, expected, tid, blocks, tremote, toClient, toServer,
                   cur, resends, strays>>

\* tftp_send_ack: lost or under way, and the client cannot tell; a failed
\* send is reported to the caller
AckSent(b) == toServer' \in UnderWay(toServer, Ack(b))

\* mutant: the re-ACKs are not counted
Uncounted == timeouts

Counted == timeouts + 1                     \* ++timeouts

Stalled == Counted > Attempts               \* "peer stalled, aborting"

\* udp_recvfrom timed out
Timeout ==
    /\ tpc = "wait" /\ trx = {}
    /\ UNCHANGED <<attempt, expected, tid, blocks, pkt, sock, toClient, cur,
                   resends, strays>>
    /\ \/ /\ blocks = <<>> \/ expected = 1          \* re-send the request
          /\ tpc' = "rrq" /\ UNCHANGED <<rc, timeouts, toServer>>
       \/ /\ blocks # <<>> /\ expected # 1
          /\ timeouts' = Counted
          /\ \/ /\ Stalled
                /\ Out(-1) /\ UNCHANGED toServer
             \/ /\ ~Stalled
                /\ \/ AckSent((expected + M - 1) % M) /\ UNCHANGED <<tpc, rc>>
                   \/ Out(-1) /\ UNCHANGED toServer

\* mutant: a block of any transfer is taken
OfTidAny(p) == TRUE

\* is the datagram a block of the transfer the client is locked on (or the
\* first block it sees)?
OfTid(p) == tid = 0 \/ p.from = tid

\* the rest of the loop body, on the datagram just read
Skip(p) ==
    /\ \/ p.op = "STRAY"
       \/ p.op = "DATA" /\ ~OfTid(p)
    /\ tpc' = "wait" /\ UNCHANGED <<rc, expected, tid, blocks, toServer>>

ServerError(p) ==
    /\ p.op = "ERROR"
    /\ Out(-1) /\ UNCHANGED <<expected, tid, blocks, toServer>>

OldBlock(p) ==
    /\ p.op = "DATA" /\ OfTid(p) /\ p.b < expected
    /\ tid' = p.from
    /\ AckSent(p.b)
    /\ tpc' = "wait" /\ UNCHANGED <<rc, expected, blocks>>

FutureBlock(p) ==
    /\ p.op = "DATA" /\ OfTid(p) /\ p.b > expected
    /\ tid' = p.from
    /\ tpc' = "wait" /\ UNCHANGED <<rc, expected, blocks, toServer>>

IsNext(p) == p.b = expected

NextBlock(p) ==
    /\ p.op = "DATA" /\ OfTid(p) /\ IsNext(p)
    /\ tid' = p.from
    /\ \/ /\ blocks' = Append(blocks, [from |-> p.from, pos |-> p.pos])
          /\ AckSent(p.b)
          /\ expected' = (expected + 1) % M
          /\ IF p.pos = NBlocks THEN Out(0)             \* dlen < 512
                                ELSE tpc' = "wait" /\ UNCHANGED rc
       \/ Out(-1) /\ UNCHANGED <<expected, blocks, toServer>>   \* no memory
       \/ /\ blocks' = Append(blocks, [from |-> p.from, pos |-> p.pos])
          /\ Out(-1) /\ UNCHANGED <<expected, toServer>>     \* ACK not sent

Process ==
    /\ tpc = "got"
    /\ pkt' = {}
    /\ \E p \in pkt : \/ Skip(p) \/ ServerError(p) \/ OldBlock(p)
                      \/ FutureBlock(p) \/ NextBlock(p)
    /\ UNCHANGED <<attempt, timeouts, sock, toClient, cur, resends, strays>>

Client == SendRrq \/ GiveUp \/ TftpRecv \/ Timeout \/ Process

-----------------------------------------------------------------------------
(* The network, and udp_receive: the datagram is dropped when the buffer    *)
(* is full (or the socket is closed).                                       *)

Deliver(m) ==
    /\ m \in toClient /\ tpc # "done"
    /\ IF trx = {} THEN trx' = {m} /\ tremote' = m.from ELSE UNCHANGED sock
    /\ toClient' \in {toClient \ {m}} \cup (IF Dup THEN {toClient} ELSE {})
    /\ UNCHANGED <<client, toServer, cur, resends, strays>>

-----------------------------------------------------------------------------
(* The server and the other host (external).                                *)

ServerRrq ==
    /\ Rrq \in toServer
    /\ toServer' = toServer \ {Rrq}
    /\ \E t \in T :
          /\ cur[t] = 0 /\ \A u \in T : u < t => cur[u] # 0
          /\ cur' = [cur EXCEPT ![t] = 1]
          /\ toClient' \in UnderWay(toClient, Data(t, 1))
                           \cup UnderWay(toClient, Error(t))
    /\ UNCHANGED <<client, sock, resends, strays>>

\* an ACK of the block being sent moves the transfer on
ServerAck(m) ==
    /\ m \in toServer /\ m.op = "ACK"
    /\ toServer' = toServer \ {m}
    /\ UNCHANGED <<client, sock, resends, strays>>
    /\ \/ /\ m.to \in T /\ cur[m.to] \in 1 .. NBlocks
          /\ m.b = cur[m.to] % M
          /\ cur' = [cur EXCEPT ![m.to] = @ + 1]
          /\ IF cur[m.to] < NBlocks
             THEN toClient' \in UnderWay(toClient, Data(m.to, cur[m.to] + 1))
             ELSE UNCHANGED toClient
       \/ /\ ~(m.to \in T /\ cur[m.to] \in 1 .. NBlocks
                          /\ m.b = cur[m.to] % M)
          /\ UNCHANGED <<cur, toClient>>

ServerResend(t) ==
    /\ resends < Resends /\ cur[t] \in 1 .. NBlocks
    /\ resends' = resends + 1
    /\ toClient' \in UnderWay(toClient, Data(t, cur[t]))
    /\ UNCHANGED <<client, sock, toServer, cur, strays>>

SendStray ==
    /\ strays < Strays
    /\ strays' = strays + 1
    /\ toClient' \in UnderWay(toClient, Stray)
    /\ UNCHANGED <<client, sock, toServer, cur, resends>>

Server == ServerRrq \/ (\E m \in toServer : ServerAck(m))
          \/ (\E t \in T : ServerResend(t)) \/ SendStray

\* tftp_download has returned
Returned == tpc = "done"
Over == Returned /\ UNCHANGED tftpVars

TftpNext == Client \/ (\E m \in toClient : Deliver(m)) \/ Server \/ Over

TftpSpec == TftpInit /\ [][TftpNext]_tftpVars

-----------------------------------------------------------------------------
(* Properties. *)

\* The types of the state; the two retry counters stay within their bounds.
TftpTypeOK ==
    /\ tpc \in {"rrq", "wait", "got", "done"} /\ rc \in {0, -1}
    /\ attempt \in 0 .. Attempts /\ timeouts \in 0 .. Attempts + 1
    /\ expected \in 0 .. M - 1 /\ tid \in 0 .. Tids
    /\ tremote \in -1 .. Other
    /\ Cardinality(trx) <= 1 /\ Cardinality(pkt) <= 1
    /\ Cardinality(toClient) <= Cap /\ Cardinality(toServer) <= Cap

\* A download that succeeds hands over the whole file: every block exactly
\* once, in order, and all of them from one transfer, whatever the network
\* lost, repeated or reordered and however many requests were sent
\* (tftp_download's *out_buf).
FileExact ==
    rc = 0 => \E t \in T : blocks = [k \in 1 .. NBlocks |-> [from |-> t, pos |-> k]]
=============================================================================
