------------------------------ MODULE Sockets ------------------------------
(***************************************************************************)
(* The tables of UDP and TCP sockets and their local ports.                *)
(*                                                                         *)
(* UDP (net/udp.c), as the system calls of core/syscall_lnx.c and the      *)
(* kernel's own clients use it: creation, bind, connect, sending with and  *)
(* without an address, demultiplexing of received datagrams to the         *)
(* one-datagram buffers, reading, closing.  A closed socket keeps its      *)
(* fields: udp_socket_close only clears used, and udp_socket_create does   *)
(* not touch the peer.  A datagram is identified by the host that sent it. *)
(*                                                                         *)
(* TCP (net/tcp.c): creation, bind, the choice of a port by connect, and   *)
(* close.                                                                  *)
(***************************************************************************)
EXTENDS Integers, FiniteSets

CONSTANTS
    NSock,       \* UDP_MAX_SOCKETS
    Hosts,       \* 1 .. Hosts are the peers; 0 is "no peer"
    EphLo, EphHi,    \* the ephemeral ports (49152 and 65535)
    Fixed,       \* a set of ports a program may bind explicitly
    NTcp,        \* TCP_MAX_SOCKETS
    First, Top   \* TCP's first ephemeral port (49152), and the largest port

\* Port 0 is no port.
ASSUME PortsAssumption ==
    /\ {NSock, Hosts, NTcp} \subseteq Nat
    /\ EphLo \in Nat \ {0} /\ EphHi \in Nat /\ EphLo <= EphHi
    /\ Fixed \subseteq Nat \ {0}
    /\ First \in Nat \ {0} /\ Top \in Nat /\ First <= Top

VARIABLES
    used, bound, local,      \* sockets[i].used, .bound, .local_port
    remote,                  \* sockets[i].remote_ip/.remote_port
    rx,                      \* rx_buf: host that sent what it holds, 0 empty
    next,                    \* the static next of udp_ephemeral_port
    \* what the current owner of the socket did (for the properties)
    heard,                   \* it was sent a datagram
    sent,                    \* the port its last datagram left from, 0 none
    \* the TCP sockets
    tused,                   \* those in use
    tport,                   \* local_port; 0 before bind and connect
    tnext                    \* connect's bump pointer, a uint16_t

udpVars == <<used, bound, local, remote, rx, next, heard, sent>>
tcpVars == <<tused, tport, tnext>>

UdpSock == 1 .. NSock
TcpSock == 1 .. NTcp
Host == 1 .. Hosts
Eph  == EphLo .. EphHi

-----------------------------------------------------------------------------
(* UDP.                                                                    *)

Matches(i, p) == used[i] /\ bound[i] /\ local[i] = p

\* the socket udp_receive finds for a port, 0 if none: the first in the table
Demux(p) ==
    LET S == {i \in UdpSock : Matches(i, p)}
    IN  IF S = {} THEN 0 ELSE CHOOSE i \in S : \A j \in S : i <= j

NextEph(p) == IF p = EphHi THEN EphLo ELSE p + 1

\* ports in the order they are tried, as a distance from next
Dist(p) == IF p >= next THEN p - next ELSE p - next + (EphHi - EphLo + 1)

\* mutant: the port is not compared with those in use
NextAny == {next}

\* udp_ephemeral_port: the first free port from next on (none: {})
EphemeralPort ==
    LET F == {p \in Eph : \A i \in UdpSock : ~Matches(i, p)}
    IN  {p \in F : \A q \in F : Dist(p) <= Dist(q)}

UdpInit ==
    /\ used = [i \in UdpSock |-> FALSE] /\ bound = [i \in UdpSock |-> FALSE]
    /\ local = [i \in UdpSock |-> 0] /\ remote = [i \in UdpSock |-> 0]
    /\ rx = [i \in UdpSock |-> 0] /\ next = EphLo
    /\ heard = [i \in UdpSock |-> FALSE]
    /\ sent = [i \in UdpSock |-> 0]

Emptied(i) == [rx EXCEPT ![i] = 0]

\* udp_socket_create: the first unused slot
UdpCreate(i) ==
    /\ ~used[i] /\ \A j \in UdpSock : j < i => used[j]
    /\ used' = [used EXCEPT ![i] = TRUE]
    /\ bound' = [bound EXCEPT ![i] = FALSE]
    /\ local' = [local EXCEPT ![i] = 0]
    /\ rx' = Emptied(i)
    /\ sent' = [sent EXCEPT ![i] = 0]
    /\ heard' = [heard EXCEPT ![i] = FALSE]
    /\ UNCHANGED <<remote, next>>

\* udp_socket_close, at the last close of the file
UdpClose(i) ==
    /\ used[i]
    /\ used' = [used EXCEPT ![i] = FALSE]
    /\ UNCHANGED <<bound, local, remote, rx, next, heard, sent>>

\* sc_bind of a port: programs bind a socket once, before they send, and
\* udp_bind itself never refuses
UdpBind(i, p) ==
    /\ used[i] /\ ~bound[i]
    /\ local' = [local EXCEPT ![i] = p]
    /\ bound' = [bound EXCEPT ![i] = TRUE]
    /\ UNCHANGED <<used, remote, rx, next, heard, sent>>

\* sc_bind of port 0
UdpBindAny(i) ==
    /\ used[i] /\ ~bound[i]
    /\ bound' = [bound EXCEPT ![i] = TRUE]
    /\ UNCHANGED <<used, local, remote, rx, next, heard, sent>>

\* sc_connect records the peer
UdpConnect(i, h) ==
    /\ used[i]
    /\ remote' = [remote EXCEPT ![i] = h]
    /\ UNCHANGED <<used, bound, local, rx, next, heard, sent>>

\* udp_sendto: an unbound socket gets an ephemeral port
Transmit(i) ==
    \/ /\ bound[i]
       /\ sent' = [sent EXCEPT ![i] = local[i]]
       /\ UNCHANGED <<bound, local, next>>
    \/ /\ ~bound[i]
       /\ \E p \in EphemeralPort :
             /\ next' = NextEph(p)
             /\ local' = [local EXCEPT ![i] = p]
             /\ sent' = [sent EXCEPT ![i] = p]
       /\ bound' = [bound EXCEPT ![i] = TRUE]

\* sendto(2), sendmsg(2) with an address, and the kernel's own clients
UdpSendTo(i) ==
    /\ used[i] /\ Transmit(i)
    /\ UNCHANGED <<used, remote, rx, heard>>

\* write(2), writev(2), send(2): to the socket's peer; 0 is "not connected"
UdpSend(i) ==
    /\ used[i] /\ remote[i] # 0
    /\ Transmit(i)
    /\ UNCHANGED <<used, remote, rx, heard>>

\* udp_receive: a full buffer drops the datagram
UdpReceive(h, p) ==
    LET i == Demux(p)
    IN  /\ i # 0 /\ rx[i] = 0
        /\ remote' = [remote EXCEPT ![i] = h]
        /\ rx' = [rx EXCEPT ![i] = h]
        /\ heard' = [heard EXCEPT ![i] = TRUE]
        /\ UNCHANGED <<used, bound, local, next, sent>>

\* udp_recvfrom
UdpRecv(i) ==
    /\ used[i] /\ rx[i] # 0
    /\ rx' = [rx EXCEPT ![i] = 0]
    /\ UNCHANGED <<used, bound, local, remote, next, heard, sent>>

\* programs bind ports that no open socket has
Unused(p) == \A i \in UdpSock : ~Matches(i, p)

UdpNext ==
    \/ \E i \in UdpSock : UdpCreate(i) \/ UdpClose(i) \/ UdpBindAny(i) \/ UdpSend(i)
                         \/ UdpSendTo(i) \/ UdpRecv(i)
    \/ \E i \in UdpSock, p \in Fixed : Unused(p) /\ UdpBind(i, p)
    \/ \E i \in UdpSock, h \in Host : UdpConnect(i, h)
    \/ \E h \in Host, p \in Eph \cup Fixed : UdpReceive(h, p)

-----------------------------------------------------------------------------
(* TCP: who has which local port (what goes over a connection is module    *)
(* Tcp).                                                                   *)

TakenBy(i, p) == \E j \in tused \ {i} : tport[j] = p

\* The port that tcp_connect() tries after k that were taken: the pointer wraps like
\* a uint16_t, and goes back to the first ephemeral port after a miss
Attempt(k) ==
    IF k = 0 THEN tnext
    ELSE First + ((IF tnext < First THEN k - 1 ELSE tnext - First + k) % (Top - First + 1))

\* tcp_socket_create()
TcpCreate(i) ==
    /\ i \notin tused /\ \A j \in 1 .. (i - 1) : j \in tused
    /\ tused' = tused \cup {i}
    /\ tport' = [tport EXCEPT ![i] = 0]
    /\ UNCHANGED tnext

\* tcp_bind()
TcpBind(i, p) ==
    /\ i \in tused /\ ~ TakenBy(i, p)
    /\ tport' = [tport EXCEPT ![i] = p]
    /\ UNCHANGED <<tused, tnext>>

\* tcp_connect() of a socket without a port: k ports are taken, and the next is not or
\* there were enough attempts
TcpConnectPort(i, k) ==
    /\ i \in tused /\ tport[i] = 0
    /\ \A j \in 0 .. (k - 1) : TakenBy(i, Attempt(j))
    /\ \/ /\ k <= Top - First /\ ~ TakenBy(i, Attempt(k))
          /\ tport' = [tport EXCEPT ![i] = Attempt(k)]
          /\ tnext' = (Attempt(k) + 1) % (Top + 1)
       \/ /\ k > Top - First
          /\ tnext' = Attempt(k)
          /\ UNCHANGED tport
    /\ UNCHANGED tused

\* tcp_socket_close() and the end of tcp_close()
TcpClose(i) ==
    /\ i \in tused
    /\ tused' = tused \ {i}
    /\ UNCHANGED <<tport, tnext>>

TcpInit == tused = {} /\ tport = [i \in TcpSock |-> 0] /\ tnext = First

TcpNext ==
    \E i \in TcpSock : \/ TcpCreate(i) \/ TcpClose(i)
                       \/ \E k \in 0 .. (Top - First + 1) : TcpConnectPort(i, k)
                       \/ \E p \in 1 .. Top : TcpBind(i, p)

SocketsInit == UdpInit /\ TcpInit

SocketsNext == \/ UdpNext /\ UNCHANGED tcpVars
               \/ TcpNext /\ UNCHANGED udpVars

socketVars == <<udpVars, tcpVars>>

SocketsSpec == SocketsInit /\ [][SocketsNext]_socketVars

-----------------------------------------------------------------------------
(* Properties. *)

\* The types of the state.
UdpTypeOK ==
    /\ used \in [UdpSock -> BOOLEAN] /\ bound \in [UdpSock -> BOOLEAN]
    /\ local \in [UdpSock -> {0} \cup Eph \cup Fixed]
    /\ remote \in [UdpSock -> 0 .. Hosts] /\ rx \in [UdpSock -> 0 .. Hosts]
    /\ next \in Eph
    /\ heard \in [UdpSock -> BOOLEAN]
    /\ sent \in [UdpSock -> {0} \cup Eph \cup Fixed]

\* A reply finds its way back: the port an open socket last sent from leads
\* udp_receive to that socket, not to another one and not to a slot that was
\* closed or reused, however ports and slots were recycled in between
\* (udp_ephemeral_port, udp_receive; programs bind ports nobody uses).
ReplyReaches == \A i \in UdpSock : used[i] /\ sent[i] # 0 => Demux(sent[i]) = i

\* What an open socket holds was sent to its current owner: nothing is left
\* over from the slot's previous one (udp_socket_create clears rx_count).
OwnDatagrams == \A i \in UdpSock : used[i] /\ rx[i] # 0 => heard[i]

\* Segments are told apart by port: no two TCP sockets in use have the same one
\* (tcp_bind, tcp_connect).
PortsUnique == \A i, j \in tused : tport[i] = tport[j] /\ tport[i] # 0 => i = j

\* All of them: what arrives for a port reaches the program that has the port now, however
\* ports and slots were recycled before.
PortsSound == ReplyReaches /\ OwnDatagrams /\ PortsUnique
=============================================================================
