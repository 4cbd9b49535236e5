------------------------------- MODULE MCNet -------------------------------
(***************************************************************************)
(* The network for TLC: TCP connections that send and that receive, the    *)
(* ports of several TCP and UDP sockets, TFTP downloads (of a short file,  *)
(* and of one whose block numbers wrap), and the clients that wait for     *)
(* answers.  `part` says which of them a behaviour is about; the           *)
(* connection and the sockets of the other parts stay in their initial     *)
(* states, the variables of the other components are 0.                    *)
(***************************************************************************)
EXTENDS Tcp, Sockets

VARIABLES part,
    tpc, rc, attempt, timeouts, expected, tid, blocks, pkt, toClient, toServer,
    cur, resends, strays, trx, tremote,
    cpc, cattempt, net, slot, iface, lease, offer, name, id, result, ping,
    replied, http, hdr

tftpVars == <<tpc, rc, attempt, timeouts, expected, tid, blocks, pkt, toClient, toServer,
              cur, resends, strays, trx, tremote>>
clientVars == <<cpc, cattempt, net, slot, iface, lease, offer, name, id, result, ping,
                replied, http, hdr>>

Rx == INSTANCE Tcp WITH MSS <- 2, Retries <- 0, NOut <- 0, NIn <- 3

Short == INSTANCE Tftp WITH
    NBlocks <- 2, M <- 16, Attempts <- 2, Tids <- 2, Resends <- 1, Cap <- 2,
    Dup <- TRUE, Strays <- 1

Long == INSTANCE Tftp WITH
    NBlocks <- 6, M <- 4, Attempts <- 2, Tids <- 1, Resends <- 2, Cap <- 1,
    Dup <- FALSE, Strays <- 0

\* A body that no buffer takes if it grows by doubling only; bytes of two bits
Client == INSTANCE NetClients WITH
    Servers <- {1, 2}, Attempts <- 2, Lookups <- 2, Pings <- 3, BodyLen <- 9, Piece <- 3,
    Cap0 <- 3, MaxCap <- 8, Radix <- 4, MaxBytes <- 6,
    pc <- cpc, attempt <- cattempt, asked <- name

NoTftp == /\ tpc = 0 /\ rc = 0 /\ attempt = 0 /\ timeouts = 0 /\ expected = 0 /\ tid = 0 /\ blocks = 0
          /\ pkt = 0 /\ toClient = 0 /\ toServer = 0 /\ cur = 0 /\ resends = 0 /\ strays = 0
          /\ trx = 0 /\ tremote = 0
NoClient == /\ cpc = 0 /\ cattempt = 0 /\ net = 0 /\ slot = 0 /\ iface = 0 /\ lease = 0 /\ offer = 0 /\ name = 0
            /\ id = 0 /\ result = 0 /\ ping = 0 /\ replied = 0 /\ http = 0 /\ hdr = 0

NetInit ==
    /\ part \in {"tx", "rx", "tcp", "udp", "short", "long",
                 "dhcp", "dns", "ping", "http", "sum"}
    /\ Init
    /\ SocketsInit
    /\ CASE part = "short" -> Short!TftpInit [] part = "long" -> Long!TftpInit [] OTHER -> NoTftp
    /\ CASE part = "dhcp" -> Client!DhcpInit [] part = "dns" -> Client!DnsInit
         [] part = "ping" -> Client!PingInit [] part = "http" -> Client!HttpInit
         [] part = "sum" -> Client!SumInit [] OTHER -> NoClient

Sending == part = "tx" /\ Next /\ UNCHANGED <<part, socketVars, tftpVars, clientVars>>
Receiving == part = "rx" /\ Rx!Next /\ UNCHANGED <<part, socketVars, tftpVars, clientVars>>
Naming == part = "tcp" /\ TcpNext /\ UNCHANGED <<part, vars, udpVars, tftpVars, clientVars>>
Talking == part = "udp" /\ UdpNext /\ UNCHANGED <<part, vars, tcpVars, tftpVars, clientVars>>
Loading == part = "short" /\ Short!TftpNext /\ UNCHANGED <<part, vars, socketVars, clientVars>>
LoadingLong == part = "long" /\ Long!TftpNext /\ UNCHANGED <<part, vars, socketVars, clientVars>>

ClientStep == \/ part = "dhcp" /\ Client!DhcpNext
              \/ part = "dns" /\ Client!DnsNext
              \/ part = "ping" /\ Client!PingNext
              \/ part = "http" /\ Client!HttpNext
              \/ part = "sum" /\ Client!SumNext
Asking == ClientStep /\ UNCHANGED <<part, vars, socketVars, tftpVars>>

NetNext == \/ Sending \/ Receiving \/ Naming \/ Talking \/ Loading \/ LoadingLong
           \/ Asking
NetSpec == NetInit /\ [][NetNext]_<<part, vars, socketVars, tftpVars, clientVars>>
-----------------------------------------------------------------------------
(* Properties.  StreamReceived and StreamSent are those of Tcp, PortsSound *)
(* that of Sockets.                                                        *)

\* A download that succeeds hands over the whole file: every block exactly once,
\* in order, and all of them from one transfer, whatever the network lost,
\* repeated or reordered and however many requests were sent (tftp_download).
FileExact == /\ part = "short" => Short!TftpTypeOK /\ Short!FileExact
             /\ part = "long" => Long!TftpTypeOK /\ Long!FileExact

\* Late, repeated and foreign answers leave nothing behind.  The interface is
\* configured by the one DHCP server that granted its address, or statically;
\* dns_resolve returns the address of its own question, icmp_ping a reply of its own
\* target, http_download the whole body when the server gave its length; and the
\* checksum that is sent is the one that is accepted.
AnswersOwn ==
  CASE part = "dhcp" -> Client!OneConfig
    [] part = "dns" -> Client!OwnAnswer
    [] part = "ping" -> Client!OwnReply
    [] part = "http" -> Client!BodyWhole
    [] part = "sum" -> Client!SumsToZero
    [] OTHER -> TRUE
=============================================================================
