----------------------------- MODULE NetClients -----------------------------
(***************************************************************************)
(* The clients that wait for answers from the network: dhcp_autoconfig     *)
(* (net/dhcp.c), dns_resolve (net/dns.c), icmp_ping (net/icmp.c) and       *)
(* http_download (net/http.c), and the header checksum of net/ipv4.c.      *)
(*                                                                         *)
(* An answer is in `net` once it is sent.  It may arrive any number of     *)
(* times, at any later moment, or never; a deadline may pass at any time.  *)
(* A UDP socket holds one datagram and drops what comes while it is full.  *)
(***************************************************************************)
EXTENDS Naturals, Sequences, FiniteSets, SequencesExt

CONSTANTS Servers,      \* DHCP servers, by the address each of them offers
          Attempts,     \* DHCP_ATTEMPTS and DNS_RETRIES
          Lookups,      \* dns_resolve() calls, one after the other
          Pings,        \* icmp_ping() calls
          BodyLen,      \* length of the HTTP body
          Piece,        \* most that one tcp_recv() returns
          Cap0, MaxCap, \* first and largest response buffer, in the same units
          Radix,        \* values of a byte
          MaxBytes      \* length of a header in bytes

VARIABLES pc, attempt, net, slot,   \* the call, its tries, answers, the socket
          iface, lease, offer,      \* DHCP: g_netif, what servers granted, the offer
          asked, id, result,        \* DNS: the lookup, the id of its query, its answer
          ping, replied,            \* ping: peer, seq and flag; replies that were sent
          http,                     \* the download
          hdr                       \* a header to sum

dhcpVars == <<iface, lease, offer>>
dnsVars == <<asked, id, result>>
pingVars == <<ping, replied>>

None == <<>>
Static == 100       \* the addresses of the QEMU user network
NoAddr == 0

NoConfig == [ip |-> NoAddr, netmask |-> NoAddr, gateway |-> NoAddr, dns |-> NoAddr]
NoHttp == [rlen |-> 0, cap |-> Cap0, sent |-> 0, clen |-> FALSE, rc |-> "none"]

Idle == /\ attempt = 0 /\ net = {} /\ slot = None
        /\ iface = NoConfig /\ lease = {} /\ offer = None
        /\ asked = 0 /\ id = 0 /\ result = 0
        /\ ping = [peer |-> 0, seq |-> 0, reply |-> FALSE] /\ replied = {}
Quiet == /\ Idle /\ http = NoHttp /\ hdr = <<>>

DhcpInit == pc = "discover" /\ Quiet
DnsInit == pc = "dns" /\ Quiet
PingInit == pc = "ping" /\ Quiet
HttpInit == /\ pc = "recv" /\ Idle /\ hdr = <<>>
            /\ http \in {[NoHttp EXCEPT !.clen = c] : c \in BOOLEAN}
SumInit == pc = "sum" /\ Idle /\ http = NoHttp /\ hdr = <<>>
-----------------------------------------------------------------------------
(* DHCP.  One socket on port 68 lives for the whole exchange.              *)

\* ipv4_receive takes everything while the interface has no address; udp_receive
\* drops a datagram that finds the socket full
Deliver(m) == /\ m \in net /\ slot = None
              /\ slot' = m
              /\ UNCHANGED <<pc, attempt, net, dhcpVars, dnsVars, pingVars, http, hdr>>

\* What a server may put into an OFFER or an ACK: any of the options
Answers(s, type) ==
  {[type |-> type, ip |-> s, mask |-> k, router |-> r, dns |-> d, server |-> v] :
     k \in {0, s}, r \in {0, s}, d \in {0, s}, v \in {0, s}}

\* dhcp_send, then every server that hears it may answer
SendDiscover == /\ pc = "discover" /\ attempt < Attempts
                /\ pc' = "offer" /\ attempt' = attempt + 1
                /\ UNCHANGED <<net, slot, dhcpVars, dnsVars, pingVars, http, hdr>>
ServerOffers(s) == /\ pc \in {"offer", "request", "ack"} /\ ~ \E m \in net : m.type = "OFFER" /\ m.ip = s
                   /\ \E m \in Answers(s, "OFFER") : net' = net \cup {m}
                   /\ UNCHANGED <<pc, attempt, slot, dhcpVars, dnsVars, pingVars, http, hdr>>
SendRequest == /\ pc = "request" /\ attempt < Attempts
               /\ pc' = "ack" /\ attempt' = attempt + 1
               /\ UNCHANGED <<net, slot, dhcpVars, dnsVars, pingVars, http, hdr>>
ServerAcks(s) == /\ pc = "ack" /\ offer.server \in {0, s} /\ offer.ip = s
                 /\ ~ \E m \in net : m.type = "ACK"
                 /\ \E m \in Answers(s, "ACK") : net' = net \cup {m}
                 /\ lease' = lease \cup {s}
                 /\ UNCHANGED <<pc, attempt, slot, iface, offer, dnsVars, pingVars, http, hdr>>

\* A message that the card does not take ends the exchange
StaticConfig == [f \in DOMAIN NoConfig |-> Static]
DhcpSendFails == /\ pc \in {"discover", "request"}
                 /\ pc' = "bound" /\ iface' = StaticConfig
                 /\ UNCHANGED <<attempt, net, slot, lease, offer, dnsVars, pingVars, http, hdr>>

\* Mutant: any reply with the right xid will do
ExpectedAny(type) == TRUE

Expected(type) == \/ pc = "offer" /\ type = "OFFER"
                  \/ pc = "ack" /\ type = "ACK"

Or(a, b, c) == IF a # 0 THEN a ELSE IF b # 0 THEN b ELSE c

\* dhcp_wait: a reply of another type is thrown away
DhcpTake ==
  /\ pc \in {"offer", "ack"} /\ slot # None
  /\ slot' = None
  /\ IF ~ Expected(slot.type) THEN UNCHANGED <<pc, attempt, dhcpVars>>
     ELSE IF pc = "offer"
     THEN /\ offer' = slot
          /\ iface' = [iface EXCEPT !.dns = IF slot.dns # 0 THEN slot.dns ELSE @]
          /\ pc' = "request" /\ attempt' = 0 /\ UNCHANGED lease
     ELSE /\ iface' = [ip |-> Or(slot.ip, offer.ip, 0), netmask |-> Or(slot.mask, offer.mask, 255),
                       gateway |-> Or(slot.router, offer.router, 0),
                       dns |-> IF slot.dns # 0 THEN slot.dns ELSE iface.dns]
          /\ pc' = "bound" /\ UNCHANGED <<attempt, lease, offer>>
  /\ UNCHANGED <<net, dnsVars, pingVars, http, hdr>>

\* The wait runs out: again, or the static configuration of main.c
DhcpTimeout ==
  /\ pc \in {"offer", "ack"}
  /\ pc' = IF attempt = Attempts THEN "bound" ELSE IF pc = "offer" THEN "discover" ELSE "request"
  /\ iface' = IF attempt < Attempts THEN iface ELSE StaticConfig
  /\ UNCHANGED <<attempt, net, slot, lease, offer, dnsVars, pingVars, http, hdr>>

DhcpNext == \/ SendDiscover \/ SendRequest \/ DhcpSendFails \/ DhcpTake \/ DhcpTimeout
            \/ \E s \in Servers : ServerOffers(s) \/ ServerAcks(s)
            \/ \E m \in net : Deliver(m)
-----------------------------------------------------------------------------
(* DNS.  Lookup k asks for name k, whose address is k.  The socket of one  *)
(* call may get the port of an earlier one, so old answers may reach it.   *)

Ask == /\ pc = "dns" /\ attempt < Attempts /\ result = 0 /\ asked < Lookups
       /\ id' = id + 1 /\ attempt' = attempt + 1 /\ pc' = "answer"
       /\ UNCHANGED <<net, slot, asked, result, dhcpVars, pingVars, http, hdr>>

AskFails == /\ pc = "dns" /\ attempt < Attempts /\ result = 0 /\ asked < Lookups
            /\ attempt' = Attempts
            /\ UNCHANGED <<pc, net, slot, dnsVars, dhcpVars, pingVars, http, hdr>>

\* The resolver answers a query, with an address or an error; another host sends
\* something to the port
Resolver == /\ pc = "answer" /\ ~ \E m \in net : m.src = "dns" /\ m.id = id
            /\ \E a \in {0, asked + 1} : net' = net \cup {[src |-> "dns", id |-> id, addr |-> a]}
            /\ UNCHANGED <<pc, attempt, slot, dhcpVars, dnsVars, pingVars, http, hdr>>
Stranger == /\ pc = "answer" /\ ~ \E m \in net : m.src = "other"
            /\ net' = net \cup {[src |-> "other", id |-> id, addr |-> 99]}
            /\ UNCHANGED <<pc, attempt, slot, dhcpVars, dnsVars, pingVars, http, hdr>>

\* A stale answer is skipped, anything else from the resolver ends the attempt
Answered(m) == m.src = "dns" /\ m.id = id
StaleAnswer(m) == m.src = "dns" /\ m.id # id

DnsTake == /\ pc = "answer" /\ slot # None
           /\ slot' = None
           /\ IF Answered(slot) THEN result' = slot.addr /\ pc' = "dns"
              ELSE IF StaleAnswer(slot) THEN UNCHANGED <<result, pc>>
              ELSE pc' = "dns" /\ UNCHANGED result
           /\ UNCHANGED <<attempt, net, asked, id, dhcpVars, pingVars, http, hdr>>
DnsTimeout == /\ pc = "answer" /\ slot = None /\ pc' = "dns"
              /\ UNCHANGED <<attempt, net, slot, dnsVars, dhcpVars, pingVars, http, hdr>>

\* The call returns, its socket is closed; the next one starts
NextLookup == /\ pc = "dns" /\ (result # 0 \/ attempt = Attempts) /\ asked < Lookups
              /\ asked' = asked + 1 /\ result' = 0 /\ attempt' = 0 /\ slot' = None
              /\ UNCHANGED <<pc, net, id, dhcpVars, pingVars, http, hdr>>

DnsNext == \/ Ask \/ AskFails \/ Resolver \/ Stranger \/ DnsTake \/ DnsTimeout \/ NextLookup
           \/ pc = "answer" /\ \E m \in net : Deliver(m)
-----------------------------------------------------------------------------
(* Ping.  Two hosts; one request after the other.                          *)

Ping(h, q) == /\ pc = "ping" /\ attempt < Pings
              /\ ping' = [peer |-> h, seq |-> q, reply |-> FALSE]
              /\ pc' = "echo" /\ attempt' = attempt + 1
              /\ UNCHANGED <<net, slot, replied, dhcpVars, dnsVars, http, hdr>>
EchoReply == /\ pc = "echo"
             /\ net' = net \cup {[src |-> ping.peer, seq |-> ping.seq]}
             /\ replied' = replied \cup {<<ping.peer, ping.seq>>}
             /\ UNCHANGED <<pc, attempt, slot, ping, dhcpVars, dnsVars, http, hdr>>

\* icmp_receive, from the interrupt or a poll: id, sequence and peer must match
Mine(m) == m.seq = ping.seq /\ m.src = ping.peer

IcmpReceive(m) == /\ m \in net /\ pc \in {"ping", "echo"}
                  /\ ping' = [ping EXCEPT !.reply = @ \/ Mine(m)]
                  /\ UNCHANGED <<pc, attempt, net, slot, replied, dhcpVars, dnsVars, http, hdr>>
PingReturns == /\ pc = "echo" /\ pc' = "ping"
               /\ UNCHANGED <<attempt, net, slot, pingVars, dhcpVars, dnsVars, http, hdr>>

PingNext == \/ \E h \in 1..2, q \in 0..1 : Ping(h, q)
            \/ EchoReply \/ PingReturns
            \/ \E m \in net : IcmpReceive(m)
-----------------------------------------------------------------------------
(* HTTP.  The header is one unit; the stream may end at any point, by a    *)
(* reset or by silence, as well as with its last byte.                     *)

Total == 1 + BodyLen

\* The buffer doubles, up to the limit
Grown(h, n) == IF h.rlen + n <= h.cap THEN h.cap
               ELSE IF 2 * h.cap > MaxCap THEN MaxCap ELSE 2 * h.cap

HttpRecv(n) == /\ pc = "recv" /\ http.sent + n <= Total
               /\ IF http.rlen + n > Grown(http, n)
                  THEN pc' = "http" /\ http' = [http EXCEPT !.rc = "too large"]
                  ELSE http' = [http EXCEPT !.sent = @ + n, !.rlen = @ + n, !.cap = Grown(http, n)] /\ UNCHANGED pc
               /\ UNCHANGED <<attempt, net, slot, dhcpVars, dnsVars, pingVars, hdr>>

\* What is there is taken for the whole answer unless Content-Length says otherwise
Complete(h) == ~ h.clen \/ h.rlen - 1 = BodyLen

HttpEnd == /\ pc = "recv" /\ pc' = "http"
           /\ http' = [http EXCEPT !.rc = CASE http.rlen = 0 -> "bad response"
                                            [] http.rlen > 0 /\ ~ Complete(http) -> "truncated"
                                            [] http.rlen > 0 /\ Complete(http) -> "ok"]
           /\ UNCHANGED <<attempt, net, slot, dhcpVars, dnsVars, pingVars, hdr>>

\* No memory for the buffer or the body, or a status other than 200
HttpFails == /\ pc = "recv" /\ pc' = "http" /\ http' = [http EXCEPT !.rc = "failed"]
             /\ UNCHANGED <<attempt, net, slot, dhcpVars, dnsVars, pingVars, hdr>>

HttpNext == (\E n \in 1..Piece : HttpRecv(n)) \/ HttpEnd \/ HttpFails
-----------------------------------------------------------------------------
(* ip_checksum: the complement of the one's complement sum of the words,   *)
(* the low byte first, an odd last byte padded.                            *)

Word(b, i) == b[i] + Radix * IF i + 1 \in DOMAIN b THEN b[i + 1] ELSE 0
Words(b) == [k \in 1..((Len(b) + 1) \div 2) |-> Word(b, 2 * k - 1)]
W == Radix * Radix

\* while (sum >> 16) fold: twice is enough for what two folds leave
Once(x) == (x % W) + (x \div W)
Fold(x) == Once(Once(x))

IpChecksum(b) == (W - 1) - Fold(FoldLeft(LAMBDA x, y : x + y, 0, Words(b)))

\* ipv4_transmit: the checksum goes into a field that was zero
Sealed(b) == b \o <<IpChecksum(b \o <<0, 0>>) % Radix, IpChecksum(b \o <<0, 0>>) \div Radix>>

Extend(x, y) == /\ pc = "sum" /\ Len(hdr) + 2 <= MaxBytes
                /\ hdr' = hdr \o <<x, y>>
                /\ UNCHANGED <<pc, attempt, net, slot, dhcpVars, dnsVars, pingVars, http>>
SumNext == \E x, y \in 0..(Radix - 1) : Extend(x, y)
-----------------------------------------------------------------------------
(* Properties. *)

\* The interface is configured by one server that granted the address, every field,
\* or by the static settings, every field: offers of other servers, repeated and
\* late replies leave nothing behind.
OneConfig ==
  pc = "bound" =>
    IF iface.ip = Static THEN iface = StaticConfig
    ELSE /\ iface.ip \in lease
         /\ iface.netmask \in {iface.ip, 255}
         /\ iface.gateway \in {iface.ip, NoAddr} /\ iface.dns \in {iface.ip, NoAddr}

\* dns_resolve returns the address of the name it was asked for, though answers to
\* earlier lookups are still under way.
OwnAnswer == pc \in {"dns", "answer"} /\ result # 0 => result = asked + 1

\* A ping that reports a reply was answered by its target.
OwnReply == pc \in {"ping", "echo"} /\ ping.reply => <<ping.peer, ping.seq>> \in replied

\* A download that succeeds has the whole body when the server gave its length,
\* and no chunk is copied past the buffer.
BodyWhole == /\ http.rc = "ok" /\ http.clen => http.rlen = Total
             /\ http.rlen <= http.cap /\ http.cap <= MaxCap

\* A header with its checksum in place sums to zero, and changing one byte is
\* noticed: the test of ipv4_receive accepts what ipv4_transmit sends.
SumsToZero ==
  pc = "sum" => /\ IpChecksum(Sealed(hdr)) = 0
                /\ \A i \in DOMAIN hdr : \A v \in 0..(Radix - 1) \ {hdr[i]} :
                     IpChecksum([Sealed(hdr) EXCEPT ![i] = v]) # 0
=============================================================================
