--------------------------------- MODULE Arp ---------------------------------
(***************************************************************************)
(* The ARP cache of net/arp.c, and the dispatch of received frames that    *)
(* uses it (net/netif.c, the receive half of ethernet.c and icmp.c).       *)
(*                                                                         *)
(* A network driver drains its ring with interrupts off, from its          *)
(* interrupt or from netif_poll in a wait loop, and hands one frame after  *)
(* the other to netif_receive.  Answering an echo request transmits, and   *)
(* a transmission resolves an address, which polls the driver again: the   *)
(* frames being dispatched are a stack, and rx_busy keeps it from growing. *)
(* The kernel's mainline resolves one address at a time.                   *)
(*                                                                         *)
(* Hosts are named by their IP address 1 .. Hosts; which MAC address an    *)
(* entry holds is told by the time at which it was learnt.                 *)
(***************************************************************************)
EXTENDS Integers, Sequences, FiniteSets

CONSTANTS
    Slots,       \* ARP_CACHE_SIZE
    Hosts,
    Timeout,     \* ARP_TIMEOUT_MS
    W,           \* stamps are modulo W (2^32 ms in the code)
    Retries,     \* tries of arp_resolve (500 in the code)
    Ring,        \* frames the NIC holds (bound)
    TMax         \* time (bound)

VARIABLES
    cache,       \* arp_cache: ip 0 is an invalid entry; born is the true time
    victim,      \* arp_next_victim
    ring,        \* frames in the NIC's ring
    stack,       \* frames being dispatched, innermost last
    busy,        \* rx_busy
    drain,       \* a driver is draining its ring with interrupts off
    want,        \* arp_resolve of the mainline: the address, 0 none
    tries,       \* its retry
    got,         \* the entry it returned (ip 0: none)
    now

vars == <<cache, victim, ring, stack, busy, drain, want, tries, got, now>>

Slot == 1 .. Slots
Host == 1 .. Hosts
None == [ip |-> 0, ts |-> 0, born |-> 0]
Frames == [op : {"reply", "request", "echo"}, ip : Host]

Init ==
    /\ cache = [s \in Slot |-> None] /\ victim = 1
    /\ ring = <<>> /\ stack = <<>> /\ busy = 0 /\ drain = FALSE
    /\ want = 0 /\ tries = 0 /\ got = None
    /\ now = 0

-----------------------------------------------------------------------------
(* The cache. *)

Old(e) == (now - e.ts) % W > Timeout

Hit(c, ip) == {s \in Slot : c[s].ip = ip /\ ~Old(c[s])}

\* arp_find walks up to the entry it looks for and drops the old entries on
\* its way: the slot found (0 none), and the cache it leaves
Found(c, ip) == IF Hit(c, ip) = {} THEN 0
                ELSE CHOOSE s \in Hit(c, ip) : \A t \in Hit(c, ip) : s <= t
Aged(c, ip) ==
    LET f == Found(c, ip)
    IN  [s \in Slot |-> IF (f = 0 \/ s < f) /\ c[s].ip # 0 /\ Old(c[s])
                        THEN None ELSE c[s]]

Entry(f) == [ip |-> f.ip, ts |-> now % W, born |-> now]

Known(c, ip) == Found(c, ip)

NextVictim == (victim % Slots) + 1

\* arp_cache_update: the address's own entry, else the first invalid one,
\* else the next victim
Updated(c, f) ==
    LET a == Aged(c, f.ip)
        k == Known(c, f.ip)
        I == {s \in Slot : a[s].ip = 0}
        t == IF k # 0 THEN k
             ELSE IF I # {} THEN CHOOSE s \in I : \A u \in I : s <= u
             ELSE victim
    IN  [c |-> [a EXCEPT ![t] = Entry(f)],
         v |-> IF k = 0 /\ I = {} THEN NextVictim ELSE victim]

-----------------------------------------------------------------------------
(* Reception. *)

\* netif_poll refuses a nested poll
MayPoll == busy = 0

\* the interrupt of the NIC, or netif_poll from a wait loop: the driver
\* starts to drain its ring
Irq ==
    /\ ~drain /\ ring # <<>>
    /\ drain' = TRUE
    /\ UNCHANGED <<cache, victim, ring, stack, busy, want, tries, got, now>>

\* netif_receive: the next frame of the ring
Receive ==
    /\ drain /\ ring # <<>> /\ stack = <<>>
    /\ stack' = <<Head(ring)>> /\ ring' = Tail(ring) /\ busy' = 1
    /\ UNCHANGED <<cache, victim, drain, want, tries, got, now>>

DrainDone ==
    /\ drain /\ ring = <<>> /\ stack = <<>>
    /\ drain' = FALSE
    /\ UNCHANGED <<cache, victim, ring, stack, busy, want, tries, got, now>>

Top == stack[Len(stack)]
Pop == stack' = SubSeq(stack, 1, Len(stack) - 1) /\ busy' = 0

\* arp_receive of a reply, or of a request for our address (which is also
\* answered): learn the sender
LearnFrame ==
    /\ stack # <<>> /\ Top.op \in {"reply", "request"}
    /\ LET u == Updated(cache, Top) IN cache' = u.c /\ victim' = u.v
    /\ Pop
    /\ UNCHANGED <<ring, drain, want, tries, got, now>>

\* icmp_receive of an echo request: the reply is sent when the address is
\* known; otherwise arp_resolve broadcasts a request, polls once and, as a
\* dispatch is under way, gives up
EchoFrame ==
    /\ stack # <<>> /\ Top.op = "echo"
    /\ cache' = Aged(cache, Top.ip)
    /\ UNCHANGED <<victim, drain, want, tries, got, now>>
    /\ LET nested == Found(cache, Top.ip) = 0 /\ MayPoll /\ ring # <<>>
       IN  /\ stack' = IF nested THEN Append(stack, Head(ring))
                       ELSE SubSeq(stack, 1, Len(stack) - 1)
           /\ ring' = IF nested THEN Tail(ring) ELSE ring
           /\ busy' = IF nested THEN 1 ELSE 0

-----------------------------------------------------------------------------
(* The mainline: arp_resolve.  It is interrupted anywhere, and its own      *)
(* netif_poll is Irq.                                                       *)

Resolve(ip) ==
    /\ ~drain /\ want = 0
    /\ cache' = Aged(cache, ip)
    /\ LET s == Found(cache, ip)
       IN  IF s # 0 THEN got' = cache[s] /\ UNCHANGED <<want, tries>>
                    ELSE want' = ip /\ tries' = 0 /\ got' = None
    /\ UNCHANGED <<victim, ring, stack, busy, drain, now>>

Retry ==
    /\ ~drain /\ want # 0
    /\ cache' = Aged(cache, want)
    /\ LET s == Found(cache, want)
       IN  \/ s # 0 /\ got' = cache[s] /\ want' = 0 /\ UNCHANGED tries
           \/ s = 0 /\ tries + 1 < Retries /\ tries' = tries + 1
              /\ UNCHANGED <<want, got>>
           \/ s = 0 /\ tries + 1 >= Retries /\ want' = 0 /\ tries' = 0
              /\ UNCHANGED got
    /\ UNCHANGED <<victim, ring, stack, busy, drain, now>>

-----------------------------------------------------------------------------
(* The network (external). *)

FrameIn(f) ==
    /\ Len(ring) < Ring
    /\ ring' = Append(ring, f)
    /\ UNCHANGED <<cache, victim, stack, busy, drain, want, tries, got, now>>

\* what was returned is used at once: it is not kept across time
Tick ==
    /\ now < TMax
    /\ now' = now + 1 /\ got' = None
    /\ UNCHANGED <<cache, victim, ring, stack, busy, drain, want, tries>>

Next ==
    \/ Irq \/ Receive \/ DrainDone \/ LearnFrame \/ EchoFrame \/ Retry \/ Tick
    \/ \E h \in Host : Resolve(h)
    \/ \E f \in Frames : FrameIn(f)

Spec == Init /\ [][Next]_vars

-----------------------------------------------------------------------------
(* Properties. *)

\* The types of the state.
TypeOK ==
    /\ \A s \in Slot : cache[s].ip \in 0 .. Hosts /\ cache[s].ts \in 0 .. W - 1
    /\ victim \in Slot /\ busy \in {0, 1} /\ drain \in BOOLEAN
    /\ want \in 0 .. Hosts /\ tries \in 0 .. Retries
    /\ Len(ring) <= Ring

\* One address has one entry: a host that changed its MAC address is never
\* found under the old one because a second entry hides the new
\* (arp_cache_update looks the address up before it takes a slot).
OneEntry ==
    \A s, t \in Slot : cache[s].ip # 0 /\ cache[s].ip = cache[t].ip => s = t

\* A frame is never dispatched inside another frame's dispatch (netif.c:
\* "draining new frames inside that dispatch recurses and each level burns
\* ~4KB of stack"), and rx_busy tells the truth about it.
NoNesting == Len(stack) <= 1 /\ (busy = 1 <=> stack # <<>>)

\* An address that arp_resolve returns was announced by its host no longer
\* than ARP_TIMEOUT_MS ago (arp_find: "Lazy aging: unsigned subtraction is
\* wrap-safe").
Fresh == got.ip # 0 => now - got.born <= Timeout
=============================================================================
