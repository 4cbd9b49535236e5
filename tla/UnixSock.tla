------------------------------ MODULE UnixSock ------------------------------
(***************************************************************************)
(* AF_UNIX sockets: net/unix_sock.c and the system calls on them.  Every   *)
(* call runs with interrupts off, so it is one action; a call that would   *)
(* block parks its process on g_unix_wq and is made again after a wake-up. *)
(*                                                                         *)
(* A receive ring is the sequence of its cells, of which it holds RingSz:  *)
(* a payload byte is one cell, and so is the header of a framed record.    *)
(* Positions are relative to the read position.                            *)
(***************************************************************************)
EXTENDS Integers, Sequences, FiniteSets, FiniteSetsExt

CONSTANTS Procs,     \* processes that make calls
          Socks,     \* memory blocks for unix_sock_t
          Names,     \* addresses
          Files,     \* files that SCM_RIGHTS messages carry
          Nil,
          RingSz,    \* UNIX_RXBUF_SZ, in cells
          MaxLen,    \* longest message sent
          Backlog,   \* UNIX_BACKLOG
          ScmMax,    \* UNIX_SCM_MAX
          ScmQLen,   \* UNIX_SCM_QLEN
          Types,     \* socket types that programs create
          Calls,     \* system calls that programs make
          MaxRefs    \* bound on the references taken for messages

ASSUME UnixAssumption ==
  /\ Nil \notin Procs \cup Socks \cup Names \cup Files
  /\ {RingSz, MaxLen, Backlog, ScmMax, ScmQLen, MaxRefs} \subseteq Nat \ {0}
  /\ Types \subseteq {"stream", "framed"}

VARIABLES
  sock,   \* the sockets; state "free" is memory not allocated
  open,   \* sockets with a file descriptor (the others are pending children)
  bound,  \* bind_tab: the socket bound to a name, or Nil
  call,   \* the call a process is in, or Idle
  parked, \* processes on g_unix_wq
  refs    \* file references taken for messages and not yet given on or dropped

vars == <<sock, open, bound, call, parked, refs>>

Idle == [op |-> "none"]
Free == [state |-> "free", type |-> "stream", peer |-> Nil, ring |-> <<>>,
         msgs |-> 0, scm |-> <<>>, pend |-> <<>>, backlog |-> 0, name |-> Nil]
Live == {s \in Socks : sock[s].state # "free"}
Byte == [len |-> -1, src |-> Nil]
Bytes(n) == [i \in 1..n |-> Byte]

Header(n, s) == [len |-> n, src |-> s]

Init ==
  /\ sock = [s \in Socks |-> Free]
  /\ open = {}
  /\ bound = [n \in Names |-> Nil]
  /\ call = [p \in Procs |-> Idle]
  /\ parked = {}
  /\ refs = [f \in Files |-> 0]
----------------------------------------------------------------------------
(* Calls: a process is idle or makes a parked call again.                  *)

Makes(p, c) == /\ p \notin parked
               /\ call[p] \in {Idle, c}
               /\ c.op \in Calls

\* wait_block(g_unix_wq, WAIT_RESTART)
Blocks(p, c) ==
  /\ call' = [call EXCEPT ![p] = c]
  /\ parked' = parked \cup {p}
  /\ UNCHANGED <<sock, open, bound, refs>>

Returns(p) == call' = [call EXCEPT ![p] = Idle]

\* A wake-up is not needed, or is forgotten (as a mutant of Wakes)
NoWake == UNCHANGED parked

\* unix_wake()
Wakes == parked' = {}

\* A call on a descriptor that is closed by now, or that the socket refuses
Fails(p) == Returns(p) /\ NoWake /\ UNCHANGED <<sock, open, bound, refs>>

Used(s) == Len(sock[s].ring)

\* ring_space()
Space(s) == RingSz - Used(s)
----------------------------------------------------------------------------
(* Creation and addresses.                                                 *)

New(type) == [Free EXCEPT !.state = "idle", !.type = type]

\* sc_socket(AF_UNIX): unix_socket_create(), file_new(), fd_install()
Socket(p, s, type) ==
  /\ Makes(p, [op |-> "socket"])
  /\ s \notin Live
  /\ sock' = [sock EXCEPT ![s] = New(type)]
  /\ open' = open \cup {s}
  /\ UNCHANGED <<bound, call, parked, refs>>

\* sc_socketpair()
Socketpair(p, s, t, type) ==
  /\ Makes(p, [op |-> "socketpair"])
  /\ s # t /\ {s, t} \cap Live = {}
  /\ sock' = [sock EXCEPT
       ![s] = [New(type) EXCEPT !.state = "connected", !.peer = t],
       ![t] = [New(type) EXCEPT !.state = "connected", !.peer = s]]
  /\ open' = open \cup {s, t}
  /\ UNCHANGED <<bound, call, parked, refs>>

\* unix_bind()
Bind(p, s, n) ==
  /\ Makes(p, [op |-> "bind"]) /\ s \in open
  /\ sock[s].name = Nil
  /\ bound[n] = Nil
  /\ bound' = [bound EXCEPT ![n] = s]
  /\ sock' = [sock EXCEPT ![s].name = n]
  /\ UNCHANGED <<open, call, parked, refs>>

\* unix_unlink_path(): the name is free again, the socket keeps it
Unlink(p, n) ==
  /\ Makes(p, [op |-> "unlink"])
  /\ bound[n] # Nil
  /\ bound' = [bound EXCEPT ![n] = Nil]
  /\ UNCHANGED <<sock, open, call, parked, refs>>

\* unix_listen(): the backlog is at least 1 and at most UNIX_BACKLOG
Listen(p, s, b) ==
  /\ Makes(p, [op |-> "listen"]) /\ s \in open
  /\ sock[s].name # Nil /\ sock[s].state = "idle"
  /\ sock' = [sock EXCEPT ![s].state = "listening",
                          ![s].backlog = IF b < 1 THEN 1 ELSE
                                         IF b > Backlog THEN Backlog ELSE b]
  /\ UNCHANGED <<open, bound, call, parked, refs>>

\* unix_connect(): the server side k of the connection is made here and waits
\* in the queue of listener l
Connected(s, k, l) ==
  [[sock EXCEPT ![k] = [New(sock[l].type) EXCEPT !.state = "connected", !.peer = s,
                                                 !.name = sock[l].name],
                ![s].peer = k, ![s].state = "connected"]
     EXCEPT ![l].pend = Append(@, k)]

\* sc_connect()
Connect(p, s, n) ==
  LET c == [op |-> "connect", s |-> s, n |-> n]
      l == bound[n]
  IN /\ Makes(p, c)
     /\ IF \/ s \notin open \/ sock[s].state = "connected"
           \/ l = Nil \/ sock[l].state # "listening"
        THEN Fails(p)
        ELSE \/ /\ Len(sock[l].pend) >= sock[l].backlog
                /\ Blocks(p, c)
             \/ /\ Len(sock[l].pend) < sock[l].backlog
                /\ \E k \in Socks \ Live : sock' = Connected(s, k, l)
                /\ Returns(p) /\ Wakes
                /\ UNCHANGED <<open, bound, refs>>

\* unix_accept(): the oldest pending child is taken off the queue
Accepted(s) == [sock EXCEPT ![s].pend = Tail(@)]

\* sc_accept4(): it gets a descriptor
Accept(p, s) ==
  LET c == [op |-> "accept", s |-> s]
  IN /\ Makes(p, c)
     /\ IF s \notin open \/ sock[s].state # "listening" THEN Fails(p)
        ELSE \/ /\ sock[s].pend = <<>>
                /\ Blocks(p, c)
             \/ /\ sock[s].pend # <<>>
                /\ open' = open \cup {Head(sock[s].pend)}
                /\ sock' = Accepted(s)
                /\ Returns(p) /\ NoWake
                /\ UNCHANGED <<bound, refs>>
----------------------------------------------------------------------------
(* Data.                                                                   *)

\* unix_send(): the type of the receiver is not looked at
Sent(t, n) == [sock EXCEPT ![t].ring = @ \o Bytes(n)]

\* write and sendto on a stream, all of it or nothing
Send(p, s, n) ==
  LET c == [op |-> "send", s |-> s, len |-> n]
      t == sock[s].peer
  IN /\ Makes(p, c)
     /\ IF s \notin open \/ sock[s].state # "connected" \/ t = Nil THEN Fails(p)
        ELSE \/ /\ Space(t) < n
                /\ Blocks(p, c)
             \/ /\ Space(t) >= n
                /\ sock' = Sent(t, n)
                /\ Returns(p) /\ Wakes
                /\ UNCHANGED <<open, bound, refs>>

\* A whole record is put in the ring of t, or nothing
Framed(p, c, s, t, n) ==
  \/ /\ n + 1 > RingSz
     /\ Fails(p)
  \/ /\ n + 1 <= RingSz /\ Space(t) < n + 1
     /\ Blocks(p, c)
  \/ /\ Space(t) >= n + 1
     /\ sock' = [sock EXCEPT ![t].ring = @ \o <<Header(n, s)>> \o Bytes(n),
                             ![t].msgs = @ + 1]
     /\ Returns(p) /\ Wakes
     /\ UNCHANGED <<open, bound, refs>>

\* unix_sendto_dgram(): to the peer, or to the socket bound to the name m
Sendto(p, s, m, n) ==
  LET c == [op |-> "sendto", s |-> s, n |-> m, len |-> n]
      t == IF sock[s].peer # Nil THEN sock[s].peer ELSE bound[m]
  IN /\ Makes(p, c)
     /\ IF s \notin open \/ sock[s].type = "stream" \/ t = Nil THEN Fails(p)
        ELSE Framed(p, c, s, t, n)

\* The references of the files in a sequence
Refs(fs, f) == Cardinality({i \in DOMAIN fs : fs[i] = f})

Take(fs) == /\ \A f \in Files : refs[f] + Refs(fs, f) <= MaxRefs
            /\ refs' = [f \in Files |-> refs[f] + Refs(fs, f)]
Drop(fs) == refs' = [f \in Files |-> refs[f] - Refs(fs, f)]

\* Mutant: the position before the message
BoundaryBefore(t, n) == Used(t)

\* scm_push(): the position after a message of n bytes to t
Boundary(t, n) == Used(t) + n

\* sc_sendmsg() and unix_sendmsg(): references are taken first and dropped
\* when the message or, the record queue being full, only its files cannot go.
\* A framed message goes without the files.
Sendmsg(p, s, n, fs) ==
  LET c == [op |-> "sendmsg", s |-> s, len |-> n, fs |-> fs]
      t == sock[s].peer
      rec == [off |-> Boundary(t, n), fs |-> fs]
  IN /\ Makes(p, c)
     /\ IF s \notin open \/ sock[s].state # "connected" \/ t = Nil THEN Fails(p)
        ELSE IF sock[t].type = "framed"
        THEN \/ Space(t) < n + 1 /\ Framed(p, c, s, t, n)
             \/ /\ Space(t) >= n + 1
                /\ sock' = [sock EXCEPT ![t].ring = @ \o <<Header(n, s)>> \o Bytes(n),
                                        ![t].msgs = @ + 1]
                /\ Take(fs)
                /\ Returns(p) /\ Wakes /\ UNCHANGED <<open, bound>>
        ELSE IF n > RingSz - 1 THEN Fails(p)
        ELSE \/ /\ Space(t) < n
                /\ Blocks(p, c)
             \/ /\ Space(t) >= n
                /\ \/ /\ fs # <<>> /\ Len(sock[t].scm) < ScmQLen
                      /\ sock' = [sock EXCEPT ![t].ring = @ \o Bytes(n),
                                              ![t].scm = Append(@, rec)]
                      /\ Take(fs)
                   \/ /\ fs = <<>> \/ Len(sock[t].scm) >= ScmQLen
                      /\ sock' = Sent(t, n)
                      /\ UNCHANGED refs
                /\ Returns(p) /\ Wakes /\ UNCHANGED <<open, bound>>

\* The state of socket x after n cells of its ring have been read
Consumed(x, n) ==
  [x EXCEPT !.ring = SubSeq(@, n + 1, Len(@)),
            !.scm = [i \in DOMAIN x.scm |-> [x.scm[i] EXCEPT !.off = @ - n]]]

\* The boundary of the first k records of the queue, and no more, has been reached
Due(x, k) == /\ \A i \in 1..k : x.scm[i].off <= 0
             /\ k < Len(x.scm) => x.scm[k + 1].off > 0
Rest(q, k) == SubSeq(q, k + 1, Len(q))
FilesOf(q, d) == MapThenFoldSet(\o, <<>>, LAMBDA i : q[i].fs, Min, d)

\* read and recvfrom on a stream: nobody takes the files, they are closed
Recv(p, s, n) ==
  LET c == [op |-> "recv", s |-> s, len |-> n]
      x == Consumed(sock[s], IF Used(s) < n THEN Used(s) ELSE n)
  IN /\ Makes(p, c)
     /\ IF s \notin open THEN Fails(p)
        ELSE \/ /\ sock[s].type = "framed"    \* EINVAL is taken for EAGAIN
                /\ Blocks(p, c)
             \/ /\ sock[s].type = "stream" /\ Used(s) = 0
                /\ IF sock[s].peer = Nil THEN Fails(p) ELSE Blocks(p, c)
             \/ /\ sock[s].type = "stream" /\ Used(s) > 0
                /\ \E k \in 0..Len(x.scm) :
                     /\ Due(x, k)
                     /\ sock' = [sock EXCEPT ![s] = [x EXCEPT !.scm = Rest(@, k)]]
                     /\ Drop(FilesOf(x.scm, 1..k))
                /\ Returns(p) /\ NoWake /\ UNCHANGED <<open, bound>>

\* unix_recvmsg() takes the first k records: it goes on until it has ScmMax files
Delivered(x, k) ==
  /\ \A i \in 1..k : x.scm[i].off <= 0 /\ Len(FilesOf(x.scm, 1..(i - 1))) < ScmMax
  /\ k < Len(x.scm) => x.scm[k + 1].off > 0 \/ Len(FilesOf(x.scm, 1..k)) >= ScmMax

\* sc_recvmsg() on a stream: of the files of the delivered
\* records ScmMax at most are handed on; of those, room many get a descriptor
Recvmsg(p, s, n, room) ==
  LET c == [op |-> "recvmsg", s |-> s, len |-> n]
      x == Consumed(sock[s], IF Used(s) < n THEN Used(s) ELSE n)
  IN /\ Makes(p, c)
     /\ s \in open => sock[s].type = "stream"
     /\ IF s \notin open THEN Fails(p)
        ELSE \/ /\ Used(s) = 0
                /\ IF sock[s].peer = Nil THEN Fails(p) ELSE Blocks(p, c)
             \/ /\ Used(s) > 0
                /\ \E k \in 0..Len(x.scm) :
                     /\ Delivered(x, k)
                     /\ sock' = [sock EXCEPT ![s] = [x EXCEPT !.scm = Rest(@, k)]]
                     /\ LET fs == FilesOf(x.scm, 1..k)
                        IN Drop(SubSeq(fs, 1, Min({Len(fs), ScmMax, room})))
                /\ Returns(p) /\ NoWake /\ UNCHANGED <<open, bound>>

\* unix_recvmsg() on a framed socket, framed_pop(): one record, whole.  The
\* first cell is taken for a header; if it is a payload byte any length may be
\* read from it (of those only the ones that stay in the ring are modelled)
RecvFramed(p, s) ==
  LET c == [op |-> "recvframed", s |-> s]
      h == sock[s].ring[1]
  IN /\ Makes(p, c)
     /\ s \in open => sock[s].type = "framed"
     /\ IF s \notin open THEN Fails(p)
        ELSE \/ /\ sock[s].msgs = 0
                /\ Blocks(p, c)
             \/ /\ sock[s].msgs > 0 /\ Used(s) > 0
                /\ \E n \in IF h.len >= 0 THEN {h.len} ELSE 0..(Used(s) - 1) :
                     sock' = [sock EXCEPT ![s] = [Consumed(sock[s], n + 1) EXCEPT !.msgs = @ - 1]]
                /\ Returns(p) /\ NoWake /\ UNCHANGED <<open, bound, refs>>
----------------------------------------------------------------------------
(* Closing.                                                                *)

\* scrub_ring_src(): records in x that name s forget it
Scrubbed(x, s) ==
  [x EXCEPT !.ring = [i \in DOMAIN x.ring |->
                        IF x.ring[i].src = s THEN [x.ring[i] EXCEPT !.src = Nil] ELSE x.ring[i]]]

\* Mutant: the clients of pending children are not told
ClosedKeepsPending(t, s) ==
  IF sock[t].peer = s THEN Scrubbed([sock[t] EXCEPT !.peer = Nil], s)
  ELSE sock[t]

\* What becomes of another socket t when s is closed: its peer, or the client
\* of a connection that s had not accepted, is left without a peer
Closed(t, s) ==
  IF sock[t].peer = s THEN Scrubbed([sock[t] EXCEPT !.peer = Nil], s)
  ELSE IF sock[t].peer \in Range(sock[s].pend) THEN [sock[t] EXCEPT !.peer = Nil]
  ELSE sock[t]

\* unix_sock_close(), when the last descriptor goes
Close(p, s) ==
  /\ Makes(p, [op |-> "close"]) /\ s \in open
  /\ sock' = [t \in Socks |->
                IF t = s \/ t \in Range(sock[s].pend) THEN Free ELSE Closed(t, s)]
  /\ Drop(FilesOf(sock[s].scm, DOMAIN sock[s].scm))
  /\ bound' = [n \in Names |-> IF bound[n] = s THEN Nil ELSE bound[n]]
  /\ open' = open \ {s}
  /\ Wakes
  /\ UNCHANGED call
----------------------------------------------------------------------------
FileSeqs == {<<>>} \cup {<<f>> : f \in Files} \cup {<<f, g>> : f, g \in Files}

\* The calls that can block
Blocking(p) ==
  \E s \in Socks :
    \/ \E n \in Names : Connect(p, s, n)
    \/ Accept(p, s)
    \/ \E n \in 1..MaxLen : \/ Send(p, s, n)
                            \/ \E m \in Names : Sendto(p, s, m, n)
                            \/ \E fs \in FileSeqs : Sendmsg(p, s, n, fs)
                            \/ Recv(p, s, n)
                            \/ \E room \in {0, ScmMax} : Recvmsg(p, s, n, room)
    \/ RecvFramed(p, s)

Next ==
  \E p \in Procs :
    \/ \E s \in Socks : \/ \E type \in Types : \/ Socket(p, s, type)
                                               \/ \E t \in Socks : Socketpair(p, s, t, type)
                        \/ \E n \in Names : Bind(p, s, n)
                        \/ \E b \in 0..(Backlog + 1) : Listen(p, s, b)
                        \/ Close(p, s)
    \/ \E n \in Names : Unlink(p, n)
    \/ Blocking(p)

Spec == Init /\ [][Next]_vars

----------------------------------------------------------------------------
(* Properties                                                              *)

Cell == [len : -1..MaxLen, src : Socks \cup {Nil}]

Sock == [state : {"free", "idle", "listening", "connected"}, type : {"stream", "framed"},
         peer : Socks \cup {Nil}, ring : Seq(Cell), msgs : Nat,
         scm : Seq([off : Int, fs : FileSeqs]), pend : Seq(Socks),
         backlog : 0..Backlog, name : Names \cup {Nil}]

\* The calls that may have to be made again
Restarts == [op : {"accept", "recvframed"}, s : Socks]
            \cup [op : {"connect"}, s : Socks, n : Names]
            \cup [op : {"send", "recv", "recvmsg"}, s : Socks, len : 1..MaxLen]
            \cup [op : {"sendto"}, s : Socks, n : Names, len : 1..MaxLen]
            \cup [op : {"sendmsg"}, s : Socks, len : 1..MaxLen, fs : FileSeqs]

\* The counts of references are the subject of NoDoubleDrop.
TypeOK ==
  /\ sock \in [Socks -> Sock]
  /\ open \subseteq Live
  /\ bound \in [Names -> Socks \cup {Nil}]
  /\ call \in [Procs -> {Idle} \cup Restarts]
  /\ parked \subseteq Procs

\* No socket keeps a pointer to memory that close() has freed: peers are
\* mutual, queued children have not been freed or accepted, names are bound to
\* sockets that exist; whichever end of a connection, accepted or not, goes
\* first.
NoDanglingSocket ==
  /\ \A s \in Live : sock[s].peer # Nil =>
       sock[s].peer \in Live /\ sock[sock[s].peer].peer = s
  /\ \A s \in Live : \A i \in DOMAIN sock[s].pend : sock[s].pend[i] \in Live \ open
  /\ \A n \in Names : bound[n] # Nil => bound[n] \in open

\* Every socket without a descriptor waits in exactly one listener's queue:
\* none is lost between connect, accept and close.
NoOrphanChild ==
  \A k \in Live \ open : \E s \in Live, i \in 1..Backlog :
    {x \in Live \X (1..Backlog) :
       x[2] \in DOMAIN sock[x[1]].pend /\ sock[x[1]].pend[x[2]] = k} = {<<s, i>>}

\* Both: whatever is closed, refused, accepted or never accepted, and in whatever
\* order, no socket is lost and none is reached after it is gone (unix_sock_close,
\* unix_connect, unix_accept).
NoStraySocket == NoDanglingSocket /\ NoOrphanChild

\* A ring never holds more than its size, headers included.
RingWithinBounds == \A s \in Socks : Used(s) <= RingSz

\* A process parked in accept or in a read has nothing to take: every event
\* that would let it go on (data, a connection, the peer's close) wakes it.
ParkedHasNothing ==
  \A p \in parked :
    /\ (call[p].op \in {"recv", "recvmsg"} /\ call[p].s \in open /\ sock[call[p].s].type = "stream") =>
         Used(call[p].s) = 0 /\ sock[call[p].s].peer # Nil
    /\ (call[p].op = "recvframed" /\ call[p].s \in open) => sock[call[p].s].msgs = 0
    /\ (call[p].op = "accept" /\ call[p].s \in open) => sock[call[p].s].pend = <<>>

\* Files are handed over with the last byte of the message they came with, not
\* before and not later: queued records are in order and not yet reached.
ScmAtBoundary ==
  \A s \in Live : LET q == sock[s].scm
                  IN \A i \in DOMAIN q : /\ q[i].off \in 1..Used(s)
                                         /\ i > 1 => q[i - 1].off <= q[i].off

\* The references that are queued for file f
Queued(f) ==
  MapThenSumSet(LAMBDA s : Refs(FilesOf(sock[s].scm, DOMAIN sock[s].scm), f), Live)

\* No reference of a file in flight is dropped twice.
NoDoubleDrop == \A f \in Files : refs[f] >= Queued(f)

\* The cells of ring r that begin a record, and whether r is made of records:
\* a header first, and after each as many bytes as it says
Headers(r) == {i \in DOMAIN r : r[i].len >= 0}
Whole(r) ==
  /\ r # <<>> => 1 \in Headers(r)
  /\ \A i \in Headers(r) :
       /\ i + r[i].len <= Len(r)
       /\ \A j \in (i + 1)..(i + r[i].len) : j \notin Headers(r)
       /\ i + r[i].len < Len(r) => i + r[i].len + 1 \in Headers(r)

\* A framed ring holds whole records, as many as msg_cnt says.
FramesWhole ==
  \A s \in Live : sock[s].type = "framed" =>
    Whole(sock[s].ring) /\ Cardinality(Headers(sock[s].ring)) = sock[s].msgs

============================================================================
