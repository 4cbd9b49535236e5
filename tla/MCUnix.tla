------------------------------- MODULE MCUnix -------------------------------
(***************************************************************************)
(* UnixSock for TLC, in three scenarios that share the variables: the life *)
(* of connections on four stream sockets, descriptors passed over a stream *)
(* pair, and records on three framed sockets.                              *)
(***************************************************************************)
EXTENDS UnixSock, TLC

CONSTANT f1

VARIABLE part

Passing == INSTANCE UnixSock WITH
    Files <- {f1}, RingSz <- 3, MaxLen <- 2, Backlog <- 1,
    ScmMax <- 4, ScmQLen <- 2, MaxRefs <- 3, Types <- {"stream"},
    Calls <- {"socketpair", "sendmsg", "recvmsg", "recv", "close"}

Records1 == INSTANCE UnixSock WITH
    Files <- {}, RingSz <- 4, MaxLen <- 1, Backlog <- 1,
    ScmMax <- 2, ScmQLen <- 2, MaxRefs <- 4, Types <- {"framed"},
    Calls <- {"socket", "socketpair", "bind", "sendto", "sendmsg", "recvframed", "close"}

UnixInit ==
    \/ part = "life" /\ Init
    \/ part = "passing" /\ Passing!Init
    \/ part = "records" /\ Records1!Init

Life == part = "life" /\ Next /\ UNCHANGED part
Pass == part = "passing" /\ Passing!Next /\ Cardinality(Live') <= 2 /\ UNCHANGED part
Record == part = "records" /\ Records1!Next /\ Cardinality(Live') <= 3 /\ UNCHANGED part

UnixSpec == UnixInit /\ [][Life \/ Pass \/ Record]_<<part, vars>>

\* Sockets and processes are interchangeable
Symmetry == Permutations(Socks) \cup Permutations(Procs)
-----------------------------------------------------------------------------
(* Properties. *)

\* A framed ring holds whole records, as many as msg_cnt says, and fits its
\* buffer, headers included.  Files are handed over with the last byte of the
\* message they came with, not before and not later, and no reference of a file
\* in flight is dropped twice.
MessagesWhole ==
    /\ part = "records" => Records1!FramesWhole /\ Records1!RingWithinBounds
    /\ part = "passing" => /\ Passing!ScmAtBoundary /\ Passing!NoDoubleDrop
                           /\ Passing!RingWithinBounds
=============================================================================
