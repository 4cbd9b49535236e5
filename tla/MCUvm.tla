------------------------------- MODULE MCUvm -------------------------------
(***************************************************************************)
(* Uvm for TLC in three scenarios that share the variables: processes that *)
(* fork, exec and make threads; one process that maps, unmaps and grows    *)
(* its heap in little memory; and a fork of a process with mappings.       *)
(***************************************************************************)
EXTENDS Integers, Sequences

VARIABLES part, used, as, proc, panic, did
vars == <<used, as, proc, panic, did>>

Seg(s, e, prot) == [s |-> s, e |-> e, prot |-> prot]

\* Text alone; text and an interpreter; text and data that share a page; a raw image
Text == <<Seg(4, 5, {"x"})>>
Dynamic == <<Seg(4, 5, {"x"}), Seg(8, 9, {"x"})>>
TextSharesData == <<Seg(4, 5, {"x"}), Seg(4, 6, {"w"})>>
Raw == <<Seg(4, 5, {"w", "x"})>>

Family == INSTANCE Uvm WITH
    NPage <- 22, Ram <- 1..20, Win <- 4, NUpper <- 1, ElfBase <- 4, BrkLimit <- 7,
    MmapBase <- 8, MmapLimit <- 10, StackBase <- 11, StackEnd <- 12, Half <- 1, NReg <- 5,
    Images <- {Text}, NProc <- 3, NSpace <- 3, Calls <- {"fork", "exec", "clone"}, Tidy <- TRUE

Mapper == INSTANCE Uvm WITH
    NPage <- 22, Ram <- 1..8, Win <- 4, NUpper <- 1, ElfBase <- 4, BrkLimit <- 7,
    MmapBase <- 8, MmapLimit <- 10, StackBase <- 11, StackEnd <- 12, Half <- 1, NReg <- 5,
    Images <- {Dynamic, TextSharesData, Raw}, NProc <- 1, NSpace <- 1,
    Calls <- {"mmap", "fixed", "munmap", "mprotect", "brk"}, Tidy <- TRUE

Forker == INSTANCE Uvm WITH
    NPage <- 22, Ram <- 1..20, Win <- 4, NUpper <- 1, ElfBase <- 4, BrkLimit <- 7,
    MmapBase <- 8, MmapLimit <- 10, StackBase <- 11, StackEnd <- 12, Half <- 1, NReg <- 5,
    Images <- {Text}, NProc <- 2, NSpace <- 2, Calls <- {"mmap", "fork"}, Tidy <- TRUE

UvmInit == \/ part = "family" /\ Family!Init
           \/ part = "mapper" /\ Mapper!Init
           \/ part = "forker" /\ Forker!Init

Families == part = "family" /\ Family!Next /\ UNCHANGED part
Mappings == part = "mapper" /\ Mapper!Next /\ UNCHANGED part
Forks == part = "forker" /\ Forker!Next /\ UNCHANGED part

UvmSpec == UvmInit /\ [][Families \/ Mappings \/ Forks]_<<part, vars>>
-----------------------------------------------------------------------------
(* Properties. *)

\* Every frame that was taken for a process is one page or one table of one
\* process, marked in the bitmap and inside a region of it; exits, failed loads
\* and unmapped ranges give back all they took.  mm_t.refs is the number of
\* processes and threads that hold the mm_t.
FramesAccounted ==
  CASE part = "family" -> /\ Family!FramesOnce /\ Family!FramesMarked /\ Family!NoFrameLeak
                          /\ Family!RefsExact
    [] part = "mapper" -> /\ Mapper!TypeOK /\ Mapper!FramesOnce /\ Mapper!NoFrameLeak /\ Mapper!NeverNonRam
                          /\ Mapper!Tracked /\ Mapper!BrkMapped
    [] part = "forker" -> Forker!FramesOnce /\ Forker!NoFrameLeak /\ Forker!Tracked

\* What a call does to the page tables.  mmap() without MAP_FIXED returns pages that
\* were not in use; every page of a loaded segment allows what the segment asks for,
\* the pages that two segments share included; a fork gives the child every page of
\* the parent, in a frame of its own.
PagesGranted ==
  [][/\ part = "mapper" /\ did'.op = "mmap" =>
          \A v \in did'.s..(did'.e - 1) : ~ as[did'.m].pte[v].user
     /\ part = "mapper" /\ did'.op = "loaded" =>
          \A i \in DOMAIN did'.img : \A v \in did'.img[i].s..(did'.img[i].e - 1) :
            did'.img[i].prot \subseteq as'[did'.m].pte[v].prot
     /\ part = "forker" /\ did'.op = "fork" =>
          \A v \in Forker!UPage : LET x == as[did'.from].pte[v]
                                      y == as'[did'.to].pte[v]
                                  IN x.user => y.user /\ y.f # x.f]_vars
=============================================================================
