------------------------------ MODULE MCKernel ------------------------------
(***************************************************************************)
(* The core of the kernel for TLC: who gets the CPU (Sched) and who gets   *)
(* memory: the page allocator (Pmm), the heap (Heap) and the switching of  *)
(* address spaces (AddrSpace).  `part` says which of them a behaviour is   *)
(* about; the others do not move.                                          *)
(***************************************************************************)
EXTENDS Pmm, Sched, TLC

CONSTANTS u1, u2, u3

VARIABLES part,
          blocks, mem, own, failed,
          frames, tables, root, st, acpu, launch, cr3, active, walk, tlb

heapVars == <<blocks, mem, own, failed>>
spaceVars == <<frames, tables, root, st, acpu, launch, cr3, active, walk, tlb>>

\* Two ranges of usable RAM with a hole between them, the first shared with the
\* low memory; the boot information ends inside a page
MCUsable == {<<0, 20>>, <<24, 20>>}
MCKeep == {<<0, 4>>, <<9, 2>>}

HeapOf == INSTANCE Heap WITH
    Start <- 4, End <- 46, Hdr <- 6, Align <- 2, Sizes <- {0, 4, 9}, Counts <- {2},
    Users <- {u1, u2, u3}

Space == INSTANCE AddrSpace WITH
    Frame <- 1..5, Page <- {1, 2}, NProc <- 2, cpu <- acpu

KernelInit ==
    /\ part \in {"cpu", "pages", "heap", "spaces"}
    /\ Init /\ PmmInit /\ HeapOf!Init /\ Space!Init

Scheduling == part = "cpu" /\ Next /\ UNCHANGED <<part, pmmVars, heapVars, spaceVars>>
Paging == part = "pages" /\ PmmNext /\ UNCHANGED <<part, vars, heapVars, spaceVars>>
Heaping == part = "heap" /\ HeapOf!Next /\ UNCHANGED <<part, vars, pmmVars, spaceVars>>
Switching == part = "spaces" /\ Space!Next /\ UNCHANGED <<part, vars, pmmVars, heapVars>>

KernelSpec ==
    KernelInit /\ [][Scheduling \/ Paging \/ Heaping \/ Switching]_<<part, vars, pmmVars, heapVars, spaceVars>>

\* The owners of heap blocks are interchangeable
Symmetry == Permutations({u1, u2, u3})
-----------------------------------------------------------------------------
(* Properties. *)

\* The reserved pages (kernel image, heap arena, low 2 MiB, boot information, frame
\* buffer) and those outside RAM are never handed out or freed, and pmm_get_stats()
\* counts what is below the top of RAM exactly.  The heap's list covers the arena
\* without gap or overlap; what the owner of an allocation wrote is still there, and
\* krealloc() carries it along; a request is refused only when no gap between used
\* blocks could hold it.  A process runs on its own page tables and its system calls
\* walk them, however it got the CPU, and the TLB holds only translations of the tables
\* in CR3, to frames in use, though the kernel flushes nothing when it edits others.
MemorySound ==
  /\ ReservedStay /\ OnlyRam /\ StatsExact
  /\ part = "heap" => /\ HeapOf!TypeOK /\ HeapOf!Adjacent /\ HeapOf!UsedIsOwned /\ HeapOf!Intact
                      /\ HeapOf!Coalesced /\ HeapOf!RefusedOnlyWhenFull
  /\ part = "spaces" => /\ Space!TypeOK /\ Space!OwnTables /\ Space!OwnWalk
                        /\ Space!NoStaleTlb /\ Space!NoFreedInTlb
=============================================================================
