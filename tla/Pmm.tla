-------------------------------- MODULE Pmm --------------------------------
(***************************************************************************)
(* The physical page allocator of mm/memory.c.  pmm_init() reserves        *)
(* everything, frees what the boot memory map calls usable and reserves    *)
(* the kernel image, the low 2 MiB, the boot information and the frame     *)
(* buffer again; memory_init() reserves the heap arena.  Addresses are in  *)
(* units of which PS make a page, so that a region may begin or end inside *)
(* one.                                                                    *)
(***************************************************************************)
EXTENDS PmmOps

CONSTANTS PS,        \* PAGE_SIZE
          Usable,    \* usable regions <<base, length>> of the memory map
          Keep,      \* regions reserved again, page 0 among them
          MaxRun     \* bound on the pages of one pmm_alloc_pages()

ASSUME PmmAssumption ==
  /\ PS \in Nat \ {0}
  /\ Usable \subseteq (Nat \X Nat)
  /\ Keep \subseteq (Nat \X Nat)
  /\ MaxRun \in Nat

VARIABLES used,   \* the set bits of pmm_bitmap
          cnt,    \* pmm_used_pages
          hint,   \* pmm_last_page
          held,   \* the runs [at, n] handed out and not yet freed
          ret     \* what the last call asked for and got: [n, at]

pmmVars == <<used, cnt, hint, held, ret>>

\* pmm_mark_region(): every page that the region touches
Span(base, len) == {p \in Pages : base \div PS <= p /\ p < (base + len + PS - 1) \div PS}

Spans(R) == UNION {Span(r[1], r[2]) : r \in R}

\* pmm_init() and the reservation in memory_init()
Reserved == Spans(Keep)
Boot == Pages \ (Spans(Usable) \ Reserved)

\* The low 2 MiB are always among the reserved regions
ASSUME LowReserved == 0 \in Reserved

\* pmm_ram_top, in pages
RamTop == LET ends == {(r[1] + r[2]) \div PS : r \in Usable}
          IN IF ends = {} THEN 0 ELSE CHOOSE e \in ends : \A f \in ends : f <= e

NoCall == [n |-> 0, at |-> 0]

PmmInit == /\ used = Boot
        /\ cnt = Cardinality(Boot)
        /\ hint = 0
        /\ held = {}
        /\ ret = NoCall

\* The pages are marked and the hint moves behind them
Take(at, n) ==
  /\ used' = used \cup RunAt(at, n)
  /\ cnt' = CountSet(used, cnt, RunAt(at, n))
  /\ hint' = at + n
  /\ held' = held \cup {[at |-> at, n |-> n]}
  /\ ret' = [n |-> n, at |-> at]

\* Out of memory: 0 is returned and nothing changes
NoMemory(n) ==
  /\ ret' = [n |-> n, at |-> 0]
  /\ UNCHANGED <<used, cnt, hint, held>>

\* pmm_alloc_page(), also for pmm_alloc_pages(1)
AllocPage ==
  IF \E p \in Pages : IsNextFit(used, hint, p)
  THEN \E p \in Pages : IsNextFit(used, hint, p) /\ Take(p, 1)
  ELSE NoMemory(1)

\* pmm_alloc_pages()
AllocPages(n) ==
  /\ n > 1
  /\ IF \E at \in Pages : IsRunFit(used, hint, n, at)
     THEN \E at \in Pages : IsRunFit(used, hint, n, at) /\ Take(at, n)
     ELSE NoMemory(n)

\* Mutant: the counter is not lowered
FreeUncounted(r) ==
  /\ r \in held
  /\ used' = used \ (RunAt(r.at, r.n) \ {0})
  /\ held' = held \ {r}
  /\ ret' = NoCall
  /\ UNCHANGED <<cnt, hint>>

\* pmm_free_pages() of a run by its holder; pmm_free_page() ignores page 0
FreePages(r) ==
  /\ r \in held
  /\ used' = used \ (RunAt(r.at, r.n) \ {0})
  /\ cnt' = CountClear(used, cnt, RunAt(r.at, r.n) \ {0})
  /\ held' = held \ {r}
  /\ ret' = NoCall
  /\ UNCHANGED hint

PmmNext == \/ AllocPage
        \/ \E n \in 2..MaxRun : AllocPages(n)
        \/ \E r \in held : FreePages(r)

PmmSpec == PmmInit /\ [][PmmNext]_pmmVars
-----------------------------------------------------------------------------
\* Types
PmmTypeOK == /\ used \subseteq Pages
          /\ cnt \in Nat
          /\ hint \in 0..NPage
          /\ held \subseteq [at : Pages, n : Nat \ {0}]
          /\ ret \in [n : Nat, at : Pages]

\* Two callers of the allocator never hold the same page, whatever runs were
\* taken and given back before, and what a caller holds is marked used.
HeldOnce ==
  \A r \in held :
    /\ RunAt(r.at, r.n) \subseteq used
    /\ \A q \in held : q # r => RunAt(r.at, r.n) \cap RunAt(q.at, q.n) = {}

\* The pages with a unit of one of the regions R
Touched(R) == {p \in Pages : \E r \in R, k \in 0..(PS - 1) : r[1] <= p * PS + k /\ p * PS + k < r[1] + r[2]}

\* No caller is ever handed a page of the kernel image, the heap arena, the low
\* 2 MiB, the boot information or the frame buffer, and none of them is freed.
ReservedStay ==
  /\ Touched(Keep) \subseteq used
  /\ \A r \in held : RunAt(r.at, r.n) \cap Touched(Keep) = {}

\* pmm_used_pages is the number of set bits: "every mark/alloc/free path funnels
\* through them, so no site can drift".
CountExact == cnt = Cardinality(used)

\* Every page outside the usable ranges stays marked used.
OnlyRam == \A p \in Pages : p \notin used => p \in Touched(Usable)

\* pmm_get_stats() reports the used pages below the top of RAM exactly, which
\* takes for granted that every page above it is marked.
StatsExact == cnt - (NPage - RamTop) = Cardinality(used \cap 0..(RamTop - 1))

\* pmm_alloc_page() and pmm_alloc_pages() fail only when there is no run of
\* free pages of that length anywhere, the hint notwithstanding.
FailsOnlyWhenFull ==
  ret.n > 0 /\ ret.at = 0 =>
    \A at \in Pages : at + ret.n <= NPage => RunAt(at, ret.n) \cap used # {}
=============================================================================
