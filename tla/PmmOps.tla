------------------------------- MODULE PmmOps -------------------------------
(***************************************************************************)
(* The page bitmap of mm/memory.c: pages 0 .. NPage - 1, a set of used     *)
(* ones, the counter of used pages that is kept beside it, and the hint    *)
(* where the next search starts.  Operators only; module Pmm makes a state *)
(* machine of them and module Uvm allocates with them.                     *)
(***************************************************************************)
EXTENDS Integers, FiniteSets

CONSTANTS NPage     \* PMM_MAX_PAGES

ASSUME PmmOpsAssumption == NPage \in Nat \ {0}

Pages == 0..(NPage - 1)

RunAt(at, n) == at..(at + n - 1)

\* Mutant: the search in [0, hint) is forgotten
IsNextFitNoWrap(U, hint, p) ==
  p \notin U /\ p >= hint /\ \A q \in hint..(p - 1) : q \in U

\* pmm_alloc_page(): p is the first free page from the hint on, or, when there
\* is none, the first one below the hint
IsNextFit(U, hint, p) ==
  /\ p \notin U
  /\ \/ p >= hint /\ \A q \in hint..(p - 1) : q \in U
     \/ /\ p < hint
        /\ \A q \in hint..(NPage - 1) : q \in U
        /\ \A q \in 0..(p - 1) : q \in U

\* Mutant: the run is one page short
FreeRunShort(U, base, n, at) ==
  /\ at >= base /\ at + n <= NPage
  /\ RunAt(at, n - 1) \cap U = {}

\* n free pages in a row, found by a scan that starts at base
FreeRun(U, base, n, at) ==
  /\ at >= base /\ at + n <= NPage
  /\ RunAt(at, n) \cap U = {}

\* pmm_alloc_pages(): the first such run from the hint on, else from page 0 on
IsRunFit(U, hint, n, at) ==
  \/ /\ FreeRun(U, hint, n, at)
     /\ \A b \in hint..(at - 1) : ~ FreeRun(U, hint, n, b)
  \/ /\ \A b \in Pages : ~ FreeRun(U, hint, n, b)
     /\ FreeRun(U, 0, n, at)
     /\ \A b \in 0..(at - 1) : ~ FreeRun(U, 0, n, b)

\* bitmap_set() on every page of S: the counter moves with the bits
CountSet(U, c, S) == c + Cardinality(S \ U)

\* bitmap_clear() on every page of S
CountClear(U, c, S) == c - Cardinality(S \cap U)
=============================================================================
