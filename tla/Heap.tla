-------------------------------- MODULE Heap --------------------------------
(***************************************************************************)
(* The kernel heap of mm/memory.c: kmalloc(), kfree(), kcalloc() and       *)
(* krealloc() over one arena.  The state is the list of block headers in   *)
(* the order of their next pointers, with the address each one has, and    *)
(* the contents of the arena: what the owner of an allocation wrote, or    *)
(* part of a header.  The heap has no lock: it is called from the main     *)
(* task and from system calls, which do not interrupt each other.          *)
(***************************************************************************)
EXTENDS Integers, Sequences, SequencesExt, FiniteSets

CONSTANTS Start, End,   \* heap_start, heap_end
          Hdr,          \* sizeof(heap_block_t)
          Align,        \* sizes are rounded up to a multiple of this
          Sizes,        \* what callers ask for
          Counts,       \* and how many elements of kcalloc()
          Users         \* owners of allocations, one each

VARIABLES blocks,   \* heap_list: [at, size, free]
          mem,      \* contents of the arena
          own,      \* the allocation of each user: [ptr, req, kept]; ptr = 0: none
          failed    \* the size of a request just refused, or -1

vars == <<blocks, mem, own, failed>>

Arena == Start..(End - 1)
Nothing == [ptr |-> 0, req |-> 0, kept |-> 0]
Idx(B) == 1..Len(B)
Bytes(p, n) == p..(p + n - 1)
After(b) == b.at + Hdr + b.size
HeaderBytes(B) == UNION {Bytes(B[i].at, Hdr) : i \in Idx(B)}

\* The headers are written where the list says they are; nobody relies on what
\* is in a free block
Written(M, B) ==
  LET headers == HeaderBytes(B)
      idle == UNION {Bytes(B[i].at + Hdr, B[i].size) : i \in {x \in Idx(B) : B[x].free}}
  IN [a \in Arena |-> IF a \in headers THEN "header" ELSE IF a \in idle THEN "junk" ELSE M[a]]
Filled(M, p, n, what) == [a \in Arena |-> IF a \in Bytes(p, n) THEN what ELSE M[a]]

\* kmalloc(): the rounding of a request
Round(n) == IF n = 0 THEN Align ELSE ((n + Align - 1) \div Align) * Align

\* kmalloc(): the first free block that is large enough
Fits(B, i, n) == B[i].free /\ B[i].size >= n
FirstFit(B, i, n) == Fits(B, i, n) /\ \A j \in 1..(i - 1) : ~ Fits(B, j, n)

\* kmalloc(): the block is split when the rest holds more than a header, else it
\* is used whole
Carve(B, i, n) ==
  LET b == B[i]
      front == [b EXCEPT !.size = n, !.free = FALSE]
      rest == [at |-> b.at + Hdr + n, size |-> b.size - n - Hdr, free |-> TRUE]
  IN IF b.size - n > Hdr
     THEN SubSeq(B, 1, i - 1) \o <<front, rest>> \o SubSeq(B, i + 1, Len(B))
     ELSE [B EXCEPT ![i].free = FALSE]

\* kmalloc(): no block fits, a new one behind the last
Extend(B, n) ==
  IF After(Last(B)) + Hdr + n <= End
  THEN Append(B, [at |-> After(Last(B)), size |-> n, free |-> FALSE]) ELSE B

\* kmalloc(size): the list afterwards and the pointer returned, 0 for NULL
Kmalloc(B, size) ==
  LET n == Round(size)
      fit == {i \in Idx(B) : FirstFit(B, i, n)}
      E == Extend(B, n)
  IN IF fit # {} THEN LET i == CHOOSE x \in fit : TRUE IN [list |-> Carve(B, i, n), ptr |-> B[i].at + Hdr]
     ELSE [list |-> E, ptr |-> IF E = B THEN 0 ELSE Last(E).at + Hdr]

\* kfree(): the merge pass, from the head up to the block at address at; a block
\* that took in its successor is looked at again
Merge(B, at) ==
  FoldLeft(LAMBDA M, b : IF /\ M # <<>> /\ Last(M).free /\ b.free /\ Last(M).at <= at
                         THEN Append(Front(M), [Last(M) EXCEPT !.size = @ + Hdr + b.size])
                         ELSE Append(M, b),
           <<>>, B)

\* kfree(ptr): refused when the successor is not where the size says
Kfree(B, ptr) ==
  LET i == CHOOSE x \in Idx(B) : B[x].at = ptr - Hdr
  IN IF i < Len(B) /\ B[i + 1].at # After(B[i]) THEN B
     ELSE Merge([B EXCEPT ![i].free = TRUE], ptr - Hdr)

SizeAt(B, ptr) == B[CHOOSE x \in Idx(B) : B[x].at = ptr - Hdr].size
-----------------------------------------------------------------------------
Init == /\ blocks = <<[at |-> Start, size |-> End - Start - Hdr, free |-> TRUE]>>
        /\ mem = Written([a \in Arena |-> "junk"], blocks)
        /\ own = [u \in Users |-> Nothing]
        /\ failed = -1

\* kmalloc() by u, who then fills what it asked for
Malloc(u, size) ==
  LET r == Kmalloc(blocks, size)
  IN /\ own[u] = Nothing
     /\ blocks' = r.list
     /\ IF r.ptr = 0
        THEN failed' = size /\ UNCHANGED <<mem, own>>
        ELSE /\ mem' = Filled(Written(mem, r.list), r.ptr, size, u)
             /\ own' = [own EXCEPT ![u] = [ptr |-> r.ptr, req |-> size, kept |-> size]]
             /\ failed' = -1

\* kcalloc(): the memory is cleared before u has it and fills it
Calloc(u, nmemb, size) ==
  LET total == nmemb * size
      r == Kmalloc(blocks, total)
  IN /\ own[u] = Nothing
     /\ blocks' = r.list
     /\ IF r.ptr = 0
        THEN failed' = total /\ UNCHANGED <<mem, own>>
        ELSE /\ mem' = Filled(Filled(Written(mem, r.list), r.ptr, total, "zero"), r.ptr, total, u)
             /\ own' = [own EXCEPT ![u] = [ptr |-> r.ptr, req |-> total, kept |-> total]]
             /\ failed' = -1

\* kfree()
Free(u) ==
  /\ own[u] # Nothing
  /\ blocks' = Kfree(blocks, own[u].ptr)
  /\ mem' = Written(mem, blocks')
  /\ own' = [own EXCEPT ![u] = Nothing]
  /\ failed' = -1

\* Mutant: the old block is freed before its contents are copied
ReallocFreesFirst(u, size) ==
  LET old == own[u]
      B == Kfree(blocks, old.ptr)
      r == Kmalloc(B, size)
      M == Written(Written(mem, B), r.list)
      n == SizeAt(blocks, old.ptr)
  IN /\ old # Nothing /\ size > n /\ r.ptr # 0
     /\ blocks' = r.list
     /\ mem' = [a \in Arena |-> IF a \in Bytes(r.ptr, n) THEN M[old.ptr + a - r.ptr] ELSE M[a]]
     /\ own' = [own EXCEPT ![u] = [ptr |-> r.ptr, req |-> size, kept |-> old.kept]]
     /\ failed' = -1

\* krealloc(): in place while the block is large enough, else a new block, the
\* whole of the old one copied, and the old one freed
Realloc(u, size) ==
  LET old == own[u]
      n == SizeAt(blocks, old.ptr)
      r == Kmalloc(blocks, size)
      M == Written(mem, r.list)
      B == Kfree(r.list, old.ptr)
      least(x, y) == IF x < y THEN x ELSE y
  IN /\ old # Nothing /\ size # 0
     /\ IF n >= size
        THEN /\ own' = [own EXCEPT ![u].req = size, ![u].kept = least(@, size)]
             /\ failed' = -1
             /\ UNCHANGED <<blocks, mem>>
        ELSE IF r.ptr = 0
        THEN failed' = size /\ UNCHANGED <<blocks, mem, own>>
        ELSE /\ blocks' = B
             /\ mem' = Written([a \in Arena |-> IF a \in Bytes(r.ptr, n) THEN M[old.ptr + a - r.ptr] ELSE M[a]], B)
             /\ own' = [own EXCEPT ![u] = [ptr |-> r.ptr, req |-> size, kept |-> old.kept]]
             /\ failed' = -1

Next == \E u \in Users :
          \/ \E size \in Sizes : Malloc(u, size) \/ Realloc(u, size)
          \/ \E nmemb \in Counts, size \in Sizes : Calloc(u, nmemb, size)
          \/ Free(u)

Spec == Init /\ [][Next]_vars
-----------------------------------------------------------------------------
\* Types
TypeOK ==
  /\ blocks \in Seq([at : Arena, size : 0..(End - Start), free : BOOLEAN])
  /\ own \in [Users -> [ptr : {0} \cup Arena, req : Nat, kept : Nat]]
  /\ failed \in Int

\* heap_verify(): every block begins where its predecessor ends, the first at the
\* start of the arena and the last ending at the end, each header aligned.
Adjacent ==
  /\ blocks[1].at = Start
  /\ \A i \in 1..(Len(blocks) - 1) : blocks[i + 1].at = After(blocks[i])
  /\ After(Last(blocks)) = End
  /\ \A i \in Idx(blocks) : blocks[i].at % Align = 0

\* Every allocation has a used block that holds what was asked for, and every
\* used block is somebody's allocation: no block is lost.
UsedIsOwned ==
  /\ \A u \in Users : own[u] # Nothing =>
       \E i \in Idx(blocks) : blocks[i].at + Hdr = own[u].ptr /\ ~ blocks[i].free /\ blocks[i].size >= own[u].req
  /\ \A i \in Idx(blocks) : ~ blocks[i].free =>
       Cardinality({u \in Users : own[u].ptr = blocks[i].at + Hdr}) = 1

\* What the owner of an allocation wrote is still there: no header, no other
\* allocation and no copy of krealloc() lands on it, and krealloc() carries it
\* along.
Intact ==
  \A u \in Users : \A a \in Bytes(own[u].ptr, own[u].kept) : mem[a] = u

\* kfree() leaves no two free blocks side by side.
Coalesced ==
  \A i \in 1..(Len(blocks) - 1) : ~ (blocks[i].free /\ blocks[i + 1].free)

\* A request is refused only when there is no gap between the used blocks that
\* could hold it with its header.
RefusedOnlyWhenFull ==
  failed >= 0 =>
    \A a \in Arena :
      LET want == Bytes(a, Hdr + Round(failed))
          used == UNION {Bytes(blocks[i].at, Hdr + blocks[i].size) : i \in {x \in Idx(blocks) : ~ blocks[x].free}}
      IN ~ (want \subseteq Arena /\ want \cap used = {})
=============================================================================
