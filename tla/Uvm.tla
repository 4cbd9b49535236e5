-------------------------------- MODULE Uvm --------------------------------
(***************************************************************************)
(* User address spaces: the page tables of mm/memory.c (VMM), the regions  *)
(* and ranges of core/uvm.c, the counted mm_t of core/process.c, and the   *)
(* calls that change them: exec, fork, clone, exit, wait4, mmap, munmap,   *)
(* mprotect and brk.  Every call runs with interrupts off or on behalf of  *)
(* the only process there is, so each is one step.                         *)
(*                                                                         *)
(* A virtual page and a page frame are numbers from the same range: the    *)
(* kernel maps virtual page v to frame v with pages of Win frames (2 MiB), *)
(* and user mappings are made inside that range.  The tables above the     *)
(* last level are counted, not drawn.  What a page contains is left out.   *)
(***************************************************************************)
EXTENDS PmmOps, Sequences, SequencesExt

CONSTANTS Ram,        \* frames that are free at boot
          Win,        \* pages under one last-level table
          NUpper,     \* private tables above the last level: PML4, PDPT, PDs
          ElfBase, BrkLimit, MmapBase, MmapLimit, StackBase, StackEnd,
          Half,       \* brk units in a page
          Images,     \* programs: sequences of segments [s, e, prot]
          NProc,      \* MAX_PROCESSES
          NSpace,     \* bound on the address spaces, leaked ones included
          NReg,       \* MAX_VM_REGIONS
          Calls,      \* the calls that programs make
          Tidy        \* TRUE: programs unmap only what is mapped, up to an end of its region

VARIABLES used,         \* the page bitmap
          as,           \* mm_t and page tables, by number
          proc,         \* [st, mm, parent, lead] by slot; mm = 0: none
          panic,        \* vmm_map_page() ran out of frames for a table
          did           \* the last call, for the properties that are about one

vars == <<used, as, proc, panic, did>>

UPage == ElfBase..(StackEnd - 1)
Wins == {v \div Win : v \in UPage}
Of(w) == {v \in UPage : v \div Win = w}
Procs == 1..NProc
Spaces == 1..NSpace
Prot == SUBSET {"w", "x"}

Absent == [f |-> 0, user |-> FALSE, prot |-> {}]
NoReg == [s |-> 0, e |-> 0, prot |-> {}]
NoProc == [st |-> "UNUSED", mm |-> 0, parent |-> 0, lead |-> 0]

\* vmm_create_address_space(): only the large identity pages are taken over
FreshAs == [refs |-> 0, upper |-> {}, huge |-> Wins, pt |-> [w \in Wins |-> 0],
            pte |-> [v \in UPage |-> Absent], regs |-> [i \in 1..NReg |-> NoReg],
            brk0 |-> 0, brk |-> 0, top |-> 0]

Seqn(s, e) == [i \in 1..(e - s) |-> s + i - 1]
-----------------------------------------------------------------------------
(* A running operation: the bitmap, one address space and whether all is   *)
(* well so far.                                                            *)

Free(k) == {p \in Pages : p \notin k.used}
\* pmm_alloc_page(): which free frame it returns makes no difference here (module
\* Pmm has the search); the lowest is the one that is soonest used again
Got(k) == CHOOSE p \in Free(k) : IsNextFit(k.used, 0, p)
Alloced(k, p) == [k EXCEPT !.used = @ \cup {p}]
Freed(k, f) == [k EXCEPT !.used = @ \ ({f} \ {0})]
FreedAll(k, F) == [k EXCEPT !.used = @ \ F]

\* vmm_get_phys(): the identity map answers too
GetPhys(a, v) == IF v \div Win \in a.huge THEN v ELSE a.pte[v].f

\* vmm_map_page(): a large page is split into supervisor entries of the same
\* frames; running out of frames for a table is a panic
MapPage(k, v, f, prot) ==
  LET w == v \div Win
      new == k.a.pt[w] = 0
      k1 == IF new THEN Alloced(k, Got(k)) ELSE k
      split == IF w \in k.a.huge
               THEN [u \in UPage |-> IF u \in Of(w) THEN [f |-> u, user |-> FALSE, prot |-> {"w", "x"}]
                                     ELSE k.a.pte[u]]
               ELSE k.a.pte
  IN IF new /\ Free(k) = {} THEN [k EXCEPT !.panic = TRUE, !.ok = FALSE]
     ELSE [k1 EXCEPT !.a = [@ EXCEPT !.pt[w] = IF new THEN Got(k) ELSE @,
                                     !.huge = @ \ {w},
                                     !.pte = [split EXCEPT ![v] = [f |-> f, user |-> TRUE, prot |-> prot]]]]

\* vmm_unmap_page() and pmm_free_page(), as every caller pairs them.  In a large
\* page the whole of it goes.
UnmapPage(k, v) ==
  LET w == v \div Win
      f == GetPhys(k.a, v)
  IN IF f = 0 THEN k
     ELSE Freed([k EXCEPT !.a = IF w \in @.huge THEN [@ EXCEPT !.huge = @ \ {w}]
                                ELSE [@ EXCEPT !.pte[v] = Absent]], f)

RECURSIVE UnmapPages(_, _, _)
UnmapPages(k, s, e) == IF s >= e THEN k ELSE UnmapPages(UnmapPage(k, s), s + 1, e)

\* region_commit(): the first region of the same protection that touches the
\* range grows, else a free entry is taken, else the range is not recorded
RegionCommit(a, s, e, prot) ==
  LET touch == {i \in 1..NReg : /\ a.regs[i] # NoReg /\ a.regs[i].e >= s /\ a.regs[i].s <= e
                                /\ a.regs[i].prot = prot}
      free == {i \in 1..NReg : a.regs[i] = NoReg}
      least(X) == CHOOSE i \in X : \A j \in X : i <= j
      lo(x, y) == IF x < y THEN x ELSE y
      hi(x, y) == IF x > y THEN x ELSE y
  IN CASE touch # {} -> [a EXCEPT !.regs[least(touch)] = [@ EXCEPT !.s = lo(@, s), !.e = hi(@, e)]]
       [] touch = {} /\ free # {} -> [a EXCEPT !.regs[least(free)] = [s |-> s, e |-> e, prot |-> prot]]
       [] OTHER -> a

\* uvm_map_range(): one page of the range that began at s.  A page that is
\* mapped already gets both protections, except that its NX bit comes along with
\* the address; without a frame everything from s on is unmapped and freed again.
MapOne(k, s, v, prot) ==
  LET e == k.a.pte[v]
  IN CASE ~ k.ok -> k
       [] k.ok /\ e.f # 0 /\ e.user -> MapPage(k, v, e.f, e.prot \cup (prot \ ({"x"} \ e.prot)))
       [] k.ok /\ ~ (e.f # 0 /\ e.user) /\ Free(k) # {} -> MapPage(Alloced(k, Got(k)), v, Got(k), prot)
       [] OTHER -> [UnmapPages(k, s, v) EXCEPT !.ok = FALSE]

\* The pages from v on
RECURSIVE MapFrom(_, _, _, _, _)
MapFrom(k, s, v, e, prot) == IF v >= e THEN k ELSE MapFrom(MapOne(k, s, v, prot), s, v + 1, e, prot)

\* uvm_map_range()
MapRange(k, s, e, prot) ==
  LET r == MapFrom(k, s, s, e, prot)
  IN IF ~ k.ok \/ e <= s THEN [k EXCEPT !.ok = FALSE]
     ELSE IF r.ok THEN [r EXCEPT !.a = RegionCommit(@, s, e, prot)] ELSE r

\* uvm_unmap_range(): a cut in the middle of a region keeps its front
Cut(r, s, e) ==
  IF r = NoReg \/ r.e <= s \/ r.s >= e THEN r
  ELSE CASE r.s >= s /\ r.e <= e -> NoReg
         [] r.s < s -> [r EXCEPT !.e = s]
         [] OTHER -> [r EXCEPT !.s = e]

UnmapRange(k, s, e) ==
  LET r == UnmapPages(k, s, e)
  IN [r EXCEPT !.a.regs = [i \in 1..NReg |-> Cut(@[i], s, e)]]

\* uvm_release_mm(): every page of every region
RECURSIVE ReleaseFrom(_, _)
ReleaseFrom(k, i) == IF i > NReg THEN k ELSE ReleaseFrom(UnmapPages(k, k.a.regs[i].s, k.a.regs[i].e), i + 1)

ReleaseMm(k) ==
  LET r == ReleaseFrom(k, 1)
  IN [r EXCEPT !.a.regs = [i \in 1..NReg |-> NoReg], !.a.brk0 = 0, !.a.brk = 0, !.a.top = 0]

\* vmm_destroy_address_space()
Destroy(k) ==
  [FreedAll(k, k.a.upper \cup ({k.a.pt[w] : w \in Wins} \ {0})) EXCEPT !.a = FreshAs]

\* mm_put()
MmPut(k) ==
  IF k.a.refs > 1 THEN [k EXCEPT !.a.refs = @ - 1] ELSE Destroy(ReleaseMm(k))

\* mm_new(): the tables are allocated one by one and given back when one fails
MmNew(k) ==
  LET r == FoldLeft(LAMBDA k1, i : IF Free(k1) = {} THEN [k1 EXCEPT !.ok = FALSE]
                                   ELSE [Alloced(k1, Got(k1)) EXCEPT !.a.upper = @ \cup {Got(k1)}],
                    [k EXCEPT !.a = FreshAs], Seqn(1, NUpper + 1))
  IN IF r.ok THEN [r EXCEPT !.a.refs = 1] ELSE [FreedAll(r, r.a.upper) EXCEPT !.a = FreshAs]
-----------------------------------------------------------------------------
(* The calls.  g is the whole memory, k the part with one address space.   *)

Memory == [used |-> used, as |-> as, ok |-> TRUE, panic |-> panic]
In(g, m) == [used |-> g.used, a |-> g.as[m], ok |-> g.ok, panic |-> g.panic]
Out(g, m, k) == [g EXCEPT !.used = k.used, !.as[m] = k.a, !.panic = k.panic]

Put(g, m) == Out(g, m, MmPut(In(g, m)))

\* mm_put() for the processes ps
RECURSIVE PutAll(_, _, _)
PutAll(g, P, ps) == IF ps = <<>> THEN g ELSE PutAll(Put(g, P[Head(ps)].mm), P, Tail(ps))

Commit(g) == used' = g.used /\ as' = g.as /\ panic' = g.panic

\* The slot find_free_process() takes, and a number for a new mm_t
FreeSlot(P, c) == P[c].st = "UNUSED" /\ \A d \in 1..(c - 1) : P[d].st # "UNUSED"
FreeSpace(m) == as[m].refs = 0 /\ \A n \in 1..(m - 1) : as[n].refs # 0

Live(p) == proc[p].st = "LIVE" /\ ~ panic
Leader(p) == proc[p].lead = p

\* elf_load() and elf_load_interp(): the segments in order, the interpreter's,
\* which lie in the arena, last
RECURSIVE Load(_, _)
Load(k, img) == IF img = <<>> THEN k
                ELSE Load(MapRange(k, Head(img).s, Head(img).e, Head(img).prot), Tail(img))
Stack(k) == MapRange(k, StackBase, StackEnd, {"w"})
Ends(img) == {img[i].e : i \in DOMAIN img}
ImageEnd(img) == CHOOSE x \in Ends(img) : x < MmapBase /\ \A y \in Ends(img) : y <= x \/ y > MmapBase
ArenaStart(img) == CHOOSE x \in Ends(img) \cup {MmapBase} : x >= MmapBase /\ \A y \in Ends(img) : y <= x
Started(k, img) == [k EXCEPT !.a.brk0 = ImageEnd(img) * Half, !.a.brk = ImageEnd(img) * Half,
                             !.a.top = ArenaStart(img)]

\* shell_launch_program(): reaps every zombie, then exec_load_program().  A bad
\* interpreter releases the pages and forgets the mm_t.
Launch(img, how) ==
  LET dead == SelectSeq(Seqn(1, NProc + 1), LAMBDA p : proc[p].st = "ZOMBIE")
      g == PutAll(Memory, proc, dead)
      P == [p \in Procs |-> NoProc]
  IN /\ ~ panic /\ \A p \in Procs : proc[p].st # "LIVE"
     /\ how \in {"ok", "rejected"} \cup (Calls \cap {"interp"})
     /\ \E m \in Spaces :
          /\ g.as[m].refs = 0 /\ \A n \in 1..(m - 1) : g.as[n].refs # 0
          /\ LET k == MmNew(In(g, m))
                 l == Load(k, img)
                 t == Stack(l)
             IN CASE ~ k.ok -> Commit(Out(g, m, k)) /\ proc' = P
                  [] k.ok /\ l.ok /\ how = "interp" -> Commit(Out(g, m, ReleaseMm(l))) /\ proc' = P
                  [] k.ok /\ l.ok /\ t.ok /\ how = "ok" ->
                       /\ Commit(Out(g, m, Started(t, img)))
                       /\ proc' = [P EXCEPT ![1] = [st |-> "LIVE", mm |-> m, parent |-> 0, lead |-> 1]]
                  [] OTHER -> Commit(Out(g, m, IF t.panic THEN t ELSE MmPut(t))) /\ proc' = P
     /\ did' = IF proc'[1] = NoProc THEN [op |-> "none"] ELSE [op |-> "loaded", m |-> proc'[1].mm, img |-> img]

\* Mutant: the child is given the frame of the parent
CopyPageShares(k, e, v) == IF ~ k.ok \/ e.f = 0 THEN k ELSE MapPage(k, v, e.f, e.prot)

\* uvm_fork(): every present page of every region into a fresh frame, with the
\* low twelve bits of the entry: NX is bit 63
CopyPage(k, e, v) ==
  IF ~ k.ok \/ e.f = 0 THEN k
  ELSE IF Free(k) = {} THEN [ReleaseMm(k) EXCEPT !.ok = FALSE]
  ELSE MapPage(Alloced(k, Got(k)), v, Got(k), e.prot \cup {"x"})

RECURSIVE CopyPages(_, _, _, _)
CopyPages(k, a, v, e) == IF v >= e THEN k ELSE CopyPages(CopyPage(k, a.pte[v], v), a, v + 1, e)

RECURSIVE CopyRegs(_, _, _)
CopyRegs(k, a, i) ==
  IF i > NReg THEN k ELSE
  LET r == a.regs[i]
      c == CopyPages(k, a, r.s, r.e)
      j == CHOOSE x \in 1..NReg : c.a.regs[x] = NoReg /\ \A y \in 1..(x - 1) : c.a.regs[y] # NoReg
  IN CopyRegs(IF c.ok /\ r # NoReg THEN [c EXCEPT !.a.regs[j] = r] ELSE c, a, i + 1)

CopyAs(k, a) ==
  LET c == CopyRegs(k, a, 1)
  IN IF c.ok THEN [c EXCEPT !.a.brk0 = a.brk0, !.a.brk = a.brk, !.a.top = a.top] ELSE c

\* process_fork(), and process_clone() without CLONE_VM
Fork(p, c, m) ==
  /\ Live(p) /\ "fork" \in Calls /\ FreeSlot(proc, c) /\ FreeSpace(m)
  /\ LET n == MmNew(In(Memory, m))
         k == CopyAs(n, as[proc[p].mm])
         ok == n.ok /\ k.ok
     IN /\ Commit(Out(Memory, m, IF ~ n.ok THEN n ELSE IF ok \/ k.panic THEN k ELSE MmPut(k)))
        /\ proc' = IF ok THEN [proc EXCEPT ![c] = [st |-> "LIVE", mm |-> m, parent |-> proc[p].lead, lead |-> c]]
                   ELSE proc
        /\ did' = IF ok THEN [op |-> "fork", from |-> proc[p].mm, to |-> m] ELSE [op |-> "none"]

\* process_clone() with CLONE_VM: a thread, or a process that shares the memory
Clone(p, c, thread) ==
  /\ Live(p) /\ "clone" \in Calls /\ FreeSlot(proc, c)
  /\ as' = [as EXCEPT ![proc[p].mm].refs = @ + 1]
  /\ proc' = [proc EXCEPT ![c] = [st |-> "LIVE", mm |-> proc[p].mm, parent |-> proc[p].lead,
                                  lead |-> IF thread THEN proc[p].lead ELSE c]]
  /\ did' = [op |-> "clone"]
  /\ UNCHANGED <<used, panic>>

\* thread_release() of the threads T, and the leader p a zombie
Ended(g, P, T, p) ==
  /\ Commit(PutAll(g, P, SelectSeq(Seqn(1, NProc + 1), LAMBDA t : t \in T)))
  /\ proc' = [q \in Procs |-> IF q \in T THEN NoProc
                              ELSE IF q = p THEN [P[p] EXCEPT !.st = "ZOMBIE"] ELSE P[q]]
  /\ did' = [op |-> "exit"]

Group(p) == {t \in Procs : t # p /\ proc[t].st = "LIVE" /\ proc[t].lead = p}

EndedAs(g, P, p) == IF Leader(p) THEN Ended(g, P, Group(p), p) ELSE Ended(g, P, {p}, 0)

\* process_exit() and process_kill_current()
Exit(p) == Live(p) /\ EndedAs(Memory, proc, p)

\* sc_wait4() of a zombie child: process_reap()
Wait4(p, c) ==
  /\ Live(p) /\ proc[c].st = "ZOMBIE" /\ proc[c].parent = proc[p].lead
  /\ Commit(Put(Memory, proc[c].mm))
  /\ proc' = [proc EXCEPT ![c] = NoProc]
  /\ did' = [op |-> "wait4"]

\* Mutant: the old memory is kept
ExecKeepsOld(p, img, m) ==
  /\ Live(p) /\ "exec" \in Calls /\ FreeSpace(m)
  /\ LET n == MmNew(In(Memory, m))
         k == Load(Stack(n), img)
         g == Out(Memory, m, Started(k, img))
     IN /\ n.ok /\ k.ok
        /\ Commit(g)
        /\ proc' = [proc EXCEPT ![p].mm = m]
        /\ did' = [op |-> "exec"]

\* exec_replace(): a fresh mm_t is built and swapped in.  A failure ends the
\* process, which is left with what was built so far.
Exec(p, img, m) ==
  /\ Live(p) /\ "exec" \in Calls /\ FreeSpace(m)
  /\ LET n == MmNew(In(Memory, m))
         k == Load(Stack(n), img)
         g == Out(Memory, m, Started(k, img))
         P == IF n.ok THEN [proc EXCEPT ![p].mm = m] ELSE proc
     IN IF n.ok /\ k.ok
        THEN /\ Commit(Put(g, proc[p].mm))
             /\ proc' = P
             /\ did' = [op |-> "loaded", m |-> m, img |-> img]
        ELSE EndedAs(Out(Memory, m, IF n.ok THEN k ELSE n), P, p)

\* What a careful program unmaps: pages that are mapped, not from the middle of
\* a region
TidyRange(a, s, e) ==
  ~ Tidy \/ /\ \A v \in s..(e - 1) : a.pte[v].user
            /\ \A i \in 1..NReg : ~ (a.regs[i].s < s /\ e < a.regs[i].e)

\* A call of p on its own memory, with result k
Calling(p, name) == Live(p) /\ name \in Calls
Changes(p, k, call) ==
  /\ Commit(Out(Memory, proc[p].mm, k))
  /\ did' = call
  /\ UNCHANGED proc

\* uvm_mmap_anon() without MAP_FIXED: from the top of the arena
Mmap(p, n, prot) ==
  LET m == proc[p].mm
      s == as[m].top
      k == MapRange(In(Memory, m), s, s + n, prot)
  IN /\ Calling(p, "mmap")
     /\ s + n <= MmapLimit
     /\ Changes(p, IF k.ok THEN [k EXCEPT !.a.top = s + n] ELSE k,
                [op |-> IF k.ok THEN "mmap" ELSE "none", m |-> m, s |-> s, e |-> s + n])

\* uvm_mmap_anon() with MAP_FIXED: what is there is unmapped first
MmapFixed(p, s, e, prot) ==
  LET k == In(Memory, proc[p].mm)
  IN /\ Calling(p, "fixed")
     /\ ElfBase <= s /\ e <= MmapLimit /\ TidyRange(k.a, s, e)
     /\ Changes(p, MapRange(UnmapRange(k, s, e), s, e, prot), [op |-> "fixed"])

\* sc_munmap()
Munmap(p, s, e) ==
  LET k == In(Memory, proc[p].mm)
  IN /\ Calling(p, "munmap")
     /\ s < e /\ TidyRange(k.a, s, e)
     /\ Changes(p, UnmapRange(k, s, e), [op |-> "munmap"])

\* sc_mprotect(): uvm_check_range(), then every page and every region it touches
Mprotect(p, s, e, prot) ==
  LET k == In(Memory, proc[p].mm)
      r == FoldLeft(LAMBDA k1, v : MapPage(k1, v, GetPhys(k1.a, v), prot), k, Seqn(s, e))
  IN /\ Calling(p, "mprotect")
     /\ s < e
     /\ \A v \in s..(e - 1) : /\ GetPhys(k.a, v) # 0
                              /\ \E i \in 1..NReg : k.a.regs[i].s <= v /\ v < k.a.regs[i].e
     /\ Changes(p, [r EXCEPT !.a.regs = [i \in 1..NReg |->
                      IF @[i] = NoReg \/ @[i].e <= s \/ @[i].s >= e THEN @[i] ELSE [@[i] EXCEPT !.prot = prot]]],
                [op |-> "mprotect"])

PageUp(addr) == (addr + Half - 1) \div Half

\* sc_brk(): the range between the old and the new break is rounded outwards
Brk(p, addr) ==
  LET k == In(Memory, proc[p].mm)
      up == MapRange(k, k.a.brk \div Half, PageUp(addr), {"w"})
      down == UnmapRange(k, addr \div Half, PageUp(k.a.brk))
  IN /\ Calling(p, "brk")
     /\ k.a.brk0 # 0 /\ addr >= k.a.brk0 /\ addr <= BrkLimit * Half /\ addr # k.a.brk
     /\ (Tidy /\ addr < k.a.brk) => addr % Half = 0
     /\ Changes(p, IF addr > k.a.brk THEN (IF up.ok THEN [up EXCEPT !.a.brk = addr] ELSE up)
                   ELSE [down EXCEPT !.a.brk = addr],
                [op |-> "brk"])

\* panic() stops the machine
Halted == panic /\ UNCHANGED vars

Init == /\ used = Pages \ Ram
        /\ as = [m \in Spaces |-> FreshAs]
        /\ proc = [p \in Procs |-> NoProc]
        /\ panic = FALSE
        /\ did = [op |-> "none"]

Next ==
  \/ Halted
  \/ \E img \in Images, how \in {"ok", "rejected", "interp"} : Launch(img, how)
  \/ \E p, c \in Procs, m \in Spaces : Fork(p, c, m)
  \/ \E p, c \in Procs, thread \in BOOLEAN : Clone(p, c, thread)
  \/ \E p \in Procs : Exit(p)
  \/ \E p, c \in Procs : Wait4(p, c)
  \/ \E p \in Procs, img \in Images, m \in Spaces : Exec(p, img, m)
  \/ \E p \in Procs, n \in 1..(MmapLimit - MmapBase), prot \in {{}, {"w"}} : Mmap(p, n, prot)
  \/ \E p \in Procs, s \in MmapBase..(MmapLimit - 1), e \in (MmapBase + 1)..MmapLimit :
       s < e /\ (MmapFixed(p, s, e, {}) \/ Munmap(p, s, e) \/ \E prot \in {{}, {"w"}} : Mprotect(p, s, e, prot))
  \/ \E p \in Procs, addr \in (ElfBase * Half)..(BrkLimit * Half) : Brk(p, addr)

Spec == Init /\ [][Next]_vars
-----------------------------------------------------------------------------
\* What a frame is used for: table above the last level, last-level table, page
Uses(f) == {<<m, "upper", 0>> : m \in {x \in Spaces : f \in as[x].upper}}
      \cup {<<u[1], "table", u[2]>> : u \in {x \in Spaces \X Wins : as[x[1]].pt[x[2]] = f}}
      \cup {<<u[1], "page", u[2]>> : u \in {x \in Spaces \X UPage : as[x[1]].pte[x[2]].f = f /\ as[x[1]].pte[x[2]].user}}

\* Types
TypeOK ==
  /\ used \subseteq Pages /\ panic \in BOOLEAN
  /\ proc \in [Procs -> [st : {"UNUSED", "LIVE", "ZOMBIE"}, mm : {0} \cup Spaces, parent : {0} \cup Procs,
                         lead : {0} \cup Procs]]
  /\ \A m \in Spaces :
       /\ as[m].refs \in 0..NProc /\ as[m].upper \subseteq Pages /\ as[m].huge \subseteq Wins
       /\ as[m].pt \in [Wins -> Pages]
       /\ as[m].pte \in [UPage -> [f : Pages, user : BOOLEAN, prot : Prot]]
       /\ as[m].regs \in [1..NReg -> [s : 0..NPage, e : 0..NPage, prot : Prot]]

\* mm_t.refs is the number of processes and threads that hold the mm_t, through
\* fork, clone, exec, exit and wait4: none is freed under a holder, none is left.
RefsExact ==
  ~ panic => \A m \in Spaces : as[m].refs = Cardinality({p \in Procs : proc[p].st # "UNUSED" /\ proc[p].mm = m})

\* A frame is one page of one process, or one table, and never both or two of
\* them.
FramesOnce ==
  ~ panic => \A f \in Pages : Cardinality(Uses(f)) <= 1 \/ f = 0

\* Every frame in use for a process is marked used in the page bitmap.
FramesMarked ==
  ~ panic => \A f \in Pages \ {0} : Uses(f) # {} => f \in used

\* Every frame taken from the bitmap is in use for some process: exits, failed
\* loads and unmapped ranges give back all they took.
NoFrameLeak == ~ panic => \A f \in Ram : f \in used => Uses(f) # {}

\* Frames that are not RAM are never free to be handed out.
NeverNonRam == Pages \ Ram \subseteq used

\* A page a process has mapped is inside one of its regions, else teardown,
\* fork and the check of user pointers do not see it.
Tracked ==
  ~ panic => \A m \in Spaces, v \in UPage :
    as[m].pte[v].user => \E i \in 1..NReg : as[m].regs[i].s <= v /\ v < as[m].regs[i].e

\* The heap of a process is mapped up to its break.
BrkMapped ==
  ~ panic => \A p \in Procs : proc[p].st = "LIVE" =>
    LET a == as[proc[p].mm] IN \A v \in UPage : v * Half >= a.brk0 /\ v * Half < a.brk => a.pte[v].user

=============================================================================
