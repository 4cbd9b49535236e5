---------------------------- MODULE MemoryProofs ----------------------------
(***************************************************************************)
(* Theorems about memory.c.  For any number of processes, frames and       *)
(* pages, a process runs and is walked on its own tables and the TLB is    *)
(* never stale (AddrSpace).  For every memory map and every size of        *)
(* request, the page allocator hands no page out twice, its counter is     *)
(* exact, it fails only when nothing fits, what the boot reserved stays    *)
(* reserved, and the statistics are right when the RAM ends on a page      *)
(* boundary (Pmm).                                                         *)
(***************************************************************************)
EXTENDS AddrSpace, Pmm, FiniteSetTheorems, WellFoundedInduction, TLAPS

\* Frame number 0 stands for "none" and for the boot tables.
Setting == 0 \notin Frame /\ NProc \in Nat

\* A process owns the frames of its tables, each for one purpose.
Owned ==
  \A p \in Procs : root[p] # 0 =>
    /\ root[p] \in frames
    /\ \A v \in Page : tables[root[p]][v] # 0 => tables[root[p]][v] \in frames \ {root[p]}
    /\ \A u, v \in Page : tables[root[p]][u] = tables[root[p]][v] /\ tables[root[p]][u] # 0 => u = v

\* Two processes share no frame.
Apart ==
  \A p, q \in Procs : p # q /\ root[p] # 0 /\ root[q] # 0 =>
    /\ root[p] # root[q]
    /\ \A v \in Page : tables[root[q]][v] # root[p]
    /\ \A u, v \in Page : tables[root[p]][u] # 0 => tables[root[p]][u] # tables[root[q]][v]

\* Only the tables of a process map anything: those of a destroyed address space
\* are empty, even while CR3 still has them.
NoStray == \A r \in Frame : (\A p \in Procs : root[p] # r) => tables[r] = NoPages

MapInv == Owned /\ Apart /\ NoStray

\* A slot has an address space exactly while it is taken.
RootInv == \A p \in Procs : root[p] # 0 <=> st[p] # "UNUSED"

\* vmm_switch_cr3()'s copy is CR3 itself; the RUNNING process has its tables in CR3
\* and in the walk pointer, also while the main task has a turn; and the shell
\* launches a program only when nothing else is alive.
CpuInv ==
  /\ active = cr3
  /\ cpu # 0 => st[cpu] = "RUNNING"
  /\ \A p \in Procs : st[p] = "RUNNING" => cr3 = root[p] /\ walk = root[p]
  /\ launch # "idle" => cpu = 0 /\ \A p \in Procs : st[p] \in {"UNUSED", "READY"}

\* The inductive invariant.
SpaceInv == TypeOK /\ RootInv /\ CpuInv /\ MapInv /\ NoStaleTlb

\* What a step finds, with the types spelled out.
LEMMA Facts ==
  ASSUME Setting, TypeOK
  PROVE  /\ frames \subseteq Frame
         /\ tables \in [Frame -> [Page -> Frame \cup {0}]]
         /\ root \in [Procs -> Frame \cup {0}]
         /\ 0 \notin Frame /\ 0 \notin Procs
BY DEF Setting, TypeOK, Procs

\* A new address space of free frames: mm_new() and what is mapped into it.
LEMMA Grown ==
  ASSUME Setting, TypeOK, MapInv,
         NEW p \in Procs, NEW r \in Free, NEW F \in [Page -> Free \cup {0}],
         NEW V \in SUBSET Page, Built(r, F, V), root[p] = 0,
         frames' = frames \cup {r} \cup ({F[v] : v \in Page} \ {0}),
         root' = [root EXCEPT ![p] = r]
  PROVE  /\ MapInv' /\ frames' \subseteq Frame
         /\ tables' \in [Frame -> [Page -> Frame \cup {0}]]
         /\ root' \in [Procs -> Frame \cup {0}]
<1>1. /\ frames \subseteq Frame /\ tables \in [Frame -> [Page -> Frame \cup {0}]]
      /\ root \in [Procs -> Frame \cup {0}] /\ 0 \notin Frame
  BY Facts
<1>2. r \in Frame /\ r \notin frames /\ r # 0
  BY <1>1, Zenon DEF Free
<1>3. \A v \in Page : F[v] # 0 => F[v] \in Frame /\ F[v] \notin frames /\ F[v] # r
  BY <1>1, Zenon DEF Built, Free
<1>4. \A u, v \in Page : F[u] = F[v] /\ F[u] # 0 => u = v
  BY <1>1, Zenon DEF Built, Free
<1>5. /\ tables' = [tables EXCEPT ![r] = F]
      /\ \A s \in Frame : tables'[s] = IF s = r THEN F ELSE tables[s]
      /\ \A q \in Procs : root'[q] = IF q = p THEN r ELSE root[q]
  BY <1>1, Zenon DEF Built
<1>6. \A q \in Procs : q # p /\ root[q] # 0 =>
        root[q] \in Frame /\ root[q] \in frames /\ root[q] # r /\ tables'[root[q]] = tables[root[q]]
  BY <1>1, <1>2, <1>5 DEF MapInv, Owned
<1>7. \A f : f \in frames' <=> f \in frames \/ f = r \/ (f # 0 /\ \E v \in Page : f = F[v])
  BY <1>2, Zenon
<1>8. Owned'
  <2> SUFFICES ASSUME NEW q \in Procs, root'[q] # 0
               PROVE  /\ root'[q] \in frames'
                      /\ \A v \in Page : tables'[root'[q]][v] # 0 => tables'[root'[q]][v] \in frames' \ {root'[q]}
                      /\ \A u, v \in Page : tables'[root'[q]][u] = tables'[root'[q]][v] /\ tables'[root'[q]][u] # 0 => u = v
    BY Zenon DEF Owned
  <2>1. CASE q = p
    <3>1. root'[q] = r /\ tables'[r] = F
      BY <2>1, <1>2, <1>5, Zenon
    <3> QED BY <3>1, <1>3, <1>4, <1>7
  <2>2. CASE q # p
    <3>1. root'[q] = root[q] /\ tables'[root[q]] = tables[root[q]] /\ root[q] # 0
      BY <2>2, <1>5, <1>6, Zenon
    <3> QED BY <3>1, <1>7 DEF MapInv, Owned
  <2> QED BY <2>1, <2>2, Zenon
<1>9. Apart'
  <2> SUFFICES ASSUME NEW a \in Procs, NEW b \in Procs, a # b, root'[a] # 0, root'[b] # 0
               PROVE  /\ root'[a] # root'[b]
                      /\ \A v \in Page : tables'[root'[b]][v] # root'[a]
                      /\ \A u, v \in Page : tables'[root'[a]][u] # 0 => tables'[root'[a]][u] # tables'[root'[b]][v]
    BY DEF Apart
  <2>0. /\ root'[p] = r /\ tables'[r] = F
        /\ \A q \in Procs : q # p /\ root'[q] # 0 =>
             /\ root'[q] = root[q] /\ root[q] # 0 /\ root[q] \in frames /\ tables'[root[q]] = tables[root[q]]
             /\ \A v \in Page : tables[root[q]][v] # 0 => tables[root[q]][v] \in frames
    BY <1>2, <1>5, <1>6 DEF MapInv, Owned
  <2>1. CASE a = p
    BY <2>0, <2>1, <1>2, <1>3
  <2>2. CASE b = p
    BY <2>0, <2>2, <1>2, <1>3
  <2>3. CASE a # p /\ b # p
    BY <2>0, <2>3 DEF MapInv, Apart
  <2> QED BY <2>1, <2>2, <2>3, Zenon
<1>10. NoStray'
  <2> SUFFICES ASSUME NEW s \in Frame, \A q \in Procs : root'[q] # s PROVE tables'[s] = NoPages
    BY Zenon DEF NoStray, NoPages
  <2>1. s # r /\ \A q \in Procs : root[q] # s
    <3>1. s # r
      BY <1>5, Zenon
    <3>2. root[p] # s
      BY <1>1, Zenon
    <3> QED BY <3>1, <3>2, <1>5, Zenon
  <2> QED BY <2>1, <1>5, Zenon DEF MapInv, NoStray
<1>11. frames' \subseteq Frame
  BY <1>1, <1>2, <1>3, <1>7
<1>12. F \in [Page -> Frame \cup {0}]
  BY Zenon DEF Free
<1> QED BY <1>1, <1>2, <1>5, <1>8, <1>9, <1>10, <1>11, <1>12, Zenon DEF MapInv

\* Address spaces of the processes D destroyed: mm_put() of the last reference.
LEMMA Dropped ==
  ASSUME Setting, TypeOK, MapInv, NoStaleTlb,
         NEW D \in SUBSET Procs, \A p \in D : root[p] # 0,
         Destroyed({root[p] : p \in D}),
         root' = [p \in Procs |-> IF p \in D THEN 0 ELSE root[p]], cr3' = cr3
  PROVE  /\ MapInv' /\ NoStaleTlb' /\ frames' \subseteq Frame
         /\ tables' \in [Frame -> [Page -> Frame \cup {0}]]
         /\ root' \in [Procs -> Frame \cup {0}]
         /\ walk' \in Frame \cup {0} /\ tlb' \subseteq Page \X Frame
<1> DEFINE R == {root[p] : p \in D}
<1>1. /\ frames \subseteq Frame /\ tables \in [Frame -> [Page -> Frame \cup {0}]]
      /\ root \in [Procs -> Frame \cup {0}] /\ 0 \notin Frame
  BY Facts, Zenon
<1>2. /\ tables' = [r \in Frame |-> IF r \in R THEN NoPages ELSE tables[r]]
      /\ frames' = frames \ UNION {FramesOf(r) : r \in R}
      /\ walk' = IF walk \in R THEN BootRoot ELSE walk
      /\ tlb' = IF cr3 \in R THEN Kept(cr3, Page) ELSE tlb
  BY Zenon DEF Destroyed
<1>3. \A q \in Procs : root'[q] # 0 => /\ q \notin D /\ root'[q] = root[q] /\ root[q] \in Frame /\ root[q] \notin R
                                       /\ tables'[root[q]] = tables[root[q]]
  <2> SUFFICES ASSUME NEW q \in Procs, root'[q] # 0
               PROVE  q \notin D /\ root'[q] = root[q] /\ root[q] \in Frame /\ root[q] \notin R /\ tables'[root[q]] = tables[root[q]]
    BY Zenon
  <2>1. q \notin D /\ root'[q] = root[q] /\ root[q] \in Frame
    BY <1>1, Zenon
  <2>2. root[q] \notin R
    BY <2>1, <1>1, Zenon DEF MapInv, Apart
  <2> QED BY <2>1, <2>2, <1>2, Zenon
<1>4. \A f \in frames : (\A p \in D : f # root[p] /\ \A v \in Page : tables[root[p]][v] # f) => f \in frames'
  <2> SUFFICES ASSUME NEW f \in frames, \A p \in D : f # root[p] /\ \A v \in Page : tables[root[p]][v] # f
               PROVE  f \notin UNION {FramesOf(r) : r \in R}
    BY <1>2, Zenon
  <2> QED BY DEF FramesOf, Mapped
<1>5. \A q \in Procs : root'[q] # 0 =>
        /\ root[q] \in frames'
        /\ \A v \in Page : tables[root[q]][v] # 0 => tables[root[q]][v] \in frames'
  <2> SUFFICES ASSUME NEW q \in Procs, root'[q] # 0
               PROVE  root[q] \in frames' /\ \A v \in Page : tables[root[q]][v] # 0 => tables[root[q]][v] \in frames'
    BY Zenon
  <2>1. q \notin D /\ root[q] # 0
    BY <1>1, <1>3, Zenon
  <2>2. \A p \in D : /\ root[q] # root[p] /\ \A v \in Page : tables[root[p]][v] # root[q]
                     /\ \A u \in Page : tables[root[q]][u] # 0 =>
                          tables[root[q]][u] # root[p] /\ \A v \in Page : tables[root[p]][v] # tables[root[q]][u]
    BY <2>1 DEF MapInv, Apart
  <2>3. root[q] \in frames /\ \A v \in Page : tables[root[q]][v] # 0 => tables[root[q]][v] \in frames
    BY <2>1, Zenon DEF MapInv, Owned
  <2> QED BY <2>2, <2>3, <1>4, Zenon
<1>6. Owned'
  BY <1>3, <1>5 DEF MapInv, Owned
<1>7. Apart'
  BY <1>3 DEF MapInv, Apart
<1>8. NoStray'
  <2> SUFFICES ASSUME NEW r \in Frame, \A q \in Procs : root'[q] # r PROVE tables'[r] = NoPages
    BY Zenon DEF NoStray, NoPages
  <2>1. r \in R \/ \A q \in Procs : root[q] # r
    OBVIOUS
  <2> QED BY <2>1, <1>2, Zenon DEF MapInv, NoStray
<1>9. tlb \subseteq Page \X Frame /\ tlb' \subseteq tlb /\ (cr3 \in R => tlb' = {})
  BY <1>2, Zenon DEF Kept, TypeOK
<1>10. NoStaleTlb'
  <2> SUFFICES ASSUME NEW x \in tlb' PROVE cr3 # BootRoot /\ tables'[cr3][x[1]] = x[2]
    BY Zenon DEF NoStaleTlb, BootRoot
  <2>1. cr3 \notin R /\ cr3 # BootRoot /\ tables[cr3][x[1]] = x[2]
    BY <1>9, Zenon DEF NoStaleTlb
  <2>2. cr3 \in Frame
    BY <2>1, Zenon DEF TypeOK, BootRoot
  <2> QED BY <2>1, <2>2, <1>2, Zenon
<1>11. tables' \in [Frame -> [Page -> Frame \cup {0}]]
  BY <1>1, <1>2, Zenon DEF NoPages
<1>12. walk' \in Frame \cup {0}
  BY <1>2 DEF TypeOK, BootRoot
<1> QED BY <1>1, <1>2, <1>6, <1>7, <1>8, <1>9, <1>10, <1>11, <1>12, Zenon DEF MapInv

\* exec_replace(): the new tables take the place of the old ones.
LEMMA Replaced ==
  ASSUME Setting, SpaceInv, NEW p \in Procs, NEW r \in Free, NEW F \in [Page -> Free \cup {0}],
         Exec(p, r, F)
  PROVE  /\ MapInv' /\ frames' \subseteq Frame
         /\ tables' \in [Frame -> [Page -> Frame \cup {0}]]
         /\ root' = [root EXCEPT ![p] = r] /\ r \in Frame /\ r # root[p] /\ root[p] \in Frame
<1> DEFINE old == root[p]
<1>1. /\ frames \subseteq Frame /\ tables \in [Frame -> [Page -> Frame \cup {0}]]
      /\ root \in [Procs -> Frame \cup {0}] /\ 0 \notin Frame /\ 0 \notin Procs
  BY Facts, Zenon DEF SpaceInv
<1>2. cpu = p /\ st[p] = "RUNNING" /\ old \in Frame /\ old \in frames
  <2>1. cpu = p /\ st[p] = "RUNNING"
    BY <1>1, Zenon DEF Exec, SpaceInv, CpuInv
  <2>2. root[p] # 0
    BY <2>1, Zenon DEF SpaceInv, RootInv
  <2> QED BY <2>1, <2>2, <1>1, Zenon DEF SpaceInv, MapInv, Owned
<1>3. r \in Frame /\ r \notin frames /\ r # 0 /\ r # old
  BY <1>1, <1>2, Zenon DEF Free
<1>4. \A v \in Page : F[v] # 0 => F[v] \in Frame /\ F[v] \notin frames /\ F[v] # r
  BY <1>1 DEF Exec, Free
<1>5. \A u, v \in Page : F[u] = F[v] /\ F[u] # 0 => u = v
  BY <1>1, Zenon DEF Exec, Free
<1>6. /\ root' = [root EXCEPT ![p] = r]
      /\ tables' = [tables EXCEPT ![r] = F, ![old] = NoPages]
      /\ frames' = (frames \ FramesOf(old)) \cup {r} \cup ({F[v] : v \in Page} \ {0})
  BY Zenon DEF Exec
<1>7. /\ \A s \in Frame : tables'[s] = IF s = old THEN NoPages ELSE IF s = r THEN F ELSE tables[s]
      /\ \A q \in Procs : root'[q] = IF q = p THEN r ELSE root[q]
  BY <1>1, <1>2, <1>3, <1>6, Zenon DEF NoPages
<1>8. \A f \in frames : f # old /\ (\A v \in Page : tables[old][v] # f) => f \in frames'
  BY <1>6, Zenon DEF FramesOf, Mapped
<1>9. r \in frames' /\ \A v \in Page : F[v] # 0 => F[v] \in frames'
  BY <1>6, Zenon
<1>10. root'[p] = r /\ tables'[r] = F
  BY <1>3, <1>7, Zenon
<1>11. \A q \in Procs : q # p /\ root'[q] # 0 =>
        /\ root'[q] = root[q] /\ root[q] \in Frame /\ root[q] # 0 /\ tables'[root[q]] = tables[root[q]]
        /\ root[q] \in frames /\ \A v \in Page : tables[root[q]][v] # 0 => tables[root[q]][v] \in frames
  <2> SUFFICES ASSUME NEW q \in Procs, q # p, root'[q] # 0
               PROVE  /\ root'[q] = root[q] /\ root[q] \in Frame /\ root[q] # 0 /\ tables'[root[q]] = tables[root[q]]
                      /\ root[q] \in frames /\ \A v \in Page : tables[root[q]][v] # 0 => tables[root[q]][v] \in frames
    BY Zenon
  <2>1. root'[q] = root[q] /\ root[q] \in Frame /\ root[q] # 0
    BY <1>1, <1>7
  <2>2. root[q] \in frames /\ \A v \in Page : tables[root[q]][v] # 0 => tables[root[q]][v] \in frames
    BY <2>1, Zenon DEF SpaceInv, MapInv, Owned
  <2>3. root[q] # old
    BY <2>1, <1>1, <1>2, Zenon DEF SpaceInv, MapInv, Apart
  <2> QED BY <2>1, <2>2, <2>3, <1>3, <1>7, Zenon
<1>12. \A q \in Procs : q # p /\ root'[q] # 0 =>
         root[q] \in frames' /\ \A v \in Page : tables[root[q]][v] # 0 => tables[root[q]][v] \in frames'
  <2> SUFFICES ASSUME NEW q \in Procs, q # p, root'[q] # 0
               PROVE  root[q] \in frames' /\ \A v \in Page : tables[root[q]][v] # 0 => tables[root[q]][v] \in frames'
    BY Zenon
  <2>1. root[q] # 0 /\ old # 0
    BY <1>1, <1>2, <1>11, Zenon
  <2>2. /\ root[q] # old /\ \A v \in Page : tables[old][v] # root[q]
        /\ \A u \in Page : tables[root[q]][u] # 0 =>
             tables[root[q]][u] # old /\ \A v \in Page : tables[old][v] # tables[root[q]][u]
    BY <2>1 DEF SpaceInv, MapInv, Apart
  <2> QED BY <2>2, <1>8, <1>11, Zenon
<1> HIDE DEF old
<1>13. Owned'
  <2> SUFFICES ASSUME NEW q \in Procs, root'[q] # 0
               PROVE  /\ root'[q] \in frames'
                      /\ \A v \in Page : tables'[root'[q]][v] # 0 => tables'[root'[q]][v] \in frames' \ {root'[q]}
                      /\ \A u, v \in Page : tables'[root'[q]][u] = tables'[root'[q]][v] /\ tables'[root'[q]][u] # 0 => u = v
    BY Zenon DEF Owned
  <2>1. CASE q = p
    BY <2>1, <1>4, <1>5, <1>9, <1>10, Zenon
  <2>2. CASE q # p
    BY <2>2, <1>11, <1>12 DEF SpaceInv, MapInv, Owned
  <2> QED BY <2>1, <2>2, Zenon
<1>14. Apart'
  <2> SUFFICES ASSUME NEW a \in Procs, NEW b \in Procs, a # b, root'[a] # 0, root'[b] # 0
               PROVE  /\ root'[a] # root'[b]
                      /\ \A v \in Page : tables'[root'[b]][v] # root'[a]
                      /\ \A u, v \in Page : tables'[root'[a]][u] # 0 => tables'[root'[a]][u] # tables'[root'[b]][v]
    BY DEF Apart
  <2>1. CASE a = p
    BY <2>1, <1>3, <1>4, <1>10, <1>11
  <2>2. CASE b = p
    BY <2>2, <1>3, <1>4, <1>10, <1>11
  <2>3. CASE a # p /\ b # p
    BY <2>3, <1>11 DEF SpaceInv, MapInv, Apart
  <2> QED BY <2>1, <2>2, <2>3, Zenon
<1>15. NoStray'
  <2> SUFFICES ASSUME NEW s \in Frame, \A q \in Procs : root'[q] # s PROVE tables'[s] = NoPages
    BY Zenon DEF NoStray, NoPages
  <2>1. s # r
    BY <1>10, Zenon
  <2>2. s # old => \A q \in Procs : root[q] # s
    BY <1>7, Zenon DEF old
  <2> QED BY <2>1, <2>2, <1>7, Zenon DEF SpaceInv, MapInv, NoStray
<1>16. frames' \subseteq Frame
  BY <1>1, <1>3, <1>4, <1>6
<1>17. tables' \in [Frame -> [Page -> Frame \cup {0}]]
  <2>1. F \in [Page -> Frame \cup {0}] /\ NoPages \in [Page -> Frame \cup {0}]
    BY <1>1, Zenon DEF Free, NoPages
  <2> QED BY <2>1, <1>1, <1>2, <1>3, <1>6, Zenon
<1> QED BY <1>2, <1>3, <1>6, <1>13, <1>14, <1>15, <1>16, <1>17, Zenon DEF MapInv, old

\* One process is RUNNING at a time.
LEMMA OneRuns ==
  ASSUME Setting, SpaceInv, NEW p \in Procs, NEW q \in Procs, st[p] = "RUNNING", st[q] = "RUNNING"
  PROVE  p = q
<1>1. root[p] = cr3 /\ root[q] = cr3
  BY Zenon DEF SpaceInv, CpuInv
<1>2. root[p] # 0 /\ root[q] # 0
  BY Zenon DEF SpaceInv, RootInv
<1> QED BY <1>1, <1>2 DEF SpaceInv, MapInv, Apart

\* vmm_switch_cr3() to the tables of a process.
LEMMA Switched ==
  ASSUME Setting, SpaceInv, NEW p \in Procs, st[p] # "UNUSED", Switch(root[p]), UNCHANGED <<frames, tables, root>>
  PROVE  /\ MapInv' /\ NoStaleTlb' /\ tlb' \subseteq Page \X Frame
         /\ cr3' = root[p] /\ active' = root[p] /\ walk' = root[p] /\ root[p] \in Frame
<1>1. root[p] \in Frame
  BY Zenon DEF SpaceInv, RootInv, TypeOK
<1>2. cr3' = root[p] /\ active' = root[p] /\ walk' = root[p] /\ (tlb' = {} \/ (tlb' = tlb /\ cr3' = cr3))
  BY Zenon DEF Switch, SpaceInv, CpuInv
<1>3. MapInv'
  BY DEF SpaceInv, MapInv, Owned, Apart, NoStray, NoPages
<1>4. NoStaleTlb' /\ tlb' \subseteq Page \X Frame
  BY <1>2, Zenon DEF SpaceInv, NoStaleTlb, TypeOK, BootRoot
<1> QED BY <1>1, <1>2, <1>3, <1>4, Zenon

\* Steps that move the CPU or a state and leave memory and tables alone.
LEMMA SameMemory ==
  ASSUME SpaceInv, UNCHANGED <<frames, tables, root, cr3, active, walk, tlb>>
  PROVE  MapInv' /\ NoStaleTlb'
BY DEF SpaceInv, MapInv, Owned, Apart, NoStray, NoPages, NoStaleTlb, BootRoot

\* The TLB across an edit of the tables at r: the pages V that changed are dropped
\* when r is in CR3, and nothing needs to be when it is not.
LEMMA Edited ==
  ASSUME TypeOK, NoStaleTlb, NEW r \in Frame, NEW V \in SUBSET Page, cr3' = cr3, tlb' = Kept(r, V),
         \A s \in Frame : s # r => tables'[s] = tables[s],
         \A v \in Page \ V : tables'[r][v] = tables[r][v]
  PROVE  NoStaleTlb' /\ tlb' \subseteq Page \X Frame
<1>1. tlb \subseteq Page \X Frame /\ tlb' \subseteq tlb /\ (r = cr3 => \A x \in tlb' : x[1] \notin V)
  BY Zenon DEF TypeOK, Kept
<1>2. SUFFICES ASSUME NEW x \in tlb' PROVE cr3 # BootRoot /\ tables'[cr3][x[1]] = x[2]
  BY <1>1, Zenon DEF NoStaleTlb, BootRoot
<1>3. x \in tlb /\ x[1] \in Page /\ cr3 # BootRoot /\ tables[cr3][x[1]] = x[2] /\ cr3 \in Frame
  BY <1>1 DEF NoStaleTlb, TypeOK, BootRoot
<1>4. CASE r = cr3
  BY <1>1, <1>3, <1>4, Zenon
<1>5. CASE r # cr3
  BY <1>3, <1>5, Zenon
<1> QED BY <1>4, <1>5, Zenon

\* process_run(), scheduler_tick(), park_switch() and process_exit() to the parent.
LEMMA RunStep ==
  ASSUME Setting, SpaceInv, NEW p \in Procs, Run(p) PROVE SpaceInv'
<1>1. st[p] # "UNUSED" /\ Switch(root[p]) /\ UNCHANGED <<frames, tables, root>>
  BY Zenon DEF Run
<1>2. /\ MapInv' /\ NoStaleTlb' /\ tlb' \subseteq Page \X Frame
      /\ cr3' = root[p] /\ active' = root[p] /\ walk' = root[p] /\ root[p] \in Frame
  BY <1>1, Switched, Zenon
<1>3. \A q \in Procs : st'[q] = IF q = p THEN "RUNNING" ELSE st[q]
  BY Zenon DEF Run, SpaceInv, TypeOK
<1>4. TypeOK'
  BY <1>1, <1>2, Zenon DEF Run, SpaceInv, TypeOK
<1>5. RootInv'
  BY <1>1, <1>3, Zenon DEF SpaceInv, RootInv
<1>6. CpuInv'
  BY <1>1, <1>2, <1>3 DEF Run, SpaceInv, CpuInv
<1> QED BY <1>2, <1>4, <1>5, <1>6, Zenon DEF SpaceInv

LEMMA DispatchStep ==
  ASSUME Setting, SpaceInv, NEW p \in Procs, Dispatch(p) PROVE SpaceInv'
<1>1. st[p] # "UNUSED" /\ Switch(root[p]) /\ UNCHANGED <<frames, tables, root>>
  BY Zenon DEF Dispatch
<1>2. /\ MapInv' /\ NoStaleTlb' /\ tlb' \subseteq Page \X Frame
      /\ cr3' = root[p] /\ active' = root[p] /\ walk' = root[p] /\ root[p] \in Frame
  BY <1>1, Switched, Zenon
<1>3. \A q \in Procs : st'[q] = IF q = p THEN "RUNNING" ELSE IF st[q] = "RUNNING" THEN "READY" ELSE st[q]
  BY Zenon DEF Dispatch
<1>4. TypeOK'
  BY <1>1, <1>2, Zenon DEF Dispatch, SpaceInv, TypeOK
<1>5. RootInv'
  BY <1>1, <1>3, Zenon DEF SpaceInv, RootInv
<1>6. CpuInv'
  BY <1>1, <1>2, <1>3, Zenon DEF Dispatch, SpaceInv, CpuInv
<1> QED BY <1>2, <1>4, <1>5, <1>6, Zenon DEF SpaceInv

LEMMA ExitToParentStep ==
  ASSUME Setting, SpaceInv, NEW p \in Procs, NEW q \in Procs, ExitToParent(p, q) PROVE SpaceInv'
<1>0. st[p] = "RUNNING" /\ st[q] = "BLOCKED" /\ p # q
  BY Facts, Zenon DEF ExitToParent, SpaceInv, CpuInv
<1>1. st[q] # "UNUSED" /\ Switch(root[q]) /\ UNCHANGED <<frames, tables, root>>
  BY <1>0, Zenon DEF ExitToParent
<1>2. /\ MapInv' /\ NoStaleTlb' /\ tlb' \subseteq Page \X Frame
      /\ cr3' = root[q] /\ active' = root[q] /\ walk' = root[q] /\ root[q] \in Frame
  BY <1>1, Switched, Zenon
<1>3. \A s \in Procs : st'[s] = IF s = q THEN "RUNNING" ELSE IF s = p THEN "ZOMBIE" ELSE st[s]
  BY <1>0, Zenon DEF ExitToParent, SpaceInv, TypeOK
<1>4. \A s \in Procs : st'[s] = "RUNNING" => s = q
  BY <1>0, <1>3, OneRuns, Zenon
<1>5. TypeOK'
  BY <1>1, <1>2, Zenon DEF ExitToParent, SpaceInv, TypeOK
<1>6. RootInv'
  BY <1>0, <1>1, <1>3, Zenon DEF SpaceInv, RootInv
<1>7. launch = "idle" /\ launch' = launch /\ cpu' = q
  BY <1>0, Zenon DEF ExitToParent, SpaceInv, CpuInv
<1>8. CpuInv'
  BY <1>1, <1>2, <1>3, <1>4, <1>7, Zenon DEF CpuInv
<1> QED BY <1>2, <1>5, <1>6, <1>8 DEF SpaceInv

\* The steps of the CPU and of a state alone.
LEMMA StateStep ==
  ASSUME Setting, SpaceInv,
         \/ LoadFails \/ ToMain
         \/ \E p \in Procs : Resume(p) \/ Park(p) \/ Wake(p) \/ Exit(p)
  PROVE  SpaceInv'
<1>1. UNCHANGED <<frames, tables, root, cr3, active, walk, tlb>>
  BY DEF LoadFails, ToMain, Resume, Park, Wake, Exit
<1>2. MapInv' /\ NoStaleTlb'
  BY <1>1, SameMemory, Zenon
<1>3. CASE LoadFails \/ ToMain \/ \E p \in Procs : Resume(p)
  <2>1. st' = st /\ cpu' \in {0} \cup Procs /\ launch' \in {"idle", launch}
    BY <1>3, Zenon DEF LoadFails, ToMain, Resume, SpaceInv, TypeOK
  <2>2. TypeOK' /\ RootInv'
    BY <1>1, <2>1, Zenon DEF SpaceInv, TypeOK, RootInv
  <2>3. CpuInv'
    BY <1>1, <1>3, <2>1, Zenon DEF LoadFails, ToMain, Resume, SpaceInv, CpuInv
  <2> QED BY <1>2, <2>2, <2>3, Zenon DEF SpaceInv
<1>4. ASSUME NEW p \in Procs, Park(p) \/ Exit(p) PROVE SpaceInv'
  <2>1. st[p] = "RUNNING" /\ launch' = launch /\ cpu' = 0 /\ launch = "idle"
    BY <1>4, Facts DEF Park, Exit, SpaceInv, CpuInv
  <2>2. \A q \in Procs : st'[q] = IF q = p THEN st'[p] ELSE st[q]
    BY <1>4, Zenon DEF Park, Exit, SpaceInv, TypeOK
  <2>3. st'[p] \in {"BLOCKED", "ZOMBIE"}
    BY <1>4 DEF Park, Exit, SpaceInv, TypeOK
  <2>4. TypeOK'
    BY <1>1, <1>4, <2>1 DEF Park, Exit, SpaceInv, TypeOK
  <2>5. RootInv'
    BY <1>1, <2>1, <2>2, <2>3, Zenon DEF SpaceInv, RootInv
  <2>6. CpuInv'
    BY <1>1, <2>1, <2>2, <2>3, Zenon DEF SpaceInv, CpuInv
  <2> QED BY <1>2, <2>4, <2>5, <2>6, Zenon DEF SpaceInv
<1>5. ASSUME NEW p \in Procs, Wake(p) PROVE SpaceInv'
  <2>1. st[p] = "BLOCKED" /\ launch' = launch /\ cpu' = cpu
    BY <1>5, Zenon DEF Wake
  <2>2. \A q \in Procs : st'[q] = IF q = p THEN "READY" ELSE st[q]
    BY <1>5, Zenon DEF Wake, SpaceInv, TypeOK
  <2>3. TypeOK'
    BY <1>1, <1>5, Zenon DEF Wake, SpaceInv, TypeOK
  <2>4. RootInv'
    BY <1>1, <2>1, <2>2, Zenon DEF SpaceInv, RootInv
  <2>5. cpu # 0 => cpu \in Procs /\ cpu # p
    BY <2>1, Zenon DEF SpaceInv, TypeOK, CpuInv
  <2>6. CpuInv'
    BY <1>1, <2>1, <2>2, <2>5 DEF SpaceInv, CpuInv
  <2> QED BY <1>2, <2>3, <2>4, <2>6, Zenon DEF SpaceInv
<1> QED BY <1>3, <1>4, <1>5, Zenon

\* shell_launch_program(): process_reap_zombies().
LEMMA ReapStep == ASSUME Setting, SpaceInv, Reap PROVE SpaceInv'
<1> DEFINE D == {q \in Procs : st[q] = "ZOMBIE"}
<1>1. /\ cpu = 0 /\ cpu' = 0 /\ launch' = "reaped" /\ NoneActive /\ UNCHANGED <<cr3, active>>
      /\ Destroyed({root[p] : p \in D}) /\ root' = [p \in Procs |-> 0] /\ st' = [p \in Procs |-> "UNUSED"]
  BY Zenon DEF Reap
<1>2. root' = [p \in Procs |-> IF p \in D THEN 0 ELSE root[p]] /\ \A p \in D : root[p] # 0
  <2>1. \A p \in Procs : p \notin D => root[p] = 0
    BY <1>1, Zenon DEF NoneActive, SpaceInv, RootInv
  <2>2. \A p \in D : root[p] # 0
    BY Zenon DEF SpaceInv, RootInv
  <2> QED BY <2>1, <2>2, <1>1, Zenon
<1>3. D \in SUBSET Procs
  OBVIOUS
<1> HIDE DEF D
<1>4. /\ MapInv' /\ NoStaleTlb' /\ frames' \subseteq Frame
      /\ tables' \in [Frame -> [Page -> Frame \cup {0}]]
      /\ root' \in [Procs -> Frame \cup {0}]
      /\ walk' \in Frame \cup {0} /\ tlb' \subseteq Page \X Frame
  <2>1. TypeOK /\ MapInv /\ NoStaleTlb /\ cr3' = cr3
    BY <1>1 DEF SpaceInv
  <2> QED BY <1>1, <1>2, <1>3, <2>1, Dropped, ZenonT(30)
<1>5. TypeOK'
  BY <1>1, <1>4 DEF SpaceInv, TypeOK
<1>6. RootInv' /\ CpuInv'
  BY <1>1, Zenon DEF SpaceInv, RootInv, CpuInv
<1> QED BY <1>4, <1>5, <1>6, Zenon DEF SpaceInv

\* sc_wait4() and process_reap().
LEMMA WaitReapStep ==
  ASSUME Setting, SpaceInv, NEW p \in Procs, NEW c \in Procs, WaitReap(p, c) PROVE SpaceInv'
<1> DEFINE D == {c}
<1>1. /\ cpu = p /\ st[c] = "ZOMBIE" /\ UNCHANGED <<cpu, launch, cr3, active>>
      /\ Destroyed({root[q] : q \in D})
      /\ root' = [root EXCEPT ![c] = 0] /\ st' = [st EXCEPT ![c] = "UNUSED"]
  <2>1. {root[q] : q \in D} = {root[c]}
    BY Zenon
  <2> QED BY <2>1, Zenon DEF WaitReap
<1>2. root[c] # 0
  BY <1>1, Zenon DEF SpaceInv, RootInv
<1>3. /\ root' = [q \in Procs |-> IF q \in D THEN 0 ELSE root[q]]
      /\ \A q \in D : root[q] # 0
      /\ D \in SUBSET Procs
  <2>1. root' = [q \in Procs |-> IF q \in D THEN 0 ELSE root[q]]
    <3>0. root \in [Procs -> Frame \cup {0}]
      BY Facts, Zenon DEF SpaceInv
    <3>1. \A q \in Procs : q \in D <=> q = c
      BY Zenon
    <3>2. root' = [root EXCEPT ![c] = 0]
      BY <1>1, Zenon
    <3>3. [root EXCEPT ![c] = 0] = [q \in Procs |-> IF q = c THEN 0 ELSE root[q]]
      BY <3>0, Zenon
    <3> HIDE DEF D
    <3>4. [q \in Procs |-> IF q = c THEN 0 ELSE root[q]] = [q \in Procs |-> IF q \in D THEN 0 ELSE root[q]]
      BY <3>1, Zenon
    <3> QED BY <3>2, <3>3, <3>4, Zenon
  <2> QED BY <2>1, <1>2, Zenon
<1>4. \A q \in Procs : st[q] = "RUNNING" => walk' = walk
  <2> SUFFICES ASSUME NEW q \in Procs, st[q] = "RUNNING" PROVE walk \notin {root[s] : s \in D}
    BY <1>1, Zenon DEF Destroyed
  <2>1. walk = root[q] /\ root[q] # 0 /\ q # c
    BY <1>1 DEF SpaceInv, CpuInv, RootInv
  <2> QED BY <2>1, <1>2 DEF SpaceInv, MapInv, Apart
<1>5. \A q \in Procs : st'[q] = IF q = c THEN "UNUSED" ELSE st[q]
  BY <1>1, Zenon DEF SpaceInv, TypeOK
<1>6. \A q \in Procs : root'[q] = IF q = c THEN 0 ELSE root[q]
  BY <1>3, Zenon
<1> HIDE DEF D
<1>7. /\ MapInv' /\ NoStaleTlb' /\ frames' \subseteq Frame
      /\ tables' \in [Frame -> [Page -> Frame \cup {0}]]
      /\ root' \in [Procs -> Frame \cup {0}]
      /\ walk' \in Frame \cup {0} /\ tlb' \subseteq Page \X Frame
  <2>1. TypeOK /\ MapInv /\ NoStaleTlb /\ cr3' = cr3
    BY <1>1, Zenon DEF SpaceInv
  <2> QED BY <1>1, <1>3, <2>1, Dropped, ZenonT(30)
<1>8. TypeOK'
  BY <1>1, <1>7 DEF SpaceInv, TypeOK
<1>9. RootInv'
  BY <1>5, <1>6, Zenon DEF SpaceInv, RootInv
<1>10. st[p] = "RUNNING" /\ p # c
  BY <1>1, Facts, Zenon DEF SpaceInv, CpuInv
<1>11. CpuInv'
  BY <1>1, <1>4, <1>5, <1>6, <1>10 DEF SpaceInv, CpuInv
<1> QED BY <1>7, <1>8, <1>9, <1>11, Zenon DEF SpaceInv

\* exec_load_program() and process_fork(): an address space for the free slot p,
\* edited while CR3 has other tables, or one that was freed.
LEMMA BuildStep ==
  ASSUME Setting, SpaceInv, NEW p \in Procs, NEW r \in Free, NEW F \in [Page -> Free \cup {0}],
         NEW V \in SUBSET Page, Built(r, F, V), st[p] = "UNUSED",
         frames' = frames \cup {r} \cup ({F[v] : v \in Page} \ {0}),
         root' = [root EXCEPT ![p] = r], st' = [st EXCEPT ![p] = "READY"],
         tlb' = Kept(r, Page), launch' \in {"idle", "reaped", "loaded"},
         launch' # "idle" => launch # "idle",
         UNCHANGED <<cpu, cr3, active, walk>>
  PROVE  SpaceInv'
<1>1. root[p] = 0 /\ r \in Frame /\ r # 0
  BY Facts, Zenon DEF SpaceInv, RootInv, Free
<1>2. /\ MapInv' /\ frames' \subseteq Frame
      /\ tables' \in [Frame -> [Page -> Frame \cup {0}]]
      /\ root' \in [Procs -> Frame \cup {0}]
  <2>1. TypeOK /\ MapInv
    BY Zenon DEF SpaceInv
  <2> QED BY <1>1, <2>1, Grown, ZenonT(30)
<1>3. \A s \in Frame : s # r => tables'[s] = tables[s]
  BY <1>1, Zenon DEF Built, SpaceInv, TypeOK
<1>4. NoStaleTlb' /\ tlb' \subseteq Page \X Frame
  <2>1. TypeOK /\ NoStaleTlb /\ cr3' = cr3 /\ Page \in SUBSET Page /\ \A v \in Page \ Page : tables'[r][v] = tables[r][v]
    BY Zenon DEF SpaceInv
  <2> QED BY <2>1, <1>1, <1>3, Edited, Zenon
<1>5. /\ \A q \in Procs : st'[q] = IF q = p THEN "READY" ELSE st[q]
      /\ \A q \in Procs : root'[q] = IF q = p THEN r ELSE root[q]
  BY Zenon DEF SpaceInv, TypeOK
<1>6. TypeOK'
  BY <1>2, <1>4, Zenon DEF SpaceInv, TypeOK
<1>7. RootInv'
  BY <1>1, <1>5 DEF SpaceInv, RootInv
<1>8. cpu # 0 => cpu \in Procs /\ cpu # p
  BY Zenon DEF SpaceInv, TypeOK, CpuInv
<1>9. CpuInv'
  BY <1>5, <1>8 DEF SpaceInv, CpuInv
<1> QED BY <1>2, <1>4, <1>6, <1>7, <1>9, Zenon DEF SpaceInv

LEMMA LoadStep ==
  ASSUME Setting, SpaceInv, NEW p \in Procs, NEW r \in Free, NEW F \in [Page -> Free \cup {0}], Load(p, r, F)
  PROVE  SpaceInv'
<1>1. PICK v \in Page : Built(r, F, {v})
  BY ZenonT(30) DEF Load
<1>2. {v} \in SUBSET Page /\ st[p] = "UNUSED"
  BY Zenon DEF Load, FirstSlot
<1>3. launch' \in {"idle", "reaped", "loaded"} /\ (launch' # "idle" => launch # "idle")
  BY Zenon DEF Load
<1>4. /\ frames' = frames \cup {r} \cup ({F[u] : u \in Page} \ {0}) /\ tlb' = Kept(r, Page)
      /\ root' = [root EXCEPT ![p] = r] /\ st' = [st EXCEPT ![p] = "READY"]
      /\ UNCHANGED <<cpu, cr3, active, walk>>
  BY ZenonT(30) DEF Load
<1> QED BY <1>1, <1>2, <1>3, <1>4, BuildStep, ZenonT(30)

LEMMA ForkStep ==
  ASSUME Setting, SpaceInv, NEW p \in Procs, NEW c \in Procs, NEW r \in Free,
         NEW F \in [Page -> Free \cup {0}], Fork(p, c, r, F)
  PROVE  SpaceInv'
<1>1. Mapped(root[p]) \in SUBSET Page /\ st[c] = "UNUSED" /\ Built(r, F, Mapped(root[p]))
  BY Zenon DEF Fork, FirstSlot, Mapped
<1>2. launch' \in {"idle", "reaped", "loaded"} /\ (launch' # "idle" => launch # "idle")
  BY DEF Fork, SpaceInv, TypeOK
<1>3. /\ frames' = frames \cup {r} \cup ({F[u] : u \in Page} \ {0}) /\ tlb' = Kept(r, Page)
      /\ root' = [root EXCEPT ![c] = r] /\ st' = [st EXCEPT ![c] = "READY"]
      /\ UNCHANGED <<cpu, cr3, active, walk>>
  BY ZenonT(30) DEF Fork
<1> QED BY <1>1, <1>2, <1>3, BuildStep, ZenonT(30)

\* exec_replace(): CR3 had the tables that are destroyed, so the switch flushes.
LEMMA ExecStep ==
  ASSUME Setting, SpaceInv, NEW p \in Procs, NEW r \in Free, NEW F \in [Page -> Free \cup {0}], Exec(p, r, F)
  PROVE  SpaceInv'
<1>1. /\ MapInv' /\ frames' \subseteq Frame
      /\ tables' \in [Frame -> [Page -> Frame \cup {0}]]
      /\ root' = [root EXCEPT ![p] = r] /\ r \in Frame /\ r # root[p] /\ root[p] \in Frame
  BY Replaced, Zenon
<1>2. cpu = p /\ st[p] = "RUNNING" /\ UNCHANGED <<st, cpu, launch>> /\ Switch(r) /\ launch = "idle"
  BY Facts, Zenon DEF Exec, SpaceInv, CpuInv
<1>3. active = root[p]
  BY <1>2, Zenon DEF SpaceInv, CpuInv
<1>4. walk' = r /\ active' = r /\ cr3' = r /\ tlb' = {}
  BY <1>1, <1>2, <1>3, Zenon DEF Switch
<1>5. \A q \in Procs : root'[q] = IF q = p THEN r ELSE root[q]
  BY <1>1, Zenon DEF SpaceInv, TypeOK
<1>6. TypeOK' /\ NoStaleTlb'
  BY <1>1, <1>2, <1>4 DEF SpaceInv, TypeOK, NoStaleTlb
<1>7. RootInv'
  BY <1>1, <1>2, <1>5, Facts DEF SpaceInv, RootInv
<1>8. \A q \in Procs : st'[q] = "RUNNING" => q = p
  BY <1>2, OneRuns, Zenon
<1>9. CpuInv'
  BY <1>2, <1>4, <1>5, <1>8, Zenon DEF CpuInv
<1> QED BY <1>1, <1>6, <1>7, <1>9, Zenon DEF SpaceInv

\* mmap(): a free frame in an empty entry of the tables walk points at.
LEMMA MmapStep ==
  ASSUME Setting, SpaceInv, NEW p \in Procs, NEW v \in Page, NEW f \in Free, Mmap(p, v, f)
  PROVE  SpaceInv'
<1> DEFINE w == root[p]
<1>1. st[p] = "RUNNING" /\ walk = w /\ cr3 = w /\ w \in Frame /\ w \in frames /\ w # 0
  <2>1. st[p] = "RUNNING" /\ walk = w /\ cr3 = w
    BY Facts, Zenon DEF Mmap, SpaceInv, CpuInv
  <2>2. w # 0
    BY <2>1 DEF SpaceInv, RootInv
  <2> QED BY <2>1, <2>2, Facts, Zenon DEF SpaceInv, MapInv, Owned
<1>2. /\ frames \subseteq Frame /\ tables \in [Frame -> [Page -> Frame \cup {0}]]
      /\ root \in [Procs -> Frame \cup {0}] /\ 0 \notin Frame
  BY Facts DEF SpaceInv
<1>3. f \in Frame /\ f \notin frames /\ f # 0
  BY <1>2, Zenon DEF Free
<1>4. /\ frames' = frames \cup {f} /\ tables' = [tables EXCEPT ![w][v] = f] /\ tables[w][v] = 0
      /\ tlb' = Kept(w, {v}) /\ UNCHANGED <<root, st, cpu, launch, cr3, active, walk>>
  BY <1>1, Zenon DEF Mmap
<1>5. /\ \A s \in Frame : s # w => tables'[s] = tables[s]
      /\ \A u \in Page : tables'[w][u] = IF u = v THEN f ELSE tables[w][u]
      /\ tables' \in [Frame -> [Page -> Frame \cup {0}]]
  BY <1>1, <1>2, <1>3, <1>4
<1>6. \A q \in Procs : q # p /\ root[q] # 0 => root[q] \in Frame /\ root[q] # w /\ tables'[root[q]] = tables[root[q]]
  BY <1>1, <1>2, <1>5 DEF SpaceInv, MapInv, Apart
<1>7. \A q \in Procs : root[q] # 0 =>
        /\ root[q] \in frames /\ root[q] # f
        /\ \A u \in Page : tables[root[q]][u] # 0 => tables[root[q]][u] \in frames /\ tables[root[q]][u] # f
  BY <1>3 DEF SpaceInv, MapInv, Owned
<1> HIDE DEF w
<1>w. root[p] = w
  BY Zenon DEF w
<1>8. Owned'
  <2> SUFFICES ASSUME NEW q \in Procs, root[q] # 0
               PROVE  /\ root[q] \in frames'
                      /\ \A u \in Page : tables'[root[q]][u] # 0 => tables'[root[q]][u] \in frames' \ {root[q]}
                      /\ \A u, x \in Page : tables'[root[q]][u] = tables'[root[q]][x] /\ tables'[root[q]][u] # 0 => u = x
    BY <1>4 DEF Owned
  <2>0. /\ \A u \in Page : tables[root[q]][u] # 0 => tables[root[q]][u] \in frames \ {root[q]}
        /\ \A u, x \in Page : tables[root[q]][u] = tables[root[q]][x] /\ tables[root[q]][u] # 0 => u = x
    BY Zenon DEF SpaceInv, MapInv, Owned
  <2>1. CASE q = p
    <3>1. root[q] = w /\ \A u \in Page : tables'[root[q]][u] = IF u = v THEN f ELSE tables[root[q]][u]
      BY <2>1, <1>w, <1>5, Zenon
    <3>2. root[q] \in frames' /\ f \in frames' \ {root[q]} /\ f # 0 /\ frames \subseteq frames'
      BY <1>3, <1>4, <1>7, Zenon
    <3>3. \A u \in Page : tables'[root[q]][u] # 0 => tables'[root[q]][u] \in frames' \ {root[q]}
      BY <2>0, <3>1, <3>2
    <3>4. \A u \in Page : tables[root[q]][u] # f
      BY <1>3, <1>7, Zenon
    <3>5. \A u, x \in Page : tables'[root[q]][u] = tables'[root[q]][x] /\ tables'[root[q]][u] # 0 => u = x
      BY <2>0, <3>1, <3>4
    <3> QED BY <3>2, <3>3, <3>5, Zenon
  <2>2. CASE q # p
    <3>1. tables'[root[q]] = tables[root[q]] /\ root[q] \in frames
      BY <2>2, <1>6, <1>7, Zenon
    <3>2. frames \subseteq frames'
      BY <1>4, Zenon
    <3> QED BY <2>0, <3>1, <3>2
  <2> QED BY <2>1, <2>2, Zenon
<1>9. Apart'
  <2> SUFFICES ASSUME NEW a \in Procs, NEW b \in Procs, a # b, root[a] # 0, root[b] # 0
               PROVE  /\ root[a] # root[b]
                      /\ \A u \in Page : tables'[root[b]][u] # root[a]
                      /\ \A u, x \in Page : tables'[root[a]][u] # 0 => tables'[root[a]][u] # tables'[root[b]][x]
    BY <1>4 DEF Apart
  <2>0. /\ root[a] # root[b]
        /\ \A u \in Page : tables[root[b]][u] # root[a]
        /\ \A u, x \in Page : tables[root[a]][u] # 0 => tables[root[a]][u] # tables[root[b]][x]
    BY DEF SpaceInv, MapInv, Apart
  <2>1. CASE a = p
    <3>1. \A u \in Page : tables'[root[a]][u] = IF u = v THEN f ELSE tables[root[a]][u]
      BY <2>1, <1>w, <1>5, Zenon
    <3>2. tables'[root[b]] = tables[root[b]]
      BY <2>1, <1>6, Zenon
    <3>3. \A u \in Page : tables[root[b]][u] # f
      BY <1>3, <1>7, Zenon
    <3> QED BY <2>0, <3>1, <3>2, <3>3
  <2>2. CASE b = p
    <3>1. \A u \in Page : tables'[root[b]][u] = IF u = v THEN f ELSE tables[root[b]][u]
      BY <2>2, <1>w, <1>5, Zenon
    <3>2. tables'[root[a]] = tables[root[a]]
      BY <2>2, <1>6, Zenon
    <3>3. root[a] # f /\ \A u \in Page : tables[root[a]][u] # f
      BY <1>3, <1>7, Zenon
    <3> QED BY <2>0, <3>1, <3>2, <3>3
  <2>3. CASE a # p /\ b # p
    <3>1. tables'[root[a]] = tables[root[a]] /\ tables'[root[b]] = tables[root[b]]
      BY <2>3, <1>6, Zenon
    <3> QED BY <2>0, <3>1, Zenon
  <2> QED BY <2>1, <2>2, <2>3, Zenon
<1>10. NoStray'
  <2> SUFFICES ASSUME NEW s \in Frame, \A q \in Procs : root[q] # s PROVE tables'[s] = NoPages
    BY <1>4, Zenon DEF NoStray, NoPages
  <2>1. s # w
    BY <1>w, Zenon
  <2> QED BY <2>1, <1>5, Zenon DEF SpaceInv, MapInv, NoStray
<1>11. NoStaleTlb' /\ tlb' \subseteq Page \X Frame
  <2>1. TypeOK /\ NoStaleTlb /\ cr3' = cr3 /\ {v} \in SUBSET Page /\ w \in Frame /\ tlb' = Kept(w, {v})
    BY <1>1, <1>4, Zenon DEF SpaceInv
  <2>2. \A u \in Page \ {v} : tables'[w][u] = tables[w][u]
    BY <1>5, Zenon
  <2> QED BY <2>1, <2>2, <1>5, Edited, ZenonT(30)
<1>12. TypeOK'
  <2>1. frames' = frames \cup {f} /\ UNCHANGED <<root, st, cpu, launch, cr3, active, walk>>
    BY <1>4, Zenon
  <2>2. frames' \subseteq Frame
    BY <1>2, <1>3, <2>1, Zenon
  <2> QED BY <2>1, <2>2, <1>5, <1>11, Zenon DEF SpaceInv, TypeOK
<1>13. RootInv' /\ CpuInv'
  BY <1>4, Zenon DEF SpaceInv, RootInv, CpuInv
<1> QED BY <1>8, <1>9, <1>10, <1>11, <1>12, <1>13, Zenon DEF SpaceInv, MapInv

\* munmap(): the frame goes back, and no other entry has it.
LEMMA MunmapStep ==
  ASSUME Setting, SpaceInv, NEW p \in Procs, NEW v \in Page, Munmap(p, v)
  PROVE  SpaceInv'
<1> DEFINE w == root[p]
           f == tables[w][v]
<1>1. st[p] = "RUNNING" /\ walk = w /\ cr3 = w /\ w \in Frame /\ w \in frames /\ w # 0
  <2>1. st[p] = "RUNNING" /\ walk = w /\ cr3 = w
    BY Facts, Zenon DEF Munmap, SpaceInv, CpuInv
  <2>2. w # 0
    BY <2>1, Zenon DEF SpaceInv, RootInv
  <2> QED BY <2>1, <2>2, Facts, Zenon DEF SpaceInv, MapInv, Owned
<1>2. /\ frames \subseteq Frame /\ tables \in [Frame -> [Page -> Frame \cup {0}]]
      /\ root \in [Procs -> Frame \cup {0}] /\ 0 \notin Frame
  BY Facts, Zenon DEF SpaceInv
<1>4. /\ frames' = frames \ {f} /\ tables' = [tables EXCEPT ![w][v] = 0] /\ f # 0
      /\ tlb' = Kept(w, {v}) /\ UNCHANGED <<root, st, cpu, launch, cr3, active, walk>>
  BY <1>1, Zenon DEF Munmap
<1>5. /\ \A s \in Frame : s # w => tables'[s] = tables[s]
      /\ \A u \in Page : tables'[w][u] = IF u = v THEN 0 ELSE tables[w][u]
      /\ tables' \in [Frame -> [Page -> Frame \cup {0}]]
  BY <1>1, <1>2, <1>4, Zenon
<1>6. \A q \in Procs : q # p /\ root[q] # 0 =>
        /\ root[q] \in Frame /\ root[q] # w /\ tables'[root[q]] = tables[root[q]]
        /\ root[q] # f /\ \A u \in Page : tables[root[q]][u] # f
  BY <1>1, <1>2, <1>4, <1>5 DEF SpaceInv, MapInv, Apart
<1>7. w # f /\ \A u \in Page : u # v => tables[w][u] # f
  BY <1>1, <1>4 DEF SpaceInv, MapInv, Owned
<1> HIDE DEF w, f
<1>w. root[p] = w
  BY Zenon DEF w
<1>8. Owned'
  <2> SUFFICES ASSUME NEW q \in Procs, root[q] # 0
               PROVE  /\ root[q] \in frames'
                      /\ \A u \in Page : tables'[root[q]][u] # 0 => tables'[root[q]][u] \in frames' \ {root[q]}
                      /\ \A u, x \in Page : tables'[root[q]][u] = tables'[root[q]][x] /\ tables'[root[q]][u] # 0 => u = x
    BY <1>4 DEF Owned
  <2>0. /\ root[q] \in frames
        /\ \A u \in Page : tables[root[q]][u] # 0 => tables[root[q]][u] \in frames \ {root[q]}
        /\ \A u, x \in Page : tables[root[q]][u] = tables[root[q]][x] /\ tables[root[q]][u] # 0 => u = x
    BY Zenon DEF SpaceInv, MapInv, Owned
  <2>1. CASE q = p
    <3>1. root[q] = w /\ \A u \in Page : tables'[root[q]][u] = IF u = v THEN 0 ELSE tables[root[q]][u]
      BY <2>1, <1>w, <1>5, Zenon
    <3>2. root[q] \in frames' /\ \A u \in Page : u # v => tables[root[q]][u] # f
      BY <2>0, <3>1, <1>4, <1>7, Zenon
    <3>3. \A u \in Page : tables'[root[q]][u] # 0 => tables'[root[q]][u] \in frames' \ {root[q]}
      BY <2>0, <3>1, <3>2, <1>4
    <3>4. \A u, x \in Page : tables'[root[q]][u] = tables'[root[q]][x] /\ tables'[root[q]][u] # 0 => u = x
      BY <2>0, <3>1
    <3> QED BY <3>2, <3>3, <3>4, Zenon
  <2>2. CASE q # p
    <3>1. /\ tables'[root[q]] = tables[root[q]] /\ root[q] # f
          /\ \A u \in Page : tables[root[q]][u] # f
      BY <2>2, <1>6, Zenon
    <3> QED BY <2>0, <3>1, <1>4
  <2> QED BY <2>1, <2>2, Zenon
<1>9. Apart'
  <2> SUFFICES ASSUME NEW a \in Procs, NEW b \in Procs, a # b, root[a] # 0, root[b] # 0
               PROVE  /\ root[a] # root[b]
                      /\ \A u \in Page : tables'[root[b]][u] # root[a]
                      /\ \A u, x \in Page : tables'[root[a]][u] # 0 => tables'[root[a]][u] # tables'[root[b]][x]
    BY <1>4 DEF Apart
  <2>0. /\ root[a] # root[b]
        /\ \A u \in Page : tables[root[b]][u] # root[a]
        /\ \A u, x \in Page : tables[root[a]][u] # 0 => tables[root[a]][u] # tables[root[b]][x]
    BY DEF SpaceInv, MapInv, Apart
  <2>1. CASE a = p
    <3>1. \A u \in Page : tables'[root[a]][u] = IF u = v THEN 0 ELSE tables[root[a]][u]
      BY <2>1, <1>w, <1>5, Zenon
    <3>2. tables'[root[b]] = tables[root[b]]
      BY <2>1, <1>6, Zenon
    <3> QED BY <2>0, <3>1, <3>2
  <2>2. CASE b = p
    <3>1. \A u \in Page : tables'[root[b]][u] = IF u = v THEN 0 ELSE tables[root[b]][u]
      BY <2>2, <1>w, <1>5, Zenon
    <3>2. tables'[root[a]] = tables[root[a]]
      BY <2>2, <1>6, Zenon
    <3> QED BY <2>0, <3>1, <3>2
  <2>3. CASE a # p /\ b # p
    <3>1. tables'[root[a]] = tables[root[a]] /\ tables'[root[b]] = tables[root[b]]
      BY <2>3, <1>6, Zenon
    <3> QED BY <2>0, <3>1, Zenon
  <2> QED BY <2>1, <2>2, <2>3, Zenon
<1>10. NoStray'
  <2> SUFFICES ASSUME NEW s \in Frame, \A q \in Procs : root[q] # s PROVE tables'[s] = NoPages
    BY <1>4, Zenon DEF NoStray, NoPages
  <2>1. s # w
    BY <1>w, Zenon
  <2> QED BY <2>1, <1>5 DEF SpaceInv, MapInv, NoStray
<1>11. NoStaleTlb' /\ tlb' \subseteq Page \X Frame
  <2>1. TypeOK /\ NoStaleTlb /\ cr3' = cr3 /\ {v} \in SUBSET Page /\ w \in Frame /\ tlb' = Kept(w, {v})
    BY <1>1, <1>4, Zenon DEF SpaceInv
  <2>2. \A u \in Page \ {v} : tables'[w][u] = tables[w][u]
    BY <1>5, Zenon
  <2> QED BY <2>1, <2>2, <1>5, Edited, ZenonT(30)
<1>12. TypeOK'
  <2>1. frames' = frames \ {f} /\ UNCHANGED <<root, st, cpu, launch, cr3, active, walk>>
    BY <1>4, Zenon
  <2>2. frames' \subseteq Frame
    BY <1>2, <2>1, Zenon
  <2> QED BY <2>1, <2>2, <1>5, <1>11, Zenon DEF SpaceInv, TypeOK
<1>13. RootInv' /\ CpuInv'
  BY <1>4, Zenon DEF SpaceInv, RootInv, CpuInv
<1> QED BY <1>8, <1>9, <1>10, <1>11, <1>12, <1>13, Zenon DEF SpaceInv, MapInv

\* The processor loads a translation.
LEMMA FillStep == ASSUME Setting, SpaceInv, NEW v \in Page, Fill(v) PROVE SpaceInv'
<1>1. /\ cr3 # BootRoot /\ tables[cr3][v] # 0 /\ tlb' = tlb \cup {<<v, tables[cr3][v]>>}
      /\ UNCHANGED <<frames, tables, root, st, cpu, launch, cr3, active, walk>>
  BY Zenon DEF Fill
<1>2. tables[cr3][v] \in Frame
  BY <1>1 DEF SpaceInv, TypeOK, BootRoot
<1>3. TypeOK' /\ NoStaleTlb'
  BY <1>1, <1>2 DEF SpaceInv, TypeOK, NoStaleTlb, BootRoot
<1>4. RootInv' /\ CpuInv'
  BY <1>1 DEF SpaceInv, RootInv, CpuInv
<1>5. frames' = frames /\ tables' = tables /\ root' = root
  BY <1>1, Zenon
<1>6. Owned' /\ Apart'
  <2>1. Owned /\ Apart
    BY Zenon DEF SpaceInv, MapInv
  <2>2. Owned'
    BY <1>5, <2>1 DEF Owned
  <2>3. Apart'
    BY <1>5, <2>1 DEF Apart
  <2> QED BY <2>2, <2>3, Zenon
<1>7. NoStray'
  BY <1>5, Zenon DEF SpaceInv, MapInv, NoStray, NoPages
<1> QED BY <1>3, <1>4, <1>6, <1>7, Zenon DEF SpaceInv, MapInv

\* Every step of the kernel and of the processor keeps the invariant.
LEMMA SpaceStep == ASSUME Setting, SpaceInv, [Next]_vars PROVE SpaceInv'
<1>1. CASE Reap
  BY <1>1, ReapStep, Zenon
<1>2. CASE LoadFails \/ ToMain
  BY <1>2, StateStep, Zenon
<1>3. CASE \E v \in Page : Fill(v)
  BY <1>3, FillStep, Zenon
<1>4. ASSUME NEW p \in Procs,
             \/ Run(p) \/ Dispatch(p) \/ Resume(p) \/ Park(p) \/ Wake(p) \/ Exit(p)
             \/ \E q \in Procs : ExitToParent(p, q) \/ WaitReap(p, q)
             \/ \E r \in Free, F \in [Page -> Free \cup {0}] :
                  Load(p, r, F) \/ Exec(p, r, F) \/ \E c \in Procs : Fork(p, c, r, F)
             \/ \E v \in Page : Munmap(p, v) \/ \E f \in Free : Mmap(p, v, f)
      PROVE  SpaceInv'
  <2>1. CASE Resume(p) \/ Park(p) \/ Wake(p) \/ Exit(p)
    BY <2>1, StateStep, Zenon
  <2>2. CASE Run(p) \/ Dispatch(p)
    BY <2>2, RunStep, DispatchStep, Zenon
  <2>3. CASE \E q \in Procs : ExitToParent(p, q) \/ WaitReap(p, q)
    BY <2>3, ExitToParentStep, WaitReapStep, Zenon
  <2>4. CASE \E r \in Free, F \in [Page -> Free \cup {0}] :
               Load(p, r, F) \/ Exec(p, r, F) \/ \E c \in Procs : Fork(p, c, r, F)
    BY <2>4, LoadStep, ExecStep, ForkStep, ZenonT(30)
  <2>5. CASE \E v \in Page : Munmap(p, v) \/ \E f \in Free : Mmap(p, v, f)
    BY <2>5, MunmapStep, MmapStep, Zenon
  <2> QED BY <1>4, <2>1, <2>2, <2>3, <2>4, <2>5, Zenon
<1>5. CASE UNCHANGED vars
  <2>1. UNCHANGED <<frames, tables, root, st, cpu, launch, cr3, active, walk, tlb>>
    BY <1>5, Zenon DEF vars
  <2>2. TypeOK /\ RootInv /\ CpuInv /\ Owned /\ Apart /\ NoStray /\ NoStaleTlb
    BY Zenon DEF SpaceInv, MapInv
  <2>3. TypeOK' /\ RootInv' /\ CpuInv' /\ NoStaleTlb'
    BY <2>1, <2>2, Zenon DEF TypeOK, RootInv, CpuInv, NoStaleTlb
  <2>4. Owned' /\ NoStray'
    BY <2>1, <2>2 DEF Owned, NoStray, NoPages
  <2>5. Apart'
    BY <2>1, <2>2 DEF Apart
  <2> QED BY <2>3, <2>4, <2>5, Zenon DEF SpaceInv, MapInv
<1> QED BY <1>1, <1>2, <1>3, <1>4, <1>5, ZenonT(30) DEF Next

LEMMA SpaceStart == ASSUME Setting, Init PROVE SpaceInv
<1>1. TypeOK /\ RootInv /\ CpuInv /\ NoStaleTlb
  BY Zenon DEF Init, TypeOK, RootInv, CpuInv, NoStaleTlb, BootRoot, NoPages
<1>2. MapInv
  BY Zenon DEF Init, MapInv, Owned, Apart, NoStray, NoPages
<1> QED BY <1>1, <1>2, Zenon DEF SpaceInv

LEMMA Always == Setting => (Spec => []SpaceInv)
<1> SUFFICES ASSUME Setting PROVE Spec => []SpaceInv
  BY Zenon
<1>1. Init => SpaceInv
  BY SpaceStart, Zenon
<1>2. SpaceInv /\ [Next]_vars => SpaceInv'
  BY SpaceStep, Zenon
<1> QED BY <1>1, <1>2, PTL DEF Spec

\* Every value stays of its type: no path of process_fork(), exec_replace() or
\* process_reap() leaves a page table entry or CR3 with something else.
THEOREM TablesTyped == Setting => (Spec => []TypeOK)
<1> SUFFICES ASSUME Setting PROVE Spec => []TypeOK
  BY Zenon
<1>1. SpaceInv => TypeOK
  BY Zenon DEF SpaceInv
<1> QED BY <1>1, Always, PTL

\* A process runs on its own page tables: vmm_switch_cr3() skips the load of CR3 only
\* when CR3 has them, and no path into a process leaves the switch out wrongly.
THEOREM RunsOnOwnTables == Setting => (Spec => []OwnTables)
<1> SUFFICES ASSUME Setting PROVE Spec => []OwnTables
  BY Zenon
<1>1. SpaceInv => OwnTables
  BY Zenon DEF SpaceInv, CpuInv, TypeOK, OwnTables
<1> QED BY <1>1, Always, PTL

\* The system calls of a process walk its own tables, whatever fork, exec and the
\* teardown of another address space did with the walk pointer.
THEOREM WalksOwnTables == Setting => (Spec => []OwnWalk)
<1> SUFFICES ASSUME Setting PROVE Spec => []OwnWalk
  BY Zenon
<1>1. SpaceInv => OwnWalk
  BY Zenon DEF SpaceInv, CpuInv, TypeOK, OwnWalk
<1> QED BY <1>1, Always, PTL

\* The TLB holds only translations of the tables in CR3, although the kernel flushes
\* nothing when it edits other tables.
THEOREM TlbCurrent == Setting => (Spec => []NoStaleTlb)
<1> SUFFICES ASSUME Setting PROVE Spec => []NoStaleTlb
  BY Zenon
<1>1. SpaceInv => NoStaleTlb
  BY Zenon DEF SpaceInv
<1> QED BY <1>1, Always, PTL

\* A freed frame is reached through the TLB by nobody.
THEOREM TlbHoldsNoFreed == Setting => (Spec => []NoFreedInTlb)
<1> SUFFICES ASSUME Setting PROVE Spec => []NoFreedInTlb
  BY Zenon
<1>1. ASSUME SpaceInv PROVE NoFreedInTlb
  <2> SUFFICES ASSUME NEW x \in tlb PROVE x[2] \in frames
    BY Zenon DEF NoFreedInTlb
  <2>1. x[1] \in Page /\ x[2] \in Frame /\ cr3 \in Frame /\ tables[cr3][x[1]] = x[2] /\ x[2] # 0
    BY <1>1 DEF SpaceInv, TypeOK, NoStaleTlb, BootRoot, Setting
  <2>2. tables[cr3] # NoPages
    BY <2>1, Zenon DEF NoPages
  <2>3. PICK p \in Procs : root[p] = cr3
    BY <1>1, <2>1, <2>2, Zenon DEF SpaceInv, MapInv, NoStray
  <2> QED BY <1>1, <2>1, <2>3 DEF SpaceInv, MapInv, Owned, Setting
<1> QED BY <1>1, Always, PTL

\* Two processes share no frame and every frame a process reaches is in use: fork,
\* exec, mmap, munmap and the teardown hand frames out and back exactly once.
THEOREM FramesApart == Setting => (Spec => [](Owned /\ Apart))
<1> SUFFICES ASSUME Setting PROVE Spec => [](Owned /\ Apart)
  BY Zenon
<1>1. SpaceInv => Owned /\ Apart
  BY Zenon DEF SpaceInv, MapInv
<1> QED BY <1>1, Always, PTL

-----------------------------------------------------------------------------
(* The page allocator.                                                      *)

\* The inductive invariant: HeldOnce needs that what is handed out was free, and
\* what is free is what is not marked; the counter follows the marks.
IInv == PmmTypeOK /\ HeldOnce /\ CountExact

\* Page 0 is never free, so that the result 0 means failure; a failure stays
\* explained because the failing call leaves the bitmap alone.
FInv == IInv /\ 0 \in used /\ FailsOnlyWhenFull

\* The pages are finitely many, and so is every set of them.
LEMMA PagesFinite == IsFiniteSet(Pages) /\ \A S \in SUBSET Pages : IsFiniteSet(S) /\ Cardinality(S) \in Nat
<1>1. IsFiniteSet(Pages)
  BY FS_Interval, PmmOpsAssumption DEF Pages, PmmOpsAssumption
<1>2. \A S \in SUBSET Pages : IsFiniteSet(S) /\ Cardinality(S) \in Nat
  BY <1>1, FS_Subset, FS_CardinalityType, Zenon
<1> QED BY <1>1, <1>2, Zenon

\* Setting bits moves the counter by as many as were clear: bitmap_set().
LEMMA SetCounts ==
  ASSUME NEW U \in SUBSET Pages, NEW S \in SUBSET Pages
  PROVE CountSet(U, Cardinality(U), S) = Cardinality(U \cup S)
<1>1. IsFiniteSet(U) /\ IsFiniteSet(S \ U) /\ U \cap (S \ U) = {}
  <2>1. (S \ U) \in SUBSET Pages
    BY Zenon
  <2> QED BY <2>1, PagesFinite, Zenon
<1>2. Cardinality(U \cup (S \ U)) = Cardinality(U) + Cardinality(S \ U) - Cardinality(U \cap (S \ U))
  BY <1>1, FS_Union, Zenon
<1>3. U \cup (S \ U) = U \cup S
  BY Zenon
<1>4. Cardinality(U \cap (S \ U)) = 0
  BY <1>1, FS_EmptySet, Zenon
<1>5. Cardinality(U) \in Nat /\ Cardinality(S \ U) \in Nat
  BY <1>1, FS_CardinalityType, Zenon
<1>6. ASSUME NEW a \in Nat, NEW b \in Nat, NEW c, c = a + b - 0 PROVE c = a + b
  BY <1>6
<1>7. Cardinality(U \cup S) = Cardinality(U) + Cardinality(S \ U) - 0
  BY <1>2, <1>3, <1>4, Zenon
<1>8. Cardinality(U \cup S) = Cardinality(U) + Cardinality(S \ U)
  BY <1>5, <1>6, <1>7, Zenon
<1> QED BY <1>8, Zenon DEF CountSet

\* Clearing bits moves it back by as many as were set: bitmap_clear().
LEMMA ClearCounts ==
  ASSUME NEW U \in SUBSET Pages, NEW S \in SUBSET Pages
  PROVE CountClear(U, Cardinality(U), S) = Cardinality(U \ S)
<1>1. IsFiniteSet(U)
  BY PagesFinite, Zenon
<1>2. Cardinality(U \ S) = Cardinality(U) - Cardinality(U \cap S)
  BY <1>1, FS_Difference, Zenon
<1>3. U \cap S = S \cap U
  BY Zenon
<1> QED BY <1>2, <1>3, Zenon DEF CountClear

\* A page that the search for one page finds is free.
LEMMA NextFitFree ==
  ASSUME NEW U \in SUBSET Pages, NEW h \in 0..NPage, NEW p \in Pages, IsNextFit(U, h, p)
  PROVE RunAt(p, 1) = {p} /\ RunAt(p, 1) \cap U = {} /\ p + 1 \in 0..NPage
<1>1. p \in Nat /\ p < NPage
  BY PmmOpsAssumption DEF Pages, PmmOpsAssumption
<1>2. RunAt(p, 1) = {p}
  BY <1>1 DEF RunAt
<1> QED BY <1>1, <1>2, PmmOpsAssumption DEF IsNextFit, PmmOpsAssumption

\* A run that the search for several pages finds is free and inside memory.
LEMMA RunFitFree ==
  ASSUME NEW U \in SUBSET Pages, NEW h \in 0..NPage, NEW n \in Nat \ {0}, NEW at \in Pages,
         IsRunFit(U, h, n, at)
  PROVE RunAt(at, n) \cap U = {} /\ at + n \in 0..NPage /\ RunAt(at, n) \subseteq Pages
<1>1. RunAt(at, n) \cap U = {} /\ at + n <= NPage
  BY Zenon DEF IsRunFit, FreeRun
<1>2. at \in Nat /\ NPage \in Nat
  BY PmmOpsAssumption DEF Pages, PmmOpsAssumption
<1>3. RunAt(at, n) \subseteq Pages
  BY <1>1, <1>2 DEF RunAt, Pages
<1> QED BY <1>1, <1>2, <1>3

\* Taking a free run inside memory keeps the invariant.
LEMMA TakeStep ==
  ASSUME IInv, NEW n \in Nat \ {0}, NEW at \in Pages, Take(at, n),
         RunAt(at, n) \cap used = {}, at + n \in 0..NPage, RunAt(at, n) \subseteq Pages
  PROVE IInv'
<1> DEFINE r == [at |-> at, n |-> n]
<1>1. PmmTypeOK'
  <2>1. used' \subseteq Pages
    BY Zenon DEF IInv, PmmTypeOK, Take
  <2>2. cnt' = Cardinality(used')
    BY SetCounts, Zenon DEF IInv, PmmTypeOK, CountExact, Take
  <2>3. cnt' \in Nat
    BY <2>1, <2>2, PagesFinite, Zenon
  <2>4. r \in [at : Pages, n : Nat \ {0}] /\ ret' \in [n : Nat, at : Pages]
    BY Zenon DEF Take
  <2>5. hint' \in 0..NPage
    BY Zenon DEF Take
  <2> QED BY <2>1, <2>3, <2>4, <2>5, Zenon DEF IInv, PmmTypeOK, Take
<1>2. HeldOnce'
  <2>1. held' = held \cup {r} /\ used' = used \cup RunAt(at, n)
    BY Zenon DEF Take
  <2>2. \A q \in held : RunAt(q.at, q.n) \subseteq used /\ RunAt(q.at, q.n) \cap RunAt(r.at, r.n) = {}
    BY Zenon DEF IInv, HeldOnce
  <2>3. r.at = at /\ r.n = n
    BY Zenon
  <2>4. ASSUME NEW x \in held'
        PROVE /\ RunAt(x.at, x.n) \subseteq used'
              /\ \A q \in held' : q # x => RunAt(x.at, x.n) \cap RunAt(q.at, q.n) = {}
    <3>1. CASE x = r
      <4>1. RunAt(x.at, x.n) \subseteq used'
        BY <3>1, <2>1, <2>3, Zenon
      <4>2. ASSUME NEW q \in held', q # x PROVE RunAt(x.at, x.n) \cap RunAt(q.at, q.n) = {}
        <5>1. q \in held
          BY <2>1, <3>1, <4>2, Zenon
        <5> QED BY <5>1, <2>2, <3>1, Zenon
      <4> QED BY <4>1, <4>2, Zenon
    <3>2. CASE x \in held
      <4>1. RunAt(x.at, x.n) \subseteq used'
        BY <3>2, <2>1, <2>2, Zenon
      <4>2. ASSUME NEW q \in held', q # x PROVE RunAt(x.at, x.n) \cap RunAt(q.at, q.n) = {}
        <5>1. CASE q \in held
          BY <5>1, <3>2, <4>2, Zenon DEF IInv, HeldOnce
        <5>2. CASE q = r
          BY <5>2, <3>2, <2>2, Zenon
        <5> QED BY <5>1, <5>2, <2>1, Zenon
      <4> QED BY <4>1, <4>2, Zenon
    <3> QED BY <3>1, <3>2, <2>1, Zenon
  <2> QED BY <2>4, Zenon DEF HeldOnce
<1>3. CountExact'
  BY SetCounts, Zenon DEF IInv, PmmTypeOK, CountExact, Take
<1> QED BY <1>1, <1>2, <1>3, Zenon DEF IInv

\* Freeing a run that is held keeps the invariant: no other run shares a page.
LEMMA FreeStep ==
  ASSUME IInv, NEW r \in held, FreePages(r)
  PROVE IInv'
<1>1. RunAt(r.at, r.n) \subseteq used /\ used \subseteq Pages
  BY Zenon DEF IInv, HeldOnce, PmmTypeOK
<1>2. CountExact'
  <2>1. RunAt(r.at, r.n) \ {0} \in SUBSET Pages
    BY <1>1, Zenon
  <2> QED BY <2>1, <1>1, ClearCounts, Zenon DEF IInv, CountExact, FreePages
<1>3. PmmTypeOK'
  <2>1. used' \subseteq Pages
    BY <1>1, Zenon DEF FreePages
  <2>2. cnt' \in Nat
    BY <2>1, <1>2, PagesFinite, Zenon DEF CountExact
  <2>3. ret' \in [n : Nat, at : Pages]
    BY PmmOpsAssumption DEF FreePages, NoCall, Pages, PmmOpsAssumption
  <2> QED BY <2>1, <2>2, <2>3, Zenon DEF IInv, PmmTypeOK, FreePages
<1>4. HeldOnce'
  <2>1. \A q \in held' : q \in held /\ q # r
    BY Zenon DEF FreePages
  <2>2. \A q \in held' : RunAt(q.at, q.n) \cap RunAt(r.at, r.n) = {} /\ RunAt(q.at, q.n) \subseteq used
    BY <2>1, Zenon DEF IInv, HeldOnce
  <2>3. \A q \in held' : RunAt(q.at, q.n) \subseteq used'
    BY <2>2, Zenon DEF FreePages
  <2> QED BY <2>1, <2>3, Zenon DEF IInv, HeldOnce
<1> QED BY <1>2, <1>3, <1>4, Zenon DEF IInv

\* A failed call changes nothing but the result.
LEMMA NoMemoryStep ==
  ASSUME IInv, NEW n \in Nat, NoMemory(n)
  PROVE IInv'
<1>1. ret' \in [n : Nat, at : Pages]
  BY PmmOpsAssumption DEF NoMemory, Pages, PmmOpsAssumption
<1> QED BY <1>1, Zenon DEF IInv, PmmTypeOK, HeldOnce, CountExact, NoMemory

\* Every step of the allocator keeps the invariant.
LEMMA Step ==
  ASSUME IInv, [PmmNext]_pmmVars
  PROVE IInv'
<1>1. CASE AllocPage
  <2>1. CASE \E p \in Pages : IsNextFit(used, hint, p)
    <3>1. PICK p \in Pages : IsNextFit(used, hint, p) /\ Take(p, 1)
      BY <1>1, <2>1, Zenon DEF AllocPage
    <3>2. used \in SUBSET Pages /\ hint \in 0..NPage
      BY Zenon DEF IInv, PmmTypeOK
    <3>3. RunAt(p, 1) = {p} /\ RunAt(p, 1) \cap used = {} /\ p + 1 \in 0..NPage
      BY <3>1, <3>2, NextFitFree, Zenon
    <3> QED BY <3>1, <3>3, TakeStep
  <2>2. CASE ~ \E p \in Pages : IsNextFit(used, hint, p)
    BY <1>1, <2>2, NoMemoryStep, Zenon DEF AllocPage
  <2> QED BY <2>1, <2>2, Zenon
<1>2. ASSUME NEW n \in 2..MaxRun, AllocPages(n) PROVE IInv'
  <2>0. n \in Nat \ {0}
    BY PmmAssumption DEF PmmAssumption
  <2>1. CASE \E at \in Pages : IsRunFit(used, hint, n, at)
    <3>1. PICK at \in Pages : IsRunFit(used, hint, n, at) /\ Take(at, n)
      BY <1>2, <2>1, Zenon DEF AllocPages
    <3>2. used \in SUBSET Pages /\ hint \in 0..NPage
      BY Zenon DEF IInv, PmmTypeOK
    <3>3. RunAt(at, n) \cap used = {} /\ at + n \in 0..NPage /\ RunAt(at, n) \subseteq Pages
      BY <3>1, <3>2, <2>0, RunFitFree, Zenon
    <3> QED BY <3>1, <3>3, <2>0, TakeStep, Zenon
  <2>2. CASE ~ \E at \in Pages : IsRunFit(used, hint, n, at)
    BY <1>2, <2>0, <2>2, NoMemoryStep, Zenon DEF AllocPages
  <2> QED BY <2>1, <2>2, Zenon
<1>3. ASSUME NEW r \in held, FreePages(r) PROVE IInv'
  BY <1>3, FreeStep, Zenon
<1>4. CASE UNCHANGED pmmVars
  BY <1>4, Zenon DEF IInv, PmmTypeOK, HeldOnce, CountExact, pmmVars
<1> QED BY <1>1, <1>2, <1>3, <1>4, Zenon DEF PmmNext

\* The invariant holds when pmm_init() and memory_init() are done.
LEMMA Start == PmmInit => IInv
<1> SUFFICES ASSUME PmmInit PROVE IInv
  BY Zenon
<1>1. Boot \in SUBSET Pages
  BY Zenon DEF Boot
<1>2. Cardinality(Boot) \in Nat
  BY <1>1, PagesFinite, Zenon
<1>3. PmmTypeOK
  BY <1>1, <1>2, PmmOpsAssumption DEF PmmInit, PmmTypeOK, NoCall, Pages, PmmOpsAssumption
<1> QED BY <1>3, Zenon DEF PmmInit, IInv, HeldOnce, CountExact

\* The invariant holds in every reachable state.
THEOREM Invariance == PmmSpec => []IInv
<1>1. IInv /\ [PmmNext]_pmmVars => IInv'
  BY Step, Zenon
<1> QED BY Start, <1>1, PTL DEF PmmSpec

\* No page is handed out twice: pmm_alloc_page(), pmm_alloc_pages() and the
\* frees in any order, for any memory.
THEOREM NoPageTwice == PmmSpec => []HeldOnce
<1>1. IInv => HeldOnce
  BY Zenon DEF IInv
<1> QED BY Invariance, <1>1, PTL

\* pmm_used_pages never drifts from the bitmap.
THEOREM CounterExact == PmmSpec => []CountExact
<1>1. IInv => CountExact
  BY Zenon DEF IInv
<1> QED BY Invariance, <1>1, PTL

\* The variables keep their types.
THEOREM TypesHold == PmmSpec => []PmmTypeOK
<1>1. IInv => PmmTypeOK
  BY Zenon DEF IInv
<1> QED BY Invariance, <1>1, PTL

\* A set of natural numbers has a least element.
LEMMA Least ==
  ASSUME NEW S \in SUBSET Nat, S # {}
  PROVE \E x \in S : \A y \in S : x <= y
<1> DEFINE R == {ss \in Nat \X Nat : ss[1] < ss[2]}
<1>1. IsWellFoundedOn(R, Nat)
  BY NatLessThanWellFounded, Zenon DEF OpToRel
<1> HIDE DEF R
<1>2. PICK x \in S : \A y \in S : ~ (<<y, x>> \in R)
  BY <1>1, WFMin, Zenon
<1>3. \A y \in S : ~ (y < x)
  BY <1>2, x \in Nat, Zenon DEF R
<1> QED BY <1>3

\* When the two scans for one page find nothing, no page is free.
LEMMA NextFitComplete ==
  ASSUME NEW U \in SUBSET Pages, NEW h \in 0..NPage, \A p \in Pages : ~ IsNextFit(U, h, p)
  PROVE \A p \in Pages : p \in U
<1> SUFFICES ASSUME NEW f \in Pages, f \notin U PROVE FALSE
  BY Zenon
<1> DEFINE Hi == {q \in h..(NPage - 1) : q \notin U}
           All == {q \in Pages : q \notin U}
<1>1. NPage \in Nat /\ h \in Nat
  BY PmmOpsAssumption DEF PmmOpsAssumption
<1>2. CASE Hi # {}
  <2>1. Hi \in SUBSET Nat
    BY <1>1
  <2>2. PICK p \in Hi : \A y \in Hi : p <= y
    BY <2>1, <1>2, Least, Zenon
  <2>3. p \in Pages /\ p \notin U /\ p >= h
    BY <1>1 DEF Pages
  <2>4. \A q \in h..(p - 1) : q \in U
    <3> SUFFICES ASSUME NEW q \in h..(p - 1), q \notin U PROVE FALSE
      BY Zenon
    <3>1. q \in Hi /\ q < p
      BY <2>3, <1>1 DEF Pages
    <3> QED BY <3>1, <2>2, <1>1 DEF Pages
  <2> QED BY <2>3, <2>4, Zenon DEF IsNextFit
<1>3. CASE Hi = {}
  <2>1. All \in SUBSET Nat /\ All # {}
    BY <1>1 DEF Pages
  <2>2. PICK p \in All : \A y \in All : p <= y
    BY <2>1, Least, Zenon
  <2>3. \A q \in h..(NPage - 1) : q \in U
    BY <1>3, Zenon
  <2>4. p < h
    BY <2>3, <1>1 DEF Pages
  <2>5. \A q \in 0..(p - 1) : q \in U
    <3> SUFFICES ASSUME NEW q \in 0..(p - 1), q \notin U PROVE FALSE
      BY Zenon
    <3>1. q \in All /\ q < p
      BY <1>1 DEF Pages
    <3> QED BY <3>1, <2>2, <1>1 DEF Pages
  <2> QED BY <2>3, <2>4, <2>5, Zenon DEF IsNextFit
<1> QED BY <1>2, <1>3, Zenon

\* When the two scans for n pages find nothing, no run of n pages is free.
LEMMA RunFitComplete ==
  ASSUME NEW U \in SUBSET Pages, NEW h \in 0..NPage, NEW n \in Nat,
         \A at \in Pages : ~ IsRunFit(U, h, n, at)
  PROVE \A at \in Pages : at + n <= NPage => RunAt(at, n) \cap U # {}
<1> SUFFICES ASSUME NEW f \in Pages, f + n <= NPage, RunAt(f, n) \cap U = {} PROVE FALSE
  BY Zenon
<1> DEFINE Hi == {b \in Pages : FreeRun(U, h, n, b)}
           All == {b \in Pages : FreeRun(U, 0, n, b)}
<1>1. NPage \in Nat /\ h \in Nat /\ Pages \subseteq Nat
  BY PmmOpsAssumption DEF PmmOpsAssumption, Pages
<1>2. CASE Hi # {}
  <2>1. PICK p \in Hi : \A y \in Hi : p <= y
    BY <1>1, <1>2, Least, Zenon
  <2>2. p \in Pages /\ FreeRun(U, h, n, p)
    BY Zenon
  <2>3. \A b \in h..(p - 1) : ~ FreeRun(U, h, n, b)
    <3> SUFFICES ASSUME NEW b \in h..(p - 1), FreeRun(U, h, n, b) PROVE FALSE
      BY Zenon
    <3>1. b \in Pages /\ b < p
      BY <2>2, <1>1 DEF Pages
    <3> QED BY <3>1, <2>1, <1>1
  <2> QED BY <2>2, <2>3, Zenon DEF IsRunFit
<1>3. CASE Hi = {}
  <2>1. f \in All
    BY <1>1 DEF FreeRun
  <2>2. PICK p \in All : \A y \in All : p <= y
    BY <2>1, <1>1, Least, Zenon
  <2>3. p \in Pages /\ FreeRun(U, 0, n, p)
    BY Zenon
  <2>4. \A b \in 0..(p - 1) : ~ FreeRun(U, 0, n, b)
    <3> SUFFICES ASSUME NEW b \in 0..(p - 1), FreeRun(U, 0, n, b) PROVE FALSE
      BY Zenon
    <3>1. b \in Pages /\ b < p
      BY <2>3, <1>1 DEF Pages
    <3> QED BY <3>1, <2>2, <1>1
  <2>5. \A b \in Pages : ~ FreeRun(U, h, n, b)
    BY <1>3, Zenon
  <2> QED BY <2>3, <2>4, <2>5 DEF IsRunFit
<1> QED BY <1>2, <1>3, Zenon

\* Taking a run moves the result away from 0 and frees nothing.
LEMMA TakeFails ==
  ASSUME FInv, NEW n \in Nat \ {0}, NEW at \in Pages, Take(at, n), RunAt(at, n) \cap used = {}
  PROVE (0 \in used /\ FailsOnlyWhenFull)'
<1>1. at # 0
  <2>1. SUFFICES ASSUME at = 0 PROVE FALSE
    BY Zenon
  <2>2. 0 \in RunAt(at, n)
    BY <2>1 DEF RunAt
  <2> QED BY <2>2, Zenon DEF FInv
<1> QED BY <1>1, Zenon DEF FInv, Take, FailsOnlyWhenFull

\* Every step keeps the explanation of a failure.
LEMMA FailStep ==
  ASSUME FInv, [PmmNext]_pmmVars
  PROVE FInv'
<1>0. IInv'
  BY Step, Zenon DEF FInv
<1>1. used \in SUBSET Pages /\ hint \in 0..NPage /\ used' \in SUBSET Pages
  BY <1>0, Zenon DEF FInv, IInv, PmmTypeOK
<1>2. CASE AllocPage
  <2>1. CASE \E p \in Pages : IsNextFit(used, hint, p)
    <3>1. PICK p \in Pages : IsNextFit(used, hint, p) /\ Take(p, 1)
      BY <1>2, <2>1, Zenon DEF AllocPage
    <3>2. RunAt(p, 1) \cap used = {}
      BY <3>1, <1>1, NextFitFree, Zenon
    <3> QED BY <3>1, <3>2, <1>0, TakeFails DEF FInv
  <2>2. CASE ~ \E p \in Pages : IsNextFit(used, hint, p)
    <3>1. \A p \in Pages : p \in used
      BY <2>2, <1>1, NextFitComplete, Zenon
    <3>2. NoMemory(1)
      BY <1>2, <2>2, Zenon DEF AllocPage
    <3>3. \A at \in Pages : RunAt(at, 1) \cap used # {}
      <4> SUFFICES ASSUME NEW at \in Pages PROVE at \in RunAt(at, 1) /\ at \in used
        BY Zenon
      <4> QED BY <3>1 DEF RunAt, Pages
    <3> QED BY <3>2, <3>3, <1>0 DEF FInv, NoMemory, FailsOnlyWhenFull
  <2> QED BY <2>1, <2>2, Zenon
<1>3. ASSUME NEW n \in 2..MaxRun, AllocPages(n) PROVE FInv'
  <2>0. n \in Nat \ {0}
    BY PmmAssumption DEF PmmAssumption
  <2>1. CASE \E at \in Pages : IsRunFit(used, hint, n, at)
    <3>1. PICK at \in Pages : IsRunFit(used, hint, n, at) /\ Take(at, n)
      BY <1>3, <2>1, Zenon DEF AllocPages
    <3>2. RunAt(at, n) \cap used = {}
      BY <3>1, <1>1, <2>0, RunFitFree, Zenon
    <3> QED BY <3>1, <3>2, <2>0, <1>0, TakeFails, Zenon DEF FInv
  <2>2. CASE ~ \E at \in Pages : IsRunFit(used, hint, n, at)
    <3>1. \A at \in Pages : at + n <= NPage => RunAt(at, n) \cap used # {}
      BY <2>2, <1>1, <2>0, RunFitComplete, Zenon
    <3>2. NoMemory(n)
      BY <1>3, <2>2, Zenon DEF AllocPages
    <3> QED BY <3>1, <3>2, <1>0, Zenon DEF FInv, NoMemory, FailsOnlyWhenFull
  <2> QED BY <2>1, <2>2, Zenon
<1>4. ASSUME NEW r \in held, FreePages(r) PROVE FInv'
  BY <1>4, <1>0 DEF FInv, FreePages, FailsOnlyWhenFull, NoCall
<1>5. CASE UNCHANGED pmmVars
  BY <1>5, <1>0, Zenon DEF FInv, FailsOnlyWhenFull, pmmVars
<1> QED BY <1>2, <1>3, <1>4, <1>5, Zenon DEF PmmNext

\* pmm_alloc_page() and pmm_alloc_pages() fail only when nothing fits.
THEOREM Complete == PmmSpec => []FailsOnlyWhenFull
<1>1. PmmInit => FInv
  <2> SUFFICES ASSUME PmmInit PROVE FInv
    BY Zenon
  <2>1. 0 \in used
    BY LowReserved, PmmOpsAssumption DEF PmmInit, Boot, Reserved, Pages, LowReserved, PmmOpsAssumption
  <2> QED BY <2>1, Start DEF PmmInit, FInv, FailsOnlyWhenFull, NoCall
<1>2. FInv /\ [PmmNext]_pmmVars => FInv'
  BY FailStep, Zenon
<1>3. FInv => FailsOnlyWhenFull
  BY Zenon DEF FInv
<1> QED BY <1>1, <1>2, <1>3, PTL DEF PmmSpec
-----------------------------------------------------------------------------
(* What pmm_init() and memory_init() reserve                               *)

\* Every page that is reserved or outside RAM at boot stays marked, since only what
\* was handed out is freed and only unmarked pages are handed out.
BootInv == Boot \subseteq used /\ \A r \in held : RunAt(r.at, r.n) \cap Boot = {}

\* Taking free pages and freeing held ones both leave the reserved pages alone.
LEMMA BootStep ==
  ASSUME IInv, BootInv, [PmmNext]_pmmVars
  PROVE  BootInv'
<1>0. used \in SUBSET Pages /\ hint \in 0..NPage
  BY Zenon DEF IInv, PmmTypeOK
<1>1. ASSUME NEW at, NEW n, Take(at, n), RunAt(at, n) \cap used = {} PROVE BootInv'
  <2>1. used' = used \cup RunAt(at, n) /\ held' = held \cup {[at |-> at, n |-> n]}
    BY <1>1, Zenon DEF Take
  <2> QED BY <1>1, <2>1 DEF BootInv
<1>2. ASSUME NEW n, NoMemory(n) PROVE BootInv'
  BY <1>2, Zenon DEF NoMemory, BootInv
<1>3. CASE AllocPage
  <2>1. ASSUME NEW p \in Pages, IsNextFit(used, hint, p), Take(p, 1) PROVE BootInv'
    BY <2>1, <1>0, <1>1, NextFitFree, Zenon
  <2> QED BY <1>2, <1>3, <2>1, Zenon DEF AllocPage
<1>4. ASSUME NEW n \in 2..MaxRun, AllocPages(n) PROVE BootInv'
  <2>0. n \in Nat \ {0}
    BY PmmAssumption DEF PmmAssumption
  <2>1. ASSUME NEW at \in Pages, IsRunFit(used, hint, n, at), Take(at, n) PROVE BootInv'
    BY <2>0, <2>1, <1>0, <1>1, RunFitFree, Zenon
  <2> QED BY <1>2, <1>4, <2>1, Zenon DEF AllocPages
<1>5. ASSUME NEW r \in held, FreePages(r) PROVE BootInv'
  BY <1>5, Zenon DEF FreePages, BootInv
<1>6. CASE UNCHANGED pmmVars
  BY <1>6, Zenon DEF pmmVars, BootInv
<1> QED BY <1>3, <1>4, <1>5, <1>6, Zenon DEF PmmNext

\* BootInv holds in every reachable state.
LEMMA BootAlways == PmmSpec => []BootInv
<1>1. PmmInit => BootInv
  BY Zenon DEF PmmInit, BootInv
<1>2. IInv /\ BootInv /\ [PmmNext]_pmmVars => BootInv'
  BY BootStep, Zenon
<1> QED BY <1>1, <1>2, Invariance, PTL DEF PmmSpec

\* The page of an address: the first and the last page that pmm_mark_region() marks.
LEMMA PageOf ==
  ASSUME NEW x \in Nat, NEW p \in Nat
  PROVE  /\ x \div PS <= p <=> x < p * PS + PS
         /\ p < (x + PS - 1) \div PS <=> p * PS < x
BY PmmAssumption DEF PmmAssumption

\* pmm_mark_region() marks every page in which the region has a byte, and no other
\* one if the region is not empty.
LEMMA SpanTouched ==
  ASSUME NEW R \in SUBSET (Nat \X Nat)
  PROVE  /\ Touched(R) \subseteq Spans(R)
         /\ (\A r \in R : r[2] > 0) => Spans(R) \subseteq Touched(R)
<1>0. PS \in Nat /\ PS > 0 /\ Pages \subseteq Nat
  BY PmmAssumption, PmmOpsAssumption DEF PmmAssumption, Pages, PmmOpsAssumption
<1>1. ASSUME NEW p \in Pages, NEW r \in R
      PROVE  p \in Span(r[1], r[2]) <=> r[1] < p * PS + PS /\ p * PS < r[1] + r[2]
  <2>1. r[1] \in Nat /\ r[1] + r[2] \in Nat /\ p \in Nat
    BY <1>0
  <2> QED BY <2>1, PageOf, Zenon DEF Span
<1>2. ASSUME NEW p \in Touched(R) PROVE p \in Spans(R)
  <2>1. PICK r \in R, k \in 0..(PS - 1) : r[1] <= p * PS + k /\ p * PS + k < r[1] + r[2]
    BY <1>2, Zenon DEF Touched
  <2>2. p \in Pages /\ p \in Nat /\ p * PS \in Nat /\ r[1] \in Nat /\ r[2] \in Nat
    BY <1>0, <1>2 DEF Touched
  <2>3. r[1] < p * PS + PS /\ p * PS < r[1] + r[2]
    BY <2>1, <2>2, <1>0
  <2> QED BY <2>2, <2>3, <1>1 DEF Spans
<1>3. ASSUME \A r \in R : r[2] > 0, NEW p \in Spans(R) PROVE p \in Touched(R)
  <2>1. PICK r \in R : p \in Span(r[1], r[2])
    BY <1>3, Zenon DEF Spans
  <2>2. p \in Pages /\ p \in Nat /\ p * PS \in Nat /\ r[1] \in Nat /\ r[2] \in Nat /\ r[2] > 0
    BY <1>0, <1>3, <2>1 DEF Span
  <2>3. r[1] < p * PS + PS /\ p * PS < r[1] + r[2]
    BY <2>1, <2>2, <1>1, Zenon
  <2>4. \E k \in 0..(PS - 1) : r[1] <= p * PS + k /\ p * PS + k < r[1] + r[2]
    <3>1. CASE r[1] <= p * PS
      BY <3>1, <2>2, <2>3, <1>0
    <3>2. CASE ~ (r[1] <= p * PS)
      <4>1. r[1] - p * PS \in 0..(PS - 1) /\ p * PS + (r[1] - p * PS) = r[1]
        BY <3>2, <2>2, <2>3, <1>0
      <4> QED BY <4>1, <2>2
    <3> QED BY <3>1, <3>2, Zenon
  <2> QED BY <2>2, <2>4, Zenon DEF Touched
<1> QED BY <1>2, <1>3, Zenon

\* No page in which the kernel image, the heap arena, the low 2 MiB, the boot
\* information or the frame buffer has a byte is ever handed out or freed.
THEOREM ReservedKept == PmmSpec => []ReservedStay
<1>1. Touched(Keep) \subseteq Boot
  <2>1. Touched(Keep) \subseteq Reserved
    BY SpanTouched, PmmAssumption, Zenon DEF Reserved, PmmAssumption
  <2> QED BY <2>1, Zenon DEF Boot, Touched
<1>2. BootInv => ReservedStay
  BY <1>1, Zenon DEF BootInv, ReservedStay
<1> QED BY <1>2, BootAlways, PTL

\* Every free page has a byte of RAM, if no region of the memory map is empty:
\* pmm_mark_region() frees the page of an empty region that begins inside a page.
THEOREM FreeIsRam == (\A r \in Usable : r[2] > 0) => (PmmSpec => []OnlyRam)
<1>1. CASE \A r \in Usable : r[2] > 0
  <2>1. Spans(Usable) \subseteq Touched(Usable)
    BY <1>1, SpanTouched, PmmAssumption, Zenon DEF PmmAssumption
  <2>2. BootInv => OnlyRam
    BY <2>1, Zenon DEF BootInv, OnlyRam, Boot
  <2> QED BY <2>2, BootAlways, PTL
<1> QED BY <1>1, Zenon

\* The memory map stays below the end of the bitmap (pmm_init() clips it), and no
\* region reaches into the page in which the RAM ends.
MapEndsOnPage == /\ RamTop \in 0..NPage
                 /\ \A r \in Usable : (r[1] + r[2] + PS - 1) \div PS <= RamTop

\* What pmm_get_stats() computes from the counter is the number of used pages below
\* the top of RAM, if the RAM ends on a page boundary.
THEOREM StatsRight == MapEndsOnPage => (PmmSpec => []StatsExact)
<1>1. CASE MapEndsOnPage
  <2> DEFINE Low == 0..(RamTop - 1)
             High == RamTop..(NPage - 1)
  <2>0. RamTop \in Int /\ NPage \in Nat /\ 0 <= RamTop /\ RamTop <= NPage
    BY <1>1, PmmOpsAssumption DEF MapEndsOnPage, PmmOpsAssumption
  <2>1. High \subseteq Boot
    <3> SUFFICES ASSUME NEW p \in High PROVE p \in Boot
      BY Zenon
    <3>1. p \in Pages
      BY <2>0 DEF Pages
    <3>2. ASSUME NEW r \in Usable PROVE p \notin Span(r[1], r[2])
      <4>1. (r[1] + r[2] + PS - 1) \div PS <= RamTop /\ RamTop <= p
        BY <1>1, <2>0 DEF MapEndsOnPage
      <4>2. (r[1] + r[2] + PS - 1) \div PS \in Int
        BY PmmAssumption DEF PmmAssumption
      <4> HIDE DEF High
      <4> QED BY <3>1, <4>1, <4>2, <2>0 DEF Span, Pages
    <3> QED BY <3>1, <3>2, Zenon DEF Boot, Spans
  <2>2. IInv /\ BootInv => StatsExact
    <3> SUFFICES ASSUME IInv, BootInv PROVE StatsExact
      BY Zenon
    <3>1. used \in SUBSET Pages /\ cnt = Cardinality(used) /\ High \subseteq used
      BY <2>1, Zenon DEF IInv, PmmTypeOK, CountExact, BootInv
    <3>2. used = (used \cap Low) \cup High /\ (used \cap Low) \cap High = {}
      <4>1. \A p \in Pages : p \in Low \/ p \in High
        BY <2>0 DEF Pages
      <4>2. \A p \in Low : p \notin High
        BY <2>0
      <4> HIDE DEF Low, High
      <4> QED BY <3>1, <4>1, <4>2, Zenon
    <3>3. IsFiniteSet(used \cap Low) /\ IsFiniteSet(High)
      <4> HIDE DEF Low, High
      <4>1. (used \cap Low) \in SUBSET Pages /\ High \in SUBSET Pages
        BY <3>1, Zenon
      <4> QED BY <4>1, PagesFinite, Zenon
    <3>4. Cardinality(High) = NPage - RamTop
      <4>1. RamTop \in Int /\ NPage - 1 \in Int
        BY <2>0
      <4>2. Cardinality(High) = IF RamTop > NPage - 1 THEN 0 ELSE (NPage - 1) - RamTop + 1
        BY <4>1, FS_Interval, Zenon
      <4> HIDE DEF High
      <4> QED BY <4>2, <2>0
    <3>5. Cardinality(used) = Cardinality(used \cap Low) + Cardinality(High)
      <4> HIDE DEF High, Low
      <4>1. Cardinality((used \cap Low) \cup High)
              = Cardinality(used \cap Low) + Cardinality(High) - Cardinality((used \cap Low) \cap High)
        BY <3>3, FS_Union, Zenon
      <4>2. Cardinality((used \cap Low) \cap High) = 0
        BY <3>2, FS_EmptySet, Zenon
      <4>3. Cardinality(used \cap Low) \in Nat /\ Cardinality(High) \in Nat
        BY <3>3, FS_CardinalityType, Zenon
      <4>4. Cardinality(used) = Cardinality(used \cap Low) + Cardinality(High) - 0
        BY <3>2, <4>1, <4>2, Zenon
      <4>5. ASSUME NEW a \in Nat, NEW b \in Nat, NEW c, c = a + b - 0 PROVE c = a + b
        BY <4>5
      <4> QED BY <4>3, <4>4, <4>5, Zenon
    <3>6. Cardinality(used \cap Low) \in Nat
      BY <3>3, FS_CardinalityType, Zenon
    <3>7. cnt = Cardinality(used \cap Low) + (NPage - RamTop)
      BY <3>1, <3>4, <3>5, Zenon
    <3> HIDE DEF High
    <3>8. cnt - (NPage - RamTop) = Cardinality(used \cap Low)
      BY <3>6, <3>7, <2>0
    <3> QED BY <3>8, Zenon DEF StatsExact
  <2> QED BY <2>2, BootAlways, Invariance, PTL
<1> QED BY <1>1, Zenon
=============================================================================
