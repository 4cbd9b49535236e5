------------------------------ MODULE AddrSpace ------------------------------
(***************************************************************************)
(* Which page tables the processor uses, which ones the kernel edits and   *)
(* what the TLB may still hold: vmm_switch_cr3(), vmm_set_root_ptr() and   *)
(* the invalidation of mm/memory.c, under the calls of core/process.c and  *)
(* sched/scheduler.c that switch, build and tear down address spaces.      *)
(*                                                                         *)
(* A process has one address space of its own (module Uvm has the shared   *)
(* ones): a root frame and a frame for each user page.  Any free frame may *)
(* be allocated.  The TLB may load an entry from the tables in CR3 at any  *)
(* time and drops entries only when it must.                               *)
(***************************************************************************)
EXTENDS Integers, FiniteSets

CONSTANTS Frame,    \* page frames
          Page,     \* user pages
          NProc

VARIABLES frames,     \* frames in use
          tables,   \* by root frame: the frame of each page, 0 for none
          root,     \* mm->cr3 by process, 0 for none
          st,       \* state by process
          cpu,      \* the process the CPU works for; 0: the main task
          launch,   \* how far shell_launch_program() is
          cr3, active, walk,   \* CR3, the copy in vmm_switch_cr3(), vmm_active_root
          tlb       \* cached <<page, frame>>

vars == <<frames, tables, root, st, cpu, launch, cr3, active, walk, tlb>>

BootRoot == 0
Procs == 1..NProc

Free == Frame \ frames
NoPages == [v \in Page |-> 0]
Mapped(r) == {v \in Page : tables[r][v] # 0}
FramesOf(r) == {r} \cup {tables[r][v] : v \in Mapped(r)}
FirstSlot(p) == st[p] = "UNUSED" /\ \A q \in 1..(p - 1) : st[q] # "UNUSED"

\* vmm_editing_active_root() and vmm_invlpg(): what is left of the TLB after
\* pages V of the tables at r were changed
Kept(r, V) == IF r = cr3 THEN {x \in tlb : x[1] \notin V} ELSE tlb

\* vmm_switch_cr3()
Switch(r) ==
  /\ walk' = r
  /\ active' = r
  /\ cr3' = IF active = r THEN cr3 ELSE r
  /\ tlb' = IF active = r THEN tlb ELSE {}

\* mm_new() and the pages V mapped into it: root frame r, page frames F[v]
Built(r, F, V) ==
  /\ r \in Free
  /\ \A v \in V : F[v] \in Free \ {r} /\ \A u \in V : F[u] = F[v] => u = v
  /\ \A v \in Page \ V : F[v] = 0
  /\ tables' = [tables EXCEPT ![r] = F]

Init == /\ frames = {}
        /\ tables = [r \in Frame |-> NoPages]
        /\ root = [p \in Procs |-> 0] /\ st = [p \in Procs |-> "UNUSED"]
        /\ cpu = 0 /\ launch = "idle"
        /\ cr3 = BootRoot /\ active = 0 /\ walk = BootRoot
        /\ tlb = {}

NoneActive == \A p \in Procs : st[p] \in {"UNUSED", "ZOMBIE"}

\* mm_put() of the last reference, for the roots R: pages unmapped, frames freed,
\* the walk pointer moved to the boot tables when it was at one of them
Destroyed(R) ==
  /\ frames' = frames \ UNION {FramesOf(r) : r \in R}
  /\ tables' = [r \in Frame |-> IF r \in R THEN NoPages ELSE tables[r]]
  /\ walk' = IF walk \in R THEN BootRoot ELSE walk
  /\ tlb' = IF cr3 \in R THEN Kept(cr3, Page) ELSE tlb

\* shell_launch_program(), first half: process_reap_zombies()
Reap ==
  /\ cpu = 0 /\ launch = "idle" /\ NoneActive
  /\ Destroyed({root[p] : p \in {q \in Procs : st[q] = "ZOMBIE"}})
  /\ root' = [p \in Procs |-> 0]
  /\ st' = [p \in Procs |-> "UNUSED"]
  /\ launch' = "reaped"
  /\ UNCHANGED <<cpu, cr3, active>>

\* exec_load_program() finds no program
LoadFails ==
  /\ launch = "reaped"
  /\ launch' = "idle"
  /\ UNCHANGED <<frames, tables, root, st, cpu, cr3, active, walk, tlb>>

\* exec_load_program(): a first page is mapped through the walk pointer, which is
\* put back
Load(p, r, F) ==
  /\ launch = "reaped" /\ FirstSlot(p)
  /\ \E v \in Page : Built(r, F, {v})
  /\ frames' = frames \cup {r} \cup ({F[v] : v \in Page} \ {0})
  /\ root' = [root EXCEPT ![p] = r]
  /\ st' = [st EXCEPT ![p] = "READY"]
  /\ launch' = "loaded"
  /\ tlb' = Kept(r, Page)
  /\ UNCHANGED <<cpu, cr3, active, walk>>

\* process_run()
Run(p) ==
  /\ launch = "loaded" /\ st[p] = "READY"
  /\ Switch(root[p])
  /\ cpu' = p /\ launch' = "idle"
  /\ st' = [st EXCEPT ![p] = "RUNNING"]
  /\ UNCHANGED <<frames, tables, root>>

\* scheduler_tick(), park_switch() or process_wait_run() hand the CPU to p; the
\* process that ran is ready again or blocked (Park)
Dispatch(p) ==
  /\ launch = "idle" /\ st[p] = "READY"
  /\ Switch(root[p])
  /\ cpu' = p
  /\ st' = [q \in Procs |-> IF q = p THEN "RUNNING" ELSE IF st[q] = "RUNNING" THEN "READY" ELSE st[q]]
  /\ UNCHANGED <<frames, tables, root, launch>>

\* scheduler_tick(): the main task gets a turn while p stays the running process,
\* and p goes on
ToMain == cpu # 0 /\ cpu' = 0 /\ UNCHANGED <<frames, tables, root, st, launch, cr3, active, walk, tlb>>
Resume(p) ==
  /\ cpu = 0 /\ st[p] = "RUNNING"
  /\ cpu' = p
  /\ UNCHANGED <<frames, tables, root, st, launch, cr3, active, walk, tlb>>

\* wait_block(): nobody else is ready, the main task runs
Park(p) ==
  /\ cpu = p
  /\ st' = [st EXCEPT ![p] = "BLOCKED"]
  /\ cpu' = 0
  /\ UNCHANGED <<frames, tables, root, launch, cr3, active, walk, tlb>>

\* wake_locked()
Wake(p) ==
  /\ st[p] = "BLOCKED"
  /\ st' = [st EXCEPT ![p] = "READY"]
  /\ UNCHANGED <<frames, tables, root, cpu, launch, cr3, active, walk, tlb>>

\* process_exit() and process_kill_current(): back to the main task
Exit(p) ==
  /\ cpu = p
  /\ st' = [st EXCEPT ![p] = "ZOMBIE"]
  /\ cpu' = 0
  /\ UNCHANGED <<frames, tables, root, launch, cr3, active, walk, tlb>>

\* process_exit(): a parent in wait4() goes on at once
ExitToParent(p, q) ==
  /\ cpu = p /\ st[q] = "BLOCKED"
  /\ Switch(root[q])
  /\ st' = [st EXCEPT ![p] = "ZOMBIE", ![q] = "RUNNING"]
  /\ cpu' = q
  /\ UNCHANGED <<frames, tables, root, launch>>

\* sc_wait4() and process_reap() of a child
WaitReap(p, c) ==
  /\ cpu = p /\ st[c] = "ZOMBIE"
  /\ Destroyed({root[c]})
  /\ root' = [root EXCEPT ![c] = 0]
  /\ st' = [st EXCEPT ![c] = "UNUSED"]
  /\ UNCHANGED <<cpu, launch, cr3, active>>

\* process_fork(): the child's tables are edited while CR3 has the parent's
Fork(p, c, r, F) ==
  /\ cpu = p /\ FirstSlot(c)
  /\ Built(r, F, Mapped(root[p]))
  /\ frames' = frames \cup {r} \cup ({F[v] : v \in Page} \ {0})
  /\ root' = [root EXCEPT ![c] = r]
  /\ st' = [st EXCEPT ![c] = "READY"]
  /\ tlb' = Kept(r, Page)
  /\ UNCHANGED <<cpu, launch, cr3, active, walk>>

\* exec_replace(): new tables, the old ones destroyed, then the switch
Exec(p, r, F) ==
  LET old == root[p]
  IN /\ cpu = p
     /\ \E v \in Page :
          /\ r \in Free /\ F = [u \in Page |-> IF u = v THEN F[v] ELSE 0] /\ F[v] \in Free \ {r}
     /\ tables' = [tables EXCEPT ![r] = F, ![old] = NoPages]
     /\ frames' = (frames \ FramesOf(old)) \cup {r} \cup ({F[v] : v \in Page} \ {0})
     /\ root' = [root EXCEPT ![p] = r]
     /\ Switch(r)
     /\ UNCHANGED <<st, cpu, launch>>

\* mmap() and munmap() of one page of the running process
Mmap(p, v, f) ==
  /\ cpu = p /\ f \in Free /\ tables[walk][v] = 0
  /\ frames' = frames \cup {f}
  /\ tables' = [tables EXCEPT ![walk][v] = f]
  /\ tlb' = Kept(walk, {v})
  /\ UNCHANGED <<root, st, cpu, launch, cr3, active, walk>>

Munmap(p, v) ==
  /\ cpu = p /\ tables[walk][v] # 0
  /\ frames' = frames \ {tables[walk][v]}
  /\ tables' = [tables EXCEPT ![walk][v] = 0]
  /\ tlb' = Kept(walk, {v})
  /\ UNCHANGED <<root, st, cpu, launch, cr3, active, walk>>

\* The processor reads an entry of the tables in CR3
Fill(v) ==
  /\ cr3 # BootRoot /\ tables[cr3][v] # 0
  /\ tlb' = tlb \cup {<<v, tables[cr3][v]>>}
  /\ UNCHANGED <<frames, tables, root, st, cpu, launch, cr3, active, walk>>

Next ==
  \/ Reap \/ LoadFails \/ ToMain
  \/ \E v \in Page : Fill(v)
  \/ \E p \in Procs :
       \/ Run(p) \/ Dispatch(p) \/ Resume(p) \/ Park(p) \/ Wake(p) \/ Exit(p)
       \/ \E q \in Procs : ExitToParent(p, q) \/ WaitReap(p, q)
       \/ \E r \in Free, F \in [Page -> Free \cup {0}] :
            Load(p, r, F) \/ Exec(p, r, F) \/ \E c \in Procs : Fork(p, c, r, F)
       \/ \E v \in Page : Munmap(p, v) \/ \E f \in Free : Mmap(p, v, f)

Spec == Init /\ [][Next]_vars
-----------------------------------------------------------------------------
\* Types
TypeOK ==
  /\ frames \subseteq Frame
  /\ tables \in [Frame -> [Page -> Frame \cup {0}]]
  /\ root \in [Procs -> Frame \cup {0}]
  /\ st \in [Procs -> {"UNUSED", "READY", "RUNNING", "BLOCKED", "ZOMBIE"}]
  /\ cpu \in {0} \cup Procs /\ launch \in {"idle", "reaped", "loaded"}
  /\ {cr3, active, walk} \subseteq Frame \cup {0}
  /\ tlb \subseteq Page \X Frame

\* A process runs on its own page tables, however it got the CPU: CR3 is loaded
\* only in some of the switches, and only when the kernel's copy differs.
OwnTables == cpu # 0 => cr3 = root[cpu]

\* The system calls of a process walk its own page tables: the walk pointer is
\* moved for fork, exec and teardown and is back afterwards.
OwnWalk == cpu # 0 => walk = root[cpu]

\* Every translation the TLB may hold is one of the tables in CR3: the kernel
\* flushes nothing when it edits tables that are not in CR3.
NoStaleTlb == \A x \in tlb : cr3 # BootRoot /\ tables[cr3][x[1]] = x[2]

\* A frame that was freed can be reached through the TLB by nobody.
NoFreedInTlb == \A x \in tlb : x[2] \in frames

=============================================================================
