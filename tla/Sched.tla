------------------------------- MODULE Sched -------------------------------
(***************************************************************************)
(* The CPU hand-over core of the kernel: the process table, the tick       *)
(* handler, and every path that takes the CPU away from one context and    *)
(* gives it to another (sched/scheduler.c, sched/wait.c, core/process.c).  *)
(*                                                                         *)
(* One CPU.  A context is an integer: 0 is the kernel main task (the       *)
(* shell), i < NTask is kernel task i of tasks[], and NTask + s is the     *)
(* user process in slot s of processes[].  Interrupt and syscall handlers  *)
(* run with IF = 0, so each is one atomic action; everything else is       *)
(* interleaved with them.                                                  *)
(*                                                                         *)
(* A saved register frame is abstracted to the context it belongs to and   *)
(* whether it is still that context's latest state.  Whenever a context    *)
(* gets the CPU every frame of it becomes old: resuming one again would    *)
(* roll the context back over a stack it has since overwritten.            *)
(***************************************************************************)
EXTENDS Integers, FiniteSets

CONSTANTS NProc,    \* MAX_PROCESSES
          NTask,    \* kernel tasks alive after boot: main, kwatchdog
          MaxPid,   \* bound on next_pid
          Faults,   \* may user code raise a CPU exception?
          Threads   \* may user code call clone(CLONE_THREAD)?

ASSUME SchedAssumption ==
  /\ NProc \in Nat \ {0}
  /\ NTask \in Nat \ {0}
  /\ MaxPid \in Nat
  /\ Faults \in BOOLEAN
  /\ Threads \in BOOLEAN

Tasks == 0..(NTask - 1)
ProcSlots == NTask..(NTask + NProc - 1)
NoProc == 0
Ctx == Tasks \cup ProcSlots
NoCtx == NTask + NProc
States == {"UNUSED", "READY", "RUNNING", "BLOCKED", "ZOMBIE"}

\* A frame: its context, whether it is the context's latest state, and (for
\* the main task) where in the launch path the main task was interrupted.
Frame == [ctx : Ctx \cup {NoCtx}, age : {"latest", "old"}, pc : ProcSlots \cup {NoProc}]
NoFrame == [ctx |-> NoCtx, age |-> "old", pc |-> NoProc]

VARIABLES
  state,    \* process_t.state
  pid,      \* process_t.pid (threads carry the leader's)
  parent,   \* process_t.parent_pid
  thr,      \* process_t.is_thread
  wpid,     \* process_t.wait_pid: the child a wait4 caller is parked for
  parked,   \* the frame process_t.parked_rsp points at
  nextPid,  \* next_pid
  cur,      \* current_process
  uframe,   \* user_frame, NoFrame while user_frame_valid is 0
  mainReq,  \* main_switch_requested
  trsp,     \* the frame tasks[i].rsp points at
  tidx,     \* current_task_idx
  cpu,      \* the context the CPU executes
  mainpc,   \* slot the shell has loaded and not yet run (NoProc: at the prompt)
  resumed   \* history: the frame the last hand-over restored

table == <<pid, parent, thr, wpid, nextPid>>
vars == <<state, table, parked, cur, uframe, mainReq, trsp, tidx, cpu,
          mainpc, resumed>>
----------------------------------------------------------------------------
\* Mutant: process_any_active() overlooks blocked processes
ActiveUnblocked(st) == {p \in ProcSlots : st[p] \in {"READY", "RUNNING"}}

Active(st) == {p \in ProcSlots : st[p] \in {"READY", "RUNNING", "BLOCKED"}}

\* Blocked on a wait queue, as opposed to parked by wait4
Queued(st) == {p \in ProcSlots : st[p] = "BLOCKED" /\ wpid[p] = 0}

Ready(st, W) == [p \in ProcSlots |-> IF p \in W THEN "READY" ELSE st[p]]

\* q is the first slot of S in table order, NoProc if there is none
First(S, q) == \/ q \in S /\ \A r \in S : q <= r
               \/ S = {} /\ q = NoProc

\* process_pick_ready(exclude) returns q
Picks(st, exclude, q) ==
  First({p \in ProcSlots : /\ st[p] = "READY"
                       /\ parked[p] # NoFrame
                       /\ p # exclude}, q)

\* The frame an interrupt or syscall entry saves for the running context
Save == [ctx |-> cpu, age |-> "latest",
         pc |-> IF cpu = 0 THEN mainpc ELSE NoProc]

Age(f, c) == [ctx |-> f.ctx, pc |-> f.pc,
              age |-> IF f.ctx = c THEN "old" ELSE f.age]

\* iretq into frame f; t, u, k are the frame tables the handler leaves behind
Resume(f, t, u, k) ==
  /\ cpu' = f.ctx
  /\ resumed' = f
  /\ mainpc' = IF f.ctx = 0 THEN f.pc ELSE mainpc
  /\ trsp' = [i \in Tasks |-> Age(t[i], f.ctx)]
  /\ uframe' = Age(u, f.ctx)
  /\ parked' = [p \in ProcSlots |-> Age(k[p], f.ctx)]

Init ==
  /\ state = [p \in ProcSlots |-> "UNUSED"]
  /\ pid = [p \in ProcSlots |-> 0]
  /\ parent = [p \in ProcSlots |-> 0]
  /\ thr = [p \in ProcSlots |-> FALSE]
  /\ wpid = [p \in ProcSlots |-> 0]
  /\ parked = [p \in ProcSlots |-> NoFrame]
  /\ nextPid = 1
  /\ cur = NoProc
  /\ uframe = NoFrame
  /\ mainReq = 0
  /\ trsp = [i \in Tasks |-> IF i = 0 THEN NoFrame
                             ELSE [ctx |-> i, age |-> "latest", pc |-> NoProc]]
  /\ tidx = 0
  /\ cpu = 0
  /\ mainpc = NoProc
  /\ resumed = [ctx |-> 0, age |-> "latest", pc |-> NoProc]
----------------------------------------------------------------------------
(* IRQ0: wait_timers_poll (wakes the processes W), then scheduler_tick.    *)

\* The tick after an exit, a fault or a park: back to the main task
TickMainSwitch(W) ==
  /\ mainReq = 1
  /\ mainReq' = 0
  /\ state' = Ready(state, W)
  /\ tidx' = 0
  /\ Resume(trsp[0], trsp, NoFrame, parked)
  /\ UNCHANGED <<table, cur>>

\* The main task was on the CPU in place of the current process: run the next
\* READY process, parking the current one, or else the current one again
TickToUser(W) ==
  LET st == Ready(state, W)
      t == [trsp EXCEPT ![0] = Save]
  IN /\ mainReq = 0
     /\ cur # NoProc /\ state[cur] = "RUNNING"
     /\ uframe # NoFrame
     /\ \E q \in ProcSlots \cup {NoProc} :
          /\ Picks(st, cur, q)
          /\ IF q # NoProc
             THEN /\ state' = [st EXCEPT ![cur] = "READY", ![q] = "RUNNING"]
                  /\ cur' = q
                  /\ Resume(parked[q], t, NoFrame,
                            [parked EXCEPT ![cur] = uframe])
             ELSE /\ state' = st
                  /\ cur' = cur
                  /\ Resume(uframe, t, NoFrame, parked)
     /\ UNCHANGED <<table, mainReq, tidx>>

\* Mutant: a tick that interrupts user code returns to the same user code
TickStaysInUser(W) ==
  /\ mainReq = 0
  /\ cur # NoProc /\ state[cur] = "RUNNING"
  /\ uframe = NoFrame
  /\ state' = Ready(state, W)
  /\ Resume(Save, trsp, NoFrame, parked)
  /\ UNCHANGED <<table, cur, mainReq, tidx>>

\* The current process was on the CPU: keep its frame aside, run main
TickToMain(W) ==
  /\ mainReq = 0
  /\ cur # NoProc /\ state[cur] = "RUNNING"
  /\ uframe = NoFrame
  /\ state' = Ready(state, W)
  /\ tidx' = 0
  /\ Resume(trsp[0], trsp, Save, parked)
  /\ UNCHANGED <<table, cur, mainReq>>

\* No current process: resume a woken process, or rotate the kernel tasks
TickKernel(W) ==
  LET st == Ready(state, W)
      t == [trsp EXCEPT ![tidx] = Save]
      next == (tidx + 1) % NTask
  IN /\ mainReq = 0
     /\ ~(cur # NoProc /\ state[cur] = "RUNNING")
     /\ \E q \in ProcSlots \cup {NoProc} :
          /\ Picks(st, NoProc, q)
          /\ IF q # NoProc
             THEN /\ state' = [st EXCEPT ![q] = "RUNNING"]
                  /\ cur' = q
                  /\ tidx' = tidx
                  /\ Resume(parked[q], t, NoFrame, parked)
             ELSE /\ state' = st
                  /\ cur' = cur
                  /\ tidx' = next
                  /\ Resume(t[next], t, NoFrame, parked)
     /\ UNCHANGED <<table, mainReq>>

Tick == \E W \in SUBSET Queued(state) :
          \/ TickMainSwitch(W)
          \/ TickToUser(W)
          \/ TickToMain(W)
          \/ TickKernel(W)
----------------------------------------------------------------------------
(* The shell: shell_launch_program() = load, then process_run().           *)

\* the table after process_reap_zombies()
Reaped == [p \in ProcSlots |-> IF state[p] = "ZOMBIE" THEN "UNUSED" ELSE state[p]]

\* process_reap_zombies(), then exec_load_program(): the new process is READY
\* but has no frame, so no scheduler path picks it
LoadProgram ==
  /\ cpu = 0 /\ mainpc = NoProc
  /\ Active(state) = {}
  /\ nextPid <= MaxPid
  /\ \E c \in ProcSlots :
       /\ First({p \in ProcSlots : Reaped[p] = "UNUSED"}, c)
       /\ state' = [Reaped EXCEPT ![c] = "READY"]
       /\ pid' = [pid EXCEPT ![c] = nextPid]
       /\ parent' = [parent EXCEPT ![c] =
                        IF cur = NoProc THEN 0 ELSE pid[cur]]
       /\ thr' = [thr EXCEPT ![c] = FALSE]
       /\ wpid' = [wpid EXCEPT ![c] = 0]
       /\ parked' = [p \in ProcSlots |-> IF p = c \/ state[p] = "ZOMBIE"
                                     THEN NoFrame ELSE parked[p]]
       /\ mainpc' = c
  /\ nextPid' = nextPid + 1
  /\ UNCHANGED <<cur, uframe, mainReq, trsp, tidx, cpu, resumed>>

\* exec_load_program() fails after the zombies were reaped, before or after
\* process_alloc_slot() took a pid
LoadFails ==
  /\ cpu = 0 /\ mainpc = NoProc
  /\ Active(state) = {}
  /\ nextPid' \in {nextPid, nextPid + 1} /\ nextPid' <= MaxPid + 1
  /\ state' = Reaped
  /\ parked' = [p \in ProcSlots |-> IF state[p] = "ZOMBIE"
                                THEN NoFrame ELSE parked[p]]
  /\ UNCHANGED <<pid, parent, thr, wpid, cur, uframe, mainReq, trsp, tidx,
                 cpu, mainpc, resumed>>

\* process_run(): main is abandoned and restarts at shell_run when next
\* resumed; the program starts in user mode
RunProgram ==
  /\ cpu = 0 /\ mainpc # NoProc
  /\ IF state[mainpc] = "READY"
     THEN /\ state' = [state EXCEPT ![mainpc] = "RUNNING"]
          /\ cur' = mainpc
          /\ cpu' = mainpc
          /\ resumed' = [ctx |-> mainpc, age |-> "latest", pc |-> NoProc]
          /\ trsp' = [trsp EXCEPT ![0] =
                        [ctx |-> 0, age |-> "latest", pc |-> NoProc]]
     ELSE UNCHANGED <<state, cur, cpu, resumed, trsp>>
  /\ mainpc' = NoProc
  /\ UNCHANGED <<table, parked, uframe, mainReq, tidx>>
----------------------------------------------------------------------------
(* System calls of the running process p = cpu.                            *)

InUser == cpu \in ProcSlots

\* process_fork / process_clone: c gets a copy of the caller's frame
Fork(asThread) ==
  /\ InUser
  /\ nextPid <= MaxPid
  /\ \E c \in ProcSlots :
       /\ First({p \in ProcSlots : state[p] = "UNUSED"}, c)
       /\ state' = [state EXCEPT ![c] = "READY"]
       /\ pid' = [pid EXCEPT ![c] = IF asThread THEN pid[cpu] ELSE nextPid]
       /\ parent' = [parent EXCEPT ![c] = pid[cpu]]
       /\ thr' = [thr EXCEPT ![c] = asThread]
       /\ wpid' = [wpid EXCEPT ![c] = 0]
       /\ parked' = [parked EXCEPT ![c] =
                       [ctx |-> c, age |-> "latest", pc |-> NoProc]]
  /\ nextPid' = nextPid + 1
  /\ UNCHANGED <<cur, uframe, mainReq, trsp, tidx, cpu, mainpc, resumed>>

\* fork runs out of memory after process_alloc_slot() took a pid
ForkFails ==
  /\ InUser
  /\ nextPid <= MaxPid
  /\ \E c \in ProcSlots : state[c] = "UNUSED"
  /\ nextPid' = nextPid + 1
  /\ UNCHANGED <<state, pid, parent, thr, wpid, parked, cur, uframe, mainReq,
                 trsp, tidx, cpu, mainpc, resumed>>

\* process_find_child(p, target) returns c (target 0: any child)
FindsChild(p, target, c) ==
  First({x \in ProcSlots : /\ state[x] \in {"READY", "RUNNING", "ZOMBIE"}
                       /\ ~thr[x]
                       /\ parent[x] = pid[p]
                       /\ (target # 0 => pid[x] = target)}, c)

\* wait4 on an exited child: report it and release its slot
Wait4Reap ==
  /\ InUser
  /\ \E target \in 0..MaxPid, c \in ProcSlots :
       /\ FindsChild(cpu, target, c)
       /\ state[c] = "ZOMBIE"
       /\ state' = [state EXCEPT ![c] = "UNUSED"]
       /\ parked' = [parked EXCEPT ![c] = NoFrame]
  /\ UNCHANGED <<table, cur, uframe, mainReq, trsp, tidx, cpu, mainpc,
                 resumed>>

\* wait4 on a live child (process_wait_run): park the caller, run the child
Wait4Run ==
  /\ InUser
  /\ \E target \in 0..MaxPid, c \in ProcSlots :
       /\ FindsChild(cpu, target, c)
       /\ state[c] # "ZOMBIE"
       /\ state' = [state EXCEPT ![cpu] = "BLOCKED", ![c] = "RUNNING"]
       /\ wpid' = [wpid EXCEPT ![cpu] = pid[c]]
       /\ cur' = c
       /\ Resume(parked[c], trsp, NoFrame, [parked EXCEPT ![cpu] = Save])
  /\ UNCHANGED <<pid, parent, thr, nextPid, mainReq, tidx>>

\* Mutants: the switch request is not consumed; current_process stays set; the
\* frame parked by the caller is not kept
SoftSwitchAgain(st, W, k) ==
  /\ cur' = NoProc /\ state' = Ready(st, W) /\ tidx' = 0 /\ mainReq' = 1
  /\ Resume(trsp[0], trsp, NoFrame, k)
SoftSwitchKeepsCurrent(st, W, k) ==
  /\ cur' = cur /\ state' = Ready(st, W) /\ tidx' = 0 /\ mainReq' = 0
  /\ Resume(trsp[0], trsp, NoFrame, k)
SoftSwitchUnparked(st, W, k) ==
  /\ cur' = NoProc /\ state' = Ready(st, W) /\ tidx' = 0 /\ mainReq' = 0
  /\ Resume(trsp[0], trsp, NoFrame, parked)

\* int 0x20 with main_switch_requested set, W woken by its timer poll
SoftSwitch(st, W, k) ==
  /\ cur' = NoProc
  /\ state' = Ready(st, W)
  /\ tidx' = 0
  /\ mainReq' = 0
  /\ Resume(trsp[0], trsp, NoFrame, k)

\* wait_block() + park_switch(): another parked process runs, or main
Block ==
  /\ InUser
  /\ LET st == [state EXCEPT ![cpu] = "BLOCKED"]
         k == [parked EXCEPT ![cpu] = Save]
     IN \E q \in ProcSlots \cup {NoProc} :
          /\ Picks(st, cpu, q)
          /\ IF q # NoProc
             THEN /\ state' = [st EXCEPT ![q] = "RUNNING"]
                  /\ cur' = q
                  /\ Resume(parked[q], trsp, NoFrame, k)
                  /\ UNCHANGED <<mainReq, tidx>>
             ELSE \E W \in SUBSET (Queued(state) \cup {cpu}) :
                    SoftSwitch(st, W, k)
  /\ UNCHANGED table

\* wait_wake() by an interrupt handler or by a system call of the running
\* process: q becomes READY, the CPU stays where it is
Wake ==
  /\ \E q \in Queued(state) : state' = Ready(state, {q})
  /\ UNCHANGED <<table, parked, cur, uframe, mainReq, trsp, tidx, cpu,
                 mainpc, resumed>>
----------------------------------------------------------------------------
(* Termination of the running process.                                     *)

\* thread_release: slots of S are freed outright
Release(st, S) == [p \in ProcSlots |-> IF p \in S THEN "UNUSED" ELSE st[p]]
DropFrames(S) == [p \in ProcSlots |-> IF p \in S THEN NoFrame ELSE parked[p]]
DropWaits(S) == [p \in ProcSlots |-> IF p \in S THEN 0 ELSE wpid[p]]

\* the sibling threads exit_group_kill_threads(p) releases
GroupOf(p) == {t \in ProcSlots \ {p} : state[t] # "UNUSED" /\ thr[t]
                                   /\ pid[t] = pid[p]}

\* Mutant: process_find_waiter() looks for a READY parent
FindsReadyWaiter(st, child, q) ==
  First({p \in ProcSlots : st[p] = "READY" /\ ~thr[p] /\ wpid[p] = child}, q)

\* process_find_waiter(child) returns q
FindsWaiter(st, child, q) ==
  First({p \in ProcSlots : st[p] = "BLOCKED" /\ ~thr[p] /\ wpid[p] = child}, q)

\* thread_exit_current: a thread leaves no zombie; W as its futex and file
\* releases wake
ThreadExit ==
  /\ InUser /\ thr[cpu]
  /\ \E W \in SUBSET Queued(state) :
       SoftSwitch(Release(state, {cpu}), W, DropFrames({cpu}))
  /\ wpid' = DropWaits({cpu})
  /\ UNCHANGED <<pid, parent, thr, nextPid>>

\* process_exit of a leader, a failed execve included: a parent parked in
\* wait4 is resumed from here, otherwise main is
Exit ==
  /\ InUser /\ ~thr[cpu]
  /\ LET G == GroupOf(cpu)
         k == DropFrames(G)
     IN \E W \in SUBSET (Queued(state) \ G) :
          LET st == [Ready(Release(state, G), W) EXCEPT ![cpu] = "ZOMBIE"]
          IN /\ \E q \in ProcSlots \cup {NoProc} :
                  /\ FindsWaiter(st, pid[cpu], q)
                  /\ IF q # NoProc
                     THEN /\ state' = [st EXCEPT ![q] = "RUNNING"]
                          /\ wpid' = [DropWaits(G) EXCEPT ![q] = 0]
                          /\ cur' = q
                          /\ Resume(parked[q], trsp, NoFrame, k)
                          /\ UNCHANGED <<mainReq, tidx>>
                     ELSE /\ SoftSwitch(st, {}, k)
                          /\ wpid' = DropWaits(G)
  /\ UNCHANGED <<pid, parent, thr, nextPid>>

\* process_kill_current: a CPU exception in user code.  The main task's frame
\* is returned to the stub directly AND a main switch stays requested.
Fault ==
  /\ Faults /\ InUser
  /\ LET G == IF thr[cpu] THEN {cpu} ELSE GroupOf(cpu)
     IN /\ \E W \in SUBSET (Queued(state) \ G) :
             LET st == Ready(Release(state, G), W)
             IN state' = IF thr[cpu] THEN st
                         ELSE [st EXCEPT ![cpu] = "ZOMBIE"]
        /\ wpid' = DropWaits(G)
        /\ Resume(trsp[0], trsp, uframe, DropFrames(G))
  /\ cur' = NoProc
  /\ mainReq' = 1
  /\ tidx' = 0
  /\ UNCHANGED <<pid, parent, thr, nextPid>>
----------------------------------------------------------------------------
Next ==
  \/ Tick
  \/ LoadProgram \/ LoadFails \/ RunProgram
  \/ Fork(FALSE) \/ (Threads /\ Fork(TRUE)) \/ ForkFails
  \/ Wait4Reap \/ Wait4Run
  \/ Block \/ Wake
  \/ ThreadExit \/ Exit \/ Fault

Spec == Init /\ [][Next]_vars

----------------------------------------------------------------------------
(* Properties                                                              *)

TypeOK ==
  /\ state \in [ProcSlots -> States]
  /\ pid \in [ProcSlots -> 0..MaxPid]
  /\ parent \in [ProcSlots -> 0..MaxPid]
  /\ thr \in [ProcSlots -> BOOLEAN]
  /\ wpid \in [ProcSlots -> 0..MaxPid]
  /\ parked \in [ProcSlots -> Frame]
  /\ nextPid \in 1..(MaxPid + 1)
  /\ cur \in ProcSlots \cup {NoProc}
  /\ uframe \in Frame
  /\ mainReq \in {0, 1}
  /\ trsp \in [Tasks -> Frame]
  /\ tidx \in Tasks
  /\ cpu \in Ctx
  /\ mainpc \in ProcSlots \cup {NoProc}
  /\ resumed \in Frame

IsLatest(f, c) == f.ctx = c /\ f.age = "latest"

\* Every hand-over (tick, exit, wait4, park) restores the latest state of the
\* context it resumes: no frame is restored twice, none is restored after a
\* newer one of the same context was saved.
ResumesLatest == resumed.age = "latest"

\* current_process names the one RUNNING process, whatever path changed it.
RunningIsCurrent == \A p \in ProcSlots : state[p] = "RUNNING" <=> cur = p

\* No context is ever lost: a process that is not on the CPU has its latest
\* frame exactly where the next hand-over will look for it (user_frame for
\* the current process, parked_rsp for a READY or BLOCKED one; only a program
\* that the shell is about to start has none), and so has every kernel task.
NothingLost ==
  /\ cur # NoProc => cpu = cur \/ IsLatest(uframe, cur)
  /\ \A p \in ProcSlots : state[p] \in {"READY", "BLOCKED"} =>
       \/ IsLatest(parked[p], p)
       \/ state[p] = "READY" /\ parked[p] = NoFrame /\ mainpc = p
  /\ \A i \in Tasks : cpu = i \/ IsLatest(trsp[i], i)

\* A leader parked in wait4 waits for a child that can still exit; a child
\* that terminates never leaves its parent parked for it.
WaiterHasLiveChild ==
  \A p \in ProcSlots : state[p] = "BLOCKED" /\ wpid[p] # 0 /\ ~thr[p] =>
    \E c \in Active(state) : pid[c] = wpid[p] /\ ~thr[c]

\* The shell's prompt is usable again only once no process is left that could
\* still need the CPU: while the shell loads a program it alone is active.
LaunchIsExclusive == mainpc # NoProc => Active(state) = {mainpc}

============================================================================
