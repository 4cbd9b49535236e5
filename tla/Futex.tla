------------------------------- MODULE Futex -------------------------------
(***************************************************************************)
(* The futex calls of core/syscall_lnx.c: waiter objects from the heap,    *)
(* the chain they hang in, the private wait queue of each, the timers that *)
(* point into them, and thread exit, which clears the word a joiner waits  *)
(* on (CLONE_CHILD_CLEARTID) and wakes it.                                 *)
(*                                                                         *)
(* All addresses fall in one hash bucket, the worst case.  The heap hands  *)
(* out any free object; a freed one keeps its contents until then, which   *)
(* is what a timer still pointing into it reads.                           *)
(***************************************************************************)
EXTENDS Integers, Sequences, FiniteSets, SequencesExt

CONSTANTS Procs,       \* thread slots
          mm,          \* the address space of a thread
          ctid,        \* process_t.clear_child_tid of a thread
          Locks,       \* addresses of other futex words, never 0
          Objs,        \* memory blocks that can hold a futex_waiter_t
          Nil,
          NTimer,      \* WAIT_TIMERS
          Timeouts,    \* timeouts that callers pass, in ticks; 0 is none
          Kills        \* does exit_group release threads that are blocked?

Addrs == Locks \cup {ctid[p] : p \in Procs}
Spaces == {mm[p] : p \in Procs}
Timers == 1..NTimer
LongestTimeout == CHOOSE t \in Timeouts : \A u \in Timeouts : u <= t

VARIABLES
  word,   \* the user words, by address space and address: 1 while the thread lives
  st,     \* process_t.state
  on,     \* what a blocked thread is parked for: a waiter object or "other"
  obj,    \* contents of the blocks: uaddr, proc and wq (at most one process)
  alloc,  \* blocks in use
  chain,  \* futex_tab[h], newest first
  timer   \* timers[]: used, time left, the block wq points into, its owner

vars == <<word, st, on, obj, alloc, chain, timer>>

Blank == [uaddr |-> Nil, proc |-> Nil, wq |-> Nil]

Init ==
  /\ word = [m \in Spaces |-> [a \in Addrs |-> 1]]
  /\ st = [p \in Procs |-> "READY"]
  /\ on = [p \in Procs |-> Nil]
  /\ obj = [w \in Objs |-> Blank]
  /\ alloc = {}
  /\ chain = <<>>
  /\ timer = [i \in Timers |-> [used |-> 0, left |-> 0, wq |-> Nil, owner |-> Nil]]
----------------------------------------------------------------------------
(* FUTEX_WAIT.                                                             *)

FreeTimers == {i \in Timers : timer[i].used = 0}

\* What user programs do: any thread waits on a lock word; a tid word is waited
\* on by one thread, not its own, that joins it
MayWait(p, a) ==
  \/ a \in Locks
  \/ /\ a # ctid[p]
     /\ \A q \in Procs : (st[q] = "BLOCKED" /\ on[q] \in Objs /\ mm[q] = mm[p])
                           => obj[on[q]].uaddr # a

\* futex_wait(): the other returns (EAGAIN, no memory, no timer left) change
\* nothing
Wait(p, a, val, t) ==
  /\ st[p] = "READY"
  /\ word[mm[p]][a] = val
  /\ t > 0 => FreeTimers # {}
  /\ \E w \in Objs \ alloc :
       /\ obj' = [obj EXCEPT ![w] = [uaddr |-> a, proc |-> p, wq |-> p]]
       /\ alloc' = alloc \cup {w}
       /\ chain' = <<w>> \o chain
       /\ on' = [on EXCEPT ![p] = w]
       /\ st' = [st EXCEPT ![p] = "BLOCKED"]
       /\ IF t = 0 THEN UNCHANGED timer
          ELSE LET i == CHOOSE i \in FreeTimers : \A j \in FreeTimers : i <= j
               IN timer' = [timer EXCEPT ![i] =
                              [used |-> 1, left |-> t, wq |-> w, owner |-> p]]
  /\ UNCHANGED word
----------------------------------------------------------------------------
(* FUTEX_WAKE.  The loop passes on a record of the state it changes.       *)

F == [st |-> st, on |-> on, obj |-> obj, alloc |-> alloc, chain |-> chain,
      ret |-> 0]
SetF(f) == /\ st' = f.st /\ on' = f.on /\ obj' = f.obj
           /\ alloc' = f.alloc /\ chain' = f.chain

\* wait_wake_status(), or wait_timers_poll() for one timer, on the private
\* queue of w: its process is woken if it is BLOCKED
WakeOn(f, w) ==
  LET p == f.obj[w].wq
  IN IF p # Nil /\ f.st[p] = "BLOCKED"
     THEN [f EXCEPT !.st[p] = "READY", !.on[p] = Nil, !.obj[w].wq = Nil]
     ELSE f

\* wait_wake_status() pops the processes that it does not wake
Popped(f, w) == [WakeOn(f, w) EXCEPT !.obj[w].wq = Nil]

Freed(f, w) == [f EXCEPT !.chain = SelectSeq(@, LAMBDA v : v # w),
                         !.alloc = @ \ {w}]

VisitDrops(f, w, a, n) ==
  IF f.obj[w].uaddr # a THEN f
  ELSE IF f.st[f.obj[w].proc] = "BLOCKED"
       THEN IF n >= 0 /\ f.ret >= n THEN Freed(f, w)
            ELSE [Freed(Popped(f, w), w) EXCEPT !.ret = @ + 1]
       ELSE Freed(f, w)

\* The loop body of futex_wake_user() for waiter w
Visit(f, w, a, n) ==
  IF f.obj[w].uaddr # a THEN f
  ELSE IF f.st[f.obj[w].proc] = "BLOCKED"
       THEN IF n >= 0 /\ f.ret >= n THEN f
            ELSE [Freed(Popped(f, w), w) EXCEPT !.ret = @ + 1]
       ELSE Freed(f, w)

\* futex_wake_user(): a is a user address, whichever address space it is of
WakeUser(f, a, n) == FoldLeft(LAMBDA g, w : Visit(g, w, a, n), f, f.chain)

\* sc_futex(FUTEX_WAKE): n < 0 is no limit
Wake(p, a, n) ==
  /\ st[p] = "READY"
  /\ \E f \in {WakeUser(F, a, n)} : SetF(f)
  /\ UNCHANGED <<word, timer>>
----------------------------------------------------------------------------
(* Threads and time.                                                       *)

\* thread_release(): clears the thread's tid word, wakes one waiter on it and
\* frees the slot; the waiter object of a blocked thread stays behind
ThreadRelease(p) ==
  /\ word' = [word EXCEPT ![mm[p]][ctid[p]] = 0]
  /\ \E f \in {WakeUser(F, ctid[p], 1)} : SetF([f EXCEPT !.st[p] = "UNUSED"])
  /\ UNCHANGED timer

\* exit of a running thread, or exit_group releasing a blocked one
ThreadExit(p) ==
  /\ \/ st[p] = "READY"
     \/ Kills /\ st[p] = "BLOCKED"
  /\ ThreadRelease(p)

\* process_clone() takes the slot and libc sets the tid word again
Clone(p) ==
  /\ st[p] = "UNUSED"
  /\ st' = [st EXCEPT ![p] = "READY"]
  /\ on' = [on EXCEPT ![p] = Nil]
  /\ word' = [word EXCEPT ![mm[p]][ctid[p]] = 1]
  /\ UNCHANGED <<obj, alloc, chain, timer>>

\* The thread blocks in another call (wait_block), and is woken from it
BlockElsewhere(p) ==
  /\ st[p] = "READY"
  /\ st' = [st EXCEPT ![p] = "BLOCKED"]
  /\ on' = [on EXCEPT ![p] = "other"]
  /\ UNCHANGED <<word, obj, alloc, chain, timer>>
WokenElsewhere(p) ==
  /\ st[p] = "BLOCKED" /\ on[p] = "other"
  /\ st' = [st EXCEPT ![p] = "READY"]
  /\ on' = [on EXCEPT ![p] = Nil]
  /\ UNCHANGED <<word, obj, alloc, chain, timer>>

Due(i) == timer[i].used = 1 /\ timer[i].left <= 1

\* Mutant: an expired timer is started again instead of waking its waiter
TickRearms ==
  /\ \E i \in Timers : timer[i].used = 1
  /\ timer' = [i \in Timers |->
                 [timer[i] EXCEPT !.left = IF @ <= 1 THEN LongestTimeout ELSE @ - 1]]
  /\ UNCHANGED <<word, st, on, obj, alloc, chain>>

\* IRQ0: wait_timers_poll() goes through the timers in order
Tick ==
  /\ \E i \in Timers : timer[i].used = 1
  /\ timer' = [i \in Timers |->
                 IF Due(i) THEN [timer[i] EXCEPT !.used = 0, !.left = 0]
                 ELSE [timer[i] EXCEPT !.left = IF @ = 0 THEN 0 ELSE @ - 1]]
  /\ \E f \in {FoldLeft(LAMBDA g, i : IF Due(i) THEN WakeOn(g, timer[i].wq) ELSE g,
                        F, [i \in Timers |-> i])} : SetF(f)
  /\ UNCHANGED word

Next ==
  \/ \E p \in Procs, a \in Addrs : \/ \E t \in Timeouts : MayWait(p, a) /\ Wait(p, a, 1, t)
                                   \/ \E n \in {1, -1} : Wake(p, a, n)
  \/ \E p \in Procs : \/ ThreadExit(p) \/ Clone(p)
                      \/ BlockElsewhere(p) \/ WokenElsewhere(p)
  \/ Tick

Spec == Init /\ [][Next]_vars
----------------------------------------------------------------------------
(* Properties                                                              *)

TypeOK ==
  /\ word \in [Spaces -> [Addrs -> {0, 1}]]
  /\ st \in [Procs -> {"READY", "BLOCKED", "UNUSED"}]
  /\ on \in [Procs -> Objs \cup {Nil, "other"}]
  /\ obj \in [Objs -> [uaddr : Addrs \cup {Nil}, proc : Procs \cup {Nil},
                       wq : Procs \cup {Nil}]]
  /\ alloc \subseteq Objs
  /\ chain \in Seq(Objs)
  /\ timer \in [Timers -> [used : {0, 1}, left : 0..LongestTimeout,
                           wq : Objs \cup {Nil}, owner : Procs \cup {Nil}]]

\* The chain holds every waiter object in use once and no freed one: WAKE
\* neither leaks a waiter nor leaves a freed one behind for the next walk.
ChainIsAlloc == IsInjective(chain) /\ ToSet(chain) = alloc

\* A thread blocked in futex_wait() is found through the chain, on the private
\* queue of an object that names it, however its timers and the reaping of
\* stale waiters interleave.
WaiterReachable ==
  \A p \in Procs : (st[p] = "BLOCKED" /\ on[p] # "other") =>
    /\ on[p] \in ToSet(chain)
    /\ obj[on[p]].proc = p /\ obj[on[p]].wq = p

\* No thread stays blocked joining a thread that has exited: thread exit
\* un-parks the joiner of that address space and address.
JoinerWoken ==
  \A p, q \in Procs :
    (st[p] = "BLOCKED" /\ on[p] # "other" /\ obj[on[p]].uaddr = ctid[q] /\ mm[p] = mm[q])
      => word[mm[q]][ctid[q]] = 1

\* A wait with a timeout ends.
TimedWaitReturns ==
  \A p \in Procs, i \in Timers :
    (timer[i].used = 1 /\ timer[i].owner = p /\ st[p] = "BLOCKED" /\ on[p] = timer[i].wq)
      ~> (st[p] # "BLOCKED")
============================================================================
