----------------------------- MODULE WaitQueue -----------------------------
(***************************************************************************)
(* The wait queues of sched/wait.c at the level of their pointers, the     *)
(* pool of one-shot timers, and the system calls that block on the global  *)
(* queues: nanosleep (g_sleep_wq), poll (g_poll_wq) and socket reads       *)
(* (g_net_wq).                                                             *)
(*                                                                         *)
(* Interrupts are off in every operation, so each is one action.  READY    *)
(* stands for READY or RUNNING: which process runs next is Sched's matter. *)
(* Time is relative: a timer or a deadline counts down to 0.               *)
(***************************************************************************)
EXTENDS Integers, Sequences, FiniteSets, Functions

CONSTANTS Procs,       \* process slots
          Nil,         \* the NULL pointer
          NTimer,      \* WAIT_TIMERS
          MaxTimeout,  \* longest timeout a caller passes, in ticks
          Callers      \* which blocking calls the processes make

ASSUME WaitAssumption ==
  /\ Nil \notin Procs
  /\ NTimer \in Nat
  /\ MaxTimeout \in Nat \ {0}
  /\ Callers \subseteq {"sleep", "poll", "pollforever", "net"}

Queues == {"sleep", "poll", "net"}
Timers == 1..NTimer
Unset == -1
Idle == [op |-> "none", t |-> 0]
Calls == [op : Callers \cup {"none"}, t : 0..MaxTimeout]

VARIABLES
  st,      \* process_t.state
  next,    \* process_t.wait_next
  head,    \* wait_queue_t.head
  tail,    \* wait_queue_t.tail
  timer,   \* timers[]: the queue, the time left and a used mark
  call,    \* the system call a process is in, and its timeout
  scratch, \* process_t.block_scratch: the poll deadline, Unset for 0
  avail    \* 1: the socket that a process reads and polls has data or EOF

vars == <<st, next, head, tail, timer, call, scratch, avail>>

\* The queue structure, as a value that the loops below pass along
Q == [st |-> st, next |-> next, head |-> head, tail |-> tail, call |-> call]
SetQ(w) == /\ st' = w.st /\ next' = w.next /\ head' = w.head
           /\ tail' = w.tail /\ call' = w.call

Init ==
  /\ st = [p \in Procs |-> "READY"]
  /\ next = [p \in Procs |-> Nil]
  /\ head = [q \in Queues |-> Nil]
  /\ tail = [q \in Queues |-> Nil]
  /\ timer = [i \in Timers |-> [used |-> 0, left |-> 0, wq |-> "sleep"]]
  /\ call = [p \in Procs |-> Idle]
  /\ scratch = [p \in Procs |-> Unset]
  /\ avail = [p \in Procs |-> 0]
----------------------------------------------------------------------------
(* The list operations.                                                    *)

PushFront(w, q, p) ==
  [w EXCEPT !.next[p] = w.head[q], !.head[q] = p,
            !.tail[q] = IF @ = Nil THEN p ELSE @]

\* wq_push()
Push(w, q, p) ==
  IF w.tail[q] = Nil
  THEN [w EXCEPT !.next[p] = Nil, !.head[q] = p, !.tail[q] = p]
  ELSE [w EXCEPT !.next = [@ EXCEPT ![p] = Nil, ![w.tail[q]] = p],
                 !.tail[q] = p]

\* wq_pop(), the queue not being empty
Pop(w, q) ==
  LET p == w.head[q]
  IN [w EXCEPT !.head[q] = w.next[p],
               !.tail[q] = IF w.next[p] = Nil THEN Nil ELSE @,
               !.next[p] = Nil]

\* The processes met by following wait_next from p, at most n of them
RECURSIVE Walk(_, _, _)
Walk(w, p, n) == IF p = Nil \/ n = 0 THEN <<>>
                 ELSE <<p>> \o Walk(w, w.next[p], n - 1)

\* One step more than there are processes shows a cycle
Chain(w, q) == Walk(w, w.head[q], Cardinality(Procs) + 1)

\* wq_unlink(): p is on the queue
Unlink(w, q, p) ==
  LET c == Chain(w, q)
      i == CHOOSE i \in DOMAIN c : c[i] = p
      v == IF i = 1 THEN [w EXCEPT !.head[q] = w.next[p]]
                    ELSE [w EXCEPT !.next[c[i - 1]] = w.next[p]]
      d == Chain(v, q)
  IN [v EXCEPT !.tail[q] = IF @ # p THEN @ ELSE
                           IF d = <<>> THEN Nil ELSE d[Len(d)],
               !.next[p] = Nil]

\* wake_locked(): a completed call is over, a restarted one is made again
WakeUp(w, p, kind) ==
  [w EXCEPT !.st[p] = "READY",
            !.call[p] = IF kind = "COMPLETE" THEN Idle ELSE @]

\* wait_wake(): up to max waiters, all of them if max < 0
RECURSIVE WakeMany(_, _, _)
WakeMany(w, q, max) ==
  IF w.head[q] = Nil \/ max = 0 THEN w
  ELSE LET p == w.head[q]
           v == Pop(w, q)
       IN IF w.st[p] = "BLOCKED"
          THEN WakeMany(WakeUp(v, p, "RESTART"), q, max - 1)
          ELSE WakeMany(v, q, max)
----------------------------------------------------------------------------
(* Blocking.                                                               *)

FreeTimers == {i \in Timers : timer[i].used = 0}

\* wait_timer_arm(): the first free timer
Arm(q, t) ==
  LET i == CHOOSE i \in FreeTimers : \A j \in FreeTimers : i <= j
  IN timer' = [timer EXCEPT ![i] = [used |-> 1, left |-> t, wq |-> q]]

\* wait_block() of process p in call c on queue q; t = 0 blocks for ever
WaitBlock(p, c, q, t) ==
  /\ t > 0 => FreeTimers # {}
  /\ IF t = 0 THEN UNCHANGED timer ELSE Arm(q, t)
  /\ LET w == Push(Q, q, p)
     IN SetQ([w EXCEPT !.st[p] = "BLOCKED", !.call[p] = c])

Less(n, t) == IF n <= t THEN 0 ELSE n - t
Counted(d, t) == [p \in Procs |-> IF d[p] = Unset THEN Unset ELSE Less(d[p], t)]
Elapse(t) == timer' = [i \in Timers |-> [timer[i] EXCEPT !.left = Less(@, t)]]

\* wait_block() with the timer pool exhausted spins for the timeout, interrupts
\* off, and returns; the caller then finds its deadline passed (poll) or spins
\* once more itself (nanosleep): t ticks go by in all
Spin(p, t) ==
  /\ FreeTimers = {}
  /\ Elapse(t)
  /\ call' = [call EXCEPT ![p] = Idle]
  /\ scratch' = Counted([scratch EXCEPT ![p] = Unset], t)
  /\ UNCHANGED <<st, next, head, tail, avail>>

Nanosleep(p, t) ==
  /\ st[p] = "READY" /\ call[p] = Idle /\ "sleep" \in Callers
  /\ \/ /\ WaitBlock(p, [op |-> "sleep", t |-> t], "sleep", t)
        /\ UNCHANGED <<avail, scratch>>
     \/ Spin(p, 2 * t)

\* A restarted poll finds data in the socket and reports it
PollReady(p) ==
  /\ st[p] = "READY" /\ call[p].op \in {"poll", "pollforever"}
  /\ avail[p] = 1
  /\ scratch' = [scratch EXCEPT ![p] = Unset]
  /\ call' = [call EXCEPT ![p] = Idle]
  /\ UNCHANGED <<st, next, head, tail, timer, avail>>

\* poll(-1) with nothing ready
PollForever(p) ==
  /\ st[p] = "READY" /\ call[p].op \in {"none", "pollforever"}
  /\ "pollforever" \in Callers
  /\ avail[p] = 0 /\ scratch[p] = Unset
  /\ WaitBlock(p, [op |-> "pollforever", t |-> 0], "poll", 0)
  /\ UNCHANGED <<avail, scratch>>

\* poll(t) with nothing ready, first made or restarted: the deadline is set
\* once and survives the restarts
PollTimed(p, t) ==
  LET c == [op |-> "poll", t |-> t]
      left == IF scratch[p] = Unset THEN t ELSE scratch[p]
  IN /\ st[p] = "READY" /\ call[p] \in {Idle, c} /\ "poll" \in Callers
     /\ avail[p] = 0
     /\ \/ /\ left = 0
           /\ scratch' = [scratch EXCEPT ![p] = Unset]
           /\ call' = [call EXCEPT ![p] = Idle]
           /\ UNCHANGED <<st, next, head, tail, timer, avail>>
        \/ /\ left > 0
           /\ WaitBlock(p, c, "poll", left)
           /\ scratch' = [scratch EXCEPT ![p] = left]
           /\ UNCHANGED avail
        \/ /\ left > 0
           /\ Spin(p, left)

\* A blocking socket read: takes the data, or blocks until woken
Recv(p) ==
  LET c == [op |-> "net", t |-> 0]
  IN /\ st[p] = "READY" /\ call[p] \in {Idle, c} /\ "net" \in Callers
     /\ \/ /\ avail[p] = 1
           /\ avail' = [avail EXCEPT ![p] = 0]
           /\ call' = [call EXCEPT ![p] = Idle]
           /\ UNCHANGED <<st, next, head, tail, timer, scratch>>
        \/ /\ avail[p] = 0
           /\ WaitBlock(p, c, "net", 0)
           /\ UNCHANGED <<avail, scratch>>
----------------------------------------------------------------------------
(* Waking.                                                                 *)

\* A datagram arrives for the empty socket of p (a full one drops it): one
\* waiter of the queue that all sockets share is woken
NetArrives(p) ==
  /\ avail[p] = 0
  /\ avail' = [avail EXCEPT ![p] = 1]
  /\ SetQ(WakeMany(Q, "net", 1))
  /\ UNCHANGED <<timer, scratch>>

\* The peer of the socket of p closes: every waiter is woken
NetCloses(p) ==
  /\ avail' = [avail EXCEPT ![p] = 1]
  /\ SetQ(WakeMany(Q, "net", -1))
  /\ UNCHANGED <<timer, scratch>>

\* The body of wait_timers_poll()'s loop for an expired timer on queue q: the
\* first waiter that is still BLOCKED is woken
Expire(w, q) ==
  LET c == Chain(w, q)
      b == {i \in DOMAIN c : w.st[c[i]] = "BLOCKED"}
  IN IF b = {} THEN w
     ELSE LET p == c[CHOOSE i \in b : \A j \in b : i <= j]
          IN WakeUp(Unlink(w, q, p), p,
                    IF q = "sleep" THEN "COMPLETE" ELSE "RESTART")

\* The loop of wait_timers_poll() from timer i on; v is the outcome of timer i
RECURSIVE Expired(_, _, _)
Expired(w, T, i) ==
  IF i > NTimer THEN w
  ELSE CHOOSE r \in {Expired(v, T, i + 1) :
                       v \in {IF T[i].used = 1 /\ T[i].left = 0
                              THEN Expire(w, T[i].wq) ELSE w}} : TRUE

\* IRQ0: time passes, wait_timers_poll() runs
Tick ==
  /\ LET T == [i \in Timers |-> [timer[i] EXCEPT !.left = Less(@, 1)]]
     IN /\ timer' = [i \in Timers |-> IF T[i].used = 1 /\ T[i].left = 0
                                      THEN [T[i] EXCEPT !.used = 0] ELSE T[i]]
        /\ \E w \in {Expired(Q, T, 1)} : SetQ(w)
  /\ scratch' = Counted(scratch, 1)
  /\ UNCHANGED avail
----------------------------------------------------------------------------
(* Process slots.                                                          *)

\* exit, by a process that is in no call
Gone(p) ==
  /\ st[p] = "READY" /\ call[p] = Idle
  /\ st' = [st EXCEPT ![p] = "UNUSED"]
  /\ UNCHANGED <<next, head, tail, timer, call, scratch, avail>>

\* process_alloc_slot() clears the slot
Reuse(p) ==
  /\ st[p] = "UNUSED"
  /\ st' = [st EXCEPT ![p] = "READY"]
  /\ next' = [next EXCEPT ![p] = Nil]
  /\ call' = [call EXCEPT ![p] = Idle]
  /\ scratch' = [scratch EXCEPT ![p] = Unset]
  /\ avail' = [avail EXCEPT ![p] = 0]
  /\ UNCHANGED <<head, tail, timer>>

Next ==
  \/ \E p \in Procs : \/ \E t \in 1..MaxTimeout : Nanosleep(p, t) \/ PollTimed(p, t)
                      \/ PollReady(p) \/ PollForever(p)
                      \/ Recv(p) \/ NetArrives(p) \/ NetCloses(p)
                      \/ Gone(p) \/ Reuse(p)
  \/ Tick

Spec == Init /\ [][Next]_vars
----------------------------------------------------------------------------
(* Properties                                                              *)

On(q) == Range(Chain(Q, q))

TypeOK ==
  /\ st \in [Procs -> {"READY", "BLOCKED", "UNUSED"}]
  /\ next \in [Procs -> Procs \cup {Nil}]
  /\ head \in [Queues -> Procs \cup {Nil}]
  /\ tail \in [Queues -> Procs \cup {Nil}]
  /\ timer \in [Timers -> [used : {0, 1}, left : 0..MaxTimeout, wq : Queues]]
  /\ call \in [Procs -> Calls]
  /\ scratch \in [Procs -> Unset..MaxTimeout]
  /\ avail \in [Procs -> {0, 1}]

\* Every queue is a proper list: no cycle, the tail is its last element, and
\* no process is on two queues, whatever mix of push, pop and unlink made it.
ListsWellFormed ==
  LET c == [q \in Queues |-> Chain(Q, q)]
  IN /\ \A q \in Queues : /\ Len(c[q]) <= Cardinality(Procs)
                           /\ tail[q] = IF c[q] = <<>> THEN Nil ELSE c[q][Len(c[q])]
     /\ \A q, r \in Queues : q # r => Range(c[q]) \cap Range(c[r]) = {}

\* A process is BLOCKED exactly while some queue holds it, so somebody can
\* still wake it, and nobody else is woken by mistake.
BlockedIffQueued ==
  {p \in Procs : st[p] = "BLOCKED"} = UNION {On(q) : q \in Queues}

\* There is a running timer for every sleeper, although a timer names a queue
\* and not a process.
EverySleeperHasTimer ==
  Cardinality(On("sleep")) <=
    Cardinality({i \in Timers : timer[i].used = 1 /\ timer[i].wq = "sleep"})

\* Every sleeper wakes up.
SleepersWake == \A p \in Procs : (st[p] = "BLOCKED" /\ call[p].op = "sleep")
                                   ~> (st[p] # "BLOCKED")

\* What the pointer structure implements
Fifo == INSTANCE FifoWait WITH queue <- [q \in Queues |-> Chain(Q, q)]
============================================================================
