------------------------------ MODULE FifoWait ------------------------------
(***************************************************************************)
(* What a wait queue promises: the processes blocked on it are served in   *)
(* the order in which they blocked, and exactly the served ones become     *)
(* READY.                                                                  *)
(***************************************************************************)
EXTENDS Naturals, Sequences, Functions

CONSTANTS Procs, Queues

VARIABLES st,     \* state of each process
          queue   \* the waiters of each queue, oldest first

fifoVars == <<st, queue>>

FifoInit ==
  /\ st \in [Procs -> {"READY", "UNUSED"}]
  /\ queue = [q \in Queues |-> <<>>]

\* A READY process joins the end of one queue
Park(p, q) ==
  /\ st[p] = "READY"
  /\ st' = [st EXCEPT ![p] = "BLOCKED"]
  /\ queue' = [queue EXCEPT ![q] = Append(@, p)]

\* A wake-up or an interrupt serves the first waiters of the queues: what is
\* left of a queue is a suffix of it
Serve ==
  \E before \in {queue}, after \in {queue'} :
    /\ \A q \in Queues :
         /\ Len(after[q]) <= Len(before[q])
         /\ after[q] = SubSeq(before[q], Len(before[q]) - Len(after[q]) + 1, Len(before[q]))
    /\ st' = [p \in Procs |->
                IF \E q \in Queues : p \in Range(before[q]) \ Range(after[q])
                THEN "READY" ELSE st[p]]

\* Processes come and go only while they wait for nothing
ComeOrGo(p) ==
  /\ st[p] # "BLOCKED"
  /\ st' = [st EXCEPT ![p] = IF st[p] = "READY" THEN "UNUSED" ELSE "READY"]
  /\ UNCHANGED queue

FifoNext ==
  \/ \E p \in Procs, q \in Queues : Park(p, q)
  \/ Serve
  \/ \E p \in Procs : ComeOrGo(p)

FifoSpec == FifoInit /\ [][FifoNext]_fifoVars
=============================================================================
