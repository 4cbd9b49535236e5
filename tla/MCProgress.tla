----------------------------- MODULE MCProgress -----------------------------
(***************************************************************************)
(* What must eventually happen, for TLC: sleepers wake, timed futex waits  *)
(* return, a TFTP download ends, a receive ring is drained, the main task  *)
(* gets the CPU, a USB device that is plugged in is run.  `part` says      *)
(* which component a behaviour is about; the others stay in their initial  *)
(* states.                                                                 *)
(***************************************************************************)
EXTENDS WaitQueue, TLC

CONSTANTS p1, p2, p3, a1, a2, a3, w1, w2, m1

VARIABLES part,
    word, fst, on, obj, alloc, chain, ftimer,
    tpc, rc, attempt, timeouts, expected, tid, blocks, trx, tremote, pkt,
    toClient, toServer, cur, resends, strays,
    own, nbuf, ncur, nic, npc, frame, wire, filled, ok,
    rown, rbuf, rcur, rnic, n, arrived, lost, up,
    state, pid, parent, thr, wpid, parked, nextPid, proc, uframe, mainReq,
    trsp, tidx, cpu, mainpc, resumed,
    world, dev, ignored, td, bound, ps2, silent, at, left, plugs, faults

futexVars == <<word, fst, on, obj, alloc, chain, ftimer>>
tftpVars == <<tpc, rc, attempt, timeouts, expected, tid, blocks, trx, tremote, pkt,
              toClient, toServer, cur, resends, strays>>
nicVars == <<own, nbuf, ncur, nic, npc, frame, wire, filled, ok,
             rown, rbuf, rcur, rnic, n, arrived, lost, up>>
schedVars == <<state, pid, parent, thr, wpid, parked, nextPid, proc, uframe, mainReq,
               trsp, tidx, cpu, mainpc, resumed>>
usbVars == <<world, dev, ignored, td, bound, ps2, silent, at, left, plugs, faults>>

\* processes that fork, make threads, block and take exceptions
Cpu == INSTANCE Sched WITH
    NProc <- 3, NTask <- 2, MaxPid <- 3, Faults <- TRUE, Threads <- TRUE, cur <- proc

\* two threads, of which exit_group may release one that is blocked
Fut == INSTANCE Futex WITH
    Procs <- {p1, p2}, mm <- (p1 :> m1 @@ p2 :> m1), ctid <- (p1 :> a1 @@ p2 :> a2),
    Locks <- {}, Objs <- {w1, w2}, NTimer <- 1, Timeouts <- {0, 2}, Kills <- TRUE,
    st <- fst, timer <- ftimer

\* a server that repeats one block
Download == INSTANCE Tftp WITH
    NBlocks <- 2, M <- 16, Attempts <- 2, Tids <- 2, Resends <- 1, Cap <- 2,
    Dup <- FALSE, Strays <- 0

\* more frames than descriptors, and than one poll takes
Nic == INSTANCE Rtl8111 WITH
    NTx <- 1, NRx <- 3, Sends <- 1, Arrivals <- 5, Budget <- 2,
    buf <- nbuf, cur <- ncur, pc <- npc

\* two ports, keyboards that are exchanged between two polls, and mute ones
Bus == INSTANCE Usb WITH
    NSlots <- 2, NPorts <- 0, Probes <- 2, MaxPlugs <- 3, MaxFaults <- 0, Swaps <- TRUE,
    Kinds <- {"kbd", "mute"}

all == <<part, vars, futexVars, tftpVars, nicVars, schedVars, usbVars>>

ProgressInit ==
    /\ part \in {"sleep", "futex", "tftp", "nic", "cpu", "usb"}
    /\ Init /\ Fut!Init /\ Download!TftpInit /\ Nic!Init /\ Cpu!Init /\ Bus!Init

Sleeping == part = "sleep" /\ Next /\ UNCHANGED <<part, futexVars, tftpVars, nicVars, schedVars, usbVars>>
Waiting == part = "futex" /\ Fut!Next /\ UNCHANGED <<part, vars, tftpVars, nicVars, schedVars, usbVars>>
Loading == part = "tftp" /\ Download!TftpNext /\ UNCHANGED <<part, vars, futexVars, nicVars, schedVars, usbVars>>
Receiving == part = "nic" /\ Nic!Next /\ UNCHANGED <<part, vars, futexVars, tftpVars, schedVars, usbVars>>
Running == part = "cpu" /\ Cpu!Next /\ UNCHANGED <<part, vars, futexVars, tftpVars, nicVars, usbVars>>

Plugging == part = "usb" /\ Bus!Next /\ UNCHANGED <<part, vars, futexVars, tftpVars, nicVars, schedVars>>

ProgressNext == Sleeping \/ Waiting \/ Loading \/ Receiving \/ Running \/ Plugging

\* IRQ0 keeps firing; the shell's download is never suspended for good; the
\* NIC is polled, and a poll under way goes on; the USB controller goes through
\* its schedule
ProgressSpec ==
    /\ ProgressInit /\ [][ProgressNext]_all
    /\ WF_vars(part = "sleep" /\ Tick)
    /\ WF_futexVars(part = "futex" /\ Fut!Tick)
    /\ WF_tftpVars(part = "tftp" /\ Download!Client)
    /\ WF_nicVars(part = "nic" /\ (Nic!Poll \/ Nic!Take \/ Nic!PollEnd))
    /\ WF_schedVars(part = "cpu" /\ Cpu!Tick)
    /\ WF_nicVars(part = "nic" /\ (Nic!Sent \/ Nic!TxTimeout \/ Nic!Fill \/ Nic!Stuck))
    /\ WF_usbVars(part = "usb" /\ Bus!TickStep)
    /\ \A s \in Bus!Slots : /\ WF_usbVars(part = "usb" /\ Bus!Transaction(s))
                            /\ SF_usbVars(part = "usb" /\ Bus!Service(s))
-----------------------------------------------------------------------------
(* Properties. *)

\* A wait with a timeout ends.  Every sleeper wakes up, though there are fewer
\* timers than processes; the timer that points into a futex waiter's object wakes
\* its thread, also when other threads exit, time out or are released while
\* blocked (wait.c, wait_timers_poll; syscall_lnx.c, futex_wait).
TimedWaitsEnd == SleepersWake /\ Fut!TimedWaitReturns

\* tftp_download returns, whatever the server does: the re-request and the
\* re-ACK paths are bounded ("an unbounded loop here used to hang the shell
\* forever when the server stopped sending").
DownloadEnds == (part = "tftp") ~> Download!Returned

\* A frame in the ring is not left there: the polls reach it, also when more
\* frames wait than one poll takes (rtl8111_rx_poll).
Drained == Nic!Drained

\* The kernel main task gets the CPU again and again, however the processes
\* block, wake, die of exceptions and hand the CPU to each other
\* (scheduler_tick, process_kill_current).
MainKeepsRunning == (part = "cpu") => []<>(cpu = 0)

\* The console never stays with a USB keyboard that is gone or says nothing ("silenced
\* the only working keyboard"), and a device exchanged for another between two polls
\* is noticed by its pipe: in the end each that stays is run at its own address
\* (usb_hid_probe_tick, int_td_service, usb_tick).
ConsoleReturns == Bus!ConsoleComesBack /\ Bus!PluggedIsRun
=============================================================================
