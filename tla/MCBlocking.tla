----------------------------- MODULE MCBlocking -----------------------------
(***************************************************************************)
(* Those who wait, for TLC: the wait queues (WaitQueue), the futexes       *)
(* (Futex), the reader of the console with the keyboards and the mouse it  *)
(* waits for and the editor (Input), and the desktop (Desktop).  `part`    *)
(* says which of them a behaviour is about; the others do not move.        *)
(***************************************************************************)
EXTENDS WaitQueue, TLC

CONSTANTS p1, p2, p3,        \* threads of one process
          a1, a2, a3, lk,    \* their clear_child_tid words; a lock word
          w1, w2, w3, m1

VARIABLES part, word, fst, on, obj, alloc, chain, ftimer,
    down, wire, drv, buf, khead, ktail, count, line, lines, typed, got, mixed, lost, presses, handovers,
    ctl, ptr, ed, text, file, pressed,
    desk, screen, wm_modal_was, drag, stale, moves, left

futexVars == <<word, fst, on, obj, alloc, chain, ftimer>>

keyVars == <<down, wire, drv, buf, khead, ktail, count, line, lines, typed, got, mixed, lost, presses, handovers>>
editVars == <<ed, text, file, pressed>>
deskVars == <<desk, screen, wm_modal_was, drag, stale, moves, left>>
userVars == <<keyVars, ctl, ptr, editVars, deskVars>>

OneSpace == [p \in Procs |-> m1]
OwnTid == p1 :> a1 @@ p2 :> a2 @@ p3 :> a3

\* one timer for three threads, two waiter objects
Timed == INSTANCE Futex WITH
    mm <- OneSpace, ctid <- OwnTid, Locks <- {lk}, Objs <- {w1, w2},
    NTimer <- 1, Timeouts <- {0, 1}, Kills <- FALSE,
    st <- fst, timer <- ftimer

\* joins and exits, a waiter object for every thread
Joins == INSTANCE Futex WITH
    mm <- OneSpace, ctid <- OwnTid, Locks <- {lk}, Objs <- {w1, w2, w3},
    NTimer <- 1, Timeouts <- {0}, Kills <- FALSE,
    st <- fst, timer <- ftimer

\* A ring of two characters, lines of three, a screen twice as wide as the cursor; in the
\* editor three lines of two characters
User == INSTANCE Input WITH
    Cap <- 2, LineMax <- 3, Presses <- 3, Handovers <- 2, Strays <- 1, GfxW <- 4, CursorW <- 2,
    Unit <- 2, Moves <- 5, head <- khead, tail <- ktail,
    MaxLines <- 3, MaxLen <- 2, Chars <- {"a", "b"}, Rows <- 2, KeyBound <- 7

\* A screen of 4 x 5 cells, of which the taskbar is the last row: Apps on the left, the
\* shell above the log on the right, the start menu over Apps and a dialog over all
Rect(x, y, w, h) == [x |-> x, y |-> y, w |-> w, h |-> h]
Halves == "apps" :> Rect(0, 0, 2, 4) @@ "shell" :> Rect(2, 0, 2, 2) @@ "klog" :> Rect(2, 2, 2, 2)

\* Windows that are moved, covered, closed and opened
Panes == INSTANCE Desktop WITH
    DtW <- 4, DtH <- 5, TaskbarH <- 1, Shadow <- 1, TitleH <- 1, Layout <- Halves,
    MenuRect <- Rect(0, 2, 1, 1), DialogRect <- Rect(1, 1, 2, 2), Funcs <- <<"system">>,
    Points <- {<<0, 0>>, <<3, 0>>, <<2, 1>>, <<0, 2>>, <<2, 2>>, <<1, 3>>, <<0, 4>>},
    MaxMoves <- 2, MaxLeft <- 1, d <- desk

\* The dialogs of the panels, and windows that are covered, closed and opened
Dialogs == INSTANCE Desktop WITH
    DtW <- 4, DtH <- 5, TaskbarH <- 1, Shadow <- 1, TitleH <- 1, Layout <- Halves,
    MenuRect <- Rect(0, 2, 1, 1), DialogRect <- Rect(1, 1, 2, 2), Funcs <- <<"editor", "files">>,
    Points <- {<<0, 0>>, <<1, 0>>, <<2, 1>>, <<0, 2>>, <<0, 4>>},
    MaxMoves <- 0, MaxLeft <- 1, d <- desk

NoDesk == /\ desk = 0 /\ screen = 0 /\ wm_modal_was = 0 /\ drag = 0 /\ stale = 0
          /\ moves = 0 /\ left = 0
NoKeys == /\ down = 0 /\ wire = 0 /\ drv = 0 /\ buf = 0 /\ khead = 0 /\ ktail = 0 /\ count = 0
          /\ line = 0 /\ lines = 0 /\ typed = 0 /\ got = 0 /\ mixed = 0 /\ lost = 0
          /\ presses = 0 /\ handovers = 0

BlockingInit ==
    /\ Init
    /\ part \in {"queues", "timed", "joins", "keys", "8042", "pointer", "editor", "panes", "dialogs"}
    /\ IF part = "joins" THEN Joins!Init ELSE Timed!Init
    /\ IF part = "keys" THEN User!KeyInit ELSE NoKeys
    /\ IF part = "8042" THEN User!CtlInit ELSE ctl = 0
    /\ IF part = "pointer" THEN User!PtrInit ELSE ptr = 0
    /\ IF part = "editor" THEN User!EditInit ELSE ed = 0 /\ text = 0 /\ file = 0 /\ pressed = 0
    /\ IF part = "panes" THEN Panes!Init ELSE IF part = "dialogs" THEN Dialogs!Init ELSE NoDesk

Queueing == part = "queues" /\ Next /\ UNCHANGED <<part, futexVars, userVars>>
TimedWaits == part = "timed" /\ Timed!Next /\ UNCHANGED <<part, vars, userVars>>
JoinsAndExits == part = "joins" /\ Joins!Next /\ UNCHANGED <<part, vars, userVars>>

Typing ==
    /\ \/ part = "keys" /\ User!KeyNext
       \/ part = "8042" /\ User!CtlNext
       \/ part = "pointer" /\ User!PtrNext
    /\ UNCHANGED <<part, vars, futexVars, editVars, deskVars>>
Editing == /\ part = "editor" /\ User!EditNext
           /\ UNCHANGED <<part, vars, futexVars, keyVars, ctl, ptr, deskVars>>
Windowing == /\ \/ part = "panes" /\ Panes!Next
                \/ part = "dialogs" /\ Dialogs!Next
             /\ UNCHANGED <<part, vars, futexVars, keyVars, ctl, ptr, editVars>>

BlockingNext == Queueing \/ TimedWaits \/ JoinsAndExits \/ Typing \/ Editing \/ Windowing

BlockingSpec == BlockingInit /\ [][BlockingNext]_<<part, vars, futexVars, userVars>>
-----------------------------------------------------------------------------
(* Properties. *)

\* wait.c: the singly linked lists are well formed, a process is BLOCKED exactly while
\* it is on one of them, and one that sleeps has a timer.  syscall_lnx.c: the hash
\* chain holds exactly the waiter objects that are in use, and a thread that waits is
\* on the chain of the word it waits for, so that a wake-up of that word finds it,
\* also after timeouts and wake-ups in any order; no thread waits for the exit of one
\* that is gone.
WaitersSound ==
  CASE part = "queues" -> TypeOK /\ ListsWellFormed /\ BlockedIffQueued /\ EverySleeperHasTimer
    [] part = "timed" -> Timed!ChainIsAlloc /\ Timed!WaiterReachable
    [] part = "joins" -> Joins!TypeOK /\ Joins!JoinerWoken
    [] OTHER -> TRUE

\* The pointer structure of wait.c implements first-in first-out queues:
\* waiters are served in the order in which they blocked, and exactly the
\* served ones become READY.
ServesInOrder == Fifo!FifoInit /\ [][part = "queues" => Fifo!FifoNext]_vars

\* What is typed on the keyboard that owns the console arrives once, in order and as it
\* was meant; a line read is what was typed between two Enters, edited; the boot leaves
\* the keyboard with its interrupt on; and the pointer stays on the screen, goes where
\* it was moved, and leaves the pixels below it as the kernel drew them.  The editor's
\* text is what the keys mean, also after it was saved and opened again.  The desktop
\* shows what a full repaint would show although each handler repaints only a part,
\* except for the cells that some are known to leave, and no window leaves the screen.
InputExact ==
  /\ part = "keys" => User!KeysExact /\ User!LinesWhole
  /\ part = "8042" => User!KeyboardArmed
  /\ part = "pointer" => User!PointerSound
  /\ part = "editor" => User!TextExact
  /\ part = "panes" => Panes!TypeOK /\ Panes!ScreenExact /\ Panes!WithinScreen
  /\ part = "dialogs" => Dialogs!TypeOK /\ Dialogs!ScreenExact
=============================================================================
