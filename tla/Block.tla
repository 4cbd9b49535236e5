------------------------------- MODULE Block -------------------------------
(***************************************************************************)
(* The block layer: blkdev_read/blkdev_write and the partition wrapper of  *)
(* the first Linux entry of the MBR (drivers/blkdev.c), AHCI disks that    *)
(* share one transfer window (drivers/ahci.c), and the legacy disk in PIO  *)
(* mode or in memory (drivers/disk.c).                                     *)
(*                                                                         *)
(* A call is a sequence of chunks; the controller works between any two    *)
(* steps of the driver.  `slot` is the command the controller has accepted *)
(* on a port: a driver that gives up waiting does not take it back.  A     *)
(* sector holds a pair <<call, sector of that call>>.                      *)
(***************************************************************************)
EXTENDS Naturals, Sequences, FiniteSets, SequencesExt

CONSTANTS N,            \* sectors of every disk
          W,            \* values of an LBA register: 2^32
          Xfer,         \* XFER_SECTORS
          MinStart,     \* 2048: below it the boot loader lives
          Calls,        \* calls that are made
          MaxFaults     \* errors and timeouts of the hardware

VARIABLES media,    \* the sectors of each disk
          win,      \* data_win
          slot,     \* the command each AHCI port executes, or None
          op,       \* the call under way, or its result
          table,    \* the MBR of sd0: <<[linux, start, count], ...>>
          asked,    \* sectors that accepted writes were about (ghost)
          before,   \* media when the call was made (ghost)
          calls, faults, late,
          hw, boot  \* what the machine has, and how far fs_init() is

callVars == <<media, win, slot, op, table, asked, before, calls, faults, late>>

Ports == {"sd0", "sd1"}
Disks == Ports \cup {"hd0"}
None == <<>>
Old(d) == [s \in 0..(N - 1) |-> <<0, s>>]
Idle == [st |-> "done", rc |-> 0, dev |-> "hd0", lba |-> 0, left |-> 0, buf |-> <<>>, write |-> FALSE,
         n |-> 0, first |-> 0, name |-> "hd0"]

Entry(l, s, c) == [linux |-> l, start |-> s, count |-> c]
Tables == {<<Entry(FALSE, MinStart, 1), Entry(TRUE, MinStart, 2)>>,
           <<Entry(TRUE, MinStart - 1, 2), Entry(TRUE, MinStart + 1, N)>>}

CallInit ==
  /\ media = [d \in Disks |-> Old(d)] /\ win = [i \in 0..(Xfer - 1) |-> None]
  /\ slot = [p \in Ports |-> None] /\ op = Idle /\ table \in Tables
  /\ asked = [d \in Disks |-> {}] /\ before = media
  /\ calls = 0 /\ faults = 0 /\ late = FALSE
-----------------------------------------------------------------------------
(* The checks.                                                             *)

\* No sum that could wrap
InRange(lba, count, sectors) == lba < sectors /\ count <= sectors - lba

\* mbr_first_linux: an entry that would overlay the boot loader is refused
Plausible(e) == e.linux /\ e.count # 0 /\ e.start >= MinStart
Partition == table[CHOOSE k \in DOMAIN table :
                     Plausible(table[k]) /\ \A j \in 1..(k - 1) : ~ Plausible(table[j])]

\* A name of a device is a disk or the partition of sd0
Disk(name) == IF name = "sd0p" THEN "sd0" ELSE name

Accepts(name, lba, count) ==
  /\ count # 0
  /\ name = "sd0p" => InRange(lba, count, Partition.count)
  /\ InRange((lba + IF name = "sd0p" THEN Partition.start ELSE 0) % W, count, N)

Call(name, write, lba, count) ==
  LET base == (lba + IF name = "sd0p" THEN Partition.start ELSE 0) % W
      ok == Accepts(name, lba, count)
  IN /\ op.st = "done" /\ calls < Calls
     /\ calls' = calls + 1 /\ before' = media
     /\ op' = [st |-> IF ok THEN "chunk" ELSE "done", rc |-> IF ok THEN 0 ELSE 1, dev |-> Disk(name),
               lba |-> base, left |-> count, first |-> base, n |-> count, write |-> write, name |-> name,
               buf |-> IF write THEN [i \in 1..count |-> <<calls + 1, i>>] ELSE <<>>]
     /\ asked' = [asked EXCEPT ![Disk(name)] =
                    IF ok /\ write THEN @ \cup {base + i : i \in 0..(count - 1)} ELSE @]
     /\ UNCHANGED <<media, win, slot, table, faults, late>>
-----------------------------------------------------------------------------
(* AHCI: ahci_rw and ahci_do_cmd.                                          *)

Size == IF op.left > Xfer THEN Xfer ELSE op.left
Done == op.n - op.left          \* sectors of earlier chunks

\* The data of a write is put into the window, the table is built and slot 0 is
\* fired; a port that still executes an earlier command ignores it
Issue ==
  /\ op.st = "chunk" /\ op.left > 0 /\ op.dev \in Ports
  /\ win' = [i \in DOMAIN win |-> IF op.write /\ i < Size THEN op.buf[Done + i + 1] ELSE win[i]]
  /\ slot' = [slot EXCEPT ![op.dev] =
                IF @ = None THEN [lba |-> op.lba, n |-> Size, write |-> op.write] ELSE @]
  /\ op' = [op EXCEPT !.st = "wait"]
  /\ UNCHANGED <<media, table, asked, before, calls, faults, late>>

\* The controller moves the first k sectors of the command between window and disk
Stored(d, c, k) == [s \in DOMAIN media[d] |->
                      IF c.write /\ s >= c.lba /\ s < c.lba + k THEN win[s - c.lba] ELSE media[d][s]]
Loaded(d, c, k) == [i \in DOMAIN win |-> IF ~ c.write /\ i < k THEN media[d][c.lba + i] ELSE win[i]]

Finish(p) ==
  /\ slot[p] # None /\ slot' = [slot EXCEPT ![p] = None]
  /\ media' = [media EXCEPT ![p] = Stored(p, slot[p], slot[p].n)]
  /\ win' = Loaded(p, slot[p], slot[p].n)
  /\ UNCHANGED <<op, table, asked, before, calls, faults, late>>

\* The task file error bit, after part of the transfer
TaskFileError(p, k) ==
  /\ slot[p] # None /\ k < slot[p].n /\ faults < MaxFaults /\ op.st = "wait" /\ op.dev = p
  /\ slot' = [slot EXCEPT ![p] = None] /\ faults' = faults + 1
  /\ media' = [media EXCEPT ![p] = Stored(p, slot[p], k)]
  /\ win' = Loaded(p, slot[p], k)
  /\ op' = [op EXCEPT !.st = "done", !.rc = 1]
  /\ UNCHANGED <<table, asked, before, calls, late>>

\* Mutant: the window is copied out before the command has ended
CompletedEarly ==
  /\ op.st = "wait"
  /\ op' = [op EXCEPT !.st = "chunk", !.lba = @ + Size, !.left = @ - Size,
              !.buf = IF op.write THEN @ ELSE @ \o [i \in 1..Size |-> win[i - 1]]]
  /\ UNCHANGED <<media, win, slot, table, asked, before, calls, faults, late>>

\* wait_clear sees PxCI clear
Completed ==
  /\ op.st = "wait" /\ slot[op.dev] = None
  /\ op' = [op EXCEPT !.st = "chunk", !.lba = @ + Size, !.left = @ - Size,
              !.buf = IF op.write THEN @ ELSE @ \o [i \in 1..Size |-> win[i - 1]]]
  /\ UNCHANGED <<media, win, slot, table, asked, before, calls, faults, late>>

\* The deadline passes: the call fails, and the port goes on
TimedOut ==
  /\ op.st = "wait" /\ slot[op.dev] # None /\ faults < MaxFaults
  /\ faults' = faults + 1 /\ late' = TRUE /\ op' = [op EXCEPT !.st = "done", !.rc = 1]
  /\ UNCHANGED <<media, win, slot, table, asked, before, calls>>
-----------------------------------------------------------------------------
(* The legacy disk: sector by sector, in PIO mode or as memory.            *)

Pio == /\ op.st = "chunk" /\ op.left > 0 /\ op.dev = "hd0"
       /\ op' = [op EXCEPT !.lba = @ + 1, !.left = @ - 1,
                   !.buf = IF op.write THEN @ ELSE Append(@, media["hd0"][op.lba])]
       /\ media' = IF op.write THEN [media EXCEPT !["hd0"][op.lba] = op.buf[Done + 1]] ELSE media
       /\ UNCHANGED <<win, slot, table, asked, before, calls, faults, late>>

\* Not ready, no DRQ, or not ready after the flush: the sector may be written
PioFails == /\ op.st = "chunk" /\ op.left > 0 /\ op.dev = "hd0" /\ faults < MaxFaults
            /\ faults' = faults + 1 /\ op' = [op EXCEPT !.st = "done", !.rc = 1]
            /\ \/ UNCHANGED media
               \/ op.write /\ media' = [media EXCEPT !["hd0"][op.lba] = op.buf[Done + 1]]
            /\ UNCHANGED <<win, slot, table, asked, before, calls, late>>

Return == /\ op.st = "chunk" /\ op.left = 0
          /\ op' = [op EXCEPT !.st = "done"]
          /\ UNCHANGED <<media, win, slot, table, asked, before, calls, faults, late>>

\* Addresses at the ends of the disk, of the partition and of the register
CallStep ==
  \/ \E name \in Disks \cup {"sd0p"}, w \in BOOLEAN :
       \E lba \in (0..(N - 1)) \cup {W - 1}, count \in 1..(Xfer + 1) : Call(name, w, lba, count)
  \/ Issue \/ Completed \/ TimedOut \/ Pio \/ PioFails \/ Return
  \/ \E p \in Ports : Finish(p) \/ \E k \in 0..(Xfer - 1) : TaskFileError(p, k)
CallNext == CallStep /\ UNCHANGED <<hw, boot>>
-----------------------------------------------------------------------------
(* fs_init: the disks are found, then the root file system.                *)

\* Port states, in the order in which ahci_init gives up on them
PortKinds == {"empty", "packet device", "stuck", "no FIS", "no identify", "disk"}

\* mbr: sd0 or else hd0 has a Linux partition; ext2: what is probed holds a file
\* system; tree: its tree can be built; fat: sector 0 of hd0 is a FAT32 boot sector
Machines == [ports : [1..3 -> PortKinds], ata : BOOLEAN, mbr : BOOLEAN, ext2 : BOOLEAN,
             tree : BOOLEAN, fat : BOOLEAN, memory : BOOLEAN]

BootInit ==
  /\ hw \in Machines
  /\ boot = [st |-> "ports", port |-> 1, disks |-> <<>>, present |-> FALSE, ram |-> FALSE,
             dev |-> "none", root |-> "none", formatted |-> "none"]

\* One port of ahci_init; a port that fails leaves its pages to the next one
ProbePort ==
  /\ boot.st = "ports"
  /\ boot' = IF boot.port > 3 \/ Len(boot.disks) = 2 THEN [boot EXCEPT !.st = "ata"]
             ELSE [boot EXCEPT !.port = @ + 1,
                               !.disks = IF hw.ports[boot.port] = "disk"
                                         THEN Append(@, [port |-> boot.port, page |-> Len(@)])
                                         ELSE @]

\* disk_init_ram_fallback; without memory nothing changes
RamFallback(b) == IF b.ram \/ ~ hw.memory THEN b ELSE [b EXCEPT !.ram = TRUE, !.present = TRUE]

DiskInit ==
  /\ boot.st = "ata"
  /\ boot' = [(IF hw.ata THEN [boot EXCEPT !.present = TRUE] ELSE RamFallback(boot)) EXCEPT !.st = "root"]

\* The partition of sd0, of hd0 if there is no sd0, or sector 2 of the legacy disk
RootDisk == IF boot.disks # <<>> THEN "sd0" ELSE IF hw.ata THEN "hd0" ELSE "none"
Probed == IF RootDisk # "none" /\ hw.mbr THEN RootDisk ELSE IF boot.ram THEN "ram" ELSE "hd0"
HasExt2 == hw.ext2 /\ Probed # "ram" /\ (Probed = "hd0" => boot.present)

SelectRoot ==
  /\ boot.st = "root"
  /\ boot' = IF HasExt2 /\ hw.tree
             THEN [boot EXCEPT !.st = "done", !.dev = Probed, !.root = "ext2"]
             ELSE [boot EXCEPT !.st = "live"]

\* The Live system: a fresh RAM disk has no FAT32 and is formatted
Target(b) == IF b.ram THEN "ram" ELSE IF b.present THEN "hd0" ELSE "none"
Live ==
  /\ boot.st = "live"
  /\ LET b == RamFallback(boot)
         loads == Target(b) = "hd0" /\ hw.fat
     IN boot' = [b EXCEPT !.st = "done", !.dev = Target(b),
                          !.root = IF Target(b) = "none" THEN "none" ELSE "FAT32",
                          !.formatted = IF loads THEN "none" ELSE Target(b)]

BootNext == (ProbePort \/ DiskInit \/ SelectRoot \/ Live) /\ UNCHANGED <<callVars, hw>>
-----------------------------------------------------------------------------
(* Properties. *)

Touched == {op.first + i : i \in 0..(op.n - 1)}

\* "switch to the RAM disk so the Live FAT32 path below can never touch the real
\* device" (fs_init).
RealDiskKept == boot.formatted # "hd0" /\ (boot.root = "FAT32" => boot.dev = "ram")

\* With memory for the RAM disk, the system always ends up with a root: the ext2
\* file system of the first disk where there is one, else a Live system that
\* leaves every real disk alone; and no two disks share their command lists.
BootSound ==
  /\ boot.st = "done" /\ hw.memory =>
       /\ RealDiskKept /\ boot.root # "none"
       /\ hw.ext2 /\ hw.tree /\ hw.mbr /\ RootDisk # "none" => boot.root = "ext2"
  /\ \A i, j \in DOMAIN boot.disks : boot.disks[i].page = boot.disks[j].page => i = j

\* Whatever fails or comes late, only sectors change that a write was about, and
\* none before or behind the partition by a write to it: the MBR and the boot
\* loader stay.
WritesInRange ==
  \A d \in Disks : /\ asked[d] \subseteq 0..(N - 1)
                   /\ \A s \in 0..(N - 1) : media[d][s] # <<0, s>> => s \in asked[d]
                   /\ op.name = "sd0p" /\ op.st # "done" =>
                        Touched \subseteq Partition.start..(Partition.start + Partition.count - 1)

\* While no command has timed out, a read that succeeds returns what the disk
\* holds, a write that succeeds has stored every sector, and a call that fails
\* has changed nothing outside its range, though both disks use one window.
TransfersExact ==
  op.st = "done" /\ ~ late =>
    /\ op.rc = 0 => \A i \in DOMAIN op.buf : op.buf[i] = media[op.dev][op.first + i - 1]
    /\ op.rc = 0 => Len(op.buf) = op.n
    /\ \A d \in Disks : \A s \in 0..(N - 1) :
         media[d][s] # before[d][s] => d = op.dev /\ s \in Touched /\ op.write
=============================================================================
