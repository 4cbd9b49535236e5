------------------------------- MODULE MCDisk -------------------------------
(***************************************************************************)
(* The file systems for TLC: Fat with enough memory, Fat on a smaller disk *)
(* when the heap may run out, Ext2 on a device that fails or loses power   *)
(* once, and the table of ext2 mounts.                                     *)
(***************************************************************************)
EXTENDS Fat

VARIABLES part, dev, mounted, enodes, gone, want, faults, mnt_table, cwd

extVars == <<dev, mounted, enodes, gone, want, faults>>
mntVars == <<mnt_table, cwd>>

\* Two long names with one 8.3 form
MCBase(name) == IF name \in {"libc6_a", "libc6_b"} THEN "LIBC6" ELSE name
MCBoot == <<"home">>

Scarce == INSTANCE Fat WITH NClusters <- 3, NoMem <- TRUE

\* Files of one direct, two indirect and one doubly indirect block; the second name
\* of two units starts a new block of its directory
Ext == INSTANCE Ext2 WITH
    NBlocks <- 9, NInodes <- 4, NDirect <- 1, Ppb <- 2, DirUnits <- 5, Names <- {"a", "b"},
    Long <- {"b"}, MaxKids <- 3, Sizes <- {0, 2, 4}, Vals <- {1}, MaxFaults <- 1,
    Reformat <- FALSE, Devs <- {"A", "B", "C"}, MaxMounts <- 3, disk <- dev, tree <- enodes

DiskInit == /\ Ext!Init /\ Ext!MntInit
            /\ \/ part \in {"fat", "ext2", "mounts"} /\ Init
               \/ part = "scarce" /\ Scarce!Init

FatStep == part = "fat" /\ Next /\ UNCHANGED <<part, extVars, mntVars>>
ScarceStep == part = "scarce" /\ Scarce!Next /\ UNCHANGED <<part, extVars, mntVars>>
Ext2Step == part = "ext2" /\ Ext!Next /\ UNCHANGED <<part, vars, mntVars>>
MountStep == part = "mounts" /\ Ext!MntNext /\ UNCHANGED <<part, vars, extVars>>

DiskNext == FatStep \/ ScarceStep \/ Ext2Step \/ MountStep
DiskSpec == DiskInit /\ [][DiskNext]_<<part, vars, extVars, mntVars>>
-----------------------------------------------------------------------------
(* Properties. *)

\* A file's clusters are its own, and it reads back as it was last written: a
\* write that fails half way, for want of clusters or of memory, leaves the old
\* content in place.  On ext2 every file but the one whose write a write error or a
\* power cut interrupted reads as it was written last, also after a remount.
FilesKept ==
  CASE part = "fat" -> TypeOK /\ FilesPrivate /\ ReadsBack
    [] part = "scarce" -> Scarce!TypeOK /\ Scarce!FilesPrivate /\ Scarce!ReadsBack
    [] part = "ext2" -> Ext!ContentKept
    [] part = "mounts" -> TRUE

\* The tree in memory and the directories on the disk agree: each node has its one
\* entry, each entry its node, and no link outlives its node.  A FAT cluster that is
\* in use belongs to some file, and FSInfo never promises more than is free.  An
\* ext2 tree is the one the next mount will build, also after operations that
\* failed half way.
TreeIsDisk ==
  CASE part = "fat" -> /\ TreeOnDisk /\ NoGhostEntry /\ KidsExist
                       /\ Dangling \/ NoLostCluster
                       /\ FreeCountSound
    [] part = "scarce" -> Scarce!TreeOnDisk /\ Scarce!FreeCountSound
    [] part = "ext2" -> Ext!TreeKept
    [] part = "mounts" -> TRUE

\* Whatever operation a power cut or a write error interrupts, an ext2 disk that
\* mounts is sound: no block in two places, bits written before use, inodes before
\* entries, the superblock of mkfs last.  And however mounts are stacked and taken
\* away, every mount and the shell stand in directories that are there.
CrashSound == /\ part = "ext2" => Ext!DiskSound
              /\ part = "mounts" => Ext!MountsSound
=============================================================================
