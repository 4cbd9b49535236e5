------------------------------ MODULE MCFiles ------------------------------
(***************************************************************************)
(* Open files for TLC: the counts of FileTable, the copies of LnxVfs (in   *)
(* one scenario files are removed while they are open and memory runs out) *)
(* and its listings of a directory.                                        *)
(***************************************************************************)
EXTENDS FileTable, TLC

VARIABLES part,
          node, file, cwd, want, made,
          children, dir_index, listed, since, cut, done

vfsVars == <<node, file, cwd, want>>
dirVars == <<children, dir_index, listed, since, cut, done>>

\* A name's number is its length
NameLen(n) == n

Vfs == INSTANCE LnxVfs WITH
    Dirs <- {1}, Names <- {1}, NNodes <- 1, NFiles <- 2, Data <- {1, 2},
    MaxSize <- 2, MaxMade <- 2, NoMem <- FALSE, RemoveOpen <- FALSE,
    NSlots <- 3, Entries <- {1, 2, 3}, RecLen <- NameLen, Counts <- {3, 9}, MaxEntries <- 4

Rough == INSTANCE LnxVfs WITH
    Dirs <- {1, 2}, Names <- {1}, NNodes <- 2, NFiles <- 1, Data <- {1},
    MaxSize <- 2, MaxMade <- 2, NoMem <- TRUE, RemoveOpen <- TRUE,
    NSlots <- 3, Entries <- {1, 2, 3}, RecLen <- NameLen, Counts <- {3, 9}, MaxEntries <- 4

FilesInit ==
  /\ Init
  /\ part \in {"tables", "copies", "rough", "listing"}
  /\ Vfs!DirInit
  /\ IF part = "rough" THEN Rough!Init ELSE Vfs!Init

Sharing == part = "tables" /\ Next /\ UNCHANGED <<part, made, vfsVars, dirVars>>
Copying == part = "copies" /\ Vfs!Next /\ UNCHANGED <<part, vars, dirVars>>
CopyingRough == part = "rough" /\ Rough!Next /\ UNCHANGED <<part, vars, dirVars>>
Listing == part = "listing" /\ Vfs!DirNext /\ UNCHANGED <<part, vars, vfsVars>>

FilesNext == Sharing \/ Copying \/ CopyingRough \/ Listing
FilesSpec == FilesInit /\ [][FilesNext]_<<part, vars, made, vfsVars, dirVars>>

\* Files are interchangeable
Symmetry == Permutations(Files)
----------------------------------------------------------------------------
(* Properties. *)

\* What a program reads through an open file is what the file had when it was
\* opened, changed by the writes through it, however positions were moved and the
\* cache was emptied and grown in between (lnxvfs_write, lnxvfs_lseek), and even
\* after the file was removed or a write-back failed.  A program that opens a file
\* finds what the last close() of a changed copy had: closing a copy that was only
\* read changes nothing.
CopiesExact == /\ part = "copies" => Vfs!CacheExact /\ Vfs!FileIsLastClose
               /\ part = "rough" => Rough!TypeOK /\ Rough!CacheExact

\* A pass of getdents64 over a directory lists no file twice, whatever is created
\* and removed between the calls and wherever the buffer ends, and it misses a file
\* that was there all the time only when that file's own record did not fit.
ListingSound == part = "listing" => Vfs!NeverTwice /\ Vfs!Complete
=============================================================================
