------------------------------- MODULE LnxVfs -------------------------------
(***************************************************************************)
(* Open files of user programs (core/lnxvfs.c): every open() takes a copy  *)
(* of the whole file, reads and writes work on the copy, and the last      *)
(* close() writes a changed copy back.  The file system below is reduced   *)
(* to its nodes and their contents (module Fat has the rest), descriptors  *)
(* and their reference counts to the open file itself (module FileTable).  *)
(*                                                                         *)
(* A node is memory of the heap: a new file gets the first free one.       *)
(*                                                                         *)
(* A second machine lists a directory with getdents64 while files are      *)
(* created and removed in it.  The directory is the table children[] of    *)
(* its node; an open directory remembers the next slot to look at.  A      *)
(* record takes as many units of the caller's buffer as its name is long.  *)
(***************************************************************************)
EXTENDS Integers, Sequences, FiniteSets, FiniteSetsExt

CONSTANTS Dirs, Names,
          NNodes,       \* fs_entry_t blocks
          NFiles,       \* open files
          Data,         \* cell values
          MaxSize,      \* bound on a file's size, in cells
          MaxMade,      \* bound on the files ever created
          NoMem,        \* TRUE: the disk and the heap may run out
          RemoveOpen,   \* TRUE: files are removed while programs have them open
          NSlots,       \* MAX_DIR_ENTRIES
          Entries,      \* names of the files in the directory that is listed
          RecLen(_),    \* aligned size of a name's record
          Counts,       \* buffer sizes that programs use
          MaxEntries    \* bound on the files ever created in that directory

VARIABLES node,   \* [live, dir, name, id, data]; id: which file ever created this is
          file,   \* lnx_file_t: [used, entry, id, cache, size, pos, dirty, img]
          cwd,    \* fs_current(), one for the shell and all processes
          want,   \* by node: what a reader that opens it has to find
          made,   \* files created so far
          children,    \* by slot: Empty, or the name and number of the file
          dir_index,   \* first slot not yet looked at
          listed,      \* files returned, with how often
          since,       \* files present since the listing began
          cut,         \* files whose record did not fit when its slot was looked at
          done         \* getdents64 returned 0

vars == <<node, file, cwd, want, made>>

Junk == 0               \* what krealloc() leaves in new memory
Any == 0                \* a cell nobody wrote
Unused == [used |-> FALSE]
NoFile == [live |-> FALSE]
Nodes == 1..NNodes
OpenFiles == 1..NFiles

Open == {k \in OpenFiles : file[k].used}
Live == {i \in Nodes : node[i].live}
At(d, n) == {i \in Live : node[i].dir = d /\ node[i].name = n}
Padded(s, n) == [i \in 1..n |-> IF i <= Len(s) THEN s[i] ELSE Junk]
Put(s, at, w) == [i \in 1..Len(s) |-> IF i > at /\ i <= at + Len(w) THEN w[i - at] ELSE s[i]]
Matches(s, img) == Len(s) = Len(img) /\ \A i \in 1..Len(s) : img[i] # Any => s[i] = img[i]

Init == /\ node = [i \in Nodes |-> NoFile]
        /\ file = [k \in OpenFiles |-> Unused]
        /\ cwd \in Dirs
        /\ want = [i \in Nodes |-> <<>>]
        /\ made = 0

\* lnxvfs_open(): the new lnx_file_t; O_TRUNC keeps the cache and sets the size
Opened(e, data, trunc) ==
  [used |-> TRUE, entry |-> e, id |-> IF node[e].live THEN node[e].id ELSE made + 1,
   cache |-> data,
   size |-> IF trunc THEN 0 ELSE Len(data), pos |-> 0, dirty |-> trunc,
   img |-> IF trunc THEN <<>> ELSE data]

\* lnxvfs_open() of a file that exists
OpenFile(n, trunc) ==
  \E e \in At(cwd, n), k \in OpenFiles \ Open :
    /\ \A j \in OpenFiles \ Open : k <= j
    /\ file' = [file EXCEPT ![k] = Opened(e, node[e].data, trunc)]
    /\ UNCHANGED <<node, cwd, want, made>>

\* lnxvfs_open() with O_CREAT: fs_create_at(); with ok = FALSE the new lnx_file_t
\* cannot be allocated and the file stays
OpenNew(n, ok) ==
  LET e == Min(Nodes \ Live)
      k == Min(OpenFiles \ Open)
  IN /\ At(cwd, n) = {} /\ Nodes # Live /\ OpenFiles # Open
     /\ made < MaxMade
     /\ ok \/ NoMem
     /\ made' = made + 1
     /\ node' = [node EXCEPT ![e] = [live |-> TRUE, dir |-> cwd, name |-> n, id |-> made + 1, data |-> <<>>]]
     /\ want' = [want EXCEPT ![e] = <<>>]
     /\ file' = IF ok THEN [file EXCEPT ![k] = Opened(e, <<>>, FALSE)] ELSE file
     /\ UNCHANGED cwd

\* lnxvfs_read()
Read(k, n) ==
  /\ k \in Open /\ file[k].pos < file[k].size
  /\ file' = [file EXCEPT ![k].pos = Min({@ + n, file[k].size})]
  /\ UNCHANGED <<node, cwd, want, made>>

\* Mutant: the grown cache is new memory
GrownFresh(cache, n) == [i \in 1..n |-> Junk]

\* krealloc() of the cache
Grown(cache, n) == Padded(cache, n)

\* lnxvfs_write()
Write(k, w) ==
  LET f == file[k]
      n == f.pos + Len(w)
      cache == IF n > f.size THEN Grown(f.cache, n) ELSE f.cache
      img == IF n > f.size THEN Padded(f.img, n) ELSE f.img
  IN /\ k \in Open /\ n <= MaxSize
     /\ file' = [file EXCEPT ![k].cache = Put(cache, f.pos, w),
                             ![k].img = Put(img, f.pos, w),
                             ![k].size = IF n > @ THEN n ELSE @,
                             ![k].pos = n,
                             ![k].dirty = TRUE]
     /\ UNCHANGED <<node, cwd, want, made>>

\* lnxvfs_lseek(): the new position; only SEEK_END may go past the end
Sought(f, whence, off) ==
  LET base == CASE whence = "SET" -> 0 [] whence = "CUR" -> f.pos [] whence = "END" -> f.size
      np == base + off
  IN IF np < 0 THEN f.pos
     ELSE IF whence # "END" /\ np > f.size THEN f.size ELSE np

Lseek(k, whence, off) ==
  /\ k \in Open
  /\ file' = [file EXCEPT ![k].pos = Sought(file[k], whence, off)]
  /\ UNCHANGED <<node, cwd, want, made>>

\* fd_flush(): the copy is written back; fs_write_file() takes no null pointer
Flushes(f) == f.dirty /\ f.cache # <<>>

\* Something was written through f, or its open() emptied a file
Changed(f) == f.dirty /\ f.cache # <<>>

\* vfs_f_close(), at the last reference; ok = FALSE: fs_write_file() fails, which
\* close() does not notice
Close(k, ok) ==
  LET f == file[k]
      e == f.entry
  IN /\ k \in Open
     /\ ok \/ NoMem
     /\ node' = IF Flushes(f) /\ ok /\ node[e].live
                THEN [node EXCEPT ![e].data = SubSeq(f.cache, 1, f.size)] ELSE node
     /\ want' = IF Changed(f) /\ node[e].live /\ node[e].id = f.id
                THEN [want EXCEPT ![e] = f.img] ELSE want
     /\ file' = [file EXCEPT ![k] = Unused]
     /\ UNCHANGED <<cwd, made>>

\* fs_delete_entry(), the shell's rm: the node is freed.  (What is left after the
\* unlink() of a program, which also leaves the entry in its directory, is in
\* module Fat.)
Remove(n) ==
  \E e \in At(cwd, n) :
    /\ RemoveOpen \/ \A k \in Open : file[k].entry # e
    /\ node' = [node EXCEPT ![e] = NoFile]
    /\ want' = [want EXCEPT ![e] = <<>>]
    /\ UNCHANGED <<file, cwd, made>>

\* lnxvfs_chdir()
Chdir(d) ==
  /\ cwd' = d
  /\ UNCHANGED <<node, file, want, made>>

Next ==
  \/ \E n \in Names :
       \/ \E trunc \in BOOLEAN : OpenFile(n, trunc)
       \/ \E ok \in BOOLEAN : OpenNew(n, ok)
       \/ Remove(n)
  \/ \E d \in Dirs : Chdir(d)
  \/ \E k \in OpenFiles :
       \/ \E ok \in BOOLEAN : Close(k, ok)
       \/ \E n \in 1..2 : Read(k, n)
       \/ \E w \in UNION {[1..n -> Data] : n \in 1..2} : Write(k, w)
       \/ \E whence \in {"SET", "CUR", "END"}, off \in (0 - 1)..1 : Lseek(k, whence, off)

Spec == Init /\ [][Next]_vars
-----------------------------------------------------------------------------
(* Listing a directory. *)

Slots == 0..(NSlots - 1)
Empty == <<0, 0>>
Filled == {s \in Slots : children[s] # Empty}
There == {children[s] : s \in Filled}
Instances == Entries \X (1..MaxEntries)

DirInit == /\ children = [s \in Slots |-> Empty] /\ dir_index = 0
           /\ listed = [f \in Instances |-> 0] /\ since = {} /\ cut = {} /\ done = FALSE /\ made = 0

\* Mutant: one slot of slack after each record
AfterBy(s) == s + 2

\* dir_index after slot s was looked at
After(s) == s + 1

\* The loop of lnxvfs_getdents64() from slot s with u units of the buffer used:
\* the files returned, the one whose record did not fit, and dir_index at the end.
\* The slot of a record that does not fit counts as looked at.
RECURSIVE Scan(_, _, _)
Scan(s, u, count) ==
  IF s >= NSlots THEN [out |-> {}, cut |-> {}, at |-> s]
  ELSE IF children[s] = Empty THEN Scan(After(s), u, count)
  ELSE LET n == RecLen(children[s][1])
           r == Scan(After(s), u + n, count)
       IN IF u + n > count THEN [out |-> {}, cut |-> {children[s]}, at |-> After(s)]
          ELSE [r EXCEPT !.out = @ \cup {children[s]}]

\* getdents64(): an error when not one record fits, 0 at the end
Getdents(count) ==
  LET r == Scan(dir_index, 0, count)
  IN /\ ~ done
     /\ dir_index' = r.at
     /\ listed' = [f \in Instances |-> listed[f] + IF f \in r.out THEN 1 ELSE 0]
     /\ cut' = cut \cup r.cut
     /\ done' = (r.out = {} /\ r.cut = {})
     /\ UNCHANGED <<children, since, made>>

\* fs_create_file() puts a child into the first free slot
AddEntry(n) ==
  LET free == Slots \ Filled
  IN /\ free # {} /\ made < MaxEntries /\ \A f \in There : f[1] # n
     /\ made' = made + 1
     /\ children' = [children EXCEPT ![Min(free)] = <<n, made + 1>>]
     /\ since' = IF dir_index = 0 THEN since \cup {<<n, made + 1>>} ELSE since
     /\ UNCHANGED <<dir_index, listed, cut, done>>

\* fs_delete_entry_recursive() empties its slot
DropEntry(s) ==
  /\ s \in Filled
  /\ children' = [children EXCEPT ![s] = Empty]
  /\ since' = since \ {children[s]}
  /\ UNCHANGED <<dir_index, listed, cut, done, made>>

\* The directory is opened anew
Reopen ==
  /\ done
  /\ dir_index' = 0 /\ listed' = [f \in Instances |-> 0] /\ since' = There /\ cut' = {} /\ done' = FALSE
  /\ UNCHANGED <<children, made>>

DirNext ==
  \/ \E c \in Counts : Getdents(c)
  \/ \E n \in Entries : AddEntry(n)
  \/ \E s \in Slots : DropEntry(s)
  \/ Reopen
-----------------------------------------------------------------------------
Contents == UNION {[1..n -> Data \cup {Any}] : n \in 0..MaxSize}

\* Types; the position may be one past the end of the largest file
TypeOK ==
  /\ \A i \in Live : node[i].dir \in Dirs /\ node[i].name \in Names /\ node[i].data \in Contents
  /\ \A k \in Open : /\ file[k].entry \in Nodes
                     /\ file[k].cache \in Contents
                     /\ file[k].size \in 0..MaxSize
                     /\ file[k].pos \in 0..(MaxSize + 1)
  /\ cwd \in Dirs /\ made \in 0..MaxMade

\* What a program reads through an open file is what the file had when it was
\* opened, changed by the writes through it, however positions were moved and the
\* cache was emptied and grown in between (lnxvfs_write, lnxvfs_lseek).
CacheExact ==
  \A k \in Open : /\ file[k].size <= Len(file[k].cache)
                  /\ Matches(SubSeq(file[k].cache, 1, file[k].size), file[k].img)

\* A program that opens a file finds what the last close() of a changed copy had:
\* writes, and the truncation of an open(), reach the file with the close().
FileIsLastClose == \A i \in Live : Matches(node[i].data, want[i])

\* No file is listed twice in one pass, whatever is created and removed between
\* the calls (slots are reused, dir_index only grows).
NeverTwice == \A f \in Instances : listed[f] <= 1

\* A pass that got to its end has listed every file that was there all the time,
\* but for those whose own record did not fit into what a call had left.
Complete == done => \A f \in since : listed[f] = 1 \/ f \in cut
=============================================================================
