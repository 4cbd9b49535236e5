-------------------------------- MODULE Ext2 --------------------------------
(***************************************************************************)
(* fs/ext2.c: a writable ext2 file system on a device that can fail, or    *)
(* lose power, between any two block writes.  An operation is the sequence *)
(* of the disks it leaves behind, one per block written: it succeeds with  *)
(* the last of them, and a write error or a power cut leaves an earlier    *)
(* one.  A device that fails a write fails the rest of that operation.     *)
(* Blocks are numbered from the end of the metadata, sizes are in blocks,  *)
(* and rec_len is in units of the shortest entry.                          *)
(***************************************************************************)
EXTENDS Naturals, Sequences, FiniteSets, SequencesExt

CONSTANTS NBlocks,    \* data blocks of the device
          NInodes,    \* inodes, the root and lost+found included
          NDirect,    \* direct pointers of an inode (12)
          Ppb,        \* pointers in a block
          DirUnits,   \* units of a directory block
          Names,      \* names that programs use
          Long,       \* those of two units
          MaxKids,    \* MAX_DIR_ENTRIES
          Sizes,      \* lengths of the writes
          Vals,       \* contents
          MaxFaults,  \* bound on write errors and power cuts
          Reformat,   \* TRUE: mkfs may meet a device that was in use
          Devs,       \* devices with a file system, for the mount table
          MaxMounts   \* EXT2_MAX_MOUNTS

VARIABLES disk,       \* the device
          mounted,    \* the device is in the mount table
          tree,       \* the nodes below the mount point
          gone,       \* nodes that rm took from the tree: the disk keeps them
          want,       \* what the last successful write put into each inode
          faults,     \* write errors and power cuts so far
          mnt_table,  \* the mounts, in table order
          cwd         \* directory of the shell

vars == <<disk, mounted, tree, gone, want, faults>>
mntVars == <<mnt_table, cwd>>

Blocks == 1..NBlocks
Inodes == 1..NInodes
Root == 1
LostFound == 2
Torn == <<[kind |-> "torn"]>>

Zero == [kind |-> "zero"]
Pointers(p) == [kind |-> "ptr", p |-> p]
WithPtr(p, i, b) == Pointers([k \in DOMAIN p |-> IF k = i THEN b ELSE p[k]])
Listing(e) == [kind |-> "dir", ents |-> e]
Data(v, bn) == [kind |-> "data", v |-> v, bn |-> bn]

NoInode == [mode |-> "none", size |-> 0, block |-> [k \in 0..(NDirect + 1) |-> 0]]
Blank == [magic |-> FALSE, bbm |-> {}, ibm |-> {},
          inode |-> [i \in Inodes |-> NoInode], blk |-> [b \in Blocks |-> Zero]]

Init == /\ disk = Blank /\ mounted = FALSE /\ tree = {} /\ gone = {} /\ faults = 0
        /\ want = [i \in Inodes |-> Torn]
-----------------------------------------------------------------------------
(* An operation under way: the disk, whether it goes on, the disks so far, *)
(* the block it found or allocated, and the inode it changes in memory.    *)

Begin(d, n) == [d |-> d, ok |-> TRUE, log |-> <<>>, r |-> 0, n |-> n]
Fail(s) == [s EXCEPT !.ok = FALSE]
Put(s, d) == IF s.ok THEN [s EXCEPT !.d = d, !.log = Append(@, d)] ELSE s

WriteBlock(s, b, c) ==
  IF b \in Blocks THEN Put(s, [s.d EXCEPT !.blk[b] = c]) ELSE Fail(s)
WriteInode(s, i, n) == Put(s, [s.d EXCEPT !.inode[i] = n])

LowestFree(all, used) == CHOOSE x \in all \ used : \A y \in all \ used : x <= y

\* The bit is on the disk before the block or the inode is used
AllocBlock(s) ==
  IF ~ s.ok \/ Blocks = s.d.bbm THEN Fail(s)
  ELSE LET b == LowestFree(Blocks, s.d.bbm)
       IN [Put(s, [s.d EXCEPT !.bbm = @ \cup {b}]) EXCEPT !.r = b]

AllocInode(s) ==
  IF Inodes = s.d.ibm THEN Fail(s)
  ELSE LET i == LowestFree(Inodes, s.d.ibm)
       IN [Put(s, [s.d EXCEPT !.ibm = @ \cup {i}]) EXCEPT !.r = i]

\* A block read as pointers; one that holds none leads outside the device
Ptrs(c) ==
  CASE c.kind = "ptr" -> c.p
    [] c.kind = "zero" -> [i \in 0..(Ppb - 1) |-> 0]
    [] OTHER -> [i \in 0..(Ppb - 1) |-> NBlocks + 1]

\* m_bmap: 0 is a hole
At(d, b, i) == IF b \in Blocks THEN Ptrs(d.blk[b])[i] ELSE 0
Bmap(d, n, bn) ==
  LET l1 == bn - NDirect
      l2 == bn - NDirect - Ppb
  IN IF bn < NDirect THEN n.block[bn]
     ELSE IF bn < NDirect + Ppb THEN At(d, n.block[NDirect], l1)
     ELSE IF l2 < Ppb * Ppb THEN At(d, At(d, n.block[NDirect + 1], l2 \div Ppb), l2 % Ppb)
     ELSE 0

\* A pointer of the inode, with a block behind it
Slot(s, k) ==
  IF ~ s.ok THEN s
  ELSE IF s.n.block[k] # 0 THEN [s EXCEPT !.r = s.n.block[k]]
  ELSE LET a == AllocBlock(s) IN IF a.ok THEN [a EXCEPT !.n.block[k] = a.r] ELSE a

\* m_ind_get, and m_ind_set of a new block where there is none
Below(s, b, i) ==
  IF ~ s.ok \/ b \notin Blocks THEN Fail(s)
  ELSE LET p == Ptrs(s.d.blk[b])
       IN IF p[i] # 0 THEN [s EXCEPT !.r = p[i]]
          ELSE LET a == AllocBlock(s)
               IN IF a.ok THEN WriteBlock(a, b, WithPtr(p, i, a.r)) ELSE a

BlockFor(s, bn) ==
  LET l1 == bn - NDirect
      l2 == bn - NDirect - Ppb
  IN IF bn < NDirect THEN Slot(s, bn)
     ELSE IF bn < NDirect + Ppb
          THEN LET a == Slot(s, NDirect) IN Below(a, a.r, l1)
     ELSE IF l2 >= Ppb * Ppb THEN Fail(s)
     ELSE LET a == Slot(s, NDirect + 1)
              b == Below(a, a.r, l2 \div Ppb)
          IN Below(b, b.r, l2 % Ppb)

\* ext2_write_file: blocks are overwritten in place, the inode comes last
WriteData(d, i, v, size) ==
  LET one(s, bn) == LET b == BlockFor(s, bn) IN WriteBlock(b, b.r, Data(v, bn))
      s == FoldLeft(one, Begin(d, d.inode[i]), [k \in 1..size |-> k - 1])
  IN WriteInode(s, i, [s.n EXCEPT !.size = size])

\* ext2_read_file_m: holes are zero blocks
ReadFile(d, i) ==
  [k \in 1..d.inode[i].size |-> LET b == Bmap(d, d.inode[i], k - 1)
                                IN IF b \in Blocks THEN d.blk[b] ELSE Zero]
Content(v, size) == [k \in 1..size |-> Data(v, k - 1)]
-----------------------------------------------------------------------------
(* Directories. *)

Ent(i, rec, name, type) == [ino |-> i, rec |-> rec, name |-> name, type |-> type]
MinLen(name) == IF name \in Long \cup {"lost+found"} THEN 2 ELSE 1
Dots(i, up, rest) == <<Ent(i, 1, ".", "dir"), Ent(up, rest, "..", "dir")>>

EntsOf(d, b) == IF b \in Blocks /\ d.blk[b].kind = "dir" THEN d.blk[b].ents ELSE <<>>
DirBlocks(d, i) == [k \in 1..d.inode[i].size |-> Bmap(d, d.inode[i], k - 1)]

\* Room for an entry in a dead slot, or in the slack behind a live one
Fits(e, need) == e.rec >= IF e.ino = 0 THEN need ELSE MinLen(e.name) + need
Insert(ents, j, new) ==
  LET e == ents[j]
  IN IF e.ino = 0 THEN [ents EXCEPT ![j] = [new EXCEPT !.rec = e.rec]]
     ELSE SubSeq(ents, 1, j - 1)
          \o <<[e EXCEPT !.rec = MinLen(e.name)], [new EXCEPT !.rec = e.rec - MinLen(e.name)]>>
          \o SubSeq(ents, j + 1, Len(ents))

\* The new last block of a directory
AppendBlock(s, dir, new) ==
  LET n == s.d.inode[dir]
      a == AllocBlock(s)
      w == WriteBlock(a, a.r, Listing(<<[new EXCEPT !.rec = DirUnits]>>))
      i == IF n.block[NDirect] # 0 THEN [w EXCEPT !.r = n.block[NDirect]]
           ELSE LET x == AllocBlock(w) IN WriteBlock(x, x.r, Zero)
      l1 == n.size - NDirect
      p == WriteBlock(i, i.r, WithPtr(Ptrs(i.d.blk[i.r]), l1, a.r))
  IN IF ~ w.ok THEN w
     ELSE IF n.size < NDirect
          THEN WriteInode(w, dir, [n EXCEPT !.block[n.size] = a.r, !.size = @ + 1])
     ELSE IF l1 >= Ppb \/ ~ i.ok THEN Fail(i)
     ELSE WriteInode(p, dir, [n EXCEPT !.block[NDirect] = i.r, !.size = @ + 1])

\* m_add_dirent
AddDirent(s, dir, new) ==
  LET bs == DirBlocks(s.d, dir)
      room == {p \in (DOMAIN bs) \X (1..DirUnits) :
                 LET e == EntsOf(s.d, bs[p[1]])
                 IN p[2] \in DOMAIN e /\ Fits(e[p[2]], MinLen(new.name))}
      p == CHOOSE q \in room : \A o \in room : q[1] < o[1] \/ (q[1] = o[1] /\ q[2] <= o[2])
  IN IF ~ s.ok \/ s.d.inode[dir].mode # "dir" THEN Fail(s)
     ELSE IF room = {} THEN AppendBlock(s, dir, new)
     ELSE WriteBlock(s, bs[p[1]], Listing(Insert(EntsOf(s.d, bs[p[1]]), p[2], new)))

\* Mutant: the entry is written before the inode
CreateLinkFirst(d, dir, name) ==
  LET a == AllocInode(Begin(d, NoInode))
      w == AddDirent(a, dir, Ent(a.r, 0, name, "reg"))
  IN IF a.ok THEN WriteInode(w, a.r, [NoInode EXCEPT !.mode = "reg"]) ELSE a

CreateFile(d, dir, name) ==
  LET a == AllocInode(Begin(d, NoInode))
      w == WriteInode(a, a.r, [NoInode EXCEPT !.mode = "reg"])
  IN IF a.ok THEN AddDirent(w, dir, Ent(a.r, 0, name, "reg")) ELSE a

CreateDir(d, dir, name) ==
  LET a == AllocInode(Begin(d, NoInode))
      b == AllocBlock(a)
      w == WriteBlock(b, b.r, Listing(Dots(a.r, dir, DirUnits - 1)))
      n == [NoInode EXCEPT !.mode = "dir", !.size = 1, !.block[0] = b.r]
  IN IF b.ok THEN AddDirent(WriteInode(w, a.r, n), dir, Ent(a.r, 0, name, "dir")) ELSE b

\* ext2_load_dir_recursive from the root: "." and ".." are skipped
Kids(d, i) ==
  LET all == FlattenSeq([k \in 1..d.inode[i].size |-> EntsOf(d, DirBlocks(d, i)[k])])
      named == SelectSeq(all, LAMBDA e : e.ino # 0 /\ e.name \notin {".", ".."})
  IN {[dir |-> i, name |-> e.name, ino |-> e.ino, type |-> e.type,
       size |-> IF e.type = "reg" THEN d.inode[e.ino].size ELSE 0] :
        e \in Range(SubSeq(named, 1, IF Len(named) < MaxKids THEN Len(named) ELSE MaxKids))}

RECURSIVE LoadDir(_, _)
LoadDir(d, i) == 
  LET k == Kids(d, i) IN k \cup UNION {LoadDir(d, e.ino) : e \in {x \in k : x.type = "dir"}}
BuildTree(d) == LoadDir(d, Root)

\* ext2_mkfs: the superblock is zeroed first and written last
Mkfs(d) ==
  LET rootDir == <<Ent(Root, 1, ".", "dir"), Ent(Root, 1, "..", "dir"),
                   Ent(LostFound, DirUnits - 2, "lost+found", "dir")>>
      dirAt(b) == [NoInode EXCEPT !.mode = "dir", !.size = 1, !.block[0] = b]
      s1 == Put(Begin(d, NoInode), [d EXCEPT !.magic = FALSE])
      s2 == Put(s1, [s1.d EXCEPT !.bbm = {}, !.ibm = {}, !.inode = Blank.inode])
      s3 == Put(s2, [s2.d EXCEPT !.bbm = {1, 2}])
      s4 == Put(s3, [s3.d EXCEPT !.ibm = {Root, LostFound}])
      s5 == WriteBlock(s4, 1, Listing(rootDir))
      s6 == WriteBlock(s5, 2, Listing(Dots(LostFound, Root, DirUnits - 1)))
      s7 == WriteInode(s6, Root, dirAt(1))
      s8 == WriteInode(s7, LostFound, dirAt(2))
  IN Put(s8, [s8.d EXCEPT !.magic = TRUE])
-----------------------------------------------------------------------------
(* The operations on the mounted tree. *)

Dir(i) == mounted /\ (i = Root \/ \E n \in tree : n.ino = i /\ n.type = "dir")
Under(i) == {n \in tree : n.dir = i}

\* The operation runs out of room, or a write fails: memory keeps the old tree.  Or
\* the power goes: the tree is lost, and the next mount finds what the disk has.
After(s, k) == IF k = 0 THEN disk ELSE s.log[k]
NoRoom(s) == ~ s.ok /\ disk' = s.d /\ UNCHANGED <<mounted, tree, gone, faults>>
Fault == faults < MaxFaults /\ faults' = faults + 1
WriteFails(s) == /\ Fault
                 /\ \E k \in 0..(Len(s.log) - 1) : disk' = After(s, k)
                 /\ UNCHANGED <<mounted, tree, gone>>
PowerCut(s) == /\ Fault
               /\ \E k \in 0..Len(s.log) : disk' = After(s, k)
               /\ mounted' = FALSE /\ tree' = {} /\ gone' = {}
Broken(s) == NoRoom(s) \/ WriteFails(s) \/ PowerCut(s)

Format ==
  LET s == Mkfs(disk)
  IN /\ ~ mounted /\ (Reformat \/ ~ disk.magic)
     /\ want' = [i \in Inodes |-> Torn]
     /\ \/ disk' = s.d /\ UNCHANGED <<mounted, tree, gone, faults>>
        \/ Broken(s)

Mount == /\ ~ mounted /\ disk.magic
         /\ mounted' = TRUE /\ tree' = BuildTree(disk) /\ gone' = {}
         /\ UNCHANGED <<disk, want, faults>>

Umount == /\ mounted
          /\ mounted' = FALSE /\ tree' = {} /\ gone' = {}
          /\ UNCHANGED <<disk, want, faults>>

\* fs_create_file and fs_create_dir in a directory of a writable mount
Create(dir, name, type) ==
  LET s == IF type = "reg" THEN CreateFile(disk, dir, name) ELSE CreateDir(disk, dir, name)
      i == LowestFree(Inodes, disk.ibm)
  IN /\ Dir(dir) /\ ~ \E n \in Under(dir) : n.name = name
     /\ Cardinality(Under(dir)) < MaxKids
     /\ want' = IF disk.ibm = Inodes THEN want
                ELSE [want EXCEPT ![i] = IF type = "reg" THEN <<>> ELSE Torn]
     /\ \/ /\ s.ok
           /\ disk' = s.d
           /\ tree' = tree \cup {[dir |-> dir, name |-> name, ino |-> i, type |-> type, size |-> 0]}
           /\ UNCHANGED <<mounted, gone, faults>>
        \/ Broken(s)

\* fs_write_file: the size in memory is that of the last success
Write(n, v, size) ==
  LET s == WriteData(disk, n.ino, v, size)
  IN /\ n \in tree /\ n.type = "reg"
     /\ \/ /\ s.ok
           /\ disk' = s.d /\ want' = [want EXCEPT ![n.ino] = Content(v, size)]
           /\ tree' = (tree \ {n}) \cup {[n EXCEPT !.size = size]}
           /\ UNCHANGED <<mounted, gone, faults>>
        \/ Broken(s) /\ want' = [want EXCEPT ![n.ino] = Torn]

\* fs_delete_entry takes the node, and what is below it, from memory only
RECURSIVE Subtree(_)
Subtree(n) == {n} \cup UNION {Subtree(k) : k \in Under(n.ino)}
Delete(n) == /\ n \in tree
             /\ tree' = tree \ Subtree(n) /\ gone' = gone \cup Subtree(n)
             /\ UNCHANGED <<disk, mounted, want, faults>>

Next ==
  \/ Format \/ Mount \/ Umount
  \/ \E i \in Inodes, name \in Names, t \in {"reg", "dir"} : Create(i, name, t)
  \/ \E n \in tree : \/ \E v \in Vals, size \in Sizes : Write(n, v, size)
                     \/ Delete(n)
-----------------------------------------------------------------------------
(* The mount table.  Directories 0 (the root), "p" and "q" are always      *)
(* there; every device has one directory in its root, there while the      *)
(* device is mounted.                                                      *)

Fixed == {"p", "q"}
IsMounted(t, v) == \E k \in DOMAIN t : t[k].dev = v
TargetOf(t, v) == t[CHOOSE k \in DOMAIN t : t[k].dev = v].target

\* The directories that are there, and what is above one
Live(t) == {"/"} \cup Fixed \cup {v \in Devs : IsMounted(t, v)}
RECURSIVE Above(_, _)
Above(t, x) == CASE x \in Fixed -> {x, "/"}
                 [] x \in Devs /\ IsMounted(t, x) -> {x} \cup Above(t, TargetOf(t, x))
                 [] OTHER -> {x}

MntInit == mnt_table = <<>> /\ cwd = "/"

\* ext2_mount: an empty directory, a device that is not mounted yet
MountAt(v, x) ==
  /\ Len(mnt_table) < MaxMounts
  /\ ~ IsMounted(mnt_table, v)
  /\ x \in Live(mnt_table) \ {"/"}
  /\ \A k \in DOMAIN mnt_table : mnt_table[k].target # x
  /\ mnt_table' = Append(mnt_table, [dev |-> v, target |-> x])
  /\ UNCHANGED cwd

\* The last mount takes the place of the one that goes
Dropped(t, k) == SubSeq([t EXCEPT ![k] = t[Len(t)]], 1, Len(t) - 1)

Busy(t, k) == \/ t[k].target \in Above(t, cwd)
              \/ \E j \in DOMAIN t \ {k} : t[k].target \in Above(t, t[j].target)

UmountAt(k) == /\ k \in DOMAIN mnt_table /\ ~ Busy(mnt_table, k)
               /\ mnt_table' = Dropped(mnt_table, k)
               /\ UNCHANGED cwd

Chdir(x) == x \in Live(mnt_table) /\ cwd' = x /\ UNCHANGED mnt_table

MntNext == \/ \E v \in Devs, x \in Fixed \cup Devs : MountAt(v, x)
           \/ \E k \in 1..MaxMounts : UmountAt(k)
           \/ \E x \in {"/"} \cup Fixed \cup Devs : Chdir(x)
-----------------------------------------------------------------------------
(* Properties. *)

Reached(d) == {Root} \cup {n.ino : n \in BuildTree(d)}
\* The blocks of an inode, its indirect blocks included, with repetition
Held(d, i) ==
  LET n == d.inode[i]
      tops == {<<k, n.block[k]>> : k \in 0..(NDirect + 1)}
      one == {<<10 + k, At(d, n.block[NDirect], k)>> : k \in 0..(Ppb - 1)}
      two == {<<20 + k, At(d, n.block[NDirect + 1], k)>> : k \in 0..(Ppb - 1)}
      leaves == UNION {{<<30 + 10 * k[1] + j, At(d, k[2], j)>> : j \in 0..(Ppb - 1)} : k \in two}
  IN {<<i, x[1], x[2]>> : x \in {y \in tops \cup one \cup two \cup leaves : y[2] # 0}}
AllHeld(d) == UNION {Held(d, i) : i \in Reached(d)}

\* Whatever operation a power cut or a write error interrupts, on a disk that
\* mounts no block belongs to two places, every block and inode in use is marked
\* in its bitmap, and every entry leads to an inode of its type: bits are written
\* before use, inodes before entries, the superblock of mkfs last.
DiskSound ==
  disk.magic =>
    /\ \A x, y \in AllHeld(disk) : x[3] = y[3] => x = y
    /\ \A x \in AllHeld(disk) : x[3] \in disk.bbm
    /\ Reached(disk) \subseteq disk.ibm
    /\ \A n \in BuildTree(disk) : disk.inode[n.ino].mode = n.type

\* Every file but the one whose write was interrupted reads as it was written last,
\* before and after a remount (ext2_write_file, ext2_read_file_m).
ContentKept ==
  disk.magic => \A n \in BuildTree(disk) :
    n.type = "reg" /\ want[n.ino] # Torn => ReadFile(disk, n.ino) = want[n.ino]

\* The tree in memory is the one the next mount will build, as long as nothing was
\* removed: also after creates and writes that failed half way.
TreeKept == mounted /\ gone = {} => tree = BuildTree(disk)

\* However mounts are stacked and taken away, every mount and the shell stand in
\* directories that are there, and no device is mounted twice (ext2_umount).
MountsSound ==
  /\ \A k \in DOMAIN mnt_table : mnt_table[k].target \in Live(mnt_table)
  /\ cwd \in Live(mnt_table)
  /\ \A j, k \in DOMAIN mnt_table : mnt_table[j].dev = mnt_table[k].dev => j = k

Spec == Init /\ MntInit /\ [][Next /\ UNCHANGED mntVars]_<<vars, mntVars>>
=============================================================================
