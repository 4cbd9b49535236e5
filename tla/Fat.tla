-------------------------------- MODULE Fat --------------------------------
(***************************************************************************)
(* The FAT32 file system on the RAM disk (fs/fs.c): the allocation table,  *)
(* the directories as they are on the disk, and the tree of fs_entry_t     *)
(* nodes in memory that every operation updates along with the disk.       *)
(*                                                                         *)
(* The RAM disk does not fail, and nothing of it survives a reboot: the    *)
(* I/O error paths are not reachable in this mode.  One sector makes a     *)
(* cluster.  A file's content is known by the write it came from.  Nodes   *)
(* are limited in number, which stands for a full heap and for a full      *)
(* table of children alike.                                                *)
(***************************************************************************)
EXTENDS Integers, Sequences, FiniteSets, FiniteSetsExt, SequencesExt

CONSTANTS NClusters,   \* data clusters 2 .. NClusters + 1
          K,           \* directory entries per cluster (16)
          NNodes,      \* nodes besides the root
          Names,       \* file names
          Base(_),     \* a name's 8.3 form, which other names may share
          BootDirs,    \* directories that fs_init() makes
          Kept,        \* those of them that nobody removes
          MaxSize,     \* bound on a file's clusters
          NoMem        \* TRUE: the heap may run out

ASSUME FatAssumption == /\ NClusters \in Nat \ {0}
                        /\ K \in Nat /\ K >= 3
                        /\ NNodes \in Nat /\ MaxSize \in Nat
                        /\ Kept \subseteq ToSet(BootDirs)

Clusters == 2..(NClusters + 1)
EOC == 1
Unknown == 0 - 1         \* free_count of a fresh FSInfo sector
Root == 0
Nodes == 0..NNodes

End == [k |-> "end"]           \* directory slots: never used, deleted, and the
Deleted == [k |-> "deleted"]   \* entries "." and ".."
Dot == [k |-> "dot"]
Junk == [k |-> "junk"]         \* a slot of a sector that holds file data

VARIABLES disk,   \* [fat, hint, free, data]: allocation table, fat_alloc_hint,
                  \* FSInfo's free_count and the sectors
          node    \* the nodes of the tree in memory

vars == <<disk, node>>

NoNode == [live |-> FALSE]
----------------------------------------------------------------------------
(* Clusters.                                                               *)

FreeClusters(D) == {c \in Clusters : D.fat[c] = 0}

\* fat_alloc_cluster(): the first free cluster from the hint on, or 0
Found(D) ==
  LET up == {c \in FreeClusters(D) : c >= D.hint}
  IN IF FreeClusters(D) = {} THEN 0 ELSE Min(IF up # {} THEN up ELSE FreeClusters(D))

\* fat_alloc_cluster(): marking it, FSInfo and the hint
Taken(D, c) == [D EXCEPT !.fat[c] = EOC,
                         !.hint = IF c > NClusters THEN 2 ELSE c + 1,
                         !.free = IF @ = Unknown THEN Cardinality(FreeClusters(D)) - 1
                                  ELSE Max({@ - 1, 0})]

\* fat_free_cluster_chain()
RECURSIVE Zeroed(_, _)
Zeroed(D, c) ==
  IF c \in {0, EOC} THEN D
  ELSE Zeroed([D EXCEPT !.fat[c] = 0, !.free = IF @ = Unknown THEN @ ELSE @ + 1], D.fat[c])

FreeChain(D, c) == Zeroed([D EXCEPT !.hint = IF c < @ THEN c ELSE @], c)

\* The chain that starts at c, as the loops over chains follow it
RECURSIVE ChainUpTo(_, _, _)
ChainUpTo(D, c, n) ==
  IF c \in {0, EOC} \/ n = 0 THEN <<>> ELSE <<c>> \o ChainUpTo(D, D.fat[c], n - 1)

Chain(D, c) == ChainUpTo(D, c, NClusters)

\* The cluster loop of fs_write_file(): part i of n goes to cluster c
RECURSIVE Filled(_, _, _, _, _, _)
Filled(D, first, c, i, n, tag) ==
  LET E == [D EXCEPT !.data[c] = [k |-> "data", tag |-> tag, part |-> i]]
      next == Found(E)
  IN IF i >= n THEN [ok |-> TRUE, D |-> E]
     ELSE IF next = 0 THEN [ok |-> FALSE, D |-> FreeChain(E, first)]
     ELSE Filled([Taken(E, next) EXCEPT !.fat[c] = next], first, next, i + 1, n, tag)
----------------------------------------------------------------------------
(* Directories on the disk.                                                *)

EmptyDir == [k |-> "dir", s |-> [i \in 1..K |-> End]]

\* Slot p of the directory whose clusters are ch
Slot(D, ch, p) ==
  LET x == D.data[ch[((p - 1) \div K) + 1]]
  IN IF x.k = "dir" THEN x.s[((p - 1) % K) + 1] ELSE Junk

Positions(ch) == 1..(Len(ch) * K)
IsEntry(s) == s.k = "entry"

SetSlot(D, ch, p, s) ==
  [D EXCEPT !.data[ch[((p - 1) \div K) + 1]] =
     IF @.k = "dir" THEN [@ EXCEPT !.s[((p - 1) % K) + 1] = s] ELSE @]

Matching(D, ch, sn) == {p \in Positions(ch) : IsEntry(Slot(D, ch, p)) /\ Slot(D, ch, p).sn = sn}

\* fat_short_name_exists(): the search ends at the first slot never used
ShortNameExists(D, ch, sn) ==
  \E p \in Matching(D, ch, sn) : \A q \in 1..(p - 1) : Slot(D, ch, q) # End

\* Mutant: the plain form even if it is taken
PlainShortName(D, ch, name) == <<Base(name), 0>>

\* format_short_name_unique(): NAME, else NAME~1, NAME~2 ...
UniqueShortName(D, ch, name) ==
  <<Base(name), Min({i \in 0..NNodes + 1 : ~ ShortNameExists(D, ch, <<Base(name), i>>)})>>

\* fs_write_directory_entry(): the first slot that is free, else a new cluster
PutEntry(D, ch, e) ==
  LET room == {p \in Positions(ch) : Slot(D, ch, p) \in {End, Deleted}}
      c == Found(D)
  IN IF room # {} THEN [ok |-> TRUE, D |-> SetSlot(D, ch, Min(room), e)]
     ELSE IF c = 0 THEN [ok |-> FALSE, D |-> D]
     ELSE [ok |-> TRUE,
           D |-> [Taken(D, c) EXCEPT !.fat[Last(ch)] = c,
                                     !.data[c] = [EmptyDir EXCEPT !.s[1] = e]]]

\* The entry of short name sn gets value e; nothing if there is none
Rewritten(D, ch, sn, e) ==
  LET at == Matching(D, ch, sn) IN IF at = {} THEN D ELSE SetSlot(D, ch, Min(at), e)
----------------------------------------------------------------------------
(* The operations.                                                         *)

Live(n) == node[n].live
Dirs == {n \in Nodes : Live(n) /\ node[n].dir}
FileNodes == {n \in Nodes : Live(n) /\ ~ node[n].dir}
NameTaken(N, d, name) == \E k \in N[d].kids : N[k].live /\ N[k].name = name
FreeNodes(N) == {n \in Nodes : ~ N[n].live}

Entry(sn, isDir, first, size) == [k |-> "entry", sn |-> sn, dir |-> isDir, first |-> first, size |-> size]

NewNode(d, name, sn, isDir, first) ==
  [live |-> TRUE, dir |-> isDir, name |-> name, sn |-> sn, first |-> first, size |-> 0,
   up |-> d, kids |-> {}, tag |-> 0]

Linked(N, d, n, v) == [N EXCEPT ![n] = v, ![d].kids = @ \cup {n}]

\* fs_create_file()
CreateFile(d, name) ==
  LET ch == Chain(disk, node[d].first)
      sn == UniqueShortName(disk, ch, name)
      r == PutEntry(disk, ch, Entry(sn, FALSE, 0, 0))
      n == Min(FreeNodes(node))
  IN /\ d \in Dirs
     /\ ~ NameTaken(node, d, name)
     /\ FreeNodes(node) # {}
     /\ r.ok
     /\ disk' = r.D
     /\ node' = Linked(node, d, n, NewNode(d, name, sn, FALSE, 0))

\* fs_create_dir() up to the new entry: the cluster, and "." and ".." in it
DirCluster(D, c) ==
  [Taken(D, c) EXCEPT !.data[c] = [EmptyDir EXCEPT !.s[1] = Dot, !.s[2] = Dot]]

\* fs_create_dir(), with a cluster and a node at hand
MadeDir(D, N, d, name) ==
  LET c == Found(D)
      E == DirCluster(D, c)
      ch == Chain(E, N[d].first)
      sn == UniqueShortName(E, ch, name)
      r == PutEntry(E, ch, Entry(sn, TRUE, c, 0))
  IN IF r.ok
     THEN [D |-> r.D, N |-> Linked(N, d, Min(FreeNodes(N)), NewNode(d, name, sn, TRUE, c))]
     ELSE [D |-> [E EXCEPT !.fat[c] = 0], N |-> N]

CreateDir(d, name) ==
  /\ d \in Dirs
  /\ ~ NameTaken(node, d, name)
  /\ Found(disk) # 0
  /\ FreeNodes(node) # {}
  /\ disk' = MadeDir(disk, node, d, name).D
  /\ node' = MadeDir(disk, node, d, name).N

\* fs_create_dir() without memory for the node, or for its table of children
CreateDirNoMem(d, name) ==
  LET c == Found(disk)
      E == DirCluster(disk, c)
  IN /\ NoMem
     /\ d \in Dirs
     /\ ~ NameTaken(node, d, name)
     /\ c # 0
     /\ disk' \in {E, [E EXCEPT !.fat[c] = 0]}
     /\ UNCHANGED node

\* Mutant: the old clusters are given back before the new content is in place
WriteFileInPlace(f, size) ==
  LET D == IF node[f].first = 0 THEN disk ELSE FreeChain(disk, node[f].first)
      first == Found(D)
      tag == 1 - node[f].tag
      r == Filled(Taken(D, first), first, first, 1, size, <<f, tag>>)
      ch == Chain(r.D, node[node[f].up].first)
  IN /\ f \in FileNodes
     /\ first # 0
     /\ IF r.ok
        THEN /\ disk' = Rewritten(r.D, ch, node[f].sn, Entry(node[f].sn, FALSE, first, size))
             /\ node' = [node EXCEPT ![f].first = first, ![f].size = size, ![f].tag = tag]
        ELSE disk' = r.D /\ UNCHANGED node

\* fs_write_file(): new chain, directory entry, node, and then the old chain
WriteFile(f, size) ==
  LET first == Found(disk)
      tag == 1 - node[f].tag
      r == Filled(Taken(disk, first), first, first, 1, size, <<f, tag>>)
      ch == Chain(r.D, node[node[f].up].first)
      D == Rewritten(r.D, ch, node[f].sn, Entry(node[f].sn, FALSE, first, size))
  IN /\ f \in FileNodes
     /\ first # 0
     /\ IF r.ok
        THEN /\ disk' = IF node[f].first = 0 THEN D ELSE FreeChain(D, node[f].first)
             /\ node' = [node EXCEPT ![f].first = first, ![f].size = size, ![f].tag = tag]
        ELSE disk' = r.D /\ UNCHANGED node

\* fs_delete_entry_recursive(): clusters and nodes of a whole subtree
RECURSIVE Subtree(_, _)
Subtree(N, n) == {n} \cup UNION {Subtree(N, k) : k \in N[n].kids}

FreeOf(D, N, S) == FoldSet(LAMBDA n, E : IF N[n].first = 0 THEN E ELSE FreeChain(E, N[n].first), D, S)
GoneFrom(N, S) == [n \in Nodes |-> IF n \in S THEN NoNode ELSE N[n]]

\* fs_delete_entry(): the entry on the disk, the subtree, and the parent's link
Delete(d, n) ==
  LET ch == Chain(disk, node[d].first)
      S == Subtree(node, n)
  IN /\ d \in Dirs
     /\ n \in node[d].kids /\ Live(n)
     /\ node[n].name \notin Kept
     /\ disk' = FreeOf(Rewritten(disk, ch, node[n].sn, Deleted), node, S)
     /\ node' = [GoneFrom(node, S) EXCEPT ![d].kids = @ \ {n}]

\* lnxvfs_unlink(): fs_delete_entry_recursive() alone
Unlink(n) ==
  /\ n \in FileNodes
  /\ disk' = FreeOf(disk, node, {n})
  /\ node' = GoneFrom(node, {n})

\* lnxvfs_rmdir(): likewise, for a directory without children
Rmdir(n) ==
  /\ n \in Dirs \ {Root}
  /\ node[n].kids = {} /\ node[n].name \notin Kept
  /\ disk' = FreeOf(disk, node, {n})
  /\ node' = GoneFrom(node, {n})
----------------------------------------------------------------------------
\* fs_format() and fs_load(): an empty root directory in cluster 2
Formatted == [fat |-> [c \in Clusters |-> 0], hint |-> 2, free |-> Unknown,
              data |-> [c \in Clusters |-> EmptyDir]]

RootOnly == [n \in Nodes |-> IF n = Root
                             THEN NewNode(Root, "/", <<"", 0>>, TRUE, 2) ELSE NoNode]

\* fs_init(): the standard directories
Booted == FoldLeft(LAMBDA S, name : MadeDir(S.D, S.N, Root, name),
                   [D |-> Formatted, N |-> RootOnly], BootDirs)

Init == disk = Booted.D /\ node = Booted.N

\* A child that lnxvfs_unlink() or lnxvfs_rmdir() freed is still linked: what the
\* operations that follow this link do is not described
Dangling == \E d \in Dirs : \E k \in node[d].kids : ~ Live(k)

Next ==
  /\ ~ Dangling
  /\ \/ \E d \in Nodes, name \in Names : \/ CreateFile(d, name) \/ CreateDir(d, name)
                                         \/ CreateDirNoMem(d, name)
     \/ \E f \in Nodes, size \in 0..MaxSize : WriteFile(f, size)
     \/ \E d, n \in Nodes : Delete(d, n)
     \/ \E n \in Nodes : Unlink(n) \/ Rmdir(n)

Spec == Init /\ [][Next]_vars
----------------------------------------------------------------------------
(* Properties                                                              *)

TypeOK ==
  /\ disk.fat \in [Clusters -> {0, EOC} \cup Clusters]
  /\ disk.hint \in Clusters
  /\ disk.free \in {Unknown} \cup 0..NClusters
  /\ \A n \in Nodes : Live(n) => node[n].first \in {0} \cup Clusters /\ node[n].size \in 0..MaxSize

ClustersOf(n) == ToSet(Chain(disk, node[n].first))

\* A file's clusters are its own: allocated, ended by the end-of-chain mark,
\* and shared with no other file or directory.
FilesPrivate ==
  \A f \in FileNodes :
    /\ node[f].first # 0 => disk.fat[Last(Chain(disk, node[f].first))] = EOC
    /\ \A n \in Nodes \ {f} : Live(n) => ClustersOf(f) \cap ClustersOf(n) = {}

\* A file reads back as it was last written: its chain holds the parts of that
\* write in order, and a write that fails half way leaves the old content.
ReadsBack ==
  \A f \in FileNodes :
    LET ch == Chain(disk, node[f].first)
    IN \A i \in 1..node[f].size : /\ i <= Len(ch)
                                  /\ disk.data[ch[i]] = [k |-> "data", tag |-> <<f, node[f].tag>>, part |-> i]

\* Every file and directory of the tree in memory has exactly one entry of its
\* short name in its parent on the disk, with its cluster and its size.
TreeOnDisk ==
  \A n \in Nodes \ {Root} : Live(n) =>
    LET ch == Chain(disk, node[node[n].up].first)
        at == Matching(disk, ch, node[n].sn)
    IN /\ Cardinality(at) = 1
       /\ \A p \in at : Slot(disk, ch, p) = Entry(node[n].sn, node[n].dir, node[n].first, node[n].size)

\* What is removed in memory by fs_delete_entry() is removed on the disk: an entry that a directory
\* holds on the disk is a child of a directory that has this cluster.
NoGhostEntry ==
  ~ Dangling => \A d \in Dirs :
    LET ch == Chain(disk, node[d].first)
    IN \A p \in Positions(ch) : IsEntry(Slot(disk, ch, p)) =>
         \E n \in FileNodes \cup Dirs : node[n].sn = Slot(disk, ch, p).sn /\ node[node[n].up].first = node[d].first

\* A directory's children are nodes that exist: no link outlives its node.
KidsExist == ~ Dangling => \A d \in Dirs : \A k \in node[d].kids : Live(k) /\ node[k].up = d

\* No cluster is lost: one that is marked in use belongs to some file or directory.
NoLostCluster ==
  \A c \in Clusters : disk.fat[c] # 0 => \E n \in Nodes : Live(n) /\ c \in ClustersOf(n)

\* FSInfo never promises more clusters than are free.
FreeCountSound == disk.free # Unknown => disk.free <= Cardinality(FreeClusters(disk))
============================================================================
