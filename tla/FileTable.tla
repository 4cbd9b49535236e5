----------------------------- MODULE FileTable -----------------------------
(***************************************************************************)
(* Open files and descriptor tables (core/file.c): struct file objects     *)
(* counted by the descriptors and messages that hold them, and files_t     *)
(* tables counted by the processes that share them.  A block with count 0  *)
(* is free memory.  What a file is (a tty, a socket, a file of the VFS) is *)
(* the matter of other modules.                                            *)
(***************************************************************************)
EXTENDS Integers, FiniteSets

CONSTANTS Procs,    \* processes and threads
          Tabs,     \* memory blocks for files_t
          Files,    \* memory blocks for struct file
          NFd,      \* LNX_MAX_FDS
          Nil,
          MaxRefs   \* bound on a file's count

ASSUME FileAssumption ==
  /\ IsFiniteSet(Procs) /\ IsFiniteSet(Tabs)
  /\ Nil \notin Tabs /\ Nil \notin Files
  /\ NFd \in Nat /\ NFd >= 3
  /\ MaxRefs \in Nat

Fds == 0..(NFd - 1)
Slots == Tabs \X Fds

VARIABLES
  tab,      \* process_t.files
  fds,      \* files_t.fds, by table and descriptor
  trefs,    \* files_t.refs
  refs,     \* file.refs
  inflight  \* references of a file held by messages of unix sockets

vars == <<tab, fds, trefs, refs, inflight>>

Init ==
  /\ tab = [p \in Procs |-> Nil]
  /\ fds = [s \in Slots |-> Nil]
  /\ trefs = [t \in Tabs |-> 0]
  /\ refs = [f \in Files |-> 0]
  /\ inflight = [f \in Files |-> 0]

Holders(f) == {s \in Slots : fds[s] = f}
HeldIn(t, f) == {s \in Slots : s[1] = t /\ fds[s] = f}
Full(t) == \A i \in Fds : fds[<<t, i>>] # Nil
FirstFree(t, i) == fds[<<t, i>>] = Nil /\ \A j \in 0..(i - 1) : fds[<<t, j>>] # Nil
Alive(p) == tab[p] # Nil
----------------------------------------------------------------------------
(* One table.                                                              *)

\* fd_table_init(): a new table with the console at 0, 1 and 2, or less when
\* memory runs out
TableInit(p) ==
  /\ ~ Alive(p)
  /\ \E t \in Tabs, n \in 0..3 : \E g \in [0..2 -> Files] :
       /\ trefs[t] = 0
       /\ \A i \in 0..(n - 1) : refs[g[i]] = 0
       /\ \A i, j \in 0..(n - 1) : g[i] = g[j] => i = j
       /\ tab' = [tab EXCEPT ![p] = t]
       /\ trefs' = [trefs EXCEPT ![t] = 1]
       /\ fds' = [s \in Slots |-> IF s[1] # t THEN fds[s] ELSE
                                  IF s[2] < n THEN g[s[2]] ELSE Nil]
       /\ refs' = [f \in Files |-> IF \E i \in 0..(n - 1) : g[i] = f
                                   THEN 1 ELSE refs[f]]
  /\ UNCHANGED inflight

\* file_new() and fd_install(): open, socket, accept.  With no descriptor free
\* the new file is closed again, which is no change
Open(p, f) ==
  /\ Alive(p)
  /\ refs[f] = 0
  /\ \E i \in Fds : /\ FirstFree(tab[p], i)
                    /\ fds' = [fds EXCEPT ![<<tab[p], i>>] = f]
  /\ refs' = [refs EXCEPT ![f] = 1]
  /\ UNCHANGED <<tab, trefs, inflight>>

\* Mutant: the descriptor is left in place
CloseKeepsFd(p, i) ==
  /\ Alive(p)
  /\ fds[<<tab[p], i>>] # Nil
  /\ refs' = [refs EXCEPT ![fds[<<tab[p], i>>]] = @ - 1]
  /\ UNCHANGED <<tab, fds, trefs, inflight>>

\* fd_close() and file_close()
Close(p, i) ==
  /\ Alive(p)
  /\ fds[<<tab[p], i>>] # Nil
  /\ fds' = [fds EXCEPT ![<<tab[p], i>>] = Nil]
  /\ refs' = [refs EXCEPT ![fds[<<tab[p], i>>]] = @ - 1]
  /\ UNCHANGED <<tab, trefs, inflight>>

\* fd_dup(): the reference is taken before a free descriptor is looked for
Dup(p, i) ==
  LET f == fds[<<tab[p], i>>]
  IN /\ Alive(p)
     /\ f # Nil /\ refs[f] < MaxRefs
     /\ refs' = [refs EXCEPT ![f] = @ + 1]
     /\ \/ Full(tab[p]) /\ UNCHANGED fds
        \/ \E j \in Fds : /\ FirstFree(tab[p], j)
                          /\ fds' = [fds EXCEPT ![<<tab[p], j>>] = f]
     /\ UNCHANGED <<tab, trefs, inflight>>

\* Mutant: dup2 overwrites the descriptor without counting
Dup2Uncounted(p, i, j) ==
  /\ Alive(p)
  /\ i # j /\ fds[<<tab[p], i>>] # Nil
  /\ fds' = [fds EXCEPT ![<<tab[p], j>>] = fds[<<tab[p], i>>]]
  /\ UNCHANGED <<tab, trefs, refs, inflight>>

\* fd_dup2(): what was open at j is closed first
Dup2(p, i, j) ==
  LET f == fds[<<tab[p], i>>]
      g == fds[<<tab[p], j>>]
  IN /\ Alive(p)
     /\ i # j /\ f # Nil /\ refs[f] < MaxRefs
     /\ fds' = [fds EXCEPT ![<<tab[p], j>>] = f]
     /\ refs' = [h \in Files |-> refs[h] + (IF h = f THEN 1 ELSE 0)
                                         - (IF h = g THEN 1 ELSE 0)]
     /\ UNCHANGED <<tab, trefs, inflight>>
----------------------------------------------------------------------------
(* Tables and processes.                                                   *)

\* fd_table_fork(): the child's table holds what the parent's holds
Fork(p, c) ==
  /\ Alive(p) /\ ~ Alive(c)
  /\ \A f \in Files : refs[f] + Cardinality(HeldIn(tab[p], f)) <= MaxRefs
  /\ \E t \in Tabs :
       /\ trefs[t] = 0
       /\ tab' = [tab EXCEPT ![c] = t]
       /\ trefs' = [trefs EXCEPT ![t] = 1]
       /\ fds' = [s \in Slots |-> IF s[1] = t THEN fds[<<tab[p], s[2]>>] ELSE fds[s]]
  /\ refs' = [f \in Files |-> refs[f] + Cardinality(HeldIn(tab[p], f))]
  /\ UNCHANGED inflight

\* fd_table_share(): clone(CLONE_FILES)
Share(p, c) ==
  /\ Alive(p) /\ ~ Alive(c)
  /\ tab' = [tab EXCEPT ![c] = tab[p]]
  /\ trefs' = [trefs EXCEPT ![tab[p]] = @ + 1]
  /\ UNCHANGED <<fds, refs, inflight>>

\* fd_table_exit(): the last process to go closes every file of the table
TableExit(p) ==
  /\ Alive(p)
  /\ tab' = [tab EXCEPT ![p] = Nil]
  /\ trefs' = [trefs EXCEPT ![tab[p]] = @ - 1]
  /\ IF trefs[tab[p]] > 1 THEN UNCHANGED <<fds, refs>>
     ELSE /\ fds' = [s \in Slots |-> IF s[1] = tab[p] THEN Nil ELSE fds[s]]
          /\ refs' = [f \in Files |-> refs[f] - Cardinality(HeldIn(tab[p], f))]
  /\ UNCHANGED inflight
----------------------------------------------------------------------------
(* Files in messages (SCM_RIGHTS).                                         *)

\* sc_sendmsg() takes a reference for the message
Post(p, i) ==
  LET f == fds[<<tab[p], i>>]
  IN /\ Alive(p)
     /\ f # Nil /\ refs[f] < MaxRefs
     /\ refs' = [refs EXCEPT ![f] = @ + 1]
     /\ inflight' = [inflight EXCEPT ![f] = @ + 1]
     /\ UNCHANGED <<tab, fds, trefs>>

\* sc_recvmsg() gives the message's reference to a descriptor, if one is free
Deliver(p, f) ==
  /\ Alive(p)
  /\ inflight[f] > 0
  /\ inflight' = [inflight EXCEPT ![f] = @ - 1]
  /\ \/ Full(tab[p]) /\ UNCHANGED fds
     \/ \E i \in Fds : /\ FirstFree(tab[p], i)
                       /\ fds' = [fds EXCEPT ![<<tab[p], i>>] = f]
  /\ UNCHANGED <<tab, trefs, refs>>

\* The message is read without its files, or its socket is closed
Discard(f) ==
  /\ inflight[f] > 0
  /\ inflight' = [inflight EXCEPT ![f] = @ - 1]
  /\ refs' = [refs EXCEPT ![f] = @ - 1]
  /\ UNCHANGED <<tab, fds, trefs>>

Next ==
  \/ \E p \in Procs : \/ TableInit(p) \/ TableExit(p)
                      \/ \E f \in Files : Open(p, f) \/ Deliver(p, f)
                      \/ \E i \in Fds : \/ Close(p, i) \/ Dup(p, i) \/ Post(p, i)
                                        \/ \E j \in Fds : Dup2(p, i, j)
                      \/ \E c \in Procs : Fork(p, c) \/ Share(p, c)
  \/ \E f \in Files : Discard(f)

Spec == Init /\ [][Next]_vars
----------------------------------------------------------------------------
(* Properties                                                              *)

TypeOK ==
  /\ tab \in [Procs -> Tabs \cup {Nil}]
  /\ fds \in [Slots -> Files \cup {Nil}]
  /\ trefs \in [Tabs -> Nat]
  /\ refs \in [Files -> Nat]
  /\ inflight \in [Files -> Nat]

\* A table's count is the number of processes that use it.
TableCount == \A t \in Tabs : trefs[t] = Cardinality({p \in Procs : tab[p] = t})

\* A freed table holds nothing.
FreeTableEmpty == \A s \in Slots : trefs[s[1]] = 0 => fds[s] = Nil

\* A file's count covers the descriptors and messages that hold it.
CountCovers == \A f \in Files : refs[f] >= Cardinality(Holders(f)) + inflight[f]

\* No descriptor and no message leads to a file that has been freed, whatever
\* mix of dup, dup2, fork, clone, exit and message passing shared it.
NoUseAfterFree ==
  /\ \A s \in Slots : fds[s] # Nil => refs[fds[s]] > 0
  /\ \A f \in Files : inflight[f] > 0 => refs[f] > 0

============================================================================
