-------------------------- MODULE FileTableProofs --------------------------
(***************************************************************************)
(* Reference counting of open files is safe for any number of processes,   *)
(* tables, descriptors and files.                                          *)
(***************************************************************************)
EXTENDS FileTable, FiniteSetTheorems, TLAPS

\* How many slots of a table F hold file f
Cnt(F, f) == Cardinality({s \in Slots : F[s] = f})

\* The counts that keep each other true
IInv == TypeOK /\ TableCount /\ FreeTableEmpty /\ CountCovers

\* There are finitely many descriptors.
LEMMA SlotsFinite == IsFiniteSet(Slots)
<1>1. IsFiniteSet(Fds)
  BY FileAssumption, FS_Interval DEF FileAssumption, Fds
<1> QED BY <1>1, FileAssumption, FS_Product DEF FileAssumption, Slots

\* The number of holders of a file is a natural number.
LEMMA CntType == ASSUME NEW F, NEW f
                 PROVE  /\ IsFiniteSet({s \in Slots : F[s] = f})
                        /\ Cnt(F, f) \in Nat
<1>1. IsFiniteSet({s \in Slots : F[s] = f})
  BY SlotsFinite, FS_Subset
<1> QED BY <1>1, FS_CardinalityType DEF Cnt

\* A file has no holder exactly when its number of holders is 0.
LEMMA CntZero == ASSUME NEW F, NEW f
                 PROVE  Cnt(F, f) = 0 <=> \A s \in Slots : F[s] # f
BY CntType, FS_EmptySet DEF Cnt

\* Writing one slot changes the number of holders of the file that was there
\* and of the file that is there now, each by one (fd_install, fd_close, fd_dup2).
LEMMA FdsSet == ASSUME IInv, NEW s \in Slots, NEW v \in Files \cup {Nil}, NEW f \in Files,
                       fds' = [fds EXCEPT ![s] = v]
                PROVE  Cnt(fds', f) =
                         Cnt(fds, f) + (IF f = v THEN 1 ELSE 0)
                                     - (IF f = fds[s] THEN 1 ELSE 0)
<1> DEFINE HF == {x \in Slots : fds[x] = f}
           HG == {x \in Slots : fds'[x] = f}
<1>0. IsFiniteSet(HF) /\ Cardinality(HF) \in Nat
  BY CntType, Zenon DEF Cnt
<1>a. Cnt(fds, f) = Cardinality(HF) /\ Cnt(fds', f) = Cardinality(HG)
  BY DEF Cnt
<1>b. s \in HF <=> f = fds[s]
  OBVIOUS
<1>1. CASE f = v
  <2>1. HG = HF \cup {s}
    BY <1>1 DEF IInv, TypeOK
  <2>2. Cardinality(HG) = IF s \in HF THEN Cardinality(HF) ELSE Cardinality(HF) + 1
    <3> HIDE DEF HF, HG
    <3> QED BY <1>0, <2>1, FS_AddElement, Zenon
  <2> HIDE DEF HF, HG
  <2> QED BY <1>0, <1>a, <1>b, <1>1, <2>2
<1>2. CASE f # v
  <2>1. HG = HF \ {s}
    BY <1>2 DEF IInv, TypeOK
  <2>2. Cardinality(HG) = IF s \in HF THEN Cardinality(HF) - 1 ELSE Cardinality(HF)
    <3> HIDE DEF HF, HG
    <3> QED BY <1>0, <2>1, FS_RemoveElement, Zenon
  <2> HIDE DEF HF, HG
  <2> QED BY <1>0, <1>a, <1>b, <1>2, <2>2
<1> QED BY <1>1, <1>2

\* Emptying a table takes from each file the holders it had there (fd_table_exit).
LEMMA FdsClear == ASSUME IInv, NEW t \in Tabs, NEW f \in Files,
                         fds' = [s \in Slots |-> IF s[1] = t THEN Nil ELSE fds[s]]
                  PROVE  /\ Cnt(fds', f) = Cnt(fds, f) - Cardinality(HeldIn(t, f))
                         /\ Cardinality(HeldIn(t, f)) \in Nat
                         /\ Cardinality(HeldIn(t, f)) <= Cnt(fds, f)
<1> DEFINE HF == {s \in Slots : fds[s] = f}
           HG == {s \in Slots : fds'[s] = f}
           Here == HeldIn(t, f)
<1>1. IsFiniteSet(HF)
  BY CntType, Zenon
<1>2. HG = HF \ Here
  BY FileAssumption DEF FileAssumption, HeldIn
<1>3. Here \in SUBSET HF /\ HF \cap Here = Here
  BY DEF HeldIn
<1>4. Cnt(fds, f) = Cardinality(HF) /\ Cnt(fds', f) = Cardinality(HG)
  BY DEF Cnt
<1> HIDE DEF HF, HG, Here
<1>5. IsFiniteSet(Here) /\ Cardinality(Here) <= Cardinality(HF)
  BY <1>1, <1>3, FS_Subset
<1>6. Cardinality(HF \ Here) = Cardinality(HF) - Cardinality(HF \cap Here)
  BY <1>1, <1>5, FS_Difference, Zenon
<1>7. Cardinality(Here) \in Nat
  BY <1>5, FS_CardinalityType
<1>8. /\ Cnt(fds', f) = Cnt(fds, f) - Cardinality(Here)
      /\ Cardinality(Here) \in Nat
      /\ Cardinality(Here) <= Cnt(fds, f)
  BY <1>2, <1>3, <1>4, <1>5, <1>6, <1>7, Zenon
<1> QED BY <1>8 DEF Here

\* Copying table u into an empty table t gives each file as many more holders
\* as it has in u (fd_table_fork).
LEMMA FdsCopy == ASSUME IInv, NEW t \in Tabs, NEW u \in Tabs, t # u, NEW f \in Files,
                        \A s \in Slots : s[1] = t => fds[s] = Nil,
                        fds' = [s \in Slots |-> IF s[1] = t THEN fds[<<u, s[2]>>] ELSE fds[s]]
                 PROVE  /\ Cnt(fds', f) = Cnt(fds, f) + Cardinality(HeldIn(u, f))
                        /\ Cardinality(HeldIn(u, f)) \in Nat
<1> DEFINE HF == {s \in Slots : fds[s] = f}
           HG == {s \in Slots : fds'[s] = f}
           Here == HeldIn(u, f)
           New == {s \in Slots : s[1] = t /\ fds[<<u, s[2]>>] = f}
           b == [s \in Here |-> <<t, s[2]>>]
<1>1. IsFiniteSet(HF)
  BY CntType, Zenon
<1>2. HG = HF \cup New /\ HF \cap New = {}
  BY FileAssumption DEF FileAssumption
<1>3. Here \in SUBSET HF
  BY DEF HeldIn
<1>4. Cnt(fds, f) = Cardinality(HF) /\ Cnt(fds', f) = Cardinality(HG)
  BY DEF Cnt
<1>5. IsFiniteSet(Here) /\ Cardinality(Here) \in Nat
  BY <1>1, <1>3, FS_Subset, FS_CardinalityType
<1>6. ExistsBijection(Here, New)
  <2>1. b \in [Here -> New]
    BY DEF Slots, HeldIn
  <2>2. \A x, y \in Here : b[x] = b[y] => x = y
    BY DEF Slots, HeldIn
  <2>3. \A z \in New : \E x \in Here : b[x] = z
    <3> TAKE z \in New
    <3>1. <<u, z[2]>> \in Here /\ z = <<t, z[2]>>
      BY DEF Slots, HeldIn
    <3>2. b[<<u, z[2]>>] = z
      BY <3>1
    <3> QED BY <3>1, <3>2
  <2>4. b \in Bijection(Here, New)
    <3> HIDE DEF b, Here, New
    <3> QED BY <2>1, <2>2, <2>3 DEF Bijection, Injection, Surjection, IsInjective
  <2> QED BY <2>4 DEF ExistsBijection
<1> HIDE DEF HF, HG, Here, New, b
<1>7. IsFiniteSet(New) /\ Cardinality(New) = Cardinality(Here)
  BY <1>5, <1>6, FS_Bijection
<1>8. Cardinality(HF \cup New) = Cardinality(HF) + Cardinality(New) - Cardinality(HF \cap New)
  BY <1>1, <1>7, FS_Union
<1>9. Cnt(fds', f) = Cnt(fds, f) + Cardinality(Here)
  <2>1. Cardinality(HF) \in Nat
    BY <1>1, FS_CardinalityType
  <2>2. Cardinality(HF \cap New) = 0
    BY <1>2, FS_EmptySet, Zenon
  <2>3. Cnt(fds', f) = Cardinality(HF \cup New)
    BY <1>2, <1>4
  <2> QED BY <1>4, <1>5, <1>7, <1>8, <2>1, <2>2, <2>3
<1> QED BY <1>5, <1>9 DEF Here

\* Filling an empty table with n different files that had no holder gives each
\* of them one (fd_table_init).
LEMMA FdsFill == ASSUME IInv, NEW t \in Tabs, NEW n \in 0..3,
                        NEW g \in [0..2 -> Files], NEW f \in Files,
                        \A s \in Slots : s[1] = t => fds[s] = Nil,
                        \A i \in 0..(n - 1) : Cnt(fds, g[i]) = 0,
                        \A i, j \in 0..(n - 1) : g[i] = g[j] => i = j,
                        fds' = [s \in Slots |-> IF s[1] # t THEN fds[s] ELSE
                                                IF s[2] < n THEN g[s[2]] ELSE Nil]
                 PROVE  Cnt(fds', f) = IF \E i \in 0..(n - 1) : g[i] = f THEN 1 ELSE Cnt(fds, f)
<1> DEFINE HF == {s \in Slots : fds[s] = f}
           HG == {s \in Slots : fds'[s] = f}
<1>1. \A s \in Slots : s[2] \in Nat /\ s = <<s[1], s[2]>>
  BY FileAssumption DEF Slots, Fds, FileAssumption
<1>2. CASE \E i \in 0..(n - 1) : g[i] = f
  <2>1. PICK i \in 0..(n - 1) : g[i] = f
    BY <1>2
  <2>2. \A s \in Slots : fds[s] # f
    BY <2>1, CntZero
  <2>3. <<t, i>> \in Slots
    BY <2>1, FileAssumption DEF FileAssumption, Slots, Fds
  <2>4. \A s \in Slots : s[1] = t /\ s[2] < n => s[2] \in 0..(n - 1)
    BY <1>1
  <2>5. fds'[<<t, i>>] = f
    BY <2>1, <2>3
  <2>6. ASSUME NEW s \in Slots, fds'[s] = f PROVE s = <<t, i>>
    <3>1. s[1] = t
      BY <2>6, <2>2
    <3>2. s[2] < n /\ g[s[2]] = f
      BY <2>6, <3>1, FileAssumption DEF FileAssumption
    <3>3. s[2] = i
      BY <2>1, <2>4, <3>1, <3>2
    <3> QED BY <1>1, <3>1, <3>3
  <2>7. HG = {<<t, i>>}
    BY <2>3, <2>5, <2>6
  <2>8. Cnt(fds', f) = 1
    BY <2>7, FS_Singleton, Zenon DEF Cnt
  <2> QED BY <1>2, <2>8
<1>3. CASE ~ \E i \in 0..(n - 1) : g[i] = f
  <2>1. ASSUME NEW s \in Slots PROVE fds'[s] = f <=> fds[s] = f
    <3>1. CASE s[1] # t
      BY <3>1
    <3>2. CASE s[1] = t /\ s[2] < n
      <4>1. s[2] \in 0..(n - 1)
        BY <1>1, <3>2
      <4> QED BY <4>1, <3>2, <1>3, FileAssumption DEF FileAssumption
    <3>3. CASE s[1] = t /\ ~ (s[2] < n)
      BY <3>3, FileAssumption DEF FileAssumption
    <3> QED BY <3>1, <3>2, <3>3
  <2>2. HG = HF
    BY <2>1
  <2>3. Cnt(fds', f) = Cnt(fds, f)
    BY <2>2, Zenon DEF Cnt
  <2> QED BY <1>3, <2>3
<1> QED BY <1>2, <1>3

\* How many processes of the assignment T use table t
Users(T, t) == Cardinality({p \in Procs : T[p] = t})

\* The number of users of a table is a natural number, and 0 only if it has none.
LEMMA UsersType == ASSUME NEW T, NEW t
                   PROVE  /\ Users(T, t) \in Nat
                          /\ Users(T, t) = 0 <=> \A p \in Procs : T[p] # t
<1>1. IsFiniteSet({p \in Procs : T[p] = t})
  BY FileAssumption, FS_Subset DEF FileAssumption
<1> QED BY <1>1, FS_CardinalityType, FS_EmptySet DEF Users

\* Giving a process another table changes the two tables' numbers by one.
LEMMA UsersSet == ASSUME IInv, NEW p \in Procs, NEW v \in Tabs \cup {Nil}, NEW t \in Tabs,
                         tab' = [tab EXCEPT ![p] = v]
                  PROVE  Users(tab', t) = Users(tab, t) + (IF t = v THEN 1 ELSE 0)
                                                        - (IF t = tab[p] THEN 1 ELSE 0)
<1> DEFINE HF == {x \in Procs : tab[x] = t}
           HG == {x \in Procs : tab'[x] = t}
<1>0. IsFiniteSet(HF) /\ Cardinality(HF) \in Nat
  BY FileAssumption, FS_Subset, FS_CardinalityType DEF FileAssumption
<1>a. Users(tab, t) = Cardinality(HF) /\ Users(tab', t) = Cardinality(HG)
  BY DEF Users
<1>b. p \in HF <=> t = tab[p]
  OBVIOUS
<1>1. CASE t = v
  <2>1. HG = HF \cup {p}
    BY <1>1 DEF IInv, TypeOK
  <2>2. Cardinality(HG) = IF p \in HF THEN Cardinality(HF) ELSE Cardinality(HF) + 1
    <3> HIDE DEF HF, HG
    <3> QED BY <1>0, <2>1, FS_AddElement, Zenon
  <2> HIDE DEF HF, HG
  <2> QED BY <1>0, <1>a, <1>b, <1>1, <2>2
<1>2. CASE t # v
  <2>1. HG = HF \ {p}
    BY <1>2 DEF IInv, TypeOK
  <2>2. Cardinality(HG) = IF p \in HF THEN Cardinality(HF) - 1 ELSE Cardinality(HF)
    <3> HIDE DEF HF, HG
    <3> QED BY <1>0, <2>1, FS_RemoveElement, Zenon
  <2> HIDE DEF HF, HG
  <2> QED BY <1>0, <1>a, <1>b, <1>2, <2>2
<1> QED BY <1>1, <1>2

\* The table of a live process is allocated.
LEMMA AliveTable == ASSUME IInv, NEW p \in Procs, Alive(p)
                    PROVE  tab[p] \in Tabs /\ trefs[tab[p]] > 0
<1>1. tab[p] \in Tabs
  BY DEF IInv, TypeOK, Alive
<1>2. trefs[tab[p]] = Users(tab, tab[p])
  BY <1>1 DEF IInv, TableCount, Users
<1>3. Users(tab, tab[p]) # 0 /\ Users(tab, tab[p]) \in Nat
  BY UsersType
<1> QED BY <1>1, <1>2, <1>3

\* No file is held by a table that is free.
LEMMA FreeTable == ASSUME IInv, NEW t \in Tabs, trefs[t] = 0
                   PROVE  \A s \in Slots : s[1] = t => fds[s] = Nil
BY DEF IInv, FreeTableEmpty

\* What the proof uses of the counts of the files.
LEMMA Covers == ASSUME IInv, NEW f \in Files
                PROVE  /\ refs[f] \in Nat /\ inflight[f] \in Nat /\ Cnt(fds, f) \in Nat
                       /\ refs[f] >= Cnt(fds, f) + inflight[f]
BY CntType, ZenonT(40) DEF IInv, TypeOK, CountCovers, Cnt, Holders

\* The file of a used descriptor is counted, so it is allocated.
LEMMA HeldIsCounted == ASSUME IInv, NEW s \in Slots, fds[s] # Nil
                       PROVE  fds[s] \in Files /\ Cnt(fds, fds[s]) > 0 /\ refs[fds[s]] > 0
<1>1. fds[s] \in Files
  BY DEF IInv, TypeOK
<1>2. Cnt(fds, fds[s]) # 0
  BY CntZero
<1> QED BY <1>1, <1>2, Covers

\* A step of one table: the slot s of a table in use is written, the processes
\* keep their tables, and the counts cover the new state.
LEMMA SlotStep == ASSUME IInv, NEW t \in Tabs, trefs[t] > 0, NEW i \in Fds,
                         NEW v \in Files \cup {Nil},
                         fds' = [fds EXCEPT ![<<t, i>>] = v],
                         UNCHANGED <<tab, trefs>>,
                         refs' \in [Files -> Nat], inflight' \in [Files -> Nat],
                         \A f \in Files : refs'[f] >= Cnt(fds', f) + inflight'[f]
                  PROVE  IInv'
<1>1. <<t, i>> \in Slots
  BY DEF Slots
<1>2. TypeOK'
  BY <1>1 DEF IInv, TypeOK
<1>3. TableCount'
  BY DEF IInv, TableCount
<1>4. FreeTableEmpty'
  BY <1>1 DEF IInv, TypeOK, FreeTableEmpty
<1>5. CountCovers'
  BY DEF CountCovers, Cnt, Holders
<1> QED BY <1>2, <1>3, <1>4, <1>5 DEF IInv
----------------------------------------------------------------------------
(* One lemma per operation.                                                *)

\* open, socket and accept preserve the invariant.
LEMMA OpenStep == ASSUME IInv, NEW p \in Procs, NEW f \in Files, Open(p, f)
                  PROVE  IInv'
<1>1. PICK i \in Fds : /\ FirstFree(tab[p], i)
                       /\ fds' = [fds EXCEPT ![<<tab[p], i>>] = f]
  BY Zenon DEF Open
<1>2. tab[p] \in Tabs /\ trefs[tab[p]] > 0
  BY AliveTable DEF Open
<1>3. <<tab[p], i>> \in Slots /\ fds[<<tab[p], i>>] = Nil
  BY <1>1, <1>2 DEF Slots, FirstFree
<1>4. refs' = [refs EXCEPT ![f] = 1] /\ refs[f] = 0 /\ UNCHANGED <<tab, trefs, inflight>>
  BY DEF Open
<1>5. refs' \in [Files -> Nat] /\ inflight' \in [Files -> Nat]
  BY <1>4 DEF IInv, TypeOK
<1>6. ASSUME NEW h \in Files PROVE refs'[h] >= Cnt(fds', h) + inflight'[h]
  <2>1. Cnt(fds', h) = Cnt(fds, h) + (IF h = f THEN 1 ELSE 0)
                                   - (IF h = fds[<<tab[p], i>>] THEN 1 ELSE 0)
    BY <1>1, <1>3, FdsSet, ZenonT(40)
  <2>2. h # fds[<<tab[p], i>>]
    BY <1>3, FileAssumption DEF FileAssumption
  <2>3. /\ refs[h] \in Nat /\ inflight[h] \in Nat /\ Cnt(fds, h) \in Nat
        /\ refs[h] >= Cnt(fds, h) + inflight[h]
    BY Covers
  <2>4. refs'[h] = (IF h = f THEN 1 ELSE refs[h]) /\ inflight'[h] = inflight[h]
    BY <1>4 DEF IInv, TypeOK
  <2> QED BY <1>4, <2>1, <2>2, <2>3, <2>4
<1> QED BY <1>1, <1>2, <1>4, <1>5, <1>6, SlotStep, Zenon

\* close preserves the invariant.
LEMMA CloseStep == ASSUME IInv, NEW p \in Procs, NEW i \in Fds, Close(p, i)
                   PROVE  IInv'
<1> DEFINE f == fds[<<tab[p], i>>]
<1>2. tab[p] \in Tabs /\ trefs[tab[p]] > 0
  BY AliveTable DEF Close
<1>3. <<tab[p], i>> \in Slots
  BY <1>2 DEF Slots
<1>4. /\ fds' = [fds EXCEPT ![<<tab[p], i>>] = Nil]
      /\ refs' = [refs EXCEPT ![f] = refs[f] - 1]
      /\ UNCHANGED <<tab, trefs, inflight>>
      /\ f # Nil
  BY DEF Close
<1>5. f \in Files /\ refs[f] > 0
  BY <1>3, <1>4, HeldIsCounted
<1>6. refs' \in [Files -> Nat] /\ inflight' \in [Files -> Nat]
  BY <1>4, <1>5 DEF IInv, TypeOK
<1>7. ASSUME NEW h \in Files PROVE refs'[h] >= Cnt(fds', h) + inflight'[h]
  <2>1. Cnt(fds', h) = Cnt(fds, h) + (IF h = Nil THEN 1 ELSE 0)
                                   - (IF h = f THEN 1 ELSE 0)
    BY <1>3, <1>4, FdsSet, ZenonT(40)
  <2>2. h # Nil
    BY FileAssumption DEF FileAssumption
  <2>3. /\ refs[h] \in Nat /\ inflight[h] \in Nat /\ Cnt(fds, h) \in Nat
        /\ refs[h] >= Cnt(fds, h) + inflight[h]
    BY Covers
  <2>4. refs'[h] = (IF h = f THEN refs[h] - 1 ELSE refs[h]) /\ inflight'[h] = inflight[h]
    BY <1>4, <1>5 DEF IInv, TypeOK
  <2> QED BY <2>1, <2>2, <2>3, <2>4
<1> QED BY <1>2, <1>4, <1>6, <1>7, SlotStep, Zenon

\* dup preserves the invariant, also when it leaks its reference.
LEMMA DupStep == ASSUME IInv, NEW p \in Procs, NEW i \in Fds, Dup(p, i)
                 PROVE  IInv'
<1> DEFINE f == fds[<<tab[p], i>>]
<1>2. tab[p] \in Tabs /\ trefs[tab[p]] > 0
  BY AliveTable DEF Dup
<1>3. <<tab[p], i>> \in Slots
  BY <1>2 DEF Slots
<1>4. /\ refs' = [refs EXCEPT ![f] = refs[f] + 1]
      /\ UNCHANGED <<tab, trefs, inflight>>
      /\ f # Nil
  BY DEF Dup
<1>5. f \in Files
  BY <1>3, <1>4, HeldIsCounted
<1>6. refs' \in [Files -> Nat] /\ inflight' \in [Files -> Nat]
  BY <1>4, <1>5 DEF IInv, TypeOK
<1>7. \A h \in Files : /\ refs'[h] = (IF h = f THEN refs[h] + 1 ELSE refs[h])
                       /\ inflight'[h] = inflight[h]
  BY <1>4, <1>5 DEF IInv, TypeOK
<1>8. CASE UNCHANGED fds
  <2>1. ASSUME NEW h \in Files PROVE refs'[h] >= Cnt(fds', h) + inflight'[h]
    BY <1>7, <1>8, Covers
  <2>2. fds' = [fds EXCEPT ![<<tab[p], i>>] = f]
    BY <1>3, <1>8 DEF IInv, TypeOK
  <2> QED BY <1>2, <1>4, <1>5, <1>6, <2>1, <2>2, SlotStep, Zenon
<1>9. CASE \E j \in Fds : /\ FirstFree(tab[p], j)
                          /\ fds' = [fds EXCEPT ![<<tab[p], j>>] = f]
  <2>1. PICK j \in Fds : /\ FirstFree(tab[p], j)
                         /\ fds' = [fds EXCEPT ![<<tab[p], j>>] = f]
    BY <1>9, Zenon
  <2>2. <<tab[p], j>> \in Slots /\ fds[<<tab[p], j>>] = Nil
    BY <1>2, <2>1 DEF Slots, FirstFree
  <2>3. ASSUME NEW h \in Files PROVE refs'[h] >= Cnt(fds', h) + inflight'[h]
    <3>1. Cnt(fds', h) = Cnt(fds, h) + (IF h = f THEN 1 ELSE 0)
                                     - (IF h = fds[<<tab[p], j>>] THEN 1 ELSE 0)
      BY <1>5, <2>1, <2>2, FdsSet, ZenonT(40)
    <3>2. h # fds[<<tab[p], j>>]
      BY <2>2, FileAssumption DEF FileAssumption
    <3>3. /\ refs[h] \in Nat /\ inflight[h] \in Nat /\ Cnt(fds, h) \in Nat
          /\ refs[h] >= Cnt(fds, h) + inflight[h]
      BY Covers
    <3> QED BY <1>7, <3>1, <3>2, <3>3
  <2> QED BY <1>2, <1>4, <1>5, <1>6, <2>1, <2>3, SlotStep, Zenon
<1> QED BY <1>8, <1>9, Zenon DEF Dup

\* dup2 preserves the invariant.
LEMMA Dup2Step == ASSUME IInv, NEW p \in Procs, NEW i \in Fds, NEW j \in Fds, Dup2(p, i, j)
                  PROVE  IInv'
<1> DEFINE f == fds[<<tab[p], i>>]
           g == fds[<<tab[p], j>>]
<1>2. tab[p] \in Tabs /\ trefs[tab[p]] > 0
  BY AliveTable DEF Dup2
<1>3. <<tab[p], i>> \in Slots /\ <<tab[p], j>> \in Slots
  BY <1>2 DEF Slots
<1>4. /\ fds' = [fds EXCEPT ![<<tab[p], j>>] = f]
      /\ refs' = [h \in Files |-> refs[h] + (IF h = f THEN 1 ELSE 0)
                                          - (IF h = g THEN 1 ELSE 0)]
      /\ UNCHANGED <<tab, trefs, inflight>>
      /\ f # Nil
  BY DEF Dup2
<1>5. f \in Files
  BY <1>3, <1>4, HeldIsCounted
<1>6. ASSUME NEW h \in Files
      PROVE  /\ refs'[h] \in Nat
             /\ refs'[h] >= Cnt(fds', h) + inflight'[h]
  <2>1. Cnt(fds', h) = Cnt(fds, h) + (IF h = f THEN 1 ELSE 0)
                                   - (IF h = g THEN 1 ELSE 0)
    BY <1>3, <1>4, <1>5, FdsSet, ZenonT(40)
  <2>2. h = g => Cnt(fds, h) > 0
    BY <1>3, HeldIsCounted, FileAssumption DEF FileAssumption
  <2>3. /\ refs[h] \in Nat /\ inflight[h] \in Nat /\ Cnt(fds, h) \in Nat
        /\ refs[h] >= Cnt(fds, h) + inflight[h]
    BY Covers
  <2>4. /\ refs'[h] = refs[h] + (IF h = f THEN 1 ELSE 0) - (IF h = g THEN 1 ELSE 0)
        /\ inflight'[h] = inflight[h]
    BY <1>4
  <2> HIDE DEF f, g
  <2> QED BY <2>1, <2>2, <2>3, <2>4
<1>7. refs' \in [Files -> Nat] /\ inflight' \in [Files -> Nat]
  BY <1>4, <1>6, SMTT(30) DEF IInv, TypeOK
<1> QED BY <1>2, <1>4, <1>5, <1>6, <1>7, SlotStep, Zenon

\* A file put in a message keeps the invariant.
LEMMA PostStep == ASSUME IInv, NEW p \in Procs, NEW i \in Fds, Post(p, i)
                  PROVE  IInv'
<1> DEFINE f == fds[<<tab[p], i>>]
<1>1. tab[p] \in Tabs /\ <<tab[p], i>> \in Slots
  BY AliveTable DEF Post, Slots
<1>2. /\ refs' = [refs EXCEPT ![f] = refs[f] + 1]
      /\ inflight' = [inflight EXCEPT ![f] = inflight[f] + 1]
      /\ UNCHANGED <<tab, fds, trefs>> /\ f # Nil
  BY DEF Post
<1>3. f \in Files
  BY <1>1, <1>2, HeldIsCounted
<1> HIDE DEF f
<1>4. TypeOK'
  BY <1>2, <1>3 DEF IInv, TypeOK
<1>5. TableCount' /\ FreeTableEmpty'
  BY <1>2 DEF IInv, TableCount, FreeTableEmpty
<1>6. ASSUME NEW h \in Files PROVE refs'[h] >= Cnt(fds', h) + inflight'[h]
  <2>1. /\ refs'[h] = (IF h = f THEN refs[h] + 1 ELSE refs[h])
        /\ inflight'[h] = (IF h = f THEN inflight[h] + 1 ELSE inflight[h])
        /\ Cnt(fds', h) = Cnt(fds, h)
    BY <1>2, <1>3 DEF IInv, TypeOK
  <2> QED BY <2>1, Covers
<1>7. CountCovers'
  BY <1>6 DEF CountCovers, Cnt, Holders
<1> QED BY <1>4, <1>5, <1>7 DEF IInv

\* A message that is thrown away keeps the invariant.
LEMMA DiscardStep == ASSUME IInv, NEW f \in Files, Discard(f)
                     PROVE  IInv'
<1>1. /\ refs' = [refs EXCEPT ![f] = refs[f] - 1]
      /\ inflight' = [inflight EXCEPT ![f] = inflight[f] - 1]
      /\ UNCHANGED <<tab, fds, trefs>> /\ inflight[f] > 0
  BY DEF Discard
<1>2. refs[f] > 0
  BY <1>1, Covers
<1>3. TypeOK'
  BY <1>1, <1>2 DEF IInv, TypeOK
<1>4. TableCount' /\ FreeTableEmpty'
  BY <1>1 DEF IInv, TableCount, FreeTableEmpty
<1>5. ASSUME NEW h \in Files PROVE refs'[h] >= Cnt(fds', h) + inflight'[h]
  <2>1. /\ refs'[h] = (IF h = f THEN refs[h] - 1 ELSE refs[h])
        /\ inflight'[h] = (IF h = f THEN inflight[h] - 1 ELSE inflight[h])
        /\ Cnt(fds', h) = Cnt(fds, h)
    BY <1>1 DEF IInv, TypeOK
  <2> QED BY <2>1, Covers
<1>6. CountCovers'
  BY <1>5 DEF CountCovers, Cnt, Holders
<1> QED BY <1>3, <1>4, <1>6 DEF IInv

\* A message's file received keeps the invariant, whether a descriptor is free or not.
LEMMA DeliverStep == ASSUME IInv, NEW p \in Procs, NEW f \in Files, Deliver(p, f)
                     PROVE  IInv'
<1>1. tab[p] \in Tabs /\ trefs[tab[p]] > 0
  BY AliveTable DEF Deliver
<1>2. /\ inflight' = [inflight EXCEPT ![f] = inflight[f] - 1]
      /\ UNCHANGED <<tab, trefs, refs>> /\ inflight[f] > 0
  BY DEF Deliver
<1>3. refs' \in [Files -> Nat] /\ inflight' \in [Files -> Nat]
  BY <1>2 DEF IInv, TypeOK
<1>4. \A h \in Files : /\ refs'[h] = refs[h]
                       /\ inflight'[h] = (IF h = f THEN inflight[h] - 1 ELSE inflight[h])
  BY <1>2 DEF IInv, TypeOK
<1>5. CASE UNCHANGED fds
  <2>1. ASSUME NEW h \in Files PROVE refs'[h] >= Cnt(fds', h) + inflight'[h]
    BY <1>4, <1>5, Covers
  <2>2. CountCovers'
    BY <2>1 DEF CountCovers, Cnt, Holders
  <2>3. TypeOK' /\ TableCount' /\ FreeTableEmpty'
    BY <1>2, <1>3, <1>5 DEF IInv, TypeOK, TableCount, FreeTableEmpty
  <2> QED BY <2>2, <2>3 DEF IInv
<1>6. CASE \E i \in Fds : /\ FirstFree(tab[p], i)
                          /\ fds' = [fds EXCEPT ![<<tab[p], i>>] = f]
  <2>1. PICK i \in Fds : /\ FirstFree(tab[p], i)
                         /\ fds' = [fds EXCEPT ![<<tab[p], i>>] = f]
    BY <1>6, Zenon
  <2>2. <<tab[p], i>> \in Slots /\ fds[<<tab[p], i>>] = Nil
    BY <1>1, <2>1 DEF Slots, FirstFree
  <2>3. ASSUME NEW h \in Files PROVE refs'[h] >= Cnt(fds', h) + inflight'[h]
    <3>1. Cnt(fds', h) = Cnt(fds, h) + (IF h = f THEN 1 ELSE 0)
                                     - (IF h = fds[<<tab[p], i>>] THEN 1 ELSE 0)
      BY <2>1, <2>2, FdsSet, ZenonT(40)
    <3>2. h # fds[<<tab[p], i>>]
      BY <2>2, FileAssumption DEF FileAssumption
    <3>3. /\ refs[h] \in Nat /\ inflight[h] \in Nat /\ Cnt(fds, h) \in Nat
          /\ refs[h] >= Cnt(fds, h) + inflight[h]
      BY Covers
    <3> QED BY <1>4, <3>1, <3>2, <3>3
  <2> QED BY <1>1, <1>2, <1>3, <2>1, <2>3, SlotStep, Zenon
<1> QED BY <1>5, <1>6, Zenon DEF Deliver

\* What the counts of the tables give the operations on processes.
LEMMA TableUsers == ASSUME IInv, NEW t \in Tabs
                    PROVE  trefs[t] = Users(tab, t) /\ trefs[t] \in Nat
BY DEF IInv, TypeOK, TableCount, Users

\* clone(CLONE_FILES) preserves the invariant.
LEMMA ShareStep == ASSUME IInv, NEW p \in Procs, NEW c \in Procs, Share(p, c)
                   PROVE  IInv'
<1>1. tab[p] \in Tabs /\ trefs[tab[p]] > 0
  BY AliveTable DEF Share
<1>2. /\ tab' = [tab EXCEPT ![c] = tab[p]]
      /\ trefs' = [trefs EXCEPT ![tab[p]] = trefs[tab[p]] + 1]
      /\ UNCHANGED <<fds, refs, inflight>>
      /\ tab[c] = Nil
  BY DEF Share, Alive
<1>3. TypeOK'
  BY <1>1, <1>2 DEF IInv, TypeOK
<1>4. ASSUME NEW t \in Tabs PROVE trefs'[t] = Users(tab', t)
  <2>1. Users(tab', t) = Users(tab, t) + (IF t = tab[p] THEN 1 ELSE 0)
                                       - (IF t = tab[c] THEN 1 ELSE 0)
    BY <1>1, <1>2, UsersSet, ZenonT(40)
  <2>2. t # tab[c]
    BY <1>2, FileAssumption DEF FileAssumption
  <2>3. trefs'[t] = trefs[t] + (IF t = tab[p] THEN 1 ELSE 0)
    BY <1>1, <1>2 DEF IInv, TypeOK
  <2>4. trefs[t] = Users(tab, t) /\ trefs[t] \in Nat
    BY TableUsers
  <2> QED BY <2>1, <2>2, <2>3, <2>4
<1>5. TableCount'
  BY <1>4 DEF TableCount, Users
<1>6. FreeTableEmpty'
  <2>1. \A t \in Tabs : trefs'[t] = 0 => trefs[t] = 0
    BY <1>1, <1>2 DEF IInv, TypeOK
  <2>2. \A s \in Slots : s[1] \in Tabs
    BY DEF Slots
  <2> QED BY <1>2, <2>1, <2>2 DEF IInv, FreeTableEmpty
<1>7. CountCovers'
  BY <1>2 DEF IInv, CountCovers, Holders
<1> QED BY <1>3, <1>5, <1>6, <1>7 DEF IInv

\* fork preserves the invariant.
LEMMA ForkStep == ASSUME IInv, NEW p \in Procs, NEW c \in Procs, Fork(p, c)
                  PROVE  IInv'
<1>1. tab[p] \in Tabs /\ trefs[tab[p]] > 0
  BY AliveTable DEF Fork
<1>2. PICK t \in Tabs :
         /\ trefs[t] = 0
         /\ tab' = [tab EXCEPT ![c] = t]
         /\ trefs' = [trefs EXCEPT ![t] = 1]
         /\ fds' = [s \in Slots |-> IF s[1] = t THEN fds[<<tab[p], s[2]>>] ELSE fds[s]]
  BY Zenon DEF Fork
<1>3. /\ refs' = [f \in Files |-> refs[f] + Cardinality(HeldIn(tab[p], f))]
      /\ UNCHANGED inflight /\ tab[c] = Nil
  BY DEF Fork, Alive
<1>4. t # tab[p] /\ \A s \in Slots : s[1] = t => fds[s] = Nil
  BY <1>1, <1>2, FreeTable
<1>5. ASSUME NEW f \in Files
      PROVE  refs'[f] \in Nat /\ refs'[f] >= Cnt(fds', f) + inflight'[f]
  <2>1. /\ Cnt(fds', f) = Cnt(fds, f) + Cardinality(HeldIn(tab[p], f))
        /\ Cardinality(HeldIn(tab[p], f)) \in Nat
    BY <1>1, <1>2, <1>4, FdsCopy, Zenon
  <2>2. refs'[f] = refs[f] + Cardinality(HeldIn(tab[p], f)) /\ inflight'[f] = inflight[f]
    BY <1>3
  <2> QED BY <2>1, <2>2, Covers
<1>6. \A s \in Slots : <<tab[p], s[2]>> \in Slots /\ s[1] \in Tabs
  BY <1>1 DEF Slots
<1>7. TypeOK'
  <2>1. refs' \in [Files -> Nat]
    BY <1>3, <1>5
  <2>2. fds' \in [Slots -> Files \cup {Nil}]
    BY <1>2, <1>6 DEF IInv, TypeOK
  <2> QED BY <1>2, <1>3, <2>1, <2>2 DEF IInv, TypeOK
<1>8. ASSUME NEW u \in Tabs PROVE trefs'[u] = Users(tab', u)
  <2>1. Users(tab', u) = Users(tab, u) + (IF u = t THEN 1 ELSE 0)
                                       - (IF u = tab[c] THEN 1 ELSE 0)
    BY <1>2, UsersSet, Zenon
  <2>2. u # tab[c]
    BY <1>3, FileAssumption DEF FileAssumption
  <2>3. trefs'[u] = IF u = t THEN 1 ELSE trefs[u]
    BY <1>2 DEF IInv, TypeOK
  <2>4. trefs[u] = Users(tab, u) /\ trefs[u] \in Nat
    BY TableUsers
  <2> QED BY <1>2, <2>1, <2>2, <2>3, <2>4
<1>9. TableCount'
  BY <1>8 DEF TableCount, Users
<1>10. FreeTableEmpty'
  BY <1>2, <1>6 DEF IInv, TypeOK, FreeTableEmpty
<1>11. CountCovers'
  BY <1>5 DEF CountCovers, Cnt, Holders
<1> QED BY <1>7, <1>9, <1>10, <1>11 DEF IInv

\* A new process with its console files preserves the invariant.
LEMMA TableInitStep == ASSUME IInv, NEW p \in Procs, TableInit(p)
                       PROVE  IInv'
<1>1. PICK t \in Tabs, n \in 0..3 : \E g \in [0..2 -> Files] :
         /\ trefs[t] = 0
         /\ \A i \in 0..(n - 1) : refs[g[i]] = 0
         /\ \A i, j \in 0..(n - 1) : g[i] = g[j] => i = j
         /\ tab' = [tab EXCEPT ![p] = t]
         /\ trefs' = [trefs EXCEPT ![t] = 1]
         /\ fds' = [s \in Slots |-> IF s[1] # t THEN fds[s] ELSE
                                    IF s[2] < n THEN g[s[2]] ELSE Nil]
         /\ refs' = [f \in Files |-> IF \E i \in 0..(n - 1) : g[i] = f
                                     THEN 1 ELSE refs[f]]
  BY ZenonT(30) DEF TableInit
<1>2. PICK g \in [0..2 -> Files] :
         /\ trefs[t] = 0
         /\ \A i \in 0..(n - 1) : refs[g[i]] = 0
         /\ \A i, j \in 0..(n - 1) : g[i] = g[j] => i = j
         /\ tab' = [tab EXCEPT ![p] = t]
         /\ trefs' = [trefs EXCEPT ![t] = 1]
         /\ fds' = [s \in Slots |-> IF s[1] # t THEN fds[s] ELSE
                                    IF s[2] < n THEN g[s[2]] ELSE Nil]
         /\ refs' = [f \in Files |-> IF \E i \in 0..(n - 1) : g[i] = f
                                     THEN 1 ELSE refs[f]]
  BY <1>1, ZenonT(30)
<1>3. UNCHANGED inflight /\ tab[p] = Nil
  BY DEF TableInit, Alive
<1>4. \A s \in Slots : s[1] = t => fds[s] = Nil
  BY <1>2, FreeTable
<1>5. \A i \in 0..(n - 1) : i \in 0..2 /\ g[i] \in Files
  BY <1>2
<1>6. /\ \A i \in 0..(n - 1) : Cnt(fds, g[i]) = 0
      /\ \A i \in 0..(n - 1) : inflight[g[i]] = 0
  <2>1. \A f \in Files : refs[f] = 0 => Cnt(fds, f) = 0 /\ inflight[f] = 0
    BY Covers
  <2>2. \A i \in 0..(n - 1) : refs[g[i]] = 0
    BY <1>2
  <2> QED BY <1>5, <2>1, <2>2
<1>a. tab' = [tab EXCEPT ![p] = t]
  BY <1>2
<1>b. fds' = [s \in Slots |-> IF s[1] # t THEN fds[s] ELSE
                              IF s[2] < n THEN g[s[2]] ELSE Nil]
  BY <1>2
<1>c. \A i, j \in 0..(n - 1) : g[i] = g[j] => i = j
  BY <1>2
<1>7. ASSUME NEW f \in Files
      PROVE  refs'[f] \in Nat /\ refs'[f] >= Cnt(fds', f) + inflight'[f]
  <2>1. Cnt(fds', f) = IF \E i \in 0..(n - 1) : g[i] = f THEN 1 ELSE Cnt(fds, f)
    BY <1>4, <1>6, <1>b, <1>c, FdsFill
  <2>2. refs'[f] = IF \E i \in 0..(n - 1) : g[i] = f THEN 1 ELSE refs[f]
    BY <1>2
  <2>3. inflight'[f] = inflight[f]
    BY <1>3
  <2>4. CASE \E i \in 0..(n - 1) : g[i] = f
    <3>1. inflight[f] = 0
      BY <1>6, <2>4
    <3> QED BY <2>1, <2>2, <2>3, <2>4, <3>1
  <2>5. CASE ~ \E i \in 0..(n - 1) : g[i] = f
    BY <2>1, <2>2, <2>3, <2>5, Covers
  <2> QED BY <2>4, <2>5
<1>8. TypeOK'
  <2>1. refs' \in [Files -> Nat]
    BY <1>2, <1>7, SMTT(30)
  <2>2. ASSUME NEW s \in Slots PROVE fds'[s] \in Files \cup {Nil}
    <3>1. s[2] \in Nat
      BY FileAssumption DEF FileAssumption, Slots, Fds
    <3>2. s[2] < n => s[2] \in 0..(n - 1)
      BY <3>1
    <3> QED BY <1>2, <1>5, <3>2 DEF IInv, TypeOK
  <2>3. fds' \in [Slots -> Files \cup {Nil}]
    BY <1>2, <2>2
  <2>4. tab' \in [Procs -> Tabs \cup {Nil}] /\ trefs' \in [Tabs -> Nat]
    BY <1>2 DEF IInv, TypeOK
  <2> QED BY <1>3, <2>1, <2>3, <2>4 DEF IInv, TypeOK
<1>9. ASSUME NEW u \in Tabs PROVE trefs'[u] = Users(tab', u)
  <2>1. Users(tab', u) = Users(tab, u) + (IF u = t THEN 1 ELSE 0)
                                       - (IF u = tab[p] THEN 1 ELSE 0)
    BY <1>a, UsersSet, ZenonT(40)
  <2>2. u # tab[p]
    BY <1>3, FileAssumption DEF FileAssumption
  <2>3. trefs'[u] = IF u = t THEN 1 ELSE trefs[u]
    BY <1>2 DEF IInv, TypeOK
  <2>4. trefs[u] = Users(tab, u) /\ trefs[u] \in Nat
    BY TableUsers
  <2> QED BY <1>2, <2>1, <2>2, <2>3, <2>4
<1>10. TableCount'
  BY <1>9 DEF TableCount, Users
<1>11. FreeTableEmpty'
  <2>1. \A s \in Slots : s[1] \in Tabs
    BY DEF Slots
  <2> QED BY <1>2, <2>1 DEF IInv, TypeOK, FreeTableEmpty
<1>12. CountCovers'
  BY <1>7 DEF CountCovers, Cnt, Holders
<1> QED BY <1>8, <1>10, <1>11, <1>12 DEF IInv

\* Exit preserves the invariant, for the last user of a table and for any other.
LEMMA TableExitStep == ASSUME IInv, NEW p \in Procs, TableExit(p)
                       PROVE  IInv'
<1> DEFINE t == tab[p]
<1>1. t \in Tabs /\ trefs[t] > 0
  BY AliveTable DEF TableExit
<1>2. /\ tab' = [tab EXCEPT ![p] = Nil]
      /\ trefs' = [trefs EXCEPT ![t] = trefs[t] - 1]
      /\ UNCHANGED inflight
  BY DEF TableExit
<1>3. trefs[t] > 1 => UNCHANGED <<fds, refs>>
  BY DEF TableExit
<1>4. ~ (trefs[t] > 1) =>
        /\ fds' = [s \in Slots |-> IF s[1] = t THEN Nil ELSE fds[s]]
        /\ refs' = [f \in Files |-> refs[f] - Cardinality(HeldIn(t, f))]
  BY DEF TableExit
<1> HIDE DEF t
<1>5. tab' \in [Procs -> Tabs \cup {Nil}] /\ trefs' \in [Tabs -> Nat] /\ inflight' \in [Files -> Nat]
  BY <1>1, <1>2 DEF IInv, TypeOK
<1>6. ASSUME NEW u \in Tabs PROVE trefs'[u] = Users(tab', u)
  <2>1. Users(tab', u) = Users(tab, u) + (IF u = Nil THEN 1 ELSE 0)
                                       - (IF u = tab[p] THEN 1 ELSE 0)
    BY <1>2, UsersSet, ZenonT(40)
  <2>2. u # Nil
    BY FileAssumption DEF FileAssumption
  <2>3. trefs'[u] = IF u = t THEN trefs[u] - 1 ELSE trefs[u]
    BY <1>1, <1>2 DEF IInv, TypeOK
  <2>4. trefs[u] = Users(tab, u) /\ trefs[u] \in Nat
    BY TableUsers
  <2> QED BY <2>1, <2>2, <2>3, <2>4 DEF t
<1>7. TableCount'
  BY <1>6 DEF TableCount, Users
<1>8. \A s \in Slots : s[1] \in Tabs
  BY DEF Slots
<1>9. CASE trefs[t] > 1
  <2>1. TypeOK'
    BY <1>3, <1>5, <1>9 DEF IInv, TypeOK
  <2>2. FreeTableEmpty'
    BY <1>1, <1>2, <1>3, <1>8, <1>9 DEF IInv, TypeOK, FreeTableEmpty
  <2>3. CountCovers'
    BY <1>2, <1>3, <1>9 DEF IInv, CountCovers, Holders
  <2> QED BY <1>7, <2>1, <2>2, <2>3 DEF IInv
<1>10. CASE ~ (trefs[t] > 1)
  <2>1. fds' = [s \in Slots |-> IF s[1] = t THEN Nil ELSE fds[s]]
    BY <1>4, <1>10
  <2>2. refs' = [f \in Files |-> refs[f] - Cardinality(HeldIn(t, f))]
    BY <1>4, <1>10
  <2>3. ASSUME NEW f \in Files
        PROVE  refs'[f] \in Nat /\ refs'[f] >= Cnt(fds', f) + inflight'[f]
    <3>1. /\ Cnt(fds', f) = Cnt(fds, f) - Cardinality(HeldIn(t, f))
          /\ Cardinality(HeldIn(t, f)) \in Nat
          /\ Cardinality(HeldIn(t, f)) <= Cnt(fds, f)
      BY <1>1, <2>1, FdsClear
    <3>2. refs'[f] = refs[f] - Cardinality(HeldIn(t, f)) /\ inflight'[f] = inflight[f]
      BY <1>2, <2>2
    <3>3. /\ refs[f] \in Nat /\ inflight[f] \in Nat /\ Cnt(fds, f) \in Nat
          /\ refs[f] >= Cnt(fds, f) + inflight[f]
      BY Covers
    <3> QED BY <3>1, <3>2, <3>3
  <2>4. TypeOK'
    <3>1. refs' \in [Files -> Nat]
      BY <2>2, <2>3
    <3>2. fds' \in [Slots -> Files \cup {Nil}]
      BY <2>1 DEF IInv, TypeOK
    <3> QED BY <1>5, <3>1, <3>2 DEF TypeOK
  <2>5. FreeTableEmpty'
    BY <1>2, <1>8, <2>1 DEF IInv, TypeOK, FreeTableEmpty
  <2>6. CountCovers'
    BY <2>3 DEF CountCovers, Cnt, Holders
  <2> QED BY <1>7, <2>4, <2>5, <2>6 DEF IInv
<1> QED BY <1>9, <1>10
----------------------------------------------------------------------------
(* The theorems.                                                           *)

\* No file is open and no table is in use at boot.
LEMMA InitInv == Init => IInv
<1> SUFFICES ASSUME Init PROVE IInv
  OBVIOUS
<1>1. TypeOK
  BY DEF Init, TypeOK
<1>2. FreeTableEmpty
  BY DEF Init, FreeTableEmpty
<1>3. TableCount
  <2> SUFFICES ASSUME NEW t \in Tabs PROVE trefs[t] = Users(tab, t)
    BY DEF TableCount, Users
  <2>1. \A p \in Procs : tab[p] # t
    BY FileAssumption DEF Init, FileAssumption
  <2> QED BY <2>1, UsersType DEF Init
<1>4. CountCovers
  <2> SUFFICES ASSUME NEW f \in Files PROVE refs[f] >= Cnt(fds, f) + inflight[f]
    BY DEF CountCovers, Cnt, Holders
  <2>1. \A s \in Slots : fds[s] # f
    BY FileAssumption DEF Init, FileAssumption
  <2>2. Cnt(fds, f) = 0
    BY <2>1, CntZero
  <2> QED BY <2>2 DEF Init
<1> QED BY <1>1, <1>2, <1>3, <1>4 DEF IInv

\* The counts of files and tables keep each other true under every operation.
THEOREM CountsInvariance == Spec => []IInv
<1>1. IInv /\ [Next]_vars => IInv'
  <2> SUFFICES ASSUME IInv, [Next]_vars PROVE IInv'
    OBVIOUS
  <2>1. CASE UNCHANGED vars
    BY <2>1 DEF vars, IInv, TypeOK, TableCount, FreeTableEmpty, CountCovers, Holders
  <2>2. ASSUME NEW p \in Procs, TableInit(p) PROVE IInv'
    BY <2>2, TableInitStep
  <2>3. ASSUME NEW p \in Procs, TableExit(p) PROVE IInv'
    BY <2>3, TableExitStep
  <2>4. ASSUME NEW p \in Procs, NEW f \in Files, Open(p, f) PROVE IInv'
    BY <2>4, OpenStep
  <2>5. ASSUME NEW p \in Procs, NEW f \in Files, Deliver(p, f) PROVE IInv'
    BY <2>5, DeliverStep
  <2>6. ASSUME NEW p \in Procs, NEW i \in Fds, Close(p, i) PROVE IInv'
    BY <2>6, CloseStep
  <2>7. ASSUME NEW p \in Procs, NEW i \in Fds, Dup(p, i) PROVE IInv'
    BY <2>7, DupStep
  <2>8. ASSUME NEW p \in Procs, NEW i \in Fds, Post(p, i) PROVE IInv'
    BY <2>8, PostStep
  <2>9. ASSUME NEW p \in Procs, NEW i \in Fds, NEW j \in Fds, Dup2(p, i, j) PROVE IInv'
    BY <2>9, Dup2Step
  <2>10. ASSUME NEW p \in Procs, NEW c \in Procs, Fork(p, c) PROVE IInv'
    BY <2>10, ForkStep
  <2>11. ASSUME NEW p \in Procs, NEW c \in Procs, Share(p, c) PROVE IInv'
    BY <2>11, ShareStep
  <2>12. ASSUME NEW f \in Files, Discard(f) PROVE IInv'
    BY <2>12, DiscardStep
  <2> QED BY <2>1, <2>2, <2>3, <2>4, <2>5, <2>6, <2>7, <2>8, <2>9, <2>10, <2>11, <2>12,
             ZenonT(30) DEF Next
<1> QED BY <1>1, InitInv, PTL DEF Spec

\* The counts themselves never leave the natural numbers: nothing is freed twice.
THEOREM CountsTyped == Spec => []TypeOK
<1>1. IInv => TypeOK
  BY DEF IInv
<1> QED BY <1>1, CountsInvariance, PTL

\* A file's count covers every descriptor and message that holds it.
THEOREM CountsCover == Spec => []CountCovers
<1>1. IInv => CountCovers
  BY DEF IInv
<1> QED BY <1>1, CountsInvariance, PTL

\* No descriptor and no message leads to a freed file, for any number of
\* processes, tables and descriptors.
THEOREM NeverFreedInUse == Spec => []NoUseAfterFree
<1>1. IInv => NoUseAfterFree
  <2> SUFFICES ASSUME IInv PROVE NoUseAfterFree
    OBVIOUS
  <2>1. \A s \in Slots : fds[s] # Nil => refs[fds[s]] > 0
    BY HeldIsCounted
  <2>2. \A f \in Files : inflight[f] > 0 => refs[f] > 0
    BY Covers
  <2> QED BY <2>1, <2>2 DEF NoUseAfterFree
<1> QED BY <1>1, CountsInvariance, PTL
============================================================================
