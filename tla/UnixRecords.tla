---------------------------- MODULE UnixRecords ----------------------------
(***************************************************************************)
(* The rings of record sockets: whatever is sent and received, a ring is a *)
(* sequence of whole records, as many as msg_cnt says.                     *)
(***************************************************************************)
EXTENDS UnixProofs, FiniteSetTheorems

-----------------------------------------------------------------------------
(* Rings of records, as functions from places to lengths.                 *)

\* The lengths in the cells of a ring, and what Headers and Whole say of them
Lens(r) == [i \in 1..Len(r) |-> r[i].len]
Marks(e, L) == {i \in 1..L : e[i] >= 0}
Tiles(e, L) ==
  /\ L > 0 => 1 \in Marks(e, L)
  /\ \A i \in Marks(e, L) :
       /\ i + e[i] <= L
       /\ \A j \in (i + 1)..(i + e[i]) : j \notin Marks(e, L)
       /\ i + e[i] < L => i + e[i] + 1 \in Marks(e, L)

\* The headers of a ring can be counted
LEMMA HeadersFinite ==
  ASSUME NEW r \in Seq(Cell)
  PROVE  /\ IsFiniteSet(Headers(r)) /\ Cardinality(Headers(r)) \in Nat
         /\ Headers(r) = {i \in 1..Len(r) : r[i].len >= 0}
  <1>1. Headers(r) = {i \in 1..Len(r) : r[i].len >= 0} /\ Len(r) \in Nat
    BY DEF Headers
  <1>2. IsFiniteSet(1..Len(r))
    BY <1>1, FS_Interval
  <1>3. IsFiniteSet(Headers(r))
    BY <1>1, <1>2, FS_Subset
  <1>. QED
    BY <1>1, <1>3, FS_CardinalityType

\* A ring is made of whole records exactly when its lengths tile it
LEMMA RingTiles ==
  ASSUME NEW r \in Seq(Cell)
  PROVE  /\ Lens(r) \in [1..Len(r) -> Int] /\ \A i \in 1..Len(r) : Lens(r)[i] = r[i].len
         /\ Headers(r) = Marks(Lens(r), Len(r))
         /\ Whole(r) <=> Tiles(Lens(r), Len(r))
  <1>1. \A i \in 1..Len(r) : r[i].len \in Int
    <2> TAKE i \in 1..Len(r)
    <2>1. r[i] \in Cell
      BY SeqElement
    <2>. QED
      BY <2>1, ConstantsTyped, SMTT(30) DEF Cell
  <1>2. Lens(r) \in [1..Len(r) -> Int] /\ \A i \in 1..Len(r) : Lens(r)[i] = r[i].len
    BY <1>1 DEF Lens
  <1>3. Headers(r) = Marks(Lens(r), Len(r)) /\ Headers(r) \subseteq 1..Len(r)
    BY <1>2, HeadersFinite DEF Marks
  <1>4. r # <<>> <=> Len(r) > 0
    OBVIOUS
  <1> DEFINE e == Lens(r)
             L == Len(r)
  <1> HIDE DEF e, L
  <1>5. \A i \in Headers(r) : r[i].len = e[i]
    BY <1>2, <1>3 DEF e
  <1>6. Whole(r) <=> Tiles(e, L)
    BY <1>3, <1>4, <1>5 DEF Whole, Tiles, e, L
  <1>. QED
    BY <1>2, <1>3, <1>6 DEF e, L

\* So can the places that begin a record
LEMMA MarksFinite ==
  ASSUME NEW L \in Nat, NEW e
  PROVE  IsFiniteSet(Marks(e, L)) /\ Cardinality(Marks(e, L)) \in Nat
  <1>1. IsFiniteSet(1..L)
    BY FS_Interval
  <1>2. Marks(e, L) \subseteq 1..L
    BY DEF Marks
  <1>. QED
    BY <1>1, <1>2, FS_Subset, FS_CardinalityType

\* The same for rings
LEMMA WholeCalm ==
  ASSUME NEW r \in Seq(Cell), NEW q \in Seq(Cell), Len(q) = Len(r),
         \A i \in 1..Len(r) : q[i].len = r[i].len, Whole(r)
  PROVE  Whole(q) /\ Headers(q) = Headers(r)
  <1>1. Lens(q) = Lens(r)
    BY DEF Lens
  <1>. QED
    BY <1>1, RingTiles

\* A record is appended
Appended(e, L, n, d, M) ==
  /\ L \in Nat /\ e \in [1..L -> Int] /\ Tiles(e, L) /\ n \in Nat /\ M \in Nat /\ M = L + 1 + n
  /\ d \in [1..M -> Int] /\ (\A i \in 1..L : d[i] = e[i]) /\ d[L + 1] = n
  /\ \A i \in 1..n : d[(L + 1) + i] = -1

\* A record is put behind the others
LEMMA WholeAppend ==
  \A r \in Seq(Cell), n \in 1..MaxLen, s \in Socks : Whole(r) =>
    LET q == r \o <<Header(n, s)>> \o Bytes(n)
    IN  Whole(q) /\ Cardinality(Headers(q)) = Cardinality(Headers(r)) + 1
  <1>Within.
    ASSUME NEW L \in Nat, NEW n \in Nat, NEW M \in Nat, M = L + 1 + n, NEW i \in 1..L, NEW g \in Int, i + g <= L
    PROVE  /\ i + g <= M /\ \A j \in (i + 1)..(i + g) : j # L + 1
           /\ i + g < L \/ i + g + 1 = L + 1
    BY <1>Within
  <1>TilesAppend.
    ASSUME NEW e, NEW L, NEW n, NEW d, NEW M, Appended(e, L, n, d, M)
    PROVE  Tiles(d, M) /\ Cardinality(Marks(d, M)) = Cardinality(Marks(e, L)) + 1
    <2> USE <1>TilesAppend
    <2> USE DEF Appended
    <2>1. Marks(d, M) = Marks(e, L) \cup {L + 1} /\ L + 1 \notin Marks(e, L)
      <3>1. ASSUME NEW i \in 1..M PROVE d[i] >= 0 <=> (i \in Marks(e, L) \/ i = L + 1)
        <4>1. CASE i \in 1..L
          BY <4>1 DEF Marks
        <4>2. CASE i = L + 1
          BY <4>2
        <4>3. CASE i \in (L + 2)..M
          <5>1. i - (L + 1) \in 1..n /\ (L + 1) + (i - (L + 1)) = i
            BY <4>3
          <5>2. d[i] = -1
            BY <5>1, Zenon
          <5>. QED
            BY <4>3, <5>2 DEF Marks
        <4>. QED
          BY <4>1, <4>2, <4>3
      <3>. QED
        BY <3>1 DEF Marks
    <2>2. Cardinality(Marks(d, M)) = Cardinality(Marks(e, L)) + 1
      BY <2>1, MarksFinite, FS_AddElement
    <2>3. M > 0 => 1 \in Marks(d, M)
      BY <2>1 DEF Tiles
    <2>4. ASSUME NEW i \in Marks(d, M)
          PROVE  /\ i + d[i] <= M
                 /\ \A j \in (i + 1)..(i + d[i]) : j \notin Marks(d, M)
                 /\ i + d[i] < M => i + d[i] + 1 \in Marks(d, M)
      <3>1. CASE i = L + 1
        <4>1. \A j \in (L + 1 + 1)..(L + 1 + n) : j \notin Marks(e, L) /\ j # L + 1
          BY DEF Marks
        <4>2. i + d[i] = M /\ ~ (M < M) /\ i + 1 = L + 1 + 1 /\ i + d[i] = L + 1 + n
          BY <3>1
        <4>. QED
          BY <2>1, <3>1, <4>1, <4>2
      <3>2. CASE i \in Marks(e, L)
        <4>1. i \in 1..L /\ d[i] = e[i] /\ e[i] \in Int
          BY <3>2 DEF Marks
        <4>2. /\ i + e[i] <= L
              /\ \A j \in (i + 1)..(i + e[i]) : j \notin Marks(e, L)
              /\ i + e[i] < L => i + e[i] + 1 \in Marks(e, L)
          BY <3>2 DEF Tiles
        <4> DEFINE g == e[i]
        <4> HIDE DEF g
        <4>3. /\ i + g <= M /\ \A j \in (i + 1)..(i + g) : j # L + 1
              /\ i + g < L \/ i + g + 1 = L + 1
          <5>1. g \in Int /\ i + g <= L
            BY <4>1, <4>2 DEF g
          <5>. QED
            BY <4>1, <5>1, <1>Within
        <4>. QED
          BY <2>1, <4>1, <4>2, <4>3 DEF g
      <3>. QED
        BY <2>1, <3>1, <3>2
    <2>. QED
      BY <2>2, <2>3, <2>4 DEF Tiles
  <1>ConcatIs.
    ASSUME NEW S, NEW g \in Seq(S), NEW b \in Seq(S)
    PROVE  /\ g \o b \in Seq(S) /\ Len(g \o b) = Len(g) + Len(b)
           /\ \A i \in 1..Len(g) : (g \o b)[i] = g[i]
           /\ \A i \in 1..Len(b) : (g \o b)[Len(g) + i] = b[i]
    BY <1>ConcatIs
  <1>WholeAppend.
    ASSUME NEW r \in Seq(Cell), Whole(r), NEW n \in 1..MaxLen, NEW s \in Socks
    PROVE  LET q == r \o <<Header(n, s)>> \o Bytes(n)
           IN  Whole(q) /\ Cardinality(Headers(q)) = Cardinality(Headers(r)) + 1
    <2> USE <1>WholeAppend
    <2> DEFINE g == r \o <<Header(n, s)>>
               bs == Bytes(n)
               q == g \o bs
               L == Len(r)
    <2>1. n \in Nat /\ L \in Nat
      BY ConstantsTyped
    <2>2. Header(n, s) \in Cell /\ Header(n, s).len = n /\ Byte.len = -1
      BY <2>1, ConstantsTyped DEF Header, Cell, Byte
    <2>3. bs \in Seq(Cell) /\ Len(bs) = n /\ \A i \in 1..n : bs[i].len = -1
      BY <2>1, <2>2, BytesTyped, SMTT(30) DEF Bytes
    <2>4. g \in Seq(Cell) /\ Len(g) = L + 1 /\ g[L + 1].len = n /\ \A i \in 1..L : g[i] = r[i]
      BY <2>1, <2>2
    <2> HIDE DEF g, bs
    <2>5. /\ q \in Seq(Cell) /\ Len(q) = (L + 1) + n
          /\ \A i \in 1..(L + 1) : q[i] = g[i]
          /\ \A i \in 1..n : q[(L + 1) + i] = bs[i]
      <3>1. /\ g \o bs \in Seq(Cell) /\ Len(g \o bs) = Len(g) + Len(bs)
            /\ \A i \in 1..Len(g) : (g \o bs)[i] = g[i]
            /\ \A i \in 1..Len(bs) : (g \o bs)[Len(g) + i] = bs[i]
        <4>1. g \in Seq(Cell) /\ bs \in Seq(Cell)
          BY <2>3, <2>4
        <4>. QED
          BY <4>1, <1>ConcatIs
      <3>. QED
        BY <2>3, <2>4, <3>1, Zenon
    <2> HIDE DEF q, L
    <2>6. PICK M \in Nat : M = L + 1 + n
      BY <2>1
    <2> DEFINE e == Lens(r)
               d == Lens(q)
    <2>7. /\ e \in [1..L -> Int] /\ Tiles(e, L) /\ Headers(r) = Marks(e, L)
          /\ \A i \in 1..L : e[i] = r[i].len
      BY RingTiles DEF L
    <2>8. /\ d \in [1..M -> Int] /\ Headers(q) = Marks(d, M) /\ (Whole(q) <=> Tiles(d, M))
          /\ \A i \in 1..M : d[i] = q[i].len
      BY <2>1, <2>5, <2>6, RingTiles, Zenon
    <2> HIDE DEF d, e
    <2>9. /\ \A i \in 1..L : i \in 1..(L + 1) /\ i \in 1..M
          /\ \A i \in 1..n : (L + 1) + i \in 1..M
          /\ L + 1 \in 1..M /\ L + 1 \in 1..(L + 1)
      BY <2>1, <2>6
    <2>10. /\ \A i \in 1..L : d[i] = e[i]
           /\ d[L + 1] = n
           /\ \A i \in 1..n : d[(L + 1) + i] = -1
      <3>1. ASSUME NEW i \in 1..L PROVE d[i] = e[i]
        <4>1. d[i] = q[i].len /\ q[i] = g[i]
          BY <2>5, <2>8, <2>9, SMTT(30)
        <4>. QED
          BY <2>4, <2>7, <4>1
      <3>2. d[L + 1] = n
        BY <2>4, <2>5, <2>8, <2>9, SMTT(30)
      <3>3. ASSUME NEW i \in 1..n PROVE d[(L + 1) + i] = -1
        <4>1. d[(L + 1) + i] = q[(L + 1) + i].len
          BY <2>8, <2>9, SMTT(30)
        <4>. QED
          BY <2>3, <2>5, <4>1
      <3>. QED
        BY <3>1, <3>2, <3>3
    <2>11. Tiles(d, M) /\ Cardinality(Marks(d, M)) = Cardinality(Marks(e, L)) + 1
      <3>1. Appended(e, L, n, d, M)
        BY <2>1, <2>6, <2>7, <2>8, <2>10 DEF Appended
      <3>. QED
        BY <3>1, <1>TilesAppend
    <2>. QED
      BY <2>7, <2>8, <2>11 DEF q, g, bs
  <1>. QED
    BY <1>WholeAppend

Shifts(i, n, g, L) ==
  /\ \A j \in (i + 1)..(i + g) : j \in Nat /\ j + n \in ((i + n) + 1)..((i + n) + g)
  /\ i + g < L - n => (i + n) + g < L /\ i + g + 1 \in Nat /\ i + g + 1 >= 1
                      /\ (i + g + 1) + n = (i + n) + g + 1

\* The first record is taken out
Popped(e, L, n, d, M) ==
  /\ L \in Nat /\ e \in [1..L -> Int] /\ Tiles(e, L) /\ L > 0 /\ n \in Int /\ n = e[1] + 1
  /\ M \in Int /\ M = L - n /\ d \in [1..M -> Int] /\ \A i \in 1..M : d[i] = e[i + n]

\* The first record is taken out
LEMMA WholePop ==
  \A r \in Seq(Cell), n \in Nat : Whole(r) /\ Len(r) > 0 /\ n = r[1].len + 1 =>
    LET q == SubSeq(r, n + 1, Len(r))
    IN  Whole(q) /\ Cardinality(Headers(q)) = Cardinality(Headers(r)) - 1
  <1>Shift.
    ASSUME NEW i \in Nat, NEW n \in Nat, NEW g \in Nat, NEW L \in Nat
    PROVE  Shifts(i, n, g, L)
    BY <1>Shift DEF Shifts
  <1>TilesPop.
    ASSUME NEW e, NEW L, NEW n, NEW d, NEW M, Popped(e, L, n, d, M)
    PROVE  1 \in Marks(e, L) /\ Tiles(d, M) /\ Cardinality(Marks(d, M)) = Cardinality(Marks(e, L)) - 1
    <2> USE <1>TilesPop
    <2> USE DEF Popped
    <2>1. 1 \in Marks(e, L) /\ n \in Nat /\ n >= 1 /\ n <= L /\ M \in Nat
      BY DEF Marks, Tiles
    <2>2. /\ \A j \in (1 + 1)..(1 + e[1]) : j \notin Marks(e, L)
          /\ 1 + e[1] < L => 1 + e[1] + 1 \in Marks(e, L)
      BY <2>1, Zenon DEF Tiles
    <2>3. 1 + e[1] = n /\ 1 + e[1] + 1 = n + 1 /\ 1 + 1 = 2
      OBVIOUS
    <2>5. \A j \in 2..n : j \notin Marks(e, L)
      BY <2>2, <2>3
    <2>6. n < L => n + 1 \in Marks(e, L)
      BY <2>2, <2>3
    <2>8. ASSUME NEW i \in Nat
          PROVE  i \in Marks(d, M) <=> i >= 1 /\ i + n \in Marks(e, L)
      BY <2>1, SMTT(60) DEF Marks
    <2>9. ASSUME NEW i \in Marks(e, L), i # 1
          PROVE  i - n \in Marks(d, M) /\ (i - n) + n = i
      <3>1. i \in 1..L /\ i \notin 2..n
        BY <2>5, <2>9 DEF Marks
      <3>2. i - n \in Nat /\ i - n >= 1 /\ (i - n) + n = i
        BY <2>1, <2>9, <3>1, SMTT(30)
      <3>. QED
        BY <2>8, <3>2, SMTT(30)
    <2>10. Cardinality(Marks(d, M)) = Cardinality(Marks(e, L)) - 1
      <3> DEFINE S == Marks(e, L) \ {1}
                 T == Marks(d, M)
                 f == [i \in S |-> i - n]
      <3>1. f \in [S -> T]
        BY <2>9
      <3>2. \A i, j \in S : f[i] = f[j] => i = j
        BY <2>1 DEF Marks
      <3>3. \A i \in T : \E j \in S : f[j] = i
        <4> TAKE i \in T
        <4>1. i \in Nat /\ i >= 1
          BY <2>1 DEF Marks
        <4>2. i + n \in S /\ (i + n) - n = i
          BY <2>1, <2>8, <4>1, SMTT(30)
        <4>. QED
          BY <4>2
      <3>5. IsFiniteSet(S) /\ Cardinality(S) = Cardinality(Marks(e, L)) - 1
        BY <2>1, MarksFinite, FS_RemoveElement, Zenon
      <3> HIDE DEF f, S, T
      <3>4. ExistsBijection(S, T)
        <4>1. f \in Injection(S, T) /\ f \in Surjection(S, T)
          BY <3>1, <3>2, <3>3 DEF Injection, IsInjective, Surjection
        <4>. QED
          BY <4>1 DEF ExistsBijection, Bijection
      <3>. QED
        BY <3>4, <3>5, FS_Bijection DEF T
    <2>11. M > 0 => 1 \in Marks(d, M)
      BY <2>1, <2>6, <2>8, SMTT(30)
    <2>12. ASSUME NEW i \in Marks(d, M)
           PROVE  /\ i + d[i] <= M
                  /\ \A j \in (i + 1)..(i + d[i]) : j \notin Marks(d, M)
                  /\ i + d[i] < M => i + d[i] + 1 \in Marks(d, M)
      <3> DEFINE g == d[i]
      <3>1. i \in 1..M /\ i \in Nat /\ g = e[i + n] /\ i + n \in Marks(e, L) /\ i + n \in 1..L
        BY <2>1, <2>8 DEF Marks
      <3>2. g \in Nat
        BY <3>1, SMTT(30) DEF Marks
      <3>3. /\ (i + n) + g <= L
            /\ \A j \in ((i + n) + 1)..((i + n) + g) : j \notin Marks(e, L)
            /\ (i + n) + g < L => (i + n) + g + 1 \in Marks(e, L)
        BY <3>1, Zenon DEF Tiles
      <3> HIDE DEF g
      <3>4. i + g <= M
        BY <2>1, <3>1, <3>2, <3>3, SMTT(60)
      <3>a. Shifts(i, n, g, L)
        <4>1. i \in Nat /\ g \in Nat /\ n \in Nat
          BY <2>1, <3>1, <3>2
        <4>. QED
          BY <4>1, <1>Shift, Zenon
      <3>5. ASSUME NEW j \in (i + 1)..(i + g) PROVE j \notin Marks(d, M)
        BY <2>8, <3>3, <3>a, SMTT(30) DEF Shifts
      <3>6. ASSUME i + g < M PROVE i + g + 1 \in Marks(d, M)
        BY <2>8, <3>3, <3>a, <3>6 DEF Shifts
      <3>. QED
        BY <3>4, <3>5, <3>6 DEF g
    <2>. QED
      BY <2>1, <2>10, <2>11, <2>12 DEF Tiles
  <1>SubSeqIs.
    ASSUME NEW S, NEW r \in Seq(S), NEW n \in 0..Len(r)
    PROVE  /\ SubSeq(r, n + 1, Len(r)) \in Seq(S)
           /\ Len(SubSeq(r, n + 1, Len(r))) = Len(r) - n /\ Len(r) - n \in Nat
           /\ \A i \in 1..(Len(r) - n) : SubSeq(r, n + 1, Len(r))[i] = r[i + n] /\ i + n \in 1..Len(r)
    BY <1>SubSeqIs
  <1>WholePop.
    ASSUME NEW r \in Seq(Cell), Whole(r), Len(r) > 0, NEW n \in Nat, n = r[1].len + 1
    PROVE  LET q == SubSeq(r, n + 1, Len(r))
           IN  Whole(q) /\ Cardinality(Headers(q)) = Cardinality(Headers(r)) - 1
    <2> USE <1>WholePop
    <2> DEFINE L == Len(r)
               q == SubSeq(r, n + 1, L)
               e == Lens(r)
    <2>1. /\ L \in Nat /\ e \in [1..L -> Int] /\ Tiles(e, L) /\ n = e[1] + 1 /\ Headers(r) = Marks(e, L)
          /\ \A i \in 1..L : e[i] = r[i].len
      BY RingTiles
    <2>2. n \in 0..L
      BY <2>1 DEF Tiles, Marks
    <2>3. PICK M \in Int : M = L - n
      BY <2>1
    <2>4. q \in Seq(Cell) /\ Len(q) = M /\ \A i \in 1..M : q[i] = r[i + n] /\ i + n \in 1..L
      BY <2>2, <2>3, <1>SubSeqIs, ZenonT(40)
    <2> HIDE DEF q, L, e
    <2> DEFINE d == Lens(q)
    <2>5. /\ d \in [1..M -> Int] /\ Headers(q) = Marks(d, M) /\ (Whole(q) <=> Tiles(d, M))
          /\ \A i \in 1..M : d[i] = q[i].len
      BY <2>4, RingTiles, Zenon
    <2> HIDE DEF d
    <2>6. \A i \in 1..M : d[i] = e[i + n]
      BY <2>1, <2>4, <2>5, ZenonT(40)
    <2>7. Tiles(d, M) /\ Cardinality(Marks(d, M)) = Cardinality(Marks(e, L)) - 1
      <3>1. L > 0
        BY DEF L
      <3>. QED
        <4>1. Popped(e, L, n, d, M)
          BY <2>1, <2>3, <2>5, <2>6, <3>1, SMTT(30) DEF Popped
        <4>. QED
          BY <4>1, <1>TilesPop
    <2>. QED
      BY <2>1, <2>5, <2>7 DEF q, L
  <1>. QED
    BY <1>WholePop

-----------------------------------------------------------------------------
(* Every step.                                                             *)

\* The inductive invariant: also a block of memory that is free has a whole ring
FramesInv == \A s \in Socks : sock[s].type = "framed" =>
               Whole(sock[s].ring) /\ Cardinality(Headers(sock[s].ring)) = sock[s].msgs

\* Every step preserves it where write() is not used on framed sockets
LEMMA FramesKept ==
  ASSUME "send" \notin Calls, UnixInv, FramesInv, [Next]_vars
  PROVE  FramesInv'
  <1> SUFFICES ASSUME NEW s \in Socks, sock'[s].type = "framed"
               PROVE  Whole(sock'[s].ring) /\ Cardinality(Headers(sock'[s].ring)) = sock'[s].msgs
    BY DEF FramesInv
  <1>a. UnixInv'
    BY UnixKept
  <1>0. sock'[s].ring \in Seq(Cell)
    BY <1>a DEF UnixInv, Struct, Sock
  <1>1. sock[s].ring \in Seq(Cell) /\ sock[s].msgs \in Nat
        /\ (sock[s].type = "framed" => Whole(sock[s].ring) /\ Cardinality(Headers(sock[s].ring)) = sock[s].msgs)
    BY SockTyped DEF UnixInv, FramesInv
  <1>2. CASE FailStep \/ BlockStep
    BY <1>1, <1>2 DEF FailStep, BlockStep, Blocks
  <1>3. CASE WriteStep
    <2>1. PICK t \in Socks, n \in 1..MaxLen : Touches(t) /\ (Gets(t, n) \/ \E u \in Socks : GetsRecord(t, n, u))
      BY <1>3 DEF WriteStep
    <2>2. sock[s].type = "framed"
      BY <2>1, TouchKeeps DEF Same
    <2>3. CASE s # t
      BY <1>1, <2>1, <2>2, <2>3, TouchKeeps
    <2>4. ASSUME s = t, NEW u \in Socks, GetsRecord(t, n, u)
          PROVE  Whole(sock'[s].ring) /\ Cardinality(Headers(sock'[s].ring)) = sock'[s].msgs
      BY <1>1, <2>2, <2>4, WholeAppend DEF GetsRecord
    <2>. QED
      BY <2>1, <2>2, <2>3, <2>4 DEF Gets
  <1>4. CASE ReadStep
    <2>1. PICK t \in open, n \in Nat :
            /\ Touches(t) /\ sock'[t].ring = SubSeq(sock[t].ring, n + 1, Used(t)) /\ Used(t) > 0
            /\ sock[t].type = "framed" =>
                 /\ sock'[t].msgs = sock[t].msgs - 1
                 /\ sock[t].ring[1].len >= 0 => n = sock[t].ring[1].len + 1
      BY <1>4, Zenon DEF ReadStep
    <2>2. t \in Socks
      BY DEF UnixInv, TypeOK, Live
    <2>3. sock[s].type = "framed"
      BY <2>1, <2>2, TouchKeeps DEF Same
    <2>4. CASE s # t
      BY <1>1, <2>1, <2>2, <2>3, <2>4, TouchKeeps, Zenon
    <2>5. CASE s = t
      <3> DEFINE r == sock[s].ring
      <3>1. r \in Seq(Cell) /\ Len(r) > 0 /\ r # <<>> /\ Whole(r)
        BY <1>1, <2>1, <2>3, <2>5 DEF Used
      <3>2. 1 \in Headers(r)
        BY <3>1 DEF Whole
      <3>3. r[1].len >= 0
        BY <3>2 DEF Headers
      <3>4. n = r[1].len + 1 /\ sock'[s].ring = SubSeq(r, n + 1, Len(r)) /\ sock'[s].msgs = sock[s].msgs - 1
        BY <2>1, <2>3, <2>5, <3>3 DEF Used
      <3>. QED
        BY <1>1, <2>3, <3>1, <3>4, WholePop, Zenon
    <2>. QED
      BY <2>4, <2>5
  <1>5. CASE UnixInv' /\ Quiet
    <2>1. Calm(sock'[s], sock[s])
      BY <1>5 DEF Quiet
    <2>2. CASE sock'[s].ring = <<>> /\ sock'[s].msgs = 0
      <3>1. Headers(<<>>) = {} /\ Whole(<<>>)
        BY DEF Headers, Whole
      <3>. QED
        BY <2>2, <3>1, FS_EmptySet, Zenon
    <2>3. CASE /\ sock'[s].type = sock[s].type /\ sock'[s].msgs = sock[s].msgs
               /\ Len(sock'[s].ring) = Len(sock[s].ring)
               /\ \A i \in 1..Len(sock[s].ring) : sock'[s].ring[i].len = sock[s].ring[i].len
      BY <1>0, <1>1, <2>3, WholeCalm, SMTT(30)
    <2>. QED
      BY <2>1, <2>2, <2>3 DEF Calm
  <1>. QED
    BY <1>2, <1>3, <1>4, <1>5, StepKinds

\* There are no framed sockets at boot
LEMMA FramesStart == ASSUME Init PROVE FramesInv
  <1>1. \A s \in Socks : sock[s] = Free
    BY DEF Init
  <1>2. Free.type = "stream"
    BY DEF Free
  <1>. QED
    BY <1>1, <1>2 DEF FramesInv

\* Where programs do not write() to framed sockets, framed_pop() finds whole
\* records, as many as msg_cnt says.
THEOREM RecordsWhole == "send" \notin Calls => (Spec => []FramesWhole)
  <1> SUFFICES ASSUME "send" \notin Calls PROVE Spec => []FramesWhole
    OBVIOUS
  <1>1. Init => UnixInv /\ FramesInv
    BY UnixStart, FramesStart
  <1>2. UnixInv /\ FramesInv /\ [Next]_vars => UnixInv' /\ FramesInv'
    BY UnixKept, FramesKept
  <1>3. FramesInv => FramesWhole
    BY DEF FramesInv, FramesWhole, Live
  <1>. QED
    BY <1>1, <1>2, <1>3, PTL DEF Spec
=============================================================================
