------------------------------- MODULE Codec -------------------------------
(***************************************************************************)
(* The decoders of packages: DEFLATE (pkg/inflate.c) and Zstandard         *)
(* (pkg/zstd.c), each algorithm against what it has to compute.  The kind  *)
(* of a state says which: the sliding window, canonical Huffman tables,    *)
(* runs of code lengths, FSE tables, Huffman weights, the reverse bit      *)
(* reader, repeat offsets, frames.                                         *)
(***************************************************************************)
EXTENDS Integers, Sequences, FiniteSets, FiniteSetsExt, SequencesExt

CONSTANTS Keep,         \* INF_KEEP: the reach of a back reference
          Window,       \* INF_BUFSZ
          Output,       \* bytes a stream may have
          MaxBits,      \* INFLATE_MAX_BITS
          Alphabet,     \* symbols of a Huffman code
          TableLog,     \* of an FSE table
          Weights,      \* weights of a Huffman description
          MaxWeight,
          StreamBytes,  \* bytes of a reverse bit stream
          Reads,        \* sequences of a block
          Frames

VARIABLE codec

SumOf(s) == FoldLeft(LAMBDA x, y : x + y, 0, s)
Log2(v) == CHOOSE k \in 0..16 : 2^k <= v /\ v < 2^(k + 1)
-----------------------------------------------------------------------------
(* out_flush and the copy loops of inflate_stored and inflate_codes        *)

WindowInit == codec = [kind |-> "window", win |-> <<>>, sunk |-> <<>>, ref |-> <<>>, refused |-> FALSE]

\* Mutant: one byte fewer goes to the sink than leaves the window
FlushedShort(w) == IF Len(w.win) < Window THEN w ELSE
  [w EXCEPT !.sunk = @ \o SubSeq(w.win, 1, Window - Keep - 1), !.win = SubSeq(@, Window - Keep + 1, Window)]

\* Before a byte is put into a full window, all but the last Keep bytes go to the sink
Flushed(w) == IF Len(w.win) < Window THEN w ELSE
  [w EXCEPT !.sunk = @ \o SubSeq(w.win, 1, Window - Keep), !.win = SubSeq(@, Window - Keep + 1, Window)]

Put(w, b) == LET f == Flushed(w) IN [f EXCEPT !.win = Append(@, b)]

Literal(b) ==
  /\ codec.kind = "window" /\ Len(codec.ref) < Output
  /\ codec' = [Put(codec, b) EXCEPT !.ref = Append(@, b)]

\* `from' is computed again after a flush
CopyByte(w, d) == LET f == Flushed(w) IN [f EXCEPT !.win = Append(@, @[Len(@) - d + 1])]
Copied(w, d, n) == FoldLeft(LAMBDA x, i : CopyByte(x, d), w, [i \in 1..n |-> i])
Repeated(s, d, n) == FoldLeft(LAMBDA x, i : Append(x, x[Len(x) - d + 1]), s, [i \in 1..n |-> i])

Match(d, n) ==
  /\ codec.kind = "window" /\ d <= Len(codec.ref) /\ Len(codec.ref) + n <= Output
  /\ codec' = IF d > Len(codec.win) THEN [codec EXCEPT !.refused = TRUE]
              ELSE [Copied(codec, d, n) EXCEPT !.ref = Repeated(@, d, n)]

(***************************************************************************)
(* What went to the sink and what is in the window is the text, and every  *)
(* reference within reach is honoured, also one that runs over itself or   *)
(* over a flush: "the flush inside the copy loop always leaves the         *)
(* referenced history intact".                                             *)
(***************************************************************************)
WindowExact == codec.kind = "window" => codec.sunk \o codec.win = codec.ref /\ ~ codec.refused
-----------------------------------------------------------------------------
(* huff_build and the lookup of huff_decode                                *)

HuffInit ==
  \E l \in [1..Alphabet -> 0..MaxBits] : codec = [kind |-> "huffman", lens |-> l]

CountOf(l, n) == Cardinality({s \in DOMAIN l : l[s] = n})
\* sym[]: by length, then by symbol
Before(l, s, t) == l[s] # 0 /\ (l[s] < l[t] \/ (l[s] = l[t] /\ s < t))

\* next_code[] of RFC 1951
FirstCode(l) ==
  LET f[n \in 0..MaxBits] == IF n = 0 THEN 0 ELSE (f[n - 1] + (IF n = 1 THEN 0 ELSE CountOf(l, n - 1))) * 2
  IN f

CodeOf(l, s) == FirstCode(l)[l[s]] + Cardinality({t \in 1..(s - 1) : l[t] = l[s]})

\* "Over-subscription check: Kraft inequality must hold"
Left(l) == LET f[n \in 0..MaxBits] == IF n = 0 THEN 1 ELSE f[n - 1] * 2 - CountOf(l, n) IN f
HuffBuilt(l) == (\E s \in DOMAIN l : l[s] # 0) /\ \A n \in 1..MaxBits : Left(l)[n] >= 0

Bit(v, i) == (v \div 2^i) % 2
Reversed(c, n) == LET f[b \in 0..n] == IF b = 0 THEN 0 ELSE f[b - 1] + Bit(c, b - 1) * 2^(n - b) IN f[n]

\* The symbols whose entries cover index j of the table
TableAt(l, j) == {s \in DOMAIN l : l[s] # 0 /\ j % 2^l[s] = Reversed(CodeOf(l, s), l[s])}

\* The code of s is where the codes before it end, as a fraction of the code space
SpaceBefore(l, s) ==
  MapThenSumSet(LAMBDA t : 2^(MaxBits - l[t]), {t \in DOMAIN l : Before(l, t, s)})
Reads1(j, n) == LET f[b \in 0..n] == IF b = 0 THEN 0 ELSE f[b - 1] * 2 + Bit(j, b - 1) IN f[n]

(***************************************************************************)
(* The lookup table decodes the canonical prefix code: an index belongs to *)
(* at most one symbol, the one whose code the stream begins with; a        *)
(* complete set of lengths leaves no hole.                                 *)
(***************************************************************************)
HuffmanExact ==
  codec.kind = "huffman" /\ HuffBuilt(codec.lens) =>
    \A j \in 0..(2^MaxBits - 1) :
      /\ Cardinality(TableAt(codec.lens, j)) <= 1
      /\ Left(codec.lens)[MaxBits] = 0 => TableAt(codec.lens, j) # {}
      /\ \A s \in TableAt(codec.lens, j) :
           LET n == codec.lens[s]
           IN Reads1(j, n) * 2^(MaxBits - n) = SpaceBefore(codec.lens, s)
-----------------------------------------------------------------------------
(* The runs of code lengths of inflate_dynamic_tables                      *)

LengthsInit ==
  \E n \in 1..Output : codec = [kind |-> "lengths", n |-> n, lens |-> <<>>, last |-> -1, ref |-> <<>>, run |-> FALSE]

Added(c, v, k) == [c EXCEPT !.lens = SubSeq(@ \o [i \in 1..k |-> v], 1, IF Len(@) + k > c.n THEN c.n ELSE Len(@) + k)]

Explicit(v) ==
  /\ codec.kind = "lengths" /\ Len(codec.lens) < codec.n
  /\ codec' = [Added(codec, v, 1) EXCEPT !.last = v, !.ref = Append(@, v), !.run = FALSE]

\* 16, "copy the previous length"; after a run of zeros, where no encoder writes it,
\* `last' is not the previous length
CopyLast(k) ==
  /\ codec.kind = "lengths" /\ Len(codec.lens) < codec.n /\ codec.last >= 0 /\ ~ codec.run
  /\ codec' = [Added(codec, codec.last, k) EXCEPT !.ref = @ \o [i \in 1..k |-> Last(codec.ref)]]

\* 17 and 18
ZeroRun(k) ==
  /\ codec.kind = "lengths" /\ Len(codec.lens) < codec.n
  /\ codec' = [Added(codec, 0, k) EXCEPT !.ref = @ \o [i \in 1..k |-> 0], !.run = TRUE]

(***************************************************************************)
(* The lengths are those that were written, across the border between the  *)
(* two alphabets, and never more than were announced.                      *)
(***************************************************************************)
LengthsExact ==
  codec.kind = "lengths" => IsPrefix(codec.lens, codec.ref) /\ Len(codec.lens) <= codec.n
-----------------------------------------------------------------------------
(* fse_build_dtable and build_seq_fse                                      *)

Size == 2^TableLog
Abs(v) == IF v < 0 THEN -v ELSE v

FseInit ==
  \E a, b \in -1..Size :
    LET c == Size - Abs(a) - Abs(b)
    IN c >= 0 /\ \E d \in {c} \cup (IF c = 1 THEN {-1} ELSE {}) : codec = [kind |-> "fse", norm |-> <<a, b, d>>]

fse_step == (Size \div 2) + (Size \div 8) + 3

HighThreshold(norm) == Size - 1 - CountOf(norm, -1)

\* The walk over the cells that no rare symbol took; entry k + 1 is the position after
\* k symbols
Positions(norm) ==
  LET hop(p) == (p + fse_step) % Size
      over(p) == p > HighThreshold(norm)
      next(p) == IF ~ over(hop(p)) THEN hop(p)
                 ELSE IF ~ over(hop(hop(p))) THEN hop(hop(p)) ELSE hop(hop(hop(p)))
  IN FoldLeft(LAMBDA ps, k : Append(ps, next(Last(ps))), <<0>>, [k \in 1..(HighThreshold(norm) + 1) |-> k])

\* The cells of symbol s; a symbol of probability -1 has one, at the top
CellsOf(norm, walk, s) ==
  LET from == SumOf([t \in 1..(s - 1) |-> IF norm[t] > 0 THEN norm[t] ELSE 0])
  IN IF norm[s] = -1 THEN {Size - CountOf(SubSeq(norm, 1, s), -1)}
     ELSE {walk[k] : k \in (from + 1)..(from + norm[s])}

\* nbBits and nextState of cell u, the next of the cells of s
Transition(norm, s, cells, u) ==
  LET x == Abs(norm[s]) + Cardinality({v \in cells : v < u})
      nb == TableLog - Log2(x)
  IN [from |-> x * 2^nb - Size, width |-> 2^nb]

(***************************************************************************)
(* The spread ends where it began, gives every symbol its share of the     *)
(* cells and no cell to two; and the transitions of each symbol lead to    *)
(* every state exactly once, so that what was encoded can be decoded.      *)
(***************************************************************************)
FseExact ==
  codec.kind = "fse" =>
    LET norm == codec.norm
        walk == Positions(norm)
        cells == [s \in 1..3 |-> CellsOf(norm, walk, s)]
    IN /\ Last(walk) = 0
       /\ \A s \in 1..3 : Cardinality(cells[s]) = Abs(norm[s])
       /\ \A s, t \in 1..3 : s # t => cells[s] \cap cells[t] = {}
       /\ \A s \in 1..3 : norm[s] # 0 =>
            LET steps == {Transition(norm, s, cells[s], u) : u \in cells[s]}
            IN /\ \A y \in 0..(Size - 1) : \E q \in steps : q.from <= y /\ y < q.from + q.width
               /\ MapThenSumSet(LAMBDA q : q.width, steps) = Size
-----------------------------------------------------------------------------
(* One count of fse_read_ncount: small values take a bit less              *)

CountInit == \E r \in 2..(Size + 1) : codec = [kind |-> "count", remaining |-> r]

Max1(r) == (2 * 2^Log2(r) - 1) - r

CountRead(r, bits) ==
  LET threshold == 2^Log2(r)
      v == bits % (2 * threshold)
  IN IF bits % threshold < Max1(r) THEN bits % threshold
     ELSE IF v >= threshold THEN v - Max1(r) ELSE v

(***************************************************************************)
(* Every count that still fits the table can be written, and none that     *)
(* does not: "remaining" reaches 1 and never falls below.                  *)
(***************************************************************************)
CountsExact ==
  codec.kind = "count" =>
    {CountRead(codec.remaining, b) : b \in 0..(2 * 2^Log2(codec.remaining) - 1)} = 0..codec.remaining
-----------------------------------------------------------------------------
(* huf_read_stats and huf_read_dtable                                      *)

WeightsInit ==
  \E n \in 1..Weights : \E w \in [1..n -> 0..MaxWeight] : codec = [kind |-> "weights", w |-> w]

Cells(w) == IF w = 0 THEN 0 ELSE 2^(w - 1)
WeightTotal(w) == SumOf([s \in DOMAIN w |-> Cells(w[s])])
HufLog(w) == Log2(WeightTotal(w)) + 1
Rest(w) == 2^HufLog(w) - WeightTotal(w)

\* The weight of the last symbol is what is missing to a power of two
AllWeights(w) == Append(w, Log2(Rest(w)) + 1)
Accepted(w) ==
  /\ WeightTotal(w) # 0 /\ Rest(w) = 2^Log2(Rest(w))
  /\ CountOf(AllWeights(w), 1) >= 2 /\ CountOf(AllWeights(w), 1) % 2 = 0

\* rankStart[]: by weight, then by symbol
Earlier(a, t, s) == a[t] < a[s] \/ (a[t] = a[s] /\ t < s)

StartOf(a, s) == SumOf([t \in DOMAIN a |-> IF Earlier(a, t, s) THEN Cells(a[t]) ELSE 0])

(***************************************************************************)
(* An accepted description fills the table to the last cell, and the cells *)
(* of a symbol are exactly the indices that begin with its code.           *)
(***************************************************************************)
WeightsExact ==
  codec.kind = "weights" /\ Accepted(codec.w) =>
    LET a == AllWeights(codec.w)
    IN /\ SumOf([s \in DOMAIN a |-> Cells(a[s])]) = 2^HufLog(codec.w)
       /\ \A s \in DOMAIN a : a[s] # 0 => a[s] <= HufLog(codec.w) /\ StartOf(a, s) % Cells(a[s]) = 0
-----------------------------------------------------------------------------
(* The reverse bit reader under the reads of decode_block.  left: the bits *)
(* that are still unread, left < 0 beyond the first one                    *)

\* br_init; h is the position of the end mark in the last byte
ReaderInit ==
  \E n \in 1..StreamBytes, h \in 0..7 :
    codec = [kind |-> "reader", ptr |-> IF n > 8 THEN n - 8 ELSE 0, left |-> 8 * (n - 1) + h,
             used |-> (8 - h) + (IF n < 8 THEN (8 - n) * 8 ELSE 0), short |-> FALSE, reads |-> 0]

br_read(b, nb) ==
  [b EXCEPT !.used = @ + nb, !.left = @ - nb, !.short = @ \/ (b.used + nb > 64 /\ b.ptr > 0 /\ nb > 0)]

br_reload(b) ==
  LET k == IF b.ptr >= 8 \/ b.used \div 8 <= b.ptr THEN b.used \div 8 ELSE b.ptr
  IN IF b.used > 64 THEN b ELSE [b EXCEPT !.ptr = @ - k, !.used = @ - 8 * k]

br_end(b) == b.ptr = 0 /\ b.used = 64

\* "if (llB + mlB + ofB >= 31) br_reload"
ReloadLong(b, bits) == IF bits >= 31 THEN br_reload(b) ELSE b

\* The three states, before the first sequence
ReadStates ==
  /\ codec.kind = "reader" /\ codec.reads = 0
  /\ LET r(b, n) == br_reload(br_read(b, n))
     IN \E log \in {0, 9} :
          codec' = [r(r(r(br_reload(codec), log), IF log = 9 THEN 8 ELSE 0), log) EXCEPT !.reads = 1]

\* One sequence: offset, match length, literal length, the next three states
ReadSequence ==
  /\ codec.kind = "reader" /\ codec.reads \in 1..Reads
  /\ \E of \in {0, 1, 14, 31}, ml \in {0, 16}, ll \in {0, 1, 16}, st \in {0, 26} :
       LET b == ReloadLong(br_read(br_read(codec, of), ml), of + ml + ll)
       IN codec' = [br_reload(br_read(br_read(b, ll), st)) EXCEPT !.reads = @ + 1]

(***************************************************************************)
(* The accumulator never runs dry while the stream has more: every read    *)
(* gets the next bits of the stream, and the end is reported exactly when  *)
(* all of them are read.                                                   *)
(***************************************************************************)
ReaderExact ==
  codec.kind = "reader" =>
    /\ ~ codec.short
    /\ codec.ptr * 8 + 64 - codec.used = codec.left
    /\ br_end(codec) <=> codec.left = 0
-----------------------------------------------------------------------------
(* Repeat offsets, and the tables a block takes over from the block before *)

\* huf, fse: the frame whose block wrote the table
FrameInit ==
  codec = [kind |-> "frame", frame |-> 1, rep |-> <<1, 4, 8>>, ref |-> <<1, 4, 8>>, huf |-> 0, fse |-> 0,
           litEntropy |-> FALSE, fseEntropy |-> FALSE, stale |-> FALSE, failed |-> FALSE]

Live == codec.kind = "frame" /\ ~ codec.failed

NewFrame(c) == [c EXCEPT !.frame = @ + 1, !.rep = <<1, 4, 8>>, !.ref = <<1, 4, 8>>,
                         !.litEntropy = FALSE, !.fseEntropy = FALSE]

Frame == Live /\ codec.frame < Frames /\ codec' = NewFrame(codec)

\* decode_literals: Huffman with its tree, or with that of an earlier block
Literals(tree) ==
  /\ Live
  /\ codec' = CASE tree = "own" -> [codec EXCEPT !.huf = codec.frame, !.litEntropy = TRUE]
                [] tree = "treeless" /\ codec.litEntropy -> [codec EXCEPT !.stale = @ \/ codec.huf # codec.frame]
                [] OTHER -> [codec EXCEPT !.failed = TRUE]

\* decode_seq_headers: predefined, RLE and FSE tables are written, a repeated one is not
Tables(type) ==
  /\ Live
  /\ codec' = CASE type = "written" -> [codec EXCEPT !.fse = codec.frame, !.fseEntropy = TRUE]
                [] type = "repeat" /\ codec.fseEntropy -> [codec EXCEPT !.stale = @ \/ codec.fse # codec.frame]
                [] OTHER -> [codec EXCEPT !.failed = TRUE]

\* The offset of decode_block for the code 1 (index 1..3) and the code 0; prev[k] is
\* codec.rep[k + 1].  An offset of 0 becomes one that no match can have
Coded(prev, i) ==
  LET temp == IF i = 3 THEN prev[1] - 1 ELSE prev[i + 1]
  IN <<temp, prev[1], IF i # 1 THEN prev[2] ELSE prev[3]>>
Same(prev, ll0) == IF ll0 THEN <<prev[2], prev[1], prev[3]>> ELSE prev

\* Format: offset values 1 to 3 name a recent offset, shifted by one without literals;
\* the one that is used moves to the front
ByFormat(r, value, ll0) ==
  LET i == value + (IF ll0 THEN 1 ELSE 0)
  IN CASE i = 1 -> r [] i = 2 -> <<r[2], r[1], r[3]>> [] i = 3 -> <<r[3], r[1], r[2]>>
       [] OTHER -> <<r[1] - 1, r[1], r[2]>>

RepeatOffset(value, ll0) ==
  /\ Live
  /\ LET rep == IF value = 1 THEN Same(codec.rep, ll0)
                ELSE Coded(codec.rep, value - 1 + (IF ll0 THEN 1 ELSE 0))
     IN codec' = IF rep[1] = 0 THEN [codec EXCEPT !.failed = TRUE]
                 ELSE [codec EXCEPT !.rep = rep, !.ref = ByFormat(@, value, ll0)]

NewOffset(o) ==
  /\ Live
  /\ codec' = [codec EXCEPT !.rep = <<o, @[1], @[2]>>, !.ref = <<o, @[1], @[2]>>]

(***************************************************************************)
(* A block that takes over a table takes that of an earlier block of its   *)
(* own frame, and the recent offsets are those of the format.              *)
(***************************************************************************)
FramesDecoded == codec.kind = "frame" => ~ codec.stale /\ codec.rep = codec.ref
-----------------------------------------------------------------------------
(* The bit accumulator of DEFLATE: refill, get_bits, and where a member    *)
(* ends.  ref: the bits taken from the stream                              *)

BitsInit ==
  \E n \in 1..StreamBytes : codec = [kind |-> "bits", len |-> n, pos |-> 0, cnt |-> 0, ref |-> 0, trailer |-> -1]

Least(a, b) == IF a < b THEN a ELSE b

\* Whole bytes while at most 56 bits are there
refill(s) ==
  LET k == IF s.cnt > 56 THEN 0 ELSE Least((56 - s.cnt) \div 8 + 1, s.len - s.pos)
  IN [s EXCEPT !.pos = @ + k, !.cnt = @ + 8 * k]

Taken(s, n) == [s EXCEPT !.cnt = @ - n, !.ref = @ + n]

get_bits(n) ==
  /\ codec.kind = "bits" /\ codec.trailer < 0 /\ refill(codec).cnt >= n
  /\ codec' = Taken(refill(codec), n)

\* inflate_stored: to the byte boundary, then two words
Stored ==
  /\ codec.kind = "bits" /\ codec.trailer < 0
  /\ LET s == refill([codec EXCEPT !.cnt = @ - (@ % 8)])
     IN /\ s.cnt >= 32
        /\ codec' = [Taken(s, 32) EXCEPT !.ref = ((codec.ref + 7) \div 8) * 8 + 32]

\* "the stream position is a BIT offset: in_pos*8 - bitcnt"
TrailerPos(s) == (s.pos * 8 - s.cnt + 7) \div 8

\* gzip_inflate_cb, after the last block
Trailer ==
  /\ codec.kind = "bits" /\ codec.trailer < 0
  /\ codec' = [codec EXCEPT !.trailer = TrailerPos(codec)]

(***************************************************************************)
(* Reading ahead loses no bit: a stored block begins at the next byte of   *)
(* the stream, and the trailer, and with it the next member, is found      *)
(* right behind the last bit that was used.                                *)
(***************************************************************************)
BitsExact ==
  codec.kind = "bits" =>
    /\ codec.pos * 8 - codec.cnt = codec.ref /\ codec.cnt <= 64
    /\ codec.trailer >= 0 => codec.trailer * 8 - codec.ref \in 0..7
-----------------------------------------------------------------------------
(* The four streams of huf_decompress                                      *)

StreamsInit == \E n \in 0..Size : codec = [kind |-> "streams", n |-> n]

MinLiterals == 6
Segment(n) == (n + 3) \div 4
Starts(n) == <<0, Segment(n), 2 * Segment(n), 3 * Segment(n), n>>

(***************************************************************************)
(* The four segments cover the literals without overlap, from the least    *)
(* number that decode_literals accepts for four streams.                   *)
(***************************************************************************)
StreamsCover ==
  codec.kind = "streams" /\ codec.n >= MinLiterals =>
    \A i \in 1..4 : Starts(codec.n)[i] <= Starts(codec.n)[i + 1]
-----------------------------------------------------------------------------
CodecInit ==
  \/ WindowInit \/ HuffInit \/ LengthsInit \/ FseInit \/ CountInit \/ WeightsInit \/ ReaderInit \/ FrameInit
  \/ BitsInit \/ StreamsInit

CodecNext ==
  \/ \E b \in {"x", "y"} : Literal(b)
  \/ \E d \in 1..Keep, n \in {1, 3} : Match(d, n)
  \/ \E v \in 0..1 : Explicit(v)
  \/ \E k \in 3..4 : CopyLast(k) \/ ZeroRun(k)
  \/ ReadStates \/ ReadSequence \/ Frame \/ Stored \/ Trailer
  \/ \E n \in {1, 7, 16} : get_bits(n)
  \/ \E t \in {"own", "treeless"} : Literals(t)
  \/ \E t \in {"written", "repeat"} : Tables(t)
  \/ \E v \in 1..3, z \in BOOLEAN : RepeatOffset(v, z)
  \/ \E o \in {1, 5} : NewOffset(o)
=============================================================================
