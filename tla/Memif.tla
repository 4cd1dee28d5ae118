------------------------------- MODULE Memif -------------------------------
(***************************************************************************)
(* The memory interface of the host (memif.cc): reads and writes of any    *)
(* length at any address, made of the chunks an implementation offers.     *)
(*                                                                         *)
(* An implementation is a record: its chunk alignment and largest chunk,   *)
(* and whether clear_chunk writes zeros, as that of htif.cc does, or       *)
(* nothing, as that of htif_hexwriter.h.  Memory is a function from        *)
(* addresses to bytes.                                                     *)
(***************************************************************************)
EXTENDS Integers, Sequences, SequencesExt, FiniteSetsExt

Overlay(m, a, bytes) ==
  LET at == a .. a + Len(bytes) - 1
  IN  [b \in at \cup DOMAIN m |-> IF b \in at THEN bytes[b - a + 1] ELSE m[b]]
Bytes(m, a, n) == [i \in 1 .. n |-> m[a + i - 1]]
Zeros(n)       == [i \in 1 .. n |-> 0]

\* The loops over the parts of a transfer or the segments of an image.
Sequentially(Step(_, _), m, parts) ==
  LET loop[i \in 0 .. Len(parts)] == IF i = 0 THEN m ELSE Step(loop[i - 1], parts[i])
  IN  loop[Len(parts)]

Down(c, a) == a - (a % c.align)

\* The chunks an implementation can have, and a length in whole units.
Chunked(c) ==
  /\ c.align \in Nat \ {0} /\ c.max \in Nat \ {0} /\ c.max % c.align = 0
  /\ c.clears \in BOOLEAN
Whole(c, n) == n % c.align = 0

\* An implementation takes whole aligned units, and no chunk that is too long;
\* htif_hexwriter.cc asserts as much.
IsChunk(c, a, n) == a % c.align = 0 /\ n % c.align = 0 /\ n <= c.max
read_chunk(c, m, a, n)      == Bytes(m, a, n)
write_chunk(c, m, a, bytes) == IF IsChunk(c, a, Len(bytes)) THEN Overlay(m, a, bytes) ELSE m

\* The loop over chunks of at most chunk_max_size.
Offsets(c, n) == [i \in 1 .. (n + c.max - 1) \div c.max |-> (i - 1) * c.max]
WriteAt(c, m, a, bytes, off) ==
  write_chunk(c, m, a + off, SubSeq(bytes, off + 1, Min({off + c.max, Len(bytes)})))
WriteChunks(c, m, a, bytes) ==
  Sequentially(LAMBDA memory, off : WriteAt(c, memory, a, bytes, off), m, Offsets(c, Len(bytes)))

clear_chunk(c, m, a, n) == IF c.clears THEN WriteChunks(c, m, a, Zeros(n)) ELSE m

\* The parts before the first and after the last whole unit are merged into
\* the unit around them, which is read first.
First(c, a, n) == IF a % c.align = 0 THEN 0 ELSE Min({n, c.align - (a % c.align)})
Last_(c, a, n) == (n - First(c, a, n)) % c.align
Merge(c, m, a, bytes) ==
  write_chunk(c, m, Down(c, a),
              Overlay(read_chunk(c, m, Down(c, a), c.align), (a % c.align) + 1, bytes))

write(c, m, a, bytes) ==
  LET n   == Len(bytes)
      f   == First(c, a, n)
      l   == Last_(c, a, n)
      mid == SubSeq(bytes, f + 1, n - l)
      Edge(memory, e) == Merge(c, memory, a + e.off, e.bytes)
      merged == Sequentially(Edge, m,
                  (IF f = 0 THEN <<>> ELSE << [off |-> 0, bytes |-> SubSeq(bytes, 1, f)] >>) \o
                  (IF l = 0 THEN <<>> ELSE << [off |-> n - l, bytes |-> SubSeq(bytes, n - l + 1, n)] >>))
  IN  IF mid # <<>> /\ mid = Zeros(Len(mid)) THEN clear_chunk(c, merged, a + f, Len(mid))
      ELSE WriteChunks(c, merged, a + f, mid)

read(c, m, a, n) ==
  LET f     == First(c, a, n)
      l     == Last_(c, a, n)
      first == SubSeq(read_chunk(c, m, Down(c, a), c.align), (a % c.align) + 1, (a % c.align) + f)
      last  == SubSeq(read_chunk(c, m, a + n - l, c.align), 1, l)
  IN  (IF f = 0 THEN <<>> ELSE first) \o Bytes(m, a + f, n - f - l) \o (IF l = 0 THEN <<>> ELSE last)
============================================================================
