-------------------------- MODULE SimulationProofs --------------------------
(***************************************************************************)
(* The host process, whatever the jobs.  A theorem quantifies over the     *)
(* jobs and over the host's own process; what it supposes of each job is   *)
(* a Legal... of Simulation, which TLC evaluates for the jobs of the run   *)
(* (JobsAssumption of MCSimulation).                                       *)
(*                                                                         *)
(* The parts, each a theorem with the invariant it rests on:               *)
(*   write of memif.cc and the loaders of images (LoadInv);                *)
(*   the two buffers and the lock of the frame buffer (FrameInv);          *)
(*   the shift register seen by the JTAG client (ShiftInv);                *)
(*   the exit status and the signature (ResultInv);                        *)
(*   the replies between host and program (ReplyInv).                      *)
(* Each invariant is inductive without the others, but for FrameInv and    *)
(* ResultInv, which also use those before them.                            *)
(***************************************************************************)
EXTENDS Simulation, FiniteSetTheorems, SequenceTheorems, WellFoundedInduction, TLAPS

\* A set of natural numbers that is not empty has a least element.
LEMMA LeastNat == ASSUME NEW T \in SUBSET Nat, T # {} PROVE \E x \in T : \A y \in T : x <= y
<1>1. IsWellFoundedOn(OpToRel(<, Nat), Nat)
  BY NatLessThanWellFounded
<1>2. \E x \in T : \A y \in T : ~(<<y, x>> \in OpToRel(<, Nat))
  BY <1>1, WFMin
<1>3. \A x, y \in Nat : y < x => <<y, x>> \in OpToRel(<, Nat)
  BY DEF OpToRel
<1>4. \A x, y \in Nat : ~(y < x) => x <= y
  OBVIOUS
<1> QED BY <1>2, <1>3, <1>4

\* Induction up to n, with a set for the induction hypothesis.
LEMMA UpTo ==
  ASSUME NEW n \in Nat, NEW S \in SUBSET Nat, 0 \in S, \A i \in 1 .. n : i - 1 \in S => i \in S
  PROVE  n \in S
<1> DEFINE T == (0 .. n) \ S
<1> SUFFICES ASSUME T # {} PROVE FALSE
  OBVIOUS
<1>1. PICK x \in T : \A y \in T : x <= y
  <2>1. T \in SUBSET Nat
    OBVIOUS
  <2> HIDE DEF T
  <2> QED BY <2>1, LeastNat
<1>2. x # 0 /\ x \in 1 .. n /\ x - 1 \in 0 .. n
  BY <1>1
<1>3. x - 1 \in S
  BY <1>1, <1>2
<1> QED BY <1>1, <1>2, <1>3

\* Two recursions over the same steps agree.
LEMMA SameLoop ==
  ASSUME NEW n \in Nat, NEW f, NEW g, f[0] = g[0],
         \A i \in 1 .. n : f[i - 1] = g[i - 1] => f[i] = g[i]
  PROVE  f[n] = g[n]
<1> DEFINE S == {i \in Nat : i <= n => f[i] = g[i]}
<1>1. 0 \in S /\ \A i \in 1 .. n : i - 1 \in S => i \in S
  OBVIOUS
<1>2. n \in S
  <2> HIDE DEF S
  <2>1. S \in SUBSET Nat
    BY DEF S
  <2> QED BY <1>1, <2>1, UpTo
<1> QED BY <1>2

----------------------------------------------------------------------------
\* Memory with the bytes of a transfer to a put in their places, those after the
\* first lo and up to hi.
Put(m, a, bytes, lo, hi) ==
  [b \in DOMAIN m |-> IF b \in a + lo .. a + hi - 1 THEN bytes[b - a + 1] ELSE m[b]]

LEMMA PutType ==
  ASSUME NEW D, NEW m \in [D -> Int], NEW a \in Int, NEW bytes \in Seq(Int),
         NEW lo \in 0 .. Len(bytes), NEW hi \in lo .. Len(bytes)
  PROVE  Put(m, a, bytes, lo, hi) \in [D -> Int]
<1>1. DOMAIN m = D
  OBVIOUS
<1>2. \A b \in a + lo .. a + hi - 1 : bytes[b - a + 1] \in Int
  <2> TAKE b \in a + lo .. a + hi - 1
  <2>1. b - a + 1 \in 1 .. Len(bytes)
    OBVIOUS
  <2> QED BY <2>1
<1> QED BY <1>1, <1>2 DEF Put

LEMMA SubSeqIs ==
  ASSUME NEW bytes \in Seq(Int), NEW lo \in 0 .. Len(bytes), NEW hi \in lo .. Len(bytes)
  PROVE  /\ SubSeq(bytes, lo + 1, hi) \in Seq(Int)
         /\ Len(SubSeq(bytes, lo + 1, hi)) = hi - lo
         /\ \A i \in 1 .. hi - lo : SubSeq(bytes, lo + 1, hi)[i] = bytes[lo + i]
<1>1. \A i \in lo + 1 .. hi : bytes[i] \in Int
  OBVIOUS
<1> QED BY <1>1, SubSeqProperties

LEMMA PutOverlay ==
  ASSUME NEW D, NEW m \in [D -> Int], NEW a \in Int, NEW bytes \in Seq(Int),
         NEW lo \in 0 .. Len(bytes), NEW hi \in lo .. Len(bytes),
         a + lo .. a + hi - 1 \subseteq D
  PROVE  Overlay(m, a + lo, SubSeq(bytes, lo + 1, hi)) = Put(m, a, bytes, lo, hi)
<1> DEFINE part == SubSeq(bytes, lo + 1, hi)
           at   == a + lo .. a + hi - 1
<1>1. DOMAIN m = D /\ at \cup D = D
  OBVIOUS
<1>2. Len(part) = hi - lo /\ \A i \in 1 .. hi - lo : part[i] = bytes[lo + i]
  BY SubSeqIs
<1>3. a + lo .. (a + lo) + Len(part) - 1 = at
  BY <1>2
<1>4. \A b \in at : part[b - (a + lo) + 1] = bytes[b - a + 1]
  <2> TAKE b \in at
  <2>1. b - (a + lo) + 1 \in 1 .. hi - lo /\ lo + (b - (a + lo) + 1) = b - a + 1
    OBVIOUS
  <2> QED BY <1>2, <2>1
<1> HIDE DEF part
<1>5. Overlay(m, a + lo, part) = [b \in at \cup D |-> IF b \in at THEN part[b - (a + lo) + 1] ELSE m[b]]
  BY <1>1, <1>3 DEF Overlay
<1>6. Overlay(m, a + lo, part) = [b \in D |-> IF b \in at THEN bytes[b - a + 1] ELSE m[b]]
  BY <1>1, <1>4, <1>5
<1> QED BY <1>1, <1>6 DEF Put, part

LEMMA PutNothing ==
  ASSUME NEW D, NEW m \in [D -> Int], NEW a \in Int, NEW bytes, NEW lo \in Int, NEW hi \in Int,
         hi <= lo
  PROVE  Put(m, a, bytes, lo, hi) = m
<1>1. DOMAIN m = D /\ a + lo .. a + hi - 1 = {}
  OBVIOUS
<1> QED BY <1>1 DEF Put

LEMMA PutThenPut ==
  ASSUME NEW D, NEW m \in [D -> Int], NEW a \in Int, NEW bytes \in Seq(Int),
         NEW lo \in 0 .. Len(bytes), NEW mid \in lo .. Len(bytes), NEW hi \in mid .. Len(bytes)
  PROVE  Put(Put(m, a, bytes, lo, mid), a, bytes, mid, hi) = Put(m, a, bytes, lo, hi)
<1>1. DOMAIN m = D /\ DOMAIN Put(m, a, bytes, lo, mid) = D
  BY DEF Put
<1> QED BY <1>1 DEF Put

----------------------------------------------------------------------------
\* Whole units: sums, differences and multiples of multiples of w, and what lies
\* between two of them.
LEMMA Remainder ==
  ASSUME NEW a \in Int, NEW w \in Nat \ {0}
  PROVE  a % w \in 0 .. w - 1 /\ a = w * (a \div w) + (a % w) /\ a \div w \in Int
OBVIOUS

LEMMA OfProduct == ASSUME NEW k \in Int, NEW w \in Nat \ {0} PROVE (w * k) % w = 0
<1>0. PICK x \in Int : x = w * k
  OBVIOUS
<1> SUFFICES x % w = 0
  BY <1>0
<1> DEFINE r == x % w
           q == x \div w
<1>1. x \in Int /\ r \in 0 .. w - 1 /\ x = w * q + r /\ q \in Int
  BY Remainder
<1>2. r = w * (k - q)
  BY <1>0, <1>1
<1> SUFFICES ASSUME r # 0 PROVE FALSE
  OBVIOUS
<1>3. k - q \in Int /\ k - q # 0
  BY <1>1, <1>2
<1>4. w * (k - q) >= w \/ w * (k - q) <= 0
  <2> DEFINE d == k - q
  <2>1. d >= 1 \/ d <= 0
    BY <1>3
  <2>2. ASSUME d >= 1 PROVE w * d >= w
    <3>1. d \in Int
      BY <1>3
    <3> HIDE DEF d
    <3> QED BY <2>2, <3>1
  <2>3. ASSUME d <= 0 PROVE w * d <= 0
    <3>1. d \in Int
      BY <1>3
    <3> HIDE DEF d
    <3> QED BY <2>3, <3>1
  <2> QED BY <2>1, <2>2, <2>3
<1> QED BY <1>1, <1>2, <1>4

LEMMA Quotient ==
  ASSUME NEW a \in Int, NEW w \in Nat \ {0}, a % w = 0
  PROVE  \E k \in Int : a = w * k
<1>1. a = w * (a \div w) + 0 /\ a \div w \in Int
  BY Remainder
<1>2. a = w * (a \div w)
  BY <1>1
<1> QED BY <1>1, <1>2

LEMMA Multiples ==
  ASSUME NEW a \in Int, NEW b \in Int, NEW w \in Nat \ {0}, a % w = 0, b % w = 0
  PROVE  /\ (a + b) % w = 0 /\ (a - b) % w = 0
         /\ a < b => a + w <= b
<1>1. PICK j \in Int : a = w * j
  BY Quotient
<1>2. PICK k \in Int : b = w * k
  BY Quotient
<1>3. a + b = w * (j + k) /\ a - b = w * (j - k)
  BY <1>1, <1>2
<1>4. a < b => a + w <= b
  <2> SUFFICES ASSUME a < b PROVE a + w <= b
    OBVIOUS
  <2>1. j + 1 <= k
    <3> SUFFICES ASSUME k <= j PROVE FALSE
      OBVIOUS
    <3>1. w * k <= w * j
      OBVIOUS
    <3> QED BY <3>1, <1>1, <1>2
  <2>2. w * (j + 1) <= w * k
    BY <2>1
  <2> QED BY <2>2, <1>1, <1>2
<1>5. (w * (j + k)) % w = 0 /\ (w * (j - k)) % w = 0
  <2>1. j + k \in Int /\ j - k \in Int
    OBVIOUS
  <2> QED BY <2>1, OfProduct
<1>6. (a + b) % w = 0 /\ (a - b) % w = 0
  BY <1>3, <1>5
<1> QED BY <1>4, <1>6

LEMMA MultipleTimes ==
  ASSUME NEW a \in Int, NEW i \in Int, NEW w \in Nat \ {0}, a % w = 0
  PROVE  (i * a) % w = 0
<1>1. PICK k \in Int : a = w * k
  BY Quotient
<1>2. i * a = w * (i * k) /\ i * k \in Int
  BY <1>1
<1> QED BY <1>2, OfProduct

LEMMA DownIs ==
  ASSUME NEW a \in Int, NEW w \in Nat \ {0}
  PROVE  (a - (a % w)) % w = 0
<1>1. a - (a % w) = w * (a \div w) /\ a \div w \in Int
  BY Remainder
<1> QED BY <1>1, OfProduct

----------------------------------------------------------------------------
\* A part that lies in one unit.
InUnit(c, a, n) == (a % c.align) + n <= c.align

LEMMA MinOfTwo ==
  ASSUME NEW x \in Int, NEW y \in Int
  PROVE  Min({x, y}) = IF x <= y THEN x ELSE y
<1> DEFINE z == IF x <= y THEN x ELSE y
<1>1. z \in {x, y} /\ \A u \in {x, y} : z <= u
  OBVIOUS
<1>2. \A v \in {x, y} : (\A u \in {x, y} : v <= u) => v = z
  OBVIOUS
<1> QED BY <1>1, <1>2 DEF Min

LEMMA CeilingFacts ==
  ASSUME NEW len \in Nat, NEW max \in Nat \ {0}
  PROVE  LET n == (len + max - 1) \div max
         IN  n \in Nat /\ n * max >= len /\ \A i \in 1 .. n : (i - 1) * max < len
<1> DEFINE x == len + max - 1
           n == x \div max
<1>0. x \in Nat
  OBVIOUS
<1>1. n \in Int /\ x = max * n + (x % max) /\ x % max \in 0 .. max - 1
  BY <1>0, Remainder
<1> DEFINE r == x % max
<1>2. r \in 0 .. max - 1 /\ n \in Int /\ len + max - 1 = max * n + r
  BY <1>1
<1> HIDE DEF r, n, x
<1>3. n >= 0
  <2> SUFFICES ASSUME n <= -1 PROVE FALSE
    BY <1>2
  <2>1. max * n <= max * (-1)
    BY <1>2
  <2> QED BY <1>2, <2>1
<1>4. n * max >= len
  <2>1. max * n = n * max
    BY <1>2
  <2> QED BY <1>2, <2>1
<1>5. ASSUME NEW i \in 1 .. n PROVE (i - 1) * max < len
  <2>1. (i - 1) * max <= (n - 1) * max
    BY <1>2, <1>3
  <2>2. (n - 1) * max = max * n - max
    BY <1>2
  <2>3. (i - 1) * max \in Int
    BY <1>2
  <2> QED BY <1>2, <2>1, <2>2, <2>3
<1> QED BY <1>2, <1>3, <1>4, <1>5 DEF n, x

\* One chunk of a write, and where it ends.
ChunkEnd(c, off, len) == IF off + c.max <= len THEN off + c.max ELSE len
LEMMA WriteAtIs ==
  ASSUME NEW D, NEW m \in [D -> Int], NEW a \in Int, NEW bytes \in Seq(Int),
         NEW c, Chunked(c), Whole(c, a), Whole(c, Len(bytes)),
         a .. a + Len(bytes) - 1 \subseteq D,
         NEW off \in 0 .. Len(bytes), Whole(c, off)
  PROVE  WriteAt(c, m, a, bytes, off)
           = Put(m, a, bytes, off, ChunkEnd(c, off, Len(bytes)))
<1> USE DEF Whole
<1> DEFINE w  == c.align
           hi == ChunkEnd(c, off, Len(bytes))
           chunk == SubSeq(bytes, off + 1, hi)
<1>1. w \in Nat \ {0} /\ c.max \in Nat \ {0} /\ c.max % w = 0
  BY DEF Chunked
<1>2. hi \in off .. Len(bytes) /\ hi = Min({off + c.max, Len(bytes)})
  <2>1. off + c.max \in Int /\ Len(bytes) \in Int
    BY <1>1
  <2>2. Min({off + c.max, Len(bytes)}) = hi
    BY <2>1, MinOfTwo DEF ChunkEnd
  <2> QED BY <1>1, <2>1, <2>2 DEF ChunkEnd
<1>3. Len(chunk) = hi - off
  BY <1>2, SubSeqIs
<1>4. (a + off) % w = 0
  <2>1. a % w = 0 /\ off % w = 0 /\ off \in Int
    OBVIOUS
  <2> QED BY <1>1, <2>1, Multiples
<1>5. (hi - off) % w = 0 /\ hi - off <= c.max
  <2>1. CASE off + c.max <= Len(bytes)
    BY <2>1, <1>1 DEF ChunkEnd
  <2>2. CASE ~(off + c.max <= Len(bytes))
    <3>1. Len(bytes) \in Int /\ off \in Int
      OBVIOUS
    <3>2. (Len(bytes) - off) % w = 0
      BY <1>1, <3>1, Multiples
    <3> QED BY <2>2, <1>1, <3>2 DEF ChunkEnd
  <2> QED BY <2>1, <2>2
<1>6. WriteAt(c, m, a, bytes, off) = Overlay(m, a + off, chunk)
  BY <1>2, <1>3, <1>4, <1>5 DEF WriteAt, write_chunk, IsChunk
<1>7. a + off .. a + hi - 1 \subseteq D
  <2> HIDE DEF hi
  <2> QED BY <1>2
<1> QED BY <1>2, <1>6, <1>7, PutOverlay

\* The same of all memories at once.
ChunkAt(D, c, a, bytes, off) ==
  /\ a \in Int /\ bytes \in Seq(Int) /\ Chunked(c) /\ Whole(c, a) /\ Whole(c, Len(bytes))
  /\ a .. a + Len(bytes) - 1 \subseteq D /\ off \in 0 .. Len(bytes) /\ Whole(c, off)
LEMMA WriteAtAny ==
  ASSUME NEW D, NEW a, NEW bytes, NEW c, NEW off, ChunkAt(D, c, a, bytes, off), NEW m \in [D -> Int]
  PROVE  WriteAt(c, m, a, bytes, off) = Put(m, a, bytes, off, ChunkEnd(c, off, Len(bytes)))
BY WriteAtIs DEF ChunkAt

\* The loop over the chunks of a write of whole units writes them all.
LEMMA WriteChunksIs ==
  ASSUME NEW D, NEW m \in [D -> Int], NEW a \in Int, NEW bytes \in Seq(Int),
         NEW c, Chunked(c), Whole(c, a) \/ Len(bytes) = 0, Whole(c, Len(bytes)),
         a .. a + Len(bytes) - 1 \subseteq D
  PROVE  WriteChunks(c, m, a, bytes) = Put(m, a, bytes, 0, Len(bytes))
<1> USE DEF Whole
<1> DEFINE len   == Len(bytes)
           parts == Offsets(c, len)
           n     == (len + c.max - 1) \div c.max
           Hi(i) == IF i * c.max <= len THEN i * c.max ELSE len
           trace == [i \in 0 .. n |-> Put(m, a, bytes, 0, Hi(i))]
           loop  == CHOOSE loop : loop = [i \in 0 .. Len(parts) |->
                      IF i = 0 THEN m ELSE WriteAt(c, loop[i - 1], a, bytes, parts[i])]
<1>1. c.align \in Nat \ {0} /\ c.max \in Nat \ {0} /\ c.max % c.align = 0 /\ len \in Nat
  BY DEF Chunked
<1>2. n \in Nat /\ n * c.max >= len /\ \A i \in 1 .. n : (i - 1) * c.max < len
  BY <1>1, CeilingFacts
<1>3. Len(parts) = n /\ \A i \in 1 .. n : parts[i] = (i - 1) * c.max
  BY <1>2 DEF Offsets
<1> HIDE DEF n, parts
<1>4. \A i \in 0 .. n : Hi(i) \in 0 .. len
  <2> TAKE i \in 0 .. n
  <2>1. i * c.max \in Int /\ i * c.max >= 0
    BY <1>1, <1>2
  <2> QED BY <1>1, <2>1
<1>5. ASSUME NEW i \in 1 .. n
      PROVE  WriteAt(c, trace[i - 1], a, bytes, parts[i]) = trace[i]
  <2>0. i - 1 \in 0 .. n /\ i \in 0 .. n
    BY <1>2
  <2> DEFINE off == (i - 1) * c.max
  <2>1. off \in 0 .. len /\ off % c.align = 0 /\ off + c.max = i * c.max /\ off < len
    <3>1. off \in Int /\ off >= 0
      <4>1. i - 1 \in Nat /\ c.max \in Nat
        BY <1>1, <1>2
      <4>2. \A x, y \in Nat : x * y \in Nat
        OBVIOUS
      <4> QED BY <4>1, <4>2
    <3>2. off % c.align = 0
      <4>1. i - 1 \in Int /\ c.max \in Int
        BY <1>1, <1>2
      <4> QED BY <4>1, <1>1, MultipleTimes
    <3>3. off + c.max = i * c.max
      BY <1>1, <1>2
    <3> QED BY <1>2, <3>1, <3>2, <3>3
  <2>2. Hi(i - 1) = off
    BY <2>1
  <2>3. Hi(i) = ChunkEnd(c, off, len)
    BY <2>1 DEF ChunkEnd
  <2>4. trace[i - 1] = Put(m, a, bytes, 0, off) /\ trace[i] = Put(m, a, bytes, 0, Hi(i))
    BY <2>0, <2>2
  <2> HIDE DEF off, trace, Hi
  <2>5. trace[i - 1] \in [D -> Int]
    <3>1. 0 \in 0 .. Len(bytes) /\ off \in 0 .. Len(bytes)
      BY <2>1, <1>1
    <3>2. Put(m, a, bytes, 0, off) \in [D -> Int]
      BY <3>1, PutType
    <3> QED BY <2>4, <3>2
  <2>6. WriteAt(c, trace[i - 1], a, bytes, off) = Put(trace[i - 1], a, bytes, off, Hi(i))
    <3>1. off \in 0 .. Len(bytes) /\ off % c.align = 0
      BY <2>1
    <3>2. WriteAt(c, trace[i - 1], a, bytes, off)
            = Put(trace[i - 1], a, bytes, off, ChunkEnd(c, off, Len(bytes)))
      <4>1. a % c.align = 0
        BY <2>1
      <4>2. \A mm \in [D -> Int] :
              WriteAt(c, mm, a, bytes, off) = Put(mm, a, bytes, off, ChunkEnd(c, off, Len(bytes)))
        <5> TAKE mm \in [D -> Int]
        <5>1. ChunkAt(D, c, a, bytes, off)
          BY <3>1, <4>1 DEF ChunkAt
        <5> HIDE DEF off, len, Whole
        <5> QED BY <5>1, WriteAtAny
      <4> QED BY <2>5, <3>1, <4>1, <4>2
    <3> QED BY <2>3, <3>2
  <2>7. Hi(i) \in off .. len
    BY <2>1, <2>3, <1>1 DEF ChunkEnd
  <2>8. Put(trace[i - 1], a, bytes, off, Hi(i)) = Put(m, a, bytes, 0, Hi(i))
    <3>1. 0 \in 0 .. Len(bytes) /\ off \in 0 .. Len(bytes) /\ Hi(i) \in off .. Len(bytes)
      BY <2>1, <2>7, <1>1
    <3> QED BY <2>4, <3>1, PutThenPut
  <2> QED BY <2>4, <2>6, <2>8, <1>3 DEF off
<1>6. trace[0] = m
  <2>1. Hi(0) = 0 /\ 0 \in 0 .. n
    BY <1>1, <1>2
  <2>2. trace[0] = Put(m, a, bytes, 0, 0)
    BY <2>1
  <2>3. 0 \in 0 .. Len(bytes)
    BY <1>1
  <2> QED BY <2>2, <2>3, PutNothing
<1>7. trace[n] = Put(m, a, bytes, 0, len)
  <2>1. Hi(n) = len /\ n \in 0 .. n
    BY <1>1, <1>2
  <2> QED BY <2>1
<1>8. loop = [i \in 0 .. n |-> IF i = 0 THEN m ELSE WriteAt(c, loop[i - 1], a, bytes, parts[i])]
  <2>1. trace = [i \in 0 .. n |-> IF i = 0 THEN m ELSE WriteAt(c, trace[i - 1], a, bytes, parts[i])]
    <3>1. trace = [i \in 0 .. n |-> trace[i]]
      OBVIOUS
    <3> HIDE DEF trace
    <3>2. \A i \in 0 .. n : trace[i] = IF i = 0 THEN m ELSE WriteAt(c, trace[i - 1], a, bytes, parts[i])
      BY <1>5, <1>6, <1>2
    <3> QED BY <3>1, <3>2
  <2> HIDE DEF trace
  <2> QED BY <2>1, <1>3
<1> HIDE DEF trace, loop
<1>9. loop[n] = trace[n]
  <2>1. loop[0] = trace[0]
    BY <1>6, <1>8, <1>2
  <2>2. ASSUME NEW i \in 1 .. n, loop[i - 1] = trace[i - 1] PROVE loop[i] = trace[i]
    BY <2>2, <1>2, <1>5, <1>8
  <2> QED BY <2>1, <2>2, <1>2, SameLoop
<1>10. WriteChunks(c, m, a, bytes) = loop[n]
  BY <1>3 DEF WriteChunks, Sequentially, loop, parts
<1> QED BY <1>7, <1>9, <1>10

LEMMA UnitIsChunk == ASSUME NEW c, Chunked(c) PROVE c.align <= c.max
<1>1. c.align \in Nat \ {0} /\ c.max \in Nat \ {0} /\ c.max % c.align = 0
  BY DEF Chunked
<1>2. 0 % c.align = 0 /\ 0 \in Int /\ c.max \in Int
  BY <1>1
<1>3. 0 < c.max => 0 + c.align <= c.max
  BY <1>1, <1>2, Multiples
<1> QED BY <1>1, <1>3

\* A part that fills no unit is merged into the unit it lies in.
PartAt(D, m, a, bytes, lo, hi, c, at, part) ==
  /\ m \in [D -> Int] /\ a \in Int /\ bytes \in Seq(Int) /\ Chunked(c)
  /\ lo \in 0 .. Len(bytes) /\ hi \in lo .. Len(bytes) /\ at = a + lo /\ at \in Int
  /\ InUnit(c, at, hi - lo) /\ Down(c, at) .. Down(c, at) + c.align - 1 \subseteq D
  /\ part = SubSeq(bytes, lo + 1, hi)
LEMMA MergeIs ==
  ASSUME NEW D, NEW m, NEW a, NEW bytes, NEW lo, NEW hi, NEW c, NEW at,
         NEW part, PartAt(D, m, a, bytes, lo, hi, c, at, part)
  PROVE  Merge(c, m, at, part) = Put(m, a, bytes, lo, hi)
<1> USE DEF PartAt, InUnit
<1> DEFINE r    == at % c.align
           d    == Down(c, at)
           w    == c.align
           unit == Overlay(Bytes(m, d, w), r + 1, part)
<1>1. w \in Nat \ {0} /\ w <= c.max
  BY UnitIsChunk DEF Chunked
<1>2. r \in 0 .. w - 1 /\ d \in Int /\ d = (a + lo) - r /\ d % w = 0
  <2>1. at \in Int
    OBVIOUS
  <2>2. r \in 0 .. w - 1
    BY <1>1, <2>1, Remainder
  <2>3. d = at - (at % w)
    BY DEF Down
  <2>4. d % w = 0
    BY <1>1, <2>1, <2>3, DownIs
  <2> QED BY <1>1, <2>1, <2>2, <2>3, <2>4
<1>3. Len(part) = hi - lo /\ \A i \in 1 .. hi - lo : part[i] = bytes[lo + i]
  BY SubSeqIs
<1>4. Merge(c, m, at, part) = write_chunk(c, m, d, unit)
  BY DEF Merge, read_chunk
<1>5. r + (hi - lo) <= w
  OBVIOUS
<1>6. \A b \in d .. d + w - 1 : b \in D
  OBVIOUS
<1> HIDE DEF r, d, w
<1> DEFINE in == r + 1 .. (r + 1) + Len(part) - 1
<1>7. in = r + 1 .. r + (hi - lo) /\ in \subseteq 1 .. w
  BY <1>1, <1>2, <1>3, <1>5
<1>8. unit = [j \in 1 .. w |-> IF j \in in THEN part[j - r] ELSE m[d + j - 1]]
  <2>1. DOMAIN Bytes(m, d, w) = 1 .. w /\ in \cup (1 .. w) = 1 .. w
    BY <1>7 DEF Bytes
  <2>2. \A j \in 1 .. w : j - (r + 1) + 1 = j - r /\ Bytes(m, d, w)[j] = m[d + j - 1]
    BY <1>1, <1>2 DEF Bytes
  <2>3. unit = [j \in in \cup (1 .. w) |-> IF j \in in THEN part[j - (r + 1) + 1] ELSE Bytes(m, d, w)[j]]
    BY <2>1 DEF Overlay
  <2> QED BY <2>1, <2>2, <2>3
<1> HIDE DEF unit, in
<1>9. Len(unit) = w
  BY <1>1, <1>8
<1>10. write_chunk(c, m, d, unit) = Overlay(m, d, unit)
  BY <1>1, <1>2, <1>9 DEF write_chunk, IsChunk, w
<1>11. Overlay(m, d, unit) = [b \in D |-> IF b \in d .. d + w - 1 THEN unit[b - d + 1] ELSE m[b]]
  <2>1. (d .. d + w - 1) \cup D = D /\ DOMAIN m = D
    BY <1>6
  <2> QED BY <2>1, <1>9 DEF Overlay
<1>12. ASSUME NEW b \in D
       PROVE  (IF b \in d .. d + w - 1 THEN unit[b - d + 1] ELSE m[b])
                = (IF b \in a + lo .. a + hi - 1 THEN bytes[b - a + 1] ELSE m[b])
  <2>1. CASE b \notin d .. d + w - 1
    <3>1. b \notin a + lo .. a + hi - 1
      BY <1>1, <1>2, <1>5, <2>1
    <3> QED BY <3>1, <2>1
  <2>2. CASE b \in d .. d + w - 1
    <3>1. b - d + 1 \in 1 .. w /\ d + (b - d + 1) - 1 = b /\ b \in Int
      BY <1>1, <1>2, <2>2
    <3>2. b - d + 1 \in in <=> b \in a + lo .. a + hi - 1
      BY <1>1, <1>2, <1>7, <3>1
    <3>3. b \in a + lo .. a + hi - 1 => part[(b - d + 1) - r] = bytes[b - a + 1]
      <4> SUFFICES ASSUME b \in a + lo .. a + hi - 1 PROVE part[(b - d + 1) - r] = bytes[b - a + 1]
        OBVIOUS
      <4>1. (b - d + 1) - r = b - a - lo + 1 /\ b - a - lo + 1 \in 1 .. hi - lo
            /\ lo + (b - a - lo + 1) = b - a + 1
        BY <1>1, <1>2, <3>1
      <4> QED BY <4>1, <1>3
    <3> QED BY <1>8, <2>2, <3>1, <3>2, <3>3
  <2> QED BY <2>1, <2>2
<1>13. Put(m, a, bytes, lo, hi) = [b \in D |-> IF b \in a + lo .. a + hi - 1 THEN bytes[b - a + 1] ELSE m[b]]
  BY DEF Put
<1> QED BY <1>4, <1>10, <1>11, <1>12, <1>13

\* The loop over the edges of a write, of which there are at most two.
MergeEdge(c, m, a, e) == Merge(c, m, a + e.off, e.bytes)
EdgesMerged(c, m, a, es) ==
  Sequentially(LAMBDA memory, e : Merge(c, memory, a + e.off, e.bytes), m, es)
AtMostTwo(c, m, a, es) ==
  IF Len(es) = 0 THEN m
  ELSE IF Len(es) = 1 THEN MergeEdge(c, m, a, es[1])
  ELSE MergeEdge(c, MergeEdge(c, m, a, es[1]), a, es[2])
LEMMA EdgesAre ==
  ASSUME NEW c, NEW m, NEW a, NEW es, Len(es) \in 0 .. 2
  PROVE  EdgesMerged(c, m, a, es) = AtMostTwo(c, m, a, es)
<1> DEFINE n == Len(es)
           x1 == MergeEdge(c, m, a, es[1])
           x2 == MergeEdge(c, x1, a, es[2])
           trace == [i \in 0 .. n |-> IF i = 0 THEN m ELSE IF i = 1 THEN x1 ELSE x2]
           loop == CHOOSE loop : loop = [i \in 0 .. n |->
                     IF i = 0 THEN m ELSE MergeEdge(c, loop[i - 1], a, es[i])]
<1>1. trace = [i \in 0 .. n |-> IF i = 0 THEN m ELSE MergeEdge(c, trace[i - 1], a, es[i])]
  <2>1. \A i \in 0 .. n : i = 0 \/ (i = 1 /\ trace[i - 1] = m) \/ (i = 2 /\ trace[i - 1] = x1)
    OBVIOUS
  <2> DEFINE t == trace
  <2>2. t = [i \in 0 .. n |-> IF i = 0 THEN m ELSE IF i = 1 THEN x1 ELSE x2]
    OBVIOUS
  <2>3. \A i \in 0 .. n : i = 0 \/ (i = 1 /\ t[i - 1] = m) \/ (i = 2 /\ t[i - 1] = x1)
    BY <2>1
  <2> HIDE DEF t
  <2>4. \A i \in 0 .. n : (IF i = 0 THEN m ELSE IF i = 1 THEN x1 ELSE x2)
                            = IF i = 0 THEN m ELSE MergeEdge(c, t[i - 1], a, es[i])
    BY <2>3
  <2>5. t = [i \in 0 .. n |-> IF i = 0 THEN m ELSE MergeEdge(c, t[i - 1], a, es[i])]
    BY <2>2, <2>4
  <2> QED BY <2>5 DEF t
<1>2. loop = [i \in 0 .. n |-> IF i = 0 THEN m ELSE MergeEdge(c, loop[i - 1], a, es[i])]
  <2> HIDE DEF trace
  <2> QED BY <1>1
<1>3. loop[n] = IF n = 0 THEN m ELSE IF n = 1 THEN x1 ELSE x2
  <2> HIDE DEF loop, x1, x2
  <2> QED BY <1>2 DEF x1, x2
<1> QED BY <1>3 DEF Sequentially, MergeEdge, EdgesMerged, AtMostTwo

LEMMA OneOrTwo ==
  ASSUME NEW x, NEW y
  PROVE  /\ Len(<<>> \o <<>>) = 0 
         /\ Len(<<>> \o << y >>) = 1 /\ (<<>> \o << y >>)[1] = y
         /\ Len(<< x >> \o <<>>) = 1 /\ (<< x >> \o <<>>)[1] = x
         /\ Len(<< x >> \o << y >>) = 2 /\ (<< x >> \o << y >>)[1] = x /\ (<< x >> \o << y >>)[2] = y
<1> DEFINE S == {x, y}
           one(z) == << z >>
<1>1. one(x) \in Seq(S) /\ one(y) \in Seq(S) /\ <<>> \in Seq(S)
  OBVIOUS
<1>2. Len(one(x)) = 1 /\ one(x)[1] = x /\ Len(one(y)) = 1 /\ one(y)[1] = y /\ Len(<<>>) = 0
  OBVIOUS
<1>3. \A s, t \in Seq(S) : /\ Len(s \o t) = Len(s) + Len(t)
                           /\ \A i \in 1 .. Len(s) + Len(t) :
                                (s \o t)[i] = IF i <= Len(s) THEN s[i] ELSE t[i - Len(s)]
  BY ConcatProperties
<1> HIDE DEF S, one
<1>4. /\ Len(<<>> \o <<>>) = 0
      /\ Len(<<>> \o one(y)) = 1 /\ (<<>> \o one(y))[1] = y
      /\ Len(one(x) \o <<>>) = 1 /\ (one(x) \o <<>>)[1] = x
      /\ Len(one(x) \o one(y)) = 2 /\ (one(x) \o one(y))[1] = x /\ (one(x) \o one(y))[2] = y
  BY <1>1, <1>2, <1>3
<1> QED BY <1>4 DEF one

\* The edges of a write, one after the other.
Edges(c, m, a, e1, e2, f, l, m1, m2) ==
  /\ f = 0 => m1 = m
  /\ f # 0 => MergeEdge(c, m, a, e1) = m1
  /\ l = 0 => m2 = m1
  /\ l # 0 => MergeEdge(c, m1, a, e2) = m2
LEMMA EdgeList ==
  ASSUME NEW c, NEW m, NEW a, NEW e1, NEW e2, NEW f, NEW l, NEW m1, NEW m2,
         Edges(c, m, a, e1, e2, f, l, m1, m2)
  PROVE  EdgesMerged(c, m, a, (IF f = 0 THEN <<>> ELSE << e1 >>) \o (IF l = 0 THEN <<>> ELSE << e2 >>)) = m2
<1> USE DEF Edges
<1> DEFINE es == (IF f = 0 THEN <<>> ELSE << e1 >>) \o (IF l = 0 THEN <<>> ELSE << e2 >>)
<1>1. CASE f = 0 /\ l = 0
  <2>1. es = <<>> \o <<>>
    BY <1>1
  <2>2. Len(es) = 0
    BY <2>1, OneOrTwo
  <2> HIDE DEF es
  <2>3. EdgesMerged(c, m, a, es) = m
    <3>1. Len(es) \in 0 .. 2
      BY <2>2
    <3>2. EdgesMerged(c, m, a, es) = AtMostTwo(c, m, a, es)
      BY <3>1, EdgesAre
    <3> QED BY <2>2, <3>2 DEF AtMostTwo
  <2> QED BY <1>1, <2>3 DEF es
<1>2. CASE f = 0 /\ l # 0
  <2>1. es = <<>> \o << e2 >>
    BY <1>2
  <2>2. Len(es) = 1 /\ es[1] = e2
    BY <2>1, OneOrTwo
  <2> HIDE DEF es
  <2>3. EdgesMerged(c, m, a, es)
          = MergeEdge(c, m, a, es[1])
    <3>1. Len(es) \in 0 .. 2
      BY <2>2
    <3>2. EdgesMerged(c, m, a, es) = AtMostTwo(c, m, a, es)
      BY <3>1, EdgesAre
    <3> QED BY <2>2, <3>2 DEF AtMostTwo
  <2> QED BY <1>2, <2>2, <2>3 DEF es
<1>3. CASE f # 0 /\ l = 0
  <2>1. es = << e1 >> \o <<>>
    BY <1>3
  <2>2. Len(es) = 1 /\ es[1] = e1
    BY <2>1, OneOrTwo
  <2> HIDE DEF es
  <2>3. EdgesMerged(c, m, a, es)
          = MergeEdge(c, m, a, es[1])
    <3>1. Len(es) \in 0 .. 2
      BY <2>2
    <3>2. EdgesMerged(c, m, a, es) = AtMostTwo(c, m, a, es)
      BY <3>1, EdgesAre
    <3> QED BY <2>2, <3>2 DEF AtMostTwo
  <2> QED BY <1>3, <2>2, <2>3 DEF es
<1>4. CASE f # 0 /\ l # 0
  <2>1. es = << e1 >> \o << e2 >>
    BY <1>4
  <2>2. Len(es) = 2 /\ es[1] = e1 /\ es[2] = e2
    BY <2>1, OneOrTwo
  <2> HIDE DEF es
  <2>3. EdgesMerged(c, m, a, es)
          = MergeEdge(c, MergeEdge(c, m, a, es[1]), a, es[2])
    <3>1. Len(es) \in 0 .. 2
      BY <2>2
    <3>2. EdgesMerged(c, m, a, es) = AtMostTwo(c, m, a, es)
      BY <3>1, EdgesAre
    <3> QED BY <2>2, <3>2 DEF AtMostTwo
  <2> QED BY <1>4, <2>2, <2>3 DEF es
<1> QED BY <1>1, <1>2, <1>3, <1>4

LEMMA PutZeros ==
  ASSUME NEW D, NEW m \in [D -> Int], NEW a \in Int, NEW bytes \in Seq(Int),
         NEW lo \in 0 .. Len(bytes), NEW hi \in lo .. Len(bytes),
         \A i \in lo + 1 .. hi : a + i - 1 \in D => m[a + i - 1] = bytes[i]
  PROVE  Put(m, a, bytes, lo, hi) = m
<1>1. \A b \in D : b \in a + lo .. a + hi - 1 => bytes[b - a + 1] = m[b]
  <2> TAKE b \in D
  <2> HAVE b \in a + lo .. a + hi - 1
  <2>1. b - a + 1 \in lo + 1 .. hi /\ a + (b - a + 1) - 1 = b
    OBVIOUS
  <2> QED BY <2>1
<1>2. Put(m, a, bytes, lo, hi) = [b \in D |-> IF b \in a + lo .. a + hi - 1 THEN bytes[b - a + 1] ELSE m[b]]
  BY DEF Put
<1>3. m = [b \in D |-> m[b]]
  OBVIOUS
<1> QED BY <1>1, <1>2, <1>3

\* The unit around an address of a memory of whole units.
Addresses(D, S) == D = 0 .. S - 1
LEMMA UnitIn ==
  ASSUME NEW S \in Nat, NEW c, Chunked(c), Whole(c, S), NEW D, Addresses(D, S),
         NEW a \in Nat, a < S
  PROVE  Down(c, a) .. Down(c, a) + c.align - 1 \subseteq D
<1> USE DEF Whole
<1>1. PICK w \in Nat \ {0} : w = c.align
  BY DEF Chunked
<1>0. a \in Int
  OBVIOUS
<1> DEFINE r == a % w
<1>2. a = w * (a \div w) + r /\ r \in 0 .. w - 1 /\ a \div w \in Int
  BY <1>0, Remainder
<1>3. (a - r) % w = 0 /\ a - r \in Int
  BY <1>0, <1>2, DownIs
<1>4. a - r + w <= S
  <2>1. a - r < S
    BY <1>2
  <2>2. S \in Int /\ S % w = 0
    BY <1>1
  <2>3. \A x, y \in Int : x % w = 0 /\ y % w = 0 /\ x < y => x + w <= y
    BY <1>1, Multiples
  <2> QED BY <1>3, <2>1, <2>2, <2>3
<1>5. a - r >= 0
  <2>1. ASSUME a - r < 0 PROVE a - r + w <= 0
    <3>1. 0 % w = 0
      BY <1>1
    <3>2. \A x, y \in Int : x % w = 0 /\ y % w = 0 /\ x < y => x + w <= y
      BY <1>1, Multiples
    <3> QED BY <1>3, <2>1, <3>1, <3>2
  <2> QED BY <1>1, <1>2, <1>3, <2>1
<1>6. Down(c, a) = a - r
  BY <1>1 DEF Down
<1> HIDE DEF r
<1> QED BY <1>1, <1>3, <1>4, <1>5, <1>6 DEF Addresses

\* The parts of a write before its first and after its last whole unit.
LEMMA EdgeFacts ==
  ASSUME NEW c, Chunked(c), NEW a \in Nat, NEW n \in Nat, NEW f, NEW l,
         f = First(c, a, n), l = Last_(c, a, n)
  PROVE  /\ f \in 0 .. n /\ l \in 0 .. n - f /\ Whole(c, n - l - f)
         /\ f = n \/ Whole(c, a + f)
         /\ InUnit(c, a, f)
         /\ l # 0 => InUnit(c, a + (n - l), l) /\ Whole(c, a + (n - l))
<1> USE DEF Whole, InUnit
<1>1. PICK w \in Nat \ {0} : w = c.align
  BY DEF Chunked
<1>0. a \in Int
  OBVIOUS
<1> DEFINE r == a % w
<1>2. r \in 0 .. w - 1 /\ (a - r) % w = 0 /\ a - r \in Int
  <2>1. r \in 0 .. w - 1
    BY <1>0, Remainder
  <2>2. (a - r) % w = 0
    BY <1>0, DownIs
  <2> QED BY <1>0, <2>1, <2>2
<1>3. /\ f \in 0 .. n /\ r + f <= w
      /\ f = n \/ (f = 0 /\ r = 0) \/ f = w - r
  <2>1. CASE r = 0
    BY <2>1, <1>1 DEF First
  <2>2. CASE r # 0
    <3>1. f = Min({n, w - r})
      BY <2>2, <1>1 DEF First
    <3>2. n \in Int /\ w - r \in Int /\ w - r > 0
      BY <1>1, <1>2
    <3>3. f = IF n <= w - r THEN n ELSE w - r
      BY <3>1, <3>2, MinOfTwo
    <3> HIDE DEF r
    <3> QED BY <1>1, <1>2, <3>2, <3>3
  <2> QED BY <2>1, <2>2
<1>4. f = n \/ (a + f) % w = 0
  <2>1. CASE f = 0 /\ r = 0
    BY <2>1
  <2>2. CASE f = w - r
    <3>1. (a - r) + w = a + f
      BY <2>2, <1>1, <1>2
    <3>2. w % w = 0 /\ w \in Int
      <4>1. w * 1 = w
        BY <1>1
      <4>2. \A k \in Int : (w * k) % w = 0
        BY <1>1, OfProduct
      <4> QED BY <4>1, <4>2, <1>1
    <3>3. ((a - r) + w) % w = 0
      BY <1>1, <1>2, <3>2, Multiples
    <3> QED BY <3>1, <3>3
  <2> QED BY <1>3, <2>1, <2>2
<1>5. n - f \in Nat
  <2>1. f \in 0 .. n
    BY <1>3
  <2> QED BY <2>1
<1>6. l = (n - f) % w
  BY <1>1 DEF Last_
<1>7. l \in 0 .. w - 1 /\ l <= n - f /\ (n - f - l) % w = 0
  <2>1. l \in 0 .. w - 1 /\ ((n - f) - l) % w = 0
    <3>1. n - f \in Int
      BY <1>5
    <3> QED BY <3>1, <1>6, Remainder, DownIs
  <2>2. l <= n - f
    <3>1. n - f = w * ((n - f) \div w) + l /\ (n - f) \div w \in Int
      <4>1. n - f \in Int
        BY <1>5
      <4> QED BY <4>1, <1>6, Remainder
    <3>2. PICK q \in Int : n - f = w * q + l
      BY <3>1
    <3>3. q >= 0
      <4> SUFFICES ASSUME q <= -1 PROVE FALSE
        BY <3>2
      <4>1. w * q <= w * (-1)
        BY <1>1
      <4> QED BY <1>1, <1>5, <2>1, <3>2, <4>1
    <3>4. w * q >= 0
      BY <1>1, <3>3
    <3> QED BY <1>1, <1>5, <2>1, <3>2, <3>4
  <2> QED BY <2>1, <2>2
<1>8. l # 0 => (a + (n - l)) % w = 0
  <2> SUFFICES ASSUME l # 0 PROVE (a + (n - l)) % w = 0
    OBVIOUS
  <2>1. (a + f) % w = 0 /\ a + f \in Int /\ n - f - l \in Int
    <3>1. CASE f = n
      <4>1. n - f = 0
        BY <1>3, <3>1
      <4> QED BY <4>1, <1>7
    <3> QED BY <3>1, <1>3, <1>4, <1>7
  <2>2. ((a + f) + (n - f - l)) % w = 0
    BY <1>1, <1>7, <2>1, Multiples
  <2>3. (a + f) + (n - f - l) = a + (n - l)
    BY <1>3, <1>7
  <2> QED BY <2>2, <2>3
<1>9. n - f - l = n - l - f
  BY <1>3, <1>7
<1> HIDE DEF r
<1>10. l # 0 => ((a + (n - l)) % w) + l <= w
  BY <1>1, <1>7, <1>8
<1>11. l \in 0 .. n - f
  BY <1>3, <1>7
<1>12. (a % w) + f <= w
  BY <1>2, <1>3 DEF r
<1> QED BY <1>1, <1>3, <1>4, <1>7, <1>8, <1>9, <1>10, <1>11, <1>12

\* The three parts of a write, in the order in which they are written.
LEMMA ThreePuts ==
  ASSUME NEW D, D \subseteq Int, NEW m \in [D -> Int], NEW a \in Int, NEW bytes \in Seq(Int),
         NEW f \in 0 .. Len(bytes), NEW h \in f .. Len(bytes)
  PROVE  Put(Put(Put(m, a, bytes, 0, f), a, bytes, h, Len(bytes)), a, bytes, f, h)
           = Put(m, a, bytes, 0, Len(bytes))
<1>1. PICK n \in Nat : n = Len(bytes)
  OBVIOUS
<1> DEFINE m1 == Put(m, a, bytes, 0, f)
           m2 == Put(m1, a, bytes, h, n)
<1>2. m1 = [b \in D |-> IF b \in a + 0 .. a + f - 1 THEN bytes[b - a + 1] ELSE m[b]]
  BY DEF Put
<1>3. DOMAIN m1 = D /\ \A b \in D : m1[b] = IF b \in a + 0 .. a + f - 1 THEN bytes[b - a + 1] ELSE m[b]
  BY <1>2
<1> HIDE DEF m1
<1>4. m2 = [b \in D |-> IF b \in a + h .. a + n - 1 THEN bytes[b - a + 1] ELSE m1[b]]
  BY <1>3 DEF Put
<1>5. DOMAIN m2 = D /\ \A b \in D : m2[b] = IF b \in a + h .. a + n - 1 THEN bytes[b - a + 1] ELSE m1[b]
  BY <1>4
<1> HIDE DEF m2
<1>6. Put(m2, a, bytes, f, h) = [b \in D |-> IF b \in a + f .. a + h - 1 THEN bytes[b - a + 1] ELSE m2[b]]
  BY <1>5 DEF Put
<1>7. Put(m, a, bytes, 0, n) = [b \in D |-> IF b \in a + 0 .. a + n - 1 THEN bytes[b - a + 1] ELSE m[b]]
  BY DEF Put
<1>8. \A b \in D : (IF b \in a + f .. a + h - 1 THEN bytes[b - a + 1] ELSE m2[b])
                     = (IF b \in a + 0 .. a + n - 1 THEN bytes[b - a + 1] ELSE m[b])
  <2> TAKE b \in D
  <2>1. b \in Int /\ f \in 0 .. n /\ h \in f .. n
    BY <1>1
  <2>2. m2[b] = IF b \in a + h .. a + n - 1 THEN bytes[b - a + 1]
                ELSE IF b \in a + 0 .. a + f - 1 THEN bytes[b - a + 1] ELSE m[b]
    BY <1>3, <1>5
  <2>3. b \in a + 0 .. a + n - 1
          <=> (b \in a + 0 .. a + f - 1 \/ b \in a + f .. a + h - 1 \/ b \in a + h .. a + n - 1)
    BY <2>1, <1>1
  <2> QED BY <2>2, <2>3
<1>9. Put(m2, a, bytes, f, h) = Put(m, a, bytes, 0, n)
  BY <1>6, <1>7, <1>8
<1> QED BY <1>1, <1>9 DEF m1, m2

\* The same facts with what they need behind one name.
UnitsAt(D, m, a, bytes, c) ==
  /\ m \in [D -> Int] /\ a \in Int /\ bytes \in Seq(Int) /\ Chunked(c)
  /\ Whole(c, a) \/ Len(bytes) = 0
  /\ Whole(c, Len(bytes)) /\ a .. a + Len(bytes) - 1 \subseteq D
LEMMA UnitsWritten ==
  ASSUME NEW D, NEW m, NEW a, NEW bytes, NEW c, UnitsAt(D, m, a, bytes, c)
  PROVE  WriteChunks(c, m, a, bytes) = Put(m, a, bytes, 0, Len(bytes))
BY WriteChunksIs DEF UnitsAt

MiddleAt(D, m, a, bytes, f, h, c) ==
  /\ m \in [D -> Int] /\ a \in Int /\ bytes \in Seq(Int) /\ Chunked(c)
  /\ f \in 0 .. Len(bytes) /\ h \in f .. Len(bytes) /\ (f = h \/ Whole(c, a + f))
  /\ Whole(c, h - f) /\ a + f .. a + h - 1 \subseteq D

\* The whole units of a write.
LEMMA MiddleIs ==
  ASSUME NEW D, NEW m, NEW a, NEW bytes, NEW f, NEW h, NEW c, MiddleAt(D, m, a, bytes, f, h, c)
  PROVE  WriteChunks(c, m, a + f, SubSeq(bytes, f + 1, h)) = Put(m, a, bytes, f, h)
<1> USE DEF MiddleAt
<1>1. PICK mid \in Seq(Int) : /\ mid = SubSeq(bytes, f + 1, h) /\ Len(mid) = h - f
                              /\ \A i \in 1 .. h - f : mid[i] = bytes[f + i]
  BY SubSeqIs
<1>2. PICK at \in Int : at = a + f
  OBVIOUS
<1>3. at .. at + Len(mid) - 1 \subseteq D /\ (Whole(c, at) \/ Len(mid) = 0) /\ Whole(c, Len(mid))
  <2>1. at .. at + Len(mid) - 1 = a + f .. a + h - 1
    BY <1>1, <1>2
  <2> QED BY <1>1, <1>2, <2>1
<1>4. WriteChunks(c, m, at, mid) = Put(m, at, mid, 0, Len(mid))
  <2>1. UnitsAt(D, m, at, mid, c)
    BY <1>1, <1>3 DEF UnitsAt
  <2> QED BY <2>1, UnitsWritten
<1>5. Put(m, at, mid, 0, Len(mid)) = Put(m, a, bytes, f, h)
  <2>1. at + 0 .. at + Len(mid) - 1 = a + f .. a + h - 1
    BY <1>1, <1>2
  <2>2. \A b \in a + f .. a + h - 1 : mid[b - at + 1] = bytes[b - a + 1]
    <3> TAKE b \in a + f .. a + h - 1
    <3>1. b - at + 1 \in 1 .. h - f /\ f + (b - at + 1) = b - a + 1
      BY <1>2
    <3> QED BY <3>1, <1>1
  <2> QED BY <2>1, <2>2 DEF Put
<1> QED BY <1>1, <1>2, <1>4, <1>5

\* The same if they are cleared when they are all zeros.
ClearOrWrite(c, m, a, mid) ==
  IF mid # <<>> /\ mid = Zeros(Len(mid)) THEN clear_chunk(c, m, a, Len(mid)) ELSE WriteChunks(c, m, a, mid)
LEMMA ClearOrWriteIs ==
  ASSUME NEW D, NEW m, NEW a, NEW bytes, NEW f, NEW h, NEW c, MiddleAt(D, m, a, bytes, f, h, c),
         c.clears \/ \A i \in f + 1 .. h : bytes[i] = 0 => m[a + i - 1] = 0
  PROVE  ClearOrWrite(c, m, a + f, SubSeq(bytes, f + 1, h)) = Put(m, a, bytes, f, h)
<1>1. PICK mid \in Seq(Int) : /\ mid = SubSeq(bytes, f + 1, h) /\ Len(mid) = h - f
                              /\ \A i \in 1 .. h - f : mid[i] = bytes[f + i]
  BY SubSeqIs DEF MiddleAt
<1>2. WriteChunks(c, m, a + f, mid) = Put(m, a, bytes, f, h)
  <2>1. WriteChunks(c, m, a + f, SubSeq(bytes, f + 1, h)) = Put(m, a, bytes, f, h)
    BY MiddleIs
  <2> QED BY <1>1, <2>1
<1> USE DEF MiddleAt
<1>3. CASE mid = Zeros(Len(mid)) /\ ~c.clears
  <2>1. \A i \in f + 1 .. h : bytes[i] = 0
    <3> TAKE i \in f + 1 .. h
    <3>1. i - f \in 1 .. h - f /\ f + (i - f) = i
      OBVIOUS
    <3>2. mid[i - f] = 0
      BY <1>1, <1>3, <3>1 DEF Zeros
    <3> QED BY <1>1, <3>1, <3>2
  <2>2. \A i \in f + 1 .. h : a + i - 1 \in D => m[a + i - 1] = bytes[i]
    BY <1>3, <2>1
  <2>3. Put(m, a, bytes, f, h) = m
    BY <2>2, PutZeros
  <2> QED BY <1>1, <1>2, <1>3, <2>3 DEF ClearOrWrite, clear_chunk
<1>4. CASE ~(mid = Zeros(Len(mid)) /\ ~c.clears)
  BY <1>1, <1>2, <1>4 DEF ClearOrWrite, clear_chunk
<1> QED BY <1>3, <1>4

\* One edge of a write.
LEMMA EdgeIs ==
  ASSUME NEW D, NEW m, NEW a, NEW bytes, NEW lo, NEW hi, NEW c,
         PartAt(D, m, a, bytes, lo, hi, c, a + lo, SubSeq(bytes, lo + 1, hi))
  PROVE  MergeEdge(c, m, a, [off |-> lo, bytes |-> SubSeq(bytes, lo + 1, hi)])
           = Put(m, a, bytes, lo, hi)
<1> DEFINE part == SubSeq(bytes, lo + 1, hi)
           at == a + lo
<1>1. PartAt(D, m, a, bytes, lo, hi, c, at, part)
  OBVIOUS
<1> HIDE DEF part, at
<1>2. Merge(c, m, at, part) = Put(m, a, bytes, lo, hi)
  BY <1>1, MergeIs
<1> QED BY <1>2 DEF MergeEdge, part, at

\* What is not cleared by an implementation has to be zero where zeros are written.
Clean(c, m, a, bytes) == c.clears \/ \A i \in 1 .. Len(bytes) : bytes[i] = 0 => m[a + i - 1] = 0

\* A memory of whole units, with the bytes of a transfer inside it.
Fits(c, S, D, m, a, bytes) ==
  /\ Chunked(c) /\ S \in Nat /\ Whole(c, S) /\ D = 0 .. S - 1 /\ m \in [D -> Int]
  /\ a \in Nat /\ bytes \in Seq(Int) /\ a + Len(bytes) <= S

\* A write takes the edges, then the units in between.
LEMMA WriteParts ==
  ASSUME NEW c, NEW m, NEW a, NEW bytes, NEW n, n = Len(bytes),
         NEW f, f = First(c, a, n), NEW l, l = Last_(c, a, n)
  PROVE  write(c, m, a, bytes) =
           ClearOrWrite(c, EdgesMerged(c, m, a,
                             (IF f = 0 THEN <<>> ELSE << [off |-> 0, bytes |-> SubSeq(bytes, 1, f)] >>) \o
                             (IF l = 0 THEN <<>> ELSE << [off |-> n - l, bytes |-> SubSeq(bytes, n - l + 1, n)] >>)),
                        a + f, SubSeq(bytes, f + 1, n - l))
BY DEF write, ClearOrWrite, EdgesMerged

\* A write of any length to any address writes what it should and nothing else.
LEMMA WriteIs ==
  ASSUME NEW c, NEW S, NEW D, NEW m, NEW a, NEW bytes, Fits(c, S, D, m, a, bytes),
         Clean(c, m, a, bytes)
  PROVE  write(c, m, a, bytes) = Put(m, a, bytes, 0, Len(bytes))
<1>1. PICK n \in Nat : n = Len(bytes)
  BY DEF Fits
<1> DEFINE f == First(c, a, n)
           l == Last_(c, a, n)
           h == n - l
           e1 == [off |-> 0, bytes |-> SubSeq(bytes, 0 + 1, f)]
           e2 == [off |-> h, bytes |-> SubSeq(bytes, h + 1, n)]
           m1 == Put(m, a, bytes, 0, f)
           m2 == Put(m1, a, bytes, h, n)
<1>2. /\ f \in 0 .. n /\ l \in 0 .. n - f /\ Whole(c, h - f)
      /\ f = n \/ Whole(c, a + f)
      /\ InUnit(c, a, f)
      /\ l # 0 => InUnit(c, a + h, l)
  BY EdgeFacts DEF Fits
<1>3. write(c, m, a, bytes) =
           ClearOrWrite(c, EdgesMerged(c, m, a, (IF f = 0 THEN <<>> ELSE << e1 >>) \o
                                                (IF l = 0 THEN <<>> ELSE << e2 >>)),
                        a + f, SubSeq(bytes, f + 1, h))
  BY <1>1, WriteParts
<1> HIDE DEF f, l
<1>4. h \in f .. n /\ n - h = l
  BY <1>2
<1> HIDE DEF h
<1>5. m1 \in [D -> Int] /\ m2 \in [D -> Int]
  <2>0. m \in [D -> Int] /\ a \in Int /\ bytes \in Seq(Int)
    BY DEF Fits
  <2>1. m1 \in [D -> Int]
    BY <1>1, <1>2, <2>0, PutType
  <2> HIDE DEF m1
  <2>2. h \in 0 .. Len(bytes) /\ n \in h .. Len(bytes)
    BY <1>1, <1>4, <1>2
  <2>3. m2 \in [D -> Int]
    BY <2>0, <2>1, <2>2, PutType
  <2> QED BY <2>1, <2>3
<1>6. f = 0 => m1 = m
  BY PutNothing DEF Fits
<1>7. l = 0 => m2 = m1
  <2> HIDE DEF m1
  <2>1. l = 0 => h = n
    BY <1>2, <1>4
  <2>0. a \in Int /\ m1 \in [D -> Int] /\ bytes \in Seq(Int)
    BY <1>5 DEF Fits
  <2>2. Put(m1, a, bytes, n, n) = m1
    BY <2>0, PutNothing
  <2> QED BY <2>1, <2>2
<1>8. f # 0 => MergeEdge(c, m, a, e1) = m1
  <2> SUFFICES ASSUME f # 0 PROVE MergeEdge(c, m, a, e1) = m1
    OBVIOUS
  <2>1. Down(c, a) .. Down(c, a) + c.align - 1 \subseteq D
    <3>1. a < S
      BY <1>1, <1>2 DEF Fits
    <3> QED BY <3>1, UnitIn DEF Fits, Addresses
  <2>2. a + 0 = a /\ f - 0 = f
    BY <1>2 DEF Fits
  <2>3. PartAt(D, m, a, bytes, 0, f, c, a + 0, SubSeq(bytes, 0 + 1, f))
    BY <1>1, <1>2, <2>1, <2>2 DEF PartAt, Fits
  <2> QED BY <2>3, EdgeIs
<1>9. l # 0 => MergeEdge(c, m1, a, e2) = m2
  <2> HIDE DEF m1
  <2> SUFFICES ASSUME l # 0 PROVE MergeEdge(c, m1, a, e2) = m2
    OBVIOUS
  <2>1. Down(c, a + h) .. Down(c, a + h) + c.align - 1 \subseteq D
    <3>1. a + h \in Nat /\ a + h < S
      BY <1>1, <1>2, <1>4 DEF Fits
    <3> QED BY <3>1, UnitIn DEF Fits, Addresses
  <2>3. PartAt(D, m1, a, bytes, h, n, c, a + h, SubSeq(bytes, h + 1, n))
    <3>1. h \in 0 .. Len(bytes) /\ n \in h .. Len(bytes) /\ a + h \in Int
      BY <1>1, <1>2, <1>4 DEF Fits
    <3>2. InUnit(c, a + h, n - h)
      BY <1>2, <1>4
    <3>3. m1 \in [D -> Int] /\ a \in Int /\ bytes \in Seq(Int) /\ Chunked(c)
      BY <1>5 DEF Fits
    <3> QED BY <2>1, <3>1, <3>2, <3>3 DEF PartAt
  <2> QED BY <2>3, EdgeIs
<1>10. EdgesMerged(c, m, a, (IF f = 0 THEN <<>> ELSE << e1 >>) \o (IF l = 0 THEN <<>> ELSE << e2 >>)) = m2
  <2> HIDE DEF m1, m2, e1, e2
  <2>1. Edges(c, m, a, e1, e2, f, l, m1, m2)
    BY <1>6, <1>7, <1>8, <1>9 DEF Edges
  <2> QED BY <2>1, EdgeList
<1>11. ClearOrWrite(c, m2, a + f, SubSeq(bytes, f + 1, h)) = Put(m2, a, bytes, f, h)
  <2>1. MiddleAt(D, m2, a, bytes, f, h, c)
    <3> HIDE DEF m2
    <3>1. /\ m2 \in [D -> Int] /\ a \in Int /\ bytes \in Seq(Int) /\ Chunked(c)
          /\ f \in 0 .. Len(bytes) /\ h \in f .. Len(bytes) /\ Whole(c, h - f)
      BY <1>1, <1>2, <1>4, <1>5 DEF Fits
    <3>2. f = h \/ Whole(c, a + f)
      BY <1>2, <1>4
    <3>3. a + f .. a + h - 1 \subseteq D
      <4>1. a .. a + n - 1 \subseteq D /\ a \in Int
        BY <1>1 DEF Fits
      <4>2. \A b \in a + f .. a + h - 1 : b \in a .. a + n - 1
        BY <1>2, <1>4, <4>1
      <4> QED BY <4>1, <4>2
    <3> QED BY <3>1, <3>2, <3>3 DEF MiddleAt
  <2>2. c.clears \/ \A i \in f + 1 .. h : bytes[i] = 0 => m2[a + i - 1] = 0
    <3> SUFFICES ASSUME ~c.clears, NEW i \in f + 1 .. h, bytes[i] = 0 PROVE m2[a + i - 1] = 0
      OBVIOUS
    <3>1. i \in Int /\ i \in 1 .. n /\ f \in 0 .. n /\ h \in f .. n /\ a \in Nat
      BY <1>2, <1>4 DEF Fits
    <3>2. m[a + i - 1] = 0
      BY <1>1, <3>1 DEF Clean
    <3>3. DOMAIN m = D /\ DOMAIN m1 = D /\ a + i - 1 \in D
      BY <1>1, <1>5, <3>1 DEF Fits
    <3>4. ~(a + i - 1 \in a + h .. a + n - 1) /\ ~(a + i - 1 \in a + 0 .. a + f - 1)
      BY <3>1
    <3>5. m1[a + i - 1] = m[a + i - 1]
      BY <3>3, <3>4 DEF Put
    <3> HIDE DEF m1
    <3>6. m2[a + i - 1] = m1[a + i - 1]
      BY <3>3, <3>4 DEF Put
    <3> QED BY <3>2, <3>5, <3>6
  <2> HIDE DEF m2
  <2> QED BY <2>1, <2>2, ClearOrWriteIs
<1>12. Put(m2, a, bytes, f, h) = Put(m, a, bytes, 0, n)
  <2>1. D \subseteq Int /\ m \in [D -> Int] /\ a \in Int /\ bytes \in Seq(Int)
    BY DEF Fits
  <2> QED BY <1>1, <1>2, <1>4, <2>1, ThreePuts
<1> QED BY <1>1, <1>3, <1>10, <1>11, <1>12

----------------------------------------------------------------------------
\* Loading an image through the interface, segment by segment.

\* Memory after a segment is loaded.
Content(s, a) == IF a < s.paddr + Len(s.file) THEN s.file[a - s.paddr + 1] ELSE 0
WithSegment(m, s) == [a \in DOMAIN m |-> IF Covers(s, a) THEN Content(s, a) ELSE m[a]]

\* Where nothing is cleared, a segment is loaded over zeros.
Ready(c, m, s) == c.clears \/ \A a \in DOMAIN m : Covers(s, a) => m[a] = 0

PartWritten(c, m, part) == write(c, m, part.at, part.bytes)
PartsWritten(c, m, parts) ==
  Sequentially(LAMBDA memory, part : write(c, memory, part.at, part.bytes), m, parts)
OneOrTwoParts(c, m, parts) ==
  IF Len(parts) = 1 THEN PartWritten(c, m, parts[1])
  ELSE PartWritten(c, PartWritten(c, m, parts[1]), parts[2])
LEMMA PartsAre ==
  ASSUME NEW c, NEW m, NEW parts, Len(parts) \in 1 .. 2
  PROVE  PartsWritten(c, m, parts) = OneOrTwoParts(c, m, parts)
<1> DEFINE n == Len(parts)
           x1 == PartWritten(c, m, parts[1])
           x2 == PartWritten(c, x1, parts[2])
           trace == [i \in 0 .. n |-> IF i = 0 THEN m ELSE IF i = 1 THEN x1 ELSE x2]
           loop == CHOOSE loop : loop = [i \in 0 .. n |->
                     IF i = 0 THEN m ELSE PartWritten(c, loop[i - 1], parts[i])]
<1>1. trace = [i \in 0 .. n |-> IF i = 0 THEN m ELSE PartWritten(c, trace[i - 1], parts[i])]
  <2>1. \A i \in 0 .. n : i = 0 \/ (i = 1 /\ trace[i - 1] = m) \/ (i = 2 /\ trace[i - 1] = x1)
    OBVIOUS
  <2> DEFINE t == trace
  <2>2. t = [i \in 0 .. n |-> IF i = 0 THEN m ELSE IF i = 1 THEN x1 ELSE x2]
    OBVIOUS
  <2>3. \A i \in 0 .. n : i = 0 \/ (i = 1 /\ t[i - 1] = m) \/ (i = 2 /\ t[i - 1] = x1)
    BY <2>1
  <2> HIDE DEF t
  <2>4. \A i \in 0 .. n : (IF i = 0 THEN m ELSE IF i = 1 THEN x1 ELSE x2)
                            = IF i = 0 THEN m ELSE PartWritten(c, t[i - 1], parts[i])
    BY <2>3
  <2>5. t = [i \in 0 .. n |-> IF i = 0 THEN m ELSE PartWritten(c, t[i - 1], parts[i])]
    BY <2>2, <2>4
  <2> QED BY <2>5 DEF t
<1>2. loop = [i \in 0 .. n |-> IF i = 0 THEN m ELSE PartWritten(c, loop[i - 1], parts[i])]
  <2> HIDE DEF trace
  <2> QED BY <1>1
<1>3. loop[n] = IF n = 1 THEN x1 ELSE x2
  <2> HIDE DEF loop, x1, x2
  <2> QED BY <1>2 DEF x1, x2
<1> QED BY <1>3 DEF Sequentially, PartWritten, PartsWritten, OneOrTwoParts

LEMMA ZerosAre ==
  ASSUME NEW k \in Nat
  PROVE  Zeros(k) \in Seq(Int) /\ Len(Zeros(k)) = k /\ \A i \in 1 .. k : Zeros(k)[i] = 0
<1>1. Zeros(k) = [i \in 1 .. k |-> 0]
  BY DEF Zeros
<1>2. Zeros(k) \in Seq(Int)
  BY <1>1
<1>3. Len(Zeros(k)) = k
  BY <1>1
<1> QED BY <1>1, <1>2, <1>3

Tailed(p, n, q, k, S) == {p, n, q, k, S} \subseteq Nat /\ p + q <= S /\ n <= q /\ k = q - n
InTail(p, n, q, k, S) ==
  /\ (p + n) + k - 1 = p + q - 1
  /\ \A i \in 1 .. k : /\ p + n + i - 1 \in p .. p + q - 1 /\ p + n + i - 1 \in 0 .. S - 1
                       /\ ~(p + n + i - 1 \in p .. p + n - 1)
LEMMA TailIn == ASSUME NEW p, NEW n, NEW q, NEW k, NEW S, Tailed(p, n, q, k, S) PROVE InTail(p, n, q, k, S)
BY DEF Tailed, InTail

\* One segment: the bytes of the file, if there are any, then zeros.
LEMMA SegmentLoaded ==
  ASSUME NEW c, NEW S, NEW D, NEW m, NEW s, Chunked(c), S \in Nat, Whole(c, S),
         D = 0 .. S - 1, m \in [D -> Int], SegmentFits(S, s), Ready(c, m, s)
  PROVE  LoadSegment(c, m, s) = WithSegment(m, s)
<1>0. DOMAIN m = D /\ m = [a \in D |-> m[a]] /\ D \subseteq Int
  OBVIOUS
<1>1. CASE ~s.load \/ s.memsz = 0
  <2>1. \A a \in D : ~Covers(s, a)
    BY <1>0, <1>1 DEF Covers, SegmentFits
  <2>2. WithSegment(m, s) = m
    BY <1>0, <2>1 DEF WithSegment
  <2> QED BY <1>1, <2>2 DEF LoadSegment
<1>2. CASE s.load /\ s.memsz # 0
  <2>1. PICK n \in Nat : n = Len(s.file) /\ n <= s.memsz
    BY DEF SegmentFits
  <2>2. PICK p \in Nat : p = s.paddr /\ p + s.memsz <= S
    BY <1>2 DEF SegmentFits
  <2>0. PICK q \in Nat : q = s.memsz /\ p + q <= S /\ n <= q
    BY <2>1, <2>2 DEF SegmentFits
  <2>16. PICK k \in Nat : k = q - n
    BY <2>0
  <2>17. InTail(p, n, q, k, S)
    <3>1. Tailed(p, n, q, k, S)
      BY <2>0, <2>16 DEF Tailed
    <3> QED BY <3>1, TailIn
  <2>3. PICK z \in Seq(Int) : z = Zeros(q - n) /\ Len(z) = k /\ \A i \in 1 .. k : z[i] = 0
    BY <2>16, ZerosAre
  <2>14. \A a \in Int : Covers(s, a) <=> a \in p .. p + q - 1
    BY <1>2, <2>0, <2>2 DEF Covers
  <2>15. \A a \in Int : Content(s, a) = IF a < p + n THEN s.file[a - p + 1] ELSE 0
    BY <2>1, <2>2 DEF Content
  <2> DEFINE mf == Put(m, p, s.file, 0, n)
             mz == Put(mf, p + n, z, 0, Len(z))
  <2>4. mf = [a \in D |-> IF a \in p .. p + n - 1 THEN s.file[a - p + 1] ELSE m[a]]
    BY <1>0, <2>2 DEF Put
  <2>5. mf \in [D -> Int]
    <3>1. m \in [D -> Int] /\ p \in Int /\ s.file \in Seq(Int) /\ 0 \in 0 .. Len(s.file)
          /\ n \in 0 .. Len(s.file)
      BY <2>1, <2>2 DEF SegmentFits
    <3> QED BY <3>1, PutType
  <2>6. \A a \in D : mf[a] = IF a \in p .. p + n - 1 THEN s.file[a - p + 1] ELSE m[a]
    BY <2>4
  <2>7. PartWritten(c, m, [at |-> p, bytes |-> s.file]) = mf
    <3>1. Fits(c, S, D, m, p, s.file)
      BY <2>1, <2>2 DEF Fits, SegmentFits
    <3>2. Clean(c, m, p, s.file)
      <4> SUFFICES ASSUME ~c.clears, NEW i \in 1 .. Len(s.file) PROVE m[p + i - 1] = 0
        BY DEF Clean
      <4>1. p + i - 1 \in DOMAIN m /\ Covers(s, p + i - 1)
        <5>1. p + i - 1 \in p .. p + q - 1 /\ p + i - 1 \in 0 .. S - 1
          BY <2>0, <2>1
        <5> QED BY <1>0, <2>14, <5>1
      <4> QED BY <4>1 DEF Ready
    <3> QED BY <2>1, <3>1, <3>2, WriteIs DEF PartWritten
  <2>8. s.file = <<>> => mf = m
    <3>1. s.file = <<>> => n = 0
      BY <2>1
    <3>2. Put(m, p, s.file, 0, 0) = m
      <4>1. p \in Int /\ 0 \in Int
        BY <2>2
      <4> QED BY <4>1, PutNothing
    <3> QED BY <3>1, <3>2
  <2> HIDE DEF mf
  <2>9. PartWritten(c, mf, [at |-> p + n, bytes |-> z]) = mz
    <3>1. Fits(c, S, D, mf, p + n, z)
      BY <2>0, <2>16, <2>3, <2>5 DEF Fits
    <3>2. Clean(c, mf, p + n, z)
      <4> SUFFICES ASSUME ~c.clears, NEW i \in 1 .. Len(z) PROVE mf[p + n + i - 1] = 0
        BY DEF Clean
      <4>1. /\ p + n + i - 1 \in DOMAIN m /\ Covers(s, p + n + i - 1)
            /\ p + n + i - 1 \in D /\ ~(p + n + i - 1 \in p .. p + n - 1)
        <5>1. /\ p + n + i - 1 \in p .. p + q - 1 /\ p + n + i - 1 \in 0 .. S - 1
              /\ ~(p + n + i - 1 \in p .. p + n - 1)
          <6>1. i \in 1 .. k
            BY <2>3
          <6> QED BY <2>17, <6>1 DEF InTail
        <5> QED BY <1>0, <2>14, <5>1
      <4>2. m[p + n + i - 1] = 0
        BY <4>1 DEF Ready
      <4> QED BY <2>6, <4>1, <4>2
    <3> QED BY <3>1, <3>2, WriteIs DEF PartWritten
  <2>10. mz = WithSegment(m, s)
    <3>1. mz = [a \in D |-> IF a \in (p + n) + 0 .. (p + n) + Len(z) - 1 THEN z[a - (p + n) + 1] ELSE mf[a]]
      BY <2>5 DEF Put
    <3>2. WithSegment(m, s) = [a \in D |-> IF Covers(s, a) THEN Content(s, a) ELSE m[a]]
      BY <1>0 DEF WithSegment
    <3>3. ASSUME NEW a \in D
          PROVE  (IF a \in (p + n) + 0 .. (p + n) + Len(z) - 1 THEN z[a - (p + n) + 1] ELSE mf[a])
                   = IF Covers(s, a) THEN Content(s, a) ELSE m[a]
      <4>0. a \in Int
        BY <1>0
      <4>1. (Covers(s, a) <=> a \in p .. p + q - 1)
            /\ Content(s, a) = IF a < p + n THEN s.file[a - p + 1] ELSE 0
        BY <4>0, <2>14, <2>15
      <4>2. mf[a] = IF a \in p .. p + n - 1 THEN s.file[a - p + 1] ELSE m[a]
        BY <2>6
      <4>3. a \in p + n .. p + q - 1 => z[a - (p + n) + 1] = 0
        <5>1. a \in p + n .. p + q - 1 => a - (p + n) + 1 \in 1 .. k
          BY ONLY <4>0, <2>0, <2>16
        <5> QED BY <5>1, <2>3
      <4>4. a \in (p + n) + 0 .. (p + n) + Len(z) - 1 <=> a \in p + n .. p + q - 1
        <5>1. (p + n) + Len(z) - 1 = p + q - 1
          BY <2>17, <2>3 DEF InTail
        <5>2. (p + n) + 0 = p + n
          OBVIOUS
        <5> QED BY <5>1, <5>2
      <4>5. CASE a \in p .. p + n - 1
        <5>1. a \in p .. p + q - 1 /\ a < p + n /\ ~(a \in p + n .. p + q - 1)
          BY <4>0, <4>5, <2>0
        <5> QED BY <4>1, <4>2, <4>4, <4>5, <5>1
      <4>6. CASE a \in p + n .. p + q - 1
        <5>1. a \in p .. p + q - 1 /\ ~(a < p + n)
          BY <4>0, <4>6, <2>0
        <5> QED BY <4>1, <4>3, <4>4, <4>6, <5>1
      <4>7. CASE ~(a \in p .. p + q - 1)
        <5>1. ~(a \in p .. p + n - 1) /\ ~(a \in p + n .. p + q - 1)
          BY <4>0, <4>7, <2>0
        <5> QED BY <4>1, <4>2, <4>4, <4>7, <5>1
      <4> QED BY <4>0, <4>5, <4>6, <4>7, <2>0
    <3> HIDE DEF mz
    <3> QED BY <3>1, <3>2, <3>3
  <2> HIDE DEF mz
  <2> DEFINE parts == IF s.file = <<>> THEN << [at |-> p + n, bytes |-> z] >>
                      ELSE << [at |-> p, bytes |-> s.file], [at |-> p + n, bytes |-> z] >>
  <2>11. LoadSegment(c, m, s) = PartsWritten(c, m, parts)
    BY <1>2, <2>0, <2>1, <2>2, <2>3 DEF LoadSegment, PartsWritten
  <2>12. CASE s.file = <<>>
    <3>1. Len(parts) = 1 /\ parts[1] = [at |-> p + n, bytes |-> z] /\ Len(parts) \in 1 .. 2
      BY <2>12
    <3> HIDE DEF parts
    <3>2. LoadSegment(c, m, s) = PartWritten(c, m, [at |-> p + n, bytes |-> z])
      BY <2>11, <3>1, PartsAre DEF OneOrTwoParts
    <3> QED BY <2>8, <2>9, <2>10, <2>12, <3>2
  <2>13. CASE s.file # <<>>
    <3>1. /\ Len(parts) = 2 /\ Len(parts) \in 1 .. 2
          /\ parts[1] = [at |-> p, bytes |-> s.file] /\ parts[2] = [at |-> p + n, bytes |-> z]
      BY <2>13
    <3> HIDE DEF parts
    <3>3. PartsWritten(c, m, parts) = OneOrTwoParts(c, m, parts)
      BY <3>1, PartsAre
    <3>2. LoadSegment(c, m, s)
            = PartWritten(c, PartWritten(c, m, [at |-> p, bytes |-> s.file]), [at |-> p + n, bytes |-> z])
      BY <2>11, <3>1, <3>3 DEF OneOrTwoParts
    <3> QED BY <2>7, <2>9, <2>10, <3>2
  <2> QED BY <2>12, <2>13
<1> QED BY <1>1, <1>2 DEF SegmentFits

\* Memory once the first k segments are loaded.
Covering(segs, k, a) == {i \in 1 .. k : Covers(segs[i], a)}
LoadedUpTo(m, segs, k) ==
  [a \in DOMAIN m |-> IF Covering(segs, k, a) = {} THEN m[a] ELSE Content(segs[Max(Covering(segs, k, a))], a)]

LEMMA LoadedNone == ASSUME NEW m, NEW D, m \in [D -> Int], NEW segs PROVE LoadedUpTo(m, segs, 0) = m
<1>1. \A a : Covering(segs, 0, a) = {}
  BY DEF Covering
<1>2. m = [a \in DOMAIN m |-> m[a]]
  OBVIOUS
<1> QED BY <1>1, <1>2 DEF LoadedUpTo

LEMMA LoadedAll == ASSUME NEW m, NEW segs PROVE LoadedUpTo(m, segs, Len(segs)) = Loaded(m, segs)
BY DEF LoadedUpTo, Loaded, Covering, Content

LEMMA LastIsMax ==
  ASSUME NEW T, NEW k \in Nat, T \subseteq 1 .. k, k \in T
  PROVE  Max(T) = k
<1>1. \A y \in T : k >= y
  OBVIOUS
<1>2. \A x \in T : (\A y \in T : x >= y) => x = k
  OBVIOUS
<1> QED BY <1>1, <1>2 DEF Max

LEMMA LoadedNext ==
  ASSUME NEW m, NEW segs, NEW k \in Nat \ {0}
  PROVE  LoadedUpTo(m, segs, k) = WithSegment(LoadedUpTo(m, segs, k - 1), segs[k])
<1> DEFINE before == LoadedUpTo(m, segs, k - 1)
<1>1. /\ DOMAIN before = DOMAIN m
      /\ \A a \in DOMAIN m : before[a] = IF Covering(segs, k - 1, a) = {} THEN m[a]
                                         ELSE Content(segs[Max(Covering(segs, k - 1, a))], a)
  BY DEF LoadedUpTo
<1>2. ASSUME NEW a \in DOMAIN m
      PROVE  (IF Covering(segs, k, a) = {} THEN m[a] ELSE Content(segs[Max(Covering(segs, k, a))], a))
               = IF Covers(segs[k], a) THEN Content(segs[k], a) ELSE before[a]
  <2>1. CASE Covers(segs[k], a)
    <3>1. Covering(segs, k, a) \subseteq 1 .. k /\ k \in Covering(segs, k, a)
      BY <2>1 DEF Covering
    <3>2. Max(Covering(segs, k, a)) = k
      BY <3>1, LastIsMax
    <3> QED BY <2>1, <3>1, <3>2
  <2>2. CASE ~Covers(segs[k], a)
    <3>1. Covering(segs, k, a) = Covering(segs, k - 1, a)
      BY <2>2 DEF Covering
    <3> QED BY <1>1, <2>2, <3>1
  <2> QED BY <2>1, <2>2
<1>3. LoadedUpTo(m, segs, k) =
        [a \in DOMAIN m |-> IF Covering(segs, k, a) = {} THEN m[a] ELSE Content(segs[Max(Covering(segs, k, a))], a)]
  BY DEF LoadedUpTo
<1>4. WithSegment(before, segs[k]) =
        [a \in DOMAIN m |-> IF Covers(segs[k], a) THEN Content(segs[k], a) ELSE before[a]]
  BY <1>1 DEF WithSegment
<1> HIDE DEF before
<1>5. LoadedUpTo(m, segs, k) = WithSegment(before, segs[k])
  BY <1>2, <1>3, <1>4
<1> QED BY <1>5 DEF before

LEMMA WithSegmentType ==
  ASSUME NEW S, NEW D, NEW m, NEW s, m \in [D -> Int], D \subseteq Int, SegmentFits(S, s)
  PROVE  WithSegment(m, s) \in [D -> Int]
<1>1. DOMAIN m = D
  OBVIOUS
<1>2. ASSUME NEW a \in D, Covers(s, a) PROVE Content(s, a) \in Int
  <2>1. CASE a < s.paddr + Len(s.file)
    <3>1. a - s.paddr + 1 \in 1 .. Len(s.file)
      BY <1>2, <2>1 DEF Covers, SegmentFits
    <3> QED BY <2>1, <3>1 DEF Content, SegmentFits
  <2> QED BY <2>1 DEF Content
<1> QED BY <1>1, <1>2 DEF WithSegment

LEMMA LoadedType ==
  ASSUME NEW S, NEW D, NEW m, NEW segs, ImageFits(S, D, m, segs), NEW k \in 0 .. Len(segs)
  PROVE  LoadedUpTo(m, segs, k) \in [D -> Int]
<1> DEFINE T == {i \in Nat : i <= k => LoadedUpTo(m, segs, i) \in [D -> Int]}
<1>0. k \in Nat /\ m \in [D -> Int] /\ D \subseteq Int
  BY DEF ImageFits
<1>1. 0 \in T
  BY <1>0, LoadedNone
<1>2. ASSUME NEW i \in 1 .. k, i - 1 \in T PROVE i \in T
  <2>1. i \in Nat \ {0} /\ i - 1 \in Nat /\ i <= k
    BY <1>0
  <2>2. LoadedUpTo(m, segs, i - 1) \in [D -> Int]
    BY <1>2, <2>1
  <2>3. SegmentFits(S, segs[i])
    BY <1>0, <2>1 DEF ImageFits
  <2>4. WithSegment(LoadedUpTo(m, segs, i - 1), segs[i]) \in [D -> Int]
    BY <1>0, <2>2, <2>3, WithSegmentType
  <2> QED BY <2>1, <2>4, LoadedNext
<1>3. k \in T
  <2> HIDE DEF T
  <2>1. T \in SUBSET Nat
    BY DEF T
  <2> QED BY <1>0, <1>1, <1>2, <2>1, UpTo
<1> QED BY <1>0, <1>3

\* Where nothing is cleared, the segments lie apart in a memory of zeros.
Loadable(c, m, segs) == c.clears \/ (Apart(segs) /\ \A a \in DOMAIN m : m[a] = 0)

LEMMA NextReady ==
  ASSUME NEW S, NEW D, NEW c, NEW m, NEW segs, ImageFits(S, D, m, segs), Loadable(c, m, segs),
         NEW i \in 1 .. Len(segs)
  PROVE  Ready(c, LoadedUpTo(m, segs, i - 1), segs[i])
<1> SUFFICES ASSUME ~c.clears, NEW a \in DOMAIN m, Covers(segs[i], a)
             PROVE  LoadedUpTo(m, segs, i - 1)[a] = 0
  BY DEF Ready, LoadedUpTo
<1>1. Apart(segs) /\ m[a] = 0 /\ Len(segs) \in Nat
  BY DEF Loadable, ImageFits
<1>2. Covering(segs, i - 1, a) = {}
  <2> SUFFICES ASSUME NEW j \in 1 .. i - 1, Covers(segs[j], a) PROVE FALSE
    BY DEF Covering
  <2>1. j \in 1 .. Len(segs) /\ j < i
    BY <1>1
  <2>2. a \in segs[j].paddr .. segs[j].paddr + segs[j].memsz - 1
    BY DEF Covers
  <2> QED BY <1>1, <2>1, <2>2 DEF Apart
<1> QED BY <1>1, <1>2 DEF LoadedUpTo

\* load_elf loads an image wherever its segments lie: the last of them that
\* covers an address decides.
LEMMA ElfLoaded ==
  ASSUME NEW c, NEW S, NEW D, NEW m, NEW segs, Chunked(c), Whole(c, S), ImageFits(S, D, m, segs),
         Loadable(c, m, segs)
  PROVE  load_elf(c, m, segs) = Loaded(m, segs)
<1> DEFINE n == Len(segs)
           trace == [i \in 0 .. n |-> LoadedUpTo(m, segs, i)]
           loop  == CHOOSE loop : loop = [i \in 0 .. n |->
                      IF i = 0 THEN m ELSE LoadSegment(c, loop[i - 1], segs[i])]
<1>0. n \in Nat /\ m \in [D -> Int]
  BY DEF ImageFits
<1>1. trace[0] = m
  BY <1>0, LoadedNone
<1>2. ASSUME NEW i \in 1 .. n PROVE LoadSegment(c, trace[i - 1], segs[i]) = trace[i]
  <2>1. i \in 0 .. n /\ i - 1 \in 0 .. n /\ i \in Nat \ {0}
    BY <1>0
  <2>2. PICK before : before = LoadedUpTo(m, segs, i - 1)
    OBVIOUS
  <2>3. before \in [D -> Int]
    BY <2>1, <2>2, LoadedType
  <2>4. Ready(c, before, segs[i])
    BY <2>2, NextReady
  <2>5. LoadSegment(c, before, segs[i]) = WithSegment(before, segs[i])
    <3>1. S \in Nat /\ D = 0 .. S - 1 /\ SegmentFits(S, segs[i])
      BY DEF ImageFits
    <3> QED BY <2>3, <2>4, <3>1, SegmentLoaded
  <2>6. LoadedUpTo(m, segs, i) = WithSegment(before, segs[i])
    BY <2>1, <2>2, LoadedNext
  <2> QED BY <2>1, <2>2, <2>5, <2>6
<1>3. loop = [i \in 0 .. n |-> IF i = 0 THEN m ELSE LoadSegment(c, loop[i - 1], segs[i])]
  <2>1. trace = [i \in 0 .. n |-> trace[i]]
    OBVIOUS
  <2> HIDE DEF trace
  <2>2. \A i \in 0 .. n : trace[i] = IF i = 0 THEN m ELSE LoadSegment(c, trace[i - 1], segs[i])
    BY <1>0, <1>1, <1>2
  <2>3. trace = [i \in 0 .. n |-> IF i = 0 THEN m ELSE LoadSegment(c, trace[i - 1], segs[i])]
    BY <2>1, <2>2
  <2> QED BY <2>3
<1>4. trace[n] = Loaded(m, segs)
  BY <1>0, LoadedAll
<1>5. load_elf(c, m, segs) = loop[n]
  BY DEF load_elf, Sequentially
<1> HIDE DEF trace, loop
<1>6. loop[n] = trace[n]
  <2>1. loop[0] = trace[0]
    BY <1>0, <1>1, <1>3
  <2>2. ASSUME NEW i \in 1 .. n, loop[i - 1] = trace[i - 1] PROVE loop[i] = trace[i]
    BY <2>2, <1>0, <1>2, <1>3
  <2> QED BY <1>0, <2>1, <2>2, SameLoop
<1> QED BY <1>4, <1>5, <1>6

\* The sideband: a section's buffer, which is written row by row.
LEMMA BufferIs ==
  ASSUME NEW q \in Nat, NEW file \in Seq(Int), Len(file) <= q
  PROVE  \E buffer \in Seq(Int) :
           /\ buffer = Overlay(Zeros(q), 1, file) /\ Len(buffer) = q
           /\ \A i \in 1 .. q : buffer[i] = IF i <= Len(file) THEN file[i] ELSE 0
<1>1. PICK n \in Nat : n = Len(file)
  OBVIOUS
<1>2. PICK z \in Seq(Int) : z = Zeros(q) /\ Len(z) = q /\ \A i \in 1 .. q : z[i] = 0
  BY ZerosAre
<1>3. DOMAIN z = 1 .. q /\ 1 .. 1 + n - 1 = 1 .. n /\ (1 .. n) \cup (1 .. q) = 1 .. q
  BY <1>1, <1>2
<1>4. Overlay(z, 1, file) = [b \in 1 .. q |-> IF b \in 1 .. n THEN file[b - 1 + 1] ELSE z[b]]
  BY <1>1, <1>3 DEF Overlay
<1>5. \A b \in 1 .. q : (IF b \in 1 .. n THEN file[b - 1 + 1] ELSE z[b])
                          = IF b <= n THEN file[b] ELSE 0
  BY <1>2
<1>6. Overlay(z, 1, file) = [b \in 1 .. q |-> IF b <= n THEN file[b] ELSE 0]
  BY <1>4, <1>5
<1> DEFINE buffer == [b \in 1 .. q |-> IF b <= n THEN file[b] ELSE 0]
<1>7. \A b \in 1 .. q : (IF b <= n THEN file[b] ELSE 0) \in Int
  <2> TAKE b \in 1 .. q
  <2>1. b <= n => b \in 1 .. Len(file)
    BY <1>1
  <2> QED BY <2>1
<1>8. buffer \in Seq(Int) /\ Len(buffer) = q
  BY <1>7
<1> QED BY <1>1, <1>2, <1>6, <1>8

PlaceIn(x, p, q, n) == x - p + 1 \in 1 .. q /\ (x - p + 1 <= n <=> x < p + n)
LEMMA Places == ASSUME NEW p \in Nat, NEW q \in Nat, NEW n \in Nat, NEW x \in p .. p + q - 1 PROVE PlaceIn(x, p, q, n)
BY DEF PlaceIn

LEMMA RowIs ==
  ASSUME NEW S, NEW D, NEW m, NEW s, S \in Nat, D = 0 .. S - 1, m \in [D -> Int],
         SegmentFits(S, s), s.load, s.paddr % RowBytes = 0, s.memsz % RowBytes = 0
  PROVE  Row(m, s, s.file) = WithSegment(m, s)
<1>1. PICK p \in Nat, q \in Nat, n \in Nat :
         p = s.paddr /\ q = s.memsz /\ n = Len(s.file) /\ n <= q /\ p + q <= S
  BY DEF SegmentFits
<1>2. PICK buffer \in Seq(Int) :
           /\ buffer = Overlay(Zeros(q), 1, s.file) /\ Len(buffer) = q
           /\ \A i \in 1 .. q : buffer[i] = IF i <= n THEN s.file[i] ELSE 0
  <2>1. PICK file \in Seq(Int) : file = s.file
    BY DEF SegmentFits
  <2>2. Len(file) <= q /\ Len(file) = n
    BY <1>1, <2>1
  <2>3. \E buffer \in Seq(Int) :
           /\ buffer = Overlay(Zeros(q), 1, file) /\ Len(buffer) = q
           /\ \A i \in 1 .. q : buffer[i] = IF i <= Len(file) THEN file[i] ELSE 0
    BY <1>1, <2>2, BufferIs
  <2> QED BY <2>1, <2>2, <2>3
<1>3. (q \div RowBytes) * RowBytes = q /\ (p \div RowBytes) * RowBytes = p
  <2>1. RowBytes \in Nat \ {0} /\ p \in Int /\ q \in Int /\ p % RowBytes = 0 /\ q % RowBytes = 0
    BY <1>1, LoaderAssumption
  <2>2. \A x \in Int : x % RowBytes = 0 => (x \div RowBytes) * RowBytes = x
    <3> TAKE x \in Int
    <3>1. x = RowBytes * (x \div RowBytes) + (x % RowBytes) /\ x \div RowBytes \in Int
      BY <2>1, Remainder
    <3>2. \A y \in Int : RowBytes * y = y * RowBytes
      BY <2>1
    <3> QED BY <2>1, <3>1, <3>2
  <2> QED BY <2>1, <2>2
<1>4. SubSeq(buffer, 1, q) = buffer
  BY <1>2
<1>5. Row(m, s, s.file) = Overlay(m, p, buffer)
  BY <1>1, <1>2, <1>3, <1>4 DEF Row
<1>6. (p .. p + Len(buffer) - 1) \cup DOMAIN m = D /\ p + Len(buffer) - 1 = p + q - 1 /\ DOMAIN m = D
  <2>1. p .. p + q - 1 \subseteq D
    <3> SUFFICES ASSUME NEW b \in p .. p + q - 1 PROVE b \in 0 .. S - 1
      OBVIOUS
    <3> QED BY ONLY <1>1, S \in Nat, b \in p .. p + q - 1
  <2> QED BY <2>1, <1>2
<1>7. Overlay(m, p, buffer) = [b \in D |-> IF b \in p .. p + q - 1 THEN buffer[b - p + 1] ELSE m[b]]
  BY <1>6 DEF Overlay
<1>8. WithSegment(m, s) = [b \in D |-> IF b \in p .. p + q - 1 THEN Content(s, b) ELSE m[b]]
  BY <1>1, <1>6 DEF WithSegment, Covers
<1>9. ASSUME NEW b \in D, b \in p .. p + q - 1 PROVE buffer[b - p + 1] = Content(s, b)
  <2>1. b - p + 1 \in 1 .. q /\ (b - p + 1 <= n <=> b < p + n)
    BY <1>1, <1>9, Places DEF PlaceIn
  <2> QED BY <1>1, <1>2, <2>1 DEF Content
<1> QED BY <1>5, <1>7, <1>8, <1>9

\* One round of the sideband's loop, which is a segment of the image or nothing.
SectionLoaded(m, segs, i) ==
  IF i \in sections(segs) THEN Row(m, segs[i], read_section(segs, segs[i].paddr)) ELSE m
LEMMA SectionIs ==
  ASSUME NEW S, NEW D, NEW m, NEW segs, ImageFits(S, D, m, segs), NEW i, i \in 1 .. Len(segs),
         WholeRows(segs), Apart(segs)
  PROVE  SectionLoaded(m, segs, i) = WithSegment(m, segs[i])
<1>0. S \in Nat /\ D = 0 .. S - 1 /\ m \in [D -> Int] /\ Len(segs) \in Nat /\ i \in Int
      /\ \A j \in 1 .. Len(segs) : SegmentFits(S, segs[j])
  BY DEF ImageFits
<1>00. SegmentFits(S, segs[i])
  BY <1>0
<1>1. CASE i \in sections(segs)
  <2>1. segs[i].load /\ segs[i].memsz > 0 /\ segs[i].file # <<>>
    BY <1>1 DEF sections, HasBytes
  <2>2. {j \in sections(segs) : segs[j].paddr = segs[i].paddr} = {i}
    <3>1. segs[i].paddr \in segs[i].paddr .. segs[i].paddr + segs[i].memsz - 1
      BY <1>00, <2>1 DEF SegmentFits
    <3>2. ASSUME NEW j \in sections(segs), segs[j].paddr = segs[i].paddr, j # i PROVE FALSE
      <4>1. j \in 1 .. Len(segs) /\ segs[j].load /\ segs[j].memsz > 0
        BY <3>2 DEF sections, HasBytes
      <4>2. PICK a : a = segs[i].paddr
        OBVIOUS
      <4>3. a \in Nat /\ segs[i].memsz \in Nat
        BY <1>00, <4>2 DEF SegmentFits
      <4>4. a \in segs[j].paddr .. segs[j].paddr + segs[j].memsz - 1
        <5>1. segs[j].paddr = a
          BY <3>2, <4>2
        <5>2. segs[j].memsz \in Nat
          BY <1>0, <4>1 DEF SegmentFits
        <5> QED BY <4>1, <4>3, <5>1, <5>2
      <4> QED BY <2>1, <3>1, <3>2, <4>1, <4>2, <4>4 DEF Apart, Covers
    <3> QED BY <1>1, <3>2
  <2>3. read_section(segs, segs[i].paddr) = segs[i].file
    <3>1. Min({i}) = i
      <4>1. i \in Int
        BY <1>0
      <4>2. Min({i, i}) = i
        BY <4>1, MinOfTwo
      <4>3. {i, i} = {i}
        OBVIOUS
      <4> QED BY <4>2, <4>3
    <3> QED BY <2>2, <3>1 DEF read_section
  <2>4. segs[i].paddr % RowBytes = 0 /\ segs[i].memsz % RowBytes = 0
    BY <2>1 DEF WholeRows
  <2>5. PICK s : s = segs[i]
    OBVIOUS
  <2>6. Row(m, s, s.file) = WithSegment(m, s)
    BY <1>0, <1>00, <2>1, <2>4, <2>5, RowIs
  <2> QED BY <1>1, <2>3, <2>5, <2>6 DEF SectionLoaded
<1>2. CASE i \notin sections(segs)
  <2>1. \A a : ~Covers(segs[i], a)
    <3>1. ~segs[i].load \/ segs[i].memsz = 0
      BY <1>00, <1>2 DEF sections, HasBytes, WholeRows, SegmentFits
    <3>2. segs[i].paddr \in Nat /\ (segs[i].memsz = 0 => segs[i].paddr .. segs[i].paddr + segs[i].memsz - 1 = {})
      BY <1>00 DEF SegmentFits
    <3> QED BY <3>1, <3>2 DEF Covers
  <2>2. m = [a \in DOMAIN m |-> m[a]]
    BY <1>0
  <2>3. WithSegment(m, segs[i]) = m
    BY <2>1, <2>2 DEF WithSegment
  <2> QED BY <1>2, <2>3 DEF SectionLoaded
<1> QED BY <1>1, <1>2

\* The sideband loads every image of whole rows whose segments lie apart.
LEMMA SidebandLoaded ==
  ASSUME NEW S, NEW D, NEW m, NEW segs, ImageFits(S, D, m, segs), WholeRows(segs), Apart(segs)
  PROVE  Preload(m, segs) = Loaded(m, segs)
<1> DEFINE n == Len(segs)
           parts == [i \in 1 .. n |-> i]
           trace == [i \in 0 .. n |-> LoadedUpTo(m, segs, i)]
           loop  == CHOOSE loop : loop = [i \in 0 .. Len(parts) |->
                      IF i = 0 THEN m ELSE SectionLoaded(loop[i - 1], segs, parts[i])]
<1>0. n \in Nat /\ m \in [D -> Int] /\ Len(parts) = n /\ \A i \in 1 .. n : parts[i] = i
  BY DEF ImageFits
<1>1. trace[0] = m
  BY <1>0, LoadedNone
<1>2. ASSUME NEW i \in 1 .. n PROVE SectionLoaded(trace[i - 1], segs, parts[i]) = trace[i]
  <2>1. i \in 0 .. n /\ i - 1 \in 0 .. n /\ i \in Nat \ {0}
    BY <1>0
  <2>2. PICK before : before = LoadedUpTo(m, segs, i - 1)
    OBVIOUS
  <2>3. before \in [D -> Int]
    BY <2>1, <2>2, LoadedType
  <2>5. SectionLoaded(before, segs, i) = WithSegment(before, segs[i])
    <3>1. ImageFits(S, D, before, segs)
      BY <2>3 DEF ImageFits
    <3> QED BY <3>1, SectionIs
  <2>6. LoadedUpTo(m, segs, i) = WithSegment(before, segs[i])
    BY <2>1, <2>2, LoadedNext
  <2> QED BY <1>0, <2>1, <2>2, <2>5, <2>6
<1> HIDE DEF parts
<1>3. loop = [i \in 0 .. n |-> IF i = 0 THEN m ELSE SectionLoaded(loop[i - 1], segs, parts[i])]
  <2>1. trace = [i \in 0 .. n |-> trace[i]]
    OBVIOUS
  <2> HIDE DEF trace
  <2>2. \A i \in 0 .. n : trace[i] = IF i = 0 THEN m ELSE SectionLoaded(trace[i - 1], segs, parts[i])
    BY <1>0, <1>1, <1>2
  <2>3. trace = [i \in 0 .. n |-> IF i = 0 THEN m ELSE SectionLoaded(trace[i - 1], segs, parts[i])]
    BY <2>1, <2>2
  <2> QED BY <1>0, <2>3
<1>4. trace[n] = Loaded(m, segs)
  BY <1>0, LoadedAll
<1>5. Preload(m, segs) = loop[n]
  BY <1>0 DEF Preload, Sequentially, SectionLoaded, parts
<1> HIDE DEF trace, loop
<1>6. loop[n] = trace[n]
  <2>1. loop[0] = trace[0]
    BY <1>0, <1>1, <1>3
  <2>2. ASSUME NEW i \in 1 .. n, loop[i - 1] = trace[i - 1] PROVE loop[i] = trace[i]
    BY <2>2, <1>0, <1>2, <1>3
  <2> QED BY <1>0, <2>1, <2>2, SameLoop
<1> QED BY <1>4, <1>5, <1>6

----------------------------------------------------------------------------
\* The image in the state of the simulation.

Recorded == "ram" \in DOMAIN mem /\ "pc" \in DOMAIN host /\ "phase" \in DOMAIN sim
Tools == {"elf2hex", "sideband"}

\* Memory is as the job has it until an image is placed, and the tools without
\* a simulation never start the host.
LoadInv ==
  /\ Recorded /\ LegalImage(job) /\ DOMAIN mem.ram = DOMAIN job.memory
  /\ host.pc = "start" /\ sim.phase # "over" => mem.ram = job.memory
  /\ job.tool \in Tools => host.pc = "start"
  /\ ImageLoaded

\* A step that neither loads nor computes: it leaves memory, and does not get
\* the host back to the start or out of a crash.
KeepsMemory ==
  /\ job' = job /\ mem'.ram = mem.ram /\ Recorded'
  /\ host'.pc = host.pc \/ (Runs /\ host.pc \notin {"start", "crashed"} /\ host'.pc # "start")
  /\ sim.phase = "over" => sim'.phase = "over"
  /\ job.tool \in Tools /\ sim'.phase = "over" => sim.phase = "over"

LEMMA RunStepKeeps ==
  ASSUME Recorded, RunStep \/ FrameStep \/ tick \/ Broken
  PROVE  /\ job' = job /\ mem'.ram = mem.ram /\ "ram" \in DOMAIN mem' /\ "pc" \in DOMAIN host'
         /\ host'.pc = host.pc \/ (host.pc \notin {"start", "crashed"} /\ host'.pc # "start")
<1> USE DEF Recorded
<1>1. CASE PollTohost
  BY <1>1 DEF PollTohost
<1>2. CASE ClearTohost
  BY <1>2 DEF ClearTohost
<1>3. CASE HandleExit
  BY <1>3 DEF HandleExit
<1>4. CASE HandleSyscall
  BY <1>4 DEF HandleSyscall
<1>5. CASE Answer
  BY <1>5 DEF Answer
<1>6. CASE HandleIdentify
  BY <1>6 DEF HandleIdentify
<1>7. CASE HandleOther
  BY <1>7 DEF HandleOther
<1>8. CASE tick
  BY <1>8 DEF tick, Tick
<1>9. CASE PollFromhost
  BY <1>9 DEF PollFromhost
<1>10. CASE WriteFromhost
  BY <1>10 DEF WriteFromhost
<1>11. CASE stop
  BY <1>11 DEF stop
<1>12. CASE handle_configure
  BY <1>12 DEF handle_configure, FrameCommand, Respond
<1>13. CASE handle_set_address
  BY <1>13 DEF handle_set_address, FrameCommand, Respond
<1>14. CASE Broken
  BY <1>14 DEF Broken
<1> QED BY <1>1, <1>2, <1>3, <1>4, <1>5, <1>6, <1>7, <1>8, <1>9, <1>10, <1>11, <1>12, <1>13, <1>14
        DEF RunStep, FrameStep

LEMMA ProgramStepKeeps ==
  ASSUME Recorded, ProgramStep, ~Compute
  PROVE  job' = job /\ mem'.ram = mem.ram /\ "ram" \in DOMAIN mem' /\ host' = host
<1> USE DEF Recorded
<1>1. CASE SendWord
  BY <1>1 DEF SendWord, Send
<1>2. CASE Take
  BY <1>2 DEF Take
<1>3. ASSUME NEW c \in job.calls, SendCall(c)
      PROVE  job' = job /\ mem'.ram = mem.ram /\ "ram" \in DOMAIN mem' /\ host' = host
  BY <1>3 DEF SendCall
<1>4. ASSUME NEW code \in job.codes, SendExit(code)
      PROVE  job' = job /\ mem'.ram = mem.ram /\ "ram" \in DOMAIN mem' /\ host' = host
  BY <1>4 DEF SendExit
<1> QED BY <1>1, <1>2, <1>3, <1>4 DEF ProgramStep

\* The steps that change memory; every other keeps it.
Starts   == Simulated(start /\ UNCHANGED rfbVars)
Computes == Simulated(Compute /\ UNCHANGED rfbVars)
LEMMA OtherStepKeeps ==
  ASSUME Recorded, [Next]_vars, ~Starts, ~Computes, ~Elf2hex, ~Sideband
  PROVE  KeepsMemory
<1>1. CASE Simulated(DisplayStep)
  <2>1. RunStep \/ FrameStep \/ tick \/ Broken
    BY <1>1 DEF Simulated, DisplayStep
  <2>2. Runs /\ sim' = sim
    BY <1>1 DEF Simulated
  <2> QED BY <2>1, <2>2, RunStepKeeps DEF KeepsMemory, Recorded
<1>2. CASE Simulated(ProgramStep /\ UNCHANGED rfbVars)
  <2>1. ProgramStep /\ ~Compute /\ sim' = sim
    BY <1>2 DEF Simulated, Computes
  <2> QED BY <2>1, ProgramStepKeeps DEF KeepsMemory, Recorded
<1>3. CASE Simulated(Type /\ UNCHANGED rfbVars)
  BY <1>3 DEF Simulated, Type, KeepsMemory, Recorded
<1>4. CASE Simulated(OtherThreads)
  BY <1>4 DEF Simulated, OtherThreads, htifVars, KeepsMemory, Recorded
<1>5. CASE jtag_tick
  BY <1>5 DEF jtag_tick, htifVars, KeepsMemory, Recorded, Runs
<1>6. CASE accept
  BY <1>6 DEF accept, htifVars, KeepsMemory, Recorded
<1>7. CASE execute_command
  BY <1>7 DEF execute_command, htifVars, KeepsMemory, Recorded
<1>8. CASE Finish
  BY <1>8 DEF Finish, htifVars, KeepsMemory, Recorded, Runs, Tools
<1>9. CASE Crash
  BY <1>9 DEF Crash, htifVars, KeepsMemory, Recorded, Runs, Tools
<1>10. CASE handle_sigterm
  BY <1>10 DEF handle_sigterm, KeepsMemory, Recorded, Runs
<1>11. CASE Interrupt
  BY <1>11 DEF Interrupt, SignalExit, htifVars, KeepsMemory, Recorded, Runs, Tools
<1>12. CASE UNCHANGED vars
  BY <1>12 DEF vars, htifVars, KeepsMemory, Recorded
<1> QED BY <1>1, <1>2, <1>3, <1>4, <1>5, <1>6, <1>7, <1>8, <1>9, <1>10, <1>11, <1>12 DEF Next, Starts

LEMMA LoadInit ==
  ASSUME NEW jobs, NEW own, \A j \in jobs : LegalImage(Configured(j)), Init(jobs, own)
  PROVE  LoadInv
<1>1. PICK j \in jobs : HtifInit(Configured(j), own)
  BY DEF Init
<1>2. /\ job = Configured(j) /\ LegalImage(job)
      /\ mem.ram = job.memory /\ "ram" \in DOMAIN mem
      /\ host.pc = "start" /\ "pc" \in DOMAIN host
  BY <1>1 DEF HtifInit
<1>3. "phase" \in DOMAIN sim /\ sim.phase \in {"run", "over"}
  BY DEF Init
<1>4. ImageLoaded
  <2>1. job.tool \in Tools => sim.phase = "run"
    BY <1>2 DEF Init, LegalImage, Tools
  <2> QED BY <1>2, <2>1 DEF ImageLoaded, Placed, Tools
<1> QED BY <1>2, <1>3, <1>4 DEF LoadInv, Recorded

LEMMA LoadNext ==
  ASSUME LoadInv, [Next]_vars
  PROVE  LoadInv'
<1> DEFINE S == Cardinality(DOMAIN job.memory)
           segs == job.image.segs
<1>0. /\ Recorded /\ LegalImage(job) /\ DOMAIN mem.ram = DOMAIN job.memory
      /\ host.pc = "start" /\ sim.phase # "over" => mem.ram = job.memory
      /\ job.tool \in Tools => host.pc = "start"
      /\ ImageLoaded
  BY DEF LoadInv
<1>01. ImageFits(S, DOMAIN job.memory, job.memory, segs)
  BY <1>0 DEF LegalImage
<1>02. DOMAIN Loaded(job.memory, segs) = DOMAIN job.memory
  BY DEF Loaded
<1>1. CASE Starts
  <2>1. /\ job' = job /\ sim' = sim /\ Recorded' /\ host.pc = "start" /\ host'.pc # "start"
        /\ sim.phase = "run" /\ job.tool \in {"verilator", "modelsim"}
        /\ mem'.ram = IF Loads THEN load_elf(Chunks, mem.ram, segs) ELSE mem.ram
    <3>1. Runs /\ start /\ sim' = sim
      BY <1>1 DEF Starts, Simulated
    <3>2. job' = job /\ Recorded' /\ host.pc = "start" /\ host'.pc # "start"
      BY <1>0, <3>1 DEF start, Recorded
    <3>3. mem'.ram = IF Loads THEN load_elf(Chunks, mem.ram, segs) ELSE mem.ram
      BY <1>0, <3>1 DEF start, Recorded
    <3> QED BY <3>1, <3>2, <3>3 DEF Runs
  <2>2. load_elf(Chunks, job.memory, segs) = Loaded(job.memory, segs)
    <3>1. Chunked(Chunks) /\ Chunks.clears
      BY HtifAssumption
    <3>2. Whole(Chunks, S)
      BY <1>0, <2>1 DEF LegalImage
    <3>3. Loadable(Chunks, job.memory, segs)
      BY <3>1 DEF Loadable
    <3> QED BY <1>01, <3>1, <3>2, <3>3, ElfLoaded
  <2>3. mem.ram = job.memory
    BY <1>0, <2>1
  <2>4. ImageLoaded'
    BY <2>1, <2>2, <2>3 DEF ImageLoaded, Placed, Loads, Named
  <2>5. DOMAIN mem'.ram = DOMAIN job.memory
    BY <1>02, <2>1, <2>2, <2>3
  <2> QED BY <1>0, <2>1, <2>4, <2>5 DEF LoadInv, Tools
<1>2. CASE Computes
  <2>1. /\ job' = job /\ sim' = sim /\ host' = host /\ Recorded' /\ host.pc # "start"
        /\ job.tool \in {"verilator", "modelsim"}
        /\ \E a \in job.results : mem'.ram = [mem.ram EXCEPT ![a] = 1]
    BY <1>0, <1>2 DEF Computes, Simulated, Compute, Recorded, Runs, Program
  <2>2. DOMAIN mem'.ram = DOMAIN mem.ram /\ \A a \in DOMAIN mem.ram \ job.results : mem'.ram[a] = mem.ram[a]
    BY <2>1
  <2>3. ImageLoaded'
    BY <1>0, <1>02, <2>1, <2>2 DEF ImageLoaded, Placed, Loads, Named
  <2> QED BY <1>0, <2>1, <2>2, <2>3 DEF LoadInv, Tools
<1>3. CASE Elf2hex
  <2>1. /\ job' = job /\ host' = host /\ Recorded' /\ sim'.phase = "over" /\ job.tool = "elf2hex"
        /\ mem'.ram = elf2hex(job.width, DOMAIN mem.ram, segs)
    BY <1>0, <1>3 DEF Elf2hex, Place, Recorded
  <2>2. elf2hex(job.width, DOMAIN mem.ram, segs) = Loaded(job.memory, segs)
    <3>1. /\ Apart(segs) /\ Chunked(hexwriter(job.width)) /\ Whole(hexwriter(job.width), S)
          /\ \A a \in DOMAIN job.memory : job.memory[a] = 0
      BY <1>0, <2>1 DEF LegalImage
    <3>2. [a \in DOMAIN mem.ram |-> 0] = job.memory
      <4>1. job.memory = [a \in DOMAIN job.memory |-> job.memory[a]]
        BY <1>01 DEF ImageFits
      <4> QED BY <1>0, <3>1, <4>1
    <3>3. Loadable(hexwriter(job.width), job.memory, segs)
      BY <3>1 DEF Loadable
    <3>4. load_elf(hexwriter(job.width), job.memory, segs) = Loaded(job.memory, segs)
      BY <1>01, <3>1, <3>3, ElfLoaded
    <3> QED BY <3>2, <3>4 DEF elf2hex
  <2>3. ImageLoaded'
    BY <2>1, <2>2 DEF ImageLoaded
  <2> QED BY <1>0, <1>02, <2>1, <2>2, <2>3 DEF LoadInv, Tools
<1>4. CASE Sideband
  <2>1. /\ job' = job /\ host' = host /\ Recorded' /\ sim'.phase = "over" /\ job.tool = "sideband"
        /\ mem'.ram = Preload(mem.ram, segs) /\ mem.ram = job.memory
    BY <1>0, <1>4 DEF Sideband, Place, Recorded, Tools
  <2>2. Preload(job.memory, segs) = Loaded(job.memory, segs)
    <3>1. Apart(segs) /\ WholeRows(segs)
      BY <1>0, <2>1 DEF LegalImage
    <3> QED BY <1>01, <3>1, SidebandLoaded
  <2>3. ImageLoaded'
    BY <2>1, <2>2 DEF ImageLoaded
  <2> QED BY <1>0, <1>02, <2>1, <2>2, <2>3 DEF LoadInv, Tools
<1>5. CASE ~Starts /\ ~Computes /\ ~Elf2hex /\ ~Sideband
  <2>1. KeepsMemory
    BY <1>0, <1>5, OtherStepKeeps
  <2>2. ImageLoaded'
    <3>1. Placed' => Placed
      BY <1>0, <2>1 DEF KeepsMemory, Placed, Loads, Named, Tools
    <3> QED BY <1>0, <2>1, <3>1 DEF ImageLoaded, KeepsMemory
  <2> QED BY <1>0, <2>1, <2>2 DEF LoadInv, KeepsMemory, Tools, Runs
<1> QED BY <1>1, <1>2, <1>3, <1>4, <1>5

\* Whichever way an image takes into memory, memory then has its segments over
\* what was there: write of memif.cc merges the parts around whole units and
\* clears zeros, load_elf goes through the segments in order, elf2hex writes
\* words of any width, and the sideband of ariane_tb.sv whole rows.
THEOREM ImageIsLoaded ==
  ASSUME NEW jobs, NEW own, \A j \in jobs : LegalImage(Configured(j))
  PROVE  Init(jobs, own) /\ [][Next]_vars => []ImageLoaded
<1>1. Init(jobs, own) => LoadInv
  BY LoadInit
<1>2. LoadInv /\ [Next]_vars => LoadInv'
  BY LoadNext
<1>3. LoadInv => ImageLoaded
  BY DEF LoadInv
<1> QED BY <1>1, <1>2, <1>3, PTL

----------------------------------------------------------------------------
\* The remote frame buffer.

\* The handshake, by where the thread is and who has the lock.
Handshake ==
  /\ fb.pc \in {"none", "lock", "accept", "version", "clientinit", "wait", "read", "close"}
  /\ fb.pc \in {"none", "lock"} =>
       fb.lock = "free" /\ viewer.state = "away" /\ viewer.seen = <<>>
  /\ fb.pc = "accept" =>
       fb.lock = "thread" /\ viewer.state \in {"away", "connecting"} /\ viewer.seen = <<>>
  /\ fb.pc = "version" =>
       fb.lock = "thread" /\ viewer.state = "connected" /\ viewer.seen = << "version" >>
  /\ fb.pc = "clientinit" =>
       fb.lock = "thread" /\ viewer.state = "connected" /\ viewer.seen = << "version", "security" >>
  /\ fb.pc \in {"wait", "read", "close"} =>
       /\ fb.lock = "free" /\ viewer.state \in {"connected", "gone", "reset"}
       /\ viewer.seen \in {<< "version", "security", "init" >>, << "version", "security", "init", "update" >>}
  /\ fb.pc = "close" => viewer.state # "connected"

\* The words between the program and the host are those of the job, or of calls.
FromJob(w) == w \in job.words \/ (w.dev = 0 /\ w.cmd = 0)
Commands   == FromJob(mem.tohost) /\ FromJob(host.cmd)

\* Once the host runs, everything in memory is something that was drawn.
Drawn == host.pc # "start" => mem.ram \in [DOMAIN job.memory -> Int \ {Undrawn}]

\* What is in the buffers: the part of the new frame that has been copied is no
\* older than the frame that was in memory when the last one was complete.
Placing == \E v \in job.words : v.dev = 2 /\ v.cmd = 1 /\ v.payload % 2 = 0 /\ fb.addr = v.payload \div 2
Sizing  == \E w \in job.words : w.dev = 2 /\ w.cmd = 0 /\ w.payload > 0 /\ fb.blocks = w.payload
Buffers ==
  LET blocks == 1 .. fb.blocks
  IN  /\ host.pc = "start" => fb.pc = "none"
      /\ fb.pc = "none" => fb.fb1 = <<>> /\ fb.blocks = 0 /\ fb.read_pos = 0
      /\ fb.memif => Placing
      /\ fb.pc # "none" =>
           /\ Sizing
           /\ {fb.fb1, fb.fb2, fb.since} \subseteq [blocks -> Int] /\ fb.read_pos \in 0 .. fb.blocks - 1
           /\ \A i \in blocks : fb.since[i] = 1 => fb.memif /\ mem.ram[fb.addr + i - 1] = 1
           /\ \A i \in 1 .. fb.read_pos : fb.fb2[i] # Undrawn /\ (fb.since[i] = 1 => fb.fb2[i] = 1)

MemFields    == {"ram", "tohost"}
HostFields   == {"pc", "cmd", "fromhost_queue"}
FbFields     == {"blocks", "addr", "memif", "fb1", "fb2", "read_pos", "since", "lock", "pc"}
ViewerFields == {"state", "sends", "seen", "frame", "since"}
DisplayRecords ==
  /\ MemFields \subseteq DOMAIN mem /\ HostFields \subseteq DOMAIN host
  /\ FbFields \subseteq DOMAIN fb /\ ViewerFields \subseteq DOMAIN viewer
FrameInv ==
  /\ DisplayRecords /\ LegalFrames(job) /\ Commands /\ Drawn
  /\ Handshake /\ Buffers /\ FramesFresh

\* What every step does to the words and the records of the host.
HostKeeps ==
  /\ job' = job /\ MemFields \subseteq DOMAIN mem' /\ HostFields \subseteq DOMAIN host'
  /\ host'.cmd \in {host.cmd, mem.tohost}
  /\ mem'.tohost = mem.tohost \/ FromJob(mem'.tohost)

LEMMA RunStepPasses ==
  ASSUME MemFields \subseteq DOMAIN mem, HostFields \subseteq DOMAIN host,
         RunStep \/ FrameStep \/ tick \/ Broken
  PROVE  HostKeeps
<1> USE DEF MemFields, HostFields, HostKeeps
<1>1. CASE PollTohost
  BY <1>1 DEF PollTohost
<1>2. CASE ClearTohost
  BY <1>2 DEF ClearTohost, FromJob, Zero
<1>3. CASE HandleExit
  BY <1>3 DEF HandleExit
<1>4. CASE HandleSyscall
  BY <1>4 DEF HandleSyscall
<1>5. CASE Answer
  BY <1>5 DEF Answer
<1>6. CASE HandleIdentify
  BY <1>6 DEF HandleIdentify
<1>7. CASE HandleOther
  BY <1>7 DEF HandleOther
<1>8. CASE tick
  BY <1>8 DEF tick, Tick
<1>9. CASE PollFromhost
  BY <1>9 DEF PollFromhost
<1>10. CASE WriteFromhost
  BY <1>10 DEF WriteFromhost
<1>11. CASE stop
  BY <1>11 DEF stop
<1>12. CASE handle_configure
  BY <1>12 DEF handle_configure, FrameCommand, Respond
<1>13. CASE handle_set_address
  BY <1>13 DEF handle_set_address, FrameCommand, Respond
<1>14. CASE Broken
  BY <1>14 DEF Broken
<1> QED BY <1>1, <1>2, <1>3, <1>4, <1>5, <1>6, <1>7, <1>8, <1>9, <1>10, <1>11, <1>12, <1>13, <1>14
        DEF RunStep, FrameStep

LEMMA ProgramStepPasses ==
  ASSUME MemFields \subseteq DOMAIN mem, HostFields \subseteq DOMAIN host, ProgramStep
  PROVE  HostKeeps
<1> USE DEF MemFields, HostFields, HostKeeps, FromJob
<1>1. CASE SendWord
  BY <1>1 DEF SendWord, Send
<1>2. CASE Take
  BY <1>2 DEF Take
<1>3. CASE Compute
  BY <1>3 DEF Compute
<1>4. ASSUME NEW c \in job.calls, SendCall(c) PROVE HostKeeps
  BY <1>4 DEF SendCall, Word
<1>5. ASSUME NEW code \in job.codes, SendExit(code) PROVE HostKeeps
  BY <1>5 DEF SendExit, Word
<1> QED BY <1>1, <1>2, <1>3, <1>4, <1>5 DEF ProgramStep

LEMMA EveryStepPasses ==
  ASSUME MemFields \subseteq DOMAIN mem, HostFields \subseteq DOMAIN host, [Next]_vars
  PROVE  HostKeeps
<1> USE DEF MemFields, HostFields
<1>1. CASE Simulated(DisplayStep)
  BY <1>1, RunStepPasses DEF Simulated, DisplayStep
<1>2. CASE Simulated(ProgramStep /\ UNCHANGED rfbVars)
  BY <1>2, ProgramStepPasses DEF Simulated
<1>3. CASE Simulated(Type /\ UNCHANGED rfbVars)
  BY <1>3 DEF Simulated, Type, HostKeeps
<1>4. CASE Simulated(start /\ UNCHANGED rfbVars)
  BY <1>4 DEF Simulated, start, HostKeeps
<1>5. CASE handle_sigterm
  BY <1>5 DEF handle_sigterm, HostKeeps
<1>6. CASE Interrupt
  BY <1>6 DEF Interrupt, SignalExit, htifVars, HostKeeps
<1>7. CASE Elf2hex \/ Sideband
  BY <1>7 DEF Elf2hex, Sideband, Place, HostKeeps
<1>8. CASE Simulated(OtherThreads) \/ jtag_tick \/ accept \/ execute_command \/ Finish \/ Crash \/ UNCHANGED vars
  BY <1>8 DEF Simulated, OtherThreads, jtag_tick, accept, execute_command, Finish, Crash, vars, htifVars, HostKeeps
<1> QED BY <1>1, <1>2, <1>3, <1>4, <1>5, <1>6, <1>7, <1>8 DEF Next

LEMMA CommandsNext ==
  ASSUME Commands, HostKeeps PROVE Commands'
BY DEF Commands, FromJob, HostKeeps

\* What the handler of a command tells of it.
LEMMA DisplayCommands ==
  ASSUME NEW w, w.dev \in Nat
  PROVE  /\ Handler(w) = "configure" => w.dev = 2 /\ w.cmd = 0
         /\ Handler(w) = "set_address" => w.dev = 2 /\ w.cmd = 1
<1>1. Device(w) = "rfb" => w.dev = 2
  <2>1. CASE job.rfb
    <3>1. devices = << "syscall_proxy", "bcd" >> \o << "rfb" >>
      BY <2>1 DEF devices
    <3> QED BY <3>1 DEF Device
  <2>2. CASE ~job.rfb
    <3>1. devices = << "syscall_proxy", "bcd" >>
      BY <2>2 DEF devices
    <3> QED BY <3>1 DEF Device
  <2> QED BY <2>1, <2>2
<1>2. Handler(w) = "configure" => Device(w) = "rfb" /\ w.cmd = 0
  BY DEF Handler
<1>3. Handler(w) = "set_address" => Device(w) = "rfb" /\ w.cmd = 1
  BY DEF Handler
<1> QED BY <1>1, <1>2, <1>3

\* Where memory may change and how, once the host runs: it only gets more ones.
LEMMA StartLoads ==
  ASSUME LoadInv, Starts
  PROVE  mem'.ram = IF Loads THEN Loaded(job.memory, job.image.segs) ELSE job.memory
<1> DEFINE S == Cardinality(DOMAIN job.memory)
           segs == job.image.segs
<1>0. /\ Recorded /\ LegalImage(job) /\ (host.pc = "start" /\ sim.phase # "over" => mem.ram = job.memory)
  BY DEF LoadInv
<1>1. Runs /\ start
  BY DEF Starts, Simulated
<1>2. mem'.ram = (IF Loads THEN load_elf(Chunks, mem.ram, segs) ELSE mem.ram) /\ host.pc = "start"
  BY <1>0, <1>1 DEF start, Recorded
<1>3. mem.ram = job.memory /\ job.tool \in {"verilator", "modelsim"}
  BY <1>0, <1>1, <1>2 DEF Runs
<1>4. Chunked(Chunks) /\ Loadable(Chunks, job.memory, segs)
  BY HtifAssumption DEF Loadable
<1>5. ImageFits(S, DOMAIN job.memory, job.memory, segs) /\ Whole(Chunks, S)
  BY <1>0, <1>3 DEF LegalImage
<1>6. load_elf(Chunks, job.memory, segs) = Loaded(job.memory, segs)
  BY <1>4, <1>5, ElfLoaded
<1> QED BY <1>2, <1>3, <1>6

\* After the start a one in memory stays, and the host does not start again.
Grows ==
  host.pc # "start" =>
    /\ host'.pc # "start" /\ DOMAIN mem'.ram = DOMAIN mem.ram
    /\ \A a \in DOMAIN mem.ram : mem.ram[a] = 1 => mem'.ram[a] = 1

LEMMA DrawnStart ==
  ASSUME LoadInv, LegalFrames(job), Starts
  PROVE  mem'.ram \in [DOMAIN job.memory -> Int \ {Undrawn}]
<1> DEFINE D == DOMAIN job.memory
           loaded == Loaded(job.memory, job.image.segs)
<1>1. ImageFits(Cardinality(D), D, job.memory, job.image.segs)
  BY DEF LoadInv, LegalImage
<1>2. Len(job.image.segs) \in 0 .. Len(job.image.segs)
  BY <1>1 DEF ImageFits
<1>3. loaded \in [D -> Int] /\ job.memory \in [D -> Int]
  BY <1>1, <1>2, LoadedType, LoadedAll DEF ImageFits
<1>4. \A a \in D : job.memory[a] # Undrawn /\ loaded[a] # Undrawn
  BY DEF LegalFrames, JobWords
<1>5. mem'.ram \in {loaded, job.memory}
  BY StartLoads
<1> HIDE DEF loaded
<1> QED BY <1>3, <1>4, <1>5

LEMMA MemoryGrows ==
  ASSUME LoadInv, FrameInv, [Next]_vars
  PROVE  Grows /\ Drawn'
<1>0. Recorded /\ (job.tool \in Tools => host.pc = "start")
  BY DEF LoadInv
<1>1. LegalFrames(job) /\ Drawn /\ job' = job
  <2>1. MemFields \subseteq DOMAIN mem /\ HostFields \subseteq DOMAIN host
    BY DEF FrameInv, DisplayRecords
  <2> QED BY <2>1, EveryStepPasses DEF FrameInv, HostKeeps
<1>2. CASE Starts
  <2>1. host.pc = "start"
    BY <1>2 DEF Starts, Simulated, start
  <2> QED BY <1>1, <1>2, <2>1, DrawnStart DEF Grows, Drawn
<1>3. CASE Computes
  <2>1. host' = host /\ host.pc # "start" /\ \E a : mem'.ram = [mem.ram EXCEPT ![a] = 1]
    BY <1>0, <1>3 DEF Computes, Simulated, Compute, Program, Recorded
  <2>2. PICK a : mem'.ram = [mem.ram EXCEPT ![a] = 1]
    BY <2>1
  <2>3. mem.ram \in [DOMAIN job.memory -> Int \ {Undrawn}] /\ 1 \in Int \ {Undrawn}
    BY <1>1, <2>1 DEF Drawn, Undrawn
  <2>4. mem'.ram \in [DOMAIN job.memory -> Int \ {Undrawn}]
    BY <2>2, <2>3
  <2> QED BY <1>1, <2>1, <2>2, <2>4 DEF Grows, Drawn
<1>4. CASE Elf2hex \/ Sideband
  BY <1>0, <1>4 DEF Elf2hex, Sideband, Place, Tools, Grows, Drawn
<1>5. CASE ~Starts /\ ~Computes /\ ~Elf2hex /\ ~Sideband
  <2>1. KeepsMemory
    BY <1>0, <1>5, OtherStepKeeps
  <2> QED BY <1>1, <2>1 DEF KeepsMemory, Grows, Drawn
<1> QED BY <1>2, <1>3, <1>4, <1>5

\* The frame lies in memory.
LEMMA FrameInside ==
  ASSUME LegalFrames(job), fb.memif, Placing, Sizing, NEW i \in 1 .. fb.blocks
  PROVE  fb.addr + i - 1 \in DOMAIN job.memory
<1>1. PICK v \in job.words : v.dev = 2 /\ v.cmd = 1 /\ v.payload % 2 = 0 /\ fb.addr = v.payload \div 2
  BY DEF Placing
<1>2. PICK w \in job.words : w.dev = 2 /\ w.cmd = 0 /\ w.payload > 0 /\ fb.blocks = w.payload
  BY DEF Sizing
<1>3. fb.addr .. fb.addr + fb.blocks - 1 \subseteq DOMAIN job.memory
  BY <1>1, <1>2 DEF LegalFrames, JobWords
<1>4. fb.addr \in Nat /\ fb.blocks \in Nat
  BY <1>1, <1>2 DEF LegalFrames, JobWords
<1> QED BY <1>3, <1>4

\* A sequence with one element more.
LEMMA AppendIs ==
  ASSUME NEW S, NEW s \in Seq(S), NEW t \in Seq(S), Len(t) = Len(s) + 1, \A i \in 1 .. Len(s) : t[i] = s[i]
  PROVE  Append(s, t[Len(t)]) = t
<1> DEFINE e == t[Len(t)]
           u == Append(s, e)
<1>1. Len(s) \in Nat /\ e \in S
  OBVIOUS
<1>2. u \in Seq(S) /\ Len(u) = Len(s) + 1 /\ \A i \in 1 .. Len(s) : u[i] = s[i]
  BY <1>1, AppendProperties
<1>3. u[Len(s) + 1] = e
  BY <1>1, AppendProperties
<1> HIDE DEF u
<1>4. \A i \in 1 .. Len(u) : u[i] = t[i]
  BY <1>1, <1>2, <1>3
<1>5. u = t
  BY <1>2, <1>4, SeqEqual
<1> QED BY <1>5 DEF u

LEMMA AppendTwo == ASSUME NEW S, NEW a \in S, NEW b \in S PROVE Append(<< a >>, b) = << a, b >>
<1> DEFINE s == << a >>
           t == << a, b >>
<1>1. s \in Seq(S) /\ t \in Seq(S) /\ Len(s) = 1 /\ Len(t) = 2 /\ s[1] = a /\ t[1] = a /\ t[2] = b
  OBVIOUS
<1> HIDE DEF s, t
<1>2. Len(t) = Len(s) + 1 /\ \A i \in 1 .. Len(s) : t[i] = s[i]
  BY <1>1
<1>3. Append(s, t[Len(t)]) = t
  BY <1>1, <1>2, AppendIs
<1> QED BY <1>1, <1>3 DEF s, t

LEMMA AppendThree ==
  ASSUME NEW S, NEW a \in S, NEW b \in S, NEW c \in S PROVE Append(<< a, b >>, c) = << a, b, c >>
<1> DEFINE s == << a, b >>
           t == << a, b, c >>
<1>1. /\ s \in Seq(S) /\ t \in Seq(S) /\ Len(s) = 2 /\ Len(t) = 3
      /\ s[1] = a /\ s[2] = b /\ t[1] = a /\ t[2] = b /\ t[3] = c
  OBVIOUS
<1> HIDE DEF s, t
<1>2. \A i \in 1 .. Len(s) : t[i] = s[i]
  <2>1. \A i \in 1 .. 2 : i = 1 \/ i = 2
    OBVIOUS
  <2> QED BY <1>1, <2>1
<1>3. Len(t) = Len(s) + 1
  BY <1>1
<1>4. Append(s, t[Len(t)]) = t
  BY ONLY <1>1, <1>2, <1>3, AppendIs
<1> QED BY <1>1, <1>4 DEF s, t

LEMMA AppendFour ==
  ASSUME NEW S, NEW a \in S, NEW b \in S, NEW c \in S, NEW d \in S
  PROVE  Append(<< a, b, c >>, d) = << a, b, c, d >>
<1> DEFINE s == << a, b, c >>
           t == << a, b, c, d >>
<1>1. /\ s \in Seq(S) /\ t \in Seq(S) /\ Len(s) = 3 /\ Len(t) = 4
      /\ s[1] = a /\ s[2] = b /\ s[3] = c /\ t[1] = a /\ t[2] = b /\ t[3] = c /\ t[4] = d
  OBVIOUS
<1> HIDE DEF s, t
<1>2. \A i \in 1 .. Len(s) : t[i] = s[i]
  <2>1. \A i \in 1 .. 3 : i = 1 \/ i = 2 \/ i = 3
    OBVIOUS
  <2> QED BY <1>1, <2>1
<1>3. Len(t) = Len(s) + 1
  BY <1>1
<1>4. Append(s, t[Len(t)]) = t
  BY ONLY <1>1, <1>2, <1>3, AppendIs
<1> QED BY <1>1, <1>4 DEF s, t

\* What a viewer is sent, one message after the other.
LEMMA Greetings ==
  /\ Append(<< "version" >>, "security") = << "version", "security" >>
  /\ Append(<< "version", "security" >>, "init") = << "version", "security", "init" >>
  /\ Append(<< "version", "security", "init" >>, "update") = << "version", "security", "init", "update" >>
<1> DEFINE S == {"version", "security", "init", "update"}
<1>1. "version" \in S /\ "security" \in S /\ "init" \in S /\ "update" \in S
  OBVIOUS
<1> HIDE DEF S
<1> QED BY <1>1, AppendTwo, AppendThree, AppendFour

LEMMA HandshakeShown == ASSUME Handshake PROVE HandshakeUnbroken
<1> DEFINE whole == << "version", "security", "init", "update" >>
<1>1. viewer.seen \in {<<>>, << "version" >>, << "version", "security" >>, << "version", "security", "init" >>, whole}
  BY DEF Handshake
<1>2. CASE viewer.seen = <<>>
  BY <1>2 DEF HandshakeUnbroken, IsPrefix
<1>3. CASE viewer.seen = << "version" >>
  BY <1>3 DEF HandshakeUnbroken, IsPrefix
<1>4. CASE viewer.seen = << "version", "security" >>
  BY <1>4 DEF HandshakeUnbroken, IsPrefix
<1>5. CASE viewer.seen = << "version", "security", "init" >>
  BY <1>5 DEF HandshakeUnbroken, IsPrefix
<1>6. CASE viewer.seen = whole
  BY <1>6 DEF HandshakeUnbroken, IsPrefix
<1> QED BY <1>1, <1>2, <1>3, <1>4, <1>5, <1>6

\* The part of the invariant that speaks of the display.
DisplayInv == Handshake /\ Buffers /\ FramesFresh

\* What was in memory at the last swap stays.
LEMMA SinceStays ==
  ASSUME LoadInv, FrameInv, Grows, fb.pc # "none", NEW i \in 1 .. fb.blocks, fb.since[i] = 1
  PROVE  fb.memif /\ mem'.ram[fb.addr + i - 1] = 1
<1>1. /\ DOMAIN mem.ram = DOMAIN job.memory /\ LegalFrames(job) /\ Buffers
  BY DEF LoadInv, FrameInv
<1>2. host.pc # "start" /\ fb.memif /\ Placing /\ Sizing /\ mem.ram[fb.addr + i - 1] = 1
  BY <1>1 DEF Buffers
<1>3. fb.addr + i - 1 \in DOMAIN mem.ram
  BY <1>1, <1>2, FrameInside
<1> QED BY <1>2, <1>3 DEF Grows

LEMMA DisplayKept ==
  ASSUME LoadInv, FrameInv, Grows, job' = job, UNCHANGED rfbVars
  PROVE  DisplayInv'
<1>0. fb' = fb /\ viewer' = viewer /\ job' = job
  BY DEF rfbVars
<1>1. Handshake' /\ FramesFresh'
  BY <1>0 DEF FrameInv, Handshake, FramesFresh
<1>2. Buffers'
  <2>1. Buffers
    BY DEF FrameInv
  <2>2. fb.pc # "none" => host'.pc # "start"
    BY <2>1 DEF Buffers, Grows
  <2>3. fb.pc # "none" => \A i \in 1 .. fb.blocks : fb.since[i] = 1 => fb.memif /\ mem'.ram[fb.addr + i - 1] = 1
    BY SinceStays
  <2> QED BY <1>0, <2>1, <2>2, <2>3 DEF Buffers, Placing, Sizing
<1> QED BY <1>1, <1>2 DEF DisplayInv

\* The thread and the viewer touch neither buffers nor frames, but Close, after
\* which there is no frame.
LEMMA OtherThreadsKeep ==
  ASSUME FrameInv, OtherThreads
  PROVE  DisplayInv'
<1> USE DEF FbFields, ViewerFields
<1>0. Handshake /\ Buffers /\ FramesFresh /\ FbFields \subseteq DOMAIN fb /\ ViewerFields \subseteq DOMAIN viewer
  BY DEF FrameInv, DisplayRecords
<1> DEFINE SameBuffers == /\ fb'.blocks = fb.blocks /\ fb'.addr = fb.addr /\ fb'.memif = fb.memif
                          /\ fb'.fb1 = fb.fb1 /\ fb'.fb2 = fb.fb2 /\ fb'.since = fb.since
                          /\ fb'.read_pos = fb.read_pos /\ (fb'.pc = "none" <=> fb.pc = "none")
           SameFrame   == (viewer'.frame = viewer.frame /\ viewer'.since = viewer.since) \/ viewer' = NoViewer
<1>1. SameBuffers /\ SameFrame /\ Handshake'
  <2>1. CASE Lock
    BY <1>0, <2>1 DEF Lock, Handshake
  <2>2. CASE Accept
    <3>1. /\ fb.pc = "accept" /\ fb' = [fb EXCEPT !.pc = "version"]
          /\ viewer' = [Tell("version") EXCEPT !.state = "connected"]
      BY <2>2 DEF Accept, Thread
    <3>2. viewer.seen = <<>> /\ Append(<<>>, "version") = << "version" >>
      BY <1>0, <3>1 DEF Handshake
    <3>3. viewer'.seen = << "version" >> /\ viewer'.state = "connected" /\ SameFrame
      BY <1>0, <3>1, <3>2 DEF Tell
    <3> QED BY <1>0, <3>1, <3>3 DEF Handshake
  <2>3. CASE ReadVersion
    <3>1. fb.pc = "version" /\ fb' = [fb EXCEPT !.pc = "clientinit"] /\ viewer' = Tell("security")
      BY <2>3 DEF ReadVersion, Thread
    <3>2. viewer.seen = << "version" >>
      BY <1>0, <3>1 DEF Handshake
    <3>3. viewer'.seen = << "version", "security" >> /\ viewer'.state = viewer.state /\ SameFrame
      BY <1>0, <3>1, <3>2, Greetings DEF Tell
    <3> QED BY <1>0, <3>1, <3>3 DEF Handshake
  <2>4. CASE ClientInit
    <3>1. fb.pc = "clientinit" /\ fb' = [Unlock(fb) EXCEPT !.pc = "wait"] /\ viewer' = Tell("init")
      BY <2>4 DEF ClientInit
    <3>2. viewer.seen = << "version", "security" >>
      BY <1>0, <3>1 DEF Handshake
    <3>3. viewer'.seen = << "version", "security", "init" >> /\ viewer'.state = viewer.state /\ SameFrame
      BY <1>0, <3>1, <3>2, Greetings DEF Tell
    <3>4. SameBuffers /\ fb'.pc = "wait" /\ fb'.lock = "free"
      BY <1>0, <3>1 DEF Unlock
    <3> QED BY <1>0, <3>1, <3>3, <3>4 DEF Handshake
  <2>5. CASE WaitMemif
    BY <1>0, <2>5 DEF WaitMemif, Thread, Handshake
  <2>6. CASE ReadCommand
    BY <1>0, <2>6 DEF ReadCommand, Thread, Handshake
  <2>7. CASE ReadEnd
    BY <1>0, <2>7 DEF ReadEnd, Thread, Handshake
  <2>8. CASE Close
    BY <1>0, <2>8 DEF Close, Thread, Handshake, NoViewer
  <2>9. CASE Connect /\ fb' = fb
    BY <1>0, <2>9 DEF Connect, Handshake
  <2>10. CASE SendNext /\ fb' = fb
    BY <1>0, <2>10 DEF SendNext, Handshake
  <2>11. CASE Leave /\ fb' = fb
    <3>1. viewer.state = "connected" /\ Len(viewer.seen) > 2 /\ viewer' = [viewer EXCEPT !.state = "gone"]
      BY <2>11 DEF Leave
    <3>2. Len(<< "version" >>) = 1 /\ Len(<< "version", "security" >>) = 2
      OBVIOUS
    <3>3. fb.pc \in {"wait", "read"}
      <4>1. CASE fb.pc = "version"
        <5>1. viewer.seen = << "version" >>
          BY <1>0, <4>1 DEF Handshake
        <5> QED BY ONLY <3>1, <3>2, <5>1
      <4>2. CASE fb.pc = "clientinit"
        <5>1. viewer.seen = << "version", "security" >>
          BY <1>0, <4>2 DEF Handshake
        <5> QED BY ONLY <3>1, <3>2, <5>1
      <4> QED BY <1>0, <3>1, <4>1, <4>2 DEF Handshake
    <3>4. viewer'.state = "gone" /\ viewer'.seen = viewer.seen /\ SameFrame
      BY <1>0, <3>1
    <3> QED BY <1>0, <2>11, <3>3, <3>4 DEF Handshake
  <2> QED BY <2>1, <2>2, <2>3, <2>4, <2>5, <2>6, <2>7, <2>8, <2>9, <2>10, <2>11
          DEF OtherThreads, ThreadStep, ViewerStep
<1>2. job' = job /\ mem' = mem /\ host' = host
  BY DEF OtherThreads, htifVars
<1>3. Buffers'
  BY <1>0, <1>1, <1>2 DEF Buffers, Placing, Sizing
<1>4. FramesFresh'
  <2>1. CASE viewer' = NoViewer
    BY <2>1 DEF FramesFresh, NoViewer
  <2> QED BY <1>0, <1>1, <2>1 DEF FramesFresh
<1> QED BY <1>1, <1>3, <1>4 DEF DisplayInv

\* What the display is told are words of the program.
LEMMA DisplayWords ==
  ASSUME LegalFrames(job), Commands
  PROVE  /\ Handler(host.cmd) = "configure" => host.cmd \in job.words /\ host.cmd.dev = 2 /\ host.cmd.cmd = 0
         /\ Handler(host.cmd) = "set_address" => host.cmd \in job.words /\ host.cmd.dev = 2 /\ host.cmd.cmd = 1
<1>1. FromJob(host.cmd)
  BY DEF Commands
<1>2. host.cmd.dev \in Nat
  BY <1>1 DEF FromJob, LegalFrames, JobWords
<1>3. host.cmd.dev = 2 => host.cmd \in job.words
  BY <1>1 DEF FromJob
<1> QED BY <1>2, <1>3, DisplayCommands

LEMMA ConfigureKeeps ==
  ASSUME LoadInv, FrameInv, Grows, handle_configure
  PROVE  DisplayInv'
<1> DEFINE n  == host.cmd.payload
           ok == fb.fb1 = <<>> /\ n > 0
<1> USE DEF FbFields, HostFields
<1>0. /\ Handshake /\ Buffers /\ FramesFresh /\ FbFields \subseteq DOMAIN fb /\ HostFields \subseteq DOMAIN host
      /\ LegalFrames(job) /\ Commands
  BY DEF FrameInv, DisplayRecords
<1>1. /\ host.pc = "handle" /\ Handler(host.cmd) = "configure" /\ Respond(ok)
      /\ job' = job /\ mem' = mem /\ viewer' = viewer
      /\ fb' = IF ok THEN [fb EXCEPT !.blocks = n, !.fb1 = Fresh(n), !.fb2 = Fresh(n),
                                     !.since = Fresh(n), !.pc = "lock"]
                     ELSE fb
  BY DEF handle_configure, FrameCommand
<1>2. host.cmd \in job.words /\ host.cmd.dev = 2 /\ host.cmd.cmd = 0 /\ n \in Nat
  <2>1. host.cmd \in job.words /\ host.cmd.dev = 2 /\ host.cmd.cmd = 0
    BY <1>0, <1>1, DisplayWords
  <2> QED BY <1>0, <2>1 DEF LegalFrames, JobWords
<1>3. host'.pc # "start"
  BY <1>0, <1>1 DEF Respond
<1>4. CASE ~ok
  BY <1>0, <1>1, <1>4, DisplayKept DEF rfbVars
<1>5. CASE ok
  <2>1. fb.pc = "none"
    <3>1. SUFFICES ASSUME fb.pc # "none" PROVE FALSE
      OBVIOUS
    <3>2. Sizing /\ fb.fb1 \in [1 .. fb.blocks -> Int]
      BY <1>0, <3>1 DEF Buffers
    <3>3. fb.blocks \in Nat /\ fb.blocks > 0
      BY <1>0, <3>2 DEF Sizing, LegalFrames, JobWords
    <3>4. 1 \in DOMAIN fb.fb1
      BY <3>2, <3>3
    <3> QED BY <1>5, <3>4
  <2>2. /\ fb'.blocks = n /\ fb'.fb1 = Fresh(n) /\ fb'.fb2 = Fresh(n) /\ fb'.since = Fresh(n) /\ fb'.pc = "lock"
        /\ fb'.addr = fb.addr /\ fb'.memif = fb.memif /\ fb'.read_pos = fb.read_pos /\ fb'.lock = fb.lock
    BY <1>0, <1>1, <1>5
  <2>3. Handshake' /\ FramesFresh'
    BY <1>0, <1>1, <2>1, <2>2 DEF Handshake, FramesFresh
  <2>4. Fresh(n) \in [1 .. n -> Int] /\ \A i \in 1 .. n : Fresh(n)[i] # 1
    BY DEF Fresh, Undrawn
  <2>5. fb'.read_pos = 0 /\ 0 \in 0 .. n - 1
    BY <1>0, <1>2, <1>5, <2>1, <2>2 DEF Buffers
  <2>6. (fb.memif => Placing) /\ Sizing'
    BY <1>0, <1>1, <1>2, <1>5, <2>2 DEF Buffers, Sizing
  <2>7. fb'.memif => Placing'
    BY <1>1, <2>2, <2>6 DEF Placing
  <2>8. Buffers'
    BY <1>3, <2>2, <2>4, <2>5, <2>6, <2>7 DEF Buffers
  <2> QED BY <2>3, <2>8 DEF DisplayInv
<1> QED BY <1>4, <1>5

LEMMA SetAddressKeeps ==
  ASSUME LoadInv, FrameInv, Grows, handle_set_address
  PROVE  DisplayInv'
<1> DEFINE p  == host.cmd.payload
           ok == p % 2 = 0
<1> USE DEF FbFields, HostFields
<1>0. /\ Handshake /\ Buffers /\ FramesFresh /\ FbFields \subseteq DOMAIN fb /\ HostFields \subseteq DOMAIN host
      /\ LegalFrames(job) /\ Commands
  BY DEF FrameInv, DisplayRecords
<1>1. /\ host.pc = "handle" /\ Handler(host.cmd) = "set_address" /\ Respond(ok)
      /\ job' = job /\ mem' = mem /\ viewer' = viewer
      /\ fb' = IF ok THEN [fb EXCEPT !.addr = p \div 2, !.memif = TRUE] ELSE fb
  BY DEF handle_set_address, FrameCommand
<1>2. host.cmd \in job.words /\ host.cmd.dev = 2 /\ host.cmd.cmd = 1
  BY <1>0, <1>1, DisplayWords
<1>3. host'.pc # "start"
  BY <1>0, <1>1 DEF Respond
<1>4. CASE ~ok
  BY <1>0, <1>1, <1>4, DisplayKept DEF rfbVars
<1>5. CASE ok
  <2>1. /\ fb'.addr = p \div 2 /\ fb'.memif = TRUE /\ fb'.blocks = fb.blocks /\ fb'.fb1 = fb.fb1 /\ fb'.fb2 = fb.fb2
        /\ fb'.since = fb.since /\ fb'.read_pos = fb.read_pos /\ fb'.lock = fb.lock /\ fb'.pc = fb.pc
    BY <1>0, <1>1, <1>5
  <2>2. Handshake' /\ FramesFresh'
    BY <1>0, <1>1, <2>1 DEF Handshake, FramesFresh
  <2>3. Placing'
    BY <1>1, <1>2, <1>5, <2>1 DEF Placing
  <2>4. fb.memif => fb'.addr = fb.addr
    <3>1. SUFFICES ASSUME fb.memif PROVE p \div 2 = fb.addr
      BY <2>1
    <3>2. PICK v \in job.words : v.dev = 2 /\ v.cmd = 1 /\ v.payload % 2 = 0 /\ fb.addr = v.payload \div 2
      BY <1>0, <3>1 DEF Buffers, Placing
    <3> QED BY <1>0, <1>2, <1>5, <3>2 DEF LegalFrames, JobWords
  <2>5. Sizing => Sizing'
    BY <1>1, <2>1 DEF Sizing
  <2>6. Buffers'
    BY <1>0, <1>1, <1>3, <2>1, <2>3, <2>4, <2>5 DEF Buffers
  <2> QED BY <2>2, <2>6 DEF DisplayInv
<1> QED BY <1>4, <1>5

\* Which steps touch the display.
LEMMA DisplaySteps ==
  ASSUME [Next]_vars
  PROVE  UNCHANGED rfbVars \/ handle_configure \/ handle_set_address \/ (tick /\ Refresh) \/ OtherThreads
<1>1. CASE Simulated(DisplayStep)
  BY <1>1 DEF Simulated, DisplayStep, FrameStep, Broken
<1>2. CASE Simulated(start /\ UNCHANGED rfbVars) \/ Simulated(ProgramStep /\ UNCHANGED rfbVars)
           \/ Simulated(Type /\ UNCHANGED rfbVars) \/ Simulated(OtherThreads)
  BY <1>2 DEF Simulated
<1>3. CASE jtag_tick \/ accept \/ execute_command \/ Finish \/ Crash \/ handle_sigterm \/ Interrupt
           \/ Elf2hex \/ Sideband \/ UNCHANGED vars
  BY <1>3 DEF jtag_tick, accept, execute_command, Finish, Crash, handle_sigterm, Interrupt, Elf2hex, Sideband,
              Place, vars
<1> QED BY <1>1, <1>2, <1>3 DEF Next

\* The position of the next block, after the last one the first.
LEMMA NextPosition ==
  ASSUME NEW n \in Nat \ {0}, NEW x \in 1 .. n
  PROVE  x % n = IF x = n THEN 0 ELSE x
<1>1. CASE x = n
  <2>1. n = n * 1
    OBVIOUS
  <2> QED BY <1>1, <2>1, OfProduct
<1>2. CASE x # n
  <2>0. /\ x \in Int /\ x % n \in 0 .. n - 1
        /\ x = n * (x \div n) + (x % n) /\ x \div n \in Int
    <3>1. x \in Int
      OBVIOUS
    <3> QED BY <3>1, Remainder
  <2>1. PICK q \in Int : x = n * q + (x % n) /\ x % n \in 0 .. n - 1
    BY ONLY <2>0
  <2>2. q >= 1 => n * q >= n
    OBVIOUS
  <2>3. q <= -1 => n * q <= -n
    OBVIOUS
  <2>4. q = 0
    BY <1>2, <2>1, <2>2, <2>3
  <2> QED BY <1>2, <2>1, <2>4
<1> QED BY <1>1, <1>2

\* One more block of the new frame is copied; after the last one the buffers
\* change places, and the viewer gets the frame if the lock is free.
LEMMA RefreshKeeps ==
  ASSUME LoadInv, FrameInv, Grows, tick, Refresh
  PROVE  DisplayInv'
<1> DEFINE n == fb.blocks
           r == fb.read_pos
<1> USE DEF FbFields, ViewerFields, HostFields, MemFields
<1>0. /\ Handshake /\ Buffers /\ FramesFresh /\ FbFields \subseteq DOMAIN fb /\ ViewerFields \subseteq DOMAIN viewer
      /\ LegalFrames(job) /\ Drawn /\ DOMAIN mem.ram = DOMAIN job.memory
  BY DEF FrameInv, DisplayRecords, LoadInv
<1>1. job' = job /\ mem' = mem /\ host.pc = "tick"
  BY DEF tick
<1>2. CASE ~Draws
  BY <1>1, <1>2, DisplayKept DEF Refresh, Updates, rfbVars
<1>3. CASE Draws
  <2>1. /\ n \in Nat \ {0} /\ r \in 0 .. n - 1 /\ fb.memif /\ fb.pc # "none" /\ Placing /\ Sizing
        /\ fb.fb1 \in [1 .. n -> Int] /\ fb.fb2 \in [1 .. n -> Int] /\ fb.since \in [1 .. n -> Int]
        /\ \A i \in 1 .. n : fb.since[i] = 1 => mem.ram[fb.addr + i - 1] = 1
        /\ \A i \in 1 .. r : fb.fb2[i] # Undrawn /\ (fb.since[i] = 1 => fb.fb2[i] = 1)
    <3>1. fb.pc # "none" /\ fb.memif
      BY <1>0, <1>3 DEF Draws, Buffers
    <3>2. n \in Nat \ {0}
      BY <1>0, <3>1 DEF Buffers, Sizing, LegalFrames, JobWords
    <3> QED BY <1>0, <3>1, <3>2 DEF Buffers
  <2>2. host.pc # "start" /\ host'.pc # "start"
    BY <1>1 DEF Grows
  <2>3. /\ mem.ram \in [DOMAIN job.memory -> Int \ {Undrawn}]
        /\ \A i \in 1 .. n : mem.ram[fb.addr + i - 1] \in Int \ {Undrawn}
    BY <1>0, <2>1, <2>2, FrameInside DEF Drawn
  <2> DEFINE block == mem.ram[fb.addr + r]
             fb2   == [fb.fb2 EXCEPT ![r + 1] = block]
             next  == (r + 1) % n
  <2>4. block \in Int \ {Undrawn} /\ (fb.since[r + 1] = 1 => block = 1) /\ r + 1 \in 1 .. n
    <3>1. r + 1 \in 1 .. n /\ fb.addr + (r + 1) - 1 = fb.addr + r
      BY <2>1 DEF Placing, LegalFrames, JobWords
    <3> QED BY <2>1, <2>3, <3>1
  <2>5. /\ fb2 \in [1 .. n -> Int]
        /\ \A i \in 1 .. r + 1 : fb2[i] # Undrawn /\ (fb.since[i] = 1 => fb2[i] = 1)
    BY <2>1, <2>4
  <2>6. next = IF r + 1 = n THEN 0 ELSE r + 1
    BY <2>1, <2>4, NextPosition
  <2>7. /\ Copied.blocks = n /\ Copied.addr = fb.addr /\ Copied.memif = fb.memif /\ Copied.fb1 = fb.fb1
        /\ Copied.fb2 = fb2 /\ Copied.since = fb.since /\ Copied.lock = fb.lock /\ Copied.pc = fb.pc
        /\ Copied.read_pos = next /\ FbFields \subseteq DOMAIN Copied
    BY <1>0 DEF Copied
  <2> HIDE DEF fb2, next, block
  <2>8. CASE r + 1 # n
    <3>1. fb' = Copied /\ viewer' = viewer
      BY <1>3, <2>1, <2>6, <2>7, <2>8 DEF Refresh, Updates
    <3>2. Handshake' /\ FramesFresh'
      BY <1>0, <2>7, <3>1 DEF Handshake, FramesFresh
    <3>3. Placing' /\ Sizing'
      BY <1>1, <2>1, <2>7, <3>1 DEF Placing, Sizing
    <3>4. /\ fb'.blocks = n /\ fb'.addr = fb.addr /\ fb'.memif = fb.memif /\ fb'.fb1 = fb.fb1 /\ fb'.fb2 = fb2
          /\ fb'.since = fb.since /\ fb'.read_pos = r + 1 /\ fb'.pc = fb.pc
      BY <2>6, <2>7, <2>8, <3>1
    <3>6. r + 1 \in 0 .. n - 1
      <4>1. n \in Nat \ {0} /\ r \in 0 .. n - 1 /\ r + 1 # n
        BY <2>1, <2>8
      <4> HIDE DEF n, r
      <4> QED BY ONLY <4>1
    <3>5. Buffers'
      BY <1>1, <2>1, <2>2, <2>5, <3>3, <3>4, <3>6 DEF Buffers
    <3> QED BY <3>2, <3>5 DEF DisplayInv
  <2>9. CASE r + 1 = n
    <3>1. fb' = Swap(Copied)
      BY <1>3, <2>6, <2>7, <2>9 DEF Refresh
    <3>2. /\ fb'.blocks = n /\ fb'.addr = fb.addr /\ fb'.memif = fb.memif /\ fb'.fb1 = fb2 /\ fb'.fb2 = fb.fb1
          /\ fb'.since = [i \in 1 .. n |-> mem.ram[fb.addr + i - 1]]
          /\ fb'.lock = fb.lock /\ fb'.pc = fb.pc /\ fb'.read_pos = 0
      BY <2>6, <2>7, <2>9, <3>1 DEF Swap, Frame, Bytes
    <3>3. Placing' /\ Sizing'
      BY <1>1, <2>1, <3>2 DEF Placing, Sizing
    <3>4. fb'.since \in [1 .. n -> Int] /\ \A i \in 1 .. n : fb'.since[i] = mem.ram[fb.addr + i - 1]
      BY <2>3, <3>2
    <3>5. Buffers'
      BY <1>1, <2>1, <2>2, <2>5, <3>2, <3>3, <3>4 DEF Buffers
    <3>6. CASE fb.lock # "free"
      <4>1. viewer' = viewer
        BY <3>6 DEF Refresh, Updates, MayUpdate
      <4>2. Handshake' /\ FramesFresh'
        BY <1>0, <3>2, <4>1 DEF Handshake, FramesFresh
      <4> QED BY <3>5, <4>2 DEF DisplayInv
    <3>7. CASE fb.lock = "free" /\ viewer.state = "connected"
      <4>1. viewer' = Shown(fb')
        BY <1>3, <2>6, <2>7, <2>9, <3>7 DEF Refresh, Updates, MayUpdate, fb_update
      <4>2. /\ viewer'.frame = fb2 /\ viewer'.since = fb.since /\ viewer'.state = "connected"
            /\ viewer'.seen = IF Last(viewer.seen) = "update" THEN viewer.seen ELSE Append(viewer.seen, "update")
        BY <1>0, <3>2, <3>7, <4>1 DEF Shown
      <4>3. FramesFresh'
        <5>1. Len(fb2) = n
          BY <2>1, <2>5
        <5> QED BY <2>5, <2>9, <4>2, <5>1 DEF FramesFresh
      <4>4. fb.pc \in {"wait", "read"}
        BY <1>0, <2>1, <3>7 DEF Handshake
      <4> DEFINE three == << "version", "security", "init" >>
                 four  == << "version", "security", "init", "update" >>
      <4>5. viewer'.seen = four
        <5>1. viewer.seen \in {three, four}
          BY <1>0, <4>4 DEF Handshake
        <5>2. Last(three) = "init" /\ Last(four) = "update" /\ Append(three, "update") = four
          BY Greetings DEF Last
        <5> HIDE DEF three, four
        <5> QED BY <4>2, <5>1, <5>2
      <4>6. Handshake'
        <5>1. fb'.pc \in {"wait", "read"} /\ fb'.lock = "free"
          BY <3>2, <3>7, <4>4
        <5>2. viewer'.seen \in {three, four} /\ viewer'.state \in {"connected", "gone", "reset"}
          BY <4>2, <4>5
        <5> QED BY ONLY <5>1, <5>2 DEF Handshake
      <4> QED BY <3>5, <4>3, <4>6 DEF DisplayInv
    <3>8. CASE fb.lock = "free" /\ viewer.state # "connected"
      <4>1. viewer' = viewer \/ (viewer.state = "gone" /\ viewer' = [viewer EXCEPT !.state = "reset"])
        BY <1>3, <2>6, <2>7, <2>9, <3>8 DEF Refresh, Updates, MayUpdate, fb_update
      <4>2. /\ viewer'.frame = viewer.frame /\ viewer'.since = viewer.since /\ viewer'.seen = viewer.seen
            /\ (viewer'.state = viewer.state \/ (viewer.state = "gone" /\ viewer'.state = "reset"))
        BY <1>0, <4>1
      <4>3. FramesFresh'
        BY <1>0, <4>2 DEF FramesFresh
      <4>4. fb'.pc = fb.pc /\ fb'.lock = fb.lock /\ Handshake
        BY <1>0, <3>2
      <4>5. Handshake'
        <5>1. CASE viewer'.state = viewer.state
          BY ONLY <4>2, <4>4, <5>1 DEF Handshake
        <5>2. CASE viewer.state = "gone" /\ viewer'.state = "reset"
          BY ONLY <4>2, <4>4, <5>2 DEF Handshake
        <5> QED BY <4>2, <5>1, <5>2
      <4> QED BY <3>5, <4>3, <4>5 DEF DisplayInv
    <3> QED BY <3>6, <3>7, <3>8
  <2> QED BY <2>8, <2>9
<1> QED BY <1>2, <1>3

LEMMA FrameInit ==
  ASSUME NEW jobs, NEW own, \A j \in jobs : LegalFrames(Configured(j)), Init(jobs, own)
  PROVE  FrameInv
<1>1. PICK j \in jobs : HtifInit(Configured(j), own)
  BY DEF Init
<1>2. LegalFrames(job)
  BY <1>1 DEF HtifInit
<1>3. host.pc = "start" /\ HostFields \subseteq DOMAIN host /\ host.cmd = Zero
  BY <1>1 DEF HtifInit, HostFields
<1>4. mem.tohost = Zero /\ MemFields \subseteq DOMAIN mem
  BY <1>1 DEF HtifInit, MemFields
<1>5. FbFields \subseteq DOMAIN fb /\ ViewerFields \subseteq DOMAIN viewer
  BY DEF Init, RfbInit, NoViewer, FbFields, ViewerFields
<1>6. Commands /\ Drawn
  BY <1>3, <1>4 DEF Commands, FromJob, Zero, Drawn
<1>7. Handshake /\ Buffers /\ FramesFresh
  <2>1. fb.pc = "none" /\ fb.lock = "free" /\ viewer.state = "away" /\ viewer.seen = <<>>
    BY DEF Init, RfbInit, NoViewer
  <2>2. fb.fb1 = <<>> /\ fb.blocks = 0 /\ fb.read_pos = 0 /\ fb.memif = FALSE /\ viewer.frame = <<>>
    BY DEF Init, RfbInit, NoViewer
  <2> QED BY <2>1, <2>2 DEF Handshake, Buffers, FramesFresh
<1> QED BY <1>2, <1>3, <1>4, <1>5, <1>6, <1>7 DEF FrameInv, DisplayRecords

LEMMA RecordsNext ==
  ASSUME DisplayRecords, [Next]_vars
  PROVE  DisplayRecords'
<1> USE DEF DisplayRecords, FbFields, ViewerFields
<1>1. MemFields \subseteq DOMAIN mem' /\ HostFields \subseteq DOMAIN host'
  BY EveryStepPasses DEF HostKeeps
<1>2. FbFields \subseteq DOMAIN fb' /\ ViewerFields \subseteq DOMAIN viewer'
  <2>1. CASE UNCHANGED rfbVars
    BY <2>1 DEF rfbVars
  <2>2. CASE handle_configure
    BY <2>2 DEF handle_configure
  <2>3. CASE handle_set_address
    BY <2>3 DEF handle_set_address
  <2>4. CASE Refresh
    <3>1. DOMAIN fb' = DOMAIN fb
      BY <2>4 DEF Refresh, Copied, Swap
    <3>2. DOMAIN viewer' = DOMAIN viewer
      BY <2>4 DEF Refresh, fb_update, Shown
    <3> QED BY <3>1, <3>2
  <2>5. CASE ThreadStep
    BY <2>5 DEF ThreadStep, Lock, Accept, ReadVersion, ClientInit, WaitMemif, ReadCommand, ReadEnd, Close,
                Thread, Tell, Unlock, NoViewer
  <2>6. CASE ViewerStep
    BY <2>6 DEF ViewerStep, Connect, SendNext, Leave
  <2> QED BY <2>1, <2>2, <2>3, <2>4, <2>5, <2>6, DisplaySteps DEF OtherThreads
<1> QED BY <1>1, <1>2

LEMMA FrameNext ==
  ASSUME LoadInv, FrameInv, [Next]_vars
  PROVE  FrameInv'
<1>1. DisplayRecords /\ LegalFrames(job) /\ Commands
  BY DEF FrameInv
<1>2. HostKeeps
  BY <1>1, EveryStepPasses DEF DisplayRecords
<1>3. Grows /\ Drawn' /\ DisplayRecords' /\ Commands' /\ job' = job
  BY <1>1, <1>2, MemoryGrows, RecordsNext, CommandsNext DEF HostKeeps
<1>4. LegalFrames(job)'
  BY <1>1, <1>3 DEF LegalFrames
<1>5. DisplayInv'
  <2>1. CASE UNCHANGED rfbVars
    BY <1>3, <2>1, DisplayKept
  <2>2. CASE handle_configure
    BY <1>3, <2>2, ConfigureKeeps
  <2>3. CASE handle_set_address
    BY <1>3, <2>3, SetAddressKeeps
  <2>4. CASE tick /\ Refresh
    BY <1>3, <2>4, RefreshKeeps
  <2>5. CASE OtherThreads
    BY <2>5, OtherThreadsKeep
  <2> QED BY <2>1, <2>2, <2>3, <2>4, <2>5, DisplaySteps DEF OtherThreads
<1> QED BY <1>3, <1>4, <1>5 DEF FrameInv, DisplayInv

\* What a viewer gets is in order and up to date: the lock that the host only
\* tries keeps frames out of the handshake, and the two buffers of rfb.cc keep
\* a frame from having anything older than the frame before it.
THEOREM FramesAreRight ==
  ASSUME NEW jobs, NEW own, \A j \in jobs : LegalImage(Configured(j)) /\ LegalFrames(Configured(j))
  PROVE  Init(jobs, own) /\ [][Next]_vars => []FramesRight
<1>1. Init(jobs, own) => LoadInv /\ FrameInv
  BY LoadInit, FrameInit
<1>2. LoadInv /\ FrameInv /\ [Next]_vars => LoadInv' /\ FrameInv'
  BY LoadNext, FrameNext
<1>3. FrameInv => FramesRight
  BY HandshakeShown DEF FrameInv, FramesRight
<1> QED BY <1>1, <1>2, <1>3, PTL

----------------------------------------------------------------------------
\* The JTAG client.

\* The greatest of some natural numbers up to n.
LEMMA MaxUpTo ==
  ASSUME NEW n \in Nat, NEW T, T \subseteq 0 .. n, T # {}
  PROVE  Max(T) \in T /\ \A y \in T : Max(T) >= y
<1> DEFINE mirror == {x \in Nat : x <= n /\ n - x \in T}
<1>1. mirror # {} /\ mirror \in SUBSET Nat
  <2>1. PICK x \in T : TRUE
    OBVIOUS
  <2>2. x \in 0 .. n /\ n - (n - x) = x /\ n - x \in Nat /\ n - x <= n
    BY <2>1
  <2> QED BY <2>2
<1>2. PICK x \in mirror : \A y \in mirror : x <= y
  <2> HIDE DEF mirror
  <2> QED BY <1>1, LeastNat
<1>3. n - x \in T /\ x \in Nat
  BY <1>2
<1>4. ASSUME NEW y \in T PROVE n - x >= y
  <2>1. y \in 0 .. n /\ n - y \in Nat /\ n - (n - y) = y
    OBVIOUS
  <2>2. n - y \in mirror
    BY <2>1
  <2>3. x <= n - y
    <3> HIDE DEF mirror
    <3> QED BY <1>2, <2>2
  <2>4. x \in Int /\ y \in Int
    BY <1>3, <2>1
  <2> QED BY ONLY <2>3, <2>4, n \in Nat
<1>5. \E m \in T : \A y \in T : m >= y
  BY <1>3, <1>4
<1> HIDE DEF mirror
<1> QED BY <1>5 DEF Max

\* The first n commands are the same.
Agree(done, more, n) == \A i \in 1 .. n : more[i] = done[i]

LEMMA LevelAgrees ==
  ASSUME NEW done, NEW more, NEW n \in Nat, Agree(done, more, n), NEW i \in 0 .. n
  PROVE  Level(more, i) = Level(done, i)
<1> DEFINE S == {k \in 1 .. i : done[k].k = "set"}
           T == {k \in 1 .. i : more[k].k = "set"}
<1>1. \A k \in 1 .. i : more[k] = done[k]
  BY DEF Agree
<1>2. S = T
  BY <1>1
<1>3. S # {} => Max(S) \in 1 .. i
  <2>1. i \in Nat /\ S \subseteq 0 .. i /\ S \subseteq 1 .. i
    OBVIOUS
  <2> HIDE DEF S
  <2> QED BY <2>1, MaxUpTo
<1>4. S # {} => more[Max(S)] = done[Max(S)]
  BY <1>1, <1>3
<1>5. Level(done, i) = (IF S = {} THEN 1 ELSE done[Max(S)].tck) /\ Level(more, i) = (IF T = {} THEN 1 ELSE more[Max(T)].tck)
  BY DEF Level
<1> HIDE DEF S, T
<1> QED BY <1>2, <1>4, <1>5

LEMMA EdgesAgree ==
  ASSUME NEW done, NEW more, NEW n \in Nat, Agree(done, more, n), NEW i \in 0 .. n, NEW level
  PROVE  EdgesTo(more, i, level) = EdgesTo(done, i, level)
<1>1. ASSUME NEW k \in 1 .. i
      PROVE  Level(more, k) = Level(done, k) /\ Level(more, k - 1) = Level(done, k - 1)
  <2>1. k \in 0 .. n /\ k - 1 \in 0 .. n
    OBVIOUS
  <2> QED BY <2>1, LevelAgrees
<1> QED BY <1>1 DEF EdgesTo

LEMMA LastTdiAgrees ==
  ASSUME NEW done, NEW more, NEW n \in Nat, Agree(done, more, n), NEW i \in 0 .. n
  PROVE  LastTdi(more, i) = LastTdi(done, i)
<1> DEFINE S == EdgesTo(done, i, 1)
<1>1. EdgesTo(more, i, 1) = S
  BY EdgesAgree
<1>2. S # {} => Max(S) \in 1 .. n
  <2>1. i \in Nat /\ S \subseteq 0 .. i /\ S \subseteq 1 .. n
    BY DEF EdgesTo
  <2> HIDE DEF S
  <2>2. S # {} => Max(S) \in S
    BY <2>1, MaxUpTo
  <2> QED BY <2>1, <2>2
<1>3. S # {} => more[Max(S)] = done[Max(S)]
  BY <1>2 DEF Agree
<1> HIDE DEF S
<1> QED BY <1>1, <1>3 DEF LastTdi, S

LEMMA OutAgrees ==
  ASSUME NEW done, NEW more, NEW n \in Nat, Agree(done, more, n), NEW i \in 0 .. n
  PROVE  Out(more, i) = Out(done, i)
<1> DEFINE S == EdgesTo(done, i, 0) \cup {0}
<1>1. EdgesTo(more, i, 0) \cup {0} = S
  BY EdgesAgree
<1>2. Max(S) \in 0 .. n
  <2>1. i \in Nat /\ S \subseteq 0 .. i /\ S # {}
    BY DEF EdgesTo
  <2> HIDE DEF S
  <2>2. Max(S) \in 0 .. i
    BY <2>1, MaxUpTo
  <2> QED BY <2>2
<1> HIDE DEF S
<1>3. LastTdi(more, Max(S)) = LastTdi(done, Max(S))
  BY <1>2, LastTdiAgrees
<1> QED BY <1>1, <1>3 DEF Out, S

\* What one more command does to the level, to the last bit taken and to the
\* one put out.
MoreLevel(done, c, n) == IF c.k = "set" THEN c.tck ELSE Level(done, n)
Rises(done, c, n) == Level(done, n) # MoreLevel(done, c, n) /\ MoreLevel(done, c, n) = 1
Falls(done, c, n) == Level(done, n) # MoreLevel(done, c, n) /\ MoreLevel(done, c, n) = 0

LEMMA LevelMore ==
  ASSUME NEW done, NEW more, NEW n \in Nat, Agree(done, more, n), NEW c, more[n + 1] = c
  PROVE  Level(more, n + 1) = MoreLevel(done, c, n)
<1> DEFINE S == {k \in 1 .. n : more[k].k = "set"}
           T == {k \in 1 .. n + 1 : more[k].k = "set"}
<1>1. Level(more, n) = Level(done, n)
  <2>1. n \in 0 .. n
    OBVIOUS
  <2> QED BY <2>1, LevelAgrees
<1>2. CASE c.k = "set"
  <2>1. T \subseteq 1 .. n + 1 /\ n + 1 \in T /\ n + 1 \in Nat
    BY <1>2
  <2>2. Level(more, n + 1) = IF T = {} THEN 1 ELSE more[Max(T)].tck
    BY DEF Level
  <2> HIDE DEF T
  <2>3. Max(T) = n + 1
    BY <2>1, LastIsMax
  <2> QED BY <1>2, <2>1, <2>2, <2>3 DEF MoreLevel
<1>3. CASE c.k # "set"
  <2>1. S = T
    BY <1>3
  <2> QED BY <1>1, <1>3, <2>1 DEF Level, MoreLevel
<1> QED BY <1>2, <1>3

LEMMA EdgesMore ==
  ASSUME NEW done, NEW more, NEW n \in Nat, Agree(done, more, n), NEW c, more[n + 1] = c, NEW level
  PROVE  /\ Level(done, n) # MoreLevel(done, c, n) /\ MoreLevel(done, c, n) = level =>
              n + 1 \in EdgesTo(more, n + 1, level)
         /\ ~(Level(done, n) # MoreLevel(done, c, n) /\ MoreLevel(done, c, n) = level) =>
              EdgesTo(more, n + 1, level) = EdgesTo(done, n, level)
<1>1. EdgesTo(more, n, level) = EdgesTo(done, n, level) /\ Level(more, n) = Level(done, n)
  <2>1. n \in 0 .. n
    OBVIOUS
  <2> QED BY <2>1, LevelAgrees, EdgesAgree
<1>2. Level(more, n + 1) = MoreLevel(done, c, n) /\ (n + 1) - 1 = n
  BY LevelMore
<1>3. \A k : k \in 1 .. n + 1 <=> k \in 1 .. n \/ k = n + 1
  OBVIOUS
<1>4. n + 1 \in EdgesTo(more, n + 1, level) <=>
        Level(done, n) # MoreLevel(done, c, n) /\ MoreLevel(done, c, n) = level
  BY <1>1, <1>2 DEF EdgesTo
<1>5. n + 1 \notin EdgesTo(more, n + 1, level) => EdgesTo(more, n + 1, level) = EdgesTo(more, n, level)
  BY <1>3 DEF EdgesTo
<1> QED BY <1>1, <1>4, <1>5

LEMMA LastTdiMore ==
  ASSUME NEW done, NEW more, NEW n \in Nat, Agree(done, more, n), NEW c, more[n + 1] = c
  PROVE  LastTdi(more, n + 1) = IF Rises(done, c, n) THEN c.tdi ELSE LastTdi(done, n)
<1> DEFINE S == EdgesTo(more, n + 1, 1)
<1>1. LastTdi(more, n + 1) = IF S = {} THEN 0 ELSE more[Max(S)].tdi
  BY DEF LastTdi
<1>2. CASE Rises(done, c, n)
  <2>1. n + 1 \in S /\ S \subseteq 1 .. n + 1 /\ n + 1 \in Nat
    BY <1>2, EdgesMore DEF Rises, EdgesTo
  <2> HIDE DEF S
  <2>2. Max(S) = n + 1
    BY <2>1, LastIsMax
  <2> QED BY <1>1, <1>2, <2>1, <2>2
<1>3. CASE ~Rises(done, c, n)
  <2>1. S = EdgesTo(done, n, 1)
    BY <1>3, EdgesMore DEF Rises
  <2>2. n \in 0 .. n /\ EdgesTo(more, n, 1) = EdgesTo(done, n, 1)
    BY EdgesAgree
  <2>3. LastTdi(more, n + 1) = LastTdi(more, n)
    BY <2>1, <2>2 DEF LastTdi
  <2>4. LastTdi(more, n) = LastTdi(done, n)
    BY <2>2, LastTdiAgrees
  <2> QED BY <1>3, <2>3, <2>4
<1> QED BY <1>2, <1>3

LEMMA OutMore ==
  ASSUME NEW done, NEW more, NEW n \in Nat, Agree(done, more, n), NEW c, more[n + 1] = c
  PROVE  Out(more, n + 1) = IF Falls(done, c, n) THEN LastTdi(done, n) ELSE Out(done, n)
<1> DEFINE S == EdgesTo(more, n + 1, 0) \cup {0}
<1>1. Out(more, n + 1) = LastTdi(more, Max(S))
  BY DEF Out
<1>2. CASE Falls(done, c, n)
  <2>1. n + 1 \in S /\ S \subseteq 0 .. n + 1 /\ S # {} /\ n + 1 \in Nat
    BY <1>2, EdgesMore DEF Falls, EdgesTo
  <2> HIDE DEF S
  <2>2. Max(S) \in S /\ Max(S) >= n + 1
    BY <2>1, MaxUpTo
  <2>3. Max(S) = n + 1
    <3>1. \A x \in 0 .. n + 1 : x >= n + 1 => x = n + 1
      OBVIOUS
    <3> QED BY <2>1, <2>2, <3>1
  <2>4. ~Rises(done, c, n)
    BY <1>2 DEF Falls, Rises
  <2> QED BY <1>1, <1>2, <2>3, <2>4, LastTdiMore
<1>3. CASE ~Falls(done, c, n)
  <2>1. S = EdgesTo(done, n, 0) \cup {0}
    BY <1>3, EdgesMore DEF Falls
  <2>2. n \in 0 .. n /\ EdgesTo(more, n, 0) = EdgesTo(done, n, 0)
    BY EdgesAgree
  <2>3. Out(more, n + 1) = Out(more, n)
    BY <2>1, <2>2 DEF Out
  <2>4. Out(more, n) = Out(done, n)
    BY <2>2, OutAgrees
  <2> QED BY <1>3, <2>3, <2>4
<1> QED BY <1>2, <1>3

\* The pins and the TAP are where the commands executed so far have brought
\* them, and TDO is sampled after the last of them had its effect.
Bit == 0 .. 1
JtagRecords ==
  /\ rbb \in [client : BOOLEAN, tck : Bit, tms : Bit, tdi : Bit, tdo : Bit, quit : BOOLEAN]
  /\ remote \in [script : Seq(JtagCommand), done : Seq(JtagCommand), got : Seq(Bit)]
  /\ tap \in [bypass_q : Bit, td_o : Bit] /\ "phase" \in DOMAIN sim
ShiftInv ==
  LET done == remote.done
      n    == Len(done)
  IN  /\ JtagRecords
      /\ rbb.tck = Level(done, n) /\ tap.bypass_q = LastTdi(done, n) /\ tap.td_o = Out(done, n)
      /\ sim.phase = "jtag" /\ rbb.client => rbb.tdo = tap.td_o
      /\ JtagReadsRight

\* Every other step leaves the client's side alone.
LEMMA JtagSteps ==
  ASSUME [Next]_vars, "phase" \in DOMAIN sim
  PROVE  \/ jtag_tick \/ accept \/ execute_command
         \/ UNCHANGED << rbb, remote, tap >> /\ "phase" \in DOMAIN sim' /\ (sim'.phase = "jtag" => sim.phase = "jtag")
<1> DEFINE Kept == UNCHANGED << rbb, remote, tap >> /\ "phase" \in DOMAIN sim'
                     /\ (sim'.phase = "jtag" => sim.phase = "jtag")
<1>1. ASSUME Simulated(start /\ UNCHANGED rfbVars) \/ Simulated(DisplayStep)
           \/ Simulated(ProgramStep /\ UNCHANGED rfbVars) \/ Simulated(Type /\ UNCHANGED rfbVars)
           \/ Simulated(OtherThreads)
      PROVE Kept
  BY <1>1 DEF Simulated
<1>2. ASSUME Finish \/ Crash \/ Elf2hex \/ Sideband PROVE Kept
  <2>1. CASE Finish
    BY <2>1 DEF Finish
  <2>2. CASE Crash
    BY <2>2 DEF Crash
  <2>3. CASE Elf2hex \/ Sideband
    BY <2>3 DEF Elf2hex, Sideband, Place
  <2> QED BY <1>2, <2>1, <2>2, <2>3
<1>3. ASSUME handle_sigterm PROVE Kept
  <2>1. sim' = [sim EXCEPT !.terminated = TRUE] /\ UNCHANGED << rbb, remote, tap >>
    BY <1>3 DEF handle_sigterm
  <2>2. DOMAIN sim' = DOMAIN sim /\ sim'.phase = sim.phase
    BY <2>1
  <2> QED BY <2>1, <2>2
<1>4. ASSUME Interrupt PROVE Kept
  <2>1. UNCHANGED << rbb, remote, tap >> /\ (sim' = sim \/ sim' = [sim EXCEPT !.phase = "over", !.status = StatusMod - 1])
    BY <1>4 DEF Interrupt
  <2>2. CASE sim' = sim
    BY <2>1, <2>2
  <2>3. CASE sim' = [sim EXCEPT !.phase = "over", !.status = StatusMod - 1]
    BY <2>1, <2>3
  <2> QED BY <2>1, <2>2, <2>3
<1>5. ASSUME UNCHANGED vars PROVE Kept
  BY <1>5 DEF vars
<1> QED BY <1>1, <1>2, <1>3, <1>4, <1>5 DEF Next

AskedAre(done, more, n, c) ==
  LET m == Cardinality(Asked(done, n))
  IN  /\ \A i \in 0 .. n : Asked(more, i) = Asked(done, i)
      /\ Asked(more, n + 1) = IF c.k = "R" THEN Asked(done, n) \cup {n + 1} ELSE Asked(done, n)
      /\ m \in Nat /\ Cardinality(Asked(done, n) \cup {n + 1}) = m + 1
      /\ \A i \in 1 .. n : Cardinality(Asked(done, i)) <= m
LEMMA AskedMore ==
  ASSUME NEW done, NEW more, NEW n \in Nat, Agree(done, more, n), NEW c, more[n + 1] = c
  PROVE  AskedAre(done, more, n, c)
<1>1. ASSUME NEW i \in 0 .. n PROVE Asked(more, i) = Asked(done, i)
  BY DEF Asked, Agree
<1>2. Asked(more, n + 1) = IF c.k = "R" THEN Asked(done, n) \cup {n + 1} ELSE Asked(done, n)
  BY DEF Asked, Agree
<1>3. IsFiniteSet(Asked(done, n)) /\ n + 1 \notin Asked(done, n)
  <2>1. IsFiniteSet(1 .. n) /\ Asked(done, n) \subseteq 1 .. n
    BY FS_Interval DEF Asked
  <2> QED BY <2>1, FS_Subset DEF Asked
<1>4. ASSUME NEW i \in 1 .. n PROVE Cardinality(Asked(done, i)) <= Cardinality(Asked(done, n))
  <2>1. Asked(done, i) \subseteq Asked(done, n)
    BY DEF Asked
  <2> QED BY <1>3, <2>1, FS_Subset
<1>5. Cardinality(Asked(done, n)) \in Nat
  BY <1>3, FS_CardinalityType
<1>6. Cardinality(Asked(done, n) \cup {n + 1}) = Cardinality(Asked(done, n)) + 1
  BY <1>3, FS_AddElement
<1> QED BY <1>1, <1>2, <1>4, <1>5, <1>6 DEF AskedAre

LEMMA ShiftInit ==
  ASSUME NEW jobs, NEW own, \A j \in jobs : LegalScript(Configured(j)), Init(jobs, own)
  PROVE  ShiftInv
<1>1. PICK j \in jobs : HtifInit(Configured(j), own)
  BY DEF Init
<1>2. job.script \in Seq(JtagCommand)
  BY <1>1 DEF HtifInit, LegalScript
<1>3. /\ rbb = [client |-> FALSE, tck |-> 1, tms |-> 1, tdi |-> 1, tdo |-> 0, quit |-> FALSE]
      /\ remote = [script |-> job.script, done |-> <<>>, got |-> <<>>]
      /\ tap = [bypass_q |-> 0, td_o |-> 0] /\ "phase" \in DOMAIN sim /\ sim.phase # "jtag"
  BY DEF Init
<1>4. JtagRecords
  BY <1>2, <1>3 DEF JtagRecords, Bit
<1>5. \A d, level : EdgesTo(d, 0, level) = {} /\ Asked(d, 0) = {}
  BY DEF EdgesTo, Asked
<1>6. Level(<<>>, 0) = 1 /\ LastTdi(<<>>, 0) = 0
  BY <1>5 DEF Level, LastTdi
<1>7. Out(<<>>, 0) = 0
  <2>1. Max({0}) = 0
    <3>1. 0 \in Nat /\ {0} \subseteq 0 .. 0 /\ {0} # {}
      OBVIOUS
    <3>2. Max({0}) \in {0}
      BY <3>1, MaxUpTo
    <3> QED BY <3>2
  <2>2. EdgesTo(<<>>, 0, 0) \cup {0} = {0}
    BY <1>5
  <2> QED BY <1>6, <2>1, <2>2 DEF Out
<1>8. JtagReadsRight
  BY <1>3, <1>5, FS_EmptySet DEF JtagReadsRight
<1> QED BY <1>3, <1>4, <1>6, <1>7, <1>8 DEF ShiftInv

LEMMA CommandExecuted ==
  ASSUME ShiftInv, execute_command
  PROVE  ShiftInv'
<1> DEFINE done == remote.done
           n    == Len(done)
           c    == Head(remote.script)
<1>0. /\ JtagRecords /\ rbb.tck = Level(done, n) /\ tap.bypass_q = LastTdi(done, n) /\ tap.td_o = Out(done, n)
      /\ rbb.tdo = tap.td_o /\ JtagReadsRight
  BY DEF ShiftInv, execute_command
<1>1. c \in JtagCommand /\ Tail(remote.script) \in Seq(JtagCommand) /\ done \in Seq(JtagCommand)
  <2>1. remote.script \in Seq(JtagCommand) /\ remote.script # <<>> /\ done \in Seq(JtagCommand)
    BY <1>0 DEF JtagRecords, execute_command
  <2> QED BY <2>1, HeadTailProperties
<1>2. /\ rbb' = [Pins(rbb, c) EXCEPT !.quit = c.k = "Q", !.client = c.k # "Q"]
      /\ remote'.script = Tail(remote.script) /\ remote'.done = Append(done, c)
      /\ remote'.got = IF c.k = "R" THEN Append(remote.got, rbb.tdo) ELSE remote.got
      /\ remote' \in [script : {Tail(remote.script)}, done : {Append(done, c)}, got : {remote'.got}]
      /\ tap' = Shift(tap, rbb, rbb') /\ sim' = [sim EXCEPT !.phase = "run"]
  BY DEF execute_command, Sampled
<1>3. c.k \in {"R", "Q", "B", "set"} /\ (c.k = "set" => {c.tck, c.tms, c.tdi} \subseteq Bit)
  BY <1>1 DEF JtagCommand, Bit
<1>4. /\ rbb'.tck = MoreLevel(done, c, n) /\ rbb'.tck \in Bit
      /\ c.k = "set" => rbb'.tdi = c.tdi
      /\ rbb' \in [client : BOOLEAN, tck : Bit, tms : Bit, tdi : Bit, tdo : Bit, quit : BOOLEAN]
  <2>1. Pins(rbb, c) \in [client : BOOLEAN, tck : Bit, tms : Bit, tdi : Bit, tdo : Bit, quit : BOOLEAN]
    BY <1>0, <1>3 DEF JtagRecords, Pins
  <2>2. Pins(rbb, c).tck = MoreLevel(done, c, n) /\ (c.k = "set" => Pins(rbb, c).tdi = c.tdi)
    BY <1>0 DEF JtagRecords, Pins, MoreLevel
  <2>3. /\ rbb' \in [client : BOOLEAN, tck : Bit, tms : Bit, tdi : Bit, tdo : Bit, quit : BOOLEAN]
        /\ rbb'.tck = Pins(rbb, c).tck /\ rbb'.tdi = Pins(rbb, c).tdi
    BY <1>2, <2>1
  <2> QED BY <2>2, <2>3
<1> DEFINE more == Append(done, c)
<1>5. n \in Nat /\ Len(more) = n + 1 /\ more[n + 1] = c /\ more \in Seq(JtagCommand) /\ Agree(done, more, n)
  BY <1>1, AppendProperties DEF Agree
<1> HIDE DEF more
<1>6. Level(more, n + 1) = MoreLevel(done, c, n)
  BY <1>5, LevelMore
<1>7. /\ tap'.bypass_q = (IF Rises(done, c, n) THEN c.tdi ELSE LastTdi(done, n))
      /\ tap'.td_o = (IF Falls(done, c, n) THEN LastTdi(done, n) ELSE Out(done, n))
      /\ tap' \in [bypass_q : Bit, td_o : Bit]
  <2>1. rbb.tck \in Bit /\ rbb'.tck \in Bit /\ tap \in [bypass_q : Bit, td_o : Bit] /\ rbb'.tdi \in Bit
    BY <1>0, <1>4 DEF JtagRecords
  <2>2. CASE Rises(done, c, n)
    <3>1. rbb.tck = 0 /\ rbb'.tck = 1 /\ ~Falls(done, c, n)
      BY <1>0, <1>4, <2>1, <2>2 DEF Rises, Falls, Bit
    <3>2. c.k = "set"
      BY <2>2 DEF Rises, MoreLevel
    <3>3. tap' = [tap EXCEPT !.bypass_q = rbb'.tdi]
      BY <1>2, <3>1 DEF Shift
    <3> QED BY <1>0, <1>4, <2>1, <2>2, <3>1, <3>2, <3>3
  <2>3. CASE Falls(done, c, n)
    <3>1. rbb.tck = 1 /\ rbb'.tck = 0 /\ ~Rises(done, c, n)
      BY <1>0, <1>4, <2>1, <2>3 DEF Rises, Falls, Bit
    <3>3. tap' = [tap EXCEPT !.td_o = tap.bypass_q]
      BY <1>2, <3>1 DEF Shift
    <3> QED BY <1>0, <2>1, <2>3, <3>1, <3>3
  <2>4. CASE ~Rises(done, c, n) /\ ~Falls(done, c, n)
    <3>1. rbb.tck = rbb'.tck
      BY <1>0, <1>4, <2>1, <2>4 DEF Rises, Falls, Bit
    <3>2. ~(rbb.tck < rbb'.tck) /\ ~(rbb.tck > rbb'.tck)
      BY <2>1, <3>1 DEF Bit
    <3>3. tap' = tap
      BY <1>2, <3>2 DEF Shift
    <3> QED BY <1>0, <2>1, <2>4, <3>3
  <2> QED BY <2>2, <2>3, <2>4
<1>8. tap'.bypass_q = LastTdi(more, n + 1) /\ tap'.td_o = Out(more, n + 1)
  BY <1>5, <1>7, LastTdiMore, OutMore
<1>9. remote.got \in Seq(Bit) /\ rbb.tdo \in Bit /\ remote'.done = more
  BY <1>0, <1>2 DEF JtagRecords, more
<1>10. remote'.got \in Seq(Bit)
  BY <1>2, <1>9, AppendProperties
<1>11. JtagRecords'
  <2>1. remote' \in [script : Seq(JtagCommand), done : Seq(JtagCommand), got : Seq(Bit)]
    BY <1>1, <1>2, <1>5, <1>9, <1>10
  <2>2. "phase" \in DOMAIN sim'
    BY <1>0, <1>2 DEF JtagRecords
  <2> QED BY <1>4, <1>7, <2>1, <2>2 DEF JtagRecords
<1> DEFINE m == Cardinality(Asked(done, n))
<1>12. /\ \A i \in 0 .. n : Asked(more, i) = Asked(done, i)
       /\ Asked(more, n + 1) = IF c.k = "R" THEN Asked(done, n) \cup {n + 1} ELSE Asked(done, n)
       /\ m \in Nat /\ Cardinality(Asked(done, n) \cup {n + 1}) = m + 1
       /\ \A i \in 1 .. n : Cardinality(Asked(done, i)) <= m
  <2>1. AskedAre(done, more, n, c)
    BY <1>5, AskedMore
  <2> QED BY <2>1 DEF AskedAre
<1>13. Len(remote.got) = m /\ \A i \in Asked(done, n) : remote.got[Cardinality(Asked(done, i))] = Out(done, i)
  BY <1>0 DEF JtagReadsRight
<1>14. /\ Len(remote'.got) = Cardinality(Asked(more, n + 1))
       /\ \A i \in Asked(more, n + 1) : remote'.got[Cardinality(Asked(more, i))] = Out(more, i)
  <2>1. \A i \in Asked(done, n) : i \in 1 .. n
    BY DEF Asked
  <2>2. ASSUME NEW i \in Asked(done, n)
        PROVE  Out(more, i) = Out(done, i) /\ Asked(more, i) = Asked(done, i)
    <3>1. i \in 0 .. n
      BY <2>1
    <3> QED BY <1>5, <1>12, <3>1, OutAgrees
  <2>3. CASE c.k # "R"
    BY <1>2, <1>12, <1>13, <2>2, <2>3
  <2>4. CASE c.k = "R"
    <3>1. remote'.got = Append(remote.got, rbb.tdo)
      BY <1>2, <2>4
    <3>2. /\ Len(remote'.got) = m + 1 /\ remote'.got[m + 1] = rbb.tdo
          /\ \A k \in 1 .. m : remote'.got[k] = remote.got[k]
      BY <1>9, <1>13, <3>1, AppendProperties
    <3>3. ASSUME NEW i \in Asked(done, n) PROVE Cardinality(Asked(done, i)) \in 1 .. m
      <4>1. i \in 1 .. n /\ i \in Asked(done, i) /\ Asked(done, i) \subseteq 1 .. i
        BY DEF Asked
      <4>2. IsFiniteSet(Asked(done, i))
        <5>1. IsFiniteSet(1 .. i)
          BY <4>1, FS_Interval
        <5> QED BY <4>1, <5>1, FS_Subset
      <4>3. Cardinality(Asked(done, i)) \in Nat /\ Cardinality(Asked(done, i)) # 0
        BY <4>1, <4>2, FS_CardinalityType, FS_EmptySet
      <4> QED BY <1>12, <4>1, <4>3
    <3>4. Asked(more, n + 1) = Asked(done, n) \cup {n + 1} /\ Cardinality(Asked(more, n + 1)) = m + 1
      BY <1>12, <2>4
    <3>5. Out(more, n + 1) = rbb.tdo
      <4>1. ~Falls(done, c, n)
        BY <2>4 DEF Falls, MoreLevel
      <4> QED BY <1>0, <1>7, <1>8, <4>1
    <3>6. \A i \in Asked(done, n) : remote'.got[Cardinality(Asked(more, i))] = Out(more, i)
      BY <1>13, <2>2, <3>2, <3>3
    <3> QED BY <3>2, <3>4, <3>5, <3>6
  <2> QED BY <2>3, <2>4
<1>15. JtagReadsRight'
  BY <1>5, <1>9, <1>14 DEF JtagReadsRight
<1>16. sim'.phase # "jtag"
  BY <1>0, <1>2 DEF JtagRecords
<1> QED BY <1>4, <1>5, <1>6, <1>8, <1>9, <1>11, <1>15, <1>16 DEF ShiftInv

LEMMA ShiftNext ==
  ASSUME ShiftInv, [Next]_vars
  PROVE  ShiftInv'
<1>0. JtagRecords
  BY DEF ShiftInv
<1>1. CASE jtag_tick
  <2>1. /\ remote' = remote /\ tap' = tap /\ rbb' = [rbb EXCEPT !.tdo = IF rbb.client THEN tap.td_o ELSE @]
        /\ sim' = [sim EXCEPT !.phase = "jtag"]
    BY <1>1 DEF jtag_tick
  <2>2. JtagRecords' /\ rbb'.tck = rbb.tck /\ rbb'.client = rbb.client /\ (rbb.client => rbb'.tdo = tap.td_o)
    BY <1>0, <2>1 DEF JtagRecords
  <2> QED BY <2>1, <2>2 DEF ShiftInv, JtagReadsRight
<1>2. CASE accept
  <2>1. /\ remote' = remote /\ tap' = tap /\ rbb' = [rbb EXCEPT !.client = TRUE]
        /\ sim' = [sim EXCEPT !.phase = "run"]
    BY <1>2 DEF accept
  <2>2. JtagRecords' /\ rbb'.tck = rbb.tck /\ sim'.phase = "run"
    BY <1>0, <2>1 DEF JtagRecords
  <2> QED BY <2>1, <2>2 DEF ShiftInv, JtagReadsRight
<1>3. CASE execute_command
  BY <1>3, CommandExecuted
<1>4. CASE UNCHANGED << rbb, remote, tap >> /\ "phase" \in DOMAIN sim' /\ (sim'.phase = "jtag" => sim.phase = "jtag")
  BY <1>4 DEF ShiftInv, JtagRecords, JtagReadsRight
<1> QED BY <1>0, <1>1, <1>2, <1>3, <1>4, JtagSteps DEF JtagRecords

\* A client reads what its own earlier commands have shifted out: the server
\* samples TDO when it is called, before it executes the next command.
THEOREM JtagReadsAreRight ==
  ASSUME NEW jobs, NEW own, \A j \in jobs : LegalScript(Configured(j))
  PROVE  Init(jobs, own) /\ [][Next]_vars => []JtagReadsRight
<1>1. Init(jobs, own) => ShiftInv
  BY ShiftInit
<1>2. ShiftInv /\ [Next]_vars => ShiftInv'
  BY ShiftNext
<1>3. ShiftInv => JtagReadsRight
  BY DEF ShiftInv
<1> QED BY <1>1, <1>2, <1>3, PTL

----------------------------------------------------------------------------
\* What a read of any length at any address gives.
BytesIn(D, m, a, n) == m \in [D -> Int] /\ a \in Int /\ n \in Nat /\ a .. a + n - 1 \subseteq D
\* b is what m holds in the n places from a.
Lists(b, m, a, n) == b \in Seq(Int) /\ Len(b) = n /\ \A i \in 1 .. n : b[i] = m[a + i - 1]
LEMMA BytesType ==
  ASSUME NEW D, NEW m, NEW a, NEW n, BytesIn(D, m, a, n)
  PROVE  Lists(Bytes(m, a, n), m, a, n)
<1>0. m \in [D -> Int] /\ a \in Int /\ n \in Nat /\ a .. a + n - 1 \subseteq D
  BY DEF BytesIn
<1>1. \A i \in 1 .. n : m[a + i - 1] \in Int
  <2> TAKE i \in 1 .. n
  <2>1. a + i - 1 \in a .. a + n - 1
    BY <1>0
  <2> QED BY <1>0, <2>1
<1> QED BY <1>0, <1>1 DEF Bytes, Lists

\* A part of a unit.
PartOf(c, D, m, a, x) ==
  /\ m \in [D -> Int] /\ a \in Nat /\ x \in Nat /\ InUnit(c, a, x) /\ c.align \in Nat \ {0}
  /\ Down(c, a) .. Down(c, a) + c.align - 1 \subseteq D
LEMMA PartIs ==
  ASSUME NEW c, NEW D, NEW m, NEW a, NEW x, PartOf(c, D, m, a, x)
  PROVE  SubSeq(Bytes(m, Down(c, a), c.align), (a % c.align) + 1, (a % c.align) + x) = Bytes(m, a, x)
<1>1. PICK w \in Nat \ {0} : w = c.align
  BY DEF PartOf
<1>2. PICK r \in 0 .. w - 1 : r = a % w /\ r + x <= w
  <2>1. a \in Int /\ InUnit(c, a, x)
    BY DEF PartOf
  <2>2. a % w \in 0 .. w - 1
    BY <2>1, Remainder
  <2> QED BY <1>1, <2>1, <2>2 DEF InUnit
<1>3. PICK d \in Int : d = Down(c, a) /\ d + r = a
  BY <1>1, <1>2 DEF Down, PartOf
<1>4. m \in [D -> Int] /\ x \in Nat /\ a \in Int /\ d .. d + w - 1 \subseteq D
  BY <1>1, <1>3 DEF PartOf
<1>5. a .. a + x - 1 \subseteq D
  <2>1. \A b \in a .. a + x - 1 : b \in d .. d + w - 1
    BY <1>2, <1>3, <1>4
  <2> QED BY <1>4, <2>1
<1> DEFINE u == Bytes(m, d, w)
           v == Bytes(m, a, x)
<1>6. u \in Seq(Int) /\ Len(u) = w /\ \A i \in 1 .. w : u[i] = m[d + i - 1]
  <2>1. BytesIn(D, m, d, w)
    BY <1>1, <1>3, <1>4 DEF BytesIn
  <2>2. Lists(u, m, d, w)
    BY <2>1, BytesType
  <2> QED BY <2>2 DEF Lists
<1>7. v \in Seq(Int) /\ Len(v) = x /\ \A i \in 1 .. x : v[i] = m[a + i - 1]
  <2>1. BytesIn(D, m, a, x)
    BY <1>4, <1>5 DEF BytesIn
  <2>2. Lists(v, m, a, x)
    BY <2>1, BytesType
  <2> QED BY <2>2 DEF Lists
<1> HIDE DEF u, v
<1> DEFINE s == SubSeq(u, r + 1, r + x)
<1>8. s \in Seq(Int) /\ Len(s) = x /\ \A i \in 1 .. x : s[i] = u[r + i]
  <2>1. PICK hi \in r .. Len(u) : hi = r + x /\ hi - r = x
    <3>1. r + x \in Int /\ r <= r + x /\ r + x <= w /\ (r + x) - r = x
      BY <1>2, <1>4
    <3>2. r + x \in r .. Len(u)
      BY <1>6, <3>1
    <3> QED BY <3>1, <3>2
  <2>2. r \in 0 .. Len(u) /\ u \in Seq(Int)
    BY <1>2, <1>6
  <2>3. SubSeq(u, r + 1, hi) \in Seq(Int) /\ Len(SubSeq(u, r + 1, hi)) = hi - r
        /\ \A i \in 1 .. hi - r : SubSeq(u, r + 1, hi)[i] = u[r + i]
    BY <2>2, SubSeqIs
  <2> QED BY <2>1, <2>3
<1> HIDE DEF s
<1>9. ASSUME NEW i \in 1 .. x PROVE s[i] = v[i]
  <2>1. r + i \in 1 .. w /\ d + (r + i) - 1 = a + i - 1
    BY <1>2, <1>3, <1>4
  <2>2. u[r + i] = m[d + (r + i) - 1]
    BY <1>6, <2>1
  <2> QED BY <1>7, <1>8, <2>1, <2>2
<1>10. s = v
  <2>1. Len(s) = Len(v) /\ \A i \in 1 .. Len(s) : s[i] = v[i]
    BY <1>7, <1>8, <1>9
  <2> QED BY <1>7, <1>8, <2>1, SeqEqual
<1> QED BY <1>1, <1>2, <1>3, <1>10 DEF s, u, v

Joined(D, m, a, x, y) ==
  m \in [D -> Int] /\ a \in Int /\ x \in Nat /\ y \in Nat /\ a .. a + x + y - 1 \subseteq D
LEMMA BytesJoin ==
  ASSUME NEW D, NEW m, NEW a, NEW x, NEW y, Joined(D, m, a, x, y)
  PROVE  Bytes(m, a, x) \o Bytes(m, a + x, y) = Bytes(m, a, x + y)
<1>0. m \in [D -> Int] /\ a \in Int /\ x \in Nat /\ y \in Nat /\ a .. a + x + y - 1 \subseteq D
  BY DEF Joined
<1>1. a .. a + x - 1 \subseteq D /\ a + x .. a + x + y - 1 \subseteq D /\ a .. a + (x + y) - 1 \subseteq D
  <2>1. \A b \in a .. a + x - 1 : b \in a .. a + x + y - 1
    BY <1>0
  <2>2. \A b \in a + x .. a + x + y - 1 : b \in a .. a + x + y - 1
    BY <1>0
  <2>3. a + (x + y) - 1 = a + x + y - 1
    BY <1>0
  <2> QED BY <1>0, <2>1, <2>2, <2>3
<1> DEFINE s == Bytes(m, a, x)
           t == Bytes(m, a + x, y)
           u == Bytes(m, a, x + y)
<1>2. s \in Seq(Int) /\ Len(s) = x /\ \A i \in 1 .. x : s[i] = m[a + i - 1]
  <2>1. BytesIn(D, m, a, x)
    BY <1>0, <1>1 DEF BytesIn
  <2>2. Lists(s, m, a, x)
    BY <2>1, BytesType
  <2> QED BY <2>2 DEF Lists
<1>3. t \in Seq(Int) /\ Len(t) = y /\ \A i \in 1 .. y : t[i] = m[(a + x) + i - 1]
  <2>1. BytesIn(D, m, a + x, y)
    BY <1>0, <1>1 DEF BytesIn
  <2>2. Lists(t, m, a + x, y)
    BY <2>1, BytesType
  <2> QED BY <2>2 DEF Lists
<1>4. u \in Seq(Int) /\ Len(u) = x + y /\ \A i \in 1 .. x + y : u[i] = m[a + i - 1]
  <2>1. BytesIn(D, m, a, x + y)
    BY <1>0, <1>1 DEF BytesIn
  <2>2. Lists(u, m, a, x + y)
    BY <2>1, BytesType
  <2> QED BY <2>2 DEF Lists
<1> HIDE DEF s, t, u
<1> DEFINE v == s \o t
<1>5. v \in Seq(Int) /\ Len(v) = x + y /\ \A i \in 1 .. x + y : v[i] = IF i <= x THEN s[i] ELSE t[i - x]
  <2>1. /\ v \in Seq(Int) /\ Len(v) = Len(s) + Len(t)
        /\ \A i \in 1 .. Len(s) + Len(t) : v[i] = IF i <= Len(s) THEN s[i] ELSE t[i - Len(s)]
    BY <1>2, <1>3, ConcatProperties
  <2> QED BY <1>2, <1>3, <2>1
<1> HIDE DEF v
<1>6. ASSUME NEW i \in 1 .. x + y PROVE v[i] = u[i]
  <2>1. CASE i <= x
    BY <1>0, <1>2, <1>4, <1>5, <2>1
  <2>2. CASE ~(i <= x)
    <3>1. i - x \in 1 .. y /\ (a + x) + (i - x) - 1 = a + i - 1
      BY <1>0, <2>2
    <3>2. t[i - x] = m[(a + x) + (i - x) - 1]
      BY <1>3, <3>1
    <3> QED BY <1>4, <1>5, <2>2, <3>1, <3>2
  <2> QED BY <2>1, <2>2
<1>7. v = u
  <2>1. Len(v) = Len(u) /\ \A i \in 1 .. Len(v) : v[i] = u[i]
    BY <1>4, <1>5, <1>6
  <2> QED BY <1>4, <1>5, <2>1, SeqEqual
<1> QED BY <1>7 DEF s, t, u, v

InMemory(c, S, D, m, a, n) ==
  /\ Chunked(c) /\ Whole(c, S) /\ S \in Nat /\ D = 0 .. S - 1 /\ m \in [D -> Int]
  /\ a \in Nat /\ n \in Nat /\ a + n <= S
LEMMA ReadIs ==
  ASSUME NEW c, NEW S, NEW D, NEW m, NEW a, NEW n, InMemory(c, S, D, m, a, n)
  PROVE  read(c, m, a, n) = Bytes(m, a, n)
<1> DEFINE f == First(c, a, n)
           l == Last_(c, a, n)
           first == SubSeq(read_chunk(c, m, Down(c, a), c.align), (a % c.align) + 1, (a % c.align) + f)
           last  == SubSeq(read_chunk(c, m, a + n - l, c.align), 1, l)
           mid   == Bytes(m, a + f, n - f - l)
<1>0. /\ Chunked(c) /\ Whole(c, S) /\ S \in Nat /\ D = 0 .. S - 1 /\ m \in [D -> Int]
      /\ a \in Nat /\ n \in Nat /\ a + n <= S /\ Addresses(D, S)
  BY DEF InMemory, Addresses
<1>01. PICK w \in Nat \ {0} : w = c.align
  BY <1>0 DEF Chunked
<1>1. /\ f \in 0 .. n /\ l \in 0 .. n - f /\ InUnit(c, a, f)
      /\ l # 0 => InUnit(c, a + (n - l), l) /\ Whole(c, a + (n - l))
  BY <1>0, EdgeFacts
<1>2. read(c, m, a, n) = (IF f = 0 THEN <<>> ELSE first) \o mid \o (IF l = 0 THEN <<>> ELSE last)
  BY DEF read
<1>3. f # 0 => first = Bytes(m, a, f)
  <2> SUFFICES ASSUME f # 0 PROVE first = Bytes(m, a, f)
    OBVIOUS
  <2>1. a < S /\ f \in Nat
    BY <1>0, <1>1
  <2>2. Down(c, a) .. Down(c, a) + c.align - 1 \subseteq D
    BY <1>0, <2>1, UnitIn
  <2>3. PartOf(c, D, m, a, f)
    BY <1>0, <1>1, <2>1, <2>2 DEF PartOf, Chunked
  <2> HIDE DEF f
  <2> QED BY <2>3, PartIs DEF read_chunk
<1>4. l # 0 => last = Bytes(m, a + n - l, l)
  <2> SUFFICES ASSUME l # 0 PROVE last = Bytes(m, a + n - l, l)
    OBVIOUS
  <2>1. PICK b \in Nat : b = a + n - l /\ b = a + (n - l) /\ b < S
    BY <1>0, <1>1
  <2>2. InUnit(c, b, l) /\ b % w = 0 /\ l \in Nat
    BY <1>01, <1>1, <2>1 DEF Whole
  <2>3. Down(c, b) = b
    BY <1>01, <2>2 DEF Down
  <2>4. Down(c, b) .. Down(c, b) + c.align - 1 \subseteq D
    BY <1>0, <2>1, UnitIn
  <2>5. PartOf(c, D, m, b, l)
    BY <1>0, <2>1, <2>2, <2>4 DEF PartOf, Chunked
  <2> HIDE DEF l
  <2>6. SubSeq(Bytes(m, b, c.align), 0 + 1, 0 + l) = Bytes(m, b, l)
    <3>1. SubSeq(Bytes(m, Down(c, b), c.align), (b % c.align) + 1, (b % c.align) + l) = Bytes(m, b, l)
      BY <2>5, PartIs
    <3>2. b % c.align = 0
      BY <1>01, <2>2
    <3> QED BY <2>3, <3>1, <3>2
  <2>7. 0 + 1 = 1 /\ 0 + l = l
    BY <2>2
  <2> QED BY <2>1, <2>6, <2>7 DEF read_chunk
<1>5. (IF f = 0 THEN <<>> ELSE first) = Bytes(m, a, f) /\ (IF l = 0 THEN <<>> ELSE last) = Bytes(m, a + n - l, l)
  BY <1>3, <1>4 DEF Bytes
<1>6. PICK x \in Nat, y \in Nat, z \in Nat : x = f /\ y = n - f - l /\ z = l /\ n = x + y + z
  BY <1>0, <1>1
<1>61. a + x + y <= S /\ a + (x + y) + z <= S
  <2> HIDE DEF f, l
  <2> QED BY <1>0, <1>6
<1>7. Bytes(m, a, x) \o Bytes(m, a + x, y) = Bytes(m, a, x + y)
  <2>1. Joined(D, m, a, x, y)
    <3> HIDE DEF f, l
    <3>1. a .. a + x + y - 1 \subseteq 0 .. S - 1
      BY <1>0, <1>6, <1>61
    <3> QED BY <1>0, <1>6, <3>1 DEF Joined
  <2> QED BY <2>1, BytesJoin
<1>8. Bytes(m, a, x + y) \o Bytes(m, a + (x + y), z) = Bytes(m, a, (x + y) + z)
  <2>1. Joined(D, m, a, x + y, z)
    <3> HIDE DEF f, l
    <3>1. a .. a + (x + y) + z - 1 \subseteq 0 .. S - 1
      BY <1>0, <1>6, <1>61
    <3>2. x + y \in Nat /\ z \in Nat /\ a \in Int
      BY <1>0, <1>6
    <3> QED BY <1>0, <3>1, <3>2 DEF Joined
  <2> QED BY <2>1, BytesJoin
<1>9. a + (x + y) = a + n - l /\ (x + y) + z = n
  BY <1>0, <1>6
<1> HIDE DEF f, l, first, last
<1> QED BY <1>2, <1>5, <1>6, <1>7, <1>8, <1>9

----------------------------------------------------------------------------
\* The end of the program and of the simulation.

\* The words of the program: those of the job, its calls, and its end.
ProgramWord(w) ==
  \/ w = Zero
  \/ w \in job.words
  \/ w = Word(0, 0, MM) /\ mem.call \in job.calls
  \/ prog.ended \in Nat /\ w = Word(0, 0, 2 * prog.ended + 1)

\* The exit code of the host is that with which the program has ended.
Exits ==
  /\ ProgramWord(mem.tohost) /\ ProgramWord(host.cmd)
  /\ prog.ended \in {Running} \cup Nat
  /\ mem.call = NoCall \/ mem.call \in job.calls
  /\ mem.call.n = "exit" => prog.ended \in Nat /\ prog.ended = mem.call.code
  /\ host.exitcode \in 0 .. IntMod - 1
  /\ host.exitcode # 0 => prog.ended \in Nat /\ host.exitcode = AsInt(2 * prog.ended + 1)
  /\ host.pc \in {"clear", "handle"} => host.cmd # Zero
  /\ host.pc \in {"stop", "done"} => host.exitcode # 0 \/ host.signal_exit

\* The host has left its loop when it is stopped, unless SIGTERM stopped it.
Stops ==
  /\ host.stopped => host.pc = "done" \/ sim.terminated
  /\ host.sigs # <<>> => host.stopped /\ host.pc = "done"
  /\ rbb.quit \/ sim.phase = "jtag" => job.jtag
  /\ sim.status # None => sim.phase = "over"
  /\ sim.status \in {None} \cup 0 .. StatusMod - 1
  /\ sim.phase \in {"run", "jtag", "over"} /\ sim.terminated \in BOOLEAN

Typed == host.pc # "start" => mem.ram \in [DOMAIN job.memory -> Int]

ResultFields ==
  /\ {"ram", "tohost", "call"} \subseteq DOMAIN mem /\ "exitcode" \in DOMAIN proxy
  /\ {"pc", "cmd", "exitcode", "stopped", "signal_exit", "sigs"} \subseteq DOMAIN host
  /\ "ended" \in DOMAIN prog
SimFields == {"phase", "status", "terminated"} \subseteq DOMAIN sim
ResultInv ==
  /\ ResultFields /\ SimFields /\ LegalProgram(job) /\ Exits /\ Stops /\ Typed
  /\ ExitStatusRight /\ SignatureRight

\* Words of the system call device are calls and ends of the program.
LEMMA SyscallWord ==
  ASSUME NEW w, w.dev \in Nat, Handler(w) = "syscall"
  PROVE  w.dev = 0 /\ w.cmd = 0
<1>1. Device(w) = "syscall_proxy" => w.dev = 0
  <2>1. CASE job.rfb
    <3>1. devices = << "syscall_proxy", "bcd" >> \o << "rfb" >>
      BY <2>1 DEF devices
    <3> QED BY <3>1 DEF Device
  <2>2. CASE ~job.rfb
    <3>1. devices = << "syscall_proxy", "bcd" >>
      BY <2>2 DEF devices
    <3> QED BY <3>1 DEF Device
  <2> QED BY <2>1, <2>2
<1>2. Device(w) = "syscall_proxy" /\ w.cmd = 0
  BY DEF Handler
<1> QED BY <1>1, <1>2

LEMMA SyscallIs ==
  ASSUME LegalProgram(job), ProgramWord(host.cmd), host.cmd # Zero, Handler(host.cmd) = "syscall",
         prog.ended \in {Running} \cup Nat
  PROVE  \/ host.cmd.payload % 2 = 0 /\ mem.call \in job.calls
         \/ prog.ended \in Nat /\ host.cmd.payload = 2 * prog.ended + 1 /\ host.cmd.payload % 2 = 1
<1>1. host.cmd \notin job.words
  <2> SUFFICES ASSUME host.cmd \in job.words PROVE FALSE
    OBVIOUS
  <2>1. host.cmd.dev \in Nat /\ ~(host.cmd.dev = 0 /\ host.cmd.cmd = 0)
    BY DEF LegalProgram, JobWords
  <2> QED BY <2>1, SyscallWord
<1>2. CASE host.cmd = Word(0, 0, MM) /\ mem.call \in job.calls
  <2>1. host.cmd.payload = 2
    BY <1>2 DEF Word, MM
  <2> QED BY <1>2, <2>1
<1>3. CASE prog.ended \in Nat /\ host.cmd = Word(0, 0, 2 * prog.ended + 1)
  <2>1. host.cmd.payload = 2 * prog.ended + 1
    BY <1>3 DEF Word
  <2>2. (2 * prog.ended + 1) % 2 = 1
    BY <1>3
  <2> QED BY <1>3, <2>1, <2>2
<1> QED BY <1>1, <1>2, <1>3 DEF ProgramWord

\* Every call leaves the proxy its exit code, and exit sets it.
LEMMA ReplyKeeps ==
  ASSUME NEW s, "exitcode" \in DOMAIN s, NEW r
  PROVE  "exitcode" \in DOMAIN Reply(s, r).s /\ Reply(s, r).s.exitcode = s.exitcode
         /\ DOMAIN Reply(s, r) = {"s", "ret", "buf"}
BY DEF Reply
LEMMA DispatchExits ==
  ASSUME NEW s, NEW c, "exitcode" \in DOMAIN s, c.n \in CallNames
  PROVE  /\ "exitcode" \in DOMAIN dispatch(s, c).s
         /\ c.n = "exit" => dispatch(s, c).s.exitcode = 2 * c.code + 1
<1> DEFINE Kept(a) == "exitcode" \in DOMAIN a.s
<1>1. /\ Kept(OnDescriptorCall(s, c)) /\ DOMAIN OnDescriptorCall(s, c) = {"s", "ret", "buf"}
  BY ReplyKeeps DEF OnDescriptorCall
<1>2. Kept(OnPathCall(s, c)) /\ DOMAIN OnPathCall(s, c) = {"s", "ret", "buf"}
  BY ReplyKeeps DEF OnPathCall
<1>3. Kept(OnTwoPathsCall(s, c)) /\ Kept(sys_getcwd(s, c)) /\ Kept(sys_chdir(s, c))
      /\ Kept(sys_getmainvars(s, c))
  BY ReplyKeeps DEF OnTwoPathsCall, sys_getcwd, sys_chdir, sys_getmainvars
<1>4. Kept(sys_close(s, c))
  BY <1>1 DEF sys_close
<1>5. Kept(sys_fstat(s, c)) /\ Kept(StatPath(s, c))
  BY <1>1, <1>2 DEF sys_fstat, StatPath, OrJunk
<1>6. Kept(sys_openat(s, c))
  BY ReplyKeeps DEF sys_openat
<1>7. Kept(sys_exit(s, c)) /\ sys_exit(s, c).s.exitcode = 2 * c.code + 1
  <2>1. "exitcode" \in DOMAIN [s EXCEPT !.exitcode = 2 * c.code + 1]
        /\ [s EXCEPT !.exitcode = 2 * c.code + 1].exitcode = 2 * c.code + 1
    OBVIOUS
  <2> QED BY <2>1, ReplyKeeps DEF sys_exit
<1>8. CASE c.n = "exit"
  BY <1>7, <1>8 DEF dispatch
<1>9. ASSUME c.n # "exit" PROVE Kept(dispatch(s, c))
  <2> HIDE DEF Kept
  <2>1. ASSUME c.n \in {"read", "pread", "write", "pwrite", "lseek", "fcntl", "ftruncate"}
        PROVE  dispatch(s, c) = OnDescriptorCall(s, c)
    BY <2>1 DEF dispatch
  <2>2. c.n \in {"close", "fstat", "openat"} =>
          dispatch(s, c) \in {sys_close(s, c), sys_fstat(s, c), sys_openat(s, c)}
    BY DEF dispatch
  <2>3. c.n \in {"faccessat", "unlinkat", "mkdirat", "fstatat", "lstat"} =>
          dispatch(s, c) \in {OnPathCall(s, c), StatPath(s, c)}
    BY DEF dispatch
  <2>4. c.n \in {"linkat", "renameat", "getcwd", "chdir", "getmainvars"} =>
          dispatch(s, c) \in {OnTwoPathsCall(s, c), sys_getcwd(s, c), sys_chdir(s, c), sys_getmainvars(s, c)}
    BY DEF dispatch
  <2> QED BY <1>1, <1>2, <1>3, <1>4, <1>5, <1>6, <1>9, <2>1, <2>2, <2>3, <2>4 DEF CallNames
<1> QED BY <1>8, <1>9

\* A step that says nothing of an end.
Quiet ==
  /\ job' = job /\ ResultFields' /\ mem'.tohost = mem.tohost /\ mem'.call = mem.call
  /\ prog'.ended = prog.ended /\ host'.cmd = host.cmd /\ host'.exitcode = host.exitcode
  /\ host.signal_exit => host'.signal_exit
  /\ host'.pc \in {"clear", "handle"} => host.pc \in {"clear", "handle"}
  /\ host'.pc \in {"stop", "done"} => host.pc \in {"stop", "done"}
LEMMA QuietKeeps ==
  ASSUME Exits, Quiet PROVE Exits'
BY DEF Exits, Quiet, ProgramWord

\* The host leaves its loop only at the end of run.
Halts ==
  \/ host'.stopped = host.stopped /\ host'.sigs = host.sigs /\ (host.pc = "done" => host'.pc = "done")
  \/ stop /\ host'.stopped /\ host'.pc = "done"

LEMMA HostQuiet ==
  ASSUME ResultFields, start \/ RunStep \/ FrameStep \/ tick \/ Broken,
         ~PollTohost, ~ClearTohost, ~HandleExit, ~HandleSyscall
  PROVE  Quiet
<1> USE DEF ResultFields, Quiet
<1>1. CASE Answer
  BY <1>1 DEF Answer
<1>2. CASE HandleIdentify
  BY <1>2 DEF HandleIdentify
<1>3. CASE HandleOther
  BY <1>3 DEF HandleOther
<1>4. CASE tick
  BY <1>4 DEF tick, Tick
<1>5. CASE PollFromhost
  BY <1>5 DEF PollFromhost
<1>6. CASE WriteFromhost
  BY <1>6 DEF WriteFromhost
<1>7. CASE stop
  BY <1>7 DEF stop
<1>8. CASE handle_configure
  BY <1>8 DEF handle_configure, FrameCommand, Respond
<1>9. CASE handle_set_address
  BY <1>9 DEF handle_set_address, FrameCommand, Respond
<1>10. CASE Broken
  BY <1>10 DEF Broken
<1>11. CASE start
  BY <1>11 DEF start
<1> QED BY <1>1, <1>2, <1>3, <1>4, <1>5, <1>6, <1>7, <1>8, <1>9, <1>10, <1>11 DEF RunStep, FrameStep

LEMMA HostHalts ==
  ASSUME ResultFields, start \/ RunStep \/ FrameStep \/ tick \/ Broken
  PROVE  Halts
<1> USE DEF ResultFields, Halts
<1>1. CASE Answer \/ HandleIdentify \/ HandleExit \/ HandleSyscall
  BY <1>1 DEF Answer, HandleIdentify, HandleExit, HandleSyscall
<1>2. CASE HandleOther
  BY <1>2 DEF HandleOther
<1>3. CASE PollTohost \/ ClearTohost
  BY <1>3 DEF PollTohost, ClearTohost
<1>4. CASE tick
  BY <1>4 DEF tick, Tick
<1>5. CASE PollFromhost
  BY <1>5 DEF PollFromhost
<1>6. CASE WriteFromhost
  BY <1>6 DEF WriteFromhost
<1>7. CASE stop
  BY <1>7 DEF stop
<1>8. CASE handle_configure
  BY <1>8 DEF handle_configure, FrameCommand, Respond
<1>9. CASE handle_set_address
  BY <1>9 DEF handle_set_address, FrameCommand, Respond
<1>10. CASE Broken
  BY <1>10 DEF Broken
<1>11. CASE start
  BY <1>11 DEF start
<1> QED BY <1>1, <1>2, <1>3, <1>4, <1>5, <1>6, <1>7, <1>8, <1>9, <1>10, <1>11 DEF RunStep, FrameStep

LEMMA HostExits ==
  ASSUME ResultFields, LegalProgram(job), Exits, PollTohost \/ ClearTohost \/ HandleExit \/ HandleSyscall
  PROVE  ResultFields' /\ Exits' /\ job' = job
<1>0. IntMod \in Nat \ {0}
  BY HtifAssumption
<1>1. CASE PollTohost
  <2>1. ResultFields' /\ job' = job /\ mem' = mem /\ prog' = prog /\ host'.cmd = mem.tohost
        /\ host'.exitcode = host.exitcode /\ host'.signal_exit = host.signal_exit
        /\ host'.pc = IF host.signal_exit \/ host.exitcode # 0 THEN "stop"
                      ELSE IF mem.tohost # Zero THEN "clear" ELSE "tick"
    BY <1>1 DEF PollTohost, ResultFields
  <2> QED BY <2>1 DEF Exits, ProgramWord
<1>2. CASE ClearTohost
  <2>1. ResultFields' /\ job' = job /\ prog' = prog /\ mem'.tohost = Zero /\ mem'.call = mem.call
        /\ host'.cmd = host.cmd /\ host'.exitcode = host.exitcode
        /\ host'.pc = "handle" /\ host.pc = "clear"
    BY <1>2 DEF ClearTohost, ResultFields
  <2> QED BY <2>1 DEF Exits, ProgramWord
<1>3. CASE HandleExit
  <2>1. ResultFields' /\ job' = job /\ prog' = prog /\ mem' = mem /\ host'.pc = "tick" /\ host'.cmd = host.cmd
        /\ host'.exitcode = AsInt(host.cmd.payload)
    BY <1>3 DEF HandleExit, ResultFields
  <2>2. prog.ended \in Nat /\ host.cmd.payload = 2 * prog.ended + 1
    BY <1>3, SyscallIs DEF HandleExit, Exits
  <2>3. host'.exitcode \in 0 .. IntMod - 1
    <3>1. host.cmd.payload \in Int
      BY <2>2
    <3> QED BY <1>0, <2>1, <3>1, Remainder DEF AsInt
  <2> QED BY <2>1, <2>2, <2>3 DEF Exits, ProgramWord
<1>4. CASE HandleSyscall
  <2> DEFINE a == dispatch(proxy, mem.call)
  <2>1. mem.call \in job.calls
    BY <1>4, SyscallIs DEF HandleSyscall, Exits
  <2>2. mem.call.n \in CallNames
    BY <2>1 DEF LegalProgram
  <2>3. "exitcode" \in DOMAIN a.s /\ (mem.call.n = "exit" => a.s.exitcode = 2 * mem.call.code + 1)
    BY <2>2, DispatchExits DEF ResultFields
  <2> HIDE DEF a
  <2>4. ResultFields' /\ job' = job /\ prog' = prog /\ mem'.tohost = mem.tohost /\ mem'.call = mem.call
        /\ host'.pc = "answer" /\ host'.cmd = host.cmd
        /\ host'.exitcode = IF mem.call.n = "exit" THEN AsInt(a.s.exitcode) ELSE host.exitcode
    BY <1>4, <2>3 DEF HandleSyscall, ResultFields, a
  <2>5. mem.call.n = "exit" => /\ prog.ended \in Nat /\ host'.exitcode = AsInt(2 * prog.ended + 1)
                               /\ host'.exitcode \in 0 .. IntMod - 1
    <3> SUFFICES ASSUME mem.call.n = "exit"
                 PROVE  /\ prog.ended \in Nat /\ host'.exitcode = AsInt(2 * prog.ended + 1)
                        /\ host'.exitcode \in 0 .. IntMod - 1
      OBVIOUS
    <3>1. prog.ended \in Nat /\ a.s.exitcode = 2 * prog.ended + 1
      BY <2>3 DEF Exits
    <3>2. 2 * prog.ended + 1 \in Int
      BY <3>1
    <3> QED BY <1>0, <2>4, <3>1, <3>2, Remainder DEF AsInt
  <2> QED BY <2>4, <2>5 DEF Exits, ProgramWord
<1> QED BY <1>1, <1>2, <1>3, <1>4

LEMMA ProgramExits ==
  ASSUME ResultFields, LegalProgram(job), Exits, ProgramStep
  PROVE  ResultFields' /\ Exits' /\ job' = job /\ host' = host
<1>0. Running \notin Nat
  BY DEF Running
<1>1. CASE SendWord
  <2>1. ResultFields' /\ job' = job /\ host' = host /\ mem'.call = mem.call /\ prog'.ended = prog.ended
        /\ mem'.tohost \in job.words
    BY <1>1 DEF SendWord, Send, ResultFields
  <2> QED BY <2>1 DEF Exits, ProgramWord
<1>2. CASE Take \/ Compute
  <2>1. ResultFields' /\ job' = job /\ host' = host /\ mem'.call = mem.call /\ prog'.ended = prog.ended
        /\ mem'.tohost = mem.tohost
    BY <1>2 DEF Take, Compute, ResultFields
  <2> QED BY <2>1 DEF Exits, ProgramWord
<1>3. ASSUME NEW c \in job.calls, SendCall(c) PROVE ResultFields' /\ Exits' /\ job' = job /\ host' = host
  <2>1. ResultFields' /\ job' = job /\ host' = host /\ mem'.call = c /\ mem'.tohost = Word(0, 0, MM)
        /\ prog.ended = Running /\ prog'.ended = IF c.n = "exit" THEN c.code ELSE Running
    BY <1>3 DEF SendCall, Program, ResultFields
  <2>2. c.n = "exit" => c.code \in Nat
    BY DEF LegalProgram
  <2> QED BY <1>0, <2>1, <2>2 DEF Exits, ProgramWord
<1>4. ASSUME NEW code \in job.codes, SendExit(code) PROVE ResultFields' /\ Exits' /\ job' = job /\ host' = host
  <2>1. ResultFields' /\ job' = job /\ host' = host /\ mem'.call = mem.call /\ mem'.tohost = Word(0, 0, 2 * code + 1)
        /\ prog.ended = Running /\ prog'.ended = code
    BY <1>4 DEF SendExit, Program, ResultFields
  <2>2. code \in Nat
    BY DEF LegalProgram
  <2> QED BY <1>0, <2>1, <2>2 DEF Exits, ProgramWord
<1> QED BY <1>1, <1>2, <1>3, <1>4 DEF ProgramStep

LEMMA ExitsNext ==
  ASSUME ResultFields, LegalProgram(job), Exits, [Next]_vars
  PROVE  ResultFields' /\ Exits' /\ job' = job
<1>0. Quiet => ResultFields' /\ Exits' /\ job' = job
  BY QuietKeeps DEF Quiet
<1>1. CASE Simulated(DisplayStep) \/ Simulated(start /\ UNCHANGED rfbVars)
  <2>1. start \/ RunStep \/ FrameStep \/ tick \/ Broken
    BY <1>1 DEF Simulated, DisplayStep
  <2>2. CASE PollTohost \/ ClearTohost \/ HandleExit \/ HandleSyscall
    BY <2>2, HostExits
  <2>3. CASE ~(PollTohost \/ ClearTohost \/ HandleExit \/ HandleSyscall)
    BY <1>0, <2>1, <2>3, HostQuiet
  <2> QED BY <2>2, <2>3
<1>2. CASE Simulated(ProgramStep /\ UNCHANGED rfbVars)
  BY <1>2, ProgramExits DEF Simulated
<1>3. CASE Simulated(Type /\ UNCHANGED rfbVars)
  BY <1>0, <1>3 DEF Simulated, Type, Quiet, ResultFields
<1>4. CASE handle_sigterm
  BY <1>0, <1>4 DEF handle_sigterm, Quiet, ResultFields
<1>5. CASE Interrupt
  BY <1>0, <1>5 DEF Interrupt, SignalExit, htifVars, Quiet, ResultFields
<1>6. CASE Elf2hex \/ Sideband
  BY <1>0, <1>6 DEF Elf2hex, Sideband, Place, Quiet, ResultFields
<1>7. CASE Simulated(OtherThreads) \/ jtag_tick \/ accept \/ execute_command \/ Finish \/ Crash \/ UNCHANGED vars
  BY <1>0, <1>7 DEF Simulated, OtherThreads, jtag_tick, accept, execute_command, Finish, Crash, vars, htifVars,
                    Quiet, ResultFields
<1> QED BY <1>1, <1>2, <1>3, <1>4, <1>5, <1>6, <1>7 DEF Next

\* Steps of the simulation, those of its client, and its ends.
SimStep ==
  Runs /\ ~host.stopped /\ sim' = sim /\ rbb' = rbb /\ (host' = host \/ Halts)
ClientStep ==
  /\ host' = host /\ mem' = mem /\ sim' = [sim EXCEPT !.phase = sim'.phase]
  /\ Runs \/ sim.phase = "jtag"
  /\ sim'.phase \in {"run", "jtag"} /\ (sim'.phase = "jtag" => job.jtag)
  /\ rbb'.quit = rbb.quit \/ sim.phase = "jtag"
LEMMA StepKinds ==
  ASSUME ResultFields, JtagRecords, [Next]_vars
  PROVE  \/ SimStep \/ ClientStep \/ Finish \/ Crash \/ handle_sigterm \/ Interrupt
         \/ Elf2hex \/ Sideband \/ UNCHANGED vars
<1>1. CASE Simulated(DisplayStep) \/ Simulated(start /\ UNCHANGED rfbVars)
  <2>1. start \/ RunStep \/ FrameStep \/ tick \/ Broken
    BY <1>1 DEF Simulated, DisplayStep
  <2> QED BY <1>1, <2>1, HostHalts DEF Simulated, SimStep
<1>2. CASE Simulated(ProgramStep /\ UNCHANGED rfbVars)
  <2>1. host' = host
    <3>1. CASE SendWord \/ Take \/ Compute
      BY <3>1 DEF SendWord, Send, Take, Compute
    <3>2. ASSUME NEW c \in job.calls, SendCall(c) PROVE host' = host
      BY <3>2 DEF SendCall
    <3>3. ASSUME NEW code \in job.codes, SendExit(code) PROVE host' = host
      BY <3>3 DEF SendExit
    <3> QED BY <1>2, <3>1, <3>2, <3>3 DEF Simulated, ProgramStep
  <2> QED BY <1>2, <2>1 DEF Simulated, SimStep
<1>3. CASE Simulated(Type /\ UNCHANGED rfbVars)
  BY <1>3 DEF Simulated, SimStep, Type
<1>4. CASE Simulated(OtherThreads)
  BY <1>4 DEF Simulated, SimStep, OtherThreads, htifVars
<1>5. CASE jtag_tick
  <2>1. rbb'.quit = rbb.quit
    BY <1>5 DEF jtag_tick, JtagRecords
  <2> QED BY <1>5, <2>1 DEF jtag_tick, ClientStep, htifVars, JtagRecords
<1>6. CASE accept
  <2>1. rbb'.quit = rbb.quit
    BY <1>6 DEF accept, JtagRecords
  <2> QED BY <1>6, <2>1 DEF accept, ClientStep, htifVars, JtagRecords
<1>7. CASE execute_command
  BY <1>7 DEF execute_command, ClientStep, htifVars, JtagRecords
<1> QED BY <1>1, <1>2, <1>3, <1>4, <1>5, <1>6, <1>7 DEF Next

LEMMA EndStatus ==
  ASSUME Exits, Finish, ~job.jtag => ~rbb.quit
  PROVE  /\ ret \in Nat /\ ret % StatusMod \in 0 .. StatusMod - 1
         /\ ~job.jtag => host.stopped /\ ret = exit_code(host)
<1>0. StatusMod \in Nat \ {0}
  BY SimulationAssumption
<1>1. PICK x \in Nat : x = exit_code(host)
  <2>1. host.exitcode \in Nat
    BY HtifAssumption DEF Exits
  <2>2. host.exitcode \div 2 \in Nat
    BY <2>1
  <2> QED BY <2>2 DEF exit_code
<1>2. (x * 2 + 1) % 2 = 1 /\ (x * 2 + 1) \div 2 = x
  OBVIOUS
<1>3. exit_o \in Nat /\ (exit_o = 0 \/ exit_o = 1 \/ exit_o = x * 2 + 1)
  BY <1>1 DEF exit_o, jtag_exit, debug_tick
<1>4. exit_o \div 2 \in Nat
  BY <1>1, <1>2, <1>3
<1>5. ret \in Nat
  BY <1>1, <1>4 DEF ret
<1>6. ret % StatusMod \in 0 .. StatusMod - 1
  <2>1. ret \in Int
    BY <1>5
  <2> QED BY <1>0, <2>1, Remainder
<1>7. ~job.jtag => host.stopped /\ ret = exit_code(host)
  <2> SUFFICES ASSUME ~job.jtag PROVE host.stopped /\ ret = x
    BY <1>1
  <2>1. exit_o = IF host.stopped THEN x * 2 + 1 ELSE 0
    BY <1>1 DEF exit_o, debug_tick
  <2>2. host.stopped
    <3>1. CASE job.tool = "modelsim"
      <4>1. exit_o % 2 = 1
        BY <3>1 DEF Finish, Over
      <4>2. 0 % 2 = 0
        OBVIOUS
      <4> QED BY <2>1, <4>1, <4>2
    <3>2. CASE job.tool # "modelsim"
      BY <3>2 DEF Finish, Over
    <3> QED BY <3>1, <3>2
  <2>3. ret = x
    BY <1>1, <1>2, <2>1, <2>2 DEF ret
  <2> QED BY <2>2, <2>3
<1> QED BY <1>5, <1>6, <1>7

LEMMA StopsNext ==
  ASSUME ResultFields, SimFields, JtagRecords, Exits, Stops, [Next]_vars, job' = job
  PROVE  Stops' /\ SimFields'
<1>0. StatusMod - 1 \in 0 .. StatusMod - 1
  BY SimulationAssumption
<1>1. CASE SimStep
  <2>1. sim.phase = "run" /\ ~host.stopped /\ sim' = sim /\ rbb' = rbb /\ host.sigs = <<>>
    BY <1>1 DEF SimStep, Runs, Stops
  <2>2. CASE host' = host
    BY <2>1, <2>2 DEF Stops, SimFields
  <2>3. CASE Halts
    BY <2>1, <2>3 DEF Halts, Stops, SimFields
  <2> QED BY <1>1, <2>2, <2>3 DEF SimStep
<1>2. CASE ClientStep
  <2>1. host' = host /\ SimFields' /\ sim'.status = sim.status /\ sim'.terminated = sim.terminated
        /\ sim'.phase \in {"run", "jtag"} /\ (sim'.phase = "jtag" => job.jtag)
        /\ (rbb'.quit = rbb.quit \/ sim.phase = "jtag") /\ sim.phase # "over"
    BY <1>2 DEF ClientStep, SimFields, Runs
  <2>2. sim.status = None
    BY <2>1 DEF Stops
  <2> QED BY <2>1, <2>2 DEF Stops
<1>3. CASE Finish
  <2>1. host' = host /\ rbb' = rbb /\ SimFields' /\ sim'.phase = "over" /\ sim'.terminated = sim.terminated
        /\ sim'.status = ret % StatusMod
    BY <1>3 DEF Finish, SimFields, htifVars
  <2>2. ret % StatusMod \in 0 .. StatusMod - 1
    BY <1>3, EndStatus DEF Stops
  <2> QED BY <2>1, <2>2 DEF Stops
<1>4. CASE Crash
  <2>1. host' = host /\ rbb' = rbb /\ SimFields' /\ sim'.phase = "over" /\ sim'.terminated = sim.terminated
        /\ sim'.status = StatusMod - 1
    BY <1>4 DEF Crash, SimFields, htifVars
  <2> QED BY <1>0, <2>1 DEF Stops
<1>5. CASE handle_sigterm
  <2>1. host'.sigs = host.sigs /\ host'.stopped /\ host'.pc = host.pc /\ rbb' = rbb /\ SimFields'
        /\ sim'.phase = sim.phase /\ sim'.terminated = TRUE /\ sim'.status = sim.status
    BY <1>5 DEF handle_sigterm, SimFields, ResultFields
  <2> QED BY <2>1 DEF Stops
<1>6. CASE Interrupt
  <2>1. CASE host.signal_exit
    <3>1. host' = host /\ rbb' = rbb /\ SimFields' /\ sim'.phase = "over" /\ sim'.terminated = sim.terminated
          /\ sim'.status = StatusMod - 1
      BY <1>6, <2>1 DEF Interrupt, SimFields, htifVars
    <3> QED BY <1>0, <3>1 DEF Stops
  <2>2. CASE ~host.signal_exit
    <3>1. host'.sigs = host.sigs /\ host'.stopped = host.stopped /\ host'.pc = host.pc /\ rbb' = rbb /\ sim' = sim
      BY <1>6, <2>2 DEF Interrupt, SignalExit, ResultFields
    <3> QED BY <3>1 DEF Stops, SimFields
  <2> QED BY <2>1, <2>2
<1>7. CASE Elf2hex \/ Sideband
  <2>1. host' = host /\ rbb' = rbb /\ SimFields' /\ sim'.phase = "over" /\ sim'.terminated = sim.terminated
        /\ sim'.status = sim.status
    BY <1>7 DEF Elf2hex, Sideband, Place, SimFields
  <2> QED BY <2>1 DEF Stops
<1>8. CASE UNCHANGED vars
  BY <1>8 DEF vars, htifVars, Stops, SimFields
<1> QED BY <1>1, <1>2, <1>3, <1>4, <1>5, <1>6, <1>7, <1>8, StepKinds

\* The exit status: the one step that has something to say of it is Finish.
LEMMA StatusNext ==
  ASSUME ResultFields, SimFields, JtagRecords, Exits, Stops, ExitStatusRight, [Next]_vars, job' = job
  PROVE  ExitStatusRight'
<1>1. CASE SimStep \/ ClientStep
  <2>1. sim.status = None /\ sim'.status = sim.status
    BY <1>1 DEF SimStep, ClientStep, Runs, Stops, SimFields
  <2> QED BY <2>1 DEF ExitStatusRight
<1>2. CASE Finish
  <2>1. host' = host /\ prog' = prog /\ sim'.status = ret % StatusMod /\ sim'.terminated = sim.terminated
    BY <1>2 DEF Finish, SimFields, htifVars
  <2> SUFFICES ASSUME ~job.jtag, ~host.signal_exit, ~sim.terminated
               PROVE  /\ prog.ended # Running
                      /\ prog.ended < StatusMod => (ret % StatusMod = 0) = (prog.ended = 0)
    BY <2>1 DEF ExitStatusRight
  <2>2. host.stopped /\ ret = host.exitcode \div 2
    BY <1>2, EndStatus DEF Stops, exit_code
  <2>3. host.pc = "done" /\ host.exitcode # 0
    BY <2>2 DEF Stops, Exits
  <2>4. prog.ended \in Nat /\ host.exitcode = (2 * prog.ended + 1) % IntMod
    BY <2>3 DEF Exits, AsInt
  <2>5. ASSUME prog.ended < StatusMod PROVE ret % StatusMod = prog.ended
    <3>1. PICK e \in Nat : e = prog.ended
      BY <2>4
    <3>2. StatusMod \in Nat \ {0} /\ IntMod \in Nat \ {0} /\ 2 * StatusMod <= IntMod
      BY SimulationAssumption, HtifAssumption
    <3>3. 2 * e + 1 \in 0 .. IntMod - 1 /\ e \in 0 .. StatusMod - 1
      BY <2>5, <3>1, <3>2
    <3>4. (2 * e + 1) % IntMod = 2 * e + 1
      BY <3>2, <3>3
    <3>5. (2 * e + 1) \div 2 = e
      OBVIOUS
    <3>6. e % StatusMod = e
      BY <3>2, <3>3
    <3> QED BY <2>2, <2>4, <3>1, <3>4, <3>5, <3>6
  <2>6. prog.ended # Running
    BY <2>4 DEF Running
  <2> QED BY <2>5, <2>6
<1>3. CASE Crash
  <2>1. host'.pc = "crashed"
    BY <1>3 DEF Crash, htifVars
  <2> QED BY <2>1 DEF ExitStatusRight
<1>4. CASE handle_sigterm
  <2>1. sim'.terminated
    BY <1>4 DEF handle_sigterm, SimFields
  <2> QED BY <2>1 DEF ExitStatusRight
<1>5. CASE Interrupt
  <2>1. host'.signal_exit
    BY <1>5 DEF Interrupt, SignalExit, htifVars, ResultFields
  <2> QED BY <2>1 DEF ExitStatusRight
<1>6. CASE Elf2hex \/ Sideband
  <2>1. sim'.status = sim.status /\ sim.phase = "run"
    BY <1>6 DEF Elf2hex, Sideband, Place, SimFields
  <2>2. sim.status = None
    BY <2>1 DEF Stops
  <2> QED BY <2>1, <2>2 DEF ExitStatusRight
<1>7. CASE UNCHANGED vars
  BY <1>7 DEF vars, htifVars, ExitStatusRight
<1> QED BY <1>1, <1>2, <1>3, <1>4, <1>5, <1>6, <1>7, StepKinds

\* Memory holds integers once the host runs.
LEMMA WrittenType ==
  ASSUME NEW D, NEW f \in [D -> Int], NEW a PROVE [f EXCEPT ![a] = 1] \in [D -> Int]
<1> DEFINE g == [f EXCEPT ![a] = 1]
<1>1. g = [x \in D |-> g[x]]
  OBVIOUS
<1>2. ASSUME NEW x \in D PROVE g[x] \in Int
  <2>1. CASE x = a
    BY <2>1
  <2>2. CASE x # a
    BY <2>2
  <2> QED BY <2>1, <2>2
<1> HIDE DEF g
<1>3. g \in [D -> Int]
  BY <1>1, <1>2
<1> QED BY <1>3 DEF g
LEMMA TypedNext ==
  ASSUME LoadInv, Typed, [Next]_vars, job' = job
  PROVE  Typed'
<1> DEFINE D == DOMAIN job.memory
           loaded == Loaded(job.memory, job.image.segs)
<1>0. Recorded /\ LegalImage(job) /\ (job.tool \in Tools => host.pc = "start")
  BY DEF LoadInv
<1>1. CASE Starts
  <2>1. ImageFits(Cardinality(D), D, job.memory, job.image.segs)
    BY <1>0 DEF LegalImage
  <2>2. Len(job.image.segs) \in 0 .. Len(job.image.segs)
    BY <2>1 DEF ImageFits
  <2>3. loaded \in [D -> Int] /\ job.memory \in [D -> Int]
    BY <2>1, <2>2, LoadedType, LoadedAll DEF ImageFits
  <2>4. mem'.ram \in [D -> Int]
    BY <1>1, <2>3, StartLoads
  <2> QED BY <2>4 DEF Typed
<1>2. CASE Computes
  <2>1. host' = host /\ host.pc # "start" /\ \E a \in job.results : mem'.ram = [mem.ram EXCEPT ![a] = 1]
    BY <1>0, <1>2 DEF Computes, Simulated, Compute, Recorded, Program
  <2>2. PICK a : mem'.ram = [mem.ram EXCEPT ![a] = 1]
    BY <2>1
  <2>3. mem.ram \in [D -> Int]
    BY <2>1 DEF Typed
  <2>4. [mem.ram EXCEPT ![a] = 1] \in [D -> Int]
    <3> HIDE DEF D
    <3> QED BY <2>3, WrittenType
  <2> QED BY <2>2, <2>4 DEF Typed
<1>3. CASE Elf2hex \/ Sideband
  <2>1. job.tool \in Tools /\ host' = host
    BY <1>3 DEF Elf2hex, Sideband, Place, Tools
  <2> QED BY <1>0, <2>1 DEF Typed
<1>4. CASE ~Starts /\ ~Computes /\ ~Elf2hex /\ ~Sideband
  <2>1. KeepsMemory
    BY <1>0, <1>4, OtherStepKeeps
  <2> QED BY <2>1 DEF KeepsMemory, Typed
<1> QED BY <1>1, <1>2, <1>3, <1>4

\* stop reads the area of the signature, whose lines it turns around.
LEMMA SignatureIs ==
  ASSUME LoadInv, LegalProgram(job), Typed, job.tool \in {"verilator", "modelsim"}, host.pc # "start",
         job.signature # <<>>, SignatureArea(job.image).len > 0,
         NEW sigs, sigs = Signature(mem.ram, SignatureArea(job.image))
  PROVE  LET area == SignatureArea(job.image)
         IN  /\ Len(sigs) * LineBytes = area.len
             /\ \A i \in 1 .. Len(sigs), j \in 1 .. LineBytes :
                  sigs[i][j] = mem.ram[area.addr + i * LineBytes - j]
<1> DEFINE S == Cardinality(DOMAIN job.memory)
           D == DOMAIN job.memory
           area == SignatureArea(job.image)
<1>1. PICK a \in Nat, n \in Nat : a = area.addr /\ n = area.len /\ n % LineBytes = 0 /\ a + n <= S
  BY DEF LegalProgram
<1>2. PICK w \in Nat \ {0} : w = LineBytes
  BY HtifAssumption
<1>3. S \in Nat /\ D = 0 .. S - 1 /\ mem.ram \in [D -> Int]
  BY DEF LoadInv, LegalImage, ImageFits, Typed
<1>4. Whole(Chunks, S)
  BY DEF LoadInv, LegalImage
<1> DEFINE buf == read(Chunks, mem.ram, a, n)
<1>5. buf = Bytes(mem.ram, a, n)
  <2>1. InMemory(Chunks, S, D, mem.ram, a, n)
    BY <1>1, <1>3, <1>4, HtifAssumption DEF InMemory
  <2> QED BY <2>1, ReadIs
<1>6. PICK k \in Nat : k = n \div w /\ n = w * k
  <2>1. n % w = 0 /\ n \in Int
    BY <1>1, <1>2
  <2>2. PICK q \in Int : q = n \div w /\ n = w * q + (n % w)
    BY <2>1, Remainder
  <2>3. n = w * q
    BY <2>1, <2>2
  <2>4. q >= 0
    <3> SUFFICES ASSUME q <= -1 PROVE FALSE
      BY <2>2
    <3>1. w * q <= -w
      OBVIOUS
    <3> QED BY <2>3, <3>1
  <2> QED BY <2>2, <2>3, <2>4
<1>7. sigs = [i \in 1 .. k |-> [j \in 1 .. w |-> buf[i * w + 1 - j]]]
  BY <1>1, <1>2, <1>6 DEF Signature
<1> HIDE DEF area, S, D, buf
<1>8. Len(sigs) = k
  BY <1>7
<1>9. ASSUME NEW i \in 1 .. k, NEW j \in 1 .. w PROVE sigs[i][j] = mem.ram[a + i * w - j]
  <2>1. PICK p \in Nat : p = i * w + 1 - j /\ p \in 1 .. n
    <3>1. PICK y \in Int : y = i * w /\ w <= y /\ y <= n
      BY <1>6
    <3> QED BY <3>1
  <2>2. sigs[i][j] = buf[p]
    BY <1>7, <2>1, SMTT(30)
  <2>3. buf[p] = mem.ram[a + p - 1]
    BY <1>5, <2>1 DEF Bytes
  <2>4. PICK x \in Int : x = a + p - 1 /\ x = a + i * w - j
    BY <2>1
  <2> QED BY <2>2, <2>3, <2>4
<1>10. Len(sigs) * w = n
  BY <1>6, <1>8
<1>11. \A i \in 1 .. Len(sigs), j \in 1 .. w : sigs[i][j] = mem.ram[a + i * w - j]
  BY <1>8, <1>9
<1> QED BY <1>1, <1>2, <1>10, <1>11 DEF area

LEMMA SignatureNext ==
  ASSUME LoadInv, ResultInv, JtagRecords, [Next]_vars, job' = job
  PROVE  SignatureRight'
<1>0. ResultFields /\ Stops /\ LegalProgram(job) /\ Typed /\ SignatureRight
  BY DEF ResultInv
<1>1. CASE SimStep
  <2>1. host.sigs = <<>> /\ job.tool \in {"verilator", "modelsim"}
    BY <1>0, <1>1 DEF SimStep, Stops, Runs
  <2>2. CASE stop
    <3>1. mem' = mem /\ host.pc = "stop"
      BY <2>2 DEF stop
    <3>2. host'.sigs = <<>> \/ (/\ job.signature # <<>> /\ SignatureArea(job.image).len > 0
                                /\ host'.sigs = Signature(mem.ram, SignatureArea(job.image)))
      BY <1>0, <2>1, <2>2 DEF stop, ResultFields
    <3>3. CASE host'.sigs = <<>>
      BY <3>3 DEF SignatureRight
    <3>4. CASE host'.sigs # <<>>
      BY <1>0, <2>1, <3>1, <3>2, <3>4, SignatureIs DEF SignatureRight
    <3> QED BY <3>3, <3>4
  <2>3. CASE ~stop
    <3>1. host'.sigs = <<>>
      BY <1>1, <2>1, <2>3 DEF SimStep, Halts
    <3> QED BY <3>1 DEF SignatureRight
  <2> QED BY <2>2, <2>3
<1>2. CASE ClientStep
  BY <1>0, <1>2 DEF ClientStep, SignatureRight
<1>3. CASE Finish \/ Crash \/ UNCHANGED vars
  BY <1>0, <1>3 DEF Finish, Crash, vars, htifVars, SignatureRight
<1>4. CASE handle_sigterm
  <2>1. host'.sigs = host.sigs /\ mem' = mem
    BY <1>0, <1>4 DEF handle_sigterm, ResultFields
  <2> QED BY <1>0, <2>1 DEF SignatureRight
<1>5. CASE Interrupt
  <2>1. host'.sigs = host.sigs /\ mem' = mem
    BY <1>0, <1>5 DEF Interrupt, SignalExit, htifVars, ResultFields
  <2> QED BY <1>0, <2>1 DEF SignatureRight
<1>6. CASE Elf2hex \/ Sideband
  <2>1. host' = host /\ job.tool \in Tools
    BY <1>6 DEF Elf2hex, Sideband, Place, Tools
  <2>2. host.pc = "start"
    BY <2>1 DEF LoadInv
  <2>3. host.sigs = <<>>
    BY <1>0, <2>2 DEF Stops
  <2> QED BY <2>1, <2>3 DEF SignatureRight
<1> QED BY <1>0, <1>1, <1>2, <1>3, <1>4, <1>5, <1>6, StepKinds

LEMMA ResultNext ==
  ASSUME LoadInv, ShiftInv, ResultInv, [Next]_vars
  PROVE  ResultInv'
<1>1. ResultFields /\ SimFields /\ LegalProgram(job) /\ Exits /\ Stops /\ Typed /\ ExitStatusRight /\ SignatureRight
  BY DEF ResultInv
<1>2. JtagRecords
  BY DEF ShiftInv
<1>3. ResultFields' /\ Exits' /\ job' = job
  BY <1>1, ExitsNext
<1>4. LegalProgram(job)'
  BY <1>1, <1>3
<1>5. Stops' /\ SimFields'
  BY <1>1, <1>2, <1>3, StopsNext
<1>6. ExitStatusRight'
  BY <1>1, <1>2, <1>3, StatusNext
<1>7. SignatureRight'
  BY <1>2, <1>3, SignatureNext
<1>8. Typed'
  BY <1>1, <1>3, TypedNext
<1> QED BY <1>3, <1>4, <1>5, <1>6, <1>7, <1>8 DEF ResultInv

LEMMA ResultInit ==
  ASSUME NEW jobs, NEW own, \A j \in jobs : LegalProgram(Configured(j)), Init(jobs, own)
  PROVE  ResultInv
<1>1. PICK j \in jobs : HtifInit(Configured(j), own)
  BY DEF Init
<1>2. LegalProgram(job) /\ job = Configured(j)
  BY <1>1 DEF HtifInit
<1>3. /\ mem.tohost = Zero /\ mem.call = NoCall /\ {"ram", "tohost", "call"} \subseteq DOMAIN mem
      /\ prog.ended = Running /\ "ended" \in DOMAIN prog
      /\ host.pc = "start" /\ host.cmd = Zero /\ host.exitcode = 0 /\ host.stopped = FALSE /\ host.sigs = <<>>
      /\ {"pc", "cmd", "exitcode", "stopped", "signal_exit", "sigs"} \subseteq DOMAIN host
  BY <1>1 DEF HtifInit
<1>4. "exitcode" \in DOMAIN proxy
  BY <1>1 DEF HtifInit, syscall_t
<1>5. ResultFields
  BY <1>3, <1>4 DEF ResultFields
<1>6. 0 \in 0 .. IntMod - 1
  BY HtifAssumption
<1>7. Exits
  BY <1>3, <1>6 DEF Exits, ProgramWord, NoCall
<1>8. /\ SimFields /\ sim.terminated = FALSE /\ rbb.quit = FALSE
      /\ sim.phase = (IF job.end = "host" THEN "run" ELSE "over") /\ sim.status = Refused(job.end)
  BY DEF Init, SimFields
<1>9. Refused(job.end) \in {None} \cup 0 .. StatusMod - 1 /\ (job.end = "host" => Refused(job.end) = None)
  BY SimulationAssumption DEF Refused
<1>10. Stops /\ ExitStatusRight
  BY <1>3, <1>8, <1>9 DEF Stops, ExitStatusRight, None
<1>11. SignatureRight /\ Typed
  BY <1>3 DEF SignatureRight, Typed
<1> QED BY <1>2, <1>5, <1>7, <1>8, <1>10, <1>11 DEF ResultInv

\* What the simulation reports is what the program did: the exit status that
\* main or the testbench makes of the exit code, however it reached tohost, and
\* the signature file, which stop reads through memif and turns around line by
\* line.
THEOREM ResultsAreRight ==
  ASSUME NEW jobs, NEW own,
         \A j \in jobs : LegalImage(Configured(j)) /\ LegalScript(Configured(j)) /\ LegalProgram(Configured(j))
  PROVE  Init(jobs, own) /\ [][Next]_vars => []ResultsRight
<1> DEFINE Inv == LoadInv /\ ShiftInv /\ ResultInv
<1>1. Init(jobs, own) => Inv
  BY LoadInit, ShiftInit, ResultInit
<1>2. Inv /\ [Next]_vars => Inv'
  BY LoadNext, ShiftNext, ResultNext
<1>3. Inv => ResultsRight
  <2>1. ASSUME ShiftInv, ResultInv PROVE TypeOK
    <3>1. JtagRecords /\ Stops
      BY <2>1 DEF ShiftInv, ResultInv
    <3> QED BY <3>1 DEF JtagRecords, Bit, Stops, TypeOK
  <2> QED BY <2>1 DEF ResultsRight, ResultInv
<1> QED BY <1>1, <1>2, <1>3, PTL

----------------------------------------------------------------------------
\* The replies.  The kind of a command, for a host with or without a display.
KindOf(r, c) ==
  LET of == << "syscall_proxy", "bcd" >> \o (IF r THEN << "rfb" >> ELSE <<>>)
      device == IF c.dev < Len(of) THEN of[c.dev + 1] ELSE ""
  IN  IF c.cmd = MAX_COMMANDS - 1 THEN "identity" ELSE
      CASE device = "syscall_proxy" /\ c.cmd = 0 -> "syscall"
        [] device = "bcd" /\ c.cmd = 0           -> "read"
        [] device = "bcd" /\ c.cmd = 1           -> "write"
        [] device = "rfb" /\ c.cmd = 0           -> "configure"
        [] device = "rfb" /\ c.cmd = 1           -> "set_address"
        [] OTHER                                 -> ""
LEMMA HandlerIs == \A w : Handler(w) = KindOf(job.rfb, w) /\ Handler(w)' = KindOf(job'.rfb, w)
BY DEF Handler, Device, devices, KindOf

\* A reply is of the kind of its command, and no reply is zero.
LEMMA SameKind ==
  ASSUME NEW r, NEW v, NEW w, v.dev = w.dev, v.cmd = w.cmd PROVE KindOf(r, v) = KindOf(r, w)
BY DEF KindOf
LEMMA KindOfZero == ASSUME NEW r PROVE KindOf(r, Zero) = "syscall"
BY DEF KindOf, Zero, MAX_COMMANDS

\* How many of the first words are of a kind.
CountOf(r, s, k, n) == Cardinality({i \in 1 .. n : KindOf(r, s[i]) = k})
LEMMA CountType ==
  ASSUME NEW r, NEW s, NEW k, NEW n \in Nat PROVE CountOf(r, s, k, n) \in Nat /\ CountOf(r, s, k, 0) = 0
<1> DEFINE C(m) == {i \in 1 .. m : KindOf(r, s[i]) = k}
<1>1. C(n) \subseteq 1 .. n /\ IsFiniteSet(1 .. n)
  BY FS_Interval
<1>2. IsFiniteSet(C(n))
  BY <1>1, FS_Subset
<1>3. C(0) = {}
  OBVIOUS
<1> QED BY <1>2, <1>3, FS_CardinalityType, FS_EmptySet DEF CountOf
LEMMA CountNext ==
  ASSUME NEW r, NEW s, NEW k, NEW n \in Nat
  PROVE  CountOf(r, s, k, n + 1) = CountOf(r, s, k, n) + One(KindOf(r, s[n + 1]) = k)
<1> DEFINE C(m) == {i \in 1 .. m : KindOf(r, s[i]) = k}
<1>1. C(n) \subseteq 1 .. n /\ IsFiniteSet(1 .. n)
  BY FS_Interval
<1>2. IsFiniteSet(C(n)) /\ n + 1 \notin C(n)
  BY <1>1, FS_Subset
<1>3. CASE KindOf(r, s[n + 1]) = k
  <2>1. C(n + 1) = C(n) \cup {n + 1}
    BY <1>3
  <2>2. Cardinality(C(n) \cup {n + 1}) = Cardinality(C(n)) + 1
    BY <1>2, FS_AddElement
  <2> QED BY <1>3, <2>1, <2>2 DEF CountOf, One
<1>4. CASE KindOf(r, s[n + 1]) # k
  <2>1. C(n + 1) = C(n)
    BY <1>4
  <2>2. Cardinality(C(n)) \in Nat
    BY <1>2, FS_CardinalityType
  <2> QED BY <1>4, <2>1, <2>2 DEF CountOf, One
<1> QED BY <1>3, <1>4
SameUpTo(s, t, n) == n \in Nat /\ \A i \in 1 .. n : t[i] = s[i]
LEMMA CountSame ==
  ASSUME NEW r, NEW s, NEW t, NEW k, NEW n, SameUpTo(s, t, n)
  PROVE  \A i \in 0 .. n : CountOf(r, t, k, i) = CountOf(r, s, k, i)
<1> TAKE i \in 0 .. n
<1>1. {j \in 1 .. i : KindOf(r, t[j]) = k} = {j \in 1 .. i : KindOf(r, s[j]) = k}
  BY DEF SameUpTo
<1> QED BY <1>1 DEF CountOf
ShiftedUpTo(s, t, n) == n \in Nat /\ \A i \in 1 .. n : t[i] = s[i + 1]
LEMMA CountShift ==
  ASSUME NEW r, NEW s, NEW t, NEW k, NEW n, ShiftedUpTo(s, t, n)
  PROVE  \A i \in 0 .. n : CountOf(r, s, k, i + 1) = CountOf(r, t, k, i) + One(KindOf(r, s[1]) = k)
<1> DEFINE P(i) == CountOf(r, s, k, i + 1) = CountOf(r, t, k, i) + One(KindOf(r, s[1]) = k)
<1>0. One(KindOf(r, s[1]) = k) \in Nat
  BY DEF One
<1>00. n \in Nat /\ \A i \in 1 .. n : t[i] = s[i + 1]
  BY DEF ShiftedUpTo
<1> SUFFICES ASSUME NEW m \in 0 .. n PROVE P(m)
  OBVIOUS
<1> DEFINE T == {i \in Nat : i <= m => P(i)}
<1>1. 0 \in T
  <2>1. CountOf(r, s, k, 0 + 1) = CountOf(r, s, k, 0) + One(KindOf(r, s[0 + 1]) = k)
    BY CountNext
  <2>2. CountOf(r, s, k, 0) = 0 /\ CountOf(r, t, k, 0) = 0
    BY CountType
  <2> QED BY <1>0, <2>1, <2>2
<1>2. ASSUME NEW i \in 1 .. m, i - 1 \in T PROVE i \in T
  <2>1. i - 1 \in Nat /\ i \in Nat /\ (i - 1) + 1 = i /\ i \in 1 .. n
    BY <1>00, <1>2
  <2>2. P(i - 1)
    BY <1>2, <2>1
  <2>3. CountOf(r, s, k, i + 1) = CountOf(r, s, k, i) + One(KindOf(r, s[i + 1]) = k)
    BY <2>1, CountNext
  <2>4. CountOf(r, t, k, (i - 1) + 1) = CountOf(r, t, k, i - 1) + One(KindOf(r, t[(i - 1) + 1]) = k)
    BY <2>1, CountNext
  <2>5. t[i] = s[i + 1]
    BY <1>00, <2>1
  <2>6. CountOf(r, t, k, i - 1) \in Nat /\ One(KindOf(r, t[i]) = k) \in Nat
    BY <2>1, CountType DEF One
  <2>7. P(i)
    BY <1>0, <2>1, <2>2, <2>3, <2>4, <2>5, <2>6
  <2> QED BY <2>1, <2>7
<1>3. m \in T
  <2> HIDE DEF T
  <2>1. T \in SUBSET Nat /\ m \in Nat
    BY <1>00 DEF T
  <2> QED BY <1>1, <1>2, <2>1, UpTo
<1> QED BY <1>00, <1>3

\* Words, and queues of them.
AWord == [dev : Nat, cmd : Nat, payload : Nat]
Longer(r, s, w, t) ==
  /\ t \in Seq(AWord) /\ Len(t) = Len(s) + 1 /\ t[Len(s) + 1] = w /\ \A i \in 1 .. Len(s) : t[i] = s[i]
  /\ \A k : CountOf(r, t, k, Len(t)) = CountOf(r, s, k, Len(s)) + One(KindOf(r, w) = k)
  /\ \A k : \A i \in 0 .. Len(s) : CountOf(r, t, k, i) = CountOf(r, s, k, i)
LEMMA QueueAppend ==
  ASSUME NEW r, NEW s, NEW w, s \in Seq(AWord), w \in AWord
  PROVE  Longer(r, s, w, Append(s, w))
<1> DEFINE t == Append(s, w)
           n == Len(s)
<1>1. n \in Nat /\ t \in Seq(AWord) /\ Len(t) = n + 1 /\ t[n + 1] = w /\ \A i \in 1 .. n : t[i] = s[i]
  BY AppendProperties
<1> HIDE DEF t, n
<1>2. ASSUME NEW k, NEW i \in 0 .. n PROVE CountOf(r, t, k, i) = CountOf(r, s, k, i)
  <2>1. SameUpTo(s, t, n)
    BY <1>1 DEF SameUpTo
  <2> QED BY <2>1, CountSame
<1>3. ASSUME NEW k PROVE CountOf(r, t, k, n + 1) = CountOf(r, s, k, n) + One(KindOf(r, w) = k)
  <2>1. CountOf(r, t, k, n + 1) = CountOf(r, t, k, n) + One(KindOf(r, t[n + 1]) = k)
    BY <1>1, CountNext
  <2>2. n \in 0 .. n
    BY <1>1
  <2> QED BY <1>1, <1>2, <2>1, <2>2
<1> QED BY <1>1, <1>2, <1>3 DEF Longer, t, n
Shorter(r, s, t) ==
  /\ t \in Seq(AWord) /\ s[1] \in AWord /\ Len(t) = Len(s) - 1 /\ \A i \in 1 .. Len(t) : t[i] = s[i + 1]
  /\ \A k : CountOf(r, s, k, Len(s)) = CountOf(r, t, k, Len(t)) + One(KindOf(r, s[1]) = k)
  /\ \A k : \A i \in 0 .. Len(t) : CountOf(r, s, k, i + 1) = CountOf(r, t, k, i) + One(KindOf(r, s[1]) = k)
LEMMA QueueTail ==
  ASSUME NEW r, NEW s, s \in Seq(AWord), s # <<>>
  PROVE  Shorter(r, s, Tail(s)) /\ Head(s) = s[1] /\ Len(s) \in Nat \ {0}
<1> DEFINE t == Tail(s)
<1>1. /\ t \in Seq(AWord) /\ Head(s) \in AWord /\ Len(t) = Len(s) - 1 /\ \A i \in 1 .. Len(t) : t[i] = s[i + 1]
  BY HeadTailProperties
<1>2. Head(s) = s[1] /\ Len(s) \in Nat \ {0}
  BY EmptySeq, LenProperties
<1> HIDE DEF t
<1>3. ASSUME NEW k, NEW i \in 0 .. Len(t)
      PROVE  CountOf(r, s, k, i + 1) = CountOf(r, t, k, i) + One(KindOf(r, s[1]) = k)
  <2>1. PICK m \in Nat : m = Len(t)
    BY <1>1, <1>2
  <2>2. ShiftedUpTo(s, t, m)
    BY <1>1, <2>1 DEF ShiftedUpTo
  <2>3. \A j \in 0 .. m : CountOf(r, s, k, j + 1) = CountOf(r, t, k, j) + One(KindOf(r, s[1]) = k)
    BY <2>2, CountShift
  <2> QED BY <2>1, <2>3
<1>4. ASSUME NEW k
      PROVE  CountOf(r, s, k, Len(s)) = CountOf(r, t, k, Len(t)) + One(KindOf(r, s[1]) = k)
  <2>1. Len(t) \in 0 .. Len(t) /\ Len(t) + 1 = Len(s)
    BY <1>1, <1>2
  <2> QED BY <1>3, <2>1
<1> QED BY <1>1, <1>2, <1>3, <1>4 DEF Shorter, t

\* The replies that are owed, as a function of where the commands are.
AsksOf(r, w, k) == w # Zero /\ KindOf(r, w) = k /\ ~(k = "syscall" /\ w.payload % 2 = 1)
InMail(r, pc, tohost, k)  == One(pc # "clear" /\ AsksOf(r, tohost, k))
InHand(r, pc, cmd, k)     == One(pc \in {"clear", "handle", "answer"} /\ AsksOf(r, cmd, k))
InReply(r, fromhost, k)   == One(fromhost # Zero /\ KindOf(r, fromhost) = k)
PendingOf(r, pc, cmd, tohost, fromhost, reads, queue, k) ==
  InMail(r, pc, tohost, k) + InHand(r, pc, cmd, k) + CountOf(r, reads, k, Len(reads))
  + CountOf(r, queue, k, Len(queue)) + InReply(r, fromhost, k)
LEMMA PendingIs ==
  ASSUME NEW k
  PROVE  /\ Pending(k) = PendingOf(job.rfb, host.pc, host.cmd, mem.tohost, mem.fromhost,
                                   host.pending_reads, host.fromhost_queue, k)
         /\ Pending(k)' = PendingOf(job'.rfb, host'.pc, host'.cmd, mem'.tohost, mem'.fromhost,
                                    host'.pending_reads, host'.fromhost_queue, k)
BY HandlerIs DEF Pending, PendingOf, InMail, InHand, InReply, Asks, AsksOf, Count, CountOf

\* Where the words can be, and that what is owed is what is pending, or more if
\* the host has crashed.
Neutral == {"start", "poll", "tick", "fromhost", "reply", "stop", "done", "idle"}
Stages(r, pc, cmd, tohost, fromhost, reads, queue) ==
  /\ cmd \in AWord /\ tohost \in AWord /\ fromhost \in AWord /\ reads \in Seq(AWord) /\ queue \in Seq(AWord)
  /\ pc = "clear" => tohost = cmd
  /\ pc \in {"clear", "handle", "answer"} => cmd # Zero
  /\ pc = "answer" => AsksOf(r, cmd, "syscall")
  /\ pc = "reply" => fromhost = Zero /\ queue # <<>>
  /\ \A i \in 1 .. Len(queue) : queue[i] # Zero /\ KindOf(r, queue[i]) \in Kinds
  /\ \A i \in 1 .. Len(reads) : KindOf(r, reads[i]) = "read"
  /\ fromhost = Zero \/ KindOf(r, fromhost) \in Kinds
Balanced(r, pc, cmd, tohost, fromhost, reads, queue, owed, sends) ==
  /\ owed \in [Kinds -> Nat] /\ sends \in Nat
  /\ \A k \in Kinds : LET p == PendingOf(r, pc, cmd, tohost, fromhost, reads, queue, k)
                      IN  owed[k] <= sends /\ p <= owed[k] /\ (pc # "crashed" => owed[k] = p)
Ledger(r, pc, cmd, tohost, fromhost, reads, queue, owed, sends) ==
  /\ Stages(r, pc, cmd, tohost, fromhost, reads, queue)
  /\ Balanced(r, pc, cmd, tohost, fromhost, reads, queue, owed, sends)

LEMMA PartsType ==
  ASSUME NEW r, NEW pc, NEW cmd, NEW th, NEW fh, NEW rd, NEW q, Stages(r, pc, cmd, th, fh, rd, q), NEW k
  PROVE  /\ InMail(r, pc, th, k) \in Nat /\ InHand(r, pc, cmd, k) \in Nat /\ InReply(r, fh, k) \in Nat
         /\ CountOf(r, rd, k, Len(rd)) \in Nat /\ CountOf(r, q, k, Len(q)) \in Nat
<1>1. Len(rd) \in Nat /\ Len(q) \in Nat
  BY LenProperties DEF Stages
<1> QED BY <1>1, CountType DEF InMail, InHand, InReply, One

\* From a balance to the next: what is pending and what is owed change alike.
Rebalanced(p, q, o, u) == p \in Int /\ q \in Int /\ q - p = u - o
LEMMA BalanceKept ==
  ASSUME NEW r, NEW pc, NEW cmd, NEW th, NEW fh, NEW rd, NEW q, NEW o, NEW n,
         Balanced(r, pc, cmd, th, fh, rd, q, o, n),
         NEW pc2, NEW cmd2, NEW th2, NEW fh2, NEW rd2, NEW q2, NEW o2, NEW n2,
         o2 \in [Kinds -> Nat], n2 \in Nat, pc2 # "crashed" => pc # "crashed",
         \A k \in Kinds : /\ o2[k] <= n2
                          /\ Rebalanced(PendingOf(r, pc, cmd, th, fh, rd, q, k),
                                        PendingOf(r, pc2, cmd2, th2, fh2, rd2, q2, k), o[k], o2[k])
  PROVE  Balanced(r, pc2, cmd2, th2, fh2, rd2, q2, o2, n2)
<1>1. ASSUME NEW k \in Kinds
      PROVE  LET p == PendingOf(r, pc2, cmd2, th2, fh2, rd2, q2, k)
             IN  o2[k] <= n2 /\ p <= o2[k] /\ (pc2 # "crashed" => o2[k] = p)
  <2>1. PICK x, y : x = PendingOf(r, pc, cmd, th, fh, rd, q, k) /\ y = PendingOf(r, pc2, cmd2, th2, fh2, rd2, q2, k)
    OBVIOUS
  <2>2. x \in Int /\ y \in Int /\ y - x = o2[k] - o[k] /\ o2[k] \in Nat
    BY <2>1 DEF Rebalanced
  <2>3. o[k] \in Nat /\ x <= o[k] /\ (pc # "crashed" => o[k] = x)
    BY <2>1 DEF Balanced
  <2> QED BY <2>1, <2>2, <2>3
<1> QED BY <1>1 DEF Balanced

LEMMA LedgerMove ==
  ASSUME NEW r, NEW pc, NEW cmd, NEW th, NEW fh, NEW rd, NEW q, NEW o, NEW n, NEW pc2,
         Ledger(r, pc, cmd, th, fh, rd, q, o, n),
         pc \in Neutral, pc2 \in Neutral, pc2 = "reply" => fh = Zero /\ q # <<>>
  PROVE  Ledger(r, pc2, cmd, th, fh, rd, q, o, n)
<1>1. Stages(r, pc2, cmd, th, fh, rd, q)
  BY DEF Ledger, Stages, Neutral
<1>2. \A k : PendingOf(r, pc2, cmd, th, fh, rd, q, k) = PendingOf(r, pc, cmd, th, fh, rd, q, k)
  BY DEF PendingOf, InMail, InHand, One, Neutral
<1>3. pc2 # "crashed" /\ pc # "crashed"
  BY DEF Neutral
<1> QED BY <1>1, <1>2, <1>3 DEF Ledger, Balanced

LEMMA LedgerPoll ==
  ASSUME NEW r, NEW pc, NEW cmd, NEW th, NEW fh, NEW rd, NEW q, NEW o, NEW n, NEW pc2,
         Ledger(r, pc, cmd, th, fh, rd, q, o, n),
         pc = "poll", pc2 \in {"stop", "tick"} \/ (pc2 = "clear" /\ th # Zero)
  PROVE  Ledger(r, pc2, th, th, fh, rd, q, o, n)
<1>1. Stages(r, pc2, th, th, fh, rd, q)
  BY DEF Ledger, Stages
<1>2. ASSUME NEW k
      PROVE  PendingOf(r, pc2, th, th, fh, rd, q, k) = PendingOf(r, pc, cmd, th, fh, rd, q, k)
  <2>1. InMail(r, pc2, th, k) + InHand(r, pc2, th, k) = InMail(r, pc, th, k) + InHand(r, pc, cmd, k)
    BY DEF InMail, InHand, One
  <2> QED BY <2>1 DEF PendingOf
<1>3. pc2 # "crashed" /\ pc # "crashed"
  OBVIOUS
<1> QED BY <1>1, <1>2, <1>3 DEF Ledger, Balanced

LEMMA LedgerClear ==
  ASSUME NEW r, NEW pc, NEW cmd, NEW th, NEW fh, NEW rd, NEW q, NEW o, NEW n,
         Ledger(r, pc, cmd, th, fh, rd, q, o, n), pc = "clear"
  PROVE  Ledger(r, "handle", cmd, Zero, fh, rd, q, o, n)
<1>0. Zero \in AWord
  BY DEF Zero, AWord
<1>1. Stages(r, "handle", cmd, Zero, fh, rd, q)
  BY <1>0 DEF Ledger, Stages
<1>2. ASSUME NEW k
      PROVE  PendingOf(r, "handle", cmd, Zero, fh, rd, q, k) = PendingOf(r, pc, cmd, th, fh, rd, q, k)
  <2>1. InMail(r, "handle", Zero, k) = InMail(r, pc, th, k) /\ InHand(r, "handle", cmd, k) = InHand(r, pc, cmd, k)
    BY DEF InMail, InHand, One, AsksOf
  <2> QED BY <2>1 DEF PendingOf
<1>3. pc # "crashed"
  OBVIOUS
<1> QED BY <1>1, <1>2, <1>3 DEF Ledger, Balanced

LEMMA LedgerCall ==
  ASSUME NEW r, NEW pc, NEW cmd, NEW th, NEW fh, NEW rd, NEW q, NEW o, NEW n,
         Ledger(r, pc, cmd, th, fh, rd, q, o, n), pc = "handle", AsksOf(r, cmd, "syscall")
  PROVE  Ledger(r, "answer", cmd, th, fh, rd, q, o, n)
<1>1. Stages(r, "answer", cmd, th, fh, rd, q)
  BY DEF Ledger, Stages
<1>2. \A k : PendingOf(r, "answer", cmd, th, fh, rd, q, k) = PendingOf(r, pc, cmd, th, fh, rd, q, k)
  BY DEF PendingOf, InMail, InHand, One
<1>3. pc # "crashed"
  OBVIOUS
<1> QED BY <1>1, <1>2, <1>3 DEF Ledger, Balanced

\* A command that wants no reply is done with.
LEMMA LedgerDrop ==
  ASSUME NEW r, NEW pc, NEW cmd, NEW th, NEW fh, NEW rd, NEW q, NEW o, NEW n,
         Ledger(r, pc, cmd, th, fh, rd, q, o, n), pc = "handle", \A k \in Kinds : ~AsksOf(r, cmd, k)
  PROVE  Ledger(r, "tick", cmd, th, fh, rd, q, o, n)
<1>1. Stages(r, "tick", cmd, th, fh, rd, q)
  BY DEF Ledger, Stages
<1>2. \A k \in Kinds : PendingOf(r, "tick", cmd, th, fh, rd, q, k) = PendingOf(r, pc, cmd, th, fh, rd, q, k)
  BY DEF PendingOf, InMail, InHand, One
<1>3. pc # "crashed"
  OBVIOUS
<1> QED BY <1>1, <1>2, <1>3 DEF Ledger, Balanced

\* The process ends, and with it what was pending.
LEMMA LedgerCrash ==
  ASSUME NEW r, NEW pc, NEW cmd, NEW th, NEW fh, NEW rd, NEW q, NEW o, NEW n,
         Ledger(r, pc, cmd, th, fh, rd, q, o, n), pc # "clear"
  PROVE  Ledger(r, "crashed", cmd, th, fh, rd, q, o, n)
<1>1. Stages(r, "crashed", cmd, th, fh, rd, q)
  BY DEF Ledger, Stages
<1>2. ASSUME NEW k \in Kinds
      PROVE  o[k] <= n /\ PendingOf(r, "crashed", cmd, th, fh, rd, q, k) <= o[k]
  <2>1. /\ InMail(r, pc, th, k) \in Nat /\ InHand(r, pc, cmd, k) \in Nat /\ InReply(r, fh, k) \in Nat
        /\ CountOf(r, rd, k, Len(rd)) \in Nat /\ CountOf(r, q, k, Len(q)) \in Nat
    BY PartsType DEF Ledger
  <2>2. InMail(r, "crashed", th, k) = InMail(r, pc, th, k) /\ InHand(r, "crashed", cmd, k) = 0
    BY DEF InMail, InHand, One
  <2>3. o[k] \in Nat /\ o[k] <= n /\ PendingOf(r, pc, cmd, th, fh, rd, q, k) <= o[k]
    BY DEF Ledger, Balanced
  <2>4. PICK a \in Nat, b \in Nat, c \in Nat, d \in Nat, e \in Nat :
          /\ a = InMail(r, pc, th, k) /\ b = InHand(r, pc, cmd, k) /\ c = CountOf(r, rd, k, Len(rd))
          /\ d = CountOf(r, q, k, Len(q)) /\ e = InReply(r, fh, k)
    BY <2>1
  <2>5. a + b + c + d + e <= o[k]
    BY <2>3, <2>4 DEF PendingOf
  <2>6. PendingOf(r, "crashed", cmd, th, fh, rd, q, k) = a + 0 + c + d + e
    BY <2>2, <2>4 DEF PendingOf
  <2>7. a + 0 + c + d + e <= o[k]
    <3>1. PICK x \in Nat : x = o[k]
      BY <2>3
    <3>2. a + b + c + d + e <= x
      BY <2>5, <3>1
    <3>3. a + 0 + c + d + e <= x
      BY <3>2
    <3> QED BY <3>1, <3>3
  <2> QED BY <2>3, <2>6, <2>7
<1> QED BY <1>1, <1>2 DEF Ledger, Balanced

\* A reply to the command in hand goes to the end of the queue.
LEMMA LedgerReply ==
  ASSUME NEW r, NEW pc, NEW cmd, NEW th, NEW fh, NEW rd, NEW q, NEW o, NEW n, NEW w,
         Ledger(r, pc, cmd, th, fh, rd, q, o, n), pc \in {"handle", "answer"},
         w \in AWord, w # Zero, KindOf(r, w) \in Kinds, AsksOf(r, cmd, KindOf(r, w))
  PROVE  Ledger(r, "tick", cmd, th, fh, rd, Append(q, w), o, n)
<1> DEFINE t == Append(q, w)
<1>0. Longer(r, q, w, t) /\ Len(q) \in Nat
  <2>1. q \in Seq(AWord)
    BY DEF Ledger, Stages
  <2> QED BY <2>1, QueueAppend, LenProperties
<1> HIDE DEF t
<1>1. Stages(r, "tick", cmd, th, fh, rd, t)
  <2>1. ASSUME NEW i \in 1 .. Len(t) PROVE t[i] # Zero /\ KindOf(r, t[i]) \in Kinds
    <3>1. i \in 1 .. Len(q) \/ i = Len(q) + 1
      BY <1>0 DEF Longer
    <3> QED BY <1>0, <3>1 DEF Longer, Ledger, Stages
  <2>2. t \in Seq(AWord)
    BY <1>0 DEF Longer
  <2> QED BY <2>1, <2>2 DEF Ledger, Stages
<1>2. ASSUME NEW k \in Kinds
      PROVE  PendingOf(r, "tick", cmd, th, fh, rd, t, k) = PendingOf(r, pc, cmd, th, fh, rd, q, k)
  <2>1. /\ InMail(r, pc, th, k) \in Nat /\ InReply(r, fh, k) \in Nat
        /\ CountOf(r, rd, k, Len(rd)) \in Nat /\ CountOf(r, q, k, Len(q)) \in Nat
    BY PartsType DEF Ledger
  <2>2. InMail(r, "tick", th, k) = InMail(r, pc, th, k) /\ InHand(r, "tick", cmd, k) = 0
    BY DEF InMail, InHand, One
  <2>3. InHand(r, pc, cmd, k) = One(KindOf(r, w) = k)
    BY DEF InHand, AsksOf, One
  <2>4. CountOf(r, t, k, Len(t)) = CountOf(r, q, k, Len(q)) + One(KindOf(r, w) = k)
    BY <1>0 DEF Longer
  <2>5. PICK a \in Nat, b \in Nat, c \in Nat, d \in Nat, e \in Nat :
          /\ a = InMail(r, pc, th, k) /\ b = One(KindOf(r, w) = k) /\ c = CountOf(r, rd, k, Len(rd))
          /\ d = CountOf(r, q, k, Len(q)) /\ e = InReply(r, fh, k)
    BY <2>1 DEF One
  <2>6. a + 0 + c + (d + b) + e = a + b + c + d + e
    OBVIOUS
  <2> QED BY <2>2, <2>3, <2>4, <2>5, <2>6 DEF PendingOf
<1>3. pc # "crashed"
  OBVIOUS
<1>4. Ledger(r, "tick", cmd, th, fh, rd, t, o, n)
  BY <1>1, <1>2, <1>3 DEF Ledger, Balanced
<1> QED BY <1>4 DEF t

\* A read of the terminal joins those that wait.
LEMMA LedgerHold ==
  ASSUME NEW r, NEW pc, NEW cmd, NEW th, NEW fh, NEW rd, NEW q, NEW o, NEW n,
         Ledger(r, pc, cmd, th, fh, rd, q, o, n), pc = "handle", KindOf(r, cmd) = "read"
  PROVE  Ledger(r, "tick", cmd, th, fh, Append(rd, cmd), q, o, n)
<1> DEFINE t == Append(rd, cmd)
<1>0. Longer(r, rd, cmd, t) /\ Len(rd) \in Nat
  <2>1. rd \in Seq(AWord) /\ cmd \in AWord
    BY DEF Ledger, Stages
  <2> QED BY <2>1, QueueAppend, LenProperties
<1> HIDE DEF t
<1>1. Stages(r, "tick", cmd, th, fh, t, q)
  <2>1. ASSUME NEW i \in 1 .. Len(t) PROVE KindOf(r, t[i]) = "read"
    <3>1. i \in 1 .. Len(rd) \/ i = Len(rd) + 1
      BY <1>0 DEF Longer
    <3> QED BY <1>0, <3>1 DEF Longer, Ledger, Stages
  <2>2. t \in Seq(AWord)
    BY <1>0 DEF Longer
  <2> QED BY <2>1, <2>2 DEF Ledger, Stages
<1>2. ASSUME NEW k \in Kinds
      PROVE  PendingOf(r, "tick", cmd, th, fh, t, q, k) = PendingOf(r, pc, cmd, th, fh, rd, q, k)
  <2>1. /\ InMail(r, pc, th, k) \in Nat /\ InReply(r, fh, k) \in Nat
        /\ CountOf(r, rd, k, Len(rd)) \in Nat /\ CountOf(r, q, k, Len(q)) \in Nat
    BY PartsType DEF Ledger
  <2>2. InMail(r, "tick", th, k) = InMail(r, pc, th, k) /\ InHand(r, "tick", cmd, k) = 0
    BY DEF InMail, InHand, One
  <2>3. InHand(r, pc, cmd, k) = One(KindOf(r, cmd) = k)
    BY DEF InHand, AsksOf, One, Ledger, Stages
  <2>4. CountOf(r, t, k, Len(t)) = CountOf(r, rd, k, Len(rd)) + One(KindOf(r, cmd) = k)
    BY <1>0 DEF Longer
  <2>5. PICK a \in Nat, b \in Nat, c \in Nat, d \in Nat, e \in Nat :
          /\ a = InMail(r, pc, th, k) /\ b = One(KindOf(r, cmd) = k) /\ c = CountOf(r, rd, k, Len(rd))
          /\ d = CountOf(r, q, k, Len(q)) /\ e = InReply(r, fh, k)
    BY <2>1 DEF One
  <2>6. a + 0 + (c + b) + d + e = a + b + c + d + e
    OBVIOUS
  <2> QED BY <2>2, <2>3, <2>4, <2>5, <2>6 DEF PendingOf
<1>3. pc # "crashed"
  OBVIOUS
<1>4. Ledger(r, "tick", cmd, th, fh, t, q, o, n)
  BY <1>1, <1>2, <1>3 DEF Ledger, Balanced
<1> QED BY <1>4 DEF t

\* The oldest read is answered.
LEMMA LedgerRead ==
  ASSUME NEW r, NEW pc, NEW cmd, NEW th, NEW fh, NEW rd, NEW q, NEW o, NEW n, NEW w,
         Ledger(r, pc, cmd, th, fh, rd, q, o, n), pc = "tick", rd # <<>>,
         w \in AWord, w # Zero, KindOf(r, w) = "read"
  PROVE  Ledger(r, "fromhost", cmd, th, fh, Tail(rd), Append(q, w), o, n)
<1> DEFINE t == Append(q, w)
           u == Tail(rd)
<1>0. Longer(r, q, w, t) /\ Shorter(r, rd, u) /\ Len(q) \in Nat /\ Len(rd) \in Nat \ {0}
  <2>1. q \in Seq(AWord) /\ rd \in Seq(AWord)
    BY DEF Ledger, Stages
  <2> QED BY <2>1, QueueAppend, QueueTail, LenProperties
<1> HIDE DEF t, u
<1>1. Stages(r, "fromhost", cmd, th, fh, u, t)
  <2>1. ASSUME NEW i \in 1 .. Len(t) PROVE t[i] # Zero /\ KindOf(r, t[i]) \in Kinds
    <3>1. i \in 1 .. Len(q) \/ i = Len(q) + 1
      BY <1>0 DEF Longer
    <3> QED BY <1>0, <3>1 DEF Longer, Ledger, Stages, Kinds
  <2>2. ASSUME NEW i \in 1 .. Len(u) PROVE KindOf(r, u[i]) = "read"
    <3>1. i + 1 \in 1 .. Len(rd) /\ u[i] = rd[i + 1]
      BY <1>0 DEF Shorter
    <3> QED BY <3>1 DEF Ledger, Stages
  <2>3. t \in Seq(AWord) /\ u \in Seq(AWord)
    BY <1>0 DEF Longer, Shorter
  <2> QED BY <2>1, <2>2, <2>3 DEF Ledger, Stages
<1>2. ASSUME NEW k \in Kinds
      PROVE  PendingOf(r, "fromhost", cmd, th, fh, u, t, k) = PendingOf(r, pc, cmd, th, fh, rd, q, k)
  <2>1. /\ InMail(r, pc, th, k) \in Nat /\ InHand(r, pc, cmd, k) \in Nat /\ InReply(r, fh, k) \in Nat
        /\ CountOf(r, rd, k, Len(rd)) \in Nat /\ CountOf(r, q, k, Len(q)) \in Nat
        /\ CountOf(r, u, k, Len(u)) \in Nat
    <3>1. Len(u) \in Nat
      BY <1>0 DEF Shorter
    <3> QED BY <3>1, PartsType, CountType DEF Ledger
  <2>2. InMail(r, "fromhost", th, k) = InMail(r, pc, th, k) /\ InHand(r, "fromhost", cmd, k) = InHand(r, pc, cmd, k)
    BY DEF InMail, InHand, One
  <2>3. KindOf(r, rd[1]) = "read"
    BY <1>0 DEF Ledger, Stages
  <2>4. /\ CountOf(r, t, k, Len(t)) = CountOf(r, q, k, Len(q)) + One("read" = k)
        /\ CountOf(r, rd, k, Len(rd)) = CountOf(r, u, k, Len(u)) + One("read" = k)
    BY <1>0, <2>3 DEF Longer, Shorter
  <2>5. PICK a \in Nat, b \in Nat, c \in Nat, d \in Nat, e \in Nat, x \in Nat :
          /\ a = InMail(r, pc, th, k) /\ b = InHand(r, pc, cmd, k) /\ c = CountOf(r, u, k, Len(u))
          /\ d = CountOf(r, q, k, Len(q)) /\ e = InReply(r, fh, k) /\ x = One("read" = k)
    BY <2>1 DEF One
  <2>6. a + b + c + (d + x) + e = a + b + (c + x) + d + e
    OBVIOUS
  <2> QED BY <2>2, <2>4, <2>5, <2>6 DEF PendingOf
<1>3. pc # "crashed"
  OBVIOUS
<1>4. Ledger(r, "fromhost", cmd, th, fh, u, t, o, n)
  BY <1>1, <1>2, <1>3 DEF Ledger, Balanced
<1> QED BY <1>4 DEF t, u

\* The oldest reply is written to fromhost.
LEMMA LedgerWrite ==
  ASSUME NEW r, NEW pc, NEW cmd, NEW th, NEW fh, NEW rd, NEW q, NEW o, NEW n,
         Ledger(r, pc, cmd, th, fh, rd, q, o, n), pc = "reply"
  PROVE  Ledger(r, "poll", cmd, th, Head(q), rd, Tail(q), o, n) /\ Head(q) = q[1]
<1> DEFINE u == Tail(q)
<1>0. Shorter(r, q, u) /\ Head(q) = q[1] /\ Len(q) \in Nat \ {0} /\ fh = Zero
  <2>1. q \in Seq(AWord) /\ q # <<>> /\ fh = Zero
    BY DEF Ledger, Stages
  <2> QED BY <2>1, QueueTail
<1> HIDE DEF u
<1>1. q[1] # Zero /\ q[1] \in AWord /\ KindOf(r, q[1]) \in Kinds
  BY <1>0 DEF Ledger, Stages, Shorter
<1>2. Stages(r, "poll", cmd, th, q[1], rd, u)
  <2>1. ASSUME NEW i \in 1 .. Len(u) PROVE u[i] # Zero /\ KindOf(r, u[i]) \in Kinds
    <3>1. i + 1 \in 1 .. Len(q) /\ u[i] = q[i + 1]
      BY <1>0 DEF Shorter
    <3> QED BY <3>1 DEF Ledger, Stages
  <2>2. u \in Seq(AWord)
    BY <1>0 DEF Shorter
  <2> QED BY <1>1, <2>1, <2>2 DEF Ledger, Stages
<1>3. ASSUME NEW k \in Kinds
      PROVE  PendingOf(r, "poll", cmd, th, q[1], rd, u, k) = PendingOf(r, pc, cmd, th, fh, rd, q, k)
  <2>1. /\ InMail(r, pc, th, k) \in Nat /\ InHand(r, pc, cmd, k) \in Nat
        /\ CountOf(r, rd, k, Len(rd)) \in Nat /\ CountOf(r, u, k, Len(u)) \in Nat
    <3>1. Len(u) \in Nat
      BY <1>0 DEF Shorter
    <3> QED BY <3>1, PartsType, CountType DEF Ledger
  <2>2. /\ InMail(r, "poll", th, k) = InMail(r, pc, th, k) /\ InHand(r, "poll", cmd, k) = InHand(r, pc, cmd, k)
        /\ InReply(r, fh, k) = 0 /\ InReply(r, q[1], k) = One(KindOf(r, q[1]) = k)
    BY <1>0, <1>1 DEF InMail, InHand, InReply, One
  <2>3. CountOf(r, q, k, Len(q)) = CountOf(r, u, k, Len(u)) + One(KindOf(r, q[1]) = k)
    BY <1>0 DEF Shorter
  <2>4. PICK a \in Nat, b \in Nat, c \in Nat, d \in Nat, x \in Nat :
          /\ a = InMail(r, pc, th, k) /\ b = InHand(r, pc, cmd, k) /\ c = CountOf(r, rd, k, Len(rd))
          /\ d = CountOf(r, u, k, Len(u)) /\ x = One(KindOf(r, q[1]) = k)
    BY <2>1 DEF One
  <2>5. a + b + c + d + x = a + b + c + (d + x) + 0
    OBVIOUS
  <2> QED BY <2>2, <2>3, <2>4, <2>5 DEF PendingOf
<1>4. pc # "crashed"
  OBVIOUS
<1>5. Ledger(r, "poll", cmd, th, q[1], rd, u, o, n)
  BY <1>2, <1>3, <1>4 DEF Ledger, Balanced
<1> QED BY <1>0, <1>5 DEF u

\* The program writes a word to tohost, and is owed one reply more if it asks for one.
Owes(r, w, o, n, o2, n2) ==
  /\ o2 \in [Kinds -> Nat] /\ n2 \in Nat
  /\ \A k \in Kinds : o2[k] = o[k] + One(AsksOf(r, w, k)) /\ o2[k] <= n2
LEMMA LedgerSend ==
  ASSUME NEW r, NEW pc, NEW cmd, NEW th, NEW fh, NEW rd, NEW q, NEW o, NEW n, NEW w, NEW o2, NEW n2,
         Ledger(r, pc, cmd, th, fh, rd, q, o, n), th = Zero, w \in AWord, Owes(r, w, o, n, o2, n2)
  PROVE  Ledger(r, pc, cmd, w, fh, rd, q, o2, n2)
<1>1. pc # "clear"
  BY DEF Ledger, Stages
<1>2. Stages(r, pc, cmd, w, fh, rd, q)
  BY <1>1 DEF Ledger, Stages
<1>3. ASSUME NEW k \in Kinds
      PROVE  Rebalanced(PendingOf(r, pc, cmd, th, fh, rd, q, k), PendingOf(r, pc, cmd, w, fh, rd, q, k), o[k], o2[k])
  <2>1. /\ InHand(r, pc, cmd, k) \in Nat /\ InReply(r, fh, k) \in Nat
        /\ CountOf(r, rd, k, Len(rd)) \in Nat /\ CountOf(r, q, k, Len(q)) \in Nat /\ o[k] \in Nat
    BY PartsType DEF Ledger, Balanced
  <2>2. InMail(r, pc, th, k) = 0 /\ InMail(r, pc, w, k) = One(AsksOf(r, w, k))
    BY <1>1 DEF InMail, AsksOf, One
  <2>3. PICK b \in Nat, c \in Nat, d \in Nat, e \in Nat, x \in Nat, y \in Nat :
          /\ b = InHand(r, pc, cmd, k) /\ c = CountOf(r, rd, k, Len(rd)) /\ d = CountOf(r, q, k, Len(q))
          /\ e = InReply(r, fh, k) /\ x = One(AsksOf(r, w, k)) /\ y = o[k]
    BY <2>1 DEF One
  <2>4. PendingOf(r, pc, cmd, th, fh, rd, q, k) = 0 + b + c + d + e
        /\ PendingOf(r, pc, cmd, w, fh, rd, q, k) = x + b + c + d + e
    BY <2>2, <2>3 DEF PendingOf
  <2>5. o2[k] = y + x
    BY <2>3 DEF Owes
  <2>6. Rebalanced(0 + b + c + d + e, x + b + c + d + e, y, y + x)
    BY DEF Rebalanced
  <2> QED BY <2>3, <2>4, <2>5, <2>6
<1>4. Balanced(r, pc, cmd, th, fh, rd, q, o, n)
  BY DEF Ledger
<1>5. Balanced(r, pc, cmd, w, fh, rd, q, o2, n2)
  BY <1>3, <1>4, BalanceKept DEF Owes
<1> QED BY <1>2, <1>5 DEF Ledger

\* The program takes a reply, which it is owed.
LEMMA LedgerTake ==
  ASSUME NEW r, NEW pc, NEW cmd, NEW th, NEW fh, NEW rd, NEW q, NEW o, NEW n,
         Ledger(r, pc, cmd, th, fh, rd, q, o, n), fh # Zero
  PROVE  Ledger(r, pc, cmd, th, Zero, rd, q, [o EXCEPT ![KindOf(r, fh)] = @ - 1], n)
<1> DEFINE j == KindOf(r, fh)
           o2 == [o EXCEPT ![j] = @ - 1]
<1>0. j \in Kinds /\ o \in [Kinds -> Nat] /\ n \in Nat
  BY DEF Ledger, Stages, Balanced
<1>1. Stages(r, pc, cmd, th, Zero, rd, q)
  <2>1. Zero \in AWord /\ pc # "reply"
    BY DEF Ledger, Stages, Zero, AWord
  <2> QED BY <2>1 DEF Ledger, Stages
<1> HIDE DEF j
<1>2. ASSUME NEW k \in Kinds
      PROVE  /\ o2[k] \in Nat /\ o2[k] <= n
             /\ Rebalanced(PendingOf(r, pc, cmd, th, fh, rd, q, k), PendingOf(r, pc, cmd, th, Zero, rd, q, k), o[k], o2[k])
  <2>1. /\ InMail(r, pc, th, k) \in Nat /\ InHand(r, pc, cmd, k) \in Nat
        /\ CountOf(r, rd, k, Len(rd)) \in Nat /\ CountOf(r, q, k, Len(q)) \in Nat
    BY PartsType DEF Ledger
  <2>2. InReply(r, fh, k) = One(j = k) /\ InReply(r, Zero, k) = 0
    BY DEF InReply, One, j
  <2>3. PICK a \in Nat, b \in Nat, c \in Nat, d \in Nat, x \in Nat, y \in Nat :
          /\ a = InMail(r, pc, th, k) /\ b = InHand(r, pc, cmd, k) /\ c = CountOf(r, rd, k, Len(rd))
          /\ d = CountOf(r, q, k, Len(q)) /\ x = One(j = k) /\ y = o[k]
    BY <1>0, <2>1 DEF One
  <2>4. PendingOf(r, pc, cmd, th, fh, rd, q, k) = a + b + c + d + x
        /\ PendingOf(r, pc, cmd, th, Zero, rd, q, k) = a + b + c + d + 0
    BY <2>2, <2>3 DEF PendingOf
  <2>5. a + b + c + d + x <= y /\ y <= n
    BY <2>3, <2>4 DEF Ledger, Balanced
  <2>6. o2[k] = y - x
    BY <1>0, <2>3 DEF One
  <2>7. y - x \in Nat /\ y - x <= n /\ Rebalanced(a + b + c + d + x, a + b + c + d + 0, y, y - x)
    BY <1>0, <2>5 DEF Rebalanced
  <2> QED BY <2>3, <2>4, <2>6, <2>7
<1>3. o2 \in [Kinds -> Nat]
  BY <1>0, <1>2
<1>4. Balanced(r, pc, cmd, th, fh, rd, q, o, n)
  BY DEF Ledger
<1> HIDE DEF o2
<1>5. Balanced(r, pc, cmd, th, Zero, rd, q, o2, n)
  BY <1>0, <1>2, <1>3, <1>4, BalanceKept
<1>6. Ledger(r, pc, cmd, th, Zero, rd, q, o2, n)
  BY <1>1, <1>5 DEF Ledger
<1> QED BY <1>6 DEF o2, j

\* The characters: those the program got, those in replies, and those left to
\* read, are the ones that were typed.
LEMMA CountGrows ==
  ASSUME NEW r, NEW s, NEW k, NEW n \in Nat, NEW i \in 1 .. n
  PROVE  CountOf(r, s, k, i) <= CountOf(r, s, k, n) /\ (KindOf(r, s[i]) = k => CountOf(r, s, k, i) >= 1)
<1> DEFINE C(m) == {j \in 1 .. m : KindOf(r, s[j]) = k}
<1>1. C(i) \subseteq C(n) /\ C(n) \subseteq 1 .. n /\ IsFiniteSet(1 .. n)
  BY FS_Interval
<1>2. IsFiniteSet(C(n)) /\ Cardinality(C(i)) <= Cardinality(C(n))
  BY <1>1, FS_Subset
<1>3. i - 1 \in Nat /\ (i - 1) + 1 = i
  OBVIOUS
<1>4. CountOf(r, s, k, (i - 1) + 1) = CountOf(r, s, k, i - 1) + One(KindOf(r, s[(i - 1) + 1]) = k)
  BY <1>3, CountNext
<1>5. CountOf(r, s, k, i - 1) \in Nat
  BY <1>3, CountType
<1> QED BY <1>2, <1>3, <1>4, <1>5 DEF CountOf, One

OnWay(r, fromhost, queue, n) == One(KindOf(r, fromhost) = "read") + CountOf(r, queue, "read", n)
InOrder(r, fromhost, queue, got, typed, keyed) ==
  /\ Len(got) + OnWay(r, fromhost, queue, Len(queue)) + Len(typed) = Len(keyed)
  /\ \A i \in 1 .. Len(got) : got[i] = Char(keyed[i])
  /\ KindOf(r, fromhost) = "read" => fromhost.payload = Char(keyed[Len(got) + 1])
  /\ \A i \in 1 .. Len(queue) :
       KindOf(r, queue[i]) = "read" => queue[i].payload = Char(keyed[Len(got) + OnWay(r, fromhost, queue, i)])
  /\ \A i \in 1 .. Len(typed) : typed[i] = keyed[Len(got) + OnWay(r, fromhost, queue, Len(queue)) + i]
Story(r, fromhost, queue, got, typed, keyed) ==
  /\ queue \in Seq(AWord) /\ got \in Seq(Nat) /\ typed \in Seq(Nat) /\ keyed \in Seq(Nat)
  /\ InOrder(r, fromhost, queue, got, typed, keyed)
LEMMA StoryIs ==
  /\ CharactersInOrder = InOrder(job.rfb, mem.fromhost, host.fromhost_queue, prog.got, term.typed, term.keyed)
  /\ CharactersInOrder' = InOrder(job'.rfb, mem'.fromhost, host'.fromhost_queue, prog'.got, term'.typed, term'.keyed)
BY HandlerIs DEF CharactersInOrder, InOrder, OnWay, Count, CountOf

LEMMA WayType ==
  ASSUME NEW r, NEW fh, NEW q, NEW got, NEW ty, NEW ke, Story(r, fh, q, got, ty, ke)
  PROVE  /\ Len(q) \in Nat /\ Len(got) \in Nat /\ Len(ty) \in Nat /\ Len(ke) \in Nat
         /\ \A i \in 0 .. Len(q) : CountOf(r, q, "read", i) \in Nat /\ OnWay(r, fh, q, i) \in Nat
<1>1. Len(q) \in Nat /\ Len(got) \in Nat /\ Len(ty) \in Nat /\ Len(ke) \in Nat
  BY LenProperties DEF Story
<1> QED BY <1>1, CountType DEF OnWay, One

\* A reply without a character.
LEMMA StoryReply ==
  ASSUME NEW r, NEW fh, NEW q, NEW got, NEW ty, NEW ke, NEW w,
         Story(r, fh, q, got, ty, ke), w \in AWord, KindOf(r, w) # "read"
  PROVE  Story(r, fh, Append(q, w), got, ty, ke)
<1> DEFINE t == Append(q, w)
<1>0. Longer(r, q, w, t)
  BY QueueAppend DEF Story
<1> HIDE DEF t
<1>1. PICK n \in Nat, g \in Nat, y \in Nat, e \in Nat : n = Len(q) /\ g = Len(got) /\ y = Len(ty) /\ e = Len(ke)
  BY WayType
<1>2. /\ Len(t) = n + 1 /\ t[n + 1] = w /\ t \in Seq(AWord)
      /\ \A i \in 1 .. n : t[i] = q[i]
      /\ OnWay(r, fh, t, n + 1) = OnWay(r, fh, q, n)
      /\ \A i \in 0 .. n : OnWay(r, fh, t, i) = OnWay(r, fh, q, i)
  <2>1. CountOf(r, q, "read", n) \in Nat
    BY <1>1, WayType
  <2>2. CountOf(r, t, "read", n + 1) = CountOf(r, q, "read", n)
    BY <1>0, <1>1, <2>1 DEF Longer, One
  <2> QED BY <1>0, <1>1, <2>2 DEF Longer, OnWay
<1>3. InOrder(r, fh, q, got, ty, ke)
  BY DEF Story
<1>4. ASSUME NEW i \in 1 .. n + 1, KindOf(r, t[i]) = "read"
      PROVE  t[i].payload = Char(ke[g + OnWay(r, fh, t, i)])
  <2>1. i \in 1 .. n
    BY <1>2, <1>4
  <2> QED BY <1>1, <1>2, <1>3, <1>4, <2>1 DEF InOrder
<1>5. InOrder(r, fh, t, got, ty, ke)
  BY <1>1, <1>2, <1>3, <1>4 DEF InOrder
<1> QED BY <1>2, <1>5 DEF Story, t

\* The reply with the oldest character.
LEMMA StoryRead ==
  ASSUME NEW r, NEW fh, NEW q, NEW got, NEW ty, NEW ke, NEW w,
         Story(r, fh, q, got, ty, ke), ty # <<>>,
         w \in AWord, KindOf(r, w) = "read", w.payload = Char(Head(ty))
  PROVE  Story(r, fh, Append(q, w), got, Tail(ty), ke)
<1> DEFINE t == Append(q, w)
           u == Tail(ty)
<1>0. Longer(r, q, w, t)
  BY QueueAppend DEF Story
<1>1. PICK n \in Nat, g \in Nat, y \in Nat, e \in Nat : n = Len(q) /\ g = Len(got) /\ y = Len(ty) /\ e = Len(ke)
  BY WayType
<1>2. u \in Seq(Nat) /\ y \in Nat \ {0} /\ Len(u) = y - 1 /\ (\A i \in 1 .. y - 1 : u[i] = ty[i + 1]) /\ Head(ty) = ty[1]
  BY <1>1, HeadTailProperties, EmptySeq DEF Story
<1> HIDE DEF t, u
<1>3. PICK x \in Nat : x = OnWay(r, fh, q, n)
  BY <1>1, WayType
<1>4. /\ Len(t) = n + 1 /\ t[n + 1] = w /\ t \in Seq(AWord)
      /\ \A i \in 1 .. n : t[i] = q[i]
      /\ OnWay(r, fh, t, n + 1) = x + 1
      /\ \A i \in 0 .. n : OnWay(r, fh, t, i) = OnWay(r, fh, q, i)
  <2>1. PICK c \in Nat, f \in Nat : c = CountOf(r, q, "read", n) /\ f = One(KindOf(r, fh) = "read")
    BY <1>1, WayType DEF One
  <2>2. CountOf(r, t, "read", n + 1) = c + 1
    BY <1>0, <1>1, <2>1 DEF Longer, One
  <2>3. x = f + c /\ OnWay(r, fh, t, n + 1) = f + (c + 1)
    BY <1>3, <2>1, <2>2 DEF OnWay
  <2>4. OnWay(r, fh, t, n + 1) = x + 1
    BY <2>3
  <2> QED BY <1>0, <1>1, <2>4 DEF Longer, OnWay
<1>5. /\ g + x + y = e
      /\ \A i \in 1 .. g : got[i] = Char(ke[i])
      /\ KindOf(r, fh) = "read" => fh.payload = Char(ke[g + 1])
      /\ \A i \in 1 .. n : KindOf(r, q[i]) = "read" => q[i].payload = Char(ke[g + OnWay(r, fh, q, i)])
      /\ \A i \in 1 .. y : ty[i] = ke[g + x + i]
  BY <1>1, <1>3 DEF Story, InOrder
<1>6. ASSUME NEW i \in 1 .. n + 1, KindOf(r, t[i]) = "read"
      PROVE  t[i].payload = Char(ke[g + OnWay(r, fh, t, i)])
  <2>1. CASE i \in 1 .. n
    BY <1>4, <1>5, <1>6, <2>1
  <2>2. CASE i = n + 1
    <3>1. ty[1] = ke[g + x + 1] /\ g + x + 1 = g + (x + 1)
      BY <1>2, <1>5
    <3> QED BY <1>2, <1>4, <2>2, <3>1
  <2> QED BY <2>1, <2>2
<1>7. ASSUME NEW i \in 1 .. y - 1 PROVE u[i] = ke[g + (x + 1) + i]
  <2>1. i + 1 \in 1 .. y /\ g + x + (i + 1) = g + (x + 1) + i
    BY <1>2
  <2> QED BY <1>2, <1>5, <2>1
<1>8. g + (x + 1) + (y - 1) = e
  BY <1>2, <1>5
<1>9. InOrder(r, fh, t, got, u, ke)
  <2>1. Len(t) = n + 1 /\ OnWay(r, fh, t, Len(t)) = x + 1 /\ Len(u) = y - 1
    BY <1>2, <1>4
  <2>2. Len(got) + OnWay(r, fh, t, Len(t)) + Len(u) = Len(ke)
    BY <1>1, <1>8, <2>1
  <2>3. \A i \in 1 .. Len(t) :
          KindOf(r, t[i]) = "read" => t[i].payload = Char(ke[Len(got) + OnWay(r, fh, t, i)])
    BY <1>1, <1>6, <2>1
  <2>4. \A i \in 1 .. Len(u) : u[i] = ke[Len(got) + OnWay(r, fh, t, Len(t)) + i]
    BY <1>1, <1>7, <2>1
  <2>5. (\A i \in 1 .. Len(got) : got[i] = Char(ke[i]))
        /\ (KindOf(r, fh) = "read" => fh.payload = Char(ke[Len(got) + 1]))
    BY <1>1, <1>5
  <2> QED BY <2>2, <2>3, <2>4, <2>5 DEF InOrder
<1> QED BY <1>2, <1>4, <1>9 DEF Story, t, u

\* A reply moves from the queue to fromhost.
LEMMA StoryWrite ==
  ASSUME NEW r, NEW fh, NEW q, NEW got, NEW ty, NEW ke,
         Story(r, fh, q, got, ty, ke), fh = Zero, q # <<>>
  PROVE  Story(r, Head(q), Tail(q), got, ty, ke)
<1> DEFINE u == Tail(q)
<1>0. Shorter(r, q, u) /\ Head(q) = q[1]
  BY QueueTail DEF Story
<1>1. PICK n \in Nat, g \in Nat, y \in Nat, e \in Nat : n = Len(q) /\ g = Len(got) /\ y = Len(ty) /\ e = Len(ke)
  BY WayType
<1>2. n \in Nat \ {0}
  BY <1>1, QueueTail DEF Story
<1> HIDE DEF u
<1>3. KindOf(r, fh) # "read"
  BY KindOfZero
<1>4. ASSUME NEW i \in 0 .. n - 1 PROVE OnWay(r, q[1], u, i) = OnWay(r, fh, q, i + 1)
  <2>1. CountOf(r, q, "read", i + 1) = CountOf(r, u, "read", i) + One(KindOf(r, q[1]) = "read")
    BY <1>0, <1>1 DEF Shorter
  <2>2. CountOf(r, u, "read", i) \in Nat /\ CountOf(r, q, "read", i + 1) \in Nat
    BY CountType
  <2> QED BY <1>3, <2>1, <2>2 DEF OnWay, One
<1>5. /\ Len(u) = n - 1 /\ u \in Seq(AWord)
      /\ \A i \in 1 .. n - 1 : u[i] = q[i + 1]
      /\ OnWay(r, q[1], u, n - 1) = OnWay(r, fh, q, n)
  <2>1. n - 1 \in 0 .. n - 1 /\ (n - 1) + 1 = n
    BY <1>2
  <2>2. OnWay(r, q[1], u, n - 1) = OnWay(r, fh, q, (n - 1) + 1)
    BY <1>4, <2>1
  <2> QED BY <1>0, <1>1, <2>1, <2>2 DEF Shorter
<1>6. InOrder(r, fh, q, got, ty, ke)
  BY DEF Story
<1>7. ASSUME NEW i \in 1 .. n - 1, KindOf(r, u[i]) = "read"
      PROVE  u[i].payload = Char(ke[g + OnWay(r, q[1], u, i)])
  <2>1. i \in 0 .. n - 1 /\ i + 1 \in 1 .. n
    BY <1>2
  <2> QED BY <1>1, <1>4, <1>5, <1>6, <1>7, <2>1 DEF InOrder
<1>8. KindOf(r, q[1]) = "read" => q[1].payload = Char(ke[g + 1])
  <2>1. CountOf(r, u, "read", 0) = 0
    BY CountType
  <2>2. KindOf(r, q[1]) = "read" => OnWay(r, q[1], u, 0) = 1
    BY <2>1 DEF OnWay, One
  <2>3. 0 \in 0 .. n - 1 /\ 0 + 1 = 1 /\ 1 \in 1 .. n
    BY <1>2
  <2>4. OnWay(r, q[1], u, 0) = OnWay(r, fh, q, 1)
    BY <1>4, <2>3
  <2> QED BY <1>1, <1>6, <2>2, <2>3, <2>4 DEF InOrder
<1>9. InOrder(r, q[1], u, got, ty, ke)
  BY <1>1, <1>5, <1>6, <1>7, <1>8 DEF InOrder
<1> QED BY <1>0, <1>5, <1>9 DEF Story, u

\* The program takes a reply, and its character if it has one.
LEMMA StoryTake ==
  ASSUME NEW r, NEW fh, NEW q, NEW got, NEW ty, NEW ke,
         Story(r, fh, q, got, ty, ke), fh \in AWord
  PROVE  Story(r, Zero, q, IF KindOf(r, fh) = "read" THEN Append(got, fh.payload) ELSE got, ty, ke)
<1>0. KindOf(r, Zero) # "read"
  BY KindOfZero
<1>1. CASE KindOf(r, fh) # "read"
  <2>1. \A i : OnWay(r, Zero, q, i) = OnWay(r, fh, q, i)
    BY <1>0, <1>1 DEF OnWay
  <2> QED BY <1>0, <1>1, <2>1 DEF Story, InOrder
<1>2. CASE KindOf(r, fh) = "read"
  <2> DEFINE t == Append(got, fh.payload)
  <2>1. PICK n \in Nat, g \in Nat, y \in Nat, e \in Nat : n = Len(q) /\ g = Len(got) /\ y = Len(ty) /\ e = Len(ke)
    BY WayType
  <2>2. t \in Seq(Nat) /\ Len(t) = g + 1 /\ t[g + 1] = fh.payload /\ \A i \in 1 .. g : t[i] = got[i]
    <3>1. fh.payload \in Nat /\ got \in Seq(Nat)
      BY DEF Story, AWord
    <3> QED BY <2>1, <3>1, AppendProperties
  <2> HIDE DEF t
  <2>3. ASSUME NEW i \in 0 .. n
        PROVE  OnWay(r, fh, q, i) = 1 + OnWay(r, Zero, q, i) /\ OnWay(r, Zero, q, i) \in Nat
    <3>1. CountOf(r, q, "read", i) \in Nat
      BY CountType
    <3> QED BY <1>0, <1>2, <3>1 DEF OnWay, One
  <2>4. InOrder(r, fh, q, got, ty, ke)
    BY DEF Story
  <2>5. PICK x \in Nat : x = OnWay(r, Zero, q, n) /\ OnWay(r, fh, q, n) = 1 + x
    BY <2>3
  <2>6. g + (1 + x) + y = e /\ (g + 1) + x + y = e
    BY <2>1, <2>4, <2>5 DEF InOrder
  <2>7. ASSUME NEW i \in 1 .. g + 1 PROVE t[i] = Char(ke[i])
    <3>1. i \in 1 .. g \/ i = g + 1
      OBVIOUS
    <3> QED BY <1>2, <2>1, <2>2, <2>4, <3>1 DEF InOrder
  <2>8. ASSUME NEW i \in 1 .. n, KindOf(r, q[i]) = "read"
        PROVE  q[i].payload = Char(ke[(g + 1) + OnWay(r, Zero, q, i)])
    <3>1. PICK z \in Nat : z = OnWay(r, Zero, q, i) /\ OnWay(r, fh, q, i) = 1 + z
      BY <2>3
    <3>2. g + (1 + z) = (g + 1) + z
      OBVIOUS
    <3> QED BY <2>1, <2>4, <2>8, <3>1, <3>2 DEF InOrder
  <2>9. ASSUME NEW i \in 1 .. y PROVE ty[i] = ke[(g + 1) + x + i]
    <3>1. g + (1 + x) + i = (g + 1) + x + i
      OBVIOUS
    <3> QED BY <2>1, <2>4, <2>5, <3>1 DEF InOrder
  <2>10. InOrder(r, Zero, q, t, ty, ke)
    BY <1>0, <2>1, <2>2, <2>5, <2>6, <2>7, <2>8, <2>9 DEF InOrder
  <2> QED BY <1>2, <2>2, <2>10 DEF Story, t
<1> QED BY <1>1, <1>2

\* A character is typed.
LEMMA StoryType ==
  ASSUME NEW r, NEW fh, NEW q, NEW got, NEW ty, NEW ke, NEW ch \in Nat,
         Story(r, fh, q, got, ty, ke)
  PROVE  Story(r, fh, q, got, Append(ty, ch), Append(ke, ch))
<1> DEFINE t == Append(ty, ch)
           u == Append(ke, ch)
<1>1. PICK n \in Nat, g \in Nat, y \in Nat, e \in Nat : n = Len(q) /\ g = Len(got) /\ y = Len(ty) /\ e = Len(ke)
  BY WayType
<1>2. /\ t \in Seq(Nat) /\ Len(t) = y + 1 /\ t[y + 1] = ch /\ \A i \in 1 .. y : t[i] = ty[i]
      /\ u \in Seq(Nat) /\ Len(u) = e + 1 /\ u[e + 1] = ch /\ \A i \in 1 .. e : u[i] = ke[i]
  <2>1. ty \in Seq(Nat) /\ ke \in Seq(Nat)
    BY DEF Story
  <2> QED BY <1>1, <2>1, AppendProperties
<1> HIDE DEF t, u
<1>3. InOrder(r, fh, q, got, ty, ke)
  BY DEF Story
<1>4. PICK x \in Nat : x = OnWay(r, fh, q, n)
  BY <1>1, WayType
<1>5. g + x + y = e
  BY <1>1, <1>3, <1>4 DEF InOrder
<1>6. KindOf(r, fh) = "read" => x >= 1
  <2>1. CountOf(r, q, "read", n) \in Nat
    BY CountType
  <2> QED BY <1>4, <2>1 DEF OnWay, One
<1>7. ASSUME NEW i \in 1 .. n, KindOf(r, q[i]) = "read"
      PROVE  q[i].payload = Char(u[g + OnWay(r, fh, q, i)])
  <2>1. PICK c \in Nat, d \in Nat, f \in Nat :
          c = CountOf(r, q, "read", i) /\ d = CountOf(r, q, "read", n) /\ f = One(KindOf(r, fh) = "read")
    BY CountType DEF One
  <2>2. c <= d /\ c >= 1
    BY <1>7, <2>1, CountGrows
  <2>3. x = f + d /\ OnWay(r, fh, q, i) = f + c
    BY <1>4, <2>1 DEF OnWay
  <2>4. g + (f + c) \in 1 .. e
    BY <1>5, <2>2, <2>3
  <2> QED BY <1>1, <1>2, <1>3, <1>7, <2>3, <2>4 DEF InOrder
<1>8. ASSUME NEW i \in 1 .. y + 1 PROVE t[i] = u[g + x + i]
  <2>1. CASE i \in 1 .. y
    <3>1. g + x + i \in 1 .. e
      BY <1>5, <2>1
    <3> QED BY <1>1, <1>2, <1>3, <1>4, <2>1, <3>1 DEF InOrder
  <2>2. CASE i = y + 1
    <3>1. g + x + i = e + 1
      BY <1>5, <2>2
    <3> QED BY <1>2, <2>2, <3>1
  <2> QED BY <2>1, <2>2
<1>9. ASSUME NEW i \in 1 .. g PROVE got[i] = Char(u[i])
  <2>1. i \in 1 .. e
    BY <1>5
  <2> QED BY <1>1, <1>2, <1>3, <2>1 DEF InOrder
<1>10. KindOf(r, fh) = "read" => fh.payload = Char(u[g + 1])
  <2>1. KindOf(r, fh) = "read" => g + 1 \in 1 .. e
    BY <1>5, <1>6
  <2> QED BY <1>1, <1>2, <1>3, <2>1 DEF InOrder
<1>11. g + x + (y + 1) = e + 1
  BY <1>5
<1>12. InOrder(r, fh, q, got, t, u)
  BY <1>1, <1>2, <1>4, <1>7, <1>8, <1>9, <1>10, <1>11 DEF InOrder
<1> QED BY <1>2, <1>12 DEF Story, t, u

----------------------------------------------------------------------------
\* The replies in the simulation.
HostPcs == {"start", "poll", "clear", "handle", "answer", "tick", "fromhost", "reply",
            "stop", "done", "idle", "crashed"}
ReplyFields ==
  /\ {"tohost", "fromhost", "call"} \subseteq DOMAIN mem
  /\ {"pc", "cmd", "pending_reads", "fromhost_queue", "stopped", "signal_exit"} \subseteq DOMAIN host
  /\ {"typed", "keyed"} \subseteq DOMAIN term /\ {"owed", "sends", "got"} \subseteq DOMAIN prog
  /\ host.pc \in HostPcs /\ host.stopped \in BOOLEAN /\ host.signal_exit \in BOOLEAN
Books ==
  Ledger(job.rfb, host.pc, host.cmd, mem.tohost, mem.fromhost, host.pending_reads,
         host.fromhost_queue, prog.owed, prog.sends)
Tale == Story(job.rfb, mem.fromhost, host.fromhost_queue, prog.got, term.typed, term.keyed)
Replies == ReplyFields /\ Books /\ Tale /\ prog.sends <= job.sends
ReplyInv == ResultFields /\ LegalProgram(job) /\ Exits /\ Replies

\* Where a step of the host leaves the words.
Moves(pc, cmd, tohost, fromhost, reads, queue) ==
  /\ ReplyFields' /\ job' = job /\ prog' = prog
  /\ host'.pc = pc /\ host'.cmd = cmd /\ mem'.tohost = tohost /\ mem'.fromhost = fromhost
  /\ host'.pending_reads = reads /\ host'.fromhost_queue = queue
LEMMA MovesTo ==
  ASSUME NEW pc, NEW cmd, NEW th, NEW fh, NEW rd, NEW q, Replies, Moves(pc, cmd, th, fh, rd, q),
         Ledger(job.rfb, pc, cmd, th, fh, rd, q, prog.owed, prog.sends),
         Story(job.rfb, fh, q, prog.got, term'.typed, term'.keyed)
  PROVE  Replies'
<1>1. Books'
  BY DEF Books, Moves
<1>2. Tale'
  BY DEF Tale, Moves
<1> QED BY <1>1, <1>2 DEF Replies, Moves

LEMMA RespondIs ==
  ASSUME NEW r, NEW c \in AWord, NEW v \in Nat \ {0}
  PROVE  /\ respond(c, v) \in AWord /\ respond(c, v) # Zero /\ respond(c, v).payload = v
         /\ KindOf(r, respond(c, v)) = KindOf(r, c)
<1>1. respond(c, v) \in AWord /\ respond(c, v).payload = v
      /\ respond(c, v).dev = c.dev /\ respond(c, v).cmd = c.cmd
  BY DEF respond, AWord
<1>2. Zero.payload = 0
  BY DEF Zero
<1> QED BY <1>1, <1>2, SameKind

\* A command that is answered at once.
LEMMA RespondKeeps ==
  ASSUME Replies, host.pc \in {"handle", "answer"},
         KindOf(job.rfb, host.cmd) \in Kinds \ {"read"},
         KindOf(job.rfb, host.cmd) = "syscall" => host.pc = "answer",
         Moves("tick", host.cmd, mem.tohost, mem.fromhost, host.pending_reads,
               Append(host.fromhost_queue, respond(host.cmd, 1))),
         term' = term
  PROVE  Replies'
<1> DEFINE r == job.rfb
           w == respond(host.cmd, 1)
<1>1. Books /\ Tale
  BY DEF Replies
<1>2. host.cmd \in AWord /\ host.cmd # Zero
  BY <1>1 DEF Books, Ledger, Stages
<1>3. w \in AWord /\ w # Zero /\ KindOf(r, w) = KindOf(r, host.cmd)
  BY <1>2, RespondIs
<1>4. AsksOf(r, host.cmd, KindOf(r, w))
  <2>1. host.pc = "answer" => AsksOf(r, host.cmd, "syscall")
    BY <1>1 DEF Books, Ledger, Stages
  <2> QED BY <1>2, <1>3, <2>1 DEF AsksOf
<1>5. KindOf(r, w) \in Kinds /\ KindOf(r, w) # "read"
  BY <1>3
<1> HIDE DEF w, r
<1>6. Ledger(r, "tick", host.cmd, mem.tohost, mem.fromhost, host.pending_reads,
             Append(host.fromhost_queue, w), prog.owed, prog.sends)
  BY <1>1, <1>3, <1>4, <1>5, LedgerReply DEF Books, r
<1>7. Story(r, mem.fromhost, Append(host.fromhost_queue, w), prog.got, term.typed, term.keyed)
  BY <1>1, <1>3, <1>5, StoryReply DEF Tale, r
<1> QED BY <1>6, <1>7, MovesTo DEF w, r

\* Steps of the loop that leave the replies alone.
LEMMA LoopReplies ==
  ASSUME Replies, PollTohost \/ ClearTohost \/ PollFromhost \/ stop \/ start \/ Broken
  PROVE  Replies' /\ job' = job
<1>0. Books /\ Tale /\ ReplyFields
  BY DEF Replies
<1> DEFINE r == job.rfb
           rd == host.pending_reads
           q == host.fromhost_queue
           fh == mem.fromhost
<1>1. ASSUME NEW pc, NEW cmd, NEW th, Moves(pc, cmd, th, fh, rd, q), term' = term,
             Ledger(r, pc, cmd, th, fh, rd, q, prog.owed, prog.sends)
      PROVE  Replies' /\ job' = job
  <2>1. Story(r, fh, q, prog.got, term'.typed, term'.keyed)
    BY <1>0, <1>1 DEF Tale
  <2> QED BY <1>1, <2>1, MovesTo DEF Moves
<1>2. CASE PollTohost
  <2>1. PICK pc : /\ Moves(pc, mem.tohost, mem.tohost, fh, rd, q) /\ host.pc = "poll" /\ term' = term
                  /\ pc \in {"stop", "tick"} \/ (pc = "clear" /\ mem.tohost # Zero)
    BY <1>0, <1>2 DEF PollTohost, Moves, ReplyFields, HostPcs
  <2>2. Ledger(r, pc, mem.tohost, mem.tohost, fh, rd, q, prog.owed, prog.sends)
    BY <1>0, <2>1, LedgerPoll DEF Books
  <2> QED BY <1>1, <2>1, <2>2
<1>3. CASE ClearTohost
  <2>1. Moves("handle", host.cmd, Zero, fh, rd, q) /\ host.pc = "clear" /\ term' = term
    BY <1>0, <1>3 DEF ClearTohost, Moves, ReplyFields, HostPcs
  <2>2. Ledger(r, "handle", host.cmd, Zero, fh, rd, q, prog.owed, prog.sends)
    BY <1>0, <2>1, LedgerClear DEF Books
  <2> QED BY <1>1, <2>1, <2>2
<1>4. CASE PollFromhost
  <2>1. PICK pc : /\ Moves(pc, host.cmd, mem.tohost, fh, rd, q) /\ host.pc = "fromhost" /\ term' = term
                  /\ pc \in {"reply", "poll"} /\ (pc = "reply" => fh = Zero /\ q # <<>>)
    BY <1>0, <1>4 DEF PollFromhost, Moves, ReplyFields, HostPcs, MayReply
  <2>2. host.pc \in Neutral /\ pc \in Neutral
    BY <2>1 DEF Neutral
  <2>3. Ledger(r, pc, host.cmd, mem.tohost, fh, rd, q, prog.owed, prog.sends)
    BY <1>0, <2>1, <2>2, LedgerMove DEF Books
  <2> QED BY <1>1, <2>1, <2>3
<1>5. CASE stop
  <2>1. Moves("done", host.cmd, mem.tohost, fh, rd, q) /\ host.pc = "stop" /\ term' = term
    BY <1>0, <1>5 DEF stop, Moves, ReplyFields, HostPcs
  <2>2. host.pc \in Neutral /\ "done" \in Neutral
    BY <2>1 DEF Neutral
  <2>3. Ledger(r, "done", host.cmd, mem.tohost, fh, rd, q, prog.owed, prog.sends)
    BY <1>0, <2>1, <2>2, LedgerMove DEF Books
  <2> QED BY <1>1, <2>1, <2>3
<1>6. CASE start
  <2>1. PICK pc : Moves(pc, host.cmd, mem.tohost, fh, rd, q) /\ host.pc = "start" /\ term' = term
                  /\ pc \in {"crashed", "poll", "idle"}
    BY <1>0, <1>6 DEF start, Moves, ReplyFields, HostPcs
  <2>2. Ledger(r, pc, host.cmd, mem.tohost, fh, rd, q, prog.owed, prog.sends)
    <3>1. CASE pc = "crashed"
      BY <1>0, <2>1, <3>1, LedgerCrash DEF Books
    <3>2. CASE pc # "crashed"
      <4>1. host.pc \in Neutral /\ pc \in Neutral /\ pc # "reply"
        BY <2>1, <3>2 DEF Neutral
      <4> QED BY <1>0, <4>1, LedgerMove DEF Books
    <3> QED BY <3>1, <3>2
  <2> QED BY <1>1, <2>1, <2>2
<1>7. CASE Broken
  <2>1. Moves("crashed", host.cmd, mem.tohost, fh, rd, q) /\ host.pc = "tick" /\ term' = term
    BY <1>0, <1>7 DEF Broken, Moves, ReplyFields, HostPcs
  <2>2. Ledger(r, "crashed", host.cmd, mem.tohost, fh, rd, q, prog.owed, prog.sends)
    BY <1>0, <2>1, LedgerCrash DEF Books
  <2> QED BY <1>1, <2>1, <2>2
<1> QED BY <1>2, <1>3, <1>4, <1>5, <1>6, <1>7

\* Commands are answered, held, dropped or refused.
LEMMA CommandReplies ==
  ASSUME Replies, HandleExit \/ HandleSyscall \/ Answer \/ HandleIdentify \/ HandleOther \/ FrameStep
  PROVE  Replies' /\ job' = job
<1>0. Books /\ Tale /\ ReplyFields
  BY DEF Replies
<1> DEFINE r == job.rfb
           rd == host.pending_reads
           q == host.fromhost_queue
           fh == mem.fromhost
           k == KindOf(r, host.cmd)
<1>k. Handler(host.cmd) = k
  BY HandlerIs
<1>z. host.pc \in {"handle", "answer"} => host.cmd # Zero
  BY <1>0 DEF Books, Ledger, Stages
<1>1. ASSUME NEW pc, NEW cmd, NEW reads, Moves(pc, cmd, mem.tohost, fh, reads, q), term' = term,
             Ledger(r, pc, cmd, mem.tohost, fh, reads, q, prog.owed, prog.sends)
      PROVE  Replies' /\ job' = job
  <2>1. Story(r, fh, q, prog.got, term'.typed, term'.keyed)
    BY <1>0, <1>1 DEF Tale
  <2> QED BY <1>1, <2>1, MovesTo DEF Moves
<1>2. CASE HandleExit
  <2>1. Moves("tick", host.cmd, mem.tohost, fh, rd, q) /\ host.pc = "handle" /\ term' = term
    BY <1>0, <1>2 DEF HandleExit, Moves, ReplyFields, HostPcs
  <2>2. \A j \in Kinds : ~AsksOf(r, host.cmd, j)
    BY <1>2, <1>k DEF HandleExit, AsksOf
  <2>3. Ledger(r, "tick", host.cmd, mem.tohost, fh, rd, q, prog.owed, prog.sends)
    BY <1>0, <2>1, <2>2, LedgerDrop DEF Books
  <2> QED BY <1>1, <2>1, <2>3
<1>3. CASE HandleSyscall
  <2>1. Moves("answer", host.cmd, mem.tohost, fh, rd, q) /\ host.pc = "handle" /\ term' = term
    BY <1>0, <1>3 DEF HandleSyscall, Moves, ReplyFields, HostPcs
  <2>2. AsksOf(r, host.cmd, "syscall")
    BY <1>3, <1>k, <1>z, <2>1 DEF HandleSyscall, AsksOf
  <2>3. Ledger(r, "answer", host.cmd, mem.tohost, fh, rd, q, prog.owed, prog.sends)
    BY <1>0, <2>1, <2>2, LedgerCall DEF Books
  <2> QED BY <1>1, <2>1, <2>3
<1>4. ASSUME host.pc \in {"handle", "answer"}, k \in Kinds \ {"read"}, k = "syscall" => host.pc = "answer",
             Moves("tick", host.cmd, mem.tohost, fh, rd, Append(q, respond(host.cmd, 1))), term' = term
      PROVE  Replies' /\ job' = job
  BY <1>4, RespondKeeps DEF Moves
<1>5. CASE Answer
  <2>1. Moves("tick", host.cmd, mem.tohost, fh, rd, Append(q, respond(host.cmd, 1))) /\ host.pc = "answer" /\ term' = term
    BY <1>0, <1>5 DEF Answer, Moves, ReplyFields, HostPcs
  <2>2. k = "syscall"
    BY <1>0, <2>1 DEF Books, Ledger, Stages, AsksOf
  <2> QED BY <1>4, <2>1, <2>2 DEF Kinds
<1>6. CASE HandleIdentify
  <2>1. Moves("tick", host.cmd, mem.tohost, fh, rd, Append(q, respond(host.cmd, 1))) /\ host.pc = "handle" /\ term' = term
    BY <1>0, <1>6 DEF HandleIdentify, Moves, ReplyFields, HostPcs
  <2>2. k = "identity"
    BY <1>6, <1>k DEF HandleIdentify
  <2> QED BY <1>4, <2>1, <2>2 DEF Kinds
<1>7. CASE HandleOther
  <2>1. k \in {"read", "write", ""} /\ host.pc = "handle" /\ term' = term
        /\ Moves("tick", host.cmd, mem.tohost, fh, IF k = "read" THEN Append(rd, host.cmd) ELSE rd, q)
    BY <1>0, <1>7, <1>k DEF HandleOther, Moves, ReplyFields, HostPcs
  <2>2. CASE k = "read"
    <3>1. Ledger(r, "tick", host.cmd, mem.tohost, fh, Append(rd, host.cmd), q, prog.owed, prog.sends)
      BY <1>0, <2>1, <2>2, LedgerHold DEF Books
    <3> QED BY <1>1, <2>1, <2>2, <3>1
  <2>3. CASE k # "read"
    <3>1. \A j \in Kinds : ~AsksOf(r, host.cmd, j)
      BY <2>1, <2>3 DEF AsksOf, Kinds
    <3>2. Ledger(r, "tick", host.cmd, mem.tohost, fh, rd, q, prog.owed, prog.sends)
      BY <1>0, <2>1, <3>1, LedgerDrop DEF Books
    <3> QED BY <1>1, <2>1, <2>3, <3>2
  <2> QED BY <2>2, <2>3
<1>8. CASE FrameStep
  <2>1. host.pc = "handle" /\ k \in {"configure", "set_address"} /\ term' = term
        /\ \/ Moves("tick", host.cmd, mem.tohost, fh, rd, Append(q, respond(host.cmd, 1)))
           \/ Moves("crashed", host.cmd, mem.tohost, fh, rd, q)
    <3>1. CASE handle_configure
      <4>1. PICK ok \in BOOLEAN : Respond(ok)
        BY <3>1 DEF handle_configure
      <4> QED BY <1>0, <1>k, <3>1, <4>1 DEF handle_configure, FrameCommand, Respond, Moves, ReplyFields, HostPcs
    <3>2. CASE handle_set_address
      <4>1. PICK ok \in BOOLEAN : Respond(ok)
        BY <3>2 DEF handle_set_address
      <4> QED BY <1>0, <1>k, <3>2, <4>1 DEF handle_set_address, FrameCommand, Respond, Moves, ReplyFields, HostPcs
    <3> QED BY <1>8, <3>1, <3>2 DEF FrameStep
  <2>2. CASE Moves("tick", host.cmd, mem.tohost, fh, rd, Append(q, respond(host.cmd, 1)))
    BY <1>4, <2>1, <2>2 DEF Kinds
  <2>3. CASE Moves("crashed", host.cmd, mem.tohost, fh, rd, q)
    <3>1. Ledger(r, "crashed", host.cmd, mem.tohost, fh, rd, q, prog.owed, prog.sends)
      BY <1>0, <2>1, LedgerCrash DEF Books
    <3> QED BY <1>1, <2>1, <2>3, <3>1
  <2> QED BY <2>1, <2>2, <2>3
<1> QED BY <1>2, <1>3, <1>5, <1>6, <1>7, <1>8

\* The round of the terminal, in which the oldest read may get its character.
LEMMA TickReplies ==
  ASSUME Replies, tick PROVE Replies' /\ job' = job
<1>0. Books /\ Tale /\ ReplyFields /\ host.pc = "tick"
  BY DEF Replies, tick
<1> DEFINE r == job.rfb
           rd == host.pending_reads
           q == host.fromhost_queue
           fh == mem.fromhost
           w == respond(Head(rd), Char(Head(term.typed)))
<1>1. CASE rd # <<>> /\ term.typed # <<>>
  <2>1. Moves("fromhost", host.cmd, mem.tohost, fh, Tail(rd), Append(q, w))
        /\ term'.typed = Tail(term.typed) /\ term'.keyed = term.keyed
    BY <1>0, <1>1 DEF tick, Tick, Moves, ReplyFields, HostPcs
  <2>2. Head(rd) \in AWord /\ KindOf(r, Head(rd)) = "read"
    <3>1. rd \in Seq(AWord)
      BY <1>0 DEF Books, Ledger, Stages
    <3>2. Shorter(r, rd, Tail(rd)) /\ Head(rd) = rd[1] /\ Len(rd) \in Nat \ {0}
      BY <1>1, <3>1, QueueTail
    <3> QED BY <1>0, <3>2 DEF Shorter, Books, Ledger, Stages
  <2>3. Char(Head(term.typed)) \in Nat \ {0}
    <3>1. Head(term.typed) \in Nat
      BY <1>0, <1>1, HeadTailProperties DEF Tale, Story
    <3> QED BY <3>1 DEF Char
  <2>4. w \in AWord /\ w # Zero /\ w.payload = Char(Head(term.typed)) /\ KindOf(r, w) = "read"
    BY <2>2, <2>3, RespondIs
  <2> HIDE DEF w, r
  <2>5. Ledger(r, "fromhost", host.cmd, mem.tohost, fh, Tail(rd), Append(q, w), prog.owed, prog.sends)
    BY <1>0, <1>1, <2>4, LedgerRead DEF Books, r
  <2>6. Story(r, fh, Append(q, w), prog.got, Tail(term.typed), term.keyed)
    BY <1>0, <1>1, <2>4, StoryRead DEF Tale, r
  <2> QED BY <2>1, <2>5, <2>6, MovesTo DEF r, Moves
<1>2. CASE ~(rd # <<>> /\ term.typed # <<>>)
  <2>1. Moves("fromhost", host.cmd, mem.tohost, fh, rd, q) /\ term' = term
    BY <1>0, <1>2 DEF tick, Moves, ReplyFields, HostPcs
  <2>2. host.pc \in Neutral /\ "fromhost" \in Neutral
    BY <1>0 DEF Neutral
  <2>3. Ledger(r, "fromhost", host.cmd, mem.tohost, fh, rd, q, prog.owed, prog.sends)
    BY <1>0, <2>2, LedgerMove DEF Books
  <2>4. Story(r, fh, q, prog.got, term'.typed, term'.keyed)
    BY <1>0, <2>1 DEF Tale
  <2> QED BY <2>1, <2>3, <2>4, MovesTo DEF Moves
<1> QED BY <1>1, <1>2

LEMMA WriteReplies ==
  ASSUME Replies, WriteFromhost PROVE Replies' /\ job' = job
<1>0. Books /\ Tale /\ ReplyFields /\ host.pc = "reply"
  BY DEF Replies, WriteFromhost
<1> DEFINE r == job.rfb
           q == host.fromhost_queue
<1>1. Moves("poll", host.cmd, mem.tohost, Head(q), host.pending_reads, Tail(q)) /\ term' = term
  BY <1>0 DEF WriteFromhost, Moves, ReplyFields, HostPcs
<1>2. mem.fromhost = Zero /\ q # <<>>
  BY <1>0 DEF Books, Ledger, Stages
<1>3. Ledger(r, "poll", host.cmd, mem.tohost, Head(q), host.pending_reads, Tail(q), prog.owed, prog.sends)
  BY <1>0, LedgerWrite DEF Books
<1>4. Story(r, Head(q), Tail(q), prog.got, term.typed, term.keyed)
  BY <1>0, <1>2, StoryWrite DEF Tale
<1> QED BY <1>1, <1>3, <1>4, MovesTo DEF Moves

\* The program sends a command.
LEMMA SentReplies ==
  ASSUME Replies, NEW w, w \in AWord, mem.tohost = Zero, mem'.tohost = w,
         Owes(job.rfb, w, prog.owed, prog.sends, prog'.owed, prog'.sends), prog'.sends <= job.sends,
         ReplyFields', job' = job, host' = host, term' = term, mem'.fromhost = mem.fromhost,
         prog'.got = prog.got
  PROVE  Replies'
<1>1. Books /\ Tale
  BY DEF Replies
<1>2. Ledger(job.rfb, host.pc, host.cmd, w, mem.fromhost, host.pending_reads, host.fromhost_queue,
             prog'.owed, prog'.sends)
  BY <1>1, LedgerSend DEF Books
<1>3. Books'
  BY <1>2 DEF Books
<1>4. Tale'
  BY <1>1 DEF Tale
<1> QED BY <1>3, <1>4 DEF Replies

LEMMA ProgramReplies ==
  ASSUME Replies, LegalProgram(job), ProgramStep PROVE Replies' /\ job' = job
<1>0. Books /\ Tale /\ ReplyFields /\ prog.sends <= job.sends
  BY DEF Replies
<1> DEFINE r == job.rfb
           o == prog.owed
           n == prog.sends
<1>1. o \in [Kinds -> Nat] /\ n \in Nat /\ (\A k \in Kinds : o[k] <= n) /\ job.sends \in Nat
  BY <1>0 DEF Books, Ledger, Balanced, LegalProgram
<1>2. CASE SendWord
  <2>1. PICK w \in job.words : Send(w, Handler(w))
    BY <1>2 DEF SendWord
  <2>2. w \in AWord /\ w # Zero /\ w.dev \in Nat /\ ~(w.dev = 0 /\ w.cmd = 0)
    BY DEF LegalProgram, JobWords, AWord, Zero
  <2> DEFINE j == KindOf(r, w)
  <2>3. Handler(w) = j
    BY HandlerIs
  <2>4. j # "syscall"
    BY <2>2, <2>3, SyscallWord
  <2> HIDE DEF j
  <2>5. /\ ReplyFields' /\ job' = job /\ host' = host /\ term' = term /\ mem'.fromhost = mem.fromhost
        /\ prog'.got = prog.got /\ mem'.tohost = w /\ mem.tohost = Zero /\ n < job.sends
        /\ prog'.sends = n + 1 /\ prog'.owed = IF j \in Kinds THEN [o EXCEPT ![j] = @ + 1] ELSE o
    <3>1. /\ job' = job /\ host' = host /\ term' = term /\ mem' = [mem EXCEPT !.tohost = w]
          /\ mem.tohost = Zero /\ n < job.sends
          /\ prog' = [prog EXCEPT !.sends = @ + 1,
                                 !.owed = IF j \in Kinds THEN [o EXCEPT ![j] = o[j] + 1] ELSE o]
      BY <2>1, <2>3 DEF Send
    <3>2. prog'.sends = n + 1 /\ prog'.owed = (IF j \in Kinds THEN [o EXCEPT ![j] = @ + 1] ELSE o)
          /\ prog'.got = prog.got /\ {"owed", "sends", "got"} \subseteq DOMAIN prog'
      BY <1>0, <3>1 DEF ReplyFields
    <3>3. mem'.fromhost = mem.fromhost /\ mem'.tohost = w /\ {"tohost", "fromhost", "call"} \subseteq DOMAIN mem'
      BY <1>0, <3>1 DEF ReplyFields
    <3> QED BY <1>0, <3>1, <3>2, <3>3 DEF ReplyFields
  <2>6. \A k \in Kinds : One(AsksOf(r, w, k)) = IF k = j THEN 1 ELSE 0
    BY <2>2, <2>4 DEF AsksOf, One, j
  <2>7. Owes(r, w, o, n, prog'.owed, prog'.sends)
    <3>1. prog'.owed \in [Kinds -> Nat] /\ n + 1 \in Nat
      BY <1>1, <2>5
    <3>2. ASSUME NEW k \in Kinds PROVE prog'.owed[k] = o[k] + One(AsksOf(r, w, k)) /\ prog'.owed[k] <= n + 1
      <4>1. PICK x \in Nat : x = o[k] /\ x <= n
        BY <1>1
      <4>2. prog'.owed[k] = IF k = j THEN x + 1 ELSE x
        BY <1>1, <2>5, <4>1
      <4> QED BY <1>1, <2>6, <4>1, <4>2
    <3> QED BY <2>5, <3>1, <3>2 DEF Owes
  <2>8. prog'.sends <= job.sends
    BY <1>1, <2>5
  <2> QED BY <2>2, <2>5, <2>7, <2>8, SentReplies
<1>3. ASSUME NEW c \in job.calls, SendCall(c) PROVE Replies' /\ job' = job
  <2> DEFINE w == Word(0, 0, MM)
  <2>1. w \in AWord /\ w # Zero /\ w.dev = 0 /\ w.cmd = 0 /\ w.payload = 2
    BY DEF Word, MM, AWord, Zero
  <2>2. KindOf(r, w) = "syscall"
    <3>1. Zero.dev = w.dev /\ Zero.cmd = w.cmd
      BY <2>1 DEF Zero
    <3> QED BY <3>1, SameKind, KindOfZero
  <2> HIDE DEF w
  <2>3. /\ ReplyFields' /\ job' = job /\ host' = host /\ term' = term /\ mem'.fromhost = mem.fromhost
        /\ prog'.got = prog.got /\ mem'.tohost = w /\ mem.tohost = Zero /\ n < job.sends
        /\ prog'.sends = n + 1 /\ prog'.owed = [o EXCEPT !["syscall"] = 1] /\ o["syscall"] = 0
    BY <1>0, <1>3 DEF SendCall, ReplyFields, w
  <2>4. \A k \in Kinds : One(AsksOf(r, w, k)) = IF k = "syscall" THEN 1 ELSE 0
    BY <2>1, <2>2 DEF AsksOf, One
  <2>5. Owes(r, w, o, n, prog'.owed, prog'.sends)
    <3>1. prog'.owed \in [Kinds -> Nat] /\ n + 1 \in Nat
      <4>1. o \in [Kinds -> Nat] /\ 1 \in Nat /\ n + 1 \in Nat
        BY <1>1
      <4> QED BY <2>3, <4>1, WrittenType
    <3>2. ASSUME NEW k \in Kinds PROVE prog'.owed[k] = o[k] + One(AsksOf(r, w, k)) /\ prog'.owed[k] <= n + 1
      <4>1. PICK x \in Nat : x = o[k] /\ x <= n
        BY <1>1
      <4>2. prog'.owed[k] = IF k = "syscall" THEN 1 ELSE x
        BY <1>1, <2>3, <4>1
      <4> QED BY <1>1, <2>3, <2>4, <4>1, <4>2
    <3> QED BY <2>3, <3>1, <3>2 DEF Owes
  <2>6. prog'.sends <= job.sends
    BY <1>1, <2>3
  <2> QED BY <2>1, <2>3, <2>5, <2>6, SentReplies
<1>4. ASSUME NEW code \in job.codes, SendExit(code) PROVE Replies' /\ job' = job
  <2> DEFINE w == Word(0, 0, 2 * code + 1)
  <2>1. code \in Nat
    BY DEF LegalProgram
  <2>2. w \in AWord /\ w.payload % 2 = 1 /\ w.dev = 0 /\ w.cmd = 0
    BY <2>1 DEF Word, AWord
  <2>3. KindOf(r, w) = "syscall"
    <3>1. Zero.dev = w.dev /\ Zero.cmd = w.cmd
      BY <2>2 DEF Zero
    <3> QED BY <3>1, SameKind, KindOfZero
  <2> HIDE DEF w
  <2>4. /\ ReplyFields' /\ job' = job /\ host' = host /\ term' = term /\ mem'.fromhost = mem.fromhost
        /\ prog'.got = prog.got /\ mem'.tohost = w /\ mem.tohost = Zero
        /\ prog'.sends = n /\ prog'.owed = o
    BY <1>0, <1>4 DEF SendExit, ReplyFields, w
  <2>5. \A k \in Kinds : One(AsksOf(r, w, k)) = 0
    BY <2>2, <2>3 DEF AsksOf, One
  <2>6. Owes(r, w, o, n, prog'.owed, prog'.sends)
    <3>1. \A k \in Kinds : o[k] = o[k] + 0
      BY <1>1
    <3> QED BY <1>1, <2>4, <2>5, <3>1 DEF Owes
  <2> QED BY <1>0, <2>2, <2>4, <2>6, SentReplies
<1>5. CASE Take
  <2> DEFINE w == mem.fromhost
             j == KindOf(r, w)
  <2>1. Handler(w) = j
    BY HandlerIs
  <2>2. w \in AWord /\ w # Zero
    BY <1>0, <1>5 DEF Take, Books, Ledger, Stages
  <2> HIDE DEF j
  <2>3. /\ ReplyFields' /\ job' = job /\ host' = host /\ term' = term /\ mem'.fromhost = Zero
        /\ mem'.tohost = mem.tohost /\ prog'.sends = n /\ prog'.owed = [o EXCEPT ![j] = @ - 1]
        /\ prog'.got = IF j = "read" THEN Append(prog.got, w.payload) ELSE prog.got
    BY <1>0, <1>5, <2>1 DEF Take, ReplyFields
  <2>4. Books'
    <3>1. Ledger(r, host.pc, host.cmd, mem.tohost, Zero, host.pending_reads, host.fromhost_queue,
                 [o EXCEPT ![j] = @ - 1], n)
      BY <1>0, <2>2, LedgerTake DEF Books, j
    <3> QED BY <2>3, <3>1 DEF Books
  <2>5. Tale'
    <3>1. Story(r, Zero, host.fromhost_queue, IF j = "read" THEN Append(prog.got, w.payload) ELSE prog.got,
                term.typed, term.keyed)
      BY <1>0, <2>2, StoryTake DEF Tale, j
    <3> QED BY <2>3, <3>1 DEF Tale
  <2> QED BY <1>0, <2>3, <2>4, <2>5 DEF Replies
<1>6. CASE Compute
  <2>1. /\ ReplyFields' /\ job' = job /\ host' = host /\ term' = term /\ prog' = prog
        /\ mem'.fromhost = mem.fromhost /\ mem'.tohost = mem.tohost
    BY <1>0, <1>6 DEF Compute, ReplyFields
  <2> QED BY <1>0, <2>1 DEF Replies, Books, Tale
<1> QED BY <1>2, <1>3, <1>4, <1>5, <1>6 DEF ProgramStep

\* Whoever types, and the steps that touch no reply.
LEMMA TypeReplies ==
  ASSUME Replies, Type PROVE Replies' /\ job' = job
<1>0. Books /\ Tale /\ ReplyFields
  BY DEF Replies
<1>1. PICK ch \in Keys : term' = [typed |-> Append(term.typed, ch), keyed |-> Append(term.keyed, ch)]
  BY DEF Type
<1>2. ch \in Nat
  BY HtifAssumption
<1>3. ReplyFields' /\ job' = job /\ host' = host /\ mem' = mem /\ prog' = prog
      /\ term'.typed = Append(term.typed, ch) /\ term'.keyed = Append(term.keyed, ch)
  BY <1>0, <1>1 DEF Type, ReplyFields
<1>4. Tale'
  <2>1. Story(job.rfb, mem.fromhost, host.fromhost_queue, prog.got, Append(term.typed, ch), Append(term.keyed, ch))
    BY <1>0, <1>2, StoryType DEF Tale
  <2> QED BY <1>3, <2>1 DEF Tale
<1>5. Books'
  BY <1>0, <1>3 DEF Books
<1> QED BY <1>3, <1>4, <1>5 DEF Replies

LEMMA IdleReplies ==
  ASSUME Replies, ReplyFields', job' = job, term' = term, prog' = prog,
         mem'.tohost = mem.tohost, mem'.fromhost = mem.fromhost, host'.pc = host.pc, host'.cmd = host.cmd,
         host'.pending_reads = host.pending_reads, host'.fromhost_queue = host.fromhost_queue
  PROVE  Replies'
BY DEF Replies, Books, Tale

LEMMA ReplyNext ==
  ASSUME ReplyInv, [Next]_vars PROVE ReplyInv'
<1>0. ResultFields /\ LegalProgram(job) /\ Exits /\ Replies /\ ReplyFields
  BY DEF ReplyInv, Replies
<1>1. ResultFields' /\ Exits' /\ job' = job
  BY <1>0, ExitsNext
<1>10. LegalProgram(job)'
  BY <1>0, <1>1
<1> SUFFICES Replies'
  BY <1>1, <1>10 DEF ReplyInv
<1>2. CASE Simulated(DisplayStep) \/ Simulated(start /\ UNCHANGED rfbVars)
  <2>1. start \/ RunStep \/ FrameStep \/ tick \/ Broken
    BY <1>2 DEF Simulated, DisplayStep
  <2> QED BY <1>0, <2>1, LoopReplies, CommandReplies, TickReplies, WriteReplies DEF RunStep
<1>3. CASE Simulated(ProgramStep /\ UNCHANGED rfbVars)
  BY <1>0, <1>3, ProgramReplies DEF Simulated
<1>4. CASE Simulated(Type /\ UNCHANGED rfbVars)
  BY <1>0, <1>4, TypeReplies DEF Simulated
<1>5. CASE handle_sigterm
  BY <1>0, <1>1, <1>5, IdleReplies DEF handle_sigterm, ReplyFields
<1>6. CASE Interrupt
  BY <1>0, <1>1, <1>6, IdleReplies DEF Interrupt, SignalExit, htifVars, ReplyFields
<1>7. CASE Elf2hex \/ Sideband
  BY <1>0, <1>1, <1>7, IdleReplies DEF Elf2hex, Sideband, Place, ReplyFields
<1>8. CASE Simulated(OtherThreads) \/ jtag_tick \/ accept \/ execute_command \/ Finish \/ Crash \/ UNCHANGED vars
  <2>1. UNCHANGED htifVars
    BY <1>8 DEF Simulated, OtherThreads, jtag_tick, accept, execute_command, Finish, Crash, vars
  <2> QED BY <1>0, <1>1, <2>1, IdleReplies DEF htifVars, ReplyFields
<1> QED BY <1>2, <1>3, <1>4, <1>5, <1>6, <1>7, <1>8 DEF Next

LEMMA ReplyInit ==
  ASSUME NEW jobs, NEW own, \A j \in jobs : LegalProgram(Configured(j)), Init(jobs, own)
  PROVE  ReplyInv
<1>1. PICK j \in jobs : HtifInit(Configured(j), own)
  BY DEF Init
<1>2. ResultInv
  BY ResultInit
<1>3. /\ mem.tohost = Zero /\ mem.fromhost = Zero /\ {"tohost", "fromhost", "call"} \subseteq DOMAIN mem
      /\ host.pc = "start" /\ host.cmd = Zero /\ host.pending_reads = <<>> /\ host.fromhost_queue = <<>>
      /\ host.stopped = FALSE /\ host.signal_exit = FALSE
      /\ {"pc", "cmd", "pending_reads", "fromhost_queue", "stopped", "signal_exit"} \subseteq DOMAIN host
      /\ term = [typed |-> <<>>, keyed |-> <<>>]
      /\ prog.sends = 0 /\ prog.owed = [k \in Kinds |-> 0] /\ prog.got = <<>>
      /\ {"owed", "sends", "got"} \subseteq DOMAIN prog
  BY <1>1 DEF HtifInit
<1>4. ReplyFields
  BY <1>3 DEF ReplyFields, HostPcs
<1>5. \A k : CountOf(job.rfb, <<>>, k, 0) = 0
  BY CountType
<1>6. Zero \in AWord /\ Len(<<>>) = 0
  BY DEF Zero, AWord
<1>7. Books
  <2>1. Stages(job.rfb, "start", Zero, Zero, Zero, <<>>, <<>>)
    BY <1>6 DEF Stages
  <2>2. \A k : PendingOf(job.rfb, "start", Zero, Zero, Zero, <<>>, <<>>, k) = 0
    BY <1>5, <1>6 DEF PendingOf, InMail, InHand, InReply, AsksOf, One
  <2>3. Balanced(job.rfb, "start", Zero, Zero, Zero, <<>>, <<>>, [k \in Kinds |-> 0], 0)
    BY <2>2 DEF Balanced
  <2> QED BY <1>3, <2>1, <2>3 DEF Books, Ledger
<1>8. Tale
  <2>1. OnWay(job.rfb, Zero, <<>>, 0) = 0
    BY <1>5, KindOfZero DEF OnWay, One
  <2>2. InOrder(job.rfb, Zero, <<>>, <<>>, <<>>, <<>>)
    BY <1>6, <2>1, KindOfZero DEF InOrder
  <2> QED BY <1>3, <2>2 DEF Tale, Story
<1>9. job.sends \in Nat
  BY <1>2 DEF ResultInv, LegalProgram
<1> QED BY <1>2, <1>3, <1>4, <1>7, <1>8, <1>9 DEF ReplyInv, ResultInv, Replies

\* No reply is lost, doubled or out of turn: run polls tohost, clears it, hands
\* the command to a device, queues the reply and writes it to fromhost in
\* accesses of their own, between any two of which the program can act, and
\* what the program is owed is always what is on its way, the characters of
\* the terminal in the order in which they were typed.
THEOREM RepliesAreConserved ==
  ASSUME NEW jobs, NEW own, \A j \in jobs : LegalProgram(Configured(j))
  PROVE  Init(jobs, own) /\ [][Next]_vars => []RepliesConserved
<1>1. Init(jobs, own) => ReplyInv
  BY ReplyInit
<1>2. ReplyInv /\ [Next]_vars => ReplyInv'
  BY ReplyNext
<1>3. ReplyInv => RepliesConserved
  <2> SUFFICES ASSUME ReplyInv PROVE RepliesConserved
    OBVIOUS
  <2>1. Exits /\ ReplyFields /\ Books /\ Tale /\ prog.sends <= job.sends /\ job.sends \in Nat
    BY DEF ReplyInv, Replies, LegalProgram
  <2>2. \A k \in Kinds : /\ prog.owed[k] \in Nat /\ prog.owed[k] <= prog.sends
                         /\ host.pc # "crashed" => prog.owed[k] = Pending(k)
    BY <2>1, PendingIs DEF Books, Ledger, Balanced
  <2>3. prog.sends \in Nat
    BY <2>1 DEF Books, Ledger, Balanced
  <2>4. \A k \in Kinds : prog.owed[k] \in 0 .. job.sends
    BY <2>1, <2>2, <2>3
  <2>5. mem.fromhost = Zero \/ Handler(mem.fromhost) \in Kinds
    BY <2>1, HandlerIs DEF Books, Ledger, Stages
  <2>6. HtifTypeOK
    BY <2>1, <2>4, <2>5 DEF HtifTypeOK, Exits, ReplyFields, HostPcs
  <2>7. RepliesOwed
    BY <2>2 DEF RepliesOwed
  <2>8. CharactersInOrder
    BY <2>1, StoryIs DEF Tale, Story
  <2> QED BY <2>6, <2>7, <2>8 DEF RepliesConserved
<1> QED BY <1>1, <1>2, <1>3, PTL

=============================================================================
