----------------------------- MODULE TsiProofs -----------------------------
(***************************************************************************)
(* The tethered serial interface only moves between threads by the steps   *)
(* of context.cc, so that what holds of every use of contexts holds of it  *)
(* (TsiOneRuns, TsiOnCoroutines); and the queues between the threads lose  *)
(* no word (TsiWordsConserved).                                            *)
(***************************************************************************)
EXTENDS Tsi, ContextProofs

LEMMA TsiUsesContexts == [Next]_vars => [ContextNext]_cvars
<1> SUFFICES ASSUME [Next]_vars PROVE [ContextNext]_cvars
  OBVIOUS
<1>1. Host \in Contexts /\ Target \in Contexts
  BY TsiAssumption
<1>2. CASE HostStep
  <2>1. CASE switch_to_target
    BY <1>1, <2>1 DEF switch_to_target, ContextNext
  <2>2. CASE ~switch_to_target
    BY <1>2, <2>2
    DEF HostStep, reset, TakeWord, Return, read_chunk, WriteChunk, write_chunk, cvars
  <2> QED BY <2>1, <2>2
<1>3. CASE TargetStep
  <2>1. CASE tsi_t
    BY <1>1, <2>1 DEF tsi_t, ContextNext
  <2>2. CASE switch_to_host
    BY <1>1, <2>2 DEF switch_to_host, ContextNext
  <2>3. ASSUME NEW out_valid \in BOOLEAN, NEW in_ready \in BOOLEAN, tick(out_valid, in_ready)
        PROVE  UNCHANGED cvars
    BY <2>3 DEF tick
  <2> QED BY <1>3, <2>1, <2>2, <2>3 DEF TargetStep
<1>4. ASSUME NEW c \in Contexts, Threads(c) PROVE ContextNext
  BY <1>4 DEF Threads, ContextNext
<1>5. CASE UNCHANGED vars
  BY <1>5 DEF vars, cvars
<1> QED BY <1>2, <1>3, <1>4, <1>5 DEF Next

\* The host thread and the simulation's thread, which share in_data and
\* out_data without a lock, are never in user code at once.
THEOREM TsiOneRuns == Spec => []OneRuns
<1>1. Init => ContextInit
  BY DEF Init
<1> QED BY <1>1, TsiUsesContexts, OneRunsHolds, PTL DEF Spec, ContextSpec

\* On POSIX threads the interface sees the contexts that swapcontext gives.
THEOREM TsiOnCoroutines == Spec => ImplementsCoroutine
<1>1. Init => ContextInit
  BY DEF Init
<1> QED BY <1>1, TsiUsesContexts, CoroutineImplemented, PTL DEF Spec, ContextSpec

----------------------------------------------------------------------------
(***************************************************************************)
(* The words between the threads.  A queue of words does not tell where a  *)
(* command begins, so the invariant says that there is a way to read it: a *)
(* tag for every word of in_data, the command the word belongs to and its  *)
(* place in it.                                                            *)
(***************************************************************************)
Tag == [op : {SAI_CMD_READ, SAI_CMD_WRITE}, addr : Addrs, len : 1 .. MaxLen, off : Nat]

\* The words of the command of a tag, and whether this is the last of them.
Size(t)   == IF t.op = SAI_CMD_READ THEN 5 ELSE 5 + t.len
IsLast(t) == t.off + 1 = Size(t)

\* w is word k of the head of the command of t.
Heads(w, k, t) ==
  /\ k = 1 => w = t.op
  /\ k = 2 => w = t.addr % W
  /\ k = 3 => w = (t.addr \div W) % W
  /\ k = 4 => w = (t.len - 1) % W
  /\ k = 5 => w = ((t.len - 1) \div W) % W

\* The word of tag t is written to b.
Hits(t, b) == t.off >= 5 /\ t.addr + 4 * (t.off - 5) = b

\* Whole commands follow one another; only the first may have begun to move,
\* and then the adapter holds the words before it.
Stream(q, s, B) ==
  /\ \A i \in 1 .. Len(q) :
       /\ Fits(B[i].addr, B[i].len) /\ B[i].off < Size(B[i])
       /\ Heads(q[i], B[i].off + 1, B[i])
       /\ i = Len(q) => IsLast(B[i])
       /\ i < Len(q) => IF IsLast(B[i]) THEN B[i + 1].off = 0
                        ELSE B[i + 1] = [B[i] EXCEPT !.off = @ + 1]
  /\ q = <<>> => s = <<>>
  /\ q # <<>> => /\ B[1].off = Len(s)
                 /\ \A k \in 1 .. Len(s) : Heads(s[k], k, B[1])

\* Memory, with the words on their way over it, is what the host has written.
Overlay(q, m, wr, B) ==
  \A b \in Addrs :
    \/ /\ \A i \in 1 .. Len(q) : ~Hits(B[i], b)
       /\ m[b] = wr[b]
    \/ \E i \in 1 .. Len(q) :
         /\ Hits(B[i], b) /\ q[i] = wr[b]
         /\ \A j \in i + 1 .. Len(q) : ~Hits(B[j], b)

\* Nobody reads; the command of the chunk is the last on its way; or the words
\* of the chunk are, in their order, with the host, in out_data and in reply.
Quiet(q, B) == out_data = <<>> /\ reply = <<>> /\ \A i \in 1 .. Len(q) : B[i].op = SAI_CMD_WRITE

Asked(q, B) ==
  /\ q # <<>> /\ chunk.got = <<>> /\ out_data = <<>> /\ reply = <<>>
  /\ B[Len(q)].addr = chunk.addr /\ B[Len(q)].len = chunk.len
  /\ B[Len(q)].op = SAI_CMD_READ
  /\ \A i \in 1 .. Len(q) : B[i].op = SAI_CMD_READ => Len(q) - i = 4 - B[i].off

Answered(q) ==
  LET g == Len(chunk.got)
      o == Len(out_data)
      At(i) == written[chunk.addr + 4 * (i - 1)]
  IN  /\ q = <<>> /\ g + o + Len(reply) = chunk.len
      /\ \A i \in 1 .. g : chunk.got[i] = At(i)
      /\ \A i \in 1 .. o : out_data[i] = At(g + i)
      /\ \A i \in 1 .. Len(reply) : reply[i] = At(g + o + i)

Reads(q, B) == IF chunk = NoChunk THEN Quiet(q, B) ELSE Asked(q, B) \/ Answered(q)

Conserved(B) == Stream(in_data, sai, B) /\ Overlay(in_data, mem, written, B) /\ Reads(in_data, B)

\* Types of the queues, the adapter's registers and the chunk.
DataTypeOK ==
  /\ in_data \in Seq(Words) /\ out_data \in Seq(Words) /\ reply \in Seq(Words)
  /\ sai \in Seq(Words)
  /\ mem \in [Addrs -> Words] /\ written \in [Addrs -> Words]
  /\ ops \in 0 .. MaxOps /\ (ops = 0 => chunk = NoChunk)
  /\ chunk # NoChunk => /\ chunk \in [addr : Addrs, len : 1 .. MaxLen, got : Seq(Words)]
                        /\ Fits(chunk.addr, chunk.len)

TsiInv == DataTypeOK /\ \E B \in [1 .. Len(in_data) -> Tag] : Conserved(B)

----------------------------------------------------------------------------
\* An address and a length take two words, and joined they are again what
\* they were.
LEMMA SplitFacts ==
  ASSUME NEW x \in 0 .. W * W - 1
  PROVE  /\ x % W \in Words /\ (x \div W) % W \in Words
         /\ (x % W) + W * ((x \div W) % W) = x
<1>1. W \in Nat /\ W > 0 /\ x \in Nat /\ x < W * W
  BY TsiAssumption
<1> DEFINE q == x \div W
           r == x % W
<1>2. q \in Int /\ r \in 0 .. W - 1 /\ x = W * q + r
  BY <1>1
<1>3. q >= 0
  <2>1. SUFFICES ASSUME q <= -1 PROVE FALSE
    BY <1>2
  <2>2. W * q <= W * (-1)
    BY <1>1, <1>2, <2>1
  <2> QED BY <1>1, <1>2, <2>2
<1>4. q < W
  <2>1. SUFFICES ASSUME q >= W PROVE FALSE
    BY <1>1, <1>2
  <2>2. W * q >= W * W
    BY <1>1, <1>2, <2>1
  <2> QED BY <1>1, <1>2, <2>2
<1>5. q % W = q
  BY <1>1, <1>2, <1>3, <1>4
<1> QED BY <1>1, <1>2, <1>3, <1>4, <1>5 DEF Words

LEMMA LengthFacts ==
  ASSUME NEW n \in 1 .. MaxLen
  PROVE  /\ n - 1 \in 0 .. W * W - 1
         /\ ((n - 1) % W) + W * (((n - 1) \div W) % W) + 1 = n
<1>1. W \in Nat /\ W > 0 /\ W > MaxLen /\ MaxLen \in Nat
  BY TsiAssumption
<1>2. W * W >= W
  BY <1>1
<1>3. n - 1 \in 0 .. W * W - 1
  BY <1>1, <1>2
<1> QED BY <1>1, <1>3, SplitFacts DEF Words

LEMMA TsiInvInit == Init => TsiInv
<1> SUFFICES ASSUME Init PROVE TsiInv
  OBVIOUS
<1>1. 0 \in Words /\ 0 \in 0 .. MaxOps
  BY TsiAssumption DEF Words
<1>2. DataTypeOK
  BY <1>1 DEF Init, DataTypeOK
<1> DEFINE B == [i \in 1 .. Len(in_data) |-> in_data]
<1>3. Len(in_data) = 0 /\ in_data = <<>> /\ sai = <<>>
  BY DEF Init
<1>4. B \in [1 .. Len(in_data) -> Tag]
  BY <1>3
<1>5. Stream(in_data, sai, B)
  BY <1>3 DEF Stream
<1>6. Overlay(in_data, mem, written, B)
  BY <1>3 DEF Overlay, Init
<1>7. Reads(in_data, B)
  BY <1>3 DEF Reads, Quiet, Init
<1> QED BY <1>2, <1>4, <1>5, <1>6, <1>7 DEF TsiInv, Conserved

\* The steps that leave the words on their way alone keep their reading.
LEMMA SameStream ==
  ASSUME TsiInv, UNCHANGED <<in_data, sai, mem, written>>, DataTypeOK',
         \A B \in [1 .. Len(in_data) -> Tag] : Stream(in_data, sai, B) /\ Reads(in_data, B) => Reads(in_data, B)'
  PROVE  TsiInv'
<1>1. PICK B \in [1 .. Len(in_data) -> Tag] : Conserved(B)
  BY DEF TsiInv
<1>2. Reads(in_data, B)'
  BY <1>1 DEF Conserved
<1>3. Conserved(B)'
  BY <1>1, <1>2 DEF Conserved, Stream, Overlay
<1> QED BY <1>1, <1>3 DEF TsiInv

\* The host takes the next word of its chunk.
LEMMA TakeWordKeeps == TsiInv /\ TakeWord => TsiInv'
<1> SUFFICES ASSUME TsiInv, TakeWord PROVE TsiInv'
  OBVIOUS
<1> DEFINE w == Head(out_data)
<1>1. /\ chunk # NoChunk /\ out_data # <<>> /\ out_data' = Tail(out_data)
      /\ chunk' = [chunk EXCEPT !.got = Append(@, w)]
      /\ UNCHANGED <<in_data, sai, mem, written, reply, ops>>
  BY DEF TakeWord, InHost
<1>2. DataTypeOK
  BY DEF TsiInv
<1>3. /\ chunk \in [addr : Addrs, len : 1 .. MaxLen, got : Seq(Words)]
      /\ Fits(chunk.addr, chunk.len)
  BY <1>1, <1>2 DEF DataTypeOK
<1>4. w \in Words /\ w = out_data[1]
  BY <1>1, <1>2 DEF DataTypeOK
<1>5. /\ chunk' \in [addr : Addrs, len : 1 .. MaxLen, got : Seq(Words)]
      /\ chunk'.addr = chunk.addr /\ chunk'.len = chunk.len /\ chunk'.got = Append(chunk.got, w)
  <2> HIDE DEF w
  <2>1. Append(chunk.got, w) \in Seq(Words)
    BY <1>3, <1>4
  <2> QED BY <1>1, <1>3, <2>1
<1>6. chunk' # NoChunk
  BY <1>5 DEF NoChunk
<1>7. DataTypeOK'
  <2>1. Tail(out_data) \in Seq(Words)
    BY <1>1, <1>2 DEF DataTypeOK
  <2>2. ops # 0
    BY <1>1, <1>2 DEF DataTypeOK
  <2> QED BY <1>1, <1>2, <1>3, <1>5, <2>1, <2>2 DEF DataTypeOK, Fits
<1>8. ASSUME NEW B \in [1 .. Len(in_data) -> Tag], Reads(in_data, B) PROVE Reads(in_data, B)'
  <2>1. Answered(in_data)
    BY <1>1, <1>8 DEF Reads, Asked
  <2>2. Len(chunk'.got) = Len(chunk.got) + 1 /\ Len(out_data') = Len(out_data) - 1
    BY <1>1, <1>2, <1>3, <1>4, <1>5 DEF DataTypeOK
  <2>3. \A i \in 1 .. Len(out_data') : out_data'[i] = out_data[i + 1]
    BY <1>1, <1>2 DEF DataTypeOK
  <2>4. \A i \in 1 .. Len(chunk'.got) :
          chunk'.got[i] = IF i <= Len(chunk.got) THEN chunk.got[i] ELSE out_data[1]
    BY <1>3, <1>4, <1>5
  <2>5. Len(out_data) \in Nat /\ Len(chunk.got) \in Nat /\ Len(reply) \in Nat /\ Len(out_data) >= 1
    BY <1>1, <1>2, <1>3 DEF DataTypeOK
  <2>6. Answered(in_data)'
    <3> DEFINE g == Len(chunk.got)
               o == Len(out_data)
               At(i) == written[chunk.addr + 4 * (i - 1)]
    <3>1. /\ in_data = <<>> /\ g + o + Len(reply) = chunk.len
          /\ \A i \in 1 .. g : chunk.got[i] = At(i)
          /\ \A i \in 1 .. o : out_data[i] = At(g + i)
          /\ \A i \in 1 .. Len(reply) : reply[i] = At(g + o + i)
      BY <2>1 DEF Answered
    <3>2. written' = written /\ chunk'.addr = chunk.addr
      BY <1>1, <1>5
    <3> HIDE DEF At
    <3>3. \A i \in 1 .. g + 1 : chunk'.got[i] = At(i)
      <4> SUFFICES ASSUME NEW i \in 1 .. g + 1 PROVE chunk'.got[i] = At(i)
        OBVIOUS
      <4>1. out_data[1] = At(g + 1)
        BY <2>5, <3>1
      <4>2. i <= g => chunk.got[i] = At(i)
        BY <2>5, <3>1
      <4>3. i <= g \/ i = g + 1
        BY <2>5
      <4>4. chunk'.got[i] = IF i <= g THEN chunk.got[i] ELSE out_data[1]
        BY <2>2, <2>4
      <4> QED BY <2>5, <4>1, <4>2, <4>3, <4>4
    <3>4. \A i \in 1 .. o - 1 : out_data'[i] = At(g + 1 + i)
      <4> SUFFICES ASSUME NEW i \in 1 .. o - 1 PROVE out_data'[i] = At(g + 1 + i)
        OBVIOUS
      <4>1. out_data[i + 1] = At(g + (i + 1)) /\ g + (i + 1) = g + 1 + i
        <5>0. g \in Nat /\ o \in Nat
          BY <2>5
        <5> HIDE DEF o, g
        <5>1. i + 1 \in 1 .. o /\ g + (i + 1) = g + 1 + i
          BY <5>0
        <5> QED BY <3>1, <5>1
      <4> QED BY <2>2, <2>3, <4>1
    <3>5. \A i \in 1 .. Len(reply) : reply[i] = At((g + 1) + (o - 1) + i)
      <4>1. (g + 1) + (o - 1) = g + o
        BY <2>5
      <4> QED BY <3>1, <4>1
    <3> QED BY <1>1, <1>5, <2>2, <2>5, <3>1, <3>3, <3>4, <3>5 DEF Answered, At
  <2> QED BY <1>6, <2>6 DEF Reads
<1> QED BY <1>1, <1>7, <1>8, SameStream

\* The chunk is complete.
LEMMA ReturnKeeps == TsiInv /\ Return => TsiInv'
<1> SUFFICES ASSUME TsiInv, Return PROVE TsiInv'
  OBVIOUS
<1>1. /\ chunk # NoChunk /\ Len(chunk.got) = chunk.len /\ chunk' = NoChunk
      /\ UNCHANGED <<in_data, out_data, sai, mem, written, reply, ops>>
  BY DEF Return, InHost
<1>2. DataTypeOK
  BY DEF TsiInv
<1>3. DataTypeOK'
  BY <1>1, <1>2 DEF DataTypeOK
<1>4. ASSUME NEW B \in [1 .. Len(in_data) -> Tag], Reads(in_data, B) PROVE Reads(in_data, B)'
  <2>1. chunk.len >= 1 /\ chunk.len \in Nat /\ Len(out_data) \in Nat /\ Len(reply) \in Nat
    BY <1>1, <1>2, TsiAssumption DEF DataTypeOK
  <2>2. chunk.got # <<>>
    BY <1>1, <2>1
  <2>3. Answered(in_data)
    BY <1>1, <1>4, <2>2 DEF Reads, Asked
  <2>4. Len(out_data) = 0 /\ Len(reply) = 0 /\ in_data = <<>>
    BY <1>1, <2>1, <2>3 DEF Answered
  <2>5. out_data = <<>> /\ reply = <<>>
    BY <1>2, <2>4 DEF DataTypeOK
  <2> QED BY <1>1, <2>4, <2>5 DEF Reads, Quiet
<1> QED BY <1>1, <1>3, <1>4, SameStream

\* The five words that push_addr and push_len make the head of a command.
LEMMA HeadWords ==
  ASSUME NEW q \in Seq(Words), NEW op \in {SAI_CMD_READ, SAI_CMD_WRITE},
         NEW a \in Addrs, NEW n \in 1 .. MaxLen
  PROVE  LET r == q \o <<op>> \o push_addr(a) \o push_len(n - 1)
         IN  /\ r \in Seq(Words) /\ Len(r) = Len(q) + 5
             /\ \A i \in 1 .. Len(q) : r[i] = q[i]
             /\ \A k \in 1 .. 5, t \in Tag :
                  t.op = op /\ t.addr = a /\ t.len = n => Heads(r[Len(q) + k], k, t)
<1> DEFINE a1 == a % W
           a2 == (a \div W) % W
           l1 == (n - 1) % W
           l2 == ((n - 1) \div W) % W
           r  == q \o <<op>> \o push_addr(a) \o push_len(n - 1)
<1>1. a1 \in Words /\ a2 \in Words
  BY TsiAssumption, SplitFacts
<1>2. l1 \in Words /\ l2 \in Words
  BY LengthFacts, SplitFacts
<1>3. op \in Words
  BY TsiAssumption DEF Words, SAI_CMD_READ, SAI_CMD_WRITE
<1>4. r = q \o <<op>> \o <<a1, a2>> \o <<l1, l2>>
  BY DEF push_addr, push_len, Split
<1>5. ASSUME NEW t \in Tag, t.op = op, t.addr = a, t.len = n
      PROVE  /\ Heads(op, 1, t) /\ Heads(a1, 2, t) /\ Heads(a2, 3, t)
             /\ Heads(l1, 4, t) /\ Heads(l2, 5, t)
  BY <1>5 DEF Heads
<1> HIDE DEF a1, a2, l1, l2, r
<1>6. r \in Seq(Words) /\ Len(r) = Len(q) + 5
  BY <1>1, <1>2, <1>3, <1>4
<1>7. \A i \in 1 .. Len(q) : r[i] = q[i]
  BY <1>1, <1>2, <1>3, <1>4
<1>8. /\ r[Len(q) + 1] = op /\ r[Len(q) + 2] = a1 /\ r[Len(q) + 3] = a2
      /\ r[Len(q) + 4] = l1 /\ r[Len(q) + 5] = l2
  BY <1>1, <1>2, <1>3, <1>4
<1>9. \A k \in 1 .. 5, t \in Tag :
        t.op = op /\ t.addr = a /\ t.len = n => Heads(r[Len(q) + k], k, t)
  <2> SUFFICES ASSUME NEW k \in 1 .. 5, NEW t \in Tag, t.op = op, t.addr = a, t.len = n
               PROVE  Heads(r[Len(q) + k], k, t)
    OBVIOUS
  <2>1. k = 1 \/ k = 2 \/ k = 3 \/ k = 4 \/ k = 5
    OBVIOUS
  <2> QED BY <1>5, <1>8, <2>1
<1> QED BY <1>6, <1>7, <1>9 DEF r

\* The tags of n words that the words of the command of t are appended to.
Place(t, k)     == [t EXCEPT !.off = k - 1]
Pushed(B, n, t) ==
  [i \in 1 .. n + Size(t) |-> IF i <= n THEN B[i] ELSE Place(t, i - n)]

LEMMA SizeFacts ==
  ASSUME NEW t \in Tag
  PROVE  Size(t) \in Nat /\ Size(t) >= 5 /\ t.off \in Nat /\ t.addr \in Addrs /\ t.len \in 1 .. MaxLen
BY TsiAssumption DEF Size, Tag

\* The old words keep their tags, the new ones have those of the command.
LEMMA PushedFacts ==
  ASSUME NEW q \in Seq(Words), NEW B \in [1 .. Len(q) -> Tag], NEW t \in Tag
  PROVE  /\ Pushed(B, Len(q), t) \in [1 .. Len(q) + Size(t) -> Tag] /\ Size(t) \in Nat /\ Size(t) >= 5
         /\ \A i \in 1 .. Len(q) : Pushed(B, Len(q), t)[i] = B[i]
         /\ \A k \in 1 .. Size(t) : Pushed(B, Len(q), t)[Len(q) + k] = Place(t, k)
         /\ \A i \in 1 .. Len(q) + Size(t) : i \in 1 .. Len(q) \/ \E k \in 1 .. Size(t) : i = Len(q) + k
<1> DEFINE n == Len(q)
           C == Pushed(B, n, t)
           z == Size(t)
<1>1. n \in Nat /\ z \in Nat /\ z >= 5
  BY TsiAssumption DEF Size, Tag
<1>0. B \in [1 .. n -> Tag]
  OBVIOUS
<1> HIDE DEF z, n
<1>2. \A k \in 1 .. z : Place(t, k) \in Tag
  BY DEF Place, Tag
<1>3. ASSUME NEW i \in 1 .. n PROVE C[i] = B[i]
  <2>1. i \in 1 .. n + z /\ i <= n
    BY <1>1
  <2> QED BY <2>1 DEF Pushed, z
<1>4. ASSUME NEW k \in 1 .. z PROVE C[n + k] = Place(t, k)
  <2>1. n + k \in 1 .. n + z /\ ~(n + k <= n) /\ (n + k) - n = k
    BY <1>1
  <2>2. C[n + k] = Place(t, (n + k) - n)
    BY <2>1 DEF Pushed, z
  <2> QED BY <2>1, <2>2
<1>5. ASSUME NEW i \in 1 .. n + z PROVE i \in 1 .. n \/ \E k \in 1 .. z : i = n + k
  <2> SUFFICES ASSUME i \notin 1 .. n PROVE i - n \in 1 .. z /\ i = n + (i - n)
    OBVIOUS
  <2> QED BY <1>1
<1>6. C \in [1 .. n + z -> Tag]
  <2>1. C = [i \in 1 .. n + z |-> C[i]]
    BY DEF Pushed, z
  <2> HIDE DEF C
  <2>2. \A i \in 1 .. n + z : C[i] \in Tag
    BY <1>0, <1>2, <1>3, <1>4, <1>5
  <2> QED BY <2>1, <2>2
<1> QED BY <1>1, <1>3, <1>4, <1>5, <1>6 DEF z, n

\* A whole command pushed behind whole commands.
LEMMA PushStream ==
  ASSUME NEW q \in Seq(Words), NEW r \in Seq(Words), NEW s \in Seq(Words),
         NEW B \in [1 .. Len(q) -> Tag], Stream(q, s, B),
         NEW t \in Tag, Fits(t.addr, t.len), Len(r) = Len(q) + Size(t),
         \A i \in 1 .. Len(q) : r[i] = q[i],
         \A k \in 1 .. 5 : Heads(r[Len(q) + k], k, t)
  PROVE  Stream(r, s, Pushed(B, Len(q), t))
<1> DEFINE C == Pushed(B, Len(q), t)
           z == Size(t)
<1>1. Len(q) \in Nat /\ z \in Nat /\ z >= 5 /\ Len(r) = Len(q) + z
  <2>1. Size(t) \in Nat /\ Size(t) >= 5
    BY SizeFacts
  <2> QED BY <2>1
<1>3. \A i \in 1 .. Len(q) : C[i] = B[i]
  BY PushedFacts
<1>4. \A k \in 1 .. z : C[Len(q) + k] = Place(t, k)
  BY PushedFacts
<1>5. \A i \in 1 .. Len(r) : i \in 1 .. Len(q) \/ \E k \in 1 .. z : i = Len(q) + k
  BY PushedFacts
<1> HIDE DEF C
<1>6. \A k \in 1 .. z :
        /\ Place(t, k).addr = t.addr /\ Place(t, k).len = t.len /\ Place(t, k).op = t.op
        /\ Place(t, k).off = k - 1 /\ Size(Place(t, k)) = z
  BY DEF Place, Tag, Size
<1> HIDE DEF z
<1>7. \A k \in 1 .. z : Place(t, k).off < z /\ (IsLast(Place(t, k)) <=> k = z)
  <2> SUFFICES ASSUME NEW k \in 1 .. z
               PROVE  Place(t, k).off < z /\ (IsLast(Place(t, k)) <=> k = z)
    OBVIOUS
  <2>1. Place(t, k).off = k - 1 /\ Size(Place(t, k)) = z
    BY <1>6
  <2>3. k \in Int /\ k <= z
    BY <1>1
  <2>2. Place(t, k).off + 1 = k
    BY <2>1, <2>3
  <2> QED BY <1>1, <2>1, <2>2, <2>3 DEF IsLast
<1>8. ASSUME NEW i \in 1 .. Len(r)
      PROVE  /\ Fits(C[i].addr, C[i].len) /\ C[i].off < Size(C[i])
             /\ Heads(r[i], C[i].off + 1, C[i])
             /\ i = Len(r) => IsLast(C[i])
             /\ i < Len(r) => IF IsLast(C[i]) THEN C[i + 1].off = 0
                              ELSE C[i + 1] = [C[i] EXCEPT !.off = @ + 1]
  <2>1. CASE i \in 1 .. Len(q)
    <3>1. /\ Fits(B[i].addr, B[i].len) /\ B[i].off < Size(B[i])
          /\ Heads(q[i], B[i].off + 1, B[i])
          /\ i = Len(q) => IsLast(B[i])
          /\ i < Len(q) => IF IsLast(B[i]) THEN B[i + 1].off = 0
                           ELSE B[i + 1] = [B[i] EXCEPT !.off = @ + 1]
      BY <2>1 DEF Stream
    <3>2. C[i] = B[i] /\ r[i] = q[i]
      BY <1>3, <2>1
    <3>3. CASE i = Len(q)
      <4>1. 1 \in 1 .. z /\ i + 1 = Len(q) + 1
        BY <1>1, <3>3
      <4>2. C[i + 1].off = 0
        BY <1>4, <1>6, <4>1
      <4> QED BY <1>1, <3>1, <3>2, <3>3, <4>2
    <3>4. CASE i < Len(q)
      <4>1. i + 1 \in 1 .. Len(q)
        BY <1>1, <2>1, <3>4
      <4>2. C[i + 1] = B[i + 1]
        BY <1>3, <4>1
      <4> QED BY <1>1, <3>1, <3>2, <3>4, <4>2
    <3> QED BY <1>1, <2>1, <3>3, <3>4
  <2>2. ASSUME NEW k \in 1 .. z, i = Len(q) + k
        PROVE  /\ Fits(C[i].addr, C[i].len) /\ C[i].off < Size(C[i])
               /\ Heads(r[i], C[i].off + 1, C[i])
               /\ i = Len(r) => IsLast(C[i])
               /\ i < Len(r) => IF IsLast(C[i]) THEN C[i + 1].off = 0
                                ELSE C[i + 1] = [C[i] EXCEPT !.off = @ + 1]
    <3>1. C[i] = Place(t, k)
      BY <1>4, <2>2
    <3>2. /\ Place(t, k).addr = t.addr /\ Place(t, k).len = t.len /\ Place(t, k).op = t.op
          /\ Place(t, k).off = k - 1 /\ Place(t, k).off < Size(Place(t, k))
          /\ (IsLast(Place(t, k)) <=> k = z)
      BY <1>6, <1>7
    <3>3. k \in Int /\ k - 1 + 1 = k
      BY <1>1
    <3>4. Heads(r[i], k, Place(t, k))
      <4>1. CASE k \in 1 .. 5
        BY <2>2, <3>2, <4>1 DEF Heads
      <4>2. CASE k \notin 1 .. 5
        BY <4>2 DEF Heads
      <4> QED BY <4>1, <4>2
    <3>5. (i = Len(r)) <=> (k = z)
      BY <1>1, <2>2, <3>3
    <3>6. i < Len(r) => C[i + 1] = [Place(t, k) EXCEPT !.off = @ + 1]
      <4> SUFFICES ASSUME i < Len(r) PROVE C[i + 1] = [Place(t, k) EXCEPT !.off = @ + 1]
        OBVIOUS
      <4>1. k + 1 \in 1 .. z /\ i + 1 = Len(q) + (k + 1) /\ (k + 1) - 1 = (k - 1) + 1
        BY <1>1, <2>2, <3>3
      <4>2. C[i + 1] = Place(t, k + 1)
        BY <1>4, <4>1
      <4> QED BY <4>1, <4>2 DEF Place, Tag
    <3>7. i < Len(r) => i # Len(r)
      BY <1>1
    <3> QED BY <3>1, <3>2, <3>3, <3>4, <3>5, <3>6, <3>7
  <2> QED BY <1>5, <2>1, <2>2
<1>9. r # <<>>
  BY <1>1
<1>10. C[1].off = Len(s) /\ \A k \in 1 .. Len(s) : Heads(s[k], k, C[1])
  <2>1. CASE q = <<>>
    <3>1. Len(q) = 0 /\ 1 \in 1 .. z /\ 1 = Len(q) + 1
      BY <1>1, <2>1
    <3>2. C[1].off = 0
      BY <1>4, <1>6, <3>1
    <3>3. s = <<>>
      BY <2>1 DEF Stream
    <3> QED BY <3>2, <3>3
  <2>2. CASE q # <<>>
    <3>1. 1 \in 1 .. Len(q)
      BY <2>2
    <3>2. C[1] = B[1]
      BY <1>3, <3>1
    <3> QED BY <2>2, <3>2 DEF Stream
  <2> QED BY <2>1, <2>2
<1>11. Stream(r, s, C)
  BY <1>8, <1>9, <1>10 DEF Stream
<1> QED BY <1>11 DEF C

\* A write_chunk that is pushed is memory as the host has written it.
LEMMA WriteKeeps ==
  ASSUME TsiInv, chunk = NoChunk, NEW a \in Addrs, NEW n \in 1 .. MaxLen,
         NEW src \in Seq(Words), Len(src) = n, Fits(a, n), write_chunk(a, src),
         UNCHANGED <<sai, mem, reply>>, ops' \in 1 .. MaxOps
  PROVE  TsiInv'
<1> DEFINE r5 == in_data \o <<SAI_CMD_WRITE>> \o push_addr(a) \o push_len(n - 1)
           q  == Len(in_data)
           t  == [op |-> SAI_CMD_WRITE, addr |-> a, len |-> n, off |-> 0]
           Covers(i, b) == b = a + 4 * (i - 1)
<1>0. t \in Tag /\ Size(t) = 5 + n
  BY TsiAssumption DEF Tag, Size, SAI_CMD_READ, SAI_CMD_WRITE
<1>1. /\ in_data' = r5 \o src /\ UNCHANGED <<out_data, chunk>>
      /\ written' = [b \in Addrs |-> IF \E i \in 1 .. n : Covers(i, b)
                                     THEN src[1 + (b - a) \div 4] ELSE written[b]]
  BY DEF write_chunk
<1>2. DataTypeOK
  BY DEF TsiInv
<1>3. /\ r5 \in Seq(Words) /\ Len(r5) = q + 5
      /\ \A i \in 1 .. q : r5[i] = in_data[i]
      /\ \A k \in 1 .. 5 : Heads(r5[q + k], k, t)
  <2> HIDE DEF t
  <2>1. t.op = SAI_CMD_WRITE /\ t.addr = a /\ t.len = n
    BY DEF t
  <2>2. in_data \in Seq(Words)
    BY <1>2 DEF DataTypeOK
  <2>3. SAI_CMD_WRITE \in {SAI_CMD_READ, SAI_CMD_WRITE}
    OBVIOUS
  <2> QED BY <1>0, <2>1, <2>2, <2>3, HeadWords, ZenonT(40)
<1>4. q \in Nat /\ n \in Nat /\ n >= 1 /\ 5 + n \in Nat /\ a \in Int
  BY <1>2, TsiAssumption DEF DataTypeOK
<1> HIDE DEF r5
<1>5. /\ in_data' \in Seq(Words) /\ Len(in_data') = q + (5 + n)
      /\ \A i \in 1 .. q + 5 : in_data'[i] = r5[i]
      /\ \A i \in 1 .. n : in_data'[q + 5 + i] = src[i]
  <2>1. in_data' = r5 \o src
    BY <1>1
  <2>2. r5 \in Seq(Words) /\ Len(r5) = q + 5
    BY <1>3
  <2> HIDE DEF q
  <2>3. in_data' \in Seq(Words) /\ Len(in_data') = Len(r5) + n
    <3>1. r5 \o src \in Seq(Words) /\ Len(r5 \o src) = Len(r5) + Len(src)
      BY <2>2
    <3> QED BY <2>1, <3>1
  <2>4. \A i \in 1 .. Len(r5) : in_data'[i] = r5[i]
    BY <2>1, <2>2
  <2>5. \A i \in 1 .. n : in_data'[Len(r5) + i] = src[i]
    BY <2>1, <2>2
  <2> QED BY <1>4, <2>2, <2>3, <2>4, <2>5
<1>6. \A b \in Addrs : written'[b] \in Words
  <2> SUFFICES ASSUME NEW b \in Addrs PROVE written'[b] \in Words
    OBVIOUS
  <2>1. ASSUME NEW i \in 1 .. n, Covers(i, b) PROVE src[1 + (b - a) \div 4] \in Words
    <3>1. 1 + (b - a) \div 4 = i
      BY <1>4, <2>1
    <3> QED BY <3>1
  <2>2. written[b] \in Words
    BY <1>2 DEF DataTypeOK
  <2> QED BY <1>1, <2>1, <2>2
<1>7. DataTypeOK'
  <2>1. written' \in [Addrs -> Words]
    BY <1>1, <1>6
  <2>2. ops' \in 0 .. MaxOps
    BY TsiAssumption
  <2> QED BY <1>1, <1>2, <1>5, <2>1, <2>2 DEF DataTypeOK
<1>8. PICK B \in [1 .. q -> Tag] : Conserved(B)
  BY DEF TsiInv
<1> HIDE DEF t
<1>9. PICK C \in [1 .. Len(in_data') -> Tag] : C = Pushed(B, q, t) /\ Stream(in_data', sai, C)
  <2>1. Stream(in_data, sai, B)
    BY <1>8 DEF Conserved
  <2>2. \A i \in 1 .. q : in_data'[i] = in_data[i]
    BY <1>3, <1>4, <1>5
  <2>3. \A k \in 1 .. 5 : q + k \in 1 .. q + 5
    BY <1>4
  <2>4. \A k \in 1 .. 5 : Heads(in_data'[q + k], k, t)
    BY <1>3, <1>5, <2>3
  <2>5. t.addr = a /\ t.len = n
    BY DEF t
  <2>6. in_data \in Seq(Words) /\ sai \in Seq(Words)
    BY <1>2 DEF DataTypeOK
  <2>7. Stream(in_data', sai, Pushed(B, q, t))
    BY <1>0, <1>5, <2>1, <2>2, <2>4, <2>5, <2>6, PushStream
  <2>8. Pushed(B, q, t) \in [1 .. Len(in_data') -> Tag]
    <3>1. Pushed(B, Len(in_data), t) \in [1 .. Len(in_data) + Size(t) -> Tag]
      BY <1>0, <2>6, PushedFacts
    <3> QED BY <1>0, <1>5, <3>1
  <2> QED BY <2>7, <2>8
<1>10. /\ \A i \in 1 .. q : C[i] = B[i]
       /\ \A k \in 1 .. 5 + n : C[q + k] = Place(t, k)
       /\ \A i \in 1 .. Len(in_data') : i \in 1 .. q \/ \E k \in 1 .. 5 + n : i = q + k
  <2>1. in_data \in Seq(Words)
    BY <1>2 DEF DataTypeOK
  <2>2. \A i \in 1 .. Len(in_data) : C[i] = B[i]
    BY <1>0, <1>9, <2>1, PushedFacts
  <2>3. \A k \in 1 .. Size(t) : C[Len(in_data) + k] = Place(t, k)
    BY <1>0, <1>9, <2>1, PushedFacts
  <2>4. \A i \in 1 .. Len(in_data) + Size(t) :
          i \in 1 .. Len(in_data) \/ \E k \in 1 .. Size(t) : i = Len(in_data) + k
    BY <1>0, <2>1, PushedFacts
  <2> QED BY <1>0, <1>5, <2>2, <2>3, <2>4
<1>11. ASSUME NEW b \in Addrs, NEW k \in 1 .. 5 + n
       PROVE  Hits(C[q + k], b) <=> (k - 5 \in 1 .. n /\ Covers(k - 5, b))
  <2>1. C[q + k].off = k - 1 /\ C[q + k].addr = a
    BY <1>10 DEF Place, t
  <2>2. b \in Int
    BY TsiAssumption
  <2> QED BY <1>4, <2>1, <2>2 DEF Hits
<1>12. \A i \in 1 .. q : i \in 1 .. Len(in_data') /\ in_data'[i] = in_data[i]
  BY <1>3, <1>4, <1>5
<1>13. Overlay(in_data', mem, written', C)
  <2> SUFFICES ASSUME NEW b \in Addrs
               PROVE  \/ /\ \A i \in 1 .. Len(in_data') : ~Hits(C[i], b)
                         /\ mem[b] = written'[b]
                      \/ \E i \in 1 .. Len(in_data') :
                           /\ Hits(C[i], b) /\ in_data'[i] = written'[b]
                           /\ \A j \in i + 1 .. Len(in_data') : ~Hits(C[j], b)
    BY DEF Overlay
  <2>1. ASSUME NEW i \in 1 .. n, Covers(i, b)
        PROVE  \E m \in 1 .. Len(in_data') :
                 /\ Hits(C[m], b) /\ in_data'[m] = written'[b]
                 /\ \A j \in m + 1 .. Len(in_data') : ~Hits(C[j], b)
    <3>1. 5 + i \in 1 .. 5 + n /\ (5 + i) - 5 = i /\ q + (5 + i) \in 1 .. Len(in_data')
          /\ q + (5 + i) = q + 5 + i
      BY <1>4, <1>5
    <3>2. Hits(C[q + (5 + i)], b)
      BY <1>11, <2>1, <3>1, SMTT(30)
    <3>3. 1 + (b - a) \div 4 = i
      BY <1>4, <2>1
    <3>4. in_data'[q + (5 + i)] = written'[b]
      BY <1>1, <1>5, <2>1, <3>1, <3>3
    <3>5. ASSUME NEW j \in q + (5 + i) + 1 .. Len(in_data') PROVE ~Hits(C[j], b)
      <4>1. j - q \in 1 .. 5 + n /\ j = q + (j - q) /\ ~Covers((j - q) - 5, b)
        BY <1>4, <1>5, <2>1
      <4> QED BY <1>11, <4>1
    <3> QED BY <3>1, <3>2, <3>4, <3>5
  <2>2. ASSUME \A i \in 1 .. n : ~Covers(i, b)
        PROVE  \/ /\ \A i \in 1 .. Len(in_data') : ~Hits(C[i], b)
                  /\ mem[b] = written'[b]
               \/ \E i \in 1 .. Len(in_data') :
                    /\ Hits(C[i], b) /\ in_data'[i] = written'[b]
                    /\ \A j \in i + 1 .. Len(in_data') : ~Hits(C[j], b)
    <3>1. written'[b] = written[b]
      BY <1>1, <2>2
    <3>2. \A k \in 1 .. 5 + n : ~Hits(C[q + k], b)
      BY <1>11, <2>2
    <3>3. \/ /\ \A i \in 1 .. q : ~Hits(B[i], b)
             /\ mem[b] = written[b]
          \/ \E i \in 1 .. q :
               /\ Hits(B[i], b) /\ in_data[i] = written[b]
               /\ \A j \in i + 1 .. q : ~Hits(B[j], b)
      BY <1>8 DEF Conserved, Overlay
    <3>4. CASE (\A i \in 1 .. q : ~Hits(B[i], b)) /\ mem[b] = written[b]
      <4>1. \A i \in 1 .. Len(in_data') : ~Hits(C[i], b)
        BY <1>10, <3>2, <3>4
      <4> QED BY <3>1, <3>4, <4>1
    <3>5. ASSUME NEW i \in 1 .. q, Hits(B[i], b), in_data[i] = written[b],
                 \A j \in i + 1 .. q : ~Hits(B[j], b)
          PROVE  \E m \in 1 .. Len(in_data') :
                   /\ Hits(C[m], b) /\ in_data'[m] = written'[b]
                   /\ \A j \in m + 1 .. Len(in_data') : ~Hits(C[j], b)
      <4>1. i \in 1 .. Len(in_data') /\ Hits(C[i], b) /\ in_data'[i] = written'[b]
        BY <1>10, <1>12, <3>1, <3>5
      <4>2. ASSUME NEW j \in i + 1 .. Len(in_data') PROVE ~Hits(C[j], b)
        <5>1. j \in 1 .. Len(in_data')
          BY <1>4
        <5>2. CASE j \in 1 .. q
          <6>1. j \in i + 1 .. q
            BY <1>4, <5>2
          <6> QED BY <1>10, <3>5, <5>2, <6>1
        <5> QED BY <1>10, <3>2, <5>1, <5>2
      <4> QED BY <4>1, <4>2
    <3> QED BY <3>3, <3>4, <3>5
  <2> QED BY <2>1, <2>2
<1>14. Reads(in_data, C)'
  <2>1. Quiet(in_data, B)
    BY <1>8 DEF Conserved, Reads
  <2>2. \A k \in 1 .. 5 + n : C[q + k].op = SAI_CMD_WRITE
    BY <1>10 DEF Place, t
  <2>3. \A i \in 1 .. Len(in_data') : C[i].op = SAI_CMD_WRITE
    BY <1>10, <2>1, <2>2 DEF Quiet
  <2> QED BY <1>1, <2>1, <2>3 DEF Reads, Quiet
<1> QED BY <1>7, <1>9, <1>13, <1>14 DEF TsiInv, Conserved

\* The command of a read_chunk is pushed behind everything else.
LEMMA ReadKeeps ==
  ASSUME TsiInv, NEW a \in Addrs, NEW n \in 1 .. MaxLen, read_chunk(a, n)
  PROVE  TsiInv'
<1> DEFINE q == Len(in_data)
           t == [op |-> SAI_CMD_READ, addr |-> a, len |-> n, off |-> 0]
<1>1. /\ in_data' = in_data \o <<SAI_CMD_READ>> \o push_addr(a) \o push_len(n - 1)
      /\ chunk = NoChunk /\ chunk' = [addr |-> a, len |-> n, got |-> <<>>]
      /\ Fits(a, n) /\ ops \in 1 .. MaxOps - 1 /\ ops' = ops + 1
      /\ UNCHANGED <<sai, mem, reply, out_data, written>>
  BY DEF read_chunk, BeginOp, InHost
<1>2. DataTypeOK /\ in_data \in Seq(Words) /\ q \in Nat
  BY DEF TsiInv, DataTypeOK
<1>3. t \in Tag /\ Size(t) = 5 /\ t.op = SAI_CMD_READ /\ t.addr = a /\ t.len = n
  BY DEF Tag, Size, SAI_CMD_READ
<1> HIDE DEF t
<1>4. /\ in_data' \in Seq(Words) /\ Len(in_data') = q + 5
      /\ \A i \in 1 .. q : in_data'[i] = in_data[i]
      /\ \A k \in 1 .. 5 : Heads(in_data'[q + k], k, t)
  <2> DEFINE r == in_data \o <<SAI_CMD_READ>> \o push_addr(a) \o push_len(n - 1)
  <2>1. SAI_CMD_READ \in {SAI_CMD_READ, SAI_CMD_WRITE}
    OBVIOUS
  <2>2. /\ r \in Seq(Words) /\ Len(r) = q + 5
        /\ \A i \in 1 .. q : r[i] = in_data[i]
        /\ \A k \in 1 .. 5 : Heads(r[q + k], k, t)
    <3>1. in_data \in Seq(Words)
      BY <1>2
    <3>2. t \in Tag
      BY <1>3
    <3>3. t.op = SAI_CMD_READ /\ t.addr = a /\ t.len = n
      BY <1>3
    <3>4. /\ r \in Seq(Words) /\ Len(r) = q + 5
          /\ \A i \in 1 .. q : r[i] = in_data[i]
          /\ \A k \in 1 .. 5, u \in Tag :
               u.op = SAI_CMD_READ /\ u.addr = a /\ u.len = n => Heads(r[q + k], k, u)
      BY <2>1, <3>1, HeadWords
    <3> HIDE DEF r
    <3> QED BY <3>2, <3>3, <3>4
  <2> HIDE DEF r
  <2>3. in_data' = r
    BY <1>1 DEF r
  <2> QED BY <2>2, <2>3
<1>5. chunk' # NoChunk /\ chunk'.got = <<>> /\ chunk'.addr = a /\ chunk'.len = n
  BY <1>1, TsiAssumption DEF NoChunk
<1>6. DataTypeOK'
  <2>1. ops' \in 0 .. MaxOps /\ ops' # 0
    BY <1>1, TsiAssumption
  <2>2. chunk' \in [addr : Addrs, len : 1 .. MaxLen, got : Seq(Words)]
    BY <1>1
  <2> QED BY <1>1, <1>2, <1>4, <1>5, <2>1, <2>2 DEF DataTypeOK, Fits
<1>7. PICK B \in [1 .. q -> Tag] : Conserved(B)
  BY DEF TsiInv
<1>8. PICK C \in [1 .. Len(in_data') -> Tag] : C = Pushed(B, q, t) /\ Stream(in_data', sai, C)
  <2>1. Stream(in_data, sai, B)
    BY <1>7 DEF Conserved
  <2>2. sai \in Seq(Words)
    BY <1>2 DEF DataTypeOK
  <2>3. Stream(in_data', sai, Pushed(B, q, t))
    BY <1>1, <1>2, <1>3, <1>4, <2>1, <2>2, PushStream
  <2>4. Pushed(B, Len(in_data), t) \in [1 .. Len(in_data) + Size(t) -> Tag]
    BY <1>2, <1>3, PushedFacts
  <2>5. Pushed(B, q, t) \in [1 .. Len(in_data') -> Tag]
    BY <1>3, <1>4, <2>4
  <2> QED BY <2>3, <2>5
<1>9. \A i \in 1 .. q : C[i] = B[i]
  BY <1>2, <1>3, <1>8, PushedFacts
<1>10. /\ \A k \in 1 .. Size(t) : C[q + k] = Place(t, k)
       /\ \A i \in 1 .. q + Size(t) : i \in 1 .. q \/ \E k \in 1 .. Size(t) : i = q + k
  <2>1. \A k \in 1 .. Size(t) : C[Len(in_data) + k] = Place(t, k)
    BY <1>2, <1>3, <1>8, PushedFacts
  <2>2. \A i \in 1 .. Len(in_data) + Size(t) :
          i \in 1 .. Len(in_data) \/ \E k \in 1 .. Size(t) : i = Len(in_data) + k
    BY <1>2, <1>3, PushedFacts
  <2> QED BY <2>1, <2>2
<1>11. \A k \in 1 .. 5 : /\ C[q + k].off = k - 1 /\ C[q + k].op = SAI_CMD_READ
                         /\ C[q + k].addr = a /\ C[q + k].len = n
  <2> SUFFICES ASSUME NEW k \in 1 .. 5
               PROVE  /\ C[q + k].off = k - 1 /\ C[q + k].op = SAI_CMD_READ
                      /\ C[q + k].addr = a /\ C[q + k].len = n
    OBVIOUS
  <2>1. C[q + k] = Place(t, k)
    BY <1>3, <1>10
  <2> QED BY <1>3, <2>1 DEF Place, Tag
<1>12. \A i \in 1 .. Len(in_data') : i \in 1 .. q \/ \E k \in 1 .. 5 : i = q + k
  BY <1>3, <1>4, <1>10
<1>13. \A i \in 1 .. q : i \in 1 .. Len(in_data')
  BY <1>2, <1>4
<1>14. Overlay(in_data', mem, written, C)
  <2> SUFFICES ASSUME NEW b \in Addrs
               PROVE  \/ /\ \A i \in 1 .. Len(in_data') : ~Hits(C[i], b)
                         /\ mem[b] = written[b]
                      \/ \E i \in 1 .. Len(in_data') :
                           /\ Hits(C[i], b) /\ in_data'[i] = written[b]
                           /\ \A j \in i + 1 .. Len(in_data') : ~Hits(C[j], b)
    BY DEF Overlay
  <2>1. \A k \in 1 .. 5 : ~Hits(C[q + k], b)
    BY <1>11 DEF Hits
  <2>2. \/ /\ \A i \in 1 .. q : ~Hits(B[i], b)
           /\ mem[b] = written[b]
        \/ \E i \in 1 .. q :
             /\ Hits(B[i], b) /\ in_data[i] = written[b]
             /\ \A j \in i + 1 .. q : ~Hits(B[j], b)
    BY <1>7 DEF Conserved, Overlay
  <2>3. CASE (\A i \in 1 .. q : ~Hits(B[i], b)) /\ mem[b] = written[b]
    <3>1. \A i \in 1 .. Len(in_data') : ~Hits(C[i], b)
      BY <1>9, <1>12, <2>1, <2>3
    <3> QED BY <2>3, <3>1
  <2>4. ASSUME NEW i \in 1 .. q, Hits(B[i], b), in_data[i] = written[b],
               \A j \in i + 1 .. q : ~Hits(B[j], b)
        PROVE  \E m \in 1 .. Len(in_data') :
                 /\ Hits(C[m], b) /\ in_data'[m] = written[b]
                 /\ \A j \in m + 1 .. Len(in_data') : ~Hits(C[j], b)
    <3>1. i \in 1 .. Len(in_data') /\ Hits(C[i], b) /\ in_data'[i] = written[b]
      BY <1>4, <1>9, <1>13, <2>4
    <3>2. ASSUME NEW j \in i + 1 .. Len(in_data') PROVE ~Hits(C[j], b)
      <4>1. j \in 1 .. Len(in_data')
        BY <1>2, <1>4
      <4>2. CASE j \in 1 .. q
        <5>1. j \in i + 1 .. q
          BY <1>2, <4>2
        <5> QED BY <1>9, <2>4, <4>2, <5>1
      <4> QED BY <1>12, <2>1, <4>1, <4>2
    <3> QED BY <3>1, <3>2
  <2> QED BY <2>2, <2>3, <2>4
<1>15. Reads(in_data, C)'
  <2>1. Quiet(in_data, B)
    BY <1>1, <1>7 DEF Conserved, Reads
  <2>2. in_data' # <<>> /\ Len(in_data') = q + 5 /\ 5 \in 1 .. 5
    BY <1>2, <1>4
  <2>3. ASSUME NEW i \in 1 .. Len(in_data'), C[i].op = SAI_CMD_READ
        PROVE  Len(in_data') - i = 4 - C[i].off
    <3>1. i \notin 1 .. q
      BY <1>9, <2>1, <2>3 DEF Quiet, SAI_CMD_READ, SAI_CMD_WRITE
    <3>2. PICK k \in 1 .. 5 : i = q + k
      BY <1>12, <3>1
    <3>3. C[i].off = k - 1
      BY <1>11, <3>2
    <3> QED BY <1>2, <2>2, <3>2, <3>3
  <2>4. /\ C[Len(in_data')].addr = a /\ C[Len(in_data')].len = n
        /\ C[Len(in_data')].op = SAI_CMD_READ
    BY <1>11, <2>2
  <2> QED BY <1>1, <1>5, <2>1, <2>2, <2>3, <2>4 DEF Reads, Quiet, Asked
<1> QED BY <1>1, <1>6, <1>8, <1>14, <1>15 DEF TsiInv, Conserved

\* The adapter sends the next word of its reply.
LEMMA SendKeeps ==
  ASSUME TsiInv, reply # <<>>, out_data' = Append(out_data, Head(reply)), reply' = Tail(reply),
         UNCHANGED <<in_data, sai, mem, written, chunk, ops>>
  PROVE  TsiInv'
<1>1. DataTypeOK
  BY DEF TsiInv
<1>2. /\ Head(reply) = reply[1] /\ reply[1] \in Words /\ reply' \in Seq(Words)
      /\ out_data' \in Seq(Words)
  BY <1>1 DEF DataTypeOK
<1>3. DataTypeOK'
  BY <1>1, <1>2 DEF DataTypeOK, Fits
<1>4. ASSUME NEW B \in [1 .. Len(in_data) -> Tag], Reads(in_data, B) PROVE Reads(in_data, B)'
  <2> DEFINE g == Len(chunk.got)
             o == Len(out_data)
             p == Len(reply)
             At(i) == written[chunk.addr + 4 * (i - 1)]
  <2>1. chunk # NoChunk /\ Answered(in_data)
    BY <1>4 DEF Reads, Quiet, Asked
  <2>2. /\ in_data = <<>> /\ g + o + p = chunk.len
        /\ \A i \in 1 .. g : chunk.got[i] = At(i)
        /\ \A i \in 1 .. o : out_data[i] = At(g + i)
        /\ \A i \in 1 .. p : reply[i] = At(g + o + i)
    BY <2>1 DEF Answered
  <2>3. g \in Nat /\ o \in Nat /\ p \in Nat /\ p >= 1
    BY <1>1, <2>1 DEF DataTypeOK
  <2>4. Len(out_data') = o + 1 /\ Len(reply') = p - 1
    BY <1>1, <1>2 DEF DataTypeOK
  <2>5. \A i \in 1 .. o + 1 : out_data'[i] = IF i <= o THEN out_data[i] ELSE reply[1]
    BY <1>1, <1>2 DEF DataTypeOK
  <2>6. \A i \in 1 .. p - 1 : reply'[i] = reply[i + 1]
    BY <1>1 DEF DataTypeOK
  <2> HIDE DEF At, g, o, p
  <2>7. \A i \in 1 .. o + 1 : out_data'[i] = At(g + i)
    <3> SUFFICES ASSUME NEW i \in 1 .. o + 1 PROVE out_data'[i] = At(g + i)
      OBVIOUS
    <3>1. CASE i <= o
      <4>1. i \in 1 .. o
        BY <2>3, <3>1
      <4> QED BY <2>2, <2>5, <3>1, <4>1
    <3>2. CASE ~(i <= o)
      <4>1. g + i = g + o + 1 /\ 1 \in 1 .. p
        BY <2>3, <3>2
      <4> QED BY <2>2, <2>5, <3>2, <4>1
    <3> QED BY <3>1, <3>2
  <2>8. \A i \in 1 .. p - 1 : reply'[i] = At(g + (o + 1) + i)
    <3> SUFFICES ASSUME NEW i \in 1 .. p - 1 PROVE reply'[i] = At(g + (o + 1) + i)
      OBVIOUS
    <3>1. i + 1 \in 1 .. p /\ g + o + (i + 1) = g + (o + 1) + i
      BY <2>3
    <3> QED BY <2>2, <2>6, <3>1
  <2>9. g + (o + 1) + (p - 1) = chunk.len
    BY <2>2, <2>3
  <2>10. Answered(in_data)'
    BY <2>2, <2>4, <2>7, <2>8, <2>9 DEF Answered, At, g
  <2> QED BY <2>1, <2>10 DEF Reads
<1> QED BY <1>3, <1>4, SameStream

\* What the tags say of the first word of in_data: how many words the adapter
\* already has, and what those five that make the head of the command say.
LEMMA FirstWord ==
  ASSUME DataTypeOK, in_data # <<>>, NEW B \in [1 .. Len(in_data) -> Tag], Stream(in_data, sai, B)
  PROVE  LET s == Append(sai, Head(in_data))
         IN  /\ 1 \in 1 .. Len(in_data) /\ Head(in_data) = in_data[1] /\ in_data[1] \in Words
             /\ s \in Seq(Words) /\ Len(s) = B[1].off + 1
             /\ \A k \in 1 .. Len(s) : Heads(s[k], k, B[1])
             /\ Len(s) >= 5 => /\ s[1] = B[1].op
                               /\ s[2] + W * s[3] = B[1].addr
                               /\ s[4] + W * s[5] + 1 = B[1].len
<1> DEFINE w == Head(in_data)
           s == Append(sai, w)
           t == B[1]
<1>1. 1 \in 1 .. Len(in_data) /\ w = in_data[1] /\ in_data[1] \in Words
  BY DEF DataTypeOK
<1>2. t \in Tag /\ t.off \in Nat
  BY <1>1, SizeFacts
<1>3. sai \in Seq(Words) /\ Len(sai) \in Nat
  BY DEF DataTypeOK
<1>4. t.off = Len(sai) /\ \A k \in 1 .. Len(sai) : Heads(sai[k], k, t)
  BY DEF Stream
<1>5. Heads(in_data[1], t.off + 1, t)
  BY <1>1 DEF Stream
<1> HIDE DEF w, t
<1>6. /\ s \in Seq(Words) /\ Len(s) = Len(sai) + 1 /\ s[Len(sai) + 1] = w
      /\ \A k \in 1 .. Len(sai) : s[k] = sai[k]
  BY <1>1, <1>3
<1> HIDE DEF s
<1>7. ASSUME NEW k \in 1 .. Len(s) PROVE Heads(s[k], k, t)
  <2>1. k \in 1 .. Len(sai) \/ k = Len(sai) + 1
    BY <1>3, <1>6
  <2> QED BY <1>1, <1>4, <1>5, <1>6, <2>1
<1>8. ASSUME Len(s) >= 5
      PROVE  /\ s[1] = t.op
             /\ s[2] + W * s[3] = t.addr
             /\ s[4] + W * s[5] + 1 = t.len
  <2>1. 1 \in 1 .. Len(s) /\ 2 \in 1 .. Len(s) /\ 3 \in 1 .. Len(s)
        /\ 4 \in 1 .. Len(s) /\ 5 \in 1 .. Len(s)
    BY <1>3, <1>6, <1>8
  <2>2. s[1] = t.op
    BY <1>7, <2>1 DEF Heads
  <2>3. s[2] = t.addr % W /\ s[3] = (t.addr \div W) % W
    BY <1>7, <2>1 DEF Heads
  <2>4. s[4] = (t.len - 1) % W /\ s[5] = ((t.len - 1) \div W) % W
    BY <1>7, <2>1 DEF Heads
  <2>5. t.addr \in 0 .. W * W - 1 /\ t.len \in 1 .. MaxLen
    BY <1>2, SizeFacts, TsiAssumption
  <2>6. s[2] + W * s[3] = t.addr
    BY <2>3, <2>5, SplitFacts
  <2>7. s[4] + W * s[5] + 1 = t.len
    BY <2>4, <2>5, LengthFacts
  <2> QED BY <2>2, <2>6, <2>7
<1> QED BY <1>1, <1>4, <1>6, <1>7, <1>8 DEF s, t, w

\* What Accept does, said with the tag of the word.
LEMMA AcceptFacts ==
  ASSUME DataTypeOK, in_data # <<>>, NEW B \in [1 .. Len(in_data) -> Tag], Stream(in_data, sai, B),
         Accept(Head(in_data))
  PROVE  LET s == Append(sai, Head(in_data))
             t == B[1]
         IN  /\ reply = <<>>
             /\ sai' = IF IsLast(t) THEN <<>> ELSE s
             /\ reply' = IF t.op = SAI_CMD_READ /\ IsLast(t) THEN Slice(mem, t.addr, t.len) ELSE <<>>
             /\ mem' = IF t.off >= 5 THEN [mem EXCEPT ![t.addr + 4 * (t.off - 5)] = in_data[1]] ELSE mem
             /\ t.op = SAI_CMD_READ => (IsLast(t) <=> t.off = 4) /\ t.off < 5
             /\ t.off >= 5 => t.off - 5 + 1 \in 1 .. t.len
<1> DEFINE w == Head(in_data)
           s == Append(sai, w)
           t == B[1]
           addr == s[2] + W * s[3]
           len  == s[4] + W * s[5] + 1
<1>1. /\ 1 \in 1 .. Len(in_data) /\ w = in_data[1]
      /\ Len(s) = t.off + 1
      /\ Len(s) >= 5 => s[1] = t.op /\ addr = t.addr /\ len = t.len
  BY FirstWord
<1>2. t \in Tag /\ t.off \in Nat /\ Size(t) \in Nat /\ Size(t) >= 5 /\ t.len \in 1 .. MaxLen
  BY <1>1, SizeFacts
<1>3. t.off < Size(t)
  BY <1>1 DEF Stream
<1>4. t.op = SAI_CMD_READ \/ t.op = SAI_CMD_WRITE
  BY <1>2 DEF Tag
<1>5. SAI_CMD_READ # SAI_CMD_WRITE
  BY DEF SAI_CMD_READ, SAI_CMD_WRITE
<1>6. /\ t.op = SAI_CMD_READ => Size(t) = 5
      /\ t.op = SAI_CMD_WRITE => Size(t) = 5 + t.len
  BY <1>5 DEF Size
<1>7. IsLast(t) <=> Len(s) = Size(t)
  BY <1>1 DEF IsLast
<1>8. t.len \in Nat
  BY <1>2, TsiAssumption
<1>9. /\ reply = <<>>
      /\ IF Len(s) < 5 THEN sai' = s /\ UNCHANGED <<reply, mem>>
         ELSE /\ sai' = IF s[1] = SAI_CMD_READ \/ Len(s) = 5 + len THEN <<>> ELSE s
              /\ reply' = IF s[1] = SAI_CMD_READ THEN Slice(mem, addr, len) ELSE <<>>
              /\ mem' = IF Len(s) = 5 THEN mem
                        ELSE [mem EXCEPT ![addr + 4 * (Len(s) - 6)] = w]
  BY DEF Accept
<1> HIDE DEF w, s, t, addr, len
<1>10. t.op = SAI_CMD_READ => (IsLast(t) <=> t.off = 4) /\ t.off < 5
  BY <1>1, <1>2, <1>3, <1>6, <1>7
<1>11. t.off >= 5 => t.off - 5 + 1 \in 1 .. t.len
  BY <1>2, <1>3, <1>4, <1>6, <1>8
<1>12. CASE Len(s) < 5
  <2>1. ~IsLast(t) /\ ~(t.off >= 5)
    BY <1>1, <1>2, <1>7, <1>12
  <2> QED BY <1>9, <1>10, <1>11, <1>12, <2>1 DEF w, s, t
<1>13. CASE Len(s) >= 5
  <2>1. s[1] = t.op /\ addr = t.addr /\ len = t.len /\ ~(Len(s) < 5)
    BY <1>1, <1>2, <1>13
  <2>2. (s[1] = SAI_CMD_READ \/ Len(s) = 5 + len) <=> IsLast(t)
    BY <1>1, <1>2, <1>3, <1>4, <1>5, <1>6, <1>7, <1>8, <1>10, <1>13, <2>1
  <2>3. (s[1] = SAI_CMD_READ) <=> (t.op = SAI_CMD_READ /\ IsLast(t))
    BY <2>1, <2>2
  <2>4. (Len(s) = 5) <=> ~(t.off >= 5)
    BY <1>1, <1>2, <1>13
  <2>5. Len(s) - 6 = t.off - 5
    BY <1>1, <1>2
  <2>6. sai' = IF IsLast(t) THEN <<>> ELSE s
    BY <1>9, <2>1, <2>2
  <2>7. reply' = IF t.op = SAI_CMD_READ /\ IsLast(t) THEN Slice(mem, t.addr, t.len) ELSE <<>>
    BY <1>9, <2>1, <2>3
  <2>8. mem' = IF t.off >= 5 THEN [mem EXCEPT ![t.addr + 4 * (t.off - 5)] = w] ELSE mem
    BY <1>9, <2>1, <2>4, <2>5
  <2> QED BY <1>1, <1>9, <1>10, <1>11, <2>6, <2>7, <2>8 DEF s, t, w
<1>14. Len(s) < 5 \/ Len(s) >= 5
  BY <1>1, <1>2
<1> QED BY <1>12, <1>13, <1>14

\* The adapter takes the next word of in_data.
LEMMA AcceptKeeps ==
  ASSUME TsiInv, in_data # <<>>, in_data' = Tail(in_data), Accept(Head(in_data)),
         UNCHANGED <<out_data, chunk, ops, written>>
  PROVE  TsiInv'
<1> DEFINE n == Len(in_data)
           s == Append(sai, Head(in_data))
<1>1. DataTypeOK
  BY DEF TsiInv
<1>2. PICK B \in [1 .. n -> Tag] : Conserved(B)
  BY DEF TsiInv
<1>3. Stream(in_data, sai, B) /\ Overlay(in_data, mem, written, B) /\ Reads(in_data, B)
  BY <1>2 DEF Conserved
<1> DEFINE t == B[1]
<1>4. /\ 1 \in 1 .. n /\ in_data[1] \in Words /\ s \in Seq(Words) /\ Len(s) = t.off + 1
      /\ \A k \in 1 .. Len(s) : Heads(s[k], k, t)
  BY <1>1, <1>3, FirstWord
<1>5. /\ reply = <<>>
      /\ sai' = IF IsLast(t) THEN <<>> ELSE s
      /\ reply' = IF t.op = SAI_CMD_READ /\ IsLast(t) THEN Slice(mem, t.addr, t.len) ELSE <<>>
      /\ mem' = IF t.off >= 5 THEN [mem EXCEPT ![t.addr + 4 * (t.off - 5)] = in_data[1]] ELSE mem
      /\ t.op = SAI_CMD_READ => (IsLast(t) <=> t.off = 4) /\ t.off < 5
      /\ t.off >= 5 => t.off - 5 + 1 \in 1 .. t.len
  BY <1>1, <1>3, AcceptFacts
<1>6. t \in Tag /\ t.off \in Nat /\ t.addr \in Addrs /\ t.len \in 1 .. MaxLen /\ t.len \in Nat
  BY <1>4, SizeFacts, TsiAssumption
<1>7. Fits(t.addr, t.len)
  BY <1>3, <1>4 DEF Stream
<1>8. /\ n \in Nat /\ n >= 1 /\ in_data' \in Seq(Words) /\ Len(in_data') = n - 1
      /\ \A i \in 1 .. n - 1 : in_data'[i] = in_data[i + 1]
  BY <1>1 DEF DataTypeOK
<1>10. PICK C \in [1 .. Len(in_data') -> Tag] : \A i \in 1 .. n - 1 : C[i] = B[i + 1]
  <2> DEFINE D == [i \in 1 .. n - 1 |-> B[i + 1]]
  <2>1. \A i \in 1 .. n - 1 : D[i] = B[i + 1] /\ i + 1 \in 1 .. n
    BY <1>8
  <2>2. D \in [1 .. Len(in_data') -> Tag]
    BY <1>8, <2>1
  <2> QED BY <2>1, <2>2
<1>9. \A i \in 1 .. n - 1 : C[i] = B[i + 1] /\ i + 1 \in 1 .. n
  BY <1>8, <1>10
<1>11. in_data' = <<>> <=> n = 1
  BY <1>8
<1> HIDE DEF n, s, t
<1>12. DataTypeOK'
  <2>1. sai' \in Seq(Words)
    BY <1>4, <1>5
  <2>2. reply' \in Seq(Words)
    <3>1. Slice(mem, t.addr, t.len) \in Seq(Words)
      <4>1. \A i \in 1 .. t.len : mem[t.addr + 4 * (i - 1)] \in Words
        BY <1>1, <1>7 DEF Fits, DataTypeOK
      <4> DEFINE f(i) == mem[t.addr + 4 * (i - 1)]
      <4>2. Slice(mem, t.addr, t.len) = [i \in 1 .. t.len |-> f(i)]
        BY DEF Slice
      <4> HIDE DEF f
      <4>3. \A i \in 1 .. t.len : f(i) \in Words
        BY <4>1 DEF f
      <4>4. Slice(mem, t.addr, t.len) \in [1 .. t.len -> Words]
        BY <4>2, <4>3
      <4> QED BY <1>6, <4>4
    <3> QED BY <1>5, <3>1
  <2>3. mem' \in [Addrs -> Words]
    BY <1>1, <1>4, <1>5 DEF DataTypeOK
  <2> QED BY <1>1, <1>8, <2>1, <2>2, <2>3 DEF DataTypeOK, Fits
<1>13. Stream(in_data', sai', C)
  <2>1. ASSUME NEW i \in 1 .. Len(in_data')
        PROVE  /\ Fits(C[i].addr, C[i].len) /\ C[i].off < Size(C[i])
               /\ Heads(in_data'[i], C[i].off + 1, C[i])
               /\ i = Len(in_data') => IsLast(C[i])
               /\ i < Len(in_data') => IF IsLast(C[i]) THEN C[i + 1].off = 0
                                       ELSE C[i + 1] = [C[i] EXCEPT !.off = @ + 1]
    <3>1. i + 1 \in 1 .. n /\ C[i] = B[i + 1] /\ in_data'[i] = in_data[i + 1]
      BY <1>8, <1>9
    <3>2. /\ Fits(B[i + 1].addr, B[i + 1].len) /\ B[i + 1].off < Size(B[i + 1])
          /\ Heads(in_data[i + 1], B[i + 1].off + 1, B[i + 1])
          /\ i + 1 = n => IsLast(B[i + 1])
          /\ i + 1 < n => IF IsLast(B[i + 1]) THEN B[(i + 1) + 1].off = 0
                          ELSE B[(i + 1) + 1] = [B[i + 1] EXCEPT !.off = @ + 1]
      BY <1>3, <3>1 DEF Stream, n
    <3>3. i = Len(in_data') => i + 1 = n
      BY <1>8
    <3>4. i < Len(in_data') => i + 1 < n /\ C[i + 1] = B[(i + 1) + 1]
      <4> SUFFICES ASSUME i < Len(in_data') PROVE i + 1 < n /\ i + 1 \in 1 .. n - 1
        BY <1>9
      <4> QED BY <1>8
    <3> QED BY <3>1, <3>2, <3>3, <3>4
  <2>2. ASSUME in_data' = <<>> PROVE sai' = <<>>
    <3>1. n = 1
      BY <1>11, <2>2
    <3>2. IsLast(t)
      BY <1>3, <1>4, <3>1 DEF Stream, n, t
    <3> QED BY <1>5, <3>2
  <2>3. ASSUME in_data' # <<>>
        PROVE  C[1].off = Len(sai') /\ \A k \in 1 .. Len(sai') : Heads(sai'[k], k, C[1])
    <3>1. 1 \in 1 .. n - 1 /\ 1 < n /\ 1 + 1 = 2
      BY <1>8, <1>11, <2>3
    <3>2. C[1] = B[2]
      BY <1>9, <3>1
    <3>3. IF IsLast(t) THEN B[2].off = 0 ELSE B[2] = [t EXCEPT !.off = @ + 1]
      <4>1. IF IsLast(B[1]) THEN B[1 + 1].off = 0 ELSE B[1 + 1] = [B[1] EXCEPT !.off = @ + 1]
        BY <1>3, <1>4, <3>1 DEF Stream, n
      <4> QED BY <3>1, <4>1 DEF t
    <3>4. CASE IsLast(t)
      BY <1>5, <3>2, <3>3, <3>4
    <3>5. CASE ~IsLast(t)
      <4>1. C[1].off = t.off + 1 /\ C[1].op = t.op /\ C[1].addr = t.addr /\ C[1].len = t.len
        BY <1>6, <3>2, <3>3, <3>5 DEF Tag
      <4> QED BY <1>4, <1>5, <3>5, <4>1 DEF Heads
    <3> QED BY <3>4, <3>5
  <2> QED BY <2>1, <2>2, <2>3 DEF Stream
<1>14. Overlay(in_data', mem', written, C)
  <2> SUFFICES ASSUME NEW b \in Addrs
               PROVE  \/ /\ \A i \in 1 .. Len(in_data') : ~Hits(C[i], b)
                         /\ mem'[b] = written[b]
                      \/ \E i \in 1 .. Len(in_data') :
                           /\ Hits(C[i], b) /\ in_data'[i] = written[b]
                           /\ \A j \in i + 1 .. Len(in_data') : ~Hits(C[j], b)
    BY DEF Overlay
  <2>1. /\ Hits(t, b) => mem'[b] = in_data[1]
        /\ ~Hits(t, b) => mem'[b] = mem[b]
    BY <1>1, <1>5 DEF Hits, DataTypeOK
  <2>2. \/ /\ \A i \in 1 .. n : ~Hits(B[i], b)
           /\ mem[b] = written[b]
        \/ \E i \in 1 .. n :
             /\ Hits(B[i], b) /\ in_data[i] = written[b]
             /\ \A j \in i + 1 .. n : ~Hits(B[j], b)
    BY <1>3 DEF Overlay, n
  <2>3. CASE (\A i \in 1 .. n : ~Hits(B[i], b)) /\ mem[b] = written[b]
    <3>1. ~Hits(t, b)
      BY <1>4, <2>3 DEF t
    <3>2. \A i \in 1 .. Len(in_data') : ~Hits(C[i], b)
      BY <1>8, <1>9, <2>3
    <3> QED BY <2>1, <2>3, <3>1, <3>2
  <2>4. ASSUME Hits(B[1], b), in_data[1] = written[b], \A j \in 1 + 1 .. n : ~Hits(B[j], b)
        PROVE  /\ \A i \in 1 .. Len(in_data') : ~Hits(C[i], b)
               /\ mem'[b] = written[b]
    <3>1. ASSUME NEW i \in 1 .. n - 1 PROVE ~Hits(C[i], b)
      <4>1. i + 1 \in 1 + 1 .. n /\ C[i] = B[i + 1]
        BY <1>8, <1>9
      <4> QED BY <2>4, <4>1
    <3> QED BY <1>8, <2>1, <2>4, <3>1 DEF t
  <2>5. ASSUME NEW i \in 1 .. n, i # 1, Hits(B[i], b), in_data[i] = written[b],
               \A j \in i + 1 .. n : ~Hits(B[j], b)
        PROVE  \E m \in 1 .. Len(in_data') :
                 /\ Hits(C[m], b) /\ in_data'[m] = written[b]
                 /\ \A j \in m + 1 .. Len(in_data') : ~Hits(C[j], b)
    <3>1. i - 1 \in 1 .. n - 1 /\ (i - 1) + 1 = i
      BY <1>8, <2>5
    <3>2. Hits(C[i - 1], b) /\ in_data'[i - 1] = written[b]
      BY <1>8, <1>9, <2>5, <3>1
    <3>3. ASSUME NEW j \in (i - 1) + 1 .. n - 1 PROVE ~Hits(C[j], b)
      <4>1. j + 1 \in i + 1 .. n /\ j \in 1 .. n - 1
        BY <1>8, <3>1
      <4> QED BY <1>9, <2>5, <4>1
    <3> QED BY <1>8, <3>1, <3>2, <3>3
  <2> QED BY <2>2, <2>3, <2>4, <2>5
<1>15. Reads(in_data, C)'
  <2>1. CASE chunk = NoChunk
    <3>1. Quiet(in_data, B)
      BY <1>3, <2>1 DEF Reads
    <3>2. t.op # SAI_CMD_READ
      BY <1>4, <3>1 DEF Quiet, SAI_CMD_READ, SAI_CMD_WRITE, t, n
    <3>3. \A i \in 1 .. Len(in_data') : C[i].op = SAI_CMD_WRITE
      BY <1>8, <1>9, <3>1 DEF Quiet, n
    <3> QED BY <1>5, <2>1, <3>1, <3>2, <3>3 DEF Reads, Quiet
  <2>2. CASE chunk # NoChunk
    <3>1. Asked(in_data, B)
      BY <1>3, <2>2 DEF Reads, Answered
    <3>2. /\ chunk.got = <<>> /\ out_data = <<>>
          /\ B[n].addr = chunk.addr /\ B[n].len = chunk.len /\ B[n].op = SAI_CMD_READ
          /\ \A i \in 1 .. n : B[i].op = SAI_CMD_READ => n - i = 4 - B[i].off
      BY <3>1 DEF Asked, n
    <3>3. IsLast(B[n])
      <4>1. n \in 1 .. n
        BY <1>8
      <4> QED BY <1>3, <4>1 DEF Stream, n
    <3>4. CASE n = 1
      <4>1. /\ t.op = SAI_CMD_READ /\ IsLast(t) /\ t.off < 5
            /\ t.addr = chunk.addr /\ t.len = chunk.len
        BY <1>5, <3>2, <3>3, <3>4 DEF t
      <4>2. \A b \in Addrs : mem[b] = written[b]
        <5>1. \A b \in Addrs : ~Hits(t, b)
          BY <1>6, <4>1 DEF Hits
        <5>2. \A i \in 1 .. Len(in_data) : B[i] = t
          BY <3>4 DEF n, t
        <5> QED BY <1>3, <5>1, <5>2 DEF Overlay
      <4>3. reply' = Slice(mem, t.addr, t.len) /\ in_data' = <<>>
        BY <1>5, <1>11, <3>4, <4>1
      <4>4. /\ Len(reply') = t.len
            /\ \A i \in 1 .. t.len : reply'[i] = written[t.addr + 4 * (i - 1)]
        BY <1>6, <1>7, <4>2, <4>3 DEF Slice, Fits
      <4>5. /\ Len(chunk.got) = 0 /\ Len(out_data) = 0
            /\ 0 + 0 + Len(reply') = chunk.len
            /\ \A i \in 1 .. Len(reply') : reply'[i] = written[chunk.addr + 4 * (0 + 0 + i - 1)]
        BY <1>6, <3>2, <4>1, <4>4
      <4>6. Answered(in_data)'
        BY <4>3, <4>5 DEF Answered
      <4> QED BY <2>2, <4>6 DEF Reads
    <3>5. CASE n # 1
      <4>1. n - 1 \in 1 .. n - 1 /\ (n - 1) + 1 = n /\ in_data' # <<>>
        BY <1>8, <1>11, <3>5
      <4>2. C[Len(in_data')] = B[n]
        BY <1>8, <1>9, <4>1
      <4>3. reply' = <<>>
        <5>1. ~(t.op = SAI_CMD_READ /\ IsLast(t))
          <6> SUFFICES ASSUME t.op = SAI_CMD_READ, IsLast(t) PROVE FALSE
            OBVIOUS
          <6>1. t.off = 4 /\ n - 1 = 4 - t.off
            BY <1>4, <1>5, <3>2 DEF t
          <6> QED BY <1>8, <3>5, <6>1
        <5> QED BY <1>5, <5>1
      <4>4. ASSUME NEW i \in 1 .. Len(in_data'), C[i].op = SAI_CMD_READ
            PROVE  Len(in_data') - i = 4 - C[i].off
        <5>1. i \in 1 .. n - 1 /\ C[i] = B[i + 1] /\ i + 1 \in 1 .. n
          BY <1>8, <1>9
        <5>2. n - (i + 1) = 4 - C[i].off
          BY <3>2, <4>4, <5>1
        <5> QED BY <1>8, <5>1, <5>2
      <4>5. Asked(in_data, C)'
        BY <3>2, <4>1, <4>2, <4>3, <4>4 DEF Asked
      <4> QED BY <2>2, <4>5 DEF Reads
    <3> QED BY <3>4, <3>5
  <2> QED BY <2>1, <2>2
<1> QED BY <1>12, <1>13, <1>14, <1>15 DEF TsiInv, Conserved

\* The contexts do not touch the words.
LEMMA StutterKeeps ==
  ASSUME TsiInv, UNCHANGED <<in_data, out_data, chunk, ops, sai, reply, mem, written>>
  PROVE  TsiInv'
<1>1. DataTypeOK'
  BY DEF TsiInv, DataTypeOK, Fits
<1>2. ASSUME NEW B \in [1 .. Len(in_data) -> Tag], Reads(in_data, B) PROVE Reads(in_data, B)'
  <2>1. Quiet(in_data, B) => Quiet(in_data, B)'
    BY DEF Quiet
  <2>2. Asked(in_data, B) => Asked(in_data, B)'
    BY DEF Asked
  <2>3. Answered(in_data) => Answered(in_data)'
    BY DEF Answered
  <2> QED BY <1>2, <2>1, <2>2, <2>3 DEF Reads
<1> QED BY <1>1, <1>2, SameStream

LEMMA TsiInvStep == TsiInv /\ [Next]_vars => TsiInv'
<1> SUFFICES ASSUME TsiInv, [Next]_vars PROVE TsiInv'
  OBVIOUS
<1>1. DataTypeOK
  BY DEF TsiInv
<1>2. ASSUME UNCHANGED tsiVars PROVE TsiInv'
  BY <1>2, StutterKeeps DEF tsiVars
<1>3. CASE reset
  <2>1. /\ chunk = NoChunk /\ ops' = 1 /\ UNCHANGED <<sai, mem, reply>>
        /\ write_chunk(MSIP_BASE, <<1>>)
    BY <1>1, <1>3 DEF reset, InHost, DataTypeOK
  <2>2. /\ MSIP_BASE \in Addrs /\ MSIP_BASE \in Int /\ 1 \in 1 .. MaxLen /\ <<1>> \in Seq(Words)
        /\ Len(<<1>>) = 1 /\ 1 \in 1 .. MaxOps
    BY TsiAssumption DEF Words
  <2>3. Fits(MSIP_BASE, 1)
    BY <2>2 DEF Fits
  <2> QED BY <2>1, <2>2, <2>3, WriteKeeps
<1>4. ASSUME NEW a \in Addrs, NEW n \in 1 .. MaxLen, NEW src \in [1 .. n -> Data], WriteChunk(a, src)
      PROVE  TsiInv'
  <2>1. n \in Nat
    BY TsiAssumption
  <2>2. src \in [1 .. n -> Words]
    BY TsiAssumption
  <2>3. src \in Seq(Words) /\ Len(src) = n
    BY <2>1, <2>2
  <2>4. /\ chunk = NoChunk /\ Fits(a, n) /\ write_chunk(a, src)
        /\ UNCHANGED <<sai, mem, reply>> /\ ops \in 1 .. MaxOps - 1 /\ ops' = ops + 1
    BY <1>4, <2>3 DEF WriteChunk, BeginOp, InHost
  <2>5. ops' \in 1 .. MaxOps
    BY <2>4, TsiAssumption
  <2> QED BY <2>3, <2>4, <2>5, WriteKeeps
<1>5. ASSUME NEW a \in Addrs, NEW n \in 1 .. MaxLen, read_chunk(a, n) PROVE TsiInv'
  BY <1>5, ReadKeeps
<1>6. CASE switch_to_target
  BY <1>2, <1>6 DEF switch_to_target, InHost, tsiVars
<1>7. CASE tsi_t
  <2>1. UNCHANGED <<in_data, out_data, chunk, ops, sai, reply, mem, written>>
    BY <1>7 DEF tsi_t, InTarget
  <2> QED BY <2>1, StutterKeeps
<1>8. CASE switch_to_host
  <2>1. UNCHANGED <<in_data, out_data, chunk, ops, sai, reply, mem, written>>
    BY <1>8 DEF switch_to_host, InTarget
  <2> QED BY <2>1, StutterKeeps
<1>9. ASSUME NEW out_valid \in BOOLEAN, NEW in_ready \in BOOLEAN, tick(out_valid, in_ready)
      PROVE  TsiInv'
  <2> DEFINE moves == in_ready /\ in_data # <<>>
  <2>1. /\ UNCHANGED <<chunk, ops, written>>
        /\ out_valid => reply # <<>>
        /\ in_data' = IF moves THEN Tail(in_data) ELSE in_data
        /\ out_data' = IF out_valid THEN Append(out_data, Head(reply)) ELSE out_data
        /\ IF moves THEN Accept(Head(in_data))
           ELSE /\ UNCHANGED <<sai, mem>>
                /\ reply' = IF out_valid THEN Tail(reply) ELSE reply
    BY <1>9 DEF tick, InTarget
  <2>2. CASE moves
    <3>1. reply = <<>>
      BY <2>1, <2>2 DEF Accept
    <3> QED BY <2>1, <2>2, <3>1, AcceptKeeps
  <2>3. CASE ~moves /\ out_valid
    BY <2>1, <2>3, SendKeeps
  <2>4. CASE ~moves /\ ~out_valid
    <3>1. UNCHANGED <<in_data, out_data, chunk, ops, sai, reply, mem, written>>
      BY <2>1, <2>4
    <3> QED BY <3>1, StutterKeeps
  <2> QED BY <2>2, <2>3, <2>4
<1>10. ASSUME NEW c \in Contexts, Threads(c) PROVE TsiInv'
  BY <1>2, <1>10 DEF Threads
<1>11. CASE UNCHANGED vars
  BY <1>2, <1>11 DEF vars
<1> QED BY <1>3, <1>4, <1>5, <1>6, <1>7, <1>8, <1>9, <1>10, <1>11, TakeWordKeeps, ReturnKeeps
        DEF Next, HostStep, TargetStep

\* What the host has of its chunk is a prefix of what it has written.
LEMMA TsiInvConserves == ContextTypeOK /\ TsiInv => WordsConserved
<1> SUFFICES ASSUME ContextTypeOK, TsiInv PROVE WordsConserved
  OBVIOUS
<1>1. DataTypeOK
  BY DEF TsiInv
<1>2. PICK B \in [1 .. Len(in_data) -> Tag] : Conserved(B)
  BY DEF TsiInv
<1>3. Stream(in_data, sai, B) /\ Overlay(in_data, mem, written, B) /\ Reads(in_data, B)
  BY <1>2 DEF Conserved
<1>4. Len(sai) < 5 + MaxLen
  <2>1. CASE in_data = <<>>
    BY <1>3, <2>1, TsiAssumption DEF Stream
  <2>2. CASE in_data # <<>>
    <3>1. 1 \in 1 .. Len(in_data)
      BY <1>1, <2>2 DEF DataTypeOK
    <3>2. B[1].off < Size(B[1]) /\ B[1].off = Len(sai)
      BY <1>3, <2>2, <3>1 DEF Stream
    <3>3. Size(B[1]) <= 5 + MaxLen /\ Size(B[1]) \in Nat
      <4>1. B[1] \in Tag
        BY <3>1
      <4> QED BY <4>1, TsiAssumption DEF Size, Tag
    <3>4. Len(sai) \in Nat
      BY <1>1 DEF DataTypeOK
    <3> QED BY <3>2, <3>3, <3>4, TsiAssumption
  <2> QED BY <2>1, <2>2
<1>5. TypeOK
  BY <1>1, <1>4 DEF TypeOK, DataTypeOK
<1>6. ReadsSeeWrites
  <2>1. CASE chunk.got = <<>>
    <3> DEFINE u == Slice(written, chunk.addr, chunk.len)
    <3>1. Len(chunk.got) = 0
      BY <2>1
    <3> QED BY <2>1, <3>1 DEF ReadsSeeWrites, IsPrefix
  <2>2. CASE chunk.got # <<>>
    <3> DEFINE g == chunk.got
               u == Slice(written, chunk.addr, chunk.len)
    <3>1. chunk # NoChunk
      BY <2>2 DEF NoChunk
    <3>2. Answered(in_data)
      BY <1>3, <2>2, <3>1 DEF Reads, Asked
    <3>3. g \in Seq(Words) /\ chunk.len \in Nat /\ Len(out_data) \in Nat /\ Len(reply) \in Nat
      BY <1>1, <3>1, TsiAssumption DEF DataTypeOK
    <3>4. Len(g) <= chunk.len
      BY <3>2, <3>3 DEF Answered
    <3>5. Len(u) = chunk.len /\ \A i \in 1 .. chunk.len : u[i] = written[chunk.addr + 4 * (i - 1)]
      BY <3>3 DEF Slice
    <3>6. \A i \in 1 .. Len(g) : g[i] = u[i]
      <4>1. \A i \in 1 .. Len(g) : i \in 1 .. chunk.len
        BY <3>3, <3>4
      <4> QED BY <3>2, <3>5, <4>1 DEF Answered
    <3> HIDE DEF u
    <3>7. SubSeq(g, 1, Len(g)) = SubSeq(u, 1, Len(g))
      BY <3>3, <3>6
    <3> QED BY <3>4, <3>5, <3>7 DEF ReadsSeeWrites, IsPrefix, u
  <2> QED BY <2>1, <2>2
<1>7. in_data = <<>> /\ sai = <<>> => mem = written
  <2> SUFFICES ASSUME in_data = <<>> PROVE mem = written
    OBVIOUS
  <2>1. \A b \in Addrs : mem[b] = written[b]
    BY <1>3 DEF Overlay
  <2> QED BY <1>1, <2>1 DEF DataTypeOK
<1>8. chunk = NoChunk => out_data = <<>> /\ reply = <<>>
  BY <1>3 DEF Reads, Quiet
<1> QED BY <1>5, <1>6, <1>7, <1>8 DEF WordsConserved, NothingLost

\* read_chunk returns what the host's earlier write_chunks left in memory, and
\* once the words are consumed memory holds them all: the queues between the
\* threads and the adapter lose, duplicate and reorder no word of tsi.cc.
THEOREM TsiWordsConserved == Spec => []WordsConserved
<1>1. Init => ContextInit
  BY DEF Init
<1>2. Spec => []TsiInv
  BY TsiInvInit, TsiInvStep, PTL DEF Spec
<1> QED BY <1>1, <1>2, TsiUsesContexts, ContextTypeCorrect, TsiInvConserves, PTL DEF Spec, ContextSpec

=============================================================================
