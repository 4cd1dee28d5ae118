------------------------- MODULE StoreBufferProofs -------------------------
(***************************************************************************)
(* For every depth of the two queues and every set of stores: the store    *)
(* buffer keeps its rings consistent (TypeCorrect, RingsAlwaysConsistent)  *)
(* and implements the two queues of StoreQueue (QueuesImplemented).        *)
(* The argument is about one ring at a time: a push, a pop and a clear     *)
(* preserve RingOK, and a clock edge is a push, a pop or a clear of each.  *)
(***************************************************************************)
EXTENDS StoreBuffer, SequenceTheorems, TLAPS

\* Successive slots: going one further from rd is the same as starting one
\* further, and the slots of one turn are pairwise different.
LEMMA SlotFacts ==
  ASSUME NEW depth \in Nat \ {0, 1}, NEW rd \in Slots(depth)
  PROVE  /\ \A i \in Slots(depth) : Slot(rd, i, depth) \in Slots(depth)
         /\ Slot(rd, 0, depth) = rd
         /\ Inc(rd, depth) \in Slots(depth)
         /\ \A i \in 0 .. depth - 2 :
              /\ Slot(Inc(rd, depth), i, depth) = Slot(rd, i + 1, depth)
              /\ Inc(Slot(rd, i, depth), depth) = Slot(rd, i + 1, depth)
         /\ Slot(Inc(rd, depth), depth - 1, depth) = rd
         /\ Inc(Slot(rd, depth - 1, depth), depth) = rd
         /\ \A i, j \in Slots(depth) :
              Slot(rd, i, depth) = Slot(rd, j, depth) => i = j
  BY DEF Slots, Slot, Inc

\* Pushing onto a ring that is not full (a valid_i or a commit_i).
LEMMA RingPush ==
  ASSUME NEW depth \in Nat \ {0, 1}, NEW rd \in Slots(depth),
         NEW wr \in Slots(depth), NEW cnt \in 0 .. depth, cnt # depth,
         NEW S, NEW queue \in [Slots(depth) -> S \cup {Empty}],
         NEW x, x # Empty,
         RingOK(queue, rd, wr, cnt, depth)
  PROVE  RingOK([queue EXCEPT ![wr] = x], rd, Inc(wr, depth), cnt + 1, depth)
<1>1. wr = Slot(rd, cnt, depth) /\ cnt \in Slots(depth)
  BY DEF RingOK, Slots
<1>2. Inc(wr, depth) = Slot(rd, IF cnt + 1 = depth THEN 0 ELSE cnt + 1, depth)
  <2>1. CASE cnt + 1 = depth
    BY <1>1, <2>1, SlotFacts DEF Slots
  <2>2. CASE cnt + 1 # depth
    BY <1>1, <2>2, SlotFacts DEF Slots
  <2> QED BY <2>1, <2>2
<1>3. ASSUME NEW i \in Slots(depth)
      PROVE  ([queue EXCEPT ![wr] = x][Slot(rd, i, depth)] # Empty) <=> (i < cnt + 1)
  <2>1. Slot(rd, i, depth) \in Slots(depth)
    BY SlotFacts
  <2>2. CASE i = cnt
    BY <1>1, <2>1, <2>2 DEF Slots
  <2>3. CASE i # cnt
    <3>1. Slot(rd, i, depth) # wr
      BY <1>1, <2>3, SlotFacts
    <3>2. (queue[Slot(rd, i, depth)] # Empty) <=> (i < cnt)
      BY DEF RingOK
    <3> QED BY <2>1, <2>3, <3>1, <3>2 DEF Slots
  <2> QED BY <2>2, <2>3
<1> QED BY <1>2, <1>3 DEF RingOK

\* Popping a ring that is not empty (a commit_i or a grant of the cache).
LEMMA RingPop ==
  ASSUME NEW depth \in Nat \ {0, 1}, NEW rd \in Slots(depth),
         NEW wr \in Slots(depth), NEW cnt \in 0 .. depth, cnt # 0,
         NEW S, NEW queue \in [Slots(depth) -> S \cup {Empty}],
         RingOK(queue, rd, wr, cnt, depth)
  PROVE  RingOK([queue EXCEPT ![rd] = Empty], Inc(rd, depth), wr, cnt - 1, depth)
<1>1. wr = Slot(Inc(rd, depth), cnt - 1, depth) /\ cnt - 1 \in 0 .. depth - 1
  <2>1. CASE cnt = depth
    <3>1. wr = Slot(rd, 0, depth)
      BY <2>1 DEF RingOK
    <3> QED BY <2>1, <3>1, SlotFacts DEF Slots
  <2>2. CASE cnt # depth
    <3>1. wr = Slot(rd, cnt, depth)
      BY <2>2 DEF RingOK
    <3>2. Slot(Inc(rd, depth), cnt - 1, depth) = Slot(rd, (cnt - 1) + 1, depth)
      BY <2>2, SlotFacts DEF Slots
    <3> QED BY <2>2, <3>1, <3>2
  <2> QED BY <2>1, <2>2
<1>2. ASSUME NEW i \in Slots(depth)
      PROVE  ([queue EXCEPT ![rd] = Empty][Slot(Inc(rd, depth), i, depth)] # Empty)
                <=> (i < cnt - 1)
  <2>1. CASE i = depth - 1
    <3>1. Slot(Inc(rd, depth), i, depth) = rd
      BY <2>1, SlotFacts
    <3> QED BY <2>1, <3>1 DEF Slots
  <2>2. CASE i # depth - 1
    <3>1. Slot(Inc(rd, depth), i, depth) = Slot(rd, i + 1, depth) /\ i + 1 \in Slots(depth)
      BY <2>2, SlotFacts DEF Slots
    <3>2. Slot(rd, i + 1, depth) # rd /\ Slot(rd, i + 1, depth) \in Slots(depth)
      <4>1. rd = Slot(rd, 0, depth) /\ 0 \in Slots(depth) /\ i + 1 # 0
        BY SlotFacts DEF Slots
      <4> QED BY <3>1, <4>1, SlotFacts
    <3>3. (queue[Slot(rd, i + 1, depth)] # Empty) <=> (i + 1 < cnt)
      BY <3>1 DEF RingOK
    <3> QED BY <3>1, <3>2, <3>3 DEF Slots
  <2> QED BY <2>1, <2>2
<1>3. cnt - 1 # depth
  BY <1>1
<1> QED BY <1>1, <1>2, <1>3 DEF RingOK

\* Clearing a ring (flush_i): whatever the read pointer, an empty ring whose
\* write pointer equals it is consistent.
LEMMA RingClear ==
  ASSUME NEW depth \in Nat \ {0, 1}, NEW rd \in Slots(depth)
  PROVE  RingOK([i \in Slots(depth) |-> Empty], rd, rd, 0, depth)
  BY SlotFacts DEF RingOK, Slots

\* The slot at the read pointer is valid exactly when the counter is not 0.
LEMMA RingHead ==
  ASSUME NEW depth \in Nat \ {0, 1}, NEW rd \in Slots(depth), NEW wr,
         NEW cnt \in 0 .. depth, NEW queue, RingOK(queue, rd, wr, cnt, depth)
  PROVE  (queue[rd] # Empty) <=> (cnt # 0)
  BY SlotFacts DEF RingOK, Slots

----------------------------------------------------------------------------
IInv == SBTypeOK /\ RingsConsistent

\* One clock edge preserves the speculative ring.
LEMMA SpecRingStep ==
  ASSUME IInv, NEW store \in Store \cup {Empty},
         NEW commit \in BOOLEAN, NEW flush \in BOOLEAN,
         Contract(store, commit, flush), core_if(store, commit, flush)
  PROVE  /\ spec_queue' \in [Slots(DEPTH_SPEC) -> Store \cup {Empty}]
         /\ spec_rd' \in Slots(DEPTH_SPEC)
         /\ spec_wr' \in Slots(DEPTH_SPEC)
         /\ spec_cnt' \in 0 .. DEPTH_SPEC
         /\ RingOK(spec_queue, spec_rd, spec_wr, spec_cnt, DEPTH_SPEC)'
<1> USE DepthAssumption
<1>1. /\ spec_queue \in [Slots(DEPTH_SPEC) -> Store \cup {Empty}]
      /\ spec_rd \in Slots(DEPTH_SPEC)
      /\ spec_wr \in Slots(DEPTH_SPEC)
      /\ spec_cnt \in 0 .. DEPTH_SPEC
      /\ RingOK(spec_queue, spec_rd, spec_wr, spec_cnt, DEPTH_SPEC)
      /\ Inc(spec_rd, DEPTH_SPEC) \in Slots(DEPTH_SPEC)
      /\ Inc(spec_wr, DEPTH_SPEC) \in Slots(DEPTH_SPEC)
  BY SlotFacts DEF IInv, SBTypeOK, RingsConsistent
<1>2. CASE flush
  <2>1. ~commit
    BY <1>2 DEF Contract
  <2>2. /\ spec_queue' = [i \in Slots(DEPTH_SPEC) |-> Empty]
        /\ spec_rd' = spec_rd /\ spec_wr' = spec_rd /\ spec_cnt' = 0
    BY <1>2, <2>1 DEF core_if
  <2>3. RingOK(spec_queue', spec_rd', spec_wr', spec_cnt', DEPTH_SPEC)
    BY <1>1, <2>2, RingClear
  <2> QED BY <1>1, <2>2, <2>3
<1>3. CASE ~flush /\ store = Empty /\ ~commit
  BY <1>1, <1>3 DEF core_if
<1>4. CASE ~flush /\ store # Empty /\ ~commit
  <2>1. spec_cnt # DEPTH_SPEC
    BY <1>4 DEF Contract
  <2>2. /\ spec_queue' = [spec_queue EXCEPT ![spec_wr] = store]
        /\ spec_rd' = spec_rd /\ spec_wr' = Inc(spec_wr, DEPTH_SPEC)
        /\ spec_cnt' = spec_cnt + 1
    BY <1>1, <1>4, <2>1 DEF core_if, CntUp
  <2>3. RingOK(spec_queue', spec_rd', spec_wr', spec_cnt', DEPTH_SPEC)
    BY <1>1, <1>4, <2>1, <2>2, RingPush
  <2> QED BY <1>1, <2>1, <2>2, <2>3
<1>5. CASE ~flush /\ store = Empty /\ commit
  <2>1. spec_cnt # 0
    BY <1>5 DEF Contract
  <2>2. /\ spec_queue' = [spec_queue EXCEPT ![spec_rd] = Empty]
        /\ spec_rd' = Inc(spec_rd, DEPTH_SPEC) /\ spec_wr' = spec_wr
        /\ spec_cnt' = spec_cnt - 1
    BY <1>1, <1>5, <2>1 DEF core_if, CntDown
  <2>3. RingOK(spec_queue', spec_rd', spec_wr', spec_cnt', DEPTH_SPEC)
    BY <1>1, <2>1, <2>2, RingPop
  <2> QED BY <1>1, <2>1, <2>2, <2>3
<1>6. CASE ~flush /\ store # Empty /\ commit
  <2> DEFINE pushed == [spec_queue EXCEPT ![spec_wr] = store]
  <2>1. spec_cnt # 0 /\ spec_cnt # DEPTH_SPEC
    BY <1>6 DEF Contract
  <2>2. /\ spec_queue' = [pushed EXCEPT ![spec_rd] = Empty]
        /\ spec_rd' = Inc(spec_rd, DEPTH_SPEC) /\ spec_wr' = Inc(spec_wr, DEPTH_SPEC)
        /\ spec_cnt' = (spec_cnt + 1) - 1
    BY <1>1, <1>6, <2>1 DEF core_if, CntUp, CntDown
  <2>3. RingOK(pushed, spec_rd, Inc(spec_wr, DEPTH_SPEC), spec_cnt + 1, DEPTH_SPEC)
    BY <1>1, <1>6, <2>1, RingPush
  <2>4. /\ pushed \in [Slots(DEPTH_SPEC) -> Store \cup {Empty}]
        /\ spec_cnt + 1 \in 0 .. DEPTH_SPEC /\ spec_cnt + 1 # 0
    BY <1>1, <2>1
  <2> HIDE DEF pushed
  <2>5. RingOK(spec_queue', spec_rd', spec_wr', spec_cnt', DEPTH_SPEC)
    BY <1>1, <2>2, <2>3, <2>4, RingPop
  <2> QED BY <1>1, <2>1, <2>2, <2>4, <2>5
<1> QED BY <1>2, <1>3, <1>4, <1>5, <1>6

\* One clock edge preserves the commit ring: a grant pops it, a commit pushes
\* the oldest speculative store.
LEMMA CommitRingStep ==
  ASSUME IInv, NEW store \in Store \cup {Empty},
         NEW commit \in BOOLEAN, NEW flush \in BOOLEAN, NEW gnt \in BOOLEAN,
         Contract(store, commit, flush), store_if(commit, gnt)
  PROVE  /\ commit_queue' \in [Slots(DEPTH_COMMIT) -> Store \cup {Empty}]
         /\ commit_rd' \in Slots(DEPTH_COMMIT)
         /\ commit_wr' \in Slots(DEPTH_COMMIT)
         /\ commit_cnt' \in 0 .. DEPTH_COMMIT
         /\ RingOK(commit_queue, commit_rd, commit_wr, commit_cnt, DEPTH_COMMIT)'
<1> USE DepthAssumption
<1> DEFINE popped == IF Drained(gnt) THEN [commit_queue EXCEPT ![commit_rd] = Empty]
                                     ELSE commit_queue
           rd     == IF Drained(gnt) THEN Inc(commit_rd, DEPTH_COMMIT) ELSE commit_rd
           cnt    == IF Drained(gnt) THEN commit_cnt - 1 ELSE commit_cnt
           head   == spec_queue[spec_rd]
<1>1. /\ commit_queue \in [Slots(DEPTH_COMMIT) -> Store \cup {Empty}]
      /\ commit_rd \in Slots(DEPTH_COMMIT)
      /\ commit_wr \in Slots(DEPTH_COMMIT)
      /\ commit_cnt \in 0 .. DEPTH_COMMIT
      /\ RingOK(commit_queue, commit_rd, commit_wr, commit_cnt, DEPTH_COMMIT)
      /\ Inc(commit_rd, DEPTH_COMMIT) \in Slots(DEPTH_COMMIT)
      /\ Inc(commit_wr, DEPTH_COMMIT) \in Slots(DEPTH_COMMIT)
      /\ spec_cnt \in 0 .. DEPTH_SPEC
      /\ spec_queue \in [Slots(DEPTH_SPEC) -> Store \cup {Empty}]
      /\ spec_rd \in Slots(DEPTH_SPEC)
  BY SlotFacts DEF IInv, SBTypeOK, RingsConsistent
<1>2. Drained(gnt) => commit_cnt # 0
  BY <1>1, RingHead DEF Drained, data_req
<1>3. commit => head \in Store /\ head # Empty /\ cnt # DEPTH_COMMIT
  <2>1. commit => spec_cnt # 0 /\ commit_cnt # DEPTH_COMMIT
    BY DEF Contract
  <2>2. RingOK(spec_queue, spec_rd, spec_wr, spec_cnt, DEPTH_SPEC)
    BY DEF IInv, RingsConsistent
  <2>3. commit => head # Empty
    BY <1>1, <2>1, <2>2, RingHead
  <2> QED BY <1>1, <2>1, <2>3
<1>4. /\ commit_queue' = IF commit THEN [popped EXCEPT ![commit_wr] = head] ELSE popped
      /\ commit_rd' = rd
      /\ commit_wr' = IF commit THEN Inc(commit_wr, DEPTH_COMMIT) ELSE commit_wr
      /\ commit_cnt' = IF commit THEN cnt + 1 ELSE cnt
  BY <1>1, <1>2, <1>3 DEF store_if, CntUp, CntDown
<1>5. /\ popped \in [Slots(DEPTH_COMMIT) -> Store \cup {Empty}]
      /\ rd \in Slots(DEPTH_COMMIT)
      /\ cnt \in 0 .. DEPTH_COMMIT
      /\ RingOK(popped, rd, commit_wr, cnt, DEPTH_COMMIT)
  <2>1. CASE Drained(gnt)
    <3>1. /\ popped = [commit_queue EXCEPT ![commit_rd] = Empty]
          /\ rd = Inc(commit_rd, DEPTH_COMMIT)
          /\ cnt = commit_cnt - 1
      BY <2>1
    <3>2. RingOK([commit_queue EXCEPT ![commit_rd] = Empty], Inc(commit_rd, DEPTH_COMMIT),
                 commit_wr, commit_cnt - 1, DEPTH_COMMIT)
      BY <1>1, <1>2, <2>1, RingPop
    <3>3. /\ [commit_queue EXCEPT ![commit_rd] = Empty]
               \in [Slots(DEPTH_COMMIT) -> Store \cup {Empty}]
          /\ commit_cnt - 1 \in 0 .. DEPTH_COMMIT
      BY <1>1, <1>2, <2>1
    <3> QED BY <1>1, <3>1, <3>2, <3>3
  <2>2. CASE ~Drained(gnt)
    BY <1>1, <2>2
  <2> QED BY <2>1, <2>2
<1> HIDE DEF popped, rd, cnt, head
<1>6. CASE commit
  <2>1. RingOK([popped EXCEPT ![commit_wr] = head], rd, Inc(commit_wr, DEPTH_COMMIT),
               cnt + 1, DEPTH_COMMIT)
    BY <1>1, <1>3, <1>5, <1>6, RingPush
  <2> QED BY <1>1, <1>3, <1>4, <1>5, <1>6, <2>1
<1>7. CASE ~commit
  BY <1>1, <1>4, <1>5, <1>7
<1> QED BY <1>6, <1>7

LEMMA IInvInit == StoreBufferInit => IInv
<1> SUFFICES ASSUME StoreBufferInit PROVE IInv
  OBVIOUS
<1> USE DepthAssumption
<1>1. SBTypeOK
  BY DEF StoreBufferInit, SBTypeOK, Slots
<1>2. RingsConsistent
  <2>1. 0 \in Slots(DEPTH_SPEC) /\ 0 \in Slots(DEPTH_COMMIT)
    BY DEF Slots
  <2> QED BY <2>1, RingClear DEF StoreBufferInit, RingsConsistent
<1> QED BY <1>1, <1>2 DEF IInv

LEMMA IInvStep == IInv /\ [SBNext]_sbVars => IInv'
<1> SUFFICES ASSUME IInv, [SBNext]_sbVars PROVE IInv'
  OBVIOUS
<1>1. CASE SBNext
  <2> PICK store \in Store \cup {Empty}, commit \in BOOLEAN, flush \in BOOLEAN,
           gnt \in BOOLEAN : ContractCycle(store, commit, flush, gnt)
    BY <1>1 DEF SBNext
  <2>1. Contract(store, commit, flush) /\ core_if(store, commit, flush)
        /\ store_if(commit, gnt)
    BY DEF ContractCycle, StoreBufferCycle
  <2>2. /\ spec_queue' \in [Slots(DEPTH_SPEC) -> Store \cup {Empty}]
        /\ spec_rd' \in Slots(DEPTH_SPEC)
        /\ spec_wr' \in Slots(DEPTH_SPEC)
        /\ spec_cnt' \in 0 .. DEPTH_SPEC
        /\ RingOK(spec_queue, spec_rd, spec_wr, spec_cnt, DEPTH_SPEC)'
    BY <2>1, SpecRingStep
  <2>3. /\ commit_queue' \in [Slots(DEPTH_COMMIT) -> Store \cup {Empty}]
        /\ commit_rd' \in Slots(DEPTH_COMMIT)
        /\ commit_wr' \in Slots(DEPTH_COMMIT)
        /\ commit_cnt' \in 0 .. DEPTH_COMMIT
        /\ RingOK(commit_queue, commit_rd, commit_wr, commit_cnt, DEPTH_COMMIT)'
    BY <2>1, CommitRingStep
  <2> QED BY <2>2, <2>3 DEF IInv, SBTypeOK, RingsConsistent
<1>2. CASE UNCHANGED sbVars
  BY <1>2 DEF sbVars, IInv, SBTypeOK, RingsConsistent, RingOK
<1> QED BY <1>1, <1>2

\* Under the contract its assertions state, every register of the store
\* buffer stays in its range; in particular neither status counter exceeds
\* its depth or wraps below zero.
THEOREM TypeCorrect == SBSpec => []SBTypeOK
<1>1. IInv => SBTypeOK
  BY DEF IInv
<1> QED BY <1>1, IInvInit, IInvStep, PTL DEF SBSpec

\* Under the same contract, for all depths, the valid bits, pointers and
\* counters of store_buffer.sv always agree on what the two queues hold.
THEOREM RingsAlwaysConsistent == SBSpec => []RingsConsistent
<1>1. IInv => RingsConsistent
  BY DEF IInv
<1> QED BY <1>1, IInvInit, IInvStep, PTL DEF SBSpec

----------------------------------------------------------------------------
(***************************************************************************)
(* The refinement: a ring, read from its read pointer, is a sequence.      *)
(***************************************************************************)
RingSeq(queue, rd, cnt, depth) ==
  [i \in 1 .. cnt |-> queue[Slot(rd, i - 1, depth)]]

\* A consistent ring with slots for elements of S.
IsRing(queue, rd, wr, cnt, depth, S) ==
  /\ depth \in Nat \ {0, 1}
  /\ queue \in [Slots(depth) -> S \cup {Empty}]
  /\ rd \in Slots(depth) /\ wr \in Slots(depth) /\ cnt \in 0 .. depth
  /\ RingOK(queue, rd, wr, cnt, depth)

\* The view of a consistent ring is a sequence of as many valid slots as the
\* counter says, and its head is the slot at the read pointer.
LEMMA RingSeqType ==
  ASSUME NEW depth, NEW rd, NEW wr, NEW cnt, NEW S, NEW queue,
         IsRing(queue, rd, wr, cnt, depth, S)
  PROVE  /\ RingSeq(queue, rd, cnt, depth) \in Seq(S)
         /\ Len(RingSeq(queue, rd, cnt, depth)) = cnt
         /\ RingSeq(queue, rd, cnt, depth) = << >> <=> cnt = 0
         /\ cnt # 0 => Head(RingSeq(queue, rd, cnt, depth)) = queue[rd]
<1> USE DEF IsRing
<1>1. \A i \in 1 .. cnt : queue[Slot(rd, i - 1, depth)] \in S
  <2> TAKE i \in 1 .. cnt
  <2>1. i - 1 \in Slots(depth) /\ i - 1 < cnt
    BY DEF Slots
  <2>2. Slot(rd, i - 1, depth) \in Slots(depth)
    BY <2>1, SlotFacts
  <2> QED BY <2>1, <2>2 DEF RingOK
<1>2. RingSeq(queue, rd, cnt, depth) \in [1 .. cnt -> S] /\ cnt \in Nat
  BY <1>1 DEF RingSeq
<1>3. /\ RingSeq(queue, rd, cnt, depth) \in Seq(S)
      /\ Len(RingSeq(queue, rd, cnt, depth)) = cnt
  BY <1>2
<1>4. RingSeq(queue, rd, cnt, depth) = << >> <=> cnt = 0
  BY <1>3, EmptySeq
<1>5. cnt # 0 => RingSeq(queue, rd, cnt, depth)[1] = queue[rd]
  BY SlotFacts DEF RingSeq
<1> QED BY <1>3, <1>4, <1>5

\* The ring shows the sequence s; an entry is put into a slot.
Shows(queue, rd, cnt, depth, s) == RingSeq(queue, rd, cnt, depth) = s
Put(queue, slot, x)             == [queue EXCEPT ![slot] = x]

\* A push at the write pointer appends to the view.
LEMMA RingSeqPush ==
  ASSUME NEW depth \in Nat \ {0, 1}, NEW rd, NEW wr, NEW cnt \in 0 .. depth, NEW S,
         NEW queue, IsRing(queue, rd, wr, cnt, depth, S),
         cnt # depth, NEW x \in S, x # Empty,
         NEW s, Shows(queue, rd, cnt, depth, s)
  PROVE  /\ IsRing(Put(queue, wr, x), rd, Inc(wr, depth), cnt + 1, depth, S)
         /\ Shows(Put(queue, wr, x), rd, cnt + 1, depth, Append(s, x))
<1> DEFINE pushed == [queue EXCEPT ![wr] = x]
           old    == RingSeq(queue, rd, cnt, depth)
           new    == RingSeq(pushed, rd, cnt + 1, depth)
<1>0. /\ depth \in Nat \ {0, 1} /\ rd \in Slots(depth) /\ wr \in Slots(depth)
      /\ queue \in [Slots(depth) -> S \cup {Empty}] /\ cnt \in 0 .. depth
      /\ RingOK(queue, rd, wr, cnt, depth)
  BY DEF IsRing
<1>1. wr = Slot(rd, cnt, depth) /\ cnt \in Slots(depth)
  BY <1>0 DEF RingOK, Slots
<1>2. old \in Seq(S) /\ Len(old) = cnt
  BY RingSeqType
<1>3. /\ pushed \in [Slots(depth) -> S \cup {Empty}] /\ cnt + 1 \in 0 .. depth
      /\ Inc(wr, depth) \in Slots(depth)
  BY <1>0, SlotFacts
<1>4. RingOK(pushed, rd, Inc(wr, depth), cnt + 1, depth)
  BY <1>0, RingPush
<1>4a. IsRing(pushed, rd, Inc(wr, depth), cnt + 1, depth, S)
  <2> HIDE DEF pushed
  <2> QED BY <1>0, <1>3, <1>4 DEF IsRing
<1>5. new \in Seq(S) /\ Len(new) = cnt + 1
  <2> HIDE DEF pushed
  <2> QED BY <1>4a, RingSeqType
<1>6. \A i \in 1 .. cnt + 1 : new[i] = IF i = cnt + 1 THEN x ELSE old[i]
  <2> TAKE i \in 1 .. cnt + 1
  <2>1. new[i] = pushed[Slot(rd, i - 1, depth)]
    BY <1>0 DEF RingSeq
  <2>2. i - 1 \in Slots(depth)
    BY <1>0 DEF Slots
  <2>2a. Slot(rd, i - 1, depth) \in Slots(depth)
    BY <1>0, <2>2, SlotFacts
  <2>3. CASE i = cnt + 1
    BY <1>0, <1>1, <2>1, <2>2, <2>2a, <2>3
  <2>4. CASE i # cnt + 1
    <3>1. Slot(rd, i - 1, depth) # wr
      BY <1>0, <1>1, <2>2, <2>4, SlotFacts
    <3>2. old[i] = queue[Slot(rd, i - 1, depth)]
      BY <1>0, <2>4 DEF RingSeq
    <3> QED BY <1>0, <2>1, <2>2a, <2>4, <3>1, <3>2
  <2> QED BY <2>3, <2>4
<1>7. /\ Append(old, x) \in Seq(S) /\ Len(Append(old, x)) = cnt + 1
      /\ \A i \in 1 .. cnt : Append(old, x)[i] = old[i]
      /\ Append(old, x)[cnt + 1] = x
  BY <1>2, AppendProperties
<1> HIDE DEF pushed, old, new
<1>8. \A i \in 1 .. Len(new) : new[i] = Append(old, x)[i]
  BY <1>5, <1>6, <1>7
<1>9. new = Append(old, x)
  BY <1>5, <1>7, <1>8, SeqEqual
<1> QED BY <1>4a, <1>9 DEF pushed, old, new, Put, Shows

\* A pop at the read pointer takes the head of the view away.
LEMMA RingSeqPop ==
  ASSUME NEW depth \in Nat \ {0, 1}, NEW rd, NEW wr, NEW cnt \in 0 .. depth, NEW S,
         NEW queue, IsRing(queue, rd, wr, cnt, depth, S), cnt # 0,
         NEW s, Shows(queue, rd, cnt, depth, s)
  PROVE  /\ IsRing(Put(queue, rd, Empty), Inc(rd, depth), wr, cnt - 1, depth, S)
         /\ Shows(Put(queue, rd, Empty), Inc(rd, depth), cnt - 1, depth, Tail(s))
<1> DEFINE popped == [queue EXCEPT ![rd] = Empty]
           old    == RingSeq(queue, rd, cnt, depth)
           new    == RingSeq(popped, Inc(rd, depth), cnt - 1, depth)
<1>0. /\ depth \in Nat \ {0, 1} /\ rd \in Slots(depth) /\ wr \in Slots(depth)
      /\ queue \in [Slots(depth) -> S \cup {Empty}] /\ cnt \in 0 .. depth
      /\ RingOK(queue, rd, wr, cnt, depth)
  BY DEF IsRing
<1>1. old \in Seq(S) /\ Len(old) = cnt /\ old # << >>
  BY RingSeqType
<1>2. /\ popped \in [Slots(depth) -> S \cup {Empty}] /\ cnt - 1 \in 0 .. depth
      /\ Inc(rd, depth) \in Slots(depth)
  BY <1>0, SlotFacts
<1>3. RingOK(popped, Inc(rd, depth), wr, cnt - 1, depth)
  BY <1>0, RingPop
<1>3a. IsRing(popped, Inc(rd, depth), wr, cnt - 1, depth, S)
  <2> HIDE DEF popped
  <2> QED BY <1>0, <1>2, <1>3 DEF IsRing
<1>4. new \in Seq(S) /\ Len(new) = cnt - 1
  <2> HIDE DEF popped
  <2> QED BY <1>3a, RingSeqType
<1>5. \A i \in 1 .. cnt - 1 : new[i] = old[i + 1]
  <2> TAKE i \in 1 .. cnt - 1
  <2>1. new[i] = popped[Slot(Inc(rd, depth), i - 1, depth)]
    BY DEF RingSeq
  <2>2. i - 1 \in 0 .. depth - 2 /\ i \in Slots(depth) /\ 0 \in Slots(depth)
    BY <1>0 DEF Slots
  <2>3. /\ Slot(Inc(rd, depth), i - 1, depth) = Slot(rd, (i - 1) + 1, depth)
        /\ Slot(rd, i, depth) \in Slots(depth)
        /\ Slot(rd, i, depth) # rd
    BY <1>0, <2>2, SlotFacts
  <2>4. old[i + 1] = queue[Slot(rd, (i + 1) - 1, depth)]
    BY <1>0 DEF RingSeq
  <2>5. (i - 1) + 1 = i /\ (i + 1) - 1 = i
    BY <1>0
  <2> QED BY <1>0, <2>1, <2>3, <2>4, <2>5
<1>6. /\ Tail(old) \in Seq(S) /\ Len(Tail(old)) = cnt - 1
      /\ \A i \in 1 .. cnt - 1 : Tail(old)[i] = old[i + 1]
  BY <1>1, HeadTailProperties
<1> HIDE DEF popped, old, new
<1>7. \A i \in 1 .. Len(new) : new[i] = Tail(old)[i]
  BY <1>4, <1>5, <1>6
<1>8. new = Tail(old)
  BY <1>4, <1>6, <1>7, SeqEqual
<1> QED BY <1>3a, <1>8 DEF popped, old, new, Put, Shows

\* What a consistent buffer shows of its two queues.
ViewsTyped ==
  /\ SpecSeq \in Seq(Store) /\ Len(SpecSeq) = spec_cnt
  /\ SpecSeq = << >> <=> spec_cnt = 0
  /\ spec_cnt # 0 => Head(SpecSeq) = spec_queue[spec_rd]
  /\ CommitSeq \in Seq(Store) /\ Len(CommitSeq) = commit_cnt
  /\ CommitSeq = << >> <=> commit_cnt = 0
  /\ commit_cnt # 0 => Head(CommitSeq) = commit_queue[commit_rd]

LEMMA Rings ==
  IInv => /\ IsRing(spec_queue, spec_rd, spec_wr, spec_cnt, DEPTH_SPEC, Store)
          /\ IsRing(commit_queue, commit_rd, commit_wr, commit_cnt, DEPTH_COMMIT, Store)
  BY DepthAssumption DEF IInv, SBTypeOK, RingsConsistent, IsRing

LEMMA ViewTypes == IInv => ViewsTyped
<1>1. /\ SpecSeq = RingSeq(spec_queue, spec_rd, spec_cnt, DEPTH_SPEC)
      /\ CommitSeq = RingSeq(commit_queue, commit_rd, commit_cnt, DEPTH_COMMIT)
  BY DEF SpecSeq, CommitSeq, RingSeq
<1> QED BY <1>1, Rings, RingSeqType DEF ViewsTyped

\* One clock edge of the speculative ring is one step of the speculative FIFO.
LEMMA SpecSeqStep ==
  ASSUME IInv, NEW store \in Store \cup {Empty},
         NEW commit \in BOOLEAN, NEW flush \in BOOLEAN,
         Contract(store, commit, flush), core_if(store, commit, flush)
  PROVE  SpecSeq' = IF flush THEN << >>
                    ELSE Abstract!Enqueue(IF commit THEN Tail(SpecSeq) ELSE SpecSeq, store)
<1> DEFINE View(queue, rd, cnt, s) == Shows(queue, rd, cnt, DEPTH_SPEC, s)
<1>1. /\ IsRing(spec_queue, spec_rd, spec_wr, spec_cnt, DEPTH_SPEC, Store)
      /\ spec_cnt \in 0 .. DEPTH_SPEC /\ DEPTH_SPEC \in Nat \ {0, 1}
  BY Rings, DepthAssumption DEF IsRing
<1>2. /\ View(spec_queue, spec_rd, spec_cnt, SpecSeq)
      /\ \A s : View(spec_queue', spec_rd', spec_cnt', s) <=> SpecSeq' = s
  BY DEF SpecSeq, RingSeq, Shows
<1>3. CASE flush
  <2>1. spec_cnt' = 0
    BY <1>3 DEF core_if
  <2>2. SpecSeq' = [i \in 1 .. 0 |-> spec_queue'[Slot(spec_rd', i - 1, DEPTH_SPEC)]]
    BY <2>1 DEF SpecSeq
  <2> QED BY <1>3, <2>2
<1>4. CASE ~flush /\ store = Empty /\ ~commit
  <2>1. spec_queue' = spec_queue /\ spec_rd' = spec_rd /\ spec_cnt' = spec_cnt
    BY <1>4 DEF core_if
  <2> QED BY <1>2, <1>4, <2>1 DEF Abstract!Enqueue
<1>5. CASE ~flush /\ store # Empty /\ ~commit
  <2>1. spec_cnt # DEPTH_SPEC /\ store \in Store
    BY <1>5 DEF Contract
  <2>2. /\ spec_queue' = Put(spec_queue, spec_wr, store)
        /\ spec_rd' = spec_rd /\ spec_cnt' = spec_cnt + 1
    BY <1>1, <1>5, <2>1 DEF core_if, CntUp, Put
  <2>3. View(Put(spec_queue, spec_wr, store), spec_rd, spec_cnt + 1, Append(SpecSeq, store))
    BY <1>1, <1>2, <1>5, <2>1, RingSeqPush
  <2>4. SpecSeq' = Append(SpecSeq, store)
    BY <1>2, <2>2, <2>3
  <2> QED BY <1>5, <2>4 DEF Abstract!Enqueue
<1>6. CASE ~flush /\ store = Empty /\ commit
  <2>1. spec_cnt # 0
    BY <1>6 DEF Contract
  <2>2. /\ spec_queue' = Put(spec_queue, spec_rd, Empty)
        /\ spec_rd' = Inc(spec_rd, DEPTH_SPEC) /\ spec_cnt' = spec_cnt - 1
    BY <1>1, <1>6, <2>1 DEF core_if, CntDown, Put
  <2>3. View(Put(spec_queue, spec_rd, Empty), Inc(spec_rd, DEPTH_SPEC), spec_cnt - 1,
             Tail(SpecSeq))
    BY <1>1, <1>2, <2>1, RingSeqPop
  <2>4. SpecSeq' = Tail(SpecSeq)
    BY <1>2, <2>2, <2>3
  <2> QED BY <1>6, <2>4 DEF Abstract!Enqueue
<1>7. CASE ~flush /\ store # Empty /\ commit
  <2> DEFINE pushed == Put(spec_queue, spec_wr, store)
  <2>1. spec_cnt # 0 /\ spec_cnt # DEPTH_SPEC /\ store \in Store
    BY <1>7 DEF Contract
  <2>2. /\ spec_queue' = Put(pushed, spec_rd, Empty)
        /\ spec_rd' = Inc(spec_rd, DEPTH_SPEC) /\ spec_cnt' = (spec_cnt + 1) - 1
    BY <1>1, <1>7, <2>1 DEF core_if, CntUp, CntDown, Put
  <2>3. /\ IsRing(pushed, spec_rd, Inc(spec_wr, DEPTH_SPEC), spec_cnt + 1, DEPTH_SPEC, Store)
        /\ View(pushed, spec_rd, spec_cnt + 1, Append(SpecSeq, store))
    BY <1>1, <1>2, <1>7, <2>1, RingSeqPush
  <2>4. spec_cnt + 1 # 0 /\ spec_cnt + 1 \in 0 .. DEPTH_SPEC
    BY <1>1, <2>1
  <2>5. View(Put(pushed, spec_rd, Empty), Inc(spec_rd, DEPTH_SPEC), (spec_cnt + 1) - 1,
             Tail(Append(SpecSeq, store)))
    BY <1>1, <2>3, <2>4, RingSeqPop
  <2>6. SpecSeq' = Tail(Append(SpecSeq, store))
    BY <1>2, <2>2, <2>5
  <2>7. SpecSeq \in Seq(Store) /\ SpecSeq # << >>
    BY <2>1, ViewTypes DEF ViewsTyped
  <2>8. Tail(Append(SpecSeq, store)) = Append(Tail(SpecSeq), store)
    BY <2>7, HeadTailAppend
  <2> QED BY <1>7, <2>6, <2>8 DEF Abstract!Enqueue
<1> QED BY <1>3, <1>4, <1>5, <1>6, <1>7

\* One clock edge of the commit ring is one step of the committed FIFO.
LEMMA CommitSeqStep ==
  ASSUME IInv, NEW store \in Store \cup {Empty},
         NEW commit \in BOOLEAN, NEW flush \in BOOLEAN, NEW gnt \in BOOLEAN,
         Contract(store, commit, flush), store_if(commit, gnt)
  PROVE  /\ Drained(gnt) => CommitSeq # << >>
         /\ CommitSeq' = LET rest == IF Drained(gnt) THEN Tail(CommitSeq) ELSE CommitSeq
                         IN  IF commit THEN Append(rest, Head(SpecSeq)) ELSE rest
<1> DEFINE View(queue, rd, cnt, s) == Shows(queue, rd, cnt, DEPTH_COMMIT, s)
           popped == IF Drained(gnt) THEN Put(commit_queue, commit_rd, Empty)
                                     ELSE commit_queue
           Rd     == IF Drained(gnt) THEN Inc(commit_rd, DEPTH_COMMIT) ELSE commit_rd
           Cnt    == IF Drained(gnt) THEN commit_cnt - 1 ELSE commit_cnt
           head   == spec_queue[spec_rd]
           rest   == IF Drained(gnt) THEN Tail(CommitSeq) ELSE CommitSeq
<1>1. /\ IsRing(commit_queue, commit_rd, commit_wr, commit_cnt, DEPTH_COMMIT, Store)
      /\ commit_cnt \in 0 .. DEPTH_COMMIT /\ DEPTH_COMMIT \in Nat \ {0, 1}
      /\ RingOK(commit_queue, commit_rd, commit_wr, commit_cnt, DEPTH_COMMIT)
      /\ commit_rd \in Slots(DEPTH_COMMIT)
      /\ spec_cnt \in 0 .. DEPTH_SPEC /\ DEPTH_SPEC \in Nat \ {0, 1}
      /\ spec_queue \in [Slots(DEPTH_SPEC) -> Store \cup {Empty}]
      /\ spec_rd \in Slots(DEPTH_SPEC)
      /\ RingOK(spec_queue, spec_rd, spec_wr, spec_cnt, DEPTH_SPEC)
  BY Rings, DepthAssumption DEF IsRing
<1>2. /\ View(commit_queue, commit_rd, commit_cnt, CommitSeq)
      /\ \A s : View(commit_queue', commit_rd', commit_cnt', s) <=> CommitSeq' = s
  BY DEF CommitSeq, RingSeq, Shows
<1>3. Drained(gnt) => commit_cnt # 0
  BY <1>1, RingHead DEF Drained, data_req
<1>4. commit => /\ head \in Store /\ head # Empty /\ Cnt # DEPTH_COMMIT
                /\ head = Head(SpecSeq)
  <2>1. commit => spec_cnt # 0 /\ commit_cnt # DEPTH_COMMIT
    BY DEF Contract
  <2>2. commit => head # Empty
    BY <1>1, <2>1, RingHead
  <2>3. commit => head = Head(SpecSeq)
    BY <2>1, ViewTypes DEF ViewsTyped
  <2> QED BY <1>1, <2>1, <2>2, <2>3
<1>5. /\ commit_queue' = IF commit THEN Put(popped, commit_wr, head) ELSE popped
      /\ commit_rd' = Rd
      /\ commit_cnt' = IF commit THEN Cnt + 1 ELSE Cnt
  BY <1>1, <1>3, <1>4 DEF store_if, CntUp, CntDown, Put
<1>6. /\ IsRing(popped, Rd, commit_wr, Cnt, DEPTH_COMMIT, Store)
      /\ View(popped, Rd, Cnt, rest)
      /\ Cnt \in 0 .. DEPTH_COMMIT
  <2>1. CASE Drained(gnt)
    <3>1. /\ IsRing(Put(commit_queue, commit_rd, Empty), Inc(commit_rd, DEPTH_COMMIT),
                   commit_wr, commit_cnt - 1, DEPTH_COMMIT, Store)
          /\ View(Put(commit_queue, commit_rd, Empty), Inc(commit_rd, DEPTH_COMMIT),
                  commit_cnt - 1, Tail(CommitSeq))
      BY <1>1, <1>2, <1>3, <2>1, RingSeqPop
    <3> QED BY <1>1, <1>3, <2>1, <3>1
  <2>2. CASE ~Drained(gnt)
    BY <1>1, <1>2, <2>2
  <2> QED BY <2>1, <2>2
<1>7. Drained(gnt) => CommitSeq # << >>
  BY <1>3, ViewTypes DEF ViewsTyped
<1> HIDE DEF popped, Rd, Cnt, head, rest
<1>8. CommitSeq' = IF commit THEN Append(rest, Head(SpecSeq)) ELSE rest
  <2>1. CASE commit
    <3>1. View(Put(popped, commit_wr, head), Rd, Cnt + 1, Append(rest, head))
      BY <1>1, <1>4, <1>6, <2>1, RingSeqPush
    <3> QED BY <1>2, <1>4, <1>5, <2>1, <3>1
  <2>2. CASE ~commit
    BY <1>2, <1>5, <1>6, <2>2
  <2> QED BY <2>1, <2>2
<1> QED BY <1>7, <1>8 DEF rest

\* For all depths and all stores, the rings of store_buffer.sv, driven within
\* the buffer's four assertions, implement the two bounded FIFO queues: no
\* store is lost, duplicated or reordered, and a flush drops only stores that
\* have not been committed.
THEOREM QueuesImplemented == SBSpec => ImplementsStoreQueue
<1>1. StoreBufferInit => Abstract!Init
  <2> SUFFICES ASSUME StoreBufferInit PROVE Abstract!Init
    OBVIOUS
  <2>1. IInv /\ spec_cnt = 0 /\ commit_cnt = 0
    BY IInvInit DEF StoreBufferInit
  <2> QED BY <2>1, ViewTypes DEF Abstract!Init, ViewsTyped
<1>2. IInv /\ [SBNext]_sbVars => [Abstract!Next]_<<SpecSeq, CommitSeq>>
  <2> SUFFICES ASSUME IInv, [SBNext]_sbVars
               PROVE  [Abstract!Next]_<<SpecSeq, CommitSeq>>
    OBVIOUS
  <2>1. IInv'
    BY IInvStep
  <2>2. CASE UNCHANGED sbVars
    BY <2>2 DEF sbVars, SpecSeq, CommitSeq
  <2>3. CASE SBNext
    <3> PICK store \in Store \cup {Empty}, commit \in BOOLEAN, flush \in BOOLEAN,
             gnt \in BOOLEAN : ContractCycle(store, commit, flush, gnt)
      BY <2>3 DEF SBNext
    <3>1. Contract(store, commit, flush) /\ core_if(store, commit, flush)
          /\ store_if(commit, gnt)
      BY DEF ContractCycle, StoreBufferCycle
    <3>2. SpecSeq' = IF flush THEN << >>
                     ELSE Abstract!Enqueue(IF commit THEN Tail(SpecSeq) ELSE SpecSeq, store)
      BY <3>1, SpecSeqStep
    <3>3. /\ Drained(gnt) => CommitSeq # << >>
          /\ CommitSeq' = LET rest == IF Drained(gnt) THEN Tail(CommitSeq) ELSE CommitSeq
                          IN  IF commit THEN Append(rest, Head(SpecSeq)) ELSE rest
      BY <3>1, CommitSeqStep
    <3>4. commit => SpecSeq # << >> /\ ~flush
      BY <3>1, ViewTypes DEF Contract, ViewsTyped
    <3>5. Len(SpecSeq') <= DEPTH_SPEC /\ Len(CommitSeq') <= DEPTH_COMMIT
      <4>1. ViewsTyped'
        BY <2>1, ViewTypes, PTL
      <4> QED BY <2>1, <4>1, DepthAssumption DEF IInv, SBTypeOK, ViewsTyped
    <3>6. Abstract!Step(store, commit, flush, Drained(gnt))
      BY <3>2, <3>3, <3>4, <3>5 DEF Abstract!Step
    <3>7. Drained(gnt) \in BOOLEAN
      BY DEF Drained, data_req
    <3> QED BY <3>6, <3>7 DEF Abstract!Next
  <2> QED BY <2>2, <2>3
<1> QED BY <1>1, <1>2, IInvInit, IInvStep, PTL
        DEF SBSpec, ImplementsStoreQueue, Abstract!Spec
============================================================================
