-------------------------- MODULE StoreUnitProofs --------------------------
(***************************************************************************)
(* The store path composed, for all queue depths and any number of stores  *)
(* and AMOs: the store unit and the commit stage drive the store buffer    *)
(* within its assertions, the buffers hold what the scoreboard takes them  *)
(* to hold, and memory sees the retired stores and AMOs, each once and in  *)
(* order.  All but AmoLostOnlyToTrap are proved for a core in which no     *)
(* debug or interrupt request meets an AMO in the commit stage and no      *)
(* store is single-stepped over: MCStoreUnitAmo and MCStoreUnitStep show   *)
(* what happens otherwise.                                                 *)
(*                                                                         *)
(* UInv, the invariant, is about the order of issue: ids grow from the     *)
(* retired end of the pipeline to the bypass FIFO, so that the oldest      *)
(* entry of the speculative queue is the store at the commit port.         *)
(***************************************************************************)
EXTENDS StoreUnit, StoreBufferProofs

Careful == ~AmoInterruptible /\ ~StepOverStores

\* Operations pass the unit in the order of issue: what is at the head of the
\* bypass FIFO is the last one issued, a unit that waits has it registered, and
\* one that writes back has registered a younger one than any before it.
FrontInv ==
  /\ head # Empty => head.id = issued
  /\ state_q \in {"WAIT_TRANSLATION", "WAIT_STORE_READY"} => head # Empty /\ op_q = head
  /\ state_q = "VALID_STORE" =>
       op_q # Empty /\ op_q.id <= issued /\ (head # Empty => op_q.id < issued)
  /\ \A i \in DOMAIN order :
       /\ order[i].op.id <= issued
       /\ head # Empty => order[i].op.id < issued
       /\ state_q # "IDLE" => order[i].op.id < op_q.id
  /\ flushed <= issued

\* The AMO in the data cache is the one at the commit port, and no store is on
\* its way to memory beside it.
CommitInv ==
  /\ at_commit => order # << >>
  /\ dc_amo => amo_valid_commit /\ commit_cnt = 0

UInv ==
  /\ TypeOK /\ RingsConsistent /\ FrontInv /\ CommitInv
  /\ PushFindsRoom /\ BuffersMatchScoreboard /\ NoFlushedStoreSurvives

----------------------------------------------------------------------------
(***************************************************************************)
(* A queue that is popped and pushed in one clock cycle.                   *)
(***************************************************************************)
Moved(s, pop, push, x) ==
  (IF pop THEN Tail(s) ELSE s) \o (IF push THEN <<x>> ELSE << >>)

One(b) == IF b THEN 1 ELSE 0

LEMMA MovedShift ==
  ASSUME NEW S, NEW s \in Seq(S), NEW pop \in BOOLEAN, NEW push \in BOOLEAN,
         NEW x, push => x \in S, pop => s # << >>
  PROVE  LET t == Moved(s, pop, push, x)
         IN  /\ t \in Seq(S) /\ One(pop) <= Len(s)
             /\ Len(t) = Len(s) - One(pop) + One(push)
             /\ \A i \in 1 .. Len(s) - One(pop) : t[i] = s[i + One(pop)]
             /\ push => t[Len(t)] = x
<1> DEFINE d    == One(pop)
           rest == IF pop THEN Tail(s) ELSE s
           new  == IF push THEN <<x>> ELSE << >>
<1>1. Len(s) \in Nat /\ (pop => Len(s) # 0)
  BY EmptySeq
<1>2. /\ rest \in Seq(S) /\ Len(rest) = Len(s) - d
      /\ \A i \in 1 .. Len(s) - d : rest[i] = s[i + d]
  <2>1. CASE pop
    BY <1>1, <2>1, HeadTailProperties DEF One
  <2>2. CASE ~pop
    BY <1>1, <2>2 DEF One
  <2> QED BY <2>1, <2>2
<1>3. new \in Seq(S) /\ Len(new) = One(push) /\ (push => new[1] = x)
  BY DEF One
<1> HIDE DEF rest, new
<1>4. /\ rest \o new \in Seq(S) /\ Len(rest \o new) = Len(rest) + Len(new)
      /\ \A i \in 1 .. Len(rest) + Len(new) :
           (rest \o new)[i] = IF i <= Len(rest) THEN rest[i] ELSE new[i - Len(rest)]
  BY <1>2, <1>3, ConcatProperties
<1>5. Moved(s, pop, push, x) = rest \o new
  BY DEF Moved, rest, new
<1> HIDE DEF d
<1>6. d \in {0, 1} /\ d <= Len(s)
  BY <1>1 DEF d, One
<1>7. One(push) \in Nat /\ (push => One(push) = 1)
  BY DEF One
<1> QED BY <1>1, <1>2, <1>3, <1>4, <1>5, <1>6, <1>7 DEF d

\* Where the elements come from, where they go, and in which order.
LEMMA MovedFrom ==
  ASSUME NEW S, NEW s \in Seq(S), NEW pop \in BOOLEAN, NEW push \in BOOLEAN,
         NEW x, push => x \in S, pop => s # << >>
  PROVE  LET t == Moved(s, pop, push, x)
         IN  \A i \in DOMAIN t :
               \/ push /\ t[i] = x
               \/ \E j \in DOMAIN s : (pop => j # 1) /\ t[i] = s[j]
<1> DEFINE t == Moved(s, pop, push, x)
           d == One(pop)
<1>1. /\ t \in Seq(S) /\ d <= Len(s)
      /\ Len(t) = Len(s) - d + One(push)
      /\ \A i \in 1 .. Len(s) - d : t[i] = s[i + d]
      /\ push => t[Len(t)] = x
  BY MovedShift, SMTT(30)
<1>2. /\ d \in {0, 1} /\ (pop <=> d = 1) /\ One(push) \in {0, 1} /\ (push <=> One(push) = 1)
      /\ Len(s) \in Nat /\ Len(t) \in Nat
      /\ DOMAIN s = 1 .. Len(s) /\ DOMAIN t = 1 .. Len(t)
  <2>1. \A b \in BOOLEAN : One(b) \in {0, 1} /\ (b <=> One(b) = 1)
    BY DEF One
  <2> HIDE DEF t
  <2> QED BY <1>1, <2>1, LenProperties
<1> HIDE DEF t, d
<1>3. ASSUME NEW i \in DOMAIN t
      PROVE  \/ push /\ t[i] = x
             \/ \E j \in DOMAIN s : (pop => j # 1) /\ t[i] = s[j]
  <2>1. CASE i <= Len(s) - d
    <3>1. i \in 1 .. Len(s) - d /\ i + d \in DOMAIN s /\ (pop => i + d # 1)
      BY <1>1, <1>2, <2>1
    <3>2. t[i] = s[i + d]
      BY <1>1, <3>1
    <3> QED BY <3>1, <3>2
  <2>2. CASE ~(i <= Len(s) - d)
    BY <1>1, <1>2, <2>2
  <2> QED BY <2>1, <2>2
<1> QED BY <1>3 DEF t

LEMMA MovedTo ==
  ASSUME NEW S, NEW s \in Seq(S), NEW pop \in BOOLEAN, NEW push \in BOOLEAN,
         NEW x, push => x \in S, pop => s # << >>
  PROVE  LET t == Moved(s, pop, push, x)
         IN  /\ \A j \in DOMAIN s : (pop => j # 1) => \E i \in DOMAIN t : t[i] = s[j]
             /\ push => \E i \in DOMAIN t : t[i] = x
             /\ ~pop /\ s # << >> => t # << >> /\ t[1] = s[1]
<1> DEFINE t == Moved(s, pop, push, x)
           d == One(pop)
<1>1. /\ t \in Seq(S) /\ d <= Len(s)
      /\ Len(t) = Len(s) - d + One(push)
      /\ \A i \in 1 .. Len(s) - d : t[i] = s[i + d]
      /\ push => t[Len(t)] = x
  BY MovedShift, SMTT(30)
<1>2. /\ d \in {0, 1} /\ (pop <=> d = 1) /\ One(push) \in {0, 1} /\ (push <=> One(push) = 1)
      /\ Len(s) \in Nat /\ Len(t) \in Nat
      /\ DOMAIN s = 1 .. Len(s) /\ DOMAIN t = 1 .. Len(t)
  <2>1. \A b \in BOOLEAN : One(b) \in {0, 1} /\ (b <=> One(b) = 1)
    BY DEF One
  <2> HIDE DEF t
  <2> QED BY <1>1, <2>1, LenProperties
<1> HIDE DEF t, d
<1>3. ASSUME NEW j \in DOMAIN s, pop => j # 1
      PROVE  \E i \in DOMAIN t : t[i] = s[j]
  <2>1. j - d \in DOMAIN t /\ j - d \in 1 .. Len(s) - d /\ (j - d) + d = j
    BY <1>1, <1>2, <1>3
  <2>2. t[j - d] = s[(j - d) + d]
    BY <1>1, <2>1
  <2> QED BY <2>1, <2>2
<1>4. push => \E i \in DOMAIN t : t[i] = x
  <2> HAVE push
  <2>1. /\ One(push) = 1 /\ d \in {0, 1} /\ Len(s) \in Nat /\ Len(t) \in Nat
        /\ d <= Len(s) /\ Len(t) = Len(s) - d + One(push) /\ DOMAIN t = 1 .. Len(t)
    BY <1>1, <1>2, Zenon
  <2>2. Len(t) \in 1 .. Len(t)
    BY <2>1
  <2>3. t[Len(t)] = x
    BY <1>1
  <2>4. Len(t) \in DOMAIN t
    BY <2>1, <2>2, Zenon
  <2> QED BY <2>3, <2>4, Zenon
<1>5. ~pop /\ s # << >> => t # << >> /\ t[1] = s[1]
  <2> HAVE ~pop /\ s # << >>
  <2>1. Len(s) # 0 /\ d = 0
    BY <1>2, EmptySeq
  <2>2. Len(t) # 0 /\ t[1] = s[1 + 0] /\ 1 + 0 = 1
    BY <1>1, <1>2, <2>1
  <2>3. t # << >>
    BY <2>2, EmptySeq
  <2> QED BY <2>2, <2>3
<1> QED BY <1>3, <1>4, <1>5 DEF t

LEMMA MovedOrder ==
  ASSUME NEW S, NEW s \in Seq(S), NEW pop \in BOOLEAN, NEW push \in BOOLEAN,
         NEW x, push => x \in S, pop => s # << >>
  PROVE  LET t == Moved(s, pop, push, x)
         IN  \A i, j \in DOMAIN t : i < j =>
               \/ push /\ t[j] = x /\ \E k \in DOMAIN s : t[i] = s[k]
               \/ \E k, l \in DOMAIN s : k < l /\ t[i] = s[k] /\ t[j] = s[l]
<1> DEFINE t == Moved(s, pop, push, x)
           d == One(pop)
<1>1. /\ t \in Seq(S) /\ d <= Len(s)
      /\ Len(t) = Len(s) - d + One(push)
      /\ \A i \in 1 .. Len(s) - d : t[i] = s[i + d]
      /\ push => t[Len(t)] = x
  BY MovedShift, SMTT(30)
<1>2. /\ d \in {0, 1} /\ (pop <=> d = 1) /\ One(push) \in {0, 1} /\ (push <=> One(push) = 1)
      /\ Len(s) \in Nat /\ Len(t) \in Nat
      /\ DOMAIN s = 1 .. Len(s) /\ DOMAIN t = 1 .. Len(t)
  <2>1. \A b \in BOOLEAN : One(b) \in {0, 1} /\ (b <=> One(b) = 1)
    BY DEF One
  <2> HIDE DEF t
  <2> QED BY <1>1, <2>1, LenProperties
<1> HIDE DEF t, d
<1>3. ASSUME NEW i \in DOMAIN t, NEW j \in DOMAIN t, i < j
      PROVE  \/ push /\ t[j] = x /\ \E k \in DOMAIN s : t[i] = s[k]
             \/ \E k, l \in DOMAIN s : k < l /\ t[i] = s[k] /\ t[j] = s[l]
  <2>1. i \in 1 .. Len(s) - d /\ i + d \in DOMAIN s
    BY <1>1, <1>2, <1>3
  <2>2. t[i] = s[i + d]
    BY <1>1, <2>1
  <2>3. CASE j <= Len(s) - d
    <3>1. j \in 1 .. Len(s) - d /\ j + d \in DOMAIN s /\ i + d < j + d
      BY <1>1, <1>2, <1>3, <2>3
    <3>2. t[j] = s[j + d]
      BY <1>1, <3>1
    <3> QED BY <2>1, <2>2, <3>1, <3>2
  <2>4. CASE ~(j <= Len(s) - d)
    <3>1. push /\ t[j] = x
      BY <1>1, <1>2, <2>4
    <3> QED BY <2>1, <2>2, <3>1
  <2> QED BY <2>3, <2>4
<1> QED BY <1>3 DEF t


----------------------------------------------------------------------------
(***************************************************************************)
(* What the invariant says of the commit port.                             *)
(***************************************************************************)
LEMMA OpTypes ==
  /\ \A op \in Ops : op.id \in Store /\ op.id \in Nat /\ op.amo \in BOOLEAN
  /\ Store \subseteq Nat /\ MaxOps \in Nat /\ Store = 1 .. MaxOps
<1>1. Store = 1 .. MaxOps /\ MaxOps \in Nat
  BY StoreUnitAssumption
<1>2. \A op \in Ops : op.id \in Store /\ op.amo \in BOOLEAN
  BY DEF Ops
<1> QED BY <1>1, <1>2

LEMMA OrderTypes ==
  ASSUME UInv
  PROVE  /\ \A i \in DOMAIN order : /\ order[i].op \in Ops /\ order[i].ex \in BOOLEAN
                                    /\ order[i].op.id \in Nat /\ order[i].op.amo \in BOOLEAN
                                    /\ order[i].op.id \in Store
         /\ order # << >> => 1 \in DOMAIN order
         /\ \A i \in DOMAIN order : i \in Nat \ {0}
         /\ order \in Seq([op : Ops, ex : BOOLEAN])
<1>1. order \in Seq([op : Ops, ex : BOOLEAN])
  BY DEF UInv, TypeOK
<1>2. Len(order) \in Nat /\ DOMAIN order = 1 .. Len(order)
      /\ \A i \in 1 .. Len(order) : order[i] \in [op : Ops, ex : BOOLEAN]
  BY <1>1, LenProperties, ElementOfSeq
<1>3. order # << >> => Len(order) # 0
  BY <1>1, EmptySeq
<1>4. \A i \in DOMAIN order : order[i].op \in Ops /\ order[i].ex \in BOOLEAN
  BY <1>2
<1>5. \A i \in DOMAIN order : order[i].op.id \in Nat /\ order[i].op.amo \in BOOLEAN
                              /\ order[i].op.id \in Store
  BY <1>4, OpTypes
<1> QED BY <1>1, <1>2, <1>3, <1>4, <1>5

LEMMA SpecTypes ==
  ASSUME UInv
  PROVE  /\ IInv /\ ViewsTyped
         /\ DOMAIN SpecSeq = 1 .. spec_cnt /\ spec_cnt \in 0 .. DEPTH_SPEC
         /\ \A i \in DOMAIN SpecSeq : SpecSeq[i] \in Store /\ SpecSeq[i] \in Nat
         /\ spec_cnt # 0 => 1 \in DOMAIN SpecSeq /\ Head(SpecSeq) = SpecSeq[1]
<1>1. IInv
  BY DEF UInv, TypeOK, IInv
<1>2. ViewsTyped /\ spec_cnt \in 0 .. DEPTH_SPEC /\ DEPTH_SPEC \in Nat
  BY <1>1, ViewTypes, DepthAssumption DEF IInv, SBTypeOK
<1>3. DOMAIN SpecSeq = 1 .. spec_cnt /\ \A i \in 1 .. spec_cnt : SpecSeq[i] \in Store
  BY <1>2, LenProperties, ElementOfSeq DEF ViewsTyped
<1>4. SpecSeq # << >> => Head(SpecSeq) = SpecSeq[1]
  OBVIOUS
<1> QED BY <1>1, <1>2, <1>3, <1>4, OpTypes DEF ViewsTyped

\* The oldest operation is the oldest of its buffer.
LEMMA OldestFacts ==
  ASSUME UInv, at_commit, ~Oldest.ex
  PROVE  /\ ~Oldest.op.amo => spec_cnt # 0 /\ Head(SpecSeq) = Oldest.op.id
         /\ Oldest.op.amo => amo_buf # Empty /\ amo_buf = Oldest.op
         /\ Oldest.op \in Ops /\ order # << >>
<1>1. order # << >> /\ 1 \in DOMAIN order /\ Oldest = order[1] /\ Oldest.op \in Ops
  BY OrderTypes DEF UInv, CommitInv, Oldest
<1>2. ASSUME ~Oldest.op.amo
      PROVE  spec_cnt # 0 /\ Head(SpecSeq) = Oldest.op.id
  <2>1. 1 \in Waiting(FALSE)
    BY <1>1, <1>2, OrderTypes DEF Waiting
  <2>2. PICK j \in DOMAIN SpecSeq : SpecSeq[j] = order[1].op.id
    BY <2>1 DEF UInv, BuffersMatchScoreboard
  <2>3. spec_cnt # 0 /\ 1 \in DOMAIN SpecSeq /\ Head(SpecSeq) = SpecSeq[1] /\ j \in Nat /\ j >= 1
        /\ SpecSeq[1] \in Nat /\ SpecSeq[j] \in Nat
    BY <2>2, SpecTypes
  <2>4. PICK k \in Waiting(FALSE) : SpecSeq[1] = order[k].op.id
    BY <2>3 DEF UInv, BuffersMatchScoreboard
  <2>5. k \in DOMAIN order /\ k \in Nat /\ k >= 1
    BY <2>4, OrderTypes DEF Waiting
  <2>6. k # 1 => order[1].op.id < order[k].op.id
    BY <1>1, <2>5 DEF UInv, BuffersMatchScoreboard, Ascending
  <2>7. j # 1 => SpecSeq[1] < SpecSeq[j]
    BY <2>2, <2>3 DEF UInv, BuffersMatchScoreboard, Ascending
  <2>8. j = 1 \/ k = 1
    BY <2>2, <2>3, <2>4, <2>6, <2>7
  <2> QED BY <1>1, <2>2, <2>3, <2>4, <2>8
<1>3. ASSUME Oldest.op.amo
      PROVE  amo_buf # Empty /\ amo_buf = Oldest.op
  <2>1. 1 \in Waiting(TRUE)
    BY <1>1, <1>3, OrderTypes DEF Waiting
  <2> QED BY <1>1, <2>1 DEF UInv, BuffersMatchScoreboard
<1> QED BY <1>1, <1>2, <1>3


\* The inputs of a cycle, and what they make the commit stage decide: a store
\* is committed, the pipeline is flushed, the oldest operation retires.
Inputs(hit, ex, gnt, ack, trap, step, other, commit, flush, pop) ==
  /\ hit \in BOOLEAN /\ ex \in BOOLEAN /\ gnt \in BOOLEAN /\ ack \in BOOLEAN
  /\ trap \in BOOLEAN /\ step \in BOOLEAN /\ other \in BOOLEAN
  /\ Allowed(hit, ex, gnt, ack, trap, step, other)
  /\ commit = commit_lsu(trap) /\ flush = flush_ex(trap, step, other, ack)
  /\ pop = Retires(trap, ack)

\* What the unit and the commit stage ask of the buffers in a cycle.
LEMMA RequestFacts ==
  ASSUME Careful, UInv, NEW hit, NEW ex, NEW gnt, NEW ack, NEW trap, NEW step, NEW other,
         NEW commit, NEW flush, NEW pop,
         Inputs(hit, ex, gnt, ack, trap, step, other, commit, flush, pop)
  PROVE  /\ commit \in BOOLEAN /\ flush \in BOOLEAN /\ pop \in BOOLEAN /\ ack \in BOOLEAN
         /\ ex \in BOOLEAN /\ gnt \in BOOLEAN /\ hit \in BOOLEAN
         /\ commit => at_commit /\ ~Oldest.ex /\ ~Oldest.op.amo /\ commit_cnt # DEPTH_COMMIT
         /\ ack => amo_valid_commit /\ dc_amo
         /\ amo_valid_commit => at_commit /\ ~Oldest.ex /\ Oldest.op.amo /\ ~commit
         /\ pop <=> commit \/ ack
         /\ pop => order # << >>
         /\ flush => ~commit /\ (amo_valid_commit => ack)
         /\ ex => state_q # "IDLE"
<1> USE DEF Inputs
<1>1. ~AmoInterruptible /\ ~StepOverStores /\ at_commit \in BOOLEAN
  BY DEF Careful, UInv, TypeOK
<1>2. at_commit => Oldest.ex \in BOOLEAN
  <2> HAVE at_commit
  <2>1. 1 \in DOMAIN order
    BY OrderTypes DEF UInv, CommitInv
  <2> QED BY <2>1, OrderTypes DEF Oldest
<1>3. ack => amo_valid_commit /\ dc_amo
  BY DEF Allowed, UInv, CommitInv
<1>4. commit_lsu(trap) => /\ at_commit /\ ~Oldest.ex /\ ~Oldest.op.amo
                          /\ commit_cnt # DEPTH_COMMIT
  BY SpecTypes, DepthAssumption DEF commit_lsu, StoreAtPort0, commit_ready_o, IInv, SBTypeOK
<1>5. amo_valid_commit => at_commit /\ ~Oldest.ex /\ Oldest.op.amo
  BY DEF amo_valid_commit, AmoAtPort0
<1>6. flush_ex(trap, step, other, ack) =>
        ~commit_lsu(trap) /\ (amo_valid_commit => ack)
  <2> HAVE flush_ex(trap, step, other, ack)
  <2>1. CASE ~at_commit
    BY <1>4, <1>5, <2>1
  <2>2. CASE at_commit /\ (Oldest.ex \/ trap)
    BY <1>1, <2>2 DEF commit_lsu, amo_valid_commit, Allowed
  <2>3. CASE at_commit /\ step /\ Retires(trap, ack)
    BY <1>1, <2>3 DEF Retires, commit_lsu, amo_valid_commit, AmoAtPort0, StoreAtPort0, Allowed
  <2> QED BY <2>1, <2>2, <2>3 DEF flush_ex
<1>7. commit \in BOOLEAN /\ flush \in BOOLEAN /\ pop \in BOOLEAN
  BY <1>1, <1>2 DEF flush_ex, Retires, commit_lsu, StoreAtPort0, amo_valid_commit
<1>8. pop <=> commit \/ ack
  BY <1>3 DEF Retires
<1>9. ex => state_q # "IDLE"
  BY DEF Allowed
<1>10. at_commit => order # << >>
  BY DEF UInv, CommitInv
<1> QED BY <1>3, <1>4, <1>5, <1>6, <1>7, <1>8, <1>9, <1>10

\* What the store unit pushes.
LEMMA PushFacts ==
  ASSUME UInv, NEW ex \in BOOLEAN, NEW flush \in BOOLEAN
  PROVE  LET store == store_buffer_store(ex, flush)
         IN  /\ store \in Store \cup {Empty}
             /\ store # Empty <=> st_valid(ex, flush) /\ ~op_q.amo
             /\ store # Empty => store = op_q.id /\ spec_cnt # DEPTH_SPEC
             /\ st_valid(ex, flush) => /\ state_q = "VALID_STORE" /\ ~flush /\ ~ex
                                       /\ op_q.amo => amo_buf = Empty
             /\ state_q # "IDLE" => op_q \in Ops /\ op_q # Empty
<1>1. state_q # "IDLE" => op_q \in Ops /\ op_q # Empty
  BY DEF UInv, TypeOK, FrontInv
<1>2. state_q # "IDLE" => op_q.id \in Store /\ op_q.id # Empty
  BY <1>1, OpTypes, EmptyAssumption
<1>3. store_buffer_store(ex, flush) =
        IF st_valid(ex, flush) /\ ~op_q.amo THEN op_q.id ELSE Empty
  BY DEF store_buffer_store
<1>4. st_valid(ex, flush) => /\ state_q = "VALID_STORE" /\ ~flush /\ ~ex
                             /\ op_q.amo => amo_buf = Empty
                             /\ ~op_q.amo => spec_cnt < DEPTH_SPEC
  BY DEF st_valid, UInv, PushFindsRoom
<1>5. spec_cnt < DEPTH_SPEC => spec_cnt # DEPTH_SPEC
  BY SpecTypes, DepthAssumption
<1> QED BY <1>1, <1>2, <1>3, <1>4, <1>5

LEMMA ContractFacts ==
  ASSUME Careful, UInv, NEW hit, NEW ex, NEW gnt, NEW ack, NEW trap, NEW step, NEW other,
         NEW commit, NEW flush, NEW pop,
         Inputs(hit, ex, gnt, ack, trap, step, other, commit, flush, pop)
  PROVE  Contract(store_buffer_store(ex, flush), commit, flush)
<1>1. /\ ex \in BOOLEAN /\ flush \in BOOLEAN /\ (flush => ~commit)
      /\ commit => at_commit /\ ~Oldest.ex /\ ~Oldest.op.amo /\ commit_cnt # DEPTH_COMMIT
  BY RequestFacts
<1>2. spec_cnt = DEPTH_SPEC => store_buffer_store(ex, flush) = Empty
  BY <1>1, PushFacts
<1>3. commit => spec_cnt # 0
  BY <1>1, OldestFacts
<1> QED BY <1>1, <1>2, <1>3 DEF Contract

----------------------------------------------------------------------------
(***************************************************************************)
(* The steps of the store unit's parts.                                    *)
(***************************************************************************)
Waits == {"WAIT_TRANSLATION", "WAIT_STORE_READY"}

LEMMA FsmStep ==
  ASSUME UInv, NEW hit \in BOOLEAN, NEW ex \in BOOLEAN, NEW commit \in BOOLEAN,
         NEW flush \in BOOLEAN,
         state_q' = state_d(hit, ex, commit, flush)
  PROVE  /\ state_q' \in {"IDLE", "VALID_STORE"} \cup Waits
         /\ state_q' # "IDLE" => ~flush /\ ~Faults(ex) /\ head # Empty
         /\ state_q' = "VALID_STORE" => /\ Accepts /\ pop_st(hit, ex, commit)
                                        /\ st_ready(commit)
         /\ state_q' \in Waits => ~pop_st(hit, ex, commit)
<1>1. state_q \in {"IDLE", "VALID_STORE"} \cup Waits
  BY DEF UInv, TypeOK, Waits
<1>2. state_q \in Waits => head # Empty /\ ~Accepts
  BY DEF UInv, FrontInv, Accepts, Waits
<1>3. Accepts => head # Empty
  BY DEF Accepts
<1>4. CASE flush \/ Faults(ex)
  BY <1>4 DEF state_d, Waits
<1>5. CASE ~flush /\ ~Faults(ex) /\ Accepts
  BY <1>3, <1>5 DEF state_d, pop_st, Waits
<1>6. CASE ~flush /\ ~Faults(ex) /\ ~Accepts
  BY <1>1, <1>2, <1>6 DEF state_d, pop_st, Waits
<1> QED BY <1>4, <1>5, <1>6

LEMMA BypassStep ==
  ASSUME UInv, NEW pop \in BOOLEAN, NEW flush \in BOOLEAN, Bypass(pop, flush)
  PROVE  /\ issued \in Nat /\ issued' \in 0 .. MaxOps /\ head' \in Ops \cup {Empty}
         /\ \/ head' = Empty /\ issued' = issued /\ (pop \/ flush \/ head = Empty)
            \/ head' = head /\ head # Empty /\ issued' = issued /\ ~pop /\ ~flush
            \/ head' # Empty /\ issued' = issued + 1 /\ head'.id = issued + 1
               /\ (pop \/ flush \/ head = Empty)
<1>1. /\ issued \in 0 .. MaxOps /\ head \in Ops \cup {Empty}
      /\ Store = 1 .. MaxOps /\ MaxOps \in Nat
  BY OpTypes DEF UInv, TypeOK
<1>2. CASE head' = (IF pop \/ flush \/ head = Empty THEN Empty ELSE head) /\ issued' = issued
  BY <1>1, <1>2
<1>3. CASE issued < MaxOps /\ issued' = issued + 1
           /\ (pop \/ flush \/ head = Empty)
           /\ \E amo \in BOOLEAN : head' = [id |-> issued + 1, amo |-> amo]
  <2>1. PICK amo \in BOOLEAN : head' = [id |-> issued + 1, amo |-> amo]
    BY <1>3
  <2>2. issued + 1 \in Store /\ issued' \in 0 .. MaxOps
    BY <1>1, <1>3
  <2>3. head' \in Ops /\ head'.id = issued + 1
    BY <2>1, <2>2 DEF Ops
  <2>4. head' # Empty
    BY <2>3, StoreUnitAssumption
  <2> QED BY <1>1, <1>3, <2>2, <2>3, <2>4
<1> QED BY <1>2, <1>3 DEF Bypass

----------------------------------------------------------------------------
(***************************************************************************)
(* The steps of the two queues: what is written back joins the order of    *)
(* retirement, what is pushed joins the speculative queue.                 *)
(***************************************************************************)
Done(ex) == [op |-> op_q, ex |-> Faults(ex)]

\* A written-back operation is real and younger than all before it.
LEMMA DoneFacts ==
  ASSUME UInv, NEW ex \in BOOLEAN
  PROVE  /\ valid_o(ex) \in BOOLEAN
         /\ valid_o(ex) => /\ state_q # "IDLE" /\ op_q \in Ops /\ op_q # Empty
                           /\ Done(ex) \in [op : Ops, ex : BOOLEAN]
                           /\ Done(ex).op = op_q /\ Done(ex).ex = Faults(ex)
                           /\ op_q.id \in Nat /\ op_q.id \in Store
                           /\ \A i \in DOMAIN order : order[i].op.id < op_q.id
<1>1. valid_o(ex) \in BOOLEAN /\ Faults(ex) \in BOOLEAN
  BY DEF valid_o, Faults
<1>2. valid_o(ex) => state_q # "IDLE"
  BY DEF valid_o, Faults
<1>3. state_q # "IDLE" => op_q \in Ops /\ op_q # Empty
  BY DEF UInv, TypeOK, FrontInv
<1>4. state_q # "IDLE" => \A i \in DOMAIN order : order[i].op.id < op_q.id
  BY DEF UInv, FrontInv
<1>5. op_q \in Ops => /\ Done(ex) \in [op : Ops, ex : BOOLEAN]
                      /\ Done(ex).op = op_q /\ Done(ex).ex = Faults(ex)
  BY <1>1 DEF Done
<1> QED BY <1>1, <1>2, <1>3, <1>4, <1>5, OpTypes

LEMMA OrderStep ==
  ASSUME Careful, UInv, NEW hit, NEW ex, NEW gnt, NEW ack, NEW trap, NEW step, NEW other,
         NEW commit, NEW flush, NEW pop,
         Inputs(hit, ex, gnt, ack, trap, step, other, commit, flush, pop),
         Cycle(hit, ex, gnt, ack, trap, step, other)
  PROVE  /\ flush => order' = << >>
         /\ ~flush => order' = Moved(order, pop, valid_o(ex), Done(ex))
<1>1. order' = IF flush THEN << >>
               ELSE (IF pop THEN Tail(order) ELSE order)
                    \o (IF valid_o(ex) THEN <<[op |-> op_q, ex |-> Faults(ex)]>> ELSE << >>)
  BY DEF Inputs, Cycle, Scoreboard
<1> QED BY <1>1 DEF Moved, Done

\* Where the entries of the new order come from and where the old ones go.
LEMMA OrderMoves ==
  ASSUME Careful, UInv, NEW hit, NEW ex, NEW gnt, NEW ack, NEW trap, NEW step, NEW other,
         NEW commit, NEW flush, NEW pop,
         Inputs(hit, ex, gnt, ack, trap, step, other, commit, flush, pop),
         Cycle(hit, ex, gnt, ack, trap, step, other)
  PROVE  /\ order' \in Seq([op : Ops, ex : BOOLEAN])
         /\ \A i \in DOMAIN (order') :
              \/ ~flush /\ valid_o(ex) /\ order'[i] = Done(ex)
              \/ ~flush /\ \E j \in DOMAIN order : (pop => j # 1) /\ order'[i] = order[j]
         /\ ~flush => \A j \in DOMAIN order :
              (pop => j # 1) => \E i \in DOMAIN (order') : order'[i] = order[j]
         /\ ~flush /\ valid_o(ex) => \E i \in DOMAIN (order') : order'[i] = Done(ex)
         /\ ~flush /\ ~pop /\ order # << >> => order' # << >> /\ order'[1] = order[1]
         /\ \A i, j \in DOMAIN (order') : i < j =>
              \/ /\ valid_o(ex) /\ order'[j] = Done(ex)
                 /\ \E k \in DOMAIN order : order'[i] = order[k]
              \/ \E k, l \in DOMAIN order :
                   k < l /\ order'[i] = order[k] /\ order'[j] = order[l]
<1> DEFINE Rec   == [op : Ops, ex : BOOLEAN]
<1>1. /\ flush \in BOOLEAN /\ pop \in BOOLEAN /\ (pop => order # << >>)
      /\ flush => order' = << >>
      /\ ~flush => order' = Moved(order, pop, valid_o(ex), Done(ex))
  BY OrderStep, RequestFacts
<1>2. order \in Seq(Rec) /\ ex \in BOOLEAN
  BY OrderTypes, RequestFacts
<1>3. valid_o(ex) \in BOOLEAN /\ (valid_o(ex) => Done(ex) \in Rec)
  BY <1>2, DoneFacts
<1> HIDE DEF Rec
<1>4. CASE flush
  <2>1. order' = << >> /\ << >> \in Seq(Rec) /\ DOMAIN << >> = {}
    BY <1>1, <1>4
  <2> QED BY <1>4, <2>1 DEF Rec
<1>5. CASE ~flush
  <2> DEFINE t == Moved(order, pop, valid_o(ex), Done(ex))
  <2>1. t \in Seq(Rec)
    BY <1>1, <1>2, <1>3, MovedShift
  <2>2. \A i \in DOMAIN t :
          \/ valid_o(ex) /\ t[i] = Done(ex)
          \/ \E j \in DOMAIN order : (pop => j # 1) /\ t[i] = order[j]
    BY <1>1, <1>2, <1>3, MovedFrom
  <2>3. /\ \A j \in DOMAIN order : (pop => j # 1) => \E i \in DOMAIN t : t[i] = order[j]
        /\ valid_o(ex) => \E i \in DOMAIN t : t[i] = Done(ex)
        /\ ~pop /\ order # << >> => t # << >> /\ t[1] = order[1]
    BY <1>1, <1>2, <1>3, MovedTo
  <2>4. \A i, j \in DOMAIN t : i < j =>
          \/ valid_o(ex) /\ t[j] = Done(ex) /\ \E k \in DOMAIN order : t[i] = order[k]
          \/ \E k, l \in DOMAIN order : k < l /\ t[i] = order[k] /\ t[j] = order[l]
    BY <1>1, <1>2, <1>3, MovedOrder
  <2> HIDE DEF t
  <2>5. order' = t
    BY <1>1, <1>5 DEF t
  <2>6. /\ order' \in Seq(Rec)
        /\ \A i \in DOMAIN (order') :
             \/ valid_o(ex) /\ order'[i] = Done(ex)
             \/ \E j \in DOMAIN order : (pop => j # 1) /\ order'[i] = order[j]
    BY <2>1, <2>2, <2>5
  <2>7. /\ \A j \in DOMAIN order : (pop => j # 1) => \E i \in DOMAIN (order') : order'[i] = order[j]
        /\ valid_o(ex) => \E i \in DOMAIN (order') : order'[i] = Done(ex)
        /\ ~pop /\ order # << >> => order' # << >> /\ order'[1] = order[1]
    BY <2>3, <2>5
  <2>8. \A i, j \in DOMAIN (order') : i < j =>
          \/ valid_o(ex) /\ order'[j] = Done(ex) /\ \E k \in DOMAIN order : order'[i] = order[k]
          \/ \E k, l \in DOMAIN order : k < l /\ order'[i] = order[k] /\ order'[j] = order[l]
    BY <2>4, <2>5
  <2> QED BY <1>5, <2>6, <2>7, <2>8 DEF Rec
<1> QED BY <1>4, <1>5

\* The store that is pushed, in terms of the operation that is written back.
LEMMA PushedStore ==
  ASSUME Careful, UInv, NEW hit, NEW ex, NEW gnt, NEW ack, NEW trap, NEW step, NEW other,
         NEW commit, NEW flush, NEW pop,
         Inputs(hit, ex, gnt, ack, trap, step, other, commit, flush, pop)
  PROVE  LET store == store_buffer_store(ex, flush)
         IN  /\ store \in Store \cup {Empty}
             /\ store # Empty => store = op_q.id /\ store \in Store
             /\ store # Empty <=> ~flush /\ valid_o(ex) /\ ~Faults(ex) /\ ~op_q.amo
             /\ st_valid(ex, flush) <=> ~flush /\ valid_o(ex) /\ ~Faults(ex)
<1>1. ex \in BOOLEAN /\ flush \in BOOLEAN
  BY RequestFacts
<1>2. st_valid(ex, flush) <=> ~flush /\ valid_o(ex) /\ ~Faults(ex)
  BY <1>1 DEF st_valid, valid_o, Faults
<1>3. /\ store_buffer_store(ex, flush) \in Store \cup {Empty}
      /\ store_buffer_store(ex, flush) # Empty <=> st_valid(ex, flush) /\ ~op_q.amo
      /\ store_buffer_store(ex, flush) # Empty => store_buffer_store(ex, flush) = op_q.id
  BY <1>1, PushFacts
<1> QED BY <1>2, <1>3

LEMMA SpecStep ==
  ASSUME Careful, UInv, NEW hit, NEW ex, NEW gnt, NEW ack, NEW trap, NEW step, NEW other,
         NEW commit, NEW flush, NEW pop,
         Inputs(hit, ex, gnt, ack, trap, step, other, commit, flush, pop),
         Cycle(hit, ex, gnt, ack, trap, step, other)
  PROVE  /\ flush => SpecSeq' = << >>
         /\ ~flush => SpecSeq' = Moved(SpecSeq, commit, store_buffer_store(ex, flush) # Empty,
                                       store_buffer_store(ex, flush))
         /\ commit => SpecSeq # << >>
<1> DEFINE store == store_buffer_store(ex, flush)
           rest  == IF commit THEN Tail(SpecSeq) ELSE SpecSeq
<1>1. store \in Store \cup {Empty} /\ commit \in BOOLEAN /\ flush \in BOOLEAN
  BY PushedStore, RequestFacts
<1>2. Contract(store, commit, flush)
  BY ContractFacts
<1>3. core_if(store, commit, flush)
  BY DEF Inputs, Cycle, StoreBufferCycle
<1> HIDE DEF store
<1>4. IInv /\ ViewsTyped
  BY SpecTypes
<1>5. SpecSeq' = IF flush THEN << >> ELSE Abstract!Enqueue(rest, store)
  BY <1>1, <1>2, <1>3, <1>4, SpecSeqStep
<1>6. commit => SpecSeq # << >>
  BY <1>2, <1>4 DEF Contract, ViewsTyped
<1>7. rest \in Seq(Store)
  BY <1>4, <1>6, HeadTailProperties DEF ViewsTyped
<1>8. Abstract!Enqueue(rest, store) = Moved(SpecSeq, commit, store # Empty, store)
  <2> HIDE DEF rest
  <2>1. store = Empty => rest \o << >> = rest
    BY <1>7
  <2>2. Append(rest, store) = rest \o <<store>>
    BY <1>7
  <2>3. Moved(SpecSeq, commit, store # Empty, store)
          = rest \o (IF store # Empty THEN <<store>> ELSE << >>)
    BY DEF Moved, rest
  <2>4. Abstract!Enqueue(rest, store) = IF store = Empty THEN rest ELSE Append(rest, store)
    BY DEF Abstract!Enqueue
  <2> HIDE DEF store
  <2> QED BY <2>1, <2>2, <2>3, <2>4
<1>9. store = store_buffer_store(ex, flush)
  BY DEF store
<1> QED BY <1>5, <1>6, <1>8, <1>9

LEMMA SpecMoves ==
  ASSUME Careful, UInv, NEW hit, NEW ex, NEW gnt, NEW ack, NEW trap, NEW step, NEW other,
         NEW commit, NEW flush, NEW pop,
         Inputs(hit, ex, gnt, ack, trap, step, other, commit, flush, pop),
         Cycle(hit, ex, gnt, ack, trap, step, other)
  PROVE  LET store == store_buffer_store(ex, flush)
         IN  /\ \A i \in DOMAIN (SpecSeq') :
                  \/ store # Empty /\ SpecSeq'[i] = store
                  \/ ~flush /\ \E j \in DOMAIN SpecSeq :
                                 (commit => j # 1) /\ SpecSeq'[i] = SpecSeq[j]
             /\ ~flush => \A j \in DOMAIN SpecSeq :
                  (commit => j # 1) => \E i \in DOMAIN (SpecSeq') : SpecSeq'[i] = SpecSeq[j]
             /\ store # Empty => \E i \in DOMAIN (SpecSeq') : SpecSeq'[i] = store
             /\ \A i, j \in DOMAIN (SpecSeq') : i < j =>
                  \/ /\ store # Empty /\ SpecSeq'[j] = store
                     /\ \E k \in DOMAIN SpecSeq : SpecSeq'[i] = SpecSeq[k]
                  \/ \E k, l \in DOMAIN SpecSeq :
                       k < l /\ SpecSeq'[i] = SpecSeq[k] /\ SpecSeq'[j] = SpecSeq[l]
<1> DEFINE store == store_buffer_store(ex, flush)
           push  == store # Empty
<1>1. /\ commit \in BOOLEAN /\ flush \in BOOLEAN /\ (commit => SpecSeq # << >>)
      /\ flush => SpecSeq' = << >>
      /\ ~flush => SpecSeq' = Moved(SpecSeq, commit, push, store)
  BY SpecStep, RequestFacts
<1>2. /\ SpecSeq \in Seq(Store) /\ push \in BOOLEAN
      /\ push => store \in Store /\ ~flush
  <2>1. SpecSeq \in Seq(Store)
    BY SpecTypes DEF ViewsTyped
  <2> QED BY <2>1, PushedStore
<1> HIDE DEF push, store
<1>3. CASE flush
  <2>1. SpecSeq' = << >> /\ DOMAIN << >> = {} /\ ~push
    BY <1>1, <1>2, <1>3
  <2> QED BY <1>3, <2>1 DEF push, store
<1>4. CASE ~flush
  <2> DEFINE t == Moved(SpecSeq, commit, push, store)
  <2>2. \A i \in DOMAIN t :
          \/ push /\ t[i] = store
          \/ \E j \in DOMAIN SpecSeq : (commit => j # 1) /\ t[i] = SpecSeq[j]
    BY <1>1, <1>2, MovedFrom
  <2>3. /\ \A j \in DOMAIN SpecSeq : (commit => j # 1) => \E i \in DOMAIN t : t[i] = SpecSeq[j]
        /\ push => \E i \in DOMAIN t : t[i] = store
    BY <1>1, <1>2, MovedTo, SMTT(30)
  <2>4. \A i, j \in DOMAIN t : i < j =>
          \/ push /\ t[j] = store /\ \E k \in DOMAIN SpecSeq : t[i] = SpecSeq[k]
          \/ \E k, l \in DOMAIN SpecSeq : k < l /\ t[i] = SpecSeq[k] /\ t[j] = SpecSeq[l]
    BY <1>1, <1>2, MovedOrder
  <2> HIDE DEF t
  <2>5. SpecSeq' = t
    BY <1>1, <1>4 DEF t
  <2>6. \A i \in DOMAIN (SpecSeq') :
          \/ push /\ SpecSeq'[i] = store
          \/ \E j \in DOMAIN SpecSeq : (commit => j # 1) /\ SpecSeq'[i] = SpecSeq[j]
    BY <2>2, <2>5
  <2>7. /\ \A j \in DOMAIN SpecSeq :
             (commit => j # 1) => \E i \in DOMAIN (SpecSeq') : SpecSeq'[i] = SpecSeq[j]
        /\ push => \E i \in DOMAIN (SpecSeq') : SpecSeq'[i] = store
    BY <2>3, <2>5
  <2>8. \A i, j \in DOMAIN (SpecSeq') : i < j =>
          \/ push /\ SpecSeq'[j] = store /\ \E k \in DOMAIN SpecSeq : SpecSeq'[i] = SpecSeq[k]
          \/ \E k, l \in DOMAIN SpecSeq :
               k < l /\ SpecSeq'[i] = SpecSeq[k] /\ SpecSeq'[j] = SpecSeq[l]
    BY <2>4, <2>5
  <2> QED BY <1>4, <2>6, <2>7, <2>8 DEF push, store
<1> QED BY <1>1, <1>3, <1>4

----------------------------------------------------------------------------
(***************************************************************************)
(* The buffers keep up with the scoreboard.                                *)
(***************************************************************************)

\* What leaves the speculative queue is what retires: an entry that is not
\* the oldest stays in both, the oldest one is in both or in none.
LEMMA SameHead ==
  ASSUME Careful, UInv, NEW hit, NEW ex, NEW gnt, NEW ack, NEW trap, NEW step, NEW other,
         NEW commit, NEW flush, NEW pop,
         Inputs(hit, ex, gnt, ack, trap, step, other, commit, flush, pop),
         NEW j \in DOMAIN SpecSeq, NEW k \in Waiting(FALSE), SpecSeq[j] = order[k].op.id
  PROVE  (commit => j # 1) <=> (pop => k # 1)
<1>1. /\ k \in DOMAIN order /\ k \in Nat /\ ~order[k].op.amo
      /\ j \in Nat /\ SpecSeq[j] \in Nat /\ 1 <= j /\ 1 <= k
  BY OrderTypes, SpecTypes DEF Waiting
<1>0. commit \in BOOLEAN /\ pop \in BOOLEAN /\ (pop <=> commit \/ ack)
  BY RequestFacts
<1>2. CASE ~pop
  BY <1>0, <1>2
<1>3. CASE ack
  BY <1>1, <1>3, RequestFacts DEF Oldest
<1>4. CASE commit
  <2>1. spec_cnt # 0 /\ Head(SpecSeq) = Oldest.op.id /\ order # << >>
    BY <1>4, OldestFacts, RequestFacts
  <2>2. 1 \in DOMAIN SpecSeq /\ SpecSeq[1] = order[1].op.id /\ 1 \in DOMAIN order
        /\ SpecSeq[1] \in Nat
    BY <2>1, SpecTypes, OrderTypes DEF Oldest
  <2>3. j # 1 => SpecSeq[1] < SpecSeq[j]
    BY <1>1, <2>2 DEF UInv, BuffersMatchScoreboard, Ascending
  <2>4. k # 1 => order[1].op.id < order[k].op.id
    BY <1>1, <2>2 DEF UInv, BuffersMatchScoreboard, Ascending
  <2>5. pop
    BY <1>0, <1>4
  <2> QED BY <1>1, <1>4, <2>2, <2>3, <2>4, <2>5
<1> QED BY <1>0, <1>2, <1>3, <1>4

LEMMA SpecMatches ==
  ASSUME Careful, UInv, NEW hit, NEW ex, NEW gnt, NEW ack, NEW trap, NEW step, NEW other,
         NEW commit, NEW flush, NEW pop,
         Inputs(hit, ex, gnt, ack, trap, step, other, commit, flush, pop),
         Cycle(hit, ex, gnt, ack, trap, step, other)
  PROVE  {SpecSeq'[i] : i \in DOMAIN (SpecSeq')}
           = {order'[i].op.id : i \in {k \in DOMAIN (order') :
                                         order'[k].op.amo = FALSE /\ ~order'[k].ex}}
<1> DEFINE store == store_buffer_store(ex, flush)
<1>0. {SpecSeq[i] : i \in DOMAIN SpecSeq} = {order[i].op.id : i \in Waiting(FALSE)}
  BY DEF UInv, BuffersMatchScoreboard
<1>1. /\ store # Empty => store = op_q.id /\ store \in Store
      /\ store # Empty <=> ~flush /\ valid_o(ex) /\ ~Faults(ex) /\ ~op_q.amo
  BY PushedStore
<1>2. /\ \A i \in DOMAIN (SpecSeq') :
           \/ store # Empty /\ SpecSeq'[i] = store
           \/ ~flush /\ \E j \in DOMAIN SpecSeq :
                          (commit => j # 1) /\ SpecSeq'[i] = SpecSeq[j]
      /\ ~flush => \A j \in DOMAIN SpecSeq :
           (commit => j # 1) => \E i \in DOMAIN (SpecSeq') : SpecSeq'[i] = SpecSeq[j]
      /\ store # Empty => \E i \in DOMAIN (SpecSeq') : SpecSeq'[i] = store
  BY SpecMoves
<1>3. /\ \A i \in DOMAIN (order') :
           \/ ~flush /\ valid_o(ex) /\ order'[i] = Done(ex)
           \/ ~flush /\ \E j \in DOMAIN order : (pop => j # 1) /\ order'[i] = order[j]
      /\ ~flush => \A j \in DOMAIN order :
           (pop => j # 1) => \E i \in DOMAIN (order') : order'[i] = order[j]
      /\ ~flush /\ valid_o(ex) => \E i \in DOMAIN (order') : order'[i] = Done(ex)
  BY OrderMoves
<1>4. valid_o(ex) => Done(ex).op = op_q /\ Done(ex).ex = Faults(ex) /\ op_q.amo \in BOOLEAN
  BY DoneFacts, RequestFacts, OpTypes
<1> HIDE DEF store
<1>5. ASSUME NEW i \in DOMAIN (SpecSeq')
      PROVE  \E k \in DOMAIN (order') : order'[k].op.amo = FALSE /\ ~order'[k].ex
                                        /\ SpecSeq'[i] = order'[k].op.id
  <2>1. CASE store # Empty /\ SpecSeq'[i] = store
    <3>1. PICK k \in DOMAIN (order') : order'[k] = Done(ex)
      BY <1>1, <1>3, <2>1
    <3> QED BY <1>1, <1>4, <2>1, <3>1
  <2>2. CASE ~flush /\ \E j \in DOMAIN SpecSeq :
                          (commit => j # 1) /\ SpecSeq'[i] = SpecSeq[j]
    <3>1. PICK j \in DOMAIN SpecSeq : (commit => j # 1) /\ SpecSeq'[i] = SpecSeq[j]
      BY <2>2
    <3>2. PICK k \in Waiting(FALSE) : SpecSeq[j] = order[k].op.id
      BY <1>0
    <3>3. pop => k # 1
      BY <3>1, <3>2, SameHead
    <3>4. k \in DOMAIN order /\ order[k].op.amo = FALSE /\ ~order[k].ex
      BY DEF Waiting
    <3>5. PICK l \in DOMAIN (order') : order'[l] = order[k]
      BY <1>3, <2>2, <3>3, <3>4
    <3> QED BY <3>1, <3>2, <3>4, <3>5
  <2> QED BY <1>2, <2>1, <2>2
<1>6. ASSUME NEW k \in DOMAIN (order'), order'[k].op.amo = FALSE /\ ~order'[k].ex
      PROVE  \E i \in DOMAIN (SpecSeq') : SpecSeq'[i] = order'[k].op.id
  <2>1. CASE ~flush /\ valid_o(ex) /\ order'[k] = Done(ex)
    BY <1>1, <1>2, <1>4, <1>6, <2>1
  <2>2. CASE ~flush /\ \E j \in DOMAIN order : (pop => j # 1) /\ order'[k] = order[j]
    <3>1. PICK l \in DOMAIN order : (pop => l # 1) /\ order'[k] = order[l]
      BY <2>2
    <3>2. l \in Waiting(FALSE)
      BY <1>6, <3>1 DEF Waiting
    <3>3. PICK j \in DOMAIN SpecSeq : SpecSeq[j] = order[l].op.id
      BY <1>0, <3>2
    <3>4. commit => j # 1
      BY <3>1, <3>2, <3>3, SameHead
    <3> QED BY <1>2, <2>2, <3>1, <3>3, <3>4
  <2> QED BY <1>3, <2>1, <2>2
<1> DEFINE W == {k \in DOMAIN (order') : order'[k].op.amo = FALSE /\ ~order'[k].ex}
           X == {SpecSeq'[i] : i \in DOMAIN (SpecSeq')}
           Y == {order'[i].op.id : i \in W}
<1>7. X \subseteq Y
  BY <1>5
<1>8. Y \subseteq X
  BY <1>6
<1> HIDE DEF X, Y
<1>9. X = Y
  BY <1>7, <1>8
<1> QED BY <1>9 DEF X, Y

LEMMA QueuesAscend ==
  ASSUME Careful, UInv, NEW hit, NEW ex, NEW gnt, NEW ack, NEW trap, NEW step, NEW other,
         NEW commit, NEW flush, NEW pop,
         Inputs(hit, ex, gnt, ack, trap, step, other, commit, flush, pop),
         Cycle(hit, ex, gnt, ack, trap, step, other)
  PROVE  /\ \A i, j \in DOMAIN (SpecSeq') : i < j => SpecSeq'[i] < SpecSeq'[j]
         /\ \A i, j \in DOMAIN (order') : i < j => order'[i].op.id < order'[j].op.id
<1> DEFINE store == store_buffer_store(ex, flush)
<1>1. /\ store # Empty => store = op_q.id /\ valid_o(ex)
      /\ ex \in BOOLEAN
  BY PushedStore, RequestFacts
<1>2. valid_o(ex) => /\ Done(ex).op = op_q
                     /\ \A k \in DOMAIN order : order[k].op.id < op_q.id
  BY <1>1, DoneFacts
<1>3. /\ \A k, l \in DOMAIN order : k < l => order[k].op.id < order[l].op.id
      /\ \A k, l \in DOMAIN SpecSeq : k < l => SpecSeq[k] < SpecSeq[l]
      /\ \A k \in DOMAIN SpecSeq : \E l \in Waiting(FALSE) : SpecSeq[k] = order[l].op.id
  BY DEF UInv, BuffersMatchScoreboard, Ascending
<1>4. \A k \in DOMAIN SpecSeq : valid_o(ex) => SpecSeq[k] < op_q.id
  BY <1>2, <1>3 DEF Waiting
<1>5. \A i, j \in DOMAIN (SpecSeq') : i < j =>
        \/ /\ store # Empty /\ SpecSeq'[j] = store
           /\ \E k \in DOMAIN SpecSeq : SpecSeq'[i] = SpecSeq[k]
        \/ \E k, l \in DOMAIN SpecSeq :
             k < l /\ SpecSeq'[i] = SpecSeq[k] /\ SpecSeq'[j] = SpecSeq[l]
  BY SpecMoves
<1>6. \A i, j \in DOMAIN (order') : i < j =>
        \/ /\ valid_o(ex) /\ order'[j] = Done(ex)
           /\ \E k \in DOMAIN order : order'[i] = order[k]
        \/ \E k, l \in DOMAIN order :
             k < l /\ order'[i] = order[k] /\ order'[j] = order[l]
  BY OrderMoves
<1> HIDE DEF store
<1>7. ASSUME NEW i \in DOMAIN (SpecSeq'), NEW j \in DOMAIN (SpecSeq'), i < j
      PROVE  SpecSeq'[i] < SpecSeq'[j]
  BY <1>1, <1>3, <1>4, <1>5, <1>7
<1>8. ASSUME NEW i \in DOMAIN (order'), NEW j \in DOMAIN (order'), i < j
      PROVE  order'[i].op.id < order'[j].op.id
  BY <1>2, <1>3, <1>6, <1>8
<1> QED BY <1>7, <1>8

\* The AMO buffer after a cycle: emptied by a flush and by the acknowledge of
\* its AMO, filled by the write-back of one, untouched otherwise.
LEMMA AmoStep ==
  ASSUME Careful, UInv, NEW hit, NEW ex, NEW gnt, NEW ack, NEW trap, NEW step, NEW other,
         NEW commit, NEW flush, NEW pop,
         Inputs(hit, ex, gnt, ack, trap, step, other, commit, flush, pop),
         Cycle(hit, ex, gnt, ack, trap, step, other)
  PROVE  /\ flush \/ ack => amo_buf' = Empty
         /\ ~flush /\ valid_o(ex) /\ ~Faults(ex) /\ op_q.amo =>
              amo_buf = Empty /\ ~ack /\ amo_buf' = op_q
         /\ ~flush /\ ~ack /\ ~(valid_o(ex) /\ ~Faults(ex) /\ op_q.amo) => amo_buf' = amo_buf
<1>1. /\ ex \in BOOLEAN /\ flush \in BOOLEAN /\ ack \in BOOLEAN
      /\ ack => amo_valid_commit
      /\ amo_valid_commit => at_commit /\ ~Oldest.ex /\ Oldest.op.amo
      /\ flush => (amo_valid_commit => ack)
  BY RequestFacts
<1>2. amo_valid_commit => amo_buf # Empty
  BY <1>1, OldestFacts
<1>3. st_valid(ex, flush) <=> ~flush /\ valid_o(ex) /\ ~Faults(ex)
  BY PushedStore
<1>4. st_valid(ex, flush) /\ op_q.amo => amo_buf = Empty
  BY <1>1, PushFacts
<1>5. amo_buf' = IF flush /\ ~amo_valid_commit THEN Empty
                 ELSE IF st_valid(ex, flush) /\ op_q.amo /\ amo_buf = Empty THEN op_q
                 ELSE IF ack THEN Empty
                 ELSE amo_buf
  BY DEF Inputs, Cycle, amo_buffer
<1> QED BY <1>1, <1>2, <1>3, <1>4, <1>5

LEMMA AmoMatches ==
  ASSUME Careful, UInv, NEW hit, NEW ex, NEW gnt, NEW ack, NEW trap, NEW step, NEW other,
         NEW commit, NEW flush, NEW pop,
         Inputs(hit, ex, gnt, ack, trap, step, other, commit, flush, pop),
         Cycle(hit, ex, gnt, ack, trap, step, other)
  PROVE  {order'[i].op : i \in {k \in DOMAIN (order') :
                                  order'[k].op.amo = TRUE /\ ~order'[k].ex}}
           = IF amo_buf' = Empty THEN {} ELSE {amo_buf'}
<1> DEFINE W == {k \in DOMAIN (order') : order'[k].op.amo = TRUE /\ ~order'[k].ex}
           X == {order'[i].op : i \in W}
<1>0. /\ commit \in BOOLEAN /\ flush \in BOOLEAN /\ pop \in BOOLEAN /\ ack \in BOOLEAN
      /\ (pop <=> commit \/ ack)
      /\ commit => ~Oldest.op.amo
  BY RequestFacts
<1>1. {order[i].op : i \in Waiting(TRUE)} = IF amo_buf = Empty THEN {} ELSE {amo_buf}
  BY DEF UInv, BuffersMatchScoreboard
<1>2. /\ \A i \in DOMAIN (order') :
           \/ ~flush /\ valid_o(ex) /\ order'[i] = Done(ex)
           \/ ~flush /\ \E j \in DOMAIN order : (pop => j # 1) /\ order'[i] = order[j]
      /\ ~flush => \A j \in DOMAIN order :
           (pop => j # 1) => \E i \in DOMAIN (order') : order'[i] = order[j]
      /\ ~flush /\ valid_o(ex) => \E i \in DOMAIN (order') : order'[i] = Done(ex)
  BY OrderMoves
<1>3. valid_o(ex) => /\ Done(ex).op = op_q /\ Done(ex).ex = Faults(ex)
                     /\ op_q.amo \in BOOLEAN /\ op_q # Empty
  BY DoneFacts, RequestFacts, OpTypes
<1>4. /\ flush \/ ack => amo_buf' = Empty
      /\ ~flush /\ valid_o(ex) /\ ~Faults(ex) /\ op_q.amo =>
           amo_buf = Empty /\ ~ack /\ amo_buf' = op_q
      /\ ~flush /\ ~ack /\ ~(valid_o(ex) /\ ~Faults(ex) /\ op_q.amo) => amo_buf' = amo_buf
  BY AmoStep
<1>5. ack => /\ 1 \in Waiting(TRUE) /\ 1 \in DOMAIN order
             /\ \A k \in Waiting(TRUE) : k = 1
  <2> HAVE ack
  <2>1. at_commit /\ ~Oldest.ex /\ Oldest.op.amo
    BY RequestFacts
  <2>2. amo_buf # Empty /\ amo_buf = Oldest.op /\ order # << >>
    BY <2>1, OldestFacts
  <2>3. 1 \in DOMAIN order /\ 1 \in Waiting(TRUE)
    BY <2>1, <2>2, OrderTypes DEF Oldest, Waiting
  <2>4. ASSUME NEW k \in Waiting(TRUE) PROVE k = 1
    <3>1. order[k].op = order[1].op /\ k \in DOMAIN order /\ order[k].op.id \in Nat
      BY <1>1, <2>2, OrderTypes DEF Oldest, Waiting
    <3>1a. k \in Nat \ {0}
      BY <3>1, OrderTypes
    <3>2. k # 1 => 1 < k
      BY <3>1a
    <3>3. 1 < k => order[1].op.id < order[k].op.id
      BY <2>3, <3>1 DEF UInv, BuffersMatchScoreboard, Ascending
    <3> QED BY <3>1, <3>2, <3>3
  <2> QED BY <2>3, <2>4
<1>6. CASE flush
  <2>1. X = {}
    BY <1>2, <1>6
  <2> QED BY <1>4, <1>6, <2>1
<1>7. CASE ~flush /\ valid_o(ex) /\ ~Faults(ex) /\ op_q.amo
  <2>1. amo_buf = Empty /\ amo_buf' = op_q /\ Waiting(TRUE) = {}
    BY <1>1, <1>4, <1>7
  <2>2. ASSUME NEW i \in W PROVE order'[i].op = op_q
    BY <1>2, <1>3, <2>1 DEF Waiting
  <2>3. \E i \in W : order'[i].op = op_q
    BY <1>2, <1>3, <1>7
  <2> HIDE DEF W
  <2>4. X = {op_q}
    BY <2>2, <2>3
  <2>5. X = IF amo_buf' = Empty THEN {} ELSE {amo_buf'}
    BY <1>3, <1>7, <2>1, <2>4
  <2> QED BY <2>5 DEF W
<1>8. CASE ~flush /\ ~(valid_o(ex) /\ ~Faults(ex) /\ op_q.amo)
  <2>1. \A i \in W : \E j \in Waiting(TRUE) : (pop => j # 1) /\ order'[i] = order[j]
    BY <1>2, <1>3, <1>8 DEF Waiting
  <2>2. \A j \in Waiting(TRUE) : (pop => j # 1) => \E i \in W : order'[i] = order[j]
    BY <1>2, <1>8 DEF Waiting
  <2>3. CASE ack
    <3>1. W = {}
      BY <1>0, <1>5, <2>1, <2>3
    <3>2. amo_buf' = Empty
      BY <1>4, <2>3
    <3> QED BY <3>1, <3>2
  <2>4. CASE ~ack
    <3>1. amo_buf' = amo_buf
      BY <1>4, <1>8, <2>4
    <3>2. \A j \in Waiting(TRUE) : pop => j # 1
      BY <1>0, <2>4 DEF Waiting, Oldest
    <3> HIDE DEF W
    <3>3. X = {order[i].op : i \in Waiting(TRUE)}
      <4>1. X \subseteq {order[i].op : i \in Waiting(TRUE)}
        BY <2>1
      <4>2. {order[i].op : i \in Waiting(TRUE)} \subseteq X
        BY <2>2, <3>2
      <4> QED BY <4>1, <4>2
    <3>4. X = IF amo_buf' = Empty THEN {} ELSE {amo_buf'}
      BY <1>1, <3>1, <3>3
    <3> QED BY <3>4 DEF W
  <2> QED BY <2>3, <2>4
<1> QED BY <1>6, <1>7, <1>8

LEMMA BuffersMatchStep ==
  ASSUME Careful, UInv, NEW hit, NEW ex, NEW gnt, NEW ack, NEW trap, NEW step, NEW other,
         NEW commit, NEW flush, NEW pop,
         Inputs(hit, ex, gnt, ack, trap, step, other, commit, flush, pop),
         Cycle(hit, ex, gnt, ack, trap, step, other)
  PROVE  BuffersMatchScoreboard'
<1>1. /\ \A i, j \in DOMAIN (SpecSeq') : i < j => SpecSeq'[i] < SpecSeq'[j]
      /\ \A i, j \in DOMAIN (order') : i < j => order'[i].op.id < order'[j].op.id
  BY QueuesAscend
<1>2. Ascending(SpecSeq)'
  BY <1>1 DEF Ascending
<1>3. Ascending([i \in DOMAIN order |-> order[i].op.id])'
  BY <1>1 DEF Ascending
<1>4. {SpecSeq[i] : i \in DOMAIN SpecSeq}' = {order[i].op.id : i \in Waiting(FALSE)}'
  BY SpecMatches DEF Waiting
<1>5. {order[i].op : i \in Waiting(TRUE)}' = (IF amo_buf = Empty THEN {} ELSE {amo_buf})'
  BY AmoMatches DEF Waiting
<1> QED BY <1>2, <1>3, <1>4, <1>5 DEF BuffersMatchScoreboard

----------------------------------------------------------------------------
(***************************************************************************)
(* The order of issue, the room for a push, and the flush.                 *)
(***************************************************************************)

\* One cycle of the registers in front of the buffers, from the lemmas above.
LEMMA FrontMoves ==
  ASSUME Careful, UInv, NEW hit, NEW ex, NEW gnt, NEW ack, NEW trap, NEW step, NEW other,
         NEW commit, NEW flush, NEW pop,
         Inputs(hit, ex, gnt, ack, trap, step, other, commit, flush, pop),
         Cycle(hit, ex, gnt, ack, trap, step, other)
  PROVE  /\ op_q' = head /\ flush \in BOOLEAN
         /\ state_q' \in {"IDLE", "VALID_STORE"} \cup Waits
         /\ state_q' # "IDLE" => ~flush /\ ~Faults(ex) /\ head # Empty
         /\ state_q' = "VALID_STORE" => Accepts /\ st_ready(commit)
         /\ issued \in Nat /\ issued' \in 0 .. MaxOps /\ head' \in Ops \cup {Empty}
         /\ \/ head' = Empty /\ issued' = issued /\ state_q' \notin Waits
            \/ /\ head' = head /\ head # Empty /\ issued' = issued /\ ~flush
               /\ ~Faults(ex) /\ state_q' # "VALID_STORE"
            \/ /\ head' # Empty /\ issued' = issued + 1 /\ head'.id = issued + 1
               /\ state_q' \notin Waits
         /\ flushed' = IF flush THEN issued ELSE flushed
<1>1. ex \in BOOLEAN /\ hit \in BOOLEAN /\ commit \in BOOLEAN /\ flush \in BOOLEAN
  BY RequestFacts
<1>2. state_q' = state_d(hit, ex, commit, flush)
  BY DEF Inputs, Cycle
<1>3. /\ state_q' \in {"IDLE", "VALID_STORE"} \cup Waits
      /\ state_q' # "IDLE" => ~flush /\ ~Faults(ex) /\ head # Empty
      /\ state_q' = "VALID_STORE" => /\ Accepts /\ pop_st(hit, ex, commit)
                                     /\ st_ready(commit)
      /\ state_q' \in Waits => ~pop_st(hit, ex, commit)
  BY <1>1, <1>2, FsmStep
<1>4. pop_st(hit, ex, commit) \in BOOLEAN /\ Bypass(pop_st(hit, ex, commit), flush)
  BY DEF Inputs, Cycle, pop_st
<1>5. /\ issued \in Nat /\ issued' \in 0 .. MaxOps /\ head' \in Ops \cup {Empty}
      /\ \/ head' = Empty /\ issued' = issued
               /\ (pop_st(hit, ex, commit) \/ flush \/ head = Empty)
         \/ head' = head /\ head # Empty /\ issued' = issued
               /\ ~pop_st(hit, ex, commit) /\ ~flush
         \/ head' # Empty /\ issued' = issued + 1 /\ head'.id = issued + 1
               /\ (pop_st(hit, ex, commit) \/ flush \/ head = Empty)
  BY <1>1, <1>4, BypassStep
<1>6. Faults(ex) => pop_st(hit, ex, commit)
  BY DEF pop_st
<1>7. op_q' = head /\ flushed' = IF flush THEN issued ELSE flushed
  BY DEF Inputs, Cycle, Scoreboard
<1>8. state_q' \in Waits => state_q' # "IDLE" /\ state_q' # "VALID_STORE"
  BY DEF Waits
<1> QED BY <1>1, <1>3, <1>5, <1>6, <1>7, <1>8

\* What FrontInv and NoFlushedStoreSurvives say of the operation in the unit.
LEMMA UnitFacts ==
  ASSUME UInv, NEW ex \in BOOLEAN
  PROVE  /\ issued \in Nat /\ flushed \in Nat /\ flushed <= issued
         /\ head # Empty => head.id = issued /\ head.id > flushed
         /\ valid_o(ex) => /\ op_q.id \in Nat /\ op_q.id <= issued /\ op_q.id > flushed
                           /\ ~Faults(ex) /\ head # Empty => op_q.id < issued
         /\ \A i \in DOMAIN order : /\ order[i].op.id \in Nat /\ order[i].op.id <= issued
                                    /\ head # Empty => order[i].op.id < issued
<1>1. /\ issued \in Nat /\ flushed \in Nat /\ MaxOps \in Nat
      /\ state_q \in {"IDLE", "VALID_STORE"} \cup Waits
  BY OpTypes DEF UInv, TypeOK, Waits
<1>2. /\ flushed <= issued
      /\ head # Empty => head.id = issued /\ head.id > flushed
      /\ state_q \in Waits => head # Empty /\ op_q = head
      /\ state_q = "VALID_STORE" =>
           op_q.id <= issued /\ (head # Empty => op_q.id < issued)
      /\ state_q # "IDLE" => op_q.id > flushed
      /\ \A i \in DOMAIN order : /\ order[i].op.id <= issued
                                 /\ head # Empty => order[i].op.id < issued
  BY DEF UInv, FrontInv, NoFlushedStoreSurvives, Waits
<1>3. /\ valid_o(ex) => op_q.id \in Nat /\ state_q # "IDLE"
      /\ valid_o(ex) /\ ~Faults(ex) => state_q = "VALID_STORE"
  BY DoneFacts DEF valid_o
<1> QED BY <1>1, <1>2, <1>3, OrderTypes

LEMMA FrontStep ==
  ASSUME Careful, UInv, NEW hit, NEW ex, NEW gnt, NEW ack, NEW trap, NEW step, NEW other,
         NEW commit, NEW flush, NEW pop,
         Inputs(hit, ex, gnt, ack, trap, step, other, commit, flush, pop),
         Cycle(hit, ex, gnt, ack, trap, step, other)
  PROVE  FrontInv'
<1>1. /\ op_q' = head /\ flush \in BOOLEAN
      /\ state_q' \in {"IDLE", "VALID_STORE"} \cup Waits
      /\ state_q' # "IDLE" => ~flush /\ ~Faults(ex) /\ head # Empty
      /\ state_q' = "VALID_STORE" => Accepts /\ st_ready(commit)
      /\ issued \in Nat /\ issued' \in 0 .. MaxOps /\ head' \in Ops \cup {Empty}
      /\ \/ head' = Empty /\ issued' = issued /\ state_q' \notin Waits
         \/ /\ head' = head /\ head # Empty /\ issued' = issued /\ ~flush
            /\ ~Faults(ex) /\ state_q' # "VALID_STORE"
         \/ /\ head' # Empty /\ issued' = issued + 1 /\ head'.id = issued + 1
            /\ state_q' \notin Waits
      /\ flushed' = IF flush THEN issued ELSE flushed
  BY FrontMoves
<1>2. /\ issued \in Nat /\ flushed \in Nat /\ flushed <= issued
      /\ head # Empty => head.id = issued /\ head.id > flushed
      /\ valid_o(ex) => /\ op_q.id \in Nat /\ op_q.id <= issued /\ op_q.id > flushed
                        /\ ~Faults(ex) /\ head # Empty => op_q.id < issued
      /\ \A i \in DOMAIN order : /\ order[i].op.id \in Nat /\ order[i].op.id <= issued
                                 /\ head # Empty => order[i].op.id < issued
  BY UnitFacts, RequestFacts
<1>3. head' # Empty => head'.id = issued'
  BY <1>1, <1>2
<1>4. state_q' \in {"WAIT_TRANSLATION", "WAIT_STORE_READY"} => head' # Empty /\ op_q' = head'
  BY <1>1 DEF Waits
<1>5. state_q' = "VALID_STORE" =>
        op_q' # Empty /\ op_q'.id <= issued' /\ (head' # Empty => op_q'.id < issued')
  BY <1>1, <1>2
<1>6. valid_o(ex) => Done(ex).op = op_q
  BY DoneFacts, RequestFacts
<1>7. \A i \in DOMAIN (order') :
        \/ ~flush /\ valid_o(ex) /\ order'[i] = Done(ex)
        \/ ~flush /\ \E j \in DOMAIN order : (pop => j # 1) /\ order'[i] = order[j]
  BY OrderMoves
<1>8. ASSUME NEW i \in DOMAIN (order')
      PROVE  /\ order'[i].op.id <= issued'
             /\ head' # Empty => order'[i].op.id < issued'
             /\ state_q' # "IDLE" => order'[i].op.id < op_q'.id
  <2>1. CASE valid_o(ex) /\ order'[i] = Done(ex)
    <3>1. /\ order'[i].op = op_q /\ op_q.id \in Nat /\ op_q.id <= issued
          /\ ~Faults(ex) /\ head # Empty => op_q.id < issued
      BY <1>2, <1>6, <2>1
    <3> QED BY <1>1, <1>2, <3>1
  <2>2. CASE \E j \in DOMAIN order : (pop => j # 1) /\ order'[i] = order[j]
    <3>1. PICK j \in DOMAIN order : order'[i] = order[j]
      BY <2>2
    <3>2. /\ order'[i].op.id \in Nat /\ order'[i].op.id <= issued
          /\ head # Empty => order'[i].op.id < issued
      BY <1>2, <3>1
    <3> QED BY <1>1, <1>2, <3>2
  <2> QED BY <1>7, <2>1, <2>2
<1>9. flushed' <= issued'
  BY <1>1, <1>2
<1> QED BY <1>3, <1>4, <1>5, <1>8, <1>9 DEF FrontInv

LEMMA FlushStep ==
  ASSUME Careful, UInv, NEW hit, NEW ex, NEW gnt, NEW ack, NEW trap, NEW step, NEW other,
         NEW commit, NEW flush, NEW pop,
         Inputs(hit, ex, gnt, ack, trap, step, other, commit, flush, pop),
         Cycle(hit, ex, gnt, ack, trap, step, other)
  PROVE  NoFlushedStoreSurvives'
<1>1. /\ op_q' = head /\ flush \in BOOLEAN /\ issued \in Nat
      /\ state_q' # "IDLE" => ~flush /\ ~Faults(ex) /\ head # Empty
      /\ \/ head' = Empty
         \/ head' = head /\ head # Empty /\ ~flush
         \/ head' # Empty /\ head'.id = issued + 1
      /\ flushed' = IF flush THEN issued ELSE flushed
  BY FrontMoves
<1>2. /\ issued \in Nat /\ flushed \in Nat /\ flushed <= issued
      /\ head # Empty => head.id = issued /\ head.id > flushed
      /\ valid_o(ex) => op_q.id \in Nat /\ op_q.id > flushed
  BY UnitFacts, RequestFacts
<1>3. head' # Empty => head'.id > flushed'
  BY <1>1, <1>2
<1>4. state_q' # "IDLE" => op_q'.id > flushed'
  BY <1>1, <1>2
<1>5. amo_buf' # Empty => amo_buf'.id > flushed'
  <2>1. /\ amo_buf' # Empty => ~flush
        /\ amo_buf' # Empty => (amo_buf' = amo_buf \/ (valid_o(ex) /\ amo_buf' = op_q))
    BY AmoStep, RequestFacts
  <2>2. amo_buf # Empty => amo_buf.id > flushed
    BY DEF UInv, NoFlushedStoreSurvives
  <2> QED BY <1>1, <1>2, <2>1, <2>2
<1>6. ASSUME NEW i \in DOMAIN (SpecSeq') PROVE SpecSeq'[i] > flushed'
  <2> DEFINE store == store_buffer_store(ex, flush)
  <2>1. /\ store # Empty => store = op_q.id
        /\ store # Empty <=> ~flush /\ valid_o(ex) /\ ~Faults(ex) /\ ~op_q.amo
    BY PushedStore
  <2>2. \/ store # Empty /\ SpecSeq'[i] = store
        \/ ~flush /\ \E j \in DOMAIN SpecSeq : (commit => j # 1) /\ SpecSeq'[i] = SpecSeq[j]
    BY SpecMoves
  <2>3. \A j \in DOMAIN SpecSeq : SpecSeq[j] > flushed
    BY DEF UInv, NoFlushedStoreSurvives
  <2> HIDE DEF store
  <2> QED BY <1>1, <1>2, <2>1, <2>2, <2>3
<1> QED BY <1>3, <1>4, <1>5, <1>6 DEF NoFlushedStoreSurvives

\* The counter of the speculative queue counts pushes and commits.
LEMMA CountStep ==
  ASSUME Careful, UInv, NEW hit, NEW ex, NEW gnt, NEW ack, NEW trap, NEW step, NEW other,
         NEW commit, NEW flush, NEW pop,
         Inputs(hit, ex, gnt, ack, trap, step, other, commit, flush, pop),
         Cycle(hit, ex, gnt, ack, trap, step, other),
         ready_o(commit), ~flush
  PROVE  spec_cnt' < DEPTH_SPEC
<1> DEFINE store == store_buffer_store(ex, flush)
<1>1. /\ DEPTH_SPEC \in Nat \ {0, 1} /\ spec_cnt \in 0 .. DEPTH_SPEC
      /\ commit \in BOOLEAN
  BY DepthAssumption, SpecTypes, RequestFacts
<1>2. /\ spec_cnt = DEPTH_SPEC => store = Empty
      /\ spec_cnt = 0 => ~commit
  BY ContractFacts DEF Contract
<1>3. spec_cnt < DEPTH_SPEC - 1 \/ commit
  BY DEF ready_o
<1>4. core_if(store, commit, flush)
  BY DEF Inputs, Cycle, StoreBufferCycle
<1> HIDE DEF store
<1>5. spec_cnt' =
        LET cnt1 == IF store # Empty THEN CntUp(spec_cnt, DEPTH_SPEC) ELSE spec_cnt
        IN  IF commit THEN CntDown(cnt1, DEPTH_SPEC) ELSE cnt1
  BY <1>4 DEF core_if
<1>6. CASE store = Empty
  BY <1>1, <1>2, <1>3, <1>5, <1>6 DEF CntDown
<1>7. CASE store # Empty
  <2>1. CntUp(spec_cnt, DEPTH_SPEC) = spec_cnt + 1 /\ spec_cnt < DEPTH_SPEC
    BY <1>1, <1>2, <1>7 DEF CntUp
  <2>2. CntDown(spec_cnt + 1, DEPTH_SPEC) = spec_cnt
    BY <1>1 DEF CntDown
  <2>3. spec_cnt' = IF commit THEN spec_cnt ELSE spec_cnt + 1
    BY <1>5, <1>7, <2>1, <2>2
  <2> QED BY <1>1, <1>3, <2>1, <2>3
<1> QED BY <1>6, <1>7

LEMMA RoomStep ==
  ASSUME Careful, UInv, NEW hit, NEW ex, NEW gnt, NEW ack, NEW trap, NEW step, NEW other,
         NEW commit, NEW flush, NEW pop,
         Inputs(hit, ex, gnt, ack, trap, step, other, commit, flush, pop),
         Cycle(hit, ex, gnt, ack, trap, step, other)
  PROVE  PushFindsRoom'
<1> SUFFICES ASSUME state_q' = "VALID_STORE"
             PROVE  /\ op_q'.amo => amo_buf' = Empty
                    /\ ~op_q'.amo => spec_cnt' < DEPTH_SPEC
  BY DEF PushFindsRoom
<1>1. op_q' = head /\ ~flush /\ Accepts /\ st_ready(commit)
  BY FrontMoves
<1>2. ready_o(commit) /\ amo_buf = Empty
  BY <1>1 DEF st_ready
<1>3. ASSUME head.amo PROVE amo_buf' = Empty
  <2>1. state_q = "IDLE"
    BY <1>1, <1>3 DEF Accepts
  <2>2. ~valid_o(ex)
    BY <2>1 DEF valid_o, Faults
  <2>3. /\ ack => amo_buf' = Empty
        /\ ~ack => amo_buf' = amo_buf
    BY <1>1, <2>2, AmoStep
  <2> QED BY <1>2, <2>3
<1>4. spec_cnt' < DEPTH_SPEC
  BY <1>1, <1>2, CountStep
<1> QED BY <1>1, <1>3, <1>4

\* The rings of the store buffer, for its contract is met.
LEMMA BufferStep ==
  ASSUME Careful, UInv, NEW hit, NEW ex, NEW gnt, NEW ack, NEW trap, NEW step, NEW other,
         NEW commit, NEW flush, NEW pop,
         Inputs(hit, ex, gnt, ack, trap, step, other, commit, flush, pop),
         Cycle(hit, ex, gnt, ack, trap, step, other)
  PROVE  SBTypeOK' /\ RingsConsistent'
<1> DEFINE store == store_buffer_store(ex, flush)
<1>1. /\ store \in Store \cup {Empty} /\ commit \in BOOLEAN /\ flush \in BOOLEAN
      /\ gnt \in BOOLEAN /\ IInv /\ Contract(store, commit, flush)
  BY PushedStore, RequestFacts, ContractFacts, SpecTypes
<1>2. core_if(store, commit, flush) /\ store_if(commit, gnt)
  BY DEF Inputs, Cycle, StoreBufferCycle
<1> HIDE DEF store
<1>3. /\ spec_queue' \in [Slots(DEPTH_SPEC) -> Store \cup {Empty}]
      /\ spec_rd' \in Slots(DEPTH_SPEC)
      /\ spec_wr' \in Slots(DEPTH_SPEC)
      /\ spec_cnt' \in 0 .. DEPTH_SPEC
      /\ RingOK(spec_queue, spec_rd, spec_wr, spec_cnt, DEPTH_SPEC)'
  BY <1>1, <1>2, SpecRingStep
<1>4. /\ commit_queue' \in [Slots(DEPTH_COMMIT) -> Store \cup {Empty}]
      /\ commit_rd' \in Slots(DEPTH_COMMIT)
      /\ commit_wr' \in Slots(DEPTH_COMMIT)
      /\ commit_cnt' \in 0 .. DEPTH_COMMIT
      /\ RingOK(commit_queue, commit_rd, commit_wr, commit_cnt, DEPTH_COMMIT)'
  BY <1>1, <1>2, CommitRingStep
<1> QED BY <1>3, <1>4 DEF SBTypeOK, RingsConsistent

\* The data cache is never asked with an empty commit queue.
LEMMA EmptyCommitQueue ==
  ASSUME UInv, NEW gnt \in BOOLEAN, commit_cnt = 0
  PROVE  CommitSeq = << >> /\ ~Drained(gnt) /\ ~data_req
<1>1. IInv /\ ViewsTyped
  BY SpecTypes
<1>2. CommitSeq = << >>
  BY <1>1 DEF ViewsTyped
<1>3. /\ commit_rd \in Slots(DEPTH_COMMIT) /\ commit_cnt \in 0 .. DEPTH_COMMIT
      /\ RingOK(commit_queue, commit_rd, commit_wr, commit_cnt, DEPTH_COMMIT)
      /\ DEPTH_COMMIT \in Nat \ {0, 1}
  BY <1>1, DepthAssumption DEF IInv, SBTypeOK, RingsConsistent
<1>4. ~data_req
  BY <1>3, RingHead DEF data_req
<1> QED BY <1>2, <1>4 DEF Drained

LEMMA CommitStep ==
  ASSUME Careful, UInv, NEW hit, NEW ex, NEW gnt, NEW ack, NEW trap, NEW step, NEW other,
         NEW commit, NEW flush, NEW pop,
         Inputs(hit, ex, gnt, ack, trap, step, other, commit, flush, pop),
         Cycle(hit, ex, gnt, ack, trap, step, other)
  PROVE  CommitInv'
<1>1. at_commit' \in IF order' = << >> THEN {FALSE}
                     ELSE IF at_commit /\ ~pop THEN {TRUE} ELSE BOOLEAN
  BY DEF Inputs, Cycle, Scoreboard
<1>2. dc_amo' \in IF dc_amo THEN {~ack} ELSE {FALSE, amo_req}
  BY DEF Inputs, Cycle, DCache
<1>3. at_commit' => order' # << >>
  BY <1>1
<1>4. ASSUME dc_amo' PROVE amo_valid_commit' /\ commit_cnt' = 0
  <2>1. amo_valid_commit /\ ~ack /\ commit_cnt = 0
    <3>1. CASE dc_amo
      BY <1>2, <1>4, <3>1 DEF UInv, CommitInv
    <3>2. CASE ~dc_amo
      <4>1. amo_req
        BY <1>2, <1>4, <3>2
      <4> QED BY <3>2, <4>1, RequestFacts DEF amo_req, no_st_pending_o
    <3> QED BY <3>1, <3>2
  <2>2. /\ at_commit /\ ~Oldest.ex /\ Oldest.op.amo /\ ~commit /\ ~pop /\ ~flush
        /\ gnt \in BOOLEAN
    BY <2>1, RequestFacts
  <2>3. order # << >>
    BY <2>2 DEF UInv, CommitInv
  <2>4. order' # << >> /\ order'[1] = order[1]
    BY <2>2, <2>3, OrderMoves
  <2>5. at_commit'
    BY <1>1, <2>2, <2>4
  <2>6. amo_valid_commit'
    BY <2>2, <2>4, <2>5 DEF amo_valid_commit, AmoAtPort0, Oldest
  <2>7. ~Drained(gnt)
    BY <2>1, <2>2, EmptyCommitQueue
  <2>8. store_if(commit, gnt)
    BY DEF Inputs, Cycle, StoreBufferCycle
  <2>9. commit_cnt' = commit_cnt
    BY <2>2, <2>7, <2>8 DEF store_if
  <2> QED BY <2>1, <2>6, <2>9
<1> QED BY <1>3, <1>4 DEF CommitInv

----------------------------------------------------------------------------
(***************************************************************************)
(* The invariant.                                                          *)
(***************************************************************************)
LEMMA TypesStep ==
  ASSUME Careful, UInv, NEW hit, NEW ex, NEW gnt, NEW ack, NEW trap, NEW step, NEW other,
         NEW commit, NEW flush, NEW pop,
         Inputs(hit, ex, gnt, ack, trap, step, other, commit, flush, pop),
         Cycle(hit, ex, gnt, ack, trap, step, other)
  PROVE  TypeOK'
<1>0. TypeOK
  BY DEF UInv
<1>0a. /\ ex \in BOOLEAN /\ pop \in BOOLEAN /\ ack \in BOOLEAN /\ flush \in BOOLEAN
       /\ ack => amo_valid_commit
       /\ amo_valid_commit => at_commit /\ ~Oldest.ex /\ Oldest.op.amo
       /\ pop => order # << >>
  BY RequestFacts
<1>1. SBTypeOK'
  BY BufferStep
<1>2. /\ state_q' \in {"IDLE", "VALID_STORE", "WAIT_TRANSLATION", "WAIT_STORE_READY"}
      /\ op_q' \in Ops \cup {Empty} /\ head' \in Ops \cup {Empty}
      /\ issued' \in 0 .. MaxOps
  <2>1. /\ op_q' = head /\ state_q' \in {"IDLE", "VALID_STORE"} \cup Waits
        /\ issued' \in 0 .. MaxOps /\ head' \in Ops \cup {Empty}
    BY FrontMoves
  <2> QED BY <1>0, <2>1 DEF TypeOK, Waits
<1>3. flushed' \in 0 .. MaxOps
  <2>1. flushed' = IF flush THEN issued ELSE flushed
    BY FrontMoves
  <2> QED BY <1>0, <2>1 DEF TypeOK
<1>4. amo_buf' \in Ops \cup {Empty}
  <2>1. amo_buf' = Empty \/ amo_buf' = amo_buf \/ (valid_o(ex) /\ amo_buf' = op_q)
    BY <1>0a, AmoStep
  <2>2. valid_o(ex) => op_q \in Ops
    BY <1>0a, DoneFacts
  <2> QED BY <1>0, <2>1, <2>2 DEF TypeOK
<1>5. order' \in Seq([op : Ops, ex : BOOLEAN])
  BY OrderMoves
<1>6. at_commit' \in BOOLEAN /\ dc_amo' \in BOOLEAN
  <2>1. at_commit' \in IF order' = << >> THEN {FALSE}
                       ELSE IF at_commit /\ ~pop THEN {TRUE} ELSE BOOLEAN
    BY DEF Inputs, Cycle, Scoreboard
  <2>2. dc_amo' \in IF dc_amo THEN {~ack} ELSE {FALSE, amo_req}
    BY DEF Inputs, Cycle, DCache
  <2>3. amo_req \in BOOLEAN
    BY DEF amo_req
  <2>4. (~ack) \in BOOLEAN
    OBVIOUS
  <2> QED BY <2>1, <2>2, <2>3, <2>4
<1>7. retired' \in Seq(Store)
  <2>1. retired' = IF pop THEN Append(retired, Oldest.op.id) ELSE retired
    BY DEF Inputs, Cycle, Scoreboard
  <2>2. pop => Oldest.op.id \in Store
    <3>1. pop => 1 \in DOMAIN order
      BY <1>0a, OrderTypes
    <3> QED BY <3>1, OrderTypes DEF Oldest
  <2>3. retired \in Seq(Store)
    BY <1>0 DEF TypeOK
  <2> QED BY <2>1, <2>2, <2>3
<1>8. mem' \in Seq(Store)
  <2> DEFINE drained == IF Drained(gnt) THEN <<commit_queue[commit_rd]>> ELSE << >>
             done    == IF ack THEN <<amo_buf.id>> ELSE << >>
  <2>1. mem' = mem \o drained \o done
    BY DEF Inputs, Cycle, DCache
  <2>2. Drained(gnt) => commit_queue[commit_rd] \in Store
    BY <1>0 DEF TypeOK, SBTypeOK, Drained, data_req
  <2>3. ack => amo_buf.id \in Store
    <3>1. ack => at_commit /\ ~Oldest.ex /\ Oldest.op.amo
      BY <1>0a
    <3>2. ack => amo_buf = Oldest.op /\ Oldest.op \in Ops
      BY <1>0a, <3>1, OldestFacts
    <3> QED BY <3>2, OpTypes
  <2>4. drained \in Seq(Store) /\ done \in Seq(Store) /\ mem \in Seq(Store)
    BY <1>0, <2>2, <2>3 DEF TypeOK
  <2> HIDE DEF drained, done
  <2> QED BY <2>1, <2>4
<1> QED BY <1>1, <1>2, <1>3, <1>4, <1>5, <1>6, <1>7, <1>8 DEF TypeOK

LEMMA UInvInit == Init => UInv
<1> SUFFICES ASSUME Init PROVE UInv
  OBVIOUS
<1>1. SBTypeOK /\ RingsConsistent
  BY IInvInit DEF Init, IInv
<1>2. order = << >> /\ DOMAIN order = {} /\ state_q = "IDLE" /\ head = Empty
      /\ amo_buf = Empty /\ issued = 0 /\ flushed = 0 /\ spec_cnt = 0
      /\ ~at_commit /\ ~dc_amo
  BY DEF Init, StoreBufferInit
<1>3. TypeOK
  <2>1. 0 \in 0 .. MaxOps
    BY OpTypes
  <2>2. /\ << >> \in Seq([op : Ops, ex : BOOLEAN]) /\ << >> \in Seq(Store)
        /\ op_q = Empty /\ retired = << >> /\ mem = << >>
    BY DEF Init
  <2>3. at_commit \in BOOLEAN /\ dc_amo \in BOOLEAN
    BY DEF Init
  <2> QED BY <1>1, <1>2, <2>1, <2>2, <2>3 DEF TypeOK
<1>4. FrontInv /\ CommitInv /\ PushFindsRoom
  BY <1>2 DEF FrontInv, CommitInv, PushFindsRoom
<1>5. SpecSeq = << >> /\ DOMAIN SpecSeq = {}
  <2>1. IInv /\ spec_cnt = 0
    BY <1>1, <1>2 DEF IInv
  <2>2. SpecSeq = << >>
    BY <2>1, ViewTypes DEF ViewsTyped
  <2> QED BY <2>2
<1>6. BuffersMatchScoreboard
  <2>1. Waiting(FALSE) = {} /\ Waiting(TRUE) = {}
    BY <1>2 DEF Waiting
  <2>2. Ascending(SpecSeq) /\ Ascending([i \in DOMAIN order |-> order[i].op.id])
    BY <1>2, <1>5 DEF Ascending
  <2> QED BY <1>2, <1>5, <2>1, <2>2 DEF BuffersMatchScoreboard
<1>7. NoFlushedStoreSurvives
  BY <1>2, <1>5 DEF NoFlushedStoreSurvives
<1> QED BY <1>1, <1>3, <1>4, <1>6, <1>7 DEF UInv

LEMMA UInvCycle ==
  ASSUME Careful, UInv, NEW hit, NEW ex, NEW gnt, NEW ack, NEW trap, NEW step, NEW other,
         NEW commit, NEW flush, NEW pop,
         Inputs(hit, ex, gnt, ack, trap, step, other, commit, flush, pop),
         Cycle(hit, ex, gnt, ack, trap, step, other)
  PROVE  UInv'
<1>1. TypeOK' /\ RingsConsistent'
  BY TypesStep, BufferStep
<1>2. FrontInv' /\ CommitInv'
  BY FrontStep, CommitStep
<1>3. PushFindsRoom' /\ BuffersMatchScoreboard' /\ NoFlushedStoreSurvives'
  BY RoomStep, BuffersMatchStep, FlushStep
<1> QED BY <1>1, <1>2, <1>3 DEF UInv

\* Every step is a cycle with some inputs, or changes nothing.
LEMMA NextInputs ==
  ASSUME Next
  PROVE  \E hit, ex, gnt, ack, trap, step, other, commit, flush, pop :
           /\ Inputs(hit, ex, gnt, ack, trap, step, other, commit, flush, pop)
           /\ Cycle(hit, ex, gnt, ack, trap, step, other)
<1>1. PICK hit, ex, gnt, ack, trap, step, other \in BOOLEAN :
        /\ Allowed(hit, ex, gnt, ack, trap, step, other)
        /\ Cycle(hit, ex, gnt, ack, trap, step, other)
  BY DEF Next
<1>2. Inputs(hit, ex, gnt, ack, trap, step, other,
             commit_lsu(trap), flush_ex(trap, step, other, ack), Retires(trap, ack))
  BY <1>1 DEF Inputs
<1> QED BY <1>1, <1>2

LEMMA UInvStep == Careful /\ UInv /\ [Next]_vars => UInv'
<1> SUFFICES ASSUME Careful, UInv, [Next]_vars PROVE UInv'
  OBVIOUS
<1>1. CASE Next
  <2>1. PICK hit, ex, gnt, ack, trap, step, other, commit, flush, pop :
           /\ Inputs(hit, ex, gnt, ack, trap, step, other, commit, flush, pop)
           /\ Cycle(hit, ex, gnt, ack, trap, step, other)
    BY <1>1, NextInputs
  <2> QED BY <2>1, UInvCycle
<1>2. CASE UNCHANGED vars
  <2> USE <1>2 DEF vars, sbVars, unitVars, envVars
  <2>1. TypeOK' /\ RingsConsistent'
    BY DEF UInv, TypeOK, SBTypeOK, RingsConsistent, RingOK
  <2>2. FrontInv' /\ CommitInv' /\ PushFindsRoom'
    BY DEF UInv, FrontInv, CommitInv, PushFindsRoom, amo_valid_commit, AmoAtPort0, Oldest
  <2>3. SpecSeq' = SpecSeq
    BY DEF SpecSeq
  <2>4. BuffersMatchScoreboard' /\ NoFlushedStoreSurvives'
    BY <2>3, ZenonT(40) DEF UInv, BuffersMatchScoreboard, NoFlushedStoreSurvives, Waiting, Ascending
  <2> QED BY <2>1, <2>2, <2>4 DEF UInv
<1> QED BY <1>1, <1>2

----------------------------------------------------------------------------
(***************************************************************************)
(* Memory and retirement.                                                  *)
(***************************************************************************)

\* What is taken from the front of t is put behind s.
LEMMA Handover ==
  ASSUME NEW S, NEW s \in Seq(S), NEW t \in Seq(S), t # << >>
  PROVE  (s \o <<Head(t)>>) \o Tail(t) = s \o t
<1>1. Head(t) \in S /\ Tail(t) \in Seq(S) /\ <<Head(t)>> \in Seq(S)
  BY HeadTailProperties
<1>2. <<Head(t)>> \o Tail(t) = t
  <2>1. Len(t) \in Nat \ {0} /\ Len(Tail(t)) = Len(t) - 1
        /\ \A i \in 1 .. Len(Tail(t)) : Tail(t)[i] = t[i + 1]
    BY HeadTailProperties, EmptySeq
  <2>2. Len(<<Head(t)>>) = 1 /\ <<Head(t)>>[1] = t[1]
    OBVIOUS
  <2> DEFINE u == Tail(t)
             h == <<Head(t)>>
  <2> HIDE DEF u, h
  <2>3. /\ h \o u \in Seq(S) /\ Len(h \o u) = Len(h) + Len(u)
        /\ \A i \in 1 .. Len(h) + Len(u) :
             (h \o u)[i] = IF i <= Len(h) THEN h[i] ELSE u[i - Len(h)]
    BY <1>1, ConcatProperties DEF h, u
  <2>4. Len(h \o u) = Len(t) /\ \A i \in 1 .. Len(t) : (h \o u)[i] = t[i]
    BY <2>1, <2>2, <2>3 DEF h, u
  <2>5. h \o u = t
    BY <2>3, <2>4, SeqEqual
  <2> QED BY <2>5 DEF h, u
<1>3. (s \o <<Head(t)>>) \o Tail(t) = s \o (<<Head(t)>> \o Tail(t))
  BY <1>1, ConcatAssociative
<1> QED BY <1>2, <1>3

LEMMA MemoryCycle ==
  ASSUME Careful, UInv, MemoryFollowsRetirement,
         NEW hit, NEW ex, NEW gnt, NEW ack, NEW trap, NEW step, NEW other,
         NEW commit, NEW flush, NEW pop,
         Inputs(hit, ex, gnt, ack, trap, step, other, commit, flush, pop),
         Cycle(hit, ex, gnt, ack, trap, step, other)
  PROVE  MemoryFollowsRetirement'
<1> DEFINE store == store_buffer_store(ex, flush)
           front == IF Drained(gnt) THEN <<commit_queue[commit_rd]>> ELSE << >>
           rest  == IF Drained(gnt) THEN Tail(CommitSeq) ELSE CommitSeq
<1>1. /\ store \in Store \cup {Empty} /\ commit \in BOOLEAN /\ flush \in BOOLEAN
      /\ gnt \in BOOLEAN /\ IInv /\ ViewsTyped /\ Contract(store, commit, flush)
  BY PushedStore, RequestFacts, ContractFacts, SpecTypes
<1>2. store_if(commit, gnt)
  BY DEF Inputs, Cycle, StoreBufferCycle
<1>3. /\ Drained(gnt) => CommitSeq # << >>
      /\ CommitSeq' = IF commit THEN Append(rest, Head(SpecSeq)) ELSE rest
  <2> HIDE DEF store
  <2> QED BY <1>1, <1>2, CommitSeqStep
<1>4. /\ mem \in Seq(Store) /\ retired \in Seq(Store) /\ CommitSeq \in Seq(Store)
      /\ mem \o CommitSeq = retired
  BY <1>1 DEF UInv, TypeOK, ViewsTyped, MemoryFollowsRetirement
<1>5. /\ mem' = (mem \o front) \o (IF ack THEN <<amo_buf.id>> ELSE << >>)
      /\ retired' = IF pop THEN Append(retired, Oldest.op.id) ELSE retired
  BY DEF Inputs, Cycle, DCache, Scoreboard
<1>6. /\ ack \in BOOLEAN /\ pop \in BOOLEAN /\ (pop <=> commit \/ ack)
      /\ ack => dc_amo /\ amo_valid_commit
      /\ amo_valid_commit => at_commit /\ ~Oldest.ex /\ Oldest.op.amo /\ ~commit
      /\ commit => at_commit /\ ~Oldest.ex /\ ~Oldest.op.amo
  BY RequestFacts
<1>7. Drained(gnt) => commit_queue[commit_rd] = Head(CommitSeq)
  BY <1>1, <1>3 DEF ViewsTyped
<1>8. (mem \o front) \o rest = retired /\ front \in Seq(Store) /\ rest \in Seq(Store)
  <2>1. CASE Drained(gnt)
    <3>1. front = <<Head(CommitSeq)>> /\ rest = Tail(CommitSeq) /\ CommitSeq # << >>
      BY <1>3, <1>7, <2>1
    <3>2. Head(CommitSeq) \in Store /\ Tail(CommitSeq) \in Seq(Store)
      BY <1>4, <3>1, HeadTailProperties
    <3>3. (mem \o <<Head(CommitSeq)>>) \o Tail(CommitSeq) = mem \o CommitSeq
      BY <1>4, <3>1, Handover
    <3> HIDE DEF front, rest
    <3>4. (mem \o front) \o rest = retired
      BY <1>4, <3>1, <3>3
    <3>5. front \in Seq(Store) /\ rest \in Seq(Store)
      BY <3>1, <3>2
    <3> QED BY <3>4, <3>5
  <2>2. CASE ~Drained(gnt)
    <3>1. front = << >> /\ rest = CommitSeq /\ mem \o << >> = mem
      BY <1>4, <2>2
    <3> HIDE DEF front, rest
    <3>2. (mem \o front) \o rest = retired
      BY <1>4, <3>1
    <3>3. front \in Seq(Store) /\ rest \in Seq(Store)
      BY <1>4, <3>1
    <3> QED BY <3>2, <3>3
  <2> HIDE DEF front, rest
  <2> QED BY <2>1, <2>2
<1> HIDE DEF front, rest
<1>9. CASE ack
  <2>1. /\ dc_amo /\ amo_valid_commit /\ at_commit /\ ~Oldest.ex /\ Oldest.op.amo
        /\ ~commit /\ pop
    BY <1>6, <1>9
  <2>2. commit_cnt = 0
    BY <2>1 DEF UInv, CommitInv
  <2>3. CommitSeq = << >> /\ ~Drained(gnt)
    BY <1>1, <2>2, EmptyCommitQueue
  <2>4. front = << >> /\ rest = << >> /\ CommitSeq' = << >>
    BY <1>3, <2>1, <2>3 DEF front, rest
  <2>5. amo_buf = Oldest.op /\ Oldest.op \in Ops
    BY <2>1, OldestFacts
  <2>6. amo_buf.id \in Store
    BY <2>5, OpTypes
  <2>7. mem = retired /\ mem \o << >> = mem
    BY <1>4, <2>3
  <2>8. mem' = mem \o <<amo_buf.id>> /\ retired' = Append(mem, amo_buf.id)
    BY <1>5, <1>9, <2>1, <2>4, <2>5, <2>7
  <2>9. mem \o <<amo_buf.id>> = Append(mem, amo_buf.id)
        /\ (mem \o <<amo_buf.id>>) \o << >> = mem \o <<amo_buf.id>>
    BY <1>4, <2>6
  <2> QED BY <2>4, <2>8, <2>9 DEF MemoryFollowsRetirement
<1>10. CASE ~ack
  <2>1. mem \o front \in Seq(Store) /\ mem' = mem \o front
    BY <1>4, <1>5, <1>8, <1>10
  <2>2. CASE commit
    <3>1. Head(SpecSeq) = Oldest.op.id /\ Oldest.op.id \in Store
      BY <1>6, <2>2, OldestFacts, OpTypes
    <3>2. CommitSeq' = Append(rest, Oldest.op.id) /\ retired' = Append(retired, Oldest.op.id)
      BY <1>3, <1>5, <1>6, <2>2, <3>1
    <3> DEFINE x == Oldest.op.id
    <3> HIDE DEF x
    <3>3. Append(rest, x) = rest \o <<x>> /\ Append(retired, x) = retired \o <<x>>
          /\ <<x>> \in Seq(Store)
      BY <1>4, <1>8, <3>1, AppendIsConcat DEF x
    <3>4. (mem \o front) \o (rest \o <<x>>) = ((mem \o front) \o rest) \o <<x>>
      <4> DEFINE a == mem \o front
                 y == <<x>>
      <4>1. a \in Seq(Store) /\ rest \in Seq(Store) /\ y \in Seq(Store)
        BY <1>8, <2>1, <3>3
      <4> HIDE DEF a, y
      <4>2. (a \o rest) \o y = a \o (rest \o y)
        BY <4>1, ConcatAssociative
      <4> QED BY <4>2 DEF a, y
    <3>5. mem' \o CommitSeq' = retired'
      BY <1>8, <2>1, <3>2, <3>3, <3>4 DEF x
    <3> QED BY <3>5 DEF MemoryFollowsRetirement
  <2>3. CASE ~commit
    <3>1. CommitSeq' = rest /\ retired' = retired
      BY <1>3, <1>5, <1>6, <1>10, <2>3
    <3> QED BY <1>8, <2>1, <3>1 DEF MemoryFollowsRetirement
  <2> QED BY <1>1, <2>2, <2>3
<1> QED BY <1>6, <1>9, <1>10

LEMMA MemoryInit == Init => MemoryFollowsRetirement
<1> SUFFICES ASSUME Init PROVE MemoryFollowsRetirement
  OBVIOUS
<1>1. IInv /\ commit_cnt = 0 /\ mem = << >> /\ retired = << >>
  BY IInvInit DEF Init, StoreBufferInit
<1>2. CommitSeq = << >>
  BY <1>1, ViewTypes DEF ViewsTyped
<1>3. << >> \o << >> = << >>
  OBVIOUS
<1> QED BY <1>1, <1>2, <1>3 DEF MemoryFollowsRetirement

LEMMA MemoryStep ==
  Careful /\ UInv /\ MemoryFollowsRetirement /\ [Next]_vars => MemoryFollowsRetirement'
<1> SUFFICES ASSUME Careful, UInv, MemoryFollowsRetirement, [Next]_vars
             PROVE  MemoryFollowsRetirement'
  OBVIOUS
<1>1. CASE Next
  <2>1. PICK hit, ex, gnt, ack, trap, step, other, commit, flush, pop :
           /\ Inputs(hit, ex, gnt, ack, trap, step, other, commit, flush, pop)
           /\ Cycle(hit, ex, gnt, ack, trap, step, other)
    BY <1>1, NextInputs
  <2> QED BY <2>1, MemoryCycle
<1>2. CASE UNCHANGED vars
  <2>1. CommitSeq' = CommitSeq /\ mem' = mem /\ retired' = retired
    BY <1>2 DEF vars, sbVars, envVars, CommitSeq
  <2> QED BY <2>1 DEF MemoryFollowsRetirement
<1> QED BY <1>1, <1>2

LEMMA UInvAsserts == Careful /\ UInv => AssertionsHold
<1> SUFFICES ASSUME Careful, UInv,
                    NEW ex \in BOOLEAN, NEW ack \in BOOLEAN, NEW trap \in BOOLEAN,
                    NEW step \in BOOLEAN, NEW other \in BOOLEAN,
                    Allowed(FALSE, ex, FALSE, ack, trap, step, other)
             PROVE  Contract(store_buffer_store(ex, flush_ex(trap, step, other, ack)),
                             commit_lsu(trap), flush_ex(trap, step, other, ack))
  BY DEF AssertionsHold
<1>1. Inputs(FALSE, ex, FALSE, ack, trap, step, other,
             commit_lsu(trap), flush_ex(trap, step, other, ack), Retires(trap, ack))
  BY DEF Inputs
<1> QED BY <1>1, ContractFacts

----------------------------------------------------------------------------
\* The four assertions at the end of store_buffer.sv hold in every cycle the
\* store unit, the AMO buffer and the commit stage can produce, for all queue
\* depths: in particular st_ready, sampled a cycle before the push, reserves
\* the slot, and the commit stage commits no store the buffer does not hold.
THEOREM BufferContractMet ==
  ASSUME Careful PROVE Spec => []AssertionsHold
<1>1. UInv /\ [Next]_vars => UInv'
  BY UInvStep
<1>2. UInv => AssertionsHold
  BY UInvAsserts
<1> QED BY <1>1, <1>2, UInvInit, PTL DEF Spec

\* The speculative queue and the AMO buffer hold exactly the written-back
\* stores and AMOs that wait to retire, in order of issue; a promised push
\* finds its slot; and a flush leaves no store it should have killed.
THEOREM BuffersRight ==
  ASSUME Careful PROVE Spec => []BuffersConsistent
<1>1. UInv /\ [Next]_vars => UInv'
  BY UInvStep
<1>2. UInv => BuffersConsistent
  BY DEF UInv, BuffersConsistent
<1> QED BY <1>1, <1>2, UInvInit, PTL DEF Spec

\* A cycle in which the commit stage takes an interrupt or a debug request with
\* the instruction at commit port 0.
TrapTaken == \E hit, ex, gnt, ack, step \in BOOLEAN :
  /\ Allowed(hit, ex, gnt, ack, TRUE, step, FALSE)
  /\ Cycle(hit, ex, gnt, ack, TRUE, step, FALSE)

\* What a step may do to an AMO that the data cache executes for the commit port:
\* only an interrupt or a debug request takes it away unanswered, and then the
\* whole pipeline is flushed with it.
AmoLeavesOnlyByTrap ==
  (dc_amo /\ amo_valid_commit) /\ (dc_amo' /\ ~amo_valid_commit') =>
    AmoInterruptible /\ TrapTaken /\ order' = <<>> /\ flushed' = issued

\* The scoreboard as far as commit port 0 needs it.
PortInv ==
  /\ head \in Ops \cup {Empty} /\ op_q \in Ops \cup {Empty} /\ issued \in Nat
  /\ order \in Seq([op : Ops \cup {Empty}, ex : BOOLEAN])
  /\ at_commit => order # <<>>

LEMMA PortInvHolds == Spec => []PortInv
<1>1. Init => PortInv
  BY StoreUnitAssumption, EmptySeq DEF Init, PortInv
<1>2. PortInv /\ [Next]_vars => PortInv'
  <2> SUFFICES ASSUME PortInv, [Next]_vars PROVE PortInv'
    OBVIOUS
  <2> USE DEF PortInv
  <2>1. CASE UNCHANGED vars
    BY <2>1 DEF vars, unitVars, envVars
  <2>2. CASE Next
    <3> DEFINE Entry == [op : Ops \cup {Empty}, ex : BOOLEAN]
    <3>1. PICK hit, ex, gnt, ack, trap, step, other \in BOOLEAN :
            /\ Allowed(hit, ex, gnt, ack, trap, step, other)
            /\ Cycle(hit, ex, gnt, ack, trap, step, other)
      BY <2>2 DEF Next
    <3>2. op_q' = head
      BY <3>1 DEF Cycle
    <3>3. head' \in Ops \cup {Empty} /\ issued' \in Nat
      <4>1. Bypass(pop_st(hit, ex, commit_lsu(trap)), flush_ex(trap, step, other, ack))
        BY <3>1 DEF Cycle
      <4>2. \A amo \in BOOLEAN : issued < MaxOps => [id |-> issued + 1, amo |-> amo] \in Ops
        BY StoreUnitAssumption DEF Ops
      <4> QED BY <4>1, <4>2 DEF Bypass
    <3>4. order' \in Seq(Entry) /\ (at_commit' => order' # <<>>)
      <4> DEFINE flush == flush_ex(trap, step, other, ack)
                 rest  == IF Retires(trap, ack) THEN Tail(order) ELSE order
                 done  == IF valid_o(ex) THEN <<[op |-> op_q, ex |-> Faults(ex)]>> ELSE <<>>
      <4>1. Scoreboard(ex, trap, flush, ack)
        BY <3>1 DEF Cycle
      <4>2. /\ order' = IF flush THEN <<>> ELSE rest \o done
            /\ at_commit' => order' # <<>>
        BY <4>1 DEF Scoreboard
      <4>3. rest \in Seq(Entry)
        <5>1. Retires(trap, ack) => order # <<>>
          BY DEF Retires, commit_lsu, StoreAtPort0, amo_valid_commit, AmoAtPort0
        <5> HIDE DEF Entry
        <5> QED BY <5>1, HeadTailProperties DEF Entry
      <4>4. done \in Seq(Entry)
        <5>1. [op |-> op_q, ex |-> Faults(ex)] \in Entry
          BY DEF Faults
        <5> HIDE DEF Entry
        <5> QED BY <5>1, EmptySeq
      <4>5. rest \o done \in Seq(Entry)
        <5> HIDE DEF Entry, rest, done
        <5> QED BY <4>3, <4>4, ConcatProperties
      <4> HIDE DEF rest, done
      <4> QED BY <4>2, <4>5, EmptySeq
    <3> QED BY <3>2, <3>3, <3>4
  <2> QED BY <2>1, <2>2
<1> QED BY <1>1, <1>2, PTL DEF Spec

LEMMA AmoLeaves ==
  ASSUME PortInv, [Next]_vars PROVE AmoLeavesOnlyByTrap
<1> SUFFICES ASSUME dc_amo, amo_valid_commit, dc_amo', ~amo_valid_commit'
             PROVE  AmoInterruptible /\ TrapTaken /\ order' = <<>> /\ flushed' = issued
  BY DEF AmoLeavesOnlyByTrap
<1>1. CASE UNCHANGED vars
  BY <1>1 DEF vars, envVars, amo_valid_commit, AmoAtPort0, Oldest
<1>2. CASE Next
  <2>1. PICK hit, ex, gnt, ack, trap, step, other \in BOOLEAN :
          /\ Allowed(hit, ex, gnt, ack, trap, step, other)
          /\ Cycle(hit, ex, gnt, ack, trap, step, other)
    BY <1>2 DEF Next
  <2> DEFINE flush == flush_ex(trap, step, other, ack)
             done  == IF valid_o(ex) THEN <<[op |-> op_q, ex |-> Faults(ex)]>> ELSE <<>>
  <2>2. at_commit /\ Oldest.op.amo /\ ~Oldest.ex /\ order # <<>>
    BY DEF amo_valid_commit, AmoAtPort0, PortInv
  <2>3. ~ack
    BY <2>1 DEF Cycle, DCache
  <2>4. ~Retires(trap, ack)
    BY <2>2, <2>3 DEF Retires, commit_lsu, StoreAtPort0
  <2>5. flush = trap
    BY <2>2, <2>4 DEF flush_ex
  <2>6. /\ order' = IF flush THEN <<>> ELSE order \o done
        /\ order' # <<>> => at_commit'
        /\ flush => flushed' = issued
    BY <2>1, <2>2, <2>4 DEF Cycle, Scoreboard
  <2>7. trap
    <3> SUFFICES ASSUME ~trap PROVE FALSE
      OBVIOUS
    <3>1. order' = order \o done
      BY <2>5, <2>6
    <3>2. order \o done # <<>> /\ (order \o done)[1] = order[1]
      <4> DEFINE Entry == [op : Ops \cup {Empty}, ex : BOOLEAN]
      <4>1. order \in Seq(Entry)
        BY DEF PortInv
      <4>2. done \in Seq(Entry)
        <5>1. [op |-> op_q, ex |-> Faults(ex)] \in Entry
          BY DEF Faults, PortInv
        <5> HIDE DEF Entry
        <5> QED BY <5>1, EmptySeq
      <4> HIDE DEF Entry, done
      <4>3. Len(order) \in Nat /\ Len(order) # 0 /\ Len(done) \in Nat
        BY <2>2, <4>1, <4>2, EmptySeq
      <4>4. /\ Len(order \o done) = Len(order) + Len(done)
            /\ (order \o done)[1] = order[1]
        BY <4>1, <4>2, <4>3, ConcatProperties
      <4> QED BY <4>3, <4>4, EmptySeq
    <3>3. at_commit' /\ order'[1] = order[1]
      BY <2>6, <3>1, <3>2
    <3>4. amo_valid_commit'
      BY <2>2, <3>3 DEF amo_valid_commit, AmoAtPort0, Oldest
    <3> QED BY <3>4
  <2>8. AmoInterruptible /\ ~other
    BY <2>1, <2>2, <2>7 DEF Allowed
  <2>9. TrapTaken
    BY <2>1, <2>7, <2>8 DEF TrapTaken
  <2> QED BY <2>5, <2>6, <2>7, <2>8, <2>9
<1> QED BY <1>1, <1>2

\* "we are not jumping to debug while committing an AMO" (commit_stage.sv) is
\* false, and this is how far: whatever interrupts, debug requests, single steps,
\* faults and flushes come, and for every depth of the queues, nothing but an
\* interrupt or a debug request taken at the commit port parts the data cache
\* from the AMO it executes.
THEOREM AmoLostOnlyToTrap == Spec => [][AmoLeavesOnlyByTrap]_vars
<1>1. PortInv /\ [Next]_vars => [AmoLeavesOnlyByTrap]_vars
  BY AmoLeaves
<1> QED BY <1>1, PortInvHolds, PTL DEF Spec

\* commit_i and the AMO acknowledge carry no id, yet memory performs exactly
\* the retired stores and AMOs, each once, in the order of retirement; what it
\* has not performed yet is the commit queue.
THEOREM MemoryRight ==
  ASSUME Careful PROVE Spec => []MemoryFollowsRetirement
<1>1. UInv /\ [Next]_vars => UInv'
  BY UInvStep
<1>2. UInv /\ MemoryFollowsRetirement /\ [Next]_vars => MemoryFollowsRetirement'
  BY MemoryStep
<1> QED BY <1>1, <1>2, UInvInit, MemoryInit, PTL DEF Spec

=============================================================================
