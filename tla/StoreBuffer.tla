---------------------------- MODULE StoreBuffer ----------------------------
(***************************************************************************)
(* The store buffer of the load/store unit (src/store_buffer.sv): a ring   *)
(* of speculative stores, filled by the store unit, and a ring of          *)
(* committed stores, drained to the data cache.  The commit stage moves    *)
(* the oldest speculative store into the commit queue; a pipeline flush    *)
(* discards the speculative ring only.                                     *)
(*                                                                         *)
(* The module gives the registers, their reset values and one action,      *)
(* StoreBufferCycle, that is a whole clock edge as a function of the       *)
(* inputs.  A cleared valid bit is the entry Empty: the payload that the   *)
(* hardware leaves behind in an invalid slot is never observed.            *)
(***************************************************************************)
EXTENDS Naturals

CONSTANTS
  DEPTH_SPEC,     \* slots of the speculative queue
  DEPTH_COMMIT,   \* slots of the commit queue
  Store,          \* what a slot holds: address, data, byte enables, size
  Empty           \* a slot whose valid bit is clear

ASSUME DepthAssumption ==
  /\ DEPTH_SPEC \in Nat \ {0, 1}
  /\ DEPTH_COMMIT \in Nat \ {0, 1}

\* The pointers are $clog2(DEPTH) bits wide and wrap by overflow, so a depth
\* is a power of two.
ASSUME PowerOfTwoAssumption ==
  /\ \E k \in 0 .. DEPTH_SPEC : DEPTH_SPEC = 2 ^ k
  /\ \E k \in 0 .. DEPTH_COMMIT : DEPTH_COMMIT = 2 ^ k

ASSUME EmptyAssumption == Empty \notin Store

VARIABLES
  spec_queue, spec_rd, spec_wr, spec_cnt,
  commit_queue, commit_rd, commit_wr, commit_cnt

specVars   == <<spec_queue, spec_rd, spec_wr, spec_cnt>>
commitVars == <<commit_queue, commit_rd, commit_wr, commit_cnt>>
sbVars     == <<spec_queue, spec_rd, spec_wr, spec_cnt,
                commit_queue, commit_rd, commit_wr, commit_cnt>>

Slots(depth) == 0 .. depth - 1

\* A pointer of $clog2(depth) bits plus one.
Inc(p, depth) == IF p = depth - 1 THEN 0 ELSE p + 1

\* A status counter has $clog2(depth)+1 bits: it wraps at twice the depth.
CntUp(c, depth)   == IF c = 2 * depth - 1 THEN 0 ELSE c + 1
CntDown(c, depth) == IF c = 0 THEN 2 * depth - 1 ELSE c - 1

StoreBufferInit ==
  /\ spec_queue = [i \in Slots(DEPTH_SPEC) |-> Empty]
  /\ spec_rd = 0 /\ spec_wr = 0 /\ spec_cnt = 0
  /\ commit_queue = [i \in Slots(DEPTH_COMMIT) |-> Empty]
  /\ commit_rd = 0 /\ commit_wr = 0 /\ commit_cnt = 0

----------------------------------------------------------------------------
\* Outputs.

\* The store unit pushes one cycle after it saw ready_o, hence the spare slot.
ready_o(commit) == spec_cnt < DEPTH_SPEC - 1 \/ commit
commit_ready_o  == commit_cnt < DEPTH_COMMIT
no_st_pending_oSpec == commit_cnt = 0 /\ spec_cnt = 0
no_st_pending_o == commit_cnt = 0
\* The store presented to the data cache, if any.
data_req        == commit_queue[commit_rd] # Empty

----------------------------------------------------------------------------
(***************************************************************************)
(* Speculative queue.  store is the incoming store or Empty (valid_i low). *)
(* The assignments are made in the order of the code: push, then the       *)
(* eviction of the committed entry, then the flush, which overrides both   *)
(* but takes the OLD read pointer as the new write pointer.                *)
(***************************************************************************)
core_ifKeep(store, commit, flush) ==
  LET pushed  == IF store # Empty
                 THEN [spec_queue EXCEPT ![spec_wr] = store] ELSE spec_queue
      evicted == IF commit THEN [pushed EXCEPT ![spec_rd] = Empty] ELSE pushed
      cnt1    == IF store # Empty THEN CntUp(spec_cnt, DEPTH_SPEC) ELSE spec_cnt
      cnt2    == IF commit THEN CntDown(cnt1, DEPTH_SPEC) ELSE cnt1
  IN  /\ spec_queue' = IF flush THEN [i \in Slots(DEPTH_SPEC) |-> Empty]
                                ELSE evicted
      /\ spec_rd' = IF commit THEN Inc(spec_rd, DEPTH_SPEC) ELSE spec_rd
      /\ spec_wr' = IF store # Empty THEN Inc(spec_wr, DEPTH_SPEC) ELSE spec_wr
      /\ spec_cnt' = IF flush THEN 0 ELSE cnt2

core_if(store, commit, flush) ==
  LET pushed  == IF store # Empty
                 THEN [spec_queue EXCEPT ![spec_wr] = store] ELSE spec_queue
      evicted == IF commit THEN [pushed EXCEPT ![spec_rd] = Empty] ELSE pushed
      cnt1    == IF store # Empty THEN CntUp(spec_cnt, DEPTH_SPEC) ELSE spec_cnt
      cnt2    == IF commit THEN CntDown(cnt1, DEPTH_SPEC) ELSE cnt1
  IN  /\ spec_queue' = IF flush THEN [i \in Slots(DEPTH_SPEC) |-> Empty]
                                ELSE evicted
      /\ spec_rd' = IF commit THEN Inc(spec_rd, DEPTH_SPEC) ELSE spec_rd
      /\ spec_wr' = IF flush THEN spec_rd
                    ELSE IF store # Empty THEN Inc(spec_wr, DEPTH_SPEC)
                    ELSE spec_wr
      /\ spec_cnt' = IF flush THEN 0 ELSE cnt2

\* A cache write counts as done at the grant; gnt is meaningful only while
\* data_req is high.
Drained(gnt) == data_req /\ gnt

store_ifWrongSlot(commit, gnt) ==
  LET drained == IF Drained(gnt)
                 THEN [commit_queue EXCEPT ![commit_rd] = Empty] ELSE commit_queue
      cnt1    == IF Drained(gnt) THEN CntDown(commit_cnt, DEPTH_COMMIT)
                                 ELSE commit_cnt
      newest  == IF spec_wr = 0 THEN DEPTH_SPEC - 1 ELSE spec_wr - 1
  IN  /\ commit_queue' = IF commit
                         THEN [drained EXCEPT ![commit_wr] = spec_queue[newest]]
                         ELSE drained
      /\ commit_rd' = IF Drained(gnt) THEN Inc(commit_rd, DEPTH_COMMIT)
                                      ELSE commit_rd
      /\ commit_wr' = IF commit THEN Inc(commit_wr, DEPTH_COMMIT) ELSE commit_wr
      /\ commit_cnt' = IF commit THEN CntUp(cnt1, DEPTH_COMMIT) ELSE cnt1

\* Commit queue: drain at the read pointer, then the commit overwrites the
\* slot at the write pointer with whatever the speculative head holds.
store_if(commit, gnt) ==
  LET drained == IF Drained(gnt)
                 THEN [commit_queue EXCEPT ![commit_rd] = Empty] ELSE commit_queue
      cnt1    == IF Drained(gnt) THEN CntDown(commit_cnt, DEPTH_COMMIT)
                                 ELSE commit_cnt
  IN  /\ commit_queue' = IF commit
                         THEN [drained EXCEPT ![commit_wr] = spec_queue[spec_rd]]
                         ELSE drained
      /\ commit_rd' = IF Drained(gnt) THEN Inc(commit_rd, DEPTH_COMMIT)
                                      ELSE commit_rd
      /\ commit_wr' = IF commit THEN Inc(commit_wr, DEPTH_COMMIT) ELSE commit_wr
      /\ commit_cnt' = IF commit THEN CntUp(cnt1, DEPTH_COMMIT) ELSE cnt1

\* One clock edge.
StoreBufferCycle(store, commit, flush, gnt) ==
  /\ core_if(store, commit, flush)
  /\ store_if(commit, gnt)

----------------------------------------------------------------------------
(***************************************************************************)
(* The buffer as an open component.  Contract is the conjunction of the    *)
(* four assertions at the end of store_buffer.sv: what the buffer expects  *)
(* of the store unit and the commit stage.  Module StoreUnit composes the  *)
(* buffer with these clients and checks what they really do.               *)
(***************************************************************************)
Contract(store, commit, flush) ==
  /\ flush => ~commit
  /\ spec_cnt = DEPTH_SPEC => store = Empty
  /\ spec_cnt = 0 => ~commit
  /\ commit_cnt = DEPTH_COMMIT => ~commit

ContractCycle(store, commit, flush, gnt) ==
  /\ Contract(store, commit, flush)
  /\ StoreBufferCycle(store, commit, flush, gnt)

SBNext ==
  \E store \in Store \cup {Empty}, commit, flush, gnt \in BOOLEAN :
    ContractCycle(store, commit, flush, gnt)

SBSpec == StoreBufferInit /\ [][SBNext]_sbVars

----------------------------------------------------------------------------
\* Refinement views: the two rings read from the read pointer.

Slot(rd, i, depth) == IF rd + i < depth THEN rd + i ELSE rd + i - depth

SpecSeq   == [i \in 1 .. spec_cnt |-> spec_queue[Slot(spec_rd, i - 1, DEPTH_SPEC)]]
CommitSeq == [i \in 1 .. commit_cnt |->
                 commit_queue[Slot(commit_rd, i - 1, DEPTH_COMMIT)]]

(***************************************************************************)
(* Properties.                                                             *)
(***************************************************************************)

\* Type correctness of the eight registers of the buffer.
SBTypeOK ==
  /\ spec_queue \in [Slots(DEPTH_SPEC) -> Store \cup {Empty}]
  /\ spec_rd \in Slots(DEPTH_SPEC)
  /\ spec_wr \in Slots(DEPTH_SPEC)
  /\ spec_cnt \in 0 .. DEPTH_SPEC
  /\ commit_queue \in [Slots(DEPTH_COMMIT) -> Store \cup {Empty}]
  /\ commit_rd \in Slots(DEPTH_COMMIT)
  /\ commit_wr \in Slots(DEPTH_COMMIT)
  /\ commit_cnt \in 0 .. DEPTH_COMMIT

\* A ring's three views of its contents agree: walking from the read pointer,
\* exactly the first cnt slots are valid, and the write pointer is the slot
\* behind them.
RingOK(queue, rd, wr, cnt, depth) ==
  /\ wr = Slot(rd, IF cnt = depth THEN 0 ELSE cnt, depth)
  /\ \A i \in Slots(depth) : (queue[Slot(rd, i, depth)] # Empty) <=> (i < cnt)

\* After any sequence of pushes, commits, drains and flushes the valid bits,
\* the pointers and the status counters of both queues of store_buffer.sv
\* still describe the same contents: no slot is leaked, lost or read twice.
RingsConsistent ==
  /\ RingOK(spec_queue, spec_rd, spec_wr, spec_cnt, DEPTH_SPEC)
  /\ RingOK(commit_queue, commit_rd, commit_wr, commit_cnt, DEPTH_COMMIT)

\* The ring buffers implement the two FIFO queues of module StoreQueue.
Abstract == INSTANCE StoreQueue WITH
  speculative <- SpecSeq, committed <- CommitSeq,
  SpecBound <- DEPTH_SPEC, CommitBound <- DEPTH_COMMIT

\* Every behaviour of the buffer is a behaviour of the two-FIFO specification: stores are committed and drained in push order,
\* and a flush (store_buffer.sv, core_if) drops speculative stores only.
ImplementsStoreQueue == Abstract!Spec

\* no_st_pending_o, on which FENCE, FENCE.I and SFENCE.VMA wait in the commit
\* stage, cannot be withheld for ever by a pending store: if commits stop, the
\* commit queue empties.
DrainsWhenQuiet == <>[][commit_wr' = commit_wr]_commit_wr => []<>no_st_pending_o
============================================================================
