----------------------------- MODULE StoreUnit -----------------------------
(***************************************************************************)
(* The store path of the load/store unit composed: the store unit's FSM    *)
(* (src/store_unit.sv), the store buffer it fills (module StoreBuffer),    *)
(* the one-entry AMO buffer (src/amo_buffer.sv), and the parts of the      *)
(* commit stage, the controller and the data cache that talk to them.      *)
(*                                                                         *)
(* One step is one clock cycle.  A store or AMO is a record; its id is its *)
(* position in the order of issue, so an instruction that is flushed and   *)
(* executed again has a new id.                                            *)
(***************************************************************************)
EXTENDS StoreBuffer, Sequences

CONSTANTS
  MaxOps,            \* bound: how many stores and AMOs are issued to the unit
  AmoInterruptible,  \* may an interrupt or a debug request meet an AMO that is
                     \* waiting in the commit stage?
  StepOverStores     \* may the debugger single-step over a store?

Ops == [id : Store, amo : BOOLEAN]

ASSUME StoreUnitAssumption ==
  /\ MaxOps \in Nat
  /\ Store = 1 .. MaxOps
  /\ Empty \notin Ops
  /\ AmoInterruptible \in BOOLEAN
  /\ StepOverStores \in BOOLEAN

VARIABLES
  state_q,     \* FSM state of the store unit
  op_q,        \* the operation registered in the previous cycle
  amo_buf,     \* the AMO buffer: an AMO, or Empty
  head,        \* the store at the output of the LSU bypass FIFO, or Empty
  issued,      \* number of operations issued so far
  order,       \* operations written back and not yet retired, oldest first
  at_commit,   \* the oldest of them is the instruction at commit port 0
  dc_amo,      \* the data cache is executing the AMO
  retired,     \* ids of the stores and AMOs retired, in order
  flushed,     \* the last operation issued before the last flush
  mem          \* ids of the stores and AMOs performed in memory, in order

unitVars == <<state_q, op_q, amo_buf>>
envVars  == <<head, issued, order, at_commit, dc_amo, retired, flushed, mem>>
vars     == <<sbVars, unitVars, envVars>>

Init ==
  /\ StoreBufferInit
  /\ state_q = "IDLE" /\ op_q = Empty /\ amo_buf = Empty
  /\ head = Empty /\ issued = 0
  /\ order = <<>> /\ at_commit = FALSE /\ dc_amo = FALSE
  /\ retired = <<>> /\ flushed = 0 /\ mem = <<>>

----------------------------------------------------------------------------
\* Commit stage and controller.

Oldest       == order[1]
StoreAtPort0 == at_commit /\ ~Oldest.op.amo
AmoAtPort0   == at_commit /\ Oldest.op.amo

\* amo_valid_commit_o is raised whatever interrupt or debug request is pending.
amo_valid_commit == AmoAtPort0 /\ ~Oldest.ex

commit_lsuAlways(trap) == StoreAtPort0 /\ ~Oldest.ex /\ ~trap
\* A non-AMO store is committed unless it is trapped or the buffer is full.
commit_lsu(trap) == StoreAtPort0 /\ ~Oldest.ex /\ ~trap /\ commit_ready_o

\* commit_ack_o[0] for an instruction that retires without an exception.
Retires(trap, ack) == commit_lsu(trap) \/ (amo_valid_commit /\ ack)

(***************************************************************************)
(* flush_ex_o of the controller.  With a store or AMO at commit port 0 the *)
(* pipeline is flushed for its exception, for an interrupt or debug        *)
(* request (trap), or because it retires while dcsr.step is set; otherwise *)
(* (other) an older instruction of another kind may flush.                 *)
(***************************************************************************)
flush_ex(trap, step, other, ack) ==
  IF at_commit THEN Oldest.ex \/ trap \/ (step /\ Retires(trap, ack)) ELSE other

----------------------------------------------------------------------------
\* Store unit FSM.

st_ready(commit) == ready_o(commit) /\ amo_buf = Empty

\* The unit looks at the head of the bypass FIFO.  Directly behind another
\* store an AMO is not taken, for the AMO buffer has only one entry.
Accepts ==
  /\ head # Empty
  /\ \/ state_q = "IDLE"
     \/ state_q = "VALID_STORE" /\ ~head.amo

\* An exception of the MMU is for the request of the previous cycle.
Faults(ex) == ex /\ state_q # "IDLE"

state_dNoFlush(hit, ex, commit, flush) ==
  IF Faults(ex) \/ ~Accepts THEN "IDLE"
  ELSE IF ~st_ready(commit) THEN "WAIT_STORE_READY"
  ELSE IF hit THEN "VALID_STORE" ELSE "WAIT_TRANSLATION"

state_dNoRequest(hit, ex, commit, flush) ==
  IF flush \/ Faults(ex) THEN "IDLE"
  ELSE IF Accepts /\ ~st_ready(commit) THEN "WAIT_STORE_READY"
  ELSE IF Accepts THEN (IF hit THEN "VALID_STORE" ELSE "WAIT_TRANSLATION")
  ELSE IF state_q = "WAIT_STORE_READY" THEN state_q
  ELSE IF state_q = "WAIT_TRANSLATION" /\ ~hit THEN state_q
  ELSE "IDLE"

state_d(hit, ex, commit, flush) ==
  IF flush \/ Faults(ex) THEN "IDLE"
  ELSE IF Accepts /\ ~st_ready(commit) THEN "WAIT_STORE_READY"
  ELSE IF Accepts THEN (IF hit THEN "VALID_STORE" ELSE "WAIT_TRANSLATION")
  ELSE IF state_q = "WAIT_STORE_READY" /\ ~(st_ready(commit) /\ hit) THEN state_q
  ELSE IF state_q = "WAIT_TRANSLATION" /\ ~hit THEN state_q
  ELSE "IDLE"

\* After an exception the code pops whatever is at the head of the FIFO.
pop_st(hit, ex, commit) == (Accepts /\ st_ready(commit) /\ hit) \/ Faults(ex)

\* Write-back to the scoreboard, and the push into one of the two buffers.
valid_o(ex)         == state_q = "VALID_STORE" \/ Faults(ex)
st_valid(ex, flush) == state_q = "VALID_STORE" /\ ~flush /\ ~ex

store_buffer_store(ex, flush) ==
  IF st_valid(ex, flush) /\ ~op_q.amo THEN op_q.id ELSE Empty

----------------------------------------------------------------------------
\* AMO buffer.

amo_reqDontWait    == amo_valid_commit /\ amo_buf # Empty
\* The AMO is sent to the data cache when it is the instruction to commit and
\* every committed store has left the store buffer.
amo_req            == no_st_pending_o /\ amo_valid_commit /\ amo_buf # Empty

\* The acknowledge pops; a flush clears the buffer only while the AMO is not
\* in the commit stage; a push into the full FIFO is dropped (fifo_v3).
amo_buffer(ex, flush, ack) ==
  amo_buf' = IF flush /\ ~amo_valid_commit THEN Empty
             ELSE IF st_valid(ex, flush) /\ op_q.amo /\ amo_buf = Empty THEN op_q
             ELSE IF ack THEN Empty
             ELSE amo_buf

----------------------------------------------------------------------------
\* What surrounds the unit.

\* The LSU bypass FIFO: the next operation, if any, shows up at its head.
Bypass(pop, flush) ==
  LET freed == pop \/ flush \/ head = Empty
  IN  \/ /\ head' = IF freed THEN Empty ELSE head
         /\ issued' = issued
      \/ /\ freed /\ issued < MaxOps
         /\ \E amo \in BOOLEAN : head' = [id |-> issued + 1, amo |-> amo]
         /\ issued' = issued + 1

\* Scoreboard and commit port 0.  Once a valid instruction is at the commit
\* port it stays there until it retires or is flushed.
Scoreboard(ex, trap, flush, ack) ==
  LET rest == IF Retires(trap, ack) THEN Tail(order) ELSE order
      done == IF valid_o(ex) THEN <<[op |-> op_q, ex |-> Faults(ex)]>> ELSE <<>>
  IN  /\ order' = IF flush THEN <<>> ELSE rest \o done
      /\ at_commit' \in IF order' = <<>> THEN {FALSE}
                        ELSE IF at_commit /\ ~Retires(trap, ack) THEN {TRUE}
                        ELSE BOOLEAN
      /\ retired' = IF Retires(trap, ack) THEN Append(retired, Oldest.op.id)
                                          ELSE retired
      /\ flushed' = IF flush THEN issued ELSE flushed

\* The data cache: stores take effect at the grant; an AMO that was accepted
\* is carried out even if amo_req is withdrawn.
DCache(gnt, ack) ==
  /\ dc_amo' \in IF dc_amo THEN {~ack} ELSE {FALSE, amo_req}
  /\ mem' = mem \o (IF Drained(gnt) THEN <<commit_queue[commit_rd]>> ELSE <<>>)
                \o (IF ack THEN <<amo_buf.id>> ELSE <<>>)

----------------------------------------------------------------------------
\* One clock cycle.  hit, ex: answers of the MMU; gnt, ack: answers of the
\* data cache; trap, step, other: what the commit stage decides.
Cycle(hit, ex, gnt, ack, trap, step, other) ==
  LET commit == commit_lsu(trap)
      flush  == flush_ex(trap, step, other, ack)
  IN  /\ StoreBufferCycle(store_buffer_store(ex, flush), commit, flush, gnt)
      /\ state_q' = state_d(hit, ex, commit, flush)
      /\ op_q' = head
      /\ amo_buffer(ex, flush, ack)
      /\ Bypass(pop_st(hit, ex, commit), flush)
      /\ Scoreboard(ex, trap, flush, ack)
      /\ DCache(gnt, ack)

\* What the rest of the core may do in a cycle: an input is raised only where
\* it means something.  The two constants restrict traps and single steps; with
\* both TRUE nothing in the code is excluded.
Allowed(hit, ex, gnt, ack, trap, step, other) ==
  /\ hit   => head # Empty
  /\ ex    => state_q # "IDLE"
  /\ gnt   => data_req
  /\ ack   => dc_amo /\ amo_buf # Empty
  /\ trap  => at_commit /\ (amo_valid_commit => AmoInterruptible)
  /\ step  => at_commit /\ (StoreAtPort0 => StepOverStores)
  /\ other => ~at_commit

Next ==
  \E hit, ex, gnt, ack, trap, step, other \in BOOLEAN :
    /\ Allowed(hit, ex, gnt, ack, trap, step, other)
    /\ Cycle(hit, ex, gnt, ack, trap, step, other)

Spec == Init /\ [][Next]_vars

\* The cycles without a fault, a trap or a flush; in which the data cache
\* grants a store, takes an AMO, acknowledges one; in which the oldest
\* written-back store or AMO comes up for commit; in which it is not stopped
\* there; in which the store at the head finds room and a TLB entry.
Ticks == \E hit, gnt, ack \in BOOLEAN :
  /\ Allowed(hit, FALSE, gnt, ack, FALSE, FALSE, FALSE)
  /\ Cycle(hit, FALSE, gnt, ack, FALSE, FALSE, FALSE)
Grants == \E hit, ex, ack, trap, step, other \in BOOLEAN :
  /\ Allowed(hit, ex, TRUE, ack, trap, step, other)
  /\ Cycle(hit, ex, TRUE, ack, trap, step, other)
TakesAmo == amo_req /\ ~dc_amo /\ Next /\ dc_amo'
Acknowledges == \E hit, ex, gnt, trap, step, other \in BOOLEAN :
  /\ Allowed(hit, ex, gnt, TRUE, trap, step, other)
  /\ Cycle(hit, ex, gnt, TRUE, trap, step, other)
ComesUp == order # <<>> /\ Next /\ at_commit'
GoesOn == at_commit /\ \E hit, ex, gnt, ack, step \in BOOLEAN :
  /\ Allowed(hit, ex, gnt, ack, FALSE, step, FALSE)
  /\ Cycle(hit, ex, gnt, ack, FALSE, step, FALSE)
Hits == Accepts /\ \E ex, gnt, ack, trap, step, other \in BOOLEAN :
  /\ st_ready(commit_lsu(trap))
  /\ Allowed(TRUE, ex, gnt, ack, trap, step, other)
  /\ Cycle(TRUE, ex, gnt, ack, trap, step, other)

(***************************************************************************)
(* The clock ticks; the data cache grants every store and carries out      *)
(* every AMO in the end; instructions that are written back reach the      *)
(* commit port and are not stopped there for ever; a translation, once     *)
(* walked, is found in the TLB when the unit asks again.                   *)
(***************************************************************************)
Fairness ==
  /\ WF_vars(Ticks) /\ WF_vars(Grants) /\ WF_vars(TakesAmo) /\ WF_vars(Acknowledges)
  /\ WF_vars(ComesUp) /\ WF_vars(GoesOn) /\ SF_vars(Hits)

FairSpec == Spec /\ Fairness

----------------------------------------------------------------------------
(***************************************************************************)
(* Properties.                                                             *)
(***************************************************************************)

\* Types of the registers of the store unit and of its surroundings.
TypeOK ==
  /\ SBTypeOK
  /\ state_q \in {"IDLE", "VALID_STORE", "WAIT_TRANSLATION", "WAIT_STORE_READY"}
  /\ op_q \in Ops \cup {Empty} /\ amo_buf \in Ops \cup {Empty}
  /\ head \in Ops \cup {Empty} /\ issued \in 0 .. MaxOps
  /\ order \in Seq([op : Ops, ex : BOOLEAN])
  /\ at_commit \in BOOLEAN /\ dc_amo \in BOOLEAN
  /\ retired \in Seq(Store) /\ flushed \in 0 .. MaxOps /\ mem \in Seq(Store)

\* store_unit.sv checks for room one cycle before it pushes (st_ready in IDLE,
\* st_valid in VALID_STORE), without reserving it: when the push happens there
\* is still a free slot in the store buffer, or in the AMO buffer.
PushFindsRoom ==
  state_q = "VALID_STORE" => IF op_q.amo THEN amo_buf = Empty
                                         ELSE spec_cnt < DEPTH_SPEC

Ascending(s) == \A i, j \in DOMAIN s : i < j => s[i] < s[j]

\* Written back, without an exception, and not yet retired.
Waiting(amo) == {i \in DOMAIN order : order[i].op.amo = amo /\ ~order[i].ex}

\* commit_i carries no transaction id: the store buffer commits its own
\* oldest entry.  The speculative queue and the AMO buffer hold exactly the
\* written-back stores and AMOs that are waiting to retire, both queues in the
\* order in which the operations were issued.
BuffersMatchScoreboard ==
  /\ {SpecSeq[i] : i \in DOMAIN SpecSeq} = {order[i].op.id : i \in Waiting(FALSE)}
  /\ {order[i].op : i \in Waiting(TRUE)} = IF amo_buf = Empty THEN {} ELSE {amo_buf}
  /\ Ascending(SpecSeq) /\ Ascending([i \in DOMAIN order |-> order[i].op.id])

\* Memory sees exactly the retired stores and AMOs, each once, in the order
\* in which they retired; those not yet performed are the commit queue.
MemoryFollowsRetirement == mem \o CommitSeq = retired

\* A flush reaches every place a store can be in: the bypass FIFO, the FSM of
\* the store unit, both buffers.  No store issued before the last flush and
\* not retired by then is still on its way.
NoFlushedStoreSurvives ==
  /\ head # Empty => head.id > flushed
  /\ state_q # "IDLE" => op_q.id > flushed
  /\ amo_buf # Empty => amo_buf.id > flushed
  /\ \A i \in DOMAIN SpecSeq : SpecSeq[i] > flushed

\* The queues are what the rest of the pipeline takes them for: room for the
\* push that was promised, the stores that wait to retire, and none besides.
BuffersConsistent ==
  TypeOK /\ PushFindsRoom /\ BuffersMatchScoreboard /\ NoFlushedStoreSurvives

\* The four assertions at the end of store_buffer.sv hold in every cycle the
\* store unit and the commit stage can produce.
AssertionsHold ==
  \A ex, ack, trap, step, other \in BOOLEAN :
    Allowed(FALSE, ex, FALSE, ack, trap, step, other) =>
      LET flush == flush_ex(trap, step, other, ack)
      IN  Contract(store_buffer_store(ex, flush), commit_lsu(trap), flush)

\* "we are not jumping to debug while committing an AMO" (commit_stage.sv): an
\* AMO that the data cache executes is the instruction at the commit port.
AmoNotAbandoned == dc_amo => amo_valid_commit

\* No store waits for ever in front of the store unit: it is accepted, it
\* faults, or it is flushed.
EveryStoreAccepted ==
  \A i \in Store : (head # Empty /\ head.id = i) ~> (head = Empty \/ head.id # i)
============================================================================
