----------------------------- MODULE IssueStage -----------------------------
(***************************************************************************)
(* The issue stage: register re-naming (src/re_name.sv), the scoreboard    *)
(* (src/scoreboard.sv), operand read and issue (src/issue_read_operands.sv)*)
(* with the register file, between the ID register (src/id_stage.sv), the  *)
(* functional units (src/ex_stage.sv, mult.sv, serdiv.sv, csr_buffer.sv,   *)
(* branch_unit.sv) and the two commit ports (src/commit_stage.sv).         *)
(*                                                                         *)
(* One step is one clock cycle.  A value is abstracted to one bit: it is   *)
(* the one program order calls for, or not.  The payload of a scoreboard   *)
(* entry whose issued bit is clear is dropped: no unit ever writes to such *)
(* an entry (InFlightIssued).                                              *)
(***************************************************************************)
EXTENDS Naturals, FiniteSets

CONSTANTS
  NR_ENTRIES,      \* scoreboard entries, a power of two
  ENABLE_RENAME,   \* ariane_pkg: give every register two names?
  Regs,            \* general purpose registers, 0 among them
  Instrs,          \* instructions as the decoder hands them over
  None

ASSUME IssueAssumption ==
  /\ NR_ENTRIES \in Nat \ {0, 1}
  /\ \E k \in 0 .. NR_ENTRIES : NR_ENTRIES = 2 ^ k
  /\ ENABLE_RENAME \in BOOLEAN
  /\ 0 \in Regs

\* Functional units.  MULT and DIV share fu MULT, STORE and AMO fu STORE, CSR
\* and FENCE (FENCE, FENCE.I, SFENCE.VMA) fu CSR.
Fus    == {"ALU", "CTRL_FLOW", "MULT", "DIV", "LOAD", "STORE", "AMO", "CSR", "FENCE"}
IsCsr  == {"CSR", "FENCE"}
IsMult == {"MULT", "DIV"}
IsLsu  == {"LOAD", "STORE", "AMO"}

Instruction == [fu : Fus, rd : Regs, rs1 : Regs, rs2 : Regs, ex : BOOLEAN]
Names       == Regs \X {0, 1}
Ids         == 0 .. NR_ENTRIES - 1
Free        == [issued |-> FALSE]

\* None is no instruction, entry, unit or instruction in a unit.
ASSUME InstrAssumption ==
  /\ Instrs \subseteq Instruction
  /\ None \notin Instruction /\ None \notin Ids /\ None \notin Fus
  /\ None \notin [fu : Fus, id : Ids]

VARIABLES
  issue_q,         \* ID register: the next instruction to issue, or None
  mem,             \* scoreboard entries
  issue_pointer, commit_pointer, issue_cnt,
  re_name_table,
  regfile,         \* per register: does it hold the value retired last?
  fu_q,            \* ID/EX register: the instruction in its unit, or None
  mul_q, div_q,    \* transaction id in the multiplier, in the divider, or None
  csr_q,           \* CSR buffer: valid bit and whose address it holds
  lsu              \* transaction ids in the load/store unit

sbVars == <<mem, issue_pointer, commit_pointer, issue_cnt>>
vars   == <<issue_q, sbVars, re_name_table, regfile, fu_q, mul_q, div_q, csr_q, lsu>>

Init ==
  /\ issue_q = None
  /\ mem = [i \in Ids |-> Free]
  /\ issue_pointer = 0 /\ commit_pointer = 0 /\ issue_cnt = 0
  /\ re_name_table = [r \in Regs |-> 0]
  /\ regfile = [r \in Regs |-> TRUE]
  /\ fu_q = None /\ mul_q = None /\ div_q = None
  /\ csr_q = [valid |-> FALSE, id |-> None]
  /\ lsu = {}

Plus(i, n)  == (i + n) % NR_ENTRIES
Minus(i, n) == (i + NR_ENTRIES - n) % NR_ENTRIES

InUnit(fus) == fu_q # None /\ fu_q.fu \in fus

----------------------------------------------------------------------------
\* Re-naming: the name bit a source has, and the one the destination gets.

name_bit(bit) == IF ENABLE_RENAME THEN bit ELSE 0
Source(r)     == <<r, name_bit(re_name_table[r])>>
DestinationSame(r) == <<r, name_bit(re_name_table[r])>>
Destination(r) == <<r, name_bit(IF r = 0 THEN 0 ELSE 1 - re_name_table[r])>>

re_name(issue, flush) ==
  re_name_table' =
    IF flush THEN [r \in Regs |-> 0]
    ELSE IF issue /\ issue_q.rd # 0
    THEN [re_name_table EXCEPT ![issue_q.rd] = 1 - @] ELSE re_name_table

----------------------------------------------------------------------------
(***************************************************************************)
(* Write-back.  A write-back is a record [port, id, ex, good]; wbs is the  *)
(* set of them in a cycle.  good: the value is the result.  A store        *)
(* writes back zero, also for an AMO, and a CSR instruction its operand.   *)
(***************************************************************************)
mult_valid(div_done) == mul_q # None \/ (div_q # None /\ div_done)

\* The fixed latency units share one port; the multiplexer lets the ALU and
\* the CSR buffer win over the multiplier, and the multiplier over a branch.
flu_wb(div_done, misaligned) ==
  IF InUnit({"ALU"} \cup IsCsr)
  THEN {[port |-> 3, id |-> fu_q.id, ex |-> FALSE, good |-> fu_q.fu = "ALU"]}
  ELSE IF mult_valid(div_done)
  THEN {[port |-> 3, id |-> IF mul_q # None THEN mul_q ELSE div_q, ex |-> FALSE,
          good |-> TRUE]}
  ELSE IF InUnit({"CTRL_FLOW"}) 
  THEN {[port |-> 3, id |-> fu_q.id, ex |-> misaligned, good |-> TRUE]}
  ELSE {}

\* done: the loads and stores that complete, at most one of each.
lsu_wb(done, faults) ==
  {[port |-> IF mem[i].fu = "LOAD" THEN 2 ELSE 1, id |-> i, ex |-> i \in faults,
    good |-> mem[i].fu = "LOAD"] : i \in done}

WrittenBack(i, wbs) ==
  IF mem[i].issued /\ \E w \in wbs : w.id = i
  THEN LET w == CHOOSE w \in wbs : w.id = i
       IN  [mem[i] EXCEPT !.valid = TRUE, !.ex = @ \/ w.ex, !.good = w.good]
  ELSE mem[i]

----------------------------------------------------------------------------
\* Operand read.

Last(s) == CHOOSE i \in s : \A j \in s : j <= i

Writers(name) == {i \in Ids : mem[i].issued /\ mem[i].rd = name}

\* rd_clobber: the unit that is going to write the register, x0 excepted.
rd_clobber(name) ==
  IF name[1] = 0 \/ Writers(name) = {} THEN None ELSE mem[Last(Writers(name))].fu

\* What the scoreboard offers for an operand: a written-back entry ...
FromEntry(name) ==
  LET i == Last(Writers(name))
  IN  IF Writers(name) = {} \/ ~mem[i].valid THEN None
      ELSE [id |-> i, good |-> mem[i].good /\ ~mem[i].ex]

\* ... or the value on a write-back port.  The search ends at the first port
\* that matches either operand, and what serves rs1 does not serve rs2.
FirstPort(names, wbs) ==
  LET ws == {w \in wbs : mem[w.id].rd \in names /\ ~w.ex}
  IN  IF ws = {} THEN None ELSE CHOOSE w \in ws : \A v \in ws : w.port <= v.port

Offer(name, other, wbs) ==
  LET w == FirstPort({name, other}, wbs)
  IN  IF name[1] = 0 THEN None
      ELSE IF w # None /\ mem[w.id].rd = name THEN [id |-> w.id, good |-> w.good]
      ELSE FromEntry(name)

rs1_offer(wbs) == Offer(Source(issue_q.rs1), Source(issue_q.rs2), wbs)
rs2_offer(wbs) == IF issue_q.rs1 = issue_q.rs2 THEN None
                  ELSE Offer(Source(issue_q.rs2), Source(issue_q.rs1), wbs)

ForwardableAny(name, offer) == offer # None
Forwardable(name, offer) == offer # None /\ rd_clobber(name) \notin IsCsr
Stalls(name, offer) == rd_clobber(name) # None /\ ~Forwardable(name, offer)

\* The operand handed on is the one program order calls for: the result of the
\* youngest writer of the register in flight, or else the register file.
Right(r, name, offer) ==
  LET age(i)   == Minus(i, commit_pointer)
      writers  == {i \in Ids : mem[i].issued /\ mem[i].rd[1] = r}
      youngest == CHOOSE i \in writers : \A j \in writers : age(j) <= age(i)
  IN  \/ r = 0
      \/ IF rd_clobber(name) # None
         THEN writers # {} /\ offer.id = youngest /\ offer.good
         ELSE writers = {} /\ regfile[r]
----------------------------------------------------------------------------
(***************************************************************************)
(* Commit ports.  outcome says what happens to the instruction at port 0:  *)
(*   halt    nothing, the core is halted or the entry is not valid         *)
(*   wait    it is not ready (a store, AMO or fence waiting for memory)    *)
(*   retire  it retires                                                    *)
(*   single  it retires alone (dcsr.step set, or a data cache flush)       *)
(*   flush   it retires and the pipeline is flushed behind it              *)
(*   trap    an exception, interrupt or debug request flushes the pipeline *)
(***************************************************************************)
Port0 == mem[commit_pointer]
Port1 == mem[Plus(commit_pointer, 1)]

ValidAt(e) == e.issued /\ e.valid

OutcomesNoTrap ==
  {"halt"} \cup
  (IF ~ValidAt(Port0) \/ Port0.ex THEN {}
   ELSE (CASE Port0.fu \in {"STORE", "AMO"} -> {"wait", "retire", "single", "flush"}
           [] Port0.fu = "FENCE"            -> {"wait", "flush"}
           [] OTHER                         -> {"retire", "single", "flush"})
        \cup {"trap"})

Outcomes ==
  {"halt"} \cup
  (IF ~ValidAt(Port0) THEN {}
   ELSE IF Port0.ex THEN {"trap"}
   ELSE (CASE Port0.fu \in {"STORE", "AMO"} -> {"wait", "retire", "single", "flush"}
           [] Port0.fu = "FENCE"            -> {"wait", "flush"}
           [] OTHER                         -> {"retire", "single", "flush"})
        \cup {"trap"})

ack0(outcome) == outcome \in {"retire", "single", "flush"}

\* The second port takes no store, AMO or CSR instruction, and nothing behind a
\* CSR instruction or in single-step mode.
ack1(outcome) ==
  /\ outcome = "retire" /\ ValidAt(Port1) /\ ~Port1.ex
  /\ Port0.fu \notin IsCsr
  /\ Port1.fu \in {"ALU", "LOAD", "CTRL_FLOW", "MULT", "DIV"}

Retiring(outcome) ==
  {i \in Ids : \/ ack0(outcome) /\ i = commit_pointer
               \/ ack1(outcome) /\ i = Plus(commit_pointer, 1)}

commit_csr(outcome) == ValidAt(Port0) /\ Port0.fu \in IsCsr /\ outcome # "halt"

flush_id(outcome) == outcome \in {"flush", "trap"}

WriteDataResult(e) == e.good
\* wdata: a CSR instruction and an AMO bring their value to the commit stage.
WriteData(e) == e.good \/ e.fu \in {"CSR", "AMO"}

\* Two writes to one register: the second port wins.  x0 stays zero.
register_write(outcome) ==
  LET at0(r) == ack0(outcome) /\ Port0.rd[1] = r
      at1(r) == ack1(outcome) /\ Port1.rd[1] = r
  IN  regfile' = [r \in Regs |-> IF r = 0 THEN TRUE
                                 ELSE IF at1(r) THEN WriteData(Port1)
                                 ELSE IF at0(r) THEN WriteData(Port0) ELSE regfile[r]]

----------------------------------------------------------------------------
\* Issue.

issue_full == issue_cnt = NR_ENTRIES - 1

csr_ready(outcome) == ~(csr_q.valid \/ InUnit(IsCsr)) \/ commit_csr(outcome)
mult_ready == div_q = None /\ ~InUnit({"DIV"})

fu_busy(outcome, lsu_ready) ==
  IF issue_q.fu \in IsLsu THEN ~lsu_ready ELSE ~(csr_ready(outcome) /\ mult_ready)

WawFreeNever(outcome) == TRUE
\* No other writer of the destination, or one that retires in this cycle; the
\* commit ports give a register without its name bit.
WawFree(outcome) ==
  LET name == Destination(issue_q.rd)
  IN  \/ rd_clobber(name) = None
      \/ \E i \in Retiring(outcome) : <<mem[i].rd[1], 0>> = name

\* The multiplier's result will be on the port of the fixed latency units.
MultBlocks == InUnit(IsMult) /\ issue_q.fu \notin IsMult

issue_ack(outcome, lsu_ready, wbs) ==
  /\ issue_q # None /\ ~issue_full /\ ~MultBlocks
  /\ \/ issue_q.ex
     \/ /\ ~Stalls(Source(issue_q.rs1), rs1_offer(wbs))
        /\ ~Stalls(Source(issue_q.rs2), rs2_offer(wbs))
        /\ ~fu_busy(outcome, lsu_ready)
        /\ WawFree(outcome)

OperandsRight(wbs) ==
  /\ Right(issue_q.rs1, Source(issue_q.rs1), rs1_offer(wbs))
  /\ Right(issue_q.rs2, Source(issue_q.rs2), rs2_offer(wbs))

NewEntry(wbs) ==
  [issued |-> TRUE, valid |-> issue_q.ex, fu |-> issue_q.fu,
   rd |-> Destination(issue_q.rd), ex |-> issue_q.ex, good |-> FALSE,
   ok |-> issue_q.ex \/ OperandsRight(wbs)]

\* The scoreboard's FIFO: issue, write back, commit, flush, in this order.
issue_fifo(issue, outcome, wbs) ==
  LET retired == Cardinality(Retiring(outcome))
      flush   == flush_id(outcome)
  IN  /\ mem' = [i \in Ids |->
                   IF flush \/ i \in Retiring(outcome) THEN Free
                   ELSE IF issue /\ i = issue_pointer THEN NewEntry(wbs)
                   ELSE WrittenBack(i, wbs)]
      /\ issue_pointer' = IF flush THEN 0
                          ELSE IF issue THEN Plus(issue_pointer, 1) ELSE issue_pointer
      /\ commit_pointer' = IF flush THEN 0 ELSE Plus(commit_pointer, retired)
      /\ issue_cnt' = IF flush THEN 0
                      ELSE Minus(IF issue THEN Plus(issue_cnt, 1) ELSE issue_cnt, retired)

----------------------------------------------------------------------------
\* Functional units.  A flush empties them; an instruction in its unit in the
\* cycle of a flush is not taken into the multiplier, divider or LSU.

unit_valid(issue) ==
  fu_q' = IF issue /\ ~issue_q.ex
          THEN [fu |-> issue_q.fu, id |-> issue_pointer] ELSE None

multNoFlush(div_done, flush) ==
  /\ mul_q' = IF InUnit({"MULT"}) THEN fu_q.id ELSE None
  /\ div_q' = IF div_q # None /\ div_done /\ mul_q = None THEN None
              ELSE IF InUnit({"DIV"}) /\ div_q = None THEN fu_q.id ELSE div_q
mult(div_done, flush) ==
  /\ mul_q' = IF InUnit({"MULT"}) /\ ~flush THEN fu_q.id ELSE None
  /\ div_q' = IF flush THEN None
              ELSE IF div_q # None /\ div_done /\ mul_q = None THEN None
              ELSE IF InUnit({"DIV"}) /\ div_q = None THEN fu_q.id ELSE div_q

csr_bufferStuck(outcome) ==
  csr_q' = [valid |-> ~flush_id(outcome) /\ (InUnit(IsCsr) \/ csr_q.valid),
            id    |-> IF flush_id(outcome) THEN None
                      ELSE IF InUnit(IsCsr) THEN fu_q.id ELSE csr_q.id]
csr_buffer(outcome) ==
  csr_q' = [valid |-> /\ ~flush_id(outcome)
                      /\ InUnit(IsCsr) \/ (csr_q.valid /\ ~commit_csr(outcome)),
            id    |-> IF flush_id(outcome) THEN None
                      ELSE IF InUnit(IsCsr) THEN fu_q.id ELSE csr_q.id]

load_store_unit(done, flush) ==
  lsu' = IF flush THEN {}
         ELSE (lsu \ done) \cup (IF InUnit(IsLsu) THEN {fu_q.id} ELSE {})

\* The ID register is emptied by every flush and by a misprediction.
id_stage(ack, flush_if) ==
  issue_q' \in IF flush_if THEN {None}
               ELSE IF issue_q = None \/ ack THEN Instrs \cup {None}
               ELSE {issue_q}

----------------------------------------------------------------------------
\* One clock cycle.  A misprediction comes from the instruction in its unit (a
\* branch, or any other the predictor took for one) and drops the instruction
\* that is being issued.
Cycle(outcome, lsu_ready, mispredict, misaligned, div_done, done, faults) ==
  LET wbs   == flu_wb(div_done, misaligned) \cup lsu_wb(done, faults)
      flush == flush_id(outcome)
      ack   == issue_ack(outcome, lsu_ready, wbs)
      issue == ack /\ ~mispredict /\ ~flush
  IN  /\ issue_fifo(issue, outcome, wbs)
      /\ re_name(issue, flush)
      /\ register_write(outcome)
      /\ unit_valid(issue)
      /\ mult(div_done, flush)
      /\ csr_buffer(outcome)
      /\ load_store_unit(done, flush)
      /\ id_stage(ack, flush \/ mispredict)

\* At most one load and one store leave the load/store unit in a cycle.
Completions ==
  {s \in SUBSET lsu : /\ Cardinality(s) <= 2
                      /\ \A i, j \in s : i # j => ((mem[i].fu = "LOAD") # (mem[j].fu = "LOAD"))}

\* The inputs that mean something; lsu_ready is looked at for fu LOAD and STORE.
Allowed(lsu_ready, mispredict, misaligned, div_done) ==
  /\ lsu_ready => issue_q # None /\ issue_q.fu \in IsLsu
  /\ mispredict => fu_q # None /\ ~misaligned
  /\ misaligned => InUnit({"CTRL_FLOW"})
  /\ div_done => div_q # None

Next ==
  \E lsu_ready, mispredict, misaligned, div_done \in BOOLEAN :
    /\ Allowed(lsu_ready, mispredict, misaligned, div_done)
    /\ \E outcome \in Outcomes, done \in Completions : \E faults \in SUBSET done :
         Cycle(outcome, lsu_ready, mispredict, misaligned, div_done, done, faults)

Spec == Init /\ [][Next]_vars

\* Cycles in which nothing happens but the clock; in which the instruction at
\* port 0 is dealt with; in which the LSU, or the divider, is done with an
\* instruction; in which the LSU is ready for the instruction to issue.
Ticks      == Cycle("halt", FALSE, FALSE, FALSE, FALSE, {}, {})
Commits    == \E outcome \in Outcomes \ {"halt", "wait"} :
                Cycle(outcome, FALSE, FALSE, FALSE, FALSE, {}, {})
LsuDone    == \E i \in lsu : \E faults \in SUBSET {i} :
                Cycle("halt", FALSE, FALSE, FALSE, FALSE, {i}, faults)
DivDone    == div_q # None /\ Cycle("halt", FALSE, FALSE, FALSE, TRUE, {}, {})
LsuReady   == /\ issue_ack("halt", TRUE, {}) /\ fu_q = None
              /\ Cycle("halt", TRUE, FALSE, FALSE, FALSE, {}, {})

(***************************************************************************)
(* The clock ticks, a division and one of the loads and stores in the LSU  *)
(* complete in the end, and the core is not halted, nor the commit of a    *)
(* valid instruction or the readiness of the LSU withheld, for ever.       *)
(***************************************************************************)
FairSpec ==
  /\ Spec /\ WF_vars(Ticks) /\ WF_vars(Commits) /\ WF_vars(DivDone)
  /\ WF_vars(LsuReady) /\ WF_vars(LsuDone)

----------------------------------------------------------------------------
(***************************************************************************)
(* Properties.                                                             *)
(***************************************************************************)
Age(i)     == Minus(i, commit_pointer)
Issued     == {i \in Ids : mem[i].issued}
\* Behind an instruction that raised an exception everything is flushed.
Doomed(i)  == \E j \in Issued : mem[j].ex /\ Age(j) < Age(i)

\* Types of the scoreboard, the units and the re-name table.
TypeOK ==
  /\ issue_q \in Instruction \cup {None}
  /\ mem \in [Ids -> [issued : {TRUE}, valid : BOOLEAN, fu : Fus, rd : Names,
                      ex : BOOLEAN, good : BOOLEAN, ok : BOOLEAN] \cup {Free}]
  /\ issue_pointer \in Ids /\ commit_pointer \in Ids /\ issue_cnt \in Ids
  /\ re_name_table \in [Regs -> {0, 1}] /\ re_name_table[0] = 0
  /\ regfile \in [Regs -> BOOLEAN]
  /\ fu_q \in [fu : Fus, id : Ids] \cup {None}
  /\ mul_q \in Ids \cup {None} /\ div_q \in Ids \cup {None}
  /\ csr_q \in [valid : BOOLEAN, id : Ids \cup {None}] /\ lsu \subseteq Ids

\* The two pointers and the counter, which is one bit too narrow to count to
\* NR_ENTRIES, agree with the issued bits (scoreboard.sv, issue_fifo).
PointersAgree ==
  /\ issue_pointer = Plus(commit_pointer, issue_cnt)
  /\ Issued = {Plus(commit_pointer, k) : k \in 0 .. issue_cnt - 1}

\* "there should never be more than one instruction writing the same destination
\* register (except x0)" (scoreboard.sv), up to the next exception.
SingleWriter ==
  \A i, j \in Issued :
    i # j /\ mem[i].rd = mem[j].rd /\ mem[i].rd[1] # 0 =>
      \/ Doomed(i) \/ Doomed(j) \/ mem[i].ex \/ mem[j].ex

\* The scoreboard's entries are those in flight, in order, each the only one
\* to write its register.
ScoreboardConsistent == TypeOK /\ PointersAgree /\ SingleWriter

\* What forwarding, re-naming and the register file hand to an instruction is
\* what the instructions before it compute: an instruction that got a wrong
\* operand is behind one that raised an exception, and is never retired.
WrongOperandsNeverRetire == \A i \in Issued : ~mem[i].ok => Doomed(i)

\* The register file holds what was retired last (issue_read_operands.sv,
\* commit_stage.sv), also when both ports write one register.
RegfileRight == \A r \in Regs : regfile[r]

InFlight == lsu \cup {i \in Ids : i = mul_q \/ i = div_q}
                \cup (IF fu_q = None THEN {} ELSE {fu_q.id})

\* "check that no functional unit is retiring with the same transaction id"
\* (scoreboard.sv): an instruction is in at most one unit, its entry is issued
\* and has no result yet, so that no late result reaches a reused entry; and
\* every entry without a result has a unit working on it.
InFlightIssued ==
  /\ InFlight = {i \in Issued : ~mem[i].valid}
  /\ Cardinality(InFlight) =
       Cardinality(lsu) + Cardinality({x \in {1} : mul_q # None})
       + Cardinality({x \in {1} : div_q # None}) + Cardinality({x \in {1} : fu_q # None})

\* "otherwise we will get contentions on the fixed latency bus"
\* (issue_read_operands.sv): the multiplier or divider never delivers a result
\* in a cycle in which another fixed latency unit does.
NoBusContention ==
  ~(InUnit({"ALU", "CTRL_FLOW"} \cup IsCsr) /\ (mul_q # None \/ div_q # None))

\* The one-entry CSR buffer still holds the address of the CSR instruction that
\* reaches commit port 0, though later ones may have been issued.
CsrAddressKept ==
  ValidAt(Port0) /\ Port0.fu = "CSR" /\ ~Port0.ex => csr_q.id = commit_pointer

\* The units and the scoreboard agree about what is being worked on.
UnitsConsistent == InFlightIssued /\ NoBusContention /\ CsrAddressKept

\* Every instruction in the scoreboard leaves it, retired or flushed.
EveryIssuedLeaves == \A i \in Ids : mem[i].issued ~> ~mem[i].issued

\* No instruction waits in the ID register for ever: the stalls for operands,
\* for a second writer of its register, for the CSR buffer, the multiplier and
\* the divider are all resolved by the instructions before it.
IssueProgress == []<>(issue_q = None) \/ []<><<issue_pointer' # issue_pointer>>_vars
=============================================================================
