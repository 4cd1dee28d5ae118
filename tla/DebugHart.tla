----------------------------- MODULE DebugHart -----------------------------
(***************************************************************************)
(* The hart in front of the debug module: the debug ROM it parks in        *)
(* (debug_rom.S), the abstract command and program buffer it executes from *)
(* the module's memory (dm_mem.sv), and the program it leaves and returns  *)
(* to, of which only the registers and the program counter matter here.    *)
(***************************************************************************)
EXTENDS DebugModule

CONSTANTS
  Addrs,       \* double words of memory that exist; any other access faults
  ProgramRegs  \* what the program keeps in s0 and s1

VARIABLES
  hpc,         \* "user", a label of the ROM, "abstract" or a name At(i)
  regs,        \* s0 and s1
  dscratch, dpc, mem

hartVars == <<hpc, regs, dscratch, dpc, mem>>

\* The register x0 and values the ROM itself leaves in s0 need no more detail.
Zero == <<0, 0>>

\* The i-th word of the program buffer.
At(i) == PROGBUF[i]

HartInit ==
  /\ hpc = "user" /\ regs = ProgramRegs /\ dscratch = Zero
  /\ dpc = Zero /\ mem = [a \in Addrs |-> Zero]

\* Executing the ROM takes the hart from one label to the next.
Rom(from, to) == hpc = from /\ hpc' = to

\* A debug request interrupts the program.  Where the program is, which dpc
\* then holds, is not modelled: dpc keeps the place it was last started at.
Interrupted == haltreq /\ Rom("user", "entry") /\ UNCHANGED <<regs, dscratch, dpc, mem>>
RunsOn      == ~haltreq /\ Rom("user", "user") /\ UNCHANGED <<regs, dscratch, dpc, mem>>

\* _entry: s0 is kept in dscratch, for the loop needs a register.
Entry == /\ Rom("entry", "entry_loop")
         /\ dscratch' = regs.s0
         /\ UNCHANGED <<regs, dpc, mem>>

\* entry_loop: tell the module that the hart is halted, and poll the flags.
SayHalted == /\ Rom("entry_loop", "flag_go")
             /\ regs' = [regs EXCEPT !.s0 = Zero]
             /\ UNCHANGED <<dscratch, dpc, mem>>
PollGo     == Rom("flag_go", IF go THEN "going" ELSE "flag_resume")
              /\ UNCHANGED <<regs, dscratch, dpc, mem>>
PollResume == Rom("flag_resume", IF resume THEN "resume" ELSE "entry_loop")
              /\ UNCHANGED <<regs, dscratch, dpc, mem>>

\* going: restore s0, drop the flag, and jump where the module says.
Going == /\ Rom("going", "whereto")
         /\ regs' = [regs EXCEPT !.s0 = dscratch]
         /\ UNCHANGED <<dscratch, dpc, mem>>
Whereto == /\ Rom("whereto", CASE cmdbusy /\ command_q.transfer -> "abstract"
                               [] cmdbusy /\ ~command_q.transfer -> At(1)
                               [] ~cmdbusy -> "resume")
           /\ UNCHANGED <<regs, dscratch, dpc, mem>>

\* _resume: acknowledge, restore s0 and return to the program.
Resuming == /\ Rom("resume", "dret")
            /\ regs' = [regs EXCEPT !.s0 = Zero]
            /\ UNCHANGED <<dscratch, dpc, mem>>
Dret == /\ Rom("dret", "user")
        /\ regs' = [regs EXCEPT !.s0 = dscratch]
        /\ UNCHANGED <<dscratch, dpc, mem>>

\* _exception, then ebreak, which leads to the entry again.
Excepts == Rom("exception", "entry") /\ UNCHANGED <<regs, dscratch, dpc, mem>>

----------------------------------------------------------------------------
\* abstract_cmd: a register is loaded from or stored to the data registers;
\* 128-bit accesses are illegal instructions.
SetReg(r, v) == regs' = IF r = "x0" THEN regs ELSE [regs EXCEPT ![r] = v]
GetReg(r)    == IF r = "x0" THEN Zero ELSE regs[r]

AbstractLegal == command_q.size < 4
Abstract ==
  /\ hpc = "abstract"
  /\ hpc' = IF ~AbstractLegal THEN "exception"
            ELSE IF command_q.postexec THEN At(1) ELSE "entry"
  /\ IF AbstractLegal /\ command_q.write THEN SetReg(command_q.reg, data_q) ELSE UNCHANGED regs
  /\ UNCHANGED <<dscratch, dpc, mem>>

\* One instruction of the program buffer.
Plus1(v) == <<v[1] + 1, v[2]>>
Faults(v) == v[1] \notin Addrs

Instruction(i, insn) ==
  LET next == hpc' = At(i + 1)
  IN  CASE insn[1] = "ebreak" ->
             hpc' = "entry" /\ UNCHANGED <<regs, dscratch, dpc, mem>>
        [] insn[1] \in {"load", "store"} /\ Faults(regs.s0) ->
             hpc' = "exception" /\ UNCHANGED <<regs, dscratch, dpc, mem>>
        [] insn[1] = "load" /\ ~Faults(regs.s0) ->
             next /\ SetReg(insn[2], mem[regs.s0[1]]) /\ UNCHANGED <<dscratch, dpc, mem>>
        [] insn[1] = "store" /\ ~Faults(regs.s0) ->
             next /\ mem' = [mem EXCEPT ![regs.s0[1]] = GetReg(insn[2])]
             /\ UNCHANGED <<regs, dscratch, dpc>>
        [] insn[1] = "addi" ->
             next /\ SetReg("s0", Plus1(regs.s0)) /\ UNCHANGED <<dscratch, dpc, mem>>
        [] insn[1] = "bne" ->
             hpc' = At(IF regs.s0 # regs.s1 THEN insn[2] ELSE i + 1)
             /\ UNCHANGED <<regs, dscratch, dpc, mem>>
        [] insn[1] = "load_data" ->
             next /\ SetReg("s0", data_q) /\ UNCHANGED <<dscratch, dpc, mem>>
        [] insn[1] = "swap_dscratch" ->
             next /\ SetReg("s0", dscratch) /\ dscratch' = regs.s0 /\ UNCHANGED <<dpc, mem>>
        [] insn[1] = "swap_dpc" ->
             next /\ SetReg("s0", dpc) /\ dpc' = regs.s0 /\ UNCHANGED <<dscratch, mem>>
        [] insn[1] \in {"store_data", "fence_i"} ->
             next /\ UNCHANGED <<regs, dscratch, dpc, mem>>
        [] insn[1] = "illegal" ->
             hpc' = "exception" /\ UNCHANGED <<regs, dscratch, dpc, mem>>

InProgbuf(i) == hpc = At(i)
Progbuf == \E i \in 1 .. ProgBufSize : InProgbuf(i) /\ Instruction(i, progbuf_q[i])

\* The write to the module's memory that goes with the step of this cycle.
Access ==
  CASE hpc = "entry_loop" -> [at |-> "halted"]
    [] hpc = "going"      -> [at |-> "going"]
    [] hpc = "resume"     -> [at |-> "resuming"]
    [] hpc = "exception"  -> [at |-> "exception"]
    [] hpc = "abstract" /\ AbstractLegal /\ ~command_q.write ->
         [at |-> "data", value |-> GetReg(command_q.reg)]
    [] \E i \in 1 .. ProgBufSize : InProgbuf(i) /\ progbuf_q[i][1] = "store_data" ->
         [at |-> "data", value |-> regs.s0]
    [] OTHER -> NoAccess

HartStep ==
  \/ Interrupted \/ RunsOn \/ Entry \/ SayHalted \/ PollGo \/ PollResume
  \/ Going \/ Whereto \/ Resuming \/ Dret \/ Excepts \/ Abstract \/ Progbuf
============================================================================
