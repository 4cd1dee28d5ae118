-------------------------------- MODULE Dtm --------------------------------
(***************************************************************************)
(* The debug transport module of the simulation (dtm.cc): the host thread  *)
(* reads, writes and clears memory, changes CSRs and resets the hart by    *)
(* halting it and running abstract commands, one DMI request at a time;    *)
(* tick hands the requests to the debug module of DebugModule, in front of *)
(* the hart of DebugHart.                                                  *)
(*                                                                         *)
(* A routine of dtm.cc is the sequence of DMI requests it makes; the host  *)
(* is at one of them.  Values it keeps between requests are in host.       *)
(***************************************************************************)
EXTENDS DebugHart

CONSTANTS
  MaxLen,      \* the longest chunk, in double words
  Chunks,      \* sequences of double words the host writes
  EntryPoint,  \* of the loaded program
  MaxOps       \* bound on the routines the host runs

\* A 64-bit value.
DoubleWords == Nat \X Nat

ASSUME DtmAssumption ==
  /\ MaxLen \in Nat \ {0} /\ MaxOps \in Nat
  /\ Addrs \subseteq Nat /\ \A src \in Chunks : src \in Seq(DoubleWords) /\ Len(src) \in 1 .. MaxLen
  /\ EntryPoint \in DoubleWords /\ ProgramRegs \in [s0 : DoubleWords, s1 : DoubleWords]

\* The gaps between blocks of memory are no shorter than a chunk, so that none
\* begins in one block and ends in another.
ASSUME BlocksAssumption == \A a, b \in Addrs : b - a < MaxLen => a .. b \subseteq Addrs

VARIABLES
  op,                 \* the routine under way, or NoOp
  todo,               \* the requests it has left, from the one it waits for
  host,               \* local variables: s0, s1, data, cmderr, got; and xlen
  req_wait, resp_wait,
  resp_queue,         \* the debug module's response FIFO
  ops,                \* routines begun
  shadow              \* memory as the host's writes and clears leave it

dtmVars == <<op, todo, host, req_wait, resp_wait, resp_queue, ops, shadow>>
vars == <<dmVars, hartVars, dtmVars>>

----------------------------------------------------------------------------
\* Requests.  "until" repeats a read until the field is set, "done" until the
\* command is not busy, which also leaves cmderr; "die" clears an error, and
\* is skipped when there is none.

read(addr)          == [k |-> "read", addr |-> addr]
write(addr, v)      == [k |-> "write", addr |-> addr, val |-> v]
WriteHalf(addr, x, i) == [k |-> "half", addr |-> addr, from |-> x, i |-> i]
ReadHalf(addr, x, i)  == [k |-> "read", addr |-> addr, to |-> x, i |-> i]
Until(field)        == [k |-> "until", addr |-> "DMSTATUS", field |-> field]
NotBusy             == [k |-> "done", addr |-> "ABSTRACTCS"]
dieForgets          == [k |-> "nop"]
die                 == [k |-> "die", addr |-> "ABSTRACTCS"]
nop                 == [k |-> "nop"]

halt ==
  << write("DMCONTROL", DMControl(TRUE, FALSE, 0, TRUE)), Until("allhalted"),
     write("DMCONTROL", DMControl(FALSE, FALSE, 0, TRUE)), read("DMSTATUS") >>

resume_hart ==
  << write("DMCONTROL", DMControl(FALSE, TRUE, 0, TRUE)), Until("allresumeack"),
     write("DMCONTROL", DMControl(FALSE, FALSE, 0, TRUE)), read("DMSTATUS") >>

select_hart(sel) ==
  << read("DMCONTROL"), write("DMCONTROL", DMControl(FALSE, FALSE, sel, TRUE)) >>

WriteProgram(prog) == [i \in 1 .. Len(prog) |-> write(PROGBUF[i], prog[i])]
WriteData(v) == << write(DATA[1], v[1]), write(DATA[2], v[2]) >>
WriteVar(x)  == << WriteHalf(DATA[1], x, 1), WriteHalf(DATA[2], x, 2) >>
ReadVar(x)   == << ReadHalf(DATA[1], x, 1), ReadHalf(DATA[2], x, 2) >>

\* run_abstract_command, with the data of a write command in send and of a
\* read command in receive, and RUN_AC_OR_DIE.
run_abstract_command(command, prog, send, receive) ==
  WriteProgram(prog) \o send \o << write("COMMAND", command), NotBusy >> \o receive
RUN_AC_OR_DIE(command, prog, send, receive) ==
  run_abstract_command(command, prog, send, receive) \o << die >>

ReadReg(reg, post)  == AccessRegister(3, TRUE, FALSE, post, reg)
WriteReg(reg, post) == AccessRegister(3, TRUE, TRUE, post, reg)

save_reg(reg)    == RUN_AC_OR_DIE(ReadReg(reg, FALSE), <<>>, <<>>, ReadVar(reg))
restore_reg(reg) == RUN_AC_OR_DIE(WriteReg(reg, FALSE), <<>>, WriteVar(reg), <<>>)

Begin == halt \o save_reg("s0") \o save_reg("s1")
End   == restore_reg("s0") \o restore_reg("s1") \o resume_hart

LoadProgramNoStep == << <<"load", "s1">>, <<"ebreak">> >>
LoadProgram  == << <<"load", "s1">>, <<"addi">>, <<"ebreak">> >>
StoreProgram == << <<"store", "s1">>, <<"addi">>, <<"ebreak">> >>
ClearProgram == << <<"store", "x0">>, <<"addi">>, <<"bne", 1>>, <<"ebreak">> >>
CsrProgramNoSwap == << <<"swap_dscratch">>, <<"load_data">>, <<"swap_dpc">>,
                   <<"store_data">>, <<"ebreak">> >>
CsrProgram   == << <<"swap_dscratch">>, <<"load_data">>, <<"swap_dpc">>,
                   <<"store_data">>, <<"swap_dscratch">>, <<"ebreak">> >>

\* Parts of a routine, one after another.
Concat(parts) ==
  LET all[i \in 0 .. Len(parts)] == IF i = 0 THEN <<>> ELSE all[i - 1] \o parts[i]
  IN  all[Len(parts)]

\* Every word but the last is read with the load of the next one behind it.
read_chunk(a, n) ==
  LET word(i) == RUN_AC_OR_DIE(ReadReg("s1", i < n), <<>>, <<>>, ReadVar("got"))
  IN  Begin \o RUN_AC_OR_DIE(WriteReg("s0", TRUE), LoadProgram, WriteData(<<a, 0>>), <<>>)
      \o Concat([i \in 1 .. n |-> word(i)]) \o End

AutoWordLowFirst(v) == << write(DATA[1], v[1]), write(DATA[2], v[2]), NotBusy, die >>
AutoWord(v) == << write(DATA[2], v[2]), write(DATA[1], v[1]), NotBusy, die >>

\* From the second word on, writing DATA0 executes the command again.
write_chunk(a, src) ==
  LET word(i) ==
        IF i = 1 THEN RUN_AC_OR_DIE(WriteReg("s1", TRUE), <<>>, WriteData(src[1]), <<>>)
        ELSE (IF i = 2 THEN << write("AUTO", TRUE) >> ELSE <<>>)
             \o AutoWord(src[i])
  IN  Begin \o RUN_AC_OR_DIE(WriteReg("s0", FALSE), StoreProgram, WriteData(<<a, 0>>), <<>>)
      \o Concat([i \in 1 .. Len(src) |-> word(i)])
      \o (IF Len(src) > 1 THEN << write("AUTO", FALSE) >> ELSE <<>>) \o End

clear_chunk(a, n) ==
  Begin \o RUN_AC_OR_DIE(WriteReg("s0", FALSE), <<>>, WriteData(<<a, 0>>), <<>>)
  \o RUN_AC_OR_DIE(WriteReg("s1", TRUE), ClearProgram, WriteData(<<a + n, 0>>), <<>>) \o End

\* s0 is kept in dscratch while the program buffer moves the data registers
\* through it; the command itself loads x0.
modify_csr(v) ==
  halt \o RUN_AC_OR_DIE(WriteReg("x0", TRUE), CsrProgram, WriteData(v), <<>>)
  \o ReadVar("data") \o resume_hart

fence_i == halt \o RUN_AC_OR_DIE(WriteReg("x0", TRUE), << <<"fence_i">>, <<"ebreak">> >>, <<>>, <<>>)
           \o resume_hart

reset == select_hart(0) \o fence_i \o modify_csr(EntryPoint) \o select_hart(0) \o << read("DMSTATUS") >>

\* The error of the 128-bit access is cleared without a look; that of the
\* 64-bit access ends get_xlen when there is none.
get_xlen ==
  run_abstract_command(AccessRegister(4, TRUE, FALSE, FALSE, "s0"), <<>>, <<>>, <<>>)
  \o << write("ABSTRACTCS", 0) >>
  \o run_abstract_command(AccessRegister(3, TRUE, FALSE, FALSE, "s0"), <<>>, <<>>, <<>>)

enumerate_harts == select_hart(0) \o << read("DMSTATUS") >> \o select_hart(1) \o << read("DMSTATUS") >>

producer_thread ==
  << read("ABSTRACTCS"), read("HARTINFO"), write("DMCONTROL", DMControl(FALSE, FALSE, 0, TRUE)) >>
  \o enumerate_harts \o halt \o get_xlen \o resume_hart

----------------------------------------------------------------------------
NoOp == [k |-> "none"]

Script(o) ==
  CASE o.k = "read"  -> read_chunk(o.addr, o.len)
    [] o.k = "write" -> write_chunk(o.addr, o.src)
    [] o.k = "clear" -> clear_chunk(o.addr, o.len)
    [] o.k = "reset" -> reset
    [] o.k = "idle"  -> << nop >>

Init ==
  /\ DmInit /\ HartInit
  /\ op = [k |-> "start"] /\ todo = producer_thread /\ ops = 0
  /\ host = [s0 |-> Zero, s1 |-> Zero, data |-> Zero, cmderr |-> "None", got |-> <<>>]
  /\ req_wait = FALSE /\ resp_wait = FALSE /\ resp_queue = <<>>
  /\ shadow = mem

Micro == Head(todo)

\* do_command: the request tick presents.
req_bits ==
  CASE Micro.k = "nop" -> [op |-> "nop"]
    [] Micro.k = "write" -> [op |-> "write", addr |-> Micro.addr, data |-> Micro.val]
    [] Micro.k = "half" ->
         [op |-> "write", addr |-> Micro.addr, data |-> host[Micro.from][Micro.i]]
    [] Micro.k = "die" -> [op |-> "write", addr |-> Micro.addr, data |-> 0]
    [] OTHER -> [op |-> "read", addr |-> Micro.addr]

\* What the host does with the answer, up to its next request.
Store(x, i, v) ==
  IF x # "got" THEN [host EXCEPT ![x][i] = v]
  ELSE IF i = 1 THEN [host EXCEPT !.data[1] = v]
  ELSE [host EXCEPT !.got = Append(@, <<host.data[1], v>>)]

Again(v) == \/ Micro.k = "until" /\ ~v[Micro.field]
            \/ Micro.k = "done" /\ v.busy

Answered(v) ==
  LET stays == IF Micro.k = "done" THEN [host EXCEPT !.cmderr = v.cmderr]
               ELSE IF "to" \in DOMAIN Micro THEN Store(Micro.to, Micro.i, v) ELSE host
      skips == Len(todo) > 1 /\ todo[2].k = "die" /\ stays.cmderr = "None"
  IN  /\ host' = stays
      /\ todo' = IF Again(v) THEN todo ELSE IF skips THEN Tail(Tail(todo)) ELSE Tail(todo)

\* One clock cycle: dtm_t::tick at its end, with the signals of the cycle, the
\* debug module and, unless it is stalled, the hart.
Accepted == req_wait /\ Len(resp_queue) < 2
Response == IF req_bits.op = "read" THEN ReadData(req_bits.addr) ELSE 0

NextReqWaitKept == ~resp_wait
NextReqWait     == ~resp_wait /\ ~Accepted
Left == IF resp_queue = <<>> THEN <<>> ELSE Tail(resp_queue)

tick ==
  /\ resp_wait' = IF resp_queue # <<>> THEN FALSE ELSE resp_wait \/ Accepted
  /\ req_wait' = NextReqWait
  /\ resp_queue' = Left \o (IF Accepted THEN << Response >> ELSE <<>>)
  /\ IF resp_queue # <<>> THEN Answered(Head(resp_queue)) ELSE UNCHANGED <<todo, host>>

OpDone == todo = <<>>

Cycle(stalled) ==
  /\ ~OpDone
  /\ tick
  /\ DmCycle(IF Accepted THEN req_bits ELSE NoRequest, IF stalled THEN NoAccess ELSE Access)
  /\ IF stalled THEN UNCHANGED hartVars ELSE HartStep
  /\ UNCHANGED <<op, ops, shadow>>

\* htif_t, in the same tick, goes on to its next access; in the end only nop.
Covered(a, n) == a .. a + n - 1
NextOp(o, m) ==
  /\ OpDone
  /\ op' = o /\ todo' = Script(o) /\ shadow' = m /\ ops' = IF o.k = "idle" THEN ops ELSE ops + 1
  /\ host' = [host EXCEPT !.got = <<>>]
  /\ UNCHANGED <<dmVars, hartVars, req_wait, resp_wait, resp_queue>>

Write(a, src) == NextOp([k |-> "write", addr |-> a, src |-> src],
  [b \in Addrs |-> IF b \in Covered(a, Len(src)) THEN src[b - a + 1] ELSE shadow[b]])
Clear(a, n) == NextOp([k |-> "clear", addr |-> a, len |-> n],
  [b \in Addrs |-> IF b \in Covered(a, n) THEN Zero ELSE shadow[b]])

HostNext ==
  \/ NextOp([k |-> "idle"], shadow)
  \/ /\ ops < MaxOps
     /\ \/ NextOp([k |-> "reset"], shadow)
        \/ \E a \in Addrs, n \in 1 .. MaxLen :
             \/ NextOp([k |-> "read", addr |-> a, len |-> n], shadow)
             \/ Clear(a, n)
        \/ \E a \in Addrs, src \in Chunks : Write(a, src)

Next == HostNext \/ \E stalled \in BOOLEAN : Cycle(stalled)

Spec == Init /\ [][Next]_vars

\* The clock ticks, the hart is not stalled for ever, and the host thread runs.
FairSpec == Spec /\ SF_vars(Cycle(FALSE)) /\ WF_vars(HostNext)

----------------------------------------------------------------------------
\* Types of the registers on both sides, and the debug module's FSM state.
TypeOK ==
  /\ state_q \in {"Idle", "Go", "Resume", "CmdExecuting"}
  /\ {halted_q, resuming_q, req_wait, resp_wait, autoexec_q} \subseteq BOOLEAN
  /\ cmderr_q \in {"None", "Busy", "Exception", "HaltResume"}
  /\ Len(resp_queue) <= 1 /\ dmcontrol_q.hartsel \in 0 .. 1
  /\ DOMAIN mem = Addrs

\* assert(resp_wait) in tick, and the assertions on buffer sizes.
AssertionsHold ==
  /\ resp_queue # <<>> => resp_wait
  /\ ~(req_wait /\ resp_wait)

\* The host is never told that a command was busy or that the hart was not
\* halted: it never overruns the debug module or the hart.
NoOverrun == cmderr_q \notin {"Busy", "HaltResume"}

\* "No abstract command is started until the value is reset to 0"
\* (dm_csrs.sv): the hardware does not see to it, so the host must.
CommandsStartClean == [][state_q = "Idle" /\ state_q' = "Go" => cmderr_q = "None"]_vars

\* The program never notices the host: whenever it runs, its registers are
\* what it left in them, whatever faulted in between.
Parked == hpc \in {"entry_loop", "flag_go", "flag_resume"}
ProgramUndisturbed == hpc = "user" => regs = ProgramRegs

\* When the module is idle the hart it calls halted is parked, and it runs
\* again when the debugger has been told that it resumed.
IdleMeansParked ==
  /\ state_q = "Idle" /\ halted_q => Parked
  /\ resuming_q => hpc \in {"dret", "user"}

\* Host, module and hart have the same idea of what the hart is doing, and no
\* command is ever started over another.
LinkConsistent == TypeOK /\ NoOverrun /\ IdleMeansParked

\* read_chunk returns what was written, except for words that fault.
Matches(o, i) == o.addr + i - 1 \in Addrs => host.got[i] = shadow[o.addr + i - 1]
ReadsRight == op.k = "read" /\ OpDone =>
  Len(host.got) = op.len /\ \A i \in 1 .. op.len : Matches(op, i)

\* write_chunk and clear_chunk are complete when they return, and touch
\* nothing else; after reset the hart is at the entry point.
WritesComplete ==
  OpDone => /\ mem = shadow
            /\ op.k = "reset" => dpc = EntryPoint

\* Every routine returns: the host never polls for ever, and the hart comes
\* back to its program.
RoutinesReturn == []<>OpDone /\ (hpc # "user" ~> hpc = "user")
============================================================================
