----------------------------- MODULE Simulation -----------------------------
(***************************************************************************)
(* The simulation around the host-target interface: main of ariane_tb.cpp  *)
(* or the ModelSim testbench, the calls they make on every clock edge      *)
(* (SimDTM.cc, SimJTAG.cc), the server for remote JTAG commands            *)
(* (remote_bitbang.cc), signals, and the two other ways an image is used:  *)
(* elf2hex and the sideband of the testbench.                              *)
(*                                                                         *)
(* With JTAG enabled the debug module answers the JTAG side only, so that  *)
(* the host is stuck in its first access and the program is not loaded.    *)
(***************************************************************************)
EXTENDS Rfb

CONSTANT StatusMod   \* the number of exit statuses a shell can tell apart

ASSUME SimulationAssumption == StatusMod \in Nat \ {0, 1} /\ 2 * StatusMod <= IntMod

VARIABLES
  rbb,       \* remote_bitbang_t: client, the pins, tdo and quit
  remote,    \* its client: commands not yet sent, commands executed, answers
  tap,       \* the TAP, in Shift-DR: its bypass register and td_o
  sim        \* phase of the simulation's thread, terminated (by a signal), status

vars == <<htifVars, rfbVars, rbb, remote, tap, sim>>

None == -1

\* The command line of a job, whose line is in three parts: the simulator's
\* options, the host's, and the program with its arguments.  For ModelSim the
\* first are between +permissive and +permissive-off, and the last have two
\* pluses in front.
Argv(tool, line) ==
  IF tool = "modelsim"
  THEN << Permissive >> \o line.simulator \o << PermissiveOff >> \o line.host
       \o [i \in 1 .. Len(line.program) |-> [line.program[i] EXCEPT !.form = "plusplus"]]
  ELSE line.simulator \o line.host \o line.program

\* main or the first debug_tick hands its part of the command line to htif_t.
HostOptions(j) ==
  LET argv == Argv(j.tool, j.line)
      main == main_options(argv)
      none == [end |-> main.end, args |-> <<>>, signature |-> <<>>, chroot |-> NoChroot,
               rfb |-> FALSE]
  IN  CASE j.tool = "modelsim"  -> parse_arguments(sanitize_args(argv), NoChroot)
        [] j.tool = "verilator" -> IF main.end = "host" THEN parse_arguments(main.argv, NoChroot)
                                   ELSE none
        [] OTHER                -> [none EXCEPT !.end = "host"]
Configured(j) ==
  LET o == HostOptions(j)
  IN  [f \in DOMAIN o \cup DOMAIN j |-> IF f \in DOMAIN o THEN o[f] ELSE j[f]]

\* Images for which each tool is made: memory is whole units of its interface,
\* and elf2hex and the sideband are given segments that do not overlap, and no
\* command line that could be refused.
LegalImage(j) ==
  LET S    == Cardinality(DOMAIN j.memory)
      segs == j.image.segs
  IN  /\ ImageFits(S, DOMAIN j.memory, j.memory, segs)
      /\ j.tool \in {"verilator", "modelsim"} => Whole(Chunks, S)
      /\ j.tool \in {"elf2hex", "sideband"} => Apart(segs) /\ j.end = "host"
      /\ j.tool = "elf2hex" => /\ Chunked(hexwriter(j.width)) /\ Whole(hexwriter(j.width), S)
                              /\ \A a \in DOMAIN j.memory : j.memory[a] = 0
      /\ j.tool = "sideband" => WholeRows(segs)

\* Programs that end with a natural number, by a call or by writing it to tohost,
\* which they otherwise leave to other commands; a signature that is asked for
\* has whole lines and lies in memory.
JobWords == [dev : Nat, cmd : 0 .. MAX_COMMANDS - 1, payload : Nat]
CallNames ==
  {"read", "pread", "write", "pwrite", "lseek", "fcntl", "ftruncate", "close", "fstat", "openat",
   "faccessat", "unlinkat", "mkdirat", "fstatat", "lstat", "linkat", "renameat", "getcwd", "chdir",
   "getmainvars", "exit"}
LegalProgram(j) ==
  LET area == SignatureArea(j.image)
  IN  /\ j.words \subseteq JobWords /\ \A w \in j.words : ~(w.dev = 0 /\ w.cmd = 0)
      /\ j.codes \subseteq Nat /\ j.sends \in Nat
      /\ \A c \in j.calls : c.n \in CallNames /\ (c.n = "exit" => c.code \in Nat)
      /\ j.signature # <<>> /\ area.len > 0 =>
           area.addr \in Nat /\ area.len \in Nat /\ area.len % LineBytes = 0
           /\ area.addr + area.len <= Cardinality(DOMAIN j.memory)

\* Clients that send commands of the protocol.
JtagCommand == [k : {"R", "Q", "B"}] \cup [k : {"set"}, tck : 0 .. 1, tms : 0 .. 1, tdi : 0 .. 1]
LegalScript(j) == j.script \in Seq(JtagCommand)

\* Programs that have their frame in one place, all of it in memory.
LegalFrames(j) ==
  LET sizes  == {w \in j.words : w.dev = 2 /\ w.cmd = 0 /\ w.payload > 0}
      places == {w \in j.words : w.dev = 2 /\ w.cmd = 1 /\ w.payload % 2 = 0}
  IN  /\ j.words \subseteq JobWords
      /\ \A v, w \in places : v.payload = w.payload
      /\ \A v \in places, w \in sizes :
           v.payload \div 2 .. v.payload \div 2 + w.payload - 1 \subseteq DOMAIN j.memory
      /\ \A a \in DOMAIN j.memory :
           Undrawn \notin {j.memory[a], Loaded(j.memory, j.image.segs)[a]}

\* The status with which main returns, or the process ends by an exception.
Refused(end) ==
  CASE end = "host"  -> None
    [] end = "help"  -> 0
    [] end = "usage" -> 1
    [] OTHER         -> StatusMod - 1

Init(jobs, own) ==
  /\ \E j \in jobs : HtifInit(Configured(j), own)
  /\ RfbInit
  /\ rbb = [client |-> FALSE, tck |-> 1, tms |-> 1, tdi |-> 1, tdo |-> 0, quit |-> FALSE]
  /\ remote = [script |-> job.script, done |-> <<>>, got |-> <<>>]
  /\ tap = [bypass_q |-> 0, td_o |-> 0]
  /\ sim = [phase |-> IF job.end = "host" THEN "run" ELSE "over", terminated |-> FALSE,
            status |-> Refused(job.end)]

Runs == sim.phase = "run" /\ job.tool \in {"verilator", "modelsim"}

----------------------------------------------------------------------------
\* jtag_tick, which SimJTAG.sv calls every TICK_DELAY cycles.  It does not
\* return before a client has connected, or one command has been executed, and
\* the simulation stands still meanwhile.

jtag_tick ==
  /\ Runs /\ job.jtag /\ ~rbb.quit
  /\ sim' = [sim EXCEPT !.phase = "jtag"]
  /\ rbb' = [rbb EXCEPT !.tdo = IF rbb.client THEN tap.td_o ELSE @]
  /\ UNCHANGED <<htifVars, rfbVars, remote, tap>>

accept ==
  /\ sim.phase = "jtag" /\ ~rbb.client
  /\ rbb' = [rbb EXCEPT !.client = TRUE]
  /\ sim' = [sim EXCEPT !.phase = "run"]
  /\ UNCHANGED <<htifVars, rfbVars, remote, tap>>

\* Commands are characters: "0" to "7" set the pins, "R" reads TDO, "Q" quits,
\* and any other does nothing.
SetPins(tck, tms, tdi) == [k |-> "set", tck |-> tck, tms |-> tms, tdi |-> tdi]
ReadTdo == [k |-> "R"]
Quit    == [k |-> "Q"]
Blink   == [k |-> "B"]

SampledPin(r) == r.tdi
Sampled(r) == r.tdo
Pins(r, c) == IF c.k = "set" THEN [r EXCEPT !.tck = c.tck, !.tms = c.tms, !.tdi = c.tdi] ELSE r

\* Until the next tick the TAP sees the edge of tck, if there is one: it takes
\* tdi on a rising edge, and td_o changes on a falling one.
Shift(t, before, after) ==
  CASE before.tck < after.tck -> [t EXCEPT !.bypass_q = after.tdi]
    [] before.tck > after.tck -> [t EXCEPT !.td_o = t.bypass_q]
    [] OTHER                  -> t

execute_command ==
  LET c == Head(remote.script)
  IN  /\ sim.phase = "jtag" /\ rbb.client /\ remote.script # <<>>
      /\ rbb' = [Pins(rbb, c) EXCEPT !.quit = c.k = "Q", !.client = c.k # "Q"]
      /\ remote' = [script |-> Tail(remote.script), done |-> Append(remote.done, c),
                    got |-> IF c.k = "R" THEN Append(remote.got, Sampled(rbb)) ELSE remote.got]
      /\ tap' = Shift(tap, rbb, rbb')
      /\ sim' = [sim EXCEPT !.phase = "run"]
      /\ UNCHANGED <<htifVars, rfbVars>>

----------------------------------------------------------------------------
\* The end.  debug_tick and jtag_tick return one more than twice the exit code
\* when they are done, and zero before; the exit code of JTAG stays zero.

debug_tickEarly == exit_code(host) * 2 + 1
debug_tickBare == IF host.stopped THEN exit_code(host) * 2 ELSE 0
debug_tick == IF host.stopped THEN exit_code(host) * 2 + 1 ELSE 0
jtag_exit  == IF rbb.quit THEN 1 ELSE 0
exit_o     == IF job.jtag THEN jtag_exit ELSE debug_tick

\* ariane_tb.sv waits for bit 0; main asks both sides.
Over == IF job.tool = "modelsim" THEN exit_o % 2 = 1 ELSE host.stopped \/ rbb.quit
ret  == IF job.tool = "modelsim" THEN exit_o \div 2 ELSE exit_code(host)

Finish ==
  /\ Runs /\ Over
  /\ sim' = [sim EXCEPT !.phase = "over", !.status = ret % StatusMod]
  /\ UNCHANGED <<htifVars, rfbVars, rbb, remote, tap>>

\* The exception of load_program ends the process.
Crash ==
  /\ Runs /\ host.pc = "crashed"
  /\ sim' = [sim EXCEPT !.phase = "over", !.status = StatusMod - 1]
  /\ UNCHANGED <<htifVars, rfbVars, rbb, remote, tap>>

\* main's handler for SIGTERM stops the host; the handler of htif.cc for
\* SIGINT asks it to stop, and the second time exits at once.
handle_sigterm ==
  /\ Runs /\ job.signals /\ ~host.stopped
  /\ host' = [host EXCEPT !.stopped = TRUE]
  /\ sim' = [sim EXCEPT !.terminated = TRUE]
  /\ UNCHANGED <<job, mem, proxy, term, prog, rfbVars, rbb, remote, tap>>

Interrupt ==
  /\ Runs /\ job.signals
  /\ IF host.signal_exit
     THEN sim' = [sim EXCEPT !.phase = "over", !.status = StatusMod - 1] /\ UNCHANGED htifVars
     ELSE SignalExit /\ UNCHANGED sim
  /\ UNCHANGED <<rfbVars, rbb, remote, tap>>

----------------------------------------------------------------------------
\* elf2hex, and the loop of ariane_tb.sv over the sections of read_elf, which
\* does not wait for the host.

Place(memory) ==
  /\ mem' = [mem EXCEPT !.ram = memory]
  /\ sim' = [sim EXCEPT !.phase = "over"]
  /\ UNCHANGED <<job, host, proxy, term, prog, rfbVars, rbb, remote, tap>>

Elf2hex ==
  /\ job.tool = "elf2hex" /\ sim.phase = "run"
  /\ Place(elf2hex(job.width, DOMAIN mem.ram, job.image.segs))
Sideband ==
  /\ job.tool = "sideband" /\ sim.phase = "run"
  /\ Place(Preload(mem.ram, job.image.segs))

----------------------------------------------------------------------------
Simulated(A) == Runs /\ ~job.jtag /\ ~host.stopped /\ A /\ UNCHANGED <<rbb, remote, tap, sim>>

Next ==
  \/ Simulated(start /\ UNCHANGED rfbVars) \/ Simulated(DisplayStep)
  \/ Simulated(ProgramStep /\ UNCHANGED rfbVars) \/ Simulated(Type /\ UNCHANGED rfbVars)
  \/ Simulated(OtherThreads)
  \/ jtag_tick \/ accept \/ execute_command
  \/ Finish \/ Crash \/ handle_sigterm \/ Interrupt
  \/ Elf2hex \/ Sideband

\* The simulation advances, and with it host and program once the image is
\* loaded; a client that has commands sends them.  Nobody has to type or to
\* send a signal.
Fairness ==
  /\ WF_vars(Simulated(DisplayStep)) /\ WF_vars(Simulated(Take /\ UNCHANGED rfbVars))
  /\ WF_vars(jtag_tick) /\ WF_vars(accept) /\ WF_vars(execute_command)
  /\ WF_vars(Finish) /\ WF_vars(Crash)

----------------------------------------------------------------------------
\* Types of the simulator's part.
TypeOK ==
  /\ sim.phase \in {"run", "jtag", "over"} /\ sim.status \in {None} \cup 0 .. StatusMod - 1
  /\ {rbb.tck, rbb.tms, rbb.tdi, rbb.tdo, tap.bypass_q, tap.td_o} \subseteq 0 .. 1
  /\ {rbb.client, rbb.quit, sim.terminated} \subseteq BOOLEAN

\* Whatever options simulator and host are given, a value of the host's behind
\* an equals sign, and whatever options the program is given, the host runs the
\* program of the command line, with its arguments and under the last root and
\* signature file asked for.
LastOption(tokens, name, otherwise) ==
  LET of == SelectSeq(tokens, LAMBDA t : t.name = name)
  IN  IF of = <<>> THEN otherwise ELSE Last(of).val
ConfiguredAsGiven ==
  job.tool \in {"verilator", "modelsim"} /\ job.end = "host" =>
    /\ job.args      = job.line.program
    /\ job.chroot    = LastOption(job.line.host, "chroot", NoChroot)
    /\ job.signature = LastOption(job.line.host, "signature", <<>>)

\* Whichever way an image takes into memory, memory then has its segments over
\* what was there, however they lie across the units of the interface; elf2hex
\* and the sideband are given segments that do not overlap.
Placed == IF job.tool \in {"elf2hex", "sideband"} THEN sim.phase = "over"
          ELSE Loads /\ host.pc \notin {"start", "crashed"}
ImageLoaded ==
  LET loaded == Loaded(job.memory, job.image.segs)
  IN  Placed => \A a \in DOMAIN loaded \ job.results : mem.ram[a] = loaded[a]

\* Unless a signal or the JTAG client ended it, the simulation ends after the
\* program, successfully exactly if the program was, as far as an exit status
\* can tell.
ExitStatusRight ==
  sim.status # None /\ ~job.jtag /\ ~host.signal_exit /\ ~sim.terminated
  /\ job.end = "host" /\ host.pc # "crashed" =>
    /\ prog.ended # Running
    /\ prog.ended < StatusMod => (sim.status = 0) = (prog.ended = 0)

\* The signature file has what the program left in memory, line by line and each
\* line backwards.
SignatureRight ==
  LET area == SignatureArea(job.image)
  IN  host.sigs # <<>> =>
        /\ Len(host.sigs) * LineBytes = area.len
        /\ \A i \in 1 .. Len(host.sigs), j \in 1 .. LineBytes :
             host.sigs[i][j] = mem.ram[area.addr + i * LineBytes - j]

\* What the simulation reports of a program is what the program did.
ResultsRight == TypeOK /\ ExitStatusRight /\ SignatureRight

\* A client reads what its own earlier commands have shifted out: the tdi of the
\* last rising edge that a falling edge has followed.
Level(done, n) ==
  LET sets == {i \in 1 .. n : done[i].k = "set"}
  IN  IF sets = {} THEN 1 ELSE done[Max(sets)].tck
EdgesTo(done, n, level) == {i \in 1 .. n : Level(done, i - 1) # Level(done, i) /\ Level(done, i) = level}
LastTdi(done, n) ==
  LET rises == EdgesTo(done, n, 1)
  IN  IF rises = {} THEN 0 ELSE done[Max(rises)].tdi
Out(done, n)   == LastTdi(done, Max(EdgesTo(done, n, 0) \cup {0}))
Asked(done, n) == {i \in 1 .. n : done[i].k = "R"}
JtagReadsRight ==
  LET done  == remote.done
      asked == Asked(done, Len(done))
  IN  /\ Len(remote.got) = Cardinality(asked)
      /\ \A i \in asked : remote.got[Cardinality(Asked(done, i))] = Out(done, i)

\* The simulation ends when the program has, or the client has quit.
SimulationEnds ==
  prog.ended # Running \/ (job.jtag /\ Contains(job.script, Quit)) ~> sim.status # None
============================================================================
