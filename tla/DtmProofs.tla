----------------------------- MODULE DtmProofs -----------------------------
(***************************************************************************)
(* The debug transport module, whatever memory, chunks and routines.       *)
(*                                                                         *)
(* The handshake of dtm_t::tick: a request is presented only when no       *)
(* answer is owed, so that an answer is there only while one is waited     *)
(* for, and at most one is (TickAsserts).                                  *)
(*                                                                         *)
(* What host, module and hart are doing between two requests is one of a   *)
(* few places (Labels); Ctl says what holds there, and Edge which requests *)
(* may be made at a place and where they lead.                             *)
(*                                                                         *)
(* The data of a place (States) are registers, dpc and memory as the host  *)
(* sees them, the module's data, program and command registers, and the    *)
(* host's variables.  While a command is under way Midway says where in it *)
(* the hart is and that it takes the data from f to e (Ends); Executed     *)
(* says what each program of the program buffer makes of them.  A spot is  *)
(* a place with its data, Step an edge with what it does to them, and a    *)
(* sequence of requests is Legal from x to z when steps take it there.     *)
(*                                                                         *)
(* Every routine of dtm.cc is put together from its parts into such a      *)
(* sequence from "out" to "out", with what it leaves in memory, in dpc and *)
(* in what was read (ReadRoute, WriteRoute, ClearRoute, ResetRoute).  The  *)
(* invariant LinkInv says that the requests left lead from where the       *)
(* system is to the end of the routine, where it has done what was asked   *)
(* of it.                                                                  *)
(***************************************************************************)
EXTENDS Dtm, SequenceTheorems, WellFoundedInduction, TLAPS

Handshake ==
  /\ req_wait \in BOOLEAN /\ resp_wait \in BOOLEAN
  /\ resp_queue = <<>> \/ \E r : resp_queue = << r >>
  /\ resp_queue # <<>> => resp_wait
  /\ ~(req_wait /\ resp_wait)

LEMMA HandshakeInit == Init => Handshake
BY DEF Init, Handshake

\* A cycle in which an answer is taken: nothing was accepted in it.
LEMMA TickTakes ==
  ASSUME Handshake, tick, resp_queue # <<>>
  PROVE  resp_queue' = <<>> /\ resp_wait' = FALSE /\ req_wait' = FALSE
<1>1. resp_wait = TRUE /\ req_wait = FALSE /\ ~Accepted
  BY DEF Handshake, Accepted
<1>2. PICK r : resp_queue = << r >>
  BY DEF Handshake
<1>3. Left = <<>>
  <2>1. << r >> \in Seq({r}) /\ Len(<< r >>) = 1
    OBVIOUS
  <2>2. Tail(<< r >>) \in Seq({r}) /\ Len(Tail(<< r >>)) = 0
    BY <2>1
  <2>3. Tail(<< r >>) = <<>>
    BY <2>2
  <2> QED BY <1>2, <2>3 DEF Left
<1>4. resp_queue' = <<>>
  <2>1. resp_queue' = <<>> \o <<>>
    BY <1>1, <1>3 DEF tick
  <2> QED BY <2>1
<1>5. resp_wait' = FALSE /\ req_wait' = FALSE
  BY <1>1, Zenon DEF tick, NextReqWait
<1> QED BY <1>4, <1>5

\* A cycle without an answer: one is owed from the next on if a request was
\* accepted in it.
LEMMA TickWaits ==
  ASSUME Handshake, tick, resp_queue = <<>>
  PROVE  /\ resp_queue' = IF Accepted THEN << Response >> ELSE <<>>
         /\ resp_wait' = (resp_wait \/ Accepted)
         /\ req_wait' = (~resp_wait /\ ~Accepted)
<1>1. Left = <<>>
  BY DEF Left
<1>2. resp_queue' = IF Accepted THEN << Response >> ELSE <<>>
  <2>1. CASE Accepted
    <3>1. resp_queue' = <<>> \o << Response >>
      BY <1>1, <2>1 DEF tick
    <3> QED BY <2>1, <3>1
  <2>2. CASE ~Accepted
    <3>1. resp_queue' = <<>> \o <<>>
      BY <1>1, <2>2 DEF tick
    <3> QED BY <2>2, <3>1
  <2> QED BY <2>1, <2>2
<1> QED BY <1>2, Zenon DEF tick, NextReqWait

LEMMA HandshakeStep == Handshake /\ [Next]_vars => Handshake'
<1> SUFFICES ASSUME Handshake, [Next]_vars PROVE Handshake'
  OBVIOUS
<1>1. CASE tick
  <2>1. CASE resp_queue # <<>>
    BY <1>1, <2>1, TickTakes DEF Handshake
  <2>2. CASE resp_queue = <<>>
    <3>1. Accepted \in BOOLEAN
      BY DEF Accepted
    <3>2. CASE Accepted
      BY <1>1, <2>2, <3>2, TickWaits DEF Handshake
    <3>3. CASE ~Accepted
      BY <1>1, <2>2, <3>3, TickWaits DEF Handshake
    <3> QED BY <3>2, <3>3
  <2> QED BY <2>1, <2>2
<1>2. CASE UNCHANGED <<req_wait, resp_wait, resp_queue>>
  BY <1>2 DEF Handshake
<1>3. Next => tick \/ UNCHANGED <<req_wait, resp_wait, resp_queue>>
  BY DEF Next, Cycle, HostNext, NextOp, Write, Clear
<1>4. UNCHANGED vars => UNCHANGED <<req_wait, resp_wait, resp_queue>>
  BY DEF vars, dtmVars
<1> QED BY <1>1, <1>2, <1>3, <1>4

\* The assertions of tick hold: no answer comes unasked, and a request and its
\* answer are never waited for at once.
THEOREM TickAsserts == Spec => []AssertionsHold
<1>1. Handshake => AssertionsHold
  BY DEF Handshake, AssertionsHold
<1> QED BY <1>1, HandshakeInit, HandshakeStep, PTL DEF Spec

----------------------------------------------------------------------------
\* Words of the program buffer: none leads behind its end.
Opcodes == {"ebreak", "load", "store", "addi", "bne", "load_data", "swap_dscratch",
            "swap_dpc", "store_data", "fence_i", "illegal"}
Fine(i, w) == /\ w[1] \in Opcodes
              /\ i = ProgBufSize => w[1] \in {"ebreak", "illegal"}
              /\ w[1] = "bne" => w[2] = 1

Command(c) == {c.transfer, c.write, c.postexec} \subseteq BOOLEAN
Plain(c)   == c.size < 4 /\ c.transfer = TRUE /\ c.postexec = FALSE

Static ==
  /\ \A i \in 1 .. ProgBufSize : Fine(i, progbuf_q[i])
  /\ Command(command_q)
  /\ DOMAIN mem = Addrs /\ DOMAIN host = {"s0", "s1", "data", "cmderr", "got"}

\* What the hart is doing.
Bufs == {"PROGBUF0", "PROGBUF1", "PROGBUF2", "PROGBUF3", "PROGBUF4", "PROGBUF5"}

Runs == state_q = "Idle" /\ halted_q = FALSE /\ hpc \in {"dret", "user"}
Kept == state_q = "Idle" /\ halted_q = TRUE /\ resuming_q = FALSE /\ Parked
Stopping ==
  /\ state_q = "Idle" /\ resuming_q = FALSE
  /\ \/ halted_q = FALSE /\ hpc \in {"user", "dret", "entry", "entry_loop"}
     \/ halted_q = TRUE /\ Parked
Works(where) ==
  /\ halted_q = TRUE /\ resuming_q = FALSE
  /\ \/ state_q = "Idle" /\ Parked
     \/ state_q = "Go" /\ (Parked \/ hpc = "going")
     \/ state_q = "CmdExecuting" /\ hpc \in where
Gone == resuming_q = TRUE /\ halted_q = FALSE /\ hpc \in {"dret", "user"}
Leaves ==
  \/ Kept
  \/ state_q = "Resume" /\ halted_q = TRUE /\ resuming_q = FALSE /\ (Parked \/ hpc = "resume")
  \/ state_q \in {"Idle", "Resume"} /\ Gone

Anywhere == {"whereto", "abstract", "exception", "entry", "entry_loop"} \cup Bufs
Nowhere  == {"whereto", "abstract", "entry", "entry_loop"}

Sees(h, r, auto) == dmcontrol_q = DMControl(h, r, 0, TRUE) /\ autoexec_q = auto
Clean == cmderr_q = "None"
Errs  == cmderr_q \in {"None", "Exception"}

Ctl(l) ==
  CASE l = "init" -> /\ dmcontrol_q = DMControl(FALSE, FALSE, 0, FALSE) /\ autoexec_q = FALSE
                     /\ Runs /\ resuming_q = FALSE /\ Clean
    [] l = "out" -> /\ \E sel \in 0 .. 1 : dmcontrol_q = DMControl(FALSE, FALSE, sel, TRUE)
                    /\ autoexec_q = FALSE /\ Runs /\ resuming_q = FALSE /\ Clean
    [] l = "leaving" -> Sees(FALSE, FALSE, FALSE) /\ Clean /\ state_q = "Idle" /\ Gone
    [] l = "halting"  -> Sees(TRUE, FALSE, FALSE) /\ Clean /\ Stopping
    [] l = "halted"   -> Sees(TRUE, FALSE, FALSE) /\ Clean /\ Kept
    [] l = "in"       -> Sees(FALSE, FALSE, FALSE) /\ Clean /\ Kept
    [] l = "err"      -> Sees(FALSE, FALSE, FALSE) /\ Errs /\ Kept
    [] l = "busy"     -> Sees(FALSE, FALSE, FALSE) /\ Errs /\ Works(Anywhere)
    [] l = "sure"     -> Sees(FALSE, FALSE, FALSE) /\ Clean /\ Works(Nowhere) /\ Plain(command_q)
    [] l = "auto"     -> Sees(FALSE, FALSE, TRUE) /\ Clean /\ Kept
    [] l = "autoerr"  -> Sees(FALSE, FALSE, TRUE) /\ Errs /\ Kept
    [] l = "autobusy" -> Sees(FALSE, FALSE, TRUE) /\ Errs /\ Works(Anywhere)
    [] l = "resuming" -> Sees(FALSE, TRUE, FALSE) /\ Clean /\ Leaves
    [] l = "resumed"  -> Sees(FALSE, TRUE, FALSE) /\ Clean /\ state_q = "Idle" /\ Gone

Knows(l) == l \in {"err", "autoerr"} => host.cmderr = cmderr_q

----------------------------------------------------------------------------
\* The requests that may be made at each place, and where they lead.
Looks(t) == /\ t.k \in {"nop", "read"}
            /\ "to" \in DOMAIN t => t.to \in {"s0", "s1", "data", "got"}
Puts(t, addr) == t.k = "write" /\ t.addr = addr
Fills(t) == /\ t.k \in {"write", "half"}
            /\ t.addr \in {DATA[1], DATA[2]}
Programs(t) == t.k = "write" /\ \E i \in 1 .. ProgBufSize : t.addr = PROGBUF[i] /\ Fine(i, t.val)

Steers(a, v, b) ==
  \/ a \in {"init", "out"} /\ b = "out" /\ \E sel \in 0 .. 1 : v = DMControl(FALSE, FALSE, sel, TRUE)
  \/ a = "out" /\ b = "halting" /\ v = DMControl(TRUE, FALSE, 0, TRUE)
  \/ a = "halted" /\ b = "in" /\ v = DMControl(FALSE, FALSE, 0, TRUE)
  \/ a = "in" /\ b = "resuming" /\ v = DMControl(FALSE, TRUE, 0, TRUE)
  \/ a = "resumed" /\ b = "out" /\ v = DMControl(FALSE, FALSE, 0, TRUE)
Starts(a, v, b) == a = "in" /\ Command(v) /\ (b = "busy" \/ (b = "sure" /\ Plain(v)))
Waits(a, t, b) ==
  \/ t = NotBusy /\ <<a, b>> \in {<<"busy", "err">>, <<"sure", "in">>, <<"autobusy", "autoerr">>}
  \/ t = Until("allhalted") /\ a = "halting" /\ b = "halted"
  \/ t = Until("allresumeack") /\ a = "resuming" /\ b = "resumed"
Clears(a, b) == <<a, b>> \in {<<"in", "in">>, <<"err", "in">>, <<"autoerr", "auto">>}
Switches(a, v, b) == (a = "in" /\ v = TRUE /\ b = "auto") \/ (a = "auto" /\ v = FALSE /\ b = "in")

Edge(a, t, b) ==
  \/ a = b /\ a \in {"init", "out", "in", "err"} /\ Looks(t)
  \/ a = "in" /\ b = "in" /\ (Fills(t) \/ Programs(t))
  \/ a = "auto" /\ b = "auto" /\ Puts(t, DATA[2])
  \/ a = "auto" /\ b = "autobusy" /\ Puts(t, DATA[1])
  \/ Puts(t, "DMCONTROL") /\ Steers(a, t.val, b)
  \/ Puts(t, "COMMAND") /\ Starts(a, t.val, b)
  \/ Puts(t, "AUTO") /\ Switches(a, t.val, b)
  \/ (t = die \/ Puts(t, "ABSTRACTCS")) /\ Clears(a, b)
  \/ Waits(a, t, b)

\* A sequence of requests that leads from a to b.
Labels == {"init", "out", "halting", "halted", "in", "err", "busy", "sure",
           "auto", "autoerr", "autobusy", "resuming", "resumed"}

\* A request that the module has taken, with its answer r.
Sent(a, t, b, r) ==
  IF t.k = "until" THEN Ctl(a) /\ (r[t.field] => Ctl(b))
  ELSE IF t.k = "done" THEN Ctl(a) /\ (~r.busy => Ctl(b) /\ r.cmderr = cmderr_q)
  ELSE Ctl(IF a = "resumed" THEN "leaving" ELSE b) /\ Knows(b)


----------------------------------------------------------------------------
\* The hart's turn in a cycle, with the access acc that goes with it.
Moves(acc) ==
  \/ hpc' = hpc /\ acc.at = "none"
  \/ hpc = "user" /\ acc.at = "none" /\ hpc' = IF haltreq THEN "entry" ELSE "user"
  \/ hpc = "entry" /\ acc.at = "none" /\ hpc' = "entry_loop"
  \/ hpc = "entry_loop" /\ acc.at = "halted" /\ hpc' = "flag_go"
  \/ hpc = "flag_go" /\ acc.at = "none" /\ hpc' = IF go THEN "going" ELSE "flag_resume"
  \/ hpc = "flag_resume" /\ acc.at = "none" /\ hpc' = IF resume THEN "resume" ELSE "entry_loop"
  \/ hpc = "going" /\ acc.at = "going" /\ hpc' = "whereto"
  \/ /\ hpc = "whereto" /\ acc.at = "none"
     /\ hpc' = IF state_q = "Idle" THEN "resume"
               ELSE IF command_q.transfer = TRUE THEN "abstract" ELSE "PROGBUF0"
  \/ hpc = "resume" /\ acc.at = "resuming" /\ hpc' = "dret"
  \/ hpc = "dret" /\ acc.at = "none" /\ hpc' = "user"
  \/ hpc = "exception" /\ acc.at = "exception" /\ hpc' = "entry"
  \/ /\ hpc = "abstract" /\ acc.at \in {"none", "data"}
     /\ hpc' = IF ~(command_q.size < 4) THEN "exception"
               ELSE IF command_q.postexec = TRUE THEN "PROGBUF0" ELSE "entry"
  \/ hpc \in Bufs /\ acc.at \in {"none", "data"} /\ hpc' \in Bufs \cup {"entry", "exception"}

LEMMA BufNames ==
  /\ \A i \in 1 .. ProgBufSize : PROGBUF[i] \in Bufs
  /\ PROGBUF[1] = "PROGBUF0"
BY DEF PROGBUF, Bufs, ProgBufSize

LEMMA AccessAt ==
  /\ hpc = "entry_loop" => Access.at = "halted"
  /\ hpc = "going" => Access.at = "going"
  /\ hpc = "resume" => Access.at = "resuming"
  /\ hpc = "exception" => Access.at = "exception"
  /\ hpc \in {"abstract"} \cup Bufs => Access.at \in {"none", "data"}
  /\ hpc \in {"user", "entry", "flag_go", "flag_resume", "whereto", "dret"} => Access.at = "none"
<1>1. hpc \in {"user", "entry", "flag_go", "flag_resume", "whereto", "dret",
                "entry_loop", "going", "resume", "exception"} =>
        ~\E i \in 1 .. ProgBufSize : InProgbuf(i) /\ progbuf_q[i][1] = "store_data"
  BY BufNames DEF InProgbuf, At, Bufs
<1>2. hpc = "entry_loop" => Access.at = "halted"
  BY <1>1 DEF Access
<1>3. hpc = "going" => Access.at = "going"
  BY <1>1 DEF Access
<1>4. hpc = "resume" => Access.at = "resuming"
  BY <1>1 DEF Access
<1>5. hpc = "exception" => Access.at = "exception"
  BY <1>1 DEF Access
<1>6. hpc \in {"abstract"} \cup Bufs => Access.at \in {"none", "data"}
  BY DEF Access, NoAccess, Bufs
<1>7. hpc \in {"user", "entry", "flag_go", "flag_resume", "whereto", "dret"} => Access.at = "none"
  BY <1>1 DEF Access, NoAccess
<1> QED BY <1>2, <1>3, <1>4, <1>5, <1>6, <1>7


\* What an instruction of the program buffer does to the place and to memory.
LEMMA InstructionMoves ==
  ASSUME NEW i \in 1 .. ProgBufSize, NEW insn, Fine(i, insn), Instruction(i, insn), DOMAIN mem = Addrs
  PROVE  hpc' \in Bufs \cup {"entry", "exception"} /\ DOMAIN mem' = Addrs
<1>1. At(1) \in Bufs /\ (i # ProgBufSize => At(i + 1) \in Bufs)
  <2>1. i # ProgBufSize => i + 1 \in 1 .. ProgBufSize
    BY DEF ProgBufSize
  <2> QED BY <2>1, BufNames DEF At, ProgBufSize
<1>2. CASE insn[1] \in {"ebreak", "illegal"}
  BY <1>2 DEF Instruction
<1>3. CASE insn[1] \in {"load", "store"} /\ Faults(regs.s0)
  BY <1>3 DEF Instruction
<1>4. CASE insn[1] \notin {"ebreak", "illegal"} /\ ~(insn[1] \in {"load", "store"} /\ Faults(regs.s0))
  <2>1. insn[1] \in Opcodes /\ i # ProgBufSize /\ (insn[1] = "bne" => insn[2] = 1)
    BY <1>4 DEF Fine
  <2>2. CASE insn[1] = "load"
    BY <1>1, <1>4, <2>1, <2>2 DEF Instruction
  <2>3. CASE insn[1] = "store"
    <3>1. hpc' = At(i + 1) /\ mem' = [mem EXCEPT ![regs.s0[1]] = GetReg(insn[2])]
      BY <1>4, <2>3 DEF Instruction
    <3> QED BY <1>1, <2>1, <3>1
  <2>4. CASE insn[1] = "addi"
    BY <1>1, <2>1, <2>4 DEF Instruction
  <2>5. CASE insn[1] = "bne"
    BY <1>1, <2>1, <2>5 DEF Instruction
  <2>6. CASE insn[1] = "load_data"
    BY <1>1, <2>1, <2>6 DEF Instruction
  <2>7. CASE insn[1] = "swap_dscratch"
    BY <1>1, <2>1, <2>7 DEF Instruction
  <2>8. CASE insn[1] = "swap_dpc"
    BY <1>1, <2>1, <2>8 DEF Instruction
  <2>9. CASE insn[1] \in {"store_data", "fence_i"}
    BY <1>1, <2>1, <2>9 DEF Instruction
  <2> QED BY <1>4, <2>1, <2>2, <2>3, <2>4, <2>5, <2>6, <2>7, <2>8, <2>9 DEF Opcodes
<1> QED BY <1>2, <1>3, <1>4

Hart(stalled) == IF stalled THEN UNCHANGED hartVars ELSE HartStep
Acc(stalled)  == IF stalled THEN NoAccess ELSE Access

LEMMA HartTurn ==
  ASSUME Static, NEW stalled \in BOOLEAN, Hart(stalled)
  PROVE  Moves(Acc(stalled)) /\ DOMAIN mem' = Addrs
<1>1. CASE stalled
  BY <1>1 DEF Hart, Acc, hartVars, Moves, NoAccess, Static
<1>2. CASE ~stalled
  <2> DEFINE acc == Access
  <2>1. Acc(stalled) = Access /\ HartStep
    BY <1>2 DEF Acc, Hart
  <2> SUFFICES Moves(Access) /\ DOMAIN mem' = Addrs
    BY <2>1
  <2>2. CASE Interrupted
    BY <2>2, AccessAt DEF Interrupted, Rom, Moves, Static
  <2>3. CASE RunsOn
    BY <2>3, AccessAt DEF RunsOn, Rom, Moves, Static
  <2>4. CASE Entry
    BY <2>4, AccessAt DEF Entry, Rom, Moves, Static
  <2>5. CASE SayHalted
    BY <2>5, AccessAt DEF SayHalted, Rom, Moves, Static
  <2>6. CASE PollGo
    BY <2>6, AccessAt DEF PollGo, Rom, Moves, Static
  <2>7. CASE PollResume
    BY <2>7, AccessAt DEF PollResume, Rom, Moves, Static
  <2>8. CASE Going
    BY <2>8, AccessAt DEF Going, Rom, Moves, Static
  <2>9. CASE Whereto
    <3>1. hpc' = IF state_q = "Idle" THEN "resume"
                 ELSE IF command_q.transfer = TRUE THEN "abstract" ELSE "PROGBUF0"
      <4>1. command_q.transfer \in BOOLEAN
        BY DEF Static, Command
      <4>2. CASE state_q = "Idle"
        BY <2>9, <4>2 DEF Whereto, Rom, cmdbusy
      <4>3. CASE state_q # "Idle" /\ command_q.transfer = TRUE
        BY <2>9, <4>3 DEF Whereto, Rom, cmdbusy
      <4>4. CASE state_q # "Idle" /\ command_q.transfer = FALSE
        BY <2>9, <4>4, BufNames DEF Whereto, Rom, cmdbusy, At
      <4> QED BY <4>1, <4>2, <4>3, <4>4
    <3> QED BY <2>9, <3>1, AccessAt DEF Whereto, Rom, Moves, Static
  <2>10. CASE Resuming
    BY <2>10, AccessAt DEF Resuming, Rom, Moves, Static
  <2>11. CASE Dret
    BY <2>11, AccessAt DEF Dret, Rom, Moves, Static
  <2>12. CASE Excepts
    BY <2>12, AccessAt DEF Excepts, Rom, Moves, Static
  <2>13. CASE Abstract
    <3>1. command_q.postexec \in BOOLEAN
      BY DEF Static, Command
    <3>2. hpc' = IF ~(command_q.size < 4) THEN "exception"
                 ELSE IF command_q.postexec = TRUE THEN "PROGBUF0" ELSE "entry"
      BY <2>13, <3>1, BufNames DEF Abstract, AbstractLegal, At
    <3> QED BY <2>13, <3>2, AccessAt DEF Abstract, Moves, Static
  <2>14. CASE Progbuf
    <3>1. PICK i \in 1 .. ProgBufSize : InProgbuf(i) /\ Instruction(i, progbuf_q[i])
      BY <2>14 DEF Progbuf
    <3>2. Fine(i, progbuf_q[i]) /\ DOMAIN mem = Addrs
      BY DEF Static
    <3>3. hpc' \in Bufs \cup {"entry", "exception"} /\ DOMAIN mem' = Addrs
      BY <3>1, <3>2, InstructionMoves
    <3>4. hpc \in Bufs
      BY <3>1, BufNames DEF InProgbuf, At
    <3> QED BY <3>3, <3>4, AccessAt DEF Moves
  <2> QED BY <2>1, <2>2, <2>3, <2>4, <2>5, <2>6, <2>7, <2>8, <2>9, <2>10, <2>11, <2>12, <2>13,
             <2>14 DEF HartStep
<1> QED BY <1>1, <1>2


----------------------------------------------------------------------------
\* A cycle in which no request changes a control register or starts a command.
Harmless(req) ==
  /\ \A addr \in {"DMCONTROL", "COMMAND", "AUTO", "ABSTRACTCS"} : ~Writes(req, addr)
  /\ autoexec_q = TRUE => ~Touches(req, DATA[1])

\* The turn of the module, with the access at of the hart.
Advances(at) ==
  /\ halted_q' = IF at = "halted" THEN TRUE ELSE IF at = "resuming" THEN FALSE ELSE halted_q
  /\ resuming_q' = (at = "resuming" \/ (resuming_q /\ resumereq))
  /\ state_q = "Go" => state_q' = IF at = "going" THEN "CmdExecuting" ELSE "Go"
  /\ state_q = "Resume" => state_q' = IF resuming_q THEN "Idle" ELSE "Resume"
  /\ state_q = "CmdExecuting" => state_q' = IF at = "halted" THEN "Idle" ELSE "CmdExecuting"

Rest(at) ==
  /\ cmderr_q' = IF at = "exception" THEN "Exception" ELSE cmderr_q
  /\ Advances(at)
  /\ state_q = "Idle" =>
       state_q' = IF resumereq /\ ~resuming_q /\ ~haltreq /\ halted_q THEN "Resume" ELSE "Idle"
Same == dmcontrol_q' = dmcontrol_q /\ autoexec_q' = autoexec_q /\ command_q' = command_q

LEMMA AnyTurn ==
  ASSUME NEW req, NEW acc, DmCycle(req, acc)
  PROVE  Advances(acc.at)
BY DEF DmCycle, Advances, NextHalted, NextResuming, NextState

LEMMA QuietTurn ==
  ASSUME NEW req, NEW acc, DmCycle(req, acc), Harmless(req), dmcontrol_q.dmactive = TRUE
  PROVE  Rest(acc.at) /\ Same
<1>1. ~cmd_valid(req)
  BY DEF Harmless, cmd_valid
<1>2. Advances(acc.at)
  BY AnyTurn
<1>3. state_q = "Idle" =>
       state_q' = IF resumereq /\ ~resuming_q /\ ~haltreq /\ halted_q THEN "Resume" ELSE "Idle"
  BY <1>1 DEF DmCycle, NextState
<1>4. cmderr_q' = IF acc.at = "exception" THEN "Exception" ELSE cmderr_q
  <2>1. cmderr_q' = NextError(req, acc)
    BY DEF DmCycle
  <2>2. ~(req.op = "write" /\ req.addr \in {"ABSTRACTCS", "COMMAND", "AUTO"})
    BY DEF Harmless, Writes
  <2> QED BY <1>1, <2>1, <2>2 DEF NextError, Writes
<1>5. dmcontrol_q' = dmcontrol_q /\ autoexec_q' = autoexec_q /\ command_q' = command_q
  BY DEF DmCycle, Harmless
<1> QED BY <1>2, <1>3, <1>4, <1>5 DEF Rest, Same

\* Before the module is switched on.
LEMMA SleepingTurn ==
  ASSUME NEW req, NEW acc, DmCycle(req, acc), Harmless(req), Ctl("init")
  PROVE  Ctl("init")' <=> (Runs' /\ resuming_q' = FALSE)
<1>1. /\ dmcontrol_q = DMControl(FALSE, FALSE, 0, FALSE) /\ autoexec_q = FALSE
      /\ Runs /\ resuming_q = FALSE /\ Clean
  BY DEF Ctl
<1>2. dmcontrol_q.dmactive = FALSE
  BY <1>1 DEF DMControl
<1>3. ~Writes(req, "DMCONTROL")
  BY DEF Harmless
<1>4. dmcontrol_q' = DMControl(FALSE, FALSE, 0, FALSE) /\ autoexec_q' = FALSE /\ cmderr_q' = "None"
  BY <1>2, <1>3 DEF DmCycle, DmReset, DMControl
<1> QED BY <1>4 DEF Ctl, Clean


\* The hart and the module in a cycle in which the module is left alone.
Calm(acc) == Moves(acc) /\ Rest(acc.at)

LEMMA Signals ==
  ASSUME NEW h \in BOOLEAN, NEW r \in BOOLEAN, NEW auto, Sees(h, r, auto)
  PROVE  /\ dmcontrol_q.dmactive = TRUE
         /\ haltreq = h /\ resumereq = r
         /\ go = (state_q = "Go") /\ resume = (state_q = "Resume")
<1>1. /\ dmcontrol_q.dmactive = TRUE /\ dmcontrol_q.hartsel = 0
      /\ dmcontrol_q.haltreq = h /\ dmcontrol_q.resumereq = r
  BY DEF Sees, DMControl
<1> QED BY <1>1 DEF haltreq, resumereq, go, resume, Selected

LEMMA SeesCalm ==
  ASSUME NEW h, NEW r, NEW auto, Sees(h, r, auto), Same
  PROVE  Sees(h, r, auto)'
BY DEF Sees, Same

LEMMA KeptCalm ==
  ASSUME NEW h \in BOOLEAN, NEW auto, Sees(h, FALSE, auto), Kept, NEW acc, Calm(acc)
  PROVE  Kept' /\ cmderr_q' = cmderr_q
<1>1. haltreq = h /\ resumereq = FALSE /\ go = FALSE /\ resume = FALSE
  BY Signals DEF Kept
<1>2. (hpc' = hpc /\ acc.at = "none") \/ (acc.at \in {"none", "halted"} /\ hpc' \in {"entry_loop", "flag_go", "flag_resume"})
  BY <1>1 DEF Calm, Moves, Kept, Parked, Bufs
<1> QED BY <1>1, <1>2 DEF Calm, Rest, Advances, Kept, Parked

\* Running, with or without a resume acknowledge still to be lowered.
LEMMA RunsCalm ==
  ASSUME Runs, haltreq = FALSE, resumereq = FALSE, NEW acc, Calm(acc)
  PROVE  Runs' /\ resuming_q' = FALSE /\ cmderr_q' = cmderr_q
<1>1. acc.at = "none" /\ hpc' \in {"dret", "user"}
  BY DEF Calm, Moves, Runs, Bufs
<1> QED BY <1>1 DEF Calm, Rest, Advances, Runs

LEMMA StoppingCalm ==
  ASSUME NEW auto, Sees(TRUE, FALSE, auto), Stopping, NEW acc, Calm(acc)
  PROVE  Stopping' /\ cmderr_q' = cmderr_q
<1>1. haltreq = TRUE /\ resumereq = FALSE /\ go = FALSE /\ resume = FALSE
  BY Signals DEF Stopping
<1>2. CASE halted_q = TRUE /\ Parked
  BY <1>2, KeptCalm DEF Kept, Stopping
<1>3. CASE halted_q = FALSE /\ hpc \in {"user", "dret", "entry", "entry_loop"}
  <2>1. \/ acc.at = "none" /\ hpc' \in {"user", "dret", "entry", "entry_loop"}
        \/ acc.at = "halted" /\ hpc' = "flag_go"
    BY <1>1, <1>3 DEF Calm, Moves, Bufs
  <2> QED BY <1>1, <1>3, <2>1 DEF Calm, Rest, Advances, Stopping, Parked
<1> QED BY <1>2, <1>3 DEF Stopping

LEMMA WorksCalm ==
  ASSUME NEW auto, Sees(FALSE, FALSE, auto), Works(Anywhere), Errs, NEW acc, Calm(acc)
  PROVE  Works(Anywhere)' /\ Errs'
<1>1. haltreq = FALSE /\ resumereq = FALSE /\ go = (state_q = "Go") /\ resume = (state_q = "Resume")
  BY Signals
<1>2. CASE state_q = "Idle" /\ Parked
  BY <1>2, KeptCalm DEF Kept, Works, Errs
<1>3. CASE state_q = "Go" /\ (Parked \/ hpc = "going")
  <2>1. \/ acc.at \in {"none", "halted"} /\ hpc' \in {"entry_loop", "flag_go", "flag_resume", "going"}
        \/ acc.at = "going" /\ hpc' = "whereto"
    BY <1>1, <1>3 DEF Calm, Moves, Bufs, Parked
  <2> QED BY <1>1, <1>3, <2>1 DEF Calm, Rest, Advances, Works, Parked, Anywhere, Errs
<1>4. CASE state_q = "CmdExecuting" /\ hpc \in Anywhere
  <2>1. \/ acc.at \in {"none", "data", "exception"} /\ hpc' \in Anywhere
        \/ acc.at = "halted" /\ hpc' = "flag_go"
    BY <1>1, <1>4 DEF Calm, Moves, Bufs, Anywhere
  <2> QED BY <1>1, <1>4, <2>1 DEF Calm, Rest, Advances, Works, Parked, Errs
<1> QED BY <1>2, <1>3, <1>4 DEF Works

LEMMA SureCalm ==
  ASSUME NEW auto, Sees(FALSE, FALSE, auto), Works(Nowhere), Plain(command_q), NEW acc, Calm(acc), Same
  PROVE  Works(Nowhere)' /\ cmderr_q' = cmderr_q /\ Plain(command_q)'
<1>1. haltreq = FALSE /\ resumereq = FALSE /\ go = (state_q = "Go") /\ resume = (state_q = "Resume")
  BY Signals
<1>2. Plain(command_q)'
  BY DEF Same, Plain
<1>3. CASE state_q = "Idle" /\ Parked
  BY <1>2, <1>3, KeptCalm DEF Kept, Works
<1>4. CASE state_q = "Go" /\ (Parked \/ hpc = "going")
  <2>1. \/ acc.at \in {"none", "halted"} /\ hpc' \in {"entry_loop", "flag_go", "flag_resume", "going"}
        \/ acc.at = "going" /\ hpc' = "whereto"
    BY <1>1, <1>4 DEF Calm, Moves, Bufs, Parked
  <2> QED BY <1>1, <1>2, <1>4, <2>1 DEF Calm, Rest, Advances, Works, Parked, Nowhere
<1>5. CASE state_q = "CmdExecuting" /\ hpc \in Nowhere
  <2>1. \/ acc.at \in {"none", "data"} /\ hpc' \in Nowhere
        \/ acc.at = "halted" /\ hpc' = "flag_go"
    BY <1>1, <1>5 DEF Calm, Moves, Bufs, Nowhere, Plain
  <2> QED BY <1>1, <1>2, <1>5, <2>1 DEF Calm, Rest, Advances, Works, Parked
<1> QED BY <1>3, <1>4, <1>5 DEF Works

LEMMA LeavesCalm ==
  ASSUME NEW auto, Sees(FALSE, TRUE, auto), Leaves, NEW acc, Calm(acc)
  PROVE  /\ Leaves' /\ cmderr_q' = cmderr_q
         /\ resuming_q = TRUE => state_q' = "Idle" /\ Gone'
<1>1. haltreq = FALSE /\ resumereq = TRUE /\ go = (state_q = "Go") /\ resume = (state_q = "Resume")
  BY Signals
<1>2. CASE Kept
  <2>1. acc.at \in {"none", "halted"} /\ hpc' \in {"entry_loop", "flag_go", "flag_resume"}
    BY <1>1, <1>2 DEF Calm, Moves, Bufs, Kept, Parked
  <2> QED BY <1>1, <1>2, <2>1 DEF Calm, Rest, Advances, Kept, Leaves, Parked
<1>3. CASE state_q = "Resume" /\ halted_q = TRUE /\ resuming_q = FALSE /\ (Parked \/ hpc = "resume")
  <2>1. \/ acc.at \in {"none", "halted"} /\ hpc' \in {"entry_loop", "flag_go", "flag_resume", "resume"}
        \/ acc.at = "resuming" /\ hpc' = "dret"
    BY <1>1, <1>3 DEF Calm, Moves, Bufs, Parked
  <2> QED BY <1>1, <1>3, <2>1 DEF Calm, Rest, Advances, Leaves, Gone, Parked
<1>4. CASE state_q \in {"Idle", "Resume"} /\ Gone
  <2>1. acc.at = "none" /\ hpc' \in {"dret", "user"}
    BY <1>1, <1>4 DEF Calm, Moves, Bufs, Gone
  <2> QED BY <1>1, <1>4, <2>1 DEF Calm, Rest, Advances, Leaves, Gone
<1> QED BY <1>2, <1>3, <1>4 DEF Leaves


After(l) == IF l = "leaving" THEN "out" ELSE l

LEMMA QuietKeeps ==
  ASSUME NEW l \in Labels \cup {"leaving"}, Ctl(l), NEW req, NEW acc,
         DmCycle(req, acc), Harmless(req), Moves(acc)
  PROVE  /\ Ctl(After(l))'
         /\ l \in {"err", "autoerr"} => cmderr_q' = cmderr_q
<1>1. CASE l = "init"
  <2>1. haltreq = FALSE /\ resumereq = FALSE /\ Runs /\ resuming_q = FALSE /\ halted_q = FALSE /\ state_q = "Idle"
    BY <1>1 DEF Ctl, DMControl, haltreq, resumereq, Runs
  <2>2. acc.at = "none" /\ hpc' \in {"dret", "user"}
    BY <2>1 DEF Moves, Runs, Bufs
  <2>3. Runs' /\ resuming_q' = FALSE
    BY <2>1, <2>2 DEF DmCycle, NextState, NextHalted, NextResuming, Runs
  <2> QED BY <1>1, <2>3, SleepingTurn DEF After
<1>2. CASE l = "out"
  <2>1. PICK sel \in 0 .. 1 : dmcontrol_q = DMControl(FALSE, FALSE, sel, TRUE)
    BY <1>2 DEF Ctl
  <2>2. haltreq = FALSE /\ resumereq = FALSE /\ dmcontrol_q.dmactive = TRUE
    BY <2>1 DEF DMControl, haltreq, resumereq
  <2>3. Calm(acc) /\ Same
    BY <2>2, QuietTurn DEF Calm
  <2>4. dmcontrol_q' = dmcontrol_q /\ autoexec_q' = FALSE
    BY <1>2, <2>3 DEF Same, Ctl
  <2>5. Runs' /\ resuming_q' = FALSE /\ cmderr_q' = cmderr_q
    BY <1>2, <2>2, <2>3, RunsCalm DEF Ctl
  <2> QED BY <1>2, <2>1, <2>4, <2>5 DEF Ctl, After, Clean
<1>3. CASE l = "leaving"
  <2>1. Sees(FALSE, FALSE, FALSE) /\ Clean /\ Runs
    BY <1>3 DEF Ctl, Runs, Gone
  <2>2. haltreq = FALSE /\ resumereq = FALSE /\ dmcontrol_q.dmactive = TRUE
    BY <2>1, Signals
  <2>3. Calm(acc) /\ Same
    BY <2>2, QuietTurn DEF Calm
  <2>4. Sees(FALSE, FALSE, FALSE)'
    BY <2>1, <2>3, SeesCalm
  <2>5. Runs' /\ resuming_q' = FALSE /\ cmderr_q' = cmderr_q
    BY <2>1, <2>2, <2>3, RunsCalm
  <2> QED BY <1>3, <2>1, <2>4, <2>5 DEF Ctl, After, Clean, Sees
<1>4. CASE l \notin {"init", "out", "leaving"}
  <2>1. PICK h, r, auto \in BOOLEAN : Sees(h, r, auto)
    BY <1>4 DEF Ctl, Labels
  <2>2. Calm(acc) /\ Same
    BY <2>1, Signals, QuietTurn DEF Calm
  <2>3. \A x, y, z : Sees(x, y, z) => Sees(x, y, z)'
    BY <2>2, SeesCalm
  <2>4. CASE l = "halting"
    BY <2>2, <2>3, <2>4, StoppingCalm DEF Ctl, After, Clean
  <2>5. CASE l \in {"halted", "in", "err", "auto", "autoerr"}
    BY <2>2, <2>3, <2>5, KeptCalm DEF Ctl, After, Clean, Errs
  <2>6. CASE l \in {"busy", "autobusy"}
    BY <2>2, <2>3, <2>6, WorksCalm DEF Ctl, After
  <2>7. CASE l = "sure"
    BY <2>2, <2>3, <2>7, SureCalm DEF Ctl, After, Clean
  <2>8. CASE l = "resuming"
    BY <2>2, <2>3, <2>8, LeavesCalm DEF Ctl, After, Clean
  <2>9. CASE l = "resumed"
    <3>1. Sees(FALSE, TRUE, FALSE) /\ Leaves /\ resuming_q = TRUE /\ Clean
      BY <2>9 DEF Ctl, Leaves, Gone
    <3> QED BY <2>2, <2>3, <2>9, <3>1, LeavesCalm DEF Ctl, After, Clean
  <2> QED BY <1>4, <2>4, <2>5, <2>6, <2>7, <2>8, <2>9 DEF Labels
<1> QED BY <1>1, <1>2, <1>3, <1>4


----------------------------------------------------------------------------
\* The requests of a routine, one by one.

\* No command starts with an error on the record.
StartsClean == state_q = "Idle" /\ state_q' = "Go" => cmderr_q = "None"

\* A cycle in which the module, not busy, keeps the hart parked.
LEMMA KeptCycle ==
  ASSUME NEW h \in BOOLEAN, NEW auto \in BOOLEAN, Sees(h, FALSE, auto), Kept,
         NEW req, NEW acc, DmCycle(req, acc), Moves(acc)
  PROVE  /\ halted_q' = TRUE /\ resuming_q' = FALSE /\ Parked'
         /\ state_q' = IF cmd_valid(req) THEN "Go" ELSE "Idle"
         /\ cmderr_q' = IF Writes(req, "ABSTRACTCS") THEN "None" ELSE cmderr_q
         /\ dmcontrol_q' = IF Writes(req, "DMCONTROL") THEN req.data ELSE dmcontrol_q
         /\ command_q' = IF Writes(req, "COMMAND") THEN req.data ELSE command_q
         /\ autoexec_q' = IF Writes(req, "AUTO") THEN req.data ELSE autoexec_q
<1>1. dmcontrol_q.dmactive = TRUE /\ resumereq = FALSE /\ go = FALSE /\ resume = FALSE
  BY Signals DEF Kept
<1>2. acc.at \in {"none", "halted"} /\ hpc' \in {"entry_loop", "flag_go", "flag_resume"}
  BY <1>1 DEF Moves, Kept, Parked, Bufs
<1>3. state_q = "Idle" /\ halted_q = TRUE /\ ~cmdbusy
  BY DEF Kept, cmdbusy
<1>4. halted_q' = TRUE /\ resuming_q' = FALSE
  BY <1>1, <1>2, AnyTurn DEF Advances, Kept
<1>5. state_q' = IF cmd_valid(req) THEN "Go" ELSE "Idle"
  BY <1>1, <1>3 DEF DmCycle, NextState
<1>6. cmderr_q' = IF Writes(req, "ABSTRACTCS") THEN "None" ELSE cmderr_q
  BY <1>1, <1>2, <1>3 DEF DmCycle, NextError
<1>7. /\ dmcontrol_q' = IF Writes(req, "DMCONTROL") THEN req.data ELSE dmcontrol_q
      /\ command_q' = IF Writes(req, "COMMAND") THEN req.data ELSE command_q
      /\ autoexec_q' = IF Writes(req, "AUTO") THEN req.data ELSE autoexec_q
  BY <1>1, <1>3 DEF DmCycle
<1> QED BY <1>2, <1>4, <1>5, <1>6, <1>7 DEF Parked

\* The state of a cycle in which the module has taken t, at a on the way to b.
Taken(a, t, b, r, acc) ==
  /\ a \in Labels /\ b \in Labels /\ Edge(a, t, b) /\ Ctl(a) /\ Knows(a)
  /\ Micro = t /\ r = Response /\ DmCycle(req_bits, acc) /\ Moves(acc) /\ host' = host
Arrives(a, t, b, r) == Sent(a, t, b, r)' /\ StartsClean

\* Requests that change nothing of what is tracked here.
LEMMA QuietTaken ==
  ASSUME NEW a, NEW t, NEW b, NEW r, NEW acc, Taken(a, t, b, r, acc), Harmless(req_bits)
  PROVE  /\ StartsClean /\ Ctl(a)'
         /\ Knows(a)'
<1>1. a \in Labels /\ Ctl(a) /\ DmCycle(req_bits, acc) /\ Moves(acc) /\ Knows(a) /\ host' = host
  BY DEF Taken
<1>2. After(a) = a /\ a \in Labels \cup {"leaving"}
  BY <1>1 DEF After, Labels
<1>3. Ctl(a)' /\ (a \in {"err", "autoerr"} => cmderr_q' = cmderr_q)
  BY <1>1, <1>2, QuietKeeps
<1>4. ~cmd_valid(req_bits)
  BY DEF Harmless, cmd_valid
<1>5. StartsClean
  BY <1>1, <1>4 DEF DmCycle, NextState, StartsClean
<1> QED BY <1>1, <1>3, <1>5 DEF Knows

\* What the places have in common.
LEMMA Places ==
  /\ \A l \in {"init", "out", "in", "err", "halting", "halted", "busy", "sure", "resuming", "resumed"} :
       Ctl(l) => autoexec_q = FALSE
  /\ \A l \in {"auto", "autoerr", "autobusy"} : Ctl(l) => autoexec_q = TRUE
BY DEF Ctl, Sees

LEMMA LookTaken ==
  ASSUME NEW a, NEW t, NEW r, NEW acc, Taken(a, t, a, r, acc),
         a \in {"init", "out", "in", "err"}, Looks(t)
  PROVE  Arrives(a, t, a, r)
<1>1. req_bits.op \in {"nop", "read"}
  BY DEF Taken, req_bits, Looks
<1>2. autoexec_q = FALSE
  BY Places DEF Taken
<1>3. Harmless(req_bits)
  BY <1>1, <1>2 DEF Harmless, Writes
<1>4. StartsClean /\ Ctl(a)' /\ Knows(a)'
  BY <1>3, QuietTaken
<1> QED BY <1>4 DEF Arrives, Sent, Looks

LEMMA FillTaken ==
  ASSUME NEW t, NEW r, NEW acc, Taken("in", t, "in", r, acc), Fills(t) \/ Programs(t)
  PROVE  Arrives("in", t, "in", r)
<1>1. autoexec_q = FALSE
  BY Places DEF Taken
<1>2. t.k \in {"write", "half"} /\ t.addr \in {"DATA0", "DATA1"} \cup Bufs
  BY BufNames DEF Fills, Programs, DATA
<1>3. req_bits.op = "write" /\ req_bits.addr = t.addr
  BY <1>2 DEF req_bits, Taken
<1>4. Harmless(req_bits)
  BY <1>1, <1>2, <1>3 DEF Harmless, Writes, Bufs
<1>5. StartsClean /\ Ctl("in")' /\ Knows("in")'
  BY <1>4, QuietTaken
<1> QED BY <1>2, <1>5 DEF Arrives, Sent

LEMMA AutoFillTaken ==
  ASSUME NEW t, NEW r, NEW acc, Taken("auto", t, "auto", r, acc), Puts(t, DATA[2])
  PROVE  Arrives("auto", t, "auto", r)
<1>1. req_bits.op = "write" /\ req_bits.addr = "DATA1" /\ t.k = "write"
  BY DEF req_bits, Taken, Puts, DATA
<1>2. Harmless(req_bits)
  BY <1>1 DEF Harmless, Writes, Touches, DATA
<1>3. StartsClean /\ Ctl("auto")' /\ Knows("auto")'
  BY <1>2, QuietTaken
<1> QED BY <1>1, <1>3 DEF Arrives, Sent

LEMMA WaitTaken ==
  ASSUME NEW a, NEW t, NEW b, NEW r, NEW acc, Taken(a, t, b, r, acc), Waits(a, t, b)
  PROVE  Arrives(a, t, b, r)
<1>1. /\ t.k \in {"done", "until"} /\ req_bits.op = "read"
      /\ req_bits.addr = t.addr /\ t.addr \in {"ABSTRACTCS", "DMSTATUS"}
  BY DEF Waits, NotBusy, Until, req_bits, Taken
<1>2. Harmless(req_bits)
  BY <1>1 DEF Harmless, Writes, Touches, DATA
<1>3. StartsClean /\ Ctl(a)'
  BY <1>2, QuietTaken
<1>4. r = ReadData(t.addr)
  BY <1>1 DEF Taken, Response
<1>5. CASE t = NotBusy
  <2>1. t.k = "done" /\ r.busy = cmdbusy /\ r.cmderr = cmderr_q
    BY <1>4, <1>5 DEF NotBusy, ReadData
  <2>2. ASSUME state_q = "Idle" PROVE Ctl(b)' /\ cmderr_q' = cmderr_q
    <3>1. PICK auto \in BOOLEAN : Sees(FALSE, FALSE, auto) /\ (auto <=> a = "autobusy")
      BY <1>5 DEF Taken, Waits, NotBusy, Until, Ctl
    <3>2. Kept
      BY <1>5, <2>2 DEF Taken, Waits, NotBusy, Until, Ctl, Works, Kept
    <3>3. DmCycle(req_bits, acc) /\ Moves(acc)
      BY DEF Taken
    <3>4. /\ halted_q' = TRUE /\ resuming_q' = FALSE /\ Parked'
          /\ state_q' = "Idle" /\ cmderr_q' = cmderr_q /\ dmcontrol_q' = dmcontrol_q
          /\ autoexec_q' = autoexec_q
      <4>1. ~cmd_valid(req_bits)
        BY <1>2 DEF Harmless, cmd_valid
      <4> QED BY <1>2, <3>1, <3>2, <3>3, <4>1, KeptCycle DEF Harmless
    <3>5. Kept' /\ Sees(FALSE, FALSE, auto)'
      BY <3>1, <3>4 DEF Kept, Sees
    <3>6. Errs /\ (a = "sure" => Clean)
      BY <1>5 DEF Taken, Waits, NotBusy, Until, Ctl, Errs, Clean
    <3>7. <<a, b>> \in {<<"busy", "err">>, <<"sure", "in">>, <<"autobusy", "autoerr">>}
      BY <1>5 DEF Waits, NotBusy, Until
    <3> QED BY <3>1, <3>4, <3>5, <3>6, <3>7 DEF Ctl, Errs, Clean
  <2>3. cmdbusy = FALSE => state_q = "Idle"
    BY DEF cmdbusy
  <2> QED BY <1>3, <2>1, <2>2, <2>3 DEF Arrives, Sent
<1>6. CASE t = Until("allhalted") /\ a = "halting" /\ b = "halted"
  <2>1. t.k = "until" /\ t.field = "allhalted" /\ r.allhalted = halted_q
    BY <1>4, <1>6 DEF Until, ReadData, dmstatus
  <2>2. ASSUME halted_q = TRUE PROVE Ctl("halted")'
    <3>1. Sees(TRUE, FALSE, FALSE) /\ Kept /\ Clean
      BY <1>6, <2>2 DEF Taken, Ctl, Stopping, Kept
    <3>2. DmCycle(req_bits, acc) /\ Moves(acc)
      BY DEF Taken
    <3>3. Ctl("halted")
      BY <3>1 DEF Ctl
    <3> QED BY <1>2, <3>2, <3>3, QuietKeeps DEF Labels, After
  <2> QED BY <1>3, <1>6, <2>1, <2>2 DEF Arrives, Sent
<1>7. CASE t = Until("allresumeack") /\ a = "resuming" /\ b = "resumed"
  <2>1. t.k = "until" /\ t.field = "allresumeack" /\ r.allresumeack = resuming_q
    BY <1>4, <1>7 DEF Until, ReadData, dmstatus
  <2>2. ASSUME resuming_q = TRUE PROVE Ctl("resumed")'
    <3>1. Sees(FALSE, TRUE, FALSE) /\ Leaves /\ Clean
      BY <1>7 DEF Taken, Ctl
    <3>2. DmCycle(req_bits, acc) /\ Moves(acc)
      BY DEF Taken
    <3>3. Calm(acc) /\ Same
      BY <1>2, <3>1, <3>2, Signals, QuietTurn DEF Calm
    <3>4. state_q' = "Idle" /\ Gone' /\ cmderr_q' = cmderr_q
      BY <2>2, <3>1, <3>3, LeavesCalm
    <3>5. Sees(FALSE, TRUE, FALSE)'
      BY <3>1, <3>3, SeesCalm
    <3> QED BY <3>1, <3>4, <3>5 DEF Ctl, Clean
  <2> QED BY <1>3, <1>7, <2>1, <2>2 DEF Arrives, Sent
<1> QED BY <1>5, <1>6, <1>7 DEF Waits


\* Requests that change a register while the hart is parked.
LEMMA PutBits ==
  ASSUME NEW t, NEW addr, Puts(t, addr), Micro = t
  PROVE  req_bits = [op |-> "write", addr |-> addr, data |-> t.val]
BY DEF Puts, req_bits

LEMMA StartTaken ==
  ASSUME NEW a, NEW t, NEW b, NEW r, NEW acc, Taken(a, t, b, r, acc),
         Puts(t, "COMMAND"), Starts(a, t.val, b)
  PROVE  Arrives(a, t, b, r)
<1>1. req_bits = [op |-> "write", addr |-> "COMMAND", data |-> t.val] /\ t.k = "write"
  BY PutBits DEF Taken, Puts
<1>2. a = "in" /\ Sees(FALSE, FALSE, FALSE) /\ Kept /\ Clean /\ DmCycle(req_bits, acc) /\ Moves(acc)
  BY DEF Taken, Starts, Ctl
<1>3. cmd_valid(req_bits)
  BY <1>1, <1>2 DEF cmd_valid, cmdbusy, Kept, Writes
<1>4. /\ halted_q' = TRUE /\ resuming_q' = FALSE /\ Parked' /\ state_q' = "Go"
      /\ cmderr_q' = cmderr_q /\ dmcontrol_q' = dmcontrol_q /\ command_q' = t.val
      /\ autoexec_q' = autoexec_q
  <2>1. /\ req_bits.data = t.val
        /\ \A addr \in {"ABSTRACTCS", "DMCONTROL", "COMMAND", "AUTO"} : Writes(req_bits, addr) <=> addr = "COMMAND"
    BY <1>1 DEF Writes
  <2> QED BY <1>2, <1>3, <2>1, KeptCycle
<1>5. Sees(FALSE, FALSE, FALSE)' /\ Clean' /\ Works(Anywhere)' /\ Works(Nowhere)'
  BY <1>2, <1>4 DEF Sees, Clean, Works
<1>6. b = "busy" \/ (b = "sure" /\ Plain(command_q'))
  BY <1>4 DEF Starts
<1>7. Ctl(b)' /\ Knows(b)'
  BY <1>5, <1>6 DEF Ctl, Clean, Errs, Knows, Plain
<1> QED BY <1>1, <1>2, <1>7 DEF Arrives, Sent, StartsClean, Clean

LEMMA AutoStartTaken ==
  ASSUME NEW t, NEW r, NEW acc, Taken("auto", t, "autobusy", r, acc), Puts(t, DATA[1])
  PROVE  Arrives("auto", t, "autobusy", r)
<1>1. req_bits = [op |-> "write", addr |-> "DATA0", data |-> t.val] /\ t.k = "write"
  BY PutBits DEF Taken, Puts, DATA
<1>2. Sees(FALSE, FALSE, TRUE) /\ Kept /\ Clean /\ DmCycle(req_bits, acc) /\ Moves(acc)
  BY DEF Taken, Ctl
<1>3. cmd_valid(req_bits)
  BY <1>1, <1>2 DEF cmd_valid, cmdbusy, Kept, Touches, DATA, Sees
<1>4. /\ halted_q' = TRUE /\ resuming_q' = FALSE /\ Parked' /\ state_q' = "Go"
      /\ cmderr_q' = cmderr_q /\ dmcontrol_q' = dmcontrol_q /\ autoexec_q' = autoexec_q
  <2>1. /\ req_bits.data = t.val
        /\ \A addr \in {"ABSTRACTCS", "DMCONTROL", "COMMAND", "AUTO"} : Writes(req_bits, addr) <=> addr = "DATA0"
    BY <1>1 DEF Writes
  <2> QED BY <1>2, <1>3, <2>1, KeptCycle
<1>5. Sees(FALSE, FALSE, TRUE)' /\ Clean' /\ Works(Anywhere)'
  BY <1>2, <1>4 DEF Sees, Clean, Works
<1>6. Ctl("autobusy")' /\ Knows("autobusy")'
  BY <1>5 DEF Ctl, Clean, Errs, Knows
<1> QED BY <1>1, <1>2, <1>6 DEF Arrives, Sent, StartsClean, Clean

LEMMA SwitchTaken ==
  ASSUME NEW a, NEW t, NEW b, NEW r, NEW acc, Taken(a, t, b, r, acc),
         Puts(t, "AUTO"), Switches(a, t.val, b)
  PROVE  Arrives(a, t, b, r)
<1>1. req_bits = [op |-> "write", addr |-> "AUTO", data |-> t.val] /\ t.k = "write"
  BY PutBits DEF Taken, Puts
<1>2. PICK auto \in BOOLEAN : Sees(FALSE, FALSE, auto) /\ (auto <=> a = "auto")
  BY DEF Taken, Switches, Ctl
<1>3. Kept /\ Clean /\ DmCycle(req_bits, acc) /\ Moves(acc)
  BY DEF Taken, Switches, Ctl
<1>4. ~cmd_valid(req_bits)
  BY <1>1 DEF cmd_valid, Touches, DATA, Writes
<1>5. /\ halted_q' = TRUE /\ resuming_q' = FALSE /\ Parked' /\ state_q' = "Idle"
      /\ cmderr_q' = cmderr_q /\ dmcontrol_q' = dmcontrol_q /\ autoexec_q' = t.val
  <2>1. /\ req_bits.data = t.val
        /\ \A addr \in {"ABSTRACTCS", "DMCONTROL", "COMMAND", "AUTO"} : Writes(req_bits, addr) <=> addr = "AUTO"
    BY <1>1 DEF Writes
  <2> QED BY <1>2, <1>3, <1>4, <2>1, KeptCycle
<1>6. Kept' /\ Clean' /\ Sees(FALSE, FALSE, t.val)'
  BY <1>2, <1>3, <1>5 DEF Kept, Clean, Sees
<1>7. Ctl(b)' /\ Knows(b)'
  BY <1>6 DEF Ctl, Knows, Switches
<1>8. a # "resumed"
  BY DEF Switches
<1> QED BY <1>1, <1>5, <1>7, <1>8 DEF Arrives, Sent, StartsClean

LEMMA ClearTaken ==
  ASSUME NEW a, NEW t, NEW b, NEW r, NEW acc, Taken(a, t, b, r, acc),
         t = die \/ Puts(t, "ABSTRACTCS"), Clears(a, b)
  PROVE  Arrives(a, t, b, r)
<1>1. req_bits.op = "write" /\ req_bits.addr = "ABSTRACTCS" /\ t.k \in {"die", "write"}
  BY DEF Taken, Puts, die, req_bits
<1>2. PICK auto \in BOOLEAN : Sees(FALSE, FALSE, auto) /\ (auto <=> a = "autoerr")
  BY DEF Taken, Clears, Ctl
<1>3. Kept /\ DmCycle(req_bits, acc) /\ Moves(acc)
  BY DEF Taken, Clears, Ctl
<1>4. ~cmd_valid(req_bits)
  BY <1>1 DEF cmd_valid, Touches, DATA, Writes
<1>5. /\ halted_q' = TRUE /\ resuming_q' = FALSE /\ Parked' /\ state_q' = "Idle"
      /\ cmderr_q' = "None" /\ dmcontrol_q' = dmcontrol_q /\ autoexec_q' = autoexec_q
  BY <1>1, <1>2, <1>3, <1>4, KeptCycle DEF Writes
<1>6. Kept' /\ Clean' /\ Sees(FALSE, FALSE, auto)'
  BY <1>2, <1>3, <1>5 DEF Kept, Clean, Sees
<1>7. Ctl(b)' /\ Knows(b)'
  BY <1>2, <1>6 DEF Ctl, Knows, Clears
<1>8. a # "resumed"
  BY DEF Clears
<1> QED BY <1>1, <1>5, <1>7, <1>8 DEF Arrives, Sent, StartsClean

\* A write to dmcontrol changes the control register and nothing else.
LEMMA SteerTurn ==
  ASSUME NEW t, NEW acc, Puts(t, "DMCONTROL"), Micro = t, DmCycle(req_bits, acc),
         dmcontrol_q.dmactive = TRUE
  PROVE  /\ Rest(acc.at) /\ autoexec_q' = autoexec_q /\ dmcontrol_q' = t.val
         /\ ~cmd_valid(req_bits)
<1>1. req_bits = [op |-> "write", addr |-> "DMCONTROL", data |-> t.val]
  BY PutBits
<1>2. ~cmd_valid(req_bits)
  BY <1>1 DEF cmd_valid, Touches, DATA, Writes
<1>3. Advances(acc.at)
  BY AnyTurn
<1>4. state_q = "Idle" =>
       state_q' = IF resumereq /\ ~resuming_q /\ ~haltreq /\ halted_q THEN "Resume" ELSE "Idle"
  BY <1>2 DEF DmCycle, NextState
<1>5. cmderr_q' = IF acc.at = "exception" THEN "Exception" ELSE cmderr_q
  BY <1>1, <1>2 DEF DmCycle, NextError, Writes
<1>6. autoexec_q' = autoexec_q /\ dmcontrol_q' = t.val
  BY <1>1 DEF DmCycle, Writes
<1> QED BY <1>2, <1>3, <1>4, <1>5, <1>6 DEF Rest

LEMMA SteerTaken ==
  ASSUME NEW a, NEW t, NEW b, NEW r, NEW acc, Taken(a, t, b, r, acc),
         Puts(t, "DMCONTROL"), Steers(a, t.val, b)
  PROVE  Arrives(a, t, b, r)
<1>0. /\ DmCycle(req_bits, acc) /\ Moves(acc) /\ Micro = t /\ Ctl(a) /\ t.k = "write"
      /\ autoexec_q = FALSE
  BY Places DEF Taken, Puts, Steers
<1>1. StartsClean
  <2>1. ~cmd_valid(req_bits)
    BY <1>0, PutBits DEF cmd_valid, Touches, DATA, Writes
  <2> QED BY <1>0, <2>1 DEF DmCycle, NextState, StartsClean
<1> SUFFICES Ctl(IF a = "resumed" THEN "leaving" ELSE b)' /\ Knows(b)'
  BY <1>0, <1>1 DEF Arrives, Sent
<1>2. Knows(b)'
  BY DEF Knows, Steers
<1>3. CASE a = "init" /\ b = "out"
  <2>1. /\ dmcontrol_q = DMControl(FALSE, FALSE, 0, FALSE)
        /\ Runs /\ resuming_q = FALSE /\ halted_q = FALSE /\ state_q = "Idle"
    BY <1>0, <1>3 DEF Ctl, Runs
  <2>2. dmcontrol_q.dmactive = FALSE /\ haltreq = FALSE /\ resumereq = FALSE
    BY <2>1 DEF DMControl, haltreq, resumereq
  <2>3. acc.at = "none" /\ hpc' \in {"dret", "user"}
    BY <1>0, <2>1, <2>2 DEF Moves, Runs, Bufs
  <2>4. Runs' /\ resuming_q' = FALSE
    BY <1>0, <2>1, <2>2, <2>3 DEF DmCycle, NextState, NextHalted, NextResuming, Runs
  <2>5. PICK sel \in 0 .. 1 : t.val = DMControl(FALSE, FALSE, sel, TRUE)
    BY <1>3 DEF Steers
  <2>6. t.val.dmactive = TRUE
    BY <2>5 DEF DMControl
  <2>7. /\ dmcontrol_q' = DMControl(FALSE, FALSE, 0, TRUE)
        /\ autoexec_q' = FALSE /\ cmderr_q' = "None"
    <3>1. req_bits = [op |-> "write", addr |-> "DMCONTROL", data |-> t.val]
      BY <1>0, PutBits
    <3> QED BY <1>0, <2>2, <2>6, <3>1 DEF DmCycle, DmReset, DMControl, Writes
  <2> QED BY <1>2, <1>3, <2>4, <2>7 DEF Ctl, Clean
<1>4. CASE a = "out"
  <2>1. PICK sel \in 0 .. 1 : dmcontrol_q = DMControl(FALSE, FALSE, sel, TRUE)
    BY <1>0, <1>4 DEF Ctl
  <2>2. /\ Runs /\ resuming_q = FALSE /\ Clean
        /\ haltreq = FALSE /\ resumereq = FALSE /\ dmcontrol_q.dmactive = TRUE
    BY <1>0, <1>4, <2>1 DEF Ctl, DMControl, haltreq, resumereq
  <2>3. Calm(acc) /\ autoexec_q' = FALSE /\ dmcontrol_q' = t.val
    BY <1>0, <2>2, SteerTurn DEF Calm
  <2>4. Runs' /\ resuming_q' = FALSE /\ cmderr_q' = cmderr_q
    BY <2>2, <2>3, RunsCalm
  <2>5. CASE b = "out"
    BY <1>2, <1>4, <2>2, <2>3, <2>4, <2>5 DEF Ctl, Clean, Steers
  <2>6. CASE b = "halting"
    BY <1>2, <1>4, <2>2, <2>3, <2>4, <2>6 DEF Ctl, Clean, Steers, Sees, Stopping, Runs
  <2> QED BY <1>4, <2>5, <2>6 DEF Steers
<1>5. CASE a \in {"halted", "in"}
  <2>1. PICK h \in BOOLEAN : Sees(h, FALSE, FALSE) /\ Kept /\ Clean
    BY <1>0, <1>5 DEF Ctl
  <2>2. dmcontrol_q.dmactive = TRUE
    BY <2>1, Signals
  <2>3. Calm(acc) /\ autoexec_q' = FALSE /\ dmcontrol_q' = t.val
    BY <1>0, <2>2, SteerTurn DEF Calm
  <2>4. Kept' /\ cmderr_q' = cmderr_q
    BY <2>1, <2>3, KeptCalm
  <2> QED BY <1>2, <1>5, <2>1, <2>3, <2>4 DEF Ctl, Clean, Steers, Sees, Leaves
<1>6. CASE a = "resumed"
  <2>1. Sees(FALSE, TRUE, FALSE) /\ Leaves /\ resuming_q = TRUE /\ Clean
    BY <1>0, <1>6 DEF Ctl, Leaves, Gone
  <2>2. dmcontrol_q.dmactive = TRUE
    BY <2>1, Signals
  <2>3. Calm(acc) /\ autoexec_q' = FALSE /\ dmcontrol_q' = t.val
    BY <1>0, <2>2, SteerTurn DEF Calm
  <2>4. state_q' = "Idle" /\ Gone' /\ cmderr_q' = cmderr_q
    BY <2>1, <2>3, LeavesCalm
  <2> QED BY <1>2, <1>6, <2>1, <2>3, <2>4 DEF Ctl, Clean, Steers, Sees
<1> QED BY <1>3, <1>4, <1>5, <1>6 DEF Steers

\* Wherever a request leads, the module, the hart and the host get there.
LEMMA EdgeTaken ==
  ASSUME NEW a, NEW t, NEW b, NEW r, NEW acc, Taken(a, t, b, r, acc)
  PROVE  Arrives(a, t, b, r)
<1>1. CASE a = b /\ a \in {"init", "out", "in", "err"} /\ Looks(t)
  BY <1>1, LookTaken
<1>2. CASE a = "in" /\ b = "in" /\ (Fills(t) \/ Programs(t))
  BY <1>2, FillTaken
<1>3. CASE a = "auto" /\ b = "auto" /\ Puts(t, DATA[2])
  BY <1>3, AutoFillTaken
<1>4. CASE a = "auto" /\ b = "autobusy" /\ Puts(t, DATA[1])
  BY <1>4, AutoStartTaken
<1>5. CASE Puts(t, "DMCONTROL") /\ Steers(a, t.val, b)
  BY <1>5, SteerTaken
<1>6. CASE Puts(t, "COMMAND") /\ Starts(a, t.val, b)
  BY <1>6, StartTaken
<1>7. CASE Puts(t, "AUTO") /\ Switches(a, t.val, b)
  BY <1>7, SwitchTaken
<1>8. CASE (t = die \/ Puts(t, "ABSTRACTCS")) /\ Clears(a, b)
  BY <1>8, ClearTaken
<1>9. CASE Waits(a, t, b)
  BY <1>9, WaitTaken
<1> QED BY <1>1, <1>2, <1>3, <1>4, <1>5, <1>6, <1>7, <1>8, <1>9 DEF Taken, Edge

----------------------------------------------------------------------------
\* The data.  Between commands the program's s0 is in dscratch, for the ROM
\* uses the register.
Regs == {"s0", "s1"}
Vars == {"s0", "s1", "data"}
InScratch == {"entry_loop", "flag_go", "flag_resume", "going", "resume", "dret"}
Held == [r \in Regs |-> IF r = "s0" /\ hpc \in InScratch THEN dscratch ELSE regs[r]]

\* Registers and data as the host, which knows nothing of the ROM, sees them.
Data == [regs |-> Held, dpc |-> dpc, mem |-> mem, data |-> data_q, prog |-> progbuf_q,
         command |-> command_q, vars |-> [x \in Vars |-> host[x]], got |-> host.got]

LocalsKept == [x \in Vars |-> host[x]]' = [x \in Vars |-> host[x]] /\ host.got' = host.got

Insns == {<<"ebreak">>, <<"illegal">>, <<"addi">>, <<"bne", 1>>, <<"load", "s1">>, <<"store", "s1">>,
          <<"store", "x0">>, <<"load_data">>, <<"swap_dscratch">>, <<"swap_dpc">>, <<"store_data">>,
          <<"fence_i">>}
States == [regs : [Regs -> DoubleWords], dpc : DoubleWords, mem : [Addrs -> DoubleWords],
           data : DoubleWords, prog : [1 .. ProgBufSize -> Insns], vars : [Vars -> DoubleWords],
           got : Seq(DoubleWords),
           command : [size : 0 .. 4, transfer : BOOLEAN, write : BOOLEAN, postexec : BOOLEAN,
                      reg : {"s0", "s1", "x0"}]]

Regular == regs = [r \in Regs |-> regs[r]]

----------------------------------------------------------------------------
\* The hart's turn while it executes nothing for the host.
HartSame(acc) == Held' = Held /\ dpc' = dpc /\ mem' = mem /\ Regular' /\ acc.at # "data"
Executes == hpc = "abstract" \/ hpc \in Bufs \/ (hpc = "whereto" /\ state_q = "Idle")

LEMMA RomKeeps ==
  ASSUME HartStep, Regular, ~Executes
  PROVE  HartSame(Access)
<1>1. Access.at # "data"
  <2>1. ~\E i \in 1 .. ProgBufSize : InProgbuf(i) /\ progbuf_q[i][1] = "store_data"
    BY BufNames DEF InProgbuf, At, Executes
  <2> QED BY <2>1 DEF Access, NoAccess, Executes
<1>2. \A v : [regs EXCEPT !.s0 = v] = [r \in Regs |-> IF r = "s0" THEN v ELSE regs[r]]
  BY DEF Regular, Regs
<1>3. CASE Interrupted \/ RunsOn \/ PollGo \/ PollResume \/ Excepts
  BY <1>1, <1>3 DEF Interrupted, RunsOn, PollGo, PollResume, Excepts, Rom, HartSame, Held, InScratch, Regular
<1>4. CASE Entry
  BY <1>1, <1>4 DEF Entry, Rom, HartSame, Held, InScratch, Regular, Regs
<1>5. CASE SayHalted \/ Resuming
  BY <1>1, <1>2, <1>5 DEF SayHalted, Resuming, Rom, HartSame, Held, InScratch, Regular, Regs
<1>6. CASE Going \/ Dret
  BY <1>1, <1>2, <1>6 DEF Going, Dret, Rom, HartSame, Held, InScratch, Regular, Regs
<1>7. CASE Whereto
  <2>1. hpc = "whereto" /\ hpc' \in {"abstract", "PROGBUF0"}
    BY <1>7, BufNames DEF Whereto, Rom, Executes, cmdbusy, At
  <2> QED BY <1>1, <1>7, <2>1 DEF Whereto, HartSame, Held, InScratch, Regular
<1>8. ~Abstract
  BY DEF Abstract, Executes
<1>9. ~Progbuf
  BY BufNames DEF Progbuf, InProgbuf, At, Executes
<1> QED BY <1>3, <1>4, <1>5, <1>6, <1>7, <1>8, <1>9 DEF HartStep

LEMMA QuietHart ==
  ASSUME NEW stalled \in BOOLEAN, Hart(stalled), Regular, ~Executes
  PROVE  HartSame(Acc(stalled))
<1>1. CASE stalled
  <2>1. UNCHANGED <<hpc, regs, dscratch, dpc, mem>> /\ Acc(stalled).at = "none"
    BY <1>1 DEF Hart, Acc, NoAccess, hartVars
  <2> QED BY <2>1 DEF HartSame, Held, Regular
<1>2. CASE ~stalled
  BY <1>2, RomKeeps DEF Hart, Acc
<1> QED BY <1>1, <1>2

LEMMA BufsDiffer ==
  /\ \A i, j \in 1 .. ProgBufSize : PROGBUF[i] = PROGBUF[j] => i = j
  /\ \A i \in 1 .. ProgBufSize :
       PROGBUF[i] \notin {"DATA0", "DATA1", "COMMAND", "DMCONTROL", "ABSTRACTCS", "AUTO", "DMSTATUS"}
BY DEF PROGBUF, ProgBufSize

\* The module's turn.
LEMMA Pairs ==
  ASSUME NEW v \in DoubleWords
  PROVE  /\ v[1] \in Nat /\ v[2] \in Nat /\ v = << v[1], v[2] >> /\ v = [i \in 1 .. 2 |-> v[i]]
         /\ \A x : [v EXCEPT ![1] = x] = << x, v[2] >> /\ [v EXCEPT ![2] = x] = << v[1], x >>
         /\ \A x \in Nat : << x, v[2] >> \in DoubleWords /\ << v[1], x >> \in DoubleWords
<1>1. v[1] \in Nat /\ v[2] \in Nat /\ v = << v[1], v[2] >>
  BY DEF DoubleWords
<1>2. PICK p, q \in Nat : v = << p, q >>
  BY <1>1
<1>3. << p, q >> = [i \in 1 .. 2 |-> << p, q >>[i]]
  OBVIOUS
<1>4. \A x : [<< p, q >> EXCEPT ![1] = x] = << x, q >> /\ [<< p, q >> EXCEPT ![2] = x] = << p, x >>
  OBVIOUS
<1> QED BY <1>1, <1>2, <1>3, <1>4 DEF DoubleWords

TypedData == data_q \in DoubleWords /\ progbuf_q \in [1 .. ProgBufSize -> Insns]

Still(req) ==
  /\ \A i \in 1 .. DataCount : ~Writes(req, DATA[i])
  /\ \A i \in 1 .. ProgBufSize : ~Writes(req, PROGBUF[i])
  /\ ~Writes(req, "COMMAND")

LEMMA ModuleStill ==
  ASSUME TypedData, NEW req, NEW acc, DmCycle(req, acc), dmcontrol_q.dmactive = TRUE,
         Still(req)
  PROVE  /\ data_q' = IF acc.at = "data" THEN acc.value ELSE data_q
         /\ progbuf_q' = progbuf_q /\ command_q' = command_q
<1>1. data_q \in DoubleWords /\ progbuf_q \in [1 .. ProgBufSize -> Insns]
  BY DEF TypedData
<1>2. acc.at # "data" => data_q' = [i \in 1 .. DataCount |-> data_q[i]]
  BY DEF DmCycle, NextData, Still
<1>3. progbuf_q' = [i \in 1 .. ProgBufSize |-> progbuf_q[i]]
  BY DEF DmCycle, Still
<1>4. progbuf_q' = progbuf_q
  BY <1>1, <1>3
<1>5. acc.at # "data" => data_q' = data_q
  BY <1>1, <1>2, Pairs DEF DataCount
<1> QED BY <1>4, <1>5 DEF DmCycle, NextData, Still

LEMMA ModuleFills ==
  ASSUME TypedData, NEW req, NEW acc, DmCycle(req, acc), dmcontrol_q.dmactive = TRUE,
         acc.at # "data", state_q = "Idle", NEW i \in 1 .. DataCount, Writes(req, DATA[i])
  PROVE  data_q' = [data_q EXCEPT ![i] = req.data] /\ progbuf_q' = progbuf_q /\ command_q' = command_q
<1>1. data_q \in DoubleWords /\ progbuf_q \in [1 .. ProgBufSize -> Insns]
  BY DEF TypedData
<1>2. \A j \in 1 .. DataCount : Writes(req, DATA[j]) <=> j = i
  BY DEF DATA, DataCount, Writes
<1>3. data_q' = [j \in 1 .. DataCount |-> IF j = i THEN req.data ELSE data_q[j]]
  BY <1>2 DEF DmCycle, NextData, cmdbusy
<1>4. data_q' = [data_q EXCEPT ![i] = req.data]
  <2>1. DOMAIN data_q = 1 .. DataCount
    BY <1>1, Pairs DEF DataCount
  <2>2. data_q = [j \in 1 .. DataCount |-> data_q[j]]
    BY <1>1, Pairs DEF DataCount
  <2> QED BY <1>3, <2>1, <2>2
<1>5. \A j \in 1 .. ProgBufSize : ~Writes(req, PROGBUF[j])
  <2>1. DATA[i] \in {"DATA0", "DATA1"}
    BY DEF DATA, DataCount
  <2> QED BY <2>1, BufsDiffer DEF Writes
<1>6. progbuf_q' = [j \in 1 .. ProgBufSize |-> progbuf_q[j]]
  BY <1>5 DEF DmCycle
<1>7. ~Writes(req, "COMMAND")
  BY DEF DATA, DataCount, Writes
<1> QED BY <1>1, <1>4, <1>6, <1>7 DEF DmCycle

LEMMA ModulePrograms ==
  ASSUME TypedData, NEW req, NEW acc, DmCycle(req, acc), dmcontrol_q.dmactive = TRUE,
         acc.at # "data", state_q = "Idle", NEW i \in 1 .. ProgBufSize, Writes(req, PROGBUF[i])
  PROVE  progbuf_q' = [progbuf_q EXCEPT ![i] = req.data] /\ data_q' = data_q /\ command_q' = command_q
<1>1. data_q \in DoubleWords /\ progbuf_q \in [1 .. ProgBufSize -> Insns]
  BY DEF TypedData
<1>2. \A j \in 1 .. ProgBufSize : Writes(req, PROGBUF[j]) <=> j = i
  BY BufsDiffer DEF Writes
<1>3. progbuf_q' = [j \in 1 .. ProgBufSize |-> IF j = i THEN req.data ELSE progbuf_q[j]]
  BY <1>2 DEF DmCycle, cmdbusy
<1>4. progbuf_q' = [progbuf_q EXCEPT ![i] = req.data]
  BY <1>1, <1>3
<1>5. \A j \in 1 .. DataCount : ~Writes(req, DATA[j])
  <2>1. \A j \in 1 .. DataCount : DATA[j] \in {"DATA0", "DATA1"}
    BY DEF DATA, DataCount
  <2> QED BY <2>1, BufsDiffer DEF Writes
<1>6. data_q' = [j \in 1 .. DataCount |-> data_q[j]]
  BY <1>5 DEF DmCycle, NextData
<1>7. data_q' = data_q
  BY <1>1, <1>6, Pairs DEF DataCount
<1>8. ~Writes(req, "COMMAND")
  BY BufsDiffer DEF Writes
<1> QED BY <1>4, <1>7, <1>8 DEF DmCycle

LEMMA DataTyped == Data \in States => TypedData
BY DEF Data, States, TypedData

\* Where no command runs.
Resting == {"out", "leaving", "halting", "halted", "in", "err", "auto", "autoerr", "resuming", "resumed"}

LEMMA RestingIs ==
  ASSUME NEW l \in Resting, Ctl(l)
  PROVE  ~Executes /\ dmcontrol_q.dmactive = TRUE
<1>1. dmcontrol_q.dmactive = TRUE
  <2>1. CASE l = "out"
    BY <2>1 DEF Ctl, DMControl
  <2>2. CASE l # "out"
    <3>1. \E h, r, auto \in BOOLEAN : Sees(h, r, auto)
      BY <2>2 DEF Ctl, Resting
    <3> QED BY <3>1, Signals
  <2> QED BY <2>1, <2>2
<1>2. Runs \/ Kept \/ Stopping \/ Leaves \/ (state_q = "Idle" /\ Gone)
  BY DEF Ctl, Resting
<1>3. ~Executes
  BY <1>2 DEF Runs, Kept, Stopping, Leaves, Gone, Parked, Executes, Bufs
<1> QED BY <1>1, <1>3

\* d with other variables of the host.
Local(d, w, q) ==
  [regs |-> d.regs, dpc |-> d.dpc, mem |-> d.mem, data |-> d.data, prog |-> d.prog,
   command |-> d.command, vars |-> w, got |-> q]
Refreshed == Local(Data, [x \in Vars |-> host'[x]], host'.got)

LEMMA DataSame ==
  ASSUME NEW acc, HartSame(acc), UNCHANGED <<data_q, progbuf_q, command_q>>
  PROVE  Data' = Refreshed /\ (LocalsKept => Data' = Data) /\ Regular'
<1>1. /\ Data.regs = Held /\ Data.dpc = dpc /\ Data.mem = mem /\ Data.data = data_q /\ Data.prog = progbuf_q
      /\ Data.command = command_q
  BY DEF Data
<1>2. Refreshed = [regs |-> Held, dpc |-> dpc, mem |-> mem, data |-> data_q, prog |-> progbuf_q,
                   command |-> command_q, vars |-> [x \in Vars |-> host'[x]], got |-> host'.got]
  BY <1>1 DEF Refreshed, Local
<1>3. Held' = Held /\ dpc' = dpc /\ mem' = mem /\ Regular'
  BY DEF HartSame
<1>4. Data' = Refreshed
  BY <1>2, <1>3 DEF Data
<1>5. LocalsKept => Data' = Data
  BY <1>3 DEF Data, LocalsKept
<1> QED BY <1>3, <1>4, <1>5

LEMMA RestingTurn ==
  ASSUME TypedData, Regular, NEW l \in Resting, Ctl(l), NEW stalled \in BOOLEAN, Hart(stalled),
         NEW req, DmCycle(req, Acc(stalled)), Still(req)
  PROVE  Data' = Refreshed /\ (LocalsKept => Data' = Data) /\ Regular'
<1>1. PICK acc : acc = Acc(stalled)
  OBVIOUS
<1>2. HartSame(acc)
  BY <1>1, RestingIs, QuietHart
<1>3. UNCHANGED <<data_q, progbuf_q, command_q>>
  BY <1>1, <1>2, RestingIs, ModuleStill DEF HartSame
<1> QED BY <1>2, <1>3, DataSame

\* Before the module is switched on nothing can be written.
Asleep(d) == d.data = DmReset.data /\ d.prog = DmReset.progbuf /\ d.command = DmReset.command

LEMMA AsleepTurn ==
  ASSUME Regular, Ctl("init"), Asleep(Data), NEW stalled \in BOOLEAN, Hart(stalled),
         NEW req, DmCycle(req, Acc(stalled)), LocalsKept
  PROVE  Data' = Data /\ Regular'
<1>1. PICK acc : acc = Acc(stalled)
  OBVIOUS
<1>2. dmcontrol_q.dmactive = FALSE /\ ~Executes
  BY DEF Ctl, DMControl, Runs, Executes, Bufs
<1>3. HartSame(acc)
  BY <1>1, <1>2, QuietHart
<1>4. data_q = DmReset.data /\ progbuf_q = DmReset.progbuf /\ command_q = DmReset.command
  BY DEF Asleep, Data
<1>5. UNCHANGED <<data_q, progbuf_q, command_q>>
  BY <1>2, <1>4 DEF DmCycle
<1> QED BY <1>3, <1>5, DataSame

----------------------------------------------------------------------------
\* What a command makes of the data.
WithReg(d, r, v) == IF r = "x0" THEN d ELSE [d EXCEPT !.regs[r] = v]
RegOf(d, r)      == IF r = "x0" THEN Zero ELSE d.regs[r]
Transferred(f) ==
  LET c == f.command
  IN  IF c.size = 4 THEN f
      ELSE IF c.write THEN WithReg(f, c.reg, f.data) ELSE [f EXCEPT !.data = RegOf(f, c.reg)]

Begins(d, prog) == \A i \in 1 .. Len(prog) : d.prog[i] = prog[i]
FenceProgram == << <<"fence_i">>, <<"ebreak">> >>

\* The word of memory that s0 is at.
Place(g)   == g.regs["s0"][1]
Missing(g) == Place(g) \notin Addrs
Upper(g)   == << Place(g) + 1, g.regs["s0"][2] >>
Both(x, y) == [r \in Regs |-> IF r = "s0" THEN x ELSE y]

\* g with other registers, dpc, memory and data.
With(g, r, p, m, v) ==
  [regs |-> r, dpc |-> p, mem |-> m, data |-> v, prog |-> g.prog,
   command |-> g.command, vars |-> g.vars, got |-> g.got]
LoadEnd(g)  == IF Missing(g) THEN g
               ELSE With(g, Both(Upper(g), g.mem[Place(g)]), g.dpc, g.mem, g.data)
StoreEnd(g) == IF Missing(g) THEN g
               ELSE With(g, Both(Upper(g), g.regs["s1"]), g.dpc,
                         [g.mem EXCEPT ![Place(g)] = g.regs["s1"]], g.data)
CsrEnd(g)   == With(g, g.regs, g.data, g.mem, g.dpc)

\* The loop of ClearProgram has come to y.
Wiped(g, y)   == [b \in Addrs |-> IF b \in Place(g) .. y - 1 THEN Zero ELSE g.mem[b]]
Cleared(g, y) == With(g, Both(<< y, 0 >>, g.regs["s1"]), g.dpc, Wiped(g, y), g.data)
ClearsTo(g, y) ==
  /\ y \in Nat /\ Place(g) <= y /\ y <= g.regs["s1"][1]
  /\ g.regs["s0"][2] = 0 /\ g.regs["s1"][2] = 0
  /\ Place(g) .. y - 1 \subseteq Addrs
ClearEnds(g, e) ==
  \E y \in Nat : /\ ClearsTo(g, y) /\ Place(g) < g.regs["s1"][1]
                 /\ (y = g.regs["s1"][1] \/ y \notin Addrs) /\ e = Cleared(g, y)

Executed(g, e) ==
  \/ Begins(g, LoadProgram) /\ e = LoadEnd(g)
  \/ Begins(g, StoreProgram) /\ e = StoreEnd(g)
  \/ Begins(g, ClearProgram) /\ ClearEnds(g, e)
  \/ Begins(g, CsrProgram) /\ e = CsrEnd(g)
  \/ Begins(g, FenceProgram) /\ e = g

Ends(f, e) ==
  /\ f \in States /\ e \in States /\ f.command.transfer = TRUE
  /\ IF f.command.size = 4 \/ f.command.postexec = FALSE THEN e = Transferred(f)
     ELSE Executed(Transferred(f), e)

LEMMA TransferTyped == ASSUME NEW f \in States PROVE Transferred(f) \in States
<1>1. f.command.reg = "x0" \/ f.command.reg \in Regs
  BY DEF States, Regs
<1>2. Zero \in DoubleWords
  BY DEF Zero, DoubleWords
<1>3. RegOf(f, f.command.reg) \in DoubleWords
  BY <1>1, <1>2 DEF RegOf, States
<1>4. [f EXCEPT !.data = RegOf(f, f.command.reg)] \in States
  BY <1>3 DEF States
<1>5. WithReg(f, f.command.reg, f.data) \in States
  BY <1>1 DEF WithReg, States
<1> QED BY <1>4, <1>5 DEF Transferred

\* The abstract command is executed.
LEMMA AbstractTurn ==
  ASSUME TypedData, Regular, Data \in States, hpc = "abstract", HartStep,
         NEW req, DmCycle(req, Access), Still(req), dmcontrol_q.dmactive = TRUE, LocalsKept
  PROVE  Data' = Transferred(Data) /\ Regular'
<1>1. Abstract
  <2>1. ~Progbuf
    BY BufNames DEF Progbuf, InProgbuf, At, Bufs
  <2> QED BY <2>1 DEF HartStep, Interrupted, RunsOn, Entry, SayHalted, PollGo, PollResume,
                      Going, Whereto, Resuming, Dret, Excepts, Rom
<1>2. hpc' \in {"exception", "entry", "PROGBUF0"}
  BY <1>1, BufNames DEF Abstract, At
<1>3. Held = regs
  BY DEF Held, InScratch, Regular
<1>4. /\ command_q.size \in 0 .. 4 /\ command_q.write \in BOOLEAN
      /\ command_q.reg \in {"x0", "s0", "s1"}
  BY DEF Data, States
<1>5. ~\E i \in 1 .. ProgBufSize : InProgbuf(i) /\ progbuf_q[i][1] = "store_data"
  BY BufNames DEF InProgbuf, At, Bufs
<1>6. UNCHANGED <<dpc, mem, progbuf_q, command_q>>
  BY <1>1, ModuleStill DEF Abstract
<1>7. Regular' /\ Held' = regs'
  <2>1. \A v : [regs EXCEPT !.s0 = v] = [r \in Regs |-> [regs EXCEPT !.s0 = v][r]]
    BY DEF Regular, Regs
  <2>2. \A v : [regs EXCEPT !.s1 = v] = [r \in Regs |-> [regs EXCEPT !.s1 = v][r]]
    BY DEF Regular, Regs
  <2>3. Regular'
    BY <1>1, <1>4, <2>1, <2>2 DEF Abstract, SetReg, Regular
  <2> QED BY <1>2, <2>3 DEF Held, InScratch, Regular
<1>8. CASE command_q.size = 4
  <2>1. regs' = regs /\ Access.at # "data"
    BY <1>1, <1>5, <1>8 DEF Abstract, AbstractLegal, Access, NoAccess
  <2>2. data_q' = data_q
    BY <2>1, ModuleStill
  <2> QED BY <1>3, <1>6, <1>7, <1>8, <2>1, <2>2 DEF Transferred, Data, LocalsKept
<1>9. CASE command_q.size < 4 /\ command_q.write = TRUE
  <2>1. SetReg(command_q.reg, data_q) /\ Access.at # "data"
    BY <1>1, <1>5, <1>9 DEF Abstract, AbstractLegal, Access, NoAccess
  <2>2. data_q' = data_q
    BY <2>1, ModuleStill
  <2>3. Data.command = command_q /\ Data.data = data_q /\ Data.regs = regs
    BY <1>3 DEF Data
  <2>4. Transferred(Data) = WithReg(Data, command_q.reg, data_q)
    BY <1>9, <2>3 DEF Transferred
  <2>5. regs' = IF command_q.reg = "x0" THEN regs ELSE [regs EXCEPT ![command_q.reg] = data_q]
    BY <2>1 DEF SetReg
  <2> QED BY <1>3, <1>4, <1>6, <1>7, <2>2, <2>4, <2>5 DEF WithReg, Data, LocalsKept
<1>10. CASE command_q.size < 4 /\ command_q.write = FALSE
  <2>1. regs' = regs /\ Access = [at |-> "data", value |-> GetReg(command_q.reg)]
    BY <1>1, <1>5, <1>10 DEF Abstract, AbstractLegal, Access
  <2>2. data_q' = GetReg(command_q.reg)
    <3>1. Access.at = "data" /\ Access.value = GetReg(command_q.reg)
      BY <2>1
    <3> QED BY <3>1, ModuleStill
  <2>3. Data.command = command_q /\ Data.regs = regs
    BY <1>3 DEF Data
  <2>4. Transferred(Data) = [Data EXCEPT !.data = GetReg(command_q.reg)]
    BY <1>10, <2>3 DEF Transferred, RegOf, GetReg
  <2> QED BY <1>3, <1>6, <1>7, <2>1, <2>2, <2>4 DEF Data, LocalsKept
<1>11. \/ command_q.size = 4
       \/ command_q.size < 4 /\ command_q.write = TRUE
       \/ command_q.size < 4 /\ command_q.write = FALSE
  BY <1>4
<1> QED BY <1>8, <1>9, <1>10, <1>11

\* A word of the program buffer is executed.
Executing(i, req) ==
  /\ i \in 1 .. ProgBufSize /\ hpc = PROGBUF[i] /\ TypedData /\ Regular
  /\ HartStep /\ Still(req) /\ DmCycle(req, Access) /\ dmcontrol_q.dmactive = TRUE /\ LocalsKept

LEMMA ExecutingIs ==
  ASSUME NEW i, NEW req, Executing(i, req)
  PROVE  /\ Instruction(i, progbuf_q[i]) /\ Held = regs
         /\ UNCHANGED <<progbuf_q, command_q>>
         /\ data_q' = IF progbuf_q[i][1] = "store_data" THEN regs.s0 ELSE data_q
<1>1. i \in 1 .. ProgBufSize /\ hpc = PROGBUF[i] /\ hpc \in Bufs
  BY BufNames DEF Executing
<1>2. Progbuf
  BY <1>1 DEF Executing, HartStep, Interrupted, RunsOn, Entry, SayHalted, PollGo, PollResume, Abstract,
              Going, Whereto, Resuming, Dret, Excepts, Rom, Bufs
<1>3. \A j \in 1 .. ProgBufSize : InProgbuf(j) <=> j = i
  BY <1>1, BufsDiffer DEF InProgbuf, At
<1>4. Instruction(i, progbuf_q[i])
  BY <1>2, <1>3 DEF Progbuf
<1>5. Held = regs
  BY <1>1 DEF Executing, Held, InScratch, Bufs, Regular
<1>6. progbuf_q' = progbuf_q /\ command_q' = command_q
  BY ModuleStill DEF Executing
<1>7. CASE progbuf_q[i][1] = "store_data"
  <2>1. \E j \in 1 .. ProgBufSize : InProgbuf(j) /\ progbuf_q[j][1] = "store_data"
    BY <1>1, <1>3, <1>7
  <2>2. Access = [at |-> "data", value |-> regs.s0]
    BY <1>1, <2>1 DEF Access, Bufs
  <2>3. Access.at = "data" /\ Access.value = regs.s0
    BY <2>2
  <2>4. data_q' = regs.s0
    BY <2>3, ModuleStill DEF Executing
  <2> QED BY <1>4, <1>5, <1>6, <1>7, <2>4
<1>8. CASE progbuf_q[i][1] # "store_data"
  <2>1. ~\E j \in 1 .. ProgBufSize : InProgbuf(j) /\ progbuf_q[j][1] = "store_data"
    BY <1>3, <1>8
  <2>2. Access.at = "none"
    BY <1>1, <2>1 DEF Access, Bufs, NoAccess
  <2>3. data_q' = data_q
    BY <2>2, ModuleStill DEF Executing
  <2> QED BY <1>4, <1>5, <1>6, <1>8, <2>3
<1> QED BY <1>7, <1>8

----------------------------------------------------------------------------
\* In the program buffer the registers are those of the program.
InBuf(g, r, p, m, v) ==
  /\ Regular /\ regs = r /\ dpc = p /\ mem = m /\ data_q = v
  /\ progbuf_q = g.prog /\ command_q = g.command
  /\ [x \in Vars |-> host[x]] = g.vars /\ host.got = g.got

LEMMA InBufData ==
  ASSUME NEW g \in States, NEW r, NEW p, NEW m, NEW v, InBuf(g, r, p, m, v), hpc \notin InScratch
  PROVE  Data = With(g, r, p, m, v)
<1>1. Held = r
  BY DEF Held, InBuf, Regular
<1> QED BY <1>1 DEF InBuf, Data, With

LEMMA DataInBuf ==
  ASSUME NEW g \in States, Data = g, Regular, hpc \notin InScratch
  PROVE  InBuf(g, g.regs, g.dpc, g.mem, g.data)
<1>1. Held = regs
  BY DEF Held, Regular
<1> QED BY <1>1 DEF InBuf, Data

LEMMA WithNothing ==
  ASSUME NEW g \in States
  PROVE  With(g, g.regs, g.dpc, g.mem, g.data) = g
BY DEF With, States

\* What a word leaves of it.
Moved(i, g, r, p, m, v) == InBuf(g, r, p, m, v)' /\ hpc' = PROGBUF[i + 1]
GoesTo(to, g, r, p, m, v) == InBuf(g, r, p, m, v)' /\ hpc' = to

LEMMA WordStays ==
  ASSUME NEW i, NEW req, NEW g, NEW r, NEW p, NEW m, NEW v, Executing(i, req), InBuf(g, r, p, m, v),
         g.prog[i][1] # "store_data"
  PROVE  \A q, n, l : regs' = q /\ q = [x \in Regs |-> q[x]] /\ dpc' = n /\ mem' = l => InBuf(g, q, n, l, v)'
<1>1. UNCHANGED <<progbuf_q, command_q, data_q>> /\ LocalsKept
  BY ExecutingIs DEF Executing, InBuf
<1> QED BY <1>1 DEF InBuf, Regular, LocalsKept

LEMMA SetReg0 ==
  ASSUME NEW r, r = [x \in Regs |-> r[x]], NEW v
  PROVE  /\ [r EXCEPT !["s0"] = v] = Both(v, r["s1"]) /\ [r EXCEPT !["s1"] = v] = Both(r["s0"], v)
         /\ \A x, y : Both(x, y) = [z \in Regs |-> Both(x, y)[z]] /\ Both(x, y)["s0"] = x /\ Both(x, y)["s1"] = y
         /\ r = Both(r["s0"], r["s1"])
<1>1. DOMAIN r = Regs
  BY Zenon
<1>2. \A x, y : /\ Both(x, y) = [z \in Regs |-> Both(x, y)[z]] /\ Both(x, y)["s0"] = x /\ Both(x, y)["s1"] = y
                /\ DOMAIN Both(x, y) = Regs
  BY DEF Both, Regs
<1>3. r = Both(r["s0"], r["s1"])
  BY DEF Both, Regs
<1>4. [r EXCEPT !["s0"] = v] = Both(v, r["s1"])
  BY DEF Both, Regs
<1>5. [r EXCEPT !["s1"] = v] = Both(r["s0"], v)
  BY DEF Both, Regs
<1> QED BY <1>2, <1>3, <1>4, <1>5

LEMMA WordSets ==
  ASSUME NEW i, NEW req, NEW g, NEW r, NEW p, NEW m, NEW v, Executing(i, req), InBuf(g, r, p, m, v),
         g.prog[i][1] # "store_data", NEW n, NEW l, dpc' = n, mem' = l, NEW x
  PROVE  /\ regs' = [r EXCEPT !["s0"] = x] => InBuf(g, Both(x, r["s1"]), n, l, v)'
         /\ regs' = [r EXCEPT !["s1"] = x] => InBuf(g, Both(r["s0"], x), n, l, v)'
<1>1. r = [z \in Regs |-> r[z]]
  BY DEF InBuf, Regular
<1>2. /\ [r EXCEPT !["s0"] = x] = Both(x, r["s1"]) /\ [r EXCEPT !["s1"] = x] = Both(r["s0"], x)
  BY <1>1, SetReg0
<1>3. \A a, b : Both(a, b) = [z \in Regs |-> Both(a, b)[z]]
  BY DEF Both
<1>4. \A q : regs' = q /\ q = [z \in Regs |-> q[z]] => InBuf(g, q, n, l, v)'
  BY WordStays
<1>5. \A a, b : regs' = Both(a, b) => InBuf(g, Both(a, b), n, l, v)'
  BY <1>3, <1>4
<1> QED BY <1>2, <1>5

\* The words, one by one.
InWord(i, req, g, r, p, m, v) ==
  Executing(i, req) /\ i # ProgBufSize /\ InBuf(g, r, p, m, v) /\ g \in States

LEMMA WordIs ==
  ASSUME NEW i, NEW req, NEW g, NEW r, NEW p, NEW m, NEW v, InWord(i, req, g, r, p, m, v)
  PROVE  /\ Executing(i, req) /\ InBuf(g, r, p, m, v) /\ Instruction(i, g.prog[i])
         /\ At(i + 1) = PROGBUF[i + 1] /\ regs = r /\ dpc = p /\ mem = m /\ data_q = v
         /\ r = [x \in Regs |-> r[x]]
<1>1. i \in 1 .. ProgBufSize /\ i + 1 \in 1 .. ProgBufSize
  BY DEF InWord, Executing, ProgBufSize
<1>2. r = [x \in Regs |-> r[x]]
  BY DEF InWord, InBuf, Regular
<1> QED BY <1>1, <1>2, ExecutingIs DEF InWord, InBuf, At

LEMMA BreakWord ==
  ASSUME NEW i, NEW req, NEW g, NEW r, NEW p, NEW m, NEW v, Executing(i, req), InBuf(g, r, p, m, v),
         g.prog[i] = <<"ebreak">>
  PROVE  GoesTo("entry", g, r, p, m, v)
<1>0. /\ Instruction(i, g.prog[i]) /\ regs = r /\ dpc = p /\ mem = m /\ r = [x \in Regs |-> r[x]]
  BY ExecutingIs DEF InBuf, Regular
<1>2. g.prog[i][1] = "ebreak"
  OBVIOUS
<1>w. \A q, n, l : regs' = q /\ q = [x \in Regs |-> q[x]] /\ dpc' = n /\ mem' = l => InBuf(g, q, n, l, v)'
  BY <1>0, <1>2, WordStays
<1>3. hpc' = "entry" /\ UNCHANGED <<regs, dpc, mem>>
  BY <1>0, <1>2 DEF Instruction
<1> QED BY <1>0, <1>3, <1>w DEF GoesTo, InBuf

LEMMA LoadWord ==
  ASSUME NEW i, NEW req, NEW g, NEW r, NEW p, NEW m, NEW v, InWord(i, req, g, r, p, m, v),
         g.prog[i] = <<"load", "s1">>
  PROVE  IF r["s0"][1] \in Addrs THEN Moved(i, g, Both(r["s0"], m[r["s0"][1]]), p, m, v)
         ELSE GoesTo("exception", g, r, p, m, v)
<1>0. /\ Executing(i, req) /\ InBuf(g, r, p, m, v) /\ Instruction(i, g.prog[i])
      /\ At(i + 1) = PROGBUF[i + 1] /\ regs = r /\ dpc = p /\ mem = m /\ data_q = v
      /\ r = [x \in Regs |-> r[x]]
  BY WordIs
<1>1. g.prog[i][1] = "load" /\ g.prog[i][2] = "s1"
  OBVIOUS
<1>w. \A q, n, l : regs' = q /\ q = [x \in Regs |-> q[x]] /\ dpc' = n /\ mem' = l => InBuf(g, q, n, l, v)'
  BY <1>0, <1>1, WordStays
<1>2. CASE r["s0"][1] \in Addrs
  <2>1. hpc' = PROGBUF[i + 1] /\ regs' = [r EXCEPT !["s1"] = m[r["s0"][1]]] /\ UNCHANGED <<dpc, mem>>
    BY <1>1, <1>2, <1>0 DEF Instruction, Faults, SetReg
  <2> QED BY <1>1, <1>2, <2>1, <1>0, WordSets DEF Moved
<1>3. CASE r["s0"][1] \notin Addrs
  <2>1. hpc' = "exception" /\ UNCHANGED <<regs, dpc, mem>>
    BY <1>1, <1>3, <1>0 DEF Instruction, Faults
  <2> QED BY <1>1, <1>3, <2>1, <1>0, <1>w DEF GoesTo
<1> QED BY <1>2, <1>3

LEMMA StoreWord ==
  ASSUME NEW i, NEW req, NEW g, NEW r, NEW p, NEW m, NEW v, InWord(i, req, g, r, p, m, v),
         NEW x \in {"s1", "x0"}, g.prog[i] = <<"store", x>>
  PROVE  IF r["s0"][1] \in Addrs
         THEN Moved(i, g, r, p, [m EXCEPT ![r["s0"][1]] = IF x = "x0" THEN Zero ELSE r["s1"]], v)
         ELSE GoesTo("exception", g, r, p, m, v)
<1>0. /\ Executing(i, req) /\ InBuf(g, r, p, m, v) /\ Instruction(i, g.prog[i])
      /\ At(i + 1) = PROGBUF[i + 1] /\ regs = r /\ dpc = p /\ mem = m /\ data_q = v
      /\ r = [z \in Regs |-> r[z]]
  BY WordIs
<1>1. g.prog[i][1] = "store" /\ g.prog[i][2] = x
  OBVIOUS
<1>w. \A q, n, l : regs' = q /\ q = [z \in Regs |-> q[z]] /\ dpc' = n /\ mem' = l => InBuf(g, q, n, l, v)'
  BY <1>0, <1>1, WordStays
<1>2. CASE r["s0"][1] \in Addrs
  <2>1. /\ hpc' = PROGBUF[i + 1] /\ UNCHANGED <<dpc, regs>>
        /\ mem' = [m EXCEPT ![r["s0"][1]] = IF x = "x0" THEN Zero ELSE r["s1"]]
    BY <1>1, <1>2, <1>0 DEF Instruction, Faults, GetReg
  <2> QED BY <1>1, <1>2, <2>1, <1>0, <1>w DEF Moved
<1>3. CASE r["s0"][1] \notin Addrs
  <2>1. hpc' = "exception" /\ UNCHANGED <<regs, dpc, mem>>
    BY <1>1, <1>3, <1>0 DEF Instruction, Faults
  <2> QED BY <1>1, <1>3, <2>1, <1>0, <1>w DEF GoesTo
<1> QED BY <1>2, <1>3

LEMMA AddWord ==
  ASSUME NEW i, NEW req, NEW g, NEW r, NEW p, NEW m, NEW v, InWord(i, req, g, r, p, m, v),
         g.prog[i] = <<"addi">>
  PROVE  Moved(i, g, Both(<< r["s0"][1] + 1, r["s0"][2] >>, r["s1"]), p, m, v)
<1>0. /\ Executing(i, req) /\ InBuf(g, r, p, m, v) /\ Instruction(i, g.prog[i])
      /\ At(i + 1) = PROGBUF[i + 1] /\ regs = r /\ dpc = p /\ mem = m /\ data_q = v
      /\ r = [x \in Regs |-> r[x]]
  BY WordIs
<1>1. g.prog[i][1] = "addi"
  OBVIOUS
<1>w. \A q, n, l : regs' = q /\ q = [x \in Regs |-> q[x]] /\ dpc' = n /\ mem' = l => InBuf(g, q, n, l, v)'
  BY <1>0, <1>1, WordStays
<1>2. hpc' = PROGBUF[i + 1] /\ regs' = [r EXCEPT !["s0"] = Plus1(r["s0"])] /\ UNCHANGED <<dpc, mem>>
  BY <1>1, <1>0 DEF Instruction, SetReg
<1> QED BY <1>1, <1>2, <1>0, WordSets DEF Moved, Plus1

LEMMA BranchWord ==
  ASSUME NEW i, NEW req, NEW g, NEW r, NEW p, NEW m, NEW v, InWord(i, req, g, r, p, m, v),
         g.prog[i] = <<"bne", 1>>
  PROVE  GoesTo(PROGBUF[IF r["s0"] # r["s1"] THEN 1 ELSE i + 1], g, r, p, m, v)
<1>0. /\ Executing(i, req) /\ InBuf(g, r, p, m, v) /\ Instruction(i, g.prog[i])
      /\ At(i + 1) = PROGBUF[i + 1] /\ regs = r /\ dpc = p /\ mem = m /\ data_q = v
      /\ r = [x \in Regs |-> r[x]]
  BY WordIs
<1>1. g.prog[i][1] = "bne" /\ g.prog[i][2] = 1
  OBVIOUS
<1>w. \A q, n, l : regs' = q /\ q = [x \in Regs |-> q[x]] /\ dpc' = n /\ mem' = l => InBuf(g, q, n, l, v)'
  BY <1>0, <1>1, WordStays
<1>2. hpc' = PROGBUF[IF r["s0"] # r["s1"] THEN 1 ELSE i + 1] /\ UNCHANGED <<regs, dpc, mem>>
  BY <1>1, <1>0 DEF Instruction, At
<1> QED BY <1>1, <1>2, <1>0, <1>w DEF GoesTo

LEMMA CsrWords ==
  ASSUME NEW i, NEW req, NEW g, NEW r, NEW p, NEW m, NEW v, InWord(i, req, g, r, p, m, v)
  PROVE  /\ g.prog[i] = <<"load_data">> => Moved(i, g, Both(v, r["s1"]), p, m, v) /\ dscratch' = dscratch
         /\ g.prog[i] = <<"swap_dpc">> => Moved(i, g, Both(p, r["s1"]), r["s0"], m, v) /\ dscratch' = dscratch
         /\ g.prog[i] = <<"store_data">> => Moved(i, g, r, p, m, r["s0"]) /\ dscratch' = dscratch
         /\ g.prog[i] = <<"swap_dscratch">> =>
              /\ dscratch' = r["s0"]
              /\ \E s : s = dscratch /\ Moved(i, g, Both(s, r["s1"]), p, m, v)
         /\ g.prog[i] = <<"fence_i">> => Moved(i, g, r, p, m, v)
<1>0. /\ Executing(i, req) /\ InBuf(g, r, p, m, v) /\ Instruction(i, g.prog[i])
      /\ At(i + 1) = PROGBUF[i + 1] /\ regs = r /\ dpc = p /\ mem = m /\ data_q = v
      /\ r = [x \in Regs |-> r[x]]
  BY WordIs
<1>1. CASE g.prog[i] = <<"load_data">>
  <2>1. g.prog[i][1] = "load_data"
    BY <1>1
  <2>w. \A q, n, l : regs' = q /\ q = [x \in Regs |-> q[x]] /\ dpc' = n /\ mem' = l => InBuf(g, q, n, l, v)'
    BY <1>0, <2>1, WordStays
  <2>2. hpc' = PROGBUF[i + 1] /\ regs' = [r EXCEPT !["s0"] = v] /\ UNCHANGED <<dscratch, dpc, mem>>
    BY <2>1, <1>0 DEF Instruction, SetReg
  <2>3. InBuf(g, Both(v, r["s1"]), p, m, v)'
    BY <1>0, <2>1, <2>2, WordSets
  <2> QED BY <1>1, <2>2, <2>3 DEF Moved
<1>2. CASE g.prog[i] = <<"swap_dpc">>
  <2>1. g.prog[i][1] = "swap_dpc"
    BY <1>2
  <2>w. \A q, n, l : regs' = q /\ q = [x \in Regs |-> q[x]] /\ dpc' = n /\ mem' = l => InBuf(g, q, n, l, v)'
    BY <1>0, <2>1, WordStays
  <2>2. /\ hpc' = PROGBUF[i + 1] /\ regs' = [r EXCEPT !["s0"] = p] /\ dpc' = r["s0"]
        /\ UNCHANGED <<dscratch, mem>>
    BY <2>1, <1>0 DEF Instruction, SetReg
  <2>3. InBuf(g, Both(p, r["s1"]), r["s0"], m, v)'
    BY <1>0, <2>1, <2>2, WordSets
  <2> QED BY <1>2, <2>2, <2>3 DEF Moved
<1>3. CASE g.prog[i] = <<"store_data">>
  <2>1. g.prog[i][1] = "store_data"
    BY <1>3
  <2>2. hpc' = PROGBUF[i + 1] /\ UNCHANGED <<regs, dscratch, dpc, mem>>
    BY <2>1, <1>0 DEF Instruction
  <2>3. data_q' = r["s0"] /\ UNCHANGED <<progbuf_q, command_q>> /\ LocalsKept
    BY <2>1, <1>0, ExecutingIs DEF Executing, InBuf
  <2> QED BY <1>3, <2>2, <2>3, <1>0 DEF Moved, InBuf, Regular, LocalsKept
<1>4. CASE g.prog[i] = <<"swap_dscratch">>
  <2>1. g.prog[i][1] = "swap_dscratch"
    BY <1>4
  <2>w. \A q, n, l : regs' = q /\ q = [x \in Regs |-> q[x]] /\ dpc' = n /\ mem' = l => InBuf(g, q, n, l, v)'
    BY <1>0, <2>1, WordStays
  <2>2. PICK s : s = dscratch
    OBVIOUS
  <2>3. /\ hpc' = PROGBUF[i + 1] /\ regs' = [r EXCEPT !["s0"] = s] /\ dscratch' = r["s0"]
        /\ UNCHANGED <<dpc, mem>>
    BY <2>1, <2>2, <1>0 DEF Instruction, SetReg
  <2>4. InBuf(g, Both(s, r["s1"]), p, m, v)'
    BY <1>0, <2>1, <2>3, WordSets
  <2> QED BY <1>4, <2>2, <2>3, <2>4 DEF Moved
<1>5. CASE g.prog[i] = <<"fence_i">>
  <2>1. g.prog[i][1] = "fence_i"
    BY <1>5
  <2>w. \A q, n, l : regs' = q /\ q = [x \in Regs |-> q[x]] /\ dpc' = n /\ mem' = l => InBuf(g, q, n, l, v)'
    BY <1>0, <2>1, WordStays
  <2>2. hpc' = PROGBUF[i + 1] /\ UNCHANGED <<regs, dpc, mem>>
    BY <2>1, <1>0 DEF Instruction
  <2> QED BY <1>5, <2>1, <2>2, <1>0, <2>w DEF Moved
<1> QED BY <1>1, <1>2, <1>3, <1>4, <1>5

----------------------------------------------------------------------------
\* The programs.  Where the hart is in each of them, with g the data that the
\* program was entered with.
Entered(g) == InBuf(g, g.regs, g.dpc, g.mem, g.data)
LoadAt(i, g) ==
  /\ Begins(g, LoadProgram)
  /\ \/ i = 1 /\ Entered(g)
     \/ i = 2 /\ ~Missing(g) /\ InBuf(g, Both(g.regs["s0"], g.mem[Place(g)]), g.dpc, g.mem, g.data)
     \/ i = 3 /\ ~Missing(g) /\ InBuf(g, Both(Upper(g), g.mem[Place(g)]), g.dpc, g.mem, g.data)
Stored(g) == [g.mem EXCEPT ![Place(g)] = g.regs["s1"]]
StoreAt(i, g) ==
  /\ Begins(g, StoreProgram)
  /\ \/ i = 1 /\ Entered(g)
     \/ i = 2 /\ ~Missing(g) /\ InBuf(g, g.regs, g.dpc, Stored(g), g.data)
     \/ i = 3 /\ ~Missing(g) /\ InBuf(g, Both(Upper(g), g.regs["s1"]), g.dpc, Stored(g), g.data)
ClearAt(i, g) ==
  /\ Begins(g, ClearProgram)
  /\ \E y \in Nat :
       /\ ClearsTo(g, y) /\ Place(g) < g.regs["s1"][1]
       /\ \/ i = 1 /\ y < g.regs["s1"][1]
             /\ InBuf(g, Both(<< y, 0 >>, g.regs["s1"]), g.dpc, Wiped(g, y), g.data)
          \/ i = 2 /\ y < g.regs["s1"][1] /\ y \in Addrs
             /\ InBuf(g, Both(<< y, 0 >>, g.regs["s1"]), g.dpc, Wiped(g, y + 1), g.data)
          \/ i = 3 /\ InBuf(g, Both(<< y, 0 >>, g.regs["s1"]), g.dpc, Wiped(g, y), g.data)
          \/ i = 4 /\ y = g.regs["s1"][1]
             /\ InBuf(g, Both(<< y, 0 >>, g.regs["s1"]), g.dpc, Wiped(g, y), g.data)
CsrAt(i, g) ==
  /\ Begins(g, CsrProgram)
  /\ i \in 2 .. 5 => dscratch = g.regs["s0"]
  /\ \/ i = 1 /\ Entered(g)
     \/ i = 2 /\ \E s : InBuf(g, Both(s, g.regs["s1"]), g.dpc, g.mem, g.data)
     \/ i = 3 /\ InBuf(g, Both(g.data, g.regs["s1"]), g.dpc, g.mem, g.data)
     \/ i = 4 /\ InBuf(g, Both(g.dpc, g.regs["s1"]), g.data, g.mem, g.data)
     \/ i = 5 /\ InBuf(g, Both(g.dpc, g.regs["s1"]), g.data, g.mem, g.dpc)
     \/ i = 6 /\ InBuf(g, Both(g.regs["s0"], g.regs["s1"]), g.data, g.mem, g.dpc)
FenceAt(i, g) == Begins(g, FenceProgram) /\ i \in 1 .. 2 /\ Entered(g)

\* The program goes on, or the hart is on its way back with e.
Halts(e) == hpc' \in {"entry", "exception"} /\ Data' = e /\ Regular'

LEMMA LeftHalts ==
  ASSUME NEW g \in States, NEW to \in {"entry", "exception"}, NEW r, NEW p, NEW m, NEW v,
         GoesTo(to, g, r, p, m, v)
  PROVE  Halts(With(g, r, p, m, v))
<1>1. hpc' = to /\ hpc' \notin InScratch
  BY DEF GoesTo, InScratch
<1>2. Held' = r /\ Regular'
  BY <1>1 DEF Held, GoesTo, InBuf, Regular
<1> QED BY <1>1, <1>2 DEF GoesTo, InBuf, Data, With, Halts

LEMMA GRegs ==
  ASSUME NEW g \in States
  PROVE  /\ g.regs["s0"] \in DoubleWords /\ g.regs["s1"] \in DoubleWords /\ g.regs = [x \in Regs |-> g.regs[x]]
         /\ g.regs = Both(g.regs["s0"], g.regs["s1"]) /\ Place(g) \in Nat
         /\ \A x, y : Both(x, y)["s0"] = x /\ Both(x, y)["s1"] = y
<1>1. g.regs \in [Regs -> DoubleWords]
  BY DEF States
<1>2. g.regs["s0"] \in DoubleWords /\ g.regs["s1"] \in DoubleWords /\ g.regs = [x \in Regs |-> g.regs[x]]
  BY <1>1 DEF Regs
<1>3. Place(g) \in Nat
  BY <1>2, Pairs DEF Place
<1> QED BY <1>2, <1>3, SetReg0

LEMMA LoadStep ==
  ASSUME NEW i, NEW req, NEW g \in States, Executing(i, req), LoadAt(i, g)
  PROVE  (hpc' = PROGBUF[i + 1] /\ LoadAt(i + 1, g)') \/ Halts(LoadEnd(g))
<1>1. /\ g.prog[1] = <<"load", "s1">> /\ g.prog[2] = <<"addi">> /\ g.prog[3] = <<"ebreak">>
      /\ Begins(g, LoadProgram)
  BY DEF LoadAt, Begins, LoadProgram
<1>2. CASE i = 1 /\ Entered(g)
  <2>1. InWord(i, req, g, g.regs, g.dpc, g.mem, g.data)
    BY <1>2 DEF InWord, Entered, ProgBufSize
  <2>2. IF ~Missing(g) THEN Moved(i, g, Both(g.regs["s0"], g.mem[Place(g)]), g.dpc, g.mem, g.data)
        ELSE GoesTo("exception", g, g.regs, g.dpc, g.mem, g.data)
    BY <1>1, <1>2, <2>1, LoadWord DEF Missing, Place
  <2>3. CASE Missing(g)
    BY <2>2, <2>3, LeftHalts, WithNothing DEF LoadEnd
  <2> QED BY <1>1, <1>2, <2>2, <2>3 DEF Moved, LoadAt
<1>3. CASE i = 2 /\ ~Missing(g) /\ InBuf(g, Both(g.regs["s0"], g.mem[Place(g)]), g.dpc, g.mem, g.data)
  <2>1. InWord(i, req, g, Both(g.regs["s0"], g.mem[Place(g)]), g.dpc, g.mem, g.data)
    BY <1>3 DEF InWord, ProgBufSize
  <2> DEFINE r == Both(g.regs["s0"], g.mem[Place(g)])
  <2>2. r["s0"] = g.regs["s0"] /\ r["s1"] = g.mem[Place(g)]
    BY GRegs
  <2> HIDE DEF r
  <2>3. Moved(i, g, Both(<< r["s0"][1] + 1, r["s0"][2] >>, r["s1"]), g.dpc, g.mem, g.data)
    BY <1>1, <1>3, <2>1, AddWord DEF r
  <2> QED BY <1>1, <1>3, <2>2, <2>3 DEF Moved, LoadAt, Upper, Place
<1>4. CASE i = 3 /\ ~Missing(g) /\ InBuf(g, Both(Upper(g), g.mem[Place(g)]), g.dpc, g.mem, g.data)
  <2>1. GoesTo("entry", g, Both(Upper(g), g.mem[Place(g)]), g.dpc, g.mem, g.data)
    BY <1>1, <1>4, BreakWord
  <2> QED BY <1>4, <2>1, LeftHalts DEF LoadEnd
<1> QED BY <1>2, <1>3, <1>4 DEF LoadAt

LEMMA StoreStep ==
  ASSUME NEW i, NEW req, NEW g \in States, Executing(i, req), StoreAt(i, g)
  PROVE  (hpc' = PROGBUF[i + 1] /\ StoreAt(i + 1, g)') \/ Halts(StoreEnd(g))
<1>1. /\ g.prog[1] = <<"store", "s1">> /\ g.prog[2] = <<"addi">> /\ g.prog[3] = <<"ebreak">>
      /\ Begins(g, StoreProgram)
  BY DEF StoreAt, Begins, StoreProgram
<1>2. CASE i = 1 /\ Entered(g)
  <2>1. InWord(i, req, g, g.regs, g.dpc, g.mem, g.data)
    BY <1>2 DEF InWord, Entered, ProgBufSize
  <2>2. IF ~Missing(g) THEN Moved(i, g, g.regs, g.dpc, Stored(g), g.data)
        ELSE GoesTo("exception", g, g.regs, g.dpc, g.mem, g.data)
    BY <1>1, <1>2, <2>1, StoreWord DEF Missing, Place, Stored
  <2>3. CASE Missing(g)
    BY <2>2, <2>3, LeftHalts, WithNothing DEF StoreEnd
  <2> QED BY <1>1, <1>2, <2>2, <2>3 DEF Moved, StoreAt
<1>3. CASE i = 2 /\ ~Missing(g) /\ InBuf(g, g.regs, g.dpc, Stored(g), g.data)
  <2>1. InWord(i, req, g, g.regs, g.dpc, Stored(g), g.data)
    BY <1>3 DEF InWord, ProgBufSize
  <2>2. Moved(i, g, Both(Upper(g), g.regs["s1"]), g.dpc, Stored(g), g.data)
    BY <1>1, <1>3, <2>1, AddWord DEF Upper, Place
  <2> QED BY <1>1, <1>3, <2>2 DEF Moved, StoreAt
<1>4. CASE i = 3 /\ ~Missing(g) /\ InBuf(g, Both(Upper(g), g.regs["s1"]), g.dpc, Stored(g), g.data)
  <2>1. GoesTo("entry", g, Both(Upper(g), g.regs["s1"]), g.dpc, Stored(g), g.data)
    BY <1>1, <1>4, BreakWord
  <2> QED BY <1>4, <2>1, LeftHalts DEF StoreEnd, Stored
<1> QED BY <1>2, <1>3, <1>4 DEF StoreAt

LEMMA FenceStep ==
  ASSUME NEW i, NEW req, NEW g \in States, Executing(i, req), FenceAt(i, g)
  PROVE  (hpc' = PROGBUF[i + 1] /\ FenceAt(i + 1, g)') \/ Halts(g)
<1>1. g.prog[1] = <<"fence_i">> /\ g.prog[2] = <<"ebreak">> /\ Begins(g, FenceProgram)
  BY DEF FenceAt, Begins, FenceProgram
<1>2. CASE i = 1
  <2>1. InWord(i, req, g, g.regs, g.dpc, g.mem, g.data)
    BY <1>2 DEF InWord, FenceAt, Entered, ProgBufSize
  <2>2. Moved(i, g, g.regs, g.dpc, g.mem, g.data)
    BY <1>1, <1>2, <2>1, CsrWords
  <2> QED BY <1>1, <1>2, <2>2 DEF Moved, FenceAt, Entered
<1>3. CASE i = 2
  <2>1. GoesTo("entry", g, g.regs, g.dpc, g.mem, g.data)
    BY <1>1, <1>3, BreakWord DEF FenceAt, Entered
  <2> QED BY <2>1, LeftHalts, WithNothing
<1> QED BY <1>2, <1>3 DEF FenceAt

LEMMA CsrStep ==
  ASSUME NEW i, NEW req, NEW g \in States, Executing(i, req), CsrAt(i, g)
  PROVE  (hpc' = PROGBUF[i + 1] /\ CsrAt(i + 1, g)') \/ Halts(CsrEnd(g))
<1>1. /\ g.prog[1] = <<"swap_dscratch">> /\ g.prog[2] = <<"load_data">> /\ g.prog[3] = <<"swap_dpc">>
      /\ g.prog[4] = <<"store_data">> /\ g.prog[5] = <<"swap_dscratch">> /\ g.prog[6] = <<"ebreak">>
      /\ Begins(g, CsrProgram)
  BY DEF CsrAt, Begins, CsrProgram
<1>2. /\ g.regs = Both(g.regs["s0"], g.regs["s1"])
      /\ \A x, y : Both(x, y)["s0"] = x /\ Both(x, y)["s1"] = y
  BY GRegs
<1>3. CASE i = 1 /\ Entered(g)
  <2>1. InWord(i, req, g, g.regs, g.dpc, g.mem, g.data)
    BY <1>3 DEF InWord, Entered, ProgBufSize
  <2>2. dscratch' = g.regs["s0"] /\ \E s : Moved(i, g, Both(s, g.regs["s1"]), g.dpc, g.mem, g.data)
    BY <1>1, <1>3, <2>1, CsrWords
  <2> QED BY <1>1, <1>3, <2>2 DEF Moved, CsrAt
<1>4. CASE i = 2 /\ dscratch = g.regs["s0"] /\ \E s : InBuf(g, Both(s, g.regs["s1"]), g.dpc, g.mem, g.data)
  <2>1. PICK s : InBuf(g, Both(s, g.regs["s1"]), g.dpc, g.mem, g.data)
    BY <1>4
  <2>2. InWord(i, req, g, Both(s, g.regs["s1"]), g.dpc, g.mem, g.data)
    BY <1>4, <2>1 DEF InWord, ProgBufSize
  <2>3. Moved(i, g, Both(g.data, g.regs["s1"]), g.dpc, g.mem, g.data) /\ dscratch' = dscratch
    BY <1>1, <1>2, <1>4, <2>2, CsrWords
  <2> QED BY <1>1, <1>4, <2>3 DEF Moved, CsrAt
<1>5. CASE i = 3 /\ dscratch = g.regs["s0"] /\ InBuf(g, Both(g.data, g.regs["s1"]), g.dpc, g.mem, g.data)
  <2>1. InWord(i, req, g, Both(g.data, g.regs["s1"]), g.dpc, g.mem, g.data)
    BY <1>5 DEF InWord, ProgBufSize
  <2>2. Moved(i, g, Both(g.dpc, g.regs["s1"]), g.data, g.mem, g.data) /\ dscratch' = dscratch
    BY <1>1, <1>2, <1>5, <2>1, CsrWords
  <2> QED BY <1>1, <1>5, <2>2 DEF Moved, CsrAt
<1>6. CASE i = 4 /\ dscratch = g.regs["s0"] /\ InBuf(g, Both(g.dpc, g.regs["s1"]), g.data, g.mem, g.data)
  <2>1. InWord(i, req, g, Both(g.dpc, g.regs["s1"]), g.data, g.mem, g.data)
    BY <1>6 DEF InWord, ProgBufSize
  <2>2. Moved(i, g, Both(g.dpc, g.regs["s1"]), g.data, g.mem, g.dpc) /\ dscratch' = dscratch
    BY <1>1, <1>2, <1>6, <2>1, CsrWords
  <2> QED BY <1>1, <1>6, <2>2 DEF Moved, CsrAt
<1>7. CASE i = 5 /\ dscratch = g.regs["s0"] /\ InBuf(g, Both(g.dpc, g.regs["s1"]), g.data, g.mem, g.dpc)
  <2>1. InWord(i, req, g, Both(g.dpc, g.regs["s1"]), g.data, g.mem, g.dpc)
    BY <1>7 DEF InWord, ProgBufSize
  <2>2. Moved(i, g, Both(g.regs["s0"], g.regs["s1"]), g.data, g.mem, g.dpc)
    BY <1>1, <1>2, <1>7, <2>1, CsrWords
  <2> QED BY <1>1, <1>7, <2>2 DEF Moved, CsrAt
<1>8. CASE i = 6 /\ InBuf(g, Both(g.regs["s0"], g.regs["s1"]), g.data, g.mem, g.dpc)
  <2>1. GoesTo("entry", g, g.regs, g.data, g.mem, g.dpc)
    BY <1>1, <1>2, <1>8, BreakWord
  <2> QED BY <2>1, LeftHalts DEF CsrEnd
<1> QED BY <1>3, <1>4, <1>5, <1>6, <1>7, <1>8 DEF CsrAt

LEMMA ClearsOnce ==
  ASSUME NEW g \in States, NEW y \in Nat, NEW e, ClearEnds(g, e), ClearsTo(g, y),
         y = g.regs["s1"][1] \/ y \notin Addrs
  PROVE  e = Cleared(g, y)
<1>1. PICK z \in Nat : /\ ClearsTo(g, z) /\ (z = g.regs["s1"][1] \/ z \notin Addrs) /\ e = Cleared(g, z)
  BY DEF ClearEnds
<1>2. Place(g) \in Nat /\ g.regs["s1"][1] \in Nat
  BY GRegs, Pairs
<1>3. \A u, v \in Nat : u < v /\ ClearsTo(g, u) /\ ClearsTo(g, v) => u # g.regs["s1"][1] /\ u \in Addrs
  <2> TAKE u, v \in Nat
  <2> HAVE u < v /\ ClearsTo(g, u) /\ ClearsTo(g, v)
  <2>1. u \in Place(g) .. v - 1
    BY <1>2 DEF ClearsTo
  <2> QED BY <1>2, <2>1 DEF ClearsTo
<1>4. ~(z < y) /\ ~(y < z)
  BY <1>1, <1>3
<1> QED BY <1>1, <1>4

\* One word more.
LEMMA WipedMore ==
  ASSUME NEW g \in States, NEW y \in Nat, Place(g) <= y, y \in Addrs
  PROVE  [Wiped(g, y) EXCEPT ![y] = Zero] = Wiped(g, y + 1)
<1>1. Place(g) \in Nat
  BY GRegs
<1>2. \A b \in Addrs : b \in Place(g) .. (y + 1) - 1 <=> b \in Place(g) .. y - 1 \/ b = y
  <2> TAKE b \in Addrs
  <2>1. b \in Nat
    BY DtmAssumption
  <2> QED BY <1>1, <2>1
<1> QED BY <1>2 DEF Wiped

LEMMA ClearStep ==
  ASSUME NEW i, NEW req, NEW g \in States, NEW e, Executing(i, req), ClearAt(i, g), ClearEnds(g, e)
  PROVE  (\E j \in 1 .. ProgBufSize : hpc' = PROGBUF[j] /\ ClearAt(j, g)') \/ Halts(e)
<1>1. /\ g.prog[1] = <<"store", "x0">> /\ g.prog[2] = <<"addi">> /\ g.prog[3] = <<"bne", 1>>
      /\ g.prog[4] = <<"ebreak">> /\ Begins(g, ClearProgram)
  BY DEF ClearAt, Begins, ClearProgram
<1>2. /\ Place(g) \in Nat /\ g.regs["s1"] \in DoubleWords
      /\ \A x, y : Both(x, y)["s0"] = x /\ Both(x, y)["s1"] = y
  BY GRegs
<1>3. /\ g.regs["s1"][1] \in Nat /\ g.regs["s1"] = << g.regs["s1"][1], g.regs["s1"][2] >>
  BY <1>2, Pairs
<1>4. PICK y \in Nat :
       /\ ClearsTo(g, y) /\ Place(g) < g.regs["s1"][1]
       /\ \/ i = 1 /\ y < g.regs["s1"][1]
             /\ InBuf(g, Both(<< y, 0 >>, g.regs["s1"]), g.dpc, Wiped(g, y), g.data)
          \/ i = 2 /\ y < g.regs["s1"][1] /\ y \in Addrs
             /\ InBuf(g, Both(<< y, 0 >>, g.regs["s1"]), g.dpc, Wiped(g, y + 1), g.data)
          \/ i = 3 /\ InBuf(g, Both(<< y, 0 >>, g.regs["s1"]), g.dpc, Wiped(g, y), g.data)
          \/ i = 4 /\ y = g.regs["s1"][1]
             /\ InBuf(g, Both(<< y, 0 >>, g.regs["s1"]), g.dpc, Wiped(g, y), g.data)
  BY DEF ClearAt
<1>5. {1, 2, 3, 4} \subseteq 1 .. ProgBufSize
  BY DEF ProgBufSize
<1>6. y = g.regs["s1"][1] \/ y \notin Addrs => e = Cleared(g, y)
  BY <1>4, ClearsOnce
<1>7. CASE i = 1 /\ y < g.regs["s1"][1] /\ InBuf(g, Both(<< y, 0 >>, g.regs["s1"]), g.dpc, Wiped(g, y), g.data)
  <2> DEFINE r == Both(<< y, 0 >>, g.regs["s1"])
  <2>0. r["s0"][1] = y
    BY <1>2
  <2>1. InWord(i, req, g, r, g.dpc, Wiped(g, y), g.data)
    BY <1>7 DEF InWord, ProgBufSize
  <2> HIDE DEF r
  <2>2. IF y \in Addrs THEN Moved(i, g, r, g.dpc, [Wiped(g, y) EXCEPT ![y] = Zero], g.data)
        ELSE GoesTo("exception", g, r, g.dpc, Wiped(g, y), g.data)
    BY <1>1, <1>7, <2>0, <2>1, StoreWord
  <2>3. CASE y \in Addrs
    <3>1. Moved(i, g, r, g.dpc, Wiped(g, y + 1), g.data)
      BY <1>4, <2>2, <2>3, WipedMore DEF ClearsTo
    <3>2. hpc' = PROGBUF[2] /\ ClearAt(2, g)'
      BY <1>1, <1>4, <1>7, <2>3, <3>1 DEF Moved, ClearAt, r
    <3> QED BY <1>5, <3>2
  <2>4. CASE y \notin Addrs
    BY <1>6, <2>2, <2>4, LeftHalts DEF Cleared, r
  <2> QED BY <2>3, <2>4
<1>8. CASE /\ i = 2 /\ y < g.regs["s1"][1] /\ y \in Addrs
           /\ InBuf(g, Both(<< y, 0 >>, g.regs["s1"]), g.dpc, Wiped(g, y + 1), g.data)
  <2>1. InWord(i, req, g, Both(<< y, 0 >>, g.regs["s1"]), g.dpc, Wiped(g, y + 1), g.data)
    BY <1>8 DEF InWord, ProgBufSize
  <2> DEFINE r == Both(<< y, 0 >>, g.regs["s1"])
  <2>2. r["s0"] = << y, 0 >> /\ r["s1"] = g.regs["s1"]
    BY <1>2
  <2> HIDE DEF r
  <2>3. Moved(i, g, Both(<< r["s0"][1] + 1, r["s0"][2] >>, r["s1"]), g.dpc, Wiped(g, y + 1), g.data)
    BY <1>1, <1>8, <2>1, AddWord DEF r
  <2>4. Moved(i, g, Both(<< y + 1, 0 >>, g.regs["s1"]), g.dpc, Wiped(g, y + 1), g.data)
    BY <2>2, <2>3
  <2>5. ClearsTo(g, y + 1)
    <3>1. Place(g) .. (y + 1) - 1 \subseteq (Place(g) .. y - 1) \cup {y}
      BY <1>2
    <3> QED BY <1>2, <1>3, <1>4, <1>8, <3>1 DEF ClearsTo
  <2>6. y + 1 \in Nat
    OBVIOUS
  <2>7. hpc' = PROGBUF[3] /\ ClearAt(3, g)'
    BY <1>1, <1>4, <1>8, <2>4, <2>5, <2>6 DEF Moved, ClearAt
  <2> QED BY <1>5, <2>7
<1>9. CASE i = 3 /\ InBuf(g, Both(<< y, 0 >>, g.regs["s1"]), g.dpc, Wiped(g, y), g.data)
  <2>1. InWord(i, req, g, Both(<< y, 0 >>, g.regs["s1"]), g.dpc, Wiped(g, y), g.data)
    BY <1>9 DEF InWord, ProgBufSize
  <2>2. (<< y, 0 >> # g.regs["s1"]) <=> y # g.regs["s1"][1]
    BY <1>3, <1>4 DEF ClearsTo
  <2> DEFINE r == Both(<< y, 0 >>, g.regs["s1"])
  <2>3. r["s0"] = << y, 0 >> /\ r["s1"] = g.regs["s1"]
    BY <1>2
  <2> HIDE DEF r
  <2>4. GoesTo(PROGBUF[IF r["s0"] # r["s1"] THEN 1 ELSE i + 1], g, r, g.dpc, Wiped(g, y), g.data)
    BY <1>1, <1>9, <2>1, BranchWord DEF r
  <2>5. CASE y = g.regs["s1"][1]
    <3>1. hpc' = PROGBUF[4] /\ ClearAt(4, g)'
      BY <1>1, <1>4, <1>9, <2>2, <2>3, <2>4, <2>5 DEF GoesTo, ClearAt, r
    <3> QED BY <1>5, <3>1
  <2>6. CASE y # g.regs["s1"][1]
    <3>1. y < g.regs["s1"][1]
      BY <1>3, <1>4, <2>6 DEF ClearsTo
    <3>2. hpc' = PROGBUF[1] /\ ClearAt(1, g)'
      BY <1>1, <1>4, <1>9, <2>2, <2>3, <2>4, <2>6, <3>1 DEF GoesTo, ClearAt, r
    <3> QED BY <1>5, <3>2
  <2> QED BY <2>5, <2>6
<1>10. CASE i = 4 /\ y = g.regs["s1"][1] /\ InBuf(g, Both(<< y, 0 >>, g.regs["s1"]), g.dpc, Wiped(g, y), g.data)
  <2>1. GoesTo("entry", g, Both(<< y, 0 >>, g.regs["s1"]), g.dpc, Wiped(g, y), g.data)
    BY <1>1, <1>10, BreakWord
  <2> QED BY <1>6, <1>10, <2>1, LeftHalts DEF Cleared
<1> QED BY <1>4, <1>7, <1>8, <1>9, <1>10

\* In some word of the program that takes g to e.
AtWord(i, g, e) ==
  /\ g \in States /\ i \in 1 .. ProgBufSize /\ Regular
  /\ \/ LoadAt(i, g) /\ e = LoadEnd(g)
     \/ StoreAt(i, g) /\ e = StoreEnd(g)
     \/ ClearAt(i, g) /\ ClearEnds(g, e)
     \/ CsrAt(i, g) /\ e = CsrEnd(g)
     \/ FenceAt(i, g) /\ e = g

LEMMA WordStep ==
  ASSUME NEW i, NEW req, NEW g, NEW e, Executing(i, req), AtWord(i, g, e)
  PROVE  (\E j : hpc' = PROGBUF[j] /\ AtWord(j, g, e)') \/ Halts(e)
<1>0. g \in States
  BY DEF AtWord
<1>1. CASE LoadAt(i, g) /\ e = LoadEnd(g)
  <2>1. LoadAt(i + 1, g)' => i + 1 \in 1 .. ProgBufSize /\ Regular'
    BY <1>1 DEF LoadAt, Entered, InBuf, ProgBufSize
  <2> QED BY <1>0, <1>1, <2>1, LoadStep DEF AtWord
<1>2. CASE StoreAt(i, g) /\ e = StoreEnd(g)
  <2>1. StoreAt(i + 1, g)' => i + 1 \in 1 .. ProgBufSize /\ Regular'
    BY <1>2 DEF StoreAt, Entered, InBuf, ProgBufSize
  <2> QED BY <1>0, <1>2, <2>1, StoreStep DEF AtWord
<1>3. CASE ClearAt(i, g) /\ ClearEnds(g, e)
  <2>1. \A j : ClearAt(j, g)' => Regular'
    BY DEF ClearAt, InBuf
  <2> QED BY <1>0, <1>3, <2>1, ClearStep DEF AtWord
<1>4. CASE CsrAt(i, g) /\ e = CsrEnd(g)
  <2>1. CsrAt(i + 1, g)' => i + 1 \in 1 .. ProgBufSize /\ Regular'
    BY <1>4 DEF CsrAt, Entered, InBuf, ProgBufSize
  <2> QED BY <1>0, <1>4, <2>1, CsrStep DEF AtWord
<1>5. CASE FenceAt(i, g) /\ e = g
  <2>1. FenceAt(i + 1, g)' => i + 1 \in 1 .. ProgBufSize /\ Regular'
    BY <1>5 DEF FenceAt, Entered, InBuf, ProgBufSize
  <2> QED BY <1>0, <1>5, <2>1, FenceStep DEF AtWord
<1> QED BY <1>1, <1>2, <1>3, <1>4, <1>5 DEF AtWord

LEMMA WordTyped ==
  ASSUME NEW i, NEW g, NEW e, AtWord(i, g, e) PROVE TypedData /\ Regular
<1>0. g.data \in DoubleWords /\ g.dpc \in DoubleWords /\ g.prog \in [1 .. ProgBufSize -> Insns]
  BY DEF AtWord, States
<1>1. \E r, p, m : InBuf(g, r, p, m, g.data) \/ InBuf(g, r, p, m, g.dpc)
  <2>1. CASE LoadAt(i, g)
    BY <2>1 DEF LoadAt, Entered
  <2>2. CASE StoreAt(i, g)
    BY <2>2 DEF StoreAt, Entered
  <2>3. CASE ClearAt(i, g)
    BY <2>3 DEF ClearAt
  <2>4. CASE CsrAt(i, g)
    BY <2>4 DEF CsrAt, Entered
  <2>5. CASE FenceAt(i, g)
    BY <2>5 DEF FenceAt, Entered
  <2> QED BY <2>1, <2>2, <2>3, <2>4, <2>5 DEF AtWord
<1> QED BY <1>0, <1>1 DEF InBuf, TypedData

LEMMA WordKept ==
  ASSUME NEW i, NEW g, NEW e, AtWord(i, g, e),
         UNCHANGED <<hpc, regs, dscratch, dpc, mem, data_q, progbuf_q, command_q>>, LocalsKept
  PROVE  AtWord(i, g, e)'
<1>1. \A r, p, m, v : InBuf(g, r, p, m, v) => InBuf(g, r, p, m, v)'
  BY DEF InBuf, Regular, LocalsKept
<1>2. LoadAt(i, g) => LoadAt(i, g)'
  BY <1>1 DEF LoadAt, Entered
<1>3. StoreAt(i, g) => StoreAt(i, g)'
  BY <1>1 DEF StoreAt, Entered
<1>4. ClearAt(i, g) => ClearAt(i, g)'
  BY <1>1 DEF ClearAt
<1>5. CsrAt(i, g) => CsrAt(i, g)'
  BY <1>1 DEF CsrAt, Entered
<1>6. FenceAt(i, g) => FenceAt(i, g)'
  BY <1>1 DEF FenceAt, Entered
<1> QED BY <1>2, <1>3, <1>4, <1>5, <1>6 DEF AtWord, Regular

LEMMA WordFirst ==
  ASSUME NEW g \in States, NEW e, Executed(g, e), Data' = g, Regular', hpc' = PROGBUF[1]
  PROVE  AtWord(1, g, e)'
<1>1. Held' = regs'
  <2>1. hpc' \notin InScratch
    BY BufNames DEF InScratch
  <2> QED BY <2>1 DEF Held, Regular
<1>2. Entered(g)'
  BY <1>1 DEF Entered, InBuf, Data
<1>3. 1 \in 1 .. ProgBufSize
  BY DEF ProgBufSize
<1>4. CASE Begins(g, LoadProgram) /\ e = LoadEnd(g)
  BY <1>2, <1>3, <1>4 DEF AtWord, LoadAt
<1>5. CASE Begins(g, StoreProgram) /\ e = StoreEnd(g)
  BY <1>2, <1>3, <1>5 DEF AtWord, StoreAt
<1>6. CASE Begins(g, CsrProgram) /\ e = CsrEnd(g)
  BY <1>2, <1>3, <1>6 DEF AtWord, CsrAt
<1>7. CASE Begins(g, FenceProgram) /\ e = g
  BY <1>2, <1>3, <1>7 DEF AtWord, FenceAt
<1>8. CASE Begins(g, ClearProgram) /\ ClearEnds(g, e)
  <2>1. Place(g) \in Nat /\ g.regs["s0"] \in DoubleWords /\ g.regs["s1"] \in DoubleWords
        /\ g.regs = Both(g.regs["s0"], g.regs["s1"])
    BY GRegs
  <2>2. g.regs["s0"] = << Place(g), g.regs["s0"][2] >> /\ g.regs["s1"][1] \in Nat
    BY <2>1, Pairs DEF Place
  <2>3. /\ Place(g) < g.regs["s1"][1] /\ g.regs["s0"][2] = 0 /\ g.regs["s1"][2] = 0
    BY <1>8 DEF ClearEnds, ClearsTo
  <2>4. Place(g) .. Place(g) - 1 = {}
    BY <2>1
  <2>5. ClearsTo(g, Place(g))
    BY <2>1, <2>2, <2>3, <2>4 DEF ClearsTo
  <2>6. Wiped(g, Place(g)) = g.mem
    BY <2>4 DEF Wiped, States
  <2>7. Both(<< Place(g), 0 >>, g.regs["s1"]) = g.regs
    BY <2>1, <2>2, <2>3
  <2> QED BY <1>2, <1>3, <1>8, <2>1, <2>3, <2>5, <2>6, <2>7 DEF AtWord, ClearAt, Entered
<1> QED BY <1>4, <1>5, <1>6, <1>7, <1>8 DEF Executed

----------------------------------------------------------------------------
\* A command under way that takes f to e.
CmdData(f, e) ==
  /\ hpc \in {"whereto", "abstract"} => Data = f
  /\ hpc \in {"exception", "entry", "entry_loop"} => Data = e
  /\ \A i \in 1 .. ProgBufSize : hpc = PROGBUF[i] => AtWord(i, Transferred(f), e)
Midway(f, e) ==
  /\ Regular /\ Ends(f, e)
  /\ state_q = "Idle" => Data = e
  /\ state_q = "Go" => Data = f
  /\ state_q = "CmdExecuting" => CmdData(f, e)

LEMMA BufIs == ASSUME NEW l \in Bufs PROVE \E i \in 1 .. ProgBufSize : l = PROGBUF[i]
BY DEF Bufs, PROGBUF, ProgBufSize

LEMMA SomewhereElse ==
  ASSUME NEW l \in {"whereto", "abstract", "exception", "entry", "entry_loop", "flag_go", "flag_resume", "going"}
  PROVE  l \notin Bufs /\ \A i \in 1 .. ProgBufSize : l # PROGBUF[i]
BY BufNames DEF Bufs

LEMMA ExecutingTurn ==
  ASSUME NEW f, NEW e, Midway(f, e), state_q = "CmdExecuting", hpc \in Anywhere,
         HartStep, Moves(Access), NEW req, DmCycle(req, Access), Still(req),
         dmcontrol_q.dmactive = TRUE, LocalsKept
  PROVE  /\ Regular' /\ (Access.at = "halted" => Data' = e)
         /\ (Access.at # "halted" => CmdData(f, e)')
<1>0. f \in States /\ e \in States /\ Ends(f, e) /\ Regular /\ CmdData(f, e)
  BY DEF Midway, Ends
<1>1. CASE hpc \in {"exception", "entry", "entry_loop"}
  <2>1. Data = e /\ TypedData /\ ~Executes
    BY <1>0, <1>1, DataTyped, SomewhereElse DEF CmdData, Executes
  <2>2. HartSame(Access)
    BY <1>0, <2>1, RomKeeps
  <2>3. PICK acc : acc = Access
    OBVIOUS
  <2>4. UNCHANGED <<data_q, progbuf_q, command_q>>
    BY <2>1, <2>2, <2>3, ModuleStill DEF HartSame
  <2>5. Data' = e /\ Regular'
    BY <2>1, <2>2, <2>3, <2>4, DataSame
  <2>6. \/ Access.at = "halted"
        \/ hpc' \in {"exception", "entry", "entry_loop"}
    BY <1>1, SomewhereElse DEF Moves
  <2>7. hpc' \in {"exception", "entry", "entry_loop"} => CmdData(f, e)'
    BY <2>5, SomewhereElse DEF CmdData
  <2> QED BY <2>5, <2>6, <2>7
<1>2. CASE hpc = "whereto"
  <2>1. Data = f /\ TypedData /\ ~Executes
    BY <1>0, <1>2, DataTyped, SomewhereElse DEF CmdData, Executes
  <2>2. HartSame(Access)
    BY <1>0, <2>1, RomKeeps
  <2>3. PICK acc : acc = Access
    OBVIOUS
  <2>4. UNCHANGED <<data_q, progbuf_q, command_q>>
    BY <2>1, <2>2, <2>3, ModuleStill DEF HartSame
  <2>5. Data' = f /\ Regular'
    BY <2>1, <2>2, <2>3, <2>4, DataSame
  <2>6. f.command = command_q /\ command_q.transfer = TRUE
    BY <1>0, <2>1 DEF Data, Ends
  <2>7. Access.at = "none" /\ hpc' \in {"whereto", "abstract"}
    BY <1>2, <2>6, SomewhereElse DEF Moves
  <2>8. CmdData(f, e)'
    BY <2>5, <2>7, SomewhereElse DEF CmdData
  <2> QED BY <2>5, <2>7, <2>8
<1>3. CASE hpc = "abstract"
  <2>1. Data = f /\ TypedData
    BY <1>0, <1>3, DataTyped DEF CmdData
  <2>2. Data' = Transferred(Data) /\ Regular'
    BY <1>0, <1>3, <2>1, AbstractTurn
  <2>3. Data' = Transferred(f) /\ Regular'
    BY <2>1, <2>2
  <2>4. f.command = command_q /\ f.command.size \in 0 .. 4 /\ f.command.postexec \in BOOLEAN
    BY <1>0, <2>1 DEF Data, States
  <2>5. Access.at \in {"none", "data"}
    BY <1>3, AccessAt
  <2>6. hpc' = IF ~(command_q.size < 4) THEN "exception"
               ELSE IF command_q.postexec = TRUE THEN "PROGBUF0" ELSE "entry"
    <3>1. Abstract
      <4>1. ~Progbuf
        BY <1>3, SomewhereElse DEF Progbuf, InProgbuf, At
      <4> QED BY <1>3, <4>1 DEF HartStep, Interrupted, RunsOn, Entry, SayHalted, PollGo, PollResume,
                      Going, Whereto, Resuming, Dret, Excepts, Rom
    <3> QED BY <2>4, <3>1, BufNames DEF Abstract, AbstractLegal, At
  <2>7. CASE f.command.size = 4 \/ f.command.postexec = FALSE
    <3>1. hpc' \in {"exception", "entry"}
      BY <2>4, <2>6, <2>7
    <3>2. e = Transferred(f)
      BY <1>0, <2>7 DEF Ends
    <3> QED BY <2>3, <2>5, <3>1, <3>2, SomewhereElse DEF CmdData
  <2>8. CASE ~(f.command.size = 4 \/ f.command.postexec = FALSE)
    <3>1. hpc' = PROGBUF[1] /\ hpc' \in Bufs
      BY <2>4, <2>6, <2>8, BufNames DEF Bufs
    <3>2. Executed(Transferred(f), e) /\ Transferred(f) \in States
      BY <1>0, <2>8, TransferTyped DEF Ends
    <3>3. PICK g : g = Transferred(f)
      OBVIOUS
    <3>4. AtWord(1, g, e)'
      BY <2>3, <3>1, <3>2, <3>3, WordFirst
    <3>5. \A i \in 1 .. ProgBufSize : hpc' = PROGBUF[i] => i = 1
      <4>1. 1 \in 1 .. ProgBufSize
        BY DEF ProgBufSize
      <4> QED BY <3>1, <4>1, BufsDiffer
    <3> QED BY <2>3, <2>5, <3>1, <3>3, <3>4, <3>5, SomewhereElse DEF CmdData
  <2> QED BY <2>7, <2>8
<1>4. CASE hpc \in Bufs
  <2>1. PICK i \in 1 .. ProgBufSize : hpc = PROGBUF[i]
    BY <1>4, BufIs
  <2>2. PICK g : g = Transferred(f)
    OBVIOUS
  <2>3. AtWord(i, g, e)
    BY <1>0, <2>1, <2>2 DEF CmdData
  <2>4. Executing(i, req)
    BY <1>0, <2>1, <2>3, WordTyped DEF Executing
  <2>5. Access.at \in {"none", "data"}
    BY <1>4, AccessAt
  <2>6. CASE Halts(e)
    BY <2>5, <2>6, SomewhereElse DEF Halts, CmdData
  <2>7. CASE \E j : hpc' = PROGBUF[j] /\ AtWord(j, g, e)'
    <3>1. PICK j : hpc' = PROGBUF[j] /\ AtWord(j, g, e)'
      BY <2>7
    <3>2. j \in 1 .. ProgBufSize
      BY <3>1 DEF AtWord
    <3>3. hpc' \in Bufs /\ \A k \in 1 .. ProgBufSize : hpc' = PROGBUF[k] => k = j
      BY <3>1, <3>2, BufNames, BufsDiffer
    <3>4. Regular'
      BY <3>1 DEF AtWord
    <3> QED BY <2>2, <2>5, <3>1, <3>3, <3>4, SomewhereElse DEF CmdData
  <2> QED BY <2>3, <2>4, <2>6, <2>7, WordStep
<1> QED BY <1>1, <1>2, <1>3, <1>4 DEF Anywhere

LEMMA ProgressTurn ==
  ASSUME NEW f, NEW e, Midway(f, e), NEW where \in SUBSET Anywhere, Works(where),
         NEW stalled \in BOOLEAN, Hart(stalled), Moves(Acc(stalled)), NEW req,
         DmCycle(req, Acc(stalled)), Rest(Acc(stalled).at), Still(req),
         dmcontrol_q.dmactive = TRUE, resumereq = FALSE, LocalsKept
  PROVE  Midway(f, e)'
<1>0. f \in States /\ e \in States /\ Ends(f, e) /\ Regular
  BY DEF Midway, Ends
<1>1. PICK acc : acc = Acc(stalled)
  OBVIOUS
<1>2. CASE state_q \in {"Idle", "Go"}
  <2>1. PICK d : d = Data /\ d = IF state_q = "Idle" THEN e ELSE f
    BY <1>2 DEF Midway
  <2>2. hpc \in {"entry_loop", "flag_go", "flag_resume", "going"} /\ (state_q = "Idle" => Parked)
    BY <1>2 DEF Works, Parked
  <2>3. ~Executes /\ TypedData
    BY <1>0, <2>1, <2>2, SomewhereElse, DataTyped DEF Executes
  <2>4. HartSame(acc)
    BY <1>0, <1>1, <2>3, QuietHart
  <2>5. UNCHANGED <<data_q, progbuf_q, command_q>>
    BY <1>1, <2>3, <2>4, ModuleStill DEF HartSame
  <2>6. Data' = d /\ Regular'
    BY <2>1, <2>4, <2>5, DataSame
  <2>7. CASE state_q = "Idle"
    <3>1. state_q' = "Idle"
      BY <2>7 DEF Rest
    <3> QED BY <1>0, <2>1, <2>6, <2>7, <3>1 DEF Midway, Ends
  <2>8. CASE state_q = "Go" /\ acc.at = "going"
    <3>1. hpc = "going" /\ hpc' = "whereto" /\ state_q' = "CmdExecuting"
      BY <1>1, <2>2, <2>8 DEF Moves, Rest, Advances
    <3>2. CmdData(f, e)'
      BY <2>1, <2>6, <2>8, <3>1, SomewhereElse DEF CmdData
    <3> QED BY <1>0, <2>6, <3>1, <3>2 DEF Midway, Ends
  <2>9. CASE state_q = "Go" /\ acc.at # "going"
    <3>1. state_q' = "Go"
      BY <1>1, <2>9 DEF Rest, Advances
    <3> QED BY <1>0, <2>1, <2>6, <2>9, <3>1 DEF Midway, Ends
  <2> QED BY <1>2, <2>7, <2>8, <2>9
<1>3. CASE state_q = "CmdExecuting"
  <2>1. hpc \in Anywhere /\ CmdData(f, e)
    BY <1>3 DEF Works, Midway
  <2>2. CASE stalled
    <3>1. UNCHANGED <<hpc, regs, dscratch, dpc, mem>> /\ acc.at = "none"
      BY <1>1, <2>2 DEF Hart, Acc, NoAccess, hartVars
    <3>2. TypedData
      <4>1. CASE Data \in States
        BY <4>1, DataTyped
      <4>2. CASE \E i \in 1 .. ProgBufSize : hpc = PROGBUF[i]
        <5>1. PICK i \in 1 .. ProgBufSize : hpc = PROGBUF[i]
          BY <4>2
        <5>2. PICK g : g = Transferred(f)
          OBVIOUS
        <5> QED BY <2>1, <5>1, <5>2, WordTyped DEF CmdData
      <4> QED BY <1>0, <2>1, <4>1, <4>2, BufIs DEF CmdData, Anywhere
    <3>3. UNCHANGED <<data_q, progbuf_q, command_q>>
      BY <1>1, <3>1, <3>2, ModuleStill
    <3>4. HartSame(acc)
      BY <1>0, <3>1 DEF HartSame, Held, Regular
    <3>5. Data' = Data /\ Regular'
      BY <3>3, <3>4, DataSame
    <3>6. PICK g : g = Transferred(f)
      OBVIOUS
    <3>7. ASSUME NEW i \in 1 .. ProgBufSize, AtWord(i, g, e) PROVE AtWord(i, g, e)'
      BY <3>1, <3>3, <3>7, WordKept
    <3>8. CmdData(f, e)'
      BY <2>1, <3>1, <3>5, <3>6, <3>7 DEF CmdData
    <3>9. state_q' = "CmdExecuting"
      BY <1>1, <1>3, <3>1 DEF Rest, Advances
    <3> QED BY <1>0, <3>5, <3>8, <3>9 DEF Midway, Ends
  <2>3. CASE ~stalled
    <3>1. Acc(stalled) = Access /\ HartStep /\ Moves(Access) /\ DmCycle(req, Access)
      BY <2>3 DEF Acc, Hart
    <3>2. /\ Regular' /\ (Access.at = "halted" => Data' = e)
          /\ (Access.at # "halted" => CmdData(f, e)')
      BY <1>3, <2>1, <3>1, ExecutingTurn
    <3>3. state_q' = IF Access.at = "halted" THEN "Idle" ELSE "CmdExecuting"
      BY <1>3, <3>1 DEF Rest, Advances
    <3> QED BY <1>0, <3>2, <3>3 DEF Midway, Ends
  <2> QED BY <2>2, <2>3
<1> QED BY <1>2, <1>3 DEF Works

----------------------------------------------------------------------------
\* A place, with the data there and, while a command is under way, the data it
\* started from.
Free    == {"init", "out", "halting", "resuming", "resumed"}
Working == {"busy", "sure", "autobusy"}
Spots ==
  {x \in [at : Labels, d : States, from : States] :
     /\ x.at \in Free => x.d.regs = ProgramRegs
     /\ x.at = "init" => Asleep(x.d)}

DataAt(x) == IF x.at \in Working THEN Midway(x.from, x.d) ELSE Data = x.d /\ Regular

\* A cycle in which the host asks nothing, or looks or polls.
Looking(req) == Still(req) /\ Harmless(req)

LEMMA LookingIs == Looking(NoRequest) /\ \A addr : addr # DATA[1] => Looking([op |-> "read", addr |-> addr])
BY DEF Looking, Still, Harmless, NoRequest, Writes, Touches

LEMMA DataStays ==
  ASSUME NEW x \in Spots, Ctl(x.at), DataAt(x), NEW stalled \in BOOLEAN, Hart(stalled),
         Moves(Acc(stalled)), NEW req, DmCycle(req, Acc(stalled)), Looking(req), LocalsKept
  PROVE  DataAt(x)'
<1>1. x.at \in Labels /\ x.d \in States /\ (x.at = "init" => Asleep(x.d))
  BY DEF Spots
<1>2. CASE x.at \in Working
  <2>1. PICK auto \in BOOLEAN : Sees(FALSE, FALSE, auto)
    BY <1>2 DEF Ctl, Working
  <2>2. dmcontrol_q.dmactive = TRUE /\ resumereq = FALSE
    BY <2>1, Signals
  <2>3. PICK where \in SUBSET Anywhere : Works(where)
    BY <1>2 DEF Ctl, Working, Nowhere, Anywhere
  <2>4. PICK acc : acc = Acc(stalled)
    OBVIOUS
  <2>5. Rest(acc.at)
    BY <2>2, <2>4, QuietTurn DEF Looking
  <2>6. PICK f, e : f = x.from /\ e = x.d
    OBVIOUS
  <2>7. Midway(f, e)'
    BY <1>2, <2>2, <2>3, <2>4, <2>5, <2>6, ProgressTurn DEF DataAt, Looking
  <2> QED BY <1>2, <2>6, <2>7 DEF DataAt
<1>3. CASE x.at = "init"
  <2>1. Data' = Data /\ Regular'
    BY <1>1, <1>3, AsleepTurn DEF DataAt, Working
  <2> QED BY <1>3, <2>1 DEF DataAt, Working
<1>4. CASE x.at \notin Working \cup {"init"}
  <2>1. x.at \in Resting /\ TypedData
    BY <1>1, <1>4, DataTyped DEF Resting, Labels, Working, DataAt
  <2>2. Data' = Data /\ Regular'
    BY <1>4, <2>1, RestingTurn DEF DataAt, Looking
  <2> QED BY <1>4, <2>2 DEF DataAt
<1> QED BY <1>2, <1>3, <1>4

----------------------------------------------------------------------------
\* What a request does to the data.
SetHalf(p, i, v) == IF i = 1 THEN << v, p[2] >> ELSE << p[1], v >>

Fetches(t) == t.k = "read" /\ "to" \in DOMAIN t
Fetched(d, t) ==
  IF t.to # "got" THEN Local(d, [d.vars EXCEPT ![t.to] = SetHalf(d.vars[t.to], t.i, d.data[t.i])], d.got)
  ELSE IF t.i = 1 THEN Local(d, [d.vars EXCEPT !["data"] = SetHalf(d.vars["data"], 1, d.data[1])], d.got)
  ELSE Local(d, d.vars, Append(d.got, << d.vars["data"][1], d.data[2] >>))

Filling(d, t)         == IF t.k = "half" THEN d.vars[t.from][t.i] ELSE t.val
Filled(d, i, v)       == [d EXCEPT !.data = SetHalf(d.data, i, v)]
Programmed(d, i, v)   == [d EXCEPT !.prog = [d.prog EXCEPT ![i] = v]]
Commanded(d, v)       == [d EXCEPT !.command = v]

\* Requests that leave the data alone.
Neutral(t) == \/ t.k \in {"nop", "until", "done", "die"}
              \/ t.k = "read" /\ ~Fetches(t)
              \/ t.k = "write" /\ t.addr \in {"DMCONTROL", "AUTO", "ABSTRACTCS"}

Carries(x, t, y) ==
  \/ Neutral(t) /\ y.d = x.d
  \/ /\ Fetches(t) /\ x.at \in {"in", "err"} /\ t.i \in 1 .. 2 /\ t.addr = DATA[t.i]
     /\ y.d = Fetched(x.d, t)
  \/ Puts(t, "COMMAND") /\ y.from = Commanded(x.d, t.val) /\ Ends(y.from, y.d)
  \/ /\ Fills(t) /\ (t.k = "half" => t.from \in Vars)
     /\ \E i \in 1 .. 2 :
          /\ t.addr = DATA[i]
          /\ IF y.at = "autobusy"
             THEN y.from = Filled(x.d, i, Filling(x.d, t)) /\ Ends(y.from, y.d)
             ELSE y.d = Filled(x.d, i, Filling(x.d, t))
  \/ Programs(t) /\ \E i \in 1 .. ProgBufSize : t.addr = PROGBUF[i] /\ y.d = Programmed(x.d, i, t.val)
Step(x, t, y) == Edge(x.at, t, y.at) /\ Carries(x, t, y) /\ ("to" \in DOMAIN t => t.k = "read")

\* A request that the module has taken.
Sends(x, t, y, r) ==
  IF t.k \in {"until", "done"} THEN DataAt(x)
  ELSE IF Fetches(t) THEN Data = x.d /\ Regular /\ r = x.d.data[t.i]
  ELSE DataAt(y)
Takes(x, t, y, r, stalled) ==
  /\ x \in Spots /\ y \in Spots /\ Step(x, t, y) /\ Ctl(x.at) /\ DataAt(x)
  /\ Micro = t /\ r = Response /\ stalled \in BOOLEAN /\ Hart(stalled) /\ Moves(Acc(stalled))
  /\ DmCycle(req_bits, Acc(stalled)) /\ host' = host

LEMMA HostSame == host' = host => LocalsKept
<1> SUFFICES ASSUME host' = host PROVE LocalsKept
  OBVIOUS
<1>1. [x \in Vars |-> host[x]]' = [x \in Vars |-> host[x]]
  OBVIOUS
<1> QED BY <1>1 DEF LocalsKept

LEMMA PollTaken ==
  ASSUME NEW x, NEW t, NEW y, NEW r, NEW stalled, Takes(x, t, y, r, stalled), t.k \in {"until", "done"}
  PROVE  Sends(x, t, y, r)'
<1>1. Waits(x.at, t, y.at)
  BY DEF Takes, Step, Edge, Looks, Fills, Programs, Puts, die
<1>2. t.addr \in {"ABSTRACTCS", "DMSTATUS"} /\ req_bits = [op |-> "read", addr |-> t.addr]
  BY <1>1 DEF Waits, NotBusy, Until, Takes, req_bits
<1>3. Looking(req_bits)
  <2>1. t.addr # DATA[1]
    BY <1>2 DEF DATA
  <2> QED BY <1>2, <2>1, LookingIs
<1>4. PICK acc, req : acc = Acc(stalled) /\ req = req_bits
  OBVIOUS
<1>5. DataAt(x)'
  BY <1>3, <1>4, HostSame, DataStays DEF Takes
<1> QED BY <1>5 DEF Sends

\* At rest, whatever is asked of the module but data, programs and commands.
LEMMA RestTaken ==
  ASSUME NEW x \in Spots, Ctl(x.at), DataAt(x), x.at \notin Working, NEW stalled \in BOOLEAN,
         Hart(stalled), NEW req, DmCycle(req, Acc(stalled)), Still(req), LocalsKept
  PROVE  Data' = x.d /\ Regular'
<1>1. x.at \in Labels /\ x.d \in States /\ (x.at = "init" => Asleep(x.d)) /\ Data = x.d /\ Regular
  BY DEF Spots, DataAt
<1>2. CASE x.at = "init"
  BY <1>1, <1>2, AsleepTurn
<1>3. CASE x.at # "init"
  <2>1. x.at \in Resting /\ TypedData
    BY <1>1, <1>3, DataTyped DEF Resting, Labels, Working
  <2> QED BY <1>1, <2>1, RestingTurn
<1> QED BY <1>2, <1>3

LEMMA NeutralTaken ==
  ASSUME NEW x, NEW t, NEW y, NEW r, NEW stalled, Takes(x, t, y, r, stalled), Neutral(t),
         t.k \notin {"until", "done"}, y.d = x.d
  PROVE  Sends(x, t, y, r)'
<1>1. x.at \notin Working /\ y.at \notin Working
  <2>1. Edge(x.at, t, y.at)
    BY DEF Takes, Step
  <2>2. t.k = "write" => t.addr \notin {"COMMAND", "DATA0", "DATA1"}
    BY DEF Neutral
  <2>3. ~Waits(x.at, t, y.at)
    BY DEF Waits, NotBusy, Until
  <2> QED BY <2>1, <2>2, <2>3 DEF Edge, Working, Looks, Fills, Neutral, Puts, DATA, Steers, Switches, Clears,
                                   die, Programs
<1>2. Still(req_bits)
  <2>1. Micro = t
    BY DEF Takes
  <2>2. req_bits.op = "write" => req_bits.addr \in {"DMCONTROL", "AUTO", "ABSTRACTCS"}
    <3>1. CASE t.k = "write"
      BY <2>1, <3>1 DEF Neutral, req_bits
    <3>2. CASE t.k = "die"
      <4>1. t = die
        BY <3>2 DEF Takes, Step, Edge, Looks, Fills, Programs, Puts, Waits, NotBusy, Until
      <4> QED BY <2>1, <4>1 DEF req_bits, die
    <3>3. CASE t.k \in {"nop", "read"}
      BY <2>1, <3>3 DEF req_bits
    <3> QED BY <3>1, <3>2, <3>3 DEF Neutral
  <2>3. \A i \in 1 .. DataCount : DATA[i] \in {"DATA0", "DATA1"}
    BY DEF DATA, DataCount
  <2> QED BY <2>2, <2>3, BufsDiffer DEF Still, Writes
<1>3. PICK acc, req : acc = Acc(stalled) /\ req = req_bits
  OBVIOUS
<1>4. Data' = x.d /\ Regular'
  BY <1>1, <1>2, <1>3, HostSame, RestTaken DEF Takes
<1>5. ~Fetches(t)
  BY DEF Neutral, Fetches
<1> QED BY <1>1, <1>4, <1>5 DEF Sends, DataAt

LEMMA FetchTaken ==
  ASSUME NEW x, NEW t, NEW y, NEW r, NEW stalled, Takes(x, t, y, r, stalled), Fetches(t),
         x.at \in {"in", "err"}, t.i \in 1 .. 2, t.addr = DATA[t.i]
  PROVE  Sends(x, t, y, r)'
<1>1. req_bits = [op |-> "read", addr |-> t.addr]
  BY DEF Takes, Fetches, req_bits
<1>2. Still(req_bits)
  BY <1>1 DEF Still, Writes
<1>3. PICK acc, req : acc = Acc(stalled) /\ req = req_bits
  OBVIOUS
<1>4. Data' = x.d /\ Regular'
  BY <1>2, <1>3, HostSame, RestTaken DEF Takes, Working
<1>5. r = data_q[t.i]
  <2>1. r = ReadData(DATA[t.i])
    BY <1>1 DEF Takes, Response
  <2> QED BY <2>1 DEF ReadData, DATA
<1>6. data_q = x.d.data
  BY DEF Takes, DataAt, Working, Data
<1> QED BY <1>4, <1>5, <1>6 DEF Sends, Fetches

\* The hart is parked while the host changes something.
LEMMA ParkedTurn ==
  ASSUME NEW l \in {"in", "auto"}, Ctl(l), Regular, NEW stalled \in BOOLEAN, Hart(stalled)
  PROVE  /\ HartSame(Acc(stalled)) /\ dmcontrol_q.dmactive = TRUE /\ state_q = "Idle" /\ halted_q = TRUE
         /\ resumereq = FALSE /\ (l = "auto" => autoexec_q = TRUE)
<1>1. PICK auto \in BOOLEAN : Sees(FALSE, FALSE, auto) /\ (l = "auto" => auto)
  BY DEF Ctl
<1>2. Kept
  BY DEF Ctl
<1>3. ~Executes
  BY <1>2, SomewhereElse DEF Kept, Parked, Executes
<1> QED BY <1>1, <1>2, <1>3, Signals, QuietHart DEF Kept, Sees

LEMMA StartGoes ==
  ASSUME NEW req, NEW acc, DmCycle(req, acc), state_q = "Idle", halted_q = TRUE, resumereq = FALSE, cmd_valid(req)
  PROVE  state_q' = "Go"
BY DEF DmCycle, NextState

LEMMA ModuleCommands ==
  ASSUME TypedData, NEW req, NEW acc, DmCycle(req, acc), dmcontrol_q.dmactive = TRUE,
         acc.at # "data", state_q = "Idle", Writes(req, "COMMAND")
  PROVE  command_q' = req.data /\ data_q' = data_q /\ progbuf_q' = progbuf_q
<1>1. data_q \in DoubleWords /\ progbuf_q \in [1 .. ProgBufSize -> Insns]
  BY DEF TypedData
<1>2. /\ \A j \in 1 .. ProgBufSize : ~Writes(req, PROGBUF[j])
      /\ \A j \in 1 .. DataCount : ~Writes(req, DATA[j])
  BY BufsDiffer DEF Writes, DATA, DataCount
<1>3. progbuf_q' = [j \in 1 .. ProgBufSize |-> progbuf_q[j]]
  BY <1>2 DEF DmCycle
<1>4. data_q' = [j \in 1 .. DataCount |-> data_q[j]]
  BY <1>2 DEF DmCycle, NextData
<1>5. data_q' = data_q
  BY <1>1, <1>4, Pairs DEF DataCount
<1> QED BY <1>1, <1>3, <1>5 DEF DmCycle, cmdbusy

LEMMA CommandTaken ==
  ASSUME NEW x, NEW t, NEW y, NEW r, NEW stalled, Takes(x, t, y, r, stalled), Puts(t, "COMMAND"),
         y.from = Commanded(x.d, t.val), Ends(y.from, y.d)
  PROVE  Sends(x, t, y, r)'
<1>1. x.at = "in" /\ y.at \in {"busy", "sure"}
  <2>1. Edge(x.at, t, y.at) /\ t.k = "write" /\ t.addr = "COMMAND"
    BY DEF Takes, Step, Puts
  <2>2. ~Programs(t)
    BY <2>1, BufsDiffer DEF Programs
  <2> QED BY <2>1, <2>2 DEF Edge, Looks, Fills, DATA, Puts, Starts, Waits, NotBusy, Until, die
<1>2. Data = x.d /\ Regular /\ x.d \in States
  BY <1>1 DEF Takes, DataAt, Working, Spots
<1>3. PICK acc, req : acc = Acc(stalled) /\ req = req_bits
  OBVIOUS
<1>4. Writes(req, "COMMAND") /\ req.data = t.val
  BY <1>3, PutBits DEF Takes, Writes
<1>5. /\ HartSame(acc) /\ dmcontrol_q.dmactive = TRUE /\ state_q = "Idle" /\ halted_q = TRUE
      /\ resumereq = FALSE
  BY <1>1, <1>2, <1>3, ParkedTurn DEF Takes
<1>6. DmCycle(req, acc) /\ TypedData /\ LocalsKept
  BY <1>2, <1>3, HostSame, DataTyped DEF Takes
<1>7. command_q' = t.val /\ data_q' = data_q /\ progbuf_q' = progbuf_q
  BY <1>4, <1>5, <1>6, ModuleCommands DEF HartSame
<1>8. state_q' = "Go"
  BY <1>4, <1>5, <1>6, StartGoes DEF cmd_valid, cmdbusy
<1>9. Data' = Commanded(x.d, t.val) /\ Regular'
  <2>1. Held' = Held /\ dpc' = dpc /\ mem' = mem /\ Regular'
    BY <1>5 DEF HartSame
  <2>2. /\ x.d.regs = Held /\ x.d.dpc = dpc /\ x.d.mem = mem /\ x.d.data = data_q /\ x.d.prog = progbuf_q
        /\ x.d.vars = [z \in Vars |-> host[z]] /\ x.d.got = host.got
    BY <1>2 DEF Data
  <2> QED BY <1>2, <1>6, <1>7, <2>1, <2>2 DEF Commanded, Data, States, LocalsKept
<1>10. DataAt(y)'
  BY <1>1, <1>8, <1>9 DEF DataAt, Working, Midway
<1> QED BY <1>10 DEF Sends, Fetches, Puts

LEMMA FillingTaken ==
  ASSUME NEW x, NEW t, NEW y, NEW r, NEW stalled, Takes(x, t, y, r, stalled), Fills(t),
         t.k = "half" => t.from \in Vars,
         NEW i \in 1 .. 2, t.addr = DATA[i],
         IF y.at = "autobusy" THEN y.from = Filled(x.d, i, Filling(x.d, t)) /\ Ends(y.from, y.d)
         ELSE y.d = Filled(x.d, i, Filling(x.d, t))
  PROVE  Sends(x, t, y, r)'
<1>1. \/ x.at \in {"in", "auto"} /\ y.at = x.at
      \/ x.at = "auto" /\ y.at = "autobusy" /\ i = 1
  <2>1. Edge(x.at, t, y.at) /\ t.k \in {"write", "half"} /\ t.addr \in {"DATA0", "DATA1"}
        /\ (t.addr = "DATA0" <=> i = 1)
    BY DEF Takes, Step, Fills, DATA
  <2> QED BY <2>1 DEF Edge, Looks, DATA, Puts, Waits, NotBusy, Until, die
<1>2. Data = x.d /\ Regular /\ x.d \in States
  BY <1>1 DEF Takes, DataAt, Working, Spots
<1>3. PICK acc, req : acc = Acc(stalled) /\ req = req_bits
  OBVIOUS
<1>4. Writes(req, DATA[i]) /\ req.data = Filling(x.d, t)
  <2>1. Micro = t
    BY DEF Takes
  <2>2. t.k = "half" => host[t.from] = x.d.vars[t.from]
    BY <1>2 DEF Data
  <2> QED BY <1>3, <2>1, <2>2 DEF Fills, req_bits, Filling, Writes
<1>5. /\ HartSame(acc) /\ dmcontrol_q.dmactive = TRUE /\ state_q = "Idle" /\ halted_q = TRUE
      /\ resumereq = FALSE /\ (x.at = "auto" => autoexec_q = TRUE)
  BY <1>1, <1>2, <1>3, ParkedTurn DEF Takes
<1>6. DmCycle(req, acc) /\ TypedData /\ LocalsKept
  BY <1>2, <1>3, HostSame, DataTyped DEF Takes
<1>7. data_q' = [data_q EXCEPT ![i] = Filling(x.d, t)] /\ progbuf_q' = progbuf_q /\ command_q' = command_q
  <2>1. i \in 1 .. DataCount
    BY DEF DataCount
  <2> QED BY <1>4, <1>5, <1>6, <2>1, ModuleFills DEF HartSame
<1>8. Data' = Filled(x.d, i, Filling(x.d, t)) /\ Regular'
  <2>1. Held' = Held /\ dpc' = dpc /\ mem' = mem /\ Regular'
    BY <1>5 DEF HartSame
  <2>2. /\ x.d.regs = Held /\ x.d.dpc = dpc /\ x.d.mem = mem /\ x.d.data = data_q /\ x.d.prog = progbuf_q
        /\ x.d.vars = [z \in Vars |-> host[z]] /\ x.d.got = host.got /\ x.d.command = command_q
    BY <1>2 DEF Data
  <2>3. data_q' = SetHalf(x.d.data, i, Filling(x.d, t))
    <3>1. data_q \in DoubleWords
      BY <1>6 DEF TypedData
    <3>2. PICK v : v = Filling(x.d, t)
      OBVIOUS
    <3>3. [data_q EXCEPT ![1] = v] = << v, data_q[2] >> /\ [data_q EXCEPT ![2] = v] = << data_q[1], v >>
      BY <3>1, Pairs
    <3>4. i = 1 \/ i = 2
      OBVIOUS
    <3> QED BY <1>7, <2>2, <3>2, <3>3, <3>4 DEF SetHalf
  <2>4. PICK w : w = SetHalf(x.d.data, i, Filling(x.d, t))
    OBVIOUS
  <2>5. Filled(x.d, i, Filling(x.d, t)) = [x.d EXCEPT !.data = w]
    BY <2>4 DEF Filled
  <2> QED BY <1>2, <1>6, <1>7, <2>1, <2>2, <2>3, <2>4, <2>5 DEF Data, States, LocalsKept
<1>9. DataAt(y)'
  <2>1. CASE y.at = "autobusy"
    <3>1. autoexec_q = TRUE /\ i = 1
      BY <1>1, <1>5, <2>1
    <3>2. cmd_valid(req)
      BY <1>4, <1>5, <3>1 DEF cmd_valid, cmdbusy, Writes, Touches
    <3>3. state_q' = "Go"
      BY <1>5, <1>6, <3>2, StartGoes
    <3> QED BY <1>8, <2>1, <3>3 DEF DataAt, Working, Midway
  <2>2. CASE y.at # "autobusy"
    BY <1>1, <1>8, <2>2 DEF DataAt, Working
  <2> QED BY <2>1, <2>2
<1> QED BY <1>9 DEF Sends, Fetches, Fills

LEMMA ProgramTaken ==
  ASSUME NEW x, NEW t, NEW y, NEW r, NEW stalled, Takes(x, t, y, r, stalled), Programs(t),
         NEW i \in 1 .. ProgBufSize, t.addr = PROGBUF[i], y.d = Programmed(x.d, i, t.val)
  PROVE  Sends(x, t, y, r)'
<1>1. x.at = "in" /\ y.at = "in"
  <2>1. Edge(x.at, t, y.at) /\ t.k = "write"
    BY DEF Takes, Step, Programs
  <2>2. t.addr \notin {"DATA0", "DATA1", "DMCONTROL", "COMMAND", "AUTO", "ABSTRACTCS"}
    BY BufsDiffer
  <2> QED BY <2>1, <2>2 DEF Edge, Looks, Fills, DATA, Puts, Waits, NotBusy, Until, die
<1>2. Data = x.d /\ Regular /\ x.d \in States
  BY <1>1 DEF Takes, DataAt, Working, Spots
<1>3. PICK acc, req : acc = Acc(stalled) /\ req = req_bits
  OBVIOUS
<1>4. Writes(req, PROGBUF[i]) /\ req.data = t.val
  BY <1>3 DEF Takes, Programs, req_bits, Writes
<1>5. HartSame(acc) /\ dmcontrol_q.dmactive = TRUE /\ state_q = "Idle"
  BY <1>1, <1>2, <1>3, ParkedTurn DEF Takes
<1>6. DmCycle(req, acc) /\ TypedData /\ LocalsKept
  BY <1>2, <1>3, HostSame, DataTyped DEF Takes
<1>7. progbuf_q' = [progbuf_q EXCEPT ![i] = t.val] /\ data_q' = data_q /\ command_q' = command_q
  BY <1>4, <1>5, <1>6, ModulePrograms DEF HartSame
<1>8. Data' = Programmed(x.d, i, t.val) /\ Regular'
  <2>1. Held' = Held /\ dpc' = dpc /\ mem' = mem /\ Regular'
    BY <1>5 DEF HartSame
  <2>2. /\ x.d.regs = Held /\ x.d.dpc = dpc /\ x.d.mem = mem /\ x.d.data = data_q /\ x.d.prog = progbuf_q
        /\ x.d.vars = [z \in Vars |-> host[z]] /\ x.d.got = host.got /\ x.d.command = command_q
    BY <1>2 DEF Data
  <2> QED BY <1>2, <1>6, <1>7, <2>1, <2>2 DEF Programmed, Data, States, LocalsKept
<1> QED BY <1>1, <1>8 DEF Sends, Fetches, Programs, DataAt, Working

LEMMA StepTaken ==
  ASSUME NEW x, NEW t, NEW y, NEW r, NEW stalled, Takes(x, t, y, r, stalled)
  PROVE  Sends(x, t, y, r)'
<1>1. Carries(x, t, y)
  BY DEF Takes, Step
<1>2. CASE Neutral(t) /\ y.d = x.d
  BY <1>2, PollTaken, NeutralTaken
<1>3. CASE ~(Neutral(t) /\ y.d = x.d)
  BY <1>1, <1>3, FetchTaken, CommandTaken, FillingTaken, ProgramTaken DEF Carries
<1> QED BY <1>2, <1>3

----------------------------------------------------------------------------
\* A request whose answer r the host takes.
Gets(x, t, y, r, stalled) ==
  /\ x \in Spots /\ y \in Spots /\ Step(x, t, y) /\ Sent(x.at, t, y.at, r) /\ Sends(x, t, y, r)
  /\ Micro = t /\ Answered(r) /\ stalled \in BOOLEAN /\ Hart(stalled) /\ Moves(Acc(stalled))
  /\ DmCycle(NoRequest, Acc(stalled)) /\ Static

\* What the host stores of the data registers.
LEMMA HostFetches ==
  ASSUME Static, NEW d \in States, NEW t, Data = d, Micro = t, Fetches(t), t.to \in Vars \cup {"got"},
         t.i \in 1 .. 2, Answered(d.data[t.i])
  PROVE  Refreshed = Fetched(d, t)
<1>1. DOMAIN host = {"s0", "s1", "data", "cmderr", "got"}
  BY DEF Static
<1>2. d.vars = [x \in Vars |-> host[x]] /\ d.got = host.got /\ d.vars \in [Vars -> DoubleWords]
  BY DEF Data, States
<1>3. host' = Store(t.to, t.i, d.data[t.i])
  BY DEF Answered, Fetches
<1>4. PICK v : v = d.data[t.i]
  OBVIOUS
<1>5. \A x \in Vars : host[x] = d.vars[x] /\ host[x] \in DoubleWords
  BY <1>2
<1> SUFFICES \E w, q : /\ Fetched(d, t) = Local(d, w, q) /\ w = [x \in Vars |-> host'[x]] /\ q = host'.got
  BY DEF Refreshed, Local
<1>6. CASE t.to # "got"
  <2>1. t.to \in Vars
    BY <1>6
  <2>2. PICK h : h = [host[t.to] EXCEPT ![t.i] = v]
    OBVIOUS
  <2>3. h = SetHalf(d.vars[t.to], t.i, v)
    BY <1>5, <2>1, <2>2, Pairs DEF SetHalf
  <2>4. host' = [host EXCEPT ![t.to] = h]
    BY <1>3, <1>4, <1>6, <2>2 DEF Store
  <2>5. [d.vars EXCEPT ![t.to] = h] = [x \in Vars |-> host'[x]] /\ host'.got = host.got
    BY <1>1, <1>2, <2>1, <2>4 DEF Vars
  <2> QED BY <1>2, <1>4, <1>6, <2>3, <2>5 DEF Fetched
<1>7. CASE t.to = "got" /\ t.i = 1
  <2>2. PICK h : h = [host["data"] EXCEPT ![1] = v]
    OBVIOUS
  <2>3. h = SetHalf(d.vars["data"], 1, v)
    BY <1>5, <2>2, Pairs DEF SetHalf, Vars
  <2>4. host' = [host EXCEPT !.data = h]
    BY <1>3, <1>4, <1>7, <2>2 DEF Store
  <2>5. [d.vars EXCEPT !["data"] = h] = [x \in Vars |-> host'[x]] /\ host'.got = host.got
    BY <1>1, <1>2, <2>4 DEF Vars
  <2> QED BY <1>2, <1>4, <1>7, <2>3, <2>5 DEF Fetched
<1>8. CASE t.to = "got" /\ t.i = 2
  <2>0. t.to = "got" /\ ~(t.i = 1)
    BY <1>8
  <2>1. PICK h : h = Append(host.got, << host.data[1], v >>)
    OBVIOUS
  <2>2. host' = [host EXCEPT !.got = h]
    <3>1. Store(t.to, t.i, v) = [host EXCEPT !.got = Append(host.got, << host.data[1], v >>)]
      BY <2>0, Zenon DEF Store
    <3>2. host' = Store(t.to, t.i, v)
      BY <1>3, <1>4
    <3> QED BY <2>1, <3>1, <3>2, Zenon
  <2>3. d.vars = [x \in Vars |-> host'[x]] /\ host'.got = h
    BY <1>1, <1>2, <2>2 DEF Vars
  <2>4. h = Append(d.got, << d.vars["data"][1], d.data[2] >>)
    BY <1>2, <1>4, <1>5, <1>8, <2>1 DEF Vars
  <2>5. Fetched(d, t) = Local(d, d.vars, Append(d.got, << d.vars["data"][1], d.data[2] >>))
    BY <2>0, Zenon DEF Fetched
  <2>6. Fetched(d, t) = Local(d, d.vars, h)
    BY <2>4, <2>5, Zenon
  <2> QED BY <2>3, <2>6, Zenon
<1> QED BY <1>6, <1>7, <1>8

LEMMA GetsStores ==
  ASSUME NEW x, NEW t, NEW y, NEW r, NEW stalled, Gets(x, t, y, r, stalled), ~Fetches(t)
  PROVE  LocalsKept
<1>1. "to" \notin DOMAIN t
  BY DEF Gets, Step, Fetches
<1>2. CASE t.k = "done"
  <2>1. host' = [host EXCEPT !.cmderr = r.cmderr]
    BY <1>2 DEF Gets, Answered
  <2>2. DOMAIN host = {"s0", "s1", "data", "cmderr", "got"}
    BY DEF Gets, Static
  <2>3. [z \in Vars |-> host'[z]] = [z \in Vars |-> host[z]] /\ host'.got = host.got
    BY <2>1, <2>2 DEF Vars
  <2> QED BY <2>3 DEF LocalsKept
<1>3. CASE t.k # "done"
  <2>1. host' = host
    BY <1>1, <1>3 DEF Gets, Answered
  <2> QED BY <2>1, HostSame
<1> QED BY <1>2, <1>3

LEMMA PollGets ==
  ASSUME NEW x, NEW t, NEW y, NEW r, NEW stalled, Gets(x, t, y, r, stalled), t.k \in {"until", "done"}
  PROVE  DataAt(x)' /\ (~Again(r) => DataAt(y)')
<1>1. Waits(x.at, t, y.at) /\ ~Fetches(t)
  BY DEF Gets, Step, Edge, Looks, Fills, Programs, Puts, die, Fetches
<1>2. LocalsKept /\ DataAt(x) /\ Ctl(x.at)
  BY <1>1, GetsStores DEF Gets, Sends, Sent
<1>3. DataAt(x)'
  BY <1>2, LookingIs, DataStays DEF Gets
<1>4. y.d = x.d
  BY DEF Gets, Step, Carries, Fetches, Puts, Fills, Programs
<1>5. ASSUME ~Again(r) PROVE DataAt(y)'
  <2>1. CASE t.k = "until"
    <3>1. x.at \notin Working /\ y.at \notin Working
      BY <1>1, <2>1 DEF Waits, Until, NotBusy, Working
    <3> QED BY <1>3, <1>4, <3>1 DEF DataAt
  <2>2. CASE t.k = "done"
    <3>1. x.at \in Working /\ y.at \in {"err", "in", "autoerr"}
      BY <1>1, <2>2 DEF Waits, Until, NotBusy, Working
    <3>2. Ctl(y.at)
      BY <1>5, <2>2 DEF Gets, Sent, Again
    <3>3. state_q = "Idle"
      BY <3>1, <3>2 DEF Ctl, Kept
    <3>4. Data = y.d /\ Regular /\ y.d \in States
      BY <1>2, <1>4, <3>1, <3>3 DEF DataAt, Midway, Gets, Spots
    <3>5. y.at \in Resting /\ y.at \notin Working /\ TypedData
      BY <3>1, <3>4, DataTyped DEF Resting, Working
    <3>6. Data' = y.d /\ Regular'
      BY <1>2, <3>2, <3>4, <3>5, LookingIs, RestingTurn DEF Gets, Looking
    <3> QED BY <3>5, <3>6 DEF DataAt
  <2> QED BY <2>1, <2>2
<1> QED BY <1>3, <1>5

LEMMA FetchGets ==
  ASSUME NEW x, NEW t, NEW y, NEW r, NEW stalled, Gets(x, t, y, r, stalled), Fetches(t)
  PROVE  DataAt(y)'
<1>1. x.at = y.at /\ Looks(t)
  BY DEF Gets, Step, Edge, Fetches, Looks, Fills, Programs, Puts, die, Waits, NotBusy, Until
<1>2. /\ x.at \in {"in", "err"} /\ t.i \in 1 .. 2 /\ y.d = Fetched(x.d, t) /\ t.to \in Vars \cup {"got"}
  BY <1>1 DEF Gets, Step, Carries, Neutral, Fetches, Fills, Programs, Puts, Looks, Vars
<1>3. Data = x.d /\ Regular /\ r = x.d.data[t.i] /\ x.d \in States /\ Ctl(y.at)
  BY <1>2 DEF Gets, Sends, Sent, Fetches, Spots
<1>4. Refreshed = y.d
  BY <1>2, <1>3, HostFetches DEF Gets
<1>5. y.at \in Resting /\ y.at \notin Working /\ TypedData
  BY <1>1, <1>2, <1>3, DataTyped DEF Resting, Working
<1>6. Data' = Refreshed /\ Regular'
  BY <1>3, <1>5, LookingIs, RestingTurn DEF Gets, Looking
<1> QED BY <1>4, <1>5, <1>6 DEF DataAt

LEMMA OtherGets ==
  ASSUME NEW x, NEW t, NEW y, NEW r, NEW stalled, Gets(x, t, y, r, stalled),
         ~Fetches(t), t.k \notin {"until", "done"}
  PROVE  DataAt(y)'
<1>1. LocalsKept /\ DataAt(y)
  BY GetsStores DEF Gets, Sends
<1>2. CASE x.at = "resumed"
  <2>1. Ctl("leaving") /\ y.at = "out"
    BY <1>2 DEF Gets, Sent, Step, Edge, Steers, Starts, Switches, Clears, Waits, NotBusy, Until
  <2>2. Data = y.d /\ Regular /\ y.at \notin Working /\ TypedData
    BY <1>1, <2>1, DataTyped DEF DataAt, Working, Gets, Spots
  <2>3. "leaving" \in Resting
    BY DEF Resting
  <2>4. Data' = y.d /\ Regular'
    BY <1>1, <2>1, <2>2, <2>3, LookingIs, RestingTurn DEF Gets, Looking
  <2> QED BY <2>2, <2>4 DEF DataAt
<1>3. CASE x.at # "resumed"
  <2>1. Ctl(y.at)
    BY <1>3 DEF Gets, Sent
  <2> QED BY <1>1, <2>1, LookingIs, DataStays DEF Gets
<1> QED BY <1>2, <1>3

LEMMA StepGets ==
  ASSUME NEW x, NEW t, NEW y, NEW r, NEW stalled, Gets(x, t, y, r, stalled)
  PROVE  (Again(r) => DataAt(x)') /\ (~Again(r) => DataAt(y)')
<1>1. Again(r) => t.k \in {"until", "done"}
  BY DEF Again, Gets
<1> QED BY <1>1, PollGets, FetchGets, OtherGets

\* Skipping the request that clears an error changes no data.
LEMMA SkipStep ==
  ASSUME NEW y, NEW t, NEW z, Step(y, t, z), t.k = "die"
  PROVE  z.d = y.d /\ Clears(y.at, z.at) /\ y.at \notin Working /\ z.at \notin Working
<1>1. Clears(y.at, z.at)
  BY DEF Step, Edge, Looks, Fills, Programs, Puts, Waits, NotBusy, Until
<1>2. z.d = y.d
  BY DEF Step, Carries, Fetches, Puts, Fills, Programs
<1> QED BY <1>1, <1>2 DEF Clears, Working

----------------------------------------------------------------------------
\* Sequences of requests.
Path(s, a, b, p) ==
  /\ \E S : s \in Seq(S)
  /\ p \in [1 .. Len(s) + 1 -> Spots] /\ p[1] = a /\ p[Len(s) + 1] = b
  /\ \A i \in 1 .. Len(s) : Step(p[i], s[i], p[i + 1])
Legal(s, a, b) == \E p : Path(s, a, b, p)

LEMMA LegalEmpty == ASSUME NEW a \in Spots PROVE Legal(<<>>, a, a)
<1> DEFINE p == [i \in 1 .. 1 |-> a]
<1>1. <<>> \in Seq({a}) /\ Len(<<>>) = 0
  OBVIOUS
<1>2. Path(<<>>, a, a, p)
  BY <1>1 DEF Path
<1> QED BY <1>2 DEF Legal

LEMMA LegalOne ==
  ASSUME NEW a \in Spots, NEW b \in Spots, NEW t, Step(a, t, b)
  PROVE  Legal(<< t >>, a, b)
<1> DEFINE p == [i \in 1 .. 2 |-> IF i = 1 THEN a ELSE b]
           s == << t >>
<1>1. s \in Seq({t}) /\ Len(s) = 1 /\ s[1] = t
  OBVIOUS
<1> HIDE DEF s
<1>2. Path(s, a, b, p)
  BY <1>1 DEF Path
<1> QED BY <1>2 DEF Legal, s

LEMMA LegalCat ==
  ASSUME NEW a, NEW b, NEW c, NEW s, NEW u, Legal(s, a, b), Legal(u, b, c)
  PROVE  Legal(s \o u, a, c)
<1>1. PICK p : Path(s, a, b, p)
  BY DEF Legal
<1>2. PICK q : Path(u, b, c, q)
  BY DEF Legal
<1>3. PICK S : s \in Seq(S)
  BY <1>1 DEF Path
<1>4. PICK U : u \in Seq(U)
  BY <1>2 DEF Path
<1>5. s \in Seq(S \cup U) /\ u \in Seq(S \cup U)
  BY <1>3, <1>4
<1> DEFINE v == s \o u
           r == [i \in 1 .. Len(s) + Len(u) + 1 |-> IF i <= Len(s) THEN p[i] ELSE q[i - Len(s)]]
<1>6. /\ v \in Seq(S \cup U) /\ Len(v) = Len(s) + Len(u)
      /\ \A i \in 1 .. Len(s) + Len(u) : v[i] = IF i <= Len(s) THEN s[i] ELSE u[i - Len(s)]
  BY <1>5, ConcatProperties
<1>7. Len(s) \in Nat /\ Len(u) \in Nat
  BY <1>3, <1>4
<1> HIDE DEF v
<1>8. r \in [1 .. Len(v) + 1 -> Spots] /\ r[1] = a /\ r[Len(v) + 1] = c
  BY <1>1, <1>2, <1>6, <1>7 DEF Path
<1>9. ASSUME NEW i \in 1 .. Len(v) PROVE Step(r[i], v[i], r[i + 1])
  <2>1. CASE i < Len(s)
    <3>1. i \in 1 .. Len(s) /\ r[i] = p[i] /\ r[i + 1] = p[i + 1] /\ v[i] = s[i]
      BY <1>6, <1>7, <2>1
    <3> QED BY <1>1, <3>1 DEF Path
  <2>2. CASE i = Len(s)
    <3>1. i \in 1 .. Len(s) /\ r[i] = p[i] /\ r[i + 1] = q[1] /\ v[i] = s[i]
      BY <1>6, <1>7, <2>2
    <3>2. q[1] = p[i + 1]
      BY <1>1, <1>2, <2>2 DEF Path
    <3> QED BY <1>1, <3>1, <3>2 DEF Path
  <2>3. CASE i > Len(s)
    <3>1. PICK j \in 1 .. Len(u) : j = i - Len(s)
      BY <1>6, <1>7, <2>3
    <3>2. r[i] = q[j] /\ r[i + 1] = q[j + 1] /\ v[i] = u[j]
      BY <1>6, <1>7, <2>3, <3>1
    <3> QED BY <1>2, <3>1, <3>2 DEF Path
  <2> QED BY <1>6, <1>7, <2>1, <2>2, <2>3
<1>10. Path(v, a, c, r)
  BY <1>6, <1>8, <1>9 DEF Path
<1> QED BY <1>10 DEF Legal, v

LEMMA LegalEnd == ASSUME NEW a, NEW b, Legal(<<>>, a, b) PROVE a = b /\ a \in Spots
<1>1. PICK p : Path(<<>>, a, b, p)
  BY DEF Legal
<1>2. Len(<<>>) = 0
  OBVIOUS
<1> QED BY <1>1, <1>2 DEF Path

LEMMA LegalTail ==
  ASSUME NEW a, NEW c, NEW s, Legal(s, a, c), s # <<>>
  PROVE  /\ \E S : s \in Seq(S)
         /\ \E b : a \in Spots /\ b \in Spots /\ Step(a, Head(s), b) /\ Legal(Tail(s), b, c)
<1>1. PICK p : Path(s, a, c, p)
  BY DEF Legal
<1>2. PICK S : s \in Seq(S)
  BY <1>1 DEF Path
<1>3. PICK n \in Nat : Len(s) = n + 1
  BY <1>2
<1> DEFINE u == Tail(s)
           q == [i \in 1 .. n + 1 |-> p[i + 1]]
<1>4. u \in Seq(S) /\ Len(u) = n /\ \A i \in 1 .. n : u[i] = s[i + 1]
  BY <1>2, <1>3
<1>5. Head(s) = s[1]
  BY <1>2, <1>3
<1> HIDE DEF u
<1>6. \A i \in 1 .. n + 2 : p[i] \in Spots
  BY <1>1, <1>3 DEF Path
<1>7. Path(u, p[2], c, q)
  <2>1. q \in [1 .. Len(u) + 1 -> Spots]
    BY <1>4, <1>6
  <2>2. q[1] = p[2] /\ q[Len(u) + 1] = p[n + 2]
    BY <1>4
  <2>3. p[n + 2] = c
    BY <1>1, <1>3 DEF Path
  <2>4. ASSUME NEW i \in 1 .. Len(u) PROVE Step(q[i], u[i], q[i + 1])
    <3>1. i + 1 \in 1 .. Len(s) /\ q[i] = p[i + 1] /\ q[i + 1] = p[(i + 1) + 1] /\ u[i] = s[i + 1]
      BY <1>3, <1>4
    <3> QED BY <1>1, <3>1 DEF Path
  <2> QED BY <1>4, <2>1, <2>2, <2>3, <2>4 DEF Path
<1>8. Step(a, s[1], p[2]) /\ a \in Spots /\ p[2] \in Spots
  <2>1. 1 \in 1 .. Len(s)
    BY <1>3
  <2>2. p[1] = a /\ Step(p[1], s[1], p[1 + 1])
    BY <1>1, <2>1 DEF Path
  <2> QED BY <1>3, <1>6, <2>2
<1>9. Legal(u, p[2], c)
  BY <1>7 DEF Legal
<1> QED BY <1>2, <1>5, <1>8, <1>9 DEF u

\* Parts one after another.  A set of natural numbers that is not empty has a
\* least element, which gives induction with a set for the hypothesis.
LEMMA LeastNat == ASSUME NEW T \in SUBSET Nat, T # {} PROVE \E x \in T : \A y \in T : x <= y
<1>1. IsWellFoundedOn(OpToRel(<, Nat), Nat)
  BY NatLessThanWellFounded
<1>2. \E x \in T : \A y \in T : ~(<<y, x>> \in OpToRel(<, Nat))
  BY <1>1, WFMin
<1>3. \A x, y \in Nat : y < x => <<y, x>> \in OpToRel(<, Nat)
  BY DEF OpToRel
<1>4. \A x, y \in Nat : ~(y < x) => x <= y
  OBVIOUS
<1> QED BY <1>2, <1>3, <1>4

LEMMA UpTo ==
  ASSUME NEW n \in Nat, NEW S \in SUBSET Nat, 0 \in S, \A i \in 1 .. n : i - 1 \in S => i \in S
  PROVE  n \in S
<1> DEFINE T == (0 .. n) \ S
<1> SUFFICES ASSUME T # {} PROVE FALSE
  OBVIOUS
<1>1. PICK x \in T : \A y \in T : x <= y
  <2>1. T \in SUBSET Nat
    OBVIOUS
  <2> HIDE DEF T
  <2> QED BY <2>1, LeastNat
<1>2. x # 0 /\ x \in 1 .. n /\ x - 1 \in 0 .. n
  BY <1>1
<1>3. x - 1 \in S
  BY <1>1, <1>2
<1> QED BY <1>1, <1>2, <1>3

\* The function that Concat recurs with, up to n.
Adds(parts, f, n) == f = [i \in 0 .. n |-> IF i = 0 THEN <<>> ELSE f[i - 1] \o parts[i]]

LEMMA AddsExists == ASSUME NEW parts, NEW n \in Nat PROVE \E f : Adds(parts, f, n)
<1> DEFINE S == {k \in Nat : \E f : Adds(parts, f, k)}
<1>1. 0 \in S
  <2> DEFINE f == [i \in 0 .. 0 |-> <<>>]
  <2>1. Adds(parts, f, 0)
    BY DEF Adds
  <2> QED BY <2>1
<1>2. ASSUME NEW i \in 1 .. n, i - 1 \in S PROVE i \in S
  <2>1. PICK f : Adds(parts, f, i - 1)
    BY <1>2
  <2> DEFINE g == [j \in 0 .. i |-> IF j = i THEN f[i - 1] \o parts[i] ELSE f[j]]
  <2>2. ASSUME NEW j \in 0 .. i
        PROVE  g[j] = IF j = 0 THEN <<>> ELSE g[j - 1] \o parts[j]
    <3>1. CASE j = i
      <4>1. i - 1 \in 0 .. i /\ i - 1 # i /\ i # 0 /\ i \in 0 .. i
        OBVIOUS
      <4>2. g[i - 1] = f[i - 1] /\ g[i] = f[i - 1] \o parts[i]
        BY <4>1
      <4> HIDE DEF g
      <4> QED BY <3>1, <4>1, <4>2
    <3>2. CASE j # i
      <4>1. j \in 0 .. i - 1 /\ g[j] = f[j]
        BY <3>2
      <4>2. f[j] = IF j = 0 THEN <<>> ELSE f[j - 1] \o parts[j]
        BY <2>1, <4>1 DEF Adds
      <4>3. j # 0 => g[j - 1] = f[j - 1]
        BY <4>1
      <4> QED BY <4>1, <4>2, <4>3
    <3> QED BY <3>1, <3>2
  <2>3. g = [j \in 0 .. i |-> IF j = 0 THEN <<>> ELSE g[j - 1] \o parts[j]]
    <3> DEFINE h == [j \in 0 .. i |-> IF j = 0 THEN <<>> ELSE g[j - 1] \o parts[j]]
    <3>1. \A j \in 0 .. i : g[j] = h[j]
      BY <2>2
    <3>2. g = [j \in 0 .. i |-> g[j]] /\ h = [j \in 0 .. i |-> h[j]]
      OBVIOUS
    <3> HIDE DEF g, h
    <3> QED BY <3>1, <3>2 DEF h
  <2> HIDE DEF g
  <2>4. Adds(parts, g, i)
    BY <2>3 DEF Adds
  <2> QED BY <2>4
<1>3. n \in S
  <2> HIDE DEF S
  <2>1. S \in SUBSET Nat
    BY DEF S
  <2> QED BY <1>1, <1>2, <2>1, UpTo
<1> QED BY <1>3

LEMMA ConcatIs ==
  ASSUME NEW parts, Len(parts) \in Nat
  PROVE  \E f : Adds(parts, f, Len(parts)) /\ Concat(parts) = f[Len(parts)]
<1>1. \E f : Adds(parts, f, Len(parts))
  BY AddsExists
<1> DEFINE f == CHOOSE f : Adds(parts, f, Len(parts))
<1>2. Adds(parts, f, Len(parts))
  BY <1>1
<1>3. Concat(parts) = f[Len(parts)]
  BY DEF Concat, Adds
<1> QED BY <1>2, <1>3

\* Parts that lead from each spot of one set to some spot of the next.
LEMMA LegalConcat ==
  ASSUME NEW parts, NEW n \in Nat, Len(parts) = n, NEW In, NEW a \in In[1], a \in Spots,
         \A i \in 1 .. n : \A x \in In[i] : \E y \in In[i + 1] : Legal(parts[i], x, y)
  PROVE  \E y \in In[n + 1] : Legal(Concat(parts), a, y)
<1>1. PICK f : Adds(parts, f, n) /\ Concat(parts) = f[n]
  BY ConcatIs
<1> DEFINE S == {i \in Nat : i <= n => \E y \in In[i + 1] : Legal(f[i], a, y)}
<1>2. 0 \in S
  <2>1. f[0] = <<>>
    BY <1>1 DEF Adds
  <2>2. Legal(f[0], a, a) /\ a \in In[0 + 1]
    BY <2>1, LegalEmpty
  <2> QED BY <2>2
<1>3. ASSUME NEW i \in 1 .. n, i - 1 \in S PROVE i \in S
  <2>1. f[i] = f[i - 1] \o parts[i]
    <3>1. i \in 0 .. n /\ i # 0
      OBVIOUS
    <3>2. \A j \in 0 .. n : f[j] = IF j = 0 THEN <<>> ELSE f[j - 1] \o parts[j]
      <4>1. f = [j \in 0 .. n |-> IF j = 0 THEN <<>> ELSE f[j - 1] \o parts[j]]
        BY <1>1 DEF Adds
      <4> QED BY ONLY <4>1
    <3> QED BY <3>1, <3>2
  <2>2. PICK x \in In[i] : Legal(f[i - 1], a, x)
    <3>1. i - 1 <= n /\ (i - 1) + 1 = i
      OBVIOUS
    <3> QED BY <1>3, <3>1
  <2>3. PICK y \in In[i + 1] : Legal(parts[i], x, y)
    OBVIOUS
  <2>4. Legal(f[i], a, y)
    BY <2>1, <2>2, <2>3, LegalCat
  <2> QED BY <2>4
<1>4. n \in S
  <2> HIDE DEF S
  <2>1. S \in SUBSET Nat
    BY DEF S
  <2> QED BY <1>2, <1>3, <2>1, UpTo
<1> QED BY <1>1, <1>4

LEMMA LegalTwo ==
  ASSUME NEW a \in Spots, NEW b \in Spots, NEW c \in Spots, NEW t, NEW u,
         Step(a, t, b), Step(b, u, c)
  PROVE  Legal(<< t, u >>, a, c)
<1>1. Legal(<< t >>, a, b) /\ Legal(<< u >>, b, c)
  BY LegalOne
<1>2. << t >> \o << u >> = << t, u >>
  <2> DEFINE x == << t >> \o << u >>
             y == << t, u >>
             S == {t, u}
  <2>1. y \in Seq(S) /\ Len(y) = 2 /\ y[1] = t /\ y[2] = u
    OBVIOUS
  <2>2. /\ << t >> \in Seq(S) /\ << u >> \in Seq(S) /\ Len(<< t >>) = 1 /\ Len(<< u >>) = 1
        /\ << t >>[1] = t /\ << u >>[1] = u
    OBVIOUS
  <2>3. x \in Seq(S) /\ Len(x) = 2 /\ x[1] = t /\ x[2] = u
    BY <2>2, ConcatProperties
  <2> HIDE DEF x, y
  <2>4. x = y
    BY <2>1, <2>3, SeqEqual
  <2> QED BY <2>4 DEF x, y
<1> QED BY <1>1, <1>2, LegalCat

LEMMA LegalFour ==
  ASSUME NEW a, NEW b, NEW c, NEW t, NEW u, NEW v, NEW w,
         Legal(<< t, u >>, a, b), Legal(<< v, w >>, b, c)
  PROVE  Legal(<< t, u, v, w >>, a, c)
<1>1. << t, u >> \o << v, w >> = << t, u, v, w >>
  <2> DEFINE l == << t, u >>
             r == << v, w >>
             x == l \o r
             y == << t, u, v, w >>
             S == {t, u, v, w}
  <2>1. y \in Seq(S) /\ Len(y) = 4 /\ y[1] = t /\ y[2] = u /\ y[3] = v /\ y[4] = w
    OBVIOUS
  <2>2. l \in Seq(S) /\ Len(l) = 2 /\ l[1] = t /\ l[2] = u
    OBVIOUS
  <2>3. r \in Seq(S) /\ Len(r) = 2 /\ r[1] = v /\ r[2] = w
    OBVIOUS
  <2> HIDE DEF l, r, y, S
  <2>4. x \in Seq(S) /\ Len(x) = 4 /\ x[1] = t /\ x[2] = u /\ x[3] = v /\ x[4] = w
    <3>1. l \in Seq(S) /\ r \in Seq(S) /\ Len(l) + Len(r) = 4
      BY <2>2, <2>3
    <3>2. /\ x \in Seq(S) /\ Len(x) = 4
          /\ \A i \in 1 .. 4 : x[i] = IF i <= Len(l) THEN l[i] ELSE r[i - Len(l)]
      BY <3>1, ConcatProperties
    <3> HIDE DEF x
    <3> QED BY <2>2, <2>3, <3>2
  <2> HIDE DEF x
  <2>5. \A i \in 1 .. 4 : x[i] = y[i]
    BY <2>1, <2>4
  <2>6. x = y
    <3>1. x \in Seq(S) /\ y \in Seq(S) /\ Len(x) = Len(y) /\ \A i \in 1 .. Len(x) : x[i] = y[i]
      BY <2>1, <2>4, <2>5
    <3> QED BY <3>1, SeqEqual
  <2> QED BY <2>6 DEF x, y, l, r
<1> QED BY <1>1, LegalCat

LEMMA LabelNames ==
  {"init", "out", "halting", "halted", "in", "err", "busy", "sure",
   "auto", "autoerr", "autobusy", "resuming", "resumed"} \subseteq Labels
BY DEF Labels

\* The single requests.
LEMMA LookEdges ==
  ASSUME NEW a \in {"init", "out", "in", "err"}
  PROVE  /\ \A addr : Edge(a, read(addr), a)
         /\ Edge(a, nop, a)
         /\ \A addr, i : \A x \in {"s0", "s1", "data", "got"} : Edge(a, ReadHalf(addr, x, i), a)
<1>1. \A addr : Edge(a, read(addr), a)
  BY DEF Edge, Looks, read
<1>2. Edge(a, nop, a)
  BY DEF Edge, Looks, nop
<1>3. \A addr, i : \A x \in {"s0", "s1", "data", "got"} : Edge(a, ReadHalf(addr, x, i), a)
  BY DEF Edge, Looks, ReadHalf
<1> QED BY <1>1, <1>2, <1>3

LEMMA FillEdges ==
  ASSUME NEW i \in {1, 2}
  PROVE  /\ \A v : Edge("in", write(DATA[i], v), "in")
         /\ \A x, j : Edge("in", WriteHalf(DATA[i], x, j), "in")
<1>1. DATA[i] \in {DATA[1], DATA[2]}
  OBVIOUS
<1>2. \A v : Edge("in", write(DATA[i], v), "in")
  BY <1>1 DEF Edge, Fills, write
<1>3. \A x, j : Edge("in", WriteHalf(DATA[i], x, j), "in")
  BY <1>1 DEF Edge, Fills, WriteHalf
<1> QED BY <1>2, <1>3

LEMMA PutEdges ==
  /\ \A a, b, v : Steers(a, v, b) => Edge(a, write("DMCONTROL", v), b)
  /\ \A a, b, v : Starts(a, v, b) => Edge(a, write("COMMAND", v), b)
  /\ \A a, b, v : Switches(a, v, b) => Edge(a, write("AUTO", v), b)
  /\ \A a, b, v : Clears(a, b) => Edge(a, die, b) /\ Edge(a, write("ABSTRACTCS", v), b)
  /\ \A v : Edge("auto", write(DATA[2], v), "auto") /\ Edge("auto", write(DATA[1], v), "autobusy")
<1>1. \A addr, v : Puts(write(addr, v), addr) /\ write(addr, v).val = v
  BY DEF Puts, write
<1>2. \A a, b, v : Steers(a, v, b) => Edge(a, write("DMCONTROL", v), b)
  BY <1>1 DEF Edge
<1>3. \A a, b, v : Starts(a, v, b) => Edge(a, write("COMMAND", v), b)
  BY <1>1 DEF Edge
<1>4. \A a, b, v : Switches(a, v, b) => Edge(a, write("AUTO", v), b)
  BY <1>1 DEF Edge
<1>5. \A a, b, v : Clears(a, b) => Edge(a, die, b) /\ Edge(a, write("ABSTRACTCS", v), b)
  BY <1>1 DEF Edge
<1>6. \A v : Edge("auto", write(DATA[2], v), "auto") /\ Edge("auto", write(DATA[1], v), "autobusy")
  BY <1>1 DEF Edge
<1> QED BY <1>2, <1>3, <1>4, <1>5, <1>6

LEMMA WaitEdges ==
  /\ Edge("busy", NotBusy, "err") /\ Edge("sure", NotBusy, "in") /\ Edge("autobusy", NotBusy, "autoerr")
  /\ Edge("halting", Until("allhalted"), "halted") /\ Edge("resuming", Until("allresumeack"), "resumed")
BY DEF Edge, Waits

----------------------------------------------------------------------------
\* The parts of the routines, with what they make of the data.
Spot(l, d)    == [at |-> l, d |-> d, from |-> d]
Busy(l, f, e) == [at |-> l, d |-> e, from |-> f]
Inside == {"in", "err", "auto", "autoerr", "halted"}

LEMMA SpotIs ==
  /\ \A d \in States : \A l \in Inside : Spot(l, d) \in Spots
  /\ \A d \in States : \A l \in Free \ {"init"} : d.regs = ProgramRegs => Spot(l, d) \in Spots
  /\ \A d \in States : d.regs = ProgramRegs /\ Asleep(d) => Spot("init", d) \in Spots
  /\ \A l, d : Spot(l, d).at = l /\ Spot(l, d).d = d
  /\ \A f, e \in States : \A l \in Working : Busy(l, f, e) \in Spots
  /\ \A l, f, e : Busy(l, f, e).at = l /\ Busy(l, f, e).d = e /\ Busy(l, f, e).from = f
<1>1. \A l \in Inside \cup Free \cup Working : l \in Labels
  BY DEF Inside, Free, Working, Labels
<1>2. \A l \in Inside \cup Working : l \notin Free /\ l # "init"
  BY DEF Inside, Free, Working
<1>3. ASSUME NEW d \in States, NEW l \in Inside PROVE Spot(l, d) \in Spots
  <2>1. Spot(l, d) \in [at : Labels, d : States, from : States]
    BY <1>1 DEF Spot
  <2> QED BY <1>2, <2>1 DEF Spots, Spot
<1>4. ASSUME NEW d \in States, NEW l \in Free, d.regs = ProgramRegs, l = "init" => Asleep(d)
      PROVE  Spot(l, d) \in Spots
  <2>1. Spot(l, d) \in [at : Labels, d : States, from : States]
    BY <1>1 DEF Spot
  <2> QED BY <1>4, <2>1 DEF Spots, Spot
<1>5. ASSUME NEW f \in States, NEW e \in States, NEW l \in Working PROVE Busy(l, f, e) \in Spots
  <2>1. Busy(l, f, e) \in [at : Labels, d : States, from : States]
    BY <1>1 DEF Busy
  <2> QED BY <1>2, <2>1 DEF Spots, Busy
<1>6. \A l, d : Spot(l, d).at = l /\ Spot(l, d).d = d
  BY DEF Spot
<1>7. \A l, f, e : Busy(l, f, e).at = l /\ Busy(l, f, e).d = e /\ Busy(l, f, e).from = f
  BY DEF Busy
<1>8. "init" \in Free
  BY DEF Free
<1> QED BY <1>3, <1>4, <1>5, <1>6, <1>7, <1>8

\* Requests that touch no data.
Mute(t) == Neutral(t) /\ "to" \notin DOMAIN t

LEMMA MuteOnes ==
  /\ \A addr : Mute(read(addr))
  /\ Mute(nop) /\ Mute(die) /\ Mute(NotBusy) /\ \A field : Mute(Until(field))
  /\ \A addr \in {"DMCONTROL", "AUTO", "ABSTRACTCS"} : \A v : Mute(write(addr, v))
<1>1. \A addr : Mute(read(addr))
  BY DEF Mute, Neutral, Fetches, read
<1>2. Mute(nop) /\ Mute(die) /\ Mute(NotBusy) /\ \A field : Mute(Until(field))
  BY DEF Mute, Neutral, nop, die, NotBusy, Until
<1>3. \A addr \in {"DMCONTROL", "AUTO", "ABSTRACTCS"} : \A v : Mute(write(addr, v))
  BY DEF Mute, Neutral, write
<1> QED BY <1>1, <1>2, <1>3

LEMMA MuteStep ==
  ASSUME NEW x, NEW t, NEW y, Mute(t), Edge(x.at, t, y.at), y.d = x.d PROVE Step(x, t, y)
BY DEF Step, Carries, Mute

LEMMA MuteSpots ==
  ASSUME NEW a, NEW t, NEW b, NEW d, Mute(t), Edge(a, t, b) PROVE Step(Spot(a, d), t, Spot(b, d))
BY MuteStep, SpotIs

LEMMA LookRoute ==
  ASSUME NEW l \in {"init", "out", "in", "err"}, NEW d, Spot(l, d) \in Spots, NEW addr
  PROVE  /\ Step(Spot(l, d), read(addr), Spot(l, d)) /\ Step(Spot(l, d), nop, Spot(l, d))
         /\ Legal(<< read(addr) >>, Spot(l, d), Spot(l, d)) /\ Legal(<< nop >>, Spot(l, d), Spot(l, d))
<1>1. Step(Spot(l, d), read(addr), Spot(l, d)) /\ Step(Spot(l, d), nop, Spot(l, d))
  BY LookEdges, MuteOnes, MuteStep, SpotIs
<1> QED BY <1>1, LegalOne

LEMMA HaltRoute ==
  ASSUME NEW d \in States, d.regs = ProgramRegs PROVE Legal(halt, Spot("out", d), Spot("in", d))
<1>0. /\ Spot("out", d) \in Spots /\ Spot("halting", d) \in Spots /\ Spot("halted", d) \in Spots
      /\ Spot("in", d) \in Spots
  BY SpotIs DEF Inside, Free
<1>1. /\ Steers("out", DMControl(TRUE, FALSE, 0, TRUE), "halting")
      /\ Steers("halted", DMControl(FALSE, FALSE, 0, TRUE), "in")
  BY DEF Steers
<1>2. /\ Step(Spot("out", d), write("DMCONTROL", DMControl(TRUE, FALSE, 0, TRUE)), Spot("halting", d))
      /\ Step(Spot("halting", d), Until("allhalted"), Spot("halted", d))
      /\ Step(Spot("halted", d), write("DMCONTROL", DMControl(FALSE, FALSE, 0, TRUE)), Spot("in", d))
      /\ Step(Spot("in", d), read("DMSTATUS"), Spot("in", d))
  <2>1. /\ Edge("out", write("DMCONTROL", DMControl(TRUE, FALSE, 0, TRUE)), "halting")
        /\ Edge("halted", write("DMCONTROL", DMControl(FALSE, FALSE, 0, TRUE)), "in")
    BY <1>1, PutEdges
  <2>2. Step(Spot("out", d), write("DMCONTROL", DMControl(TRUE, FALSE, 0, TRUE)), Spot("halting", d))
    BY <2>1, MuteOnes, MuteSpots
  <2>3. Step(Spot("halted", d), write("DMCONTROL", DMControl(FALSE, FALSE, 0, TRUE)), Spot("in", d))
    BY <2>1, MuteOnes, MuteSpots
  <2>4. Step(Spot("halting", d), Until("allhalted"), Spot("halted", d))
    BY WaitEdges, MuteOnes, MuteSpots
  <2>5. Step(Spot("in", d), read("DMSTATUS"), Spot("in", d))
    BY <1>0, LookRoute
  <2> QED BY <2>2, <2>3, <2>4, <2>5
<1>3. Legal(<< write("DMCONTROL", DMControl(TRUE, FALSE, 0, TRUE)), Until("allhalted") >>,
            Spot("out", d), Spot("halted", d))
  BY <1>0, <1>2, LegalTwo
<1>4. Legal(<< write("DMCONTROL", DMControl(FALSE, FALSE, 0, TRUE)), read("DMSTATUS") >>,
            Spot("halted", d), Spot("in", d))
  BY <1>0, <1>2, LegalTwo
<1> QED BY <1>3, <1>4, LegalFour DEF halt

LEMMA ResumeRoute ==
  ASSUME NEW d \in States, d.regs = ProgramRegs PROVE Legal(resume_hart, Spot("in", d), Spot("out", d))
<1>0. /\ Spot("out", d) \in Spots /\ Spot("resuming", d) \in Spots /\ Spot("resumed", d) \in Spots
      /\ Spot("in", d) \in Spots
  BY SpotIs DEF Inside, Free
<1>1. /\ Steers("in", DMControl(FALSE, TRUE, 0, TRUE), "resuming")
      /\ Steers("resumed", DMControl(FALSE, FALSE, 0, TRUE), "out")
  BY DEF Steers
<1>2. /\ Step(Spot("in", d), write("DMCONTROL", DMControl(FALSE, TRUE, 0, TRUE)), Spot("resuming", d))
      /\ Step(Spot("resuming", d), Until("allresumeack"), Spot("resumed", d))
      /\ Step(Spot("resumed", d), write("DMCONTROL", DMControl(FALSE, FALSE, 0, TRUE)), Spot("out", d))
      /\ Step(Spot("out", d), read("DMSTATUS"), Spot("out", d))
  <2>1. /\ Edge("in", write("DMCONTROL", DMControl(FALSE, TRUE, 0, TRUE)), "resuming")
        /\ Edge("resumed", write("DMCONTROL", DMControl(FALSE, FALSE, 0, TRUE)), "out")
    BY <1>1, PutEdges
  <2>2. Step(Spot("in", d), write("DMCONTROL", DMControl(FALSE, TRUE, 0, TRUE)), Spot("resuming", d))
    BY <2>1, MuteOnes, MuteSpots
  <2>3. Step(Spot("resumed", d), write("DMCONTROL", DMControl(FALSE, FALSE, 0, TRUE)), Spot("out", d))
    BY <2>1, MuteOnes, MuteSpots
  <2>4. Step(Spot("resuming", d), Until("allresumeack"), Spot("resumed", d))
    BY WaitEdges, MuteOnes, MuteSpots
  <2>5. Step(Spot("out", d), read("DMSTATUS"), Spot("out", d))
    BY <1>0, LookRoute
  <2> QED BY <2>2, <2>3, <2>4, <2>5
<1>3. Legal(<< write("DMCONTROL", DMControl(FALSE, TRUE, 0, TRUE)), Until("allresumeack") >>,
            Spot("in", d), Spot("resumed", d))
  BY <1>0, <1>2, LegalTwo
<1>4. Legal(<< write("DMCONTROL", DMControl(FALSE, FALSE, 0, TRUE)), read("DMSTATUS") >>,
            Spot("resumed", d), Spot("out", d))
  BY <1>0, <1>2, LegalTwo
<1> QED BY <1>3, <1>4, LegalFour DEF resume_hart

LEMMA SelectRoute ==
  ASSUME NEW d \in States, d.regs = ProgramRegs, NEW sel \in 0 .. 1
  PROVE  Legal(select_hart(sel), Spot("out", d), Spot("out", d))
<1>0. Spot("out", d) \in Spots
  BY SpotIs DEF Free
<1>1. Steers("out", DMControl(FALSE, FALSE, sel, TRUE), "out")
  BY DEF Steers
<1>2. Edge("out", write("DMCONTROL", DMControl(FALSE, FALSE, sel, TRUE)), "out")
  BY <1>1, PutEdges
<1>3. Step(Spot("out", d), read("DMCONTROL"), Spot("out", d))
  BY <1>0, LookRoute
<1>4. Step(Spot("out", d), write("DMCONTROL", DMControl(FALSE, FALSE, sel, TRUE)), Spot("out", d))
  BY <1>2, MuteOnes, MuteStep, SpotIs
<1> QED BY <1>0, <1>3, <1>4, LegalTwo DEF select_hart

\* Filling the data registers.
SetData(d, v) == [d EXCEPT !.data = v]

LEMMA HalfTyped ==
  ASSUME NEW v \in DoubleWords, NEW w \in DoubleWords
  PROVE  /\ \A i \in 1 .. 2 : \A x \in Nat : SetHalf(v, i, x) \in DoubleWords
         /\ SetHalf(SetHalf(v, 1, w[1]), 2, w[2]) = w
         /\ SetHalf(v, 1, w[1])[1] = w[1] /\ SetHalf(v, 1, w[1])[2] = v[2]
         /\ \A i \in 1 .. 2 : v[i] \in Nat
<1>1. v[1] \in Nat /\ v[2] \in Nat /\ w = << w[1], w[2] >> /\ \A i \in 1 .. 2 : i = 1 \/ i = 2
  BY Pairs
<1>2. \A i \in 1 .. 2 : \A x \in Nat : SetHalf(v, i, x) \in DoubleWords
  BY <1>1 DEF SetHalf, DoubleWords
<1>3. SetHalf(v, 1, w[1]) = << w[1], v[2] >>
  BY DEF SetHalf
<1>4. SetHalf(SetHalf(v, 1, w[1]), 2, w[2]) = << w[1], w[2] >>
  BY <1>3 DEF SetHalf
<1> QED BY <1>1, <1>2, <1>3, <1>4

LEMMA DataTypes ==
  ASSUME NEW d \in States
  PROVE  /\ d.data \in DoubleWords /\ d.vars \in [Vars -> DoubleWords]
         /\ \A v \in DoubleWords : SetData(d, v) \in States
         /\ \A i \in 1 .. 2 : \A x \in Nat : Filled(d, i, x) \in States
<1>1. d.data \in DoubleWords /\ d.vars \in [Vars -> DoubleWords]
  BY DEF States
<1>2. \A v \in DoubleWords : [d EXCEPT !.data = v] \in States
  BY DEF States
<1> QED BY <1>1, <1>2, HalfTyped DEF SetData, Filled

LEMMA FillSteps ==
  ASSUME NEW d \in States, NEW i \in 1 .. 2
  PROVE  /\ \A v : Step(Spot("in", d), write(DATA[i], v), Spot("in", Filled(d, i, v)))
         /\ \A x \in Vars : \A j \in 1 .. 2 : Step(Spot("in", d), WriteHalf(DATA[i], x, j),
                                                  Spot("in", Filled(d, i, d.vars[x][j])))
<1>0. i \in {1, 2}
  OBVIOUS
<1>1. ASSUME NEW v PROVE Step(Spot("in", d), write(DATA[i], v), Spot("in", Filled(d, i, v)))
  <2> DEFINE t == write(DATA[i], v)
  <2>1. Fills(t) /\ t.k = "write" /\ t.addr = DATA[i] /\ Filling(d, t) = v /\ "to" \notin DOMAIN t
    BY <1>0 DEF write, Fills, Filling
  <2>2. Edge("in", t, "in")
    BY <1>0, FillEdges
  <2> HIDE DEF t
  <2>3. Carries(Spot("in", d), t, Spot("in", Filled(d, i, v)))
    BY <2>1, SpotIs DEF Carries
  <2> QED BY <2>1, <2>2, <2>3, SpotIs DEF Step, t
<1>2. ASSUME NEW x \in Vars, NEW j \in 1 .. 2
      PROVE  Step(Spot("in", d), WriteHalf(DATA[i], x, j), Spot("in", Filled(d, i, d.vars[x][j])))
  <2> DEFINE t == WriteHalf(DATA[i], x, j)
  <2>1. /\ Fills(t) /\ t.k = "half" /\ t.addr = DATA[i] /\ Filling(d, t) = d.vars[x][j]
        /\ "to" \notin DOMAIN t /\ t.from = x
    BY <1>0 DEF WriteHalf, Fills, Filling
  <2>2. Edge("in", t, "in")
    BY <1>0, FillEdges
  <2> HIDE DEF t
  <2>3. Carries(Spot("in", d), t, Spot("in", Filled(d, i, d.vars[x][j])))
    BY <2>1, SpotIs DEF Carries
  <2> QED BY <2>1, <2>2, <2>3, SpotIs DEF Step, t
<1> QED BY <1>1, <1>2

LEMMA FilledBoth ==
  ASSUME NEW d \in States, NEW v \in DoubleWords
  PROVE  Filled(Filled(d, 1, v[1]), 2, v[2]) = SetData(d, v) /\ Filled(d, 1, v[1]) \in States
         /\ Filled(d, 1, v[1]).vars = d.vars
<1>1. d.data \in DoubleWords /\ v[1] \in Nat /\ Filled(d, 1, v[1]) \in States
  <2>1. d.data \in DoubleWords /\ v[1] \in Nat /\ 1 \in 1 .. 2
    BY DataTypes, Pairs
  <2> QED BY <2>1, DataTypes
<1>2. SetHalf(SetHalf(d.data, 1, v[1]), 2, v[2]) = v
  BY <1>1, HalfTyped
<1>3. PICK h : h = SetHalf(d.data, 1, v[1])
  OBVIOUS
<1>4. Filled(d, 1, v[1]) = [d EXCEPT !.data = h] /\ [d EXCEPT !.data = h].data = h
  BY <1>3 DEF Filled, States
<1>5. Filled(Filled(d, 1, v[1]), 2, v[2]) = [[d EXCEPT !.data = h] EXCEPT !.data = v]
  BY <1>2, <1>3, <1>4 DEF Filled
<1> QED BY <1>1, <1>4, <1>5 DEF SetData, States

LEMMA FillRoute ==
  ASSUME NEW d \in States
  PROVE  /\ \A v \in DoubleWords : Legal(WriteData(v), Spot("in", d), Spot("in", SetData(d, v)))
         /\ \A x \in Vars : Legal(WriteVar(x), Spot("in", d), Spot("in", SetData(d, d.vars[x])))
<1>1. ASSUME NEW v \in DoubleWords PROVE Legal(WriteData(v), Spot("in", d), Spot("in", SetData(d, v)))
  <2>1. PICK e : e = Filled(d, 1, v[1])
    OBVIOUS
  <2>2. e \in States /\ Filled(e, 2, v[2]) = SetData(d, v)
    BY <2>1, FilledBoth
  <2>3. /\ Step(Spot("in", d), write(DATA[1], v[1]), Spot("in", e))
        /\ Step(Spot("in", e), write(DATA[2], v[2]), Spot("in", SetData(d, v)))
    BY <2>1, <2>2, FillSteps
  <2>4. Spot("in", d) \in Spots /\ Spot("in", e) \in Spots /\ Spot("in", SetData(d, v)) \in Spots
    BY <2>2, DataTypes, SpotIs DEF Inside
  <2> QED BY <2>3, <2>4, LegalTwo DEF WriteData
<1>2. ASSUME NEW x \in Vars PROVE Legal(WriteVar(x), Spot("in", d), Spot("in", SetData(d, d.vars[x])))
  <2>1. PICK e, v : e = Filled(d, 1, d.vars[x][1]) /\ v = d.vars[x]
    OBVIOUS
  <2>2. v \in DoubleWords
    BY <2>1, DataTypes
  <2>3. e \in States /\ Filled(e, 2, v[2]) = SetData(d, v) /\ e.vars = d.vars
    BY <2>1, <2>2, FilledBoth
  <2>4. /\ Step(Spot("in", d), WriteHalf(DATA[1], x, 1), Spot("in", e))
        /\ Step(Spot("in", e), WriteHalf(DATA[2], x, 2), Spot("in", Filled(e, 2, e.vars[x][2])))
    BY <2>1, <2>3, FillSteps
  <2>5. Spot("in", Filled(e, 2, e.vars[x][2])) = Spot("in", SetData(d, v))
    BY <2>1, <2>3
  <2>6. Spot("in", d) \in Spots /\ Spot("in", e) \in Spots /\ Spot("in", SetData(d, v)) \in Spots
    BY <2>2, <2>3, DataTypes, SpotIs DEF Inside
  <2> QED BY <2>1, <2>4, <2>5, <2>6, LegalTwo DEF WriteVar
<1> QED BY <1>1, <1>2

\* Reading them.
WithVar(d, x, v) == Local(d, [d.vars EXCEPT ![x] = v], d.got)
Gotten(d) == Local(d, [d.vars EXCEPT !["data"] = << d.data[1], d.vars["data"][2] >>], Append(d.got, d.data))

LEMMA LocalTyped ==
  ASSUME NEW d \in States, NEW w \in [Vars -> DoubleWords], NEW q \in Seq(DoubleWords)
  PROVE  /\ Local(d, w, q) \in States
         /\ Local(d, w, q).data = d.data /\ Local(d, w, q).vars = w /\ Local(d, w, q).got = q
         /\ \A v, p : Local(Local(d, w, q), v, p) = Local(d, v, p)
BY DEF Local, States

LEMMA FetchSteps ==
  ASSUME NEW d \in States, NEW l \in {"in", "err"}, NEW x \in Vars \cup {"got"}, NEW i \in 1 .. 2
  PROVE  Step(Spot(l, d), ReadHalf(DATA[i], x, i), Spot(l, Fetched(d, ReadHalf(DATA[i], x, i))))
<1> DEFINE t == ReadHalf(DATA[i], x, i)
<1>1. Fetches(t) /\ t.k = "read" /\ t.addr = DATA[i] /\ t.to = x /\ t.i = i
  BY DEF ReadHalf, Fetches
<1>2. Edge(l, t, l)
  BY LookEdges DEF Vars
<1> HIDE DEF t
<1>3. Carries(Spot(l, d), t, Spot(l, Fetched(d, t)))
  BY <1>1, SpotIs DEF Carries
<1> QED BY <1>1, <1>2, <1>3, SpotIs DEF Step, t

LEMMA FetchedIs ==
  ASSUME NEW d \in States
  PROVE  /\ \A x \in Vars : /\ Fetched(d, ReadHalf(DATA[1], x, 1)) =
                              Local(d, [d.vars EXCEPT ![x] = SetHalf(d.vars[x], 1, d.data[1])], d.got)
                           /\ Fetched(d, ReadHalf(DATA[2], x, 2)) =
                              Local(d, [d.vars EXCEPT ![x] = SetHalf(d.vars[x], 2, d.data[2])], d.got)
         /\ Fetched(d, ReadHalf(DATA[1], "got", 1)) =
              Local(d, [d.vars EXCEPT !["data"] = SetHalf(d.vars["data"], 1, d.data[1])], d.got)
         /\ Fetched(d, ReadHalf(DATA[2], "got", 2)) =
              Local(d, d.vars, Append(d.got, << d.vars["data"][1], d.data[2] >>))
<1>1. \A addr, x, i : ReadHalf(addr, x, i).to = x /\ ReadHalf(addr, x, i).i = i
  BY DEF ReadHalf
<1>2. ASSUME NEW x \in Vars, NEW addr, NEW i
      PROVE  Fetched(d, ReadHalf(addr, x, i)) =
               Local(d, [d.vars EXCEPT ![x] = SetHalf(d.vars[x], i, d.data[i])], d.got)
  <2>1. PICK t : t = ReadHalf(addr, x, i)
    OBVIOUS
  <2>2. t.to = x /\ t.i = i /\ t.to # "got"
    BY <1>1, <2>1 DEF Vars
  <2> QED BY <2>1, <2>2 DEF Fetched
<1>3. ASSUME NEW addr
      PROVE  Fetched(d, ReadHalf(addr, "got", 1)) =
               Local(d, [d.vars EXCEPT !["data"] = SetHalf(d.vars["data"], 1, d.data[1])], d.got)
  <2>1. PICK t : t = ReadHalf(addr, "got", 1)
    OBVIOUS
  <2>2. t.to = "got" /\ t.i = 1
    BY <1>1, <2>1
  <2> QED BY <2>1, <2>2 DEF Fetched
<1>4. ASSUME NEW addr
      PROVE  Fetched(d, ReadHalf(addr, "got", 2)) =
               Local(d, d.vars, Append(d.got, << d.vars["data"][1], d.data[2] >>))
  <2>1. PICK t : t = ReadHalf(addr, "got", 2)
    OBVIOUS
  <2>2. t.to = "got" /\ t.i # 1
    BY <1>1, <2>1
  <2> QED BY <2>1, <2>2 DEF Fetched
<1> QED BY <1>2, <1>3, <1>4

LEMMA FetchRoute ==
  ASSUME NEW d \in States, NEW l \in {"in", "err"}, NEW x \in Vars
  PROVE  Legal(ReadVar(x), Spot(l, d), Spot(l, WithVar(d, x, d.data))) /\ WithVar(d, x, d.data) \in States
<1>1. d.data \in DoubleWords /\ d.vars \in [Vars -> DoubleWords] /\ d.got \in Seq(DoubleWords)
  BY DEF States
<1>2. PICK w, h : w = [d.vars EXCEPT ![x] = h] /\ h = SetHalf(d.vars[x], 1, d.data[1])
  OBVIOUS
<1>3. h \in DoubleWords /\ SetHalf(h, 2, d.data[2]) = d.data
  <2>1. d.vars[x] \in DoubleWords /\ d.data[1] \in Nat /\ 1 \in 1 .. 2
    BY <1>1, Pairs
  <2>2. h \in DoubleWords
    BY <1>2, <2>1, HalfTyped
  <2>3. SetHalf(h, 2, d.data[2]) = d.data
    BY <1>1, <1>2, <2>1, HalfTyped
  <2> QED BY <2>2, <2>3
<1>4. w \in [Vars -> DoubleWords] /\ w[x] = h /\ [w EXCEPT ![x] = d.data] = [d.vars EXCEPT ![x] = d.data]
      /\ [d.vars EXCEPT ![x] = d.data] \in [Vars -> DoubleWords]
  BY <1>1, <1>2, <1>3
<1>5. PICK e : e = Local(d, w, d.got)
  OBVIOUS
<1>6. e \in States /\ e.data = d.data /\ e.vars = w /\ e.got = d.got
  BY <1>1, <1>4, <1>5, LocalTyped
<1>7. Fetched(d, ReadHalf(DATA[1], x, 1)) = e
  BY <1>2, <1>5, FetchedIs
<1>8. Fetched(e, ReadHalf(DATA[2], x, 2)) = WithVar(d, x, d.data)
  <2>1. Fetched(e, ReadHalf(DATA[2], x, 2)) = Local(e, [w EXCEPT ![x] = SetHalf(w[x], 2, d.data[2])], d.got)
    BY <1>6, FetchedIs
  <2>2. [w EXCEPT ![x] = SetHalf(w[x], 2, d.data[2])] = [d.vars EXCEPT ![x] = d.data]
    BY <1>3, <1>4
  <2>3. \A v, p : Local(e, v, p) = Local(d, v, p)
    BY <1>1, <1>4, <1>5, LocalTyped
  <2> QED BY <2>1, <2>2, <2>3 DEF WithVar
<1>9. WithVar(d, x, d.data) \in States
  BY <1>1, <1>4, LocalTyped DEF WithVar
<1>10. /\ Step(Spot(l, d), ReadHalf(DATA[1], x, 1), Spot(l, e))
       /\ Step(Spot(l, e), ReadHalf(DATA[2], x, 2), Spot(l, WithVar(d, x, d.data)))
  <2>1. Step(Spot(l, d), ReadHalf(DATA[1], x, 1), Spot(l, Fetched(d, ReadHalf(DATA[1], x, 1))))
    BY FetchSteps
  <2>2. Step(Spot(l, e), ReadHalf(DATA[2], x, 2), Spot(l, Fetched(e, ReadHalf(DATA[2], x, 2))))
    BY <1>6, FetchSteps
  <2> QED BY <1>7, <1>8, <2>1, <2>2
<1>11. Spot(l, d) \in Spots /\ Spot(l, e) \in Spots /\ Spot(l, WithVar(d, x, d.data)) \in Spots
  BY <1>6, <1>9, SpotIs DEF Inside
<1> QED BY <1>9, <1>10, <1>11, LegalTwo DEF ReadVar

LEMMA GotRoute ==
  ASSUME NEW d \in States, NEW l \in {"in", "err"}
  PROVE  Legal(ReadVar("got"), Spot(l, d), Spot(l, Gotten(d))) /\ Gotten(d) \in States
<1>1. d.data \in DoubleWords /\ d.vars \in [Vars -> DoubleWords] /\ d.got \in Seq(DoubleWords) /\ "data" \in Vars
  BY DEF States, Vars
<1>2. PICK w, h : w = [d.vars EXCEPT !["data"] = h] /\ h = SetHalf(d.vars["data"], 1, d.data[1])
  OBVIOUS
<1>3. h \in DoubleWords /\ h = << d.data[1], d.vars["data"][2] >> /\ h[1] = d.data[1]
      /\ << d.data[1], d.data[2] >> = d.data
  <2>1. h \in DoubleWords
    <3>1. d.vars["data"] \in DoubleWords /\ d.data[1] \in Nat /\ 1 \in 1 .. 2
      BY <1>1, Pairs
    <3> QED BY <1>2, <3>1, HalfTyped
  <2>2. << d.data[1], d.data[2] >> = d.data
    BY <1>1, Pairs
  <2> QED BY <1>2, <2>1, <2>2 DEF SetHalf
<1>4. w \in [Vars -> DoubleWords] /\ w["data"] = h /\ Append(d.got, d.data) \in Seq(DoubleWords)
  BY <1>1, <1>2, <1>3
<1>5. PICK e : e = Local(d, w, d.got)
  OBVIOUS
<1>6. e \in States /\ e.data = d.data /\ e.vars = w /\ e.got = d.got
  BY <1>1, <1>4, <1>5, LocalTyped
<1>7. Fetched(d, ReadHalf(DATA[1], "got", 1)) = e
  BY <1>2, <1>5, FetchedIs
<1>8. Fetched(e, ReadHalf(DATA[2], "got", 2)) = Gotten(d)
  <2>1. Fetched(e, ReadHalf(DATA[2], "got", 2)) = Local(e, w, Append(d.got, << w["data"][1], d.data[2] >>))
    BY <1>6, FetchedIs
  <2>2. << w["data"][1], d.data[2] >> = d.data
    BY <1>3, <1>4
  <2>3. Gotten(d) = Local(d, w, Append(d.got, d.data))
    BY <1>2, <1>3 DEF Gotten
  <2> QED BY <1>1, <1>4, <1>5, <2>1, <2>2, <2>3, LocalTyped
<1>9. Gotten(d) \in States
  <2>1. Gotten(d) = Local(d, w, Append(d.got, d.data))
    BY <1>2, <1>3 DEF Gotten
  <2> QED BY <1>4, <2>1, LocalTyped
<1>10. /\ Step(Spot(l, d), ReadHalf(DATA[1], "got", 1), Spot(l, e))
       /\ Step(Spot(l, e), ReadHalf(DATA[2], "got", 2), Spot(l, Gotten(d)))
  <2>1. Step(Spot(l, d), ReadHalf(DATA[1], "got", 1), Spot(l, Fetched(d, ReadHalf(DATA[1], "got", 1))))
    BY FetchSteps
  <2>2. Step(Spot(l, e), ReadHalf(DATA[2], "got", 2), Spot(l, Fetched(e, ReadHalf(DATA[2], "got", 2))))
    BY <1>6, FetchSteps
  <2> QED BY <1>7, <1>8, <2>1, <2>2
<1>11. Spot(l, d) \in Spots /\ Spot(l, e) \in Spots /\ Spot(l, Gotten(d)) \in Spots
  BY <1>6, <1>9, SpotIs DEF Inside
<1> QED BY <1>9, <1>10, <1>11, LegalTwo DEF ReadVar

\* A program for the program buffer, and the buffer when n words are there.
Loadable(prog) == /\ Len(prog) \in 0 .. ProgBufSize
                  /\ \A i \in 1 .. Len(prog) : Fine(i, prog[i]) /\ prog[i] \in Insns
BufferWith(d, prog, n) == [i \in 1 .. ProgBufSize |-> IF i <= n THEN prog[i] ELSE d.prog[i]]
WithProg(d, p) == [d EXCEPT !.prog = p]
Loaded(d, prog, n) == WithProg(d, BufferWith(d, prog, n))

LEMMA LoadedIs ==
  ASSUME NEW d \in States, NEW prog, Loadable(prog), NEW n \in 0 .. Len(prog)
  PROVE  /\ Loaded(d, prog, n) \in States /\ Loaded(d, prog, n).prog = BufferWith(d, prog, n)
         /\ \A p : WithProg(Loaded(d, prog, n), p) = WithProg(d, p)
         /\ Loaded(d, prog, 0) = d
         /\ Begins(Loaded(d, prog, Len(prog)), prog)
<1>1. PICK N \in 0 .. ProgBufSize : N = Len(prog)
  BY DEF Loadable
<1>2. ProgBufSize = 6
  BY DEF ProgBufSize
<1>3. d.prog \in [1 .. ProgBufSize -> Insns]
  BY DEF States
<1>4. BufferWith(d, prog, n) \in [1 .. ProgBufSize -> Insns]
  BY <1>1, <1>2, <1>3 DEF BufferWith, Loadable
<1>5. BufferWith(d, prog, 0) = d.prog
  BY <1>2, <1>3 DEF BufferWith
<1>6. \A k \in 0 .. N : /\ Loaded(d, prog, k).prog = BufferWith(d, prog, k)
                        /\ \A p : WithProg(Loaded(d, prog, k), p) = WithProg(d, p)
  <2> TAKE k \in 0 .. N
  <2>1. PICK b : b = BufferWith(d, prog, k)
    OBVIOUS
  <2> QED BY <2>1 DEF Loaded, WithProg, States
<1>7. Loaded(d, prog, n) \in States
  BY <1>4 DEF Loaded, WithProg, States
<1>8. Loaded(d, prog, 0) = d
  BY <1>5 DEF Loaded, WithProg, States
<1>9. Begins(Loaded(d, prog, Len(prog)), prog)
  <2>1. Loaded(d, prog, N).prog = BufferWith(d, prog, N)
    BY <1>1, <1>2, <1>6
  <2>2. \A i \in 1 .. N : BufferWith(d, prog, N)[i] = prog[i]
    BY <1>1, <1>2 DEF BufferWith
  <2>3. \A i \in 1 .. N : Loaded(d, prog, N).prog[i] = prog[i]
    BY <2>1, <2>2
  <2>4. \A i \in 1 .. Len(prog) : Loaded(d, prog, Len(prog)).prog[i] = prog[i]
    BY <1>1, <2>3
  <2> QED BY <2>4 DEF Begins
<1> QED BY <1>1, <1>6, <1>7, <1>8, <1>9

LEMMA ProgramRoute ==
  ASSUME NEW d \in States, NEW prog, Loadable(prog)
  PROVE  Legal(WriteProgram(prog), Spot("in", d), Spot("in", Loaded(d, prog, Len(prog))))
<1>1. PICK n \in 0 .. ProgBufSize : n = Len(prog)
  BY DEF Loadable
<1> DEFINE s == [i \in 1 .. n |-> write(PROGBUF[i], prog[i])]
           S == {write(PROGBUF[i], prog[i]) : i \in 1 .. n}
           p == [i \in 1 .. n + 1 |-> Spot("in", Loaded(d, prog, i - 1))]
<1>2. n \in Nat /\ n <= ProgBufSize /\ ProgBufSize = 6
  BY DEF ProgBufSize
<1>3. s \in Seq(S) /\ Len(s) = n
  <2>1. \A i \in 1 .. n : write(PROGBUF[i], prog[i]) \in S
    OBVIOUS
  <2> HIDE DEF S
  <2> QED BY <1>2, <2>1
<1>4. ASSUME NEW i \in 1 .. n
      PROVE  Step(Spot("in", Loaded(d, prog, i - 1)), s[i], Spot("in", Loaded(d, prog, i)))
  <2>0. PICK e, f : e = Loaded(d, prog, i - 1) /\ f = Loaded(d, prog, i)
    OBVIOUS
  <2>1. i \in 1 .. ProgBufSize /\ Fine(i, prog[i]) /\ s[i] = write(PROGBUF[i], prog[i])
    BY <1>1, <1>2 DEF Loadable
  <2>2. PICK t : t = s[i]
    OBVIOUS
  <2>3. Programs(t) /\ t.k = "write" /\ t.addr = PROGBUF[i] /\ t.val = prog[i] /\ "to" \notin DOMAIN t
    BY <2>1, <2>2 DEF Programs, write
  <2>4. Edge("in", t, "in")
    BY <2>3 DEF Edge
  <2>5. i - 1 \in 0 .. Len(prog) /\ i \in 0 .. Len(prog)
    BY <1>1, <1>2
  <2>6. f = Programmed(e, i, prog[i])
    <3>1. e.prog = BufferWith(d, prog, i - 1) /\ \A q : WithProg(e, q) = WithProg(d, q)
      BY <2>0, <2>5, LoadedIs
    <3>2. [BufferWith(d, prog, i - 1) EXCEPT ![i] = prog[i]] = BufferWith(d, prog, i)
      <4>1. ASSUME NEW j \in 1 .. ProgBufSize
            PROVE  IF j = i THEN BufferWith(d, prog, i)[j] = prog[i]
                   ELSE BufferWith(d, prog, i - 1)[j] = BufferWith(d, prog, i)[j]
        BY <1>2, <2>1 DEF BufferWith
      <4>2. \A k : BufferWith(d, prog, k) = [j \in 1 .. ProgBufSize |-> BufferWith(d, prog, k)[j]]
        BY DEF BufferWith
      <4> QED BY <2>1, <4>1, <4>2
    <3> QED BY <2>0, <3>1, <3>2 DEF Programmed, Loaded, WithProg
  <2>7. Carries(Spot("in", e), t, Spot("in", f))
    BY <2>1, <2>3, <2>6, SpotIs DEF Carries
  <2> QED BY <2>0, <2>2, <2>3, <2>4, <2>7, SpotIs DEF Step
<1>5. \A i \in 0 .. n : Spot("in", Loaded(d, prog, i)) \in Spots
  <2> TAKE i \in 0 .. n
  <2>1. Loaded(d, prog, i) \in States
    BY <1>1, LoadedIs
  <2> QED BY <2>1, SpotIs DEF Inside
<1> HIDE DEF s
<1>6. /\ p \in [1 .. Len(s) + 1 -> Spots] /\ p[1] = Spot("in", d)
      /\ p[Len(s) + 1] = Spot("in", Loaded(d, prog, Len(prog)))
  <2>1. \A i \in 1 .. n + 1 : i - 1 \in 0 .. n /\ p[i] = Spot("in", Loaded(d, prog, i - 1))
    BY <1>2
  <2>2. p[1] = Spot("in", Loaded(d, prog, 0)) /\ p[n + 1] = Spot("in", Loaded(d, prog, n))
    BY <1>2
  <2>3. Loaded(d, prog, 0) = d
    BY <1>1, LoadedIs
  <2> QED BY <1>1, <1>3, <1>5, <2>1, <2>2, <2>3
<1>7. ASSUME NEW i \in 1 .. Len(s) PROVE Step(p[i], s[i], p[i + 1])
  <2>1. p[i] = Spot("in", Loaded(d, prog, i - 1)) /\ p[i + 1] = Spot("in", Loaded(d, prog, i))
    BY <1>2, <1>3
  <2> QED BY <1>3, <1>4, <2>1
<1> HIDE DEF p
<1>8. Path(s, Spot("in", d), Spot("in", Loaded(d, prog, Len(prog))), p)
  BY <1>3, <1>6, <1>7 DEF Path
<1>9. WriteProgram(prog) = s
  BY <1>1 DEF WriteProgram, s
<1> QED BY <1>8, <1>9 DEF Legal

\* A command with its program and data, and the wait for its end.
LEMMA RunRoute ==
  ASSUME NEW command, NEW prog, NEW send, NEW receive, NEW mid, NEW end,
         <<mid, end>> \in {<<"busy", "err">>, <<"sure", "in">>}, Starts("in", command, mid), Loadable(prog),
         NEW d \in States, NEW g \in States, NEW e, NEW z,
         Legal(send, Spot("in", Loaded(d, prog, Len(prog))), Spot("in", g)),
         Ends(Commanded(g, command), e), Legal(receive, Spot(end, e), Spot(end, z))
  PROVE  Legal(run_abstract_command(command, prog, send, receive), Spot("in", d), Spot(end, z))
<1> DEFINE f == Commanded(g, command)
           t == write("COMMAND", command)
<1>0. f \in States /\ e \in States
  BY DEF Ends
<1>1. Edge("in", t, mid) /\ Edge(mid, NotBusy, end)
  BY PutEdges, WaitEdges
<1>2. Spot("in", g) \in Spots /\ Busy(mid, f, e) \in Spots /\ Spot(end, e) \in Spots
  BY <1>0, SpotIs DEF Inside, Working
<1>3. Step(Spot("in", g), t, Busy(mid, f, e))
  <2>1. Puts(t, "COMMAND") /\ t.val = command /\ "to" \notin DOMAIN t
    BY DEF Puts, write
  <2> HIDE DEF t, f
  <2>2. Carries(Spot("in", g), t, Busy(mid, f, e))
    BY <2>1, SpotIs DEF Carries, f
  <2> QED BY <1>1, <2>1, <2>2, SpotIs DEF Step
<1>4. Step(Busy(mid, f, e), NotBusy, Spot(end, e))
  BY <1>1, MuteOnes, MuteStep, SpotIs
<1>5. Legal(<< t, NotBusy >>, Spot("in", g), Spot(end, e))
  BY <1>2, <1>3, <1>4, LegalTwo
<1> HIDE DEF f
<1>6. Legal(WriteProgram(prog) \o send, Spot("in", d), Spot("in", g))
  BY ProgramRoute, LegalCat
<1>7. Legal(WriteProgram(prog) \o send \o << t, NotBusy >>, Spot("in", d), Spot(end, e))
  BY <1>5, <1>6, LegalCat
<1>8. Legal(WriteProgram(prog) \o send \o << t, NotBusy >> \o receive, Spot("in", d), Spot(end, z))
  BY <1>7, LegalCat
<1> QED BY <1>8 DEF run_abstract_command

LEMMA OrDieRoute ==
  ASSUME NEW command, NEW prog, NEW send, NEW receive, Command(command), Loadable(prog),
         NEW d \in States, NEW g \in States, NEW e, NEW z \in States,
         Legal(send, Spot("in", Loaded(d, prog, Len(prog))), Spot("in", g)),
         Ends(Commanded(g, command), e), Legal(receive, Spot("err", e), Spot("err", z))
  PROVE  Legal(RUN_AC_OR_DIE(command, prog, send, receive), Spot("in", d), Spot("in", z))
<1>1. Starts("in", command, "busy")
  BY DEF Starts
<1>2. Legal(run_abstract_command(command, prog, send, receive), Spot("in", d), Spot("err", z))
  BY <1>1, RunRoute
<1>3. Legal(<< die >>, Spot("err", z), Spot("in", z))
  <2>1. Edge("err", die, "in")
    BY PutEdges DEF Clears
  <2>2. Step(Spot("err", z), die, Spot("in", z))
    BY <2>1, MuteOnes, MuteSpots
  <2>3. Spot("err", z) \in Spots /\ Spot("in", z) \in Spots
    BY SpotIs DEF Inside
  <2> QED BY <2>2, <2>3, LegalOne
<1> QED BY <1>2, <1>3, LegalCat DEF RUN_AC_OR_DIE

----------------------------------------------------------------------------
\* What the commands leave of the data, field by field.
Inherits(g, h) ==
  h \in States /\ h.prog = g.prog /\ h.dpc = g.dpc /\ h.mem = g.mem /\ h.vars = g.vars /\ h.got = g.got

LEMMA Fields ==
  ASSUME NEW d \in States
  PROVE  /\ d.regs \in [Regs -> DoubleWords] /\ d.dpc \in DoubleWords /\ d.mem \in [Addrs -> DoubleWords]
         /\ d.data \in DoubleWords /\ d.prog \in [1 .. ProgBufSize -> Insns]
         /\ d.vars \in [Vars -> DoubleWords] /\ d.got \in Seq(DoubleWords)
BY DEF States

LEMMA CommandTyped ==
  ASSUME NEW d \in States, NEW reg \in {"s0", "s1", "x0"}, NEW post \in BOOLEAN,
         NEW c \in {WriteReg(reg, post), ReadReg(reg, post)}
  PROVE  /\ Inherits(d, Commanded(d, c)) /\ Commanded(d, c).command = c
         /\ Commanded(d, c).regs = d.regs /\ Commanded(d, c).data = d.data
<1>1. c \in [size : 0 .. 4, transfer : BOOLEAN, write : BOOLEAN, postexec : BOOLEAN, reg : {"s0", "s1", "x0"}]
  <2>1. CASE c = WriteReg(reg, post)
    BY <2>1 DEF WriteReg, AccessRegister
  <2>2. CASE c = ReadReg(reg, post)
    <3>1. reg \in {"s0", "s1", "x0"} /\ post \in BOOLEAN
      OBVIOUS
    <3> QED BY ONLY <2>2, <3>1 DEF ReadReg, AccessRegister
  <2> QED BY <2>1, <2>2
<1>2. Commanded(d, c) \in States
  BY <1>1 DEF Commanded, States
<1> QED BY <1>2 DEF Commanded, States, Inherits

RegsWith(d, reg, v) == IF reg = "x0" THEN d.regs ELSE [d.regs EXCEPT ![reg] = v]

\* What is left after the transfer and, with postexec, the program.
Results(h, post, e) == e \in States /\ IF post = TRUE THEN Executed(h, e) ELSE e = h

LEMMA ResultsEnd ==
  ASSUME NEW f \in States, NEW h, h = Transferred(f), NEW post \in BOOLEAN,
         f.command.size = 3, f.command.transfer = TRUE, f.command.postexec = post
  PROVE  \A e : Results(h, post, e) => Ends(f, e)
<1> TAKE e
<1> HAVE Results(h, post, e)
<1>1. f.command.size # 4
  OBVIOUS
<1>2. CASE post = TRUE
  <2>1. f.command.postexec = TRUE
    BY <1>2
  <2> QED BY <1>1, <1>2, <2>1 DEF Results, Ends
<1>3. CASE post = FALSE
  <2>1. f.command.postexec = FALSE
    BY <1>3
  <2> QED BY <1>1, <1>3, <2>1 DEF Results, Ends
<1> QED BY <1>2, <1>3

LEMMA WriteCommand ==
  ASSUME NEW g \in States, NEW reg \in {"s0", "s1", "x0"}, NEW post \in BOOLEAN, NEW f, NEW h,
         f = Commanded(g, WriteReg(reg, post)), h = Transferred(f)
  PROVE  /\ Inherits(g, h) /\ h.data = g.data /\ h.command = WriteReg(reg, post)
         /\ h.regs = RegsWith(g, reg, g.data)
         /\ \A e : Results(h, post, e) => Ends(f, e)
<1>1. PICK c : c = WriteReg(reg, post)
  OBVIOUS
<1>2. c.size = 3 /\ c.transfer = TRUE /\ c.write = TRUE /\ c.postexec = post /\ c.reg = reg
  BY <1>1 DEF WriteReg, AccessRegister
<1>3. Inherits(g, f) /\ f.command = c /\ f.regs = g.regs /\ f.data = g.data
  BY <1>1, CommandTyped
<1>4. f \in States /\ h \in States
  BY <1>3, TransferTyped DEF Inherits
<1>5. h = WithReg(f, reg, f.data)
  BY <1>2, <1>3 DEF Transferred
<1>6. \A e : Results(h, post, e) => Ends(f, e)
  BY <1>2, <1>3, <1>4, ResultsEnd
<1>7. CASE reg = "x0"
  BY <1>1, <1>3, <1>4, <1>5, <1>6, <1>7 DEF WithReg, RegsWith
<1>8. CASE reg # "x0"
  <2>1. PICK r : r = [f.regs EXCEPT ![reg] = f.data]
    OBVIOUS
  <2>2. h = [f EXCEPT !.regs = r]
    BY <1>5, <1>8, <2>1 DEF WithReg
  <2>3. /\ h.regs = r /\ h.prog = f.prog /\ h.dpc = f.dpc /\ h.mem = f.mem /\ h.vars = f.vars
        /\ h.got = f.got /\ h.data = f.data /\ h.command = f.command
    BY <1>4, <2>2 DEF States
  <2>4. Inherits(g, h)
    BY <1>3, <1>4, <2>3 DEF Inherits
  <2> QED BY <1>1, <1>3, <1>6, <1>8, <2>1, <2>3, <2>4 DEF RegsWith
<1> QED BY <1>7, <1>8

LEMMA ReadCommand ==
  ASSUME NEW g \in States, NEW reg \in Regs, NEW post \in BOOLEAN, NEW f, NEW h,
         f = Commanded(g, ReadReg(reg, post)), h = Transferred(f)
  PROVE  /\ Inherits(g, h) /\ h.data = g.regs[reg] /\ h.regs = g.regs
         /\ \A e : Results(h, post, e) => Ends(f, e)
<1>0. reg \in {"s0", "s1", "x0"} /\ reg # "x0"
  BY DEF Regs
<1>1. PICK c : c = ReadReg(reg, post)
  OBVIOUS
<1>2. c.size = 3 /\ c.transfer = TRUE /\ c.write = FALSE /\ c.postexec = post /\ c.reg = reg
  BY <1>1 DEF ReadReg, AccessRegister
<1>3. Inherits(g, f) /\ f.command = c /\ f.regs = g.regs /\ f.data = g.data
  BY <1>0, <1>1, CommandTyped
<1>4. f \in States /\ h \in States
  BY <1>3, TransferTyped DEF Inherits
<1>5. PICK v : v = f.regs[reg]
  OBVIOUS
<1>6. h = [f EXCEPT !.data = v]
  BY <1>0, <1>2, <1>3, <1>5 DEF Transferred, RegOf
<1>7. /\ h.regs = f.regs /\ h.prog = f.prog /\ h.dpc = f.dpc /\ h.mem = f.mem /\ h.vars = f.vars
      /\ h.got = f.got /\ h.data = v
  BY <1>4, <1>6 DEF States
<1>8. \A e : Results(h, post, e) => Ends(f, e)
  BY <1>2, <1>3, <1>4, ResultsEnd
<1>9. Inherits(g, h)
  BY <1>3, <1>4, <1>7 DEF Inherits
<1> QED BY <1>3, <1>5, <1>7, <1>8, <1>9

\* What the other steps leave.
LEMMA SetDataIs ==
  ASSUME NEW d \in States, NEW v \in DoubleWords
  PROVE  /\ Inherits(d, SetData(d, v)) /\ SetData(d, v).regs = d.regs /\ SetData(d, v).data = v
         /\ SetData(d, v).command = d.command
<1>1. SetData(d, v) \in States
  BY DataTypes
<1> QED BY <1>1 DEF SetData, States, Inherits

LEMMA WithVarIs ==
  ASSUME NEW d \in States, NEW x \in Vars, NEW v \in DoubleWords, NEW z, z = WithVar(d, x, v)
  PROVE  /\ z \in States /\ z.prog = d.prog /\ z.dpc = d.dpc /\ z.mem = d.mem /\ z.got = d.got
         /\ z.regs = d.regs /\ z.vars = [d.vars EXCEPT ![x] = v]
<1>1. [d.vars EXCEPT ![x] = v] \in [Vars -> DoubleWords]
  BY Fields
<1>2. PICK w : w = [d.vars EXCEPT ![x] = v]
  OBVIOUS
<1>3. z = Local(d, w, d.got) /\ z \in States
  BY <1>1, <1>2, Fields, LocalTyped DEF WithVar
<1> QED BY <1>2, <1>3 DEF Local

LEMMA GottenIs ==
  ASSUME NEW d \in States, NEW z, z = Gotten(d)
  PROVE  /\ z \in States /\ z.prog = d.prog /\ z.dpc = d.dpc /\ z.mem = d.mem
         /\ z.got = Append(d.got, d.data) /\ z.regs = d.regs
         /\ \A x \in Regs : z.vars[x] = d.vars[x]
<1>1. PICK w : w = [d.vars EXCEPT !["data"] = << d.data[1], d.vars["data"][2] >>]
  OBVIOUS
<1>2. z = Local(d, w, Append(d.got, d.data)) /\ z \in States
  BY <1>1, GotRoute DEF Gotten
<1>3. \A x \in Regs : w[x] = d.vars[x]
  BY <1>1, Fields DEF Regs, Vars
<1> QED BY <1>2, <1>3 DEF Local

\* What the programs leave.
LEMMA UpperTyped ==
  ASSUME NEW g \in States PROVE Place(g) \in Nat /\ Upper(g) \in DoubleWords
<1>1. g.regs["s0"] \in DoubleWords
  BY Fields DEF Regs
<1>2. g.regs["s0"][1] \in Nat /\ g.regs["s0"][2] \in Nat
  BY <1>1, Pairs
<1> QED BY <1>2 DEF Place, Upper, DoubleWords

LEMMA WithTyped ==
  ASSUME NEW g \in States, NEW r \in [Regs -> DoubleWords], NEW p \in DoubleWords,
         NEW m \in [Addrs -> DoubleWords], NEW v \in DoubleWords, NEW e, e = With(g, r, p, m, v)
  PROVE  /\ e \in States /\ e.regs = r /\ e.dpc = p /\ e.mem = m /\ e.data = v
         /\ e.prog = g.prog /\ e.command = g.command /\ e.vars = g.vars /\ e.got = g.got
BY DEF With, States

LEMMA BothTyped ==
  ASSUME NEW x \in DoubleWords, NEW y \in DoubleWords
  PROVE  Both(x, y) \in [Regs -> DoubleWords] /\ Both(x, y)["s0"] = x /\ Both(x, y)["s1"] = y
BY DEF Both, Regs

LEMMA LoadEndIs ==
  ASSUME NEW g \in States, NEW e, e = LoadEnd(g)
  PROVE  /\ Inherits(g, e) /\ e.data = g.data
         /\ Missing(g) => e.regs = g.regs
         /\ ~Missing(g) => e.regs["s0"] = Upper(g) /\ e.regs["s1"] = g.mem[Place(g)]
<1>1. CASE Missing(g)
  BY <1>1 DEF LoadEnd, Inherits
<1>2. CASE ~Missing(g)
  <2>1. g.mem[Place(g)] \in DoubleWords /\ Upper(g) \in DoubleWords
    BY <1>2, Fields, UpperTyped DEF Missing
  <2>2. PICK r : r = Both(Upper(g), g.mem[Place(g)])
    OBVIOUS
  <2>3. r \in [Regs -> DoubleWords] /\ r["s0"] = Upper(g) /\ r["s1"] = g.mem[Place(g)]
    BY <2>1, <2>2, BothTyped
  <2>4. e = With(g, r, g.dpc, g.mem, g.data)
    BY <1>2, <2>2 DEF LoadEnd
  <2>5. /\ e \in States /\ e.regs = r /\ e.dpc = g.dpc /\ e.mem = g.mem /\ e.data = g.data
        /\ e.prog = g.prog /\ e.vars = g.vars /\ e.got = g.got
    <3>1. g.dpc \in DoubleWords /\ g.mem \in [Addrs -> DoubleWords] /\ g.data \in DoubleWords
      BY Fields
    <3> QED BY <2>3, <2>4, <3>1, WithTyped
  <2> QED BY <1>2, <2>3, <2>5 DEF Inherits
<1> QED BY <1>1, <1>2

LEMMA StoreEndIs ==
  ASSUME NEW g \in States, NEW e, e = StoreEnd(g)
  PROVE  /\ e \in States /\ e.prog = g.prog /\ e.dpc = g.dpc /\ e.vars = g.vars /\ e.got = g.got
         /\ e.command = g.command
         /\ Missing(g) => e.regs = g.regs /\ e.mem = g.mem
         /\ ~Missing(g) => e.regs["s0"] = Upper(g) /\ e.mem = Stored(g)
<1>1. CASE Missing(g)
  BY <1>1 DEF StoreEnd
<1>2. CASE ~Missing(g)
  <2>1. g.regs["s1"] \in DoubleWords /\ Upper(g) \in DoubleWords
    BY <1>2, Fields, UpperTyped DEF Regs
  <2>2. PICK r, m : r = Both(Upper(g), g.regs["s1"]) /\ m = [g.mem EXCEPT ![Place(g)] = g.regs["s1"]]
    OBVIOUS
  <2>3. r \in [Regs -> DoubleWords] /\ r["s0"] = Upper(g) /\ m \in [Addrs -> DoubleWords]
    BY <2>1, <2>2, BothTyped, Fields
  <2>4. e = With(g, r, g.dpc, m, g.data)
    BY <1>2, <2>2 DEF StoreEnd
  <2>5. /\ e \in States /\ e.regs = r /\ e.dpc = g.dpc /\ e.mem = m /\ e.command = g.command
        /\ e.prog = g.prog /\ e.vars = g.vars /\ e.got = g.got
    <3>1. g.dpc \in DoubleWords /\ g.mem \in [Addrs -> DoubleWords] /\ g.data \in DoubleWords
      BY Fields
    <3> QED BY <2>3, <2>4, <3>1, WithTyped
  <2> QED BY <1>2, <2>2, <2>3, <2>5 DEF Stored
<1> QED BY <1>1, <1>2

LEMMA CsrEndIs ==
  ASSUME NEW g \in States, NEW e, e = CsrEnd(g)
  PROVE  e \in States /\ e.regs = g.regs /\ e.dpc = g.data /\ e.mem = g.mem /\ e.got = g.got
<1>1. e = With(g, g.regs, g.data, g.mem, g.dpc)
  BY DEF CsrEnd
<1> QED BY <1>1, Fields, WithTyped

LEMMA ClearedIs ==
  ASSUME NEW g \in States, NEW y \in Nat, NEW e, e = Cleared(g, y)
  PROVE  /\ e \in States /\ e.dpc = g.dpc /\ e.mem = Wiped(g, y) /\ e.vars = g.vars /\ e.got = g.got
<1>1. g.regs["s1"] \in DoubleWords /\ << y, 0 >> \in DoubleWords /\ Zero \in DoubleWords
  BY Fields DEF Regs, DoubleWords, Zero
<1>2. Wiped(g, y) \in [Addrs -> DoubleWords]
  BY <1>1, Fields DEF Wiped
<1>3. PICK r : r = Both(<< y, 0 >>, g.regs["s1"])
  OBVIOUS
<1>4. r \in [Regs -> DoubleWords] /\ e = With(g, r, g.dpc, Wiped(g, y), g.data)
  BY <1>1, <1>3, BothTyped DEF Cleared
<1>5. g.dpc \in DoubleWords /\ g.data \in DoubleWords
  BY Fields
<1>6. PICK m : m = Wiped(g, y)
  OBVIOUS
<1> QED BY <1>2, <1>4, <1>5, <1>6, WithTyped


LEMMA Commands ==
  /\ \A reg : \A post \in BOOLEAN : Command(ReadReg(reg, post)) /\ Command(WriteReg(reg, post))
  /\ \A size, reg : \A transfer, wr, post \in BOOLEAN : Command(AccessRegister(size, transfer, wr, post, reg))
  /\ Plain(AccessRegister(3, TRUE, FALSE, FALSE, "s0"))
BY DEF ReadReg, WriteReg, AccessRegister, Command, Plain

LEMMA LoadablePrograms ==
  /\ Loadable(<<>>) /\ Loadable(LoadProgram) /\ Loadable(StoreProgram) /\ Loadable(ClearProgram)
  /\ Loadable(CsrProgram) /\ Loadable(FenceProgram)
<1>1. Loadable(LoadProgram)
  BY DEF Loadable, LoadProgram, Fine, Opcodes, ProgBufSize, Insns
<1>2. Loadable(StoreProgram)
  BY DEF Loadable, StoreProgram, Fine, Opcodes, ProgBufSize, Insns
<1>3. Loadable(ClearProgram)
  BY DEF Loadable, ClearProgram, Fine, Opcodes, ProgBufSize, Insns
<1>4. Loadable(CsrProgram)
  BY DEF Loadable, CsrProgram, Fine, Opcodes, ProgBufSize, Insns
<1>5. Loadable(FenceProgram)
  BY DEF Loadable, FenceProgram, Fine, Opcodes, ProgBufSize, Insns
<1>6. Loadable(<<>>)
  BY DEF Loadable, ProgBufSize
<1> QED BY <1>1, <1>2, <1>3, <1>4, <1>5, <1>6

----------------------------------------------------------------------------
\* The commands with what they leave, one after the other.
Keeps(d, h) == h \in States /\ h.dpc = d.dpc /\ h.mem = d.mem /\ h.vars = d.vars /\ h.got = d.got
Fed(d, prog, send, v) ==
  Legal(send, Spot("in", Loaded(d, prog, Len(prog))), Spot("in", SetData(Loaded(d, prog, Len(prog)), v)))

LEMMA LoadedKeeps ==
  ASSUME NEW d \in States, NEW prog, Loadable(prog), NEW g, g = Loaded(d, prog, Len(prog))
  PROVE  Keeps(d, g) /\ g.regs = d.regs /\ Begins(g, prog) /\ (prog = <<>> => g = d)
<1>1. g \in States /\ Begins(g, prog) /\ Loaded(d, prog, 0) = d
  <2>1. Len(prog) \in 0 .. Len(prog) /\ 0 \in 0 .. Len(prog)
    BY DEF Loadable
  <2> QED BY <2>1, LoadedIs
<1>2. PICK p : p = BufferWith(d, prog, Len(prog))
  OBVIOUS
<1>3. g = [d EXCEPT !.prog = p]
  BY <1>2 DEF Loaded, WithProg
<1>4. g.dpc = d.dpc /\ g.mem = d.mem /\ g.vars = d.vars /\ g.got = d.got /\ g.regs = d.regs
  BY <1>3 DEF States
<1>5. prog = <<>> => g = d
  BY <1>1
<1> QED BY <1>1, <1>4, <1>5 DEF Keeps

\* d becomes h when v has been written to reg, before the program that may follow.
Written(d, reg, post, prog, send, v, h) ==
  /\ Keeps(d, h) /\ h.data = v /\ h.command = WriteReg(reg, post) /\ Begins(h, prog)
  /\ prog = <<>> => h.prog = d.prog
  /\ h.regs = RegsWith(d, reg, v)
  /\ \A e : Results(h, post, e) =>
       Legal(RUN_AC_OR_DIE(WriteReg(reg, post), prog, send, <<>>), Spot("in", d), Spot("in", e))

LEMMA WriteRun ==
  ASSUME NEW d \in States, NEW reg \in {"s0", "s1", "x0"}, NEW post \in BOOLEAN, NEW prog, Loadable(prog),
         NEW v \in DoubleWords, NEW send, Fed(d, prog, send, v)
  PROVE  \E h : Written(d, reg, post, prog, send, v, h)
<1>1. PICK g0 : g0 = Loaded(d, prog, Len(prog))
  OBVIOUS
<1>2. Keeps(d, g0) /\ g0.regs = d.regs /\ Begins(g0, prog) /\ (prog = <<>> => g0 = d)
  BY <1>1, LoadedKeeps
<1>3. PICK g : g = SetData(g0, v)
  OBVIOUS
<1>4. Inherits(g0, g) /\ g.regs = g0.regs /\ g.data = v
  BY <1>2, <1>3, SetDataIs DEF Keeps
<1>5. g \in States
  BY <1>4 DEF Inherits
<1>6. PICK f, h : f = Commanded(g, WriteReg(reg, post)) /\ h = Transferred(f)
  OBVIOUS
<1>7. /\ Inherits(g, h) /\ h.data = g.data /\ h.command = WriteReg(reg, post)
      /\ h.regs = RegsWith(g, reg, g.data)
      /\ \A e : Results(h, post, e) => Ends(f, e)
  BY <1>5, <1>6, WriteCommand
<1>8. ASSUME NEW e, Results(h, post, e)
      PROVE  Legal(RUN_AC_OR_DIE(WriteReg(reg, post), prog, send, <<>>), Spot("in", d), Spot("in", e))
  <2>1. Legal(send, Spot("in", Loaded(d, prog, Len(prog))), Spot("in", g))
    BY <1>1, <1>3 DEF Fed
  <2>2. e \in States
    BY <1>8 DEF Results
  <2>3. Legal(<<>>, Spot("err", e), Spot("err", e))
    BY <2>2, SpotIs, LegalEmpty DEF Inside
  <2>4. Ends(Commanded(g, WriteReg(reg, post)), e) /\ Command(WriteReg(reg, post))
    BY <1>6, <1>7, <1>8, Commands
  <2> QED BY <1>5, <2>1, <2>2, <2>3, <2>4, OrDieRoute
<1>9. /\ Keeps(d, h) /\ h.data = v /\ h.command = WriteReg(reg, post) /\ Begins(h, prog)
      /\ prog = <<>> => h.prog = d.prog
      /\ h.regs = RegsWith(d, reg, v)
  BY <1>2, <1>4, <1>7 DEF Keeps, Inherits, Begins, RegsWith
<1> QED BY <1>8, <1>9 DEF Written

LEMMA ReadRun ==
  ASSUME NEW d \in States, NEW reg \in Regs, NEW post \in BOOLEAN, NEW receive
  PROVE  \E h : /\ Keeps(d, h) /\ h.data = d.regs[reg] /\ h.regs = d.regs /\ h.prog = d.prog
                /\ \A e, z : /\ Results(h, post, e) /\ z \in States
                             /\ Legal(receive, Spot("err", e), Spot("err", z))
                     => Legal(RUN_AC_OR_DIE(ReadReg(reg, post), <<>>, <<>>, receive), Spot("in", d), Spot("in", z))
<1>1. PICK f, h : f = Commanded(d, ReadReg(reg, post)) /\ h = Transferred(f)
  OBVIOUS
<1>2. /\ Inherits(d, h) /\ h.data = d.regs[reg] /\ h.regs = d.regs
      /\ \A e : Results(h, post, e) => Ends(f, e)
  BY <1>1, ReadCommand
<1>3. ASSUME NEW e, NEW z \in States, Results(h, post, e), Legal(receive, Spot("err", e), Spot("err", z))
      PROVE  Legal(RUN_AC_OR_DIE(ReadReg(reg, post), <<>>, <<>>, receive), Spot("in", d), Spot("in", z))
  <2>1. Ends(Commanded(d, ReadReg(reg, post)), e)
    BY <1>1, <1>2, <1>3
  <2>2. Loadable(<<>>) /\ Loaded(d, <<>>, Len(<<>>)) = d
    BY LoadablePrograms, LoadedKeeps
  <2>3. Legal(<<>>, Spot("in", Loaded(d, <<>>, Len(<<>>))), Spot("in", d))
    BY <2>2, SpotIs, LegalEmpty DEF Inside
  <2>4. Command(ReadReg(reg, post))
    BY Commands
  <2> QED BY <1>3, <2>1, <2>2, <2>3, <2>4, OrDieRoute
<1> QED BY <1>2, <1>3 DEF Keeps, Inherits

----------------------------------------------------------------------------
\* With the program's registers in the host's hands: halted, with dpc, memory
\* and what was read.
Guarded(z, p, m, q) ==
  /\ z \in States /\ z.dpc = p /\ z.mem = m /\ z.got = q
  /\ \A r \in Regs : z.vars[r] = ProgramRegs[r]

LEMMA ProgramRegsAre ==
  /\ ProgramRegs \in [Regs -> DoubleWords]
  /\ \A r : r \in [Regs -> DoubleWords] /\ (\A x \in Regs : r[x] = ProgramRegs[x]) => r = ProgramRegs
<1>1. /\ ProgramRegs = [r \in {"s0", "s1"} |-> ProgramRegs[r]]
      /\ ProgramRegs["s0"] \in DoubleWords /\ ProgramRegs["s1"] \in DoubleWords
  BY DtmAssumption
<1> QED BY <1>1 DEF Regs

LEMMA SaveRoute ==
  ASSUME NEW d \in States, NEW reg \in Regs
  PROVE  \E z \in States :
           /\ z.dpc = d.dpc /\ z.mem = d.mem /\ z.got = d.got /\ z.regs = d.regs
           /\ z.vars = [d.vars EXCEPT ![reg] = d.regs[reg]]
           /\ Legal(save_reg(reg), Spot("in", d), Spot("in", z))
<1>1. PICK h : /\ Keeps(d, h) /\ h.data = d.regs[reg] /\ h.regs = d.regs /\ h.prog = d.prog
               /\ \A e, z : /\ Results(h, FALSE, e) /\ z \in States
                            /\ Legal(ReadVar(reg), Spot("err", e), Spot("err", z))
                    => Legal(RUN_AC_OR_DIE(ReadReg(reg, FALSE), <<>>, <<>>, ReadVar(reg)), Spot("in", d), Spot("in", z))
  BY ReadRun
<1>2. h \in States /\ h.dpc = d.dpc /\ h.mem = d.mem /\ h.vars = d.vars /\ h.got = d.got
  BY <1>1 DEF Keeps
<1>3. reg \in Vars /\ d.regs[reg] \in DoubleWords
  BY Fields DEF Regs, Vars
<1>4. PICK z : z = WithVar(h, reg, h.data)
  OBVIOUS
<1>5. Legal(ReadVar(reg), Spot("err", h), Spot("err", z)) /\ z \in States
  BY <1>2, <1>3, <1>4, FetchRoute
<1>6. /\ z.dpc = h.dpc /\ z.mem = h.mem /\ z.got = h.got /\ z.regs = h.regs
      /\ z.vars = [h.vars EXCEPT ![reg] = h.data]
  BY <1>1, <1>2, <1>3, <1>4, WithVarIs
<1>7. Legal(save_reg(reg), Spot("in", d), Spot("in", z))
  <2>1. Results(h, FALSE, h)
    BY <1>2 DEF Results
  <2> QED BY <1>1, <1>5, <2>1 DEF save_reg
<1> QED BY <1>1, <1>2, <1>5, <1>6, <1>7

LEMMA BeginRoute ==
  ASSUME NEW d \in States, d.regs = ProgramRegs
  PROVE  \E z : Guarded(z, d.dpc, d.mem, d.got) /\ Legal(Begin, Spot("out", d), Spot("in", z))
<1>1. Legal(halt, Spot("out", d), Spot("in", d))
  BY HaltRoute
<1>2. "s0" \in Regs /\ "s1" \in Regs
  BY DEF Regs
<1>3. PICK y \in States :
           /\ y.dpc = d.dpc /\ y.mem = d.mem /\ y.got = d.got /\ y.regs = d.regs
           /\ y.vars = [d.vars EXCEPT !["s0"] = d.regs["s0"]]
           /\ Legal(save_reg("s0"), Spot("in", d), Spot("in", y))
  BY <1>2, SaveRoute
<1>4. PICK z \in States :
           /\ z.dpc = y.dpc /\ z.mem = y.mem /\ z.got = y.got /\ z.regs = y.regs
           /\ z.vars = [y.vars EXCEPT !["s1"] = y.regs["s1"]]
           /\ Legal(save_reg("s1"), Spot("in", y), Spot("in", z))
  BY <1>2, SaveRoute
<1>5. \A r \in Regs : z.vars[r] = ProgramRegs[r]
  <2>1. d.vars \in [Vars -> DoubleWords]
    BY Fields
  <2>2. z.vars["s0"] = d.regs["s0"] /\ z.vars["s1"] = d.regs["s1"]
    BY <1>3, <1>4, <2>1 DEF Vars
  <2> QED BY <2>2 DEF Regs
<1>6. Legal(Begin, Spot("out", d), Spot("in", z))
  BY <1>1, <1>3, <1>4, LegalCat DEF Begin
<1> QED BY <1>3, <1>4, <1>5, <1>6 DEF Guarded

LEMMA RestoreRoute ==
  ASSUME NEW d \in States, NEW reg \in Regs
  PROVE  \E h : /\ Keeps(d, h) /\ h.regs = [d.regs EXCEPT ![reg] = d.vars[reg]]
                /\ Legal(restore_reg(reg), Spot("in", d), Spot("in", h))
<1>1. reg \in {"s0", "s1", "x0"} /\ reg # "x0" /\ reg \in Vars
  BY DEF Regs, Vars
<1>2. PICK v : v = d.vars[reg]
  OBVIOUS
<1>3. v \in DoubleWords
  BY <1>1, <1>2, Fields
<1>4. Loadable(<<>>) /\ Loaded(d, <<>>, Len(<<>>)) = d
  BY LoadablePrograms, LoadedKeeps
<1>5. Fed(d, <<>>, WriteVar(reg), v)
  BY <1>1, <1>2, <1>4, FillRoute DEF Fed
<1>6. PICK h : Written(d, reg, FALSE, <<>>, WriteVar(reg), v, h)
  BY <1>1, <1>3, <1>4, <1>5, WriteRun
<1>7. Results(h, FALSE, h)
  BY <1>6 DEF Results, Keeps, Written
<1> QED BY <1>1, <1>2, <1>6, <1>7 DEF restore_reg, RegsWith, Written

LEMMA EndRoute ==
  ASSUME NEW z, NEW p, NEW m, NEW q, Guarded(z, p, m, q)
  PROVE  \E e \in States : /\ e.regs = ProgramRegs /\ e.dpc = p /\ e.mem = m /\ e.got = q
                           /\ Legal(End, Spot("in", z), Spot("out", e))
<1>1. z \in States /\ z.dpc = p /\ z.mem = m /\ z.got = q /\ \A r \in Regs : z.vars[r] = ProgramRegs[r]
  BY DEF Guarded
<1>2. "s0" \in Regs /\ "s1" \in Regs
  BY DEF Regs
<1>3. PICK y : /\ Keeps(z, y) /\ y.regs = [z.regs EXCEPT !["s0"] = z.vars["s0"]]
               /\ Legal(restore_reg("s0"), Spot("in", z), Spot("in", y))
  BY <1>1, <1>2, RestoreRoute
<1>4. y \in States /\ y.dpc = p /\ y.mem = m /\ y.got = q /\ y.vars = z.vars
  BY <1>1, <1>3 DEF Keeps
<1>5. PICK e : /\ Keeps(y, e) /\ e.regs = [y.regs EXCEPT !["s1"] = y.vars["s1"]]
               /\ Legal(restore_reg("s1"), Spot("in", y), Spot("in", e))
  BY <1>2, <1>4, RestoreRoute
<1>6. e \in States /\ e.dpc = p /\ e.mem = m /\ e.got = q
  BY <1>4, <1>5 DEF Keeps
<1>7. e.regs = ProgramRegs
  <2>1. e.regs \in [Regs -> DoubleWords] /\ z.regs \in [Regs -> DoubleWords]
    BY <1>1, <1>6, Fields
  <2>2. e.regs["s0"] = z.vars["s0"] /\ e.regs["s1"] = z.vars["s1"]
    BY <1>3, <1>4, <1>5, <2>1 DEF Regs
  <2>3. \A x \in Regs : e.regs[x] = ProgramRegs[x]
    BY <1>1, <2>2 DEF Regs
  <2> QED BY <2>1, <2>3, ProgramRegsAre
<1>8. Legal(resume_hart, Spot("in", e), Spot("out", e))
  BY <1>6, <1>7, ResumeRoute
<1> QED BY <1>3, <1>5, <1>6, <1>7, <1>8, LegalCat DEF End


LEMMA FedData ==
  ASSUME NEW d \in States, NEW prog, Loadable(prog), NEW v \in DoubleWords
  PROVE  Fed(d, prog, WriteData(v), v)
<1>1. Loaded(d, prog, Len(prog)) \in States
  BY LoadedKeeps DEF Keeps
<1> QED BY <1>1, FillRoute DEF Fed

----------------------------------------------------------------------------
\* The routines, from where the program runs back to there.
Outside(d) == d \in States /\ d.regs = ProgramRegs
Between(s, d, e) == Outside(e) /\ Legal(s, Spot("out", d), Spot("out", e))
Untouched(d, e) == e.mem = d.mem /\ e.got = d.got

LEMMA FenceRoute ==
  ASSUME NEW d, Outside(d)
  PROVE  \E e : Between(fence_i, d, e) /\ Untouched(d, e)
<1>1. d \in States /\ d.regs = ProgramRegs
  BY DEF Outside
<1>2. Legal(halt, Spot("out", d), Spot("in", d))
  BY <1>1, HaltRoute
<1>3. Loadable(FenceProgram) /\ Loaded(d, FenceProgram, Len(FenceProgram)) \in States
      /\ Loaded(d, FenceProgram, Len(FenceProgram)).data \in DoubleWords
  <2>1. Loaded(d, FenceProgram, Len(FenceProgram)) \in States
    BY <1>1, LoadablePrograms, LoadedKeeps DEF Keeps
  <2> QED BY <2>1, Fields, LoadablePrograms
<1>4. PICK g, v : g = Loaded(d, FenceProgram, Len(FenceProgram)) /\ v = g.data
  OBVIOUS
<1>5. Fed(d, FenceProgram, <<>>, v) /\ v \in DoubleWords
  <2>1. SetData(g, v) = g
    BY <1>3, <1>4 DEF SetData, States
  <2>2. Legal(<<>>, Spot("in", g), Spot("in", g))
    BY <1>3, <1>4, SpotIs, LegalEmpty DEF Inside
  <2> QED BY <1>3, <1>4, <2>1, <2>2 DEF Fed
<1>6. PICK h : Written(d, "x0", TRUE, FenceProgram, <<>>, v, h)
  BY <1>1, <1>3, <1>5, WriteRun
<1>7. h \in States /\ h.regs = d.regs /\ h.mem = d.mem /\ h.got = d.got /\ Begins(h, FenceProgram)
  BY <1>6 DEF Written, RegsWith, Keeps
<1>8. Results(h, TRUE, h)
  BY <1>7 DEF Results, Executed
<1>9. Legal(RUN_AC_OR_DIE(WriteReg("x0", TRUE), << <<"fence_i">>, <<"ebreak">> >>, <<>>, <<>>), Spot("in", d), Spot("in", h))
  BY <1>6, <1>8 DEF Written, FenceProgram
<1>10. Legal(resume_hart, Spot("in", h), Spot("out", h))
  BY <1>1, <1>7, ResumeRoute
<1>11. Legal(fence_i, Spot("out", d), Spot("out", h))
  BY <1>2, <1>9, <1>10, LegalCat DEF fence_i
<1> QED BY <1>1, <1>7, <1>11 DEF Between, Outside, Untouched

LEMMA CsrRoute ==
  ASSUME NEW d, Outside(d), NEW v \in DoubleWords
  PROVE  \E e : Between(modify_csr(v), d, e) /\ Untouched(d, e) /\ e.dpc = v
<1>1. d \in States /\ d.regs = ProgramRegs
  BY DEF Outside
<1>2. Legal(halt, Spot("out", d), Spot("in", d))
  BY <1>1, HaltRoute
<1>3. Loadable(CsrProgram) /\ Fed(d, CsrProgram, WriteData(v), v)
  BY <1>1, LoadablePrograms, FedData
<1>4. PICK h : Written(d, "x0", TRUE, CsrProgram, WriteData(v), v, h)
  BY <1>1, <1>3, WriteRun
<1>5. h \in States /\ h.regs = d.regs /\ h.mem = d.mem /\ h.got = d.got /\ h.data = v /\ Begins(h, CsrProgram)
  BY <1>4 DEF Written, RegsWith, Keeps
<1>6. PICK g : g = CsrEnd(h)
  OBVIOUS
<1>7. g \in States /\ g.regs = d.regs /\ g.mem = d.mem /\ g.got = d.got /\ g.dpc = v
  BY <1>5, <1>6, CsrEndIs
<1>8. Results(h, TRUE, g)
  BY <1>5, <1>6, <1>7 DEF Results, Executed
<1>9. Legal(RUN_AC_OR_DIE(WriteReg("x0", TRUE), CsrProgram, WriteData(v), <<>>), Spot("in", d), Spot("in", g))
  BY <1>4, <1>8 DEF Written
<1>10. "data" \in Vars /\ g.data \in DoubleWords
  BY <1>7, Fields DEF Vars
<1>11. PICK e : e = WithVar(g, "data", g.data)
  OBVIOUS
<1>12. Legal(ReadVar("data"), Spot("in", g), Spot("in", e))
  BY <1>7, <1>10, <1>11, FetchRoute
<1>13. e \in States /\ e.regs = d.regs /\ e.mem = d.mem /\ e.got = d.got /\ e.dpc = v
  <2>1. e \in States
    BY <1>7, <1>10, <1>11, FetchRoute
  <2>2. \E w : e = Local(g, w, g.got)
    BY <1>11 DEF WithVar
  <2> QED BY <1>7, <2>1, <2>2 DEF Local
<1>14. Legal(resume_hart, Spot("in", e), Spot("out", e))
  BY <1>1, <1>13, ResumeRoute
<1>15. Legal(modify_csr(v), Spot("out", d), Spot("out", e))
  BY <1>2, <1>9, <1>12, <1>14, LegalCat DEF modify_csr
<1> QED BY <1>1, <1>13, <1>15 DEF Between, Outside, Untouched

LEMMA BetweenCat ==
  ASSUME NEW s, NEW u, NEW d, NEW e, NEW f, Between(s, d, e), Between(u, e, f)
  PROVE  Between(s \o u, d, f)
BY LegalCat DEF Between

LEMMA LookOutside ==
  ASSUME NEW d, Outside(d)
  PROVE  /\ \A addr : Between(<< read(addr) >>, d, d)
         /\ Between(<< nop >>, d, d)
         /\ \A sel \in 0 .. 1 : Between(select_hart(sel), d, d)
<1>1. Spot("out", d) \in Spots
  BY SpotIs DEF Outside, Free
<1> QED BY <1>1, LookRoute, SelectRoute DEF Between, Outside

LEMMA ResetRoute ==
  ASSUME NEW d, Outside(d)
  PROVE  \E e : Between(reset, d, e) /\ Untouched(d, e) /\ e.dpc = EntryPoint
<1>1. PICK e : Between(fence_i, d, e) /\ Untouched(d, e)
  BY FenceRoute
<1>2. Outside(e) /\ EntryPoint \in DoubleWords
  BY <1>1, DtmAssumption DEF Between
<1>3. PICK f : Between(modify_csr(EntryPoint), e, f) /\ Untouched(e, f) /\ f.dpc = EntryPoint
  BY <1>2, CsrRoute
<1>4. Outside(f)
  BY <1>3 DEF Between
<1>5. Between(select_hart(0), d, d) /\ Between(select_hart(0), f, f) /\ Between(<< read("DMSTATUS") >>, f, f)
  BY <1>4, LookOutside
<1>6. Between(reset, d, f)
  BY <1>1, <1>3, <1>5, BetweenCat DEF reset
<1> QED BY <1>1, <1>3, <1>6 DEF Untouched


\* A register written between Begin and End.
LEMMA RegsWithIs ==
  ASSUME NEW d \in States, NEW v \in DoubleWords
  PROVE  /\ RegsWith(d, "s0", v)["s0"] = v /\ RegsWith(d, "s0", v)["s1"] = d.regs["s1"]
         /\ RegsWith(d, "s1", v)["s1"] = v /\ RegsWith(d, "s1", v)["s0"] = d.regs["s0"]
<1>1. d.regs \in [Regs -> DoubleWords]
  BY Fields
<1> QED BY <1>1 DEF RegsWith, Regs

LEMMA GuardKept ==
  ASSUME NEW z, NEW p, NEW m, NEW q, Guarded(z, p, m, q), NEW h, Keeps(z, h)
  PROVE  Guarded(h, p, m, q)
BY DEF Guarded, Keeps

\* clear_chunk: the least word that is not to be cleared or not there.
LEMMA ClearsUpTo ==
  ASSUME NEW h \in States, NEW a \in Addrs, NEW n \in 1 .. MaxLen,
         h.regs["s0"] = << a, 0 >>, h.regs["s1"] = << a + n, 0 >>
  PROVE  \E y \in Nat : /\ ClearEnds(h, Cleared(h, y))
                        /\ Wiped(h, y) = [b \in Addrs |-> IF b \in Covered(a, n) THEN Zero ELSE h.mem[b]]
<1>1. a \in Nat /\ n \in Nat /\ n > 0 /\ n <= MaxLen /\ MaxLen \in Nat
  BY DtmAssumption
<1> DEFINE T == {y \in Nat : a <= y /\ (y = a + n \/ y \notin Addrs)}
<1>2. PICK y \in T : \A x \in T : y <= x
  <2>1. a + n \in T
    BY <1>1
  <2>2. T \in SUBSET Nat /\ T # {}
    BY <2>1
  <2> HIDE DEF T
  <2> QED BY <2>2, LeastNat
<1>3. y \in Nat /\ a <= y /\ y <= a + n /\ (y = a + n \/ y \notin Addrs)
  <2>1. a + n \in T
    BY <1>1
  <2> QED BY <1>2, <2>1
<1>4. \A b \in a .. y - 1 : b \in Addrs
  <2> SUFFICES ASSUME NEW b \in a .. y - 1, b \notin Addrs PROVE FALSE
    OBVIOUS
  <2>1. b \in T /\ b < y
    BY <1>1, <1>3
  <2> QED BY <1>2, <1>3, <2>1
<1>5. a # y
  BY <1>1, <1>3
<1>6. Place(h) = a /\ h.regs["s0"][2] = 0 /\ h.regs["s1"][1] = a + n /\ h.regs["s1"][2] = 0
  BY DEF Place
<1>7. ClearEnds(h, Cleared(h, y))
  <2>1. ClearsTo(h, y)
    BY <1>3, <1>4, <1>6 DEF ClearsTo
  <2>2. Place(h) < h.regs["s1"][1]
    BY <1>1, <1>6
  <2> QED BY <1>3, <1>6, <2>1, <2>2 DEF ClearEnds
<1>8. \A b \in Addrs : b \in a .. y - 1 <=> b \in Covered(a, n)
  <2> TAKE b \in Addrs
  <2>1. b \in Nat
    BY DtmAssumption
  <2>2. b \in Covered(a, n) => b < y
    <3> SUFFICES ASSUME b \in Covered(a, n), ~(b < y) PROVE FALSE
      OBVIOUS
    <3>1. b < a + n /\ y <= b /\ b - a < MaxLen
      BY <1>1, <1>3, <2>1 DEF Covered
    <3>2. y \notin Addrs /\ y \in a .. b
      BY <1>1, <1>3, <2>1, <3>1
    <3>3. a .. b \subseteq Addrs
      BY <3>1, BlocksAssumption
    <3> QED BY <3>2, <3>3
  <2> QED BY <1>1, <1>3, <2>1, <2>2 DEF Covered
<1>9. Wiped(h, y) = [b \in Addrs |-> IF b \in Covered(a, n) THEN Zero ELSE h.mem[b]]
  <2>1. Wiped(h, y) = [b \in Addrs |-> IF b \in a .. y - 1 THEN Zero ELSE h.mem[b]]
    BY <1>6 DEF Wiped
  <2> QED BY <1>8, <2>1
<1> QED BY <1>3, <1>7, <1>9

LEMMA ClearRoute ==
  ASSUME NEW d, Outside(d), NEW a \in Addrs, NEW n \in 1 .. MaxLen
  PROVE  \E e : /\ Between(clear_chunk(a, n), d, e) /\ e.got = d.got
                /\ e.mem = [b \in Addrs |-> IF b \in Covered(a, n) THEN Zero ELSE d.mem[b]]
<1>1. d \in States /\ d.regs = ProgramRegs
  BY DEF Outside
<1>2. << a, 0 >> \in DoubleWords /\ << a + n, 0 >> \in DoubleWords
  BY DtmAssumption DEF DoubleWords
<1>3. PICK z : Guarded(z, d.dpc, d.mem, d.got) /\ Legal(Begin, Spot("out", d), Spot("in", z))
  BY <1>1, BeginRoute
<1>4. z \in States
  BY <1>3 DEF Guarded
<1>5. PICK g : Written(z, "s0", FALSE, <<>>, WriteData(<<a, 0>>), <<a, 0>>, g)
  BY <1>2, <1>4, FedData, LoadablePrograms, WriteRun
<1>6. Guarded(g, d.dpc, d.mem, d.got) /\ g \in States /\ g.regs["s0"] = <<a, 0>>
  BY <1>2, <1>3, <1>4, <1>5, GuardKept, RegsWithIs DEF Written, Keeps
<1>7. PICK h : Written(g, "s1", TRUE, ClearProgram, WriteData(<<a + n, 0>>), <<a + n, 0>>, h)
  BY <1>2, <1>6, FedData, LoadablePrograms, WriteRun
<1>8. Guarded(h, d.dpc, d.mem, d.got) /\ h \in States /\ h.regs["s0"] = <<a, 0>> /\ h.regs["s1"] = << a + n, 0 >>
      /\ Begins(h, ClearProgram)
  BY <1>2, <1>6, <1>7, GuardKept, RegsWithIs DEF Written, Keeps
<1>9. PICK y \in Nat : /\ ClearEnds(h, Cleared(h, y))
                       /\ Wiped(h, y) = [b \in Addrs |-> IF b \in Covered(a, n) THEN Zero ELSE h.mem[b]]
  BY <1>8, ClearsUpTo
<1>10. PICK f : f = Cleared(h, y)
  OBVIOUS
<1>11. f \in States /\ f.dpc = h.dpc /\ f.mem = Wiped(h, y) /\ f.vars = h.vars /\ f.got = h.got
  BY <1>8, <1>10, ClearedIs
<1>12. PICK m : m = [b \in Addrs |-> IF b \in Covered(a, n) THEN Zero ELSE d.mem[b]]
  OBVIOUS
<1>13. Guarded(f, d.dpc, m, d.got)
  BY <1>8, <1>9, <1>11, <1>12 DEF Guarded
<1>14. Results(g, FALSE, g) /\ Results(h, TRUE, f)
  BY <1>6, <1>8, <1>9, <1>10, <1>11 DEF Results, Executed
<1>15. /\ Legal(RUN_AC_OR_DIE(WriteReg("s0", FALSE), <<>>, WriteData(<<a, 0>>), <<>>), Spot("in", z), Spot("in", g))
       /\ Legal(RUN_AC_OR_DIE(WriteReg("s1", TRUE), ClearProgram, WriteData(<<a + n, 0>>), <<>>), Spot("in", g), Spot("in", f))
  BY <1>5, <1>7, <1>14 DEF Written
<1>16. PICK e \in States : /\ e.regs = ProgramRegs /\ e.dpc = d.dpc /\ e.mem = m /\ e.got = d.got
                           /\ Legal(End, Spot("in", f), Spot("out", e))
  BY <1>13, EndRoute
<1>17. Legal(clear_chunk(a, n), Spot("out", d), Spot("out", e))
  BY <1>3, <1>15, <1>16, LegalCat DEF clear_chunk
<1> QED BY <1>12, <1>16, <1>17 DEF Between, Outside


----------------------------------------------------------------------------
\* read_chunk, before its i-th word: the words up to there have been read and,
\* unless the program has faulted before, the next one is in s1.
GotUpTo(q, a, m, i) ==
  Len(q) = i /\ \A j \in 1 .. i : a + j - 1 \in Addrs => q[j] = m[a + j - 1]
ReadUpTo(z, a, m, i) == GotUpTo(z.got, a, m, i)
Stuck(z, a, i) == \E k \in Nat : k < i /\ a + k \notin Addrs /\ z.regs["s0"] = << a + k, 0 >>
Fetching(z, a, m, i) ==
  \/ a + i - 1 \in Addrs /\ z.regs["s0"] = << a + i, 0 >> /\ z.regs["s1"] = m[a + i - 1]
  \/ Stuck(z, a, i)
Reading(p, a, m, n, i) ==
  {z \in States : /\ Guarded(z, p, m, z.got) /\ Begins(z, LoadProgram)
                  /\ ReadUpTo(z, a, m, i - 1)
                  /\ i <= n => Fetching(z, a, m, i)}

\* Behind a word that is not there are no more within the chunk.
LEMMA StuckMisses ==
  ASSUME NEW a \in Addrs, NEW n \in 1 .. MaxLen, NEW i \in 1 .. n, NEW k \in Nat, k < i, a + k \notin Addrs,
         NEW j \in Nat, k <= j, j < n
  PROVE  a + j \notin Addrs
<1> SUFFICES ASSUME a + j \in Addrs PROVE FALSE
  OBVIOUS
<1>1. a \in Nat /\ (a + j) - a < MaxLen
  BY DtmAssumption
<1>2. a .. a + j \subseteq Addrs
  BY <1>1, BlocksAssumption
<1>3. a + k \in a .. a + j
  BY <1>1
<1> QED BY <1>2, <1>3

LEMMA LoadGoesOn ==
  ASSUME NEW h \in States, NEW a \in Addrs, NEW m, NEW i \in Nat, h.mem = m, Fetching(h, a, m, i)
  PROVE  Fetching(LoadEnd(h), a, m, i + 1)
<1>0. a \in Nat
  BY DtmAssumption
<1>1. PICK e : e = LoadEnd(h)
  OBVIOUS
<1>2. /\ Missing(h) => e.regs = h.regs
      /\ ~Missing(h) => e.regs["s0"] = Upper(h) /\ e.regs["s1"] = h.mem[Place(h)]
  BY <1>1, LoadEndIs
<1>3. CASE Stuck(h, a, i)
  <2>1. PICK k \in Nat : k < i /\ a + k \notin Addrs /\ h.regs["s0"] = << a + k, 0 >>
    BY <1>3 DEF Stuck
  <2>2. Missing(h)
    BY <2>1 DEF Missing, Place
  <2>3. k < i + 1 /\ e.regs["s0"] = << a + k, 0 >>
    BY <1>2, <2>1, <2>2
  <2> QED BY <1>1, <2>1, <2>3 DEF Fetching, Stuck
<1>4. CASE h.regs["s0"] = << a + i, 0 >>
  <2>1. Place(h) = a + i /\ Upper(h) = << a + i + 1, 0 >>
    BY <1>4 DEF Place, Upper
  <2>2. CASE Missing(h)
    <3>1. i < i + 1 /\ a + i \notin Addrs /\ e.regs["s0"] = << a + i, 0 >>
      BY <1>2, <1>4, <2>1, <2>2 DEF Missing
    <3> QED BY <1>1, <3>1 DEF Fetching, Stuck
  <2>3. CASE ~Missing(h)
    <3>1. a + (i + 1) - 1 = a + i /\ a + i + 1 = a + (i + 1)
      BY <1>0
    <3>2. a + i \in Addrs /\ e.regs["s0"] = << a + i + 1, 0 >> /\ e.regs["s1"] = m[a + i]
      BY <1>2, <2>1, <2>3 DEF Missing
    <3> QED BY <1>1, <3>1, <3>2 DEF Fetching
  <2> QED BY <2>2, <2>3
<1> QED BY <1>3, <1>4 DEF Fetching

\* What s1 holds is the word to be read.
LEMMA FetchingRight ==
  ASSUME NEW z \in States, NEW a \in Addrs, NEW m, NEW n \in 1 .. MaxLen, NEW i \in 1 .. n,
         Fetching(z, a, m, i), a + i - 1 \in Addrs
  PROVE  z.regs["s1"] = m[a + i - 1]
<1>1. CASE Stuck(z, a, i)
  <2>1. PICK k \in Nat : k < i /\ a + k \notin Addrs
    BY <1>1 DEF Stuck
  <2>2. i - 1 \in Nat /\ k <= i - 1 /\ i - 1 < n
    BY <2>1
  <2>3. a + (i - 1) \notin Addrs
    BY <2>1, <2>2, StuckMisses
  <2>4. a + (i - 1) = a + i - 1
    BY DtmAssumption
  <2> QED BY <2>3, <2>4
<1> QED BY <1>1 DEF Fetching

LEMMA GotOneMore ==
  ASSUME NEW q \in Seq(DoubleWords), NEW v \in DoubleWords, NEW a \in Nat, NEW m, NEW i \in Nat \ {0},
         GotUpTo(q, a, m, i - 1), a + i - 1 \in Addrs => v = m[a + i - 1]
  PROVE  GotUpTo(Append(q, v), a, m, i)
<1>0. Len(q) = i - 1 /\ \A j \in 1 .. i - 1 : a + j - 1 \in Addrs => q[j] = m[a + j - 1]
  BY DEF GotUpTo
<1>1. Len(Append(q, v)) = i
  BY <1>0
<1>2. ASSUME NEW j \in 1 .. i, a + j - 1 \in Addrs PROVE Append(q, v)[j] = m[a + j - 1]
  <2>1. CASE j = i
    <3>1. Append(q, v)[j] = v
      BY <1>0, <2>1
    <3> QED BY <1>2, <2>1, <3>1
  <2>2. CASE j # i
    <3>1. j \in 1 .. i - 1 /\ Append(q, v)[j] = q[j]
      BY <1>0, <2>2
    <3> QED BY <1>0, <1>2, <3>1
  <2> QED BY <2>1, <2>2
<1> QED BY <1>1, <1>2 DEF GotUpTo


LEMMA ReadWordRoute ==
  ASSUME NEW p, NEW m, NEW a \in Addrs, NEW n \in 1 .. MaxLen, NEW i \in 1 .. n, NEW z \in Reading(p, a, m, n, i)
  PROVE  \E y \in Reading(p, a, m, n, i + 1) :
           Legal(RUN_AC_OR_DIE(ReadReg("s1", i < n), <<>>, <<>>, ReadVar("got")), Spot("in", z), Spot("in", y))
<1>0. a \in Nat /\ n \in Nat /\ i \in Nat \ {0} /\ "s1" \in Regs
  BY DtmAssumption DEF Regs
<1>1. /\ z \in States /\ Guarded(z, p, m, z.got) /\ Begins(z, LoadProgram) /\ ReadUpTo(z, a, m, i - 1)
      /\ Fetching(z, a, m, i)
  BY <1>0 DEF Reading
<1>2. PICK post \in BOOLEAN : post = (i < n)
  <2>1. (i < n) \in BOOLEAN
    OBVIOUS
  <2> QED BY ONLY <2>1
<1>3. PICK h : /\ Keeps(z, h) /\ h.data = z.regs["s1"] /\ h.regs = z.regs /\ h.prog = z.prog
               /\ \A e, y : /\ Results(h, post, e) /\ y \in States
                            /\ Legal(ReadVar("got"), Spot("err", e), Spot("err", y))
                    => Legal(RUN_AC_OR_DIE(ReadReg("s1", post), <<>>, <<>>, ReadVar("got")), Spot("in", z), Spot("in", y))
  BY <1>0, <1>1, ReadRun
<1>4. /\ h \in States /\ h.mem = m /\ Begins(h, LoadProgram) /\ Fetching(h, a, m, i) /\ h.got = z.got
      /\ h.dpc = p /\ h.vars = z.vars
  BY <1>1, <1>3 DEF Keeps, Guarded, Begins, Fetching, Stuck
<1>5. PICK e : e = IF i < n THEN LoadEnd(h) ELSE h
  OBVIOUS
<1>6. /\ e \in States /\ e.mem = m /\ e.prog = h.prog /\ e.got = z.got /\ e.dpc = p /\ e.vars = z.vars
      /\ e.data = h.data /\ (i < n => Fetching(e, a, m, i + 1)) /\ Results(h, post, e)
  <2>1. CASE i < n
    <3>1. e = LoadEnd(h) /\ post = TRUE
      BY <1>2, <1>5, <2>1
    <3>2. Inherits(h, e) /\ e.data = h.data
      BY <1>4, <3>1, LoadEndIs
    <3>3. Fetching(e, a, m, i + 1)
      BY <1>0, <1>4, <3>1, LoadGoesOn
    <3>4. Executed(h, e)
      BY <1>4, <3>1 DEF Executed
    <3> QED BY <1>4, <3>1, <3>2, <3>3, <3>4 DEF Inherits, Results
  <2>2. CASE ~(i < n)
    <3>1. e = h /\ post = FALSE
      BY <1>2, <1>5, <2>2
    <3> QED BY <1>4, <2>2, <3>1 DEF Results
  <2> QED BY <2>1, <2>2
<1>7. PICK y : y = Gotten(e)
  OBVIOUS
<1>8. Legal(ReadVar("got"), Spot("err", e), Spot("err", y)) /\ y \in States
  BY <1>6, <1>7, GotRoute
<1>9. Legal(RUN_AC_OR_DIE(ReadReg("s1", i < n), <<>>, <<>>, ReadVar("got")), Spot("in", z), Spot("in", y))
  BY <1>2, <1>3, <1>6, <1>8
<1>10. /\ y.prog = e.prog /\ y.dpc = e.dpc /\ y.mem = e.mem
       /\ y.got = Append(e.got, e.data) /\ y.regs = e.regs
       /\ \A x \in Regs : y.vars[x] = e.vars[x]
  BY <1>6, <1>7, GottenIs
<1>11. Guarded(y, p, m, y.got) /\ Begins(y, LoadProgram)
  BY <1>1, <1>4, <1>6, <1>8, <1>10 DEF Guarded, Begins
<1>12. ReadUpTo(y, a, m, i)
  <2>1. PICK q, v : q = z.got /\ v = z.regs["s1"]
    OBVIOUS
  <2>2. y.got = Append(q, v) /\ q \in Seq(DoubleWords) /\ v \in DoubleWords
    BY <1>0, <1>1, <1>3, <1>6, <1>10, <2>1, Fields
  <2>3. a + i - 1 \in Addrs => v = m[a + i - 1]
    BY <1>1, <2>1, FetchingRight
  <2>4. GotUpTo(q, a, m, i - 1)
    BY <1>1, <2>1 DEF ReadUpTo
  <2>5. GotUpTo(Append(q, v), a, m, i)
    BY <1>0, <2>2, <2>3, <2>4, GotOneMore
  <2> QED BY <2>2, <2>5 DEF ReadUpTo
<1>13. i + 1 <= n => Fetching(y, a, m, i + 1)
  <2> SUFFICES ASSUME i + 1 <= n PROVE Fetching(y, a, m, i + 1)
    OBVIOUS
  <2>1. i < n
    BY <1>0
  <2>2. Fetching(e, a, m, i + 1)
    BY <1>6, <2>1
  <2> QED BY <1>10, <2>2 DEF Fetching, Stuck
<1>14. y \in Reading(p, a, m, n, i + 1)
  <2>1. (i + 1) - 1 = i
    BY <1>0
  <2> QED BY <1>8, <1>11, <1>12, <1>13, <2>1 DEF Reading
<1> QED BY <1>9, <1>14

LEMMA ReadRoute ==
  ASSUME NEW d, Outside(d), d.got = <<>>, NEW a \in Addrs, NEW n \in 1 .. MaxLen
  PROVE  \E e : Between(read_chunk(a, n), d, e) /\ e.mem = d.mem /\ ReadUpTo(e, a, d.mem, n)
<1>0. a \in Nat /\ n \in Nat /\ n > 0
  BY DtmAssumption
<1>1. d \in States /\ d.regs = ProgramRegs
  BY DEF Outside
<1>2. << a, 0 >> \in DoubleWords
  BY <1>0 DEF DoubleWords
<1>3. PICK p, m : p = d.dpc /\ m = d.mem
  OBVIOUS
<1>4. PICK z : Guarded(z, p, m, <<>>) /\ Legal(Begin, Spot("out", d), Spot("in", z))
  BY <1>1, <1>3, BeginRoute
<1>5. z \in States
  BY <1>4 DEF Guarded
<1>6. PICK h : Written(z, "s0", TRUE, LoadProgram, WriteData(<<a, 0>>), <<a, 0>>, h)
  BY <1>2, <1>5, FedData, LoadablePrograms, WriteRun
<1>7. Guarded(h, p, m, <<>>) /\ h \in States /\ h.regs["s0"] = <<a, 0>> /\ Begins(h, LoadProgram)
  BY <1>2, <1>4, <1>5, <1>6, GuardKept, RegsWithIs DEF Written, Keeps
<1>8. PICK y : y = LoadEnd(h)
  OBVIOUS
<1>9. y \in Reading(p, a, m, n, 1) /\ Executed(h, y)
  <2>1. Inherits(h, y) /\ (~Missing(h) => y.regs["s0"] = Upper(h) /\ y.regs["s1"] = h.mem[Place(h)])
    BY <1>7, <1>8, LoadEndIs
  <2>2. Place(h) = a /\ Upper(h) = << a + 1, 0 >> /\ ~Missing(h)
    BY <1>7 DEF Place, Upper, Missing
  <2>3. a + 1 - 1 = a /\ 1 - 1 = 0
    BY <1>0
  <2>4. h.dpc = p /\ h.mem = m /\ h.got = <<>> /\ \A r \in Regs : h.vars[r] = ProgramRegs[r]
    BY <1>7 DEF Guarded
  <2>5. y \in States /\ y.dpc = p /\ y.mem = m /\ y.got = <<>> /\ y.vars = h.vars /\ y.prog = h.prog
    BY <2>1, <2>4 DEF Inherits
  <2>6. Guarded(y, p, m, y.got) /\ Begins(y, LoadProgram)
    BY <1>7, <2>4, <2>5 DEF Guarded, Begins
  <2>7. Fetching(y, a, m, 1)
    BY <2>1, <2>2, <2>3, <2>4 DEF Fetching
  <2>8. ReadUpTo(y, a, m, 0)
    BY <2>5 DEF ReadUpTo, GotUpTo
  <2>9. Executed(h, y)
    BY <1>7, <1>8 DEF Executed
  <2> QED BY <2>3, <2>5, <2>6, <2>7, <2>8, <2>9 DEF Reading
<1>10. y \in States
  BY <1>9 DEF Reading
<1>11. Legal(RUN_AC_OR_DIE(WriteReg("s0", TRUE), LoadProgram, WriteData(<<a, 0>>), <<>>), Spot("in", z), Spot("in", y))
  BY <1>6, <1>9, <1>10 DEF Written, Results
<1> DEFINE word(i) == RUN_AC_OR_DIE(ReadReg("s1", i < n), <<>>, <<>>, ReadVar("got"))
           In == [i \in 1 .. n + 1 |-> {Spot("in", x) : x \in Reading(p, a, m, n, i)}]
<1>12. PICK parts : parts = [i \in 1 .. n |-> word(i)]
  OBVIOUS
<1>13. PICK x \in In[n + 1] : Legal(Concat(parts), Spot("in", y), x)
  <2>1. Len(parts) = n
    BY <1>0, <1>12
  <2>2. Spot("in", y) \in In[1] /\ Spot("in", y) \in Spots
    BY <1>0, <1>9, <1>10, SpotIs DEF Inside
  <2>3. ASSUME NEW i \in 1 .. n, NEW u \in In[i] PROVE \E v \in In[i + 1] : Legal(parts[i], u, v)
    <3>1. PICK w \in Reading(p, a, m, n, i) : u = Spot("in", w)
      BY <1>0
    <3>2. PICK v \in Reading(p, a, m, n, i + 1) : Legal(word(i), Spot("in", w), Spot("in", v))
      BY ReadWordRoute
    <3>3. i + 1 \in 1 .. n + 1
      BY <1>0
    <3> QED BY <1>12, <3>1, <3>2, <3>3
  <2> HIDE DEF In, word
  <2> QED BY <1>0, <2>1, <2>2, <2>3, LegalConcat
<1>14. PICK g \in Reading(p, a, m, n, n + 1) : x = Spot("in", g)
  BY <1>0, <1>13
<1>15. Guarded(g, p, m, g.got) /\ ReadUpTo(g, a, m, n)
  BY <1>0, <1>14 DEF Reading
<1>16. PICK e \in States : /\ e.regs = ProgramRegs /\ e.dpc = p /\ e.mem = m /\ e.got = g.got
                           /\ Legal(End, Spot("in", g), Spot("out", e))
  BY <1>15, EndRoute
<1>17. Legal(read_chunk(a, n), Spot("out", d), Spot("out", e))
  <2>1. Legal(Concat(parts), Spot("in", y), Spot("in", g))
    BY <1>13, <1>14
  <2>2. read_chunk(a, n) = Begin \o RUN_AC_OR_DIE(WriteReg("s0", TRUE), LoadProgram, WriteData(<<a, 0>>), <<>>)
                           \o Concat(parts) \o End
    BY <1>12 DEF read_chunk
  <2> QED BY <1>4, <1>11, <1>16, <2>1, <2>2, LegalCat
<1>18. ReadUpTo(e, a, m, n)
  BY <1>15, <1>16 DEF ReadUpTo
<1> QED BY <1>3, <1>16, <1>17, <1>18 DEF Between, Outside


----------------------------------------------------------------------------
\* write_chunk, with j words done: they are in memory as far as there is any.
PutWords(m, a, src, j) == [b \in Addrs |-> IF b \in Covered(a, j) THEN src[b - a + 1] ELSE m[b]]
PutAt(f, b, v) == [f EXCEPT ![b] = v]
Pointing(z, a, j) == z.regs["s0"] = << a + j, 0 >> \/ Stuck(z, a, j)
Writing(p, q, a, src, m, j) ==
  {z \in States : /\ Guarded(z, p, PutWords(m, a, src, j), q) /\ Begins(z, StoreProgram)
                  /\ z.command = WriteReg("s1", TRUE) /\ Pointing(z, a, j)}

LEMMA PutSame ==
  ASSUME NEW m, NEW a \in Nat, NEW src, NEW j \in Nat
  PROVE  /\ a + j \notin Addrs => PutWords(m, a, src, j + 1) = PutWords(m, a, src, j)
         /\ \A b \in Addrs : b # a + j => (b \in Covered(a, j + 1) <=> b \in Covered(a, j))
<1>1. \A b \in Addrs : b \in Nat
  BY DtmAssumption
<1>2. \A b \in Addrs : b # a + j => (b \in Covered(a, j + 1) <=> b \in Covered(a, j))
  BY <1>1 DEF Covered
<1> QED BY <1>2 DEF PutWords

LEMMA PutMore ==
  ASSUME NEW m, NEW a \in Nat, NEW src, NEW j \in Nat, NEW v, a + j \in Addrs, v = src[j + 1],
         NEW f, f = PutWords(m, a, src, j), NEW g, g = PutAt(f, a + j, v)
  PROVE  g = PutWords(m, a, src, j + 1)
<1>1. a + j \in Covered(a, j + 1) /\ (a + j) - a + 1 = j + 1
  BY DEF Covered
<1>2. PICK w : w = PutWords(m, a, src, j + 1)
  OBVIOUS
<1>3. w[a + j] = v
  BY <1>1, <1>2 DEF PutWords
<1>4. \A b \in Addrs : b # a + j => w[b] = f[b]
  BY <1>2, PutSame DEF PutWords
<1>5. w = [b \in Addrs |-> w[b]] /\ f = [b \in Addrs |-> f[b]]
  BY <1>2 DEF PutWords
<1> QED BY <1>2, <1>3, <1>4, <1>5 DEF PutAt

LEMMA StoreGoesOn ==
  ASSUME NEW h \in States, NEW a \in Addrs, NEW n \in 1 .. MaxLen, NEW j \in 0 .. n - 1, NEW src, NEW m,
         h.mem = PutWords(m, a, src, j), h.regs["s1"] = src[j + 1], Pointing(h, a, j), NEW e, e = StoreEnd(h)
  PROVE  e.mem = PutWords(m, a, src, j + 1) /\ Pointing(e, a, j + 1)
<1>0. a \in Nat /\ n \in Nat /\ j \in Nat /\ j < n
  BY DtmAssumption
<1>1. /\ Missing(h) => e.regs = h.regs /\ e.mem = h.mem
      /\ ~Missing(h) => e.regs["s0"] = Upper(h) /\ e.mem = Stored(h)
  BY StoreEndIs
<1>2. ASSUME NEW k \in Nat, k <= j, a + k \notin Addrs, h.regs["s0"] = << a + k, 0 >>
      PROVE  e.mem = PutWords(m, a, src, j + 1) /\ Pointing(e, a, j + 1)
  <2>1. Missing(h)
    BY <1>2 DEF Missing, Place
  <2>2. a + j \notin Addrs
    <3>1. n \in 1 .. n /\ k < n
      BY <1>0, <1>2
    <3> QED BY <1>0, <1>2, <3>1, StuckMisses
  <2>3. k < j + 1
    BY <1>0, <1>2
  <2>4. Pointing(e, a, j + 1)
    BY <1>1, <1>2, <2>1, <2>3 DEF Pointing, Stuck
  <2> QED BY <1>0, <1>1, <2>1, <2>2, <2>4, PutSame
<1>3. CASE Stuck(h, a, j)
  <2>1. PICK k \in Nat : k < j /\ a + k \notin Addrs /\ h.regs["s0"] = << a + k, 0 >>
    BY <1>3 DEF Stuck
  <2>2. k <= j
    BY <1>0, <2>1
  <2> QED BY <1>2, <2>1, <2>2
<1>4. CASE h.regs["s0"] = << a + j, 0 >> /\ a + j \notin Addrs
  BY <1>0, <1>2, <1>4
<1>5. CASE h.regs["s0"] = << a + j, 0 >> /\ a + j \in Addrs
  <2>1. Place(h) = a + j /\ Upper(h) = << a + j + 1, 0 >> /\ ~Missing(h)
    BY <1>5 DEF Place, Upper, Missing
  <2>2. a + j + 1 = a + (j + 1)
    BY <1>0
  <2>3. PICK f, v : f = h.mem /\ v = src[j + 1]
    OBVIOUS
  <2>4. Stored(h) = PutAt(f, a + j, v)
    BY <2>1, <2>3 DEF Stored, PutAt
  <2>5. Stored(h) = PutWords(m, a, src, j + 1)
    BY <1>0, <1>5, <2>3, <2>4, PutMore
  <2> QED BY <1>1, <2>1, <2>2, <2>5 DEF Pointing
<1> QED BY <1>3, <1>4, <1>5 DEF Pointing

\* Once s1 has the next word, the program puts it into memory.
LEMMA WritingOn ==
  ASSUME NEW p, NEW q, NEW a \in Addrs, NEW n \in 1 .. MaxLen, NEW j \in 0 .. n - 1, NEW src, NEW m,
         NEW h \in States, Guarded(h, p, PutWords(m, a, src, j), q), Begins(h, StoreProgram),
         h.command = WriteReg("s1", TRUE), Pointing(h, a, j), h.regs["s1"] = src[j + 1]
  PROVE  \E e \in Writing(p, q, a, src, m, j + 1) : Results(h, TRUE, e)
<1>1. PICK e : e = StoreEnd(h)
  OBVIOUS
<1>2. h.mem = PutWords(m, a, src, j) /\ h.dpc = p /\ h.got = q /\ \A r \in Regs : h.vars[r] = ProgramRegs[r]
  BY DEF Guarded
<1>3. e.mem = PutWords(m, a, src, j + 1) /\ Pointing(e, a, j + 1)
  BY <1>1, <1>2, StoreGoesOn
<1>4. /\ e \in States /\ e.prog = h.prog /\ e.dpc = h.dpc /\ e.vars = h.vars /\ e.got = h.got
      /\ e.command = h.command
  BY <1>1, StoreEndIs
<1>5. Guarded(e, p, PutWords(m, a, src, j + 1), q) /\ Begins(e, StoreProgram)
  BY <1>2, <1>3, <1>4 DEF Guarded, Begins
<1>6. Results(h, TRUE, e)
  BY <1>1, <1>4 DEF Results, Executed
<1> QED BY <1>3, <1>4, <1>5, <1>6 DEF Writing


\* With autoexec on, writing the data registers runs the command again.
LEMMA AutoSteps ==
  ASSUME NEW d \in States, NEW w, NEW e
  PROVE  /\ Step(Spot("auto", d), write(DATA[2], w), Spot("auto", Filled(d, 2, w)))
         /\ Ends(Filled(d, 1, w), e) =>
              Step(Spot("auto", d), write(DATA[1], w), Busy("autobusy", Filled(d, 1, w), e))
<1>1. \A i \in {1, 2} : /\ Fills(write(DATA[i], w)) /\ write(DATA[i], w).k = "write"
                        /\ write(DATA[i], w).addr = DATA[i] /\ Filling(d, write(DATA[i], w)) = w
                        /\ "to" \notin DOMAIN write(DATA[i], w)
  BY DEF write, Fills, Filling
<1>2. Edge("auto", write(DATA[2], w), "auto") /\ Edge("auto", write(DATA[1], w), "autobusy")
  BY PutEdges
<1>3. Step(Spot("auto", d), write(DATA[2], w), Spot("auto", Filled(d, 2, w)))
  <2>1. PICK t, f : t = write(DATA[2], w) /\ f = Filled(d, 2, w)
    OBVIOUS
  <2>2. Fills(t) /\ t.k = "write" /\ t.addr = DATA[2] /\ Filling(d, t) = w
    BY <1>1, <2>1
  <2>3. Carries(Spot("auto", d), t, Spot("auto", f))
    BY <2>1, <2>2, SpotIs DEF Carries
  <2> QED BY <1>1, <1>2, <2>1, <2>3, SpotIs DEF Step
<1>4. ASSUME Ends(Filled(d, 1, w), e)
      PROVE  Step(Spot("auto", d), write(DATA[1], w), Busy("autobusy", Filled(d, 1, w), e))
  <2>1. PICK t, f : t = write(DATA[1], w) /\ f = Filled(d, 1, w)
    OBVIOUS
  <2>2. Fills(t) /\ t.k = "write" /\ t.addr = DATA[1] /\ Filling(d, t) = w
    BY <1>1, <2>1
  <2>3. Carries(Spot("auto", d), t, Busy("autobusy", f, e))
    BY <1>4, <2>1, <2>2, SpotIs DEF Carries
  <2> QED BY <1>1, <1>2, <2>1, <2>3, SpotIs DEF Step
<1> QED BY <1>3, <1>4

LEMMA FilledBack ==
  ASSUME NEW d \in States, NEW v \in DoubleWords
  PROVE  Filled(Filled(d, 2, v[2]), 1, v[1]) = SetData(d, v) /\ Filled(d, 2, v[2]) \in States
<1>1. d.data \in DoubleWords /\ v[1] \in Nat /\ v[2] \in Nat /\ Filled(d, 2, v[2]) \in States
  <2>1. d.data \in DoubleWords /\ v[2] \in Nat /\ v[1] \in Nat /\ 2 \in 1 .. 2
    BY DataTypes, Pairs
  <2> QED BY <2>1, DataTypes
<1>2. SetHalf(SetHalf(d.data, 2, v[2]), 1, v[1]) = v
  BY <1>1, Pairs DEF SetHalf
<1>3. PICK h : h = SetHalf(d.data, 2, v[2])
  OBVIOUS
<1>4. Filled(d, 2, v[2]) = [d EXCEPT !.data = h] /\ [d EXCEPT !.data = h].data = h
  BY <1>3 DEF Filled, States
<1>5. Filled(Filled(d, 2, v[2]), 1, v[1]) = [[d EXCEPT !.data = h] EXCEPT !.data = v]
  BY <1>2, <1>3, <1>4 DEF Filled
<1> QED BY <1>1, <1>4, <1>5 DEF SetData, States

LEMMA AutoRun ==
  ASSUME NEW z \in States, z.command = WriteReg("s1", TRUE), NEW v \in DoubleWords
  PROVE  \E h : /\ Keeps(z, h) /\ h.command = WriteReg("s1", TRUE) /\ h.prog = z.prog
                /\ h.regs = RegsWith(z, "s1", v)
                /\ \A e : Results(h, TRUE, e) => Legal(AutoWord(v), Spot("auto", z), Spot("auto", e))
<1>1. PICK g : g = Filled(z, 2, v[2])
  OBVIOUS
<1>2. g \in States /\ Filled(g, 1, v[1]) = SetData(z, v)
  BY <1>1, FilledBack
<1>3. PICK f : f = SetData(z, v)
  OBVIOUS
<1>4. Inherits(z, f) /\ f.regs = z.regs /\ f.data = v /\ f.command = WriteReg("s1", TRUE)
  BY <1>3, SetDataIs
<1>5. f \in States /\ f = Commanded(f, WriteReg("s1", TRUE))
  <2>1. f \in States
    BY <1>4 DEF Inherits
  <2>2. f = Commanded(f, f.command)
    BY <2>1 DEF Commanded, States
  <2> QED BY <1>4, <2>1, <2>2
<1>6. PICK h : h = Transferred(f)
  OBVIOUS
<1>7. /\ Inherits(f, h) /\ h.command = WriteReg("s1", TRUE) /\ h.regs = RegsWith(f, "s1", f.data)
      /\ \A e : Results(h, TRUE, e) => Ends(f, e)
  <2>1. PICK x, reg, post : x = f /\ reg = "s1" /\ post = TRUE
    OBVIOUS
  <2>2. x \in States /\ f = Commanded(x, WriteReg(reg, post)) /\ reg \in {"s0", "s1", "x0"} /\ post \in BOOLEAN
    BY <1>5, <2>1
  <2>3. /\ Inherits(x, h) /\ h.command = WriteReg(reg, post) /\ h.regs = RegsWith(x, reg, x.data)
        /\ \A e : Results(h, post, e) => Ends(f, e)
    BY <1>6, <2>2, WriteCommand
  <2> QED BY <2>1, <2>3
<1>8. Keeps(z, h) /\ h.prog = z.prog /\ h.regs = RegsWith(z, "s1", v)
  BY <1>4, <1>7 DEF Inherits, Keeps, RegsWith
<1>9. ASSUME NEW e, Results(h, TRUE, e) PROVE Legal(AutoWord(v), Spot("auto", z), Spot("auto", e))
  <2>1. Ends(f, e) /\ e \in States
    BY <1>7, <1>9 DEF Results
  <2>2. /\ Step(Spot("auto", z), write(DATA[2], v[2]), Spot("auto", g))
        /\ Step(Spot("auto", g), write(DATA[1], v[1]), Busy("autobusy", f, e))
    BY <1>1, <1>2, <1>3, <2>1, AutoSteps
  <2>3. Step(Busy("autobusy", f, e), NotBusy, Spot("autoerr", e))
    BY WaitEdges, MuteOnes, MuteStep, SpotIs
  <2>4. Step(Spot("autoerr", e), die, Spot("auto", e))
    <3>1. Edge("autoerr", die, "auto")
      BY PutEdges DEF Clears
    <3> QED BY <3>1, MuteOnes, MuteSpots
  <2>5. /\ Spot("auto", z) \in Spots /\ Spot("auto", g) \in Spots /\ Busy("autobusy", f, e) \in Spots
        /\ Spot("autoerr", e) \in Spots /\ Spot("auto", e) \in Spots
    BY <1>2, <1>5, <2>1, SpotIs DEF Inside, Working
  <2>6. /\ Legal(<< write(DATA[2], v[2]), write(DATA[1], v[1]) >>, Spot("auto", z), Busy("autobusy", f, e))
        /\ Legal(<< NotBusy, die >>, Busy("autobusy", f, e), Spot("auto", e))
    BY <2>2, <2>3, <2>4, <2>5, LegalTwo
  <2> QED BY <2>6, LegalFour DEF AutoWord
<1> QED BY <1>7, <1>8, <1>9

LEMMA SwitchRoute ==
  ASSUME NEW z \in States
  PROVE  /\ Legal(<< write("AUTO", TRUE) >>, Spot("in", z), Spot("auto", z))
         /\ Legal(<< write("AUTO", FALSE) >>, Spot("auto", z), Spot("in", z))
<1>1. Edge("in", write("AUTO", TRUE), "auto") /\ Edge("auto", write("AUTO", FALSE), "in")
  BY PutEdges DEF Switches
<1>2. Spot("in", z) \in Spots /\ Spot("auto", z) \in Spots
  BY SpotIs DEF Inside
<1>3. Step(Spot("in", z), write("AUTO", TRUE), Spot("auto", z)) /\ Step(Spot("auto", z), write("AUTO", FALSE), Spot("in", z))
  BY <1>1, MuteOnes, MuteSpots
<1> QED BY <1>2, <1>3, LegalOne


LEMMA FirstWordRoute ==
  ASSUME NEW p, NEW q, NEW a \in Addrs, NEW n \in 1 .. MaxLen, NEW src \in Seq(DoubleWords), Len(src) = n,
         NEW m, NEW z \in States, Guarded(z, p, m, q), Begins(z, StoreProgram), z.regs["s0"] = << a, 0 >>,
         m \in [Addrs -> DoubleWords]
  PROVE  \E e \in Writing(p, q, a, src, m, 1) :
           Legal(RUN_AC_OR_DIE(WriteReg("s1", TRUE), <<>>, WriteData(src[1]), <<>>), Spot("in", z), Spot("in", e))
<1>0. a \in Nat /\ n \in Nat /\ 1 \in 1 .. n /\ src[1] \in DoubleWords
  BY DtmAssumption
<1>1. PICK h : Written(z, "s1", TRUE, <<>>, WriteData(src[1]), src[1], h)
  BY <1>0, FedData, LoadablePrograms, WriteRun
<1>2. /\ Keeps(z, h) /\ h.command = WriteReg("s1", TRUE) /\ h.prog = z.prog /\ h.regs = RegsWith(z, "s1", src[1])
      /\ \A e : Results(h, TRUE, e) =>
           Legal(RUN_AC_OR_DIE(WriteReg("s1", TRUE), <<>>, WriteData(src[1]), <<>>), Spot("in", z), Spot("in", e))
  BY <1>1 DEF Written
<1>3. h \in States /\ Guarded(h, p, m, q) /\ h.regs["s1"] = src[1] /\ h.regs["s0"] = << a, 0 >>
      /\ Begins(h, StoreProgram)
  BY <1>0, <1>2, GuardKept, RegsWithIs DEF Keeps, Begins
<1>4. m = PutWords(m, a, src, 0)
  <2>1. \A b \in Addrs : b \notin Covered(a, 0)
    BY <1>0, DtmAssumption DEF Covered
  <2> QED BY <2>1 DEF PutWords
<1>5. Pointing(h, a, 0) /\ 0 \in 0 .. n - 1 /\ 0 + 1 = 1
  <2>1. a + 0 = a
    BY <1>0
  <2> QED BY <1>0, <1>3, <2>1 DEF Pointing
<1>6. PICK e \in Writing(p, q, a, src, m, 1) : Results(h, TRUE, e)
  <2>1. PICK j : j = 0
    OBVIOUS
  <2>2. j \in 0 .. n - 1 /\ j + 1 = 1 /\ Pointing(h, a, j) /\ Guarded(h, p, PutWords(m, a, src, j), q)
    BY <1>3, <1>4, <1>5, <2>1
  <2>3. h.regs["s1"] = src[j + 1]
    BY <1>3, <2>2
  <2>4. \E e \in Writing(p, q, a, src, m, j + 1) : Results(h, TRUE, e)
    BY <1>2, <1>3, <2>2, <2>3, WritingOn
  <2> QED BY <2>2, <2>4
<1> QED BY <1>2, <1>6

LEMMA NextWordRoute ==
  ASSUME NEW p, NEW q, NEW a \in Addrs, NEW n \in 1 .. MaxLen, NEW src \in Seq(DoubleWords), Len(src) = n,
         NEW m, NEW j \in 1 .. n - 1, NEW z \in Writing(p, q, a, src, m, j)
  PROVE  \E e \in Writing(p, q, a, src, m, j + 1) :
           Legal(AutoWord(src[j + 1]), Spot("auto", z), Spot("auto", e))
<1>0. n \in Nat /\ j + 1 \in 1 .. n /\ j \in 0 .. n - 1 /\ src[j + 1] \in DoubleWords
  BY DtmAssumption
<1>1. /\ z \in States /\ Guarded(z, p, PutWords(m, a, src, j), q) /\ Begins(z, StoreProgram)
      /\ z.command = WriteReg("s1", TRUE) /\ Pointing(z, a, j)
  BY DEF Writing
<1>2. PICK v : v = src[j + 1]
  OBVIOUS
<1>3. PICK h : /\ Keeps(z, h) /\ h.command = WriteReg("s1", TRUE) /\ h.prog = z.prog
               /\ h.regs = RegsWith(z, "s1", v)
               /\ \A e : Results(h, TRUE, e) => Legal(AutoWord(v), Spot("auto", z), Spot("auto", e))
  BY <1>0, <1>1, <1>2, AutoRun
<1>4. /\ h \in States /\ Guarded(h, p, PutWords(m, a, src, j), q) /\ Begins(h, StoreProgram)
      /\ h.regs["s1"] = v /\ Pointing(h, a, j)
  <2>1. h \in States /\ Guarded(h, p, PutWords(m, a, src, j), q) /\ Begins(h, StoreProgram)
    BY <1>1, <1>3, GuardKept DEF Keeps, Begins
  <2>2. h.regs["s1"] = v /\ h.regs["s0"] = z.regs["s0"]
    BY <1>0, <1>1, <1>2, <1>3, RegsWithIs
  <2> QED BY <1>1, <2>1, <2>2 DEF Pointing, Stuck
<1>5. PICK e \in Writing(p, q, a, src, m, j + 1) : Results(h, TRUE, e)
  BY <1>0, <1>2, <1>3, <1>4, WritingOn
<1> QED BY <1>2, <1>3, <1>5


LEMMA WordsRoute ==
  ASSUME NEW p, NEW q, NEW a \in Addrs, NEW n \in 1 .. MaxLen, NEW src \in Seq(DoubleWords), Len(src) = n,
         NEW m \in [Addrs -> DoubleWords], NEW z \in States, Guarded(z, p, m, q), Begins(z, StoreProgram),
         z.regs["s0"] = << a, 0 >>, NEW parts,
         parts = [i \in 1 .. n |->
                    IF i = 1 THEN RUN_AC_OR_DIE(WriteReg("s1", TRUE), <<>>, WriteData(src[1]), <<>>)
                    ELSE (IF i = 2 THEN << write("AUTO", TRUE) >> ELSE <<>>) \o AutoWord(src[i])]
  PROVE  \E y \in Writing(p, q, a, src, m, n) :
           Legal(Concat(parts), Spot("in", z), Spot(IF n > 1 THEN "auto" ELSE "in", y))
<1>0. n \in Nat /\ n > 0
  BY DtmAssumption
<1> DEFINE In == [i \in 1 .. n + 1 |->
                    IF i = 1 THEN {Spot("in", z)}
                    ELSE {Spot(IF i > 2 THEN "auto" ELSE "in", x) : x \in Writing(p, q, a, src, m, i - 1)}]
<1>1. ASSUME NEW i \in 1 .. n, NEW u \in In[i] PROVE \E v \in In[i + 1] : Legal(parts[i], u, v)
  <2>0. i \in 1 .. n + 1 /\ i + 1 \in 1 .. n + 1 /\ i + 1 # 1 /\ (i + 1) - 1 = i
    BY <1>0
  <2>1. CASE i = 1
    <3>1. u = Spot("in", z)
      BY <2>0, <2>1
    <3>2. PICK e \in Writing(p, q, a, src, m, 1) :
            Legal(RUN_AC_OR_DIE(WriteReg("s1", TRUE), <<>>, WriteData(src[1]), <<>>), Spot("in", z), Spot("in", e))
      BY FirstWordRoute
    <3>3. Spot("in", e) \in In[2]
      BY <2>0, <2>1, <3>2
    <3>4. parts[1] = RUN_AC_OR_DIE(WriteReg("s1", TRUE), <<>>, WriteData(src[1]), <<>>)
      BY <2>1
    <3> HIDE DEF In
    <3>5. Legal(parts[1], u, Spot("in", e))
      BY <3>1, <3>2, <3>4
    <3>6. i + 1 = 2 /\ parts[i] = parts[1]
      BY <2>1
    <3>7. In[i + 1] = In[2]
      BY <3>6
    <3>8. PICK v : v = Spot("in", e)
      OBVIOUS
    <3>9. v \in In[i + 1]
      BY <3>3, <3>7, <3>8
    <3>10. Legal(parts[i], u, v)
      BY <3>5, <3>6, <3>8
    <3> QED BY <3>9, <3>10
  <2>2. CASE i # 1
    <3>0. i - 1 \in 1 .. n - 1 /\ (i - 1) + 1 = i /\ i + 1 > 2
      <4> HIDE DEF In
      <4>1. i \in Int /\ i >= 1 /\ i <= n
        BY <1>0
      <4>2. i - 1 \in 1 .. n - 1
        BY <1>0, <2>2, <4>1
      <4>3. (i - 1) + 1 = i /\ i + 1 > 2
        BY <2>2, <4>1
      <4> QED BY <4>2, <4>3
    <3>1. PICK w \in Writing(p, q, a, src, m, i - 1) : u = Spot(IF i > 2 THEN "auto" ELSE "in", w)
      BY <2>0, <2>2
    <3>2. w \in States
      BY <3>1 DEF Writing
    <3>3. PICK e \in Writing(p, q, a, src, m, i) : Legal(AutoWord(src[i]), Spot("auto", w), Spot("auto", e))
      <4>1. PICK j : j = i - 1
        OBVIOUS
      <4>2. j \in 1 .. n - 1 /\ j + 1 = i /\ w \in Writing(p, q, a, src, m, j)
        BY <3>0, <3>1, <4>1
      <4>3. \E e \in Writing(p, q, a, src, m, j + 1) : Legal(AutoWord(src[j + 1]), Spot("auto", w), Spot("auto", e))
        BY <4>2, NextWordRoute
      <4> QED BY <4>2, <4>3
    <3>4. Spot("auto", e) \in In[i + 1]
      BY <2>0, <3>0, <3>3
    <3>5. parts[i] = (IF i = 2 THEN << write("AUTO", TRUE) >> ELSE <<>>) \o AutoWord(src[i])
      BY <2>2
    <3> HIDE DEF In
    <3>6. Legal(IF i = 2 THEN << write("AUTO", TRUE) >> ELSE <<>>, u, Spot("auto", w))
      <4>1. CASE i = 2
        <5>1. u = Spot("in", w)
          BY <3>1, <4>1
        <5> QED BY <3>2, <4>1, <5>1, SwitchRoute
      <4>2. CASE i # 2
        <5>1. i > 2
          BY <1>0, <2>2, <4>2
        <5>2. u = Spot("auto", w) /\ u \in Spots
          BY <3>1, <3>2, <5>1, SpotIs DEF Inside
        <5> QED BY <4>2, <5>2, LegalEmpty
      <4> QED BY <4>1, <4>2
    <3>7. Legal(parts[i], u, Spot("auto", e))
      BY <3>3, <3>5, <3>6, LegalCat
    <3> QED BY <3>4, <3>7
  <2> QED BY <2>1, <2>2
<1>2. Len(parts) = n
  BY <1>0
<1>3. Spot("in", z) \in In[1] /\ Spot("in", z) \in Spots
  BY <1>0, SpotIs DEF Inside
<1>4. PICK x \in In[n + 1] : Legal(Concat(parts), Spot("in", z), x)
  <2> HIDE DEF In
  <2> QED BY <1>0, <1>1, <1>2, <1>3, LegalConcat
<1>5. n + 1 \in 1 .. n + 1 /\ n + 1 # 1 /\ (n + 1) - 1 = n /\ (n + 1 > 2 <=> n > 1)
  <2> HIDE DEF In
  <2>1. n + 1 \in 1 .. n + 1 /\ n + 1 # 1 /\ (n + 1) - 1 = n
    BY <1>0
  <2>2. n + 1 > 2 <=> n > 1
    BY <1>0
  <2> QED BY <2>1, <2>2
<1>6. \E y \in Writing(p, q, a, src, m, n) : x = Spot(IF n > 1 THEN "auto" ELSE "in", y)
  BY <1>4, <1>5
<1> QED BY <1>4, <1>6

LEMMA WriteRoute ==
  ASSUME NEW d, Outside(d), NEW a \in Addrs, NEW src \in Chunks
  PROVE  \E e : Between(write_chunk(a, src), d, e) /\ e.got = d.got /\ e.mem = PutWords(d.mem, a, src, Len(src))
<1>0. src \in Seq(DoubleWords) /\ Len(src) \in 1 .. MaxLen /\ a \in Nat
  BY DtmAssumption
<1>1. d \in States /\ d.regs = ProgramRegs /\ d.mem \in [Addrs -> DoubleWords]
  BY Fields DEF Outside
<1>2. << a, 0 >> \in DoubleWords
  BY <1>0 DEF DoubleWords
<1>3. PICK p, q, m, n : p = d.dpc /\ q = d.got /\ m = d.mem /\ n = Len(src)
  OBVIOUS
<1>4. PICK z : Guarded(z, p, m, q) /\ Legal(Begin, Spot("out", d), Spot("in", z))
  BY <1>1, <1>3, BeginRoute
<1>5. z \in States
  BY <1>4 DEF Guarded
<1>6. PICK h : Written(z, "s0", FALSE, StoreProgram, WriteData(<<a, 0>>), <<a, 0>>, h)
  BY <1>2, <1>5, FedData, LoadablePrograms, WriteRun
<1>7. Guarded(h, p, m, q) /\ h \in States /\ h.regs["s0"] = <<a, 0>> /\ Begins(h, StoreProgram)
  BY <1>2, <1>4, <1>5, <1>6, GuardKept, RegsWithIs DEF Written, Keeps
<1>8. Legal(RUN_AC_OR_DIE(WriteReg("s0", FALSE), StoreProgram, WriteData(<<a, 0>>), <<>>), Spot("in", z), Spot("in", h))
  BY <1>6, <1>7 DEF Written, Results
<1>9. PICK parts : parts = [i \in 1 .. n |->
                    IF i = 1 THEN RUN_AC_OR_DIE(WriteReg("s1", TRUE), <<>>, WriteData(src[1]), <<>>)
                    ELSE (IF i = 2 THEN << write("AUTO", TRUE) >> ELSE <<>>) \o AutoWord(src[i])]
  OBVIOUS
<1>10. PICK y \in Writing(p, q, a, src, m, n) :
            Legal(Concat(parts), Spot("in", h), Spot(IF n > 1 THEN "auto" ELSE "in", y))
  <2>1. n \in 1 .. MaxLen /\ Len(src) = n /\ m \in [Addrs -> DoubleWords]
    BY <1>0, <1>1, <1>3
  <2> QED BY <1>0, <1>7, <1>9, <2>1, WordsRoute
<1>11. y \in States /\ Guarded(y, p, PutWords(m, a, src, n), q)
  BY <1>10 DEF Writing
<1>12. Legal(IF Len(src) > 1 THEN << write("AUTO", FALSE) >> ELSE <<>>,
             Spot(IF n > 1 THEN "auto" ELSE "in", y), Spot("in", y))
  <2>1. CASE n > 1
    BY <1>3, <1>11, <2>1, SwitchRoute
  <2>2. CASE ~(n > 1)
    BY <1>3, <1>11, <2>2, SpotIs, LegalEmpty DEF Inside
  <2> QED BY <2>1, <2>2
<1>13. PICK e \in States : /\ e.regs = ProgramRegs /\ e.dpc = p /\ e.mem = PutWords(m, a, src, n) /\ e.got = q
                           /\ Legal(End, Spot("in", y), Spot("out", e))
  BY <1>11, EndRoute
<1>14. Legal(write_chunk(a, src), Spot("out", d), Spot("out", e))
  <2>1. write_chunk(a, src) =
          Begin \o RUN_AC_OR_DIE(WriteReg("s0", FALSE), StoreProgram, WriteData(<<a, 0>>), <<>>)
          \o Concat(parts) \o (IF Len(src) > 1 THEN << write("AUTO", FALSE) >> ELSE <<>>) \o End
    BY <1>3, <1>9 DEF write_chunk
  <2> QED BY <1>4, <1>8, <1>10, <1>12, <1>13, <2>1, LegalCat
<1> QED BY <1>3, <1>13, <1>14 DEF Between, Outside

\* get_xlen fails at 128 bits and looks at a register at 64.
LEMMA WideCommand ==
  ASSUME NEW d \in States
  PROVE  \E f \in States : /\ f = Commanded(d, AccessRegister(4, TRUE, FALSE, FALSE, "s0")) /\ Ends(f, f)
                           /\ f.regs = d.regs /\ f.mem = d.mem /\ f.got = d.got /\ f.dpc = d.dpc
<1>1. PICK c : c = AccessRegister(4, TRUE, FALSE, FALSE, "s0")
  OBVIOUS
<1>2. /\ c \in [size : 0 .. 4, transfer : BOOLEAN, write : BOOLEAN, postexec : BOOLEAN, reg : {"s0", "s1", "x0"}]
      /\ c.size = 4 /\ c.transfer = TRUE
  BY <1>1 DEF AccessRegister
<1>3. PICK f : f = Commanded(d, c)
  OBVIOUS
<1>4. /\ f \in States /\ f.command = c
      /\ f.regs = d.regs /\ f.mem = d.mem /\ f.got = d.got /\ f.dpc = d.dpc
  BY <1>2, <1>3 DEF Commanded, States
<1>5. f = Transferred(f)
  BY <1>2, <1>4 DEF Transferred
<1>6. Ends(f, f)
  BY <1>2, <1>4, <1>5 DEF Ends
<1> QED BY <1>1, <1>3, <1>4, <1>6

LEMMA XlenRoute ==
  ASSUME NEW d \in States
  PROVE  \E e \in States : /\ e.regs = d.regs /\ e.mem = d.mem /\ e.got = d.got /\ e.dpc = d.dpc
                           /\ Legal(get_xlen, Spot("in", d), Spot("in", e))
<1>1. PICK c, b : c = AccessRegister(4, TRUE, FALSE, FALSE, "s0") /\ b = ReadReg("s0", FALSE)
  OBVIOUS
<1>2. /\ Starts("in", c, "busy") /\ Starts("in", b, "sure")
      /\ b = AccessRegister(3, TRUE, FALSE, FALSE, "s0")
  BY <1>1, Commands DEF Starts, ReadReg
<1>3. PICK f \in States : /\ f = Commanded(d, c) /\ Ends(f, f)
                          /\ f.regs = d.regs /\ f.mem = d.mem /\ f.got = d.got /\ f.dpc = d.dpc
  BY <1>1, WideCommand
<1>4. ASSUME NEW g \in States
      PROVE  /\ Legal(<<>>, Spot("in", Loaded(g, <<>>, Len(<<>>))), Spot("in", g))
             /\ Legal(<<>>, Spot("err", g), Spot("err", g)) /\ Legal(<<>>, Spot("in", g), Spot("in", g))
  <2>1. Loaded(g, <<>>, Len(<<>>)) = g
    BY LoadablePrograms, LoadedKeeps
  <2>2. Spot("in", g) \in Spots /\ Spot("err", g) \in Spots
    BY SpotIs DEF Inside
  <2> QED BY <2>1, <2>2, LegalEmpty
<1>5. Legal(run_abstract_command(c, <<>>, <<>>, <<>>), Spot("in", d), Spot("err", f))
  <2>1. <<"busy", "err">> \in {<<"busy", "err">>, <<"sure", "in">>}
    OBVIOUS
  <2> QED BY <1>2, <1>3, <1>4, <2>1, LoadablePrograms, RunRoute
<1>6. Legal(<< write("ABSTRACTCS", 0) >>, Spot("err", f), Spot("in", f))
  <2>1. Edge("err", write("ABSTRACTCS", 0), "in") /\ Mute(write("ABSTRACTCS", 0))
    BY PutEdges, MuteOnes DEF Clears
  <2>2. Spot("in", f) \in Spots /\ Spot("err", f) \in Spots
    BY SpotIs DEF Inside
  <2> QED BY <2>1, <2>2, MuteSpots, LegalOne
<1>7. PICK k, e : k = Commanded(f, b) /\ e = Transferred(k)
  OBVIOUS
<1>8. e \in States /\ e.regs = f.regs /\ e.mem = f.mem /\ e.got = f.got /\ e.dpc = f.dpc /\ Ends(k, e)
  <2>1. "s0" \in Regs /\ FALSE \in BOOLEAN
    BY DEF Regs
  <2>2. PICK post \in BOOLEAN : post = FALSE
    OBVIOUS
  <2>3. k = Commanded(f, ReadReg("s0", post))
    BY <1>1, <1>7, <2>2
  <2>4. Inherits(f, e) /\ e.regs = f.regs /\ (\A x : Results(e, post, x) => Ends(k, x))
    BY <1>7, <2>1, <2>3, ReadCommand
  <2>5. Results(e, post, e)
    BY <2>2, <2>4 DEF Results, Inherits
  <2> QED BY <2>4, <2>5 DEF Inherits
<1>9. Legal(run_abstract_command(b, <<>>, <<>>, <<>>), Spot("in", f), Spot("in", e))
  <2>1. PICK mid, end : mid = "sure" /\ end = "in"
    OBVIOUS
  <2>2. <<mid, end>> \in {<<"busy", "err">>, <<"sure", "in">>} /\ Starts("in", b, mid)
    BY <1>2, <2>1
  <2>3. Ends(Commanded(f, b), e) /\ Legal(<<>>, Spot(end, e), Spot(end, e))
    BY <1>4, <1>7, <1>8, <2>1
  <2>4. Legal(run_abstract_command(b, <<>>, <<>>, <<>>), Spot("in", f), Spot(end, e))
    BY <1>4, <2>2, <2>3, LoadablePrograms, RunRoute
  <2> QED BY <2>1, <2>4
<1>10. Legal(get_xlen, Spot("in", d), Spot("in", e))
  <2>1. get_xlen = run_abstract_command(c, <<>>, <<>>, <<>>) \o << write("ABSTRACTCS", 0) >>
                   \o run_abstract_command(b, <<>>, <<>>, <<>>)
    BY <1>1, <1>2 DEF get_xlen
  <2> QED BY <1>5, <1>6, <1>9, <2>1, LegalCat
<1> QED BY <1>3, <1>8, <1>10

\* The start of the host: from the module switched off.
LEMMA ProducerRoute ==
  ASSUME NEW d, Outside(d), Asleep(d)
  PROVE  \E e : /\ Outside(e) /\ Untouched(d, e) /\ e.dpc = d.dpc
                /\ Legal(producer_thread, Spot("init", d), Spot("out", e))
<1>0. d \in States /\ d.regs = ProgramRegs /\ Spot("init", d) \in Spots /\ Spot("out", d) \in Spots
  BY SpotIs DEF Outside, Free
<1>1. PICK z : z = DMControl(FALSE, FALSE, 0, TRUE)
  OBVIOUS
<1>2. Legal(<< write("DMCONTROL", z) >>, Spot("init", d), Spot("out", d))
  <2>1. Edge("init", write("DMCONTROL", z), "out") /\ Mute(write("DMCONTROL", z))
    <3>1. Steers("init", z, "out")
      BY <1>1 DEF Steers
    <3> QED BY <3>1, PutEdges, MuteOnes
  <2> QED BY <1>0, <2>1, MuteSpots, LegalOne
<1>3. Legal(<< read("ABSTRACTCS"), read("HARTINFO") >>, Spot("init", d), Spot("init", d))
  <2>1. \A addr : Step(Spot("init", d), read(addr), Spot("init", d))
    BY <1>0, LookRoute
  <2> QED BY <1>0, <2>1, LegalTwo
<1>4. Legal(<< read("ABSTRACTCS"), read("HARTINFO"), write("DMCONTROL", z) >>, Spot("init", d), Spot("out", d))
  <2>1. << read("ABSTRACTCS"), read("HARTINFO"), write("DMCONTROL", z) >>
          = << read("ABSTRACTCS"), read("HARTINFO") >> \o << write("DMCONTROL", z) >>
    OBVIOUS
  <2> QED BY <1>2, <1>3, <2>1, LegalCat
<1>5. Legal(enumerate_harts, Spot("out", d), Spot("out", d))
  <2>1. Between(select_hart(0), d, d) /\ Between(select_hart(1), d, d) /\ Between(<< read("DMSTATUS") >>, d, d)
    BY LookOutside
  <2>2. Between(enumerate_harts, d, d)
    BY <2>1, BetweenCat DEF enumerate_harts
  <2> QED BY <2>2 DEF Between
<1>6. Legal(halt, Spot("out", d), Spot("in", d))
  BY <1>0, HaltRoute
<1>7. PICK e \in States : /\ e.regs = d.regs /\ e.mem = d.mem /\ e.got = d.got /\ e.dpc = d.dpc
                          /\ Legal(get_xlen, Spot("in", d), Spot("in", e))
  BY <1>0, XlenRoute
<1>8. Legal(resume_hart, Spot("in", e), Spot("out", e))
  BY <1>0, <1>7, ResumeRoute
<1>9. Legal(producer_thread, Spot("init", d), Spot("out", e))
  <2>1. producer_thread = << read("ABSTRACTCS"), read("HARTINFO"), write("DMCONTROL", z) >>
                          \o enumerate_harts \o halt \o get_xlen \o resume_hart
    BY <1>1 DEF producer_thread
  <2>2. Legal(<< read("ABSTRACTCS"), read("HARTINFO"), write("DMCONTROL", z) >> \o enumerate_harts,
              Spot("init", d), Spot("out", d))
    BY <1>4, <1>5, LegalCat
  <2>3. Legal(<< read("ABSTRACTCS"), read("HARTINFO"), write("DMCONTROL", z) >> \o enumerate_harts \o halt,
              Spot("init", d), Spot("in", d))
    BY <1>6, <2>2, LegalCat
  <2>4. Legal(<< read("ABSTRACTCS"), read("HARTINFO"), write("DMCONTROL", z) >> \o enumerate_harts \o halt
              \o get_xlen, Spot("init", d), Spot("in", e))
    BY <1>7, <2>3, LegalCat
  <2>5. Legal(<< read("ABSTRACTCS"), read("HARTINFO"), write("DMCONTROL", z) >> \o enumerate_harts \o halt
              \o get_xlen \o resume_hart, Spot("init", d), Spot("out", e))
    BY <1>8, <2>4, LegalCat
  <2> QED BY <2>1, <2>5
<1> QED BY <1>0, <1>7, <1>9 DEF Outside, Untouched

----------------------------------------------------------------------------
\* The invariant: the requests left lead from where the module, the hart and
\* the host are, with the data there, to the end of the routine, where it has
\* done what was asked of it.
Promised(z) ==
  /\ z \in Spots /\ z.at = "out" /\ z.d.mem = shadow
  /\ op.k = "reset" => z.d.dpc = EntryPoint
  /\ op.k = "read" => ReadUpTo(z.d, op.addr, shadow, op.len)
Waiting(x, z) ==
  x \in Spots /\ Ctl(x.at) /\ Knows(x.at) /\ DataAt(x) /\ Legal(todo, x, z) /\ Promised(z)
Answering(x, y, z) ==
  /\ x \in Spots /\ y \in Spots /\ todo # <<>> /\ Step(x, Head(todo), y)
  /\ Legal(todo, x, z) /\ Legal(Tail(todo), y, z) /\ Promised(z)
  /\ Sent(x.at, Head(todo), y.at, Head(resp_queue)) /\ Sends(x, Head(todo), y, Head(resp_queue))
OnTheWay == IF resp_queue = <<>> THEN \E x, z : Waiting(x, z) ELSE \E x, y, z : Answering(x, y, z)

LinkInv == Handshake /\ Static /\ OnTheWay

LEMMA InitData == Init => Outside(Data) /\ Asleep(Data) /\ Regular
<1> SUFFICES ASSUME Init PROVE Outside(Data) /\ Asleep(Data) /\ Regular
  OBVIOUS
<1>1. regs = ProgramRegs /\ ProgramRegs \in [Regs -> DoubleWords] /\ hpc = "user"
  BY ProgramRegsAre DEF Init, HartInit
<1>2. Held = ProgramRegs /\ Regular
  BY <1>1 DEF Held, InScratch, Regular
<1>3. Zero \in DoubleWords
  BY DEF Zero, DoubleWords
<1>4. dpc \in DoubleWords /\ mem \in [Addrs -> DoubleWords]
  BY <1>3 DEF Init, HartInit
<1>5. data_q = DmReset.data /\ progbuf_q = DmReset.progbuf /\ command_q = DmReset.command
  BY DEF Init, DmInit
<1>6. /\ data_q \in DoubleWords /\ progbuf_q \in [1 .. ProgBufSize -> Insns]
      /\ command_q \in [size : 0 .. 4, transfer : BOOLEAN, write : BOOLEAN, postexec : BOOLEAN,
                        reg : {"s0", "s1", "x0"}]
  BY <1>5 DEF DmReset, AccessRegister, DoubleWords, Insns
<1>7. [x \in Vars |-> host[x]] \in [Vars -> DoubleWords] /\ host.got \in Seq(DoubleWords)
  <2>1. host = [s0 |-> Zero, s1 |-> Zero, data |-> Zero, cmderr |-> "None", got |-> <<>>]
    BY DEF Init
  <2>2. \A x \in Vars : host[x] = Zero
    BY <2>1 DEF Vars
  <2>3. host.got = <<>>
    BY <2>1
  <2> QED BY <1>3, <2>2, <2>3
<1>8. Data \in States
  BY <1>1, <1>2, <1>4, <1>6, <1>7 DEF Data, States
<1> QED BY <1>2, <1>5, <1>8 DEF Outside, Asleep, Data

LEMMA LinkInit == Init => LinkInv
<1> SUFFICES ASSUME Init PROVE LinkInv
  OBVIOUS
<1>1. Handshake
  BY HandshakeInit
<1>2. Static
  <2>1. \A i \in 1 .. ProgBufSize : Fine(i, progbuf_q[i])
    BY DEF Init, DmInit, DmReset, Fine, Opcodes
  <2>2. Command(command_q)
    BY DEF Init, DmInit, DmReset, AccessRegister, Command
  <2>3. DOMAIN mem = Addrs /\ DOMAIN host = {"s0", "s1", "data", "cmderr", "got"}
    BY DEF Init, HartInit
  <2> QED BY <2>1, <2>2, <2>3 DEF Static
<1>3. Ctl("init") /\ Knows("init")
  BY DEF Init, DmInit, DmReset, HartInit, Ctl, Knows, Runs, Clean
<1>4. PICK d : d = Data
  OBVIOUS
<1>5. Outside(d) /\ Asleep(d) /\ Regular
  BY <1>4, InitData
<1>6. PICK e : Outside(e) /\ Untouched(d, e) /\ Legal(producer_thread, Spot("init", d), Spot("out", e))
  BY <1>5, ProducerRoute
<1>7. /\ Spot("init", d) \in Spots /\ Spot("init", d).at = "init" /\ Spot("init", d).d = d
      /\ Spot("out", e) \in Spots /\ Spot("out", e).at = "out" /\ Spot("out", e).d = e
  BY <1>5, <1>6, SpotIs DEF Outside, Free
<1>8. DataAt(Spot("init", d))
  BY <1>4, <1>5, <1>7 DEF DataAt, Working
<1>9. Promised(Spot("out", e))
  <2>1. e.mem = shadow /\ op.k = "start"
    BY <1>4, <1>6 DEF Untouched, Data, Init
  <2> QED BY <1>7, <2>1 DEF Promised
<1>10. Waiting(Spot("init", d), Spot("out", e))
  BY <1>3, <1>6, <1>7, <1>8, <1>9 DEF Waiting, Init
<1> QED BY <1>1, <1>2, <1>10 DEF LinkInv, OnTheWay, Init

\* The requests put nothing wrong in the program buffer or the command register.
Proper(req) ==
  /\ \A i \in 1 .. ProgBufSize : Writes(req, PROGBUF[i]) => Fine(i, req.data)
  /\ Writes(req, "COMMAND") => Command(req.data)

LEMMA EdgeProper ==
  ASSUME NEW a, NEW t, NEW b, Edge(a, t, b), Micro = t
  PROVE  Proper(req_bits)
<1>1. CASE Looks(t)
  BY <1>1 DEF Looks, req_bits, Proper, Writes
<1>2. CASE Fills(t)
  BY <1>2, BufsDiffer DEF Fills, req_bits, Proper, Writes, DATA
<1>3. CASE Programs(t)
  <2>1. PICK j \in 1 .. ProgBufSize : t.k = "write" /\ t.addr = PROGBUF[j] /\ Fine(j, t.val)
    BY <1>3 DEF Programs
  <2>2. req_bits.addr = PROGBUF[j] /\ req_bits.data = t.val
    BY <2>1 DEF req_bits
  <2> QED BY <2>1, <2>2, BufsDiffer DEF Proper, Writes
<1>4. CASE \E addr \in {DATA[1], DATA[2], "DMCONTROL", "AUTO"} : Puts(t, addr)
  <2>1. PICK addr \in {DATA[1], DATA[2], "DMCONTROL", "AUTO"} : Puts(t, addr)
    BY <1>4
  <2>2. addr \in {"DATA0", "DATA1", "DMCONTROL", "AUTO"} /\ req_bits.addr = addr
    BY <2>1, PutBits DEF DATA
  <2> QED BY <2>2, BufsDiffer DEF Proper, Writes
<1>5. CASE Puts(t, "COMMAND") /\ Starts(a, t.val, b)
  <2>1. req_bits.addr = "COMMAND" /\ req_bits.data = t.val
    BY <1>5, PutBits
  <2> QED BY <1>5, <2>1, BufsDiffer DEF Proper, Writes, Starts
<1>6. CASE t = die \/ Puts(t, "ABSTRACTCS")
  <2>1. req_bits.addr = "ABSTRACTCS"
    BY <1>6 DEF Puts, req_bits, die
  <2> QED BY <2>1, BufsDiffer DEF Proper, Writes
<1>7. CASE Waits(a, t, b)
  <2>1. req_bits.op = "read"
    BY <1>7 DEF Waits, NotBusy, Until, req_bits
  <2> QED BY <2>1 DEF Proper, Writes
<1> QED BY <1>1, <1>2, <1>3, <1>4, <1>5, <1>6, <1>7 DEF Edge

LEMMA StaticStep ==
  ASSUME Static, NEW req, NEW acc, Proper(req), DmCycle(req, acc), DOMAIN mem' = Addrs,
         DOMAIN host' = {"s0", "s1", "data", "cmderr", "got"}
  PROVE  Static'
<1>1. \A i \in 1 .. ProgBufSize : Fine(i, progbuf_q'[i])
  <2> TAKE i \in 1 .. ProgBufSize
  <2>1. Fine(i, progbuf_q[i]) /\ Fine(i, <<"illegal">>)
    BY DEF Static, Fine, Opcodes
  <2>2. progbuf_q'[i] \in {progbuf_q[i], <<"illegal">>} \/ (Writes(req, PROGBUF[i]) /\ progbuf_q'[i] = req.data)
    BY DEF DmCycle, DmReset
  <2> QED BY <2>1, <2>2 DEF Proper
<1>2. Command(command_q')
  <2>1. Command(command_q) /\ Command(DmReset.command)
    BY DEF Static, DmReset, AccessRegister, Command
  <2>2. command_q' \in {command_q, DmReset.command} \/ (Writes(req, "COMMAND") /\ command_q' = req.data)
    BY DEF DmCycle
  <2> QED BY <2>1, <2>2 DEF Proper
<1> QED BY <1>1, <1>2 DEF Static

\* No request at all.
LEMMA NoRequestIs == Harmless(NoRequest) /\ Proper(NoRequest)
BY DEF NoRequest, Harmless, Proper, Writes, Touches

LEMMA QuietClean ==
  ASSUME NEW req, NEW acc, DmCycle(req, acc), Harmless(req) PROVE StartsClean
<1>1. ~cmd_valid(req)
  BY DEF Harmless, cmd_valid
<1> QED BY <1>1 DEF DmCycle, NextState, StartsClean

\* Every routine that the host begins does what is asked of it.
Delivers(o, m, d) ==
  \E e : /\ Between(Script(o), d, e) /\ e.mem = m
         /\ o.k = "reset" => e.dpc = EntryPoint
         /\ o.k = "read" => ReadUpTo(e, o.addr, m, o.len)
Wiping(m, a, n) == [b \in Addrs |-> IF b \in Covered(a, n) THEN Zero ELSE m[b]]

LEMMA ScriptRoutes ==
  ASSUME NEW d, Outside(d), d.got = <<>>
  PROVE  /\ Delivers([k |-> "idle"], d.mem, d) /\ Delivers([k |-> "reset"], d.mem, d)
         /\ \A a \in Addrs : \A n \in 1 .. MaxLen :
              /\ Delivers([k |-> "read", addr |-> a, len |-> n], d.mem, d)
              /\ Delivers([k |-> "clear", addr |-> a, len |-> n], Wiping(d.mem, a, n), d)
         /\ \A a \in Addrs : \A src \in Chunks :
              Delivers([k |-> "write", addr |-> a, src |-> src], PutWords(d.mem, a, src, Len(src)), d)
<1>1. Delivers([k |-> "idle"], d.mem, d)
  <2>1. Between(<< nop >>, d, d)
    BY LookOutside
  <2>2. Script([k |-> "idle"]) = << nop >>
    BY DEF Script
  <2> QED BY <2>1, <2>2 DEF Delivers
<1>2. Delivers([k |-> "reset"], d.mem, d)
  <2>1. PICK e : Between(reset, d, e) /\ Untouched(d, e) /\ e.dpc = EntryPoint
    BY ResetRoute
  <2>2. Script([k |-> "reset"]) = reset
    BY DEF Script
  <2> QED BY <2>1, <2>2 DEF Delivers, Untouched
<1>3. ASSUME NEW a \in Addrs, NEW n \in 1 .. MaxLen
      PROVE  Delivers([k |-> "read", addr |-> a, len |-> n], d.mem, d)
  <2>1. PICK e : Between(read_chunk(a, n), d, e) /\ e.mem = d.mem /\ ReadUpTo(e, a, d.mem, n)
    BY ReadRoute
  <2>2. Script([k |-> "read", addr |-> a, len |-> n]) = read_chunk(a, n)
    BY DEF Script
  <2> QED BY <2>1, <2>2 DEF Delivers
<1>4. ASSUME NEW a \in Addrs, NEW n \in 1 .. MaxLen
      PROVE  Delivers([k |-> "clear", addr |-> a, len |-> n], Wiping(d.mem, a, n), d)
  <2>1. PICK e : /\ Between(clear_chunk(a, n), d, e)
                 /\ e.mem = [b \in Addrs |-> IF b \in Covered(a, n) THEN Zero ELSE d.mem[b]]
    BY ClearRoute
  <2>2. Script([k |-> "clear", addr |-> a, len |-> n]) = clear_chunk(a, n)
    BY DEF Script
  <2>3. e.mem = Wiping(d.mem, a, n)
    BY <2>1 DEF Wiping
  <2> QED BY <2>1, <2>2, <2>3 DEF Delivers
<1>5. ASSUME NEW a \in Addrs, NEW src \in Chunks
      PROVE  Delivers([k |-> "write", addr |-> a, src |-> src], PutWords(d.mem, a, src, Len(src)), d)
  <2>1. PICK e : Between(write_chunk(a, src), d, e) /\ e.mem = PutWords(d.mem, a, src, Len(src))
    BY WriteRoute
  <2>2. Script([k |-> "write", addr |-> a, src |-> src]) = write_chunk(a, src)
    BY DEF Script
  <2> QED BY <2>1, <2>2 DEF Delivers
<1> QED BY <1>1, <1>2, <1>3, <1>4, <1>5

----------------------------------------------------------------------------
\* The cycles.
LEMMA CycleIs ==
  ASSUME Static, NEW stalled \in BOOLEAN, Cycle(stalled)
  PROVE  /\ todo # <<>> /\ tick /\ Hart(stalled) /\ Moves(Acc(stalled)) /\ DOMAIN mem' = Addrs
         /\ DmCycle(IF Accepted THEN req_bits ELSE NoRequest, Acc(stalled))
         /\ op' = op /\ shadow' = shadow
<1>1. Hart(stalled) /\ todo # <<>> /\ tick /\ op' = op /\ shadow' = shadow
  BY DEF Cycle, Hart, OpDone
<1>2. DmCycle(IF Accepted THEN req_bits ELSE NoRequest, Acc(stalled))
  BY DEF Cycle, Acc
<1> QED BY <1>1, <1>2, HartTurn

LEMMA PromiseKept ==
  ASSUME op' = op, shadow' = shadow PROVE \A z : Promised(z) => Promised(z)'
BY DEF Promised

\* A cycle without a request.
LEMMA QuietCycle ==
  ASSUME NEW l \in Labels \cup {"leaving"}, Ctl(l), NEW acc, DmCycle(NoRequest, acc), Moves(acc)
  PROVE  /\ Ctl(After(l))' /\ StartsClean
         /\ l \in {"err", "autoerr"} => cmderr_q' = cmderr_q
BY NoRequestIs, QuietKeeps, QuietClean

\* The edges by the request they are for.
LEMMA EdgeKinds ==
  ASSUME NEW a, NEW t, NEW b, Edge(a, t, b)
  PROVE  /\ t.k = "until" => a \in {"halting", "resuming"} /\ b \in {"halted", "resumed"}
         /\ t.k = "done" => a \in {"busy", "sure", "autobusy"} /\ b \in {"err", "in", "autoerr"}
         /\ t.k = "die" => Clears(a, b)
         /\ b \in {"err", "autoerr"} => t.k = "done" \/ (a = b /\ Looks(t))
         /\ a = "resumed" => b = "out" /\ t.k = "write"
<1>1. CASE a = b /\ a \in {"init", "out", "in", "err"} /\ Looks(t)
  BY <1>1 DEF Looks
<1>2. CASE a = "in" /\ b = "in" /\ (Fills(t) \/ Programs(t))
  BY <1>2 DEF Fills, Programs
<1>3. CASE a = "auto" /\ b \in {"auto", "autobusy"} /\ \E addr : Puts(t, addr)
  BY <1>3 DEF Puts
<1>4. CASE Puts(t, "DMCONTROL") /\ Steers(a, t.val, b)
  BY <1>4 DEF Puts, Steers
<1>5. CASE Puts(t, "COMMAND") /\ Starts(a, t.val, b)
  BY <1>5 DEF Puts, Starts
<1>6. CASE Puts(t, "AUTO") /\ Switches(a, t.val, b)
  BY <1>6 DEF Puts, Switches
<1>7. CASE (t = die \/ Puts(t, "ABSTRACTCS")) /\ Clears(a, b)
  BY <1>7 DEF Puts, die, Clears
<1>8. CASE Waits(a, t, b)
  BY <1>8 DEF Waits, NotBusy, Until
<1> QED BY <1>1, <1>2, <1>3, <1>4, <1>5, <1>6, <1>7, <1>8 DEF Edge

\* What the host keeps of an answer.
LEMMA AnswerKept ==
  ASSUME Static, NEW r, Answered(r)
  PROVE  /\ DOMAIN host' = {"s0", "s1", "data", "cmderr", "got"}
         /\ Micro.k = "done" => host'.cmderr = r.cmderr
         /\ Micro.k # "done" /\ Looks(Micro) => host'.cmderr = host.cmderr
<1>1. DOMAIN host = {"s0", "s1", "data", "cmderr", "got"}
  BY DEF Static
<1>2. CASE Micro.k = "done"
  <2>1. host' = [host EXCEPT !.cmderr = r.cmderr]
    BY <1>2 DEF Answered
  <2> QED BY <1>1, <1>2, <2>1
<1>3. CASE Micro.k # "done" /\ "to" \in DOMAIN Micro
  <2>1. host' = Store(Micro.to, Micro.i, r)
    BY <1>3 DEF Answered
  <2>2. CASE Micro.to # "got"
    <3>1. \A y : host' = [host EXCEPT ![Micro.to] = y] =>
            DOMAIN host' = DOMAIN host /\ (Micro.to # "cmderr" => host'.cmderr = host.cmderr)
      BY <1>1
    <3>2. \E y : host' = [host EXCEPT ![Micro.to] = y]
      BY <2>1, <2>2 DEF Store
    <3> QED BY <1>1, <1>3, <3>1, <3>2 DEF Looks
  <2>3. CASE Micro.to = "got" /\ Micro.i = 1
    <3>1. \E y : host' = [host EXCEPT !.data = y]
      BY <2>1, <2>3 DEF Store
    <3> QED BY <1>1, <1>3, <3>1
  <2>4. CASE Micro.to = "got" /\ Micro.i # 1
    <3>1. \E y : host' = [host EXCEPT !.got = y]
      BY <2>1, <2>4 DEF Store
    <3> QED BY <1>1, <1>3, <3>1
  <2> QED BY <2>2, <2>3, <2>4
<1>4. CASE Micro.k # "done" /\ "to" \notin DOMAIN Micro
  <2>1. host' = host
    BY <1>4 DEF Answered
  <2> QED BY <1>1, <1>4, <2>1
<1> QED BY <1>2, <1>3, <1>4

\* A cycle in which the host takes an answer.
LEMMA AnswerTaken ==
  ASSUME Static, NEW x, NEW y, NEW z, Answering(x, y, z), Answered(Head(resp_queue)),
         NEW stalled \in BOOLEAN, Hart(stalled), Moves(Acc(stalled)), DmCycle(NoRequest, Acc(stalled)),
         op' = op, shadow' = shadow
  PROVE  (\E c : Waiting(c, z)') /\ StartsClean
<1>0. PICK t, r, a, b : t = Head(todo) /\ r = Head(resp_queue) /\ a = x.at /\ b = y.at
  OBVIOUS
<1>1. /\ a \in Labels /\ b \in Labels /\ todo # <<>> /\ Edge(a, t, b) /\ Micro = t
      /\ x \in Spots /\ y \in Spots /\ Step(x, t, y)
      /\ Legal(todo, x, z) /\ Legal(Tail(todo), y, z) /\ Sent(a, t, b, r)
  <2>1. x.at \in Labels /\ y.at \in Labels
    BY DEF Answering, Spots
  <2> QED BY <1>0, <2>1 DEF Answering, Micro, Step
<1>2. \A l \in Labels : After(l) = l
  BY DEF After, Labels
<1>3. \A l \in Labels : Ctl(l) => Ctl(l)' /\ StartsClean /\ (l \in {"err", "autoerr"} => cmderr_q' = cmderr_q)
  BY <1>2, QuietCycle
<1>4. \/ Again(r) /\ todo' = todo
      \/ ~Again(r) /\ todo' = Tail(todo)
      \/ /\ ~Again(r) /\ todo' = Tail(Tail(todo)) /\ Len(todo) > 1
         /\ todo[2].k = "die" /\ host'.cmderr = "None"
  BY <1>0 DEF Answered
<1>5. (Again(r) => DataAt(x)') /\ (~Again(r) => DataAt(y)')
  <2>1. Gets(x, t, y, r, stalled)
    BY <1>0, <1>1 DEF Gets, Answering
  <2> QED BY <2>1, StepGets
<1>6. Promised(z)'
  BY PromiseKept DEF Answering
<1>7. CASE Again(r) /\ todo' = todo
  <2>1. t.k \in {"until", "done"}
    BY <1>1, <1>7 DEF Again
  <2>2. Ctl(a) /\ a \notin {"err", "autoerr"}
    BY <1>1, <2>1, EdgeKinds DEF Sent
  <2>3. Ctl(a)' /\ Knows(a)' /\ StartsClean
    BY <1>1, <1>3, <2>2 DEF Knows
  <2>4. Waiting(x, z)'
    BY <1>0, <1>1, <1>5, <1>6, <1>7, <2>3 DEF Waiting
  <2> QED BY <2>3, <2>4
<1>8. CASE ~Again(r)
  <2>1. Ctl(b)' /\ Knows(b)' /\ StartsClean
    <3>1. CASE t.k = "until"
      <4>1. r[t.field]
        BY <1>1, <1>8, <3>1 DEF Again
      <4>2. Ctl(b) /\ b \notin {"err", "autoerr"}
        BY <1>1, <3>1, <4>1, EdgeKinds DEF Sent
      <4> QED BY <1>1, <1>3, <4>2 DEF Knows
    <3>2. CASE t.k = "done"
      <4>1. ~r.busy
        BY <1>1, <1>8, <3>2 DEF Again
      <4>2. Ctl(b) /\ r.cmderr = cmderr_q
        BY <1>1, <3>2, <4>1 DEF Sent
      <4>3. host'.cmderr = r.cmderr
        BY <1>0, <1>1, <3>2, AnswerKept
      <4> QED BY <1>1, <1>3, <4>2, <4>3 DEF Knows
    <3>3. CASE t.k \notin {"until", "done"}
      <4>1. CASE a = "resumed"
        <5>1. Ctl("leaving") /\ b = "out"
          BY <1>1, <3>3, <4>1, EdgeKinds DEF Sent
        <5>2. Ctl("out")' /\ StartsClean
          BY <5>1, QuietCycle DEF After
        <5> QED BY <5>1, <5>2 DEF Knows
      <4>2. CASE a # "resumed"
        <5>1. Ctl(b) /\ Knows(b)
          BY <1>1, <3>3, <4>2 DEF Sent
        <5>2. b \in {"err", "autoerr"} => host'.cmderr = host.cmderr
          BY <1>0, <1>1, <3>3, EdgeKinds, AnswerKept
        <5> QED BY <1>1, <1>3, <5>1, <5>2 DEF Knows
      <4> QED BY <4>1, <4>2
    <3> QED BY <3>1, <3>2, <3>3
  <2>2. CASE todo' = Tail(todo)
    <3>1. Waiting(y, z)'
      BY <1>0, <1>1, <1>5, <1>6, <1>8, <2>1, <2>2 DEF Waiting
    <3> QED BY <2>1, <3>1
  <2>3. CASE /\ todo' = Tail(Tail(todo)) /\ Len(todo) > 1
             /\ todo[2].k = "die" /\ host'.cmderr = "None"
    <3>1. PICK S : todo \in Seq(S)
      BY <1>1, LegalTail
    <3>2. Tail(todo) # <<>> /\ Head(Tail(todo)) = todo[2]
      <4>1. Len(todo) \in Nat /\ Tail(todo) \in Seq(S) /\ Len(Tail(todo)) = Len(todo) - 1
        BY <1>1, <3>1
      <4>2. Len(Tail(todo)) >= 1 /\ Tail(todo)[1] = todo[2]
        BY <2>3, <3>1, <4>1
      <4>3. \A u \in Seq(S) : Len(u) >= 1 => u # <<>> /\ Head(u) = u[1]
        OBVIOUS
      <4> QED BY <4>1, <4>2, <4>3
    <3>3. PICK w : w \in Spots /\ Step(y, todo[2], w) /\ Legal(Tail(Tail(todo)), w, z)
      BY <1>1, <3>2, LegalTail
    <3>4. w.d = y.d /\ Clears(b, w.at) /\ y.at \notin Working /\ w.at \notin Working
      BY <1>0, <2>3, <3>3, SkipStep
    <3>5. PICK c : c = w.at
      OBVIOUS
    <3>6. Ctl(c)'
      <4>1. CASE b = "in" /\ c = "in"
        BY <2>1, <4>1
      <4>2. CASE b = "err" /\ c = "in"
        BY <2>1, <2>3, <4>2 DEF Ctl, Knows, Clean
      <4>3. CASE b = "autoerr" /\ c = "auto"
        BY <2>1, <2>3, <4>3 DEF Ctl, Knows, Clean
      <4> QED BY <3>4, <3>5, <4>1, <4>2, <4>3 DEF Clears
    <3>7. c \notin {"err", "autoerr"}
      BY <3>4, <3>5 DEF Clears
    <3>8. DataAt(w)'
      BY <1>5, <1>8, <3>4 DEF DataAt
    <3>9. Waiting(w, z)'
      BY <1>6, <2>3, <3>3, <3>5, <3>6, <3>7, <3>8 DEF Waiting, Knows
    <3> QED BY <2>1, <3>9
  <2> QED BY <1>4, <1>8, <2>2, <2>3
<1> QED BY <1>4, <1>7, <1>8

\* A cycle in which the module takes a request.
LEMMA RequestTaken ==
  ASSUME NEW x, NEW z, Waiting(x, z), todo # <<>>, NEW stalled \in BOOLEAN, Hart(stalled),
         Moves(Acc(stalled)), DmCycle(req_bits, Acc(stalled)),
         UNCHANGED <<todo, host, op, shadow>>, resp_queue' = << Response >>
  PROVE  (\E y : Answering(x, y, z)') /\ StartsClean /\ Proper(req_bits)
<1>1. PICK t, r, a : t = Head(todo) /\ r = Response /\ a = x.at
  OBVIOUS
<1>2. PICK y : x \in Spots /\ y \in Spots /\ Step(x, t, y) /\ Legal(Tail(todo), y, z)
  BY <1>1, LegalTail DEF Waiting
<1>3. PICK b : b = y.at
  OBVIOUS
<1>4. a \in Labels /\ b \in Labels /\ Edge(a, t, b)
  BY <1>1, <1>2, <1>3 DEF Spots, Step
<1>5. PICK acc : acc = Acc(stalled)
  OBVIOUS
<1>6. Taken(a, t, b, r, acc)
  BY <1>1, <1>4, <1>5 DEF Taken, Waiting, Micro
<1>7. Sent(a, t, b, r)' /\ StartsClean
  BY <1>6, EdgeTaken DEF Arrives
<1>8. Sends(x, t, y, r)'
  <2>1. Takes(x, t, y, r, stalled)
    BY <1>1, <1>2 DEF Takes, Waiting, Micro
  <2> QED BY <2>1, StepTaken
<1>9. Proper(req_bits)
  BY <1>1, <1>4, EdgeProper DEF Micro
<1>10. Head(resp_queue)' = r /\ Head(todo)' = t
  BY <1>1
<1>11. Promised(z)'
  BY PromiseKept DEF Waiting
<1>12. Answering(x, y, z)'
  BY <1>1, <1>2, <1>3, <1>7, <1>8, <1>10, <1>11 DEF Answering, Waiting
<1> QED BY <1>7, <1>9, <1>12

\* A cycle in which nothing passes.
LEMMA NothingPasses ==
  ASSUME NEW x, NEW z, Waiting(x, z), NEW stalled \in BOOLEAN, Hart(stalled),
         Moves(Acc(stalled)), DmCycle(NoRequest, Acc(stalled)), UNCHANGED <<todo, host, op, shadow>>
  PROVE  Waiting(x, z)' /\ StartsClean
<1>1. PICK a : a = x.at
  OBVIOUS
<1>2. a \in Labels /\ After(a) = a /\ Ctl(a) /\ Knows(a)
  BY <1>1 DEF Waiting, After, Labels, Spots
<1>3. Ctl(a)' /\ StartsClean /\ (a \in {"err", "autoerr"} => cmderr_q' = cmderr_q)
  <2>1. PICK acc : acc = Acc(stalled)
    OBVIOUS
  <2> QED BY <1>2, <2>1, QuietCycle
<1>4. Knows(a)'
  BY <1>2, <1>3 DEF Knows
<1>5. DataAt(x)'
  BY LookingIs, HostSame, DataStays DEF Waiting
<1>6. Promised(z)'
  BY PromiseKept DEF Waiting
<1> QED BY <1>1, <1>3, <1>4, <1>5, <1>6 DEF Waiting

LEMMA CycleStep ==
  ASSUME LinkInv, NEW stalled \in BOOLEAN, Cycle(stalled)
  PROVE  Static' /\ OnTheWay' /\ StartsClean
<1>1. Handshake /\ Static /\ OnTheWay
  BY DEF LinkInv
<1>2. /\ todo # <<>> /\ tick /\ DOMAIN mem' = Addrs /\ Hart(stalled)
      /\ DmCycle(IF Accepted THEN req_bits ELSE NoRequest, Acc(stalled)) /\ Moves(Acc(stalled))
      /\ op' = op /\ shadow' = shadow
  BY <1>1, CycleIs
<1>3. PICK acc : acc = Acc(stalled)
  OBVIOUS
<1>4. CASE resp_queue # <<>>
  <2>1. ~Accepted /\ resp_queue' = <<>>
    BY <1>1, <1>2, <1>4, TickTakes DEF Handshake, Accepted
  <2>2. Answered(Head(resp_queue))
    BY <1>2, <1>4 DEF tick
  <2>3. DmCycle(NoRequest, Acc(stalled))
    BY <1>2, <2>1
  <2>4. PICK x, y, z : Answering(x, y, z)
    BY <1>1, <1>4 DEF OnTheWay
  <2>5. (\E c : Waiting(c, z)') /\ StartsClean
    BY <1>1, <1>2, <2>2, <2>3, <2>4, AnswerTaken
  <2>6. DOMAIN host' = {"s0", "s1", "data", "cmderr", "got"}
    BY <1>1, <2>2, AnswerKept
  <2>7. Static'
    BY <1>1, <1>2, <1>3, <2>3, <2>6, NoRequestIs, StaticStep
  <2> QED BY <2>1, <2>5, <2>7 DEF OnTheWay
<1>5. CASE resp_queue = <<>> /\ Accepted
  <2>1. resp_queue' = << Response >> /\ UNCHANGED <<todo, host>>
    BY <1>1, <1>2, <1>5, TickWaits DEF tick
  <2>2. DmCycle(req_bits, Acc(stalled))
    BY <1>2, <1>5
  <2>3. PICK x, z : Waiting(x, z)
    BY <1>1, <1>5 DEF OnTheWay
  <2>4. (\E y : Answering(x, y, z)') /\ StartsClean /\ Proper(req_bits)
    BY <1>2, <2>1, <2>2, <2>3, RequestTaken
  <2>5. Static'
    BY <1>1, <1>2, <1>3, <2>1, <2>2, <2>4, StaticStep DEF Static
  <2>6. resp_queue' # <<>>
    BY <2>1
  <2> QED BY <2>4, <2>5, <2>6 DEF OnTheWay
<1>6. CASE resp_queue = <<>> /\ ~Accepted
  <2>1. resp_queue' = <<>> /\ UNCHANGED <<todo, host>>
    BY <1>1, <1>2, <1>6, TickWaits DEF tick
  <2>2. DmCycle(NoRequest, Acc(stalled))
    BY <1>2, <1>6
  <2>3. PICK x, z : Waiting(x, z)
    BY <1>1, <1>6 DEF OnTheWay
  <2>4. Waiting(x, z)' /\ StartsClean
    BY <1>2, <2>1, <2>2, <2>3, NothingPasses
  <2>5. Static'
    BY <1>1, <1>2, <1>3, <2>1, <2>2, NoRequestIs, StaticStep DEF Static
  <2> QED BY <2>1, <2>4, <2>5 DEF OnTheWay
<1> QED BY <1>4, <1>5, <1>6

\* The host begins its next routine where the last one ends.
LEMMA NextOps ==
  ASSUME HostNext, shadow = mem, NEW d, Outside(d), d.got = <<>>, d.mem = mem
  PROVE  \E o, m : NextOp(o, m) /\ Delivers(o, m, d)
<1>1. CASE NextOp([k |-> "idle"], shadow) \/ NextOp([k |-> "reset"], shadow)
  <2>1. shadow = d.mem
    OBVIOUS
  <2> QED BY <1>1, <2>1, ScriptRoutes
<1>2. CASE \E a \in Addrs, n \in 1 .. MaxLen :
             NextOp([k |-> "read", addr |-> a, len |-> n], shadow) \/ Clear(a, n)
  <2>1. PICK a \in Addrs, n \in 1 .. MaxLen :
          NextOp([k |-> "read", addr |-> a, len |-> n], shadow) \/ Clear(a, n)
    BY <1>2
  <2>2. CASE NextOp([k |-> "read", addr |-> a, len |-> n], shadow)
    <3>1. shadow = d.mem
      OBVIOUS
    <3> QED BY <2>2, <3>1, ScriptRoutes
  <2>3. CASE Clear(a, n)
    <3>1. Wiping(d.mem, a, n) = [b \in Addrs |-> IF b \in Covered(a, n) THEN Zero ELSE shadow[b]]
      BY DEF Wiping
    <3>2. NextOp([k |-> "clear", addr |-> a, len |-> n], Wiping(d.mem, a, n))
      BY <2>3, <3>1 DEF Clear
    <3> QED BY <3>2, ScriptRoutes
  <2> QED BY <2>1, <2>2, <2>3
<1>3. CASE \E a \in Addrs, src \in Chunks : Write(a, src)
  <2>1. PICK a \in Addrs, src \in Chunks : Write(a, src)
    BY <1>3
  <2>2. PutWords(d.mem, a, src, Len(src)) =
          [b \in Addrs |-> IF b \in Covered(a, Len(src)) THEN src[b - a + 1] ELSE shadow[b]]
    BY DEF PutWords
  <2>3. NextOp([k |-> "write", addr |-> a, src |-> src], PutWords(d.mem, a, src, Len(src)))
    BY <2>1, <2>2 DEF Write
  <2> QED BY <2>3, ScriptRoutes
<1> QED BY <1>1, <1>2, <1>3 DEF HostNext

LEMMA HostStep ==
  ASSUME LinkInv, HostNext
  PROVE  Static' /\ OnTheWay' /\ StartsClean
<1>1. Handshake /\ Static /\ OnTheWay
  BY DEF LinkInv
<1>2. todo = <<>>
  BY DEF HostNext, Write, Clear, NextOp, OpDone
<1>3. resp_queue = <<>>
  BY <1>1, <1>2 DEF OnTheWay, Answering
<1>4. PICK x, z : Waiting(x, z)
  BY <1>1, <1>3 DEF OnTheWay
<1>5. x = z
  BY <1>2, <1>4, LegalEnd DEF Waiting
<1>6. /\ x \in Spots /\ x.at = "out" /\ Ctl("out") /\ DataAt(x) /\ x.d.mem = shadow
  BY <1>4, <1>5 DEF Waiting, Promised
<1>7. PICK d : d = Local(x.d, x.d.vars, <<>>)
  OBVIOUS
<1>8. Data = x.d /\ Regular /\ x.d \in States /\ x.d.regs = ProgramRegs
  BY <1>6 DEF DataAt, Working, Spots, Free
<1>9. Outside(d) /\ d.got = <<>> /\ d.mem = mem /\ shadow = mem
  <2>1. <<>> \in Seq(DoubleWords) /\ x.d.vars \in [Vars -> DoubleWords]
    BY <1>8, Fields
  <2>2. d \in States /\ d.got = <<>>
    <3>1. PICK c, w, q : c = x.d /\ w = x.d.vars /\ q = <<>>
      OBVIOUS
    <3>2. c \in States /\ w \in [Vars -> DoubleWords] /\ q \in Seq(DoubleWords) /\ d = Local(c, w, q)
      BY <1>7, <1>8, <2>1, <3>1
    <3>3. Local(c, w, q) \in States /\ Local(c, w, q).got = q
      BY <3>2, LocalTyped
    <3> QED BY <3>1, <3>2, <3>3
  <2>3. x.d.mem = mem
    BY <1>8 DEF Data
  <2> QED BY <1>6, <1>7, <1>8, <2>2, <2>3 DEF Outside, Local
<1>10. PICK o, m : NextOp(o, m) /\ Delivers(o, m, d)
  BY <1>9, NextOps
<1>11. /\ todo' = Script(o) /\ host' = [host EXCEPT !.got = <<>>] /\ op' = o /\ shadow' = m
       /\ UNCHANGED <<dmVars, hartVars, resp_queue>>
  BY <1>10 DEF NextOp
<1>12. UNCHANGED <<dmcontrol_q, cmderr_q, command_q, progbuf_q, data_q, autoexec_q, state_q, halted_q,
                   resuming_q, hpc, regs, dscratch, dpc, mem>>
  BY <1>11 DEF dmVars, hartVars
<1>13. PICK e : /\ Between(Script(o), d, e) /\ e.mem = m
                /\ o.k = "reset" => e.dpc = EntryPoint
                /\ o.k = "read" => ReadUpTo(e, o.addr, m, o.len)
  BY <1>10 DEF Delivers
<1>14. /\ Spot("out", d) \in Spots /\ Spot("out", d).at = "out" /\ Spot("out", d).d = d
       /\ Spot("out", e) \in Spots /\ Spot("out", e).at = "out" /\ Spot("out", e).d = e
       /\ Legal(Script(o), Spot("out", d), Spot("out", e))
  BY <1>9, <1>13, SpotIs DEF Between, Outside, Free
<1>15. Promised(Spot("out", e))'
  BY <1>11, <1>13, <1>14 DEF Promised
<1>16. Data' = d /\ Regular'
  <2>1. Held' = Held /\ Regular'
    BY <1>8, <1>12 DEF Held, Regular
  <2>2. DOMAIN host = {"s0", "s1", "data", "cmderr", "got"}
    BY <1>1 DEF Static
  <2>3. [v \in Vars |-> host'[v]] = [v \in Vars |-> host[v]] /\ host'.got = <<>>
    BY <1>11, <2>2 DEF Vars
  <2> QED BY <1>7, <1>8, <1>12, <2>1, <2>3 DEF Data, Local
<1>17. DataAt(Spot("out", d))'
  BY <1>14, <1>16 DEF DataAt, Working
<1>18. Ctl("out")' /\ StartsClean
  BY <1>6, <1>12 DEF Ctl, Runs, Clean, StartsClean
<1>19. Waiting(Spot("out", d), Spot("out", e))'
  BY <1>11, <1>14, <1>15, <1>17, <1>18 DEF Waiting, Knows
<1>20. Static'
  <2>1. DOMAIN host' = DOMAIN host
    BY <1>11
  <2> QED BY <1>1, <1>12, <2>1 DEF Static
<1> QED BY <1>3, <1>11, <1>18, <1>19, <1>20 DEF OnTheWay

LEMMA DataUnchanged ==
  ASSUME UNCHANGED <<hpc, regs, dscratch, dpc, mem, data_q, progbuf_q, command_q, state_q, host>>
  PROVE  \A x : DataAt(x) => DataAt(x)'
<1>1. Data' = Data /\ (Regular => Regular') /\ LocalsKept
  BY HostSame DEF Data, Held, Regular
<1>2. \A f, e : Midway(f, e) => Midway(f, e)'
  <2> TAKE f, e
  <2> HAVE Midway(f, e)
  <2>1. ASSUME state_q = "CmdExecuting" PROVE CmdData(f, e)'
    <3>1. CmdData(f, e)
      BY <2>1 DEF Midway
    <3>2. ASSUME NEW i \in 1 .. ProgBufSize, hpc = PROGBUF[i] PROVE AtWord(i, Transferred(f), e)'
      <4>1. PICK g : g = Transferred(f)
        OBVIOUS
      <4>2. AtWord(i, g, e)
        BY <3>1, <3>2, <4>1 DEF CmdData
      <4>3. AtWord(i, g, e)'
        BY <1>1, <4>2, WordKept
      <4> QED BY <4>1, <4>3
    <3> QED BY <1>1, <3>1, <3>2 DEF CmdData
  <2> QED BY <1>1, <2>1 DEF Midway
<1> QED BY <1>1, <1>2 DEF DataAt

LEMMA LinkStep == LinkInv /\ [Next]_vars => LinkInv' /\ StartsClean
<1> SUFFICES ASSUME LinkInv, [Next]_vars PROVE LinkInv' /\ StartsClean
  OBVIOUS
<1>1. Handshake'
  BY HandshakeStep DEF LinkInv
<1>2. ASSUME NEW stalled \in BOOLEAN, Cycle(stalled) PROVE Static' /\ OnTheWay' /\ StartsClean
  BY <1>2, CycleStep
<1>3. CASE HostNext
  BY <1>1, <1>3, HostStep DEF LinkInv
<1>4. CASE UNCHANGED vars
  <2>1. UNCHANGED <<dmcontrol_q, cmderr_q, command_q, progbuf_q, data_q, autoexec_q, state_q, halted_q,
                    resuming_q>>
    BY <1>4 DEF vars, dmVars
  <2>2. UNCHANGED <<hpc, regs, dscratch, dpc, mem, host, todo, resp_queue, op, shadow>>
    BY <1>4 DEF vars, hartVars, dtmVars
  <2>3. Static' /\ StartsClean
    BY <2>1, <2>2 DEF LinkInv, Static, StartsClean
  <2>4. \A l : Ctl(l) => Ctl(l)'
    BY <2>1, <2>2 DEF Ctl, Sees, Clean, Errs, Runs, Kept, Stopping, Works, Gone, Leaves, Parked
  <2>5. \A l : Knows(l) => Knows(l)'
    BY <2>1, <2>2 DEF Knows
  <2>6. (\A x : DataAt(x) => DataAt(x)') /\ (\A z : Promised(z) => Promised(z)')
    BY <2>1, <2>2, DataUnchanged, PromiseKept
  <2>7. \A x, z : Waiting(x, z) => Waiting(x, z)'
    BY <2>2, <2>4, <2>5, <2>6 DEF Waiting
  <2>8. \A a, t, b, r : Sent(a, t, b, r) => Sent(a, t, b, r)'
    BY <2>1, <2>4, <2>5 DEF Sent
  <2>9. \A x, t, y, r : Sends(x, t, y, r) => Sends(x, t, y, r)'
    <3>1. Data' = Data /\ (Regular => Regular')
      BY <2>1, <2>2 DEF Data, Held, Regular
    <3> QED BY <2>6, <3>1 DEF Sends
  <2>10. \A x, y, z : Answering(x, y, z) => Answering(x, y, z)'
    <3> TAKE x, y, z
    <3> HAVE Answering(x, y, z)
    <3>1. PICK t, r, a, b : t = Head(todo) /\ r = Head(resp_queue) /\ a = x.at /\ b = y.at
      OBVIOUS
    <3>2. t = Head(todo)' /\ r = Head(resp_queue)'
      BY <2>2, <3>1
    <3>3. Sent(a, t, b, r)' /\ Sends(x, t, y, r)' /\ Promised(z)'
      BY <2>6, <2>8, <2>9, <3>1 DEF Answering
    <3> QED BY <2>2, <3>1, <3>2, <3>3 DEF Answering
  <2> QED BY <1>1, <2>2, <2>3, <2>7, <2>10 DEF LinkInv, OnTheWay
<1> QED BY <1>1, <1>2, <1>3, <1>4 DEF Next, LinkInv

\* What the host, the module and the hart agree on, wherever they are.
LEMMA CtlAgrees ==
  ASSUME NEW l \in Labels \cup {"leaving"}, Ctl(l)
  PROVE  /\ state_q \in {"Idle", "Go", "Resume", "CmdExecuting"}
         /\ {halted_q, resuming_q, autoexec_q} \subseteq BOOLEAN
         /\ cmderr_q \in {"None", "Exception"} /\ dmcontrol_q.hartsel \in 0 .. 1
         /\ IdleMeansParked
<1>1. CASE l \in {"init", "out"}
  <2>1. dmcontrol_q.hartsel \in 0 .. 1
    <3>1. CASE l = "init"
      BY <3>1 DEF Ctl, DMControl
    <3>2. CASE l = "out"
      <4>1. PICK sel \in 0 .. 1 : dmcontrol_q = DMControl(FALSE, FALSE, sel, TRUE)
        BY <3>2 DEF Ctl
      <4> QED BY <4>1 DEF DMControl
    <3> QED BY <1>1, <3>1, <3>2
  <2> QED BY <1>1, <2>1 DEF Ctl, Runs, Clean, IdleMeansParked
<1>2. CASE l \in (Labels \cup {"leaving"}) \ {"init", "out"}
  <2>1. \E h, r \in BOOLEAN, auto \in BOOLEAN : Sees(h, r, auto)
    BY <1>2 DEF Ctl, Labels
  <2>2. autoexec_q \in BOOLEAN /\ dmcontrol_q.hartsel \in 0 .. 1
    BY <2>1 DEF Sees, DMControl
  <2>3. cmderr_q \in {"None", "Exception"}
    BY <1>2 DEF Ctl, Labels, Clean, Errs
  <2>4. Kept \/ Stopping \/ Works(Anywhere) \/ Works(Nowhere) \/ Leaves \/ (state_q = "Idle" /\ Gone)
    BY <1>2 DEF Ctl, Labels
  <2>5. /\ state_q \in {"Idle", "Go", "Resume", "CmdExecuting"} /\ {halted_q, resuming_q} \subseteq BOOLEAN
        /\ IdleMeansParked
    BY <2>4 DEF Kept, Stopping, Works, Leaves, Gone, IdleMeansParked
  <2> QED BY <2>2, <2>3, <2>5
<1> QED BY <1>1, <1>2

\* The host, the module and the hart are at one of the places.
LEMMA SomeCtl ==
  ASSUME LinkInv
  PROVE  \E l \in Labels \cup {"leaving"} : Ctl(l)
<1>1. CASE resp_queue = <<>>
  <2>1. PICK x, z : Waiting(x, z)
    BY <1>1 DEF OnTheWay, LinkInv
  <2> QED BY <2>1 DEF Waiting, Spots
<1>2. CASE resp_queue # <<>>
  <2>1. PICK x, y, z : Answering(x, y, z)
    BY <1>2 DEF OnTheWay, LinkInv
  <2>2. x.at \in Labels /\ y.at \in Labels
    BY <2>1 DEF Answering, Spots
  <2> QED BY <2>1, <2>2 DEF Answering, Sent
<1> QED BY <1>1, <1>2

LEMMA LinkAgrees == LinkInv => LinkConsistent
<1> SUFFICES ASSUME LinkInv PROVE LinkConsistent
  OBVIOUS
<1>1. Handshake /\ Static
  BY DEF LinkInv
<1>2. PICK l \in Labels \cup {"leaving"} : Ctl(l)
  BY SomeCtl
<1>3. Len(resp_queue) <= 1
  <2>1. Len(<<>>) = 0 /\ \A r : Len(<< r >>) = 1
    OBVIOUS
  <2>2. resp_queue = <<>> \/ \E r : resp_queue = << r >>
    BY <1>1 DEF Handshake
  <2>3. Len(resp_queue) = 0 \/ Len(resp_queue) = 1
    BY <2>1, <2>2
  <2>4. \A n \in 0 .. 1 : n <= 1
    OBVIOUS
  <2>5. Len(resp_queue) \in 0 .. 1
    BY <2>3
  <2> QED BY <2>4, <2>5
<1>4. DOMAIN mem = Addrs /\ {req_wait, resp_wait} \subseteq BOOLEAN
  BY <1>1 DEF Static, Handshake
<1> QED BY <1>2, <1>3, <1>4, CtlAgrees DEF LinkConsistent, TypeOK, NoOverrun

\* Where the program runs its registers are its own.
LEMMA UserPlaces ==
  ASSUME NEW l \in Labels, Ctl(l), hpc = "user"
  PROVE  l \in Free
<1>1. "user" \notin Anywhere /\ "user" \notin Nowhere /\ ~Parked
  BY DEF Anywhere, Nowhere, Bufs, Parked
<1> QED BY <1>1 DEF Ctl, Labels, Free, Kept, Works

LEMMA FreeData ==
  ASSUME NEW x \in Spots, x.at \in Free, DataAt(x), hpc = "user"
  PROVE  regs = ProgramRegs
<1>1. Data = x.d /\ Regular /\ x.d.regs = ProgramRegs
  BY DEF DataAt, Free, Working, Spots
<1>2. Held = ProgramRegs
  BY <1>1 DEF Data
<1>3. Held = [r \in Regs |-> regs[r]]
  BY DEF Held, InScratch
<1> QED BY <1>1, <1>2, <1>3 DEF Regular

LEMMA LinkUndisturbed == LinkInv => ProgramUndisturbed
<1> SUFFICES ASSUME LinkInv, hpc = "user" PROVE regs = ProgramRegs
  BY DEF ProgramUndisturbed
<1>1. CASE resp_queue = <<>>
  <2>1. PICK x, z : Waiting(x, z)
    BY <1>1 DEF OnTheWay, LinkInv
  <2>2. x \in Spots /\ x.at \in Free /\ DataAt(x)
    BY <2>1, UserPlaces DEF Waiting, Spots
  <2> QED BY <2>2, FreeData
<1>2. CASE resp_queue # <<>>
  <2>1. PICK x, y, z : Answering(x, y, z)
    BY <1>2 DEF OnTheWay, LinkInv
  <2>2. PICK t, r : t = Head(todo) /\ r = Head(resp_queue)
    OBVIOUS
  <2>3. /\ x \in Spots /\ y \in Spots /\ x.at \in Labels /\ y.at \in Labels
        /\ Step(x, t, y) /\ Edge(x.at, t, y.at)
        /\ Sent(x.at, t, y.at, r) /\ Sends(x, t, y, r)
    BY <2>1, <2>2 DEF Answering, Spots, Step
  <2>4. CASE t.k \in {"until", "done"}
    <3>1. Ctl(x.at) /\ DataAt(x)
      BY <2>3, <2>4 DEF Sent, Sends
    <3> QED BY <2>3, <3>1, UserPlaces, FreeData
  <2>5. CASE t.k \notin {"until", "done"}
    <3>1. Ctl(IF x.at = "resumed" THEN "leaving" ELSE y.at)
      BY <2>3, <2>5 DEF Sent
    <3>2. y.at \in Free
      <4>1. CASE x.at = "resumed"
        BY <2>3, <4>1, EdgeKinds DEF Free
      <4>2. CASE x.at # "resumed"
        BY <2>3, <3>1, <4>2, UserPlaces
      <4> QED BY <4>1, <4>2
    <3>3. ~Fetches(t)
      <4>1. SUFFICES ASSUME Fetches(t) PROVE FALSE
        OBVIOUS
      <4>2. x.at \in {"in", "err"} /\ t.k = "read"
        BY <2>3, <4>1 DEF Step, Carries, Fetches, Neutral, Puts, Fills, Programs
      <4>3. y.at = x.at
        BY <2>3, <4>2 DEF Edge, Puts, Fills, Programs, Waits, NotBusy, Until, die
      <4> QED BY <3>2, <4>2, <4>3 DEF Free
    <3> QED BY <2>3, <2>5, <3>2, <3>3, FreeData DEF Sends
  <2> QED BY <2>4, <2>5
<1> QED BY <1>1, <1>2

\* When a routine is over.
LEMMA OpEnds ==
  ASSUME LinkInv, OpDone
  PROVE  \E z : Promised(z) /\ Data = z.d
<1>1. resp_queue = <<>>
  BY DEF LinkInv, OnTheWay, Answering, OpDone
<1>2. PICK x, z : Waiting(x, z)
  BY <1>1 DEF LinkInv, OnTheWay
<1>3. x = z
  BY <1>2, LegalEnd DEF Waiting, OpDone
<1>4. Promised(z) /\ DataAt(z)
  BY <1>2, <1>3 DEF Waiting
<1> QED BY <1>4 DEF DataAt, Promised, Working

LEMMA LinkReads == LinkInv => ReadsRight
<1> SUFFICES ASSUME LinkInv, op.k = "read", OpDone
             PROVE  Len(host.got) = op.len /\ \A i \in 1 .. op.len : Matches(op, i)
  BY DEF ReadsRight
<1>1. PICK z : Promised(z) /\ Data = z.d
  BY OpEnds
<1>2. host.got = z.d.got
  BY <1>1 DEF Data
<1>3. GotUpTo(host.got, op.addr, shadow, op.len)
  BY <1>1, <1>2 DEF Promised, ReadUpTo
<1> QED BY <1>3 DEF GotUpTo, Matches

LEMMA LinkWrites == LinkInv => WritesComplete
<1> SUFFICES ASSUME LinkInv, OpDone PROVE mem = shadow /\ (op.k = "reset" => dpc = EntryPoint)
  BY DEF WritesComplete
<1>1. PICK z : Promised(z) /\ Data = z.d
  BY OpEnds
<1> QED BY <1>1 DEF Promised, Data

\* dtm.cc, dm_csrs.sv, dm_mem.sv and the debug ROM agree on what the hart is
\* doing, whatever memory there is, whatever the host reads, writes and clears,
\* wherever an access faults, and however long the hart is stalled: the module
\* is never overrun with a request, no command finds the hart running, and a
\* module that is idle has the hart parked.
THEOREM LinkIsConsistent == Spec => []LinkConsistent
BY LinkInit, LinkStep, LinkAgrees, PTL DEF Spec

\* The host clears the error of a command before it starts the next one: the
\* hardware's rule in dm_csrs.sv that it must is kept by RUN_AC_OR_DIE and by
\* the autoexec loop of write_chunk, whatever faults.
THEOREM CommandsStartCleanly == Spec => CommandsStartClean
<1>1. LinkInv /\ [Next]_vars => [state_q = "Idle" /\ state_q' = "Go" => cmderr_q = "None"]_vars
  BY LinkStep DEF StartsClean
<1> QED BY <1>1, LinkInit, LinkStep, PTL DEF Spec, CommandsStartClean

\* However often the host stops the program, and whatever faulted in between,
\* the program finds in s0 and s1 what it left there: the ROM's dscratch and
\* save_reg and restore_reg of dtm.cc between them lose nothing.
THEOREM ProgramIsUndisturbed == Spec => []ProgramUndisturbed
BY LinkInit, LinkStep, LinkUndisturbed, PTL DEF Spec

\* read_chunk returns, for every word of the chunk that exists, what the host
\* last wrote there: the load behind each command is of the next word, and a
\* fault spoils no word that was read before it.
THEOREM ReadsAreRight == Spec => []ReadsRight
BY LinkInit, LinkStep, LinkReads, PTL DEF Spec

\* When write_chunk and clear_chunk return, every word of the chunk that exists
\* is in memory and nothing else has changed, the words that autoexec stores
\* included; reset returns with dpc at the entry point.
THEOREM WritesAreComplete == Spec => []WritesComplete
BY LinkInit, LinkStep, LinkWrites, PTL DEF Spec

=============================================================================
