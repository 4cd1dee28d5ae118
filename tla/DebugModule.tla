---------------------------- MODULE DebugModule ----------------------------
(***************************************************************************)
(* The debug module for one hart: the registers the debugger reads and     *)
(* writes over the DMI (dm_csrs.sv) and the state machine and memory the   *)
(* halted hart polls (dm_mem.sv).                                          *)
(*                                                                         *)
(* One step is one clock cycle, in which the debugger may have a request   *)
(* accepted and the hart may access the module's memory.  A 64-bit value   *)
(* is a pair of words <<low, high>>, as the two data registers hold it.    *)
(***************************************************************************)
EXTENDS Integers, Sequences

VARIABLES
  dmcontrol_q,     \* haltreq, resumereq, hartsel and dmactive
  cmderr_q, command_q, progbuf_q, data_q,
  autoexec_q,      \* abstractauto.autoexecdata[0]
  state_q,         \* dm_mem: Idle, Go, Resume or CmdExecuting
  halted_q, resuming_q

dmVars == <<dmcontrol_q, cmderr_q, command_q, progbuf_q, data_q, autoexec_q,
            state_q, halted_q, resuming_q>>

DataCount   == 2
ProgBufSize == 6

\* Names of the registers the debugger uses.
DATA    == <<"DATA0", "DATA1">>
PROGBUF == [i \in 1 .. ProgBufSize |->
              <<"PROGBUF0", "PROGBUF1", "PROGBUF2", "PROGBUF3", "PROGBUF4", "PROGBUF5">>[i]]

NoRequest == [op |-> "none"]

DMControl(halt, resume, sel, active) ==
  [haltreq |-> halt, resumereq |-> resume, hartsel |-> sel, dmactive |-> active]
\* AC_ACCESS_REGISTER: size is 2, 3 or 4 for 32, 64 or 128 bits.
AccessRegister(size, transfer, write, postexec, reg) ==
  [size |-> size, transfer |-> transfer, write |-> write, postexec |-> postexec, reg |-> reg]

\* What a register holds while dmactive is low.
DmReset ==
  [dmcontrol |-> DMControl(FALSE, FALSE, 0, FALSE), cmderr |-> "None",
   command |-> AccessRegister(0, FALSE, FALSE, FALSE, "x0"),
   progbuf |-> [i \in 1 .. ProgBufSize |-> <<"illegal">>], data |-> <<0, 0>>,
   autoexec |-> FALSE]

DmInit ==
  /\ dmcontrol_q = DmReset.dmcontrol /\ cmderr_q = DmReset.cmderr
  /\ command_q = DmReset.command /\ progbuf_q = DmReset.progbuf
  /\ data_q = DmReset.data /\ autoexec_q = DmReset.autoexec
  /\ state_q = "Idle" /\ halted_q = FALSE /\ resuming_q = FALSE

----------------------------------------------------------------------------
\* Outputs.  haltreq and resumereq reach the selected hart; hart 1 is not there.
cmdbusy   == state_q # "Idle"
Selected  == dmcontrol_q.hartsel = 0
haltreq   == Selected /\ dmcontrol_q.haltreq
resumereq == Selected /\ dmcontrol_q.resumereq

\* The flags the parked hart polls.
go     == state_q = "Go" /\ Selected
resume == state_q = "Resume" /\ Selected

\* What a read returns.  The status of a hart that does not exist is not
\* looked at by the debugger.
dmstatus == [allhalted |-> halted_q, allresumeack |-> resuming_q,
             anynonexistent |-> dmcontrol_q.hartsel > 0]

ReadData(addr) ==
  CASE addr = "DMCONTROL"  -> dmcontrol_q
    [] addr = "DMSTATUS"   -> dmstatus
    [] addr = "HARTINFO"   -> [nscratch |-> 2, dataaccess |-> TRUE]
    [] addr = "ABSTRACTCS" -> [busy |-> cmdbusy, cmderr |-> cmderr_q,
                               progsize |-> ProgBufSize, datacount |-> DataCount]
    [] addr = "DATA0" -> data_q[1]
    [] addr = "DATA1" -> data_q[2]

----------------------------------------------------------------------------
\* One clock cycle with the debugger's accepted request req and the hart's
\* write acc, which is NoAccess or [at |-> flag] or [at |-> "data", value |-> v].

NoAccess == [at |-> "none"]

Writes(req, addr) == req.op = "write" /\ req.addr = addr
Touches(req, addr) == req.op \in {"read", "write"} /\ req.addr = addr

\* A command is started by a write to COMMAND, or by any access to DATA0
\* under autoexec, unless one is busy.
cmd_valid(req) ==
  /\ ~cmdbusy
  /\ Writes(req, "COMMAND") \/ (autoexec_q /\ Touches(req, DATA[1]))

NextState(req, acc) ==
  CASE state_q = "Idle" ->
         IF resumereq /\ ~resuming_q /\ ~haltreq /\ halted_q THEN "Resume"
         ELSE IF cmd_valid(req) /\ halted_q THEN "Go" ELSE "Idle"
    [] state_q = "Go" -> IF acc.at = "going" THEN "CmdExecuting" ELSE "Go"
    [] state_q = "Resume" -> IF resuming_q THEN "Idle" ELSE "Resume"
    [] state_q = "CmdExecuting" -> IF acc.at = "halted" THEN "Idle" ELSE "CmdExecuting"

\* An error of the hart has precedence over what the debugger writes.
NextError(req, acc) ==
  IF acc.at = "exception" THEN "Exception"
  ELSE IF state_q = "Idle" /\ cmd_valid(req) /\ ~halted_q THEN "HaltResume"
  ELSE IF Writes(req, "ABSTRACTCS") /\ ~cmdbusy THEN "None"
  ELSE IF /\ cmdbusy /\ cmderr_q = "None"
          /\ req.op = "write" /\ req.addr \in {"ABSTRACTCS", "COMMAND", "AUTO"}
  THEN "Busy" ELSE cmderr_q

\* The resume acknowledge is lowered when resumereq is; hart_sel, which the code
\* takes from the bus, is the one hart there is.
NextResumingPulse(acc) == acc.at = "resuming"
NextResuming(acc) == acc.at = "resuming" \/ (resuming_q /\ resumereq)
NextHaltedSticky(acc) == acc.at = "halted" \/ halted_q
NextHalted(acc) ==
  IF acc.at = "halted" THEN TRUE ELSE IF acc.at = "resuming" THEN FALSE ELSE halted_q

NextData(req, acc) ==
  IF acc.at = "data" THEN acc.value
  ELSE [i \in 1 .. DataCount |->
          IF Writes(req, DATA[i]) /\ ~cmdbusy THEN req.data ELSE data_q[i]]

DmCycle(req, acc) ==
  /\ state_q' = NextState(req, acc)
  /\ halted_q' = NextHalted(acc)
  /\ resuming_q' = NextResuming(acc)
  /\ IF ~dmcontrol_q.dmactive
     THEN /\ dmcontrol_q' = [DmReset.dmcontrol EXCEPT !.dmactive =
                               IF Writes(req, "DMCONTROL") THEN req.data.dmactive ELSE FALSE]
          /\ cmderr_q' = DmReset.cmderr /\ command_q' = DmReset.command
          /\ progbuf_q' = DmReset.progbuf /\ data_q' = DmReset.data
          /\ autoexec_q' = DmReset.autoexec
     ELSE /\ dmcontrol_q' = IF Writes(req, "DMCONTROL") THEN req.data ELSE dmcontrol_q
          /\ cmderr_q' = NextError(req, acc)
          /\ command_q' = IF Writes(req, "COMMAND") /\ ~cmdbusy THEN req.data ELSE command_q
          /\ progbuf_q' = [i \in 1 .. ProgBufSize |->
               IF Writes(req, PROGBUF[i]) /\ ~cmdbusy THEN req.data ELSE progbuf_q[i]]
          /\ data_q' = NextData(req, acc)
          /\ autoexec_q' = IF Writes(req, "AUTO") /\ ~cmdbusy THEN req.data ELSE autoexec_q
============================================================================
