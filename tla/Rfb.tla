-------------------------------- MODULE Rfb --------------------------------
(***************************************************************************)
(* The remote frame buffer (rfb.cc), a device for a program that draws: in *)
(* every round of its loop the host copies a block of the frame from the   *)
(* memory of the target; when the frame is whole it sends it to a viewer,  *)
(* with whom a thread of its own shakes hands and reads commands.  The     *)
(* lock, which the host only tries, keeps frames out of the handshake.     *)
(*                                                                         *)
(* One element of a frame stands for a block of FB_ALIGN bytes.  A payload *)
(* of configure is the number of blocks, 0 for a format that is refused;   *)
(* one of set_address is twice the address, odd if it is not aligned.      *)
(***************************************************************************)
EXTENDS Htif

VARIABLES
  fb,       \* rfb_t: the frame, its two buffers, memif, the lock, and the pc of
            \* thread_main; since is the frame in memory at the last swap
  viewer    \* state of its connection, a message on the way from it, the kinds of
            \* messages it has had, the last frame, and what was in memory before

rfbVars == <<fb, viewer>>

NoViewer == [state |-> "away", sends |-> FALSE, seen |-> <<>>, frame |-> <<>>, since |-> <<>>]

RfbInit ==
  /\ fb = [blocks |-> 0, addr |-> 0, memif |-> FALSE, fb1 |-> <<>>, fb2 |-> <<>>,
           read_pos |-> 0, since |-> <<>>, lock |-> "free", pc |-> "none"]
  /\ viewer = NoViewer

Frame(f) == Bytes(mem.ram, f.addr, f.blocks)

----------------------------------------------------------------------------
\* The host.  A command that is refused throws, which ends the process.

FrameCommand == host.pc = "handle" /\ Handler(host.cmd) \in {"configure", "set_address"}
Respond(ok) ==
  host' = IF ok THEN [host EXCEPT !.pc = "tick", !.fromhost_queue = Append(@, respond(host.cmd, 1))]
                ELSE [host EXCEPT !.pc = "crashed"]

\* The buffers are not initialised, and the thread is created.
Undrawn  == -1
Fresh(n) == [i \in 1 .. n |-> Undrawn]
handle_configure ==
  LET n  == host.cmd.payload
      ok == fb.fb1 = <<>> /\ n > 0
  IN  /\ FrameCommand /\ Handler(host.cmd) = "configure"
      /\ Respond(ok)
      /\ fb' = IF ok THEN [fb EXCEPT !.blocks = n, !.fb1 = Fresh(n), !.fb2 = Fresh(n),
                                     !.since = Fresh(n), !.pc = "lock"]
                     ELSE fb
      /\ UNCHANGED <<job, mem, proxy, term, prog, viewer>>

handle_set_address ==
  LET ok == host.cmd.payload % 2 = 0
  IN  /\ FrameCommand /\ Handler(host.cmd) = "set_address"
      /\ Respond(ok)
      /\ fb' = IF ok THEN [fb EXCEPT !.addr = host.cmd.payload \div 2, !.memif = TRUE] ELSE fb
      /\ UNCHANGED <<job, mem, proxy, term, prog, viewer>>

\* tick: after the last block the buffers change places, and the frame goes to
\* the viewer if the lock is free.  What is written to one that has gone is
\* lost, and the second such write ends the process by SIGPIPE.
MayUpdateAlways(f) == TRUE
MayUpdate(f) == f.lock = "free"
Swap(f) == [f EXCEPT !.fb1 = f.fb2, !.fb2 = f.fb1, !.since = Frame(f)]
Shown(f) ==
  [viewer EXCEPT !.seen = IF Last(@) = "update" THEN @ ELSE Append(@, "update"),
                 !.frame = f.fb1, !.since = fb.since]
fb_update(f) ==
  CASE viewer.state = "connected" -> Shown(f)
    [] viewer.state = "gone"      -> [viewer EXCEPT !.state = "reset"]
    [] OTHER                      -> viewer
Draws   == fb.blocks > 0 /\ fb.memif
Copied  == [fb EXCEPT !.fb2[fb.read_pos + 1] = mem.ram[fb.addr + fb.read_pos],
                      !.read_pos = (@ + 1) % fb.blocks]
Updates == Draws /\ Copied.read_pos = 0 /\ MayUpdate(fb)
Refresh ==
  /\ fb' = IF ~Draws THEN fb ELSE IF Copied.read_pos = 0 THEN Swap(Copied) ELSE Copied
  /\ viewer' = IF Updates THEN fb_update(fb') ELSE viewer
Broken ==
  /\ host.pc = "tick" /\ Updates /\ viewer.state = "reset"
  /\ host' = [host EXCEPT !.pc = "crashed"]
  /\ UNCHANGED <<job, mem, proxy, term, prog, rfbVars>>

----------------------------------------------------------------------------
\* thread_main, which starts over when a viewer has gone.

Thread(from, to) == fb.pc = from /\ fb' = [fb EXCEPT !.pc = to]
Tell(kind) == [viewer EXCEPT !.seen = Append(@, kind), !.sends = FALSE]

Lock == fb.pc = "lock" /\ fb.lock = "free" /\ fb' = [fb EXCEPT !.pc = "accept", !.lock = "thread"]
        /\ UNCHANGED viewer
Accept      == Thread("accept", "version") /\ viewer.state = "connecting"
               /\ viewer' = [Tell("version") EXCEPT !.state = "connected"]
ReadVersion == Thread("version", "clientinit") /\ viewer.sends /\ viewer' = Tell("security")

Unlock(f) == [f EXCEPT !.lock = "free"]
ClientInit ==
  /\ fb.pc = "clientinit" /\ viewer.sends
  /\ fb' = [Unlock(fb) EXCEPT !.pc = "wait"]
  /\ viewer' = Tell("init")
WaitMemif == Thread("wait", "read") /\ fb.memif /\ UNCHANGED viewer

ReadCommand == Thread("read", "read") /\ viewer.sends /\ viewer' = [viewer EXCEPT !.sends = FALSE]
ReadEnd     == Thread("read", "close") /\ ~viewer.sends /\ viewer.state \in {"gone", "reset"} /\ UNCHANGED viewer
Close       == Thread("close", "lock") /\ fb.lock = "free" /\ viewer' = NoViewer

ThreadStep ==
  \/ Lock \/ Accept \/ ReadVersion \/ ClientInit \/ WaitMemif \/ ReadCommand \/ ReadEnd \/ Close

\* A viewer that follows the protocol: it answers in the handshake, then sends
\* commands as it likes and leaves when it likes.
Connect  == fb.pc = "accept" /\ viewer.state = "away" /\ viewer' = [viewer EXCEPT !.state = "connecting"]
SendNext == viewer.state = "connected" /\ ~viewer.sends /\ viewer' = [viewer EXCEPT !.sends = TRUE]
Leave    == viewer.state = "connected" /\ Len(viewer.seen) > 2 /\ viewer' = [viewer EXCEPT !.state = "gone"]
ViewerStep == (Connect \/ SendNext \/ Leave) /\ UNCHANGED fb

----------------------------------------------------------------------------
\* The host with its display, and the two that are not the host's thread.
FrameStep == handle_configure \/ handle_set_address
DisplayStep ==
  \/ FrameStep
  \/ tick /\ ~(Updates /\ viewer.state = "reset") /\ Refresh
  \/ Broken
  \/ RunStep /\ host.pc # "tick" /\ UNCHANGED rfbVars
OtherThreads == (ThreadStep \/ ViewerStep) /\ UNCHANGED htifVars

\* A viewer is never sent a frame before the handshake is over, though the host
\* sends frames whenever one is complete and the thread may be anywhere.
HandshakeUnbroken == IsPrefix(viewer.seen, <<"version", "security", "init", "update">>)

\* A frame has nothing older than the frame before it: what the program had
\* drawn by then is there, and nothing that was never drawn.
FramesFresh ==
  \A i \in 1 .. Len(viewer.frame) :
    /\ viewer.frame[i] # Undrawn
    /\ viewer.since[i] = 1 => viewer.frame[i] = 1

\* What a viewer gets is in order, and up to date.
FramesRight == HandshakeUnbroken /\ FramesFresh
============================================================================
