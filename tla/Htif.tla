-------------------------------- MODULE Htif --------------------------------
(***************************************************************************)
(* The host-target interface (htif.cc, device.cc): the host loads the      *)
(* program, polls tohost in the memory of the target, hands commands to    *)
(* its devices and answers through fromhost.  The program runs at the same *)
(* time and sees each access to memory on its own.                         *)
(*                                                                         *)
(* A word of tohost or fromhost is a record of the device, the command and *)
(* the payload, Zero when it is zero.  The program is external: it follows *)
(* the protocol, with one call at a time in magicmem.                      *)
(***************************************************************************)
EXTENDS Syscall, Loader

CONSTANTS
  Chunks,        \* the chunked interface of the host: alignment, largest chunk
  Keys,          \* characters that may be typed at the terminal, job.keys of them
  IntMod,        \* the number of values of an int
  LineBytes      \* bytes of a line of the signature, 16 in htif.cc

ASSUME HtifAssumption ==
  /\ IntMod \in Nat \ {0} /\ IntMod % 2 = 0 /\ LineBytes \in Nat \ {0}
  /\ Chunked(Chunks) /\ Chunks.clears /\ Keys \subseteq Nat

VARIABLES
  job,          \* command line, image and program; it never changes
  mem,          \* of the target: ram, tohost, fromhost, call and answer (the two
                \* parts of magicmem), identity (a buffer)
  host,         \* htif_t: pc in run, and the members and locals of its names
  proxy,        \* the system call proxy
  term,         \* the terminal: characters typed and not yet read, and all of them
  prog          \* the program: commands sent, replies owed to it, characters it
                \* got, the code it ended with, its process as POSIX has it, what
                \* its last call should give, and the descriptors it duplicated

htifVars == <<job, mem, host, proxy, term, prog>>

Zero     == [dev |-> 0, cmd |-> 0, payload |-> 0]
Running  == -1
NoAnswer == [ret |-> 0, buf |-> <<>>]
NoCall   == [n |-> "none"]

MAX_COMMANDS == 256
MM == 2                                 \* the address of magicmem, an even number
Word(dev, c, payload) == [dev |-> dev, cmd |-> c, payload |-> payload]

\* command_t::respond keeps device and command.
respondBare(c, resp) == Word(0, 0, resp)
respond(c, resp)     == [c EXCEPT !.payload = resp]

\* The registered devices, with a display if the command line asks for it, and
\* the names of their commands; any other device is the null device.
devices == << "syscall_proxy", "bcd" >> \o (IF job.rfb THEN << "rfb" >> ELSE <<>>)
Device(c) == IF c.dev < Len(devices) THEN devices[c.dev + 1] ELSE ""
Handler(c) ==
  IF c.cmd = MAX_COMMANDS - 1 THEN "identity" ELSE
  CASE Device(c) = "syscall_proxy" /\ c.cmd = 0 -> "syscall"
    [] Device(c) = "bcd" /\ c.cmd = 0           -> "read"
    [] Device(c) = "bcd" /\ c.cmd = 1           -> "write"
    [] Device(c) = "rfb" /\ c.cmd = 0           -> "configure"
    [] Device(c) = "rfb" /\ c.cmd = 1           -> "set_address"
    [] OTHER                                    -> ""
handle_identify(c) ==
  LET what == c.payload % MAX_COMMANDS
  IN  IF what = MAX_COMMANDS - 1 THEN Device(c) ELSE Handler([c EXCEPT !.cmd = what])

\* A program under chroot has the names below it.
Below(chroot, names) ==
  LET root == IF chroot = NoChroot THEN <<>> ELSE chroot
      seen == {path \in DOMAIN names : IsPrefix(root, path)}
  IN  [path \in {SubSeq(q, Len(root) + 1, Len(q)) : q \in seen} |-> names[root \o path]]

\* Where such a program is, when the host's process is at cwd.
Within(chroot, cwd) ==
  CASE chroot = NoChroot     -> cwd
    [] IsPrefix(chroot, cwd) -> SubSeq(cwd, Len(chroot) + 1, Len(cwd))
    [] OTHER                 -> <<>>

Kinds == {"syscall", "identity", "read", "configure", "set_address"}

\* own is the host's process before htif_t is made.
HtifInit(j, own) ==
  /\ job = j
  /\ mem = [ram |-> j.memory, tohost |-> Zero, fromhost |-> Zero, call |-> NoCall,
            answer |-> NoAnswer, identity |-> "junk"]
  /\ host = [pc |-> "start", cmd |-> Zero, ret |-> 0, fromhost_queue |-> <<>>,
             pending_reads |-> <<>>, exitcode |-> 0, stopped |-> FALSE,
             signal_exit |-> FALSE, sigs |-> <<>>]
  /\ proxy = syscall_t(own, j.chroot, j.args)
  /\ term = [typed |-> <<>>, keyed |-> <<>>]
  /\ prog = [sends |-> 0, owed |-> [k \in Kinds |-> 0], got |-> <<>>, ended |-> Running,
             posix |-> [own EXCEPT !.fds = [fd \in 0 .. 2 |-> own.fds[fd]],
                                   !.names = Below(j.chroot, @), !.cwd = Within(j.chroot, @)],
             want |-> NoAnswer, dups |-> 0]

----------------------------------------------------------------------------
\* The host, in run.

\* start: load_program finds the program under its own path or under the
\* prefix, and keeps the addresses of tohost and fromhost if there are both.
\* Without them, or if it is told that there is no program, the host idles for
\* ever.
Named        == job.args # <<>> /\ job.args[1].name # "none"
Loads        == Named /\ job.where \in {"here", "prefix"}
Communicates == Loads /\ {"tohost", "fromhost"} \subseteq DOMAIN symbols(job.image)
start ==
  /\ host.pc = "start"
  /\ mem' = IF Loads THEN [mem EXCEPT !.ram = load_elf(Chunks, @, job.image.segs)] ELSE mem
  /\ host' = [host EXCEPT !.pc = CASE Named /\ ~Loads -> "crashed"
                                   [] Communicates    -> "poll"
                                   [] OTHER           -> "idle"]
  /\ UNCHANGED <<job, proxy, term, prog>>

\* The loop condition, and read_uint64(tohost_addr).
PollTohost ==
  /\ host.pc = "poll"
  /\ host' = [host EXCEPT
       !.pc = IF host.signal_exit \/ host.exitcode # 0 THEN "stop"
              ELSE IF mem.tohost # Zero THEN "clear" ELSE "tick",
       !.cmd = mem.tohost]
  /\ UNCHANGED <<job, mem, proxy, term, prog>>

ClearTohost ==
  /\ host.pc = "clear"
  /\ mem' = [mem EXCEPT !.tohost = Zero]
  /\ host' = [host EXCEPT !.pc = "handle"]
  /\ UNCHANGED <<job, proxy, term, prog>>

\* The payload is cut to an int.
AsInt(payload) == payload % IntMod
exit_code(h) == h.exitcode \div 2

\* handle_syscall: an odd payload is the end of the program; any other call
\* is dispatched, and its answer goes to magicmem before the reply.
HandleExit ==
  /\ host.pc = "handle" /\ Handler(host.cmd) = "syscall" /\ host.cmd.payload % 2 = 1
  /\ host' = [host EXCEPT !.pc = "tick", !.exitcode = AsInt(host.cmd.payload)]
  /\ UNCHANGED <<job, mem, proxy, term, prog>>

HandleSyscall ==
  LET a == dispatch(proxy, mem.call)
  IN  /\ host.pc = "handle" /\ Handler(host.cmd) = "syscall" /\ host.cmd.payload % 2 = 0
      /\ proxy' = a.s
      /\ mem' = [mem EXCEPT !.answer.buf = a.buf]
      /\ host' = [host EXCEPT !.pc = "answer", !.ret = a.ret,
                              !.exitcode = IF mem.call.n = "exit" THEN AsInt(a.s.exitcode) ELSE @]
      /\ UNCHANGED <<job, term, prog>>

Answer ==
  /\ host.pc = "answer"
  /\ mem' = [mem EXCEPT !.answer.ret = host.ret]
  /\ host' = [host EXCEPT !.pc = "tick", !.fromhost_queue = Append(@, respond(host.cmd, 1))]
  /\ UNCHANGED <<job, proxy, term, prog>>

HandleIdentify ==
  /\ host.pc = "handle" /\ Handler(host.cmd) = "identity"
  /\ mem' = [mem EXCEPT !.identity = handle_identify(host.cmd)]
  /\ host' = [host EXCEPT !.pc = "tick", !.fromhost_queue = Append(@, respond(host.cmd, 1))]
  /\ UNCHANGED <<job, proxy, term, prog>>

\* A read of the terminal waits for a character; a write to it and a command
\* nobody handles are not answered.
HandleOther ==
  /\ host.pc = "handle" /\ Handler(host.cmd) \in {"read", "write", ""}
  /\ host' = [host EXCEPT !.pc = "tick",
       !.pending_reads = IF Handler(host.cmd) = "read" THEN Append(@, host.cmd) ELSE @]
  /\ UNCHANGED <<job, mem, proxy, term, prog>>

\* device_list.tick: bcd_t::tick reads one character for the oldest read.
Char(ch) == 256 + ch
Tick(c, h) ==
  [h EXCEPT !.fromhost_queue = Append(@, respond(Head(h.pending_reads), Char(c))),
            !.pending_reads = Tail(@)]
tick ==
  LET reads == host.pending_reads # <<>> /\ term.typed # <<>>
  IN  /\ host.pc = "tick"
      /\ host' = [(IF reads THEN Tick(Head(term.typed), host) ELSE host) EXCEPT !.pc = "fromhost"]
      /\ term' = IF reads THEN [term EXCEPT !.typed = Tail(@)] ELSE term
      /\ UNCHANGED <<job, mem, proxy, prog>>

\* The oldest reply is written once fromhost has been read as zero.
MayReplyAlways(fromhost) == TRUE
MayReply(fromhost) == fromhost = Zero
PollFromhost ==
  /\ host.pc = "fromhost"
  /\ host' = [host EXCEPT !.pc = IF host.fromhost_queue # <<>> /\ MayReply(mem.fromhost)
                                 THEN "reply" ELSE "poll"]
  /\ UNCHANGED <<job, mem, proxy, term, prog>>

WriteFromhost ==
  /\ host.pc = "reply"
  /\ mem' = [mem EXCEPT !.fromhost = Head(host.fromhost_queue)]
  /\ host' = [host EXCEPT !.pc = "poll", !.fromhost_queue = Tail(@)]
  /\ UNCHANGED <<job, proxy, term, prog>>

\* The memory between begin_signature and end_signature, if there are both.
SignatureArea(image) ==
  LET s == symbols(image)
  IN  IF {"begin_signature", "end_signature"} \subseteq DOMAIN s
      THEN [addr |-> s["begin_signature"], len |-> s["end_signature"] - s["begin_signature"]]
      ELSE [addr |-> 0, len |-> 0]

\* stop: the signature, line by line and each line backwards.
Signature(m, sig) ==
  LET buf == read(Chunks, m, sig.addr, sig.len)
  IN  [i \in 1 .. sig.len \div LineBytes |->
         [j \in 1 .. LineBytes |-> buf[i * LineBytes + 1 - j]]]
stop ==
  /\ host.pc = "stop"
  /\ host' = [host EXCEPT !.pc = "done", !.stopped = TRUE,
       !.sigs = IF job.signature # <<>> /\ SignatureArea(job.image).len > 0
                THEN Signature(mem.ram, SignatureArea(job.image)) ELSE @]
  /\ UNCHANGED <<job, mem, proxy, term, prog>>

RunStep ==
  \/ PollTohost \/ ClearTohost
  \/ HandleExit \/ HandleSyscall \/ Answer \/ HandleIdentify \/ HandleOther
  \/ tick \/ PollFromhost \/ WriteFromhost \/ stop

\* handle_signal, the first time.
SignalExit ==
  /\ ~host.signal_exit /\ ~host.stopped
  /\ host' = [host EXCEPT !.signal_exit = TRUE]
  /\ UNCHANGED <<job, mem, proxy, term, prog>>

----------------------------------------------------------------------------
\* The program and whoever types.

Program == Communicates /\ host.pc # "start" /\ prog.ended = Running

Send(w, kind) ==
  /\ Program /\ mem.tohost = Zero /\ prog.sends < job.sends
  /\ prog' = [prog EXCEPT !.sends = @ + 1,
                          !.owed = IF kind \in Kinds THEN [@ EXCEPT ![kind] = prog.owed[kind] + 1] ELSE @]
  /\ mem' = [mem EXCEPT !.tohost = w]
  /\ UNCHANGED <<job, host, proxy, term>>

\* Commands without magicmem: reads and writes of the terminal, identify,
\* and a command that the null device gets.
SendWord ==
  \E w \in job.words :
    /\ Handler(w) = "identity" => prog.owed["identity"] = 0
    /\ Send(w, Handler(w))

\* The exit code is written straight to tohost, or given to the exit call.
SendExit(code) ==
  /\ Program /\ mem.tohost = Zero /\ prog.owed["syscall"] = 0
  /\ mem' = [mem EXCEPT !.tohost = Word(0, 0, 2 * code + 1)]
  /\ prog' = [prog EXCEPT !.ended = code]
  /\ UNCHANGED <<job, host, proxy, term>>

\* What a call should give: exit does not come back, and the arguments are
\* those of the command line.  A duplicate is of no use to the program, to which
\* its number means nothing (sys_fcntl), so its process does not get one.
Duplicates(c) == c.n = "fcntl" /\ c.cmd = "F_DUPFD"
Wanted(c) ==
  CASE c.n = "exit"        -> Done(prog.posix, 0)
    [] c.n = "getmainvars" -> IF c.size < MainvarsBytes(job.args) THEN Done(prog.posix, ENOMEM)
                              ELSE Filled(prog.posix, 0, job.args)
    [] Duplicates(c)       -> [Call(prog.posix, c) EXCEPT !.p = prog.posix]
    [] OTHER               -> Call(prog.posix, c)

SendCall(c) ==
  LET r == Wanted(c)
  IN  /\ Program /\ mem.tohost = Zero /\ prog.sends < job.sends /\ prog.owed["syscall"] = 0
      /\ mem' = [mem EXCEPT !.tohost = Word(0, 0, MM), !.call = c, !.answer = NoAnswer]
      /\ prog' = [prog EXCEPT !.sends = @ + 1, !.owed["syscall"] = 1,
                              !.ended = IF c.n = "exit" THEN c.code ELSE Running,
                              !.posix = r.p, !.want = [ret |-> r.ret, buf |-> r.buf],
                              !.dups = IF Duplicates(c) /\ r.ret >= 0 THEN @ + 1 ELSE @]
      /\ UNCHANGED <<job, host, proxy, term>>

\* The program takes a reply, also after it has asked for its end.
Take ==
  LET w == mem.fromhost
  IN  /\ w # Zero
      /\ mem' = [mem EXCEPT !.fromhost = Zero]
      /\ prog' = [prog EXCEPT !.owed[Handler(w)] = @ - 1,
                              !.got = IF Handler(w) = "read" THEN Append(@, w.payload) ELSE @]
      /\ UNCHANGED <<job, host, proxy, term>>

\* It leaves results in memory.
Compute ==
  /\ Program
  /\ \E a \in job.results : mem.ram[a] # 1 /\ mem' = [mem EXCEPT !.ram[a] = 1]
  /\ UNCHANGED <<job, host, proxy, term, prog>>

Type ==
  /\ Communicates /\ Len(term.keyed) < job.keys
  /\ \E ch \in Keys : term' = [typed |-> Append(term.typed, ch), keyed |-> Append(term.keyed, ch)]
  /\ UNCHANGED <<job, mem, host, proxy, prog>>

ProgramStep ==
  \/ SendWord \/ Take \/ Compute
  \/ \E c \in job.calls : SendCall(c)
  \/ \E code \in job.codes : SendExit(code)

----------------------------------------------------------------------------
\* Types of the parts that have few values.
HtifTypeOK ==
  /\ host.pc \in {"start", "poll", "clear", "handle", "answer", "tick", "fromhost", "reply",
                  "stop", "done", "idle", "crashed"}
  /\ host.exitcode \in 0 .. IntMod - 1
  /\ {host.stopped, host.signal_exit} \subseteq BOOLEAN
  /\ \A k \in Kinds : prog.owed[k] \in 0 .. job.sends
  /\ mem.fromhost = Zero \/ Handler(mem.fromhost) \in Kinds

\* Every command that wants a reply is in exactly one place between tohost and
\* the program's taking of the reply: polling, clearing, queueing and replying
\* in four separate accesses lose none and answer none twice.
One(b)   == IF b THEN 1 ELSE 0
Asks(w, k) == w # Zero /\ Handler(w) = k /\ ~(k = "syscall" /\ w.payload % 2 = 1)
Count(words, k, n) == Cardinality({i \in 1 .. n : Handler(words[i]) = k})
Pending(k) ==
  One(host.pc # "clear" /\ Asks(mem.tohost, k))
  + One(host.pc \in {"clear", "handle", "answer"} /\ Asks(host.cmd, k))
  + Count(host.pending_reads, k, Len(host.pending_reads))
  + Count(host.fromhost_queue, k, Len(host.fromhost_queue))
  + One(mem.fromhost # Zero /\ Handler(mem.fromhost) = k)
RepliesOwed == host.pc # "crashed" => \A k \in Kinds : prog.owed[k] = Pending(k)

\* Characters reach the program in the order in which they were typed: first
\* those it got, then those on the way, in fromhost and in the queue, and those
\* left to read.
CharactersInOrder ==
  LET got    == Len(prog.got)
      queue  == host.fromhost_queue
      Way(n) == One(Handler(mem.fromhost) = "read") + Count(queue, "read", n)
      done   == got + Way(Len(queue))
  IN  /\ done + Len(term.typed) = Len(term.keyed)
      /\ \A i \in 1 .. got : prog.got[i] = Char(term.keyed[i])
      /\ Handler(mem.fromhost) = "read" => mem.fromhost.payload = Char(term.keyed[got + 1])
      /\ \A i \in 1 .. Len(queue) :
           Handler(queue[i]) = "read" => queue[i].payload = Char(term.keyed[got + Way(i)])
      /\ \A i \in 1 .. Len(term.typed) : term.typed[i] = term.keyed[done + i]

\* No reply is lost, doubled or out of turn.
RepliesConserved == HtifTypeOK /\ RepliesOwed /\ CharactersInOrder

\* When the program sees the reply to a call, magicmem holds what POSIX gives:
\* the proxy's descriptors and names do not show.  There is one exception, F_DUPFD
\* of fcntl: it fails when it should, but its result is a descriptor of the host,
\* open on the right file, by which the table does not know it.
HostOnly(fd) == fd \in DOMAIN proxy.host.fds /\ ~Contains(proxy.fds, fd)
AnswersRight ==
  Handler(mem.fromhost) = "syscall" /\ mem.fromhost # Zero =>
    LET ret == mem.answer.ret
    IN  IF Duplicates(mem.call) /\ prog.want.ret >= 0
        THEN /\ HostOnly(ret) /\ ret >= mem.call.arg
             /\ proxy.host.fds[ret] = prog.posix.fds[mem.call.fd]
        ELSE /\ ret = prog.want.ret
             /\ prog.want.ret >= 0 => mem.answer.buf = prog.want.buf

\* Every descriptor in use is one of the host's, and between calls it is open
\* where the program believes it is, no two share one, none of the host's is
\* left over but the duplicates made by F_DUPFD, which nothing closes, and both
\* see the same files under the same names.
InCall == prog.owed["syscall"] > 0
DescriptorsFaithful ==
  /\ \A i \in 1 .. Len(proxy.fds) : proxy.fds[i] = -1 \/ proxy.fds[i] \in DOMAIN proxy.host.fds
  /\ ~InCall =>
    LET held == {fd \in 0 .. Len(proxy.fds) - 1 : lookup(proxy.fds, fd) # -1}
    IN  /\ held = DOMAIN prog.posix.fds
        /\ \A fd \in held : proxy.host.fds[lookup(proxy.fds, fd)] = prog.posix.fds[fd]
        /\ \A x, y \in held : lookup(proxy.fds, x) = lookup(proxy.fds, y) => x = y
        /\ Cardinality(DOMAIN proxy.host.fds) = job.ownFds + Cardinality(held) + prog.dups
        /\ proxy.host.files = prog.posix.files
        /\ Below(proxy.chroot, proxy.host.names) = prog.posix.names

\* Every call and every identify is answered unless the simulation stops.
EveryCallAnswered ==
  \A k \in {"syscall", "identity"} :
    prog.owed[k] > 0 ~> prog.owed[k] = 0 \/ host.exitcode # 0 \/ host.signal_exit \/ host.stopped
============================================================================
