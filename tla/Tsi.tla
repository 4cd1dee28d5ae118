-------------------------------- MODULE Tsi --------------------------------
(***************************************************************************)
(* The tethered serial interface (tsi.cc, tsi.h) on the contexts of        *)
(* context.cc: the host thread turns chunk reads and writes into words of  *)
(* in_data and waits for words of out_data; the simulation's thread moves  *)
(* words between the queues and a serial adapter in front of memory.       *)
(*                                                                         *)
(* A word has W values instead of 2^32; addresses and lengths take two.    *)
(***************************************************************************)
EXTENDS Context, Integers, Sequences, SequencesExt

CONSTANTS
  W,            \* the number of values of a word
  Addrs,        \* word-aligned byte addresses of memory
  MSIP_BASE,    \* the software interrupt register of hart 0
  Data,         \* the words that are written
  MaxLen,       \* the longest chunk, in words (chunk_max_size)
  MaxOps        \* bound on the chunk operations of the host

Host   == "host"
Target == Main
SAI_CMD_READ  == 0
SAI_CMD_WRITE == 1
Words == 0 .. W - 1

ASSUME TsiAssumption ==
  /\ Contexts = {Host, Target} /\ Host # Target
  /\ W \in Nat /\ W > MaxLen /\ Data \subseteq Words /\ MaxLen \in Nat \ {0} /\ MaxOps \in Nat \ {0}
  /\ MSIP_BASE \in Addrs /\ \A a \in Addrs : a \in 0 .. W * W - 1 /\ a % 4 = 0

VARIABLES
  in_data, out_data,   \* tsi_t::in_data and out_data
  chunk,               \* the read_chunk under way: words asked for and got, or NoChunk
  ops,                 \* chunk operations begun
  running,             \* what the simulation's thread does next
  sai, reply, mem,     \* the adapter: command words, words to send, memory
  written              \* memory as the host's writes leave it, in program order

tsiVars == <<in_data, out_data, chunk, ops, running, sai, reply, mem, written>>
vars == <<cvars, tsiVars>>

NoChunk == [addr |-> 0, len |-> 0, got |-> <<>>]

Init ==
  /\ ContextInit
  /\ in_data = <<>> /\ out_data = <<>> /\ chunk = NoChunk /\ ops = 0
  /\ running = "construct"
  /\ sai = <<>> /\ reply = <<>>
  /\ mem = [a \in Addrs |-> 0] /\ written = mem

----------------------------------------------------------------------------
\* The host thread, in user code.

\* push_addr and push_len: the low word first, each masked to a word.
Split(x)     == <<x % W, (x \div W) % W>>
push_addr(a) == Split(a)
push_len(n)  == Split(n)

\* The words of memory a chunk covers.
Slice(m, a, n) == [i \in 1 .. n |-> m[a + 4 * (i - 1)]]
Fits(a, n) == \A i \in 1 .. n : a + 4 * (i - 1) \in Addrs

InHost == pc[Host] = "run" /\ UNCHANGED <<running, sai, reply, mem>>

write_chunk(a, src) ==
  /\ in_data' = in_data \o <<SAI_CMD_WRITE>> \o push_addr(a) \o push_len(Len(src) - 1) \o src
  /\ written' = [b \in Addrs |-> IF \E i \in 1 .. Len(src) : b = a + 4 * (i - 1)
                                 THEN src[1 + (b - a) \div 4] ELSE written[b]]
  /\ UNCHANGED <<cvars, out_data, chunk>>

\* htif_t::start ends with reset, which interrupts hart 0.
reset == InHost /\ ops = 0 /\ ops' = 1 /\ write_chunk(MSIP_BASE, <<1>>)

BeginOp == InHost /\ ops \in 1 .. MaxOps - 1 /\ chunk = NoChunk /\ ops' = ops + 1

WriteChunk(a, src) == BeginOp /\ Fits(a, Len(src)) /\ write_chunk(a, src)

read_chunk(a, n) ==
  /\ BeginOp /\ Fits(a, n)
  /\ in_data' = in_data \o <<SAI_CMD_READ>> \o push_addr(a) \o push_len(n - 1)
  /\ chunk' = [addr |-> a, len |-> n, got |-> <<>>]
  /\ UNCHANGED <<cvars, out_data, written>>

TakeWordKeep ==
  /\ InHost /\ chunk # NoChunk /\ out_data # <<>>
  /\ chunk' = [chunk EXCEPT !.got = Append(@, Head(out_data))]
  /\ UNCHANGED <<cvars, in_data, out_data, ops, written>>

\* result[i] = out_data.front()
TakeWord ==
  /\ InHost /\ chunk # NoChunk /\ out_data # <<>>
  /\ out_data' = Tail(out_data)
  /\ chunk' = [chunk EXCEPT !.got = Append(@, Head(out_data))]
  /\ UNCHANGED <<cvars, in_data, ops, written>>

\* The chunk is complete and read_chunk returns.
Return ==
  /\ InHost /\ chunk # NoChunk /\ Len(chunk.got) = chunk.len
  /\ chunk' = NoChunk
  /\ UNCHANGED <<cvars, in_data, out_data, ops, written>>

\* while (out_data.empty()) switch_to_target(), and the endless loop of
\* host_thread once run has returned.
switch_to_target ==
  /\ InHost
  /\ IF chunk = NoChunk THEN ops = MaxOps
     ELSE Len(chunk.got) < chunk.len /\ out_data = <<>>
  /\ switch_to(Host, Target)
  /\ UNCHANGED <<in_data, out_data, chunk, ops, written>>

HostStep ==
  \/ reset \/ TakeWord \/ Return \/ switch_to_target
  \/ \E a \in Addrs, n \in 1 .. MaxLen :
       \/ read_chunk(a, n)
       \/ \E src \in [1 .. n -> Data] : WriteChunk(a, src)

----------------------------------------------------------------------------
\* The adapter.  It takes the words of one command after another, and sends
\* what a read asks for before it takes more.

Accept(w) ==
  LET s    == Append(sai, w)
      addr == s[2] + W * s[3]
      len  == s[4] + W * s[5] + 1
  IN  /\ reply = <<>>
      /\ IF Len(s) < 5 THEN sai' = s /\ UNCHANGED <<reply, mem>>
         ELSE /\ sai' = IF s[1] = SAI_CMD_READ \/ Len(s) = 5 + len THEN <<>> ELSE s
              /\ reply' = IF s[1] = SAI_CMD_READ THEN Slice(mem, addr, len) ELSE <<>>
              /\ mem' = IF Len(s) = 5 THEN mem
                        ELSE [mem EXCEPT ![addr + 4 * (Len(s) - 6)] = w]

InTarget(from, to) ==
  /\ pc[Target] = "run" /\ running = from /\ running' = to
  /\ UNCHANGED <<chunk, ops, written>>

\* The constructor makes the host context.
tsi_t == InTarget("construct", "tick") /\ init(Target, Host) /\ UNCHANGED <<in_data, out_data, sai, reply, mem>>

\* One tick of the simulation: words that are valid and ready on either side
\* move; out_ready is always true.
tick(out_valid, in_ready) ==
  /\ InTarget("tick", "switch")
  /\ out_valid => reply # <<>>
  /\ LET moves == in_ready /\ in_data # <<>>
     IN  /\ in_data' = IF moves THEN Tail(in_data) ELSE in_data
         /\ out_data' = IF out_valid THEN Append(out_data, Head(reply)) ELSE out_data
         /\ IF moves THEN Accept(Head(in_data))
            ELSE /\ UNCHANGED <<sai, mem>>
                 /\ reply' = IF out_valid THEN Tail(reply) ELSE reply
  /\ UNCHANGED cvars

switch_to_host ==
  /\ InTarget("switch", "tick")
  /\ switch_to(Target, Host)
  /\ UNCHANGED <<in_data, out_data, sai, reply, mem>>

TargetStep ==
  \/ tsi_t \/ switch_to_host
  \/ \E out_valid, in_ready \in BOOLEAN : tick(out_valid, in_ready)

Threads(c) == (ThreadStep(c) \/ SpuriousWakeup(c)) /\ UNCHANGED tsiVars

Next == HostStep \/ TargetStep \/ \E c \in Contexts : Threads(c)

Spec == Init /\ [][Next]_vars

\* The operating system runs every thread that can run, and the adapter takes
\* and sends a word that it is offered again and again.
Fairness ==
  /\ \A c \in Contexts : SF_vars(ThreadStep(c) /\ UNCHANGED tsiVars)
  /\ WF_vars(HostStep) /\ WF_vars(TargetStep)
  /\ SF_vars(tick(TRUE, FALSE)) /\ SF_vars(tick(FALSE, TRUE) /\ in_data # <<>>)

FairSpec == Spec /\ Fairness

----------------------------------------------------------------------------
\* Types of queues and registers; every queued word fits a word.
TypeOK ==
  /\ ContextTypeOK
  /\ in_data \in Seq(Words) /\ out_data \in Seq(Words) /\ reply \in Seq(Words)
  /\ sai \in Seq(Words) /\ Len(sai) < 5 + MaxLen
  /\ mem \in [Addrs -> Words] /\ written \in [Addrs -> Words]
  /\ ops \in 0 .. MaxOps

\* read_chunk returns what the host's own earlier writes left in memory,
\* although those may still be on their way when the read is begun.
ReadsSeeWrites ==
  IsPrefix(chunk.got, Slice(written, chunk.addr, chunk.len))

\* Once the words sent are consumed, memory holds every write_chunk, in order,
\* and no stray word is left on either side.
NothingLost ==
  /\ in_data = <<>> /\ sai = <<>> => mem = written
  /\ chunk = NoChunk => out_data = <<>> /\ (in_data = <<>> => reply = <<>>)

\* The words between the threads are all there, once and in order.
WordsConserved == TypeOK /\ ReadsSeeWrites /\ NothingLost

\* A chunk that is asked for is returned: no switch between the two threads
\* is lost.
ReadsReturn == chunk # NoChunk ~> chunk = NoChunk
============================================================================
