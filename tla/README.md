# A TLA+ verification project for ariane_soc

The repository is the Ariane RISC-V core (RV64, single issue, out-of-order
completion, in-order commit) with its caches, a small SoC around it, and the
simulation that runs programs on it: a testbench, the host-target interface
(`tb/dpi/fesvr`) that loads a program and carries out its system calls, and the
transports between the two. This directory models the parts where concurrency
and protocols are hard, model-checks them with TLC, and proves with TLAPS the
central invariants of the store path, address translation, the issue stage, the
contexts, the two transports and the host process.

Core side: the store path, address translation, the issue stage, and the debug
module with the hart in its ROM. Host side: the debug transport module, the
tethered serial interface on its two threads, and the whole host process, from
the command line to the exit status.

**The clocked modules** (`StoreBuffer`, `StoreUnit`, `Mmu`, `IssueStage`, and
`DebugModule` under `Dtm`): one step is one clock cycle. The registers of the
Verilog (`*_q`) are the variables; an `always_comb` block is an operator of the
current state and the inputs of the cycle; simultaneous events (a push, a
commit, a drain and a flush at one edge) are one step, as in the hardware. Inputs
are existentially quantified, subject to `Allowed`, which only says when an input
means something (the cache grants nothing that is not requested).

**The host modules**: one step is what happens between two points at which
another thread or the program on the target can see or change something: one
access to the target's memory in `Htif`, one call of pthreads or one access to a
flag in `Context`, one command of the JTAG client in `Simulation`, one message or
one use of the lock in `Rfb`. In `Dtm` a routine of the C++ is the sequence of
DMI requests it makes.

## 1. Inventory

| component | state | operations | talks to | what makes it correct |
|---|---|---|---|---|
| store buffer (`store_buffer.sv`) | two rings with valid bits, pointers, counters | push, commit, drain, flush | store unit, commit stage, D$, load unit | rings behave as FIFOs; a flush drops speculative stores only |
| store unit, AMO buffer | FSM, one registered op, one AMO | accept, wait for room or for a translation, write back, fault, flush | MMU, store buffer, scoreboard | never pushes into a full buffer; what commit retires is what memory sees |
| load unit, LSU bypass | FSM, 2-entry FIFO | request, kill, replay, page-offset wait | D$, MMU, store buffer | a load sees every older store |
| TLB (`tlb.sv`) | entries, pseudo-LRU tree | lookup, update, flush per ASID | MMU | at most one hit, no stale entry after a fence |
| page table walker (`ptw.sv`) | FSM, level, pointer, registered answer | walk, install, error, flush | D$, TLBs | an answer belongs to the walk that asked; always returns |
| MMU interfaces (`mmu.sv`) | registered data request | translate for fetch and for load/store | icache, LSU | answers follow Sv39 |
| re-name, scoreboard, operand read | name table, entry FIFO, pointers, ID/EX register | issue, write back, forward, commit, flush | ID, all units, commit | operands follow program order, no result lost or misdelivered |
| mult/div, CSR buffer, FLU port | id in each unit, one CSR address | start, finish, flush | scoreboard, commit | one result per cycle on the shared port |
| commit stage, controller | `fence_active` | acknowledge two ports, traps, flushes | everything | precise traps |
| CSR file | CSRs, privilege, debug mode | read/write, trap, return, debug entry | commit | traps at the right privilege, no lost interrupt |
| D$ (std): cache controllers, miss handler | FSMs, MSHR, tags, dirty bits | hit, miss, write back, bypass, flush, AMO | LSU, PTW, AXI | coherent single copy, AMO atomicity |
| I$, frontend, realigner | FSMs, predictors, half instruction | fetch, kill, replay, realign | MMU, ID | instruction stream is the program's |
| AXI adapters | burst FSM | single and burst read/write | caches, bus | one response per request |
| PLIC, CLINT | gateways, claims, timer | claim, complete, compare | core, peripherals | no interrupt lost or delivered twice |
| debug module, DMI | command FSM, hart handshakes, autoexec, CDC toggles | halt, resume, abstract command, SBA | core, JTAG or DTM | a command completes or reports an error |
| debug transport module (`dtm.cc`) | one request and one answer, saved registers | read, write, clear chunks; CSRs; reset; fence | debug module, producer thread | memory is what was written; the program notices nothing |
| contexts (`context.cc`) | a flag, mutex and condition per thread | init, switch_to | TSI, DTM threads | exactly one runs at a time |
| tethered serial interface (`tsi.cc`) | two queues of words | chunk read and write, tick | both contexts, adapter | reads see earlier writes, no word lost |
| HTIF loop and devices (`htif.cc`, `device.cc`) | exit code, reply queue, pending reads | start, run, stop; terminal, null device | program, memory, all devices | each command handled and answered once |
| system call proxy (`syscall.cc`) | descriptor table, root | 21 calls | host kernel, program | the program sees POSIX |
| memory interface, loaders (`memif.cc`, `elfloader.cc`, `elf2hex.cc`, sideband) | none | read, write, clear any range; load an image | target | memory has the image, neighbours survive |
| command line (`ariane_tb.cpp`, `msim_helper.cc`, `htif.cc`) | argv | strip, split and parse twice | main, HTIF | the program asked for runs with its arguments |
| simulation main, JTAG server | phase, pins, socket | clock edges, DPI calls, signals, end | everything | it ends with the program's verdict |
| remote frame buffer (`rfb.cc`) | two buffers, lock, thread | configure, copy, send, handshake | viewer, HTIF | the viewer's protocol is kept, frames are current |
| DMA, crypto and lock wrappers | registers, copy FSM | start, done | bus | copy is complete when done is set |

Hard behaviours: flushes that arrive at any cycle of a multi-cycle operation;
answers of the cache that come after the request was abandoned; checks made one
cycle before they are relied on; several units that complete in one cycle;
transaction ids that are reused after a flush; commits and traps decided in the
same cycle; a host that polls hardware which may be stalled, and faults in the
middle of what it does; flags written outside the mutex of a wait, with spurious
wake-ups; a mailbox read, cleared and answered in separate accesses beside a
running program; two threads on one socket; transfers that do not fill a unit of
memory; tables of descriptors over tables of descriptors. `PROJECT.json` lists
each with the line where it bites.

Two things are outside the tree: `include/ariane_pkg.sv` and `riscv_pkg.sv`
(types, `DEPTH_SPEC`, `DEPTH_COMMIT`, `NR_SB_ENTRIES`, `ENABLE_RENAME`). They
are constants of the modules. The default build uses the standard cache.

## 2. Modules

| module | models |
|---|---|
| `StoreQueue` | abstract: two bounded FIFOs |
| `StoreBuffer` | `store_buffer.sv` as an open component under its own four assertions (`Contract`) |
| `StoreBufferProofs` | TLAPS proofs about `StoreBuffer` |
| `StoreUnitProofs` | TLAPS proofs about `StoreUnit`; extends the former |
| `StoreUnit` | `store_unit.sv` + `amo_buffer.sv` composed with `StoreBuffer` (by EXTENDS), and the commit stage, controller, bypass FIFO and D$ as they see it |
| `Tlb` | `tlb.sv` as operators on a record, used twice |
| `Mmu` | `ptw.sv` + `mmu.sv` + both TLBs, the D$ port, the requesters, and software that edits page tables and fences |
| `MmuProofs` | TLAPS proofs about `Mmu` |
| `IssueStage` | `re_name.sv`, `scoreboard.sv`, `issue_read_operands.sv`, register file, units and commit ports |
| `IssueStageProofs` | TLAPS proofs about `IssueStage` |
| `DebugModule` | `dm_csrs.sv` + `dm_mem.sv` as operators of the registers, the request and the hart's access |
| `DebugHart` | the hart in the debug ROM, the abstract command and the program buffer; extends `DebugModule` |
| `Dtm` | `dtm.cc` in front of both; the composed specification |
| `DtmProofs` | TLAPS proofs about `Dtm` |
| `Coroutine` | abstract: contexts, of which one runs (also the `swapcontext` build) |
| `Context` | the POSIX threads build of `context.cc` |
| `ContextProofs` | TLAPS proofs: one runs at a time, `Context` implements `Coroutine` |
| `SimulationProofs` | TLAPS proofs about `Simulation` and the modules below it |
| `Tsi`, `TsiProofs` | `tsi.cc` on `Context` (by EXTENDS) with the serial adapter; its theorems |
| `Memif`, `Loader` | transfers over a chunked interface; images, hex files, sideband: operators |
| `Posix` | external: a process with descriptors, files, names and a working directory |
| `Syscall` | `syscall.cc` as operators over two such processes, the host's and the one the program believes in |
| `Htif` | `htif.cc`, devices and terminal, beside a program that obeys the protocol |
| `Rfb` | `rfb.cc`, its thread and its viewer; extends `Htif` |
| `CommandLine` | the three parsers of options: operators on sequences of tokens |
| `Simulation` | main, the DPI calls, the JTAG server, `elf2hex` and the sideband; composes all of the host process |
| `MC*` | instances for TLC |

**StoreBuffer.** A ring is a function from slots to a store or `Empty` (valid
bit clear), two pointers and a counter, with the code's wrap-around. `core_if`
and `store_if` are the two blocks of the same name, assignments in the code's
order: the flush overrides the push but takes the *old* read pointer.

**StoreUnit.** `state_q`, `op_q` (what the unit registered in the previous
cycle) and `amo_buf` are the unit; `head` is the LSU FIFO's output, `order` the
written-back and not yet retired stores in program order, `at_commit` whether
the oldest is at commit port 0, `dc_amo` whether the cache works on the AMO.
`retired` and `mem` are history variables. An operation is its position in
issue order. `AmoInterruptible` and `StepOverStores` restrict the environment:
with both TRUE nothing the code permits is excluded, and then two of the
statements in the code's comments fail (section 4); the main run has
both FALSE so that everything else is still checked beyond those two cases.

**Mmu.** A PTE keeps all flag bits; its frame number is a name plus `align`,
the lowest level at which it is aligned. A TLB answer is a frame and a level.
The reference operators (`DataReference`, `FetchReference`) compute the Sv39
result from the page tables directly and share nothing with the walker.
`lsu_up` lets the load unit take its request down and raise it again while the
walk for it goes on. The D$ has one read of the walker under way and may grant
the next in the cycle of its answer. `unfenced` is the set of address spaces
whose tables changed without a fence since, for which the architecture promises
nothing; they are joined by those walked while an answer was astray (section 4:
a second flush in WAIT_RVALID), until they are fenced again, since such a walk may
take the wrong answer.

**IssueStage.** Values are one bit: right or wrong by program order. `ok` of an
entry records whether its operands were right at issue; `good` whether its
result field is its result (a CSR instruction's is its operand, a store's is
zero). `Outcomes` lists what commit may do with port 0: halt, wait, retire
(possibly with port 1), retire alone, retire and flush, trap. Instructions come
from a set given by the MC module.

**DebugModule, DebugHart, Dtm.** A double word is a pair of words, an address an
index of double words; an address outside `Addrs` faults, as an address that is
not there does. `Cycle(stalled)` is one clock edge: `dtm_t::tick`, the registers
of the debug module and one step of the hart, which a stall may hold. `todo` is
what is left of the routine, from the request the host waits for; `shadow` is
memory as the host's own writes and clears leave it; `ProgramRegs` is what the
program has in the registers the routines borrow.

**Context, Tsi.** A context has the turn if its flag is set or if it is about to
set another's (`HasTurn`); the refinement maps `cur` of `Coroutine` to it. A
spurious wake-up is always possible. In `Tsi` a word has `W` values, so that an
address of the run needs both of its words; `reply` is what the adapter has still
to send, `written` is memory as the host's writes leave it.

**Htif and its parts.** A word of `tohost` is a record of device, command and
payload. The program is external: it has one call at a time in `magicmem`, it
takes replies, and it ends. `prog.posix` is a process that does the program's
calls directly; `proxy.host` is the host's own process, in which the proxy does
them. The properties compare the two. There is one exception, which they state:
`fcntl` with F_DUPFD succeeds with the host's own descriptor
(`syscall.cc:191-194`), which the table never gets and nothing closes, so the
program's process gets no duplicate, `prog.dups` counts those left open on the
host, and closing the number that was returned fails like any unknown one. A `job` is what the user starts: tool,
command line, image, memory before, and what the program may do.

**Rfb.** One element of a frame is one block. `viewer.seen` is the kinds of message
the viewer has had; `since` is the frame in memory at the previous swap.

**Simulation.** `Simulated(A)` is a step of host and target while the main loop
runs. The TAP is in Shift-DR with its bypass register selected, which is enough
to tell when TDO is sampled. With JTAG enabled the debug module does not answer
the host, as in the testbench.

The conjuncts of an invariant are definitions of their own (`BuffersConsistent`,
`TlbConsistent`, `ScoreboardConsistent`, `UnitsConsistent`, `LinkConsistent`,
`WordsConserved`, `RepliesConserved`, `ResultsRight` and `FramesRight` are
conjunctions, and include the type invariant of their module where it has one).

## 3. Runs

| run | instance | shows |
|---|---|---|
| `store_path` | depths 2 and 2, four operations, any mix of stores and AMOs | both rings consistent and a refinement of `StoreQueue`; no push without room, the buffers mirror the scoreboard, nothing flushed survives, memory equals retirement order, the assertions of `store_buffer.sv` hold; the commit queue empties; no operation waits for ever in front of the unit |
| `translation` | 2-entry TLBs; page tables edited under walks and fences, page tables with every kind of entry and size in three privilege contexts, two address spaces with switches; flushes in any cycle | an answer is lost by a second flush in WAIT_RVALID only, TLBs coherent and unambiguous, both interfaces equal the reference, the walker always returns |
| `issue` | 4 entries, x0..x2, an instruction of each unit and a pre-faulted one | operands, register file, pointers and writers, ids, shared port, CSR buffer |
| `issue_renamed` | `ENABLE_RENAME`; load, division and CSR instructions that wait for one another | operands under re-naming; no stall is for ever, every issued instruction leaves |
| `debug_link` | two double words, chunks up to three, two routines, stalls in any cycle | reads and writes are right, faults included; the program notices nothing; no command over another or over an error; every routine returns and the hart resumes |
| `tsi_link` | words of 8 values, three words of memory, three operations of up to two words | one thread at a time; refines `Coroutine`; no word lost or stray; every read returns |
| `host_interface` | 14 343 jobs, of the kinds below | replies owed are replies on their way, characters in order; the program sees POSIX and the descriptor tables agree; images whole; exit status and signature right; the command line is honoured; viewers and JTAG clients get what they should; every call is answered and the simulation ends |
| `single_step_over_store`, `interrupt_during_amo`, `walker_flushed_twice`, `mxr_cleared`, `amo_result_forwarded` | section 4 | a counterexample each |

The jobs of `host_interface`: a terminal with typed characters and commands of
every device; open, read, write, seek, close in any order on two descriptors;
the other descriptor calls; descriptors duplicated, and closes of them; names below
a root given on the command line, with the host outside of it; relative and
absolute names with the host in that root; the working directory and the
program's arguments; ends with every kind of status and
a signature across units, on both simulators; all pairs of segments at five
addresses with four tails and five contents, over memory with other values, by
host, by `elf2hex` and by the sideband; JTAG clients; command lines of all three
kinds of options, right and wrong; programs that draw; a program that is not
found or has no `tohost`; signals. Jobs do not interact, so each has only the few
commands its question needs, and the bound of each (`sends`, `keys`) is in the
job. The run takes about two minutes and has 193 900 states.

Why the bounds are enough. Queues of two fill, wrap and make a further operation
wait as those of four do: four operations go twice round each ring
of `store_path`. The proofs about the rings cover every depth, and every mix of
pushes, commits, drains and flushes that their assertions allow. Two TLB entries make
replacement happen with three pages in use; two names per
table index make every level's index matter. Four scoreboard entries hold three
instructions (the counter cannot count to four), enough for a producer, a
consumer and an intervening writer, and they wrap. Registers x1 and x2 collide
and do not collide; x0 is the special case. In `debug_link` a chunk of three
begins and ends autoexec and goes on between, and one that runs out of the two
double words faults in its first, second or third access; two routines are one
and what it leaves for the next. In `tsi_link` an address of two words and a
length of two make the low and high words differ; three operations have a read
behind two writes that are still on their way. Units of four bytes and transfers
from 0 to 15 bytes have all combinations of partial first, whole and partial last
units. Symmetry is not used: the values are few or not interchangeable.

Fairness. `store_path` assumes what the cache's FSMs are built for: every request is granted and every AMO acknowledged in the end.
It further assumes that the clock ticks, that the oldest written-back
store eventually reaches the commit port and is not trapped for ever, and strong
fairness of a TLB hit, since a translation found by the walker may be evicted or
flushed again before the unit asks. `translation` assumes that the D$
grants and answers. `issue_renamed` assumes that a division and one of the loads
and stores in the LSU complete in the end, that the LSU becomes ready and that
the core is not halted for ever. `debug_link` has strong fairness of a cycle in
which the hart is not stalled (the clock ticks, and a stall is not for ever) and
weak fairness of the host thread. `tsi_link` assumes that the scheduler runs
every thread that can run again and again (strong fairness, since a mutex may be
taken and released in between) and that the adapter takes and sends words.
`host_interface` has weak fairness of what the simulation does in every cycle:
the host's loop, the program taking a reply that is there, the JTAG server's
steps and the end of the process. Nobody has to load, type, connect, send a
command or a signal.
None of these assumes anything of the component under test but that it runs.
Deadlock is checked in every run but `host_interface`, where nothing is left to
do when a job is over.

## 4. Where the code and its comments disagree

Five runs end in a counterexample to what a comment or an assertion in the
source says. Each is a statement about intent, with the code's behaviour as
modelled:

* `single_step_over_store`: the store buffer asserts that commit and flush never
  coincide ("as flush and commit is decided in the same stage"). Retiring a store
  while `dcsr.step` is set does both.
* `interrupt_during_amo`: "don't interrupt the AMO" (CSR file) and the commit
  stage's comment on AMOs. Neither the debug request nor an interrupt checks for
  an AMO that the cache already executes.
* `walker_flushed_twice`: "wait for the rvalid before going back to IDLE" and "should
  we have flushed before we got an rvalid, wait for it until going back to IDLE"
  (walker). A flush in WAIT_RVALID goes to IDLE at once (`ptw.sv:329-332`), so that
  two flushes close together leave the answer of the first walk for the next.
* `mxr_cleared`: "check for sufficient access privileges" (MMU, loads). Readability
  under MXR is judged only when the entry is filled.
* `amo_result_forwarded`: "it doesn't matter what we are writing back as stores
  don't return anything" (store unit). An AMO is a store for this unit, has a
  destination register, and its zero is forwarded.

The other runs step round three of these cases: `store_path` has `AmoInterruptible`
and `StepOverStores` FALSE, the jobs of `translation` keep MXR while its entries are
in use, `issue` forwards from no AMO. The second flush in WAIT_RVALID does happen in
`translation`: `StraysOnlyFromWaitRvalid` says that it is the only way an answer goes
astray, and the properties of TLBs and interfaces except what is walked from then on
until the next SFENCE.VMA.

## 5. Proofs

Each theorem is about every value of the constants, under the named assumptions
of the module that declares them.

**`StoreBufferProofs`**, about `SBSpec` (the buffer under `Contract`), for every pair
of depths of at least two and every set of stores:

* `TypeCorrect`: `SBSpec => []SBTypeOK`. No counter leaves `0 .. DEPTH`, no pointer
  its ring.
* `RingsAlwaysConsistent`: `SBSpec => []RingsConsistent`.
* `QueuesImplemented`: `SBSpec => ImplementsStoreQueue`, the refinement of
  `StoreQueue`.

The first two are not inductive alone. A counter at zero goes below zero if a
commit finds a valid head although the counter says empty, or a drain does; that
the head's valid bit and the counter agree is `RingsConsistent`. Conversely the
ring argument needs the ranges. The inductive invariant is the conjunction of
both, and the proof has one lemma for a ring with a pop and a push (each
optional), stated once about an arbitrary ring and used for both queues, and one
for the flush. For the refinement a ring is read from its read pointer, counter
many slots; a push appends to that sequence, a pop drops its head, and a clear
empties it, and every clock edge is one step of the two abstract queues or a stutter. The
proofs rest on `DepthAssumption` and `EmptyAssumption` only; that the depths are
powers of two is needed for the reading of the Verilog, not for the proof. The
four assertions of `store_buffer.sv` are hypotheses here and conclusions in the
next module.

**`StoreUnitProofs`**, about the composed `Spec` of `StoreUnit`, for all depths and
any number of operations (`MaxOps` is a parameter of the theorems, not a bound),
under `DepthAssumption`, `EmptyAssumption` and `StoreUnitAssumption`:

* `BufferContractMet`: the store unit and the commit stage meet the four assertions.
* `BuffersRight`: the speculative queue and the AMO buffer hold what waits to retire.
* `MemoryRight`: memory performs the retired operations, each once and in order.
* `AmoLostOnlyToTrap`: an AMO the cache works on leaves the commit port unanswered in
  one way only, by an interrupt or a debug request taken there.

The difficulty is that nothing in these interfaces carries an identifier: commit
is one wire, and so is the acknowledgement. The invariant `UInv` supplies
it. Operations are numbered in order of issue, and the numbers grow from the
retired end over `order`, the operation a unit in VALID_STORE is writing back, to
the head of the bypass FIFO (`FrontInv`); hence the oldest entry of `order` is
the head of the buffer of its kind, stores and AMOs apart
(`BuffersMatchScoreboard`), and what commit retires is what leaves. Two further
parts are needed for it to be inductive: a unit that has promised a push finds a
slot even if an older store stays where it is (`PushFindsRoom`: `ready` is judged
a cycle before the push), and an AMO is in the cache only while it is at the
commit port and no store is on its way (`CommitInv`), which is why a store's
grant and an AMO's acknowledgement are never confused.

The last is about every core. It needs only that an instruction is at the commit
port when the port says so (`PortInv`): no step over it, flush or fault of another
instruction takes the AMO away. The others suppose `Careful`: `AmoInterruptible` and `StepOverStores` are FALSE, as
in `store_path`. They are the two conditions under which the code does not do
what its comments say; the runs `interrupt_during_amo` and
`single_step_over_store` are the counterexamples when either is dropped.

**`MmuProofs`**, about `Mmu`, for every size of the TLBs, set of page tables,
mix of address spaces and pattern of requests, edits and fences:

* `StraysByOneFlush`: an answer the cache owes is one the walker waits for, until a
  second flush meets it in WAIT_RVALID; nothing else takes an answer from its walk.
* `TlbsConsistent`: what the TLBs hold is what a walk finds, and at most one entry
  matches, in the address spaces that are not `unfenced`.
* `InterfacesRight`: both interfaces answer what the reference operators say.

The invariant has four layers, each inductive given those below: what the cache
owes the walker (`WalkerInv`: one answer while it waits and has none registered,
otherwise nothing); for which side and page the walk is (`WalkInv`); that the
pointer is where a walk of the current tables arrives at this level (`PathInv`);
and that the entries are such walks and do not overlap (`TlbInv`). The last needs
a fact about the pseudo-LRU tree that is not about MMUs at all: it never
selects two victims (`UniqueVictim`), for every depth of the tree. `AnswerInv` adds
the rights an entry was installed with and the request registered for a cycle.
Flushes come in any cycle; after one that makes an answer go astray the layers about
walks say nothing of the address spaces that are `unfenced` from then on.
`InterfacesRight` supposes `MxrFixed`, which all jobs of `translation` satisfy
and those of `mxr_cleared` do not. `TlbAssumption`, `PowersOfTwo`: the number of
entries is a power of two. `PowersOfTwo`
spells out for the provers what `2 ^ n` is; TLC evaluates it.

**`IssueStageProofs`**, about `IssueStage`, for every number of entries and
registers and every set of instructions (`IssueAssumption`, `InstrAssumption`):

* `UnitsAgree`: the units work on the entries that were issued to them, the shared
  port carries one result, the CSR buffer is the oldest CSR instruction's.
* `RegisterFile`: it holds what was retired last, if stores and fences have no
  destination.
* `ScoreboardRight`: pointers, counter and issue bits describe one window, and a
  register, or a name of one, has one writer in it.
* `OperandsRetireRight`: an instruction issued with a wrong operand never retires,
  if stores, AMOs and fences have no destination.

All four hold with `ENABLE_RENAME` and without.

The order of the ring is turned into ages, distances to the commit pointer. The
invariant `Inv` says that the issued entries are those of an age below `issue_cnt`
(`SbInv`); that an entry without a result is in exactly one unit, the one for its
`fu`, and that the units behind the shared port exclude one another (`UnitInv`); and
that the oldest CSR instruction not behind a fence is in the unit or in the CSR
buffer (`CsrInv`, which is why the buffer needs no identifier of its own). Operand
correctness follows from a fourth part about writers (`WriterInv`). As long as no
exception is in the scoreboard a name has at most one writer in it
(`SingleWriter`); and the youngest writer of a register has the name that a
source gets, so that behind a writer with the other name there is one with this
(`NameInv`). Together: a source's writer, if there is one, is the youngest of its
register, so that forwarding from it, or waiting for it, is right; if there is
none the register file is. Behind an exception nothing retires. The delicate step
is the issue of a third writer while the first retires: the commit ports give a
register without its name bit, so the WAW check may be passed by the retirement of
the *other* name. By `NameInv` a writer with the other name that could be meant
would be younger than the one in the way, and retirement is in order.

That stores and fences have rd = 0 is what the decoder gives (`decoder.sv:76`
initialises it and only some cases overwrite it). An AMO has a destination, and
with it the statement is false: that is the run `amo_result_forwarded`.

**`ContextProofs`**, about `ContextSpec`, for every set of contexts
(`ContextAssumption`, `FreeAssumption`):

* `OneRunsHolds`: at most one thread is in user code, through any order of
  switches and spurious wake-ups.
* `CoroutineImplemented`: the threads implement `Coroutine`, which is what
  `context.h` promises and what the build on `swapcontext` does.
* `TurnHeld`, the inductive invariant: exactly one context has the turn. `OneRuns`
  is not inductive: a flag is set while its thread is still far from "run", so
  that two threads in user code follow from a state that satisfies it. The turn
  is passed when the flag of the other is set and at no other point; the mutexes
  and the signals matter only to the thread that has yet to wake. The proof has
  one lemma for each step that moves the turn (`init`, `switch_to`, `PassFlag`) and
  one for those that do not. In the refinement `init` is the abstract creation,
  `PassFlag` the abstract switch, and every other step a stutter.

**`TsiProofs`**: `TsiOneRuns` and `TsiOnCoroutines` carry both to the tethered serial
interface, for every memory, word size and chunk length (`TsiAssumption`): every
step of `Tsi` is a step of `Context` or leaves its variables alone.

* `TsiWordsConserved`: `Spec => []WordsConserved`. No word between the threads is
  lost, and a read returns what the earlier writes left.

A queue of words does not tell where a command begins, and data may look like a
command. So the invariant says that there *is* a way to read `in_data`: a tag for
each of its words, the command it belongs to and its place in it (`Stream`). Under
the tags memory with the words on their way over it is what the host wrote
(`Overlay`), and a read that is under way is either the last command in the queue
(`Asked`) or already answered, its words being in `reply`, `out_data` and with the
host in that order (`Answered`). Each step of the adapter has a lemma about what
it does to the tags: a word more to the head of a command, a command complete, a
word of data stored.

**`SimulationProofs`**, about the whole host process, for every set of jobs and
whatever the host's own process is. What a theorem supposes of a job is stated by
the definitions `LegalImage`, `LegalFrames`, `LegalScript` and `LegalProgram` of
`Simulation`; `JobsAssumption` has TLC evaluate them for all jobs of
`host_interface`.

* `ImageIsLoaded`: memory has the image, and what lies beside it is untouched. The
  bulk is `WriteIs`: `write` of `memif.cc` is a put of the bytes in their places, for
  every alignment, maximal chunk, address and length, though it is a merge at either
  end, chunks of whole units between them, and clears where the data is zero. From
  there to `load_elf` (segments with a tail of zeros, in order), `elf2hex` (words of
  any width) and the sideband of the testbench (whole rows).
* `FramesAreRight`: a viewer gets the messages of the handshake in order and never a
  frame older than the one before. `Handshake` says who has the lock by where the
  thread is; `Buffers` that the part of the new frame already copied is no older
  than what memory held when the last one was complete.
* `JtagReadsAreRight`: a client reads what its own commands have shifted out. The pins
  and the TAP are functions of the commands executed so far (`ShiftInv`).
* `ResultsAreRight`: exit status and signature. `Exits` follows the exit code from the
  program through `tohost` or the proxy to the host, `Stops` from there to the end
  of the process; `ReadIs` is the counterpart of `WriteIs` for the signature.
* `RepliesAreConserved`: no reply is lost, doubled or out of turn. `Ledger` counts,
  for each kind of command, where the replies owed can be: the mailbox, the host's
  hand, the pending reads, the queue, `fromhost` (`Stages` says which of these can
  hold what); `Story` says that the characters the program has got, those on their
  way and those typed are, in this order, those keyed.

**`DtmProofs`**, about the debug transport module with the debug module and the hart
behind it, for every memory, chunk length, set of chunks, number of routines and
stalls (`DtmAssumption`; `BlocksAssumption`: no chunk spans the gap between two
blocks of memory):

* `TickAsserts`, the assertion of `dtm_t::tick`. The invariant `Handshake` adds that at
  most one answer is in the queue; without it a cycle that takes one might leave
  another.
* `LinkIsConsistent`: `Spec => []LinkConsistent`, and `CommandsStartCleanly`: no command
  starts over another or over an error.
* `WritesAreComplete`, `ReadsAreRight`: a chunk written, cleared or read is the chunk of
  memory it names, as far as there is any, and nothing else changes; reset leaves
  dpc at the entry point.
* `ProgramIsUndisturbed`: whenever the program runs, its registers are its own.

A routine is a sequence of requests, and what may be asked depends on what hart
and module are doing. That is a few places (`Labels`): at rest, halting, parked, a
command that runs or has run into a fault, with or without autoexec, and so on.
`Ctl` says what holds of the control registers at each, `Edge` which requests may be
made there and where they lead.

`States` are the data of a place as the host sees them: s0 is in `dscratch` while the
hart is in the ROM (`Held`). While a command is under way two of them matter, the
data `f` it started from and the data `e` it will leave: `Ends(f, e)` says which `e`
the command has, `Executed` what each program of the program buffer does (`Clear`
counts up to the least word that is not to be cleared or does not exist), and
`Midway(f, e)` where between them the hart is, with one predicate for each program
(`LoadAt`, `StoreAt`, `ClearAt`, `CsrAt`, `FenceAt`) and one lemma for each kind of
instruction. A fault ends a program like its `ebreak`, so that `e` is determined
when the command starts.

A spot is a place with its data, `Step` an edge with what it does to them, and a
list of requests is `Legal` from one spot to another if there is a path. Each
routine of `dtm.cc` has such a path from "out" to "out", put together from its parts
(a part ends where the next begins), with what it leaves in memory and in `got`.
The loops of a chunk carry their own invariants along it: `Reading` says that the
words so far have been read and the next one is in s1, `Writing` that memory is as
after j words (`PutWords`); from the first word that faults on, s0 stands still
(`Stuck`) and the rest of the chunk is not there either (`BlocksAssumption`). The
invariant `LinkInv` is that what is left of the routine is legal from the spot where
the system is to one where it has done what was asked of it (`Promised`): a cycle in
which a request is taken follows the path, and one in which it is not keeps the
place.

Recursive definitions. The induction theorems of the library take an operator as a
parameter and cannot be instantiated here. Well-founded induction on sets can:
`LeastNat` and `UpTo` (a set of numbers that has 0 and is closed under the next has
every number up to n) follow from `NatLessThanWellFounded`, and the theorems about
`memif.cc`, the loaders and the chunks of `dtm.cc` rest on them. The loops are therefore written
as recursive functions on the naturals.

Only model-checked:

* all liveness: fairness and ENABLED are outside the prover's reach;
* `AnswersRight` and `DescriptorsFaithful` of `Htif`: a simulation between two
  processes over the 21 system calls of `Syscall` and all of `Posix`, of which the
  invariant would have to say how two tables of descriptors correspond after any
  sequence of calls;
* `ConfiguredAsGiven` of `Simulation`: three parsers written with the folds and
  filters of the community modules, whose recursion is on sequences and sets.

## 6. Plan

1. `LoadStoreUnit`: load unit FSM, the two-entry bypass FIFO, the page-offset
   checker of the store buffer, with a cache controller that answers it;
   property: a load returns the youngest older store to its address, under its
   own transaction id.
2. `DataCache`: cache controllers and miss handler (MSHR, bypass, flush, AMO) over
   an AXI adapter; abstract specification: one atomic memory.
3. `Traps`: CSR file trap entry, delegation, return, debug entry, with the
   controller's `fence_active`.
4. The DMI crossing and system bus access, `Plic` and `Clint`, `Dma`.
5. `Divider` and `Realigner` as algorithms against reference definitions.
6. Theorems: `ConfiguredAsGiven`, with the parsers as recursive functions; the
   descriptors of the proxy call by call, starting with those that allocate none.

## 7. Not modelled

Decoders, ALU, branch targets and other pure data paths; the FPU (third-party
VHDL) and the floating-point halves of scoreboard and re-name; performance
counters; vendored libraries (common cells, AXI node, FPGA memories); the
OpenPiton cache, which the default build does not select. A result in the pipe registers of the load/store
unit when a flush comes (`load_store_unit.sv:208-226`) is dropped with it in
`IssueStage`. Misaligned accesses, bare mode and the check of the upper virtual address bits are left out of `Mmu`.
Generated tables of constants (`encoding.h`, `debug_defines.h`, `bootrom.h`) are
most of the lines of the host side and have no behaviour.

On the host side:

* The target's program obeys the protocol of the mailbox; it exits with codes that
  fit an int.
* System calls with a path use the working directory only (`AT_FDCWD`); opening a
  directory fails; the contents of a stat buffer are one value. The commands of
  `fcntl` are F_DUPFD and F_GETFD. Under a root the program changes its directory
  by relative names only, since `sys_chdir` takes an absolute one as the host's,
  and the buffers of `getcwd` are large enough for the host's own path or too small
  for the program's: between the two the host's call fails.
* `disk_t` cannot be reached, because `parse_arguments` refuses `--disk`.
* Options are written out, and those of the host with a value have the form
  `--name=value` or `+name=value`, as its usage text has them: with `--name value` the
  end of the simulator's options would be found at the value
  (`ariane_tb.cpp:227-229`). The options of tracing builds are left out. The cycle limit is parsed and nothing
  ever looks at it.
* A signature and SIGTERM do not meet in one job: the handler would switch
  contexts in the middle of a step.
* The base of the memory of `elf2hex` is a multiple of its width, and its segments
  do not overlap; the sideband has whole rows.
* A JTAG client quits before it leaves, and the TAP stays in Shift-DR with the
  bypass register; the rest of the JTAG transport is left out.
* There is one display. A viewer stays until the handshake is over, for leaving
  before ends the process.
* Exit codes that an exit status cannot tell apart: `ExitStatusRight` says nothing of
  them.
* With JTAG the host's being stuck is a guard of its steps and does not follow from
  a model of the ports.
* In the debug module: system bus access, authentication and `havereset`. The
  one hart's number stands for `hart_sel`, which `dm_mem.sv` takes from the bus, and dpc
  keeps the place the program was last started at, since the program's own progress
  is not modelled.

`PROJECT.json` gives the reason for each component.
