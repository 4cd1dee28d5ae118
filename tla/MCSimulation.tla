---------------------------- MODULE MCSimulation ----------------------------
(***************************************************************************)
(* Simulation with the kinds of job that matter: a program that uses the   *)
(* terminal and the other devices, one for each group of system calls,     *)
(* images that lie across the units of memory in every way, a JTAG client, *)
(* and command lines that go wrong.  Each has few commands; together they  *)
(* have all.                                                               *)
(***************************************************************************)
EXTENDS Simulation

Dtm4    == [align |-> 4, max |-> 8, clears |-> TRUE]
Letters == {1, 2}

\* The host: stdin, stdout, stderr and the socket of the JTAG server; the
\* terminal is file 0, the socket file 1.  It runs in /h; there is a /c, which
\* can be the root of the program.
OwnFds == [fd \in 0 .. 3 |-> [file |-> IF fd = 3 THEN 1 ELSE 0, pos |-> 0]]
Tree(inside) ==
  [path \in {<<>>, <<"c">>, <<"h">>, <<"c", "f">>, <<"h", "f">>, inside} |->
     IF path \in {<<>>, <<"c">>, <<"h">>} THEN Directory ELSE 2]
Own == [fds |-> OwnFds, files |-> [f \in 0 .. 2 |-> IF f = 2 THEN <<7, 8, 9>> ELSE <<>>],
        names |-> Tree(<<"c", "g">>), cwd |-> <<"h">>]

\* What a job is unless it says otherwise.
Tables  == << Section("", 0), Section(".text", 1), Section(".bss", 8), Section(".symtab", 2),
              Section(".strtab", 3) >>
Mailbox == << Symbol("tohost", 64), Symbol("fromhost", 72) >>
NoImage == [segs |-> <<>>, sections |-> Tables, syms |-> Mailbox]

Token(form, name, val) == [form |-> form, name |-> name, val |-> val]
Word_(name)            == Token("word", name, <<>>)
Plus(name, val)        == Token("plus", name, val)
Long(name, val)        == Token("long", name, val)
Line(options, words)     == [simulator |-> <<>>, host |-> options, program |-> words]
Job ==
  [tool |-> "verilator", where |-> "here", image |-> NoImage, memory |-> [a \in 0 .. 3 |-> 9],
   line |-> Line(<<>>, << Word_("pk") >>), width |-> 4,
   signals |-> FALSE, jtag |-> FALSE, script |-> <<>>, words |-> {}, calls |-> {},
   codes |-> {}, results |-> {}, keys |-> 0, sends |-> 0, ownFds |-> 4]

Rel(parts) == [abs |-> FALSE, parts |-> parts]
Abs(parts) == [abs |-> TRUE, parts |-> parts]

Terminal == [Job EXCEPT !.words = {Word(1, 0, 0), Word(1, 1, 65), Word(0, 255, 255),
                                   Word(1, 255, 0), Word(2, 255, 255), Word(2, 0, 0)},
                        !.calls = {[n |-> "faccessat", path |-> Rel(<<"x">>)]},
                        !.codes = {1}, !.keys = 2, !.sends = 3]

\* A program that draws frames of two blocks, or sets its display up wrongly.
Drawing(words) ==
  [Job EXCEPT !.line.host = << Long("rfb", <<>>) >>, !.words = words, !.results = {0}, !.sends = 2]
Frames == {Drawing({Word(2, 0, 2), Word(2, 1, 0)}), Drawing({Word(2, 0, 0), Word(2, 1, 1)})}

OnFiles(fds) ==
  UNION { {[n |-> "close", fd |-> d], [n |-> "read", fd |-> d, len |-> 2],
           [n |-> "write", fd |-> d, data |-> <<5>>], [n |-> "lseek", fd |-> d, off |-> 1]}
          : d \in fds }
Files == [Job EXCEPT !.calls = OnFiles({3, 4}) \cup
            {[n |-> "openat", path |-> Rel(<<"f">>), create |-> FALSE],
             [n |-> "openat", path |-> Rel(<<"n">>), create |-> TRUE],
             [n |-> "close", fd |-> 1]}, !.sends = 4]

MoreFiles == [Job EXCEPT !.calls =
            {[n |-> "openat", path |-> Rel(<<"f">>), create |-> FALSE],
             [n |-> "pread", fd |-> 3, len |-> 2, off |-> 1],
             [n |-> "pwrite", fd |-> 3, data |-> <<5, 6>>, off |-> 2],
             [n |-> "ftruncate", fd |-> 3, len |-> 1], [n |-> "ftruncate", fd |-> 3, len |-> 5],
             [n |-> "fstat", fd |-> 3], [n |-> "fstat", fd |-> 5]},
             !.sends = 3]

\* A program that duplicates descriptors, and closes what it has and what it
\* takes for the duplicate.
Duplicating == [Job EXCEPT !.sends = 4, !.calls =
            {[n |-> "openat", path |-> Rel(<<"f">>), create |-> FALSE], [n |-> "close", fd |-> 8]}
            \cup {[n |-> "close", fd |-> d] : d \in {1, 3}}
            \cup {[n |-> "fcntl", fd |-> d, cmd |-> "F_DUPFD", arg |-> 0] : d \in {1, 3}}
            \cup {[n |-> "fcntl", fd |-> 3, cmd |-> "F_DUPFD", arg |-> 9],
                  [n |-> "fcntl", fd |-> 3, cmd |-> "F_GETFD", arg |-> 0]}]

Names == [Job EXCEPT !.line.host = << Plus("chroot", <<"c">>) >>, !.sends = 3,
  !.calls = {[n |-> op, path |-> Abs(p)] :
               op \in {"faccessat", "lstat", "unlinkat", "mkdirat"}, p \in {<<"f">>, <<"d">>}}
     \cup {[n |-> op, path |-> Abs(<<"f">>), new |-> Abs(p)] :
               op \in {"linkat", "renameat"}, p \in {<<"f">>, <<"n">>, <<"d", "n">>}}
     \cup {[n |-> "openat", path |-> Abs(<<"n">>), create |-> TRUE], [n |-> "getcwd", size |-> 9]}]

WorkingDirectory == [Job EXCEPT !.sends = 3, !.where = "prefix",
  !.line.program = << Word_("pk"), Long("chroot", <<>>) >>,
  !.calls = {[n |-> "mkdirat", path |-> Rel(<<"d">>)], [n |-> "chdir", path |-> Rel(<<"d">>)],
             [n |-> "chdir", path |-> Abs(<<>>)], [n |-> "fstatat", path |-> Rel(<<"f">>)],
             [n |-> "getcwd", size |-> 3], [n |-> "getcwd", size |-> 9],
             [n |-> "getmainvars", size |-> 51], [n |-> "getmainvars", size |-> 52]}]

\* A program whose root is where the host is: relative and absolute names meet.
\* Sizes of getcwd are too small for both processes, or large enough for both.
Rooted == [Job EXCEPT !.line.host = << Plus("chroot", <<"h">>) >>, !.sends = 4,
  !.calls = {[n |-> "mkdirat", path |-> Abs(<<"d">>)], [n |-> "chdir", path |-> Rel(<<"d">>)],
             [n |-> "openat", path |-> Rel(<<"n">>), create |-> TRUE],
             [n |-> "faccessat", path |-> Abs(<<"d", "n">>)],
             [n |-> "getcwd", size |-> 1], [n |-> "getcwd", size |-> 9]}]

\* Programs that end, with memory for a signature of two lines across units.
Ends == [Job EXCEPT !.codes = {0, 1, 3, 8}, !.calls = {[n |-> "exit", code |-> c] : c \in {0, 2}},
  !.sends = 1, !.memory = [a \in 0 .. 7 |-> 9], !.line.host = << Plus("signature", <<"sig">>) >>, !.results = {2, 3, 5},
  !.image.segs = << Segment(TRUE, 1, <<4, 5>>, 6) >>,
  !.image.syms = << Symbol("end_signature", 3) >> \o Mailbox
                 \o << Symbol("begin_signature", 2), Symbol("end_signature", 6) >>]

\* Images of two segments anywhere in memory that holds other values, files
\* with zeros and without, and one segment that is not loaded.
Segments ==
  {Segment(TRUE, a, file, Len(file) + more) :
     a \in {0, 1, 3, 4, 8}, more \in {0, 1, 4, 9},
     file \in {<<>>, <<1>>, <<1, 2, 3>>, <<0, 0, 0, 0>>, <<1, 2, 3, 4, 5, 6>>}}
Other(s) == [s EXCEPT !.file = [i \in 1 .. Len(@) |-> IF @[i] = 0 THEN 0 ELSE @[i] + 10]]
Images == {<<s, Other(t)>> : s, t \in Segments}
          \cup {<< Segment(FALSE, 0, <<1>>, 1) >>}
Loading(tool, where, segs, memory) ==
  [Job EXCEPT !.tool = tool, !.where = where, !.image.segs = segs, !.image.syms = <<>>,
              !.memory = memory]
Stale  == [a \in 0 .. 23 |-> 9]
Loads_ ==
  {Loading("verilator", "here", segs, Stale) : segs \in Images}
  \cup {Loading("elf2hex", "here", segs, [a \in 0 .. 23 |-> 0]) : segs \in {i \in Images : Apart(i)}}
  \cup {Loading("sideband", "here", segs, Stale) :
          segs \in {i \in Images : Apart(i) /\ WholeRows(i)}}

\* JTAG clients that shift bits through the TAP, read them, and quit.
Low(b)  == SetPins(0, 0, b)
High(b) == SetPins(1, 0, b)
Scripts ==
  {<<a, b, c, ReadTdo>> \o rest :
     a, b, c \in {Low(0), Low(1), High(0), High(1), Blink},
     rest \in {<<Quit>>, <<Low(0), High(1), Low(0), ReadTdo, Quit>>}}
Clients == {[Job EXCEPT !.tool = tool, !.jtag = TRUE, !.script = s] :
              tool \in {"verilator", "modelsim"}, s \in Scripts}

\* Command lines: options of the simulator and of the host in every form,
\* programs that are given options of the same names, and lines that are refused.
Simulators(tool) ==
  {<<>>, << Plus("verbose", <<>>), Token("short", "c", <<>>) >>, << Plus("max-cycles", <<"9">>) >>}
  \cup IF tool = "modelsim" THEN {<< Plus("UVM_TESTNAME", <<"t">>), Token("short", "z", <<>>) >>}
       ELSE {<< Token("short", "m", <<>>), Word_("9") >>, << Long("seed", <<"9">>), Plus("jtag_rbb_enable", <<>>) >>,
             << Token("short", "z", <<>>) >>, << Token("short", "h", <<>>) >>}
Hosts ==
  {<<>>, << Plus("signature", <<"s">>) >>, << Long("chroot", <<"c">>) >>, << Long("disk", <<"d">>) >>,
   << Plus("chroot", <<"c">>), Long("signature", <<"s">>), Long("chroot", <<"h">>), Plus("rfb", <<"1">>) >>}
Programs ==
  {<<>>, << Word_("none") >>, << Word_("pk") >>, << Word_("pk"), Word_("aa"), Word_("permissive-off") >>}
OptionsOfPrograms ==
  {<< Word_("pk"), Long("chroot", <<"x">>), Token("short", "h", <<>>), Plus("signature", <<"y">>) >>}
Lines ==
  UNION { {[Job EXCEPT !.tool = tool, !.image.syms = <<>>,
                       !.line = [simulator |-> s, host |-> h, program |-> p]]
           : s \in Simulators(tool), h \in Hosts,
             p \in Programs \cup IF tool = "modelsim" THEN {} ELSE OptionsOfPrograms}
         : tool \in {"verilator", "modelsim"} }

Jobs ==
  {Terminal, Files, MoreFiles, Duplicating, Names, WorkingDirectory, Rooted, Ends,
   [Ends EXCEPT !.tool = "modelsim"],
   [Terminal EXCEPT !.signals = TRUE, !.keys = 1, !.sends = 1],
   [Job EXCEPT !.where = "nowhere"], [Job EXCEPT !.image.syms = << Symbol("tohost", 64) >>],
   [Job EXCEPT !.image.sections = << Section("", 0), Section(".symtab", 2), Section(".strtab", 8) >>]}
  \cup Frames \cup Loads_ \cup Clients \cup Lines

\* What the theorems assume of the jobs.
ASSUME JobsAssumption ==
  \A j \in {Configured(k) : k \in Jobs} :
    LegalImage(j) /\ LegalFrames(j) /\ LegalScript(j) /\ LegalProgram(j)

MCInit == Init(Jobs, Own)
MCSpec == MCInit /\ [][Next]_vars /\ Fairness
============================================================================
