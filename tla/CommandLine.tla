---------------------------- MODULE CommandLine ----------------------------
(***************************************************************************)
(* From the command line to the options of the host and the arguments of   *)
(* the program: main of ariane_tb.cpp, or sanitize_args of msim_helper.cc, *)
(* takes the part of the simulator, and parse_arguments of htif.cc reads   *)
(* what is left.                                                           *)
(*                                                                         *)
(* A token is [form, name, val]: a "word", a "plus" or "plusplus" argument,*)
(* or a "short" or "long" option, the last with val, <<>> if it has none.  *)
(***************************************************************************)
EXTENDS Integers, Sequences, SequencesExt

\* The length of an argument without a value.
strlen(t) ==
  Len(t.name) + [word |-> 0, plus |-> 1, short |-> 1, plusplus |-> 2, long |-> 2][t.form]

EmulatorFlags  == {"c", "cycle-count", "V", "verbose", "p"}
EmulatorValued == {"m", "max-cycles", "s", "seed", "r", "rbb-port"}
EmulatorPluses == {"verbose", "max-cycles", "cycle-count", "jtag_rbb_enable"}
Help           == {"h", "help"}
HostOptional   == {"rfb"}
HostValued     == {"disk", "signature", "chroot"}

Permissive    == [form |-> "plus", name |-> "permissive", val |-> <<>>]
PermissiveOff == [form |-> "plus", name |-> "permissive-off", val |-> <<>>]

\* The next option, with what is not an option returned in order.
getopt_long(argv, i, flags, valued) ==
  LET t == argv[i]
      Found(c, optarg, optind) == [c |-> c, optarg |-> optarg, optind |-> optind]
  IN  IF t.form \notin {"short", "long"} THEN Found("1", t.val, i + 1)
      ELSE IF t.name \in flags \/ (t.name \in valued /\ t.val # <<>>)
           THEN Found(t.name, t.val, i + 1)
      ELSE IF t.name \in valued /\ i < Len(argv)
           THEN Found(t.name, << argv[i + 1].name >>, i + 2)
      ELSE Found("?", <<>>, i + 1)

\* A loop over options: Step changes a state with optind and end, and runs at
\* every optind until the end is known.
Options(Step(_), first, argv) ==
  FoldLeft(LAMBDA st, i : IF st.end = "more" /\ st.optind = i THEN Step(st) ELSE st,
           first, [i \in 1 .. Len(argv) |-> i])

LegacyPlus(t) ==
  t.form = "plus" /\ t.name \in EmulatorPluses /\ (t.name = "max-cycles" => t.val # <<>>)

\* main: the simulator's options end at the first of the host's, long or with a
\* plus, or at a word.  The list of Verilog arguments is taken to have an end.
Emulator(argv, st) ==
  LET t    == argv[st.optind]
      g    == getopt_long(argv, st.optind, EmulatorFlags \cup Help \cup HostOptional,
                          EmulatorValued \cup HostValued)
      host == t.form = "plus" /\ t.name \in {"help"} \cup HostOptional \cup HostValued
  IN  IF g.c = "?" THEN [st EXCEPT !.end = "usage"]
      ELSE IF g.c \in Help THEN [st EXCEPT !.end = "help"]
      ELSE IF g.c \in EmulatorFlags \cup EmulatorValued \/ LegacyPlus(t)
           THEN [st EXCEPT !.optind = g.optind]
      ELSE IF g.c = "1" /\ t.form # "word" /\ ~host THEN [st EXCEPT !.end = "usage"]
      ELSE [optind |-> g.optind - 1, end |-> "host"]

Rest(argv, optind) == SubSeq(argv, optind, Len(argv))
main_options(argv) ==
  LET st   == Options(LAMBDA s : Emulator(argv, s), [optind |-> 1, end |-> "more"], argv)
      rest == Rest(argv, st.optind)
  IN  [end  |-> IF st.end \in {"usage", "help"} THEN st.end
                ELSE IF rest = <<>> THEN "usage" ELSE "host",
       argv |-> rest]

\* sanitize_args: the arguments outside of +permissive ... +permissive-off, with
\* two pluses taken off those that are longer than three characters.
sanitize_argsKeepOff(argv) == SelectSeq(argv, LAMBDA t : t # Permissive)
sanitize_args(argv) ==
  LET Bare(t) == IF t.form = "plusplus" /\ Len(t.name) > 1 THEN [t EXCEPT !.form = "word"] ELSE t
      Step(st, t) ==
        LET on == st.on \/ t = Permissive
        IN  [on |-> on /\ t # PermissiveOff, out |-> IF on THEN st.out ELSE Append(st.out, Bare(t))]
  IN  FoldLeft(Step, [on |-> FALSE, out |-> <<>>], argv).out

\* parse_arguments: an option with a plus is read as the long one, and a word
\* is the program unless parsing is permissive.
Host(argv, st) ==
  LET t    == argv[st.optind]
      g    == getopt_long(argv, st.optind, Help \cup HostOptional, HostValued)
      plus == t.form = "plus" /\ (t.name \in HostOptional \/ (t.name \in HostValued /\ t.val # <<>>))
      c    == IF plus THEN t.name ELSE g.c
      next == [st EXCEPT !.optind = g.optind]
      throws == [st EXCEPT !.end = "throws"]
  IN  CASE c \in Help \cup {"disk"} -> throws
        [] c = "?"         -> IF st.opterr THEN throws ELSE next
        [] c = "rfb"       -> [next EXCEPT !.rfb = TRUE]
        [] c = "signature" -> [next EXCEPT !.sig_file = g.optarg]
        [] c = "chroot"    -> [next EXCEPT !.chroot = g.optarg]
        [] t = PermissiveOff -> IF st.opterr THEN throws ELSE [next EXCEPT !.opterr = TRUE]
        [] t = Permissive  -> IF ~st.opterr THEN throws ELSE [next EXCEPT !.opterr = FALSE]
        [] OTHER           -> IF st.opterr THEN [st EXCEPT !.end = "host"] ELSE next

\* chroot is what it was unless there is an option for it.
parse_arguments(argv, chroot) ==
  LET st == Options(LAMBDA s : Host(argv, s),
                    [optind |-> 1, end |-> "more", opterr |-> TRUE, sig_file |-> <<>>, chroot |-> chroot,
                     rfb |-> FALSE],
                    argv)
      targs == Rest(argv, st.optind)
  IN  [end |-> IF st.end = "throws" \/ targs = <<>> THEN "throws" ELSE "host",
       args |-> targs, signature |-> st.sig_file, chroot |-> st.chroot, rfb |-> st.rfb]
============================================================================
