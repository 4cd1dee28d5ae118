------------------------------- MODULE Loader -------------------------------
(***************************************************************************)
(* The three loaders of a program image: load_elf of the host through the  *)
(* memory interface (fesvr/elfloader.cc), the same into a hex file         *)
(* (elf2hex.cc, htif_hexwriter.cc), and the sideband of the ModelSim       *)
(* testbench (tb/dpi/elfloader.cc), which writes rows of eight bytes.      *)
(*                                                                         *)
(* An image has segments, sections and the symbols of its .symtab, each a  *)
(* sequence of the records below.                                          *)
(***************************************************************************)
EXTENDS Memif

CONSTANT RowBytes   \* bytes of a row of main memory, eight in ariane_tb.sv

ASSUME LoaderAssumption == RowBytes \in Nat \ {0}

\* file is the bytes in the file, memsz the length in memory.
Segment(load, paddr, file, memsz) == [load |-> load, paddr |-> paddr, file |-> file, memsz |-> memsz]
Section(name, type) == [name |-> name, type |-> type]
Symbol(name, value) == [name |-> name, value |-> value]

\* The file's bytes if there are any, then zeros up to memsz, also if none.
LoadSegmentNoBss(c, m, s) ==
  IF ~s.load \/ s.memsz = 0 \/ s.file = <<>> THEN m ELSE write(c, m, s.paddr, s.file)
LoadSegment(c, m, s) ==
  LET Part(memory, part) == write(c, memory, part.at, part.bytes)
      file == [at |-> s.paddr, bytes |-> s.file]
      bss  == [at |-> s.paddr + Len(s.file), bytes |-> Zeros(s.memsz - Len(s.file))]
  IN  IF ~s.load \/ s.memsz = 0 THEN m
      ELSE Sequentially(Part, m, IF s.file = <<>> THEN << bss >> ELSE << file, bss >>)

load_elf(c, m, segs) == Sequentially(LAMBDA memory, s : LoadSegment(c, memory, s), m, segs)

\* The symbols of an image that has both tables, none with index zero: a later
\* symbol of a name replaces an earlier one.
SHT_NOBITS == 8
LastIndex(shs, name) ==
  Max({0} \cup {i - 1 : i \in {j \in 1 .. Len(shs) :
                  shs[j].name = name /\ (shs[j].type \div SHT_NOBITS) % 2 = 0}})
symbols(image) ==
  LET names == {image.syms[i].name : i \in 1 .. Len(image.syms)}
      both  == LastIndex(image.sections, ".strtab") > 0 /\ LastIndex(image.sections, ".symtab") > 0
  IN  [n \in IF both THEN names ELSE {} |->
         LET s == SelectLastInSeq(image.syms, LAMBDA t : t.name = n) IN image.syms[s].value]

\* elf2hex starts from words that are not there, which print as zeros.
hexwriter(width) == [align |-> width, max |-> width, clears |-> FALSE]
elf2hex(width, addrs, segs) == load_elf(hexwriter(width), [a \in addrs |-> 0], segs)

----------------------------------------------------------------------------
\* The sideband.  read_elf keeps a section for a segment with bytes in the
\* file; mems keeps the first contents that an address is given.
HasBytes(s) == s.load /\ s.memsz > 0 /\ s.file # <<>>
sections(segs) == {i \in 1 .. Len(segs) : HasBytes(segs[i])}
read_section(segs, a) == segs[Min({i \in sections(segs) : segs[i].paddr = a})].file

\* ariane_tb.sv makes a buffer of len zeros, has it filled from the start, and
\* writes its whole rows, from the row the address is in.
Row(m, s, file) ==
  LET buffer == Overlay(Zeros(s.memsz), 1, file)
      rows   == Len(buffer) \div RowBytes
  IN  Overlay(m, (s.paddr \div RowBytes) * RowBytes, SubSeq(buffer, 1, rows * RowBytes))
Preload(m, segs) ==
  LET Next_section(memory, i) ==
        IF i \in sections(segs) THEN Row(memory, segs[i], read_section(segs, segs[i].paddr))
        ELSE memory
  IN  Sequentially(Next_section, m, [i \in 1 .. Len(segs) |-> i])

----------------------------------------------------------------------------
\* What a loader is for: memory as the last segment that covers an address
\* has it, and as it was elsewhere.
Covers(s, a) == s.load /\ a \in s.paddr .. s.paddr + s.memsz - 1
Loaded(m, segs) ==
  [a \in DOMAIN m |->
     LET over == {i \in 1 .. Len(segs) : Covers(segs[i], a)}
         s    == segs[Max(over)]
     IN  IF over = {} THEN m[a]
         ELSE IF a < s.paddr + Len(s.file) THEN s.file[a - s.paddr + 1] ELSE 0]

\* Legal segments that lie in a memory of S bytes.
SegmentFits(S, s) ==
  /\ s.load \in BOOLEAN /\ s.paddr \in Nat /\ s.memsz \in Nat /\ s.file \in Seq(Int)
  /\ Len(s.file) <= s.memsz
  /\ s.load => s.paddr + s.memsz <= S
ImageFits(S, D, m, segs) ==
  /\ S \in Nat /\ D = 0 .. S - 1 /\ m \in [D -> Int] /\ Len(segs) \in Nat
  /\ \A i \in 1 .. Len(segs) : SegmentFits(S, segs[i])

\* Images the sideband can load: sections on whole rows, apart from each other.
WholeRows(segs) ==
  /\ \A i \in 1 .. Len(segs) : segs[i].load /\ segs[i].memsz > 0 =>
       segs[i].file # <<>> /\ segs[i].paddr % RowBytes = 0 /\ segs[i].memsz % RowBytes = 0
Apart(segs) ==
  \A i, j \in 1 .. Len(segs) : i < j => ~\E a \in segs[i].paddr .. segs[i].paddr + segs[i].memsz - 1 :
                                            Covers(segs[i], a) /\ Covers(segs[j], a)
============================================================================
