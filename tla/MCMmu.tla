------------------------------- MODULE MCMmu -------------------------------
(***************************************************************************)
(* Mmu on a handful of page tables that between them hold every kind of    *)
(* entry: pointers, pages of all three sizes, invalid, reserved and        *)
(* misaligned entries, and pages without one of the rights.                *)
(***************************************************************************)
EXTENDS Mmu

Flags(r, w, x) == [v |-> TRUE, r |-> r, w |-> w, x |-> x, u |-> FALSE, g |-> FALSE,
                   a |-> TRUE, d |-> TRUE, ppn |-> 100, align |-> 1]

RWX      == Flags(TRUE, TRUE, TRUE)
Pointer(t) == [Flags(FALSE, FALSE, FALSE) EXCEPT !.ppn = t]
Unmapped == [RWX EXCEPT !.v = FALSE]
Reserved == Flags(FALSE, TRUE, TRUE)
Skewed   == [RWX EXCEPT !.align = 3, !.ppn = 101]
ReadOnly == Flags(TRUE, FALSE, FALSE)
Clean    == [RWX EXCEPT !.d = FALSE]
Unused   == [RWX EXCEPT !.a = FALSE]
ExecOnly == Flags(FALSE, FALSE, TRUE)
User     == [RWX EXCEPT !.u = TRUE, !.ppn = 102]

\* Root table 0 (and 1), second level table 2, third level table 3; each
\* has the entries 0 and 1.
Memory(root1, a1, b0, b1) ==
  [addr \in (0 .. 3) \X {0, 1} |->
     CASE addr \in {<<0, 0>>, <<1, 0>>} -> Pointer(2)
       [] addr \in {<<0, 1>>, <<1, 1>>} -> root1
       [] addr = <<2, 0>> -> Pointer(3)
       [] addr = <<2, 1>> -> a1
       [] addr = <<3, 0>> -> b0
       [] addr = <<3, 1>> -> b1]

AllTables == {
  Memory(RWX, RWX, RWX, User),
  Memory(Unmapped, Reserved, Pointer(3), ReadOnly),
  Memory(Skewed, Skewed, Skewed, Clean),
  Memory(User, Pointer(3), Unused, ExecOnly) }
TwoTables == { Memory(RWX, RWX, RWX, User), Memory(Pointer(2), Unmapped, Skewed, ReadOnly) }
ExecTable == { Memory(RWX, RWX, RWX, ExecOnly) }

LowPage  == <<0, 0, 1>>
MidPage  == <<0, 1, 0>>
HighPage == <<1, 0, 0>>

Supervisor == {[priv |-> "S", sum |-> FALSE, mxr |-> FALSE]}
Privileges == {[priv |-> "S", sum |-> FALSE, mxr |-> FALSE], [priv |-> "S", sum |-> TRUE, mxr |-> FALSE],
               [priv |-> "U", sum |-> FALSE, mxr |-> FALSE]}
Mxr        == {[priv |-> "S", sum |-> FALSE, mxr |-> m] : m \in BOOLEAN}
Setup(a, l, s, f, t, e, c) ==
  [asids |-> a, lsu |-> l, stores |-> s, fetch |-> f, tables |-> t, editable |-> e, contexts |-> c]

\* Both interfaces at work while software edits the tables; loads between the
\* fetches; two pages fetched; every kind of page under every privilege; pages of two sizes; two
\* address spaces; and a change of MXR.
Edited  == Setup({0}, {LowPage}, {TRUE}, {LowPage}, TwoTables, TRUE, Supervisor)
Mixed   == Setup({0}, {LowPage}, {FALSE}, {LowPage}, ExecTable, FALSE, Supervisor)
Fetched == Setup({0}, {}, {}, {LowPage, <<0, 0, 0>>}, TwoTables, TRUE, Supervisor)
Kind(p) == Setup({0}, {p}, BOOLEAN, {}, AllTables, FALSE, Privileges)
Sizes   == Setup({0}, {LowPage, HighPage}, {FALSE}, {}, TwoTables, FALSE, Supervisor)
Spaces  == Setup({0, 1}, {}, {}, {LowPage}, TwoTables, TRUE, Supervisor)
MxrEdit == Setup({0}, {LowPage}, BOOLEAN, {}, ExecTable, FALSE, Mxr)

AllSetups == [edited |-> Edited, mixed |-> Mixed, fetched |-> Fetched, low |-> Kind(LowPage), mid |-> Kind(MidPage),
              high |-> Kind(HighPage), sizes |-> Sizes, spaces |-> Spaces]
MxrChange == [mxr |-> MxrEdit]
============================================================================
