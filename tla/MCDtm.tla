------------------------------- MODULE MCDtm -------------------------------
(***************************************************************************)
(* Dtm with two double words of memory, and chunks of up to three, some  *)
(* of which run into the address that is not there.                        *)
(***************************************************************************)
EXTENDS Dtm

Memory   == 0 .. 1
Program  == [s0 |-> <<90, 91>>, s1 |-> <<92, 93>>]
A == <<5, 6>>
B == <<7, 8>>
SomeChunks == {<<B>>, <<A, B>>, <<A, B, A>>}
Entry0   == <<80, 81>>
============================================================================
