------------------------------- MODULE MCTsi -------------------------------
(***************************************************************************)
(* Tsi with words of eight values and three words of memory, one of which  *)
(* needs both words of an address.                                         *)
(***************************************************************************)
EXTENDS Tsi

Both     == {"host", "target"}
Memory   == {0, 4, 8}
============================================================================
