---------------------------- MODULE MCStoreUnit ----------------------------
(***************************************************************************)
(* StoreUnit with short queues, so that both fill up, wrap and make an     *)
(* operation wait.                                                         *)
(***************************************************************************)
EXTENDS StoreUnit
============================================================================
