----------------------------- MODULE Coroutine -----------------------------
(***************************************************************************)
(* What context.h promises: contexts of which exactly one runs at a time,  *)
(* and which runs on until it switches to another.  It is also the build   *)
(* of context.cc for glibc, where a switch is one call of swapcontext.     *)
(***************************************************************************)
CONSTANTS Contexts, Main   \* Main is the thread that creates the others

VARIABLES
  cur,        \* the context that runs
  created     \* the contexts there are

Init == cur = Main /\ created = {Main}

\* context_t::init: the new context runs its wrapper, which goes back to its
\* creator before it calls func.
Create == \E n \in Contexts \ created : created' = created \cup {n} /\ cur' = n

switch_to(ctx) == ctx \in created \ {cur} /\ cur' = ctx /\ UNCHANGED created

Next == Create \/ \E ctx \in Contexts : switch_to(ctx)

Spec == Init /\ [][Next]_<<cur, created>>
============================================================================
