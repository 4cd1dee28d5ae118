----------------------------- MODULE StoreQueue -----------------------------
(***************************************************************************)
(* What the store buffer promises, with no ring, pointer or counter: two   *)
(* FIFO queues of bounded length.  Stores enter the speculative queue,     *)
(* move to the committed queue in the order they entered, and leave it     *)
(* towards the data cache in that order.  A flush empties the speculative  *)
(* queue and never touches a committed store.                              *)
(***************************************************************************)
EXTENDS Naturals, Sequences

CONSTANTS Store, Empty, SpecBound, CommitBound

VARIABLES speculative, committed

Init ==
  /\ speculative = << >>
  /\ committed = << >>

Enqueue(queue, store) == IF store = Empty THEN queue ELSE Append(queue, store)

\* One cycle: any combination of a push, a commit, a drain and a flush.
Step(store, commit, flush, drain) ==
  /\ commit => speculative # << >> /\ ~flush
  /\ drain => committed # << >>
  /\ LET rest == IF commit THEN Tail(speculative) ELSE speculative
     IN  speculative' = IF flush THEN << >> ELSE Enqueue(rest, store)
  /\ LET rest == IF drain THEN Tail(committed) ELSE committed
     IN  committed' = IF commit THEN Append(rest, Head(speculative)) ELSE rest
  /\ Len(speculative') <= SpecBound
  /\ Len(committed') <= CommitBound

Next ==
  \E store \in Store \cup {Empty}, commit, flush, drain \in BOOLEAN :
    Step(store, commit, flush, drain)

Spec == Init /\ [][Next]_<<speculative, committed>>
=============================================================================
