---------------------------- MODULE ContextProofs ----------------------------
(***************************************************************************)
(* For every set of contexts: the threads of context.cc never run user     *)
(* code together (OneRunsHolds), and they implement the coroutines that    *)
(* context.h promises (CoroutineImplemented).                              *)
(*                                                                         *)
(* OneRuns is not inductive, for a flag is set while its thread is far     *)
(* from "run".  The turn is: it is held by the one context whose flag is   *)
(* set, or that is about to set another's, and "run" is only reached with  *)
(* the flag.                                                               *)
(***************************************************************************)
EXTENDS Context, TLAPS

\* A context passes the turn to another one, which exists.
PassesOn(c) ==
  pc[c] = "pass" => flag[c] = 0 /\ dest[c] # c /\ pc[dest[c]] # "none"

TurnInv ==
  /\ ContextTypeOK
  /\ \E c \in Contexts : HasTurn(c)
  /\ \A c, d \in Contexts : HasTurn(c) /\ HasTurn(d) => c = d
  /\ \A c \in Contexts : (pc[c] = "run" => flag[c] = 1) /\ PassesOn(c)

\* The initial state of context_t, with the main thread in user code.
LEMMA TurnInit == ContextInit => TurnInv
<1> SUFFICES ASSUME ContextInit PROVE TurnInv
  OBVIOUS
<1>1. ContextTypeOK
  BY ContextAssumption DEF ContextInit, ContextTypeOK
<1>2. HasTurn(Main)
  BY ContextAssumption DEF ContextInit, HasTurn
<1>3. ASSUME NEW c \in Contexts, HasTurn(c) PROVE c = Main
  BY <1>3 DEF ContextInit, HasTurn
<1>4. ASSUME NEW c \in Contexts PROVE (pc[c] = "run" => flag[c] = 1) /\ PassesOn(c)
  BY DEF ContextInit, PassesOn
<1> QED BY <1>1, <1>2, <1>3, <1>4, ContextAssumption DEF TurnInv

\* Creating a context (context_t::init) hands the turn to it.
LEMMA InitStep ==
  ASSUME TurnInv, NEW c \in Contexts, NEW n \in Contexts, init(c, n)
  PROVE  TurnInv' /\ HasTurn(c) /\ HasTurn(n)'
<1>1. HasTurn(c) /\ flag[c] = 1 /\ c # n
  BY DEF init, TurnInv, HasTurn
<1>2. ContextTypeOK'
  BY DEF init, TurnInv, ContextTypeOK
<1>3. HasTurn(n)'
  BY DEF init, HasTurn, TurnInv, ContextTypeOK
<1>4. ASSUME NEW d \in Contexts, HasTurn(d)' PROVE d = n
  BY <1>1, <1>4 DEF init, HasTurn, TurnInv, ContextTypeOK
<1>5. ASSUME NEW d \in Contexts PROVE (pc[d] = "run" => flag[d] = 1)' /\ PassesOn(d)'
  BY <1>1 DEF init, HasTurn, TurnInv, ContextTypeOK, PassesOn
<1> QED BY <1>1, <1>2, <1>3, <1>4, <1>5 DEF TurnInv

\* The first step of switch_to keeps the turn.
LEMMA SwitchStep ==
  ASSUME TurnInv, NEW c \in Contexts, NEW d \in Contexts, switch_to(c, d)
  PROVE  TurnInv' /\ \A x \in Contexts : HasTurn(x)' <=> HasTurn(x)
<1>1. HasTurn(c)
  BY DEF switch_to, TurnInv, HasTurn
<1>2. ContextTypeOK'
  BY DEF switch_to, Goto, TurnInv, ContextTypeOK
<1>3. ASSUME NEW x \in Contexts PROVE HasTurn(x)' <=> HasTurn(x)
  BY <1>1 DEF switch_to, Goto, HasTurn, TurnInv, ContextTypeOK
<1>4. ASSUME NEW x \in Contexts PROVE (pc[x] = "run" => flag[x] = 1)' /\ PassesOn(x)'
  BY <1>1 DEF switch_to, Goto, HasTurn, TurnInv, ContextTypeOK, PassesOn
<1> QED BY <1>2, <1>3, <1>4 DEF TurnInv

\* The write of the other's flag, outside its mutex, is what passes the turn.
LEMMA PassStep ==
  ASSUME TurnInv, NEW c \in Contexts, PassFlag(c)
  PROVE  TurnInv' /\ HasTurn(c) /\ HasTurn(dest[c])'
<1>1. HasTurn(c) /\ flag[c] = 0 /\ dest[c] # c /\ dest[c] \in Contexts /\ pc[dest[c]] # "none"
  BY DEF PassFlag, TurnInv, HasTurn, PassesOn, ContextTypeOK
<1>2. ContextTypeOK'
  BY DEF PassFlag, Goto, TurnInv, ContextTypeOK
<1>3. HasTurn(dest[c])' /\ dest' = dest
  <2>1. flag'[dest[c]] = 1
    BY <1>1 DEF PassFlag, TurnInv, ContextTypeOK
  <2> QED BY <2>1 DEF PassFlag, HasTurn
<1>4. ASSUME NEW d \in Contexts, HasTurn(d)' PROVE d = dest[c]
  BY <1>1, <1>4 DEF PassFlag, Goto, HasTurn, TurnInv, ContextTypeOK
<1>5. ASSUME NEW d \in Contexts PROVE (pc[d] = "run" => flag[d] = 1)' /\ PassesOn(d)'
  BY <1>1 DEF PassFlag, Goto, HasTurn, TurnInv, ContextTypeOK, PassesOn
<1> QED BY <1>1, <1>2, <1>3, <1>4, <1>5 DEF TurnInv

\* The mutex, the signal and the wait only move a thread between places
\* without the turn, or to "run" once its flag is set.
LEMMA QuietStep ==
  ASSUME TurnInv, NEW c \in Contexts,
         LockOther(c) \/ Signal(c) \/ LockSelf(c) \/ Test(c) \/ SpuriousWakeup(c)
  PROVE  /\ TurnInv'
         /\ \A x \in Contexts : HasTurn(x)' <=> HasTurn(x)
         /\ \A x \in Contexts : (pc[x] = "none") <=> (pc[x] = "none")'
<1>1. ContextTypeOK'
  BY DEF LockOther, Signal, LockSelf, Test, SpuriousWakeup, Goto, TurnInv, ContextTypeOK
<1>2. flag' = flag /\ dest' = dest
  BY DEF LockOther, Signal, LockSelf, Test, SpuriousWakeup
<1>3. ASSUME NEW x \in Contexts
      PROVE  /\ pc[x] \in {"none", "wrapper", "pass"} \/ pc'[x] \in {"none", "wrapper", "pass"}
                  => pc'[x] = pc[x]
             /\ pc'[x] = "run" => pc[x] = "run" \/ flag[x] = 1
  BY DEF LockOther, Signal, LockSelf, Test, SpuriousWakeup, Goto, TurnInv, ContextTypeOK
<1>4. \A x \in Contexts : HasTurn(x)' <=> HasTurn(x)
  BY <1>2, <1>3 DEF HasTurn
<1>5. ASSUME NEW x \in Contexts PROVE (pc[x] = "run" => flag[x] = 1)' /\ PassesOn(x)'
  BY <1>2, <1>3 DEF PassesOn, TurnInv, ContextTypeOK
<1> QED BY <1>1, <1>3, <1>4, <1>5 DEF TurnInv

\* A step of a context is one of these.
LEMMA StepKinds ==
  ASSUME ContextTypeOK, ContextNext
  PROVE  \E c \in Contexts :
           \/ \E n \in Contexts : init(c, n)
           \/ \E d \in Contexts : switch_to(c, d)
           \/ PassFlag(c)
           \/ LockOther(c) \/ Signal(c) \/ LockSelf(c) \/ Test(c) \/ SpuriousWakeup(c)
<1>1. PICK c \in Contexts : \/ ThreadStep(c) \/ SpuriousWakeup(c)
                            \/ \E d \in Contexts : init(c, d) \/ switch_to(c, d)
  BY DEF ContextNext
<1>2. creator[c] \in Contexts
  BY DEF ContextTypeOK
<1> QED BY <1>1, <1>2 DEF ThreadStep

LEMMA TurnStep == TurnInv /\ [ContextNext]_cvars => TurnInv'
<1> SUFFICES ASSUME TurnInv, [ContextNext]_cvars PROVE TurnInv'
  OBVIOUS
<1>1. CASE ContextNext
  BY <1>1, StepKinds, InitStep, SwitchStep, PassStep, QuietStep DEF TurnInv
<1>2. CASE UNCHANGED cvars
  BY <1>2 DEF TurnInv, cvars, HasTurn, PassesOn, ContextTypeOK
<1> QED BY <1>1, <1>2

\* The turn is kept: exactly one context has it at any time.
THEOREM TurnHeld == ContextSpec => []TurnInv
<1> QED BY TurnInit, TurnStep, PTL DEF ContextSpec

\* Program counters, flags and mutexes have their types.
THEOREM ContextTypeCorrect == ContextSpec => []ContextTypeOK
<1>1. TurnInv => ContextTypeOK
  BY DEF TurnInv
<1> QED BY <1>1, TurnHeld, PTL

\* Two threads are never in user code at once, whatever contexts there are and
\* whichever of them switches to which.
THEOREM OneRunsHolds == ContextSpec => []OneRuns
<1>1. TurnInv => OneRuns
  BY DEF TurnInv, OneRuns, HasTurn
<1> QED BY <1>1, TurnHeld, PTL

----------------------------------------------------------------------------
\* The refinement: cur is the holder of the turn, created the contexts with a
\* thread.

LEMMA HolderIs ==
  ASSUME TurnInv, NEW c \in Contexts, HasTurn(c)
  PROVE  Holder = c
BY DEF TurnInv, Holder

LEMMA HolderIsNext ==
  ASSUME TurnInv', NEW c \in Contexts, HasTurn(c)'
  PROVE  Holder' = c
BY DEF TurnInv, Holder

\* If nobody gains or loses the turn, it is held by the same one.
LEMMA HolderStays ==
  ASSUME TurnInv, TurnInv', \A x \in Contexts : HasTurn(x)' <=> HasTurn(x)
  PROVE  Holder' = Holder
<1>1. PICK c \in Contexts : HasTurn(c)
  BY DEF TurnInv
<1> QED BY <1>1, HolderIs, HolderIsNext

Created == {c \in Contexts : pc[c] # "none"}

LEMMA RefinementInit == ContextInit => Swapped!Init
<1> SUFFICES ASSUME ContextInit PROVE Swapped!Init
  OBVIOUS
<1>1. Holder = Main
  BY TurnInit, HolderIs, ContextAssumption DEF ContextInit, HasTurn
<1>2. Created = {Main}
  BY ContextAssumption DEF ContextInit, Created
<1> QED BY <1>1, <1>2 DEF Swapped!Init, Created

LEMMA RefinementStep ==
  TurnInv /\ TurnInv' /\ [ContextNext]_cvars => [Swapped!Next]_<<Holder, Created>>
<1> SUFFICES ASSUME TurnInv, TurnInv', [ContextNext]_cvars
             PROVE  [Swapped!Next]_<<Holder, Created>>
  OBVIOUS
<1>1. ASSUME NEW c \in Contexts, NEW n \in Contexts, init(c, n)
      PROVE  Swapped!Next
  <2>1. Holder' = n
    BY <1>1, InitStep, HolderIsNext
  <2>2. n \in Contexts \ Created /\ Created' = Created \cup {n}
    BY <1>1 DEF init, Created, TurnInv, ContextTypeOK
  <2> QED BY <2>1, <2>2 DEF Swapped!Next, Swapped!Create, Created
<1>2. ASSUME NEW c \in Contexts, NEW d \in Contexts, switch_to(c, d)
      PROVE  UNCHANGED <<Holder, Created>>
  <2>1. Holder' = Holder
    BY <1>2, SwitchStep, HolderStays
  <2>2. Created' = Created
    BY <1>2 DEF switch_to, Goto, Created, TurnInv, ContextTypeOK
  <2> QED BY <2>1, <2>2
<1>3. ASSUME NEW c \in Contexts, PassFlag(c)
      PROVE  Swapped!Next
  <2>1. Holder = c /\ dest[c] \in Contexts
    BY <1>3, PassStep, HolderIs DEF TurnInv, ContextTypeOK
  <2>2. Holder' = dest[c]
    <3>1. HasTurn(dest[c])' /\ dest' = dest
      BY <1>3, PassStep DEF PassFlag
    <3> QED BY <2>1, <3>1, HolderIsNext
  <2>3. dest[c] \in Created \ {c} /\ Created' = Created
    BY <1>3, <2>1 DEF PassFlag, Goto, Created, TurnInv, ContextTypeOK, PassesOn
  <2> QED BY <2>1, <2>2, <2>3 DEF Swapped!Next, Swapped!switch_to, Created
<1>4. ASSUME NEW c \in Contexts,
             LockOther(c) \/ Signal(c) \/ LockSelf(c) \/ Test(c) \/ SpuriousWakeup(c)
      PROVE  UNCHANGED <<Holder, Created>>
  <2>1. Holder' = Holder
    BY <1>4, QuietStep, HolderStays
  <2>2. Created' = Created
    BY <1>4, QuietStep DEF Created
  <2> QED BY <2>1, <2>2
<1>5. CASE ContextNext
  BY <1>1, <1>2, <1>3, <1>4, <1>5, StepKinds DEF TurnInv
<1>6. CASE UNCHANGED cvars
  <2>1. \A x \in Contexts : HasTurn(x)' <=> HasTurn(x)
    BY <1>6 DEF cvars, HasTurn
  <2>2. Created' = Created
    BY <1>6 DEF cvars, Created
  <2> QED BY <2>1, <2>2, HolderStays
<1> QED BY <1>5, <1>6

\* The threads behave as contexts that swapcontext switches: exactly one runs,
\* and only it creates another or hands over to one that exists.
THEOREM CoroutineImplemented == ContextSpec => ImplementsCoroutine
<1>1. TurnInv /\ TurnInv' /\ [ContextNext]_cvars => [Swapped!Next]_<<Holder, Created>>
  BY RefinementStep
<1> QED BY <1>1, RefinementInit, TurnHeld, PTL
     DEF ContextSpec, ImplementsCoroutine, Swapped!Spec, Created
=============================================================================
