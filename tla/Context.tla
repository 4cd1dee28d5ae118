------------------------------ MODULE Context ------------------------------
(***************************************************************************)
(* The build of context.cc on POSIX threads: one thread for each context,  *)
(* each with a flag, a mutex and a condition variable of its own.  A step  *)
(* is one access to a flag or one call of pthreads.  User code runs in a   *)
(* thread only where its pc is "run"; which context it switches to, and    *)
(* when, is left open here and fixed by the modules that extend this one.  *)
(***************************************************************************)
CONSTANTS Contexts, Main

ASSUME ContextAssumption == Main \in Contexts

VARIABLES
  pc,        \* where the thread of a context is, "none" before it is created
  flag,      \* context_t::flag
  mutex,     \* the thread that holds context_t::mutex, or Free
  dest,      \* the context a thread is switching to
  creator    \* context_t::creator

cvars == <<pc, flag, mutex, dest, creator>>

Free == "free"
ASSUME FreeAssumption == Free \notin Contexts

ContextInit ==
  /\ pc = [c \in Contexts |-> IF c = Main THEN "run" ELSE "none"]
  /\ flag = [c \in Contexts |-> IF c = Main THEN 1 ELSE 0]
  /\ mutex = [c \in Contexts |-> Free]
  /\ dest = [c \in Contexts |-> c]
  /\ creator = [c \in Contexts |-> c]

Goto(c, l) == pc' = [pc EXCEPT ![c] = l]

initKeepFlag(c, n) ==
  /\ pc[c] = "run" /\ pc[n] = "none" /\ mutex[c] = Free
  /\ mutex' = [mutex EXCEPT ![c] = c]
  /\ creator' = [creator EXCEPT ![n] = c]
  /\ pc' = [pc EXCEPT ![c] = "test", ![n] = "wrapper"]
  /\ UNCHANGED <<flag, dest>>

\* init: assert(flag == 0), and take the creator's mutex and flag before the
\* thread starts in wrapper.
init(c, n) ==
  /\ pc[c] = "run" /\ pc[n] = "none" /\ mutex[c] = Free
  /\ mutex' = [mutex EXCEPT ![c] = c]
  /\ flag' = [flag EXCEPT ![c] = 0]
  /\ creator' = [creator EXCEPT ![n] = c]
  /\ pc' = [pc EXCEPT ![c] = "test", ![n] = "wrapper"]
  /\ UNCHANGED dest

\* switch_to: cur->flag = 0 ...
switch_toKeepFlag(c, d) ==
  /\ pc[c] = "run" \/ (pc[c] = "wrapper" /\ d = creator[c])
  /\ pc[d] # "none" /\ c # d
  /\ dest' = [dest EXCEPT ![c] = d]
  /\ Goto(c, "pass")
  /\ UNCHANGED <<flag, mutex, creator>>

switch_to(c, d) ==
  /\ pc[c] = "run" \/ (pc[c] = "wrapper" /\ d = creator[c])
  /\ pc[d] # "none" /\ c # d
  /\ flag' = [flag EXCEPT ![c] = 0]
  /\ dest' = [dest EXCEPT ![c] = d]
  /\ Goto(c, "pass")
  /\ UNCHANGED <<mutex, creator>>

\* ... this->flag = 1 ...
PassFlag(c) ==
  /\ pc[c] = "pass"
  /\ flag' = [flag EXCEPT ![dest[c]] = 1]
  /\ Goto(c, "lockOther")
  /\ UNCHANGED <<mutex, dest, creator>>

\* ... lock this->mutex ...
LockOther(c) ==
  /\ pc[c] = "lockOther" /\ mutex[dest[c]] = Free
  /\ mutex' = [mutex EXCEPT ![dest[c]] = c]
  /\ Goto(c, "signal")
  /\ UNCHANGED <<flag, dest, creator>>

SignalNobody(c) ==
  /\ pc[c] = "signal"
  /\ Goto(c, "lockSelf")
  /\ mutex' = [mutex EXCEPT ![dest[c]] = Free]
  /\ UNCHANGED <<flag, dest, creator>>

\* ... signal this->cond, on which only the thread of that context waits, and
\* unlock this->mutex ...
Signal(c) ==
  LET d == dest[c]
  IN  /\ pc[c] = "signal"
      /\ pc' = [pc EXCEPT ![c] = "lockSelf",
                          ![d] = IF @ = "wait" THEN "lockSelf" ELSE @]
      /\ mutex' = [mutex EXCEPT ![d] = Free]
      /\ UNCHANGED <<flag, dest, creator>>

\* ... lock cur->mutex; the same lock is taken again on the way out of
\* pthread_cond_wait ...
LockSelf(c) ==
  /\ pc[c] = "lockSelf" /\ mutex[c] = Free
  /\ mutex' = [mutex EXCEPT ![c] = c]
  /\ Goto(c, "test")
  /\ UNCHANGED <<flag, dest, creator>>

\* ... and while (!cur->flag) wait.  The loop of init is the same one.
Test(c) ==
  /\ pc[c] = "test"
  /\ mutex' = [mutex EXCEPT ![c] = Free]
  /\ Goto(c, IF flag[c] = 0 THEN "wait" ELSE "run")
  /\ UNCHANGED <<flag, dest, creator>>

\* pthread_cond_wait may return without a signal.
SpuriousWakeup(c) ==
  /\ pc[c] = "wait"
  /\ Goto(c, "lockSelf")
  /\ UNCHANGED <<flag, mutex, dest, creator>>

\* The steps of a thread outside user code.
ThreadStep(c) ==
  \/ switch_to(c, creator[c]) /\ pc[c] = "wrapper"
  \/ PassFlag(c) \/ LockOther(c) \/ Signal(c) \/ LockSelf(c) \/ Test(c)

ContextNext ==
  \E c \in Contexts :
    \/ ThreadStep(c) \/ SpuriousWakeup(c)
    \/ \E d \in Contexts : init(c, d) \/ switch_to(c, d)

ContextSpec == ContextInit /\ [][ContextNext]_cvars

----------------------------------------------------------------------------
\* The one context whose turn it is: it runs, has been told to, or is on its
\* way to telling another.
HasTurn(c) == flag[c] = 1 \/ pc[c] \in {"wrapper", "pass"}

\* Types of pcs, flags and mutexes.
ContextTypeOK ==
  /\ pc \in [Contexts -> {"none", "run", "wrapper", "pass", "lockOther", "signal",
                          "lockSelf", "test", "wait"}]
  /\ flag \in [Contexts -> {0, 1}]
  /\ mutex \in [Contexts -> Contexts \cup {Free}]
  /\ dest \in [Contexts -> Contexts]
  /\ creator \in [Contexts -> Contexts]

\* Host and target share the request and response buffers and queues without
\* a lock (dtm.cc, tsi.cc), on the promise that only one of them runs: never
\* are two contexts in user code at once, although flags are written outside
\* the mutexes.
OneRuns == \A c, d \in Contexts : pc[c] = "run" /\ pc[d] = "run" => c = d

\* The threads implement the contexts that swapcontext gives.
Holder == CHOOSE c \in Contexts : HasTurn(c)
Swapped == INSTANCE Coroutine WITH cur <- Holder,
                                   created <- {c \in Contexts : pc[c] # "none"}
ImplementsCoroutine == Swapped!Spec
============================================================================
