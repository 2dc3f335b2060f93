------------------------------ MODULE InvalLock ------------------------------
(***************************************************************************)
(* The semaphore g_sem around the critical sections of backend_process.h,   *)
(* one instruction at a time.  SharedInval takes every critical section as  *)
(* one step; this module asks when that is justified.                       *)
(*                                                                          *)
(* The holder sends SIGUSR1 while it is inside (send_shared_invalidation_   *)
(* messages calls kill before sem_post).  The handler is installed with     *)
(* sa_flags = 0, so the signal makes a blocked sem_wait return -1 with      *)
(* EINTR, and no caller looks at what sem_wait returns.                     *)
(***************************************************************************)
EXTENDS Integers

CONSTANTS
  Procs,       \* the backend processes
  MaxSections, \* bound: calls of sem_wait in a behaviour
  MaxStores    \* bound: messages published in a behaviour

ASSUME LockAssumption == MaxSections \in Nat /\ MaxStores \in Nat

VARIABLES
  sem,        \* the value of the semaphore
  pc,         \* "idle", "wait" (in sem_wait), "inside", "loaded", "dead"
  loaded,     \* maxMsgNum as the process loaded it for maxMsgNum++
  maxMsgNum,
  signaled,   \* processes whose BackendState.signaled is 1
  pending,    \* processes with a SIGUSR1 not yet delivered
  sections,   \* sem_wait calls so far
  stored,     \* history: executions of maxMsgNum++ that were completed
  interrupted, \* history: some sem_wait returned -1
  crashed     \* history: the processes that died inside

vars == <<sem, pc, loaded, maxMsgNum, signaled, pending, sections, stored,
          interrupted, crashed>>

Init ==
  /\ sem = 1
  /\ pc = [p \in Procs |-> "idle"]
  /\ loaded = [p \in Procs |-> 0]
  /\ maxMsgNum = 0
  /\ signaled = {} /\ pending = {}
  /\ sections = 0 /\ stored = 0
  /\ interrupted = FALSE /\ crashed = {}

Inside == {p \in Procs : pc[p] \in {"inside", "loaded"}}

-----------------------------------------------------------------------------
\* sem_wait is called
Call(p) ==
  /\ pc[p] = "idle" /\ sections < MaxSections
  /\ sections' = sections + 1
  /\ pc' = [pc EXCEPT ![p] = "wait"]
  /\ UNCHANGED <<sem, loaded, maxMsgNum, signaled, pending, stored, interrupted,
                 crashed>>

\* Mutant: sem_wait that does not take the semaphore.
AcquireUntaken(p) ==
  /\ pc[p] = "wait" /\ sem > 0
  /\ pc' = [pc EXCEPT ![p] = "inside"]
  /\ UNCHANGED <<sem, loaded, maxMsgNum, signaled, pending, sections, stored,
                 interrupted, crashed>>

\* sem_wait returns 0
Acquire(p) ==
  /\ pc[p] = "wait" /\ sem > 0
  /\ sem' = sem - 1
  /\ pc' = [pc EXCEPT ![p] = "inside"]
  /\ UNCHANGED <<loaded, maxMsgNum, signaled, pending, sections, stored,
                 interrupted, crashed>>

\* A signal arrives while sem_wait is blocked: the handler runs, sem_wait
\* returns -1 and the caller goes on as if it held the semaphore.
Interrupt(p) ==
  /\ pc[p] = "wait" /\ p \in pending /\ sem = 0
  /\ pending' = pending \ {p}
  /\ pc' = [pc EXCEPT ![p] = "inside"]
  /\ interrupted' = TRUE
  /\ UNCHANGED <<sem, loaded, maxMsgNum, signaled, sections, stored, crashed>>

\* the handler runs anywhere else and returns to where the process was
Handle(p) ==
  /\ p \in pending /\ pc[p] # "dead" /\ (pc[p] # "wait" \/ sem > 0)
  /\ pending' = pending \ {p}
  /\ UNCHANGED <<sem, pc, loaded, maxMsgNum, signaled, sections, stored,
                 interrupted, crashed>>

\* if (!signaled) { signaled = 1; kill(pid, SIGUSR1); }
Notify(p, q) ==
  /\ p \in Inside /\ q # p /\ q \notin signaled
  /\ signaled' = signaled \cup {q}
  /\ pending' = pending \cup {q}
  /\ UNCHANGED <<sem, pc, loaded, maxMsgNum, sections, stored, interrupted, crashed>>

\* buffer->maxMsgNum++, a load and a store
Load(p) ==
  /\ pc[p] = "inside" /\ stored < MaxStores
  /\ loaded' = [loaded EXCEPT ![p] = maxMsgNum]
  /\ pc' = [pc EXCEPT ![p] = "loaded"]
  /\ UNCHANGED <<sem, maxMsgNum, signaled, pending, sections, stored,
                 interrupted, crashed>>

Store(p) ==
  /\ pc[p] = "loaded"
  /\ maxMsgNum' = loaded[p] + 1
  /\ stored' = stored + 1
  /\ pc' = [pc EXCEPT ![p] = "inside"]
  /\ UNCHANGED <<sem, loaded, signaled, pending, sections, interrupted, crashed>>

\* the reset path of accept_invalidation_messages clears signaled
ClearSignaled(p) ==
  /\ pc[p] = "inside" /\ p \in signaled
  /\ signaled' = signaled \ {p}
  /\ UNCHANGED <<sem, pc, loaded, maxMsgNum, pending, sections, stored,
                 interrupted, crashed>>

\* Mutant: an early return leaves the section without sem_post.
PostForgotten(p) ==
  /\ pc[p] = "inside"
  /\ pc' = [pc EXCEPT ![p] = "idle"]
  /\ UNCHANGED <<sem, loaded, maxMsgNum, signaled, pending, sections, stored,
                 interrupted, crashed>>

\* sem_post
Post(p) ==
  /\ pc[p] = "inside"
  /\ sem' = sem + 1
  /\ pc' = [pc EXCEPT ![p] = "idle"]
  /\ UNCHANGED <<loaded, maxMsgNum, signaled, pending, sections, stored,
                 interrupted, crashed>>

\* A signal other than SIGUSR1, or a fault, ends the process wherever it is.
\* Nothing posts the semaphore for it, and its entry of backends[] stays.
Die(p) ==
  /\ pc[p] # "dead"
  /\ pc' = [pc EXCEPT ![p] = "dead"]
  /\ crashed' = IF p \in Inside THEN crashed \cup {p} ELSE crashed
  /\ UNCHANGED <<sem, loaded, maxMsgNum, signaled, pending, sections, stored,
                 interrupted>>

Next == \E p \in Procs :
  \/ Call(p) \/ Acquire(p) \/ Interrupt(p) \/ Handle(p)
  \/ \E q \in Procs : Notify(p, q)
  \/ Load(p) \/ Store(p) \/ ClearSignaled(p) \/ Post(p)
  \/ Die(p)

Spec == Init /\ [][Next]_vars
-----------------------------------------------------------------------------
TypeOK ==
  /\ sem \in Nat
  /\ pc \in [Procs -> {"idle", "wait", "inside", "loaded", "dead"}]
  /\ loaded \in [Procs -> Nat]
  /\ maxMsgNum \in Nat /\ stored \in Nat
  /\ signaled \subseteq Procs /\ pending \subseteq Procs
  /\ sections \in 0 .. MaxSections
  /\ interrupted \in BOOLEAN /\ crashed \subseteq Procs

\* At most one backend is between sem_wait and sem_post ("release the lock ...
\* and let the other waiting processes acquire it", backend_process.h:326), or
\* died there: nobody works on what a dead process has left half done.
MutualExclusion == \A p, q \in Inside \cup crashed : p = q

\* The lock works until a signal interrupts a blocked sem_wait: one process
\* inside, and every maxMsgNum++ counted.
ExclusiveUnlessInterrupted ==
  ~interrupted => MutualExclusion /\ maxMsgNum = stored

\* When the semaphore is taken, somebody is inside and will post it, even after
\* interrupted waits; otherwise all wait for a process that died inside.
TakenHasHolder == sem = 0 => Inside \cup crashed # {}

=============================================================================
