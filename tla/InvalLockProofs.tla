--------------------------- MODULE InvalLockProofs ---------------------------
(* InvalLock: the critical sections of backend_process.h exclude each other  *)
(* as long as no signal has interrupted a blocked sem_wait.                  *)
EXTENDS InvalLock, TLAPS

LEMMA InitType == Init => TypeOK
  <1> SUFFICES ASSUME Init
               PROVE  TypeOK
    OBVIOUS
  <1>1. sections \in 0 .. MaxSections
    BY LockAssumption DEF Init
  <1>2. interrupted \in BOOLEAN /\ crashed \subseteq Procs
    BY DEF Init
  <1>3. sem \in Nat /\ maxMsgNum \in Nat /\ stored \in Nat
    BY DEF Init
  <1>4. QED
    BY <1>1, <1>2, <1>3 DEF Init, TypeOK

LEMMA TypeInvariance == TypeOK /\ [Next]_vars => TypeOK'
  <1> SUFFICES ASSUME TypeOK, [Next]_vars
               PROVE  TypeOK'
    OBVIOUS
  <1>1. ASSUME NEW p \in Procs, Call(p)
        PROVE  TypeOK'
    <2>1. sections' \in 0 .. MaxSections
      BY <1>1, LockAssumption DEF Call, TypeOK
    <2>2. QED
      BY <1>1, <2>1 DEF Call, TypeOK
  <1>2. ASSUME NEW p \in Procs, Acquire(p)
        PROVE  TypeOK'
    <2>1. sem' \in Nat
      BY <1>2 DEF Acquire, TypeOK
    <2>2. QED
      BY <1>2, <2>1 DEF Acquire, TypeOK
  <1>3. ASSUME NEW p \in Procs, Interrupt(p) \/ Handle(p)
        PROVE  TypeOK'
    BY <1>3 DEF Interrupt, Handle, TypeOK
  <1>4. ASSUME NEW p \in Procs, NEW q \in Procs, Notify(p, q)
        PROVE  TypeOK'
    BY <1>4 DEF Notify, TypeOK
  <1>5. ASSUME NEW p \in Procs, Load(p) \/ Store(p)
        PROVE  TypeOK'
    BY <1>5 DEF Load, Store, TypeOK
  <1>6. ASSUME NEW p \in Procs, ClearSignaled(p) \/ Post(p)
        PROVE  TypeOK'
    BY <1>6 DEF ClearSignaled, Post, TypeOK
  <1>9. ASSUME NEW p \in Procs, Die(p)
        PROVE  TypeOK'
    BY <1>9 DEF Die, TypeOK
  <1>7. CASE UNCHANGED vars
    BY <1>7 DEF vars, TypeOK
  <1>8. QED
    BY <1>1, <1>2, <1>3, <1>4, <1>5, <1>6, <1>7, <1>9 DEF Next

\* The semaphore, the processes and the shared counter have their types.
THEOREM Typing == Spec => []TypeOK
  BY InitType, TypeInvariance, PTL DEF Spec

\* What an uninterrupted history keeps: the semaphore is 1 only when nobody
\* is inside or died there, and a loaded value is the current one.
Guarded ==
  /\ sem \in {0, 1}
  /\ sem = 1 => Inside \cup crashed = {}
  /\ MutualExclusion
  /\ \A p \in crashed : pc[p] = "dead"
  /\ \A p \in Procs : pc[p] = "loaded" => loaded[p] = maxMsgNum
  /\ maxMsgNum = stored

IInv == TypeOK /\ (~interrupted => Guarded)

LEMMA InitInv == Init => IInv
  <1> SUFFICES ASSUME Init
               PROVE  TypeOK /\ Guarded
    BY DEF IInv
  <1>1. TypeOK
    BY InitType
  <1>2. Inside = {}
    BY DEF Init, Inside
  <1>3. QED
    BY <1>1, <1>2 DEF Init, Guarded, MutualExclusion

LEMMA InvInvariance == IInv /\ [Next]_vars => IInv'
  <1> SUFFICES ASSUME IInv, [Next]_vars, ~interrupted'
               PROVE  Guarded'
    BY TypeInvariance DEF IInv
  <1>1. TypeOK /\ TypeOK'
    BY TypeInvariance DEF IInv
  <1>2. ~interrupted
    <2>1. interrupted => interrupted'
      BY DEF Next, vars, Call, Acquire, Interrupt, Handle, Notify, Load, Store,
             ClearSignaled, Post, Die
    <2>2. QED
      BY <2>1
  <1>3. Guarded
    BY <1>2 DEF IInv
  <1>4. ASSUME NEW p \in Procs, Call(p)
        PROVE  Guarded'
    <2>1. Inside' = Inside
      BY <1>1, <1>4 DEF Call, TypeOK, Inside
    <2>2. QED
      BY <1>1, <1>3, <1>4, <2>1 DEF Call, Guarded, MutualExclusion, TypeOK
  <1>5. ASSUME NEW p \in Procs, Acquire(p)
        PROVE  Guarded'
    <2>1. sem = 1 /\ Inside = {} /\ crashed = {}
      BY <1>3, <1>5 DEF Acquire, Guarded
    <2>2. Inside' = {p} /\ crashed' = {}
      BY <1>1, <1>5, <2>1 DEF Acquire, TypeOK, Inside
    <2>3. QED
      BY <1>1, <1>3, <1>5, <2>1, <2>2 DEF Acquire, Guarded, MutualExclusion, TypeOK
  <1>6. ASSUME NEW p \in Procs, Interrupt(p)
        PROVE  FALSE
    BY <1>6 DEF Interrupt
  <1>7. ASSUME NEW p \in Procs, Handle(p)
        PROVE  Guarded'
    BY <1>3, <1>7 DEF Handle, Guarded, MutualExclusion, Inside
  <1>8. ASSUME NEW p \in Procs, NEW q \in Procs, Notify(p, q)
        PROVE  Guarded'
    BY <1>3, <1>8 DEF Notify, Guarded, MutualExclusion, Inside
  <1>9. ASSUME NEW p \in Procs, Load(p)
        PROVE  Guarded'
    <2>1. Inside' = Inside
      BY <1>1, <1>9 DEF Load, TypeOK, Inside
    <2>2. QED
      BY <1>1, <1>3, <1>9, <2>1 DEF Load, Guarded, MutualExclusion, TypeOK
  <1>10. ASSUME NEW p \in Procs, Store(p)
         PROVE  Guarded'
    <2>1. Inside' = Inside /\ Inside = {p}
      BY <1>1, <1>3, <1>10 DEF Store, TypeOK, Inside, Guarded, MutualExclusion
    <2>2. \A q \in Procs : pc'[q] # "loaded"
      BY <1>1, <1>10, <2>1 DEF Store, TypeOK, Inside
    <2>3. QED
      BY <1>1, <1>3, <1>10, <2>1, <2>2 DEF Store, Guarded, MutualExclusion, TypeOK
  <1>11. ASSUME NEW p \in Procs, ClearSignaled(p)
         PROVE  Guarded'
    BY <1>3, <1>11 DEF ClearSignaled, Guarded, MutualExclusion, Inside
  <1>12. ASSUME NEW p \in Procs, Post(p)
         PROVE  Guarded'
    <2>1. p \in Inside
      BY <1>12 DEF Post, Inside
    <2>2. Inside = {p} /\ sem = 0 /\ crashed \subseteq {p}
      BY <1>3, <2>1 DEF Guarded, MutualExclusion
    <2>3. crashed = {}
      BY <1>3, <1>1, <2>1, <2>2 DEF Guarded, Inside
    <2>4. Inside' = {} /\ crashed' = {}
      BY <1>1, <1>12, <2>2, <2>3 DEF Post, TypeOK, Inside
    <2>5. QED
      BY <1>1, <1>3, <1>12, <2>2, <2>4 DEF Post, Guarded, MutualExclusion, TypeOK
  <1>13. ASSUME NEW p \in Procs, Die(p)
         PROVE  Guarded'
    <2>1. Inside' \cup crashed' = Inside \cup crashed
      BY <1>1, <1>13 DEF Die, TypeOK, Inside
    <2>2. QED
      BY <1>1, <1>3, <1>13, <2>1 DEF Die, Guarded, MutualExclusion, TypeOK
  <1>14. CASE UNCHANGED vars
    BY <1>3, <1>14 DEF vars, Guarded, MutualExclusion, Inside
  <1>15. QED
    BY <1>4, <1>5, <1>6, <1>7, <1>8, <1>9, <1>10, <1>11, <1>12, <1>13, <1>14
    DEF Next

\* For any number of backends: while no sem_wait has been interrupted, at most
\* one backend is inside and no increment of maxMsgNum is lost.
THEOREM LockWorksUninterrupted == Spec => []ExclusiveUnlessInterrupted
  <1>1. IInv => ExclusiveUnlessInterrupted
    BY DEF IInv, ExclusiveUnlessInterrupted, Guarded, MutualExclusion
  <1>2. QED
    BY <1>1, InitInv, InvInvariance, PTL DEF Spec

\* For any number of backends, signals and deaths: when the semaphore is taken,
\* a process is inside that will post it, or one has died there.
THEOREM NobodyWaitsInVain == Spec => []TakenHasHolder
  <1>1. Init => TakenHasHolder
    BY DEF Init, TakenHasHolder
  <1>2. TypeOK /\ TakenHasHolder /\ [Next]_vars => TakenHasHolder'
    <2> SUFFICES ASSUME TypeOK, TakenHasHolder, [Next]_vars, sem' = 0
                 PROVE  Inside' \cup crashed' # {}
      BY DEF TakenHasHolder
    <2>1. ASSUME NEW p \in Procs, Acquire(p) \/ Interrupt(p)
          PROVE  Inside' # {}
      BY <2>1 DEF Acquire, Interrupt, TypeOK, Inside
    <2>2. ASSUME NEW p \in Procs, Post(p)
          PROVE  FALSE
      BY <2>2 DEF Post, TypeOK
    <2>3. ASSUME NEW p \in Procs, Die(p)
          PROVE  Inside' \cup crashed' = Inside \cup crashed
      BY <2>3 DEF Die, TypeOK, Inside
    <2>4. ASSUME NEW p \in Procs, Die(p)
          PROVE  Inside' \cup crashed' # {}
      BY <2>3, <2>4 DEF Die, TakenHasHolder
    <2>5. ASSUME NEW p \in Procs,
                 \/ Call(p) \/ Handle(p) \/ \E q \in Procs : Notify(p, q)
                 \/ Load(p) \/ Store(p) \/ ClearSignaled(p)
          PROVE  Inside' = Inside /\ crashed' = crashed /\ sem' = sem
      BY <2>5 DEF Call, Handle, Notify, Load, Store, ClearSignaled, TypeOK, Inside
    <2>6. CASE UNCHANGED vars
      BY <2>6 DEF vars, TakenHasHolder, Inside
    <2>7. QED
      BY <2>1, <2>2, <2>4, <2>5, <2>6 DEF Next, TakenHasHolder
  <1>3. QED
    BY <1>1, <1>2, InitType, TypeInvariance, PTL DEF Spec
==============================================================================
