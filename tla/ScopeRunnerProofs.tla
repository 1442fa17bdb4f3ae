-------------------------- MODULE ScopeRunnerProofs --------------------------
(***************************************************************************)
(* Proofs about ScopeRunner for every set of workers and of stoppers.      *)
(*                                                                         *)
(* The inductive invariant is TypeOK, CountIsLocks and StopMeansStopped: a *)
(* thread for which stop() has returned left the counter negative.  The    *)
(* other facts follow: a negative counter means that no lock is alive, and *)
(* no step makes a negative counter anything else.                         *)
(***************************************************************************)
EXTENDS ScopeRunner, FiniteSetTheorems, TLAPS

StopMeansStopped == Returned # {} => count < 0

IInv == TypeOK /\ CountIsLocks /\ StopMeansStopped

\* The workers inside a scope are finitely many.
LEMMA InsideFinite ==
    /\ IsFiniteSet(Inside)
    /\ Cardinality(Inside) \in Nat
    /\ Cardinality(Inside) = 0 <=> Inside = {}
<1>1. Inside \subseteq Workers
  BY DEF Inside
<1>2. IsFiniteSet(Inside)
  BY <1>1, FS_Subset, ScopeAssumption DEF ScopeAssumption
<1>. QED
  BY <1>2, FS_CardinalityType, FS_EmptySet

\* The invariant holds initially.
LEMMA InitInv == Init => IInv
<1>. SUFFICES ASSUME Init PROVE IInv
  OBVIOUS
<1>1. TypeOK
  BY ScopeAssumption DEF Init, TypeOK, Threads, WorkerPc, StopperPc, ScopeAssumption
<1>2. Inside = {}
  BY DEF Init, Inside, Threads
<1>3. Returned = {}
  BY DEF Init, Returned, Threads
<1>. QED
  BY <1>1, <1>2, <1>3, FS_EmptySet DEF Init, IInv, CountIsLocks, StopMeansStopped

\* A worker which takes a lock joins those inside, and one more is inside.
LEMMA TakeLock ==
    ASSUME TypeOK, NEW w \in Workers, LockTaken(w)
    PROVE  /\ Inside' = Inside \union {w}
           /\ Cardinality(Inside') = Cardinality(Inside) + 1
           /\ Returned' = Returned
<1>1. w \notin Inside
  BY DEF LockTaken, Inside
<1>2. Inside' = Inside \union {w}
  BY DEF LockTaken, Inside, TypeOK, Threads
<1>3. Returned' = Returned
  BY ScopeAssumption DEF LockTaken, Returned, TypeOK, Threads, ScopeAssumption
<1>. QED
  BY <1>1, <1>2, <1>3, InsideFinite, FS_AddElement

\* A worker which releases its lock leaves, and one less is inside.
LEMMA DropLock ==
    ASSUME TypeOK, NEW w \in Workers, Release(w)
    PROVE  /\ w \in Inside
           /\ Inside' = Inside \ {w}
           /\ Cardinality(Inside') = Cardinality(Inside) - 1
           /\ Returned' = Returned
<1>1. w \in Inside
  BY DEF Release, Inside
<1>2. Inside' = Inside \ {w}
  BY DEF Release, Inside, TypeOK, Threads
<1>3. Returned' = Returned
  BY ScopeAssumption DEF Release, Returned, TypeOK, Threads, ScopeAssumption
<1>. QED
  BY <1>1, <1>2, <1>3, InsideFinite, FS_RemoveElement

\* The other steps of workers leave the locks and the stoppers alone.
LEMMA OtherWorkerSteps ==
    ASSUME TypeOK, NEW w \in Workers,
           LoadCount(w) \/ LockRetried(w) \/ LockRefused(w)
    PROVE  Inside' = Inside /\ Returned' = Returned /\ count' = count
<1>1. \A v \in Workers : (pc'[v] = "inside") <=> (pc[v] = "inside")
  BY DEF LoadCount, LockRetried, LockRefused, TypeOK, Threads
<1>2. \A s \in Stoppers : pc'[s] = pc[s]
  BY ScopeAssumption
  DEF LoadCount, LockRetried, LockRefused, TypeOK, Threads, ScopeAssumption
<1>. QED
  BY <1>1, <1>2 DEF Inside, Returned, LoadCount, LockRetried, LockRefused

\* Steps of stoppers leave the locks alone.
LEMMA StopperSteps ==
    ASSUME TypeOK, NEW s \in Stoppers, StopperNext(s)
    PROVE  Inside' = Inside
<1>1. \A v \in Workers : pc'[v] = pc[v]
  BY ScopeAssumption
  DEF StopperNext, CallStop, StopTakesEffect, AlreadyStopped, TypeOK, Threads,
      ScopeAssumption
<1>. QED
  BY <1>1 DEF Inside

\* Types are preserved; the counter stays above -2 because a lock is released
\* only while the counter counts it.
LEMMA TypeStep == IInv /\ [Next]_vars => TypeOK'
<1>. SUFFICES ASSUME IInv, [Next]_vars PROVE TypeOK'
  OBVIOUS
<1>. USE DEF IInv
<1>1. ASSUME NEW w \in Workers, LoadCount(w) PROVE TypeOK'
  BY <1>1, ScopeAssumption DEF LoadCount, TypeOK, Threads, WorkerPc, StopperPc, ScopeAssumption
<1>2. ASSUME NEW w \in Workers, LockTaken(w) PROVE TypeOK'
  BY <1>2, ScopeAssumption DEF LockTaken, TypeOK, Threads, WorkerPc, StopperPc, ScopeAssumption
<1>3. ASSUME NEW w \in Workers, LockRetried(w) PROVE TypeOK'
  BY <1>3, ScopeAssumption DEF LockRetried, TypeOK, Threads, WorkerPc, StopperPc, ScopeAssumption
<1>4. ASSUME NEW w \in Workers, LockRefused(w) PROVE TypeOK'
  BY <1>4, ScopeAssumption DEF LockRefused, TypeOK, Threads, WorkerPc, StopperPc, ScopeAssumption
<1>5. ASSUME NEW w \in Workers, Release(w) PROVE TypeOK'
  <2>1. Cardinality(Inside) # 0
    BY <1>5, DropLock, InsideFinite
  <2>2. count >= 0
    BY <2>1, InsideFinite DEF CountIsLocks, TypeOK
  <2>. QED
    BY <1>5, <2>2, ScopeAssumption DEF Release, TypeOK, Threads, WorkerPc, StopperPc, ScopeAssumption
<1>6. ASSUME NEW s \in Stoppers, StopperNext(s) PROVE TypeOK'
  BY <1>6, ScopeAssumption
  DEF StopperNext, CallStop, StopTakesEffect, AlreadyStopped, TypeOK, Threads,
      WorkerPc, StopperPc, ScopeAssumption
<1>7. CASE UNCHANGED vars
  BY <1>7 DEF vars, TypeOK
<1>. QED
  BY <1>1, <1>2, <1>3, <1>4, <1>5, <1>6, <1>7 DEF Next, WorkerNext

\* The invariant is inductive.
LEMMA InvStep == IInv /\ [Next]_vars => IInv'
<1>. SUFFICES ASSUME IInv, [Next]_vars PROVE CountIsLocks' /\ StopMeansStopped'
  BY TypeStep DEF IInv
<1>. USE DEF IInv
<1>1. ASSUME NEW w \in Workers, LockTaken(w)
      PROVE  CountIsLocks' /\ StopMeansStopped'
  <2>1. count >= 0 /\ count' = count + 1 /\ count \in Int
    BY <1>1 DEF LockTaken, TypeOK
  <2>. QED
    BY <1>1, <2>1, TakeLock, InsideFinite DEF CountIsLocks, StopMeansStopped
<1>2. ASSUME NEW w \in Workers, Release(w)
      PROVE  CountIsLocks' /\ StopMeansStopped'
  <2>1. Cardinality(Inside) # 0
    BY <1>2, DropLock, InsideFinite
  <2>2. count >= 0 /\ count = Cardinality(Inside)
    BY <2>1, InsideFinite DEF CountIsLocks, TypeOK
  <2>3. count' = count - 1 /\ count \in Int
    BY <1>2 DEF Release, TypeOK
  <2>. QED
    BY <1>2, <2>1, <2>2, <2>3, DropLock, InsideFinite
    DEF CountIsLocks, StopMeansStopped
<1>3. ASSUME NEW w \in Workers, LoadCount(w) \/ LockRetried(w) \/ LockRefused(w)
      PROVE  CountIsLocks' /\ StopMeansStopped'
  BY <1>3, OtherWorkerSteps DEF CountIsLocks, StopMeansStopped
<1>4. ASSUME NEW s \in Stoppers, CallStop(s)
      PROVE  CountIsLocks' /\ StopMeansStopped'
  <2>1. Inside' = Inside
    BY <1>4, StopperSteps DEF StopperNext
  <2>2. Returned' = Returned /\ count' = count
    BY <1>4 DEF CallStop, Returned, TypeOK, Threads
  <2>. QED
    BY <2>1, <2>2 DEF CountIsLocks, StopMeansStopped
<1>5. ASSUME NEW s \in Stoppers, StopTakesEffect(s) \/ AlreadyStopped(s)
      PROVE  CountIsLocks' /\ StopMeansStopped'
  <2>1. Inside' = Inside
    BY <1>5, StopperSteps DEF StopperNext
  <2>2. Inside = {} /\ count' < 0
    BY <1>5, InsideFinite DEF StopTakesEffect, AlreadyStopped, CountIsLocks
  <2>. QED
    BY <2>1, <2>2 DEF CountIsLocks, StopMeansStopped
<1>6. CASE UNCHANGED vars
  BY <1>6 DEF vars, CountIsLocks, StopMeansStopped, Inside, Returned
<1>. QED
  BY <1>1, <1>2, <1>3, <1>4, <1>5, <1>6 DEF Next, WorkerNext, StopperNext

\* Every reachable state satisfies the inductive invariant.
THEOREM Invariance == Spec => []IInv
BY InitInv, InvStep, PTL DEF Spec

\* Type correctness: in particular the counter never falls below -1.
THEOREM TypeCorrect == Spec => []TypeOK
<1>1. IInv => TypeOK
  BY DEF IInv
<1>. QED
  BY <1>1, Invariance, PTL

\* The counter counts the locks which are alive.
THEOREM CountCorrect == Spec => []CountIsLocks
<1>1. IInv => CountIsLocks
  BY DEF IInv
<1>. QED
  BY <1>1, Invariance, PTL

\* When stop() has returned anywhere, no handler is inside its scope.
THEOREM StopSafe == Spec => []StopExcludesHandlers
<1>1. IInv => StopExcludesHandlers
  BY DEF IInv, StopMeansStopped, CountIsLocks, StopExcludesHandlers
<1>. QED
  BY <1>1, Invariance, PTL

\* No lock is taken after a stop() has returned.
THEOREM StopFinal == Spec => NoLockAfterStop
<1>1. IInv /\ [Next]_vars => [Inside' \ Inside # {} => Returned = {}]_vars
  <2>. SUFFICES ASSUME IInv, Next, Inside' \ Inside # {} PROVE Returned = {}
    OBVIOUS
  <2>. USE DEF IInv
  <2>1. ASSUME NEW w \in Workers, LockTaken(w) PROVE Returned = {}
    BY <2>1 DEF LockTaken, StopMeansStopped, TypeOK
  <2>2. ASSUME NEW w \in Workers, WorkerNext(w), ~LockTaken(w) PROVE FALSE
    BY <2>2, DropLock, OtherWorkerSteps DEF WorkerNext
  <2>3. ASSUME NEW s \in Stoppers, StopperNext(s) PROVE FALSE
    BY <2>3, StopperSteps
  <2>. QED
    BY <2>1, <2>2, <2>3 DEF Next, WorkerNext
<1>. QED
  BY <1>1, Invariance, PTL DEF Spec, NoLockAfterStop

\* The counter implements the gate: each step of continue_lock(), of a
\* release and of stop() is a step of the gate or leaves it as it is.
THEOREM Refinement == Spec => ImplementsGate
<1>1. Init => Gate!GateInit
  BY DEF Init, Gate!GateInit, Inside, Threads
<1>2. IInv /\ [Next]_vars => [Gate!GateNext]_(Gate!gateVars)
  <2>. SUFFICES ASSUME IInv, [Next]_vars PROVE [Gate!GateNext]_(Gate!gateVars)
    OBVIOUS
  <2>. USE DEF IInv
  <2>1. ASSUME NEW w \in Workers, LockTaken(w) PROVE Gate!Enter(w)
    <3>1. count >= 0 /\ count' >= 0 /\ w \notin Inside
      BY <2>1 DEF LockTaken, TypeOK, Inside
    <3>2. Inside' = Inside \union {w}
      BY <2>1, TakeLock
    <3>3. ~(count < 0) /\ ~(count' < 0)
      BY <3>1, <2>1 DEF LockTaken, TypeOK
    <3>. QED
      BY <3>1, <3>2, <3>3 DEF Gate!Enter
  <2>2. ASSUME NEW w \in Workers, Release(w) PROVE Gate!Leave(w)
    <3>1. Cardinality(Inside) # 0 /\ w \in Inside
      BY <2>2, DropLock, InsideFinite
    <3>2. count >= 1 /\ count' = count - 1 /\ count \in Int
      BY <2>2, <3>1, InsideFinite DEF Release, CountIsLocks, TypeOK
    <3>3. count' >= 0
      BY <3>2
    <3>. QED
      BY <2>2, <3>1, <3>2, <3>3, DropLock DEF Gate!Leave
  <2>3. ASSUME NEW w \in Workers, LoadCount(w) \/ LockRetried(w) \/ LockRefused(w)
        PROVE  UNCHANGED Gate!gateVars
    BY <2>3, OtherWorkerSteps DEF Gate!gateVars
  <2>4. ASSUME NEW s \in Stoppers, StopTakesEffect(s) PROVE Gate!Close
    <3>1. Inside' = Inside /\ Inside = {}
      BY <2>4, StopperSteps, InsideFinite DEF StopperNext, StopTakesEffect, CountIsLocks
    <3>. QED
      BY <2>4, <3>1 DEF Gate!Close, StopTakesEffect
  <2>5. ASSUME NEW s \in Stoppers, CallStop(s) \/ AlreadyStopped(s)
        PROVE  UNCHANGED Gate!gateVars
    BY <2>5, StopperSteps DEF StopperNext, Gate!gateVars, CallStop, AlreadyStopped
  <2>6. CASE UNCHANGED vars
    BY <2>6 DEF vars, Gate!gateVars, Inside
  <2>. QED
    BY <2>1, <2>2, <2>3, <2>4, <2>5, <2>6
    DEF Next, WorkerNext, StopperNext, Gate!GateNext
<1>. QED
  BY <1>1, <1>2, Invariance, PTL DEF Spec, ImplementsGate, Gate!GateSpec
=============================================================================
