----------------------------- MODULE ScopeRunner -----------------------------
(***************************************************************************)
(* SimpleWeb::ScopeRunner (src/ws-app/utility.hpp 433-477), one step per   *)
(* access to the atomic counter.  Workers are threads whose handlers call  *)
(* continue_lock(); Stoppers are threads which call stop(), such as the    *)
(* client's destructor (src/ws-app/client_ws.hpp 354-357).                 *)
(*                                                                         *)
(* compare_exchange_weak may fail although the counter has the expected    *)
(* value.  Such a failure stores the value that was expected already and   *)
(* changes no state, so it is a stuttering step.                           *)
(***************************************************************************)
EXTENDS Integers, FiniteSets

CONSTANTS
    Workers,    \* Threads which run handlers.
    Stoppers,   \* Threads which call stop().
    MaxScopes   \* Bound: how many handlers each worker runs.

ASSUME ScopeAssumption ==
    /\ IsFiniteSet(Workers)
    /\ Workers \intersect Stoppers = {}
    /\ MaxScopes \in Nat

VARIABLES
    count,      \* The number of shared locks, or -1 once stopped.
    expected,   \* Per worker, the local of continue_lock() of that name.
    pc,         \* Per thread, where it is in continue_lock() or stop().
    scopes      \* Per worker, the handlers it has started.

vars == << count, expected, pc, scopes >>

Threads == Workers \union Stoppers

\* Workers whose unique_ptr<SharedLock> is alive.
Inside == { w \in Workers : pc[w] = "inside" }

\* Threads for which stop() has returned.
Returned == { s \in Stoppers : pc[s] = "returned" }

Init ==
    /\ count = 0
    /\ expected = [w \in Workers |-> 0]
    /\ pc = [t \in Threads |-> "idle"]
    /\ scopes = [w \in Workers |-> 0]

-----------------------------------------------------------------------------
(* continue_lock() and the destructor of the lock it returns               *)

\* long expected = count;
LoadCount(w) ==
    /\ pc[w] = "idle"
    /\ scopes[w] < MaxScopes
    /\ expected' = [expected EXCEPT ![w] = count]
    /\ scopes' = [scopes EXCEPT ![w] = @ + 1]
    /\ pc' = [pc EXCEPT ![w] = "locking"]
    /\ UNCHANGED count

\* Bug: a load and a store instead of the exchange, which lose an update.
BugPlainStore(w) ==
    /\ pc[w] = "locking"
    /\ expected[w] >= 0
    /\ count' = expected[w] + 1
    /\ pc' = [pc EXCEPT ![w] = "inside"]
    /\ UNCHANGED << expected, scopes >>

\* Bug: the loop forgets the test expected >= 0.
BugLockStopped(w) ==
    /\ pc[w] = "locking"
    /\ count = expected[w]
    /\ count' = expected[w] + 1
    /\ pc' = [pc EXCEPT ![w] = "inside"]
    /\ UNCHANGED << expected, scopes >>

\* The exchange succeeds and the handler continues with the lock.
LockTaken(w) ==
    /\ pc[w] = "locking"
    /\ expected[w] >= 0
    /\ count = expected[w]
    /\ count' = expected[w] + 1
    /\ pc' = [pc EXCEPT ![w] = "inside"]
    /\ UNCHANGED << expected, scopes >>

\* The exchange fails: it stores the counter in expected.
LockRetried(w) ==
    /\ pc[w] = "locking"
    /\ expected[w] >= 0
    /\ count # expected[w]
    /\ expected' = [expected EXCEPT ![w] = count]
    /\ UNCHANGED << count, pc, scopes >>

\* return nullptr; the handler returns at once.
LockRefused(w) ==
    /\ pc[w] = "locking"
    /\ expected[w] < 0
    /\ pc' = [pc EXCEPT ![w] = "idle"]
    /\ UNCHANGED << count, expected, scopes >>

\* Bug: the lock can be copied, and both copies release it.
BugDoubleRelease(w) ==
    /\ pc[w] = "inside"
    /\ count' = count - 2
    /\ pc' = [pc EXCEPT ![w] = "idle"]
    /\ UNCHANGED << expected, scopes >>

\* ~SharedLock()
Release(w) ==
    /\ pc[w] = "inside"
    /\ count' = count - 1
    /\ pc' = [pc EXCEPT ![w] = "idle"]
    /\ UNCHANGED << expected, scopes >>

-----------------------------------------------------------------------------
(* stop()                                                                  *)

CallStop(s) ==
    /\ pc[s] = "idle"
    /\ pc' = [pc EXCEPT ![s] = "stopping"]
    /\ UNCHANGED << count, expected, scopes >>

\* Bug: the counter is set to -1 without waiting for it to be 0.
BugStopAtOnce(s) ==
    /\ pc[s] = "stopping"
    /\ count' = -1
    /\ pc' = [pc EXCEPT ![s] = "returned"]
    /\ UNCHANGED << expected, scopes >>

\* The exchange of 0 for -1 succeeds.  While the counter is positive it
\* fails, expected is set to 0 again and nothing has changed.
StopTakesEffect(s) ==
    /\ pc[s] = "stopping"
    /\ count = 0
    /\ count' = -1
    /\ pc' = [pc EXCEPT ![s] = "returned"]
    /\ UNCHANGED << expected, scopes >>

\* Bug: the loop waits for 0 even if another thread has stopped the runner.
BugWaitsForZero(s) ==
    /\ pc[s] = "stopping"
    /\ count < 0
    /\ UNCHANGED vars

\* if(expected < 0) return;
AlreadyStopped(s) ==
    /\ pc[s] = "stopping"
    /\ count < 0
    /\ pc' = [pc EXCEPT ![s] = "returned"]
    /\ UNCHANGED << count, expected, scopes >>

-----------------------------------------------------------------------------
WorkerNext(w) ==
    \/ LoadCount(w)
    \/ LockTaken(w)
    \/ LockRetried(w)
    \/ LockRefused(w)
    \/ Release(w)

StopperNext(s) ==
    \/ CallStop(s)
    \/ StopTakesEffect(s)
    \/ AlreadyStopped(s)

Next ==
    \/ \E w \in Workers : WorkerNext(w)
    \/ \E s \in Stoppers : StopperNext(s)

Spec == Init /\ [][Next]_vars

\* A thread inside continue_lock() or stop() keeps running and handlers
\* return.  Nothing obliges a thread to start either call.
Fairness ==
    /\ \A w \in Workers :
          /\ WF_vars(LockTaken(w) \/ LockRetried(w) \/ LockRefused(w))
          /\ WF_vars(Release(w))
    /\ \A s \in Stoppers : WF_vars(StopTakesEffect(s) \/ AlreadyStopped(s))

FairSpec == Spec /\ Fairness

-----------------------------------------------------------------------------
WorkerPc == {"idle", "locking", "inside"}
StopperPc == {"idle", "stopping", "returned"}

\* Types of the variables.  The counter never falls below -1, which is what
\* fetch_sub in ~SharedLock() relies on.
TypeOK ==
    /\ count \in Int
    /\ count >= -1
    /\ expected \in [Workers -> Int]
    /\ pc \in [Threads -> WorkerPc \union StopperPc]
    /\ \A w \in Workers : pc[w] \in WorkerPc
    /\ \A s \in Stoppers : pc[s] \in StopperPc
    /\ scopes \in [Workers -> 0..MaxScopes]

\* A counter that is not negative counts the locks that are alive, and a
\* stopped runner has none: the counter is never decremented past -1 and no
\* lock is counted twice, whatever the interleaving of the exchanges.
CountIsLocks ==
    IF count < 0 THEN Inside = {} ELSE count = Cardinality(Inside)

\* utility.hpp 455: "a potential destructor call is delayed until all locks
\* are released".  Once stop() has returned in any thread, also in one that
\* lost the race to another stop(), no handler is between continue_lock()
\* and the end of its scope.
StopExcludesHandlers == Returned # {} => Inside = {}

\* utility.hpp 467: stop() "prevents future shared locks".  A step that takes
\* a lock is a step from a state in which no stop() has returned.
NoLockAfterStop == [][Inside' \ Inside # {} => Returned = {}]_vars

\* A call of stop() returns, provided that handlers return and that finitely
\* many of them start (each worker starts MaxScopes of them).
StopReturns == \A s \in Stoppers : pc[s] = "stopping" ~> pc[s] = "returned"

\* The counter implements the gate.
Gate == INSTANCE ScopeGate
            WITH gate   <- IF count < 0 THEN "closed" ELSE "open",
                 inside <- Inside

ImplementsGate == Gate!GateSpec
=============================================================================
