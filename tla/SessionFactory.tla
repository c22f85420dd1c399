---------------------------- MODULE SessionFactory ----------------------------
(***************************************************************************)
(* The session factory a worker or CLI process builds on first use.  Every *)
(* thread of the process may call get_session_factory while none exists;   *)
(* the double-checked lock must leave the process with one engine.         *)
(***************************************************************************)
EXTENDS Naturals

CONSTANTS
    Threads,    \* the worker threads of one process
    Free,       \* the lock is free
    MaxCalls    \* bound: calls each thread makes

ASSUME FreeAssumption == Free \notin Threads
ASSUME CallsAssumption == MaxCalls \in Nat

VARIABLES
    factory,    \* the global: the number of the engine it is bound to, or 0
    lock,       \* the thread inside the lock, or Free
    engines,    \* how many engines, each with a pool of its own, were built
    place,         \* where each thread is in get_session_factory
    calls,      \* how many calls each thread has begun
    got         \* what the last call of each thread returned, 0 if it raised

factoryVars == <<factory, lock, engines, place, calls, got>>

NoFactory == 0

FactoryInit ==
    /\ factory = NoFactory
    /\ lock = Free
    /\ engines = 0
    /\ place = [t \in Threads |-> "idle"]
    /\ calls = [t \in Threads |-> 0]
    /\ got = [t \in Threads |-> NoFactory]

Proceed(t, point) == place' = [place EXCEPT ![t] = point]

\* The first check reads the global without the lock.
Check(t) ==
    /\ place[t] = "idle"
    /\ calls[t] < MaxCalls
    /\ calls' = [calls EXCEPT ![t] = @ + 1]
    /\ Proceed(t, IF factory = NoFactory THEN "cold" ELSE "warm")
    /\ UNCHANGED <<factory, lock, engines, got>>

Acquire_NoLock(t) ==    \* mutant: check, then set, with no lock
    /\ place[t] = "cold"
    /\ Proceed(t, "locked")
    /\ UNCHANGED <<factory, lock, engines, calls, got>>

Acquire(t) ==
    /\ place[t] = "cold"
    /\ lock = Free
    /\ lock' = t
    /\ Proceed(t, "locked")
    /\ UNCHANGED <<factory, engines, calls, got>>

Recheck_Skipped(t) ==   \* mutant: the global is not read again under the lock
    /\ place[t] = "locked"
    /\ Proceed(t, "building")
    /\ UNCHANGED <<factory, lock, engines, calls, got>>

\* The second check, under the lock.
Recheck(t) ==
    /\ place[t] = "locked"
    /\ IF factory = NoFactory
       THEN Proceed(t, "building") /\ UNCHANGED lock
       ELSE Proceed(t, "warm") /\ lock' = Free
    /\ UNCHANGED <<factory, engines, calls, got>>

\* Building takes long (the first import of the driver); nothing is visible to
\* the other threads before the assignment, which is followed by the release.
Build(t) ==
    /\ place[t] = "building"
    /\ engines' = engines + 1
    /\ factory' = engines'
    /\ lock' = Free
    /\ Proceed(t, "warm")
    /\ UNCHANGED <<calls, got>>

Raise_HoldingLock(t) == \* mutant: the lock is not released when building fails
    /\ place[t] = "building"
    /\ got' = [got EXCEPT ![t] = NoFactory]
    /\ Proceed(t, "idle")
    /\ UNCHANGED <<factory, lock, engines, calls>>

\* Settings that are missing or wrong, or a driver that cannot be imported: the
\* exception leaves the with block, which releases the lock.
Raise(t) ==
    /\ place[t] = "building"
    /\ lock' = Free
    /\ got' = [got EXCEPT ![t] = NoFactory]
    /\ Proceed(t, "idle")
    /\ UNCHANGED <<factory, engines, calls>>

\* The global is read once more for the return value.
Return(t) ==
    /\ place[t] = "warm"
    /\ got' = [got EXCEPT ![t] = factory]
    /\ Proceed(t, "idle")
    /\ UNCHANGED <<factory, lock, engines, calls>>

ThreadStep(t) == Acquire(t) \/ Recheck(t) \/ Build(t) \/ Raise(t) \/ Return(t)

FactoryNext == \E t \in Threads : Check(t) \/ ThreadStep(t)

FactorySpec == FactoryInit /\ [][FactoryNext]_factoryVars

\* The scheduler runs every thread that can run.  The lock is not fair, but it
\* is contended only while no factory exists and each thread makes few calls.
FactoryFairSpec == FactorySpec /\ \A t \in Threads : WF_factoryVars(ThreadStep(t))

-----------------------------------------------------------------------------

FactoryTypeOK ==
    /\ factory \in Nat
    /\ engines \in Nat
    /\ lock \in Threads \cup {Free}
    /\ place \in [Threads -> {"idle", "cold", "locked", "building", "warm"}]
    /\ calls \in [Threads -> 0 .. MaxCalls]
    /\ got \in [Threads -> Nat]

\* However many threads find no factory at once, and however often building
\* fails before it succeeds, the process opens one engine and so one pool: its
\* connections to the database stay within the limit of one pool.
OneEngine == engines <= 1

\* A call that returns (does not raise) returns the factory every other call
\* returns: no thread keeps one the process forgot, and none gets None.
SameForAll ==
    /\ \A t \in Threads : place[t] = "warm" => factory # NoFactory
    /\ \A s, t \in Threads : got[s] # NoFactory /\ got[t] # NoFactory => got[s] = got[t]

\* Every call returns or raises, also when the thread that was building failed
\* while others waited for it.
EveryCallReturns == \A t \in Threads : place[t] # "idle" ~> place[t] = "idle"

\* Threads that wait for the lock are not forgotten: it is free, or the thread
\* inside it is still on its way out.
SomeThreadMoves ==
    (\E t \in Threads : place[t] # "idle") =>
        \E t \in Threads : place[t] # "idle" /\ (place[t] = "cold" => lock = Free)

\* The inductive invariant: the lock names the one thread inside it, and while
\* a thread is building nothing has been built.
FactoryInv ==
    /\ FactoryTypeOK
    /\ \A t \in Threads : place[t] \in {"locked", "building"} <=> lock = t
    /\ \A t \in Threads : place[t] = "building" => factory = NoFactory
    /\ \A t \in Threads : place[t] = "warm" => factory # NoFactory
    /\ \A t \in Threads : got[t] \in {NoFactory, factory}
    /\ factory = engines
    /\ OneEngine
=============================================================================
