-------------------------------- MODULE Mutex --------------------------------
(***************************************************************************)
(* zth::Mutex and the Locked guard (include/libzth/sync.h), used by fibers *)
(* that only unlock what they have locked.  A mutex uses one queue, 0.     *)
(***************************************************************************)
EXTENDS Synchronizer

VARIABLES m_locked,
          stage   \* of each fiber: idle, in the loop of lock(), or holding the mutex

mutexVars == <<worker, queue, m_locked, stage>>

MutexInit ==
    /\ SyncInit
    /\ m_locked = FALSE
    /\ stage = [f \in Fiber |-> "idle"]

\* Mutant of lock: the mutex is taken when block() returns, whatever m_locked is.
lock_Once(f) ==
    /\ Runs(f) /\ stage[f] \in {"idle", "lock"}
    /\ IF m_locked /\ stage[f] = "idle"
       THEN /\ block(f, 0)
            /\ stage' = [stage EXCEPT ![f] = "lock"]
            /\ UNCHANGED m_locked
       ELSE /\ m_locked' = TRUE
            /\ stage' = [stage EXCEPT ![f] = "held"]
            /\ UNCHANGED <<worker, queue>>

\* lock(): the call, or the next turn of its loop after block() has returned.
lock(f) ==
    /\ Runs(f) /\ stage[f] \in {"idle", "lock"}
    /\ IF m_locked
       THEN /\ block(f, 0)
            /\ stage' = [stage EXCEPT ![f] = "lock"]
            /\ UNCHANGED m_locked
       ELSE /\ m_locked' = TRUE
            /\ stage' = [stage EXCEPT ![f] = "held"]
            /\ UNCHANGED <<worker, queue>>

trylock(f) ==
    /\ Runs(f) /\ stage[f] = "idle"
    /\ ~m_locked
    /\ m_locked' = TRUE
    /\ stage' = [stage EXCEPT ![f] = "held"]
    /\ UNCHANGED <<worker, queue>>

\* Mutants of unlock: nobody is woken up, and the mutex is handed over locked.
unlock_Silent(f) ==
    /\ Runs(f) /\ stage[f] = "held"
    /\ m_locked' = FALSE
    /\ stage' = [stage EXCEPT ![f] = "idle"]
    /\ UNCHANGED <<worker, queue>>

unlock_HandsOver(f) ==
    /\ Runs(f) /\ stage[f] = "held"
    /\ m_locked' = (queue[0] # <<>>)
    /\ unblockFirst(0)
    /\ stage' = [g \in Fiber |-> IF g = f THEN "idle"
                              ELSE IF queue[0] # <<>> /\ g = front(queue[0]) THEN "held"
                              ELSE stage[g]]

unlock(f) ==
    /\ Runs(f) /\ stage[f] = "held"
    /\ m_locked' = FALSE
    /\ unblockFirst(0)
    /\ stage' = [stage EXCEPT ![f] = "idle"]

mutexYield(f) == Yield(f) /\ stage[f] # "lock" /\ UNCHANGED <<m_locked, stage>>

mutexExit(f) == Exit(f) /\ stage[f] = "idle" /\ UNCHANGED <<m_locked, stage>>

mutexRun == RunWorker /\ UNCHANGED <<m_locked, stage>>

mutexStop == Stopped /\ UNCHANGED mutexVars

MutexFiberNext(f) == lock(f) \/ trylock(f) \/ unlock(f) \/ mutexYield(f) \/ mutexExit(f)

MutexNext == mutexRun \/ mutexStop \/ \E f \in Fiber : MutexFiberNext(f)

MutexSpec == MutexInit /\ [][MutexNext]_mutexVars

\* The worker goes on, a fiber goes on in lock(), and gives way now and then.
MutexFairness ==
    /\ WF_mutexVars(mutexRun)
    /\ \A f \in Fiber : /\ WF_mutexVars(lock(f) /\ stage[f] = "lock")
                        /\ WF_mutexVars(mutexYield(f))

MutexFairSpec == MutexSpec /\ MutexFairness

-----------------------------------------------------------------------------
(* Properties *)

MutexTypeOK ==
    /\ SyncTypeOK
    /\ m_locked \in BOOLEAN
    /\ stage \in [Fiber -> {"idle", "lock", "held"}]

\* Two fibers never hold the mutex together, and m_locked says whether one
\* does (Mutex::lock(), trylock(), unlock()).
MutualExclusion ==
    /\ \A f, g \in Fiber : stage[f] = "held" /\ stage[g] = "held" => f = g
    /\ m_locked <=> \E f \in Fiber : stage[f] = "held"

\* No wake up is lost: when fibers wait for a mutex that is free, one of those
\* in lock() has been woken up and will try again (Mutex::unlock()).
NoLostWakeup ==
    ~m_locked /\ queue[0] # <<>> =>
        \E f \in Fiber : stage[f] = "lock" /\ worker.state[f] \in {"Ready", "Running"}

\* Only fibers in lock() are in the queue of the mutex.
QueuedInLock == \A f \in Elems(queue[0]) : stage[f] = "lock"

\* A mutex that fibers wait for does not stay free.
FreeMutexIsTaken == (~m_locked /\ queue[0] # <<>>) ~> m_locked

\* The specification of a lock: Lock.tla, with the fiber in state held as owner,
\* and the fibers in lock() as those that ask for it.
owner == IF \E f \in Fiber : stage[f] = "held"
         THEN CHOOSE f \in Fiber : stage[f] = "held" ELSE workerFiber

asking == {f \in Fiber : stage[f] = "lock"}

L == INSTANCE Lock WITH Client <- Fiber, Nobody <- workerFiber, owner <- owner, asking <- asking

\* The mutex implements a lock: it passes from nobody to one fiber, and back,
\* only its owner gives it back, and a fiber waits in lock() only when another
\* one has it, until it gets it (Mutex::lock(), trylock(), unlock()).
ImplementsLock == L!Spec
==============================================================================
