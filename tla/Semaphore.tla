------------------------------ MODULE Semaphore ------------------------------
(***************************************************************************)
(* zth::Semaphore (include/libzth/sync.h): fibers acquire and release any  *)
(* of the given counts, at any time.                                       *)
(***************************************************************************)
EXTENDS Synchronizer

CONSTANTS Counts,    \* what a fiber may acquire or release at once
          Initial,   \* the argument of the constructor
          CountMax   \* the largest count_type

ASSUME SemaphoreAssumption ==
    /\ CountMax \in Nat /\ Initial \in 0 .. CountMax /\ Counts \subseteq 0 .. CountMax

VARIABLES m_count, m_unblockAll,
          want   \* the count that a fiber in acquire() asks for

semaphoreVars == <<worker, queue, m_count, m_unblockAll, want>>

NotAcquiring == -1

SemaphoreInit ==
    /\ SyncInit
    /\ m_count = Initial
    /\ m_unblockAll = FALSE
    /\ want = [f \in Fiber |-> NotAcquiring]

\* Mutants of acquire: the next in line is not woken up; and a fiber that asks
\* for two units does not set m_unblockAll.
acquire_Silent(f, c) ==
    /\ Runs(f) /\ want[f] \in {NotAcquiring, c}
    /\ IF m_count < c
       THEN /\ m_unblockAll' = (m_unblockAll \/ c > 1)
            /\ block(f, 0)
            /\ want' = [want EXCEPT ![f] = c]
            /\ UNCHANGED m_count
       ELSE /\ m_count' = m_count - c
            /\ want' = [want EXCEPT ![f] = NotAcquiring]
            /\ UNCHANGED <<worker, queue, m_unblockAll>>

acquire_Two(f, c) ==
    /\ Runs(f) /\ want[f] \in {NotAcquiring, c}
    /\ IF m_count < c
       THEN /\ m_unblockAll' = (m_unblockAll \/ c > 2)
            /\ block(f, 0)
            /\ want' = [want EXCEPT ![f] = c]
            /\ UNCHANGED m_count
       ELSE /\ m_count' = m_count - c
            /\ IF m_count' > 0 /\ ~m_unblockAll THEN unblockFirst(0)
                                                ELSE UNCHANGED <<worker, queue>>
            /\ want' = [want EXCEPT ![f] = NotAcquiring]
            /\ UNCHANGED m_unblockAll

\* acquire(c): the call, or the next turn of its loop.
acquire(f, c) ==
    /\ Runs(f) /\ want[f] \in {NotAcquiring, c}
    /\ IF m_count < c
       THEN /\ m_unblockAll' = (m_unblockAll \/ c > 1)
            /\ block(f, 0)
            /\ want' = [want EXCEPT ![f] = c]
            /\ UNCHANGED m_count
       ELSE /\ m_count' = m_count - c
            /\ IF m_count' > 0 /\ ~m_unblockAll THEN unblockFirst(0)
                                                ELSE UNCHANGED <<worker, queue>>
            /\ want' = [want EXCEPT ![f] = NotAcquiring]
            /\ UNCHANGED m_unblockAll

\* Mutant of release_: the count is not saturated.
release_Grows(f, c) ==
    /\ Runs(f) /\ want[f] = NotAcquiring
    /\ m_count' = m_count + c
    /\ IF m_count' = 0 THEN UNCHANGED <<worker, queue>> ELSE unblockFirst(0)
    /\ UNCHANGED <<want, m_unblockAll>>

\* release(c).  A count that wraps around is saturated; a build with assertions
\* ends there.
release_(f, c) ==
    /\ Runs(f) /\ want[f] = NotAcquiring
    /\ m_count' = IF m_count + c > CountMax THEN CountMax ELSE m_count + c
    /\ IF m_count' = 0 THEN UNCHANGED <<worker, queue>>
       ELSE IF m_unblockAll THEN unblockAll(0) ELSE unblockFirst(0)
    /\ m_unblockAll' = (m_unblockAll /\ (m_count' = 0 \/ queue[0] # <<>>))
    /\ UNCHANGED want

semaphoreYield(f) ==
    Yield(f) /\ want[f] = NotAcquiring /\ UNCHANGED <<m_count, m_unblockAll, want>>

semaphoreExit(f) ==
    Exit(f) /\ want[f] = NotAcquiring /\ UNCHANGED <<m_count, m_unblockAll, want>>

semaphoreRun == RunWorker /\ UNCHANGED <<m_count, m_unblockAll, want>>

semaphoreStop == Stopped /\ UNCHANGED semaphoreVars

SemaphoreFiberNext(f) ==
    \/ \E c \in Counts : acquire(f, c) \/ release_(f, c)
    \/ semaphoreYield(f) \/ semaphoreExit(f)

SemaphoreNext == semaphoreRun \/ semaphoreStop \/ \E f \in Fiber : SemaphoreFiberNext(f)

SemaphoreSpec == SemaphoreInit /\ [][SemaphoreNext]_semaphoreVars

-----------------------------------------------------------------------------
(* Properties *)

SemaphoreTypeOK ==
    /\ SyncTypeOK
    /\ m_count \in 0 .. CountMax
    /\ m_unblockAll \in BOOLEAN
    /\ want \in [Fiber -> Counts \cup {NotAcquiring}]

\* A fiber in acquire() that is not in the queue: it is about to try (again).
Trying(f) == want[f] # NotAcquiring /\ f \notin Elems(queue[0])

\* As long as m_unblockAll is not set, units are not left while fibers wait for
\* them: one of these has been woken up, by release(), or by the fiber that
\* acquired before it (Semaphore::acquire(), release()).
UnitsAreOffered ==
    ~m_unblockAll /\ m_count > 0 /\ queue[0] # <<>> => \E f \in Fiber : Trying(f)

\* A fiber that waits for several units is never forgotten: m_unblockAll is set,
\* so that any release() gives every fiber a try, and not only the first.
BigWaitersSeen ==
    \A f \in Elems(queue[0]) : want[f] > 1 => m_unblockAll

\* No fiber waits in the queue for what is there, unless a fiber is on its way
\* that wakes up the next in line.
ServableIsTried ==
    \A f \in Elems(queue[0]) : want[f] <= m_count => \E g \in Fiber : Trying(g)
==============================================================================
