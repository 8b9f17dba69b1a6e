--------------------------- MODULE PrimitiveProofs ---------------------------
(***************************************************************************)
(* What the mutex, the semaphore, the signal and the mailbox promise, for  *)
(* any number of fibers and values, any counts, and any bound on the       *)
(* queued signals.                                                         *)
(*                                                                         *)
(* NoLostWakeup of the mutex is not inductive.  It is with QueuedInLock    *)
(* (the fiber that unlock() wakes up is one that goes on in lock()) and    *)
(* LockersLive (a fiber in lock() cannot have ended).  UnitsAreOffered of  *)
(* the semaphore is not either: that an unblocked fiber will try again     *)
(* follows from QueuedWant, and that nobody blocks while there are units,  *)
(* and m_unblockAll is not set, from the way in which it is set.           *)
(* QueuedSignalsAreSeen of the signal is inductive together with the       *)
(* invariant of the synchronizers.  WokenTakerFindsValue of the mailbox    *)
(* needs that a fiber is in the queue that belongs to the function it is   *)
(* in, so that a wake up of put() reaches a taker, and one of take() does  *)
(* not.                                                                    *)
(***************************************************************************)
EXTENDS Mutex, Semaphore, Signal, Mailbox, SynchronizerProofs

\* Every synchronizer has a first queue.
LEMMA FirstQueue == 0 \in Queue
  BY SizeAssumption, SMT DEF Queue

-----------------------------------------------------------------------------
(* Mutex *)

LockersLive == \A f \in Fiber : stage[f] = "lock" => worker.state[f] \in Live

\* A fiber that is in lock(), but not in the queue.
SomeoneTries == \E f \in Fiber : stage[f] = "lock" /\ f \notin Elems(queue[0])

\* The mutex uses one queue.
OnlyFirst == \A q \in Queue \ {0} : queue[q] = <<>>

MutexInv ==
    /\ OnlyFirst /\ SyncInv /\ MutexTypeOK /\ MutualExclusion /\ QueuedInLock /\ LockersLive
    /\ ~m_locked /\ queue[0] # <<>> => SomeoneTries

\* A new mutex is free, and nobody waits for it.
LEMMA MutexInvInit == MutexInit => MutexInv
  <1> SUFFICES ASSUME MutexInit PROVE MutexInv
    OBVIOUS
  <1>1. SyncInv
    BY SyncInitLemma DEF MutexInit
  <1>2. OnlyFirst /\ queue[0] = <<>> /\ Elems(queue[0]) = {}
    BY FirstQueue DEF MutexInit, SyncInit, Elems, OnlyFirst
  <1> QED
    BY <1>1, <1>2, Zenon
       DEF MutexInit, MutexInv, SyncInv, MutexTypeOK, MutualExclusion, QueuedInLock, LockersLive

\* The steps in which the fiber only gives way.
LEMMA MutexGivesWay ==
    ASSUME MutexInv, SyncInv', queue' = queue, m_locked' = m_locked, stage' = stage,
           NEW X, KeepsLive(X), \A f \in X \cap Fiber : stage[f] # "lock"
    PROVE  MutexInv'
  <1>1. LockersLive'
    BY DEF MutexInv, LockersLive, KeepsLive
  <1>2. OnlyFirst' /\ MutexTypeOK' /\ MutualExclusion' /\ QueuedInLock'
    BY DEF OnlyFirst, MutexInv, MutexTypeOK, MutualExclusion, QueuedInLock, SyncInv
  <1> QED
    BY <1>1, <1>2 DEF MutexInv, SomeoneTries

\* Every step of a fiber or of the worker keeps the inductive invariant.
LEMMA MutexInvNext == MutexInv /\ [MutexNext]_mutexVars => MutexInv'
  <1> SUFFICES ASSUME MutexInv, [MutexNext]_mutexVars PROVE MutexInv'
    OBVIOUS
  <1>0. SyncInv /\ stage \in [Fiber -> {"idle", "lock", "held"}] /\ m_locked \in BOOLEAN
        /\ queue \in [Queue -> Seq(Fiber)] /\ Elems(queue[0]) \subseteq Fiber
    <2>1. queue \in [Queue -> Seq(Fiber)]
      BY DEF MutexInv, SyncInv, SyncTypeOK
    <2> QED
      BY <2>1, FirstQueue, ListDomain DEF MutexInv, MutexTypeOK
  <1>1. ASSUME NEW f \in Fiber, lock(f), m_locked PROVE MutexInv'
    <2>1. SyncInv' /\ KeepsLive({}) /\ Elems(queue'[0]) = Elems(queue[0]) \cup {f}
      BY <1>0, <1>1, FirstQueue, BlockLemma DEF lock
    <2>2. m_locked' = m_locked /\ stage' = [stage EXCEPT ![f] = "lock"] /\ stage[f] # "held"
      BY <1>1 DEF lock
    <2>3. worker.state[f] \in Live
      BY <1>0, <1>1 DEF lock, Runs, SyncInv, WorkerConsistent, CurrentRuns, Live
    <2>4. MutexTypeOK' /\ MutualExclusion' /\ LockersLive'
      BY <2>1, <2>2, <2>3, <1>0
         DEF MutexInv, MutexTypeOK, MutualExclusion, LockersLive, KeepsLive, SyncInv
    <2>5. QueuedInLock'
      BY <2>1, <2>2, <1>0 DEF MutexInv, QueuedInLock
    <2>6. OnlyFirst'
      BY <1>0, <1>1 DEF MutexInv, OnlyFirst, lock, block
    <2> QED
      BY <2>1, <2>2, <2>4, <2>5, <2>6, <1>1 DEF MutexInv
  <1>2. ASSUME NEW f \in Fiber, (lock(f) /\ ~m_locked) \/ trylock(f) PROVE MutexInv'
    <2>1. worker' = worker /\ queue' = queue /\ m_locked' /\ stage' = [stage EXCEPT ![f] = "held"]
      BY <1>2 DEF lock, trylock
    <2>2. SyncInv'
      BY <2>1, <1>0, Zenon DEF SyncInv, SyncTypeOK, WaitingIffQueued, Queued, WorkerConsistent
    <2>3. f \notin Elems(queue[0])
      BY <1>0, <1>2, FirstQueue DEF lock, trylock, Runs, SyncInv, WorkerConsistent, CurrentRuns,
                                  WaitingIffQueued, Queued
    <2>4. OnlyFirst' /\ MutexTypeOK' /\ QueuedInLock' /\ LockersLive'
      BY <2>1, <2>2, <2>3, <1>0 DEF OnlyFirst, MutexInv, MutexTypeOK, QueuedInLock, LockersLive, SyncInv
    <2>5. MutualExclusion'
      BY <2>1, <1>0, <1>2 DEF MutexInv, MutualExclusion, trylock
    <2> QED
      BY <2>1, <2>2, <2>4, <2>5 DEF MutexInv
  <1>3. ASSUME NEW f \in Fiber, unlock(f) PROVE MutexInv'
    <2>1. /\ SyncInv' /\ KeepsLive({})
          /\ Elems(queue'[0]) \subseteq Elems(queue[0])
          /\ queue[0] # <<>> => front(queue[0]) \in Elems(queue[0]) \ Elems(queue'[0])
          /\ \A q \in Queue \ {0} : queue'[q] = queue[q]
      BY <1>0, <1>3, FirstQueue, UnblockFirstLemma DEF unlock
    <2>2. ~m_locked' /\ m_locked' = FALSE /\ stage' = [stage EXCEPT ![f] = "idle"] /\ stage[f] = "held"
      BY <1>3 DEF unlock
    <2>3. MutexTypeOK' /\ LockersLive'
      BY <2>1, <2>2, <1>0, Zenon DEF MutexInv, MutexTypeOK, LockersLive, KeepsLive, SyncInv
    <2>4. MutualExclusion'
      BY <2>2, <1>0 DEF MutexInv, MutualExclusion
    <2>5. QueuedInLock'
      BY <2>1, <2>2, <1>0 DEF MutexInv, QueuedInLock
    <2>6. queue'[0] # <<>> => SomeoneTries'
      <3>1. queue[0] = <<>> => queue' = queue
        BY <1>3 DEF unlock, unblockFirst
      <3>2. ASSUME queue[0] # <<>> PROVE SomeoneTries'
        <4>1. PICK g : g = front(queue[0])
          OBVIOUS
        <4>2. g \in Fiber /\ stage[g] = "lock" /\ g \notin Elems(queue'[0])
          BY <4>1, <3>2, <2>1, <1>0 DEF MutexInv, QueuedInLock
        <4>3. stage'[g] = "lock"
          BY <4>2, <2>2, <1>0
        <4> QED
          BY <4>2, <4>3 DEF SomeoneTries
      <3> QED
        BY <3>1, <3>2
    <2> QED
      BY <2>1, <2>3, <2>4, <2>5, <2>6 DEF MutexInv, OnlyFirst
  <1>4. ASSUME NEW f \in Fiber, mutexYield(f) PROVE MutexInv'
    <2>1. SyncInv' /\ KeepsLive({}) /\ queue' = queue
      BY <1>0, <1>4, YieldLemma DEF mutexYield
    <2> QED
      BY <2>1, <1>4, MutexGivesWay DEF mutexYield
  <1>5. ASSUME NEW f \in Fiber, mutexExit(f) PROVE MutexInv'
    <2>1. SyncInv' /\ KeepsLive({f}) /\ queue' = queue
      BY <1>0, <1>5, ExitLemma, Zenon DEF mutexExit
    <2>2. m_locked' = m_locked /\ stage' = stage /\ stage[f] # "lock"
      BY <1>5 DEF mutexExit
    <2> QED
      BY <2>1, <2>2, MutexGivesWay
  <1>6. ASSUME mutexRun PROVE MutexInv'
    <2>1. SyncInv' /\ KeepsLive({}) /\ queue' = queue
      BY <1>0, <1>6, YieldLemma DEF mutexRun
    <2> QED
      BY <2>1, <1>6, MutexGivesWay DEF mutexRun
  <1>7. ASSUME UNCHANGED mutexVars PROVE MutexInv'
    <2>1. worker' = worker /\ queue' = queue /\ m_locked' = m_locked /\ stage' = stage
      BY <1>7 DEF mutexVars
    <2>2. SyncInv'
      BY <2>1, <1>0, Zenon DEF SyncInv, SyncTypeOK, WaitingIffQueued, Queued, WorkerConsistent
    <2>3. KeepsLive({})
      BY <2>1 DEF KeepsLive
    <2> QED
      BY <2>1, <2>2, <2>3, MutexGivesWay
  <1> QED
    BY <1>0, <1>1, <1>2, <1>3, <1>4, <1>5, <1>6, <1>7 DEF MutexNext, MutexFiberNext, mutexStop

\* The inductive invariant holds in every behaviour of the mutex.
LEMMA MutexInvHolds == MutexSpec => []MutexInv
  BY MutexInvInit, MutexInvNext, PTL DEF MutexSpec

\* For any number of fibers that lock() and unlock() a mutex: two fibers never
\* hold it together, and m_locked tells whether one does.
THEOREM MutualExclusionHolds == MutexSpec => []MutualExclusion
  <1>1. MutexInv => MutualExclusion
    BY DEF MutexInv
  <1> QED
    BY <1>1, MutexInvHolds, PTL

\* For any number of fibers, types are kept, a fiber waits if and only if it is
\* in the queue of the mutex, and no assertion of Worker and Fiber fails.
THEOREM MutexSafe == MutexSpec => [](MutexTypeOK /\ WaitingIffQueued /\ WorkerConsistent)
  <1>1. MutexInv => MutexTypeOK /\ WaitingIffQueued /\ WorkerConsistent
    BY DEF MutexInv, SyncInv
  <1> QED
    BY <1>1, MutexInvHolds, PTL

\* For any number of fibers: when fibers wait for a mutex that is free, a fiber
\* in lock() is about to run and to try again.
THEOREM NoLostWakeupHolds == MutexSpec => []NoLostWakeup
  <1>1. MutexInv => NoLostWakeup
    <2> SUFFICES ASSUME MutexInv, ~m_locked, queue[0] # <<>>
                 PROVE \E f \in Fiber : stage[f] = "lock" /\ worker.state[f] \in {"Ready", "Running"}
      BY DEF NoLostWakeup
    <2>1. PICK f \in Fiber : stage[f] = "lock" /\ f \notin Elems(queue[0])
      BY DEF MutexInv, SomeoneTries
    <2>2. worker.state[f] # "Waiting"
      <3>1. \A q \in Queue : f \notin Elems(queue[q])
        BY <2>1, FirstQueue DEF MutexInv, OnlyFirst, Elems
      <3> QED
        BY <3>1 DEF MutexInv, SyncInv, WaitingIffQueued, Queued
    <2>3. worker.state[f] \in {"Ready", "Running"}
      BY <2>1, <2>2 DEF MutexInv, LockersLive, Live
    <2> QED
      BY <2>1, <2>3
  <1> QED
    BY <1>1, MutexInvHolds, PTL

\* The owner of the lock, where the mutex is in a state that it can reach.
LEMMA Owner ==
    ASSUME MutexInv
    PROVE  /\ \A f \in Fiber : stage[f] = "held" => owner = f
           /\ ~m_locked => owner = workerFiber
  BY DEF MutexInv, MutualExclusion, owner

\* For any number of fibers, the mutex implements the specification of a lock:
\* lock() and trylock() acquire it when nobody has it, lock() waits only when
\* another fiber has it, unlock() releases it, and nothing else changes it.
THEOREM MutexImplementsLock == MutexSpec => ImplementsLock
  <1>1. MutexInit => L!Free
    BY DEF MutexInit, L!Free, owner, asking
  <1>2. MutexInv /\ MutexInv' /\ [MutexNext]_mutexVars => [L!Step]_<<owner, asking>>
    <2> SUFFICES ASSUME MutexInv, MutexInv', [MutexNext]_mutexVars
                 PROVE  L!Step \/ (owner' = owner /\ asking' = asking)
      OBVIOUS
    <2>0. stage \in [Fiber -> {"idle", "lock", "held"}]
      BY DEF MutexInv, MutexTypeOK
    <2>1. ASSUME NEW f \in Fiber, (lock(f) /\ ~m_locked) \/ trylock(f) PROVE L!Step
      <3>1. owner = workerFiber
        BY <2>1, Owner DEF trylock
      <3>2. stage' = [stage EXCEPT ![f] = "held"]
        BY <2>1 DEF lock, trylock
      <3>3. \A g \in Fiber : stage'[g] = "held" => g = f
        BY <2>0, <3>2 DEF MutexInv, MutualExclusion
      <3>4. owner' = f
        BY <2>0, <3>2, <3>3 DEF owner
      <3>5. asking' = asking \ {f}
        BY <2>0, <3>2 DEF asking
      <3> QED
        BY <3>1, <3>4, <3>5 DEF L!Step, L!Gets
    <2>2. ASSUME NEW f \in Fiber, unlock(f) PROVE L!Step
      <3>1. owner = f
        BY <2>2, Owner DEF unlock
      <3>2. \A g \in Fiber : stage'[g] # "held"
        BY <2>2 DEF MutexInv, MutualExclusion, unlock
      <3>3. owner' = workerFiber
        BY <3>2 DEF owner
      <3>4. asking' = asking
        BY <2>0, <2>2 DEF asking, unlock
      <3> QED
        BY <3>1, <3>3, <3>4 DEF L!Step, L!GivesBack
    <2>3. ASSUME NEW f \in Fiber, lock(f) /\ m_locked PROVE L!Step
      <3>1. \A g \in Fiber : stage'[g] = "held" <=> stage[g] = "held"
        BY <2>0, <2>3 DEF lock, MutexInv, MutualExclusion
      <3>2. owner' = owner
        BY <3>1, Zenon DEF owner
      <3>3. PICK g \in Fiber : stage[g] = "held"
        BY <2>3 DEF MutexInv, MutualExclusion
      <3>4. owner # workerFiber
        BY <3>3, Owner, WorkerAssumption
      <3>5. asking' = asking \cup {f}
        BY <2>0, <2>3 DEF asking, lock
      <3> QED
        BY <3>2, <3>4, <3>5 DEF L!Step, L!HasToWait
    <2>4. ASSUME stage' = stage PROVE owner' = owner /\ asking' = asking
      BY <2>4 DEF owner, asking
    <2> QED
      BY <2>1, <2>2, <2>3, <2>4
         DEF MutexNext, MutexFiberNext, mutexYield, mutexExit, mutexRun, mutexStop, mutexVars
  <1> QED
    BY <1>1, <1>2, MutexInvHolds, PTL DEF MutexSpec, ImplementsLock, L!Spec

-----------------------------------------------------------------------------
(* Semaphore *)

\* Only fibers in acquire() are in the queue.
QueuedWant == \A f \in Elems(queue[0]) : want[f] # NotAcquiring

SemaphoreInv ==
    SyncInv /\ SemaphoreTypeOK /\ QueuedWant /\ BigWaitersSeen /\ UnitsAreOffered

\* The constructor: nobody waits.
LEMMA SemaphoreInvInit == SemaphoreInit => SemaphoreInv
  <1> SUFFICES ASSUME SemaphoreInit PROVE SemaphoreInv
    OBVIOUS
  <1>1. SyncInv
    BY SyncInitLemma DEF SemaphoreInit
  <1>2. queue[0] = <<>> /\ Elems(queue[0]) = {}
    BY FirstQueue DEF SemaphoreInit, SyncInit, Elems
  <1>3. SemaphoreTypeOK
    BY <1>1, SemaphoreAssumption, Zenon DEF SemaphoreInit, SyncInv, SemaphoreTypeOK
  <1> QED
    BY <1>1, <1>2, <1>3 DEF SemaphoreInv, QueuedWant, BigWaitersSeen, UnitsAreOffered

\* unblockFirst() by a fiber that does not wait, and that keeps m_unblockAll: the
\* fiber that it unblocks tries again.
LEMMA SemaphoreUnblocks ==
    ASSUME SemaphoreInv, SemaphoreTypeOK', unblockFirst(0), m_unblockAll' = m_unblockAll,
           NEW f \in Fiber, f \notin Elems(queue[0]),
           \A g \in Fiber : g # f => want'[g] = want[g]
    PROVE  SemaphoreInv'
  <1>1. /\ SyncInv'
        /\ Elems(queue'[0]) \subseteq Elems(queue[0])
        /\ queue[0] # <<>> => front(queue[0]) \in Elems(queue[0]) \ Elems(queue'[0])
    BY FirstQueue, UnblockFirstLemma DEF SemaphoreInv
  <1>2. Elems(queue[0]) \subseteq Fiber
    BY FirstQueue, ListDomain DEF SemaphoreInv, SyncInv, SyncTypeOK
  <1>3. QueuedWant' /\ BigWaitersSeen'
    BY <1>1, <1>2 DEF SemaphoreInv, QueuedWant, BigWaitersSeen, NotAcquiring
  <1>4. CASE queue[0] = <<>>
    <2>1. queue' = queue
      BY <1>4 DEF unblockFirst
    <2> QED
      BY <2>1, <1>1, <1>3, <1>4 DEF SemaphoreInv, UnitsAreOffered
  <1>5. CASE queue[0] # <<>>
    <2>1. PICK g : g = front(queue[0])
      OBVIOUS
    <2>2. g \in Fiber /\ g # f /\ want'[g] # NotAcquiring /\ g \notin Elems(queue'[0])
      BY <2>1, <1>1, <1>2, <1>5 DEF SemaphoreInv, QueuedWant, NotAcquiring
    <2>3. UnitsAreOffered'
      BY <2>2 DEF UnitsAreOffered, Trying, NotAcquiring
    <2> QED
      BY <2>3, <1>1, <1>3 DEF SemaphoreInv
  <1> QED
    BY <1>4, <1>5

\* The steps in which no fiber enters or leaves the queue.
LEMMA SemaphoreGivesWay ==
    ASSUME SemaphoreInv, SyncInv', queue' = queue, m_count' = m_count,
           m_unblockAll' = m_unblockAll, want' = want
    PROVE  SemaphoreInv'
  BY DEF SemaphoreInv, SyncInv, SemaphoreTypeOK, QueuedWant, BigWaitersSeen, UnitsAreOffered,
         Trying, NotAcquiring

\* Every step keeps the inductive invariant.
LEMMA SemaphoreInvNext == SemaphoreInv /\ [SemaphoreNext]_semaphoreVars => SemaphoreInv'
  <1> SUFFICES ASSUME SemaphoreInv, [SemaphoreNext]_semaphoreVars PROVE SemaphoreInv'
    OBVIOUS
  <1>0. /\ SyncInv /\ m_count \in 0 .. CountMax /\ m_unblockAll \in BOOLEAN
        /\ want \in [Fiber -> Counts \cup {-1}] /\ queue \in [Queue -> Seq(Fiber)]
        /\ CountMax \in Nat /\ \A c \in Counts : c \in 0 .. CountMax
    BY SemaphoreAssumption DEF SemaphoreInv, SemaphoreTypeOK, SyncTypeOK, NotAcquiring
  <1>a. worker' = worker /\ queue' = queue => SyncInv'
    BY <1>0, Zenon DEF SyncInv, SyncTypeOK, WaitingIffQueued, Queued, WorkerConsistent
  <1>b. \A f \in Fiber : Runs(f) => f \notin Elems(queue[0])
    BY <1>0, FirstQueue DEF Runs, SyncInv, WorkerConsistent, CurrentRuns, WaitingIffQueued, Queued
  <1>c. Elems(queue[0]) \subseteq Fiber
    BY <1>0, FirstQueue, ListDomain
  <1>1. ASSUME NEW f \in Fiber, NEW c \in Counts, acquire(f, c), m_count < c PROVE SemaphoreInv'
    <2>1. SyncInv' /\ Elems(queue'[0]) = Elems(queue[0]) \cup {f}
      BY <1>0, <1>1, FirstQueue, BlockLemma DEF acquire
    <2>2. /\ m_count' = m_count /\ m_unblockAll' = (m_unblockAll \/ c > 1)
          /\ want' = [want EXCEPT ![f] = c]
      BY <1>1 DEF acquire
    <2>3. SemaphoreTypeOK'
      BY <2>1, <2>2, <1>0 DEF SyncInv, SemaphoreTypeOK, NotAcquiring
    <2>4. QueuedWant'
      BY <2>1, <2>2, <1>0, <1>c DEF SemaphoreInv, QueuedWant, NotAcquiring
    <2>5. BigWaitersSeen'
      BY <2>1, <2>2, <1>0, <1>c, Zenon DEF SemaphoreInv, BigWaitersSeen
    <2>6. ASSUME ~m_unblockAll' PROVE m_count' = 0
      <3>1. ~(c > 1)
        BY <2>2, <2>6, Zenon
      <3> QED
        BY <3>1, <2>2, <1>0, <1>1
    <2>7. UnitsAreOffered'
      BY <2>6 DEF UnitsAreOffered
    <2> QED
      BY <2>1, <2>3, <2>4, <2>5, <2>7 DEF SemaphoreInv
  <1>2. ASSUME NEW f \in Fiber, NEW c \in Counts, acquire(f, c), ~(m_count < c)
        PROVE  SemaphoreInv'
    <2>1. /\ m_count' = m_count - c /\ m_unblockAll' = m_unblockAll
          /\ want' = [want EXCEPT ![f] = NotAcquiring] /\ Runs(f)
      BY <1>2 DEF acquire
    <2>2. m_count' \in 0 .. CountMax /\ f \notin Elems(queue[0])
      BY <2>1, <1>0, <1>2, <1>b
    <2>3. \A g \in Fiber : g # f => want'[g] = want[g]
      BY <2>1, <1>0
    <2>4. SyncInv' => SemaphoreTypeOK'
      BY <2>1, <2>2, <1>0 DEF SyncInv, SemaphoreTypeOK, NotAcquiring
    <2>5. CASE m_count' > 0 /\ ~m_unblockAll
      <3>1. unblockFirst(0)
        BY <2>5, <1>2 DEF acquire
      <3>2. SyncInv'
        BY <3>1, <1>0, FirstQueue, UnblockFirstLemma
      <3> QED
        BY <2>1, <2>2, <2>3, <2>4, <3>1, <3>2, SemaphoreUnblocks
    <2>6. CASE ~(m_count' > 0 /\ ~m_unblockAll)
      <3>1. worker' = worker /\ queue' = queue
        BY <2>6, <1>2 DEF acquire
      <3>2. QueuedWant' /\ BigWaitersSeen'
        BY <3>1, <2>1, <2>2, <2>3, <1>c DEF SemaphoreInv, QueuedWant, BigWaitersSeen, NotAcquiring
      <3>3. UnitsAreOffered'
        BY <2>1, <2>6 DEF UnitsAreOffered
      <3> QED
        BY <3>1, <3>2, <3>3, <2>4, <1>a DEF SemaphoreInv
    <2> QED
      BY <2>5, <2>6
  <1>3. ASSUME NEW f \in Fiber, NEW c \in Counts, release_(f, c) PROVE SemaphoreInv'
    <2>1. /\ m_count' \in 0 .. CountMax /\ want' = want /\ Runs(f)
          /\ m_unblockAll' = (m_unblockAll /\ (m_count' = 0 \/ queue[0] # <<>>))
      BY <1>0, <1>3 DEF release_
    <2>2. SyncInv' => SemaphoreTypeOK'
      BY <2>1, <1>0 DEF SyncInv, SemaphoreTypeOK, NotAcquiring
    <2>3. CASE m_count' = 0
      <3>1. worker' = worker /\ queue' = queue /\ m_unblockAll' = m_unblockAll
        BY <2>1, <2>3, <1>0, <1>3 DEF release_
      <3>2. want' = want
        BY <2>1
      <3>3. QueuedWant' /\ BigWaitersSeen'
        BY <3>1, <3>2 DEF SemaphoreInv, QueuedWant, BigWaitersSeen, NotAcquiring
      <3>4. UnitsAreOffered'
        BY <2>3 DEF UnitsAreOffered
      <3> QED
        BY <3>1, <3>3, <3>4, <2>2, <1>a DEF SemaphoreInv
    <2>4. CASE m_count' # 0 /\ m_unblockAll
      <3>1. unblockAll(0)
        BY <2>4, <1>3 DEF release_
      <3>2. SyncInv' /\ queue'[0] = <<>>
        BY <3>1, <1>0, FirstQueue, UnblockAllLemma
      <3>3. Elems(queue'[0]) = {}
        BY <3>2 DEF Elems
      <3> QED
        BY <3>2, <3>3, <2>2 DEF SemaphoreInv, QueuedWant, BigWaitersSeen, UnitsAreOffered
    <2>5. CASE m_count' # 0 /\ ~m_unblockAll
      <3>1. unblockFirst(0) /\ m_unblockAll' = m_unblockAll
        BY <2>1, <2>5, <1>0, <1>3 DEF release_
      <3>2. SyncInv'
        BY <3>1, <1>0, FirstQueue, UnblockFirstLemma
      <3> QED
        BY <3>1, <3>2, <2>1, <2>2, <1>b, SemaphoreUnblocks
    <2> QED
      BY <2>3, <2>4, <2>5
  <1>4. ASSUME semaphoreRun \/ \E f \in Fiber : semaphoreYield(f) PROVE SemaphoreInv'
    <2>1. SyncInv' /\ queue' = queue
      BY <1>0, <1>4, YieldLemma DEF semaphoreRun, semaphoreYield
    <2> QED
      BY <2>1, <1>4, SemaphoreGivesWay DEF semaphoreRun, semaphoreYield
  <1>5. ASSUME NEW f \in Fiber, semaphoreExit(f) PROVE SemaphoreInv'
    <2>1. SyncInv' /\ queue' = queue
      BY <1>0, <1>5, ExitLemma, Zenon DEF semaphoreExit
    <2> QED
      BY <2>1, <1>5, SemaphoreGivesWay DEF semaphoreExit
  <1>6. ASSUME UNCHANGED semaphoreVars PROVE SemaphoreInv'
    BY <1>6, <1>a, SemaphoreGivesWay DEF semaphoreVars
  <1> QED
    BY <1>1, <1>2, <1>3, <1>4, <1>5, <1>6 DEF SemaphoreNext, SemaphoreFiberNext, semaphoreStop

\* The inductive invariant holds in every behaviour of the semaphore.
LEMMA SemaphoreInvHolds == SemaphoreSpec => []SemaphoreInv
  BY SemaphoreInvInit, SemaphoreInvNext, PTL DEF SemaphoreSpec

\* For any number of fibers and any counts: as long as m_unblockAll is not set, no
\* units are left while fibers wait, unless one of these is to try again
\* (Semaphore::acquire(), release()).
THEOREM UnitsAreOfferedHolds == SemaphoreSpec => []UnitsAreOffered
  <1>1. SemaphoreInv => UnitsAreOffered
    BY DEF SemaphoreInv
  <1> QED
    BY <1>1, SemaphoreInvHolds, PTL

\* For any number of fibers and any counts: while a fiber waits for several units,
\* m_unblockAll is set, and the next release() lets everyone try.
THEOREM BigWaitersSeenHolds == SemaphoreSpec => []BigWaitersSeen
  <1>1. SemaphoreInv => BigWaitersSeen
    BY DEF SemaphoreInv
  <1> QED
    BY <1>1, SemaphoreInvHolds, PTL

\* The count stays within its type, also when release() would exceed it, and the
\* worker stays consistent.
THEOREM SemaphoreSafe == SemaphoreSpec => [](SemaphoreTypeOK /\ WaitingIffQueued /\ WorkerConsistent)
  <1>1. SemaphoreInv => SemaphoreTypeOK /\ WaitingIffQueued /\ WorkerConsistent
    BY DEF SemaphoreInv, SyncInv
  <1> QED
    BY <1>1, SemaphoreInvHolds, PTL

-----------------------------------------------------------------------------
(* Signal *)

SignalInv == SyncInv /\ SignalTypeOK /\ QueuedSignalsAreSeen

\* A new signal is not set, and nobody waits for it.
LEMMA SignalInit == Init => SignalInv
  <1> SUFFICES ASSUME Init PROVE SignalInv
    OBVIOUS
  <1>1. SyncInv
    BY SyncInitLemma DEF Init
  <1>2. m_signalled \in -1 .. MaxSignalled
    BY SignalAssumption DEF Init
  <1> QED
    BY <1>1, <1>2 DEF Init, SignalInv, SyncInv, SignalTypeOK, QueuedSignalsAreSeen

\* Every step keeps the inductive invariant.
LEMMA SignalNext == SignalInv /\ [Next]_vars => SignalInv'
  <1> SUFFICES ASSUME SignalInv, [Next]_vars PROVE SignalInv'
    OBVIOUS
  <1>0. /\ SyncInv /\ pc \in [Fiber -> {"idle", "wait"}]
        /\ m_signalled \in -1 .. MaxSignalled /\ MaxSignalled \in Nat \ {0}
        /\ queue[0] # <<>> => m_signalled = 0
    BY SignalAssumption DEF SignalInv, SignalTypeOK, QueuedSignalsAreSeen
  <1> DEFINE Rest == /\ m_signalled' \in -1 .. MaxSignalled
                     /\ pc' \in [Fiber -> {"idle", "wait"}]
                     /\ queue'[0] # <<>> => m_signalled' = 0
  <1>a. SyncInv' /\ Rest => SignalInv'
    BY DEF SignalInv, SyncInv, SignalTypeOK, QueuedSignalsAreSeen
  <1>b. worker' = worker /\ queue' = queue => SyncInv'
    BY <1>0, Zenon DEF SyncInv, SyncTypeOK, WaitingIffQueued, Queued, WorkerConsistent
  <1>1. ASSUME NEW f \in Fiber, wait(f) PROVE SignalInv'
    <2>1. m_signalled' = m_signalled /\ pc' = [pc EXCEPT ![f] = "wait"]
      BY <1>1 DEF wait
    <2>2. CASE m_signalled = 0
      <3>1. SyncInv'
        BY <2>2, <1>0, <1>1, FirstQueue, BlockLemma DEF wait
      <3> QED
        BY <2>1, <2>2, <3>1, <1>0, <1>a
    <2>3. CASE m_signalled # 0
      <3>1. SyncInv' /\ queue' = queue
        BY <2>3, <1>0, <1>1, <1>b, YieldLemma DEF wait
      <3> QED
        BY <2>1, <3>1, <1>0, <1>a
    <2> QED
      BY <2>2, <2>3
  <1>2. ASSUME NEW f \in Fiber, waitEnd(f) \/ reset(f) PROVE SignalInv'
    <2>1. /\ worker' = worker /\ queue' = queue
          /\ pc' \in [Fiber -> {"idle", "wait"}]
      BY <1>0, <1>2 DEF waitEnd, reset
    <2>2. /\ m_signalled' \in -1 .. MaxSignalled
          /\ m_signalled = 0 => m_signalled' = 0
      BY <1>0, <1>2 DEF waitEnd, reset
    <2> QED
      BY <2>1, <2>2, <1>0, <1>a, <1>b
  <1>3. ASSUME NEW f \in Fiber, NEW b \in BOOLEAN, NEW e \in BOOLEAN, signal(f, b, e)
        PROVE  SignalInv'
    <2>1. SyncInv'
      BY <1>0, <1>3, FirstQueue, UnblockFirstLemma DEF signal
    <2>2. queue[0] = <<>> => queue' = queue
      BY <1>3 DEF signal, unblockFirst
    <2>3. pc' = pc /\ m_signalled' \in -1 .. MaxSignalled
          /\ (queue[0] # <<>> => m_signalled' = m_signalled)
      BY <1>0, <1>3 DEF signal
    <2> QED
      BY <2>1, <2>2, <2>3, <1>0, <1>a
  <1>4. ASSUME NEW f \in Fiber, NEW b \in BOOLEAN, signalAll(f, b) PROVE SignalInv'
    <2>1. SyncInv'
      BY <1>0, <1>4, FirstQueue, UnblockAllLemma DEF signalAll
    <2>2. queue'[0] = <<>>
      BY <1>0, <1>4, FirstQueue DEF signalAll, unblockAll, SyncInv, SyncTypeOK
    <2>3. pc' = pc /\ m_signalled' \in -1 .. MaxSignalled
      BY <1>0, <1>4 DEF signalAll
    <2> QED
      BY <2>1, <2>2, <2>3, <1>0, <1>a
  <1>5. ASSUME run_ \/ \E f \in Fiber : yield(f) PROVE SignalInv'
    <2>1. SyncInv' /\ queue' = queue
      BY <1>0, <1>5, YieldLemma DEF run_, yield
    <2> QED
      BY <2>1, <1>0, <1>5, <1>a DEF run_, yield
  <1>6. ASSUME NEW f \in Fiber, fiberExit(f) PROVE SignalInv'
    <2>1. SyncInv' /\ queue' = queue
      BY <1>0, <1>6, ExitLemma, Zenon DEF fiberExit
    <2> QED
      BY <2>1, <1>0, <1>6, <1>a DEF fiberExit
  <1>7. ASSUME UNCHANGED vars PROVE SignalInv'
    BY <1>0, <1>7, <1>a, <1>b DEF vars
  <1> QED
    BY <1>1, <1>2, <1>3, <1>4, <1>5, <1>6, <1>7 DEF Next, FiberNext, stop

\* The inductive invariant holds in every behaviour of the signal.
LEMMA SignalInvHolds == Spec => []SignalInv
  BY SignalInit, SignalNext, PTL DEF Spec

\* For any number of fibers that wait for and give signals in any order, no fiber
\* waits while a signal is queued (Signal::wait(), signal(), signalAll()).
THEOREM QueuedSignalsAreSeenHolds == Spec => []QueuedSignalsAreSeen
  <1>1. SignalInv => QueuedSignalsAreSeen
    BY DEF SignalInv
  <1> QED
    BY <1>1, SignalInvHolds, PTL

\* While fibers wait and are unblocked, the run queue and the states of the fibers
\* agree, and no assertion of Worker and Fiber fails.
THEOREM SignalSafe == Spec => [](WaitingIffQueued /\ WorkerConsistent)
  <1>1. SignalInv => WaitingIffQueued /\ WorkerConsistent
    BY DEF SignalInv, SyncInv
  <1> QED
    BY <1>1, SignalInvHolds, PTL

\* After signalAll(), only reset() clears the signal, however many fibers wait and
\* signal (Signal::wait(), signal()).
THEOREM SignalledUntilResetHolds == Spec => SignalledUntilReset
  <1> DEFINE Kept == m_signalled = -1 /\ m_signalled' # -1 => \E f \in Fiber : reset(f)
  <1>1. [Next]_vars => [Kept]_vars
    <2> SUFFICES ASSUME Next, m_signalled = -1, m_signalled' # -1
                 PROVE  \E f \in Fiber : reset(f)
      OBVIOUS
    <2>1. ASSUME NEW f \in Fiber, wait(f) \/ waitEnd(f) \/ yield(f) \/ fiberExit(f) PROVE FALSE
      BY <2>1 DEF wait, waitEnd, yield, fiberExit
    <2>2. ASSUME NEW f \in Fiber, NEW b \in BOOLEAN, signalAll(f, b) PROVE FALSE
      BY <2>2 DEF signalAll
    <2>3. ASSUME NEW f \in Fiber, NEW b \in BOOLEAN, NEW e \in BOOLEAN, signal(f, b, e) PROVE FALSE
      BY <2>3 DEF signal
    <2>4. ~run_ /\ ~stop
      BY DEF run_, stop, vars
    <2> QED
      BY <2>1, <2>2, <2>3, <2>4 DEF Next, FiberNext
  <1> QED
    BY <1>1, PTL DEF Spec, SignalledUntilReset

-----------------------------------------------------------------------------
(* Mailbox *)

QueuedInCall ==
    /\ \A f \in Elems(queue[Queue_Put]) : Puts(f)
    /\ \A f \in Elems(queue[Queue_Take]) : Takes(f)

MailboxInv == TwoQueues /\ SyncInv /\ MailboxTypeOK /\ QueuedInCall /\ WokenTakerFindsValue

\* A mailbox has two queues, of different fibers.
LEMMA MailboxQueues ==
    ASSUME TwoQueues PROVE Queue = {Queue_Put, Queue_Take} /\ Queue_Put # Queue_Take
  BY SMT DEF TwoQueues, Queue, Queue_Put, Queue_Take

\* What a fiber in each call does.
LEMMA MailboxCalls ==
    /\ Idle.op = "idle" /\ \A v : Put(v).op = "put" /\ \A op : Call(op).op = op
  BY DEF Idle, Put, Call

\* A new mailbox is empty, and nobody waits.
LEMMA MailboxInvInit == ASSUME TwoQueues PROVE MailboxInit => MailboxInv
  <1> SUFFICES ASSUME MailboxInit PROVE MailboxInv
    OBVIOUS
  <1>1. SyncInv
    BY SyncInitLemma DEF MailboxInit
  <1>2. Elems(queue[Queue_Put]) = {} /\ Elems(queue[Queue_Take]) = {}
    BY MailboxQueues DEF MailboxInit, SyncInit, Elems
  <1>3. \A f \in Fiber : ~Takes(f)
    BY MailboxCalls DEF MailboxInit, Takes
  <1>4. MailboxTypeOK
    BY <1>1 DEF MailboxInit, SyncInv, MailboxTypeOK, Context
  <1> QED
    BY <1>1, <1>2, <1>3, <1>4 DEF MailboxInv, QueuedInCall, WokenTakerFindsValue

\* A fiber is queued if it is in one of the two queues.
LEMMA MailboxQueued ==
    ASSUME TwoQueues, NEW f
    PROVE  /\ Queued(f) <=> f \in Elems(queue[Queue_Put]) \cup Elems(queue[Queue_Take])
           /\ Queued(f)' <=> f \in Elems(queue'[Queue_Put]) \cup Elems(queue'[Queue_Take])
  BY MailboxQueues DEF Queued

\* unblockFirst() takes one fiber out of one queue.
LEMMA MailboxUnblocks ==
    ASSUME SyncInv, NEW q \in Queue, unblockFirst(q)
    PROVE  /\ SyncInv' /\ \A p \in Queue \ {q} : queue'[p] = queue[p]
           /\ queue[q] = <<>> => queue' = queue
           /\ queue[q] # <<>> => /\ front(queue[q]) \in Elems(queue[q])
                                 /\ Elems(queue'[q]) = Elems(queue[q]) \ {front(queue[q])}
  <1>1. SyncInv' /\ \A p \in Queue \ {q} : queue'[p] = queue[p]
    BY UnblockFirstLemma
  <1>2. queue[q] = <<>> => queue' = queue
    BY DEF unblockFirst
  <1>3. ASSUME queue[q] # <<>>
        PROVE  /\ front(queue[q]) \in Elems(queue[q])
               /\ Elems(queue'[q]) = Elems(queue[q]) \ {front(queue[q])}
    <2>1. queue \in [Queue -> Seq(Fiber)] /\ queue[q] \in Seq(Fiber) /\ Distinct(queue[q])
      BY DEF SyncInv, SyncTypeOK, WaitingIffQueued
    <2>2. queue'[q] = pop_front(queue[q])
      BY <1>3, <2>1 DEF unblockFirst
    <2> QED
      BY <1>3, <2>1, <2>2, PopFront
  <1> QED
    BY <1>1, <1>2, <1>3

\* A fiber blocks, in a call that belongs to the queue.
LEMMA MailboxBlocks ==
    ASSUME MailboxInv, NEW f \in Fiber, Runs(f), NEW q \in Queue, NEW c, blocks(f, q, c),
           c \in {Put(v) : v \in Values} \cup {Call(op) : op \in {"take", "wait", "wait_empty"}},
           IF q = Queue_Put THEN c.op \in {"put", "wait_empty"} ELSE c.op \in {"take", "wait"}
    PROVE  MailboxInv'
  <1>1. TwoQueues /\ SyncInv /\ SyncInv' /\ Elems(queue'[q]) = Elems(queue[q]) \cup {f}
    BY BlockLemma DEF blocks, MailboxInv
  <1>2. \A p \in Queue : p # q => queue'[p] = queue[p]
    BY <1>1 DEF blocks, block, SyncInv, SyncTypeOK
  <1>3. /\ call' = [call EXCEPT ![f] = c] /\ m_value' = m_value /\ m_assigned' = m_assigned
    BY DEF blocks
  <1>4. call'[f] = c /\ \A g \in Fiber : g # f => call'[g] = call[g]
    BY <1>3 DEF MailboxInv, MailboxTypeOK
  <1>5. MailboxTypeOK'
    BY <1>1, <1>3 DEF MailboxInv, SyncInv, MailboxTypeOK
  <1>6. \A p \in Queue : Elems(queue[p]) \subseteq Fiber
    BY <1>1, ListDomain, SMTT(30) DEF SyncInv, SyncTypeOK
  <1>7. \A p \in Queue : f \notin Elems(queue[p])
    BY <1>1 DEF Runs, SyncInv, WorkerConsistent, CurrentRuns, WaitingIffQueued, Queued
  <1>8. QueuedInCall'
    BY <1>1, <1>2, <1>4, <1>6, <1>7, MailboxQueues DEF MailboxInv, QueuedInCall, Puts, Takes
  <1>9. WokenTakerFindsValue'
    <2> SUFFICES ASSUME NEW g \in Fiber, Takes(g)', ~Queued(g)' PROVE valid' /\ m_assigned' = g
      BY DEF WokenTakerFindsValue
    <2>1. g # f /\ ~Queued(g)
      BY <1>1, <1>2, MailboxQueues, MailboxQueued, SMTT(30)
    <2>2. Takes(g)
      BY <2>1, <1>4 DEF Takes
    <2> QED
      BY <2>1, <2>2, <1>3 DEF MailboxInv, WokenTakerFindsValue, valid
  <1> QED
    BY <1>1, <1>5, <1>8, <1>9 DEF MailboxInv

\* Every step keeps the inductive invariant.
LEMMA MailboxInvNext == MailboxInv /\ [MailboxNext]_mailboxVars => MailboxInv'
  <1> SUFFICES ASSUME MailboxInv, [MailboxNext]_mailboxVars PROVE MailboxInv'
    OBVIOUS
  <1>0. TwoQueues /\ SyncInv /\ MailboxTypeOK /\ QueuedInCall /\ WokenTakerFindsValue
    BY DEF MailboxInv
  <1>a. worker' = worker /\ queue' = queue => SyncInv'
    BY <1>0, Zenon DEF SyncInv, SyncTypeOK, WaitingIffQueued, Queued, WorkerConsistent
  <1>b. \A f \in Fiber : Runs(f) => \A p \in Queue : f \notin Elems(queue[p])
    BY <1>0 DEF Runs, SyncInv, WorkerConsistent, CurrentRuns, WaitingIffQueued, Queued
  <1>c. \A p \in Queue : Elems(queue[p]) \subseteq Fiber
    BY <1>0, ListDomain DEF SyncInv, SyncTypeOK
  <1>d. ASSUME NEW f \in Fiber, Returns(f)
        PROVE  /\ ~Takes(f)' /\ \A g \in Fiber : g # f => call'[g] = call[g]
               /\ \A g \in Fiber : g # f => Takes(g)' = Takes(g) /\ Puts(g)' = Puts(g)
    <2>1. call'[f] = Idle /\ \A g \in Fiber : g # f => call'[g] = call[g]
      BY <1>0, <1>d DEF Returns, MailboxTypeOK
    <2> QED
      BY <2>1, MailboxCalls DEF Takes, Puts
  <1>1. ASSUME NEW f \in Fiber, NEW v \in Values, put(f, v), valid PROVE MailboxInv'
    BY <1>0, <1>1, MailboxBlocks, MailboxQueues, MailboxCalls DEF put, Enters
  <1>2. ASSUME NEW f \in Fiber, NEW v \in Values, put(f, v), ~valid PROVE MailboxInv'
    <2>1. /\ m_value' = v /\ unblockFirst(Queue_Take) /\ Returns(f) /\ Runs(f)
          /\ m_assigned' = IF queue[Queue_Take] = <<>> THEN m_assigned
                                                       ELSE front(queue[Queue_Take])
      BY <1>2 DEF put, Enters
    <2>2. /\ SyncInv' /\ queue'[Queue_Put] = queue[Queue_Put]
          /\ queue[Queue_Take] = <<>> => queue' = queue
          /\ queue[Queue_Take] # <<>> =>
                /\ front(queue[Queue_Take]) \in Elems(queue[Queue_Take])
                /\ Elems(queue'[Queue_Take]) =
                      Elems(queue[Queue_Take]) \ {front(queue[Queue_Take])}
      BY <2>1, <1>0, MailboxUnblocks, MailboxQueues
    <2>3. Elems(queue'[Queue_Take]) \subseteq Elems(queue[Queue_Take])
      BY <2>2
    <2>4. m_assigned' \in Context
      BY <2>1, <2>2, <1>0, <1>c, MailboxQueues DEF MailboxTypeOK, Context
    <2>5. MailboxTypeOK'
      BY <2>1, <2>2, <2>4, <1>0, SMTT(30) DEF MailboxTypeOK, SyncInv, Returns
    <2>6. QueuedInCall'
      BY <2>1, <2>2, <2>3, <1>0, <1>b, <1>c, <1>d, MailboxQueues, SMTT(30) DEF QueuedInCall
    <2>7. WokenTakerFindsValue'
      <3> SUFFICES ASSUME NEW g \in Fiber, Takes(g)', ~Queued(g)' PROVE valid' /\ m_assigned' = g
        BY DEF WokenTakerFindsValue
      <3>1. valid'
        BY <2>1, MailboxAssumption DEF valid
      <3>2. g # f /\ Takes(g)
        BY <2>1, <1>d
      <3>3. Queued(g)
        BY <3>2, <1>0, <1>2 DEF WokenTakerFindsValue
      <3>4. queue[Queue_Take] # <<>> /\ g = front(queue[Queue_Take])
        BY <3>3, <2>2, <1>0, MailboxQueued
      <3> QED
        BY <3>1, <3>4, <2>1
    <2> QED
      BY <2>2, <2>5, <2>6, <2>7 DEF MailboxInv
  <1>3. ASSUME NEW f \in Fiber, take(f) \/ mailboxWait(f), ~validFor(f) PROVE MailboxInv'
    BY <1>0, <1>3, MailboxBlocks, MailboxQueues, MailboxCalls DEF take, mailboxWait, Enters
  <1>4. ASSUME NEW f \in Fiber, take(f), validFor(f) PROVE MailboxInv'
    <2>1. /\ m_value' = NoValue /\ unblockFirst(Queue_Put) /\ Returns(f) /\ Runs(f)
          /\ m_assigned' = m_assigned
      BY <1>4 DEF take, Enters
    <2>2. /\ SyncInv' /\ queue'[Queue_Take] = queue[Queue_Take]
          /\ Elems(queue'[Queue_Put]) \subseteq Elems(queue[Queue_Put])
      BY <2>1, <1>0, MailboxUnblocks, MailboxQueues
    <2>3. MailboxTypeOK'
      BY <2>1, <2>2, <1>0 DEF MailboxTypeOK, SyncInv, Returns
    <2>4. QueuedInCall'
      BY <2>1, <2>2, <1>0, <1>b, <1>c, <1>d, MailboxQueues DEF QueuedInCall
    <2>5. WokenTakerFindsValue'
      <3> SUFFICES ASSUME NEW g \in Fiber, Takes(g)', ~Queued(g)' PROVE FALSE
        BY DEF WokenTakerFindsValue
      <3>1. g # f /\ Takes(g)
        BY <2>1, <1>d
      <3>2. ~(g \in Elems(queue[Queue_Put]))
        BY <3>1, <1>0 DEF QueuedInCall, Puts, Takes
      <3>3. ~Queued(g)
        BY <3>2, <2>2, <1>0, MailboxQueued
      <3>4. m_assigned = g
        BY <3>1, <3>3, <1>0 DEF WokenTakerFindsValue
      <3> QED
        BY <3>1, <3>4, <1>4, WorkerAssumption DEF validFor
    <2> QED
      BY <2>2, <2>3, <2>4, <2>5 DEF MailboxInv
  <1>5. ASSUME NEW f \in Fiber, (mailboxWait(f) /\ validFor(f)) \/ (wait_empty(f) /\ ~valid)
        PROVE  MailboxInv'
    <2>1. /\ worker' = worker /\ queue' = queue /\ m_value' = m_value
          /\ m_assigned' = m_assigned /\ Returns(f) /\ Runs(f)
      BY <1>5 DEF mailboxWait, wait_empty, Enters
    <2>2. SyncInv'
      BY <2>1, <1>a
    <2>3. MailboxTypeOK'
      BY <2>1, <2>2, <1>0 DEF MailboxTypeOK, SyncInv, Returns
    <2>4. QueuedInCall'
      BY <2>1, <1>0, <1>b, <1>c, <1>d, MailboxQueues, SMTT(30) DEF QueuedInCall
    <2>5. WokenTakerFindsValue'
      BY <2>1, <1>0, <1>d, MailboxQueued DEF WokenTakerFindsValue, valid
    <2> QED
      BY <2>2, <2>3, <2>4, <2>5 DEF MailboxInv
  <1>6. ASSUME NEW f \in Fiber, wait_empty(f), valid PROVE MailboxInv'
    BY <1>0, <1>6, MailboxBlocks, MailboxQueues, MailboxCalls DEF wait_empty, Enters
  <1>e. ASSUME SyncInv', queue' = queue, m_value' = m_value, m_assigned' = m_assigned, call' = call
        PROVE  MailboxInv'
    BY <1>0, <1>e, MailboxQueued DEF MailboxInv, SyncInv, MailboxTypeOK, QueuedInCall,
                                     WokenTakerFindsValue, Takes, Puts, valid
  <1>7. ASSUME mailboxRun \/ \E f \in Fiber : mailboxYield(f) PROVE MailboxInv'
    <2>1. SyncInv' /\ queue' = queue
      BY <1>0, <1>7, YieldLemma DEF mailboxRun, mailboxYield
    <2> QED
      BY <2>1, <1>7, <1>e DEF mailboxRun, mailboxYield
  <1>8. ASSUME NEW f \in Fiber, mailboxExit(f) PROVE MailboxInv'
    <2>1. SyncInv' /\ queue' = queue
      BY <1>0, <1>8, ExitLemma, Zenon DEF mailboxExit
    <2> QED
      BY <2>1, <1>8, <1>e DEF mailboxExit
  <1>9. ASSUME UNCHANGED mailboxVars PROVE MailboxInv'
    BY <1>9, <1>a, <1>e DEF mailboxVars
  <1> QED
    BY <1>1, <1>2, <1>3, <1>4, <1>5, <1>6, <1>7, <1>8, <1>9 DEF MailboxNext, MailboxFiberNext, mailboxStop

\* For any number of fibers and values: a fiber that put() has woken up for a value
\* finds it, and no other fiber takes it before (Mailbox::wakeup(), valid(assigned)).
THEOREM WokenTakerFindsValueHolds ==
  ASSUME TwoQueues PROVE MailboxSpec => []WokenTakerFindsValue
  <1>1. MailboxInv => WokenTakerFindsValue
    BY DEF MailboxInv
  <1> QED
    BY <1>1, MailboxInvInit, MailboxInvNext, PTL DEF MailboxSpec

\* A fiber is in at most one of the two queues, if and only if it waits, and the
\* worker stays consistent.
THEOREM MailboxSafe ==
  ASSUME TwoQueues PROVE MailboxSpec => [](MailboxTypeOK /\ WaitingIffQueued /\ WorkerConsistent)
  <1>1. MailboxInv => MailboxTypeOK /\ WaitingIffQueued /\ WorkerConsistent
    BY DEF MailboxInv, SyncInv
  <1> QED
    BY <1>1, MailboxInvInit, MailboxInvNext, PTL DEF MailboxSpec
=============================================================================
