-------------------------------- MODULE Gate --------------------------------
(***************************************************************************)
(* zth::Gate (include/libzth/sync.h): fibers pass() it, or wait() for it.  *)
(*                                                                         *)
(* Two history variables count, for every fiber, how often it has arrived  *)
(* at the gate and how often it has left it.  A gate has one queue: Size   *)
(* is 1.                                                                   *)
(***************************************************************************)
EXTENDS Synchronizer, Functions

CONSTANTS Counts,       \* the numbers of fibers to open the gate, to construct it with
          MaxArrivals   \* bound on the arrivals of one fiber

VARIABLES m_count, m_current,
          visitors,     \* the fibers of the program that may pass() without waiting, and may end
          arrived, left

vars == <<worker, queue, m_count, m_current, visitors, arrived, left>>

program == <<m_count, visitors>>

Init ==
    /\ SyncInit
    /\ m_count \in Counts
    /\ m_current = 0
    /\ visitors \in {{}, Fiber}
    /\ arrived = [f \in Fiber |-> 0]
    /\ left = [f \in Fiber |-> 0]

Idle(f) == Runs(f) /\ arrived[f] = left[f]

Arrives(f) == arrived[f] < MaxArrivals /\ arrived' = [arrived EXCEPT ![f] = @ + 1]

Leaves(f) == left' = [left EXCEPT ![f] = @ + 1]

\* Mutant of opens: the gate opens one fiber too early.
opens_Early ==
    m_current + 2 >= m_count /\ m_current' = (m_current + 1) % m_count /\ unblockAll(0)

\* pass() that opens the gate, and pass() that does not.
opens == m_current + 1 >= m_count /\ m_current' = m_current + 1 - m_count /\ unblockAll(0)

counts == m_current + 1 < m_count /\ m_current' = m_current + 1

pass(f) ==
    /\ Idle(f) /\ f \in visitors /\ Arrives(f) /\ Leaves(f)
    /\ opens \/ (counts /\ UNCHANGED <<worker, queue>>)
    /\ UNCHANGED program

wait(f) ==
    /\ Idle(f) /\ Arrives(f)
    /\ \/ opens /\ Leaves(f)
       \/ counts /\ block(f, 0) /\ UNCHANGED left
    /\ UNCHANGED program

\* Mutant of waitEnd: the gate is looked at again.
waitEnd_Again(f) ==
    /\ Runs(f) /\ arrived[f] # left[f]
    /\ IF m_current = 0 THEN Leaves(f) /\ UNCHANGED worker
       ELSE worker' = schedule(worker, FALSE) /\ UNCHANGED left
    /\ UNCHANGED <<queue, m_current, arrived, program>>

\* The return of block() in wait().
waitEnd(f) ==
    /\ Runs(f) /\ arrived[f] # left[f]
    /\ Leaves(f)
    /\ UNCHANGED <<worker, queue, m_current, arrived, program>>

yield(f) == Yield(f) /\ Idle(f) /\ UNCHANGED <<m_current, arrived, left, program>>

fiberExit(f) == Exit(f) /\ Idle(f) /\ f \in visitors /\ UNCHANGED <<m_current, arrived, left, program>>

run_ == RunWorker /\ UNCHANGED <<m_current, arrived, left, program>>

stop == Stopped /\ UNCHANGED vars

FiberNext(f) == pass(f) \/ wait(f) \/ waitEnd(f) \/ yield(f) \/ fiberExit(f)

Next == run_ \/ stop \/ \E f \in Fiber : FiberNext(f)

Spec == Init /\ [][Next]_vars

\* The thread goes on: whoever is current continues in wait(), or yields.
GoesOn == run_ \/ \E f \in Fiber : waitEnd(f) \/ yield(f)

\* ENABLED <<GoesOn>>_vars: yield() by a fiber that is alone changes nothing.
CanGoOn ==
    \/ Runs(workerFiber) /\ worker.runnable # <<>>
    \/ \E f \in Fiber : Runs(f) /\ (arrived[f] # left[f] \/ Len(worker.runnable) > 1)

MayWait(f) == Idle(f) /\ f \notin visitors /\ arrived[f] < MaxArrivals

\* Weak fairness of GoesOn.  The fibers that only wait() come to the gate time and
\* again: as the arrivals are bounded, this is strong fairness of wait().
Fairness ==
    /\ []<>~CanGoOn \/ []<><<GoesOn>>_vars
    /\ \A f \in Fiber : <>[]~MayWait(f)

-----------------------------------------------------------------------------
(* Properties *)

GateTypeOK ==
    /\ SyncTypeOK
    /\ m_count \in Counts /\ m_current \in 0 .. m_count - 1
    /\ visitors \subseteq Fiber
    /\ arrived \in [Fiber -> 0 .. MaxArrivals] /\ left \in [Fiber -> 0 .. MaxArrivals]

\* The gate opens at every m_count-th arrival, whoever arrives and whether it
\* waits or not, and then nobody stays behind: the fibers in the queue are
\* among those that arrived since (Gate::pass(), wait()).
OpensOnCount ==
    /\ m_current = SumFunction(arrived) % m_count
    /\ Len(queue[0]) <= m_current

IsBarrier == visitors = {} /\ m_count = Cardinality(Fiber)

\* "If all participants call zth_gate_wait(), the gate behaves the same as a
\* pthread_barrier_t would": no fiber leaves the gate for the n-th time before
\* all have arrived n times, even if some are back before others have left.
Barrier ==
    IsBarrier => \A f, g \in Fiber : left[f] <= arrived[g]

\* A fiber that has been let through leaves, wherever the others are.
ReleasedLeaves ==
    \A f \in Fiber : (arrived[f] # left[f] /\ ~Queued(f)) ~> arrived[f] = left[f]

\* When all fibers keep coming to the gate, none of them stays there.
BarrierOpens == \A f \in Fiber : (IsBarrier /\ arrived[f] # left[f]) ~> arrived[f] = left[f]
=============================================================================
