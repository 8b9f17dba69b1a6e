---------------------------- MODULE Synchronizer ----------------------------
(***************************************************************************)
(* zth::Synchronizer<Size> (include/libzth/sync.h), the base class of the  *)
(* mutex, the semaphore, the signal, the future, the mailbox and the gate: *)
(* Size queues of fibers that wait, and the worker that they all run in.   *)
(*                                                                         *)
(* A module that EXTENDS this one has an action for every stretch of code  *)
(* that a fiber executes without giving way: from the call, or from the    *)
(* return of block(), to the next call of schedule() or the return.        *)
(***************************************************************************)
EXTENDS Worker

CONSTANT Size   \* the number of queues

ASSUME SizeAssumption == Size \in Nat \ {0}

VARIABLES worker,  \* the Worker and its fibers
          queue    \* SynchronizerBase::queue(q), for q from 0

Queue == 0 .. Size - 1

Runs(f) == worker.current = f /\ ~worker.failed

Queued(f) == \E q \in Queue : f \in Elems(queue[q])

HatchOrders == {q \in [1 .. Cardinality(Fiber) -> Fiber] : Distinct(q)}

SyncInit ==
    /\ \E q \in HatchOrders : worker = NewWorker(q)
    /\ queue = [q \in Queue |-> <<>>]

\* block(q) by the current fiber f.
block(f, q) ==
    /\ worker' = schedule(nap(release(worker, f), f), FALSE)
    /\ queue' = [queue EXCEPT ![q] = push_back(@, f)]

\* wakeup() of a fiber that has been taken from a queue.
Woken(w, f) == add(wakeup(w, f), f)

unblockFirst(q) ==
    IF queue[q] = <<>> THEN UNCHANGED <<worker, queue>>
    ELSE /\ worker' = Woken(worker, front(queue[q]))
         /\ queue' = [queue EXCEPT ![q] = pop_front(@)]

\* unblockFirst() of the fibers of s, in order.  The fibers that wait are Waiting,
\* and each becomes what it was to become next.
WokenAll(w, s) ==
    [w EXCEPT !.runnable = appendAll(@, s),
              !.state = [f \in Context |->
                            IF f \in Elems(s) THEN w.stateNext[f] ELSE w.state[f]]]

unblockAll(q) ==
    /\ worker' = WokenAll(worker, queue[q])
    /\ queue' = [queue EXCEPT ![q] = <<>>]

\* One turn of the loop of Worker::run().
RunWorker ==
    /\ Runs(workerFiber) /\ worker.runnable # <<>>
    /\ worker' = schedule(worker, FALSE)
    /\ UNCHANGED queue

\* The current fiber gives way outside of any operation, or ends.
Yield(f) ==
    /\ Runs(f)
    /\ worker' = schedule(worker, FALSE)
    /\ UNCHANGED queue

Exit(f) ==
    /\ Runs(f)
    /\ worker' = exit(worker, f, FALSE)
    /\ UNCHANGED queue

\* Worker::run() has returned: no fiber can run.
Stopped == Runs(workerFiber) /\ worker.runnable = <<>>

-----------------------------------------------------------------------------

SyncTypeOK ==
    /\ worker \in WorkerType
    /\ queue \in [Queue -> Seq(Fiber)]

\* A fiber waits if and only if it is in one queue, once: a blocked fiber can
\* always be reached by an unblock, and a fiber that runs is in no queue
\* (block(), wakeup() and the list hook that Fiber inherits from Listable).
WaitingIffQueued ==
    /\ \A f \in Fiber : worker.state[f] = "Waiting" <=> Queued(f)
    /\ \A q \in Queue : Distinct(queue[q])
    /\ \A p, q \in Queue : p # q => Elems(queue[p]) \cap Elems(queue[q]) = {}

\* The run queue and the states agree, the current fiber is the one that is
\* Running, and no assertion of Worker and Fiber fails while fibers block on,
\* and are unblocked by, a synchronizer.
WorkerConsistent ==
    /\ QueuesMatchStates(worker) /\ CurrentRuns(worker) /\ ~worker.failed
    /\ CanSwitch(worker, FALSE) \/ worker.runnable = <<>>
=============================================================================
