------------------------------- MODULE Signal -------------------------------
(***************************************************************************)
(* zth::Signal (include/libzth/sync.h), the condition of the C API: fibers *)
(* wait(), signal(), signalAll() and reset() in any order.                 *)
(***************************************************************************)
EXTENDS Synchronizer

CONSTANT MaxSignalled   \* bound on the signals that are queued

ASSUME SignalAssumption == MaxSignalled \in Nat \ {0}

VARIABLES m_signalled,   \* the number of queued signals, or -1: always signalled
          pc             \* of each fiber: idle, or in wait()

vars == <<worker, queue, m_signalled, pc>>

Init ==
    /\ SyncInit
    /\ m_signalled = 0
    /\ pc = [f \in Fiber |-> "idle"]

\* wait(), up to its block() or yield().  The latter switches only when the
\* time slice of the fiber has ended.
wait(f) ==
    /\ Runs(f) /\ pc[f] = "idle"
    /\ IF m_signalled = 0 THEN block(f, 0)
       ELSE Yield(f) \/ UNCHANGED <<worker, queue>>
    /\ pc' = [pc EXCEPT ![f] = "wait"]
    /\ UNCHANGED m_signalled

\* Mutant of waitEnd: all signals are consumed.
waitEnd_Clears(f) ==
    /\ Runs(f) /\ pc[f] = "wait"
    /\ m_signalled' = 0
    /\ pc' = [pc EXCEPT ![f] = "idle"]
    /\ UNCHANGED <<worker, queue>>

\* The rest of wait().
waitEnd(f) ==
    /\ Runs(f) /\ pc[f] = "wait"
    /\ m_signalled' = IF m_signalled > 0 THEN m_signalled - 1 ELSE m_signalled
    /\ pc' = [pc EXCEPT ![f] = "idle"]
    /\ UNCHANGED <<worker, queue>>

\* Mutant of signal: the signal is queued, although a fiber was waiting for it.
signal_Twice(f, queue_, queueEveryTime) ==
    /\ Runs(f) /\ pc[f] = "idle"
    /\ unblockFirst(0)
    /\ IF queue_ /\ m_signalled = 0 THEN m_signalled' = 1 ELSE UNCHANGED m_signalled
    /\ UNCHANGED pc

signal(f, queue_, queueEveryTime) ==
    /\ Runs(f) /\ pc[f] = "idle"
    /\ unblockFirst(0)
    /\ LET counts == queue[0] = <<>> /\ queue_ /\ m_signalled >= 0
       IN  IF counts /\ (m_signalled = 0 \/ queueEveryTime)
           THEN m_signalled < MaxSignalled /\ m_signalled' = m_signalled + 1
           ELSE UNCHANGED m_signalled
    /\ UNCHANGED pc

signalAll(f, queue_) ==
    /\ Runs(f) /\ pc[f] = "idle"
    /\ unblockAll(0)
    /\ m_signalled' = IF queue_ THEN -1 ELSE m_signalled
    /\ UNCHANGED pc

reset(f) ==
    /\ Runs(f) /\ pc[f] = "idle"
    /\ m_signalled' = 0
    /\ UNCHANGED <<worker, queue, pc>>

yield(f) == Yield(f) /\ pc[f] = "idle" /\ UNCHANGED <<m_signalled, pc>>

fiberExit(f) == Exit(f) /\ pc[f] = "idle" /\ UNCHANGED <<m_signalled, pc>>

run_ == RunWorker /\ UNCHANGED <<m_signalled, pc>>

stop == Stopped /\ UNCHANGED vars

FiberNext(f) ==
    \/ wait(f) \/ waitEnd(f) \/ reset(f) \/ yield(f) \/ fiberExit(f)
    \/ \E b \in BOOLEAN : signalAll(f, b) \/ \E e \in BOOLEAN : signal(f, b, e)

Next == run_ \/ stop \/ \E f \in Fiber : FiberNext(f)

Spec == Init /\ [][Next]_vars

\* The worker goes on, and so does wait().  A fiber gives way now and then: when
\* it waits in a loop for a signal that is set, wait() yields at the end of each
\* time slice.
Fairness ==
    /\ WF_vars(run_)
    /\ \A f \in Fiber : /\ WF_vars(waitEnd(f))
                        /\ SF_vars((wait(f) \/ yield(f)) /\ worker' # worker)

FairSpec == Spec /\ Fairness

-----------------------------------------------------------------------------
(* Properties *)

SignalTypeOK ==
    /\ SyncTypeOK
    /\ m_signalled \in -1 .. MaxSignalled
    /\ pc \in [Fiber -> {"idle", "wait"}]

\* No fiber waits while a signal is queued: a signal that a waiting fiber could
\* have had is never put aside (Signal::signal(), signalAll(), wait()).
QueuedSignalsAreSeen == queue[0] # <<>> => m_signalled = 0

\* signalAll() holds until reset(): after it, wait() and signal() leave the
\* signal set, however many fibers wait.
SignalledUntilReset ==
    [][m_signalled = -1 /\ m_signalled' # -1 => \E f \in Fiber : reset(f)]_vars

\* Every fiber that is in wait() when the signal is set, or has been unblocked,
\* returns from it.
SignalledReturns ==
    \A f \in Fiber : (pc[f] = "wait" /\ ~Queued(f)) ~> pc[f] = "idle"
=============================================================================
