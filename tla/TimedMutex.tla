----------------------------- MODULE TimedMutex -----------------------------
(***************************************************************************)
(* zth::Mutex::trylock() with a timeout: the synchronizer (sync.h) and the *)
(* Waiter (waiter.cpp) together.  A fiber that blocks with a timeout is in *)
(* the queue of the mutex, and has an AlarmClock in the list of the Waiter *)
(* that takes it out of that queue.  Worker::run() runs forever, fibers    *)
(* also nap, and all keep the mutex for a while.                           *)
(***************************************************************************)
EXTENDS Waiter

VARIABLES m_locked,
          queue,     \* of the mutex
          call,      \* of each fiber: idle, in lock(), in trylock(), or holding the mutex
          deadline,  \* the timeout of trylock()
          rang       \* AlarmClock::m_rang

mutexVars == <<m_locked, queue, call, deadline, rang>>

allVars == <<vars, mutexVars>>

TimedInit ==
    /\ Init
    /\ m_locked = FALSE /\ queue = <<>>
    /\ call = [f \in User |-> "idle"]
    /\ deadline = [f \in User |-> 0]
    /\ rang = [f \in User |-> FALSE]

Alarm(f, t) == [kind |-> "alarm", fiber |-> f, timeout |-> t, interval |-> 0]

-----------------------------------------------------------------------------
(* The mutex; f is the fiber that runs *)

Takes(f) ==
    /\ m_locked' = TRUE
    /\ call' = [call EXCEPT ![f] = "held"]
    /\ UNCHANGED <<worker, waiting, queue, deadline, rang>>

\* lock(): the call, or the next turn of its loop.
lock(f) ==
    /\ Runs(f) /\ call[f] \in {"idle", "lock"}
    /\ IF ~m_locked THEN Takes(f)
       ELSE /\ worker' = schedule(nap(release(worker, f), f), timeUp)
            /\ queue' = push_back(queue, f)
            /\ call' = [call EXCEPT ![f] = "lock"]
            /\ UNCHANGED <<waiting, m_locked, deadline, rang>>
    /\ UNCHANGED <<now, runEnd, pc, wnow>>

\* Mutant of block_: without scheduleTask().
block_NoAlarm(f, t) ==
    /\ queue' = push_back(queue, f)
    /\ worker' = schedule(nap(release(worker, f), f), timeUp)
    /\ UNCHANGED waiting

\* block_(), up to its schedule(): the alarm is set, and the waiter resumed.
block_(f, t) ==
    /\ queue' = push_back(queue, f)
    /\ waiting' = waiting \cup {Alarm(f, t)}
    /\ worker' = schedule(resume(nap(release(worker, f), f), waiterFiber), timeUp)

\* The loop of trylock(timeout), with blockUntil().  For a timeout that has
\* passed, blockUntil() returns true, and the loop goes on.
tries(f, t) ==
    /\ IF ~m_locked THEN Takes(f)
       ELSE /\ call' = [call EXCEPT ![f] = "trylock"]
            /\ deadline' = [deadline EXCEPT ![f] = t]
            /\ rang' = [rang EXCEPT ![f] = FALSE]
            /\ IF t <= now THEN UNCHANGED <<worker, waiting, queue>>
                         ELSE block_(f, t)
            /\ UNCHANGED m_locked
    /\ UNCHANGED <<now, runEnd, pc, wnow>>

trylock(f, d) ==
    /\ Runs(f) /\ call[f] = "idle"
    /\ now + d < MaxTime
    /\ tries(f, now + d)

\* Mutant of blockEnd: trylock() returns, and the alarm stays scheduled.
blockEnd_Leaves(f) ==
    /\ Runs(f) /\ call[f] = "trylock"
    /\ Alarm(f, deadline[f]) \in waiting \/ rang[f]
    /\ call' = [call EXCEPT ![f] = "idle"]
    /\ UNCHANGED <<worker, waiting, now, runEnd, pc, wnow, m_locked, queue, deadline, rang>>

\* The end of block_(): the alarm is unscheduled, and a fiber that it has rung
\* for gives up.
blockEnd(f) ==
    /\ Runs(f) /\ call[f] = "trylock"
    /\ Alarm(f, deadline[f]) \in waiting \/ rang[f]
    /\ waiting' = waiting \ {Alarm(f, deadline[f])}
    /\ call' = [call EXCEPT ![f] = IF rang[f] THEN "idle" ELSE @]
    /\ UNCHANGED <<worker, now, runEnd, pc, wnow, m_locked, queue, deadline, rang>>

\* Mutant of tryAgain: m_locked is not looked at again.
tryAgain_Takes(f) ==
    /\ Runs(f) /\ call[f] = "trylock"
    /\ Alarm(f, deadline[f]) \notin waiting /\ ~rang[f]
    /\ Takes(f)
    /\ UNCHANGED <<now, runEnd, pc, wnow>>

tryAgain(f) ==
    /\ Runs(f) /\ call[f] = "trylock"
    /\ Alarm(f, deadline[f]) \notin waiting /\ ~rang[f]
    /\ tries(f, deadline[f])

Woken(w, f) == add(wakeup(w, f), f)

unlock(f) ==
    /\ Runs(f) /\ call[f] = "held"
    /\ m_locked' = FALSE
    /\ call' = [call EXCEPT ![f] = "idle"]
    /\ IF queue = <<>> THEN UNCHANGED <<worker, queue>>
       ELSE worker' = Woken(worker, front(queue)) /\ queue' = pop_front(queue)
    /\ UNCHANGED <<waiting, now, runEnd, pc, wnow, deadline, rang>>

\* Mutants of AlarmRings: m_rang is set although the fiber was not queued
\* anymore; and the fiber is not unblocked.
AlarmRings_Always ==
    \E f \in User :
        /\ Expire(Alarm(f, deadline[f]))
        /\ IF contains(queue, f)
           THEN worker' = Woken(worker, f) /\ queue' = erase(queue, f)
           ELSE UNCHANGED <<worker, queue>>
        /\ rang' = [rang EXCEPT ![f] = TRUE]
        /\ UNCHANGED <<m_locked, call, deadline>>

AlarmRings_Blocked ==
    \E f \in User :
        /\ Expire(Alarm(f, deadline[f]))
        /\ rang' = [rang EXCEPT ![f] = TRUE]
        /\ UNCHANGED <<worker, queue, m_locked, call, deadline>>

\* AlarmClock::poll() by the Waiter: unblock() of the fiber, if it is queued.
AlarmRings ==
    \E f \in User :
        /\ Expire(Alarm(f, deadline[f]))
        /\ IF contains(queue, f)
           THEN /\ worker' = Woken(worker, f)
                /\ queue' = erase(queue, f)
                /\ rang' = [rang EXCEPT ![f] = TRUE]
           ELSE UNCHANGED <<worker, queue, rang>>
        /\ UNCHANGED <<m_locked, call, deadline>>

-----------------------------------------------------------------------------

NapExpires == \E e \in waiting : /\ Expire(e) /\ e.kind = "nap"
                                 /\ worker' = WakeFront(worker, e)

ThreadStep ==
    /\ \/ RunEnter(0) \/ (RunLoop /\ worker.runnable # <<>>) \/ RunSchedule
       \/ WaiterTop \/ NapExpires \/ WaiterSuspend \/ WaiterSchedule \/ WaiterSleep
    /\ UNCHANGED mutexVars

ClockStep == Tick /\ UNCHANGED mutexVars

\* What a fiber does that is in a call of the mutex, or gives way outside of it.
FiberGoesOn(f) ==
    \/ blockEnd(f) \/ tryAgain(f)
    \/ call[f] = "lock" /\ lock(f)
    \/ call[f] \in {"idle", "held"} /\ Yield(f) /\ UNCHANGED mutexVars

FiberChooses(f) ==
    \/ call[f] = "idle" /\ (lock(f) \/ \E d \in Delays : trylock(f, d))
    \/ unlock(f)
    \/ call[f] \in {"idle", "held"} /\ (\E d \in Delays : Nap(f, d)) /\ UNCHANGED mutexVars
    \/ call[f] = "idle" /\ Exit(f) /\ UNCHANGED mutexVars

\* All fibers have ended, or wait for a fiber that has; the clock has stopped.
Idles == Runs(workerFiber) /\ worker.runnable = <<>> /\ UNCHANGED allVars

TimedNext ==
    \/ ThreadStep \/ AlarmRings \/ ClockStep \/ Idles
    \/ \E f \in User : FiberGoesOn(f) \/ FiberChooses(f)

TimedSpec == TimedInit /\ [][TimedNext]_allVars

\* The thread and the clock go on, fibers are cooperative, and a fiber that
\* holds the mutex unlocks it if it gets to run often enough.
TimedFairness ==
    /\ WF_allVars(ThreadStep) /\ WF_allVars(AlarmRings) /\ WF_allVars(ClockStep)
    /\ \A f \in User : WF_allVars(FiberGoesOn(f)) /\ SF_allVars(unlock(f))

TimedFairSpec == TimedSpec /\ TimedFairness

-----------------------------------------------------------------------------
(* Properties *)

TimedTypeOK ==
    /\ worker \in WorkerType
    /\ waiting \subseteq [kind : {"nap", "alarm"}, fiber : User, timeout : Nat, interval : Nat]
    /\ now \in Nat /\ runEnd = 0 /\ wnow \in Nat
    /\ m_locked \in BOOLEAN /\ queue \in Seq(User)
    /\ call \in [User -> {"idle", "lock", "trylock", "held"}]
    /\ deadline \in [User -> Nat] /\ rang \in [User -> BOOLEAN]

\* One fiber at a time holds the mutex, also when lock() and trylock() with a
\* timeout are mixed and a timeout coincides with unlock().
TimedMutualExclusion ==
    /\ \A f, g \in User : call[f] = "held" /\ call[g] = "held" => f = g
    /\ m_locked <=> \E f \in User : call[f] = "held"

\* The AlarmClock is on the stack of the fiber in block_(): the Waiter has no
\* alarm of a fiber that has returned from there (unscheduleTask()).
AlarmsAreAlive ==
    \A e \in waiting : e.kind = "alarm" =>
        call[e.fiber] = "trylock" /\ e.timeout = deadline[e.fiber] /\ ~rang[e.fiber]

\* A fiber that waits can be reached: it naps and is in the list of the
\* Waiter, or it is in the queue of the mutex, and then its alarm is set when
\* it has a timeout (block_(), AlarmClock::poll(), unlock()).
WaitingIsReachable ==
    /\ Distinct(queue)
    /\ \A f \in User :
          LET naps == \E e \in waiting : e.fiber = f /\ e.kind = "nap"
          IN  /\ worker.state[f] = "Waiting" <=> naps \/ contains(queue, f)
              /\ ~(naps /\ contains(queue, f))
              /\ contains(queue, f) => \/ call[f] = "lock"
                                       \/ call[f] = "trylock" /\ Alarm(f, deadline[f]) \in waiting

\* The wake up of unlock() is not lost to a fiber that gives up: while fibers
\* queue for a free mutex, one that was woken up is still to try to take it.
TimedNoLostWakeup ==
    ~m_locked /\ queue # <<>> =>
        \E f \in User : /\ worker.state[f] \in {"Ready", "Running"}
                        /\ \/ call[f] = "lock"
                           \/ call[f] = "trylock" /\ ~rang[f]

\* trylock() gives up on account of the timeout only after that time, and not
\* while it is queued (block_(), rang()).
GivesUpInTime ==
    \A f \in User : rang[f] /\ call[f] = "trylock" =>
        deadline[f] < now /\ ~contains(queue, f)

\* With a timeout, the mutex excludes, nobody is out of reach, and nobody gives up
\* too early (Mutex::trylock(), Synchronizer::block_()).
TimedLockIsSound == TimedMutualExclusion /\ WaitingIsReachable /\ GivesUpInTime

\* The result of blockUntil(): trylock() with a timeout comes to an end, with
\* or without the mutex.
TrylockEnds == \A f \in User : call[f] = "trylock" ~> call[f] # "trylock"
=============================================================================
