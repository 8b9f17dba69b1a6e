------------------------------- MODULE Waiter -------------------------------
(***************************************************************************)
(* One thread: Worker::run() and ~Worker(), the Waiter fiber that manages  *)
(* the clock (include/libzth/waiter.h, src/waiter.cpp), and user fibers    *)
(* that hatch, yield, nap, poll a condition, suspend, resume, kill and     *)
(* exit.  Time is a natural number that advances independently of the      *)
(* thread; the value 0 is Timestamp::null().  No poller is registered:     *)
(* Waiter::polling() is false.                                             *)
(***************************************************************************)
EXTENDS Worker

CONSTANTS waiterFiber,  \* the fiber of Waiter::entry()
          Delays,       \* the delays that fibers nap() for
          Intervals,    \* the poll intervals of PolledWaiting
          Durations,    \* the durations of Worker::run(); 0 is forever
          Ops,          \* signals, and the uses that break what the code relies on
          MaxTime       \* the bound on the clock

ASSUME WaiterAssumption ==
    /\ waiterFiber \in Fiber
    /\ Delays \subseteq Nat /\ Intervals \subseteq Nat /\ Durations \subseteq Nat
    /\ MaxTime \in Nat

User == Fiber \ {waiterFiber}

VARIABLES worker,   \* the Worker and its fibers
          waiting,  \* Waiter::m_waiting, sorted by timeout
          now,      \* Timestamp::now()
          runEnd,   \* Worker::m_end, 0 when null
          pc,       \* where Worker::run() and Waiter::entry() are
          wnow      \* the local variable now of Waiter::entry()

vars == <<worker, waiting, now, runEnd, pc, wnow>>

\* A TimedWaitable on the stack of its fiber.
Waitable == [kind : {"nap", "polled"}, fiber : User, timeout : Nat, interval : Nat]

WaiterTypeOK ==
    /\ worker \in WorkerType
    /\ waiting \subseteq Waitable
    /\ now \in Nat /\ runEnd \in Nat /\ wnow \in Nat
    /\ pc \in [worker : {"out", "loop", "schedule", "dtor", "gone"},
               waiter : {"top", "expire", "sleep"}]

timeUp == runEnd # 0 /\ runEnd < now

\* SortedList orders equal timeouts by address: any of them may be in front.
Earliest == {e \in waiting : \A o \in waiting : e.timeout <= o.timeout}

HatchOrders ==
    {q \in UNION {[1 .. n -> User] : n \in 0 .. Cardinality(Fiber)} : Distinct(q)}

\* Waiter::fiberHook() suspends the new waiter fiber before it is added.
Init ==
    /\ \E q \in HatchOrders :
          worker = add(fiberSuspend(Become(NewWorker(q), waiterFiber, "New", "Ready"),
                                    waiterFiber), waiterFiber)
    /\ waiting = {}
    /\ now = 1
    /\ runEnd = 0
    /\ pc = [worker |-> "out", waiter |-> "top"]
    /\ wnow = 0

Runs(f) == worker.current = f /\ ~worker.failed

-----------------------------------------------------------------------------
(* Worker::run() and ~Worker(), in the context of the thread *)

RunEnter(d) ==
    /\ Runs(workerFiber) /\ pc.worker = "out"
    /\ now + d <= MaxTime
    /\ runEnd' = IF d = 0 THEN 0 ELSE now + d
    /\ pc' = [pc EXCEPT !.worker = "loop"]
    /\ UNCHANGED <<worker, waiting, now, wnow>>

RunLoop ==
    /\ Runs(workerFiber) /\ pc.worker = "loop"
    /\ pc' = [pc EXCEPT !.worker =
                IF worker.runnable # <<>> /\ (runEnd = 0 \/ now < runEnd)
                THEN "schedule" ELSE "out"]
    /\ UNCHANGED <<worker, waiting, now, runEnd, wnow>>

\* schedule() reads the clock again.
RunSchedule ==
    /\ Runs(workerFiber) /\ pc.worker = "schedule"
    /\ worker' = schedule(worker, timeUp)
    /\ pc' = [pc EXCEPT !.worker = "loop"]
    /\ UNCHANGED <<waiting, now, runEnd, wnow>>

\* Mutant of DestroySuspended: the fiber is killed, and not resumed first.
DestroySuspended_Stays ==
    /\ Runs(workerFiber) /\ pc.worker \in {"out", "dtor"}
    /\ worker.suspended # <<>>
    /\ worker' = kill(worker, front(worker.suspended))
    /\ pc' = [pc EXCEPT !.worker = "dtor"]
    /\ UNCHANGED <<waiting, now, runEnd, wnow>>

DestroySuspended ==
    /\ Runs(workerFiber) /\ pc.worker \in {"out", "dtor"}
    /\ worker.suspended # <<>>
    /\ LET f == front(worker.suspended) IN worker' = kill(resume(worker, f), f)
    /\ pc' = [pc EXCEPT !.worker = "dtor"]
    /\ UNCHANGED <<waiting, now, runEnd, wnow>>

DestroyRunnable ==
    /\ Runs(workerFiber) /\ pc.worker = "dtor"
    /\ worker.suspended = <<>> /\ worker.runnable # <<>>
    /\ worker' = [worker EXCEPT !.runnable = pop_front(@),
                                !.state[front(worker.runnable)] = "Uninitialized"]
    /\ UNCHANGED <<waiting, now, runEnd, pc, wnow>>

Destroyed ==
    /\ Runs(workerFiber) /\ pc.worker = "dtor"
    /\ worker.suspended = <<>> /\ worker.runnable = <<>>
    /\ pc' = [pc EXCEPT !.worker = "gone"]
    /\ UNCHANGED <<worker, waiting, now, runEnd, wnow>>

-----------------------------------------------------------------------------
(* Waiter::entry() *)

\* Mutant of WaiterTop: the clock is only read the first time.
WaiterTop_Once ==
    /\ Runs(waiterFiber) /\ pc.waiter = "top"
    /\ wnow' = IF wnow = 0 THEN now ELSE wnow
    /\ pc' = [pc EXCEPT !.waiter = "expire"]
    /\ UNCHANGED <<worker, waiting, now, runEnd>>

WaiterTop ==
    /\ Runs(waiterFiber) /\ pc.waiter = "top"
    /\ wnow' = now
    /\ pc' = [pc EXCEPT !.waiter = "expire"]
    /\ UNCHANGED <<worker, waiting, now, runEnd>>

\* Mutant of Expired: off by one.
Expired_Early == {e \in Earliest : e.timeout <= wnow}

Expired == {e \in Earliest : e.timeout < wnow}

\* Mutants of WakeFront: the fiber is added at the back; and it is not woken up.
WakeFront_Back(w, e) == add(wakeup(w, e.fiber), e.fiber)

WakeFront_Asleep(w, e) == addFront(w, e.fiber)

\* Fiber::wakeup() and Worker::add(front = true) of the fiber of a waitable.
WakeFront(w, e) == addFront(wakeup(w, e.fiber), e.fiber)

\* The first waitable has expired, and is taken out.
Expire(e) ==
    /\ Runs(waiterFiber) /\ pc.waiter = "expire"
    /\ e \in Expired
    /\ waiting' = waiting \ {e}
    /\ UNCHANGED <<now, runEnd, pc, wnow>>

\* poll() returns true: the time has come, or the polled function says so.
WaiterExpire == \E e \in waiting : Expire(e) /\ worker' = WakeFront(worker, e)

\* The next timeout that PolledWaiting::poll() computes when it returns false.
NextPoll(t, i, at) == IF t + i < at THEN at + i ELSE t + i

WaiterRepoll ==
    /\ Runs(waiterFiber) /\ pc.waiter = "expire"
    /\ \E e \in Expired :
          LET t == NextPoll(e.timeout, e.interval, wnow)
          IN  /\ e.kind = "polled" /\ t < MaxTime
              /\ waiting' = (waiting \ {e}) \cup {[e EXCEPT !.timeout = t]}
    /\ UNCHANGED <<worker, now, runEnd, pc, wnow>>

WaiterSuspend ==
    /\ Runs(waiterFiber) /\ pc.waiter = "expire"
    /\ waiting = {}
    /\ worker' = suspend(worker, waiterFiber, timeUp)
    /\ pc' = [pc EXCEPT !.waiter = "top"]
    /\ UNCHANGED <<waiting, now, runEnd, wnow>>

WaiterSchedule ==
    /\ Runs(waiterFiber) /\ pc.waiter = "expire"
    /\ waiting # {} /\ Expired = {}
    /\ worker' = schedule(worker, timeUp)
    /\ pc' = [pc EXCEPT !.waiter = IF didSchedule(worker, timeUp) THEN "top" ELSE "sleep"]
    /\ UNCHANGED <<waiting, now, runEnd, wnow>>

\* Mutant of SleepEnd: the end of Worker::run() is not looked at.
SleepEnd_Timeout == (CHOOSE e \in Earliest : TRUE).timeout

SleepEnd ==
    LET t == (CHOOSE e \in Earliest : TRUE).timeout
    IN  IF runEnd # 0 /\ t > runEnd THEN runEnd ELSE t

\* clock_nanosleep() returns at the end, or before it because of a signal.
WaiterSleep ==
    /\ Runs(waiterFiber) /\ pc.waiter = "sleep"
    /\ now >= SleepEnd
    /\ pc' = [pc EXCEPT !.waiter = "top"]
    /\ UNCHANGED <<worker, waiting, now, runEnd, wnow>>

WaiterInterrupted ==
    /\ Runs(waiterFiber) /\ pc.waiter = "sleep"
    /\ "signals" \in Ops
    /\ pc' = [pc EXCEPT !.waiter = "top"]
    /\ UNCHANGED <<worker, waiting, now, runEnd, wnow>>

-----------------------------------------------------------------------------
(* User fibers; f is the fiber that performs the operation *)

FiberStep(f, w) ==
    /\ Runs(f)
    /\ worker' = w
    /\ UNCHANGED <<waiting, now, runEnd, pc, wnow>>

\* Mutant of Yield: the fiber does not give way.
Yield_Stays(f) == FiberStep(f, worker)

Yield(f) == FiberStep(f, schedule(worker, timeUp))

YieldTo(f, g) ==
    /\ contains(worker.runnable, g) /\ worker.state[g] # "Dead"
    /\ FiberStep(f, scheduleTo(worker, g, timeUp))

Exit(f) == FiberStep(f, exit(worker, f, timeUp))

Hatch(f, g) ==
    /\ worker.state[g] = "Uninitialized"
    /\ FiberStep(f, hatch(worker, g))

Suspend(f, g) ==
    /\ worker.state[g] = "Waiting" => "suspendWaiting" \in Ops
    /\ FiberStep(f, suspend(worker, g, timeUp))

Resume(f, g) == FiberStep(f, resume(worker, g))

\* Fiber::kill() of another fiber.
Kill(f, g) ==
    /\ f # g
    /\ worker.state[g] # "Uninitialized"
    /\ worker.state[g] = "Suspended" => "killSuspended" \in Ops
    /\ FiberStep(f, kill(worker, g))

\* Mutant of Wait: without resume() of the waiter.
Wait_Alone(f, e) ==
    /\ Runs(f)
    /\ e.timeout < MaxTime
    /\ waiting' = waiting \cup {e}
    /\ worker' = schedule(release(nap(worker, f), f), timeUp)
    /\ UNCHANGED <<now, runEnd, pc, wnow>>

\* Waiter::wait() of a waitable that has to wait.
Wait(f, e) ==
    /\ Runs(f)
    /\ e.timeout < MaxTime
    /\ waiting' = waiting \cup {e}
    /\ worker' = schedule(resume(release(nap(worker, f), f), waiterFiber), timeUp)
    /\ UNCHANGED <<now, runEnd, pc, wnow>>

\* zth::nap(); with no time to wait, it is at most a yield().
Nap(f, d) ==
    IF d = 0 THEN Yield(f)
    ELSE Wait(f, [kind |-> "nap", fiber |-> f, timeout |-> now + d, interval |-> 0])

\* waitUntil(function, interval): the waitable is made, and polled false once.
WaitUntil(f, i) ==
    Wait(f, [kind |-> "polled", fiber |-> f, interval |-> i,
             timeout |-> NextPoll(now + i, i, now)])

\* zth::wakeup(TimedWaitable&) by another fiber.
WakeWaitable(f, e) ==
    /\ Runs(f)
    /\ e \in waiting
    /\ waiting' = waiting \ {e}
    /\ worker' = WakeFront(worker, e)
    /\ UNCHANGED <<now, runEnd, pc, wnow>>

-----------------------------------------------------------------------------

Tick ==
    /\ now < MaxTime
    /\ now' = now + 1
    /\ UNCHANGED <<worker, waiting, runEnd, pc, wnow>>

\* The thread has destroyed its worker, or a failed assertion has ended it.
Ended ==
    /\ pc.worker = "gone" \/ worker.failed
    /\ UNCHANGED vars

WorkerNext ==
    \/ \E d \in Durations : RunEnter(d)
    \/ RunLoop \/ RunSchedule
    \/ DestroySuspended \/ DestroyRunnable \/ Destroyed

WaiterNext ==
    \/ WaiterTop \/ WaiterExpire \/ WaiterRepoll \/ WaiterSuspend
    \/ WaiterSchedule \/ WaiterSleep \/ WaiterInterrupted

FiberNext(f) ==
    \/ Yield(f) \/ Exit(f)
    \/ \E g \in User : Hatch(f, g)
    \/ \E d \in Delays : Nap(f, d)
    \/ \E i \in Intervals : WaitUntil(f, i)

\* What a fiber does to another one.
ControlNext(f) ==
    \/ \E g \in User : YieldTo(f, g) \/ Suspend(f, g) \/ Resume(f, g) \/ Kill(f, g)
    \/ \E e \in waiting : WakeWaitable(f, e)

\* Fibers that nap, poll a condition and hatch others, but leave each other alone.
Next == WorkerNext \/ WaiterNext \/ (\E f \in User : FiberNext(f)) \/ Tick \/ Ended

Spec == Init /\ [][Next]_vars

\* The thread and the clock go on; fibers are cooperative: a fiber that runs
\* gets to a point where it yields.
Fairness ==
    /\ WF_vars(RunLoop) /\ WF_vars(RunSchedule)
    /\ WF_vars(WaiterTop) /\ WF_vars(WaiterExpire) /\ WF_vars(WaiterSuspend)
    /\ WF_vars(WaiterSchedule) /\ WF_vars(WaiterSleep)
    /\ WF_vars(DestroySuspended /\ pc.worker = "dtor")
    /\ WF_vars(DestroyRunnable) /\ WF_vars(Destroyed)
    /\ WF_vars(Tick)
    /\ \A f \in User : WF_vars(Yield(f))

FairSpec == Spec /\ Fairness

-----------------------------------------------------------------------------
(* Properties *)

\* No zth_assert() of Fiber and Worker fails and schedule() never aborts: a
\* fiber that is queued to run can be run, and is never the context that is
\* already running (Fiber::run(), Worker::add()).
NoAssertionFails == ~worker.failed

\* A fiber is linked in at most one place, and in the place that its state
\* says (Worker::add(), release(), Waiter::wait()): no fiber that waits its
\* turn is lost, and none is in two queues through its single list hook.
FibersAreInOnePlace ==
    LET R == Elems(worker.runnable)
        S == Elems(worker.suspended)
        W == {e.fiber : e \in waiting}
    IN  /\ Distinct(worker.runnable) /\ Distinct(worker.suspended)
        /\ R \cap S = {} /\ R \cap W = {} /\ S \cap W = {}
        /\ \A d, e \in waiting : d.fiber = e.fiber => d = e
        /\ \A f \in Fiber :
              /\ worker.state[f] \in {"New", "Ready", "Running"} => f \in R
              /\ worker.state[f] = "Suspended" => f \in S
              /\ worker.state[f] = "Waiting" => f \in W
              /\ worker.state[f] = "Uninitialized" => f \notin R \cup S \cup W

\* At most one fiber is Running, and it is the one that has the processor
\* (Fiber::run(), Worker::schedule()).
OnlyCurrentRuns ==
    ~worker.failed =>
        /\ \A f \in Fiber : worker.state[f] = "Running" <=> f = worker.current
        /\ worker.current \in Fiber => worker.current \in Elems(worker.runnable)

\* The states, the queues and the current fiber agree, at every step of every
\* operation of the worker and the waiter (Worker, Fiber, Waiter).
WorkerIsSound == NoAssertionFails /\ FibersAreInOnePlace /\ OnlyCurrentRuns

\* As long as some fiber sleeps, the waiter is runnable (Waiter::wait() and
\* entry()): Worker::run() neither returns nor lets all fibers starve while
\* there is a wake up to deliver.
WaiterServesSleepers ==
    waiting # {} /\ pc.worker \notin {"dtor", "gone"} => contains(worker.runnable, waiterFiber)

\* The waiter only puts the thread to sleep when there is nothing else to run
\* (Waiter::entry(), the call of clock_nanosleep()).
SleepsOnlyWhenIdle ==
    pc.waiter = "sleep" => worker.runnable = <<waiterFiber>>

\* A sleep of the thread does not outlast the first timeout, or the end of
\* Worker::run() (Waiter::entry(), the computation of end).
SleepsNotTooLong ==
    pc.waiter = "sleep" => /\ \A e \in waiting : SleepEnd <= e.timeout
                           /\ runEnd # 0 => SleepEnd <= runEnd

\* The thread sleeps when, and only as long as, nobody has anything to do
\* (Waiter::entry()).
SleepsAsLongAsNeeded == SleepsOnlyWhenIdle /\ SleepsNotTooLong

\* A fiber that naps, or polls, is not woken before its time (Waiter::entry()).
NoEarlyWakeup == [][\A e \in waiting \ waiting' : e.timeout < now]_vars

\* Every fiber that naps in a worker that is run forever is woken up.
NapEnds ==
    \A f \in User :
        (worker.state[f] = "Waiting" /\ pc.worker = "loop" /\ runEnd = 0)
            ~> worker.state[f] # "Waiting"

\* Round robin: every fiber that is Ready in a worker that is run forever
\* gets its turn (Worker::schedule(), the rotation of the run queue).
ReadyRuns ==
    \A f \in Fiber :
        (worker.state[f] = "Ready" /\ pc.worker = "loop" /\ runEnd = 0)
            ~> worker.state[f] # "Ready"

\* Worker::run(duration) returns once the duration has passed, whatever the
\* fibers do and also when the waiter is asleep.
RunReturns == (timeUp /\ pc.worker = "loop") ~> pc.worker # "loop" \/ worker.failed

\* ~Worker() comes to an end.
DestructorEnds == pc.worker = "dtor" ~> pc.worker = "gone"

\* Worker::run() and ~Worker() come to an end when they should.
RunAndDestructorEnd == RunReturns /\ DestructorEnds
=============================================================================
