-------------------------- MODULE TimedMutexProofs --------------------------
(***************************************************************************)
(* The mutex with timeouts, for any number of fibers and any timeouts.  An *)
(* alarm may ring at any time between the unlock() that wakes a fiber up   *)
(* and the moment that the fiber runs.                                     *)
(*                                                                         *)
(* The invariant relates the three places that a fiber may be in, the      *)
(* worker, the list of the waiter and the queue of the mutex, to what the  *)
(* fiber is doing: a fiber in the queue is in lock(), or in trylock() and  *)
(* then its alarm is still to ring (QueueRight, AlarmsRight).  Without     *)
(* this, the fiber that unlock() takes out of the queue could be one that  *)
(* has given up.                                                           *)
(***************************************************************************)
EXTENDS TimedMutex, WaiterProofs

\* The naps among what the waiter has; the others are alarms.
Naps(s) == {e \in s : e.kind = "nap"}

\* The fibers that wait: those that nap, and those in the queue of the mutex.
Blocked(s, q) == Sleepers(Naps(s)) \cup Elems(q)

\* No assertion fails, and whoever gets the processor finds it in order.
Going ==
    /\ ~worker.failed
    /\ Matched(worker, Blocked(waiting, queue))
    /\ CurrentRuns(worker) /\ Serves(worker, waiting # {})
    /\ worker.current \in Fiber => pc.worker = "loop"
    /\ pc \in [worker : {"out", "loop", "schedule"}, waiter : {"top", "expire", "sleep"}]
    /\ pc.worker = "schedule" => worker.runnable # <<>>
    /\ worker.current = workerFiber /\ worker.state[workerFiber] = "Ready" =>
          \A f \in Fiber : worker.state[f] # "Dead"

\* An alarm is that of a trylock() that has not been rung yet.
AlarmsRight ==
    \A e \in waiting : e.kind = "alarm" =>
        e = Alarm(e.fiber, deadline[e.fiber]) /\ call[e.fiber] = "trylock" /\ ~rang[e.fiber]

\* A fiber waits in one place; in the queue, it is there for lock() or trylock(),
\* and then with its alarm.
QueueRight ==
    /\ Distinct(queue) /\ OneEach(Naps(waiting))
    /\ Sleepers(Naps(waiting)) \cap Elems(queue) = {}
    /\ \A f \in Blocked(waiting, queue) : worker.state[f] = "Waiting"
    /\ \A f \in Elems(queue) :
          call[f] = "lock" \/ (call[f] = "trylock" /\ Alarm(f, deadline[f]) \in waiting)

\* What the mutex keeps.
MutexRight == AlarmsRight /\ QueueRight /\ TimedMutualExclusion /\ GivesUpInTime /\ TimedNoLostWakeup

\* The inductive invariant.
TimedInv == TimedTypeOK /\ wnow <= now /\ Going /\ MutexRight

\* What fibers add to the waiter: Nanosleep and AlarmClock.
TimedWaitable == [kind : {"nap", "alarm"}, fiber : User, timeout : Nat, interval : Nat]

-----------------------------------------------------------------------------
\* Before Worker::run(), nobody waits.
LEMMA TimedInvInit == TimedInit => TimedInv
  <1> SUFFICES ASSUME TimedInit PROVE TimedInv
    OBVIOUS
  <1>1. WaiterInv /\ CanStart
    BY WaiterInvInit DEF TimedInit
  <1>2. /\ waiting = {} /\ queue = <<>> /\ now = 1 /\ wnow = 0 /\ runEnd = 0
        /\ pc = [worker |-> "out", waiter |-> "top"]
    BY DEF TimedInit, Init
  <1>3. /\ Elems(queue) = {} /\ Naps(waiting) = {} /\ Sleepers(waiting) = {}
        /\ Sleepers(Naps(waiting)) = {} /\ Blocked(waiting, queue) = {} /\ Distinct(queue)
    BY <1>2 DEF Elems, Naps, Sleepers, Blocked, Distinct
  <1>4. worker \in WorkerType /\ Sound(worker, waiting, pc) /\ ~worker.failed
    BY <1>1 DEF WaiterInv, CanStart, WaiterTypeOK
  <1>5. TimedTypeOK
    <2>1. /\ call \in [User -> {"idle", "lock", "trylock", "held"}]
          /\ deadline \in [User -> Nat] /\ rang \in [User -> BOOLEAN] /\ m_locked \in BOOLEAN
      BY Zenon DEF TimedInit
    <2>2. waiting \subseteq TimedWaitable
      BY <1>2
    <2>3. queue \in Seq(User)
      BY <1>2
    <2> QED
      BY <1>2, <1>4, <2>1, <2>2, <2>3 DEF TimedTypeOK, TimedWaitable
  <1>6. Going
    BY <1>1, <1>2, <1>3, <1>4 DEF Going, Sound, CanStart
  <1>7. MutexRight
    BY <1>2, <1>3 DEF MutexRight, AlarmsRight, QueueRight, OneEach, TimedMutualExclusion,
                      GivesUpInTime, TimedNoLostWakeup, TimedInit
  <1> QED
    BY <1>2, <1>5, <1>6, <1>7 DEF TimedInv

\* A fiber that runs finds everything in order, and does not wait.
LEMMA TimedRuns ==
    ASSUME TimedInv, NEW f \in Fiber, Runs(f)
    PROVE  /\ InOrder(worker, Blocked(waiting, queue), waiting # {})
           /\ worker.current = f /\ worker.state[f] = "Running"
           /\ f \notin Elems(queue) /\ f \notin Sleepers(Naps(waiting))
           /\ pc.worker = "loop" /\ timeUp \in BOOLEAN
  <1>1. Blocked(waiting, queue) \subseteq User
    <2>1. Elems(queue) \subseteq User
      BY ListDomain DEF TimedInv, TimedTypeOK
    <2> QED
      BY <2>1 DEF Blocked, Sleepers, Naps, TimedInv, TimedTypeOK
  <1>2. worker.current = f /\ ~worker.failed /\ worker.state[f] = "Running"
    BY DEF Runs, TimedInv, Going, CurrentRuns
  <1>3. f \notin Blocked(waiting, queue)
    BY <1>2 DEF TimedInv, MutexRight, QueueRight
  <1> QED
    BY <1>1, <1>2, <1>3 DEF InOrder, TimedInv, TimedTypeOK, Going, Blocked, timeUp

\* A step after which the worker is in order leaves everything going.
LEMMA GoingKeeps ==
    ASSUME TimedInv, pc.worker = "loop", pc'.worker = "loop",
           pc' \in [worker : {"out", "loop", "schedule"}, waiter : {"top", "expire", "sleep"}],
           NEW v, v = worker', InOrder(v, Blocked(waiting', queue'), waiting' # {})
    PROVE  Going'
  <1>1. worker'.current = workerFiber /\ worker'.state[workerFiber] = "Ready" => FALSE
    BY WorkerAssumption DEF InOrder
  <1> QED
    BY <1>1 DEF Going, InOrder

\* What is left alone by a step that does not touch the mutex or the list of the
\* waiter, and only disturbs fibers that are not in a call.
LEMMA MutexRests ==
    ASSUME TimedInv, UNCHANGED <<waiting, m_locked, queue, call, deadline, rang>>,
           now' \in Nat, now' >= now,
           NEW v, v = worker', NEW S, S \subseteq User, LiveOn(worker, v, S),
           \A f \in User \ S : call[f] \in {"idle", "held"} /\ f \notin Blocked(waiting, queue)
    PROVE  MutexRight'
  <1>1. AlarmsRight' /\ TimedMutualExclusion' /\ GivesUpInTime'
    BY DEF TimedInv, TimedTypeOK, MutexRight, AlarmsRight, TimedMutualExclusion, GivesUpInTime
  <1>2. Blocked(waiting, queue) \subseteq User
    BY ListDomain DEF Blocked, Sleepers, Naps, TimedInv, TimedTypeOK
  <1>3. \A f \in Blocked(waiting, queue) : v.state[f] = "Waiting"
    BY <1>2 DEF LiveOn, TimedInv, MutexRight, QueueRight
  <1>4. QueueRight'
    BY <1>3 DEF TimedInv, MutexRight, QueueRight
  <1>5. TimedNoLostWakeup'
    <2> SUFFICES ASSUME ~m_locked, queue # <<>>
                 PROVE  \E f \in User : /\ v.state[f] \in {"Ready", "Running"}
                                        /\ \/ call[f] = "lock"
                                           \/ call[f] = "trylock" /\ ~rang[f]
      BY DEF TimedNoLostWakeup
    <2>1. PICK f \in User : /\ worker.state[f] \in {"Ready", "Running"}
                            /\ \/ call[f] = "lock"
                               \/ call[f] = "trylock" /\ ~rang[f]
      BY DEF TimedInv, MutexRight, TimedNoLostWakeup
    <2>2. f \in S
      BY <2>1
    <2> QED
      BY <2>1, <2>2 DEF LiveOn
  <1> QED
    BY <1>1, <1>4, <1>5 DEF MutexRight

\* The steps of Worker::run() and of the waiter.
LEMMA ThreadStepKeeps ==
    ASSUME TimedInv, ThreadStep
    PROVE  TimedInv'
  <1>1. UNCHANGED <<now, m_locked, queue, call, deadline, rang>> /\ now \in Nat
    BY DEF ThreadStep, mutexVars, RunEnter, RunLoop, RunSchedule, WaiterTop, NapExpires, Expire,
           WaiterSuspend, WaiterSchedule, WaiterSleep, TimedInv, TimedTypeOK
  <1>2. /\ TimedTypeOK /\ wnow <= now /\ Going /\ MutexRight /\ worker \in WorkerType
        /\ wnow \in Nat /\ runEnd = 0 /\ timeUp = FALSE
    BY DEF TimedInv, TimedTypeOK, timeUp
  <1>3. ASSUME NEW v, v = worker', v \in WorkerType, UNCHANGED waiting,
               LiveOn(worker, v, User), runEnd' = 0, wnow' \in {wnow, now}, Going'
        PROVE  TimedInv'
    <2>1. MutexRight'
      <3>1. now' \in Nat /\ now' >= now /\ User \subseteq User
        BY <1>1
      <3> QED
        BY <1>1, <1>3, <3>1, MutexRests
    <2>2. TimedTypeOK' /\ wnow' <= now'
      BY <1>1, <1>2, <1>3 DEF TimedTypeOK
    <2> QED
      BY <1>3, <2>1, <2>2 DEF TimedInv
  <1>4. LiveOn(worker, worker, User)
    BY DEF LiveOn
  <1>5. CASE RunEnter(0)
    <2>1. /\ pc' = [pc EXCEPT !.worker = "loop"] /\ UNCHANGED <<worker, waiting, wnow>>
          /\ runEnd' = 0
      BY <1>5 DEF RunEnter
    <2>2. Going'
      BY <1>1, <1>2, <2>1 DEF Going
    <2> QED
      BY <1>2, <1>3, <1>4, <2>1, <2>2
  <1>6. CASE RunLoop /\ worker.runnable # <<>>
    <2>1. /\ pc' = [pc EXCEPT !.worker = "schedule"] /\ UNCHANGED <<worker, waiting, wnow, runEnd>>
          /\ worker.current = workerFiber
      BY <1>2, <1>6 DEF RunLoop, Runs
    <2>2. Going'
      BY <1>1, <1>2, <1>6, <2>1, WorkerAssumption DEF Going
    <2> QED
      BY <1>2, <1>3, <1>4, <2>1, <2>2
  <1>7. CASE RunSchedule
    <2>1. /\ pc' = [pc EXCEPT !.worker = "loop"] /\ UNCHANGED <<waiting, runEnd, wnow>>
          /\ worker' = schedule(worker, FALSE)
          /\ worker.current = workerFiber /\ pc.worker = "schedule"
      BY <1>2, <1>7, Zenon DEF RunSchedule, Runs
    <2>2. PICK W, busy : W = Blocked(waiting, queue) /\ busy = (waiting # {})
      OBVIOUS
    <2>3. W \subseteq User
      BY <2>2, <1>2, ListDomain DEF Blocked, Sleepers, Naps, TimedTypeOK
    <2>4. CanSwitch(worker, FALSE)
      <3>1. CASE worker.state[workerFiber] = "Running"
        BY <3>1 DEF CanSwitch
      <3>2. CASE worker.state[workerFiber] # "Running"
        <4>1. worker.state[workerFiber] = "Ready" /\ worker.runnable # <<>>
          BY <1>2, <2>1, <3>2 DEF Going, Matched, QueuesMatchStates
        <4>2. \A f \in Fiber : worker.state[f] # "Dead"
          BY <1>2, <2>1, <4>1 DEF Going
        <4>3. worker.runnable \in Seq(Fiber) /\ front(worker.runnable) \in Elems(worker.runnable)
          BY <1>2, <4>1, ListDomain DEF WorkerType, Elems, front
        <4> QED
          BY <4>2, <4>3, ListDomain DEF CanSwitch
      <3> QED
        BY <3>1, <3>2, Zenon
    <2>5. PICK v : v = worker'
      OBVIOUS
    <2>6. /\ v \in WorkerType /\ ~v.failed
          /\ Matched(v, W) /\ CurrentRuns(v) /\ Serves(v, busy)
          /\ v.state[workerFiber] = "Running" \/ v.current \in Fiber
          /\ LiveOn(worker, v, Fiber)
      <3>1. /\ worker \in WorkerType /\ Matched(worker, W) /\ ~worker.failed
            /\ worker.current \notin Fiber /\ v = schedule(worker, FALSE)
            /\ Serves(worker, busy)
        BY <1>2, <2>1, <2>2, <2>5, WorkerAssumption DEF Going
      <3> QED
        BY <2>3, <2>4, <3>1, GiveWay, Zenon
    <2>7. LiveOn(worker, v, User)
      BY <2>6 DEF LiveOn, User
    <2>8. Going'
      <3>1. pc' \in [worker : {"out", "loop", "schedule"}, waiter : {"top", "expire", "sleep"}]
            /\ pc'.worker = "loop"
        BY <1>2, <2>1 DEF Going
      <3>2. Matched(v, Blocked(waiting', queue')) /\ Serves(v, waiting' # {})
        BY <1>1, <2>1, <2>2, <2>6
      <3>3. v.current = workerFiber => v.state[workerFiber] # "Ready"
        BY <2>6, WorkerAssumption
      <3> QED
        BY <2>5, <2>6, <3>1, <3>2, <3>3 DEF Going
    <2> QED
      BY <1>2, <1>3, <2>1, <2>5, <2>6, <2>7, <2>8, Zenon
  <1>8. ASSUME Runs(waiterFiber), NEW x \in {"top", "expire", "sleep"},
               pc' = [pc EXCEPT !.waiter = x], NEW v, v = worker',
               InOrder(v, Blocked(waiting', queue'), waiting' # {})
        PROVE  Going'
    <2>1. pc.worker = "loop"
      BY <1>8, TimedRuns, WaiterAssumption
    <2>2. /\ pc'.worker = "loop"
          /\ pc' \in [worker : {"out", "loop", "schedule"}, waiter : {"top", "expire", "sleep"}]
      BY <1>2, <1>8, <2>1 DEF Going
    <2> QED
      BY <1>8, <2>1, <2>2, GoingKeeps
  <1>9. ASSUME Runs(waiterFiber)
        PROVE  /\ InOrder(worker, Blocked(waiting, queue), waiting # {})
               /\ worker.current = waiterFiber /\ waiterFiber \in Fiber
    BY <1>9, TimedRuns, WaiterAssumption
  <1>10. CASE WaiterTop
    <2>1. /\ Runs(waiterFiber) /\ pc' = [pc EXCEPT !.waiter = "expire"] /\ wnow' = now
          /\ UNCHANGED <<worker, waiting, runEnd>>
      BY <1>10 DEF WaiterTop
    <2>2. Going'
      BY <1>1, <1>8, <1>9, <2>1
    <2> QED
      BY <1>2, <1>3, <1>4, <2>1, <2>2
  <1>11. CASE WaiterSleep
    <2>1. /\ Runs(waiterFiber) /\ pc' = [pc EXCEPT !.waiter = "top"]
          /\ UNCHANGED <<worker, waiting, runEnd, wnow>>
      BY <1>11 DEF WaiterSleep
    <2>2. Going'
      BY <1>1, <1>8, <1>9, <2>1
    <2> QED
      BY <1>2, <1>3, <1>4, <2>1, <2>2
  <1>12. CASE WaiterSuspend
    <2>1. /\ Runs(waiterFiber) /\ pc' = [pc EXCEPT !.waiter = "top"] /\ waiting = {}
          /\ worker' = suspend(worker, waiterFiber, FALSE)
          /\ UNCHANGED <<waiting, runEnd, wnow>>
      BY <1>2, <1>12, Zenon DEF WaiterSuspend
    <2>2. PICK v, W : v = worker' /\ W = Blocked(waiting, queue)
      OBVIOUS
    <2>3. InOrder(worker, W, FALSE)
      BY <1>9, <2>1, <2>2, Zenon
    <2>4. InOrder(v, W, FALSE) /\ LiveOn(worker, v, User)
      BY <1>9, <2>1, <2>2, <2>3, WaiterSuspendKeeps, Zenon
    <2>5. InOrder(v, Blocked(waiting', queue'), waiting' # {})
      BY <1>1, <2>1, <2>2, <2>4, Zenon
    <2>6. Going' /\ v \in WorkerType
      BY <1>8, <2>1, <2>2, <2>5, Zenon DEF InOrder
    <2> QED
      BY <1>2, <1>3, <2>1, <2>2, <2>4, <2>6, Zenon
  <1>13. CASE WaiterSchedule
    <2>1. /\ Runs(waiterFiber) /\ worker' = schedule(worker, FALSE)
          /\ UNCHANGED <<waiting, runEnd, wnow>>
          /\ \E x \in {"top", "sleep"} : pc' = [pc EXCEPT !.waiter = x]
      BY <1>2, <1>13, Zenon DEF WaiterSchedule
    <2>2. PICK v, W, busy : v = worker' /\ W = Blocked(waiting, queue) /\ busy = (waiting # {})
      OBVIOUS
    <2>3. InOrder(v, W, busy) /\ LiveOn(worker, v, Fiber)
      BY <1>9, <2>1, <2>2, YieldKeeps, Zenon
    <2>4. InOrder(v, Blocked(waiting', queue'), waiting' # {}) /\ LiveOn(worker, v, User)
      BY <1>1, <2>1, <2>2, <2>3, Zenon DEF LiveOn, User
    <2>5. Going' /\ v \in WorkerType
      BY <1>8, <2>1, <2>2, <2>4, Zenon DEF InOrder
    <2> QED
      BY <1>2, <1>3, <2>1, <2>2, <2>4, <2>5, Zenon
  <1>14. CASE NapExpires
    <2>1. PICK e \in waiting : Expire(e) /\ e.kind = "nap" /\ worker' = WakeFront(worker, e)
      BY <1>14 DEF NapExpires
    <2>2. /\ Runs(waiterFiber) /\ waiting' = waiting \ {e} /\ UNCHANGED <<runEnd, pc, wnow>>
          /\ pc.waiter = "expire"
      BY <2>1 DEF Expire
    <2>3. PICK f, v, W, busy : /\ f = e.fiber /\ v = worker' /\ W = Blocked(waiting, queue)
                               /\ busy = (waiting # {})
      OBVIOUS
    <2>4. /\ Naps(waiting') = Naps(waiting) \ {e} /\ e \in Naps(waiting)
          /\ OneEach(Naps(waiting)) /\ Sleepers(Naps(waiting)) \cap Elems(queue) = {}
      BY <1>2, <2>1, <2>2 DEF Naps, MutexRight, QueueRight
    <2>5. /\ f \in Sleepers(Naps(waiting)) /\ OneEach(Naps(waiting'))
          /\ Sleepers(Naps(waiting')) = Sleepers(Naps(waiting)) \ {f}
      <3>1. PICK s, r : s = Naps(waiting) /\ r = Naps(waiting')
        OBVIOUS
      <3>2. r = s \ {e} /\ e \in s /\ OneEach(s)
        BY <2>4, <3>1, Zenon
      <3>3. e.fiber \in Sleepers(s) /\ Sleepers(r) = Sleepers(s) \ {e.fiber} /\ OneEach(r)
        BY <3>2, SleepersLemma, Zenon
      <3> QED
        BY <2>3, <3>1, <3>3, Zenon
    <2>6. Blocked(waiting', queue) = W \ {f} /\ f \in W /\ f \notin Elems(queue)
      BY <2>3, <2>4, <2>5 DEF Blocked
    <2>7. InOrder(v, W \ {f}, busy) /\ Wakes(worker, v, f)
      <3>1. /\ InOrder(worker, W, busy) /\ worker.current \in Fiber /\ f \in W
            /\ v = addFront(wakeup(worker, f), f)
        BY <1>9, <2>1, <2>2, <2>3, <2>6 DEF WakeFront
      <3> QED
        BY <3>1, WakeKeeps
    <2>8. InOrder(v, Blocked(waiting', queue'), waiting' # {}) /\ v \in WorkerType
      BY <1>1, <2>2, <2>3, <2>6, <2>7, Zenon DEF InOrder, Serves
    <2>9. pc' = [pc EXCEPT !.waiter = "expire"]
      BY <1>2, <2>2 DEF Going
    <2>10. Going'
      BY <1>8, <2>2, <2>3, <2>8, <2>9, Zenon
    <2>11. MutexRight'
      <3>1. AlarmsRight' /\ TimedMutualExclusion' /\ GivesUpInTime'
        BY <1>1, <1>2, <2>2
           DEF TimedTypeOK, MutexRight, AlarmsRight, TimedMutualExclusion, GivesUpInTime
      <3>2. W \subseteq User /\ f \in User /\ User \subseteq Fiber
        BY <1>9, <2>2, <2>3, <2>6 DEF InOrder, User
      <3>3. \A g \in W \ {f} : v.state[g] = "Waiting"
        BY <1>2, <2>3, <2>7, <3>2 DEF Wakes, MutexRight, QueueRight
      <3>4. \A g \in Elems(queue) : g # f /\
               (call[g] = "lock" \/ (call[g] = "trylock" /\ Alarm(g, deadline[g]) \in waiting'))
        BY <1>2, <2>1, <2>2, <2>6 DEF MutexRight, QueueRight, Alarm
      <3>5. QueueRight'
        BY <1>1, <1>2, <2>3, <2>4, <2>5, <2>6, <3>3, <3>4, Zenon DEF MutexRight, QueueRight
      <3>6. TimedNoLostWakeup'
        <4> SUFFICES ASSUME ~m_locked, queue # <<>>
                     PROVE  \E g \in User : /\ v.state[g] \in {"Ready", "Running"}
                                            /\ \/ call[g] = "lock"
                                               \/ call[g] = "trylock" /\ ~rang[g]
          BY <1>1, <2>3 DEF TimedNoLostWakeup
        <4>1. PICK g \in User : /\ worker.state[g] \in {"Ready", "Running"}
                                /\ \/ call[g] = "lock"
                                   \/ call[g] = "trylock" /\ ~rang[g]
          BY <1>2 DEF MutexRight, TimedNoLostWakeup
        <4>2. g # f
          BY <1>2, <2>3, <2>6, <4>1 DEF MutexRight, QueueRight
        <4> QED
          BY <2>7, <3>2, <4>1, <4>2 DEF Wakes
      <3> QED
        BY <3>1, <3>5, <3>6 DEF MutexRight
    <2>12. TimedTypeOK' /\ wnow' <= now'
      BY <1>1, <1>2, <2>2, <2>3, <2>8 DEF TimedTypeOK
    <2> QED
      BY <2>10, <2>11, <2>12 DEF TimedInv
  <1> QED
    BY <1>5, <1>6, <1>7, <1>10, <1>11, <1>12, <1>13, <1>14 DEF ThreadStep

\* The clock.
LEMMA ClockStepKeeps ==
    ASSUME TimedInv, ClockStep
    PROVE  TimedInv'
  <1>1. /\ now' = now + 1 /\ now \in Nat
        /\ UNCHANGED <<worker, waiting, runEnd, pc, wnow, m_locked, queue, call, deadline, rang>>
    BY DEF ClockStep, Tick, mutexVars, TimedInv, TimedTypeOK
  <1>2. Going' /\ TimedTypeOK' /\ wnow' <= now'
    BY <1>1 DEF TimedInv, Going, TimedTypeOK
  <1>3. LiveOn(worker, worker', User) /\ now' \in Nat /\ now' >= now
    BY <1>1 DEF LiveOn
  <1>4. MutexRight'
    BY <1>1, <1>3, MutexRests
  <1> QED
    BY <1>2, <1>4 DEF TimedInv

\* AlarmClock::poll(): the fiber is taken out of the queue, if it still is there.
LEMMA AlarmRingsKeeps ==
    ASSUME TimedInv, AlarmRings
    PROVE  TimedInv'
  <1>1. PICK f \in User :
           /\ Expire(Alarm(f, deadline[f]))
           /\ IF contains(queue, f)
              THEN /\ worker' = Woken(worker, f)
                   /\ queue' = erase(queue, f)
                   /\ rang' = [rang EXCEPT ![f] = TRUE]
              ELSE UNCHANGED <<worker, queue, rang>>
           /\ UNCHANGED <<m_locked, call, deadline>>
    BY DEF AlarmRings
  <1>2. PICK a : a = Alarm(f, deadline[f])
    OBVIOUS
  <1>3. /\ Runs(waiterFiber) /\ a \in waiting /\ waiting' = waiting \ {a}
        /\ deadline[f] < wnow /\ pc.waiter = "expire"
        /\ UNCHANGED <<now, runEnd, pc, wnow>>
        /\ a.kind = "alarm" /\ a.fiber = f
    BY <1>1, <1>2 DEF Expire, Expired, Earliest, Alarm
  <1>4. /\ TimedTypeOK /\ wnow <= now /\ Going /\ MutexRight /\ wnow \in Nat /\ now \in Nat
        /\ queue \in Seq(User) /\ Distinct(queue) /\ deadline[f] \in Nat
    BY DEF TimedInv, TimedTypeOK, MutexRight, QueueRight
  <1>5. PICK W, busy : W = Blocked(waiting, queue) /\ busy = (waiting # {})
    OBVIOUS
  <1>6. /\ InOrder(worker, W, busy) /\ worker.current = waiterFiber /\ waiterFiber \in Fiber
        /\ W \subseteq User /\ User \subseteq Fiber
    BY <1>3, <1>5, TimedRuns, WaiterAssumption DEF InOrder, User
  <1>7. Naps(waiting') = Naps(waiting)
    BY <1>3 DEF Naps
  <1>8. pc.worker = "loop" /\ pc'.worker = "loop"
        /\ pc' \in [worker : {"out", "loop", "schedule"}, waiter : {"top", "expire", "sleep"}]
    BY <1>3, <1>4, TimedRuns, WaiterAssumption DEF Going
  <1>9. ASSUME NEW v, v = worker', InOrder(v, Blocked(waiting', queue'), waiting' # {}),
               queue' \in Seq(User), rang' \in [User -> BOOLEAN], MutexRight'
        PROVE  TimedInv'
    <2>1. Going'
      BY <1>8, <1>9, GoingKeeps
    <2>2. TimedTypeOK'
      BY <1>1, <1>3, <1>4, <1>9 DEF TimedTypeOK, InOrder
    <2> QED
      BY <1>3, <1>4, <1>9, <2>1, <2>2 DEF TimedInv
  <1>10. TimedMutualExclusion'
    BY <1>1, <1>4 DEF MutexRight, TimedMutualExclusion
  <1>11. CASE f \notin Elems(queue)
    <2>1. UNCHANGED <<worker, queue, rang>>
      BY <1>1, <1>11 DEF contains
    <2>2. Blocked(waiting', queue') = W
      BY <1>5, <1>7, <2>1 DEF Blocked
    <2>3. InOrder(worker', W, waiting' # {})
      BY <1>3, <1>5, <1>6, <2>1, ZenonT(30) DEF InOrder, Serves
    <2>4. AlarmsRight' /\ GivesUpInTime' /\ TimedNoLostWakeup'
      BY <1>1, <1>3, <1>4, <2>1 DEF MutexRight, AlarmsRight, GivesUpInTime, TimedNoLostWakeup
    <2>5. \A g \in Elems(queue) :
             call[g] = "lock" \/ (call[g] = "trylock" /\ Alarm(g, deadline[g]) \in waiting')
      BY <1>2, <1>3, <1>4, <1>11 DEF MutexRight, QueueRight, Alarm
    <2>6. QueueRight'
      BY <1>1, <1>4, <1>5, <1>7, <2>1, <2>2, <2>5 DEF MutexRight, QueueRight
    <2>7. MutexRight'
      BY <1>10, <2>4, <2>6 DEF MutexRight
    <2> QED
      BY <1>4, <1>9, <2>1, <2>2, <2>3, <2>7 DEF TimedTypeOK
  <1>12. CASE f \in Elems(queue)
    <2>1. PICK v : v = worker'
      OBVIOUS
    <2>2. /\ v = add(wakeup(worker, f), f) /\ queue' = erase(queue, f)
          /\ rang' = [rang EXCEPT ![f] = TRUE]
      BY <1>1, <1>12, <2>1 DEF contains, Woken
    <2>3. queue' \in Seq(User) /\ Elems(queue') = Elems(queue) \ {f} /\ Distinct(queue')
      BY <1>4, <1>12, <2>2, Erase
    <2>4. f \in W /\ f \notin Sleepers(Naps(waiting)) /\ Blocked(waiting', queue') = W \ {f}
      BY <1>4, <1>5, <1>7, <1>12, <2>3 DEF Blocked, MutexRight, QueueRight
    <2>5. InOrder(v, W \ {f}, busy) /\ Wakes(worker, v, f)
      BY <1>6, <2>2, <2>4, WakeKeeps
    <2>6. InOrder(v, Blocked(waiting', queue'), waiting' # {})
      BY <1>3, <1>5, <2>4, <2>5, Zenon DEF InOrder, Serves
    <2>7. /\ rang' \in [User -> BOOLEAN] /\ rang'[f] = TRUE
          /\ \A g \in User \ {f} : rang'[g] = rang[g]
      BY <1>4, <2>2 DEF TimedTypeOK
    <2>8. AlarmsRight'
      <3>1. ASSUME NEW e \in waiting', e.kind = "alarm"
            PROVE  /\ e = Alarm(e.fiber, deadline[e.fiber]) /\ call[e.fiber] = "trylock"
                   /\ ~rang'[e.fiber]
        <4>1. e \in waiting /\ e # a /\ e.fiber \in User
          BY <1>3, <1>4 DEF TimedTypeOK
        <4>2. /\ e = Alarm(e.fiber, deadline[e.fiber]) /\ call[e.fiber] = "trylock"
              /\ ~rang[e.fiber]
          BY <1>4, <3>1, <4>1 DEF MutexRight, AlarmsRight
        <4>3. e.fiber # f
          BY <1>2, <4>1, <4>2
        <4> QED
          BY <2>7, <4>1, <4>2, <4>3
      <3> QED
        BY <1>1, <3>1 DEF AlarmsRight
    <2>9. GivesUpInTime'
      <3>1. deadline[f] < now
        BY <1>3, <1>4
      <3> QED
        BY <1>1, <1>3, <1>4, <2>3, <2>7, <3>1 DEF MutexRight, GivesUpInTime, contains
    <2>10. QueueRight'
      <3>1. \A g \in W \ {f} : v.state[g] = "Waiting"
        BY <1>4, <1>5, <1>6, <2>5, SMTT(30) DEF Wakes, MutexRight, QueueRight
      <3>2. \A g \in Elems(queue') :
               call[g] = "lock" \/ (call[g] = "trylock" /\ Alarm(g, deadline[g]) \in waiting')
        BY <1>2, <1>3, <1>4, <2>3 DEF MutexRight, QueueRight, Alarm
      <3> QED
        BY <1>1, <1>4, <1>7, <2>1, <2>3, <2>4, <3>1, <3>2, SMTT(30) DEF MutexRight, QueueRight
    <2>11. TimedNoLostWakeup'
      <3> SUFFICES ASSUME ~m_locked, queue' # <<>>
                   PROVE  \E g \in User : /\ v.state[g] \in {"Ready", "Running"}
                                          /\ \/ call[g] = "lock"
                                             \/ call[g] = "trylock" /\ ~rang'[g]
        BY <1>1, <2>1 DEF TimedNoLostWakeup
      <3>1. queue # <<>>
        BY <1>12 DEF Elems
      <3>2. PICK g \in User : /\ worker.state[g] \in {"Ready", "Running"}
                              /\ \/ call[g] = "lock"
                                 \/ call[g] = "trylock" /\ ~rang[g]
        BY <1>4, <3>1 DEF MutexRight, TimedNoLostWakeup
      <3>3. g # f
        BY <1>4, <1>5, <2>4, <3>2 DEF MutexRight, QueueRight
      <3> QED
        BY <1>6, <2>5, <2>7, <3>2, <3>3 DEF Wakes
    <2>12. MutexRight'
      BY <1>10, <2>8, <2>9, <2>10, <2>11 DEF MutexRight
    <2> QED
      BY <1>9, <2>1, <2>3, <2>6, <2>7, <2>12
  <1> QED
    BY <1>11, <1>12

-----------------------------------------------------------------------------
\* A step of a user fiber that keeps the worker and the mutex in order.
LEMMA TimedFiberStep ==
    ASSUME TimedInv, NEW f \in User, Runs(f), UNCHANGED <<now, runEnd, pc, wnow>>,
           NEW v, v = worker', InOrder(v, Blocked(waiting', queue'), waiting' # {}),
           waiting' \subseteq TimedWaitable, queue' \in Seq(User), m_locked' \in BOOLEAN,
           call' \in [User -> {"idle", "lock", "trylock", "held"}],
           deadline' \in [User -> Nat], rang' \in [User -> BOOLEAN], MutexRight'
    PROVE  TimedInv'
  <1>1. /\ pc.worker = "loop" /\ pc'.worker = "loop"
        /\ pc' \in [worker : {"out", "loop", "schedule"}, waiter : {"top", "expire", "sleep"}]
    BY TimedRuns DEF TimedInv, Going, User
  <1>2. Going'
    BY <1>1, GoingKeeps
  <1>3. TimedTypeOK' /\ (wnow <= now)'
    BY DEF TimedInv, TimedTypeOK, TimedWaitable, InOrder
  <1> QED
    BY <1>2, <1>3 DEF TimedInv

\* The waiter has no alarm of f.
NoAlarm(f) == \A e \in waiting : e.kind = "alarm" => e.fiber # f

\* A fiber that is not blocked in trylock() has no AlarmClock with the waiter.
LEMMA NoAlarmLemma ==
    ASSUME TimedInv, NEW f \in User,
           call[f] # "trylock" \/ Alarm(f, deadline[f]) \notin waiting
    PROVE  NoAlarm(f)
  BY DEF TimedInv, MutexRight, AlarmsRight, NoAlarm

\* The mutex is free, and f takes it.
LEMMA TakesKeeps ==
    ASSUME TimedInv, NEW f \in User, Runs(f), ~m_locked, NoAlarm(f), Takes(f),
           UNCHANGED <<now, runEnd, pc, wnow>>
    PROVE  TimedInv'
  <1>1. /\ m_locked' = TRUE /\ call' = [call EXCEPT ![f] = "held"]
        /\ UNCHANGED <<worker, waiting, queue, deadline, rang>>
    BY DEF Takes
  <1>2. /\ TimedTypeOK /\ MutexRight
        /\ call \in [User -> {"idle", "lock", "trylock", "held"}]
    BY DEF TimedInv, TimedTypeOK
  <1>3. call'[f] = "held" /\ \A g \in User \ {f} : call'[g] = call[g]
    BY <1>1, <1>2
  <1>4. f \in Fiber /\ f \notin Elems(queue) /\ InOrder(worker, Blocked(waiting, queue), waiting # {})
    BY TimedRuns DEF User
  <1>5. AlarmsRight' /\ GivesUpInTime' /\ TimedNoLostWakeup'
    BY <1>1, <1>2, <1>3
       DEF TimedTypeOK, MutexRight, AlarmsRight, GivesUpInTime, TimedNoLostWakeup, NoAlarm
  <1>6. TimedMutualExclusion'
    BY <1>1, <1>2, <1>3 DEF MutexRight, TimedMutualExclusion
  <1>7. QueueRight'
    <2>1. Elems(queue) \subseteq User
      BY <1>2, ListDomain DEF TimedTypeOK
    <2> QED
      BY <1>1, <1>2, <1>3, <1>4, <2>1 DEF MutexRight, QueueRight
  <1>8. MutexRight'
    BY <1>5, <1>6, <1>7 DEF MutexRight
  <1>9. call' \in [User -> {"idle", "lock", "trylock", "held"}]
    BY <1>1, <1>2, SMTT(30)
  <1> QED
    BY <1>1, <1>2, <1>4, <1>8, <1>9, TimedFiberStep, Zenon DEF TimedTypeOK, TimedWaitable

\* The mutex is taken, and f joins the queue, with an alarm if it has a timeout.
LEMMA JoinsQueue ==
    ASSUME TimedInv, NEW f \in User, Runs(f), m_locked, m_locked' = m_locked, now' = now,
           NoAlarm(f), call[f] # "held",
           NEW c \in {"lock", "trylock"}, call' = [call EXCEPT ![f] = c],
           \A g \in User \ {f} : deadline'[g] = deadline[g] /\ rang'[g] = rang[g],
           deadline'[f] \in Nat, c = "trylock" => ~rang'[f],
           waiting' = IF c = "lock" THEN waiting ELSE waiting \cup {Alarm(f, deadline'[f])},
           queue' = push_back(queue, f), NEW v, v = worker', Blocks(worker, v, f)
    PROVE  /\ MutexRight' /\ queue' \in Seq(User) /\ waiting' \subseteq TimedWaitable
           /\ call' \in [User -> {"idle", "lock", "trylock", "held"}]
           /\ Blocked(waiting', queue') = Blocked(waiting, queue) \cup {f}
  <1>1. /\ TimedTypeOK /\ MutexRight /\ queue \in Seq(User) /\ Distinct(queue)
        /\ call \in [User -> {"idle", "lock", "trylock", "held"}]
        /\ waiting \subseteq TimedWaitable
    BY SMTT(30) DEF TimedInv, TimedTypeOK, MutexRight, QueueRight, TimedWaitable
  <1>2. f \notin Elems(queue) /\ f \notin Sleepers(Naps(waiting))
    BY TimedRuns, Zenon DEF User
  <1>3. queue' \in Seq(User) /\ Elems(queue') = Elems(queue) \cup {f} /\ Distinct(queue')
    <2>1. PICK q, r : q = queue /\ r = push_back(queue, f)
      OBVIOUS
    <2>2. q \in Seq(User) /\ Distinct(q) /\ f \notin Elems(q)
      BY <1>1, <1>2, <2>1
    <2>3. r \in Seq(User) /\ Elems(r) = Elems(q) \cup {f} /\ Distinct(r)
      BY <2>1, <2>2, PushBack
    <2> QED
      BY <2>1, <2>3
  <1>4. /\ call'[f] = c /\ \A g \in User \ {f} : call'[g] = call[g]
        /\ call' \in [User -> {"idle", "lock", "trylock", "held"}]
    BY <1>1
  <1>5. waiting' \subseteq TimedWaitable /\ Naps(waiting') = Naps(waiting)
    BY <1>1 DEF TimedWaitable, Naps, Alarm
  <1>6. Blocked(waiting', queue') = Blocked(waiting, queue) \cup {f}
    BY <1>3, <1>5 DEF Blocked
  <1>7. AlarmsRight'
    <2>1. ASSUME NEW e \in waiting', e.kind = "alarm"
          PROVE  /\ e = Alarm(e.fiber, deadline'[e.fiber]) /\ call'[e.fiber] = "trylock"
                 /\ ~rang'[e.fiber]
      <3>1. CASE e \in waiting
        <4>1. e.fiber \in User /\ e.fiber # f
          BY <1>1, <2>1, <3>1 DEF NoAlarm, TimedWaitable
        <4>2. /\ e = Alarm(e.fiber, deadline[e.fiber]) /\ call[e.fiber] = "trylock"
              /\ ~rang[e.fiber]
          BY <1>1, <2>1, <3>1 DEF MutexRight, AlarmsRight
        <4> QED
          BY <1>4, <4>1, <4>2
      <3>2. CASE e \notin waiting
        <4>1. e = Alarm(f, deadline'[f]) /\ c = "trylock"
          BY <3>2
        <4>2. e.fiber = f
          BY <4>1 DEF Alarm
        <4> QED
          BY <1>4, <4>1, <4>2
      <3> QED
        BY <3>1, <3>2
    <2> QED
      BY <2>1 DEF AlarmsRight
  <1>8. TimedMutualExclusion' /\ TimedNoLostWakeup'
    BY <1>1, <1>4 DEF MutexRight, TimedMutualExclusion, TimedNoLostWakeup
  <1>9. GivesUpInTime'
    BY <1>1, <1>3, <1>4, SMTT(30) DEF MutexRight, GivesUpInTime, contains
  <1>10. Elems(queue) \subseteq User /\ Blocked(waiting, queue) \subseteq User
    BY <1>1, TimedRuns, ListDomain, SMTT(30) DEF InOrder, User
  <1>11. QueueRight'
    <2>1. ASSUME NEW g \in Blocked(waiting, queue) \cup {f}
          PROVE  v.state[g] = "Waiting"
      BY <1>1, <1>10 DEF Blocks, LiveOn, MutexRight, QueueRight
    <2>2. ASSUME NEW g \in Elems(queue')
          PROVE  \/ call'[g] = "lock"
                 \/ call'[g] = "trylock" /\ Alarm(g, deadline'[g]) \in waiting'
      <3>1. CASE g = f
        BY <1>4, <3>1
      <3>2. CASE g # f
        <4>1. g \in User \ {f} /\ g \in Elems(queue)
          BY <1>3, <1>10, <3>2
        <4>2. \/ call[g] = "lock"
              \/ call[g] = "trylock" /\ Alarm(g, deadline[g]) \in waiting
          BY <1>1, <4>1, SMTT(30) DEF MutexRight, QueueRight
        <4> QED
          BY <1>4, <4>1, <4>2
      <3> QED
        BY <3>1, <3>2, SMTT(30)
    <2>3. Sleepers(Naps(waiting')) \cap Elems(queue') = {} /\ OneEach(Naps(waiting'))
      BY <1>1, <1>2, <1>3, <1>5 DEF MutexRight, QueueRight
    <2> QED
      BY <1>3, <1>6, <2>1, <2>2, <2>3, Zenon DEF QueueRight
  <1> QED
    BY <1>3, <1>4, <1>5, <1>6, <1>7, <1>8, <1>9, <1>11, Zenon DEF MutexRight

\* lock(), and every turn of its loop.
LEMMA LockKeeps ==
    ASSUME TimedInv, NEW f \in User, lock(f)
    PROVE  TimedInv'
  <1>1. /\ Runs(f) /\ call[f] \in {"idle", "lock"} /\ UNCHANGED <<now, runEnd, pc, wnow>>
        /\ f \in Fiber /\ NoAlarm(f)
    BY NoAlarmLemma DEF lock, User
  <1>2. CASE ~m_locked
    BY <1>1, <1>2, TakesKeeps DEF lock
  <1>3. CASE m_locked
    <2>1. /\ worker' = schedule(nap(release(worker, f), f), timeUp)
          /\ queue' = push_back(queue, f) /\ call' = [call EXCEPT ![f] = "lock"]
          /\ UNCHANGED <<waiting, m_locked, deadline, rang>>
      BY <1>3 DEF lock
    <2>2. PICK n, v, up, W, busy :
             /\ n = nap(release(worker, f), f) /\ v = worker' /\ up = timeUp
             /\ W = Blocked(waiting, queue) /\ busy = (waiting # {})
      OBVIOUS
    <2>3. /\ InOrder(worker, W, busy) /\ worker.current = f /\ up \in BOOLEAN
          /\ v = schedule(n, up) /\ n = nap(release(worker, f), f)
      BY <1>1, <2>1, <2>2, TimedRuns
    <2>4. InOrder(v, W \cup {f}, busy) /\ Blocks(worker, v, f)
      BY <2>3, BlockKeeps
    <2>5. TimedTypeOK
      BY DEF TimedInv
    <2>6. /\ MutexRight' /\ queue' \in Seq(User) /\ waiting' \subseteq TimedWaitable
          /\ call' \in [User -> {"idle", "lock", "trylock", "held"}]
          /\ Blocked(waiting', queue') = W \cup {f}
      BY <1>1, <1>3, <2>1, <2>2, <2>4, <2>5, JoinsQueue, ZenonT(30) DEF TimedTypeOK
    <2>7. InOrder(v, Blocked(waiting', queue'), waiting' # {})
      BY <2>1, <2>2, <2>4, <2>6
    <2> QED
      BY <1>1, <2>1, <2>2, <2>5, <2>6, <2>7, TimedFiberStep, Zenon DEF TimedTypeOK
  <1> QED
    BY <1>2, <1>3

\* trylock() with a timeout, and every turn of its loop.
LEMMA TriesKeeps ==
    ASSUME TimedInv, NEW f \in User, Runs(f), call[f] \in {"idle", "trylock"}, NoAlarm(f),
           NEW t \in Nat, tries(f, t)
    PROVE  TimedInv'
  <1>1. UNCHANGED <<now, runEnd, pc, wnow>> /\ f \in Fiber /\ TimedTypeOK /\ MutexRight
    BY DEF tries, User, TimedInv
  <1>2. CASE ~m_locked
    BY <1>1, <1>2, TakesKeeps DEF tries
  <1>3. CASE m_locked
    <2>1. /\ call' = [call EXCEPT ![f] = "trylock"] /\ deadline' = [deadline EXCEPT ![f] = t]
          /\ rang' = [rang EXCEPT ![f] = FALSE] /\ m_locked' = m_locked
          /\ IF t <= now THEN UNCHANGED <<worker, waiting, queue>> ELSE block_(f, t)
      BY <1>3 DEF tries
    <2>2. /\ deadline' \in [User -> Nat] /\ rang' \in [User -> BOOLEAN]
          /\ call' \in [User -> {"idle", "lock", "trylock", "held"}]
          /\ call'[f] = "trylock" /\ deadline'[f] = t /\ ~rang'[f]
          /\ \A g \in User \ {f} : deadline'[g] = deadline[g] /\ rang'[g] = rang[g]
          /\ \A g \in User \ {f} : call'[g] = call[g]
      BY <1>1, <2>1 DEF TimedTypeOK
    <2>3. PICK n, v, up, W, busy :
             /\ n = nap(release(worker, f), f) /\ v = worker' /\ up = timeUp
             /\ W = Blocked(waiting, queue) /\ busy = (waiting # {})
      OBVIOUS
    <2>4. /\ InOrder(worker, W, busy) /\ worker.current = f /\ up \in BOOLEAN
          /\ f \notin Elems(queue)
      BY <1>1, <2>3, TimedRuns
    <2>5. CASE t <= now
      <3>1. UNCHANGED <<worker, waiting, queue>>
        BY <2>1, <2>5
      <3>2. AlarmsRight' /\ GivesUpInTime' /\ TimedNoLostWakeup' /\ TimedMutualExclusion'
        <4>1. AlarmsRight'
          <5>1. \A e \in waiting : e.kind = "alarm" => e.fiber \in User \ {f}
            BY <1>1 DEF TimedTypeOK, NoAlarm
          <5> QED
            BY <1>1, <2>2, <3>1, <5>1 DEF MutexRight, AlarmsRight
        <4>2. GivesUpInTime'
          BY <1>1, <2>2, <3>1 DEF MutexRight, GivesUpInTime
        <4>3. TimedNoLostWakeup'
          BY <1>3, <2>1 DEF TimedNoLostWakeup
        <4>4. TimedMutualExclusion'
          <5>1. \A g \in User : call'[g] = "held" <=> call[g] = "held"
            BY <2>2
          <5> QED
            BY <1>1, <2>1, <5>1 DEF MutexRight, TimedMutualExclusion
        <4> QED
          BY <4>1, <4>2, <4>3, <4>4
      <3>3. QueueRight'
        <4>1. Elems(queue) \subseteq User \ {f}
          BY <1>1, <2>4, ListDomain DEF TimedTypeOK
        <4> QED
          BY <1>1, <2>2, <3>1, <4>1, Zenon DEF MutexRight, QueueRight
      <3>4. MutexRight' /\ InOrder(v, Blocked(waiting', queue'), waiting' # {})
        BY <2>3, <2>4, <3>1, <3>2, <3>3, ZenonT(30) DEF MutexRight
      <3> QED
        BY <1>1, <2>1, <2>2, <2>3, <3>1, <3>4, TimedFiberStep, ZenonT(30) DEF TimedTypeOK, TimedWaitable
    <2>6. CASE ~(t <= now)
      <3>1. /\ queue' = push_back(queue, f) /\ waiting' = waiting \cup {Alarm(f, deadline'[f])}
            /\ v = schedule(resume(n, waiterFiber), up)
        BY <2>1, <2>2, <2>3, <2>6 DEF block_
      <3>2. InOrder(v, W \cup {f}, TRUE) /\ Blocks(worker, v, f)
        BY <2>3, <2>4, <3>1, WaitKeeps, ZenonT(30)
      <3>3. /\ MutexRight' /\ queue' \in Seq(User) /\ waiting' \subseteq TimedWaitable
            /\ Blocked(waiting', queue') = W \cup {f}
        <4>1. \A x, y : (IF "trylock" = "lock" THEN x ELSE y) = y
          OBVIOUS
        <4>2. /\ "trylock" \in {"lock", "trylock"} /\ call[f] # "held" /\ deadline'[f] \in Nat
              /\ waiting' = IF "trylock" = "lock" THEN waiting
                            ELSE waiting \cup {Alarm(f, deadline'[f])}
          BY <2>2, <3>1, Zenon
        <4> QED
          BY <1>1, <1>3, <2>1, <2>2, <2>3, <3>1, <3>2, <4>2, JoinsQueue, Zenon
      <3>4. InOrder(v, Blocked(waiting', queue'), waiting' # {})
        <4>1. (waiting' # {}) = TRUE
          BY <3>1, Zenon
        <4> QED
          BY <3>2, <3>3, <4>1, Zenon
      <3> QED
        BY <1>1, <1>3, <2>1, <2>2, <2>3, <3>3, <3>4, TimedFiberStep, Zenon DEF TimedTypeOK
    <2> QED
      BY <2>5, <2>6
  <1> QED
    BY <1>2, <1>3

\* The end of block_().
LEMMA BlockEndKeeps ==
    ASSUME TimedInv, NEW f \in User, blockEnd(f)
    PROVE  TimedInv'
  <1>1. /\ Runs(f) /\ call[f] = "trylock"
        /\ waiting' = waiting \ {Alarm(f, deadline[f])}
        /\ call' = [call EXCEPT ![f] = IF rang[f] THEN "idle" ELSE call[f]]
        /\ UNCHANGED <<worker, now, runEnd, pc, wnow, m_locked, queue, deadline, rang>>
        /\ TimedTypeOK /\ MutexRight /\ f \in Fiber
    BY Zenon DEF blockEnd, TimedInv, User
  <1>2. /\ call' \in [User -> {"idle", "lock", "trylock", "held"}]
        /\ call'[f] = IF rang[f] THEN "idle" ELSE "trylock"
        /\ \A g \in User \ {f} : call'[g] = call[g]
    BY <1>1 DEF TimedTypeOK
  <1>3. /\ InOrder(worker, Blocked(waiting, queue), waiting # {}) /\ f \notin Elems(queue)
        /\ Elems(queue) \subseteq User \ {f}
    <2>1. InOrder(worker, Blocked(waiting, queue), waiting # {}) /\ f \notin Elems(queue)
      BY <1>1, TimedRuns
    <2>2. Elems(queue) \subseteq User
      BY <1>1, ListDomain, SMTT(30) DEF TimedTypeOK
    <2> QED
      BY <2>1, <2>2
  <1>4. Naps(waiting') = Naps(waiting) /\ Blocked(waiting', queue') = Blocked(waiting, queue)
    <2>1. Alarm(f, deadline[f]).kind = "alarm"
      BY DEF Alarm
    <2>2. Naps(waiting') = Naps(waiting)
      BY <1>1, <2>1, SMTT(30) DEF Naps
    <2> QED
      BY <1>1, <2>2 DEF Blocked
  <1>5. InOrder(worker', Blocked(waiting', queue'), waiting' # {})
    BY <1>1, <1>3, <1>4 DEF InOrder, Serves
  <1>6. AlarmsRight'
    <2>1. ASSUME NEW e \in waiting', e.kind = "alarm"
          PROVE  /\ e = Alarm(e.fiber, deadline[e.fiber]) /\ call'[e.fiber] = "trylock"
                 /\ ~rang[e.fiber]
      <3>1. e \in waiting /\ e # Alarm(f, deadline[f]) /\ e.fiber \in User
        BY <1>1, <2>1 DEF TimedTypeOK
      <3>2. /\ e = Alarm(e.fiber, deadline[e.fiber]) /\ call[e.fiber] = "trylock"
            /\ ~rang[e.fiber]
        BY <1>1, <2>1, <3>1, SMTT(30) DEF MutexRight, AlarmsRight
      <3> QED
        BY <1>2, <3>1, <3>2
    <2> QED
      BY <1>1, <2>1 DEF AlarmsRight
  <1>7. TimedMutualExclusion' /\ GivesUpInTime'
    BY <1>1, <1>2 DEF MutexRight, TimedMutualExclusion, GivesUpInTime
  <1>8. TimedNoLostWakeup'
    BY <1>1, <1>2, SMTT(30) DEF MutexRight, TimedNoLostWakeup
  <1>9. QueueRight'
    <2>1. ASSUME NEW g \in Elems(queue)
          PROVE  call'[g] = "lock" \/ (call'[g] = "trylock" /\ Alarm(g, deadline[g]) \in waiting')
      <3>1. g # f /\ g \in User
        BY <1>3
      <3>2. call[g] = "lock" \/ (call[g] = "trylock" /\ Alarm(g, deadline[g]) \in waiting)
        BY <1>1 DEF MutexRight, QueueRight
      <3>3. Alarm(g, deadline[g]) # Alarm(f, deadline[f])
        BY <3>1 DEF Alarm
      <3> QED
        BY <1>1, <1>2, <3>1, <3>2, <3>3
    <2> QED
      BY <1>1, <1>4, <2>1 DEF MutexRight, QueueRight
  <1>10. MutexRight'
    BY <1>6, <1>7, <1>8, <1>9 DEF MutexRight
  <1> QED
    BY <1>1, <1>2, <1>5, <1>10, TimedFiberStep, Zenon DEF TimedTypeOK, TimedWaitable

\* unlock(): the first of the queue is woken up.
LEMMA UnlockKeeps ==
    ASSUME TimedInv, NEW f \in User, unlock(f)
    PROVE  TimedInv'
  <1>1. /\ Runs(f) /\ call[f] = "held" /\ m_locked' = FALSE
        /\ call' = [call EXCEPT ![f] = "idle"]
        /\ IF queue = <<>> THEN UNCHANGED <<worker, queue>>
           ELSE worker' = Woken(worker, front(queue)) /\ queue' = pop_front(queue)
        /\ UNCHANGED <<waiting, now, runEnd, pc, wnow, deadline, rang>>
        /\ TimedTypeOK /\ MutexRight /\ f \in Fiber
    BY DEF unlock, TimedInv, User
  <1>2. /\ call' \in [User -> {"idle", "lock", "trylock", "held"}]
        /\ call'[f] = "idle" /\ \A g \in User \ {f} : call'[g] = call[g]
    BY <1>1 DEF TimedTypeOK
  <1>3. PICK v, W, busy : v = worker' /\ W = Blocked(waiting, queue) /\ busy = (waiting # {})
    OBVIOUS
  <1>4. /\ InOrder(worker, W, busy) /\ f \notin Elems(queue) /\ worker.current \in Fiber
        /\ Elems(queue) \subseteq User \ {f} /\ W \subseteq User /\ User \subseteq Fiber
    BY <1>1, <1>3, TimedRuns, ListDomain, Zenon DEF TimedTypeOK, InOrder, User
  <1>5. AlarmsRight' /\ TimedMutualExclusion'
    BY <1>1, <1>2 DEF TimedTypeOK, MutexRight, AlarmsRight, TimedMutualExclusion
  <1>6. ASSUME QueueRight', GivesUpInTime', TimedNoLostWakeup', queue' \in Seq(User),
               InOrder(v, Blocked(waiting', queue'), busy)
        PROVE  TimedInv'
    <2>1. MutexRight' /\ InOrder(v, Blocked(waiting', queue'), waiting' # {})
      BY <1>1, <1>3, <1>5, <1>6 DEF MutexRight
    <2> QED
      BY <1>1, <1>2, <1>3, <1>6, <2>1, TimedFiberStep, Zenon DEF TimedTypeOK, TimedWaitable
  <1>7. CASE queue = <<>>
    <2>1. UNCHANGED <<worker, queue>>
      BY <1>1, <1>7
    <2>2. QueueRight' /\ GivesUpInTime' /\ TimedNoLostWakeup'
      BY <1>1, <1>2, <1>4, <1>7, <2>1, Zenon DEF MutexRight, QueueRight, GivesUpInTime, TimedNoLostWakeup
    <2> QED
      BY <1>1, <1>3, <1>4, <1>6, <2>1, <2>2 DEF TimedTypeOK
  <1>8. CASE queue # <<>>
    <2>1. PICK g : g = front(queue)
      OBVIOUS
    <2>2. /\ g \in Elems(queue) /\ queue' \in Seq(User)
          /\ Elems(queue') = Elems(queue) \ {g} /\ Distinct(queue')
      BY <1>1, <1>8, <2>1, PopFront, ZenonT(30) DEF TimedTypeOK, MutexRight, QueueRight
    <2>3. g \in W /\ g \notin Sleepers(Naps(waiting)) /\ Blocked(waiting', queue') = W \ {g}
      BY <1>1, <1>3, <2>2 DEF Blocked, MutexRight, QueueRight
    <2>4. InOrder(v, W \ {g}, busy) /\ Wakes(worker, v, g)
      <3>1. v = add(wakeup(worker, g), g)
        BY <1>1, <1>3, <1>8, <2>1 DEF Woken
      <3> QED
        BY <1>4, <2>3, <3>1, WakeKeeps
    <2>5. GivesUpInTime'
      BY <1>1, <1>2, <2>2 DEF MutexRight, GivesUpInTime, contains
    <2>6. QueueRight'
      <3>1. \A h \in W \ {g} : v.state[h] = "Waiting"
        BY <1>1, <1>3, <1>4, <2>4, ZenonT(30) DEF Wakes, MutexRight, QueueRight
      <3>2. \A h \in Elems(queue') :
               call'[h] = "lock" \/ (call'[h] = "trylock" /\ Alarm(h, deadline[h]) \in waiting)
        BY <1>1, <1>2, <1>4, <2>2, ZenonT(30) DEF MutexRight, QueueRight
      <3> QED
        BY <1>1, <1>3, <2>2, <2>3, <3>1, <3>2, ZenonT(30) DEF MutexRight, QueueRight
    <2>7. TimedNoLostWakeup'
      <3>1. v.state[g] = "Ready" /\ g \in User /\ g # f
        BY <1>1, <1>3, <1>4, <2>2, <2>3, <2>4, ZenonT(30) DEF Wakes, MutexRight, QueueRight
      <3>2. call[g] = "lock" \/ (call[g] = "trylock" /\ Alarm(g, deadline[g]) \in waiting)
        BY <1>1, <2>2 DEF MutexRight, QueueRight
      <3>3. call[g] = "lock" \/ (call[g] = "trylock" /\ ~rang[g])
        BY <1>1, <3>2 DEF MutexRight, AlarmsRight, Alarm
      <3> QED
        BY <1>1, <1>2, <1>3, <3>1, <3>3 DEF TimedNoLostWakeup
    <2> QED
      BY <1>6, <2>2, <2>3, <2>4, <2>5, <2>6, <2>7
  <1> QED
    BY <1>7, <1>8

\* A fiber outside of the calls of the mutex yields, naps or exits.
LEMMA OutsideKeeps ==
    ASSUME TimedInv, NEW f \in User, call[f] \in {"idle", "held"}, UNCHANGED mutexVars,
           Yield(f) \/ Exit(f) \/ \E d \in Delays : Nap(f, d)
    PROVE  TimedInv'
  <1>1. /\ Runs(f) /\ UNCHANGED <<now, runEnd, pc, wnow, m_locked, queue, call, deadline, rang>>
        /\ TimedTypeOK /\ MutexRight /\ f \in Fiber /\ now \in Nat
    BY Zenon DEF Yield, Exit, FiberStep, Nap, Wait, mutexVars, TimedInv, TimedTypeOK, User
  <1>2. PICK v, W, busy, up :
           v = worker' /\ W = Blocked(waiting, queue) /\ busy = (waiting # {}) /\ up = timeUp
    OBVIOUS
  <1>3. /\ InOrder(worker, W, busy) /\ worker.current = f /\ up \in BOOLEAN
        /\ f \notin W /\ W \subseteq User
    BY <1>1, <1>2, TimedRuns, Zenon DEF InOrder, Blocked
  <1>4. ASSUME UNCHANGED waiting, InOrder(v, W, busy), LiveOn(worker, v, User \ {f})
        PROVE  TimedInv'
    <2>1. MutexRight'
      <3>1. /\ User \ {f} \subseteq User /\ now' \in Nat /\ now' >= now
            /\ \A g \in User \ (User \ {f}) :
                  call[g] \in {"idle", "held"} /\ g \notin Blocked(waiting, queue)
        <4>1. \A g \in User \ (User \ {f}) : g = f
          BY SMTT(30)
        <4>2. call[f] \in {"idle", "held"} /\ f \notin Blocked(waiting, queue)
          BY <1>1, <1>2, <1>3, Zenon
        <4>3. now' \in Nat /\ now' >= now
          BY <1>1
        <4> QED
          BY <4>1, <4>2, <4>3
      <3> QED
        BY <1>1, <1>2, <1>4, <3>1, MutexRests
    <2>2. InOrder(v, Blocked(waiting', queue'), waiting' # {})
      BY <1>1, <1>2, <1>4
    <2> QED
      BY <1>1, <1>2, <1>4, <2>1, <2>2, TimedFiberStep, Zenon DEF TimedTypeOK, TimedWaitable
  <1>5. CASE Yield(f)
    <2>1. v = schedule(worker, up) /\ UNCHANGED waiting
      BY <1>2, <1>5 DEF Yield, FiberStep
    <2>2. InOrder(v, W, busy) /\ LiveOn(worker, v, Fiber)
      BY <1>1, <1>3, <2>1, YieldKeeps, Zenon
    <2>3. LiveOn(worker, v, User \ {f})
      BY <2>2, Zenon DEF LiveOn, User
    <2> QED
      BY <1>4, <2>1, <2>2, <2>3
  <1>6. CASE Exit(f)
    <2>1. v = exit(worker, f, up) /\ UNCHANGED waiting
      BY <1>2, <1>6 DEF Exit, FiberStep
    <2>2. InOrder(v, W, busy) /\ LiveOn(worker, v, Fiber \ {f})
      BY <1>1, <1>3, <2>1, ExitKeeps, Zenon
    <2>3. LiveOn(worker, v, User \ {f})
      BY <2>2, Zenon DEF LiveOn, User
    <2> QED
      BY <1>4, <2>1, <2>2, <2>3
  <1>7. ASSUME NEW d \in Delays, Nap(f, d), d # 0
        PROVE  TimedInv'
    <2>1. PICK e, n : /\ e = [kind |-> "nap", fiber |-> f, timeout |-> now + d, interval |-> 0]
                      /\ n = release(nap(worker, f), f)
      BY Zenon
    <2>2. /\ waiting' = waiting \cup {e} /\ v = schedule(resume(n, waiterFiber), up)
      BY <1>2, <1>7, <2>1 DEF Nap, Wait
    <2>3. e \in TimedWaitable /\ e.fiber = f /\ e.kind = "nap"
      BY <1>1, <2>1, WaiterAssumption DEF TimedWaitable
    <2>4. InOrder(v, W \cup {f}, TRUE) /\ Blocks(worker, v, f)
      BY <1>3, <2>1, <2>2, WaitKeeps, Zenon
    <2>5. /\ Naps(waiting') = Naps(waiting) \cup {e} /\ OneEach(Naps(waiting))
          /\ Sleepers(Naps(waiting)) \cap Elems(queue) = {}
          /\ e.fiber \notin Sleepers(Naps(waiting)) /\ f \notin Elems(queue)
      BY <1>1, <1>2, <1>3, <2>2, <2>3, Zenon DEF Naps, Blocked, MutexRight, QueueRight
    <2>6. /\ Sleepers(Naps(waiting) \cup {e}) = Sleepers(Naps(waiting)) \cup {e.fiber}
          /\ OneEach(Naps(waiting) \cup {e})
      BY <2>5, SleepersLemma, Zenon
    <2>7. Blocked(waiting', queue') = W \cup {f}
      BY <1>1, <1>2, <2>3, <2>5, <2>6, Zenon DEF Blocked
    <2>8. InOrder(v, Blocked(waiting', queue'), waiting' # {})
      <3>1. (waiting' # {}) = TRUE
        BY <2>2
      <3> QED
        BY <2>4, <2>7, <3>1, Zenon
    <2>9. AlarmsRight' /\ TimedMutualExclusion' /\ GivesUpInTime'
      BY <1>1, <2>2, <2>3, Zenon DEF MutexRight, AlarmsRight, TimedMutualExclusion, GivesUpInTime
    <2>10. QueueRight'
      <3>1. ASSUME NEW g \in W \cup {f} PROVE v.state[g] = "Waiting"
        BY <1>1, <1>2, <1>3, <2>4, Zenon DEF Blocks, LiveOn, MutexRight, QueueRight
      <3>2. \A g \in Elems(queue) :
               call[g] = "lock" \/ (call[g] = "trylock" /\ Alarm(g, deadline[g]) \in waiting')
        BY <1>1, <2>2, Zenon DEF MutexRight, QueueRight
      <3>3. Sleepers(Naps(waiting')) \cap Elems(queue) = {} /\ OneEach(Naps(waiting'))
        BY <2>3, <2>5, <2>6
      <3> QED
        BY <1>1, <1>2, <2>7, <3>1, <3>2, <3>3, Zenon DEF MutexRight, QueueRight
    <2>11. TimedNoLostWakeup'
      <3> SUFFICES ASSUME ~m_locked, queue # <<>>
                   PROVE  \E g \in User : /\ v.state[g] \in {"Ready", "Running"}
                                          /\ \/ call[g] = "lock"
                                             \/ call[g] = "trylock" /\ ~rang[g]
        BY <1>1, <1>2 DEF TimedNoLostWakeup
      <3>1. PICK g \in User : /\ worker.state[g] \in {"Ready", "Running"}
                              /\ \/ call[g] = "lock"
                                 \/ call[g] = "trylock" /\ ~rang[g]
        BY <1>1 DEF MutexRight, TimedNoLostWakeup
      <3> QED
        BY <2>4, <3>1, Zenon DEF Blocks, LiveOn
    <2>12. MutexRight' /\ waiting' \subseteq TimedWaitable
      BY <1>1, <2>2, <2>3, <2>9, <2>10, <2>11 DEF MutexRight, TimedTypeOK, TimedWaitable
    <2> QED
      BY <1>1, <1>2, <2>8, <2>12, TimedFiberStep, Zenon DEF TimedTypeOK
  <1> QED
    BY <1>5, <1>6, <1>7, Zenon DEF Nap

\* Every step keeps the invariant.
LEMMA TimedInvNext ==
    ASSUME TimedInv, [TimedNext]_allVars
    PROVE  TimedInv'
  <1>1. ASSUME UNCHANGED allVars
        PROVE  TimedInv'
    <2>1. UNCHANGED <<worker, waiting, now, runEnd, pc, wnow, m_locked, queue, call, deadline, rang>>
      BY <1>1 DEF allVars, vars, mutexVars
    <2> QED
      BY <2>1, Zenon DEF TimedInv, TimedTypeOK, Going, MutexRight, AlarmsRight, QueueRight,
                  TimedMutualExclusion, GivesUpInTime, TimedNoLostWakeup
  <1>2. ASSUME NEW f \in User, FiberGoesOn(f) \/ FiberChooses(f)
        PROVE  TimedInv'
    <2>1. CASE blockEnd(f)
      BY <2>1, BlockEndKeeps
    <2>2. CASE tryAgain(f)
      <3>1. /\ Runs(f) /\ call[f] \in {"idle", "trylock"} /\ NoAlarm(f) /\ deadline[f] \in Nat
            /\ tries(f, deadline[f])
        BY <2>2, NoAlarmLemma DEF tryAgain, TimedInv, TimedTypeOK
      <3> QED
        BY <3>1, TriesKeeps
    <2>3. CASE lock(f)
      BY <2>3, LockKeeps
    <2>4. ASSUME NEW d \in Delays, trylock(f, d)
          PROVE  TimedInv'
      <3>1. /\ Runs(f) /\ call[f] \in {"idle", "trylock"} /\ NoAlarm(f) /\ now + d \in Nat
            /\ tries(f, now + d)
        BY <2>4, NoAlarmLemma, WaiterAssumption DEF trylock, TimedInv, TimedTypeOK
      <3> QED
        BY <3>1, TriesKeeps
    <2>5. CASE unlock(f)
      BY <2>5, UnlockKeeps
    <2>6. CASE /\ call[f] \in {"idle", "held"} /\ UNCHANGED mutexVars
               /\ Yield(f) \/ Exit(f) \/ \E d \in Delays : Nap(f, d)
      BY <2>6, OutsideKeeps
    <2> QED
      BY <1>2, <2>1, <2>2, <2>3, <2>4, <2>5, <2>6 DEF FiberGoesOn, FiberChooses
  <1> QED
    BY <1>1, <1>2, ThreadStepKeeps, AlarmRingsKeeps, ClockStepKeeps DEF TimedNext, Idles

\* For any number of fibers and any timeouts: the AlarmClock of a fiber is never
\* left behind with the waiter when block_() has returned and its
\* stack frame is gone (block_(), AlarmClock::poll()).
THEOREM AlarmsAreAliveHolds == TimedSpec => []AlarmsAreAlive
  <1>1. TimedInv => AlarmsAreAlive
    BY DEF TimedInv, MutexRight, AlarmsRight, AlarmsAreAlive, Alarm
  <1> QED
    BY <1>1, TimedInvInit, TimedInvNext, PTL DEF TimedSpec

\* The wake up that unlock() gives is not lost to a fiber in trylock() that gives
\* up, for any number of fibers and any timeouts (Mutex::unlock(), trylock()).
THEOREM TimedNoLostWakeupHolds == TimedSpec => []TimedNoLostWakeup
  <1>1. TimedInv => TimedNoLostWakeup
    BY SMTT(30) DEF TimedInv, MutexRight
  <1> QED
    BY <1>1, TimedInvInit, TimedInvNext, PTL DEF TimedSpec

\* With timeouts, two fibers never hold the mutex together, every fiber in its queue
\* waits and can be reached, and trylock() gives up only when the timeout has passed
\* (Mutex::lock(), trylock(), unlock(), AlarmClock::poll()).
THEOREM TimedLockIsSoundHolds == TimedSpec => []TimedLockIsSound
  <1>1. TimedInv => TimedLockIsSound
    <2> SUFFICES ASSUME TimedInv PROVE WaitingIsReachable
      BY SMTT(30) DEF TimedInv, MutexRight, TimedLockIsSound
    <2>1. /\ QueueRight /\ Matched(worker, Blocked(waiting, queue))
      BY SMTT(30) DEF TimedInv, MutexRight, Going
    <2>2. ASSUME NEW f \in User
          PROVE  LET naps == \E e \in waiting : e.fiber = f /\ e.kind = "nap"
                 IN  /\ worker.state[f] = "Waiting" <=> naps \/ contains(queue, f)
                     /\ ~(naps /\ contains(queue, f))
                     /\ contains(queue, f) =>
                           \/ call[f] = "lock"
                           \/ call[f] = "trylock" /\ Alarm(f, deadline[f]) \in waiting
      <3>1. (\E e \in waiting : e.fiber = f /\ e.kind = "nap") <=> f \in Sleepers(Naps(waiting))
        BY SMTT(30) DEF Sleepers, Naps
      <3>2. worker.state[f] = "Waiting" <=> f \in Blocked(waiting, queue)
        BY <2>1 DEF QueueRight, Matched, AllWait, User
      <3> QED
        BY <2>1, <3>1, <3>2 DEF QueueRight, Blocked, contains
    <2> QED
      BY <2>1, <2>2 DEF WaitingIsReachable, QueueRight
  <1> QED
    BY <1>1, TimedInvInit, TimedInvNext, PTL DEF TimedSpec
====
