---------------------------- MODULE WaiterProofs ----------------------------
(***************************************************************************)
(* The thread with its Waiter, for any number of fibers, any delays and    *)
(* any clock: the queues, the states and the list of the waiter agree, no  *)
(* assertion fails, the waiter is runnable as long as a fiber sleeps, it   *)
(* sleeps itself only when there is nothing to run and never too long, and *)
(* it wakes nobody early.                                                  *)
(***************************************************************************)
EXTENDS Waiter, WorkerProofs

\* All that fibers can do, to themselves and to each other.
ThreadNext == Next \/ \E f \in User : ControlNext(f)

ThreadSpec == Init /\ [][ThreadNext]_vars

\* A fiber that waits is not suspended: Fiber::suspend() overwrites its next
\* state with Waiting, which wakeup() then takes it to, and add() refuses that.
NoSuspendWaiting == "suspendWaiting" \notin Ops

\* Worker::run() without a duration, which is the default.
Forever == NoSuspendWaiting /\ Durations \subseteq {0}

\* The fibers of W wait, or were killed while they did, and are in no queue of
\* the worker; no other fiber waits.
AllWait(w, W) ==
    /\ \A f \in W : /\ w.state[f] \in {"Waiting", "Dead"}
                    /\ f \notin Elems(w.runnable) /\ f \notin Elems(w.suspended)
    /\ \A f \in Fiber : w.state[f] = "Waiting" => f \in W

Matched(w, W) == QueuesMatchStates(w) /\ AllWait(w, W)

\* The waiter is there, and it is queued to run when it has something to do.
Serves(w, busy) ==
    /\ w.state[waiterFiber] \in {"New", "Ready", "Running", "Suspended"}
    /\ busy => waiterFiber \in Elems(w.runnable)

\* The fibers of the list s of the waiter; each is in there once.
Sleepers(s) == {e.fiber : e \in s}

OneEach(s) == \A d, e \in s : d.fiber = e.fiber => d = e

\* The waiter runs from the end of the queue: all others come before it.
WaiterIsLast(w) ==
    w.current = waiterFiber =>
        w.runnable # <<>> /\ w.runnable[Len(w.runnable)] = waiterFiber

Sound(w, s, at) ==
    /\ Matched(w, Sleepers(s)) /\ OneEach(s) /\ CurrentRuns(w) /\ WaiterIsLast(w)
    /\ w.current \in Fiber => at.worker = "loop"
    /\ at.worker \notin {"dtor", "gone"} => Serves(w, s # {})

SleepsAlone ==
    pc.waiter = "sleep" => /\ worker.current = waiterFiber /\ worker.runnable = <<waiterFiber>>
                           /\ waiting # {} /\ ~worker.failed

\* The inductive invariant.
WaiterInv ==
    /\ WaiterTypeOK
    /\ wnow <= now
    /\ SleepsAlone
    /\ ~worker.failed => Sound(worker, waiting, pc)

\* As long as no fiber has run, none is dead; and there is one to run when
\* schedule() is called.
CanStart ==
    /\ ~worker.failed /\ runEnd = 0
    /\ pc.worker = "schedule" => worker.runnable # <<>>
    /\ worker.current = workerFiber /\ worker.state[workerFiber] = "Ready"
          /\ pc.worker \notin {"dtor", "gone"} =>
              \A f \in Fiber : worker.state[f] # "Dead"

\* Those fibers of S that wait, or take turns, still do.
LiveOn(w, v, S) ==
    \A g \in S : /\ w.state[g] = "Waiting" => v.state[g] = "Waiting"
                 /\ w.state[g] \in {"Ready", "Running"} => v.state[g] \in {"Ready", "Running"}

\* The same when f goes to wait.
Blocks(w, v, f) == v.state[f] = "Waiting" /\ LiveOn(w, v, User \ {f})

\* f is woken up, and no other fiber is affected.
Wakes(w, v, f) ==
    /\ w.state[f] = "Waiting" => v.state[f] = "Ready"
    /\ \A g \in Fiber \ {f} : v.state[g] = w.state[g]

-----------------------------------------------------------------------------
\* schedule() by a fiber that has put its own state and queue in order.
LEMMA GiveWay ==
    ASSUME NEW w, w \in WorkerType, NEW W, W \subseteq User, NEW busy, Matched(w, W), ~w.failed,
           w.current \in Fiber => w.state[w.current] # "Ready" /\ w.state[w.current] # "New",
           NEW up \in BOOLEAN, NEW v, v = schedule(w, up)
    PROVE  /\ v \in WorkerType
           /\ ~v.failed => /\ Matched(v, W) /\ CurrentRuns(v) /\ WaiterIsLast(v)
                           /\ Serves(w, busy) => Serves(v, busy)
                           /\ v.state[workerFiber] = "Running" \/ v.current \in Fiber
                           /\ LiveOn(w, v, Fiber)
           /\ CanSwitch(w, up) => ~v.failed
  <1>1. /\ v \in WorkerType
        /\ ~v.failed => Scheduled(w, v)
        /\ CanSwitch(w, up) => ~v.failed
    BY ScheduleLemma DEF Matched
  <1> SUFFICES ASSUME ~v.failed, Scheduled(w, v)
               PROVE  /\ Matched(v, W) /\ WaiterIsLast(v)
                      /\ Serves(w, busy) => Serves(v, busy)
                      /\ LiveOn(w, v, Fiber)
    BY <1>1 DEF Scheduled
  <1>2. WaiterIsLast(v)
    <2> SUFFICES ASSUME v.current = waiterFiber
                 PROVE  v.runnable # <<>> /\ v.runnable[Len(v.runnable)] = waiterFiber
      BY DEF WaiterIsLast
    <2>1. v.current \in Fiber /\ QueuesMatchStates(w)
      BY WaiterAssumption DEF Matched
    <2> QED
      BY <2>1, ScheduleOrder
  <1>3. AllWait(v, W)
    BY DEF Scheduled, Matched, AllWait, User
  <1>4. Serves(w, busy) => Serves(v, busy)
    BY WaiterAssumption DEF Scheduled, Serves, QueuesMatchStates, Matched
  <1>5. LiveOn(w, v, Fiber)
    BY DEF Scheduled, LiveOn, QueuesMatchStates, Matched
  <1> QED
    BY <1>2, <1>3, <1>4, <1>5 DEF Matched, Scheduled

\* The same for schedule(&g).
LEMMA GiveWayTo ==
    ASSUME NEW w, w \in WorkerType, NEW W, W \subseteq User, NEW busy, Matched(w, W), ~w.failed,
           w.current \in Fiber, CurrentRuns(w),
           NEW g \in User, g \in Elems(w.runnable), w.state[g] # "Dead",
           NEW up \in BOOLEAN, NEW v, v = scheduleTo(w, g, up)
    PROVE  /\ v \in WorkerType /\ ~v.failed
           /\ Matched(v, W) /\ CurrentRuns(v) /\ WaiterIsLast(v)
           /\ Serves(w, busy) => Serves(v, busy)
           /\ v.state[workerFiber] = "Running" \/ v.current \in Fiber
  <1>1. Scheduled(w, v) /\ ~v.failed /\ v.current \in {g, workerFiber}
    BY ScheduleToLemma DEF Matched
  <1>2. WaiterIsLast(v)
    BY <1>1, WaiterAssumption, WorkerAssumption DEF WaiterIsLast, User
  <1>3. AllWait(v, W)
    BY <1>1 DEF Scheduled, Matched, AllWait, User
  <1>4. Serves(w, busy) => Serves(v, busy)
    BY <1>1, WaiterAssumption DEF Scheduled, Serves, QueuesMatchStates, Matched
  <1> QED
    BY <1>1, <1>2, <1>3, <1>4 DEF Matched, Scheduled

\* The worker of any hatched fibers is sound before Worker::run().
LEMMA WaiterInvInit ==
    Init => WaiterInv /\ CanStart
  <1> SUFFICES ASSUME Init PROVE WaiterInv /\ CanStart
    OBVIOUS
  <1>1. PICK q \in HatchOrders :
           worker = add(fiberSuspend(Become(NewWorker(q), waiterFiber, "New", "Ready"),
                                     waiterFiber), waiterFiber)
    BY DEF Init
  <1>2. q \in Seq(Fiber) /\ Distinct(q) /\ waiterFiber \notin Elems(q)
    <2>2. Cardinality(Fiber) \in Nat
      BY CountAssumption
    <2>3. PICK n \in 0 .. Cardinality(Fiber) : q \in [1 .. n -> User]
      BY DEF HatchOrders
    <2>4. n \in Nat
      BY <2>2, <2>3
    <2>5. q \in Seq(User)
      BY <2>3, <2>4, SeqFromFunction
    <2>6. User \subseteq Fiber
      BY DEF User
    <2>7. q \in [1 .. n -> Fiber]
      BY <2>3, <2>6
    <2>8. q \in Seq(Fiber)
      BY <2>4, <2>7, SeqFromFunction
    <2>9. waiterFiber \notin Elems(q)
      BY <2>5, ListDomain DEF User
    <2> QED
      BY <2>8, <2>9 DEF HatchOrders
  <1> DEFINE st == [f \in Context |-> IF f = workerFiber THEN "Ready"
                                      ELSE IF f = waiterFiber THEN "Suspended"
                                      ELSE IF f \in Elems(q) THEN "New"
                                      ELSE "Uninitialized"]
             nx == [f \in Context |-> IF f = waiterFiber THEN "New" ELSE "Ready"]
             z == push_back(<<>>, waiterFiber)
  <1>3. worker = [state |-> st, stateNext |-> nx, runnable |-> q, suspended |-> z,
                  current |-> workerFiber, failed |-> FALSE]
    <2> USE WaiterAssumption, WorkerAssumption
    <2> DEFINE s0 == [f \in Context |-> IF f = workerFiber THEN "Ready"
                                        ELSE IF f \in Elems(q) THEN "New"
                                        ELSE "Uninitialized"]
               s1 == [s0 EXCEPT ![waiterFiber] = "New"]
               s2 == [s1 EXCEPT ![waiterFiber] = "Suspended"]
               n0 == [f \in Context |-> "Ready"]
               n1 == [n0 EXCEPT ![waiterFiber] = "Ready"]
               n2 == [n1 EXCEPT ![waiterFiber] = "New"]
    <2>1. s2 = st /\ n2 = nx /\ s1[waiterFiber] = "New" /\ s2[waiterFiber] = "Suspended"
      BY Zenon DEF Context
    <2>2. PICK w : w = NewWorker(q)
      OBVIOUS
    <2>3. w = [state |-> s0, stateNext |-> n0, runnable |-> q, suspended |-> <<>>,
               current |-> workerFiber, failed |-> FALSE]
      BY <2>2 DEF NewWorker
    <2>4. PICK a : a = Become(w, waiterFiber, "New", "Ready")
      OBVIOUS
    <2> HIDE DEF s0, n0, st, nx
    <2>5. a = [state |-> s1, stateNext |-> n1, runnable |-> q, suspended |-> <<>>,
               current |-> workerFiber, failed |-> FALSE]
      BY <2>3, <2>4, Zenon DEF Become
    <2>6. PICK b : b = fiberSuspend(a, waiterFiber)
      OBVIOUS
    <2> HIDE DEF s1, n1
    <2>7. b = Become(a, waiterFiber, "Suspended", "New")
      BY <2>1, <2>5, <2>6 DEF fiberSuspend
    <2>8. b = [state |-> s2, stateNext |-> n2, runnable |-> q, suspended |-> <<>>,
               current |-> workerFiber, failed |-> FALSE]
      BY <2>5, <2>7, Zenon DEF Become
    <2>9. worker = add(b, waiterFiber)
      BY <1>1, <2>2, <2>4, <2>6
    <2> HIDE DEF s2, n2
    <2> QED
      BY <2>1, <2>8, <2>9, Zenon DEF add, AddTo
  <1>4. z \in Seq(Fiber) /\ Distinct(z) /\ Elems(z) = {waiterFiber}
    <2>1. <<>> \in Seq(Fiber) /\ Distinct(<<>>) /\ Elems(<<>>) = {}
      BY DEF Distinct, Elems
    <2>2. PICK n \in Seq(Fiber) : n = <<>>
      BY <2>1, Zenon
    <2>3. push_back(n, waiterFiber) \in Seq(Fiber) /\ Distinct(push_back(n, waiterFiber))
          /\ Elems(push_back(n, waiterFiber)) = Elems(n) \cup {waiterFiber}
      <3>1. Distinct(n) /\ waiterFiber \notin Elems(n) /\ waiterFiber \in Fiber
        BY <2>1, <2>2, WaiterAssumption
      <3> QED
        BY <3>1, PushBack
    <2>4. z = push_back(n, waiterFiber)
      BY <2>2
    <2>5. Elems(n) \cup {waiterFiber} = {waiterFiber}
      BY <2>1, <2>2
    <2> HIDE DEF z
    <2> QED
      BY <2>3, <2>4, <2>5
  <1> HIDE DEF z
  <1>5. st \in [Context -> State] /\ nx \in [Context -> State]
    BY DEF State
  <1>6. /\ st[workerFiber] = "Ready" /\ st[waiterFiber] = "Suspended" /\ nx[waiterFiber] = "New"
        /\ \A f \in User : /\ st[f] = IF f \in Elems(q) THEN "New" ELSE "Uninitialized"
                           /\ nx[f] = "Ready"
    BY WaiterAssumption, WorkerAssumption DEF User, Context
  <1> HIDE DEF st, nx
  <1>7. /\ worker.state = st /\ worker.stateNext = nx /\ worker.runnable = q
        /\ worker.suspended = z /\ worker.current = workerFiber /\ worker.failed = FALSE
        /\ worker \in WorkerType
    BY <1>2, <1>3, <1>4, <1>5 DEF WorkerType, Context
  <1>8. QueuesMatchStates(worker)
    BY <1>2, <1>4, <1>6, <1>7 DEF QueuesMatchStates, User
  <1>9. AllWait(worker, Sleepers(waiting)) /\ OneEach(waiting)
    BY <1>6, <1>7 DEF AllWait, Sleepers, OneEach, Init, User
  <1>10. /\ WaiterIsLast(worker) /\ CurrentRuns(worker) /\ Serves(worker, waiting # {})
         /\ worker.current \notin Fiber
    BY <1>6, <1>7, WaiterAssumption, WorkerAssumption
    DEF WaiterIsLast, CurrentRuns, Serves, Init
  <1>11. WaiterTypeOK /\ wnow <= now /\ SleepsAlone
    BY <1>7 DEF WaiterTypeOK, SleepsAlone, Init
  <1>12. Sound(worker, waiting, pc)
    BY <1>8, <1>9, <1>10 DEF Sound, Matched
  <1>13. CanStart
    BY <1>6, <1>7 DEF CanStart, Init, User
  <1> QED
    BY <1>11, <1>12, <1>13 DEF WaiterInv

\* What a fiber finds when it gets the processor, and leaves to the others.
InOrder(w, W, busy) ==
    /\ w \in WorkerType /\ W \subseteq User /\ ~w.failed
    /\ Matched(w, W) /\ CurrentRuns(w) /\ Serves(w, busy)
    /\ w.state[workerFiber] = "Running" \/ w.current \in Fiber

\* yield() of a fiber.
LEMMA YieldKeeps ==
    ASSUME NEW w, NEW W, NEW busy, InOrder(w, W, busy), w.current \in Fiber,
           NEW up \in BOOLEAN, NEW v, v = schedule(w, up)
    PROVE  InOrder(v, W, busy) /\ WaiterIsLast(v) /\ LiveOn(w, v, Fiber)
  <1>1. CanSwitch(w, up) /\ w.state[w.current] = "Running"
    BY DEF CanSwitch, InOrder, CurrentRuns
  <1> QED
    BY <1>1, GiveWay DEF InOrder

\* yieldTo() another fiber, or itself.
LEMMA YieldToKeeps ==
    ASSUME NEW w, NEW W, NEW busy, InOrder(w, W, busy), w.current \in Fiber,
           NEW g \in User, g \in Elems(w.runnable), w.state[g] # "Dead",
           NEW up \in BOOLEAN, NEW v, v = scheduleTo(w, g, up)
    PROVE  InOrder(v, W, busy) /\ WaiterIsLast(v)
  BY GiveWayTo DEF InOrder

\* The end of a fiber.
LEMMA ExitKeeps ==
    ASSUME NEW w, NEW W, NEW busy, InOrder(w, W, busy), NEW f \in User, w.current = f,
           NEW up \in BOOLEAN, NEW v, v = exit(w, f, up)
    PROVE  /\ InOrder(v, W, busy) /\ WaiterIsLast(v)
           /\ LiveOn(w, v, Fiber \ {f})
  <1>1. PICK k : k = kill(w, f)
    OBVIOUS
  <1>2. f \in Fiber /\ f \in Context /\ f # waiterFiber
    BY DEF User, Context
  <1>3. /\ k \in WorkerType /\ QueuesMatchStates(k)
        /\ k.failed = w.failed /\ k.current = w.current /\ k.suspended = w.suspended
        /\ k.runnable = w.runnable
        /\ k.state = [w.state EXCEPT ![f] = "Dead"]
    BY <1>1, <1>2, KillLemma DEF InOrder, Matched
  <1>4. k.state[f] = "Dead" /\ \A g \in Context : g # f => k.state[g] = w.state[g]
    BY <1>2, <1>3 DEF InOrder, WorkerType
  <1>5. Matched(k, W)
    BY <1>2, <1>3, <1>4 DEF InOrder, Matched, AllWait, Context, User
  <1>6. Serves(k, busy)
    BY <1>2, <1>3, <1>4, WaiterAssumption DEF InOrder, Serves, Context
  <1>7. CanSwitch(k, up)
    BY <1>2, <1>3 DEF CanSwitch
  <1>8. v = schedule(k, up)
    BY <1>1 DEF exit
  <1>9. InOrder(v, W, busy) /\ WaiterIsLast(v) /\ LiveOn(k, v, Fiber)
    BY <1>2, <1>3, <1>4, <1>5, <1>6, <1>7, <1>8, GiveWay, Zenon DEF InOrder
  <1> QED
    BY <1>4, <1>9 DEF LiveOn, Context

\* Fiber::kill() of another fiber.
LEMMA KillKeeps ==
    ASSUME NEW w, NEW W, NEW busy, InOrder(w, W, busy), NEW g \in User, w.current # g,
           w.state[g] # "Uninitialized", NEW v, v = kill(w, g)
    PROVE  InOrder(v, W, busy) /\ v.current = w.current
  <1>2. g \in Fiber /\ g \in Context /\ g # waiterFiber /\ g # workerFiber
    BY WorkerAssumption DEF User, Context
  <1>3. /\ v \in WorkerType /\ QueuesMatchStates(v)
        /\ v.failed = w.failed /\ v.current = w.current /\ v.suspended = w.suspended
        /\ v.runnable = w.runnable
        /\ v.state = [w.state EXCEPT ![g] = "Dead"]
    BY <1>2, KillLemma DEF InOrder, Matched
  <1>4. v.state[g] = "Dead" /\ \A h \in Context : h # g => v.state[h] = w.state[h]
    BY <1>2, <1>3 DEF InOrder, WorkerType
  <1>5. Matched(v, W)
    BY <1>2, <1>3, <1>4 DEF InOrder, Matched, AllWait, Context, User
  <1>6. Serves(v, busy)
    BY <1>2, <1>3, <1>4, WaiterAssumption DEF InOrder, Serves, Context
  <1>7. CurrentRuns(v)
    BY <1>2, <1>3, <1>4 DEF InOrder, CurrentRuns, Context
  <1> QED
    BY <1>2, <1>3, <1>4, <1>5, <1>6, <1>7 DEF InOrder, Context

\* A new fiber.
LEMMA HatchKeeps ==
    ASSUME NEW w, NEW W, NEW busy, InOrder(w, W, busy), NEW f \in User, w.current = f,
           NEW g \in User, w.state[g] = "Uninitialized", NEW v, v = hatch(w, g)
    PROVE  InOrder(v, W, busy) /\ v.current = w.current
  <1>1. g \in Fiber /\ g # waiterFiber /\ f \in Fiber /\ f # waiterFiber /\ f # g
    BY DEF User, InOrder, CurrentRuns
  <1>2. /\ v \in WorkerType /\ QueuesMatchStates(v)
        /\ v.failed = w.failed /\ v.current = w.current /\ v.suspended = w.suspended
        /\ Elems(v.runnable) = Elems(w.runnable) \cup {g}
        /\ v.state[g] = "New"
        /\ \A h \in Context : h # g => v.state[h] = w.state[h]
    BY <1>1, HatchLemma DEF InOrder, Matched
  <1>3. Matched(v, W)
    BY <1>1, <1>2 DEF InOrder, Matched, AllWait, Context, User
  <1>4. Serves(v, busy) /\ CurrentRuns(v)
    BY <1>1, <1>2, WaiterAssumption DEF InOrder, Serves, CurrentRuns, Context
  <1> QED
    BY <1>1, <1>2, <1>3, <1>4 DEF InOrder

\* Worker::resume().
LEMMA ResumeKeeps ==
    ASSUME NEW w, NEW W, NEW busy, InOrder(w, W, busy), NEW f \in User, w.current = f,
           NEW g \in User, NEW v, v = resume(w, g)
    PROVE  InOrder(v, W, busy) /\ v.current = w.current
  <1>1. g \in Fiber /\ g # waiterFiber /\ f \in Fiber /\ f # waiterFiber
    BY DEF User
  <1>2. CASE w.state[g] # "Suspended"
    BY <1>2 DEF resume
  <1>3. CASE w.state[g] = "Suspended"
    <2>1. /\ v \in WorkerType /\ QueuesMatchStates(v)
          /\ v.failed = w.failed /\ v.current = w.current
          /\ Elems(v.runnable) = Elems(w.runnable) \cup {g}
          /\ Elems(v.suspended) = Elems(w.suspended) \ {g}
          /\ v.state[g] \in {"New", "Ready"}
          /\ \A h \in Context : h # g => v.state[h] = w.state[h]
      BY <1>1, <1>3, ResumeLemma DEF InOrder, Matched
    <2>2. f # g
      BY <1>1, <1>3 DEF InOrder, CurrentRuns
    <2>3. Matched(v, W)
      BY <1>1, <1>3, <2>1 DEF InOrder, Matched, AllWait, Context, User
    <2>4. Serves(v, busy) /\ CurrentRuns(v)
      BY <1>1, <2>1, <2>2, WaiterAssumption DEF InOrder, Serves, CurrentRuns, Context
    <2> QED
      BY <1>1, <2>1, <2>3, <2>4 DEF InOrder
  <1> QED
    BY <1>2, <1>3

\* Worker::suspend() of a fiber that does not wait: another one, or itself.
LEMMA SuspendKeeps ==
    ASSUME NEW w, NEW W, NEW busy, InOrder(w, W, busy), NEW f \in User, w.current = f,
           NEW g \in User, w.state[g] # "Waiting",
           NEW up \in BOOLEAN, NEW v, v = suspend(w, g, up)
    PROVE  InOrder(v, W, busy) /\ WaiterIsLast(v)
  <1>1. g \in Fiber /\ g # waiterFiber /\ f \in Fiber /\ f # waiterFiber
    BY DEF User
  <1>2. CASE w.state[g] \notin {"New", "Ready", "Running"}
    BY <1>1, <1>2 DEF suspend, WaiterIsLast
  <1>3. CASE w.state[g] \in {"New", "Ready", "Running"}
    <2>1. PICK u : u = add(fiberSuspend(release(w, g), g), g)
      OBVIOUS
    <2>2. /\ u \in WorkerType /\ QueuesMatchStates(u)
          /\ u.failed = w.failed /\ u.current = w.current
          /\ Elems(u.runnable) = Elems(w.runnable) \ {g}
          /\ Elems(u.suspended) = Elems(w.suspended) \cup {g}
          /\ u.state[g] = "Suspended"
          /\ \A h \in Context : h # g => u.state[h] = w.state[h]
      BY <1>1, <1>3, <2>1, SuspendLemma DEF InOrder, Matched
    <2>3. Matched(u, W)
      BY <1>1, <1>3, <2>2 DEF InOrder, Matched, AllWait, Context, User
    <2>4. Serves(u, busy)
      BY <1>1, <2>2, WaiterAssumption DEF InOrder, Serves, Context
    <2>5. CASE w.state[g] = "Running"
      <3>1. g = f
        BY <1>1, <2>5 DEF InOrder, Matched, QueuesMatchStates
      <3>2. v = schedule(u, up)
        BY <2>1, <2>5 DEF suspend
      <3>3. CanSwitch(u, up)
        BY <1>1, <2>2 DEF CanSwitch
      <3> QED
        BY <1>1, <2>2, <2>3, <2>4, <3>1, <3>2, <3>3, GiveWay DEF InOrder
    <2>6. CASE w.state[g] \in {"New", "Ready"}
      <3>1. g # f
        BY <1>1, <2>6 DEF InOrder, CurrentRuns
      <3>2. v = u
        BY <2>1, <2>6 DEF suspend
      <3>3. CurrentRuns(u) /\ WaiterIsLast(u)
        BY <1>1, <2>2, <3>1 DEF InOrder, CurrentRuns, WaiterIsLast, Context
      <3> QED
        BY <1>1, <2>2, <2>3, <2>4, <3>2, <3>3 DEF InOrder
    <2> QED
      BY <1>3, <2>5, <2>6
  <1> QED
    BY <1>2, <1>3

\* A fiber goes to wait, before it gives way.
LEMMA NapKeeps ==
    ASSUME NEW w, NEW W, NEW busy, InOrder(w, W, busy), NEW f \in User, w.current = f,
           NEW n, n = nap(release(w, f), f) \/ n = release(nap(w, f), f)
    PROVE  /\ n \in WorkerType /\ ~n.failed /\ Matched(n, W \cup {f}) /\ Serves(n, busy)
           /\ n.current = f /\ n.state[f] = "Waiting"
           /\ f \notin W
           /\ \A g \in Fiber \ {f} : n.state[g] = w.state[g]
  <1>1. f \in Fiber /\ f # waiterFiber /\ f \in Context
    BY DEF User, Context
  <1>2. /\ n \in WorkerType /\ QueuesMatchStates(n)
        /\ n.failed = w.failed /\ n.current = w.current /\ n.suspended = w.suspended
        /\ Elems(n.runnable) = Elems(w.runnable) \ {f}
        /\ n.state = [w.state EXCEPT ![f] = "Waiting"]
    BY <1>1, NapLemma DEF InOrder, Matched
  <1>3. n.state[f] = "Waiting" /\ \A h \in Context : h # f => n.state[h] = w.state[h]
    BY <1>1, <1>2 DEF InOrder, WorkerType
  <1>4. f \notin Elems(w.suspended) /\ f \notin W
    BY <1>1 DEF InOrder, CurrentRuns, Matched, QueuesMatchStates, AllWait
  <1>5. AllWait(n, W \cup {f})
    BY <1>1, <1>2, <1>3, <1>4 DEF InOrder, Matched, AllWait, Context, User
  <1>6. Serves(n, busy)
    BY <1>1, <1>2, <1>3, WaiterAssumption DEF InOrder, Serves, Context
  <1> QED
    BY <1>2, <1>3, <1>4, <1>5, <1>6 DEF InOrder, Matched, Context

\* Synchronizer::block(): the fiber waits, and gives way.
LEMMA BlockKeeps ==
    ASSUME NEW w, NEW W, NEW busy, InOrder(w, W, busy), NEW f \in User, w.current = f,
           NEW n, n = nap(release(w, f), f) \/ n = release(nap(w, f), f),
           NEW up \in BOOLEAN, NEW v, v = schedule(n, up)
    PROVE  /\ InOrder(v, W \cup {f}, busy) /\ WaiterIsLast(v) /\ f \notin W
           /\ Blocks(w, v, f)
  <1>1. /\ n \in WorkerType /\ ~n.failed /\ Matched(n, W \cup {f}) /\ Serves(n, busy)
        /\ n.current = f /\ n.state[f] = "Waiting" /\ f \notin W
        /\ \A g \in Fiber \ {f} : n.state[g] = w.state[g]
    BY NapKeeps
  <1>2. CanSwitch(n, up) /\ W \cup {f} \subseteq User
    BY <1>1 DEF CanSwitch, User, InOrder
  <1>3. InOrder(v, W \cup {f}, busy) /\ WaiterIsLast(v) /\ LiveOn(n, v, Fiber)
    BY <1>1, <1>2, GiveWay DEF InOrder
  <1> QED
    BY <1>1, <1>3 DEF Blocks, LiveOn, User

\* Waiter::wait(), and block_() with a timeout: the fiber waits, and the waiter,
\* which now has something to do, is resumed.
LEMMA WaitKeeps ==
    ASSUME NEW w, NEW W, NEW busy, InOrder(w, W, busy), NEW f \in User, w.current = f,
           NEW n, n = nap(release(w, f), f) \/ n = release(nap(w, f), f),
           NEW up \in BOOLEAN, NEW v, v = schedule(resume(n, waiterFiber), up)
    PROVE  /\ InOrder(v, W \cup {f}, TRUE) /\ WaiterIsLast(v) /\ f \notin W
           /\ Blocks(w, v, f)
  <1>1. /\ f \in Fiber /\ f # waiterFiber /\ waiterFiber \in Fiber
        /\ f \in Context /\ waiterFiber \in Context
    BY WaiterAssumption DEF User, Context
  <1>2. PICK u : u = resume(n, waiterFiber)
    OBVIOUS
  <1>3. /\ n \in WorkerType /\ ~n.failed /\ Matched(n, W \cup {f}) /\ Serves(n, busy)
        /\ n.current = f /\ n.state[f] = "Waiting" /\ f \notin W
        /\ \A g \in Fiber \ {f} : n.state[g] = w.state[g]
    BY NapKeeps
  <1>4. /\ u \in WorkerType /\ QueuesMatchStates(u)
        /\ u.failed = n.failed /\ u.current = n.current
        /\ u.state[waiterFiber] \in {"New", "Ready", "Running"}
        /\ Elems(u.runnable) = Elems(n.runnable) \cup {waiterFiber}
        /\ Elems(u.suspended) = Elems(n.suspended) \ {waiterFiber}
        /\ \A h \in Context : h # waiterFiber => u.state[h] = n.state[h]
    <2>1. CASE n.state[waiterFiber] # "Suspended"
      <3>1. u = n
        BY <2>1, <1>2 DEF resume
      <3>2. n.state[waiterFiber] \in {"New", "Ready", "Running"}
        BY <2>1, <1>3 DEF Serves
      <3>3. waiterFiber \in Elems(n.runnable) /\ waiterFiber \notin Elems(n.suspended)
        BY <3>2, <1>1, <1>3 DEF QueuesMatchStates, Matched
      <3> QED
        BY <3>1, <3>2, <3>3, <1>3 DEF Matched
    <2>2. CASE n.state[waiterFiber] = "Suspended"
      <3>1. n \in WorkerType /\ QueuesMatchStates(n) /\ waiterFiber \in Fiber
        BY <1>1, <1>3 DEF Matched
      <3>2. /\ u \in WorkerType /\ QueuesMatchStates(u)
            /\ u.failed = n.failed /\ u.current = n.current
            /\ Elems(u.runnable) = Elems(n.runnable) \cup {waiterFiber}
            /\ Elems(u.suspended) = Elems(n.suspended) \ {waiterFiber}
            /\ u.state[waiterFiber] \in {"New", "Ready"}
            /\ \A h \in Context : h # waiterFiber => u.state[h] = n.state[h]
        BY <2>2, <3>1, <1>2, ResumeLemma
      <3> QED
        BY <3>2
    <2> QED
      BY <2>1, <2>2
  <1>5. W \cup {f} \subseteq User
    BY DEF InOrder
  <1>6. AllWait(u, W \cup {f})
    <2>1. waiterFiber \notin W \cup {f}
      BY <1>5 DEF User
    <2>2. ASSUME NEW g \in W \cup {f}
          PROVE  /\ u.state[g] \in {"Waiting", "Dead"}
                 /\ g \notin Elems(u.runnable) /\ g \notin Elems(u.suspended)
      <3>1. g # waiterFiber /\ g \in Context
        BY <2>1, <1>5 DEF User, Context
      <3>2. /\ n.state[g] \in {"Waiting", "Dead"}
            /\ g \notin Elems(n.runnable) /\ g \notin Elems(n.suspended)
        BY <1>3 DEF Matched, AllWait
      <3> QED
        BY <3>1, <3>2, <1>4
    <2>3. ASSUME NEW h \in Fiber, u.state[h] = "Waiting"
          PROVE  h \in W \cup {f}
      <3>1. h # waiterFiber /\ n.state[h] = "Waiting"
        BY <2>3, <1>4 DEF Context
      <3> QED
        BY <3>1, <1>3 DEF Matched, AllWait
    <2> QED
      BY <2>2, <2>3 DEF AllWait
  <1>7. Serves(u, TRUE)
    BY <1>4 DEF Serves
  <1>8. CanSwitch(u, up) /\ u.state[u.current] = "Waiting" /\ ~u.failed
    BY <1>1, <1>3, <1>4 DEF CanSwitch
  <1>9. Matched(u, W \cup {f}) /\ v = schedule(u, up)
    BY <1>2, <1>4, <1>6 DEF Matched
  <1>10. InOrder(v, W \cup {f}, TRUE) /\ WaiterIsLast(v) /\ LiveOn(u, v, Fiber)
    BY <1>3, <1>4, <1>5, <1>7, <1>8, <1>9, GiveWay, Zenon DEF InOrder
  <1> QED
    BY <1>1, <1>3, <1>4, <1>10, Zenon DEF Blocks, LiveOn, User, Context

\* The waiter suspends itself when it has nothing to do.
LEMMA WaiterSuspendKeeps ==
    ASSUME NEW w, NEW W, InOrder(w, W, FALSE), w.current = waiterFiber,
           NEW up \in BOOLEAN, NEW v, v = suspend(w, waiterFiber, up)
    PROVE  /\ InOrder(v, W, FALSE) /\ WaiterIsLast(v)
           /\ LiveOn(w, v, User)
  <1>1. waiterFiber \in Fiber /\ w.state[waiterFiber] = "Running"
    BY WaiterAssumption DEF InOrder, CurrentRuns
  <1>2. PICK u : u = add(fiberSuspend(release(w, waiterFiber), waiterFiber), waiterFiber)
    OBVIOUS
  <1>3. /\ u \in WorkerType /\ QueuesMatchStates(u)
        /\ u.failed = w.failed /\ u.current = w.current
        /\ Elems(u.runnable) = Elems(w.runnable) \ {waiterFiber}
        /\ Elems(u.suspended) = Elems(w.suspended) \cup {waiterFiber}
        /\ u.state[waiterFiber] = "Suspended"
        /\ \A h \in Context : h # waiterFiber => u.state[h] = w.state[h]
    BY <1>1, <1>2, SuspendLemma DEF InOrder, Matched
  <1>4. AllWait(u, W)
    BY <1>3 DEF InOrder, Matched, AllWait, Context, User
  <1>5. Serves(u, FALSE) /\ Matched(u, W)
    BY <1>3, <1>4 DEF Serves, Matched
  <1>6. v = schedule(u, up)
    BY <1>1, <1>2 DEF suspend
  <1>7. CanSwitch(u, up) /\ ~u.failed /\ u.state[u.current] = "Suspended"
    BY <1>1, <1>3 DEF CanSwitch, InOrder
  <1>8. InOrder(v, W, FALSE) /\ WaiterIsLast(v) /\ LiveOn(u, v, Fiber)
    BY <1>3, <1>5, <1>6, <1>7, GiveWay, Zenon DEF InOrder
  <1> QED
    BY <1>3, <1>8, Zenon DEF LiveOn, User, Context

\* A fiber that waits is woken up, and put first or last in the queue.
LEMMA WakeKeeps ==
    ASSUME NEW w, NEW W, NEW busy, InOrder(w, W, busy), w.current \in Fiber, NEW f \in W,
           NEW v, v = add(wakeup(w, f), f) \/ v = addFront(wakeup(w, f), f)
    PROVE  /\ InOrder(v, W \ {f}, busy) /\ v.current = w.current
           /\ Wakes(w, v, f)
           /\ v = addFront(wakeup(w, f), f) /\ WaiterIsLast(w) => WaiterIsLast(v)
  <1>1. /\ f \in Fiber /\ f # waiterFiber /\ f \in Context
        /\ w.state[f] \in {"Waiting", "Dead"}
        /\ f \notin Elems(w.runnable) /\ f \notin Elems(w.suspended)
    BY DEF InOrder, Matched, AllWait, User, Context
  <1>2. f # w.current /\ f # workerFiber
    BY <1>1, WorkerAssumption DEF InOrder, CurrentRuns
  <1>3. /\ v \in WorkerType /\ QueuesMatchStates(v)
        /\ v.failed = w.failed /\ v.current = w.current /\ v.suspended = w.suspended
        /\ Elems(v.runnable) = Elems(w.runnable) \cup {f}
        /\ w.state[f] = "Waiting" => v.state[f] = "Ready"
        /\ w.state[f] = "Dead" => v.state[f] = "Dead"
        /\ \A g \in Context : g # f => v.state[g] = w.state[g]
    BY <1>1, WakeLemma DEF InOrder, Matched
  <1>4. AllWait(v, W \ {f})
    <2>1. ASSUME NEW g \in W \ {f}
          PROVE  /\ v.state[g] \in {"Waiting", "Dead"}
                 /\ g \notin Elems(v.runnable) /\ g \notin Elems(v.suspended)
      BY <1>1, <1>3 DEF InOrder, Matched, AllWait, Context, User
    <2>2. ASSUME NEW h \in Fiber, v.state[h] = "Waiting"
          PROVE  h \in W \ {f}
      <3>1. h # f /\ w.state[h] = "Waiting"
        BY <2>2, <1>1, <1>3 DEF Context
      <3> QED
        BY <3>1 DEF InOrder, Matched, AllWait
    <2> QED
      BY <2>1, <2>2 DEF AllWait
  <1>5. ASSUME v = addFront(wakeup(w, f), f), WaiterIsLast(w), v.current = waiterFiber
        PROVE  v.runnable # <<>> /\ v.runnable[Len(v.runnable)] = waiterFiber
    <2>1. /\ w.runnable \in Seq(Fiber) /\ w.runnable # <<>>
          /\ w.runnable[Len(w.runnable)] = waiterFiber
      BY <1>3, <1>5 DEF InOrder, WaiterIsLast, WorkerType
    <2>2. v.runnable = push_front(w.runnable, f)
      BY <1>1, <1>5, WakeFirst DEF InOrder, Matched
    <2>3. v.runnable # <<>>
      BY <1>3 DEF Elems
    <2> QED
      BY <1>1, <2>1, <2>2, <2>3, PushFrontLast
  <1>6. Serves(v, busy) /\ CurrentRuns(v)
    BY <1>1, <1>2, <1>3, WaiterAssumption DEF InOrder, Serves, CurrentRuns, Context
  <1>7. W \ {f} \subseteq User /\ Matched(v, W \ {f}) /\ ~v.failed
    BY <1>3, <1>4 DEF InOrder, Matched
  <1>8. InOrder(v, W \ {f}, busy)
    BY <1>2, <1>3, <1>6, <1>7 DEF InOrder, Context
  <1> QED
    BY <1>3, <1>5, <1>8 DEF Wakes, WaiterIsLast, Context

-----------------------------------------------------------------------------
(* Waiter *)

\* A fiber that runs finds everything in order.
LEMMA RunsLemma ==
    ASSUME WaiterInv, NEW f \in Fiber, Runs(f)
    PROVE  /\ InOrder(worker, Sleepers(waiting), waiting # {})
           /\ WaiterIsLast(worker) /\ OneEach(waiting) /\ waiting \subseteq Waitable
           /\ worker.current = f /\ worker.state[f] = "Running"
           /\ pc.worker = "loop" /\ timeUp \in BOOLEAN
  <1>1. /\ worker \in WorkerType /\ waiting \subseteq Waitable /\ ~worker.failed
        /\ Matched(worker, Sleepers(waiting)) /\ OneEach(waiting)
        /\ CurrentRuns(worker) /\ WaiterIsLast(worker)
        /\ worker.current = f /\ pc.worker = "loop" /\ Serves(worker, waiting # {})
    BY DEF WaiterInv, Runs, Sound, WaiterTypeOK
  <1>2. worker.state[f] = "Running"
    BY <1>1 DEF CurrentRuns
  <1>3. Sleepers(waiting) \subseteq User
    BY <1>1 DEF Sleepers, Waitable
  <1> QED
    BY <1>1, <1>2, <1>3 DEF InOrder, timeUp

\* The step of a user fiber leaves the clock, and what the context of
\* Worker::run() and the waiter are doing.
LEMMA FiberStepLemma ==
    ASSUME WaiterInv, NEW f \in User, Runs(f), UNCHANGED <<now, runEnd, pc, wnow>>,
           InOrder(worker', Sleepers(waiting'), waiting' # {}), WaiterIsLast(worker'),
           OneEach(waiting'), waiting' \subseteq Waitable
    PROVE  WaiterInv' /\ (CanStart => CanStart')
  <1>1. pc.worker = "loop" /\ pc.waiter # "sleep"
    BY DEF WaiterInv, SleepsAlone, Runs, Sound, User
  <1>2. WaiterTypeOK' /\ (wnow <= now)' /\ SleepsAlone'
    BY <1>1 DEF WaiterInv, WaiterTypeOK, SleepsAlone, InOrder
  <1>3. Sound(worker', waiting', pc')
    BY <1>1 DEF Sound, InOrder
  <1>4. CanStart => CanStart'
    BY <1>1, WorkerAssumption DEF CanStart, InOrder
  <1> QED
    BY <1>2, <1>3, <1>4 DEF WaiterInv

\* A waitable is put in the list, or taken out of it.
LEMMA SleepersLemma ==
    ASSUME NEW s, NEW e, OneEach(s)
    PROVE  /\ Sleepers(s \cup {e}) = Sleepers(s) \cup {e.fiber}
           /\ e.fiber \notin Sleepers(s) => OneEach(s \cup {e})
           /\ e \in s => e.fiber \in Sleepers(s) /\ Sleepers(s \ {e}) = Sleepers(s) \ {e.fiber}
           /\ OneEach(s \ {e})
  BY DEF Sleepers, OneEach

\* The step of the waiter leaves the clock and what Worker::run() is doing.
LEMMA WaiterStepLemma ==
    ASSUME WaiterInv, Runs(waiterFiber), UNCHANGED <<now, runEnd>>,
           wnow' \in {wnow, now}, NEW x \in {"top", "expire", "sleep"},
           pc' = [pc EXCEPT !.waiter = x],
           InOrder(worker', Sleepers(waiting'), waiting' # {}), WaiterIsLast(worker'),
           OneEach(waiting'), waiting' \subseteq Waitable, SleepsAlone'
    PROVE  WaiterInv' /\ (CanStart => CanStart')
  <1>1. pc.worker = "loop"
    BY RunsLemma, WaiterAssumption
  <1>2. /\ pc'.worker = "loop"
        /\ pc' \in [worker : {"out", "loop", "schedule", "dtor", "gone"},
                    waiter : {"top", "expire", "sleep"}]
    BY <1>1 DEF WaiterInv, WaiterTypeOK
  <1>3. WaiterTypeOK' /\ (wnow <= now)'
    BY <1>2 DEF WaiterInv, WaiterTypeOK, InOrder
  <1>4. Sound(worker', waiting', pc')
    BY <1>2 DEF Sound, InOrder
  <1>5. CanStart => CanStart'
    BY <1>2, WorkerAssumption DEF CanStart, InOrder
  <1> QED
    BY <1>3, <1>4, <1>5 DEF WaiterInv

\* PolledWaiting::poll() computes a time.
LEMMA NextPollLemma ==
    ASSUME NEW t \in Nat, NEW i \in Nat, NEW at \in Nat
    PROVE  NextPoll(t, i, at) \in Nat
  BY DEF NextPoll

\* The steps of Waiter::entry().
LEMMA WaiterNextKeeps ==
    ASSUME WaiterInv, WaiterNext
    PROVE  WaiterInv' /\ (CanStart => CanStart')
  <1>1. Runs(waiterFiber) /\ UNCHANGED <<now, runEnd>>
    BY DEF WaiterNext, WaiterTop, WaiterExpire, Expire, WaiterRepoll, WaiterSuspend,
           WaiterSchedule, WaiterSleep, WaiterInterrupted
  <1>2. /\ InOrder(worker, Sleepers(waiting), waiting # {})
        /\ WaiterIsLast(worker) /\ OneEach(waiting) /\ waiting \subseteq Waitable
        /\ worker.current = waiterFiber /\ worker.state[waiterFiber] = "Running"
        /\ pc.worker = "loop" /\ timeUp \in BOOLEAN /\ waiterFiber \in Fiber
    BY <1>1, RunsLemma, WaiterAssumption
  <1>3. pc.waiter \in {"top", "expire", "sleep"} /\ pc = [pc EXCEPT !.waiter = pc.waiter]
        /\ \A x : [pc EXCEPT !.waiter = x].waiter = x
    BY DEF WaiterInv, WaiterTypeOK
  <1>4. CASE WaiterTop
    <2>1. pc' = [pc EXCEPT !.waiter = "expire"] /\ UNCHANGED <<worker, waiting>> /\ wnow' = now
      BY <1>4 DEF WaiterTop
    <2>2. SleepsAlone'
      BY <2>1, <1>3 DEF SleepsAlone
    <2> QED
      BY <1>1, <1>2, <2>1, <2>2, WaiterStepLemma
  <1>5. CASE WaiterExpire
    <2>1. PICK e \in waiting : Expire(e) /\ worker' = WakeFront(worker, e)
      BY <1>5 DEF WaiterExpire
    <2>2. UNCHANGED <<pc, wnow>> /\ pc.waiter = "expire" /\ waiting' = waiting \ {e}
      BY <2>1 DEF Expire
    <2>3. /\ InOrder(worker', Sleepers(waiting'), waiting' # {}) /\ WaiterIsLast(worker')
          /\ OneEach(waiting') /\ waiting' \subseteq Waitable
      <3>1. e.fiber \in Sleepers(waiting) /\ Sleepers(waiting') = Sleepers(waiting) \ {e.fiber}
            /\ OneEach(waiting') /\ waiting' \subseteq Waitable
        BY <1>2, <2>2, SleepersLemma, Zenon
      <3>2. worker' = addFront(wakeup(worker, e.fiber), e.fiber)
        BY <2>1 DEF WakeFront
      <3>3. InOrder(worker', Sleepers(waiting'), waiting # {}) /\ WaiterIsLast(worker')
        BY <1>2, <3>1, <3>2, WakeKeeps
      <3> QED
        BY <3>1, <3>3, <2>2 DEF InOrder, Serves
    <2>4. SleepsAlone'
      BY <2>2 DEF SleepsAlone
    <2>5. pc' = [pc EXCEPT !.waiter = "expire"]
      BY <2>2, <1>3
    <2> QED
      BY <1>1, <2>2, <2>3, <2>4, <2>5, WaiterStepLemma, Zenon
  <1>6. CASE WaiterRepoll
    <2>1. PICK e \in Expired :
             waiting' = (waiting \ {e}) \cup
                        {[e EXCEPT !.timeout = NextPoll(e.timeout, e.interval, wnow)]}
      BY <1>6 DEF WaiterRepoll
    <2>2. UNCHANGED <<worker, pc, wnow>> /\ pc.waiter = "expire"
      BY <1>6 DEF WaiterRepoll
    <2>3. PICK d : d = [e EXCEPT !.timeout = NextPoll(e.timeout, e.interval, wnow)]
      BY Zenon
    <2>4. e \in waiting /\ e \in Waitable
      BY DEF Expired, Earliest, WaiterInv, WaiterTypeOK
    <2>5. NextPoll(e.timeout, e.interval, wnow) \in Nat
      BY <2>4, NextPollLemma, Zenon DEF Waitable, WaiterInv, WaiterTypeOK
    <2>6. d \in Waitable /\ d.fiber = e.fiber
      BY <2>3, <2>4, <2>5 DEF Waitable
    <2>7. waiting' = (waiting \ {e}) \cup {d}
      BY <2>1, <2>3
    <2>8. /\ Sleepers(waiting') = Sleepers(waiting) /\ OneEach(waiting')
          /\ waiting # {} /\ waiting' # {} /\ waiting' \subseteq Waitable
      BY <1>2, <2>4, <2>6, <2>7 DEF Sleepers, OneEach
    <2>9. InOrder(worker', Sleepers(waiting'), waiting' # {}) /\ WaiterIsLast(worker')
      BY <1>2, <2>2, <2>8
    <2>10. SleepsAlone' /\ pc' = [pc EXCEPT !.waiter = "expire"]
      BY <2>2, <1>3 DEF SleepsAlone
    <2> QED
      BY <1>1, <2>2, <2>8, <2>9, <2>10, WaiterStepLemma, Zenon
  <1>7. CASE WaiterSuspend
    <2>1. /\ waiting = {} /\ worker' = suspend(worker, waiterFiber, timeUp)
          /\ pc' = [pc EXCEPT !.waiter = "top"] /\ UNCHANGED <<waiting, wnow>>
      BY <1>7 DEF WaiterSuspend
    <2>2. (waiting # {}) = FALSE /\ InOrder(worker, Sleepers(waiting), FALSE)
      BY <1>2, <2>1, Zenon
    <2>9. InOrder(worker', Sleepers(waiting), FALSE) /\ WaiterIsLast(worker')
      BY <1>2, <2>1, <2>2, WaiterSuspendKeeps, Zenon
    <2>10. SleepsAlone'
      BY <2>1, <1>3 DEF SleepsAlone
    <2> QED
      BY <1>1, <1>2, <2>1, <2>2, <2>9, <2>10, WaiterStepLemma, Zenon
  <1>8. CASE WaiterSchedule
    <2>1. PICK x \in {"top", "sleep"} :
             /\ x = IF didSchedule(worker, timeUp) THEN "top" ELSE "sleep"
             /\ pc' = [pc EXCEPT !.waiter = x]
             /\ waiting # {} /\ worker' = schedule(worker, timeUp) /\ UNCHANGED <<waiting, wnow>>
      BY <1>8 DEF WaiterSchedule
    <2>2. InOrder(worker', Sleepers(waiting), waiting # {}) /\ WaiterIsLast(worker')
      BY <1>2, <2>1, YieldKeeps
    <2>3. SleepsAlone'
      <3>1. CASE x = "top"
        BY <3>1, <2>1, <1>3 DEF SleepsAlone
      <3>2. CASE x = "sleep"
        <4>1. worker'.current = worker.current /\ (timeUp \/ Reaped(worker) = {})
          BY <3>2, <2>1 DEF didSchedule
        <4>2. /\ worker'.current = waiterFiber /\ ~worker'.failed
              /\ worker'.runnable \in Seq(Fiber) /\ worker'.runnable # <<>>
              /\ worker'.runnable[Len(worker'.runnable)] = waiterFiber
          BY <1>2, <2>2, <4>1 DEF InOrder, WaiterIsLast, WorkerType
        <4>3. /\ worker.runnable # <<>> /\ front(worker.runnable) = waiterFiber
              /\ ~timeUp
          BY <1>2, <2>1, <4>1, <4>2, ScheduleOrder DEF InOrder, Matched
        <4>4. /\ worker.runnable \in Seq(Fiber) /\ Distinct(worker.runnable)
              /\ worker.runnable[Len(worker.runnable)] = waiterFiber
          BY <1>2 DEF InOrder, WaiterIsLast, WorkerType, Matched, QueuesMatchStates
        <4>5. worker.runnable = <<waiterFiber>>
          BY <4>3, <4>4, FirstIsLast
        <4>6. Scheduled(worker, worker')
          BY <1>2, <2>1, <4>2, ScheduleLemma DEF InOrder, Matched
        <4>7. \A f \in Elems(worker'.runnable) : f = waiterFiber
          BY <4>5, <4>6 DEF Scheduled, Elems
        <4>8. front(worker'.runnable) = waiterFiber /\ Distinct(worker'.runnable)
          BY <4>2, <4>6, <4>7, PopFront, Zenon DEF Scheduled, QueuesMatchStates
        <4>9. worker'.runnable = <<waiterFiber>>
          BY <4>2, <4>8, FirstIsLast
        <4> QED
          BY <2>1, <4>2, <4>9 DEF SleepsAlone
      <3> QED
        BY <3>1, <3>2
    <2> QED
      BY <1>1, <1>2, <2>1, <2>2, <2>3, WaiterStepLemma
  <1>9. CASE WaiterSleep \/ WaiterInterrupted
    <2>1. pc' = [pc EXCEPT !.waiter = "top"] /\ UNCHANGED <<worker, waiting, wnow>>
      BY <1>9 DEF WaiterSleep, WaiterInterrupted
    <2>2. SleepsAlone'
      BY <2>1, <1>3 DEF SleepsAlone
    <2> QED
      BY <1>1, <1>2, <2>1, <2>2, WaiterStepLemma
  <1> QED
    BY <1>4, <1>5, <1>6, <1>7, <1>8, <1>9 DEF WaiterNext

\* The step of the context of Worker::run() leaves what the waiter is doing.
LEMMA WorkerStepLemma ==
    ASSUME WaiterInv, Runs(workerFiber), UNCHANGED <<waiting, now, wnow>>, runEnd' \in Nat,
           NEW x \in {"out", "loop", "schedule", "dtor", "gone"},
           pc' = [pc EXCEPT !.worker = x], worker' \in WorkerType,
           ~worker'.failed => Sound(worker', waiting, [worker |-> x, waiter |-> pc.waiter])
    PROVE  WaiterInv'
  <1>1. pc.waiter # "sleep"
    BY WaiterAssumption, WorkerAssumption DEF WaiterInv, SleepsAlone, Runs
  <1>2. /\ pc' \in [worker : {"out", "loop", "schedule", "dtor", "gone"},
                    waiter : {"top", "expire", "sleep"}]
        /\ pc' = [worker |-> x, waiter |-> pc.waiter]
        /\ pc'.waiter # "sleep"
    BY <1>1 DEF WaiterInv, WaiterTypeOK
  <1>3. WaiterTypeOK' /\ (wnow <= now)' /\ SleepsAlone'
    BY <1>2 DEF WaiterInv, WaiterTypeOK, SleepsAlone
  <1> QED
    BY <1>2, <1>3 DEF WaiterInv

\* The steps of Worker::run() and ~Worker().
LEMMA WorkerNextKeeps ==
    ASSUME WaiterInv, WorkerNext
    PROVE  WaiterInv' /\ (Forever /\ CanStart => CanStart')
  <1>1. /\ Runs(workerFiber) /\ worker \in WorkerType /\ ~worker.failed
        /\ worker.current = workerFiber /\ workerFiber \notin Fiber
        /\ Sound(worker, waiting, pc) /\ waiting \subseteq Waitable
        /\ UNCHANGED <<waiting, now, wnow>>
        /\ runEnd \in Nat /\ now \in Nat
    BY WorkerAssumption
    DEF WorkerNext, RunEnter, RunLoop, RunSchedule, DestroySuspended, DestroyRunnable,
        Destroyed, Runs, WaiterInv, WaiterTypeOK
  <1>2. pc = [worker |-> pc.worker, waiter |-> pc.waiter]
    BY DEF WaiterInv, WaiterTypeOK
  <1>3. \A x : [pc EXCEPT !.worker = x] = [worker |-> x, waiter |-> pc.waiter]
    BY DEF WaiterInv, WaiterTypeOK
  <1>4. ASSUME NEW x \in {"out", "loop", "schedule"}, pc.worker \notin {"dtor", "gone"}
        PROVE  Sound(worker, waiting, [worker |-> x, waiter |-> pc.waiter])
    BY <1>1, <1>4 DEF Sound
  <1>5. CASE \E d \in Durations : RunEnter(d)
    <2>1. PICK d \in Durations : RunEnter(d)
      BY <1>5
    <2>2. /\ pc.worker = "out" /\ pc' = [pc EXCEPT !.worker = "loop"] /\ worker' = worker
          /\ runEnd' = IF d = 0 THEN 0 ELSE now + d
      BY <2>1 DEF RunEnter
    <2>3. runEnd' \in Nat
      BY <1>1, <2>2, WaiterAssumption
    <2>4. WaiterInv'
      BY <1>1, <1>4, <2>2, <2>3, WorkerStepLemma
    <2>5. Forever /\ CanStart => CanStart'
      BY <1>3, <2>2 DEF Forever, CanStart
    <2> QED
      BY <2>4, <2>5
  <1>6. CASE RunLoop
    <2>1. PICK x \in {"out", "schedule"} :
             /\ x = IF worker.runnable # <<>> /\ (runEnd = 0 \/ now < runEnd)
                    THEN "schedule" ELSE "out"
             /\ pc.worker = "loop" /\ pc' = [pc EXCEPT !.worker = x] /\ worker' = worker
             /\ runEnd' = runEnd
      BY <1>6 DEF RunLoop
    <2>2. WaiterInv'
      BY <1>1, <1>4, <2>1, WorkerStepLemma
    <2>3. CanStart => CanStart'
      BY <1>3, <2>1 DEF CanStart
    <2> QED
      BY <2>2, <2>3
  <1>7. CASE RunSchedule
    <2>1. /\ pc.worker = "schedule" /\ pc' = [pc EXCEPT !.worker = "loop"]
          /\ worker' = schedule(worker, timeUp) /\ runEnd' = runEnd /\ timeUp \in BOOLEAN
      BY <1>7 DEF RunSchedule, timeUp
    <2>2. Matched(worker, Sleepers(waiting)) /\ Serves(worker, waiting # {})
          /\ Sleepers(waiting) \subseteq User /\ OneEach(waiting)
      BY <1>1, <2>1 DEF Sound, Sleepers, Waitable
    <2>3. /\ worker' \in WorkerType
          /\ ~worker'.failed =>
                /\ Matched(worker', Sleepers(waiting)) /\ CurrentRuns(worker') /\ WaiterIsLast(worker')
                /\ Serves(worker', waiting # {})
                /\ worker'.state[workerFiber] = "Running" \/ worker'.current \in Fiber
          /\ CanSwitch(worker, timeUp) => ~worker'.failed
      <3>1. PICK v : v = schedule(worker, timeUp)
        OBVIOUS
      <3>2. /\ v \in WorkerType
            /\ ~v.failed =>
                /\ Matched(v, Sleepers(waiting)) /\ CurrentRuns(v) /\ WaiterIsLast(v)
                /\ Serves(worker, waiting # {}) => Serves(v, waiting # {})
                /\ v.state[workerFiber] = "Running" \/ v.current \in Fiber
            /\ CanSwitch(worker, timeUp) => ~v.failed
        BY <1>1, <2>1, <2>2, <3>1, GiveWay
      <3> QED
        BY <2>1, <2>2, <3>1, <3>2
    <2>4. WaiterInv'
      <3>1. ~worker'.failed => Sound(worker', waiting, [worker |-> "loop", waiter |-> pc.waiter])
        BY <2>2, <2>3 DEF Sound
      <3> QED
        BY <1>1, <2>1, <2>3, <3>1, WorkerStepLemma
    <2>5. CanStart => CanSwitch(worker, timeUp)
      <3> SUFFICES ASSUME CanStart, worker.state[workerFiber] # "Running"
                   PROVE  CanSwitch(worker, timeUp)
        BY DEF CanSwitch
      <3>1. /\ ~timeUp /\ worker.runnable # <<>> /\ \A f \in Fiber : worker.state[f] # "Dead"
            /\ worker.runnable \in Seq(Fiber) /\ Distinct(worker.runnable)
        BY <1>1, <2>1, <2>2 DEF CanStart, timeUp, Matched, QueuesMatchStates, WorkerType
      <3>2. front(worker.runnable) \in Elems(worker.runnable) /\ front(worker.runnable) \in Fiber
        BY <3>1, PopFront, ListDomain, Zenon
      <3> QED
        BY <3>1, <3>2 DEF CanSwitch
    <2>6. CanStart => CanStart'
      BY <1>1, <1>3, <2>1, <2>3, <2>5 DEF CanStart
    <2> QED
      BY <2>4, <2>6
  <1>8. CASE DestroySuspended
    <2>1. PICK f : f = front(worker.suspended)
      OBVIOUS
    <2>2. /\ worker.suspended # <<>> /\ worker' = kill(resume(worker, f), f)
          /\ pc' = [pc EXCEPT !.worker = "dtor"] /\ runEnd' = runEnd
      BY <1>8, <2>1 DEF DestroySuspended
    <2>3. /\ QueuesMatchStates(worker) /\ AllWait(worker, Sleepers(waiting))
          /\ OneEach(waiting) /\ Sleepers(waiting) \subseteq User
          /\ worker.suspended \in Seq(Fiber) /\ Distinct(worker.suspended)
      BY <1>1 DEF Sound, Matched, QueuesMatchStates, WorkerType, Sleepers, Waitable
    <2>4. f \in Elems(worker.suspended) /\ f \in Fiber /\ f \in Context
      BY <2>1, <2>2, <2>3, PopFront, ListDomain, Zenon DEF Context
    <2>5. PICK u : u = resume(worker, f)
      OBVIOUS
    <2>6. /\ u \in WorkerType /\ QueuesMatchStates(u)
          /\ u.failed = worker.failed /\ u.current = worker.current
          /\ Elems(u.runnable) \subseteq Elems(worker.runnable) \cup {f}
          /\ Elems(u.suspended) \subseteq Elems(worker.suspended)
          /\ \A g \in Context : g # f => u.state[g] = worker.state[g]
      <3>1. CASE worker.state[f] # "Suspended"
        <4>1. u = worker
          BY <3>1, <2>5 DEF resume
        <4> QED
          BY <4>1, <1>1, <2>3
      <3>2. CASE worker.state[f] = "Suspended"
        <4>1. QueuesMatchStates(worker) /\ worker \in WorkerType /\ f \in Fiber
          BY <1>1, <2>3, <2>4
        <4>2. /\ u \in WorkerType /\ QueuesMatchStates(u)
              /\ u.failed = worker.failed /\ u.current = worker.current
              /\ Elems(u.runnable) = Elems(worker.runnable) \cup {f}
              /\ Elems(u.suspended) = Elems(worker.suspended) \ {f}
              /\ \A g \in Context : g # f => u.state[g] = worker.state[g]
          BY <3>2, <4>1, <2>5, ResumeLemma
        <4> QED
          BY <4>2
      <3> QED
        BY <3>1, <3>2
    <2>7. PICK v : v = kill(u, f)
      OBVIOUS
    <2>8. /\ v \in WorkerType /\ QueuesMatchStates(v)
          /\ v.failed = u.failed /\ v.current = u.current /\ v.suspended = u.suspended
          /\ v.runnable = u.runnable /\ v.state = [u.state EXCEPT ![f] = "Dead"]
      BY <2>4, <2>6, <2>7, KillLemma
    <2>9. v.state[f] = "Dead" /\ \A g \in Context : g # f => v.state[g] = worker.state[g]
      BY <2>4, <2>6, <2>8 DEF WorkerType
    <2>10. AllWait(v, Sleepers(waiting))
      <3>1. ASSUME NEW g \in Sleepers(waiting)
            PROVE  /\ v.state[g] \in {"Waiting", "Dead"}
                   /\ g \notin Elems(v.runnable) /\ g \notin Elems(v.suspended)
        BY <2>3, <2>4, <2>6, <2>8, <2>9 DEF AllWait, User, Context
      <3>2. ASSUME NEW h \in Fiber, v.state[h] = "Waiting"
            PROVE  h \in Sleepers(waiting)
        BY <3>2, <2>3, <2>9 DEF AllWait, Context
      <3> QED
        BY <3>1, <3>2 DEF AllWait
    <2>11. worker' = v /\ v.current = workerFiber
      BY <1>1, <2>2, <2>5, <2>6, <2>7, <2>8, SMTT(30)
    <2>12. Sound(v, waiting, [worker |-> "dtor", waiter |-> pc.waiter])
      BY <1>1, <2>3, <2>8, <2>10, <2>11, WaiterAssumption
      DEF Sound, Matched, CurrentRuns, WaiterIsLast
    <2>13. WaiterInv'
      BY <1>1, <2>2, <2>8, <2>11, <2>12, WorkerStepLemma
    <2>14. CanStart => CanStart'
      BY <1>3, <2>2, <2>6, <2>8, <2>11 DEF CanStart
    <2> QED
      BY <2>13, <2>14
  <1>9. CASE DestroyRunnable
    <2> DEFINE f == front(worker.runnable)
               q == pop_front(worker.runnable)
               st == [worker.state EXCEPT ![f] = "Uninitialized"]
    <2>1. /\ worker.runnable # <<>> /\ worker.suspended = <<>> /\ pc.worker = "dtor"
          /\ worker' = [worker EXCEPT !.runnable = q, !.state = st]
          /\ UNCHANGED <<pc, runEnd>>
      BY <1>1, <1>9 DEF DestroyRunnable, WorkerType
    <2>2. /\ QueuesMatchStates(worker) /\ AllWait(worker, Sleepers(waiting))
          /\ OneEach(waiting) /\ Sleepers(waiting) \subseteq User
          /\ worker.runnable \in Seq(Fiber) /\ Distinct(worker.runnable)
      BY <1>1 DEF Sound, Matched, QueuesMatchStates, WorkerType, Sleepers, Waitable
    <2>3. /\ f \in Elems(worker.runnable) /\ q \in Seq(Fiber) /\ Distinct(q)
          /\ Elems(q) = Elems(worker.runnable) \ {f}
      BY <2>1, <2>2, PopFront
    <2> HIDE DEF f, q
    <2>4. f \in Fiber /\ f \in Context /\ f # workerFiber
      BY <2>2, <2>3, ListDomain, WorkerAssumption DEF Context
    <2>5. st \in [Context -> State] /\ st[f] = "Uninitialized"
          /\ \A g \in Context : g # f => st[g] = worker.state[g]
      BY <1>1, <2>4 DEF WorkerType, State
    <2> HIDE DEF st
    <2>6. /\ worker' \in WorkerType
          /\ worker'.runnable = q /\ worker'.state = st
          /\ worker'.stateNext = worker.stateNext /\ worker'.suspended = worker.suspended
          /\ worker'.current = worker.current /\ worker'.failed = worker.failed
      BY <1>1, <2>1, <2>3, <2>5, Zenon DEF WorkerType
    <2>7. Elems(worker.suspended) = {}
      BY <2>1 DEF Elems
    <2>8. QueuesMatchStates(worker')
      <3>1. PICK v : v = worker'
        OBVIOUS
      <3>2. QueuesMatchStates(v)
        <4>1. /\ v.runnable = q /\ v.state = st /\ v.stateNext = worker.stateNext
              /\ v.suspended = worker.suspended /\ v.current = worker.current
          BY <3>1, <2>6
        <4>2. ASSUME NEW g \in Fiber, g # f
              PROVE  /\ v.state[g] = worker.state[g] /\ v.stateNext[g] = worker.stateNext[g]
                     /\ g \in Elems(v.runnable) <=> g \in Elems(worker.runnable)
          BY <4>1, <4>2, <2>3, <2>5 DEF Context
        <4>3. v.state[workerFiber] = worker.state[workerFiber]
          BY <4>1, <2>4, <2>5 DEF Context
        <4> QED
          BY <4>1, <4>2, <4>3, <2>2, <2>3, <2>4, <2>5, <2>7 DEF QueuesMatchStates
      <3> QED
        BY <3>1, <3>2
    <2>9. AllWait(worker', Sleepers(waiting))
      <3>1. ASSUME NEW g \in Sleepers(waiting)
            PROVE  /\ worker'.state[g] \in {"Waiting", "Dead"}
                   /\ g \notin Elems(worker'.runnable) /\ g \notin Elems(worker'.suspended)
        BY <2>2, <2>3, <2>5, <2>6 DEF AllWait, User, Context
      <3>2. ASSUME NEW h \in Fiber, worker'.state[h] = "Waiting"
            PROVE  h \in Sleepers(waiting)
        BY <3>2, <2>2, <2>5, <2>6, SMTT(30) DEF AllWait, Context
      <3> QED
        BY <3>1, <3>2 DEF AllWait
    <2>10. Sound(worker', waiting, [worker |-> "dtor", waiter |-> pc.waiter])
      BY <1>1, <2>2, <2>6, <2>8, <2>9, WaiterAssumption
      DEF Sound, Matched, CurrentRuns, WaiterIsLast
    <2>11. pc' = [pc EXCEPT !.worker = "dtor"] /\ pc'.worker = "dtor"
      BY <1>2, <2>1 DEF WaiterInv, WaiterTypeOK
    <2>12. WaiterInv'
      BY <1>1, <2>1, <2>6, <2>10, <2>11, WorkerStepLemma, Zenon
    <2>13. CanStart => CanStart'
      BY <2>1, <2>6, <2>11 DEF CanStart
    <2> QED
      BY <2>12, <2>13
  <1>10. CASE Destroyed
    <2>1. /\ pc.worker = "dtor" /\ pc' = [pc EXCEPT !.worker = "gone"]
          /\ UNCHANGED <<worker, runEnd>>
      BY <1>10 DEF Destroyed
    <2>2. Sound(worker, waiting, [worker |-> "gone", waiter |-> pc.waiter])
      BY <1>1 DEF Sound
    <2>3. WaiterInv'
      BY <1>1, <2>1, <2>2, WorkerStepLemma
    <2>4. CanStart => CanStart'
      BY <1>3, <2>1 DEF CanStart
    <2> QED
      BY <2>3, <2>4
  <1> QED
    BY <1>5, <1>6, <1>7, <1>8, <1>9, <1>10 DEF WorkerNext

\* The steps of a user fiber, to itself and to the others.
LEMMA FiberNextKeeps ==
    ASSUME NoSuspendWaiting, WaiterInv, NEW f \in User, FiberNext(f) \/ ControlNext(f)
    PROVE  WaiterInv' /\ (CanStart => CanStart')
  <1> USE DEF FiberStep
  <1> DEFINE Ordered == /\ InOrder(worker', Sleepers(waiting'), waiting' # {})
                        /\ WaiterIsLast(worker')
                        /\ OneEach(waiting') /\ waiting' \subseteq Waitable
  <1> HIDE DEF Ordered
  <1>1. Runs(f) /\ UNCHANGED <<now, runEnd, pc, wnow>>
    BY DEF FiberNext, ControlNext, Yield, Exit, Hatch, Nap, WaitUntil, Wait, YieldTo, Suspend,
           Resume, Kill, WakeWaitable
  <1>2. f \in Fiber /\ f # waiterFiber
    BY SMTT(30) DEF User
  <1>3. /\ InOrder(worker, Sleepers(waiting), waiting # {})
        /\ WaiterIsLast(worker) /\ OneEach(waiting) /\ waiting \subseteq Waitable
        /\ worker.current = f /\ timeUp \in BOOLEAN
    BY <1>1, <1>2, RunsLemma
  <1>4. now \in Nat
    BY DEF WaiterInv, WaiterTypeOK
  <1>5. ASSUME NEW e \in Waitable, e.fiber = f, Wait(f, e)
        PROVE  Ordered
    <2>1. /\ waiting' = waiting \cup {e}
          /\ worker' = schedule(resume(release(nap(worker, f), f), waiterFiber), timeUp)
      BY <1>5 DEF Wait
    <2>2. PICK n, W, busy : /\ n = release(nap(worker, f), f)
                            /\ W = Sleepers(waiting) /\ busy = (waiting # {})
      OBVIOUS
    <2>3. InOrder(worker', Sleepers(waiting) \cup {f}, TRUE) /\ WaiterIsLast(worker')
          /\ f \notin Sleepers(waiting)
      <3>1. /\ InOrder(worker, W, busy) /\ worker.current = f /\ timeUp \in BOOLEAN
            /\ worker' = schedule(resume(n, waiterFiber), timeUp)
            /\ n = nap(release(worker, f), f) \/ n = release(nap(worker, f), f)
        BY <1>3, <2>1, <2>2
      <3>2. PICK w, v, up : w = worker /\ v = worker' /\ up = timeUp
        OBVIOUS
      <3>3. /\ InOrder(w, W, busy) /\ w.current = f /\ up \in BOOLEAN
            /\ v = schedule(resume(n, waiterFiber), up)
            /\ n = nap(release(w, f), f) \/ n = release(nap(w, f), f)
        BY <3>1, <3>2
      <3>4. /\ InOrder(v, W \cup {f}, TRUE) /\ WaiterIsLast(v) /\ f \notin W
            /\ Blocks(w, v, f)
        BY <3>3, WaitKeeps, Zenon
      <3> QED
        BY <2>2, <3>2, <3>4, Zenon
    <2>4. Sleepers(waiting') = Sleepers(waiting) \cup {f} /\ OneEach(waiting')
          /\ waiting' # {} /\ waiting' \subseteq Waitable
      <3>1. OneEach(waiting) /\ e.fiber \notin Sleepers(waiting)
        BY <1>3, <1>5, <2>3
      <3>2. /\ Sleepers(waiting \cup {e}) = Sleepers(waiting) \cup {e.fiber}
            /\ OneEach(waiting \cup {e})
        BY <3>1, SleepersLemma, Zenon
      <3> QED
        BY <1>3, <1>5, <2>1, <3>2, Zenon
    <2>5. (waiting' # {}) = TRUE
      BY <2>4
    <2> QED
      BY <2>3, <2>4, <2>5, Zenon DEF Ordered
  <1>0. Ordered => WaiterInv' /\ (CanStart => CanStart')
    BY <1>1, FiberStepLemma DEF Ordered
  <1> SUFFICES Ordered
    BY <1>0
  <1>a. ASSUME UNCHANGED waiting, InOrder(worker', Sleepers(waiting), waiting # {}),
               WaiterIsLast(worker')
        PROVE  Ordered
    BY <1>3, <1>a DEF Ordered
  <1>b. ASSUME UNCHANGED waiting, InOrder(worker', Sleepers(waiting), waiting # {}),
               worker'.current = worker.current
        PROVE  Ordered
    BY <1>2, <1>3, <1>a, <1>b DEF WaiterIsLast
  <1>6. CASE Yield(f)
    BY <1>2, <1>3, <1>6, <1>a, YieldKeeps DEF Yield
  <1>7. CASE Exit(f)
    BY <1>3, <1>7, <1>a, ExitKeeps, Zenon DEF Exit
  <1>8. CASE \E g \in User : Hatch(f, g)
    BY <1>3, <1>8, <1>b, HatchKeeps DEF Hatch
  <1>9. CASE \E d \in Delays : Nap(f, d)
    <2>1. PICK d \in Delays : Nap(f, d)
      BY <1>9
    <2>2. CASE d = 0
      BY <2>1, <2>2, <1>6 DEF Nap
    <2>3. CASE d # 0
      <3>1. PICK e : e = [kind |-> "nap", fiber |-> f, timeout |-> now + d, interval |-> 0]
        BY Zenon
      <3>2. Wait(f, e)
        BY <2>1, <2>3, <3>1 DEF Nap
      <3>3. e \in Waitable /\ e.fiber = f
        BY <3>1, <1>4, WaiterAssumption DEF Waitable
      <3> QED
        BY <3>2, <3>3, <1>5
    <2> QED
      BY <2>2, <2>3
  <1>10. CASE \E i \in Intervals : WaitUntil(f, i)
    <2>1. PICK i \in Intervals : WaitUntil(f, i)
      BY <1>10
    <2>2. PICK e : e = [kind |-> "polled", fiber |-> f, interval |-> i,
                        timeout |-> NextPoll(now + i, i, now)]
      BY Zenon
    <2>3. Wait(f, e)
      BY <2>1, <2>2 DEF WaitUntil
    <2>4. i \in Nat /\ now + i \in Nat
      BY <1>4, WaiterAssumption
    <2>5. NextPoll(now + i, i, now) \in Nat
      BY <1>4, <2>4, NextPollLemma, Zenon
    <2>6. e \in Waitable /\ e.fiber = f
      BY <2>2, <2>4, <2>5 DEF Waitable
    <2> QED
      BY <2>3, <2>6, <1>5
  <1>11. ASSUME NEW g \in User, YieldTo(f, g)
         PROVE  Ordered
    <2>1. g \in Elems(worker.runnable)
      BY <1>11 DEF YieldTo, contains
    <2> QED
      BY <1>2, <1>3, <1>11, <1>a, <2>1, YieldToKeeps DEF YieldTo
  <1>12. ASSUME NEW g \in User, Suspend(f, g)
         PROVE  Ordered
    BY <1>3, <1>12, <1>a, SuspendKeeps DEF Suspend, NoSuspendWaiting
  <1>13. ASSUME NEW g \in User, Resume(f, g)
         PROVE  Ordered
    BY <1>3, <1>13, <1>b, ResumeKeeps, SMTT(30) DEF Resume
  <1>14. ASSUME NEW g \in User, Kill(f, g)
         PROVE  Ordered
    BY <1>3, <1>14, <1>b, KillKeeps DEF Kill
  <1>15. ASSUME NEW e \in waiting, WakeWaitable(f, e)
         PROVE  Ordered
    <2>1. waiting' = waiting \ {e} /\ worker' = WakeFront(worker, e)
      BY <1>15 DEF WakeWaitable
    <2>2. /\ e.fiber \in Sleepers(waiting) /\ Sleepers(waiting') = Sleepers(waiting) \ {e.fiber}
          /\ OneEach(waiting') /\ waiting' \subseteq Waitable
      BY <1>3, <2>1, SleepersLemma, ZenonT(30)
    <2>3. worker' = addFront(wakeup(worker, e.fiber), e.fiber)
      BY <2>1 DEF WakeFront
    <2>4. InOrder(worker', Sleepers(waiting'), waiting # {}) /\ WaiterIsLast(worker')
      BY <1>2, <1>3, <2>2, <2>3, WakeKeeps
    <2>5. InOrder(worker', Sleepers(waiting'), waiting' # {})
      BY <2>1, <2>4 DEF InOrder, Serves
    <2> QED
      BY <2>2, <2>4, <2>5 DEF Ordered
  <1> QED
    BY <1>6, <1>7, <1>8, <1>9, <1>10, <1>11, <1>12, <1>13, <1>14, <1>15, SMTT(30)
    DEF FiberNext, ControlNext

\* Every step keeps the invariant.
LEMMA WaiterInvNext ==
    ASSUME NoSuspendWaiting, WaiterInv, [ThreadNext]_vars
    PROVE  WaiterInv' /\ (Forever /\ CanStart => CanStart')
  <1>1. CASE Next \/ \E f \in User : ControlNext(f)
    <2>1. CASE WorkerNext
      BY <2>1, WorkerNextKeeps
    <2>2. CASE WaiterNext
      BY <2>2, WaiterNextKeeps
    <2>3. ASSUME NEW f \in User, FiberNext(f) \/ ControlNext(f)
          PROVE  WaiterInv' /\ (CanStart => CanStart')
      BY <2>3, FiberNextKeeps
    <2>4. CASE Tick
      <3>1. now' = now + 1 /\ UNCHANGED <<worker, waiting, runEnd, pc, wnow>>
        BY <2>4 DEF Tick
      <3>2. WaiterTypeOK' /\ (wnow <= now)'
        BY <3>1 DEF WaiterInv, WaiterTypeOK
      <3>3. SleepsAlone' /\ (CanStart => CanStart')
        BY <3>1 DEF SleepsAlone, CanStart, WaiterInv
      <3> QED
        BY <3>1, <3>2, <3>3 DEF WaiterInv
    <2>5. CASE Ended
      <3>1. UNCHANGED vars
        BY <2>5 DEF Ended
      <3> QED
        BY <3>1 DEF vars, WaiterInv, WaiterTypeOK, SleepsAlone, CanStart
    <2> QED
      BY <1>1, <2>1, <2>2, <2>3, <2>4, <2>5 DEF Next
  <1>2. CASE UNCHANGED vars
    BY <1>2 DEF vars, WaiterInv, WaiterTypeOK, SleepsAlone, CanStart
  <1> QED
    BY <1>1, <1>2 DEF ThreadNext

-----------------------------------------------------------------------------

\* The first of the waitables has the least timeout, and there is one.
LEMMA EarliestLemma ==
    ASSUME waiting \subseteq Waitable, waiting # {}
    PROVE  /\ (CHOOSE e \in Earliest : TRUE) \in waiting
           /\ \A o \in waiting : (CHOOSE e \in Earliest : TRUE).timeout <= o.timeout
  <1> DEFINE T == {e.timeout : e \in waiting}
  <1>1. T \subseteq Nat /\ T # {}
    BY DEF Waitable
  <1>2. PICK t \in T : \A u \in T : t <= u
    BY <1>1, LeastNumber, Zenon
  <1>3. \E e \in waiting : \A o \in waiting : e.timeout <= o.timeout
    BY <1>2
  <1>4. \E e : e \in Earliest
    BY <1>3 DEF Earliest
  <1>5. (CHOOSE e \in Earliest : TRUE) \in Earliest
    BY <1>4
  <1> QED
    BY <1>5 DEF Earliest

\* The thread sleeps when, and only as long as, nobody has anything to do, for
\* any duration of Worker::run() and whatever the fibers do (Waiter::entry()).
THEOREM SleepsAsLongAsNeededHolds ==
    ASSUME NoSuspendWaiting PROVE ThreadSpec => []SleepsAsLongAsNeeded
  <1>1. WaiterInv => SleepsAsLongAsNeeded
    <2> SUFFICES ASSUME WaiterInv, pc.waiter = "sleep"
                 PROVE  /\ worker.runnable = <<waiterFiber>>
                        /\ \A e \in waiting : SleepEnd <= e.timeout
                        /\ runEnd # 0 => SleepEnd <= runEnd
      BY DEF SleepsAsLongAsNeeded, SleepsOnlyWhenIdle, SleepsNotTooLong
    <2>1. worker.runnable = <<waiterFiber>> /\ waiting # {} /\ waiting \subseteq Waitable
      BY DEF WaiterInv, SleepsAlone, WaiterTypeOK
    <2>2. PICK t : t = (CHOOSE e \in Earliest : TRUE).timeout
      BY Zenon
    <2>3. t \in Nat /\ \A o \in waiting : t <= o.timeout /\ o.timeout \in Nat
      BY <2>1, <2>2, EarliestLemma DEF Waitable
    <2>4. SleepEnd = IF runEnd # 0 /\ t > runEnd THEN runEnd ELSE t
      BY <2>2 DEF SleepEnd
    <2>5. runEnd \in Nat
      BY DEF WaiterInv, WaiterTypeOK
    <2> QED
      BY <2>1, <2>3, <2>4, <2>5
  <1>2. Init => WaiterInv
    BY WaiterInvInit
  <1>3. WaiterInv /\ [ThreadNext]_vars => WaiterInv'
    BY WaiterInvNext
  <1> QED
    BY <1>1, <1>2, <1>3, PTL DEF ThreadSpec

\* No fiber that naps or polls is woken before its time (Waiter::entry()), when
\* no fiber wakes it: the waiter's clock is never ahead of the real one.
THEOREM NoEarlyWakeupHolds ==
    ASSUME NoSuspendWaiting PROVE Spec => NoEarlyWakeup
  <1>1. ASSUME WaiterInv, [Next]_vars
        PROVE  [\A e \in waiting \ waiting' : e.timeout < now]_vars
    <2>1. CASE WaiterExpire \/ WaiterRepoll
      <3>1. PICK d \in Expired : waiting \ {d} \subseteq waiting'
        BY <2>1 DEF WaiterExpire, Expire, WaiterRepoll
      <3>2. d \in Waitable /\ d.timeout < wnow /\ wnow <= now /\ now \in Nat /\ wnow \in Nat
        BY <1>1 DEF Expired, Earliest, WaiterInv, WaiterTypeOK
      <3>3. d.timeout < now
        BY <3>2, SMTT(30) DEF Waitable
      <3> QED
        BY <3>1, <3>3
    <2>2. ASSUME NEW f \in User, FiberNext(f)
          PROVE  waiting \subseteq waiting'
      BY <2>2 DEF FiberNext, Yield, Exit, Hatch, Nap, WaitUntil, Wait, FiberStep
    <2>3. CASE WorkerNext \/ Tick \/ Ended \/ UNCHANGED vars
      BY <2>3 DEF WorkerNext, RunEnter, RunLoop, RunSchedule, DestroySuspended, DestroyRunnable,
                  Destroyed, Tick, Ended, vars
    <2>4. CASE WaiterTop \/ WaiterSuspend \/ WaiterSchedule \/ WaiterSleep \/ WaiterInterrupted
      BY <2>4 DEF WaiterTop, WaiterSuspend, WaiterSchedule, WaiterSleep, WaiterInterrupted
    <2> QED
      BY <1>1, <2>1, <2>2, <2>3, <2>4 DEF Next, WaiterNext
  <1>2. Init => WaiterInv
    BY WaiterInvInit
  <1>3. WaiterInv /\ [Next]_vars => WaiterInv'
    <2>1. [Next]_vars => [ThreadNext]_vars
      BY DEF ThreadNext
    <2> QED
      BY <2>1, WaiterInvNext
  <1> QED
    BY <1>1, <1>2, <1>3, PTL DEF Spec, NoEarlyWakeup

\* In a worker that is run forever no zth_assert() fails, every fiber is in the
\* one place that its state says, and only the current one runs, whatever the
\* fibers do to themselves and to each other (Worker, Fiber, Waiter).
THEOREM WorkerIsSoundHolds ==
    ASSUME Forever PROVE ThreadSpec => []WorkerIsSound
  <1>1. WaiterInv /\ CanStart => WorkerIsSound
    <2> SUFFICES ASSUME WaiterInv, CanStart PROVE WorkerIsSound
      BY SMTT(30)
    <2>1. /\ ~worker.failed /\ QueuesMatchStates(worker) /\ CurrentRuns(worker)
          /\ AllWait(worker, Sleepers(waiting)) /\ OneEach(waiting)
          /\ worker \in WorkerType
      BY SMTT(30) DEF WaiterInv, CanStart, Sound, Matched, WaiterTypeOK
    <2>2. OnlyCurrentRuns
      BY <2>1, SMTT(30) DEF OnlyCurrentRuns, QueuesMatchStates, CurrentRuns
    <2>3. FibersAreInOnePlace
      <3>1. /\ \A f \in Elems(worker.runnable) : f \in Fiber
            /\ \A f \in Elems(worker.suspended) : f \in Fiber
        BY <2>1, ListDomain, SMTT(30) DEF WorkerType
      <3> DEFINE R == Elems(worker.runnable)
                 S == Elems(worker.suspended)
                 W == Sleepers(waiting)
      <3> HIDE DEF R, S, W
      <3>0. \A f \in W : /\ worker.state[f] \in {"Waiting", "Dead"}
                         /\ f \notin R /\ f \notin S
        BY <2>1 DEF AllWait, R, S, W
      <3>5. R \cap S = {}
        BY <2>1, <3>1 DEF QueuesMatchStates, R, S
      <3>6. R \cap W = {} /\ S \cap W = {}
        BY <3>0
      <3>7. \A f \in Fiber :
              /\ worker.state[f] \in {"New", "Ready", "Running"} => f \in R
              /\ worker.state[f] = "Suspended" => f \in S
              /\ worker.state[f] = "Uninitialized" => f \notin R /\ f \notin S
        BY <2>1 DEF QueuesMatchStates, R, S
      <3>8. \A f \in Fiber :
              /\ worker.state[f] = "Waiting" => f \in W
              /\ worker.state[f] = "Uninitialized" => f \notin W
        BY <2>1, <3>0 DEF AllWait, W
      <3>9. Distinct(worker.runnable) /\ Distinct(worker.suspended)
        BY <2>1 DEF QueuesMatchStates
      <3>10. \A f \in Fiber : worker.state[f] = "Uninitialized" => f \notin R \cup S \cup W
        BY <3>7, <3>8
      <3> QED
        BY <2>1, <3>5, <3>6, <3>7, <3>8, <3>9, <3>10, Zenon
        DEF FibersAreInOnePlace, OneEach, Sleepers, R, S, W
    <2> QED
      BY <2>1, <2>2, <2>3 DEF WorkerIsSound, NoAssertionFails
  <1>2. Init => WaiterInv /\ CanStart
    BY WaiterInvInit
  <1>3. WaiterInv /\ CanStart /\ [ThreadNext]_vars => (WaiterInv /\ CanStart)'
    BY WaiterInvNext DEF Forever
  <1> QED
    BY <1>1, <1>2, <1>3, PTL DEF ThreadSpec

=============================================================================
