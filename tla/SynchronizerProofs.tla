------------------------- MODULE SynchronizerProofs -------------------------
(***************************************************************************)
(* Blocking and unblocking keep the invariant of the synchronizers, for    *)
(* any number of fibers and queues.  The invariant is what the runs check: *)
(* types, WaitingIffQueued and WorkerConsistent; together they are         *)
(* inductive, and none of them is without the others (an unblocked fiber   *)
(* may be added to the run queue only because it is in no other list, and  *)
(* that it is in no other list follows from its state).                    *)
(***************************************************************************)
EXTENDS Synchronizer, WorkerProofs

SyncInv == SyncTypeOK /\ WaitingIffQueued /\ WorkerConsistent

Live == {"Ready", "Running", "Waiting"}

\* A fiber that has started does not stop, apart from those of X.
KeepsLive(X) ==
    \A g \in Fiber \ X : worker.state[g] \in Live => worker'.state[g] \in Live

\* The queues are empty, and all fibers are in the run queue.
LEMMA SyncInitLemma == SyncInit => SyncInv
  <1> SUFFICES ASSUME SyncInit PROVE SyncInv
    OBVIOUS
  <1> DEFINE n == Cardinality(Fiber)
  <1>1. n \in Nat
    BY CountAssumption
  <1>2. PICK q \in HatchOrders : worker = NewWorker(q)
    BY DEF SyncInit
  <1>3. q \in [1 .. n -> Fiber] /\ Distinct(q)
    BY DEF HatchOrders
  <1> HIDE DEF n
  <1>4. q \in Seq(Fiber)
    BY <1>1, <1>3, SeqFromFunction
  <1>5. <<>> \in Seq(Fiber) /\ Elems(<<>>) = {} /\ Distinct(<<>>)
    BY DEF Elems, Distinct
  <1>6. worker \in WorkerType
    BY <1>2, <1>4, <1>5 DEF NewWorker, WorkerType, Context, State
  <1>7. /\ worker.runnable = q /\ worker.suspended = <<>>
        /\ worker.current = workerFiber /\ worker.failed = FALSE
        /\ worker.state[workerFiber] = "Ready"
        /\ \A f \in Fiber : /\ worker.stateNext[f] = "Ready"
                            /\ f \in Elems(q) => worker.state[f] = "New"
                            /\ f \notin Elems(q) => worker.state[f] = "Uninitialized"
    BY <1>2, WorkerAssumption DEF NewWorker, Context
  <1>8. \A r \in Queue : queue[r] = <<>> /\ Elems(queue[r]) = {} /\ Distinct(queue[r])
    BY <1>5 DEF SyncInit
  <1>9. SyncTypeOK
    BY <1>5, <1>6 DEF SyncInit, SyncTypeOK
  <1>10. WaitingIffQueued
    BY <1>7, <1>8, Zenon DEF WaitingIffQueued, Queued
  <1>11. QueuesMatchStates(worker)
    BY <1>3, <1>5, <1>7 DEF QueuesMatchStates
  <1>12. CurrentRuns(worker) /\ ~worker.failed
    BY <1>7, WorkerAssumption DEF CurrentRuns
  <1>13. CanSwitch(worker, FALSE) \/ worker.runnable = <<>>
    <2> SUFFICES ASSUME q # <<>> PROVE CanSwitch(worker, FALSE)
      BY <1>7, Zenon
    <2>1. front(q) \in Elems(q) /\ front(q) \in Fiber
      BY <1>3, <1>4, PopFront, ListDomain, Zenon
    <2> QED
      BY <2>1, <1>7 DEF CanSwitch
  <1> QED
    BY <1>9, <1>10, <1>11, <1>12, <1>13, Zenon DEF SyncInv, WorkerConsistent

\* schedule() of a worker w whose fibers wait in the queues of queue'.
LEMMA SwitchLemma ==
    ASSUME NEW w, w \in WorkerType, QueuesMatchStates(w), ~w.failed, CanSwitch(w, FALSE),
           w.current \in Fiber => w.state[w.current] # "Ready" /\ w.state[w.current] # "New",
           worker' = schedule(w, FALSE),
           queue' \in [Queue -> Seq(Fiber)],
           \A f \in Fiber : w.state[f] = "Waiting" <=> Queued(f)',
           \A q \in Queue : Distinct(queue'[q]),
           \A p, q \in Queue : p # q => Elems(queue'[p]) \cap Elems(queue'[q]) = {}
    PROVE  /\ SyncInv'
           /\ \A g \in Fiber : w.state[g] \in Live => worker'.state[g] \in Live
  <1>1. Scheduled(w, worker') /\ ~worker'.failed
    BY ScheduleLemma, Zenon
  <1>2. \A g \in Fiber : worker'.state[g] # w.state[g] =>
           worker'.state[g] # "Waiting" /\ w.state[g] # "Waiting"
    BY <1>1, Zenon DEF Scheduled, QueuesMatchStates
  <1>3. SyncTypeOK'
    BY <1>1, Zenon DEF SyncTypeOK, Scheduled
  <1>4. WaitingIffQueued'
    BY <1>2, Zenon DEF WaitingIffQueued
  <1>5. WorkerConsistent'
    BY <1>1, Zenon DEF WorkerConsistent, Scheduled, CanSwitch
  <1>6. \A g \in Fiber : w.state[g] \in Live => worker'.state[g] \in Live
    BY <1>1, Zenon DEF Scheduled, Live
  <1> QED
    BY <1>3, <1>4, <1>5, <1>6, Zenon DEF SyncInv

\* block(): the fiber leaves the run queue for the queue of the synchronizer.
LEMMA BlockLemma ==
    ASSUME SyncInv, NEW f \in Fiber, Runs(f), NEW q \in Queue, block(f, q)
    PROVE  SyncInv' /\ KeepsLive({}) /\ Elems(queue'[q]) = Elems(queue[q]) \cup {f}
  <1> DEFINE w == nap(release(worker, f), f)
  <1>1. /\ worker \in WorkerType /\ QueuesMatchStates(worker) /\ CurrentRuns(worker)
        /\ ~worker.failed /\ worker.current = f /\ worker.state[f] = "Running"
    BY DEF SyncInv, SyncTypeOK, WorkerConsistent, Runs, CurrentRuns
  <1>2. /\ w \in WorkerType /\ QueuesMatchStates(w) /\ ~w.failed /\ w.current = f
        /\ w.state = [worker.state EXCEPT ![f] = "Waiting"]
    BY <1>1, NapLemma
  <1>3. worker' = schedule(w, FALSE) /\ queue' = [queue EXCEPT ![q] = push_back(@, f)]
    BY DEF block
  <1> HIDE DEF w
  <1>4. w.state[f] = "Waiting" /\ \A g \in Fiber : g # f => w.state[g] = worker.state[g]
    BY <1>1, <1>2 DEF WorkerType, Context
  <1>5. f \notin Elems(queue[q]) /\ \A p \in Queue : f \notin Elems(queue[p])
    BY <1>1 DEF SyncInv, WaitingIffQueued, Queued
  <1>6. queue[q] \in Seq(Fiber) /\ Distinct(queue[q])
    BY DEF SyncInv, SyncTypeOK, WaitingIffQueued
  <1>7. /\ queue'[q] \in Seq(Fiber) /\ Elems(queue'[q]) = Elems(queue[q]) \cup {f}
        /\ Distinct(queue'[q])
        /\ \A p \in Queue : p # q => queue'[p] = queue[p]
    BY <1>3, <1>5, <1>6, PushBack DEF SyncInv, SyncTypeOK
  <1>8. queue' \in [Queue -> Seq(Fiber)]
    BY <1>3, <1>7 DEF SyncInv, SyncTypeOK
  <1>9. \A g \in Fiber : w.state[g] = "Waiting" <=> Queued(g)'
    BY <1>4, <1>7 DEF SyncInv, WaitingIffQueued, Queued
  <1>10. /\ \A p \in Queue : Distinct(queue'[p])
         /\ \A p, r \in Queue : p # r => Elems(queue'[p]) \cap Elems(queue'[r]) = {}
    <2>1. /\ \A p \in Queue : Distinct(queue[p])
          /\ \A p, r \in Queue : p # r => Elems(queue[p]) \cap Elems(queue[r]) = {}
      BY DEF SyncInv, WaitingIffQueued
    <2>2. \A p \in Queue : Distinct(queue'[p])
      BY <2>1, <1>7
    <2>3. \A p \in Queue : p # q => Elems(queue'[p]) \cap Elems(queue'[q]) = {}
      BY <2>1, <1>5, <1>7, Zenon
    <2> QED
      BY <2>1, <2>2, <2>3, <1>7, Zenon
  <1>11. SyncInv' /\ \A g \in Fiber : w.state[g] \in Live => worker'.state[g] \in Live
    <2>1. CanSwitch(w, FALSE) /\ w.state[w.current] # "Ready" /\ w.state[w.current] # "New"
      BY <1>2, <1>4 DEF CanSwitch
    <2> QED
      BY <2>1, <1>2, <1>3, <1>8, <1>9, <1>10, SwitchLemma, Zenon
  <1>12. KeepsLive({})
    BY <1>4, <1>11 DEF KeepsLive, Live
  <1> QED
    BY <1>7, <1>11, <1>12

\* Worker::run(), and a yield.
LEMMA YieldLemma ==
    ASSUME SyncInv, RunWorker \/ \E f \in Fiber : Yield(f)
    PROVE  SyncInv' /\ KeepsLive({}) /\ queue' = queue
  <1>1. /\ worker \in WorkerType /\ QueuesMatchStates(worker) /\ CurrentRuns(worker)
        /\ ~worker.failed
    BY DEF SyncInv, SyncTypeOK, WorkerConsistent
  <1>2. CanSwitch(worker, FALSE) /\ worker' = schedule(worker, FALSE) /\ queue' = queue
    BY Zenon DEF SyncInv, WorkerConsistent, RunWorker, Yield, Runs, CanSwitch
  <1>3. \A g \in Fiber : worker.state[g] = "Waiting" <=> Queued(g)'
    BY <1>2 DEF SyncInv, WaitingIffQueued, Queued
  <1>4. SyncInv' /\ \A g \in Fiber : worker.state[g] \in Live => worker'.state[g] \in Live
    BY <1>1, <1>2, <1>3, SwitchLemma, Zenon DEF SyncInv, SyncTypeOK, WaitingIffQueued, CurrentRuns
  <1> QED
    BY <1>2, <1>4, Zenon DEF KeepsLive

\* The end of a fiber.
LEMMA ExitLemma ==
    ASSUME SyncInv, NEW f \in Fiber, Exit(f)
    PROVE  SyncInv' /\ KeepsLive({f}) /\ queue' = queue
  <1> DEFINE w == kill(worker, f)
  <1>1. /\ worker \in WorkerType /\ QueuesMatchStates(worker) /\ CurrentRuns(worker)
        /\ ~worker.failed /\ worker.current = f /\ worker.state[f] = "Running"
    BY DEF SyncInv, SyncTypeOK, WorkerConsistent, Exit, Runs, CurrentRuns
  <1>2. /\ w \in WorkerType /\ QueuesMatchStates(w) /\ ~w.failed /\ w.current = f
        /\ w.state = [worker.state EXCEPT ![f] = "Dead"]
    BY <1>1, KillLemma
  <1>3. worker' = schedule(w, FALSE) /\ queue' = queue
    BY DEF Exit, exit
  <1> HIDE DEF w
  <1>4. w.state[f] = "Dead" /\ \A g \in Fiber : g # f => w.state[g] = worker.state[g]
    BY <1>1, <1>2 DEF WorkerType, Context
  <1>5. CanSwitch(w, FALSE) /\ w.state[w.current] # "Ready" /\ w.state[w.current] # "New"
    BY <1>2, <1>4 DEF CanSwitch
  <1>6. \A g \in Fiber : w.state[g] = "Waiting" <=> Queued(g)'
    BY <1>1, <1>3, <1>4 DEF SyncInv, WaitingIffQueued, Queued
  <1>7. SyncInv' /\ \A g \in Fiber : w.state[g] \in Live => worker'.state[g] \in Live
    <2>1. /\ queue' \in [Queue -> Seq(Fiber)]
          /\ \A q \in Queue : Distinct(queue'[q])
          /\ \A p, q \in Queue : p # q => Elems(queue'[p]) \cap Elems(queue'[q]) = {}
      BY <1>3 DEF SyncInv, SyncTypeOK, WaitingIffQueued
    <2> QED
      BY <2>1, <1>2, <1>3, <1>5, <1>6, SwitchLemma, Zenon
  <1> QED
    BY <1>3, <1>4, <1>7, Zenon DEF KeepsLive

\* unblockFirst() makes the first fiber of the queue, if any, Ready.
LEMMA UnblockFirstLemma ==
    ASSUME SyncInv, NEW q \in Queue, unblockFirst(q)
    PROVE  /\ SyncInv' /\ KeepsLive({}) /\ worker'.current = worker.current
           /\ \A p \in Queue \ {q} : queue'[p] = queue[p]
           /\ Elems(queue'[q]) \subseteq Elems(queue[q])
           /\ queue[q] # <<>> => front(queue[q]) \in Elems(queue[q]) \ Elems(queue'[q])
  <1>1. CASE queue[q] = <<>>
    <2>1. worker' = worker /\ queue' = queue
      BY <1>1 DEF unblockFirst
    <2> QED
      BY <2>1, <1>1, Zenon DEF SyncInv, SyncTypeOK, WaitingIffQueued, WorkerConsistent, Queued, KeepsLive
  <1>2. CASE queue[q] # <<>>
    <2>0. PICK f : f = front(queue[q])
      OBVIOUS
    <2>1. worker' = add(wakeup(worker, f), f) /\ queue' = [queue EXCEPT ![q] = pop_front(@)]
      BY <2>0, <1>2 DEF unblockFirst, Woken
    <2>2. /\ queue \in [Queue -> Seq(Fiber)] /\ queue[q] \in Seq(Fiber) /\ Distinct(queue[q])
          /\ \A p \in Queue : Distinct(queue[p])
          /\ \A p, r \in Queue : p # r => Elems(queue[p]) \cap Elems(queue[r]) = {}
          /\ worker \in WorkerType /\ QueuesMatchStates(worker) /\ CurrentRuns(worker)
          /\ ~worker.failed
      BY DEF SyncInv, SyncTypeOK, WaitingIffQueued, WorkerConsistent
    <2>3. /\ f \in Elems(queue[q]) /\ pop_front(queue[q]) \in Seq(Fiber)
          /\ Elems(pop_front(queue[q])) = Elems(queue[q]) \ {f} /\ Distinct(pop_front(queue[q]))
      BY <2>0, <1>2, <2>2, PopFront
    <2>4. f \in Fiber
      BY <2>2, <2>3, ListDomain
    <2>5. /\ queue' \in [Queue -> Seq(Fiber)] /\ \A p \in Queue \ {q} : queue'[p] = queue[p]
          /\ Elems(queue'[q]) = Elems(queue[q]) \ {f} /\ Distinct(queue'[q])
      BY <2>1, <2>2, <2>3
    <2>6. worker.state[f] = "Waiting" /\ f \notin Elems(worker.runnable)
          /\ f \notin Elems(worker.suspended)
      BY <2>2, <2>3, <2>4 DEF SyncInv, WaitingIffQueued, Queued, QueuesMatchStates
    <2>7. /\ worker' \in WorkerType /\ QueuesMatchStates(worker')
          /\ worker'.failed = worker.failed /\ worker'.current = worker.current
          /\ Elems(worker'.runnable) = Elems(worker.runnable) \cup {f}
          /\ worker'.state[f] = "Ready"
          /\ \A g \in Context : g # f => worker'.state[g] = worker.state[g]
      <3>1. worker.state[f] \in {"Waiting", "Dead"}
        BY <2>6
      <3>2. worker \in WorkerType /\ QueuesMatchStates(worker)
        BY <2>2
      <3>3. PICK v : v = worker' /\ v = add(wakeup(worker, f), f)
        BY <2>1
      <3>4. /\ v \in WorkerType /\ QueuesMatchStates(v)
            /\ v.failed = worker.failed /\ v.current = worker.current
            /\ Elems(v.runnable) = Elems(worker.runnable) \cup {f}
            /\ worker.state[f] = "Waiting" => v.state[f] = "Ready"
            /\ \A g \in Context : g # f => v.state[g] = worker.state[g]
        BY <3>1, <3>2, <3>3, <2>4, <2>6, WakeLemma
      <3> QED
        BY <3>3, <3>4, <2>6
    <2>8. /\ worker'.state[f] = "Ready"
          /\ \A g \in Context : g # f => worker'.state[g] = worker.state[g]
      BY <2>7
    <2>9. SyncTypeOK'
      BY <2>5, <2>7 DEF SyncTypeOK
    <2>10. WaitingIffQueued'
      <3>1. \A g \in Fiber : worker'.state[g] = "Waiting" <=> Queued(g)'
        <4>1. ~Queued(f)'
          BY <2>2, <2>3, <2>5, Zenon DEF Queued
        <4>2. \A g \in Fiber : g # f => (Queued(g)' <=> Queued(g))
          BY <2>5 DEF Queued
        <4> QED
          BY <4>1, <4>2, <2>8 DEF SyncInv, WaitingIffQueued, Context
      <3>2. \A p \in Queue : Distinct(queue'[p]) /\ Elems(queue'[p]) \subseteq Elems(queue[p])
        BY <2>2, <2>5, Zenon
      <3>3. \A p, r \in Queue : p # r => Elems(queue'[p]) \cap Elems(queue'[r]) = {}
        BY <2>2, <3>2, Zenon
      <3> QED
        BY <3>1, <3>2, <3>3 DEF WaitingIffQueued
    <2>11. WorkerConsistent'
      <3>1. CurrentRuns(worker')
        BY <2>2, <2>6, <2>7, <2>8 DEF CurrentRuns, Context
      <3>2. CanSwitch(worker', FALSE)
        BY <2>7, <2>8 DEF CanSwitch
      <3> QED
        BY <2>2, <2>7, <3>1, <3>2, Zenon DEF WorkerConsistent
    <2>12. KeepsLive({})
      BY <2>8 DEF KeepsLive, Live, Context
    <2> QED
      BY <2>0, <2>3, <2>5, <2>7, <2>9, <2>10, <2>11, <2>12 DEF SyncInv
  <1> QED
    BY <1>1, <1>2

\* unblockAll() makes all fibers of the queue Ready.
LEMMA UnblockAllLemma ==
    ASSUME SyncInv, NEW q \in Queue, unblockAll(q)
    PROVE  /\ SyncInv' /\ KeepsLive({}) /\ worker'.current = worker.current
           /\ queue' = [queue EXCEPT ![q] = <<>>]
  <1> DEFINE r == appendAll(worker.runnable, queue[q])
             st == [f \in Context |-> IF f \in Elems(queue[q]) THEN worker.stateNext[f]
                                                              ELSE worker.state[f]]
  <1>1. /\ queue \in [Queue -> Seq(Fiber)] /\ queue[q] \in Seq(Fiber) /\ Distinct(queue[q])
        /\ \A p \in Queue : Distinct(queue[p])
        /\ \A p, s \in Queue : p # s => Elems(queue[p]) \cap Elems(queue[s]) = {}
        /\ worker \in WorkerType /\ QueuesMatchStates(worker) /\ CurrentRuns(worker)
        /\ ~worker.failed
        /\ worker.runnable \in Seq(Fiber) /\ Distinct(worker.runnable)
    BY DEF SyncInv, SyncTypeOK, WaitingIffQueued, WorkerConsistent, WorkerType, QueuesMatchStates
  <1>2. Elems(queue[q]) \subseteq Fiber
    BY <1>1, ListDomain
  <1>3. \A f \in Elems(queue[q]) : /\ worker.state[f] = "Waiting" /\ worker.stateNext[f] = "Ready"
                                   /\ f \notin Elems(worker.runnable)
                                   /\ f \notin Elems(worker.suspended)
    BY <1>1, <1>2 DEF SyncInv, WaitingIffQueued, Queued, QueuesMatchStates
  <1>4. Elems(worker.runnable) \cap Elems(queue[q]) = {}
    BY <1>3
  <1>5. r \in Seq(Fiber) /\ Distinct(r) /\ Elems(r) = Elems(worker.runnable) \cup Elems(queue[q])
    BY <1>1, <1>4, AppendAll
  <1>6. st \in [Context -> State]
    BY <1>1 DEF WorkerType
  <1>7. \A f \in Context : st[f] = IF f \in Elems(queue[q]) THEN "Ready" ELSE worker.state[f]
    BY <1>3, Zenon
  <1>8. worker' = [worker EXCEPT !.runnable = r, !.state = st]
        /\ queue' = [queue EXCEPT ![q] = <<>>]
    BY DEF unblockAll, WokenAll
  <1> HIDE DEF r, st
  <1>9. worker' \in WorkerType
    BY <1>1, <1>5, <1>6, <1>8, Zenon DEF WorkerType
  <1>10. /\ worker'.runnable = r /\ worker'.state = st /\ worker'.stateNext = worker.stateNext
         /\ worker'.suspended = worker.suspended /\ worker'.current = worker.current
         /\ worker'.failed = worker.failed
    BY <1>1, <1>8 DEF WorkerType
  <1>11. /\ queue' \in [Queue -> Seq(Fiber)] /\ \A p \in Queue \ {q} : queue'[p] = queue[p]
         /\ queue'[q] = <<>> /\ Elems(queue'[q]) = {} /\ Distinct(queue'[q])
    BY <1>1, <1>8 DEF Elems, Distinct
  <1>12. WaitingIffQueued'
    <2>1. \A g \in Fiber : worker'.state[g] = "Waiting" <=> Queued(g)'
      <3>1. \A g \in Elems(queue[q]) : ~Queued(g)'
        BY <1>1, <1>11, SMTT(30) DEF Queued
      <3>2. \A g \in Fiber \ Elems(queue[q]) : Queued(g)' <=> Queued(g)
        BY <1>11, Zenon DEF Queued
      <3> QED
        BY <3>1, <3>2, <1>7, <1>10 DEF SyncInv, WaitingIffQueued, Context
    <2>2. \A p \in Queue : Distinct(queue'[p]) /\ Elems(queue'[p]) \subseteq Elems(queue[p])
      BY <1>1, <1>11
    <2>3. \A p, s \in Queue : p # s => Elems(queue'[p]) \cap Elems(queue'[s]) = {}
      BY <1>1, <2>2, Zenon
    <2> QED
      BY <2>1, <2>2, <2>3 DEF WaitingIffQueued
  <1>13. QueuesMatchStates(worker')
    <2>1. /\ worker'.state[workerFiber] = worker.state[workerFiber]
      BY <1>2, <1>7, <1>10, WorkerAssumption DEF Context
    <2>2. ASSUME NEW g \in Fiber
          PROVE  /\ g \in Elems(worker'.runnable) =>
                       worker'.state[g] \in {"New", "Ready", "Running", "Dead"}
                 /\ g \in Elems(worker'.suspended) =>
                       worker'.state[g] \in {"Suspended", "Dead"} /\ g \notin Elems(worker'.runnable)
                 /\ worker'.state[g] \in {"New", "Ready", "Running"} => g \in Elems(worker'.runnable)
                 /\ worker'.state[g] = "Suspended" => g \in Elems(worker'.suspended)
                 /\ worker'.state[g] = "Running" => g = worker'.current
                 /\ worker'.state[g] \in {"New", "Waiting"} => worker'.stateNext[g] = "Ready"
                 /\ worker'.state[g] = "Suspended" => worker'.stateNext[g] \in {"New", "Ready"}
      BY <1>1, <1>3, <1>5, <1>7, <1>10 DEF QueuesMatchStates, Context
    <2> QED
      BY <2>1, <2>2, <1>1, <1>5, <1>10 DEF QueuesMatchStates
  <1>14. WorkerConsistent'
    <2>1. \A f \in Context : worker.state[f] # "Waiting" => worker'.state[f] = worker.state[f]
      BY <1>3, <1>7, <1>10
    <2>2. CurrentRuns(worker')
      BY <2>1, <1>1, <1>10 DEF CurrentRuns, Context
    <2>3. CanSwitch(worker', FALSE) \/ worker'.runnable = <<>>
      <3>1. CASE worker'.runnable # <<>> /\ worker.runnable = <<>>
        <4>1. front(r) \in Elems(r)
          BY <3>1, <1>5, <1>10, PopFront, Zenon
        <4>2. Elems(worker.runnable) = {}
          BY <3>1 DEF Elems
        <4>3. front(r) \in Elems(queue[q])
          BY <4>1, <4>2, <1>5
        <4> QED
          BY <4>1, <4>3, <1>2, <1>7, <1>10 DEF CanSwitch, Context
      <3>2. CASE worker.runnable # <<>>
        <4>1. CanSwitch(worker, FALSE)
          BY <3>2, Zenon DEF SyncInv, WorkerConsistent
        <4>2. \A f \in Elems(worker.runnable) :
                 f \in Context /\ f \in Elems(worker'.runnable) /\ worker'.state[f] = worker.state[f]
          <5>1. Elems(worker.runnable) \subseteq Fiber
            BY <1>1, ListDomain
          <5> QED
            BY <5>1, <1>4, <1>5, <1>7, <1>10 DEF Context
        <4>3. worker'.state[workerFiber] = worker.state[workerFiber]
          BY <1>2, <1>7, <1>10, WorkerAssumption DEF Context
        <4> QED
          BY <4>1, <4>2, <4>3, <1>10 DEF CanSwitch
      <3> QED
        BY <3>1, <3>2, Zenon
    <2> QED
      BY <1>1, <1>10, <1>13, <2>2, <2>3, Zenon DEF WorkerConsistent
  <1>15. KeepsLive({})
    BY <1>7, <1>10 DEF KeepsLive, Live, Context
  <1> QED
    BY <1>8, <1>9, <1>10, <1>11, <1>12, <1>14, <1>15 DEF SyncInv, SyncTypeOK

=============================================================================
