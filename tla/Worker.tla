------------------------------- MODULE Worker -------------------------------
(***************************************************************************)
(* zth::Fiber and zth::Worker (include/libzth/fiber.h, worker.h): the      *)
(* state machine of a fiber and the queues of the worker that runs it.     *)
(*                                                                         *)
(* Fibers are cooperative.  All of the code between two calls of           *)
(* Worker::schedule() is one atomic step of the fiber that is current, so  *)
(* the member functions are operators from the worker before the call to   *)
(* the worker after it, composed in the order in which the code calls      *)
(* them.  The worker w is a record:                                        *)
(*   state, stateNext     Fiber::m_state and m_stateNext of every fiber    *)
(*   runnable, suspended  m_runnableQueue and m_suspendedQueue             *)
(*   current              m_currentFiber; workerFiber stands for the null  *)
(*                        pointer: the context of Worker::run() itself     *)
(*   failed               a zth_assert() failed, or zth_abort() was called *)
(***************************************************************************)
EXTENDS List, FiniteSets

CONSTANTS Fiber,        \* the fibers of the worker
          workerFiber   \* m_workerFiber

ASSUME WorkerAssumption == workerFiber \notin Fiber /\ IsFiniteSet(Fiber)

\* Finitely many fibers can be counted.
ASSUME CountAssumption == Cardinality(Fiber) \in Nat

State == {"Uninitialized", "New", "Ready", "Running", "Waiting", "Suspended", "Dead"}

Context == Fiber \cup {workerFiber}

WorkerType ==
    [state : [Context -> State], stateNext : [Context -> State],
     runnable : Seq(Fiber), suspended : Seq(Fiber),
     current : Context, failed : BOOLEAN]

\* The worker just after its construction: the fibers of q are hatched, none
\* has run, and m_workerFiber has been initialized.
NewWorker(q) ==
    [state |-> [f \in Context |-> IF f = workerFiber THEN "Ready"
                                  ELSE IF f \in Elems(q) THEN "New"
                                  ELSE "Uninitialized"],
     stateNext |-> [f \in Context |-> "Ready"],
     runnable |-> q, suspended |-> <<>>,
     current |-> workerFiber, failed |-> FALSE]

-----------------------------------------------------------------------------
(* Fiber *)

Become(w, f, s, next) ==
    [w EXCEPT !.state[f] = s, !.stateNext[f] = next]

kill(w, f) == [w EXCEPT !.state[f] = "Dead"]

nap(w, f) ==
    CASE w.state[f] \in {"New", "Suspended"} -> [w EXCEPT !.stateNext[f] = "Waiting"]
      [] w.state[f] \in {"Ready", "Running"} -> Become(w, f, "Waiting", "Ready")
      [] OTHER -> w

wakeup(w, f) ==
    CASE w.state[f] = "Waiting" ->
            Become(w, f, w.stateNext[f],
                   IF w.stateNext[f] = "Suspended" THEN "Ready" ELSE w.stateNext[f])
      [] w.state[f] = "Suspended" /\ w.stateNext[f] = "Waiting" ->
            [w EXCEPT !.stateNext[f] = "Ready"]
      [] OTHER -> w

fiberSuspend(w, f) ==
    CASE w.state[f] = "New" -> Become(w, f, "Suspended", "New")
      [] w.state[f] \in {"Running", "Ready"} -> Become(w, f, "Suspended", "Ready")
      [] w.state[f] = "Waiting" -> [w EXCEPT !.stateNext[f] = "Waiting"]
      [] OTHER -> w

fiberResume(w, f) ==
    IF w.state[f] = "Suspended"
    THEN Become(w, f, w.stateNext[f],
                IF w.stateNext[f] = "New" THEN "Ready" ELSE w.stateNext[f])
    ELSE w

-----------------------------------------------------------------------------
(* Worker *)

\* "We don't manage 'Waiting' here": the assertion at the top of add().
AddTo(w, f, q) ==
    CASE w.state[f] = "Waiting" -> [w EXCEPT !.failed = TRUE]
      [] w.state[f] = "Suspended" -> [w EXCEPT !.suspended = push_back(@, f)]
      [] OTHER -> [w EXCEPT !.runnable = q]

\* add(f), and add(f, front = true).
add(w, f) == AddTo(w, f, push_back(w.runnable, f))

addFront(w, f) == AddTo(w, f, push_front(w.runnable, f))

\* A new Fiber object, hatched.
hatch(w, f) == add(Become(w, f, "New", "Ready"), f)

release(w, f) ==
    IF w.state[f] = "Suspended" THEN [w EXCEPT !.suspended = erase(@, f)]
                                ELSE [w EXCEPT !.runnable = erase(@, f)]

\* Mutant of run: the fiber that gives way is not set back to Ready.
run_KeepsFrom(w, f) ==
    LET s == IF w.state[f] = "New" THEN w.stateNext[f] ELSE w.state[f]
    IN  CASE f = w.current /\ s = "Running" -> w
          [] f # w.current /\ s \in {"Ready", "Running"} ->
                [w EXCEPT !.current = f, !.state[f] = "Running", !.stateNext[f] = "Ready"]
          [] OTHER -> [w EXCEPT !.failed = TRUE]

\* Fiber::run() of f, called by the current context.  Switching to the fiber
\* that already runs is EAGAIN; a fiber that is not Ready fails an assertion.
run(w, f) ==
    LET s == IF w.state[f] = "New" THEN w.stateNext[f] ELSE w.state[f]
    IN  CASE f = w.current /\ s = "Running" -> w
          [] f # w.current /\ s = "Ready" ->
                [w EXCEPT !.current = f,
                          !.state = [g \in Context |->
                             CASE g = f -> "Running"
                               [] g = w.current /\ w.state[g] = "Running" -> "Ready"
                               [] OTHER -> w.state[g]],
                          !.stateNext[f] = IF w.state[f] = "New" THEN "Ready" ELSE @]
          [] OTHER -> [w EXCEPT !.failed = TRUE]

\* cleanup() of dead fibers that schedule() meets at the front of the queue.
\* A dead fiber that is itself current is left for the worker's context.
Stays(w, i) == w.state[w.runnable[i]] # "Dead" \/ w.runnable[i] = w.current

FirstStaying(w) ==
    IF \E i \in DOMAIN w.runnable : Stays(w, i)
    THEN CHOOSE i \in DOMAIN w.runnable :
            Stays(w, i) /\ \A j \in 1 .. i - 1 : ~Stays(w, j)
    ELSE Len(w.runnable) + 1

Reaped(w) == {w.runnable[i] : i \in 1 .. FirstStaying(w) - 1}

cleanup(w) ==
    [w EXCEPT !.runnable = From(@, FirstStaying(w)),
              !.state = [f \in Context |->
                            IF f \in Reaped(w) THEN "Uninitialized" ELSE w.state[f]]]

\* The fiber schedule() decides to switch to, after the clean up.
NextFiber(v) ==
    IF v.runnable = <<>> \/ v.state[front(v.runnable)] = "Dead"
    THEN workerFiber ELSE front(v.runnable)

\* Mutant of schedule: the end of Worker::run() is not looked at.
schedule_Endless(w, timeUp) ==
    LET v == cleanup(w)
        r == IF v.runnable = <<>> THEN v
             ELSE [v EXCEPT !.runnable = rotateAfter(@, front(@))]
    IN  run(r, NextFiber(v))

\* schedule(nullptr).  timeUp: runEnd() is before now.
schedule(w, timeUp) ==
    IF timeUp THEN run(w, workerFiber)
    ELSE LET v == cleanup(w)
             r == IF v.runnable = <<>> THEN v
                  ELSE [v EXCEPT !.runnable = rotateAfter(@, front(@))]
         IN  run(r, NextFiber(v))

\* The return value of schedule(): false when we are not rescheduled.
didSchedule(w, timeUp) ==
    schedule(w, timeUp).current # w.current \/ (~timeUp /\ Reaped(w) # {})

\* schedule(&f), with f in the runnable queue and alive.
scheduleTo(w, f, timeUp) ==
    IF timeUp THEN run(w, workerFiber)
    ELSE run([w EXCEPT !.runnable = rotateAfter(@, f)], f)

suspend(w, f, timeUp) ==
    LET s == add(fiberSuspend(release(w, f), f), f)
    IN  CASE w.state[f] \in {"New", "Ready"} -> s
          [] w.state[f] = "Running" -> schedule(s, timeUp)
          [] w.state[f] = "Waiting" -> fiberSuspend(w, f)
          [] OTHER -> w

\* Mutant of resume: the fiber is not released from the suspended queue.
resume_Keeps(w, f) == IF w.state[f] = "Suspended" THEN add(fiberResume(w, f), f) ELSE w

resume(w, f) ==
    IF w.state[f] = "Suspended" THEN add(fiberResume(release(w, f), f), f)
                                ELSE w

\* The end of fiberEntry_() and context_entry(): kill(), then yield().
exit(w, f, timeUp) == schedule(kill(w, f), timeUp)

-----------------------------------------------------------------------------
(* Invariants of the worker *)

\* What add(), release() and Fiber::setState() keep between them: a fiber is
\* in the list that its state says, in one list only, and only once.
QueuesMatchStates(w) ==
    /\ Distinct(w.runnable) /\ Distinct(w.suspended)
    /\ \A f \in Fiber :
          /\ f \in Elems(w.runnable) =>
                w.state[f] \in {"New", "Ready", "Running", "Dead"}
          /\ f \in Elems(w.suspended) =>
                w.state[f] \in {"Suspended", "Dead"} /\ f \notin Elems(w.runnable)
          /\ w.state[f] \in {"New", "Ready", "Running"} => f \in Elems(w.runnable)
          /\ w.state[f] = "Suspended" => f \in Elems(w.suspended)
          /\ w.state[f] = "Running" => f = w.current
          /\ w.state[f] \in {"New", "Waiting"} => w.stateNext[f] = "Ready"
          /\ w.state[f] = "Suspended" => w.stateNext[f] \in {"New", "Ready"}
    /\ w.state[workerFiber] \in {"Ready", "Running"}
    /\ w.state[workerFiber] = "Running" => w.current = workerFiber

\* The fiber that has the processor is Running.  This holds between two
\* calls of schedule(), and not while a fiber is about to give way.
CurrentRuns(w) == w.current \in Fiber => w.state[w.current] = "Running"

\* Fiber::run() of m_workerFiber by itself is an error (the first assertion of
\* case Ready) as long as no fiber has run.
CanSwitch(w, timeUp) ==
    \/ w.current \in Fiber
    \/ w.state[workerFiber] = "Running"
    \/ ~timeUp /\ \E f \in Elems(w.runnable) : w.state[f] # "Dead"

=============================================================================
