-------------------------------- MODULE Join --------------------------------
(***************************************************************************)
(* Fibers that return a value (include/libzth/async.h): TypedFiber and its *)
(* Future, passOnExit() and the Gate that it passes, and joiner, which     *)
(* waits for fibers and futures when it goes out of scope.                 *)
(*                                                                         *)
(* The fiber main hatches the others, keeps or drops its handle of each    *)
(* (a fiber_type, which shares the ownership of the fiber with the         *)
(* worker), and has a joiner on its stack now and then.  Fibers are not    *)
(* killed here: their functions return, or throw.                          *)
(***************************************************************************)
EXTENDS Synchronizer, SequencesExt

CONSTANTS main,
          LateJoins,  \* whether main also joins fibers that have ended already
          NoValue

ASSUME JoinAssumption ==
    main \in Fiber /\ Size = Cardinality(Fiber) /\ LateJoins \in BOOLEAN

Child == Fiber \ {main}

Result == {"value", "exception"}

\* The queues: one for the gate, and one for the future of each fiber.
GateQueue == 0

FutureQueue == CHOOSE q \in [Child -> Queue \ {GateQueue}] : IsInjective(q)

VARIABLES life,      \* of each child: unborn, alive, or exited
          handles,   \* the children that main has a handle of
          m_future,  \* the children that have a future
          m_value,   \* the value of each future
          m_exit,    \* the children that pass the gate at their exit
          m_gate,    \* m_count and m_current of the gate of the joiner
          m_join,    \* the futures that the joiner is to wait for
          joined,    \* what the joiner in scope was constructed with
          pc, on     \* of each fiber: the function it is in, and the future it waits for

asyncVars == <<life, handles, m_future, m_value>>

joinVars == <<m_exit, m_gate, m_join, joined>>

vars == <<worker, queue, asyncVars, joinVars, pc, on>>

NoGate == [count |-> 0, current |-> 0]

Init ==
    /\ worker = NewWorker(<<main>>)
    /\ queue = [q \in Queue |-> <<>>]
    /\ life = [c \in Child |-> "unborn"]
    /\ handles = {} /\ m_future = {} /\ m_value = [c \in Child |-> NoValue]
    /\ m_exit = {} /\ m_gate = NoGate /\ m_join = <<>> /\ joined = {}
    /\ pc = [f \in Fiber |-> "idle"]
    /\ on = [f \in Fiber |-> main]

valid(c) == m_value[c] # NoValue

Idle(f) == Runs(f) /\ pc[f] = "idle"

InScope == joined # {}

-----------------------------------------------------------------------------
(* Gate::pass() *)

opens(g) == g.current + 1 >= g.count

passed(g) == [g EXCEPT !.current = IF opens(g) THEN @ + 1 - g.count ELSE @ + 1]

-----------------------------------------------------------------------------
(* TypedFiberFactory, fiber_type *)

spawn(c) ==
    /\ Idle(main) /\ life[c] = "unborn"
    /\ worker' = hatch(worker, c)
    /\ life' = [life EXCEPT ![c] = "alive"]
    /\ handles' = handles \cup {c}
    /\ UNCHANGED <<queue, m_future, m_value, joinVars, pc, on>>

\* A handle goes out of scope.  A fiber that was joined too late keeps its
\* handle: ~Fiber() would run the hook.
drop(c) ==
    /\ Idle(main) /\ c \in handles
    /\ c \in m_exit => life[c] = "alive"
    /\ handles' = handles \ {c}
    /\ UNCHANGED <<worker, queue, life, m_future, m_value, joinVars, pc, on>>

\* Mutants of registers: the state of the fiber is not looked at; and a future
\* that exists already is registered again.
registers_Dead(c) == FALSE

registers_Again(c) == life[c] = "exited"

\* registerFuture() sets the future of a fiber that is dead already.
registers(c) == c \notin m_future /\ life[c] = "exited"

\* Nobody waits for a future that is new.
withFuture(c) ==
    /\ Idle(main) /\ c \in handles
    /\ m_future' = m_future \cup {c}
    /\ m_value' = IF registers(c) THEN [m_value EXCEPT ![c] = "exception"] ELSE m_value
    /\ UNCHANGED <<worker, queue, life, handles, joinVars, pc, on>>

\* The fibers that setFuture(), and the hook of passOnExit(), unblock.
futureWaiters(c) == IF c \in m_future THEN queue[FutureQueue[c]] ELSE <<>>

gateWaiters(c) == IF c \in m_exit /\ opens(m_gate) THEN queue[GateQueue] ELSE <<>>

\* Mutant of once: the hook is run, but not removed.
once_Keeps(c) == m_exit

once(c) == m_exit \ {c}

\* The function of c returns or throws: entry() sets the future, fiberEntry_()
\* runs the hooks of m_exit once, and the fiber dies.
exits(c, r) ==
    /\ Idle(c)
    /\ m_value' = IF c \in m_future THEN [m_value EXCEPT ![c] = r] ELSE m_value
    /\ m_gate' = IF c \in m_exit THEN passed(m_gate) ELSE m_gate
    /\ m_exit' = once(c)
    /\ queue' = [queue EXCEPT ![FutureQueue[c]] = SelectSeq(@, LAMBDA f : f \notin Elems(futureWaiters(c))),
                              ![GateQueue] = SelectSeq(@, LAMBDA f : f \notin Elems(gateWaiters(c)))]
    /\ worker' = exit(WokenAll(WokenAll(worker, futureWaiters(c)), gateWaiters(c)), c, FALSE)
    /\ life' = [life EXCEPT ![c] = "exited"]
    /\ UNCHANGED <<handles, m_future, m_join, joined, pc, on>>

-----------------------------------------------------------------------------
(* Future *)

\* Fibers of this program do not wait for each other in a circle.
MayWait(f, c) == f = main \/ (f \in Child /\ FutureQueue[c] < FutureQueue[f])

\* Mutant of value: the future is not looked at.
value_Blocks(f, c) ==
    /\ Idle(f) /\ MayWait(f, c) /\ c \in m_future
    /\ block(f, FutureQueue[c])
    /\ pc' = [pc EXCEPT ![f] = "value"]
    /\ on' = [on EXCEPT ![f] = c]
    /\ UNCHANGED <<asyncVars, joinVars>>

\* Any fiber that has a reference to the future of c waits for its value: the
\* call of Future::wait() that blocks, and its return.
value(f, c) ==
    /\ Idle(f) /\ MayWait(f, c) /\ c \in m_future /\ ~valid(c)
    /\ block(f, FutureQueue[c])
    /\ pc' = [pc EXCEPT ![f] = "value"]
    /\ on' = [on EXCEPT ![f] = c]
    /\ UNCHANGED <<asyncVars, joinVars>>

valueEnd(f) ==
    /\ Runs(f) /\ pc[f] = "value"
    /\ pc' = [pc EXCEPT ![f] = "idle"]
    /\ on' = [on EXCEPT ![f] = main]
    /\ UNCHANGED <<worker, queue, asyncVars, joinVars>>

-----------------------------------------------------------------------------
(* joiner *)

\* joiner(...) of fibers S, which pass the gate upon exit, and of futures F, for
\* which the joiner does so.
joiner(S, F) ==
    /\ Idle(main) /\ ~InScope
    /\ S \subseteq handles /\ F \subseteq m_future /\ S \cap F = {} /\ S \cup F # {}
    /\ LateJoins \/ \A c \in S : life[c] = "alive"
    /\ m_gate' = [count |-> Cardinality(S) + Cardinality(F) + 1, current |-> 0]
    /\ m_exit' = S
    /\ m_join' \in SetToSeqs(F)
    /\ joined' = S \cup F
    /\ UNCHANGED <<worker, queue, asyncVars, pc, on>>

\* Main is at a place of ~joiner(), and goes to another.
At(p) == Runs(main) /\ pc[main] = p

Goes(p, c) == pc' = [pc EXCEPT ![main] = p] /\ on' = [on EXCEPT ![main] = c]

\* Mutant of joinFuture: the future is not waited for.
joinFuture_Skips ==
    /\ At("idle") \/ At("join")
    /\ InScope /\ m_join # <<>>
    /\ Goes("pass", main)
    /\ UNCHANGED <<worker, queue, asyncVars, joinVars>>

\* ~joiner(): m_join.once() waits for one future after the other ...
joinFuture ==
    /\ At("idle") \/ At("join")
    /\ InScope /\ m_join # <<>>
    /\ IF valid(Head(m_join)) THEN Goes("pass", main) /\ UNCHANGED <<worker, queue>>
       ELSE Goes("pass", Head(m_join)) /\ block(main, FutureQueue[Head(m_join)])
    /\ UNCHANGED <<asyncVars, joinVars>>

\* Mutant of joinPass: the gate is not passed for a future.
joinPass_Forgets ==
    /\ At("pass")
    /\ Goes("join", main)
    /\ m_join' = Tail(m_join)
    /\ UNCHANGED <<worker, queue, asyncVars, m_exit, m_gate, joined>>

\* ... and passes the gate for each.  Nobody but main waits at the gate.
joinPass ==
    /\ At("pass")
    /\ Goes("join", main)
    /\ m_join' = Tail(m_join)
    /\ m_gate' = passed(m_gate)
    /\ UNCHANGED <<worker, queue, asyncVars, m_exit, joined>>

\* m_gate.wait(), and the end of the scope.
EndOfScope ==
    /\ Goes("idle", main)
    /\ m_gate' = NoGate /\ joined' = {}
    /\ UNCHANGED <<worker, queue, asyncVars, m_exit, m_join>>

joinGate ==
    /\ At("idle") \/ At("join")
    /\ InScope /\ m_join = <<>>
    /\ IF opens(m_gate) THEN EndOfScope
       ELSE /\ block(main, GateQueue)
            /\ Goes("gate", main)
            /\ m_gate' = passed(m_gate)
            /\ UNCHANGED <<asyncVars, m_exit, m_join, joined>>

joinEnd == At("gate") /\ EndOfScope

-----------------------------------------------------------------------------

yield(f) == Yield(f) /\ pc[f] = "idle" /\ UNCHANGED <<asyncVars, joinVars, pc, on>>

\* Main ends when nothing of it is in scope.
mainExit == Exit(main) /\ Idle(main) /\ ~InScope /\ handles = {} /\ UNCHANGED <<asyncVars, joinVars, pc, on>>

run_ == RunWorker /\ UNCHANGED <<asyncVars, joinVars, pc, on>>

stop == Stopped /\ UNCHANGED vars

JoinerNext ==
    \/ \E S, F \in SUBSET Child : joiner(S, F)
    \/ joinFuture \/ joinPass \/ joinGate \/ joinEnd

FiberNext(f) == (\E c \in Child : value(f, c)) \/ valueEnd(f) \/ yield(f)

Next ==
    \/ run_ \/ stop \/ mainExit \/ JoinerNext
    \/ \E c \in Child : spawn(c) \/ drop(c) \/ withFuture(c) \/ \E r \in Result : exits(c, r)
    \/ \E f \in Fiber : FiberNext(f)

Spec == Init /\ [][Next]_vars

\* The thread goes on: whoever is current continues in the function it is in, or
\* yields.
GoesOn ==
    \/ run_ \/ joinPass \/ joinEnd
    \/ At("join") /\ (joinFuture \/ joinGate)
    \/ \E f \in Fiber : valueEnd(f) \/ yield(f)

\* ENABLED <<GoesOn>>_vars: yield() by a fiber that is alone changes nothing.
CanGoOn ==
    \/ Runs(workerFiber) /\ worker.runnable # <<>>
    \/ \E f \in Fiber : Runs(f) /\ (pc[f] # "idle" \/ Len(worker.runnable) > 1)

\* Weak fairness of GoesOn.  The function of every fiber ends some time: as a fiber exits once, and can do
\* so whenever it is idle, this is strong fairness of exits().
Fairness ==
    /\ []<>~CanGoOn \/ []<><<GoesOn>>_vars
    /\ \A c \in Child : <>[]~Idle(c)

-----------------------------------------------------------------------------
(* Properties *)

JoinTypeOK ==
    /\ SyncTypeOK
    /\ life \in [Child -> {"unborn", "alive", "exited"}]
    /\ handles \subseteq Child /\ m_future \subseteq Child /\ m_exit \subseteq Child
    /\ m_value \in [Child -> Result \cup {NoValue}]
    /\ m_gate \in [count : 0 .. Size, current : 0 .. Size]
    /\ m_join \in Seq(Child) /\ joined \subseteq Child
    /\ pc \in [Fiber -> {"idle", "value", "join", "pass", "gate"}] /\ on \in [Fiber -> Fiber]

\* "When j goes out of scope, all fibers and futures are joined": the scope of a
\* joiner ends only after every fiber and future that it joins has ended
\* (joiner::~joiner(), the count of its gate), and a value that a future has by
\* then is never replaced (Future::set_prepare()).
JoinedHaveEnded ==
    [][/\ InScope /\ joined' = {} => \A c \in joined : life[c] = "exited" \/ valid(c)
       /\ \A c \in Child : valid(c) => m_value'[c] = m_value[c]]_vars

\* The gate is on the stack of main: no fiber has a hook that refers to it once
\* it is gone (passOnExit::atExit(), Hook::once()).
HooksHaveGate == m_exit \subseteq joined

\* wait() does not look at the future again when block() returns.  Still, a fiber
\* waits for a future if and only if that has no value yet: nobody goes on early,
\* and nobody is left behind (Future::wait(), set_finalize()).
WaitsUntilValid ==
    \A f \in Fiber : on[f] # main => (valid(on[f]) <=> ~Queued(f))

\* The future of a fiber that has ended has a value, whether it was made before
\* or after the end (registerFuture(), entry()), and keeps it.
EndedHasValue == \A c \in m_future : life[c] = "exited" <=> valid(c)

\* A fiber, its future and the gate of its joiner tell the same (registerFuture(),
\* set_finalize(), passOnExit::atExit()).
FuturesTellEnds == HooksHaveGate /\ WaitsUntilValid /\ EndedHasValue

\* ~joiner() returns, when the fibers that it joins end: the arrivals at the gate
\* add up to its count (passOnExit::atExit(), joinable(), Gate::pass()).
JoinReturns == pc[main] \in {"join", "pass", "gate"} ~> pc[main] = "idle"
=============================================================================
