-------------------------------- MODULE Fsm ---------------------------------
(***************************************************************************)
(* zth::fsm::BasicFsm and Fsm (include/libzth/fsm14.h): a state machine    *)
(* that one fiber runs, while the other fibers of the worker give it input *)
(* symbols, make a guard true, stop it and reset it.  Its trigger is a     *)
(* Signal.  The signal is also used on its own, by all fibers, as module   *)
(* Signal describes; which of the two happens is chosen initially.         *)
(*                                                                         *)
(* fsm is the record of the members of the Fsm:                            *)
(*   state, prev, transition   indices in the table; 0 is the initial one  *)
(*   flags, stack              m_flags and m_stack                         *)
(*   inputs                    how often each symbol is in m_inputs        *)
(*   t                         m_t, when the current state was entered     *)
(*   failed                    a zth_assert() failed                       *)
(***************************************************************************)
EXTENDS Signal, Transitions

CONSTANTS Programs,    \* the descriptions that are executed
          Listings,    \* the descriptions that are only compiled
          Inputs,      \* the input symbols
          runner,      \* the fiber that calls run()
          Users,       \* the other fibers that use the Fsm
          Durations,   \* the times for which run(until) is called
          MaxInputs,   \* bound on the inputs that wait
          MaxTime      \* bound on the clock

VARIABLES driver,      \* what happens: "signal", "compile" or "fsm"
          lines,       \* the description
          table,       \* what it is compiled to
          fsm,
          call,        \* run(): pc, and its arguments until and whenBlocked
          alarm,       \* the AlarmClock of the wait() in run()
          ready,       \* what the guard "ready" of the user looks at
          now,
          callers,     \* history: the states in which a push was done
          entered      \* history: when a state was entered last

fsmVars == <<driver, lines, table, fsm, call, alarm, ready, now, callers, entered>>

allVars == <<vars, fsmVars>>

Infinity == 1000000   \* TimeInterval::infinity()

Description(ls) == [i \in DOMAIN ls |-> Line(ls[i])]

Timeout == [timeout_1 |-> 1, timeout_2 |-> 2]

-----------------------------------------------------------------------------
(* BasicFsm *)

clearFsm(f) ==
    [f EXCEPT !.state = 0, !.prev = 0, !.transition = 0, !.flags = {}, !.stack = <<>>]

hasInput(f, s) == valid(s) /\ f.inputs[s] > 0

\* GuardPollInterval: the time until transition i of the table may be enabled.
poll(f, i) ==
    LET when(c) == IF c THEN 0 ELSE Infinity
        t == table[i]
    IN  IF valid(t.input) THEN when(hasInput(f, t.input))
        ELSE CASE t.guard = "always" -> 0
               [] t.guard = "never" -> Infinity
               [] t.guard = "entry" -> when("entry" \in f.flags)
               [] t.guard = "popped" -> when("popped" \in f.flags)
               [] t.guard = "ready" -> when(ready)
               [] OTHER -> Timeout[t.guard] - (now - f.t)

\* Mutant of enter: the time is that of the last action, not of the last transition.
enterTime_Always(f) == now

\* Fsm::enter(), before the action.
enterTime(f) == IF "transition" \in f.flags THEN now ELSE f.t

\* Mutant of push: the state that is entered is pushed.
push_Current(f) ==
    [f EXCEPT !.stack = Append(@, f.state), !.flags = @ \cup {"pushed"}]

push(f) == [f EXCEPT !.stack = Append(@, f.prev), !.flags = @ \cup {"pushed"}]

pop(f) ==
    IF f.stack = <<>> \/ Last(f.stack) = 0 THEN [f EXCEPT !.failed = TRUE]
    ELSE LET to == Last(f.stack)
             loop == IF f.state = to THEN {"selfloop"} ELSE {}
         IN  [f EXCEPT !.flags = (@ \ {"blocked", "selfloop", "pushed", "input"})
                                   \cup loop \cup {"transition", "popped", "entry"},
                       !.prev = f.state,
                       !.state = to,
                       !.stack = Front(@),
                       !.transition = 0,
                       !.t = now]

\* clearInput(): the symbol of the input guard that was just taken.
consume(f) ==
    LET s == table[f.transition].input
    IN  IF "input" \in f.flags /\ hasInput(f, s) THEN [f EXCEPT !.inputs[s] = @ - 1] ELSE f

\* The action of the transition that was taken: one of the standard actions, or
\* the action "unready" of the user, which changes nothing of the Fsm.
act(f) ==
    LET a == table[f.transition].action
    IN  CASE f.transition = 0 -> f
          [] a = "push" -> push(f)
          [] a = "pop" -> pop(f)
          [] a = "consume" -> consume(f)
          [] a = "stop" -> [f EXCEPT !.flags = @ \cup {"stop"}]
          [] OTHER -> f

enter(f) == act([f EXCEPT !.t = enterTime(f)])

\* Take transition i.
take(f, i) ==
    LET to == table[i].to
        input == IF valid(table[i].input) THEN {"input"} ELSE {}
        loop == IF to = f.state THEN {"selfloop"} ELSE {}
        g == [f EXCEPT !.transition = i,
                       !.flags = (@ \ {"blocked", "transition", "input"}) \cup input]
        h == [g EXCEPT !.flags = (@ \ {"selfloop", "popped", "pushed"})
                                   \cup loop \cup {"transition"},
                       !.prev = f.state,
                       !.state = to]
        e == enter(h)
    IN  IF to = 0 THEN enter(g) ELSE [e EXCEPT !.flags = @ \cup {"entry"}]

EnabledAt(f) == {i \in Scan(table, f.state) : poll(f, i) <= 0}

Interval(f) == Min({poll(f, i) : i \in Scan(table, f.state)})

\* step(): the guard "entry" is false the next time that it is looked at.
step(f) ==
    LET i == Min(EnabledAt(f))
        g == IF table[i].guard = "entry" THEN [f EXCEPT !.flags = @ \ {"entry"}] ELSE f
    IN  IF EnabledAt(f) = {} THEN [f EXCEPT !.flags = @ \cup {"blocked"}] ELSE take(g, i)

-----------------------------------------------------------------------------
(* Fsm *)

NewFsm ==
    [state |-> 0, prev |-> 0, transition |-> 0, flags |-> {}, stack |-> <<>>,
     inputs |-> [s \in Inputs |-> 0], t |-> 0, failed |-> FALSE]

Idle == [pc |-> "idle", until |-> Infinity, whenBlocked |-> FALSE]

FsmOrders == {q \in [1 .. Cardinality(Users) + 1 -> Users \cup {runner}] : Distinct(q)}

FsmInit ==
    /\ \/ driver = "signal" /\ lines = <<>> /\ Init
       \/ driver = "compile" /\ lines \in Listings /\ worker = NewWorker(<<>>)
       \/ driver = "fsm" /\ lines \in Programs /\ \E q \in FsmOrders : worker = NewWorker(q)
    /\ queue = [q \in Queue |-> <<>>]
    /\ m_signalled = 0
    /\ pc = [f \in Fiber |-> "idle"]
    /\ table = IF driver = "compile" THEN <<>> ELSE compile(Description(lines))
    /\ fsm = NewFsm
    /\ call = Idle
    /\ alarm = Infinity
    /\ ready = FALSE
    /\ now = 0
    /\ callers = <<>>
    /\ entered = 0

Unsignalled == UNCHANGED <<m_signalled, pc>>

\* run(until), run(whenBlocked)
runFsm(until, whenBlocked) ==
    /\ Runs(runner) /\ call.pc = "idle"
    /\ call' = [pc |-> "step", until |-> until, whenBlocked |-> whenBlocked]
    /\ fsm' = [fsm EXCEPT !.flags = @ \ {"stop"}]
    /\ Unsignalled
    /\ UNCHANGED <<worker, queue, driver, lines, table, alarm, ready, now, callers, entered>>

\* m_trigger.wait(), when a guard must be looked at again after the interval p.
\* A time that has come already does not block.
waitFor(p) ==
    LET until == Min({now + p, call.until})
    IN  IF until <= now THEN UNCHANGED <<worker, queue>> /\ alarm' = Infinity
        ELSE block(runner, 0) /\ alarm' = until

\* One turn of the loop of run().
runStep ==
    LET i == Min(EnabledAt(fsm))
        taken == EnabledAt(fsm) # {}
        returns == \/ "stop" \in fsm'.flags
                   \/ now > call.until
                   \/ ~taken /\ call.whenBlocked
    IN  /\ Runs(runner) /\ call.pc = "step"
        /\ fsm' = step(fsm)
        /\ ready' = (ready /\ ~(taken /\ table[i].action = "unready"))
        /\ callers' = CASE ~taken -> callers
                        [] table[i].action = "push" -> Append(callers, fsm.state)
                        [] table[i].action = "pop" /\ callers # <<>> -> Front(callers)
                        [] OTHER -> callers
        /\ entered' = IF taken /\ (table[i].to # 0 \/ table[i].action = "pop")
                      THEN now ELSE entered
        /\ call' = IF returns THEN Idle ELSE call
        /\ IF taken \/ returns THEN UNCHANGED <<worker, queue>> /\ alarm' = Infinity
           ELSE waitFor(Interval(fsm))
        /\ Unsignalled
        /\ UNCHANGED <<driver, lines, table, now>>

\* The AlarmClock of the wait() rings.
ring ==
    /\ Queued(runner) /\ alarm <= now
    /\ worker' = Woken(worker, runner)
    /\ queue' = [queue EXCEPT ![0] = erase(@, runner)]
    /\ Unsignalled
    /\ UNCHANGED fsmVars

tick ==
    /\ now < MaxTime
    /\ now' = now + 1
    /\ UNCHANGED <<vars, driver, lines, table, fsm, call, alarm, ready, callers, entered>>

trigger(f) == signal(f, FALSE, FALSE)

\* What another fiber f does with the Fsm.

\* Mutant of input: the machine is not triggered.
input_Quiet(f, s) ==
    /\ Runs(f)
    /\ fsm.inputs[s] < MaxInputs
    /\ fsm' = [fsm EXCEPT !.inputs[s] = @ + 1]
    /\ UNCHANGED <<vars, driver, lines, table, call, alarm, ready, now, callers, entered>>

input(f, s) ==
    /\ fsm.inputs[s] < MaxInputs
    /\ fsm' = [fsm EXCEPT !.inputs[s] = @ + 1]
    /\ trigger(f)
    /\ UNCHANGED <<driver, lines, table, call, alarm, ready, now, callers, entered>>

setReady(f) ==
    /\ ready' = TRUE
    /\ trigger(f)
    /\ UNCHANGED <<driver, lines, table, fsm, call, alarm, now, callers, entered>>

stopFsm(f) ==
    /\ Runs(f)
    /\ fsm' = [fsm EXCEPT !.flags = @ \cup {"stop"}]
    /\ UNCHANGED <<vars, driver, lines, table, call, alarm, ready, now, callers, entered>>

resetFsm(f) ==
    /\ fsm' = [clearFsm(fsm) EXCEPT !.t = now]
    /\ trigger(f)
    /\ callers' = <<>>
    /\ entered' = now
    /\ UNCHANGED <<driver, lines, table, call, alarm, ready, now>>

OnlyFibers == UNCHANGED fsmVars

FsmRunnerNext ==
    \/ \E d \in Durations : runFsm(now + d, FALSE)
    \/ \E b \in BOOLEAN : runFsm(Infinity, b)
    \/ runStep
    \/ call.pc = "idle" /\ OnlyFibers /\ (yield(runner) \/ fiberExit(runner))

FsmUserNext(f) ==
    \/ \E s \in Inputs : input(f, s)
    \/ setReady(f) \/ stopFsm(f) \/ resetFsm(f)
    \/ OnlyFibers /\ (yield(f) \/ fiberExit(f))

FsmNext ==
    \/ driver = "signal" /\ Next /\ UNCHANGED fsmVars
    \/ driver = "fsm" /\ (\/ FsmRunnerNext \/ ring \/ tick
                          \/ OnlyFibers /\ (run_ \/ stop)
                          \/ \E f \in Users : FsmUserNext(f))
    \/ driver = "compile" /\ UNCHANGED allVars

\* The worker goes on and time passes.  A fiber that uses the signal, or the
\* Fsm, gives way now and then.
FsmFairness ==
    /\ WF_allVars(run_ /\ UNCHANGED fsmVars)
    /\ WF_allVars(driver = "fsm" /\ (tick \/ ring))
    /\ WF_allVars(driver = "fsm" /\ \E f \in Users : yield(f) /\ OnlyFibers)
    /\ \A f \in Fiber :
          /\ WF_allVars(waitEnd(f) /\ UNCHANGED fsmVars)
          /\ SF_allVars(driver = "signal" /\ (wait(f) \/ yield(f)) /\ worker' # worker
                        /\ UNCHANGED fsmVars)

FsmSpec == FsmInit /\ [][FsmNext]_allVars /\ FsmFairness

-----------------------------------------------------------------------------
(* Properties *)

\* A description is compiled to what it says, and rejected when it is not well
\* formed (CompiledAsWritten, for the operators of fsm14.h and compile()).
EdslIsCompiledAsWritten == driver = "compile" => CompiledAsWritten(lines)

\* pop() goes back to the state in which the matching push was done, through
\* nested pushes, actions without a transition and resets, and never without a
\* push (BasicFsm::push(), pop() and their assertions; m_prev).
PopReturnsToCaller == fsm.stack = callers /\ ~fsm.failed

\* While run() waits for the trigger, none of the guards of the current state
\* is true, except one that time made true: an input, a guard that another fiber
\* made true and a reset are never missed (input(), trigger(), step()).
NoLostTrigger ==
    Queued(runner) =>
      \A i \in Scan(table, fsm.state) :
         poll(fsm, i) <= 0 => table[i].guard \in DOMAIN Timeout

\* run() sleeps no longer than a timeout guard of the current state allows,
\* counted from the last transition and not from the last action (m_t, enter()),
\* nor longer than its own argument.
WakesInTime ==
    Queued(runner) =>
      /\ alarm <= call.until
      /\ \A i \in Scan(table, fsm.state) :
            table[i].guard \in DOMAIN Timeout => alarm <= entered + Timeout[table[i].guard]

\* A machine that waits misses neither an input nor a timeout (step(), trigger()).
TriggersAreNotLost == NoLostTrigger /\ WakesInTime

\* A machine that waits for a timeout, or that was woken, takes its next step.
WaitingFsmSteps ==
    (call.pc = "step" /\ (~Queued(runner) \/ alarm <= MaxTime)) ~> Runs(runner)

\* Whoever was signalled goes on: a fiber in Signal::wait(), and a machine in run().
SignalledGoesOn == SignalledReturns /\ WaitingFsmSteps
=============================================================================
