-------------------------------- MODULE Coro --------------------------------
(***************************************************************************)
(* C++20 coroutines (include/libzth/coro.h): tasks, and a generator with   *)
(* its coro::Mailbox, that fibers run and co_await.  A coroutine that is   *)
(* suspended hands the fiber over to the one it waits for, which hands it  *)
(* back through its continuation; a coroutine that is already running in   *)
(* another fiber is waited for by blocking the fiber.                      *)
(*                                                                         *)
(* A step is what a fiber does from one place in the body of a coroutine,  *)
(* or of the function that runs it, to the next.  At those places the body *)
(* may give way to other fibers; which one is next is left open here, see  *)
(* module Worker for that.                                                 *)
(***************************************************************************)
EXTENDS Integers, Sequences, SequencesExt

CONSTANTS Threads,  \* the fibers
          gen,      \* the generator
          Task,     \* the tasks
          Body,     \* what every task awaits, in order: the generator, or a task
          Yields,   \* the number of values that the generator yields: 1, 2, ...
          nullptr,  \* no coroutine
          noop,     \* std::noop_coroutine()
          Shares    \* whether a coroutine that awaits another is used by another fiber

Coroutine == Task \cup {gen}

VARIABLE coro

(* The fields of coro:                                                       *)
(*   at        of every coroutine: "start", "active", "await", "yield", "end"*)
(*   pc        the number of awaits, or yields, that it has done             *)
(*   running   promise::m_running                                            *)
(*   cont      promise_base::m_continuation                                  *)
(*   done      completed()                                                   *)
(*   op        of every fiber: "idle", "run", "generate" or "value"          *)
(*   root      the coroutine that a fiber in run() has called                *)
(*   on        the coroutine that executes on the fiber, or nullptr          *)
(*   wait      why the fiber is blocked: "no", "take", "put", or a task      *)
(*   value     of the mailbox; 0 when it is empty                            *)
(*   assigned  Mailbox::m_assigned                                           *)
(*   takers, putters  the queues of the mailbox                              *)
(*   waiter    coro::Mailbox::m_waiter                                       *)
(*   taken     the values in the order in which they were taken              *)
(*   failed    an assertion failed, or a coroutine that is not suspended     *)
(*             was resumed                                                   *)

CoroInit ==
    coro = [at |-> [c \in Coroutine |-> "start"], pc |-> [c \in Coroutine |-> 0],
            running |-> [c \in Coroutine |-> FALSE], cont |-> [c \in Coroutine |-> nullptr],
            done |-> [c \in Coroutine |-> FALSE],
            op |-> [f \in Threads |-> "idle"], root |-> [f \in Threads |-> nullptr],
            on |-> [f \in Threads |-> nullptr], wait |-> [f \in Threads |-> "no"],
            value |-> 0, assigned |-> nullptr, takers |-> <<>>, putters |-> <<>>,
            waiter |-> nullptr, taken |-> <<>>, failed |-> FALSE]

-----------------------------------------------------------------------------
(* Promises.  s is coro, on the way to its next value. *)

running(s, c) == s.running[c] \/ s.cont[c] # nullptr

Asserted(s, b) == [s EXCEPT !.failed = @ \/ ~b]

setRunning(s, c, b) == [Asserted(s, s.running[c] # b) EXCEPT !.running[c] = b]

set_continuation(s, c, h) ==
    [Asserted(s, s.cont[c] \in {nullptr, h}) EXCEPT !.cont[c] = h]

\* h(): the coroutine goes on in fiber f, at the await_resume() where it is suspended.
Resumed(s, f, c) ==
    [setRunning(Asserted(s, s.at[c] \in {"start", "await", "yield"}), c, TRUE)
        EXCEPT !.at[c] = "active", !.on[f] = c]

Suspended(s, c, at) == [setRunning(s, c, FALSE) EXCEPT !.at[c] = at]

-----------------------------------------------------------------------------
(* The mailbox *)

abandoned(s) == s.done[gen]

validFor(s, w) == s.value # 0 /\ s.assigned \in {nullptr, w}

\* coro::Mailbox::wakeup() of a fiber, or of a coroutine.
Woken(s, w) ==
    IF w \in Threads THEN [s EXCEPT !.assigned = w]
    ELSE [set_continuation(Asserted(s, ~abandoned(s)), gen, w) EXCEPT
             !.waiter = w, !.assigned = w]

\* take_finalize()
Taken(s) ==
    [s EXCEPT !.taken = Append(@, s.value), !.value = 0,
              !.putters = IF @ = <<>> THEN @ ELSE Tail(@)]

\* The body goes on, or the caller of value() does, with the value.
Received(s, f) ==
    LET t == [Taken(s) EXCEPT !.wait[f] = "no"]
        c == s.on[f]
    IN  IF c = nullptr THEN [t EXCEPT !.op[f] = "idle", !.root[f] = nullptr]
        ELSE [t EXCEPT !.pc[c] = @ + 1]

\* coro_already_completed: the body of the task does not catch it.
Thrown(s, f) ==
    LET c == s.on[f]
        t == [s EXCEPT !.wait[f] = "no"]
    IN  IF c = nullptr THEN [t EXCEPT !.op[f] = "idle", !.root[f] = nullptr]
        ELSE [t EXCEPT !.pc[c] = Len(Body[c])]

\* Mailbox::take() by a fiber: one turn of the loop of wait().
takes(s, f) ==
    IF validFor(s, f) THEN Received(s, f)
    ELSE IF abandoned(s) THEN Thrown(s, f)
    ELSE [s EXCEPT !.wait[f] = "take", !.takers = Append(@, f)]

\* await_resume() of the mailbox, by the coroutine on f; w is it if it was suspended.
resumeTake(s, f, w) ==
    IF validFor(s, w)
    THEN Received([s EXCEPT !.waiter = IF @ = w THEN nullptr ELSE @], f)
    ELSE IF abandoned(s) THEN Thrown(s, f) ELSE takes(s, f)

\* await_resume() of task x: wait() for its future.
resumeTask(s, f, x) ==
    IF s.done[x] THEN [s EXCEPT !.pc[s.on[f]] = @ + 1] ELSE [s EXCEPT !.wait[f] = x]

Awaited(s, c) == Body[c][s.pc[c] + 1]

\* c is resumed by h(), and goes on to its next place.
Continue(s, f, c) ==
    LET r == Resumed(s, f, c)
    IN  CASE s.at[c] # "await" -> r
          [] s.at[c] = "await" /\ Awaited(s, c) = gen -> resumeTake(r, f, c)
          [] s.at[c] = "await" /\ Awaited(s, c) # gen -> resumeTask(r, f, Awaited(s, c))

generates(s, f) == Continue(set_continuation(s, gen, noop), f, gen)

\* Back from h(), in the loop of run() or of generate().
Back(s, f) ==
    LET b == [s EXCEPT !.on[f] = nullptr]
        ends == IF s.op[f] = "run" THEN s.done[s.root[f]] ELSE s.value # 0 \/ s.done[gen]
    IN  CASE ends -> [b EXCEPT !.op[f] = "idle", !.root[f] = nullptr]
          [] ~ends /\ s.op[f] = "run" -> Continue(b, f, s.root[f])
          [] ~ends /\ s.op[f] = "generate" -> generates(b, f)

\* The fiber goes on in the continuation() of c, or in the function that called h().
Transfer(s, f, c) ==
    LET t == [s EXCEPT !.cont[c] = nullptr]
    IN  IF s.cont[c] \in {nullptr, noop} THEN Back(t, f) ELSE Continue(t, f, s.cont[c])

-----------------------------------------------------------------------------
(* What the coroutine c does, in fiber f *)

\* co_await of a task.
awaitTask(s, f, c, x) ==
    IF s.done[x] \/ running(s, x) THEN resumeTask(s, f, x)
    ELSE Continue(set_continuation(Suspended(s, c, "await"), x, c), f, x)

\* Mutant of awaitMailbox: await_ready() does not look at running().
awaitMailbox_Blind(s, f, c) ==
    IF abandoned(s) \/ validFor(s, nullptr) THEN resumeTake(s, f, nullptr)
    ELSE Continue([Suspended(s, c, "await") EXCEPT !.takers = Append(@, c)], f, gen)

\* co_await of the generator.
awaitMailbox(s, f, c) ==
    IF abandoned(s) \/ validFor(s, nullptr) \/ running(s, gen) THEN resumeTake(s, f, nullptr)
    ELSE Continue([Suspended(s, c, "await") EXCEPT !.takers = Append(@, c)], f, gen)

\* put_finalize(), and the rest of yield_value().
yields(s, f) ==
    LET p == [s EXCEPT !.value = s.pc[gen] + 1, !.pc[gen] = @ + 1, !.wait[f] = "no"]
        w == IF p.takers = <<>> THEN p
             ELSE Woken([p EXCEPT !.takers = Tail(@)], Head(p.takers))
    IN  IF w.cont[gen] = nullptr THEN w ELSE Transfer(Suspended(w, gen, "yield"), f, gen)

\* Mutant of yieldValue: it does not wait for the mailbox to be empty.
yieldValue_Full(s, f) == yields(s, f)

\* yield_value(): wait_empty() is a loop.
yieldValue(s, f) ==
    IF s.value = 0 THEN yields(s, f)
    ELSE [s EXCEPT !.wait[f] = "put", !.putters = Append(@, f)]

\* abandon(): all that wait are woken up.
abandon(s) == [FoldLeft(Woken, s, s.takers) EXCEPT !.takers = <<>>]

\* return_value() or unhandled_exception(), and final_suspend().
returns(s, f, c) ==
    LET a == IF c = gen THEN abandon(s)
             ELSE [s EXCEPT !.wait = [g \in Threads |-> IF s.wait[g] = c THEN "no" ELSE s.wait[g]],
                            !.pc = [t \in Coroutine |->
                                       IF \E g \in Threads : s.wait[g] = c /\ s.on[g] = t
                                       THEN s.pc[t] + 1 ELSE s.pc[t]]]
    IN  Transfer(Suspended([a EXCEPT !.done[c] = TRUE], c, "end"), f, c)

step(s, f, c) ==
    CASE c = gen /\ s.pc[c] < Yields -> yieldValue(s, f)
      [] c # gen /\ s.pc[c] < Len(Body[c]) ->
            IF Awaited(s, c) = gen THEN awaitMailbox(s, f, c) ELSE awaitTask(s, f, c, Awaited(s, c))
      [] OTHER -> returns(s, f, c)

-----------------------------------------------------------------------------
(* The actions of fiber f *)

\* A coroutine that awaits another is not running(), although it is not to be resumed.
MayUse(c) == Shares \/ coro.at[c] # "await"

Begins(f, op, c) == [coro EXCEPT !.op[f] = op, !.root[f] = c]

\* promise::run(); when it is running() it throws, and nothing is done.
Run(f, c) ==
    /\ coro.op[f] = "idle" /\ MayUse(c)
    /\ ~running(coro, c) /\ ~coro.done[c]
    /\ coro' = Continue(Begins(f, "run", c), f, c)

\* task::run(), also as a fiber of its own.
RunTask(f, c) == Run(f, c)

\* generator::run(), also as a fiber of its own.
RunGenerator(f) == Run(f, gen)

\* generate(), and with it begin() and operator++.
Generate(f) ==
    /\ coro.op[f] = "idle" /\ ~coro.done[gen] /\ coro.value = 0
    /\ ~running(coro, gen)
    /\ coro' = generates(Begins(f, "generate", gen), f)

\* value(), and with it operator*.
Value(f) ==
    /\ coro.op[f] = "idle" /\ ~coro.done[gen]
    /\ coro' = takes(Begins(f, "value", gen), f)

\* Back from block() in take() or put().
TakeAgain(f) ==
    /\ coro.wait[f] = "take" /\ ~Contains(coro.takers, f)
    /\ coro' = takes(coro, f)

PutAgain(f) ==
    /\ coro.wait[f] = "put" /\ ~Contains(coro.putters, f)
    /\ coro' = yieldValue(coro, f)

Step(f) ==
    /\ coro.on[f] # nullptr /\ coro.wait[f] = "no"
    /\ MayUse(IF coro.on[f] # gen /\ coro.pc[coro.on[f]] < Len(Body[coro.on[f]])
              THEN Awaited(coro, coro.on[f]) ELSE gen)
    /\ coro' = step(coro, f, coro.on[f])

CoroNext ==
    \E f \in Threads :
        \/ Generate(f) \/ Value(f) \/ RunGenerator(f)
        \/ TakeAgain(f) \/ PutAgain(f) \/ Step(f)
        \/ \E c \in Task : RunTask(f, c)

-----------------------------------------------------------------------------
(* Properties *)

\* A coroutine is resumed only while it is suspended, by one of the fibers that
\* share it, and is marked as running() as long as it executes: the assertions on
\* running() and on the continuation hold, whichever of the fibers gets to the
\* coroutine first (promise::run(), await_ready(), final_suspend()).
ResumedWhenSuspended ==
    /\ ~coro.failed
    /\ \A c \in Coroutine :
          LET here == {f \in Threads : coro.on[f] = c}
          IN  /\ \A f, g \in here : f = g
              /\ here # {} <=> coro.at[c] = "active"
              /\ coro.running[c] <=> coro.at[c] = "active"

\* The values that the generator yields are taken in order, each exactly once, by
\* whichever fiber or coroutine; the last one may still be in the mailbox
\* (yield_value(), coro::Mailbox::take()).
YieldsAreTakenOnce ==
    LET left == IF coro.value = 0 THEN <<>> ELSE <<coro.value>>
    IN  coro.taken \o left = [i \in 1 .. coro.pc[gen] |-> i]
=============================================================================
