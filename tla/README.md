# Verification of zth

This directory holds TLA+ models of libzth, a library for cooperative fibers, the TLC
configurations that check them on small instances, and TLAPS proofs about them.
`PROJECT.json` lists the runs, the source lines that each definition models, the hazards
and the theorems.

## The system and its parts

A *fiber* (`fiber.h`) is a function with its own stack. A *worker* (`worker.h`) is the
scheduler of one thread: it keeps a queue of runnable fibers and one of suspended fibers.
Fibers are cooperative: control passes to another fiber only in `Worker::schedule()`.
The *waiter* (`waiter.h`, `waiter.cpp`) is a fiber of the library that wakes up the fibers
that sleep until a time or poll a condition, and puts the thread to sleep when nothing is
runnable. A *poller* (`poller.h`, `poller.cpp`) lets fibers wait for file descriptors: the
waiter executes its `poll()` instead of the sleep. The *synchronizers* (`sync.h`) block a
fiber in a queue of their own until another fiber unblocks it: mutex, semaphore, signal,
future, mailbox and gate. *Async* fibers (`async.h`) return a value through a future, and are
joined through a gate. A *state machine* (`fsm14.h`) is run by a fiber, and triggered through a
signal. *Coroutines* (`coro.h`) are run by fibers, and block them through the synchronizers.

The queues are intrusive lists (`list.h`) that use one link in the fiber, so a fiber is in one
of them only. Below all that are stacks and contexts, the process with its threads and
children, and helpers. Several of these do not depend on which fiber is next, but on what
happens between any two steps; their modules leave the order of the fibers open.

| Part | Source | Module | Left out |
|---|---|---|---|
| List | `list.h` | `List`, `LinkedList`, `SortedList` | |
| Fiber | `fiber.h` | `Worker`, `Perf` | fiber-local storage, names, `Runnable` |
| Worker | `worker.h` | `Worker`, `Waiter` | |
| Waiter | `waiter.h`, `waiter.cpp` | `Waiter`, `Poller`, `TimedMutex` | `PeriodicWakeUp` |
| Poller | `poller.h`, `poller.cpp` | `Poller` | the call that `ZmqPoller` makes |
| Synchronizer | `sync.h` | `Synchronizer`, `TimedMutex` | |
| Mutex | `sync.h` | `Mutex`, `TimedMutex`, `Lock` | |
| Semaphore, Mailbox, Gate | `sync.h` | `Semaphore`, `Mailbox`, `Gate` | |
| Signal | `sync.h` | `Signal`, `Fsm` | |
| Future | `sync.h`, `future.h` | `Join`, `Promise` | |
| C API | `sync.h` | `CApi` | the functions of `worker.h` and `waiter.h` |
| Async fibers, join | `async.h` | `Join` | killed fibers, packing of arguments |
| State machine | `fsm14.h` | `Transitions`, `Fsm` | |
| Coroutines | `coro.h` | `Coro` | wrappers that never suspend |
| Time | `time.h`, `time.cpp` | `Time`, `Waiter` | conversion to text and other clocks |
| Context, stacks | `context.cpp`, `context/*.h` | `Context`, `Sigaltstack` | registers, Windows fibers |
| Threads, processes, initialization | `worker.cpp`, `init.cpp`, `main.cpp` | `Process` | arguments of `execvp()` |
| Perf | `perf.h`, `perf.cpp` | `Perf` | the text of the file, `EventRate`, `Load` |
| ZeroMQ, I/O | `zmq.cpp`, `io.cpp` | `Io` | |
| Utilities | `util.h`, `sync.h` | `SmallVector`, `SharedPointer`, `UniqueID` | formatting, allocation, configuration |

## The modules

### Scheduling

**List** translates the operations of `List` on a sequence. `rotateAfter(q, e)` is the
`rotate()` of `schedule()`: the element after `e` comes to the front.

**Worker** has no variables. A worker is a record (fiber states, both queues, the current
fiber, and whether an assertion has failed), and each member function is an operator from
the record before the call to the record after it. As no other fiber runs between two calls
of `schedule()`, one such composition is one atomic step.

**Waiter** is one thread: `Worker::run()`, `~Worker()`, `Waiter::entry()` and user fibers.
`entry()` reads the clock at several places, so it is split into steps there, and `Tick`
advances the clock in between. `m_waiting` is a set; `SortedList` promises that its front has
the smallest timeout, and any of several equal ones may be in front.

**Poller** extends `Waiter`: fibers `poll()` descriptors through a client each, the server has
one table of pollables and one of what the kernel is asked for, the descriptors become ready
and unready at any time, and the branches of `entry()` that poll replace those that sleep. The
registered poller may be replaced, which moves its pollables. The operations of `Waiter`
(suspend, resume, kill, wakeup, yield to) are the other half of the same run.

### Synchronizers and what uses them

**Synchronizer** holds `block()`, `unblockFirst()` and `unblockAll()` for fibers of one
worker. **Mutex**, **Semaphore**, **Signal**, **Mailbox** and **Gate** extend it.
A loop around `block()` is one action that is taken again when the fiber gets its turn. The
waiter fiber is left out here: it suspends itself when nothing is timed. The early return of
`yield()` within a time slice is a stuttering step.

**TimedMutex** composes the mutex with the waiter: `trylock()` with a timeout blocks in the
queue of the mutex and in that of the waiter, through an `AlarmClock` on its stack.

**Join** composes fibers that return a value or throw, the future of each, and the gate of
a `joiner`, in one program: `main` hatches the others, keeps or drops their handles, makes
futures before and after the end of a fiber, waits for them, and has a joiner of any mix of
fibers and futures on its stack. The end of a fiber is one step: it sets the future, runs
the hooks of `m_exit`, and dies, without giving way in between. `~joiner()` has a step for
each future it waits for, and one for the gate.

**Promise** has the variables of type `promise`, `future` and `shared_future`, and the shared
states behind them: they are constructed, moved, shared, read, waited for and destroyed, and a
promise that goes away without a value leaves an exception.

**Transitions** is the description language of a state machine: a line is a record of the parts
as they are written, and `compile()` turns a list of lines into the table. **Fsm** extends
`Signal` and executes such a table: guards in order, actions, inputs, `push` and `pop`, `stop`,
`reset`, and `run()` with and without an end, which waits on the trigger with the timeout that
the guards have asked for. Other fibers give inputs, make guards true, trigger, stop and reset it.

**Coro** has tasks, a generator with its mailbox, and the fibers that run, await and abandon
them. A step goes from one place where the body may give way to the next. **CApi** has one handle
that several fibers use as each of the six kinds; a history variable holds what the callers know
from the calls that returned 0. **Io** has the wrappers that try, wait in `poll()` and try again.

**Lock** is the abstract specification of a mutex: nobody, or one client, owns it, and
clients that ask for it wait only while another one has it.

### Contexts and the process

**Context** computes where the stack, its guards and its watermarks lie in an allocated block,
with an allocation or a guard that may fail; contexts are switched to, call a function on a
stack of the user, and are destroyed. **Sigaltstack** is the bootstrap of a frame: threads that
create and destroy contexts, the mask and the handler of `SIGUSR1`, and signals from anybody.
**Process** has `zth_init()` from several threads, the worker of each thread, and child processes
with a `SIGCHLD` that arrives between any two steps of `sigchld_check()`. **Perf** has the event
buffer and the fiber that writes it; the file is what its reader knows of the fibers.

### Data

**LinkedList** does each operation of `List` on the pointers, and on the sequence of module
`List` next to it. **SortedList** is the AA tree, with `skew` and `split`, on addresses.
**SmallVector** is the array that becomes a `std::vector`, **SharedPointer** reference counts
with objects that own objects, **UniqueID** ids, names, the singleton and `cow_string`.
**Time** is the arithmetic of `TimeInterval` and `Timestamp` on seconds and nanoseconds, with a
second of 8 nanoseconds and a `time_t` up to 7 in the run, so that sequences of operations
carry, borrow and saturate.

### For TLC and TLAPS

**LibraryMC**, **JoinMC**, **FsmMC** and **PollerMC** give the constants of a run. In the first
two, and in `Fsm` and `Poller`, a behaviour is that of one part, chosen initially: the parts of
`LibraryMC` share no state, and exploring them next to each other would say nothing more.

The proofs are in **WorkerProofs** (lists and the worker), **SynchronizerProofs**,
**PrimitiveProofs** (mutex, semaphore, signal and mailbox), **WaiterProofs**, **TimedMutexProofs**,
**LibraryProofs** (process, adapters and promises), **CApiProofs** and **ContextProofs**. As
`PrimitiveProofs` extends four primitives together, the names of their specifications differ:
`MutexSpec`, `SemaphoreSpec`, `MailboxSpec`, and `Spec` of `Signal`.

## The runs

| Run | Bounds | What it shows |
|---|---|---|
| `waiter_time` | waiter and 2 fibers, clock to 5 | sleepers are woken up (`NapEnds`), not early; the thread sleeps only when idle and not too long; `run()` returns, ready fibers run, the destructor ends |
| `poller` | waiter and 3 fibers, 2 descriptors, clock to 3 while polling, else to 4 | with suspend, resume, kill, yield to and wakeup no assertion fails, and a fiber is in one place (`WorkerIsSound`); the waiter is awake while anybody needs it; the tables of the server are those of its clients; a descriptor that stays ready is delivered |
| `poller_stale` | the same | violation, see below |
| `mutex` | 4 fibers | mutual exclusion, no lost wake up, a free mutex is taken, implements `Lock` |
| `timed_mutex` | waiter and 3 fibers, clock to 4 | timeouts that race with `unlock()` lose no wake up and leave no alarm behind |
| `timed_mutex_spins` | waiter and 2 fibers, clock to 3 | violation, see below |
| `semaphore_forgets` | 4 fibers | violation, see below |
| `signal` | 3 fibers, count to 2; a machine of 11 lines with two nested subroutines, 2 fibers, 1 pending input, clock to 3; all descriptions of up to 2 lines, short ones of 4 | no fiber waits while a signal is queued; no input, trigger or timeout is missed; `pop` returns to its `push`; a description is compiled as written |
| `mailbox` | 3 fibers, 1 value | a woken taker finds its value, and takes it |
| `mailbox_stale` | 3 fibers | violation, see below |
| `join` | main and 2 fibers; 3 fibers with gates of 2 and 3, 3 arrivals each | a joiner returns, and not before all it joins have ended; no hook outlives the gate; every future of a fiber that ended has one value, and nobody waits for it; a gate opens at the right arrival, is a barrier when all wait, and lets all go |
| `library` | see below | each part through all sequences of its operations |

Three fibers are the least for a wake up that a third fiber overtakes; the mutex
and the semaphore have four, so that two fibers are queued while two others run. The clock
needs room for one timeout to pass while another is pending. Two clients that share a
descriptor, of which one has a second one, are the least for `remove()` to fill a gap with an
item of somebody else.

The run `library` checks, one part per behaviour:

- the semaphore (4 fibers, counts 1 and 2, maximum 3): `UnitsAreOffered`, `BigWaitersSeen`, and the
  saturation of its count in `DataIsKept`;
- `DataIsKept`: the AA tree (6 elements, 2 keys, so that both levels have horizontal links) stays a tree, sorted and
  balanced, with every element in it; the cycle of pointers (4 nodes) is the sequence; the vector
  (2 slots, up to 4 elements) holds its elements, each constructed and destroyed once; an object
  (3, which may own each other) lives as long as it is owned; names and ids are current;
- `TimeIsExact`: an interval and a timestamp hold the exact result of their operations, or the
  limit when that is out of range, and order as numbers do;
- `TraceIsTrue` (buffer of 10 events, threshold 5): file and buffer together tell the state of each fiber;
- `CoroutinesTakeTurns` (3 fibers, 3 tasks, a generator of 3 values): a coroutine is resumed only where it
  is suspended, and each value is taken once;
- `ApiTellsTruth` (3 fibers, arguments 0 to 3): what the return values of the C functions told holds;
- `PromisesAreKept` (2 promises, 2 futures, 3 states): one future for each promise, set once, never unset;
- `ContextsAreSound` (2 contexts; 2 threads for the signals): stacks have the size that was asked for, inside of
  their block, guards where they belong, nothing is left behind; each frame is made once, on its own stack;
- `ProcessIsTended` (2 threads, 3 functions, 2 children): each function is called once, in order, and before any
  worker; a child that ended will be asked for;
- `HandOffTransfers` (2 fibers, a socket and a descriptor): a call that waited succeeds and
  blocks no thread.

### Where code and documentation disagree

- `timed_mutex_spins`: `blockUntil()` returns true when the timeout has passed on entry,
  while its documentation says false. The loop of `trylock()` then spins without yielding.
- `semaphore_forgets`: once a fiber that needs several units has set `m_unblockAll`,
  `acquire()` no longer wakes up the next in line, and units stay unused.
- `mailbox_stale`: `m_assigned` is not reset by `take()`, so a later value is kept from
  a fiber that waits for it.
- `poller_stale`: the server may poll once more before a client that was woken up runs. It then
  returns a pollable without an event, while `poll()` is documented to return those with one.

More are in the list of hazards, with a note and without a run of their own. The passing runs
exclude what leads to them, by the constants named here:

- the waiter puts the thread to sleep while a fiber is runnable, after an alarm has unblocked
  it. `SleepsOnlyWhenIdle` therefore holds in `waiter_time`, which has no alarms, and not in
  `TimedMutex`;
- `suspend()` of a fiber that waits (`"suspendWaiting"` in `Ops`) breaks `NoAssertionFails`;
- so does a first `run()` whose duration is over at once (a positive duration in `Durations`
  of `poller`); `RunReturns` of `waiter_time` takes a failed assertion as an end;
- `setPoller()` while another fiber polls (`"setPollerWhilePolling"`) leaves pollables behind;
- `wait_empty()` takes the wake up that was meant for `put()` (`EmptyIsFilled`);
- a joiner of a fiber that has ended, and whose handle is kept, never returns: nobody runs the
  hook that it adds (`LateJoins`, which breaks `JoinReturns`);
- move assignment and `swap()` of promises forget that the future was handed out (`Moves`);
- a coroutine that awaits another one, and is run by a second fiber meanwhile, is resumed while
  it is not at its suspension point (`Shares`);
- `zth_sem_post()` compares with the maximum of `size_t`: `library` is a platform on which
  that is as wide as `unsigned int` (`SizeMax = CountMax`), else it may report a unit that is dropped;
- a stack is leaked when `getcontext()` fails (`"arch"` in `Failures`), and the MPU guard
  of a stack of the user of two guard sizes covers the top of that stack (8 in `UserSizes`);
- a worker that ends takes `SIGUSR1` away from those of other threads (`Shared`), and
  a failing `pthread_kill()` or second `pthread_sigmask()` leaves it unblocked (`Fails`);
- `zth_init()` has no lock, for threads that are not started through the library (`Raw`);
- two fibers that use one direction of a channel may fail or block in the second call (`Sharing`);
- a sum of exactly one second of nanoseconds is not carried: its value is right, as
  `TimeIsExact` says, but it is not normal.

## Fairness

Weak fairness of the steps of `Worker::run()`, of the waiter and of the clock: the thread
keeps running. A fiber that runs continues in the function it is in, and yields now and
then, as cooperative fibers must. `Signal` uses strong fairness for giving way, because a
fiber that waits in a loop for a signal that is set yields at the end of each time slice, and
`TimedMutex` for `unlock()`: who has the mutex gives it back.

`Poller` adds that the polling branches of the waiter go on, that `poll()` returns to a client that was
woken up, and that a fiber that again and again may give way does so. Where the guard of an action is simple, `Poller`,
`Join` and `Gate` state weak fairness as `[]<>~G \/ []<><<A>>_vars`, with the guard `G` in
place of `ENABLED`. The fibers of a barrier come back to it, so none stays outside forever
(`<>[]~MayWait(f)`, with the number of arrivals bounded). In `Join`, every
function of a fiber ends some time (`<>[]~Idle(c)`): without that, there is nothing to join.

The run `library` has safety properties only, and its parts may stop (no deadlock check): a list or a
time is not obliged to be used.

## The proofs

Every theorem holds for any finite set of fibers, and for any number of the threads, contexts,
handles, children and values of its module, instead of the few of a run. Each follows from
an inductive invariant, named below; what a run checks is seldom inductive as it stands.

| Module | Inductive invariant | Proved properties of the runs | Assumption |
|---|---|---|---|
| `PrimitiveProofs`, mutex | `MutexInv` | `MutualExclusion`, `NoLostWakeup`, `ImplementsLock` | |
| `PrimitiveProofs`, semaphore | `SemaphoreInv` | `UnitsAreOffered`, `BigWaitersSeen` | |
| `PrimitiveProofs`, signal | `SignalInv` | `QueuedSignalsAreSeen`, `SignalledUntilReset` | |
| `PrimitiveProofs`, mailbox | `MailboxInv` | `WokenTakerFindsValue` | `TwoQueues` |
| `WaiterProofs` | `WaiterInv`, `CanStart` | `SleepsAsLongAsNeeded`, `NoEarlyWakeup`, `WorkerIsSound` | `NoSuspendWaiting`, `Forever` |
| `TimedMutexProofs` | `TimedInv` | `AlarmsAreAlive`, `TimedNoLostWakeup`, `TimedLockIsSound` | |
| `LibraryProofs`, process | `ProcessInv` | `ProcessIsTended` | `Startup` |
| `LibraryProofs`, adapters | `IoInv` | `HandOffTransfers` | `Unshared` |
| `LibraryProofs`, promises | `PromiseInv` | `PromisesAreKept` | `Constructed` |
| `CApiProofs` | `ApiInv` | `ApiTellsTruth` | `Exact` |
| `ContextProofs` | `StackInv`, `FrameInv` | `ContextsAreSound` | `Sizable`, `Orderly` |

The modules state what all of them assume of the constants: the worker's own context is no fiber, there
are finitely many fibers (`WorkerAssumption`, `CountAssumption`), a synchronizer has a queue, and
counts are natural numbers up to their maximum. The assumptions in the table are hypotheses of the theorems:
they are the constants of the runs, generalized, and most exclude what a hazard describes.
The properties of `LibraryProofs`, `CApiProofs` and `ContextProofs` are those of the component modules; the
run `library` checks the same formulas of instances of these modules, in the behaviours of their part.

### The argument, layer by layer

`WorkerProofs` says what each list operation does to the elements and to their distinctness, and what
`schedule()`, `nap()`, `wakeup()`, `suspend()`, `resume()` and `kill()` do to a consistent worker.
`SynchronizerProofs` does the same for `block()` and `unblockFirst()`: a fiber waits if and
only if it is in a queue of the synchronizer.

**Primitives.** Mutual exclusion needs that only fibers in `lock()` are queued. That a free mutex with a queue
has a woken fiber needs also that this one cannot have ended. The mutex implements `Lock`: its
initial state is one of `Lock`, and every step is a step of `Lock` or changes neither owner nor askers.
The semaphore adds that queued fibers are in `acquire()`; the mailbox that a fiber is in the
queue of the function it is in (a mailbox has two queues, `TwoQueues`), without which a wake up of `take()` could
reach a taker.

**Waiter.** `ThreadSpec` has all that fibers do to themselves and to each other, and the steps of
`run()`, `~Worker()` and `entry()` between two reads of the clock. `WaiterInv` relates three pieces of state: who is in `m_waiting`,
the states and queues of the fibers, and where the waiter and the worker are; that the waiter is
runnable while somebody waits; and that the clock of the waiter is not ahead. Most of it is required only while
no assertion has failed, since a positive duration may make one fail. `SleepsAsLongAsNeeded` and
`NoEarlyWakeup` therefore hold for all durations of `run()`, and `WorkerIsSound`, which says that none fails,
for a `run()` without end (`Forever`). `CanStart` adds what the first `schedule()` of such a run relies upon. All
three exclude `suspend()` of a fiber that waits.

**Mutex with timeouts.** `TimedInv` extends this to fibers that wait in the queue of the mutex, in that of the
waiter, or with an alarm in both: an alarm belongs to a `trylock()` that it has not rung for, and a
fiber in the queue has called `lock()`, or has its alarm. That a wake up is not lost to a fiber
that gives up follows from the test of the mutex that it still does after the timeout.

**Process.** `zth_init()` has no lock, so the argument is one of stages: before it, while `main` is in it, and
after it. In the first two no other thread exists, as a thread is started by one that has a worker. `Startup`
says that `main` is a thread, at least one function is registered (the library does), and threads are
started by `startWorkerThread()`; without the last the theorem is false.

**Adapters and promises.** Under `Unshared`, one fiber at a time uses one direction of a channel, so what `poll()` has found is
there until that fiber takes it. `PromiseInv` says which variable owns which shared state; `PromisesAreKept` is an
action property, proved from it. `Constructed` excludes move assignment and `swap()` of promises.

**C API.** `ApiInv` says for each of the six kinds what the object holds, relative to what callers were told, and
who is in its queue. `Exact` is that `size_t` is as wide as the count of a semaphore, that arguments are
natural numbers, and that a null pointer is no object.

**Contexts.** `StackInv` puts bounds on where `stackAlign()`, guard pages and watermarks end up, for every
address and size. `Sizable` asks that a stack has room for two words; that a stack of the user is
smaller than two pages, and so not guarded, or else has at least three pages and two words less two bytes: in between the guard may
reach its top, as a hazard says; and that no `create()` fails after the allocation, which would leave the stack behind.
`FrameInv` follows a thread through `create()`: which context its handler would write to, and why no
signal of anybody can make it write twice. `Orderly` excludes that a worker ends while another thread has
one, and failures of the two calls that leave `SIGUSR1` unblocked. The two parts share no variable, and the last
theorem is their conjunction.

### What is only model-checked

- Liveness under fairness, which the prover does not support: `NapEnds`, `RunAndDestructorEnd`, `ReadyRuns`, `FreeMutexIsTaken`,
  `SignalledGoesOn`, `AssignedIsTaken`, `ReadyIsDelivered`, `JoinReturns` and the like.
- What recursive definitions and folds compute, which needs induction over data: the AA tree and the other containers
  (`DataIsKept`), compilation of descriptions (`EdslIsCompiledAsWritten`), the tables of the poller
  (`ServerIsCurrent`), the trace (`TraceIsTrue`) and the coroutines (`CoroutinesTakeTurns`).
- `TimeIsExact`, which compares products with the length of a second over all combinations of signs: nonlinear
  arithmetic. It has no proof.
- The state machine (`TriggersAreNotLost`, `PopReturnsToCaller`), the joiner and the gate (`FuturesTellEnds`, `JoinedHaveEnded`,
  `GateIsBarrier`), and `WaiterServesAll` with a poller: safety properties that have no proof yet.

## Not modelled

- `PeriodicWakeUp`: a nap until the next multiple of an interval, by one user, on operations that
  `Waiter` and `Time` have.
- Fiber-local storage, names of fibers, `Runnable`, manipulators and the templates of `async.h` that
  pack arguments and return values: they hold data of one fiber and have no protocol with others.
- Killed fibers in `Join`: nothing says what their futures hold (see the hazards).
- The awaitable wrappers of `coro.h` around calls that block a fiber: they are always ready, so they
  never suspend a coroutine. The C functions of `worker.h` and `waiter.h` call one C++ function each.
- The text of the VCD file, `EventRate` and `Load`, which are output and arithmetic of one
  counter; formatting, banners and logging.
- The allocators, which forward to those of the standard library; configuration and register layouts, which
  are fixed at compile time.
- Registers, assembly and Windows fibers: what a context switch does to a machine is below
  what these models tell apart. So are the arguments and the failures of `execvp()`. The call that
  `ZmqPoller` makes in place of `::poll()` is that of an external library.
