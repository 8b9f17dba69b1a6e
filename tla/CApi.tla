-------------------------------- MODULE CApi --------------------------------
(***************************************************************************)
(* The C functions of include/libzth/sync.h: a handle is a struct with a   *)
(* pointer p, that zth_*_init() sets to a new object and zth_*_destroy()   *)
(* clears.  Fibers use one handle, of any kind.  Which fiber runs next is  *)
(* left open.                                                              *)
(*                                                                         *)
(* A function that returns an error (EINVAL for a null pointer, for a      *)
(* handle without object, and for zth_*_init() of a handle with one; EDOM, *)
(* EBUSY, EAGAIN, EOVERFLOW) changes nothing, and is a stuttering step.    *)
(*                                                                         *)
(* A history variable holds what the callers know from the calls that have *)
(* returned 0.                                                             *)
(***************************************************************************)
EXTENDS Integers, Sequences, Functions

CONSTANTS Fiber, nullptr,
          Arguments,   \* the size_t arguments of zth_sem_init() and zth_gate_init()
          CountMax,    \* the largest Semaphore::count_type, an unsigned int
          SizeMax      \* the largest size_t

VARIABLES p,      \* what the handle points at: an object, or nullptr
          call,   \* the function that every fiber is in
          told    \* what the callers know

apiVars == <<p, call, told>>

\* A function is named by a sequence: its name, and the value that it puts.
Idle == <<"idle">>

NoValue == -1

\* What the callers know of a new object: the units that they may still get,
\* the fibers that hold it, the value that was set, and the fibers that have
\* been told that a mailbox is ready for them.
Nothing == [units |-> 0, holders |-> {}, value |-> NoValue, ready |-> {}]

\* An object: its kind, the argument of its constructor, its number (m_locked,
\* m_count, m_signalled, m_current, or whether there is a value), the value,
\* its queues, and the fiber that m_assigned points at.
Object(kind, arg, n) ==
    [kind |-> kind, arg |-> arg, n |-> n, value |-> NoValue, wait |-> <<>>, put |-> <<>>,
     assigned |-> nullptr]

ApiInit ==
    /\ p = nullptr
    /\ call = [f \in Fiber |-> Idle]
    /\ told = Nothing

Queued(f) == p # nullptr /\ f \in Range(p.wait) \cup Range(p.put)

\* A fiber calls function op on an object of the kind, or goes on in it.
Enters(f, kind, op) ==
    /\ p # nullptr /\ p.kind = kind /\ ~Queued(f)
    /\ call[f] \in {Idle, op}

Calls(f, kind) == Enters(f, kind, Idle)

\* The call returns 0.
Returns(f) == call' = [call EXCEPT ![f] = Idle]

Blocks(f, op) ==
    /\ p' = [p EXCEPT !.wait = Append(@, f)]
    /\ call' = [call EXCEPT ![f] = op]
    /\ UNCHANGED told

Rest(queue) == IF queue = <<>> THEN queue ELSE Tail(queue)

\* A handle without object gets one; it is ENOMEM when there is no memory.
Init(f, object) ==
    /\ p = nullptr /\ call[f] = Idle
    /\ p' = object
    /\ told' = [Nothing EXCEPT !.units = object.n]
    /\ UNCHANGED call

zth_mutex_init(f) == Init(f, Object("mutex", 0, 0))

zth_sem_init(f, value) == value <= CountMax /\ Init(f, Object("sem", value, value))

zth_cond_init(f) == Init(f, Object("cond", 0, 0))

zth_future_init(f) == Init(f, Object("future", 0, 0))

\* A gate for nobody, which is not refused, is left out.
zth_gate_init(f, count) == count > 0 /\ Init(f, Object("gate", count, 0))

zth_mailbox_init(f) == Init(f, Object("mailbox", 0, 0))

\* An object that no fiber uses is deleted.  The destructor only asserts that nobody
\* is in its queues.
Delete(kind) ==
    /\ p # nullptr /\ p.kind = kind
    /\ \A g \in Fiber : call[g] = Idle
    /\ p' = nullptr
    /\ told' = Nothing
    /\ UNCHANGED call

zth_mutex_destroy == Delete("mutex")

zth_sem_destroy == Delete("sem")

zth_cond_destroy == Delete("cond")

zth_future_destroy == Delete("future")

zth_gate_destroy == Delete("gate")

zth_mailbox_destroy == Delete("mailbox")

zth_mutex_lock(f) ==
    /\ Enters(f, "mutex", <<"lock">>) /\ f \notin told.holders
    /\ IF p.n = 1 THEN Blocks(f, <<"lock">>)
       ELSE /\ p' = [p EXCEPT !.n = 1]
            /\ told' = [told EXCEPT !.holders = @ \cup {f}]
            /\ Returns(f)

zth_mutex_trylock(f) ==
    /\ Calls(f, "mutex") /\ p.n = 0
    /\ p' = [p EXCEPT !.n = 1]
    /\ told' = [told EXCEPT !.holders = @ \cup {f}]
    /\ UNCHANGED call

\* By a fiber that has locked the mutex; a build with assertions ends at one
\* that is not locked.
zth_mutex_unlock(f) ==
    /\ Calls(f, "mutex") /\ f \in told.holders
    /\ p' = [p EXCEPT !.n = 0, !.wait = Rest(@)]
    /\ told' = [told EXCEPT !.holders = @ \ {f}]
    /\ UNCHANGED call

\* Semaphore::acquire(1), as m_unblockAll is never set.
acquired(f) ==
    /\ p' = [p EXCEPT !.n = @ - 1, !.wait = IF p.n > 1 THEN Rest(@) ELSE @]
    /\ told' = [told EXCEPT !.units = @ - 1]
    /\ Returns(f)

zth_sem_wait(f) ==
    /\ Enters(f, "sem", <<"wait">>)
    /\ IF p.n = 0 THEN Blocks(f, <<"wait">>) ELSE acquired(f)

zth_sem_trywait(f) == Calls(f, "sem") /\ p.n # 0 /\ acquired(f)

\* Mutant of zth_sem_post: a full semaphore is not refused.
zth_sem_post_Full(f) ==
    /\ Calls(f, "sem")
    /\ p' = [p EXCEPT !.n = IF @ = CountMax THEN CountMax ELSE @ + 1, !.wait = Rest(@)]
    /\ told' = [told EXCEPT !.units = @ + 1]
    /\ UNCHANGED call

\* EOVERFLOW at the largest size_t; release(1) saturates at the largest
\* count_type.
zth_sem_post(f) ==
    /\ Calls(f, "sem") /\ p.n # SizeMax
    /\ p' = [p EXCEPT !.n = IF @ = CountMax THEN CountMax ELSE @ + 1, !.wait = Rest(@)]
    /\ told' = [told EXCEPT !.units = @ + 1]
    /\ UNCHANGED call

\* Signal::wait(): the fiber blocks, or gives way with a signal there.
zth_cond_wait(f) ==
    /\ Calls(f, "cond")
    /\ IF p.n = 0 THEN Blocks(f, <<"cond_wait">>)
       ELSE call' = [call EXCEPT ![f] = <<"cond_wait">>] /\ UNCHANGED <<p, told>>

zth_cond_waitEnd(f) ==
    /\ Enters(f, "cond", <<"cond_wait">>) /\ call[f] # Idle
    /\ p' = [p EXCEPT !.n = IF @ > 0 THEN @ - 1 ELSE @]
    /\ Returns(f)
    /\ UNCHANGED told

zth_cond_signal(f) ==
    /\ Calls(f, "cond")
    /\ p' = IF p.wait = <<>> THEN [p EXCEPT !.n = 1] ELSE [p EXCEPT !.wait = Tail(@)]
    /\ UNCHANGED <<call, told>>

zth_cond_broadcast(f) ==
    /\ Calls(f, "cond")
    /\ p' = [p EXCEPT !.wait = <<>>]
    /\ UNCHANGED <<call, told>>

\* EAGAIN when there is a value already.
zth_future_set(f, v) ==
    /\ Calls(f, "future") /\ p.n = 0
    /\ p' = [p EXCEPT !.n = 1, !.value = v, !.wait = <<>>]
    /\ told' = [told EXCEPT !.value = v]
    /\ UNCHANGED call

\* zth_future_wait(), and zth_future_get(), that returns the value then.
zth_future_get(f) ==
    /\ Calls(f, "future") /\ p.n = 0
    /\ Blocks(f, <<"get">>)

zth_future_getEnd(f) ==
    /\ Enters(f, "future", <<"get">>) /\ (call[f] = Idle => p.n = 1)
    /\ Returns(f)
    /\ UNCHANGED <<p, told>>

\* Gate::pass(): whether the gate opens.
Opens == p.n + 1 >= p.arg

passed == [p EXCEPT !.n = IF Opens THEN @ + 1 - p.arg ELSE @ + 1,
                    !.wait = IF Opens THEN <<>> ELSE @]

\* 0 when the gate opens, and EBUSY otherwise.
zth_gate_pass(f) ==
    /\ Calls(f, "gate")
    /\ p' = passed
    /\ told' = [told EXCEPT !.units = (@ + 1) % p.arg]
    /\ UNCHANGED call

zth_gate_wait(f) ==
    /\ Calls(f, "gate")
    /\ p' = IF Opens THEN passed ELSE [passed EXCEPT !.wait = Append(@, f)]
    /\ told' = [told EXCEPT !.units = (@ + 1) % p.arg]
    /\ call' = [call EXCEPT ![f] = IF Opens THEN Idle ELSE <<"gate_wait">>]

zth_gate_waitEnd(f) ==
    /\ Enters(f, "gate", <<"gate_wait">>) /\ call[f] # Idle
    /\ Returns(f)
    /\ UNCHANGED <<p, told>>

MayTake(f) == p.n = 1 /\ p.assigned \in {nullptr, f}

\* A fiber knows that it is ready only until another fiber runs.
zth_mailbox_can_take(f) ==
    /\ Calls(f, "mailbox") /\ MayTake(f)
    /\ told' = [told EXCEPT !.ready = {<<f, "take">>}]
    /\ UNCHANGED <<p, call>>

zth_mailbox_can_put(f) ==
    /\ Calls(f, "mailbox") /\ p.n = 0
    /\ told' = [told EXCEPT !.ready = {<<f, "put">>}]
    /\ UNCHANGED <<p, call>>

zth_mailbox_put(f, v) ==
    /\ Enters(f, "mailbox", <<"put", v>>)
    /\ IF p.n = 1
       THEN /\ p' = [p EXCEPT !.put = Append(@, f)]
            /\ call' = [call EXCEPT ![f] = <<"put", v>>]
            /\ UNCHANGED told
       ELSE /\ p' = [p EXCEPT !.n = 1, !.value = v, !.wait = Rest(@),
                              !.assigned = IF p.wait = <<>> THEN @ ELSE Head(p.wait)]
            /\ told' = [told EXCEPT !.value = v, !.units = @ + 1, !.ready = {}]
            /\ Returns(f)

zth_mailbox_take(f) ==
    /\ Enters(f, "mailbox", <<"take">>)
    /\ IF ~MayTake(f) THEN Blocks(f, <<"take">>)
       ELSE /\ p' = [p EXCEPT !.n = 0, !.value = NoValue, !.put = Rest(@)]
            /\ told' = [told EXCEPT !.value = NoValue, !.units = @ - 1, !.ready = {}]
            /\ Returns(f)

ApiNext ==
    \/ zth_mutex_destroy \/ zth_sem_destroy \/ zth_cond_destroy
    \/ zth_future_destroy \/ zth_gate_destroy \/ zth_mailbox_destroy
    \/ \E f \in Fiber :
        \/ zth_mutex_init(f) \/ zth_cond_init(f) \/ zth_future_init(f) \/ zth_mailbox_init(f)
        \/ \E n \in Arguments : zth_sem_init(f, n) \/ zth_gate_init(f, n)
        \/ zth_mutex_lock(f) \/ zth_mutex_trylock(f) \/ zth_mutex_unlock(f)
        \/ zth_sem_wait(f) \/ zth_sem_trywait(f) \/ zth_sem_post(f)
        \/ zth_cond_wait(f) \/ zth_cond_waitEnd(f) \/ zth_cond_signal(f) \/ zth_cond_broadcast(f)
        \/ zth_future_get(f) \/ zth_future_getEnd(f)
        \/ zth_gate_pass(f) \/ zth_gate_wait(f) \/ zth_gate_waitEnd(f)
        \/ zth_mailbox_can_take(f) \/ zth_mailbox_can_put(f) \/ zth_mailbox_take(f)
        \/ \E v \in Arguments : zth_future_set(f, v) \/ zth_mailbox_put(f, v)

-----------------------------------------------------------------------------
(* Properties *)

\* A fiber in the call, not in a queue.
Awake(op) == \E f \in Fiber : call[f] = op /\ ~Queued(f)

\* What the callers of the C API know from the calls that returned 0 is true of
\* the object: one fiber holds a locked mutex; every zth_sem_post() is one unit,
\* and so is every zth_sem_wait(); a future keeps the value that was set, and
\* zth_future_get() returns it; a mailbox holds the value that was put and not
\* taken yet.  And no fiber is left waiting for what is there, unless another
\* one has been woken up for it.
ApiTellsTruth ==
    p # nullptr =>
        /\ p.kind \in {"sem", "gate", "mailbox"} => p.n = told.units
        /\ p.kind = "mutex" => p.n = (IF told.holders = {} THEN 0 ELSE 1)
        /\ p.kind = "mutex" => \A f, g \in told.holders : f = g
        /\ p.kind \in {"future", "mailbox"} => p.value = told.value
        /\ \A r \in told.ready : IF r[2] = "put" THEN p.n = 0 ELSE MayTake(r[1])
        /\ p.kind = "mutex" /\ p.n = 0 /\ p.wait # <<>> => Awake(<<"lock">>)
        /\ p.kind = "sem" /\ p.n > 0 /\ p.wait # <<>> => Awake(<<"wait">>)
        /\ p.kind \in {"cond", "future"} /\ p.n > 0 => p.wait = <<>>
        /\ p.kind = "future" /\ p.n = 0 => ~Awake(<<"get">>)
==============================================================================
