----------------------------- MODULE CApiProofs -----------------------------
(***************************************************************************)
(* The C API tells its callers the truth, for any number of fibers and any *)
(* sequence of calls.                                                      *)
(*                                                                         *)
(* ApiTellsTruth is not inductive.  ApiInv adds, for every kind of object, *)
(* in which function the fibers in its queue are, and that they are in     *)
(* there once (else the fiber that is woken up could still be queued, and  *)
(* would not go on), and that no count passes its bound.                   *)
(***************************************************************************)
EXTENDS CApi, TLAPS

\* CApi, on its own.
ApiSpec == ApiInit /\ [][ApiNext]_apiVars

Kind == {"mutex", "sem", "cond", "future", "gate", "mailbox"}

Objects == [kind : Kind, arg : Nat, n : Nat, value : Int, wait : Seq(Fiber), put : Seq(Fiber),
            assigned : Fiber \cup {nullptr}]

Knowledge == [units : Int, holders : SUBSET Fiber, value : Int,
              ready : SUBSET (Fiber \X {"take", "put"})]

Function == {Idle, <<"lock">>, <<"wait">>, <<"cond_wait">>, <<"get">>, <<"gate_wait">>, <<"take">>}
            \cup {<<"put", v>> : v \in Arguments}

\* A size_t is an unsigned int, such that zth_sem_post() sees that the semaphore is
\* full.  And a null pointer is no object.
Exact ==
    /\ SizeMax = CountMax /\ CountMax \in Nat
    /\ Arguments \subseteq Nat /\ nullptr \notin Objects

ApiTypeOK ==
    /\ p \in Objects \cup {nullptr}
    /\ call \in [Fiber -> Function]
    /\ told \in Knowledge

Once(q) == \A i, j \in 1 .. Len(q) : q[i] = q[j] => i = j

\* Every fiber in the queue is in the function op, and is in there once.
QueuedIn(op) ==
    /\ Once(p.wait) /\ p.put = <<>>
    /\ \A f \in Range(p.wait) : call[f] = op

\* What is right for an object of every kind.
MutexRight ==
    /\ QueuedIn(<<"lock">>)
    /\ p.n = IF told.holders = {} THEN 0 ELSE 1
    /\ \A f, g \in told.holders : f = g
    /\ p.n = 0 /\ p.wait # <<>> => Awake(<<"lock">>)

SemaphoreRight ==
    /\ QueuedIn(<<"wait">>)
    /\ p.n = told.units /\ p.n <= CountMax
    /\ p.n > 0 /\ p.wait # <<>> => Awake(<<"wait">>)

CondRight == p.n > 0 => p.wait = <<>>

FutureRight ==
    /\ p.value = told.value
    /\ p.n > 0 => p.wait = <<>>
    /\ p.n = 0 => ~Awake(<<"get">>)

GateRight == p.n = told.units /\ p.n < p.arg

MailboxRight ==
    /\ p.n = told.units /\ p.n \in {0, 1} /\ p.value = told.value
    /\ \A r \in told.ready : IF r[2] = "put" THEN p.n = 0 ELSE MayTake(r[1])

ObjectRight ==
    /\ p.kind = "mutex" => MutexRight
    /\ p.kind = "sem" => SemaphoreRight
    /\ p.kind = "cond" => CondRight
    /\ p.kind = "future" => FutureRight
    /\ p.kind = "gate" => GateRight
    /\ p.kind = "mailbox" => MailboxRight
    /\ p.kind # "mailbox" => told.ready = {}

\* The inductive invariant.
ApiInv ==
    /\ ApiTypeOK
    /\ IF p = nullptr THEN \A f \in Fiber : call[f] = Idle ELSE ObjectRight

\* The remainder of a number under the divisor, and of the divisor.
LEMMA ModLemma == \A a \in Nat, n \in Nat : n < a => n % a = n /\ a % a = 0
BY SMT

\* The names of the functions differ.
LEMMA FunctionNames ==
  /\ Idle # <<"lock">> /\ Idle # <<"wait">> /\ Idle # <<"cond_wait">>
  /\ Idle # <<"get">> /\ Idle # <<"gate_wait">> /\ Idle # <<"take">>
  /\ Idle \in Function /\ <<"lock">> \in Function /\ <<"wait">> \in Function
  /\ <<"cond_wait">> \in Function /\ <<"get">> \in Function /\ <<"gate_wait">> \in Function
  /\ <<"take">> \in Function /\ \A v \in Arguments : <<"put", v>> \in Function
BY DEF Idle, Function

\* A queue is one of fibers.
LEMMA QueueOfFibers == \A q \in Seq(Fiber) : Range(q) \subseteq Fiber
BY DEF Range

\* The first of a queue is taken out, and a fiber that is not in there is added.
LEMMA QueueLemma ==
  ASSUME NEW q \in Seq(Fiber), Once(q)
  PROVE  /\ q # <<>> => /\ Head(q) \in Range(q) /\ Head(q) \notin Range(Tail(q))
                        /\ Tail(q) \in Seq(Fiber) /\ Once(Tail(q))
                        /\ Range(Tail(q)) \subseteq Range(q)
         /\ \A f \in Fiber \ Range(q) :
               /\ Append(q, f) \in Seq(Fiber) /\ Once(Append(q, f))
               /\ Range(Append(q, f)) = Range(q) \cup {f}
<1>1. ASSUME q # <<>>
      PROVE  /\ Head(q) \in Range(q) /\ Head(q) \notin Range(Tail(q))
             /\ Tail(q) \in Seq(Fiber) /\ Once(Tail(q))
             /\ Range(Tail(q)) \subseteq Range(q)
  <2>1. Len(q) \in Nat \ {0} /\ Len(Tail(q)) = Len(q) - 1 /\ Tail(q) \in Seq(Fiber) /\ Head(q) = q[1]
    BY <1>1
  <2>2. \A i \in 1 .. Len(q) - 1 : Tail(q)[i] = q[i + 1]
    BY <1>1
  <2>3. DOMAIN q = 1 .. Len(q) /\ DOMAIN Tail(q) = 1 .. Len(q) - 1
    BY <2>1
  <2> QED
    BY <2>1, <2>2, <2>3 DEF Once, Range
<1>2. ASSUME NEW f \in Fiber \ Range(q)
      PROVE  /\ Append(q, f) \in Seq(Fiber) /\ Once(Append(q, f))
             /\ Range(Append(q, f)) = Range(q) \cup {f}
  <2>1. /\ Len(q) \in Nat /\ Len(Append(q, f)) = Len(q) + 1 /\ Append(q, f) \in Seq(Fiber)
        /\ \A i \in 1 .. Len(q) : Append(q, f)[i] = q[i]
        /\ Append(q, f)[Len(q) + 1] = f
    OBVIOUS
  <2>2. DOMAIN q = 1 .. Len(q) /\ DOMAIN Append(q, f) = 1 .. Len(q) + 1
    BY <2>1
  <2>3. \A i \in 1 .. Len(q) : q[i] # f
    BY <2>2 DEF Range
  <2> QED
    BY <2>1, <2>2, <2>3 DEF Once, Range
<1> QED BY <1>1, <1>2

\* Object v is h with another number and another queue.
Changes(h, v, m, q) ==
    /\ v \in Objects /\ v.kind = h.kind /\ v.arg = h.arg /\ v.n = m /\ v.value = h.value
    /\ v.wait = q /\ v.put = h.put /\ v.assigned = h.assigned

\* A function that sets the number or the queue of an object changes nothing else.
LEMMA ObjectLemma ==
  ASSUME NEW h \in Objects, NEW m \in Nat, NEW q \in Seq(Fiber)
  PROVE  /\ Changes(h, [h EXCEPT !.n = m], m, h.wait)
         /\ Changes(h, [h EXCEPT !.wait = q], h.n, q)
         /\ Changes(h, [h EXCEPT !.n = m, !.wait = q], m, q)
<1>1. Changes(h, [h EXCEPT !.n = m], m, h.wait)
  BY Zenon DEF Objects, Changes
<1>2. Changes(h, [h EXCEPT !.wait = q], h.n, q)
  BY Zenon DEF Objects, Changes
<1>3. Changes(h, [h EXCEPT !.n = m, !.wait = q], m, q)
  BY Zenon DEF Objects, Changes
<1> QED BY <1>1, <1>2, <1>3

\* What is known is t with other units.
Counts(t, v, u) ==
    /\ v \in Knowledge /\ v.units = u /\ v.holders = t.holders /\ v.value = t.value
    /\ v.ready = t.ready

\* A function that counts units leaves the rest of what is known.
LEMMA UnitsLemma ==
  ASSUME NEW t \in Knowledge, NEW u \in Int
  PROVE  Counts(t, [t EXCEPT !.units = u], u)
BY DEF Knowledge, Counts

\* zth_*_init() and zth_*_destroy(): a handle gets an object, or loses the one it has.
LEMMA HandleKeeps ==
  ASSUME Exact, ApiInv,
         \/ \E k \in Kind : Delete(k)
         \/ \E f \in Fiber :
              \/ zth_mutex_init(f) \/ zth_cond_init(f) \/ zth_future_init(f)
              \/ zth_mailbox_init(f)
              \/ \E n \in Arguments : zth_sem_init(f, n) \/ zth_gate_init(f, n)
  PROVE  ApiInv'
<1>1. ASSUME NEW k \in Kind, Delete(k) PROVE ApiInv'
  <2>1. /\ p' = nullptr /\ told' \in Knowledge /\ call' = call
        /\ \A f \in Fiber : call[f] = Idle
    BY <1>1 DEF Delete, Nothing, NoValue, Knowledge
  <2> QED BY <2>1 DEF ApiInv, ApiTypeOK
<1>2. ASSUME NEW f \in Fiber, NEW k \in Kind, NEW a \in Nat, NEW n \in Nat,
             Init(f, Object(k, a, n)),
             k # "sem" => n = 0, k = "sem" => n <= CountMax, k = "gate" => a > 0
      PROVE  ApiInv'
  <2>1. /\ p' = [kind |-> k, arg |-> a, n |-> n, value |-> -1, wait |-> <<>>, put |-> <<>>,
                 assigned |-> nullptr]
        /\ told' = [units |-> n, holders |-> {}, value |-> -1, ready |-> {}]
        /\ call' = call /\ p = nullptr
    BY <1>2, Zenon DEF Init, Object, Nothing, NoValue
  <2>2. p' \in Objects /\ told' \in Knowledge
    BY <2>1 DEF Objects, Knowledge
  <2>3. \A g \in Fiber : call'[g] = Idle
    BY <2>1 DEF ApiInv
  <2>4. p'.wait = <<>> /\ p'.put = <<>> /\ Range(p'.wait) = {} /\ Once(p'.wait)
    BY <2>1 DEF Range, Once
  <2>5. /\ p'.kind = k /\ p'.n = n /\ p'.arg = a /\ p'.value = -1
        /\ told'.units = n /\ told'.holders = {} /\ told'.value = -1 /\ told'.ready = {}
    BY <2>1
  <2>6. ~Awake(<<"get">>)'
    BY <2>3, FunctionNames DEF Awake
  <2>7. ObjectRight'
    BY <1>2, <2>4, <2>5, <2>6
       DEF ObjectRight, MutexRight, SemaphoreRight, CondRight, FutureRight, GateRight, MailboxRight,
           QueuedIn
  <2> QED BY <2>1, <2>2, <2>7 DEF ApiInv, ApiTypeOK, Exact
<1>3. ASSUME NEW f \in Fiber, NEW n \in Arguments, zth_sem_init(f, n) PROVE ApiInv'
  BY <1>2, <1>3 DEF zth_sem_init, Exact, Kind
<1>4. ASSUME NEW f \in Fiber, NEW n \in Arguments, zth_gate_init(f, n) PROVE ApiInv'
  BY <1>2, <1>4 DEF zth_gate_init, Exact, Kind
<1>5. ASSUME NEW f \in Fiber, zth_mutex_init(f) \/ zth_cond_init(f) \/ zth_future_init(f)
                              \/ zth_mailbox_init(f)
      PROVE  ApiInv'
  BY <1>2, <1>5 DEF zth_mutex_init, zth_cond_init, zth_future_init, zth_mailbox_init, Kind
<1> QED BY <1>1, <1>3, <1>4, <1>5

\* zth_mutex_lock(), trylock() and unlock() keep the invariant.
LEMMA MutexApiKeeps ==
  ASSUME Exact, ApiInv, NEW f \in Fiber,
         zth_mutex_lock(f) \/ zth_mutex_trylock(f) \/ zth_mutex_unlock(f)
  PROVE  ApiInv'
<1>1. /\ p \in Objects /\ p # nullptr /\ p.kind = "mutex" /\ ObjectRight /\ MutexRight
      /\ f \notin Range(p.wait) /\ told.ready = {}
  BY DEF ApiInv, ApiTypeOK, ObjectRight, zth_mutex_lock, zth_mutex_trylock,
         zth_mutex_unlock, Calls, Enters, Queued
<1>2. PICK q \in Seq(Fiber) : q = p.wait
  BY <1>1 DEF Objects
<1>3. Once(q) /\ \A g \in Range(q) : call[g] = <<"lock">>
  BY <1>1, <1>2 DEF MutexRight, QueuedIn
<1>4. p.n \in {0, 1} /\ p.put = <<>>
  BY <1>1 DEF MutexRight, QueuedIn
<1>5. SUFFICES /\ p' \in Objects /\ p'.kind = "mutex" /\ told' \in Knowledge
               /\ call' \in [Fiber -> Function] /\ told'.ready = {} /\ MutexRight'
  BY DEF ApiInv, ApiTypeOK, ObjectRight, Exact
<1>6. CASE Blocks(f, <<"lock">>) /\ p.n = 1
  <2>1. /\ p' = [p EXCEPT !.wait = Append(q, f)] /\ told' = told
        /\ call' = [call EXCEPT ![f] = <<"lock">>]
    BY <1>2, <1>6 DEF Blocks
  <2>2. /\ Append(q, f) \in Seq(Fiber) /\ Once(Append(q, f))
        /\ Range(Append(q, f)) = Range(q) \cup {f}
    BY <1>1, <1>2, <1>3, QueueLemma
  <2>3. p' \in Objects /\ p'.kind = "mutex" /\ p'.wait = Append(q, f)
        /\ p'.n = 1 /\ p'.put = <<>>
    BY <1>1, <1>4, <1>6, <2>1, <2>2, Zenon DEF Objects
  <2>4. call' \in [Fiber -> Function] /\ \A g \in Range(Append(q, f)) : call'[g] = <<"lock">>
    BY <1>1, <1>2, <1>3, <2>1, <2>2 DEF ApiInv, ApiTypeOK, Function, Range, Objects
  <2> QED
    BY <1>1, <1>6, <2>1, <2>2, <2>3, <2>4 DEF ApiInv, ApiTypeOK, MutexRight, QueuedIn
<1>7. CASE /\ p.n = 0 /\ p' = [p EXCEPT !.n = 1]
           /\ told' = [told EXCEPT !.holders = @ \cup {f}] /\ (Returns(f) \/ UNCHANGED call)
  <2>1. p' \in Objects /\ p'.kind = "mutex" /\ p'.wait = q /\ p'.n = 1
        /\ p'.put = <<>>
    BY <1>1, <1>2, <1>4, <1>7 DEF Objects
  <2>2. told' \in Knowledge /\ told'.ready = {} /\ told'.holders = told.holders \cup {f}
    BY <1>1, <1>7 DEF ApiInv, ApiTypeOK, Knowledge
  <2>3. call' \in [Fiber -> Function] /\ \A g \in Fiber \ {f} : call'[g] = call[g]
    BY <1>7, FunctionNames DEF Returns, ApiInv, ApiTypeOK
  <2>4. told.holders = {}
    BY <1>1, <1>7 DEF MutexRight
  <2> QED
    BY <1>1, <1>2, <1>3, <2>1, <2>2, <2>3, <2>4, QueueOfFibers DEF MutexRight, QueuedIn
<1>8. CASE zth_mutex_unlock(f)
  <2>1. /\ p' = [p EXCEPT !.n = 0, !.wait = Rest(q)]
        /\ told' = [told EXCEPT !.holders = @ \ {f}] /\ call' = call /\ f \in told.holders
    BY <1>2, <1>8 DEF zth_mutex_unlock
  <2>2. PICK r \in Seq(Fiber) : /\ r = Rest(q) /\ Once(r) /\ Range(r) \subseteq Range(q)
                                /\ q # <<>> => Head(q) \in Range(q) \ Range(r)
                                /\ q = <<>> => r = <<>>
    BY <1>3, QueueLemma, Zenon DEF Rest
  <2>3. p' \in Objects /\ p'.kind = "mutex" /\ p'.wait = r /\ p'.n = 0
        /\ p'.put = <<>>
    BY <1>1, <1>4, <2>1, <2>2, Zenon DEF Objects
  <2>4. told' \in Knowledge /\ told'.ready = {} /\ told'.holders = told.holders \ {f}
    BY <1>1, <2>1, Zenon DEF ApiInv, ApiTypeOK, Knowledge
  <2>5. told'.holders = {}
    BY <1>1, <2>1, <2>4 DEF MutexRight
  <2>6. ASSUME r # <<>> PROVE Awake(<<"lock">>)'
    <3>1. PICK g \in Fiber : g \in Range(q) /\ g \notin Range(r)
      BY <2>2, <2>6 DEF Range
    <3>2. call'[g] = <<"lock">>
      BY <1>3, <2>1, <3>1
    <3>3. ~Queued(g)'
      BY <2>3, <3>1 DEF Queued, Range
    <3> QED BY <3>2, <3>3 DEF Awake
  <2> QED
    BY <1>3, <2>1, <2>2, <2>3, <2>4, <2>5, <2>6 DEF ApiInv, ApiTypeOK, MutexRight, QueuedIn
<1> QED
  BY <1>4, <1>6, <1>7, <1>8 DEF zth_mutex_lock, zth_mutex_trylock

\* zth_sem_wait(), trywait() and post() keep the invariant.
LEMMA SemaphoreApiKeeps ==
  ASSUME Exact, ApiInv, NEW f \in Fiber,
         zth_sem_wait(f) \/ zth_sem_trywait(f) \/ zth_sem_post(f)
  PROVE  ApiInv'
<1>1. /\ p \in Objects /\ p # nullptr /\ p.kind = "sem" /\ SemaphoreRight
      /\ f \notin Range(p.wait) /\ told.ready = {} /\ told \in Knowledge
  BY DEF ApiInv, ApiTypeOK, ObjectRight, zth_sem_wait, zth_sem_trywait,
         zth_sem_post, Calls, Enters, Queued
<1>2. PICK q \in Seq(Fiber) : q = p.wait
  BY <1>1 DEF Objects
<1>3. /\ Once(q) /\ \A g \in Range(q) : g \in Fiber /\ call[g] = <<"wait">>
      /\ p.put = <<>> /\ f \notin Range(q)
  BY <1>1, <1>2, QueueOfFibers DEF SemaphoreRight, QueuedIn
<1>4. p.n \in Nat /\ p.n = told.units /\ p.n <= CountMax /\ CountMax \in Nat
  BY <1>1 DEF SemaphoreRight, Objects, Exact
<1>5. SUFFICES /\ p' \in Objects /\ p'.kind = "sem" /\ told' \in Knowledge
               /\ call' \in [Fiber -> Function] /\ told'.ready = {} /\ SemaphoreRight'
  BY DEF ApiInv, ApiTypeOK, ObjectRight, Exact
<1>6. PICK r \in Seq(Fiber) : /\ r = Rest(q) /\ Once(r) /\ Range(r) \subseteq Range(q)
                              /\ q # <<>> => Head(q) \in Range(q) \ Range(r)
                              /\ q = <<>> => r = <<>>
  BY <1>3, QueueLemma, Zenon DEF Rest
<1>7. ASSUME p' \in Objects, p'.wait = r, p'.put = <<>>, r # <<>>,
             \A g \in Fiber \ {f} : call'[g] = call[g]
      PROVE  Awake(<<"wait">>)'
  <2>1. PICK g \in Fiber : g \in Range(q) /\ g \notin Range(r)
    BY <1>3, <1>6, <1>7
  <2>2. call'[g] = <<"wait">>
    BY <1>3, <1>7, <2>1
  <2>3. ~Queued(g)'
    BY <1>7, <2>1 DEF Queued, Range
  <2> QED BY <2>2, <2>3 DEF Awake
<1>8. CASE Blocks(f, <<"wait">>) /\ p.n = 0
  <2>1. /\ p' = [p EXCEPT !.wait = Append(q, f)] /\ told' = told
        /\ call' = [call EXCEPT ![f] = <<"wait">>]
    BY <1>2, <1>8 DEF Blocks
  <2>2. /\ Append(q, f) \in Seq(Fiber) /\ Once(Append(q, f))
        /\ Range(Append(q, f)) = Range(q) \cup {f}
    BY <1>3, QueueLemma
  <2>3. /\ p' \in Objects /\ p'.kind = "sem" /\ p'.wait = Append(q, f)
        /\ p'.n = 0 /\ p'.put = <<>>
    BY <1>1, <1>3, <1>8, <2>1, <2>2, Zenon DEF Objects
  <2>4. call' \in [Fiber -> Function] /\ \A g \in Range(Append(q, f)) : call'[g] = <<"wait">>
    BY <1>3, <2>1, <2>2, FunctionNames DEF ApiInv, ApiTypeOK
  <2> QED
    <3>1. QueuedIn(<<"wait">>)'
      BY <2>2, <2>3, <2>4 DEF QueuedIn
    <3>2. told'.ready = {} /\ told' \in Knowledge /\ told'.units = p'.n
      BY <1>1, <1>4, <1>8, <2>1, <2>3, Zenon
    <3> QED BY <1>4, <2>3, <2>4, <3>1, <3>2 DEF SemaphoreRight
<1>9. CASE acquired(f) /\ p.n # 0
  <2>1. /\ p' = [p EXCEPT !.n = p.n - 1, !.wait = IF p.n > 1 THEN r ELSE q]
        /\ told' = [told EXCEPT !.units = told.units - 1] /\ call' = [call EXCEPT ![f] = Idle]
    BY <1>2, <1>6, <1>9 DEF acquired, Returns
  <2>2. /\ p' \in Objects /\ p'.kind = "sem" /\ p'.n = p.n - 1
        /\ p'.put = <<>> /\ p'.wait = IF p.n > 1 THEN r ELSE q
    <3>1. PICK m \in Nat : m = p.n - 1
      BY <1>4, <1>9
    <3>2. PICK x \in Seq(Fiber) : x = IF p.n > 1 THEN r ELSE q
      OBVIOUS
    <3>3. p' = [p EXCEPT !.n = m, !.wait = x]
      BY <2>1, <3>1, <3>2, SMTT(30)
    <3>4. Changes(p, p', m, x)
      BY <1>1, <3>3, ObjectLemma, Zenon
    <3> QED BY <1>1, <1>3, <3>1, <3>2, <3>4 DEF Changes
  <2>3. told' \in Knowledge /\ told'.ready = {} /\ told'.units = p.n - 1
    <3>1. PICK u \in Int : u = told.units - 1
      BY <1>4
    <3>2. Counts(told, told', u)
      BY <1>1, <2>1, <3>1, UnitsLemma
    <3> QED BY <1>1, <1>4, <3>1, <3>2 DEF Counts
  <2>4. call' \in [Fiber -> Function] /\ \A g \in Fiber \ {f} : call'[g] = call[g]
    BY <2>1, FunctionNames DEF ApiInv, ApiTypeOK
  <2>5. QueuedIn(<<"wait">>)'
    BY <1>3, <1>6, <2>2, <2>4 DEF QueuedIn
  <2>6. p'.n > 0 /\ p'.wait # <<>> => Awake(<<"wait">>)'
    BY <1>4, <1>7, <2>2, <2>4
  <2> QED
    BY <1>4, <1>9, <2>2, <2>3, <2>4, <2>5, <2>6 DEF SemaphoreRight
<1>10. CASE zth_sem_post(f)
  <2>1. /\ p' = [p EXCEPT !.n = p.n + 1, !.wait = r]
        /\ told' = [told EXCEPT !.units = told.units + 1] /\ call' = call /\ p.n # CountMax
    BY <1>2, <1>6, <1>10 DEF zth_sem_post, Exact
  <2>2. /\ p' \in Objects /\ p'.kind = "sem" /\ p'.n = p.n + 1
        /\ p'.put = <<>> /\ p'.wait = r
    <3>1. PICK m \in Nat : m = p.n + 1
      BY <1>4, SMTT(30)
    <3>2. Changes(p, p', m, r)
      BY <1>1, <2>1, <3>1, ObjectLemma, Zenon
    <3> QED BY <1>1, <1>3, <3>1, <3>2 DEF Changes
  <2>3. told' \in Knowledge /\ told'.ready = {} /\ told'.units = p.n + 1
    <3>1. PICK u \in Int : u = told.units + 1
      BY <1>4
    <3>2. Counts(told, told', u)
      BY <1>1, <2>1, <3>1, UnitsLemma
    <3> QED BY <1>1, <1>4, <3>1, <3>2 DEF Counts
  <2>4. QueuedIn(<<"wait">>)'
    BY <1>3, <1>6, <2>1, <2>2 DEF QueuedIn
  <2>5. p'.n > 0 /\ p'.wait # <<>> => Awake(<<"wait">>)'
    BY <1>7, <2>1, <2>2
  <2> QED
    BY <1>4, <2>1, <2>2, <2>3, <2>4, <2>5 DEF SemaphoreRight, ApiInv, ApiTypeOK
<1> QED
  BY <1>4, <1>8, <1>9, <1>10 DEF zth_sem_wait, zth_sem_trywait

\* zth_cond_wait(), signal() and broadcast() keep the invariant.
LEMMA CondApiKeeps ==
  ASSUME Exact, ApiInv, NEW f \in Fiber,
         \/ zth_cond_wait(f) \/ zth_cond_waitEnd(f) \/ zth_cond_signal(f)
         \/ zth_cond_broadcast(f)
  PROVE  ApiInv'
<1>1. /\ p \in Objects /\ p # nullptr /\ p.kind = "cond" /\ CondRight
      /\ told.ready = {} /\ told \in Knowledge /\ call \in [Fiber -> Function]
  BY DEF ApiInv, ApiTypeOK, ObjectRight, zth_cond_wait, zth_cond_waitEnd, zth_cond_signal,
         zth_cond_broadcast, Calls, Enters
<1>2. p.n \in Nat /\ p.wait \in Seq(Fiber)
  BY <1>1 DEF Objects
<1>3. SUFFICES /\ p' \in Objects /\ p'.kind = "cond" /\ told' = told
               /\ call' \in [Fiber -> Function] /\ CondRight'
  BY <1>1 DEF ApiInv, ApiTypeOK, ObjectRight, Exact
<1>4. CASE zth_cond_wait(f)
  <2>1. told' = told /\ call' = [call EXCEPT ![f] = <<"cond_wait">>]
    BY <1>4 DEF zth_cond_wait, Blocks
  <2>2. call' \in [Fiber -> Function]
    BY <1>1, <2>1, FunctionNames
  <2>3. CASE p.n = 0
    <3>1. p' = [p EXCEPT !.wait = Append(p.wait, f)]
      BY <1>4, <2>3 DEF zth_cond_wait, Blocks
    <3>2. Append(p.wait, f) \in Seq(Fiber)
      BY <1>2, SMTT(30)
    <3>3. Changes(p, p', p.n, Append(p.wait, f))
      BY <1>1, <3>1, <3>2, ObjectLemma, Zenon
    <3> QED BY <1>1, <2>1, <2>2, <2>3, <3>3 DEF Changes, CondRight
  <2>4. CASE p.n # 0
    BY <1>1, <1>4, <2>1, <2>2, <2>4 DEF zth_cond_wait, CondRight
  <2> QED BY <2>3, <2>4
<1>5. CASE zth_cond_waitEnd(f)
  <2>1. told' = told /\ call' = [call EXCEPT ![f] = Idle]
        /\ p' = [p EXCEPT !.n = IF p.n > 0 THEN p.n - 1 ELSE p.n]
    BY <1>5 DEF zth_cond_waitEnd, Returns
  <2>2. call' \in [Fiber -> Function]
    BY <1>1, <2>1, FunctionNames
  <2> QED BY <1>1, <1>2, <2>1, <2>2 DEF Objects, CondRight
<1>6. CASE zth_cond_signal(f) \/ zth_cond_broadcast(f)
  <2>1. told' = told /\ call' = call
    BY <1>6 DEF zth_cond_signal, zth_cond_broadcast
  <2>2. CASE p' = [p EXCEPT !.n = 1] /\ p.wait = <<>>
    BY <1>1, <2>1, <2>2 DEF Objects, CondRight
  <2>3. CASE p' = [p EXCEPT !.wait = Tail(p.wait)] /\ p.wait # <<>>
    <3>1. Tail(p.wait) \in Seq(Fiber)
      BY <1>2, <2>3, SMTT(30)
    <3>2. Changes(p, p', p.n, Tail(p.wait))
      BY <1>1, <2>3, <3>1, ObjectLemma, Zenon
    <3> QED BY <1>1, <1>2, <2>1, <2>3, <3>2 DEF Changes, CondRight
  <2>4. CASE p' = [p EXCEPT !.wait = <<>>]
    <3>1. <<>> \in Seq(Fiber)
      BY SMTT(30)
    <3>2. Changes(p, p', p.n, <<>>)
      BY <1>1, <2>4, <3>1, ObjectLemma, Zenon
    <3> QED BY <1>1, <2>1, <3>2 DEF Changes, CondRight
  <2> QED BY <1>6, <2>2, <2>3, <2>4 DEF zth_cond_signal, zth_cond_broadcast
<1> QED BY <1>4, <1>5, <1>6

\* zth_future_get() and set() keep the invariant.
LEMMA FutureApiKeeps ==
  ASSUME Exact, ApiInv, NEW f \in Fiber,
         \/ zth_future_get(f) \/ zth_future_getEnd(f)
         \/ \E v \in Arguments : zth_future_set(f, v)
  PROVE  ApiInv'
<1>1. /\ p \in Objects /\ p # nullptr /\ p.kind = "future" /\ FutureRight
      /\ told.ready = {} /\ told \in Knowledge /\ call \in [Fiber -> Function]
      /\ ~Queued(f)
  BY Zenon DEF ApiInv, ApiTypeOK, ObjectRight, zth_future_get, zth_future_getEnd, zth_future_set,
         Calls, Enters
<1>2. p.n \in Nat /\ p.wait \in Seq(Fiber)
  BY <1>1 DEF Objects
<1>3. SUFFICES /\ p' \in Objects /\ p'.kind = "future" /\ told' \in Knowledge
               /\ told'.ready = {} /\ call' \in [Fiber -> Function] /\ FutureRight'
  BY <1>1 DEF ApiInv, ApiTypeOK, ObjectRight, Exact
<1>4. CASE zth_future_get(f)
  <2>1. /\ p.n = 0 /\ p' = [p EXCEPT !.wait = Append(p.wait, f)] /\ told' = told
        /\ call' = [call EXCEPT ![f] = <<"get">>]
    BY <1>4 DEF zth_future_get, Blocks
  <2>2. /\ call' \in [Fiber -> Function] /\ Append(p.wait, f) \in Seq(Fiber)
    BY <1>1, <1>2, <2>1, FunctionNames, SMTT(30)
  <2>3. Changes(p, p', p.n, Append(p.wait, f))
    BY <1>1, <2>1, <2>2, ObjectLemma, Zenon
  <2>4. Range(Append(p.wait, f)) = Range(p.wait) \cup {f}
    <3>1. PICK q \in Seq(Fiber) : q = p.wait
      BY <1>2
    <3>2. /\ Len(q) \in Nat /\ DOMAIN q = 1 .. Len(q) /\ DOMAIN Append(q, f) = 1 .. Len(q) + 1
          /\ \A i \in 1 .. Len(q) : Append(q, f)[i] = q[i]
          /\ Append(q, f)[Len(q) + 1] = f
      OBVIOUS
    <3> QED BY <3>1, <3>2 DEF Range
  <2>5. \A g \in Fiber : (Queued(g) \/ g = f) => Queued(g)'
    BY <1>1, <2>3, <2>4 DEF Queued, Changes, Exact
  <2>6. ~Awake(<<"get">>)'
    BY <1>1, <2>1, <2>5 DEF FutureRight, Awake
  <2> QED BY <1>1, <2>1, <2>2, <2>3, <2>6 DEF FutureRight, Changes
<1>5. CASE zth_future_getEnd(f)
  <2>1. p' = p /\ told' = told /\ call' = [call EXCEPT ![f] = Idle]
    BY <1>5 DEF zth_future_getEnd, Returns
  <2>2. call' \in [Fiber -> Function]
    BY <1>1, <2>1, FunctionNames
  <2>3. \A g \in Fiber : Queued(g)' <=> Queued(g)
    BY <2>1 DEF Queued
  <2>4. Awake(<<"get">>)' => Awake(<<"get">>)
    BY <1>1, <2>1, <2>3, FunctionNames DEF Awake
  <2> QED BY <1>1, <2>1, <2>2, <2>4 DEF FutureRight
<1>6. ASSUME NEW v \in Arguments, zth_future_set(f, v)
      PROVE  /\ p' \in Objects /\ p'.kind = "future" /\ told' \in Knowledge
             /\ told'.ready = {} /\ call' \in [Fiber -> Function] /\ FutureRight'
  <2>1. /\ p' = [p EXCEPT !.n = 1, !.value = v, !.wait = <<>>]
        /\ told' = [told EXCEPT !.value = v] /\ call' = call
    BY <1>6, Zenon DEF zth_future_set
  <2>2. v \in Int
    BY DEF Exact
  <2>3. /\ p' \in Objects /\ p'.kind = "future" /\ p'.n = 1 /\ p'.wait = <<>>
        /\ p'.value = v
    <3>1. <<>> \in Seq(Fiber)
      OBVIOUS
    <3> QED BY <1>1, <2>1, <2>2, <3>1, Zenon DEF Objects
  <2>4. told' \in Knowledge /\ told'.ready = {} /\ told'.value = v
    BY <1>1, <2>1, <2>2 DEF Knowledge
  <2> QED BY <1>1, <2>1, <2>3, <2>4 DEF FutureRight
<1> QED BY <1>4, <1>5, <1>6, SMTT(30)

\* zth_gate_pass() and wait() keep the invariant.
LEMMA GateApiKeeps ==
  ASSUME Exact, ApiInv, NEW f \in Fiber,
         zth_gate_pass(f) \/ zth_gate_wait(f) \/ zth_gate_waitEnd(f)
  PROVE  ApiInv'
<1>1. /\ p \in Objects /\ p # nullptr /\ p.kind = "gate" /\ GateRight
      /\ told.ready = {} /\ told \in Knowledge /\ call \in [Fiber -> Function]
  BY DEF ApiInv, ApiTypeOK, ObjectRight, zth_gate_pass, zth_gate_wait, zth_gate_waitEnd,
         Calls, Enters
<1>2. p.n \in Nat /\ p.arg \in Nat /\ p.wait \in Seq(Fiber)
  BY <1>1 DEF Objects
<1>3. SUFFICES /\ p' \in Objects /\ p'.kind = "gate" /\ told' \in Knowledge
               /\ told'.ready = {} /\ call' \in [Fiber -> Function] /\ GateRight'
  BY <1>1 DEF ApiInv, ApiTypeOK, ObjectRight, Exact
<1>4. CASE zth_gate_waitEnd(f)
  BY <1>1, <1>4, FunctionNames DEF zth_gate_waitEnd, Returns, GateRight
<1>5. CASE zth_gate_pass(f) \/ zth_gate_wait(f)
  <2>1. PICK m \in Nat : m = IF Opens THEN p.n + 1 - p.arg ELSE p.n + 1
    BY <1>2 DEF Opens
  <2>2. m = (p.n + 1) % p.arg /\ m < p.arg
    <3>1. p.n < p.arg
      BY <1>1 DEF GateRight
    <3>2. CASE p.n + 1 < p.arg
      BY <1>2, <2>1, <3>2, ModLemma DEF Opens
    <3>3. CASE p.n + 1 = p.arg
      BY <1>2, <2>1, <3>1, <3>3, ModLemma DEF Opens
    <3> QED BY <1>2, <3>1, <3>2, <3>3
  <2>3. told' = [told EXCEPT !.units = m]
    BY <1>1, <1>5, <2>2 DEF GateRight, zth_gate_pass, zth_gate_wait
  <2>4. Counts(told, told', m)
    BY <1>1, <2>3, UnitsLemma
  <2>5. PICK q \in Seq(Fiber) : q = IF Opens THEN <<>> ELSE p.wait
    <3>1. <<>> \in Seq(Fiber)
      OBVIOUS
    <3> QED BY <1>2, <3>1, Zenon
  <2>6. passed = [p EXCEPT !.n = m, !.wait = q]
    BY <1>1, <2>1, <2>5 DEF passed
  <2>7. Changes(p, passed, m, q)
    BY <1>1, <2>6, ObjectLemma, Zenon
  <2>8. ASSUME p' = passed
        PROVE  p' \in Objects /\ p'.kind = "gate" /\ GateRight'
    BY <1>1, <2>2, <2>4, <2>7, <2>8 DEF Changes, Counts, GateRight
  <2>9. ASSUME p' = [passed EXCEPT !.wait = Append(@, f)]
        PROVE  p' \in Objects /\ p'.kind = "gate" /\ GateRight'
    <3>1. PICK h \in Objects : h = passed
      BY <2>7 DEF Changes
    <3>2. Append(q, f) \in Seq(Fiber) /\ p' = [h EXCEPT !.wait = Append(q, f)]
      BY <2>7, <2>9, <3>1, SMTT(30) DEF Changes
    <3>3. Changes(h, p', h.n, Append(q, f))
      BY <3>2, ObjectLemma, Zenon
    <3> QED BY <1>1, <2>2, <2>4, <2>7, <3>1, <3>3 DEF Changes, Counts, GateRight
  <2>10. call' \in [Fiber -> Function]
    BY <1>1, <1>5, FunctionNames, Zenon DEF zth_gate_pass, zth_gate_wait
  <2> QED BY <1>1, <1>5, <2>4, <2>8, <2>9, <2>10 DEF Counts, zth_gate_pass, zth_gate_wait
<1> QED BY <1>4, <1>5

\* zth_mailbox_can_take(), can_put(), take() and put() keep the invariant.
LEMMA MailboxApiKeeps ==
  ASSUME Exact, ApiInv, NEW f \in Fiber,
         \/ zth_mailbox_can_take(f) \/ zth_mailbox_can_put(f) \/ zth_mailbox_take(f)
         \/ \E v \in Arguments : zth_mailbox_put(f, v)
  PROVE  ApiInv'
<1>1. /\ p \in Objects /\ p # nullptr /\ p.kind = "mailbox" /\ MailboxRight
      /\ told \in Knowledge /\ call \in [Fiber -> Function]
  BY Zenon DEF ApiInv, ApiTypeOK, ObjectRight, zth_mailbox_can_take, zth_mailbox_can_put,
         zth_mailbox_take, zth_mailbox_put, Calls, Enters
<1>2. /\ p.n \in {0, 1} /\ p.n = told.units /\ p.wait \in Seq(Fiber)
      /\ p.put \in Seq(Fiber) /\ p.value = told.value
  BY <1>1 DEF Objects, MailboxRight
<1>3. SUFFICES /\ p' \in Objects /\ p'.kind = "mailbox" /\ told' \in Knowledge
               /\ call' \in [Fiber -> Function] /\ MailboxRight'
  BY <1>1 DEF ApiInv, ApiTypeOK, ObjectRight, Exact
<1>4. \A q \in Seq(Fiber) : Append(q, f) \in Seq(Fiber) /\ Rest(q) \in Seq(Fiber)
  <2>1. \A q \in Seq(Fiber) : q # <<>> => Tail(q) \in Seq(Fiber)
    OBVIOUS
  <2> QED BY <2>1 DEF Rest
<1>5. CASE zth_mailbox_can_take(f) \/ zth_mailbox_can_put(f)
  <2>1. p' = p /\ call' = call
    BY <1>5 DEF zth_mailbox_can_take, zth_mailbox_can_put
  <2>2. PICK r \in Fiber \X {"take", "put"} :
            /\ told' = [told EXCEPT !.ready = {r}]
            /\ IF r[2] = "put" THEN p.n = 0 ELSE MayTake(r[1])
    <3>1. CASE zth_mailbox_can_take(f)
      <4>1. told' = [told EXCEPT !.ready = {<<f, "take">>}] /\ MayTake(f)
        BY <3>1 DEF zth_mailbox_can_take
      <4> WITNESS <<f, "take">> \in Fiber \X {"take", "put"}
      <4> QED BY <4>1
    <3>2. CASE zth_mailbox_can_put(f)
      <4>1. told' = [told EXCEPT !.ready = {<<f, "put">>}] /\ p.n = 0
        BY <3>2 DEF zth_mailbox_can_put
      <4> WITNESS <<f, "put">> \in Fiber \X {"take", "put"}
      <4> QED BY <4>1
    <3> QED BY <1>5, <3>1, <3>2
  <2>3. /\ told' \in Knowledge /\ told'.units = told.units /\ told'.value = told.value
        /\ told'.ready = {r}
    BY <1>1, <2>2 DEF Knowledge
  <2>4. \A x \in Fiber : MayTake(x)' <=> MayTake(x)
    BY <2>1 DEF MayTake
  <2> QED BY <1>1, <1>2, <2>1, <2>2, <2>3, <2>4 DEF MailboxRight
<1>6. ASSUME \/ p' = [p EXCEPT !.put = Append(p.put, f)]
             \/ p' = [p EXCEPT !.wait = Append(p.wait, f)],
             told' = told, call' \in [Fiber -> Function]
      PROVE  p' \in Objects /\ p'.kind = "mailbox" /\ MailboxRight'
  <2>1. /\ p' \in Objects /\ p'.kind = "mailbox" /\ p'.n = p.n
        /\ p'.value = p.value /\ p'.assigned = p.assigned
    <3>1. Append(p.put, f) \in Seq(Fiber) /\ Append(p.wait, f) \in Seq(Fiber)
      BY <1>2, <1>4
    <3>2. CASE p' = [p EXCEPT !.put = Append(p.put, f)]
      BY <1>1, <3>1, <3>2, Zenon DEF Objects
    <3>3. CASE p' = [p EXCEPT !.wait = Append(p.wait, f)]
      BY <1>1, <3>1, <3>3, Zenon DEF Objects
    <3> QED BY <1>6, <3>2, <3>3
  <2>2. \A x \in Fiber : MayTake(x)' <=> MayTake(x)
    BY <2>1 DEF MayTake
  <2>3. \A r \in told.ready : r[1] \in Fiber
    BY <1>1 DEF Knowledge
  <2> QED BY <1>1, <1>2, <1>6, <2>1, <2>2, <2>3 DEF MailboxRight
<1>7. CASE zth_mailbox_take(f)
  <2>1. CASE ~MayTake(f)
    <3>1. /\ p' = [p EXCEPT !.wait = Append(p.wait, f)] /\ told' = told
          /\ call' = [call EXCEPT ![f] = <<"take">>]
      BY <1>7, <2>1 DEF zth_mailbox_take, Blocks
    <3>2. call' \in [Fiber -> Function]
      BY <1>1, <3>1, FunctionNames
    <3> QED BY <1>1, <1>6, <3>1, <3>2
  <2>2. CASE MayTake(f)
    <3>0. PICK x \in Int : x = NoValue
      BY DEF NoValue
    <3>1. /\ p.n = 1 /\ p' = [p EXCEPT !.n = 0, !.value = x, !.put = Rest(p.put)]
          /\ told' = [told EXCEPT !.value = x, !.units = told.units - 1, !.ready = {}]
          /\ call' = [call EXCEPT ![f] = Idle]
      BY <1>7, <2>2, <3>0 DEF zth_mailbox_take, MayTake, Returns
    <3>2. call' \in [Fiber -> Function] /\ Rest(p.put) \in Seq(Fiber)
      BY <1>1, <1>2, <1>4, <3>1, FunctionNames
    <3>3. p' \in Objects /\ p'.kind = "mailbox" /\ p'.n = 0 /\ p'.value = x
      BY <1>1, <3>1, <3>2, Zenon DEF Objects
    <3>4. PICK u \in Int : u = 0 /\ u = told.units - 1
      BY <1>2, <3>1
    <3>5. told' \in Knowledge /\ told'.units = 0 /\ told'.value = x /\ told'.ready = {}
      BY <1>1, <3>1, <3>4, Zenon DEF Knowledge
    <3> QED BY <3>2, <3>3, <3>5 DEF MailboxRight
  <2> QED BY <2>1, <2>2
<1>8. ASSUME NEW v \in Arguments, zth_mailbox_put(f, v)
      PROVE  /\ p' \in Objects /\ p'.kind = "mailbox" /\ told' \in Knowledge
             /\ call' \in [Fiber -> Function] /\ MailboxRight'
  <2>1. CASE p.n = 1
    <3>1. /\ p' = [p EXCEPT !.put = Append(p.put, f)] /\ told' = told
          /\ call' = [call EXCEPT ![f] = <<"put", v>>]
      BY <1>8, <2>1 DEF zth_mailbox_put
    <3>2. call' \in [Fiber -> Function]
      BY <1>1, <3>1, FunctionNames
    <3> QED BY <1>1, <1>6, <3>1, <3>2
  <2>2. CASE p.n = 0
    <3>1. PICK a \in Fiber \cup {nullptr} :
            a = IF p.wait = <<>> THEN p.assigned ELSE Head(p.wait)
      <4>1. p.wait # <<>> => Head(p.wait) \in Fiber
        BY <1>2
      <4>2. p.assigned \in Fiber \cup {nullptr}
        BY <1>1 DEF Objects
      <4> QED BY <4>1, <4>2
    <3>2. /\ p' = [p EXCEPT !.n = 1, !.value = v, !.wait = Rest(p.wait), !.assigned = a]
          /\ told' = [told EXCEPT !.value = v, !.units = told.units + 1, !.ready = {}]
          /\ call' = [call EXCEPT ![f] = Idle]
      <4>1. /\ p' = [p EXCEPT !.n = 1, !.value = v, !.wait = Rest(@),
                      !.assigned = IF p.wait = <<>> THEN @ ELSE Head(p.wait)]
            /\ told' = [told EXCEPT !.value = v, !.units = @ + 1, !.ready = {}]
            /\ Returns(f)
        <5>1. p.n # 1
          BY <2>2
        <5> QED BY <1>8, <5>1, Zenon DEF zth_mailbox_put
      <4>2. p' = [p EXCEPT !.n = 1, !.value = v, !.wait = Rest(p.wait), !.assigned = a]
        <5>1. CASE p.wait = <<>>
          BY <1>1, <3>1, <4>1, <5>1 DEF Objects
        <5>2. CASE p.wait # <<>>
          BY <1>1, <3>1, <4>1, <5>2 DEF Objects
        <5> QED BY <5>1, <5>2
      <4> QED BY <4>1, <4>2 DEF Returns
    <3>3. call' \in [Fiber -> Function] /\ Rest(p.wait) \in Seq(Fiber) /\ v \in Int
      BY <1>1, <1>2, <1>4, <3>2, FunctionNames DEF Exact
    <3>4. p' \in Objects /\ p'.kind = "mailbox" /\ p'.n = 1 /\ p'.value = v
      BY <1>1, <3>2, <3>3, Zenon DEF Objects
    <3>5. PICK u \in Int : u = 1 /\ u = told.units + 1
      BY <1>2, <2>2
    <3>6. told' \in Knowledge /\ told'.units = 1 /\ told'.value = v /\ told'.ready = {}
      BY <1>1, <3>2, <3>3, <3>5, Zenon DEF Knowledge
    <3> QED BY <3>3, <3>4, <3>6 DEF MailboxRight
  <2> QED BY <1>2, <2>1, <2>2
<1> QED BY <1>5, <1>7, <1>8

\* Every function of the C API keeps the invariant.
LEMMA ApiInvNext == ASSUME Exact PROVE ApiInv /\ [ApiNext]_apiVars => ApiInv'
<1> SUFFICES ASSUME ApiInv, [ApiNext]_apiVars PROVE ApiInv'
  OBVIOUS
<1>1. CASE \E k \in Kind : Delete(k)
  BY <1>1, HandleKeeps
<1>2. ASSUME NEW f \in Fiber,
             \/ zth_mutex_init(f) \/ zth_cond_init(f) \/ zth_future_init(f)
             \/ zth_mailbox_init(f)
             \/ \E n \in Arguments : zth_sem_init(f, n) \/ zth_gate_init(f, n)
      PROVE  ApiInv'
  BY <1>2, HandleKeeps
<1>3. CASE UNCHANGED apiVars
  BY <1>3 DEF apiVars, ApiInv, ApiTypeOK, ObjectRight, MutexRight, SemaphoreRight, CondRight,
              FutureRight, GateRight, MailboxRight, QueuedIn, Awake, Queued, MayTake
<1> QED
  BY <1>1, <1>2, <1>3, MutexApiKeeps, SemaphoreApiKeeps, CondApiKeeps, FutureApiKeeps, GateApiKeeps,
     MailboxApiKeeps
     DEF ApiNext, Kind, zth_mutex_destroy, zth_sem_destroy, zth_cond_destroy,
         zth_future_destroy, zth_gate_destroy, zth_mailbox_destroy

\* What the callers of the C API know from the calls that returned 0 is true of the
\* object, and no fiber is left waiting for what is there, for any number of fibers and
\* any sequence of calls (the zth_*() functions of sync.h), as long as size_t is as
\* wide as the counter of a semaphore.
THEOREM ApiTellsTruthHolds == ASSUME Exact PROVE ApiSpec => []ApiTellsTruth
<1>1. ApiInit => ApiInv
  BY FunctionNames DEF ApiInit, Nothing, NoValue, ApiInv, ApiTypeOK, Knowledge
<1>2. ApiInv => ApiTellsTruth
  BY DEF ApiInv, ApiTypeOK, Objects, Kind, ObjectRight, MutexRight, SemaphoreRight, CondRight,
         FutureRight, GateRight, MailboxRight, ApiTellsTruth
<1> QED BY <1>1, <1>2, ApiInvNext, PTL DEF ApiSpec
=============================================================================
