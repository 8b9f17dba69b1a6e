------------------------------- MODULE Promise -------------------------------
(***************************************************************************)
(* zth::promise and zth::future (include/libzth/future.h): variables of    *)
(* these types that fibers construct, move, share, use and destroy, and    *)
(* the zth::Future objects that they share.  A SharedPointer keeps an      *)
(* object for as long as a variable refers to it.                          *)
(***************************************************************************)
EXTENDS Naturals, FiniteSets

CONSTANTS Promises, Futures,   \* the variables
          States,              \* the memory for zth::Future objects
          Fibers, Values, nullptr,
          Moves                \* how promises are moved: "construct", "assign", "swap"

VARIABLES promise,     \* m_future and m_got_future of every promise, or nullptr
          future,      \* m_future of every future, or nullptr
          value,       \* what is set in every object: a value, "exception", or "empty"
          waiting,     \* the future that a fiber waits in, or nullptr
          retrieved    \* how often a future of an object has been handed out

promiseVars == <<promise, future, value, waiting, retrieved>>

PromiseInit ==
    /\ promise = [p \in Promises |-> nullptr]
    /\ future = [v \in Futures |-> nullptr]
    /\ value = [s \in States |-> "empty"]
    /\ waiting = [f \in Fibers |-> nullptr]
    /\ retrieved = [s \in States |-> 0]

Exists(p) == promise[p] # nullptr

\* check_valid(), that throws no_state otherwise.
valid(p) == Exists(p) /\ promise[p].state # nullptr

Referred(s) ==
    \/ \E p \in Promises : Exists(p) /\ promise[p].state = s
    \/ \E v \in Futures : future[v] = s

\* The future of a fiber that waits stays as it is.
Unused(v) == \A f \in Fibers : waiting[f] # v

construct(p) ==
    /\ ~Exists(p)
    /\ \E s \in States :
          /\ ~Referred(s)
          /\ promise' = [promise EXCEPT ![p] = [state |-> s, got |-> FALSE]]
          /\ value' = [value EXCEPT ![s] = "empty"]
          /\ retrieved' = [retrieved EXCEPT ![s] = 0]
    /\ UNCHANGED <<future, waiting>>

\* Destructor: the object that nobody refers to is deleted; nothing is set.
destroy(p) ==
    /\ Exists(p)
    /\ promise' = [promise EXCEPT ![p] = nullptr]
    /\ UNCHANGED <<future, value, waiting, retrieved>>

\* The constructor takes both members over; an assignment and swap() only
\* m_future.
move(p, q) ==
    /\ p # q /\ Exists(p)
    /\ \/ /\ "construct" \in Moves /\ ~Exists(q)
          /\ promise' = [promise EXCEPT ![q] = promise[p], ![p].state = nullptr]
       \/ /\ "assign" \in Moves /\ Exists(q)
          /\ promise' = [promise EXCEPT ![q].state = promise[p].state, ![p].state = nullptr]
       \/ /\ "swap" \in Moves /\ Exists(q)
          /\ promise' = [promise EXCEPT ![q].state = promise[p].state,
                                        ![p].state = promise[q].state]
    /\ UNCHANGED <<future, value, waiting, retrieved>>

\* It throws future_already_retrieved the second time.
get_future(p, v) ==
    /\ valid(p) /\ ~promise[p].got /\ Unused(v)
    /\ promise' = [promise EXCEPT ![p].got = TRUE]
    /\ future' = [future EXCEPT ![v] = promise[p].state]
    /\ retrieved' = [retrieved EXCEPT ![promise[p].state] = @ + 1]
    /\ UNCHANGED <<value, waiting>>

\* Mutant of set: a promise that is satisfied already is not refused.
set_Again(p, x) ==
    /\ valid(p)
    /\ value' = [value EXCEPT ![promise[p].state] = x]
    /\ waiting' = [f \in Fibers |->
                      IF waiting[f] # nullptr /\ future[waiting[f]] = promise[p].state
                      THEN nullptr ELSE waiting[f]]
    /\ UNCHANGED <<promise, future, retrieved>>

\* set_value() and set_exception(), that throw promise_already_satisfied the
\* second time; Future::set() wakes up all fibers that wait.
set(p, x) ==
    /\ valid(p) /\ value[promise[p].state] = "empty"
    /\ value' = [value EXCEPT ![promise[p].state] = x]
    /\ waiting' = [f \in Fibers |->
                      IF waiting[f] # nullptr /\ future[waiting[f]] = promise[p].state
                      THEN nullptr ELSE waiting[f]]
    /\ UNCHANGED <<promise, future, retrieved>>

\* get() and wait() of a future, that throw no_state, or wait for the value.
get(f, v) ==
    /\ waiting[f] = nullptr /\ future[v] # nullptr /\ value[future[v]] = "empty"
    /\ waiting' = [waiting EXCEPT ![f] = v]
    /\ UNCHANGED <<promise, future, value, retrieved>>

\* share() leaves the future as it is, and so does a copy of a shared_future.
share(v, w) ==
    /\ v # w /\ Unused(w)
    /\ future' = [future EXCEPT ![w] = future[v]]
    /\ UNCHANGED <<promise, value, waiting, retrieved>>

\* A future is destroyed, moved from, or assigned null.
reset(v) ==
    /\ Unused(v) /\ future[v] # nullptr
    /\ future' = [future EXCEPT ![v] = nullptr]
    /\ UNCHANGED <<promise, value, waiting, retrieved>>

PromiseNext ==
    \/ \E p \in Promises :
          \/ construct(p) \/ destroy(p)
          \/ \E q \in Promises : move(p, q)
          \/ \E v \in Futures : get_future(p, v)
          \/ \E x \in Values \cup {"exception"} : set(p, x)
    \/ \E v \in Futures :
          \/ reset(v)
          \/ \E w \in Futures : share(v, w)
          \/ \E f \in Fibers : get(f, v)

-----------------------------------------------------------------------------
(* Properties *)

KeepsPromises ==
    /\ \A s \in States :
          /\ retrieved'[s] <= 1
          /\ value[s] # "empty" /\ value'[s] # value[s] => ~Referred(s)
    /\ \A f \in Fibers :
          waiting'[f] # nullptr =>
              future'[waiting'[f]] # nullptr /\ value'[future'[waiting'[f]]] = "empty"

\* Promises are kept as std::promise tells: the value of an object that a
\* variable refers to is set once, its future is handed out once, and no fiber
\* waits for a value that is there or in a future without object
\* (get_future(), set_value(), set_exception(), get()).
PromisesAreKept == [][KeepsPromises]_promiseVars
==============================================================================
