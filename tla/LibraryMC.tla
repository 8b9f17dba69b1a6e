------------------------------ MODULE LibraryMC ------------------------------
(***************************************************************************)
(* The parts of the library that do not depend on the scheduler, next to   *)
(* the semaphore, for the model checker.  They share no state: a behaviour *)
(* is one of a single part, and the others stay as they are.               *)
(***************************************************************************)
EXTENDS Semaphore

CONSTANTS A1, A2, A3, A4,   \* the things that a part is about: fibers, objects, ...
          nullptr, noop

VARIABLES part,   \* the part of this behaviour
          ti, ts, heap, key, tree, link, head, tail, seq, it, perf,
          m_size, array, vector, held, twice,
          m_refs, m_object, alive, raws, misused,
          obj, nextId, singleton, cow, text,
          coro, handle, call, told,
          build, ctx, memory, current, mpu, user,
          sigaction, thread, blocked, pending, altstack, trampoline_context, at, env, did, lost,
          promise, future, value, waiting, retrieved,
          zth_init_head, process, entry, ran, instance, child, sigchld_cleanup, checks,
          readable, writable, O_NONBLOCK, io, failed

Times == INSTANCE Time WITH
    BILLION <- 8, MILLION <- 4, THOUSAND <- 2, TIME_MAX <- 7,
    Counts <- {0, 1, 3, 5, 12, 60}, Factors <- {2}

Sorted == INSTANCE SortedList WITH Elem <- 1 .. 6, Key <- {1, 2}

Linked == INSTANCE LinkedList WITH Node <- {A1, A2, A3, A4}

Vectors == INSTANCE SmallVector WITH
    prealloc <- 2, Value <- {1, 2}, raw <- nullptr, MaxLength <- 4

Pointers == INSTANCE SharedPointer WITH
    Object <- {A1, A2, A3}, Variable <- {"p", "q"}, m_count <- m_refs, failed <- misused

Ids == INSTANCE UniqueID WITH
    Instance <- {A1, A2}, Name <- {"n", "m"}, Cow <- {A3, A4}, Literal <- {"literal"}, MaxId <- 2,
    instance <- singleton

Tracer == INSTANCE Perf WITH
    Threads <- {A1, A2}, perfFiber <- A3,
    PerfEventBufferSize <- 10, PerfEventBufferThresholdToTriggerVCDWrite <- 5

Coroutines == INSTANCE Coro WITH
    Threads <- {A1, A2, A3}, gen <- A4, Task <- {"t", "u", "x"},
    Body <- [t |-> <<"x", A4>>, u |-> <<"x", A4, A4>>, x |-> <<>>], Yields <- 3, Shares <- FALSE

Api == INSTANCE CApi WITH
    Fiber <- {A1, A2, A3}, Arguments <- 0 .. 3, CountMax <- 2, SizeMax <- 2, p <- handle

Futures == INSTANCE Promise WITH
    Promises <- {A1, A2}, Futures <- {A3, A4}, States <- 1 .. 3, Fibers <- {"f", "g"},
    Values <- {"value"}, Moves <- {"construct"}

Stacks == INSTANCE Context WITH
    Contexts <- {A1, A2}, worker <- A3, pageSize <- 4, MINSIGSTKSZ <- 1, Word <- 2, Sizes <- {4},
    Bases <- {0, 3}, UserSizes <- {6, 14}, Failures <- {"alloc", "guard"}

Frames == INSTANCE Sigaltstack WITH
    Threads <- {A3, A4}, Contexts <- {A1, A2}, Debug <- FALSE, Shared <- FALSE, Fails <- {"unblock"},
    worker <- thread

Processes == INSTANCE Process WITH
    Threads <- {A1, A2}, main <- A1, Children <- {A3, A4}, Entries <- 3, Raw <- FALSE,
    thread <- process, p <- entry

Adapters == INSTANCE Io WITH
    Fiber <- {A1, A2}, Socket <- {A3}, Fd <- {A4}, Room <- 2, Sharing <- FALSE, at <- io

containerVars == <<heap, key, tree, link, head, tail, seq, it, m_size, array, vector, held, twice>>

objectVars ==
    <<m_refs, m_object, alive, raws, misused, obj, nextId, singleton, cow, text, ti, ts>>

fiberVars == <<worker, queue, m_count, m_unblockAll, want, perf, coro, handle, call, told,
               promise, future, value, waiting, retrieved>>

contextVars == <<build, ctx, memory, current, mpu, user, sigaction, thread, blocked, pending,
                 altstack, trampoline_context, at, env, did, lost>>

processVars == <<zth_init_head, process, entry, ran, instance, child, sigchld_cleanup, checks,
                 readable, writable, O_NONBLOCK, io, failed>>

libraryVars == <<part, containerVars, objectVars, fiberVars, contextVars, processVars>>

Parts == {"semaphore", "time", "sorted", "linked", "vector", "pointer", "id", "perf", "coro",
          "api", "future", "stack", "frame", "process", "io"}

\* A part that does nothing has one initial state.
LibraryInit ==
    /\ part \in Parts
    /\ SemaphoreInit /\ (part # "semaphore" => worker = NewWorker(<<A1, A2, A3, A4>>))
    /\ Times!TimeInit /\ (part # "time" => ts.tv_sec = 1 /\ ts.tv_nsec = 0)
    /\ Sorted!SortedInit /\ (part # "sorted" => \A e \in DOMAIN key : key[e] = 1)
    /\ Linked!LinkedInit
    /\ Vectors!VectorInit
    /\ Pointers!SharedInit
    /\ Ids!IdInit
    /\ Tracer!PerfInit /\ (part # "perf" => perf.files = "open")
    /\ Coroutines!CoroInit
    /\ Api!ApiInit
    /\ Futures!PromiseInit
    /\ Stacks!ContextInit /\ (part # "stack" => build = "none" /\ user.p = 0 /\ user.size = 6)
    /\ Frames!SigInit
    /\ Processes!ProcessInit
    /\ Adapters!IoInit

ContainerNext ==
    /\ UNCHANGED <<part, objectVars, fiberVars, contextVars, processVars>>
    /\ \/ /\ part = "sorted" /\ Sorted!SortedNext
          /\ UNCHANGED <<link, head, tail, seq, it, m_size, array, vector, held, twice>>
       \/ /\ part = "linked" /\ Linked!LinkedNext
          /\ UNCHANGED <<heap, key, tree, m_size, array, vector, held, twice>>
       \/ /\ part = "vector" /\ Vectors!VectorNext
          /\ UNCHANGED <<heap, key, tree, link, head, tail, seq, it>>

ObjectNext ==
    /\ UNCHANGED <<part, containerVars, fiberVars, contextVars, processVars>>
    /\ \/ /\ part = "pointer" /\ Pointers!SharedNext
          /\ UNCHANGED <<obj, nextId, singleton, cow, text, ti, ts>>
       \/ /\ part = "id" /\ Ids!IdNext
          /\ UNCHANGED <<m_refs, m_object, alive, raws, misused, ti, ts>>
       \/ /\ part = "time" /\ Times!TimeNext
          /\ UNCHANGED <<m_refs, m_object, alive, raws, misused, obj, nextId, singleton, cow, text>>

apiVars == <<handle, call, told>>

futureVars == <<promise, future, value, waiting, retrieved>>

PartFiberNext ==
    /\ UNCHANGED <<part, containerVars, objectVars, contextVars, processVars>>
    /\ \/ part = "semaphore" /\ SemaphoreNext /\ UNCHANGED <<perf, coro, apiVars, futureVars>>
       \/ part = "perf" /\ Tracer!PerfNext /\ UNCHANGED <<semaphoreVars, coro, apiVars, futureVars>>
       \/ part = "coro" /\ Coroutines!CoroNext /\ UNCHANGED <<semaphoreVars, perf, apiVars, futureVars>>
       \/ part = "api" /\ Api!ApiNext /\ UNCHANGED <<semaphoreVars, perf, coro, futureVars>>
       \/ part = "future" /\ Futures!PromiseNext /\ UNCHANGED <<semaphoreVars, perf, coro, apiVars>>

ContextNext ==
    /\ UNCHANGED <<part, containerVars, objectVars, fiberVars, processVars>>
    /\ \/ /\ part = "stack" /\ Stacks!ContextNext
          /\ UNCHANGED <<sigaction, thread, blocked, pending, altstack, trampoline_context, at,
                         env, did, lost>>
       \/ /\ part = "frame" /\ Frames!SigNext
          /\ UNCHANGED <<build, ctx, memory, current, mpu, user>>

ProcessNext ==
    /\ UNCHANGED <<part, containerVars, objectVars, fiberVars, contextVars>>
    /\ \/ /\ part = "process" /\ Processes!ProcessNext
          /\ UNCHANGED <<readable, writable, O_NONBLOCK, io, failed>>
       \/ /\ part = "io" /\ Adapters!IoNext
          /\ UNCHANGED <<zth_init_head, process, entry, ran, instance, child, sigchld_cleanup,
                         checks>>

LibraryNext == ContainerNext \/ ObjectNext \/ PartFiberNext \/ ContextNext \/ ProcessNext

LibrarySpec == LibraryInit /\ [][LibraryNext]_libraryVars

-----------------------------------------------------------------------------
(* Properties *)

\* The sorted list, the linked list and the small vector hold the elements that were
\* put in, in order (SortedList, List, small_vector); an object lives as long as it
\* is owned, and is known by its own number and present name (RefCounted,
\* SharedPointer, UniqueID, cow_string); and the count of a semaphore saturates
\* (Semaphore::release()).
DataIsKept ==
    /\ part = "semaphore" => SemaphoreTypeOK
    /\ part = "sorted" => Sorted!TreeIsSorted
    /\ part = "linked" => Linked!ListIsSequence
    /\ part = "vector" => Vectors!VectorHoldsElements
    /\ part = "pointer" => Pointers!SharedIsOwned
    /\ part = "id" => Ids!IdsAreCurrent

\* See TimeIsExact of Time (TimeInterval, Timestamp).
TimeIsExact == part = "time" => Times!TimeIsExact

\* See TraceIsTrue of Perf (PerfFiber, perf_event()).
TraceIsTrue == part = "perf" => Tracer!TraceIsTrue

\* A coroutine is resumed only where it is suspended, by one fiber at a time, and
\* every value that a generator yields is taken once (promise::run(), await_ready(),
\* final_suspend(), yield_value(), coro::Mailbox::take()).
CoroutinesTakeTurns ==
    part = "coro" => Coroutines!ResumedWhenSuspended /\ Coroutines!YieldsAreTakenOnce

\* See ApiTellsTruth of CApi (the C functions of sync.h).
ApiTellsTruth == part = "api" => Api!ApiTellsTruth

\* See PromisesAreKept of Promise (std_promise_base, std_shared_future_base).
PromisesAreKept == [][Futures!KeepsPromises]_futureVars

\* A stack has room, is guarded, marked and freed, and gets its first frame once
\* (context_create(), stack_switch(), stack_watermark_init(), Context::create()).
ContextsAreSound ==
    /\ part = "stack" => Stacks!StacksAreSound /\ Stacks!StacksAreMarked
    /\ part = "frame" => Frames!BootstrapsOnce

\* See ProcessIsTended of Process (zth_init(), sigchld_check()).
ProcessIsTended == part = "process" => Processes!ProcessIsTended

\* See HandOffTransfers of Io (zmq_send(), zmq_recv(), read(), write()).
HandOffTransfers == part = "io" => Adapters!HandOffTransfers
=============================================================================
