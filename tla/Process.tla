------------------------------- MODULE Process -------------------------------
(***************************************************************************)
(* The process around the workers: one-time initialization (src/init.cpp), *)
(* one Worker per thread (worker.h, ThreadLocalSingleton of util.h,        *)
(* src/main.cpp, startWorkerThread() of src/worker.cpp), and child         *)
(* processes (execvp(), sigchld_check() of src/worker.cpp).  The steps of  *)
(* threads interleave, and SIGCHLD arrives at any time.                    *)
(***************************************************************************)
EXTENDS Naturals, FiniteSets

CONSTANTS Threads, main,   \* main: the thread that main() runs in
          Children,        \* the child processes
          Entries,         \* the number of functions that ZTH_INIT_CALL() has registered
          Raw              \* whether other threads are made without startWorkerThread()

VARIABLES zth_init_head,     \* the first function to call; 0: null
          thread,            \* where every thread is
          p,                 \* its next function in zth_init()
          ran,               \* how often every function has been called
          instance,          \* whether a thread has a Worker
          child,             \* every child process
          sigchld_cleanup,
          checks             \* where every thread is in sigchld_check()

processVars == <<zth_init_head, thread, p, ran, instance, child, sigchld_cleanup, checks>>

childVars == <<child, sigchld_cleanup, checks>>

ProcessInit ==
    /\ zth_init_head = 1
    /\ thread = [t \in Threads |-> IF t = main \/ Raw THEN "started" ELSE "none"]
    /\ p = [t \in Threads |-> 0]
    /\ ran = [e \in 1 .. Entries |-> 0]
    /\ instance = [t \in Threads |-> FALSE]
    /\ child = [c \in Children |-> "none"]
    /\ sigchld_cleanup = FALSE
    /\ checks = [t \in Threads |-> "no"]

\* Mutant of zth_init: the list is not cleared.
zth_init_Late(t) ==
    /\ thread[t] = "started" /\ ~instance[t] /\ p[t] = 0
    /\ p' = [p EXCEPT ![t] = zth_init_head]
    /\ thread' = [thread EXCEPT ![t] = IF zth_init_head = 0 THEN "construct" ELSE "init"]
    /\ UNCHANGED <<zth_init_head, ran, instance, childVars>>

\* zth_init(), at the start of the constructor of Worker, or of Fiber.
zth_init(t) ==
    /\ thread[t] = "started" /\ ~instance[t] /\ p[t] = 0
    /\ p' = [p EXCEPT ![t] = zth_init_head]
    /\ zth_init_head' = 0
    /\ thread' = [thread EXCEPT ![t] = IF zth_init_head = 0 THEN "construct" ELSE "init"]
    /\ UNCHANGED <<ran, instance, childVars>>

\* A turn of its loop.  A function that constructs a Fiber calls zth_init()
\* again, that returns at once.
initCall(t) ==
    /\ thread[t] = "init"
    /\ ran' = [ran EXCEPT ![p[t]] = @ + 1]
    /\ p' = [p EXCEPT ![t] = IF @ = Entries THEN 0 ELSE @ + 1]
    /\ thread' = [thread EXCEPT ![t] = IF p[t] = Entries THEN "construct" ELSE "init"]
    /\ UNCHANGED <<zth_init_head, instance, childVars>>

\* The rest of the constructor: the first Worker in the thread is the instance.
\* A second one ends the process.
Construct(t) ==
    /\ thread[t] = "construct"
    /\ instance' = [instance EXCEPT ![t] = TRUE]
    /\ thread' = [thread EXCEPT ![t] = "runs"]
    /\ UNCHANGED <<zth_init_head, p, ran, childVars>>

\* The destructor, and zth_worker_destroy().  The thread may make a new Worker.
Destruct(t) ==
    /\ thread[t] = "runs" /\ checks[t] = "no"
    /\ instance' = [instance EXCEPT ![t] = FALSE]
    /\ thread' = [thread EXCEPT ![t] = "started"]
    /\ UNCHANGED <<zth_init_head, p, ran, childVars>>

\* startWorkerThread(), by a fiber: the Fiber has been constructed by this
\* thread, and worker_main() makes the Worker in the new one.
startWorkerThread(t, u) ==
    /\ thread[t] = "runs" /\ checks[t] = "no" /\ thread[u] = "none"
    /\ thread' = [thread EXCEPT ![u] = "started"]
    /\ UNCHANGED <<zth_init_head, p, ran, instance, childVars>>

\* execvp(): fork().
execvp(t, c) ==
    /\ thread[t] = "runs" /\ checks[t] = "no" /\ child[c] = "none"
    /\ child' = [child EXCEPT ![c] = "running"]
    /\ UNCHANGED <<zth_init_head, thread, p, ran, instance, sigchld_cleanup, checks>>

\* A child ends, and sigchld_handler() runs.
Ends(c) ==
    /\ child[c] = "running"
    /\ child' = [child EXCEPT ![c] = "zombie"]
    /\ sigchld_cleanup' = TRUE
    /\ UNCHANGED <<zth_init_head, thread, p, ran, instance, checks>>

\* Mutant of sigchld_check: the flag is cleared when there is no child left.
sigchld_check_Late(t) ==
    /\ thread[t] = "runs"
    /\ \/ checks[t] = "no" /\ sigchld_cleanup /\ checks' = [checks EXCEPT ![t] = "wait"]
          /\ UNCHANGED <<sigchld_cleanup, child>>
       \/ /\ checks[t] = "wait"
          /\ \/ \E c \in Children : child[c] = "zombie" /\ child' = [child EXCEPT ![c] = "none"]
                                    /\ UNCHANGED <<checks, sigchld_cleanup>>
             \/ /\ \A c \in Children : child[c] # "zombie"
                /\ checks' = [checks EXCEPT ![t] = "again"] /\ UNCHANGED <<child, sigchld_cleanup>>
       \/ /\ checks[t] = "again"
          /\ sigchld_cleanup' = FALSE /\ checks' = [checks EXCEPT ![t] = "no"] /\ UNCHANGED child
    /\ UNCHANGED <<zth_init_head, thread, p, ran, instance>>

\* sigchld_check(): the worker calls it now and then; nothing happens when the
\* flag is not set.  A turn of the loop clears the flag, and then asks for a
\* child that has ended.
sigchld_check(t) ==
    /\ thread[t] = "runs"
    /\ \/ /\ checks[t] = "no" /\ sigchld_cleanup
          /\ checks' = [checks EXCEPT ![t] = "again"]
          /\ UNCHANGED <<child, sigchld_cleanup>>
       \/ /\ checks[t] = "again"
          /\ sigchld_cleanup' = FALSE
          /\ checks' = [checks EXCEPT ![t] = "wait"]
          /\ UNCHANGED child
       \/ /\ checks[t] = "wait"
          /\ \/ \E c \in Children :
                   /\ child[c] = "zombie"
                   /\ child' = [child EXCEPT ![c] = "none"]
                   /\ checks' = [checks EXCEPT ![t] = "again"]
             \/ /\ \A c \in Children : child[c] # "zombie"
                /\ checks' = [checks EXCEPT ![t] = "no"]
                /\ UNCHANGED child
          /\ UNCHANGED sigchld_cleanup
    /\ UNCHANGED <<zth_init_head, thread, p, ran, instance>>

ProcessNext ==
    \/ \E t \in Threads :
          \/ zth_init(t) \/ initCall(t) \/ Construct(t) \/ Destruct(t) \/ sigchld_check(t)
          \/ \E u \in Threads : startWorkerThread(t, u)
          \/ \E c \in Children : execvp(t, c)
    \/ \E c \in Children : Ends(c)

-----------------------------------------------------------------------------
(* Properties *)

\* "Initialization is only done once. It is safe to call it multiple times":
\* every function that was registered runs once, in the order of registration,
\* and before any thread has a Worker (zth_init(), Worker::Worker(),
\* startWorkerThread()).
InitRunsOnce ==
    /\ \A e \in 1 .. Entries : ran[e] <= 1
    /\ \A e \in 2 .. Entries : ran[e] <= ran[e - 1]
    /\ \A t \in Threads : instance[t] => \A e \in 1 .. Entries : ran[e] = 1

\* No child that has ended is forgotten, whenever SIGCHLD arrives: the flag is
\* set, or a thread in sigchld_check() is still to ask for it
\* (sigchld_handler(), sigchld_check()).
ChildrenAreReaped ==
    \A c \in Children : child[c] = "zombie" =>
        sigchld_cleanup \/ \E t \in Threads : checks[t] # "no"

\* Initialization is done once, and every child process is reaped (zth_init(),
\* sigchld_check()).
ProcessIsTended == InitRunsOnce /\ ChildrenAreReaped
==============================================================================
