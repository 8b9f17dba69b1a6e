----------------------------- MODULE Sigaltstack -----------------------------
(***************************************************************************)
(* How a context gets its first stack frame with signals (include/libzth/  *)
(* context/sigaltstack.h): create() lets the handler of SIGUSR1 run on the *)
(* new stack, saves the frame of the handler there, and jumps to it later. *)
(* Threads with a worker create and destroy contexts, and anybody may send *)
(* SIGUSR1 to a thread at any time.                                        *)
(***************************************************************************)
EXTENDS Naturals, FiniteSets

CONSTANTS Threads, Contexts, nullptr,
          Debug,    \* Config::Debug
          Shared,   \* whether a worker may end while another thread has one
          Fails     \* the calls that may fail: "unblock", "kill" and "block"

VARIABLES sigaction,   \* the handler of SIGUSR1, of the process
          worker,      \* whether a thread has a Worker
          blocked,     \* whether a thread blocks SIGUSR1
          pending,     \* whether SIGUSR1 is to be delivered to a thread
          altstack,    \* the context on whose stack a thread handles signals
          trampoline_context,
          at,          \* where a thread is in create(), and of which context
          env,         \* what the env of a context holds: a union
          did,         \* m_did_trampoline, a union with m_parent
          lost         \* what went wrong

sigVars == <<sigaction, worker, blocked, pending, altstack, trampoline_context, at, env, did, lost>>

Outside == [pc |-> "outside", c |-> nullptr, oss |-> nullptr]

\* context_global_init() has blocked SIGUSR1.
SigInit ==
    /\ sigaction = "default"
    /\ worker = [t \in Threads |-> FALSE]
    /\ blocked = [t \in Threads |-> TRUE]
    /\ pending = [t \in Threads |-> FALSE]
    /\ altstack = [t \in Threads |-> nullptr]
    /\ trampoline_context = [t \in Threads |-> nullptr]
    /\ at = [t \in Threads |-> Outside]
    /\ env = [c \in Contexts |-> "none"]
    /\ did = [c \in Contexts |-> 0]
    /\ lost = {}

\* A thread handles a signal before it goes on.
Interrupted(t) == pending[t] /\ ~blocked[t]

At(t, pc) == ~Interrupted(t) /\ at[t].pc = pc

Goes(t, pc) == at' = [at EXCEPT ![t].pc = pc]

\* Anybody sends SIGUSR1.
kill(t) ==
    /\ ~pending[t]
    /\ pending' = [pending EXCEPT ![t] = TRUE]
    /\ UNCHANGED <<sigaction, worker, blocked, altstack, trampoline_context, at, env, did, lost>>

\* Context::init(), by the constructor of a Worker.
init(t) ==
    /\ At(t, "outside") /\ ~worker[t]
    /\ worker' = [worker EXCEPT ![t] = TRUE]
    /\ sigaction' = "trampoline"
    /\ UNCHANGED <<blocked, pending, altstack, trampoline_context, at, env, did, lost>>

\* Context::deinit(), by the destructor of a Worker.
deinit(t) ==
    /\ At(t, "outside") /\ worker[t]
    /\ Shared \/ \A u \in Threads \ {t} : ~worker[u]
    /\ worker' = [worker EXCEPT ![t] = FALSE]
    /\ sigaction' = "default"
    /\ UNCHANGED <<blocked, pending, altstack, trampoline_context, at, env, did, lost>>

\* The handler, on the stack of the altstack.
context_trampoline(t) ==
    /\ Interrupted(t)
    /\ pending' = [pending EXCEPT ![t] = FALSE]
    /\ LET c == trampoline_context[t] IN
       IF sigaction = "default" \/ c = nullptr \/ (c # nullptr /\ did[c] # 0)
       THEN /\ lost' = IF sigaction = "default" THEN lost \cup {"killed"} ELSE lost
            /\ UNCHANGED <<env, did>>
       ELSE /\ lost' = IF env[c] # "stack" \/ altstack[t] # c THEN lost \cup {c} ELSE lost
            /\ env' = [env EXCEPT ![c] = "frame"]
            /\ did' = [did EXCEPT ![c] = 1]
    /\ UNCHANGED <<sigaction, worker, blocked, altstack, trampoline_context, at>>

\* create(): base::create() has allocated the stack, and sigaltstack() sets it;
\* when this fails, the stack is freed.
create(t, c) ==
    /\ At(t, "outside") /\ worker[t] /\ env[c] = "none"
    /\ \/ /\ env' = [env EXCEPT ![c] = "stack"]
          /\ did' = [did EXCEPT ![c] = 0]
          /\ altstack' = [altstack EXCEPT ![t] = c]
          /\ trampoline_context' = [trampoline_context EXCEPT ![t] = c]
          /\ at' = [at EXCEPT ![t] = [pc |-> "unblock", c |-> c, oss |-> altstack[t]]]
       \/ UNCHANGED <<env, did, altstack, trampoline_context, at>>
    /\ UNCHANGED <<sigaction, worker, blocked, pending, lost>>

\* The end of create() when a call fails; SIGUSR1 is left as it is.
rollback_altstack(t, call) ==
    /\ call \in Fails
    /\ altstack' = [altstack EXCEPT ![t] = IF at[t].oss = nullptr THEN @ ELSE at[t].oss]
    /\ env' = [env EXCEPT ![at[t].c] = "none"]
    /\ at' = [at EXCEPT ![t] = Outside]
    /\ UNCHANGED <<sigaction, worker, blocked, pending, trampoline_context, did, lost>>

unblock(t) ==
    /\ At(t, "unblock")
    /\ \/ /\ blocked' = [blocked EXCEPT ![t] = FALSE]
          /\ Goes(t, "kill")
          /\ UNCHANGED <<sigaction, worker, pending, altstack, trampoline_context, env, did, lost>>
       \/ rollback_altstack(t, "unblock")

\* pthread_kill() of the thread itself.
killSelf(t) ==
    /\ At(t, "kill")
    /\ \/ /\ pending' = [pending EXCEPT ![t] = TRUE]
          /\ Goes(t, "wait")
          /\ UNCHANGED <<sigaction, worker, blocked, altstack, trampoline_context, env, did, lost>>
       \/ rollback_altstack(t, "kill")

\* Mutant of waitHandler: SIGUSR1 is not blocked again.
waitHandler_Open(t) ==
    /\ At(t, "wait") /\ did[at[t].c] # 0
    /\ trampoline_context' = IF Debug THEN [trampoline_context EXCEPT ![t] = nullptr]
                                      ELSE trampoline_context
    /\ altstack' = [altstack EXCEPT ![t] = IF at[t].oss = nullptr THEN @ ELSE at[t].oss]
    /\ did' = [did EXCEPT ![at[t].c] = 2]
    /\ Goes(t, "bootstrap")
    /\ UNCHANGED <<sigaction, worker, blocked, pending, env, lost>>

\* The end of the loop that waits for the handler; SIGUSR1 is blocked again, and
\* the altstack that was there is set again.  Otherwise, the new stack stays: the
\* system restores it when the handler returns.
waitHandler(t) ==
    /\ At(t, "wait") /\ did[at[t].c] # 0
    /\ \/ /\ blocked' = [blocked EXCEPT ![t] = TRUE]
          /\ trampoline_context' = IF Debug THEN [trampoline_context EXCEPT ![t] = nullptr]
                                            ELSE trampoline_context
          /\ altstack' = [altstack EXCEPT ![t] = IF at[t].oss = nullptr THEN @ ELSE at[t].oss]
          /\ did' = [did EXCEPT ![at[t].c] = 2]
          /\ Goes(t, "bootstrap")
          /\ UNCHANGED <<sigaction, worker, pending, env, lost>>
       \/ rollback_altstack(t, "block")

\* The jump to the saved frame, that saves the env of the context and jumps back.
bootstrap(t) ==
    /\ At(t, "bootstrap")
    /\ LET c == at[t].c IN
       /\ lost' = IF env[c] # "frame" THEN lost \cup {c} ELSE lost
       /\ env' = [env EXCEPT ![c] = "ready"]
       /\ did' = IF Debug THEN [did EXCEPT ![c] = 0] ELSE did
    /\ at' = [at EXCEPT ![t] = Outside]
    /\ UNCHANGED <<sigaction, worker, blocked, pending, altstack, trampoline_context>>

destroy(t, c) ==
    /\ At(t, "outside") /\ worker[t] /\ env[c] = "ready"
    /\ env' = [env EXCEPT ![c] = "none"]
    /\ UNCHANGED <<sigaction, worker, blocked, pending, altstack, trampoline_context, at, did, lost>>

SigNext ==
    \E t \in Threads :
        \/ kill(t) \/ init(t) \/ deinit(t) \/ context_trampoline(t)
        \/ unblock(t) \/ killSelf(t) \/ waitHandler(t) \/ bootstrap(t)
        \/ \E c \in Contexts : create(t, c) \/ destroy(t, c)

-----------------------------------------------------------------------------
(* Properties *)

\* A context gets its frame once, on its own stack, whenever and however often
\* SIGUSR1 is sent: the handler saves the frame of no context that is ready,
\* that is destroyed, or that another thread creates; SIGUSR1 never ends the
\* process; and it is blocked again when create() has returned
\* (Context::create(), context_trampoline()).
BootstrapsOnce ==
    /\ lost = {}
    /\ \A t \in Threads : at[t].pc = "outside" => blocked[t]
    /\ \A t, u \in Threads : t # u /\ at[t].c # nullptr => at[t].c # at[u].c
==============================================================================
