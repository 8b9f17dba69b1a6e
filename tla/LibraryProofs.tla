---------------------------- MODULE LibraryProofs ----------------------------
(***************************************************************************)
(* The parts of the library that do not depend on the scheduler: the start *)
(* and the children of the process, the adapters of blocking calls, and    *)
(* promises and futures.                                                   *)
(***************************************************************************)
EXTENDS Process, Io, Promise, TLAPS

(* The process.  For any number of threads, children and functions to call: as
   long as threads are made by startWorkerThread(), initialization is done once
   and in order, and no child is forgotten. *)

\* Process, on its own.
ProcessSpec == ProcessInit /\ [][ProcessNext]_processVars

\* At least one function is registered: those of the library itself.
Startup == main \in Threads /\ Entries \in Nat \ {0} /\ ~Raw

\* The functions, in the order in which they are linked; and where a thread is.
Entry == 1 .. Entries

Place == {"none", "started", "init", "construct", "runs"}

ProcessTypeOK ==
    /\ zth_init_head \in {0, 1}
    /\ thread \in [Threads -> Place]
    /\ p \in [Threads -> 0 .. Entries]
    /\ ran \in [Entry -> {0, 1}]
    /\ instance \in [Threads -> BOOLEAN]
    /\ child \in [Children -> {"none", "running", "zombie"}]
    /\ checks \in [Threads -> {"no", "again", "wait"}]

\* The three stages of the process.  Until all functions have been called, main is
\* the only thread: another one is started by a thread that has a Worker.
OnlyMain == \A t \in Threads : thread[t] # "none" => t = main

Before ==
    /\ zth_init_head = 1 /\ OnlyMain /\ thread[main] = "started"
    /\ \A e \in Entry : ran[e] = 0

During ==
    /\ zth_init_head = 0 /\ OnlyMain /\ thread[main] = "init"
    /\ p[main] # 0
    /\ \A e \in Entry : IF e < p[main] THEN ran[e] = 1 ELSE ran[e] = 0

After ==
    /\ zth_init_head = 0
    /\ \A t \in Threads : thread[t] # "init"
    /\ \A e \in Entry : ran[e] = 1

\* The inductive invariant.
ProcessInv ==
    /\ ProcessTypeOK
    /\ \A t \in Threads : instance[t] => thread[t] = "runs"
    /\ Before \/ During \/ After
    /\ ChildrenAreReaped

-----------------------------------------------------------------------------

\* The invariant holds initially.
LEMMA ProcessInvInit == ASSUME Startup PROVE ProcessInit => ProcessInv
  BY DEF Startup, ProcessInit, ProcessInv, ProcessTypeOK, Before, OnlyMain, ChildrenAreReaped,
         Entry, Place

\* What a step of a thread in its constructor does to the stages: zth_init() goes from
\* the first to the second one, and the call of the last function to the third.
LEMMA InitKeepsInv ==
  ASSUME Startup, ProcessInv, NEW t \in Threads, zth_init(t) \/ initCall(t)
  PROVE  ProcessInv'
<1> USE DEF Entry, Place
<1>1. CASE zth_init(t)
  <2>1. ProcessTypeOK'
    BY <1>1 DEF zth_init, childVars, ProcessInv, ProcessTypeOK, Startup
  <2>2. (\A u \in Threads : instance[u] => thread[u] = "runs")' /\ ChildrenAreReaped'
    BY <1>1 DEF zth_init, childVars, ProcessInv, ProcessTypeOK, ChildrenAreReaped
  <2>3. CASE Before
    <3>1. t = main
      BY <1>1, <2>3 DEF zth_init, Before, OnlyMain
    <3>2. During'
      BY <1>1, <2>3, <3>1 DEF zth_init, childVars, Before, During, OnlyMain, ProcessInv, ProcessTypeOK,
                              Startup
    <3> QED BY <2>1, <2>2, <3>2 DEF ProcessInv
  <2>4. CASE During
    BY <1>1, <2>4 DEF zth_init, During, OnlyMain
  <2>5. CASE After
    <3>1. After'
      BY <1>1, <2>5 DEF zth_init, childVars, After, ProcessInv, ProcessTypeOK
    <3> QED BY <2>1, <2>2, <3>1 DEF ProcessInv
  <2> QED BY <2>3, <2>4, <2>5 DEF ProcessInv
<1>2. CASE initCall(t)
  <2>1. During /\ t = main
    BY <1>2 DEF initCall, ProcessInv, Before, During, After, OnlyMain
  <2>2. p[t] \in Entry /\ ran[p[t]] = 0
    BY <2>1 DEF During, ProcessInv, ProcessTypeOK, Startup
  <2>3. ProcessTypeOK'
    BY <1>2, <2>2 DEF initCall, childVars, ProcessInv, ProcessTypeOK, Startup
  <2>4. (\A u \in Threads : instance[u] => thread[u] = "runs")' /\ ChildrenAreReaped'
    BY <1>2 DEF initCall, childVars, ProcessInv, ProcessTypeOK, ChildrenAreReaped
  <2>5. CASE p[t] = Entries
    <3>1. After'
      BY <1>2, <2>1, <2>2, <2>5 DEF initCall, childVars, During, After, OnlyMain, ProcessInv,
                                    ProcessTypeOK, Startup
    <3> QED BY <2>3, <2>4, <3>1 DEF ProcessInv
  <2>6. CASE p[t] # Entries
    <3>1. During'
      BY <1>2, <2>1, <2>2, <2>6 DEF initCall, childVars, During, OnlyMain, ProcessInv,
                                    ProcessTypeOK, Startup
    <3> QED BY <2>3, <2>4, <3>1 DEF ProcessInv
  <2> QED BY <2>5, <2>6
<1> QED BY <1>1, <1>2

\* A thread that has a Worker, or is about to, shows that initialization is done; it
\* stays done when Workers come and go and threads are started.
LEMMA WorkersKeepInv ==
  ASSUME Startup, ProcessInv, NEW t \in Threads,
         Construct(t) \/ Destruct(t) \/ \E u \in Threads : startWorkerThread(t, u)
  PROVE  ProcessInv'
<1>1. thread[t] \in {"construct", "runs"}
  BY DEF Construct, Destruct, startWorkerThread
<1>2. After
  BY <1>1 DEF ProcessInv, Before, During, OnlyMain
<1>3. CASE Construct(t)
  BY <1>2, <1>3 DEF Construct, childVars, ProcessInv, ProcessTypeOK, After, ChildrenAreReaped, Entry, Place
<1>4. CASE Destruct(t)
  BY <1>2, <1>4 DEF Destruct, childVars, ProcessInv, ProcessTypeOK, After, ChildrenAreReaped, Entry, Place
<1>5. ASSUME NEW u \in Threads, startWorkerThread(t, u) PROVE ProcessInv'
  BY <1>2, <1>5 DEF startWorkerThread, childVars, ProcessInv, ProcessTypeOK, After, ChildrenAreReaped,
                    Entry, Place
<1> QED BY <1>3, <1>4, <1>5

\* Only the children, the flag and the places in sigchld_check() change: what is said
\* of initialization stays.
LEMMA StagesUnchanged ==
  ASSUME Before \/ During \/ After, UNCHANGED <<zth_init_head, thread, p, ran>>
  PROVE  (Before \/ During \/ After)'
BY DEF Before, During, After, OnlyMain

\* The flag is cleared before the children are asked for: a child that ends in
\* between sets it again.
LEMMA ChildrenKeepInv ==
  ASSUME ProcessInv,
         \/ \E t \in Threads : sigchld_check(t) \/ \E c \in Children : execvp(t, c)
         \/ \E c \in Children : Ends(c)
  PROVE  ProcessInv'
<1>1. UNCHANGED <<zth_init_head, thread, p, ran, instance>>
  BY DEF sigchld_check, execvp, Ends
<1>2. (Before \/ During \/ After)'
  BY <1>1, StagesUnchanged DEF ProcessInv
<1>3. ProcessTypeOK'
  BY <1>1 DEF sigchld_check, execvp, Ends, ProcessInv, ProcessTypeOK
<1>4. ChildrenAreReaped'
  <2>1. ASSUME NEW t \in Threads, sigchld_check(t) PROVE ChildrenAreReaped'
    <3>1. CASE checks'[t] # "no"
      BY <3>1 DEF ChildrenAreReaped
    <3>2. CASE checks'[t] = "no"
      BY <2>1, <3>2 DEF sigchld_check, ChildrenAreReaped, ProcessInv, ProcessTypeOK
    <3> QED BY <3>1, <3>2
  <2>2. ASSUME NEW t \in Threads, NEW c \in Children, execvp(t, c) PROVE ChildrenAreReaped'
    BY <2>2 DEF execvp, ChildrenAreReaped, ProcessInv, ProcessTypeOK
  <2>3. ASSUME NEW c \in Children, Ends(c) PROVE ChildrenAreReaped'
    BY <2>3 DEF Ends, ChildrenAreReaped
  <2> QED BY <2>1, <2>2, <2>3
<1> QED BY <1>1, <1>2, <1>3, <1>4 DEF ProcessInv

\* The invariant is inductive.
LEMMA ProcessInvNext == ASSUME Startup PROVE ProcessInv /\ [ProcessNext]_processVars => ProcessInv'
<1> SUFFICES ASSUME ProcessInv, [ProcessNext]_processVars PROVE ProcessInv'
  OBVIOUS
<1>1. ASSUME NEW t \in Threads, zth_init(t) \/ initCall(t) PROVE ProcessInv'
  BY <1>1, InitKeepsInv
<1>2. ASSUME NEW t \in Threads,
             Construct(t) \/ Destruct(t) \/ \E u \in Threads : startWorkerThread(t, u)
      PROVE  ProcessInv'
  BY <1>2, WorkersKeepInv
<1>3. ASSUME \/ \E t \in Threads : sigchld_check(t) \/ \E c \in Children : execvp(t, c)
             \/ \E c \in Children : Ends(c)
      PROVE  ProcessInv'
  BY <1>3, ChildrenKeepInv
<1>4. CASE UNCHANGED processVars
  BY <1>4, StagesUnchanged DEF processVars, ProcessInv, ProcessTypeOK, ChildrenAreReaped
<1> QED BY <1>1, <1>2, <1>3, <1>4 DEF ProcessNext

\* "Initialization is only done once": every function runs at most once, in order, and
\* all of them before the first Worker is there (zth_init()), in a program in which
\* startWorkerThread() makes the threads.
THEOREM InitRunsOnceHolds == ASSUME Startup PROVE ProcessSpec => []InitRunsOnce
<1>1. ProcessInv => InitRunsOnce
  <2> SUFFICES ASSUME ProcessInv PROVE InitRunsOnce
    OBVIOUS
  <2>1. \A e \in Entry : ran[e] <= 1
    BY DEF ProcessInv, ProcessTypeOK
  <2>2. \A e \in 2 .. Entries : ran[e] <= ran[e - 1]
    <3> SUFFICES ASSUME NEW e \in 2 .. Entries PROVE ran[e] <= ran[e - 1]
      OBVIOUS
    <3>1. e \in Entry /\ e - 1 \in Entry
      BY DEF Entry, Startup
    <3>2. ran[e] \in {0, 1} /\ ran[e - 1] \in {0, 1} /\ p[main] \in Nat
      BY <3>1 DEF ProcessInv, ProcessTypeOK, Startup
    <3>3. CASE Before
      BY <3>1, <3>2, <3>3 DEF Before
    <3>4. CASE During
      BY <3>1, <3>2, <3>4 DEF During, Entry
    <3>5. CASE After
      BY <3>1, <3>2, <3>5 DEF After
    <3> QED BY <3>3, <3>4, <3>5 DEF ProcessInv
  <2>3. \A t \in Threads : instance[t] => \A e \in Entry : ran[e] = 1
    BY DEF ProcessInv, Before, During, After, OnlyMain
  <2> QED BY <2>1, <2>2, <2>3 DEF InitRunsOnce, Entry
<1> QED BY <1>1, ProcessInvInit, ProcessInvNext, PTL DEF ProcessSpec

\* No child that has ended is forgotten, whenever SIGCHLD arrives (sigchld_handler(),
\* sigchld_check()).
THEOREM ChildrenAreReapedHolds == ASSUME Startup PROVE ProcessSpec => []ChildrenAreReaped
<1>1. ProcessInv => ChildrenAreReaped
  BY DEF ProcessInv
<1> QED BY <1>1, ProcessInvInit, ProcessInvNext, PTL DEF ProcessSpec

\* Both: the process is started once and its children are all reaped (zth_init(),
\* sigchld_check()).
THEOREM ProcessIsTendedHolds == ASSUME Startup PROVE ProcessSpec => []ProcessIsTended
<1>1. InitRunsOnce /\ ChildrenAreReaped => ProcessIsTended
  BY DEF ProcessIsTended
<1> QED BY <1>1, InitRunsOnceHolds, ChildrenAreReapedHolds, PTL

-----------------------------------------------------------------------------
(* The adapters *)

\* Io, on its own.
IoSpec == IoInit /\ [][IoNext]_ioVars

\* One fiber at a time uses one direction of a socket or a file descriptor.
Unshared == ~Sharing /\ Room \in Nat

\* What is polled for, and a call that waits for it.
Event == {"PollIn", "PollOut"}

Call == [pc : {"polls", "ready"}, c : Channel, event : Event, on : Event]

IoTypeOK ==
    /\ readable \in [Channel -> Nat] /\ writable \in [Channel -> Nat]
    /\ at \in [Fiber -> {Idle} \cup Call]

\* The fiber is in a call.
Waits(f) == at[f] # Idle

\* The inductive invariant: a fiber waits for what it wants, alone, and what poll()
\* has found there stays until the fiber takes it.
IoInv ==
    /\ IoTypeOK
    /\ \A f \in Fiber : Waits(f) => at[f].on = at[f].event
    /\ \A f, g \in Fiber : f # g /\ Waits(f) /\ Waits(g) =>
          at[f].c # at[g].c \/ at[f].event # at[g].event
    /\ \A f \in Fiber : at[f].pc = "ready" => Ready(at[f].c, at[f].event)
    /\ HandOffTransfers

\* A call is not Idle.
LEMMA CallIsNotIdle ==
  \A a \in {Idle} \cup Call : (a # Idle <=> a \in Call) /\ (a.pc = "ready" => a \in Call)
BY DEF Idle, Call

\* No fiber is in a call, initially.
LEMMA IoInvInit == ASSUME Unshared PROVE IoInit => IoInv
BY DEF Unshared, IoInit, IoInv, IoTypeOK, Waits, Idle, HandOffTransfers

\* Who transfers in one direction of a channel, leaves what the others wait for.
LEMMA TransferKeepsInv ==
  ASSUME Unshared, IoInv, NEW f \in Fiber, NEW c \in Channel, NEW event \in Event,
         Ready(c, event), Transfer(c, event), UNCHANGED failed,
         \A g \in Fiber \ {f} : Waits(g) => at[g].c # c \/ at[g].event # event,
         at' = [at EXCEPT ![f] = Idle]
  PROVE  IoInv'
<1>1. IoTypeOK'
  <2>1. /\ readable' \in [Channel -> Nat] /\ writable' \in [Channel -> Nat]
    <3>1. readable[c] \in Nat /\ writable[c] \in Nat
      BY DEF IoInv, IoTypeOK
    <3>2. CASE event = "PollIn"
      BY <3>1, <3>2 DEF IoInv, IoTypeOK, Transfer, Ready
    <3>3. CASE event = "PollOut"
      BY <3>1, <3>3 DEF IoInv, IoTypeOK, Transfer, Ready
    <3> QED BY <3>2, <3>3 DEF Event
  <2> QED BY <2>1 DEF IoInv, IoTypeOK
<1>2. ASSUME NEW g \in Fiber PROVE at'[g] = IF g = f THEN Idle ELSE at[g]
  BY DEF IoInv, IoTypeOK
<1>3. ASSUME NEW g \in Fiber, at'[g].pc = "ready" PROVE Ready(at[g].c, at[g].event)'
  <2>1. g # f /\ at'[g] = at[g]
    BY <1>2, <1>3 DEF Idle
  <2>2. at[g] \in Call /\ Waits(g)
    BY <1>3, <2>1, CallIsNotIdle DEF IoInv, IoTypeOK, Waits
  <2>3. Ready(at[g].c, at[g].event)
    BY <1>3, <2>1 DEF IoInv
  <2>4. at[g].c # c \/ at[g].event # event
    BY <2>1, <2>2
  <2> QED
    BY <2>1, <2>2, <2>3, <2>4, Zenon DEF Ready, Transfer, IoInv, IoTypeOK, Call, Event
<1> QED
  BY <1>1, <1>2, <1>3 DEF IoInv, Waits, HandOffTransfers

\* A fiber starts to poll, alone; or it has polled, or gives up.
LEMMA PollKeepsInv ==
  ASSUME IoInv, NEW f \in Fiber, UNCHANGED <<readable, writable, failed>>,
         NEW a \in {Idle} \cup Call, at' = [at EXCEPT ![f] = a],
         a # Idle => /\ a.on = a.event
                     /\ \A g \in Fiber \ {f} : Waits(g) => at[g].c # a.c \/ at[g].event # a.event,
         a.pc = "ready" => Ready(a.c, a.event)
  PROVE  IoInv'
<1>1. IoTypeOK'
  BY DEF IoInv, IoTypeOK
<1>2. ASSUME NEW g \in Fiber PROVE at'[g] = IF g = f THEN a ELSE at[g]
  BY DEF IoInv, IoTypeOK
<1>3. ASSUME NEW g \in Fiber, at'[g].pc = "ready" PROVE Ready(at[g].c, at[g].event)'
  BY <1>2, <1>3, Zenon DEF IoInv, Ready
<1>4. ASSUME NEW g \in Fiber, Waits(g)' PROVE at'[g].on = at'[g].event
  BY <1>2, <1>4 DEF IoInv, Waits
<1>5. ASSUME NEW g \in Fiber, NEW h \in Fiber, g # h, Waits(g)', Waits(h)'
      PROVE  at'[g].c # at'[h].c \/ at'[g].event # at'[h].event
  BY <1>2, <1>5 DEF IoInv, Waits
<1> QED
  BY <1>1, <1>3, <1>4, <1>5 DEF IoInv, HandOffTransfers

\* The calls, until the poll.
LEMMA CallKeepsInv ==
  ASSUME Unshared, IoInv, NEW f \in Fiber, NEW c \in Channel, NEW event \in Event,
         at[f] = Idle, Free(f, c, event), UNCHANGED failed,
         \/ Ready(c, event) /\ Transfer(c, event) /\ UNCHANGED at
         \/ Keep /\ UNCHANGED at
         \/ Keep /\ Poll(f, c, event)
  PROVE  IoInv'
<1>1. \A g \in Fiber \ {f} : Waits(g) => at[g].c # c \/ at[g].event # event
  BY DEF Free, Waits, Unshared
<1>2. at = [at EXCEPT ![f] = Idle]
  BY DEF IoInv, IoTypeOK
<1>3. CASE Ready(c, event) /\ Transfer(c, event) /\ UNCHANGED at
  BY <1>1, <1>2, <1>3, TransferKeepsInv
<1>4. CASE Keep /\ UNCHANGED at
  BY <1>2, <1>4, PollKeepsInv DEF Keep, Idle
<1>5. CASE Keep /\ Poll(f, c, event)
  <2> DEFINE a == [pc |-> "polls", c |-> c, event |-> event, on |-> event]
  <2>1. a \in Call /\ a.on = a.event /\ a.c = c /\ a.event = event /\ a.pc = "polls"
    BY DEF Call
  <2>2. at' = [at EXCEPT ![f] = a]
    BY <1>5 DEF Poll
  <2> HIDE DEF a
  <2> QED BY <1>1, <1>5, <2>1, <2>2, PollKeepsInv, Zenon DEF Keep
<1> QED BY <1>3, <1>4, <1>5

\* The rest of a call: what has been polled is still there.
LEMMA PolledKeepsInv ==
  ASSUME Unshared, IoInv, NEW f \in Fiber, at[f] # Idle, polled(f) \/ pollFails(f) \/ finish(f)
  PROVE  IoInv'
<1>1. at[f] \in Call /\ at[f].on = at[f].event /\ Waits(f)
  BY CallIsNotIdle DEF IoInv, IoTypeOK, Waits
<1>2. \A g \in Fiber \ {f} : Waits(g) => at[g].c # at[f].c \/ at[g].event # at[f].event
  BY <1>1 DEF IoInv
<1>3. CASE polled(f)
  <2> DEFINE a == [at[f] EXCEPT !.pc = "ready"]
  <2>1. a \in Call /\ a.c = at[f].c /\ a.event = at[f].event /\ a.on = at[f].on
    BY <1>1 DEF Call
  <2>2. at' = [at EXCEPT ![f] = a]
    BY <1>3 DEF polled, IoInv, IoTypeOK
  <2>3. Ready(a.c, a.event)
    BY <1>1, <1>3, <2>1 DEF polled
  <2>4. UNCHANGED <<readable, writable, failed>>
    BY <1>3 DEF polled
  <2> HIDE DEF a
  <2> QED BY <1>1, <1>2, <2>1, <2>2, <2>3, <2>4, PollKeepsInv, Zenon
<1>4. CASE pollFails(f)
  BY <1>4, PollKeepsInv, Zenon DEF pollFails, Idle
<1>5. CASE finish(f)
  <2>1. Ready(at[f].c, at[f].event)
    BY <1>5 DEF finish, IoInv
  <2>2. at[f].c \in Channel /\ at[f].event \in Event
    BY <1>1 DEF Call
  <2> QED BY <1>2, <1>5, <2>1, <2>2, TransferKeepsInv, Zenon DEF finish
<1> QED BY <1>3, <1>4, <1>5

\* The other end of a channel only adds data, or room for it.
LEMMA PeerKeepsInv ==
  ASSUME IoInv, NEW c \in Channel, Peer(c)
  PROVE  IoInv'
<1>1. /\ readable' \in [Channel -> Nat] /\ writable' \in [Channel -> Nat]
      /\ \A d \in Channel : readable'[d] >= readable[d] /\ writable'[d] >= writable[d]
  BY DEF Peer, IoInv, IoTypeOK
<1>2. IoTypeOK' /\ UNCHANGED <<at, failed>>
  BY <1>1 DEF Peer, IoInv, IoTypeOK
<1>3. ASSUME NEW f \in Fiber, at[f].pc = "ready" PROVE Ready(at[f].c, at[f].event)'
  <2>1. at[f] \in Call /\ Ready(at[f].c, at[f].event)
    BY <1>3, CallIsNotIdle DEF IoInv, IoTypeOK
  <2>2. at[f].c \in Channel /\ at[f].event \in Event /\ at' = at
    BY <1>2, <2>1 DEF Call
  <2>3. /\ readable[at[f].c] \in Nat /\ readable'[at[f].c] \in Nat
        /\ writable[at[f].c] \in Nat /\ writable'[at[f].c] \in Nat
    BY <1>1, <2>2 DEF IoInv, IoTypeOK
  <2>4. /\ readable'[at[f].c] >= readable[at[f].c]
        /\ writable'[at[f].c] >= writable[at[f].c]
    BY <1>1, <2>2
  <2>5. CASE at[f].event = "PollIn"
    BY <2>1, <2>2, <2>3, <2>4, <2>5 DEF Ready
  <2>6. CASE at[f].event = "PollOut"
    BY <2>1, <2>2, <2>3, <2>4, <2>6 DEF Ready
  <2> QED
    BY <2>2, <2>5, <2>6 DEF Event
<1> QED BY <1>2, <1>3 DEF IoInv, Waits, HandOffTransfers

\* The invariant is inductive.
LEMMA IoInvNext == ASSUME Unshared PROVE IoInv /\ [IoNext]_ioVars => IoInv'
<1> SUFFICES ASSUME IoInv, [IoNext]_ioVars PROVE IoInv'
  OBVIOUS
<1>1. ASSUME NEW f \in Fiber, NEW c \in Socket, NEW flags, NEW event \in Event, handOff(f, c, event, flags)
      PROVE  IoInv'
  BY <1>1, CallKeepsInv DEF handOff, Channel
<1>2. ASSUME NEW f \in Fiber, NEW c \in Fd, read(f, c) \/ write(f, c) PROVE IoInv'
  BY <1>2, CallKeepsInv DEF read, write, Channel, Event
<1>3. ASSUME NEW f \in Fiber, at[f] # Idle, polled(f) \/ pollFails(f) \/ finish(f) PROVE IoInv'
  BY <1>3, PolledKeepsInv
<1>4. ASSUME NEW c \in Channel, Peer(c) PROVE IoInv'
  BY <1>4, PeerKeepsInv
<1>5. ASSUME UNCHANGED <<readable, writable, at, failed>> PROVE IoInv'
  BY <1>5, Zenon DEF IoInv, IoTypeOK, Waits, Ready, HandOffTransfers
<1>6. CASE \E c \in Fd : fcntl(c)
  BY <1>5, <1>6 DEF fcntl
<1>7. CASE UNCHANGED ioVars
  BY <1>5, <1>7 DEF ioVars
<1> QED
  BY <1>1, <1>2, <1>3, <1>4, <1>6, <1>7, Zenon
     DEF IoNext, zmq_recv, zmq_msg_recv, zmq_send, zmq_msg_send, zmq_send_const, Event

\* A call that polls first and then does the operation without blocking, transfers: what
\* poll() has found is still there when the fiber gets the processor back, however many
\* fibers, sockets and file descriptors there are, as long as no two fibers use the same
\* one in the same direction (zmq_send(), zmq_recv(), read(), write()).
THEOREM HandOffTransfersHolds == ASSUME Unshared PROVE IoSpec => []HandOffTransfers
<1>1. IoInv => HandOffTransfers
  BY DEF IoInv
<1> QED BY <1>1, IoInvInit, IoInvNext, PTL DEF IoSpec

-----------------------------------------------------------------------------
(* Promises and futures *)

\* Promise, on its own.
PromiseSpec == PromiseInit /\ [][PromiseNext]_promiseVars

\* A promise that exists.
Variable == [state : States \cup {nullptr}, got : BOOLEAN]

\* Promises are moved by their constructor: the assignment and swap() leave
\* m_got_future behind.  And a null pointer is no object.
Constructed ==
    /\ Moves \subseteq {"construct"}
    /\ nullptr \notin States /\ nullptr \notin Futures /\ nullptr \notin Variable

PromiseTypeOK ==
    /\ promise \in [Promises -> Variable \cup {nullptr}]
    /\ future \in [Futures -> States \cup {nullptr}]
    /\ value \in [States -> Values \cup {"exception", "empty"}]
    /\ waiting \in [Fibers -> Futures \cup {nullptr}]
    /\ retrieved \in [States -> Nat]

\* No two promises share an object.
OnePromise ==
    \A v, w \in Promises : v # w /\ valid(v) /\ valid(w) => promise[v].state # promise[w].state

\* A promise that is still to hand out its future belongs to an object without one.
RetrievedOnce ==
    /\ \A s \in States : retrieved[s] <= 1
    /\ \A v \in Promises : valid(v) /\ ~promise[v].got => retrieved[promise[v].state] = 0

\* A fiber waits for a value that is not there yet.
WaitsForValue ==
    \A f \in Fibers : waiting[f] # nullptr =>
        future[waiting[f]] # nullptr /\ value[future[waiting[f]]] = "empty"

\* The inductive invariant.
PromiseInv == PromiseTypeOK /\ OnePromise /\ RetrievedOnce /\ WaitsForValue

\* There are no promises, initially.
LEMMA PromiseInvInit == ASSUME Constructed PROVE PromiseInit => PromiseInv
BY DEF PromiseInit, PromiseInv, PromiseTypeOK, OnePromise, RetrievedOnce, WaitsForValue,
       valid, Exists, Constructed

\* What a valid promise refers to.
LEMMA ValidState ==
  ASSUME Constructed, PromiseInv, NEW v \in Promises
  PROVE  /\ Exists(v) => promise[v] \in Variable
         /\ valid(v) => promise[v].state \in States
BY DEF PromiseInv, PromiseTypeOK, Variable, valid, Exists, Constructed

\* The constructor takes an object that nobody refers to.
LEMMA ConstructKeepsPromises ==
  ASSUME Constructed, PromiseInv, NEW v \in Promises, construct(v)
  PROVE  PromiseInv' /\ KeepsPromises
<1>1. PICK s \in States :
          /\ ~Referred(s)
          /\ promise' = [promise EXCEPT ![v] = [state |-> s, got |-> FALSE]]
          /\ value' = [value EXCEPT ![s] = "empty"]
          /\ retrieved' = [retrieved EXCEPT ![s] = 0]
  BY Zenon DEF construct
<1>2. UNCHANGED <<future, waiting>>
  BY DEF construct
<1>3. PromiseTypeOK'
  BY <1>1, <1>2 DEF PromiseInv, PromiseTypeOK, Variable
<1>4. \A w \in Promises : promise'[w] = IF w = v THEN [state |-> s, got |-> FALSE] ELSE promise[w]
  BY <1>1 DEF PromiseInv, PromiseTypeOK
<1>5. \A w \in Promises : Exists(w) => promise[w].state # s
  BY <1>1 DEF Referred
<1>6. OnePromise'
  BY <1>4, <1>5 DEF PromiseInv, OnePromise, valid, Exists
<1>7. RetrievedOnce'
  BY <1>1, <1>4, <1>5, ValidState DEF PromiseInv, PromiseTypeOK, RetrievedOnce, valid, Exists
<1>8. WaitsForValue'
  BY <1>1, <1>2 DEF PromiseInv, PromiseTypeOK, WaitsForValue
<1>9. KeepsPromises
  BY <1>1, <1>7, <1>8 DEF KeepsPromises, RetrievedOnce, WaitsForValue, PromiseInv, PromiseTypeOK
<1> QED BY <1>3, <1>6, <1>7, <1>8, <1>9 DEF PromiseInv

\* The destructor and the move constructor leave no promise with the object of another.
LEMMA MoveKeepsPromises ==
  ASSUME Constructed, PromiseInv, NEW v \in Promises,
         destroy(v) \/ \E w \in Promises : move(v, w)
  PROVE  PromiseInv' /\ KeepsPromises
<1>1. UNCHANGED <<future, value, waiting, retrieved>>
  BY Zenon DEF destroy, move
<1>2. CASE destroy(v)
  <2>1. \A w \in Promises : promise'[w] = IF w = v THEN nullptr ELSE promise[w]
    BY <1>2 DEF destroy, PromiseInv, PromiseTypeOK
  <2>2. PromiseTypeOK'
    BY <1>1, <1>2 DEF destroy, PromiseInv, PromiseTypeOK
  <2>3. OnePromise' /\ RetrievedOnce' /\ WaitsForValue'
    BY <1>1, <2>1 DEF PromiseInv, OnePromise, RetrievedOnce, WaitsForValue, valid, Exists
  <2>4. KeepsPromises
    BY <1>1, <2>3 DEF KeepsPromises, RetrievedOnce, WaitsForValue
  <2> QED BY <2>2, <2>3, <2>4 DEF PromiseInv
<1>3. ASSUME NEW w \in Promises, move(v, w) PROVE PromiseInv' /\ KeepsPromises
  <2>0. v # w /\ Exists(v) /\ ~Exists(w)
    BY <1>3 DEF move, Constructed
  <2>1. promise' = [promise EXCEPT ![w] = promise[v], ![v].state = nullptr]
    BY <1>3 DEF move, Constructed
  <2>2. promise[v] \in Variable
    BY <2>0, ValidState
  <2>3. /\ promise'[v] = [promise[v] EXCEPT !.state = nullptr]
        /\ promise'[w] = promise[v]
        /\ \A x \in Promises : x # v /\ x # w => promise'[x] = promise[x]
    BY <2>0, <2>1 DEF PromiseInv, PromiseTypeOK
  <2>4. promise'[v] \in Variable /\ promise'[v].state = nullptr
    BY <2>2, <2>3 DEF Variable
  <2>5. PromiseTypeOK'
    <3>1. promise' = [x \in Promises |-> promise'[x]]
      BY <2>1, Zenon DEF PromiseInv, PromiseTypeOK
    <3>2. \A x \in Promises : promise'[x] \in Variable \cup {nullptr}
      BY <2>2, <2>3, <2>4 DEF PromiseInv, PromiseTypeOK
    <3> QED BY <1>1, <3>1, <3>2 DEF PromiseInv, PromiseTypeOK
  <2>6. ASSUME NEW x \in Promises, valid(x)'
        PROVE  \E y \in Promises : /\ y # w /\ valid(y) /\ promise'[x] = promise[y]
                                   /\ IF x = w THEN y = v ELSE y = x /\ x # v
    <3>1. x # v
      BY <2>4, <2>6 DEF valid
    <3>2. CASE x = w
      BY <2>0, <2>3, <2>6, <3>2 DEF valid, Exists
    <3>3. CASE x # w
      BY <2>3, <2>6, <3>1, <3>3 DEF valid, Exists
    <3> QED BY <3>2, <3>3
  <2>7. ASSUME NEW x \in Promises, NEW y \in Promises, x # y, valid(x)', valid(y)'
        PROVE  promise'[x].state # promise'[y].state
    BY <2>6, <2>7 DEF PromiseInv, OnePromise
  <2>8. ASSUME NEW x \in Promises, valid(x)', ~promise'[x].got
        PROVE  retrieved'[promise'[x].state] = 0
    BY <1>1, <2>6, <2>8 DEF PromiseInv, RetrievedOnce
  <2>10. OnePromise' /\ RetrievedOnce' /\ WaitsForValue'
    BY <1>1, <2>7, <2>8 DEF PromiseInv, OnePromise, RetrievedOnce, WaitsForValue
  <2>9. KeepsPromises
    BY <1>1, <2>10 DEF KeepsPromises, RetrievedOnce, WaitsForValue
  <2> QED BY <2>5, <2>9, <2>10 DEF PromiseInv
<1> QED BY <1>2, <1>3

\* get_future() of a promise that has not handed out its future yet.
LEMMA GetFutureKeepsPromises ==
  ASSUME Constructed, PromiseInv, NEW v \in Promises, NEW x \in Futures, get_future(v, x)
  PROVE  PromiseInv' /\ KeepsPromises
<1>1. PICK s \in States : s = promise[v].state
  BY ValidState DEF get_future
<1>0. promise[v] \in Variable /\ ~promise[v].got /\ promise[v] # nullptr /\ s # nullptr
  BY <1>1, ValidState DEF get_future, valid, Exists
<1>2. /\ promise' = [promise EXCEPT ![v].got = TRUE]
      /\ future' = [future EXCEPT ![x] = s]
      /\ retrieved' = [retrieved EXCEPT ![s] = @ + 1]
      /\ UNCHANGED <<value, waiting>>
      /\ \A f \in Fibers : waiting[f] # x
  BY <1>1 DEF get_future, Unused
<1>3. promise'[v] \in Variable /\ promise'[v].state = s /\ promise'[v].got
  BY <1>0, <1>1, <1>2, Zenon DEF Variable, PromiseInv, PromiseTypeOK
<1>4. \A w \in Promises : w # v => promise'[w] = promise[w]
  BY <1>2 DEF PromiseInv, PromiseTypeOK
<1>5. PromiseTypeOK'
  <2>1. promise' = [w \in Promises |-> promise'[w]]
    BY <1>2, Zenon DEF PromiseInv, PromiseTypeOK
  <2>2. \A w \in Promises : promise'[w] \in Variable \cup {nullptr}
    BY <1>3, <1>4 DEF PromiseInv, PromiseTypeOK
  <2>3. promise' \in [Promises -> Variable \cup {nullptr}]
    BY <2>1, <2>2
  <2>4. /\ future' \in [Futures -> States \cup {nullptr}]
        /\ retrieved' \in [States -> Nat]
    BY <1>2 DEF PromiseInv, PromiseTypeOK
  <2> QED BY <1>2, <2>3, <2>4 DEF PromiseInv, PromiseTypeOK
<1>6. promise'[v] # nullptr /\ promise'[v].state # nullptr
  BY <1>0, <1>3 DEF Constructed
<1>7. OnePromise'
  BY <1>0, <1>1, <1>3, <1>4, <1>6 DEF PromiseInv, OnePromise, valid, Exists
<1>8. RetrievedOnce'
  <2>1. retrieved[s] = 0
    BY <1>0, <1>1 DEF PromiseInv, RetrievedOnce, valid, Exists
  <2>2. \A t \in States : retrieved'[t] = IF t = s THEN 1 ELSE retrieved[t]
    BY <1>1, <1>2, <2>1 DEF PromiseInv, PromiseTypeOK
  <2>3. ASSUME NEW w \in Promises, valid(w)', ~promise'[w].got
        PROVE  retrieved'[promise'[w].state] = 0
    <3>1. w # v /\ promise'[w] = promise[w] /\ valid(w)
      BY <1>3, <1>4, <2>3 DEF valid, Exists
    <3>2. promise[w].state # s /\ promise[w].state \in States
      BY <1>0, <1>1, <3>1, ValidState DEF PromiseInv, OnePromise, valid, Exists
    <3> QED BY <2>2, <2>3, <3>1, <3>2 DEF PromiseInv, RetrievedOnce
  <2> QED BY <2>2, <2>3 DEF PromiseInv, RetrievedOnce
<1>9. WaitsForValue'
  BY <1>1, <1>2 DEF PromiseInv, PromiseTypeOK, WaitsForValue
<1>10. KeepsPromises
  BY <1>2, <1>8, <1>9 DEF KeepsPromises, RetrievedOnce, WaitsForValue
<1> QED BY <1>5, <1>7, <1>8, <1>9, <1>10 DEF PromiseInv

\* set_value() and set_exception() wake up everyone who waits for the object.
LEMMA SetKeepsPromises ==
  ASSUME Constructed, PromiseInv, NEW v \in Promises, NEW x \in Values \cup {"exception"}, set(v, x)
  PROVE  PromiseInv' /\ KeepsPromises
<1> DEFINE s == promise[v].state
<1>1. s \in States /\ value[s] = "empty" /\ value' = [value EXCEPT ![s] = x]
      /\ UNCHANGED <<promise, future, retrieved>>
  BY ValidState DEF set
<1>2. waiting' = [f \in Fibers |-> IF waiting[f] # nullptr /\ future[waiting[f]] = s
                                   THEN nullptr ELSE waiting[f]]
  BY DEF set
<1> HIDE DEF s
<1>3. PromiseTypeOK'
  BY <1>1, <1>2 DEF PromiseInv, PromiseTypeOK
<1>4. OnePromise' /\ RetrievedOnce'
  BY <1>1 DEF PromiseInv, OnePromise, RetrievedOnce, valid, Exists
<1>5. WaitsForValue'
  BY <1>1, <1>2 DEF PromiseInv, PromiseTypeOK, WaitsForValue
<1>6. KeepsPromises
  BY <1>1, <1>4, <1>5 DEF KeepsPromises, RetrievedOnce, WaitsForValue, PromiseInv, PromiseTypeOK
<1> QED BY <1>3, <1>4, <1>5, <1>6 DEF PromiseInv

\* Futures are reset and shared, and a fiber waits in get().
LEMMA FuturesKeepPromises ==
  ASSUME Constructed, PromiseInv, NEW v \in Futures,
         reset(v) \/ (\E w \in Futures : share(v, w)) \/ (\E f \in Fibers : get(f, v))
  PROVE  PromiseInv' /\ KeepsPromises
<1>1. UNCHANGED <<promise, value, retrieved>>
  BY DEF reset, share, get
<1>2. PromiseTypeOK'
  BY <1>1 DEF reset, share, get, PromiseInv, PromiseTypeOK
<1>3. OnePromise' /\ RetrievedOnce'
  BY <1>1 DEF PromiseInv, OnePromise, RetrievedOnce, valid, Exists
<1>4. WaitsForValue'
  <2>1. CASE reset(v)
    BY <2>1 DEF reset, Unused, PromiseInv, PromiseTypeOK, WaitsForValue
  <2>2. ASSUME NEW w \in Futures, share(v, w) PROVE WaitsForValue'
    BY <2>2 DEF share, Unused, PromiseInv, PromiseTypeOK, WaitsForValue
  <2>3. ASSUME NEW f \in Fibers, get(f, v) PROVE WaitsForValue'
    BY <2>3, SMTT(30) DEF get, PromiseInv, PromiseTypeOK, WaitsForValue
  <2> QED BY <2>1, <2>2, <2>3
<1>5. KeepsPromises
  BY <1>1, <1>3, <1>4 DEF KeepsPromises, RetrievedOnce, WaitsForValue
<1> QED BY <1>2, <1>3, <1>4, <1>5 DEF PromiseInv

\* The invariant is inductive, and every step keeps the promises.
LEMMA PromiseInvNext ==
  ASSUME Constructed
  PROVE  PromiseInv /\ [PromiseNext]_promiseVars => PromiseInv' /\ [KeepsPromises]_promiseVars
<1> SUFFICES ASSUME PromiseInv, [PromiseNext]_promiseVars PROVE PromiseInv' /\ [KeepsPromises]_promiseVars
  OBVIOUS
<1>1. CASE UNCHANGED promiseVars
  BY <1>1 DEF promiseVars, PromiseInv, PromiseTypeOK, OnePromise, RetrievedOnce, WaitsForValue, valid, Exists
<1>2. CASE PromiseNext
  BY <1>2, ConstructKeepsPromises, MoveKeepsPromises, GetFutureKeepsPromises, SetKeepsPromises,
     FuturesKeepPromises DEF PromiseNext
<1> QED BY <1>1, <1>2

\* A value is set once and stays, its future is handed out once, and nobody waits for
\* a value that is there, for any number of promises, futures and fibers
\* (std_promise_base::set_value(), get_future(), std_shared_future_base::get()).
THEOREM PromisesAreKeptHolds == ASSUME Constructed PROVE PromiseSpec => PromisesAreKept
<1>1. PromiseInv /\ [PromiseNext]_promiseVars => [KeepsPromises]_promiseVars
  BY PromiseInvNext
<1> QED BY <1>1, PromiseInvInit, PromiseInvNext, PTL DEF PromiseSpec, PromisesAreKept
=============================================================================
