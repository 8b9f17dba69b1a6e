------------------------------- MODULE Poller -------------------------------
(***************************************************************************)
(* The pollers (include/libzth/poller.h, src/poller.cpp): user fibers      *)
(* poll() file descriptors through a PollerClient each, the PollerServer   *)
(* collects what they wait for, and the Waiter executes the server's       *)
(* poll() between the turns of the fibers, or instead of its sleep.        *)
(*                                                                         *)
(* Either the fibers poll, or they use the operations of module Waiter;    *)
(* which of the two happens is chosen initially.                           *)
(***************************************************************************)
EXTENDS Waiter, SequencesExt

CONSTANTS Fd,        \* the file descriptors
          Lists,     \* the sequences of descriptors that each fiber polls
          Timeouts,  \* the arguments of poll(): -1 is forever, 0 does not block
          Pollers,   \* the fibers that poll
          NewPollers, \* the arguments of setPoller()
          PollTime,  \* bound on the clock while fibers poll
          MaxResult  \* bound on the events that a client has not seen yet

Servers == {"default", "other"}

VARIABLES driver,    \* "ops" or "poll"
          ready,     \* the descriptors that have an event
          server,    \* m_metaItems and m_pollItems of each PollerServer
          m_poller,  \* Waiter::m_poller, or "null"
          client     \* the PollerClient of each fiber, and its call of poll()

pollVars == <<driver, ready, server, m_poller, client>>

allVars == <<vars, pollVars>>

\* A Pollable belongs to the client of one fiber.  revents is in the client.
Pollable(f, d) == [fiber |-> f, fd |-> d]

\* pc is "wait" from the call of poll() to its return.  until and hasFiber are
\* the timeout (0 for null) and the fiber of m_wait; from is the server.
NoCall == [pc |-> "idle", list |-> <<>>, result |-> <<>>, revents |-> {},
           until |-> 0, hasFiber |-> FALSE, from |-> "default"]

-----------------------------------------------------------------------------
(* PollerServer *)

\* Waiter::poller()
poller == IF m_poller = "null" THEN "default" ELSE m_poller

polling == server[poller].metas # <<>>

serverAdd(sv, p) == [sv EXCEPT !.metas = Append(@, p)]

\* Element i is replaced by the last one, which is dropped.
FillGap(s, i) == IF i < Len(s) THEN Front([s EXCEPT ![i] = Last(s)]) ELSE Front(s)

\* Mutant of serverRemove: the gap is filled in the list of poll items only.
serverRemove_Shifts(sv, p) ==
    LET at == {i \in DOMAIN sv.metas : sv.metas[i] = p}
        i == Max(at)
    IN  IF at = {} THEN sv
        ELSE [metas |-> RemoveAt(sv.metas, i),
              polls |-> IF i <= Len(sv.polls) THEN FillGap(sv.polls, i) ELSE sv.polls]

serverRemove(sv, p) ==
    LET at == {i \in DOMAIN sv.metas : sv.metas[i] = p}
        i == Max(at)
    IN  IF at = {} THEN sv
        ELSE [metas |-> FillGap(sv.metas, i),
              polls |-> IF i <= Len(sv.polls) THEN FillGap(sv.polls, i) ELSE sv.polls]

mirror(sv) ==
    [sv EXCEPT !.polls = @ \o SubSeq(sv.metas, Len(@) + 1, Len(sv.metas))]

\* migrateTo(): all items are added to the other server.
migrateTo(from, to) ==
    [server EXCEPT ![to] = FoldLeft(serverAdd, @, server[from].metas),
                   ![from] = [metas |-> <<>>, polls |-> <<>>]]

-----------------------------------------------------------------------------
(* Events.  Together, the worker, the waiter's list and the clients are a    *)
(* record s that is handed from event to event.                              *)

\* PollerClient::event()
clientEvent(s, p) ==
    LET f == p.fiber
        mine == {e \in s.waiting : e.kind = "poll" /\ e.fiber = f}
        t == [s EXCEPT !.client[f].result = Append(@, p)]
    IN  CASE s.client[f].until # 0 /\ mine # {} ->
                LET e == CHOOSE e \in mine : TRUE
                IN  [t EXCEPT !.waiting = @ \ {e}, !.worker = WakeFront(@, e)]
          [] s.client[f].until = 0 /\ s.client[f].hasFiber ->
                [t EXCEPT !.worker = resume(@, f)]
          [] OTHER -> t

\* PollerServer::event(): revents of the pollable is set, also when it is empty.
serverEvent(s, item) ==
    LET p == item.meta
        f == p.fiber
    IN  IF item.poll.fd \in ready
        THEN clientEvent([s EXCEPT !.client[f].revents = @ \cup {p}], p)
        ELSE [s EXCEPT !.client[f].revents = @ \ {p}]

\* doPoll(): the items are looked at up to the last one that has an event.
LastReady(sv) ==
    LET at == {i \in DOMAIN sv.polls : sv.polls[i].fd \in ready}
    IN  IF at = {} THEN 0 ELSE Max(at)

\* Mutant of doPoll: the last of them is forgotten.
doPoll_Short(s, sv) ==
    FoldLeft(serverEvent, s,
             [i \in 1 .. LastReady(sv) - 1 |-> [meta |-> sv.metas[i], poll |-> sv.polls[i]]])

doPoll(s, sv) ==
    FoldLeft(serverEvent, s,
             [i \in 1 .. LastReady(sv) |-> [meta |-> sv.metas[i], poll |-> sv.polls[i]]])

Now(c) == [worker |-> worker, waiting |-> waiting, client |-> c]

-----------------------------------------------------------------------------
(* PollerClient::poll() by fiber f *)

\* Up to the point where it blocks, or is about to return.  fails: the poll() of
\* the operating system returns an error.
PollStart(f, l, timeout, fails) ==
    LET ps == [i \in DOMAIN l |-> Pollable(f, l[i])]
        sv == mirror(FoldLeft(serverAdd, server[poller], ps))
        c == [client EXCEPT ![f] = [NoCall EXCEPT !.pc = "wait", !.list = ps,
                                                  !.from = poller]]
        n == [Now(c) EXCEPT !.worker = resume(@, waiterFiber)]
        s == IF fails THEN n ELSE doPoll(n, sv)
        e == [kind |-> "poll", fiber |-> f, timeout |-> now + timeout, interval |-> 0]
    IN  /\ Runs(f) /\ client[f].pc = "idle"
        /\ now + timeout < PollTime /\ \A g \in User : Len(s.client[g].result) <= MaxResult
        /\ server' = [server EXCEPT ![poller] = sv]
        /\ CASE fails \/ timeout = 0 \/ s.client[f].result # <<>> ->
                  worker' = s.worker /\ waiting' = s.waiting /\ client' = s.client
             [] timeout < 0 /\ ~fails /\ s.client[f].result = <<>> ->
                  /\ worker' = suspend(s.worker, f, timeUp)
                  /\ waiting' = s.waiting
                  /\ client' = [s.client EXCEPT ![f].hasFiber = TRUE]
             [] OTHER ->
                  /\ worker' = schedule(release(nap(s.worker, f), f), timeUp)
                  /\ waiting' = s.waiting \cup {e}
                  /\ client' = [s.client EXCEPT ![f].until = now + timeout]
        /\ UNCHANGED <<now, runEnd, pc, wnow, driver, ready, m_poller>>

\* Mutant of PollEnd: the first pollable is left in the server.
PollEnd_Leaves(f) ==
    /\ Runs(f) /\ client[f].pc = "wait"
    /\ server' = [server EXCEPT ![client[f].from] =
                     FoldLeft(serverRemove, @, Reverse(Tail(client[f].list)))]
    /\ client' = [client EXCEPT ![f] = NoCall]
    /\ UNCHANGED <<vars, driver, ready, m_poller>>

\* The rest of poll().
PollEnd(f) ==
    /\ Runs(f) /\ client[f].pc = "wait"
    /\ server' = [server EXCEPT ![client[f].from] =
                     FoldLeft(serverRemove, @, Reverse(client[f].list))]
    /\ client' = [client EXCEPT ![f] = NoCall]
    /\ UNCHANGED <<vars, driver, ready, m_poller>>

\* Waiter::setPoller() of the other server, or of nullptr.  Whether the default
\* server has been made already is left open; it is made when it is needed.
SetPoller(f, p) ==
    /\ Runs(f) /\ client[f].pc = "idle"
    /\ polling => "setPollerWhilePolling" \in Ops
    /\ CASE m_poller = "null" -> m_poller' = p /\ UNCHANGED server
         [] m_poller # "null" /\ p # "null" ->
               /\ m_poller' = p
               /\ server' = IF p = m_poller THEN server ELSE migrateTo(m_poller, p)
         [] OTHER ->
               /\ m_poller' \in {"default"} \cup (IF polling THEN {} ELSE {"null"})
               /\ server' = IF m_poller = "default" THEN server
                            ELSE migrateTo(m_poller, "default")
    /\ UNCHANGED <<vars, driver, ready, client>>

-----------------------------------------------------------------------------
(* Waiter::entry(), with polling() *)

PollSuspend ==
    /\ Runs(waiterFiber) /\ pc.waiter = "expire"
    /\ waiting = {} /\ ~polling
    /\ worker' = suspend(worker, waiterFiber, timeUp)
    /\ pc' = [pc EXCEPT !.waiter = "after"]
    /\ UNCHANGED <<waiting, now, runEnd, wnow, pollVars>>

\* Mutant of PollSchedule: the waiter is suspended although a client is polling.
PollSchedule_Suspends ==
    /\ Runs(waiterFiber) /\ pc.waiter = "expire"
    /\ (waiting # {} \/ polling) /\ Expired = {}
    /\ worker' = IF waiting = {} THEN suspend(worker, waiterFiber, timeUp)
                 ELSE schedule(worker, timeUp)
    /\ pc' = [pc EXCEPT !.waiter =
                IF waiting = {} \/ didSchedule(worker, timeUp) THEN "after" ELSE "sleep"]
    /\ UNCHANGED <<waiting, now, runEnd, wnow, pollVars>>

PollSchedule ==
    /\ Runs(waiterFiber) /\ pc.waiter = "expire"
    /\ (waiting # {} \/ polling) /\ Expired = {}
    /\ worker' = schedule(worker, timeUp)
    /\ pc' = [pc EXCEPT !.waiter = IF didSchedule(worker, timeUp) THEN "after" ELSE "sleep"]
    /\ UNCHANGED <<waiting, now, runEnd, wnow, pollVars>>

\* poller().poll() and the dispatch of its events.
ServerPolls ==
    LET sv == mirror(server[poller])
        s == doPoll(Now(client), sv)
    IN  /\ server' = [server EXCEPT ![poller] = sv]
        /\ worker' = s.worker /\ waiting' = s.waiting /\ client' = s.client

\* There is other work: a poll() that does not block.
PollAfter ==
    /\ Runs(waiterFiber) /\ pc.waiter = "after"
    /\ IF polling THEN ServerPolls ELSE UNCHANGED <<server, worker, waiting, client>>
    /\ pc' = [pc EXCEPT !.waiter = "top"]
    /\ UNCHANGED <<now, runEnd, wnow, driver, ready, m_poller>>

\* There is no other work: poll() blocks until an event, the first timeout or the
\* end of Worker::run(), or it is interrupted by a signal.
PollEndTime == IF waiting # {} THEN SleepEnd ELSE runEnd

PollSleep ==
    /\ Runs(waiterFiber) /\ pc.waiter = "sleep" /\ polling
    /\ \/ LastReady(mirror(server[poller])) # 0
       \/ PollEndTime # 0 /\ PollEndTime <= now
    /\ ServerPolls
    /\ pc' = [pc EXCEPT !.waiter = "top"]
    /\ UNCHANGED <<now, runEnd, wnow, driver, ready, m_poller>>

PlainSleep == ~polling /\ WaiterSleep /\ UNCHANGED pollVars

PollInterrupted ==
    /\ polling => LastReady(mirror(server[poller])) = 0
    /\ WaiterInterrupted /\ UNCHANGED pollVars

-----------------------------------------------------------------------------

\* A descriptor gets an event, or its data is read.
Event(d) ==
    /\ ready' = IF d \in ready THEN ready \ {d} ELSE ready \cup {d}
    /\ UNCHANGED <<vars, driver, server, m_poller, client>>

PollInit ==
    /\ Init
    /\ \/ driver = "ops"
       \/ driver = "poll" /\ Elems(worker.runnable) = Pollers
    /\ ready = {}
    /\ server = [s \in Servers |-> [metas |-> <<>>, polls |-> <<>>]]
    /\ m_poller = "null"
    /\ client = [f \in User |-> NoCall]

PollFiberNext(f) ==
    \/ \E l \in Lists[f], t \in Timeouts, b \in BOOLEAN : PollStart(f, l, t, b)
    \/ PollEnd(f)
    \/ \E p \in NewPollers : SetPoller(f, p)
    \/ /\ client[f].pc = "idle" /\ UNCHANGED pollVars
       /\ \/ Yield(f) \/ Exit(f)
          \/ \E g \in Pollers : Resume(f, g)

PollWaiterNext ==
    \/ (WaiterTop \/ WaiterExpire) /\ UNCHANGED pollVars
    \/ PollSuspend \/ PollSchedule \/ PollAfter \/ PollSleep \/ PlainSleep
    \/ PollInterrupted

PollNext ==
    \/ driver = "ops" /\ (Next \/ \E f \in User : ControlNext(f)) /\ UNCHANGED pollVars
    \/ driver = "poll" /\
          (\/ (RunLoop \/ RunSchedule \/ Ended) /\ UNCHANGED pollVars
           \/ now < PollTime /\ Tick /\ UNCHANGED pollVars
           \/ (\E d \in Durations : RunEnter(d)) /\ UNCHANGED pollVars
           \/ PollWaiterNext
           \/ \E f \in Pollers : PollFiberNext(f)
           \/ \E d \in Fd : Event(d))

\* When the waiter can take a step: always, unless it sleeps and nothing happens.
WaiterCanGoOn ==
    /\ Runs(waiterFiber)
    /\ pc.waiter = "sleep" =>
          IF polling THEN \/ LastReady(mirror(server[poller])) # 0
                          \/ PollEndTime # 0 /\ PollEndTime <= now
                     ELSE SleepEnd <= now

MayReturn(f) == Runs(f) /\ client[f].pc = "wait"

CanGiveWay(f) == Runs(f) /\ client[f].pc = "idle" /\ Len(worker.runnable) > 1

\* Weak and strong fairness of the steps of the thread, with the condition under
\* which they can be taken written out.  As in Waiter, the thread goes on; a fiber
\* returns from poll(), and does not call it forever without giving way.
PollFairness ==
    /\ []<>~Runs(workerFiber) \/ []<><<RunLoop \/ RunSchedule>>_allVars
    /\ []<>~WaiterCanGoOn \/ []<><<PollWaiterNext>>_allVars
    /\ \A f \in Pollers :
          /\ []<>~MayReturn(f) \/ []<><<PollEnd(f)>>_allVars
          /\ <>[]~CanGiveWay(f) \/ []<><<Yield(f)>>_allVars

PollSpec == PollInit /\ [][PollNext]_allVars

PollFairSpec == PollSpec /\ PollFairness

-----------------------------------------------------------------------------
(* Properties *)

Blocked(f) == client[f].pc = "wait" /\ worker.state[f] \in {"Waiting", "Suspended"}

\* Every client that is blocked in poll() is served: its pollables are in the
\* server that the waiter polls, and the waiter has not suspended itself
\* (PollerServer::add(), Waiter::wakeup(), Waiter::entry(), setPoller()).
WaiterServesPollers ==
    \A f \in User : Blocked(f) =>
      /\ Elems(client[f].list) \subseteq Elems(server[poller].metas)
      /\ contains(worker.runnable, waiterFiber)

\* Neither the fibers that sleep nor those that poll are left behind by the waiter
\* (Waiter::entry()).
WaiterServesAll == WaiterServesSleepers /\ WaiterServesPollers

\* A server holds the pollables of the clients that are in poll(), each once, and
\* nothing else: no Pollable or PollerClient that is gone (PollerClient::poll(),
\* remove()).
NoStaleRegistrations ==
    \A s \in Servers :
      /\ Distinct(server[s].metas)
      /\ \A p \in Elems(server[s].metas) : client[p.fiber].pc = "wait"

\* "All entries in this list are in sync with m_metaItems": an event of poll item
\* i is an event of the pollable at i, for every order in which clients come and
\* go (PollerServer::remove(), mirror()).
ServerInSync ==
    \A s \in Servers : IsPrefix(server[s].polls, server[s].metas)

\* The tables of a server are those of the clients that poll, and agree
\* (PollerServer::add(), remove(), mirror(), migrateTo()).
ServerIsCurrent == NoStaleRegistrations /\ ServerInSync

\* A client that waits for a descriptor that stays ready returns from poll().
ReadyIsDelivered ==
    \A f \in Pollers, d \in Fd :
      (client[f].pc = "wait" /\ Pollable(f, d) \in Elems(client[f].list) /\ d \in ready)
         ~> (client[f].pc = "idle" \/ d \notin ready)

\* "The registered pollables that have an event set": what poll() returns has an
\* event (PollerClient::poll(), PollerServer::event()).
PollReturnsEvents ==
    [][\A f \in Pollers : client[f].pc = "wait" /\ client'[f].pc = "idle" =>
          Elems(client[f].result) \subseteq client[f].revents]_allVars
=============================================================================
