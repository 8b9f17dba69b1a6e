------------------------------- MODULE Mailbox -------------------------------
(***************************************************************************)
(* zth::Mailbox (include/libzth/sync.h): a place for one value, that       *)
(* fibers put and take.                                                    *)
(***************************************************************************)
EXTENDS Synchronizer

CONSTANTS Values,    \* what fibers may put
          NoValue,   \* the mailbox is empty
          Ops        \* whether fibers also use "wait", "wait_empty"

ASSUME MailboxAssumption == NoValue \notin Values

\* A mailbox is a Synchronizer<2>.
TwoQueues == Size = 2

Queue_Put == 0
Queue_Take == 1

VARIABLES m_value,
          m_assigned,   \* the fiber that was woken up for the value; workerFiber: null
          call          \* the function that each fiber is in, and the value it puts

mailboxVars == <<worker, queue, m_value, m_assigned, call>>

Idle == [op |-> "idle", value |-> NoValue]

Put(v) == [op |-> "put", value |-> v]

Call(op) == [op |-> op, value |-> NoValue]

MailboxInit ==
    /\ SyncInit
    /\ m_value = NoValue
    /\ m_assigned = workerFiber
    /\ call = [f \in Fiber |-> Idle]

valid == m_value # NoValue

\* Mutant of validFor: the value may be taken by anyone.
validFor_Any(f) == valid

\* valid(assigned), for a fiber.
validFor(f) == valid /\ m_assigned \in {workerFiber, f}

\* A loop that blocks the fiber on q and tries again, in call c.
blocks(f, q, c) ==
    /\ block(f, q)
    /\ call' = [call EXCEPT ![f] = c]
    /\ UNCHANGED <<m_value, m_assigned>>

Enters(f, c) == Runs(f) /\ call[f] \in {Idle, c}

Returns(f) == call' = [call EXCEPT ![f] = Idle]

\* put(): wait_empty(), and put_finalize(); wakeup() assigns the value.
put(f, v) ==
    /\ Enters(f, Put(v))
    /\ IF valid THEN blocks(f, Queue_Put, Put(v))
       ELSE /\ m_value' = v
            /\ unblockFirst(Queue_Take)
            /\ m_assigned' = IF queue[Queue_Take] = <<>> THEN m_assigned
                                                         ELSE front(queue[Queue_Take])
            /\ Returns(f)

\* take(): wait() for the value, and take_finalize().
take(f) ==
    /\ Enters(f, Call("take"))
    /\ IF ~validFor(f) THEN blocks(f, Queue_Take, Call("take"))
       ELSE /\ m_value' = NoValue
            /\ unblockFirst(Queue_Put)
            /\ Returns(f)
            /\ UNCHANGED m_assigned

mailboxWait(f) ==
    /\ "wait" \in Ops /\ Enters(f, Call("wait"))
    /\ IF ~validFor(f) THEN blocks(f, Queue_Take, Call("wait"))
       ELSE Returns(f) /\ UNCHANGED <<worker, queue, m_value, m_assigned>>

wait_empty(f) ==
    /\ "wait_empty" \in Ops /\ Enters(f, Call("wait_empty"))
    /\ IF valid THEN blocks(f, Queue_Put, Call("wait_empty"))
       ELSE Returns(f) /\ UNCHANGED <<worker, queue, m_value, m_assigned>>

mailboxYield(f) == Yield(f) /\ call[f] = Idle /\ UNCHANGED <<m_value, m_assigned, call>>

mailboxExit(f) == Exit(f) /\ call[f] = Idle /\ UNCHANGED <<m_value, m_assigned, call>>

mailboxRun == RunWorker /\ UNCHANGED <<m_value, m_assigned, call>>

mailboxStop == Stopped /\ UNCHANGED mailboxVars

MailboxFiberNext(f) ==
    \/ \E v \in Values : put(f, v)
    \/ take(f) \/ mailboxWait(f) \/ wait_empty(f) \/ mailboxYield(f) \/ mailboxExit(f)

MailboxNext == mailboxRun \/ mailboxStop \/ \E f \in Fiber : MailboxFiberNext(f)

MailboxSpec == MailboxInit /\ [][MailboxNext]_mailboxVars

\* The worker goes on, a fiber goes on in the function it is in, and gives way
\* now and then.
MailboxFairness ==
    /\ WF_mailboxVars(mailboxRun)
    /\ \A f \in Fiber :
          /\ WF_mailboxVars(/\ call[f] # Idle
                     /\ \/ take(f) \/ mailboxWait(f) \/ wait_empty(f)
                        \/ \E v \in Values : put(f, v))
          /\ WF_mailboxVars(mailboxYield(f))

MailboxFairSpec == MailboxSpec /\ MailboxFairness

-----------------------------------------------------------------------------
(* Properties *)

MailboxTypeOK ==
    /\ SyncTypeOK
    /\ m_value \in Values \cup {NoValue}
    /\ m_assigned \in Context
    /\ call \in [Fiber -> {Put(v) : v \in Values} \cup {Idle}
                              \cup {Call(op) : op \in {"take", "wait", "wait_empty"}}]

Takes(f) == call[f].op \in {"take", "wait"}

Puts(f) == call[f].op \in {"put", "wait_empty"}

\* A fiber that put() has woken up finds the value when it gets to run: no other
\* fiber takes it in between, and no other fiber has been woken up for it
\* (Mailbox::wakeup(), valid(assigned)).
WokenTakerFindsValue ==
    \A f \in Fiber : Takes(f) /\ ~Queued(f) => valid /\ m_assigned = f

\* put() "is blocking when there is already a value in the mailbox": when fibers
\* are blocked and there is no value, one of them has been woken up and goes on
\* (Mailbox::take_finalize(), put_prepare()).
EmptyIsFilled ==
    ~valid /\ queue[Queue_Put] # <<>> => \E f \in Fiber : Puts(f) /\ ~Queued(f)

\* "Wait for and return a mailbox's value": no fiber waits in take() while there
\* is a value, unless another has been woken up to take it.
ValueIsTaken ==
    valid /\ queue[Queue_Take] # <<>> => \E f \in Fiber : Takes(f) /\ ~Queued(f)

\* A value that a fiber has been woken up for is taken.
AssignedIsTaken ==
    \A f \in Fiber : (valid /\ m_assigned = f /\ call[f].op = "take") ~> call[f].op # "take"
==============================================================================
