---------------------------------- MODULE Io ----------------------------------
(***************************************************************************)
(* The wrappers of blocking I/O: those of 0MQ (src/zmq.cpp) and of read()  *)
(* and write() (src/io.cpp).  When a call would block, the fiber waits in  *)
(* zth::poll() instead, and the other fibers of the worker run.  Meanwhile *)
(* the peers of the channels go on.                                        *)
(***************************************************************************)
EXTENDS Naturals

CONSTANTS Fiber, Socket, Fd,   \* Socket: 0MQ sockets; Fd: file descriptors
          Room,                \* how many messages the peer or the kernel holds
          Sharing              \* whether several fibers use the same direction of a channel

VARIABLES readable,   \* how many messages can be read from a channel
          writable,   \* how many can be written to it
          O_NONBLOCK, \* the file descriptors that are set to non-blocking
          at,         \* where every fiber is in its call
          failed      \* calls that fail although the caller asked to wait, or that block the thread

ioVars == <<readable, writable, O_NONBLOCK, at, failed>>

Channel == Socket \cup Fd

Idle == [pc |-> "idle"]

IoInit ==
    /\ readable = [c \in Channel |-> 0]
    /\ writable = [c \in Channel |-> Room]
    /\ O_NONBLOCK = {}
    /\ at = [f \in Fiber |-> Idle]
    /\ failed = {}

\* What the system call can do at once.
Ready(c, event) ==
    CASE event = "PollIn" -> readable[c] > 0
      [] event = "PollOut" -> writable[c] > 0

\* The system call transfers a message.
Transfer(c, event) ==
    /\ readable' = IF event = "PollIn" THEN [readable EXCEPT ![c] = @ - 1] ELSE readable
    /\ writable' = IF event = "PollOut" THEN [writable EXCEPT ![c] = @ - 1] ELSE writable

Keep == UNCHANGED <<readable, writable>>

\* Whether a fiber may use this direction of the channel.
Free(f, c, event) ==
    LET others == {g \in Fiber \ {f} : at[g] # Idle}
    IN  Sharing \/ <<c, event>> \notin {<<at[g].c, at[g].event>> : g \in others}

\* The poll of a call that would block.
Poll(f, c, event) == at' = [at EXCEPT ![f] = [pc |-> "polls", c |-> c, event |-> event, on |-> event]]

\* Mutant of zmq_recv: it polls as zmq_send() does.
zmq_recv_Out(f, c, flags) ==
    /\ at[f] = Idle /\ Free(f, c, "PollIn")
    /\ UNCHANGED <<O_NONBLOCK, failed>>
    /\ \/ Ready(c, "PollIn") /\ Transfer(c, "PollIn") /\ UNCHANGED at
       \/ ~Ready(c, "PollIn") /\ flags = "ZMQ_DONTWAIT" /\ Keep /\ UNCHANGED at
       \/ /\ ~Ready(c, "PollIn") /\ flags # "ZMQ_DONTWAIT" /\ Keep
          /\ at' = [at EXCEPT ![f] = [pc |-> "polls", c |-> c, event |-> "PollIn", on |-> "PollOut"]]

\* The wrappers of 0MQ, until the poll: the call, that does not wait, transfers a
\* message, or returns EAGAIN, which the caller gets when it asked not to wait.
handOff(f, c, event, flags) ==
    /\ at[f] = Idle /\ Free(f, c, event)
    /\ UNCHANGED <<O_NONBLOCK, failed>>
    /\ \/ Ready(c, event) /\ Transfer(c, event) /\ UNCHANGED at
       \/ ~Ready(c, event) /\ flags = "ZMQ_DONTWAIT" /\ Keep /\ UNCHANGED at
       \/ ~Ready(c, event) /\ flags # "ZMQ_DONTWAIT" /\ Keep /\ Poll(f, c, event)

zmq_msg_send(f, c, flags) == handOff(f, c, "PollOut", flags)

zmq_msg_recv(f, c, flags) == handOff(f, c, "PollIn", flags)

zmq_send(f, c, flags) == handOff(f, c, "PollOut", flags)

zmq_recv(f, c, flags) == handOff(f, c, "PollIn", flags)

zmq_send_const(f, c, flags) == handOff(f, c, "PollOut", flags)

\* read(), until the poll.  A non-blocking file is just read.
read(f, c) ==
    /\ at[f] = Idle /\ Free(f, c, "PollIn")
    /\ UNCHANGED <<O_NONBLOCK, failed>>
    /\ \/ c \in O_NONBLOCK /\ Ready(c, "PollIn") /\ Transfer(c, "PollIn") /\ UNCHANGED at
       \/ c \in O_NONBLOCK /\ ~Ready(c, "PollIn") /\ Keep /\ UNCHANGED at
       \/ c \notin O_NONBLOCK /\ Keep /\ Poll(f, c, "PollIn")

\* write(), until the poll.
write(f, c) ==
    /\ at[f] = Idle /\ Free(f, c, "PollOut")
    /\ UNCHANGED <<O_NONBLOCK, failed>>
    /\ \/ c \in O_NONBLOCK /\ Ready(c, "PollOut") /\ Transfer(c, "PollOut") /\ UNCHANGED at
       \/ c \in O_NONBLOCK /\ ~Ready(c, "PollOut") /\ Keep /\ UNCHANGED at
       \/ c \notin O_NONBLOCK /\ Keep /\ Poll(f, c, "PollOut")

\* zth::poll() finds the event, as module Poller models; the fiber runs later.
polled(f) ==
    /\ at[f].pc = "polls" /\ Ready(at[f].c, at[f].on)
    /\ at' = [at EXCEPT ![f].pc = "ready"]
    /\ UNCHANGED <<readable, writable, O_NONBLOCK, failed>>

\* The poll fails; so does the call, with that error.
pollFails(f) ==
    /\ at[f].pc = "polls"
    /\ at' = [at EXCEPT ![f] = Idle]
    /\ UNCHANGED <<readable, writable, O_NONBLOCK, failed>>

\* The call after the poll.  When there is nothing (any more), 0MQ's returns
\* EAGAIN, and read() and write() block the thread.
finish(f) ==
    /\ at[f].pc = "ready"
    /\ at' = [at EXCEPT ![f] = Idle]
    /\ UNCHANGED O_NONBLOCK
    /\ \/ Ready(at[f].c, at[f].event) /\ Transfer(at[f].c, at[f].event) /\ UNCHANGED failed
       \/ /\ ~Ready(at[f].c, at[f].event) /\ Keep
          /\ failed' = failed \cup {IF at[f].c \in Socket \cup O_NONBLOCK THEN "EAGAIN" ELSE "blocks"}

\* The peer of a channel sends and receives.  (External.)
Peer(c) ==
    /\ \/ readable[c] < Room /\ readable' = [readable EXCEPT ![c] = @ + 1] /\ UNCHANGED writable
       \/ writable[c] < Room /\ writable' = [writable EXCEPT ![c] = @ + 1] /\ UNCHANGED readable
    /\ UNCHANGED <<O_NONBLOCK, at, failed>>

\* The program sets a file to non-blocking, or back.  (External.)
fcntl(c) ==
    /\ O_NONBLOCK' = IF c \in O_NONBLOCK THEN O_NONBLOCK \ {c} ELSE O_NONBLOCK \cup {c}
    /\ UNCHANGED <<readable, writable, at, failed>>

IoNext ==
    \/ \E f \in Fiber :
          \/ \E c \in Socket, flags \in {"", "ZMQ_DONTWAIT"} :
                \/ zmq_recv(f, c, flags) \/ zmq_msg_recv(f, c, flags)
                \/ zmq_send(f, c, flags) \/ zmq_msg_send(f, c, flags) \/ zmq_send_const(f, c, flags)
          \/ \E c \in Fd : read(f, c) \/ write(f, c)
          \/ at[f] # Idle /\ (polled(f) \/ pollFails(f) \/ finish(f))
    \/ \E c \in Channel : Peer(c)
    \/ \E c \in Fd : fcntl(c)

-----------------------------------------------------------------------------
(* Properties *)

\* A call that may wait neither returns EAGAIN nor blocks the thread, and with
\* it all other fibers, whatever the peers and the other fibers do between the
\* poll and the call after it; as long as two fibers do not use the same
\* direction of a channel together (zmq_send(), zmq_recv(), read(), write()).
HandOffTransfers == failed = {}
==============================================================================
