-------------------------------- MODULE Perf --------------------------------
(***************************************************************************)
(* Performance events (include/libzth/perf.h, src/perf.cpp): every change  *)
(* of the state of a fiber, and every mark, is put in a buffer of limited  *)
(* size.  The PerfFiber writes the buffer to the VCD file when it gets its *)
(* turn; an event that finds the buffer almost full has it written at      *)
(* once.  Which fiber is next is left open, see module Worker for that.    *)
(* The file is what a reader of it knows: the last state of every fiber.   *)
(***************************************************************************)
EXTENDS SequencesExt, Integers

CONSTANTS Threads,     \* the fibers, without the two below
          workerFiber, \* Worker::m_workerFiber
          perfFiber,   \* the fiber of the PerfFiber
          nullptr,     \* no current fiber
          PerfEventBufferSize,
          PerfEventBufferThresholdToTriggerVCDWrite

Traced == Threads \cup {workerFiber, perfFiber}

VARIABLE perf

(* The fields of perf:                                                       *)
(*   state      the state of every fiber                                     *)
(*   current    Worker::m_currentFiber                                       *)
(*   hasFiber   PerfFiber::fiber() is not nullptr                            *)
(*   files      "open" (m_vcd and m_vcdd), "closed" when opening or writing  *)
(*              failed (the rest is of no interest), or "final"              *)
(*   buffer     perf_eventBuffer                                             *)
(*   shown      the state of every fiber according to what is written        *)
(*   pc         "run", or "dtor" in ~Worker(), "gone" behind it              *)

Event(f, s) == [fiber |-> f, state |-> s]

Marker(f) == Event(f, "mark")

-----------------------------------------------------------------------------
(* PerfFiber *)

Write(s, e) == [s EXCEPT !.shown[e.fiber] = IF e.state = "mark" THEN @ ELSE e.state]

\* Without files, the events are dropped.
processEventBuffer(s) ==
    [(IF s.files = "open" THEN FoldLeft(Write, s, s.buffer) ELSE s) EXCEPT !.buffer = <<>>]

Push(s, e) == [s EXCEPT !.buffer = Append(@, e)]

\* Mutant of EmergencyFlush: the switch to the fiber and back is not recorded.
EmergencyFlush_Half(s) ==
    LET p == processEventBuffer(
               Push(Push(Push(s, Marker(perfFiber)), Event(s.current, "Ready")),
                    Event(perfFiber, "Running")))
    IN  Push(p, Event(s.current, s.state[s.current]))

\* There is room for the record of a switch to the fiber, before the buffer is
\* written, and for the one of the switch back after it.
EmergencyFlush(s) ==
    LET p == processEventBuffer(
               Push(Push(Push(s, Marker(perfFiber)), Event(s.current, "Ready")),
                    Event(perfFiber, "Running")))
    IN  Push(Push(p, Event(perfFiber, s.state[perfFiber])), Event(s.current, s.state[s.current]))

spareRoom(s) == PerfEventBufferSize - Len(s.buffer)

WritesNow(s) == ~s.hasFiber \/ s.current = perfFiber \/ spareRoom(s) < 3

\* flushEventBuffer() when the fiber is not suspended: resume() does nothing.
flushAwake(s) ==
    CASE WritesNow(s) -> processEventBuffer(s)
      [] ~WritesNow(s) /\ spareRoom(s) > 3 -> s
      [] ~WritesNow(s) /\ spareRoom(s) = 3 ->
            IF s.current = nullptr THEN processEventBuffer(s) ELSE EmergencyFlush(s)

Full(s) == Len(s.buffer) >= PerfEventBufferThresholdToTriggerVCDWrite

eventAwake(s, e) == LET p == Push(s, e) IN IF Full(p) THEN flushAwake(p) ELSE p

\* resume() of the fiber is an event itself, of a fiber that is not suspended anymore.
flushEventBuffer(s) ==
    IF ~WritesNow(s) /\ spareRoom(s) > 3 /\ s.state[perfFiber] = "Suspended"
    THEN eventAwake([s EXCEPT !.state[perfFiber] = "Ready"], Event(perfFiber, "Ready"))
    ELSE flushAwake(s)

perf_event(s, e) == LET p == Push(s, e) IN IF Full(p) THEN flushEventBuffer(p) ELSE p

\* Fiber::setState()
setState(s, f, x) ==
    IF s.state[f] = x THEN s ELSE perf_event([s EXCEPT !.state[f] = x], Event(f, x))

-----------------------------------------------------------------------------
(* What fibers do.  s is the state of affairs, and f the current fiber. *)

\* Worker::schedule() and Fiber::run(), from f to g.
Switch(s, f, g) ==
    LET a == [s EXCEPT !.current = g]
        b == IF a.state[g] = "New" THEN setState(a, g, "Ready") ELSE a
        c == IF b.state[f] = "Running" THEN setState(b, f, "Ready") ELSE b
    IN  [setState(c, g, "Running") EXCEPT !.current = IF g = workerFiber THEN nullptr ELSE g]

Runnable(g) == perf.state[g] \in {"New", "Ready"}

Context == IF perf.current = nullptr THEN workerFiber ELSE perf.current

\* perf_init(); startVCD() may fail.
PerfInit ==
    perf \in [state : {[f \in Traced |-> IF f = workerFiber THEN "Ready" ELSE "New"]},
              current : {nullptr}, hasFiber : {TRUE}, files : {"open", "closed"},
              buffer : {<<>>}, shown : {[f \in Traced |-> "unknown"]},
              pc : {"run"}]

\* perf_mark() and perf_log() by the current fiber.
Mark ==
    /\ perf.pc = "run" /\ perf.current \in Threads
    /\ perf' = perf_event(perf, Marker(perf.current))

\* schedule(), by a fiber other than the perf fiber.
Schedule(g) ==
    /\ perf.pc = "run" /\ perf.current # perfFiber
    /\ Runnable(g) /\ g # Context
    /\ perf' = Switch(perf, Context, g)

\* suspend() of another fiber, or of the current one.
Suspend(g) ==
    /\ perf.pc = "run" /\ perf.current \in Threads /\ g \in Threads /\ g # perf.current
    /\ Runnable(g)
    /\ perf' = setState(perf, g, "Suspended")

SuspendSelf(g) ==
    /\ perf.pc = "run" /\ perf.current \in Threads
    /\ Runnable(g) /\ g # perf.current
    /\ perf' = Switch(setState(perf, perf.current, "Suspended"), perf.current, g)

\* resume(); whether the fiber has started before it was suspended is left open.
Resume(g) ==
    /\ perf.pc = "run" /\ perf.current \in Threads
    /\ g \in Threads /\ perf.state[g] = "Suspended"
    /\ \E x \in {"New", "Ready"} : perf' = setState(perf, g, x)

\* ~Fiber(), of a fiber that is dead; its name is an event too.
Deleted(s, f) ==
    LET k == [s EXCEPT !.hasFiber = @ /\ f # perfFiber]
    IN  setState(perf_event(k, Marker(f)), f, "Uninitialized")

\* PerfFiber::entry(): the buffer is written, and the fiber suspended.
PerfEntry(g) ==
    /\ perf.pc = "run" /\ perf.current = perfFiber /\ perf.files = "open"
    /\ Runnable(g) /\ g # perfFiber
    /\ perf' = Switch(setState(processEventBuffer(perf), perfFiber, "Suspended"), perfFiber, g)

\* It returns when there are no files or writing them fails, and the fiber is deleted
\* by the worker.
PerfExit ==
    /\ perf.pc = "run" /\ perf.current = perfFiber
    /\ LET s == Switch(setState(processEventBuffer([perf EXCEPT !.files = "closed"]),
                                perfFiber, "Dead"),
                       perfFiber, workerFiber)
       IN  perf' = Deleted(s, perfFiber)

\* ~Worker(): every fiber is killed and deleted, the suspended ones are resumed first.
Destroy(f) ==
    LET s == IF perf.state[f] = "Suspended" THEN setState(perf, f, "Ready") ELSE perf
    IN  /\ perf.pc \in {"run", "dtor"} /\ perf.current = nullptr
        /\ f # workerFiber /\ perf.state[f] # "Uninitialized"
        /\ perf' = [Deleted(setState(s, f, "Dead"), f) EXCEPT !.pc = "dtor"]

\* ~PerfFiber(): the rest of the buffer is written, and the data put behind the
\* definitions (finalizeVCD()).
perf_deinit ==
    /\ perf.pc = "dtor" /\ \A f \in Traced \ {workerFiber} : perf.state[f] = "Uninitialized"
    /\ perf' = [processEventBuffer(perf) EXCEPT !.pc = "gone",
                                                !.files = IF @ = "open" THEN "final" ELSE @]

PerfNext ==
    \/ Mark \/ PerfExit \/ perf_deinit
    \/ perf.pc = "gone" /\ UNCHANGED perf
    \/ \E g \in Traced : \/ Schedule(g) \/ Suspend(g) \/ SuspendSelf(g) \/ Resume(g)
                         \/ PerfEntry(g) \/ Destroy(g)

-----------------------------------------------------------------------------
(* Properties *)

\* The state that the file and then the buffer say fiber f has.
Recorded(f) ==
    LET last == SelectLastInSubSeq(perf.buffer, 1, Len(perf.buffer),
                                   LAMBDA e : e.fiber = f /\ e.state # "mark")
    IN  IF last = 0 THEN perf.shown[f] ELSE perf.buffer[last].state

\* No event is lost or written out of order, whoever runs when the buffer fills up,
\* and also across an emergency flush: what is recorded of every fiber is the state
\* it has, and the buffer never outgrows its size, which perf_event() asserts
\* (flushEventBuffer(), processEventBuffer()).
TraceIsTrue ==
    /\ Len(perf.buffer) <= PerfEventBufferSize
    /\ perf.files # "closed" =>
          \A f \in Traced : Recorded(f) # "unknown" => Recorded(f) = perf.state[f]
    /\ perf.pc = "gone" => perf.buffer = <<>>
=============================================================================
