-------------------------------- MODULE Time --------------------------------
(***************************************************************************)
(* TimeInterval and Timestamp (include/libzth/time.h, src/time.cpp): sign  *)
(* and magnitude arithmetic on a struct timespec, saturating at infinity.  *)
(* An interval and a timestamp go through sequences of operations with     *)
(* operands of every size.  A float is a multiple of one nanosecond.       *)
(***************************************************************************)
EXTENDS Integers

CONSTANTS BILLION,    \* nanoseconds in a second
          MILLION,    \* microseconds in a second
          THOUSAND,   \* milliseconds in a second
          TIME_MAX,   \* numeric_limits<time_t>::max()
          Counts,     \* arguments of the constructors and literals
          Factors     \* operands of multiplication and division

VARIABLES ti,  \* a TimeInterval
          ts   \* a Timestamp

timeVars == <<ti, ts>>

TimeInterval(s, ns, negative) == [tv_sec |-> s, tv_nsec |-> ns, m_negative |-> negative]

Timestamp(s, ns) == [tv_sec |-> s, tv_nsec |-> ns]

Abs(n) == IF n < 0 THEN -n ELSE n

\* Division of C++ truncates.
Quotient(n, d) == IF (n < 0) = (d < 0) THEN Abs(n) \div Abs(d) ELSE -(Abs(n) \div Abs(d))

-----------------------------------------------------------------------------
(* TimeInterval *)

infinity == TimeInterval(TIME_MAX, 0, FALSE)

null == TimeInterval(0, 0, FALSE)

\* from_s() of a number of seconds that may be too large.
from_s(n) == IF n > TIME_MAX THEN TimeInterval(TIME_MAX, BILLION - 1, FALSE)
             ELSE TimeInterval(n, 0, FALSE)

\* from_ms(), from_us() and from_ns() of n >= 0.
from_unit(n, perSecond) ==
    IF n \div perSecond > TIME_MAX THEN TimeInterval(TIME_MAX, BILLION - 1, FALSE)
    ELSE TimeInterval(n \div perSecond, (n % perSecond) * (BILLION \div perSecond), FALSE)

\* The constructor from a float of n nanoseconds.
init_float(n) ==
    TimeInterval(IF Abs(n) > (TIME_MAX \div 2 - 1) * BILLION THEN TIME_MAX
                 ELSE Abs(n) \div BILLION,
                 Abs(n) % BILLION, n < 0)

\* The constructor from an integral number of seconds.
init_int(n) == TimeInterval(Abs(n), 0, n < 0)

isNormal(i) == i.tv_sec >= 0 /\ i.tv_nsec \in 0 .. BILLION - 1

isNull(i) == i.tv_sec = 0 /\ i.tv_nsec = 0

isInfinite(i) == i.tv_sec > TIME_MAX \div 2

hasPassed(i) == i.m_negative \/ isNull(i)

isAbsBiggerThan(i, j) ==
    \/ i.tv_sec > j.tv_sec
    \/ i.tv_sec = j.tv_sec /\ i.tv_nsec > j.tv_nsec

isBiggerThan(i, j) ==
    \/ ~i.m_negative /\ j.m_negative
    \/ ~i.m_negative /\ ~j.m_negative /\ isAbsBiggerThan(i, j)
    \/ i.m_negative /\ j.m_negative /\ isAbsBiggerThan(j, i)

Less(i, j) == ~(i = j \/ isBiggerThan(i, j))

\* Mutant of Borrow: the second is not taken.
Borrow_Not(i) == IF i.tv_nsec < 0 THEN [i EXCEPT !.tv_nsec = @ + BILLION] ELSE i

\* A negative number of nanoseconds is taken from the seconds.
Borrow(i) == IF i.tv_nsec < 0 THEN [i EXCEPT !.tv_nsec = @ + BILLION, !.tv_sec = @ - 1] ELSE i

add(i, t) ==
    IF i.m_negative = t.m_negative
    THEN IF isInfinite(i) \/ isInfinite(t) \/ TIME_MAX - i.tv_sec - 1 <= t.tv_sec
         THEN [i EXCEPT !.tv_sec = TIME_MAX]
         ELSE LET ns == i.tv_nsec + t.tv_nsec
                  carry == ns > BILLION
              IN  [i EXCEPT !.tv_sec = @ + t.tv_sec + IF carry THEN 1 ELSE 0,
                            !.tv_nsec = IF carry THEN ns - BILLION ELSE ns]
    ELSE IF isAbsBiggerThan(t, i)
         THEN Borrow(TimeInterval(t.tv_sec - i.tv_sec, t.tv_nsec - i.tv_nsec, ~i.m_negative))
         ELSE Borrow([i EXCEPT !.tv_sec = @ - t.tv_sec, !.tv_nsec = @ - t.tv_nsec])

neg(i) == [i EXCEPT !.m_negative = ~@]

sub(i, t) == add(i, neg(t))

\* s() in nanoseconds, and as an integral number of seconds.
s_float(i) == (IF i.m_negative THEN -1 ELSE 1) * (i.tv_sec * BILLION + i.tv_nsec)

s_int(i) == (IF i.m_negative THEN -1 ELSE 1) * i.tv_sec

\* Multiplication by a float and by an integer; the latter looks at the seconds only.
mul(i, x) == init_float(s_float(i) * x)

mul_int(i, x) == init_int(s_int(i) * x)

div(i, x) == init_float(Quotient(s_float(i), x))

div_int(i, x) == init_int(Quotient(s_int(i), x))

-----------------------------------------------------------------------------
(* Timestamp *)

isBefore(t, u) == t.tv_sec < u.tv_sec \/ (t.tv_sec = u.tv_sec /\ t.tv_nsec < u.tv_nsec)

AsInterval(t) == TimeInterval(t.tv_sec, t.tv_nsec, FALSE)

timeTo(t, u) == sub(AsInterval(u), AsInterval(t))

\* passed() of t, when it is called at u.
passed(t, u) ==
    Borrow(TimeInterval(u.tv_sec - t.tv_sec, u.tv_nsec - t.tv_nsec, FALSE))

\* The result of operator+; it asserts that it is positive.
stampAdd(t, dt) == add(AsInterval(t), dt)

\* The nanoseconds that clock_nanosleep() sleeps until request, when it is called
\* at t: on Windows, and on a Mac, where usleep() takes microseconds.
sleepWindows(t, request) ==
    IF isBefore(request, t) THEN 0
    ELSE LET d == Borrow(TimeInterval(request.tv_sec - t.tv_sec,
                                      request.tv_nsec - t.tv_nsec, FALSE))
         IN  d.tv_sec * BILLION + d.tv_nsec

sleepMac(t, request) ==
    LET sec == request.tv_sec - t.tv_sec
        us == sec * MILLION
              + Quotient(request.tv_nsec - t.tv_nsec, BILLION \div MILLION)
    IN  IF sec < 0 \/ (sec = 0 /\ request.tv_nsec <= t.tv_nsec) THEN 0
        ELSE us * (BILLION \div MILLION)

-----------------------------------------------------------------------------

Made ==
    {infinity, null} \cup
    UNION {{from_s(n), init_float(n), init_float(-n),
            from_unit(n, THOUSAND), from_unit(n, MILLION), from_unit(n, BILLION)} : n \in Counts}
    \cup {init_int(n) : n \in {m \in Counts \cup {-c : c \in Counts} : Abs(m) <= TIME_MAX}}

Stamps == {Timestamp(i.tv_sec, i.tv_nsec) : i \in {j \in Made : ~j.m_negative}}

TimeInit == ti = null /\ ts \in {t \in Stamps : t.tv_sec > 0 /\ ~isInfinite(t)}

Make(i) == ti' = i /\ UNCHANGED ts

Add(i) == ti' = add(ti, i) /\ UNCHANGED ts

Sub(i) == ti' = sub(ti, i) /\ UNCHANGED ts

\* An integral product has to fit.
Scale(x) ==
    /\ \/ ti' \in {mul(ti, x), div(ti, x), div_int(ti, x)}
       \/ Abs(s_int(ti) * x) <= TIME_MAX /\ ti' = mul_int(ti, x)
    /\ UNCHANGED ts

StampAdd ==
    LET t == stampAdd(ts, ti)
    IN  /\ ~t.m_negative
        /\ ts' = Timestamp(t.tv_sec, t.tv_nsec) /\ UNCHANGED ti

StampDiff(u) ==
    /\ ti' \in {timeTo(ts, u), timeTo(u, ts)} \cup (IF isBefore(u, ts) THEN {} ELSE {passed(ts, u)})
    /\ UNCHANGED ts

TimeNext ==
    \/ \E i \in Made : Make(i) \/ Add(i) \/ Sub(i)
    \/ \E x \in Factors : Scale(x)
    \/ StampAdd
    \/ \E u \in Stamps : StampDiff(u)

-----------------------------------------------------------------------------
(* Properties *)

\* The exact result v, in nanoseconds, is i; or it is out of range and i is
\* infinite with the right sign.
Exact(i, v) ==
    IF isInfinite(i) THEN Abs(v) >= (TIME_MAX \div 2) * BILLION /\ (i.m_negative <=> v < 0)
    ELSE s_float(i) = v

\* After any sequence of operations, the sum and difference of intervals and of
\* timestamps are those of the integers, or saturate at infinity; what is past
\* and what is larger is decided accordingly (TimeInterval::add(), sub(),
\* isBiggerThan(), Timestamp::timeTo(), passed(), clock_nanosleep()).
TimeIsExact ==
    /\ \A i \in Made : ~isInfinite(i) /\ ~isInfinite(ti) =>
          /\ Exact(add(ti, i), s_float(ti) + s_float(i))
          /\ Exact(sub(ti, i), s_float(ti) - s_float(i))
          /\ s_float(ti) > s_float(i) => isBiggerThan(ti, i)
          /\ s_float(ti) < s_float(i) => Less(ti, i)
          /\ hasPassed(ti) <=> s_float(ti) <= 0
    /\ LET v(t) == t.tv_sec * BILLION + t.tv_nsec
       IN  \A u \in Stamps : ~isInfinite(u) /\ ~isInfinite(ts) =>
             /\ Exact(timeTo(ts, u), v(u) - v(ts))
             /\ isBefore(ts, u) => Exact(passed(ts, u), v(u) - v(ts))
             /\ v(ts) < v(u) => isBefore(ts, u)
             /\ v(ts) <= v(u) => sleepWindows(ts, u) = v(u) - v(ts)
             /\ v(ts) <= v(u) => Abs(sleepMac(ts, u) - (v(u) - v(ts))) < BILLION \div MILLION
=============================================================================
