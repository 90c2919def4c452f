--------------------------- MODULE DispatchTimeout ---------------------------
(***************************************************************************)
(* libwayland, event-loop.c: the timeout of wl_event_loop_dispatch(), whose *)
(* epoll_wait() signals interrupt.  A time is a pair of seconds and          *)
(* nanoseconds; epoll_wait() counts milliseconds and may return late.       *)
(***************************************************************************)
EXTENDS Integers

CONSTANTS
  MsPerSec, NsPerMs,   \* 1000 and 1000000
  Timeouts,            \* in milliseconds; -1 is for ever
  MaxSec, Interrupts   \* bounds: of the clock, and of the signals that come

DispatchTimeoutAssumption == MsPerSec \in Nat \ {0} /\ NsPerMs \in Nat \ {0} /\ -1 \in Timeouts

NsPerSec == MsPerSec * NsPerMs

VARIABLES
  clock,      \* CLOCK_MONOTONIC
  begin,      \* the clock when dispatch was called
  asked,      \* its timeout
  end,        \* the time to return at
  timeout,    \* of the next epoll_wait()
  signals,    \* that have interrupted it
  pc

vars == <<clock, begin, asked, end, timeout, signals, pc>>

Time(sec, nsec) == [sec |-> sec, nsec |-> nsec]
Nanoseconds(t) == t.sec * NsPerSec + t.nsec

Init ==
  /\ \E n \in 0..(NsPerSec - 1) : clock = Time(0, n)
  /\ begin = clock /\ end = clock
  /\ asked = -1 /\ timeout = -1 /\ signals = 0
  /\ pc = "out"

timespec_normalize(t) ==
  CHOOSE r \in {Time(t.sec + k, t.nsec - k * NsPerSec) : k \in -2..2} : r.nsec \in 0..(NsPerSec - 1)

timespec_add(a, b) == timespec_normalize(Time(a.sec + b.sec, a.nsec + b.nsec))
timespec_sub(a, b) == timespec_normalize(Time(a.sec - b.sec, a.nsec - b.nsec))

\* Mutant: rounded up.
RoundedUp(t) == t.sec * MsPerSec + ((t.nsec + NsPerMs - 1) \div NsPerMs)

\* The division of a C compiler, towards zero
timespec_to_ms(t) ==
  (t.sec * MsPerSec) + (IF t.nsec >= 0 THEN t.nsec \div NsPerMs ELSE -((-t.nsec) \div NsPerMs))

ms_to_timespec(ms) == Time(ms \div MsPerSec, (ms % MsPerSec) * NsPerMs)

use_timeout == asked > 0

\* The time goes on by n.
Passes(n) ==
  /\ clock' = timespec_add(clock, Time(0, n))
  /\ clock'.sec < MaxSec

Begin(t) ==
  /\ pc = "out" /\ pc' = "wait"
  /\ asked' = t /\ timeout' = t
  /\ begin' = clock /\ signals' = 0
  /\ end' = IF t > 0 THEN timespec_add(clock, ms_to_timespec(t)) ELSE clock
  /\ UNCHANGED clock

\* epoll_wait() returns with events, or with none at its timeout.
Returns ==
  /\ pc = "wait" /\ pc' = "out"
  /\ \E n \in 0..(2 * NsPerSec) : (timeout = -1 \/ n <= timeout * NsPerMs) /\ Passes(n)
  /\ UNCHANGED <<begin, asked, end, timeout, signals>>

\* Mutant: a part of a second does not count.
SecondsLeft(now) == timespec_sub(end, now).sec * MsPerSec

Left(now) == timespec_to_ms(timespec_sub(end, now))

\* EINTR, while waiting or, before the signal is handled, later.
Interrupted ==
  /\ pc = "wait" /\ signals < Interrupts /\ signals' = signals + 1
  /\ \E n \in 0..NsPerSec : Passes(n)
  /\ timeout' = IF use_timeout THEN Left(clock') ELSE timeout
  /\ pc' = IF use_timeout /\ timeout' <= 0 THEN "too late" ELSE "wait"
  /\ UNCHANGED <<begin, asked, end>>

TooLate == pc = "too late" /\ pc' = "out" /\ UNCHANGED <<clock, begin, asked, end, timeout, signals>>

Next == (\E t \in Timeouts : Begin(t)) \/ Returns \/ Interrupted \/ TooLate

Spec == Init /\ [][Next]_vars
------------------------------------------------------------------------------
TypeOK ==
  /\ clock.nsec \in 0..(NsPerSec - 1) /\ end.nsec \in 0..(NsPerSec - 1)
  /\ pc = "wait" => timeout >= -1 /\ (timeout = -1 <=> asked = -1)

\* Interrupted or not, epoll_wait() is never asked to wait past the end, which is the
\* timeout away from the call.
NeverPastEnd ==
  pc = "wait" /\ use_timeout =>
    /\ Nanoseconds(end) = Nanoseconds(begin) + asked * NsPerMs
    /\ Nanoseconds(clock) + timeout * NsPerMs <= Nanoseconds(end)

\* The loop gives up only when less than a millisecond is left: the unit that
\* epoll_wait() counts in.
NeverGivesUpEarly == pc = "too late" => Nanoseconds(clock) + NsPerMs > Nanoseconds(end)
==============================================================================
