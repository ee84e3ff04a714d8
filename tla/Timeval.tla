-------------------------------- MODULE Timeval --------------------------------
(***************************************************************************)
(* struct timeval as the filters use it: timeval_increment and timeval_copy *)
(* (src/misc.c:64-79) and the macros timercmp and timersub of sys/time.h    *)
(* (the fallbacks are in wincompat.h).                                      *)
(***************************************************************************)
EXTENDS Integers

CONSTANT USEC       \* microseconds in a second: 1000000

ASSUME SecondAssumption == USEC \in Nat \ {0}

Timeval == [tv_sec : Nat, tv_usec : 0..(USEC - 1)]

Micros(tv) == tv.tv_sec * USEC + tv.tv_usec

\* timeval_increment(tv, us): callers pass no negative number of microseconds,
\* so C's / and % are \div and %
timeval_increment(tv, us) ==
    LET usec == tv.tv_usec + (us % USEC) IN
    [tv_sec  |-> tv.tv_sec + (us \div USEC) + (usec \div USEC),
     tv_usec |-> usec % USEC]

\* timercmp(a, b, >)
TimerGreater(a, b) ==
    IF a.tv_sec = b.tv_sec THEN a.tv_usec > b.tv_usec ELSE a.tv_sec > b.tv_sec

\* timersub(a, b, res)
timersub(a, b) ==
    IF a.tv_usec < b.tv_usec
    THEN [tv_sec  |-> a.tv_sec - b.tv_sec - 1,
          tv_usec |-> a.tv_usec - b.tv_usec + USEC]
    ELSE [tv_sec  |-> a.tv_sec - b.tv_sec,
          tv_usec |-> a.tv_usec - b.tv_usec]

================================================================================
