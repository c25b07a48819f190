------------------------------- MODULE WallClock -------------------------------
(***************************************************************************)
(* The wall clock: gettimeofday() computes the time from the ticks since   *)
(* reset and an offset that settimeofday() keeps.  Both refuse as long as  *)
(* no timer has given the system clock a rate.                             *)
(***************************************************************************)
EXTENDS Integers

CONSTANTS
    W,           \* the number of values of alt_u32
    ALT_US,      \* microseconds in a second
    RATE,        \* the rate of the system timer, ticks in a second
    MaxSec       \* bound: the latest second that is set

VARIABLES
    running,              \* _alt_tick_rate is RATE and no longer 0
    nticks,               \* _alt_nticks, up to its wrap
    reset_sec, reset_usec,\* alt_resettime
    errno,
    wall,                 \* history: the microseconds that have passed since 0
    exact                 \* history: the clock has not been set after the
                          \* product of settimeofday() passed its word

vars == <<running, nticks, reset_sec, reset_usec, errno, wall, exact>>

PerTick == ALT_US \div RATE

Init == /\ running = FALSE /\ nticks = 0
        /\ reset_sec = 0 /\ reset_usec = 0 /\ errno = "none"
        /\ wall = 0 /\ exact = TRUE

\* The timer driver starts its timer behind this.
SysclkInit == /\ ~running
              /\ running' = TRUE
              /\ UNCHANGED <<nticks, reset_sec, reset_usec, errno, wall, exact>>

Tick == /\ running
        /\ nticks < W - 1
        /\ nticks' = nticks + 1
        /\ wall' = wall + PerTick
        /\ UNCHANGED <<running, reset_sec, reset_usec, errno, exact>>

\* The product has 32 bits here, and 64 in gettimeofday().
NoFraction(n)   == 0                                                \* mutant
TickFraction(n) == ((n * PerTick) % W) % ALT_US

Settimeofday(sec, usec) ==
    /\ running
    /\ reset_sec' = sec - (nticks \div RATE)
    /\ reset_usec' = usec - TickFraction(nticks)
    /\ wall' = sec * ALT_US + usec
    /\ exact' = (nticks * PerTick < W)
    /\ UNCHANGED <<running, nticks, errno>>

NoSystemClock ==
    /\ ~running
    /\ errno' = "ENOSYS"
    /\ UNCHANGED <<running, nticks, reset_sec, reset_usec, wall, exact>>

Next == \/ SysclkInit \/ Tick \/ NoSystemClock
        \/ \E sec \in 0..MaxSec, usec \in 0..(ALT_US - 1) : Settimeofday(sec, usec)

Spec == Init /\ [][Next]_vars

\* What the loops of gettimeofday() make of a count outside a second; the first
\* one ends at zero rather than before it.
Carry(t) == [sec |-> t.sec + (t.usec \div ALT_US), usec |-> t.usec % ALT_US]

Normalized(t) == IF t.usec < 0 /\ Carry(t).sec < 0 THEN [sec |-> 0, usec |-> 0]
                 ELSE Carry(t)

\* Of a running clock; it is an error without one.
Gettimeofday == Normalized([sec  |-> reset_sec + (nticks \div RATE),
                            usec |-> reset_usec + ((nticks * PerTick) % ALT_US)])

-----------------------------------------------------------------------------

\* What is read is what was set plus the time since: to the microsecond, so that
\* an immediate call returns what was set, if the clock was set before the 32-bit
\* product of settimeofday() overflowed, and within a second otherwise.  A call
\* that was refused has left nothing behind.
GetIsWall ==
    running =>
      LET t    == Gettimeofday
          late == t.sec * ALT_US + t.usec - wall
      IN  /\ t.sec >= 0 /\ t.usec \in 0..(ALT_US - 1)
          /\ late \in (1 - ALT_US)..(ALT_US - 1)
          /\ exact => late = 0
=============================================================================
