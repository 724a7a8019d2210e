----------------------------- MODULE Win32Clock -----------------------------
(***************************************************************************)
(* newudpl-1.5/gettimeofday.c: the clock of the Windows build, made of the *)
(* coarse ftime and the performance counter.  Its `initialized' is never   *)
(* set, so every call starts from ftime anew.                              *)
(***************************************************************************)
EXTENDS Integers

CONSTANTS tick,           \* ticks per second of the performance counter
          UsecPerSec,     \* microseconds in a second
          Granule,        \* microseconds between two times that ftime tells
          Waits,          \* ticks that pass between two steps
          MaxCount        \* bound

ASSUME ClockAssumption ==
  /\ tick \in Nat \ {0} /\ Granule \in Nat \ {0} /\ UsecPerSec \in Nat \ {0}
  /\ Waits \subseteq Nat /\ MaxCount \in Nat

VARIABLES counter,          \* the performance counter, the true time
          stv, sct,         \* what the last call started from
          reading, called,  \* its result, and when it was called
          step

clockVars == <<counter, stv, sct, reading, called, step>>

Zero == [tv_sec |-> 0, tv_usec |-> 0]
ClockInit ==
  /\ counter = 0 /\ stv = Zero /\ sct = 0 /\ reading = Zero /\ called = 0
  /\ step = "idle"

\* The time of a count, in whole microseconds.
TrueTime(c) == (c \div tick) * UsecPerSec + ((c % tick) * UsecPerSec) \div tick

TimePasses(ticks) ==
  /\ counter + ticks <= MaxCount
  /\ counter' = counter + ticks
  /\ UNCHANGED <<stv, sct, reading, called, step>>

ftime ==
  /\ step = "idle"
  /\ LET t == (TrueTime(counter) \div Granule) * Granule
     IN  stv' = [tv_sec |-> t \div UsecPerSec, tv_usec |-> t % UsecPerSec]
  /\ called' = counter
  /\ step' = "startCount"
  /\ UNCHANGED <<counter, sct, reading>>

StartCount ==
  /\ step = "startCount"
  /\ sct' = counter
  /\ step' = "count"
  /\ UNCHANGED <<counter, stv, reading, called>>

\* Mutant: no carry.
Elapsed(c) ==
  [tv_sec  |-> stv.tv_sec + (c - sct) \div tick,
   tv_usec |-> stv.tv_usec + (((c - sct) % tick) * UsecPerSec) \div tick]

\* stv and the time since sct.
SinceStart(c) ==
  LET sec  == stv.tv_sec + (c - sct) \div tick
      usec == stv.tv_usec + (((c - sct) % tick) * UsecPerSec) \div tick
  IN  IF usec >= UsecPerSec THEN [tv_sec |-> sec + 1, tv_usec |-> usec - UsecPerSec]
      ELSE [tv_sec |-> sec, tv_usec |-> usec]

gettimeofday ==
  /\ step = "count"
  /\ reading' = SinceStart(counter)
  /\ step' = "idle"
  /\ UNCHANGED <<counter, stv, sct, called>>

ClockNext ==
  \/ \E ticks \in Waits : TimePasses(ticks)
  \/ ftime \/ StartCount \/ gettimeofday

-----------------------------------------------------------------------------
(* Properties *)

\* What calcDepTime and timer_check (multimer.c:98) need of the clock: proper
\* microseconds, carried once, and a time that is less than ftime's granule
\* before the call and not after its return, although it is put together from
\* three readings of two clocks (gettimeofday.c:28, 35, 45).
ReadingIsTrue ==
  step = "idle" =>
    LET t == reading.tv_sec * UsecPerSec + reading.tv_usec
    IN  /\ reading.tv_usec \in 0..UsecPerSec - 1
        /\ TrueTime(called) - Granule < t /\ t <= TrueTime(counter)
=============================================================================
