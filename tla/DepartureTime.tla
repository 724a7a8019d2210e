--------------------------- MODULE DepartureTime ----------------------------
(***************************************************************************)
(* calcDepTime (newudpl.c) over timevals (akiralib.c) and 32-bit words, in *)
(* versions 1.4 and 1.5, which differ in when microseconds are carried,    *)
(* and the assertions of timer_check on its results.                       *)
(***************************************************************************)
EXTENDS Integers

CONSTANTS Second, Word,       \* 1000000; 2^32
          LinkOptions,        \* options: version, speed, ether, delay, calcMode
          Loads, Pauses,      \* sizes of packets and times between them
          MaxLoads            \* bound

ASSUME DepartureAssumption ==
  /\ Second \in Nat \ {0} /\ Word \in Nat \ {0} /\ MaxLoads \in Nat
  /\ Loads \subseteq Nat /\ Pauses \subseteq Nat

Timeval(sec, usec) == [tv_sec |-> sec, tv_usec |-> usec]
Timevals == [tv_sec : Nat, tv_usec : 0..Second - 1]

\* A second is whole milliseconds.
ASSUME SecondAssumption == Second > 1000 /\ Second % 1000 = 0

\* The product that calcDepTime divides by is not 0 modulo Word; an Ethernet
\* has at least 1 Mb/s.
ASSUME LinkOptionsAssumption ==
  \A o \in LinkOptions :
    /\ o \in [version : {"1.4", "1.5"}, speed : Nat \ {0}, ether : Nat \ {0},
              delay : Timevals, calcMode : {0, 1}]
    /\ o.ether >= 1000 /\ (o.ether * o.speed) % Word # 0

VARIABLES linkOptions, arrival,    \* the options; the last packet's arrival
          intervled, dept,         \* g_stat.prvIntervled_tv; its departure
          loads, aborted

linkVars == <<linkOptions, arrival, intervled, dept, loads, aborted>>

LinkInit ==
  /\ linkOptions = <<>> /\ loads = 0 /\ aborted = FALSE
  /\ arrival = Timeval(0, 0) /\ intervled = Timeval(0, 0) /\ dept = Timeval(0, 0)

addTimeval14(a, b) ==
  LET usec == a.tv_usec + b.tv_usec
  IN  IF usec > Second THEN Timeval(a.tv_sec + b.tv_sec + 1, usec - Second)
      ELSE Timeval(a.tv_sec + b.tv_sec, usec)

addTimeval(a, b) ==
  LET usec == a.tv_usec + b.tv_usec
  IN  IF usec >= Second THEN Timeval(a.tv_sec + b.tv_sec + 1, usec - Second)
      ELSE Timeval(a.tv_sec + b.tv_sec, usec)

\* Mutant: seconds decide, and a tie goes to the second.
maxSeconds(a, b) == IF a.tv_sec > b.tv_sec THEN a ELSE b

maxTimeval(a, b) ==
  IF a.tv_sec > b.tv_sec \/ (a.tv_sec = b.tv_sec /\ a.tv_usec > b.tv_usec) THEN a ELSE b

\* How long the link is busy with a packet.
intervl(o, bytes) ==
  LET usec == (8000 * bytes) \div o.speed
  IN  IF usec > Second \/ (o.version = "1.5" /\ usec = Second)
      THEN Timeval(usec \div Second, usec % Second) ELSE Timeval(0, usec)

\* The transmission delay in microseconds, computed modulo Word.
trans_d(o, bytes) ==
  LET bits == (bytes * 8 * (o.ether - o.speed)) % Word
  IN  IF o.ether <= o.speed THEN 0
      ELSE IF bits < Word \div 1000
      THEN (bits * 1000) \div ((o.ether * o.speed) % Word)
      ELSE (((bits \div o.ether) * 1000) % Word) \div o.speed

\* A second or more keeps its whole seconds only.
trans(o, bytes) ==
  LET d == trans_d(o, bytes)
  IN  IF d > Second \/ (o.version = "1.5" /\ d = Second)
      THEN Timeval(d \div Second, 0) ELSE Timeval(0, d)

\* What one call of calcDepTime makes of the packet that came at now.
calcDepTime14(o, bytes, now) ==
  [dept  |-> addTimeval14(maxTimeval(intervled, addTimeval14(now, o.delay)), trans(o, bytes)),
   intervled |-> addTimeval14(IF o.calcMode = 1 THEN now ELSE intervled, intervl(o, bytes))]

calcDepTime(o, bytes, now) ==
  [dept  |-> addTimeval(maxTimeval(intervled, addTimeval(now, o.delay)), trans(o, bytes)),
   intervled |-> addTimeval(IF o.calcMode = 1 THEN now ELSE intervled, intervl(o, bytes))]

ChooseLink(o) ==
  /\ linkOptions = <<>>
  /\ linkOptions' = o
  /\ UNCHANGED <<arrival, intervled, dept, loads, aborted>>

\* A packet comes, and its timer is set: timer_check asserts that its time is
\* a proper one.
Depart(bytes, pause) ==
  LET now == Timeval(arrival.tv_sec + (arrival.tv_usec + pause) \div Second,
                     (arrival.tv_usec + pause) % Second)
      times == IF linkOptions.version = "1.4" THEN calcDepTime14(linkOptions, bytes, now)
               ELSE calcDepTime(linkOptions, bytes, now)
  IN  /\ linkOptions # <<>> /\ ~aborted /\ loads < MaxLoads
      /\ arrival' = now /\ dept' = times.dept /\ intervled' = times.intervled
      /\ aborted' = (times.dept.tv_usec >= Second)
      /\ loads' = loads + 1
      /\ UNCHANGED linkOptions

LinkNext ==
  \/ \E o \in LinkOptions : ChooseLink(o)
  \/ \E bytes \in Loads, pause \in Pauses : Depart(bytes, pause)

-----------------------------------------------------------------------------
(* Properties *)

\* The assertions of timer_check and timer_set (multimer.c:98) hold of every
\* time that 1.5 computes, also where its parts add up to a whole second;
\* those of 1.4 fail there.
AssertionsHold == linkOptions # <<>> /\ linkOptions.version = "1.5" => ~aborted

Microseconds(t) == t.tv_sec * Second + t.tv_usec

\* Carries, comparisons and the two ways to divide in 32 bits amount to the
\* sums and the maximum of whole microseconds (newudpl.c:655, 688, 706).
Abstract == INSTANCE Link
              WITH link <- IF linkOptions = <<>> THEN linkOptions
                           ELSE [linkOptions EXCEPT !.delay = Microseconds(@)],
                   now <- Microseconds(arrival), free <- Microseconds(intervled),
                   dept <- Microseconds(dept)
LinkSpec == Abstract!Spec
=============================================================================
