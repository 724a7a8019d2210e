---------------------------- MODULE PartsProofs -----------------------------
(***************************************************************************)
(* Proofs about the parts of the emulator, each as a theorem of Parts: the *)
(* times of calcDepTime for every link, SIGINT around the end of main, the *)
(* Windows clock for every frequency of its counter, and the checksum for  *)
(* segments of any length and bytes of any width.                          *)
(***************************************************************************)
EXTENDS Parts, NumberTheorems

----------------------------------------------------------------------------
(* Timevals.                                                               *)

(* A timeval of 1.5 is made of whole seconds and less than a second.       *)
LEMMA TimevalInTimevals ==
  ASSUME NEW sec \in Nat, NEW usec \in 0..Second - 1
  PROVE  Timeval(sec, usec) \in Timevals
BY DEF Timeval, Timevals

(* addTimeval of 1.5 carries once, which is enough for two proper times.   *)
LEMMA AddTimevalProper ==
  ASSUME NEW a \in Timevals, NEW b \in Timevals
  PROVE  addTimeval(a, b) \in Timevals
<1>1. /\ a.tv_sec \in Nat /\ a.tv_usec \in 0..Second - 1
      /\ b.tv_sec \in Nat /\ b.tv_usec \in 0..Second - 1
      /\ Second \in Nat
  BY DepartureAssumption DEF Timevals
<1>2. CASE a.tv_usec + b.tv_usec >= Second
  <2>1. addTimeval(a, b) = Timeval(a.tv_sec + b.tv_sec + 1, a.tv_usec + b.tv_usec - Second)
    BY <1>1, <1>2 DEF addTimeval
  <2>2. /\ a.tv_sec + b.tv_sec + 1 \in Nat
        /\ a.tv_usec + b.tv_usec - Second \in 0..Second - 1
    BY <1>1, <1>2
  <2> QED BY <2>1, <2>2, TimevalInTimevals
<1>3. CASE ~(a.tv_usec + b.tv_usec >= Second)
  <2>1. addTimeval(a, b) = Timeval(a.tv_sec + b.tv_sec, a.tv_usec + b.tv_usec)
    BY <1>1, <1>3 DEF addTimeval
  <2>2. a.tv_sec + b.tv_sec \in Nat /\ a.tv_usec + b.tv_usec \in 0..Second - 1
    BY <1>1, <1>3
  <2> QED BY <2>1, <2>2, TimevalInTimevals
<1> QED BY <1>2, <1>3

(* maxTimeval returns one of its arguments.                                *)
LEMMA MaxTimevalProper ==
  ASSUME NEW a \in Timevals, NEW b \in Timevals
  PROVE  maxTimeval(a, b) \in Timevals
BY DEF maxTimeval

(* The two ways to split a number of microseconds in 1.5: with its         *)
(* remainder (intervl) or without (trans).                                 *)
LEMMA SplitProper ==
  ASSUME NEW n \in Nat, NEW keep \in {0, n % Second}
  PROVE  (IF n > Second \/ n = Second THEN Timeval(n \div Second, keep)
          ELSE Timeval(0, n)) \in Timevals
<1>1. /\ Second \in Nat \ {0} /\ n \div Second \in Nat /\ n % Second \in 0..Second - 1
      /\ 0 \in 0..Second - 1
  <2>1. Second \in Nat \ {0} /\ 0 \in 0..Second - 1
    BY DepartureAssumption
  <2>2. n \div Second \in Nat /\ n % Second \in 0..Second - 1
    BY <2>1, DivMod
  <2> QED BY <2>1, <2>2
<1>2. keep \in 0..Second - 1
  BY <1>1
<1>3. Timeval(n \div Second, keep) \in Timevals
  BY <1>1, <1>2, TimevalInTimevals
<1>4. ASSUME ~(n > Second \/ n = Second)
      PROVE  Timeval(0, n) \in Timevals
  <2>1. n \in 0..Second - 1
    BY <1>1, <1>4
  <2> QED BY <2>1, TimevalInTimevals
<1> QED BY <1>3, <1>4

(* The interval of a packet of any size on any link is a proper time.      *)
LEMMA IntervalProper ==
  ASSUME NEW o \in LinkOptions, o.version = "1.5", NEW bytes \in Loads
  PROVE  intervl(o, bytes) \in Timevals
<1> DEFINE usec == (8000 * bytes) \div o.speed
<1>1. bytes \in Nat /\ o.speed \in Nat \ {0}
  BY DepartureAssumption, LinkOptionsAssumption
<1>2. 8000 * bytes \in Nat
  BY <1>1
<1>3. usec \in Nat
  <2> DEFINE n == 8000 * bytes
  <2>1. n \in Nat
    BY <1>2
  <2> HIDE DEF n
  <2>2. n \div o.speed \in Nat
    BY <2>1, <1>1, DivMod
  <2> QED BY <2>2 DEF n
<1>4. intervl(o, bytes) =
        IF usec > Second \/ usec = Second THEN Timeval(usec \div Second, usec % Second)
        ELSE Timeval(0, usec)
  BY DEF intervl
<1> HIDE DEF usec
<1> QED BY <1>3, <1>4, SplitProper

(* Whatever overflows, the transmission delay is a natural number.         *)
LEMMA TransDelayNat ==
  ASSUME NEW o \in LinkOptions, NEW bytes \in Loads
  PROVE  trans_d(o, bytes) \in Nat
<1> DEFINE bits == (bytes * 8 * (o.ether - o.speed)) % Word
           product == (o.ether * o.speed) % Word
<1>1. /\ bytes \in Nat /\ Word \in Nat \ {0}
      /\ o.speed \in Nat \ {0} /\ o.ether \in Nat \ {0} /\ product # 0
  BY DepartureAssumption, LinkOptionsAssumption
<1>2. bytes * 8 * (o.ether - o.speed) \in Int /\ o.ether * o.speed \in Int
  BY <1>1
<1>3. bits \in Nat
  <2>1. bits \in 0..Word - 1
    BY <1>1, <1>2, ModOfInt
  <2> QED BY <2>1
<1>4. product \in Nat \ {0}
  <2>1. product \in 0..Word - 1
    BY <1>1, <1>2, ModOfInt
  <2> QED BY <2>1, <1>1
<1>5. trans_d(o, bytes) =
        IF o.ether <= o.speed THEN 0
        ELSE IF bits < Word \div 1000 THEN (bits * 1000) \div product
        ELSE (((bits \div o.ether) * 1000) % Word) \div o.speed
  BY DEF trans_d
<1> HIDE DEF bits, product
<1>6. (bits * 1000) \div product \in Nat
  <2> DEFINE n == bits * 1000
  <2>1. n \in Nat
    BY <1>3
  <2> HIDE DEF n
  <2>2. n \div product \in Nat
    BY <2>1, <1>4, DivMod
  <2> QED BY <2>2 DEF n
<1>7. (((bits \div o.ether) * 1000) % Word) \div o.speed \in Nat
  <2>1. bits \div o.ether \in Nat
    BY <1>1, <1>3, DivMod
  <2>2. (bits \div o.ether) * 1000 \in Nat
    BY <2>1
  <2>3. ((bits \div o.ether) * 1000) % Word \in 0..Word - 1
    <3> DEFINE m == (bits \div o.ether) * 1000
    <3>1. m \in Nat /\ Word \in Nat \ {0}
      BY <2>2, <1>1
    <3> HIDE DEF m
    <3>2. m % Word \in 0..Word - 1
      BY <3>1, DivMod
    <3> QED BY <3>2 DEF m
  <2> DEFINE n == ((bits \div o.ether) * 1000) % Word
  <2>4. n \in Nat
    BY <2>3
  <2> HIDE DEF n
  <2>5. n \div o.speed \in Nat
    BY <2>4, <1>1, DivMod
  <2> QED BY <2>5 DEF n
<1> QED BY <1>5, <1>6, <1>7

(* So is the time made of it, which drops microseconds above a second.     *)
LEMMA TransProper ==
  ASSUME NEW o \in LinkOptions, o.version = "1.5", NEW bytes \in Loads
  PROVE  trans(o, bytes) \in Timevals
<1>1. trans_d(o, bytes) \in Nat
  BY TransDelayNat
<1>2. trans(o, bytes) =
        IF trans_d(o, bytes) > Second \/ trans_d(o, bytes) = Second
        THEN Timeval(trans_d(o, bytes) \div Second, 0)
        ELSE Timeval(0, trans_d(o, bytes))
  BY DEF trans
<1> QED BY <1>1, <1>2, SplitProper

----------------------------------------------------------------------------
(* calcDepTime of 1.5 on every link.                                       *)

(* What makes AssertionsHold inductive: the times that calcDepTime starts  *)
(* from are as proper as the one it returns.                               *)
ProperTimes ==
  /\ linkOptions \in LinkOptions \cup {<<>>}
  /\ arrival \in Timevals
  /\ linkOptions = <<>> => aborted = FALSE /\ intervled \in Timevals
  /\ linkOptions # <<>> /\ linkOptions.version = "1.5" =>
       intervled \in Timevals /\ aborted = FALSE

(* The link's first state, before its options are read.                    *)
LEMMA ProperTimesInit == LinkInit => ProperTimes
<1>1. Timeval(0, 0) \in Timevals
  BY DepartureAssumption, TimevalInTimevals
<1> QED BY <1>1 DEF LinkInit, ProperTimes

(* One packet through calcDepTime of 1.5.                                  *)
LEMMA CalcDepTimeProper ==
  ASSUME NEW o \in LinkOptions, o.version = "1.5", NEW bytes \in Loads,
         NEW at \in Timevals, intervled \in Timevals
  PROVE  /\ calcDepTime(o, bytes, at).dept \in Timevals
         /\ calcDepTime(o, bytes, at).intervled \in Timevals
<1>1. /\ o.delay \in Timevals /\ intervl(o, bytes) \in Timevals
      /\ trans(o, bytes) \in Timevals
  BY LinkOptionsAssumption, IntervalProper, TransProper
<1>2. calcDepTime(o, bytes, at).dept =
        addTimeval(maxTimeval(intervled, addTimeval(at, o.delay)), trans(o, bytes))
  BY DEF calcDepTime
<1>3. calcDepTime(o, bytes, at).intervled =
        addTimeval(IF o.calcMode = 1 THEN at ELSE intervled, intervl(o, bytes))
  BY DEF calcDepTime
<1>4. maxTimeval(intervled, addTimeval(at, o.delay)) \in Timevals
  BY <1>1, AddTimevalProper, MaxTimevalProper
<1>5. (IF o.calcMode = 1 THEN at ELSE intervled) \in Timevals
  OBVIOUS
<1> QED BY <1>1, <1>2, <1>3, <1>4, <1>5, AddTimevalProper

(* The next packet's arrival.                                              *)
LEMMA PauseProper ==
  ASSUME NEW at \in Timevals, NEW pause \in Pauses
  PROVE  Timeval(at.tv_sec + (at.tv_usec + pause) \div Second,
                 (at.tv_usec + pause) % Second) \in Timevals
<1>1. /\ Second \in Nat \ {0} /\ pause \in Nat
      /\ at.tv_sec \in Nat /\ at.tv_usec \in 0..Second - 1
  BY DepartureAssumption DEF Timevals
<1>2. at.tv_usec + pause \in Nat
  BY <1>1
<1>3. /\ (at.tv_usec + pause) \div Second \in Nat
      /\ (at.tv_usec + pause) % Second \in 0..Second - 1
  BY <1>1, <1>2, DivMod
<1>4. at.tv_sec + (at.tv_usec + pause) \div Second \in Nat
  BY <1>1, <1>3
<1> QED BY <1>3, <1>4, TimevalInTimevals

(* A packet, or the choice of the link, keeps the times proper.            *)
LEMMA ProperTimesNext == ProperTimes /\ LinkNext => ProperTimes'
<1> SUFFICES ASSUME ProperTimes, LinkNext
             PROVE  ProperTimes'
  OBVIOUS
<1>1. ASSUME NEW o \in LinkOptions, ChooseLink(o)
      PROVE  ProperTimes'
  BY <1>1 DEF ChooseLink, ProperTimes
<1>2. ASSUME NEW bytes \in Loads, NEW pause \in Pauses, Depart(bytes, pause)
      PROVE  ProperTimes'
  <2> DEFINE at == Timeval(arrival.tv_sec + (arrival.tv_usec + pause) \div Second,
                           (arrival.tv_usec + pause) % Second)
  <2>1. at \in Timevals
    BY PauseProper DEF ProperTimes
  <2>2. /\ linkOptions \in LinkOptions /\ linkOptions' = linkOptions /\ linkOptions # <<>>
        /\ arrival' = at
    BY <1>2 DEF Depart, ProperTimes
  <2>3. ASSUME linkOptions.version = "1.5"
        PROVE  intervled' \in Timevals /\ aborted' = FALSE
    <3> DEFINE times == calcDepTime(linkOptions, bytes, at)
    <3>1. times.dept \in Timevals /\ times.intervled \in Timevals
      BY <2>1, <2>2, <2>3, CalcDepTimeProper DEF ProperTimes
    <3>2. intervled' = times.intervled /\ aborted' = (times.dept.tv_usec >= Second)
      BY <1>2, <2>3 DEF Depart
    <3> HIDE DEF times
    <3>3. (times.dept.tv_usec >= Second) = FALSE
      <4>1. ~(times.dept.tv_usec >= Second)
        BY <3>1, DepartureAssumption DEF Timevals
      <4> QED BY <4>1
    <3>4. intervled' \in Timevals
      BY <3>1, <3>2
    <3>5. aborted' = FALSE
      BY <3>2, <3>3, Zenon
    <3> QED BY <3>4, <3>5
  <2> HIDE DEF at
  <2> QED BY <2>1, <2>2, <2>3 DEF ProperTimes
<1> QED BY <1>1, <1>2 DEF LinkNext

(* Whatever the link, the packets and the pauses between them, timer_check *)
(* (multimer.c:98) accepts every time that calcDepTime of 1.5 computes.    *)
THEOREM ProperDepartures == Spec => []AssertionsHold
<1>1. Init => ProperTimes
  BY ProperTimesInit DEF Init
<1>2. ProperTimes /\ [Next]_partsVars => ProperTimes'
  <2>1. ASSUME ProperTimes, UNCHANGED linkVars
        PROVE  ProperTimes'
    BY <2>1 DEF linkVars, ProperTimes
  <2> QED BY <2>1, ProperTimesNext DEF Next, OthersStay, partsVars
<1>3. ProperTimes => AssertionsHold
  BY DEF ProperTimes, AssertionsHold
<1> QED BY <1>1, <1>2, <1>3, PTL DEF Spec

----------------------------------------------------------------------------
(* The transmission delay, by its numbers alone.                           *)

(* A packet's time on a slow link and on a fast one, each rounded down,    *)
(* differ by what they differ, give or take less than one.                 *)
LEMMA DifferenceOfQuotients ==
  ASSUME NEW n \in Nat, NEW s \in Nat \ {0}, NEW e \in Nat \ {0}
  PROVE  LET exact == n \div s - n \div e
         IN  /\ exact \in Int
             /\ (exact - 1) * (e * s) < n * (e - s)
             /\ n * (e - s) < (exact + 1) * (e * s)
<1> DEFINE p == n \div s
           q == n \div e
           m == e * s
<1>1. p \in Nat /\ p * s <= n /\ n < (p + 1) * s
  BY QuotientBounds
<1>2. q \in Nat /\ q * e <= n /\ n < (q + 1) * e
  BY QuotientBounds
<1> HIDE DEF p, q
<1>3. m \in Nat
  OBVIOUS
<1>4. /\ (p * s) * e = p * m /\ ((p + 1) * s) * e = p * m + m
      /\ (q * e) * s = q * m /\ ((q + 1) * e) * s = q * m + m
      /\ p * m \in Int /\ q * m \in Int
  BY <1>1, <1>2
<1>5. p * m <= n * e /\ n * e < p * m + m /\ n * e \in Int
  <2>1. p * s \in Int /\ (p + 1) * s \in Int
    BY <1>1
  <2>2. (p * s) * e <= n * e /\ n * e \in Int
    BY <1>1, <2>1, MultiplyWeak
  <2>3. n * e < ((p + 1) * s) * e
    BY <1>1, <2>1, MultiplyStrict
  <2> HIDE DEF m
  <2> QED BY <1>4, <2>2, <2>3
<1>6. q * m <= n * s /\ n * s < q * m + m /\ n * s \in Int
  <2>1. q * e \in Int /\ (q + 1) * e \in Int
    BY <1>2
  <2>2. (q * e) * s <= n * s /\ n * s \in Int
    BY <1>2, <2>1, MultiplyWeak
  <2>3. n * s < ((q + 1) * e) * s
    BY <1>2, <2>1, MultiplyStrict
  <2> HIDE DEF m
  <2> QED BY <1>4, <2>2, <2>3
<1>7. n * (e - s) = n * e - n * s
  OBVIOUS
<1> HIDE DEF m
<1>8. /\ (p - q - 1) * m = p * m - q * m - m
      /\ (p - q + 1) * m = p * m - q * m + m
  BY <1>1, <1>2, <1>3
<1>9. /\ p - q \in Int
      /\ (p - q - 1) * m < n * (e - s) /\ n * (e - s) < (p - q + 1) * m
  BY <1>1, <1>2, <1>3, <1>4, <1>5, <1>6, <1>7, <1>8
<1> QED BY <1>9 DEF p, q, m

(* How far a delay d may be from the exact one.  It is late by at most     *)
(* 2 + 1000 / s, and below no multiple of 1000 that the exact one exceeds. *)
CloseTo(exact, d, s) ==
  /\ exact \in Int /\ d \in Nat
  /\ d <= exact /\ exact <= d + 2 + 1000 \div s
  /\ \A z \in Nat : d < z * 1000 => exact <= z * 1000

(* The exact delay of b bits, in microseconds, and the two ways to compute *)
(* it, without what is lost to Word.                                       *)
ExactDelay(b, s, e) == (1000 * b) \div s - (1000 * b) \div e
AtOnce(b, s, e)     == ((b * (e - s)) * 1000) \div (e * s)
InTwoSteps(b, s, e) == (((b * (e - s)) \div e) * 1000) \div s

(* The fraction at once: what it cuts off is less than one.                *)
LEMMA DelayAtOnce ==
  ASSUME NEW b \in Nat, NEW s \in Nat \ {0}, NEW e \in Nat \ {0}, s < e
  PROVE  CloseTo(ExactDelay(b, s, e), AtOnce(b, s, e), s)
<1> DEFINE n == 1000 * b
           exact == n \div s - n \div e
           m == e * s
           x == n * (e - s)
           d == x \div m
<1>0. n \in Nat /\ x = (b * (e - s)) * 1000
  OBVIOUS
<1>1. exact \in Int /\ (exact - 1) * m < x /\ x < (exact + 1) * m
  <2>1. n \in Nat
    BY <1>0
  <2> HIDE DEF n
  <2> QED BY <2>1, DifferenceOfQuotients
<1>2. m \in Nat \ {0} /\ x \in Nat
  OBVIOUS
<1> HIDE DEF exact, m, x
<1>3. d \in Nat /\ d * m <= x /\ x < (d + 1) * m
  BY <1>2, QuotientBounds
<1> HIDE DEF d
<1>4. exact - 1 \in Int /\ exact + 1 \in Int /\ d + 1 \in Int
      /\ (exact - 1) * m \in Int /\ (exact + 1) * m \in Int
      /\ d * m \in Int /\ (d + 1) * m \in Int
  BY <1>1, <1>2, <1>3
<1>5. d < exact + 1
  <2>1. d * m < (exact + 1) * m
    BY <1>1, <1>2, <1>3, <1>4
  <2> QED BY <1>2, <1>3, <1>4, <2>1, CancelFactor
<1>6. exact - 1 < d + 1
  <2>1. (exact - 1) * m < (d + 1) * m
    BY <1>1, <1>2, <1>3, <1>4
  <2> QED BY <1>2, <1>4, <2>1, CancelFactor
<1>7. exact \in Int /\ d \in Nat /\ d \in exact - 1 .. exact
  BY <1>1, <1>3, <1>5, <1>6
<1>8. 1000 \div s \in Nat
  OBVIOUS
<1>9. exact <= d + 2 + 1000 \div s
  <2> DEFINE c == 1000 \div s
  <2>1. c \in Nat
    BY <1>8
  <2> HIDE DEF c
  <2>2. exact <= d + 2 + c
    BY <1>7, <2>1
  <2> QED BY <2>2 DEF c
<1>10. CloseTo(exact, d, s)
  BY <1>7, <1>9 DEF CloseTo
<1>11. AtOnce(b, s, e) = d
  <2>1. AtOnce(b, s, e) = ((b * (e - s)) * 1000) \div m
    BY DEF AtOnce, m
  <2> QED BY <1>0, <2>1 DEF d
<1>12. ExactDelay(b, s, e) = exact
  BY DEF ExactDelay, exact
<1> QED BY <1>10, <1>11, <1>12

(* The fraction in two divisions: the first cuts off up to one of the      *)
(* bits, which the second one makes 1000 / s of.  Where the result is      *)
(* below a multiple of 1000, so is the exact one.                          *)
LEMMA DelayInTwoSteps ==
  ASSUME NEW b \in Nat, NEW s \in Nat \ {0}, NEW e \in Nat \ {0}, s < e
  PROVE  CloseTo(ExactDelay(b, s, e), InTwoSteps(b, s, e), s)
<1> DEFINE n == 1000 * b
           exact == n \div s - n \div e
           m == e * s
           y == b * (e - s)
           x == n * (e - s)
           k == y \div e
           d == (k * 1000) \div s
           c == 1000 \div s
<1>1. n \in Nat /\ m \in Nat \ {0} /\ y \in Nat /\ x = 1000 * y
  OBVIOUS
<1>2. exact \in Int /\ (exact - 1) * m < x /\ x < (exact + 1) * m
  <2>1. n \in Nat
    BY <1>1
  <2> HIDE DEF n
  <2> QED BY <2>1, DifferenceOfQuotients
<1> HIDE DEF exact, n, x, y
<1>3. k \in Nat /\ k * e <= y /\ y < (k + 1) * e
  BY <1>1, QuotientBounds
<1> HIDE DEF k
<1>4. d \in Nat /\ d * s <= k * 1000 /\ k * 1000 < (d + 1) * s
  <2> DEFINE h == k * 1000
  <2>1. h \in Nat
    BY <1>3
  <2> HIDE DEF h
  <2>2. h \div s \in Nat /\ (h \div s) * s <= h /\ h < (h \div s + 1) * s
    BY <2>1, QuotientBounds
  <2> QED BY <2>2 DEF h
<1>5. c \in Nat /\ 1000 < (c + 1) * s
  <2>1. 1000 \in Nat
    OBVIOUS
  <2> QED BY <2>1, QuotientBounds
<1> HIDE DEF c, d
<1>6. /\ k * e \in Int /\ (k + 1) * e = k * e + e
      /\ (k * 1000) * e = 1000 * (k * e)
  BY <1>3
<1>7. 1000 * (k * e) <= x /\ x < 1000 * (k * e) + 1000 * e
  BY <1>1, <1>3, <1>6
<1>8. /\ d * m \in Int /\ (d * s) * e = d * m
      /\ ((d + 1) * s) * e = d * m + m
      /\ c * m \in Int /\ ((c + 1) * s) * e = c * m + m
  BY <1>4, <1>5
<1> HIDE DEF m
<1>9. d * m <= 1000 * (k * e)
  <2>1. d * s \in Int /\ k * 1000 \in Int
    BY <1>3, <1>4
  <2>2. (d * s) * e <= (k * 1000) * e
    BY <1>4, <2>1, MultiplyWeak
  <2> QED BY <1>6, <1>8, <2>2
<1>10. 1000 * (k * e) < d * m + m
  <2>1. (d + 1) * s \in Int /\ k * 1000 \in Int
    BY <1>3, <1>4
  <2>2. (k * 1000) * e < ((d + 1) * s) * e
    BY <1>4, <2>1, MultiplyStrict
  <2> QED BY <1>6, <1>8, <2>2
<1>11. 1000 * e < c * m + m
  <2>1. (c + 1) * s \in Int /\ 1000 \in Int
    BY <1>5
  <2>2. 1000 * e < ((c + 1) * s) * e
    BY <1>5, <2>1, MultiplyStrict
  <2> QED BY <1>8, <2>2
<1>12. d <= exact
  <2>1. d * m < (exact + 1) * m
    BY <1>1, <1>2, <1>6, <1>7, <1>8, <1>9
  <2>2. d < exact + 1
    BY <1>1, <1>2, <1>4, <2>1, CancelFactor
  <2> QED BY <1>2, <1>4, <2>2
<1>13. exact <= d + 2 + c
  <2>1. (d + c + 2) * m = d * m + c * m + 2 * m
    BY <1>1, <1>4, <1>5
  <2>2. (exact - 1) * m < (d + c + 2) * m
    BY <1>1, <1>2, <1>6, <1>7, <1>8, <1>10, <1>11, <2>1
  <2>3. exact - 1 < d + c + 2
    BY <1>1, <1>2, <1>4, <1>5, <2>2, CancelFactor
  <2> QED BY <1>2, <1>4, <1>5, <2>3
<1>14. ASSUME NEW z \in Nat, d < z * 1000
       PROVE  exact <= z * 1000
  <2> DEFINE h == z * 1000
  <2>1. h \in Nat /\ d + 1 <= h
    BY <1>4, <1>14
  <2>2. k < z * s
    <3>1. (d + 1) * s <= h * s
      BY <1>4, <2>1, MultiplyWeak
    <3>2. h * s = (z * s) * 1000 /\ z * s \in Int
      OBVIOUS
    <3>3. (d + 1) * s \in Int
      BY <1>4
    <3>4. k * 1000 < (z * s) * 1000
      <4> HIDE DEF h
      <4> QED BY <1>3, <1>4, <2>1, <3>1, <3>2, <3>3
    <3> QED BY <1>3, <3>2, <3>4, CancelFactor
  <2>3. (k + 1) * e <= (z * s) * e
    <3>1. z * s \in Int /\ k + 1 \in Int /\ k + 1 <= z * s
      BY <1>3, <2>2
    <3> QED BY <3>1, MultiplyWeak
  <2>4. (z * s) * e = z * m /\ h * m = 1000 * (z * m) /\ z * m \in Int
    BY <1>1 DEF m
  <2>5. (exact - 1) * m < h * m
    <3>1. k * e + e <= z * m
      BY <1>6, <2>3, <2>4
    <3> HIDE DEF h
    <3> QED BY <1>1, <1>2, <1>6, <1>7, <2>1, <2>4, <3>1
  <2> HIDE DEF h
  <2>6. exact - 1 < h
    BY <1>1, <1>2, <2>1, <2>5, CancelFactor
  <2>7. exact <= h
    BY <1>2, <2>1, <2>6
  <2> QED BY <2>7 DEF h
<1>15. CloseTo(exact, d, s)
  BY <1>2, <1>4, <1>12, <1>13, <1>14 DEF CloseTo, c
<1>16. InTwoSteps(b, s, e) = d
  BY DEF InTwoSteps, d, k, y
<1>17. ExactDelay(b, s, e) = exact
  BY DEF ExactDelay, exact, n
<1> QED BY <1>15, <1>16, <1>17

----------------------------------------------------------------------------
(* calcDepTime in whole microseconds.                                      *)

(* Times whose microseconds may be a whole second, as 1.4 leaves them.     *)
LooseTimevals == [tv_sec : Nat, tv_usec : 0..Second]

(* A proper time is one.                                                   *)
LEMMA ProperIsLoose ==
  ASSUME NEW t \in Timevals
  PROVE  t \in LooseTimevals
<1>1. Second \in Nat
  BY DepartureAssumption
<1> QED BY <1>1 DEF Timevals, LooseTimevals

(* The microseconds of a time.                                             *)
LEMMA MicrosecondsOf ==
  ASSUME NEW sec \in Nat, NEW usec \in 0..Second
  PROVE  /\ Timeval(sec, usec) \in LooseTimevals
         /\ Microseconds(Timeval(sec, usec)) = sec * Second + usec
         /\ sec * Second \in Nat
<1>1. Second \in Nat
  BY DepartureAssumption
<1>2. sec * Second \in Nat
  BY <1>1
<1> QED BY <1>1, <1>2 DEF Timeval, LooseTimevals, Microseconds

(* The same of a time that is given.                                      *)
LEMMA LooseMicroseconds ==
  ASSUME NEW t \in LooseTimevals
  PROVE  /\ t.tv_sec \in Nat /\ t.tv_usec \in 0..Second /\ t.tv_sec * Second \in Nat
         /\ Microseconds(t) = t.tv_sec * Second + t.tv_usec /\ Microseconds(t) \in Nat
<1>1. Second \in Nat /\ t.tv_sec \in Nat /\ t.tv_usec \in 0..Second
  BY DepartureAssumption DEF LooseTimevals
<1>2. t.tv_sec * Second \in Nat
  BY <1>1
<1> QED BY <1>1, <1>2 DEF Microseconds

(* Both versions of addTimeval add.                                        *)
LEMMA AddTimevalAdds ==
  ASSUME NEW a \in LooseTimevals, NEW b \in LooseTimevals,
         NEW r \in {addTimeval(a, b), addTimeval14(a, b)}
  PROVE  r \in LooseTimevals /\ Microseconds(r) = Microseconds(a) + Microseconds(b)
<1> DEFINE usec == a.tv_usec + b.tv_usec
           sec == a.tv_sec + b.tv_sec
<1>1. /\ a.tv_sec \in Nat /\ a.tv_usec \in 0..Second /\ a.tv_sec * Second \in Nat
      /\ Microseconds(a) = a.tv_sec * Second + a.tv_usec
      /\ b.tv_sec \in Nat /\ b.tv_usec \in 0..Second /\ b.tv_sec * Second \in Nat
      /\ Microseconds(b) = b.tv_sec * Second + b.tv_usec
  BY LooseMicroseconds
<1>2. Second \in Nat
  BY DepartureAssumption
<1>3. /\ sec \in Nat /\ sec * Second = a.tv_sec * Second + b.tv_sec * Second
      /\ (sec + 1) * Second = a.tv_sec * Second + b.tv_sec * Second + Second
  BY <1>1, <1>2
<1>4. CASE r = Timeval(sec + 1, usec - Second) /\ usec >= Second
  <2>1. sec + 1 \in Nat /\ usec - Second \in 0..Second
    BY <1>1, <1>2, <1>3, <1>4
  <2>2. r \in LooseTimevals /\ Microseconds(r) = (sec + 1) * Second + (usec - Second)
    BY <1>4, <2>1, MicrosecondsOf
  <2> HIDE DEF sec
  <2> QED BY <1>1, <1>2, <1>3, <2>2
<1>5. CASE r = Timeval(sec, usec) /\ usec <= Second
  <2>1. usec \in 0..Second
    BY <1>1, <1>2, <1>5
  <2>2. r \in LooseTimevals /\ Microseconds(r) = sec * Second + usec
    BY <1>3, <1>5, <2>1, MicrosecondsOf
  <2> HIDE DEF sec
  <2> QED BY <1>1, <1>2, <1>3, <2>2
<1>6. \/ r = Timeval(sec + 1, usec - Second) /\ usec >= Second
      \/ r = Timeval(sec, usec) /\ usec <= Second
  BY <1>1, <1>2 DEF addTimeval, addTimeval14
<1> QED BY <1>4, <1>5, <1>6

(* maxTimeval returns the later time, where microseconds do not exceed a   *)
(* second.                                                                 *)
LEMMA MaxTimevalLater ==
  ASSUME NEW a \in LooseTimevals, NEW b \in LooseTimevals
  PROVE  /\ maxTimeval(a, b) \in LooseTimevals
         /\ Microseconds(maxTimeval(a, b)) =
              IF Microseconds(b) > Microseconds(a) THEN Microseconds(b) ELSE Microseconds(a)
<1>1. /\ a.tv_sec \in Nat /\ a.tv_usec \in 0..Second /\ a.tv_sec * Second \in Nat
      /\ Microseconds(a) = a.tv_sec * Second + a.tv_usec /\ Microseconds(a) \in Nat
      /\ b.tv_sec \in Nat /\ b.tv_usec \in 0..Second /\ b.tv_sec * Second \in Nat
      /\ Microseconds(b) = b.tv_sec * Second + b.tv_usec /\ Microseconds(b) \in Nat
  BY LooseMicroseconds
<1>2. Second \in Nat
  BY DepartureAssumption
<1>3. CASE a.tv_sec > b.tv_sec
  <2>1. b.tv_sec + 1 <= a.tv_sec /\ b.tv_sec + 1 \in Int /\ a.tv_sec \in Int
    BY <1>1, <1>3
  <2>2. (b.tv_sec + 1) * Second <= a.tv_sec * Second
    BY <1>2, <2>1, MultiplyWeak
  <2>3. (b.tv_sec + 1) * Second = b.tv_sec * Second + Second
    BY <1>1, <1>2
  <2>4. Microseconds(a) >= Microseconds(b)
    BY <1>1, <1>2, <2>2, <2>3
  <2>5. maxTimeval(a, b) = a
    BY <1>3 DEF maxTimeval
  <2> QED BY <1>1, <2>4, <2>5
<1>4. CASE b.tv_sec > a.tv_sec
  <2>1. a.tv_sec + 1 <= b.tv_sec /\ a.tv_sec + 1 \in Int /\ b.tv_sec \in Int
    BY <1>1, <1>4
  <2>2. (a.tv_sec + 1) * Second <= b.tv_sec * Second
    BY <1>2, <2>1, MultiplyWeak
  <2>3. (a.tv_sec + 1) * Second = a.tv_sec * Second + Second
    BY <1>1, <1>2
  <2>4. Microseconds(b) >= Microseconds(a)
    BY <1>1, <1>2, <2>2, <2>3
  <2>5. maxTimeval(a, b) = b
    BY <1>1, <1>4 DEF maxTimeval
  <2> QED BY <1>1, <2>4, <2>5
<1>5. CASE a.tv_sec = b.tv_sec
  <2>1. a.tv_sec * Second = b.tv_sec * Second
    BY <1>5
  <2>2. maxTimeval(a, b) = IF a.tv_usec > b.tv_usec THEN a ELSE b
    BY <1>1, <1>5 DEF maxTimeval
  <2> QED BY <1>1, <2>1, <2>2
<1> QED BY <1>1, <1>3, <1>4, <1>5

(* intervl is the whole time that the link is busy.                        *)
LEMMA IntervalIsBusy ==
  ASSUME NEW o \in LinkOptions, NEW bytes \in Loads
  PROVE  /\ intervl(o, bytes) \in LooseTimevals
         /\ Microseconds(intervl(o, bytes)) = (8000 * bytes) \div o.speed
<1> DEFINE n == 8000 * bytes
           usec == n \div o.speed
<1>1. n \in Nat /\ o.speed \in Nat \ {0} /\ Second \in Nat \ {0}
  BY DepartureAssumption, LinkOptionsAssumption
<1>2. \/ intervl(o, bytes) = Timeval(usec \div Second, usec % Second)
      \/ intervl(o, bytes) = Timeval(0, usec) /\ ~ (usec > Second)
  BY DEF intervl
<1> HIDE DEF n
<1>3. usec \in Nat
  BY <1>1, DivMod
<1> HIDE DEF usec
<1>4. CASE intervl(o, bytes) = Timeval(usec \div Second, usec % Second)
  <2> DEFINE q == usec \div Second
             r == usec % Second
  <2>1. q \in Nat /\ r \in 0..Second - 1 /\ usec = Second * q + r
    BY <1>1, <1>3, Division
  <2> HIDE DEF q, r
  <2>2. r \in 0..Second /\ Second * q = q * Second
    BY <1>1, <2>1
  <2>3. Timeval(q, r) \in LooseTimevals /\ Microseconds(Timeval(q, r)) = q * Second + r
    BY <2>1, <2>2, MicrosecondsOf
  <2>4. Microseconds(Timeval(q, r)) = usec
    BY <2>1, <2>2, <2>3
  <2> QED BY <1>4, <2>3, <2>4 DEF q, r, usec, n
<1>5. CASE intervl(o, bytes) = Timeval(0, usec) /\ ~ (usec > Second)
  <2>1. 0 \in Nat /\ usec \in 0..Second /\ 0 * Second = 0
    BY <1>1, <1>3, <1>5
  <2>2. Timeval(0, usec) \in LooseTimevals /\ Microseconds(Timeval(0, usec)) = 0 * Second + usec
    BY <2>1, MicrosecondsOf
  <2>3. Microseconds(Timeval(0, usec)) = usec
    BY <1>3, <2>1, <2>2
  <2> QED BY <1>5, <2>2, <2>3 DEF usec, n
<1> QED BY <1>2, <1>4, <1>5

(* A time t that is d, or the whole seconds of d.                          *)
CutOff(d, t) ==
  /\ t \in Nat /\ t <= d
  /\ d < Second => t = d
  /\ d >= Second => \E q \in Nat : t = q * Second /\ d < (q + 1) * Second

(* What Link allows to be lost.                                            *)
Lost(exact, s) == IF exact >= Second THEN Second ELSE 2 + 1000 \div s

(* A delay of a second or more keeps its whole seconds.                    *)
LEMMA WholeSeconds ==
  ASSUME NEW o \in LinkOptions, NEW bytes \in Loads, NEW d \in Nat, d = trans_d(o, bytes)
  PROVE  /\ trans(o, bytes) \in LooseTimevals
         /\ CutOff(d, Microseconds(trans(o, bytes)))
<1> DEFINE q == d \div Second
<1>1. Second \in Nat \ {0}
  BY DepartureAssumption
<1>2. q \in Nat /\ q * Second <= d /\ d < (q + 1) * Second
  BY <1>1, QuotientBounds
<1>3. \/ trans(o, bytes) = Timeval(q, 0) /\ d >= Second
      \/ trans(o, bytes) = Timeval(0, d) /\ d <= Second
  BY <1>1 DEF trans
<1> HIDE DEF q
<1>4. CASE trans(o, bytes) = Timeval(q, 0) /\ d >= Second
  <2>1. 0 \in 0..Second
    BY <1>1
  <2>2. /\ trans(o, bytes) \in LooseTimevals /\ q * Second \in Nat
        /\ Microseconds(trans(o, bytes)) = q * Second + 0
    BY <1>2, <1>4, <2>1, MicrosecondsOf
  <2>3. Microseconds(trans(o, bytes)) = q * Second
    BY <2>2
  <2> QED BY <1>1, <1>2, <1>4, <2>2, <2>3 DEF CutOff
<1>5. CASE trans(o, bytes) = Timeval(0, d) /\ d <= Second
  <2>1. 0 \in Nat /\ d \in 0..Second
    BY <1>1, <1>5
  <2>2. /\ trans(o, bytes) \in LooseTimevals /\ 0 * Second \in Nat
        /\ Microseconds(trans(o, bytes)) = 0 * Second + d
    BY <1>5, <2>1, MicrosecondsOf
  <2>3. Microseconds(trans(o, bytes)) = d
    BY <1>1, <2>2
  <2>4. ASSUME d >= Second
        PROVE  \E k \in Nat : d = k * Second /\ d < (k + 1) * Second
    <3>1. d = 1 * Second /\ d < (1 + 1) * Second
      BY <1>1, <1>5, <2>4
    <3> QED BY <3>1
  <2> QED BY <2>2, <2>3, <2>4 DEF CutOff
<1> QED BY <1>3, <1>4, <1>5

(* What two ways to divide have in common is enough for Link: whoever      *)
(* falls short of the exact delay by at most 2 + 1000 / speed, and of no   *)
(* multiple of 1000 that the exact one exceeds, loses no more than a       *)
(* second with the microseconds.                                           *)
LEMMA LostIsBounded ==
  ASSUME NEW s \in Nat \ {0}, NEW exact, NEW d, NEW t, CloseTo(exact, d, s), CutOff(d, t)
  PROVE  t \in exact - Lost(exact, s) .. exact + 1
<1> DEFINE c == 1000 \div s
           m == Second \div 1000
<1>1. /\ Second \in Nat \ {0} /\ m \in Nat /\ Second = m * 1000
      /\ Second >= 2000
  <2>1. Second \in Nat \ {0} /\ Second > 1000 /\ Second % 1000 = 0
    BY DepartureAssumption, SecondAssumption
  <2>2. m \in Nat /\ Second = 1000 * m + (Second % 1000)
    BY <2>1, Division
  <2> HIDE DEF m
  <2> QED BY <2>1, <2>2
<1>2. c \in Nat /\ c <= 1000
  <2> DEFINE h == 1000
  <2>1. h \in Nat
    OBVIOUS
  <2>2. h \div s \in Nat /\ (h \div s) * s <= h
    <3> HIDE DEF h
    <3> QED BY <2>1, QuotientBounds
  <2>3. c <= c * s
    BY <2>2
  <2> HIDE DEF c
  <2>4. c \in Nat /\ c * s <= 1000 /\ c * s \in Int
    BY <2>2 DEF c
  <2> QED BY <2>3, <2>4
<1> HIDE DEF c, m
<1>3. /\ exact \in Int /\ d \in Nat /\ d <= exact /\ exact <= d + 2 + c
      /\ \A z \in Nat : d < z * 1000 => exact <= z * 1000
      /\ t \in Nat /\ t <= d
      /\ d < Second => t = d
      /\ d >= Second => \E q \in Nat : t = q * Second /\ d < (q + 1) * Second
  BY DEF c, CloseTo, CutOff
<1>4. CASE exact < Second
  <2>1. t = d
    BY <1>1, <1>3, <1>4
  <2> QED BY <1>1, <1>2, <1>3, <1>4, <2>1 DEF c, Lost
<1>5. CASE exact >= Second /\ d < Second
  BY <1>1, <1>2, <1>3, <1>5 DEF Lost
<1>6. CASE exact >= Second /\ d >= Second
  <2>1. PICK q \in Nat : t = q * Second /\ d < (q + 1) * Second
    BY <1>3, <1>6
  <2>2. (q + 1) * Second = ((q + 1) * m) * 1000 /\ (q + 1) * m \in Nat
    BY <1>1
  <2>3. exact <= (q + 1) * Second
    BY <1>3, <2>1, <2>2
  <2>4. (q + 1) * Second = q * Second + Second
    BY <1>1
  <2>5. exact <= t + Second
    BY <1>3, <2>1, <2>3, <2>4
  <2> QED BY <1>1, <1>3, <1>6, <2>5 DEF Lost
<1> QED BY <1>1, <1>3, <1>4, <1>5, <1>6

(* The delay, when the products fit: within its divisions of the exact one.*)
LEMMA DelayWhenFitting ==
  ASSUME NEW o \in LinkOptions, NEW bytes \in Loads, o.speed < o.ether,
         o.ether * o.speed < Word, 8 * bytes <= (Word - 1) \div (o.ether - o.speed)
  PROVE  CloseTo((8000 * bytes) \div o.speed - (8000 * bytes) \div o.ether,
                 trans_d(o, bytes), o.speed)
<1> DEFINE s == o.speed
           e == o.ether
           b == bytes * 8
           y == b * (e - s)
           m == e * s
           k == y \div e
           d == trans_d(o, bytes)
<1>1. /\ bytes \in Nat /\ Word \in Nat \ {0} /\ s \in Nat \ {0} /\ e \in Nat \ {0}
      /\ e >= 1000 /\ s < e /\ m < Word /\ m \in Nat
  <2>1. /\ bytes \in Nat /\ Word \in Nat \ {0} /\ s \in Nat \ {0} /\ e \in Nat \ {0}
        /\ e >= 1000
    BY DepartureAssumption, LinkOptionsAssumption
  <2> QED BY <2>1
<1>2. b \in Nat /\ 8000 * bytes = 1000 * b /\ b <= (Word - 1) \div (e - s)
  BY <1>1
<1>3. d = LET bits == y % Word
          IN  IF e <= s THEN 0
              ELSE IF bits < Word \div 1000 THEN (bits * 1000) \div (m % Word)
              ELSE (((bits \div e) * 1000) % Word) \div s
  BY DEF trans_d
<1>4. CloseTo(ExactDelay(b, s, e), AtOnce(b, s, e), s)
  <2> HIDE DEF s, e, b
  <2> QED BY <1>1, <1>2, DelayAtOnce
<1>5. CloseTo(ExactDelay(b, s, e), InTwoSteps(b, s, e), s)
  <2> HIDE DEF s, e, b
  <2> QED BY <1>1, <1>2, DelayInTwoSteps
<1>6. ExactDelay(b, s, e) = (8000 * bytes) \div s - (8000 * bytes) \div e
  BY <1>2 DEF ExactDelay
<1> HIDE DEF s, e, b, d
<1>7. y \in Nat /\ y < Word
  <2> DEFINE h == Word - 1
             f == e - s
             g == h \div f
  <2>1. h \in Nat /\ h < Word /\ f \in Nat \ {0} /\ b <= g
    BY <1>1, <1>2
  <2> HIDE DEF h, f
  <2>2. g \in Nat /\ g * f <= h
    BY <2>1, QuotientBounds
  <2> HIDE DEF g
  <2>3. b * f \in Nat /\ g * f \in Nat /\ b * f <= g * f
    BY <1>2, <2>1, <2>2, Multiply
  <2>4. b * f \in Nat /\ b * f < Word
    BY <1>1, <2>1, <2>2, <2>3
  <2> QED BY <2>4 DEF f
<1> HIDE DEF m
<1>8. y % Word = y /\ m % Word = m
  <2> HIDE DEF y
  <2> QED BY <1>1, <1>7, SmallMod
<1>9. d = IF y < Word \div 1000 THEN (y * 1000) \div m ELSE ((k * 1000) % Word) \div s
  BY <1>1, <1>3, <1>8
<1>10. CASE y < Word \div 1000
  <2>1. d = AtOnce(b, s, e)
    BY <1>9, <1>10 DEF AtOnce, m
  <2> QED BY <1>4, <1>6, <2>1 DEF s, e, d
<1>11. CASE ~ (y < Word \div 1000)
  <2>1. k \in Nat /\ k * e <= y
    <3> HIDE DEF y
    <3> QED BY <1>1, <1>7, QuotientBounds
  <2>2. InTwoSteps(b, s, e) = (k * 1000) \div s
    BY DEF InTwoSteps
  <2> HIDE DEF k, y
  <2>3. k * 1000 < Word /\ k * 1000 \in Nat
    <3>1. 1000 * k <= e * k /\ e * k = k * e /\ 1000 * k = k * 1000 /\ k * e \in Int
      <4>1. 1000 \in Int /\ e \in Int /\ 1000 <= e
        BY <1>1
      <4> QED BY <1>1, <2>1, <4>1, MultiplyWeak
    <3> QED BY <1>1, <1>7, <2>1, <3>1
  <2>4. (k * 1000) % Word = k * 1000
    <3> DEFINE h == k * 1000
    <3>1. h \in Nat /\ h < Word
      BY <2>3
    <3> HIDE DEF h
    <3>2. h % Word = h
      BY <1>1, <3>1, SmallMod
    <3> QED BY <3>2 DEF h
  <2>5. d = InTwoSteps(b, s, e)
    BY <1>9, <1>11, <2>2, <2>4
  <2> QED BY <1>5, <1>6, <2>5 DEF s, e, d
<1> QED BY <1>10, <1>11

(* And when they do not: it is a word.                                     *)
LEMMA DelayIsWord ==
  ASSUME NEW o \in LinkOptions, NEW bytes \in Loads
  PROVE  trans_d(o, bytes) \in 0..Word
<1> DEFINE bits == (bytes * 8 * (o.ether - o.speed)) % Word
           product == (o.ether * o.speed) % Word
           k == bits \div o.ether
<1>1. /\ bytes \in Nat /\ Word \in Nat \ {0}
      /\ o.speed \in Nat \ {0} /\ o.ether \in Nat \ {0} /\ product # 0
  BY DepartureAssumption, LinkOptionsAssumption
<1>2. bytes * 8 * (o.ether - o.speed) \in Int /\ o.ether * o.speed \in Int
  BY <1>1
<1>3. bits \in 0..Word - 1 /\ product \in Nat \ {0}
  <2>1. bits \in 0..Word - 1 /\ product \in 0..Word - 1
    BY <1>1, <1>2, ModOfInt
  <2> HIDE DEF product
  <2> QED BY <1>1, <2>1
<1>4. trans_d(o, bytes) =
        IF o.ether <= o.speed THEN 0
        ELSE IF bits < Word \div 1000 THEN (bits * 1000) \div product
        ELSE ((k * 1000) % Word) \div o.speed
  BY DEF trans_d
<1> HIDE DEF bits, product
<1>5. ASSUME bits < Word \div 1000
      PROVE  (bits * 1000) \div product \in 0..Word
  <2> DEFINE n == bits * 1000
  <2>1. n \in Nat /\ n <= Word
    BY <1>1, <1>3, <1>5
  <2> HIDE DEF n
  <2>2. n \div product \in Nat /\ n \div product <= n
    BY <1>3, <2>1, QuotientAtMost
  <2> QED BY <1>1, <2>1, <2>2 DEF n
<1>6. ((k * 1000) % Word) \div o.speed \in 0..Word
  <2> DEFINE h == k * 1000
             n == h % Word
  <2>1. k \in Nat
    BY <1>1, <1>3, DivMod
  <2>2. h \in Nat
    BY <2>1
  <2> HIDE DEF h
  <2>3. n \in 0..Word - 1
    BY <1>1, <2>2, DivMod
  <2> HIDE DEF n
  <2>4. n \div o.speed \in Nat /\ n \div o.speed <= n
    BY <1>1, <2>3, QuotientAtMost
  <2>5. n \div o.speed \in 0..Word
    BY <1>1, <2>3, <2>4
  <2> QED BY <2>5 DEF n, h
<1>7. 0 \in 0..Word
  BY <1>1
<1> QED BY <1>4, <1>5, <1>6, <1>7

(* trans takes as long as Link allows.                                     *)
LEMMA TransIsDelay ==
  ASSUME NEW o \in LinkOptions, NEW bytes \in Loads
  PROVE  LET exact == (8000 * bytes) \div o.speed - (8000 * bytes) \div o.ether
             t == Microseconds(trans(o, bytes))
         IN  /\ trans(o, bytes) \in LooseTimevals /\ t \in Nat
             /\ o.ether <= o.speed => t = 0
             /\ o.ether > o.speed => t \in 0..Word
             /\ /\ o.ether > o.speed /\ o.ether * o.speed < Word
                /\ 8 * bytes <= (Word - 1) \div (o.ether - o.speed)
                => t \in exact - Lost(exact, o.speed) .. exact + 1
<1> DEFINE exact == (8000 * bytes) \div o.speed - (8000 * bytes) \div o.ether
           t == Microseconds(trans(o, bytes))
           d == trans_d(o, bytes)
<1>1. d \in Nat /\ d \in 0..Word /\ Second \in Nat \ {0} /\ Word \in Nat
      /\ o.speed \in Nat \ {0} /\ o.ether \in Nat \ {0}
  BY DelayIsWord, TransDelayNat, DepartureAssumption, LinkOptionsAssumption
<1>2. trans(o, bytes) \in LooseTimevals /\ CutOff(d, t)
  BY <1>1, WholeSeconds
<1>8. /\ t \in Nat /\ t <= d
      /\ d < Second => t = d
  BY <1>2 DEF CutOff
<1>3. o.ether <= o.speed => d = 0
  BY DEF trans_d
<1>4. ASSUME o.ether > o.speed, o.ether * o.speed < Word,
             8 * bytes <= (Word - 1) \div (o.ether - o.speed)
      PROVE  CloseTo(exact, d, o.speed)
  <2>1. o.speed < o.ether
    BY <1>1, <1>4
  <2> QED BY <1>4, <2>1, DelayWhenFitting
<1> HIDE DEF exact, t, d
<1>5. ASSUME o.ether > o.speed, o.ether * o.speed < Word,
             8 * bytes <= (Word - 1) \div (o.ether - o.speed)
      PROVE  t \in exact - Lost(exact, o.speed) .. exact + 1
  <2>1. CloseTo(exact, d, o.speed) /\ o.speed \in Nat \ {0}
    BY <1>1, <1>4, <1>5
  <2> QED BY <1>2, <2>1, LostIsBounded
<1>6. o.ether <= o.speed => t = 0
  BY <1>1, <1>3, <1>8
<1>7. t \in 0..Word
  BY <1>1, <1>8
<1> QED BY <1>2, <1>5, <1>6, <1>7, <1>8 DEF exact, t

(* The link that calcDepTime works for, as Link has it.                    *)
LinkOf(o) == [o EXCEPT !.delay = Microseconds(@)]

(* It is one, and the options are its own.                                 *)
LEMMA LinkOfOptions ==
  ASSUME NEW o \in LinkOptions
  PROVE  /\ o # <<>> /\ LinkOf(o) # <<>>
         /\ LinkOf(o).speed = o.speed /\ LinkOf(o).ether = o.ether
         /\ LinkOf(o).calcMode = o.calcMode /\ LinkOf(o).delay = Microseconds(o.delay)
         /\ o.delay \in Timevals /\ o.calcMode \in {0, 1} /\ o.version \in {"1.4", "1.5"}
<1>1. o \in [version : {"1.4", "1.5"}, speed : Nat \ {0}, ether : Nat \ {0},
             delay : Timevals, calcMode : {0, 1}]
  BY LinkOptionsAssumption
<1>2. /\ "speed" \in DOMAIN o /\ "speed" \in DOMAIN LinkOf(o)
  BY <1>1 DEF LinkOf
<1>3. "speed" \notin DOMAIN <<>>
  OBVIOUS
<1> QED BY <1>1, <1>2, <1>3 DEF LinkOf

(* What makes LinkSpec hold of every step: times whose microseconds one    *)
(* carry puts right.                                                       *)
LooseTimes ==
  /\ linkOptions \in LinkOptions \cup {<<>>}
  /\ arrival \in Timevals /\ intervled \in LooseTimevals

(* A packet's arrival is as much later as the pause.                       *)
LEMMA PauseAdds ==
  ASSUME NEW at \in Timevals, NEW pause \in Pauses
  PROVE  LET r == Timeval(at.tv_sec + (at.tv_usec + pause) \div Second,
                          (at.tv_usec + pause) % Second)
         IN  r \in Timevals /\ Microseconds(r) = Microseconds(at) + pause
<1> DEFINE n == at.tv_usec + pause
           q == n \div Second
           u == n % Second
<1>1. /\ Second \in Nat \ {0} /\ pause \in Nat
      /\ at.tv_sec \in Nat /\ at.tv_usec \in 0..Second - 1
  BY DepartureAssumption DEF Timevals
<1>2. n \in Nat
  BY <1>1
<1> HIDE DEF n
<1>3. q \in Nat /\ u \in 0..Second - 1 /\ n = Second * q + u
  BY <1>1, <1>2, Division
<1> HIDE DEF q, u
<1>4. (at.tv_sec + q) * Second = at.tv_sec * Second + Second * q
      /\ at.tv_sec * Second \in Nat /\ Second * q \in Nat
  BY <1>1, <1>3
<1>5. at.tv_sec + q \in Nat /\ u \in 0..Second
  BY <1>1, <1>3
<1>6. Timeval(at.tv_sec + q, u) \in Timevals
  BY <1>3, <1>5, TimevalInTimevals
<1>7. Microseconds(Timeval(at.tv_sec + q, u)) = (at.tv_sec + q) * Second + u
  BY <1>5, MicrosecondsOf
<1>8. Microseconds(at) = at.tv_sec * Second + at.tv_usec
  BY DEF Microseconds
<1>9. Microseconds(Timeval(at.tv_sec + q, u)) = Microseconds(at) + pause
  BY <1>1, <1>3, <1>4, <1>7, <1>8 DEF n
<1> QED BY <1>6, <1>9 DEF q, u, n

(* calcDepTime of both versions, in microseconds.                          *)
LEMMA CalcDepTimeAdds ==
  ASSUME NEW o \in LinkOptions, NEW bytes \in Loads, NEW at \in Timevals,
         intervled \in LooseTimevals,
         NEW r \in {calcDepTime(o, bytes, at), calcDepTime14(o, bytes, at)}
  PROVE  LET ready == Microseconds(at) + Microseconds(o.delay)
             free == Microseconds(intervled)
         IN  /\ r.intervled \in LooseTimevals
             /\ Microseconds(r.intervled) =
                  (IF o.calcMode = 0 THEN free ELSE Microseconds(at)) + (8000 * bytes) \div o.speed
             /\ Microseconds(r.dept) =
                  (IF ready > free THEN ready ELSE free) + Microseconds(trans(o, bytes))
<1>1. /\ at \in LooseTimevals /\ o.delay \in LooseTimevals /\ o.calcMode \in {0, 1}
  BY LinkOfOptions, ProperIsLoose
<1>2. /\ trans(o, bytes) \in LooseTimevals /\ intervl(o, bytes) \in LooseTimevals
      /\ Microseconds(intervl(o, bytes)) = (8000 * bytes) \div o.speed
  BY TransIsDelay, IntervalIsBusy
<1>3. PICK ready \in {addTimeval(at, o.delay), addTimeval14(at, o.delay)} :
        r.dept \in {addTimeval(maxTimeval(intervled, ready), trans(o, bytes)),
                    addTimeval14(maxTimeval(intervled, ready), trans(o, bytes))}
  BY DEF calcDepTime, calcDepTime14
<1>4. PICK start \in {at, intervled} :
        /\ r.intervled \in {addTimeval(start, intervl(o, bytes)),
                            addTimeval14(start, intervl(o, bytes))}
        /\ start = IF o.calcMode = 0 THEN intervled ELSE at
  BY <1>1 DEF calcDepTime, calcDepTime14
<1>5. /\ ready \in LooseTimevals
      /\ Microseconds(ready) = Microseconds(at) + Microseconds(o.delay)
  BY <1>1, AddTimevalAdds
<1>6. /\ maxTimeval(intervled, ready) \in LooseTimevals
      /\ Microseconds(maxTimeval(intervled, ready)) =
           IF Microseconds(ready) > Microseconds(intervled) THEN Microseconds(ready)
           ELSE Microseconds(intervled)
  BY <1>5, MaxTimevalLater
<1>7. Microseconds(r.dept) = Microseconds(maxTimeval(intervled, ready))
                               + Microseconds(trans(o, bytes))
  BY <1>2, <1>3, <1>6, AddTimevalAdds
<1>8. /\ start \in LooseTimevals /\ r.intervled \in LooseTimevals
      /\ Microseconds(r.intervled) = Microseconds(start) + Microseconds(intervl(o, bytes))
  BY <1>1, <1>2, <1>4, AddTimevalAdds
<1>9. Microseconds(start) =
        IF o.calcMode = 0 THEN Microseconds(intervled) ELSE Microseconds(at)
  BY <1>4
<1> QED BY <1>2, <1>5, <1>6, <1>7, <1>8, <1>9

(* The abstract step of a packet.                                          *)
LEMMA DepartIsArrive ==
  ASSUME LooseTimes, NEW bytes \in Loads, NEW pause \in Pauses, Depart(bytes, pause)
  PROVE  LooseTimes' /\ Abstract!Arrive
<1> DEFINE o == linkOptions
           at == Timeval(arrival.tv_sec + (arrival.tv_usec + pause) \div Second,
                         (arrival.tv_usec + pause) % Second)
           times == IF o.version = "1.4" THEN calcDepTime14(o, bytes, at)
                    ELSE calcDepTime(o, bytes, at)
           t == Microseconds(trans(o, bytes))
           busy == (8000 * bytes) \div o.speed
           ready == Microseconds(at) + Microseconds(o.delay)
           free == Microseconds(intervled)
           later == IF ready > free THEN ready ELSE free
<1>1. /\ o \in LinkOptions /\ o # <<>> /\ linkOptions' = o
      /\ arrival' = at /\ dept' = times.dept /\ intervled' = times.intervled
  BY DEF Depart, LooseTimes
<1>2. at \in Timevals /\ Microseconds(at) = Microseconds(arrival) + pause
  BY PauseAdds DEF LooseTimes
<1>3. times \in {calcDepTime(o, bytes, at), calcDepTime14(o, bytes, at)}
  OBVIOUS
<1> HIDE DEF at, times
<1>4. /\ intervled' \in LooseTimevals
      /\ Microseconds(intervled') =
           (IF o.calcMode = 0 THEN free ELSE Microseconds(at)) + busy
      /\ Microseconds(dept') = later + t
  BY <1>1, <1>2, <1>3, CalcDepTimeAdds DEF LooseTimes
<1>5. LooseTimes'
  BY <1>1, <1>2, <1>4 DEF LooseTimes
<1>6. /\ Microseconds(at) \in Nat /\ Microseconds(arrival) \in Nat /\ free \in Nat
      /\ Microseconds(o.delay) \in Nat /\ t \in Nat /\ pause \in Nat
      /\ o.speed \in Nat \ {0} /\ o.ether \in Nat \ {0}
  <2>1. /\ at \in LooseTimevals /\ arrival \in LooseTimevals /\ intervled \in LooseTimevals
        /\ o.delay \in LooseTimevals
    BY <1>1, <1>2, LinkOfOptions, ProperIsLoose DEF LooseTimes
  <2>2. pause \in Nat /\ o.speed \in Nat \ {0} /\ o.ether \in Nat \ {0}
    BY <1>1, DepartureAssumption, LinkOptionsAssumption
  <2>3. t \in Nat
    BY <1>1, TransIsDelay
  <2> QED BY <2>1, <2>2, <2>3, LooseMicroseconds
<1> DEFINE l == IF linkOptions = <<>> THEN linkOptions
                ELSE [linkOptions EXCEPT !.delay = Microseconds(@)]
<1>7. /\ l = LinkOf(o) /\ l # <<>> /\ l' = l
      /\ l.speed = o.speed /\ l.ether = o.ether /\ l.calcMode = o.calcMode
      /\ l.delay = Microseconds(o.delay)
  BY <1>1, LinkOfOptions DEF LinkOf
<1> HIDE DEF l
<1>8. Abstract!TransmissionLasts(bytes, t)
  <2>1. Abstract!TransmissionLasts(bytes, t) <=>
          LET exact == (8000 * bytes) \div o.speed - (8000 * bytes) \div o.ether
          IN  IF o.ether <= o.speed THEN t = 0
              ELSE IF /\ o.ether * o.speed < Word
                      /\ 8 * bytes <= (Word - 1) \div (o.ether - o.speed)
                   THEN t \in exact - Lost(exact, o.speed) .. exact + 1 ELSE t \in 0..Word
    BY <1>7 DEF Abstract!TransmissionLasts, Abstract!Busy, Abstract!Fits, l, Lost
  <2> HIDE DEF t, o
  <2>2. /\ o.ether <= o.speed => t = 0
        /\ o.ether > o.speed => t \in 0..Word
        /\ /\ o.ether > o.speed /\ o.ether * o.speed < Word
           /\ 8 * bytes <= (Word - 1) \div (o.ether - o.speed)
           => LET exact == (8000 * bytes) \div o.speed - (8000 * bytes) \div o.ether
              IN  t \in exact - Lost(exact, o.speed) .. exact + 1
    BY <1>1, TransIsDelay DEF t
  <2>3. o.ether <= o.speed \/ o.ether > o.speed
    BY <1>6
  <2> QED BY <2>1, <2>2, <2>3
<1>9. Microseconds(dept') - Abstract!Larger(Microseconds(at) + l.delay, free) = t
  <2>1. Abstract!Larger(Microseconds(at) + l.delay, free) = later
    BY <1>7 DEF Abstract!Larger
  <2> HIDE DEF t, free
  <2>2. later \in Nat
    BY <1>6
  <2> QED BY <1>4, <1>6, <2>1, <2>2
<1>10. Abstract!Arrive
  <2>1. Microseconds(arrival') >= Microseconds(arrival)
    BY <1>1, <1>2, <1>6
  <2>2. Abstract!TransmissionLasts(bytes,
          Microseconds(dept') - Abstract!Larger(Microseconds(arrival') + l.delay, free))
    BY <1>1, <1>8, <1>9
  <2>3. Microseconds(intervled') =
          (IF l.calcMode = 0 THEN free ELSE Microseconds(arrival'))
            + Abstract!Busy(bytes, l.speed)
    BY <1>1, <1>4, <1>7 DEF Abstract!Busy
  <2> QED BY <1>7, <2>1, <2>2, <2>3 DEF Abstract!Arrive, l
<1> QED BY <1>5, <1>10

(* The link before its options are read.                                   *)
LEMMA LinkBegins == Init => LooseTimes /\ Abstract!Init
<1> SUFFICES ASSUME Init PROVE LooseTimes /\ Abstract!Init
  OBVIOUS
<1>1. linkOptions = <<>> /\ arrival = Timeval(0, 0) /\ intervled = Timeval(0, 0)
      /\ dept = Timeval(0, 0)
  BY DEF Init, LinkInit
<1>2. 0 \in Nat /\ 0 \in 0..Second /\ 0 \in 0..Second - 1 /\ 0 * Second + 0 = 0
  BY DepartureAssumption
<1>3. Timeval(0, 0) \in Timevals /\ Timeval(0, 0) \in LooseTimevals
      /\ Microseconds(Timeval(0, 0)) = 0
  BY <1>2, TimevalInTimevals, MicrosecondsOf
<1> QED BY <1>1, <1>3 DEF LooseTimes, Abstract!Init

(* A step of the parts is one of Link, or leaves it alone.                 *)
LEMMA LinkStep ==
  LooseTimes /\ [Next]_partsVars =>
    /\ LooseTimes'
    /\ [Abstract!Next]_<<IF linkOptions = <<>> THEN linkOptions
                         ELSE [linkOptions EXCEPT !.delay = Microseconds(@)],
                         Microseconds(arrival), Microseconds(intervled), Microseconds(dept)>>
<1> DEFINE l == IF linkOptions = <<>> THEN linkOptions
                ELSE [linkOptions EXCEPT !.delay = Microseconds(@)]
           Step == [Abstract!Next]_<<l, Microseconds(arrival), Microseconds(intervled),
                                     Microseconds(dept)>>
<1> SUFFICES ASSUME LooseTimes, [Next]_partsVars
             PROVE  LooseTimes' /\ Step
  OBVIOUS
<1>1. ASSUME UNCHANGED linkVars
      PROVE  LooseTimes' /\ Step
  BY <1>1 DEF linkVars, LooseTimes
<1>2. ASSUME NEW o \in LinkOptions, ChooseLink(o)
      PROVE  LooseTimes' /\ Step
  <2>1. /\ linkOptions = <<>> /\ linkOptions' = o /\ o # <<>> /\ LinkOf(o) # <<>>
        /\ arrival' = arrival /\ intervled' = intervled /\ dept' = dept
    BY <1>2, LinkOfOptions DEF ChooseLink
  <2>2. l = <<>> /\ l' = LinkOf(o)
    BY <2>1 DEF LinkOf
  <2>3. Abstract!Start
    BY <2>1, <2>2 DEF Abstract!Start
  <2> QED BY <2>1, <2>3 DEF Abstract!Next, LooseTimes
<1>3. ASSUME NEW bytes \in Loads, NEW pause \in Pauses, Depart(bytes, pause)
      PROVE  LooseTimes' /\ Step
  BY <1>3, DepartIsArrive DEF Abstract!Next
<1> HIDE DEF Step
<1> QED BY <1>1, <1>2, <1>3 DEF Next, OthersStay, partsVars, LinkNext

(* On every link, for every size of packets and every time between them,   *)
(* calcDepTime of 1.4 and of 1.5 computes in seconds and microseconds and  *)
(* in 32-bit words the departure that Link allows: when the packet's delay *)
(* is over and the link is free, and the difference of the two lines'      *)
(* times later, to within its divisions where the products fit into a word *)
(* (newudpl.c:655, 688, 706).                                              *)
THEOREM ImplementsLink == Spec => LinkSpec
<1>1. Init => LooseTimes /\ Abstract!Init
  BY LinkBegins
<1>2. LooseTimes /\ [Next]_partsVars =>
        /\ LooseTimes'
        /\ [Abstract!Next]_<<IF linkOptions = <<>> THEN linkOptions
                             ELSE [linkOptions EXCEPT !.delay = Microseconds(@)],
                             Microseconds(arrival), Microseconds(intervled), Microseconds(dept)>>
  BY LinkStep
<1> QED BY <1>1, <1>2, PTL DEF Spec, LinkSpec, Abstract!Spec

----------------------------------------------------------------------------
(* SIGINT around the end of main.                                          *)

(* main's steps before notify_start, from openQueue to the loop's end the  *)
(* queue is open, and from there to the end.                               *)
BeforeLoop == {"exec", "initOptions", "parse", "openReadfd", "openWritfd", "openQueue",
               "printTitle", "setStdin", "setSigint", "setReadfd", "notifyStart"}
AfterLoop  == {"statistics", "closeReadfd", "closeWritfd", "closeQueue", "return"}
Gone       == {"exit", "killed", "crashed"}

(* What makes ClosedQueueIsNotFlushed inductive: before the loop there are *)
(* no timers; in it the queue is open, and who asked the loop to stop left *)
(* none behind, nor readHandler to set one, unless SIGINT or an error did. *)
TimersAccounted ==
  /\ interrupts \in Nat
  /\ phase \in BeforeLoop \cup {"loop"} \cup AfterLoop \cup Gone
  /\ stopping \in {"no", "quit", "error"}
  /\ phase \in BeforeLoop => timersPending = FALSE
  /\ phase \in {"printTitle", "setStdin", "setSigint", "setReadfd", "notifyStart", "loop",
                "statistics", "closeReadfd", "closeWritfd", "closeQueue"} => "queue" \in open
  /\ phase = "loop" /\ stopping = "quit" =>
       interrupts > 0 \/ (timersPending = FALSE /\ "readfd" \notin handlers)
  /\ phase \in AfterLoop =>
       stopping = "error" \/ interrupts > 0 \/ timersPending = FALSE
  /\ ClosedQueueIsNotFlushed

(* The steps of main up to the loop.                                       *)
LEMMA TimersAccountedBefore ==
  ASSUME TimersAccounted,
         \/ \E v \in {"1.4", "1.5"}, a \in CommandLines, order \in {"PERMUTE", "REQUIRE_ORDER"} :
              Exec(v, a, order)
         \/ ParseOption \/ ParseEnds \/ Fails
         \/ InitOptions \/ OpenReadfd \/ OpenWritfd \/ OpenQueue \/ PrintTitle
         \/ SetStdin \/ SetSigint \/ SetReadfd \/ StartLoop
  PROVE  TimersAccounted'
BY DEF TimersAccounted, ClosedQueueIsNotFlushed, BeforeLoop, AfterLoop, Gone, Exec, ParseOption,
       ParseEnds, Fails, InitOptions, OpenReadfd, OpenWritfd, OpenQueue, PrintTitle, SetStdin,
       SetSigint, SetReadfd, StartLoop, Opens, Installs, Goes, ParserStays, SignalsStay,
       ProgramStays

(* The loop, and main's steps after it.                                    *)
LEMMA TimersAccountedAfter ==
  ASSUME TimersAccounted,
         \/ Traffic \/ StopCommand \/ ErrorStop \/ LoopFails \/ LoopFails14
         \/ LoopEnds \/ PrintStatistics \/ Destroy \/ Return
  PROVE  TimersAccounted'
BY DEF TimersAccounted, ClosedQueueIsNotFlushed, BeforeLoop, AfterLoop, Gone, Traffic, InLoop,
       StopCommand, flushQueue, ErrorStop, LoopFails, LoopFails14, LoopEnds, PrintStatistics,
       Destroy, Closes, Return, Goes, ParserStays, SignalsStay, ProgramStays

(* SIGINT at any point.                                                    *)
LEMMA TimersAccountedInterrupt ==
  ASSUME TimersAccounted,
         Killed \/ sigHandler \/ sigHandlerInReadHandler \/ UseAfterClose
  PROVE  TimersAccounted'
BY DEF TimersAccounted, ClosedQueueIsNotFlushed, BeforeLoop, AfterLoop, Gone, Interrupt, Running,
       Killed, sigHandler, sigHandlerInReadHandler, UseAfterClose, flushQueue, ParserStays,
       SignalsStay, ProgramStays

(* For any command line and any number of SIGINTs, one that comes after    *)
(* closeQueue has freed the queue touches it only when an error ended the  *)
(* loop or an earlier one had come in the middle of readHandler.           *)
THEOREM FreedQueueIsLeftAlone == Spec => []ClosedQueueIsNotFlushed
<1>1. Init => TimersAccounted
  BY DEF Init, StartupInit, TimersAccounted, BeforeLoop, AfterLoop, Gone, ClosedQueueIsNotFlushed
<1>2. TimersAccounted /\ [Next]_partsVars => TimersAccounted'
  <2>1. ASSUME TimersAccounted, UNCHANGED startupVars
        PROVE  TimersAccounted'
    BY <2>1 DEF startupVars, TimersAccounted, ClosedQueueIsNotFlushed
  <2>2. ASSUME TimersAccounted, StartupNext
        PROVE  TimersAccounted'
    BY <2>2, TimersAccountedBefore, TimersAccountedAfter, TimersAccountedInterrupt
       DEF StartupNext, MainStep
  <2> QED BY <2>1, <2>2 DEF Next, OthersStay, partsVars
<1>3. TimersAccounted => ClosedQueueIsNotFlushed
  BY DEF TimersAccounted
<1> QED BY <1>1, <1>2, <1>3, PTL DEF Spec

----------------------------------------------------------------------------
(* The Windows clock.                                                      *)

(* The microseconds of a count beyond its whole seconds are less than one  *)
(* second, and rounding takes less than a microsecond of them away.        *)
LEMMA RestOfSecond ==
  ASSUME NEW r \in 0..tick - 1
  PROVE  /\ (r * UsecPerSec) \div tick \in 0..UsecPerSec - 1
         /\ ((r * UsecPerSec) \div tick) * tick <= r * UsecPerSec
         /\ r * UsecPerSec < ((r * UsecPerSec) \div tick + 1) * tick
<1> DEFINE n == r * UsecPerSec
           e == n \div tick
<1>1. tick \in Nat \ {0} /\ UsecPerSec \in Nat \ {0} /\ r \in Nat /\ r + 1 <= tick
  BY ClockAssumption
<1>2. n \in Nat
  BY <1>1
<1>3. n + UsecPerSec <= tick * UsecPerSec
  <2>1. (r + 1) * UsecPerSec <= tick * UsecPerSec
    BY <1>1, Multiply
  <2>2. (r + 1) * UsecPerSec = n + UsecPerSec
    BY <1>1
  <2> QED BY <2>1, <2>2
<1> HIDE DEF n
<1>4. e \in Nat /\ n % tick \in 0..tick - 1 /\ n = tick * e + (n % tick)
  BY <1>1, <1>2, Division
<1> HIDE DEF e
<1>5. e * tick <= n /\ n < (e + 1) * tick
  <2>1. tick * e = e * tick /\ (e + 1) * tick = e * tick + tick /\ e * tick \in Nat
    BY <1>1, <1>4
  <2> QED BY <2>1, <1>1, <1>2, <1>4
<1>6. e < UsecPerSec
  <2>1. e * tick < UsecPerSec * tick
    <3>1. e * tick \in Nat /\ tick * UsecPerSec \in Nat /\ UsecPerSec * tick = tick * UsecPerSec
      BY <1>1, <1>4
    <3> QED BY <3>1, <1>1, <1>2, <1>3, <1>5
  <2> QED BY <2>1, <1>1, <1>4, CancelFactor
<1>7. e \in 0..UsecPerSec - 1
  BY <1>1, <1>4, <1>6
<1> QED BY <1>5, <1>7 DEF e, n

(* The time of a count is its ticks, rounded down to a microsecond.        *)
LEMMA TrueTimeBounds ==
  ASSUME NEW c \in Nat
  PROVE  /\ TrueTime(c) \in Nat
         /\ TrueTime(c) * tick <= c * UsecPerSec
         /\ c * UsecPerSec < (TrueTime(c) + 1) * tick
<1> DEFINE q == c \div tick
           r == c % tick
           e == (r * UsecPerSec) \div tick
           t == q * UsecPerSec + e
<1>1. tick \in Nat \ {0} /\ UsecPerSec \in Nat \ {0}
  BY ClockAssumption
<1>2. q \in Nat /\ r \in 0..tick - 1 /\ c = tick * q + r
  BY <1>1, Division
<1>3. TrueTime(c) = t
  BY DEF TrueTime
<1> HIDE DEF q, r
<1>4. /\ e \in 0..UsecPerSec - 1 /\ e * tick <= r * UsecPerSec
      /\ r * UsecPerSec < (e + 1) * tick
  BY <1>2, RestOfSecond
<1> HIDE DEF e
<1>5. c * UsecPerSec = (q * UsecPerSec) * tick + r * UsecPerSec
  <2>1. (tick * q + r) * UsecPerSec = (tick * q) * UsecPerSec + r * UsecPerSec
    BY <1>1, <1>2, Distribute
  <2>2. (tick * q) * UsecPerSec = (q * UsecPerSec) * tick
    BY <1>1, <1>2
  <2> QED BY <2>1, <2>2, <1>2
<1>6. /\ t \in Nat
      /\ t * tick = (q * UsecPerSec) * tick + e * tick
      /\ (t + 1) * tick = (q * UsecPerSec) * tick + (e + 1) * tick
  <2>1. q * UsecPerSec \in Nat /\ e \in Nat
    BY <1>1, <1>2, <1>4
  <2> QED BY <2>1, <1>1, Distribute
<1>7. /\ (q * UsecPerSec) * tick \in Nat /\ e * tick \in Nat /\ (e + 1) * tick \in Nat
      /\ r * UsecPerSec \in Nat
  BY <1>1, <1>2, <1>4
<1> QED BY <1>3, <1>4, <1>5, <1>6, <1>7

(* Two times add up to no more than the time of both counts.               *)
LEMMA TrueTimesAdd ==
  ASSUME NEW a \in Nat, NEW b \in Nat
  PROVE  TrueTime(a) + TrueTime(b) <= TrueTime(a + b)
<1> DEFINE ta == TrueTime(a)
           tb == TrueTime(b)
           t == TrueTime(a + b)
<1>1. tick \in Nat \ {0} /\ UsecPerSec \in Nat \ {0} /\ a + b \in Nat
  BY ClockAssumption
<1>2. /\ ta \in Nat /\ tb \in Nat /\ t \in Nat
      /\ ta * tick <= a * UsecPerSec /\ tb * tick <= b * UsecPerSec
      /\ (a + b) * UsecPerSec < (t + 1) * tick
  BY <1>1, TrueTimeBounds
<1> HIDE DEF ta, tb, t
<1>3. (ta + tb) * tick < (t + 1) * tick
  <2>1. /\ (ta + tb) * tick = ta * tick + tb * tick
        /\ (a + b) * UsecPerSec = a * UsecPerSec + b * UsecPerSec
    BY <1>1, <1>2, Distribute
  <2>2. /\ ta * tick \in Nat /\ tb * tick \in Nat /\ (t + 1) * tick \in Nat
        /\ a * UsecPerSec \in Nat /\ b * UsecPerSec \in Nat
    BY <1>1, <1>2
  <2> QED BY <2>1, <2>2, <1>2
<1>4. ta + tb < t + 1
  BY <1>1, <1>2, <1>3, CancelFactor
<1>5. ta + tb <= t
  BY <1>2, <1>4
<1> QED BY <1>5 DEF ta, tb, t

(* Time does not run backwards.                                            *)
LEMMA TrueTimeGrows ==
  ASSUME NEW a \in Nat, NEW b \in Nat, a <= b
  PROVE  TrueTime(a) <= TrueTime(b)
<1> DEFINE c == b - a
<1>1. c \in Nat /\ a + c = b
  OBVIOUS
<1> HIDE DEF c
<1>2. TrueTime(a) + TrueTime(c) <= TrueTime(b)
  BY <1>1, TrueTimesAdd
<1>3. TrueTime(a) \in Nat /\ TrueTime(b) \in Nat /\ TrueTime(c) \in Nat
  BY <1>1, TrueTimeBounds
<1> QED BY <1>2, <1>3

(* What a call keeps until it returns: where it started from is proper and *)
(* less than a granule before the call, and no reading is of the future.   *)
Micros(tv) == tv.tv_sec * UsecPerSec + tv.tv_usec

StartOfCall ==
  /\ stv \in [tv_sec : Nat, tv_usec : 0..UsecPerSec - 1]
  /\ TrueTime(called) - Granule < Micros(stv) /\ Micros(stv) <= TrueTime(called)

ClockInv ==
  /\ counter \in Nat /\ called \in 0..counter
  /\ step \in {"idle", "startCount", "count"}
  /\ step # "idle" => StartOfCall
  /\ step = "count" => sct \in called..counter
  /\ step = "idle" => /\ reading \in [tv_sec : Nat, tv_usec : 0..UsecPerSec - 1]
                      /\ TrueTime(called) - Granule < Micros(reading)
                      /\ Micros(reading) <= TrueTime(counter)

(* ftime tells the last granule that has begun.                            *)
LEMMA FtimeStarts ==
  ASSUME ClockInv, ftime
  PROVE  ClockInv'
<1> DEFINE now == TrueTime(counter)
           g == now \div Granule
           t == g * Granule
<1>1. Granule \in Nat \ {0} /\ UsecPerSec \in Nat \ {0} /\ now \in Nat
  BY ClockAssumption, TrueTimeBounds DEF ClockInv
<1> HIDE DEF now
<1>2. g \in Nat /\ now % Granule \in 0..Granule - 1 /\ now = Granule * g + (now % Granule)
  BY <1>1, Division
<1> HIDE DEF g
<1>3. t \in Nat /\ now - Granule < t /\ t <= now
  <2>1. Granule * g = g * Granule /\ g * Granule \in Nat
    BY <1>1, <1>2
  <2> QED BY <2>1, <1>1, <1>2
<1> HIDE DEF t
<1> DEFINE s == t \div UsecPerSec
           u == t % UsecPerSec
<1>4. s \in Nat /\ u \in 0..UsecPerSec - 1 /\ t = UsecPerSec * s + u
  BY <1>1, <1>3, Division
<1>5. stv' = [tv_sec |-> s, tv_usec |-> u]
  BY DEF ftime, t, g, now
<1> HIDE DEF s, u
<1>6. Micros(stv)' = t
  <2>1. Micros(stv)' = s * UsecPerSec + u
    BY <1>5 DEF Micros
  <2>2. s * UsecPerSec = UsecPerSec * s /\ u \in Int
    BY <1>1, <1>4
  <2> QED BY <2>1, <2>2, <1>4
<1>7. called' = counter /\ counter' = counter /\ step' = "startCount"
  BY DEF ftime
<1>8. TrueTime(called)' = now
  BY <1>7 DEF TrueTime, now
<1>9. StartOfCall'
  <2>1. stv' \in [tv_sec : Nat, tv_usec : 0..UsecPerSec - 1]
    BY <1>4, <1>5
  <2> QED BY <2>1, <1>3, <1>6, <1>8 DEF StartOfCall
<1> QED BY <1>7, <1>9 DEF ClockInv

(* The sum of stv and the counts since sct carries once at most, and is of *)
(* a time between the call and its return.                                 *)
LEMMA GettimeofdayReads ==
  ASSUME ClockInv, gettimeofday
  PROVE  ClockInv'
<1> DEFINE d == counter - sct
           q == d \div tick
           e == ((d % tick) * UsecPerSec) \div tick
           s == stv.tv_sec
           u == stv.tv_usec
<1>1. tick \in Nat \ {0} /\ UsecPerSec \in Nat \ {0} /\ Granule \in Nat \ {0}
  BY ClockAssumption
<1>2. /\ counter \in Nat /\ called \in Nat /\ called <= sct /\ sct <= counter /\ sct \in Nat
      /\ d \in Nat /\ called + d \in Nat /\ called + d <= counter
  BY DEF ClockInv, gettimeofday
<1>3. StartOfCall
  BY DEF ClockInv, gettimeofday
<1>4. s \in Nat /\ u \in 0..UsecPerSec - 1 /\ Micros(stv) = s * UsecPerSec + u
  BY <1>3 DEF StartOfCall, Micros
<1>5. TrueTime(d) = q * UsecPerSec + e
  BY DEF TrueTime
<1>6. /\ u + e >= UsecPerSec =>
           reading' = [tv_sec |-> s + q + 1, tv_usec |-> (u + e) - UsecPerSec]
      /\ ~(u + e >= UsecPerSec) => reading' = [tv_sec |-> s + q, tv_usec |-> u + e]
  <2>1. reading' = SinceStart(counter)
    BY DEF gettimeofday
  <2> QED BY <2>1 DEF SinceStart
<1> HIDE DEF d
<1>7. q \in Nat /\ d % tick \in 0..tick - 1
  BY <1>1, <1>2, Division
<1>8. e \in 0..UsecPerSec - 1
  BY <1>7, RestOfSecond
<1> HIDE DEF q, e, s, u
<1>9. /\ reading' \in [tv_sec : Nat, tv_usec : 0..UsecPerSec - 1]
      /\ Micros(reading)' = Micros(stv) + TrueTime(d)
  <2>1. /\ (s + q) * UsecPerSec = s * UsecPerSec + q * UsecPerSec
        /\ (s + q + 1) * UsecPerSec = s * UsecPerSec + q * UsecPerSec + UsecPerSec
        /\ s * UsecPerSec \in Nat /\ q * UsecPerSec \in Nat
    <3>1. (s + q) * UsecPerSec = s * UsecPerSec + q * UsecPerSec
      BY <1>1, <1>4, <1>7, Distribute
    <3>2. (s + q + 1) * UsecPerSec = (s + q) * UsecPerSec + UsecPerSec
      BY <1>1, <1>4, <1>7
    <3>3. s * UsecPerSec \in Nat /\ q * UsecPerSec \in Nat
      BY <1>1, <1>4, <1>7
    <3> QED BY <3>1, <3>2, <3>3
  <2>2. CASE u + e >= UsecPerSec
    <3>1. reading' = [tv_sec |-> s + q + 1, tv_usec |-> (u + e) - UsecPerSec]
      BY <2>2, <1>6
    <3>2. Micros(reading)' = (s + q + 1) * UsecPerSec + ((u + e) - UsecPerSec)
      BY <3>1 DEF Micros
    <3>3. Micros(reading)' = Micros(stv) + TrueTime(d)
      BY <3>2, <2>1, <1>1, <1>4, <1>5, <1>8
    <3>4. s + q + 1 \in Nat /\ (u + e) - UsecPerSec \in 0..UsecPerSec - 1
      BY <2>2, <1>1, <1>4, <1>7, <1>8
    <3> QED BY <3>1, <3>3, <3>4
  <2>3. CASE ~(u + e >= UsecPerSec)
    <3>1. reading' = [tv_sec |-> s + q, tv_usec |-> u + e]
      BY <2>3, <1>6
    <3>2. Micros(reading)' = (s + q) * UsecPerSec + (u + e)
      BY <3>1 DEF Micros
    <3>3. Micros(reading)' = Micros(stv) + TrueTime(d)
      BY <3>2, <2>1, <1>1, <1>4, <1>5, <1>8
    <3>4. s + q \in Nat /\ u + e \in 0..UsecPerSec - 1
      BY <2>3, <1>1, <1>4, <1>7, <1>8
    <3> QED BY <3>1, <3>3, <3>4
  <2> QED BY <2>2, <2>3
<1>10. /\ TrueTime(called) + TrueTime(d) <= TrueTime(called + d)
       /\ TrueTime(called + d) <= TrueTime(counter)
       /\ TrueTime(called) \in Nat /\ TrueTime(d) \in Nat /\ TrueTime(counter) \in Nat
       /\ TrueTime(called + d) \in Nat
  BY <1>2, TrueTimesAdd, TrueTimeGrows, TrueTimeBounds
<1>11. Micros(stv) \in Int
  BY <1>1, <1>4
<1>12. TrueTime(called) - Granule < Micros(reading)' /\ Micros(reading)' <= TrueTime(counter)
  BY <1>1, <1>3, <1>9, <1>10, <1>11 DEF StartOfCall
<1>13. called' = called /\ counter' = counter /\ step' = "idle"
  BY DEF gettimeofday
<1>14. TrueTime(called)' = TrueTime(called) /\ TrueTime(counter)' = TrueTime(counter)
  BY <1>13 DEF TrueTime
<1> QED BY <1>2, <1>9, <1>12, <1>13, <1>14 DEF ClockInv

(* Time may pass between any two steps of a call.                          *)
LEMMA TimePassesUnderCall ==
  ASSUME ClockInv, NEW wait \in Waits, TimePasses(wait)
  PROVE  ClockInv'
<1>1. /\ wait \in Nat /\ counter \in Nat /\ counter' = counter + wait
      /\ called' = called /\ step' = step /\ stv' = stv /\ sct' = sct /\ reading' = reading
  BY ClockAssumption DEF TimePasses, ClockInv
<1>2. TrueTime(counter) <= TrueTime(counter + wait)
  BY <1>1, TrueTimeGrows
<1>3. /\ TrueTime(called)' = TrueTime(called) /\ Micros(stv)' = Micros(stv)
      /\ Micros(reading)' = Micros(reading) /\ TrueTime(counter)' = TrueTime(counter + wait)
  BY <1>1 DEF TrueTime, Micros
<1>4. counter' \in Nat /\ called' \in 0..counter'
  BY <1>1 DEF ClockInv
<1>5. (step # "idle" => StartOfCall)'
  BY <1>1, <1>3 DEF ClockInv, StartOfCall
<1>6. (step = "count" => sct \in called..counter)'
  BY <1>1 DEF ClockInv
<1>7. ASSUME step = "idle"
      PROVE  /\ reading \in [tv_sec : Nat, tv_usec : 0..UsecPerSec - 1]
             /\ TrueTime(called) - Granule < Micros(reading)
             /\ Micros(reading) <= TrueTime(counter + wait)
  <2>1. /\ reading \in [tv_sec : Nat, tv_usec : 0..UsecPerSec - 1]
        /\ TrueTime(called) - Granule < Micros(reading)
        /\ Micros(reading) <= TrueTime(counter)
    BY <1>7 DEF ClockInv
  <2>2. Micros(reading) \in Int
    BY <2>1, ClockAssumption DEF Micros
  <2>3. TrueTime(counter) \in Nat /\ TrueTime(counter + wait) \in Nat
    BY <1>1, TrueTimeBounds
  <2> QED BY <2>1, <2>2, <2>3, <1>2
<1> QED BY <1>1, <1>3, <1>4, <1>5, <1>6, <1>7 DEF ClockInv

(* Whatever the frequency of the counter, ftime's granule and the time     *)
(* that passes between its steps, gettimeofday returns a proper time that  *)
(* is less than a granule before its call and not after its return.        *)
THEOREM ClockReadsTrue == Spec => []ReadingIsTrue
<1>1. Init => ClockInv
  <2> SUFFICES ASSUME Init PROVE ClockInv
    OBVIOUS
  <2>1. counter = 0 /\ called = 0 /\ step = "idle" /\ reading = [tv_sec |-> 0, tv_usec |-> 0]
    BY DEF Init, ClockInit, Zero
  <2>2. Granule \in Nat \ {0} /\ UsecPerSec \in Nat \ {0} /\ tick \in Nat \ {0}
    BY ClockAssumption
  <2>3. Micros(reading) = 0
    BY <2>1, <2>2 DEF Micros
  <2>4. TrueTime(0) = 0
    <3> DEFINE t == TrueTime(0)
    <3>1. t \in Nat /\ t * tick <= 0 * UsecPerSec
      BY TrueTimeBounds
    <3> HIDE DEF t
    <3>2. t * tick < 1 * tick
      <4>1. 0 * UsecPerSec = 0 /\ 1 * tick = tick /\ t * tick \in Nat
        BY <2>2, <3>1
      <4> QED BY <4>1, <2>2, <3>1
    <3>3. t < 1
      BY <2>2, <3>1, <3>2, CancelFactor
    <3> QED BY <3>1, <3>3 DEF t
  <2> QED BY <2>1, <2>2, <2>3, <2>4 DEF ClockInv
<1>2. ClockInv /\ [Next]_partsVars => ClockInv'
  <2>1. ASSUME ClockInv, UNCHANGED clockVars
        PROVE  ClockInv'
    BY <2>1 DEF clockVars, ClockInv, StartOfCall, Micros, TrueTime
  <2>2. ASSUME ClockInv, ClockNext
        PROVE  ClockInv'
    <3>1. ASSUME StartCount
          PROVE  ClockInv'
      BY <2>2, <3>1 DEF StartCount, ClockInv, StartOfCall, Micros, TrueTime
    <3> QED BY <2>2, <3>1, FtimeStarts, GettimeofdayReads, TimePassesUnderCall DEF ClockNext
  <2> QED BY <2>1, <2>2 DEF Next, OthersStay, partsVars
<1>3. ClockInv => ReadingIsTrue
  BY DEF ClockInv, ReadingIsTrue, Micros
<1> QED BY <1>1, <1>2, <1>3, PTL DEF Spec

----------------------------------------------------------------------------
(* The checksum.                                                           *)

(* The largest word.                                                       *)
Ones == Byte * Byte - 1

(* It is one less than the number of words.                                *)
LEMMA OnesIsNat == /\ Byte \in Nat \ {0, 1} /\ Ones \in Nat /\ Ones > 1
                   /\ Byte * Byte = Ones + 1
<1>1. Byte \in Nat /\ Byte >= 2
  BY ChecksumAssumption
<1>2. Byte * Byte \in Nat /\ Byte * Byte >= 2 * Byte
  BY <1>1
<1> QED BY <1>1, <1>2, ChecksumAssumption DEF Ones

(* A byte and the next one make a word.                                    *)
LEMMA TwoBytes ==
  ASSUME NEW a \in 0..Byte - 1, NEW b \in 0..Byte - 1
  PROVE  a * Byte + b \in 0..Ones
<1>1. Byte \in Nat /\ Ones \in Nat /\ Byte * Byte = Ones + 1
  BY OnesIsNat
<1>2. a \in Nat /\ Byte - 1 \in Nat /\ a <= Byte - 1
  BY <1>1
<1>3. a * Byte \in Nat /\ a * Byte <= (Byte - 1) * Byte
  BY <1>1, <1>2, Multiply
<1>4. (Byte - 1) * Byte = Byte * Byte - Byte
  BY <1>1
<1>5. b \in Nat /\ b <= Byte - 1
  BY <1>1
<1>6. a * Byte + b \in Nat /\ a * Byte + b <= Byte * Byte - Byte + (Byte - 1)
  BY <1>1, <1>3, <1>4, <1>5
<1>7. Byte * Byte - Byte + (Byte - 1) = Ones
  BY <1>1
<1> QED BY <1>1, <1>6, <1>7

(* Folding a sum leaves a word, and 0 of nothing but 0.                    *)
LEMMA FoldedIsWord ==
  ASSUME NEW x \in Nat
  PROVE  /\ Folded(x) \in 0..Ones
         /\ x <= Ones => Folded(x) = x
         /\ x > 0 => Folded(x) = 1 + ((x - 1) % Ones)
<1>1. Ones \in Nat \ {0} /\ Byte * Byte = Ones + 1
  BY OnesIsNat
<1>2. Folded(x) = IF x < Ones + 1 THEN x ELSE 1 + ((x - 1) % Ones)
  BY <1>1 DEF Folded, Ones
<1>3. CASE x <= Ones
  <2>1. Folded(x) = x /\ x \in 0..Ones
    BY <1>1, <1>2, <1>3
  <2>2. ASSUME x > 0
        PROVE  (x - 1) % Ones = x - 1
    <3> DEFINE n == x - 1
    <3>1. n \in Nat /\ n < Ones
      BY <1>1, <1>3, <2>2
    <3> HIDE DEF n
    <3>2. n % Ones = n
      BY <1>1, <3>1, SmallMod
    <3> QED BY <3>2 DEF n
  <2>3. x > 0 => Folded(x) = 1 + ((x - 1) % Ones)
    <3> SUFFICES ASSUME x > 0 PROVE Folded(x) = 1 + ((x - 1) % Ones)
      OBVIOUS
    <3> QED BY <2>1, <2>2
  <2> QED BY <2>1, <2>3
<1>4. CASE x > Ones
  <2> DEFINE n == x - 1
             r == n % Ones
  <2>1. n \in Nat
    BY <1>1, <1>4
  <2> HIDE DEF n
  <2>2. r \in 0..Ones - 1
    BY <1>1, <2>1, DivMod
  <2>3. Folded(x) = 1 + r
    BY <1>1, <1>2, <1>4 DEF n
  <2> HIDE DEF r
  <2>4. Folded(x) \in 0..Ones
    BY <1>1, <2>2, <2>3
  <2> QED BY <1>1, <1>4, <2>3, <2>4 DEF r, n
<1> QED BY <1>1, <1>3, <1>4

(* Two numbers with the same remainder are a multiple apart; less than two *)
(* multiples, so one.                                                      *)
LEMMA SameRemainder ==
  ASSUME NEW x \in Nat, NEW y \in Nat, NEW m \in Nat \ {0}, x < y, y <= x + m
  PROVE  x % m = y % m <=> y = x + m
<1> DEFINE p == x \div m
           q == y \div m
           r == x % m
           s == y % m
<1>1. /\ p \in Nat /\ r \in 0..m - 1 /\ x = m * p + r
      /\ q \in Nat /\ s \in 0..m - 1 /\ y = m * q + s
  BY Division
<1> HIDE DEF p, q, r, s
<1>2. m * p \in Nat /\ m * q \in Nat /\ m * p = p * m /\ m * q = q * m
      /\ (q - p) * m = q * m - p * m /\ (q - p) \in Int /\ 0 * m = 0 /\ 1 * m = m /\ 2 * m = m + m
  BY <1>1
<1> DEFINE k == q - p
<1>3. k * m = (y - x) - (s - r) /\ k \in Int
  BY <1>1, <1>2
<1>4. ASSUME r = s
      PROVE  y = x + m
  <2>1. k * m = y - x /\ 0 * m < k * m /\ k * m < 2 * m
    BY <1>1, <1>2, <1>3, <1>4
  <2> HIDE DEF k
  <2>2. 0 < k /\ k < 2
    BY <1>3, <2>1, CancelFactor
  <2>3. k = 1
    BY <1>3, <2>2
  <2> QED BY <1>2, <2>1, <2>3
<1>5. ASSUME y = x + m
      PROVE  r = s
  <2>1. k * m = m - (s - r)
    BY <1>1, <1>3, <1>5
  <2>2. 0 * m < k * m /\ k * m < 2 * m
    BY <1>1, <1>2, <2>1
  <2> HIDE DEF k
  <2>3. 0 < k /\ k < 2
    BY <1>3, <2>2, CancelFactor
  <2>4. k = 1
    BY <1>3, <2>3
  <2>5. m = m - (s - r)
    BY <1>2, <2>1, <2>4
  <2> QED BY <1>1, <2>5
<1> QED BY <1>4, <1>5 DEF r, s

(* One word a of a sum becomes b: the folded sums are equal only when one  *)
(* is all zeros and the other all ones, and not all else is 0.             *)
LEMMA FoldedAgree ==
  ASSUME NEW rest \in Nat, NEW a \in 0..Ones, NEW b \in 0..Ones, a # b
  PROVE  Folded(rest + a) = Folded(rest + b) <=> {a, b} = {0, Ones} /\ rest > 0
<1>1. Ones \in Nat \ {0}
  BY OnesIsNat
<1>2. ASSUME NEW c \in 0..Ones, NEW d \in 0..Ones, c < d
      PROVE  Folded(rest + c) = Folded(rest + d) <=> c = 0 /\ d = Ones /\ rest > 0
  <2> DEFINE x == rest + c
             y == rest + d
  <2>1. x \in Nat /\ y \in Nat /\ x < y /\ y <= x + Ones /\ y > 0
    BY <1>1, <1>2
  <2>2. y = x + Ones <=> c = 0 /\ d = Ones
    BY <1>1, <1>2
  <2>3. rest = 0 => x = c /\ y = d
    BY <1>1
  <2>4. rest > 0 => x > 0
    BY <1>1
  <2> HIDE DEF x, y
  <2>5. CASE rest = 0
    <3>1. x <= Ones /\ y <= Ones
      BY <1>1, <2>3, <2>5
    <3>2. Folded(x) = x /\ Folded(y) = y
      BY <2>1, <3>1, FoldedIsWord
    <3>3. Folded(x) # Folded(y)
      BY <2>1, <3>2
    <3> QED BY <2>5, <3>3 DEF x, y
  <2>6. CASE rest > 0
    <3> DEFINE u == x - 1
               v == y - 1
    <3>1. Folded(x) = 1 + (u % Ones) /\ Folded(y) = 1 + (v % Ones)
      BY <2>1, <2>4, <2>6, FoldedIsWord
    <3>2. u \in Nat /\ v \in Nat /\ u < v /\ v <= u + Ones /\ (v = u + Ones <=> y = x + Ones)
      BY <1>1, <2>1, <2>4, <2>6
    <3> HIDE DEF u, v
    <3>3. u % Ones = v % Ones <=> v = u + Ones
      BY <1>1, <3>2, SameRemainder
    <3>4. u % Ones \in 0..Ones - 1 /\ v % Ones \in 0..Ones - 1
      BY <1>1, <3>2, DivMod
    <3>5. Folded(x) = Folded(y) <=> u % Ones = v % Ones
      BY <1>1, <3>1, <3>4
    <3> QED BY <2>2, <2>6, <3>2, <3>3, <3>5 DEF x, y
  <2> QED BY <2>5, <2>6
<1>3. CASE a < b
  <2>1. {a, b} = {0, Ones} <=> a = 0 /\ b = Ones
    BY <1>1, <1>3
  <2> QED BY <1>2, <1>3, <2>1
<1>4. CASE b < a
  <2>1. {a, b} = {0, Ones} <=> b = 0 /\ a = Ones
    BY <1>1, <1>4
  <2>2. Folded(rest + b) = Folded(rest + a) <=> b = 0 /\ a = Ones /\ rest > 0
    BY <1>2, <1>4
  <2> QED BY <2>1, <2>2
<1>5. a < b \/ b < a
  BY <1>1
<1> QED BY <1>3, <1>4, <1>5

(* The values of a byte.                                                  *)
Bytes == 0..Byte - 1

(* The checksum's word, and the words that the sum is of.                  *)
SumWord == (SumAt + 1) \div 2
WordsOf(bytes) ==
  [k \in 1..(Len(bytes) + 1) \div 2 |-> IF k = SumWord THEN 0 ELSE WordAt(bytes, k)]

(* What a segment is.                                                      *)
IsSegment(bytes) == bytes \in Seq(Bytes) /\ SumAt < Len(bytes)

(* The places of bytes and words.                                          *)
LEMMA WordPlaces ==
  ASSUME NEW bytes, IsSegment(bytes)
  PROVE  LET n == (Len(bytes) + 1) \div 2
         IN  /\ n \in Nat /\ Len(bytes) \in Nat /\ (Len(bytes) + (Len(bytes) % 2)) \div 2 = n
             /\ Len(bytes) + (Len(bytes) % 2) = 2 * n
             /\ SumWord \in 1..n /\ SumAt = 2 * SumWord - 1 /\ SumAt + 1 = 2 * SumWord
             /\ 2 * SumWord <= Len(bytes)
             /\ \A k \in 1..n : 2 * k - 1 \in 1..Len(bytes) /\ 2 * k \in 1..2 * n
<1> DEFINE l == Len(bytes)
<1>1. l \in Nat /\ SumAt \in Nat /\ SumAt % 2 = 1 /\ SumAt < l
  BY ChecksumAssumption DEF IsSegment
<1> HIDE DEF l
<1>2. /\ (l + 1) \div 2 \in Nat /\ (l + (l % 2)) \div 2 = (l + 1) \div 2
      /\ l + (l % 2) = 2 * ((l + 1) \div 2)
  BY <1>1
<1>3. SumWord \in Nat /\ SumAt = 2 * SumWord - 1 /\ 1 <= SumWord
  BY <1>1 DEF SumWord
<1> DEFINE n == (l + 1) \div 2
<1>4. l <= 2 * n /\ 2 * n <= l + 1 /\ n \in Nat
  BY <1>1
<1> HIDE DEF n
<1>5. SumWord \in 1..n /\ SumAt + 1 = 2 * SumWord /\ 2 * SumWord <= l
  BY <1>1, <1>3, <1>4
<1>6. \A k \in 1..n : 2 * k - 1 \in 1..l /\ 2 * k \in 1..2 * n
  BY <1>1, <1>4
<1> QED BY <1>1, <1>2, <1>3, <1>5, <1>6 DEF n, l

(* Each word is one, and the checksum's is the checksum.                   *)
LEMMA WordsAreWords ==
  ASSUME NEW bytes, IsSegment(bytes)
  PROVE  /\ \A k \in 1..(Len(bytes) + 1) \div 2 : WordAt(bytes, k) \in 0..Ones
         /\ WordAt(bytes, SumWord) = getCheckSum(bytes)
         /\ WordsOf(bytes) \in Seq(Nat) /\ Len(WordsOf(bytes)) = (Len(bytes) + 1) \div 2
<1> DEFINE l == Len(bytes)
           n == (l + 1) \div 2
<1>1. /\ n \in Nat /\ l \in Nat /\ SumWord \in 1..n /\ SumAt = 2 * SumWord - 1
      /\ SumAt + 1 = 2 * SumWord /\ 2 * SumWord <= l
      /\ \A k \in 1..n : 2 * k - 1 \in 1..l /\ 2 * k \in 1..2 * n
  BY WordPlaces
<1>2. \A j \in 1..l : bytes[j] \in 0..Byte - 1
  <2>1. bytes \in Seq(Bytes)
    BY DEF IsSegment
  <2>2. \A j \in 1..Len(bytes) : bytes[j] \in Bytes
    BY <2>1
  <2> QED BY <2>2 DEF Bytes
<1>3. 0 \in 0..Byte - 1 /\ Byte \in Nat
  BY OnesIsNat
<1> HIDE DEF l, n
<1>4. ASSUME NEW k \in 1..n
      PROVE  WordAt(bytes, k) \in 0..Ones
  <2> DEFINE second == IF 2 * k > l THEN 0 ELSE bytes[2 * k]
  <2>1. bytes[2 * k - 1] \in 0..Byte - 1
    BY <1>1, <1>2
  <2>2. second \in 0..Byte - 1
    <3>1. CASE 2 * k > l
      BY <1>3, <3>1
    <3>2. CASE ~ (2 * k > l)
      <4>1. 2 * k \in 1..l
        BY <1>1, <3>2
      <4> QED BY <1>2, <3>2, <4>1
    <3> QED BY <3>1, <3>2
  <2>3. WordAt(bytes, k) = bytes[2 * k - 1] * Byte + second
    BY DEF WordAt, l
  <2> HIDE DEF second
  <2> QED BY <2>1, <2>2, <2>3, TwoBytes
<1>5. WordAt(bytes, SumWord) = getCheckSum(bytes)
  <2>1. WordAt(bytes, SumWord) = bytes[2 * SumWord - 1] * Byte + bytes[2 * SumWord]
    BY <1>1 DEF WordAt, l
  <2>2. getCheckSum(bytes) = bytes[2 * SumWord - 1] * Byte + bytes[2 * SumWord]
    BY <1>1 DEF getCheckSum
  <2> QED BY <2>1, <2>2
<1>6. WordsOf(bytes) = [k \in 1..n |-> IF k = SumWord THEN 0 ELSE WordAt(bytes, k)]
  BY DEF WordsOf, n, l
<1>7. WordsOf(bytes) \in Seq(Nat) /\ Len(WordsOf(bytes)) = n
  <2>1. \A k \in 1..n : (IF k = SumWord THEN 0 ELSE WordAt(bytes, k)) \in Nat
    BY <1>4, OnesIsNat
  <2> QED BY <1>1, <1>6, <2>1
<1> QED BY <1>4, <1>5, <1>7 DEF n, l

(* The sum is of these words.                                              *)
LEMMA SumOfSegment ==
  ASSUME NEW bytes, IsSegment(bytes)
  PROVE  generateChecksum(bytes) = Ones - Folded(Total(WordsOf(bytes)))
<1> DEFINE l == Len(bytes)
           n == (l + 1) \div 2
           stream == Stream(bytes)
           w == [k \in 1..Len(stream) \div 2 |-> stream[2 * k - 1] * Byte + stream[2 * k]]
<1>1. /\ n \in Nat /\ l \in Nat /\ SumWord \in 1..n /\ SumAt = 2 * SumWord - 1
      /\ l + (l % 2) = 2 * n /\ (l + (l % 2)) \div 2 = n
      /\ SumAt + 1 = 2 * SumWord /\ 2 * SumWord <= l
      /\ \A k \in 1..n : 2 * k - 1 \in 1..l /\ 2 * k \in 1..2 * n
  BY WordPlaces
<1>2. Byte \in Nat /\ 0 * Byte + 0 = 0
  BY OnesIsNat
<1>3. stream = [j \in 1..l + (l % 2) |->
                  IF j \in {SumAt, SumAt + 1} \/ j > l THEN 0 ELSE bytes[j]]
  BY DEF Stream
<1> HIDE DEF l, n, stream
<1>4. /\ Len(stream) = 2 * n /\ Len(stream) \div 2 = n
      /\ \A k \in 1..2 * n :
           stream[k] = IF k \in {SumAt, SumAt + 1} \/ k > l THEN 0 ELSE bytes[k]
  BY <1>1, <1>3
<1>5. ASSUME NEW k \in 1..n
      PROVE  stream[2 * k - 1] * Byte + stream[2 * k] = WordsOf(bytes)[k]
  <2>1. WordsOf(bytes)[k] = IF k = SumWord THEN 0 ELSE WordAt(bytes, k)
    BY DEF WordsOf, n, l
  <2>2. /\ 2 * k - 1 \in 1..l /\ 2 * k \in 1..2 * n /\ 2 * k - 1 \in 1..2 * n
        /\ k \in Nat /\ ~ (2 * k - 1 > l)
    BY <1>1
  <2>3. /\ 2 * k - 1 \in {SumAt, SumAt + 1} <=> k = SumWord
        /\ 2 * k \in {SumAt, SumAt + 1} <=> k = SumWord
    BY <1>1, <2>2
  <2>4. stream[2 * k - 1] = IF k = SumWord THEN 0 ELSE bytes[2 * k - 1]
    BY <1>4, <2>2, <2>3
  <2>5. stream[2 * k] = IF k = SumWord \/ 2 * k > l THEN 0 ELSE bytes[2 * k]
    BY <1>4, <2>2, <2>3
  <2>6. CASE k = SumWord
    BY <1>2, <2>1, <2>4, <2>5, <2>6
  <2>7. CASE k # SumWord
    <3>1. WordAt(bytes, k) = bytes[2 * k - 1] * Byte + (IF 2 * k > l THEN 0 ELSE bytes[2 * k])
      BY DEF WordAt, l
    <3> QED BY <2>1, <2>4, <2>5, <2>7, <3>1
  <2> QED BY <2>6, <2>7
<1>6. w = WordsOf(bytes)
  <2>1. w = [k \in 1..n |-> stream[2 * k - 1] * Byte + stream[2 * k]]
    BY <1>4
  <2>2. WordsOf(bytes) = [k \in 1..n |-> WordsOf(bytes)[k]]
    BY DEF WordsOf, n, l
  <2> HIDE DEF w
  <2> QED BY <1>5, <2>1, <2>2
<1>7. SumOfWords(stream) = Total(w)
  BY DEF SumOfWords
<1>8. generateChecksum(bytes) = Ones - Folded(SumOfWords(stream))
  BY DEF generateChecksum, Ones, stream
<1> QED BY <1>6, <1>7, <1>8

(* A checksum is a word.                                                   *)
LEMMA ChecksumIsWord ==
  ASSUME NEW bytes, IsSegment(bytes)
  PROVE  generateChecksum(bytes) \in 0..Ones
<1>1. Total(WordsOf(bytes)) \in Nat
  BY WordsAreWords, TotalNat
<1>2. Folded(Total(WordsOf(bytes))) \in 0..Ones
  BY <1>1, FoldedIsWord
<1>3. generateChecksum(bytes) = Ones - Folded(Total(WordsOf(bytes)))
  BY SumOfSegment
<1> QED BY <1>2, <1>3, OnesIsNat

(* A byte that changes leaves a sequence of as many bytes.                 *)
LEMMA ByteChanged ==
  ASSUME NEW bytes \in Seq(Bytes), NEW k \in 1..Len(bytes), NEW b \in Bytes
  PROVE  [bytes EXCEPT ![k] = b] \in Seq(Bytes) /\ Len([bytes EXCEPT ![k] = b]) = Len(bytes)
OBVIOUS

(* The header takes the checksum, which is not summed.                     *)
LEMMA ChecksumWritten ==
  ASSUME NEW bytes, IsSegment(bytes), NEW sum \in 0..Ones
  PROVE  /\ IsSegment(WithChecksum(bytes, sum))
         /\ Len(WithChecksum(bytes, sum)) = Len(bytes)
         /\ getCheckSum(WithChecksum(bytes, sum)) = sum
         /\ WordsOf(WithChecksum(bytes, sum)) = WordsOf(bytes)
<1> DEFINE high == sum \div Byte
           low  == sum % Byte
           with == [bytes EXCEPT ![SumAt] = high, ![SumAt + 1] = low]
           l    == Len(bytes)
           n    == (l + 1) \div 2
<1>1. /\ Byte \in Nat \ {0, 1} /\ Ones \in Nat /\ Byte * Byte = Ones + 1
  BY OnesIsNat
<1>2. /\ n \in Nat /\ l \in Nat /\ SumWord \in 1..n /\ SumAt = 2 * SumWord - 1
      /\ SumAt + 1 = 2 * SumWord /\ 2 * SumWord <= l
      /\ \A k \in 1..n : 2 * k - 1 \in 1..l /\ 2 * k \in 1..2 * n
  BY WordPlaces
<1>3. high \in Nat /\ low \in 0..Byte - 1 /\ sum = Byte * high + low
  <2>1. sum \in Nat /\ Byte \in Nat \ {0}
    BY <1>1
  <2> QED BY <2>1, Division
<1>4. high \in 0..Byte - 1
  <2>1. high * Byte < Byte * Byte
    BY <1>1, <1>3
  <2> HIDE DEF high, low
  <2>2. high < Byte
    BY <1>1, <1>3, <2>1, CancelFactor
  <2> QED BY <1>1, <1>3, <2>2
<1>5. high * Byte + low = sum
  BY <1>1, <1>3
<1>6. WithChecksum(bytes, sum) = with
  BY DEF WithChecksum
<1>7. bytes \in Seq(Bytes) /\ SumAt < l
  BY DEF IsSegment
<1>8. high \in Bytes /\ low \in Bytes
  BY <1>3, <1>4 DEF Bytes
<1>9. SumAt \in 1..l /\ SumAt + 1 \in 1..l /\ SumAt # SumAt + 1
  BY <1>2
<1> HIDE DEF high, low
<1>10. with \in Seq(Bytes) /\ Len(with) = l
  <2> DEFINE half == [bytes EXCEPT ![SumAt] = high]
  <2>1. half \in Seq(Bytes) /\ Len(half) = Len(bytes)
    BY <1>7, <1>8, <1>9, ByteChanged
  <2>2. with = [half EXCEPT ![SumAt + 1] = low]
    OBVIOUS
  <2>3. SumAt + 1 \in 1..Len(half)
    BY <1>9, <2>1
  <2> HIDE DEF half, with
  <2>4. with \in Seq(Bytes) /\ Len(with) = Len(half)
    BY <1>8, <2>1, <2>2, <2>3, ByteChanged
  <2> QED BY <2>1, <2>4
<1>11. with[SumAt] = high /\ with[SumAt + 1] = low
  BY <1>7, <1>9
<1>12. \A j \in 1..l : j \notin {SumAt, SumAt + 1} => with[j] = bytes[j]
  BY <1>7, <1>9
<1> HIDE DEF with, l, n
<1>13. getCheckSum(with) = sum
  BY <1>5, <1>11 DEF getCheckSum
<1>14. ASSUME NEW k \in 1..n, k # SumWord
       PROVE  WordAt(with, k) = WordAt(bytes, k)
  <2>1. 2 * k - 1 \in 1..l /\ 2 * k - 1 \notin {SumAt, SumAt + 1}
        /\ 2 * k \notin {SumAt, SumAt + 1} /\ (~ (2 * k > l) => 2 * k \in 1..l)
    BY <1>2, <1>14
  <2>2. with[2 * k - 1] = bytes[2 * k - 1] /\ (~ (2 * k > l) => with[2 * k] = bytes[2 * k])
    BY <1>12, <2>1
  <2>3. /\ WordAt(with, k) = with[2 * k - 1] * Byte + (IF 2 * k > l THEN 0 ELSE with[2 * k])
        /\ WordAt(bytes, k) = bytes[2 * k - 1] * Byte + (IF 2 * k > l THEN 0 ELSE bytes[2 * k])
    BY <1>10 DEF WordAt, l
  <2> QED BY <2>2, <2>3
<1>15. WordsOf(with) = WordsOf(bytes)
  <2>1. /\ WordsOf(with) = [k \in 1..n |-> IF k = SumWord THEN 0 ELSE WordAt(with, k)]
        /\ WordsOf(bytes) = [k \in 1..n |-> IF k = SumWord THEN 0 ELSE WordAt(bytes, k)]
    BY <1>10 DEF WordsOf, n, l
  <2> QED BY <1>14, <2>1
<1>16. IsSegment(with)
  BY <1>7, <1>10 DEF IsSegment
<1> QED BY <1>6, <1>10, <1>13, <1>15, <1>16 DEF l

(* What was sent has its checksum, and what arrives is as long.            *)
ChecksumInv ==
  /\ CHECKSUM \in 0..Ones /\ checked \in Nat
  /\ checked = 0 => arrived = <<>>
  /\ checked > 0 => /\ IsSegment(message) /\ IsSegment(arrived)
                    /\ Len(arrived) = Len(message)
                    /\ getCheckSum(message) = generateChecksum(message)

(* A segment is sent with the checksum of its own.                         *)
LEMMA ChecksumSent ==
  ASSUME ChecksumInv, NEW m \in Segments, SendChecked(m)
  PROVE  ChecksumInv'
<1> DEFINE header == WithChecksum(m, CHECKSUM)
           sum    == generateChecksum(header)
           sent   == WithChecksum(m, sum)
<1>1. IsSegment(m)
  BY ChecksumAssumption DEF IsSegment, Bytes
<1>2. CHECKSUM \in 0..Ones /\ checked \in Nat
  BY DEF ChecksumInv
<1>3. IsSegment(header) /\ WordsOf(header) = WordsOf(m)
  BY <1>1, <1>2, ChecksumWritten
<1> HIDE DEF header
<1>4. sum \in 0..Ones /\ sum = Ones - Folded(Total(WordsOf(m)))
  BY <1>3, ChecksumIsWord, SumOfSegment
<1>5. CHECKSUM' = sum /\ message' = sent /\ arrived' = sent /\ checked' = checked + 1
  BY DEF SendChecked, sum, header
<1> HIDE DEF sum
<1>6. IsSegment(sent) /\ getCheckSum(sent) = sum /\ WordsOf(sent) = WordsOf(m)
  BY <1>1, <1>4, ChecksumWritten
<1> HIDE DEF sent
<1>7. generateChecksum(sent) = sum
  BY <1>4, <1>6, SumOfSegment
<1>8. checked' \in Nat /\ checked' # 0
  BY <1>2, <1>5
<1>9. /\ CHECKSUM' \in 0..Ones
      /\ IsSegment(message)' /\ IsSegment(arrived)' /\ (Len(arrived) = Len(message))'
      /\ (getCheckSum(message) = generateChecksum(message))'
  BY <1>4, <1>5, <1>6, <1>7
<1> QED BY <1>8, <1>9 DEF ChecksumInv

(* Damage changes bytes, not how many.                                     *)
LEMMA ChecksumDamaged ==
  ASSUME ChecksumInv, NEW k \in DOMAIN arrived, NEW b \in 0..Byte - 1, DamageByte(k, b)
  PROVE  ChecksumInv'
<1>1. checked > 0 /\ arrived' = [arrived EXCEPT ![k] = b]
      /\ UNCHANGED <<CHECKSUM, message, checked>>
  BY DEF DamageByte
<1>2. arrived \in Seq(Bytes) /\ SumAt < Len(arrived) /\ b \in Bytes
  BY <1>1 DEF ChecksumInv, IsSegment, Bytes
<1>3. arrived' \in Seq(Bytes) /\ Len(arrived') = Len(arrived)
  BY <1>1, <1>2
<1>4. IsSegment(arrived)'
  BY <1>2, <1>3 DEF IsSegment
<1>5. /\ CHECKSUM' \in 0..Ones /\ checked' \in Nat /\ checked' > 0
      /\ IsSegment(message)'
      /\ (getCheckSum(message) = generateChecksum(message))'
      /\ Len(arrived)' = Len(message)'
  BY <1>1, <1>3 DEF ChecksumInv
<1> QED BY <1>4, <1>5 DEF ChecksumInv

(* What the receiver's test is of: the words of the two segments.          *)
LEMMA IntactIs ==
  ASSUME ChecksumInv, checked > 0
  PROVE  /\ Intact <=> WordAt(arrived, SumWord) = Ones - Folded(Total(WordsOf(arrived)))
         /\ WordAt(message, SumWord) = Ones - Folded(Total(WordsOf(message)))
<1>1. /\ IsSegment(message) /\ IsSegment(arrived)
      /\ getCheckSum(message) = generateChecksum(message)
  BY DEF ChecksumInv
<1> QED BY <1>1, SumOfSegment, WordsAreWords DEF Intact

(* A checksum that differs is not of the same words.                       *)
LEMMA DamagedChecksum ==
  ASSUME ChecksumInv, checked > 0, WordsOf(arrived) = WordsOf(message)
  PROVE  Intact <=> WordAt(arrived, SumWord) = WordAt(message, SumWord)
BY IntactIs

(* The words that the damage left alone.                                   *)
LEMMA SameWords ==
  ASSUME ChecksumInv, checked > 0,
         \A j \in 1..(Len(message) + 1) \div 2 :
           j # SumWord => WordAt(message, j) = WordAt(arrived, j)
  PROVE  WordsOf(arrived) = WordsOf(message)
<1>1. Len(arrived) = Len(message)
  BY DEF ChecksumInv
<1> QED BY <1>1 DEF WordsOf

(* One word of the data differs: the test passes only for zeros that       *)
(* become ones or back, next to something that is not 0.                   *)
LEMMA DamagedData ==
  ASSUME ChecksumInv, checked > 0, NEW k \in 1..(Len(message) + 1) \div 2, k # SumWord,
         WordAt(message, k) # WordAt(arrived, k),
         \A j \in 1..(Len(message) + 1) \div 2 :
           j # k => WordAt(message, j) = WordAt(arrived, j)
  PROVE  Intact <=> /\ {WordAt(message, k), WordAt(arrived, k)} = {0, Ones}
                    /\ \E j \in 1..(Len(message) + 1) \div 2 :
                         j # SumWord /\ j # k /\ WordAt(message, j) # 0
<1> DEFINE n == (Len(message) + 1) \div 2
           U == WordsOf(message)
           V == WordsOf(arrived)
           a == WordAt(message, k)
           b == WordAt(arrived, k)
           Z == [U EXCEPT ![k] = 0]
           rest == Total(Z)
<1>1. IsSegment(message) /\ IsSegment(arrived) /\ Len(arrived) = Len(message)
  BY DEF ChecksumInv
<1>2. n \in Nat /\ SumWord \in 1..n
  BY <1>1, WordPlaces
<1>3. /\ a \in 0..Ones /\ U \in Seq(Nat) /\ Len(U) = n
  BY <1>1, WordsAreWords
<1>4. /\ b \in 0..Ones /\ V \in Seq(Nat) /\ Len(V) = n
  BY <1>1, WordsAreWords
<1>5. /\ U = [j \in 1..n |-> IF j = SumWord THEN 0 ELSE WordAt(message, j)]
      /\ V = [j \in 1..n |-> IF j = SumWord THEN 0 ELSE WordAt(arrived, j)]
  BY <1>1 DEF WordsOf
<1>6. k \in 1..n
  OBVIOUS
<1> HIDE DEF n, U, V, a, b
<1>7. Z \in Seq(Nat) /\ Len(Z) = n /\ Z[k] = 0 /\ \A j \in 1..n : j # k => Z[j] = U[j]
  BY <1>3, <1>6
<1>8. /\ \A j \in 1..n : j # k => V[j] = U[j]
      /\ U[k] = a /\ V[k] = b /\ U[SumWord] = 0
      /\ \A j \in 1..n : j # SumWord => U[j] = WordAt(message, j)
  <2>1. \A j \in 1..n : j # k => WordAt(message, j) = WordAt(arrived, j)
    BY DEF n
  <2> QED BY <1>2, <1>5, <1>6, <2>1 DEF a, b
<1> HIDE DEF Z
<1>9. rest \in Nat
  BY <1>7, TotalNat
<1> HIDE DEF rest
<1>10. Total(U) = rest + a
  <2>1. \A j \in 1..Len(Z) : j # k => Z[j] = U[j]
    BY <1>7
  <2>2. Total(U) = Total(Z) - Z[k] + U[k]
    BY <1>3, <1>6, <1>7, <2>1, TotalsDiffer
  <2> QED BY <1>3, <1>7, <1>8, <1>9, <2>2 DEF rest
<1>11. Total(V) = rest + b
  <2>1. \A j \in 1..Len(Z) : j # k => Z[j] = V[j]
    BY <1>7, <1>8
  <2>2. Total(V) = Total(Z) - Z[k] + V[k]
    BY <1>4, <1>6, <1>7, <2>1, TotalsDiffer
  <2> QED BY <1>4, <1>7, <1>8, <1>9, <2>2 DEF rest
<1>12. rest > 0 <=> \E j \in 1..n : j # SumWord /\ j # k /\ WordAt(message, j) # 0
  <2>1. rest = 0 <=> \A j \in 1..n : Z[j] = 0
    <3>1. rest = 0 <=> \A j \in 1..Len(Z) : Z[j] = 0
      BY <1>7, TotalZero DEF rest
    <3> QED BY <1>7, <3>1
  <2>2. (\A j \in 1..n : Z[j] = 0) <=>
          \A j \in 1..n : j # SumWord /\ j # k => WordAt(message, j) = 0
    BY <1>2, <1>7, <1>8
  <2>3. rest > 0 <=> rest # 0
    BY <1>9
  <2> QED BY <2>1, <2>2, <2>3
<1>13. Intact <=> Folded(rest + a) = Folded(rest + b)
  <2>1. /\ Intact <=> WordAt(arrived, SumWord) = Ones - Folded(Total(V))
        /\ WordAt(message, SumWord) = Ones - Folded(Total(U))
    BY IntactIs DEF U, V
  <2>2. WordAt(message, SumWord) = WordAt(arrived, SumWord)
    BY <1>2 DEF n
  <2>3. Folded(rest + a) \in 0..Ones /\ Folded(rest + b) \in 0..Ones
    <3>1. rest + a \in Nat /\ rest + b \in Nat
      BY <1>3, <1>4, <1>9, OnesIsNat
    <3> QED BY <3>1, FoldedIsWord
  <2>4. Intact <=> Ones - Folded(rest + a) = Ones - Folded(rest + b)
    BY <1>10, <1>11, <2>1, <2>2
  <2> DEFINE x == Folded(rest + a)
             y == Folded(rest + b)
  <2> HIDE DEF x, y
  <2>5. Ones - x = Ones - y <=> x = y
    BY <2>3, OnesIsNat DEF x, y
  <2> QED BY <2>4, <2>5 DEF x, y
<1>14. a # b
  BY DEF a, b
<1>15. Folded(rest + a) = Folded(rest + b) <=> {a, b} = {0, Ones} /\ rest > 0
  BY <1>3, <1>4, <1>9, <1>14, FoldedAgree
<1> QED BY <1>12, <1>13, <1>15 DEF n, a, b

(* So the receiver's test is right, and wrong, about what it says.         *)
LEMMA DamageSeen == ChecksumInv => DamagedWordIsSeen
<1> DEFINE words   == 1..(Len(message) + 1) \div 2
           damaged == {k \in words : WordAt(message, k) # WordAt(arrived, k)}
           data    == words \ {SumWord}
           ends(k) == {WordAt(message, k), WordAt(arrived, k)} = {0, Ones}
           rest(k) == \E j \in data \ {k} : WordAt(message, j) # 0
<1> SUFFICES ASSUME ChecksumInv, checked > 0
             PROVE  /\ damaged = {} => Intact
                    /\ \A k \in words : damaged = {k} =>
                         (Intact <=> k \in data /\ ends(k) /\ rest(k))
  BY DEF DamagedWordIsSeen, SumWord, Ones
<1>1. SumWord \in words
  BY WordPlaces DEF ChecksumInv
<1>2. ASSUME damaged = {}
      PROVE  Intact
  <2>1. \A j \in words : WordAt(message, j) = WordAt(arrived, j)
    BY <1>2
  <2> QED BY <1>1, <2>1, SameWords, DamagedChecksum
<1>3. ASSUME NEW k \in words, damaged = {k}
      PROVE  Intact <=> k \in data /\ ends(k) /\ rest(k)
  <2>1. /\ WordAt(message, k) # WordAt(arrived, k)
        /\ \A j \in words : j # k => WordAt(message, j) = WordAt(arrived, j)
    BY <1>3
  <2>2. CASE k = SumWord
    <3>1. ~ Intact
      BY <2>1, <2>2, SameWords, DamagedChecksum
    <3> QED BY <2>2, <3>1
  <2>3. CASE k # SumWord
    <3>1. Intact <=> /\ ends(k)
                     /\ \E j \in words : j # SumWord /\ j # k /\ WordAt(message, j) # 0
      BY <2>1, <2>3, DamagedData
    <3> QED BY <2>3, <3>1
  <2> QED BY <2>2, <2>3
<1> QED BY <1>2, <1>3

(* An undamaged segment passes the receiver's test and damage to a word    *)
(* does not, but for zeros that become ones or back next to something      *)
(* that is not 0 (generateChecksum of sender.java and receiver.java).      *)
THEOREM DamageIsSeen == Spec => []DamagedWordIsSeen
<1>1. Init => ChecksumInv
  BY OnesIsNat DEF Init, ChecksumInit, ChecksumInv
<1>2. ChecksumInv /\ [Next]_partsVars => ChecksumInv'
  <2>1. ASSUME ChecksumInv, UNCHANGED checksumVars
        PROVE  ChecksumInv'
    BY <2>1 DEF checksumVars, ChecksumInv, IsSegment, getCheckSum, generateChecksum,
                Stream
  <2>2. ASSUME ChecksumInv, ChecksumNext
        PROVE  ChecksumInv'
    BY <2>2, ChecksumSent, ChecksumDamaged DEF ChecksumNext
  <2> QED BY <2>1, <2>2 DEF Next, OthersStay, partsVars
<1>3. ChecksumInv => DamagedWordIsSeen
  BY DamageSeen
<1> QED BY <1>1, <1>2, <1>3, PTL DEF Spec

=============================================================================
