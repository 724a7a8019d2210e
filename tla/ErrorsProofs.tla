---------------------------- MODULE ErrorsProofs ----------------------------
(***************************************************************************)
(* Proofs about the errors that sendHandler makes: the rate of the Gilbert *)
(* model for all percentages and every RAND_MAX, and which bit errors stay *)
(* within the packet, for every size of it and every width of int.         *)
(***************************************************************************)
EXTENDS Parts, NumberTheorems, FiniteSetTheorems

----------------------------------------------------------------------------
(* The Gilbert model.                                                      *)

(* How many values of rand() satisfy an inequality like that of ran1.      *)
LEMMA CountUnder ==
  ASSUME NEW d \in Nat \ {0}, NEW max \in Nat, NEW n \in Nat, n <= d * max
  PROVE  LET S == {r \in 0..max : r * d < n}
         IN  /\ Cardinality(S) \in Nat
             /\ n <= Cardinality(S) * d /\ Cardinality(S) * d < n + d
<1> DEFINE S == {r \in 0..max : r * d < n}
           m == (n + d) - 1
           k == m \div d
<1>1. m \in Nat
  OBVIOUS
<1>2. k \in Nat /\ m % d \in 0..d - 1 /\ m = d * k + (m % d)
  BY <1>1, Division
<1> HIDE DEF k
<1>3. k * d = d * k /\ d * k \in Nat /\ (k + 1) * d = k * d + d
  BY <1>2
<1>4. n <= k * d /\ k * d < n + d
  BY <1>2, <1>3
<1>5. k <= max + 1
  <2>1. (max + 2) * d = d * max + 2 * d /\ d * max \in Nat
    OBVIOUS
  <2>2. k * d < (max + 2) * d
    BY <1>3, <1>4, <2>1
  <2>3. k < max + 2
    BY <1>2, <2>2, CancelFactor
  <2> QED BY <1>2, <2>3
<1>6. S = 0..k - 1
  <2>1. ASSUME NEW r \in 0..max, r * d < n
        PROVE  r \in 0..k - 1
    <3>1. r * d < k * d
      BY <1>3, <1>4, <2>1
    <3>2. r < k
      BY <1>2, <3>1, CancelFactor
    <3> QED BY <1>2, <3>2
  <2>2. ASSUME NEW r \in 0..k - 1
        PROVE  r \in 0..max /\ r * d < n
    <3>1. r \in Nat /\ r + 1 <= k
      BY <1>2
    <3>2. (r + 1) * d <= k * d /\ (r + 1) * d = r * d + d /\ r * d \in Nat
      BY <1>2, <3>1, Multiply
    <3>3. k * d <= m
      BY <1>2, <1>3
    <3> QED BY <1>3, <1>5, <3>1, <3>2, <3>3
  <2> QED BY <2>1, <2>2
<1> HIDE DEF S
<1>7. Cardinality(S) = k
  <2>1. Cardinality(0..k - 1) = IF 0 > k - 1 THEN 0 ELSE ((k - 1) - 0) + 1
    BY <1>2, FS_Interval
  <2>2. Cardinality(0..k - 1) = k
    BY <1>2, <2>1
  <2> QED BY <1>6, <2>2
<1>8. Cardinality(S) \in Nat /\ n <= Cardinality(S) * d /\ Cardinality(S) * d < n + d
  BY <1>2, <1>4, <1>7
<1> QED BY <1>8 DEF S

(* Where the derived probability does not exceed 1, the stages balance at  *)
(* the rate that -U asks for.                                              *)
LEMMA StagesBalance ==
  ASSUME NEW u \in Nat, NEW c \in Nat, NEW max \in Nat, c < 100,
         u * (100 - c) <= 100 * (100 - u),
         NEW k0 \in Nat, NEW k1 \in Nat,
         u * (100 - c) * max <= k0 * (100 * (100 - u)),
         k0 * (100 * (100 - u)) < u * (100 - c) * max + 100 * (100 - u),
         c * max <= k1 * 100, k1 * 100 < c * max + 100
  PROVE  ((100 - u) * k0 + u * k1) - (u * (max + 1)) \in -100..100
<1>1. u < 100
  <2>1. CASE u = 0
    BY <2>1
  <2>2. CASE u # 0
    <3>1. u * 1 <= u * (100 - c)
      <4>1. 1 <= 100 - c /\ 100 - c \in Nat
        OBVIOUS
      <4>2. 1 * u <= (100 - c) * u /\ (100 - c) * u = u * (100 - c)
        BY <4>1, Multiply
      <4> QED BY <4>2
    <3>2. u * (100 - c) \in Int
      OBVIOUS
    <3> QED BY <2>2, <3>1, <3>2
  <2> QED BY <2>1, <2>2
<1> DEFINE v  == 100 - u
           x  == v * k0
           y  == u * k1
           cm == c * max
           um == u * max
           uc == u * cm
<1>2. v \in 1..100 /\ x \in Nat /\ y \in Nat /\ cm \in Nat /\ um \in Nat /\ uc \in Nat
  <2>1. v \in 1..100
    BY <1>1
  <2> HIDE DEF v
  <2>2. x \in Nat /\ y \in Nat /\ cm \in Nat /\ um \in Nat
    BY <2>1
  <2> HIDE DEF cm
  <2> QED BY <2>1, <2>2
<1>3. k0 * (100 * v) = 100 * x
  BY <1>2
<1>4. u * (100 - c) * max = 100 * um - uc
  OBVIOUS
<1>5. uc <= 100 * y /\ 100 * y <= uc + 99 * u
  <2>1. cm * u <= (k1 * 100) * u
    BY <1>2, Multiply
  <2>2. (k1 * 100) * u <= (cm + 99) * u
    <3>1. k1 * 100 <= cm + 99
      BY <1>2
    <3> HIDE DEF cm
    <3> QED BY <1>2, <3>1, Multiply
  <2>3. (k1 * 100) * u = 100 * y /\ cm * u = uc
    OBVIOUS
  <2>4. (cm + 99) * u = uc + 99 * u
    <3> HIDE DEF cm
    <3> QED BY <1>2
  <2> QED BY <2>1, <2>2, <2>3, <2>4
<1>6. 100 * um - uc <= 100 * x /\ 100 * x < (100 * um - uc) + 100 * v
  BY <1>3, <1>4
<1>7. u * (max + 1) = um + u
  OBVIOUS
<1>8. v = 100 - u
  OBVIOUS
<1> HIDE DEF v, x, y, um, uc, cm
<1>9. (x + y) - (um + u) \in -100..100
  BY <1>1, <1>2, <1>5, <1>6, <1>8
<1> QED BY <1>7, <1>9 DEF v, x, y

----------------------------------------------------------------------------
(* Bit errors.                                                             *)

HalfInts == Ints \div 2

(* An int has an even number of halves.                                    *)
LEMMA IntsEven == \E c \in Nat : c >= 2 /\ HalfInts = 2 * c /\ Ints = 4 * c
<1> DEFINE c == Ints \div 4
<1>1. c \in Nat /\ Ints = 4 * c
  <2>1. c \in Nat /\ Ints = 4 * c + (Ints % 4)
    BY ErrorsAssumption, Division
  <2> QED BY <2>1, ErrorsAssumption
<1> HIDE DEF c
<1>2. c >= 2
  BY <1>1, ErrorsAssumption
<1>3. HalfInts = 2 * c
  BY <1>1 DEF HalfInts
<1> QED BY <1>1, <1>2, <1>3

(* A quotient is no further from zero than its dividend allows.            *)
LEMMA QuotientWithin ==
  ASSUME NEW a \in Int, NEW b \in Nat \ {0}, NEW k \in Nat,
         a < (k + 1) * b, -a < (k + 1) * b
  PROVE  /\ Quotient(a, b) \in Int
         /\ Quotient(a, b) \in -k..k
         /\ a >= 0 => Quotient(a, b) \in 0..k
         /\ a < 0 => Quotient(a, b) <= 0
<1>1. ASSUME NEW n \in Nat, n < (k + 1) * b
      PROVE  n \div b \in 0..k
  <2> DEFINE q == n \div b
  <2>1. q \in Nat /\ n % b \in 0..b - 1 /\ n = b * q + (n % b)
    BY Division
  <2> HIDE DEF q
  <2>2. q * b = b * q /\ b * q \in Nat /\ (k + 1) * b \in Nat
    BY <2>1
  <2>3. q * b < (k + 1) * b
    BY <1>1, <2>1, <2>2
  <2>4. q < k + 1
    BY <2>1, <2>3, CancelFactor
  <2> QED BY <2>1, <2>4 DEF q
<1>2. CASE a < 0
  <2>1. -a \in Nat /\ (-a) \div b \in 0..k
    BY <1>1, <1>2
  <2>2. Quotient(a, b) = -((-a) \div b)
    BY <1>2 DEF Quotient
  <2> DEFINE q == (-a) \div b
  <2>3. q \in 0..k /\ Quotient(a, b) = -q
    BY <2>1, <2>2
  <2> HIDE DEF q
  <2> QED BY <1>2, <2>3
<1>3. CASE a >= 0
  <2>1. a \div b \in 0..k
    BY <1>1, <1>3
  <2>2. Quotient(a, b) = a \div b
    BY <1>3 DEF Quotient
  <2> QED BY <1>3, <2>1, <2>2
<1> QED BY <1>2, <1>3

(* What a product is as an int: itself if it fits, and even if it is.      *)
LEMMA IntOf ==
  ASSUME NEW n \in Nat
  PROVE  /\ ToInt(n) \in -HalfInts..HalfInts - 1
         /\ n < HalfInts => ToInt(n) = n
         /\ \A a \in Nat : n = 2 * a => \E t \in Int : ToInt(n) = 2 * t
<1>1. PICK c \in Nat : c >= 2 /\ HalfInts = 2 * c /\ Ints = 4 * c
  BY IntsEven
<1> DEFINE q == (n + HalfInts) \div Ints
           m == (n + HalfInts) % Ints
<1>2. /\ ToInt(n) = m - HalfInts
      /\ q \in Nat /\ m \in 0..Ints - 1 /\ n + HalfInts = Ints * q + m
  <2>1. n + HalfInts \in Nat /\ Ints \in Nat \ {0}
    BY <1>1
  <2>2. q \in Nat /\ m \in 0..Ints - 1 /\ n + HalfInts = Ints * q + m
    BY <2>1, Division
  <2> QED BY <2>2 DEF ToInt, HalfInts
<1> HIDE DEF q, m
<1> DEFINE cq == c * q
<1>3. Ints * q = 4 * cq /\ cq \in Nat
  BY <1>1, <1>2
<1>4. ToInt(n) \in -HalfInts..HalfInts - 1
  BY <1>1, <1>2
<1>5. ASSUME n < HalfInts
      PROVE  ToInt(n) = n
  <2>1. q = 0
    <3>1. q * Ints < 1 * Ints
      <4>1. q * Ints = Ints * q /\ q * Ints \in Nat /\ 1 * Ints = Ints
        BY <1>1, <1>2
      <4> QED BY <1>1, <1>2, <1>5, <4>1
    <3>2. q < 1
      BY <1>1, <1>2, <3>1, CancelFactor
    <3> QED BY <1>2, <3>2
  <2> QED BY <1>1, <1>2, <2>1
<1>6. ASSUME NEW a \in Nat, n = 2 * a
      PROVE  \E t \in Int : ToInt(n) = 2 * t
  <2> HIDE DEF cq
  <2>1. a - 2 * cq \in Int /\ ToInt(n) = 2 * (a - 2 * cq)
    BY <1>1, <1>2, <1>3, <1>6
  <2> QED BY <2>1
<1> QED BY <1>4, <1>5, <1>6

(* The bytes that a bit error may change in a packet of w bytes.           *)
Reach(max, w) ==
  {n \in -8..8 : /\ max * w * 8 < HalfInts => n >= 0
                 /\ max = HalfInts - 1 => n \in -1..0 /\ (n = -1 => w = 1)}

(* isBitError's arithmetic, for every value of rand().                     *)
LEMMA ByteWithinReach ==
  ASSUME build \in RandMaxes, wBytes \in Nat \ {0}, NEW r \in rand
  PROVE  byteNum(seqBitNum(r)) \in Reach(build, wBytes)
<1> DEFINE n == r * wBytes * 8
           top == build * wBytes * 8
           a == ToInt(n)
           s == Quotient(a, build)
           b == Quotient(s, wBytes)
<1>1. PICK c \in Nat : c >= 2 /\ HalfInts = 2 * c /\ Ints = 4 * c
  BY IntsEven
<1>2. build \in Nat \ {0} /\ build <= HalfInts - 1 /\ r \in Nat /\ r <= build
  <2>1. build \in 1..HalfInts - 1
    BY ErrorsAssumption DEF HalfInts
  <2> QED BY <1>1, <2>1 DEF rand
<1>3. n \in Nat /\ top \in Nat /\ n <= top /\ top = (8 * wBytes) * build
  <2> DEFINE rw == r * wBytes
             bw == build * wBytes
  <2>1. rw \in Nat /\ bw \in Nat /\ rw <= bw
    BY <1>2, Multiply
  <2>2. n = rw * 8 /\ top = bw * 8
    OBVIOUS
  <2>3. (8 * wBytes) * build = 8 * bw
    BY <1>2
  <2> HIDE DEF rw, bw
  <2> QED BY <2>1, <2>2, <2>3
<1>4. \E m \in Nat : n = 2 * m
  <2> DEFINE m == r * wBytes * 4
  <2>1. m \in Nat /\ n = 2 * m
    BY <1>2
  <2> QED BY <2>1
<1>5. /\ a \in -HalfInts..HalfInts - 1
      /\ n < HalfInts => a = n
      /\ \E t \in Int : a = 2 * t
  <2> HIDE DEF n
  <2> QED BY <1>3, <1>4, IntOf
<1>6. byteNum(seqBitNum(r)) = b
  BY DEF byteNum, seqBitNum
<1> HIDE DEF n, a
<1>7. /\ s \in Int /\ s \in -(8 * wBytes)..(8 * wBytes)
      /\ a >= 0 => s \in 0..(8 * wBytes)
  <2>1. (8 * wBytes + 1) * build = top + build
    BY <1>2, <1>3, Distribute
  <2> HIDE DEF top
  <2>2. a \in Int /\ a <= top /\ -a <= top
    <3>1. CASE n < HalfInts
      BY <1>3, <1>5, <3>1
    <3>2. CASE ~(n < HalfInts)
      BY <1>1, <1>3, <1>5, <3>2
    <3> QED BY <3>1, <3>2
  <2>3. a < (8 * wBytes + 1) * build /\ -a < (8 * wBytes + 1) * build
    BY <1>2, <1>3, <2>1, <2>2
  <2>4. 8 * wBytes \in Nat
    OBVIOUS
  <2> QED BY <1>2, <2>2, <2>3, <2>4, QuotientWithin
<1> HIDE DEF s
<1>8. b \in Int /\ b \in -8..8 /\ (s >= 0 => b \in 0..8)
  <2>1. (8 + 1) * wBytes = 8 * wBytes + wBytes
    OBVIOUS
  <2>2. s < (8 + 1) * wBytes /\ -s < (8 + 1) * wBytes
    BY <1>7, <2>1
  <2> QED BY <1>7, <2>2, QuotientWithin
<1>9. ASSUME top < HalfInts
      PROVE  b >= 0
  <2>1. n < HalfInts
    BY <1>1, <1>3, <1>9
  <2>2. a >= 0
    BY <1>3, <1>5, <2>1
  <2> QED BY <1>7, <1>8, <2>2
<1>10. ASSUME build = HalfInts - 1
       PROVE  b \in -1..0 /\ (b = -1 => wBytes = 1)
  <2>1. s \in -1..0
    <3>1. PICK t \in Int : a = 2 * t
      BY <1>5
    <3>2. a <= HalfInts - 2
      BY <1>1, <1>5, <3>1
    <3>3. a < (1 + 1) * build /\ -a < (1 + 1) * build
      BY <1>1, <1>5, <1>10
    <3>4. a \in Int /\ s \in -1..1 /\ (a < 0 => s <= 0)
      <4>1. a \in Int
        BY <1>1, <1>5
      <4>2. Quotient(a, build) \in -1..1 /\ (a < 0 => Quotient(a, build) <= 0)
        BY <1>2, <3>3, <4>1, QuotientWithin
      <4> QED BY <4>1, <4>2 DEF s
    <3>5. ASSUME a >= 0
          PROVE  s = 0
      <4>1. a < (0 + 1) * build /\ -a < (0 + 1) * build
        BY <1>1, <1>10, <3>2, <3>5, <3>4
      <4>2. s \in 0..0
        BY <1>2, <3>4, <3>5, <4>1, QuotientWithin DEF s
      <4> QED BY <4>2
    <3> QED BY <3>4, <3>5
  <2>2. b \in -1..1 /\ (s < 0 => b <= 0) /\ (s >= 0 => b \in 0..1)
    <3>1. s < (1 + 1) * wBytes /\ -s < (1 + 1) * wBytes
      BY <2>1
    <3> QED BY <2>1, <3>1, QuotientWithin
  <2>3. ASSUME s = 0 \/ wBytes # 1
        PROVE  b = 0
    <3>1. s < (0 + 1) * wBytes /\ -s < (0 + 1) * wBytes
      BY <2>1, <2>3
    <3>2. b \in -0..0
      BY <2>1, <3>1, QuotientWithin
    <3> QED BY <3>2
  <2> QED BY <2>1, <2>2, <2>3
<1> QED BY <1>6, <1>8, <1>9, <1>10 DEF Reach

(* Flipping a bit adds at most one to the bits that differ.                *)
LEMMA FlipCounts ==
  ASSUME NEW S, IsFiniteSet(S), NEW b, NEW bits, bits = {} \/ \E n : bits = {n}
  PROVE  LET flipped == {b} \X bits
             T == (S \ flipped) \cup (flipped \ S)
         IN  /\ IsFiniteSet(T) /\ Cardinality(T) <= Cardinality(S) + 1
             /\ \A c \in T : c \in S \/ c[1] = b
<1> DEFINE flipped == {b} \X bits
           T == (S \ flipped) \cup (flipped \ S)
<1>1. Cardinality(S) \in Nat
  BY FS_CardinalityType
<1>2. \A c \in T : c \in S \/ c[1] = b
  OBVIOUS
<1>3. T = S \/ \E x : (x \in S /\ T = S \ {x}) \/ (x \notin S /\ T = S \cup {x})
  <2>1. CASE bits = {}
    BY <2>1
  <2>2. CASE \E n : bits = {n}
    <3>1. PICK n : bits = {n}
      BY <2>2
    <3> DEFINE x == <<b, n>>
    <3>2. flipped = {x}
      BY <3>1
    <3> HIDE DEF flipped, x
    <3>3. x \in S => T = S \ {x}
      BY <3>2
    <3>4. x \notin S => T = S \cup {x}
      BY <3>2
    <3> QED BY <3>3, <3>4
  <2> QED BY <2>1, <2>2
<1> HIDE DEF T
<1>4. IsFiniteSet(T) /\ Cardinality(T) <= Cardinality(S) + 1
  <2>1. CASE T = S
    BY <1>1, <2>1
  <2>2. ASSUME NEW x, x \in S, T = S \ {x}
        PROVE  IsFiniteSet(T) /\ Cardinality(T) <= Cardinality(S) + 1
    <3>1. IsFiniteSet(S \ {x}) /\ Cardinality(S \ {x}) = Cardinality(S) - 1
      BY <2>2, FS_RemoveElement
    <3> QED BY <1>1, <2>2, <3>1
  <2>3. ASSUME NEW x, x \notin S, T = S \cup {x}
        PROVE  IsFiniteSet(T) /\ Cardinality(T) <= Cardinality(S) + 1
    <3>1. IsFiniteSet(S \cup {x}) /\ Cardinality(S \cup {x}) = Cardinality(S) + 1
      BY <2>3, FS_AddElement
    <3> QED BY <1>1, <2>3, <3>1
  <2> QED BY <1>3, <2>1, <2>2, <2>3
<1> QED BY <1>2, <1>4 DEF T

----------------------------------------------------------------------------
(* The program.                                                            *)

(* The build and its options are chosen once; each bit that isBitError has *)
(* flipped so far accounts for at most one that differs, within reach of   *)
(* the packet's size.                                                      *)
ErrorsInv ==
  /\ build = 0 => changed = {} /\ corruptBits = 0
  /\ build # 0 => build \in RandMaxes /\ errorOptions \in ErrorOptions
  /\ gilbertLost \in BOOLEAN /\ (stage = 1 <=> gilbertLost)
  /\ wBytes \in Nat \ {0}
  /\ i \in Nat /\ corruptBits \in Nat /\ i <= corruptBits
  /\ IsFiniteSet(changed) /\ Cardinality(changed) <= i
  /\ \A c \in changed : c[1] \in Reach(build, wBytes)

(* What gilbRand returns.                                                  *)
LEMMA GilbRandResult ==
  ASSUME NEW s, NEW r
  PROVE  LET g    == gilbRand(s, r)
             cond == errorOptions.gilCondLoss
             uncond == errorOptions.gilUncondLoss
         IN  /\ g.lost \in BOOLEAN /\ (g.lost <=> g.stage = 1)
             /\ s = 0 /\ ~(100 * (100 - uncond) < 0) =>
                  (g.lost <=> r * (100 * (100 - uncond)) < uncond * (100 - cond) * build)
             /\ s = 1 => (g.lost <=> r * 100 < cond * build)
<1> DEFINE g    == gilbRand(s, r)
           cond == errorOptions.gilCondLoss
           uncond == errorOptions.gilUncondLoss
           first == Under(r, uncond * (100 - cond), 100 * (100 - uncond))
           other == Under(r, cond, 100)
           lost  == IF s = 0 THEN first ELSE other
<1>1. g = [lost |-> lost, stage |-> IF lost THEN 1 ELSE 0]
  BY DEF gilbRand
<1>2. first \in BOOLEAN /\ other \in BOOLEAN
  <2>1. ASSUME NEW n, NEW d
        PROVE  Under(r, n, d) \in BOOLEAN
    <3>1. CASE d < 0
      <4>1. Under(r, n, d) = (n * build < r * d)
        BY <3>1, Zenon DEF Under
      <4> QED BY <4>1
    <3>2. CASE ~(d < 0)
      <4>1. Under(r, n, d) = (r * d < n * build)
        BY <3>2, Zenon DEF Under
      <4> QED BY <4>1
    <3> QED BY <3>1, <3>2
  <2> QED BY <2>1, Zenon
<1>3. ASSUME NEW d, ~(d < 0), NEW n
      PROVE  Under(r, n, d) <=> r * d < n * build
  BY <1>3, Zenon DEF Under
<1>4. /\ ~(100 * (100 - uncond) < 0) =>
           (first <=> r * (100 * (100 - uncond)) < uncond * (100 - cond) * build)
      /\ other <=> r * 100 < cond * build
  <2>1. ~(100 < 0)
    OBVIOUS
  <2>2. other <=> r * 100 < cond * build
    BY <1>3, <2>1, Zenon
  <2>3. ASSUME ~(100 * (100 - uncond) < 0)
        PROVE  first <=> r * (100 * (100 - uncond)) < uncond * (100 - cond) * build
    BY <1>3, <2>3, Zenon
  <2> QED BY <2>2, <2>3, Zenon
<1>5. lost \in BOOLEAN
  BY <1>2
<1> HIDE DEF g, first, other
<1>6. g.lost = lost /\ (s = 0 => lost = first) /\ (s = 1 => lost = other)
  BY <1>1
<1>7. lost => g.stage = 1
  BY <1>1
<1>8. ~lost => g.stage = 0
  BY <1>1
<1> HIDE DEF lost
<1>9. g.lost \in BOOLEAN /\ (g.lost <=> g.stage = 1)
  <2>1. CASE lost
    BY <1>5, <1>6, <1>7, <2>1
  <2>2. CASE ~lost
    BY <1>5, <1>6, <1>8, <2>2
  <2> QED BY <2>1, <2>2
<1>10. /\ s = 0 => (g.lost <=> first)
       /\ s = 1 => (g.lost <=> other)
  BY <1>6, Zenon
<1> QED BY <1>4, <1>9, <1>10, Zenon DEF g

(* A packet that is kept or lost begins without a bit changed.             *)
LEMMA PacketBegins ==
  ASSUME ErrorsInv, NEW bytes \in PacketSizes, NextPacket(bytes), PacketKept \/ PacketLost,
         gilbertLost' \in BOOLEAN, stage' = 1 <=> gilbertLost'
  PROVE  ErrorsInv'
<1>1. /\ build # 0 /\ build' = build /\ errorOptions' = errorOptions
      /\ wBytes' = bytes /\ changed' = {} /\ i' = 0
  BY DEF NextPacket
<1>2. bytes \in Nat \ {0}
  BY ErrorsAssumption
<1>3. corruptBits' \in Nat
  <2>1. CASE PacketLost
    BY <2>1 DEF PacketLost
  <2>2. CASE PacketKept
    BY <1>1, <1>2, <2>2 DEF PacketKept, bnldev
  <2> QED BY <2>1, <2>2
<1>4. IsFiniteSet(changed') /\ Cardinality(changed') = 0
  BY <1>1, FS_EmptySet
<1> QED BY <1>1, <1>2, <1>3, <1>4 DEF ErrorsInv

(* A bit error stays within reach.                                         *)
LEMMA CorruptBitStaysWithin ==
  ASSUME ErrorsInv, CorruptBit
  PROVE  ErrorsInv'
<1>1. /\ i < corruptBits /\ i' = i + 1
      /\ UNCHANGED <<build, errorOptions, stage, gilbertLost, wBytes, corruptBits>>
  BY DEF CorruptBit
<1>2. build # 0 /\ build \in RandMaxes
  BY <1>1 DEF ErrorsInv
<1>3. PICK r \in rand : \E bits \in bitsToCrpt(Remainder(seqBitNum(r), wBytes)) :
        LET flipped == {byteNum(seqBitNum(r))} \X bits
        IN  changed' = (changed \ flipped) \cup (flipped \ changed)
  BY DEF CorruptBit
<1> DEFINE b == byteNum(seqBitNum(r))
           n == Remainder(seqBitNum(r), wBytes)
<1>4. PICK bits \in bitsToCrpt(n) :
        changed' = (changed \ ({b} \X bits)) \cup (({b} \X bits) \ changed)
  BY <1>3
<1>5. b \in Reach(build, wBytes)
  BY <1>2, ByteWithinReach DEF ErrorsInv
<1> HIDE DEF b, n
<1>6. bits = {} \/ \E m : bits = {m}
  <2>1. CASE n \in 0..31
    <3>1. bits = {n} \cap (0..7)
      BY <2>1 DEF bitsToCrpt
    <3> QED BY <3>1
  <2>2. CASE n \notin 0..31
    BY <2>2 DEF bitsToCrpt
  <2> QED BY <2>1, <2>2
<1>7. /\ IsFiniteSet(changed') /\ Cardinality(changed') <= Cardinality(changed) + 1
      /\ \A c \in changed' : c \in changed \/ c[1] = b
  BY <1>4, <1>6, FlipCounts DEF ErrorsInv
<1>8. Cardinality(changed) \in Nat /\ Cardinality(changed') \in Nat
  BY <1>7, FS_CardinalityType DEF ErrorsInv
<1>9. Cardinality(changed') <= i' /\ i' \in Nat /\ i' <= corruptBits'
  BY <1>1, <1>7, <1>8 DEF ErrorsInv
<1>10. \A c \in changed' : c[1] \in Reach(build', wBytes')
  BY <1>1, <1>5, <1>7 DEF ErrorsInv
<1> QED BY <1>1, <1>2, <1>7, <1>9, <1>10 DEF ErrorsInv

(* Any sequence of packets and bit errors keeps the invariant.             *)
LEMMA ErrorsInvariant == Spec => []ErrorsInv
<1>1. Init => ErrorsInv
  <2> SUFFICES ASSUME Init PROVE ErrorsInv
    OBVIOUS
  <2>1. /\ build = 0 /\ changed = {} /\ corruptBits = 0 /\ i = 0 /\ wBytes = 1
        /\ stage = 0 /\ gilbertLost = FALSE
    BY DEF Init, ErrorsInit
  <2>2. IsFiniteSet(changed) /\ Cardinality(changed) = 0
    BY <2>1, FS_EmptySet
  <2>3. gilbertLost \in BOOLEAN /\ (stage = 1 <=> gilbertLost)
    <3>1. stage # 1
      BY <2>1
    <3> QED BY <2>1, <3>1, Zenon
  <2> QED BY <2>1, <2>2, <2>3 DEF ErrorsInv
<1>2. ErrorsInv /\ [Next]_partsVars => ErrorsInv'
  <2>1. ASSUME ErrorsInv, UNCHANGED errorVars
        PROVE  ErrorsInv'
    BY <2>1 DEF errorVars, ErrorsInv
  <2>2. ASSUME ErrorsInv, ErrorsNext
        PROVE  ErrorsInv'
    <3>1. ASSUME NEW max \in RandMaxes, NEW o \in ErrorOptions, RunErrors(max, o)
          PROVE  ErrorsInv'
      <4>1. max # 0
        BY ErrorsAssumption
      <4> QED BY <2>2, <3>1, <4>1 DEF RunErrors, ErrorsInv
    <3>2. ASSUME NEW bytes \in PacketSizes, KeepByRate(bytes) \/ LoseByRate(bytes)
          PROVE  ErrorsInv'
      <4>1. NextPacket(bytes) /\ (PacketKept \/ PacketLost) /\ UNCHANGED <<stage, gilbertLost>>
        BY <3>2 DEF KeepByRate, LoseByRate
      <4>2. gilbertLost' \in BOOLEAN /\ (stage' = 1 <=> gilbertLost')
        BY <2>2, <4>1 DEF ErrorsInv
      <4> QED BY <2>2, <4>1, <4>2, PacketBegins
    <3>3. ASSUME NEW bytes \in PacketSizes, GilbertDecides(bytes)
          PROVE  ErrorsInv'
      <4>1. PICK r \in rand :
              LET g == gilbRand(stage, r)
              IN  /\ stage' = g.stage /\ gilbertLost' = g.lost
                  /\ IF g.lost THEN PacketLost ELSE PacketKept
        BY <3>3 DEF GilbertDecides
      <4> DEFINE g == gilbRand(stage, r)
      <4>2. g.lost \in BOOLEAN /\ (g.lost <=> g.stage = 1)
        BY GilbRandResult
      <4>3. stage' = g.stage /\ gilbertLost' = g.lost /\ (PacketLost \/ PacketKept)
        BY <4>1
      <4>4. NextPacket(bytes)
        BY <3>3 DEF GilbertDecides
      <4> HIDE DEF g
      <4>5. gilbertLost' \in BOOLEAN /\ (stage' = 1 <=> gilbertLost')
        BY <4>2, <4>3, Zenon
      <4> QED BY <2>2, <4>3, <4>4, <4>5, PacketBegins
    <3> QED BY <2>2, <3>1, <3>2, <3>3, CorruptBitStaysWithin DEF ErrorsNext
  <2> QED BY <2>1, <2>2 DEF Next, OthersStay, partsVars
<1> QED BY <1>1, <1>2, PTL DEF Spec

(* For all percentages and every RAND_MAX, the stage is the last loss, and *)
(* the stages balance at the rate that -U asks for to within one value of  *)
(* rand(), wherever the derived probability does not exceed 1.             *)
THEOREM GilbertModelCorrect == Spec => []GilbertModel
<1>1. ErrorsInv => GilbertModel
  <2> SUFFICES ASSUME ErrorsInv, build # 0
               PROVE  GilbertModel
    BY DEF GilbertModel
  <2> DEFINE c == errorOptions.gilCondLoss
             u == errorOptions.gilUncondLoss
             k(s) == Cardinality({r \in rand : gilbRand(s, r).lost})
  <2>1. c \in Nat /\ u \in Nat /\ build \in Nat
    <3>1. errorOptions \in ErrorOptions /\ build \in 1..HalfInts - 1
      BY ErrorsAssumption DEF ErrorsInv, HalfInts
    <3> QED BY <3>1, ErrorsAssumption
  <2>2. (stage = 1) = gilbertLost
    BY DEF ErrorsInv
  <2>3. ASSUME c < 100, u * (100 - c) <= 100 * (100 - u)
        PROVE  ((100 - u) * k(0) + u * k(1)) - (u * (build + 1)) \in -100..100
    <3> DEFINE S0 == {r \in 0..build : r * (100 * (100 - u)) < u * (100 - c) * build}
               S1 == {r \in 0..build : r * 100 < c * build}
    <3>1. u < 100
      <4>1. CASE u = 0
        BY <4>1
      <4>2. CASE u # 0
        <5>1. 1 * u <= (100 - c) * u /\ (100 - c) * u = u * (100 - c)
          <6>1. 100 - c \in Nat /\ 1 <= 100 - c
            BY <2>1, <2>3
          <6> QED BY <2>1, <6>1, Multiply
        <5>2. u * (100 - c) \in Int
          BY <2>1
        <5> QED BY <2>1, <2>3, <4>2, <5>1, <5>2
      <4> QED BY <4>1, <4>2
    <3>2. {r \in rand : gilbRand(0, r).lost} = S0 /\ {r \in rand : gilbRand(1, r).lost} = S1
      <4>1. \A r : gilbRand(0, r).lost <=> r * (100 * (100 - u)) < u * (100 - c) * build
        <5>1. ~(100 * (100 - u) < 0)
          BY <2>1, <3>1
        <5> QED BY <5>1, GilbRandResult
      <4>2. \A r : gilbRand(1, r).lost <=> r * 100 < c * build
        BY GilbRandResult
      <4> QED BY <4>1, <4>2, Zenon DEF rand
    <3>3. /\ Cardinality(S0) \in Nat
          /\ u * (100 - c) * build <= Cardinality(S0) * (100 * (100 - u))
          /\ Cardinality(S0) * (100 * (100 - u)) < u * (100 - c) * build + 100 * (100 - u)
      <4> DEFINE d == 100 * (100 - u)
                 a == u * (100 - c)
      <4>1. d \in Nat \ {0} /\ a \in Nat /\ a <= d
        BY <2>1, <2>3, <3>1
      <4> HIDE DEF d, a
      <4>2. a * build \in Nat /\ a * build <= d * build
        BY <2>1, <4>1, Multiply
      <4>3. LET S == {r \in 0..build : r * d < a * build}
            IN  /\ Cardinality(S) \in Nat
                /\ a * build <= Cardinality(S) * d /\ Cardinality(S) * d < a * build + d
        BY <2>1, <4>1, <4>2, CountUnder
      <4> QED BY <4>3 DEF d, a
    <3>4. /\ Cardinality(S1) \in Nat
          /\ c * build <= Cardinality(S1) * 100 /\ Cardinality(S1) * 100 < c * build + 100
      <4>1. c * build \in Nat /\ c * build <= 100 * build
        BY <2>1, <2>3, Multiply
      <4> DEFINE n == c * build
      <4>2. n \in Nat /\ n <= 100 * build
        BY <4>1
      <4> HIDE DEF n
      <4>3. LET S == {r \in 0..build : r * 100 < n}
            IN  /\ Cardinality(S) \in Nat
                /\ n <= Cardinality(S) * 100 /\ Cardinality(S) * 100 < n + 100
        <5>1. 100 \in Nat \ {0}
          OBVIOUS
        <5> HIDE DEF S1, S0, c, u
        <5> QED BY <2>1, <4>2, <5>1, CountUnder
      <4> QED BY <4>3 DEF n
    <3>5. k(0) = Cardinality(S0) /\ k(1) = Cardinality(S1)
      BY <3>2
    <3> HIDE DEF S0, S1, k, c, u
    <3>6. ((100 - u) * Cardinality(S0) + u * Cardinality(S1)) - (u * (build + 1)) \in -100..100
      BY <2>1, <2>3, <3>3, <3>4, StagesBalance
    <3> QED BY <3>5, <3>6
  <2> QED
    <3>1. c < 100 /\ u * (100 - c) <= 100 * (100 - u) =>
            ((100 - u) * k(0) + u * k(1)) - (u * (build + 1)) \in -100..100
      BY <2>3
    <3> QED BY <2>2, <3>1, Zenon DEF GilbertModel
<1> QED BY <1>1, ErrorsInvariant, PTL

(* For every size of packet, number of bit errors, RAND_MAX and width of   *)
(* int: no byte next to the packet changes where the product with rand()   *)
(* fits and the packet has more than eight bytes, or RAND_MAX is as large  *)
(* as an int and it has more than one.                                     *)
THEOREM BitErrorsCorrect == Spec => []BitErrorsHitPacket
<1>1. ErrorsInv => BitErrorsHitPacket
  <2> SUFFICES ASSUME ErrorsInv
               PROVE  BitErrorsHitPacket
    OBVIOUS
  <2>1. Cardinality(changed) <= corruptBits
    <3>1. Cardinality(changed) \in Nat
      BY FS_CardinalityType DEF ErrorsInv
    <3> QED BY <3>1 DEF ErrorsInv
  <2>2. \A c \in changed : c[1] \in Reach(build, wBytes)
    BY DEF ErrorsInv
  <2>3. wBytes \in Nat /\ HalfInts = Ints \div 2
    BY DEF ErrorsInv, HalfInts
  <2> DEFINE top == build * wBytes * 8
  <2> HIDE DEF top
  <2>4. ASSUME NEW n \in -8..8,
               top < HalfInts => n >= 0,
               build = HalfInts - 1 => n \in -1..0 /\ (n = -1 => wBytes = 1),
               (top < HalfInts /\ wBytes > 8) \/ (build = HalfInts - 1 /\ wBytes > 1)
        PROVE  n \in 0..wBytes - 1
    BY <2>3, <2>4
  <2>5. (top < HalfInts /\ wBytes > 8) \/ (build = HalfInts - 1 /\ wBytes > 1)
          => \A c \in changed : c[1] \in 0..wBytes - 1
    BY <2>2, <2>4 DEF Reach, top
  <2> QED BY <2>1, <2>3, <2>5 DEF BitErrorsHitPacket, top
<1> QED BY <1>1, ErrorsInvariant, PTL
=============================================================================
