--------------------------- MODULE NumberTheorems ---------------------------
(***************************************************************************)
(* Facts about numbers that the proofs about the emulator share: products  *)
(* and divisions; induction, from the well-foundedness of the order of the *)
(* natural numbers; and with it the laws of the sums of module Sums.       *)
(***************************************************************************)
EXTENDS Sums, WellFoundedInduction, TLAPS

----------------------------------------------------------------------------
(* Products and divisions.                                                  *)

(* Division with remainder, by any divisor.                                *)
LEMMA Division ==
  ASSUME NEW n \in Nat, NEW d \in Nat \ {0}
  PROVE  /\ n \div d \in Nat /\ n % d \in 0..d - 1
         /\ n = d * (n \div d) + (n % d)
OBVIOUS

(* A factor of both sides of an inequality cancels.                        *)
LEMMA CancelFactor ==
  ASSUME NEW x \in Int, NEW y \in Int, NEW d \in Nat \ {0}, x * d < y * d
  PROVE  x < y
OBVIOUS

(* An inequality may be multiplied.                                        *)
LEMMA Multiply ==
  ASSUME NEW x \in Nat, NEW y \in Nat, NEW d \in Nat, x <= y
  PROVE  x * d \in Nat /\ y * d \in Nat /\ x * d <= y * d
OBVIOUS

(* A product with a sum.                                                   *)
LEMMA Distribute ==
  ASSUME NEW x \in Int, NEW y \in Int, NEW d \in Int
  PROVE  (x + y) * d = x * d + y * d
OBVIOUS

(* What is not later than one time is not later than a later one.          *)
LEMMA NotLater ==
  ASSUME NEW g \in Int, NEW n \in Nat, NEW t \in Nat, NEW m \in Nat, g <= n + m, n <= t
  PROVE  g <= t + m
OBVIOUS

(* Division and remainder of natural numbers.                              *)
LEMMA DivMod ==
  ASSUME NEW n \in Nat, NEW d \in Nat \ {0}
  PROVE  n \div d \in Nat /\ n % d \in 0..d - 1
OBVIOUS

(* A number less its remainder.                                            *)
LEMMA RoundDown ==
  ASSUME NEW n \in Nat, NEW d \in Nat \ {0}
  PROVE  n - (n % d) \in Nat
<1>1. n \div d \in Nat /\ n % d \in Nat /\ n = d * (n \div d) + (n % d)
  BY Division
<1>2. d * (n \div d) \in Nat
  BY <1>1
<1> QED BY <1>1, <1>2

(* Division keeps the order.                                               *)
LEMMA DivMonotone ==
  ASSUME NEW x \in Nat, NEW y \in Nat, NEW d \in Nat \ {0}, x <= y
  PROVE  x \div d <= y \div d
<1> DEFINE m == x \div d
           n == y \div d
<1>1. m \in Nat /\ x % d \in 0..d - 1 /\ x = d * m + (x % d)
  BY Division
<1>2. n \in Nat /\ y % d \in 0..d - 1 /\ y = d * n + (y % d)
  BY Division
<1> HIDE DEF m, n
<1>3. d * m \in Nat /\ d * n \in Nat /\ m * d = d * m /\ (n + 1) * d = d * n + d
  BY <1>1, <1>2
<1>4. m * d < (n + 1) * d
  BY <1>1, <1>2, <1>3
<1>5. m < n + 1
  BY <1>1, <1>2, <1>4, CancelFactor
<1> QED BY <1>1, <1>2, <1>5 DEF m, n

(* The remainder of an integer, a negative one too.                        *)
LEMMA ModOfInt ==
  ASSUME NEW n \in Int, NEW d \in Nat \ {0}
  PROVE  n % d \in 0..d - 1
OBVIOUS

(* A remainder that is not needed.                                         *)
LEMMA SmallMod ==
  ASSUME NEW n \in Nat, NEW d \in Nat, n < d
  PROVE  n % d = n
<1>1. d \in Nat \ {0}
  OBVIOUS
<1> DEFINE q == n \div d
           r == n % d
<1>2. q \in Nat /\ r \in 0..d - 1 /\ n = d * q + r
  BY <1>1, Division
<1> HIDE DEF q, r
<1>3. q = 0
  <2>1. d * q \in Nat /\ d * q = q * d /\ 1 * d = d
    BY <1>2
  <2>2. q * d < 1 * d
    BY <1>2, <2>1
  <2>3. q < 1
    BY <1>1, <1>2, <2>2, CancelFactor
  <2> QED BY <1>2, <2>3
<1>4. d * 0 = 0
  OBVIOUS
<1>5. r = n
  BY <1>2, <1>3, <1>4
<1> QED BY <1>5 DEF r

(* What a quotient says of its dividend.                                   *)
LEMMA QuotientBounds ==
  ASSUME NEW n \in Nat, NEW d \in Nat \ {0}
  PROVE  /\ n \div d \in Nat /\ (n \div d) * d <= n /\ n < (n \div d + 1) * d
<1> DEFINE q == n \div d
           r == n % d
<1>1. q \in Nat /\ r \in 0..d - 1 /\ n = d * q + r
  BY Division
<1> HIDE DEF q, r
<1>2. d * q \in Nat /\ q * d = d * q /\ (q + 1) * d = d * q + d
  BY <1>1
<1>3. q \in Nat /\ q * d <= n /\ n < (q + 1) * d
  BY <1>1, <1>2
<1> QED BY <1>3 DEF q

(* A strict inequality may be multiplied.                                  *)
LEMMA MultiplyStrict ==
  ASSUME NEW x \in Int, NEW y \in Int, NEW d \in Nat \ {0}, x < y
  PROVE  x * d \in Int /\ y * d \in Int /\ x * d < y * d
OBVIOUS

(* So may one between integers.                                            *)
LEMMA MultiplyWeak ==
  ASSUME NEW x \in Int, NEW y \in Int, NEW d \in Nat, x <= y
  PROVE  x * d \in Int /\ y * d \in Int /\ x * d <= y * d
OBVIOUS

(* A quotient is at most its dividend.                                     *)
LEMMA QuotientAtMost ==
  ASSUME NEW n \in Nat, NEW d \in Nat \ {0}
  PROVE  n \div d \in Nat /\ n \div d <= n
<1> DEFINE q == n \div d
<1>1. q \in Nat /\ q * d <= n
  BY QuotientBounds
<1> HIDE DEF q
<1>2. q <= q * d /\ q * d \in Int
  BY <1>1
<1>3. q \in Nat /\ q <= n
  BY <1>1, <1>2
<1> QED BY <1>3 DEF q

----------------------------------------------------------------------------
(* Induction.                                                              *)

(* The order of the natural numbers as a relation.                         *)
Below == {p \in Nat \X Nat : p[1] < p[2]}

(* Induction: a set that holds 0 and every successor holds every number.   *)
LEMMA Induction ==
  ASSUME NEW S, 0 \in S, \A n \in Nat : n \in S => n + 1 \in S
  PROVE  \A n \in Nat : n \in S
<1> DEFINE T == Nat \ S
<1> SUFFICES ASSUME T # {} PROVE FALSE
  OBVIOUS
<1>1. PICK m \in T : \A k \in T : ~ (<<k, m>> \in Below)
  <2>1. IsWellFoundedOn(Below, Nat)
    BY NatLessThanWellFounded DEF OpToRel, Below
  <2>2. T \subseteq Nat
    OBVIOUS
  <2> HIDE DEF T
  <2> QED BY <2>1, <2>2, WFMin
<1>2. m - 1 \in Nat /\ (m - 1) + 1 = m
  OBVIOUS
<1>3. m - 1 \in S
  <2>1. <<m - 1, m>> \in Below
    BY <1>2 DEF Below
  <2> QED BY <1>1, <1>2, <2>1
<1> QED BY <1>2, <1>3

(* A set of natural numbers has a least one.                               *)
LEMMA Least ==
  ASSUME NEW S, S \subseteq Nat, S # {}
  PROVE  \E m \in S : \A k \in S : m <= k
<1>1. IsWellFoundedOn(Below, Nat)
  BY NatLessThanWellFounded DEF OpToRel, Below
<1>2. PICK m \in S : \A k \in S : ~ (<<k, m>> \in Below)
  BY <1>1, WFMin
<1>3. ASSUME NEW k \in S
      PROVE  m <= k
  <2>1. m \in Nat /\ k \in Nat /\ ~ (<<k, m>> \in Below)
    BY <1>2
  <2> QED BY <2>1 DEF Below
<1> QED BY <1>3

(* A bounded one has a greatest.                                           *)
LEMMA Greatest ==
  ASSUME NEW n \in Nat, NEW S, S \subseteq 0..n, S # {}
  PROVE  \E m \in S : \A k \in S : k <= m
<1> DEFINE T == {n - k : k \in S}
<1>1. PICK m \in T : \A k \in T : m <= k
  <2>1. T \subseteq Nat
    OBVIOUS
  <2>2. T # {}
    <3>1. PICK k \in S : TRUE
      OBVIOUS
    <3>2. n - k \in T
      OBVIOUS
    <3> QED BY <3>2
  <2> HIDE DEF T
  <2> QED BY <2>1, <2>2, Least
<1>2. PICK g \in S : m = n - g
  OBVIOUS
<1>3. ASSUME NEW k \in S
      PROVE  k <= g
  <2>1. n - k \in T /\ k \in Nat /\ g \in Nat
    OBVIOUS
  <2>2. n - g <= n - k
    BY <1>1, <1>2, <2>1
  <2> QED BY <2>1, <2>2
<1> QED BY <1>3

(* Sequences with the same elements are the same.                          *)
LEMMA SameSequence ==
  ASSUME NEW S, NEW s \in Seq(S), NEW t \in Seq(S), Len(s) = Len(t),
         \A i \in 1..Len(s) : s[i] = t[i]
  PROVE  s = t
OBVIOUS

----------------------------------------------------------------------------
(* Sums.                                                                   *)

(* What PartialSums(s) is a name of.                                       *)
AreSums(f, s, n) ==
  \A k \in 0..n : f[k] = IF k = 0 THEN 0 ELSE f[k - 1] + s[k]

(* The recursion has a solution, up to any number.                         *)
LEMMA SumsExist ==
  ASSUME NEW s \in Seq(Nat)
  PROVE  \A n \in Nat : n <= Len(s) => \E f \in [0..n -> Nat] : AreSums(f, s, n)
<1> DEFINE S == {n \in Nat : n <= Len(s) => \E f \in [0..n -> Nat] : AreSums(f, s, n)}
<1>1. 0 \in S
  <2> DEFINE f == [k \in 0..0 |-> 0]
  <2>1. f \in [0..0 -> Nat] /\ AreSums(f, s, 0)
    BY DEF AreSums
  <2> QED BY <2>1
<1>2. ASSUME NEW n \in Nat, n \in S
      PROVE  n + 1 \in S
  <2> SUFFICES ASSUME n + 1 <= Len(s)
               PROVE  \E f \in [0..n + 1 -> Nat] : AreSums(f, s, n + 1)
    OBVIOUS
  <2>1. PICK g \in [0..n -> Nat] : AreSums(g, s, n)
    BY <1>2
  <2> DEFINE f == [k \in 0..n + 1 |-> IF k = n + 1 THEN g[n] + s[n + 1] ELSE g[k]]
  <2>2. s[n + 1] \in Nat /\ g[n] \in Nat
    OBVIOUS
  <2>3. f \in [0..n + 1 -> Nat]
    BY <2>2
  <2>4. ASSUME NEW k \in 0..n + 1
        PROVE  f[k] = IF k = 0 THEN 0 ELSE f[k - 1] + s[k]
    BY <2>1 DEF AreSums
  <2>5. AreSums(f, s, n + 1)
    BY <2>4 DEF AreSums
  <2> QED BY <2>3, <2>5
<1>3. \A n \in Nat : n \in S
  <2> HIDE DEF S
  <2> QED BY <1>1, <1>2, Induction
<1> QED BY <1>3

(* Its only solution.                                                      *)
LEMMA SumsUnique ==
  ASSUME NEW s, NEW n \in Nat, NEW f, NEW g, AreSums(f, s, n), AreSums(g, s, n)
  PROVE  \A k \in 0..n : f[k] = g[k]
<1> DEFINE S == {k \in Nat : k <= n => f[k] = g[k]}
<1>1. 0 \in S
  BY DEF AreSums
<1>2. ASSUME NEW k \in Nat, k \in S
      PROVE  k + 1 \in S
  <2> SUFFICES ASSUME k + 1 <= n PROVE f[k + 1] = g[k + 1]
    OBVIOUS
  <2>1. f[k] = g[k] /\ (k + 1) - 1 = k /\ k + 1 \in 0..n /\ k + 1 # 0
    BY <1>2
  <2> QED BY <2>1 DEF AreSums
<1>3. \A k \in Nat : k \in S
  <2> HIDE DEF S
  <2> QED BY <1>1, <1>2, Induction
<1> QED BY <1>3

(* PartialSums solves it.                                                  *)
LEMMA PartialSumsDef ==
  ASSUME NEW s \in Seq(Nat)
  PROVE  /\ PartialSums(s) \in [0..Len(s) -> Nat]
         /\ AreSums(PartialSums(s), s, Len(s))
<1> DEFINE Solves(f) == f = [n \in 0..Len(s) |-> IF n = 0 THEN 0 ELSE f[n - 1] + s[n]]
<1>1. PICK g \in [0..Len(s) -> Nat] : AreSums(g, s, Len(s))
  BY SumsExist
<1>2. Solves(g)
  BY <1>1 DEF AreSums
<1>3. PartialSums(s) = CHOOSE f : Solves(f)
  BY DEF PartialSums
<1>4. Solves(PartialSums(s))
  BY <1>2, <1>3
<1> HIDE DEF Solves
<1>5. /\ DOMAIN PartialSums(s) = 0..Len(s) /\ AreSums(PartialSums(s), s, Len(s))
      /\ PartialSums(s) = [n \in 0..Len(s) |-> PartialSums(s)[n]]
  BY <1>4 DEF AreSums, Solves
<1>6. \A k \in 0..Len(s) : PartialSums(s)[k] = g[k]
  BY <1>1, <1>5, SumsUnique
<1> QED BY <1>5, <1>6

(* One step of the recursion.                                              *)
LEMMA PartialSumsStep ==
  ASSUME NEW s \in Seq(Nat), NEW k \in Nat, k < Len(s)
  PROVE  /\ PartialSums(s)[k] \in Nat /\ PartialSums(s)[k + 1] \in Nat /\ s[k + 1] \in Nat
         /\ PartialSums(s)[k + 1] = PartialSums(s)[k] + s[k + 1]
         /\ PartialSums(s)[0] = 0
<1>1. /\ Len(s) \in Nat /\ k \in 0..Len(s) /\ k + 1 \in 0..Len(s) /\ 0 \in 0..Len(s)
      /\ k + 1 # 0 /\ (k + 1) - 1 = k /\ s[k + 1] \in Nat
  OBVIOUS
<1>2. PartialSums(s) \in [0..Len(s) -> Nat] /\ AreSums(PartialSums(s), s, Len(s))
  BY PartialSumsDef
<1>3. PartialSums(s)[k + 1] = PartialSums(s)[(k + 1) - 1] + s[k + 1] /\ PartialSums(s)[0] = 0
  BY <1>1, <1>2 DEF AreSums
<1> QED BY <1>1, <1>2, <1>3

(* A sum of natural numbers is one; that of none is 0.                     *)
LEMMA TotalNat ==
  ASSUME NEW s \in Seq(Nat)
  PROVE  Total(s) \in Nat /\ (s = <<>> => Total(s) = 0)
<1>1. Len(s) \in 0..Len(s)
  OBVIOUS
<1> QED BY <1>1, PartialSumsDef DEF Total, AreSums

(* One more number at the end leaves the sums before it as they are.       *)
LEMMA SumsAppend ==
  ASSUME NEW s \in Seq(Nat), NEW x \in Nat
  PROVE  /\ \A k \in 0..Len(s) : PartialSums(Append(s, x))[k] = PartialSums(s)[k]
         /\ Total(Append(s, x)) = Total(s) + x
<1> DEFINE t == Append(s, x)
           n == Len(s)
<1>1. /\ t \in Seq(Nat) /\ n \in Nat /\ Len(t) = n + 1 /\ t[n + 1] = x
      /\ \A k \in 1..n : t[k] = s[k]
  OBVIOUS
<1> HIDE DEF t
<1>2. AreSums(PartialSums(s), s, n) /\ AreSums(PartialSums(t), t, n + 1)
  BY <1>1, PartialSumsDef
<1>3. AreSums(PartialSums(t), s, n)
  BY <1>1, <1>2 DEF AreSums
<1>4. \A k \in 0..n : PartialSums(t)[k] = PartialSums(s)[k]
  BY <1>1, <1>2, <1>3, SumsUnique
<1>5. PartialSums(t)[n + 1] = PartialSums(t)[n] + x
  BY <1>1, <1>2 DEF AreSums
<1> QED BY <1>1, <1>4, <1>5 DEF Total, t

(* Without the first number every sum is less by it.                       *)
LEMMA SumsTail ==
  ASSUME NEW s \in Seq(Nat), s # <<>>
  PROVE  /\ \A k \in 0..Len(s) - 1 : PartialSums(s)[k + 1] = s[1] + PartialSums(Tail(s))[k]
         /\ Total(s) = s[1] + Total(Tail(s))
<1> DEFINE t == Tail(s)
           n == Len(s) - 1
           f == [k \in 0..n |-> PartialSums(s)[k + 1] - s[1]]
<1>1. /\ t \in Seq(Nat) /\ n \in Nat /\ Len(t) = n /\ s[1] \in Nat
      /\ \A k \in 1..n : t[k] = s[k + 1]
  OBVIOUS
<1> HIDE DEF t
<1>2. /\ PartialSums(s) \in [0..n + 1 -> Nat] /\ AreSums(PartialSums(s), s, n + 1)
      /\ PartialSums(t) \in [0..n -> Nat] /\ AreSums(PartialSums(t), t, n)
  BY <1>1, PartialSumsDef
<1>3. AreSums(f, t, n)
  <2>1. f[0] = 0
    <3>1. PartialSums(s)[0 + 1] = PartialSums(s)[0] + s[0 + 1] /\ PartialSums(s)[0] = 0
      BY <1>1, PartialSumsStep
    <3> QED BY <1>1, <3>1
  <2>2. ASSUME NEW k \in 0..n, k # 0
        PROVE  f[k] = f[k - 1] + t[k]
    <3>1. k \in Nat /\ k < Len(s) /\ k - 1 \in 0..n /\ (k - 1) + 1 = k /\ k \in 1..n
      BY <1>1, <2>2
    <3>2. /\ PartialSums(s)[k + 1] = PartialSums(s)[k] + s[k + 1]
          /\ PartialSums(s)[k] \in Nat /\ s[k + 1] \in Nat
      BY <3>1, PartialSumsStep
    <3>3. /\ f[k] = PartialSums(s)[k + 1] - s[1] /\ f[k - 1] = PartialSums(s)[(k - 1) + 1] - s[1]
          /\ t[k] = s[k + 1]
      BY <1>1, <3>1
    <3> HIDE DEF f
    <3> QED BY <1>1, <3>1, <3>2, <3>3
  <2> HIDE DEF f
  <2> QED BY <2>1, <2>2 DEF AreSums
<1>4. \A k \in 0..n : f[k] = PartialSums(t)[k]
  <2> HIDE DEF f
  <2> QED BY <1>1, <1>2, <1>3, SumsUnique
<1>5. ASSUME NEW k \in 0..n
      PROVE  PartialSums(s)[k + 1] = s[1] + PartialSums(t)[k]
  <2>1. f[k] = PartialSums(s)[k + 1] - s[1] /\ f[k] = PartialSums(t)[k]
    BY <1>1, <1>4
  <2>2. PartialSums(s)[k + 1] \in Nat
    BY <1>1, PartialSumsStep
  <2> HIDE DEF f
  <2> QED BY <1>1, <2>1, <2>2
<1>6. Total(s) = PartialSums(s)[n + 1] /\ Total(t) = PartialSums(t)[n] /\ n \in 0..n
  BY <1>1 DEF Total
<1> QED BY <1>5, <1>6 DEF t

(* Sums of natural numbers grow.                                           *)
LEMMA SumsGrow ==
  ASSUME NEW s \in Seq(Nat), NEW j \in 0..Len(s)
  PROVE  \A k \in j..Len(s) : PartialSums(s)[j] <= PartialSums(s)[k]
<1> DEFINE P == PartialSums(s)
           S == {n \in Nat : j + n <= Len(s) => P[j] <= P[j + n]}
<1>1. P \in [0..Len(s) -> Nat] /\ Len(s) \in Nat
  BY PartialSumsDef
<1>2. \A k \in Nat : k < Len(s) => P[k] \in Nat /\ s[k + 1] \in Nat /\ P[k + 1] = P[k] + s[k + 1]
  BY PartialSumsStep
<1> HIDE DEF P
<1>3. 0 \in S
  <2>1. P[j] \in Nat /\ j + 0 = j
    BY <1>1
  <2> QED BY <2>1
<1>4. ASSUME NEW n \in Nat, n \in S
      PROVE  n + 1 \in S
  <2> SUFFICES ASSUME j + (n + 1) <= Len(s)
               PROVE  P[j] <= P[j + (n + 1)]
    OBVIOUS
  <2>1. j + n \in Nat /\ j + n < Len(s) /\ (j + n) + 1 = j + (n + 1)
    BY <1>1
  <2>2. P[j] <= P[j + n] /\ P[j] \in Nat
    BY <1>1, <1>4, <2>1
  <2>3. P[j + n] \in Nat /\ s[(j + n) + 1] \in Nat /\ P[(j + n) + 1] = P[j + n] + s[(j + n) + 1]
    BY <1>2, <2>1
  <2> HIDE DEF S
  <2> QED BY <2>1, <2>2, <2>3
<1>5. \A n \in Nat : n \in S
  <2> HIDE DEF S
  <2> QED BY <1>3, <1>4, Induction
<1>6. ASSUME NEW k \in j..Len(s)
      PROVE  P[j] <= P[k]
  <2>1. k - j \in Nat /\ j + (k - j) = k /\ k <= Len(s)
    BY <1>1
  <2> QED BY <1>5, <2>1
<1> QED BY <1>6 DEF P

(* Numbers that all have a least weight have it together.                  *)
LEMMA TotalAtLeast ==
  ASSUME NEW s \in Seq(Nat), NEW w \in Nat, NEW m \in Nat,
         \A k \in 1..Len(s) : m <= s[k] * w
  PROVE  Len(s) * m <= Total(s) * w
<1> DEFINE P == PartialSums(s)
           S == {k \in Nat : k <= Len(s) => k * m <= P[k] * w}
<1>1. P \in [0..Len(s) -> Nat] /\ AreSums(P, s, Len(s)) /\ Len(s) \in Nat
  BY PartialSumsDef
<1> HIDE DEF P
<1>2. 0 \in S
  <2>1. P[0] = 0 /\ 0 * m = 0 /\ 0 * w = 0
    BY <1>1 DEF AreSums
  <2> QED BY <2>1
<1>3. ASSUME NEW k \in Nat, k \in S
      PROVE  k + 1 \in S
  <2> SUFFICES ASSUME k + 1 <= Len(s)
               PROVE  (k + 1) * m <= P[k + 1] * w
    OBVIOUS
  <2>1. P[k + 1] = P[k] + s[k + 1] /\ P[k] \in Nat /\ s[k + 1] \in Nat
    <3>1. k < Len(s)
      BY <1>1
    <3> QED BY <3>1, PartialSumsStep DEF P
  <2>2. k * m <= P[k] * w /\ m <= s[k + 1] * w
    BY <1>1, <1>3
  <2> HIDE DEF S
  <2>3. /\ (k + 1) * m = k * m + m
        /\ (P[k] + s[k + 1]) * w = P[k] * w + s[k + 1] * w
        /\ k * m \in Nat /\ P[k] * w \in Nat /\ s[k + 1] * w \in Nat
    BY <2>1, SMTT(30)
  <2>4. (k + 1) * m <= (P[k] + s[k + 1]) * w
    BY <2>2, <2>3
  <2> QED BY <2>1, <2>4
<1>4. \A k \in Nat : k \in S
  <2> HIDE DEF S
  <2> QED BY <1>2, <1>3, Induction
<1> QED BY <1>1, <1>4 DEF Total, P

(* Two sequences that differ at one place have sums that differ by as much.*)
LEMMA TotalsDiffer ==
  ASSUME NEW u \in Seq(Nat), NEW v \in Seq(Nat), Len(u) = Len(v), NEW k \in 1..Len(u),
         \A j \in 1..Len(u) : j # k => u[j] = v[j]
  PROVE  Total(v) = Total(u) - u[k] + v[k]
<1> DEFINE P == PartialSums(u)
           Q == PartialSums(v)
           d == v[k] - u[k]
           S == {n \in Nat : n <= Len(u) => /\ n < k => Q[n] = P[n]
                                            /\ k <= n => Q[n] = P[n] + d}
<1>1. /\ Len(u) \in Nat /\ u[k] \in Nat /\ v[k] \in Nat /\ 0 < Len(u) /\ 0 < Len(v)
      /\ k \in Nat /\ 0 < k /\ k <= Len(u) /\ d \in Int
  OBVIOUS
<1>2. P[0] = 0 /\ Q[0] = 0
  BY <1>1, PartialSumsStep
<1>3. ASSUME NEW n \in Nat, n < Len(u)
      PROVE  /\ P[n] \in Nat /\ u[n + 1] \in Nat /\ P[n + 1] = P[n] + u[n + 1]
             /\ Q[n] \in Nat /\ v[n + 1] \in Nat /\ Q[n + 1] = Q[n] + v[n + 1]
  BY <1>3, PartialSumsStep
<1> HIDE DEF P, Q, d
<1>4. 0 \in S
  BY <1>1, <1>2
<1>5. ASSUME NEW n \in Nat, n \in S
      PROVE  n + 1 \in S
  <2> SUFFICES ASSUME n + 1 <= Len(u)
               PROVE  /\ n + 1 < k => Q[n + 1] = P[n + 1]
                      /\ k <= n + 1 => Q[n + 1] = P[n + 1] + d
    OBVIOUS
  <2>1. /\ n < Len(u) /\ n + 1 \in 1..Len(u)
        /\ n < k => Q[n] = P[n]
        /\ k <= n => Q[n] = P[n] + d
    BY <1>1, <1>5
  <2>2. /\ P[n] \in Nat /\ u[n + 1] \in Nat /\ P[n + 1] = P[n] + u[n + 1]
        /\ Q[n] \in Nat /\ v[n + 1] \in Nat /\ Q[n + 1] = Q[n] + v[n + 1]
    BY <1>3, <2>1
  <2> HIDE DEF S
  <2>3. CASE n + 1 = k
    <3>1. d = v[n + 1] - u[n + 1]
      BY <2>3 DEF d
    <3>2. n < k /\ ~ (n + 1 < k)
      BY <1>1, <2>3
    <3>3. Q[n] = P[n]
      BY <2>1, <3>2
    <3>4. Q[n + 1] = P[n + 1] + d
      <4> DEFINE a == P[n]
                 x == u[n + 1]
                 y == v[n + 1]
      <4>1. /\ a \in Nat /\ x \in Nat /\ y \in Nat /\ d = y - x
            /\ P[n + 1] = a + x /\ Q[n + 1] = a + y
        BY <2>2, <3>1, <3>3
      <4> HIDE DEF a, x, y
      <4>2. a + y = (a + x) + (y - x)
        BY <4>1
      <4> QED BY <4>1, <4>2
    <3> QED BY <3>2, <3>4
  <2>4. CASE n + 1 # k
    <3>1. u[n + 1] = v[n + 1]
      BY <2>1, <2>4
    <3>2. (n < k <=> n + 1 < k) /\ (k <= n <=> k <= n + 1)
      BY <1>1, <2>4
    <3> QED BY <1>1, <2>1, <2>2, <3>1, <3>2
  <2> QED BY <2>3, <2>4
<1>6. \A n \in Nat : n \in S
  <2> HIDE DEF S
  <2> QED BY <1>4, <1>5, Induction
<1>7. Q[Len(u)] = P[Len(u)] + d
  BY <1>1, <1>6
<1>8. P[Len(u)] \in Nat
  BY TotalNat DEF Total, P
<1> QED BY <1>1, <1>7, <1>8 DEF Total, P, Q, d

(* A sum is 0 if and only if all of its numbers are.                       *)
LEMMA TotalZero ==
  ASSUME NEW u \in Seq(Nat)
  PROVE  Total(u) = 0 <=> \A j \in 1..Len(u) : u[j] = 0
<1> DEFINE P == PartialSums(u)
           S == {n \in Nat : n <= Len(u) => P[n] = 0}
<1>1. Len(u) \in Nat /\ Total(u) = P[Len(u)] /\ P[0] = 0
  <2>1. P[0] = 0
    <3>1. CASE u = <<>>
      BY <3>1, TotalNat DEF Total
    <3>2. CASE u # <<>>
      <4>1. 0 < Len(u)
        BY <3>2
      <4> QED BY <4>1, PartialSumsStep
    <3> QED BY <3>1, <3>2
  <2> QED BY <2>1 DEF Total
<1>2. ASSUME NEW n \in Nat, n < Len(u)
      PROVE  P[n] \in Nat /\ u[n + 1] \in Nat /\ P[n + 1] = P[n] + u[n + 1]
  BY <1>2, PartialSumsStep
<1>3. ASSUME \A j \in 1..Len(u) : u[j] = 0
      PROVE  Total(u) = 0
  <2> HIDE DEF P
  <2>1. 0 \in S
    BY <1>1
  <2>2. ASSUME NEW n \in Nat, n \in S
        PROVE  n + 1 \in S
    <3> SUFFICES ASSUME n + 1 <= Len(u) PROVE P[n + 1] = 0
      OBVIOUS
    <3>1. n < Len(u) /\ n + 1 \in 1..Len(u) /\ P[n] = 0
      BY <1>1, <2>2
    <3>2. u[n + 1] = 0
      BY <1>3, <3>1
    <3> QED BY <1>2, <3>1, <3>2
  <2>3. \A n \in Nat : n \in S
    <3> HIDE DEF S
    <3> QED BY <2>1, <2>2, Induction
  <2> QED BY <1>1, <2>3
<1>4. ASSUME Total(u) = 0, NEW j \in 1..Len(u)
      PROVE  u[j] = 0
  <2>1. j - 1 \in Nat /\ j - 1 < Len(u) /\ (j - 1) + 1 = j
    BY <1>1
  <2>2. P[j - 1] \in Nat /\ u[j] \in Nat /\ P[j] = P[j - 1] + u[j]
    BY <1>2, <2>1
  <2>3. P[j] <= P[Len(u)]
    <3>1. j \in 0..Len(u) /\ Len(u) \in j..Len(u)
      BY <1>1
    <3> QED BY <3>1, SumsGrow
  <2> HIDE DEF P
  <2> QED BY <1>1, <1>4, <2>2, <2>3
<1> QED BY <1>3, <1>4

=============================================================================
