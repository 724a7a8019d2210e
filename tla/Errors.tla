------------------------------- MODULE Errors -------------------------------
(***************************************************************************)
(* newudpl.c and akiramath.c: the errors that sendHandler makes, namely    *)
(* losses (-L, and the Gilbert model of -C and -U) and bit errors (-B).    *)
(* Each call of rand() may return any value; ints are those of the build.  *)
(***************************************************************************)
EXTENDS Integers, FiniteSets

CONSTANTS Ints,            \* 2^32, the number of values of an int
          RandMaxes,       \* RAND_MAX of the builds
          ErrorOptions,    \* randomLoss, gilCondLoss, gilUncondLoss in percent
          PacketSizes,
          MaxPacketsSent, MaxCorruptBits    \* bounds

ASSUME ErrorsAssumption ==
  /\ Ints \in Nat /\ Ints > 4 /\ Ints % 4 = 0
  /\ RandMaxes \subseteq 1..(Ints \div 2 - 1)
  /\ PacketSizes \subseteq Nat \ {0}
  /\ \A o \in ErrorOptions : {o.gilCondLoss, o.gilUncondLoss} \subseteq Nat
  /\ MaxPacketsSent \in Nat /\ MaxCorruptBits \in Nat

VARIABLES build,              \* its RAND_MAX, 0 before the program runs
          errorOptions,
          stage,              \* the Gilbert model's
          gilbertLost,        \* what gilbRand last returned
          wBytes, changed,    \* the last packet: size, bits that differ in wBuff
          corruptBits, i,     \* how many to flip; isBitError's loop counter
          packetsSent

errorVars == <<build, errorOptions, stage, gilbertLost, wBytes, changed,
               corruptBits, i, packetsSent>>

ErrorsInit ==
  /\ build = 0 /\ errorOptions = <<>> /\ stage = 0 /\ gilbertLost = FALSE
  /\ wBytes = 1 /\ changed = {} /\ corruptBits = 0 /\ i = 0 /\ packetsSent = 0

rand == 0..build

\* rand() / RAND_MAX < num / den, where a division by zero gives an infinity,
\* or a NaN that nothing is less than.
Under(r, num, den) ==
  IF den < 0 THEN num * build < r * den ELSE r * den < num * build

\* Mutant: the stage is never left.
gilbRandStays(s, r) ==
  LET cond == errorOptions.gilCondLoss  uncond == errorOptions.gilUncondLoss
      lost == IF s = 0 THEN Under(r, uncond * (100 - cond), 100 * (100 - uncond))
              ELSE Under(r, cond, 100)
  IN  [lost |-> lost, stage |-> IF s = 1 \/ lost THEN 1 ELSE 0]

\* gilbRand with the transition probability gilOverAllLoss that init computes:
\* a negative one, which never loses, if just one of -C and -U is above 1.
gilbRand(s, r) ==
  LET cond == errorOptions.gilCondLoss  uncond == errorOptions.gilUncondLoss
      lost == IF s = 0 THEN Under(r, uncond * (100 - cond), 100 * (100 - uncond))
              ELSE Under(r, cond, 100)
  IN  [lost |-> lost, stage |-> IF lost THEN 1 ELSE 0]

RunErrors(max, o) ==
  /\ build = 0
  /\ build' = max /\ errorOptions' = o
  /\ UNCHANGED <<stage, gilbertLost, wBytes, changed, corruptBits, i, packetsSent>>

-----------------------------------------------------------------------------
(* isPacketLoss *)

NextPacket(bytes) ==
  /\ build # 0 /\ i = corruptBits /\ packetsSent < MaxPacketsSent
  /\ packetsSent' = packetsSent + 1
  /\ wBytes' = bytes /\ changed' = {} /\ i' = 0
  /\ UNCHANGED <<build, errorOptions>>

\* Does -L choose the packet?
RateSays == IF errorOptions.randomLoss = 0 THEN {TRUE}
            ELSE {Under(r, errorOptions.randomLoss, 100) : r \in rand}
Gilbert  == errorOptions.gilCondLoss > 0

\* Any number of corrupt bits up to all of the packet's, whatever the rate.
bnldev(n) == 0..n

PacketKept == \E n \in bnldev(8 * wBytes') : n <= MaxCorruptBits /\ corruptBits' = n
PacketLost == corruptBits' = 0

\* Without loss options the packet is kept, too.
KeepByRate(bytes) ==
  /\ NextPacket(bytes)
  /\ FALSE \in RateSays \/ (errorOptions.randomLoss = 0 /\ ~Gilbert)
  /\ PacketKept
  /\ UNCHANGED <<stage, gilbertLost>>

LoseByRate(bytes) ==
  /\ NextPacket(bytes)
  /\ TRUE \in RateSays /\ errorOptions.randomLoss # 0 /\ ~Gilbert
  /\ PacketLost
  /\ UNCHANGED <<stage, gilbertLost>>

\* With both options a packet is lost only if both say so.
GilbertDecides(bytes) ==
  /\ NextPacket(bytes)
  /\ TRUE \in RateSays /\ Gilbert
  /\ \E g \in {gilbRand(stage, r) : r \in rand} :
       /\ stage' = g.stage /\ gilbertLost' = g.lost
       /\ IF g.lost THEN PacketLost ELSE PacketKept

-----------------------------------------------------------------------------
(* isBitError *)

\* Integer division in C, towards zero, and its remainder.
Quotient(a, b)  == IF a < 0 THEN -((-a) \div b) ELSE a \div b
Remainder(a, b) == a - b * Quotient(a, b)
ToInt(n) == ((n + Ints \div 2) % Ints) - Ints \div 2

seqBitNum(r) == Quotient(ToInt(r * wBytes * 8), build)

\* Mutant: the bit's number is taken for the byte's.
byteNumUndivided(seq) == seq

byteNum(seq) == Quotient(seq, wBytes)

\* The bits of a char that 1 << n flips.  A shift by 32 or more, or by less
\* than 0, may give any of them, or none.
bitsToCrpt(n) ==
  IF n \in 0..31 THEN {{n} \cap 0..7} ELSE {{}} \cup {{b} : b \in 0..7}

CorruptBit ==
  /\ i < corruptBits
  /\ i' = i + 1
  /\ \E seq \in {seqBitNum(r) : r \in rand} :
       \E bits \in bitsToCrpt(Remainder(seq, wBytes)) :
         LET flipped == {byteNum(seq)} \X bits
         IN  changed' = (changed \ flipped) \cup (flipped \ changed)
  /\ UNCHANGED <<build, errorOptions, stage, gilbertLost, wBytes, corruptBits, packetsSent>>

ErrorsNext ==
  \/ \E max \in RandMaxes, o \in ErrorOptions : RunErrors(max, o)
  \/ \E bytes \in PacketSizes : KeepByRate(bytes) \/ LoseByRate(bytes) \/ GilbertDecides(bytes)
  \/ CorruptBit

-----------------------------------------------------------------------------
(* Properties *)

\* "previous loss is 1" (akiramath.c:24), and the probability that init derives
\* for the step from 0 to 1 (newudpl.c:438) makes the unconditional loss the
\* rate at which the two stages balance, to within one value of rand(): unless
\* that probability would have to exceed 1, which nothing checks.
GilbertModel ==
  LET cond    == errorOptions.gilCondLoss
      uncond  == errorOptions.gilUncondLoss
      from(s) == Cardinality({r \in rand : gilbRand(s, r).lost})
      balance == ((100 - uncond) * from(0) + uncond * from(1)) - (uncond * (build + 1))
  IN  build # 0 =>
        /\ (stage = 1) = gilbertLost
        /\ cond < 100 /\ uncond * (100 - cond) <= 100 * (100 - uncond)
             => balance \in -100..100

\* "corrupt the packet" (newudpl.c:889): only bytes of the packet change, as
\* long as the product with rand() fits into an int and the packet has more
\* than eight bytes, or RAND_MAX is as large as an int and it has more than one;
\* and g_stat.biterror counts no less than what really differs.  A smaller
\* packet, or a product that overflows, has bytes next to it changed.
BitErrorsHitPacket ==
  LET fits == build * wBytes * 8 < Ints \div 2
  IN  /\ Cardinality(changed) <= corruptBits
      /\ (fits /\ wBytes > 8) \/ (build = Ints \div 2 - 1 /\ wBytes > 1)
           => {c[1] : c \in changed} \subseteq 0..wBytes - 1
=============================================================================
