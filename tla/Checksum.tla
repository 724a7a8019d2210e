------------------------------ MODULE Checksum ------------------------------
(***************************************************************************)
(* The checksum of sender.java and receiver.java (class Tool), over bytes  *)
(* of any width: what the flag sum of module Wire abstracts from.  The     *)
(* sender computes it over a header that still carries the last segment's. *)
(***************************************************************************)
EXTENDS Sums

CONSTANTS Byte,          \* 256, the values of a byte
          SumAt,         \* 17, the first of its two bytes (Java counts from 0)
          Segments,      \* header and data, whatever the checksum's bytes are
          MaxSegments, MaxDamages     \* bounds

ASSUME ChecksumAssumption ==
  /\ Byte \in Nat \ {0, 1} /\ MaxSegments \in Nat /\ MaxDamages \in Nat
  /\ SumAt \in Nat /\ SumAt % 2 = 1
  /\ \A m \in Segments : m \in Seq(0..Byte - 1) /\ SumAt < Len(m)

VARIABLES CHECKSUM,               \* of the segment before
          message, arrived,       \* as sent; as it comes in
          checked, damages

checksumVars == <<CHECKSUM, message, arrived, checked, damages>>

ChecksumInit ==
  /\ CHECKSUM = 0 /\ message = <<>> /\ arrived = <<>> /\ checked = 0 /\ damages = 0

\* The bytes with 0 for the checksum, made even.
Stream(bytes) ==
  [i \in 1..Len(bytes) + (Len(bytes) % 2) |->
     IF i \in {SumAt, SumAt + 1} \/ i > Len(bytes) THEN 0 ELSE bytes[i]]

\* The 16-bit words, big end first, added up.
SumOfWords(stream) ==
  Total([k \in 1..Len(stream) \div 2 |-> stream[2 * k - 1] * Byte + stream[2 * k]])

\* Carries are added back until a word is left.
Folded(sum) ==
  IF sum < Byte * Byte THEN sum ELSE 1 + ((sum - 1) % (Byte * Byte - 1))

\* Mutant: the checksum's own bytes are not cleared.
generateChecksumOverAll(bytes) ==
  Byte * Byte - 1 - Folded(SumOfWords([i \in 1..Len(bytes) + (Len(bytes) % 2) |->
                                         IF i > Len(bytes) THEN 0 ELSE bytes[i]]))

generateChecksum(bytes) == Byte * Byte - 1 - Folded(SumOfWords(Stream(bytes)))

\* tcpHeader and getCheckSum.
WithChecksum(bytes, sum) ==
  [bytes EXCEPT ![SumAt] = sum \div Byte, ![SumAt + 1] = sum % Byte]
getCheckSum(bytes) == bytes[SumAt] * Byte + bytes[SumAt + 1]

SendChecked(m) ==
  /\ checked < MaxSegments
  /\ checked' = checked + 1
  /\ CHECKSUM' = generateChecksum(WithChecksum(m, CHECKSUM))
  /\ message' = WithChecksum(m, CHECKSUM') /\ arrived' = message'
  /\ damages' = 0

\* A byte is changed on the way.
DamageByte(k, b) ==
  /\ checked > 0 /\ damages < MaxDamages
  /\ arrived[k] # b
  /\ arrived' = [arrived EXCEPT ![k] = b]
  /\ damages' = damages + 1
  /\ UNCHANGED <<CHECKSUM, message, checked>>

\* The receiver's test.
Intact == getCheckSum(arrived) = generateChecksum(arrived)

ChecksumNext ==
  \/ \E m \in Segments : SendChecked(m)
  \/ \E k \in DOMAIN arrived, b \in 0..Byte - 1 : DamageByte(k, b)

-----------------------------------------------------------------------------
(* Properties *)

WordAt(bytes, k) == bytes[2 * k - 1] * Byte + (IF 2 * k > Len(bytes) THEN 0 ELSE bytes[2 * k])

\* "indicating the data in this packet is intact" (receiver.java:129): an
\* undamaged segment passes, although the sender's header still carried the
\* last checksum, and damage within one word does not, with one exception that
\* one's complement has: a word of zeros that becomes all ones, or back, unless
\* it is the only one that is not 0, or the checksum.
DamagedWordIsSeen ==
  LET words   == 1..(Len(message) + 1) \div 2
      damaged == {k \in words : WordAt(message, k) # WordAt(arrived, k)}
      ends(k) == {WordAt(message, k), WordAt(arrived, k)} = {0, Byte * Byte - 1}
      data    == words \ {(SumAt + 1) \div 2}
      rest(k) == \E j \in data \ {k} : WordAt(message, j) # 0
  IN  checked > 0 =>
        /\ damaged = {} => Intact
        /\ \A k \in words : damaged = {k} =>
             (Intact <=> k \in data /\ ends(k) /\ rest(k))
=============================================================================
