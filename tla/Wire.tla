-------------------------------- MODULE Wire --------------------------------
(***************************************************************************)
(* What sender.java and receiver.java put on the wire: the parameters of   *)
(* a transfer and the 24-byte header, reduced to the fields that either    *)
(* program branches on.                                                    *)
(*                                                                         *)
(* Two fields abstract the bytes.  "sum" says that the checksum carried    *)
(* in bytes 16-17 equals the one the receiver recomputes.  "num" says that *)
(* the sequence and acknowledgement fields are below 2^31, so that         *)
(* Integer.parseInt of their 32 binary digits does not throw.              *)
(***************************************************************************)
EXTENDS Integers

CONSTANTS
  WINDOW_SIZE,      \* bytes of one segment, header included (command line)
  FileSize,         \* FILE_SIZE, the length of the file to send
  MAXTRIES,         \* 100 in the code
  WindowSumsToZero, \* the 16-bit words of the window-size packet add up to
                    \* 65535, so that its right checksum is the 0 it carries
  null              \* Java's null

(***************************************************************************)
(* With 24 bytes the sender's buffer is empty and it reads nothing for     *)
(* ever; 65507 is the largest UDP payload.  Below 2^31 no sequence or      *)
(* acknowledgement number leaves a Java int.                               *)
(***************************************************************************)
ASSUME WindowAssumption == WINDOW_SIZE \in Nat /\ WINDOW_SIZE > 24
ASSUME FileAssumption   == FileSize \in Nat
ASSUME RangeAssumption  == WINDOW_SIZE <= 65507 /\ FileSize <= 2147483647 - WINDOW_SIZE
ASSUME TriesAssumption  == MAXTRIES \in Nat /\ MAXTRIES >= 2
ASSUME SumAssumption    == WindowSumsToZero \in BOOLEAN

\* the length of the sender's read buffer
Payload == WINDOW_SIZE - 24

Packet == [seq : Nat, ack : Nat, flags : {0, 1, 16}, win : Nat, size : Nat,
           sum : BOOLEAN, num : BOOLEAN]

ASSUME NullAssumption == null \notin Packet

tcpHeader(seq, ack, flags, win, size, sum) ==
  [seq |-> seq, ack |-> ack, flags |-> flags, win |-> win, size |-> size,
   sum |-> sum, num |-> TRUE]

\* what the sender sends
WindowPacket         == tcpHeader(0, 1, 0, WINDOW_SIZE, 0, WindowSumsToZero)
Segment(seq, ack, n) == tcpHeader(seq, ack, 16, WINDOW_SIZE, n, TRUE)
SenderFin            == tcpHeader(0, 0, 1, WINDOW_SIZE, 24, FALSE)
LastAck(seq)         == tcpHeader(0, seq + 1, 16, WINDOW_SIZE, 24, FALSE)

\* what the receiver sends
WindowReply           == tcpHeader(0, 0, 0, 0, 24, FALSE)
Response(p, window)   == tcpHeader(p.ack, p.seq + window - 24, 16, window, 24, FALSE)
FinAck(window)        == tcpHeader(0, 1, 16, window, 24, FALSE)
ReceiverFin(window)   == tcpHeader(2, 0, 1, window, 24, FALSE)

(***************************************************************************)
(* isValidAck prints the flags byte in decimal, parses the digits as a     *)
(* hexadecimal number and looks at bit 4, the low bit of the tens digit.   *)
(***************************************************************************)
AckBit(p)          == (p.flags \div 10) % 2 = 1

\* Mutant: every acknowledgement is taken for the one waited for.
AnyAck(p, seq)     == AckBit(p)
isValidAck(p, seq) == AckBit(p) /\ p.ack = seq
=============================================================================
