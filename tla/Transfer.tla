------------------------------ MODULE Transfer ------------------------------
(***************************************************************************)
(* One file transfer: the sender, the receiver and the two paths between   *)
(* them, with the properties the README claims of the protocol.            *)
(***************************************************************************)
EXTENDS Sender, Receiver

vars == <<netVars, senderVars, receiverVars>>

Init == NetInit /\ SenderInit /\ ReceiverInit

SenderNext   == (SenderReceive \/ SenderTimeout) /\ UNCHANGED <<faults, receiverVars>>
ReceiverStep == ReceiverNext /\ UNCHANGED <<faults, senderVars>>
NetStep      == NetNext /\ UNCHANGED <<senderVars, receiverVars>>

Next == SenderNext \/ ReceiverStep \/ NetStep

Spec == Init /\ [][Next]_vars

(***************************************************************************)
(* A datagram that is not lost is delivered, and the JVM returns from a    *)
(* receive whose datagram is there or whose 300 ms are over: setSoTimeout  *)
(* on the sender's side, no timeout on the receiver's.  Faults are never   *)
(* bound to happen.                                                        *)
(***************************************************************************)
Fairness ==
  /\ WF_vars(SenderReceive /\ UNCHANGED <<faults, receiverVars>>)
  /\ WF_vars(SenderTimeout /\ UNCHANGED <<faults, receiverVars>>)
  /\ WF_vars(ReceiverStep)

FairSpec == Spec /\ Fairness

----------------------------------------------------------------------------
(* The receiver's file.                                                    *)

ChunkEnd(c) == c[1] + c[2]

\* How far a file made of the chunks w reaches in the sender's file.
ExtentOf(w) == IF w = <<>> THEN 0 ELSE ChunkEnd(w[Len(w)])

\* Each chunk of w begins where the one before it ends.
Contiguous(w) ==
  \A i \in 1..Len(w) :
    /\ w[i][2] > 0
    /\ w[i][1] = IF i = 1 THEN 0 ELSE ChunkEnd(w[i - 1])

Extent == ExtentOf(written)

Closing == spc \in {"finAck", "finWait", "success"}
Sending == spc \in {"await", "wrongAck", "noReply"}

TypeOK == NetTypeOK /\ SenderTypeOK /\ ReceiverTypeOK

(* The receiver's file is at every moment a prefix of the sender's: each   *)
(* chunk is appended where the one before it ended, none twice, none left  *)
(* out (the test on ackFlag, receiver.java:136; README feature 7).         *)
WrittenIsPrefix == Extent <= FileSize /\ Contiguous(written)

(* An acknowledgement that would let the sender go on exists only when     *)
(* everything sent is in the receiver's file, however old, duplicated or   *)
(* overtaken it is (isValidAck compares only the number).                  *)
AckMeansStored ==
  \A p \in DOMAIN rev : Sending /\ isValidAck(p, seqNum) => Extent = seqNum

(* The sender's and the receiver's counts of segments never differ by more *)
(* than the one being sent, which is what lets the receiver recognise a    *)
(* repeated segment by its number alone.                                   *)
OneOutstanding ==
  /\ ackFlag <= ackNum - 1
  /\ ackNum - 1 <= ackFlag + 1

(* The receiver closes its file in the regular way only after the sender   *)
(* has decided to end, and then at most the last segment is missing.       *)
ReceiverEndsAfterFin ==
  rpc \in {"lastAck", "done"} => Closing /\ Extent >= seqNum - len

(* The two programs implement the abstract stop-and-wait transfer.         *)
Abstract == INSTANCE StopAndWait WITH offered <- seqNum, stored <- Extent
StopAndWaitSpec == Abstract!Spec

----------------------------------------------------------------------------
(* The inductive invariant behind these properties.  It needs the window-  *)
(* size packet to have a wrong checksum: see WindowSumsToZero.             *)

SenderArithmetic ==
  /\ ackNum = 1 => seqNum = 0 /\ len = 0
  /\ ackNum > 1 => len > 0 /\ len <= seqNum
  /\ (ackNum > 1 /\ seqNum < FileSize) => len = Payload
  /\ spc = "handshake" => ackNum = 1
  /\ Sending => ackNum > 1

TriesLeft ==
  /\ spc = "handshake" => tries = 0
  /\ Sending => tries < MAXTRIES

WindowAgreed ==
  /\ \A p \in DOMAIN fwd : p.win = WINDOW_SIZE
  /\ rpc # "window" => window = WINDOW_SIZE

AllStored == ackFlag = ackNum - 1

FileFollowsCount == Extent = IF AllStored THEN seqNum ELSE seqNum - len

\* Intact packets on the way to the receiver are segments already sent, and
\* those with the current number are the current segment.
SegmentsInFlight ==
  \A p \in DOMAIN fwd : p.sum =>
    /\ p.ack \in 1..(ackNum - 1)
    /\ p.ack = ackNum - 1 => p.seq = seqNum - len /\ p.size = len

\* The highest acknowledgement the receiver can have made so far.
HighestAck == IF AllStored /\ ackNum > 1 THEN seqNum - len + Payload
                                        ELSE seqNum - len

AcksInFlight ==
  /\ outData # null => outData.ack <= HighestAck
  /\ \A p \in DOMAIN rev :
       p.flags = 16 => p.ack <= HighestAck \/ rpc \in {"lastAck", "done"}

EndsInOrder ==
  /\ \A p \in DOMAIN fwd : p.flags = 1 => Closing
  /\ rpc \in {"lastAck", "done"} => Closing

TypeInv == TypeOK /\ SenderArithmetic /\ TriesLeft /\ WindowAgreed

(* Together these conjuncts are preserved by every step; TypeInv is on its *)
(* own as well, and without the assumption on the window-size packet.      *)
IInv ==
  /\ TypeInv
  /\ OneOutstanding
  /\ FileFollowsCount
  /\ WrittenIsPrefix
  /\ SegmentsInFlight
  /\ AcksInFlight
  /\ EndsInOrder

----------------------------------------------------------------------------
(* README, line 3: the protocol recovers from loss and corruption.  The    *)
(* transfer ends with the whole file in place and the sender says so.      *)
TransferCompletes == <>(spc = "success" /\ Extent = FileSize)

(* The sender's verdict is right: success is reported only when the        *)
(* receiver has the whole file (README, line 13).                          *)
SuccessMeansDelivered == spc = "success" => Extent = FileSize

(* README, line 8: "when the file is transferred successfully, the Sequence *)
(* Number would be the size of this file".                                 *)
SuccessMeansAllSent == spc = "success" => seqNum = FileSize

(* receiver.java:107-114 means to answer a repeated window-size packet, so *)
(* that the sender's loop at sender.java:115 ends.                         *)
HandshakeCompletes == <>(spc # "handshake")

(* README, line 12: beyond the maximum number of retransmissions the       *)
(* sender stops.                                                           *)
SenderStops == (spc # "handshake") ~> (spc \in {"success", "failed"})

(* README, line 12: the sender gives up when MAXTRIES sendings in a row    *)
(* found no answer, so not while fewer packets than that were lost.        *)
GivesUpOnlyAfterMaxTries == spc = "failed" => faults >= MAXTRIES
=============================================================================
