--------------------------- MODULE TransferProofs ---------------------------
(***************************************************************************)
(* Proofs about Transfer for every window size, file size, number of tries *)
(* and set of faults.  The first part shows that TypeInv is inductive; the *)
(* second that IInv is, when the window-size packet's checksum is wrong.   *)
(***************************************************************************)
EXTENDS Transfer, TLAPS

----------------------------------------------------------------------------
(* Bags.                                                                   *)

(* BagAdd, by which every sender of the model sends, adds one element to   *)
(* the set of datagrams in flight.                                         *)
LEMMA BagAddDomain ==
  ASSUME NEW B, NEW x, IsABag(B)
  PROVE  IsABag(BagAdd(B, x)) /\ DOMAIN BagAdd(B, x) = DOMAIN B \cup {x}
BY DEF IsABag, BagAdd

(* BagRemove, by which a datagram is received or lost, adds nothing.       *)
LEMMA BagRemoveDomain ==
  ASSUME NEW B, NEW x, IsABag(B)
  PROVE  IsABag(BagRemove(B, x)) /\ DOMAIN BagRemove(B, x) \subseteq DOMAIN B
BY DEF IsABag, BagRemove

(* The bag that stands for a path on which nothing is in flight.           *)
LEMMA EmptyBagDomain == IsABag(EmptyBag) /\ DOMAIN EmptyBag = {}
BY DEF IsABag, EmptyBag, SetToBag

----------------------------------------------------------------------------
(* Packets.                                                                *)

(* What isValidAck makes of the three values of the flags byte.            *)
LEMMA AckBitOfFlags ==
  ASSUME NEW p \in Packet
  PROVE  AckBit(p) <=> p.flags = 16
BY DEF AckBit, Packet

(* The length of the read buffer is positive.                              *)
LEMMA PayloadPositive == Payload \in Nat \ {0} /\ WINDOW_SIZE \in Nat
BY WindowAssumption DEF Payload

(* Everything the sender sends is a packet that carries the window size.   *)
LEMMA SenderPackets ==
  ASSUME NEW s \in Nat, NEW a \in Nat, NEW n \in Nat
  PROVE  /\ WindowPacket \in Packet /\ WindowPacket.win = WINDOW_SIZE
         /\ SenderFin \in Packet /\ SenderFin.win = WINDOW_SIZE
         /\ LastAck(s) \in Packet /\ LastAck(s).win = WINDOW_SIZE
         /\ Segment(s, a, n) \in Packet /\ Segment(s, a, n).win = WINDOW_SIZE
BY PayloadPositive, SumAssumption
   DEF Packet, WindowPacket, SenderFin, LastAck, Segment, tcpHeader

(* So is everything the receiver sends, once it knows the window size.     *)
LEMMA ReceiverPackets ==
  ASSUME NEW p \in Packet
  PROVE  /\ WindowReply \in Packet
         /\ Response(p, WINDOW_SIZE) \in Packet
         /\ FinAck(WINDOW_SIZE) \in Packet
         /\ ReceiverFin(WINDOW_SIZE) \in Packet
BY PayloadPositive, WindowAssumption
   DEF Packet, WindowReply, Response, FinAck, ReceiverFin, tcpHeader

(* A damaged packet keeps everything but its checksum and its numbers.     *)
LEMMA DamagedPackets ==
  ASSUME NEW p \in Packet
  PROVE  LET q == [p EXCEPT !.sum = FALSE]
             r == [p EXCEPT !.sum = FALSE, !.num = FALSE]
         IN  /\ q \in Packet /\ q.win = p.win /\ q.flags = p.flags /\ ~q.sum
             /\ r \in Packet /\ r.win = p.win /\ r.flags = p.flags /\ ~r.sum
BY DEF Packet

----------------------------------------------------------------------------
(* Types.  A path is typed when it holds packets only, and the one to the  *)
(* receiver when they also carry the right window size.                    *)

FwdTyped(B) ==
  IsABag(B) /\ \A p \in DOMAIN B : p \in Packet /\ p.win = WINDOW_SIZE

RevTyped(B) == IsABag(B) /\ DOMAIN B \subseteq Packet

(* Sending on a path and taking from it keep it typed.                     *)
LEMMA PathsStayTyped ==
  ASSUME NEW B, NEW p
  PROVE  /\ FwdTyped(B) => FwdTyped(BagRemove(B, p))
         /\ RevTyped(B) => RevTyped(BagRemove(B, p))
         /\ FwdTyped(B) /\ p \in Packet /\ p.win = WINDOW_SIZE
               => FwdTyped(BagAdd(B, p))
         /\ RevTyped(B) /\ p \in Packet => RevTyped(BagAdd(B, p))
<1>1. IsABag(B) => /\ IsABag(BagRemove(B, p))
                   /\ DOMAIN BagRemove(B, p) \subseteq DOMAIN B
                   /\ IsABag(BagAdd(B, p))
                   /\ DOMAIN BagAdd(B, p) = DOMAIN B \cup {p}
  BY BagAddDomain, BagRemoveDomain
<1>2. FwdTyped(B) => FwdTyped(BagRemove(B, p))
  BY <1>1 DEF FwdTyped
<1>3. RevTyped(B) => RevTyped(BagRemove(B, p))
  BY <1>1 DEF RevTyped
<1>4. FwdTyped(B) /\ p \in Packet /\ p.win = WINDOW_SIZE => FwdTyped(BagAdd(B, p))
  BY <1>1 DEF FwdTyped
<1>5. RevTyped(B) /\ p \in Packet => RevTyped(BagAdd(B, p))
  BY <1>1 DEF RevTyped
<1> QED BY <1>2, <1>3, <1>4, <1>5

(* TypeInv says that both paths are typed.                                 *)
LEMMA TypeInvPaths ==
  (NetTypeOK /\ WindowAgreed)
    <=> (/\ FwdTyped(fwd) /\ RevTyped(rev) /\ faults \in Nat
         /\ rpc # "window" => window = WINDOW_SIZE)
BY DEF NetTypeOK, WindowAgreed, FwdTyped, RevTyped

LEMMA TypeInvPathsPrimed ==
  (NetTypeOK /\ WindowAgreed)'
    <=> (/\ FwdTyped(fwd') /\ RevTyped(rev') /\ faults' \in Nat
         /\ rpc' # "window" => window' = WINDOW_SIZE)
BY DEF NetTypeOK, WindowAgreed, FwdTyped, RevTyped

(* What every step of the sender does besides sending: it takes from the   *)
(* reply path and leaves the receiver alone.                               *)
SenderFrame ==
  RevTyped(rev') /\ isBroken' \in BOOLEAN /\ UNCHANGED <<faults, receiverVars>>

(* The read of the next segment (sender.java:134) and its sending.         *)
LEMMA SendSegmentTyped ==
  ASSUME TypeInv, SenderFrame, SendSegment,
         seqNum # FileSize, tries' \in 0..(MAXTRIES - 1)
  PROVE  TypeInv'
<1> USE DEF TypeInv, TypeOK
<1>1. NextLen \in 1..Payload /\ seqNum + NextLen \in 0..FileSize
      /\ (seqNum + NextLen < FileSize => NextLen = Payload)
  BY PayloadPositive, FileAssumption DEF SenderTypeOK, NextLen
<1>2. FwdTyped(fwd')
  BY <1>1, TypeInvPaths, SenderPackets, PathsStayTyped
     DEF SendSegment, SenderTypeOK
<1>3. (NetTypeOK /\ WindowAgreed)'
  BY <1>2, TypeInvPaths, TypeInvPathsPrimed DEF SenderFrame, receiverVars
<1>4. SenderTypeOK'
  BY <1>1, PayloadPositive, TriesAssumption
     DEF SenderTypeOK, SendSegment, SenderFrame
<1>5. SenderArithmetic'
  BY <1>1, PayloadPositive DEF SenderArithmetic, SenderTypeOK, SendSegment, Sending
<1>6. TriesLeft'
  BY TriesAssumption DEF TriesLeft, SendSegment
<1>7. ReceiverTypeOK'
  BY DEF ReceiverTypeOK, SenderFrame, receiverVars
<1> QED BY <1>3, <1>4, <1>5, <1>6, <1>7

(* A retransmission (sender.java:191 and 227).                             *)
LEMMA ResendTyped ==
  ASSUME TypeInv, SenderFrame, Sending,
         NEW where \in {"wrongAck", "noReply"}, Resend(where),
         tries' \in 0..(MAXTRIES - 1)
  PROVE  TypeInv'
<1> USE DEF TypeInv, TypeOK
<1>1. seqNum - len \in Nat /\ ackNum - 1 \in Nat /\ len \in Nat
  BY FileAssumption, PayloadPositive DEF SenderTypeOK, SenderArithmetic
<1>2. FwdTyped(fwd')
  BY <1>1, TypeInvPaths, SenderPackets, PathsStayTyped DEF Resend
<1>3. (NetTypeOK /\ WindowAgreed)'
  BY <1>2, TypeInvPaths, TypeInvPathsPrimed DEF SenderFrame, receiverVars
<1>4. SenderTypeOK'
  BY TriesAssumption DEF SenderTypeOK, Resend, SenderFrame
<1>5. SenderArithmetic'
  BY DEF SenderArithmetic, Resend, Sending
<1>6. TriesLeft'
  BY TriesAssumption DEF TriesLeft, Resend
<1>7. ReceiverTypeOK'
  BY DEF ReceiverTypeOK, SenderFrame, receiverVars
<1> QED BY <1>3, <1>4, <1>5, <1>6, <1>7

(* The way out of the file loop (sender.java:262).                         *)
LEMMA LeaveFileLoopTyped ==
  ASSUME TypeInv, SenderFrame, LeaveFileLoop, tries' \in 0..MAXTRIES
  PROVE  TypeInv'
<1> USE DEF TypeInv, TypeOK
<1>2. FwdTyped(fwd')
  BY TypeInvPaths, SenderPackets, PathsStayTyped DEF LeaveFileLoop
<1>3. (NetTypeOK /\ WindowAgreed)'
  BY <1>2, TypeInvPaths, TypeInvPathsPrimed DEF SenderFrame, receiverVars
<1>4. SenderTypeOK'
  BY DEF SenderTypeOK, LeaveFileLoop, SenderFrame
<1>5. SenderArithmetic'
  BY DEF SenderArithmetic, LeaveFileLoop, Sending
<1>6. TriesLeft'
  BY DEF TriesLeft, LeaveFileLoop, Sending
<1>7. ReceiverTypeOK'
  BY DEF ReceiverTypeOK, SenderFrame, receiverVars
<1> QED BY <1>3, <1>4, <1>5, <1>6, <1>7

(* The end of a segment's turn, with the finally block of sender.java:255. *)
LEMMA EndOfSegmentTyped ==
  ASSUME TypeInv, SenderFrame, EndOfSegment, tries' \in 0..MAXTRIES
  PROVE  TypeInv'
BY SendSegmentTyped, LeaveFileLoopTyped, TriesAssumption DEF EndOfSegment

(* A step that leaves the counters alone: in the handshake, in             *)
(* closeProcess or behind it.                                              *)
LEMMA QuietSenderTyped ==
  ASSUME TypeInv, SenderFrame, FwdTyped(fwd'),
         spc' \in {spc, "finWait", "success"},
         UNCHANGED <<seqNum, ackNum, len, tries, isBroken>>
  PROVE  TypeInv'
<1> USE DEF TypeInv, TypeOK
<1>1. (NetTypeOK /\ WindowAgreed)'
  BY TypeInvPaths, TypeInvPathsPrimed DEF SenderFrame, receiverVars
<1>2. SenderTypeOK'
  BY DEF SenderTypeOK
<1>3. SenderArithmetic'
  BY DEF SenderArithmetic, Sending
<1>4. TriesLeft'
  BY DEF TriesLeft, Sending
<1>5. ReceiverTypeOK'
  BY DEF ReceiverTypeOK, SenderFrame, receiverVars
<1> QED BY <1>1, <1>2, <1>3, <1>4, <1>5

(* Every step of the sender keeps the types.                               *)
LEMMA TypeInvSender == TypeInv /\ SenderNext => TypeInv'
<1> SUFFICES ASSUME TypeInv, SenderNext
             PROVE  TypeInv'
  OBVIOUS
<1>1. /\ FwdTyped(fwd) /\ RevTyped(rev)
      /\ UNCHANGED <<faults, receiverVars>>
      /\ SenderTypeOK /\ TriesLeft
  BY TypeInvPaths DEF TypeInv, TypeOK, SenderNext
<1>2. ASSUME NEW p, Take(p)
      PROVE  p \in Packet /\ RevTyped(rev')
  BY <1>1, <1>2, PathsStayTyped DEF Take, RevTyped
<1>3. ASSUME TimeOut
      PROVE  RevTyped(rev')
  BY <1>1, <1>3 DEF TimeOut
<1>4. ASSUME NEW t \in Nat, RetryWrongAck(t), RevTyped(rev'), Sending,
             t \in 1..(MAXTRIES + 1)
      PROVE  TypeInv'
  <2>1. SenderFrame
    BY <1>1, <1>4 DEF RetryWrongAck, SenderFrame, SenderTypeOK
  <2>2. CASE t = MAXTRIES
    BY <2>1, <2>2, <1>4, LeaveFileLoopTyped, TriesAssumption DEF RetryWrongAck
  <2>3. CASE t # MAXTRIES
    <3>1. tries' \in 0..(MAXTRIES - 1) /\ Resend("wrongAck")
      BY <2>3, <1>4, TriesAssumption DEF RetryWrongAck
    <3> QED BY <3>1, <2>1, <1>4, ResendTyped
  <2> QED BY <2>2, <2>3
<1>5. ASSUME RetryNoReply, RevTyped(rev'), Sending
      PROVE  TypeInv'
  <2>1. SenderFrame /\ tries' \in 0..MAXTRIES
    BY <1>1, <1>5, TriesAssumption
       DEF RetryNoReply, SenderFrame, SenderTypeOK, TriesLeft
  <2>2. CASE tries' < MAXTRIES
    BY <2>1, <2>2, <1>5, ResendTyped, TriesAssumption DEF RetryNoReply
  <2>3. CASE ~(tries' < MAXTRIES)
    BY <2>1, <2>3, <1>5, LeaveFileLoopTyped DEF RetryNoReply
  <2> QED BY <2>2, <2>3
<1>6. ASSUME NEW p \in DOMAIN rev, HandshakeReceive(p)
      PROVE  TypeInv'
  <2>1. SenderFrame /\ tries' \in 0..MAXTRIES
    BY <1>1, <1>2, <1>6 DEF HandshakeReceive, SenderFrame, SenderTypeOK
  <2>2. CASE p.ack = 0 /\ p.seq = 0
    BY <2>1, <2>2, <1>6, EndOfSegmentTyped DEF HandshakeReceive
  <2>3. CASE ~(p.ack = 0 /\ p.seq = 0)
    BY <2>1, <2>3, <1>1, <1>6, QuietSenderTyped DEF HandshakeReceive
  <2> QED BY <2>2, <2>3
<1>7. ASSUME HandshakeTimeout
      PROVE  TypeInv'
  <2>1. FwdTyped(fwd')
    BY <1>1, <1>7, SenderPackets, PathsStayTyped DEF HandshakeTimeout
  <2> QED BY <2>1, <1>1, <1>3, <1>7, QuietSenderTyped
          DEF HandshakeTimeout, SenderFrame, senderVars, SenderTypeOK
<1>8. ASSUME NEW p \in DOMAIN rev, AwaitReceive(p)
      PROVE  TypeInv'
  <2>1. RevTyped(rev') /\ Sending
    BY <1>2, <1>8 DEF AwaitReceive, Sending
  <2>2. CASE isValidAck(p, seqNum) \/ seqNum = FileSize
    <3>1. UNCHANGED <<tries, isBroken>> /\ EndOfSegment
      BY <2>2, <1>8 DEF AwaitReceive
    <3> QED BY <3>1, <2>1, <1>1, EndOfSegmentTyped DEF SenderFrame, SenderTypeOK
  <2>3. CASE ~(isValidAck(p, seqNum) \/ seqNum = FileSize)
    <3>1. tries' = 1 /\ isBroken' = TRUE /\ Resend("wrongAck")
      BY <2>3, <1>8 DEF AwaitReceive
    <3> QED BY <3>1, <2>1, <1>1, ResendTyped, TriesAssumption DEF SenderFrame
  <2> QED BY <2>2, <2>3
<1>9. ASSUME AwaitTimeout
      PROVE  TypeInv'
  BY <1>1, <1>3, <1>9, ResendTyped, TriesAssumption
     DEF AwaitTimeout, SenderFrame, Sending
<1>10. ASSUME NEW p \in DOMAIN rev, WrongAckReceive(p)
       PROVE  TypeInv'
  <2>1. RevTyped(rev') /\ Sending /\ tries \in Nat /\ tries < MAXTRIES
    BY <1>1, <1>2, <1>10 DEF WrongAckReceive, Sending, TriesLeft, SenderTypeOK
  <2>2. CASE isValidAck(p, seqNum)
    <3>1. tries' = tries + 1 /\ isBroken' = FALSE /\ EndOfSegment
      BY <2>2, <1>10 DEF WrongAckReceive
    <3>2. tries' \in 0..MAXTRIES
      BY <3>1, <2>1, TriesAssumption
    <3>3. SenderFrame
      BY <3>1, <2>1, <1>1 DEF SenderFrame
    <3> QED BY <3>1, <3>2, <3>3, EndOfSegmentTyped
  <2>3. CASE ~isValidAck(p, seqNum)
    <3>1. tries + 1 \in Nat /\ tries + 1 \in 1..(MAXTRIES + 1)
      BY <2>1, TriesAssumption
    <3> QED BY <3>1, <2>1, <2>3, <1>4, <1>10 DEF WrongAckReceive
  <2> QED BY <2>2, <2>3
<1>11. ASSUME WrongAckTimeout
       PROVE  TypeInv'
  <2>1. RevTyped(rev') /\ Sending /\ tries \in Nat /\ tries < MAXTRIES
    BY <1>1, <1>3, <1>11 DEF WrongAckTimeout, Sending, TriesLeft, SenderTypeOK
  <2>2. tries + 2 \in Nat /\ tries + 2 \in 1..(MAXTRIES + 1)
    BY <2>1, TriesAssumption
  <2> QED BY <2>1, <2>2, <1>4, <1>11 DEF WrongAckTimeout
<1>12. ASSUME NEW p \in DOMAIN rev, NoReplyReceive(p)
       PROVE  TypeInv'
  <2>1. RevTyped(rev') /\ Sending
    BY <1>1, <1>2, <1>12 DEF NoReplyReceive, Sending
  <2>2. CASE isValidAck(p, seqNum)
    BY <2>1, <2>2, <1>1, <1>12, EndOfSegmentTyped
       DEF NoReplyReceive, SenderFrame, SenderTypeOK
  <2>3. CASE ~isValidAck(p, seqNum)
    BY <2>1, <2>3, <1>5, <1>12 DEF NoReplyReceive
  <2> QED BY <2>2, <2>3
<1>13. ASSUME NoReplyTimeout
       PROVE  TypeInv'
  BY <1>1, <1>3, <1>5, <1>13 DEF NoReplyTimeout, Sending
<1>14. ASSUME NEW p \in DOMAIN rev, CloseReceiveAck(p)
       PROVE  TypeInv'
  BY <1>1, <1>2, <1>14, QuietSenderTyped
     DEF CloseReceiveAck, SenderFrame, SenderTypeOK
<1>15. ASSUME NEW p \in DOMAIN rev, CloseReceiveFin(p)
       PROVE  TypeInv'
  <2>1. p \in Packet /\ RevTyped(rev')
    BY <1>2, <1>15 DEF CloseReceiveFin
  <2>2. p.seq \in Nat
    BY <2>1 DEF Packet
  <2>3. FwdTyped(fwd')
    BY <2>2, <1>1, <1>15, SenderPackets, PathsStayTyped DEF CloseReceiveFin
  <2> QED BY <2>1, <2>3, <1>1, <1>15, QuietSenderTyped
          DEF CloseReceiveFin, SenderFrame, SenderTypeOK
<1>16. ASSUME CloseTimeout
       PROVE  TypeInv'
  BY <1>1, <1>3, <1>16, QuietSenderTyped
     DEF CloseTimeout, SenderFrame, SenderTypeOK
<1>17. ASSUME NEW p \in DOMAIN rev, SenderClosed(p)
       PROVE  TypeInv'
  BY <1>1, <1>2, <1>17, QuietSenderTyped
     DEF SenderClosed, SenderFrame, SenderTypeOK, senderVars
<1> QED
  BY <1>6, <1>7, <1>8, <1>9, <1>10, <1>11, <1>12, <1>13, <1>14, <1>15, <1>16,
     <1>17 DEF SenderNext, SenderReceive, SenderTimeout

(* Every step of the receiver keeps the types.                             *)
LEMMA TypeInvReceiver == TypeInv /\ ReceiverStep => TypeInv'
<1> SUFFICES ASSUME TypeInv, ReceiverStep
             PROVE  TypeInv'
  OBVIOUS
<1>1. /\ FwdTyped(fwd) /\ RevTyped(rev) /\ faults \in Nat
      /\ rpc # "window" => window = WINDOW_SIZE
      /\ UNCHANGED <<faults, senderVars>>
      /\ ReceiverTypeOK
  BY TypeInvPaths DEF TypeInv, TypeOK, ReceiverStep
<1>2. SenderTypeOK' /\ SenderArithmetic' /\ TriesLeft'
  BY <1>1 DEF TypeInv, TypeOK, SenderTypeOK, SenderArithmetic, TriesLeft,
              Sending, senderVars
<1>3. ASSUME NEW p, Get(p)
      PROVE  p \in Packet /\ p.win = WINDOW_SIZE /\ FwdTyped(fwd')
  BY <1>1, <1>3, PathsStayTyped DEF Get, FwdTyped
<1>4. ASSUME FwdTyped(fwd'), RevTyped(rev'), ReceiverTypeOK',
             rpc' # "window" => window' = WINDOW_SIZE
      PROVE  TypeInv'
  BY <1>1, <1>2, <1>4, TypeInvPathsPrimed DEF TypeInv, TypeOK
<1>5. WINDOW_SIZE \in Int
  BY WindowAssumption
<1>6. ASSUME NEW p \in DOMAIN fwd, ReceiveWindow(p)
      PROVE  TypeInv'
  <2>1. p \in Packet /\ p.win = WINDOW_SIZE /\ FwdTyped(fwd')
    BY <1>3, <1>6 DEF ReceiveWindow
  <2>2. RevTyped(rev')
    BY <2>1, <1>1, <1>6, ReceiverPackets, PathsStayTyped DEF ReceiveWindow
  <2> QED BY <2>1, <2>2, <1>1, <1>4, <1>5, <1>6
          DEF ReceiveWindow, ReceiverTypeOK
<1>7. ASSUME NEW p \in DOMAIN fwd, ReceiveAndThrow(p)
      PROVE  TypeInv'
  BY <1>1, <1>3, <1>4, <1>7 DEF ReceiveAndThrow, ReceiverTypeOK
<1>8. ASSUME NEW p \in DOMAIN fwd, ReceiveAndContinue(p)
      PROVE  TypeInv'
  <2>1. p \in Packet /\ p.win = WINDOW_SIZE /\ FwdTyped(fwd')
    BY <1>3, <1>8 DEF ReceiveAndContinue
  <2>2. RevTyped(rev')
    BY <2>1, <1>1, <1>8, ReceiverPackets, PathsStayTyped DEF ReceiveAndContinue
  <2> QED BY <2>1, <2>2, <1>1, <1>4, <1>8
          DEF ReceiveAndContinue, ReceiverTypeOK, receiverVars
<1>9. ASSUME NEW p \in DOMAIN fwd, ReceiveFin(p)
      PROVE  TypeInv'
  <2>1. p \in Packet /\ p.win = WINDOW_SIZE /\ FwdTyped(fwd')
    BY <1>3, <1>9 DEF ReceiveFin
  <2>2. window = WINDOW_SIZE
    BY <1>1, <1>9 DEF ReceiveFin
  <2>3. RevTyped(rev')
    BY <2>1, <2>2, <1>1, <1>9, ReceiverPackets, PathsStayTyped DEF ReceiveFin
  <2> QED BY <2>1, <2>2, <2>3, <1>1, <1>4, <1>9 DEF ReceiveFin, ReceiverTypeOK
<1>10. ASSUME NEW p \in DOMAIN fwd, ReceiveData(p)
       PROVE  TypeInv'
  <2>1. p \in Packet /\ p.win = WINDOW_SIZE /\ FwdTyped(fwd')
    BY <1>3, <1>10 DEF ReceiveData
  <2>2. window = WINDOW_SIZE
    BY <1>1, <1>10 DEF ReceiveData
  <2>3. CASE IsNew(p)
    <3>1. /\ written' = Append(written, <<p.seq, p.size>>)
          /\ outData' = Response(p, WINDOW_SIZE)
          /\ ackFlag' = ackFlag + 1
          /\ rev' = BagAdd(rev, outData')
          /\ UNCHANGED <<rpc, window>>
      BY <2>2, <2>3, <1>10 DEF ReceiveData
    <3>2. outData' \in Packet
      BY <3>1, <2>1, ReceiverPackets
    <3>3. RevTyped(rev')
      BY <3>1, <3>2, <1>1, PathsStayTyped
    <3>4. <<p.seq, p.size>> \in Nat \X Nat
      BY <2>1 DEF Packet
    <3>5. written' \in Seq(Nat \X Nat)
      BY <3>1, <3>4, <1>1 DEF ReceiverTypeOK
    <3>6. ReceiverTypeOK'
      BY <3>1, <3>2, <3>5, <1>1 DEF ReceiverTypeOK
    <3> QED BY <3>1, <3>3, <3>6, <2>1, <1>1, <1>4
  <2>4. CASE ~IsNew(p)
    <3>1. /\ UNCHANGED <<written, outData, ackFlag, rpc, window>>
          /\ rev' = BagAdd(rev, outData')
          /\ outData # null
      BY <2>4, <1>10 DEF ReceiveData, Throws
    <3>2. outData' \in Packet
      BY <3>1, <1>1 DEF ReceiverTypeOK
    <3>3. RevTyped(rev')
      BY <3>1, <3>2, <1>1, PathsStayTyped
    <3>4. ReceiverTypeOK'
      BY <3>1, <1>1 DEF ReceiverTypeOK
    <3> QED BY <3>1, <3>3, <3>4, <2>1, <1>1, <1>4
  <2> QED BY <2>3, <2>4
<1>11. ASSUME NEW p \in DOMAIN fwd, ReceiveLast(p)
       PROVE  TypeInv'
  BY <1>1, <1>3, <1>4, <1>11 DEF ReceiveLast, ReceiverTypeOK
<1>12. ASSUME NEW p \in DOMAIN fwd, ReceiverClosed(p)
       PROVE  TypeInv'
  BY <1>1, <1>3, <1>4, <1>12 DEF ReceiverClosed, ReceiverTypeOK, receiverVars
<1> QED
  BY <1>6, <1>7, <1>8, <1>9, <1>10, <1>11, <1>12 DEF ReceiverStep, ReceiverNext

(* Faults of the network keep the types.                                   *)
LEMMA TypeInvNetwork == TypeInv /\ NetStep => TypeInv'
<1> SUFFICES ASSUME TypeInv, NetStep
             PROVE  TypeInv'
  OBVIOUS
<1>1. /\ FwdTyped(fwd) /\ RevTyped(rev) /\ faults \in Nat
      /\ rpc # "window" => window = WINDOW_SIZE
      /\ UNCHANGED <<senderVars, receiverVars>>
  BY TypeInvPaths DEF TypeInv, TypeOK, NetStep
<1>2. SenderTypeOK' /\ SenderArithmetic' /\ TriesLeft' /\ ReceiverTypeOK'
  BY <1>1 DEF TypeInv, TypeOK, SenderTypeOK, SenderArithmetic, TriesLeft,
              Sending, senderVars, ReceiverTypeOK, receiverVars
<1>3. ASSUME FwdTyped(fwd'), RevTyped(rev'), faults' \in Nat
      PROVE  TypeInv'
  BY <1>1, <1>2, <1>3, TypeInvPathsPrimed DEF TypeInv, TypeOK, receiverVars
<1>4. ASSUME NEW kind, NEW kinds, Fault(kind, kinds)
      PROVE  faults' \in Nat
  BY <1>1, <1>4 DEF Fault
<1>5. ASSUME NEW p \in DOMAIN fwd, LoseForward(p)
      PROVE  TypeInv'
  BY <1>1, <1>3, <1>4, <1>5, PathsStayTyped DEF LoseForward
<1>6. ASSUME NEW p \in DOMAIN fwd, DuplicateForward(p)
      PROVE  TypeInv'
  BY <1>1, <1>3, <1>4, <1>6, PathsStayTyped DEF DuplicateForward, FwdTyped
<1>7. ASSUME NEW p \in DOMAIN fwd, CorruptChecksum(p)
      PROVE  TypeInv'
  <2>1. p \in Packet /\ p.win = WINDOW_SIZE
    BY <1>1 DEF FwdTyped
  <2>2. FwdTyped(fwd')
    BY <2>1, <1>1, <1>7, DamagedPackets, PathsStayTyped DEF CorruptChecksum
  <2> QED BY <2>2, <1>1, <1>3, <1>4, <1>7 DEF CorruptChecksum
<1>8. ASSUME NEW p \in DOMAIN fwd, CorruptNumber(p)
      PROVE  TypeInv'
  <2>1. p \in Packet /\ p.win = WINDOW_SIZE
    BY <1>1 DEF FwdTyped
  <2>2. FwdTyped(fwd')
    BY <2>1, <1>1, <1>8, DamagedPackets, PathsStayTyped DEF CorruptNumber
  <2> QED BY <2>2, <1>1, <1>3, <1>4, <1>8 DEF CorruptNumber
<1>9. ASSUME NEW p \in DOMAIN rev, LoseReply(p)
      PROVE  TypeInv'
  BY <1>1, <1>3, <1>4, <1>9, PathsStayTyped DEF LoseReply
<1>10. ASSUME NEW p \in DOMAIN rev, DuplicateReply(p)
       PROVE  TypeInv'
  BY <1>1, <1>3, <1>4, <1>10, PathsStayTyped DEF DuplicateReply, RevTyped
<1> QED
  BY <1>5, <1>6, <1>7, <1>8, <1>9, <1>10 DEF NetStep, NetNext

(* The first window-size packet is typed.                                  *)
LEMMA TypeInvInit == Init => TypeInv
<1> SUFFICES ASSUME Init
             PROVE  TypeInv
  OBVIOUS
<1>1. FwdTyped(fwd) /\ RevTyped(rev) /\ faults \in Nat
  <2>1. WindowPacket \in Packet /\ WindowPacket.win = WINDOW_SIZE
    BY SenderPackets
  <2>2. FwdTyped(EmptyBag) /\ RevTyped(EmptyBag)
    BY EmptyBagDomain DEF FwdTyped, RevTyped
  <2> QED BY <2>1, <2>2, PathsStayTyped DEF Init, NetInit
<1>2. SenderTypeOK
  <2>1. /\ spc = "handshake" /\ seqNum = 0 /\ ackNum = 1 /\ len = 0 /\ tries = 0
        /\ isBroken \in BOOLEAN
    BY DEF Init, SenderInit
  <2> QED BY <2>1, PayloadPositive, FileAssumption, TriesAssumption
          DEF SenderTypeOK
<1>3. SenderArithmetic /\ TriesLeft
  BY DEF Init, SenderInit, SenderArithmetic, TriesLeft, Sending
<1>4. ReceiverTypeOK /\ rpc = "window"
  <2>1. /\ rpc = "window" /\ window = -1 /\ ackFlag = 0
        /\ outData = null /\ written = <<>>
    BY DEF Init, ReceiverInit
  <2>2. written \in Seq(Nat \X Nat)
    BY <2>1
  <2> QED BY <2>1, <2>2 DEF ReceiverTypeOK
<1> QED BY <1>1, <1>2, <1>3, <1>4, TypeInvPaths DEF TypeInv, TypeOK

(* Every variable of the transfer keeps its type, for every choice of the  *)
(* constants, whatever the network loses, duplicates or damages: sequence  *)
(* numbers never pass the end of the file and the count of tries never     *)
(* passes MAXTRIES (the two tests of sender.java:183 and 256).             *)
THEOREM TypeCorrectness == Spec => []TypeOK
<1>1. Init => TypeInv
  BY TypeInvInit
<1>2. TypeInv /\ [Next]_vars => TypeInv'
  <2> SUFFICES ASSUME TypeInv, [Next]_vars
               PROVE  TypeInv'
    OBVIOUS
  <2>1. CASE Next
    BY <2>1, TypeInvSender, TypeInvReceiver, TypeInvNetwork DEF Next
  <2>2. CASE UNCHANGED vars
    BY <2>2 DEF TypeInv, TypeOK, NetTypeOK, SenderTypeOK, ReceiverTypeOK,
                SenderArithmetic, TriesLeft, WindowAgreed, Sending,
                vars, netVars, senderVars, receiverVars
  <2> QED BY <2>1, <2>2
<1>3. TypeInv => TypeOK
  BY DEF TypeInv
<1> QED BY <1>1, <1>2, <1>3, PTL DEF Spec


----------------------------------------------------------------------------
(* The receiver's file.                                                    *)

(* Appending a chunk that begins where the file ends keeps it gapless and  *)
(* moves its end by the chunk's length (writeData, receiver.java:206).     *)
LEMMA AppendChunk ==
  ASSUME NEW w \in Seq(Nat \X Nat), NEW s \in Nat, NEW n \in Nat,
         Contiguous(w), s = ExtentOf(w), n > 0
  PROVE  /\ Contiguous(Append(w, <<s, n>>))
         /\ ExtentOf(Append(w, <<s, n>>)) = s + n
<1> DEFINE v == Append(w, <<s, n>>)
<1>1. /\ v \in Seq(Nat \X Nat) /\ Len(v) = Len(w) + 1 /\ Len(w) \in Nat
      /\ v[Len(v)] = <<s, n>>
      /\ \A i \in 1..Len(w) : v[i] = w[i]
  OBVIOUS
<1>2. v # <<>>
  BY <1>1
<1>3. ExtentOf(v) = s + n
  BY <1>1, <1>2 DEF ExtentOf, ChunkEnd
<1>4. ASSUME NEW i \in 1..Len(v)
      PROVE  v[i][2] > 0 /\ v[i][1] = IF i = 1 THEN 0 ELSE ChunkEnd(v[i - 1])
  <2>1. CASE i \in 1..Len(w)
    <3>1. v[i] = w[i] /\ (i # 1 => v[i - 1] = w[i - 1])
      BY <1>1, <2>1
    <3> QED BY <3>1, <2>1 DEF Contiguous
  <2>2. CASE i = Len(w) + 1
    <3>1. v[i] = <<s, n>>
      BY <1>1, <2>2
    <3>2. CASE i = 1
      <4>1. w = <<>>
        BY <3>2, <2>2
      <4> QED BY <4>1, <3>1, <3>2 DEF ExtentOf
    <3>3. CASE i # 1
      <4>1. w # <<>> /\ i - 1 = Len(w) /\ v[i - 1] = w[Len(w)]
        BY <3>3, <2>2, <1>1
      <4> QED BY <4>1, <3>1, <3>3 DEF ExtentOf
    <3> QED BY <3>2, <3>3
  <2>3. i \in 1..Len(w) \/ i = Len(w) + 1
    <3>1. i \in 1..(Len(w) + 1) /\ Len(w) \in Nat
      BY <1>1
    <3> QED BY <3>1
  <2> QED BY <2>1, <2>2, <2>3
<1> QED BY <1>3, <1>4 DEF Contiguous

----------------------------------------------------------------------------
(* The inductive invariant.                                                *)

Ended == {"lastAck", "done"}

(* Any step that sends nothing new and writes nothing: it may repeat the   *)
(* current segment, send packets whose checksum is wrong, answer with      *)
(* acknowledgements that are not too high, and lose, repeat or damage what *)
(* is in flight.                                                           *)
LEMMA SameCounts ==
  ASSUME IInv, TypeInv',
         UNCHANGED <<seqNum, ackNum, len, ackFlag, outData, written>>,
         Closing => Closing',
         \A p \in DOMAIN fwd' :
            \/ p \in DOMAIN fwd
            \/ /\ p.sum => /\ ackNum > 1 /\ p.ack = ackNum - 1
                           /\ p.seq = seqNum - len /\ p.size = len
               /\ p.flags = 1 => Closing',
         \A p \in DOMAIN rev' :
            \/ p \in DOMAIN rev
            \/ p.flags = 16 => p.ack <= HighestAck \/ rpc' \in Ended,
         rpc \in Ended => rpc' \in Ended,
         rpc' \in Ended => Closing'
  PROVE  IInv'
<1>1. OneOutstanding'
  BY DEF IInv, OneOutstanding
<1>2. FileFollowsCount' /\ HighestAck' = HighestAck
  BY DEF IInv, FileFollowsCount, Extent, AllStored, HighestAck
<1>3. WrittenIsPrefix'
  BY DEF IInv, WrittenIsPrefix, Extent
<1>4. SegmentsInFlight'
  <2> SUFFICES ASSUME NEW p \in DOMAIN fwd', p.sum
               PROVE  /\ p.ack \in 1..(ackNum - 1)
                      /\ p.ack = ackNum - 1 => p.seq = seqNum - len /\ p.size = len
    BY DEF SegmentsInFlight
  <2>1. CASE p \in DOMAIN fwd
    BY <2>1 DEF IInv, SegmentsInFlight
  <2>2. CASE p \notin DOMAIN fwd
    BY <2>2 DEF IInv, TypeInv, TypeOK, SenderTypeOK
  <2> QED BY <2>1, <2>2
<1>5. AcksInFlight'
  BY <1>2 DEF IInv, AcksInFlight, Ended
<1>6. EndsInOrder'
  BY DEF IInv, EndsInOrder, Ended
<1> QED BY <1>1, <1>2, <1>3, <1>4, <1>5, <1>6 DEF IInv

(* The next segment goes out only after everything sent was stored.        *)
LEMMA NextSegment ==
  ASSUME IInv, TypeInv', SendSegment, AllStored, seqNum # FileSize,
         ~Closing, DOMAIN rev' \subseteq DOMAIN rev, UNCHANGED receiverVars
  PROVE  IInv'
<1>1. /\ seqNum \in Nat /\ ackNum \in Nat /\ len \in Nat /\ ackFlag \in Nat
      /\ NextLen \in Nat /\ ackNum > 0 /\ Payload \in Nat
      /\ ackNum = 1 => seqNum = 0 /\ len = 0
      /\ ackNum > 1 => len = Payload
  BY FileAssumption, PayloadPositive
     DEF IInv, TypeInv, TypeOK, SenderTypeOK, SenderArithmetic, ReceiverTypeOK,
         NextLen
<1>2. /\ seqNum' = seqNum + NextLen /\ ackNum' = ackNum + 1 /\ len' = NextLen
      /\ spc' = "await"
      /\ UNCHANGED <<rpc, ackFlag, outData, written>>
  BY DEF SendSegment, receiverVars
<1>3. /\ ackFlag = ackNum - 1 /\ ~AllStored' /\ HighestAck' = seqNum
      /\ HighestAck = seqNum /\ Extent' = Extent /\ Extent = seqNum
  BY <1>1, <1>2 DEF AllStored, HighestAck, IInv, FileFollowsCount, Extent
<1>4. OneOutstanding'
  BY <1>1, <1>2, <1>3 DEF OneOutstanding
<1>5. FileFollowsCount'
  BY <1>1, <1>2, <1>3 DEF FileFollowsCount
<1>6. WrittenIsPrefix'
  BY <1>2 DEF IInv, WrittenIsPrefix, Extent
<1>7. DOMAIN fwd' = DOMAIN fwd \cup {Segment(seqNum, ackNum, NextLen)}
  BY BagAddDomain, TypeInvPaths DEF SendSegment, IInv, TypeInv, TypeOK, FwdTyped
<1>8. SegmentsInFlight'
  <2> SUFFICES ASSUME NEW p \in DOMAIN fwd', p.sum
               PROVE  /\ p.ack \in 1..(ackNum' - 1)
                      /\ p.ack = ackNum' - 1 =>
                            p.seq = seqNum' - len' /\ p.size = len'
    BY DEF SegmentsInFlight
  <2>1. CASE p \in DOMAIN fwd
    <3>1. p.ack \in 1..(ackNum - 1)
      BY <2>1 DEF IInv, SegmentsInFlight
    <3> QED BY <3>1, <1>1, <1>2
  <2>2. CASE p = Segment(seqNum, ackNum, NextLen)
    <3>1. p.ack = ackNum /\ p.seq = seqNum /\ p.size = NextLen
      BY <2>2 DEF Segment, tcpHeader
    <3> QED BY <3>1, <1>1, <1>2
  <2> QED BY <2>1, <2>2, <1>7
<1>9. rpc \notin Ended
  BY DEF IInv, EndsInOrder, Ended
<1>10. AcksInFlight'
  BY <1>2, <1>3, <1>9 DEF IInv, AcksInFlight, Ended
<1>11. EndsInOrder'
  BY <1>2, <1>7, <1>9 DEF IInv, EndsInOrder, Ended, Segment, tcpHeader
<1> QED BY <1>4, <1>5, <1>6, <1>8, <1>10, <1>11 DEF IInv

(* A valid acknowledgement means that everything sent has been stored.     *)
LEMMA ValidAckMeansStored ==
  ASSUME IInv, Sending, NEW p \in DOMAIN rev, isValidAck(p, seqNum)
  PROVE  AllStored
<1>1. p \in Packet
  BY DEF IInv, TypeInv, TypeOK, NetTypeOK
<1>2. p.flags = 16 /\ p.ack = seqNum
  BY <1>1, AckBitOfFlags DEF isValidAck
<1>3. rpc \notin {"lastAck", "done"}
  BY DEF IInv, EndsInOrder, Sending, Closing
<1>4. seqNum <= HighestAck
  BY <1>2, <1>3 DEF IInv, AcksInFlight
<1>5. seqNum \in Nat /\ len \in Nat /\ len > 0
  BY FileAssumption, PayloadPositive
     DEF IInv, TypeInv, TypeOK, SenderTypeOK, SenderArithmetic
<1> QED BY <1>4, <1>5 DEF HighestAck

(* Before the first segment there is nothing left to store.                *)
LEMMA NothingSentMeansStored ==
  ASSUME IInv, ackNum = 1
  PROVE  AllStored
BY DEF IInv, OneOutstanding, TypeInv, TypeOK, ReceiverTypeOK, AllStored

(* What the paths hold after one packet is sent on the way to the receiver *)
(* or taken from the way back.                                             *)
LEMMA PathDomains ==
  ASSUME IInv, NEW p
  PROVE  /\ DOMAIN BagAdd(fwd, p) = DOMAIN fwd \cup {p}
         /\ DOMAIN BagRemove(fwd, p) \subseteq DOMAIN fwd
         /\ DOMAIN BagAdd(rev, p) = DOMAIN rev \cup {p}
         /\ DOMAIN BagRemove(rev, p) \subseteq DOMAIN rev
BY BagAddDomain, BagRemoveDomain DEF IInv, TypeInv, TypeOK, NetTypeOK

LEMMA ResendKeeps ==
  ASSUME IInv, TypeInv', Sending, NEW where \in {"wrongAck", "noReply"},
         Resend(where), DOMAIN rev' \subseteq DOMAIN rev, UNCHANGED receiverVars
  PROVE  IInv'
<1>1. ackNum > 1 /\ ~Closing /\ rpc \notin Ended
  BY DEF IInv, TypeInv, SenderArithmetic, EndsInOrder, Ended, Sending, Closing
<1>2. UNCHANGED <<seqNum, ackNum, len, rpc, ackFlag, outData, written>>
  BY DEF Resend, receiverVars
<1>3. ASSUME NEW p \in DOMAIN fwd', p \notin DOMAIN fwd
      PROVE  /\ ackNum > 1 /\ p.ack = ackNum - 1 /\ p.seq = seqNum - len
             /\ p.size = len /\ p.flags # 1
  <2>1. p = Segment(seqNum - len, ackNum - 1, len)
    <3>1. DOMAIN fwd' = DOMAIN fwd \cup {Segment(seqNum - len, ackNum - 1, len)}
      BY PathDomains DEF Resend
    <3> QED BY <3>1, <1>3
  <2> QED BY <2>1, <1>1 DEF Segment, tcpHeader
<1> QED BY <1>1, <1>2, <1>3, SameCounts

LEMMA LeaveKeeps ==
  ASSUME IInv, TypeInv', LeaveFileLoop, ~Closing,
         DOMAIN rev' \subseteq DOMAIN rev, UNCHANGED receiverVars
  PROVE  IInv'
<1>1. rpc \notin Ended
  BY DEF IInv, EndsInOrder, Ended
<1>2. UNCHANGED <<seqNum, ackNum, len, rpc, ackFlag, outData, written>>
  BY DEF LeaveFileLoop, receiverVars
<1>3. ASSUME NEW p \in DOMAIN fwd', p \notin DOMAIN fwd
      PROVE  ~p.sum /\ Closing'
  <2>1. p = SenderFin /\ spc' = "finAck"
    <3>1. spc' = "finAck" /\ fwd' = BagAdd(fwd, SenderFin)
      BY <1>3 DEF LeaveFileLoop
    <3>2. DOMAIN fwd' = DOMAIN fwd \cup {SenderFin}
      BY <3>1, PathDomains
    <3> QED BY <3>1, <3>2, <1>3
  <2> QED BY <2>1 DEF SenderFin, tcpHeader, Closing
<1> QED BY <1>1, <1>2, <1>3, SameCounts

LEMMA EndOfSegmentKeeps ==
  ASSUME IInv, TypeInv', EndOfSegment, ~Closing, seqNum # FileSize => AllStored,
         DOMAIN rev' \subseteq DOMAIN rev, UNCHANGED receiverVars
  PROVE  IInv'
BY NextSegment, LeaveKeeps DEF EndOfSegment

(* A step of the sender that leaves the counters alone and sends at most a *)
(* packet with a wrong checksum.                                           *)
LEMMA QuietSenderKeeps ==
  ASSUME IInv, TypeInv', UNCHANGED <<seqNum, ackNum, len>>,
         Closing => Closing',
         \A p \in DOMAIN fwd' : p \in DOMAIN fwd \/ (~p.sum /\ p.flags # 1),
         DOMAIN rev' \subseteq DOMAIN rev, UNCHANGED receiverVars
  PROVE  IInv'
<1>1. UNCHANGED <<rpc, ackFlag, outData, written>>
  BY DEF receiverVars
<1>2. rpc' \in Ended => Closing'
  BY <1>1 DEF IInv, EndsInOrder, Ended
<1> QED BY <1>1, <1>2, SameCounts

(* Every step of the sender preserves the invariant.                       *)
LEMMA IInvSender ==
  ASSUME ~WindowSumsToZero, IInv, SenderNext
  PROVE  IInv'
<1>1. TypeInv'
  BY TypeInvSender DEF IInv
<1>2. UNCHANGED receiverVars
  BY DEF SenderNext
<1>3. ASSUME NEW p, Take(p)
      PROVE  DOMAIN rev' \subseteq DOMAIN rev
  BY <1>3, PathDomains DEF Take
<1>4. ASSUME NEW p \in DOMAIN rev, HandshakeReceive(p)
      PROVE  IInv'
  <2>1. ~Closing /\ AllStored /\ DOMAIN rev' \subseteq DOMAIN rev
    BY <1>3, <1>4, NothingSentMeansStored
       DEF HandshakeReceive, Closing, IInv, TypeInv, SenderArithmetic
  <2>2. CASE p.ack = 0 /\ p.seq = 0
    BY <2>1, <2>2, <1>1, <1>2, <1>4, EndOfSegmentKeeps DEF HandshakeReceive
  <2>3. CASE ~(p.ack = 0 /\ p.seq = 0)
    BY <2>1, <2>3, <1>1, <1>2, <1>4, QuietSenderKeeps
       DEF HandshakeReceive, Closing
  <2> QED BY <2>2, <2>3
<1>5. ASSUME HandshakeTimeout
      PROVE  IInv'
  <2>1. ~WindowPacket.sum /\ WindowPacket.flags # 1
    BY DEF WindowPacket, tcpHeader
  <2>2. \A p \in DOMAIN fwd' : p \in DOMAIN fwd \/ (~p.sum /\ p.flags # 1)
    <3>1. DOMAIN fwd' = DOMAIN fwd \cup {WindowPacket}
      BY <1>5, PathDomains DEF HandshakeTimeout
    <3> QED BY <3>1, <2>1
  <2> QED BY <2>2, <1>1, <1>2, <1>5, QuietSenderKeeps
          DEF HandshakeTimeout, TimeOut, senderVars, Closing
<1>6. ASSUME NEW p \in DOMAIN rev, AwaitReceive(p)
      PROVE  IInv'
  <2>1. ~Closing /\ Sending /\ DOMAIN rev' \subseteq DOMAIN rev
    BY <1>3, <1>6 DEF AwaitReceive, Closing, Sending
  <2>2. CASE isValidAck(p, seqNum) \/ seqNum = FileSize
    <3>1. EndOfSegment
      BY <2>2, <1>6 DEF AwaitReceive
    <3>2. seqNum # FileSize => AllStored
      BY <2>1, <2>2, ValidAckMeansStored
    <3> QED BY <3>1, <3>2, <2>1, <1>1, <1>2, EndOfSegmentKeeps
  <2>3. CASE ~(isValidAck(p, seqNum) \/ seqNum = FileSize)
    BY <2>1, <2>3, <1>1, <1>2, <1>6, ResendKeeps DEF AwaitReceive
  <2> QED BY <2>2, <2>3
<1>7. ASSUME AwaitTimeout
      PROVE  IInv'
  BY <1>1, <1>2, <1>7, ResendKeeps DEF AwaitTimeout, TimeOut, Sending
<1>8. ASSUME NEW t, RetryWrongAck(t), Sending, DOMAIN rev' \subseteq DOMAIN rev
      PROVE  IInv'
  BY <1>1, <1>2, <1>8, ResendKeeps, LeaveKeeps
     DEF RetryWrongAck, Sending, Closing
<1>9. ASSUME RetryNoReply, Sending, DOMAIN rev' \subseteq DOMAIN rev
      PROVE  IInv'
  BY <1>1, <1>2, <1>9, ResendKeeps, LeaveKeeps
     DEF RetryNoReply, Sending, Closing
<1>10. ASSUME NEW p \in DOMAIN rev, WrongAckReceive(p)
       PROVE  IInv'
  <2>1. ~Closing /\ Sending /\ DOMAIN rev' \subseteq DOMAIN rev
    BY <1>3, <1>10 DEF WrongAckReceive, Closing, Sending
  <2>2. CASE isValidAck(p, seqNum)
    <3>1. EndOfSegment
      BY <2>2, <1>10 DEF WrongAckReceive
    <3> QED BY <3>1, <2>1, <2>2, <1>1, <1>2, ValidAckMeansStored, EndOfSegmentKeeps
  <2>3. CASE ~isValidAck(p, seqNum)
    BY <2>1, <2>3, <1>8, <1>10 DEF WrongAckReceive
  <2> QED BY <2>2, <2>3
<1>11. ASSUME WrongAckTimeout
       PROVE  IInv'
  BY <1>8, <1>11 DEF WrongAckTimeout, TimeOut, Sending
<1>12. ASSUME NEW p \in DOMAIN rev, NoReplyReceive(p)
       PROVE  IInv'
  <2>1. ~Closing /\ Sending /\ DOMAIN rev' \subseteq DOMAIN rev
    BY <1>3, <1>12 DEF NoReplyReceive, Closing, Sending
  <2>2. CASE isValidAck(p, seqNum)
    <3>1. EndOfSegment
      BY <2>2, <1>12 DEF NoReplyReceive
    <3> QED BY <3>1, <2>1, <2>2, <1>1, <1>2, ValidAckMeansStored, EndOfSegmentKeeps
  <2>3. CASE ~isValidAck(p, seqNum)
    BY <2>1, <2>3, <1>9, <1>12 DEF NoReplyReceive
  <2> QED BY <2>2, <2>3
<1>13. ASSUME NoReplyTimeout
       PROVE  IInv'
  BY <1>9, <1>13 DEF NoReplyTimeout, TimeOut, Sending
<1>14. ASSUME NEW p \in DOMAIN rev, CloseReceiveAck(p)
       PROVE  IInv'
  BY <1>1, <1>2, <1>3, <1>14, QuietSenderKeeps DEF CloseReceiveAck, Closing
<1>15. ASSUME NEW p \in DOMAIN rev, CloseReceiveFin(p)
       PROVE  IInv'
  <2>1. ~LastAck(p.seq).sum /\ LastAck(p.seq).flags # 1
    BY DEF LastAck, tcpHeader
  <2>2. \A q \in DOMAIN fwd' : q \in DOMAIN fwd \/ (~q.sum /\ q.flags # 1)
    <3>1. DOMAIN BagAdd(fwd, LastAck(p.seq)) = DOMAIN fwd \cup {LastAck(p.seq)}
      BY PathDomains
    <3>2. fwd' = fwd \/ fwd' = BagAdd(fwd, LastAck(p.seq))
      BY <1>15 DEF CloseReceiveFin
    <3>3. CASE fwd' = fwd
      BY <3>3
    <3>4. CASE fwd' = BagAdd(fwd, LastAck(p.seq))
      <4>1. DOMAIN fwd' = DOMAIN fwd \cup {LastAck(p.seq)}
        BY <3>1, <3>4
      <4> QED BY <4>1, <2>1
    <3> QED BY <3>2, <3>3, <3>4
  <2> QED BY <2>2, <1>1, <1>2, <1>3, <1>15, QuietSenderKeeps
          DEF CloseReceiveFin, Closing
<1>16. ASSUME CloseTimeout
       PROVE  IInv'
  BY <1>1, <1>2, <1>16, QuietSenderKeeps DEF CloseTimeout, TimeOut, Closing
<1>17. ASSUME NEW p \in DOMAIN rev, SenderClosed(p)
       PROVE  IInv'
  BY <1>1, <1>2, <1>3, <1>17, QuietSenderKeeps
     DEF SenderClosed, senderVars, Closing
<1> QED
  BY <1>4, <1>5, <1>6, <1>7, <1>10, <1>11, <1>12, <1>13, <1>14, <1>15, <1>16,
     <1>17 DEF SenderNext, SenderReceive, SenderTimeout

(* Every step of the receiver preserves the invariant.                     *)
LEMMA IInvReceiver ==
  ASSUME IInv, ReceiverStep
  PROVE  IInv'
<1>1. TypeInv'
  BY TypeInvReceiver DEF IInv
<1>2. UNCHANGED <<spc, seqNum, ackNum, len>> /\ (Closing' <=> Closing)
  BY DEF ReceiverStep, senderVars, Closing
<1>3. ASSUME NEW p, Get(p)
      PROVE  DOMAIN fwd' \subseteq DOMAIN fwd /\ p \in DOMAIN fwd /\ p \in Packet
  BY <1>3, PathDomains DEF Get, IInv, TypeInv, TypeOK, NetTypeOK
<1>4. rpc \in Ended => Closing
  BY DEF IInv, EndsInOrder, Ended
<1>5. ASSUME NEW p \in DOMAIN fwd, ReceiveWindow(p)
      PROVE  IInv'
  <2>1. DOMAIN rev' = DOMAIN rev \cup {WindowReply} /\ WindowReply.flags # 16
    <3>1. DOMAIN BagAdd(rev, WindowReply) = DOMAIN rev \cup {WindowReply}
      BY PathDomains
    <3>2. WindowReply.flags # 16
      BY DEF WindowReply, tcpHeader
    <3> QED BY <3>1, <3>2, <1>5 DEF ReceiveWindow
  <2>2. DOMAIN fwd' \subseteq DOMAIN fwd
    BY <1>3, <1>5 DEF ReceiveWindow
  <2>3. /\ UNCHANGED <<ackFlag, outData, written>>
        /\ rpc \notin Ended /\ rpc' \notin Ended
    BY <1>5 DEF ReceiveWindow, Ended
  <2> QED BY <2>1, <2>2, <2>3, <1>1, <1>2, SameCounts
<1>6. ASSUME NEW p \in DOMAIN fwd, ReceiveAndThrow(p)
      PROVE  IInv'
  <2>1. DOMAIN fwd' \subseteq DOMAIN fwd
    BY <1>3, <1>6 DEF ReceiveAndThrow
  <2>2. /\ UNCHANGED <<rev, ackFlag, outData, written>>
        /\ rpc \notin Ended /\ rpc' \notin Ended
    BY <1>6 DEF ReceiveAndThrow, Ended
  <2> QED BY <2>1, <2>2, <1>1, <1>2, SameCounts
<1>7. ASSUME NEW p \in DOMAIN fwd, ReceiveAndContinue(p)
      PROVE  IInv'
  <2>1. DOMAIN fwd' \subseteq DOMAIN fwd
    BY <1>3, <1>7 DEF ReceiveAndContinue
  <2>2. DOMAIN BagAdd(rev, WindowReply) = DOMAIN rev \cup {WindowReply}
        /\ WindowReply.flags # 16
    <3>1. DOMAIN BagAdd(rev, WindowReply) = DOMAIN rev \cup {WindowReply}
      BY PathDomains
    <3>2. WindowReply.flags # 16
      BY DEF WindowReply, tcpHeader
    <3> QED BY <3>1, <3>2
  <2>3. rev' = rev \/ rev' = BagAdd(rev, WindowReply)
    BY <1>7 DEF ReceiveAndContinue
  <2>4. DOMAIN rev' \subseteq DOMAIN rev \cup {WindowReply}
    BY <2>2, <2>3
  <2>5. UNCHANGED <<rpc, ackFlag, outData, written>>
    BY <1>7 DEF ReceiveAndContinue, receiverVars
  <2> QED BY <2>1, <2>2, <2>4, <2>5, <1>1, <1>2, <1>4, SameCounts
<1>8. ASSUME NEW p \in DOMAIN fwd, ReceiveFin(p)
      PROVE  IInv'
  <2>1. DOMAIN fwd' \subseteq DOMAIN fwd
    BY <1>3, <1>8 DEF ReceiveFin
  <2>2. UNCHANGED <<ackFlag, outData, written>> /\ rpc' \in Ended
    BY <1>8 DEF ReceiveFin, Ended
  <2>3. Closing
    BY <1>8 DEF ReceiveFin, IInv, EndsInOrder
  <2> QED BY <2>1, <2>2, <2>3, <1>1, <1>2, SameCounts
<1>9. ASSUME NEW p \in DOMAIN fwd, ReceiveData(p), IsNew(p)
      PROVE  IInv'
  <2>1. /\ written' = Append(written, <<p.seq, p.size>>)
        /\ outData' = Response(p, window)
        /\ ackFlag' = ackFlag + 1
        /\ rev' = BagAdd(rev, outData')
        /\ rpc = "data" /\ p.sum /\ p.ack > ackFlag
        /\ UNCHANGED <<rpc, window>>
    BY <1>9 DEF ReceiveData, IsNew
  <2>2. DOMAIN fwd' \subseteq DOMAIN fwd /\ p \in Packet
    BY <1>3, <1>9 DEF ReceiveData
  <2>3. /\ seqNum \in 0..FileSize /\ ackNum \in Nat /\ len \in Nat
        /\ ackFlag \in Nat /\ Payload \in Nat /\ FileSize \in Nat
        /\ written \in Seq(Nat \X Nat)
        /\ ackNum > 1 => len > 0 /\ len <= seqNum
        /\ window = WINDOW_SIZE
    BY <2>1, FileAssumption, PayloadPositive
       DEF IInv, TypeInv, TypeOK, SenderTypeOK, SenderArithmetic,
           ReceiverTypeOK, WindowAgreed
  <2>4. /\ p.ack = ackNum - 1 /\ ackFlag = ackNum - 2 /\ ackNum > 1
        /\ p.seq = seqNum - len /\ p.size = len
    <3>1. p.ack \in 1..(ackNum - 1)
          /\ (p.ack = ackNum - 1 => p.seq = seqNum - len /\ p.size = len)
      BY <2>1 DEF IInv, SegmentsInFlight
    <3>2. ackNum - 1 <= ackFlag + 1
      BY DEF IInv, OneOutstanding
    <3> QED BY <3>1, <3>2, <2>1, <2>3
  <2>5. ~AllStored /\ Extent = seqNum - len /\ HighestAck = seqNum - len
    BY <2>3, <2>4 DEF AllStored, HighestAck, IInv, FileFollowsCount
  <2>6. Contiguous(written') /\ Extent' = seqNum
    <3>1. p.seq = ExtentOf(written) /\ p.size > 0 /\ p.seq \in Nat /\ p.size \in Nat
      BY <2>3, <2>4, <2>5 DEF Extent
    <3>2. Contiguous(written)
      BY DEF IInv, WrittenIsPrefix
    <3>3. /\ Contiguous(Append(written, <<p.seq, p.size>>))
          /\ ExtentOf(Append(written, <<p.seq, p.size>>)) = p.seq + p.size
      BY <3>1, <3>2, <2>3, AppendChunk
    <3> QED BY <3>3, <2>1, <2>3, <2>4 DEF Extent
  <2>7. AllStored' /\ HighestAck' = seqNum - len + Payload
    BY <2>1, <2>3, <2>4, <1>2 DEF AllStored, HighestAck
  <2>8. OneOutstanding'
    BY <2>1, <2>3, <2>4, <1>2 DEF OneOutstanding
  <2>9. FileFollowsCount'
    BY <2>6, <2>7, <1>2 DEF FileFollowsCount
  <2>10. WrittenIsPrefix'
    BY <2>3, <2>6 DEF WrittenIsPrefix
  <2>11. SegmentsInFlight'
    BY <2>2, <1>2 DEF IInv, SegmentsInFlight
  <2>12. AcksInFlight'
    <3>1. outData'.ack = seqNum - len + Payload
      BY <2>1, <2>3, <2>4, WindowAssumption DEF Response, tcpHeader, Payload
    <3>2. DOMAIN rev' = DOMAIN rev \cup {outData'}
      BY <2>1, PathDomains
    <3>3. ASSUME NEW q \in DOMAIN rev, q.flags = 16
          PROVE  q.ack <= HighestAck'
      <4>1. q.ack <= seqNum - len
        BY <3>3, <2>1, <2>5 DEF IInv, AcksInFlight
      <4>2. q.ack \in Nat
        BY DEF IInv, TypeInv, TypeOK, NetTypeOK, Packet
      <4> QED BY <4>1, <4>2, <2>3, <2>7
    <3>4. outData'.ack <= HighestAck'
      BY <3>1, <2>3, <2>7
    <3> QED BY <3>2, <3>3, <3>4 DEF AcksInFlight
  <2>13. EndsInOrder'
    BY <2>1, <2>2, <1>2 DEF IInv, EndsInOrder
  <2> QED BY <2>8, <2>9, <2>10, <2>11, <2>12, <2>13, <1>1 DEF IInv
<1>10. ASSUME NEW p \in DOMAIN fwd, ReceiveData(p), ~IsNew(p)
       PROVE  IInv'
  <2>1. /\ UNCHANGED <<written, outData, ackFlag, rpc>>
        /\ rev' = BagAdd(rev, outData) /\ outData # null
        /\ rpc' \notin Ended
    BY <1>10 DEF ReceiveData, Throws, Ended
  <2>2. DOMAIN fwd' \subseteq DOMAIN fwd
    BY <1>3, <1>10 DEF ReceiveData
  <2>3. DOMAIN rev' = DOMAIN rev \cup {outData} /\ outData.ack <= HighestAck
    BY <2>1, PathDomains DEF IInv, AcksInFlight
  <2> QED BY <2>1, <2>2, <2>3, <1>1, <1>2, SameCounts
<1>11. ASSUME NEW p \in DOMAIN fwd, ReceiveLast(p)
       PROVE  IInv'
  <2>1. DOMAIN fwd' \subseteq DOMAIN fwd
    BY <1>3, <1>11 DEF ReceiveLast
  <2>2. /\ UNCHANGED <<rev, ackFlag, outData, written>>
        /\ rpc \in Ended /\ rpc' \in Ended
    BY <1>11 DEF ReceiveLast, Ended
  <2> QED BY <2>1, <2>2, <1>1, <1>2, <1>4, SameCounts
<1>12. ASSUME NEW p \in DOMAIN fwd, ReceiverClosed(p)
       PROVE  IInv'
  <2>1. DOMAIN fwd' \subseteq DOMAIN fwd
    BY <1>3, <1>12 DEF ReceiverClosed
  <2>2. UNCHANGED <<rev, rpc, ackFlag, outData, written>>
    BY <1>12 DEF ReceiverClosed, receiverVars
  <2> QED BY <2>1, <2>2, <1>1, <1>2, <1>4, SameCounts
<1> QED
  BY <1>5, <1>6, <1>7, <1>8, <1>9, <1>10, <1>11, <1>12
     DEF ReceiverStep, ReceiverNext

(* Losses, duplicates and damage preserve the invariant.                   *)
LEMMA IInvNetwork ==
  ASSUME IInv, NetStep
  PROVE  IInv'
<1>1. TypeInv'
  BY TypeInvNetwork DEF IInv
<1>2. /\ UNCHANGED <<seqNum, ackNum, len, rpc, ackFlag, outData, written>>
      /\ Closing' <=> Closing
  BY DEF NetStep, senderVars, receiverVars, Closing
<1>3. rpc \in Ended => Closing
  BY DEF IInv, EndsInOrder, Ended
<1>4. ASSUME \A p \in DOMAIN fwd' :
               p \in DOMAIN fwd \/ (~p.sum /\ (p.flags = 1 => Closing)),
             DOMAIN rev' \subseteq DOMAIN rev
      PROVE  IInv'
  BY <1>1, <1>2, <1>3, <1>4, SameCounts
<1>5. ASSUME NEW p \in DOMAIN fwd
      PROVE  p \in Packet /\ (p.flags = 1 => Closing)
  BY DEF IInv, TypeInv, TypeOK, NetTypeOK, EndsInOrder
<1>6. ASSUME NEW p \in DOMAIN fwd, LoseForward(p) \/ DuplicateForward(p)
      PROVE  IInv'
  <2>1. DOMAIN BagAdd(fwd, p) = DOMAIN fwd \cup {p}
        /\ DOMAIN BagRemove(fwd, p) \subseteq DOMAIN fwd
    BY PathDomains
  <2>2. (fwd' = BagRemove(fwd, p) \/ fwd' = BagAdd(fwd, p)) /\ UNCHANGED rev
    BY <1>6 DEF LoseForward, DuplicateForward
  <2>3. DOMAIN fwd' \subseteq DOMAIN fwd
    BY <2>1, <2>2
  <2> QED BY <2>2, <2>3, <1>4
<1>7. ASSUME NEW p \in DOMAIN rev, LoseReply(p) \/ DuplicateReply(p)
      PROVE  IInv'
  <2>1. DOMAIN BagAdd(rev, p) = DOMAIN rev \cup {p}
        /\ DOMAIN BagRemove(rev, p) \subseteq DOMAIN rev
    BY PathDomains
  <2>2. (rev' = BagRemove(rev, p) \/ rev' = BagAdd(rev, p)) /\ UNCHANGED fwd
    BY <1>7 DEF LoseReply, DuplicateReply
  <2>3. DOMAIN rev' \subseteq DOMAIN rev
    BY <2>1, <2>2
  <2> QED BY <2>2, <2>3, <1>4
<1>8. ASSUME NEW p \in DOMAIN fwd, NEW q, ~q.sum, q.flags = p.flags,
             fwd' = BagAdd(BagRemove(fwd, p), q), UNCHANGED rev
      PROVE  IInv'
  <2>1. IsABag(fwd)
    BY DEF IInv, TypeInv, TypeOK, NetTypeOK
  <2>2. DOMAIN fwd' = DOMAIN BagRemove(fwd, p) \cup {q}
        /\ DOMAIN BagRemove(fwd, p) \subseteq DOMAIN fwd
    BY <2>1, <1>8, BagRemoveDomain, BagAddDomain
  <2> QED BY <2>2, <1>4, <1>5, <1>8
<1>9. ASSUME NEW p \in DOMAIN fwd, CorruptChecksum(p) \/ CorruptNumber(p)
      PROVE  IInv'
  BY <1>5, <1>8, <1>9, DamagedPackets DEF CorruptChecksum, CorruptNumber
<1> QED BY <1>6, <1>7, <1>9 DEF NetStep, NetNext

LEMMA IInvInit ==
  ASSUME ~WindowSumsToZero, Init
  PROVE  IInv
<1>1. TypeInv
  BY TypeInvInit
<1>2. DOMAIN fwd = {WindowPacket} /\ DOMAIN rev = {}
  <2>1. IsABag(EmptyBag) /\ DOMAIN EmptyBag = {}
    BY EmptyBagDomain
  <2>2. DOMAIN BagAdd(EmptyBag, WindowPacket) = DOMAIN EmptyBag \cup {WindowPacket}
    BY <2>1, BagAddDomain
  <2> QED BY <2>1, <2>2 DEF Init, NetInit
<1>3. /\ seqNum = 0 /\ ackNum = 1 /\ len = 0 /\ ackFlag = 0
      /\ outData = null /\ written = <<>> /\ rpc = "window"
  BY DEF Init, SenderInit, ReceiverInit
<1>4. OneOutstanding /\ AllStored /\ HighestAck = 0
  BY <1>3 DEF OneOutstanding, AllStored, HighestAck
<1>5. Extent = 0 /\ Contiguous(written)
  BY <1>3 DEF Extent, ExtentOf, Contiguous
<1>6. FileFollowsCount /\ WrittenIsPrefix
  BY <1>3, <1>4, <1>5, FileAssumption DEF FileFollowsCount, WrittenIsPrefix
<1>7. SegmentsInFlight /\ AcksInFlight /\ EndsInOrder
  BY <1>2, <1>3
     DEF SegmentsInFlight, AcksInFlight, EndsInOrder, WindowPacket, tcpHeader
<1> QED BY <1>1, <1>4, <1>6, <1>7 DEF IInv

LEMMA IInvNext ==
  ASSUME ~WindowSumsToZero, IInv, [Next]_vars
  PROVE  IInv'
<1>1. CASE Next
  BY <1>1, IInvSender, IInvReceiver, IInvNetwork DEF Next
<1>2. CASE UNCHANGED vars
  <2>1. UNCHANGED <<fwd, rev, faults, spc, seqNum, ackNum, len, tries, isBroken,
                    rpc, window, ackFlag, outData, written>>
    BY <1>2 DEF vars, netVars, senderVars, receiverVars
  <2>2. TypeInv'
    BY <2>1 DEF IInv, TypeInv, TypeOK, NetTypeOK, SenderTypeOK, ReceiverTypeOK,
                SenderArithmetic, TriesLeft, WindowAgreed, Sending
  <2>3. /\ Closing' <=> Closing
        /\ rpc \in Ended => Closing
    BY <2>1 DEF Closing, IInv, EndsInOrder, Ended
  <2> QED BY <2>1, <2>2, <2>3, SameCounts
<1> QED BY <1>1, <1>2


----------------------------------------------------------------------------
(* The theorems.                                                           *)

(* IInv holds in every state of every transfer whose window-size packet    *)
(* cannot be taken for an intact segment.                                  *)
THEOREM Invariance ==
  ASSUME ~WindowSumsToZero
  PROVE  Spec => []IInv
<1>1. Init => IInv
  BY IInvInit
<1>2. IInv /\ [Next]_vars => IInv'
  BY IInvNext
<1> QED BY <1>1, <1>2, PTL DEF Spec

(* Whatever the network does, the receiver's file is a prefix of the       *)
(* sender's: no chunk is doubled, left out or out of place.                *)
THEOREM FileIsPrefix ==
  ASSUME ~WindowSumsToZero
  PROVE  Spec => []WrittenIsPrefix
<1>1. IInv => WrittenIsPrefix
  BY DEF IInv
<1> QED BY <1>1, Invariance, PTL

(* The sender and the receiver are never more than one segment apart.      *)
THEOREM NeverTwoOutstanding ==
  ASSUME ~WindowSumsToZero
  PROVE  Spec => []OneOutstanding
<1>1. IInv => OneOutstanding
  BY DEF IInv
<1> QED BY <1>1, Invariance, PTL

(* No acknowledgement, however old, lets the sender pass a segment that is *)
(* not in the receiver's file.                                             *)
THEOREM AcknowledgementsAreHonest ==
  ASSUME ~WindowSumsToZero
  PROVE  Spec => []AckMeansStored
<1>1. IInv => AckMeansStored
  <2> SUFFICES ASSUME IInv, NEW p \in DOMAIN rev, Sending, isValidAck(p, seqNum)
               PROVE  Extent = seqNum
    BY DEF AckMeansStored
  <2>1. AllStored
    BY ValidAckMeansStored
  <2> QED BY <2>1 DEF IInv, FileFollowsCount
<1> QED BY <1>1, Invariance, PTL

(* The receiver ends in the regular way only after the sender's FIN, and   *)
(* then at most the last segment is missing from its file.                 *)
THEOREM RegularEnd ==
  ASSUME ~WindowSumsToZero
  PROVE  Spec => []ReceiverEndsAfterFin
<1>1. IInv => ReceiverEndsAfterFin
  <2> SUFFICES ASSUME IInv, rpc \in {"lastAck", "done"}
               PROVE  Closing /\ Extent >= seqNum - len
    BY DEF ReceiverEndsAfterFin
  <2>1. seqNum \in Nat /\ len \in Nat
    BY FileAssumption, PayloadPositive DEF IInv, TypeInv, TypeOK, SenderTypeOK
  <2>2. Extent = seqNum \/ Extent = seqNum - len
    BY DEF IInv, FileFollowsCount
  <2> QED BY <2>1, <2>2 DEF IInv, EndsInOrder
<1> QED BY <1>1, Invariance, PTL

(* A step of the sender sends the next segment or keeps the position.      *)
LEMMA SenderMoves ==
  ASSUME SenderNext
  PROVE  SendSegment \/ UNCHANGED <<seqNum, ackNum, len>>
<1>1. EndOfSegment => SendSegment \/ UNCHANGED <<seqNum, ackNum, len>>
  BY DEF EndOfSegment, LeaveFileLoop
<1>2. ASSUME NEW where, Resend(where)
      PROVE  UNCHANGED <<seqNum, ackNum, len>>
  BY <1>2 DEF Resend
<1>3. ASSUME NEW t, RetryWrongAck(t)
      PROVE  UNCHANGED <<seqNum, ackNum, len>>
  BY <1>2, <1>3 DEF RetryWrongAck, LeaveFileLoop
<1>4. RetryNoReply => UNCHANGED <<seqNum, ackNum, len>>
  BY <1>2 DEF RetryNoReply, LeaveFileLoop
<1>5. ASSUME NEW p \in DOMAIN rev, HandshakeReceive(p) \/ AwaitReceive(p)
      PROVE  SendSegment \/ UNCHANGED <<seqNum, ackNum, len>>
  BY <1>1, <1>2, <1>5 DEF HandshakeReceive, AwaitReceive
<1>6. ASSUME NEW p \in DOMAIN rev, WrongAckReceive(p) \/ NoReplyReceive(p)
      PROVE  SendSegment \/ UNCHANGED <<seqNum, ackNum, len>>
  BY <1>1, <1>3, <1>4, <1>6 DEF WrongAckReceive, NoReplyReceive
<1>7. ASSUME NEW p \in DOMAIN rev,
             CloseReceiveAck(p) \/ CloseReceiveFin(p) \/ SenderClosed(p)
      PROVE  UNCHANGED <<seqNum, ackNum, len>>
  BY <1>7 DEF CloseReceiveAck, CloseReceiveFin, SenderClosed, senderVars
<1>8. ASSUME SenderTimeout
      PROVE  UNCHANGED <<seqNum, ackNum, len>>
  BY <1>2, <1>3, <1>4, <1>8
     DEF SenderTimeout, HandshakeTimeout, AwaitTimeout, WrongAckTimeout,
         NoReplyTimeout, CloseTimeout, senderVars
<1> QED BY <1>5, <1>6, <1>7, <1>8 DEF SenderNext, SenderReceive

(* A step of the receiver counts and stores one segment or none.           *)
LEMMA ReceiverMoves ==
  ASSUME ReceiverStep
  PROVE  ackFlag' = ackFlag + 1 \/ UNCHANGED <<ackFlag, written>>
BY DEF ReceiverStep, ReceiverNext, ReceiveWindow, ReceiveAndThrow,
       ReceiveAndContinue, ReceiveFin, ReceiveData, ReceiveLast, ReceiverClosed,
       receiverVars

(* Adding the length of a segment that is not empty moves the sender's     *)
(* position forward.                                                       *)
LEMMA SumGrows ==
  ASSUME NEW a \in Nat, NEW b \in Nat, NEW c, a > 0, c = b + a
  PROVE  c > b
OBVIOUS

(* The two programs and the network implement the abstract stop-and-wait   *)
(* transfer: the sender offers a piece only when the one before is stored, *)
(* and the receiver stores exactly what is offered.                        *)
THEOREM ImplementsStopAndWait ==
  ASSUME ~WindowSumsToZero
  PROVE  Spec => StopAndWaitSpec
<1>1. Init => Abstract!Init
  BY DEF Init, SenderInit, ReceiverInit, Abstract!Init, Extent, ExtentOf
<1>2. IInv /\ IInv' /\ [Next]_vars => [Abstract!Next]_Abstract!vars
  <2> SUFFICES ASSUME IInv, IInv', [Next]_vars
               PROVE  Abstract!Next \/ UNCHANGED <<seqNum, Extent>>
    BY DEF Abstract!vars
  <2>1. /\ seqNum \in 0..FileSize /\ seqNum' \in 0..FileSize /\ FileSize \in Nat
        /\ ackNum \in Nat /\ ackFlag \in Nat /\ len \in Nat /\ len' \in Nat
        /\ ackNum' \in Nat /\ ackFlag' \in Nat /\ ackNum > 0
        /\ ackNum > 1 => len > 0 /\ len <= seqNum
        /\ ackNum' > 1 => len' > 0
    BY FileAssumption, PayloadPositive
       DEF IInv, TypeInv, TypeOK, SenderTypeOK, ReceiverTypeOK, SenderArithmetic
  <2>2. /\ ackNum - 1 <= ackFlag + 1 /\ ackFlag <= ackNum - 1
        /\ ackNum' - 1 <= ackFlag' + 1 /\ ackFlag' <= ackNum' - 1
    BY DEF IInv, OneOutstanding
  <2>3. /\ Extent = IF ackFlag = ackNum - 1 THEN seqNum ELSE seqNum - len
        /\ Extent' = IF ackFlag' = ackNum' - 1 THEN seqNum' ELSE seqNum' - len'
    BY DEF IInv, FileFollowsCount, AllStored
  <2>4. CASE SenderNext
    <3>1. UNCHANGED <<ackFlag, Extent>>
      BY <2>4 DEF SenderNext, receiverVars, Extent
    <3>2. CASE SendSegment
      <4>1. ackNum' = ackNum + 1 /\ seqNum' = seqNum + len'
        BY <3>2 DEF SendSegment
      <4>2. Extent = seqNum /\ seqNum' > seqNum
        <5>1. ackFlag' = ackFlag
          BY <3>1
        <5>2. ackFlag = ackNum - 1 /\ ackNum' > 1
          BY <5>1, <4>1, <2>1, <2>2
        <5>3. Extent = seqNum
          BY <5>2, <2>3
        <5>4. seqNum' > seqNum
          <6>1. len' > 0 /\ len' \in Nat /\ seqNum \in Nat /\ seqNum' \in Nat
            BY <5>2, <2>1
          <6>2. seqNum' = seqNum + len'
            BY <4>1
          <6> QED BY <6>1, <6>2, SumGrows
        <5> QED BY <5>3, <5>4
      <4>3. seqNum' \in (seqNum + 1)..FileSize
        BY <4>2, <2>1
      <4> QED BY <4>2, <4>3, <3>1 DEF Abstract!Next, Abstract!Offer
    <3>3. CASE UNCHANGED <<seqNum, ackNum, len>>
      BY <3>1, <3>3
    <3> QED BY <3>2, <3>3, <2>4, SenderMoves
  <2>5. CASE ReceiverStep
    <3>1. UNCHANGED <<seqNum, ackNum, len>>
      BY <2>5 DEF ReceiverStep, senderVars
    <3>2. CASE ackFlag' = ackFlag + 1
      <4>1. Extent = seqNum - len /\ Extent' = seqNum /\ len > 0
        BY <3>1, <3>2, <2>1, <2>2, <2>3
      <4> QED BY <4>1, <3>1, <2>1 DEF Abstract!Next, Abstract!Store
    <3>3. CASE UNCHANGED <<ackFlag, written>>
      BY <3>1, <3>3 DEF Extent
    <3> QED BY <3>2, <3>3, <2>5, ReceiverMoves
  <2>6. CASE NetStep
    BY <2>6 DEF NetStep, senderVars, receiverVars, Extent
  <2>7. CASE UNCHANGED vars
    BY <2>7 DEF vars, senderVars, receiverVars, Extent
  <2> QED BY <2>4, <2>5, <2>6, <2>7 DEF Next
<1> QED BY <1>1, <1>2, Invariance, PTL DEF Spec, StopAndWaitSpec, Abstract!Spec
=============================================================================
