------------------------------- MODULE Sender -------------------------------
(***************************************************************************)
(* sender.java.  The program is one thread that blocks only in             *)
(* socket.receive, so a step runs from the return of one receive (with a   *)
(* packet or with a timeout) to the next receive.  spc names the receive   *)
(* it is blocked in:                                                       *)
(*   handshake  the window-size loop           (line 117)                  *)
(*   await      the first answer to a segment  (line 173)                  *)
(*   wrongAck   the loop after a wrong answer  (line 200)                  *)
(*   noReply    the loop after a timeout       (line 236)                  *)
(*   finAck, finWait  the two in closeProcess  (lines 306, 316)            *)
(* and "success" and "failed" are the two messages it can end with.        *)
(***************************************************************************)
EXTENDS Network

VARIABLES
  spc,
  seqNum,     \* bytes sent so far, the segment being sent included
  ackNum,     \* 1 + the number of segments sent
  len,        \* length of the last segment
  tries,      \* not reset between two segments
  isBroken

senderVars == <<spc, seqNum, ackNum, len, tries, isBroken>>

SenderTypeOK ==
  /\ spc \in {"handshake", "await", "wrongAck", "noReply",
              "finAck", "finWait", "success", "failed"}
  /\ seqNum \in 0..FileSize
  /\ ackNum \in Nat \ {0}
  /\ len \in 0..Payload
  /\ tries \in 0..MAXTRIES
  /\ isBroken \in BOOLEAN

SenderInit ==
  /\ spc = "handshake"
  /\ seqNum = 0 /\ ackNum = 1 /\ len = 0
  /\ tries = 0 /\ isBroken = FALSE

----------------------------------------------------------------------------
(* What the code does between two receives.                                *)

\* Mutant: the length read gave back is ignored.
FullBuffer == Payload

\* fis.read(buf) fills the buffer or takes what is left of the file.
NextLen == IF FileSize - seqNum < Payload THEN FileSize - seqNum ELSE Payload

SendSegment ==
  /\ fwd' = BagAdd(fwd, Segment(seqNum, ackNum, NextLen))
  /\ seqNum' = seqNum + NextLen
  /\ ackNum' = ackNum + 1
  /\ len' = NextLen
  /\ spc' = "await"

\* Behind the file loop: a failure message, or the FIN of closeProcess.
LeaveFileLoop ==
  /\ IF isBroken' THEN spc' = "failed" /\ fwd' = fwd
                  ELSE spc' = "finAck" /\ fwd' = BagAdd(fwd, SenderFin)
  /\ UNCHANGED <<seqNum, ackNum, len>>

\* The finally block of a segment, then the loop's read.
EndOfSegment ==
  IF tries' = MAXTRIES \/ seqNum = FileSize THEN LeaveFileLoop ELSE SendSegment

\* Mutant: a retransmission carries the number of the segment to come.
ResendAhead(where) ==
  /\ fwd' = BagAdd(fwd, Segment(seqNum - len, ackNum, len))
  /\ spc' = where
  /\ UNCHANGED <<seqNum, ackNum, len>>

\* Sends the last segment again and blocks in the loop "where".
Resend(where) ==
  /\ fwd' = BagAdd(fwd, Segment(seqNum - len, ackNum - 1, len))
  /\ spc' = where
  /\ UNCHANGED <<seqNum, ackNum, len>>

Take(p) == p \in DOMAIN rev /\ rev' = BagRemove(rev, p)
TimeOut == MayTimeOut /\ UNCHANGED rev

----------------------------------------------------------------------------
HandshakeReceive(p) ==
  /\ spc = "handshake"
  /\ Take(p)
  /\ UNCHANGED <<tries, isBroken>>
  /\ IF p.ack = 0 /\ p.seq = 0
     THEN EndOfSegment
     ELSE UNCHANGED <<fwd, spc, seqNum, ackNum, len>>

HandshakeTimeout ==
  /\ spc = "handshake"
  /\ TimeOut
  /\ fwd' = BagAdd(fwd, WindowPacket)
  /\ UNCHANGED senderVars

\* At the end of the file any answer is taken for the acknowledgement.
AwaitReceive(p) ==
  /\ spc = "await"
  /\ Take(p)
  /\ IF isValidAck(p, seqNum) \/ seqNum = FileSize
     THEN UNCHANGED <<tries, isBroken>> /\ EndOfSegment
     ELSE tries' = 1 /\ isBroken' = TRUE /\ Resend("wrongAck")

AwaitTimeout ==
  /\ spc = "await"
  /\ TimeOut
  /\ tries' = 1 /\ isBroken' = TRUE
  /\ Resend("noReply")

\* The loop around a receive that got a wrong answer: tries has been
\* counted up; a count past MAXTRIES slips through both tests and starts
\* the loop again.
RetryWrongAck(t) ==
  /\ tries' = IF t > MAXTRIES THEN 1 ELSE t
  /\ UNCHANGED isBroken
  /\ IF t = MAXTRIES THEN LeaveFileLoop ELSE Resend("wrongAck")

\* The finally block counts a try even when the answer is valid.
WrongAckReceive(p) ==
  /\ spc = "wrongAck"
  /\ Take(p)
  /\ IF isValidAck(p, seqNum)
     THEN tries' = tries + 1 /\ isBroken' = FALSE /\ EndOfSegment
     ELSE RetryWrongAck(tries + 1)

\* catch and finally both count.
WrongAckTimeout ==
  /\ spc = "wrongAck"
  /\ TimeOut
  /\ RetryWrongAck(tries + 2)

RetryNoReply ==
  /\ tries' = tries + 1
  /\ UNCHANGED isBroken
  /\ IF tries' < MAXTRIES THEN Resend("noReply") ELSE LeaveFileLoop

\* Mutant: a segment that got through on a retry still counts as broken.
NoReplyReceiveStaysBroken(p) ==
  /\ spc = "noReply"
  /\ Take(p)
  /\ IF isValidAck(p, seqNum)
     THEN UNCHANGED <<isBroken, tries>> /\ EndOfSegment
     ELSE RetryNoReply

NoReplyReceive(p) ==
  /\ spc = "noReply"
  /\ Take(p)
  /\ IF isValidAck(p, seqNum)
     THEN isBroken' = FALSE /\ UNCHANGED tries /\ EndOfSegment
     ELSE RetryNoReply

NoReplyTimeout ==
  /\ spc = "noReply"
  /\ TimeOut
  /\ RetryNoReply

----------------------------------------------------------------------------
(* closeProcess: the FIN went out with LeaveFileLoop and is never resent;  *)
(* whatever happens, the caller then reports success.                      *)

CloseReceiveAck(p) ==
  /\ spc = "finAck"
  /\ Take(p)
  /\ spc' = IF p.ack = 1 /\ p.flags = 16 THEN "finWait" ELSE "success"
  /\ UNCHANGED <<fwd, seqNum, ackNum, len, tries, isBroken>>

CloseReceiveFin(p) ==
  /\ spc = "finWait"
  /\ Take(p)
  /\ spc' = "success"
  /\ fwd' = IF p.flags = 1 THEN BagAdd(fwd, LastAck(p.seq)) ELSE fwd
  /\ UNCHANGED <<seqNum, ackNum, len, tries, isBroken>>

CloseTimeout ==
  /\ spc \in {"finAck", "finWait"}
  /\ TimeOut
  /\ spc' = "success"
  /\ UNCHANGED <<fwd, seqNum, ackNum, len, tries, isBroken>>

\* What still arrives when the socket is closed is dropped.
SenderClosed(p) ==
  /\ spc \in {"success", "failed"}
  /\ Take(p)
  /\ UNCHANGED <<fwd, senderVars>>

SenderReceive ==
  \E p \in DOMAIN rev :
    \/ HandshakeReceive(p)
    \/ AwaitReceive(p)
    \/ WrongAckReceive(p)
    \/ NoReplyReceive(p)
    \/ CloseReceiveAck(p)
    \/ CloseReceiveFin(p)
    \/ SenderClosed(p)

SenderTimeout ==
  \/ HandshakeTimeout
  \/ AwaitTimeout
  \/ WrongAckTimeout
  \/ NoReplyTimeout
  \/ CloseTimeout
=============================================================================
