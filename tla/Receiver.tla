------------------------------ MODULE Receiver ------------------------------
(***************************************************************************)
(* receiver.java.  One thread, blocked only in socket.receive, which has   *)
(* no timeout here.  rpc names the receive it is blocked in:               *)
(*   window   the first packet                   (line 91)                 *)
(*   data     the main loop                      (line 101)                *)
(*   lastAck  the one in closeProcess            (line 190)                *)
(* "done" and "crashed" are its ends: an exception in the main loop prints *)
(* a stack trace and the same final message.                               *)
(***************************************************************************)
EXTENDS Network, Sequences

VARIABLES
  rpc,
  window,     \* WINDOW_SIZE as the first packet announced it
  ackFlag,    \* number of segments accepted
  outData,    \* the last response, sent again to every repeated segment
  written     \* what was appended to the file: <<position in the sender's
              \* file, length>> of each chunk

receiverVars == <<rpc, window, ackFlag, outData, written>>

ReceiverTypeOK ==
  /\ rpc \in {"window", "data", "lastAck", "done", "crashed"}
  /\ window \in Int
  /\ ackFlag \in Nat
  /\ outData \in Packet \cup {null}
  /\ written \in Seq(Nat \X Nat)

ReceiverInit ==
  /\ rpc = "window" /\ window = -1
  /\ ackFlag = 0 /\ outData = null
  /\ written = <<>>

----------------------------------------------------------------------------
Get(p) == p \in DOMAIN fwd /\ fwd' = BagRemove(fwd, p)

\* The first packet, whatever it is, announces the window size; the reply
\* is sent this once.
ReceiveWindow(p) ==
  /\ rpc = "window"
  /\ Get(p)
  /\ window' = p.win
  /\ rev' = BagAdd(rev, WindowReply)
  /\ rpc' = "data"
  /\ UNCHANGED <<ackFlag, outData, written>>

\* The test for a repeated window-size packet looks at the length of the
\* buffer, which is that of a whole segment, not at the packet's.
IsRepeatWindow(p) == window = 24 /\ p.ack # 0

\* Mutants: the last segment, or any but the last, counts as new.
IsNewOrLast(p) == p.ack >= ackFlag
IsNotLast(p)   == p.ack # ackFlag

IsNew(p) == p.ack > ackFlag

\* The log of every packet parses its numbers, before the checksum is looked
\* at; a response to a repeated segment needs an earlier one.
Throws(p) ==
  \/ ~p.num
  \/ /\ ~IsRepeatWindow(p) /\ p.flags # 1 /\ p.sum
     /\ ~IsNew(p) /\ outData = null

ReceiveAndThrow(p) ==
  /\ rpc = "data"
  /\ Get(p)
  /\ Throws(p)
  /\ rpc' = "crashed"
  /\ UNCHANGED <<rev, window, ackFlag, outData, written>>

\* The two ways back to the top of the loop without touching the file.
ReceiveAndContinue(p) ==
  /\ rpc = "data"
  /\ Get(p)
  /\ ~Throws(p)
  /\ IF IsRepeatWindow(p)
     THEN rev' = BagAdd(rev, WindowReply)
     ELSE p.flags # 1 /\ ~p.sum /\ UNCHANGED rev
  /\ UNCHANGED receiverVars

\* Mutant: every packet without the ACK flag ends the transfer.
ReceiveNonAck(p) ==
  /\ rpc = "data"
  /\ Get(p)
  /\ ~Throws(p) /\ ~IsRepeatWindow(p)
  /\ p.flags # 16
  /\ rev' = BagAdd(BagAdd(rev, FinAck(window)), ReceiverFin(window))
  /\ rpc' = "lastAck"
  /\ UNCHANGED <<window, ackFlag, outData, written>>

\* FIN is looked at before the checksum.  closeProcess sends its
\* acknowledgement and its own FIN without waiting in between.
ReceiveFin(p) ==
  /\ rpc = "data"
  /\ Get(p)
  /\ ~Throws(p) /\ ~IsRepeatWindow(p)
  /\ p.flags = 1
  /\ rev' = BagAdd(BagAdd(rev, FinAck(window)), ReceiverFin(window))
  /\ rpc' = "lastAck"
  /\ UNCHANGED <<window, ackFlag, outData, written>>

\* Mutant: a new segment is acknowledged before its checksum is looked at.
AckBeforeCheck(p) ==
  /\ rpc = "data"
  /\ Get(p)
  /\ ~Throws(p) /\ ~IsRepeatWindow(p)
  /\ p.flags # 1
  /\ IF IsNew(p) /\ p.sum
     THEN /\ written' = Append(written, <<p.seq, p.size>>)
          /\ outData' = Response(p, window)
          /\ ackFlag' = ackFlag + 1
     ELSE UNCHANGED <<written, outData, ackFlag>>
  /\ rev' = BagAdd(rev, Response(p, window))
  /\ UNCHANGED <<rpc, window>>

\* An intact segment: the acknowledgement adds the length of the buffer, not
\* that of the data, to the sequence number.
ReceiveData(p) ==
  /\ rpc = "data"
  /\ Get(p)
  /\ ~Throws(p) /\ ~IsRepeatWindow(p)
  /\ p.flags # 1 /\ p.sum
  /\ IF IsNew(p)
     THEN /\ written' = Append(written, <<p.seq, p.size>>)
          /\ outData' = Response(p, window)
          /\ ackFlag' = ackFlag + 1
     ELSE UNCHANGED <<written, outData, ackFlag>>
  /\ rev' = BagAdd(rev, outData')
  /\ UNCHANGED <<rpc, window>>

\* closeProcess waits for one packet and does not look at what it is.
ReceiveLast(p) ==
  /\ rpc = "lastAck"
  /\ Get(p)
  /\ rpc' = "done"
  /\ UNCHANGED <<rev, window, ackFlag, outData, written>>

\* What still arrives when the socket is closed is dropped.
ReceiverClosed(p) ==
  /\ rpc \in {"done", "crashed"}
  /\ Get(p)
  /\ UNCHANGED <<rev, receiverVars>>

ReceiverNext ==
  \E p \in DOMAIN fwd :
    \/ ReceiveWindow(p)
    \/ ReceiveAndThrow(p)
    \/ ReceiveAndContinue(p)
    \/ ReceiveFin(p)
    \/ ReceiveData(p)
    \/ ReceiveLast(p)
    \/ ReceiverClosed(p)
=============================================================================
