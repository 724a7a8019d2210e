-------------------------------- MODULE Link --------------------------------
(***************************************************************************)
(* The departure times that calcDepTime promises, in whole microseconds:   *)
(* a packet leaves when its delay is over and the link is free, plus what  *)
(* the link takes longer for it than the Ethernet.  Of that difference     *)
(* the computation may lose what its divisions cut off, and up to a        *)
(* second when it is a second or more.                                     *)
(***************************************************************************)
EXTENDS Integers

CONSTANTS Second, Word,    \* microseconds; 2^32
          Loads            \* the packets that may come: their sizes

VARIABLES link,     \* speed and ether in kb/s, delay, calcMode
          now, free, dept

Init == link = <<>> /\ now = 0 /\ free = 0 /\ dept = 0

Start == link = <<>> /\ link' # <<>> /\ UNCHANGED <<now, free, dept>>

\* How long a line of this speed is busy with b bytes.
Busy(b, kbps) == (8000 * b) \div kbps

Larger(a, b) == IF a > b THEN a ELSE b

\* Do ether * speed and 8 * b * (ether - speed) stay below Word?
Fits(b) ==
  /\ link.ether * link.speed < Word
  /\ 8 * b <= (Word - 1) \div (link.ether - link.speed)

TransmissionLasts(b, t) ==
  LET exact == Busy(b, link.speed) - Busy(b, link.ether)
      lost  == IF exact >= Second THEN Second ELSE 2 + 1000 \div link.speed
  IN  IF link.ether <= link.speed THEN t = 0
      ELSE IF Fits(b) THEN t \in exact - lost .. exact + 1 ELSE t \in 0..Word

Arrive ==
  \E b \in Loads :
    /\ link # <<>>
    /\ now' >= now
    /\ TransmissionLasts(b, dept' - Larger(now' + link.delay, free))
    /\ free' = (IF link.calcMode = 0 THEN free ELSE now') + Busy(b, link.speed)
    /\ UNCHANGED link

Next == Start \/ Arrive
Spec == Init /\ [][Next]_<<link, now, free, dept>>
=============================================================================
