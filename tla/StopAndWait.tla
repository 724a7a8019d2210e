----------------------------- MODULE StopAndWait -----------------------------
(***************************************************************************)
(* What the protocol promises of the bytes of the file, without packets,   *)
(* timers or acknowledgements: the sender offers the next piece only when  *)
(* everything it offered before is in the receiver's file, and the         *)
(* receiver stores exactly the piece on offer, once.                       *)
(***************************************************************************)
EXTENDS Integers

CONSTANT FileSize

VARIABLES offered, stored

vars == <<offered, stored>>

Init == offered = 0 /\ stored = 0

Offer ==
  /\ stored = offered
  /\ offered' \in (offered + 1)..FileSize
  /\ UNCHANGED stored

Store ==
  /\ stored < offered
  /\ stored' = offered
  /\ UNCHANGED offered

Next == Offer \/ Store

Spec == Init /\ [][Next]_vars
=============================================================================
