------------------------------ MODULE Network ------------------------------
(***************************************************************************)
(* The two UDP paths of the README's set-up.  Segments travel from the     *)
(* sender through the emulator newudpl to the receiver (fwd); replies go   *)
(* straight back to the sender (rev).  A path is a bag of datagrams:       *)
(* receiving takes any of them, which covers every delay and reordering.   *)
(* The faults a path can commit are constants, and one budget bounds them. *)
(***************************************************************************)
EXTENDS Wire, Bags, BagsExt

CONSTANTS
  FwdFaults,    \* what may happen to a datagram on the way to the receiver
  RevFaults,    \* what may happen to a datagram on the way back
  MaxFaults,    \* bound: faults in a behaviour
  MaxInFlight   \* bound: a timer fires only when fewer are in flight; with 1
                \* the timers are never premature

ASSUME FaultAssumption ==
  /\ FwdFaults \subseteq {"lose", "duplicate", "sum", "num"}
  /\ RevFaults \subseteq {"lose", "duplicate"}
  /\ MaxFaults \in Nat
  /\ MaxInFlight \in Nat

VARIABLES fwd, rev, faults

netVars == <<fwd, rev, faults>>

NetTypeOK ==
  /\ IsABag(fwd) /\ DOMAIN fwd \subseteq Packet
  /\ IsABag(rev) /\ DOMAIN rev \subseteq Packet
  /\ faults \in Nat

\* The sender sends its window-size packet before it first waits.
NetInit ==
  /\ fwd = BagAdd(EmptyBag, WindowPacket)
  /\ rev = EmptyBag
  /\ faults = 0

InFlight == BagCardinality(fwd) + BagCardinality(rev)

\* a 300 ms timer may run out
MayTimeOut == InFlight < MaxInFlight

Fault(kind, kinds) ==
  /\ kind \in kinds
  /\ faults < MaxFaults
  /\ faults' = faults + 1

LoseForward(p) ==
  /\ p \in DOMAIN fwd
  /\ Fault("lose", FwdFaults)
  /\ fwd' = BagRemove(fwd, p)
  /\ UNCHANGED rev

LoseReply(p) ==
  /\ p \in DOMAIN rev
  /\ Fault("lose", RevFaults)
  /\ rev' = BagRemove(rev, p)
  /\ UNCHANGED fwd

DuplicateForward(p) ==
  /\ p \in DOMAIN fwd
  /\ Fault("duplicate", FwdFaults)
  /\ fwd' = BagAdd(fwd, p)
  /\ UNCHANGED rev

DuplicateReply(p) ==
  /\ p \in DOMAIN rev
  /\ Fault("duplicate", RevFaults)
  /\ rev' = BagAdd(rev, p)
  /\ UNCHANGED fwd

\* Flipped bits that only the checksum reveals.
CorruptChecksum(p) ==
  /\ p \in DOMAIN fwd /\ p.sum
  /\ Fault("sum", FwdFaults)
  /\ fwd' = BagAdd(BagRemove(fwd, p), [p EXCEPT !.sum = FALSE])
  /\ UNCHANGED rev

\* A flip of the top bit of the sequence number.
CorruptNumber(p) ==
  /\ p \in DOMAIN fwd /\ p.num
  /\ Fault("num", FwdFaults)
  /\ fwd' = BagAdd(BagRemove(fwd, p), [p EXCEPT !.sum = FALSE, !.num = FALSE])
  /\ UNCHANGED rev

NetNext ==
  \/ \E p \in DOMAIN fwd : \/ LoseForward(p)
                           \/ DuplicateForward(p)
                           \/ CorruptChecksum(p)
                           \/ CorruptNumber(p)
  \/ \E p \in DOMAIN rev : LoseReply(p) \/ DuplicateReply(p)
=============================================================================
