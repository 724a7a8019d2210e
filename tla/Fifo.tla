-------------------------------- MODULE Fifo --------------------------------
(***************************************************************************)
(* What queue.h promises: a queue of at most Capacity items, the items     *)
(* leaving in the order they came, and refusals that change nothing.       *)
(***************************************************************************)
EXTENDS Integers, Sequences

CONSTANTS Items, Capacity

VARIABLES items,     \* in the queue, the one to leave first in front
          got        \* the items taken out, as a sequence

Init == items = <<>> /\ got = <<>>

Insert ==
  /\ Len(items) < Capacity
  /\ \E i \in Items : items' = Append(items, i)
  /\ UNCHANGED got

Remove ==
  /\ items # <<>>
  /\ items' = Tail(items) /\ got' = Append(got, Head(items))

\* Closing throws away what is left.
Dump == items # <<>> /\ items' = Tail(items) /\ UNCHANGED got

Next == Insert \/ Remove \/ Dump
Spec == Init /\ [][Next]_<<items, got>>
=============================================================================
