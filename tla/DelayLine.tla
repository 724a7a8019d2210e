------------------------------ MODULE DelayLine -----------------------------
(***************************************************************************)
(* What the emulator promises of the packets it accepts: each one leaves   *)
(* at most once, not before the link's delay is over, and none vanishes    *)
(* but those it counts as lost, if losses were asked for, and those it     *)
(* fails to send, which ends it.                                           *)
(***************************************************************************)
EXTENDS Integers, Sequences

CONSTANTS delay,    \* of the link
          Lossy,    \* are losses asked for?
          Ids,      \* the packets' identities
          Sizes     \* their sizes in bytes

VARIABLES now, inside, sent,
          lost,     \* how many were lost
          failed    \* has the line reported an error?

vars == <<now, inside, sent, lost, failed>>

Init == now = 0 /\ inside = {} /\ sent = <<>> /\ lost = 0 /\ failed = FALSE

Tick == now' = now + 1 /\ UNCHANGED <<inside, sent, lost, failed>>

Enter ==
  \E p \in [id : Ids, bytes : Sizes, at : {now}] :
    /\ \A o \in inside \cup {sent[i] : i \in 1..Len(sent)} : o.id # p.id
    /\ inside' = inside \cup {p}
    /\ UNCHANGED <<now, sent, lost, failed>>

Leave ==
  \E p \in inside :
    /\ p.at + delay <= now
    /\ inside' = inside \ {p}
    /\ \/ sent' = Append(sent, p) /\ UNCHANGED <<lost, failed>>
       \/ Lossy /\ lost' = lost + 1 /\ UNCHANGED <<sent, failed>>
       \/ failed' = TRUE /\ UNCHANGED <<sent, lost>>
    /\ UNCHANGED now

Fail == failed' = TRUE /\ UNCHANGED <<now, inside, sent, lost>>

Next == Tick \/ Enter \/ Leave \/ Fail
Spec == Init /\ [][Next]_vars
=============================================================================
