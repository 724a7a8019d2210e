---------------------------- MODULE TimerService ----------------------------
(***************************************************************************)
(* What multimer promises its clients: each has at most one pending timer, *)
(* setting a timer replaces it, no timer fires before its time nor after   *)
(* one that was due later, and a timer with an interval is set again,      *)
(* counted from the time it was due and not from when it was handled.      *)
(***************************************************************************)
EXTENDS Integers

CONSTANTS Clients, Intervals, Nobody

VARIABLES now,
          oneShot,     \* does the program set timers without intervals?
          pending,     \* the clients with a timer: its time and interval
          calling      \* the client whose timer's function is being called

Init == now = 0 /\ oneShot = TRUE /\ pending = <<>> /\ calling = Nobody

Pass == now' > now /\ UNCHANGED <<oneShot, pending, calling>>

Without(client) == [c \in DOMAIN pending \ {client} |-> pending[c]]
With(client, timer) ==
  [c \in DOMAIN pending \cup {client} |-> IF c = client THEN timer ELSE pending[c]]

Set ==
  \E client \in Clients :
    LET timer == pending'[client]
    IN  /\ client \in DOMAIN pending'
        /\ timer \in [time : Nat, interval : Intervals \cup {0}]
        /\ pending' = With(client, timer)
        /\ oneShot' => oneShot /\ timer.interval = 0
        /\ UNCHANGED <<now, calling>>

Cancel ==
  /\ \E client \in DOMAIN pending : pending' = Without(client)
  /\ UNCHANGED <<now, calling>>

Fire ==
  /\ calling = Nobody
  /\ UNCHANGED <<now, oneShot>>
  /\ \E client \in DOMAIN pending :
       LET timer == pending[client]
       IN  /\ timer.time <= now
           /\ \A c \in DOMAIN pending : timer.time <= pending[c].time
           /\ calling' = client
           /\ pending' = IF timer.interval = 0 THEN Without(client)
                         ELSE With(client, [timer EXCEPT !.time = @ + timer.interval])

Return == calling' = Nobody /\ UNCHANGED <<now, oneShot, pending>>

Next == Pass \/ Set \/ Cancel \/ Fire \/ Return
Spec == Init /\ [][Next]_<<now, oneShot, pending, calling>>
=============================================================================
