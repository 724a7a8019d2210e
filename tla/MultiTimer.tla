----------------------------- MODULE MultiTimer -----------------------------
(***************************************************************************)
(* newudpl-1.5/multimer.c: the queue of pending timers, in time order.     *)
(* A timer is a record of its expiration time and its client; the function *)
(* it calls is sendHandler in every case, and its interval is zero.        *)
(***************************************************************************)
EXTENDS Integers, SequencesExt

Timer == [time : Nat, client : Nat]

\* The pending timer of a client, if any, is taken out of the queue.
Cancel(q, client) == RemoveFirstMatch(q, LAMBDA t : t.client = client)

\* Mutant: at the tail, whatever its time.
PlaceAtTail(q, time) == Len(q) + 1

\* Where a timer goes: before the first one that expires later.
Place(q, time) ==
  LET later == {i \in 1..Len(q) : time < q[i].time}
  IN  IF later = {} THEN Len(q) + 1 ELSE Min(later)

\* Mutant: the client's own timer is not looked for.
timer_set_another(q, time, client) ==
  InsertAt(q, Place(q, time), [time |-> time, client |-> client])

\* A timer at an absolute time (relative = 0), replacing the client's own.
timer_set(q, time, client) ==
  LET others == Cancel(q, client)
  IN  InsertAt(others, Place(others, time), [time |-> time, client |-> client])

\* timer_get takes the head of the queue if its time has come.
Expired(q, now) == q # <<>> /\ ~(now < Head(q).time)

\* The order that timer_get relies on when it looks at the head only.
InOrder(q) == \A i, j \in 1..Len(q) : i < j => q[i].time <= q[j].time

\* "unique among all clients": each has at most one pending timer.
OnePerClient(q) == \A i, j \in 1..Len(q) : q[i].client = q[j].client => i = j
=============================================================================
