------------------------------ MODULE EventLoop -----------------------------
(***************************************************************************)
(* newudpl-1.5/multimer.c and notify.c as a library: timers, input         *)
(* handlers and the loop that calls them, under a program whose handlers   *)
(* make any calls they may.  Timer queue elements (TQEs) are named, the    *)
(* lists they are in are sequences, and times are counted in ticks.        *)
(***************************************************************************)
EXTENDS Integers, SequencesExt

CONSTANTS Clients, Nobody, Fds,
          TQEs,                 \* addresses that malloc returns
          Delays, Intervals,    \* that timers are set with
          MaxCalls, MaxTicks    \* bounds

ASSUME LoopAssumption ==
  /\ Nobody \notin Clients
  /\ Fds \subseteq Nat /\ Delays \subseteq Nat /\ Intervals \subseteq Nat
  /\ IsFiniteSet(Fds) /\ IsFiniteSet(TQEs) /\ IsFiniteSet(Clients)
  /\ Cardinality(TQEs) >= Cardinality(Clients)
  /\ MaxCalls \in Nat /\ MaxTicks \in Nat

VARIABLES timers,             \* the TQEs, timerQ and freeTQEQ
          el, Readfds, max_fd, stopped,   \* notify's event list and its stop
          pc,                 \* where the loop is
          client,             \* whose timer it is handling
          readfds, nfds,      \* what select is asked about, then its answer
          fd,                 \* the next descriptor to look at
          ticks, calls,
          api                 \* how the program sets its timers

loopVars == <<timers, el, Readfds, max_fd, stopped, pc, client, readfds, nfds,
              fd, ticks, calls, api>>

LoopInit ==
  /\ timers = [tqe |-> [n \in {} |-> 0], timerQ |-> <<>>, freeTQEQ |-> <<>>]
  /\ el = <<>> /\ Readfds = {} /\ max_fd = 0 /\ stopped = FALSE
  /\ pc = "setup" /\ client = Nobody /\ readfds = {} /\ nfds = 0 /\ fd = 0
  /\ ticks = 0 /\ calls = 0 /\ api = "none"

-----------------------------------------------------------------------------
(* multimer.c, as operators on the TQEs t and the two lists they are in *)

\* The places of the client's TQEs in the queue.
PlacesOf(t, c) == {i \in DOMAIN t.timerQ : t.tqe[t.timerQ[i]].client = c}

OfClient(t, c) == t.timerQ[Min(PlacesOf(t, c))]

\* The queue without the first of them.
Unlinked(t, c) ==
  IF PlacesOf(t, c) = {} THEN t.timerQ ELSE RemoveAt(t.timerQ, Min(PlacesOf(t, c)))

\* Mutant: the TQE is freed but stays in the queue.
timer_cancel_linked(t, c) ==
  IF PlacesOf(t, c) = {} THEN t ELSE [t EXCEPT !.freeTQEQ = <<OfClient(t, c)>> \o @]

\* timer_set with no interval: the client's TQE becomes the first free one.
timer_cancel(t, c) ==
  IF PlacesOf(t, c) = {} THEN t
  ELSE [t EXCEPT !.timerQ = Unlinked(t, c), !.freeTQEQ = <<OfClient(t, c)>> \o @]

\* The client's TQE if it has one, else the first free one, which keeps the
\* interval it was freed with, else a new one.
Taken(t, c) ==
  IF PlacesOf(t, c) # {} THEN OfClient(t, c)
  ELSE IF t.freeTQEQ # <<>> THEN Head(t.freeTQEQ)
  ELSE CHOOSE n \in TQEs : n \notin DOMAIN t.tqe

StillFree(t, c) ==
  IF PlacesOf(t, c) # {} \/ t.freeTQEQ = <<>> THEN t.freeTQEQ ELSE Tail(t.freeTQEQ)

\* Mutant: at the end of the queue.
AtEnd(t, c, time) == Len(Unlinked(t, c)) + 1

\* Before the first of the other timers that expires later.
Before(t, c, time) ==
  LET others == Unlinked(t, c)
      later  == {i \in DOMAIN others : time < t.tqe[others[i]].time}
  IN  IF later = {} THEN Len(others) + 1 ELSE Min(later)

timer_set(t, c, time) ==
  LET n    == Taken(t, c)
      kept == IF n \in DOMAIN t.tqe THEN t.tqe[n].interval ELSE 0
  IN  [tqe |-> [m \in DOMAIN t.tqe \cup {n} |->
                  IF m = n THEN [client |-> c, time |-> time, interval |-> kept]
                  ELSE t.tqe[m]],
       timerQ   |-> InsertAt(Unlinked(t, c), Before(t, c, time), n),
       freeTQEQ |-> StillFree(t, c)]

\* timer_get on an expired head: it is freed, and a timer with an interval is
\* set again, which takes the TQE that was just freed.
Expire(t) ==
  LET n     == Head(t.timerQ)
      due   == t.tqe[n]
      freed == [t EXCEPT !.timerQ = Tail(@), !.freeTQEQ = <<n>> \o @]
  IN  IF due.interval = 0 THEN freed
      ELSE timer_set(freed, due.client, due.time + due.interval)

timer_pending(t) == t.timerQ # <<>>
HeadExpired(t) == timer_pending(t) /\ t.tqe[Head(t.timerQ)].time <= ticks

-----------------------------------------------------------------------------
(* What the program and its handlers may call *)

InHandler == pc \in {"setup", "timerHandler", "inputHandler"}

Call ==
  /\ InHandler /\ calls < MaxCalls
  /\ calls' = calls + 1
  /\ UNCHANGED <<pc, client, readfds, nfds, fd, ticks>>

TimerCall(way) ==
  /\ Call
  /\ api \in {"none", way} /\ api' = way
  /\ UNCHANGED <<el, Readfds, max_fd, stopped>>

\* An absolute time or one relative to now; the interval it returns a pointer
\* to is left alone.
SetTimer(c, d) ==
  /\ TimerCall("timer_set")
  /\ timers' = timer_set(timers, c, ticks + d)

CancelTimer(c) ==
  /\ TimerCall(IF api = "none" THEN "timer_set" ELSE api)
  /\ timers' = timer_cancel(timers, c)

notify_set_itimer_func(c, d, interval) ==
  /\ TimerCall("itimer")
  /\ timers' = LET t == timer_set(timers, c, ticks + d)
               IN  [t EXCEPT !.tqe[Taken(timers, c)].interval = interval]

set_max_fd(list) == Max({0} \cup ToSet(list))

\* Mutant: max_fd is left to notify_start.
InstallHandlerOnly(f) ==
  /\ Call
  /\ f \notin ToSet(el)
  /\ el' = <<f>> \o el /\ Readfds' = Readfds \cup {f}
  /\ UNCHANGED <<timers, stopped, max_fd, api>>

\* notify_set_input_func for a descriptor without a handler (search finds
\* none); for one with a handler it replaces the function.
InstallHandler(f) ==
  /\ Call
  /\ f \notin ToSet(el)
  /\ el' = <<f>> \o el /\ Readfds' = Readfds \cup {f}
  /\ max_fd' = IF f > max_fd THEN f ELSE max_fd
  /\ UNCHANGED <<timers, stopped, api>>

RemoveHandler(f) ==
  /\ Call
  /\ f \in ToSet(el)
  /\ el' = RemoveAt(el, Min({i \in DOMAIN el : el[i] = f})) /\ Readfds' = Readfds \ {f}
  /\ max_fd' = set_max_fd(el')
  /\ UNCHANGED <<timers, stopped, api>>

notify_stop ==
  /\ Call
  /\ stopped' = TRUE
  /\ UNCHANGED <<timers, el, Readfds, max_fd, api>>

-----------------------------------------------------------------------------
(* notify_start *)

LoopStays == UNCHANGED <<el, Readfds, max_fd, calls, api>>

\* stop is reset: a stop asked for before is forgotten.
Start ==
  /\ pc = "setup"
  /\ pc' = "top" /\ stopped' = FALSE
  /\ LoopStays /\ UNCHANGED <<timers, client, readfds, nfds, fd, ticks>>

\* The descriptors are copied, and max_fd passed to timer_get_pending, before
\* it calls the timers' handlers.
Round ==
  /\ pc = "top" /\ ~stopped
  /\ pc' = "timers" /\ readfds' = Readfds /\ nfds' = max_fd
  /\ LoopStays /\ UNCHANGED <<timers, stopped, client, fd, ticks>>

Leave ==
  /\ pc = "top" /\ stopped
  /\ pc' = "ended"
  /\ LoopStays /\ UNCHANGED <<timers, stopped, client, readfds, nfds, fd, ticks>>

FireTimer ==
  /\ pc = "timers" /\ HeadExpired(timers)
  /\ timers' = Expire(timers)
  /\ pc' = "timerHandler" /\ client' = timers.tqe[Head(timers.timerQ)].client
  /\ LoopStays /\ UNCHANGED <<stopped, readfds, nfds, fd, ticks>>

\* Mutant: no timer is reason enough to stop.
timer_get_only ==
  /\ pc = "timers" /\ ~HeadExpired(timers)
  /\ stopped' = (stopped \/ ~timer_pending(timers))
  /\ pc' = "select"
  /\ LoopStays /\ UNCHANGED <<timers, client, readfds, nfds, fd, ticks>>

timer_get_pending ==
  /\ pc = "timers" /\ ~HeadExpired(timers)
  /\ stopped' = (stopped \/ (~timer_pending(timers) /\ nfds = 0))
  /\ pc' = "select"
  /\ LoopStays /\ UNCHANGED <<timers, client, readfds, nfds, fd, ticks>>

\* The order of evaluation leaves open whether select gets max_fd as it was
\* before or after the timers' handlers.  It may return with none, for a
\* timer, after a tenth of a second or by a signal.
Select ==
  /\ pc = "select"
  /\ \E limit \in {nfds, max_fd} :
       readfds' \in SUBSET {f \in readfds : f <= limit}
  /\ fd' = 0 /\ pc' = "dispatch"
  /\ LoopStays /\ UNCHANGED <<timers, stopped, client, nfds, ticks>>

\* A descriptor closed since readfds was copied, for one.
SelectFails ==
  /\ pc = "select"
  /\ pc' = "error"
  /\ LoopStays /\ UNCHANGED <<timers, stopped, client, readfds, nfds, fd, ticks>>

\* The descriptors still to be looked at that have a handler, now.
ToServe == {f \in readfds \cap ToSet(el) : fd <= f /\ f <= max_fd}

Dispatch ==
  /\ pc = "dispatch" /\ ToServe # {}
  /\ fd' = Min(ToServe) + 1
  /\ pc' = "inputHandler"
  /\ LoopStays /\ UNCHANGED <<timers, stopped, client, readfds, nfds, ticks>>

RoundDone ==
  /\ pc = "dispatch" /\ ToServe = {}
  /\ pc' = "top"
  /\ LoopStays /\ UNCHANGED <<timers, stopped, client, readfds, nfds, fd, ticks>>

HandlerReturns ==
  /\ pc \in {"timerHandler", "inputHandler"}
  /\ pc' = IF pc = "timerHandler" THEN "timers" ELSE "dispatch"
  /\ client' = Nobody
  /\ LoopStays /\ UNCHANGED <<timers, stopped, readfds, nfds, fd, ticks>>

Pass ==
  /\ ticks < MaxTicks /\ pc \notin {"ended", "error"}
  /\ ticks' = ticks + 1
  /\ LoopStays /\ UNCHANGED <<timers, stopped, pc, client, readfds, nfds, fd>>

LoopNext ==
  \/ \E c \in Clients :
       \/ CancelTimer(c)
       \/ \E d \in Delays : SetTimer(c, d) \/ \E i \in Intervals : notify_set_itimer_func(c, d, i)
  \/ \E f \in Fds : InstallHandler(f) \/ RemoveHandler(f)
  \/ notify_stop
  \/ Start \/ Round \/ Leave \/ FireTimer \/ timer_get_pending
  \/ Select \/ SelectFails \/ Dispatch \/ RoundDone \/ HandlerReturns
  \/ Pass

-----------------------------------------------------------------------------
(* Properties *)

\* Every TQE ever allocated is in exactly one place of one of the two lists,
\* although timer_set moves it by its own scan, by the free list and, when a
\* timer is set again, from inside timer_get (multimer.c:126, 149, 213).
TQEsInOneList ==
  LET both == timers.timerQ \o timers.freeTQEQ
  IN  IsInjective(both) /\ ToSet(both) = DOMAIN timers.tqe

\* notify_start asks select about the descriptors that have a handler, and
\* about all of them: the list, the set and max_fd are kept by different
\* statements (notify.c:106, 111, 115, 119).
DescriptorsHaveHandlers ==
  /\ Readfds = ToSet(el) /\ IsInjective(el)
  /\ max_fd = Max({0} \cup Readfds)

\* The loop ends by itself only when no timer is pending and select was asked
\* about nothing but, at most, descriptor 0 (timer_get_pending,
\* notify.c:155): a handler that a timer installs in that round comes too
\* late.
StopsOnlyWhenIdle ==
  [][stopped' /\ ~stopped /\ ~InHandler
       => ~timer_pending(timers) /\ readfds \subseteq {0}]_loopVars

\* The TQEs, reused and moved between their lists, amount to one timer per
\* client that fires in time and in order.
Pending(t) ==
  [c \in {t.tqe[n].client : n \in ToSet(t.timerQ)} |->
     [time |-> t.tqe[OfClient(t, c)].time, interval |-> t.tqe[OfClient(t, c)].interval]]
Service == INSTANCE TimerService
             WITH now <- ticks, oneShot <- (api # "itimer"), pending <- Pending(timers),
                  calling <- client
TimerServiceSpec == Service!Spec
=============================================================================
