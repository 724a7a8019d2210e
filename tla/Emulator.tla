------------------------------ MODULE Emulator ------------------------------
(***************************************************************************)
(* newudpl-1.5: readHandler and sendHandler (newudpl.c) over the packet    *)
(* queue, the timers and the select loop (notify.c), with the two ways to  *)
(* stop: a command on standard input, handled in the loop, and SIGINT,     *)
(* whose handler interrupts the program wherever it is.                    *)
(*                                                                         *)
(* Times are microseconds since the start.  A packet is a record of its    *)
(* identity, its size and the time readHandler noted for it.               *)
(***************************************************************************)
EXTENDS MultiTimer, Sums

CONSTANTS speed, ether, delay,   \* options -s, -e (kb/s) and -d
          inQBufSize,            \* option -q, bytes
          calcMode,              \* 0, or 1 with -m
          Lossy, Reorder,        \* are -L or -C, is -O given?
          MaxQSize,              \* _MAX_Q_SIZE_, 2048
          Word,                  \* 2^32: calcDepTime computes in uint32_t
          srceHost,              \* option -i: ip and port, 0 for any port
          Senders, Sizes,        \* of the datagrams that may arrive
          MaxPackets, LastArrival, MaxTime, MaxSignals   \* bounds

ASSUME SizesAssumption ==
  inQBufSize \in Nat \ {0} /\ MaxQSize \in Nat /\ Sizes \subseteq Nat

\* calcDepTime does not divide by 0: no speed below one of the three Ethernets
\* makes their product a multiple of 2^32.
ASSUME SpeedAssumption ==
  /\ speed \in Nat \ {0} /\ ether \in Nat \ {0} /\ delay \in Nat
  /\ calcMode \in {0, 1} /\ Word \in Nat \ {0}
  /\ speed < ether => (ether * speed) % Word # 0

ASSUME BoundsAssumption ==
  /\ Lossy \in BOOLEAN /\ Reorder \in BOOLEAN
  /\ {MaxPackets, LastArrival, MaxTime, MaxSignals} \subseteq Nat

VARIABLES now,            \* gettimeofday
          queue, timerQ,  \* uq.queue, front first; multimer's timerQ
          qUsed, rUdpC,   \* bytes in the buffer, bytes accepted so far
          prvRcv,         \* when the packet before came
          prvIntervled,   \* when the link is free again
          listening,      \* is readHandler installed?
          stop,           \* notify's stop, with its reason
          command,        \* is the loop inside stdinHandler?
          task, held,     \* where each context is, and its packet
          sent,           \* the packets given to sendto, in order
          stat,           \* g_stat, counted in packets
          arrived, signals \* counted for the bounds

vars == <<now, queue, timerQ, qUsed, rUdpC, prvRcv, prvIntervled, listening,
          stop, command, task, held, sent, stat, arrived, signals>>

\* The program has one thread; a signal's handler runs on top of it.
Contexts == {"main", "signal"}
Packet == [id : 1..MaxPackets, bytes : Sizes, at : Nat]
NoPacket == [id |-> 0, bytes |-> 0, at |-> 0]

\* What an item that was never set may look like.  All sizes that decQUsed
\* refuses are the same.
Garbage == [id : {0}, bytes : 0..inQBufSize + 1, at : {0}]

\* Are the datagrams large enough for the buffer to be full before the queue
\* is?  Then none is empty, and no two have the same client.
RoomByBytes == \A b \in Sizes : inQBufSize <= b * MaxQSize

NoneCounted == [rejPack |-> 0, congPack |-> 0, rPacket |-> 0, sPacket |-> 0, randomLoss |-> 0]
Count(field) == stat' = [stat EXCEPT ![field] = @ + 1]

Init ==
  /\ now = 0 /\ queue = <<>> /\ timerQ = <<>> /\ qUsed = 0 /\ rUdpC = 0
  /\ prvRcv = 0 /\ prvIntervled = 0
  /\ listening = TRUE /\ stop = "no" /\ command = FALSE
  /\ task = [main |-> "timers", signal |-> "off"]
  /\ held = [c \in Contexts |-> NoPacket]
  /\ sent = <<>> /\ stat = NoneCounted /\ arrived = 0 /\ signals = 0

Runs(c) ==
  /\ task["main"] \notin {"stopped", "crashed"}
  /\ c = "main" => task["signal"] = "off"

GoTo(c, place) == task' = [task EXCEPT ![c] = place]

\* The top of notify_start's loop, after a handler returned to it.
LoopTop == IF stop = "no" THEN "timers" ELSE "stopped"

Tick ==
  /\ now < MaxTime
  /\ \E c \in Contexts : Runs(c)
  /\ now' = now + 1
  /\ UNCHANGED <<queue, timerQ, qUsed, rUdpC, prvRcv, prvIntervled, listening,
                 stop, command, task, held, sent, stat, arrived, signals>>

-----------------------------------------------------------------------------
(* calcDepTime *)

\* How long the link is busy with b bytes.
Interval(b) == (8000 * b) \div speed

\* The difference between the link's and the Ethernet's transmission time,
\* modulo Word.  A delay of a second or more keeps its whole seconds only.
TransDelay(b) ==
  LET bits == (8 * b * (ether - speed)) % Word
      d    == IF bits < Word \div 1000
              THEN (bits * 1000) \div ((ether * speed) % Word)
              ELSE (((bits \div ether) * 1000) % Word) \div speed
  IN  IF ether <= speed THEN 0
      ELSE IF d < 1000000 THEN d ELSE d - (d % 1000000)

\* Mutant: the earlier of the two times.
DepartureEarly(b, at) ==
  (IF prvIntervled < at + delay THEN prvIntervled ELSE at + delay) + TransDelay(b)

\* Mutant: the link's speed is forgotten.
DepartureAtOnce(b, at) == at + delay + TransDelay(b)

Departure(b, at) ==
  (IF prvIntervled < at + delay THEN at + delay ELSE prvIntervled) + TransDelay(b)

NextIntervled(b, at) == (IF calcMode = 0 THEN prvIntervled ELSE at) + Interval(b)

-----------------------------------------------------------------------------
(* readHandler *)

\* Mutant: only a buffer that is already full refuses a packet.
HasAnyRoom(b) == qUsed < inQBufSize

HasRoom(b) == qUsed + b <= inQBufSize

addQueue(q, p) == IF Len(q) < MaxQSize THEN Append(q, p) ELSE q

\* select says that the socket is readable.
Arrival ==
  /\ Runs("main") /\ task["main"] = "select" /\ listening
  /\ arrived < MaxPackets /\ now <= LastArrival
  /\ arrived' = arrived + 1

ReceiveFails ==
  /\ Arrival
  /\ stop' = "error"
  /\ GoTo("main", "stopped")
  /\ UNCHANGED <<now, queue, timerQ, qUsed, rUdpC, prvRcv, prvIntervled,
                 listening, command, held, sent, stat, signals>>

checkHost(from) ==
  from.ip = srceHost.ip /\ (srceHost.port = 0 \/ from.port = srceHost.port)

Reject(from) ==
  /\ Arrival
  /\ ~checkHost(from)
  /\ Count("rejPack")
  /\ GoTo("main", LoopTop)
  /\ UNCHANGED <<now, queue, timerQ, qUsed, rUdpC, prvRcv, prvIntervled,
                 listening, stop, command, held, sent, signals>>

\* What follows is for a datagram of the right host.
Accepted == Arrival /\ \E from \in Senders : checkHost(from)

\* Mutant: a packet that is too large is not counted.
TooLargeUncounted(b) ==
  /\ Accepted
  /\ inQBufSize < b
  /\ GoTo("main", LoopTop)
  /\ UNCHANGED <<now, queue, timerQ, qUsed, rUdpC, prvRcv, prvIntervled,
                 listening, stop, command, held, sent, stat, signals>>

TooLarge(b) ==
  /\ Accepted
  /\ inQBufSize < b
  /\ Count("congPack")
  /\ GoTo("main", LoopTop)
  /\ UNCHANGED <<now, queue, timerQ, qUsed, rUdpC, prvRcv, prvIntervled,
                 listening, stop, command, held, sent, signals>>

\* The receiving speed is a division by the time since the packet before,
\* whose time stamp counts as unset when its microseconds are zero.
SameTimeStamp == prvRcv % 1000000 # 0 /\ now = prvRcv

DivideByZero(b) ==
  /\ Accepted
  /\ b <= inQBufSize /\ SameTimeStamp
  /\ GoTo("main", "crashed")
  /\ UNCHANGED <<now, queue, timerQ, qUsed, rUdpC, prvRcv, prvIntervled,
                 listening, stop, command, held, sent, stat, signals>>

Congestion(b) ==
  /\ Accepted
  /\ b <= inQBufSize /\ ~SameTimeStamp /\ ~HasRoom(b)
  /\ prvRcv' = now
  /\ Count("congPack")
  /\ GoTo("main", LoopTop)
  /\ UNCHANGED <<now, queue, timerQ, qUsed, rUdpC, prvIntervled, listening,
                 stop, command, held, sent, signals>>

assembleItem(b) == [id |-> arrived + 1, bytes |-> b, at |-> now]

\* Up to addQueue; what follows may be interrupted from here.
Accept(b) ==
  /\ Accepted
  /\ b <= inQBufSize /\ ~SameTimeStamp /\ HasRoom(b)
  /\ prvRcv' = now
  /\ qUsed' = qUsed + b
  /\ LET p == assembleItem(b)
     IN  queue' = addQueue(queue, p) /\ held' = [held EXCEPT !["main"] = p]
  /\ GoTo("main", "adding")
  /\ UNCHANGED <<now, timerQ, rUdpC, prvIntervled, listening, stop, command,
                 sent, stat, signals>>

\* Mutant: the bytes are never counted, and all timers have one client.
SetTimerUncounted ==
  /\ Runs("main") /\ task["main"] = "adding"
  /\ LET p == held["main"]
     IN  /\ prvIntervled' = NextIntervled(p.bytes, p.at)
         /\ UNCHANGED rUdpC
         /\ Count("rPacket")
         /\ timerQ' = timer_set(timerQ, Departure(p.bytes, p.at), rUdpC)
  /\ held' = [held EXCEPT !["main"] = NoPacket]
  /\ GoTo("main", LoopTop)
  /\ UNCHANGED <<now, queue, qUsed, prvRcv, listening, stop, command, sent,
                 arrived, signals>>

\* calcDepTime and timer_set.
SetTimer ==
  /\ Runs("main") /\ task["main"] = "adding"
  /\ LET p == held["main"]
     IN  /\ prvIntervled' = NextIntervled(p.bytes, p.at)
         /\ rUdpC' = rUdpC + p.bytes
         /\ Count("rPacket")
         /\ timerQ' = timer_set(timerQ, Departure(p.bytes, p.at), rUdpC')
  /\ held' = [held EXCEPT !["main"] = NoPacket]
  /\ GoTo("main", LoopTop)
  /\ UNCHANGED <<now, queue, qUsed, prvRcv, listening, stop, command, sent,
                 arrived, signals>>

-----------------------------------------------------------------------------
(* timer_get and sendHandler, called from the loop or from flushQueue *)

Caller(c) == IF c = "signal" \/ command THEN "flush" ELSE "timers"

\* Mutant: the timer is called but stays in the queue.
FireTimerAgain(c) ==
  /\ Runs(c) /\ task[c] = Caller(c)
  /\ Expired(timerQ, now)
  /\ GoTo(c, "firing")
  /\ UNCHANGED <<now, queue, timerQ, qUsed, rUdpC, prvRcv, prvIntervled, listening,
                 stop, command, held, sent, stat, arrived, signals>>

FireTimer(c) ==
  /\ Runs(c) /\ task[c] = Caller(c)
  /\ Expired(timerQ, now)
  /\ timerQ' = Tail(timerQ)
  /\ GoTo(c, "firing")
  /\ UNCHANGED <<now, queue, qUsed, rUdpC, prvRcv, prvIntervled, listening,
                 stop, command, held, sent, stat, arrived, signals>>

\* What getQueue makes of sendHandler's item.  It does not set it when the
\* queue is empty.
Items == IF queue = <<>> THEN Garbage ELSE {Head(queue)}

\* Mutant: the packet is read but not unlinked.
PeekPacket(c) ==
  /\ Runs(c) /\ task[c] = "firing"
  /\ \E p \in Items : held' = [held EXCEPT ![c] = p]
  /\ GoTo(c, "sending")
  /\ UNCHANGED <<now, queue, timerQ, qUsed, rUdpC, prvRcv, prvIntervled,
                 listening, stop, command, sent, stat, arrived, signals>>

GetPacket(c) ==
  /\ Runs(c) /\ task[c] = "firing"
  /\ \E p \in Items : held' = [held EXCEPT ![c] = p]
  /\ queue' = IF queue = <<>> THEN queue ELSE Tail(queue)
  /\ GoTo(c, "sending")
  /\ UNCHANGED <<now, timerQ, qUsed, rUdpC, prvRcv, prvIntervled, listening,
                 stop, command, sent, stat, arrived, signals>>

\* disAssembleItem copies and frees what an item that was never set points to.
FollowNoItem(c) ==
  /\ Runs(c) /\ task[c] = "firing"
  /\ queue = <<>>
  /\ task' = [main |-> "crashed", signal |-> "off"]
  /\ UNCHANGED <<now, queue, timerQ, qUsed, rUdpC, prvRcv, prvIntervled,
                 listening, stop, command, held, sent, stat, arrived, signals>>

\* isOutOfOrder puts the front packet behind all others, sometimes.
OutOfOrder(q) ==
  {q} \cup IF Reorder /\ Len(q) >= 2 THEN {Append(Tail(q), Head(q))} ELSE {}


\* decQUsed, and notify_stop when it refuses.
Release(bytes) ==
  LET refused == qUsed - bytes < 0
  IN  /\ qUsed' = IF refused THEN qUsed ELSE qUsed - bytes
      /\ stop' = IF refused THEN "error" ELSE stop

SendHandlerReturns(c) ==
  /\ Runs(c) /\ task[c] = "sending"
  /\ held' = [held EXCEPT ![c] = NoPacket]
  /\ GoTo(c, Caller(c))
  /\ UNCHANGED <<now, timerQ, rUdpC, prvRcv, prvIntervled, listening, command,
                 arrived, signals>>

\* Mutant: a lost packet keeps its place in the buffer.
LosePacketKeepBytes(c) ==
  /\ Lossy
  /\ SendHandlerReturns(c)
  /\ Count("randomLoss")
  /\ UNCHANGED <<queue, sent, qUsed, stop>>

LosePacket(c) ==
  /\ Lossy
  /\ SendHandlerReturns(c)
  /\ Release(held[c].bytes)
  /\ IF qUsed < held[c].bytes THEN UNCHANGED stat ELSE Count("randomLoss")
  /\ UNCHANGED <<queue, sent>>

SendPacket(c) ==
  /\ SendHandlerReturns(c)
  /\ queue' \in OutOfOrder(queue)
  /\ sent' = Append(sent, held[c])
  /\ Release(held[c].bytes)
  /\ IF qUsed < held[c].bytes THEN UNCHANGED stat ELSE Count("sPacket")

SendFails(c) ==
  /\ SendHandlerReturns(c)
  /\ queue' \in OutOfOrder(queue)
  /\ stop' = "error"
  /\ UNCHANGED <<qUsed, sent, stat>>

-----------------------------------------------------------------------------
(* notify_start's loop and the two ways to stop *)

EnterSelect ==
  /\ Runs("main") /\ task["main"] = "timers" /\ Caller("main") = "timers"
  /\ ~Expired(timerQ, now)
  /\ GoTo("main", "select")
  /\ UNCHANGED <<now, queue, timerQ, qUsed, rUdpC, prvRcv, prvIntervled,
                 listening, stop, command, held, sent, stat, arrived, signals>>

\* A timer's time has come, or a signal interrupted the call.  Returns after
\* which nothing happens are left out.
SelectReturns ==
  /\ Runs("main") /\ task["main"] = "select"
  /\ Expired(timerQ, now) \/ stop # "no"
  /\ GoTo("main", LoopTop)
  /\ UNCHANGED <<now, queue, timerQ, qUsed, rUdpC, prvRcv, prvIntervled,
                 listening, stop, command, held, sent, stat, arrived, signals>>

StopCommand ==
  /\ Runs("main") /\ task["main"] = "select"
  /\ listening' = FALSE /\ command' = TRUE
  /\ GoTo("main", "flush")
  /\ UNCHANGED <<now, queue, timerQ, qUsed, rUdpC, prvRcv, prvIntervled, stop,
                 held, sent, stat, arrived, signals>>

Interrupt ==
  /\ Runs("main") /\ signals < MaxSignals
  /\ signals' = signals + 1
  /\ listening' = FALSE
  /\ GoTo("signal", "flush")
  /\ UNCHANGED <<now, queue, timerQ, qUsed, rUdpC, prvRcv, prvIntervled, stop,
                 command, held, sent, stat, arrived>>

\* Mutant: flushQueue waits for the queue of packets.
FlushUntilEmpty(c) ==
  /\ Runs(c) /\ task[c] = "flush"
  /\ queue = <<>>
  /\ stop' = IF stop = "error" THEN stop ELSE "quit"
  /\ GoTo(c, IF c = "main" THEN "stopped" ELSE "off")
  /\ command' = (command /\ c # "main")
  /\ UNCHANGED <<now, queue, timerQ, qUsed, rUdpC, prvRcv, prvIntervled,
                 listening, held, sent, stat, arrived, signals>>

\* Mutant: the flush is over when no timer has expired.
FlushDoneEarly(c) ==
  /\ Runs(c) /\ task[c] = "flush"
  /\ ~Expired(timerQ, now)
  /\ stop' = IF stop = "error" THEN stop ELSE "quit"
  /\ GoTo(c, IF c = "main" THEN "stopped" ELSE "off")
  /\ command' = (command /\ c # "main")
  /\ UNCHANGED <<now, queue, timerQ, qUsed, rUdpC, prvRcv, prvIntervled,
                 listening, held, sent, stat, arrived, signals>>

\* flushQueue returns once no timer is pending; then notify_stop.
FlushDone(c) ==
  /\ Runs(c) /\ task[c] = "flush"
  /\ timerQ = <<>>
  /\ stop' = IF stop = "error" THEN stop ELSE "quit"
  /\ GoTo(c, IF c = "main" THEN "stopped" ELSE "off")
  /\ command' = (command /\ c # "main")
  /\ UNCHANGED <<now, queue, timerQ, qUsed, rUdpC, prvRcv, prvIntervled,
                 listening, held, sent, stat, arrived, signals>>

-----------------------------------------------------------------------------
ReadHandler ==
  \/ ReceiveFails
  \/ \E from \in Senders : Reject(from)
  \/ \E b \in Sizes : TooLarge(b) \/ DivideByZero(b) \/ Congestion(b) \/ Accept(b)

\* What a context does without waiting for the world.
Step(c) ==
  \/ FireTimer(c) \/ GetPacket(c) \/ FollowNoItem(c)
  \/ LosePacket(c) \/ SendPacket(c) \/ SendFails(c)
  \/ FlushDone(c)

LoopStep == SetTimer \/ EnterSelect \/ SelectReturns

Next ==
  \/ Tick \/ ReadHandler \/ StopCommand \/ Interrupt
  \/ LoopStep
  \/ \E c \in Contexts : Step(c)

Spec == Init /\ [][Next]_vars

\* Time passes, and a program that can go on does.
FairSpec ==
  /\ Spec
  /\ WF_vars(Tick)
  /\ WF_vars(LoopStep \/ Step("main"))
  /\ WF_vars(Step("signal"))

-----------------------------------------------------------------------------
(* Properties *)

\* Every variable has its type, and the buffer never holds more than -q
\* allows (incQUsed, newudpl.c:590).
TypeOK ==
  /\ now \in Nat /\ rUdpC \in Nat /\ prvRcv \in Nat /\ prvIntervled \in Nat
  /\ queue \in Seq(Packet) /\ timerQ \in Seq(Timer)
  /\ qUsed \in 0..inQBufSize
  /\ listening \in BOOLEAN /\ command \in BOOLEAN
  /\ stop \in {"no", "quit", "error"}
  /\ task \in [Contexts -> {"timers", "select", "adding", "flush", "firing",
                            "sending", "off", "stopped", "crashed"}]
  /\ held \in [Contexts -> Packet \cup Garbage]
  /\ sent \in Seq(Packet \cup Garbage) /\ stat \in [DOMAIN NoneCounted -> Nat]
  /\ arrived \in 0..MaxPackets /\ signals \in 0..MaxSignals

In(place) == {c \in Contexts : task[c] = place}

\* Whatever is received, also when datagrams share a client or the queue of
\* packets refuses one: timer_get may look at the head only, and timer_set and
\* timer_cancel may stop at the first timer of a client (multimer.c).
TimersInOrder == InOrder(timerQ) /\ OnePerClient(timerQ)

\* Whatever is received, each datagram lets sendHandler run at most once: the
\* statistics never say that more left than came, although the handler counts
\* also what it made of an empty queue (newudpl.c:974, 1026).
SentWereReceived ==
  stat.sPacket + stat.randomLoss + Len(timerQ)
    + Cardinality(In("firing")) + Cardinality(In("sending")) <= stat.rPacket

\* sendHandler sends the front of the queue, whichever timer called it: every
\* queued packet has a timer pending or being handled, except one whose
\* handler was interrupted before timer_set, and no timer finds the queue
\* empty.  The pending timers are in order and each client has one, so the
\* i-th timer is not early for the packet it will send (newudpl.c:951).
TimersMatchQueue ==
  LET firing == Cardinality(In("firing"))
  IN  /\ TimersInOrder
      /\ Len(queue) = Len(timerQ) + firing + Cardinality(In("adding"))
      /\ \A i \in 1..firing : queue[i].at + delay <= now
      /\ \A i \in 1..Len(timerQ) : queue[i + firing].at + delay <= timerQ[i].time

BytesOf(q)     == [i \in 1..Len(q) |-> q[i].bytes]
IntervalsOf(q) == [i \in 1..Len(q) |-> Interval(q[i].bytes)]

\* qUsed is the bytes of the packets in the queue and in a sendHandler, until
\* a failed sendto ends the program: never less, or the buffer would be
\* overfilled, never more, or it would fill up for good (newudpl.c:801, 1018).
QUsedIsBytesQueued ==
  LET inHandler(c) == IF task[c] = "sending" THEN held[c].bytes ELSE 0
      bytes == Total(BytesOf(queue)) + inHandler("main") + inHandler("signal")
  IN  /\ bytes <= qUsed
      /\ stop # "error" => qUsed = bytes

\* Until an error or a crash ends the program, the statistics that it prints
\* account for every packet received, once: rejected, dropped by congestion or
\* received, and of the latter sent, lost or still inside, although they are
\* counted at eight places of two handlers, one of which runs on top of the
\* other after a SIGINT (newudpl.c:764, 777, 809, 831, 974, 1026).
StatisticsAddUp ==
  LET adding == Cardinality(In("adding"))
  IN  stop # "error" /\ task["main"] # "crashed" =>
        /\ arrived = stat.rejPack + stat.congPack + stat.rPacket + adding
        /\ stat.rPacket + adding =
              stat.sPacket + stat.randomLoss + Len(queue) + Cardinality(In("sending"))

\* "All the packets will have minimum delay" (README, -d): no packet reaches
\* sendHandler earlier, although it may not be the one its timer was set for.
MinimumDelay ==
  \A c \in Contexts :
    task[c] = "sending" /\ held[c] \in Packet => held[c].at + delay <= now

\* The interval of the largest packet that can be accepted.
MaxInterval == Max({0} \cup {Interval(b) : b \in {s \in Sizes : s <= inQBufSize}})

\* Since its start the emulator has sent no more than the link can carry, but
\* for one packet: what calcDepTime gives away after an idle time (see
\* LinkSpeed) is never more than what the idle time left unused.
LongRunSpeed == Total(IntervalsOf(sent)) <= now + MaxInterval

\* Ending by a command or by SIGINT leaves at most one packet behind, the one
\* whose readHandler was interrupted (flushQueue, newudpl.c:1048).
AtMostOneLeft ==
  task["main"] = "stopped" /\ stop = "quit" =>
    Len(queue) <= 1 /\ Len(timerQ) = Len(queue) /\ (signals = 0 => queue = <<>>)

\* "The speed of Transferring UDP packets will not exceed this speed" (README,
\* -s): two departures are at least one packet's interval apart, here for
\* packets of one size (calcDepTime, newudpl.c:670).
LinkSpeed ==
  \A i \in 1..Len(timerQ) - 1 : timerQ[i].time + MaxInterval <= timerQ[i + 1].time

\* No packet stays in the queue of a program that goes on (newudpl.c:834).
PacketsLeave ==
  \A id \in 1..MaxPackets :
    (\E i \in 1..Len(queue) : queue[i].id = id) ~>
      \/ \A i \in 1..Len(queue) : queue[i].id # id
      \/ task["main"] \in {"stopped", "crashed"}

\* Whatever was received, a flush ends, and the program with it: flushQueue
\* waits for the timers, not for the packets (newudpl.c:1052).
FlushEnds ==
  command \/ task["signal"] # "off" ~> task["main"] \in {"stopped", "crashed"}

\* The packets accepted and not yet through sendHandler.
Inside == {queue[i] : i \in 1..Len(queue)} \cup {held[c] : c \in In("sending")}

\* From recvfrom to sendto the emulator is a lossy delay line: what the timers,
\* the queue and the interrupted handlers do with a packet amounts to keeping
\* it for the delay and letting it go once.
Line == INSTANCE DelayLine
          WITH Ids <- 1..MaxPackets, inside <- Inside,
               lost <- stat.randomLoss, failed <- (stop = "error")
DelayLineSpec == Line!Spec
=============================================================================
