--------------------------- MODULE EmulatorProofs ---------------------------
(***************************************************************************)
(* Proofs about Emulator for every speed, delay and buffer, any datagrams  *)
(* and any number of SIGINTs.                                              *)
(***************************************************************************)
EXTENDS Emulator, NumberTheorems, FiniteSetTheorems

----------------------------------------------------------------------------
(* The operators of the model.                                             *)

(* Where a context is, as a number.                                        *)
At(c, place) == IF task[c] = place THEN 1 ELSE 0

(* How many contexts are in a place.                                       *)
LEMMA CountIn ==
  ASSUME NEW place
  PROVE  Cardinality(In(place)) = At("main", place) + At("signal", place)
<1>1. CASE In(place) = {}
  <2>1. At("main", place) = 0 /\ At("signal", place) = 0
    BY <1>1 DEF In, At, Contexts
  <2> QED BY <1>1, <2>1, FS_EmptySet
<1>2. CASE \E c \in Contexts : In(place) = {c}
  <2>1. PICK c \in Contexts : In(place) = {c}
    BY <1>2
  <2>2. Cardinality(In(place)) = 1
    BY <2>1, FS_Singleton
  <2>3. At("main", place) + At("signal", place) = 1
    BY <2>1 DEF In, At, Contexts
  <2> QED BY <2>2, <2>3
<1>3. CASE In(place) = {"main", "signal"}
  <2>1. Cardinality({"main"} \cup {"signal"}) = 2
    <3>1. IsFiniteSet({"main"}) /\ Cardinality({"main"}) = 1
      BY FS_Singleton
    <3>2. "signal" \notin {"main"}
      OBVIOUS
    <3> QED BY <3>1, <3>2, FS_AddElement
  <2>2. {"main"} \cup {"signal"} = In(place)
    BY <1>3
  <2>3. At("main", place) = 1 /\ At("signal", place) = 1
    BY <1>3 DEF In, At
  <2> QED BY <2>1, <2>2, <2>3
<1>4. In(place) \subseteq {"main", "signal"} /\ Contexts = {"main", "signal"}
  BY DEF In, Contexts
<1> QED BY <1>1, <1>2, <1>3, <1>4

(* The link's interval of a packet.                                        *)
LEMMA IntervalNat ==
  ASSUME NEW b \in Nat
  PROVE  Interval(b) \in Nat
<1> DEFINE n == 8000 * b
<1>1. n \in Nat /\ speed \in Nat \ {0}
  BY SpeedAssumption
<1> HIDE DEF n
<1>2. n \div speed \in Nat
  BY <1>1, DivMod
<1> QED BY <1>2 DEF Interval, n

(* Whichever way it is computed, the transmission delay is a number.       *)
LEMMA TransDelayNat ==
  ASSUME NEW b \in Nat
  PROVE  TransDelay(b) \in Nat
<1> DEFINE product == 8 * b * (ether - speed)
           bits == product % Word
           e == (ether * speed) % Word
           d == IF bits < Word \div 1000 THEN (bits * 1000) \div e
                ELSE (((bits \div ether) * 1000) % Word) \div speed
<1>1. speed \in Nat \ {0} /\ ether \in Nat \ {0} /\ Word \in Nat \ {0}
  BY SpeedAssumption
<1>2. TransDelay(b) = IF ether <= speed THEN 0
                      ELSE IF d < 1000000 THEN d ELSE d - (d % 1000000)
  BY DEF TransDelay
<1>3. ASSUME ~ (ether <= speed)
      PROVE  d \in Nat
  <2>1. product \in Int /\ ether * speed \in Nat
    BY <1>1
  <2>2. e # 0
    BY <1>1, <1>3, SpeedAssumption
  <2> HIDE DEF product
  <2>3. bits \in Nat /\ (ether * speed) % Word \in Nat
    <3>1. product % Word \in 0..Word - 1 /\ (ether * speed) % Word \in 0..Word - 1
      BY <1>1, <2>1, ModOfInt
    <3> QED BY <1>1, <3>1
  <2>4. e \in Nat \ {0}
    BY <2>2, <2>3
  <2> HIDE DEF bits, e
  <2>5. (bits * 1000) \div e \in Nat
    <3> DEFINE n == bits * 1000
    <3>1. n \in Nat
      BY <2>3
    <3> HIDE DEF n
    <3>2. n \div e \in Nat
      BY <2>4, <3>1, DivMod
    <3> QED BY <3>2 DEF n
  <2>6. (((bits \div ether) * 1000) % Word) \div speed \in Nat
    <3> DEFINE n == (bits \div ether) * 1000
               m == n % Word
    <3>1. bits \div ether \in Nat
      BY <1>1, <2>3, DivMod
    <3>2. n \in Nat
      BY <3>1
    <3> HIDE DEF n
    <3>3. m \in 0..Word - 1
      BY <1>1, <3>2, DivMod
    <3>4. m \in Nat
      BY <1>1, <3>3
    <3> HIDE DEF m
    <3>5. m \div speed \in Nat
      BY <1>1, <3>4, DivMod
    <3> QED BY <3>5 DEF m, n
  <2> QED BY <2>5, <2>6
<1> HIDE DEF d
<1>4. d \in Nat => d - (d % 1000000) \in Nat
  <2>1. 1000000 \in Nat \ {0}
    BY SMT
  <2> QED BY <2>1, RoundDown, SMT
<1> QED BY <1>2, <1>3, <1>4, SMT

(* A packet leaves after its delay, and after the link is free.            *)
LEMMA DepartureAfter ==
  ASSUME NEW b \in Nat, NEW at \in Nat, prvIntervled \in Nat
  PROVE  /\ Departure(b, at) \in Nat
         /\ at + delay <= Departure(b, at) /\ prvIntervled <= Departure(b, at)
<1>1. TransDelay(b) \in Nat /\ delay \in Nat
  BY TransDelayNat, SpeedAssumption
<1> QED BY <1>1 DEF Departure

(* What calcDepTime keeps for the next packet is a number.                 *)
LEMMA NextIntervledNat ==
  ASSUME NEW b \in Nat, NEW at \in Nat, prvIntervled \in Nat
  PROVE  NextIntervled(b, at) \in Nat
<1>1. Interval(b) \in Nat
  BY IntervalNat
<1> QED BY <1>1 DEF NextIntervled

----------------------------------------------------------------------------
(* multimer's queue.                                                       *)

(* A queue of timers has their times and clients.                          *)
LEMMA TimerFields ==
  ASSUME NEW q \in Seq(Timer)
  PROVE  Len(q) \in Nat /\ \A i \in 1..Len(q) : q[i] \in Timer /\ q[i].time \in Nat /\ q[i].client \in Nat
<1>1. Len(q) \in Nat /\ \A i \in 1..Len(q) : q[i] \in Timer
  OBVIOUS
<1> QED BY <1>1 DEF Timer

(* A client without a pending timer has none to cancel.                    *)
LEMMA CancelNone ==
  ASSUME NEW q, NEW client, \A i \in 1..Len(q) : q[i].client # client
  PROVE  Cancel(q, client) = q
BY DEF Cancel, RemoveFirstMatch

(* The place of a timer is behind those that expire no later and before    *)
(* the others, if the queue is in order.                                   *)
LEMMA PlaceInOrder ==
  ASSUME NEW q \in Seq(Timer), NEW time \in Nat, InOrder(q)
  PROVE  /\ Place(q, time) \in 1..Len(q) + 1
         /\ \A i \in 1..Len(q) : i < Place(q, time) <=> q[i].time <= time
<1> DEFINE later == {i \in 1..Len(q) : time < q[i].time}
           p == Place(q, time)
<1>1. p = IF later = {} THEN Len(q) + 1 ELSE Min(later)
  BY DEF Place
<1> HIDE DEF p
<1>2. Len(q) \in Nat /\ \A i \in 1..Len(q) : q[i].time \in Nat
  BY TimerFields
<1>3. CASE later = {}
  <2>1. \A i \in 1..Len(q) : ~ (time < q[i].time)
    BY <1>3
  <2>2. p = Len(q) + 1
    BY <1>1, <1>3
  <2> HIDE DEF later
  <2> QED BY <1>2, <2>1, <2>2 DEF p
<1>4. CASE later # {}
  <2>1. later \subseteq Nat
    OBVIOUS
  <2>2. \E m \in later : \A k \in later : m <= k
    <3> HIDE DEF later
    <3> QED BY <1>4, <2>1, Least
  <2>3. p \in later /\ \A k \in later : p <= k
    BY <1>1, <1>4, <2>2 DEF Min
  <2>4. p \in 1..Len(q) /\ time < q[p].time
    BY <2>3
  <2>5. \A i \in 1..Len(q) : i < p => ~ (time < q[i].time)
    BY <1>2, <2>3, <2>4
  <2> HIDE DEF later
  <2>6. ASSUME NEW i \in 1..Len(q), ~ (i < p)
        PROVE  time < q[i].time
    <3>1. q[p].time <= q[i].time
      <4>1. CASE i = p
        BY <1>2, <4>1
      <4>2. CASE p < i
        BY <2>4, <4>2 DEF InOrder
      <4> QED BY <1>2, <2>4, <2>6, <4>1, <4>2
    <3> QED BY <1>2, <2>4, <3>1
  <2>7. ASSUME NEW i \in 1..Len(q), i < p
        PROVE  q[i].time <= time
    BY <1>2, <2>7, <2>5
  <2>8. \A i \in 1..Len(q) : i < p <=> q[i].time <= time
    <3> SUFFICES ASSUME NEW i \in 1..Len(q)
                 PROVE  i < p <=> q[i].time <= time
      OBVIOUS
    <3> QED BY <1>2, <2>6, <2>7
  <2> QED BY <1>2, <2>4, <2>8 DEF p
<1> QED BY <1>3, <1>4

(* timer_set for a client that has no timer: one more timer, the others as *)
(* they were.                                                              *)
LEMMA TimerSet ==
  ASSUME NEW q \in Seq(Timer), NEW time \in Nat, NEW client \in Nat, InOrder(q),
         \A i \in 1..Len(q) : q[i].client # client
  PROVE  LET r == timer_set(q, time, client)
             p == Place(q, time)
         IN  /\ r \in Seq(Timer) /\ Len(r) = Len(q) + 1
             /\ p \in 1..Len(r) /\ r[p] = [time |-> time, client |-> client]
             /\ \A i \in 1..Len(r) : i < p => r[i] = q[i] /\ q[i].time <= time
             /\ \A i \in 1..Len(r) : p < i => r[i] = q[i - 1] /\ time < q[i - 1].time
<1> DEFINE r == timer_set(q, time, client)
           p == Place(q, time)
           t == [time |-> time, client |-> client]
<1>1. p \in 1..Len(q) + 1 /\ \A i \in 1..Len(q) : i < p <=> q[i].time <= time
  BY PlaceInOrder
<1>2. r = SubSeq(q, 1, p - 1) \o <<t>> \o SubSeq(q, p, Len(q))
  BY CancelNone DEF timer_set, InsertAt
<1> HIDE DEF p, r
<1>3. t \in Timer
  BY DEF Timer
<1> HIDE DEF t
<1>4. /\ SubSeq(q, 1, p - 1) \in Seq(Timer) /\ Len(SubSeq(q, 1, p - 1)) = p - 1
      /\ \A i \in 1..p - 1 : SubSeq(q, 1, p - 1)[i] = q[i]
  BY <1>1
<1>5. /\ SubSeq(q, p, Len(q)) \in Seq(Timer) /\ Len(SubSeq(q, p, Len(q))) = Len(q) - p + 1
      /\ \A i \in 1..Len(q) - p + 1 : SubSeq(q, p, Len(q))[i] = q[p + i - 1]
  BY <1>1
<1> DEFINE front == SubSeq(q, 1, p - 1)
           back == SubSeq(q, p, Len(q))
<1>6. /\ front \o <<t>> \in Seq(Timer) /\ Len(front \o <<t>>) = p
      /\ \A i \in 1..p - 1 : (front \o <<t>>)[i] = q[i]
      /\ (front \o <<t>>)[p] = t
  BY <1>1, <1>3, <1>4
<1> HIDE DEF front, back
<1>7. back \in Seq(Timer) /\ Len(back) = Len(q) - p + 1 /\ Len(q) \in Nat /\ r = (front \o <<t>>) \o back
  BY <1>2, <1>5 DEF front, back
<1>8. /\ r \in Seq(Timer) /\ Len(r) = Len(q) + 1
      /\ \A i \in 1..p : r[i] = (front \o <<t>>)[i]
      /\ \A i \in p + 1..Len(q) + 1 : r[i] = back[i - p]
  BY <1>1, <1>6, <1>7
<1>9. ASSUME NEW i \in 1..Len(q) + 1, p < i
      PROVE  r[i] = q[i - 1] /\ time < q[i - 1].time
  <2>1. i - p \in 1..Len(q) - p + 1 /\ p + (i - p) - 1 = i - 1 /\ i - 1 \in 1..Len(q) /\ ~ (i - 1 < p)
    BY <1>1, <1>7, <1>9
  <2>2. r[i] = back[i - p] /\ back[i - p] = q[p + (i - p) - 1]
    BY <1>5, <1>8, <1>9, <2>1 DEF back
  <2>3. q[i - 1].time \in Nat
    BY <2>1, TimerFields
  <2> QED BY <1>1, <2>1, <2>2, <2>3
<1>10. ASSUME NEW i \in 1..Len(q) + 1, i < p
       PROVE  r[i] = q[i] /\ q[i].time <= time
  <2>1. i \in 1..p - 1 /\ i \in 1..p /\ i \in 1..Len(q)
    BY <1>1, <1>7, <1>10
  <2>2. r[i] = (front \o <<t>>)[i]
    BY <1>8, <2>1
  <2> QED BY <1>1, <1>6, <1>10, <2>1, <2>2
<1> QED BY <1>1, <1>6, <1>8, <1>9, <1>10 DEF r, p, t

(* The timers without a client's own are in order, and none is that        *)
(* client's.                                                               *)
LEMMA OtherTimers ==
  ASSUME NEW q \in Seq(Timer), NEW client, InOrder(q), OnePerClient(q)
  PROVE  LET r == Cancel(q, client)
         IN  /\ r \in Seq(Timer) /\ Len(r) \in Nat /\ Len(r) <= Len(q)
             /\ InOrder(r) /\ OnePerClient(r)
             /\ \A k \in 1..Len(r) : r[k].client # client /\ \E l \in 1..Len(q) : r[k] = q[l]
<1> DEFINE r == Cancel(q, client)
           mine == {k \in 1..Len(q) : q[k].client = client}
<1>1. Len(q) \in Nat
  OBVIOUS
<1>2. CASE mine = {}
  <2>1. \A k \in 1..Len(q) : q[k].client # client
    BY <1>2
  <2>2. r = q
    BY <2>1, CancelNone
  <2> HIDE DEF r, mine
  <2> QED BY <1>1, <2>1, <2>2 DEF r
<1>3. CASE mine # {}
  <2> DEFINE p == Min(mine)
  <2>1. r = RemoveAt(q, p)
    BY <1>3 DEF Cancel, RemoveFirstMatch, SelectInSeq
  <2>2. p \in mine
    <3>1. mine \subseteq Nat
      OBVIOUS
    <3> HIDE DEF mine
    <3>2. \E m \in mine : \A k \in mine : m <= k
      BY <1>3, <3>1, Least
    <3> QED BY <3>2 DEF Min
  <2>3. p \in 1..Len(q) /\ q[p].client = client
    BY <2>2
  <2>4. r = SubSeq(q, 1, p - 1) \o SubSeq(q, p + 1, Len(q))
    BY <2>1 DEF RemoveAt
  <2> HIDE DEF r, mine, p
  <2> DEFINE old(k) == IF k < p THEN k ELSE k + 1
  <2>5. /\ r \in Seq(Timer) /\ Len(r) = Len(q) - 1
        /\ \A k \in 1..Len(r) : r[k] = q[old(k)]
    <3> DEFINE front == SubSeq(q, 1, p - 1)
               back == SubSeq(q, p + 1, Len(q))
    <3>1. /\ front \in Seq(Timer) /\ Len(front) = p - 1
          /\ \A k \in 1..p - 1 : front[k] = q[k]
      BY <1>1, <2>3
    <3>2. /\ back \in Seq(Timer) /\ Len(back) = Len(q) - p
          /\ \A k \in 1..Len(q) - p : back[k] = q[p + k]
      BY <1>1, <2>3
    <3> HIDE DEF front, back
    <3>3. /\ r \in Seq(Timer) /\ Len(r) = Len(q) - 1
          /\ \A k \in 1..Len(q) - 1 : r[k] = IF k < p THEN front[k] ELSE back[k - (p - 1)]
      <4>1. r = front \o back
        BY <2>4 DEF front, back
      <4> QED BY <1>1, <2>3, <3>1, <3>2, <4>1
    <3>4. ASSUME NEW k \in 1..Len(q) - 1
          PROVE  r[k] = q[old(k)]
      <4>1. CASE k < p
        <5>1. k \in 1..p - 1
          BY <2>3, <4>1
        <5> QED BY <3>1, <3>3, <4>1, <5>1
      <4>2. CASE ~ (k < p)
        <5>1. k - (p - 1) \in 1..Len(q) - p /\ p + (k - (p - 1)) = k + 1
          BY <1>1, <2>3, <4>2
        <5>2. back[k - (p - 1)] = q[p + (k - (p - 1))]
          BY <3>2, <5>1
        <5> QED BY <3>3, <4>2, <5>1, <5>2
      <4> QED BY <4>1, <4>2
    <3> QED BY <3>3, <3>4
  <2>6. \A k \in 1..Len(r) : old(k) \in 1..Len(q) /\ old(k) # p
    BY <1>1, <2>3, <2>5
  <2>7. \A k, l \in 1..Len(r) : (k < l => old(k) < old(l)) /\ (old(k) = old(l) => k = l)
    BY <1>1, <2>3, <2>5
  <2> HIDE DEF old
  <2>8. InOrder(r)
    BY <2>5, <2>6, <2>7 DEF InOrder
  <2>9. OnePerClient(r)
    BY <2>5, <2>6, <2>7 DEF OnePerClient
  <2>10. \A k \in 1..Len(r) : r[k].client # client /\ \E l \in 1..Len(q) : r[k] = q[l]
    BY <2>3, <2>5, <2>6 DEF OnePerClient
  <2>11. Len(r) \in Nat /\ Len(r) <= Len(q)
    BY <1>1, <2>3, <2>5
  <2> QED BY <2>5, <2>8, <2>9, <2>10, <2>11 DEF r
<1> QED BY <1>2, <1>3

----------------------------------------------------------------------------
(* Types and timers: what holds whatever the queue does.                   *)

(* Where a context can be.                                                 *)
TaskPlaces == {"timers", "select", "adding", "flush", "firing", "sending", "off",
               "stopped", "crashed"}

(* The types, whatever is received.                                        *)
Types ==
  /\ now \in Nat /\ rUdpC \in Nat /\ prvRcv \in Nat /\ prvIntervled \in Nat
  /\ queue \in Seq(Packet) /\ timerQ \in Seq(Timer)
  /\ qUsed \in 0..inQBufSize
  /\ listening \in BOOLEAN /\ command \in BOOLEAN
  /\ stop \in {"no", "quit", "error"}
  /\ task \in [Contexts -> TaskPlaces]
  /\ held \in [Contexts -> Packet \cup Garbage]
  /\ sent \in Seq(Packet \cup Garbage) /\ stat \in [DOMAIN NoneCounted -> Nat]
  /\ arrived \in 0..MaxPackets /\ signals \in 0..MaxSignals

(* A client is the count of bytes received when its timer was set.         *)
ClientsAreCounts == \A i \in 1..Len(timerQ) : timerQ[i].client <= rUdpC

TimersOrdered == TimersInOrder /\ ClientsAreCounts

(* readHandler has the packet that it queued.                              *)
HoldsQueued == task["main"] = "adding" => held["main"] \in Packet

Typed == Types /\ TimersOrdered /\ HoldsQueued

(* What the other invariants rest on: every packet has room in the queue,  *)
(* and a client of its own.                                                *)
Base == Types /\ TimersOrdered /\ HoldsQueued /\ RoomByBytes

(* The constants' types.                                                   *)
LEMMA Constants ==
  /\ inQBufSize \in Nat \ {0} /\ MaxQSize \in Nat /\ Sizes \subseteq Nat
  /\ speed \in Nat \ {0} /\ ether \in Nat /\ delay \in Nat
  /\ MaxPackets \in Nat /\ LastArrival \in Nat /\ MaxTime \in Nat /\ MaxSignals \in Nat
BY SizesAssumption, SpeedAssumption, BoundsAssumption

(* The fields of a packet, or of an item that was never set.               *)
LEMMA PacketFields ==
  ASSUME NEW p \in Packet \cup Garbage
  PROVE  p.id \in Nat /\ p.bytes \in Nat /\ p.at \in Nat
<1>1. Sizes \subseteq Nat /\ MaxPackets \in Nat /\ inQBufSize \in Nat
  BY Constants
<1>2. CASE p \in Packet
  <2>1. p.id \in 1..MaxPackets /\ p.bytes \in Sizes /\ p.at \in Nat
    BY <1>2 DEF Packet
  <2>2. p.bytes \in Nat
    BY <1>1, <2>1
  <2> QED BY <1>1, <2>1, <2>2
<1>3. CASE p \in Garbage
  <2>1. p.id \in {0} /\ p.bytes \in 0..inQBufSize + 1 /\ p.at \in {0}
    BY <1>3 DEF Garbage
  <2> QED BY <1>1, <2>1
<1> QED BY <1>2, <1>3

(* The absence of a packet looks like one that was never set.              *)
LEMMA NoPacketIsGarbage == NoPacket \in Garbage
BY Constants DEF NoPacket, Garbage

(* Under RoomByBytes no datagram is empty.                                 *)
LEMMA NoneIsEmpty ==
  ASSUME RoomByBytes, NEW b \in Sizes
  PROVE  b \in Nat \ {0}
<1>1. b \in Nat /\ inQBufSize \in Nat \ {0} /\ MaxQSize \in Nat /\ inQBufSize <= b * MaxQSize
  BY Constants DEF RoomByBytes
<1>2. b # 0
  <2>1. 0 * MaxQSize = 0
    BY <1>1
  <2> QED BY <1>1, <2>1
<1> QED BY <1>1, <1>2

(* The program starts with the types and the order that it keeps.          *)
LEMMA TypedInit == Init => Typed
<1> SUFFICES ASSUME Init PROVE Typed
  OBVIOUS
<1> USE Constants DEF Init
<1>1. Types
  <2>1. task \in [Contexts -> TaskPlaces]
    BY DEF Contexts, TaskPlaces
  <2>2. stat \in [DOMAIN NoneCounted -> Nat]
    BY DEF NoneCounted
  <2>3. 0 \in 0..inQBufSize /\ 0 \in 0..MaxPackets /\ 0 \in 0..MaxSignals
    OBVIOUS
  <2>4. held \in [Contexts -> Packet \cup Garbage]
    BY NoPacketIsGarbage
  <2>5. /\ now = 0 /\ queue = <<>> /\ timerQ = <<>> /\ qUsed = 0 /\ rUdpC = 0 /\ prvRcv = 0
        /\ prvIntervled = 0 /\ listening = TRUE /\ stop = "no" /\ command = FALSE
        /\ sent = <<>> /\ arrived = 0 /\ signals = 0
    OBVIOUS
  <2>6. <<>> \in Seq(Packet) /\ <<>> \in Seq(Timer) /\ <<>> \in Seq(Packet \cup Garbage)
    OBVIOUS
  <2> HIDE DEF Init
  <2> QED BY <2>1, <2>2, <2>3, <2>4, <2>5, <2>6 DEF Types
<1>2. TimersOrdered
  BY DEF TimersOrdered, TimersInOrder, InOrder, OnePerClient, ClientsAreCounts
<1>3. HoldsQueued
  BY DEF HoldsQueued
<1> QED BY <1>1, <1>2, <1>3 DEF Typed

(* Counting keeps the types of the statistics.                             *)
LEMMA CountTyped ==
  ASSUME NEW field \in DOMAIN NoneCounted, stat \in [DOMAIN NoneCounted -> Nat], Count(field)
  PROVE  stat' \in [DOMAIN NoneCounted -> Nat]
BY DEF Count

(* The steps that leave the timers alone.                                  *)
LEMMA TypedSameTimers ==
  ASSUME Typed, Types', timerQ' = timerQ, rUdpC' = rUdpC, HoldsQueued'
  PROVE  Typed'
BY DEF Typed, TimersOrdered, TimersInOrder, InOrder, OnePerClient, ClientsAreCounts

(* readHandler's steps up to addQueue.                                     *)
LEMMA TypedReadHandler ==
  ASSUME Typed, ReadHandler
  PROVE  Typed'
<1> USE Constants
<1>1. Types
  BY DEF Typed
<1>2. ASSUME ReceiveFails
      PROVE  Typed'
  <2>1. Types'
    BY <1>1, <1>2 DEF Types, ReceiveFails, Arrival, GoTo, TaskPlaces, Contexts
  <2>2. HoldsQueued'
    BY <1>1, <1>2 DEF Types, HoldsQueued, ReceiveFails, Arrival, GoTo, TaskPlaces, Contexts
  <2> QED BY <1>2, <2>1, <2>2, TypedSameTimers DEF ReceiveFails
<1>3. ASSUME NEW from \in Senders, Reject(from)
      PROVE  Typed'
  <2>1. stat' \in [DOMAIN NoneCounted -> Nat]
    BY <1>1, <1>3, CountTyped DEF Types, Reject, NoneCounted
  <2>2. Types'
    BY <1>1, <1>3, <2>1 DEF Types, Reject, Arrival, GoTo, TaskPlaces, LoopTop, Contexts
  <2>3. HoldsQueued'
    BY <1>1, <1>3 DEF Types, HoldsQueued, Reject, Arrival, GoTo, TaskPlaces, LoopTop, Contexts
  <2> QED BY <1>3, <2>2, <2>3, TypedSameTimers DEF Reject
<1>4. ASSUME NEW b \in Sizes, TooLarge(b)
      PROVE  Typed'
  <2>1. stat' \in [DOMAIN NoneCounted -> Nat]
    BY <1>1, <1>4, CountTyped DEF Types, TooLarge, NoneCounted
  <2>2. Types'
    BY <1>1, <1>4, <2>1 DEF Types, TooLarge, Accepted, Arrival, GoTo, TaskPlaces, LoopTop, Contexts
  <2>3. HoldsQueued'
    BY <1>1, <1>4 DEF Types, HoldsQueued, TooLarge, Accepted, Arrival, GoTo, TaskPlaces, LoopTop, Contexts
  <2> QED BY <1>4, <2>2, <2>3, TypedSameTimers DEF TooLarge
<1>5. ASSUME NEW b \in Sizes, DivideByZero(b)
      PROVE  Typed'
  <2>1. Types'
    BY <1>1, <1>5 DEF Types, DivideByZero, Accepted, Arrival, GoTo, TaskPlaces, Contexts
  <2>2. HoldsQueued'
    BY <1>1, <1>5 DEF Types, HoldsQueued, DivideByZero, Accepted, Arrival, GoTo, TaskPlaces, Contexts
  <2> QED BY <1>5, <2>1, <2>2, TypedSameTimers DEF DivideByZero
<1>6. ASSUME NEW b \in Sizes, Congestion(b)
      PROVE  Typed'
  <2>1. stat' \in [DOMAIN NoneCounted -> Nat]
    BY <1>1, <1>6, CountTyped DEF Types, Congestion, NoneCounted
  <2>2. Types'
    BY <1>1, <1>6, <2>1 DEF Types, Congestion, Accepted, Arrival, GoTo, TaskPlaces, LoopTop, Contexts
  <2>3. HoldsQueued'
    BY <1>1, <1>6 DEF Types, HoldsQueued, Congestion, Accepted, Arrival, GoTo, TaskPlaces, LoopTop, Contexts
  <2> QED BY <1>6, <2>2, <2>3, TypedSameTimers DEF Congestion
<1>7. ASSUME NEW b \in Sizes, Accept(b)
      PROVE  Typed'
  <2> DEFINE p == assembleItem(b)
  <2>1. p \in Packet
    BY <1>1, <1>7 DEF Types, Accept, Accepted, Arrival, assembleItem, Packet
  <2>2. queue' = addQueue(queue, p) /\ held' = [held EXCEPT !["main"] = p]
    BY <1>7 DEF Accept
  <2> HIDE DEF p
  <2>3. queue' \in Seq(Packet) /\ held' \in [Contexts -> Packet \cup Garbage] /\ held'["main"] = p
    BY <1>1, <2>1, <2>2 DEF Types, addQueue, Contexts
  <2>4. Types'
    BY <1>1, <1>7, <2>3 DEF Types, Accept, Accepted, Arrival, GoTo, TaskPlaces, HasRoom, Contexts
  <2>5. HoldsQueued'
    BY <2>1, <2>3 DEF HoldsQueued
  <2> QED BY <1>7, <2>4, <2>5, TypedSameTimers DEF Accept
<1> QED BY <1>2, <1>3, <1>4, <1>5, <1>6, <1>7 DEF ReadHandler

(* The timer that SetTimer sets, and those that are pending next to it.     *)
NewTime == Departure(held["main"].bytes, held["main"].at)
Others(client) == Cancel(timerQ, client)

(* readHandler's timer_set puts the new packet's timer in its place among  *)
(* those of other clients, and does nothing else.                          *)
LEMMA TimerPlaced ==
  ASSUME Typed, SetTimer
  PROVE  LET q == Others(rUdpC')
             place == Place(q, NewTime)
         IN  /\ NewTime \in Nat /\ rUdpC' \in Nat /\ rUdpC <= rUdpC' /\ prvIntervled' \in Nat
             /\ timerQ' \in Seq(Timer) /\ Len(timerQ') = Len(q) + 1 /\ Len(q) <= Len(timerQ)
             /\ Len(q) \in Nat /\ place \in 1..Len(timerQ')
             /\ timerQ'[place].client = rUdpC' /\ timerQ'[place].time = NewTime
             /\ q \in Seq(Timer) /\ InOrder(q) /\ OnePerClient(q)
             /\ \A i \in 1..Len(q) : q[i].client # rUdpC' /\ q[i].client <= rUdpC'
             /\ \A i \in 1..Len(timerQ') :
                  \/ i = place /\ timerQ'[i].client = rUdpC' /\ timerQ'[i].time = NewTime
                  \/ i < place /\ i \in 1..Len(q) /\ timerQ'[i] = q[i] /\ q[i].time <= NewTime
                  \/ i > place /\ i - 1 \in 1..Len(q) /\ timerQ'[i] = q[i - 1]
                     /\ NewTime < q[i - 1].time
<1> DEFINE p == held["main"]
           time == Departure(p.bytes, p.at)
           client == rUdpC'
           q == Cancel(timerQ, client)
           place == Place(q, time)
<1>1. Types /\ TimersOrdered /\ p \in Packet
  BY DEF Typed, HoldsQueued, SetTimer
<1>2. client = rUdpC + p.bytes /\ timerQ' = timer_set(timerQ, time, client)
  BY DEF SetTimer
<1>3. NextIntervled(p.bytes, p.at) = prvIntervled'
  BY DEF SetTimer
<1> HIDE DEF p, client
<1>4. p.bytes \in Nat /\ p.at \in Nat /\ prvIntervled \in Nat /\ rUdpC \in Nat
      /\ timerQ \in Seq(Timer)
  BY <1>1, PacketFields DEF Types
<1>5. time \in Nat
  BY <1>4, DepartureAfter
<1> HIDE DEF time
<1>6. client \in Nat /\ rUdpC <= client
  BY <1>2, <1>4
<1>7. /\ q \in Seq(Timer) /\ Len(q) \in Nat /\ Len(q) <= Len(timerQ)
      /\ InOrder(q) /\ OnePerClient(q)
      /\ \A k \in 1..Len(q) : q[k].client # client /\ \E l \in 1..Len(timerQ) : q[k] = timerQ[l]
  BY <1>1, <1>4, OtherTimers DEF TimersOrdered, TimersInOrder
<1>8. timer_set(timerQ, time, client) = timer_set(q, time, client)
  BY <1>7, CancelNone DEF timer_set
<1> HIDE DEF q
<1>9. \A k \in 1..Len(q) : q[k].client # client /\ q[k].client <= client
  <2> SUFFICES ASSUME NEW k \in 1..Len(q)
               PROVE  q[k].client <= client
    BY <1>7
  <2>1. PICK l \in 1..Len(timerQ) : q[k] = timerQ[l]
    BY <1>7
  <2>2. timerQ[l].client \in Nat /\ timerQ[l].client <= rUdpC
    BY <1>1, <1>4, TimerFields DEF TimersOrdered, ClientsAreCounts
  <2> QED BY <1>4, <1>6, <2>1, <2>2
<1>10. /\ timerQ' \in Seq(Timer) /\ Len(timerQ') = Len(q) + 1
       /\ place \in 1..Len(timerQ') /\ timerQ'[place] = [time |-> time, client |-> client]
       /\ \A i \in 1..Len(timerQ') : i < place => timerQ'[i] = q[i] /\ q[i].time <= time
       /\ \A i \in 1..Len(timerQ') : place < i => timerQ'[i] = q[i - 1] /\ time < q[i - 1].time
  <2>1. LET r == timer_set(q, time, client)
        IN  /\ r \in Seq(Timer) /\ Len(r) = Len(q) + 1
            /\ place \in 1..Len(r) /\ r[place] = [time |-> time, client |-> client]
            /\ \A i \in 1..Len(r) : i < place => r[i] = q[i] /\ q[i].time <= time
            /\ \A i \in 1..Len(r) : place < i => r[i] = q[i - 1] /\ time < q[i - 1].time
    BY <1>5, <1>6, <1>7, <1>9, TimerSet
  <2> HIDE DEF place
  <2> QED BY <1>2, <1>8, <2>1
<1> HIDE DEF place
<1>11. prvIntervled' \in Nat
  BY <1>3, <1>4, NextIntervledNat
<1>12. ASSUME NEW i \in 1..Len(timerQ')
       PROVE  \/ i = place /\ timerQ'[i].client = client /\ timerQ'[i].time = time
              \/ i < place /\ i \in 1..Len(q) /\ timerQ'[i] = q[i] /\ q[i].time <= time
              \/ i > place /\ i - 1 \in 1..Len(q) /\ timerQ'[i] = q[i - 1]
                 /\ time < q[i - 1].time
  <2>1. i \in Nat /\ 1 <= i /\ i <= Len(q) + 1 /\ place \in Nat /\ 1 <= place /\ place <= Len(q) + 1
    BY <1>7, <1>10
  <2>2. CASE i = place
    BY <1>10, <2>2
  <2>3. CASE i < place
    BY <1>7, <1>10, <2>1, <2>3
  <2>4. CASE i > place
    BY <1>7, <1>10, <2>1, <2>4
  <2> QED BY <2>1, <2>2, <2>3, <2>4
<1>13. timerQ'[place].client = client /\ timerQ'[place].time = time
  BY <1>10
<1>14. NewTime = time /\ q = Others(rUdpC') /\ place = Place(q, NewTime) /\ client = rUdpC'
  BY DEF NewTime, Others, time, p, place, q, client
<1> QED BY <1>5, <1>6, <1>7, <1>9, <1>10, <1>11, <1>12, <1>13, <1>14

(* A new timer keeps the queue of timers in order.                         *)
LEMMA TypedSetTimer ==
  ASSUME Typed, SetTimer
  PROVE  Typed'
<1> DEFINE time == NewTime
           q == Others(rUdpC')
           place == Place(q, time)
<1>1. Types /\ TimersOrdered
  BY DEF Typed
<1>2. /\ time \in Nat /\ rUdpC' \in Nat /\ rUdpC <= rUdpC' /\ prvIntervled' \in Nat
      /\ timerQ' \in Seq(Timer) /\ Len(timerQ') = Len(q) + 1
      /\ Len(q) \in Nat /\ place \in 1..Len(timerQ')
      /\ timerQ'[place].client = rUdpC' /\ timerQ'[place].time = time
  BY TimerPlaced
<1>3. \A i \in 1..Len(timerQ') :
        \/ i = place /\ timerQ'[i].client = rUdpC' /\ timerQ'[i].time = time
        \/ i < place /\ i \in 1..Len(q) /\ timerQ'[i] = q[i]
           /\ q[i].time <= time
        \/ i > place /\ i - 1 \in 1..Len(q) /\ timerQ'[i] = q[i - 1]
           /\ time < q[i - 1].time
  BY TimerPlaced
<1>4. InOrder(q) /\ OnePerClient(q) /\ q \in Seq(Timer)
      /\ \A i \in 1..Len(q) : q[i].client # rUdpC' /\ q[i].client <= rUdpC'
  BY TimerPlaced
<1> HIDE DEF time, place, q
<1>5. \A i \in 1..Len(q) : q[i].client \in Nat /\ q[i].time \in Nat
  BY <1>4, TimerFields
<1>6. Types'
  <2>1. stat' \in [DOMAIN NoneCounted -> Nat]
    BY <1>1, CountTyped DEF Types, SetTimer, NoneCounted
  <2> QED BY <1>1, <1>2, <2>1, NoPacketIsGarbage
        DEF Types, SetTimer, GoTo, TaskPlaces, LoopTop, Contexts
<1>7. InOrder(timerQ)'
  <2> SUFFICES ASSUME NEW i \in 1..Len(timerQ'), NEW j \in 1..Len(timerQ'), i < j
               PROVE  timerQ'[i].time <= timerQ'[j].time
    BY DEF InOrder
  <2>1. \A k, l \in 1..Len(q) : k < l => q[k].time <= q[l].time
    BY <1>4 DEF InOrder
  <2>2. i \in Int /\ j \in Int /\ place \in Int
    BY <1>2
  <2>3. \A k \in 1..Len(q) : q[k].time \in Nat
    BY <1>5
  <2>7. time \in Nat
    BY <1>2
  <2>4. CASE i < place /\ j < place
    BY <1>3, <2>1, <2>2, <2>4
  <2>5. CASE i > place /\ j > place
    <3>1. i - 1 \in 1..Len(q) /\ j - 1 \in 1..Len(q) /\ i - 1 < j - 1
      BY <1>3, <2>2, <2>5
    <3>2. timerQ'[i] = q[i - 1] /\ timerQ'[j] = q[j - 1]
      BY <1>3, <2>2, <2>5
    <3> QED BY <2>1, <3>1, <3>2
  <2>6. CASE i <= place /\ place <= j
    <3>1. timerQ'[i].time <= time /\ timerQ'[i].time \in Nat
      BY <1>3, <2>2, <2>3, <2>6, <2>7
    <3>2. time <= timerQ'[j].time /\ timerQ'[j].time \in Nat
      BY <1>3, <2>2, <2>3, <2>6, <2>7
    <3> QED BY <2>7, <3>1, <3>2
  <2> QED BY <2>2, <2>4, <2>5, <2>6
<1>8. OnePerClient(timerQ)'
  <2> SUFFICES ASSUME NEW i \in 1..Len(timerQ'), NEW j \in 1..Len(timerQ'),
                      timerQ'[i].client = timerQ'[j].client
               PROVE  i = j
    BY DEF OnePerClient
  <2>1. \A k, l \in 1..Len(q) : q[k].client = q[l].client => k = l
    BY <1>4 DEF OnePerClient
  <2>2. i \in Int /\ j \in Int /\ place \in Int
    BY <1>2
  <2>3. CASE i = place \/ j = place
    <3>1. ASSUME NEW k \in 1..Len(timerQ'), k # place
          PROVE  timerQ'[k].client # rUdpC'
      <4>1. PICK m \in 1..Len(q) : timerQ'[k] = q[m]
        BY <1>3, <2>2, <3>1
      <4> QED BY <1>4, <4>1
    <3>2. timerQ'[place].client = rUdpC' /\ place \in 1..Len(timerQ')
      BY <1>2
    <3> QED BY <2>2, <2>3, <3>1, <3>2
  <2>4. CASE i < place /\ j < place
    BY <1>3, <2>1, <2>2, <2>4
  <2>5. CASE i > place /\ j > place
    <3>1. i - 1 \in 1..Len(q) /\ timerQ'[i] = q[i - 1]
      BY <1>3, <2>2, <2>5
    <3>2. j - 1 \in 1..Len(q) /\ timerQ'[j] = q[j - 1]
      BY <1>3, <2>2, <2>5
    <3>3. i - 1 = j - 1
      BY <2>1, <3>1, <3>2
    <3> QED BY <2>2, <3>3
  <2>6. CASE i < place /\ j > place
    <3>1. i \in 1..Len(q) /\ timerQ'[i] = q[i]
      BY <1>3, <2>2, <2>6
    <3>2. j - 1 \in 1..Len(q) /\ timerQ'[j] = q[j - 1]
      BY <1>3, <2>2, <2>6
    <3>3. i = j - 1
      BY <2>1, <3>1, <3>2
    <3> QED BY <2>2, <2>6, <3>3
  <2>7. CASE i > place /\ j < place
    <3>1. i - 1 \in 1..Len(q) /\ timerQ'[i] = q[i - 1]
      BY <1>3, <2>2, <2>7
    <3>2. j \in 1..Len(q) /\ timerQ'[j] = q[j]
      BY <1>3, <2>2, <2>7
    <3>3. i - 1 = j
      BY <2>1, <3>1, <3>2
    <3> QED BY <2>2, <2>7, <3>3
  <2> QED BY <2>2, <2>3, <2>4, <2>5, <2>6, <2>7
<1>9. ClientsAreCounts'
  <2> SUFFICES ASSUME NEW i \in 1..Len(timerQ')
               PROVE  timerQ'[i].client <= rUdpC'
    BY DEF ClientsAreCounts
  <2>1. rUdpC' <= rUdpC'
    BY <1>2
  <2> QED BY <1>3, <1>4, <2>1
<1>10. HoldsQueued'
  BY <1>1 DEF HoldsQueued, SetTimer, GoTo, TaskPlaces, LoopTop, Types, Contexts
<1> QED BY <1>6, <1>7, <1>8, <1>9, <1>10 DEF Typed, TimersOrdered, TimersInOrder

(* The head of the timers leaves.                                          *)
LEMMA TypedFireTimer ==
  ASSUME Typed, NEW c \in Contexts, FireTimer(c)
  PROVE  Typed'
<1>1. Types /\ TimersOrdered /\ HoldsQueued
  BY DEF Typed
<1>2. timerQ # <<>> /\ timerQ' = Tail(timerQ) /\ rUdpC' = rUdpC /\ timerQ \in Seq(Timer)
  BY <1>1 DEF FireTimer, Expired, Types
<1>3. /\ timerQ' \in Seq(Timer) /\ Len(timerQ') = Len(timerQ) - 1 /\ Len(timerQ) \in Nat
      /\ \A i \in 1..Len(timerQ') : timerQ'[i] = timerQ[i + 1] /\ i + 1 \in 1..Len(timerQ)
  BY <1>2
<1>4. Types'
  BY <1>1, <1>3 DEF Types, FireTimer, GoTo, TaskPlaces, Contexts
<1>5. TimersOrdered'
  BY <1>1, <1>2, <1>3 DEF TimersOrdered, TimersInOrder, InOrder, OnePerClient, ClientsAreCounts
<1>6. HoldsQueued'
  BY <1>1 DEF HoldsQueued, FireTimer, GoTo, TaskPlaces, Types, Contexts
<1> QED BY <1>4, <1>5, <1>6 DEF Typed

(* sendHandler.                                                            *)
LEMMA TypedSendHandler ==
  ASSUME Typed, NEW c \in Contexts,
         GetPacket(c) \/ FollowNoItem(c) \/ LosePacket(c) \/ SendPacket(c) \/ SendFails(c)
  PROVE  Typed'
<1> USE Constants
<1>1. Types /\ HoldsQueued
  BY DEF Typed
<1>2. CASE GetPacket(c)
  <2>1. queue # <<>> => Head(queue) \in Packet /\ Tail(queue) \in Seq(Packet)
    BY <1>1 DEF Types
  <2>2. Items \subseteq Packet \cup Garbage
    BY <2>1 DEF Items
  <2>3. held' \in [Contexts -> Packet \cup Garbage] /\ queue' \in Seq(Packet)
    BY <1>1, <1>2, <2>1, <2>2 DEF Types, GetPacket
  <2>4. Types'
    BY <1>1, <1>2, <2>3 DEF Types, GetPacket, GoTo, TaskPlaces, Contexts
  <2>5. HoldsQueued'
    BY <1>1, <1>2 DEF HoldsQueued, GetPacket, GoTo, TaskPlaces, Types, Contexts
  <2> QED BY <1>2, <2>4, <2>5, TypedSameTimers DEF GetPacket
<1>3. ASSUME SendHandlerReturns(c), queue' \in Seq(Packet), qUsed' \in 0..inQBufSize,
             sent' \in Seq(Packet \cup Garbage),
             stop' \in {"no", "quit", "error"}, stat' \in [DOMAIN NoneCounted -> Nat]
      PROVE  Typed'
  <2>1. Types'
    BY <1>1, <1>3, NoPacketIsGarbage
       DEF Types, SendHandlerReturns, GoTo, TaskPlaces, Caller, Contexts
  <2>2. HoldsQueued'
    BY <1>1, <1>3 DEF HoldsQueued, SendHandlerReturns, GoTo, TaskPlaces, Caller, Types, Contexts
  <2> QED BY <1>3, <2>1, <2>2, TypedSameTimers DEF SendHandlerReturns
<1>4. ASSUME Release(held[c].bytes)
      PROVE  qUsed' \in 0..inQBufSize /\ stop' \in {"no", "quit", "error"}
  <2>1. held[c].bytes \in Nat
    BY <1>1, PacketFields DEF Types
  <2> QED BY <1>1, <1>4, <2>1 DEF Types, Release
<1>5. ASSUME queue' \in OutOfOrder(queue)
      PROVE  queue' \in Seq(Packet)
  <2>1. Len(queue) >= 2 => Head(queue) \in Packet /\ Tail(queue) \in Seq(Packet)
    BY <1>1 DEF Types
  <2>2. Len(queue) >= 2 => Append(Tail(queue), Head(queue)) \in Seq(Packet)
    BY <2>1
  <2> QED BY <1>1, <1>5, <2>2 DEF Types, OutOfOrder
<1>6. CASE LosePacket(c)
  <2>1. stat' \in [DOMAIN NoneCounted -> Nat]
    BY <1>1, <1>6, CountTyped DEF Types, LosePacket, NoneCounted
  <2> QED BY <1>1, <1>3, <1>4, <1>6, <2>1 DEF LosePacket, Types
<1>7. CASE SendPacket(c)
  <2>1. stat' \in [DOMAIN NoneCounted -> Nat]
    BY <1>1, <1>7, CountTyped DEF Types, SendPacket, NoneCounted
  <2>2. sent' \in Seq(Packet \cup Garbage)
    BY <1>1, <1>7 DEF Types, SendPacket
  <2> QED BY <1>3, <1>4, <1>5, <1>7, <2>1, <2>2 DEF SendPacket
<1>8. CASE SendFails(c)
  BY <1>1, <1>3, <1>5, <1>8 DEF SendFails, Types
<1>9. CASE FollowNoItem(c)
  <2>1. Types' /\ HoldsQueued'
    BY <1>1, <1>9 DEF Types, HoldsQueued, FollowNoItem, TaskPlaces, Contexts
  <2> QED BY <1>9, <2>1, TypedSameTimers DEF FollowNoItem
<1> QED BY <1>2, <1>6, <1>7, <1>8, <1>9

(* The loop, the two ways to stop, and time.                               *)
LEMMA TypedLoop ==
  ASSUME Typed,
         \/ Tick \/ EnterSelect \/ SelectReturns \/ StopCommand \/ Interrupt
         \/ \E c \in Contexts : FlushDone(c)
  PROVE  Typed'
<1> USE Constants
<1>1. Types /\ HoldsQueued
  BY DEF Typed
<1>2. CASE Tick
  <2>1. Types' /\ HoldsQueued'
    BY <1>1, <1>2 DEF Types, HoldsQueued, Tick
  <2> QED BY <1>2, <2>1, TypedSameTimers DEF Tick
<1>3. CASE EnterSelect
  <2>1. Types' /\ HoldsQueued'
    BY <1>1, <1>3 DEF Types, HoldsQueued, EnterSelect, GoTo, TaskPlaces, Contexts
  <2> QED BY <1>3, <2>1, TypedSameTimers DEF EnterSelect
<1>4. CASE SelectReturns
  <2>1. Types' /\ HoldsQueued'
    BY <1>1, <1>4 DEF Types, HoldsQueued, SelectReturns, GoTo, TaskPlaces, LoopTop, Contexts
  <2> QED BY <1>4, <2>1, TypedSameTimers DEF SelectReturns
<1>5. CASE StopCommand
  <2>1. Types' /\ HoldsQueued'
    BY <1>1, <1>5 DEF Types, HoldsQueued, StopCommand, GoTo, TaskPlaces, Contexts
  <2> QED BY <1>5, <2>1, TypedSameTimers DEF StopCommand
<1>6. CASE Interrupt
  <2>1. Types' /\ HoldsQueued'
    <3>1. signals' \in 0..MaxSignals
      BY <1>1, <1>6 DEF Types, Interrupt
    <3>2. task' \in [Contexts -> TaskPlaces]
      BY <1>1, <1>6 DEF Types, Interrupt, GoTo, TaskPlaces, Contexts
    <3>3. HoldsQueued'
      BY <1>1, <1>6 DEF Types, HoldsQueued, Interrupt, GoTo, Contexts
    <3> QED BY <1>1, <1>6, <3>1, <3>2, <3>3 DEF Types, Interrupt
  <2> QED BY <1>6, <2>1, TypedSameTimers DEF Interrupt
<1>7. ASSUME NEW c \in Contexts, FlushDone(c)
      PROVE  Typed'
  <2>1. command' \in BOOLEAN
    BY <1>7 DEF FlushDone
  <2>2. Types' /\ HoldsQueued'
    BY <1>1, <1>7, <2>1 DEF Types, HoldsQueued, FlushDone, GoTo, TaskPlaces, Contexts
  <2> QED BY <1>7, <2>2, TypedSameTimers DEF FlushDone
<1> QED BY <1>2, <1>3, <1>4, <1>5, <1>6, <1>7

(* Every step keeps the types, and the timers in order.                    *)
LEMMA TypedNext == Typed /\ [Next]_vars => Typed'
<1> SUFFICES ASSUME Typed, [Next]_vars PROVE Typed'
  OBVIOUS
<1>1. CASE UNCHANGED vars
  BY <1>1 DEF vars, Typed, Types, TimersOrdered, TimersInOrder, InOrder, OnePerClient, ClientsAreCounts, HoldsQueued
<1> QED BY <1>1, TypedReadHandler, TypedSetTimer, TypedFireTimer, TypedSendHandler, TypedLoop
       DEF Next, LoopStep, Step

(* Types, and timers in order, whatever is received.                       *)
LEMMA TypedAlways == Spec => []Typed
<1>1. Init => Typed
  BY TypedInit
<1>2. Typed /\ [Next]_vars => Typed'
  BY TypedNext
<1> QED BY <1>1, <1>2, PTL DEF Spec

(* Every variable has its type in every reachable state, and the buffer    *)
(* never holds more than -q allows, whatever is received.                  *)
THEOREM TypeCorrectness == Spec => []TypeOK
<1>1. Typed => TypeOK
  BY DEF Typed, Types, TaskPlaces, TypeOK
<1> QED BY <1>1, TypedAlways, PTL

(* The timers are in order, and each client has one at most, also when     *)
(* datagrams share a client.                                               *)
THEOREM TimersInOrderCorrect == Spec => []TimersInOrder
<1>1. Typed => TimersInOrder
  BY DEF Typed, TimersOrdered
<1> QED BY <1>1, TypedAlways, PTL

(* Is a context in sendHandler?                                            *)
Handling(c) == IF task[c] \in {"firing", "sending"} THEN 1 ELSE 0

(* SentWereReceived in numbers that are easier to follow.                  *)
SentOnce ==
  stat.sPacket + stat.randomLoss + Len(timerQ) + Handling("main") + Handling("signal") <= stat.rPacket

(* The two ways to say it are one.                                         *)
LEMMA SentOnceIs ==
  ASSUME Typed
  PROVE  SentOnce <=> SentWereReceived
<1>1. /\ Cardinality(In("firing")) = At("main", "firing") + At("signal", "firing")
      /\ Cardinality(In("sending")) = At("main", "sending") + At("signal", "sending")
  BY CountIn
<1>2. \A c \in Contexts : /\ Handling(c) = At(c, "firing") + At(c, "sending")
                          /\ At(c, "firing") \in Nat /\ At(c, "sending") \in Nat
  BY DEF Handling, At
<1>3. /\ stat.sPacket \in Nat /\ stat.randomLoss \in Nat /\ stat.rPacket \in Nat
      /\ Len(timerQ) \in Nat
  BY DEF Typed, Types, NoneCounted
<1> QED BY <1>1, <1>2, <1>3 DEF SentOnce, SentWereReceived, Contexts

(* The steps that set no timer and take none, and count no packet of       *)
(* these.                                                                  *)
LEMMA SentOnceStill ==
  ASSUME Typed, SentOnce, timerQ' = timerQ,
         stat'.sPacket = stat.sPacket, stat'.randomLoss = stat.randomLoss,
         stat'.rPacket = stat.rPacket,
         \A c \in Contexts : task'[c] \in {"firing", "sending"} => task[c] \in {"firing", "sending"}
  PROVE  SentOnce'
<1>1. /\ stat.sPacket \in Nat /\ stat.randomLoss \in Nat /\ stat.rPacket \in Nat
      /\ Len(timerQ) \in Nat
  BY DEF Typed, Types, NoneCounted
<1>2. \A c \in Contexts : Handling(c) \in Nat /\ Handling(c)' \in Nat /\ Handling(c)' <= Handling(c)
  BY DEF Handling
<1> QED BY <1>1, <1>2 DEF SentOnce, Contexts

(* Each received datagram sets at most one timer more, a timer calls       *)
(* sendHandler once, and that counts one packet at most.                   *)
LEMMA SentOnceNext == Typed /\ SentOnce /\ [Next]_vars => SentOnce'
<1> SUFFICES ASSUME Typed, SentOnce, [Next]_vars
             PROVE  SentOnce'
  OBVIOUS
<1>1. /\ stat.sPacket \in Nat /\ stat.randomLoss \in Nat /\ stat.rPacket \in Nat
      /\ stat \in [DOMAIN NoneCounted -> Nat]
      /\ timerQ \in Seq(Timer) /\ Len(timerQ) \in Nat
      /\ task \in [Contexts -> TaskPlaces] /\ Contexts = {"main", "signal"}
  BY DEF Typed, Types, NoneCounted, Contexts
<1>2. CASE UNCHANGED vars
  BY <1>2, SentOnceStill DEF vars
<1>3. CASE Tick \/ EnterSelect \/ SelectReturns \/ StopCommand \/ Interrupt
  <2>1. timerQ' = timerQ /\ stat' = stat
    BY <1>3 DEF Tick, EnterSelect, SelectReturns, StopCommand, Interrupt
  <2>2. \A c \in Contexts : task'[c] \in {"firing", "sending"} => task[c] \in {"firing", "sending"}
    BY <1>1, <1>3 DEF Tick, EnterSelect, SelectReturns, StopCommand, Interrupt, GoTo, LoopTop
  <2> QED BY <2>1, <2>2, SentOnceStill
<1>4. CASE ReadHandler
  <2>1. ASSUME NEW place \in {"stopped", "crashed", "timers", "adding"}, GoTo("main", place),
               timerQ' = timerQ,
               stat' = stat \/ Count("rejPack") \/ Count("congPack")
        PROVE  SentOnce'
    <3>1. /\ stat'.sPacket = stat.sPacket /\ stat'.randomLoss = stat.randomLoss
          /\ stat'.rPacket = stat.rPacket
      BY <1>1, <2>1 DEF Count, NoneCounted
    <3>2. \A c \in Contexts : task'[c] \in {"firing", "sending"} => task[c] \in {"firing", "sending"}
      BY <1>1, <2>1 DEF GoTo
    <3> QED BY <2>1, <3>1, <3>2, SentOnceStill
  <2>2. CASE ReceiveFails
    BY <2>1, <2>2 DEF ReceiveFails, Arrival
  <2>3. ASSUME NEW from \in Senders, Reject(from)
        PROVE  SentOnce'
    BY <2>1, <2>3 DEF Reject, Arrival, LoopTop
  <2>4. ASSUME NEW b \in Sizes, TooLarge(b)
        PROVE  SentOnce'
    BY <2>1, <2>4 DEF TooLarge, Accepted, Arrival, LoopTop
  <2>5. ASSUME NEW b \in Sizes, DivideByZero(b)
        PROVE  SentOnce'
    BY <2>1, <2>5 DEF DivideByZero, Accepted, Arrival
  <2>6. ASSUME NEW b \in Sizes, Congestion(b)
        PROVE  SentOnce'
    BY <2>1, <2>6 DEF Congestion, Accepted, Arrival, LoopTop
  <2>7. ASSUME NEW b \in Sizes, Accept(b)
        PROVE  SentOnce'
    BY <2>1, <2>7 DEF Accept, Accepted, Arrival
  <2> QED BY <1>4, <2>2, <2>3, <2>4, <2>5, <2>6, <2>7 DEF ReadHandler
<1>5. CASE SetTimer
  <2>1. Len(timerQ') \in Nat /\ Len(timerQ') <= Len(timerQ) + 1
    <3> DEFINE n == Len(Others(rUdpC'))
    <3>1. n \in Nat /\ n <= Len(timerQ) /\ Len(timerQ') = n + 1
      BY <1>5, TimerPlaced
    <3> HIDE DEF n
    <3> QED BY <1>1, <3>1
  <2>2. task["main"] = "adding" /\ task["signal"] = "off" /\ GoTo("main", LoopTop) /\ Count("rPacket")
    BY <1>5 DEF SetTimer, Runs
  <2>3. /\ stat'.sPacket = stat.sPacket /\ stat'.randomLoss = stat.randomLoss
        /\ stat'.rPacket = stat.rPacket + 1
    BY <1>1, <2>2 DEF Count, NoneCounted
  <2>4. /\ Handling("main") = 0 /\ Handling("main")' = 0
        /\ Handling("signal") = 0 /\ Handling("signal")' = 0
    BY <1>1, <2>2 DEF Handling, GoTo, LoopTop
  <2> QED BY <1>1, <2>1, <2>3, <2>4 DEF SentOnce
<1>6. ASSUME NEW c \in Contexts, FireTimer(c)
      PROVE  SentOnce'
  <2>1. /\ task[c] \in {"timers", "flush"} /\ GoTo(c, "firing") /\ stat' = stat
        /\ timerQ # <<>> /\ timerQ' = Tail(timerQ)
    BY <1>6 DEF FireTimer, Caller, Expired
  <2>2. Len(timerQ') = Len(timerQ) - 1
    BY <1>1, <2>1
  <2>3. /\ Handling(c) = 0 /\ Handling(c)' = 1
        /\ \A d \in Contexts : Handling(d) \in Nat /\ (d # c => Handling(d)' = Handling(d))
    BY <1>1, <2>1 DEF Handling, GoTo
  <2> QED BY <1>1, <2>1, <2>2, <2>3 DEF SentOnce
<1>7. ASSUME NEW c \in Contexts, GetPacket(c) \/ FollowNoItem(c) \/ FlushDone(c)
      PROVE  SentOnce'
  <2>1. timerQ' = timerQ /\ stat' = stat
    BY <1>7 DEF GetPacket, FollowNoItem, FlushDone
  <2>2. \A d \in Contexts : task'[d] \in {"firing", "sending"} => task[d] \in {"firing", "sending"}
    BY <1>1, <1>7 DEF GetPacket, FollowNoItem, FlushDone, GoTo
  <2> QED BY <2>1, <2>2, SentOnceStill
<1>8. ASSUME NEW c \in Contexts, LosePacket(c) \/ SendPacket(c) \/ SendFails(c)
      PROVE  SentOnce'
  <2>1. /\ task[c] = "sending" /\ GoTo(c, Caller(c)) /\ Caller(c) \in {"flush", "timers"}
        /\ timerQ' = timerQ
        /\ stat' = stat \/ Count("randomLoss") \/ Count("sPacket")
    BY <1>8 DEF LosePacket, SendPacket, SendFails, SendHandlerReturns, Caller
  <2>2. /\ stat'.rPacket = stat.rPacket
        /\ \/ stat'.sPacket = stat.sPacket /\ stat'.randomLoss = stat.randomLoss
           \/ stat'.sPacket = stat.sPacket + 1 /\ stat'.randomLoss = stat.randomLoss
           \/ stat'.sPacket = stat.sPacket /\ stat'.randomLoss = stat.randomLoss + 1
    BY <1>1, <2>1 DEF Count, NoneCounted
  <2>3. /\ Handling(c) = 1 /\ Handling(c)' = 0
        /\ \A d \in Contexts : Handling(d) \in Nat /\ (d # c => Handling(d)' = Handling(d))
    <3>1. task'[c] \in {"flush", "timers"} /\ \A d \in Contexts : d # c => task'[d] = task[d]
      BY <1>1, <2>1 DEF GoTo
    <3> QED BY <2>1, <3>1 DEF Handling
  <2>4. Len(timerQ') = Len(timerQ)
    BY <2>1
  <2>5. /\ Handling("main") \in Nat /\ Handling("signal") \in Nat
        /\ Handling("main")' \in Nat /\ Handling("signal")' \in Nat
        /\ Handling("main")' + Handling("signal")' = (Handling("main") + Handling("signal")) - 1
    <3>1. CASE c = "main"
      BY <1>1, <2>3, <3>1
    <3>2. CASE c = "signal"
      BY <1>1, <2>3, <3>2
    <3> QED BY <1>1, <3>1, <3>2
  <2>6. /\ stat'.sPacket \in Nat /\ stat'.randomLoss \in Nat
        /\ stat'.sPacket + stat'.randomLoss <= (stat.sPacket + stat.randomLoss) + 1
    BY <1>1, <2>2
  <2> DEFINE hm == Handling("main")    hm1 == Handling("main")'
             hs == Handling("signal")  hs1 == Handling("signal")'
  <2>7. /\ stat.sPacket + stat.randomLoss + Len(timerQ) + hm + hs <= stat.rPacket
        /\ hm \in Nat /\ hs \in Nat /\ hm1 \in Nat /\ hs1 \in Nat /\ hm1 + hs1 = (hm + hs) - 1
    BY <2>5 DEF SentOnce
  <2> HIDE DEF hm, hm1, hs, hs1
  <2>8. stat'.sPacket + stat'.randomLoss + Len(timerQ') + hm1 + hs1 <= stat'.rPacket
    <3> DEFINE a == stat.sPacket   b == stat.randomLoss   n == Len(timerQ)   x == stat.rPacket
               a1 == stat'.sPacket b1 == stat'.randomLoss n1 == Len(timerQ') x1 == stat'.rPacket
    <3>1. a \in Nat /\ b \in Nat /\ n \in Nat /\ x \in Nat /\ a1 \in Nat /\ b1 \in Nat
      BY <1>1, <2>6
    <3>2. n1 = n /\ x1 = x /\ a1 + b1 <= (a + b) + 1
      BY <2>2, <2>4, <2>6
    <3>3. a + b + n + hm + hs <= x
      BY <2>7
    <3> HIDE DEF a, b, n, x, a1, b1, n1, x1
    <3>4. a1 + b1 + n1 + hm1 + hs1 <= x1
      BY <2>7, <3>1, <3>2, <3>3
    <3> QED BY <3>4 DEF a1, b1, n1, x1
  <2> QED BY <2>8 DEF SentOnce, hm1, hs1
<1> QED BY <1>2, <1>3, <1>4, <1>5, <1>6, <1>7, <1>8 DEF Next, LoopStep, Step

(* Whatever is received, no more leaves than came.                         *)
THEOREM SentWereReceivedCorrect == Spec => []SentWereReceived
<1>1. Init => SentOnce
  BY DEF Init, SentOnce, Handling, NoneCounted
<1>2. Typed /\ SentOnce /\ [Next]_vars => SentOnce'
  BY SentOnceNext
<1>3. Typed /\ SentOnce => SentWereReceived
  BY SentOnceIs
<1> QED BY <1>1, <1>2, <1>3, TypedAlways, PTL DEF Spec

(* With room for every packet, the same.                                   *)
LEMMA BaseInit == RoomByBytes /\ Init => Base
BY TypedInit DEF Typed, Base

LEMMA BaseNext == Base /\ [Next]_vars => Base'
<1> SUFFICES ASSUME Base, [Next]_vars PROVE Base'
  OBVIOUS
<1>1. Typed'
  BY TypedNext DEF Base, Typed
<1>2. RoomByBytes'
  BY DEF Base, RoomByBytes
<1> QED BY <1>1, <1>2 DEF Base, Typed

(* With room for every packet, a new timer's client is new.                *)
LEMMA TimerAdded ==
  ASSUME Base, SetTimer
  PROVE  LET place == Place(timerQ, NewTime)
         IN  /\ NewTime \in Nat /\ rUdpC' \in Nat /\ rUdpC < rUdpC' /\ prvIntervled' \in Nat
             /\ timerQ' \in Seq(Timer) /\ Len(timerQ') = Len(timerQ) + 1
             /\ Len(timerQ) \in Nat /\ place \in 1..Len(timerQ')
             /\ timerQ'[place].client = rUdpC' /\ timerQ'[place].time = NewTime
             /\ \A i \in 1..Len(timerQ') :
                  \/ i = place /\ timerQ'[i].client = rUdpC' /\ timerQ'[i].time = NewTime
                  \/ i < place /\ i \in 1..Len(timerQ) /\ timerQ'[i] = timerQ[i]
                     /\ timerQ[i].time <= NewTime
                  \/ i > place /\ i - 1 \in 1..Len(timerQ) /\ timerQ'[i] = timerQ[i - 1]
                     /\ NewTime < timerQ[i - 1].time
<1>1. Typed
  BY DEF Base, Typed
<1>2. rUdpC \in Nat /\ rUdpC' \in Nat /\ rUdpC < rUdpC'
  <2>1. held["main"] \in Packet
    BY DEF Base, HoldsQueued, SetTimer
  <2>2. held["main"].bytes \in Nat \ {0}
    BY <2>1, NoneIsEmpty DEF Base, Packet
  <2>3. rUdpC' = rUdpC + held["main"].bytes /\ rUdpC \in Nat
    BY DEF SetTimer, Base, Types
  <2> QED BY <2>2, <2>3
<1>3. \A i \in 1..Len(timerQ) : timerQ[i].client # rUdpC'
  <2>1. timerQ \in Seq(Timer) /\ \A i \in 1..Len(timerQ) : timerQ[i].client <= rUdpC
    BY DEF Base, Types, TimersOrdered, ClientsAreCounts
  <2>2. \A i \in 1..Len(timerQ) : timerQ[i].client \in Nat
    BY <2>1, TimerFields
  <2> QED BY <1>2, <2>1, <2>2
<1>4. Others(rUdpC') = timerQ
  BY <1>3, CancelNone DEF Others
<1>5. LET q == Others(rUdpC')
          place == Place(q, NewTime)
      IN  /\ NewTime \in Nat /\ prvIntervled' \in Nat
          /\ timerQ' \in Seq(Timer) /\ Len(timerQ') = Len(q) + 1
          /\ Len(q) \in Nat /\ place \in 1..Len(timerQ')
          /\ timerQ'[place].client = rUdpC' /\ timerQ'[place].time = NewTime
          /\ \A i \in 1..Len(timerQ') :
                  \/ i = place /\ timerQ'[i].client = rUdpC' /\ timerQ'[i].time = NewTime
                  \/ i < place /\ i \in 1..Len(q) /\ timerQ'[i] = q[i] /\ q[i].time <= NewTime
                  \/ i > place /\ i - 1 \in 1..Len(q) /\ timerQ'[i] = q[i - 1]
                     /\ NewTime < q[i - 1].time
  BY <1>1, TimerPlaced
<1> QED BY <1>2, <1>4, <1>5

----------------------------------------------------------------------------
(* Control: where the two contexts can be, and how the program stops.      *)

Places ==
  /\ task["main"] \in {"timers", "select", "adding", "flush", "firing", "sending",
                       "stopped", "crashed"}
  /\ task["signal"] \in {"off", "flush", "firing", "sending"}
  /\ task["main"] \in {"stopped", "crashed"} => task["signal"] = "off"
  /\ task["main"] = "flush" => command
  /\ command \/ task["signal"] # "off" \/ stop = "quit" => ~listening
  /\ task["signal"] # "off" => signals > 0

(* When a flush has ended without an error no timer is left, unless SIGINT *)
(* came in readHandler, which then sets one timer on its way out.          *)
Flushed ==
  stop = "quit" =>
    /\ task["main"] # "stopped" => timerQ = <<>> /\ signals > 0
    /\ task["main"] = "stopped" => Len(timerQ) <= 1 /\ (signals = 0 => timerQ = <<>>)

(* At the start no handler of SIGINT runs.                                 *)
LEMMA PlacesInit == Init => Places /\ Flushed
BY DEF Init, Places, Flushed

(* readHandler runs only while no handler of SIGINT does, and not after    *)
(* one has flushed.                                                        *)
LEMMA PlacesReadHandler ==
  ASSUME Base, Places, Flushed, ReadHandler
  PROVE  Places' /\ Flushed'
<1>1. task \in [Contexts -> TaskPlaces] /\ Contexts = {"main", "signal"}
  BY DEF Base, Types, Contexts
<1>2. task["main"] = "select" /\ task["signal"] = "off" /\ listening /\ stop # "quit" /\ ~command
  BY DEF ReadHandler, ReceiveFails, Reject, TooLarge, DivideByZero, Congestion, Accept, Accepted,
         Arrival, Runs, Places
<1>3. /\ \E place \in {"stopped", "timers", "crashed", "adding"} : task' = [task EXCEPT !["main"] = place]
      /\ stop' # "quit" /\ command' = command /\ listening' = listening /\ signals' = signals
  <2>1. stop \in {"no", "error"}
    BY <1>2 DEF Base, Types
  <2> QED BY <1>2, <2>1
       DEF ReadHandler, ReceiveFails, Reject, TooLarge, DivideByZero, Congestion, Accept, GoTo, LoopTop
<1>4. /\ task'["main"] \in {"stopped", "timers", "crashed", "adding"} /\ task'["signal"] = "off"
  BY <1>1, <1>2, <1>3
<1> QED BY <1>2, <1>3, <1>4 DEF Places, Flushed

(* The loop.                                                               *)
LEMMA PlacesLoop ==
  ASSUME Base, Places, Flushed, Tick \/ SetTimer \/ EnterSelect \/ SelectReturns
  PROVE  Places' /\ Flushed'
<1>1. task \in [Contexts -> TaskPlaces] /\ Contexts = {"main", "signal"}
  BY DEF Base, Types, Contexts
<1>2. CASE Tick
  BY <1>2 DEF Tick, Places, Flushed
<1>3. CASE SetTimer
  <2>1. timerQ = <<>> => Len(timerQ') = 1
    <3> DEFINE time == Departure(held["main"].bytes, held["main"].at)
    <3>1. timerQ = <<>> => Cancel(timerQ, rUdpC') = timerQ
      BY CancelNone
    <3>2. timerQ = <<>> => Place(timerQ, time) = 1
      BY DEF Place
    <3>3. timerQ' = timer_set(timerQ, time, rUdpC')
      BY <1>3 DEF SetTimer
    <3> HIDE DEF time
    <3>4. timerQ = <<>> => timerQ' = SubSeq(<<>>, 1, 0) \o <<[time |-> time, client |-> rUdpC']>> \o SubSeq(<<>>, 1, 0)
      BY <3>1, <3>2, <3>3 DEF timer_set, InsertAt
    <3> QED BY <3>4
  <2>2. /\ task["main"] = "adding" /\ task["signal"] = "off" /\ stop' = stop /\ signals' = signals
        /\ listening' = listening /\ command' = command
    BY <1>3 DEF SetTimer, Runs, Places
  <2>3. task'["main"] = LoopTop /\ task'["signal"] = "off"
    BY <1>1, <1>3, <2>2 DEF SetTimer, GoTo
  <2>4. Places'
    BY <2>2, <2>3 DEF Places, LoopTop
  <2>5. Flushed'
    <3> SUFFICES ASSUME stop' = "quit"
                 PROVE  task'["main"] = "stopped" /\ Len(timerQ') <= 1 /\ signals' # 0
      BY DEF Flushed
    <3>1. stop = "quit" /\ task'["main"] = "stopped"
      BY <2>2, <2>3 DEF LoopTop
    <3>2. timerQ = <<>> /\ signals > 0
      BY <2>2, <3>1 DEF Flushed
    <3>3. signals \in Nat
      BY Constants DEF Base, Types
    <3>4. Len(timerQ') <= 1
      <4>1. Len(timerQ') = 1
        BY <2>1, <3>2
      <4> QED BY <4>1
    <3>5. signals' # 0
      BY <2>2, <3>2, <3>3
    <3> QED BY <3>1, <3>4, <3>5
  <2> QED BY <2>4, <2>5
<1>4. CASE EnterSelect
  BY <1>1, <1>4 DEF EnterSelect, GoTo, Runs, Places, Flushed
<1>5. CASE SelectReturns
  BY <1>1, <1>5 DEF SelectReturns, GoTo, LoopTop, Runs, Places, Flushed
<1> QED BY <1>2, <1>3, <1>4, <1>5

(* The handlers of the timers, called from wherever.                       *)
LEMMA PlacesTimers ==
  ASSUME Base, Places, Flushed, NEW c \in Contexts,
         \/ FireTimer(c) \/ GetPacket(c) \/ FollowNoItem(c)
         \/ LosePacket(c) \/ SendPacket(c) \/ SendFails(c)
  PROVE  Places' /\ Flushed'
<1>1. task \in [Contexts -> TaskPlaces] /\ Contexts = {"main", "signal"}
  BY DEF Base, Types, Contexts
<1>2. CASE FireTimer(c)
  <2>1. timerQ # <<>>
    BY <1>2 DEF FireTimer, Expired
  <2>2. stop # "quit"
    BY <1>2, <2>1 DEF Flushed, FireTimer, Runs
  <2> QED BY <1>1, <1>2, <2>2 DEF FireTimer, GoTo, Caller, Runs, Places, Flushed
<1>3. CASE GetPacket(c)
  BY <1>1, <1>3 DEF GetPacket, GoTo, Runs, Places, Flushed
<1>4. CASE LosePacket(c) \/ SendPacket(c) \/ SendFails(c)
  <2>1. /\ SendHandlerReturns(c) /\ stop' \in {stop, "error"}
    BY <1>4 DEF LosePacket, SendPacket, SendFails, Release
  <2> QED BY <1>1, <2>1 DEF SendHandlerReturns, GoTo, Caller, Runs, Places, Flushed
<1>5. CASE FollowNoItem(c)
  BY <1>1, <1>5 DEF FollowNoItem, Runs, Places, Flushed
<1> QED BY <1>2, <1>3, <1>4, <1>5

(* Stopping.                                                               *)
LEMMA PlacesStop ==
  ASSUME Base, Places, Flushed, StopCommand \/ Interrupt \/ \E c \in Contexts : FlushDone(c)
  PROVE  Places' /\ Flushed'
<1>1. task \in [Contexts -> TaskPlaces] /\ Contexts = {"main", "signal"}
  BY DEF Base, Types, Contexts
<1>2. CASE StopCommand
  BY <1>1, <1>2 DEF StopCommand, GoTo, Runs, Places, Flushed
<1>3. CASE Interrupt
  <2>1. signals \in Nat
    BY Constants DEF Base, Types
  <2> QED BY <1>1, <1>3, <2>1 DEF Interrupt, GoTo, Runs, Places, Flushed
<1>4. ASSUME FlushDone("main")
      PROVE  Places' /\ Flushed'
  BY <1>1, <1>4 DEF FlushDone, GoTo, Runs, Places, Flushed
<1>5. ASSUME FlushDone("signal")
      PROVE  Places' /\ Flushed'
  BY <1>1, <1>5 DEF FlushDone, GoTo, Runs, Places, Flushed
<1> QED BY <1>1, <1>2, <1>3, <1>4, <1>5

(* Every step keeps what is true of where the two contexts can be.         *)
LEMMA PlacesNext == Base /\ Places /\ Flushed /\ [Next]_vars => Places' /\ Flushed'
<1> SUFFICES ASSUME Base, Places, Flushed, [Next]_vars
             PROVE  Places' /\ Flushed'
  OBVIOUS
<1>1. CASE UNCHANGED vars
  BY <1>1 DEF vars, Places, Flushed
<1> QED BY <1>1, PlacesReadHandler, PlacesLoop, PlacesTimers, PlacesStop DEF Next, LoopStep, Step

----------------------------------------------------------------------------
(* Accounting: packets, their timers and their bytes.                      *)

(* The bytes and the intervals of a queue are numbers that follow its      *)
(* packets.                                                                *)
LEMMA NumbersOf ==
  ASSUME NEW q \in Seq(Packet)
  PROVE  /\ BytesOf(q) \in Seq(Nat) /\ Len(BytesOf(q)) = Len(q)
         /\ IntervalsOf(q) \in Seq(Nat) /\ Len(IntervalsOf(q)) = Len(q)
         /\ \A i \in 1..Len(q) :
              BytesOf(q)[i] = q[i].bytes /\ IntervalsOf(q)[i] = Interval(q[i].bytes)
<1>1. \A i \in 1..Len(q) : q[i].bytes \in Nat /\ Interval(q[i].bytes) \in Nat
  <2> SUFFICES ASSUME NEW i \in 1..Len(q)
               PROVE  q[i].bytes \in Nat /\ Interval(q[i].bytes) \in Nat
    OBVIOUS
  <2>1. q[i].bytes \in Nat
    BY PacketFields
  <2> QED BY <2>1, IntervalNat
<1>2. BytesOf(q) \in [1..Len(q) -> Nat] /\ IntervalsOf(q) \in [1..Len(q) -> Nat]
  BY <1>1 DEF BytesOf, IntervalsOf
<1>3. Len(q) \in Nat
  OBVIOUS
<1> QED BY <1>2, <1>3 DEF BytesOf, IntervalsOf

(* What a packet at the end of the queue adds to its bytes and its         *)
(* intervals.                                                              *)
LEMMA NumbersOfAppend ==
  ASSUME NEW q \in Seq(Packet), NEW p \in Packet
  PROVE  /\ BytesOf(Append(q, p)) = Append(BytesOf(q), p.bytes)
         /\ IntervalsOf(Append(q, p)) = Append(IntervalsOf(q), Interval(p.bytes))
<1> DEFINE r == Append(q, p)
<1>1. /\ r \in Seq(Packet) /\ Len(r) = Len(q) + 1 /\ Len(q) \in Nat
      /\ \A i \in 1..Len(r) : r[i] = IF i = Len(q) + 1 THEN p ELSE q[i]
  OBVIOUS
<1> HIDE DEF r
<1>2. /\ BytesOf(r) \in Seq(Nat) /\ Len(BytesOf(r)) = Len(r)
      /\ IntervalsOf(r) \in Seq(Nat) /\ Len(IntervalsOf(r)) = Len(r)
      /\ \A i \in 1..Len(r) :
           BytesOf(r)[i] = r[i].bytes /\ IntervalsOf(r)[i] = Interval(r[i].bytes)
  BY <1>1, NumbersOf
<1>3. /\ BytesOf(q) \in Seq(Nat) /\ Len(BytesOf(q)) = Len(q)
      /\ IntervalsOf(q) \in Seq(Nat) /\ Len(IntervalsOf(q)) = Len(q)
      /\ \A i \in 1..Len(q) :
           BytesOf(q)[i] = q[i].bytes /\ IntervalsOf(q)[i] = Interval(q[i].bytes)
  BY NumbersOf
<1>4. p.bytes \in Nat /\ Interval(p.bytes) \in Nat
  <2>1. p.bytes \in Nat
    BY PacketFields
  <2> QED BY <2>1, IntervalNat
<1>5. BytesOf(r) = Append(BytesOf(q), p.bytes)
  <2> DEFINE s == BytesOf(q)
             t == Append(s, p.bytes)
  <2>1. /\ s \in Seq(Nat) /\ Len(s) = Len(q)
        /\ \A i \in 1..Len(q) : s[i] = q[i].bytes
    BY <1>3
  <2> HIDE DEF s
  <2>2. /\ t \in Seq(Nat) /\ Len(t) = Len(q) + 1
        /\ \A i \in 1..Len(t) : t[i] = IF i = Len(q) + 1 THEN p.bytes ELSE s[i]
    BY <1>4, <2>1
  <2> HIDE DEF t
  <2>3. Len(t) = Len(r) /\ \A i \in 1..Len(t) : BytesOf(r)[i] = t[i]
    <3>1. \A i \in 1..Len(t) : i # Len(q) + 1 => i \in 1..Len(q)
      BY <1>1, <2>2
    <3> QED BY <1>1, <1>2, <2>1, <2>2, <3>1
  <2>4. BytesOf(r) = t
    BY <1>2, <2>2, <2>3, SameSequence
  <2> QED BY <2>4 DEF t, s
<1>6. IntervalsOf(r) = Append(IntervalsOf(q), Interval(p.bytes))
  <2> DEFINE s == IntervalsOf(q)
             t == Append(s, Interval(p.bytes))
  <2>1. /\ s \in Seq(Nat) /\ Len(s) = Len(q)
        /\ \A i \in 1..Len(q) : s[i] = Interval(q[i].bytes)
    BY <1>3
  <2> HIDE DEF s
  <2>2. /\ t \in Seq(Nat) /\ Len(t) = Len(q) + 1
        /\ \A i \in 1..Len(t) : t[i] = IF i = Len(q) + 1 THEN Interval(p.bytes) ELSE s[i]
    BY <1>4, <2>1
  <2> HIDE DEF t
  <2>3. Len(t) = Len(r) /\ \A i \in 1..Len(t) : IntervalsOf(r)[i] = t[i]
    <3>1. \A i \in 1..Len(t) : i # Len(q) + 1 => i \in 1..Len(q)
      BY <1>1, <2>2
    <3> QED BY <1>1, <1>2, <2>1, <2>2, <3>1
  <2>4. IntervalsOf(r) = t
    BY <1>2, <2>2, <2>3, SameSequence
  <2> QED BY <2>4 DEF t, s
<1> QED BY <1>5, <1>6 DEF r

(* What the queue's bytes and intervals are without the first packet.      *)
LEMMA NumbersOfTail ==
  ASSUME NEW q \in Seq(Packet), q # <<>>
  PROVE  /\ BytesOf(Tail(q)) = Tail(BytesOf(q)) /\ IntervalsOf(Tail(q)) = Tail(IntervalsOf(q))
         /\ BytesOf(q) # <<>> /\ IntervalsOf(q) # <<>>
<1> DEFINE r == Tail(q)
<1>1. /\ r \in Seq(Packet) /\ Len(r) = Len(q) - 1 /\ Len(q) \in Nat \ {0}
      /\ \A i \in 1..Len(r) : r[i] = q[i + 1] /\ i + 1 \in 1..Len(q)
  OBVIOUS
<1> HIDE DEF r
<1>2. /\ BytesOf(r) \in Seq(Nat) /\ Len(BytesOf(r)) = Len(r)
      /\ IntervalsOf(r) \in Seq(Nat) /\ Len(IntervalsOf(r)) = Len(r)
      /\ \A i \in 1..Len(r) :
           BytesOf(r)[i] = r[i].bytes /\ IntervalsOf(r)[i] = Interval(r[i].bytes)
  BY <1>1, NumbersOf
<1>3. /\ BytesOf(q) \in Seq(Nat) /\ Len(BytesOf(q)) = Len(q)
      /\ IntervalsOf(q) \in Seq(Nat) /\ Len(IntervalsOf(q)) = Len(q)
      /\ \A i \in 1..Len(q) :
           BytesOf(q)[i] = q[i].bytes /\ IntervalsOf(q)[i] = Interval(q[i].bytes)
  BY NumbersOf
<1>4. BytesOf(q) # <<>> /\ IntervalsOf(q) # <<>>
  BY <1>1, <1>3
<1>5. BytesOf(r) = Tail(BytesOf(q))
  <2> DEFINE s == BytesOf(q)
             t == Tail(s)
  <2>1. /\ s \in Seq(Nat) /\ Len(s) = Len(q) /\ Len(s) \in Nat \ {0} /\ s # <<>>
        /\ \A i \in 1..Len(q) : s[i] = q[i].bytes
    BY <1>1, <1>3, <1>4
  <2> HIDE DEF s
  <2>2. /\ t \in Seq(Nat) /\ Len(t) = Len(q) - 1
        /\ \A i \in 1..Len(t) : t[i] = s[i + 1]
    BY <2>1
  <2> HIDE DEF t
  <2>3. Len(t) = Len(r) /\ \A i \in 1..Len(t) : BytesOf(r)[i] = t[i]
    BY <1>1, <1>2, <2>1, <2>2
  <2>4. BytesOf(r) = t
    BY <1>2, <2>2, <2>3, SameSequence
  <2> QED BY <2>4 DEF t, s
<1>6. IntervalsOf(r) = Tail(IntervalsOf(q))
  <2> DEFINE s == IntervalsOf(q)
             t == Tail(s)
  <2>1. /\ s \in Seq(Nat) /\ Len(s) = Len(q) /\ Len(s) \in Nat \ {0} /\ s # <<>>
        /\ \A i \in 1..Len(q) : s[i] = Interval(q[i].bytes)
    BY <1>1, <1>3, <1>4
  <2> HIDE DEF s
  <2>2. /\ t \in Seq(Nat) /\ Len(t) = Len(q) - 1
        /\ \A i \in 1..Len(t) : t[i] = s[i + 1]
    BY <2>1
  <2> HIDE DEF t
  <2>3. Len(t) = Len(r) /\ \A i \in 1..Len(t) : IntervalsOf(r)[i] = t[i]
    BY <1>1, <1>2, <2>1, <2>2
  <2>4. IntervalsOf(r) = t
    BY <1>2, <2>2, <2>3, SameSequence
  <2> QED BY <2>4 DEF t, s
<1> QED BY <1>4, <1>5, <1>6 DEF r

(* The bytes of a queue, when a packet comes in, goes out or goes behind   *)
(* the others.                                                             *)
LEMMA BytesTotal ==
  ASSUME NEW q \in Seq(Packet)
  PROVE  /\ Total(BytesOf(q)) \in Nat /\ (q = <<>> => Total(BytesOf(q)) = 0)
         /\ \A p \in Packet : Total(BytesOf(Append(q, p))) = Total(BytesOf(q)) + p.bytes
         /\ q # <<>> => /\ Total(BytesOf(q)) = Head(q).bytes + Total(BytesOf(Tail(q)))
                        /\ Total(BytesOf(Append(Tail(q), Head(q)))) = Total(BytesOf(q))
<1>1. BytesOf(q) \in Seq(Nat) /\ Len(BytesOf(q)) = Len(q)
  BY NumbersOf
<1>2. Total(BytesOf(q)) \in Nat /\ (q = <<>> => Total(BytesOf(q)) = 0)
  BY <1>1, TotalNat
<1>3. ASSUME NEW r \in Seq(Packet), NEW p \in Packet
      PROVE  Total(BytesOf(Append(r, p))) = Total(BytesOf(r)) + p.bytes
  <2>1. BytesOf(r) \in Seq(Nat) /\ p.bytes \in Nat
    BY NumbersOf, PacketFields
  <2>2. Total(Append(BytesOf(r), p.bytes)) = Total(BytesOf(r)) + p.bytes
    BY <2>1, SumsAppend
  <2> QED BY <2>2, NumbersOfAppend
<1>4. ASSUME q # <<>>
      PROVE  /\ Total(BytesOf(q)) = Head(q).bytes + Total(BytesOf(Tail(q)))
             /\ Total(BytesOf(Append(Tail(q), Head(q)))) = Total(BytesOf(q))
  <2>1. Head(q) \in Packet /\ Tail(q) \in Seq(Packet) /\ Head(q) = q[1] /\ 1 \in 1..Len(q)
    BY <1>4
  <2>2. BytesOf(q) # <<>> /\ BytesOf(Tail(q)) = Tail(BytesOf(q)) /\ BytesOf(q)[1] = Head(q).bytes
    BY <1>4, <2>1, NumbersOf, NumbersOfTail
  <2>3. Total(BytesOf(q)) = Head(q).bytes + Total(BytesOf(Tail(q)))
    BY <1>1, <2>2, SumsTail
  <2>4. Total(BytesOf(Tail(q))) \in Nat /\ Head(q).bytes \in Nat
    <3>1. BytesOf(Tail(q)) \in Seq(Nat)
      BY <2>1, NumbersOf
    <3> QED BY <2>1, <3>1, TotalNat, PacketFields
  <2>5. Total(BytesOf(Append(Tail(q), Head(q)))) = Total(BytesOf(Tail(q))) + Head(q).bytes
    BY <1>3, <2>1
  <2> QED BY <2>3, <2>4, <2>5
<1> QED BY <1>2, <1>3, <1>4

(* Every packet in the queue has its timer: pending, or taken by a handler *)
(* that has not yet taken the packet, or about to be set.                  *)
Counted ==
  Len(queue) = Len(timerQ) + At("main", "firing") + At("signal", "firing") + At("main", "adding")

HoldsPackets == \A c \in Contexts : task[c] = "sending" => held[c] \in Packet

Matched == Counted /\ HoldsPackets /\ sent \in Seq(Packet)

(* The bytes of the packet that a sendHandler has.                         *)
InHandler(c) == IF task[c] = "sending" THEN held[c].bytes ELSE 0

BytesInside == Total(BytesOf(queue)) + InHandler("main") + InHandler("signal")

BytesCounted == BytesInside <= qUsed /\ (stop # "error" => qUsed = BytesInside)

(* The invariant in the form that a run checks.                            *)
LEMMA BytesCountedIs == BytesCounted <=> QUsedIsBytesQueued
BY DEF BytesCounted, BytesInside, InHandler, QUsedIsBytesQueued

(* The number of bytes inside is a number, at least those that a           *)
(* sendHandler has.                                                        *)
LEMMA BytesInsideNat ==
  ASSUME Base, HoldsPackets
  PROVE  /\ Total(BytesOf(queue)) \in Nat
         /\ \A c \in Contexts : InHandler(c) \in Nat /\ (task[c] = "sending" => held[c].bytes \in Nat)
<1>1. Total(BytesOf(queue)) \in Nat
  BY BytesTotal DEF Base, Types
<1>2. ASSUME NEW c \in Contexts
      PROVE  InHandler(c) \in Nat /\ (task[c] = "sending" => held[c].bytes \in Nat)
  <2>1. task[c] = "sending" => held[c].bytes \in Nat
    BY PacketFields DEF HoldsPackets
  <2> QED BY <2>1 DEF InHandler
<1> QED BY <1>1, <1>2

(* What a change of place does to the places.                              *)
LEMMA Went ==
  ASSUME Base, NEW c \in Contexts, NEW place, GoTo(c, place)
  PROVE  /\ task'[c] = place
         /\ \A d \in Contexts : d # c => task'[d] = task[d]
BY DEF Base, Types, GoTo

(* The steps that touch neither the queue nor a timer nor a packet.        *)
Idle ==
  \/ Tick \/ EnterSelect \/ SelectReturns \/ StopCommand \/ Interrupt
  \/ ReceiveFails
  \/ \E from \in Senders : Reject(from)
  \/ \E b \in Sizes : TooLarge(b) \/ DivideByZero(b) \/ Congestion(b)
  \/ \E c \in Contexts : FlushDone(c)

SamePlaces ==
  \A c \in Contexts : \A place \in {"adding", "firing", "sending"} :
    task'[c] = place <=> task[c] = place

(* The steps that touch no packet, no timer and no handler.                *)
LEMMA IdleKeeps ==
  ASSUME Base, Places, Idle
  PROVE  /\ SamePlaces
         /\ queue' = queue /\ timerQ' = timerQ /\ held' = held /\ sent' = sent
         /\ qUsed' = qUsed /\ prvIntervled' = prvIntervled /\ now <= now'
         /\ stop' # "error" => stop # "error"
<1>1. task \in [Contexts -> TaskPlaces] /\ Contexts = {"main", "signal"} /\ now \in Nat
  BY DEF Base, Types, Contexts
<1>2. CASE Tick
  BY <1>1, <1>2 DEF Tick, SamePlaces
<1>3. CASE EnterSelect
  BY <1>1, <1>3 DEF EnterSelect, GoTo, SamePlaces
<1>4. CASE SelectReturns
  BY <1>1, <1>4 DEF SelectReturns, GoTo, LoopTop, SamePlaces
<1>5. CASE StopCommand
  BY <1>1, <1>5 DEF StopCommand, GoTo, SamePlaces
<1>6. CASE Interrupt
  BY <1>1, <1>6 DEF Interrupt, Runs, GoTo, SamePlaces
<1>7. CASE ReceiveFails
  BY <1>1, <1>7 DEF ReceiveFails, Arrival, GoTo, SamePlaces
<1>8. ASSUME NEW from \in Senders, Reject(from)
      PROVE  SamePlaces /\ UNCHANGED <<queue, timerQ, held, sent, qUsed, prvIntervled, now, stop>>
  BY <1>1, <1>8 DEF Reject, Arrival, GoTo, LoopTop, SamePlaces
<1>9. ASSUME NEW b \in Sizes, TooLarge(b) \/ DivideByZero(b) \/ Congestion(b)
      PROVE  SamePlaces /\ UNCHANGED <<queue, timerQ, held, sent, qUsed, prvIntervled, now, stop>>
  BY <1>1, <1>9 DEF TooLarge, DivideByZero, Congestion, Accepted, Arrival, GoTo, LoopTop, SamePlaces
<1>10. ASSUME NEW c \in Contexts, FlushDone(c)
       PROVE  SamePlaces /\ UNCHANGED <<queue, timerQ, held, sent, qUsed, prvIntervled, now>>
              /\ (stop' # "error" => stop # "error")
  BY <1>1, <1>10 DEF FlushDone, GoTo, SamePlaces
<1> QED BY <1>1, <1>2, <1>3, <1>4, <1>5, <1>6, <1>7, <1>8, <1>9, <1>10 DEF Idle

(* A packet that the buffer has room for has room in the queue: the queue  *)
(* takes MaxQSize packets, and that many of them fill the buffer.          *)
LEMMA RoomInQueue ==
  ASSUME Base, HoldsPackets, BytesCounted, NEW b \in Sizes, HasRoom(b)
  PROVE  Len(queue) < MaxQSize
<1> DEFINE s == BytesOf(queue)
           n == Len(queue)
<1>1. queue \in Seq(Packet) /\ n \in Nat /\ qUsed \in Nat
  <2>1. queue \in Seq(Packet) /\ qUsed \in 0..inQBufSize /\ inQBufSize \in Nat
    BY Constants DEF Base, Types
  <2> QED BY <2>1
<1>2. b \in Nat \ {0} /\ inQBufSize \in Nat \ {0} /\ MaxQSize \in Nat
  BY Constants, NoneIsEmpty DEF Base
<1>3. s \in Seq(Nat) /\ Len(s) = n /\ \A k \in 1..n : s[k] = queue[k].bytes
  BY <1>1, NumbersOf
<1>4. \A k \in 1..n : queue[k] \in Packet
  BY <1>1
<1>5. \A k \in 1..Len(s) : inQBufSize <= s[k] * MaxQSize
  <2> SUFFICES ASSUME NEW k \in 1..n
               PROVE  inQBufSize <= s[k] * MaxQSize
    BY <1>3
  <2>1. queue[k].bytes \in Sizes
    BY <1>4 DEF Packet
  <2>2. \A x \in Sizes : inQBufSize <= x * MaxQSize
    BY DEF Base, RoomByBytes
  <2> QED BY <1>3, <2>1, <2>2
<1>6. n * inQBufSize <= Total(s) * MaxQSize
  <2> HIDE DEF s, n
  <2>1. Len(s) * inQBufSize <= Total(s) * MaxQSize
    BY <1>2, <1>3, <1>5, TotalAtLeast
  <2> QED BY <1>3, <2>1
<1>7. Total(s) \in Nat /\ Total(s) + b <= inQBufSize
  <2>1. Total(s) <= BytesInside /\ BytesInside \in Nat /\ Total(s) \in Nat
    BY BytesInsideNat DEF BytesInside, Contexts
  <2>2. BytesInside <= qUsed /\ qUsed + b <= inQBufSize
    BY DEF BytesCounted, HasRoom
  <2> HIDE DEF s
  <2> QED BY <1>1, <1>2, <2>1, <2>2
<1> HIDE DEF s, n
<1>8. Total(s) < inQBufSize
  BY <1>2, <1>7
<1>9. SUFFICES ASSUME ~ (n < MaxQSize)
               PROVE  FALSE
  BY DEF n
<1>10. MaxQSize * inQBufSize <= n * inQBufSize
  BY <1>1, <1>2, <1>9, Multiply
<1>11. MaxQSize * inQBufSize <= Total(s) * MaxQSize
  <2>1. MaxQSize * inQBufSize \in Int /\ n * inQBufSize \in Int /\ Total(s) * MaxQSize \in Int
    BY <1>1, <1>2, <1>7
  <2> QED BY <1>6, <1>10, <2>1
<1>12. MaxQSize # 0
  <2>1. inQBufSize <= b * MaxQSize
    BY DEF Base, RoomByBytes
  <2> QED BY <1>2, <2>1
<1>13. (Total(s) + 1) * MaxQSize <= inQBufSize * MaxQSize
  <2> DEFINE m == Total(s) + 1
  <2>1. m \in Nat /\ m <= inQBufSize
    BY <1>2, <1>7, <1>8
  <2> HIDE DEF m
  <2>2. m * MaxQSize <= inQBufSize * MaxQSize
    BY <1>2, <2>1, Multiply
  <2> QED BY <2>2 DEF m
<1>14. (Total(s) + 1) * MaxQSize = Total(s) * MaxQSize + MaxQSize
  <2>1. Total(s) \in Int /\ MaxQSize \in Int
    BY <1>2, <1>7
  <2>2. (Total(s) + 1) * MaxQSize = Total(s) * MaxQSize + 1 * MaxQSize
    BY <2>1, Distribute
  <2> QED BY <2>1, <2>2
<1>15. MaxQSize * inQBufSize = inQBufSize * MaxQSize /\ Total(s) * MaxQSize \in Int
       /\ inQBufSize * MaxQSize \in Int
  BY <1>2, <1>7
<1> QED BY <1>2, <1>11, <1>12, <1>13, <1>14, <1>15

(* Steps that leave the queues and the handlers' places alone keep them    *)
(* matched.                                                                *)
LEMMA MatchedStill ==
  ASSUME Matched, SamePlaces, queue' = queue, timerQ' = timerQ, held' = held, sent' = sent
  PROVE  Matched'
<1>1. \A c \in Contexts : \A place \in {"adding", "firing", "sending"} : At(c, place)' = At(c, place)
  BY DEF SamePlaces, At
<1>2. Counted'
  BY <1>1 DEF Matched, Counted, Contexts
<1>3. HoldsPackets'
  BY DEF Matched, HoldsPackets, SamePlaces
<1> QED BY <1>2, <1>3 DEF Matched

(* readHandler queues a packet, and then sets its timer.                   *)
LEMMA MatchedAccept ==
  ASSUME Base, Places, Matched, BytesCounted, NEW b \in Sizes, Accept(b)
  PROVE  /\ Matched'
         /\ queue' = Append(queue, assembleItem(b)) /\ assembleItem(b) \in Packet
<1> DEFINE p == assembleItem(b)
<1>1. task \in [Contexts -> TaskPlaces] /\ Contexts = {"main", "signal"} /\ queue \in Seq(Packet)
  BY DEF Base, Types, Contexts
<1>2. HasRoom(b) /\ queue' = addQueue(queue, p) /\ timerQ' = timerQ /\ sent' = sent
      /\ task["main"] = "select" /\ GoTo("main", "adding")
      /\ held' = [held EXCEPT !["main"] = p] /\ held \in [Contexts -> Packet \cup Garbage]
  BY DEF Accept, Accepted, Arrival, Base, Types
<1>3. p \in Packet
  <2>1. b \in Sizes /\ now \in Nat /\ arrived \in Nat /\ arrived < MaxPackets /\ MaxPackets \in Nat
    BY Constants DEF Base, Types, Accept, Accepted, Arrival
  <2> QED BY <2>1 DEF assembleItem, Packet
<1> HIDE DEF p
<1>4. queue' = Append(queue, p) /\ Len(queue') = Len(queue) + 1 /\ Len(queue) \in Nat
  <2>1. Len(queue) < MaxQSize
    BY <1>2, RoomInQueue DEF Matched
  <2>2. queue' = Append(queue, p)
    BY <1>2, <2>1 DEF addQueue
  <2> QED BY <1>1, <1>3, <2>2
<1>5. task'["main"] = "adding" /\ task'["signal"] = task["signal"]
  BY <1>1, <1>2, Went
<1>6. Counted'
  <2>1. At("main", "adding")' = 1 /\ At("main", "firing")' = 0 /\ At("signal", "firing")' = At("signal", "firing")
        /\ At("main", "adding") = 0 /\ At("main", "firing") = 0 /\ At("signal", "firing") \in Nat
    BY <1>2, <1>5 DEF At
  <2>2. Len(timerQ) \in Nat /\ timerQ' = timerQ
    BY <1>2 DEF Base, Types
  <2> QED BY <1>4, <2>1, <2>2 DEF Matched, Counted
<1>7. HoldsPackets'
  BY <1>1, <1>2, <1>5 DEF Matched, HoldsPackets
<1> QED BY <1>2, <1>3, <1>4, <1>6, <1>7 DEF Matched, p

(* The last packet of the queue gets its timer.                            *)
LEMMA MatchedSetTimer ==
  ASSUME Base, Places, Matched, SetTimer
  PROVE  /\ Matched'
         /\ Len(timerQ') = Len(timerQ) + 1
<1>1. task \in [Contexts -> TaskPlaces] /\ Contexts = {"main", "signal"}
      /\ timerQ \in Seq(Timer) /\ queue \in Seq(Packet) /\ held \in [Contexts -> Packet \cup Garbage]
  BY DEF Base, Types, Contexts
<1>2. queue' = queue /\ sent' = sent /\ task["main"] = "adding" /\ task["signal"] = "off"
      /\ GoTo("main", LoopTop) /\ held' = [held EXCEPT !["main"] = NoPacket]
  BY DEF SetTimer, Runs
<1>3. task'["main"] \in {"timers", "stopped"} /\ task'["signal"] = "off"
  <2>1. task'["main"] = LoopTop /\ task'["signal"] = task["signal"]
    BY <1>1, <1>2, Went
  <2> QED BY <1>2, <2>1 DEF LoopTop
<1>4. Len(timerQ') = Len(timerQ) + 1 /\ Len(timerQ) \in Nat
  BY TimerAdded
<1>5. Counted'
  <2>1. At("main", "adding")' = 0 /\ At("main", "firing")' = 0 /\ At("signal", "firing")' = 0
        /\ At("main", "adding") = 1 /\ At("main", "firing") = 0 /\ At("signal", "firing") = 0
    BY <1>2, <1>3 DEF At
  <2> QED BY <1>2, <1>4, <2>1 DEF Matched, Counted
<1>6. HoldsPackets'
  BY <1>1, <1>3 DEF HoldsPackets
<1> QED BY <1>2, <1>4, <1>5, <1>6 DEF Matched

(* A timer is taken before its packet, so that the handler finds one.      *)
LEMMA MatchedFireTimer ==
  ASSUME Base, Places, Matched, NEW c \in Contexts, FireTimer(c)
  PROVE  Matched'
<1>1. task \in [Contexts -> TaskPlaces] /\ Contexts = {"main", "signal"} /\ timerQ \in Seq(Timer)
  BY DEF Base, Types, Contexts
<1>2. queue' = queue /\ sent' = sent /\ held' = held /\ task[c] \in {"timers", "flush"}
      /\ GoTo(c, "firing") /\ timerQ # <<>> /\ timerQ' = Tail(timerQ)
  BY DEF FireTimer, Caller, Expired
<1>3. task'[c] = "firing" /\ \A d \in Contexts : d # c => task'[d] = task[d]
  BY <1>2, Went
<1>4. Len(timerQ') = Len(timerQ) - 1 /\ Len(timerQ) \in Nat
  BY <1>1, <1>2
<1>5. At(c, "firing")' = 1 /\ At(c, "firing") = 0
      /\ At("main", "adding")' = At("main", "adding") /\ At("main", "adding") \in Nat
      /\ \A d \in Contexts : At(d, "firing") \in Nat /\ (d # c => At(d, "firing")' = At(d, "firing"))
  BY <1>1, <1>2, <1>3 DEF At
<1>6. Counted'
  <2>1. CASE c = "main"
    BY <1>1, <1>2, <1>4, <1>5, <2>1 DEF Matched, Counted
  <2>2. CASE c = "signal"
    BY <1>1, <1>2, <1>4, <1>5, <2>2 DEF Matched, Counted
  <2> QED BY <1>1, <2>1, <2>2
<1>7. HoldsPackets'
  BY <1>1, <1>2, <1>3 DEF Matched, HoldsPackets
<1> QED BY <1>2, <1>6, <1>7 DEF Matched

(* A handler that a timer has called finds a packet.                       *)
LEMMA PacketForTimer ==
  ASSUME Base, Matched, NEW c \in Contexts, task[c] = "firing"
  PROVE  queue # <<>>
<1>1. Contexts = {"main", "signal"} /\ queue \in Seq(Packet) /\ timerQ \in Seq(Timer)
  BY DEF Base, Types, Contexts
<1>2. Len(queue) \in Nat /\ Len(timerQ) \in Nat
  BY <1>1
<1>3. At(c, "firing") = 1 /\ At("main", "adding") \in Nat /\ \A d \in Contexts : At(d, "firing") \in Nat
  BY DEF At
<1>4. Len(queue) > 0
  <2>1. CASE c = "main"
    BY <1>1, <1>2, <1>3, <2>1 DEF Matched, Counted
  <2>2. CASE c = "signal"
    BY <1>1, <1>2, <1>3, <2>2 DEF Matched, Counted
  <2> QED BY <1>1, <2>1, <2>2
<1> QED BY <1>1, <1>4

(* The handler takes the front of the queue; there is one.                 *)
LEMMA MatchedGetPacket ==
  ASSUME Base, Places, Matched, NEW c \in Contexts, GetPacket(c)
  PROVE  /\ Matched'
         /\ queue # <<>> /\ queue' = Tail(queue) /\ held'[c] = Head(queue)
         /\ \A d \in Contexts : d # c => held'[d] = held[d]
<1>1. task \in [Contexts -> TaskPlaces] /\ Contexts = {"main", "signal"} /\ queue \in Seq(Packet)
      /\ timerQ \in Seq(Timer) /\ held \in [Contexts -> Packet \cup Garbage]
  BY DEF Base, Types, Contexts
<1>2. timerQ' = timerQ /\ sent' = sent /\ task[c] = "firing" /\ GoTo(c, "sending")
      /\ queue' = IF queue = <<>> THEN queue ELSE Tail(queue)
  BY DEF GetPacket
<1>3. task'[c] = "sending" /\ \A d \in Contexts : d # c => task'[d] = task[d]
  BY <1>2, Went
<1>4. At(c, "firing")' = 0 /\ At(c, "firing") = 1
      /\ At("main", "adding")' = At("main", "adding") /\ At("main", "adding") \in Nat
      /\ \A d \in Contexts : At(d, "firing") \in Nat /\ (d # c => At(d, "firing")' = At(d, "firing"))
  BY <1>1, <1>2, <1>3 DEF At
<1>5. Len(queue) \in Nat /\ Len(timerQ) \in Nat
  BY <1>1
<1>6. queue # <<>>
  BY <1>2, PacketForTimer
<1>7. /\ queue' = Tail(queue) /\ held'[c] = Head(queue) /\ \A d \in Contexts : d # c => held'[d] = held[d]
      /\ Len(queue') = Len(queue) - 1 /\ Head(queue) \in Packet
  <2>1. held' = [held EXCEPT ![c] = Head(queue)]
    BY <1>6 DEF GetPacket, Items
  <2>2. Head(queue) \in Packet /\ queue' = Tail(queue) /\ Len(queue') = Len(queue) - 1
    BY <1>1, <1>2, <1>6
  <2> QED BY <1>1, <2>1, <2>2
<1>8. Counted'
  <2>1. CASE c = "main"
    BY <1>1, <1>2, <1>4, <1>5, <1>7, <2>1 DEF Matched, Counted
  <2>2. CASE c = "signal"
    BY <1>1, <1>2, <1>4, <1>5, <1>7, <2>2 DEF Matched, Counted
  <2> QED BY <1>1, <2>1, <2>2
<1>9. HoldsPackets'
  BY <1>1, <1>3, <1>7 DEF Matched, HoldsPackets
<1> QED BY <1>2, <1>6, <1>7, <1>8, <1>9 DEF Matched

(* A handler that is done has left the queue as long as it was.            *)
LEMMA ReturnKeepsQueue ==
  ASSUME Base, NEW c \in Contexts, LosePacket(c) \/ SendPacket(c) \/ SendFails(c)
  PROVE  /\ SendHandlerReturns(c)
         /\ queue' \in Seq(Packet) /\ Len(queue') = Len(queue)
         /\ Total(BytesOf(queue')) = Total(BytesOf(queue))
         /\ ~Reorder => queue' = queue
         /\ sent' = sent \/ sent' = Append(sent, held[c])
<1>1. queue \in Seq(Packet)
  BY DEF Base, Types
<1>2. SendHandlerReturns(c) /\ (sent' = sent \/ sent' = Append(sent, held[c]))
      /\ (queue' = queue \/ queue' \in OutOfOrder(queue))
  BY DEF LosePacket, SendPacket, SendFails
<1>3. CASE queue' = queue
  BY <1>1, <1>2, <1>3
<1>4. CASE Reorder /\ Len(queue) >= 2 /\ queue' = Append(Tail(queue), Head(queue))
  <2>1. queue # <<>> /\ Head(queue) \in Packet /\ Tail(queue) \in Seq(Packet)
        /\ Len(Tail(queue)) = Len(queue) - 1
    BY <1>1, <1>4
  <2>2. Total(BytesOf(queue')) = Total(BytesOf(queue))
    BY <1>1, <1>4, <2>1, BytesTotal
  <2> QED BY <1>1, <1>2, <1>4, <2>1, <2>2
<1> QED BY <1>2, <1>3, <1>4 DEF OutOfOrder

(* sendHandler is done with its packet.                                    *)
LEMMA MatchedReturn ==
  ASSUME Base, Places, Matched, NEW c \in Contexts, LosePacket(c) \/ SendPacket(c) \/ SendFails(c)
  PROVE  Matched'
<1>1. task \in [Contexts -> TaskPlaces] /\ Contexts = {"main", "signal"}
      /\ held \in [Contexts -> Packet \cup Garbage]
  BY DEF Base, Types, Contexts
<1>2. SendHandlerReturns(c) /\ Len(queue') = Len(queue) /\ (sent' = sent \/ sent' = Append(sent, held[c]))
  BY ReturnKeepsQueue
<1>3. timerQ' = timerQ /\ task[c] = "sending" /\ GoTo(c, Caller(c)) /\ Caller(c) \in {"flush", "timers"}
      /\ held' = [held EXCEPT ![c] = NoPacket]
  BY <1>2 DEF SendHandlerReturns, Caller
<1>4. task'[c] = Caller(c) /\ \A d \in Contexts : d # c => task'[d] = task[d]
  BY <1>3, Went
<1>5. \A d \in Contexts : \A place \in {"adding", "firing"} : At(d, place)' = At(d, place)
  BY <1>1, <1>3, <1>4 DEF At
<1>6. Counted'
  BY <1>1, <1>2, <1>3, <1>5 DEF Matched, Counted
<1>7. HoldsPackets'
  BY <1>1, <1>3, <1>4 DEF Matched, HoldsPackets
<1>8. sent' \in Seq(Packet)
  <2>1. held[c] \in Packet /\ sent \in Seq(Packet)
    BY <1>3 DEF Matched, HoldsPackets
  <2> QED BY <1>2, <2>1
<1> QED BY <1>6, <1>7, <1>8 DEF Matched

(* The actions, by what they do to the queues.  None finds the queue empty. *)
LEMMA Actions ==
  ASSUME Base, Matched, [Next]_vars
  PROVE  \/ UNCHANGED vars \/ Idle \/ SetTimer
         \/ \E b \in Sizes : Accept(b)
         \/ \E c \in Contexts : FireTimer(c) \/ GetPacket(c)
         \/ \E c \in Contexts : LosePacket(c) \/ SendPacket(c) \/ SendFails(c)
<1>1. ASSUME NEW c \in Contexts
      PROVE  ~ FollowNoItem(c)
  BY PacketForTimer DEF FollowNoItem
<1> QED BY <1>1 DEF Next, ReadHandler, LoopStep, Step, Idle

(* At the start there is neither a packet nor a timer.                     *)
LEMMA MatchedInit == Init => Matched
<1> SUFFICES ASSUME Init PROVE Matched
  OBVIOUS
<1>1. At("main", "firing") = 0 /\ At("signal", "firing") = 0 /\ At("main", "adding") = 0
  BY DEF Init, At
<1>2. Counted
  BY <1>1 DEF Init, Counted
<1>3. HoldsPackets
  BY DEF Init, HoldsPackets, Contexts
<1> QED BY <1>2, <1>3 DEF Init, Matched

(* Every step keeps as many timers, set or to be set, as packets.          *)
LEMMA MatchedNext == Base /\ Places /\ Matched /\ BytesCounted /\ [Next]_vars => Matched'
<1> SUFFICES ASSUME Base, Places, Matched, BytesCounted, [Next]_vars
             PROVE  Matched'
  OBVIOUS
<1>1. CASE UNCHANGED vars
  BY <1>1, MatchedStill DEF vars, SamePlaces
<1>2. CASE Idle
  BY <1>2, IdleKeeps, MatchedStill
<1> QED BY <1>1, <1>2, Actions, MatchedAccept, MatchedSetTimer, MatchedFireTimer, MatchedGetPacket,
           MatchedReturn

----------------------------------------------------------------------------
(* The bytes.                                                              *)

(* At the start the buffer is empty.                                       *)
LEMMA BytesInit == Init => BytesCounted
<1> SUFFICES ASSUME Init PROVE BytesCounted
  OBVIOUS
<1>1. queue = <<>> /\ qUsed = 0 /\ InHandler("main") = 0 /\ InHandler("signal") = 0
  BY DEF Init, InHandler
<1>2. Total(BytesOf(queue)) = 0
  <2>1. <<>> \in Seq(Packet)
    OBVIOUS
  <2> QED BY <1>1, <2>1, BytesTotal
<1> QED BY <1>1, <1>2 DEF BytesCounted, BytesInside

(* A step that neither queues nor sends.                                   *)
LEMMA BytesStill ==
  ASSUME BytesCounted, qUsed' = qUsed, queue' = queue, stop' # "error" => stop # "error",
         \A c \in Contexts : InHandler(c)' = InHandler(c)
  PROVE  BytesCounted'
<1>1. BytesInside' = BytesInside
  BY DEF BytesInside, Contexts
<1> QED BY <1>1 DEF BytesCounted

(* Queueing a packet counts its bytes at once.                             *)
LEMMA BytesAccept ==
  ASSUME Base, Places, Matched, BytesCounted, NEW b \in Sizes, Accept(b)
  PROVE  BytesCounted'
<1> DEFINE p == assembleItem(b)
<1>1. queue' = Append(queue, p) /\ p \in Packet /\ queue \in Seq(Packet)
  BY MatchedAccept DEF Base, Types
<1>2. p.bytes = b /\ b \in Nat
  BY Constants DEF assembleItem
<1>3. /\ qUsed' = qUsed + b /\ stop' = stop /\ task["main"] = "select" /\ task["signal"] = "off"
      /\ GoTo("main", "adding")
  BY DEF Accept, Accepted, Arrival, Runs
<1> HIDE DEF p
<1>4. Total(BytesOf(queue')) = Total(BytesOf(queue)) + b
  BY <1>1, <1>2, BytesTotal
<1>5. InHandler("main") = 0 /\ InHandler("signal") = 0
  BY <1>3 DEF InHandler
<1>6. task'["main"] = "adding" /\ task'["signal"] = task["signal"]
  BY <1>3, Went DEF Contexts
<1>7. InHandler("main")' = 0 /\ InHandler("signal")' = 0
  BY <1>3, <1>6 DEF InHandler
<1>8. Total(BytesOf(queue)) \in Nat /\ qUsed \in Nat
  <2>1. qUsed \in 0..inQBufSize /\ inQBufSize \in Nat
    BY Constants DEF Base, Types
  <2> QED BY <2>1, BytesInsideNat DEF Matched
<1>9. BytesInside' = BytesInside + b /\ BytesInside \in Nat
  BY <1>2, <1>4, <1>5, <1>7, <1>8 DEF BytesInside
<1> QED BY <1>2, <1>3, <1>8, <1>9 DEF BytesCounted

(* A packet's bytes go with it to the handler.                             *)
LEMMA BytesGetPacket ==
  ASSUME Base, Places, Matched, BytesCounted, NEW c \in Contexts, GetPacket(c)
  PROVE  BytesCounted'
<1>1. /\ queue # <<>> /\ queue' = Tail(queue) /\ held'[c] = Head(queue)
      /\ \A d \in Contexts : d # c => held'[d] = held[d]
  BY MatchedGetPacket
<1>2. queue \in Seq(Packet) /\ Head(queue) \in Packet /\ Tail(queue) \in Seq(Packet)
  BY <1>1 DEF Base, Types
<1>3. qUsed' = qUsed /\ stop' = stop /\ task[c] = "firing" /\ GoTo(c, "sending")
  BY DEF GetPacket
<1>4. task'[c] = "sending" /\ \A d \in Contexts : d # c => task'[d] = task[d]
  BY <1>3, Went
<1>5. Total(BytesOf(queue)) = Head(queue).bytes + Total(BytesOf(queue'))
  BY <1>1, <1>2, BytesTotal
<1>6. InHandler(c) = 0 /\ InHandler(c)' = Head(queue).bytes
  BY <1>1, <1>3, <1>4 DEF InHandler
<1>7. \A d \in Contexts : d # c => InHandler(d)' = InHandler(d)
  BY <1>1, <1>4 DEF InHandler
<1>8. /\ \A d \in Contexts : InHandler(d) \in Nat
      /\ Total(BytesOf(queue')) \in Nat /\ Head(queue).bytes \in Nat
  BY <1>1, <1>2, BytesInsideNat, BytesTotal, PacketFields DEF Matched
<1>9. BytesInside' = BytesInside
  <2>1. CASE c = "main"
    BY <1>5, <1>6, <1>7, <1>8, <2>1 DEF BytesInside, Contexts
  <2>2. CASE c = "signal"
    BY <1>5, <1>6, <1>7, <1>8, <2>2 DEF BytesInside, Contexts
  <2> QED BY <2>1, <2>2 DEF Contexts
<1> QED BY <1>3, <1>9 DEF BytesCounted

(* decQUsed is never asked for more than was counted.                      *)
LEMMA NeverRefused ==
  ASSUME Base, Matched, BytesCounted, NEW c \in Contexts, task[c] = "sending"
  PROVE  /\ held[c].bytes \in Nat /\ held[c].bytes <= BytesInside /\ BytesInside <= qUsed
         /\ BytesInside \in Nat /\ qUsed \in Nat
<1>1. held[c].bytes \in Nat /\ InHandler(c) = held[c].bytes
      /\ \A d \in Contexts : InHandler(d) \in Nat
      /\ Total(BytesOf(queue)) \in Nat
  BY BytesInsideNat DEF Matched, InHandler
<1>2. qUsed \in Nat
  BY Constants DEF Base, Types
<1>3. BytesInside \in Nat /\ held[c].bytes <= BytesInside
  BY <1>1 DEF BytesInside, Contexts
<1> QED BY <1>1, <1>2, <1>3 DEF BytesCounted

(* sendHandler takes its packet's bytes out of qUsed, unless sendto fails. *)
LEMMA BytesReturn ==
  ASSUME Base, Places, Matched, BytesCounted, NEW c \in Contexts,
         LosePacket(c) \/ SendPacket(c) \/ SendFails(c)
  PROVE  BytesCounted'
<1>1. SendHandlerReturns(c) /\ Total(BytesOf(queue')) = Total(BytesOf(queue))
  BY ReturnKeepsQueue
<1>2. task[c] = "sending" /\ GoTo(c, Caller(c)) /\ Caller(c) \in {"flush", "timers"}
      /\ \A d \in Contexts : d # c => held'[d] = held[d]
  BY <1>1 DEF SendHandlerReturns, Caller, Base, Types
<1>3. task'[c] = Caller(c) /\ \A d \in Contexts : d # c => task'[d] = task[d]
  BY <1>2, Went
<1>4. InHandler(c)' = 0 /\ InHandler(c) = held[c].bytes
      /\ \A d \in Contexts : d # c => InHandler(d)' = InHandler(d)
  BY <1>2, <1>3 DEF InHandler
<1>5. /\ held[c].bytes \in Nat /\ held[c].bytes <= BytesInside /\ BytesInside <= qUsed
      /\ BytesInside \in Nat /\ qUsed \in Nat
  BY <1>2, NeverRefused
<1>6. /\ \A d \in Contexts : InHandler(d) \in Nat
      /\ Total(BytesOf(queue)) \in Nat
  BY BytesInsideNat DEF Matched
<1>7. BytesInside' = BytesInside - held[c].bytes
  <2>1. CASE c = "main"
    BY <1>1, <1>4, <1>5, <1>6, <2>1 DEF BytesInside, Contexts
  <2>2. CASE c = "signal"
    BY <1>1, <1>4, <1>5, <1>6, <2>2 DEF BytesInside, Contexts
  <2> QED BY <2>1, <2>2 DEF Contexts
<1>8. CASE Release(held[c].bytes)
  <2>1. qUsed' = qUsed - held[c].bytes /\ stop' = stop
    BY <1>5, <1>8 DEF Release
  <2> QED BY <1>5, <1>7, <2>1 DEF BytesCounted
<1>9. CASE SendFails(c)
  <2>1. qUsed' = qUsed /\ stop' = "error"
    BY <1>9 DEF SendFails
  <2> QED BY <1>5, <1>7, <2>1 DEF BytesCounted
<1> QED BY <1>8, <1>9 DEF LosePacket, SendPacket

(* Every step keeps qUsed in line with the packets inside.                 *)
LEMMA BytesNext == Base /\ Places /\ Matched /\ BytesCounted /\ [Next]_vars => BytesCounted'
<1> SUFFICES ASSUME Base, Places, Matched, BytesCounted, [Next]_vars
             PROVE  BytesCounted'
  OBVIOUS
<1>1. CASE UNCHANGED vars
  <2>1. \A c \in Contexts : InHandler(c)' = InHandler(c)
    BY <1>1 DEF vars, InHandler
  <2> QED BY <1>1, <2>1, BytesStill DEF vars
<1>2. CASE Idle
  <2>1. SamePlaces /\ queue' = queue /\ held' = held /\ qUsed' = qUsed
        /\ (stop' # "error" => stop # "error")
    BY <1>2, IdleKeeps
  <2>2. \A c \in Contexts : InHandler(c)' = InHandler(c)
    BY <2>1 DEF SamePlaces, InHandler
  <2> QED BY <2>1, <2>2, BytesStill
<1>3. CASE SetTimer
  <2>1. task["main"] = "adding" /\ task["signal"] = "off" /\ GoTo("main", LoopTop)
        /\ queue' = queue /\ qUsed' = qUsed /\ stop' = stop
    BY <1>3 DEF SetTimer, Runs
  <2>2. task'["main"] = LoopTop /\ task'["signal"] = task["signal"]
    BY <2>1, Went DEF Contexts
  <2>3. \A c \in Contexts : InHandler(c)' = InHandler(c)
    BY <2>1, <2>2 DEF InHandler, LoopTop, Contexts
  <2> QED BY <2>1, <2>3, BytesStill
<1>4. ASSUME NEW c \in Contexts, FireTimer(c)
      PROVE  BytesCounted'
  <2>1. task[c] \in {"timers", "flush"} /\ GoTo(c, "firing") /\ held' = held
        /\ queue' = queue /\ qUsed' = qUsed /\ stop' = stop
    BY <1>4 DEF FireTimer, Caller
  <2>2. task'[c] = "firing" /\ \A d \in Contexts : d # c => task'[d] = task[d]
    BY <2>1, Went
  <2>3. \A d \in Contexts : InHandler(d)' = InHandler(d)
    BY <2>1, <2>2 DEF InHandler
  <2> QED BY <2>1, <2>3, BytesStill
<1> QED BY <1>1, <1>2, <1>3, <1>4, Actions, BytesAccept, BytesGetPacket, BytesReturn

----------------------------------------------------------------------------
(* The statistics.                                                         *)

Sending == At("main", "sending") + At("signal", "sending")

(* StatisticsAddUp without cardinalities.                                  *)
StatsAddUp ==
  stop # "error" /\ task["main"] # "crashed" =>
    /\ arrived = stat.rejPack + stat.congPack + stat.rPacket + At("main", "adding")
    /\ stat.rPacket + At("main", "adding") =
         stat.sPacket + stat.randomLoss + Len(queue) + Sending

(* The invariant implies the property, which counts contexts in sets.      *)
LEMMA StatsAddUpIs ==
  ASSUME Base, Places, StatsAddUp
  PROVE  StatisticsAddUp
<1>1. Cardinality(In("adding")) = At("main", "adding")
  <2>1. At("signal", "adding") = 0 /\ At("main", "adding") \in Nat
    BY DEF Places, At
  <2> QED BY <2>1, CountIn
<1>2. Cardinality(In("sending")) = Sending
  BY CountIn DEF Sending
<1>3. stat \in [DOMAIN NoneCounted -> Nat] /\ Len(queue) \in Nat /\ Sending \in Nat
  BY DEF Base, Types, Sending, At
<1>4. stat.sPacket \in Nat /\ stat.randomLoss \in Nat
  BY <1>3 DEF NoneCounted
<1> QED BY <1>1, <1>2, <1>3, <1>4 DEF StatsAddUp, StatisticsAddUp

(* The counters are numbers, and one is counted at a time.                 *)
LEMMA CountersNat ==
  ASSUME Base
  PROVE  /\ stat.rejPack \in Nat /\ stat.congPack \in Nat /\ stat.rPacket \in Nat
         /\ stat.sPacket \in Nat /\ stat.randomLoss \in Nat /\ arrived \in Nat
         /\ Len(queue) \in Nat
         /\ \A c \in Contexts, place \in TaskPlaces : At(c, place) \in {0, 1}
<1>1. stat \in [DOMAIN NoneCounted -> Nat] /\ arrived \in Nat /\ queue \in Seq(Packet)
  BY Constants DEF Base, Types
<1>2. \A c \in Contexts, place \in TaskPlaces : At(c, place) \in {0, 1}
  BY DEF At
<1> QED BY <1>1, <1>2 DEF NoneCounted

(* Counting changes one of the statistics.                                 *)
LEMMA CountOne ==
  ASSUME Base, NEW field \in DOMAIN NoneCounted, Count(field)
  PROVE  /\ stat'[field] = stat[field] + 1
         /\ \A f \in DOMAIN NoneCounted : f # field => stat'[f] = stat[f]
BY DEF Count, Base, Types

(* At the start nothing has arrived and nothing is counted.                *)
LEMMA StatsInit == Init => StatsAddUp
<1> SUFFICES ASSUME Init PROVE StatsAddUp
  OBVIOUS
<1>1. At("main", "adding") = 0 /\ Sending = 0
  BY DEF Init, At, Sending
<1>2. stat.rejPack = 0 /\ stat.congPack = 0 /\ stat.rPacket = 0 /\ stat.sPacket = 0
      /\ stat.randomLoss = 0 /\ arrived = 0 /\ Len(queue) = 0
  BY DEF Init, NoneCounted
<1> QED BY <1>1, <1>2 DEF StatsAddUp

(* A datagram that readHandler does not queue is counted once.             *)
LEMMA StatsIdle ==
  ASSUME Base, Places, StatsAddUp, Idle
  PROVE  StatsAddUp'
<1> USE DEF NoneCounted
<1>1. SamePlaces /\ queue' = queue /\ (stop' # "error" => stop # "error")
  BY IdleKeeps
<1>2. At("main", "adding")' = At("main", "adding") /\ Sending' = Sending
  BY <1>1 DEF SamePlaces, At, Sending, Contexts
<1>3. /\ stat.rejPack \in Nat /\ stat.congPack \in Nat /\ stat.rPacket \in Nat
      /\ stat.sPacket \in Nat /\ stat.randomLoss \in Nat /\ arrived \in Nat
      /\ At("main", "adding") \in {0, 1}
  BY CountersNat DEF TaskPlaces, Contexts
<1>4. task \in [Contexts -> TaskPlaces] /\ Contexts = {"main", "signal"}
  BY DEF Base, Types, Contexts
<1>5. ASSUME stat' = stat, arrived' = arrived, task'["main"] # "crashed" => task["main"] # "crashed"
      PROVE  StatsAddUp'
  BY <1>1, <1>2, <1>5 DEF StatsAddUp
<1>6. CASE Tick
  BY <1>5, <1>6 DEF Tick
<1>7. CASE EnterSelect \/ SelectReturns \/ StopCommand \/ Interrupt \/ \E c \in Contexts : FlushDone(c)
  <2>1. stat' = stat /\ arrived' = arrived
    BY <1>7 DEF EnterSelect, SelectReturns, StopCommand, Interrupt, FlushDone
  <2>2. task["main"] # "crashed"
    BY <1>7 DEF EnterSelect, SelectReturns, StopCommand, Interrupt, FlushDone, Runs
  <2> QED BY <1>5, <2>1, <2>2
<1>8. CASE ReceiveFails
  BY <1>8 DEF ReceiveFails, StatsAddUp
<1>9. ASSUME NEW from \in Senders, Reject(from)
      PROVE  StatsAddUp'
  <2>1. Count("rejPack") /\ arrived' = arrived + 1 /\ stop' = stop /\ task["main"] # "crashed"
    BY <1>9 DEF Reject, Arrival, Runs
  <2>2. stat'.rejPack = stat.rejPack + 1 /\ stat'.congPack = stat.congPack
        /\ stat'.rPacket = stat.rPacket /\ stat'.sPacket = stat.sPacket
        /\ stat'.randomLoss = stat.randomLoss
    BY <2>1, CountOne
  <2>3. SUFFICES ASSUME stop # "error"
                 PROVE  /\ arrived' = stat'.rejPack + stat'.congPack + stat'.rPacket + At("main", "adding")'
                        /\ stat'.rPacket + At("main", "adding")' =
                             stat'.sPacket + stat'.randomLoss + Len(queue') + Sending'
    BY <2>1 DEF StatsAddUp
  <2>4. /\ arrived = stat.rejPack + stat.congPack + stat.rPacket + At("main", "adding")
        /\ stat.rPacket + At("main", "adding") =
             stat.sPacket + stat.randomLoss + Len(queue) + Sending
    BY <2>1, <2>3 DEF StatsAddUp
  <2>5. arrived + 1 = stat'.rejPack + stat'.congPack + stat.rPacket + At("main", "adding")
    BY <1>3, <2>2, <2>4, SMTT(30)
  <2> QED BY <1>1, <1>2, <2>1, <2>2, <2>4, <2>5
<1>10. ASSUME NEW b \in Sizes, TooLarge(b) \/ Congestion(b)
       PROVE  StatsAddUp'
  <2>1. Count("congPack") /\ arrived' = arrived + 1 /\ stop' = stop /\ task["main"] # "crashed"
    BY <1>10 DEF TooLarge, Congestion, Accepted, Arrival, Runs
  <2>2. stat'.rejPack = stat.rejPack /\ stat'.congPack = stat.congPack + 1
        /\ stat'.rPacket = stat.rPacket /\ stat'.sPacket = stat.sPacket
        /\ stat'.randomLoss = stat.randomLoss
    BY <2>1, CountOne
  <2>3. SUFFICES ASSUME stop # "error"
                 PROVE  /\ arrived' = stat'.rejPack + stat'.congPack + stat'.rPacket + At("main", "adding")'
                        /\ stat'.rPacket + At("main", "adding")' =
                             stat'.sPacket + stat'.randomLoss + Len(queue') + Sending'
    BY <2>1 DEF StatsAddUp
  <2>4. /\ arrived = stat.rejPack + stat.congPack + stat.rPacket + At("main", "adding")
        /\ stat.rPacket + At("main", "adding") =
             stat.sPacket + stat.randomLoss + Len(queue) + Sending
    BY <2>1, <2>3 DEF StatsAddUp
  <2>5. arrived + 1 = stat'.rejPack + stat'.congPack + stat.rPacket + At("main", "adding")
    BY <1>3, <2>2, <2>4, SMTT(30)
  <2> QED BY <1>1, <1>2, <2>1, <2>2, <2>4, <2>5
<1>11. ASSUME NEW b \in Sizes, DivideByZero(b)
       PROVE  StatsAddUp'
  <2>1. task'["main"] = "crashed"
    BY <1>4, <1>11 DEF DivideByZero, GoTo
  <2> QED BY <2>1 DEF StatsAddUp
<1> QED BY <1>6, <1>7, <1>8, <1>9, <1>10, <1>11 DEF Idle

(* A packet that it does queue is counted when its timer is set.           *)
LEMMA StatsAccept ==
  ASSUME Base, Places, Matched, BytesCounted, StatsAddUp, NEW b \in Sizes, Accept(b)
  PROVE  StatsAddUp'
<1>1. /\ stat' = stat /\ stop' = stop /\ task["main"] = "select" /\ task["signal"] = "off"
      /\ GoTo("main", "adding") /\ arrived' = arrived + 1
  BY DEF Accept, Accepted, Arrival, Runs
<1>2. Len(queue') = Len(queue) + 1
  BY MatchedAccept DEF Base, Types
<1>3. task'["main"] = "adding" /\ task'["signal"] = task["signal"]
  BY <1>1, Went DEF Contexts
<1>4. /\ At("main", "adding") = 0 /\ At("main", "adding")' = 1 /\ Sending = 0 /\ Sending' = 0
  BY <1>1, <1>3 DEF At, Sending
<1>5. /\ stat.rejPack \in Nat /\ stat.congPack \in Nat /\ stat.rPacket \in Nat
      /\ stat.sPacket \in Nat /\ stat.randomLoss \in Nat /\ arrived \in Nat /\ Len(queue) \in Nat
  BY CountersNat
<1>6. stop # "error" =>
        /\ arrived = stat.rejPack + stat.congPack + stat.rPacket
        /\ stat.rPacket = stat.sPacket + stat.randomLoss + Len(queue)
  BY <1>1, <1>4, <1>5 DEF StatsAddUp
<1> QED BY <1>1, <1>2, <1>4, <1>5, <1>6, SMTT(30) DEF StatsAddUp

(* A packet counts as received when its timer is set.                      *)
LEMMA StatsSetTimer ==
  ASSUME Base, Places, StatsAddUp, SetTimer
  PROVE  StatsAddUp'
<1>1. /\ Count("rPacket") /\ stop' = stop /\ task["main"] = "adding" /\ task["signal"] = "off"
      /\ GoTo("main", LoopTop) /\ arrived' = arrived /\ queue' = queue
  BY DEF SetTimer, Runs
<1>2. task'["main"] = LoopTop /\ task'["signal"] = task["signal"]
  BY <1>1, Went DEF Contexts
<1>3. /\ At("main", "adding") = 1 /\ At("main", "adding")' = 0 /\ Sending = 0 /\ Sending' = 0
  BY <1>1, <1>2 DEF At, Sending, LoopTop
<1>4. stat'.rejPack = stat.rejPack /\ stat'.congPack = stat.congPack
      /\ stat'.rPacket = stat.rPacket + 1 /\ stat'.sPacket = stat.sPacket
      /\ stat'.randomLoss = stat.randomLoss
  BY <1>1, CountOne DEF NoneCounted
<1>5. /\ stat.rejPack \in Nat /\ stat.congPack \in Nat /\ stat.rPacket \in Nat
      /\ stat.sPacket \in Nat /\ stat.randomLoss \in Nat /\ arrived \in Nat /\ Len(queue) \in Nat
  BY CountersNat
<1> QED BY <1>1, <1>3, <1>4, <1>5, SMTT(30) DEF StatsAddUp

(* A packet moves from the queue into sendHandler.                         *)
LEMMA StatsGetPacket ==
  ASSUME Base, Places, Matched, StatsAddUp, NEW c \in Contexts, GetPacket(c)
  PROVE  StatsAddUp'
<1>1. /\ stat' = stat /\ stop' = stop /\ task[c] = "firing" /\ GoTo(c, "sending")
      /\ arrived' = arrived /\ task["main"] # "crashed"
  BY DEF GetPacket, Runs
<1>2. Len(queue') = Len(queue) - 1
  <2>1. queue # <<>> /\ queue' = Tail(queue) /\ queue \in Seq(Packet)
    BY MatchedGetPacket DEF Base, Types
  <2> QED BY <2>1
<1>3. task'[c] = "sending" /\ \A d \in Contexts : d # c => task'[d] = task[d]
  BY <1>1, Went
<1>4. /\ At("main", "adding")' = At("main", "adding") /\ At("main", "adding") \in Nat
      /\ Sending' = Sending + 1 /\ Sending \in Nat
  <2>1. CASE c = "main"
    BY <1>1, <1>3, <2>1 DEF At, Sending, Contexts
  <2>2. CASE c = "signal"
    BY <1>1, <1>3, <2>2 DEF At, Sending, Contexts
  <2> QED BY <2>1, <2>2 DEF Contexts
<1>5. /\ stat.rPacket \in Nat /\ stat.sPacket \in Nat /\ stat.randomLoss \in Nat /\ Len(queue) \in Nat
  BY CountersNat
<1> QED BY <1>1, <1>2, <1>4, <1>5, SMTT(30) DEF StatsAddUp

(* Sent or lost, it is counted once, unless the program ends.              *)
LEMMA StatsReturn ==
  ASSUME Base, Places, Matched, BytesCounted, StatsAddUp, NEW c \in Contexts,
         LosePacket(c) \/ SendPacket(c) \/ SendFails(c)
  PROVE  StatsAddUp'
<1>1. SendHandlerReturns(c) /\ Len(queue') = Len(queue)
  BY ReturnKeepsQueue
<1>2. task[c] = "sending" /\ GoTo(c, Caller(c)) /\ Caller(c) \in {"flush", "timers"}
      /\ arrived' = arrived /\ task["main"] # "crashed"
  BY <1>1 DEF SendHandlerReturns, Caller, Runs
<1>3. task'[c] = Caller(c) /\ \A d \in Contexts : d # c => task'[d] = task[d]
  BY <1>2, Went
<1>4. /\ At("main", "adding")' = At("main", "adding") /\ At("main", "adding") \in Nat
      /\ Sending = Sending' + 1 /\ Sending' \in Nat
  <2>1. CASE c = "main"
    BY <1>2, <1>3, <2>1 DEF At, Sending, Contexts
  <2>2. CASE c = "signal"
    BY <1>2, <1>3, <2>2 DEF At, Sending, Contexts
  <2> QED BY <2>1, <2>2 DEF Contexts
<1>5. /\ stat.rejPack \in Nat /\ stat.congPack \in Nat /\ stat.rPacket \in Nat
      /\ stat.sPacket \in Nat /\ stat.randomLoss \in Nat /\ arrived \in Nat /\ Len(queue) \in Nat
  BY CountersNat
<1>6. ASSUME NEW field \in {"sPacket", "randomLoss"}, Count(field), stop' = stop
      PROVE  StatsAddUp'
  <2>1. stat'.rejPack = stat.rejPack /\ stat'.congPack = stat.congPack /\ stat'.rPacket = stat.rPacket
        /\ stat'.sPacket + stat'.randomLoss = stat.sPacket + stat.randomLoss + 1
        /\ stat'.sPacket \in Nat /\ stat'.randomLoss \in Nat
    <3>1. CASE field = "sPacket"
      BY <1>5, <1>6, <3>1, CountOne DEF NoneCounted
    <3>2. CASE field = "randomLoss"
      BY <1>5, <1>6, <3>2, CountOne DEF NoneCounted
    <3> QED BY <3>1, <3>2
  <2>2. SUFFICES ASSUME stop # "error"
                 PROVE  /\ arrived' = stat'.rejPack + stat'.congPack + stat'.rPacket + At("main", "adding")'
                        /\ stat'.rPacket + At("main", "adding")' =
                             stat'.sPacket + stat'.randomLoss + Len(queue') + Sending'
    BY <1>6 DEF StatsAddUp
  <2>3. /\ arrived = stat.rejPack + stat.congPack + stat.rPacket + At("main", "adding")
        /\ stat.rPacket + At("main", "adding") =
             stat.sPacket + stat.randomLoss + Len(queue) + Sending
    BY <1>2, <2>2 DEF StatsAddUp
  <2>4. stat.sPacket + stat.randomLoss + Len(queue) + Sending
          = stat'.sPacket + stat'.randomLoss + Len(queue) + Sending'
    <3> DEFINE x == stat'.sPacket + stat'.randomLoss
               y == stat.sPacket + stat.randomLoss
               m == Len(queue)
               z == Sending'
    <3>1. x = y + 1 /\ x \in Nat /\ y \in Nat /\ m \in Nat /\ z \in Nat /\ Sending = z + 1
      BY <1>4, <1>5, <2>1, SMTT(30)
    <3> HIDE DEF x, y, m, z
    <3>2. y + m + Sending = x + m + z
      BY <3>1
    <3> QED BY <3>2 DEF x, y, m, z
  <2> QED BY <1>1, <1>2, <1>4, <2>1, <2>3, <2>4
<1>7. /\ held[c].bytes \in Nat /\ held[c].bytes <= qUsed /\ qUsed \in Nat
  BY <1>2, NeverRefused
<1>8. CASE LosePacket(c)
  <2>1. Count("randomLoss") /\ stop' = stop
    BY <1>7, <1>8 DEF LosePacket, Release
  <2> QED BY <1>6, <2>1
<1>9. CASE SendPacket(c)
  <2>1. Count("sPacket") /\ stop' = stop
    BY <1>7, <1>9 DEF SendPacket, Release
  <2> QED BY <1>6, <2>1
<1>10. CASE SendFails(c)
  BY <1>10 DEF SendFails, StatsAddUp
<1> QED BY <1>8, <1>9, <1>10

(* Every step keeps the account of the packets.                            *)
LEMMA StatsNext ==
  Base /\ Places /\ Matched /\ BytesCounted /\ StatsAddUp /\ [Next]_vars => StatsAddUp'
<1> SUFFICES ASSUME Base, Places, Matched, BytesCounted, StatsAddUp, [Next]_vars
             PROVE  StatsAddUp'
  OBVIOUS
<1>1. CASE UNCHANGED vars
  BY <1>1 DEF vars, StatsAddUp, At, Sending
<1>2. ASSUME NEW c \in Contexts, FireTimer(c)
      PROVE  StatsAddUp'
  <2>1. task[c] \in {"timers", "flush"} /\ GoTo(c, "firing") /\ queue' = queue /\ stop' = stop
        /\ stat' = stat /\ arrived' = arrived /\ task["main"] # "crashed"
    BY <1>2 DEF FireTimer, Caller, Runs
  <2>2. task'[c] = "firing" /\ \A d \in Contexts : d # c => task'[d] = task[d]
    BY <2>1, Went
  <2>3. At("main", "adding")' = At("main", "adding") /\ Sending' = Sending
    BY <2>1, <2>2 DEF At, Sending, Contexts
  <2> QED BY <2>1, <2>3 DEF StatsAddUp
<1> QED BY <1>1, <1>2, Actions, StatsIdle, StatsAccept, StatsSetTimer, StatsGetPacket, StatsReturn

----------------------------------------------------------------------------
(* What holds for every choice of the options.                             *)

(* The inductive invariant: types and the order of the timers, where the   *)
(* contexts can be, the match of timers and packets, the bytes, and the    *)
(* statistics.  The match needs the bytes (a full queue would drop a       *)
(* packet and keep its timer), the bytes need the match (a handler that    *)
(* finds no packet would release what was never counted).                  *)
Sound == Base /\ Places /\ Flushed /\ Matched /\ BytesCounted /\ StatsAddUp

(* The parts of the invariant that hold whatever the options are.          *)
LEMMA Soundness ==
  ASSUME RoomByBytes
  PROVE  Spec => []Sound
<1>1. Init => Sound
  BY BaseInit, PlacesInit, MatchedInit, BytesInit, StatsInit DEF Sound
<1>2. Sound /\ [Next]_vars => Sound'
  BY BaseNext, PlacesNext, MatchedNext, BytesNext, StatsNext DEF Sound
<1> QED BY <1>1, <1>2, PTL DEF Spec

(* qUsed is the bytes of the packets in the queue and in the handlers,     *)
(* whatever readHandler, sendHandler and a SIGINT on top of them do.       *)
THEOREM QUsedCorrect ==
  ASSUME RoomByBytes
  PROVE  Spec => []QUsedIsBytesQueued
<1>1. Sound => QUsedIsBytesQueued
  BY BytesCountedIs DEF Sound
<1> QED BY <1>1, Soundness, PTL

(* The printed statistics account for every packet, once.                  *)
THEOREM StatisticsCorrect ==
  ASSUME RoomByBytes
  PROVE  Spec => []StatisticsAddUp
<1>1. Sound => StatisticsAddUp
  BY StatsAddUpIs DEF Sound
<1> QED BY <1>1, Soundness, PTL

(* A stop by command or by SIGINT leaves at most one packet behind, and    *)
(* none if no SIGINT came.                                                 *)
THEOREM StopsClean ==
  ASSUME RoomByBytes
  PROVE  Spec => []AtMostOneLeft
<1>1. ASSUME Sound, task["main"] = "stopped", stop = "quit"
      PROVE  Len(queue) <= 1 /\ Len(timerQ) = Len(queue) /\ (signals = 0 => queue = <<>>)
  <2>1. Len(timerQ) <= 1 /\ (signals = 0 => timerQ = <<>>)
    BY <1>1 DEF Sound, Flushed
  <2>2. task["signal"] = "off"
    BY <1>1 DEF Sound, Places
  <2>3. At("main", "firing") = 0 /\ At("signal", "firing") = 0 /\ At("main", "adding") = 0
    BY <1>1, <2>2 DEF At
  <2>4. queue \in Seq(Packet) /\ timerQ \in Seq(Timer)
    BY <1>1 DEF Sound, Base, Types
  <2>5. Len(queue) = Len(timerQ) /\ Len(timerQ) \in Nat
    BY <1>1, <2>3, <2>4 DEF Sound, Matched, Counted
  <2>6. timerQ = <<>> => queue = <<>>
    BY <2>4, <2>5
  <2> QED BY <2>1, <2>5, <2>6
<1>2. Sound => AtMostOneLeft
  BY <1>1 DEF AtMostOneLeft
<1> QED BY <1>2, Soundness, PTL

----------------------------------------------------------------------------
(* Departures, without -O: a packet's delay is over when it is sent.       *)

Firing == At("main", "firing") + At("signal", "firing")

(* Packets come and leave in the order of their times.                     *)
QueueInOrder ==
  /\ \A i, j \in 1..Len(queue) : i < j => queue[i].at <= queue[j].at
  /\ \A i \in 1..Len(queue) : queue[i].at <= now

(* The packet whose timer is still to be set is the last.                  *)
AddsLast == task["main"] = "adding" => Len(queue) > 0 /\ queue[Len(queue)] = held["main"]

(* The packets at the front are those of the timers that have fired, the   *)
(* others follow in the order of the timers.                               *)
FiredInTime == \A i \in 1..Firing : queue[i].at + delay <= now

TimersInTime == \A i \in 1..Len(timerQ) : queue[i + Firing].at + delay <= timerQ[i].time

SendsInTime == \A c \in Contexts : task[c] = "sending" => held[c].at + delay <= now

Departures == QueueInOrder /\ AddsLast /\ FiredInTime /\ TimersInTime /\ SendsInTime

(* What the steps of this part need of the other invariants.               *)
LEMMA QueueTypes ==
  ASSUME Base, Matched
  PROVE  /\ task \in [Contexts -> TaskPlaces] /\ Contexts = {"main", "signal"}
         /\ queue \in Seq(Packet) /\ timerQ \in Seq(Timer) /\ Len(queue) \in Nat /\ Len(timerQ) \in Nat
         /\ now \in Nat /\ delay \in Nat /\ held \in [Contexts -> Packet \cup Garbage]
         /\ Firing \in Nat /\ At("main", "adding") \in {0, 1}
         /\ Len(queue) = Len(timerQ) + Firing + At("main", "adding")
         /\ \A i \in 1..Len(queue) : queue[i] \in Packet /\ queue[i].at \in Nat
         /\ \A i \in 1..Len(timerQ) : timerQ[i].time \in Nat
<1>1. queue \in Seq(Packet) /\ timerQ \in Seq(Timer) /\ now \in Nat /\ delay \in Nat
      /\ task \in [Contexts -> TaskPlaces] /\ Contexts = {"main", "signal"}
      /\ held \in [Contexts -> Packet \cup Garbage]
  BY Constants DEF Base, Types, Contexts
<1>2. Len(queue) \in Nat /\ Len(timerQ) \in Nat /\ \A i \in 1..Len(queue) : queue[i] \in Packet
  BY <1>1
<1>3. \A i \in 1..Len(queue) : queue[i].at \in Nat
  BY <1>2, PacketFields
<1>4. \A i \in 1..Len(timerQ) : timerQ[i].time \in Nat
  BY <1>1, TimerFields
<1>5. Firing \in Nat /\ At("main", "adding") \in {0, 1}
  BY DEF Firing, At
<1>6. Len(queue) = Len(timerQ) + Firing + At("main", "adding")
  <2>1. At("main", "firing") \in Nat /\ At("signal", "firing") \in Nat
    BY DEF At
  <2> QED BY <1>2, <1>5, <2>1 DEF Matched, Counted, Firing
<1> QED BY <1>1, <1>2, <1>3, <1>4, <1>5, <1>6

(* At the start there is no packet that could leave early.                 *)
LEMMA DeparturesInit == Init => Departures
<1> SUFFICES ASSUME Init PROVE Departures
  OBVIOUS
<1>1. Firing = 0 /\ queue = <<>> /\ timerQ = <<>>
  BY DEF Init, Firing, At
<1>2. QueueInOrder /\ FiredInTime /\ TimersInTime
  BY <1>1 DEF QueueInOrder, FiredInTime, TimersInTime
<1>3. AddsLast /\ SendsInTime
  BY DEF Init, AddsLast, SendsInTime, Contexts
<1> QED BY <1>2, <1>3 DEF Departures

(* Time may pass.                                                          *)
LEMMA DeparturesStill ==
  ASSUME Base, Matched, Departures, SamePlaces, queue' = queue, timerQ' = timerQ, held' = held,
         now <= now', now' \in Nat
  PROVE  Departures'
<1>1. Firing' = Firing
  BY DEF SamePlaces, Firing, At, Contexts
<1>2. /\ Contexts = {"main", "signal"} /\ Len(queue) \in Nat /\ Len(timerQ) \in Nat
      /\ now \in Nat /\ delay \in Nat /\ Firing \in Nat
      /\ Len(queue) = Len(timerQ) + Firing + At("main", "adding") /\ At("main", "adding") \in {0, 1}
      /\ \A i \in 1..Len(queue) : queue[i].at \in Nat
  BY QueueTypes
<1>3. QueueInOrder'
  <2>1. \A i, j \in 1..Len(queue) : i < j => queue[i].at <= queue[j].at
    BY DEF Departures, QueueInOrder
  <2>2. \A i \in 1..Len(queue) : queue[i].at <= now'
    BY <1>2 DEF Departures, QueueInOrder
  <2> QED BY <2>1, <2>2 DEF QueueInOrder
<1>4. AddsLast'
  BY <1>2 DEF Departures, AddsLast, SamePlaces
<1>5. FiredInTime'
  <2> SUFFICES ASSUME NEW i \in 1..Firing
               PROVE  queue[i].at + delay <= now'
    BY <1>1 DEF FiredInTime
  <2>1. i \in 1..Len(queue) /\ queue[i].at + delay <= now
    BY <1>2 DEF Departures, FiredInTime
  <2> QED BY <1>2, <2>1
<1>6. TimersInTime'
  BY <1>1 DEF Departures, TimersInTime
<1>7. SendsInTime'
  <2> SUFFICES ASSUME NEW c \in Contexts, task'[c] = "sending"
               PROVE  held[c].at + delay <= now'
    BY DEF SendsInTime
  <2>1. task[c] = "sending" /\ held[c].at + delay <= now
    BY DEF SamePlaces, Departures, SendsInTime
  <2>2. held[c].at \in Nat
    BY <2>1, PacketFields DEF Matched, HoldsPackets
  <2> QED BY <1>2, <2>1, <2>2
<1> QED BY <1>3, <1>4, <1>5, <1>6, <1>7 DEF Departures

(* A new packet is the last to have come.                                  *)
LEMMA DeparturesAccept ==
  ASSUME Base, Places, Matched, BytesCounted, Departures, NEW b \in Sizes, Accept(b)
  PROVE  Departures'
<1> DEFINE p == assembleItem(b)
<1>1. queue' = Append(queue, p) /\ p \in Packet
  BY MatchedAccept
<1>2. p.at = now /\ now' = now /\ timerQ' = timerQ /\ held' = [held EXCEPT !["main"] = p]
      /\ task["main"] = "select" /\ task["signal"] = "off" /\ GoTo("main", "adding")
  BY DEF assembleItem, Accept, Accepted, Arrival, Runs
<1> HIDE DEF p
<1>3. /\ Contexts = {"main", "signal"} /\ Len(queue) \in Nat /\ Len(timerQ) \in Nat
      /\ now \in Nat /\ queue \in Seq(Packet) /\ held \in [Contexts -> Packet \cup Garbage]
      /\ \A i \in 1..Len(queue) : queue[i].at \in Nat
  BY QueueTypes
<1>4. task'["main"] = "adding" /\ task'["signal"] = "off"
  BY <1>2, <1>3, Went
<1>5. Firing = 0 /\ Firing' = 0 /\ At("main", "adding") = 0
  BY <1>2, <1>4 DEF Firing, At
<1>6. Len(timerQ) = Len(queue)
  BY <1>3, <1>5, QueueTypes
<1>7. /\ Len(queue') = Len(queue) + 1 /\ queue'[Len(queue')] = p
      /\ \A i \in 1..Len(queue) : queue'[i] = queue[i]
  BY <1>1, <1>3
<1>8. \A i \in 1..Len(queue') : \/ i \in 1..Len(queue) /\ queue'[i] = queue[i] /\ queue[i].at <= now
                                \/ i = Len(queue') /\ queue'[i].at = now
  <2> SUFFICES ASSUME NEW i \in 1..Len(queue')
               PROVE  \/ i \in 1..Len(queue) /\ queue'[i] = queue[i] /\ queue[i].at <= now
                      \/ i = Len(queue') /\ queue'[i].at = now
    OBVIOUS
  <2>1. CASE i = Len(queue')
    BY <1>2, <1>7, <2>1
  <2>2. CASE i # Len(queue')
    <3>1. i \in 1..Len(queue)
      BY <1>3, <1>7, <2>2
    <3> QED BY <1>7, <3>1 DEF Departures, QueueInOrder
  <2> QED BY <2>1, <2>2
<1>9. QueueInOrder'
  <2>1. ASSUME NEW i \in 1..Len(queue'), NEW j \in 1..Len(queue'), i < j
        PROVE  queue'[i].at <= queue'[j].at
    <3>1. i \in 1..Len(queue) /\ queue'[i] = queue[i] /\ queue[i].at <= now
      BY <1>3, <1>7, <1>8, <2>1
    <3>2. CASE j \in 1..Len(queue)
      BY <1>7, <2>1, <3>1, <3>2 DEF Departures, QueueInOrder
    <3>3. CASE queue'[j].at = now
      BY <3>1, <3>3
    <3> QED BY <1>8, <3>2, <3>3
  <2>2. \A i \in 1..Len(queue') : queue'[i].at <= now'
    BY <1>2, <1>3, <1>8
  <2> QED BY <2>1, <2>2 DEF QueueInOrder
<1>10. AddsLast'
  BY <1>2, <1>3, <1>7 DEF AddsLast
<1>11. FiredInTime'
  BY <1>5 DEF FiredInTime
<1>12. TimersInTime'
  <2> SUFFICES ASSUME NEW i \in 1..Len(timerQ)
               PROVE  queue'[i + 0].at + delay <= timerQ[i].time
    BY <1>2, <1>5 DEF TimersInTime
  <2>1. i + 0 = i /\ i \in 1..Len(queue)
    BY <1>6
  <2>2. queue[i + 0].at + delay <= timerQ[i].time
    BY <1>5 DEF Departures, TimersInTime
  <2> QED BY <1>7, <2>1, <2>2
<1>13. SendsInTime'
  BY <1>3, <1>4 DEF SendsInTime
<1> QED BY <1>9, <1>10, <1>11, <1>12, <1>13 DEF Departures

(* The last packet's timer goes behind those that expire no later; every   *)
(* timer that it goes before moves on to the next packet, whose time is no *)
(* later than the last one's.                                              *)
LEMMA DeparturesSetTimer ==
  ASSUME Base, Places, Matched, Departures, SetTimer
  PROVE  Departures'
<1> DEFINE place == Place(timerQ, NewTime)
           m == Len(queue)
<1>1. /\ queue' = queue /\ now' = now /\ held' = [held EXCEPT !["main"] = NoPacket]
      /\ task["main"] = "adding" /\ task["signal"] = "off" /\ GoTo("main", LoopTop)
  BY DEF SetTimer, Runs
<1>2. /\ Contexts = {"main", "signal"} /\ m \in Nat /\ Len(timerQ) \in Nat
      /\ now \in Nat /\ delay \in Nat /\ held \in [Contexts -> Packet \cup Garbage]
      /\ \A i \in 1..m : queue[i].at \in Nat
      /\ \A i \in 1..Len(timerQ) : timerQ[i].time \in Nat
  BY QueueTypes
<1>3. task'["main"] \in {"timers", "stopped"} /\ task'["signal"] = "off"
  <2>1. task'["main"] = LoopTop /\ task'["signal"] = task["signal"]
    BY <1>1, <1>2, Went
  <2> QED BY <1>1, <2>1 DEF LoopTop
<1>4. Firing = 0 /\ Firing' = 0 /\ At("main", "adding") = 1
  BY <1>1, <1>3 DEF Firing, At
<1>5. m = Len(timerQ) + 1
  BY <1>2, <1>4, QueueTypes
<1>6. queue[m] = held["main"] /\ m \in 1..m /\ queue[m].at \in Nat
  BY <1>1, <1>2, <1>5 DEF Departures, AddsLast
<1>7. NewTime \in Nat /\ queue[m].at + delay <= NewTime
  <2> DEFINE p == held["main"]
  <2>1. p \in Packet /\ prvIntervled \in Nat
    BY <1>1 DEF Base, HoldsQueued, Types
  <2>2. NewTime = Departure(p.bytes, p.at)
    BY DEF NewTime
  <2> HIDE DEF p
  <2>3. p.bytes \in Nat /\ p.at \in Nat
    BY <2>1, PacketFields
  <2>4. Departure(p.bytes, p.at) \in Nat /\ p.at + delay <= Departure(p.bytes, p.at)
    BY <2>1, <2>3, DepartureAfter
  <2> QED BY <1>6, <2>2, <2>4 DEF p
<1>8. \A i \in 1..m : queue[i].at + delay <= NewTime
  <2> SUFFICES ASSUME NEW i \in 1..m
               PROVE  queue[i].at + delay <= NewTime
    OBVIOUS
  <2>1. queue[i].at <= queue[m].at
    <3>1. CASE i = m
      BY <1>6, <3>1
    <3>2. CASE i < m
      BY <1>6, <3>2 DEF Departures, QueueInOrder
    <3> QED BY <1>2, <3>1, <3>2
  <2>2. queue[i].at \in Nat
    BY <1>2
  <2> QED BY <1>2, <1>6, <1>7, <2>1, <2>2
<1>9. \A i \in 1..Len(timerQ) : queue[i].at + delay <= timerQ[i].time
  <2> SUFFICES ASSUME NEW i \in 1..Len(timerQ)
               PROVE  queue[i].at + delay <= timerQ[i].time
    OBVIOUS
  <2>1. i + 0 = i
    OBVIOUS
  <2>2. queue[i + 0].at + delay <= timerQ[i].time
    BY <1>4 DEF Departures, TimersInTime
  <2> QED BY <2>1, <2>2
<1>10. Len(timerQ') = m
  BY <1>5, TimerAdded
<1>11. \A i \in 1..m :
         \/ i = place /\ timerQ'[i].client = rUdpC' /\ timerQ'[i].time = NewTime
         \/ i < place /\ i \in 1..Len(timerQ) /\ timerQ'[i] = timerQ[i]
            /\ timerQ[i].time <= NewTime
         \/ i > place /\ i - 1 \in 1..Len(timerQ) /\ timerQ'[i] = timerQ[i - 1]
            /\ NewTime < timerQ[i - 1].time
  BY <1>10, TimerAdded
<1> HIDE DEF place, m
<1>12. ASSUME NEW i \in 1..m
       PROVE  queue[i].at + delay <= timerQ'[i].time
  <2>1. queue[i].at \in Nat /\ queue[i].at + delay <= NewTime
    BY <1>2, <1>8
  <2>2. CASE timerQ'[i].time = NewTime
    BY <2>1, <2>2
  <2>3. CASE i \in 1..Len(timerQ) /\ timerQ'[i] = timerQ[i]
    BY <1>9, <2>3
  <2>4. CASE i - 1 \in 1..Len(timerQ) /\ timerQ'[i] = timerQ[i - 1] /\ NewTime < timerQ[i - 1].time
    BY <1>2, <1>7, <2>1, <2>4
  <2> QED BY <1>11, <2>2, <2>3, <2>4
<1>13. QueueInOrder'
  BY <1>1 DEF Departures, QueueInOrder
<1>14. AddsLast' /\ SendsInTime'
  BY <1>2, <1>3 DEF AddsLast, SendsInTime
<1>15. FiredInTime'
  BY <1>4 DEF FiredInTime
<1>16. TimersInTime'
  <2> SUFFICES ASSUME NEW i \in 1..Len(timerQ')
               PROVE  queue[i + 0].at + delay <= timerQ'[i].time
    BY <1>1, <1>4 DEF TimersInTime
  <2>1. i + 0 = i /\ i \in 1..m
    BY <1>10
  <2> QED BY <1>12, <2>1
<1> QED BY <1>13, <1>14, <1>15, <1>16 DEF Departures

(* A timer that fires has come to its time, and so has its packet.         *)
LEMMA DeparturesFireTimer ==
  ASSUME Base, Places, Matched, Departures, NEW c \in Contexts, FireTimer(c)
  PROVE  Departures'
<1>1. queue' = queue /\ now' = now /\ held' = held /\ task[c] \in {"timers", "flush"}
      /\ GoTo(c, "firing") /\ timerQ # <<>> /\ ~ (now < Head(timerQ).time) /\ timerQ' = Tail(timerQ)
  BY DEF FireTimer, Caller, Expired
<1>2. /\ Contexts = {"main", "signal"} /\ Len(queue) \in Nat /\ Len(timerQ) \in Nat
      /\ timerQ \in Seq(Timer) /\ now \in Nat /\ delay \in Nat /\ Firing \in Nat
      /\ Len(queue) = Len(timerQ) + Firing + At("main", "adding") /\ At("main", "adding") \in {0, 1}
      /\ \A i \in 1..Len(queue) : queue[i].at \in Nat
      /\ \A i \in 1..Len(timerQ) : timerQ[i].time \in Nat
  BY QueueTypes
<1>3. task'[c] = "firing" /\ \A d \in Contexts : d # c => task'[d] = task[d]
  BY <1>1, Went
<1>4. Firing' = Firing + 1
  <2>1. CASE c = "main"
    BY <1>1, <1>2, <1>3, <2>1 DEF Firing, At
  <2>2. CASE c = "signal"
    BY <1>1, <1>2, <1>3, <2>2 DEF Firing, At
  <2> QED BY <1>2, <2>1, <2>2
<1>5. /\ 1 \in 1..Len(timerQ) /\ timerQ[1].time <= now /\ Len(timerQ') = Len(timerQ) - 1
      /\ \A i \in 1..Len(timerQ') : timerQ'[i] = timerQ[i + 1] /\ i + 1 \in 1..Len(timerQ)
  <2>1. 1 \in 1..Len(timerQ) /\ Head(timerQ) = timerQ[1]
    BY <1>1, <1>2
  <2>2. timerQ[1].time <= now
    BY <1>1, <1>2, <2>1
  <2>3. /\ Len(timerQ') = Len(timerQ) - 1
        /\ \A i \in 1..Len(timerQ') : timerQ'[i] = timerQ[i + 1] /\ i + 1 \in 1..Len(timerQ)
    BY <1>1, <1>2
  <2> QED BY <2>1, <2>2, <2>3
<1>6. QueueInOrder'
  BY <1>1 DEF Departures, QueueInOrder
<1>7. AddsLast' /\ SendsInTime'
  BY <1>1, <1>3 DEF Departures, AddsLast, SendsInTime, Contexts
<1>8. FiredInTime'
  <2> SUFFICES ASSUME NEW i \in 1..Firing + 1
               PROVE  queue[i].at + delay <= now
    BY <1>1, <1>4 DEF FiredInTime
  <2>1. CASE i \in 1..Firing
    BY <2>1 DEF Departures, FiredInTime
  <2>2. CASE i = 1 + Firing
    <3>1. queue[1 + Firing].at + delay <= timerQ[1].time
      BY <1>5 DEF Departures, TimersInTime
    <3>2. 1 + Firing \in 1..Len(queue)
      BY <1>2, <1>5
    <3>3. queue[1 + Firing].at \in Nat /\ timerQ[1].time \in Nat
      BY <1>2, <1>5, <3>2
    <3> QED BY <1>2, <1>5, <2>2, <3>1, <3>3, SMTT(30)
  <2> QED BY <1>2, <2>1, <2>2
<1>9. TimersInTime'
  <2> SUFFICES ASSUME NEW i \in 1..Len(timerQ')
               PROVE  queue[i + (Firing + 1)].at + delay <= timerQ'[i].time
    BY <1>1, <1>4 DEF TimersInTime
  <2>1. i + 1 \in 1..Len(timerQ) /\ timerQ'[i] = timerQ[i + 1]
    BY <1>5
  <2>2. queue[(i + 1) + Firing].at + delay <= timerQ[i + 1].time
    BY <2>1 DEF Departures, TimersInTime
  <2>3. (i + 1) + Firing = i + (Firing + 1)
    BY <1>2
  <2> QED BY <2>1, <2>2, <2>3
<1> QED BY <1>6, <1>7, <1>8, <1>9 DEF Departures

(* The packet at the front is the one of a timer that has fired.           *)
LEMMA DeparturesGetPacket ==
  ASSUME Base, Places, Matched, Departures, NEW c \in Contexts, GetPacket(c)
  PROVE  Departures'
<1>1. now' = now /\ timerQ' = timerQ /\ task[c] = "firing" /\ GoTo(c, "sending")
  BY DEF GetPacket
<1>2. /\ Contexts = {"main", "signal"} /\ Len(queue) \in Nat /\ Len(timerQ) \in Nat
      /\ queue \in Seq(Packet) /\ now \in Nat /\ delay \in Nat /\ Firing \in Nat
      /\ Len(queue) = Len(timerQ) + Firing + At("main", "adding") /\ At("main", "adding") \in {0, 1}
      /\ \A i \in 1..Len(queue) : queue[i].at \in Nat
  BY QueueTypes
<1>3. task'[c] = "sending" /\ \A d \in Contexts : d # c => task'[d] = task[d]
  BY <1>1, Went
<1>4. /\ queue # <<>> /\ queue' = Tail(queue) /\ held'[c] = Head(queue)
      /\ \A d \in Contexts : d # c => held'[d] = held[d]
  BY MatchedGetPacket
<1>5. PICK g \in Nat : Firing' = g /\ Firing = g + 1
  <2> SUFFICES Firing = Firing' + 1 /\ Firing' \in Nat
    OBVIOUS
  <2>1. CASE c = "main"
    BY <1>1, <1>2, <1>3, <2>1 DEF Firing, At
  <2>2. CASE c = "signal"
    BY <1>1, <1>2, <1>3, <2>2 DEF Firing, At
  <2> QED BY <1>2, <2>1, <2>2
<1>6. /\ held'[c] = queue[1] /\ Len(queue') = Len(queue) - 1
      /\ \A i \in 1..Len(queue') : queue'[i] = queue[i + 1] /\ i + 1 \in 1..Len(queue)
  BY <1>2, <1>4
<1>7. QueueInOrder'
  <2>1. ASSUME NEW i \in 1..Len(queue'), NEW j \in 1..Len(queue'), i < j
        PROVE  queue'[i].at <= queue'[j].at
    <3>1. i + 1 \in 1..Len(queue) /\ j + 1 \in 1..Len(queue) /\ i + 1 < j + 1
      BY <1>6, <2>1
    <3>2. queue[i + 1].at <= queue[j + 1].at
      BY <3>1 DEF Departures, QueueInOrder
    <3> QED BY <1>6, <3>2
  <2>2. \A i \in 1..Len(queue') : queue'[i].at <= now'
    BY <1>1, <1>6 DEF Departures, QueueInOrder
  <2> QED BY <2>1, <2>2 DEF QueueInOrder
<1>8. AddsLast'
  <2> SUFFICES ASSUME task'["main"] = "adding"
               PROVE  Len(queue') > 0 /\ queue'[Len(queue')] = held'["main"]
    BY DEF AddsLast
  <2>1. c # "main" /\ task["main"] = "adding" /\ held'["main"] = held["main"]
    BY <1>2, <1>3, <1>4
  <2>2. At("main", "adding") = 1 /\ queue[Len(queue)] = held["main"]
    BY <2>1 DEF At, Departures, AddsLast
  <2>3. Len(queue') > 0 /\ Len(queue') \in 1..Len(queue')
    BY <1>2, <1>5, <1>6, <2>2
  <2>4. queue'[Len(queue')] = queue[Len(queue') + 1] /\ Len(queue') + 1 = Len(queue)
    BY <1>2, <1>6, <2>3
  <2> QED BY <2>1, <2>2, <2>3, <2>4
<1>9. FiredInTime'
  <2> SUFFICES ASSUME NEW i \in 1..g
               PROVE  queue'[i].at + delay <= now
    BY <1>1, <1>5 DEF FiredInTime
  <2>1. i \in 1..Len(queue') /\ i + 1 \in 1..Firing
    BY <1>2, <1>5, <1>6
  <2>2. queue[i + 1].at + delay <= now
    BY <2>1 DEF Departures, FiredInTime
  <2> QED BY <1>6, <2>1, <2>2
<1>10. TimersInTime'
  <2> SUFFICES ASSUME NEW i \in 1..Len(timerQ)
               PROVE  queue'[i + g].at + delay <= timerQ[i].time
    BY <1>1, <1>5 DEF TimersInTime
  <2>1. i + g \in 1..Len(queue') /\ (i + g) + 1 = i + Firing
    BY <1>2, <1>5, <1>6
  <2>2. queue[i + Firing].at + delay <= timerQ[i].time
    BY DEF Departures, TimersInTime
  <2> QED BY <1>6, <2>1, <2>2
<1>11. SendsInTime'
  <2> SUFFICES ASSUME NEW d \in Contexts, task'[d] = "sending"
               PROVE  held'[d].at + delay <= now
    BY <1>1 DEF SendsInTime
  <2>1. CASE d = c
    <3>1. 1 \in 1..Firing
      BY <1>5
    <3>2. queue[1].at + delay <= now
      BY <3>1 DEF Departures, FiredInTime
    <3> QED BY <1>6, <2>1, <3>2
  <2>2. CASE d # c
    BY <1>3, <1>4, <2>2 DEF Departures, SendsInTime
  <2> QED BY <2>1, <2>2
<1> QED BY <1>7, <1>8, <1>9, <1>10, <1>11 DEF Departures

(* sendHandler returns; no other packet's time changes.                    *)
LEMMA DeparturesReturn ==
  ASSUME Base, Places, Matched, Departures, ~Reorder, NEW c \in Contexts,
         LosePacket(c) \/ SendPacket(c) \/ SendFails(c)
  PROVE  Departures'
<1>1. SendHandlerReturns(c) /\ queue' = queue
  BY ReturnKeepsQueue
<1>2. task[c] = "sending" /\ GoTo(c, Caller(c)) /\ Caller(c) \in {"flush", "timers"}
      /\ timerQ' = timerQ /\ now' = now
      /\ \A d \in Contexts : d # c => held'[d] = held[d]
  BY <1>1 DEF SendHandlerReturns, Caller, Base, Types
<1>3. task'[c] = Caller(c) /\ \A d \in Contexts : d # c => task'[d] = task[d]
  BY <1>2, Went
<1>4. Firing' = Firing
  BY <1>2, <1>3 DEF Firing, At, Contexts
<1>5. QueueInOrder' /\ FiredInTime' /\ TimersInTime'
  BY <1>1, <1>2, <1>4 DEF Departures, QueueInOrder, FiredInTime, TimersInTime
<1>6. AddsLast'
  <2>1. task'["main"] = "adding" => c # "main"
    BY <1>2, <1>3
  <2> QED BY <1>1, <1>2, <1>3, <2>1 DEF Departures, AddsLast, Contexts
<1>7. SendsInTime'
  <2> SUFFICES ASSUME NEW d \in Contexts, task'[d] = "sending"
               PROVE  held'[d].at + delay <= now
    BY <1>2 DEF SendsInTime
  <2>1. d # c
    BY <1>2, <1>3
  <2> QED BY <1>2, <1>3, <2>1 DEF Departures, SendsInTime
<1> QED BY <1>5, <1>6, <1>7 DEF Departures

(* Every step keeps each packet inside until its delay is over.            *)
LEMMA DeparturesNext ==
  ASSUME ~Reorder
  PROVE  Sound /\ Departures /\ [Next]_vars => Departures'
<1> SUFFICES ASSUME Sound, Departures, [Next]_vars
             PROVE  Departures'
  OBVIOUS
<1>1. Base /\ Places /\ Matched /\ BytesCounted
  BY DEF Sound
<1>2. CASE UNCHANGED vars
  <2>1. now \in Nat
    BY <1>1 DEF Base, Types
  <2> QED BY <1>1, <1>2, <2>1, DeparturesStill DEF vars, SamePlaces
<1>3. CASE Idle
  <2>1. Base'
    BY <1>1, BaseNext
  <2>2. now' \in Nat
    BY <2>1 DEF Base, Types
  <2> QED BY <1>1, <1>3, <2>2, IdleKeeps, DeparturesStill
<1> QED BY <1>1, <1>2, <1>3, Actions, DeparturesAccept, DeparturesSetTimer, DeparturesFireTimer,
           DeparturesGetPacket, DeparturesReturn

(* The inductive invariant of a program without -O.                        *)
LEMMA DeparturesAlways ==
  ASSUME RoomByBytes, ~Reorder
  PROVE  Spec => []Departures
<1>1. Init => Departures
  BY DeparturesInit
<1>2. Sound /\ Departures /\ [Next]_vars => Departures'
  BY DeparturesNext
<1> QED BY <1>1, <1>2, Soundness, PTL DEF Spec

(* Whichever timer calls sendHandler, there is a packet at the front whose *)
(* delay is over: the i-th timer is not early for the i-th packet.         *)
THEOREM TimersCorrect ==
  ASSUME RoomByBytes, ~Reorder
  PROVE  Spec => []TimersMatchQueue
<1>1. ASSUME Sound, Departures
      PROVE  TimersMatchQueue
  <2>1. Cardinality(In("firing")) = Firing
    BY CountIn DEF Firing
  <2>2. Cardinality(In("adding")) = At("main", "adding")
    <3>1. At("signal", "adding") = 0 /\ At("main", "adding") \in Nat
      BY <1>1 DEF Sound, Places, At
    <3> QED BY <3>1, CountIn
  <2>3. Len(queue) = Len(timerQ) + Firing + At("main", "adding")
    BY <1>1, QueueTypes DEF Sound
  <2>4. InOrder(timerQ) /\ OnePerClient(timerQ)
    BY <1>1 DEF Sound, Base, TimersOrdered, TimersInOrder
  <2> QED BY <1>1, <2>1, <2>2, <2>3, <2>4 DEF Departures, FiredInTime, TimersInTime, TimersInOrder, TimersMatchQueue
<1>2. Sound /\ Departures => TimersMatchQueue
  BY <1>1
<1> QED BY <1>2, Soundness, DeparturesAlways, PTL

(* No packet reaches sendto before its delay is over.                      *)
THEOREM DelayCorrect ==
  ASSUME RoomByBytes, ~Reorder
  PROVE  Spec => []MinimumDelay
<1>1. Departures => MinimumDelay
  BY DEF Departures, SendsInTime, MinimumDelay
<1> QED BY <1>1, DeparturesAlways, PTL

----------------------------------------------------------------------------
(* Identities: no packet is twice in the emulator.                         *)

(* Every identity was given to a packet that has arrived.                  *)
IdsGiven ==
  /\ \A i \in 1..Len(queue) : queue[i].id <= arrived
  /\ \A c \in Contexts : task[c] = "sending" => held[c].id <= arrived
  /\ \A i \in 1..Len(sent) : sent[i].id <= arrived

(* Those in the queue and in the handlers are different.                   *)
IdsDiffer ==
  /\ \A i, j \in 1..Len(queue) : queue[i].id = queue[j].id => i = j
  /\ \A c \in Contexts : task[c] = "sending" => \A i \in 1..Len(queue) : queue[i].id # held[c].id
  /\ \A c, d \in Contexts :
       task[c] = "sending" /\ task[d] = "sending" /\ held[c].id = held[d].id => c = d

Once == IdsGiven /\ IdsDiffer

(* At the start no packet has left.                                        *)
LEMMA OnceInit == Init => Once
<1> SUFFICES ASSUME Init PROVE Once
  OBVIOUS
<1>1. queue = <<>> /\ sent = <<>> /\ \A c \in Contexts : task[c] # "sending"
  BY DEF Init, Contexts
<1> QED BY <1>1 DEF Once, IdsGiven, IdsDiffer

(* A step in which packets come out of the handlers only.                  *)
LEMMA OnceStill ==
  ASSUME Base, Matched, Once, queue' = queue, arrived <= arrived', arrived' \in Nat,
         \A c \in Contexts : task'[c] = "sending" => task[c] = "sending" /\ held'[c] = held[c],
         \/ sent' = sent
         \/ \E c \in Contexts : task[c] = "sending" /\ sent' = Append(sent, held[c])
  PROVE  Once'
<1>1. /\ Len(queue) \in Nat /\ \A i \in 1..Len(queue) : queue[i] \in Packet
      /\ arrived \in Nat /\ sent \in Seq(Packet)
      /\ \A c \in Contexts : task[c] = "sending" => held[c] \in Packet
  BY QueueTypes, CountersNat DEF Matched, HoldsPackets
<1>2. /\ \A i \in 1..Len(queue) : queue[i].id \in Nat
      /\ \A i \in 1..Len(sent) : sent[i] \in Packet
  BY <1>1, PacketFields
<1>3. /\ \A i \in 1..Len(sent) : sent[i].id \in Nat
      /\ \A c \in Contexts : task[c] = "sending" => held[c].id \in Nat
  BY <1>1, <1>2, PacketFields
<1>4. /\ \A i \in 1..Len(queue) : queue[i].id <= arrived
      /\ \A c \in Contexts : task[c] = "sending" => held[c].id <= arrived
      /\ \A i \in 1..Len(sent) : sent[i].id <= arrived
  BY DEF Once, IdsGiven
<1>5. \A i \in 1..Len(sent') : sent'[i].id <= arrived'
  <2>1. CASE sent' = sent
    BY <1>1, <1>3, <1>4, <2>1
  <2>2. ASSUME NEW c \in Contexts, task[c] = "sending", sent' = Append(sent, held[c])
        PROVE  \A i \in 1..Len(sent') : sent'[i].id <= arrived'
    <3> SUFFICES ASSUME NEW i \in 1..Len(sent')
                 PROVE  sent'[i].id <= arrived'
      OBVIOUS
    <3> DEFINE p == held[c]
    <3>1. p \in Packet /\ p.id \in Nat /\ p.id <= arrived /\ sent' = Append(sent, p)
      BY <1>1, <1>3, <1>4, <2>2
    <3> HIDE DEF p
    <3>2. \/ sent'[i] = p \/ (i \in 1..Len(sent) /\ sent'[i] = sent[i])
      BY <1>1, <3>1
    <3> QED BY <1>1, <1>3, <1>4, <3>1, <3>2
  <2> QED BY <2>1, <2>2
<1>6. IdsGiven'
  <2>1. \A i \in 1..Len(queue) : queue[i].id <= arrived'
    BY <1>1, <1>2, <1>4
  <2>2. \A c \in Contexts : task'[c] = "sending" => held'[c].id <= arrived'
    BY <1>1, <1>3, <1>4
  <2> QED BY <1>5, <2>1, <2>2 DEF IdsGiven
<1>7. IdsDiffer'
  BY DEF Once, IdsDiffer
<1> QED BY <1>6, <1>7 DEF Once

(* A new packet has a new identity.                                        *)
LEMMA OnceAccept ==
  ASSUME Base, Places, Matched, BytesCounted, Once, NEW b \in Sizes, Accept(b)
  PROVE  Once'
<1> DEFINE p == assembleItem(b)
<1>1. queue' = Append(queue, p) /\ p \in Packet
  BY MatchedAccept
<1>2. /\ p.id = arrived + 1 /\ arrived' = arrived + 1 /\ sent' = sent
      /\ task["main"] = "select" /\ task["signal"] = "off" /\ GoTo("main", "adding")
  BY DEF assembleItem, Accept, Accepted, Arrival, Runs
<1> HIDE DEF p
<1>3. /\ Contexts = {"main", "signal"} /\ queue \in Seq(Packet) /\ Len(queue) \in Nat
      /\ arrived \in Nat /\ \A i \in 1..Len(queue) : queue[i] \in Packet
      /\ sent \in Seq(Packet) /\ \A i \in 1..Len(sent) : sent[i] \in Packet
  BY QueueTypes, CountersNat DEF Matched
<1>4. /\ \A i \in 1..Len(queue) : queue[i].id \in Nat
      /\ \A i \in 1..Len(sent) : sent[i].id \in Nat
  BY <1>3, PacketFields
<1>5. task'["main"] = "adding" /\ task'["signal"] = "off"
  BY <1>2, <1>3, Went
<1>6. \A c \in Contexts : task'[c] # "sending"
  BY <1>3, <1>5
<1>7. \A i \in 1..Len(queue') :
         \/ i \in 1..Len(queue) /\ queue'[i] = queue[i] /\ queue[i].id <= arrived
         \/ i = Len(queue) + 1 /\ queue'[i].id = arrived + 1
  <2> SUFFICES ASSUME NEW i \in 1..Len(queue')
               PROVE  \/ i \in 1..Len(queue) /\ queue'[i] = queue[i] /\ queue[i].id <= arrived
                      \/ i = Len(queue) + 1 /\ queue'[i].id = arrived + 1
    OBVIOUS
  <2>1. \/ i \in 1..Len(queue) /\ queue'[i] = queue[i]
        \/ i = Len(queue) + 1 /\ queue'[i] = p
    BY <1>1, <1>3
  <2> QED BY <1>2, <2>1 DEF Once, IdsGiven
<1>8. IdsGiven'
  <2>1. \A i \in 1..Len(queue') : queue'[i].id <= arrived'
    BY <1>2, <1>3, <1>4, <1>7, SMTT(30)
  <2>2. \A i \in 1..Len(sent) : sent[i].id <= arrived'
    BY <1>2, <1>3, <1>4 DEF Once, IdsGiven
  <2> QED BY <1>2, <1>6, <2>1, <2>2 DEF IdsGiven
<1>9. IdsDiffer'
  <2>1. ASSUME NEW i \in 1..Len(queue'), NEW j \in 1..Len(queue'), queue'[i].id = queue'[j].id
        PROVE  i = j
    <3>1. CASE i \in 1..Len(queue) /\ queue'[i] = queue[i] /\ j \in 1..Len(queue) /\ queue'[j] = queue[j]
      BY <2>1, <3>1 DEF Once, IdsDiffer
    <3>2. CASE i = Len(queue) + 1 /\ queue'[i].id = arrived + 1
      BY <1>3, <1>4, <1>7, <2>1, <3>2
    <3>3. CASE j = Len(queue) + 1 /\ queue'[j].id = arrived + 1
      BY <1>3, <1>4, <1>7, <2>1, <3>3
    <3> QED BY <1>7, <3>1, <3>2, <3>3
  <2> QED BY <1>6, <2>1 DEF IdsDiffer
<1> QED BY <1>8, <1>9 DEF Once

(* A packet that a handler takes is no longer in the queue.                *)
LEMMA OnceGetPacket ==
  ASSUME Base, Places, Matched, Once, NEW c \in Contexts, GetPacket(c)
  PROVE  Once'
<1>1. sent' = sent /\ arrived' = arrived /\ task[c] = "firing" /\ GoTo(c, "sending")
  BY DEF GetPacket
<1>2. queue \in Seq(Packet) /\ Len(queue) \in Nat
  BY QueueTypes
<1>3. task'[c] = "sending" /\ \A d \in Contexts : d # c => task'[d] = task[d]
  BY <1>1, Went
<1>4. /\ queue # <<>> /\ queue' = Tail(queue) /\ held'[c] = Head(queue)
      /\ \A d \in Contexts : d # c => held'[d] = held[d]
  BY MatchedGetPacket
<1>5. /\ held'[c] = queue[1] /\ 1 \in 1..Len(queue)
      /\ \A i \in 1..Len(queue') : queue'[i] = queue[i + 1] /\ i + 1 \in 1..Len(queue) /\ i + 1 # 1
  BY <1>2, <1>4
<1>6. /\ \A i \in 1..Len(queue) : queue[i].id <= arrived
      /\ \A d \in Contexts : task[d] = "sending" => held[d].id <= arrived
      /\ \A i \in 1..Len(sent) : sent[i].id <= arrived
      /\ \A i, j \in 1..Len(queue) : queue[i].id = queue[j].id => i = j
      /\ \A d \in Contexts : task[d] = "sending" => \A i \in 1..Len(queue) : queue[i].id # held[d].id
      /\ \A d, e \in Contexts :
           task[d] = "sending" /\ task[e] = "sending" /\ held[d].id = held[e].id => d = e
  BY DEF Once, IdsGiven, IdsDiffer
<1>7. IdsGiven'
  <2>1. \A i \in 1..Len(queue') : queue'[i].id <= arrived
    BY <1>5, <1>6
  <2>2. \A d \in Contexts : task'[d] = "sending" => held'[d].id <= arrived
    BY <1>3, <1>4, <1>5, <1>6
  <2> QED BY <1>1, <1>6, <2>1, <2>2 DEF IdsGiven
<1>8. IdsDiffer'
  <2>1. ASSUME NEW i \in 1..Len(queue'), NEW j \in 1..Len(queue'), queue'[i].id = queue'[j].id
        PROVE  i = j
    <3>1. i + 1 = j + 1
      BY <1>5, <1>6, <2>1
    <3> QED BY <3>1
  <2>2. ASSUME NEW d \in Contexts, task'[d] = "sending", NEW i \in 1..Len(queue')
        PROVE  queue'[i].id # held'[d].id
    <3>1. CASE d = c
      BY <1>5, <1>6, <3>1
    <3>2. CASE d # c
      BY <1>3, <1>4, <1>5, <1>6, <2>2, <3>2
    <3> QED BY <3>1, <3>2
  <2>3. ASSUME NEW d \in Contexts, NEW e \in Contexts, task'[d] = "sending", task'[e] = "sending",
               held'[d].id = held'[e].id, d # e
        PROVE  FALSE
    <3>1. CASE d = c
      BY <1>3, <1>4, <1>5, <1>6, <2>3, <3>1
    <3>2. CASE e = c
      BY <1>3, <1>4, <1>5, <1>6, <2>3, <3>2
    <3>3. CASE d # c /\ e # c
      BY <1>3, <1>4, <1>6, <2>3, <3>3
    <3> QED BY <3>1, <3>2, <3>3
  <2> QED BY <2>1, <2>2, <2>3 DEF IdsDiffer
<1> QED BY <1>7, <1>8 DEF Once

(* The count of arrivals never goes back, so that a number is given once.  *)
LEMMA ArrivedGrows ==
  ASSUME Base, [Next]_vars
  PROVE  arrived \in Nat /\ arrived' \in Nat /\ arrived <= arrived'
<1>1. arrived \in Nat
  BY CountersNat
<1>2. arrived' = arrived \/ arrived' = arrived + 1
  <2>1. CASE UNCHANGED vars
    BY <2>1 DEF vars
  <2>2. CASE ReadHandler
    BY <2>2 DEF ReadHandler, ReceiveFails, Reject, TooLarge, DivideByZero, Congestion, Accept,
                Accepted, Arrival
  <2>3. CASE Tick \/ StopCommand \/ Interrupt \/ LoopStep
    BY <2>3 DEF Tick, StopCommand, Interrupt, LoopStep, SetTimer, EnterSelect, SelectReturns
  <2>4. ASSUME NEW c \in Contexts, Step(c)
        PROVE  arrived' = arrived
    BY <2>4 DEF Step, FireTimer, GetPacket, FollowNoItem, LosePacket, SendPacket, SendFails,
                SendHandlerReturns, FlushDone
  <2> QED BY <2>1, <2>2, <2>3, <2>4 DEF Next
<1> QED BY <1>1, <1>2

(* Which packets the handlers have after a step.                           *)
SameHandlers ==
  \A c \in Contexts : /\ task'[c] = "sending" <=> task[c] = "sending"
                      /\ task[c] = "sending" => held'[c] = held[c]

(* Setting a timer leaves the packets in sendHandler alone.                *)
LEMMA HandlersSetTimer ==
  ASSUME Base, SetTimer
  PROVE  SameHandlers
<1>1. task["main"] = "adding" /\ task["signal"] = "off" /\ GoTo("main", LoopTop)
  BY DEF SetTimer, Runs
<1>2. task'["main"] = LoopTop /\ task'["signal"] = task["signal"]
  BY <1>1, Went DEF Contexts
<1> QED BY <1>1, <1>2 DEF SameHandlers, LoopTop, Contexts

(* So does taking a timer.                                                 *)
LEMMA HandlersFireTimer ==
  ASSUME Base, NEW c \in Contexts, FireTimer(c)
  PROVE  SameHandlers
<1>1. task[c] \in {"timers", "flush"} /\ GoTo(c, "firing") /\ held' = held
  BY DEF FireTimer, Caller
<1>2. task'[c] = "firing" /\ \A d \in Contexts : d # c => task'[d] = task[d]
  BY <1>1, Went
<1> QED BY <1>1, <1>2 DEF SameHandlers

(* A handler that returns has no packet any more.                          *)
LEMMA HandlersReturn ==
  ASSUME Base, NEW c \in Contexts, SendHandlerReturns(c)
  PROVE  /\ task[c] = "sending" /\ task'[c] # "sending"
         /\ \A d \in Contexts : d # c => task'[d] = task[d] /\ held'[d] = held[d]
<1>1. task[c] = "sending" /\ GoTo(c, Caller(c)) /\ Caller(c) \in {"flush", "timers"}
      /\ \A d \in Contexts : d # c => held'[d] = held[d]
  BY DEF SendHandlerReturns, Caller, Base, Types
<1>2. task'[c] = Caller(c) /\ \A d \in Contexts : d # c => task'[d] = task[d]
  BY <1>1, Went
<1> QED BY <1>1, <1>2

(* Every step keeps each number in one place.                              *)
LEMMA OnceNext ==
  ASSUME ~Reorder
  PROVE  Sound /\ Once /\ [Next]_vars => Once'
<1> SUFFICES ASSUME Sound, Once, [Next]_vars
             PROVE  Once'
  OBVIOUS
<1>1. Base /\ Places /\ Matched /\ BytesCounted /\ arrived' \in Nat /\ arrived <= arrived'
  BY ArrivedGrows DEF Sound
<1>2. ASSUME SameHandlers, queue' = queue, sent' = sent
      PROVE  Once'
  <2>1. \A c \in Contexts : task'[c] = "sending" => task[c] = "sending" /\ held'[c] = held[c]
    BY <1>2 DEF SameHandlers
  <2> QED BY <1>1, <1>2, <2>1, OnceStill
<1>3. CASE UNCHANGED vars
  <2>1. SameHandlers
    BY <1>3 DEF vars, SameHandlers
  <2> QED BY <1>2, <1>3, <2>1 DEF vars
<1>4. CASE Idle
  <2>1. SamePlaces /\ queue' = queue /\ held' = held /\ sent' = sent
    BY <1>1, <1>4, IdleKeeps
  <2>2. SameHandlers
    BY <2>1 DEF SamePlaces, SameHandlers
  <2> QED BY <1>2, <2>1, <2>2
<1>5. CASE SetTimer
  BY <1>1, <1>2, <1>5, HandlersSetTimer DEF SetTimer
<1>6. ASSUME NEW c \in Contexts, FireTimer(c)
      PROVE  Once'
  BY <1>1, <1>2, <1>6, HandlersFireTimer DEF FireTimer
<1>7. ASSUME NEW c \in Contexts, LosePacket(c) \/ SendPacket(c) \/ SendFails(c)
      PROVE  Once'
  <2>1. SendHandlerReturns(c) /\ queue' = queue /\ (sent' = sent \/ sent' = Append(sent, held[c]))
    BY <1>1, <1>7, ReturnKeepsQueue
  <2>2. task[c] = "sending"
        /\ \A d \in Contexts : task'[d] = "sending" => task[d] = "sending" /\ held'[d] = held[d]
    BY <1>1, <2>1, HandlersReturn
  <2> QED BY <1>1, <2>1, <2>2, OnceStill
<1> QED BY <1>1, <1>3, <1>4, <1>5, <1>6, <1>7, Actions, OnceAccept, OnceGetPacket

(* No number is queued, handled or sent twice.                             *)
LEMMA OnceAlways ==
  ASSUME RoomByBytes, ~Reorder
  PROVE  Spec => []Once
<1>1. Init => Once
  BY OnceInit
<1>2. Sound /\ Once /\ [Next]_vars => Once'
  BY OnceNext
<1> QED BY <1>1, <1>2, Soundness, PTL DEF Spec

----------------------------------------------------------------------------
(* The emulator is a lossy delay line.                                     *)

(* Without a change to the queue or to sendHandler's packets, the same are *)
(* inside.                                                                 *)
LEMMA InsideSame ==
  ASSUME SameHandlers, queue' = queue
  PROVE  Inside' = Inside
<1>1. In("sending")' = In("sending") /\ \A c \in In("sending") : held'[c] = held[c]
  BY DEF SameHandlers, In
<1> QED BY <1>1 DEF Inside

(* What is inside, one packet at a time.                                   *)
LEMMA InsideIs ==
  ASSUME NEW p
  PROVE  p \in Inside <=> \/ \E i \in 1..Len(queue) : queue[i] = p
                          \/ \E c \in Contexts : task[c] = "sending" /\ held[c] = p
BY DEF Inside, In

(* Who is inside after a step.                                             *)
LEMMA InsideIsNext ==
  ASSUME NEW p
  PROVE  p \in Inside' <=> \/ \E i \in 1..Len(queue') : queue'[i] = p
                           \/ \E c \in Contexts : task'[c] = "sending" /\ held'[c] = p
BY DEF Inside, In

(* Accepting a packet is entering the line.                                *)
LEMMA EnterStep ==
  ASSUME Base, Places, Matched, BytesCounted, Once, NEW b \in Sizes, Accept(b)
  PROVE  Line!Enter
<1> DEFINE p == assembleItem(b)
<1>1. queue' = Append(queue, p) /\ p \in Packet /\ queue \in Seq(Packet)
  BY MatchedAccept DEF Base, Types
<1>2. /\ p.id = arrived + 1 /\ p.bytes = b /\ p.at = now /\ arrived \in Nat /\ now' = now /\ sent' = sent
      /\ stat' = stat /\ stop' = stop /\ task["main"] = "select" /\ task["signal"] = "off"
      /\ GoTo("main", "adding")
  BY CountersNat DEF assembleItem, Accept, Accepted, Arrival, Runs
<1> HIDE DEF p
<1>3. p \in [id : 1..MaxPackets, bytes : Sizes, at : {now}]
  BY <1>1, <1>2 DEF Packet
<1>4. task'["main"] = "adding" /\ task'["signal"] = "off"
  BY <1>2, Went DEF Contexts
<1>5. \A q \in Inside : \E i \in 1..Len(queue) : queue[i] = q
  BY <1>2, InsideIs DEF Contexts
<1>6. \A o \in Inside \cup {sent[i] : i \in 1..Len(sent)} : o.id # p.id
  <2>1. ASSUME NEW i \in 1..Len(queue)
        PROVE  queue[i].id # p.id
    <3>1. queue[i].id \in Nat /\ queue[i].id <= arrived
      BY <1>1, PacketFields DEF Once, IdsGiven
    <3> QED BY <1>2, <3>1
  <2>2. ASSUME NEW i \in 1..Len(sent)
        PROVE  sent[i].id # p.id
    <3>1. sent[i].id \in Nat /\ sent[i].id <= arrived
      BY PacketFields DEF Once, IdsGiven, Matched
    <3> QED BY <1>2, <3>1
  <2> QED BY <1>5, <2>1, <2>2
<1>7. /\ Len(queue') = Len(queue) + 1 /\ Len(queue) \in Nat /\ queue'[Len(queue) + 1] = p
      /\ \A i \in 1..Len(queue) : queue'[i] = queue[i]
  BY <1>1
<1>8. Inside' = Inside \cup {p}
  <2>1. ASSUME NEW q \in Inside'
        PROVE  q \in Inside \cup {p}
    <3>1. PICK i \in 1..Len(queue') : queue'[i] = q
      BY <1>4, InsideIsNext DEF Contexts
    <3>2. CASE i \in 1..Len(queue)
      BY <1>7, <3>1, <3>2, InsideIs
    <3>3. CASE i = Len(queue) + 1
      BY <1>7, <3>1, <3>3
    <3> QED BY <1>7, <3>2, <3>3
  <2>2. ASSUME NEW q \in Inside
        PROVE  q \in Inside'
    <3>1. PICK i \in 1..Len(queue) : queue[i] = q
      BY <1>5
    <3>2. i \in 1..Len(queue') /\ queue'[i] = q
      BY <1>7, <3>1
    <3> QED BY <3>2, InsideIsNext
  <2>3. p \in Inside'
    <3>1. Len(queue) + 1 \in 1..Len(queue')
      BY <1>7
    <3> QED BY <1>7, <3>1, InsideIsNext
  <2> QED BY <2>1, <2>2, <2>3
<1>9. stat'.randomLoss = stat.randomLoss /\ (stop' = "error") = (stop = "error")
  BY <1>2
<1> QED BY <1>2, <1>3, <1>6, <1>8, <1>9 DEF Line!Enter

(* Taking a packet from the queue leaves it inside.                        *)
LEMMA InsideGetPacket ==
  ASSUME Base, Places, Matched, NEW c \in Contexts, GetPacket(c)
  PROVE  Inside' = Inside
<1>1. task[c] = "firing" /\ GoTo(c, "sending")
  BY DEF GetPacket
<1>2. task'[c] = "sending" /\ \A d \in Contexts : d # c => task'[d] = task[d]
  BY <1>1, Went
<1>3. /\ queue # <<>> /\ queue' = Tail(queue) /\ held'[c] = Head(queue)
      /\ \A d \in Contexts : d # c => held'[d] = held[d]
  BY MatchedGetPacket
<1>4. queue \in Seq(Packet)
  BY QueueTypes
<1>5. /\ held'[c] = queue[1] /\ 1 \in 1..Len(queue) /\ Len(queue') = Len(queue) - 1 /\ Len(queue) \in Nat
      /\ \A i \in 1..Len(queue') : queue'[i] = queue[i + 1] /\ i + 1 \in 1..Len(queue)
  BY <1>3, <1>4
<1>6. ASSUME NEW q \in Inside'
      PROVE  q \in Inside
  <2>1. CASE \E i \in 1..Len(queue') : queue'[i] = q
    BY <1>5, <2>1, InsideIs
  <2>2. ASSUME NEW d \in Contexts, task'[d] = "sending", held'[d] = q
        PROVE  q \in Inside
    <3>1. CASE d = c
      BY <1>5, <2>2, <3>1, InsideIs
    <3>2. CASE d # c
      BY <1>2, <1>3, <2>2, <3>2, InsideIs
    <3> QED BY <3>1, <3>2
  <2> QED BY <1>6, <2>1, <2>2, InsideIsNext
<1>7. ASSUME NEW q \in Inside
      PROVE  q \in Inside'
  <2>1. ASSUME NEW i \in 1..Len(queue), queue[i] = q
        PROVE  q \in Inside'
    <3>1. CASE i = 1
      BY <1>2, <1>5, <2>1, <3>1, InsideIsNext
    <3>2. CASE i # 1
      <4>1. i - 1 \in 1..Len(queue') /\ (i - 1) + 1 = i
        BY <1>5, <3>2
      <4>2. queue'[i - 1] = q
        BY <1>5, <2>1, <4>1
      <4> QED BY <4>1, <4>2, InsideIsNext
    <3> QED BY <3>1, <3>2
  <2>2. ASSUME NEW d \in Contexts, task[d] = "sending", held[d] = q
        PROVE  q \in Inside'
    <3>1. d # c
      BY <1>1, <2>2
    <3> QED BY <1>2, <1>3, <2>2, <3>1, InsideIsNext
  <2> QED BY <1>7, <2>1, <2>2, InsideIs
<1> QED BY <1>6, <1>7

(* A handler that returns lets one packet go, once its delay is over.      *)
LEMMA LeaveStep ==
  ASSUME ~Reorder, Base, Matched, BytesCounted, Departures, Once, NEW c \in Contexts,
         LosePacket(c) \/ SendPacket(c) \/ SendFails(c)
  PROVE  Line!Leave
<1> DEFINE p == held[c]
<1>1. SendHandlerReturns(c) /\ queue' = queue
  BY ReturnKeepsQueue
<1>2. /\ task[c] = "sending" /\ task'[c] # "sending"
      /\ \A d \in Contexts : d # c => task'[d] = task[d] /\ held'[d] = held[d]
  BY <1>1, HandlersReturn
<1>3. p \in Inside /\ p.at + delay <= now
  BY <1>2, InsideIs DEF Departures, SendsInTime
<1>4. Inside' = Inside \ {p}
  <2>1. ASSUME NEW q \in Inside'
        PROVE  q \in Inside /\ q # p
    <3>1. ASSUME NEW i \in 1..Len(queue), queue[i] = q
          PROVE  q \in Inside /\ q # p
      <4>1. queue[i].id # held[c].id
        BY <1>2 DEF Once, IdsDiffer
      <4> QED BY <3>1, <4>1, InsideIs
    <3>2. ASSUME NEW d \in Contexts, task'[d] = "sending", held'[d] = q
          PROVE  q \in Inside /\ q # p
      <4>1. d # c /\ task[d] = "sending" /\ held[d] = q
        BY <1>2, <3>2
      <4>2. held[d].id # held[c].id
        BY <1>2, <4>1 DEF Once, IdsDiffer
      <4> QED BY <4>1, <4>2, InsideIs
    <3> QED BY <1>1, <2>1, <3>1, <3>2, InsideIsNext
  <2>2. ASSUME NEW q \in Inside, q # p
        PROVE  q \in Inside'
    <3>1. CASE \E i \in 1..Len(queue) : queue[i] = q
      BY <1>1, <3>1, InsideIsNext
    <3>2. ASSUME NEW d \in Contexts, task[d] = "sending", held[d] = q
          PROVE  q \in Inside'
      <4>1. d # c
        BY <2>2, <3>2
      <4> QED BY <1>2, <3>2, <4>1, InsideIsNext
    <3> QED BY <2>2, <3>1, <3>2, InsideIs
  <2> QED BY <2>1, <2>2
<1>5. now' = now
  BY <1>1 DEF SendHandlerReturns
<1>6. /\ held[c].bytes \in Nat /\ held[c].bytes <= qUsed /\ qUsed \in Nat
  BY <1>2, NeverRefused
<1>7. \/ sent' = Append(sent, p) /\ stat'.randomLoss = stat.randomLoss /\ stop' = stop
      \/ Lossy /\ stat'.randomLoss = stat.randomLoss + 1 /\ sent' = sent /\ stop' = stop
      \/ stop' = "error" /\ sent' = sent /\ stat'.randomLoss = stat.randomLoss
  <2>1. CASE LosePacket(c)
    <3>1. Count("randomLoss") /\ stop' = stop /\ sent' = sent /\ Lossy
      BY <1>6, <2>1 DEF LosePacket, Release
    <3>2. stat'.randomLoss = stat.randomLoss + 1
      BY <3>1, CountOne DEF NoneCounted
    <3> QED BY <3>1, <3>2
  <2>2. CASE SendPacket(c)
    <3>1. Count("sPacket") /\ stop' = stop /\ sent' = Append(sent, p)
      BY <1>6, <2>2 DEF SendPacket, Release
    <3>2. stat'.randomLoss = stat.randomLoss
      BY <3>1, CountOne DEF NoneCounted
    <3> QED BY <3>1, <3>2
  <2>3. CASE SendFails(c)
    BY <2>3 DEF SendFails
  <2> QED BY <2>1, <2>2, <2>3
<1> HIDE DEF p
<1>8. \/ sent' = Append(sent, p) /\ stat'.randomLoss = stat.randomLoss /\ (stop' = "error") = (stop = "error")
      \/ Lossy /\ stat'.randomLoss = stat.randomLoss + 1 /\ sent' = sent
         /\ (stop' = "error") = (stop = "error")
      \/ (stop' = "error") = TRUE /\ sent' = sent /\ stat'.randomLoss = stat.randomLoss
  BY <1>7
<1> QED BY <1>3, <1>4, <1>5, <1>8 DEF Line!Leave

(* The steps that touch no packet let time pass, or fail, or do nothing.   *)
LEMMA IdleStep ==
  ASSUME Base, Places, Idle
  PROVE  Line!Tick \/ Line!Fail \/ UNCHANGED Line!vars
<1>1. Inside' = Inside /\ sent' = sent
  <2>1. SamePlaces /\ queue' = queue /\ held' = held /\ sent' = sent
    BY IdleKeeps
  <2>2. SameHandlers
    BY <2>1 DEF SamePlaces, SameHandlers
  <2> QED BY <2>1, <2>2, InsideSame
<1>2. CASE Tick
  <2>1. now' = now + 1 /\ stat' = stat /\ stop' = stop
    BY <1>2 DEF Tick
  <2> QED BY <1>1, <2>1 DEF Line!Tick
<1>3. CASE ReceiveFails
  <2>1. now' = now /\ stat' = stat /\ stop' = "error"
    BY <1>3 DEF ReceiveFails
  <2>2. (stop' = "error") = TRUE
    BY <2>1
  <2> QED BY <1>1, <2>1, <2>2 DEF Line!Fail
<1>4. CASE ~Tick /\ ~ReceiveFails
  <2>1. now' = now /\ (stop' = "error" <=> stop = "error")
    BY <1>4 DEF Idle, EnterSelect, SelectReturns, StopCommand, Interrupt, Reject, TooLarge,
                DivideByZero, Congestion, FlushDone
  <2>2. stat'.randomLoss = stat.randomLoss
    <3>1. CASE stat' = stat
      BY <3>1
    <3>2. ASSUME NEW f \in {"rejPack", "congPack"}, Count(f)
          PROVE  stat'.randomLoss = stat.randomLoss
      BY <3>2, CountOne DEF NoneCounted
    <3>3. stat' = stat \/ Count("rejPack") \/ Count("congPack")
      BY <1>4 DEF Idle, EnterSelect, SelectReturns, StopCommand, Interrupt, Reject, TooLarge,
                  DivideByZero, Congestion, FlushDone
    <3> QED BY <3>1, <3>2, <3>3
  <2>3. (stop' = "error") = (stop = "error")
    BY <2>1
  <2> QED BY <1>1, <2>1, <2>2, <2>3 DEF Line!vars
<1> QED BY <1>2, <1>3, <1>4

(* Every step is a step of the delay line.                                 *)
LEMMA LineNext ==
  ASSUME ~Reorder
  PROVE  Sound /\ Departures /\ Once /\ [Next]_vars => [Line!Next]_(Line!vars)
<1> SUFFICES ASSUME Sound, Departures, Once, [Next]_vars
             PROVE  Line!Next \/ UNCHANGED Line!vars
  OBVIOUS
<1>1. Base /\ Places /\ Matched /\ BytesCounted
  BY DEF Sound
<1>2. CASE UNCHANGED vars
  <2>1. Inside' = Inside
    BY <1>2, InsideSame DEF vars, SameHandlers
  <2> QED BY <1>2, <2>1 DEF vars, Line!vars
<1>3. CASE Idle
  BY <1>1, <1>3, IdleStep DEF Line!Next
<1>4. CASE SetTimer
  <2>1. Inside' = Inside
    <3>1. SameHandlers
      BY <1>1, <1>4, HandlersSetTimer
    <3>2. queue' = queue
      BY <1>4 DEF SetTimer
    <3> QED BY <3>1, <3>2, InsideSame
  <2>2. now' = now /\ sent' = sent /\ stop' = stop /\ Count("rPacket")
    BY <1>4 DEF SetTimer
  <2>3. stat'.randomLoss = stat.randomLoss
    BY <1>1, <2>2, CountOne DEF NoneCounted
  <2> QED BY <2>1, <2>2, <2>3 DEF Line!vars
<1>5. ASSUME NEW b \in Sizes, Accept(b)
      PROVE  Line!Next
  BY <1>1, <1>5, EnterStep DEF Line!Next
<1>6. ASSUME NEW c \in Contexts, FireTimer(c)
      PROVE  UNCHANGED Line!vars
  <2>1. Inside' = Inside
    <3>1. SameHandlers
      BY <1>1, <1>6, HandlersFireTimer
    <3>2. queue' = queue
      BY <1>6 DEF FireTimer
    <3> QED BY <3>1, <3>2, InsideSame
  <2>2. now' = now /\ sent' = sent /\ stop' = stop /\ stat' = stat
    BY <1>6 DEF FireTimer
  <2> QED BY <2>1, <2>2 DEF Line!vars
<1>7. ASSUME NEW c \in Contexts, GetPacket(c)
      PROVE  UNCHANGED Line!vars
  <2>1. Inside' = Inside
    BY <1>1, <1>7, InsideGetPacket
  <2>2. now' = now /\ sent' = sent /\ stop' = stop /\ stat' = stat
    BY <1>7 DEF GetPacket
  <2> QED BY <2>1, <2>2 DEF Line!vars
<1>8. ASSUME NEW c \in Contexts, LosePacket(c) \/ SendPacket(c) \/ SendFails(c)
      PROVE  Line!Next
  BY <1>1, <1>8, LeaveStep DEF Line!Next
<1> QED BY <1>2, <1>3, <1>4, <1>5, <1>6, <1>7, <1>8, Actions DEF Sound

(* Without -O the emulator is a delay line: what the timers, the queue and *)
(* the handlers that a signal interrupts do with a packet amounts to       *)
(* keeping it for the delay and letting it go once.                        *)
THEOREM ImplementsDelayLine ==
  ASSUME RoomByBytes, ~Reorder
  PROVE  Spec => DelayLineSpec
<1>1. Init => Line!Init
  <2> SUFFICES ASSUME Init
               PROVE  Line!Init
    OBVIOUS
  <2>1. Inside = {}
    BY DEF Init, Inside, In, Contexts
  <2>2. now = 0 /\ sent = <<>> /\ stat.randomLoss = 0 /\ (stop = "error") = FALSE
    BY DEF Init, NoneCounted
  <2> QED BY <2>1, <2>2 DEF Line!Init
<1>2. Sound /\ Departures /\ Once /\ [Next]_vars => [Line!Next]_(Line!vars)
  BY LineNext
<1> QED BY <1>1, <1>2, Soundness, DeparturesAlways, OnceAlways, PTL DEF Spec, DelayLineSpec, Line!Spec

----------------------------------------------------------------------------
(* The link's speed in the long run.  Without -O and -m, prvIntervled is   *)
(* the time that the link needs for all the packets whose timers were ever *)
(* set: no timer goes off before the link could have sent what went before.*)

(* A larger packet takes longer.                                           *)
LEMMA IntervalGrows ==
  ASSUME NEW a \in Nat, NEW b \in Nat, a <= b
  PROVE  Interval(a) <= Interval(b)
<1> DEFINE m == 8000 * a
           n == 8000 * b
<1>1. m \in Nat /\ n \in Nat /\ m <= n /\ speed \in Nat \ {0}
  BY SpeedAssumption
<1> HIDE DEF m, n
<1>2. m \div speed <= n \div speed
  BY <1>1, DivMonotone
<1> QED BY <1>2 DEF Interval, m, n

(* MaxInterval is what its name says.                                      *)
LEMMA MaxIntervalIs ==
  /\ MaxInterval \in Nat
  /\ \A b \in Sizes : b <= inQBufSize => Interval(b) <= MaxInterval
<1> DEFINE S == {0} \cup {Interval(b) : b \in {s \in Sizes : s <= inQBufSize}}
<1>1. inQBufSize \in Nat /\ Sizes \subseteq Nat
  BY Constants
<1>2. Interval(inQBufSize) \in Nat /\ S \subseteq 0..Interval(inQBufSize) /\ S # {}
  <2>1. ASSUME NEW b \in Sizes, b <= inQBufSize
        PROVE  Interval(b) \in 0..Interval(inQBufSize)
    <3>1. b \in Nat /\ inQBufSize \in Nat
      BY <1>1
    <3>2. Interval(b) \in Nat /\ Interval(inQBufSize) \in Nat
      BY <3>1, IntervalNat
    <3>3. Interval(b) <= Interval(inQBufSize)
      BY <2>1, <3>1, IntervalGrows
    <3> QED BY <3>2, <3>3
  <2>2. Interval(inQBufSize) \in Nat
    BY <1>1, IntervalNat
  <2>3. ASSUME NEW x \in S
        PROVE  x \in 0..Interval(inQBufSize)
    <3>1. CASE x = 0
      <4> HIDE DEF S
      <4> QED BY <2>2, <3>1
    <3>2. CASE x # 0
      <4>1. PICK b \in {s \in Sizes : s <= inQBufSize} : x = Interval(b)
        BY <3>2
      <4> QED BY <2>1, <4>1
    <3> HIDE DEF S
    <3> QED BY <3>1, <3>2
  <2>4. 0 \in S
    OBVIOUS
  <2> HIDE DEF S
  <2> QED BY <2>2, <2>3, <2>4
<1>3. \A b \in Sizes : b <= inQBufSize => Interval(b) \in S
  OBVIOUS
<1> HIDE DEF S
<1>4. PICK m \in S : \A k \in S : k <= m
  BY <1>2, Greatest
<1>5. Max(S) \in S /\ \A k \in S : Max(S) >= k
  <2>1. m \in S /\ \A k \in S : m >= k
    BY <1>2, <1>4
  <2> QED BY <2>1 DEF Max
<1>6. MaxInterval = Max(S)
  BY DEF MaxInterval, S
<1>7. MaxInterval \in S /\ \A k \in S : MaxInterval >= k
  BY <1>5, <1>6
<1>8. MaxInterval \in Nat
  BY <1>2, <1>7
<1>9. ASSUME NEW b \in Sizes, b <= inQBufSize
      PROVE  Interval(b) <= MaxInterval
  <2>1. Interval(b) \in S
    BY <1>3, <1>9
  <2>2. MaxInterval >= Interval(b)
    BY <1>7, <2>1
  <2>3. Interval(b) \in Nat
    <3>1. b \in Nat
      BY <1>1
    <3> QED BY <3>1, IntervalNat
  <2> QED BY <1>8, <2>2, <2>3
<1> QED BY <1>8, <1>9

(* The time that a queue keeps the link busy, and its parts.               *)
LEMMA IntervalSums ==
  ASSUME NEW q \in Seq(Packet)
  PROVE  /\ Total(IntervalsOf(q)) \in Nat
         /\ \A k \in 0..Len(q) : PartialSums(IntervalsOf(q))[k] \in Nat
         /\ \A j, k \in 0..Len(q) :
              j <= k => PartialSums(IntervalsOf(q))[j] <= PartialSums(IntervalsOf(q))[k]
         /\ PartialSums(IntervalsOf(q))[0] = 0
         /\ PartialSums(IntervalsOf(q))[Len(q)] = Total(IntervalsOf(q))
         /\ \A k \in 1..Len(q) :
              PartialSums(IntervalsOf(q))[k] =
                PartialSums(IntervalsOf(q))[k - 1] + Interval(q[k].bytes)
<1> DEFINE s == IntervalsOf(q)
<1>1. s \in Seq(Nat) /\ Len(s) = Len(q) /\ Len(q) \in Nat
      /\ \A k \in 1..Len(q) : s[k] = Interval(q[k].bytes)
  BY NumbersOf
<1> HIDE DEF s
<1>2. PartialSums(s) \in [0..Len(q) -> Nat] /\ PartialSums(s)[0] = 0
  BY <1>1, PartialSumsDef DEF AreSums
<1>3. Total(s) = PartialSums(s)[Len(q)] /\ Total(s) \in Nat
  BY <1>1, TotalNat DEF Total
<1>4. ASSUME NEW j \in 0..Len(q), NEW k \in 0..Len(q), j <= k
      PROVE  PartialSums(s)[j] <= PartialSums(s)[k]
  <2>1. k \in j..Len(s) /\ j \in 0..Len(s)
    BY <1>1, <1>4
  <2> QED BY <1>1, <2>1, SumsGrow
<1>5. ASSUME NEW k \in 1..Len(q)
      PROVE  PartialSums(s)[k] = PartialSums(s)[k - 1] + Interval(q[k].bytes)
  <2>1. k - 1 \in Nat /\ k - 1 < Len(s) /\ (k - 1) + 1 = k
    BY <1>1
  <2>2. PartialSums(s)[(k - 1) + 1] = PartialSums(s)[k - 1] + s[(k - 1) + 1]
    BY <1>1, <2>1, PartialSumsStep
  <2> QED BY <1>1, <2>1, <2>2
<1> QED BY <1>2, <1>3, <1>4, <1>5 DEF s

(* When a packet comes in or goes out.                                     *)
LEMMA IntervalTotals ==
  ASSUME NEW q \in Seq(Packet)
  PROVE  /\ \A p \in Packet :
              /\ Total(IntervalsOf(Append(q, p))) = Total(IntervalsOf(q)) + Interval(p.bytes)
              /\ \A k \in 0..Len(q) :
                   PartialSums(IntervalsOf(Append(q, p)))[k] = PartialSums(IntervalsOf(q))[k]
         /\ q # <<>> =>
              /\ Total(IntervalsOf(q)) = Interval(q[1].bytes) + Total(IntervalsOf(Tail(q)))
              /\ \A k \in 0..Len(q) - 1 :
                   PartialSums(IntervalsOf(q))[k + 1] =
                     Interval(q[1].bytes) + PartialSums(IntervalsOf(Tail(q)))[k]
<1> DEFINE s == IntervalsOf(q)
<1>1. s \in Seq(Nat) /\ Len(s) = Len(q)
  BY NumbersOf
<1>2. ASSUME NEW p \in Packet
      PROVE  /\ Total(IntervalsOf(Append(q, p))) = Total(s) + Interval(p.bytes)
             /\ \A k \in 0..Len(q) : PartialSums(IntervalsOf(Append(q, p)))[k] = PartialSums(s)[k]
  <2>1. Interval(p.bytes) \in Nat
    <3>1. p.bytes \in Nat
      BY PacketFields
    <3> QED BY <3>1, IntervalNat
  <2>2. IntervalsOf(Append(q, p)) = Append(s, Interval(p.bytes))
    BY NumbersOfAppend
  <2> HIDE DEF s
  <2> QED BY <1>1, <2>1, <2>2, SumsAppend
<1>3. ASSUME q # <<>>
      PROVE  /\ Total(s) = Interval(q[1].bytes) + Total(IntervalsOf(Tail(q)))
             /\ \A k \in 0..Len(q) - 1 :
                  PartialSums(s)[k + 1] = Interval(q[1].bytes) + PartialSums(IntervalsOf(Tail(q)))[k]
  <2>1. s # <<>> /\ IntervalsOf(Tail(q)) = Tail(s)
    BY <1>3, NumbersOfTail
  <2>2. s[1] = Interval(q[1].bytes)
    <3>1. 1 \in 1..Len(q)
      BY <1>3
    <3> QED BY <3>1, NumbersOf
  <2> HIDE DEF s
  <2> QED BY <1>1, <2>1, <2>2, SumsTail
<1> QED BY <1>2, <1>3

(* How long the link is busy with the packet of a handler.                 *)
LinkTime(c, place) == IF task[c] = place THEN Interval(held[c].bytes) ELSE 0

(* The link's time for all the packets that have left the queue.           *)
Gone == (prvIntervled + LinkTime("main", "adding")) - Total(IntervalsOf(queue))

(* When the link may have sent all that goes before the k-th packet.       *)
Due(k) == Gone + PartialSums(IntervalsOf(queue))[k - 1]

(* Packets are sent, or lost, or being sent.                               *)
Carried ==
  Total(IntervalsOf(sent)) + LinkTime("main", "sending") + LinkTime("signal", "sending") <= Gone

GoneInTime == Gone <= now + MaxInterval

FiredWhenDue == \A i \in 1..Firing : Due(i) <= now

TimersWhenDue == \A i \in 1..Len(timerQ) : Due(i + Firing) <= timerQ[i].time

LinkInTime == Carried /\ GoneInTime /\ FiredWhenDue /\ TimersWhenDue

(* The times of this part are numbers, and packets are due in their order. *)
LEMMA DueTypes ==
  ASSUME Base, Matched
  PROVE  /\ prvIntervled \in Nat /\ MaxInterval \in Nat /\ now \in Nat
         /\ \A c \in Contexts, place \in TaskPlaces : LinkTime(c, place) \in Nat
         /\ Gone \in Int /\ Total(IntervalsOf(sent)) \in Nat
         /\ \A k \in 1..Len(queue) : Due(k) \in Int
         /\ \A j, k \in 1..Len(queue) : j <= k => Due(j) <= Due(k)
<1>1. /\ queue \in Seq(Packet) /\ sent \in Seq(Packet) /\ prvIntervled \in Nat /\ now \in Nat
      /\ held \in [Contexts -> Packet \cup Garbage] /\ Len(queue) \in Nat
  BY DEF Base, Types, Matched
<1>2. ASSUME NEW c \in Contexts, NEW place \in TaskPlaces
      PROVE  LinkTime(c, place) \in Nat
  <2>1. held[c].bytes \in Nat
    BY <1>1, PacketFields
  <2>2. Interval(held[c].bytes) \in Nat
    BY <2>1, IntervalNat
  <2> QED BY <2>2 DEF LinkTime
<1>3. Gone \in Int
  <2>1. LinkTime("main", "adding") \in Nat /\ Total(IntervalsOf(queue)) \in Nat
    BY <1>1, <1>2, IntervalSums DEF Contexts, TaskPlaces
  <2> QED BY <1>1, <2>1 DEF Gone
<1>4. Total(IntervalsOf(sent)) \in Nat
  BY <1>1, IntervalSums
<1>5. ASSUME NEW k \in 1..Len(queue)
      PROVE  Due(k) \in Int
  <2>1. k - 1 \in 0..Len(queue)
    BY <1>1
  <2>2. PartialSums(IntervalsOf(queue))[k - 1] \in Nat
    BY <1>1, <2>1, IntervalSums
  <2> QED BY <1>3, <2>2 DEF Due
<1>6. ASSUME NEW j \in 1..Len(queue), NEW k \in 1..Len(queue), j <= k
      PROVE  Due(j) <= Due(k)
  <2> DEFINE P == PartialSums(IntervalsOf(queue))
  <2>1. j - 1 \in 0..Len(queue) /\ k - 1 \in 0..Len(queue) /\ j - 1 <= k - 1
    BY <1>1, <1>6
  <2>2. P[j - 1] <= P[k - 1] /\ P[j - 1] \in Nat /\ P[k - 1] \in Nat
    BY <1>1, <2>1, IntervalSums
  <2>3. Due(j) = Gone + P[j - 1] /\ Due(k) = Gone + P[k - 1]
    BY DEF Due
  <2> HIDE DEF P
  <2> QED BY <1>3, <2>2, <2>3
<1> QED BY <1>1, <1>2, <1>3, <1>4, <1>5, <1>6, MaxIntervalIs

(* The first and the last packet in the queue.                             *)
LEMMA DueEnds ==
  ASSUME Base, Matched, Len(queue) > 0
  PROVE  /\ Due(1) = Gone
         /\ Due(Len(queue)) + Interval(queue[Len(queue)].bytes) = Gone + Total(IntervalsOf(queue))
<1> DEFINE P == PartialSums(IntervalsOf(queue))
           m == Len(queue)
<1>1. queue \in Seq(Packet) /\ m \in Nat /\ m \in 1..m /\ m - 1 \in 0..m
  BY DEF Base, Types
<1>2. P[0] = 0 /\ P[m] = P[m - 1] + Interval(queue[m].bytes) /\ P[m] = Total(IntervalsOf(queue))
      /\ P[m - 1] \in Nat /\ P[m] \in Nat
  BY <1>1, IntervalSums
<1>3. Interval(queue[m].bytes) \in Nat
  <2>1. queue[m].bytes \in Nat
    BY <1>1, PacketFields
  <2> QED BY <2>1, IntervalNat
<1>4. Due(1) = Gone + P[1 - 1] /\ Due(m) = Gone + P[m - 1] /\ Gone \in Int
  BY DueTypes DEF Due
<1> HIDE DEF P, m
<1>5. Due(1) = Gone
  BY <1>2, <1>4
<1>6. Due(m) + Interval(queue[m].bytes) = Gone + Total(IntervalsOf(queue))
  BY <1>2, <1>3, <1>4
<1> QED BY <1>5, <1>6 DEF m

(* At the start the link is free.                                          *)
LEMMA LinkInTimeInit == Init => LinkInTime
<1> SUFFICES ASSUME Init PROVE LinkInTime
  OBVIOUS
<1>1. Firing = 0 /\ queue = <<>> /\ timerQ = <<>> /\ sent = <<>> /\ prvIntervled = 0 /\ now = 0
      /\ LinkTime("main", "adding") = 0 /\ LinkTime("main", "sending") = 0
      /\ LinkTime("signal", "sending") = 0
  BY DEF Init, Firing, At, LinkTime
<1>2. queue \in Seq(Packet) /\ sent \in Seq(Packet)
  BY <1>1
<1>3. Total(IntervalsOf(queue)) = 0 /\ Total(IntervalsOf(sent)) = 0
  <2>1. ASSUME NEW q \in Seq(Packet), q = <<>>
        PROVE  Total(IntervalsOf(q)) = 0
    <3>1. Len(q) = 0
      BY <2>1
    <3>2. PartialSums(IntervalsOf(q))[Len(q)] = Total(IntervalsOf(q))
          /\ PartialSums(IntervalsOf(q))[0] = 0
      BY IntervalSums
    <3> QED BY <3>1, <3>2
  <2> QED BY <1>1, <1>2, <2>1
<1>4. Gone = 0
  BY <1>1, <1>3 DEF Gone
<1>5. Carried
  BY <1>1, <1>3, <1>4 DEF Carried
<1>6. GoneInTime
  BY <1>1, <1>4, MaxIntervalIs DEF GoneInTime
<1>7. FiredWhenDue /\ TimersWhenDue
  BY <1>1 DEF FiredWhenDue, TimersWhenDue
<1> QED BY <1>5, <1>6, <1>7 DEF LinkInTime

(* Time may pass.                                                          *)
LEMMA LinkInTimeStill ==
  ASSUME Base, Matched, LinkInTime, SamePlaces, queue' = queue, timerQ' = timerQ, held' = held,
         sent' = sent, prvIntervled' = prvIntervled, now <= now', now' \in Nat
  PROVE  LinkInTime'
<1>1. Firing' = Firing /\ \A c \in Contexts : \A place \in {"adding", "sending"} :
                            LinkTime(c, place)' = LinkTime(c, place)
  BY DEF SamePlaces, Firing, At, LinkTime, Contexts
<1>2. Gone' = Gone
  BY <1>1 DEF Gone, Contexts
<1>3. \A k \in Nat : Due(k)' = Due(k)
  BY <1>2 DEF Due
<1>4. Carried'
  BY <1>1, <1>2 DEF LinkInTime, Carried, Contexts
<1>5. GoneInTime'
  <2>1. Gone \in Int /\ now \in Nat /\ MaxInterval \in Nat /\ Gone <= now + MaxInterval
    BY DueTypes DEF LinkInTime, GoneInTime
  <2>2. Gone <= now' + MaxInterval
    BY <2>1, NotLater
  <2> QED BY <1>2, <2>2 DEF GoneInTime
<1>6. FiredWhenDue'
  <2> SUFFICES ASSUME NEW i \in 1..Firing
               PROVE  Due(i) <= now'
    BY <1>1, <1>3 DEF FiredWhenDue
  <2>1. i \in 1..Len(queue) /\ Due(i) <= now
    BY QueueTypes DEF LinkInTime, FiredWhenDue
  <2>2. Due(i) \in Int /\ now \in Nat
    BY <2>1, DueTypes
  <2> QED BY <2>1, <2>2
<1>7. TimersWhenDue'
  <2> SUFFICES ASSUME NEW i \in 1..Len(timerQ)
               PROVE  Due(i + Firing) <= timerQ[i].time
    <3>1. Firing \in Nat
      BY QueueTypes
    <3> QED BY <1>1, <1>3, <3>1 DEF TimersWhenDue
  <2> QED BY DEF LinkInTime, TimersWhenDue
<1> QED BY <1>4, <1>5, <1>6, <1>7 DEF LinkInTime

(* A new packet is due after all others.                                   *)
LEMMA LinkInTimeAccept ==
  ASSUME Base, Places, Matched, BytesCounted, LinkInTime, NEW b \in Sizes, Accept(b)
  PROVE  LinkInTime'
<1> DEFINE p == assembleItem(b)
<1>1. queue' = Append(queue, p) /\ p \in Packet /\ queue \in Seq(Packet) /\ Len(queue) \in Nat
  BY MatchedAccept, QueueTypes
<1>2. now' = now /\ timerQ' = timerQ /\ held' = [held EXCEPT !["main"] = p]
      /\ sent' = sent /\ prvIntervled' = prvIntervled
      /\ task["main"] = "select" /\ task["signal"] = "off" /\ GoTo("main", "adding")
  BY DEF Accept, Accepted, Arrival, Runs
<1> HIDE DEF p
<1>3. Contexts = {"main", "signal"} /\ held \in [Contexts -> Packet \cup Garbage]
  BY QueueTypes
<1>4. task'["main"] = "adding" /\ task'["signal"] = "off" /\ held'["main"] = p
  BY <1>2, <1>3, Went
<1>5. Firing = 0 /\ Firing' = 0 /\ At("main", "adding") = 0
  BY <1>2, <1>4 DEF Firing, At
<1>6. Len(timerQ) = Len(queue)
  BY <1>1, <1>5, QueueTypes
<1>7. /\ LinkTime("main", "adding") = 0 /\ LinkTime("main", "adding")' = Interval(p.bytes)
      /\ LinkTime("main", "sending") = 0 /\ LinkTime("main", "sending")' = 0
      /\ LinkTime("signal", "sending") = 0 /\ LinkTime("signal", "sending")' = 0
  BY <1>2, <1>4 DEF LinkTime
<1>8. Gone' = Gone
  <2>1. Total(IntervalsOf(queue')) = Total(IntervalsOf(queue)) + Interval(p.bytes)
    BY <1>1, IntervalTotals
  <2>2. Total(IntervalsOf(queue)) \in Nat /\ Interval(p.bytes) \in Nat /\ prvIntervled \in Nat
    <3>1. p.bytes \in Nat
      BY <1>1, PacketFields
    <3> QED BY <1>1, <3>1, IntervalSums, IntervalNat, DueTypes
  <2>3. Gone = (prvIntervled + 0) - Total(IntervalsOf(queue))
        /\ Gone' = (prvIntervled + Interval(p.bytes)) - Total(IntervalsOf(queue'))
    BY <1>2, <1>7 DEF Gone
  <2> QED BY <2>1, <2>2, <2>3
<1>9. ASSUME NEW k \in 1..Len(queue)
      PROVE  Due(k)' = Due(k)
  <2>1. k - 1 \in 0..Len(queue)
    BY <1>1
  <2>2. PartialSums(IntervalsOf(queue'))[k - 1] = PartialSums(IntervalsOf(queue))[k - 1]
    BY <1>1, <2>1, IntervalTotals
  <2> QED BY <1>8, <2>2 DEF Due
<1>10. Carried' /\ GoneInTime'
  BY <1>2, <1>7, <1>8 DEF LinkInTime, Carried, GoneInTime
<1>11. FiredWhenDue'
  BY <1>5 DEF FiredWhenDue
<1>12. TimersWhenDue'
  <2> SUFFICES ASSUME NEW i \in 1..Len(timerQ)
               PROVE  Due(i + 0)' <= timerQ[i].time
    BY <1>2, <1>5 DEF TimersWhenDue
  <2>1. i + 0 = i /\ i \in 1..Len(queue)
    BY <1>6
  <2>2. Due(i + 0) <= timerQ[i].time
    BY <1>5 DEF LinkInTime, TimersWhenDue
  <2> QED BY <1>9, <2>1, <2>2
<1> QED BY <1>10, <1>11, <1>12 DEF LinkInTime

(* The last packet's timer is set to when it is due, or later.             *)
LEMMA LinkInTimeSetTimer ==
  ASSUME calcMode = 0, Base, Places, Matched, Departures, LinkInTime, SetTimer
  PROVE  LinkInTime'
<1> DEFINE place == Place(timerQ, NewTime)
           m == Len(queue)
           last == Interval(held["main"].bytes)
<1>1. /\ queue' = queue /\ now' = now /\ sent' = sent
      /\ prvIntervled' = NextIntervled(held["main"].bytes, held["main"].at)
      /\ task["main"] = "adding" /\ task["signal"] = "off" /\ GoTo("main", LoopTop)
  BY DEF SetTimer, Runs
<1>2. /\ Contexts = {"main", "signal"} /\ m \in Nat /\ Len(timerQ) \in Nat /\ queue \in Seq(Packet)
      /\ \A i \in 1..Len(timerQ) : timerQ[i].time \in Nat
  BY QueueTypes
<1>3. task'["main"] \in {"timers", "stopped"} /\ task'["signal"] = "off"
  <2>1. task'["main"] = LoopTop /\ task'["signal"] = task["signal"]
    BY <1>1, <1>2, Went
  <2> QED BY <1>1, <2>1 DEF LoopTop
<1>4. Firing = 0 /\ Firing' = 0 /\ At("main", "adding") = 1
  BY <1>1, <1>3 DEF Firing, At
<1>5. m = Len(timerQ) + 1
  BY <1>2, <1>4, QueueTypes
<1>6. queue[m] = held["main"] /\ m > 0 /\ m \in 1..m
  BY <1>1, <1>2, <1>5 DEF Departures, AddsLast
<1>7. /\ LinkTime("main", "adding") = last /\ LinkTime("main", "adding")' = 0
      /\ LinkTime("main", "sending") = 0 /\ LinkTime("main", "sending")' = 0
      /\ LinkTime("signal", "sending") = 0 /\ LinkTime("signal", "sending")' = 0
  BY <1>1, <1>3 DEF LinkTime
<1>8. prvIntervled' = prvIntervled + last
  BY <1>1 DEF NextIntervled
<1>9. last \in Nat /\ prvIntervled \in Nat /\ Gone \in Int /\ Total(IntervalsOf(queue)) \in Nat
  <2>1. held["main"].bytes \in Nat
    BY <1>2, <1>6, PacketFields
  <2> QED BY <1>2, <2>1, IntervalNat, IntervalSums, DueTypes
<1> HIDE DEF last
<1>10. Gone' = Gone /\ prvIntervled + last = Gone + Total(IntervalsOf(queue))
  <2>1. Gone = (prvIntervled + last) - Total(IntervalsOf(queue))
        /\ Gone' = ((prvIntervled + last) + 0) - Total(IntervalsOf(queue))
    BY <1>1, <1>7, <1>8 DEF Gone
  <2> QED BY <1>9, <2>1
<1>11. \A k \in Nat : Due(k)' = Due(k)
  BY <1>1, <1>10 DEF Due
<1>12. Due(m) = prvIntervled
  <2>1. Due(m) + last = Gone + Total(IntervalsOf(queue))
    BY <1>6, DueEnds DEF last
  <2>2. Due(m) \in Int
    BY <1>6, DueTypes
  <2> QED BY <1>9, <1>10, <2>1, <2>2
<1>13. NewTime \in Nat /\ prvIntervled <= NewTime
  <2> DEFINE p == held["main"]
  <2>1. p \in Packet
    BY <1>1 DEF Base, HoldsQueued
  <2>2. NewTime = Departure(p.bytes, p.at)
    BY DEF NewTime
  <2> HIDE DEF p
  <2>3. p.bytes \in Nat /\ p.at \in Nat
    BY <2>1, PacketFields
  <2> QED BY <1>9, <2>2, <2>3, DepartureAfter
<1>14. \A i \in 1..m : Due(i) \in Int /\ Due(i) <= NewTime
  <2> SUFFICES ASSUME NEW i \in 1..m
               PROVE  Due(i) \in Int /\ Due(i) <= NewTime
    OBVIOUS
  <2>1. Due(i) \in Int /\ Due(i) <= Due(m)
    BY <1>2, <1>6, DueTypes
  <2> QED BY <1>9, <1>12, <1>13, <2>1
<1>15. \A i \in 1..Len(timerQ) : Due(i) <= timerQ[i].time
  <2> SUFFICES ASSUME NEW i \in 1..Len(timerQ)
               PROVE  Due(i) <= timerQ[i].time
    OBVIOUS
  <2>1. i + 0 = i
    OBVIOUS
  <2>2. Due(i + 0) <= timerQ[i].time
    BY <1>4 DEF LinkInTime, TimersWhenDue
  <2> QED BY <2>1, <2>2
<1>16. Len(timerQ') = m
  BY <1>5, TimerAdded
<1>17. \A i \in 1..m :
         \/ i = place /\ timerQ'[i].client = rUdpC' /\ timerQ'[i].time = NewTime
         \/ i < place /\ i \in 1..Len(timerQ) /\ timerQ'[i] = timerQ[i]
            /\ timerQ[i].time <= NewTime
         \/ i > place /\ i - 1 \in 1..Len(timerQ) /\ timerQ'[i] = timerQ[i - 1]
            /\ NewTime < timerQ[i - 1].time
  BY <1>16, TimerAdded
<1> HIDE DEF place, m
<1>18. ASSUME NEW i \in 1..m
       PROVE  Due(i) <= timerQ'[i].time
  <2>1. Due(i) \in Int /\ Due(i) <= NewTime
    BY <1>14
  <2>2. CASE timerQ'[i].time = NewTime
    BY <2>1, <2>2
  <2>3. CASE i \in 1..Len(timerQ) /\ timerQ'[i] = timerQ[i]
    BY <1>15, <2>3
  <2>4. CASE i - 1 \in 1..Len(timerQ) /\ timerQ'[i] = timerQ[i - 1] /\ NewTime < timerQ[i - 1].time
    BY <1>2, <1>13, <2>1, <2>4
  <2> QED BY <1>17, <2>2, <2>3, <2>4
<1>19. Carried' /\ GoneInTime'
  BY <1>1, <1>7, <1>10 DEF LinkInTime, Carried, GoneInTime
<1>20. FiredWhenDue'
  BY <1>4 DEF FiredWhenDue
<1>21. TimersWhenDue'
  <2> SUFFICES ASSUME NEW i \in 1..Len(timerQ')
               PROVE  Due(i + 0)' <= timerQ'[i].time
    BY <1>4 DEF TimersWhenDue
  <2>1. i + 0 = i /\ i \in 1..m
    BY <1>16
  <2> QED BY <1>11, <1>18, <2>1
<1> QED BY <1>19, <1>20, <1>21 DEF LinkInTime

(* A timer that fires has come to its time, so its packet is due.          *)
LEMMA LinkInTimeFireTimer ==
  ASSUME Base, Places, Matched, LinkInTime, NEW c \in Contexts, FireTimer(c)
  PROVE  LinkInTime'
<1>1. queue' = queue /\ now' = now /\ held' = held /\ sent' = sent /\ prvIntervled' = prvIntervled
      /\ task[c] \in {"timers", "flush"} /\ GoTo(c, "firing")
      /\ timerQ # <<>> /\ ~ (now < Head(timerQ).time) /\ timerQ' = Tail(timerQ)
  BY DEF FireTimer, Caller, Expired
<1>2. /\ Contexts = {"main", "signal"} /\ Len(queue) \in Nat /\ Len(timerQ) \in Nat
      /\ timerQ \in Seq(Timer) /\ now \in Nat /\ Firing \in Nat
      /\ Len(queue) = Len(timerQ) + Firing + At("main", "adding") /\ At("main", "adding") \in {0, 1}
      /\ \A i \in 1..Len(timerQ) : timerQ[i].time \in Nat
  BY QueueTypes
<1>3. task'[c] = "firing" /\ \A d \in Contexts : d # c => task'[d] = task[d]
  BY <1>1, Went
<1>4. Firing' = Firing + 1
  <2>1. CASE c = "main"
    BY <1>1, <1>2, <1>3, <2>1 DEF Firing, At
  <2>2. CASE c = "signal"
    BY <1>1, <1>2, <1>3, <2>2 DEF Firing, At
  <2> QED BY <1>2, <2>1, <2>2
<1>5. \A d \in Contexts : \A place \in {"adding", "sending"} :
         LinkTime(d, place)' = LinkTime(d, place)
  BY <1>1, <1>3 DEF LinkTime
<1>6. Gone' = Gone
  BY <1>1, <1>2, <1>5 DEF Gone
<1>7. \A k \in Nat : Due(k)' = Due(k)
  BY <1>1, <1>6 DEF Due
<1>8. /\ 1 \in 1..Len(timerQ) /\ timerQ[1].time <= now /\ Len(timerQ') = Len(timerQ) - 1
      /\ \A i \in 1..Len(timerQ') : timerQ'[i] = timerQ[i + 1] /\ i + 1 \in 1..Len(timerQ)
  <2>1. 1 \in 1..Len(timerQ) /\ Head(timerQ) = timerQ[1]
    BY <1>1, <1>2
  <2>2. timerQ[1].time <= now
    BY <1>1, <1>2, <2>1
  <2>3. /\ Len(timerQ') = Len(timerQ) - 1
        /\ \A i \in 1..Len(timerQ') : timerQ'[i] = timerQ[i + 1] /\ i + 1 \in 1..Len(timerQ)
    BY <1>1, <1>2
  <2> QED BY <2>1, <2>2, <2>3
<1>9. Carried'
  BY <1>1, <1>2, <1>5, <1>6 DEF LinkInTime, Carried
<1>10. GoneInTime'
  BY <1>1, <1>6 DEF LinkInTime, GoneInTime
<1>11. FiredWhenDue'
  <2> SUFFICES ASSUME NEW i \in 1..Firing + 1
               PROVE  Due(i) <= now
    BY <1>1, <1>2, <1>4, <1>7 DEF FiredWhenDue
  <2>1. CASE i \in 1..Firing
    BY <2>1 DEF LinkInTime, FiredWhenDue
  <2>2. CASE i = 1 + Firing
    <3>1. Due(1 + Firing) <= timerQ[1].time
      BY <1>8 DEF LinkInTime, TimersWhenDue
    <3>2. 1 + Firing \in 1..Len(queue)
      BY <1>2, <1>8
    <3>3. Due(1 + Firing) \in Int /\ timerQ[1].time \in Nat
      BY <1>2, <1>8, <3>2, DueTypes
    <3> QED BY <1>2, <1>8, <2>2, <3>1, <3>3
  <2> QED BY <1>2, <2>1, <2>2
<1>12. TimersWhenDue'
  <2> SUFFICES ASSUME NEW i \in 1..Len(timerQ')
               PROVE  Due(i + (Firing + 1)) <= timerQ'[i].time
    BY <1>2, <1>4, <1>7 DEF TimersWhenDue
  <2>1. i + 1 \in 1..Len(timerQ) /\ timerQ'[i] = timerQ[i + 1]
    BY <1>8
  <2>2. Due((i + 1) + Firing) <= timerQ[i + 1].time
    BY <2>1 DEF LinkInTime, TimersWhenDue
  <2>3. (i + 1) + Firing = i + (Firing + 1)
    BY <1>2
  <2> QED BY <2>1, <2>2, <2>3
<1> QED BY <1>9, <1>10, <1>11, <1>12 DEF LinkInTime

(* The packet that leaves the queue was due, so that all that has gone is  *)
(* at most one packet more than the link could send.                       *)
LEMMA LinkInTimeGetPacket ==
  ASSUME Base, Places, Matched, BytesCounted, LinkInTime, NEW c \in Contexts, GetPacket(c)
  PROVE  LinkInTime'
<1> DEFINE first == Interval(queue[1].bytes)
<1>1. now' = now /\ timerQ' = timerQ /\ sent' = sent /\ prvIntervled' = prvIntervled
      /\ task[c] = "firing" /\ GoTo(c, "sending")
  BY DEF GetPacket
<1>2. /\ Contexts = {"main", "signal"} /\ Len(queue) \in Nat /\ Len(timerQ) \in Nat
      /\ queue \in Seq(Packet) /\ now \in Nat /\ Firing \in Nat
      /\ Len(queue) = Len(timerQ) + Firing + At("main", "adding") /\ At("main", "adding") \in {0, 1}
  BY QueueTypes
<1>3. task'[c] = "sending" /\ \A d \in Contexts : d # c => task'[d] = task[d]
  BY <1>1, Went
<1>4. /\ queue # <<>> /\ queue' = Tail(queue) /\ held'[c] = Head(queue)
      /\ \A d \in Contexts : d # c => held'[d] = held[d]
  BY MatchedGetPacket
<1>5. PICK g \in Nat : Firing' = g /\ Firing = g + 1
  <2> SUFFICES Firing = Firing' + 1 /\ Firing' \in Nat
    OBVIOUS
  <2>1. CASE c = "main"
    BY <1>1, <1>2, <1>3, <2>1 DEF Firing, At
  <2>2. CASE c = "signal"
    BY <1>1, <1>2, <1>3, <2>2 DEF Firing, At
  <2> QED BY <1>2, <2>1, <2>2
<1>6. /\ held'[c] = queue[1] /\ 1 \in 1..Len(queue) /\ Len(queue) > 0 /\ queue[1] \in Packet
      /\ Head(queue) = queue[1] /\ Len(queue') = Len(queue) - 1
  BY <1>2, <1>4
<1>7. first \in Nat /\ first <= MaxInterval
  <2>1. queue[1].bytes \in Sizes /\ queue[1].bytes \in Nat
    BY <1>6, PacketFields DEF Packet
  <2>2. queue[1].bytes <= inQBufSize
    <3>1. Total(BytesOf(queue)) = queue[1].bytes + Total(BytesOf(Tail(queue)))
          /\ Total(BytesOf(Tail(queue))) \in Nat /\ Total(BytesOf(queue)) \in Nat
      <4>1. Tail(queue) \in Seq(Packet)
        BY <1>2, <1>4
      <4> QED BY <1>2, <1>4, <1>6, <4>1, BytesTotal
    <3>2. Total(BytesOf(queue)) <= BytesInside /\ BytesInside \in Nat
      <4>1. InHandler("main") \in Nat /\ InHandler("signal") \in Nat
        BY <1>2, BytesInsideNat DEF Matched
      <4> QED BY <3>1, <4>1 DEF BytesInside
    <3>3. BytesInside <= qUsed /\ qUsed \in Nat /\ qUsed <= inQBufSize /\ inQBufSize \in Nat
      BY Constants DEF BytesCounted, Base, Types
    <3>4. Total(BytesOf(queue)) <= qUsed
      BY <3>1, <3>2, <3>3
    <3> QED BY <2>1, <3>1, <3>3, <3>4
  <2>3. first \in Nat
    BY <2>1, IntervalNat
  <2> QED BY <2>1, <2>2, <2>3, MaxIntervalIs
<1>8. /\ LinkTime("main", "adding")' = LinkTime("main", "adding")
      /\ LinkTime(c, "sending")' = first /\ LinkTime(c, "sending") = 0
      /\ \A d \in Contexts : d # c => LinkTime(d, "sending")' = LinkTime(d, "sending")
  BY <1>1, <1>2, <1>3, <1>4, <1>6 DEF LinkTime
<1>9. /\ Total(IntervalsOf(queue)) = first + Total(IntervalsOf(queue'))
      /\ \A k \in 0..Len(queue) - 1 :
           PartialSums(IntervalsOf(queue))[k + 1] = first + PartialSums(IntervalsOf(queue'))[k]
  BY <1>2, <1>4, IntervalTotals
<1> HIDE DEF first
<1>10. /\ Gone \in Int /\ prvIntervled \in Nat /\ MaxInterval \in Nat
       /\ \A d \in Contexts : LinkTime(d, "adding") \in Nat /\ LinkTime(d, "sending") \in Nat
       /\ Total(IntervalsOf(sent)) \in Nat
  BY DueTypes DEF TaskPlaces
<1>11. queue' \in Seq(Packet)
  BY <1>2, <1>4
<1>12. Gone' = Gone + first
  <2>1. Gone = (prvIntervled + LinkTime("main", "adding")) - Total(IntervalsOf(queue))
        /\ Gone' = (prvIntervled + LinkTime("main", "adding")) - Total(IntervalsOf(queue'))
    BY <1>1, <1>8 DEF Gone
  <2>2. Total(IntervalsOf(queue')) \in Nat /\ LinkTime("main", "adding") \in Nat
    BY <1>2, <1>10, <1>11, IntervalSums
  <2> QED BY <1>7, <1>9, <1>10, <2>1, <2>2
<1>13. ASSUME NEW k \in 1..Len(queue')
       PROVE  Due(k)' = Due(k + 1)
  <2> DEFINE P == PartialSums(IntervalsOf(queue))
             Q == PartialSums(IntervalsOf(queue'))
  <2>1. k - 1 \in 0..Len(queue) - 1 /\ (k - 1) + 1 = k /\ (k + 1) - 1 = k /\ k - 1 \in 0..Len(queue')
    BY <1>2, <1>6
  <2>2. P[(k - 1) + 1] = first + Q[k - 1]
    BY <1>9, <2>1
  <2>3. Q[k - 1] \in Nat
    BY <1>11, <2>1, IntervalSums
  <2>4. Due(k)' = (Gone + first) + Q[k - 1] /\ Due(k + 1) = Gone + P[(k + 1) - 1]
    BY <1>12 DEF Due
  <2> HIDE DEF P, Q
  <2> QED BY <1>7, <1>10, <2>1, <2>2, <2>3, <2>4
<1>14. Carried'
  <2>1. Total(IntervalsOf(sent)) + LinkTime("main", "sending") + LinkTime("signal", "sending") <= Gone
    BY DEF LinkInTime, Carried
  <2>2. CASE c = "main"
    <3>1. /\ LinkTime("main", "sending") = 0 /\ LinkTime("main", "sending")' = first
          /\ LinkTime("signal", "sending")' = LinkTime("signal", "sending")
          /\ LinkTime("signal", "sending") \in Nat
      BY <1>2, <1>8, <1>10, <2>2
    <3>2. Total(IntervalsOf(sent)) + first + LinkTime("signal", "sending") <= Gone + first
      BY <1>7, <1>10, <2>1, <3>1
    <3> QED BY <1>1, <1>12, <3>1, <3>2 DEF Carried
  <2>3. CASE c = "signal"
    <3>1. /\ LinkTime("signal", "sending") = 0 /\ LinkTime("signal", "sending")' = first
          /\ LinkTime("main", "sending")' = LinkTime("main", "sending")
          /\ LinkTime("main", "sending") \in Nat
      BY <1>2, <1>8, <1>10, <2>3
    <3>2. Total(IntervalsOf(sent)) + LinkTime("main", "sending") + first <= Gone + first
      BY <1>7, <1>10, <2>1, <3>1
    <3> QED BY <1>1, <1>12, <3>1, <3>2 DEF Carried
  <2> QED BY <1>2, <2>2, <2>3
<1>15. GoneInTime'
  <2>1. Due(1) <= now
    <3>1. 1 \in 1..Firing
      BY <1>5
    <3> QED BY <3>1 DEF LinkInTime, FiredWhenDue
  <2>2. Due(1) = Gone
    BY <1>6, DueEnds
  <2>3. Gone + first <= now + MaxInterval
    BY <1>2, <1>7, <1>10, <2>1, <2>2
  <2> QED BY <1>1, <1>12, <2>3 DEF GoneInTime
<1>16. FiredWhenDue'
  <2> SUFFICES ASSUME NEW i \in 1..g
               PROVE  Due(i)' <= now
    BY <1>1, <1>5 DEF FiredWhenDue
  <2>1. i \in 1..Len(queue') /\ i + 1 \in 1..Firing
    BY <1>2, <1>5, <1>6
  <2>2. Due(i + 1) <= now
    BY <2>1 DEF LinkInTime, FiredWhenDue
  <2> QED BY <1>13, <2>1, <2>2
<1>17. TimersWhenDue'
  <2> SUFFICES ASSUME NEW i \in 1..Len(timerQ)
               PROVE  Due(i + g)' <= timerQ[i].time
    BY <1>1, <1>5 DEF TimersWhenDue
  <2>1. i + g \in 1..Len(queue') /\ (i + g) + 1 = i + Firing
    BY <1>2, <1>5, <1>6
  <2>2. Due(i + Firing) <= timerQ[i].time
    BY DEF LinkInTime, TimersWhenDue
  <2>3. Due(i + g)' = Due((i + g) + 1)
    BY <1>13, <2>1
  <2> QED BY <2>1, <2>2, <2>3
<1> QED BY <1>14, <1>15, <1>16, <1>17 DEF LinkInTime

(* A handler that returns has sent its packet, or lost it.                 *)
LEMMA LinkInTimeReturn ==
  ASSUME Base, Matched, LinkInTime, ~Reorder, NEW c \in Contexts,
         LosePacket(c) \/ SendPacket(c) \/ SendFails(c)
  PROVE  LinkInTime'
<1> DEFINE mine == LinkTime(c, "sending")
<1>1. /\ SendHandlerReturns(c) /\ queue' = queue
      /\ sent' = sent \/ sent' = Append(sent, held[c])
  BY ReturnKeepsQueue
<1>2. /\ timerQ' = timerQ /\ now' = now /\ prvIntervled' = prvIntervled
      /\ task[c] = "sending" /\ GoTo(c, Caller(c)) /\ Caller(c) \in {"flush", "timers"}
      /\ \A d \in Contexts : d # c => held'[d] = held[d]
  BY <1>1 DEF SendHandlerReturns, Caller, Base, Types
<1>3. task'[c] = Caller(c) /\ \A d \in Contexts : d # c => task'[d] = task[d]
  BY <1>2, Went
<1>4. Firing' = Firing
  BY <1>2, <1>3 DEF Firing, At, Contexts
<1>5. /\ LinkTime("main", "adding")' = LinkTime("main", "adding")
      /\ mine = Interval(held[c].bytes) /\ LinkTime(c, "sending")' = 0
      /\ \A d \in Contexts : d # c => LinkTime(d, "sending")' = LinkTime(d, "sending")
  BY <1>2, <1>3 DEF LinkTime, Contexts
<1>6. Gone' = Gone
  BY <1>1, <1>2, <1>5 DEF Gone
<1>7. \A k \in Nat : Due(k)' = Due(k)
  BY <1>1, <1>6 DEF Due
<1>8. /\ Gone \in Int /\ Total(IntervalsOf(sent)) \in Nat /\ mine \in Nat
      /\ \A d \in Contexts : LinkTime(d, "sending") \in Nat
  BY DueTypes DEF TaskPlaces
<1>9. Total(IntervalsOf(sent')) \in Nat /\ Total(IntervalsOf(sent')) <= Total(IntervalsOf(sent)) + mine
  <2>1. CASE sent' = sent
    BY <1>8, <2>1
  <2>2. CASE sent' = Append(sent, held[c])
    <3>1. sent \in Seq(Packet) /\ held[c] \in Packet
      BY <1>2 DEF Matched, HoldsPackets
    <3>2. Total(IntervalsOf(sent')) = Total(IntervalsOf(sent)) + mine
      BY <1>5, <2>2, <3>1, IntervalTotals
    <3> QED BY <1>8, <3>2
  <2> QED BY <1>1, <2>1, <2>2
<1>10. Carried'
  <2> DEFINE s == Total(IntervalsOf(sent))
             t == Total(IntervalsOf(sent'))
  <2>1. s + LinkTime("main", "sending") + LinkTime("signal", "sending") <= Gone
    BY DEF LinkInTime, Carried
  <2>2. CASE c = "main"
    <3>1. /\ LinkTime("main", "sending") = mine /\ LinkTime("main", "sending")' = 0
          /\ LinkTime("signal", "sending")' = LinkTime("signal", "sending")
          /\ LinkTime("signal", "sending") \in Nat
      BY <1>5, <1>8, <2>2 DEF Contexts
    <3> HIDE DEF s, t, mine
    <3>2. t + 0 + LinkTime("signal", "sending") <= Gone
      BY <1>8, <1>9, <2>1, <3>1 DEF s, t
    <3> QED BY <1>6, <3>1, <3>2 DEF Carried, t
  <2>3. CASE c = "signal"
    <3>1. /\ LinkTime("signal", "sending") = mine /\ LinkTime("signal", "sending")' = 0
          /\ LinkTime("main", "sending")' = LinkTime("main", "sending")
          /\ LinkTime("main", "sending") \in Nat
      BY <1>5, <1>8, <2>3 DEF Contexts
    <3> HIDE DEF s, t, mine
    <3>2. t + LinkTime("main", "sending") + 0 <= Gone
      BY <1>8, <1>9, <2>1, <3>1 DEF s, t
    <3> QED BY <1>6, <3>1, <3>2 DEF Carried, t
  <2> QED BY <2>2, <2>3 DEF Contexts
<1>11. GoneInTime'
  BY <1>2, <1>6 DEF LinkInTime, GoneInTime
<1>12. FiredWhenDue' /\ TimersWhenDue'
  <2>1. Firing \in Nat
    BY QueueTypes
  <2> QED BY <1>2, <1>4, <1>7, <2>1 DEF LinkInTime, FiredWhenDue, TimersWhenDue
<1> QED BY <1>10, <1>11, <1>12 DEF LinkInTime

(* Every step keeps the link's account of the packets in time.             *)
LEMMA LinkInTimeNext ==
  ASSUME ~Reorder, calcMode = 0
  PROVE  Sound /\ Departures /\ LinkInTime /\ [Next]_vars => LinkInTime'
<1> SUFFICES ASSUME Sound, Departures, LinkInTime, [Next]_vars
             PROVE  LinkInTime'
  OBVIOUS
<1>1. Base /\ Places /\ Matched /\ BytesCounted
  BY DEF Sound
<1>2. CASE UNCHANGED vars
  <2>1. now \in Nat
    BY <1>1 DEF Base, Types
  <2> QED BY <1>1, <1>2, <2>1, LinkInTimeStill DEF vars, SamePlaces
<1>3. CASE Idle
  <2>1. Base'
    BY <1>1, BaseNext
  <2>2. now' \in Nat
    BY <2>1 DEF Base, Types
  <2> QED BY <1>1, <1>3, <2>2, IdleKeeps, LinkInTimeStill
<1> QED BY <1>1, <1>2, <1>3, Actions, LinkInTimeAccept, LinkInTimeSetTimer, LinkInTimeFireTimer,
           LinkInTimeGetPacket, LinkInTimeReturn

(* What calcDepTime gives away after an idle time is never more than what  *)
(* the idle time left unused: since its start the emulator has sent no     *)
(* more than the link can carry, but for one packet.                       *)
THEOREM LongRunSpeedCorrect ==
  ASSUME RoomByBytes, ~Reorder, calcMode = 0
  PROVE  Spec => []LongRunSpeed
<1>1. Init => LinkInTime
  BY LinkInTimeInit
<1>2. Sound /\ Departures /\ LinkInTime /\ [Next]_vars => LinkInTime'
  BY LinkInTimeNext
<1>3. Sound /\ LinkInTime => LongRunSpeed
  <2> SUFFICES ASSUME Sound, LinkInTime PROVE LongRunSpeed
    OBVIOUS
  <2>1. Base /\ Matched
    BY DEF Sound
  <2>2. /\ Gone \in Int /\ Total(IntervalsOf(sent)) \in Nat /\ MaxInterval \in Nat /\ now \in Nat
        /\ LinkTime("main", "sending") \in Nat /\ LinkTime("signal", "sending") \in Nat
    BY <2>1, DueTypes DEF TaskPlaces, Contexts
  <2>3. Total(IntervalsOf(sent)) + LinkTime("main", "sending") + LinkTime("signal", "sending") <= Gone
    BY DEF LinkInTime, Carried
  <2>4. Gone <= now + MaxInterval
    BY DEF LinkInTime, GoneInTime
  <2>5. Total(IntervalsOf(sent)) <= Gone
    BY <2>2, <2>3
  <2>6. Total(IntervalsOf(sent)) <= now + MaxInterval
    BY <2>2, <2>4, <2>5
  <2> QED BY <2>6 DEF LongRunSpeed
<1> QED BY <1>1, <1>2, <1>3, Soundness, DeparturesAlways, PTL DEF Spec
=============================================================================
