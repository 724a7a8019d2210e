# A verification development for the TCP-like protocol

The repository holds a file sender and a file receiver (Java, stop-and-wait over
UDP) and the network emulator they were tested through (newudpl, C). This
directory models them in TLA+, model-checks the models with TLC on small
instances and proves with TLAPS, for every value of the constants, that the
transfer keeps the file in order, that the emulator is a delay line, and that its
parts (queue, timers, notifier, options, errors, clock) keep their promises.

## 1. Inventory

```
 sender.java ──segments──▶ newudpl ──segments──▶ receiver.java
      ▲                                                │
      └────────────────── replies ◀────────────────────┘
```

The set-up is the one of the repository's README: the sender addresses the
emulator's port, the emulator forwards to the receiver, and the receiver answers
the sender's acknowledgement port directly.

| component | state | operations | interacts through |
|---|---|---|---|
| **sender** (`sender_test/sender.java`) | `seqNum`, `ackNum`, `len`, `tries`, `isBroken`, the place in the program | send the window size and wait, send a segment and wait, retransmit after a wrong answer, retransmit after a timeout, close | one UDP socket with a 300 ms receive timeout |
| **receiver** (`receiver_test/receiver.java`) | `WINDOW_SIZE`, `ackFlag`, `outData`, the file | take the window size, drop, write and answer, repeat an answer, close, end by an exception | one UDP socket without timeout; the file |
| **header and checksum** (class `Tool`, `getSeqNum`, `isValidAck`, ...) | none | build and read the 24-byte header, 16-bit ones' complement sum | called by both |
| **emulator handlers** (`newudpl-1.5/newudpl.c`) | `qUsed`, `rUdpC`, `sUdpC`, `prvIntervled_tv`, statistics | `readHandler`, `sendHandler`, `calcDepTime`, `flushQueue`, stop by command or signal | queue, timers, notifier, two sockets |
| **packet queue** (`queue.c`) | doubly linked list and its count, at most 2048 | `addQueue`, `getQueue`, `countQueue`, `closeQueue` | called by the handlers |
| **timers** (`multimer.c`) | list of pending timers in time order, list of free elements | `timer_set`, `timer_get`, `timer_pending` | calls `sendHandler` |
| **notifier** (`notify.c`) | table of input handlers, `stop`, signal table | `notify_start` (select loop), `notify_set_*`, `notify_stop` | calls the handlers |
| **random errors, time arithmetic** (`akiramath.c`, `akiralib.c`) | the Gilbert model's `stage` | `gilbRand`, `bnldev`, timeval helpers | called by the handlers |
| **options, titles, name lookup** (`main`, `parseCmdLine`, `getopt.c`, `host2ip.c`) | `Options`, getopt's scan of `argv`, what is open and installed | parse, open, install, run the loop, print, close | once before and after the event loop; SIGINT at any point |
| **Win32 shims** (`gettimeofday.c`, `winsocklib.c`, `uname.c`) | the clock's starting point | `gettimeofday` | called by handlers and timers |
| `newudpl-1.4` | as 1.5 | previous release of the emulator; differs in `host2ip`, `addTimeval`, `calcDepTime`, `main` | - |

What is hard here, and what makes each part correct:

* **sender and receiver.** Nothing is shared but datagrams, and those may be
  lost, damaged, duplicated, late. A timeout may be premature, so an answer may
  belong to an earlier sending. *Correct* means: the receiver's file is a prefix
  of the sender's at every moment; an acknowledgement is never believed before
  the data is stored; the two counts of segments stay within one of each other;
  a reported success is a delivered file; the sender gives up neither too early
  nor never.
* **handlers, queue and timers.** A timer does not know "its" packet: it sends
  the front of the queue. So there must be exactly one pending timer per queued
  packet, departure times must grow with the order of arrival, and `qUsed` must
  be the bytes in the queue. A full queue, a datagram without payload, and an
  asynchronous SIGINT between two of these updates put that at risk.
* **queue.** The list, its two ends and its count must stay a sequence, although
  `addQueue` goes by one end and `getQueue` by the count.
* **timers and notifier.** The pending list must stay sorted, each client once,
  no element both pending and free; handlers change descriptors and timers while
  the loop is in the middle of a round that it prepared before.
* **arithmetic.** Departure times are made of timevals and 32-bit products, the
  choice of the damaged bit of an `int` product, the Windows clock of three
  readings of two clocks.
* **start and end.** `getopt` permutes the command line while it reads it; what
  passes the options' tests must be what the arithmetic relies on; SIGINT may come
  before, in and after the loop.

`PROJECT.json` lists the hazards at their lines ("hazards") with the property
that covers each, or with the reason why none does.

## 2. Modules

| module | models | 
|---|---|
| `Wire` | the parameters of a transfer and the packets, reduced to the fields the programs branch on |
| `Network` | the two UDP paths as bags of datagrams, with the faults each may commit |
| `Sender` | `sender.java` |
| `Receiver` | `receiver.java` |
| `Transfer` | the composition, the properties, the inductive invariant |
| `StopAndWait` | the abstract specification: offer a piece, store it |
| `MCTransfer` | instances of `Transfer` for TLC |
| `TransferProofs` | theorems about `Transfer` |
| `MultiTimer` | the queue of pending timers of `multimer.c`, as operators |
| `Emulator` | `newudpl.c`'s handlers over the packet queue, the timers and the select loop, with their properties |
| `DelayLine` | the abstract specification of the emulator |
| `MCEmulator` | instances of `Emulator` for TLC |
| `UdpQueue` | `queue.c` as the linked list it is |
| `Fifo` | its abstract specification: a bounded queue |
| `EventLoop` | `multimer.c` with its two lists and `notify.c` with its handlers, under a program that calls them in any order |
| `TimerService` | the abstract specification of `multimer.c`: one timer per client |
| `Getopt` | `getopt.c` for short options, and a reading of the command line to compare it with |
| `Options` | `parseCmdLine` and its helpers, `str2l`, `host2ip` of 1.4 and 1.5 |
| `Startup` | `main` of 1.4 and 1.5 from its first line to its last, with SIGINT |
| `DepartureTime` | `calcDepTime` and the timeval helpers of 1.4 and 1.5, in 32-bit words |
| `Link` | its abstract specification in whole microseconds |
| `Errors` | `isPacketLoss`, `gilbRand`, `isBitError` |
| `Win32Clock` | `gettimeofday.c` |
| `Checksum` | the checksum of both Java programs, and damaged bytes |
| `Parts`, `MCParts` | the models of the parts above side by side, and their instances for TLC |
| `PartsProofs` | theorems about `Parts`: departure times, the end of `main`, the clock, the checksum |
| `Sums` | sums along a sequence, as recursive functions, for properties and proofs |
| `NumberTheorems` | lemmas about products, divisions, least numbers, induction and sums |
| `EmulatorProofs` | theorems about `Emulator` |
| `QueueProofs` | theorems about `UdpQueue` |
| `LoopProofs` | theorems about `EventLoop` |
| `StartupProofs` | theorems about `Startup`, `Options` and `Getopt` |
| `ErrorsProofs` | theorems about `Errors` |

### Sender and receiver

**A step.** Both programs are single threads that block only in
`socket.receive`. A step therefore runs from the return of one receive (with a
packet, or with a timeout) to the next receive, and contains everything the code
does in between, including the end of one segment and the sending of the next.
`spc` and `rpc` name the receive a program is blocked in:

| `spc` | line of `sender.java` | | `rpc` | line of `receiver.java` |
|---|---|---|---|---|
| `handshake` | 117 | | `window` | 91 |
| `await` | 173 | | `data` | 101 |
| `wrongAck` | 200 | | `lastAck` | 191 |
| `noReply` | 239 | | `done` | the end, regular |
| `finAck`, `finWait` | 305, 315 | | `crashed` | the end, through the catch at 151 |
| `success`, `failed` | after 270, 263 | | | |

| action | code |
|---|---|
| `HandshakeReceive`, `HandshakeTimeout` | the loop at 115-125; the first segment goes out with the accepted reply |
| `AwaitReceive`, `AwaitTimeout` | the receive at 173, the test at 183, the catch at 221 |
| `WrongAckReceive`, `WrongAckTimeout` (`RetryWrongAck`) | the loop at 186-219 and the `while` at 183 around it |
| `NoReplyReceive`, `NoReplyTimeout` (`RetryNoReply`) | the loop at 224-253 |
| `EndOfSegment`, `SendSegment`, `LeaveFileLoop` | the `finally` at 255, the next read and send (134-168), the code after the loop (262-305) |
| `CloseReceiveAck`, `CloseReceiveFin`, `CloseTimeout` | `closeProcess`, 290-345 |
| `ReceiveWindow` | 89-98 |
| `ReceiveAndThrow`, `ReceiveAndContinue`, `ReceiveData`, `ReceiveFin` | the passes through the loop at 100-147 (`ReceiveFin` with the sends of `closeProcess`) |
| `ReceiveLast` | 191-204 |

**What is abstracted.** A packet is a record. Ports, the data offset, the urgent
pointer and the payload's bytes are dropped: a chunk of the file is the pair of
its position in the sender's file and its length, which is all that "the same
file" needs. The checksum is the flag `sum` (would the receiver's comparison
succeed), so damage that the checksum cannot see is outside the model. `num` is
false when a number in the header has its top bit set, where `Integer.parseInt`
throws; the emulator's `isBitError` reaches that bit in builds with a 15-bit
`RAND_MAX` (with a 31-bit one its product overflows and only byte 0 changes).
`isValidAck`'s reading of the flags byte, decimal digits taken as hexadecimal,
is kept (`AckBit`), because the test depends on it. I/O errors other than a
timeout, `InetAddress` lookups and the log are left out. The count of the
window-size exchange starts at the first `receive`: the sender's first packet is
already in flight in `Init`.

**Faults.** `FwdFaults` and `RevFaults` say what may happen on each path; one
budget `MaxFaults` bounds the faults of a behaviour. Delay and reordering need
no fault: a receive takes any datagram in flight. Duplication is UDP's, not the
emulator's. `MaxInFlight` bounds the datagrams in flight when a timer fires.
Every fault, and both bounds, are guards of the specification, and the proofs
hold for every value of them.

**Assumptions on the constants.** `WINDOW_SIZE > 24` (with 24 the sender's
buffer is empty, `read` returns 0 for ever), a file whose numbers fit a Java
`int`, `MAXTRIES >= 2`. `WindowSumsToZero` says whether the window-size packet,
which carries checksum 0, happens to have that checksum. It depends on the
window size and the ports alone.

### Emulator

newudpl has one thread, which calls handlers from the loop of `notify_start`, and
a SIGINT handler that runs on top of it, wherever it is. `task` has the place of
each of these two contexts; `main` takes no step while `signal` is not `off`.

| `task` | place | leaves by |
|---|---|---|
| `timers` | `timer_get` called from `notify_start` (`notify.c:185`) | `FireTimer`, `EnterSelect` |
| `select` | `select` (`notify.c:184`) | `ReceiveFails`, `Reject`, `TooLarge`, `DivideByZero`, `Congestion`, `Accept` (`readHandler`), `StopCommand` (`stdinHandler`), `SelectReturns` |
| `adding` | `readHandler` between `addQueue` and `calcDepTime` | `SetTimer` |
| `flush` | `timer_get` called from `flushQueue` | `FireTimer`, `FlushDone` |
| `firing` | a timer taken from the queue, its packet not yet | `GetPacket`, `FollowNoItem` |
| `sending` | `sendHandler` with its packet | `LosePacket`, `SendPacket`, `SendFails` |
| `stopped`, `crashed` | after `notify_start`; after a division by zero or a bad pointer | |

`Interrupt` is possible at each of them, so a handler is split where an interrupt
makes a difference and nowhere else. Interrupts inside one list operation of
`queue.c` or `multimer.c` are not modelled: what they leave depends on the
machine code. `Caller` says where `sendHandler` returns to.

Times are whole microseconds, as in the code; `now` starts at a full second, so a
`prvRcv` of 0 is both "unset" and "no microseconds", as line 785 has it. The
clock may advance at any place. `Tick` is bounded by `MaxTime`, arrivals by
`MaxPackets` and `LastArrival`, SIGINTs by `MaxSignals`.

`Senders` are the hosts datagrams come from; `checkHost` compares one with
`srceHost`. `stat` has the counters of packets of `g_stat`.

Abstracted: a packet's bytes (bit errors are in `Errors` and `Network`), the
counters of bytes and speeds, a `malloc` that fails in `assembleItem`, wake-ups of
`select` after which nothing happens. `stop` also keeps whether the reason was
an error.

Datagrams may have any size. Two kinds put the matching of timers and packets out
of order. One without payload leaves `rUdpC` as it is, so its timer replaces the
pending one of the same client. Very small ones use up the queue's 2048 places before
`-q` bytes are (below 4 bytes by default); `addQueue` then refuses the packet and
`readHandler` sets its timer all the same. `sendHandler` can then find the queue
empty and go on with an item that `getQueue` never set (`Items`): what it points to is
any member of `Garbage`, or `FollowNoItem` crashes. Two garbage sizes that `decQUsed`
refuses are the same to the program, hence the bound of `Garbage`. `RoomByBytes` says
that the buffer is full before the queue is, which excludes both kinds; it is no
assumption of the module, but of those theorems that need it (section 5), and it is
true of the transfer's datagrams, which have at least 24 bytes.

`TransDelay` computes modulo `Word`, as `calcDepTime` does in `uint32_t`.
`SpeedAssumption` says of it no more than that it does not divide by 0, which holds of every
speed below one of the three Ethernets (`ether * speed` is no multiple of 2^32).

`DelayLine` is what a user may rely on: accepted packets are inside, each leaves
at most once and not before its delay, none vanishes but those counted as lost
and those a failing `sendto` took. The refinement maps what is inside to the
queue and the packets in a `sendHandler`.

### The emulator's parts

`Emulator` takes the queue for a sequence, the timers for a sorted one, times for
whole numbers and the options for constants. The modules of `Parts` have what the
code makes of them. They share no variable, so `Parts` lets a behaviour choose one
and leaves the others still: their state spaces add up, and do not multiply.

**`UdpQueue`.** `heap` maps addresses to nodes or `Free`; `root`, `last` and
`count` are the code's. `AddQueue` takes any free address; `AddCrashes` is the call
whose `malloc` fails, which `addQueue` does not test (`queue.c:58`). `CloseQueue`, `DumpItem`
and `QueueClosed` are `closeQueue`. `Line` maps the list to `Fifo` by walking it
from `last` along `prev`.

**`EventLoop`.** `timers` has the timer queue elements by address, the queue and
the free list, both as sequences of addresses, so that which element is reused is
as in the code. `pc` is the loop's place; in `setup`, `timerHandler` and
`inputHandler` the program may call anything: set a timer (with
`notify_set_itimer_func` or, as the emulator does, with `timer_set`), cancel one,
install or remove a handler, stop. Handlers of both kinds, the copies `readfds`
and `nfds` made before, and an unspecified order of evaluation (`notify.c:188`) are
actions of their own. A program sets its timers one way (`api`): mixing them gives
a timer the interval of the element's last owner. `Pending` maps the lists to the
timers of `TimerService`. `notify_set_socket` and handlers
of several signals, which nothing calls, are left out.

**`Startup`, `Options`, `Getopt`.** `phase` is the next step of `main`; `open`
and `handlers` are what it has acquired. A text is a sequence of pieces whose
meaning `NumberOf`, `FractionOf` and `AddressOf` give, so that "a number with junk
behind it" or "two numbers with a colon" are texts. The loop is abstracted to
whether timers are pending. `version` chooses between 1.4 and 1.5. YP lookup and
long options are left out: 1.5 is built without YP, and passes no long options.
`Getopt` is the repository's `getopt.c`. A build with glibc does not compile it
(`getopt.c:56`) and calls the C library's `getopt`; other builds, Windows among them,
use it.
`Parse` is no code: it is what POSIX and `getopt.c:249` promise of a command line,
read once, element by element, with nothing moved.

**`DepartureTime`.** One packet after another through `calcDepTime`, products
modulo `Word`. `Abstract` maps timevals to microseconds; `Link` says what it may
rely on where the products fit (`Fits`), and only a range where they do not.

**`Errors`.** `rand` is any value up to the build's `RAND_MAX`. Each packet is lost
or kept, then its bits are flipped one by one. `bnldev` may return anything from 0
to the number of bits: its distribution is floating-point numerics. Shifts by 32
bits or more are undefined in C and flip any bit or none. `Under` takes the quotient
of a probability with its sign, since `-U` above 1 makes the derived one negative.

**`Win32Clock`.** A call is three steps, and time passes between them: `ftime`
(`stv`, coarse), the first reading of the counter (`sct`), the second.

**`Checksum`.** Segments go through `generateChecksum` and `tcpHeader` as in the
sender's file loop, over the header that still carries the checksum before; then
bytes are changed. This is what the flag `sum` of `Wire` stands for.

## 3. Properties and runs

The runs of sender and receiver use `MCTransfer`. `WINDOW_SIZE = 26` gives segments of two bytes, so a
file of 7 bytes has three full segments and a short last one.

### Runs that pass

**TransferSafety** (`Spec`; all faults on both paths, two per behaviour, up to
three datagrams in flight when a timer fires, `MAXTRIES = 4`; 141 002 states).

| property | what it says | bites at |
|---|---|---|
| `TypeOK` | types; the position never passes the end of the file, `tries` never passes `MAXTRIES` | `NextLen` |
| `WrittenIsPrefix` | the chunks in the receiver's file are contiguous from 0, none twice, none left out | `receiver.java:136` |
| `AckMeansStored` | an acknowledgement in flight that `isValidAck` would accept means everything sent is stored | `receiver.java:132` |
| `OneOutstanding` | the two counts of segments differ by at most the one being sent | `sender.java:388` |
| `ReceiverEndsAfterFin` | the receiver ends regularly only after the sender decided to, and then at most the last segment is missing | `receiver.java:119` |
| `IInv` | the inductive invariant of section 5 | `sender.java:191` |
| `StopAndWaitSpec` | refinement of `StopAndWait` with `offered <- seqNum`, `stored <- Extent` | `receiver.java:136` |

Two faults are enough for every pair (a lost answer and a duplicate of the
repeated segment, a damaged segment and a stale answer, ...), three datagrams in
flight for a stale answer, the current one and the segment itself; premature
timeouts add sendings beyond the fault budget. The same properties were also
checked at file sizes 0, 1 and 6, one-byte segments, `MAXTRIES = 2` and three
faults while the model was built.

**TransferLiveness** (`FairSpec`; segments lost or damaged, replies not, no
premature timer, full segments). `TransferCompletes`: the sender reports success
with the whole file stored. Each of these restrictions is needed: the runs below
show what happens without it. `MaxFaults = 4` is `MAXTRIES - 1`, the number of
losses in a row the retry loop survives; with 5 the property fails, as it should.

**Emulator** (`FairSpec`, `MCEmulator`; three packets of 1 or 3 bytes, or 8 which
is more than the buffer of 7; a link of 4000 kb/s, so 2 microseconds per byte; a
delay of 4; losses; datagrams of a right and of a wrong host; one SIGINT; 604 262 states).

| property | what it says | bites at |
|---|---|---|
| `TypeOK` | types, and the bytes counted never exceed the buffer | `incQUsed` |
| `TimersMatchQueue` | one timer per queued packet, but for interrupted handlers; in order, one per client; the i-th timer is late enough for the i-th packet | `newudpl.c:951` |
| `QUsedIsBytesQueued` | `qUsed` is the bytes in the queue and in `sendHandler` until a `sendto` fails, never less after | `newudpl.c:801`, 1018 |
| `MinimumDelay` | no packet reaches `sendHandler` before its delay is over | README 73 |
| `LongRunSpeed` | since the start no more was sent than the link carries, but for one packet | `newudpl.c:670` |
| `AtMostOneLeft` | a program that ended by command or SIGINT left nothing queued, but for a packet whose `readHandler` was interrupted | `newudpl.c:1048` |
| `StatisticsAddUp` | every datagram that arrived is counted once, as rejected, congested, received, or not at all when the program died of it; and what was received is queued, on its way, sent or lost | `newudpl.c:831` |
| `DelayLineSpec` | refinement of `DelayLine` | |
| `PacketsLeave` | every queued packet leaves the queue or the program ends | `newudpl.c:834` |

A timer does not know its packet: a small packet that comes after a large one can
be given the earlier departure, its timer then stands before the other's and
sends the large packet. A size of 3 after an idle time, and 1 one microsecond
later, does so here (transmission delays 3 and 1). That no packet leaves early in
spite of it is what `TimersMatchQueue` explains: both sequences are sorted, so if
each timer is late enough for its own packet, the i-th is for the i-th. Three
packets are enough for a packet overtaken, one interrupted and one left in the
queue, and for congestion (3 + 3 + 3 > 7). `MaxTime` is after the last possible
departure. With two SIGINTs the invariants hold as well.

**SmallDatagrams** (`FairSpec`, `MCEmulator`; datagrams of no byte or one, a buffer of
2 bytes and a queue of 2 packets, so that the queue can be full when the buffer is not;
losses, `-O`, `-m`, one SIGINT; 215 137 states). What is left of the promises above
when a timer may replace another, a packet may be refused after its bytes were
counted, and `sendHandler` may find no packet.

| property | what it says | bites at |
|---|---|---|
| `TypeOK` | `qUsed` stays between 0 and the buffer's size, also when an item of any size is given back | `newudpl.c:847` |
| `TimersInOrder` | the pending timers are sorted and each client has one, also when an empty datagram's replaces another | `multimer.c:125` |
| `SentWereReceived` | each datagram received calls `sendHandler` at most once: pending timers, handlers at work, packets counted as sent and as lost are no more than were received | `newudpl.c:834` |
| `FlushEnds` | a flush by command or SIGINT ends, and the program with it | `newudpl.c:1048` |

Three datagrams are enough for a full queue with a third refused, for two that share a
timer with the one before, and for a timer that finds nothing.

**Parts** (`Spec`, `MCParts`; 470 907 states).

| property | what it says | bites at |
|---|---|---|
| `ListIsSequence` | links in both directions, both ends, the count and the allocated nodes describe one sequence; a closed queue leaks nothing | `queue.c:96` |
| `FifoSpec` | refinement of `Fifo` | `queue.c:65` |
| `TQEsInOneList` | every element is in one place of one of the two lists | `multimer.c:213` |
| `TimerServiceSpec` | refinement of `TimerService`: one timer per client, in time and in order, the next period counted from when it was due | `multimer.c:166` |
| `DescriptorsHaveHandlers` | the event list, the descriptor set and `max_fd` agree | `notify.c:106` |
| `StopsOnlyWhenIdle` | the loop stops by itself only with no timer pending and no descriptor asked about but 0 | `notify.c:155` |
| `GetoptFindsOptions` | all calls together find the options and operands of a single reading, while `argv` is permuted | `getopt.c:345` |
| `OptionsWithinLimits` | a program that opens its ports has every option within its limits | `newudpl.c:256` |
| `ClosedQueueIsNotFlushed` | SIGINT after `closeQueue` finds no timer, unless an error ended the loop or an earlier SIGINT hit `readHandler` | `newudpl.c:1066` |
| `InterruptStopsLoop` | a SIGINT in the loop ends the program | `newudpl.c:1056` |
| `AssertionsHold` | 1.5 never gives `timer_check` a time its assertion refuses; 1.4 does | `akiralib.c:227` (1.4) |
| `LinkSpec` | refinement of `Link`: the 32-bit arithmetic is right to within its divisions, but for products that overflow and for delays above a second | `newudpl.c:687`, 693 |
| `GilbertModel` | the stage is the last loss, and the derived probability gives the asked-for rate, unless it exceeds 1 | `newudpl.c:438` |
| `BitErrorsHitPacket` | no more bits differ than were to be corrupted, and none outside the packet, where the product with `rand()` fits and the packet has more than eight bytes, or `RAND_MAX` is the greatest `int` and it has more than one | `newudpl.c:899` |
| `ReadingIsTrue` | the clock is proper and off by less than a granule | `gettimeofday.c:35` |
| `DamagedWordIsSeen` | damage within one word of a segment is seen, but for one's complement's two zeros; an undamaged segment passes | `receiver.java:132` |

Bounds: a list of three with four addresses and five calls fills, empties and
reuses; two clients, two descriptors (0 and 3) and three calls in any places are
enough for an element freed, taken by the other client and set again, and for a
handler removed while its descriptor is in `readfds`. 286 command lines: every
option with every kind of argument, and ten that mix options, operands and `--`.
Two SIGINTs. Three packets of 1 to 16384 bytes on links of 1 to 10000 kb/s; `Word`
is 2^30, because TLC's own integers have 32 bits: the products overflow a little
earlier, and in the same way. `Ints` is 2048 with `RAND_MAX` 3, 31 and 1023, so that
`rand() * wBytes * 8` never overflows, overflows for packets of 12 bytes, and
overflows for all, as an `int` of 32 bits does with 32767 and 2^31 - 1 for small and
large packets. Seven ticks per second of the counter do not divide a second,
and 21 ticks go over it three times. Bytes of two bits keep the checksum's words
at 16 values; two damaged bytes cover every damage of one word.

### Runs that find a violation

Each run checks one statement of the repository's READMEs or comments against
what the code does; `PROJECT.json` "findings" quotes the line.

| run | statement | what happens |
|---|---|---|
| **TruncatedFile** | `SuccessMeansDelivered`: README 13, the received file is exactly the same | at the end of the file any answer counts (`sender.java:183`): a late answer to the segment before ends the transfer while the last segment is lost |
| **EarlyFin** | `SuccessMeansAllSent`: README 8, on success the sequence number is the file's size | a valid answer at `tries = MAXTRIES - 1` in the wrong-answer loop leaves the file loop with `isBroken` false (`sender.java:213-219`, 256) |
| **LostReply** | `HandshakeCompletes`: the comment at `receiver.java:107` and the loop at `sender.java:115` | the repeated window-size packet is recognised by the buffer's length and never is; one lost reply and the sender never starts |
| **ShortSegment** | `GivesUpOnlyAfterMaxTries`: README 12 | the acknowledgement of a short last segment is computed from the buffer's length (`receiver.java:236`); after one loss every answer is rejected and the sender gives up |
| **NeverStops** | `SenderStops`: README 12, beyond the maximum the sender stops | a timeout counts two tries (`sender.java:212-214`), the count steps over `MAXTRIES` and starts again; here the receiver ended by a bit error in a number it parses before the checksum |
| **SkippedSegment** | `WrittenIsPrefix`: README 13 | with `WindowSumsToZero`, a duplicated window-size packet is taken for segment 1 and the real one for its duplicate |
| **LinkSpeed** | `LinkSpeed`: `newudpl-1.5/README` 56, the speed will not exceed `-s` | the end of the previous interval never catches up with the clock (`newudpl.c:670`); packets that come together after an idle time depart together |

### Fairness

`FairSpec` adds weak fairness of the sender's receive, of its timeout and of the
receiver's step. A datagram that is not lost is eventually delivered, the
operating system returns from a `receive` whose datagram is there, and
`setSoTimeout` returns from one whose time is over. The receiver sets no timeout
and needs none here. Faults are never forced: no fairness on `NetStep`.

For `Parts`, `Spec` adds weak fairness of `main`'s own steps outside the command
line's parsing: a running process goes on. Signals, packets, errors and commands
are never forced.

For the emulator, `FairSpec` adds weak fairness of the clock and of each context's
steps: a process that can run is scheduled. Arrivals, commands and signals are
never forced. An expired timer at the head ends every `select`, because its
timeout is the head's time.

### Seen while modelling

What the code does and the models have, but no property of a run is about. Where a
sentence of the repository says otherwise, it is quoted.

* With `-O`, `isOutOfOrder` moves the front packet behind the others, and the next one is
  sent by a timer that was set for an earlier packet (`newudpl.c:929`); "All the packets will
  have minimum delay" says `newudpl-1.5/README` 73.
* A packet that `addQueue` refuses gets its timer all the same (`newudpl.c:823`), which
  sends the next packet too early, against the same sentence. With the default buffer it takes
  2048 datagrams of three bytes or less in the queue.
* An empty datagram's timer replaces the one of the packet before (`newudpl.c:834`), and
  `flushQueue`, which "flushes the packtes in the qeueu" (`newudpl.c:1033`), ends with a
  packet left.
* `byteNum = seqBitNum / wBytes` (`newudpl.c:900`), not 8: bit errors reach the first nine
  bytes of a packet only, while `-B` is a rate "per bit" (`newudpl-1.5/README` 161,
  `newudpl.c:533`). They also reach bytes outside it: behind a packet of fewer
  than nine bytes, and before the buffer where the product with `rand()` overflows.
* `-d 10.9` is accepted ("Available range: 0 - 10(MAX_DELAYSEC)", `newudpl-1.5/README` 77),
  because `getSec` tests the whole seconds only, and so are `-C 7` and `-U 7`, which are
  commented "0.0 - 1.0" (`newudpl.c:125-126`). With just one of the two above 1 the derived
  probability is negative, and the Gilbert model's first stage never loses.
* A transmission delay of a second or more loses its fraction of a second, because line 695
  takes the remainder of the wrong variable: 200 bytes at 1 kb/s get 1 second instead of 1.6.
  With `-e 3` the product of line 687 overflows: 1500 bytes on the default link of
  1000 kb/s get 3398 microseconds instead of 11988. The comments at `newudpl.c:679` and 686
  say "actually it is a differential trans-delay" and "just a trick to not to over flow".
* A SIGINT after its handler is installed and before `notify_start` has reset
  `stop` is forgotten (`notify.c:179`); if `readHandler` was installed already, it is
  removed, and the loop goes on without it (`sigHandler` before `StartLoop`).
* 1.4's `host2ip` (`host2ip.c:24`) takes an unknown name for 255.255.255.255, and
  1.4's `main` goes on as if the loop had been stopped when it failed.
* 1.4's `addTimeval` leaves 1000000 microseconds standing; `timer_check` aborts.
* `-d .5` is a delay of five seconds; a number other than 0 may have junk behind
  it; `-C 0` is an error.
* With both `-L` and `-C` a packet is lost only if both say so.
* Two packets in the same microsecond divide by zero (`newudpl.c:791`), and so does
  `printStatistics` (568) when nothing was sent.
* `notify_set_input_func` for a descriptor that has a handler keeps the old
  client (`notify.c:122`); `notify_set_itimer_func` without an
  interval, its way to cancel, reads through that null pointer (142).

Programs end, and the emulator's clock is bounded, so every configuration has
`CHECK_DEADLOCK FALSE`.

## 4. Mutants

For every property of a passing run `PROJECT.json` names a mutant: an operator
kept beside the definition it would replace (comments start with "Mutant"),
changed the way a plausible bug would. The mutants are not used by the
specification.

## 5. Proofs

`TransferProofs` proves for every window size above 24, every file size, every
`MAXTRIES`, every set and number of faults:

| theorem | states |
|---|---|
| `TypeCorrectness` | `Spec => []TypeOK`, whatever the window-size packet's checksum |
| `Invariance` | `Spec => []IInv` if `~WindowSumsToZero` |
| `FileIsPrefix`, `NeverTwoOutstanding`, `AcknowledgementsAreHonest`, `RegularEnd` | `Spec => []P` for the four safety properties, from `Invariance` |
| `ImplementsStopAndWait` | `Spec => StopAndWaitSpec` |

The assumption `~WindowSumsToZero` is necessary: `SkippedSegment` is the
counterexample without it.

**Why `WrittenIsPrefix` is not inductive.** The receiver writes whatever intact
segment has a number above `ackFlag`. That it writes the right one follows from
facts about packets still in flight and about the sender:

* `SegmentsInFlight`: an intact packet on the way has a number already used, and
  if it has the newest, it is the current segment;
* `OneOutstanding`: the receiver is at most one segment behind, so "above
  `ackFlag`" means "the newest";
* `AcksInFlight`: no acknowledgement, in flight or kept in `outData`, is above
  `HighestAck`, hence one equal to `seqNum` exists only when all is stored. This
  bounds instead of equating, because a short segment's acknowledgement
  overshoots; `seqNum` itself can only be hit when nothing is missing;
* `FileFollowsCount`: how far the file reaches is a function of the two counts;
* `EndsInOrder`: a FIN exists only once the sender is closing, so its answers
  (acknowledgement number 1, which could equal `seqNum`) come too late to matter;
* `TypeInv`: the types, `SenderArithmetic` (all segments but the last are full),
  `TriesLeft` and `WindowAgreed`. It is inductive by itself and is proved first.

The layout: lemmas on bags and packets; `TypeInv` with one lemma per operator
the sender is built from (`SendSegmentTyped`, `ResendTyped`, ...) and one per
process; then the same for the rest of `IInv` (`SameCounts` for the steps that
leave the counts alone, `NextSegment` for the one that sends, `AppendChunk` for
the one that writes); `IInvNext`; the theorems; the refinement, whose two
interesting cases are `SendSegment` (an `Offer`: nothing is outstanding) and
`ReceiveData` with a new segment (a `Store`).

`PartsProofs` proves five properties of the emulator's parts, as theorems of
`Parts`' `Spec`:

| theorem | states | for every |
|---|---|---|
| `ProperDepartures` | `Spec => []AssertionsHold` | link, delay, load and pause, and any overflow of the 32-bit products |
| `ImplementsLink` | `Spec => LinkSpec` | link with an Ethernet of 1 Mb/s or more, delay, load and pause, in 1.4 and 1.5 |
| `FreedQueueIsLeftAlone` | `Spec => []ClosedQueueIsNotFlushed` | command line, and number and places of SIGINTs |
| `ClockReadsTrue` | `Spec => []ReadingIsTrue` | frequency of the counter, granule of `ftime` and time between the steps of a call |
| `DamageIsSeen` | `Spec => []DamagedWordIsSeen` | number of bytes, width of a byte, place of the checksum and values of the bytes |

* `AssertionsHold` needs `ProperTimes`: not the departure alone, but every time
  that `calcDepTime` starts from or keeps for the next packet has less than a
  second of microseconds, since its single carry is right for two such times only.
  The lemmas go through its steps (`IntervalProper`, `TransDelayNat`, ...).
  `LinkOptionsAssumption` says that it does not divide by 0 modulo `Word`.
  It holds of the program: the divisor of line 689 is `ether * speed`, where `-e`
  gives 10^4, 10^5 or 10^6 and `-s` at most 50000, too little for a factor 2^32.
* `LinkSpec` needs of the times only `LooseTimes`: 1.4 leaves a whole second among the
  microseconds, and one carry and the comparison of `maxTimeval` are still right. The
  rest is arithmetic. `DifferenceOfQuotients` bounds the difference of the two lines'
  rounded times by the exact fraction, and `DelayAtOnce` and `DelayInTwoSteps` compare
  the two ways of `calcDepTime` to divide with it (`CloseTo`). That a delay
  of a second or more loses no more than a second with its microseconds
  (`LostIsBounded`) needs one thing more of the second way, which may be 1000 short on
  a link of 1 kb/s: it never falls below a multiple of 1000 that the exact delay
  exceeds. `Fits` is where both products stay below `Word`. The Ethernets of
  `-e 2` and `-e 3` with a fast link leave it, through `ether * speed` from 43 Mb/s
  and 4.3 Mb/s on; there `Link` promises a word and nothing else.
* `ClosedQueueIsNotFlushed` looks at the one state where the queue is freed. That
  no timer is left there is the end of an argument over all of `main`:
  `TimersAccounted` says that no timer exists before the loop, that the queue is
  open in it, and that whoever stopped the loop also left no timer, but for an
  error or for a SIGINT that came in the middle of `readHandler`.
* `ReadingIsTrue` speaks of finished calls only. `ClockInv` adds what a call keeps
  while time passes: `stv` is within a granule below the call's time, and `sct` is
  between the call and now. The sum at the end is then not of the future because
  rounding down twice gives no more than rounding down once (`TrueTimesAdd`).
* `DamagedWordIsSeen` says exactly which damage the receiver's test lets through.
  `ChecksumInv` keeps what the two ends rely on: the segment that was sent carries its
  own checksum, although that was computed over a header with the last one, and
  damage leaves the length alone. Then the test compares two sums that differ in one
  word (`TotalsDiffer`), and `FoldedAgree` is the arithmetic of one's complement:
  folding the carries back is a remainder modulo 2^16 - 1, so the two agree only if
  the word went from all zeros to all ones or back, and not if nothing else was there,
  because only a sum of 0 folds to 0.

### The emulator

`EmulatorProofs` holds for every speed, Ethernet, delay and buffer, any number of
SIGINTs at any place, and any time between two steps; `MaxTime`, `MaxPackets` and
`MaxSignals` are arbitrary.

| theorem | states | assumes |
|---|---|---|
| `TypeCorrectness` | `Spec => []TypeOK` | |
| `TimersInOrderCorrect` | `Spec => []TimersInOrder` | |
| `SentWereReceivedCorrect` | `Spec => []SentWereReceived` | |
| `QUsedCorrect` | `Spec => []QUsedIsBytesQueued` | `RoomByBytes` |
| `StatisticsCorrect` | `Spec => []StatisticsAddUp` | `RoomByBytes` |
| `StopsClean` | `Spec => []AtMostOneLeft` | `RoomByBytes` |
| `TimersCorrect` | `Spec => []TimersMatchQueue` | `RoomByBytes`, `~Reorder` |
| `DelayCorrect` | `Spec => []MinimumDelay` | `RoomByBytes`, `~Reorder` |
| `ImplementsDelayLine` | `Spec => DelayLineSpec` | `RoomByBytes`, `~Reorder` |
| `LongRunSpeedCorrect` | `Spec => []LongRunSpeed` | `RoomByBytes`, `~Reorder`, `calcMode = 0` |

The first three hold of datagrams of any size. `RoomByBytes` is necessary for the
others: it keeps out empty datagrams, which take another packet's timer, and those that
the queue refuses, which leave a timer without a packet (section 2); both break
`TimersMatchQueue` when TLC is given such datagrams, and the second `MinimumDelay` too.
`~Reorder` is a run without `-O`, the default. It is necessary as well: with it the front
packet goes behind the others, and `MinimumDelay` fails. `calcMode = 0` is a run without `-m`,
the default too: with it `calcDepTime` starts each packet from its arrival alone
and forgets what is still queued, so the link's speed bounds nothing.

Without `RoomByBytes`, `Typed` is inductive: the types, where what `sendHandler` holds is
a packet or garbage; the timers sorted, with different clients, which are counts of
`rUdpC` (`TimersOrdered`); and that `readHandler` holds the packet that it queued
(`HoldsQueued`). `qUsed` stays in its range
because `decQUsed` refuses what would leave it. `SentOnce` is inductive given `Typed`:
a timer is set where `rPacket` is counted, and each of the steps that take one out, call
`sendHandler` and count its packet moves one unit on.

The next three follow from `Sound`, the inductive invariant with `RoomByBytes`, whose parts
are each inductive given those before:

* `Base`: `RoomByBytes` and types; the timers are sorted and no two have the same client, because
  every client is a count that was used and `rUdpC` is above all of them;
* `Places`: where the two contexts can be together. That no handler but an
  interrupted one is on the stack is used everywhere below;
* `Flushed`: a `stop` by command or SIGINT has emptied the timers, and only a
  `readHandler` that was interrupted can add one more;
* `Matched`: there are as many timers as queued packets, counting a packet
  between `addQueue` and its timer, and a timer between its expiry and `getQueue`.
  So `sendHandler` never finds the queue empty;
* `BytesCounted`: `qUsed` against the bytes in the queue and in the handlers, with
  the sum of a sequence as `Sums` has it;
* `StatsAddUp`: the same for the counters of packets.

`Departures` adds the times. The i-th timer belongs to the i-th packet only by its
place. What is preserved is that the packets are in the order of arrival
(`QueueInOrder`), that the i-th timer is late enough for the i-th packet behind
those whose timers fired already (`TimersInTime`, `FiredInTime`), and that a timer
inserted in front of others, for a small packet, pushes each of these to the next
packet, for which it was late enough as well: it is later than one that was late
enough for that packet (`PlaceInOrder`, `DeparturesSetTimer`).

`Once` adds that no packet's number appears twice in the queue, in the handlers and
in `sent`; with it each step is one of `DelayLine` or a stutter.

`LinkInTime` is for the speed. `Due(k)` is the time at which the link has carried
everything up to the k-th queued packet, had it worked without a pause from the
start; the i-th timer is not before the i-th of these. The sum that `LongRunSpeed`
compares with the clock is then at most the time of the timer that fired last.

### The parts

All are theorems of `Parts`' `Spec`, next to the five of `PartsProofs` above:

| module | theorem | states | for every |
|---|---|---|---|
| `QueueProofs` | `ListCorrect` | `Spec => []ListIsSequence` | set of nodes, capacity, sequence of calls |
| | `ImplementsFifo` | `Spec => FifoSpec` | the same |
| `LoopProofs` | `TQEsInOnePlace` | `Spec => []TQEsInOneList` | set of clients, delays and intervals, calls from any handler |
| | `ImplementsTimerService` | `Spec => TimerServiceSpec` | the same |
| | `HandlersAgree` | `Spec => []DescriptorsHaveHandlers` | set of descriptors, calls from any handler |
| | `StopsWhenIdle` | `Spec => StopsOnlyWhenIdle` | the same |
| `StartupProofs` | `OptionsStayWithinLimits` | `Spec => []OptionsWithinLimits` | command line, meaning of its texts, place of a SIGINT |
| | `GetoptFindsAllOptions` | `Spec => []GetoptFindsOptions` | command line, letters of `optstring`, with and without `POSIXLY_CORRECT` |
| `ErrorsProofs` | `GilbertModelCorrect` | `Spec => []GilbertModel` | percentages of `-U`, `RAND_MAX` |
| | `BitErrorsCorrect` | `Spec => []BitErrorsHitPacket` | packet size, `RAND_MAX`, width of `int` |

* **The list.** The calls include an item that is `NULL`, which is refused, and a
  `malloc` of `addQueue` that fails, which ends the program. `QueueInv` says that there is a sequence of different nodes, of at
  most `Capacity`, that `next` follows from the root and `prev` from the last, and
  that no other node is allocated. `ListIsSequence` bounds its length by the
  heap's for TLC. `WalkFindsList` is the induction that walking from `last` along `prev`
  visits that sequence, which `Contents` of the refinement needs.
* **The timers.** `Kept` is the invariant of the TQEs: both lists have different
  elements, together all that were allocated, the queue is sorted by time and has
  one TQE per client. For each operation there is a lemma that it keeps `Kept`
  (`SetKeeps`, `CancelKeeps`, `ExpireIs`), and one on what it does to `Pending`, the
  timers that clients see (`PendingSet`, `PendingWithout`). A TQE keeps the interval it
  was freed with (`Inherited`); that a one-shot timer never finds one needs that
  the program never set one (`NoIntervals`). `LoopAssumption` wants as many TQEs as
  clients: `malloc` gives one when it is asked (`RoomForClient`).
* **The notifier.** `Listed` relates list, set and greatest descriptor.
  `StopsOnlyWhenIdle` compares with a limit copied before the timers' handlers ran,
  so the invariant has to keep what it was a copy of (`SelectOk`).
* **The options.** Whatever an option does to a proper record of options, the
  record stays proper or `errF` is set, and the program exits (`OptionsInv`). The two
  assumptions on texts are that a fraction is below a second, which six digits
  are, and that `INADDR_NONE`, which `inet_addr` returns for "no address", is no
  host's.
* **The command line.** `GetoptFindsOptions` compares the calls of `getopt` with
  `Parse`, which reads a command line that nobody permutes, from its end. An
  invariant of the two says what is still to come. `Ahead` is what a reading from
  `getopt`'s place finds: from an element, or from a letter within one
  (`AfterLetters`). Then `Scanning` says that what was returned so far, joined with
  the options ahead, is all that `Parse` finds, and that the operands already
  skipped, joined with those ahead, are all its operands. `Positioned` is
  what makes both sides comparable while `argv` changes: the indices are in order,
  what is not scanned yet is as it was, and without permutation nothing is skipped.
  Each step of a call keeps the two sums. `Exchanged` shows that `exchange` moves the
  skipped operands, whole and in order, to where the next ones are found;
  `OperandsSkipped` and `DashesSkipped` that they are joined by those passed over or
  behind "--"; `OptionReturned` that one letter less is ahead, with its argument.
  `ElementReached` puts them together, `GetoptReturns` is the whole call, and
  `GetoptInv` the inductive invariant of `main`. `Readings` is a recursive function over the
  places of a command line; that it has a value (`ReadingsExist`) and what an
  element's is (`ReadingsStep`, `OperandsRead`) are inductions from the end.
  `GetoptAssumption` has what `optstring` grants: a letter is in it once, with a ':' or
  without, and none is -1, which means the end.
* **The errors.** `ErrorsInv` bounds the bits already changed by those tried, and
  each by the reach of its product modulo the width of `int` (`Reach`).
  `GilbertModel` compares numbers of values of `rand()`, counted by
  `Cardinality`. `ErrorsAssumption` has what C grants: an `int` has an even number
  of values on each side of 0 and `RAND_MAX` fits into it.

No module declares a `RECURSIVE` operator. The sums that the proofs are about are
recursive functions (`Sums`), and induction over them is instantiated from the well-foundedness of the
natural numbers with a set in place of a predicate (`NumberTheorems`, `Induction`).

### Only model-checked

* `TransferCompletes`, `PacketsLeave`, `FlushEnds`, `InterruptStopsLoop`: liveness.
* The runs that find a violation. The check of `RangeAssumption` is TLC's alone: no
  proof uses it.

## 6. The plan

Done: the protocol, the emulator, the parts they rest on, and the proofs of all
their safety properties and of all five refinements. Left: `Transfer` over the
emulator's delay line instead of `Network`.

## 7. Not modelled

* `gammln` and the distribution of `bnldev` and `rand`: floating-point numerics.
  Whatever they return, `Errors` allows.
* The text of titles, statistics, usage and logs, and the counters of bytes and
  speeds that only they use; the round-trip estimate of `sender.java`, which is
  written to the log and never used as a timeout.
* getopt's long options, YP lookup, `notify_set_socket`: no caller, or not built.
* `winsocklib.c` and `uname.c`: single calls of the system without state.
* A `malloc` that fails in `assembleItem`, in `Emulator` (in `UdpQueue` both that one,
  whose `NULL` is refused, and `addQueue`'s own are modelled), and interrupts inside one
  operation on a list: what they leave depends on the machine code.
* Liveness and ENABLED are out of the provers' reach: they stay with TLC.
