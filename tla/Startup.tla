------------------------------- MODULE Startup ------------------------------
(***************************************************************************)
(* newudpl's main, versions 1.4 and 1.5: the options, what is opened and   *)
(* installed step by step and given back at the end, and SIGINT, which may *)
(* come at any point of it.  What happens inside the loop is abstracted to *)
(* the timers it leaves pending (see Emulator).                            *)
(***************************************************************************)
EXTENDS Options

CONSTANTS CommandLines, MaxInterrupts    \* bounds

ASSUME StartupAssumption ==
  /\ CommandLines \subseteq Seq(Seq(STRING))
  /\ DOMAIN NumberOf \subseteq DOMAIN FractionOf
  /\ MaxInterrupts \in Nat

VARIABLES version, args,     \* of the program, and its command line
          scan, results,     \* getopt's state, and what it returned so far
          options, phase,
          open, handlers,    \* what is open; what is installed
          stopping,          \* notify's stop, with its reason
          timersPending,     \* are there packets to send?
          interrupts,
          caught             \* did one reach sigHandler while in the loop?

startupVars == <<version, args, scan, results, options, phase, open, handlers,
                 stopping, timersPending, interrupts, caught>>

StartupInit ==
  /\ version = "none" /\ args = <<>> /\ scan = Scan(<<>>, "PERMUTE")
  /\ results = <<>> /\ options = Defaults /\ phase = "exec"
  /\ open = {} /\ handlers = {} /\ stopping = "no" /\ timersPending = FALSE
  /\ interrupts = 0 /\ caught = FALSE

ParserStays  == UNCHANGED <<version, args, scan, results, options>>
SignalsStay  == UNCHANGED <<interrupts, caught>>
ProgramStays == UNCHANGED <<open, handlers, stopping, timersPending>>

Running == phase \notin {"exec", "exit", "killed", "crashed"}

\* The environment decides by POSIXLY_CORRECT how operands are treated.
Exec(v, a, order) ==
  /\ phase = "exec"
  /\ version' = v /\ args' = a /\ scan' = Scan(a, order)
  /\ phase' = "initOptions"
  /\ UNCHANGED <<results, options>> /\ ProgramStays /\ SignalsStay

\* main's next step, or its exit because this one failed.
Goes(from, to) ==
  /\ phase = from
  /\ phase' = to
  /\ ParserStays /\ SignalsStay

Fails ==
  /\ phase \in {"initOptions", "openReadfd", "openWritfd", "openQueue", "printTitle",
                "closeReadfd", "closeWritfd"}
  /\ Goes(phase, "exit")
  /\ ProgramStays

InitOptions == Goes("initOptions", "parse") /\ ProgramStays

-----------------------------------------------------------------------------
(* parseCmdLine *)

\* usage and exit, for a letter that is unknown or asks for it, or a text
\* that does not fit.
ParseOption ==
  LET s == getopt(scan)
      o == SetOption(options, s.c, s.optarg, version)
  IN  /\ phase = "parse" /\ s.c # "EOF"
      /\ scan' = s /\ options' = o
      /\ results' = Append(results, <<s.c, s.optarg>>)
      /\ phase' = IF s.c \in {"?", "h"} \/ o.errF THEN "exit" ELSE "parse"
      /\ UNCHANGED <<version, args>> /\ ProgramStays /\ SignalsStay

\* Operands are refused.
ParseEnds ==
  LET s == getopt(scan)
  IN  /\ phase = "parse" /\ s.c = "EOF"
      /\ scan' = s
      /\ phase' = IF s.optind # argc(s) THEN "exit" ELSE "openReadfd"
      /\ UNCHANGED <<version, args, results, options>> /\ ProgramStays /\ SignalsStay

-----------------------------------------------------------------------------
(* init, printTitle and the handlers *)

Opens(from, to, what) ==
  /\ Goes(from, to)
  /\ open' = open \cup {what}
  /\ UNCHANGED <<handlers, stopping, timersPending>>

Installs(from, to, what) ==
  /\ Goes(from, to)
  /\ handlers' = handlers \cup {what}
  /\ UNCHANGED <<open, stopping, timersPending>>

OpenReadfd == Opens("openReadfd", "openWritfd", "readfd")
OpenWritfd == Opens("openWritfd", "openQueue", "writfd")
OpenQueue  == Opens("openQueue", "printTitle", "queue")
PrintTitle == Goes("printTitle", "setStdin") /\ ProgramStays

SetStdin  == Installs("setStdin", "setSigint", "stdin")
SetSigint == Installs("setSigint", "setReadfd", "SIGINT")
SetReadfd == Installs("setReadfd", "notifyStart", "readfd")

\* notify_start begins with stop = 0: an interrupt before is forgotten.
StartLoop ==
  /\ Goes("notifyStart", "loop")
  /\ stopping' = "no"
  /\ UNCHANGED <<open, handlers, timersPending>>

-----------------------------------------------------------------------------
(* The loop, as main sees it *)

InLoop == phase = "loop" /\ ParserStays /\ SignalsStay /\ UNCHANGED open

\* Packets come only while readHandler is installed, and leave.
Traffic ==
  /\ InLoop /\ stopping # "error"
  /\ timersPending' = ~timersPending
  /\ timersPending \/ "readfd" \in handlers
  /\ UNCHANGED <<handlers, stopping, phase>>

\* Mutant: readHandler stays installed.
FlushOnly == /\ timersPending' = FALSE
             /\ UNCHANGED handlers

\* flushQueue removes readHandler and waits until no timer is pending.
flushQueue == /\ timersPending' = FALSE
              /\ handlers' = handlers \ {"readfd"}

StopCommand ==
  /\ InLoop /\ stopping = "no"
  /\ flushQueue
  /\ stopping' = "quit"
  /\ UNCHANGED phase

\* A handler that cannot receive, send or account for a packet stops the loop.
ErrorStop ==
  /\ InLoop
  /\ stopping' = "error"
  /\ UNCHANGED <<handlers, timersPending, phase>>

LoopEnds ==
  /\ phase = "loop" /\ stopping # "no"
  /\ Goes("loop", "statistics")
  /\ ProgramStays

LoopFails ==
  /\ version = "1.5"
  /\ Goes("loop", "exit")
  /\ ProgramStays

\* 1.4 goes on as if the loop had been stopped.
LoopFails14 ==
  /\ version = "1.4"
  /\ Goes("loop", "statistics")
  /\ stopping' = "error"
  /\ UNCHANGED <<open, handlers, timersPending>>

PrintStatistics == Goes("statistics", "closeReadfd") /\ ProgramStays

Closes(from, to, what) ==
  /\ Goes(from, to)
  /\ open' = open \ {what}
  /\ UNCHANGED <<handlers, stopping, timersPending>>

Destroy ==
  \/ Closes("closeReadfd", "closeWritfd", "readfd")
  \/ Closes("closeWritfd", "closeQueue", "writfd")
  \/ Closes("closeQueue", "return", "queue")

Return == Goes("return", "exit") /\ ProgramStays

-----------------------------------------------------------------------------
(* SIGINT *)

Interrupt ==
  /\ Running /\ interrupts < MaxInterrupts
  /\ interrupts' = interrupts + 1
  /\ ParserStays

Killed ==
  /\ Interrupt /\ "SIGINT" \notin handlers
  /\ phase' = "killed"
  /\ ProgramStays /\ UNCHANGED caught

\* Mutant: the handler leaves the stopping to the loop.
FlushOnInterrupt ==
  /\ Interrupt /\ "SIGINT" \in handlers
  /\ timersPending => "queue" \in open
  /\ flushQueue
  /\ caught' = (caught \/ phase = "loop")
  /\ UNCHANGED <<phase, open, stopping>>

\* sigHandler flushes the queue and stops the loop.
sigHandler ==
  /\ Interrupt /\ "SIGINT" \in handlers
  /\ timersPending => "queue" \in open
  /\ flushQueue
  /\ stopping' = IF stopping = "error" THEN stopping ELSE "quit"
  /\ caught' = (caught \/ phase = "loop")
  /\ UNCHANGED <<phase, open>>

\* The same, on top of a readHandler that goes on to set its timer.
sigHandlerInReadHandler ==
  /\ Interrupt /\ phase = "loop" /\ {"SIGINT", "readfd"} \subseteq handlers
  /\ handlers' = handlers \ {"readfd"} /\ timersPending' = TRUE
  /\ stopping' = IF stopping = "error" THEN stopping ELSE "quit"
  /\ caught' = TRUE
  /\ UNCHANGED <<phase, open>>

\* sendHandler takes a packet from the queue that closeQueue has freed.
UseAfterClose ==
  /\ Interrupt /\ "SIGINT" \in handlers
  /\ timersPending /\ "queue" \notin open
  /\ phase' = "crashed"
  /\ ProgramStays /\ UNCHANGED caught

-----------------------------------------------------------------------------
\* main's steps outside parseCmdLine.
MainStep ==
  \/ InitOptions
  \/ OpenReadfd \/ OpenWritfd \/ OpenQueue \/ PrintTitle
  \/ SetStdin \/ SetSigint \/ SetReadfd \/ StartLoop
  \/ LoopEnds \/ PrintStatistics \/ Destroy \/ Return

StartupNext ==
  \/ \E v \in {"1.4", "1.5"}, a \in CommandLines, order \in {"PERMUTE", "REQUIRE_ORDER"} :
       Exec(v, a, order)
  \/ ParseOption \/ ParseEnds
  \/ MainStep \/ Fails
  \/ Traffic \/ StopCommand \/ ErrorStop \/ LoopFails \/ LoopFails14
  \/ Killed \/ sigHandler \/ sigHandlerInReadHandler \/ UseAfterClose

-----------------------------------------------------------------------------
(* Properties *)

\* getopt returns the options that one reading of the command line finds, in
\* their order, and ends at the operands, all of them, in theirs, although it
\* permutes argv while it scans it (getopt.c:227, 345, 373).
GetoptFindsOptions ==
  LET parsed == Parse(args, scan.ordering)
  IN  /\ IsPrefix(results, parsed.found)
      /\ scan.c = "EOF" =>
           /\ results = parsed.found
           /\ SubSeq(scan.argv, scan.optind, Len(scan.argv)) = parsed.operands

\* The limits of newudpl.c:113.
WithinLimits(o, v) ==
  /\ {o.readPort, o.writPort} \subseteq UserPorts
  /\ {o.srceHostPort, o.destHostPort} \subseteq Ports
  /\ o.speed \in Speeds /\ o.ether \in {Ethers[1], Ethers[2], Ethers[3]}
  /\ o.delay.tv_sec \in 0..10 /\ o.delay.tv_usec \in Usecs
  /\ o.inQBufSize \in QueueSizes /\ o.bitError \in BitErrors
  /\ {o.randomLoss, o.outOfOrder} \subseteq Percents
  /\ INADDR_ANY \notin {o.srceHostIpN, o.destHostIpN}
  /\ v = "1.5" => INADDR_NONE \notin {o.srceHostIpN, o.destHostIpN}

\* What calcDepTime, select and recvfrom rely on: a program that opens its
\* ports has every option within its limits, whatever was on the command
\* line, but for the probabilities of -C and -U, which nothing checks; the
\* delay may exceed its limit by less than a second.
OptionsWithinLimits ==
  phase \notin {"exec", "initOptions", "parse", "exit", "killed"} =>
    WithinLimits(options, version)

\* An interrupt between closeQueue and the end of the program finds no timer
\* pending, and so leaves the freed queue alone, unless an error had ended the
\* loop or an earlier interrupt had come in the middle of readHandler
\* (newudpl.c:482, 1066, 1154).
ClosedQueueIsNotFlushed ==
  phase = "crashed" => stopping = "error" \/ interrupts > 1

\* "traps ctr-c and stop the emulator" (newudpl.c:1056), once the loop runs:
\* the program comes to its end and does not stay in the loop without a
\* readHandler.
InterruptStopsLoop == caught ~> ~Running
=============================================================================
