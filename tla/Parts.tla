-------------------------------- MODULE Parts -------------------------------
(***************************************************************************)
(* The parts that Emulator and Wire abstract from, each on its own: a      *)
(* behaviour chooses one of them and then only that part takes steps.      *)
(***************************************************************************)
EXTENDS UdpQueue, EventLoop, Startup, DepartureTime, Errors, Win32Clock, Checksum

VARIABLE part

partsVars == <<part, queueVars, loopVars, startupVars, linkVars, errorVars, clockVars,
               checksumVars>>

Init ==
  /\ part \in {"queue", "loop", "startup", "link", "errors", "clock", "checksum"}
  /\ QueueInit /\ LoopInit /\ StartupInit /\ LinkInit /\ ErrorsInit /\ ClockInit
  /\ ChecksumInit

\* Every part but the one that takes a step.
OthersStay(p) ==
  /\ part = p /\ UNCHANGED part
  /\ p # "queue"    => UNCHANGED queueVars
  /\ p # "loop"     => UNCHANGED loopVars
  /\ p # "startup"  => UNCHANGED startupVars
  /\ p # "link"     => UNCHANGED linkVars
  /\ p # "errors"   => UNCHANGED errorVars
  /\ p # "clock"    => UNCHANGED clockVars
  /\ p # "checksum" => UNCHANGED checksumVars

Next ==
  \/ OthersStay("queue")    /\ QueueNext
  \/ OthersStay("loop")     /\ LoopNext
  \/ OthersStay("startup")  /\ StartupNext
  \/ OthersStay("link")     /\ LinkNext
  \/ OthersStay("errors")   /\ ErrorsNext
  \/ OthersStay("clock")    /\ ClockNext
  \/ OthersStay("checksum") /\ ChecksumNext

\* main goes on where it can, once it has parsed the command line.
Spec == Init /\ [][Next]_partsVars /\ WF_startupVars(MainStep)
=============================================================================
