---------------------------- MODULE MCEmulator ------------------------------
(* Instances of Emulator for TLC: the options and bounds are in the .cfg.   *)
EXTENDS Emulator

MCSrceHost == [ip |-> "hostA", port |-> 5000]
MCSenders  == {MCSrceHost, [ip |-> "hostA", port |-> 5001]}
AnyPort    == [ip |-> "hostA", port |-> 0]
=============================================================================
