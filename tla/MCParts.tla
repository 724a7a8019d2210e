------------------------------ MODULE MCParts -------------------------------
(* Instances of Parts for TLC.                                             *)
EXTENDS Parts

(* Startup: texts that are numbers, hosts, separators and junk. *)

MCNumberOf ==
  [t \in {"0", "1", "2", "5", "10", "11", "99", "100", "5000", "60000"} |->
     CASE t = "0" -> 0 [] t = "1" -> 1 [] t = "2" -> 2 [] t = "5" -> 5 [] t = "10" -> 10
       [] t = "11" -> 11 [] t = "99" -> 99 [] t = "100" -> 100
       [] t = "5000" -> 5000 [] OTHER -> 60000]

MCFractionOf ==
  [t \in DOMAIN MCNumberOf |->
     CASE t = "0" -> 0 [] t \in {"1", "10", "100"} -> 100000 [] t = "2" -> 200000
       [] t \in {"5", "5000"} -> 500000 [] t = "11" -> 110000 [] t = "99" -> 990000
       [] OTHER -> 600000]

MCAddressOf ==
  [t \in {"hostA", "5", "5000", "0"} |->
     CASE t = "hostA" -> 2 [] t = "5" -> 5 [] t = "5000" -> 5000 [] OTHER -> 0]

Arguments ==
  {<<"0">>, <<"1">>, <<"99">>, <<"100">>, <<"5000">>, <<"60000">>, <<"x">>,
   <<"5", "x">>, <<"0", "x">>, <<"5000", ":", "5000">>, <<":", "5000">>,
   <<"5000", ":">>, <<":">>, <<"hostA">>, <<"hostA", ":", "5000">>,
   <<"hostB", "/", "*">>, <<"hostA", ":", "x">>, <<"10", ".", "5">>, <<"11">>,
   <<"0", ".", "5">>, <<".", "5">>, <<"1", ".", "5", "x">>, <<"1", ".", "x">>}

MCCommandLines ==
  {<< <<"-", c>>, a>> : c \in TakeArgument, a \in Arguments} \cup
  {<<>>,
   << <<"-", "m", "v">>, <<"x">> >>,
   << <<"x">>, <<"-", "v">>, <<"y">>, <<"-", "s", "5">>, <<"-", "m">> >>,
   << <<"x">>, <<"-", "v">>, <<"-", "-">>, <<"-", "m">> >>,
   << <<"-", "v">>, <<"-", "-">> >>,
   << <<"-", "v", "s">>, <<"5">>, <<"-", "d">>, <<"1">>, <<"-", "z">> >>,
   << <<"-", "v", "s">> >>, << <<"-", "v", "h">> >>, << <<"-", "m", "w">> >>,
   << <<"-">>, <<"-", "v">>, <<>>, <<"x">>, <<"-", "m">>, <<"y">>, <<"-", "v">> >>}

(* DepartureTime: from a link of 1 kb/s to one as fast as the Ethernet. *)

MCLinkOptions ==
  [version : {"1.4", "1.5"}, speed : {1, 8, 1000, 10000}, ether : {10000},
   delay : {Timeval(0, 0), Timeval(0, 500000), Timeval(10, 999999)}, calcMode : {0, 1}]

(* Errors: percentages of -L, -C and -U. *)

MCErrorOptions ==
  [randomLoss : {0, 99}, gilCondLoss : {0, 1, 40, 100, 150}, gilUncondLoss : {0, 10, 60, 99, 100, 150}]

(* Checksum: two words before the checksum's and up to two after them. *)

MCSegments ==
  {h \o <<0, 0>> \o t : h \in {<<0, 0>>, <<1, 0>>, <<3, 3>>, <<0, 3>>},
                       t \in {<<>>, <<1>>, <<3>>, <<0, 0>>, <<3, 3>>, <<0, 0, 3>>}}
=============================================================================
